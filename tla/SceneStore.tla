------------------------------ MODULE SceneStore ------------------------------
(***************************************************************************)
(* The enriched_scenes store (jobs/enriched_scenes_sync.go,                 *)
(* mongo/enriched_scenes.go, stremio/tpdb_catalog.go): the sync discovers   *)
(* TPDB scenes page by page, the pages shared out among its keys, and       *)
(* matches them against the torrent sources; a search enriches the scenes   *)
(* it showed at the same time.  The catalog lists a scene for an addon      *)
(* whose sources matched it, and its streams come from the same record.     *)
(* The 1337x scraper answers from its cache (scraper/x1337_cache.go).       *)
(***************************************************************************)
EXTENDS Integers, FiniteSets, Sequences

CONSTANTS
  Scenes,     (* numbered by date                                              *)
  Browse,     (* the scenes on each page TPDB lists                            *)
  FullPage,   (* scenes on a full page                                         *)
  Keys,       (* 1..n, the TPDB keys                                           *)
  Sources,    (* the torrent sources of the sync: profiles below               *)
  Finds,      (* the scenes each source has a release of                       *)
  PerSource,  (* scenes the sync takes up for a source                         *)
  Configs,    (* sets of sources that addons are configured with               *)
  MaxLost     (* requests and writes that may fail                             *)

ASSUME SceneAssumption ==
  /\ IsFiniteSet(Scenes) /\ IsFiniteSet(Keys) /\ Keys \subseteq Nat
  /\ Browse \in Seq(SUBSET Scenes)
  /\ Configs \subseteq SUBSET Sources
  /\ \A src \in Sources \cup {"1337x", "pornrips"} : Finds[src] \subseteq Scenes
ASSUME SceneBounds == MaxLost \in Nat

(* What sets a source apart: whether a failing search reads as an empty one,    *)
(* whether a search is answered from a cache that a background job fills, and   *)
(* whether a row of its result carries a magnet link.                           *)
Plain == [hides |-> FALSE, cached |-> FALSE, magnet |-> TRUE]
SourceProfile(source) ==
  CASE source = "piratebay" -> [Plain EXCEPT !.hides = TRUE]
    [] source = "1337x" -> [Plain EXCEPT !.cached = TRUE, !.magnet = FALSE]
    [] OTHER -> Plain           (* knaben_adult, xxxclub, and pornrips from Mongo *)

VARIABLES
  scene,     (* the records: sources attempted and matched, and the torrents    *)
  linked,    (* scenes some PornRips entry with a hash is the release of        *)
  cached,    (* searches the 1337x cache holds                                  *)
  pending,   (* searches it has queued                                          *)
  stride,    (* each key's next page, 0 when it has ended                       *)
  sync,      (* the sync's phase and the sources left                           *)
  jobs,      (* the matches that run, of the sync and of searches               *)
  lost

sceneVars == <<scene, linked, cached, pending, stride, sync, jobs, lost>>

NoScene == [there |-> FALSE]
Blank == [there |-> TRUE, meta |-> FALSE, attempted |-> {}, matched |-> {}, torrents |-> [s \in Sources |-> "none"]]
There == {s \in Scenes : scene[s].there}
MayLose == lost < MaxLost
NewestOf(limit, some) == {s \in some : Cardinality({t \in some : t > s}) < limit}

SceneInit ==
  /\ scene = [s \in Scenes |-> NoScene]
  /\ linked = {} /\ cached = {} /\ pending = {}
  /\ stride = [k \in Keys |-> 0]
  /\ sync = [pc |-> "idle", left |-> {}] /\ jobs = {}
  /\ lost = 0

(* UpsertEnrichedScene: the metadata only on insert, sources added to their     *)
(* sets, the torrent of one source set by its dotted key.                       *)
OrBlank(old) == IF old.there THEN old ELSE Blank
MergeWhole(old, source, ref) ==      (* MergeWhole: the torrents without their dotted key *)
  [OrBlank(old) EXCEPT
    !.attempted = @ \cup {source},
    !.matched = IF ref = "none" THEN @ ELSE @ \cup {source},
    !.torrents = IF ref = "none" THEN @ ELSE [Blank.torrents EXCEPT ![source] = ref]]
Merge(old, source, ref) ==
  [OrBlank(old) EXCEPT
    !.attempted = @ \cup {source},
    !.matched = IF ref = "none" THEN @ ELSE @ \cup {source},
    !.torrents[source] = IF ref = "none" THEN @ ELSE ref]
Stub == [Blank EXCEPT !.meta = TRUE]
Stubbed(old) == IF old.there THEN old ELSE Stub

(* discoverTPDBScenes: key i walks the pages i, i + n, i + 2n ... up to its     *)
(* first empty or short page.                                                   *)
PageOf(n) == IF n \in DOMAIN Browse THEN Browse[n] ELSE {}
Discover ==
  /\ sync.pc = "idle"
  /\ sync' = [sync EXCEPT !.pc = "discover"]
  /\ stride' = [k \in Keys |-> k]
  /\ UNCHANGED <<scene, linked, cached, pending, jobs, lost>>

Striding(k) == sync.pc = "discover" /\ stride[k] # 0
WalkPage(k) ==
  LET items == PageOf(stride[k]) IN
  /\ Striding(k)
  /\ \E bad \in {b \in SUBSET items : lost + Cardinality(b) <= MaxLost} :
       /\ scene' = [s \in Scenes |-> IF s \in items \ bad THEN Stubbed(scene[s]) ELSE scene[s]]
       /\ lost' = lost + Cardinality(bad)
  /\ stride' = [stride EXCEPT ![k] =
       IF Cardinality(items) < FullPage \/ @ + Cardinality(Keys) > Len(Browse)
       THEN 0 ELSE @ + Cardinality(Keys)]
  /\ UNCHANGED <<linked, cached, pending, sync, jobs>>

(* Every retry of a page has failed. *)
StrideFails(k) ==
  /\ Striding(k) /\ MayLose
  /\ stride' = [stride EXCEPT ![k] = 0] /\ lost' = lost + 1
  /\ UNCHANGED <<scene, linked, cached, pending, sync, jobs>>

(* wg.Wait: the strides have ended, and the sync goes on with the sources.      *)
Discovered ==
  /\ sync.pc = "discover" /\ \A k \in Keys : stride[k] = 0
  /\ sync' = [pc |-> "match", left |-> Sources]
  /\ UNCHANGED <<scene, linked, cached, pending, stride, jobs, lost>>

(* matchEnrichedScenes: a source's batch, once the one before has ended.        *)
Mine(actor) == {j \in jobs : j.by = actor}
Job(actor, s, source) == [by |-> actor, scene |-> s, source |-> source, ref |-> "", clean |-> FALSE]
Unmatched(source) == {s \in There : source \notin scene[s].attempted}
NextSource ==
  /\ sync.pc = "match" /\ Mine("sync") = {}
  /\ IF sync.left = {}
     THEN sync' = [sync EXCEPT !.pc = "idle"] /\ jobs' = jobs
     ELSE \E source \in sync.left :
            /\ sync' = [sync EXCEPT !.left = @ \ {source}]
            /\ jobs' = jobs \cup {Job("sync", s, source) : s \in NewestOf(PerSource, Unmatched(source))}
  /\ UNCHANGED <<scene, linked, cached, pending, stride, lost>>

(* A search shows scenes; those no configured source has matched are stored as  *)
(* stubs and matched in the background, unless too many searches are.           *)
Search(s, sources) ==
  /\ Mine("search") = {}
  /\ s \in There => scene[s].matched \cap sources = {}
  /\ \/ scene' = [scene EXCEPT ![s] = Stubbed(@)] /\ lost' = lost
     \/ scene' = scene /\ MayLose /\ lost' = lost + 1
  /\ jobs' = jobs \cup {Job("search", s, source) : source \in sources}
  /\ UNCHANGED <<linked, cached, pending, stride, sync>>
(* Its thirty seconds are over: what has not been written is not written.       *)
SearchTimesOut ==
  /\ Mine("search") # {} /\ jobs' = jobs \ Mine("search")
  /\ UNCHANGED <<scene, linked, cached, pending, stride, sync, lost>>

(* matchSceneSource: what the lookup of a job returns.                          *)
Found(j) ==
  IF j.source = "pornrips" THEN j.scene \in linked ELSE j.scene \in Finds[j.source]
Ref(j) == IF ~Found(j) THEN "none" ELSE IF SourceProfile(j.source).magnet THEN "hash" ELSE "nohash"
Cold(j) == SourceProfile(j.source).cached /\ j.scene \notin cached
Return(j, ref, clean) == jobs' = (jobs \ {j}) \cup {[j EXCEPT !.ref = ref, !.clean = clean]}

Answers(j) ==
  /\ j.ref = "" /\ ~Cold(j)
  /\ Return(j, Ref(j), TRUE)
  /\ UNCHANGED <<scene, linked, cached, pending, stride, sync, lost>>
(* The 1337x cache has nothing yet: an empty result, and a refresh is queued.   *)
CacheMisses(j) ==
  /\ j.ref = "" /\ Cold(j)
  /\ pending' = pending \cup {j.scene}
  /\ Return(j, "none", TRUE)
  /\ UNCHANGED <<scene, linked, cached, stride, sync, lost>>
(* A failed search is reported, except by findMatchingTorrent, which leaves the *)
(* query and comes to the end of its loop.                                      *)
Reported(j) == ~SourceProfile(j.source).hides
SearchFails(j) ==
  /\ j.ref = "" /\ ~Cold(j) /\ MayLose /\ lost' = lost + 1
  /\ Return(j, "none", ~Reported(j))
  /\ UNCHANGED <<scene, linked, cached, pending, stride, sync>>

(* The result is written; after a transient failure nothing is.                 *)
Store(j) ==
  /\ j.ref # ""
  /\ \/ /\ scene' = IF j.clean THEN [scene EXCEPT ![j.scene] = Merge(@, j.source, j.ref)] ELSE scene
        /\ lost' = lost
     \/ scene' = scene /\ MayLose /\ lost' = lost + 1
  /\ jobs' = jobs \ {j}
  /\ UNCHANGED <<linked, cached, pending, stride, sync>>

(* The worker of the cache; PornRips entries come and lose their hash.          *)
Refresh(s) ==
  /\ s \in pending
  /\ pending' = pending \ {s}
  /\ cached' \in IF s \in Finds["1337x"] THEN {cached \cup {s}, cached} ELSE {cached}
  /\ UNCHANGED <<scene, linked, stride, sync, jobs, lost>>
Relink(s) ==
  /\ s \in Finds["pornrips"]
  /\ linked' = IF s \in linked THEN linked \ {s} ELSE linked \cup {s}
  /\ UNCHANGED <<scene, cached, pending, stride, sync, jobs, lost>>

SyncStep ==
  \/ Discover \/ Discovered \/ NextSource
  \/ \E k \in Keys : WalkPage(k)
JobStep(by) == \E j \in Mine(by) : Answers(j) \/ CacheMisses(j) \/ Store(j)

SceneNext ==
  \/ SyncStep \/ JobStep("sync") \/ JobStep("search") \/ SearchTimesOut
  \/ \E k \in Keys : StrideFails(k)
  \/ \E s \in Scenes : (\E sources \in Configs : Search(s, sources)) \/ Refresh(s) \/ Relink(s)
  \/ \E j \in jobs : SearchFails(j)

SceneSpec == SceneInit /\ [][SceneNext]_sceneVars

(* The catalog and the streams of an addon (sceneStreams).                      *)
Shows(sources) == {s \in There : scene[s].matched \cap sources # {}}
StreamsBest(s, sources) ==      (* StreamsBest: only the source with the best releases *)
  {src \in {"knaben_adult"} \cap sources \cap Sources : scene[s].torrents[src] = "hash"}
Streams(s, sources) == {src \in sources \cap Sources : scene[s].torrents[src] = "hash"}

-----------------------------------------------------------------------------
(* Every variable has its type, and no source is matched that was not attempted. *)
SceneTypeOK ==
  /\ \A s \in There :
       /\ scene[s].matched \subseteq scene[s].attempted /\ scene[s].attempted \subseteq Sources
       /\ scene[s].torrents \in [Sources -> {"none", "nohash", "hash"}]
  /\ linked \subseteq Scenes /\ cached \subseteq Scenes /\ pending \subseteq Scenes
  /\ stride \in [Keys -> Nat] /\ lost \in 0..MaxLost
  /\ sync.pc \in {"idle", "discover", "match"} /\ sync.left \subseteq Sources
  /\ \A j \in jobs : j.scene \in There \/ j.by = "search"

(* A release that was found for a scene is never lost to a later write.         *)
MatchKept ==
  [][\A s \in There : scene'[s].there /\ \A src \in scene[s].matched : scene'[s].torrents[src] # "none"]_sceneVars

(* A scene the catalog lists for an addon has a stream for that addon.  It holds *)
(* of sources whose rows carry a magnet, and fails for the rows of 1337x.         *)
ListedOpens == \A sources \in Configs : \A s \in Shows(sources) : Streams(s, sources) # {}
=============================================================================
