---------------------------- MODULE CatalogCache ----------------------------
(***************************************************************************)
(* The read-through caches of the Stremio addon (internal/stremio/*.go over *)
(* redis_store.go and services/redis/client.go).  A request for a page      *)
(* looks its key up in Redis; on a miss it asks the source (a scraper       *)
(* fan-out, or a Mongo collection a job fills), writes the page under the   *)
(* key and answers it.  Installs with different configurations share the    *)
(* keys; a warming job writes some of them; the match tick and the          *)
(* operators' bust delete them while requests are in flight.  One control   *)
(* serves every catalog, meta and stream cache: what differs between them   *)
(* is the profile of the site.                                              *)
(***************************************************************************)
EXTENDS Integers, FiniteSets

CONSTANTS
  Rows,        (* the releases a page can list                                  *)
  Indexers,    (* where a release was found                                     *)
  IndexerOf,   (* the indexer of each row                                       *)
  InScope,     (* the rows whose resolution is in the scope of the catalog      *)
  Base,        (* the indexers every install reads (hiddenbay)                  *)
  Installs,    (* the configured addons that send requests                      *)
  Enabled,     (* the indexers the configuration of an install turns on         *)
  Job,         (* the warming job                                               *)
  NoPage,      (* no value under a Redis key                                    *)
  ColdKey,     (* the key of a search that was answered without a scene store   *)
  Profiles,    (* the profiles checked                                          *)
  MaxFaults,   (* bound on the failures of Redis and of the source              *)
  MaxBusts     (* bound on the busts an operator asks for                       *)

ASSUME CatalogCacheAssumption ==
  /\ IndexerOf \in [Rows -> Indexers]
  /\ Enabled \in [Installs -> SUBSET Indexers]
  /\ Base \in SUBSET Indexers /\ \A n \in Installs : Base \subseteq Enabled[n]
  /\ InScope \subseteq Rows
  /\ \A rows \in SUBSET Rows : NoPage # rows
  /\ \A key \in SUBSET Indexers : ColdKey # key
  /\ Job \notin Installs
  /\ MaxFaults \in Nat /\ MaxBusts \in Nat

(***************************************************************************)
(* The sites.  keyed: the key names the indexers of the install; gated: a   *)
(* page holds rows of the enabled indexers only; scoped: rows outside the   *)
(* resolution of the catalog are dropped, on a hit as well; empties: an     *)
(* empty page is written, and found; partial: a fan-out may lose a branch   *)
(* without an error; warmed: a job writes the page of the base key;         *)
(* mirrored: that job also writes a durable copy, asked before the source;  *)
(* ticked: the match tick deletes the keys; cold: served without the gate   *)
(* while no scene store is wired.                                           *)
(***************************************************************************)
TorrentPages ==
  [id |-> "torrents", keyed |-> FALSE, gated |-> FALSE, scoped |-> FALSE, empties |-> FALSE,
   partial |-> FALSE, warmed |-> FALSE, mirrored |-> FALSE, ticked |-> FALSE, cold |-> FALSE]
EntryPages == [TorrentPages EXCEPT !.id = "entries"]
DetailPages == [TorrentPages EXCEPT !.id = "details"]
TubePages == [TorrentPages EXCEPT !.id = "tube"]

(* loadCatalogTorrents. *)
List == [TorrentPages EXCEPT !.id = "list", !.keyed = TRUE, !.gated = TRUE, !.scoped = TRUE,
                             !.partial = TRUE, !.warmed = TRUE]
TPDBBrowse == [TorrentPages EXCEPT !.id = "tpdbBrowse", !.keyed = TRUE, !.gated = TRUE,
                                   !.ticked = TRUE]
TPDBSearch == [TorrentPages EXCEPT !.id = "tpdbSearch", !.keyed = TRUE, !.gated = TRUE,
                                   !.cold = TRUE]
PornStreams == [DetailPages EXCEPT !.id = "pornStreams", !.gated = TRUE]
PornripsList == [TorrentPages EXCEPT !.id = "pornripsList"]
PornripsMeta == [DetailPages EXCEPT !.id = "pornripsMeta"]
SukebeiList == [EntryPages EXCEPT !.id = "sukebeiList", !.partial = TRUE, !.warmed = TRUE,
                                  !.mirrored = TRUE]
SukebeiSearch == [EntryPages EXCEPT !.id = "sukebeiSearch", !.partial = TRUE]
StripchatList == [EntryPages EXCEPT !.id = "stripchatList", !.partial = TRUE]
HentaiList == [DetailPages EXCEPT !.id = "hentaiList", !.empties = TRUE]
HentaiMeta == [DetailPages EXCEPT !.id = "hentaiMeta"]
HentaiStream == [DetailPages EXCEPT !.id = "hentaiStream"]
TubeList == [TubePages EXCEPT !.id = "tubeList", !.empties = TRUE]
Yesporn == [TubeList EXCEPT !.id = "ypv"]
FreePornVideos == [TubeList EXCEPT !.id = "fpv"]
Perverzija == [TubeList EXCEPT !.id = "pvz"]
Porneec == [TubeList EXCEPT !.id = "pec"]
WatchPorn == [TubeList EXCEPT !.id = "wpt"]
TubeMeta == [TubePages EXCEPT !.id = "tubeMeta"]
TubeStream == [TubePages EXCEPT !.id = "tubeStream"]

ASSUME ProfilesAssumption ==
  \A p \in Profiles :
    /\ {p.keyed, p.gated, p.scoped, p.empties, p.partial, p.warmed, p.mirrored, p.ticked, p.cold} \subseteq BOOLEAN
    /\ p.cold => ~p.mirrored

VARIABLES
  profile,   (* the profile in this behaviour                                  *)
  world,     (* the rows the source holds, which a job only adds to            *)
  wired,     (* the scene store is there                                       *)
  cache,     (* Redis: the page under each key                                 *)
  mirror,    (* the durable copy of the warming job                            *)
  stage,     (* a client does nothing, asks the source or writes its page      *)
  brought,   (* the page it got from the source                                *)
  answer,    (* what the last step answered, and to which install              *)
  due,       (* a match tick found something: its bust is due                  *)
  sweep,     (* the keys a bust has scanned and not deleted yet                *)
  faults, busts,
  floor,     (* history: what the source held when the last bust began         *)
  complete,  (* history: that bust deleted all it scanned                      *)
  stale,     (* history: clients whose page was read before it began           *)
  late       (* history: keys such a client has written since                  *)

bustVars == <<sweep, due, busts, floor, complete, stale, late>>
cacheVars == <<profile, world, wired, cache, mirror, stage, brought, answer, faults, bustVars>>

Clients == Installs \cup {Job}
Keys == {Base} \cup {Enabled[n] : n \in Installs} \cup {{}, ColdKey}

(* The indexers of a client: the job scrapes hiddenbay only. *)
Reads(n) == IF n = Job THEN Base ELSE Enabled[n]

(* buildCatalogListKey, sourcesKey. *)
SharedKey(n) == {}                     (* SharedKey: a key that names no source *)
KeyOf(n) == IF profile.keyed THEN Reads(n) ELSE {}

(* The key a search is written under: coldKey until a store is wired. *)
WriteKey(n) == IF profile.cold /\ ~wired THEN ColdKey ELSE KeyOf(n)

(* What the source has for a client: matchedSourcesFilter; the fan-out to the *)
(* enabled indexers; filterByQualityScope, which the job does not apply.       *)
Gate(n) == IF profile.gated /\ ~(profile.cold /\ ~wired) THEN {r \in Rows : IndexerOf[r] \in Reads(n)}
                                                   ELSE Rows
Scope(n) == IF profile.scoped /\ n # Job THEN InScope ELSE Rows
Source(n, w) == w \cap Gate(n) \cap Scope(n)

(* applyCatalogTorrentFilters, on a page that was cached. *)
OnHit(n, rows) ==
  IF profile.scoped THEN {r \in rows : r \in InScope /\ IndexerOf[r] \in Reads(n)} ELSE rows

Hit(v) == v # NoPage /\ (v # {} \/ profile.empties)

CacheInit ==
  /\ profile \in Profiles
  /\ world = {}
  /\ wired \in (IF profile.cold THEN BOOLEAN ELSE {TRUE})
  /\ cache = [k \in Keys |-> NoPage]
  /\ mirror = {}
  /\ stage = [n \in Clients |-> "idle"]
  /\ brought = [n \in Clients |-> {}]
  /\ answer = [to |-> Job, rows |-> {}]
  /\ due = FALSE /\ sweep = {}
  /\ faults = 0 /\ busts = 0
  /\ floor = {} /\ complete = TRUE /\ stale = {} /\ late = {}

(* The sites whose pages a bust is to refresh: not those that fall back to the *)
(* mirror, lose branches or share a key between different pages.               *)
Followed == (profile.gated => profile.keyed) /\ ~profile.mirrored /\ ~profile.partial

Fault == faults < MaxFaults /\ faults' = faults + 1
Answered(n, rows) == answer' = [to |-> n, rows |-> IF n = Job THEN {} ELSE rows]
Quiet == answer' = [to |-> Job, rows |-> {}]              (* a step that answers nobody *)

(* A request: the page is under its key, ... *)
Begin(n) ==
  /\ stage[n] = "idle" /\ n # Job
  /\ \/ /\ Hit(cache[KeyOf(n)])
        /\ Answered(n, OnHit(n, cache[KeyOf(n)]))
        /\ UNCHANGED <<stage, faults>>
     \/ /\ ~Hit(cache[KeyOf(n)]) /\ UNCHANGED faults
        /\ stage' = [stage EXCEPT ![n] = "fetch"] /\ Quiet
     \/ /\ Fault                            (* ... or Redis does not answer *)
        /\ stage' = [stage EXCEPT ![n] = "fetch"] /\ Quiet
  /\ UNCHANGED <<profile, world, wired, cache, mirror, brought, bustVars>>

(* runRedisCatalogCache and runSukebeiCatalogCache scrape without looking. *)
BeginJob ==
  /\ profile.warmed /\ stage[Job] = "idle"
  /\ stage' = [stage EXCEPT ![Job] = "fetch"]
  /\ Quiet
  /\ UNCHANGED <<profile, world, wired, cache, mirror, brought, faults, bustVars>>

(* The source answers; a fan-out drops the branches that fail; the mirror is  *)
(* asked first.                                                                *)
Fetch(n) ==
  /\ stage[n] = "fetch"
  /\ \/ /\ UNCHANGED faults
        /\ brought' = [brought EXCEPT ![n] =
             IF profile.mirrored /\ n # Job /\ mirror # {} THEN mirror ELSE Source(n, world)]
     \/ /\ profile.partial /\ Fault
        /\ \E rows \in SUBSET Source(n, world) : brought' = [brought EXCEPT ![n] = rows]
  /\ stage' = [stage EXCEPT ![n] = "put"]
  /\ stale' = stale \ {n}
  /\ Quiet
  /\ UNCHANGED <<profile, world, wired, cache, mirror, sweep, due, busts, floor, complete, late>>

(* An error of the source: an empty page or the error is answered.  The next   *)
(* request asks again: nothing is written.                                     *)
FetchFails(n) ==
  /\ stage[n] = "fetch" /\ Fault
  /\ stage' = [stage EXCEPT ![n] = "idle"]
  /\ Answered(n, {})
  /\ UNCHANGED <<profile, world, wired, cache, mirror, brought, bustVars>>

(* Which pages are worth writing. *)
Worth(rows) == rows # {} \/ profile.empties

(* SetSukebeiCatalog: the job's page replaces the durable copy. *)
Mirror(n) == IF profile.mirrored /\ n = Job THEN brought[n] ELSE mirror

(* The page is written under the key and answered; an error of Redis is ignored. *)
Put(n) ==
  LET k == WriteKey(n) IN
  /\ stage[n] = "put"
  /\ \/ /\ Worth(brought[n]) /\ UNCHANGED faults
        /\ cache' = [cache EXCEPT ![k] = brought[n]]
        /\ mirror' = Mirror(n)
        /\ late' = IF n \in stale THEN late \cup {k} ELSE late \ {k}
     \/ /\ ~Worth(brought[n]) /\ UNCHANGED <<cache, mirror, late, faults>>
     \/ /\ Worth(brought[n]) /\ Fault /\ UNCHANGED <<cache, mirror, late>>
  /\ Answered(n, OnHit(n, brought[n]))
  /\ stage' = [stage EXCEPT ![n] = "idle"] /\ brought' = [brought EXCEPT ![n] = {}]
  /\ stale' = stale \ {n}
  /\ UNCHANGED <<profile, world, wired, sweep, due, busts, floor, complete>>

(* A TTL runs out. *)
RunsOut(k) ==
  /\ cache[k] # NoPage
  /\ cache' = [cache EXCEPT ![k] = NoPage]
  /\ late' = late \ {k}
  /\ Quiet
  /\ UNCHANGED <<profile, world, wired, mirror, stage, brought, faults, sweep, due, busts, floor, complete,
                 stale>>

(* A sync or a match adds a row; the match tick busts when it did. *)
Grow(r) ==
  /\ r \notin world
  /\ world' = world \cup {r}
  /\ due' = profile.ticked
  /\ Quiet
  /\ UNCHANGED <<profile, wired, cache, mirror, stage, brought, faults, sweep, busts, floor, complete,
                 stale, late>>

(* A restart with a scene store: the requests in flight are lost, Redis stays. *)
Wire ==
  /\ ~wired /\ wired' = TRUE
  /\ stage' = [n \in Clients |-> "idle"] /\ brought' = [n \in Clients |-> {}]
  /\ Quiet
  /\ sweep' = {} /\ complete' = (complete /\ sweep = {})
  /\ UNCHANGED <<profile, world, cache, mirror, faults, due, busts, floor, stale, late>>

(* DelByPrefix: keys are scanned and deleted in batches; an error stops it. *)
MatchingBase == {k \in {Base, {}} : cache[k] # NoPage}  (* MatchingBase: not the keys of other installs *)
Matching == {k \in Keys : cache[k] # NoPage}

BustBegin ==
  /\ sweep = {}
  /\ \/ due /\ due' = FALSE /\ UNCHANGED busts
     \/ busts < MaxBusts /\ busts' = busts + 1 /\ UNCHANGED due
  /\ sweep' = Matching /\ complete' = (Matching = {})
  /\ floor' = IF Followed THEN world ELSE {}
  /\ stale' = {n \in Clients : Followed /\ stage[n] = "put"} /\ late' = {}
  /\ Quiet
  /\ UNCHANGED <<profile, world, wired, cache, mirror, stage, brought, faults>>

BustKey(k) ==
  /\ k \in sweep
  /\ \/ /\ cache' = [cache EXCEPT ![k] = NoPage]
        /\ sweep' = sweep \ {k} /\ complete' = (sweep = {k})
        /\ late' = late \ {k} /\ UNCHANGED faults
     \/ /\ Fault
        /\ sweep' = {} /\ UNCHANGED <<cache, complete, late>>
  /\ Quiet
  /\ UNCHANGED <<profile, world, wired, mirror, stage, brought, due, busts, floor, stale>>

CacheNext ==
  \/ \E n \in Clients : Begin(n) \/ Fetch(n) \/ FetchFails(n) \/ Put(n)
  \/ BeginJob \/ Wire \/ BustBegin
  \/ \E r \in Rows : Grow(r)
  \/ \E k \in Keys : RunsOut(k) \/ BustKey(k)

CacheSpec == CacheInit /\ [][CacheNext]_cacheVars

-----------------------------------------------------------------------------
CacheTypeOK ==
  /\ profile \in Profiles /\ wired \in BOOLEAN
  /\ world \in SUBSET Rows /\ mirror \in SUBSET Rows
  /\ cache \in [Keys -> {NoPage} \cup {rows \in SUBSET Rows : rows # {} \/ profile.empties}]
  /\ stage \in [Clients -> {"idle", "fetch", "put"}]
  /\ brought \in [Clients -> SUBSET Rows]
  /\ answer \in [to : Clients, rows : SUBSET Rows]
  /\ due \in BOOLEAN /\ complete \in BOOLEAN
  /\ sweep \in SUBSET Keys /\ late \in SUBSET Keys /\ stale \in SUBSET Clients
  /\ floor \in SUBSET Rows
  /\ faults \in 0..MaxFaults /\ busts \in 0..MaxBusts

(* Whoever filled the cache before it (another install, the job, a search of   *)
(* the time before a scene store was wired), an install whose pages are keyed  *)
(* by its sources is never answered a row of a source it turned off.           *)
SourceGate ==
  profile.gated /\ profile.keyed /\ wired => \A r \in answer.rows : IndexerOf[r] \in Reads(answer.to)

(* What the page under a key is to hold. *)
Whole(k, w) ==
  {r \in w : (profile.gated /\ profile.keyed => IndexerOf[r] \in k) /\ (profile.scoped => r \in InScope)}

(* Once a bust has deleted all it scanned, a page lacks a row the source held  *)
(* when the bust began only if a request that had read the source before wrote *)
(* it afterwards: the one way an old page survives the bust.                   *)
BustHolds ==
  Followed /\ complete =>
    \A k \in Keys \ {ColdKey} : cache[k] # NoPage /\ k \notin late => Whole(k, floor) \subseteq cache[k]
=============================================================================
