----------------------------- MODULE PornripsFeed -----------------------------
(***************************************************************************)
(* The PornRips sync (jobs/pornrips_ingest.go, pornrips_enrich.go,          *)
(* pornrips_sync.go, mongo/pornrips_entries.go): a walk over the WordPress  *)
(* feed that upserts a listing entry for each post, a backfill of torrent   *)
(* hashes, and two passes that look scenes up at TPDB and StashDB.  The     *)
(* deployed job and the one-off that fills the archive share the collection *)
(* and the cursor.                                                          *)
(***************************************************************************)
EXTENDS Integers, FiniteSets

CONSTANTS
  LastPost,      (* posts are numbered as they are published, 1..LastPost       *)
  FeedPage,      (* posts on a page of the feed                                 *)
  PagesPerTick,  (* pages a walk reads in one run                               *)
  PassSize,      (* entries a pass takes up                                     *)
  Window,        (* the newest posts are recent enough for a second lookup      *)
  NoTorrent,     (* posts whose .torrent cannot be fetched                      *)
  InDatabases,   (* posts whose scene TPDB or StashDB adds some time             *)
  Runners,       (* processes that run the sync                                 *)
  Archive,       (* those that walk the whole feed, from the cursor             *)
  IngestOnly,    (* those that only walk                                        *)
  MaxHiccups     (* requests and writes that may fail                           *)

ASSUME PornripsAssumption == Archive \subseteq Runners
ASSUME PornripsBounds ==
  /\ FeedPage \in Nat \ {0} /\ PagesPerTick \in Nat \ {0}
  /\ LastPost \in Nat /\ PassSize \in Nat /\ Window \in Nat /\ MaxHiccups \in Nat

VARIABLES
  published,  (* the newest post                                               *)
  known,      (* the posts whose scene TPDB or StashDB has                      *)
  entry,      (* pornrips_entries: Unentered, or the fields the sweeps read     *)
  place,      (* the cursor in the key-value collection                         *)
  runner,     (* each runner's progress                                         *)
  hiccups,
  skipped     (* history: entries whose upsert failed                           *)
(* `due`, of the cursor and of a runner, is history as well: what was published *)
(* when the walk began that the cursor, or the run, goes on with.               *)

feedVars == <<published, known, entry, place, runner, hiccups, skipped>>

Unentered == [there |-> FALSE]
NewEntry == [there |-> TRUE, hash |-> FALSE, tried |-> FALSE, hit |-> FALSE]
Posts == 1..LastPost
Entered == {p \in Posts : entry[p].there}
None == [post |-> 0, result |-> "none"]
Idle == [pc |-> "idle", skip |-> 0, pages |-> 0, batch |-> {}, held |-> None, since |-> {}, due |-> {}]
Top == [skip |-> 0, due |-> {}]

FeedInit ==
  /\ published = 0 /\ known = {} /\ place = Top /\ hiccups = 0
  /\ entry = [p \in Posts |-> Unentered]
  /\ runner = [r \in Runners |-> Idle]
  /\ skipped = {}

MayHiccup == hiccups < MaxHiccups

(* find().sort(date: -1).limit(limit); a limit of 0 is replaced by a default. *)
Latest(limit, posts) == {p \in posts : Cardinality({q \in posts : q > p}) < limit}
Again == IF PassSize \div 2 = 0 THEN 25 ELSE PassSize \div 2

(* A post is published; a scene is added to TPDB some time later. *)
Publish ==
  /\ published < LastPost
  /\ published' = published + 1
  /\ UNCHANGED <<known, entry, place, runner, hiccups, skipped>>
Learn(p) ==
  /\ p \in (InDatabases \cap 1..published) \ known
  /\ known' = known \cup {p}
  /\ UNCHANGED <<published, entry, place, runner, hiccups, skipped>>

(* PornripsIngest: the walk starts at the cursor, at the top when it cannot    *)
(* be read or in recent-only mode.                                             *)
Begins(r) ==
  /\ runner[r].pc = "idle"
  /\ \E read \in IF MayHiccup /\ r \in Archive THEN {TRUE, FALSE} ELSE {TRUE} :
       LET from == IF r \in Archive /\ read THEN place ELSE Top
           due == IF from.skip = 0 THEN 1..published ELSE from.due
       IN
       /\ runner' = [runner EXCEPT ![r] = [Idle EXCEPT !.pc = "ingest", !.skip = from.skip, !.due = due]]
       /\ hiccups' = IF read THEN hiccups ELSE hiccups + 1
  /\ UNCHANGED <<published, known, entry, place, skipped>>

(* FetchRecent: the skip picks a whole page of the feed, newest first. *)
PageAt(skip) ==
  LET first == (skip \div FeedPage) * FeedPage
  IN  {p \in 1..published : published - p \in first..(first + FeedPage - 1)}

(* UpsertPornripsEntry: listing fields are set, enrichment only on insert;     *)
(* info_hash is a listing field, and the walk passes it empty.                 *)
IngestedAll(e) == NewEntry      (* IngestedAll: the enrichment fields in $set, too *)
Ingested(e) == IF e.there THEN [e EXCEPT !.hash = FALSE] ELSE NewEntry

(* Only a walk of the whole feed stores its cursor; an error of this write is   *)
(* not looked at.  `hic` counts what failed in the step before it.              *)
StoreCursor(r, new, hic) ==
  \/ /\ place' = IF r \in Archive THEN new ELSE place
     /\ hiccups' = hic
  \/ /\ r \in Archive /\ hic < MaxHiccups
     /\ place' = place /\ hiccups' = hic + 1
AfterIngest(r) == IF r \in IngestOnly THEN "idle" ELSE "backfill"

LastPage(r) == runner[r].pages + 1 = PagesPerTick

(* The page comes back with posts; those whose upsert fails are passed over. *)
ReadPage(r) ==
  LET items == PageAt(runner[r].skip)
      skip == runner[r].skip + Cardinality(items)
      done == LastPage(r)
  IN
  /\ runner[r].pc = "ingest" /\ items # {}
  /\ \E bad \in {b \in SUBSET items : hiccups + Cardinality(b) <= MaxHiccups} :
       /\ entry' = [p \in Posts |-> IF p \in items \ bad THEN Ingested(entry[p]) ELSE entry[p]]
       /\ skipped' = skipped \cup bad
       /\ LET hic == hiccups + Cardinality(bad) IN
          IF done THEN StoreCursor(r, [skip |-> skip, due |-> runner[r].due], hic)
          ELSE place' = place /\ hiccups' = hic
  /\ runner' = [runner EXCEPT ![r].skip = skip, ![r].pages = @ + 1, ![r].pc = IF done THEN AfterIngest(r) ELSE @]
  /\ UNCHANGED <<published, known>>

(* The end of the feed: the next walk starts at the top. *)
AtEnd(r) == runner[r].pc = "ingest" /\ PageAt(runner[r].skip) = {}
EndOfFeed(r) ==
  /\ AtEnd(r)
  /\ runner' = [runner EXCEPT ![r].pc = AfterIngest(r)]
  /\ StoreCursor(r, Top, hiccups)
  /\ UNCHANGED <<published, known, entry, skipped>>

(* A page that cannot be fetched ends the walk where it is; its cursor is not  *)
(* stored, and the enrichment goes on.                                         *)
FeedFailsKept(r) ==       (* FeedFailsKept: goes on behind the page that failed *)
  /\ runner[r].pc = "ingest" /\ MayHiccup
  /\ runner' = [runner EXCEPT ![r].pc = AfterIngest(r)]
  /\ StoreCursor(r, [skip |-> runner[r].skip + FeedPage, due |-> runner[r].due], hiccups + 1)
  /\ UNCHANGED <<published, known, entry, skipped>>
FeedFails(r) ==
  /\ runner[r].pc = "ingest" /\ MayHiccup
  /\ hiccups' = hiccups + 1
  /\ runner' = [runner EXCEPT ![r].pc = AfterIngest(r)]
  /\ UNCHANGED <<published, known, entry, place, skipped>>

(* pornripsTorrentBackfill: newest first, those without a hash. *)
ReadBackfill(r) ==
  /\ runner[r].pc = "backfill"
  /\ runner' = [runner EXCEPT ![r].pc = "hash", ![r].batch = Latest(PassSize, {p \in Entered : ~entry[p].hash})]
  /\ UNCHANGED <<published, known, entry, place, hiccups, skipped>>

(* The .torrent is fetched and its hash written; else the entry is left. *)
Backfill(r, p) ==
  /\ runner[r].pc = "hash" /\ p \in runner[r].batch
  /\ \/ /\ p \notin NoTorrent
        /\ entry' = [entry EXCEPT ![p].hash = TRUE]
        /\ hiccups' = hiccups
     \/ /\ p \in NoTorrent \/ MayHiccup
        /\ hiccups' = IF p \in NoTorrent THEN hiccups ELSE hiccups + 1
        /\ UNCHANGED <<entry>>
  /\ runner' = [runner EXCEPT ![r].batch = @ \ {p}]
  /\ UNCHANGED <<published, known, place, skipped>>

(* The first pass takes entries neither source was asked about; tickStart is   *)
(* taken here, so `since` holds what was enriched after it.                    *)
Lacking == {p \in Entered : ~entry[p].tried}
ReadMissing(r) ==
  /\ runner[r].pc = "hash" /\ runner[r].batch = {}
  /\ runner' = [runner EXCEPT ![r].pc = "enrich", ![r].since = {}, ![r].batch = Latest(PassSize, Lacking)]
  /\ UNCHANGED <<published, known, entry, place, hiccups, skipped>>

(* The second pass takes recent entries without a match that were tried before *)
(* this run.                                                                   *)
Missed(r) == {p \in Entered : /\ entry[p].tried /\ ~entry[p].hit
                             /\ p > published - Window /\ p \notin runner[r].since}
ReadMissed(r) ==
  /\ runner[r].pc = "enrich" /\ runner[r].batch = {} /\ runner[r].held = None
  /\ runner' = [runner EXCEPT ![r].pc = "again", ![r].batch = Latest(Again, Missed(r))]
  /\ UNCHANGED <<published, known, entry, place, hiccups, skipped>>

(* enrichOnePornripsEntry: the lookups; a transient failure of either source   *)
(* leaves the entry as it is.                                                  *)
LookingUp(r) == runner[r].pc \in {"enrich", "again"}
Lookup(r, p) ==
  /\ LookingUp(r) /\ p \in runner[r].batch /\ runner[r].held = None
  /\ \/ /\ runner' = [runner EXCEPT ![r].batch = @ \ {p},
                     ![r].held = [post |-> p, result |-> IF p \in known THEN "hit" ELSE "miss"]]
        /\ hiccups' = hiccups
     \/ /\ MayHiccup
        /\ runner' = [runner EXCEPT ![r].batch = @ \ {p}]
        /\ hiccups' = hiccups + 1
  /\ UNCHANGED <<published, known, entry, place, skipped>>

(* UpdatePornripsEnrichment: both sources tried, the title of a hit or none. *)
Written(e, result) == [e EXCEPT !.tried = TRUE, !.hit = (result = "hit")]
Write(r) ==
  /\ runner[r].held # None
  /\ entry' = [entry EXCEPT ![runner[r].held.post] = Written(@, runner[r].held.result)]
  /\ runner' = [q \in Runners |->
       [runner[q] EXCEPT !.since = IF LookingUp(q) THEN @ \cup {runner[r].held.post} ELSE @,
                      !.held = IF q = r THEN None ELSE @]]
  /\ UNCHANGED <<published, known, place, hiccups, skipped>>
WriteFails(r) ==              (* an error of this write is not looked at *)
  /\ runner[r].held # None /\ MayHiccup
  /\ runner' = [runner EXCEPT ![r].held = None] /\ hiccups' = hiccups + 1
  /\ UNCHANGED <<published, known, entry, place, skipped>>

Finish(r) ==
  /\ runner[r].pc = "again" /\ runner[r].batch = {} /\ runner[r].held = None
  /\ runner' = [runner EXCEPT ![r] = Idle]
  /\ UNCHANGED <<published, known, entry, place, hiccups, skipped>>

(* The process stops; the collection and the cursor are what it left. *)
Crash(r) ==
  /\ runner[r].pc # "idle" /\ MayHiccup
  /\ runner' = [runner EXCEPT ![r] = Idle] /\ hiccups' = hiccups + 1
  /\ UNCHANGED <<published, known, entry, place, skipped>>

RunnerStep(r) ==
  \/ Begins(r) \/ ReadPage(r) \/ EndOfFeed(r)
  \/ ReadBackfill(r) \/ ReadMissing(r) \/ ReadMissed(r) \/ Write(r) \/ Finish(r)
  \/ \E p \in Posts : Backfill(r, p) \/ Lookup(r, p)

FeedNext ==
  \/ Publish
  \/ \E p \in Posts : Learn(p)
  \/ \E r \in Runners : RunnerStep(r) \/ FeedFails(r) \/ WriteFails(r) \/ Crash(r)

FeedSpec == FeedInit /\ [][FeedNext]_feedVars

-----------------------------------------------------------------------------
FeedTypeOK ==
  /\ published \in 0..LastPost /\ known \subseteq 1..published /\ place.skip \in Nat /\ hiccups \in 0..MaxHiccups
  /\ Entered \subseteq 1..published
  /\ \A r \in Runners :
       /\ runner[r].pc \in {"idle", "ingest", "backfill", "hash", "enrich", "again"}
       /\ runner[r].skip \in Nat /\ runner[r].pages \in 0..PagesPerTick
       /\ runner[r].batch \subseteq Entered
       /\ runner[r].held.post \in Entered \cup {0}

(* A walk that reaches the end of the feed has stored every post that was       *)
(* published when it began, over as many runs as that took, whatever was        *)
(* published meanwhile and wherever it broke off.                               *)
WalkCovers ==
  [][\A r \in Archive : EndOfFeed(r) => runner[r].due \subseteq Entered \cup skipped]_feedVars

(* A walk leaves the enrichment of the entries it meets again intact. *)
EnrichedKept ==
  [][\A p \in Posts : entry[p].there /\ entry[p].hit => entry'[p].there /\ entry'[p].hit]_feedVars
=============================================================================
