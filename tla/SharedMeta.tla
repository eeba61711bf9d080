----------------------------- MODULE SharedMeta -----------------------------
(***************************************************************************)
(* The two stores of resolved TPDB/StashDB metadata, for one torrent: the  *)
(* durable Mongo collection shared_meta and the Redis cache in front of it *)
(* (30-day TTL, flushable).  The metadata enricher's tick reads the two,   *)
(* copies what one lacks from the other, and looks up what neither has;    *)
(* the Stremio catalog writes Redis only, the description-image job writes *)
(* both.  A stored entry is reduced to whether it carries a poster, the    *)
(* field the code tests and the cover image shows.                         *)
(***************************************************************************)
EXTENDS Integers, FiniteSets

CONSTANTS
  Sources,   (* the configured metadata sources: "tpdb", "stashdb"              *)
  Writers,   (* the other writers at work: <<"live", s>> or <<"inline", s>>     *)
  MaxFaults  (* bound on the store calls that fail                              *)

ASSUME SharedMetaAssumption ==
  /\ Sources \subseteq {"tpdb", "stashdb"} /\ Sources # {}
  /\ Writers \subseteq {"live", "inline"} \X Sources
  /\ MaxFaults \in Nat

VARIABLES
  redis,   (* per source, the Redis entry: "none", "empty" (no poster), "poster" *)
  mongo,   (* per source, the shared_meta document, likewise                     *)
  miss,    (* per source, the catalog's negative-cache entry                     *)
  answer,  (* per source, what its API answers for this title today              *)
  pc,      (* the enricher's tick at this item                                   *)
  inRedis, inMongo,  (* the sources the tick's existence reads reported          *)
  pair,    (* what GetSharedMetaPair returned                                    *)
  job,     (* per source, the lookup goroutine and what it found                 *)
  live,    (* per source, a catalog request's live lookup and what it found      *)
  inline,  (* per source, resolveInline of the description-image job             *)
  faults

stores == <<redis, mongo, miss>>
tickVars == <<pc, inRedis, inMongo, pair, job>>
metaVars == <<redis, mongo, miss, answer, pc, inRedis, inMongo, pair, job, live, inline, faults>>

Kind == {"none", "empty", "poster"}
Hits == {"empty", "poster"}
(* The stages of a writer: its API call, then the store it writes next. *)
Stage == [at: {"idle", "probe", "redis", "mongo"}, got: Kind]
Idle == [at |-> "idle", got |-> "none"]

MetaInit ==
  /\ redis = [s \in Sources |-> "none"]
  /\ mongo = [s \in Sources |-> "none"]
  /\ miss = [s \in Sources |-> FALSE]
  /\ answer \in [Sources -> Kind]
  /\ pc = "idle"
  /\ inRedis = {} /\ inMongo = {}
  /\ pair = [s \in Sources |-> "none"]
  /\ job = [s \in Sources |-> Idle]
  /\ live = [s \in Sources |-> Idle]
  /\ inline = [s \in Sources |-> Idle]
  /\ faults = 0

(* A store call succeeds or, while the bound lasts, fails; one fault stands   *)
(* for the failing calls of one step, whichever sources they concern.         *)
Partly(old, new) ==
  {[s \in Sources |-> IF s \in S THEN new[s] ELSE old[s]] : S \in SUBSET Sources}
Succeeds == UNCHANGED faults
Fails == faults < MaxFaults /\ faults' = faults + 1

-----------------------------------------------------------------------------
(* The enricher's tick, from the drained item on.                          *)

(* The item has been drained with a title. *)
Drained ==
  /\ pc = "idle"
  /\ pc' = "readRedis"
  /\ UNCHANGED <<stores, answer, inRedis, inMongo, pair, job, live, inline, faults>>

(* ExistsManyShared: an entry without a poster counts as absent.  When MGET *)
(* fails it falls back to a plain EXISTS, which may fail as well.           *)
(* (PlainExists: the bug the poster test was written against.)              *)
PlainExists == {s \in Sources : redis[s] # "none"}
PosterAware == {s \in Sources : redis[s] = "poster"}

ReadRedis ==
  /\ pc = "readRedis"
  /\ \/ Succeeds /\ inRedis' = PosterAware
     \/ Fails /\ inRedis' \in SUBSET {s \in Sources : redis[s] # "none"}
  /\ pc' = "readMongo"
  /\ UNCHANGED <<stores, answer, inMongo, pair, job, live, inline>>

(* ExistsSharedMany: any document counts. *)
ReadMongo ==
  /\ pc = "readMongo"
  /\ \/ Succeeds /\ inMongo' = {s \in Sources : mongo[s] # "none"}
     \/ Fails /\ inMongo' \in SUBSET {s \in Sources : mongo[s] # "none"}
  /\ pc' = "pair"
  /\ UNCHANGED <<stores, answer, inRedis, pair, job, live, inline>>

(* Some source is in Mongo and not in Redis: read both payloads.            *)
LoadPair ==
  /\ pc = "pair"
  /\ IF inMongo \ inRedis = {} THEN UNCHANGED pair /\ Succeeds
     ELSE \/ Succeeds /\ pair' = mongo
          \/ Fails /\ UNCHANGED pair
  /\ pc' = "toRedis"
  /\ UNCHANGED <<stores, answer, inRedis, inMongo, job, live, inline>>

(* Rehydrate Redis with every payload read that Redis was said to lack.     *)
Rehydrated(old) ==
  [s \in Sources |-> IF pair[s] # "none" /\ s \notin inRedis THEN pair[s] ELSE old[s]]

RehydrateRedis ==
  /\ pc = "toRedis"
  /\ \/ Succeeds /\ redis' = Rehydrated(redis)
     \/ Fails /\ redis' \in Partly(redis, Rehydrated(redis))
  /\ pair' = [s \in Sources |-> "none"]
  /\ pc' = "toMongo"
  /\ UNCHANGED <<mongo, miss, answer, inRedis, inMongo, job, live, inline>>

(* Rehydrate Mongo with the posters that only Redis holds: GetSharedMeta,   *)
(* then SetSharedMeta, of the sources Mongo was said to lack.               *)
CopyBack(old) ==
  [s \in Sources |->
     IF s \in inRedis \ inMongo /\ redis[s] = "poster" THEN "poster" ELSE old[s]]

RehydrateMongo ==
  /\ pc = "toMongo"
  /\ \/ Succeeds /\ mongo' = CopyBack(mongo)
     \/ Fails /\ mongo' \in Partly(mongo, CopyBack(mongo))
  /\ pc' = "decide"
  /\ UNCHANGED <<redis, miss, answer, inRedis, inMongo, pair, job, live, inline>>

(* A goroutine for every configured source that neither store was said to hold. *)
Decide ==
  /\ pc = "decide"
  /\ job' = [s \in Sources |->
               IF s \in inRedis \cup inMongo THEN Idle ELSE [at |-> "probe", got |-> "none"]]
  /\ pc' = "lookup"
  /\ UNCHANGED <<stores, answer, inRedis, inMongo, pair, live, inline, faults>>

(* The API answers a goroutine: a hit goes on to the stores, Redis first; a  *)
(* miss, an error and a rate limit end it (the requeue is MetaQueue's).      *)
JobProbe(s) ==
  /\ job[s].at = "probe"
  /\ \/ /\ answer[s] \in Hits
        /\ Succeeds
        /\ job' = [job EXCEPT ![s] = [at |-> "redis", got |-> answer[s]]]
     \/ answer[s] = "none" /\ Succeeds /\ job' = [job EXCEPT ![s] = Idle]
     \/ Fails /\ job' = [job EXCEPT ![s] = Idle]
  /\ UNCHANGED <<stores, answer, pc, inRedis, inMongo, pair, live, inline>>

(* The two writes of a hit; their errors are ignored. *)
JobPutRedis(s) ==
  /\ job[s].at = "redis"
  /\ \/ Succeeds /\ redis' = [redis EXCEPT ![s] = job[s].got]
     \/ Fails /\ UNCHANGED redis
  /\ job' = [job EXCEPT ![s].at = "mongo"]
  /\ UNCHANGED <<mongo, miss, answer, pc, inRedis, inMongo, pair, live, inline>>

JobPutMongo(s) ==
  /\ job[s].at = "mongo"
  /\ \/ Succeeds /\ mongo' = [mongo EXCEPT ![s] = job[s].got]
     \/ Fails /\ UNCHANGED mongo
  /\ job' = [job EXCEPT ![s] = Idle]
  /\ UNCHANGED <<redis, miss, answer, pc, inRedis, inMongo, pair, live, inline>>

(* wg.Wait, the end of the tick.  (NoWait: a bug that does not wait.) *)
NoWait == TRUE
AllAnswered == \A s \in Sources : job[s] = Idle

ItemDone ==
  /\ pc = "lookup"
  /\ AllAnswered
  /\ pc' = "idle"
  /\ inRedis' = {} /\ inMongo' = {}
  /\ UNCHANGED <<stores, answer, pair, job, live, inline, faults>>

-----------------------------------------------------------------------------
(* The other writers.                                                      *)

(* loadTpdbMeta / loadStashMeta of a catalog request: neither an entry (one  *)
(* without a poster has a title) nor a negative-cache entry: look up live.    *)
LiveStart(s) ==
  /\ <<"live", s>> \in Writers
  /\ live[s] = Idle /\ redis[s] = "none" /\ ~miss[s]
  /\ live' = [live EXCEPT ![s] = [at |-> "probe", got |-> "none"]]
  /\ UNCHANGED <<stores, answer, tickVars, inline, faults>>

(* A hit is cached in Redis only; a confirmed no-match in the negative cache; *)
(* a rate limit or a timeout leaves no trace.                                 *)
LiveEnd(s) ==
  /\ live[s].at = "probe"
  /\ \/ answer[s] \in Hits /\ Succeeds /\ redis' = [redis EXCEPT ![s] = answer[s]] /\ UNCHANGED miss
     \/ answer[s] = "none" /\ Succeeds /\ miss' = [miss EXCEPT ![s] = TRUE] /\ UNCHANGED redis
     \/ Fails /\ UNCHANGED <<redis, miss>>
  /\ live' = [live EXCEPT ![s] = Idle]
  /\ UNCHANGED <<mongo, answer, tickVars, inline>>

(* loadSharedMeta: Mongo first, Redis for what Mongo lacks.  resolveInline    *)
(* runs when the merged entry has no poster, one source after the other.      *)
Loaded(s) == IF mongo[s] # "none" THEN mongo[s] ELSE redis[s]

InlineProbe(s) ==
  /\ <<"inline", s>> \in Writers
  /\ \A r \in Sources : inline[r] = Idle /\ Loaded(r) # "poster"
  /\ answer[s] \in Hits
  /\ inline' = [inline EXCEPT ![s] = [at |-> "mongo", got |-> answer[s]]]
  /\ UNCHANGED <<stores, answer, tickVars, live, faults>>

InlinePutMongo(s) ==
  /\ inline[s].at = "mongo"
  /\ \/ Succeeds /\ mongo' = [mongo EXCEPT ![s] = inline[s].got]
     \/ Fails /\ UNCHANGED mongo
  /\ inline' = [inline EXCEPT ![s].at = "redis"]
  /\ UNCHANGED <<redis, miss, answer, tickVars, live>>

InlinePutRedis(s) ==
  /\ inline[s].at = "redis"
  /\ \/ Succeeds /\ redis' = [redis EXCEPT ![s] = inline[s].got]
     \/ Fails /\ UNCHANGED redis
  /\ inline' = [inline EXCEPT ![s] = Idle]
  /\ UNCHANGED <<mongo, miss, answer, tickVars, live>>

(* Redis forgets: the TTL of an entry, or a flush from the dashboard. *)
RedisForgets(s) ==
  /\ redis[s] # "none" \/ miss[s]
  /\ redis' = [redis EXCEPT ![s] = "none"]
  /\ miss' = [miss EXCEPT ![s] = FALSE]
  /\ UNCHANGED <<mongo, answer, tickVars, live, inline, faults>>

(* The site completes its record of the scene. *)
Improves(s) ==
  /\ answer[s] # "poster"
  /\ answer' = [answer EXCEPT ![s] = IF @ = "none" THEN "empty" ELSE "poster"]
  /\ UNCHANGED <<stores, tickVars, live, inline, faults>>

ItemStep ==
  \/ Drained \/ ReadRedis \/ ReadMongo \/ LoadPair
  \/ RehydrateRedis \/ RehydrateMongo \/ Decide \/ ItemDone
  \/ \E s \in Sources : JobProbe(s) \/ JobPutRedis(s) \/ JobPutMongo(s)

MetaNext ==
  \/ ItemStep
  \/ \E s \in Sources :
       \/ LiveStart(s) \/ LiveEnd(s)
       \/ InlineProbe(s) \/ InlinePutMongo(s) \/ InlinePutRedis(s)
       \/ RedisForgets(s) \/ Improves(s)

MetaSpec == MetaInit /\ [][MetaNext]_metaVars

(* Fairness: ticks come and end, and the torrent keeps being enqueued, as it *)
(* is each time a catalog, search or favorites page lists it.                *)
FairMetaSpec == MetaSpec /\ WF_metaVars(ItemStep)

-----------------------------------------------------------------------------
(* The variables' types; and the lookup goroutines only run inside the       *)
(* lookup phase of a tick, so that no two ticks write the same item.         *)
MetaTypeOK ==
  /\ redis \in [Sources -> Kind] /\ mongo \in [Sources -> Kind]
  /\ miss \in [Sources -> BOOLEAN] /\ answer \in [Sources -> Kind]
  /\ pc \in {"idle", "readRedis", "readMongo", "pair", "toRedis", "toMongo", "decide", "lookup"}
  /\ inRedis \subseteq Sources /\ inMongo \subseteq Sources
  /\ pair \in [Sources -> Kind]
  /\ job \in [Sources -> Stage] /\ live \in [Sources -> Stage] /\ inline \in [Sources -> Stage]
  /\ faults \in 0 .. MaxFaults
  /\ pc # "lookup" => \A s \in Sources : job[s] = Idle

(* "Rehydrate Redis from the durable Mongo store so the addon meta handler   *)
(* recovers after a TTL/flush without re-calling the APIs": while Mongo holds *)
(* a poster, Redis gets it back, whatever entry without a poster, expiry or   *)
(* failed call comes in between.                                              *)
RedisRecovers ==
  \A s \in Sources : (mongo[s] = "poster") ~> (redis[s] = "poster" \/ mongo[s] # "poster")

(* "Copy Redis -> Mongo so the store cover-image reads is filled": a poster   *)
(* that only Redis holds (the catalog's live lookup, a failed durable write)  *)
(* does not stay there alone.                                                 *)
PosterBecomesDurable ==
  \A s \in Sources :
    (redis[s] = "poster" /\ mongo[s] = "none") ~> (mongo[s] # "none" \/ redis[s] # "poster")

(* The two stores end up with the poster that either of them has.             *)
StoresConverge == RedisRecovers /\ PosterBecomesDurable

-----------------------------------------------------------------------------
(* What the comment in ExistsManyShared says: "Treat empty-poster entries as  *)
(* absent so the MetaEnricher re-probes and overwrites them."  Once the site  *)
(* has a poster, an entry without one does not stay in Redis for ever.        *)
EmptyPosterReprobed ==
  \A s \in Sources : (redis[s] = "empty" /\ answer[s] = "poster") ~> (redis[s] # "empty")
=============================================================================
