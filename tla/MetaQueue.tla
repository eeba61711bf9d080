------------------------------ MODULE MetaQueue ------------------------------
(***************************************************************************)
(* The pending queue of the metadata enricher and the tick that drains it  *)
(* (src/internal/services/jobs/meta_enricher.go).                          *)
(*                                                                         *)
(* HTTP handlers and other jobs enqueue torrents at any time; one tick at  *)
(* a time drains a batch, drops what has no title, and looks the rest up   *)
(* in goroutines behind a semaphore; a TPDB lookup that was rate limited   *)
(* puts its item back.  The data of an entry is reduced to what the code   *)
(* branches on: whether it has a title, and its priority.  Which batch     *)
(* items already have stored metadata is left open here (SharedMeta models *)
(* the stores).                                                            *)
(***************************************************************************)
EXTENDS Integers, FiniteSets

CONSTANTS
  Ids,         (* stable metadata ids (StableMetaID never returns "" here)      *)
  Favorites,   (* the ids a caller may enqueue with priority                    *)
  Configured,  (* the metadata sources with an API key: "tpdb", "stashdb"       *)
  MaxQueue,    (* META_ENRICHER_MAX_QUEUE                                       *)
  MaxPerTick,  (* META_ENRICHER_MAX_PER_TICK                                    *)
  Concurrency  (* META_ENRICHER_CONCURRENCY                                     *)

ASSUME MetaQueueAssumption ==
  /\ IsFiniteSet(Ids)
  /\ Favorites \subseteq Ids
  /\ Configured \subseteq {"tpdb", "stashdb"}
  /\ Configured # {}
  /\ MaxQueue \in Nat \ {0}
  /\ MaxPerTick \in Nat \ {0}
  /\ Concurrency \in Nat \ {0}

VARIABLES
  queue,    (* pending entries: a function whose domain is the pending ids      *)
  tick,     (* the enricher: "idle", "drained" (reading the stores), "lookup"   *)
  batch,    (* the entries with a title that the running tick drained           *)
  lookups,  (* the lookup goroutines of the running tick                        *)
  owed      (* history: ids requeue accepted after a rate limit, still undrained *)

vars == <<queue, tick, batch, lookups, owed>>

Entry == [title: BOOLEAN, priority: BOOLEAN]
Lookup == [id: Ids, entry: Entry, src: Configured, pc: {"waiting", "running"}]

Keep(q, S) == [i \in S |-> q[i]]
Put(q, i, e) == [j \in DOMAIN q \cup {i} |-> IF j = i THEN e ELSE q[j]]

(* The goroutines inside the semaphore.  (AllStarted: a bug that counts the  *)
(* ones still blocked on it.)                                                *)
AllStarted == lookups
Running == {l \in lookups : l.pc = "running"}

(* Is there room for another id?  (RoomOffByOne: a bug in the comparison.)   *)
RoomOffByOne == Cardinality(DOMAIN queue) <= MaxQueue
HasRoom == Cardinality(DOMAIN queue) < MaxQueue

(* A known id keeps its entry and gains what it lacked. *)
Merged(old, e) == [title |-> old.title \/ e.title, priority |-> old.priority \/ e.priority]

Init ==
  /\ queue = Keep([i \in Ids |-> 0], {})
  /\ tick = "idle"
  /\ batch = Keep([i \in Ids |-> 0], {})
  /\ lookups = {}
  /\ owed = {}

(* EnqueueMetaLookups, for one item of the call: a new id is taken only while *)
(* there is room.  A call with several items is several such steps.           *)

EnqueueMetaLookups(i, e) ==
  /\ e.priority => i \in Favorites
  /\ \/ /\ i \in DOMAIN queue
        /\ queue' = Put(queue, i, Merged(queue[i], e))
     \/ /\ i \notin DOMAIN queue
        /\ HasRoom
        /\ queue' = Put(queue, i, e)
  /\ UNCHANGED <<tick, batch, lookups, owed>>

(* The batches drain may take: MaxPerTick entries, or all there are; an entry *)
(* without priority only when no priority entry is left behind.  The code     *)
(* ranges over a Go map, so which entries of a class go is arbitrary.         *)
(* (AnyBatches: a bug that drains in map order.)                              *)
AnyBatches ==
  {D \in SUBSET DOMAIN queue :
     /\ Cardinality(D) <= MaxPerTick
     /\ Cardinality(D) < MaxPerTick => D = DOMAIN queue}
Batches ==
  {D \in SUBSET DOMAIN queue :
     /\ Cardinality(D) <= MaxPerTick
     /\ Cardinality(D) < MaxPerTick => D = DOMAIN queue
     /\ (\E i \in D : ~queue[i].priority) => \A i \in DOMAIN queue \ D : ~queue[i].priority}

(* What drain puts back.  (NoLeftover: a bug that keeps only the batch.)      *)
NoLeftover(D) == {}
Leftover(D) == DOMAIN queue \ D

(* Ticks are serialised by the scheduler's lock of the task.  (TicksOverlap: *)
(* a bug, or a manual trigger, that starts one beside the other.)            *)
TicksOverlap == tick \in {"idle", "lookup"}
MayTick == tick = "idle"

(* A tick begins: drain, then drop the entries without a title. *)
Drain ==
  /\ MayTick
  /\ DOMAIN queue # {}
  /\ \E D \in Batches :
       /\ queue' = Keep(queue, Leftover(D))
       /\ batch' = Keep(queue, {i \in D : queue[i].title})
       /\ owed' = owed \ D
  /\ tick' = "drained"
  /\ UNCHANGED lookups

(* The stores have been read: a goroutine is started for every source that *)
(* is configured and lacks the item's metadata ("need").                   *)
StartLookups(need) ==
  /\ tick = "drained"
  /\ lookups' = lookups \cup
       {[id |-> n[1], entry |-> batch[n[1]], src |-> n[2], pc |-> "waiting"] : n \in need}
  /\ tick' = "lookup"
  /\ UNCHANGED <<queue, batch, owed>>

(* A goroutine takes the semaphore.  (AlwaysFree: a bug that never blocks.) *)
AlwaysFree == TRUE
SlotFree == Cardinality(Running) < Concurrency

Acquire(l) ==
  /\ l.pc = "waiting"
  /\ SlotFree
  /\ lookups' = (lookups \ {l}) \cup {[l EXCEPT !.pc = "running"]}
  /\ UNCHANGED <<queue, tick, batch, owed>>

(* A lookup ends with a hit, a miss or an error other than a rate limit *)
(* (StashDB reports no rate limit): the item is done with.              *)
Answered(l) ==
  /\ l.pc = "running"
  /\ lookups' = lookups \ {l}
  /\ UNCHANGED <<queue, tick, batch, owed>>

(* TPDB answered "rate limited": requeue.  It reports success when the id is *)
(* pending already, and failure when the queue is full.                      *)
Requeue(l) ==
  /\ l.pc = "running"
  /\ l.src = "tpdb"
  /\ \/ /\ l.id \in DOMAIN queue
        /\ owed' = owed \cup {l.id}
        /\ UNCHANGED queue
     \/ /\ l.id \notin DOMAIN queue
        /\ ~HasRoom
        /\ UNCHANGED <<queue, owed>>
     \/ /\ l.id \notin DOMAIN queue
        /\ HasRoom
        /\ queue' = Put(queue, l.id, l.entry)
        /\ owed' = owed \cup {l.id}
  /\ lookups' = lookups \ {l}
  /\ UNCHANGED <<tick, batch>>

(* wg.Wait returned: the tick reports and ends. *)
TickDone ==
  /\ tick = "lookup"
  /\ lookups = {}
  /\ tick' = "idle"
  /\ batch' = Keep(batch, {})
  /\ UNCHANGED <<queue, lookups, owed>>

(* The process restarts; the queue lives in memory only. *)
Restart ==
  /\ queue' = Keep(queue, {})
  /\ tick' = "idle"
  /\ batch' = Keep(batch, {})
  /\ lookups' = {}
  /\ owed' = {}

Next ==
  \/ \E i \in Ids, e \in Entry : EnqueueMetaLookups(i, e)
  \/ Drain
  \/ \E need \in SUBSET ((DOMAIN batch) \X Configured) : StartLookups(need)
  \/ \E l \in lookups : Acquire(l) \/ Answered(l) \/ Requeue(l)
  \/ TickDone
  \/ Restart

Spec == Init /\ [][Next]_vars

(***************************************************************************)
(* Fairness: the scheduler ticks the enricher for ever (runPeriodic), a    *)
(* tick runs to its end, every API call returns (10-minute context), and a *)
(* goroutine blocked on the semaphore channel is served in turn.  Nothing  *)
(* obliges a client to enqueue or the process to restart.                  *)
(***************************************************************************)
TickStep ==
  \/ Drain
  \/ \E need \in SUBSET ((DOMAIN batch) \X Configured) : StartLookups(need)
  \/ \E l \in lookups : Acquire(l) \/ Answered(l) \/ Requeue(l)
  \/ TickDone

FairSpec == Spec /\ WF_vars(TickStep)

-----------------------------------------------------------------------------
(* Every variable has its type, and the semaphore bounds the running        *)
(* goroutines (meta_enricher.go: sem := make(chan struct{}, concurrency)).   *)
TypeOK ==
  /\ DOMAIN queue \subseteq Ids
  /\ queue \in [DOMAIN queue -> Entry]
  /\ tick \in {"idle", "drained", "lookup"}
  /\ DOMAIN batch \subseteq Ids
  /\ batch \in [DOMAIN batch -> Entry]
  /\ lookups \subseteq Lookup
  /\ owed \subseteq Ids
  /\ Cardinality(Running) <= Concurrency

(* The queue never holds more than its maximum, although three parties add   *)
(* to it (handlers, drain putting the leftovers back, requeue from several    *)
(* goroutines) and each checks the room on its own.                           *)
QueueBound == Cardinality(DOMAIN queue) <= MaxQueue

(* A source is never asked twice for the same item at the same time: ticks    *)
(* do not overlap, and an item re-enqueued while it is looked up waits for    *)
(* the next tick.                                                             *)
SingleLookup ==
  \A l, m \in lookups : l.id = m.id /\ l.src = m.src => l = m

(* An item that requeue accepted stays pending until a tick drains it, in     *)
(* spite of the enqueues and of the other goroutines' requeues in between.    *)
OwedPending == owed \subseteq DOMAIN queue

(* A favorite waiting with priority is drained however long the browse        *)
(* backlog is and however often it is refilled ("must drain ahead of the      *)
(* backlog, otherwise user-facing favorites covers stay buried"): with no     *)
(* more favorites than a tick drains.                                         *)
PriorityDrained ==
  \A i \in Favorites :
    (i \in DOMAIN queue /\ queue[i].priority) ~> (i \notin DOMAIN queue)

(* The enricher implements the pool its callers are promised: bounded, urgent  *)
(* work first, one batch at a time, and nothing leaves it but in a batch.  A   *)
(* drained entry is under way from the drain to its last lookup.               *)
UnderWay == IF tick = "lookup" THEN {l.id : l \in lookups} ELSE DOMAIN batch

Pool == INSTANCE PriorityPool WITH
  Work <- Ids, Capacity <- MaxQueue, Batch <- MaxPerTick,
  urgent <- {i \in DOMAIN queue : queue[i].priority},
  plain <- {i \in DOMAIN queue : ~queue[i].priority},
  busy <- UnderWay

ImplementsPool == Pool!PoolSpec

-----------------------------------------------------------------------------
(* What the comment on requeue says: a drained item is put back "so it can    *)
(* be retried on the next tick instead of being dropped".  A retry needs the  *)
(* entry that stays pending to have a title, or the next tick skips it.       *)
OwedIsRetried == \A i \in owed : i \in DOMAIN queue /\ queue[i].title
=============================================================================
