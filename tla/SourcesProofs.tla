--------------------------- MODULE SourcesProofs ---------------------------
(***************************************************************************)
(* What the server holds of the sites it reads: the pending marks of the     *)
(* 1337x cache are jobs, and the links of the AtishMKV catalog are served    *)
(* while the job keeps them and taken up again when their page moves.        *)
(***************************************************************************)
EXTENDS X1337Cache, LinkCatalog, TLAPS

-----------------------------------------------------------------------------
(* X1337Cache: the queue of the worker and its marks.                              *)

(* Neither fact is inductive alone: that the queue holds pages keeps Nowhere     *)
(* out of it, and the marks keep it free of duplicates.                          *)
X1337Inv == X1337TypeOK /\ MarkIsJob

Queued(k) == \E i \in DOMAIN queue : queue[i] = k

LEMMA X1337InitInv == X1337Init => X1337Inv
<1> SUFFICES ASSUME X1337Init PROVE X1337Inv
  OBVIOUS
<1>1. queue = <<>> /\ queue \in Seq(Pages) /\ Len(queue) = 0 /\ DOMAIN queue = {}
  BY DEF X1337Init
<1>2. held \in [Pages -> Nat \cup {Never}] /\ missed \in [Callers -> Pages \cup {Nowhere}]
  BY DEF X1337Init
<1>3. working = Nowhere /\ fetched = FALSE /\ waiting = {} /\ now = 0
  BY DEF X1337Init
<1>4. X1337TypeOK
  <2>1. Len(queue) <= QueueSize
    BY <1>1, X1337Assumption
  <2>2. working \in Pages \cup {Nowhere} /\ fetched \in BOOLEAN /\ waiting \subseteq Pages /\ now \in Nat
    BY <1>3
  <2> QED
    BY <1>1, <1>2, <2>1, <2>2 DEF X1337TypeOK
<1>5. MarkIsJob
  BY <1>1, X1337Assumption DEF X1337Init, MarkIsJob
<1> QED
  BY <1>4, <1>5 DEF X1337Inv

(* A caller that looks up changes only what it has found missing.                *)
LEMMA LookUpInv ==
  ASSUME X1337Inv, NEW c \in Callers, NEW k \in Pages, LookUp(c, k)
  PROVE  X1337Inv'
  BY DEF X1337Inv, X1337TypeOK, MarkIsJob, LookUp

(* A page joins the queue only unmarked, so neither in it nor with the worker.    *)
LEMMA ScheduleInv ==
  ASSUME X1337Inv, NEW c \in Callers, Schedule(c)
  PROVE  X1337Inv'
<1> DEFINE k == missed[c]
<1>1. k \in Pages /\ missed' = [missed EXCEPT ![c] = Nowhere]
      /\ UNCHANGED <<held, working, fetched, now>>
  BY DEF X1337Inv, X1337TypeOK, Schedule
<1>2. CASE k \in waiting \/ Len(queue) >= QueueSize
  <2>1. queue' = queue /\ waiting' = waiting
    BY <1>2, X1337Assumption DEF Schedule, Marked, X1337Inv, X1337TypeOK
  <2> QED
    BY <1>1, <2>1 DEF X1337Inv, X1337TypeOK, MarkIsJob
<1>3. CASE k \notin waiting /\ Len(queue) < QueueSize
  <2>1. queue' = Append(queue, k) /\ waiting' = waiting \cup {k}
    BY <1>3 DEF Schedule, Marked
  <2>2. k # working /\ ~Queued(k)
    BY <1>1, <1>3 DEF X1337Inv, MarkIsJob, Queued
  <2>3. queue' \in Seq(Pages) /\ Len(queue') = Len(queue) + 1 /\ Len(queue') <= QueueSize
    BY <1>1, <1>3, <2>1, X1337Assumption DEF X1337Inv, X1337TypeOK
  <2>4. /\ DOMAIN queue = 1 .. Len(queue) /\ DOMAIN queue' = 1 .. Len(queue) + 1
        /\ \A i \in DOMAIN queue : queue'[i] = queue[i]
        /\ queue'[Len(queue) + 1] = k
    BY <1>1, <2>1, <2>3 DEF X1337Inv, X1337TypeOK
  <2>5. X1337TypeOK'
    BY <1>1, <2>1, <2>3 DEF X1337Inv, X1337TypeOK
  <2>6. \A j \in Pages : j \in waiting' <=> j = working' \/ \E i \in DOMAIN queue' : queue'[i] = j
    <3> SUFFICES ASSUME NEW j \in Pages
                 PROVE  j \in waiting' <=> j = working' \/ \E i \in DOMAIN queue' : queue'[i] = j
      OBVIOUS
    <3>1. (\E i \in DOMAIN queue' : queue'[i] = j) <=> Queued(j) \/ j = k
      BY <2>4, <1>1 DEF X1337Inv, X1337TypeOK, Queued
    <3> QED
      BY <3>1, <2>1, <1>1 DEF X1337Inv, MarkIsJob, Queued
  <2>7. \A i, j \in DOMAIN queue' : queue'[i] = queue'[j] => i = j
    BY <2>2, <2>4, <1>1 DEF X1337Inv, X1337TypeOK, MarkIsJob, Queued
  <2>8. \A i \in DOMAIN queue' : queue'[i] # working'
    BY <2>2, <2>4, <1>1 DEF X1337Inv, X1337TypeOK, MarkIsJob
  <2> QED
    BY <2>5, <2>6, <2>7, <2>8 DEF X1337Inv, MarkIsJob
<1> QED
  BY <1>2, <1>3, X1337Assumption DEF X1337Inv, X1337TypeOK

(* The worker takes the head, which is nowhere else in the queue.                *)
LEMMA TakeJobInv ==
  ASSUME X1337Inv, TakeJob
  PROVE  X1337Inv'
<1>1. /\ working = Nowhere /\ working' = Head(queue) /\ queue' = Tail(queue)
      /\ UNCHANGED <<held, waiting, missed, now>> /\ fetched' = FALSE
  BY DEF TakeJob
<1>2. queue \in Seq(Pages) /\ Len(queue) \in Nat \ {0} /\ queue[1] \in Pages
  BY DEF TakeJob, X1337Inv, X1337TypeOK
<1>3. /\ working' = queue[1] /\ DOMAIN queue = 1 .. Len(queue) /\ DOMAIN queue' = 1 .. Len(queue) - 1
      /\ queue' \in Seq(Pages) /\ Len(queue') = Len(queue) - 1
      /\ \A i \in DOMAIN queue' : queue'[i] = queue[i + 1]
  BY <1>1, <1>2
<1>4. X1337TypeOK'
  <2>1. Len(queue') <= QueueSize
    BY <1>2, <1>3, X1337Assumption DEF X1337Inv, X1337TypeOK
  <2>2. working' \in Pages \cup {Nowhere}
    BY <1>2, <1>3
  <2> QED
    BY <1>1, <1>3, <2>1, <2>2 DEF X1337Inv, X1337TypeOK
<1>5. \A k \in Pages : k \in waiting' <=> k = working' \/ \E i \in DOMAIN queue' : queue'[i] = k
  <2> SUFFICES ASSUME NEW k \in Pages
               PROVE  k \in waiting' <=> k = working' \/ \E i \in DOMAIN queue' : queue'[i] = k
    OBVIOUS
  <2>1. Queued(k) <=> k = queue[1] \/ \E i \in DOMAIN queue' : queue'[i] = k
    <3>1. ASSUME Queued(k), k # queue[1]
          PROVE  \E i \in DOMAIN queue' : queue'[i] = k
      <4>1. PICK i \in DOMAIN queue : queue[i] = k
        BY <3>1 DEF Queued
      <4>2. i - 1 \in DOMAIN queue' /\ queue'[i - 1] = k
        BY <4>1, <3>1, <1>2, <1>3
      <4> QED
        BY <4>2
    <3>2. ASSUME NEW i \in DOMAIN queue', queue'[i] = k
          PROVE  Queued(k)
      <4>1. i + 1 \in DOMAIN queue /\ queue[i + 1] = k
        BY <3>2, <1>2, <1>3
      <4> QED
        BY <4>1 DEF Queued
    <3> QED
      BY <3>1, <3>2, <1>2, <1>3 DEF Queued
  <2> QED
    BY <2>1, <1>1, <1>3, X1337Assumption DEF X1337Inv, MarkIsJob, Queued
<1>6. \A i, j \in DOMAIN queue' : queue'[i] = queue'[j] => i = j
  BY <1>2, <1>3 DEF X1337Inv, MarkIsJob
<1>7. \A i \in DOMAIN queue' : queue'[i] # working'
  BY <1>2, <1>3 DEF X1337Inv, MarkIsJob
<1> QED
  BY <1>4, <1>5, <1>6, <1>7 DEF X1337Inv, MarkIsJob

LEMMA FetchEndsInv ==
  ASSUME X1337Inv, FetchEnds
  PROVE  X1337Inv'
  BY DEF X1337Inv, X1337TypeOK, MarkIsJob, FetchEnds

(* The mark goes with the job it stood for.                                      *)
LEMMA UnmarkInv ==
  ASSUME X1337Inv, Unmark
  PROVE  X1337Inv'
<1>1. X1337TypeOK'
  BY DEF X1337Inv, X1337TypeOK, Unmark
<1>2. \A i \in DOMAIN queue : queue[i] \in Pages
  BY DEF X1337Inv, X1337TypeOK
<1>3. MarkIsJob'
  BY <1>2, X1337Assumption DEF X1337Inv, X1337TypeOK, MarkIsJob, Unmark
<1> QED
  BY <1>1, <1>3 DEF X1337Inv

LEMMA TickInv ==
  ASSUME X1337Inv, X1337Tick
  PROVE  X1337Inv'
  BY DEF X1337Inv, X1337TypeOK, MarkIsJob, X1337Tick

LEMMA X1337NextInv == X1337Inv /\ [X1337Next]_x1337Vars => X1337Inv'
<1> SUFFICES ASSUME X1337Inv, [X1337Next]_x1337Vars PROVE X1337Inv'
  OBVIOUS
<1>1. CASE UNCHANGED x1337Vars
  BY <1>1 DEF X1337Inv, X1337TypeOK, MarkIsJob, x1337Vars
<1>2. CASE X1337Next
  BY <1>2, LookUpInv, ScheduleInv, TakeJobInv, FetchEndsInv, UnmarkInv, TickInv DEF X1337Next
<1> QED
  BY <1>1, <1>2

LEMMA X1337Invariance == X1337Spec => []X1337Inv
  BY X1337InitInv, X1337NextInv, PTL DEF X1337Spec

(* Every variable has its type: the queue holds pages, no more than its length   *)
(* (x1337_cache.go:25-35).                                                       *)
THEOREM X1337TypeCorrect == X1337Spec => []X1337TypeOK
<1>1. X1337Inv => X1337TypeOK
  BY DEF X1337Inv
<1> QED
  BY <1>1, X1337Invariance, PTL

(* A pending mark is a job: queued once or with the worker, never both, whatever *)
(* was dropped at a full queue (x1337_cache.go:160-197).                         *)
THEOREM MarksAreJobs == X1337Spec => []MarkIsJob
<1>1. X1337Inv => MarkIsJob
  BY DEF X1337Inv
<1> QED
  BY <1>1, X1337Invariance, PTL

-----------------------------------------------------------------------------
(* LinkCatalog: links with a time to live, beside the entries they are of.         *)

LinkEntry == [version : Nat, attempt : Nat \cup {Unset}, error : BOOLEAN]

LinkTypes ==
  /\ onSite \in [Releases -> Nat]
  /\ entry \in [Releases -> LinkEntry]
  /\ link \in [Releases -> [version : Nat, until : Nat]]
  /\ todo \in [Refreshes -> SUBSET Releases]
  /\ sees \in [Refreshes -> [Releases -> Nat]]
  /\ marks \in [Refreshes -> Releases \cup {NoRelease}]
  /\ hour \in [now : Nat, due : Nat]
  /\ kept \subseteq Releases /\ excused \subseteq Releases
  /\ misses \in 0 .. MaxMisses

(* A run has seen what the catalog says, or an older version. *)
Versioned ==
  /\ \A r \in Releases : entry[r].version <= onSite[r] /\ link[r].version <= entry[r].version
  /\ \A run \in Refreshes, r \in Releases : sees[run][r] <= entry[r].version
  /\ \A run \in Refreshes : \A r \in todo[run] : Known(r)
  /\ \A run \in Refreshes : marks[run] # NoRelease => Known(marks[run])

(* What the job keeps is in Redis until its next run takes it up, or until the run  *)
(* after that one; and no mark makes it look too young for the next run.            *)
Lasts(r) ==
  \/ link[r].until >= hour.due - Interval + LinkTTL
  \/ r \in todo["job"] /\ link[r].until >= hour.due - 2 * Interval + LinkTTL
Ripens(r) ==
  \/ r \in todo["job"]
  \/ entry[r].attempt = Unset \/ entry[r].error \/ entry[r].attempt <= hour.due - MaxAge

Timely ==
  /\ hour.now <= hour.due /\ hour.due <= hour.now + Interval
  /\ \A r \in Releases : entry[r].attempt <= hour.now
  /\ ~Resting("job") => hour.now <= hour.due - MaxAge
  /\ \A r \in kept : Known(r) /\ Lasts(r) /\ Ripens(r)
  /\ \A r \in kept : marks["request"] = r => hour.now <= hour.due - MaxAge

(* A release that no older mark excuses is fresh, or is still to be taken up; and   *)
(* who marks it for the version of its entry has stored the link of that version.   *)
FreshOrDue ==
  \A r \in Releases \ excused :
    /\ Known(r) => \/ link[r].version = entry[r].version
                   \/ entry[r].attempt = Unset \/ entry[r].error
                   \/ \E run \in Refreshes : r \in todo[run] /\ sees[run][r] = entry[r].version
    /\ \A run \in Refreshes :
         marks[run] = r /\ sees[run][r] = entry[r].version => link[r].version = entry[r].version

LinkInv == LinkTypes /\ Versioned /\ Timely /\ FreshOrDue

LEMMA Numbers ==
  /\ Interval \in Nat \ {0} /\ MaxAge \in Nat \ {0} /\ LinkTTL \in Nat \ {0} /\ MaxMisses \in Nat
  /\ MaxAge <= Interval /\ 2 * Interval < LinkTTL + MaxAge /\ NoRelease \notin Releases
  BY LinkAssumption, TimingAssumption

LEMMA LinkTypesAre ==
  ASSUME LinkTypes
  PROVE  /\ hour.now \in Nat /\ hour.due \in Nat
         /\ \A r \in Releases :
              /\ onSite[r] \in Nat /\ entry[r] \in LinkEntry /\ entry[r].version \in Nat
              /\ entry[r].attempt \in Int /\ link[r].version \in Nat /\ link[r].until \in Nat
              /\ \A run \in Refreshes : sees[run][r] \in Nat
         /\ \A run \in Refreshes : todo[run] \subseteq Releases
         /\ "job" \in Refreshes /\ "request" \in Refreshes
<1>1. hour.now \in Nat /\ hour.due \in Nat
  BY DEF LinkTypes
<1>2. \A r \in Releases : entry[r] \in LinkEntry
  BY DEF LinkTypes
<1>3. \A e \in LinkEntry : e.version \in Nat /\ e.attempt \in Int
  BY DEF LinkEntry, Unset
<1>4. \A r \in Releases : link[r].version \in Nat /\ link[r].until \in Nat /\ onSite[r] \in Nat
  BY DEF LinkTypes
<1>5. \A r \in Releases, run \in Refreshes : sees[run][r] \in Nat
  BY DEF LinkTypes
<1> QED
  BY <1>1, <1>2, <1>3, <1>4, <1>5 DEF LinkTypes, Refreshes

LEMMA LinkInitInv == LinkInit => LinkInv
<1> SUFFICES ASSUME LinkInit PROVE LinkInv
  OBVIOUS
<1>1. /\ onSite = [r \in Releases |-> 1]
      /\ entry = [r \in Releases |-> [version |-> 0, attempt |-> Unset, error |-> FALSE]]
      /\ link = [r \in Releases |-> [version |-> 0, until |-> 0]]
      /\ todo = [run \in Refreshes |-> {}] /\ sees = [run \in Refreshes |-> [r \in Releases |-> 0]]
      /\ marks = [run \in Refreshes |-> NoRelease]
      /\ hour = [now |-> 0, due |-> 0] /\ misses = 0 /\ kept = {} /\ excused = {}
  BY DEF LinkInit
<1>2. \A r \in Releases : /\ entry[r].version = 0 /\ entry[r].attempt = -1 /\ onSite[r] = 1
                          /\ link[r].version = 0
                          /\ \A run \in Refreshes : sees[run][r] = 0
  BY <1>1 DEF Unset
<1>3. hour.now = 0 /\ hour.due = 0 /\ "job" \in Refreshes
      /\ \A run \in Refreshes : todo[run] = {} /\ marks[run] = NoRelease
  BY <1>1 DEF Refreshes
<1>4. LinkTypes
  <2>1. onSite \in [Releases -> Nat] /\ sees \in [Refreshes -> [Releases -> Nat]]
        /\ link \in [Releases -> [version : Nat, until : Nat]] /\ hour \in [now : Nat, due : Nat]
    BY <1>1
  <2>2. entry \in [Releases -> LinkEntry]
    BY <1>1 DEF LinkEntry
  <2>3. misses \in 0 .. MaxMisses
    BY <1>1, Numbers
  <2> QED
    BY <1>1, <2>1, <2>2, <2>3 DEF LinkTypes
<1>5. Versioned
  BY <1>2, <1>3 DEF Versioned, Known
<1>6. Timely
  <2>1. hour.now <= hour.due /\ hour.due <= hour.now + Interval
    BY <1>3, Numbers
  <2>2. \A r \in Releases : entry[r].attempt <= hour.now
    <3>1. -1 <= 0
      OBVIOUS
    <3> QED
      BY <1>2, <1>3, <3>1
  <2>3. Resting("job")
    BY <1>3 DEF Resting
  <2> QED
    BY <1>1, <2>1, <2>2, <2>3 DEF Timely
<1>7. FreshOrDue
  BY <1>2, <1>3 DEF FreshOrDue, Known
<1> QED
  BY <1>4, <1>5, <1>6, <1>7 DEF LinkInv

LEMMA MoveInv ==
  ASSUME LinkInv, NEW r \in Releases, Move(r)
  PROVE  LinkInv'
<1>1. /\ onSite' = [onSite EXCEPT ![r] = @ + 1]
      /\ UNCHANGED <<entry, link, todo, sees, marks, hour, misses, kept, excused>>
  BY DEF Move
<1>2. LinkTypes'
  <2>1. onSite' \in [Releases -> Nat]
    BY <1>1 DEF LinkInv, LinkTypes
  <2> QED
    BY <1>1, <2>1 DEF LinkInv, LinkTypes
<1>3. \A q \in Releases : entry'[q].version <= onSite'[q]
  <2>1. \A q \in Releases : onSite[q] <= onSite'[q] /\ entry[q].version <= onSite[q]
    BY <1>1 DEF LinkInv, LinkTypes, Versioned
  <2>2. \A q \in Releases : onSite[q] \in Nat /\ onSite'[q] \in Nat /\ entry[q].version \in Nat
    BY <1>1, LinkTypesAre DEF LinkInv, LinkTypes
  <2> QED
    BY <1>1, <2>1, <2>2
<1>4. Versioned'
  BY <1>1, <1>3 DEF LinkInv, Versioned, Known
<1>5. Timely' /\ FreshOrDue'
  BY <1>1 DEF LinkInv, Timely, Lasts, Ripens, FreshOrDue, Known, Resting
<1> QED
  BY <1>2, <1>4, <1>5 DEF LinkInv

LEMMA SyncEntryInv ==
  ASSUME LinkInv, NEW r \in Releases, SyncEntry(r)
  PROVE  LinkInv'
<1>1. /\ entry' = [entry EXCEPT ![r] = Resynced(r)]
      /\ UNCHANGED <<onSite, link, todo, sees, marks, hour, misses, kept, excused>>
  BY DEF SyncEntry
<1>2. /\ Resynced(r) \in LinkEntry /\ Resynced(r).version = onSite[r] /\ Resynced(r).attempt = Unset
      /\ entry[r].version <= onSite[r]
  BY LinkTypesAre DEF Resynced, LinkEntry, LinkInv, Versioned
<1>3. entry' \in [Releases -> LinkEntry]
  BY <1>1, <1>2 DEF LinkInv, LinkTypes
<1>4. LinkTypes'
  BY <1>1, <1>3 DEF LinkInv, LinkTypes
<1>5. /\ entry'[r].version = onSite[r] /\ entry'[r].attempt = Unset
      /\ \A q \in Releases : q # r => entry'[q] = entry[q]
  BY <1>1, <1>2 DEF LinkInv, LinkTypes
<1>6. \A q \in Releases : /\ entry[q].version <= entry'[q].version /\ entry'[q].version <= onSite[q]
                          /\ entry'[q].version \in Nat
  BY <1>2, <1>5, LinkTypesAre DEF LinkInv, Versioned
<1>7. \A q \in Releases : Known(q) => entry'[q].version # 0
  BY <1>6, LinkTypesAre DEF Known, LinkInv
<1>8. Versioned'
  <2>1. \A q \in Releases : link'[q].version <= entry'[q].version
    BY <1>1, <1>6, LinkTypesAre DEF LinkInv, Versioned
  <2>2. \A run \in Refreshes, q \in Releases : sees'[run][q] <= entry'[q].version
    BY <1>1, <1>6, LinkTypesAre DEF LinkInv, Versioned
  <2>3. /\ \A run \in Refreshes : \A q \in todo'[run] : entry'[q].version # 0
        /\ \A run \in Refreshes : marks'[run] # NoRelease => entry'[marks[run]].version # 0
    BY <1>1, <1>7 DEF LinkInv, LinkTypes, Versioned
  <2> QED
    BY <1>1, <1>6, <2>1, <2>2, <2>3 DEF Versioned, Known
<1>9. Timely'
  <2>1. entry'[r].attempt <= hour.now
    <3>1. -1 <= hour.now
      BY LinkTypesAre DEF LinkInv
    <3> QED
      BY <1>5, <3>1 DEF Unset
  <2>2. \A q \in Releases : entry'[q].attempt <= hour'.now
    BY <1>1, <1>5, <2>1 DEF LinkInv, Timely
  <2>3. \A q \in kept' : entry'[q].version # 0 /\ Lasts(q)' /\ Ripens(q)'
    BY <1>1, <1>5, <1>7 DEF LinkInv, LinkTypes, Timely, Lasts, Ripens
  <2> QED
    BY <1>1, <2>2, <2>3 DEF LinkInv, Timely, Known, Resting
<1>10. FreshOrDue'
  <2> SUFFICES ASSUME NEW q \in Releases \ excused
               PROVE  /\ entry'[q].version # 0 =>
                           \/ link[q].version = entry'[q].version
                           \/ entry'[q].attempt = Unset \/ entry'[q].error
                           \/ \E run \in Refreshes : q \in todo[run] /\ sees[run][q] = entry'[q].version
                      /\ \A run \in Refreshes :
                           marks[run] = q /\ sees[run][q] = entry'[q].version
                             => link[q].version = entry'[q].version
    BY <1>1 DEF FreshOrDue, Known
  <2>1. CASE q # r
    BY <1>5, <2>1 DEF LinkInv, FreshOrDue, Known
  <2>2. CASE q = r
    <3>1. ASSUME NEW run \in Refreshes, sees[run][q] = entry'[q].version
          PROVE  entry'[q].version = entry[q].version
      <4>1. sees[run][q] <= entry[q].version /\ entry[q].version <= entry'[q].version
        BY <1>6 DEF LinkInv, Versioned
      <4> QED
        BY <1>6, <3>1, <4>1, LinkTypesAre DEF LinkInv
    <3>2. entry'[q].attempt = Unset
      BY <1>5, <2>2
    <3> QED
      BY <3>1, <3>2 DEF LinkInv, FreshOrDue
  <2> QED
    BY <2>1, <2>2
<1> QED
  BY <1>4, <1>8, <1>9, <1>10 DEF LinkInv

(* A run lists entries of the catalog with the versions they have; the hours are  *)
(* left to the caller.                                                             *)
LEMMA TakesInv ==
  ASSUME LinkInv, NEW run \in Refreshes, NEW S \in SUBSET Releases, \A r \in S : Known(r),
         Takes(run, S), hour' \in [now : Nat, due : Nat], Timely'
  PROVE  LinkInv'
<1>1. /\ todo' = [todo EXCEPT ![run] = S]
      /\ sees' = [sees EXCEPT ![run] = [r \in Releases |-> IF r \in S THEN entry[r].version ELSE 0]]
      /\ UNCHANGED <<onSite, entry, link, marks, misses, kept, excused>>
      /\ todo[run] = {} /\ marks[run] = NoRelease
  BY DEF Takes, Resting
<1>2. /\ todo' \in [Refreshes -> SUBSET Releases] /\ todo'[run] = S
      /\ \A other \in Refreshes : other # run => todo'[other] = todo[other]
  BY <1>1 DEF LinkInv, LinkTypes
<1>3. sees' \in [Refreshes -> [Releases -> Nat]]
  <2>1. \A r \in Releases : (IF r \in S THEN entry[r].version ELSE 0) \in Nat
    BY LinkTypesAre DEF LinkInv
  <2>2. [r \in Releases |-> IF r \in S THEN entry[r].version ELSE 0] \in [Releases -> Nat]
    BY <2>1
  <2> QED
    BY <1>1, <2>2 DEF LinkInv, LinkTypes
<1>4. \A r \in Releases : /\ sees'[run][r] = IF r \in S THEN entry[r].version ELSE 0
                          /\ \A other \in Refreshes : other # run => sees'[other][r] = sees[other][r]
  BY <1>1 DEF LinkInv, LinkTypes
<1>5. LinkTypes'
  BY <1>1, <1>2, <1>3 DEF LinkInv, LinkTypes
<1>6. Versioned'
  <2>1. \A other \in Refreshes, r \in Releases : sees'[other][r] <= entry[r].version
    BY <1>4, LinkTypesAre DEF LinkInv, Versioned
  <2>2. \A other \in Refreshes : \A r \in todo'[other] : Known(r)
    BY <1>2 DEF LinkInv, Versioned
  <2> QED
    BY <1>1, <2>1, <2>2 DEF LinkInv, Versioned, Known
<1>7. FreshOrDue'
  <2>1. ASSUME NEW r \in Releases, NEW other \in Refreshes, r \in todo[other] PROVE other # run
    BY <1>1, <2>1
  <2>2. ASSUME NEW r \in Releases, NEW other \in Refreshes, marks[other] = r PROVE other # run
    BY <1>1, <2>2, Numbers
  <2> QED
    BY <1>1, <1>2, <1>4, <2>1, <2>2 DEF LinkInv, FreshOrDue, Known
<1> QED
  BY <1>5, <1>6, <1>7 DEF LinkInv

(* The job runs on time, and takes up whatever it keeps but has not taken just now. *)
LEMMA JobRunsInv ==
  ASSUME LinkInv, JobRuns
  PROVE  LinkInv'
<1> DEFINE S == {r \in Releases : Due(r)}
<1>1. /\ hour.now = hour.due /\ hour' = [hour EXCEPT !.due = @ + Interval] /\ Takes("job", S)
  BY DEF JobRuns
<1>2. /\ todo' = [todo EXCEPT !["job"] = S] /\ UNCHANGED <<entry, link, marks, kept>>
      /\ todo["job"] = {} /\ marks["job"] = NoRelease
  BY <1>1 DEF Takes, Resting
<1>3. /\ hour'.now = hour.now /\ hour'.due = hour.due + Interval /\ hour' \in [now : Nat, due : Nat]
  BY <1>1, Numbers DEF LinkInv, LinkTypes
<1>4. hour.now \in Nat /\ hour.due \in Nat /\ "job" \in Refreshes
  BY LinkTypesAre DEF LinkInv
<1>5. todo'["job"] = S
  BY <1>2, <1>4 DEF LinkInv, LinkTypes
<1>6. hour'.now <= hour'.due /\ hour'.due <= hour'.now + Interval /\ hour'.now <= hour'.due - MaxAge
  BY <1>1, <1>3, <1>4, Numbers
<1>7. ASSUME NEW r \in kept PROVE Known(r) /\ r \in S /\ link[r].until >= hour'.due - 2 * Interval + LinkTTL
  <2>1. Known(r) /\ link[r].until >= hour.due - Interval + LinkTTL
    BY <1>2 DEF LinkInv, Timely, Lasts
  <2>2. entry[r].attempt = Unset \/ entry[r].error \/ entry[r].attempt <= hour.due - MaxAge
    BY <1>2 DEF LinkInv, Timely, Ripens
  <2>3. r \in Releases /\ entry[r].attempt \in Int /\ link[r].until \in Nat
    BY LinkTypesAre DEF LinkInv, LinkTypes
  <2>4. entry[r].attempt <= hour.due - MaxAge => hour.now - entry[r].attempt >= MaxAge
    BY <1>1, <1>4, <2>3, Numbers
  <2>5. r \in S
    BY <2>1, <2>2, <2>3, <2>4 DEF Due, Old
  <2>6. link[r].until >= hour'.due - 2 * Interval + LinkTTL
    BY <1>3, <1>4, <2>1, <2>3, Numbers
  <2> QED
    BY <2>1, <2>5, <2>6
<1>8. Timely'
  <2>1. \A r \in kept' : Known(r)' /\ Lasts(r)' /\ Ripens(r)'
    BY <1>2, <1>5, <1>7 DEF Known, Lasts, Ripens
  <2>2. \A r \in Releases : entry'[r].attempt <= hour'.now
    BY <1>2, <1>3 DEF LinkInv, Timely
  <2> QED
    BY <1>6, <2>1, <2>2 DEF Timely
<1>9. \A r \in S : Known(r)
  BY DEF Due
<1> HIDE DEF S
<1> QED
  BY <1>1, <1>3, <1>4, <1>8, <1>9, TakesInv DEF S

LEMMA RequestTakesInv ==
  ASSUME LinkInv, NEW S \in SUBSET Releases, \A r \in S : Known(r), Takes("request", S), UNCHANGED hour
  PROVE  LinkInv'
<1>1. todo' = [todo EXCEPT !["request"] = S] /\ UNCHANGED <<entry, link, marks, kept>>
  BY DEF Takes
<1>2. todo'["job"] = todo["job"]
  BY <1>1 DEF LinkInv, LinkTypes
<1>3. Timely'
  BY <1>1, <1>2 DEF LinkInv, Timely, Lasts, Ripens, Known, Resting
<1>4. hour' \in [now : Nat, due : Nat] /\ "request" \in Refreshes
  BY DEF LinkInv, LinkTypes, Refreshes
<1> QED
  BY <1>3, <1>4, TakesInv

LEMMA RunHolds ==
  ASSUME LinkInv, NEW run \in Refreshes, NEW r \in todo[run]
  PROVE  /\ r \in Releases /\ Known(r)
         /\ run = "job" => hour.now <= hour.due - MaxAge
  BY DEF LinkInv, LinkTypes, Versioned, Timely, Resting

LEMMA ResolvedInv ==
  ASSUME LinkInv, NEW run \in Refreshes, NEW r \in Releases, NEW stored \in BOOLEAN, Resolved(run, r, stored)
  PROVE  LinkInv'
<1> DEFINE new == [version |-> sees[run][r], until |-> hour.now + LinkTTL]
<1>1. /\ marks[run] = NoRelease /\ r \in todo[run] /\ UNCHANGED <<onSite, entry, hour>>
      /\ todo' = [todo EXCEPT ![run] = @ \ {r}]
      /\ stored \/ misses < MaxMisses
      /\ misses' = IF stored THEN misses ELSE misses + 1
      /\ link' = IF stored THEN [link EXCEPT ![r] = new] ELSE link
      /\ marks' = [marks EXCEPT ![run] = r]
      /\ kept' = IF stored /\ run = "job" THEN kept \cup {r} ELSE kept \ {r}
      /\ sees' = IF stored THEN sees ELSE [sees EXCEPT ![run][r] = 0]
      /\ excused' = IF sees'[run][r] = entry[r].version THEN excused \ {r} ELSE excused \cup {r}
  BY DEF Resolved, Took
<1>2. /\ hour.now \in Nat /\ hour.due \in Nat /\ sees[run][r] \in Nat /\ Known(r)
      /\ run = "job" => hour.now <= hour.due - MaxAge
  BY <1>1, LinkTypesAre, RunHolds DEF LinkInv
<1>3. new \in [version : Nat, until : Nat] /\ new.version = sees[run][r] /\ new.until = hour.now + LinkTTL
  BY <1>2, Numbers
<1> HIDE DEF new
<1>4. LinkTypes'
  <2>1. misses' \in 0 .. MaxMisses
    BY <1>1, Numbers DEF LinkInv, LinkTypes
  <2>2. link' \in [Releases -> [version : Nat, until : Nat]]
    BY <1>1, <1>3 DEF LinkInv, LinkTypes
  <2>3. sees' \in [Refreshes -> [Releases -> Nat]]
    BY <1>1 DEF LinkInv, LinkTypes
  <2>4. todo' \in [Refreshes -> SUBSET Releases] /\ marks' \in [Refreshes -> Releases \cup {NoRelease}]
    BY <1>1 DEF LinkInv, LinkTypes
  <2>5. kept' \subseteq Releases /\ excused' \subseteq Releases
    BY <1>1 DEF LinkInv, LinkTypes
  <2> QED
    BY <1>1, <2>1, <2>2, <2>3, <2>4, <2>5 DEF LinkInv, LinkTypes
<1>5. /\ todo'[run] = todo[run] \ {r} /\ marks'[run] = r
      /\ \A other \in Refreshes : other # run => todo'[other] = todo[other] /\ marks'[other] = marks[other]
  BY <1>1 DEF LinkInv, LinkTypes
<1>6. /\ stored => link'[r] = new /\ sees' = sees
      /\ ~stored => link' = link /\ sees'[run][r] = 0
      /\ \A q \in Releases : q # r => link'[q] = link[q]
      /\ \A q \in Releases, other \in Refreshes : other # run \/ q # r => sees'[other][q] = sees[other][q]
  BY <1>1 DEF LinkInv, LinkTypes
<1>7. Versioned'
  <2>1. \A other \in Refreshes, q \in Releases : sees'[other][q] <= entry[q].version
    BY <1>6, LinkTypesAre DEF LinkInv, Versioned
  <2>2. \A q \in Releases : link'[q].version <= entry[q].version
    BY <1>3, <1>6 DEF LinkInv, Versioned
  <2>3. \A other \in Refreshes : \A q \in todo'[other] : Known(q)
    BY <1>5 DEF LinkInv, Versioned
  <2>4. \A other \in Refreshes : marks'[other] # NoRelease => Known(marks'[other])
    BY <1>2, <1>5 DEF LinkInv, Versioned
  <2> QED
    BY <1>1, <2>1, <2>2, <2>3, <2>4 DEF LinkInv, Versioned, Known
<1>8. Timely'
  <2>1. Resting("job") => run # "job"
    BY <1>1 DEF Resting
  <2>2. ~Resting("job")' => hour'.now <= hour'.due - MaxAge
    <3>1. CASE run = "job"
      BY <1>1, <1>2, <3>1
    <3>2. CASE run # "job"
      BY <1>1, <1>5, <3>2, LinkTypesAre DEF LinkInv, Timely, Resting
    <3> QED
      BY <3>1, <3>2
  <2>3. ASSUME NEW q \in kept', q # r PROVE Known(q) /\ Lasts(q)' /\ Ripens(q)'
    <3>1. q \in kept /\ Known(q) /\ Lasts(q) /\ Ripens(q) /\ q \in Releases
      BY <1>1, <2>3 DEF LinkInv, Timely, LinkTypes
    <3>2. q \in todo["job"] => q \in todo'["job"]
      BY <1>5, <2>3, LinkTypesAre DEF LinkInv
    <3>3. link'[q] = link[q] /\ hour' = hour /\ entry' = entry
      BY <1>1, <1>6, <2>3, <3>1
    <3> QED
      BY <3>1, <3>2, <3>3 DEF Lasts, Ripens
  <2>4. ASSUME r \in kept' PROVE Lasts(r)' /\ Ripens(r)' /\ hour.now <= hour.due - MaxAge
    <3>1. run = "job" /\ link'[r] = new /\ hour.now <= hour.due - MaxAge
      BY <1>1, <1>2, <1>6, <2>4
    <3>2. hour.due <= hour.now + Interval /\ entry[r].attempt <= hour.now /\ entry[r].attempt \in Int
      BY LinkTypesAre DEF LinkInv, Timely
    <3>3. hour.now + LinkTTL >= hour.due - Interval + LinkTTL
      BY <1>2, <3>2, Numbers
    <3>4. entry[r].attempt <= hour.due - MaxAge
      BY <1>2, <3>1, <3>2, Numbers
    <3> QED
      BY <1>1, <1>3, <3>1, <3>3, <3>4 DEF Lasts, Ripens
  <2>5. \A q \in kept' : marks'["request"] = q => hour'.now <= hour'.due - MaxAge
    <3> SUFFICES ASSUME NEW q \in kept', marks'["request"] = q, q # r
                 PROVE  hour.now <= hour.due - MaxAge
      BY <1>1, <2>4
    <3>1. q \in kept /\ marks["request"] = q
      BY <1>1, <1>5, LinkTypesAre DEF LinkInv
    <3> QED
      BY <3>1 DEF LinkInv, Timely
  <2>6. \A q \in kept' : Known(q)' /\ Lasts(q)' /\ Ripens(q)'
    BY <1>1, <1>2, <2>3, <2>4 DEF Known
  <2> QED
    BY <1>1, <2>2, <2>5, <2>6 DEF LinkInv, Timely
<1>9. FreshOrDue'
  <2>1. ASSUME NEW q \in Releases \ excused', q # r
        PROVE  /\ Known(q) => \/ link'[q].version = entry[q].version
                              \/ entry[q].attempt = Unset \/ entry[q].error
                              \/ \E other \in Refreshes : q \in todo'[other] /\ sees'[other][q] = entry[q].version
               /\ \A other \in Refreshes :
                    marks'[other] = q /\ sees'[other][q] = entry[q].version => link'[q].version = entry[q].version
    <3>1. q \in Releases \ excused
      BY <1>1, <2>1
    <3>2. \A other \in Refreshes : marks'[other] = q => marks[other] = q
      BY <1>5, <2>1
    <3>3. \A other \in Refreshes : q \in todo[other] => q \in todo'[other]
      BY <1>5, <2>1
    <3> QED
      BY <1>6, <2>1, <3>1, <3>2, <3>3 DEF LinkInv, FreshOrDue
  <2>2. ASSUME r \notin excused' PROVE link'[r].version = entry[r].version
    <3>1. sees'[run][r] = entry[r].version
      BY <1>1, <2>2
    <3>2. stored
      BY <1>2, <1>6, <3>1 DEF Known
    <3> QED
      BY <1>3, <1>6, <3>1, <3>2
  <2> QED
    BY <1>1, <2>1, <2>2 DEF FreshOrDue, Known
<1> QED
  BY <1>4, <1>7, <1>8, <1>9 DEF LinkInv

(* A step that marks an entry, with the error or without. *)
LEMMA EntryMarked ==
  ASSUME LinkInv, NEW r \in Releases, Known(r), NEW e \in BOOLEAN,
         entry' = [entry EXCEPT ![r].attempt = hour.now, ![r].error = e],
         UNCHANGED <<onSite, link, sees, hour>>
  PROVE  /\ entry' \in [Releases -> LinkEntry]
         /\ entry'[r].attempt = hour.now /\ entry'[r].error = e
         /\ \A q \in Releases : entry'[q].version = entry[q].version
         /\ \A q \in Releases : q # r => entry'[q] = entry[q]
         /\ \A q \in Releases : entry'[q].attempt <= hour.now
<1>1. entry \in [Releases -> LinkEntry] /\ hour.now \in Nat
  BY LinkTypesAre DEF LinkInv, LinkTypes
<1> DEFINE m == [entry[r] EXCEPT !.attempt = hour.now, !.error = e]
<1>2. entry' = [entry EXCEPT ![r] = m]
  BY <1>1 DEF LinkEntry
<1>3. m \in LinkEntry /\ m.attempt = hour.now /\ m.error = e /\ m.version = entry[r].version
  BY <1>1 DEF LinkEntry
<1> HIDE DEF m
<1>4. /\ entry' \in [Releases -> LinkEntry] /\ entry'[r] = m
      /\ \A q \in Releases : q # r => entry'[q] = entry[q]
  BY <1>1, <1>2, <1>3
<1>5. \A q \in Releases : entry'[q].attempt <= hour.now
  <2>1. entry'[r].attempt <= hour.now
    BY <1>1, <1>3, <1>4
  <2> QED
    BY <1>4, <2>1 DEF LinkInv, Timely
<1> QED
  BY <1>3, <1>4, <1>5

LEMMA UnresolvableInv ==
  ASSUME LinkInv, NEW run \in Refreshes, NEW r \in Releases, Unresolvable(run, r)
  PROVE  LinkInv'
<1>1. /\ marks[run] = NoRelease /\ r \in todo[run] /\ todo' = [todo EXCEPT ![run] = @ \ {r}]
      /\ misses < MaxMisses /\ misses' = misses + 1 /\ kept' = kept \ {r}
      /\ entry' = [entry EXCEPT ![r].attempt = hour.now, ![r].error = TRUE]
      /\ UNCHANGED <<onSite, link, sees, marks, hour, excused>>
  BY DEF Unresolvable, Took
<1>2. Known(r)
  BY <1>1, RunHolds
<1>3. /\ entry' \in [Releases -> LinkEntry] /\ entry'[r].error = TRUE
      /\ \A q \in Releases : entry'[q].version = entry[q].version
      /\ \A q \in Releases : q # r => entry'[q] = entry[q]
      /\ \A q \in Releases : entry'[q].attempt <= hour.now
  BY <1>1, <1>2, EntryMarked
<1>4. /\ todo' \in [Refreshes -> SUBSET Releases] /\ todo'[run] = todo[run] \ {r}
      /\ \A other \in Refreshes : other # run => todo'[other] = todo[other]
  BY <1>1 DEF LinkInv, LinkTypes
<1>5. LinkTypes'
  <2>1. misses' \in 0 .. MaxMisses
    BY <1>1, Numbers DEF LinkInv, LinkTypes
  <2> QED
    BY <1>1, <1>3, <1>4, <2>1 DEF LinkInv, LinkTypes
<1>6. Versioned'
  BY <1>1, <1>3, <1>4 DEF LinkInv, LinkTypes, Versioned, Known
<1>7. Timely'
  <2>1. ASSUME NEW q \in kept' PROVE Known(q)' /\ Lasts(q)' /\ Ripens(q)'
    <3>1. q \in kept /\ q # r /\ q \in Releases
      BY <1>1 DEF LinkInv, LinkTypes
    <3>2. q \in todo["job"] => q \in todo'["job"]
      BY <1>4, <3>1, LinkTypesAre DEF LinkInv
    <3> QED
      BY <1>1, <1>3, <3>1, <3>2 DEF LinkInv, Timely, Known, Lasts, Ripens
  <2>2. Resting("job") => Resting("job")'
    BY <1>1, <1>4, LinkTypesAre DEF Resting, LinkInv
  <2> QED
    BY <1>1, <1>3, <2>1, <2>2 DEF LinkInv, Timely
<1>8. FreshOrDue'
  <2>1. ASSUME NEW q \in Releases, NEW other \in Refreshes, q \in todo[other], q # r PROVE q \in todo'[other]
    BY <1>4, <2>1
  <2> QED
    BY <1>1, <1>3, <2>1 DEF LinkInv, FreshOrDue, Known
<1> QED
  BY <1>5, <1>6, <1>7, <1>8 DEF LinkInv

(* A mark makes an entry look fresh: it may, if the run stored the link of the     *)
(* entry's own version.                                                             *)
LEMMA MarkInv ==
  ASSUME LinkInv, NEW run \in Refreshes, Mark(run)
  PROVE  LinkInv'
<1> DEFINE r == marks[run]
<1>1. /\ r # NoRelease /\ marks' = [marks EXCEPT ![run] = NoRelease]
      /\ entry' = [entry EXCEPT ![r].attempt = hour.now, ![r].error = FALSE]
      /\ excused' = IF sees[run][r] = entry[r].version THEN excused ELSE excused \cup {r}
      /\ UNCHANGED <<onSite, link, todo, sees, hour, misses, kept>>
  BY DEF Mark
<1>2. r \in Releases /\ Known(r)
  BY <1>1 DEF LinkInv, LinkTypes, Versioned
<1>3. /\ entry' \in [Releases -> LinkEntry] /\ entry'[r].attempt = hour.now
      /\ \A q \in Releases : entry'[q].version = entry[q].version
      /\ \A q \in Releases : q # r => entry'[q] = entry[q]
      /\ \A q \in Releases : entry'[q].attempt <= hour.now
  BY <1>1, <1>2, EntryMarked
<1>4. /\ marks' \in [Refreshes -> Releases \cup {NoRelease}] /\ marks'[run] = NoRelease
      /\ \A other \in Refreshes : other # run => marks'[other] = marks[other]
  BY <1>1 DEF LinkInv, LinkTypes
<1>5. LinkTypes'
  BY <1>1, <1>2, <1>3, <1>4 DEF LinkInv, LinkTypes
<1>6. Versioned'
  BY <1>1, <1>3, <1>4 DEF LinkInv, LinkTypes, Versioned, Known
<1>7. Timely'
  <2>1. r \in kept => hour.now <= hour.due - MaxAge
    <3>1. run = "job" \/ run = "request"
      BY DEF Refreshes
    <3>2. CASE run = "job"
      <4>1. ~Resting("job")
        BY <1>1, <3>2 DEF Resting
      <4> QED
        BY <4>1 DEF LinkInv, Timely
    <3>3. CASE run = "request"
      BY <3>3 DEF LinkInv, Timely
    <3> QED
      BY <3>1, <3>2, <3>3
  <2>2. ASSUME NEW q \in kept' PROVE Known(q)' /\ Lasts(q)' /\ Ripens(q)'
    <3>1. q \in Releases /\ q \in kept /\ Known(q) /\ Lasts(q) /\ Ripens(q)
      BY <1>1 DEF LinkInv, LinkTypes, Timely
    <3>2. CASE q = r
      BY <1>1, <1>3, <2>1, <3>1, <3>2 DEF Known, Lasts, Ripens
    <3>3. CASE q # r
      BY <1>1, <1>3, <3>1, <3>3 DEF Known, Lasts, Ripens
    <3> QED
      BY <3>2, <3>3
  <2>3. Resting("job") => Resting("job")'
    BY <1>1, <1>4, LinkTypesAre DEF Resting, LinkInv
  <2>4. \A q \in kept' : marks'["request"] = q => marks["request"] = q
    BY <1>1, <1>4, LinkTypesAre, Numbers DEF LinkInv, LinkTypes
  <2> QED
    BY <1>1, <1>3, <2>2, <2>3, <2>4 DEF LinkInv, Timely
<1>8. FreshOrDue'
  <2>1. \A q \in Releases, other \in Refreshes : marks'[other] = q => marks[other] = q
    BY <1>4, Numbers
  <2>2. r \notin excused' => link[r].version = entry[r].version
    BY <1>1, <1>2 DEF LinkInv, FreshOrDue
  <2>3. \A q \in Releases : q \notin excused' => q \notin excused
    BY <1>1
  <2> QED
    BY <1>1, <1>3, <2>1, <2>2, <2>3 DEF LinkInv, FreshOrDue, Known
<1> QED
  BY <1>5, <1>6, <1>7, <1>8 DEF LinkInv

LEMMA HalfHourInv ==
  ASSUME LinkInv, HalfHour
  PROVE  LinkInv'
<1>1. /\ hour.now # hour.due /\ hour' = [hour EXCEPT !.now = @ + 1]
      /\ Resting("job") \/ hour.now < hour.due - MaxAge
      /\ \A run \in Refreshes : marks[run] = NoRelease
      /\ UNCHANGED <<onSite, entry, link, todo, sees, marks, misses, kept, excused>>
  BY DEF HalfHour
<1>2. hour.now \in Nat /\ hour.due \in Nat /\ "request" \in Refreshes
  BY LinkTypesAre DEF LinkInv
<1>3. hour'.now = hour.now + 1 /\ hour'.due = hour.due /\ hour' \in [now : Nat, due : Nat]
  BY <1>1 DEF LinkInv, LinkTypes
<1>4. LinkTypes'
  BY <1>1, <1>3 DEF LinkInv, LinkTypes
<1>5. Versioned' /\ FreshOrDue'
  BY <1>1 DEF LinkInv, Versioned, FreshOrDue, Known
<1>6. Timely'
  <2>1. hour.now <= hour.due /\ hour.due <= hour.now + Interval
    BY DEF LinkInv, Timely
  <2>2. hour'.now <= hour'.due /\ hour'.due <= hour'.now + Interval
    BY <1>1, <1>2, <1>3, <2>1, Numbers
  <2>3. \A r \in Releases : entry[r].attempt <= hour.now /\ entry[r].attempt \in Int
    BY LinkTypesAre DEF LinkInv, Timely
  <2>4. \A r \in Releases : entry[r].attempt <= hour'.now
    BY <1>2, <1>3, <2>3
  <2>5. ~Resting("job") => hour'.now <= hour'.due - MaxAge
    BY <1>1, <1>2, <1>3, Numbers
  <2>6. \A r \in kept : Known(r)' /\ Lasts(r)' /\ Ripens(r)'
    BY <1>1, <1>3 DEF LinkInv, Timely, Known, Lasts, Ripens
  <2>7. \A r \in kept : marks["request"] # r
    BY <1>1, <1>2, Numbers DEF LinkInv, LinkTypes
  <2> QED
    BY <1>1, <2>2, <2>4, <2>5, <2>6, <2>7 DEF Timely, Resting
<1> QED
  BY <1>4, <1>5, <1>6 DEF LinkInv

LEMMA LinkStepInv == LinkInv /\ [LinkNext]_linkVars => LinkInv'
<1> SUFFICES ASSUME LinkInv, [LinkNext]_linkVars PROVE LinkInv'
  OBVIOUS
<1>1. CASE UNCHANGED linkVars
  <2>1. UNCHANGED <<onSite, entry, link, todo, sees, marks, hour, misses, kept, excused>>
    BY <1>1 DEF linkVars
  <2>2. LinkTypes' /\ Versioned' /\ FreshOrDue'
    BY <2>1 DEF LinkInv, LinkTypes, Versioned, FreshOrDue, Known
  <2>3. Timely'
    BY <2>1 DEF LinkInv, Timely, Known, Lasts, Ripens, Resting
  <2> QED
    BY <2>2, <2>3 DEF LinkInv
<1>2. ASSUME RequestRuns PROVE LinkInv'
  <2> DEFINE S == {r \in Releases : Due(r)}
  <2>1. S \in SUBSET Releases /\ \A r \in S : Known(r)
    BY DEF Due
  <2> QED
    BY <1>2, <2>1, RequestTakesInv DEF RequestRuns
<1>3. ASSUME NEW r \in Releases, RequestNames(r) PROVE LinkInv'
  BY <1>3, RequestTakesInv DEF RequestNames
<1> QED
  BY <1>1, <1>2, <1>3, MoveInv, SyncEntryInv, JobRunsInv, ResolvedInv, UnresolvableInv, MarkInv, HalfHourInv
  DEF LinkNext

LEMMA LinkInvariance == LinkSpec => []LinkInv
  BY LinkInitInv, LinkStepInv, PTL DEF LinkSpec

(* Every variable has its type, and no link is newer than the page the site shows. *)
THEOREM LinkTypeCorrect == LinkSpec => []LinkTypeOK
<1>1. LinkInv => LinkTypeOK
  <2> SUFFICES ASSUME LinkInv PROVE LinkTypeOK
    OBVIOUS
  <2>1. ASSUME NEW r \in Releases
        PROVE  entry[r].version \in 0..onSite[r] /\ link[r].version \in 0..onSite[r]
    <3>1. entry[r].version <= onSite[r] /\ link[r].version <= entry[r].version
      BY DEF LinkInv, Versioned
    <3> QED
      BY <3>1, LinkTypesAre DEF LinkInv
  <2> QED
    BY <2>1 DEF LinkInv, LinkTypes, LinkTypeOK
<1> QED
  BY <1>1, LinkInvariance, PTL

(* With an age below the interval, and a life of the links that covers two          *)
(* intervals less that age, what the job keeps is always served                      *)
(* (atishmkv.go:124-176).                                                            *)
THEOREM LinksStayServed == LinkSpec => []LinksStay
<1>1. LinkInv => LinksStay
  <2> SUFFICES ASSUME LinkInv, NEW r \in kept PROVE r \in Releases /\ Known(r) /\ link[r].until > hour.now
    BY DEF LinksStay, Served
  <2>1. r \in Releases /\ Known(r) /\ Lasts(r)
    BY DEF LinkInv, LinkTypes, Timely
  <2>2. /\ hour.now \in Nat /\ hour.due \in Nat /\ link[r].until \in Nat /\ hour.now <= hour.due
    BY <2>1, LinkTypesAre DEF LinkInv, Timely
  <2>3. ASSUME r \in todo["job"] PROVE hour.now <= hour.due - MaxAge
    BY <2>3 DEF LinkInv, Timely, Resting
  <2>4. \/ link[r].until >= hour.due - Interval + LinkTTL
        \/ hour.now <= hour.due - MaxAge /\ link[r].until >= hour.due - 2 * Interval + LinkTTL
    BY <2>1, <2>3 DEF Lasts
  <2>5. link[r].until > hour.now
    BY <2>2, <2>4, Numbers
  <2> QED
    BY <2>1, <2>5
<1> QED
  BY <1>1, LinkInvariance, PTL

(* For any number of runs, moves and lost writes, a release is never taken for      *)
(* fresh with a link of an older page, unless an excused run marked it               *)
(* (atishmkv_catalog.go:157-187).                                                    *)
THEOREM MovedStaysDue == LinkSpec => []MovedIsDue
<1>1. LinkInv => MovedIsDue
  BY DEF LinkInv, FreshOrDue, MovedIsDue
<1> QED
  BY <1>1, LinkInvariance, PTL
=============================================================================
