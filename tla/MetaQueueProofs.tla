--------------------------- MODULE MetaQueueProofs ---------------------------
(***************************************************************************)
(* MetaQueue's safety invariants hold for every set of ids, queue size,    *)
(* batch size and concurrency.                                             *)
(***************************************************************************)
EXTENDS MetaQueue, FiniteSetTheorems, TLAPS

(* What the invariants need to be inductive: lookups exist only while a tick *)
(* is in its lookup phase, which gives SingleLookup its "one tick at a time", *)
(* and the goroutines inside the semaphore are finitely many.                *)
IInv ==
  /\ TypeOK
  /\ QueueBound
  /\ SingleLookup
  /\ OwedPending
  /\ IsFiniteSet(Running)
  /\ tick # "lookup" => lookups = {}

(* Every set of pending ids is finite, so that its cardinality is a number. *)
LEMMA PendingFinite ==
  ASSUME NEW S, S \subseteq Ids
  PROVE  IsFiniteSet(S) /\ Cardinality(S) \in Nat
BY MetaQueueAssumption, FS_Subset, FS_CardinalityType

(* Keep restricts a queue to some of its ids. *)
LEMMA KeepType ==
  ASSUME NEW q, q \in [DOMAIN q -> Entry], DOMAIN q \subseteq Ids,
         NEW S, S \subseteq DOMAIN q
  PROVE  /\ DOMAIN Keep(q, S) = S
         /\ S \subseteq Ids
         /\ Keep(q, S) \in [S -> Entry]
BY DEF Keep

(* Put adds one id at most. *)
LEMMA PutType ==
  ASSUME NEW q, q \in [DOMAIN q -> Entry], DOMAIN q \subseteq Ids,
         NEW i \in Ids, NEW e \in Entry
  PROVE  /\ DOMAIN Put(q, i, e) = DOMAIN q \cup {i}
         /\ DOMAIN Put(q, i, e) \subseteq Ids
         /\ Put(q, i, e) \in [DOMAIN Put(q, i, e) -> Entry]
BY DEF Put

(* A queue with room for one more id respects the bound with it. *)
LEMMA RoomForOne ==
  ASSUME DOMAIN queue \subseteq Ids, QueueBound, NEW i \in Ids,
         i \in DOMAIN queue \/ HasRoom
  PROVE  Cardinality(DOMAIN queue \cup {i}) <= MaxQueue
<1>1. IsFiniteSet(DOMAIN queue) /\ Cardinality(DOMAIN queue) \in Nat
  BY PendingFinite
<1>2. Cardinality(DOMAIN queue \cup {i}) =
        IF i \in DOMAIN queue THEN Cardinality(DOMAIN queue) ELSE Cardinality(DOMAIN queue) + 1
  BY <1>1, FS_AddElement
<1>3. QED
  BY <1>1, <1>2, MetaQueueAssumption DEF QueueBound, HasRoom

LEMMA InitIInv == Init => IInv
<1> SUFFICES ASSUME Init PROVE IInv
  OBVIOUS
<1>1. DOMAIN queue = {} /\ DOMAIN batch = {} /\ lookups = {} /\ Running = {}
  BY DEF Init, Keep, Running
<1>2. Cardinality({}) = 0 /\ IsFiniteSet({})
  BY FS_EmptySet
<1>3. TypeOK
  BY <1>1, <1>2, MetaQueueAssumption DEF Init, TypeOK, Keep
<1>4. QED
  BY <1>1, <1>2, <1>3, MetaQueueAssumption
     DEF Init, IInv, QueueBound, SingleLookup, OwedPending

(* Removing a goroutine never breaks the semaphore bound. *)
LEMMA ReleaseRunning ==
  ASSUME NEW L, L \subseteq lookups, lookups' = L, IsFiniteSet(Running),
         Cardinality(Running) <= Concurrency
  PROVE  IsFiniteSet(Running') /\ Cardinality(Running') <= Concurrency
<1>1. Running' \in SUBSET Running
  BY DEF Running
<1>2. /\ Cardinality(Running) \in Nat
      /\ IsFiniteSet(Running')
      /\ Cardinality(Running') \in Nat
      /\ Cardinality(Running') <= Cardinality(Running)
  BY <1>1, FS_Subset, FS_CardinalityType
<1>3. QED
  BY <1>2, MetaQueueAssumption

LEMMA EnqueueIInv ==
  ASSUME IInv, NEW i \in Ids, NEW e \in Entry, EnqueueMetaLookups(i, e)
  PROVE  IInv'
<1> USE DEF IInv, EnqueueMetaLookups
<1>1. PICK x \in Entry : queue' = Put(queue, i, x) /\ (i \in DOMAIN queue \/ HasRoom)
  <2>1. CASE i \in DOMAIN queue /\ queue' = Put(queue, i, Merged(queue[i], e))
    <3>1. Merged(queue[i], e) \in Entry
      BY <2>1 DEF TypeOK, Merged, Entry
    <3>2. QED
      BY <2>1, <3>1
  <2>2. CASE i \notin DOMAIN queue /\ HasRoom /\ queue' = Put(queue, i, e)
    BY <2>2
  <2>3. QED
    BY <2>1, <2>2
<1>2. /\ DOMAIN queue' = DOMAIN queue \cup {i}
      /\ DOMAIN queue' \subseteq Ids
      /\ queue' \in [DOMAIN queue' -> Entry]
  BY <1>1, PutType DEF TypeOK
<1>3. Running' = Running
  BY DEF Running
<1>4. TypeOK'
  BY <1>2, <1>3 DEF TypeOK
<1>5. QueueBound'
  BY <1>1, <1>2, RoomForOne DEF QueueBound, TypeOK
<1>6. SingleLookup' /\ OwedPending' /\ IsFiniteSet(Running') /\ (tick' # "lookup" => lookups' = {})
  BY <1>2, <1>3 DEF SingleLookup, OwedPending
<1>7. QED
  BY <1>4, <1>5, <1>6

LEMMA DrainIInv ==
  ASSUME IInv, Drain
  PROVE  IInv'
<1> USE DEF IInv, Drain
<1>1. PICK D \in SUBSET DOMAIN queue :
        /\ queue' = Keep(queue, DOMAIN queue \ D)
        /\ batch' = Keep(queue, {i \in D : queue[i].title})
        /\ owed' = owed \ D
  BY DEF Batches, Leftover
<1>2. /\ DOMAIN queue' = DOMAIN queue \ D
      /\ DOMAIN queue' \subseteq Ids
      /\ queue' \in [DOMAIN queue' -> Entry]
  BY <1>1, KeepType DEF TypeOK
<1>3. /\ DOMAIN batch' \subseteq Ids
      /\ batch' \in [DOMAIN batch' -> Entry]
  BY <1>1, KeepType DEF TypeOK
<1>4. lookups' = lookups /\ Running' = Running
  BY DEF Running
<1>5. TypeOK'
  BY <1>1, <1>2, <1>3, <1>4 DEF TypeOK
<1>6. QueueBound'
  <2>1. /\ IsFiniteSet(DOMAIN queue)
        /\ Cardinality(DOMAIN queue) \in Nat
        /\ Cardinality(DOMAIN queue') \in Nat
    BY <1>2, PendingFinite DEF TypeOK
  <2>2. Cardinality(DOMAIN queue') <= Cardinality(DOMAIN queue)
    BY <1>2, <2>1, FS_Subset
  <2>3. QED
    BY <2>1, <2>2, MetaQueueAssumption DEF QueueBound
<1>7. OwedPending'
  BY <1>1, <1>2 DEF OwedPending
<1>8. QED
  BY <1>4, <1>5, <1>6, <1>7 DEF SingleLookup, MayTick

LEMMA StartLookupsIInv ==
  ASSUME IInv, NEW need \in SUBSET ((DOMAIN batch) \X Configured), StartLookups(need)
  PROVE  IInv'
<1> USE DEF IInv, StartLookups
<1>1. lookups' = {[id |-> n[1], entry |-> batch[n[1]], src |-> n[2], pc |-> "waiting"] : n \in need}
  OBVIOUS
<1>2. lookups' \subseteq Lookup
  BY <1>1 DEF TypeOK, Lookup
<1>3. Running' = {}
  BY <1>1 DEF Running
<1>4. SingleLookup'
  BY <1>1 DEF SingleLookup
<1>5. TypeOK'
  BY <1>2, <1>3, FS_EmptySet, MetaQueueAssumption DEF TypeOK
<1>6. QED
  BY <1>3, <1>4, <1>5, FS_EmptySet DEF QueueBound, OwedPending

LEMMA AcquireIInv ==
  ASSUME IInv, NEW l \in lookups, Acquire(l)
  PROVE  IInv'
<1> USE DEF IInv, Acquire
<1> DEFINE m == [l EXCEPT !.pc = "running"]
<1>1. l \in Lookup /\ m \in Lookup /\ m.id = l.id /\ m.src = l.src /\ m.pc = "running"
  BY DEF TypeOK, Lookup
<1>2. lookups' = (lookups \ {l}) \cup {m} /\ lookups' \subseteq Lookup
  BY <1>1 DEF TypeOK
<1>3. Running' = Running \cup {m}
  BY <1>1, <1>2 DEF Running
<1>4. IsFiniteSet(Running') /\ Cardinality(Running') <= Concurrency
  <2>1. Cardinality(Running) \in Nat /\ Cardinality(Running) < Concurrency
    BY FS_CardinalityType DEF SlotFree
  <2> HIDE DEF m
  <2>2. /\ IsFiniteSet(Running \cup {m})
        /\ Cardinality(Running \cup {m}) =
             IF m \in Running THEN Cardinality(Running) ELSE Cardinality(Running) + 1
    BY FS_AddElement
  <2>3. QED
    BY <1>3, <2>1, <2>2, MetaQueueAssumption
<1>5. TypeOK'
  BY <1>2, <1>4 DEF TypeOK
<1>6. SingleLookup'
  BY <1>1, <1>2 DEF SingleLookup
<1>7. tick = "lookup"
  OBVIOUS
<1>8. QED
  BY <1>4, <1>5, <1>6, <1>7 DEF QueueBound, OwedPending

LEMMA AnsweredIInv ==
  ASSUME IInv, NEW l \in lookups, Answered(l)
  PROVE  IInv'
<1> USE DEF IInv, Answered
<1>1. IsFiniteSet(Running') /\ Cardinality(Running') <= Concurrency
  BY ReleaseRunning DEF TypeOK
<1>2. TypeOK'
  BY <1>1 DEF TypeOK
<1>3. QED
  BY <1>1, <1>2 DEF QueueBound, OwedPending, SingleLookup

LEMMA RequeueIInv ==
  ASSUME IInv, NEW l \in lookups, Requeue(l)
  PROVE  IInv'
<1> USE DEF IInv, Requeue
<1>1. IsFiniteSet(Running') /\ Cardinality(Running') <= Concurrency
  BY ReleaseRunning DEF TypeOK
<1>2. l.id \in Ids /\ l.entry \in Entry
  BY DEF TypeOK, Lookup
<1>3. SingleLookup' /\ (tick' # "lookup" => lookups' = {})
  BY DEF SingleLookup
<1>4. CASE l.id \in DOMAIN queue \/ ~HasRoom
  <2>0. queue' = queue /\ owed' \subseteq owed \cup {l.id} /\ (l.id \in owed' => l.id \in DOMAIN queue)
    BY <1>4 DEF OwedPending
  <2>1. TypeOK'
    BY <1>1, <1>2, <2>0 DEF TypeOK
  <2>2. OwedPending'
    BY <2>0 DEF OwedPending
  <2>3. QED
    BY <1>1, <1>3, <2>0, <2>1, <2>2 DEF QueueBound
<1>5. CASE l.id \notin DOMAIN queue /\ HasRoom
  <2>0. queue' = Put(queue, l.id, l.entry) /\ owed' = owed \cup {l.id}
    BY <1>5
  <2>1. /\ DOMAIN queue' = DOMAIN queue \cup {l.id}
        /\ DOMAIN queue' \subseteq Ids
        /\ queue' \in [DOMAIN queue' -> Entry]
    BY <1>2, <2>0, PutType DEF TypeOK
  <2>2. TypeOK'
    BY <1>1, <1>2, <2>0, <2>1 DEF TypeOK
  <2>3. QueueBound'
    BY <1>2, <1>5, <2>1, RoomForOne DEF QueueBound, TypeOK
  <2>4. OwedPending'
    BY <2>0, <2>1 DEF OwedPending
  <2>5. QED
    BY <1>1, <1>3, <2>2, <2>3, <2>4
<1>6. QED
  BY <1>4, <1>5

LEMMA TickDoneIInv == ASSUME IInv, TickDone PROVE IInv'
<1> USE DEF IInv, TickDone
<1>1. DOMAIN batch' = {} /\ batch' \in [{} -> Entry]
  BY DEF Keep
<1>2. Running' = Running
  BY DEF Running
<1>3. QED
  BY <1>1, <1>2 DEF TypeOK, QueueBound, SingleLookup, OwedPending

LEMMA RestartIInv == ASSUME IInv, Restart PROVE IInv'
<1> USE DEF IInv, Restart
<1>1. DOMAIN batch' = {} /\ batch' \in [{} -> Entry] /\ DOMAIN queue' = {} /\ queue' \in [{} -> Entry]
  BY DEF Keep
<1>2. Running' = {}
  BY DEF Running
<1>3. Cardinality({}) = 0 /\ IsFiniteSet({})
  BY FS_EmptySet
<1>4. QED
  BY <1>1, <1>2, <1>3, MetaQueueAssumption DEF TypeOK, QueueBound, SingleLookup, OwedPending

LEMMA NextIInv == IInv /\ [Next]_vars => IInv'
<1> SUFFICES ASSUME IInv, [Next]_vars PROVE IInv'
  OBVIOUS
<1>1. CASE UNCHANGED vars
  BY <1>1 DEF vars, IInv, TypeOK, QueueBound, SingleLookup, OwedPending, Running
<1>2. ASSUME NEW i \in Ids, NEW e \in Entry, EnqueueMetaLookups(i, e) PROVE IInv'
  BY <1>2, EnqueueIInv
<1>3. CASE Drain
  BY <1>3, DrainIInv
<1>4. ASSUME NEW need \in SUBSET ((DOMAIN batch) \X Configured), StartLookups(need) PROVE IInv'
  BY <1>4, StartLookupsIInv
<1>5. ASSUME NEW l \in lookups, Acquire(l) \/ Answered(l) \/ Requeue(l) PROVE IInv'
  BY <1>5, AcquireIInv, AnsweredIInv, RequeueIInv
<1>6. CASE TickDone
  BY <1>6, TickDoneIInv
<1>7. CASE Restart
  BY <1>7, RestartIInv
<1>8. QED
  BY <1>1, <1>2, <1>3, <1>4, <1>5, <1>6, <1>7 DEF Next

(* Every reachable state satisfies the inductive invariant. *)
THEOREM Invariance == Spec => []IInv
<1>1. QED
  BY InitIInv, NextIInv, PTL DEF Spec

(* Types, and the semaphore's bound on concurrent lookups. *)
THEOREM TypeCorrect == Spec => []TypeOK
<1>1. IInv => TypeOK
  BY DEF IInv
<1>2. QED
  BY <1>1, Invariance, PTL

(* The pending queue never exceeds META_ENRICHER_MAX_QUEUE: enqueue and      *)
(* requeue check the room under the mutex, and drain only removes.           *)
THEOREM QueueBounded == Spec => []QueueBound
<1>1. IInv => QueueBound
  BY DEF IInv
<1>2. QED
  BY <1>1, Invariance, PTL

(* No item has two lookups of one source in flight. *)
THEOREM NoDoubleLookup == Spec => []SingleLookup
<1>1. IInv => SingleLookup
  BY DEF IInv
<1>2. QED
  BY <1>1, Invariance, PTL

(* What requeue accepted stays pending until it is drained. *)
THEOREM RequeuedStaysPending == Spec => []OwedPending
<1>1. IInv => OwedPending
  BY DEF IInv
<1>2. QED
  BY <1>1, Invariance, PTL
-----------------------------------------------------------------------------
(* MetaQueue implements PriorityPool.                                      *)

(* Nothing is under way between two ticks. *)
IdleMeansEmpty == tick = "idle" => DOMAIN batch = {}

LEMMA IdleStep == IdleMeansEmpty /\ [Next]_vars => IdleMeansEmpty'
BY DEF IdleMeansEmpty, Next, vars, Keep, EnqueueMetaLookups, Drain, StartLookups, Acquire,
       Answered, Requeue, TickDone, Restart

(* The two classes of the abstract pool, and what is under way. *)
Urgent == {i \in DOMAIN queue : queue[i].priority}
Plain == {i \in DOMAIN queue : ~queue[i].priority}

LEMMA PoolStates == Urgent \cup Plain = DOMAIN queue /\ Urgent \cap Plain = {}
BY DEF Urgent, Plain

(* A step of the pool, in the terms of the queue.  It also says what has to be *)
(* shown of an action that leaves the pool as it is.                           *)
StutterStep == UNCHANGED <<Urgent, Plain, UnderWay>>
FinishStep == UNCHANGED <<Urgent, Plain>> /\ UnderWay' \subseteq UnderWay

LEMMA FinishMaps == FinishStep => Pool!PoolNext
BY DEF FinishStep, Urgent, Plain, UnderWay, Pool!PoolNext, Pool!Finish

LEMMA StutterMaps == StutterStep => UNCHANGED Pool!poolVars
BY DEF StutterStep, Urgent, Plain, UnderWay, Pool!poolVars

(* The pool counts as the queue does. *)
LEMMA SameCount == \A S : Pool!Cardinality(S) = Cardinality(S)
BY Zenon DEF Pool!Cardinality, Cardinality

(* A new entry joins the class of its priority. *)
LEMMA PutClasses ==
  ASSUME NEW i, NEW e \in Entry, queue' = Put(queue, i, e)
  PROVE  /\ e.priority => Urgent' = Urgent \cup {i} /\ Plain' = Plain \ {i}
         /\ ~e.priority => Urgent' = Urgent \ {i} /\ Plain' = Plain \cup {i}
BY DEF Put, Urgent, Plain, Entry

LEMMA EntersMaps ==
  ASSUME NEW i \in Ids, NEW e \in Entry, i \notin DOMAIN queue, HasRoom,
         queue' = Put(queue, i, e)
  PROVE  Pool!Enters(i, e.priority)
<1>1. i \notin Pool!Waiting /\ Pool!Cardinality(Pool!Waiting) < MaxQueue
  BY PoolStates, SameCount DEF Pool!Waiting, Urgent, Plain, HasRoom
<1>2. i \notin Urgent /\ i \notin Plain
  BY DEF Urgent, Plain
<1>3. CASE e.priority
  <2>1. Urgent' = Urgent \cup {i} /\ Plain' = Plain
    BY <1>2, <1>3, PutClasses
  <2>2. Pool!Enters(i, TRUE)
    BY <1>1, <2>1, Zenon DEF Pool!Enters, Urgent, Plain
  <2>3. e.priority = TRUE
    BY <1>3 DEF Entry
  <2>4. QED
    BY <2>2, <2>3
<1>4. CASE ~e.priority
  <2>1. Urgent' = Urgent /\ Plain' = Plain \cup {i}
    BY <1>2, <1>4, PutClasses
  <2>2. Pool!Enters(i, FALSE)
    BY <1>1, <2>1, Zenon DEF Pool!Enters, Urgent, Plain
  <2>3. e.priority = FALSE
    BY <1>4 DEF Entry
  <2>4. QED
    BY <2>2, <2>3
<1>5. QED
  BY <1>3, <1>4

(* An enqueue submits new work, promotes what waits, or changes nothing the   *)
(* pool knows of.                                                             *)
LEMMA EnqueueMaps ==
  ASSUME TypeOK, NEW i \in Ids, NEW e \in Entry, EnqueueMetaLookups(i, e)
  PROVE  Pool!PoolNext \/ StutterStep
<1>1. UnderWay' = UnderWay
  BY DEF EnqueueMetaLookups, UnderWay
<1>2. CASE i \in DOMAIN queue
  <2> DEFINE m == Merged(queue[i], e)
  <2>1. queue' = Put(queue, i, m) /\ queue[i] \in Entry
    BY <1>2 DEF EnqueueMetaLookups, TypeOK
  <2>2. m \in Entry /\ (m.priority <=> queue[i].priority \/ e.priority)
    BY <2>1 DEF Merged, Entry
  <2> HIDE DEF m
  <2>3. CASE queue[i].priority \/ ~e.priority
    <3>1. Urgent' = Urgent /\ Plain' = Plain
      BY <1>2, <2>1, <2>2, <2>3, PutClasses DEF Urgent, Plain
    <3>2. QED
      BY <1>1, <3>1 DEF StutterStep
  <2>4. CASE ~queue[i].priority /\ e.priority
    <3>1. i \in Plain /\ Urgent' = Urgent \cup {i} /\ Plain' = Plain \ {i}
      BY <1>2, <2>1, <2>2, <2>4, PutClasses DEF Plain
    <3>2. Pool!Submit(i, TRUE)
      BY <1>1, <3>1 DEF Pool!Submit, Pool!Promoted, Urgent, Plain
    <3>3. QED
      BY <3>2 DEF Pool!PoolNext
  <2>5. QED
    BY <2>3, <2>4
<1>3. CASE i \notin DOMAIN queue
  <2>1. Pool!Enters(i, e.priority)
    BY <1>3, EntersMaps DEF EnqueueMetaLookups
  <2>2. Pool!Submit(i, e.priority) /\ e.priority \in BOOLEAN
    BY <1>1, <2>1 DEF Pool!Submit, Entry
  <2>3. QED
    BY <2>2 DEF Pool!PoolNext
<1>4. QED
  BY <1>2, <1>3

(* A drain takes a batch. *)
LEMMA DrainMaps ==
  ASSUME IInv, IdleMeansEmpty, Drain
  PROVE  Pool!PoolNext
<1>1. PICK D \in Batches :
        /\ queue' = Keep(queue, DOMAIN queue \ D)
        /\ batch' = Keep(queue, {i \in D : queue[i].title})
  BY DEF Drain, Leftover
<1>2. D \subseteq DOMAIN queue /\ Pool!Cardinality(D) <= MaxPerTick
  BY SameCount DEF Batches
<1>3. D # {}
  <2>1. Cardinality({}) = 0
    BY FS_EmptySet
  <2>2. QED
    BY <2>1, MetaQueueAssumption DEF Batches, Drain
<1>4. UnderWay = {} /\ UnderWay' = {i \in D : queue[i].title}
  BY <1>1 DEF Drain, MayTick, IdleMeansEmpty, UnderWay, Keep
<1>5. Urgent' = Urgent \ D /\ Plain' = Plain \ D
  BY <1>1 DEF Urgent, Plain, Keep
<1>6. D \cap Plain # {} => Urgent \subseteq D
  BY <1>2 DEF Batches, Urgent, Plain
<1>7. Pool!Take(D)
  <2>1. UnderWay' \in SUBSET D
    BY <1>4
  <2>2. QED
    BY <1>2, <1>3, <1>4, <1>5, <1>6, <2>1, Zenon DEF Pool!Take, Urgent, Plain
<1>8. D \in SUBSET Pool!Waiting
  BY <1>2, PoolStates DEF Pool!Waiting, Urgent, Plain
<1>9. QED
  BY <1>7, <1>8 DEF Pool!PoolNext

(* The lookups that start are of drained entries. *)
LEMMA StartLookupsMaps ==
  ASSUME IInv, NEW need \in SUBSET ((DOMAIN batch) \X Configured), StartLookups(need)
  PROVE  FinishStep
<1>1. UnderWay = DOMAIN batch
  BY DEF StartLookups, UnderWay
<1>2. UnderWay' \subseteq DOMAIN batch
  BY DEF IInv, StartLookups, UnderWay
<1>3. QED
  BY <1>1, <1>2 DEF StartLookups, FinishStep, Urgent, Plain

(* A goroutine that ends leaves its item to the other goroutines of the item. *)
LEMMA LookupMaps ==
  ASSUME IInv, NEW l \in lookups, Acquire(l) \/ Answered(l) \/ Requeue(l)
  PROVE  Pool!PoolNext \/ FinishStep
<1>1. tick = "lookup" /\ tick' = "lookup"
  BY DEF IInv, Acquire, Answered, Requeue
<1>2. l.id \in Ids /\ l.entry \in Entry
  BY DEF IInv, TypeOK, Lookup
<1>3. CASE Acquire(l)
  <2>1. [l EXCEPT !.pc = "running"].id = l.id
    BY DEF IInv, TypeOK, Lookup
  <2>2. QED
    BY <1>1, <1>3, <2>1 DEF Acquire, FinishStep, UnderWay, Urgent, Plain
<1>4. CASE Answered(l)
  BY <1>1, <1>4 DEF Answered, FinishStep, UnderWay, Urgent, Plain
<1>5. CASE Requeue(l)
  <2>1. lookups' = lookups \ {l}
    BY <1>5 DEF Requeue
  <2>2. UnderWay' \subseteq UnderWay /\ l.id \in UnderWay /\ UnderWay \ {l.id} \subseteq UnderWay'
    BY <1>1, <2>1 DEF UnderWay
  <2>3. CASE queue' = queue
    BY <2>2, <2>3 DEF FinishStep, Urgent, Plain
  <2>4. CASE l.id \notin DOMAIN queue /\ HasRoom /\ queue' = Put(queue, l.id, l.entry)
    <3>1. Pool!Enters(l.id, l.entry.priority) /\ l.entry.priority \in BOOLEAN
      BY <1>2, <2>4, EntersMaps DEF Entry
    <3>2. UnderWay' \in {UnderWay, UnderWay \ {l.id}}
      BY <2>2
    <3>3. Pool!GiveBack(l.id, l.entry.priority)
      BY <2>2, <3>1, <3>2 DEF Pool!GiveBack, UnderWay
    <3>4. QED
      BY <1>2, <3>1, <3>3 DEF Pool!PoolNext
  <2>5. QED
    BY <1>5, <2>3, <2>4 DEF Requeue
<1>6. QED
  BY <1>3, <1>4, <1>5

LEMMA TickDoneMaps == ASSUME TickDone PROVE FinishStep
BY DEF TickDone, FinishStep, UnderWay, Urgent, Plain, Keep

LEMMA RestartMaps == ASSUME Restart PROVE Pool!PoolNext
<1>1. Urgent' = {} /\ Plain' = {} /\ UnderWay' = {}
  BY DEF Restart, Urgent, Plain, UnderWay, Keep
<1>2. QED
  BY <1>1 DEF Pool!PoolNext, Pool!Forget, Urgent, Plain, UnderWay

LEMMA StepMaps ==
  ASSUME IInv, IdleMeansEmpty, [Next]_vars
  PROVE  [Pool!PoolNext]_(Pool!poolVars)
<1>1. CASE UNCHANGED vars
  BY <1>1, StutterMaps DEF vars, StutterStep, Urgent, Plain, UnderWay
<1>2. ASSUME NEW i \in Ids, NEW e \in Entry, EnqueueMetaLookups(i, e)
      PROVE  [Pool!PoolNext]_(Pool!poolVars)
  BY <1>2, EnqueueMaps, StutterMaps DEF IInv
<1>3. CASE Drain
  BY <1>3, DrainMaps
<1>4. ASSUME NEW need \in SUBSET ((DOMAIN batch) \X Configured), StartLookups(need)
      PROVE  [Pool!PoolNext]_(Pool!poolVars)
  BY <1>4, StartLookupsMaps, FinishMaps
<1>5. ASSUME NEW l \in lookups, Acquire(l) \/ Answered(l) \/ Requeue(l)
      PROVE  [Pool!PoolNext]_(Pool!poolVars)
  BY <1>5, LookupMaps, FinishMaps
<1>6. CASE TickDone
  BY <1>6, TickDoneMaps, FinishMaps
<1>7. CASE Restart
  BY <1>7, RestartMaps
<1>8. QED
  BY <1>1, <1>2, <1>3, <1>4, <1>5, <1>6, <1>7 DEF Next

(* The queue, its ticks and its goroutines implement the pool: bounded,       *)
(* urgent work first, one batch at a time, nothing leaves but in a batch.     *)
THEOREM QueueImplementsPool == Spec => ImplementsPool
<1>1. Init => Pool!PoolInit
  BY DEF Init, Pool!PoolInit, Keep, UnderWay
<1>2. Init => IdleMeansEmpty
  BY DEF Init, IdleMeansEmpty, Keep
<1>3. IInv /\ IdleMeansEmpty /\ [Next]_vars => [Pool!PoolNext]_(Pool!poolVars)
  BY StepMaps
<1>4. QED
  BY <1>1, <1>2, <1>3, IdleStep, Invariance, PTL DEF Spec, ImplementsPool, Pool!PoolSpec
=============================================================================
