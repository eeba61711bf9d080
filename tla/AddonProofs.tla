---------------------------- MODULE AddonProofs ----------------------------
(***************************************************************************)
(* The Stremio addon: no fan-out sends on a closed channel or loses a result *)
(* it waited for, no cache answers with rows of a source that is turned off, *)
(* the rows of a manifest open, and an item of a page shows its own scene    *)
(* and opens.                                                                *)
(***************************************************************************)
EXTENDS FanOut, CatalogCache, Manifest, CatalogPage, FiniteSetTheorems, WellFoundedInduction, TLAPS

-----------------------------------------------------------------------------
(* FanOut: who sends and who gathers.                                              *)

(* What the two properties rest on: nobody is started behind the loop's back,    *)
(* who has not been started does nothing, and a hit is on its way, received, or   *)
(* past the maximum; once the channel is closed, or an answer is given that was   *)
(* waited for, all who were started are done.                                    *)
Shape ==
  /\ site \in Sites /\ started \in 0 .. Tasks
  /\ caller \in {"looping", "gathering", "returned"}
  /\ task \in [T -> {"none", "queued", "running", "sending", "done"}]
  /\ \A t \in T : task[t] # "none" <=> t <= started
  /\ hits \in SUBSET T /\ got \in SUBSET T /\ chan \in SUBSET T /\ taken \in SUBSET T

Running(t) == task[t] \in {"queued", "running"}
NoLateHits == \A t \in hits : ~Running(t) /\ task[t] # "none"
NoLateResults == chan \cap taken = {} /\ \A t \in chan \cup taken : task[t] = "done"
Direct == site.sink = "append" => chan = {} /\ \A t \in T : task[t] # "sending"
OnItsWay == \A t \in hits : t \in got \/ Full \/ t \in chan \/ task[t] = "sending"
Settled ==
  /\ closed => caller # "looping" /\ Waited
  /\ caller = "returned" /\ site.gather # "first" => Waited /\ (hits \subseteq got \/ Full)

FanInv == Shape /\ NoLateHits /\ NoLateResults /\ Direct /\ OnItsWay /\ Settled

(* The answer only grows, so a maximum that is reached stays reached.            *)
LEMMA FullStays ==
  ASSUME Shape, got \subseteq got', got' \in SUBSET T, site' = site, Full
  PROVE  Full'
<1>1. IsFiniteSet(T)
  BY FS_Interval, FanOutAssumption DEF T
<1>2. IsFiniteSet(got) /\ IsFiniteSet(got')
  BY <1>1, FS_Subset DEF Shape
<1>3. Cardinality(got) <= Cardinality(got') /\ Cardinality(got) \in Nat /\ Cardinality(got') \in Nat
  BY <1>2, FS_Subset, FS_CardinalityType
<1> QED
  BY <1>3, FanOutAssumption DEF Full

LEMMA InitFanInv == FanInit => FanInv
  BY FanOutAssumption DEF FanInit, FanInv, Shape, NoLateHits, NoLateResults, Direct, OnItsWay, Settled, T

LEMMA StartFanInv == FanInv /\ Start => FanInv'
<1> SUFFICES ASSUME FanInv, Start PROVE FanInv'
  OBVIOUS
<1> DEFINE t == started + 1
<1>1. t \in T /\ task[t] = "none" /\ started' = t /\ caller = "looping"
  BY FanOutAssumption DEF FanInv, Shape, Start, T
<1>2. /\ task' = [task EXCEPT ![t] = IF site.gate = "task" THEN "queued" ELSE "running"]
      /\ UNCHANGED <<site, caller, chan, closed, taken, got, hits>>
  BY DEF Start
<1>3. Shape'
  BY <1>1, <1>2, FanOutAssumption DEF FanInv, Shape, T
<1>4. \A u \in T \ {t} : task'[u] = task[u]
  BY <1>2 DEF FanInv, Shape
<1>5. t \notin hits /\ t \notin chan \cup taken /\ task'[t] \in {"queued", "running"}
  BY <1>1, <1>2 DEF FanInv, Shape, NoLateHits, NoLateResults
<1>6. NoLateHits' /\ NoLateResults' /\ Direct' /\ OnItsWay'
  BY <1>2, <1>4, <1>5 DEF FanInv, Shape, NoLateHits, NoLateResults, Direct, OnItsWay, Running, Full
<1>7. Settled'
  BY <1>1, <1>2 DEF FanInv, Settled
<1> QED
  BY <1>3, <1>6, <1>7 DEF FanInv

LEMMA LoopEndsFanInv == FanInv /\ LoopEnds => FanInv'
  BY DEF FanInv, LoopEnds, Shape, NoLateHits, NoLateResults, Direct, OnItsWay, Settled, Running, Full,
         Waited, Started

LEMMA TakeSlotFanInv == ASSUME FanInv, NEW t \in T, TakeSlot(t) PROVE FanInv'
<1>1. /\ task[t] = "queued" /\ task' = [task EXCEPT ![t] = "running"]
      /\ UNCHANGED <<site, caller, started, chan, closed, taken, got, hits>>
  BY DEF TakeSlot
<1>2. Shape'
  BY <1>1 DEF FanInv, Shape
<1>3. task'[t] = "running" /\ \A u \in T \ {t} : task'[u] = task[u]
  BY <1>1 DEF FanInv, Shape
<1>4. NoLateHits' /\ NoLateResults' /\ Direct' /\ OnItsWay'
  BY <1>1, <1>3 DEF FanInv, Shape, NoLateHits, NoLateResults, Direct, OnItsWay, Running, Full
<1>5. ~Waited
  BY <1>1, FanOutAssumption DEF FanInv, Shape, Waited, Started, T
<1>6. Settled'
  BY <1>1, <1>5 DEF FanInv, Settled
<1> QED
  BY <1>2, <1>4, <1>6 DEF FanInv

(* A goroutine that works is waited for: nothing is closed and nobody has        *)
(* answered who waited.                                                          *)
LEMMA WorkFanInv == ASSUME FanInv, NEW t \in T, Work(t) PROVE FanInv'
<1>1. PICK hit \in BOOLEAN :
        /\ hits' = IF hit THEN hits \cup {t} ELSE hits
        /\ IF Sends(hit)
           THEN task' = [task EXCEPT ![t] = "sending"] /\ got' = got
           ELSE /\ task' = [task EXCEPT ![t] = "done"]
                /\ got' = IF hit /\ site.sink = "append" /\ ~Full THEN got \cup {t} ELSE got
  BY DEF Work
<1>2. /\ task[t] = "running"
      /\ UNCHANGED <<site, caller, started, chan, closed, taken>>
  BY DEF Work
<1>3. Shape'
  BY <1>1, <1>2 DEF FanInv, Shape
<1>4. task'[t] \in {"sending", "done"} /\ \A u \in T \ {t} : task'[u] = task[u]
  BY <1>1 DEF FanInv, Shape
<1>5. got \subseteq got' /\ hits \subseteq hits' /\ hits' \subseteq hits \cup {t}
  BY <1>1
<1>6. Full => Full'
  BY <1>2, <1>3, <1>5, FullStays DEF FanInv, Shape
<1>7. t \in hits' => t \in got' \/ Full' \/ task'[t] = "sending"
  <2> SUFFICES ASSUME hit PROVE t \in got' \/ Full' \/ task'[t] = "sending"
    BY <1>1, <1>2 DEF FanInv, NoLateHits, Running
  <2>1. CASE site.sink = "channel"
    BY <1>1, <2>1 DEF Sends, FanInv, Shape
  <2>2. CASE site.sink = "append"
    BY <1>1, <1>6, <2>2 DEF Sends
  <2> QED
    BY <2>1, <2>2, FanOutSites DEF FanInv, Shape
<1>8. NoLateHits' /\ NoLateResults'
  BY <1>2, <1>4, <1>5 DEF FanInv, Shape, NoLateHits, NoLateResults, Running
<1>9. Direct'
  <2> SUFFICES ASSUME site.sink = "append" PROVE Direct'
    BY <1>2 DEF Direct
  <2>1. task'[t] = "done"
    BY <1>1 DEF Sends, FanInv, Shape
  <2> QED
    BY <1>2, <1>4, <2>1 DEF FanInv, Shape, Direct
<1>10. OnItsWay'
  BY <1>2, <1>4, <1>5, <1>6, <1>7 DEF FanInv, Shape, OnItsWay
<1>11. ~Waited
  BY <1>2, FanOutAssumption DEF FanInv, Shape, Waited, Started, T
<1>12. Settled'
  BY <1>2, <1>11 DEF FanInv, Settled
<1> QED
  BY <1>3, <1>8, <1>9, <1>10, <1>12 DEF FanInv

LEMMA SendFanInv == ASSUME FanInv, NEW t \in T, Send(t) PROVE FanInv'
<1>1. /\ task[t] = "sending" /\ task' = [task EXCEPT ![t] = "done"] /\ chan' = chan \cup {t}
      /\ UNCHANGED <<site, caller, started, closed, taken, got, hits>>
  BY DEF Send
<1>2. Shape'
  BY <1>1 DEF FanInv, Shape
<1>3. task'[t] = "done" /\ \A u \in T \ {t} : task'[u] = task[u]
  BY <1>1 DEF FanInv, Shape
<1>4. site.sink # "append"
  BY <1>1 DEF FanInv, Direct
<1>5. NoLateHits' /\ NoLateResults' /\ Direct' /\ OnItsWay'
  BY <1>1, <1>3, <1>4 DEF FanInv, Shape, NoLateHits, NoLateResults, Direct, OnItsWay, Running, Full
<1>6. ~Waited
  BY <1>1, FanOutAssumption DEF FanInv, Shape, Waited, Started, T
<1>7. Settled'
  BY <1>1, <1>6 DEF FanInv, Settled
<1> QED
  BY <1>2, <1>5, <1>7 DEF FanInv

LEMMA CloseFanInv == FanInv /\ Close => FanInv'
  BY DEF FanInv, Close, Shape, NoLateHits, NoLateResults, Direct, OnItsWay, Settled, Running, Full,
         Waited, Started

(* A caller that receives has not answered, unless at the first hit.             *)
LEMMA ReceiveFanInv == ASSUME FanInv, NEW t \in T, Receive(t) PROVE FanInv'
<1>1. /\ caller = "gathering" /\ t \in chan /\ chan' = chan \ {t} /\ taken' = taken \cup {t}
      /\ got' = IF t \in hits /\ ~Full THEN got \cup {t} ELSE got
      /\ caller' \in {"gathering", "returned"} /\ (caller' = "returned" => site.gather = "first")
      /\ UNCHANGED <<site, started, task, closed, hits>>
  BY DEF Receive, Answer
<1>2. Shape'
  BY <1>1 DEF FanInv, Shape
<1>3. Full => Full'
  BY <1>1, <1>2, FullStays DEF FanInv, Shape
<1>4. NoLateHits' /\ NoLateResults' /\ Direct'
  BY <1>1 DEF FanInv, Shape, NoLateHits, NoLateResults, Direct, Running
<1>5. OnItsWay'
  BY <1>1, <1>3 DEF FanInv, OnItsWay
<1>6. Settled'
  BY <1>1 DEF FanInv, Settled, Waited, Started
<1> QED
  BY <1>2, <1>4, <1>5, <1>6 DEF FanInv

(* Whatever the caller waits for, it has every hit when it answers.              *)
LEMMA GatheredAll ==
  ASSUME FanInv, Gathered, site.gather # "first"
  PROVE  Waited /\ (hits \subseteq got \/ Full)
<1>1. CASE site.gather = "wait"
  <2>1. Waited /\ site.sink = "append"
    BY <1>1, FanOutSites DEF Gathered, FanInv, Shape
  <2> QED
    BY <2>1 DEF FanInv, OnItsWay, Direct, Shape
<1>2. CASE site.gather \in {"closed", "drain"}
  <2>1. Waited /\ chan = {}
    BY <1>2 DEF Gathered, FanInv, Settled
  <2>2. \A t \in hits : task[t] # "sending"
    BY <2>1, FanOutAssumption DEF FanInv, Shape, Waited, Started, T
  <2> QED
    BY <2>1, <2>2 DEF FanInv, OnItsWay
<1>3. CASE site.gather = "count"
  <2>1. Cardinality(taken) = Tasks
    BY <1>3 DEF Gathered
  <2>2. IsFiniteSet(T) /\ Cardinality(T) = Tasks
    BY FS_Interval, FanOutAssumption DEF T
  <2>3. taken = T
    BY <2>1, <2>2, FS_Subset DEF FanInv, Shape
  <2>4. \A t \in T : task[t] = "done"
    BY <2>3 DEF FanInv, NoLateResults
  <2>5. chan = {}
    BY <2>3 DEF FanInv, Shape, NoLateResults
  <2>6. Waited
    BY <2>4, FanOutAssumption DEF FanInv, Shape, Waited, Started, T
  <2>7. hits \subseteq got \/ Full
    BY <2>4, <2>5 DEF FanInv, Shape, OnItsWay
  <2> QED
    BY <2>6, <2>7
<1> QED
  BY <1>1, <1>2, <1>3, FanOutSites DEF FanInv, Shape

LEMMA ReturnFanInv == FanInv /\ Return => FanInv'
<1> SUFFICES ASSUME FanInv, Return PROVE FanInv'
  OBVIOUS
<1>1. Gathered /\ caller = "gathering" /\ caller' = "returned"
      /\ UNCHANGED <<site, started, task, chan, closed, taken, got, hits>>
  BY DEF Return
<1>2. Shape' /\ NoLateHits' /\ NoLateResults' /\ Direct' /\ OnItsWay'
  BY <1>1 DEF FanInv, Shape, NoLateHits, NoLateResults, Direct, OnItsWay, Running, Full
<1>3. Settled'
  BY <1>1, GatheredAll DEF FanInv, Settled, Waited, Started, Full
<1> QED
  BY <1>2, <1>3 DEF FanInv

LEMMA OtherFanInv == FanInv /\ (ContextOver \/ UNCHANGED fanVars) => FanInv'
  BY DEF FanInv, ContextOver, fanVars, Shape, NoLateHits, NoLateResults, Direct, OnItsWay, Settled,
         Running, Full, Waited, Started

LEMMA StepFanInv == FanInv /\ [FanNext]_fanVars => FanInv'
<1> SUFFICES ASSUME FanInv, [FanNext]_fanVars PROVE FanInv'
  OBVIOUS
<1>1. CASE Start
  BY <1>1, StartFanInv
<1>2. CASE LoopEnds
  BY <1>2, LoopEndsFanInv
<1>3. CASE Close
  BY <1>3, CloseFanInv
<1>4. CASE Return
  BY <1>4, ReturnFanInv
<1>5. CASE \E t \in T : TakeSlot(t) \/ Work(t) \/ Send(t) \/ Receive(t)
  BY <1>5, TakeSlotFanInv, WorkFanInv, SendFanInv, ReceiveFanInv
<1>6. CASE ContextOver \/ UNCHANGED fanVars
  BY <1>6, OtherFanInv
<1> QED
  BY <1>1, <1>2, <1>3, <1>4, <1>5, <1>6 DEF FanNext, FanStep

LEMMA FanInvariance == FanSpec => []FanInv
<1>1. FanInit => FanInv
  BY InitFanInv
<1>2. FanInv /\ [FanNext]_fanVars => FanInv'
  BY StepFanInv
<1> QED
  BY <1>1, <1>2, PTL DEF FanSpec

(* In whichever of the five ways a site gathers, and for any length of its list and  *)
(* capacity of its semaphore, its channel is closed only when nobody is left to     *)
(* send (catalog.go:1083).                                                          *)
THEOREM NobodySends == FanSpec => []NoSendOnClosed
<1>1. FanInv => NoSendOnClosed
  BY FanOutAssumption DEF FanInv, Shape, Settled, Waited, Started, T, NoSendOnClosed
<1> QED
  BY <1>1, FanInvariance, PTL

(* An answer that was waited for has every hit, up to the maximum (catalog.go, the   *)
(* fan-outs over indexers and scenes).                                              *)
THEOREM WholeAnswer == FanSpec => []NothingDropped
<1>1. FanInv => NothingDropped
  BY DEF FanInv, Settled, NothingDropped
<1> QED
  BY <1>1, FanInvariance, PTL

-----------------------------------------------------------------------------
(* CatalogCache: what lies under which key, and what a bust leaves.                *)

(* Under the key of its sources lies a page of these sources; only a search that *)
(* runs while no scene store is wired brings other rows, and it has a key of its *)
(* own.                                                                           *)
From(shelf, S) == \A r \in shelf : IndexerOf[r] \in S
Cold == profile.cold /\ ~wired

Gated ==
  profile.gated /\ profile.keyed =>
    /\ \A k \in Keys \ {ColdKey} : cache[k] # NoPage => From(cache[k], k)
    /\ \A n \in Clients : ~Cold => From(brought[n], Reads(n))
    /\ From(mirror, Base)
    /\ wired => From(answer.rows, Reads(answer.to))

(* While a bust is under way or after it, what it has passed is whole, unless a  *)
(* client that read before it wrote it since; and the other clients bring what    *)
(* the source held when it began.                                                 *)
Busted ==
  Followed =>
    /\ floor \subseteq world
    /\ complete => sweep = {}
    /\ complete \/ sweep # {} =>
         \A k \in Keys \ {ColdKey} : cache[k] # NoPage /\ k \notin sweep \cup late => Whole(k, floor) \subseteq cache[k]
    /\ \A n \in Clients : stage[n] = "put" /\ n \notin stale => Source(n, floor) \subseteq brought[n]

CacheInv == CacheTypeOK /\ (~wired => profile.cold) /\ Gated /\ Busted

LEMMA Profiled ==
  ASSUME CacheTypeOK
  PROVE  /\ profile.keyed \in BOOLEAN /\ profile.gated \in BOOLEAN /\ profile.scoped \in BOOLEAN
         /\ profile.empties \in BOOLEAN /\ profile.partial \in BOOLEAN /\ profile.warmed \in BOOLEAN
         /\ profile.mirrored \in BOOLEAN /\ profile.ticked \in BOOLEAN /\ profile.cold \in BOOLEAN
         /\ profile.cold => ~profile.mirrored
  BY ProfilesAssumption DEF CacheTypeOK

LEMMA CacheConstants ==
  /\ \A n \in Clients : Reads(n) \in SUBSET Indexers /\ Base \subseteq Reads(n) /\ Reads(n) \in Keys
  /\ {} \in Keys /\ ColdKey \in Keys /\ {} # ColdKey /\ \A n \in Clients : Reads(n) # ColdKey
  /\ Job \in Clients /\ Reads(Job) = Base
  /\ \A shelf \in SUBSET Rows : NoPage # shelf
  /\ MaxFaults \in Nat /\ MaxBusts \in Nat
  BY CatalogCacheAssumption DEF Clients, Reads, Keys

LEMMA KeysOf ==
  ASSUME CacheTypeOK, NEW n \in Clients
  PROVE  /\ KeyOf(n) \in Keys /\ KeyOf(n) # ColdKey /\ WriteKey(n) \in Keys
         /\ profile.keyed => KeyOf(n) = Reads(n)
         /\ WriteKey(n) # ColdKey => ~Cold /\ WriteKey(n) = KeyOf(n)
         /\ Cold => WriteKey(n) = ColdKey
  BY Profiled, CacheConstants DEF KeyOf, WriteKey, Cold

LEMMA SourceIs ==
  ASSUME CacheTypeOK, NEW n \in Clients, NEW w \in SUBSET Rows
  PROVE  /\ Source(n, w) \in SUBSET Rows /\ Source(n, w) \subseteq w
         /\ profile.gated /\ ~Cold => From(Source(n, w), Reads(n))
  BY Profiled DEF Source, Gate, Cold, From

LEMMA OnHitIs ==
  ASSUME NEW n, NEW shelf
  PROVE  OnHit(n, shelf) \subseteq shelf
  BY DEF OnHit

LEMMA FaultType ==
  ASSUME faults \in 0..MaxFaults, Fault \/ UNCHANGED faults
  PROVE  faults' \in 0..MaxFaults
  BY CacheConstants DEF Fault

LEMMA CacheInitInv == CacheInit => CacheInv
<1> SUFFICES ASSUME CacheInit PROVE CacheInv
  OBVIOUS
<1>1. profile \in Profiles /\ wired \in BOOLEAN /\ (~wired => profile.cold)
  BY DEF CacheInit
<1>2. faults \in 0..MaxFaults /\ busts \in 0..MaxBusts
  <2>1. faults = 0 /\ busts = 0
    BY DEF CacheInit
  <2> QED
    BY <2>1, CacheConstants
<1>3. /\ stage = [n \in Clients |-> "idle"] /\ brought = [n \in Clients |-> {}]
      /\ cache = [k \in Keys |-> NoPage] /\ mirror = {} /\ world = {} /\ floor = {}
      /\ answer = [to |-> Job, rows |-> {}] /\ sweep = {}
      /\ due = FALSE /\ complete = TRUE /\ stale = {} /\ late = {}
  BY DEF CacheInit
<1>4. CacheTypeOK
  BY <1>1, <1>2, <1>3, CacheConstants DEF CacheTypeOK
<1>5. Gated
  BY <1>3, CacheConstants DEF Gated, From
<1>6. Busted
  BY <1>3 DEF Busted
<1> QED
  BY <1>1, <1>4, <1>5, <1>6 DEF CacheInv

(* A step that leaves the pages, the mirror and the bust as they are. *)
LEMMA StageMoves ==
  ASSUME CacheInv, UNCHANGED <<profile, world, wired, cache, mirror, brought, bustVars>>,
         faults' \in 0..MaxFaults, stage' \in [Clients -> {"idle", "fetch", "put"}],
         \A n \in Clients : stage'[n] = "put" => stage[n] = "put",
         answer' \in [to : Clients, rows : SUBSET Rows],
         profile.gated /\ profile.keyed /\ wired => From(answer'.rows, Reads(answer'.to))
  PROVE  CacheInv'
<1>1. CacheTypeOK'
  BY DEF CacheInv, CacheTypeOK, bustVars
<1>2. Reads(answer.to)' = Reads(answer'.to)
  BY DEF Reads
<1>3. Gated'
  BY <1>2 DEF CacheInv, Gated, From, Cold, Reads
<1>4. Busted'
  BY DEF CacheInv, Busted, Followed, Source, Gate, Scope, Whole, bustVars
<1> QED
  BY <1>1, <1>3, <1>4 DEF CacheInv

LEMMA QuietAnswer ==
  ASSUME Quiet
  PROVE  /\ answer' \in [to : Clients, rows : SUBSET Rows]
         /\ answer'.rows = {} /\ \A S : From(answer'.rows, S)
  BY CacheConstants DEF Quiet, From

LEMMA AnsweredIs ==
  ASSUME NEW n \in Clients, NEW shelf \in SUBSET Rows, Answered(n, shelf)
  PROVE  /\ answer' \in [to : Clients, rows : SUBSET Rows]
         /\ answer'.rows \subseteq shelf
         /\ answer'.to = n
  BY DEF Answered

LEMMA BeginInv ==
  ASSUME CacheInv, NEW n \in Clients, Begin(n)
  PROVE  CacheInv'
<1>1. UNCHANGED <<profile, world, wired, cache, mirror, brought, bustVars>>
  BY DEF Begin
<1>2. faults' \in 0..MaxFaults
  BY FaultType DEF Begin, CacheInv, CacheTypeOK
<1>3. CASE Hit(cache[KeyOf(n)]) /\ Answered(n, OnHit(n, cache[KeyOf(n)])) /\ UNCHANGED stage
  <2>1. KeyOf(n) \in Keys /\ KeyOf(n) # ColdKey /\ (profile.keyed => KeyOf(n) = Reads(n))
    BY KeysOf DEF CacheInv
  <2>2. cache[KeyOf(n)] \in SUBSET Rows /\ cache[KeyOf(n)] # NoPage
    BY <1>3, <2>1 DEF Hit, CacheInv, CacheTypeOK
  <2>3. OnHit(n, cache[KeyOf(n)]) \in SUBSET Rows
    BY <2>2, OnHitIs
  <2>4. /\ answer' \in [to : Clients, rows : SUBSET Rows]
        /\ answer'.rows \subseteq cache[KeyOf(n)] /\ answer'.to = n
    BY <1>3, <2>3, AnsweredIs, OnHitIs
  <2>5. profile.gated /\ profile.keyed => From(answer'.rows, Reads(answer'.to))
    BY <2>1, <2>2, <2>4 DEF CacheInv, Gated, From
  <2>6. stage' \in [Clients -> {"idle", "fetch", "put"}]
    BY <1>3 DEF CacheInv, CacheTypeOK
  <2> QED
    BY <1>1, <1>2, <1>3, <2>4, <2>5, <2>6, StageMoves
<1>4. CASE stage' = [stage EXCEPT ![n] = "fetch"] /\ Quiet
  <2>1. /\ stage' \in [Clients -> {"idle", "fetch", "put"}]
        /\ \A m \in Clients : stage'[m] = "put" => stage[m] = "put"
    BY <1>4 DEF CacheInv, CacheTypeOK
  <2> QED
    BY <1>1, <1>2, <1>4, <2>1, QuietAnswer, StageMoves
<1> QED
  BY <1>3, <1>4 DEF Begin

LEMMA BeginJobInv ==
  ASSUME CacheInv, BeginJob
  PROVE  CacheInv'
<1>1. /\ UNCHANGED <<profile, world, wired, cache, mirror, brought, bustVars>> /\ Quiet
      /\ stage' = [stage EXCEPT ![Job] = "fetch"] /\ faults' = faults
  BY DEF BeginJob
<1>2. /\ stage' \in [Clients -> {"idle", "fetch", "put"}] /\ faults' \in 0..MaxFaults
      /\ \A m \in Clients : stage'[m] = "put" => stage[m] = "put"
  BY <1>1, CacheConstants DEF CacheInv, CacheTypeOK
<1> QED
  BY <1>1, <1>2, QuietAnswer, StageMoves

LEMMA FetchFailsInv ==
  ASSUME CacheInv, NEW n \in Clients, FetchFails(n)
  PROVE  CacheInv'
<1>1. /\ UNCHANGED <<profile, world, wired, cache, mirror, brought, bustVars>> /\ Answered(n, {})
      /\ stage' = [stage EXCEPT ![n] = "idle"]
  BY DEF FetchFails
<1>2. /\ stage' \in [Clients -> {"idle", "fetch", "put"}]
      /\ \A m \in Clients : stage'[m] = "put" => stage[m] = "put"
  BY <1>1 DEF CacheInv, CacheTypeOK
<1>3. faults' \in 0..MaxFaults
  BY FaultType DEF FetchFails, CacheInv, CacheTypeOK
<1>4. answer' \in [to : Clients, rows : SUBSET Rows] /\ answer'.rows = {} /\ From(answer'.rows, Reads(answer'.to))
  BY <1>1, AnsweredIs DEF From
<1> QED
  BY <1>1, <1>2, <1>3, <1>4, StageMoves

(* The source is asked after the bust began, or the client is no longer stale. *)
LEMMA FetchInv ==
  ASSUME CacheInv, NEW n \in Clients, Fetch(n)
  PROVE  CacheInv'
<1>1. /\ stage' = [stage EXCEPT ![n] = "put"] /\ stale' = stale \ {n} /\ Quiet
      /\ UNCHANGED <<profile, world, wired, cache, mirror, sweep, due, busts, floor, complete, late>>
  BY DEF Fetch
<1>2. PICK shelf : /\ brought' = [brought EXCEPT ![n] = shelf]
                  /\ \/ shelf = mirror /\ profile.mirrored
                     \/ shelf = Source(n, world)
                     \/ profile.partial /\ shelf \in SUBSET Source(n, world)
  <2>1. CASE \E shelf \in SUBSET Source(n, world) :
               profile.partial /\ brought' = [brought EXCEPT ![n] = shelf]
    BY <2>1
  <2>2. CASE brought' = [brought EXCEPT ![n] =
               IF profile.mirrored /\ n # Job /\ mirror # {} THEN mirror ELSE Source(n, world)]
    BY <2>2, Profiled DEF CacheInv
  <2> QED
    BY <2>1, <2>2 DEF Fetch
<1>3. world \in SUBSET Rows /\ mirror \in SUBSET Rows /\ CacheTypeOK
  BY DEF CacheInv, CacheTypeOK
<1>4. shelf \in SUBSET Rows
  BY <1>2, <1>3, SourceIs
<1>5. faults' \in 0..MaxFaults
  BY FaultType DEF Fetch, CacheInv, CacheTypeOK
<1>6. CacheTypeOK'
  <2>1. stage' \in [Clients -> {"idle", "fetch", "put"}] /\ brought' \in [Clients -> SUBSET Rows]
    BY <1>1, <1>2, <1>3, <1>4 DEF CacheTypeOK
  <2> QED
    BY <1>1, <1>3, <1>5, <2>1, QuietAnswer DEF CacheTypeOK
<1>7. brought'[n] = shelf /\ \A m \in Clients : m # n => brought'[m] = brought[m] /\ stage'[m] = stage[m]
  BY <1>1, <1>2, <1>3 DEF CacheTypeOK
<1>8. Gated'
  <2> SUFFICES ASSUME profile.gated, profile.keyed PROVE Gated'
    BY <1>1 DEF Gated
  <2>1. ~Cold => From(shelf, Reads(n))
    BY <1>2, <1>3, SourceIs, CacheConstants DEF CacheInv, Gated, From
  <2>2. \A m \in Clients : ~Cold => From(brought'[m], Reads(m))
    BY <1>7, <2>1 DEF CacheInv, Gated
  <2>3. \A S : From(answer'.rows, S)
    BY <1>1, QuietAnswer
  <2> QED
    BY <1>1, <2>2, <2>3 DEF CacheInv, Gated, From, Cold, Reads
<1>9. Busted'
  <2> SUFFICES ASSUME Followed PROVE Busted'
    BY <1>1 DEF Busted, Followed
  <2>1. shelf = Source(n, world) /\ floor \subseteq world
    BY <1>2 DEF Followed, CacheInv, Busted
  <2>2. Source(n, floor) \subseteq shelf
    BY <2>1 DEF Source
  <2>3. \A m \in Clients : stage'[m] = "put" /\ m \notin stale' => Source(m, floor) \subseteq brought'[m]
    BY <1>1, <1>7, <2>2 DEF CacheInv, Busted
  <2> QED
    BY <1>1, <2>3 DEF CacheInv, Busted, Followed, Source, Gate, Scope, Whole
<1> QED
  BY <1>1, <1>6, <1>8, <1>9 DEF CacheInv

(* A page goes under the key of the sources it was read from. *)
LEMMA PutInv ==
  ASSUME CacheInv, NEW n \in Clients, Put(n)
  PROVE  CacheInv'
<1> DEFINE k == WriteKey(n)
           shelf == brought[n]
<1>1. /\ stage[n] = "put" /\ Answered(n, OnHit(n, shelf))
      /\ stage' = [stage EXCEPT ![n] = "idle"] /\ brought' = [brought EXCEPT ![n] = {}]
      /\ stale' = stale \ {n}
      /\ UNCHANGED <<profile, world, wired, sweep, due, busts, floor, complete>>
  BY DEF Put
<1>2. \/ /\ Worth(shelf) /\ cache' = [cache EXCEPT ![k] = shelf] /\ mirror' = Mirror(n)
         /\ late' = IF n \in stale THEN late \cup {k} ELSE late \ {k}
      \/ UNCHANGED <<cache, mirror, late>>
  BY DEF Put
<1>3. /\ CacheTypeOK /\ k \in Keys /\ shelf \in SUBSET Rows
      /\ profile.keyed => KeyOf(n) = Reads(n)
      /\ k # ColdKey => ~Cold /\ k = KeyOf(n)
  BY KeysOf DEF CacheInv, CacheTypeOK
<1>4. shelf # NoPage
  BY <1>3, CacheConstants
<1> HIDE DEF k
<1>5. CacheTypeOK'
  <2>1. faults' \in 0..MaxFaults
    BY FaultType DEF Put, CacheInv, CacheTypeOK
  <2>2. stage' \in [Clients -> {"idle", "fetch", "put"}] /\ brought' \in [Clients -> SUBSET Rows]
    BY <1>1, <1>3 DEF CacheTypeOK
  <2>3. mirror' \in SUBSET Rows /\ late' \in SUBSET Keys
    BY <1>2, <1>3 DEF CacheTypeOK, Mirror
  <2>4. cache' \in [Keys -> {NoPage} \cup {c \in SUBSET Rows : c # {} \/ profile.empties}]
    BY <1>2, <1>3 DEF CacheTypeOK, Worth
  <2>5. answer' \in [to : Clients, rows : SUBSET Rows]
    <3>1. OnHit(n, shelf) \in SUBSET Rows
      BY <1>3, OnHitIs
    <3> QED
      BY <1>1, <3>1, AnsweredIs
  <2> QED
    BY <1>1, <1>3, <2>1, <2>2, <2>3, <2>4, <2>5 DEF CacheTypeOK
<1>6. /\ brought'[n] = {} /\ stage'[n] = "idle"
      /\ \A m \in Clients : m # n => brought'[m] = brought[m] /\ stage'[m] = stage[m]
  BY <1>1, <1>3 DEF CacheTypeOK
<1>7. \A j \in Keys : j # k => cache'[j] = cache[j]
  BY <1>2, <1>3 DEF CacheTypeOK
<1>8. (cache'[k] = cache[k] /\ late' = late) \/ cache'[k] = shelf
  BY <1>2, <1>3 DEF CacheTypeOK
<1>9. Gated'
  <2> SUFFICES ASSUME profile.gated, profile.keyed PROVE Gated'
    BY <1>1 DEF Gated
  <2>1. ~Cold => From(shelf, Reads(n))
    BY DEF CacheInv, Gated
  <2>2. k # ColdKey => From(shelf, k)
    BY <1>3, <2>1
  <2>3. \A j \in Keys \ {ColdKey} : cache'[j] # NoPage => From(cache'[j], j)
    BY <1>7, <1>8, <2>2 DEF CacheInv, Gated
  <2>4. \A m \in Clients : ~Cold => From(brought'[m], Reads(m))
    BY <1>6 DEF CacheInv, Gated, From
  <2>5. From(mirror', Base)
    <3>1. profile.mirrored => ~Cold
      BY <1>3, Profiled DEF Cold
    <3> QED
      BY <1>2, <1>3, <2>1, <3>1, CacheConstants, Profiled DEF CacheInv, Gated, Mirror, From
  <2>6. wired => From(answer'.rows, Reads(answer'.to))
    <3>1. OnHit(n, shelf) \in SUBSET Rows /\ OnHit(n, shelf) \subseteq shelf
      BY <1>3, OnHitIs
    <3>2. answer'.rows \subseteq shelf /\ answer'.to = n
      BY <1>1, <3>1, AnsweredIs
    <3> QED
      BY <2>1, <3>2 DEF From, Cold
  <2> QED
    BY <1>1, <2>3, <2>4, <2>5, <2>6 DEF Gated, From, Cold, Reads
<1>10. Busted'
  <2> SUFFICES ASSUME Followed PROVE Busted'
    BY <1>1 DEF Busted, Followed
  <2>1. \A m \in Clients : stage'[m] = "put" /\ m \notin stale' => Source(m, floor) \subseteq brought'[m]
    BY <1>1, <1>6 DEF CacheInv, Busted
  <2>2. k # ColdKey => Whole(k, floor) \subseteq Source(n, floor)
    <3> SUFFICES ASSUME k # ColdKey, NEW r \in Whole(k, floor) PROVE r \in Source(n, floor)
      OBVIOUS
    <3>1. r \in floor /\ r \in Rows
      BY <1>3 DEF Whole, CacheTypeOK
    <3>2. profile.gated => IndexerOf[r] \in Reads(n)
      BY <1>3, Profiled DEF Whole, Followed
    <3>3. r \in Gate(n) /\ r \in Scope(n)
      BY <1>3, <3>1, <3>2, Profiled DEF Whole, Gate, Scope
    <3> QED
      BY <3>1, <3>3 DEF Source
  <2>3. complete \/ sweep # {} =>
          \A j \in Keys \ {ColdKey} :
            cache'[j] # NoPage /\ j \notin sweep \cup late' => Whole(j, floor) \subseteq cache'[j]
    <3> SUFFICES ASSUME complete \/ sweep # {}, NEW j \in Keys \ {ColdKey},
                        cache'[j] # NoPage, j \notin sweep \cup late'
                 PROVE  Whole(j, floor) \subseteq cache'[j]
      OBVIOUS
    <3>1. CASE j # k
      BY <1>2, <1>7, <3>1 DEF CacheInv, Busted
    <3>2. CASE j = k
      <4>1. CASE UNCHANGED <<cache, mirror, late>>
        BY <4>1 DEF CacheInv, Busted
      <4>2. CASE ~UNCHANGED <<cache, mirror, late>>
        <5>1. n \notin stale /\ cache'[k] = shelf
          BY <1>2, <1>3, <3>2, <4>2 DEF CacheTypeOK
        <5>2. Source(n, floor) \subseteq shelf
          BY <1>1, <5>1 DEF CacheInv, Busted
        <5> QED
          BY <2>2, <3>2, <5>1, <5>2
      <4> QED
        BY <4>1, <4>2
    <3> QED
      BY <3>1, <3>2
  <2> QED
    BY <1>1, <2>1, <2>3 DEF CacheInv, Busted, Followed, Source, Gate, Scope, Whole
<1> QED
  BY <1>1, <1>5, <1>9, <1>10 DEF CacheInv

LEMMA RunsOutInv ==
  ASSUME CacheInv, NEW k \in Keys, RunsOut(k)
  PROVE  CacheInv'
<1>1. /\ cache' = [cache EXCEPT ![k] = NoPage] /\ late' = late \ {k} /\ Quiet
      /\ UNCHANGED <<profile, world, wired, mirror, stage, brought, faults, sweep, due, busts, floor, complete,
                     stale>>
  BY DEF RunsOut
<1>2. CacheTypeOK'
  BY <1>1, QuietAnswer DEF CacheInv, CacheTypeOK
<1>3. cache'[k] = NoPage /\ \A j \in Keys : j # k => cache'[j] = cache[j]
  BY <1>1 DEF CacheInv, CacheTypeOK
<1>4. \A S : From(answer'.rows, S)
  BY <1>1, QuietAnswer
<1>5. Gated'
  BY <1>1, <1>3, <1>4 DEF CacheInv, Gated, From, Cold, Reads
<1>6. Busted'
  BY <1>1, <1>3 DEF CacheInv, Busted, Followed, Source, Gate, Scope, Whole
<1> QED
  BY <1>1, <1>2, <1>5, <1>6 DEF CacheInv

LEMMA GrowInv ==
  ASSUME CacheInv, NEW r \in Rows, Grow(r)
  PROVE  CacheInv'
<1>1. /\ world' = world \cup {r} /\ due' = profile.ticked /\ Quiet
      /\ UNCHANGED <<profile, wired, cache, mirror, stage, brought, faults, sweep, busts, floor, complete,
                     stale, late>>
  BY DEF Grow
<1>2. CacheTypeOK'
  BY <1>1, QuietAnswer, Profiled DEF CacheInv, CacheTypeOK
<1>3. \A S : From(answer'.rows, S)
  BY <1>1, QuietAnswer
<1>4. Gated'
  BY <1>1, <1>3 DEF CacheInv, Gated, From, Cold, Reads
<1>5. Busted'
  BY <1>1 DEF CacheInv, Busted, Followed, Source, Gate, Scope, Whole
<1> QED
  BY <1>1, <1>2, <1>4, <1>5 DEF CacheInv

(* Nothing that was read without the gate is left when the store is there. *)
LEMMA WireInv ==
  ASSUME CacheInv, Wire
  PROVE  CacheInv'
<1>1. /\ wired' = TRUE /\ stage' = [n \in Clients |-> "idle"] /\ brought' = [n \in Clients |-> {}] /\ Quiet
      /\ sweep' = {} /\ complete' = (complete /\ sweep = {})
      /\ UNCHANGED <<profile, world, cache, mirror, faults, due, busts, floor, stale, late>>
  BY DEF Wire
<1>2. CacheTypeOK'
  BY <1>1, QuietAnswer DEF CacheInv, CacheTypeOK
<1>3. \A S : From(answer'.rows, S)
  BY <1>1, QuietAnswer
<1>4. \A n \in Clients : brought'[n] = {} /\ stage'[n] = "idle"
  BY <1>1
<1>5. Gated'
  BY <1>1, <1>3, <1>4 DEF CacheInv, Gated, From
<1>6. Busted'
  <2> SUFFICES ASSUME Followed PROVE Busted'
    BY <1>1 DEF Busted, Followed
  <2>1. complete' => complete /\ sweep = {}
    BY <1>1 DEF CacheInv, CacheTypeOK
  <2> QED
    BY <1>1, <1>4, <2>1 DEF CacheInv, Busted, Whole
<1> QED
  BY <1>1, <1>2, <1>5, <1>6 DEF CacheInv

LEMMA BustBeginInv ==
  ASSUME CacheInv, BustBegin
  PROVE  CacheInv'
<1>1. /\ sweep' = Matching /\ complete' = (Matching = {}) /\ floor' = IF Followed THEN world ELSE {}
      /\ stale' = {n \in Clients : Followed /\ stage[n] = "put"} /\ late' = {} /\ Quiet
      /\ UNCHANGED <<profile, world, wired, cache, mirror, stage, brought, faults>>
  BY DEF BustBegin
<1>2. busts' \in 0..MaxBusts /\ due' \in BOOLEAN
  <2>1. busts \in 0..MaxBusts /\ due \in BOOLEAN
    BY DEF CacheInv, CacheTypeOK
  <2>2. due' \in BOOLEAN /\ (busts' = busts \/ (busts < MaxBusts /\ busts' = busts + 1))
    BY <2>1 DEF BustBegin
  <2> QED
    BY <2>1, <2>2, CacheConstants
<1>3. CacheTypeOK'
  BY <1>1, <1>2, QuietAnswer DEF CacheInv, CacheTypeOK, Matching
<1>4. \A S : From(answer'.rows, S)
  BY <1>1, QuietAnswer
<1>5. Gated'
  BY <1>1, <1>4 DEF CacheInv, Gated, From, Cold, Reads
<1>6. Busted'
  <2> SUFFICES ASSUME Followed PROVE Busted'
    BY <1>1 DEF Busted, Followed
  <2>1. \A k \in Keys : k \notin sweep' => cache'[k] = NoPage
    BY <1>1 DEF Matching
  <2>2. \A n \in Clients : stage'[n] = "put" => n \in stale'
    BY <1>1
  <2> QED
    BY <1>1, <2>1, <2>2 DEF Busted
<1> QED
  BY <1>1, <1>3, <1>5, <1>6 DEF CacheInv

LEMMA BustKeyInv ==
  ASSUME CacheInv, NEW k \in Keys, BustKey(k)
  PROVE  CacheInv'
<1>1. /\ k \in sweep /\ Quiet
      /\ UNCHANGED <<profile, world, wired, mirror, stage, brought, due, busts, floor, stale>>
  BY DEF BustKey
<1>2. \/ /\ cache' = [cache EXCEPT ![k] = NoPage] /\ sweep' = sweep \ {k}
         /\ complete' = (sweep = {k}) /\ late' = late \ {k}
      \/ sweep' = {} /\ UNCHANGED <<cache, complete, late>>
  BY DEF BustKey
<1>3. faults' \in 0..MaxFaults
  BY FaultType DEF BustKey, CacheInv, CacheTypeOK
<1>4. CacheTypeOK'
  <2>1. cache' \in [Keys -> {NoPage} \cup {c \in SUBSET Rows : c # {} \/ profile.empties}]
    BY <1>2 DEF CacheInv, CacheTypeOK
  <2>2. sweep' \in SUBSET Keys /\ late' \in SUBSET Keys /\ complete' \in BOOLEAN
    BY <1>2 DEF CacheInv, CacheTypeOK
  <2> QED
    BY <1>1, <1>3, <2>1, <2>2, QuietAnswer DEF CacheInv, CacheTypeOK
<1>5. \A j \in Keys : cache'[j] = cache[j] \/ cache'[j] = NoPage
  BY <1>2 DEF CacheInv, CacheTypeOK
<1>6. \A S : From(answer'.rows, S)
  BY <1>1, QuietAnswer
<1>7. Gated'
  <2>1. \A j \in Keys \ {ColdKey} : cache'[j] # NoPage => cache'[j] = cache[j]
    BY <1>5
  <2> QED
    BY <1>1, <1>6, <2>1 DEF CacheInv, Gated, From, Cold, Reads
<1>8. Busted'
  <2> SUFFICES ASSUME Followed PROVE Busted'
    BY <1>1 DEF Busted, Followed
  <2>1. floor' \subseteq world' /\ (complete' => sweep' = {})
    BY <1>1, <1>2 DEF CacheInv, Busted
  <2>2. ~complete
    BY <1>1 DEF CacheInv, Busted
  <2>3. complete' \/ sweep' # {} =>
          \A j \in Keys \ {ColdKey} :
            cache'[j] # NoPage /\ j \notin sweep' \cup late' => Whole(j, floor) \subseteq cache'[j]
    <3>1. CASE sweep' = {} /\ UNCHANGED <<cache, complete, late>>
      BY <2>2, <3>1
    <3>2. CASE /\ cache' = [cache EXCEPT ![k] = NoPage] /\ sweep' = sweep \ {k} /\ late' = late \ {k}
      <4>1. cache'[k] = NoPage /\ \A j \in Keys : j # k => cache'[j] = cache[j]
        BY <3>2 DEF CacheInv, CacheTypeOK
      <4> QED
        BY <1>1, <3>2, <4>1 DEF CacheInv, Busted
    <3> QED
      BY <1>2, <3>1, <3>2
  <2>4. \A n \in Clients : stage'[n] = "put" /\ n \notin stale' => Source(n, floor) \subseteq brought'[n]
    BY <1>1 DEF CacheInv, Busted
  <2> QED
    BY <1>1, <2>1, <2>3, <2>4 DEF Busted, Source, Gate, Scope, Whole
<1> QED
  BY <1>1, <1>4, <1>7, <1>8 DEF CacheInv

LEMMA CacheStepInv == CacheInv /\ [CacheNext]_cacheVars => CacheInv'
<1> SUFFICES ASSUME CacheInv, [CacheNext]_cacheVars PROVE CacheInv'
  OBVIOUS
<1>1. CASE UNCHANGED cacheVars
  <2>1. UNCHANGED <<profile, world, wired, cache, mirror, stage, brought, answer, faults, sweep, due, busts,
                    floor, complete, stale, late>>
    BY <1>1 DEF cacheVars, bustVars
  <2>2. CacheTypeOK' /\ Gated' /\ Busted'
    BY <2>1 DEF CacheInv, CacheTypeOK, Gated, From, Cold, Reads, Busted, Followed, Source, Gate, Scope, Whole
  <2> QED
    BY <2>1, <2>2 DEF CacheInv
<1> QED
  BY <1>1, BeginInv, FetchInv, FetchFailsInv, PutInv, BeginJobInv, WireInv, BustBeginInv, GrowInv, RunsOutInv,
     BustKeyInv DEF CacheNext

LEMMA CacheInvariance == CacheSpec => []CacheInv
  BY CacheInitInv, CacheStepInv, PTL DEF CacheSpec

(* Every variable has its type: no empty page is kept where none is worth writing. *)
THEOREM CacheTypeCorrect == CacheSpec => []CacheTypeOK
<1>1. CacheInv => CacheTypeOK
  BY DEF CacheInv
<1> QED
  BY <1>1, CacheInvariance, PTL

(* For any indexers, installs and catalogs, no install is answered a row of a       *)
(* source it turned off (stremio/redis_store.go, the sourcesKey of its keys).        *)
THEOREM SourceGateHolds == CacheSpec => []SourceGate
<1>1. CacheInv => SourceGate
  BY DEF CacheInv, Gated, SourceGate, From
<1> QED
  BY <1>1, CacheInvariance, PTL

(* After a whole bust only a request that was under way can bring an old page back, *)
(* for any keys, clients and failures (services/redis/client.go, DelByPrefix).       *)
THEOREM BustHoldsAlways == CacheSpec => []BustHolds
<1>1. CacheInv => BustHolds
  <2> SUFFICES ASSUME CacheInv, Followed, complete, NEW k \in Keys \ {ColdKey}, cache[k] # NoPage, k \notin late
               PROVE  Whole(k, floor) \subseteq cache[k]
    BY DEF BustHolds
  <2> QED
    BY DEF CacheInv, Busted
<1> QED
  BY <1>1, CacheInvariance, PTL

-----------------------------------------------------------------------------
(* Manifest: why a row is shown, against what opens it.                            *)

(* Why a row is shown, in terms of what the URL of the install says alone: the *)
(* server's keys, studios and genres may change before the row is opened.      *)
Showable(id) ==
  /\ Kind(id) = "tpb" => BaseEnabled(id[2]) /\ id[3] \in cfg.sorts
  /\ Kind(id) = "compact" => cfg.compact /\ cfg.sorts # {} /\ Compactable(id[2])
  /\ Kind(id) = "tpdb" => "pornrips" \in cfg.sources
  /\ Kind(id) = "sukebei" => Key("sukebei") \notin cfg.disabled
  /\ Kind(id) \in {"pr", "tpdb", "hentai", "sc", "tube"} => id \notin cfg.disabled

ManInv ==
  /\ ManTypeOK
  /\ \A id \in rows : Showable(id)
  /\ OnlyEnabled

(* The forms an id may have. *)
Form(id) ==
  \/ \E c \in Mains \cup Studios, s \in Sorts :
       \E q \in Qualities(c) : id = <<"tpb", <<c, q>>, s>>
  \/ \E c \in Mains \cup Studios : id = <<"compact", c>>
  \/ id = <<"search">>
  \/ \E k \in {"tpdb", "stashdb"} : id = <<"category", k>>
  \/ \E n \in Sorts : id = <<"sukebei", n>>
  \/ \E n \in {"new", "top", "all", "studios", "years", "search"} : id = <<"hentai", n>>
  \/ \E n \in {"girls", "couples", "guys", "trans"} : id = <<"sc", n>>
  \/ \E n \in {"recent", "studio", "tag", "search"} : id = <<"pr", n>>
  \/ \E n \in {"new", "search"} : id = <<"tpdb", n>>
  \/ \E t \in Tubes, n \in {"recent", "search"} \cup Pickers : id = <<"tube", t, n>>

LEMMA IdsHaveForms == \A id : id \in Ids <=> Form(id)
  <1>1. \A id : id \in Adult(Mains \cup Studios) <=>
          \E c \in Mains \cup Studios, s \in Sorts : \E q \in Qualities(c) : id = <<"tpb", <<c, q>>, s>>
    BY DEF Adult
  <1>2. \A id : id \in {<<"compact", c>> : c \in Mains \cup Studios} <=>
          \E c \in Mains \cup Studios : id = <<"compact", c>>
    OBVIOUS
  <1>3. \A id : id \in {Search, Category("tpdb"), Category("stashdb")} <=>
          (id = <<"search">> \/ \E k \in {"tpdb", "stashdb"} : id = <<"category", k>>)
    BY DEF Search, Category
  <1>4. \A id : id \in Sukebei <=> \E n \in Sorts : id = <<"sukebei", n>>
    BY DEF Sukebei, Own
  <1>5. \A id : id \in Hentai <=>
          \E n \in {"new", "top", "all", "studios", "years", "search"} : id = <<"hentai", n>>
    BY DEF Hentai, Own
  <1>6. \A id : id \in Cams <=> \E n \in {"girls", "couples", "guys", "trans"} : id = <<"sc", n>>
    BY DEF Cams, Own
  <1>7. \A id : id \in Pornrips <=>
          (\/ \E n \in {"recent", "studio", "tag", "search"} : id = <<"pr", n>>
           \/ \E n \in {"new", "search"} : id = <<"tpdb", n>>)
    BY DEF Pornrips, Own
  <1>8. \A id : id \in UNION {TubeRows(t, Pickers) : t \in Tubes} <=>
          \E t \in Tubes, n \in {"recent", "search"} \cup Pickers : id = <<"tube", t, n>>
    BY DEF TubeRows
  <1>9. \A id : id \in Ids <=>
          (\/ id \in Adult(Mains \cup Studios) \/ id \in {<<"compact", c>> : c \in Mains \cup Studios}
           \/ id \in {Search, Category("tpdb"), Category("stashdb")}
           \/ id \in Sukebei \/ id \in Hentai \/ id \in Cams \/ id \in Pornrips
           \/ id \in UNION {TubeRows(t, Pickers) : t \in Tubes})
    BY Zenon DEF Ids
  <1> QED
    <2> SUFFICES ASSUME NEW id PROVE id \in Ids <=> Form(id)
      OBVIOUS
    <2>1. id \in Adult(Mains \cup Studios) <=>
            \E c \in Mains \cup Studios, s \in Sorts : \E q \in Qualities(c) : id = <<"tpb", <<c, q>>, s>>
      BY <1>1
    <2>2. id \in {<<"compact", c>> : c \in Mains \cup Studios} <=>
            \E c \in Mains \cup Studios : id = <<"compact", c>>
      BY <1>2
    <2>3. id \in UNION {TubeRows(t, Pickers) : t \in Tubes} <=>
            \E t \in Tubes, n \in {"recent", "search"} \cup Pickers : id = <<"tube", t, n>>
      BY <1>8
    <2> QED BY <1>3, <1>4, <1>5, <1>6, <1>7, <1>9, <2>1, <2>2, <2>3, Zenon DEF Form

(* What of the parsed configuration the URL alone decides. *)
LEMMA UrlDecides ==
  ASSUME raw' = raw
  PROVE  /\ cfg'.sources = cfg.sources /\ cfg'.disabled = cfg.disabled /\ cfg'.enabled = cfg.enabled
         /\ cfg'.sorts = cfg.sorts /\ cfg'.compact = cfg.compact
  BY DEF cfg, Parse

LEMMA SortsAreSorts == cfg.sorts \subseteq Sorts
  BY DEF cfg, Parse

LEMMA SameUrl ==
  ASSUME raw' = raw
  PROVE  /\ \A b : BaseEnabled(b)' <=> BaseEnabled(b)
         /\ \A id : Showable(id)' <=> Showable(id)
  <1>1. \A b : BaseEnabled(b)' <=> BaseEnabled(b)
    BY UrlDecides DEF BaseEnabled
  <1>2. \A c : Compactable(c)' <=> Compactable(c)
    BY <1>1 DEF Compactable
  <1>3. \A id : Showable(id)' <=> Showable(id)
    BY <1>1, <1>2, UrlDecides DEF Showable, Kind
  <1> QED BY <1>1, <1>3

(* The manifest lists ids the dispatch knows, each with a reason to be shown. *)
LEMMA ShownRows ==
  ASSUME studios \subseteq Studios, genres \in [Tubes -> SUBSET Pickers], keys \subseteq {"tpdb", "stashdb"}
  PROVE  Shown \subseteq Ids /\ \A id \in Shown : Showable(id)
  <1> SUFFICES ASSUME NEW id \in Shown PROVE Form(id) /\ Showable(id)
    BY IdsHaveForms
  <1>1. CASE id \in TpbRows /\ "piratebay" \in cfg.sources
    <2>1. CASE id \in Adult(Mains \cup studios) /\ BaseEnabled(id[2]) /\ id[3] \in cfg.sorts
      <3>1. PICK c \in Mains \cup Studios, s \in Sorts :
              \E q \in Qualities(c) : id = <<"tpb", <<c, q>>, s>>
        BY <2>1 DEF Adult
      <3> QED BY <2>1, <3>1 DEF Form, Showable, Kind
    <2>2. CASE \E c \in Mains \cup studios :
                 id = <<"compact", c>> /\ cfg.compact /\ cfg.sorts # {} /\ Compactable(c)
      BY <2>2 DEF Form, Showable, Kind
    <2>3. CASE id = Search
      BY <2>3 DEF Form, Showable, Kind, Search
    <2> QED BY <1>1, <2>1, <2>2, <2>3 DEF TpbRows
  <1>2. CASE id \in PornripsRows /\ "pornrips" \in cfg.sources
    <2>1. id \in Pornrips /\ id \notin cfg.disabled
      BY <1>2 DEF PornripsRows
    <2>2. CASE \E n \in {"recent", "studio", "tag", "search"} : id = <<"pr", n>>
      BY <2>1, <2>2 DEF Form, Showable, Kind
    <2>3. CASE \E n \in {"new", "search"} : id = <<"tpdb", n>>
      BY <1>2, <2>1, <2>3 DEF Form, Showable, Kind
    <2> QED BY <2>1, <2>2, <2>3 DEF Pornrips, Own
  <1>3. CASE id \in SukebeiRows
    <2>1. Key("sukebei") \notin cfg.disabled /\ id \in Sukebei
      BY <1>3 DEF SukebeiRows
    <2> QED BY <2>1 DEF Sukebei, Own, Form, Showable, Kind
  <1>4. CASE id \in Hentai \ cfg.disabled
    BY <1>4 DEF Hentai, Own, Form, Showable, Kind
  <1>5. CASE id \in Cams \ cfg.disabled
    BY <1>5 DEF Cams, Own, Form, Showable, Kind
  <1>6. CASE \E t \in Tubes : id \in TubeRows(t, genres[t]) \ cfg.disabled
    <2>1. PICK t \in Tubes : id \in TubeRows(t, genres[t]) \ cfg.disabled
      BY <1>6
    <2>2. PICK n \in {"recent", "search"} \cup Pickers : id = <<"tube", t, n>>
      BY <2>1 DEF TubeRows
    <2> QED BY <2>1, <2>2 DEF Form, Showable, Kind
  <1>7. CASE \E k \in keys : id = Category(k)
    <2>1. PICK k \in {"tpdb", "stashdb"} : id = <<"category", k>>
      BY <1>7 DEF Category
    <2>2. Kind(id) = "category"
      BY <2>1 DEF Kind
    <2> QED BY <2>1, <2>2 DEF Form, Showable
  <1>8. \/ id \in TpbRows /\ "piratebay" \in cfg.sources
        \/ id \in PornripsRows /\ "pornrips" \in cfg.sources
        \/ id \in SukebeiRows \/ id \in Hentai \ cfg.disabled \/ id \in Cams \ cfg.disabled
        \/ \E t \in Tubes : id \in TubeRows(t, genres[t]) \ cfg.disabled
        \/ \E k \in keys : id = Category(k)
    <2>1. \A source, some : id \in OfSource(source, some) <=> source \in cfg.sources /\ id \in some
      BY DEF OfSource
    <2>3. \/ id \in OfSource("piratebay", TpbRows) \/ id \in OfSource("pornrips", PornripsRows)
          \/ id \in OfSource("sukebei", SukebeiRows) \/ id \in OfSource("hentai", Hentai \ cfg.disabled)
          \/ id \in OfSource("stripchat", Cams \ cfg.disabled)
          \/ id \in TubesShown \/ id \in CategoriesShown
      BY DEF Shown
    <2>4. id \in TubesShown => \E t \in Tubes : id \in OfSource(t, TubeRows(t, genres[t]) \ cfg.disabled)
      BY DEF TubesShown
    <2>5. id \in CategoriesShown => \E k \in keys : id = Category(k)
      BY DEF CategoriesShown
    <2> QED BY <2>1, <2>3, <2>4, <2>5, Zenon
  <1> QED BY <1>1, <1>2, <1>3, <1>4, <1>5, <1>6, <1>7, <1>8

(* The gate agrees with the manifest: a row with a reason to be shown opens. *)
LEMMA ShowableOpens ==
  ASSUME NEW id \in Ids, Showable(id)
  PROVE  DeadEnd(id) \/ Opened(id) # {}
  <1>0. Form(id)
    BY IdsHaveForms
  <1>1. CASE \E c \in Mains \cup Studios, s \in Sorts :
               \E q \in Qualities(c) : id = <<"tpb", <<c, q>>, s>>
    <2>1. Kind(id) = "tpb" /\ BaseEnabled(id[2]) /\ id[3] \in cfg.sorts
      BY <1>1 DEF Showable, Kind
    <2>2. Allowed(id)
      BY <2>1 DEF Allowed, TpbAllowed
    <2>3. Listings(id) = {id[2]}
      BY <2>1 DEF Listings
    <2> QED BY <2>2, <2>3 DEF Opened
  <1>2. CASE \E c \in Mains \cup Studios : id = <<"compact", c>>
    <2>1. Kind(id) = "compact" /\ cfg.compact /\ cfg.sorts # {} /\ Compactable(id[2])
      BY <1>2 DEF Showable, Kind
    <2>2. Allowed(id)
      BY <2>1 DEF Allowed
    <2>3. Listings(id) = Included(id[2])
      BY <2>1 DEF Listings
    <2>4. Included(id[2]) # {}
      BY <2>1 DEF Compactable, Included
    <2> QED BY <2>2, <2>3, <2>4 DEF Opened
  <1>3. CASE id = <<"search">>
    BY <1>3 DEF Opened, Allowed, Listings, SearchAllowed, Search, Kind
  <1>4. CASE \E k \in {"tpdb", "stashdb"} : id = <<"category", k>>
    <2>1. Kind(id) = "category"
      BY <1>4 DEF Kind
    <2>2. Allowed(id) /\ Listings(id) = {<<Kind(id), s>> : s \in Matched}
      BY <2>1 DEF Allowed, Listings
    <2> QED BY <2>1, <2>2 DEF Opened, DeadEnd
  <1>5. CASE \E n \in {"new", "search"} : id = <<"tpdb", n>>
    <2>1. Kind(id) = "tpdb" /\ "pornrips" \in cfg.sources /\ id \notin cfg.disabled
      BY <1>5 DEF Showable, Kind
    <2>2. Allowed(id) /\ Listings(id) = {<<Kind(id), s>> : s \in Matched}
      BY <2>1 DEF Allowed, Listings, SwitchedOff
    <2>3. "pornrips" \in Matched
      BY <2>1 DEF Matched
    <2> QED BY <2>2, <2>3 DEF Opened
  <1>6. CASE Kind(id) \in {"sukebei", "hentai", "sc", "pr", "tube"}
    <2>1. Allowed(id) <=> ~SwitchedOff(id)
      BY <1>6 DEF Allowed
    <2>2. Listings(id) = {<<Kind(id)>>}
      BY <1>6 DEF Listings
    <2>3. DeadEnd(id) \/ ~SwitchedOff(id)
      BY <1>6 DEF DeadEnd, SwitchedOff, Showable
    <2> QED BY <2>1, <2>2, <2>3 DEF Opened
  <1>7. \/ Kind(id) \in {"sukebei", "hentai", "sc", "pr", "tube"}
        \/ \E c \in Mains \cup Studios, s \in Sorts :
             \E q \in Qualities(c) : id = <<"tpb", <<c, q>>, s>>
        \/ \E c \in Mains \cup Studios : id = <<"compact", c>>
        \/ id = <<"search">>
        \/ \E k \in {"tpdb", "stashdb"} : id = <<"category", k>>
        \/ \E n \in {"new", "search"} : id = <<"tpdb", n>>
    BY <1>0 DEF Form, Kind
  <1> QED BY <1>1, <1>2, <1>3, <1>4, <1>5, <1>6, <1>7

(* What the gate lets through of TPB is enabled, whatever id was sent. *)
LEMMA OpenedEnabled ==
  ASSUME NEW id \in Ids, NEW l \in Opened(id) \cap Bases(Mains \cup Studios)
  PROVE  BaseEnabled(l)
  <1>0. Form(id) /\ Allowed(id) /\ l \in Listings(id)
    BY IdsHaveForms DEF Opened
  <1>1. PICK c \in Mains \cup Studios, q \in {"4k", "fhd"} : l = <<c, q>>
    BY DEF Bases
  <1>2. CASE Kind(id) = "tpb"
    <2>1. l = id[2] /\ TpbAllowed(id[2], {id[3]})
      BY <1>0, <1>2 DEF Listings, Allowed
    <2> QED BY <2>1 DEF TpbAllowed
  <1>3. CASE Kind(id) = "compact" /\ cfg.compact
    <2>1. l \in Included(id[2])
      BY <1>0, <1>3 DEF Listings
    <2> QED BY <2>1 DEF Included
  <1>4. CASE Kind(id) = "compact" /\ ~cfg.compact
    <2>1. l = <<id[2], "4k">> /\ TpbAllowed(<<id[2], "4k">>, {})
      BY <1>0, <1>4 DEF Listings, Allowed
    <2> QED BY <2>1 DEF TpbAllowed
  <1>5. CASE Kind(id) \in {"category", "tpdb"}
    <2>1. PICK s \in Matched : l = <<Kind(id), s>>
      BY <1>0, <1>5 DEF Listings
    <2>2. s \in {"piratebay", "pornrips", "indexers"}
      BY DEF Matched
    <2> QED BY <1>1, <2>1, <2>2
  <1>6. CASE Kind(id) \notin {"tpb", "compact", "category", "tpdb"}
    <2>1. l = <<Kind(id)>>
      BY <1>0, <1>6 DEF Listings
    <2> QED BY <1>1, <2>1
  <1> QED BY <1>2, <1>3, <1>4, <1>5, <1>6

LEMMA ManInvHolds == ManSpec => []ManInv
  <1>1. ManInit => ManInv
    BY ManifestAssumption DEF ManInit, ManInv, ManTypeOK, OnlyEnabled
  <1>2. ManInv /\ [ManNext]_manVars => ManInv'
    <2> SUFFICES ASSUME ManInv, [ManNext]_manVars PROVE ManInv'
      OBVIOUS
    <2>t. ManTypeOK
      BY DEF ManInv
    <2>1. CASE FetchManifest
      <3>1. rows' \subseteq Ids /\ \A id \in rows' : Showable(id)
        BY <2>1, <2>t, ShownRows DEF FetchManifest, ManTypeOK
      <3>2. raw' = raw
        BY <2>1 DEF FetchManifest
      <3>3. \A id \in rows' : Showable(id)'
        BY <3>1, <3>2, SameUrl
      <3>4. OnlyEnabled'
        BY <2>1, <3>2, SameUrl DEF FetchManifest, ManInv, OnlyEnabled
      <3>5. ManTypeOK'
        BY <2>1, <2>t, <3>1 DEF FetchManifest, ManTypeOK
      <3> QED BY <3>3, <3>4, <3>5 DEF ManInv
    <2>2. ASSUME NEW id \in Ids, OpenRow(id) PROVE ManInv'
      <3>1. raw' = raw /\ rows' = rows /\ loads' = Opened(id)
        BY <2>2 DEF OpenRow
      <3>2. ManTypeOK'
        BY <2>2, <2>t DEF OpenRow, ManTypeOK
      <3>3. \A r \in rows' : Showable(r)'
        BY <3>1, SameUrl DEF ManInv
      <3>4. \A l \in loads' \cap Bases(Mains \cup Studios) : BaseEnabled(l)
        BY <3>1, OpenedEnabled
      <3>5. OnlyEnabled'
        BY <3>1, <3>4, SameUrl DEF OnlyEnabled
      <3> QED BY <3>2, <3>3, <3>5 DEF ManInv
    <2>3. ASSUME NEW r \in Raws, Reconfigure(r) PROVE ManInv'
      BY <2>3, <2>t DEF Reconfigure, ManInv, ManTypeOK, OnlyEnabled
    <2>4. CASE Redeploy
      <3>1. raw' = raw /\ rows' = rows /\ loads' = {}
        BY <2>4 DEF Redeploy
      <3>2. ManTypeOK'
        BY <2>4, <2>t DEF Redeploy, ManTypeOK
      <3>3. \A id \in rows' : Showable(id)'
        BY <3>1, SameUrl DEF ManInv
      <3> QED BY <3>1, <3>2, <3>3 DEF ManInv, OnlyEnabled
    <2>5. CASE raw' = raw /\ rows' = rows /\ loads' = loads /\ ManTypeOK'
      <3>1. \A id \in rows' : Showable(id)'
        BY <2>5, SameUrl DEF ManInv
      <3>2. OnlyEnabled'
        BY <2>5, SameUrl DEF ManInv, OnlyEnabled
      <3> QED BY <2>5, <3>1, <3>2 DEF ManInv
    <2>6. ASSUME NEW s \in Discovered, Discover(s) PROVE ManInv'
      BY <2>6, <2>t, <2>5, ManifestAssumption DEF Discover, ManTypeOK
    <2>7. ASSUME NEW t \in Tubes, CountGenres(t) PROVE ManInv'
      <3>1. PICK some \in {{"studio"}, Pickers} : genres' = [genres EXCEPT ![t] = some]
        BY <2>7 DEF CountGenres
      <3>2. some \in SUBSET Pickers
        BY DEF Pickers
      <3>3. genres' \in [Tubes -> SUBSET Pickers]
        BY <3>1, <3>2, <2>t DEF ManTypeOK
      <3> QED BY <2>7, <2>t, <2>5, <3>3 DEF CountGenres, ManTypeOK
    <2>8. CASE UNCHANGED manVars
      BY <2>8, <2>t, <2>5 DEF manVars, ManTypeOK
    <2> QED BY <2>1, <2>2, <2>3, <2>4, <2>6, <2>7, <2>8 DEF ManNext
  <1> QED BY <1>1, <1>2, PTL DEF ManSpec

(* Every variable of the manifest has its type. *)
THEOREM ManTypeCorrect == ManSpec => []ManTypeOK
  <1>1. ManInv => ManTypeOK
    BY DEF ManInv
  <1> QED BY <1>1, ManInvHolds, PTL

(* For any sources, sorts and tubes, a row that a manifest showed is not refused     *)
(* when it is opened, however the server's keys, studios and genres changed since   *)
(* (stremio/manifest.go against the gates of the catalog handler).                   *)
THEOREM RowsStayOpen == ManSpec => []RowsOpen
  <1>1. ManInv => RowsOpen
    BY ShowableOpens DEF ManInv, ManTypeOK, RowsOpen
  <1> QED BY <1>1, ManInvHolds, PTL

(* Opening a row reads only sources that the install enabled, for every install and *)
(* every row, shown or not (stremio/config.go, the gates of the catalog handler).    *)
THEOREM OnlyEnabledRead == ManSpec => []OnlyEnabled
  <1>1. ManInv => OnlyEnabled
    BY DEF ManInv
  <1> QED BY <1>1, ManInvHolds, PTL

-----------------------------------------------------------------------------
(* CatalogPage: what an item shows, and how it is opened again.                    *)

(* A set of naturals has a least one. *)
LEMMA LeastOfNat ==
  ASSUME NEW S, S \subseteq Nat, S # {}
  PROVE  \E m \in S : \A n \in S : m <= n
<1>1. PICK m \in S : \A n \in S : ~(<<n, m>> \in OpToRel(<, Nat))
  BY WFMin, NatLessThanWellFounded, Zenon
<1>2. \A n \in S : ~(n < m)
  BY <1>1 DEF OpToRel
<1> QED
  BY <1>2

(* What FlattenSeq computes: f[i] is the first i sequences, joined.              *)
Joins(f, seqs, n) == f = [i \in 1..n |-> IF i = 1 THEN seqs[i] ELSE f[i - 1] \o seqs[i]]

(* Such a function exists, whatever the sequences: the least length without one    *)
(* would extend that of the length before.                                        *)
LEMMA JoinsExist ==
  ASSUME NEW seqs, NEW n \in Nat
  PROVE  \E f : Joins(f, seqs, n)
<1> DEFINE Bad == {m \in Nat : ~ \E f : Joins(f, seqs, m)}
<1> SUFFICES ASSUME Bad # {} PROVE FALSE
  OBVIOUS
<1>1. PICK m \in Bad : \A k \in Bad : m <= k
  BY LeastOfNat
<1>2. m # 0
  <2>1. Joins(<<>>, seqs, 0)
    BY DEF Joins
  <2> QED
    BY <2>1
<1>3. PICK f : Joins(f, seqs, m - 1)
  <2>1. m - 1 \in Nat /\ ~(m <= m - 1)
    BY <1>2
  <2> QED
    BY <2>1, <1>1
<1> DEFINE g == [i \in 1..m |-> IF i = m THEN (IF m = 1 THEN seqs[1] ELSE f[m - 1] \o seqs[m]) ELSE f[i]]
<1>4. \A i \in 1..m : g[i] = IF i = 1 THEN seqs[i] ELSE g[i - 1] \o seqs[i]
  <2> SUFFICES ASSUME NEW i \in 1..m
               PROVE  g[i] = IF i = 1 THEN seqs[i] ELSE g[i - 1] \o seqs[i]
    OBVIOUS
  <2>1. m \in Nat
    OBVIOUS
  <2>2. CASE i = m
    <3>1. i # 1 => g[i - 1] = f[i - 1]
      BY <2>1, <2>2
    <3> QED
      BY <2>1, <2>2, <3>1
  <2>3. CASE i # m
    <3>1. i \in 1..(m - 1) /\ g[i] = f[i]
      BY <2>1, <2>3
    <3>2. i # 1 => i - 1 \in 1..(m - 1) /\ g[i - 1] = f[i - 1]
      BY <2>1, <2>3
    <3>3. f[i] = IF i = 1 THEN seqs[i] ELSE f[i - 1] \o seqs[i]
      BY <3>1, <1>3 DEF Joins
    <3> QED
      BY <3>1, <3>2, <3>3
  <2> QED
    BY <2>2, <2>3
<1>5. Joins(g, seqs, m)
  <2>1. g = [i \in 1..m |-> IF i = 1 THEN seqs[i] ELSE g[i - 1] \o seqs[i]]
    BY <1>4, Zenon
  <2> QED
    BY <2>1, Zenon DEF Joins
<1> QED
  BY <1>5

LEMMA FlattenIs ==
  ASSUME NEW seqs, Len(seqs) \in Nat
  PROVE  \E f : /\ Joins(f, seqs, Len(seqs))
                /\ FlattenSeq(seqs) = IF Len(seqs) = 0 THEN seqs ELSE f[Len(seqs)]
<1> DEFINE f == CHOOSE h : h = [i \in 1..Len(seqs) |-> IF i = 1 THEN seqs[i] ELSE h[i - 1] \o seqs[i]]
<1>1. \E h : h = [i \in 1..Len(seqs) |-> IF i = 1 THEN seqs[i] ELSE h[i - 1] \o seqs[i]]
  BY JoinsExist, Zenon DEF Joins
<1>2. f = [i \in 1..Len(seqs) |-> IF i = 1 THEN seqs[i] ELSE f[i - 1] \o seqs[i]]
  BY <1>1, Zenon
<1>3. FlattenSeq(seqs) = IF Len(seqs) = 0 THEN seqs ELSE f[Len(seqs)]
  BY Zenon DEF FlattenSeq
<1> HIDE DEF f
<1> QED
  BY <1>2, <1>3, Zenon DEF Joins

(* The join of a prefix is the prefix of the join.                               *)
LEMMA JoinsAgree ==
  ASSUME NEW S, NEW seqs \in Seq(Seq(S)), NEW m \in Nat, m <= Len(seqs),
         NEW f, Joins(f, seqs, Len(seqs)),
         NEW g, Joins(g, SubSeq(seqs, 1, m), m)
  PROVE  \A i \in 1..m : g[i] = f[i]
<1> DEFINE Bad == {i \in 1..m : g[i] # f[i]}
<1> SUFFICES ASSUME Bad # {} PROVE FALSE
  OBVIOUS
<1>1. PICK i \in Bad : \A k \in Bad : i <= k
  <2>1. Bad \subseteq Nat
    OBVIOUS
  <2> QED
    BY <2>1, LeastOfNat
<1>2. /\ SubSeq(seqs, 1, m)[i] = seqs[i]
      /\ i \in 1..m /\ i \in 1..Len(seqs)
  OBVIOUS
<1>3. f[i] = IF i = 1 THEN seqs[i] ELSE f[i - 1] \o seqs[i]
  BY <1>2 DEF Joins
<1>4. g[i] = IF i = 1 THEN seqs[i] ELSE g[i - 1] \o seqs[i]
  BY <1>2 DEF Joins
<1>5. i # 1 => g[i - 1] = f[i - 1]
  <2> SUFFICES ASSUME i # 1 PROVE g[i - 1] = f[i - 1]
    OBVIOUS
  <2>1. i - 1 \in 1..m /\ ~(i <= i - 1)
    BY <1>2
  <2> QED
    BY <2>1, <1>1
<1> QED
  BY <1>1, <1>3, <1>4, <1>5

(* What is joined is made of the members of the sequences. *)
LEMMA JoinsTyped ==
  ASSUME NEW S, NEW seqs \in Seq(Seq(S)), NEW f, Joins(f, seqs, Len(seqs))
  PROVE  \A i \in 1..Len(seqs) : f[i] \in Seq(S)
<1> DEFINE Bad == {i \in 1..Len(seqs) : f[i] \notin Seq(S)}
<1> SUFFICES ASSUME Bad # {} PROVE FALSE
  OBVIOUS
<1>1. PICK i \in Bad : \A k \in Bad : i <= k
  <2>1. Bad \subseteq Nat
    OBVIOUS
  <2> QED
    BY <2>1, LeastOfNat
<1>2. f[i] = IF i = 1 THEN seqs[i] ELSE f[i - 1] \o seqs[i]
  BY <1>1 DEF Joins
<1>3. seqs[i] \in Seq(S) /\ i \in 1..Len(seqs)
  OBVIOUS
<1>4. i # 1 => f[i - 1] \in Seq(S)
  <2> SUFFICES ASSUME i # 1 PROVE f[i - 1] \in Seq(S)
    OBVIOUS
  <2>1. i - 1 \in 1..Len(seqs) /\ ~(i <= i - 1)
    BY <1>3
  <2> QED
    BY <2>1, <1>1
<1>5. f[i] \in Seq(S)
  <2>1. CASE i = 1
    BY <2>1, <1>2, <1>3
  <2>2. CASE i # 1
    <3>1. f[i - 1] \o seqs[i] \in Seq(S)
      BY <2>2, <1>3, <1>4
    <3> QED
      BY <2>2, <3>1, <1>2
  <2> QED
    BY <2>1, <2>2
<1> QED
  BY <1>1, <1>5

(* Appending moves nothing. *)
LEMMA ConcatKeeps ==
  ASSUME NEW S, NEW a \in Seq(S), NEW b \in Seq(S), NEW i \in 1..Len(a)
  PROVE  i \in DOMAIN (a \o b) /\ (a \o b)[i] = a[i]
<1>1. Len(a \o b) = Len(a) + Len(b) /\ a \o b \in Seq(S) /\ Len(a) \in Nat /\ Len(b) \in Nat
  OBVIOUS
<1>2. i \in 1..Len(a \o b)
  BY <1>1
<1> QED
  BY <1>1, <1>2

(* The members of the n-th sequence come after those of the sequences before.  *)
LEMMA FlattenAt ==
  ASSUME NEW S, NEW seqs \in Seq(Seq(S)), NEW n \in DOMAIN seqs, NEW i \in DOMAIN seqs[n]
  PROVE  LET before == Len(FlattenSeq(SubSeq(seqs, 1, n - 1))) IN
         /\ FlattenSeq(seqs) \in Seq(S) /\ before \in Nat
         /\ before + i \in DOMAIN FlattenSeq(seqs)
         /\ FlattenSeq(seqs)[before + i] = seqs[n][i]
<1> DEFINE N == Len(seqs)
           front == SubSeq(seqs, 1, n - 1)
           before == Len(FlattenSeq(front))
<1>1. N \in Nat /\ n \in 1..N /\ n - 1 \in Nat /\ n - 1 <= N
  OBVIOUS
<1>2. front \in Seq(Seq(S)) /\ Len(front) = n - 1
  BY <1>1
<1>3. PICK f : Joins(f, seqs, N) /\ FlattenSeq(seqs) = IF N = 0 THEN seqs ELSE f[N]
  BY <1>1, FlattenIs, Zenon
<1>4. FlattenSeq(seqs) = f[N]
  BY <1>1, <1>3
<1>5. PICK g : Joins(g, front, n - 1) /\ FlattenSeq(front) = IF n - 1 = 0 THEN front ELSE g[n - 1]
  BY <1>1, <1>2, FlattenIs
<1>6. \A k \in 1..(n - 1) : g[k] = f[k]
  BY <1>1, <1>3, <1>5, JoinsAgree
<1>7. \A k \in 1..N : f[k] \in Seq(S)
  BY <1>3, JoinsTyped
<1>8. before \in Nat /\ n = 1 => before = 0 
  BY <1>2, <1>5
<1>9. n # 1 => before = Len(f[n - 1]) /\ f[n - 1] \in Seq(S)
  BY <1>1, <1>5, <1>6, <1>7
<1>10. before \in Nat
  BY <1>2, <1>5, <1>8, <1>9
<1> HIDE DEF before
<1>11. seqs[n] \in Seq(S) /\ i \in 1..Len(seqs[n]) /\ Len(seqs[n]) \in Nat
  BY <1>1
<1>12. f[n] = IF n = 1 THEN seqs[n] ELSE f[n - 1] \o seqs[n]
  BY <1>1, <1>3 DEF Joins
<1>13. before + i \in DOMAIN f[n] /\ f[n][before + i] = seqs[n][i]
  <2>1. CASE n = 1
    BY <2>1, <1>8, <1>10, <1>11, <1>12
  <2>2. CASE n # 1
    BY <2>2, <1>9, <1>11, <1>12
  <2> QED
    BY <2>1, <2>2
<1> DEFINE At(k) == before + i \in DOMAIN f[k] /\ f[k][before + i] = seqs[n][i]
           Bad == {k \in n..N : ~At(k)}
<1>14. Bad = {}
  <2> SUFFICES ASSUME Bad # {} PROVE FALSE
    OBVIOUS
  <2>1. PICK k \in Bad : \A l \in Bad : k <= l
    <3>1. Bad \subseteq Nat
      BY <1>1
    <3> QED
      BY <3>1, LeastOfNat
  <2>2. k # n
    BY <1>13, <2>1
  <2>3. k \in 1..N /\ k - 1 \in n..N /\ k - 1 \in 1..N /\ ~(k <= k - 1) /\ k # 1
    BY <2>1, <2>2, <1>1
  <2>4. At(k - 1)
    BY <2>1, <2>3
  <2>5. f[k] = f[k - 1] \o seqs[k]
    BY <1>3, <2>3 DEF Joins
  <2>6. f[k - 1] \in Seq(S) /\ seqs[k] \in Seq(S)
    BY <1>7, <2>3
  <2>7. At(k)
    <3>1. before + i \in 1..Len(f[k - 1]) /\ f[k - 1][before + i] = seqs[n][i]
      BY <2>4, <2>6
    <3>2. /\ before + i \in DOMAIN (f[k - 1] \o seqs[k])
          /\ (f[k - 1] \o seqs[k])[before + i] = f[k - 1][before + i]
      BY <3>1, <2>6, ConcatKeeps
    <3> QED
      BY <3>1, <3>2, <2>5
  <2> QED
    BY <2>1, <2>7
<1>15. At(N)
  BY <1>14, <1>1
<1> QED
  BY <1>4, <1>7, <1>10, <1>15, <1>1 DEF before

(* Flattening sequences over a set gives one over it. *)
LEMMA FlattenTyped ==
  ASSUME NEW S, NEW seqs \in Seq(Seq(S))
  PROVE  FlattenSeq(seqs) \in Seq(S)
<1>1. Len(seqs) \in Nat
  OBVIOUS
<1>2. PICK f : Joins(f, seqs, Len(seqs)) /\ FlattenSeq(seqs) = IF Len(seqs) = 0 THEN seqs ELSE f[Len(seqs)]
  BY <1>1, FlattenIs, Zenon
<1>3. CASE Len(seqs) = 0
  <2>1. seqs = <<>> /\ <<>> \in Seq(S)
    BY <1>3
  <2> QED
    BY <2>1, <1>2, <1>3
<1>4. CASE Len(seqs) # 0
  <2>1. Len(seqs) \in 1..Len(seqs) /\ FlattenSeq(seqs) = f[Len(seqs)]
    BY <1>1, <1>2, <1>4
  <2>2. \A i \in 1..Len(seqs) : f[i] \in Seq(S)
    BY <1>2, JoinsTyped
  <2> QED
    BY <2>1, <2>2
<1> QED
  BY <1>3, <1>4

(* The inductive invariant: a row of the page has a preview in its place, whose   *)
(* name and poster are its own or were handed on, and a record under its id; the  *)
(* ids of the items lead to these records; every group has a first member.        *)
PageRow == [hash : Hashes, seeds : Nat, stamp : {"4k", "fhd", ""}]
Fetched == [hash : Hashes, seeds : Seeds, stamp : {"4k", "fhd"}]
Preview == [row : Hashes, name : Hashes, poster : Posters]
NameOK(m) == Shows(m.row, m.name)
PosterOK(m) == m.poster = NoPoster \/ Shows(m.row, m.poster)
StarOK(m) == PosterOK(m) \/ \E g \in Hashes : Star[m.row] \in Mentions[g] /\ Shows(g, m.poster)
Previewed == phase \in {"live", "code", "star", "emit", "done"}

PageTyped ==
  /\ kind \in Kinds /\ skip \in Skips /\ round \in 0..Rounds /\ next \in 1..3
  /\ phase \in {"load", "group", "render", "live", "code", "star", "emit", "done"}
  /\ phase = "load" => round < Rounds
  /\ batch \subseteq Fetched /\ merged \subseteq Fetched
  /\ IsFiniteSet(batch) /\ IsFiniteSet(merged)
GroupsTyped ==
  /\ groups \in Seq(Seq(PageRow)) /\ \A n \in DOMAIN groups : 1 \in DOMAIN groups[n]
  /\ kind = "compact" => Len(groups) <= MaxResults
PreviewsOK ==
  /\ ~Previewed => metas = <<>>
  /\ Previewed =>
       /\ DOMAIN metas = DOMAIN Rendered
       /\ \A i \in DOMAIN metas :
            /\ metas[i] \in Preview /\ metas[i].row = Rendered[i].hash /\ NameOK(metas[i])
            /\ IF phase \in {"emit", "done"} THEN StarOK(metas[i]) ELSE PosterOK(metas[i])
RecordsKept == Previewed => \A i \in DOMAIN Rendered : RowId(i) \in recs \cup lost
Opens(id) == LookupId(id) \in recs \cup lost /\ (id[1] = "group" \/ id = LookupId(id))
ItemsOpen ==
  /\ phase = "done" => DOMAIN out = DOMAIN groups /\ Len(out) = Len(groups)
  /\ phase = "done" /\ kind # "pornrips" => \A n \in DOMAIN out : Opens(out[n].id)
PageInv == PageTyped /\ GroupsTyped /\ PreviewsOK /\ RecordsKept /\ ItemsOpen /\ Aligned /\ OpenFinds

(* A finite set has a finite image. *)
LEMMA ImageFinite ==
  ASSUME NEW S, IsFiniteSet(S), NEW f
  PROVE  IsFiniteSet({f[x] : x \in S})
<1> DEFINE Img == {f[x] : x \in S}
           g == [x \in S |-> f[x]]
<1>1. g \in Surjection(S, Img)
  BY DEF Surjection
<1> QED
  BY <1>1, FS_Surjection

(* An order of a set is a sequence of its members, of all if it has any.          *)
LEMMA SeqsOf ==
  ASSUME NEW S, IsFiniteSet(S), NEW s \in SetToSeqs(S)
  PROVE  /\ s \in Seq(S) /\ DOMAIN s = 1..Cardinality(S) /\ Cardinality(S) \in Nat
         /\ S # {} => 1 \in DOMAIN s
<1>1. Cardinality(S) \in Nat
  BY FS_CardinalityType
<1>2. s \in [1..Cardinality(S) -> S]
  BY DEF SetToSeqs
<1>3. S # {} => Cardinality(S) # 0
  BY FS_EmptySet
<1>4. s \in Seq(S) /\ DOMAIN s = 1..Cardinality(S)
  BY <1>1, <1>2
<1> QED
  BY <1>1, <1>3, <1>4

LEMMA SeqWidens ==
  ASSUME NEW S, NEW Img, S \subseteq Img, NEW s \in Seq(S)
  PROVE  s \in Seq(Img)
<1> QED
  OBVIOUS

(* Every grouping of rows consists of groups that have a first member. *)
LEMMA GroupingTyped ==
  ASSUME NEW R, R \subseteq PageRow, IsFiniteSet(R), NEW gs \in Groupings(R)
  PROVE  gs \in Seq(Seq(PageRow)) /\ \A n \in DOMAIN gs : 1 \in DOMAIN gs[n]
<1> DEFINE C == ScenesOf(R)
           M == {m \in [C -> UNION {BySeeds(OfScene(R, c)) : c \in C}] :
                   \A c \in C : m[c] \in BySeeds(OfScene(R, c))}
<1>1. PICK ranking \in SetToSeqs(C), members \in M : gs = [n \in DOMAIN ranking |-> members[ranking[n]]]
  BY DEF Groupings
<1>2. IsFiniteSet(C)
  <2> DEFINE f == [r \in R |-> Scene[r.hash]]
  <2>1. C = {f[r] : r \in R}
    BY DEF ScenesOf
  <2> HIDE DEF f
  <2>2. IsFiniteSet({f[r] : r \in R})
    BY ImageFinite, Zenon
  <2> QED
    BY <2>1, <2>2, Zenon
<1>3. ranking \in Seq(C) /\ DOMAIN ranking = 1..Cardinality(C) /\ Cardinality(C) \in Nat
  BY <1>1, <1>2, SeqsOf, Zenon
<1>4. ASSUME NEW c \in C
      PROVE  members[c] \in Seq(PageRow) /\ 1 \in DOMAIN members[c]
  <2>1. members[c] \in BySeeds(OfScene(R, c))
    BY <1>1
  <2>2. members[c] \in SetToSeqs(OfScene(R, c))
    BY <2>1, Zenon DEF BySeeds
  <2>3. OfScene(R, c) \subseteq R /\ OfScene(R, c) # {}
    BY DEF OfScene, ScenesOf
  <2>4. IsFiniteSet(OfScene(R, c))
    BY <2>3, FS_Subset, Zenon
  <2>5. members[c] \in Seq(OfScene(R, c)) /\ 1 \in DOMAIN members[c]
    BY <2>2, <2>3, <2>4, SeqsOf, Zenon
  <2>6. OfScene(R, c) \subseteq PageRow
    BY <2>3
  <2> QED
    BY <2>5, <2>6, SeqWidens
<1> HIDE DEF M, C
<1>5. \A n \in 1..Cardinality(C) : ranking[n] \in C
  BY <1>3
<1>6. \A n \in 1..Cardinality(C) : members[ranking[n]] \in Seq(PageRow) /\ 1 \in DOMAIN members[ranking[n]]
  BY <1>4, <1>5
<1>7. gs = [n \in 1..Cardinality(C) |-> members[ranking[n]]]
  BY <1>1, <1>3
<1> QED
  BY <1>3, <1>6, <1>7

(* The preview of a group is that of its first member. *)
LEMMA RenderedIs ==
  ASSUME GroupsTyped
  PROVE  /\ Rendered \in Seq(PageRow)
         /\ \A n \in DOMAIN groups :
              /\ groups[n] \in Seq(PageRow) /\ groups[n][1] \in PageRow
              /\ RowsBefore(n) + 1 \in DOMAIN Rendered
              /\ Rendered[RowsBefore(n) + 1] = groups[n][1]
<1>1. /\ groups \in Seq(Seq(PageRow)) /\ \A n \in DOMAIN groups : 1 \in DOMAIN groups[n]
  BY DEF GroupsTyped
<1>2. \A n \in DOMAIN groups : groups[n] \in Seq(PageRow) /\ groups[n][1] \in PageRow
  BY <1>1
<1>3. CASE kind = "compact"
  <2>1. Rendered = FlattenSeq(groups)
    BY <1>3 DEF Rendered
  <2>2. Rendered \in Seq(PageRow)
    BY <1>1, <2>1, FlattenTyped
  <2>3. ASSUME NEW n \in DOMAIN groups
        PROVE  /\ RowsBefore(n) + 1 \in DOMAIN Rendered
               /\ Rendered[RowsBefore(n) + 1] = groups[n][1]
    <3>1. RowsBefore(n) = Len(FlattenSeq(SubSeq(groups, 1, n - 1)))
      BY <1>3 DEF RowsBefore
    <3> QED
      BY <1>1, <2>1, <3>1, FlattenAt
  <2> QED
    BY <1>2, <2>2, <2>3
<1>4. CASE kind # "compact"
  <2>1. Rendered = [n \in DOMAIN groups |-> groups[n][1]]
    BY <1>4 DEF Rendered
  <2>2. DOMAIN groups = 1..Len(groups) /\ Len(groups) \in Nat
    BY <1>1
  <2>3. Rendered \in Seq(PageRow)
    BY <1>2, <2>1, <2>2
  <2>4. \A n \in DOMAIN groups : RowsBefore(n) = n - 1 /\ RowsBefore(n) + 1 = n
    BY <1>4, <2>2 DEF RowsBefore
  <2> QED
    BY <1>2, <2>1, <2>3, <2>4
<1> QED
  BY <1>3, <1>4

-----------------------------------------------------------------------------
(* The steps of a page. *)

LEMMA PageInitInv == PageInit => PageInv
<1> SUFFICES ASSUME PageInit PROVE PageInv
  OBVIOUS
<1>1. PageTyped
  <2>1. kind \in Kinds /\ skip \in Skips /\ 0 \in 0..Rounds /\ 0 < Rounds
    BY PageAssumption DEF PageInit
  <2>2. IsFiniteSet({})
    BY FS_EmptySet
  <2> QED
    BY <2>1, <2>2 DEF PageInit, PageTyped
<1>2. GroupsTyped
  <2>1. groups = <<>> /\ <<>> \in Seq(Seq(PageRow)) /\ Len(groups) = 0 /\ DOMAIN groups = {}
    BY DEF PageInit
  <2> QED
    BY <2>1, PageAssumption DEF GroupsTyped
<1>3. ~Previewed /\ phase # "done"
  BY DEF PageInit, Previewed
<1> QED
  BY <1>1, <1>2, <1>3 DEF PageInit, PageInv, PreviewsOK, RecordsKept, ItemsOpen, Aligned, OpenFinds, Found

(* What a step leaves alone that moves neither the groups nor what was opened.   *)
LEMMA SameRows ==
  ASSUME UNCHANGED <<page, groups>>
  PROVE  Rendered' = Rendered /\ kind' = kind /\ \A i : RowId(i)' = RowId(i)
<1>1. kind' = kind /\ groups' = groups
  BY DEF page
<1>2. Rendered' = Rendered
  BY <1>1 DEF Rendered
<1> QED
  BY <1>1, <1>2 DEF RowId

(* Before anything is shown only the types count. *)
LEMMA UnshownInv ==
  ASSUME PageInv, PageTyped', GroupsTyped', ~Previewed', metas' = <<>>,
         kind' = kind, lost' = lost, opened' = opened
  PROVE  PageInv'
<1>1. phase' # "done"
  BY DEF Previewed
<1> QED
  BY <1>1 DEF PageInv, PreviewsOK, RecordsKept, ItemsOpen, Aligned, OpenFinds, Found

LEMMA LoadInv ==
  ASSUME PageInv, Load
  PROVE  PageInv'
<1>0. PICK some \in {{}, {h \in Listing[round + 1] : Fits(h, Stamps[next])}} :
        \E seeds \in [some -> Seeds] :
          batch' = batch \cup {[hash |-> h, seeds |-> seeds[h], stamp |-> Stamps[next]] : h \in some}
  BY DEF Load
<1>1. PICK seeds \in [some -> Seeds] :
        batch' = batch \cup {[hash |-> h, seeds |-> seeds[h], stamp |-> Stamps[next]] : h \in some}
  BY <1>0
<1>2. phase = "load" /\ phase' = "load" /\ next \in 1..2 /\ next' = next + 1
  BY DEF Load, PageInv, PageTyped, Stamps
<1>3. some \subseteq Hashes
  <2>1. round + 1 \in 1..Rounds
    BY <1>2, PageAssumption DEF PageInv, PageTyped
  <2> QED
    BY <2>1, PageAssumption
<1>4. Stamps[next] \in {"4k", "fhd"}
  BY <1>2 DEF Stamps
<1> DEFINE f == [h \in some |-> [hash |-> h, seeds |-> seeds[h], stamp |-> Stamps[next]]]
           new == {f[h] : h \in some}
<1>5. batch' = batch \cup new
  BY <1>1
<1>6. \A h \in some : f[h] \in Fetched
  BY <1>3, <1>4 DEF Fetched
<1> HIDE DEF f
<1>7. IsFiniteSet(new)
  <2>1. IsFiniteSet(some)
    BY <1>3, PageAssumption, FS_Subset, Zenon
  <2> QED
    BY <2>1, ImageFinite, Zenon
<1>8. batch' \subseteq Fetched
  BY <1>5, <1>6 DEF PageInv, PageTyped
<1> HIDE DEF new
<1>9. IsFiniteSet(batch')
  BY <1>5, <1>7, FS_Union, Zenon DEF PageInv, PageTyped
<1>10. PageTyped'
  BY <1>2, <1>8, <1>9 DEF PageInv, PageTyped, Load, page
<1>11. GroupsTyped' /\ ~Previewed' /\ metas' = <<>> /\ kind' = kind /\ lost' = lost /\ opened' = opened
  BY <1>2 DEF PageInv, PreviewsOK, GroupsTyped, Load, page, Previewed
<1> QED
  BY <1>10, <1>11, UnshownInv

LEMMA EndRoundInv ==
  ASSUME PageInv, EndRound
  PROVE  PageInv'
<1> DEFINE R == {r \in Dedupe(merged \cup batch) : Fits(r.hash, r.stamp)}
<1>1. phase = "load" /\ phase' \in {"load", "group"} /\ batch' = {} /\ next' = 1
  BY DEF EndRound
<1>2. R \subseteq merged \cup batch
  BY DEF Dedupe
<1>3. IsFiniteSet(R) /\ IsFiniteSet({})
  <2>1. IsFiniteSet(merged \cup batch)
    BY FS_Union, Zenon DEF PageInv, PageTyped
  <2> QED
    BY <1>2, <2>1, FS_Subset, FS_EmptySet, Zenon
<1>4. IF batch = {} THEN merged' = merged /\ round' = round ELSE merged' = R /\ round' = round + 1
  BY DEF EndRound
<1>5. phase' = IF batch = {} \/ round + 1 = Rounds \/ Cardinality(ScenesOf(R)) >= Need
               THEN "group" ELSE "load"
  BY DEF EndRound
<1> HIDE DEF R
<1>6. merged' \subseteq Fetched /\ IsFiniteSet(merged')
  BY <1>2, <1>3, <1>4 DEF PageInv, PageTyped
<1>7. round' \in 0..Rounds /\ (phase' = "load" => round' < Rounds)
  BY <1>1, <1>4, <1>5, PageAssumption DEF PageInv, PageTyped
<1>8. PageTyped'
  BY <1>1, <1>3, <1>6, <1>7 DEF PageInv, PageTyped, EndRound, page
<1>9. GroupsTyped' /\ ~Previewed' /\ metas' = <<>> /\ kind' = kind /\ lost' = lost /\ opened' = opened
  BY <1>1 DEF PageInv, PreviewsOK, GroupsTyped, EndRound, page, Previewed
<1> QED
  BY <1>8, <1>9, UnshownInv

(* A page of groups is cut out of their ranking. *)
LEMMA CutTyped ==
  ASSUME NEW S, NEW gs \in Seq(S), skip \in Nat, skip <= Len(gs)
  PROVE  /\ Cut(gs) \in Seq(S) /\ Len(Cut(gs)) <= MaxResults
         /\ \A n \in DOMAIN Cut(gs) : \E k \in DOMAIN gs : Cut(gs)[n] = gs[k]
<1> DEFINE last == IF skip + MaxResults < Len(gs) THEN skip + MaxResults ELSE Len(gs)
<1>1. Len(gs) \in Nat /\ MaxResults \in Nat
  BY PageAssumption
<1>2. last \in Nat /\ last <= Len(gs) /\ last - skip <= MaxResults /\ last >= skip
  BY <1>1
<1>3. Cut(gs) = SubSeq(gs, skip + 1, last)
  BY DEF Cut
<1> HIDE DEF last
<1>4. Cut(gs) \in Seq(S) /\ Len(Cut(gs)) = last - skip
  BY <1>1, <1>2, <1>3
<1>5. \A n \in 1..(last - skip) : Cut(gs)[n] = gs[skip + n] /\ skip + n \in DOMAIN gs
  BY <1>1, <1>2, <1>3
<1>6. DOMAIN Cut(gs) = 1..(last - skip)
  BY <1>4
<1> QED
  BY <1>1, <1>2, <1>4, <1>5, <1>6

LEMMA GroupCompactInv ==
  ASSUME PageInv, GroupCompact
  PROVE  PageInv'
<1>1. PICK gs \in Groupings(merged) : groups' = IF skip > Len(gs) THEN <<>> ELSE Cut(gs)
  BY DEF GroupCompact
<1>2. merged \subseteq PageRow /\ IsFiniteSet(merged)
  <2>1. Fetched \subseteq PageRow
    BY PageAssumption DEF Fetched, PageRow
  <2> QED
    BY <2>1 DEF PageInv, PageTyped
<1>3. gs \in Seq(Seq(PageRow)) /\ \A n \in DOMAIN gs : 1 \in DOMAIN gs[n]
  BY <1>1, <1>2, GroupingTyped, Zenon
<1>4. GroupsTyped'
  <2>1. CASE skip > Len(gs)
    <3>1. groups' = <<>> /\ <<>> \in Seq(Seq(PageRow)) /\ Len(<<>>) = 0 /\ DOMAIN <<>> = {}
      BY <1>1, <2>1
    <3> QED
      BY <3>1, PageAssumption DEF GroupsTyped
  <2>2. CASE ~(skip > Len(gs))
    <3>1. skip \in Nat /\ Len(gs) \in Nat /\ skip <= Len(gs)
      BY <1>3, <2>2, PageAssumption DEF PageInv, PageTyped
    <3>2. /\ Cut(gs) \in Seq(Seq(PageRow)) /\ Len(Cut(gs)) <= MaxResults
          /\ \A n \in DOMAIN Cut(gs) : \E k \in DOMAIN gs : Cut(gs)[n] = gs[k]
      BY <1>3, <3>1, CutTyped
    <3>3. groups' = Cut(gs)
      BY <1>1, <2>2
    <3> QED
      BY <1>3, <3>2, <3>3 DEF GroupsTyped
  <2> QED
    BY <2>1, <2>2
<1>5. phase = "group" /\ phase' = "render"
  BY DEF GroupCompact
<1>6. PageTyped' /\ ~Previewed' /\ metas' = <<>> /\ kind' = kind /\ lost' = lost /\ opened' = opened
  BY <1>5 DEF PageInv, PageTyped, PreviewsOK, GroupCompact, page, Previewed
<1> QED
  BY <1>4, <1>6, UnshownInv

LEMMA RowsTyped ==
  ASSUME NEW H \in SUBSET Hashes, NEW stamp \in {"4k", "fhd", ""}
  PROVE  {Row(h, stamp) : h \in H} \subseteq PageRow /\ IsFiniteSet({Row(h, stamp) : h \in H})
<1> DEFINE f == [h \in H |-> Row(h, stamp)]
<1>1. {Row(h, stamp) : h \in H} = {f[h] : h \in H}
  OBVIOUS
<1>2. \A h \in H : f[h] \in PageRow
  BY DEF Row, PageRow
<1> HIDE DEF f
<1>3. IsFiniteSet({f[h] : h \in H})
  <2>1. IsFiniteSet(H)
    BY PageAssumption, FS_Subset, Zenon
  <2> QED
    BY <2>1, ImageFinite, Zenon
<1> QED
  BY <1>1, <1>2, <1>3

LEMMA GroupOthersInv ==
  ASSUME PageInv, GroupOthers
  PROVE  PageInv'
<1>1. PICK n \in 1..Rounds :
        IF kind = "plain"
        THEN \E R \in SetToSeqs({Row(h, "4k") : h \in {g \in Listing[n] : Fits(g, "4k")}}) :
               groups' = [i \in DOMAIN R |-> <<R[i]>>]
        ELSE groups' \in Groupings({Row(h, "") : h \in Listing[n]})
  BY DEF GroupOthers
<1>2. Listing[n] \in SUBSET Hashes
  BY PageAssumption
<1>3. kind # "compact" /\ kind' = kind /\ phase = "group" /\ phase' = "render"
  BY DEF GroupOthers, page
<1>4. groups' \in Seq(Seq(PageRow)) /\ \A k \in DOMAIN groups' : 1 \in DOMAIN groups'[k]
  <2>1. CASE kind = "plain"
    <3> DEFINE H == {g \in Listing[n] : Fits(g, "4k")}
               R == {Row(h, "4k") : h \in H}
    <3>1. PICK order \in SetToSeqs(R) : groups' = [i \in DOMAIN order |-> <<order[i]>>]
      BY <1>1, <2>1
    <3>2. R \subseteq PageRow /\ IsFiniteSet(R)
      <4>1. H \in SUBSET Hashes
        BY <1>2
      <4> HIDE DEF H
      <4> QED
        BY <4>1, RowsTyped
    <3> HIDE DEF R
    <3>3. order \in Seq(R) /\ DOMAIN order = 1..Cardinality(R) /\ Cardinality(R) \in Nat
      BY <3>1, <3>2, SeqsOf
    <3>4. \A i \in 1..Cardinality(R) : order[i] \in PageRow
      BY <3>2, <3>3
    <3>5. groups' = [i \in 1..Cardinality(R) |-> <<order[i]>>]
      BY <3>1, <3>3
    <3>6. \A i \in 1..Cardinality(R) : <<order[i]>> \in Seq(PageRow) /\ 1 \in DOMAIN <<order[i]>>
      BY <3>4
    <3>7. groups' \in [1..Cardinality(R) -> Seq(PageRow)]
      BY <3>5, <3>6
    <3>8. groups' \in Seq(Seq(PageRow)) /\ DOMAIN groups' = 1..Cardinality(R)
      BY <3>3, <3>7
    <3> QED
      BY <3>5, <3>6, <3>8
  <2>2. CASE kind # "plain"
    <3>1. groups' \in Groupings({Row(h, "") : h \in Listing[n]})
      BY <1>1, <2>2
    <3>2. {Row(h, "") : h \in Listing[n]} \subseteq PageRow /\ IsFiniteSet({Row(h, "") : h \in Listing[n]})
      BY <1>2, RowsTyped
    <3> QED
      BY <3>1, <3>2, GroupingTyped, Zenon
  <2> QED
    BY <2>1, <2>2
<1>5. GroupsTyped'
  BY <1>3, <1>4 DEF GroupsTyped
<1>6. PageTyped' /\ ~Previewed' /\ metas' = <<>> /\ lost' = lost /\ opened' = opened
  BY <1>3 DEF PageInv, PageTyped, PreviewsOK, GroupOthers, page, Previewed
<1> QED
  BY <1>3, <1>5, <1>6, UnshownInv

LEMMA RenderInv ==
  ASSUME PageInv, Render
  PROVE  PageInv'
<1>1. phase = "render" /\ phase' = "live" /\ Previewed' /\ recs' = {RowId(i) : i \in DOMAIN Rendered}
  BY DEF Render, Previewed
<1>2. PICK covered \in SUBSET DOMAIN Rendered :
        metas' = [i \in DOMAIN Rendered |->
                   LET h == Rendered[i].hash
                   IN  [row |-> h, name |-> h, poster |-> IF i \in covered THEN h ELSE NoPoster]]
  BY DEF Render
<1>3. Rendered' = Rendered /\ kind' = kind /\ \A i : RowId(i)' = RowId(i)
  BY SameRows DEF Render
<1>4. \A i \in DOMAIN Rendered : Rendered[i].hash \in Hashes
  <2>1. Rendered \in Seq(PageRow)
    BY RenderedIs DEF PageInv
  <2>2. \A i \in DOMAIN Rendered : Rendered[i] \in PageRow
    BY <2>1
  <2>3. \A r \in PageRow : r.hash \in Hashes
    BY DEF PageRow
  <2> QED
    BY <2>2, <2>3
<1>5. PreviewsOK'
  <2>1. DOMAIN metas' = DOMAIN Rendered
    BY <1>2
  <2>2. ASSUME NEW i \in DOMAIN Rendered
        PROVE  /\ metas'[i] \in Preview /\ metas'[i].row = Rendered[i].hash
               /\ NameOK(metas'[i]) /\ PosterOK(metas'[i])
    <3>1. metas'[i] = [row |-> Rendered[i].hash, name |-> Rendered[i].hash,
                       poster |-> IF i \in covered THEN Rendered[i].hash ELSE NoPoster]
      BY <1>2
    <3> QED
      BY <3>1, <1>4 DEF Preview, Posters, NameOK, PosterOK, Shows
  <2> QED
    BY <2>1, <2>2, <1>1, <1>3 DEF PreviewsOK, NameOK, PosterOK
<1>6. PageTyped' /\ GroupsTyped'
  BY <1>1, <1>3 DEF PageInv, PageTyped, GroupsTyped, Render, page
<1>7. RecordsKept'
  BY <1>1, <1>3 DEF RecordsKept
<1> QED
  BY <1>1, <1>3, <1>5, <1>6, <1>7 DEF PageInv, ItemsOpen, Aligned, OpenFinds, Found, Render

(* A step that only passes posters on. *)
LEMMA PassedOnInv ==
  ASSUME PageInv, Previewed, Previewed', phase' # "done",
         UNCHANGED <<page, round, batch, next, merged, groups, out, recs, lost, opened>>,
         DOMAIN metas' = DOMAIN metas,
         \A i \in DOMAIN metas :
           /\ metas'[i] \in Preview /\ metas'[i].row = metas[i].row /\ NameOK(metas'[i])
           /\ IF phase' = "emit" THEN StarOK(metas'[i]) ELSE PosterOK(metas'[i])
  PROVE  PageInv'
<1>1. Rendered' = Rendered /\ kind' = kind /\ \A i : RowId(i)' = RowId(i)
  BY SameRows
<1>2. PreviewsOK'
  BY <1>1 DEF PageInv, PreviewsOK, NameOK, PosterOK, StarOK
<1>3. PageTyped' /\ GroupsTyped'
  BY <1>1 DEF PageInv, PageTyped, GroupsTyped, Previewed, page
<1>4. RecordsKept'
  BY <1>1 DEF PageInv, RecordsKept
<1> QED
  BY <1>1, <1>2, <1>3, <1>4 DEF PageInv, ItemsOpen, Aligned, OpenFinds, Found

LEMMA LiveInv ==
  ASSUME PageInv, Live
  PROVE  PageInv'
<1>1. PICK found \in SUBSET {i \in Needy : Cardinality({j \in Needy : j < i}) < LiveMax} :
        metas' = [i \in DOMAIN metas |->
                   IF i \in found THEN [metas[i] EXCEPT !.poster = metas[i].row] ELSE metas[i]]
  BY DEF Live
<1>2. phase = "live" /\ phase' = "code" /\ Previewed /\ Previewed'
  BY DEF Live, Previewed
<1>3. ASSUME NEW i \in DOMAIN metas
      PROVE  /\ metas'[i] \in Preview /\ metas'[i].row = metas[i].row
             /\ NameOK(metas'[i]) /\ PosterOK(metas'[i])
  <2>1. metas[i] \in Preview /\ NameOK(metas[i]) /\ PosterOK(metas[i])
    BY <1>2 DEF PageInv, PreviewsOK
  <2>2. metas'[i] = IF i \in found THEN [metas[i] EXCEPT !.poster = metas[i].row] ELSE metas[i]
    BY <1>1
  <2>3. CASE i \in found
    BY <2>1, <2>2, <2>3 DEF Preview, Posters, NameOK, PosterOK, Shows
  <2>4. CASE i \notin found
    BY <2>1, <2>2, <2>4
  <2> QED
    BY <2>3, <2>4
<1>4. DOMAIN metas' = DOMAIN metas
  BY <1>1
<1> QED
  BY <1>2, <1>3, <1>4, PassedOnInv DEF Live

(* Whoever shares the code of a donor may show what the donor shows.             *)
LEMMA ShareCodeInv ==
  ASSUME PageInv, ShareCode
  PROVE  PageInv'
<1>1. PICK donor \in [DOMAIN metas -> DOMAIN metas] :
        /\ \A i \in DOMAIN metas : IF Donors(i) = {} THEN donor[i] = i ELSE donor[i] \in Donors(i)
        /\ metas' = [i \in DOMAIN metas |->
             IF metas[i].poster = NoPoster /\ Donors(i) # {}
             THEN [metas[i] EXCEPT !.poster = metas[donor[i]].poster, !.name = metas[donor[i]].name]
             ELSE metas[i]]
  BY DEF ShareCode
<1>2. phase = "code" /\ phase' = "star" /\ Previewed /\ Previewed'
  BY DEF ShareCode, Previewed
<1>3. ASSUME NEW i \in DOMAIN metas
      PROVE  /\ metas'[i] \in Preview /\ metas'[i].row = metas[i].row
             /\ NameOK(metas'[i]) /\ PosterOK(metas'[i])
  <2>1. \A j \in DOMAIN metas : metas[j] \in Preview /\ NameOK(metas[j]) /\ PosterOK(metas[j])
    BY <1>2 DEF PageInv, PreviewsOK
  <2>2. metas'[i] = IF metas[i].poster = NoPoster /\ Donors(i) # {}
                    THEN [metas[i] EXCEPT !.poster = metas[donor[i]].poster, !.name = metas[donor[i]].name]
                    ELSE metas[i]
    BY <1>1
  <2>3. CASE metas[i].poster = NoPoster /\ Donors(i) # {}
    <3> DEFINE d == metas[donor[i]]
    <3>1. donor[i] \in Donors(i)
      BY <1>1, <2>3
    <3>2. /\ donor[i] \in DOMAIN metas /\ d.poster # NoPoster
          /\ Code[metas[i].row] # NoCode /\ Code[d.row] = Code[metas[i].row]
      BY <2>3, <3>1 DEF Donors, Postered, Siblings
    <3>3. d \in Preview /\ Shows(d.row, d.name) /\ Shows(d.row, d.poster)
      BY <2>1, <3>2 DEF NameOK, PosterOK
    <3>4. Shows(metas[i].row, d.name) /\ Shows(metas[i].row, d.poster)
      BY <3>2, <3>3 DEF Shows
    <3> HIDE DEF d
    <3>5. metas[i] \in Preview
      BY <2>1
    <3>6. metas'[i] = [metas[i] EXCEPT !.poster = d.poster, !.name = d.name]
      BY <2>2, <2>3 DEF d
    <3> QED
      BY <3>3, <3>4, <3>5, <3>6 DEF Preview, NameOK, PosterOK
  <2>4. CASE ~(metas[i].poster = NoPoster /\ Donors(i) # {})
    BY <2>1, <2>2, <2>4
  <2> QED
    BY <2>3, <2>4
<1>4. DOMAIN metas' = DOMAIN metas
  BY <1>1
<1> QED
  BY <1>2, <1>3, <1>4, PassedOnInv DEF ShareCode

(* The poster of a performer is that of a row that names her.                   *)
LEMMA ShareStarInv ==
  ASSUME PageInv, ShareStar
  PROVE  PageInv'
<1> DEFINE first(i) == CHOOSE j \in StarDonors(i) : \A k \in StarDonors(i) : j <= k
<1>1. metas' = [i \in DOMAIN metas |->
        IF metas[i].poster = NoPoster /\ Star[metas[i].row] # NoCode /\ StarDonors(i) # {}
        THEN [metas[i] EXCEPT !.poster = metas[first(i)].poster]
        ELSE metas[i]]
  BY DEF ShareStar
<1>2. phase = "star" /\ phase' = "emit" /\ Previewed /\ Previewed'
  BY DEF ShareStar, Previewed
<1>3. DOMAIN metas \subseteq Nat
  <2>1. DOMAIN metas = DOMAIN Rendered /\ Rendered \in Seq(PageRow)
    BY <1>2, RenderedIs DEF PageInv, PreviewsOK
  <2>2. DOMAIN Rendered \subseteq Nat
    BY <2>1
  <2> QED
    BY <2>1, <2>2
<1>4. ASSUME NEW i \in DOMAIN metas, StarDonors(i) # {}
      PROVE  first(i) \in StarDonors(i)
  <2>1. StarDonors(i) \subseteq Nat
    BY <1>3 DEF StarDonors, Postered
  <2>2. \E j \in StarDonors(i) : \A k \in StarDonors(i) : j <= k
    BY <1>4, <2>1, LeastOfNat
  <2> QED
    BY <2>2, Zenon
<1> HIDE DEF first
<1>5. ASSUME NEW i \in DOMAIN metas
      PROVE  /\ metas'[i] \in Preview /\ metas'[i].row = metas[i].row
             /\ NameOK(metas'[i]) /\ StarOK(metas'[i])
  <2>1. \A j \in DOMAIN metas : metas[j] \in Preview /\ NameOK(metas[j]) /\ PosterOK(metas[j])
    BY <1>2 DEF PageInv, PreviewsOK
  <2>2. metas'[i] = IF metas[i].poster = NoPoster /\ Star[metas[i].row] # NoCode /\ StarDonors(i) # {}
                    THEN [metas[i] EXCEPT !.poster = metas[first(i)].poster]
                    ELSE metas[i]
    BY <1>1
  <2>3. CASE metas[i].poster = NoPoster /\ Star[metas[i].row] # NoCode /\ StarDonors(i) # {}
    <3> DEFINE d == metas[first(i)]
    <3>1. first(i) \in DOMAIN metas /\ d.poster # NoPoster /\ Star[metas[i].row] \in Mentions[d.row]
      BY <1>4, <2>3 DEF StarDonors, Postered
    <3>2. d \in Preview /\ Shows(d.row, d.poster)
      BY <2>1, <3>1 DEF PosterOK
    <3> HIDE DEF d
    <3>3. metas[i] \in Preview /\ NameOK(metas[i])
      BY <2>1
    <3>4. metas'[i] = [metas[i] EXCEPT !.poster = d.poster]
      BY <2>2, <2>3 DEF d
    <3>5. metas'[i].row = metas[i].row /\ metas'[i].name = metas[i].name /\ metas'[i].poster = d.poster
      BY <3>3, <3>4 DEF Preview
    <3>6. d.row \in Hashes /\ Star[metas'[i].row] \in Mentions[d.row] /\ Shows(d.row, metas'[i].poster)
      BY <3>1, <3>2, <3>5 DEF Preview, d
    <3>7. metas'[i] \in Preview
      BY <3>2, <3>3, <3>4 DEF Preview
    <3> QED
      BY <3>3, <3>5, <3>6, <3>7 DEF NameOK, StarOK
  <2>4. CASE ~(metas[i].poster = NoPoster /\ Star[metas[i].row] # NoCode /\ StarDonors(i) # {})
    BY <2>1, <2>2, <2>4 DEF StarOK
  <2> QED
    BY <2>3, <2>4
<1>6. DOMAIN metas' = DOMAIN metas
  BY <1>1
<1> QED
  BY <1>2, <1>5, <1>6, PassedOnInv DEF ShareStar

(* The ids of a compact and of a plain page lead back to the record of the row   *)
(* that gave the preview.                                                        *)
LEMMA IdsOpen ==
  ASSUME GroupsTyped, RecordsKept, Previewed, kind # "pornrips", NEW n \in DOMAIN groups
  PROVE  Opens(IF kind = "compact" THEN GroupId(groups[n]) ELSE RowId(n))
<1>1. /\ Rendered \in Seq(PageRow) /\ groups[n] \in Seq(PageRow)
      /\ RowsBefore(n) + 1 \in DOMAIN Rendered /\ Rendered[RowsBefore(n) + 1] = groups[n][1]
  BY RenderedIs
<1>2. \A i \in DOMAIN Rendered : RowId(i) = ItemId(Rendered[i]) /\ ItemId(Rendered[i]) \in recs \cup lost
  BY DEF RecordsKept, RowId
<1>3. CASE kind = "compact"
  <2> DEFINE ids == [i \in DOMAIN groups[n] |-> Payload(groups[n][i])]
             id == <<"group">> \o ids
  <2>1. 1 \in DOMAIN groups[n] /\ DOMAIN groups[n] = 1..Len(groups[n]) /\ Len(groups[n]) \in Nat
    BY <1>1 DEF GroupsTyped
  <2>2. ids \in Seq({ids[i] : i \in DOMAIN ids}) /\ 1 \in DOMAIN ids /\ ids[1] = Payload(groups[n][1])
        /\ Len(ids) \in Nat /\ Len(ids) >= 1
    BY <2>1
  <2> HIDE DEF ids
  <2>3. id[1] = "group" /\ id[2] = ids[1]
    BY <2>2
  <2>4. GroupId(groups[n]) = id
    BY DEF GroupId, ids
  <2> HIDE DEF id
  <2>5. LookupId(id) = ItemId(groups[n][1])
    BY <2>2, <2>3 DEF LookupId, ItemId
  <2> QED
    BY <1>1, <1>2, <1>3, <2>3, <2>4, <2>5 DEF Opens
<1>4. CASE kind # "compact"
  <2>1. n \in DOMAIN Rendered
    BY <1>4 DEF Rendered
  <2>2. LookupId(RowId(n)) = RowId(n)
    <3>1. \A r : LookupId(ItemId(r)) = ItemId(r)
      BY DEF LookupId, ItemId
    <3> QED
      BY <1>2, <2>1, <3>1, Zenon
  <2> QED
    BY <1>2, <1>4, <2>1, <2>2 DEF Opens
<1> QED
  BY <1>3, <1>4

LEMMA EmitInv ==
  ASSUME PageInv, Emit
  PROVE  PageInv'
<1>1. phase = "emit" /\ phase' = "done" /\ Previewed /\ Previewed'
  BY DEF Emit, Previewed
<1>2. Rendered' = Rendered /\ kind' = kind /\ \A i : RowId(i)' = RowId(i)
  BY SameRows DEF Emit
<1>3. out' = [n \in DOMAIN groups |->
        [id |-> IF kind = "compact" THEN GroupId(groups[n]) ELSE RowId(n),
         name |-> metas[RowsBefore(n) + 1].name, poster |-> metas[RowsBefore(n) + 1].poster]]
  BY DEF Emit
<1>4. groups' = groups /\ groups \in Seq(Seq(PageRow)) /\ metas' = metas /\ recs' = recs /\ lost' = lost
  BY DEF Emit, PageInv, GroupsTyped
<1>5. DOMAIN out' = DOMAIN groups' /\ Len(out') = Len(groups')
  BY <1>3, <1>4
<1>6. PageTyped' /\ GroupsTyped'
  BY <1>1, <1>2 DEF PageInv, PageTyped, GroupsTyped, Emit, page
<1>7. PreviewsOK' /\ RecordsKept'
  BY <1>1, <1>2, <1>4 DEF PageInv, PreviewsOK, RecordsKept, NameOK, StarOK, PosterOK
<1>8. ItemsOpen'
  <2>1. ASSUME kind # "pornrips", NEW n \in DOMAIN out' PROVE Opens(out'[n].id)
    <3>1. n \in DOMAIN groups
      BY <1>3
    <3>2. out'[n].id = IF kind = "compact" THEN GroupId(groups[n]) ELSE RowId(n)
      BY <1>3, <3>1
    <3>3. GroupsTyped /\ RecordsKept
      BY DEF PageInv
    <3> QED
      BY <1>1, <2>1, <3>1, <3>2, <3>3, IdsOpen
  <2> QED
    BY <1>2, <1>4, <1>5, <2>1 DEF ItemsOpen, Opens
<1>9. Aligned'
  <2> SUFFICES ASSUME NEW n \in DOMAIN out'
               PROVE  LET h == groups[n][1].hash IN
                      /\ Shows(h, out'[n].name)
                      /\ \/ out'[n].poster = NoPoster \/ Shows(h, out'[n].poster)
                         \/ \E g \in Hashes : Star[h] \in Mentions[g] /\ Shows(g, out'[n].poster)
    BY <1>4 DEF Aligned
  <2> DEFINE k == RowsBefore(n) + 1
             m == metas[k]
  <2>1. n \in DOMAIN groups
    BY <1>3
  <2>2. k \in DOMAIN Rendered /\ Rendered[k] = groups[n][1]
    BY <2>1, RenderedIs DEF PageInv
  <2>3. m.row = Rendered[k].hash /\ NameOK(m) /\ StarOK(m)
    BY <1>1, <2>2 DEF PageInv, PreviewsOK
  <2>4. out'[n].name = m.name /\ out'[n].poster = m.poster
    BY <1>3, <2>1
  <2> HIDE DEF m, k
  <2> QED
    BY <2>2, <2>3, <2>4 DEF NameOK, StarOK, PosterOK
<1>10. OpenFinds'
  BY <1>2 DEF PageInv, OpenFinds, Found, Emit
<1> QED
  BY <1>6, <1>7, <1>8, <1>9, <1>10 DEF PageInv

LEMMA OpenInv ==
  ASSUME PageInv, NEW n \in DOMAIN out, Open(n)
  PROVE  PageInv'
<1>1. phase = "done" /\ phase' = "done" /\ Previewed /\ Previewed'
  BY DEF Open, Previewed
<1>2. Rendered' = Rendered /\ kind' = kind /\ \A i : RowId(i)' = RowId(i)
  BY SameRows DEF Open
<1>3. opened' = [id |-> LookupId(out[n].id),
                 found |-> (IF out[n].id[1] = "group" THEN LookupId(out[n].id) ELSE out[n].id) \in recs]
  BY DEF Open
<1>4. OpenFinds'
  <2> SUFFICES ASSUME kind # "pornrips" PROVE opened'.found \/ opened'.id \in lost
    BY <1>2 DEF OpenFinds, Found, Open
  <2>1. Opens(out[n].id)
    BY <1>1 DEF PageInv, ItemsOpen
  <2> QED
    BY <1>3, <2>1 DEF Opens
<1>5. PageTyped' /\ GroupsTyped'
  BY <1>1, <1>2 DEF PageInv, PageTyped, GroupsTyped, Open, page
<1>6. PreviewsOK' /\ RecordsKept' /\ ItemsOpen' /\ Aligned'
  BY <1>1, <1>2 DEF PageInv, PreviewsOK, RecordsKept, ItemsOpen, Opens, Aligned, NameOK, StarOK, PosterOK, Open
<1> QED
  BY <1>4, <1>5, <1>6 DEF PageInv

LEMMA ExpireInv ==
  ASSUME PageInv, NEW id \in recs, Expire(id)
  PROVE  PageInv'
<1>1. phase = "done" /\ phase' = "done" /\ Previewed /\ Previewed'
  BY DEF Expire, Previewed
<1>2. Rendered' = Rendered /\ kind' = kind /\ \A i : RowId(i)' = RowId(i)
  BY SameRows DEF Expire
<1>3. recs' \cup lost' = recs \cup lost /\ lost \subseteq lost'
  BY DEF Expire
<1>4. PageTyped' /\ GroupsTyped'
  BY <1>1, <1>2 DEF PageInv, PageTyped, GroupsTyped, Expire, page
<1>5. PreviewsOK' /\ Aligned' /\ OpenFinds'
  BY <1>1, <1>2, <1>3 DEF PageInv, PreviewsOK, Aligned, OpenFinds, Found, NameOK, StarOK, PosterOK, Expire
<1>6. RecordsKept'
  BY <1>1, <1>2, <1>3 DEF PageInv, RecordsKept
<1>7. ItemsOpen'
  BY <1>1, <1>2, <1>3 DEF PageInv, ItemsOpen, Opens, Expire
<1> QED
  BY <1>4, <1>5, <1>6, <1>7 DEF PageInv

LEMMA PageIdleInv ==
  ASSUME PageInv, UNCHANGED pageVars
  PROVE  PageInv'
<1>1. Rendered' = Rendered /\ kind' = kind /\ \A i : RowId(i)' = RowId(i)
  BY SameRows DEF pageVars
<1>2. Previewed' = Previewed
  BY DEF pageVars, Previewed
<1> QED
  BY <1>1, <1>2 DEF PageInv, PageTyped, GroupsTyped, PreviewsOK, RecordsKept, ItemsOpen, Opens, Aligned, OpenFinds,
     Found, NameOK, StarOK, PosterOK, pageVars, page

LEMMA PageStepInv == PageInv /\ [PageNext]_pageVars => PageInv'
<1> SUFFICES ASSUME PageInv, [PageNext]_pageVars PROVE PageInv'
  OBVIOUS
<1>1. CASE Load \/ EndRound \/ GroupCompact \/ GroupOthers \/ Render
  BY <1>1, LoadInv, EndRoundInv, GroupCompactInv, GroupOthersInv, RenderInv
<1>2. CASE Live \/ ShareCode \/ ShareStar \/ Emit
  BY <1>2, LiveInv, ShareCodeInv, ShareStarInv, EmitInv
<1>3. ASSUME NEW n \in DOMAIN out, Open(n) PROVE PageInv'
  BY <1>3, OpenInv
<1>4. ASSUME NEW id \in recs, Expire(id) PROVE PageInv'
  BY <1>4, ExpireInv
<1> QED
  BY <1>1, <1>2, <1>3, <1>4, PageIdleInv DEF PageNext

LEMMA PageInvHolds == PageSpec => []PageInv
<1> QED
  BY PageInitInv, PageStepInv, PTL DEF PageSpec

(* The types of a page: it is no longer than asked for, its rows are releases of    *)
(* the listing, and it answers one item for each group (serveCompactMergedCatalog). *)
THEOREM PageTypeCorrect == PageSpec => []PageTypeOK
<1>1. PageInv => PageTypeOK
  <2> SUFFICES ASSUME PageInv PROVE PageTypeOK
    OBVIOUS
  <2>1. batch \cup merged \subseteq [hash : Hashes, seeds : Seeds, stamp : {"4k", "fhd"}]
    BY DEF PageInv, PageTyped, Fetched
  <2>2. Len(Stamps) + 1 = 3
    BY DEF Stamps
  <2>3. \A i \in DOMAIN metas : metas[i] \in [row : Hashes, name : Hashes, poster : Posters]
    <3>1. CASE Previewed
      BY <3>1 DEF PageInv, PreviewsOK, Preview
    <3>2. CASE ~Previewed
      BY <3>2 DEF PageInv, PreviewsOK
    <3> QED
      BY <3>1, <3>2
  <2> QED
    BY <2>1, <2>2, <2>3 DEF PageInv, PageTyped, GroupsTyped, ItemsOpen, PageTypeOK
<1> QED
  BY <1>1, PageInvHolds, PTL

(* Every item shows a name and a poster of its own scene, or of one with its code   *)
(* or performer, however many releases the groups before it have: the index that    *)
(* serveCompactMergedCatalog carries along is the place of its first release in     *)
(* the rows that buildMetas was given.                                              *)
THEOREM ItemsAligned == PageSpec => []Aligned
<1>1. PageInv => Aligned
  BY DEF PageInv
<1> QED
  BY <1>1, PageInvHolds, PTL

(* The id that ServeMeta rebuilds from the id of an item is the one under which      *)
(* buildMetas stored a record, so opening finds it until it expires.                *)
THEOREM ItemsReopen == PageSpec => []OpenFinds
<1>1. PageInv => OpenFinds
  BY DEF PageInv
<1> QED
  BY <1>1, PageInvHolds, PTL
=============================================================================
