---------------------------- MODULE GuardProofs ----------------------------
(***************************************************************************)
(* What guards the server against an address: the sliding-window limits     *)
(* hold for every set of addresses and of limits, and one synchronisation    *)
(* heals the blocklist, for every set of addresses and of callers.          *)
(***************************************************************************)
EXTENDS SlidingWindow, Blocklist, FiniteSetTheorems, TLAPS

-----------------------------------------------------------------------------
(* SlidingWindow: what passed, and what is remembered of it.                       *)

(* What passed is part of the full history, which is finite. *)
ServedIsHistory ==
  \A i \in Ips : served[i] \subseteq hist[i] /\ IsFiniteSet(hist[i])

WindowInv == TypeOK /\ NothingForgotten /\ ServedIsHistory /\ ServedWithinLimits

LEMMA LimitType ==
  ASSUME NEW l \in Limits
  PROVE  l.window \in Nat \ {0} /\ l.threshold \in Nat
BY SlidingWindowAssumption

(* The window of a part of a finite set of requests is finite, and smaller. *)
LEMMA WindowOfPart ==
  ASSUME NEW rs, IsFiniteSet(rs), NEW part, part \subseteq rs
  PROVE  IsFiniteSet(part) /\ Cardinality(part) \in Nat /\ Cardinality(part) <= Cardinality(rs)
         /\ Cardinality(rs) \in Nat
BY FS_Subset, FS_CardinalityType

LEMMA InitWindowInv == Init => WindowInv
<1> SUFFICES ASSUME Init PROVE WindowInv
  OBVIOUS
<1>1. Cardinality({}) = 0 /\ IsFiniteSet({})
  BY FS_EmptySet
<1>2. TypeOK
  BY SlidingWindowAssumption DEF Init, TypeOK
<1>3. NothingForgotten /\ ServedIsHistory
  BY <1>1 DEF Init, NothingForgotten, ServedIsHistory, Window
<1>4. ServedWithinLimits
  <2> SUFFICES ASSUME NEW i \in Ips, NEW l \in Limits
      PROVE  Cardinality(Window(served[i], l)) <= l.threshold
    BY DEF ServedWithinLimits
  <2>1. Window(served[i], l) = {}
    BY DEF Init, Window
  <2>2. QED
    BY <1>1, <2>1, LimitType
<1>5. QED
  BY <1>2, <1>3, <1>4 DEF WindowInv

(* Time only takes requests out of a window. *)
LEMMA ClockWindowInv == ASSUME WindowInv, Clock PROVE WindowInv'
<1> USE DEF WindowInv, Clock
<1>0. now' = now + 1 /\ times' = times /\ hist' = hist /\ served' = served
  OBVIOUS
<1>1. TypeOK'
  BY SlidingWindowAssumption DEF TypeOK
<1>2. \A i \in Ips : /\ \A r \in times[i] : r.at \in Nat
                     /\ \A r \in hist[i] : r.at \in Nat
                     /\ \A r \in served[i] : r.at \in Nat
  BY DEF TypeOK, Request
<1>3. now \in Nat
  BY DEF TypeOK
<1>4. NothingForgotten'
  <2> SUFFICES ASSUME NEW i \in Ips, NEW l \in Limits
      PROVE  Window(times[i], l)' = Window(hist[i], l)'
    BY DEF NothingForgotten
  <2>0. /\ Window(times[i], l)' = {r \in times[i] : r.at > now + 1 - l.window}
        /\ Window(hist[i], l)' = {r \in hist[i] : r.at > now + 1 - l.window}
    <3>1. /\ Window(times[i], l)' = {r \in times[i] : r.at > now' - l.window}
          /\ Window(hist[i], l)' = {r \in hist[i] : r.at > now' - l.window}
      BY <1>0 DEF Window
    <3>2. now' - l.window = now + 1 - l.window
      BY <1>0, <1>3, LimitType
    <3>3. QED
      BY <3>1, <3>2
  <2>1. {r \in times[i] : r.at > now - l.window} = {r \in hist[i] : r.at > now - l.window}
    BY DEF NothingForgotten, Window
  <2>2. \A r \in times[i] \cup hist[i] : r.at > now + 1 - l.window => r.at > now - l.window
    BY <1>2, <1>3, LimitType
  <2>3. QED
    BY <2>0, <2>1, <2>2
<1>5. ServedIsHistory'
  BY DEF ServedIsHistory
<1>6. ServedWithinLimits'
  <2> SUFFICES ASSUME NEW i \in Ips, NEW l \in Limits
      PROVE  Cardinality(Window(served[i], l)') <= l.threshold
    BY DEF ServedWithinLimits, Window
  <2>1. \A r \in served[i] : r.at > now + 1 - l.window => r.at > now - l.window
    BY <1>2, <1>3, LimitType
  <2>2. Window(served[i], l)' \subseteq Window(served[i], l)
    <3>1. Window(served[i], l)' = {r \in served[i] : r.at > now' - l.window}
      BY <1>0 DEF Window
    <3>2. now' - l.window = now + 1 - l.window
      BY <1>0, <1>3, LimitType
    <3>3. QED
      BY <2>1, <3>1, <3>2 DEF Window
  <2>3. Window(served[i], l) \subseteq hist[i] /\ IsFiniteSet(hist[i])
    BY DEF Window, ServedIsHistory
  <2>4. IsFiniteSet(Window(served[i], l))
    BY <2>3, FS_Subset
  <2>5. /\ Cardinality(Window(served[i], l)') \in Nat
        /\ Cardinality(Window(served[i], l)) \in Nat
        /\ Cardinality(Window(served[i], l)') <= Cardinality(Window(served[i], l))
    BY <2>2, <2>4, FS_Subset, FS_CardinalityType
  <2>6. Cardinality(Window(served[i], l)) <= l.threshold
    BY DEF ServedWithinLimits
  <2>7. QED
    BY <2>5, <2>6, LimitType
<1>7. QED
  BY <1>1, <1>4, <1>5, <1>6

(* A request is recorded, and passes when no window is over its threshold. *)
LEMMA ArrivesWindowInv ==
  ASSUME WindowInv, NEW i \in Ips, Arrives(i)
  PROVE  WindowInv'
<1> USE DEF WindowInv
<1> DEFINE r == [at |-> now, n |-> seq]
           kept == Fresh(times[i]) \cup {r}
<1>1. /\ seq' = seq + 1 /\ seq < MaxRequests /\ now' = now
      /\ entries' = entries \cup {i}
      /\ times' = [times EXCEPT ![i] = kept]
      /\ hist' = [hist EXCEPT ![i] = @ \cup {r}]
      /\ served' = IF Tripped(kept) THEN served ELSE [served EXCEPT ![i] = @ \cup {r}]
  BY DEF Arrives
<1>2. r \in Request /\ kept \subseteq Request
  BY SlidingWindowAssumption DEF TypeOK, Request, Fresh
<1>3. \A l \in Limits : Window(kept, l) = Window(hist[i] \cup {r}, l)
  <2> SUFFICES ASSUME NEW l \in Limits PROVE Window(kept, l) = Window(hist[i] \cup {r}, l)
    OBVIOUS
  <2>1. Window(Fresh(times[i]), l) = Window(times[i], l)
    BY DEF Window, Fresh
  <2>2. Window(times[i], l) = Window(hist[i], l)
    BY DEF NothingForgotten
  <2> HIDE DEF r
  <2>3. QED
    BY <2>1, <2>2 DEF Window
<1> HIDE DEF r, kept
<1>4. /\ \A j \in Ips : times'[j] = IF j = i THEN kept ELSE times[j]
      /\ \A j \in Ips : hist'[j] = IF j = i THEN hist[i] \cup {r} ELSE hist[j]
      /\ \A j \in Ips : j # i => served'[j] = served[j]
      /\ served'[i] = IF Tripped(kept) THEN served[i] ELSE served[i] \cup {r}
  BY <1>1 DEF TypeOK
<1>5. TypeOK'
  <2>1. /\ times' \in [Ips -> SUBSET Request]
        /\ hist' \in [Ips -> SUBSET Request]
        /\ served' \in [Ips -> SUBSET Request]
    BY <1>1, <1>2 DEF TypeOK
  <2>2. seq' \in 0 .. MaxRequests /\ now' \in 0 .. MaxTime /\ entries' \subseteq Ips
    BY <1>1, SlidingWindowAssumption DEF TypeOK
  <2>3. \A j \in Ips \ entries' : times'[j] = {}
    BY <1>1, <1>4 DEF TypeOK
  <2>4. QED
    BY <2>1, <2>2, <2>3 DEF TypeOK
<1>6. NothingForgotten'
  <2> SUFFICES ASSUME NEW j \in Ips, NEW l \in Limits
      PROVE  Window(times[j], l)' = Window(hist[j], l)'
    BY DEF NothingForgotten
  <2>0. /\ Window(times[j], l)' = Window(times'[j], l)
        /\ Window(hist[j], l)' = Window(hist'[j], l)
    BY <1>1 DEF Window
  <2>1. Window(times[j], l) = Window(hist[j], l)
    BY DEF NothingForgotten
  <2>2. QED
    BY <1>3, <1>4, <2>0, <2>1
<1>7. ServedIsHistory'
  <2>1. IsFiniteSet(hist[i] \cup {r})
    BY FS_AddElement DEF ServedIsHistory
  <2>2. QED
    BY <1>4, <2>1 DEF ServedIsHistory
<1>8. ServedWithinLimits'
  <2> SUFFICES ASSUME NEW j \in Ips, NEW l \in Limits
      PROVE  Cardinality(Window(served'[j], l)) <= l.threshold
    BY <1>1 DEF ServedWithinLimits, Window
  <2>1. CASE served'[j] = served[j]
    BY <2>1 DEF ServedWithinLimits
  <2>2. CASE served'[j] # served[j]
    <3>1. j = i /\ ~Tripped(kept) /\ served'[j] = served[i] \cup {r}
      BY <1>4, <2>2
    <3>2. ~(Cardinality(Window(kept, l)) > l.threshold)
      BY <3>1 DEF Tripped
    <3>3. Window(served'[j], l) \subseteq Window(kept, l)
      BY <1>3, <3>1 DEF ServedIsHistory, Window
    <3>4. IsFiniteSet(hist[i] \cup {r})
      BY FS_AddElement DEF ServedIsHistory
    <3>5. Window(kept, l) \subseteq hist[i] \cup {r}
      BY <1>3 DEF Window
    <3>6. IsFiniteSet(Window(kept, l))
      BY <3>4, <3>5, FS_Subset
    <3>7. /\ Cardinality(Window(served'[j], l)) <= Cardinality(Window(kept, l))
          /\ Cardinality(Window(served'[j], l)) \in Nat
          /\ Cardinality(Window(kept, l)) \in Nat
      BY <3>3, <3>6, FS_Subset, FS_CardinalityType
    <3>8. QED
      BY <3>2, <3>7, LimitType
  <2>3. QED
    BY <2>1, <2>2
<1>9. QED
  BY <1>5, <1>6, <1>7, <1>8

(* The sweep only drops what no window sees. *)
LEMMA SweepWindowInv == ASSUME WindowInv, Sweep PROVE WindowInv'
<1> USE DEF WindowInv, Sweep
<1>1. \A i \in Ips : times'[i] = Fresh(times[i]) /\ times'[i] \subseteq times[i]
  BY DEF Fresh
<1>2. TypeOK'
  BY <1>1 DEF TypeOK, Empty, Fresh
<1>3. NothingForgotten'
  <2> SUFFICES ASSUME NEW i \in Ips, NEW l \in Limits
      PROVE  Window(times'[i], l) = Window(hist[i], l)
    BY DEF NothingForgotten, Window
  <2>1. Window(Fresh(times[i]), l) = Window(times[i], l)
    BY DEF Window, Fresh
  <2>2. QED
    BY <1>1, <2>1 DEF NothingForgotten
<1>4. ServedIsHistory' /\ ServedWithinLimits'
  BY DEF ServedIsHistory, ServedWithinLimits, Window
<1>5. QED
  BY <1>2, <1>3, <1>4

LEMMA NextWindowInv == WindowInv /\ [Next]_vars => WindowInv'
<1> SUFFICES ASSUME WindowInv, [Next]_vars PROVE WindowInv'
  OBVIOUS
<1>1. CASE UNCHANGED vars
  BY <1>1 DEF vars, WindowInv, TypeOK, NothingForgotten, ServedIsHistory, ServedWithinLimits, Window
<1>2. CASE Clock
  BY <1>2, ClockWindowInv
<1>3. ASSUME NEW i \in Ips, Arrives(i) PROVE WindowInv'
  BY <1>3, ArrivesWindowInv
<1>4. CASE Sweep
  BY <1>4, SweepWindowInv
<1>5. QED
  BY <1>1, <1>2, <1>3, <1>4 DEF Next

LEMMA WindowInvariance == Spec => []WindowInv
<1>1. QED
  BY InitWindowInv, NextWindowInv, PTL DEF Spec

(* Every variable of the limiter keeps its type. *)
THEOREM WindowTypeCorrect == Spec => []TypeOK
<1>1. WindowInv => TypeOK
  BY DEF WindowInv
<1>2. QED
  BY <1>1, WindowInvariance, PTL

(* Neither pruning on a request nor the sweeps of the cleanup goroutine ever change *)
(* what a window counts (ratelimit.go, Allow and cleanup).                          *)
THEOREM PruningIsExact == Spec => []NothingForgotten
<1>1. WindowInv => NothingForgotten
  BY DEF WindowInv
<1>2. QED
  BY <1>1, WindowInvariance, PTL

(* In no window more requests of an address pass than the limit's threshold, for   *)
(* any limits, addresses and times of requests and sweeps (ratelimit.go, Allow).    *)
THEOREM LimitsEnforced == Spec => []ServedWithinLimits
<1>1. WindowInv => ServedWithinLimits
  BY DEF WindowInv
<1>2. QED
  BY <1>1, WindowInvariance, PTL

-----------------------------------------------------------------------------
(* Blocklist: memory beside the collection.                                        *)

(* What the running synchronisation read is still true of the quiet           *)
(* addresses, which no call has touched since, nor is still writing.          *)
ReadStillTrue ==
  /\ quiet \cap Touched = {}
  /\ sync => \A i \in quiet : i \in read <=> i \in db

BlockInv ==
  /\ ListTypeOK
  /\ ReadStillTrue
  /\ healed \cap Touched = {}
  /\ OneSyncHeals

LEMMA InitBlockInv == ListInit => BlockInv
<1> SUFFICES ASSUME ListInit PROVE BlockInv
  OBVIOUS
<1>1. Touched = {} /\ faults \in 0 .. MaxFaults
  BY BlocklistAssumption DEF ListInit, Touched
<1>2. ListTypeOK
  BY <1>1 DEF ListInit, ListTypeOK
<1>3. QED
  BY <1>1, <1>2 DEF ListInit, BlockInv, ReadStillTrue, OneSyncHeals

(* A call that begins takes its address out of the quiet and the healed ones. *)
LEMMA StartBlockInv ==
  ASSUME BlockInv, NEW c \in Callers, NEW kind \in {"add", "remove"}, NEW i \in Addrs,
         Start(c, kind, i), mem' \in {mem \cup {i}, mem \ {i}}
  PROVE  BlockInv'
<1> USE DEF BlockInv, Start
<1>1. Touched' = Touched \cup {i}
  <2> DEFINE w == [caller |-> c, kind |-> kind, ip |-> i]
  <2>1. w.ip = i /\ pending' = pending \cup {w}
    OBVIOUS
  <2> HIDE DEF w
  <2>2. QED
    BY <2>1 DEF Touched
<1>2. ListTypeOK'
  BY DEF ListTypeOK, Write
<1>3. ReadStillTrue' /\ (healed \cap Touched = {})'
  BY <1>1 DEF ReadStillTrue
<1>4. OneSyncHeals'
  BY DEF OneSyncHeals
<1>5. QED
  BY <1>2, <1>3, <1>4

(* A write that ends, well or not, concerns an address that is neither. *)
LEMMA WriteDbBlockInv ==
  ASSUME BlockInv, NEW w \in pending, WriteDb(w)
  PROVE  BlockInv'
<1> USE DEF BlockInv, WriteDb
<1>1. w.ip \in Addrs /\ w.ip \in Touched /\ Touched' \subseteq Touched
  BY DEF ListTypeOK, Write, Touched
<1>2. \A i \in Addrs \ {w.ip} : i \in db' <=> i \in db
  BY DEF Written
<1>3. ListTypeOK'
  <2>1. db' \subseteq Addrs
    BY <1>1 DEF ListTypeOK, Written
  <2>2. faults' \in 0 .. MaxFaults
    BY BlocklistAssumption DEF ListTypeOK
  <2>3. QED
    BY <2>1, <2>2 DEF ListTypeOK
<1>4. w.ip \notin quiet /\ w.ip \notin healed
  BY <1>1 DEF ReadStillTrue
<1>5. ReadStillTrue' /\ (healed \cap Touched = {})'
  BY <1>1, <1>2, <1>4 DEF ReadStillTrue, ListTypeOK
<1>6. OneSyncHeals'
  BY <1>2, <1>4 DEF OneSyncHeals, ListTypeOK
<1>7. QED
  BY <1>3, <1>5, <1>6

LEMMA SyncBlockInv ==
  ASSUME BlockInv, Sync
  PROVE  BlockInv'
<1> USE DEF BlockInv
<1>1. Touched' = Touched
  BY DEF Sync, SyncRead, SyncSwap, Touched
<1>2. CASE SyncRead
  <2>0. faults' \in 0 .. MaxFaults
    BY <1>2, BlocklistAssumption DEF SyncRead, ListTypeOK
  <2>1. ListTypeOK'
    BY <1>2, <2>0 DEF SyncRead, ListTypeOK
  <2>2. ReadStillTrue' /\ (healed \cap Touched = {})' /\ OneSyncHeals'
    BY <1>1, <1>2 DEF SyncRead, ReadStillTrue, OneSyncHeals
  <2>3. QED
    BY <2>1, <2>2
<1>3. CASE SyncSwap
  <2>1. ListTypeOK'
    BY <1>3 DEF SyncSwap, Replaced, ListTypeOK
  <2>2. ReadStillTrue' /\ (healed \cap Touched = {})'
    BY <1>1, <1>3 DEF SyncSwap, ReadStillTrue
  <2>3. OneSyncHeals'
    BY <1>3 DEF SyncSwap, Replaced, ReadStillTrue, OneSyncHeals
  <2>4. QED
    BY <2>1, <2>2, <2>3
<1>4. QED
  BY <1>2, <1>3 DEF Sync

LEMMA RestartBlockInv == ASSUME BlockInv, Restart PROVE BlockInv'
<1> USE DEF BlockInv, Restart
<1>1. Touched' = {}
  BY DEF Touched
<1>2. ListTypeOK'
  <2>1. faults' \in 0 .. MaxFaults
    BY BlocklistAssumption DEF ListTypeOK
  <2>2. QED
    BY <2>1 DEF ListTypeOK
<1>3. QED
  BY <1>1, <1>2 DEF ReadStillTrue, OneSyncHeals

LEMMA NextBlockInv == BlockInv /\ [ListNext]_listVars => BlockInv'
<1> SUFFICES ASSUME BlockInv, [ListNext]_listVars PROVE BlockInv'
  OBVIOUS
<1>1. CASE UNCHANGED listVars
  BY <1>1 DEF listVars, BlockInv, ListTypeOK, ReadStillTrue, OneSyncHeals, Touched
<1>2. ASSUME NEW c \in Callers, NEW i \in Addrs, AutoBlock(c, i) \/ BlockIP(c, i) \/ UnblockIP(c, i)
      PROVE  BlockInv'
  BY <1>2, StartBlockInv DEF AutoBlock, BlockIP, UnblockIP
<1>3. ASSUME NEW w \in pending, WriteDb(w) PROVE BlockInv'
  BY <1>3, WriteDbBlockInv
<1>4. CASE Sync
  BY <1>4, SyncBlockInv
<1>5. CASE Restart
  BY <1>5, RestartBlockInv
<1>6. QED
  BY <1>1, <1>2, <1>3, <1>4, <1>5 DEF ListNext

LEMMA BlockInvariance == ListSpec => []BlockInv
<1>1. QED
  BY InitBlockInv, NextBlockInv, PTL DEF ListSpec

(* Every variable of the blocklist keeps its type. *)
THEOREM BlockTypeCorrect == ListSpec => []ListTypeOK
<1>1. BlockInv => ListTypeOK
  BY DEF BlockInv
<1>2. QED
  BY <1>1, BlockInvariance, PTL

(* One synchronisation makes memory and collection agree on every address that      *)
(* nobody blocks or unblocks meanwhile, whatever writes failed before it            *)
(* (ipblock.go, syncFromDB).                                                        *)
THEOREM SyncHeals == ListSpec => []OneSyncHeals
<1>1. BlockInv => OneSyncHeals
  BY DEF BlockInv
<1>2. QED
  BY <1>1, BlockInvariance, PTL
=============================================================================
