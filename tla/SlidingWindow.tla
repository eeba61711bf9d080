---------------------------- MODULE SlidingWindow ----------------------------
(***************************************************************************)
(* The sliding-window counters of the HTTP middleware: the DDoS guard's    *)
(* per-IP traffic with one limit per window (middleware/ddos.go), and the  *)
(* rate limiter, which is the same with a single limit and its own map     *)
(* (middleware/security.go).  Every request that reaches the check is      *)
(* recorded, the rejected ones too; a request passes unless some window    *)
(* then holds more than its threshold.  A background sweep drops what is   *)
(* older than the longest window, and the entries left empty.              *)
(***************************************************************************)
EXTENDS Integers, FiniteSets

CONSTANTS
  Ips,          (* the client addresses                                         *)
  Limits,       (* the rules, records of a window and a threshold               *)
  MaxTime,      (* bound on the clock                                           *)
  MaxRequests   (* bound on the requests of a behaviour                         *)

ASSUME SlidingWindowAssumption ==
  /\ Limits \subseteq [window : Nat \ {0}, threshold : Nat]
  /\ MaxTime \in Nat
  /\ MaxRequests \in Nat

VARIABLES
  now,       (* the clock                                                       *)
  seq,       (* the number of requests so far, which tells them apart           *)
  entries,   (* the keys of the traffic map                                     *)
  times,     (* per address, the requests its entry holds                       *)
  hist,      (* history: per address, all its requests                          *)
  served     (* history: per address, those that passed                         *)

vars == <<now, seq, entries, times, hist, served>>

Request == [at : 0 .. MaxTime, n : 0 .. MaxRequests]

Init ==
  /\ now = 0 /\ seq = 0
  /\ entries = {}
  /\ times = [i \in Ips |-> {}]
  /\ hist = [i \in Ips |-> {}]
  /\ served = [i \in Ips |-> {}]

Clock ==
  /\ now < MaxTime
  /\ now' = now + 1
  /\ UNCHANGED <<seq, entries, times, hist, served>>

(* countSince: the requests younger than the window of a limit. *)
Window(rs, l) == {r \in rs : r.at > now - l.window}

(* pruneTimes keeps what is younger than the retention, the longest window.  *)
(* (Shortest: a bug that retains for the shortest.)                           *)
Shortest(rs) == {r \in rs : \A l \in Limits : r.at > now - l.window}
Fresh(rs) == {r \in rs : \E l \in Limits : r.at > now - l.window}

(* checkDDoSLimits: some window holds more than its threshold.  (Lenient: an  *)
(* off-by-one.)                                                               *)
Lenient(rs) == \E l \in Limits : Cardinality(Window(rs, l)) > l.threshold + 1
Tripped(rs) == \E l \in Limits : Cardinality(Window(rs, l)) > l.threshold

(* recordAndCheck, isLimited: one critical section. *)
Arrives(i) ==
  LET r == [at |-> now, n |-> seq]
      kept == Fresh(times[i]) \cup {r}
  IN  /\ seq < MaxRequests
      /\ seq' = seq + 1
      /\ entries' = entries \cup {i}
      /\ times' = [times EXCEPT ![i] = kept]
      /\ hist' = [hist EXCEPT ![i] = @ \cup {r}]
      /\ served' = IF Tripped(kept) THEN served ELSE [served EXCEPT ![i] = @ \cup {r}]
      /\ UNCHANGED now

(* sweepTraffic, Cleanup: an entry left without requests is deleted.  (Eager: *)
(* a bug that deletes an entry with an old request; Never: one that does not  *)
(* delete at all.)                                                            *)
Eager(i) == Fresh(times[i]) # times[i]
Never(i) == FALSE
Empty(i) == Fresh(times[i]) = {}

Sweep ==
  /\ entries' = {i \in entries : ~Empty(i)}
  /\ times' = [i \in Ips |-> Fresh(times[i])]
  /\ UNCHANGED <<now, seq, hist, served>>

Next == Clock \/ (\E i \in Ips : Arrives(i)) \/ Sweep

Spec == Init /\ [][Next]_vars

(* The sweep runs on a ticker for as long as the process lives. *)
FairSpec == Spec /\ WF_vars(Sweep)

-----------------------------------------------------------------------------
(* Types; and an address without an entry has no requests. *)
TypeOK ==
  /\ now \in 0 .. MaxTime
  /\ seq \in 0 .. MaxRequests
  /\ entries \subseteq Ips
  /\ times \in [Ips -> SUBSET Request]
  /\ hist \in [Ips -> SUBSET Request]
  /\ served \in [Ips -> SUBSET Request]
  /\ \A i \in Ips \ entries : times[i] = {}

(* Pruning and sweeping forget nothing that matters: in every window the      *)
(* entry counts the same requests as a log that never forgets.                 *)
NothingForgotten ==
  \A i \in Ips, l \in Limits : Window(times[i], l) = Window(hist[i], l)

(* Whatever the arrivals, in no window more requests of an address pass than  *)
(* the threshold of the window.                                                *)
ServedWithinLimits ==
  \A i \in Ips, l \in Limits : Cardinality(Window(served[i], l)) <= l.threshold
=============================================================================
