---------------------------- MODULE PriorityPool ----------------------------
(***************************************************************************)
(* What the metadata enricher promises its callers, without its queue, its  *)
(* ticks or its goroutines (jobs/meta_enricher.go): a bounded pool of work  *)
(* with two classes.  Work is taken in batches, urgent work first; while a  *)
(* batch is under way no other is taken; work that could not be done may be *)
(* given back; a restart forgets everything.  MetaQueue implements it.      *)
(***************************************************************************)
EXTENDS Integers, FiniteSets

CONSTANTS
  Work,     (* what can be submitted                                            *)
  Capacity, (* how much may wait at a time                                      *)
  Batch     (* how much is taken at a time                                      *)

VARIABLES
  urgent,   (* the urgent work that waits                                       *)
  plain,    (* the other work that waits                                        *)
  busy      (* the work under way                                               *)

poolVars == <<urgent, plain, busy>>

Waiting == urgent \cup plain

PoolInit == urgent = {} /\ plain = {} /\ busy = {}

(* Work enters the pool only while there is room for it. *)
Enters(w, asUrgent) ==
  /\ w \notin Waiting
  /\ Cardinality(Waiting) < Capacity
  /\ IF asUrgent THEN urgent' = urgent \cup {w} /\ UNCHANGED plain
                 ELSE plain' = plain \cup {w} /\ UNCHANGED urgent

(* Work that waits may become urgent, and is never demoted. *)
Promoted(w) ==
  /\ w \in plain
  /\ urgent' = urgent \cup {w}
  /\ plain' = plain \ {w}

Submit(w, asUrgent) ==
  /\ Enters(w, asUrgent) \/ Promoted(w)
  /\ UNCHANGED busy

(* A batch: plain work is taken only when no urgent work is left behind.  Work *)
(* that needs nothing is done with at once.                                    *)
Take(D) ==
  /\ busy = {}
  /\ D # {} /\ Cardinality(D) <= Batch
  /\ D \cap plain # {} => urgent \subseteq D
  /\ urgent' = urgent \ D
  /\ plain' = plain \ D
  /\ busy' \in SUBSET D

(* Some of the work under way is done with, or given up. *)
Finish ==
  /\ busy' \in SUBSET busy
  /\ UNCHANGED <<urgent, plain>>

(* Work under way goes back to the pool, if there is room; it may be needed by *)
(* another part of the batch still.                                            *)
GiveBack(w, asUrgent) ==
  /\ w \in busy
  /\ Enters(w, asUrgent)
  /\ busy' \in {busy, busy \ {w}}

Forget == urgent' = {} /\ plain' = {} /\ busy' = {}

PoolNext ==
  \/ \E w \in Work, u \in BOOLEAN : Submit(w, u) \/ GiveBack(w, u)
  \/ \E D \in SUBSET Waiting : Take(D)
  \/ Finish
  \/ Forget

PoolSpec == PoolInit /\ [][PoolNext]_poolVars
=============================================================================
