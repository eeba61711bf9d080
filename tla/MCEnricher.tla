----------------------------- MODULE MCEnricher -----------------------------
(* Small instances of the metadata enricher for TLC: its queue (MetaQueue),   *)
(* and the stores it fills for one torrent (SharedMeta).  MetaQueue leaves     *)
(* open what the stores hold and SharedMeta when an item is drained, so that   *)
(* a behaviour exercises one and leaves the other as it began.                 *)
EXTENDS MetaQueue, SharedMeta

VARIABLE side   (* the part this behaviour exercises: "queue" or "stores" *)

(* Catalog requests look up one source live and the other inline. *)
OneWriterEach == {<<"live", "tpdb">>, <<"inline", "stashdb">>}

EnricherInit ==
  /\ side \in {"queue", "stores"}
  /\ Init
  /\ MetaInit
  /\ side = "queue" => answer = [s \in Sources |-> "none"]

EnricherNext ==
  \/ side = "queue" /\ Next /\ UNCHANGED <<side, metaVars>>
  \/ side = "stores" /\ MetaNext /\ UNCHANGED <<side, vars>>

allVars == <<side, vars, metaVars>>

(* The fairness of the two modules, each on its own side. *)
EnricherSpec ==
  /\ EnricherInit /\ [][EnricherNext]_allVars
  /\ WF_allVars(side = "queue" /\ TickStep /\ UNCHANGED <<side, metaVars>>)
  /\ WF_allVars(side = "stores" /\ ItemStep /\ UNCHANGED <<side, vars>>)
=============================================================================
