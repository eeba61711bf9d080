------------------------------ MODULE MCCovers ------------------------------
(* A small instance of the covers for TLC: the first torrent has a poster, and  *)
(* the instance remembers what the user chose.                                 *)
EXTENDS Covers, TLC

OnePoster == (1 :> [img |-> "a", source |-> "tpdb"]) @@ (2 :> [img |-> "none", source |-> ""])

VARIABLE chosen   (* history: per key, the image the user chose last *)

(* The user's own request writes its row in this step. *)
ChoiceOf(k) ==
  {setter[w].img : w \in {v \in Setters :
     /\ setter[v] # Rest /\ setter[v].op = "manual" /\ setter[v].key = k /\ setter[v].at = "write"
     /\ setter'[v] = Rest /\ UNCHANGED budget}}

ChoicesInit == CoverInit /\ chosen = [k \in Keys |-> "none"]

ChoicesNext ==
  /\ CoverNext
  /\ chosen' = [k \in Keys |->
       IF rows'[k] = NoRow THEN "none"
       ELSE IF ChoiceOf(k) # {} THEN CHOOSE i \in ChoiceOf(k) : TRUE ELSE chosen[k]]

ChoicesSpec == ChoicesInit /\ [][ChoicesNext]_<<coverVars, chosen>>

(* What the comment on SetManualCover says: it "stores a user-selected cover in *)
(* the primary slot with cover_source="manual" so automated jobs never           *)
(* overwrite it".  The primary slot holds what the user chose last.              *)
ManualKept ==
  \A k \in Keys : chosen[k] # "none" => rows[k].url.img = chosen[k]
=============================================================================
