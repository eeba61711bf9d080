----------------------------- MODULE MCStreams -----------------------------
(* Small instances, for TLC, of the stream service and of two caches its        *)
(* sources keep: the pages of 1337x and the direct links of AtishMKV.  They     *)
(* share no state: a behaviour exercises one and leaves the others as they      *)
(* began.                                                                       *)
EXTENDS Streams, X1337Cache, LinkCatalog

VARIABLE side   (* the part this behaviour exercises: "race", "pages", "links" *)

(* Both P2P providers, or one with the provider of direct URLs, or none that is *)
(* registered; Knaben's copies have titles that do not fit.                     *)
Three == {Knaben, Nyaa, AtishMKV}
Pairs == {{"knaben", "nyaa"}, {"nyaa", "atishmkv"}, {"nobody"}}
Mislabelled == [hash : Hashes, by : {Knaben.id}]

SourcesInit == side \in {"race", "pages", "links"} /\ Init /\ X1337Init /\ LinkInit

Raced(action) == side = "race" /\ action /\ UNCHANGED <<side, x1337Vars, linkVars>>
Paged(action) == side = "pages" /\ action /\ UNCHANGED <<side, vars, linkVars>>
Linked(action) == side = "links" /\ action /\ UNCHANGED <<side, vars, x1337Vars>>

SourcesNext == Raced(Next) \/ Paged(X1337Next) \/ Linked(LinkNext)

allVars == <<side, vars, x1337Vars, linkVars>>

(* The fairness of Streams, on its side. *)
SourcesSpec ==
  /\ SourcesInit /\ [][SourcesNext]_allVars
  /\ \A r \in Requests :
       /\ WF_allVars(Raced(Resolve(r))) /\ WF_allVars(Raced(ContextOver(r)))
       /\ WF_allVars(Raced(Answer(r)))
       /\ \A p \in Providers : WF_allVars(Raced(at[r] = "draining" /\ CallStep(r, p)))
=============================================================================
