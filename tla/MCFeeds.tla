------------------------------- MODULE MCFeeds -------------------------------
(* Small instances, for TLC, of the three stores that syncs fill from a feed   *)
(* while others write to them: the tubes, PornRips, and the enriched scenes.    *)
(* They share no state: a behaviour exercises one and leaves the others as      *)
(* they began.                                                                  *)
EXTENDS FeedSync, PornripsFeed, SceneStore

VARIABLE side   (* the part this behaviour exercises: "tubes", "pornrips", "scenes" *)

(* One sync of each control profile. *)
AllSites ==
  {Perverzija, Porneec, Freepornvideos, Watchporn, Yesporn, Hentai,
   HentaiRecent}

(* Two scenes on two pages; Knaben has both, the others the second. *)
MCBrowse == <<{2}, {1}>>
MCFinds == [src \in Sources \cup {"1337x", "pornrips"} |-> IF src = "knaben_adult" THEN {1, 2} ELSE {2}]

FeedsInit ==
  /\ side \in {"tubes", "pornrips", "scenes"}
  /\ Init
  /\ side # "tubes" => site.entry = PerverzijaEntry /\ site.cap = 1
  /\ FeedInit
  /\ SceneInit

Tubes(action) == side = "tubes" /\ action /\ UNCHANGED <<side, feedVars, sceneVars>>
Pornrips(action) == side = "pornrips" /\ action /\ UNCHANGED <<side, vars, sceneVars>>
Scened(action) == side = "scenes" /\ action /\ UNCHANGED <<side, vars, feedVars>>

FeedsNext == Tubes(Next) \/ Pornrips(FeedNext) \/ Scened(SceneNext)

allVars == <<side, vars, feedVars, sceneVars>>

(* The fairness of FeedSync, on its side. *)
FeedsSpec ==
  /\ FeedsInit /\ [][FeedsNext]_allVars
  /\ WF_allVars(Tubes(Start("tick")))
  /\ \A r \in Runs : WF_allVars(Tubes(RunStep(r)))
=============================================================================
