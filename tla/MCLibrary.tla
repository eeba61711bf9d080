------------------------------ MODULE MCLibrary ------------------------------
(***************************************************************************)
(* What the service keeps for its users: Covers, Favorites, Accounts and    *)
(* Debrid, which share no state.  The first choice `side` says which of     *)
(* them moves; the others stay in their initial states.                     *)
(***************************************************************************)
EXTENDS Covers, Favorites, Accounts, Debrid, TLC

VARIABLE side

OnePoster == (1 :> [img |-> "a", source |-> "tpdb"]) @@ (2 :> [img |-> "none", source |-> ""])
Googles == ("u" :> "gu") @@ ("v" :> "gv")
Addresses == ("p" :> "a") @@ ("q" :> "b") @@ ("r" :> "c")
TwoFavorites == <<[magnet |-> "m", keyed |-> TRUE], [magnet |-> "m", keyed |-> FALSE]>>

libraryVars == <<coverVars, favVars, accVars, debridVars, side>>

LibraryInit ==
  /\ side \in {"covers", "favorites", "accounts", "debrid"}
  /\ CoverInit /\ (side # "covers" => \A k \in Keys : rows[k] = NoRow)
  /\ FavInit /\ (side # "favorites" => entries = {})
  /\ AccInit /\ (side # "accounts" => users = {})
  /\ DebridInit

LibraryNext ==
  /\ UNCHANGED side
  /\ \/ side = "covers" /\ CoverNext /\ UNCHANGED <<favVars, accVars, debridVars>>
     \/ side = "favorites" /\ FavNext /\ UNCHANGED <<coverVars, accVars, debridVars>>
     \/ side = "accounts" /\ AccNext /\ UNCHANGED <<coverVars, favVars, debridVars>>
     \/ side = "debrid" /\ DebridNext /\ UNCHANGED <<coverVars, favVars, accVars>>

LibrarySpec == LibraryInit /\ [][LibraryNext]_libraryVars
=============================================================================
