----------------------------- MODULE Favorites -----------------------------
(***************************************************************************)
(* The favorites of the users (handlers/favorites.go, handlers/cache.go,    *)
(* pkg/mongo/favorites.go).  Adding a favorite deletes the entry the user   *)
(* may already have for the torrent and inserts a new one, in two calls.    *)
(* Reading, checking and removing look for the entries of all the ids a     *)
(* user may have favorites under: the user's own, the Google id of earlier  *)
(* versions, and the empty one of entries that belong to nobody.            *)
(***************************************************************************)
EXTENDS Integers, FiniteSets

CONSTANTS
  People,      (* the users, by id                                             *)
  GoogleOf,    (* per user, the Google id                                      *)
  Torrents,    (* the torrent keys                                             *)
  Magnets,     (* magnet links, "" among them                                  *)
  Calls,       (* requests that may be adding at one time                      *)
  MaxEntries,  (* bound on the entries ever made                               *)
  FavFaults    (* bound on the store calls that fail                           *)

(* An id of ours is a UUID, one of Google is a number, and neither is empty. *)
ASSUME FavoritesAssumption ==
  /\ \A u, v \in People : u # "" /\ u # GoogleOf[v]
  /\ "" \in Magnets
ASSUME FavoritesBounds == MaxEntries \in Nat /\ FavFaults \in Nat

VARIABLES
  entries,    (* the collection favorite_entries                               *)
  adding,     (* per request, the favorite it is adding, or NotAdding          *)
  made,       (* entries made so far, which is also the clock of created_at     *)
  owed,       (* history: <<user, torrent>> that were added with success and    *)
              (* not removed with success since, nor added again without        *)
  favFaults

favVars == <<entries, adding, made, owed, favFaults>>

Legacy == ""
NotAdding == [at |-> "none"]
Owner == People \cup {GoogleOf[u] : u \in People} \cup {Legacy}
Entry == [id : 0 .. MaxEntries, user : Owner, key : Torrents, magnet : Magnets]

FavFails == favFaults < FavFaults /\ favFaults' = favFaults + 1
FavSucceeds == UNCHANGED favFaults

(* Entries of earlier versions: at most one of each torrent and owner. *)
Earlier(o, k) == [id |-> 0, user |-> o, key |-> k, magnet |-> ""]

FavInit ==
  /\ entries \in SUBSET {Earlier(o, k) : o \in Owner \ People, k \in Torrents}
  /\ adding = [c \in Calls |-> NotAdding]
  /\ made = 0
  /\ owed = {}
  /\ favFaults = 0

(* resolveFavoriteUserIDs: without the Google id when the user cannot be read.  *)
IdsOf(u, readable) == {u, Legacy} \cup (IF readable THEN {GoogleOf[u]} ELSE {})

-----------------------------------------------------------------------------
(* AddFavorite: DeleteOne of the user's own entry, whose error is ignored.  (AnyOwners: a    *)
(* bug that drops the filter by user.)                                      *)
AnyOwners(u, k) == {e \in entries : e.key = k}
OwnEntry(u, k) == {e \in entries : e.key = k /\ e.user = u}

DeleteOld(c, u, k, m) ==
  /\ adding[c] = NotAdding /\ made < MaxEntries
  /\ adding' = [adding EXCEPT ![c] = [at |-> "insert", user |-> u, key |-> k, magnet |-> m, id |-> made + 1]]
  /\ made' = made + 1
  /\ \/ /\ FavSucceeds
        /\ IF OwnEntry(u, k) = {} THEN UNCHANGED entries
           ELSE \E e \in OwnEntry(u, k) : entries' = entries \ {e}
     \/ FavFails /\ UNCHANGED entries
  /\ UNCHANGED owed

(* InsertOne: the unique index over torrent and user lets one entry in.  A      *)
(* request whose insert fails answers with an error.                            *)
InsertNew(c) ==
  LET a == adding[c] IN
  /\ a.at = "insert"
  /\ adding' = [adding EXCEPT ![c] = NotAdding]
  /\ \/ /\ FavSucceeds
        /\ IF \E e \in entries : e.key = a.key /\ e.user = a.user
           THEN UNCHANGED <<entries, owed>>
           ELSE /\ entries' = entries \cup
                     {[id |-> a.id, user |-> a.user, key |-> a.key, magnet |-> a.magnet]}
                /\ owed' = owed \cup {<<a.user, a.key>>}
     \/ /\ FavFails
        /\ owed' = owed \ {<<a.user, a.key>>}
        /\ UNCHANGED entries
  /\ UNCHANGED made

(* RemoveFavorite: one entry of those the user may own, whichever it is. *)
RemoveFavorite(u, k) ==
  /\ \E readable \in BOOLEAN :
       /\ IF readable THEN FavSucceeds ELSE FavFails
       /\ \E e \in entries :
            /\ e.key = k /\ e.user \in IdsOf(u, readable)
            /\ entries' = entries \ {e}
  /\ owed' = owed \ {<<u, k>>}
  /\ UNCHANGED <<adding, made>>

(* StoreMagnetLink of a favorite: UpdateFavoriteEntryMagnetLink, by entry and    *)
(* user.                                                                         *)
StoreMagnet(u, e, m) ==
  /\ e.user = u
  /\ entries' = (entries \ {e}) \cup {[e EXCEPT !.magnet = m]}
  /\ UNCHANGED <<adding, made, owed, favFaults>>

(* GetFavorites, CheckFavorite, and the removal of what is not there change     *)
(* nothing.                                                                      *)
ReadFavorites == UNCHANGED favVars

FavNext ==
  \/ \E c \in Calls :
       \/ \E u \in People, k \in Torrents, m \in Magnets : DeleteOld(c, u, k, m)
       \/ InsertNew(c)
  \/ \E u \in People :
       \/ \E k \in Torrents : RemoveFavorite(u, k)
       \/ \E e \in entries, m \in Magnets \ {""} : StoreMagnet(u, e, m)
  \/ ReadFavorites

FavSpec == FavInit /\ [][FavNext]_favVars

-----------------------------------------------------------------------------
(* Reading: fetchFavoriteRows keeps the newest of the entries with one magnet,  *)
(* and every entry that has none.                                               *)
Found(u) == {e \in entries : e.user \in IdsOf(u, TRUE)}
SameItem(e, f) == e = f \/ (e.magnet # "" /\ e.magnet = f.magnet)
Listed(u) == {e \in Found(u) : ~\E f \in Found(u) : SameItem(e, f) /\ f.id > e.id}

(* IsFavoriteForUserIDs. *)
IsFavorite(u, k) == \E e \in Found(u) : e.key = k

-----------------------------------------------------------------------------
(* Every variable has its type, and nobody has two entries for a torrent. *)
FavTypeOK ==
  /\ entries \subseteq Entry
  /\ \A e, f \in entries : e.user = f.user /\ e.key = f.key => e = f
  /\ \A c \in Calls : adding[c] = NotAdding \/ adding[c].user \in People
  /\ made \in 0 .. MaxEntries
  /\ owed \subseteq People \X Torrents
  /\ favFaults \in 0 .. FavFaults

(* A favorite that was added with success is found, and listed under its own    *)
(* entry or a newer one with its magnet, until its user removes it: whatever     *)
(* other users and concurrent requests do, and except while a second addition of *)
(* it is between its two calls.                                                  *)
AddedIsKept ==
  \A u \in People, k \in Torrents : <<u, k>> \in owed =>
    \/ \E c \in Calls : adding[c] # NotAdding /\ adding[c].user = u /\ adding[c].key = k
    \/ /\ IsFavorite(u, k)
       /\ \E e \in Found(u) : e.key = k /\ \E f \in Listed(u) : SameItem(e, f)
=============================================================================
