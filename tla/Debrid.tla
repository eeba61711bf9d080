------------------------------- MODULE Debrid -------------------------------
(***************************************************************************)
(* Refreshing the stream address of a magnet through Real-Debrid           *)
(* (services/realdebrid/client.go, jobs/runner.go, handlers/cache.go,      *)
(* pkg/mongo/data.go).  A refresh adds the magnet to the account of the    *)
(* user, selects its largest video, waits for a link, and asks for its      *)
(* address, which is stored.  It is tried three times; a later try first    *)
(* removes what the earlier ones left.  A job refreshes all the favorites,  *)
(* beside the users who refresh one of them, in the same account.            *)
(***************************************************************************)
EXTENDS Integers, FiniteSets, Sequences

CONSTANTS
  Magnet,        (* the magnets                                                  *)
  Favs,          (* the favorites of the job: [magnet, keyed], keyed if the owner *)
                 (* has an API key that can be read                              *)
  MaxRetries,    (* maxRefreshRetries                                            *)
  MaxTorrents,   (* bound on the torrents ever added                             *)
  MaxRequests    (* bound on the users' own refreshes                            *)

ASSUME DebridAssumption ==
  /\ Favs \in Seq([magnet : Magnet, keyed : BOOLEAN])
  /\ MaxRetries \in Nat \ {0}
ASSUME DebridBounds == MaxTorrents \in Nat /\ MaxRequests \in Nat

VARIABLES
  account,   (* the torrents in the account at Real-Debrid                      *)
  added,     (* torrents added so far                                           *)
  refresh,   (* per caller, "job" and "user", the refresh it makes, or NoRefresh *)
  walk,      (* the job: the next favorite, and its counts                      *)
  cached,    (* the magnets with a stored stream address                         *)
  requests,  (* the users' refreshes so far                                     *)
  deleteLost (* history: callers one of whose deletions or listings failed       *)

debridVars == <<account, added, refresh, walk, cached, requests, deleteLost>>

Callers == {"job", "user"}
NoRefresh == [at |-> "none"]
NoWalk == [next |-> 0, refreshed |-> 0, skipped |-> 0, failed |-> 0]

DebridInit ==
  /\ account = {}
  /\ added = 0
  /\ refresh = [c \in Callers |-> NoRefresh]
  /\ walk = NoWalk
  /\ cached = {}
  /\ requests = 0
  /\ deleteLost = {}

-----------------------------------------------------------------------------
(* RefreshStreamURL.                                                       *)

Sets(c, next) == refresh' = [refresh EXCEPT ![c] = next]

Begun(c, m) ==
  [refresh EXCEPT ![c] = [at |-> "add", magnet |-> m, attempt |-> 1, last |-> 0, first |-> added,
                         ids |-> {}]]

(* What a try left: its error, and the torrent it knows of, or 0. *)
Retry(c, id) ==
  LET r == refresh[c] IN
  Sets(c, [r EXCEPT !.at = "clear", !.attempt = @ + 1, !.last = IF id # 0 THEN id ELSE @])
Finish(c, outcome) == Sets(c, [refresh[c] EXCEPT !.at = outcome])

(* isTransientError: a rate limit, an error of the server, a timeout, and a      *)
(* torrent that has no files, video or link yet.                                 *)
Fails(c, id) ==
  \/ refresh[c].attempt < MaxRetries /\ Retry(c, id)
  \/ Finish(c, "failed")

(* deleteTorrent of what the last try knows of; its error is ignored. *)
ClearLast(c) ==
  /\ refresh[c].at = "clear"
  /\ Sets(c, [refresh[c] EXCEPT !.at = "list"])
  /\ \/ account' = {t \in account : t.id # refresh[c].last} /\ UNCHANGED deleteLost
     \/ UNCHANGED account /\ deleteLost' = deleteLost \cup {c}
  /\ UNCHANGED <<added, walk, cached, requests>>

(* deleteExistingTorrentByHash: of the torrents listed, those of the magnet.     *)
(* (SweepsNothing: a bug that trusts the id of the last try alone.)              *)
SweepsNothing(m) == {}
Swept(m) == {t.id : t \in {x \in account : x.magnet = m}}

ListTorrents(c) ==
  /\ refresh[c].at = "list"
  /\ \/ /\ Sets(c, [refresh[c] EXCEPT !.at = "sweep", !.ids = Swept(refresh[c].magnet)])
        /\ UNCHANGED deleteLost
     \/ /\ Sets(c, [refresh[c] EXCEPT !.at = "add"])
        /\ deleteLost' = deleteLost \cup {c}
  /\ UNCHANGED <<account, added, walk, cached, requests>>

SweepTorrents(c) ==
  /\ refresh[c].at = "sweep"
  /\ LET r == refresh[c] IN
     /\ IF r.ids = {}
        THEN /\ Sets(c, [r EXCEPT !.at = "add"])
             /\ UNCHANGED <<account, deleteLost>>
        ELSE \E i \in r.ids :
               /\ Sets(c, [r EXCEPT !.ids = @ \ {i}])
               /\ \/ account' = {t \in account : t.id # i} /\ UNCHANGED deleteLost
                  \/ UNCHANGED account /\ deleteLost' = deleteLost \cup {c}
  /\ UNCHANGED <<added, walk, cached, requests>>

(* addMagnet.  An answer that is lost leaves a torrent the caller knows nothing  *)
(* of.                                                                           *)
AddMagnet(c) ==
  /\ refresh[c].at = "add"
  /\ LET t == [id |-> added + 1, magnet |-> refresh[c].magnet, by |-> c] IN
     \/ /\ added < MaxTorrents
        /\ account' = account \cup {t}
        /\ added' = added + 1
        /\ \/ Sets(c, [refresh[c] EXCEPT !.at = "select", !.last = t.id])
           \/ Fails(c, 0)
     \/ Fails(c, 0) /\ UNCHANGED <<account, added>>
  /\ UNCHANGED <<walk, cached, requests, deleteLost>>

(* info, selectFiles, pollTorrentLinks, unrestrict and validateStreamURL: a       *)
(* torrent that another caller has deleted answers 404, which is not transient.  *)
Resolve(c) ==
  /\ refresh[c].at = "select"
  /\ LET id == refresh[c].last IN
     \/ (\E t \in account : t.id = id) /\ (Finish(c, "ok") \/ Fails(c, id))
     \/ (\A t \in account : t.id # id) /\ Finish(c, "failed")
  /\ UNCHANGED <<account, added, walk, cached, requests, deleteLost>>

-----------------------------------------------------------------------------
(* The callers.                                                            *)

(* RefreshStreamURL of the handlers: the address is stored if it can be. *)
UserRefresh(m) ==
  /\ refresh["user"] = NoRefresh
  /\ requests < MaxRequests /\ requests' = requests + 1
  /\ refresh' = Begun("user", m)
  /\ deleteLost' = deleteLost \ {"user"}
  /\ UNCHANGED <<account, added, walk, cached>>

UserAnswered ==
  /\ refresh["user"].at \in {"ok", "failed"}
  /\ Sets("user", NoRefresh)
  /\ cached' \in IF refresh["user"].at = "ok" THEN {cached, cached \cup {refresh["user"].magnet}} ELSE {cached}
  /\ UNCHANGED <<account, added, walk, requests, deleteLost>>

(* StreamURLRefresh: the favorites are read once. *)
StreamURLRefresh ==
  /\ walk.next = 0
  /\ walk' = [NoWalk EXCEPT !.next = 1]
  /\ UNCHANGED <<account, added, refresh, cached, requests, deleteLost>>

Current == Favs[walk.next]
JobFree == walk.next \in 1 .. Len(Favs) /\ refresh["job"] = NoRefresh

SkipFavorite ==
  /\ JobFree /\ ~Current.keyed
  /\ walk' = [walk EXCEPT !.next = @ + 1, !.skipped = @ + 1]
  /\ UNCHANGED <<account, added, refresh, cached, requests, deleteLost>>

RefreshFavorite ==
  /\ JobFree /\ Current.keyed
  /\ refresh' = Begun("job", Current.magnet)
  /\ deleteLost' = deleteLost \ {"job"}
  /\ UNCHANGED <<account, added, walk, cached, requests>>

(* The counts after a refresh. *)
Counted(w, ok, stored) ==
  IF ok /\ stored THEN [w EXCEPT !.refreshed = @ + 1] ELSE [w EXCEPT !.failed = @ + 1]

FavoriteDone ==
  /\ refresh["job"].at \in {"ok", "failed"}
  /\ \E stored \in BOOLEAN :
       LET ok == refresh["job"].at = "ok" IN
       /\ walk' = [Counted(walk, ok, stored) EXCEPT !.next = @ + 1]
       /\ cached' = IF ok /\ stored THEN cached \cup {refresh["job"].magnet} ELSE cached
  /\ Sets("job", NoRefresh)
  /\ UNCHANGED <<account, added, requests, deleteLost>>

(* The walk is over, or the job is stopped in one of its pauses. *)
WalkOver ==
  /\ walk.next > Len(Favs) \/ (walk.next > 1 /\ refresh["job"] = NoRefresh)
  /\ walk' = NoWalk
  /\ UNCHANGED <<account, added, refresh, cached, requests, deleteLost>>

DebridNext ==
  \/ \E c \in Callers : ClearLast(c) \/ ListTorrents(c) \/ SweepTorrents(c) \/ AddMagnet(c) \/ Resolve(c)
  \/ \E m \in Magnet : UserRefresh(m)
  \/ UserAnswered \/ StreamURLRefresh \/ SkipFavorite \/ RefreshFavorite \/ FavoriteDone \/ WalkOver

DebridSpec == DebridInit /\ [][DebridNext]_debridVars

-----------------------------------------------------------------------------
(* Every variable has its type. *)
DebridTypeOK ==
  /\ account \subseteq [id : 1 .. MaxTorrents, magnet : Magnet, by : Callers]
  /\ added \in 0 .. MaxTorrents
  /\ \A c \in Callers : refresh[c] = NoRefresh \/ refresh[c].attempt \in 1 .. MaxRetries
  /\ walk.next \in 0 .. Len(Favs) + 1
  /\ cached \subseteq Magnet
  /\ requests \in 0 .. MaxRequests
  /\ deleteLost \subseteq Callers

(* A refresh leaves at most one torrent of its own in the account, however often *)
(* it tried and whichever of its answers were lost, unless a deletion failed: the *)
(* accounts would fill up with copies otherwise.                                  *)
LeavesOne ==
  \A c \in Callers \ deleteLost :
    refresh[c].at \in {"select", "ok", "failed"} =>
      Cardinality({t \in account : t.by = c /\ t.id > refresh[c].first}) <= 1
=============================================================================
