------------------------------ MODULE Blocklist ------------------------------
(***************************************************************************)
(* The DDoS guard's blocklist (middleware/ddos.go, pkg/mongo/ip_block.go): *)
(* a map in memory that every request is checked against, and the durable  *)
(* collection blocked_ips.  A block or an unblock changes the memory under *)
(* the mutex and the collection afterwards, outside it; once a minute the  *)
(* guard reads the collection, without the mutex, and replaces the memory  *)
(* by what it read.                                                        *)
(***************************************************************************)
EXTENDS Integers, FiniteSets

CONSTANTS
  Addrs,      (* the client addresses                                           *)
  Callers,    (* the handlers and requests that change the list at a time       *)
  MaxFaults   (* bound on the failing database calls and the restarts           *)

ASSUME BlocklistAssumption == MaxFaults \in Nat

VARIABLES
  mem,      (* the addresses blocked in memory                                  *)
  db,       (* the addresses in the collection                                  *)
  pending,  (* the database writes the callers have still to do                 *)
  sync,     (* a synchronisation has read the collection: what it holds is read *)
  read,
  faults,
  quiet,    (* history: the addresses no call touched since sync read           *)
  healed    (* history: those no call touched since a sync that read them quiet *)

listVars == <<mem, db, pending, sync, read, faults, quiet, healed>>

Write == [caller : Callers, kind : {"add", "remove"}, ip : Addrs]

(* The addresses with a database write under way. *)
Touched == {w.ip : w \in pending}

(* NewDDoSGuard: an empty map, then a first sync, before requests come. *)
ListInit ==
  /\ db \in SUBSET Addrs
  /\ mem \in {db, {}}
  /\ pending = {}
  /\ sync = FALSE /\ read = {}
  /\ faults = 0
  /\ quiet = {} /\ healed = {}

Start(c, kind, i) ==
  /\ \A w \in pending : w.caller # c
  /\ pending' = pending \cup {[caller |-> c, kind |-> kind, ip |-> i]}
  /\ quiet' = quiet \ {i} /\ healed' = healed \ {i}
  /\ UNCHANGED <<db, sync, read, faults>>

(* A request trips a limit: blocked in memory, unless another request of the  *)
(* address was faster, then in the database.                                   *)
AutoBlock(c, i) ==
  /\ i \notin mem
  /\ mem' = mem \cup {i}
  /\ Start(c, "add", i)

(* The dashboard's manual block and unblock. *)
BlockIP(c, i) == mem' = mem \cup {i} /\ Start(c, "add", i)
UnblockIP(c, i) == mem' = mem \ {i} /\ Start(c, "remove", i)

(* The database write of a call: AddBlockedIP, RemoveBlockedIP.  Calls for    *)
(* one address may write in either order.  An error is answered, or ignored    *)
(* by autoBlock.                                                               *)
Written(w) == IF w.kind = "add" THEN db \cup {w.ip} ELSE db \ {w.ip}

WriteDb(w) ==
  /\ \/ db' = Written(w) /\ UNCHANGED faults
     \/ faults < MaxFaults /\ faults' = faults + 1 /\ UNCHANGED db
  /\ pending' = pending \ {w}
  /\ UNCHANGED <<mem, sync, read, quiet, healed>>

(* syncBlocklist: GetBlockedIPs, which may fail, ... *)
SyncRead ==
  /\ ~sync
  /\ \/ /\ sync' = TRUE /\ read' = db
        /\ quiet' = Addrs \ Touched
        /\ UNCHANGED faults
     \/ /\ faults < MaxFaults /\ faults' = faults + 1
        /\ UNCHANGED <<sync, read, quiet>>
  /\ UNCHANGED <<mem, db, pending, healed>>

(* ... then the new map.  (Merges: a bug that only adds to the old one;       *)
(* Keeps: one that keeps an old one that is not empty.)                        *)
Merges(new) == mem \cup new
Keeps(new) == IF mem = {} THEN new ELSE mem
Replaced(new) == new

SyncSwap ==
  /\ sync
  /\ mem' = Replaced(read)
  /\ sync' = FALSE /\ read' = {}
  /\ healed' = quiet
  /\ UNCHANGED <<db, pending, faults, quiet>>

(* The process restarts: what was under way is lost, and the first sync reads *)
(* the collection, or fails and leaves the memory empty.                       *)
Restart ==
  /\ faults < MaxFaults /\ faults' = faults + 1
  /\ \/ mem' = db /\ healed' = Addrs
     \/ mem' = {} /\ healed' = {}
  /\ pending' = {}
  /\ sync' = FALSE /\ read' = {}
  /\ quiet' = {}
  /\ UNCHANGED db

Sync == SyncRead \/ SyncSwap

ListNext ==
  \/ \E c \in Callers, i \in Addrs : AutoBlock(c, i) \/ BlockIP(c, i) \/ UnblockIP(c, i)
  \/ \E w \in pending : WriteDb(w)
  \/ Sync
  \/ Restart

ListSpec == ListInit /\ [][ListNext]_listVars

(* Database calls return, and the guard synchronises every minute.            *)
CallerWrites(c) == \E w \in pending : w.caller = c /\ WriteDb(w)

FairListSpec == ListSpec /\ WF_listVars(Sync) /\ \A c \in Callers : WF_listVars(CallerWrites(c))

-----------------------------------------------------------------------------
(* Every variable has its type, and a caller writes one thing at a time. *)
ListTypeOK ==
  /\ mem \subseteq Addrs /\ db \subseteq Addrs
  /\ pending \subseteq Write
  /\ \A w, x \in pending : w.caller = x.caller => w = x
  /\ sync \in BOOLEAN /\ read \subseteq Addrs
  /\ faults \in 0 .. MaxFaults
  /\ quiet \subseteq Addrs /\ healed \subseteq Addrs

(* One synchronisation repairs every disagreement of memory and collection    *)
(* (a failed write, two calls that wrote in the other order, a block or an     *)
(* unblock that an older reading overwrote) for the addresses nobody touches   *)
(* meanwhile.                                                                  *)
OneSyncHeals == \A i \in healed : i \in mem <=> i \in db

(* What the collection settles on is what the guard enforces in the end: an   *)
(* address that stays listed is blocked for good, one that stays off it is     *)
(* let in for good, whatever calls failed or overtook each other before.       *)
ListSettles ==
  \A i \in Addrs :
    /\ <>[](i \in db) => <>[](i \in mem)
    /\ <>[](i \notin db) => <>[](i \notin mem)
=============================================================================
