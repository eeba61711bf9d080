----------------------------- MODULE X1337Cache -----------------------------
(***************************************************************************)
(* The cache in front of 1337x (services/scraper/x1337_cache.go).  A search *)
(* or a details page is only ever answered from memory: a miss is answered  *)
(* empty and its key goes to a queue of bounded length that one worker      *)
(* empties.  pending holds the keys that are queued or being fetched, so    *)
(* that a key asked for a hundred times is fetched once.                    *)
(***************************************************************************)
EXTENDS Integers, Sequences

CONSTANTS
  Pages,       (* the keys: searches and details pages                          *)
  Nowhere,
  Callers,     (* the requests in flight                                        *)
  QueueSize,   (* x1337JobQueueSize                                             *)
  Lifetime,    (* the ttl of an entry, in ticks                                 *)
  Horizon      (* bound on the clock                                            *)

ASSUME X1337Assumption ==
  /\ Nowhere \notin Pages
  /\ QueueSize \in Nat \ {0} /\ Lifetime \in Nat /\ Horizon \in Nat

Never == -1

VARIABLES
  held,     (* when each page was stored, Never if it was not                   *)
  queue,    (* the channel of jobs                                              *)
  working,  (* the page the worker fetches, or Nowhere                          *)
  fetched,  (* its request has ended, and the entry is stored if it succeeded   *)
  waiting,  (* c.pending                                                        *)
  missed,   (* the page a caller found missing and has not scheduled yet        *)
  now

x1337Vars == <<held, queue, working, fetched, waiting, missed, now>>

X1337Init ==
  /\ held = [k \in Pages |-> Never] /\ queue = <<>> /\ working = Nowhere /\ fetched = FALSE
  /\ waiting = {} /\ missed = [c \in Callers |-> Nowhere] /\ now = 0

InMemory(k) == held[k] # Never /\ now - held[k] <= Lifetime

(* Search and GetDetails look the page up under the mutex, and let go of it: a   *)
(* hit is the answer.                                                            *)
LookUp(c, k) ==
  /\ missed[c] = Nowhere /\ ~InMemory(k)
  /\ missed' = [missed EXCEPT ![c] = k]
  /\ UNCHANGED <<held, queue, working, fetched, waiting, now>>

(* schedule: under the mutex, a key that is pending is left alone; a full queue  *)
(* drops the job without a mark, so that a later miss can queue it.              *)
MarkedFirst(k) == waiting \cup {k}     (* the mark before the select             *)
Marked(k) == IF Len(queue) < QueueSize THEN waiting \cup {k} ELSE waiting
Schedule(c) ==
  LET k == missed[c] IN
  /\ k # Nowhere
  /\ missed' = [missed EXCEPT ![c] = Nowhere]
  /\ IF k \in waiting THEN UNCHANGED <<queue, waiting>>
     ELSE /\ queue' = IF Len(queue) < QueueSize THEN Append(queue, k) ELSE queue
          /\ waiting' = Marked(k)
  /\ UNCHANGED <<held, working, fetched, now>>

(* The worker takes a job: its key stays pending.                                *)
TakeJob ==
  /\ working = Nowhere /\ queue # <<>>
  /\ working' = Head(queue) /\ queue' = Tail(queue) /\ fetched' = FALSE
  /\ UNCHANGED <<held, waiting, missed, now>>

(* Its request ends, or its 90 seconds are over: an empty or failed result is    *)
(* not stored.                                                                   *)
FetchEnds ==
  /\ working # Nowhere /\ ~fetched /\ fetched' = TRUE
  /\ \E good \in BOOLEAN : held' = IF good THEN [held EXCEPT ![working] = now] ELSE held
  /\ UNCHANGED <<queue, working, waiting, missed, now>>

Unmark ==
  /\ working # Nowhere /\ fetched
  /\ waiting' = waiting \ {working} /\ working' = Nowhere /\ fetched' = FALSE
  /\ UNCHANGED <<held, queue, missed, now>>

X1337Tick ==
  /\ now < Horizon /\ now' = now + 1
  /\ UNCHANGED <<held, queue, working, fetched, waiting, missed>>

X1337Next ==
  \/ \E c \in Callers : Schedule(c) \/ \E k \in Pages : LookUp(c, k)
  \/ TakeJob \/ FetchEnds \/ Unmark \/ X1337Tick

X1337Spec == X1337Init /\ [][X1337Next]_x1337Vars

-----------------------------------------------------------------------------
(* A queue of pages, each at most once, no longer than the channel; an entry is  *)
(* never from the future.                                                        *)
X1337TypeOK ==
  /\ queue \in Seq(Pages) /\ Len(queue) <= QueueSize
  /\ working \in Pages \cup {Nowhere} /\ fetched \in BOOLEAN
  /\ waiting \subseteq Pages /\ missed \in [Callers -> Pages \cup {Nowhere}]
  /\ now \in Nat /\ held \in [Pages -> Nat \cup {Never}]

(* A mark is a promise: every key in pending is in the queue once, or with the   *)
(* worker, and never both, and no other key is.  A mark without a job is a page  *)
(* that is never fetched again; a job without a mark is a page that is fetched   *)
(* twice (x1337_cache.go:160-197).                                               *)
MarkIsJob ==
  /\ \A k \in Pages : k \in waiting <=> k = working \/ \E i \in DOMAIN queue : queue[i] = k
  /\ \A i, j \in DOMAIN queue : queue[i] = queue[j] => i = j
  /\ \A i \in DOMAIN queue : queue[i] # working
=============================================================================
