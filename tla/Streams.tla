------------------------------ MODULE Streams ------------------------------
(***************************************************************************)
(* The stream service (src/internal/services/streams/service.go): a request *)
(* races the providers it asks for under a semaphore, may be answered early *)
(* when the core timer fires, is cut off at the hard timeout or when its    *)
(* client leaves, and leaves its answer in a cache shared by all requests.  *)
(* The requests here are for one title; its metadata, and whether a title   *)
(* fits it, are data.                                                       *)
(***************************************************************************)
EXTENDS Integers, FiniteSets, FiniteSetsExt, SequencesExt

CONSTANTS
  Requests,    (* the requests in flight                                        *)
  Providers,   (* the registered providers, of the profiles below               *)
  Lists,       (* the provider lists that callers send, {} for none             *)
  Hashes,      (* the info hashes that P2P providers list                       *)
  Misfits,     (* the streams whose title does not fit                          *)
  Concurrency, (* calls at a time, per request                                  *)
  MinResults   (* results needed for an early answer                            *)

VARIABLES
  at,          (* per request, where Scrape is                                  *)
  asked,       (* per request, its provider list                                *)
  call,        (* per request and provider, the goroutine                       *)
  found,       (* per request and provider, its share of collected              *)
  pendingCore, (* per request, state.pendingCore                                *)
  timed,       (* per request, whether the core timer has fired                 *)
  gone,        (* per request, whether the client has left                      *)
  answer,      (* per request, what Scrape returned                             *)
  cached,      (* per request, whether the answer came from the cache           *)
  cache        (* the Redis entries of the title, per provider list             *)

callVars == <<call, found, pendingCore>>
vars == <<at, asked, callVars, timed, gone, answer, cached, cache>>

-----------------------------------------------------------------------------
(* The providers that main registers.  kind: what they list; core: whether an  *)
(* early answer waits for them; quiet: whether their failing calls read as an  *)
(* empty result.                                                               *)
Knaben == [id |-> "knaben", kind |-> "p2p", core |-> TRUE, quiet |-> TRUE]
AtishMKV == [id |-> "atishmkv", kind |-> "http", core |-> TRUE, quiet |-> TRUE]
Nyaa == [id |-> "nyaa", kind |-> "p2p", core |-> FALSE, quiet |-> FALSE]
SubsPlease == [Nyaa EXCEPT !.id = "subsplease"]
AnimeTosho == [Nyaa EXCEPT !.id = "animetosho"]
Nekobt == [Nyaa EXCEPT !.id = "nekobt"]

(* A stream: an info hash, or none for a direct URL, and the provider's id. *)
NoHash == "none"
Stream == [hash : Hashes \cup {NoHash}, by : {p.id : p \in Providers}]
Offers(p) == [hash : IF p.kind = "p2p" THEN Hashes ELSE {NoHash}, by : {p.id}]
P2P(S) == {s \in S : s.hash # NoHash}
HashesOf(S) == {s.hash : s \in P2P(S)}

(* filterProviders. *)
Selected(list) == IF list = {} THEN Providers ELSE {p \in Providers : p.id \in list}
CoreOf(list) == {p \in Selected(list) : p.core}

Collected(r) == UNION {found[r][p] : p \in Providers}
CollectedLen(r) == MapThenSumSet(LAMBDA p : Cardinality(found[r][p]), Providers)
Working(r) == {p \in Providers : call[r][p] \in {"queued", "running"}}

Idle == [p \in Providers |-> "none"]
Nothing == [p \in Providers |-> {}]
NoEntry == {[hash |-> NoHash, by |-> "none"]}

Init ==
  /\ at = [r \in Requests |-> "idle"]
  /\ asked = [r \in Requests |-> {}]
  /\ call = [r \in Requests |-> Idle]
  /\ found = [r \in Requests |-> Nothing]
  /\ pendingCore = [r \in Requests |-> 0]
  /\ timed = [r \in Requests |-> FALSE]
  /\ gone = [r \in Requests |-> FALSE]
  /\ answer = [r \in Requests |-> {}]
  /\ cached = [r \in Requests |-> FALSE]
  /\ cache = [list \in Lists |-> NoEntry]

Goto(r, place) == at' = [at EXCEPT ![r] = place]

-----------------------------------------------------------------------------
(* deduplicate: one stream per info hash. *)
IsDeduped(S, D) ==
  /\ D \subseteq S /\ HashesOf(D) = HashesOf(S)
  /\ \A s, t \in P2P(D) : s.hash = t.hash => s = t
  /\ S \ P2P(S) \subseteq D

(* filterByContent, and preferP2P: beside P2P streams only the core providers' *)
(* direct URLs stay.                                                           *)
Fitting(S) == S \ Misfits
Preferred(S, list) ==
  IF P2P(S) = {} THEN S ELSE {s \in S : s.hash # NoHash \/ \E p \in CoreOf(list) : p.id = s.by}

-----------------------------------------------------------------------------
(* Scrape, until the race.  A failing cache read is a miss.  (OneKey: a bug    *)
(* that leaves the provider list out of the key.)                              *)
OneKey(list) == CHOOSE k \in Lists : TRUE
Key(list) == list

Hits(r, list) ==
  /\ cache[Key(list)] # NoEntry
  /\ answer' = [answer EXCEPT ![r] = cache[Key(list)]]
  /\ cached' = [cached EXCEPT ![r] = TRUE]
  /\ Goto(r, "answered")

Misses(r) ==
  /\ Goto(r, "resolving")
  /\ cached' = [cached EXCEPT ![r] = FALSE]
  /\ UNCHANGED answer

Ask(r) ==
  /\ at[r] = "idle"
  /\ \E list \in Lists :
       /\ asked' = [asked EXCEPT ![r] = list]
       /\ Hits(r, list) \/ Misses(r)
  /\ call' = [call EXCEPT ![r] = Idle]
  /\ found' = [found EXCEPT ![r] = Nothing]
  /\ UNCHANGED <<pendingCore, timed, gone, cache>>

Unresolved(r) ==
  /\ at[r] = "resolving" /\ Goto(r, "failed")
  /\ UNCHANGED <<asked, callVars, timed, gone, answer, cached, cache>>

NoneSelected(r) ==
  /\ at[r] = "resolving" /\ Selected(asked[r]) = {}
  /\ Goto(r, "answered")
  /\ answer' = [answer EXCEPT ![r] = {}]
  /\ UNCHANGED <<asked, callVars, timed, gone, cached, cache>>

(* runProviders, to its select. *)
Race(r) ==
  /\ at[r] = "resolving" /\ Selected(asked[r]) # {}
  /\ Goto(r, "racing")
  /\ call' = [call EXCEPT ![r] =
       [p \in Providers |-> IF p \in Selected(asked[r]) THEN "queued" ELSE "none"]]
  /\ pendingCore' = [pendingCore EXCEPT ![r] = Cardinality(CoreOf(asked[r]))]
  /\ UNCHANGED <<asked, found, timed, gone, answer, cached, cache>>

-----------------------------------------------------------------------------
(* A provider's goroutine. *)

(* The semaphore's holders.  (Leaked: a bug that leaves a failing call its slot.) *)
Leaked(r) == {q \in Providers : call[r][q] \in {"running", "failed"}}
Holding(r) == {q \in Providers : call[r][q] = "running"}

TakeSlot(r, p) ==
  /\ call[r][p] = "queued"
  /\ Cardinality(Holding(r)) < Concurrency
  /\ call' = [call EXCEPT ![r][p] = "running"]
  /\ UNCHANGED <<at, asked, found, pendingCore, timed, gone, answer, cached, cache>>

(* (AnyCounts: a bug that lets every provider count as a core one.) *)
AnyCounts(p) == 1
Counts(p) == IF p.core THEN 1 ELSE 0

(* A quiet provider's failure is the empty result. *)
Delivers(r, p) ==
  /\ call[r][p] = "running"
  /\ \E results \in SUBSET Offers(p) : found' = [found EXCEPT ![r][p] = results]
  /\ call' = [call EXCEPT ![r][p] = "done"]
  /\ pendingCore' = [pendingCore EXCEPT ![r] = @ - Counts(p)]
  /\ UNCHANGED <<at, asked, timed, gone, answer, cached, cache>>

Errs(r, p) ==
  /\ call[r][p] = "running" /\ ~p.quiet
  /\ call' = [call EXCEPT ![r][p] = "failed"]
  /\ UNCHANGED <<at, asked, found, pendingCore, timed, gone, answer, cached, cache>>

-----------------------------------------------------------------------------
(* The select.  "draining" is the wait for the goroutines that follows a       *)
(* cancelled or expired context.                                               *)

Ready(r) == CollectedLen(r) >= MinResults /\ pendingCore[r] <= 0

(* The core timer fires once: a request that is not ready waits for the rest.  *)
CoreTimer(r) ==
  /\ at[r] = "racing" /\ ~timed[r]
  /\ timed' = [timed EXCEPT ![r] = TRUE]
  /\ Goto(r, IF Ready(r) THEN "draining" ELSE "racing")
  /\ UNCHANGED <<asked, callVars, gone, answer, cached, cache>>

(* The hard timeout, or the client leaves. *)
ContextOver(r) ==
  /\ at[r] = "racing" /\ Goto(r, "draining")
  /\ \E left \in BOOLEAN : gone' = [gone EXCEPT ![r] = left]
  /\ UNCHANGED <<asked, callVars, timed, answer, cached, cache>>

(* (Hasty: a bug that does not wait for the goroutines of a cancelled context.) *)
Hasty(r) == at[r] = "draining" \/ (at[r] = "racing" /\ Working(r) = {})
Drained(r) == at[r] \in {"racing", "draining"} /\ Working(r) = {}

(* storeCache: an empty answer is not stored; the write fails once the client  *)
(* has left, and is ignored.                                                   *)
Store(r, result) ==
  IF result = {} \/ gone[r]
  THEN UNCHANGED cache
  ELSE cache' \in {cache, [cache EXCEPT ![Key(asked[r])] = result]}

Answer(r) ==
  /\ Drained(r)
  /\ \E D \in SUBSET Collected(r) :
       /\ IsDeduped(Collected(r), D)
       /\ answer' = [answer EXCEPT ![r] = Preferred(Fitting(D), asked[r])]
       /\ Store(r, Preferred(Fitting(D), asked[r]))
  /\ Goto(r, "answered")
  /\ pendingCore' = [pendingCore EXCEPT ![r] = 0]
  /\ timed' = [timed EXCEPT ![r] = FALSE]
  /\ gone' = [gone EXCEPT ![r] = FALSE]
  /\ UNCHANGED <<asked, call, found, cached>>

(* The TTL of an entry runs out. *)
Expire(list) ==
  /\ cache[list] # NoEntry
  /\ cache' = [cache EXCEPT ![list] = NoEntry]
  /\ UNCHANGED <<at, asked, callVars, timed, gone, answer, cached>>

CallStep(r, p) == TakeSlot(r, p) \/ Delivers(r, p) \/ Errs(r, p)
Resolve(r) == Unresolved(r) \/ NoneSelected(r) \/ Race(r)

Next ==
  \/ \E r \in Requests :
       \/ Ask(r) \/ Resolve(r) \/ CoreTimer(r) \/ ContextOver(r) \/ Answer(r)
       \/ \E p \in Providers : CallStep(r, p)
  \/ \E list \in Lists : Expire(list)

Spec == Init /\ [][Next]_vars

(* Fairness: the metadata client and the hard timeout bound the waits, and a   *)
(* provider's call ends once its context is over; before that it may hang.     *)
FairSpec ==
  /\ Spec
  /\ \A r \in Requests :
       /\ WF_vars(Resolve(r)) /\ WF_vars(ContextOver(r)) /\ WF_vars(Answer(r))
       /\ \A p \in Providers : WF_vars(at[r] = "draining" /\ CallStep(r, p))

-----------------------------------------------------------------------------
(* Types; and pendingCore is what it counts. *)
TypeOK ==
  /\ \A r \in Requests :
       /\ at[r] \in {"idle", "resolving", "racing", "draining", "answered", "failed"}
       /\ asked[r] \in Lists \cup {{}} /\ answer[r] \subseteq Stream
       /\ \A p \in Providers :
            /\ call[r][p] \in {"none", "queued", "running", "done", "failed"}
            /\ found[r][p] \subseteq Offers(p)
       /\ {timed[r], gone[r], cached[r]} \subseteq BOOLEAN
       /\ at[r] \in {"racing", "draining"}
            => pendingCore[r] = Cardinality({p \in CoreOf(asked[r]) : call[r][p] # "done"})
  /\ \A list \in Lists : cache[list] = NoEntry \/ cache[list] \subseteq Stream

(* The answer to a scrape is whole: it has one stream for each info hash that   *)
(* any provider delivered, if the copy that deduplicate kept fits, and the      *)
(* direct URLs that preferP2P keeps, and it stays so, since no goroutine adds   *)
(* to collected behind its back, however the race ended.                        *)
AnswerIsWhole ==
  \A r \in Requests : (at[r] = "answered" /\ ~cached[r]) =>
    \E D \in SUBSET Collected(r) :
      IsDeduped(Collected(r), D) /\ answer[r] = Preferred(Fitting(D), asked[r])

(* A request gets streams only of the providers it asked for, though answers    *)
(* are shared through the cache.                                                *)
OnlyAsked ==
  \A r \in Requests : at[r] = "answered" =>
    \A s \in answer[r] : \E p \in Selected(asked[r]) : s.by = p.id

(* Every request ends, though providers hang until their context is over, queue *)
(* for the semaphore or fail.                                                   *)
EveryRequestEnds ==
  \A r \in Requests : (at[r] = "resolving") ~> (at[r] \in {"answered", "failed"})
=============================================================================
