---------------------------- MODULE StreamsProofs ----------------------------
(* Whole answers, and answers only of the providers asked for, proved for any   *)
(* number of requests, providers, provider lists and slots.                     *)
EXTENDS Streams, TLAPS

(* The inductive invariant: no goroutine is left once Scrape has returned, and  *)
(* whatever was found, answered or cached under a list comes of its providers.  *)
Of(S, list) == \A s \in S : \E p \in Selected(list) : s.by = p.id

Places == {"idle", "resolving", "racing", "draining", "answered", "failed"}
Calls == {"none", "queued", "running", "done", "failed"}

Shape ==
  /\ at \in [Requests -> Places] /\ cached \in [Requests -> BOOLEAN]
  /\ asked \in [Requests -> Lists \cup {{}}]
  /\ call \in [Requests -> [Providers -> Calls]]
  /\ found \in [Requests -> [Providers -> SUBSET Stream]]
  /\ answer \in [Requests -> SUBSET Stream]
  /\ cache \in [Lists -> (SUBSET Stream) \cup {NoEntry}]

(* One request's part. *)
Quiet(r) == \A p \in Providers : call[r][p] \notin {"queued", "running"}
Own(r) ==
  \A p \in Providers :
    /\ call[r][p] \in {"queued", "running"} => p \in Selected(asked[r])
    /\ Of(found[r][p], asked[r])
Whole(r) ==
  \E D \in SUBSET Collected(r) :
    IsDeduped(Collected(r), D) /\ answer[r] = Preferred(Fitting(D), asked[r])

Sound(r) ==
  /\ Own(r)
  /\ at[r] \notin {"racing", "draining"} => Quiet(r)
  /\ at[r] \in {"idle", "resolving"} => found[r] = Nothing
  /\ (at[r] = "answered" /\ ~cached[r]) => Whole(r)
  /\ at[r] = "answered" => Of(answer[r], asked[r])

Entries == \A list \in Lists : cache[list] = NoEntry \/ Of(cache[list], list)

IInv == Shape /\ Entries /\ \A r \in Requests : Sound(r)

(* Every found stream is of a selected provider, so is the answer. *)
LEMMA AnswerOf ==
  ASSUME NEW r, Own(r), NEW D \in SUBSET Collected(r)
  PROVE  Of(Preferred(Fitting(D), asked[r]), asked[r])
<1>1. Preferred(Fitting(D), asked[r]) \subseteq Collected(r)
  BY DEF Preferred, Fitting
<1>2. Of(Collected(r), asked[r])
  BY DEF Own, Of, Collected
<1> QED
  BY <1>1, <1>2 DEF Of

(* Init establishes the invariant. *)
LEMMA InitIInv == Init => IInv
<1> SUFFICES ASSUME Init PROVE IInv
  OBVIOUS
<1>1. at \in [Requests -> Places] /\ cached \in [Requests -> BOOLEAN]
  BY DEF Init, Places
<1>2. asked \in [Requests -> Lists \cup {{}}]
  BY DEF Init
<1>3. call \in [Requests -> [Providers -> Calls]]
  BY DEF Init, Idle, Calls
<1>4. found \in [Requests -> [Providers -> SUBSET Stream]]
  BY DEF Init, Nothing
<1>5. answer \in [Requests -> SUBSET Stream]
  BY DEF Init
<1>6. cache \in [Lists -> (SUBSET Stream) \cup {NoEntry}]
  BY DEF Init
<1>7. Shape
  BY <1>1, <1>2, <1>3, <1>4, <1>5, <1>6 DEF Shape
<1>8. Entries /\ \A r \in Requests : Sound(r)
  BY DEF Init, Entries, Sound, Own, Quiet, Of, Idle, Nothing
<1> QED
  BY <1>7, <1>8 DEF IInv

(* A step that leaves a request alone keeps its part. *)
LEMMA Untouched ==
  ASSUME NEW r, Sound(r), at'[r] = at[r], asked'[r] = asked[r], call'[r] = call[r],
         found'[r] = found[r], answer'[r] = answer[r], cached'[r] = cached[r]
  PROVE  Sound(r)'
  BY DEF Sound, Own, Quiet, Whole, Of, Collected

(* Ask. *)
LEMMA AskKeeps ==
  ASSUME IInv, NEW r \in Requests, Ask(r)
  PROVE  IInv'
<1> USE DEF IInv
<1>1. Shape'
  <2>1. PICK list \in Lists : asked' = [asked EXCEPT ![r] = list] /\ (Hits(r, list) \/ Misses(r))
    BY DEF Ask
  <2>2. at' \in [Requests -> Places] /\ cached' \in [Requests -> BOOLEAN]
    BY <2>1 DEF Hits, Misses, Goto, Shape, Places
  <2>3. answer' \in [Requests -> SUBSET Stream]
    BY <2>1 DEF Hits, Misses, Key, Shape
  <2>4. call' \in [Requests -> [Providers -> Calls]]
    BY DEF Ask, Idle, Calls, Shape
  <2>5. found' \in [Requests -> [Providers -> SUBSET Stream]]
    BY DEF Ask, Nothing, Shape
  <2>6. asked' \in [Requests -> Lists \cup {{}}]
    BY <2>1 DEF Shape
  <2>7. cache' = cache
    BY DEF Ask
  <2> QED
    BY <2>2, <2>3, <2>4, <2>5, <2>6, <2>7 DEF Shape
<1>4. Entries'
  BY DEF Ask, Entries, Of
<1>2. ASSUME NEW q \in Requests, q # r
      PROVE  Sound(q)'
  BY <1>2, Untouched DEF Ask, Hits, Misses, Goto, Shape
<1>3. Sound(r)'
  <2>1. PICK list \in Lists : asked' = [asked EXCEPT ![r] = list] /\ (Hits(r, list) \/ Misses(r))
    BY DEF Ask
  <2>2. asked'[r] = list /\ call'[r] = Idle /\ found'[r] = Nothing
    BY <2>1 DEF Ask, Shape
  <2>3. Own(r)' /\ Quiet(r)'
    BY <2>2 DEF Own, Quiet, Of, Idle, Nothing
  <2>4. CASE Hits(r, list)
    <3>1. at'[r] = "answered" /\ cached'[r] = TRUE /\ answer'[r] = cache[list]
      BY <2>4 DEF Hits, Goto, Shape, Key
    <3>2. Of(cache[list], list)
      BY <2>4 DEF Hits, Key, Entries
    <3> QED
      BY <2>2, <2>3, <3>1, <3>2 DEF Sound, Of
  <2>5. CASE Misses(r)
    <3>1. at'[r] = "resolving"
      BY <2>5 DEF Misses, Goto, Shape
    <3> QED
      BY <2>2, <2>3, <3>1 DEF Sound
  <2> QED
    BY <2>1, <2>4, <2>5
<1> QED
  BY <1>1, <1>2, <1>3, <1>4

(* The end of the metadata lookup. *)
LEMMA ResolveKeeps ==
  ASSUME IInv, NEW r \in Requests, Resolve(r)
  PROVE  IInv'
<1> USE DEF IInv
<1>0. at[r] = "resolving" /\ Quiet(r) /\ Own(r) /\ found[r] = Nothing
  BY DEF Resolve, Unresolved, NoneSelected, Race, Sound
<1>1. Shape' /\ Entries'
  <2>1. UNCHANGED <<asked, found, cached, cache>>
    BY DEF Resolve, Unresolved, NoneSelected, Race, callVars
  <2>2. at' \in [Requests -> Places]
    BY DEF Resolve, Unresolved, NoneSelected, Race, Goto, Shape, Places
  <2>3. answer' \in [Requests -> SUBSET Stream]
    BY DEF Resolve, Unresolved, NoneSelected, Race, Shape
  <2>4. call' \in [Requests -> [Providers -> Calls]]
    BY DEF Resolve, Unresolved, NoneSelected, Race, Shape, Calls, callVars
  <2> QED
    BY <2>1, <2>2, <2>3, <2>4 DEF Shape, Entries, Of
<1>2. ASSUME NEW q \in Requests, q # r
      PROVE  Sound(q)'
  BY <1>2, Untouched DEF Resolve, Unresolved, NoneSelected, Race, Goto, Shape, callVars
<1>3. CASE Unresolved(r)
  <2>1. at'[r] = "failed" /\ UNCHANGED <<asked, call, found>>
    BY <1>3 DEF Unresolved, Goto, Shape, callVars
  <2> QED
    BY <1>0, <1>1, <1>2, <2>1 DEF Sound, Own, Quiet, Of
<1>4. CASE NoneSelected(r)
  <2>1. at'[r] = "answered" /\ answer'[r] = {} /\ UNCHANGED <<asked, call, found, cached>>
    BY <1>4 DEF NoneSelected, Goto, Shape, callVars
  <2>2. Collected(r)' = {}
    BY <1>0, <2>1 DEF Collected, Nothing
  <2>3. Whole(r)'
    BY <2>1, <2>2 DEF Whole, IsDeduped, P2P, HashesOf, Preferred, Fitting
  <2> QED
    BY <1>0, <1>1, <1>2, <2>1, <2>3 DEF Sound, Own, Quiet, Of
<1>5. CASE Race(r)
  <2>1. at'[r] = "racing" /\ UNCHANGED <<asked, found>>
    BY <1>5 DEF Race, Goto, Shape
  <2>2. call'[r] = [p \in Providers |-> IF p \in Selected(asked[r]) THEN "queued" ELSE "none"]
    BY <1>5 DEF Race, Shape
  <2>3. Own(r)'
    BY <1>0, <2>1, <2>2 DEF Own, Of, Selected
  <2> QED
    BY <1>1, <1>2, <2>1, <2>3 DEF Sound
<1> QED
  BY <1>3, <1>4, <1>5 DEF Resolve

(* A provider's goroutine: it runs only while the request waits for it. *)
LEMMA CallKeeps ==
  ASSUME IInv, NEW r \in Requests, NEW p \in Providers, CallStep(r, p)
  PROVE  IInv'
<1> USE DEF IInv
<1>0. at[r] \in {"racing", "draining"} /\ p \in Selected(asked[r])
  BY DEF CallStep, TakeSlot, Delivers, Errs, Sound, Quiet, Own
<1>1. Entries' /\ UNCHANGED <<at, asked, answer, cached, cache>>
  BY DEF CallStep, TakeSlot, Delivers, Errs, Entries, Of
<1>2. Shape'
  <2>1. PICK place \in Calls : call' = [call EXCEPT ![r][p] = place]
    BY DEF CallStep, TakeSlot, Delivers, Errs, Calls
  <2>2. call' \in [Requests -> [Providers -> Calls]]
    <3>1. call[r] \in [Providers -> Calls]
      BY DEF Shape
    <3>2. [call[r] EXCEPT ![p] = place] \in [Providers -> Calls]
      BY <3>1
    <3> QED
      BY <2>1, <3>2 DEF Shape
  <2>3. found' \in [Requests -> [Providers -> SUBSET Stream]]
    <3>1. Offers(p) \subseteq Stream
      BY DEF Offers, Stream
    <3>2. CASE found' = found
      BY <3>2 DEF Shape
    <3>3. ASSUME NEW results \in SUBSET Offers(p), found' = [found EXCEPT ![r][p] = results]
          PROVE  found' \in [Requests -> [Providers -> SUBSET Stream]]
      <4>1. [found[r] EXCEPT ![p] = results] \in [Providers -> SUBSET Stream]
        BY <3>1 DEF Shape
      <4> QED
        BY <3>3, <4>1 DEF Shape
    <3> QED
      BY <3>2, <3>3 DEF CallStep, TakeSlot, Delivers, Errs
  <2> QED
    BY <1>1, <2>2, <2>3 DEF Shape
<1>3. ASSUME NEW q \in Requests, q # r
      PROVE  Sound(q)'
  BY <1>3, Untouched DEF CallStep, TakeSlot, Delivers, Errs, Shape
<1>4. Own(r)'
  <2>1. ASSUME NEW x \in Providers
        PROVE  call'[r][x] \in {"queued", "running"} => x \in Selected(asked[r])
    BY <1>0, <2>1 DEF CallStep, TakeSlot, Delivers, Errs, Shape, Sound, Own
  <2>2. ASSUME NEW x \in Providers
        PROVE  Of(found'[r][x], asked[r])
    <3>1. CASE found' = found
      BY <3>1, <2>2 DEF Sound, Own
    <3>2. ASSUME NEW results \in SUBSET Offers(p), found' = [found EXCEPT ![r][p] = results]
          PROVE  Of(found'[r][x], asked[r])
      <4>1. Of(results, asked[r])
        BY <1>0, <3>2 DEF Of, Offers
      <4>2. found'[r][x] = IF x = p THEN results ELSE found[r][x]
        BY <3>2, <2>2 DEF Shape
      <4> QED
        BY <4>1, <4>2, <2>2 DEF Sound, Own
    <3> QED
      BY <3>1, <3>2 DEF CallStep, TakeSlot, Delivers, Errs
  <2> QED
    BY <1>1, <2>1, <2>2 DEF Own, Of
<1> QED
  BY <1>0, <1>1, <1>2, <1>3, <1>4 DEF Sound

(* The select leaves the race. *)
LEMMA SelectKeeps ==
  ASSUME IInv, NEW r \in Requests, CoreTimer(r) \/ ContextOver(r)
  PROVE  IInv'
<1> USE DEF IInv
<1>1. Shape' /\ Entries' /\ UNCHANGED <<asked, call, found, answer, cached, cache>>
  <2>1. UNCHANGED <<asked, call, found, answer, cached, cache>>
    BY DEF CoreTimer, ContextOver, callVars
  <2>2. at' \in [Requests -> Places]
    BY DEF CoreTimer, ContextOver, Goto, Shape, Places
  <2> QED
    BY <2>1, <2>2 DEF Shape, Entries, Of
<1>2. ASSUME NEW q \in Requests, q # r
      PROVE  Sound(q)'
  BY <1>1, <1>2, Untouched DEF CoreTimer, ContextOver, Goto, Shape
<1>3. at'[r] \in {"racing", "draining"}
  BY DEF CoreTimer, ContextOver, Goto, Shape
<1>4. Sound(r)'
  BY <1>1, <1>3 DEF Sound, Own, Of
<1> QED
  BY <1>1, <1>2, <1>4

(* The answer, once every goroutine is done. *)
LEMMA AnswerKeeps ==
  ASSUME IInv, NEW r \in Requests, Answer(r)
  PROVE  IInv'
<1> USE DEF IInv
<1>1. PICK D \in SUBSET Collected(r) :
        /\ IsDeduped(Collected(r), D)
        /\ answer' = [answer EXCEPT ![r] = Preferred(Fitting(D), asked[r])]
        /\ Store(r, Preferred(Fitting(D), asked[r]))
  BY DEF Answer
<1> DEFINE result == Preferred(Fitting(D), asked[r])
<1>2. Of(result, asked[r])
  BY AnswerOf DEF Sound
<1>3. UNCHANGED <<asked, call, found, cached>> /\ at' = [at EXCEPT ![r] = "answered"]
  BY DEF Answer, Goto
<1>4. answer'[r] = result
  BY <1>1 DEF Shape
<1>5. cache' = cache \/ cache' = [cache EXCEPT ![asked[r]] = result]
  BY <1>1 DEF Store, Key
<1>10. result \subseteq Stream
  <2>1. Collected(r) \subseteq Stream
    BY DEF Collected, Shape
  <2> QED
    BY <2>1 DEF Preferred, Fitting
<1> HIDE DEF result
<1>6. Shape'
  <2>1. result \in SUBSET Stream
    BY <1>10
  <2>2. answer' \in [Requests -> SUBSET Stream] /\ at' \in [Requests -> Places]
    BY <1>1, <1>3, <2>1 DEF Shape, Places, result
  <2>3. cache' \in [Lists -> (SUBSET Stream) \cup {NoEntry}]
    BY <1>5, <2>1 DEF Shape
  <2> QED
    BY <1>3, <2>2, <2>3 DEF Shape
<1>7. Entries'
  BY <1>2, <1>5 DEF Entries, Shape, Of
<1>8. ASSUME NEW q \in Requests, q # r
      PROVE  Sound(q)'
  BY <1>1, <1>3, <1>8, Untouched DEF Shape
<1>9. Sound(r)'
  <2>1. Quiet(r)
    BY DEF Answer, Drained, Working, Quiet
  <2>2. Whole(r)'
    BY <1>1, <1>3 DEF Whole, Collected, Shape
  <2>3. Quiet(r)' /\ Own(r)' /\ at'[r] = "answered" /\ Of(answer'[r], asked'[r])
    BY <1>2, <1>3, <1>4, <2>1 DEF Sound, Quiet, Own, Of, Shape
  <2> QED
    BY <2>2, <2>3 DEF Sound, Of
<1> QED
  BY <1>6, <1>7, <1>8, <1>9

(* Every step preserves the invariant. *)
LEMMA NextIInv == IInv /\ [Next]_vars => IInv'
<1> SUFFICES ASSUME IInv, [Next]_vars PROVE IInv'
  OBVIOUS
<1>1. CASE UNCHANGED vars
  <2>1. UNCHANGED <<at, asked, call, found, answer, cached, cache>>
    BY <1>1 DEF vars, callVars
  <2>2. \A r \in Requests : Sound(r)'
    BY <2>1, Untouched DEF IInv
  <2> QED
    BY <2>1, <2>2 DEF IInv, Shape, Entries, Of
<1>2. ASSUME NEW list \in Lists, Expire(list)
      PROVE  IInv'
  <2>1. UNCHANGED <<at, asked, call, found, answer, cached>>
    BY <1>2 DEF Expire, callVars
  <2>2. \A r \in Requests : Sound(r)'
    BY <2>1, Untouched DEF IInv
  <2>3. cache' = [cache EXCEPT ![list] = NoEntry]
    BY <1>2 DEF Expire
  <2> QED
    BY <2>1, <2>2, <2>3 DEF IInv, Shape, Entries, Of
<1> QED
  BY <1>1, <1>2, AskKeeps, ResolveKeeps, CallKeeps, SelectKeeps, AnswerKeeps DEF Next

(* The invariant holds throughout. *)
LEMMA Inductive == Spec => []IInv
  BY InitIInv, NextIInv, PTL DEF Spec

(* A scrape's answer is whole and stays so: Scrape returns only after every     *)
(* goroutine of runProviders is done.                                          *)
THEOREM AnswersAreWhole == Spec => []AnswerIsWhole
<1>1. IInv => AnswerIsWhole
  BY DEF IInv, Sound, Whole, AnswerIsWhole
<1> QED
  BY <1>1, Inductive, PTL

(* A request gets streams only of the providers it asked for, whether scraped   *)
(* or taken from the shared cache.                                             *)
THEOREM AnswersAreAskedFor == Spec => []OnlyAsked
<1>1. IInv => OnlyAsked
  BY DEF IInv, Sound, Of, OnlyAsked
<1> QED
  BY <1>1, Inductive, PTL
=============================================================================
