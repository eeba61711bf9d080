---------------------------- MODULE FeedsProofs ----------------------------
(***************************************************************************)
(* The three stores that syncs fill from a feed while others write to them: *)
(* the tubes keep the detail of an entry, the PornRips walks cover the feed  *)
(* and keep the enrichment, and the enriched scenes keep their matches.      *)
(***************************************************************************)
EXTENDS FeedSync, PornripsFeed, SceneStore, FiniteSetTheorems, TLAPS

-----------------------------------------------------------------------------
(* FeedSync: the field split of listing and detail.                                *)

(* The inductive invariant: the sync never changes, so its fields stay apart,   *)
(* and entries are never removed.                                              *)
Disjoint ==
  /\ site.entry.sets \cap site.entry.enriches = {}
  /\ DOMAIN store = Post

(* Whatever a run upserts, a completed entry keeps its detail: *)
(* Upsert<Site>Entry puts the detail's fields in $setOnInsert. *)
LEMMA UpsertKeeps ==
  ASSUME Disjoint, NEW p \in Post, store[p] = Completed, NEW cards
  PROVE  Upsert(cards)[p] = Completed
<1>1. Completed # Absent
  BY DEF Completed, Absent
<1>2. Completed.detail \ site.entry.sets = Completed.detail
  BY DEF Disjoint, Completed
<1>3. [Completed EXCEPT !.detail = @ \ site.entry.sets] = Completed
  BY <1>2 DEF Completed
<1>4. Upserted(store[p]) = Completed
  BY <1>1, <1>3 DEF Upserted
<1> QED
  BY <1>4 DEF Upsert

(* Init establishes the invariant. *)
LEMMA InitDisjoint == Init => Disjoint
<1> SUFFICES ASSUME Init PROVE Disjoint
  OBVIOUS
<1>1. PICK s \in Sites, c \in PagesCaps : site = [s EXCEPT !.cap = c]
  BY DEF Init
<1>2. s \in Profile /\ s.entry.sets \cap s.entry.enriches = {}
  BY SitesAssumption
<1>3. site.entry = s.entry
  BY <1>1, <1>2 DEF Profile
<1> QED
  BY <1>2, <1>3 DEF Disjoint, Init

(* Every step preserves it. *)
LEMMA StepDisjoint == Disjoint /\ [Next]_vars => Disjoint'
<1> SUFFICES ASSUME Disjoint, [Next]_vars PROVE Disjoint'
  OBVIOUS
<1>1. site' = site
  BY DEF Next, vars, siteVars, Publishes, TakesDown, Restart, Start, RunStep, PageFails,
         TailReached, PageWalked, CapReached, Scan, Detail
<1>2. store' = store \/ (\E cards : store' = Upsert(cards)) \/ (\E q, e : store' = [store EXCEPT ![q] = e])
  BY DEF Next, vars, siteVars, Publishes, TakesDown, Restart, Start, RunStep, PageFails,
         TailReached, PageWalked, CapReached, Scan, Detail
<1>3. DOMAIN store' = Post
  BY <1>2 DEF Disjoint, Upsert
<1> QED
  BY <1>1, <1>3 DEF Disjoint

(* One step, of any run. *)
LEMMA StepKeeps ==
  ASSUME Disjoint, [Next]_vars, NEW p \in Post, p \in Listed, store[p] = Completed
  PROVE  store'[p] = Completed
<1>0. CASE UNCHANGED store
  BY <1>0
<1>1. CASE Publishes \/ TakesDown \/ Restart \/ UNCHANGED vars
  BY <1>1 DEF Publishes, TakesDown, Restart, vars
<1>2. CASE \E r \in Runs : Start(r) \/ PageFails(r) \/ TailReached(r) \/ CapReached(r) \/ Scan(r)
  BY <1>2 DEF Start, PageFails, TailReached, CapReached, Scan
<1>3. ASSUME NEW r \in Runs, PageWalked(r)
      PROVE  store'[p] = Completed
  <2>1. PICK ok : store' = Upsert(ok)
    BY <1>3 DEF PageWalked
  <2> QED
    BY <2>1, <1>3, UpsertKeeps
<1>4. ASSUME NEW r \in Runs, NEW q \in Post, Detail(r, q)
      PROVE  store'[p] = Completed
  <2>1. CASE store' = [store EXCEPT ![q] = IF q \in Listed THEN Completed ELSE Gone]
    <3>1. CASE p = q
      BY <2>1, <3>1 DEF Disjoint
    <3>2. CASE p # q
      BY <2>1, <3>2
    <3> QED
      BY <3>1, <3>2
  <2>2. CASE store' = Upsert({q})
    BY <2>2, <1>4, UpsertKeeps
  <2>3. CASE UNCHANGED store
    BY <2>3
  <2> QED
    BY <1>4, <2>1, <2>2, <2>3 DEF Detail
<1> QED
  BY <1>0, <1>1, <1>2, <1>3, <1>4 DEF Next, RunStep

(* A completed entry keeps its detail for as long as the site lists it, for any    *)
(* sync whose listing and detail fields are disjoint, any number of overlapping     *)
(* runs and of posts, and whichever calls fail: the field split of                  *)
(* Upsert<Site>Entry against Update<Site>Enrichment.                                *)
THEOREM DetailIsKept == Spec => DetailKept
<1>1. Init => Disjoint
  BY InitDisjoint
<1>2. Disjoint /\ [Next]_vars => Disjoint'
  BY StepDisjoint
<1>3. Disjoint /\ [Next]_vars
        => [\A p \in Post : (p \in Listed /\ store[p] = Completed) => store'[p] = Completed]_vars
  BY StepKeeps
<1> QED
  BY <1>1, <1>2, <1>3, PTL DEF Spec, DetailKept

-----------------------------------------------------------------------------
(* PornripsFeed: the walk, its cursor, and the two enriching passes.               *)

Fields == [there : {TRUE}, hash : BOOLEAN, tried : BOOLEAN, hit : BOOLEAN]
Cursors == [skip : Nat, due : SUBSET Posts]
Phases == {"idle", "ingest", "backfill", "hash", "enrich", "again"}
Progress ==
  [pc : Phases, skip : Nat, pages : Nat, batch : SUBSET Posts,
   held : [post : Nat, result : {"none", "hit", "miss"}], since : SUBSET Posts, due : SUBSET Posts]

TablesTyped ==
  /\ published \in 0..LastPost /\ known \subseteq 1..published /\ hiccups \in 0..MaxHiccups
  /\ entry \in [Posts -> {Unentered} \cup Fields] /\ Entered \subseteq 1..published
  /\ place \in Cursors /\ skipped \subseteq Posts

(* A runner takes up entries that are stored.                                   *)
Fits(n, stored) ==
  /\ n \in Progress /\ n.pages <= PagesPerTick
  /\ n.pc = "ingest" => n.pages < PagesPerTick
  /\ n.batch \subseteq stored
  /\ n.held = None \/ (n.held.post \in stored /\ n.held.result \in {"hit", "miss"})
RunnersTyped == runner \in [Runners -> Progress] /\ \A r \in Runners : Fits(runner[r], Entered)

(* The first offset of the page a skip picks.  What the walk has to store and    *)
(* has not lies at that page or behind it: posts only ever move to the back.      *)
First(skip) == (skip \div FeedPage) * FeedPage
Covers(skip, due, have, newest) == \A p \in due : p \in have \/ newest - p >= First(skip)
CursorCovers == Covers(place.skip, place.due, Entered \cup skipped, published)
RunsCover ==
  \A r \in Runners : runner[r].pc = "ingest" =>
    Covers(runner[r].skip, runner[r].due, Entered \cup skipped, published)

(* What a hit was looked up of is known; and with one enricher, what it holds    *)
(* as a miss has not become a hit since.                                         *)
Alone == \A r, q \in Runners \ IngestOnly : r = q
HitsKnown == \A p \in Posts : entry[p].there /\ entry[p].hit => p \in known
Honest(r, n, facts, table) ==
  /\ r \in IngestOnly => n.pc \in {"idle", "ingest"} /\ n.held = None
  /\ n.held # None /\ n.held.result = "hit" => n.held.post \in facts
  /\ n.held # None /\ n.held.result = "miss" /\ Alone => ~table[n.held.post].hit
RunsHonest == \A r \in Runners : Honest(r, runner[r], known, entry)

PornInv == TablesTyped /\ RunnersTyped /\ CursorCovers /\ RunsCover /\ HitsKnown /\ RunsHonest

-----------------------------------------------------------------------------
(* Arithmetic of pages. *)
LEMMA PageOfSkip ==
  ASSUME NEW s \in Nat
  PROVE  First(s) \in Nat /\ First(s) <= s /\ s < First(s) + FeedPage
  BY PornripsBounds DEF First

LEMMA PagesMonotone ==
  ASSUME NEW a \in Nat, NEW b \in Nat, NEW n \in Nat, a <= b
  PROVE  a * n <= b * n
  <1>1. b - a \in Nat /\ (b - a) * n >= 0
    OBVIOUS
  <1> QED BY <1>1

LEMMA OnePageOn ==
  ASSUME NEW s \in Nat, NEW n \in 0..FeedPage
  PROVE  First(s + n) <= First(s) + FeedPage
  <1> DEFINE q == s \div FeedPage
             t == (s + n) \div FeedPage
  <1>1. /\ q \in Nat /\ q * FeedPage <= s /\ s < q * FeedPage + FeedPage
        /\ t \in Nat /\ t * FeedPage <= s + n
        /\ FeedPage \in Nat
    BY PornripsBounds
  <1>2. First(s) = q * FeedPage /\ First(s + n) = t * FeedPage
    BY DEF First
  <1> HIDE DEF q, t
  <1>3. t <= q + 1
    <2> SUFFICES ASSUME q + 2 <= t PROVE FALSE
      BY <1>1
    <2>1. (q + 2) * FeedPage <= t * FeedPage
      BY <1>1, PagesMonotone
    <2>2. (q + 2) * FeedPage = q * FeedPage + 2 * FeedPage
      BY <1>1
    <2> QED BY <1>1, <2>1, <2>2
  <1>4. t * FeedPage <= (q + 1) * FeedPage
    BY <1>1, <1>3, PagesMonotone
  <1>5. (q + 1) * FeedPage = q * FeedPage + FeedPage
    BY <1>1
  <1> QED BY <1>1, <1>2, <1>4, <1>5

LEMMA PageItems ==
  ASSUME published \in Nat, NEW s \in Nat
  PROVE  /\ PageAt(s) = {p \in 1..published : published - p \in First(s)..(First(s) + FeedPage - 1)}
         /\ IsFiniteSet(PageAt(s)) /\ Cardinality(PageAt(s)) \in 0..FeedPage
         /\ PageAt(s) = {} => published <= First(s)
  <1>1. PageAt(s) = {p \in 1..published : published - p \in First(s)..(First(s) + FeedPage - 1)}
    BY DEF PageAt, First
  <1>2. First(s) \in Nat /\ FeedPage \in Nat \ {0}
    BY PageOfSkip, PornripsBounds
  <1> DEFINE a == published - First(s) - FeedPage + 1
             b == published - First(s)
  <1>3. PageAt(s) \subseteq a..b /\ a \in Int /\ b \in Int
    BY <1>1, <1>2
  <1>4. b - a + 1 = FeedPage /\ a <= b
    BY <1>2
  <1>5. IsFiniteSet(a..b) /\ Cardinality(a..b) = FeedPage
    BY <1>3, <1>4, FS_Interval
  <1> HIDE DEF a, b
  <1>6. IsFiniteSet(PageAt(s)) /\ Cardinality(PageAt(s)) <= FeedPage
    BY <1>3, <1>5, FS_Subset
  <1>7. Cardinality(PageAt(s)) \in 0..FeedPage
    BY <1>2, <1>6, FS_CardinalityType
  <1>8. ASSUME PageAt(s) = {} PROVE published <= First(s)
    <2> SUFFICES ASSUME First(s) < published PROVE FALSE
      BY <1>2
    <2>1. published - First(s) \in 1..published
      BY <1>2
    <2>2. published - (published - First(s)) = First(s)
      BY <1>2
    <2>3. First(s) \in First(s)..(First(s) + FeedPage - 1)
      BY <1>2
    <2>4. published - First(s) \in PageAt(s)
      BY <1>1, <2>1, <2>2, <2>3
    <2> QED BY <2>4, <1>8
  <1> QED BY <1>1, <1>6, <1>7, <1>8

-----------------------------------------------------------------------------
(* What a step leaves of the walks when entries, skipped and published grow.   *)
LEMMA CoversGrows ==
  ASSUME NEW have, NEW more, have \subseteq more, NEW old \in Nat, NEW new \in Nat, old <= new,
         NEW s \in Nat, NEW due \in SUBSET Posts, Covers(s, due, have, old)
  PROVE  Covers(s, due, more, new)
  <1>1. \A p \in due : p \in Nat
    BY PornripsBounds DEF Posts
  <1>2. First(s) \in Nat
    BY PageOfSkip
  <1> QED BY <1>1, <1>2 DEF Covers

LEMMA FitsGrows ==
  ASSUME NEW stored, NEW more, stored \subseteq more, NEW n, Fits(n, stored)
  PROVE  Fits(n, more)
  BY DEF Fits

(* The tables, as they are in a state where the invariant holds. *)
LEMMA Basics ==
  ASSUME TablesTyped
  PROVE  /\ published \in Nat /\ published <= LastPost /\ LastPost \in Nat
         /\ hiccups \in Nat /\ hiccups <= MaxHiccups /\ MaxHiccups \in Nat
         /\ Posts \subseteq Nat \ {0} /\ Entered \subseteq Posts
         /\ 1..published \subseteq Posts
  BY PornripsBounds DEF TablesTyped, Posts, Entered

LEMMA NoneFields == None.post = 0 /\ None.result = "none" /\ None \in [post : Nat, result : {"none", "hit", "miss"}]
  BY DEF None

LEMMA IdleFits ==
  ASSUME NEW r, NEW facts, NEW table, NEW stored
  PROVE  Fits(Idle, stored) /\ Honest(r, Idle, facts, table) /\ Idle.pc = "idle"
  <1>1. /\ Idle.pc = "idle" /\ Idle.skip = 0 /\ Idle.pages = 0 /\ Idle.batch = {} /\ Idle.held = None
        /\ Idle.since = {} /\ Idle.due = {}
    BY DEF Idle
  <1>2. Idle \in Progress
    BY NoneFields DEF Idle, Progress, Phases
  <1>3. Fits(Idle, stored)
    BY <1>1, <1>2, PornripsBounds DEF Fits
  <1> QED BY <1>1, <1>3 DEF Honest

(* The tables the records rest on grow; one runner moves to `n`, the others stay. *)
LEMMA RunnerMoves ==
  ASSUME PornInv, TablesTyped', Entered \subseteq Entered', skipped \subseteq skipped', published <= published',
         known \subseteq known', \A p \in Entered : entry'[p].hit = entry[p].hit,
         NEW r \in Runners, NEW n, runner' = [runner EXCEPT ![r] = n],
         Fits(n, Entered'), Honest(r, n, known', entry'),
         n.pc = "ingest" => Covers(n.skip, n.due, Entered' \cup skipped', published')
  PROVE  RunnersTyped' /\ RunsCover' /\ RunsHonest'
  <1>1. \A q \in Runners : runner'[q] = IF q = r THEN n ELSE runner[q]
    BY DEF PornInv, RunnersTyped
  <1>2. n \in Progress /\ \A q \in Runners : Fits(runner[q], Entered')
    BY FitsGrows DEF PornInv, RunnersTyped, Fits
  <1>3. RunnersTyped'
    BY <1>1, <1>2 DEF PornInv, RunnersTyped
  <1>4. ASSUME NEW q \in Runners, q # r PROVE Honest(q, runner[q], known', entry')
    <2>1. Honest(q, runner[q], known, entry) /\ Fits(runner[q], Entered)
      BY DEF PornInv, RunsHonest, RunnersTyped
    <2> QED BY <2>1 DEF Honest, Fits
  <1>5. RunsHonest'
    BY <1>1, <1>4 DEF RunsHonest
  <1>6. ASSUME NEW q \in Runners, q # r, runner[q].pc = "ingest"
        PROVE  Covers(runner[q].skip, runner[q].due, Entered' \cup skipped', published')
    <2>1. Covers(runner[q].skip, runner[q].due, Entered \cup skipped, published)
      BY <1>6 DEF PornInv, RunsCover
    <2>2. runner[q].skip \in Nat /\ runner[q].due \in SUBSET Posts
      BY DEF PornInv, RunnersTyped, Progress
    <2>3. published \in Nat /\ published' \in Nat
      BY PornripsBounds DEF PornInv, TablesTyped
    <2>4. Entered \cup skipped \subseteq Entered' \cup skipped'
      OBVIOUS
    <2> QED BY <2>1, <2>2, <2>3, <2>4, CoversGrows
  <1>7. RunsCover'
    BY <1>1, <1>6 DEF RunsCover
  <1> QED BY <1>3, <1>5, <1>7

(* No runner moves. *)
LEMMA RunnersStay ==
  ASSUME PornInv, TablesTyped', Entered \subseteq Entered', skipped \subseteq skipped', published <= published',
         known \subseteq known', \A p \in Entered : entry'[p].hit = entry[p].hit, runner' = runner
  PROVE  RunnersTyped' /\ RunsCover' /\ RunsHonest'
  <1>1. \A q \in Runners : Fits(runner[q], Entered')
    BY FitsGrows DEF PornInv, RunnersTyped
  <1>2. RunnersTyped'
    BY <1>1 DEF PornInv, RunnersTyped
  <1>3. ASSUME NEW q \in Runners PROVE Honest(q, runner[q], known', entry')
    <2>1. Honest(q, runner[q], known, entry) /\ Fits(runner[q], Entered)
      BY DEF PornInv, RunsHonest, RunnersTyped
    <2> QED BY <2>1 DEF Honest, Fits
  <1>4. ASSUME NEW q \in Runners, runner[q].pc = "ingest"
        PROVE  Covers(runner[q].skip, runner[q].due, Entered' \cup skipped', published')
    <2>1. Covers(runner[q].skip, runner[q].due, Entered \cup skipped, published)
      BY <1>4 DEF PornInv, RunsCover
    <2>2. runner[q].skip \in Nat /\ runner[q].due \in SUBSET Posts
      BY DEF PornInv, RunnersTyped, Progress
    <2>3. published \in Nat /\ published' \in Nat
      BY PornripsBounds DEF PornInv, TablesTyped
    <2>4. Entered \cup skipped \subseteq Entered' \cup skipped'
      OBVIOUS
    <2> QED BY <2>1, <2>2, <2>3, <2>4, CoversGrows
  <1> QED BY <1>2, <1>3, <1>4 DEF RunsHonest, RunsCover

LEMMA CursorStays ==
  ASSUME PornInv, TablesTyped', Entered \subseteq Entered', skipped \subseteq skipped', published <= published',
         place' = place
  PROVE  CursorCovers'
  <1>1. place.skip \in Nat /\ place.due \in SUBSET Posts
    BY DEF PornInv, TablesTyped, Cursors
  <1>2. published \in Nat /\ published' \in Nat
    BY PornripsBounds DEF PornInv, TablesTyped
  <1>3. Entered \cup skipped \subseteq Entered' \cup skipped'
    OBVIOUS
  <1> QED BY <1>1, <1>2, <1>3, CoversGrows DEF PornInv, CursorCovers

(* A step that leaves the tables alone, but may count a hiccup, and moves one runner. *)
Quiet ==
  /\ UNCHANGED <<published, known, entry, place, skipped>>
  /\ hiccups' = hiccups \/ (MayHiccup /\ hiccups' = hiccups + 1)

LEMMA HiccupsBounded ==
  ASSUME TablesTyped, hiccups' = hiccups \/ (MayHiccup /\ hiccups' = hiccups + 1)
  PROVE  hiccups' \in 0..MaxHiccups
  <1>1. hiccups \in 0..MaxHiccups /\ MaxHiccups \in Nat
    BY PornripsBounds DEF TablesTyped
  <1> QED BY <1>1 DEF MayHiccup

LEMMA QuietMove ==
  ASSUME PornInv, Quiet, NEW r \in Runners, NEW n, runner' = [runner EXCEPT ![r] = n],
         Fits(n, Entered), Honest(r, n, known, entry),
         n.pc = "ingest" => Covers(n.skip, n.due, Entered \cup skipped, published)
  PROVE  PornInv'
  <1>1. TablesTyped' /\ Entered' = Entered
    BY HiccupsBounded DEF Quiet, PornInv, TablesTyped, Entered
  <1>2. published <= published'
    BY PornripsBounds DEF Quiet, PornInv, TablesTyped
  <1>3. RunnersTyped' /\ RunsCover' /\ RunsHonest'
    BY <1>1, <1>2, RunnerMoves DEF Quiet
  <1>4. CursorCovers'
    BY <1>1, <1>2, CursorStays DEF Quiet
  <1> QED BY <1>1, <1>3, <1>4 DEF PornInv, HitsKnown, Quiet

LEMMA RunnerTyped ==
  ASSUME PornInv, NEW r \in Runners
  PROVE  /\ runner[r] \in Progress /\ Fits(runner[r], Entered) /\ Honest(r, runner[r], known, entry)
         /\ runner[r].pc = "ingest" => Covers(runner[r].skip, runner[r].due, Entered \cup skipped, published)
  BY DEF PornInv, RunnersTyped, RunsCover, RunsHonest

LEMMA PublishKeeps == ASSUME PornInv, Publish PROVE PornInv'
  <1>1. published' = published + 1 /\ published < LastPost /\ published \in Nat /\ LastPost \in Nat
    BY Basics DEF Publish, PornInv
  <1>2. published <= published' /\ published' \in 0..LastPost /\ 1..published \subseteq 1..published'
    BY <1>1
  <1>3. TablesTyped' /\ Entered' = Entered
    BY <1>2 DEF Publish, PornInv, TablesTyped, Entered
  <1>4. RunnersTyped' /\ RunsCover' /\ RunsHonest'
    BY <1>2, <1>3, RunnersStay DEF Publish
  <1>5. CursorCovers'
    BY <1>2, <1>3, CursorStays DEF Publish
  <1> QED BY <1>3, <1>4, <1>5 DEF PornInv, HitsKnown, Publish

LEMMA LearnKeeps == ASSUME PornInv, NEW p \in Posts, Learn(p) PROVE PornInv'
  <1>0. published' = published /\ published <= published'
    BY Basics DEF Learn, PornInv
  <1>1. known \subseteq known' /\ known' \subseteq 1..published
    BY DEF Learn, PornInv, TablesTyped
  <1>2. TablesTyped' /\ Entered' = Entered
    BY <1>1 DEF Learn, PornInv, TablesTyped, Entered
  <1>3. RunnersTyped' /\ RunsCover' /\ RunsHonest'
    BY <1>0, <1>1, <1>2, RunnersStay DEF Learn
  <1>4. CursorCovers'
    BY <1>0, <1>1, <1>2, CursorStays DEF Learn
  <1> QED BY <1>1, <1>2, <1>3, <1>4 DEF PornInv, HitsKnown, Learn

LEMMA BeginsKeeps == ASSUME PornInv, NEW r \in Runners, Begins(r) PROVE PornInv'
  <1>1. PICK read \in {TRUE, FALSE} :
          LET from == IF r \in Archive /\ read THEN place ELSE Top
              due == IF from.skip = 0 THEN 1..published ELSE from.due
          IN  /\ runner' = [runner EXCEPT ![r] = [Idle EXCEPT !.pc = "ingest", !.skip = from.skip, !.due = due]]
              /\ hiccups' = IF read THEN hiccups ELSE hiccups + 1
              /\ read \in IF MayHiccup /\ r \in Archive THEN {TRUE, FALSE} ELSE {TRUE}
    BY DEF Begins
  <1> DEFINE from == IF r \in Archive /\ read THEN place ELSE Top
             due == IF from.skip = 0 THEN 1..published ELSE from.due
             n == [Idle EXCEPT !.pc = "ingest", !.skip = from.skip, !.due = due]
  <1>2. Quiet
    BY <1>1 DEF Begins, Quiet
  <1>3. from.skip \in Nat /\ due \in SUBSET Posts
    <2>1. Top.skip = 0
      BY DEF Top
    <2>2. place.skip \in Nat /\ place.due \in SUBSET Posts
      BY DEF PornInv, TablesTyped, Cursors
    <2>3. 1..published \in SUBSET Posts
      BY Basics DEF PornInv
    <2> QED BY <2>1, <2>2, <2>3
  <1>4. Covers(from.skip, due, Entered \cup skipped, published)
    <2>1. CASE from.skip = 0
      <3>1. First(from.skip) <= 0 /\ First(from.skip) \in Nat
        BY <2>1, PageOfSkip
      <3>2. due = 1..published
        BY <2>1
      <3>3. \A p \in 1..published : published - p >= First(from.skip)
        BY <3>1, Basics DEF PornInv
      <3> QED BY <3>2, <3>3 DEF Covers
    <2>2. CASE from.skip # 0
      <3>1. from = place /\ due = place.due
        BY <2>2 DEF Top
      <3> QED BY <3>1 DEF PornInv, CursorCovers
    <2> QED BY <2>1, <2>2
  <1>5. runner' = [runner EXCEPT ![r] = n]
    BY <1>1
  <1> HIDE DEF from, due
  <1>6. /\ n.pc = "ingest" /\ n.skip = from.skip /\ n.due = due /\ n.pages = 0 /\ n.batch = {}
        /\ n.held = None /\ n \in Progress
    BY <1>3, NoneFields DEF Idle, Progress, Phases
  <1> HIDE DEF n
  <1>7. Fits(n, Entered) /\ Honest(r, n, known, entry)
    BY <1>6, PornripsBounds DEF Fits, Honest
  <1> QED BY <1>2, <1>4, <1>5, <1>6, <1>7, QuietMove

LEMMA AfterIngestPhase == ASSUME NEW r PROVE AfterIngest(r) \in {"idle", "backfill"} /\ (r \in IngestOnly => AfterIngest(r) = "idle")
  BY DEF AfterIngest

LEMMA FeedFailsKeeps == ASSUME PornInv, NEW r \in Runners, FeedFails(r) PROVE PornInv'
  <1> DEFINE n == [runner[r] EXCEPT !.pc = AfterIngest(r)]
  <1>1. Quiet /\ runner' = [runner EXCEPT ![r] = n]
    BY DEF FeedFails, Quiet
  <1>2. /\ n.pc = AfterIngest(r) /\ n.pages = runner[r].pages /\ n.batch = runner[r].batch
        /\ n.held = runner[r].held /\ n \in Progress
    BY RunnerTyped, AfterIngestPhase DEF Progress, Phases
  <1> HIDE DEF n
  <1>3. Fits(n, Entered) /\ Honest(r, n, known, entry) /\ n.pc # "ingest"
    BY <1>2, RunnerTyped, AfterIngestPhase DEF Fits, Honest
  <1> QED BY <1>1, <1>3, QuietMove

(* What a run reads of the collection is stored. *)
LEMMA LatestStored == \A limit, ps : Latest(limit, ps) \subseteq ps
  BY DEF Latest

LEMMA NotIngestOnly ==
  ASSUME PornInv, NEW r \in Runners, runner[r].pc \notin {"idle", "ingest"}
  PROVE  r \notin IngestOnly
  BY RunnerTyped DEF Honest

LEMMA ReadBackfillKeeps == ASSUME PornInv, NEW r \in Runners, ReadBackfill(r) PROVE PornInv'
  <1> DEFINE b == Latest(PassSize, {p \in Entered : ~entry[p].hash})
             n == [runner[r] EXCEPT !.pc = "hash", !.batch = b]
  <1>1. Quiet /\ runner' = [runner EXCEPT ![r] = n] /\ r \notin IngestOnly
    BY NotIngestOnly DEF ReadBackfill, Quiet
  <1>2. b \subseteq Entered /\ b \subseteq Posts
    BY LatestStored, Basics DEF PornInv
  <1> HIDE DEF b
  <1>3. /\ n.pc = "hash" /\ n.pages = runner[r].pages /\ n.batch = b
        /\ n.held = runner[r].held /\ n \in Progress
    BY <1>2, RunnerTyped DEF Progress, Phases
  <1> HIDE DEF n
  <1>4. Fits(n, Entered) /\ Honest(r, n, known, entry)
    BY <1>1, <1>2, <1>3, RunnerTyped DEF Fits, Honest
  <1> QED BY <1>1, <1>3, <1>4, QuietMove

LEMMA ReadMissingKeeps == ASSUME PornInv, NEW r \in Runners, ReadMissing(r) PROVE PornInv'
  <1> DEFINE b == Latest(PassSize, Lacking)
             n == [runner[r] EXCEPT !.pc = "enrich", !.since = {}, !.batch = b]
  <1>1. Quiet /\ runner' = [runner EXCEPT ![r] = n] /\ r \notin IngestOnly
    BY NotIngestOnly DEF ReadMissing, Quiet
  <1>2. b \subseteq Entered /\ b \subseteq Posts
    BY LatestStored, Basics DEF PornInv, Lacking
  <1> HIDE DEF b
  <1>3. /\ n.pc = "enrich" /\ n.pages = runner[r].pages /\ n.batch = b
        /\ n.held = runner[r].held /\ n \in Progress
    BY <1>2, RunnerTyped DEF Progress, Phases
  <1> HIDE DEF n
  <1>4. Fits(n, Entered) /\ Honest(r, n, known, entry)
    BY <1>1, <1>2, <1>3, RunnerTyped DEF Fits, Honest
  <1> QED BY <1>1, <1>3, <1>4, QuietMove

LEMMA ReadMissedKeeps == ASSUME PornInv, NEW r \in Runners, ReadMissed(r) PROVE PornInv'
  <1> DEFINE b == Latest(Again, Missed(r))
             n == [runner[r] EXCEPT !.pc = "again", !.batch = b]
  <1>1. Quiet /\ runner' = [runner EXCEPT ![r] = n] /\ r \notin IngestOnly
    BY NotIngestOnly DEF ReadMissed, Quiet
  <1>2. b \subseteq Entered /\ b \subseteq Posts
    BY LatestStored, Basics DEF PornInv, Missed
  <1> HIDE DEF b
  <1>3. /\ n.pc = "again" /\ n.pages = runner[r].pages /\ n.batch = b
        /\ n.held = runner[r].held /\ n \in Progress
    BY <1>2, RunnerTyped DEF Progress, Phases
  <1> HIDE DEF n
  <1>4. Fits(n, Entered) /\ Honest(r, n, known, entry)
    BY <1>1, <1>2, <1>3, RunnerTyped DEF Fits, Honest
  <1> QED BY <1>1, <1>3, <1>4, QuietMove

LEMMA LookupKeeps == ASSUME PornInv, NEW r \in Runners, NEW p \in Posts, Lookup(r, p) PROVE PornInv'
  <1>1. Quiet /\ r \notin IngestOnly /\ runner[r].pc # "ingest" /\ p \in runner[r].batch
    BY NotIngestOnly DEF Lookup, LookingUp, Quiet
  <1>2. p \in Entered /\ p \in Nat \ {0}
    BY <1>1, RunnerTyped, Basics DEF Fits, PornInv
  <1>3. CASE runner' = [runner EXCEPT ![r].batch = @ \ {p}]
    <2> DEFINE n == [runner[r] EXCEPT !.batch = @ \ {p}]
    <2>1. runner' = [runner EXCEPT ![r] = n]
      BY <1>3
    <2>2. /\ n.pc = runner[r].pc /\ n.pages = runner[r].pages /\ n.batch = runner[r].batch \ {p}
          /\ n.held = runner[r].held /\ n \in Progress
      BY RunnerTyped DEF Progress, Phases
    <2> HIDE DEF n
    <2>3. Fits(n, Entered) /\ Honest(r, n, known, entry)
      BY <2>2, RunnerTyped DEF Fits, Honest
    <2> QED BY <1>1, <2>1, <2>2, <2>3, QuietMove
  <1>4. CASE runner' = [runner EXCEPT ![r].batch = @ \ {p},
                     ![r].held = [post |-> p, result |-> IF p \in known THEN "hit" ELSE "miss"]]
    <2> DEFINE h == [post |-> p, result |-> IF p \in known THEN "hit" ELSE "miss"]
               n == [runner[r] EXCEPT !.batch = @ \ {p}, !.held = h]
    <2>1. runner' = [runner EXCEPT ![r] = n]
      BY <1>4
    <2>2. /\ h \in [post : Nat, result : {"none", "hit", "miss"}]
          /\ h.post = p /\ h.result \in {"hit", "miss"} /\ (h.result = "hit" <=> p \in known)
      BY <1>2
    <2> HIDE DEF h
    <2>3. /\ n.pc = runner[r].pc /\ n.pages = runner[r].pages /\ n.batch = runner[r].batch \ {p}
          /\ n.held = h /\ n \in Progress
      BY <2>2, RunnerTyped DEF Progress, Phases
    <2> HIDE DEF n
    <2>4. Fits(n, Entered)
      BY <1>2, <2>2, <2>3, RunnerTyped DEF Fits
    <2>5. p \notin known => ~entry[p].hit
      BY <1>2 DEF PornInv, HitsKnown, Entered
    <2>6. Honest(r, n, known, entry)
      BY <1>1, <2>2, <2>3, <2>5 DEF Honest
    <2> QED BY <1>1, <2>1, <2>3, <2>4, <2>6, QuietMove
  <1> QED BY <1>3, <1>4 DEF Lookup

LEMMA WriteFailsKeeps == ASSUME PornInv, NEW r \in Runners, WriteFails(r) PROVE PornInv'
  <1> DEFINE n == [runner[r] EXCEPT !.held = None]
  <1>1. Quiet /\ runner' = [runner EXCEPT ![r] = n]
    BY DEF WriteFails, Quiet
  <1>2. /\ n.pc = runner[r].pc /\ n.pages = runner[r].pages /\ n.batch = runner[r].batch
        /\ n.skip = runner[r].skip /\ n.due = runner[r].due /\ n.held = None /\ n \in Progress
    BY RunnerTyped, NoneFields DEF Progress, Phases
  <1> HIDE DEF n
  <1>3. Fits(n, Entered) /\ Honest(r, n, known, entry)
    BY <1>2, RunnerTyped DEF Fits, Honest
  <1>4. n.pc = "ingest" => Covers(n.skip, n.due, Entered \cup skipped, published)
    BY <1>2, RunnerTyped
  <1> QED BY <1>1, <1>3, <1>4, QuietMove

LEMMA GoesIdleKeeps == ASSUME PornInv, NEW r \in Runners, Finish(r) \/ Crash(r) PROVE PornInv'
  <1>1. Quiet /\ runner' = [runner EXCEPT ![r] = Idle]
    BY DEF Finish, Crash, Quiet
  <1> QED BY <1>1, IdleFits, QuietMove

LEMMA StoresCursor ==
  ASSUME TablesTyped, NEW r, NEW new \in Cursors, NEW hic \in 0..MaxHiccups, StoreCursor(r, new, hic)
  PROVE  hiccups' \in 0..MaxHiccups /\ place' \in Cursors /\ place' \in {place, new}
  <1>1. hiccups' \in 0..MaxHiccups
    BY PornripsBounds DEF StoreCursor
  <1>2. place' \in {place, new}
    BY DEF StoreCursor
  <1> QED BY <1>1, <1>2 DEF TablesTyped

LEMMA EndOfFeedKeeps == ASSUME PornInv, NEW r \in Runners, EndOfFeed(r) PROVE PornInv'
  <1> DEFINE n == [runner[r] EXCEPT !.pc = AfterIngest(r)]
  <1>1. Top \in Cursors /\ Covers(Top.skip, Top.due, Entered \cup skipped, published)
    BY DEF Top, Cursors, Covers
  <1>2. hiccups' \in 0..MaxHiccups /\ place' \in Cursors /\ place' \in {place, Top}
    BY <1>1, StoresCursor DEF EndOfFeed, PornInv, TablesTyped
  <1>3. TablesTyped' /\ Entered' = Entered /\ published <= published'
    BY <1>2, PornripsBounds DEF EndOfFeed, PornInv, TablesTyped, Entered
  <1>4. CursorCovers'
    BY <1>1, <1>2, <1>3 DEF EndOfFeed, PornInv, CursorCovers
  <1>5. runner' = [runner EXCEPT ![r] = n]
    BY DEF EndOfFeed
  <1>6. /\ n.pc = AfterIngest(r) /\ n.pages = runner[r].pages /\ n.batch = runner[r].batch
        /\ n.held = runner[r].held /\ n \in Progress
    BY RunnerTyped, AfterIngestPhase DEF Progress, Phases
  <1> HIDE DEF n
  <1>7. Fits(n, Entered) /\ Honest(r, n, known, entry) /\ n.pc # "ingest"
    BY <1>6, RunnerTyped, AfterIngestPhase DEF Fits, Honest
  <1>8. RunnersTyped' /\ RunsCover' /\ RunsHonest'
    BY <1>3, <1>5, <1>7, RunnerMoves DEF EndOfFeed
  <1> QED BY <1>3, <1>4, <1>8 DEF PornInv, HitsKnown, EndOfFeed

(* The upserts of a page. *)
LEMMA PageStored ==
  ASSUME TablesTyped, NEW r, ReadPage(r), NEW bad \in SUBSET PageAt(runner[r].skip),
         entry' = [p \in Posts |-> IF p \in PageAt(runner[r].skip) \ bad THEN Ingested(entry[p]) ELSE entry[p]]
  PROVE  /\ entry' \in [Posts -> {Unentered} \cup Fields]
         /\ Entered' = Entered \cup (PageAt(runner[r].skip) \ bad)
         /\ \A p \in Entered : entry'[p].hit = entry[p].hit
         /\ \A p \in Posts : entry'[p].there /\ entry'[p].hit => entry[p].there /\ entry[p].hit
  <1> DEFINE items == PageAt(runner[r].skip)
  <1>1. items \subseteq Posts
    BY Basics DEF PageAt
  <1>2. \A p \in Posts : entry[p] \in {Unentered} \cup Fields
    BY DEF TablesTyped
  <1>3. Unentered.there = FALSE /\ NewEntry.there = TRUE /\ NewEntry.hit = FALSE /\ NewEntry \in Fields
    BY DEF Unentered, NewEntry, Fields
  <1>4. ASSUME NEW e \in {Unentered} \cup Fields
        PROVE  /\ Ingested(e) \in Fields /\ Ingested(e).there = TRUE
               /\ e.there => Ingested(e).hit = e.hit
               /\ Ingested(e).hit => e.there /\ e.hit
    <2>1. CASE e.there
      <3>1. e \in Fields
        BY <2>1, <1>3
      <3>2. Ingested(e) = [e EXCEPT !.hash = FALSE]
        BY <2>1 DEF Ingested
      <3> QED BY <2>1, <3>1, <3>2 DEF Fields
    <2>2. CASE ~e.there
      <3>1. Ingested(e) = NewEntry
        BY <2>2 DEF Ingested
      <3> QED BY <2>2, <3>1, <1>3
    <2> QED BY <2>1, <2>2
  <1>5. \A p \in Posts : entry'[p] = IF p \in items \ bad THEN Ingested(entry[p]) ELSE entry[p]
    OBVIOUS
  <1> HIDE DEF items
  <1>6. entry' \in [Posts -> {Unentered} \cup Fields]
    BY <1>2, <1>4 DEF items
  <1>7. Entered' = Entered \cup (items \ bad)
    BY <1>1, <1>2, <1>4, <1>5 DEF Entered
  <1>8. \A p \in Entered : entry'[p].hit = entry[p].hit
    BY <1>2, <1>4, <1>5 DEF Entered
  <1>9. \A p \in Posts : entry'[p].there /\ entry'[p].hit => entry[p].there /\ entry[p].hit
    BY <1>2, <1>4, <1>5
  <1> QED BY <1>6, <1>7, <1>8, <1>9 DEF items

(* Behind a page everything of the walk is stored that is not on a later page. *)
LEMMA PageCovers ==
  ASSUME TablesTyped, NEW s \in Nat, NEW due \in SUBSET Posts, NEW have, NEW more,
         Covers(s, due, have, published), have \cup PageAt(s) \subseteq more
  PROVE  Covers(s + Cardinality(PageAt(s)), due, more, published)
  <1>1. published \in Nat /\ Posts \subseteq Nat \ {0}
    BY Basics
  <1> DEFINE n == Cardinality(PageAt(s))
  <1>2. n \in 0..FeedPage
    BY <1>1, PageItems
  <1>3. First(s + n) <= First(s) + FeedPage
    BY <1>2, OnePageOn
  <1>4. s + n \in Nat
    BY <1>2
  <1> HIDE DEF n
  <1>5. First(s) \in Nat /\ First(s + n) \in Nat /\ FeedPage \in Nat
    BY <1>4, PageOfSkip, PornripsBounds
  <1>6. ASSUME NEW p \in due, p \notin more PROVE published - p >= First(s + n)
    <2>1. p \in Nat \ {0} /\ published - p >= First(s) /\ p \notin PageAt(s)
      BY <1>1, <1>6 DEF Covers
    <2>2. p \in 1..published
      BY <1>1, <1>5, <2>1
    <2>3. published - p \notin First(s)..(First(s) + FeedPage - 1)
      BY <1>1, <2>1, <2>2, PageItems
    <2>4. published - p >= First(s) + FeedPage
      BY <1>1, <1>5, <2>1, <2>2, <2>3
    <2>5. published - p \in Int
      BY <1>1, <2>1
    <2> QED BY <1>3, <1>5, <2>4, <2>5
  <1> QED BY <1>6 DEF Covers, n

LEMMA ReadPageKeeps == ASSUME PornInv, NEW r \in Runners, ReadPage(r) PROVE PornInv'
  <1> DEFINE items == PageAt(runner[r].skip)
             skip == runner[r].skip + Cardinality(items)
             done == LastPage(r)
             new == [skip |-> skip, due |-> runner[r].due]
             n == [runner[r] EXCEPT !.skip = skip, !.pages = @ + 1, !.pc = IF done THEN AfterIngest(r) ELSE @]
  <1>1. PICK bad \in SUBSET items :
          /\ hiccups + Cardinality(bad) <= MaxHiccups
          /\ entry' = [p \in Posts |-> IF p \in items \ bad THEN Ingested(entry[p]) ELSE entry[p]]
          /\ skipped' = skipped \cup bad
          /\ IF done THEN StoreCursor(r, new, hiccups + Cardinality(bad))
             ELSE place' = place /\ hiccups' = hiccups + Cardinality(bad)
    BY DEF ReadPage
  <1>2. runner' = [runner EXCEPT ![r] = n] /\ runner[r].pc = "ingest" /\ published' = published /\ known' = known
    BY DEF ReadPage
  <1>3. published \in Nat /\ published <= published'
    BY <1>2, Basics DEF PornInv
  <1>4. runner[r].skip \in Nat /\ runner[r].due \in SUBSET Posts /\ runner[r].pages \in Nat
    BY RunnerTyped DEF Progress
  <1>5. IsFiniteSet(items) /\ Cardinality(items) \in 0..FeedPage
    BY <1>3, <1>4, PageItems
  <1>6. skip \in Nat
    BY <1>4, <1>5
  <1>7. /\ entry' \in [Posts -> {Unentered} \cup Fields] /\ Entered' = Entered \cup (items \ bad)
        /\ \A p \in Entered : entry'[p].hit = entry[p].hit
        /\ \A p \in Posts : entry'[p].there /\ entry'[p].hit => entry[p].there /\ entry[p].hit
    BY <1>1, PageStored DEF PornInv
  <1>8. items \subseteq 1..published /\ items \subseteq Posts
    BY Basics DEF PageAt, PornInv
  <1>9. Covers(skip, runner[r].due, Entered' \cup skipped', published)
    <2>1. Covers(runner[r].skip, runner[r].due, Entered \cup skipped, published)
      BY <1>2, RunnerTyped
    <2>2. (Entered \cup skipped) \cup items \subseteq Entered' \cup skipped'
      BY <1>1, <1>7
    <2> QED BY <1>4, <2>1, <2>2, PageCovers DEF PornInv
  <1>10. hiccups + Cardinality(bad) \in 0..MaxHiccups
    <2>1. Cardinality(bad) \in Nat
      BY <1>5, FS_Subset, FS_CardinalityType
    <2> QED BY <1>1, <2>1, Basics DEF PornInv
  <1>11. new \in Cursors /\ new.skip = skip /\ new.due = runner[r].due
    BY <1>4, <1>6 DEF Cursors
  <1> HIDE DEF skip, new, items, done
  <1>12. hiccups' \in 0..MaxHiccups /\ place' \in Cursors /\ place' \in {place, new}
    <2>1. CASE done
      BY <1>1, <1>10, <1>11, <2>1, StoresCursor DEF PornInv
    <2>2. CASE ~done
      BY <1>1, <1>10, <2>2 DEF PornInv, TablesTyped
    <2> QED BY <2>1, <2>2
  <1>13. Entered \subseteq Entered' /\ skipped \subseteq skipped'
    BY <1>1, <1>7
  <1>14. TablesTyped'
    BY <1>1, <1>2, <1>7, <1>8, <1>12 DEF PornInv, TablesTyped
  <1>15. CursorCovers'
    <2>1. CASE place' = place
      BY <1>3, <1>13, <1>14, <2>1, CursorStays
    <2>2. CASE place' = new
      BY <1>2, <1>9, <1>11, <2>2 DEF CursorCovers
    <2> QED BY <1>12, <2>1, <2>2
  <1>16. HitsKnown'
    BY <1>2, <1>7 DEF PornInv, HitsKnown
  <1>17. /\ n.skip = skip /\ n.pages = runner[r].pages + 1 /\ n.batch = runner[r].batch
         /\ n.held = runner[r].held /\ n.due = runner[r].due
         /\ n.pc = IF done THEN AfterIngest(r) ELSE "ingest"
         /\ n \in Progress
    <2>1. runner[r].pages + 1 \in Nat
      BY <1>4
    <2>2. (IF done THEN AfterIngest(r) ELSE runner[r].pc) \in Phases
      BY <1>2, AfterIngestPhase DEF Phases
    <2> QED BY <1>2, <1>6, <2>1, <2>2, RunnerTyped DEF Progress
  <1> HIDE DEF n
  <1>18. n.pages <= PagesPerTick /\ (n.pc = "ingest" => n.pages < PagesPerTick)
    <2>1. runner[r].pages < PagesPerTick /\ PagesPerTick \in Nat
      BY <1>2, RunnerTyped, PornripsBounds DEF Fits
    <2>2. n.pc = "ingest" => runner[r].pages + 1 # PagesPerTick
      BY <1>17, AfterIngestPhase DEF done, LastPage
    <2> QED BY <1>4, <1>17, <2>1, <2>2
  <1>19. Fits(n, Entered')
    BY <1>13, <1>17, <1>18, RunnerTyped DEF Fits
  <1>20. Honest(r, n, known', entry')
    <2>1. Honest(r, runner[r], known, entry) /\ Fits(runner[r], Entered)
      BY RunnerTyped
    <2> QED BY <1>2, <1>7, <1>17, <2>1, AfterIngestPhase DEF Honest, Fits
  <1>21. RunnersTyped' /\ RunsCover' /\ RunsHonest'
    BY <1>2, <1>3, <1>7, <1>9, <1>13, <1>14, <1>17, <1>19, <1>20, RunnerMoves
  <1> QED BY <1>14, <1>15, <1>16, <1>21 DEF PornInv

LEMMA BackfillKeeps == ASSUME PornInv, NEW r \in Runners, NEW p \in Posts, Backfill(r, p) PROVE PornInv'
  <1> DEFINE n == [runner[r] EXCEPT !.batch = @ \ {p}]
  <1>1. /\ runner' = [runner EXCEPT ![r] = n] /\ runner[r].pc = "hash" /\ p \in runner[r].batch
        /\ entry' = entry \/ entry' = [entry EXCEPT ![p].hash = TRUE]
        /\ hiccups' = hiccups \/ (MayHiccup /\ hiccups' = hiccups + 1)
        /\ UNCHANGED <<published, known, place, skipped>>
    BY DEF Backfill
  <1>2. entry[p] \in Fields
    <2>1. p \in Entered
      BY <1>1, RunnerTyped DEF Fits
    <2> QED BY <2>1 DEF PornInv, TablesTyped, Entered, Unentered
  <1>3. /\ entry' \in [Posts -> {Unentered} \cup Fields]
        /\ \A q \in Posts : entry'[q].there = entry[q].there /\ (entry[q].there => entry'[q].hit = entry[q].hit)
    <2>1. entry \in [Posts -> {Unentered} \cup Fields]
      BY DEF PornInv, TablesTyped
    <2>2. CASE entry' = [entry EXCEPT ![p].hash = TRUE]
      <3> DEFINE f == [entry[p] EXCEPT !.hash = TRUE]
      <3>1. f \in Fields /\ f.there = entry[p].there /\ f.hit = entry[p].hit
        BY <1>2 DEF Fields
      <3>2. entry' = [entry EXCEPT ![p] = f]
        BY <2>2
      <3> HIDE DEF f
      <3> QED BY <2>1, <3>1, <3>2
    <2> QED BY <1>1, <2>1, <2>2
  <1>4. Entered' = Entered /\ published <= published'
    BY <1>1, <1>3, Basics DEF Entered, PornInv
  <1>5. TablesTyped'
    BY <1>1, <1>3, <1>4, HiccupsBounded DEF PornInv, TablesTyped
  <1>6. CursorCovers'
    BY <1>1, <1>4, <1>5, CursorStays
  <1>7. HitsKnown'
    BY <1>1, <1>3 DEF PornInv, HitsKnown
  <1>8. /\ n.pc = "hash" /\ n.pages = runner[r].pages /\ n.batch = runner[r].batch \ {p}
        /\ n.held = runner[r].held /\ n \in Progress
    BY <1>1, RunnerTyped DEF Progress, Phases
  <1> HIDE DEF n
  <1>9. Fits(n, Entered')
    BY <1>4, <1>8, RunnerTyped DEF Fits
  <1>10. Honest(r, n, known', entry')
    <2>1. Honest(r, runner[r], known, entry) /\ Fits(runner[r], Entered)
      BY RunnerTyped
    <2>2. r \notin IngestOnly
      BY <1>1, NotIngestOnly
    <2>3. \A q \in Entered : entry'[q].hit = entry[q].hit
      BY <1>3 DEF Entered
    <2> QED BY <1>1, <1>8, <2>1, <2>2, <2>3 DEF Honest, Fits
  <1>11. \A q \in Entered : entry'[q].hit = entry[q].hit
    BY <1>3 DEF Entered
  <1>12. RunnersTyped' /\ RunsCover' /\ RunsHonest'
    BY <1>1, <1>4, <1>5, <1>8, <1>9, <1>10, <1>11, RunnerMoves
  <1> QED BY <1>5, <1>6, <1>7, <1>12 DEF PornInv

LEMMA WriteKeeps == ASSUME PornInv, NEW r \in Runners, Write(r) PROVE PornInv'
  <1> DEFINE h == runner[r].held
  <1>1. /\ h # None /\ UNCHANGED <<published, known, place, hiccups, skipped>>
        /\ entry' = [entry EXCEPT ![h.post] = Written(@, h.result)]
    BY DEF Write
  <1>2. \A q \in Runners : runner'[q] =
          [runner[q] EXCEPT !.since = IF LookingUp(q) THEN @ \cup {h.post} ELSE @, !.held = IF q = r THEN None ELSE @]
    BY DEF Write
  <1>3. h.post \in Entered /\ h.post \in Posts /\ h.result \in {"hit", "miss"}
    BY <1>1, RunnerTyped, Basics DEF Fits, PornInv
  <1>4. entry[h.post] \in Fields
    BY <1>3 DEF PornInv, TablesTyped, Entered, Unentered
  <1>5. Honest(r, runner[r], known, entry) /\ r \notin IngestOnly
    BY <1>1, RunnerTyped DEF Honest
  <1> DEFINE w == Written(entry[h.post], h.result)
  <1>6. w \in Fields /\ w.there = TRUE /\ (w.hit <=> h.result = "hit")
    BY <1>4 DEF Written, Fields
  <1>7. \A p \in Posts : entry'[p] = IF p = h.post THEN w ELSE entry[p]
    BY <1>1 DEF PornInv, TablesTyped
  <1>8. entry' \in [Posts -> {Unentered} \cup Fields]
    BY <1>1, <1>6 DEF PornInv, TablesTyped
  <1> HIDE DEF w, h
  <1>9. Entered' = Entered
    BY <1>3, <1>6, <1>7 DEF Entered
  <1>10. published <= published' /\ published \in Nat
    BY <1>1, Basics DEF PornInv
  <1>11. TablesTyped'
    BY <1>1, <1>8, <1>9 DEF PornInv, TablesTyped
  <1>12. CursorCovers'
    BY <1>1, <1>9, <1>10, <1>11, CursorStays
  <1>13. HitsKnown'
    BY <1>1, <1>3, <1>5, <1>6, <1>7 DEF PornInv, HitsKnown, Honest, h
  <1>14. ASSUME NEW q \in Runners
         PROVE  /\ runner'[q].pc = runner[q].pc /\ runner'[q].skip = runner[q].skip
                /\ runner'[q].pages = runner[q].pages /\ runner'[q].batch = runner[q].batch
                /\ runner'[q].due = runner[q].due
                /\ runner'[q].held = (IF q = r THEN None ELSE runner[q].held)
                /\ runner'[q] \in Progress
    <2>1. runner[q] \in Progress
      BY RunnerTyped
    <2> DEFINE since == IF LookingUp(q) THEN runner[q].since \cup {h.post} ELSE runner[q].since
               held == IF q = r THEN None ELSE runner[q].held
    <2>2. since \in SUBSET Posts
      BY <1>3, <2>1 DEF Progress
    <2>3. held \in [post : Nat, result : {"none", "hit", "miss"}]
      BY <2>1, NoneFields DEF Progress
    <2>4. held = (IF q = r THEN None ELSE runner[q].held)
      OBVIOUS
    <2>5. runner'[q] = [runner[q] EXCEPT !.since = since, !.held = held]
      BY <1>2
    <2> HIDE DEF since, held
    <2>6. /\ runner'[q].pc = runner[q].pc /\ runner'[q].skip = runner[q].skip
          /\ runner'[q].pages = runner[q].pages /\ runner'[q].batch = runner[q].batch
          /\ runner'[q].due = runner[q].due /\ runner'[q].held = held
          /\ runner'[q] \in Progress
      BY <2>1, <2>2, <2>3, <2>5 DEF Progress
    <2> QED BY <2>4, <2>6
  <1>15. \A q \in Runners : Fits(runner'[q], Entered')
    BY <1>9, <1>14, RunnerTyped DEF Fits
  <1>16. RunnersTyped'
    <2>1. runner' \in [Runners -> Progress]
      BY <1>14 DEF Write
    <2> QED BY <1>15, <2>1 DEF RunnersTyped
  <1>17. ASSUME NEW q \in Runners PROVE Honest(q, runner'[q], known', entry')
    <2>1. Honest(q, runner[q], known, entry) /\ Fits(runner[q], Entered)
      BY RunnerTyped
    <2>2. CASE q = r
      BY <1>5, <1>14, <2>1, <2>2 DEF Honest
    <2>3. CASE q # r
      <3>1. Alone => runner[q].held = None
        BY <1>5, <2>1, <2>3 DEF Alone, Honest
      <3> QED BY <1>1, <1>14, <2>1, <2>3, <3>1 DEF Honest
    <2> QED BY <2>2, <2>3
  <1>18. RunsHonest'
    BY <1>17 DEF RunsHonest
  <1>19. RunsCover'
    BY <1>1, <1>9, <1>14, RunnerTyped DEF RunsCover
  <1> QED BY <1>11, <1>12, <1>13, <1>16, <1>18, <1>19 DEF PornInv

-----------------------------------------------------------------------------
LEMMA PornInit == FeedInit => PornInv
  <1> SUFFICES ASSUME FeedInit PROVE PornInv
    OBVIOUS
  <1>1. Unentered.there = FALSE /\ \A p \in Posts : entry[p] = Unentered
    BY DEF FeedInit, Unentered
  <1>2. Entered = {}
    BY <1>1 DEF Entered
  <1>3. 0 \in 0..LastPost /\ 0 \in 0..MaxHiccups
    BY PornripsBounds
  <1>4. Top \in Cursors /\ Top.due = {}
    BY DEF Top, Cursors
  <1>5. TablesTyped
    <2>1. entry \in [Posts -> {Unentered} \cup Fields]
      BY DEF FeedInit
    <2>2. published \in 0..LastPost /\ hiccups \in 0..MaxHiccups
      BY <1>3 DEF FeedInit
    <2> QED BY <1>2, <1>4, <2>1, <2>2 DEF FeedInit, TablesTyped
  <1>6. \A r \in Runners : runner[r] = Idle
    BY DEF FeedInit
  <1>7. Idle \in Progress
    BY IdleFits DEF Fits
  <1>8. RunnersTyped /\ RunsHonest /\ RunsCover
    BY <1>6, <1>7, IdleFits DEF FeedInit, RunnersTyped, RunsHonest, RunsCover
  <1>9. CursorCovers
    BY <1>4 DEF FeedInit, CursorCovers, Covers
  <1> QED BY <1>1, <1>5, <1>8, <1>9 DEF PornInv, HitsKnown

LEMMA PornStep == PornInv /\ [FeedNext]_feedVars => PornInv'
  <1> SUFFICES ASSUME PornInv, [FeedNext]_feedVars PROVE PornInv'
    OBVIOUS
  <1>1. CASE Publish
    BY <1>1, PublishKeeps
  <1>2. ASSUME NEW p \in Posts, Learn(p) PROVE PornInv'
    BY <1>2, LearnKeeps
  <1>3. ASSUME NEW r \in Runners, RunnerStep(r) PROVE PornInv'
    <2>1. CASE Begins(r)
      BY <2>1, BeginsKeeps
    <2>2. CASE ReadPage(r)
      BY <2>2, ReadPageKeeps
    <2>3. CASE EndOfFeed(r)
      BY <2>3, EndOfFeedKeeps
    <2>4. CASE ReadBackfill(r)
      BY <2>4, ReadBackfillKeeps
    <2>5. CASE ReadMissing(r)
      BY <2>5, ReadMissingKeeps
    <2>6. CASE ReadMissed(r)
      BY <2>6, ReadMissedKeeps
    <2>7. CASE Write(r)
      BY <2>7, WriteKeeps
    <2>8. CASE Finish(r)
      BY <2>8, GoesIdleKeeps
    <2>9. ASSUME NEW p \in Posts, Backfill(r, p) \/ Lookup(r, p) PROVE PornInv'
      BY <2>9, BackfillKeeps, LookupKeeps
    <2> QED BY <1>3, <2>1, <2>2, <2>3, <2>4, <2>5, <2>6, <2>7, <2>8, <2>9 DEF RunnerStep
  <1>4. ASSUME NEW r \in Runners, FeedFails(r) \/ WriteFails(r) \/ Crash(r) PROVE PornInv'
    BY <1>4, FeedFailsKeeps, WriteFailsKeeps, GoesIdleKeeps
  <1>5. CASE UNCHANGED feedVars
    BY <1>5 DEF feedVars, PornInv, TablesTyped, RunnersTyped, CursorCovers, RunsCover, HitsKnown, RunsHonest, Entered
  <1> QED BY <1>1, <1>2, <1>3, <1>4, <1>5 DEF FeedNext

LEMMA PornInvHolds == FeedSpec => []PornInv
  <1> QED BY PornInit, PornStep, PTL DEF FeedSpec

(* Every variable of the PornRips sync has its type: no run reads more pages than   *)
(* it may, and what a pass takes up or holds is an entry that is stored.            *)
THEOREM FeedTypeCorrect == FeedSpec => []FeedTypeOK
  <1>1. PornInv => FeedTypeOK
    <2> SUFFICES ASSUME PornInv PROVE FeedTypeOK
      OBVIOUS
    <2>1. place.skip \in Nat /\ published \in 0..LastPost /\ hiccups \in 0..MaxHiccups
          /\ known \subseteq 1..published /\ Entered \subseteq 1..published
      BY DEF PornInv, TablesTyped, Cursors
    <2>2. ASSUME NEW r \in Runners
          PROVE  /\ runner[r].pc \in Phases /\ runner[r].skip \in Nat /\ runner[r].pages \in 0..PagesPerTick
                 /\ runner[r].batch \subseteq Entered /\ runner[r].held.post \in Entered \cup {0}
      <3>1. Fits(runner[r], Entered) /\ runner[r] \in Progress
        BY RunnerTyped
      <3>2. runner[r].pages \in 0..PagesPerTick
        BY <3>1, PornripsBounds DEF Fits, Progress
      <3> QED BY <3>1, <3>2, NoneFields DEF Fits, Progress
    <2> QED BY <2>1, <2>2 DEF FeedTypeOK, Phases
  <1> QED BY <1>1, PornInvHolds, PTL

(* A walk that reaches the end of the feed has stored every post that was published *)
(* when it began, or failed to upsert it: for any size of page, any number of pages *)
(* a run, any runners and any failures; the cursor may point into the middle of a   *)
(* page, and new posts push the old ones back while it rests                        *)
(* (pornrips_ingest.go, PornripsIngest and its cursor).                             *)
THEOREM WalksCover == FeedSpec => WalkCovers
  <1>1. ASSUME PornInv, NEW r \in Archive, EndOfFeed(r)
        PROVE  runner[r].due \subseteq Entered \cup skipped
    <2>1. r \in Runners
      BY PornripsAssumption
    <2>2. runner[r].pc = "ingest" /\ PageAt(runner[r].skip) = {}
      BY <1>1 DEF EndOfFeed, AtEnd
    <2>3. Covers(runner[r].skip, runner[r].due, Entered \cup skipped, published)
      BY <1>1, <2>1, <2>2, RunnerTyped
    <2>4. runner[r].skip \in Nat /\ runner[r].due \in SUBSET Posts
      BY <1>1, <2>1, RunnerTyped DEF Progress
    <2>5. published \in Nat /\ Posts \subseteq Nat \ {0}
      BY <1>1, Basics DEF PornInv
    <2>6. published <= First(runner[r].skip) /\ First(runner[r].skip) \in Nat
      BY <2>2, <2>4, <2>5, PageItems, PageOfSkip
    <2>7. \A p \in Posts : ~(published - p >= First(runner[r].skip))
      BY <2>5, <2>6
    <2> QED BY <2>3, <2>4, <2>7 DEF Covers
  <1>2. PornInv /\ [FeedNext]_feedVars =>
          [\A r \in Archive : EndOfFeed(r) => runner[r].due \subseteq Entered \cup skipped]_feedVars
    BY <1>1
  <1> QED BY <1>2, PornInvHolds, PTL DEF FeedSpec, WalkCovers

(* When no two runners enrich, the title of a scene found at TPDB or StashDB is     *)
(* never lost again: the walks pass the enrichment over ($setOnInsert), and a miss   *)
(* is written only of a scene that had no match when it was looked up               *)
(* (pornrips_entries.go, UpsertPornripsEntry and UpdatePornripsEnrichment).  With    *)
(* two that enrich it fails: the run PornripsOverlap.                               *)
THEOREM EnrichmentStays ==
  ASSUME \A r, q \in Runners \ IngestOnly : r = q
  PROVE  FeedSpec => EnrichedKept
  <1>1. ASSUME PornInv, [FeedNext]_feedVars, NEW p \in Posts, entry[p].there, entry[p].hit
        PROVE  entry'[p].there /\ entry'[p].hit
    <2>1. p \in Entered /\ entry[p] \in Fields
      BY <1>1 DEF PornInv, TablesTyped, Entered, Unentered
    <2>2. ASSUME NEW r \in Runners, ReadPage(r) PROVE entry'[p].there /\ entry'[p].hit
      <3>1. PICK bad \in SUBSET PageAt(runner[r].skip) :
              entry' = [q \in Posts |-> IF q \in PageAt(runner[r].skip) \ bad THEN Ingested(entry[q]) ELSE entry[q]]
        BY <2>2 DEF ReadPage
      <3>2. /\ Entered' = Entered \cup (PageAt(runner[r].skip) \ bad)
            /\ \A q \in Entered : entry'[q].hit = entry[q].hit
        BY <1>1, <2>2, <3>1, PageStored DEF PornInv
      <3>3. p \in Entered' /\ entry'[p].hit = entry[p].hit
        BY <2>1, <3>2
      <3> QED BY <1>1, <3>3 DEF Entered
    <2>3. ASSUME NEW r \in Runners, NEW q \in Posts, Backfill(r, q) PROVE entry'[p].there /\ entry'[p].hit
      <3>1. entry' = entry \/ entry' = [entry EXCEPT ![q].hash = TRUE]
        BY <2>3 DEF Backfill
      <3> QED BY <1>1, <2>1, <3>1 DEF PornInv, TablesTyped, Fields
    <2>4. ASSUME NEW r \in Runners, Write(r) PROVE entry'[p].there /\ entry'[p].hit
      <3> DEFINE h == runner[r].held
      <3>1. h # None /\ entry' = [entry EXCEPT ![h.post] = Written(@, h.result)]
        BY <2>4 DEF Write
      <3>2. Honest(r, runner[r], known, entry) /\ Fits(runner[r], Entered)
        BY <1>1, RunnerTyped
      <3>3. h.post = p => h.result = "hit"
        BY <1>1, <3>1, <3>2 DEF Honest, Fits, Alone
      <3>4. entry'[p] = IF h.post = p THEN Written(entry[p], h.result) ELSE entry[p]
        BY <1>1, <3>1 DEF PornInv, TablesTyped
      <3> HIDE DEF h
      <3> QED BY <1>1, <2>1, <3>3, <3>4 DEF Written, Fields
    <2>5. CASE entry' = entry
      BY <1>1, <2>5
    <2>6. \/ entry' = entry
          \/ \E r \in Runners : ReadPage(r) \/ Write(r) \/ \E q \in Posts : Backfill(r, q)
      BY <1>1 DEF FeedNext, RunnerStep, Publish, Learn, Begins, EndOfFeed, ReadBackfill, ReadMissing, ReadMissed,
                  Finish, Lookup, FeedFails, WriteFails, Crash, feedVars
    <2> QED BY <2>2, <2>3, <2>4, <2>5, <2>6
  <1>2. PornInv /\ [FeedNext]_feedVars =>
          [\A p \in Posts : entry[p].there /\ entry[p].hit => entry'[p].there /\ entry'[p].hit]_feedVars
    BY <1>1
  <1> QED BY <1>2, PornInvHolds, PTL DEF FeedSpec, EnrichedKept

-----------------------------------------------------------------------------
(* SceneStore: records and their matches.                                          *)

Refs == {"none", "nohash", "hash"}
Records ==
  [there : {TRUE}, meta : BOOLEAN, attempted : SUBSET Sources, matched : SUBSET Sources,
   torrents : [Sources -> Refs]]
Magnets == \A src \in Sources : SourceProfile(src).magnet

(* A record of the store: what matched was attempted and has its torrent.      *)
Sound(r) ==
  /\ r \in Records /\ r.matched \subseteq r.attempted
  /\ \A src \in r.matched : r.torrents[src] # "none"
  /\ Magnets => \A src \in Sources : r.torrents[src] # "nohash"

SceneTyped == scene \in [Scenes -> {NoScene} \cup Records]
RecordsSound == \A s \in There : Sound(scene[s])
JobsTyped ==
  \A j \in jobs :
    /\ j \in [by : {"sync", "search"}, scene : Scenes, source : Sources, ref : {""} \cup Refs, clean : BOOLEAN]
    /\ j.by = "sync" => j.scene \in There
    /\ Magnets => j.ref # "nohash"
RestTyped ==
  /\ linked \subseteq Scenes /\ cached \subseteq Scenes /\ pending \subseteq Scenes
  /\ stride \in [Keys -> Nat] /\ lost \in 0..MaxLost
  /\ sync \in [pc : {"idle", "discover", "match"}, left : SUBSET Sources]
SceneInv == SceneTyped /\ RecordsSound /\ JobsTyped /\ RestTyped

(* What a later write does to a record: it stays, and keeps what matched.      *)
Keeps(old, new) == old.there => new.there /\ old.matched \subseteq new.matched

LEMMA RecordsAreThere ==
  /\ ~NoScene.there
  /\ \A r \in {NoScene} \cup Records : r.there \in BOOLEAN /\ (r.there <=> r \in Records)
  <1>1. NoScene.there = FALSE
    BY DEF NoScene
  <1>2. \A r \in Records : r.there = TRUE
    BY DEF Records
  <1>3. NoScene \notin Records
    BY <1>1, <1>2
  <1> QED BY <1>1, <1>2, <1>3

LEMMA BlankSound == Sound(Blank) /\ Sound(Stub)
  <1>1. Blank \in Records /\ Stub \in Records
    BY DEF Blank, Stub, Records, Refs
  <1>2. Blank.matched = {} /\ Stub.matched = {} /\ Stub.torrents = Blank.torrents
    BY DEF Blank, Stub
  <1>3. \A src \in Sources : Blank.torrents[src] = "none"
    BY DEF Blank
  <1> QED BY <1>1, <1>2, <1>3 DEF Sound

LEMMA StubbedSound ==
  ASSUME NEW old, old = NoScene \/ Sound(old)
  PROVE  Sound(Stubbed(old)) /\ Keeps(old, Stubbed(old))
  BY BlankSound, RecordsAreThere DEF Stubbed, Keeps, Sound

LEMMA MergeSound ==
  ASSUME NEW old, old = NoScene \/ Sound(old), NEW source \in Sources, NEW ref \in Refs,
         Magnets => ref # "nohash"
  PROVE  Sound(Merge(old, source, ref)) /\ Keeps(old, Merge(old, source, ref))
  <1> DEFINE r == OrBlank(old)
             new == Merge(old, source, ref)
  <1>1. Sound(r) /\ Keeps(old, r)
    BY BlankSound, RecordsAreThere DEF OrBlank, Keeps, Sound
  <1>2. new = [r EXCEPT !.attempted = @ \cup {source},
                        !.matched = IF ref = "none" THEN @ ELSE @ \cup {source},
                        !.torrents[source] = IF ref = "none" THEN @ ELSE ref]
    BY DEF Merge
  <1> HIDE DEF r, new
  <1>3. r \in Records
    BY <1>1 DEF Sound
  <1>4. /\ new.there = r.there /\ new.meta = r.meta
        /\ new.attempted = r.attempted \cup {source}
        /\ new.matched = IF ref = "none" THEN r.matched ELSE r.matched \cup {source}
        /\ new.torrents = [r.torrents EXCEPT ![source] = IF ref = "none" THEN @ ELSE ref]
        /\ new = [there |-> new.there, meta |-> new.meta, attempted |-> new.attempted,
                  matched |-> new.matched, torrents |-> new.torrents]
    BY <1>2, <1>3 DEF Records
  <1>5. /\ r.there = TRUE /\ r.meta \in BOOLEAN /\ r.attempted \subseteq Sources
        /\ r.matched \subseteq Sources /\ r.torrents \in [Sources -> Refs]
    BY <1>3 DEF Records
  <1>6. new.torrents \in [Sources -> Refs]
    BY <1>4, <1>5
  <1>7. new \in Records
    BY <1>4, <1>5, <1>6 DEF Records
  <1>8. \A src \in new.matched : new.torrents[src] # "none"
    BY <1>1, <1>4, <1>5 DEF Sound
  <1>9. Magnets => \A src \in Sources : new.torrents[src] # "nohash"
    BY <1>1, <1>4, <1>5 DEF Sound
  <1>10. new.matched \subseteq new.attempted
    BY <1>1, <1>4 DEF Sound
  <1>11. Keeps(old, new)
    BY <1>1, <1>4, <1>5 DEF Keeps
  <1>12. Sound(new)
    BY <1>7, <1>8, <1>9, <1>10 DEF Sound
  <1> QED BY <1>11, <1>12 DEF new

LEMMA SceneStart == SceneInit => SceneInv
  <1> SUFFICES ASSUME SceneInit PROVE SceneInv
    OBVIOUS
  <1>1. There = {}
    BY RecordsAreThere DEF SceneInit, There
  <1>2. SceneTyped
    BY DEF SceneInit, SceneTyped
  <1>3. RestTyped
    BY SceneBounds DEF SceneInit, RestTyped
  <1> QED BY <1>1, <1>2, <1>3 DEF SceneInit, SceneInv, RecordsSound, JobsTyped

(* A record stays as it is. *)
LEMMA SameScenes ==
  ASSUME SceneInv, scene' = scene
  PROVE  SceneTyped' /\ RecordsSound' /\ There' = There /\ \A s \in There : Keeps(scene[s], scene'[s])
  BY DEF SceneInv, SceneTyped, RecordsSound, There, Keeps

(* Some records are replaced by sound ones that keep what matched. *)
LEMMA WrittenScenes ==
  ASSUME SceneInv, NEW some \in SUBSET Scenes, scene' = [s \in Scenes |-> scene'[s]],
         \A s \in Scenes \ some : scene'[s] = scene[s],
         \A s \in some : Sound(scene'[s]) /\ Keeps(scene[s], scene'[s])
  PROVE  SceneTyped' /\ RecordsSound' /\ There \subseteq There' /\ \A s \in There : Keeps(scene[s], scene'[s])
  <1>1. \A s \in some : scene'[s] \in Records
    BY DEF Sound
  <1>2. \A s \in Scenes : scene'[s] \in {NoScene} \cup Records
    BY <1>1 DEF SceneInv, SceneTyped
  <1>3. SceneTyped'
    BY <1>2 DEF SceneTyped
  <1>4. \A s \in Scenes : scene[s].there => scene'[s].there
    BY DEF Keeps
  <1> QED BY <1>3, <1>4 DEF SceneInv, RecordsSound, There, Keeps

(* A scene is stored or has a sound record, whichever actor reads it. *)
LEMMA ScenesSound ==
  ASSUME SceneInv, NEW s \in Scenes
  PROVE  scene[s] = NoScene \/ Sound(scene[s])
  BY RecordsAreThere DEF SceneInv, SceneTyped, RecordsSound, There

(* The steps that write no record and start no job leave the rest typed. *)
LEMMA JobsStay ==
  ASSUME SceneInv, There \subseteq There', jobs' \subseteq jobs
  PROVE  JobsTyped'
  BY DEF SceneInv, JobsTyped

LEMMA LostBounds ==
  ASSUME SceneInv
  PROVE  lost \in 0..MaxLost /\ MaxLost \in Nat
  BY SceneBounds DEF SceneInv, RestTyped

NextOK == SceneTyped' /\ RecordsSound' /\ There \subseteq There' /\ \A s \in There : Keeps(scene[s], scene'[s])

LEMMA DiscoverOK == ASSUME SceneInv, Discover PROVE NextOK /\ SceneInv'
  <1>1. NextOK
    BY SameScenes DEF Discover, NextOK
  <1>2. JobsTyped'
    BY <1>1, JobsStay DEF Discover, NextOK
  <1>3. RestTyped'
    <2>1. stride' \in [Keys -> Nat]
      BY SceneAssumption DEF Discover
    <2>2. sync' = [sync EXCEPT !.pc = "discover"]
      BY DEF Discover
    <2>3. sync' \in [pc : {"idle", "discover", "match"}, left : SUBSET Sources]
      BY <2>2 DEF SceneInv, RestTyped
    <2> QED BY <2>1, <2>3 DEF SceneInv, RestTyped, Discover
  <1> QED BY <1>1, <1>2, <1>3 DEF SceneInv, NextOK

LEMMA StrideNat ==
  ASSUME SceneInv, NEW k \in Keys
  PROVE  stride[k] \in Nat /\ Cardinality(Keys) \in Nat
  BY SceneAssumption, FS_CardinalityType DEF SceneInv, RestTyped

LEMMA WalkPageOK == ASSUME SceneInv, NEW k \in Keys, WalkPage(k) PROVE NextOK /\ SceneInv'
  <1> DEFINE items == PageOf(stride[k])
  <1>1. items \subseteq Scenes
    BY SceneAssumption DEF PageOf
  <1>2. PICK bad \in SUBSET items :
          /\ lost + Cardinality(bad) <= MaxLost
          /\ scene' = [s \in Scenes |-> IF s \in items \ bad THEN Stubbed(scene[s]) ELSE scene[s]]
          /\ lost' = lost + Cardinality(bad)
    BY DEF WalkPage
  <1>3. stride' = [stride EXCEPT ![k] =
          IF Cardinality(items) < FullPage \/ @ + Cardinality(Keys) > Len(Browse)
          THEN 0 ELSE @ + Cardinality(Keys)]
    BY DEF WalkPage
  <1> HIDE DEF items
  <1>4. NextOK
    <2>1. \A s \in items \ bad : Sound(Stubbed(scene[s])) /\ Keeps(scene[s], Stubbed(scene[s]))
      BY <1>1, ScenesSound, StubbedSound
    <2>2. /\ items \ bad \in SUBSET Scenes
          /\ scene' = [s \in Scenes |-> scene'[s]]
          /\ \A s \in Scenes : scene'[s] = IF s \in items \ bad THEN Stubbed(scene[s]) ELSE scene[s]
      BY <1>1, <1>2
    <2>3. /\ \A s \in Scenes \ (items \ bad) : scene'[s] = scene[s]
          /\ \A s \in items \ bad : Sound(scene'[s]) /\ Keeps(scene[s], scene'[s])
      BY <2>1, <2>2
    <2> QED BY <2>2, <2>3, WrittenScenes DEF NextOK
  <1>5. lost' \in 0..MaxLost
    <2>1. Cardinality(bad) \in Nat
      BY <1>1, SceneAssumption, FS_Subset, FS_CardinalityType
    <2>2. lost \in 0..MaxLost
      BY DEF SceneInv, RestTyped
    <2> QED BY <1>2, <2>1, <2>2, SceneBounds
  <1>6. stride' \in [Keys -> Nat]
    BY <1>3, StrideNat DEF SceneInv, RestTyped
  <1>7. RestTyped'
    BY <1>5, <1>6 DEF SceneInv, RestTyped, WalkPage
  <1>8. JobsTyped'
    BY <1>4, JobsStay DEF WalkPage, NextOK
  <1> QED BY <1>4, <1>7, <1>8 DEF SceneInv, NextOK

LEMMA StrideFailsOK == ASSUME SceneInv, NEW k \in Keys, StrideFails(k) PROVE NextOK /\ SceneInv'
  <1>1. NextOK
    BY SameScenes DEF StrideFails, NextOK
  <1>2. JobsTyped'
    BY <1>1, JobsStay DEF StrideFails, NextOK
  <1>3. RestTyped'
    BY SceneBounds DEF SceneInv, RestTyped, StrideFails, MayLose
  <1> QED BY <1>1, <1>2, <1>3 DEF SceneInv, NextOK

LEMMA DiscoveredOK == ASSUME SceneInv, Discovered PROVE NextOK /\ SceneInv'
  <1>1. NextOK
    BY SameScenes DEF Discovered, NextOK
  <1>2. JobsTyped'
    BY <1>1, JobsStay DEF Discovered, NextOK
  <1>3. RestTyped'
    BY DEF SceneInv, RestTyped, Discovered
  <1> QED BY <1>1, <1>2, <1>3 DEF SceneInv, NextOK

LEMMA NextSourceOK == ASSUME SceneInv, NextSource PROVE NextOK /\ SceneInv'
  <1>1. NextOK
    BY SameScenes DEF NextSource, NextOK
  <1>2. CASE sync.left = {}
    <2>1. sync' = [sync EXCEPT !.pc = "idle"] /\ jobs' = jobs
      BY <1>2 DEF NextSource
    <2>2. RestTyped'
      <3>1. sync' \in [pc : {"idle", "discover", "match"}, left : SUBSET Sources]
        BY <2>1 DEF SceneInv, RestTyped
      <3> QED BY <3>1 DEF SceneInv, RestTyped, NextSource
    <2>3. JobsTyped'
      BY <1>1, <2>1, JobsStay DEF NextOK
    <2> QED BY <1>1, <2>2, <2>3 DEF SceneInv, NextOK
  <1>3. CASE sync.left # {}
    <2>1. PICK source \in sync.left :
            /\ sync' = [sync EXCEPT !.left = @ \ {source}]
            /\ jobs' = jobs \cup {Job("sync", s, source) : s \in NewestOf(PerSource, Unmatched(source))}
      BY <1>3 DEF NextSource
    <2>2. source \in Sources
      BY DEF SceneInv, RestTyped
    <2>3. RestTyped'
      <3>1. sync' \in [pc : {"idle", "discover", "match"}, left : SUBSET Sources]
        BY <2>1 DEF SceneInv, RestTyped
      <3> QED BY <3>1 DEF SceneInv, RestTyped, NextSource
    <2>4. \A j \in jobs' : j \in jobs \/ \E s \in There : j = Job("sync", s, source)
      BY <2>1 DEF NewestOf, Unmatched
    <2>5. JobsTyped'
      <3> SUFFICES ASSUME NEW j \in jobs'
                   PROVE  /\ j \in [by : {"sync", "search"}, scene : Scenes, source : Sources,
                                     ref : {""} \cup Refs, clean : BOOLEAN]
                          /\ j.by = "sync" => j.scene \in There'
                          /\ Magnets => j.ref # "nohash"
        BY DEF JobsTyped
      <3>1. CASE j \in jobs
        BY <3>1, <1>1 DEF SceneInv, JobsTyped, NextOK
      <3>2. CASE \E s \in There : j = Job("sync", s, source)
        <4>1. PICK s \in There : j = Job("sync", s, source)
          BY <3>2
        <4>2. s \in Scenes /\ s \in There'
          BY <1>1 DEF There, NextOK
        <4>3. /\ j \in [by : {"sync", "search"}, scene : Scenes, source : Sources,
                         ref : {""} \cup Refs, clean : BOOLEAN]
              /\ j.by = "sync" /\ j.scene = s /\ j.ref = ""
          BY <4>1, <4>2, <2>2 DEF Job, Refs
        <4> QED BY <4>2, <4>3
      <3> QED BY <2>4, <3>1, <3>2
    <2> QED BY <1>1, <2>3, <2>5 DEF SceneInv, NextOK
  <1> QED BY <1>2, <1>3

LEMMA SearchOK ==
  ASSUME SceneInv, NEW s \in Scenes, NEW sources \in Configs, Search(s, sources)
  PROVE  NextOK /\ SceneInv'
  <1>1. NextOK
    <2>1. CASE scene' = scene
      BY <2>1, SameScenes DEF NextOK
    <2>2. CASE scene' = [scene EXCEPT ![s] = Stubbed(@)]
      <3>1. /\ {s} \in SUBSET Scenes /\ scene' = [t \in Scenes |-> scene'[t]]
            /\ \A t \in Scenes \ {s} : scene'[t] = scene[t]
            /\ scene'[s] = Stubbed(scene[s])
        BY <2>2 DEF SceneInv, SceneTyped
      <3>2. \A t \in {s} : Sound(scene'[t]) /\ Keeps(scene[t], scene'[t])
        BY <3>1, ScenesSound, StubbedSound
      <3> QED BY <3>1, <3>2, WrittenScenes DEF NextOK
    <2> QED BY <2>1, <2>2 DEF Search
  <1>2. RestTyped'
    <2>1. lost' \in 0..MaxLost
      BY SceneBounds DEF SceneInv, RestTyped, Search, MayLose
    <2> QED BY <2>1 DEF SceneInv, RestTyped, Search
  <1>3. \A j \in jobs' : j \in jobs \/ \E source \in sources : j = Job("search", s, source)
    BY DEF Search
  <1>4. sources \subseteq Sources
    BY SceneAssumption
  <1>5. JobsTyped'
    <2> SUFFICES ASSUME NEW j \in jobs'
                 PROVE  /\ j \in [by : {"sync", "search"}, scene : Scenes, source : Sources,
                                   ref : {""} \cup Refs, clean : BOOLEAN]
                        /\ j.by = "sync" => j.scene \in There'
                        /\ Magnets => j.ref # "nohash"
      BY DEF JobsTyped
    <2>1. CASE j \in jobs
      BY <2>1, <1>1 DEF SceneInv, JobsTyped, NextOK
    <2>2. CASE \E source \in sources : j = Job("search", s, source)
      <3>1. PICK source \in Sources : j = Job("search", s, source)
        BY <2>2, <1>4
      <3>3. /\ j \in [by : {"sync", "search"}, scene : Scenes, source : Sources,
                       ref : {""} \cup Refs, clean : BOOLEAN]
            /\ j.by = "search" /\ j.scene = s /\ j.ref = ""
        BY <3>1 DEF Job, Refs
      <3> QED BY <3>3
    <2> QED BY <1>3, <2>1, <2>2
  <1> QED BY <1>1, <1>2, <1>5 DEF SceneInv, NextOK

LEMMA SearchTimesOutOK == ASSUME SceneInv, SearchTimesOut PROVE NextOK /\ SceneInv'
  <1>1. NextOK
    BY SameScenes DEF SearchTimesOut, NextOK
  <1>2. JobsTyped'
    BY <1>1, JobsStay DEF SearchTimesOut, NextOK
  <1> QED BY <1>1, <1>2 DEF SceneInv, NextOK, RestTyped, SearchTimesOut

(* An answer that is a result of the source. *)
LEMMA ReturnTyped ==
  ASSUME SceneInv, NextOK, NEW j \in jobs, NEW ref \in Refs, Magnets => ref # "nohash",
         NEW clean \in BOOLEAN, Return(j, ref, clean)
  PROVE  JobsTyped'
  <1> DEFINE k == [j EXCEPT !.ref = ref, !.clean = clean]
  <1>1. jobs' = (jobs \ {j}) \cup {k}
    BY DEF Return
  <1>2. /\ k \in [by : {"sync", "search"}, scene : Scenes, source : Sources, ref : {""} \cup Refs, clean : BOOLEAN]
        /\ k.by = j.by /\ k.scene = j.scene /\ k.ref = ref
    BY DEF SceneInv, JobsTyped
  <1> HIDE DEF k
  <1> QED BY <1>1, <1>2 DEF SceneInv, JobsTyped, NextOK

LEMMA AnswersOK == ASSUME SceneInv, NEW j \in jobs, Answers(j) PROVE NextOK /\ SceneInv'
  <1>1. NextOK
    BY SameScenes DEF Answers, NextOK
  <1>2. Ref(j) \in Refs /\ (Magnets => Ref(j) # "nohash")
    BY DEF Ref, Refs, Magnets, SceneInv, JobsTyped
  <1>3. JobsTyped'
    BY <1>1, <1>2, ReturnTyped DEF Answers
  <1> QED BY <1>1, <1>3 DEF SceneInv, NextOK, RestTyped, Answers

LEMMA CacheMissesOK == ASSUME SceneInv, NEW j \in jobs, CacheMisses(j) PROVE NextOK /\ SceneInv'
  <1>1. NextOK
    BY SameScenes DEF CacheMisses, NextOK
  <1>2. JobsTyped'
    BY <1>1, ReturnTyped DEF CacheMisses, Refs
  <1>3. RestTyped'
    BY DEF SceneInv, RestTyped, JobsTyped, CacheMisses
  <1> QED BY <1>1, <1>2, <1>3 DEF SceneInv, NextOK

LEMMA SearchFailsOK == ASSUME SceneInv, NEW j \in jobs, SearchFails(j) PROVE NextOK /\ SceneInv'
  <1>1. NextOK
    BY SameScenes DEF SearchFails, NextOK
  <1>2. (~Reported(j)) \in BOOLEAN
    OBVIOUS
  <1>3. JobsTyped'
    BY <1>1, <1>2, ReturnTyped DEF SearchFails, Refs
  <1>4. RestTyped'
    <2>1. lost < MaxLost /\ lost' = lost + 1
      BY DEF SearchFails, MayLose
    <2>2. lost' \in 0..MaxLost
      BY <2>1, LostBounds
    <2> QED BY <2>2 DEF SceneInv, RestTyped, SearchFails
  <1> QED BY <1>1, <1>3, <1>4 DEF SceneInv, NextOK

LEMMA StoreOK == ASSUME SceneInv, NEW j \in jobs, Store(j) PROVE NextOK /\ SceneInv'
  <1>0. /\ j.scene \in Scenes /\ j.source \in Sources /\ j.ref \in Refs
        /\ Magnets => j.ref # "nohash"
    BY DEF SceneInv, JobsTyped, Store
  <1>1. NextOK
    <2>1. CASE scene' = scene
      BY <2>1, SameScenes DEF NextOK
    <2>2. CASE scene' = [scene EXCEPT ![j.scene] = Merge(@, j.source, j.ref)]
      <3>1. /\ {j.scene} \in SUBSET Scenes /\ scene' = [t \in Scenes |-> scene'[t]]
            /\ \A t \in Scenes \ {j.scene} : scene'[t] = scene[t]
            /\ scene'[j.scene] = Merge(scene[j.scene], j.source, j.ref)
        BY <2>2, <1>0 DEF SceneInv, SceneTyped
      <3>2. Sound(Merge(scene[j.scene], j.source, j.ref))
            /\ Keeps(scene[j.scene], Merge(scene[j.scene], j.source, j.ref))
        BY <1>0, ScenesSound, MergeSound
      <3>3. \A t \in {j.scene} : Sound(scene'[t]) /\ Keeps(scene[t], scene'[t])
        BY <3>1, <3>2
      <3> QED BY <3>1, <3>3, WrittenScenes DEF NextOK
    <2> QED BY <2>1, <2>2 DEF Store
  <1>2. JobsTyped'
    BY <1>1, JobsStay DEF Store, NextOK
  <1>3. lost' \in 0..MaxLost
    <2>1. lost' = lost \/ (lost < MaxLost /\ lost' = lost + 1)
      BY DEF Store, MayLose
    <2> QED BY <2>1, LostBounds
  <1> QED BY <1>1, <1>2, <1>3 DEF SceneInv, NextOK, RestTyped, Store

LEMMA RefreshOK == ASSUME SceneInv, NEW s \in Scenes, Refresh(s) PROVE NextOK /\ SceneInv'
  <1>1. NextOK
    BY SameScenes DEF Refresh, NextOK
  <1>2. JobsTyped'
    BY <1>1, JobsStay DEF Refresh, NextOK
  <1>3. RestTyped'
    BY DEF SceneInv, RestTyped, Refresh
  <1> QED BY <1>1, <1>2, <1>3 DEF SceneInv, NextOK

LEMMA RelinkOK == ASSUME SceneInv, NEW s \in Scenes, Relink(s) PROVE NextOK /\ SceneInv'
  <1>1. NextOK
    BY SameScenes DEF Relink, NextOK
  <1>2. JobsTyped'
    BY <1>1, JobsStay DEF Relink, NextOK
  <1>3. RestTyped'
    BY DEF SceneInv, RestTyped, Relink
  <1> QED BY <1>1, <1>2, <1>3 DEF SceneInv, NextOK

LEMMA SceneStep == SceneInv /\ [SceneNext]_sceneVars => NextOK /\ SceneInv'
  <1> SUFFICES ASSUME SceneInv, [SceneNext]_sceneVars PROVE NextOK /\ SceneInv'
    OBVIOUS
  <1>1. CASE UNCHANGED sceneVars
    <2>1. NextOK
      BY <1>1, SameScenes DEF NextOK, sceneVars
    <2>2. JobsTyped'
      BY <1>1, <2>1, JobsStay DEF NextOK, sceneVars
    <2> QED BY <1>1, <2>1, <2>2 DEF SceneInv, NextOK, RestTyped, sceneVars
  <1>2. \A actor : Mine(actor) \subseteq jobs
    BY DEF Mine
  <1>3. CASE \E actor \in {"sync", "search"} : JobStep(actor)
    <2>1. PICK j \in jobs : Answers(j) \/ CacheMisses(j) \/ Store(j)
      BY <1>2, <1>3 DEF JobStep
    <2> QED BY <2>1, AnswersOK, CacheMissesOK, StoreOK
  <1>4. CASE SyncStep
    BY <1>4, DiscoverOK, DiscoveredOK, NextSourceOK, WalkPageOK DEF SyncStep
  <1>5. CASE SearchTimesOut
    BY <1>5, SearchTimesOutOK
  <1>6. CASE \E k \in Keys : StrideFails(k)
    BY <1>6, StrideFailsOK
  <1>7. CASE \E s \in Scenes : (\E sources \in Configs : Search(s, sources)) \/ Refresh(s) \/ Relink(s)
    BY <1>7, SearchOK, RefreshOK, RelinkOK
  <1>8. CASE \E j \in jobs : SearchFails(j)
    BY <1>8, SearchFailsOK
  <1> QED BY <1>1, <1>3, <1>4, <1>5, <1>6, <1>7, <1>8 DEF SceneNext

LEMMA SceneInvHolds == SceneSpec => []SceneInv
  BY SceneStart, SceneStep, PTL DEF SceneSpec

(* Every variable of the scene store has its type: what matched was attempted, and  *)
(* every torrent is kept under its source.                                          *)
THEOREM SceneTypeCorrect == SceneSpec => []SceneTypeOK
  <1>1. SceneInv => SceneTypeOK
    <2> SUFFICES ASSUME SceneInv PROVE SceneTypeOK
      OBVIOUS
    <2>1. \A s \in There :
            /\ scene[s].matched \subseteq scene[s].attempted /\ scene[s].attempted \subseteq Sources
            /\ scene[s].torrents \in [Sources -> {"none", "nohash", "hash"}]
      BY DEF SceneInv, RecordsSound, Sound, Records, Refs
    <2>2. \A j \in jobs : j.scene \in There \/ j.by = "search"
      BY DEF SceneInv, JobsTyped
    <2> QED BY <2>1, <2>2 DEF SceneInv, RestTyped, SceneTypeOK
  <1> QED BY <1>1, SceneInvHolds, PTL

(* However the sync, the search worker, the refresh and the relinking interleave,   *)
(* and whichever searches fail, a scene that a source matched stays, with a torrent *)
(* of that source (enriched_scenes.go, the $addToSet of matched_sources).            *)
THEOREM MatchesStay == SceneSpec => MatchKept
  <1>1. SceneInv /\ [SceneNext]_sceneVars =>
          [\A s \in There : scene'[s].there /\ \A src \in scene[s].matched : scene'[s].torrents[src] # "none"]_sceneVars
    <2> SUFFICES ASSUME SceneInv, [SceneNext]_sceneVars, NEW s \in There
                 PROVE  scene'[s].there /\ \A src \in scene[s].matched : scene'[s].torrents[src] # "none"
      OBVIOUS
    <2>1. NextOK
      BY SceneStep
    <2>2. s \in There' /\ Keeps(scene[s], scene'[s]) /\ Sound(scene'[s])
      BY <2>1 DEF NextOK, RecordsSound
    <2> QED BY <2>2 DEF There, Keeps, Sound
  <1> QED BY <1>1, SceneInvHolds, PTL DEF SceneSpec, MatchKept

(* When every source's rows carry a magnet, a scene that is listed for the sources *)
(* a user configured opens with a stream of one of them (tpdb_catalog.go,           *)
(* sceneStreams).  1337x rows carry none, and then a listed scene may not open.      *)
THEOREM ListedScenesOpen ==
  ASSUME \A src \in Sources : SourceProfile(src).magnet
  PROVE  SceneSpec => []ListedOpens
  <1>1. SceneInv => ListedOpens
    <2> SUFFICES ASSUME SceneInv, NEW sources \in Configs, NEW s \in Shows(sources)
                 PROVE  Streams(s, sources) # {}
      BY DEF ListedOpens
    <2>1. PICK src \in sources : src \in scene[s].matched /\ s \in There
      BY DEF Shows
    <2>2. Sound(scene[s]) /\ Magnets
      BY <2>1 DEF SceneInv, RecordsSound, Magnets
    <2>3. src \in Sources /\ scene[s].torrents[src] \in Refs
      BY <2>1, <2>2 DEF Sound, Records
    <2>4. scene[s].torrents[src] = "hash"
      BY <2>1, <2>2, <2>3 DEF Sound, Refs
    <2> QED BY <2>1, <2>3, <2>4 DEF Streams
  <1> QED BY <1>1, SceneInvHolds, PTL
=============================================================================
