------------------------------ MODULE FeedSync ------------------------------
(***************************************************************************)
(* The syncs that mirror a site's newest-first feed into a Mongo           *)
(* collection (src/internal/services/jobs/*_sync.go, hentai_ingest.go): a  *)
(* resumable walk over the listing pages that upserts every card, and a    *)
(* sweep that completes the entries from their detail pages.  The six      *)
(* syncs share their control and differ in the records below.              *)
(*                                                                         *)
(* An entry is reduced to the flag detail_scraped and to the fields whose  *)
(* value comes from the detail page.                                       *)
(***************************************************************************)
EXTENDS Integers, FiniteSets, Sequences, SequencesExt

CONSTANTS
  Sites,     (* the syncs of this instance                                      *)
  Runs,      (* the runs that may overlap: the ticker's and the triggers'       *)
  MaxPosts,  (* bound on the posts the site publishes                           *)
  PageSize,  (* cards per listing page                                          *)
  PagesCaps, (* the values of <SITE>_INGEST_PAGES_PER_TICK                       *)
  PerTick,   (* <site>EnrichPerTick                                             *)
  MaxFaults  (* bound on failing calls and restarts                             *)

VARIABLES
  site,   (* the sync, never changes                                            *)
  posts,  (* the number of posts published so far                               *)
  feed,   (* the posts the site lists, newest first                             *)
  store,  (* the collection                                                     *)
  cursor, (* the KV entry <site>_ingest_cursor                                  *)
  run,    (* per run, where it is                                               *)
  faults

vars == <<site, posts, feed, store, cursor, run, faults>>
siteVars == <<site, posts, feed>>

-----------------------------------------------------------------------------
(* The detail pages, as EnrichEntry reads them: the fields they give.          *)
PerverzijaPage == {"performers", "poster", "description", "stream_hash"}
PorneecPage == {"date", "description", "stream_url"}
WatchpornPage ==
  {"date", "poster", "duration", "studios", "tags", "performers", "description"}
FreepornvideosPage == {"date", "duration", "categories", "network", "description"}
YespornPage == WatchpornPage

(* The entries.  sets: the fields that every upsert of a card writes; enriches: *)
(* those that the detail sweep writes, and an upsert only when it inserts.     *)
PerverzijaEntry ==
  [sets |-> {"title", "detail_url", "date", "excerpt", "wp_poster", "studios", "tags", "duration"},
   enriches |-> {"performers", "poster", "description", "stream_hash"}]

PorneecEntry ==
  [sets |-> {"title", "detail_url", "poster", "duration", "studios", "performers"},
   enriches |-> {"date", "description", "stream_url"}]

FreepornvideosEntry ==
  [sets |-> {"title", "detail_url", "excerpt", "poster", "studio", "performers", "rating",
             "views", "has_4k"},
   enriches |-> {"date", "duration", "categories", "network", "description"}]

WatchpornEntry ==
  [sets |-> {"title", "detail_url", "has_4k"},
   enriches |-> {"date", "poster", "duration", "studios", "tags", "performers", "description"}]

YespornEntry == WatchpornEntry

(* A series comes complete with its listing: there is no detail sweep. *)
HentaiEntry ==
  [sets |-> {"title", "poster", "excerpt", "studio", "genres", "rating", "episodes"},
   enriches |-> {}]

(* The syncs.  pins: where a run starts, "no" at the cursor, "store" at a       *)
(* cursor it resets first, "ignore" at the top without touching the cursor.    *)
(* dedups: a page without a new card ends the walk, as the pages never run out. *)
(* onError: what a failing page leaves in the cursor.  cap: pages per run, set  *)
(* from the environment.                                                       *)
Sync(entry, page) ==
  [entry |-> entry, page |-> page, pins |-> "no", dedups |-> FALSE, onError |-> "keep",
   cap |-> 0]

Perverzija == Sync(PerverzijaEntry, PerverzijaPage)
Porneec == Sync(PorneecEntry, PorneecPage)
Freepornvideos == Sync(FreepornvideosEntry, FreepornvideosPage)
Watchporn == [Sync(WatchpornEntry, WatchpornPage) EXCEPT !.pins = "store"]
YespornFill == [Sync(YespornEntry, YespornPage) EXCEPT !.dedups = TRUE]
Yesporn == [YespornFill EXCEPT !.pins = "store"]
Hentai == [Sync(HentaiEntry, {}) EXCEPT !.onError = "reset"]
HentaiRecent == [Sync(HentaiEntry, {}) EXCEPT !.pins = "ignore"]

(* No field belongs to both the listing and the detail sweep. *)
Profile ==
  [entry : [sets : SUBSET STRING, enriches : SUBSET STRING], page : SUBSET STRING,
   pins : {"no", "store", "ignore"}, dedups : BOOLEAN, onError : {"keep", "reset"}, cap : {0}]

ASSUME SitesAssumption ==
  /\ Sites \subseteq Profile
  /\ \A s \in Sites : s.entry.sets \cap s.entry.enriches = {}

-----------------------------------------------------------------------------
Post == 1 .. MaxPosts
Absent == [scraped |-> FALSE, detail |-> {"absent"}]
Stored == {p \in Post : store[p] # Absent}
Listed == ToSet(feed)

Off == [at |-> "off", page |-> 0, walked |-> 0, todo |-> {}]
Walking(page, walked) == [at |-> "ingest", page |-> page, walked |-> walked, todo |-> {}]
Scanning == [Off EXCEPT !.at = "scan"]
Enriching(todo) == IF todo = {} THEN Off ELSE [Off EXCEPT !.at = "enrich", !.todo = todo]

Init ==
  /\ \E s \in Sites, c \in PagesCaps : site = [s EXCEPT !.cap = c]
  /\ posts = 0 /\ feed = <<>>
  /\ store = [p \in Post |-> Absent]
  /\ cursor = 0
  /\ run = [r \in Runs |-> Off]
  /\ faults = 0

Fails == faults < MaxFaults /\ faults' = faults + 1
Succeeds == UNCHANGED faults
Goto(r, state) == run' = [run EXCEPT ![r] = state]

(* store<Site>IngestCursor: a failing write is ignored. *)
PutCursor(page) ==
  \/ Succeeds /\ cursor' = page
  \/ Fails /\ UNCHANGED cursor

-----------------------------------------------------------------------------
(* The site.                                                               *)

Publishes ==
  /\ posts < MaxPosts
  /\ posts' = posts + 1
  /\ feed' = <<posts + 1>> \o feed
  /\ UNCHANGED <<site, store, cursor, run, faults>>

(* A post is taken down: its detail page answers 404 or 410 from now on. *)
TakesDown ==
  /\ \E p \in Listed : feed' = Remove(feed, p)
  /\ UNCHANGED <<site, posts, store, cursor, run, faults>>

(* IngestPage: the cards of listing page n, counted from 0.  Past the end a   *)
(* page is empty, except where the site starts over with its first cards.     *)
Page(n) ==
  {feed[i] : i \in
    {j \in 1 .. Len(feed) :
       IF site.dedups
       THEN \E k \in 0 .. PageSize - 1 : (n * PageSize + k) % Len(feed) = j - 1
       ELSE j - 1 \in n * PageSize .. n * PageSize + PageSize - 1}}

-----------------------------------------------------------------------------
(* The ingest walk.                                                        *)

(* A failing KVGet reads as 0. *)
Start(r) ==
  /\ run[r] = Off
  /\ \/ site.pins = "no" /\ Succeeds /\ UNCHANGED cursor /\ Goto(r, Walking(cursor, 0))
     \/ site.pins = "no" /\ Fails /\ UNCHANGED cursor /\ Goto(r, Walking(0, 0))
     \/ site.pins = "store" /\ PutCursor(0) /\ Goto(r, Walking(cursor', 0))
     \/ site.pins = "ignore" /\ Succeeds /\ UNCHANGED cursor /\ Goto(r, Walking(0, 0))
  /\ UNCHANGED <<siteVars, store>>

(* The tick's budget of pages.  (OneMore: an off-by-one.) *)
OneMore(r) == run[r].walked <= site.cap
More(r) == run[r].walked < site.cap

(* The listing cannot be fetched, or the context is over: the run keeps what  *)
(* it stored and starts again where this one started.                         *)
PageFails(r) ==
  /\ run[r].at = "ingest"
  /\ Fails
  /\ cursor' = IF site.onError = "reset" THEN 0 ELSE cursor
  /\ Goto(r, Scanning)
  /\ UNCHANGED <<siteVars, store>>

(* An empty page is the end of the feed: an answer 404 is taken for one, and   *)
(* so is a page on which no card is recognized, wherever the walk meets it.    *)
(* (NoReset: a bug that leaves the cursor there.)                              *)
NoReset == cursor' = cursor /\ Succeeds
Restarts == IF site.pins = "ignore" THEN Succeeds /\ UNCHANGED cursor ELSE PutCursor(0)
Mistaken == Fails /\ cursor' = IF site.pins = "ignore" THEN cursor ELSE 0

TailReached(r) ==
  /\ run[r].at = "ingest" /\ More(r)
  /\ \/ Page(run[r].page) = {} /\ Restarts
     \/ Page(run[r].page) # {} /\ Mistaken
  /\ Goto(r, Scanning)
  /\ UNCHANGED <<siteVars, store>>

(* Upsert<Site>Entry: $set writes the listing's fields, $setOnInsert the       *)
(* others, only when the entry is new.  (Overwrites: a bug that has all of     *)
(* them under $set.)                                                           *)
New == [scraped |-> FALSE, detail |-> {}]
Overwrites(old) == New
Upserted(old) ==
  IF old = Absent THEN New ELSE [old EXCEPT !.detail = @ \ site.entry.sets]

Upsert(cards) == [p \in Post |-> IF p \in cards THEN Upserted(store[p]) ELSE store[p]]

(* Upserts that fail are left out and forgotten.  The dedup test counts the    *)
(* cards that were new, unless the whole batch failed.                         *)
PageWalked(r) ==
  LET cards == Page(run[r].page)
      further == Walking(run[r].page + 1, run[r].walked + 1)
  IN  /\ run[r].at = "ingest" /\ More(r)
      /\ cards # {}
      /\ \E ok \in SUBSET cards, outage \in BOOLEAN :
           /\ outage => ok = {}
           /\ IF ok = cards THEN Succeeds ELSE Fails
           /\ store' = Upsert(ok)
           /\ IF site.dedups /\ ~outage /\ ok \subseteq Stored /\ run[r].walked > 0
              THEN cursor' = 0 /\ Goto(r, Scanning)
              ELSE UNCHANGED cursor /\ Goto(r, further)
      /\ UNCHANGED siteVars

CapReached(r) ==
  /\ run[r].at = "ingest" /\ ~More(r)
  /\ IF site.pins = "ignore" THEN Succeeds /\ UNCHANGED cursor ELSE PutCursor(run[r].page)
  /\ Goto(r, Scanning)
  /\ UNCHANGED <<siteVars, store>>

-----------------------------------------------------------------------------
(* The detail sweep, which runs however the walk ended.                    *)

(* Get<Site>MissingDetail: sorted by date, the newest first; entries without   *)
(* a date come in some fixed order, here the same.                             *)
Missing == {p \in Stored : ~store[p].scraped}
Newest(n, S) == {p \in S : Cardinality({q \in S : q > p}) < n}

Scan(r) ==
  /\ run[r].at = "scan"
  /\ \/ Succeeds /\ Goto(r, Enriching(IF site.entry.enriches = {} THEN {} ELSE Newest(PerTick, Missing)))
     \/ Fails /\ Goto(r, Off)
  /\ UNCHANGED <<siteVars, store, cursor>>

(* EnrichEntry and Update<Site>Enrichment: of a page that is gone the fields   *)
(* keep what the scan read, which had no detail.  (Retries: a bug that takes    *)
(* it for a passing failure.)                                                   *)
Completed == [scraped |-> TRUE, detail |-> site.page \cap site.entry.enriches]
Retries == New
Gone == [scraped |-> TRUE, detail |-> {}]

Detail(r, p) ==
  /\ run[r].at = "enrich" /\ p \in run[r].todo
  /\ \/ Succeeds /\ store' = [store EXCEPT ![p] = IF p \in Listed THEN Completed ELSE Gone]
     \* the page fails: the card of the scan is upserted again
     \/ Fails /\ store' = Upsert({p})
     \* the write fails
     \/ Fails /\ UNCHANGED store
  /\ Goto(r, Enriching(run[r].todo \ {p}))
  /\ UNCHANGED <<siteVars, cursor>>

(* The process restarts. *)
Restart ==
  /\ Fails
  /\ run' = [r \in Runs |-> Off]
  /\ UNCHANGED <<siteVars, store, cursor>>

RunStep(r) ==
  \/ PageFails(r) \/ TailReached(r) \/ PageWalked(r) \/ CapReached(r)
  \/ Scan(r) \/ \E p \in Post : Detail(r, p)

Next ==
  \/ Publishes \/ TakesDown \/ Restart
  \/ \E r \in Runs : Start(r) \/ RunStep(r)

Spec == Init /\ [][Next]_vars

(* Fairness: the ticker keeps starting runs and runs go on.  A manual trigger  *)
(* need not come, and calls fail only so often.                                *)
FairSpec ==
  /\ Spec
  /\ WF_vars(Start("tick"))
  /\ \A r \in Runs : WF_vars(RunStep(r))

-----------------------------------------------------------------------------
(* Types; and only what was stored is completed. *)
TypeOK ==
  /\ [site EXCEPT !.cap = 0] \in Sites /\ posts \in 0 .. MaxPosts /\ faults \in 0 .. MaxFaults
  /\ feed \in Seq(Post) /\ Listed \subseteq 1 .. posts
  /\ cursor \in 0 .. site.cap * (MaxPosts + MaxFaults + 1)
  /\ \A r \in Runs :
       /\ run[r].at \in {"off", "ingest", "scan", "enrich"}
       /\ run[r].walked \in 0 .. site.cap
       /\ run[r].todo \subseteq Stored

(* A completed entry keeps its detail for as long as the site lists it, "the   *)
(* ingest sweep re-walking ... does NOT clobber a prior detail scrape",         *)
(* whatever runs overlap and whichever of their calls fail.                     *)
DetailKept ==
  [][\A p \in Post : (p \in Listed /\ store[p] = Completed) => store'[p] = Completed]_vars

(* What the walk should reach: with the cursor everything listed, pinned to    *)
(* the top only the first pages, and where a page without a new card ends the   *)
(* walk, the first two.                                                         *)
Reach ==
  IF site.dedups THEN PageSize * Min({2, site.cap})
  ELSE IF site.pins = "no" THEN Len(feed)
  ELSE PageSize * site.cap

Reached == {p \in Listed : \E i \in 1 .. Min({Reach, Len(feed)}) : feed[i] = p}

(* A post within reach is stored, though a page fails, an upsert is dropped, a *)
(* run is cut off, and posts shift across pages while the walk goes on.         *)
ReachedIsStored == \A p \in Post : (p \in Reached) ~> (p \in Stored \/ p \notin Reached)

(* Every entry is completed or found gone: neither deleted posts nor failing   *)
(* pages keep the sweep from the entries behind them.                           *)
EveryEntrySettles ==
  \A p \in Post : (site.entry.enriches # {} /\ p \in Stored) ~> store[p].scraped

-----------------------------------------------------------------------------
(* What the comments of YespornIngest say of a page without a new card: "every *)
(* card was already in the store, so the forward walk has covered the archive": *)
(* no listed post older than a stored one is missing.                          *)
EndMeansCovered ==
  [][\A r \in Runs :
       (site.dedups /\ run[r].at = "ingest" /\ run'[r] = Scanning /\ cursor' = 0 /\ UNCHANGED faults)
         => \A p, q \in Listed : p < q /\ store[q] # Absent => store'[p] # Absent]_vars
=============================================================================
