# A verification project for torrent-search-go

TLA+ models of the concurrent and stateful parts of torrent-search-go, the TLC
configurations that check them on small instances, and proofs, checked by
TLAPS, that their safety properties hold for every value of the constants.
Every definition is translated from the Go code; `PROJECT.json` names the lines
each one stands for, the runs with their properties, the findings, the hazards
of the code and the theorems.

Run a model check with `tlc -config X.cfg MCX.tla`, the proofs with
`tlapm XProofs.tla`; each takes a few minutes at most.

## The system

One Go process serves a JSON API, a Stremio addon and a dashboard. It keeps
durable state in MongoDB, caches in Redis, a few tables in memory, and mirrors
external sites with background jobs.

| part | state | operations | hard behaviour |
|---|---|---|---|
| job scheduler (`handlers/monitoring.go`) | a goroutine, a timer, a mutex and a status per task | ticks, manual triggers, Stop | a tick and a trigger of one task coincide; Stop during a delay, a wait or a run; status timers that outlive their run |
| metadata enricher (`jobs/meta_enricher.go`) | the pending queue in memory | enqueue by handlers, drain by a tick, lookups in goroutines, requeue | three parties fill a bounded map; rate limits; favorites behind a backlog |
| shared metadata (`mongo/shared_meta.go`, `jobs/addon_redis.go`) | a Redis and a Mongo record per torrent and source, miss marks | existence reads, rehydration both ways, live and inline lookups | the reads are stale when used; each write may fail alone; Redis forgets |
| DDoS guard and rate limiter (`middleware/ddos.go`, `security.go`) | request times per address; a blocklist in memory and in Mongo | record and check, sweep; block, unblock, minute-by-minute sync | windows of different length over one pruned list; sync replaces what a handler just changed |
| feed syncs (`jobs/*_sync.go`, `hentai_ingest.go`) | a Mongo collection and a page cursor per site | ingest walk, upserts, detail sweep | posts shift across pages during the walk; failing pages and writes; a manual run beside the tick |
| stream service (`services/streams`) | the goroutines of a request, a Redis entry per title and provider list | Scrape: metadata, race, early answer, cache | providers that hang, err or queue for the semaphore; the select against the goroutines |
| AtishMKV catalog (`providers/atishmkv*.go`) | a Mongo collection, Redis links | catalog sync, link refresh by a job and by requests, lookup | sync and refresh of one entry; links that expire between two runs |
| scraper service, 1337x cache (`services/scraper`) | a queue, a pending set, two maps | fan-out; look up, schedule, worker | full queue; a key queued and in flight |
| PornRips (`jobs/pornrips_*.go`) | a collection, a skip cursor | walk, torrent backfill, two enrichment passes | a cursor that counts items of a feed that shifts; the one-off walk of the archive beside the job |
| enriched scenes (`jobs/enriched_scenes_sync.go`) | a record per scene: sources asked, sources matched, torrents | paged discovery by several keys, matching per source, matching after a search | the sync and a search write one record; what is listed must open |
| catalog caches and registry (`stremio/*.go`, `jobs/*_cache.go`, `cache/registry.go`) | Redis pages, shared by installs | warm, read through, bust | a page made for one install served to another; bust against writers |
| fan-outs (everywhere) | goroutines, a semaphore, a channel or a mutex | start, work, send, gather, return | who closes, who waits, who still sends when the caller has left |
| authentication (`handlers/auth.go`, `mongo/auth.go`) | users, exchange codes, sessions | login, exchange, validate, logout | first logins that coincide; a store that does not answer |
| favorites (`handlers/favorites.go`) | entries under three kinds of owner ids | add (delete, then insert), remove, list, magnet | overlapping additions; entries of other owners |
| covers (`handlers/storage.go`, `cover_meta.go`, `mongo/data.go`) | S3 objects, Mongo rows with several slots | store by users, jobs and page readers; sign, backfill, clean up | object and row change separately; decisions from a row read earlier |
| stream URL refresh (`services/realdebrid`) | the torrents in an account, URLs per magnet | refresh with retries, by a job and by users | a retry after a lost answer; two callers on one magnet |
| job logs (`monitoring.go`, `jobfilelogger.go`) | files per job and day | append, compress, delete | two maintenance runs, a writer |
| Stremio addon (`internal/stremio`) | none, beside the caches | manifest, catalogs, metadata, streams | two copies of the rule what a row is; merging, paging and ids that are rebuilt |
| magnetio addon | none | catalogs of external services | failures |
| scrapers, metadata clients, extractors | none | HTTP and parsing | failures, which the callers' models have |

They interact through shared stores and a few calls: the scheduler runs every
job; catalog and search requests enqueue for the metadata enricher and read the
shared metadata; the feed syncs and catalog caches fill what the Stremio
handlers serve; the guard stands before all of them. What makes each part
correct is listed with its module below; the hazards, at their lines, are in
`PROJECT.json`.

## Modules

Each component has a module `X`. Definitions that a comment calls "a bug", or
that begin with their own name in their comment, are never used by the
specification: they are the mutations against which the properties were tried.
Every module states a type invariant (`...TypeOK`).

The proofs are in eight modules, each for the components that belong together:

| proofs | components |
|---|---|
| `MetaQueueProofs` | MetaQueue, and that it implements PriorityPool |
| `JobSchedulerProofs` | JobScheduler |
| `StreamsProofs` | Streams |
| `GuardProofs` | SlidingWindow, Blocklist |
| `FeedsProofs` | FeedSync, PornripsFeed, SceneStore |
| `SourcesProofs` | X1337Cache, LinkCatalog |
| `AddonProofs` | FanOut, CatalogCache, Manifest, CatalogPage |
| `LibraryProofs` | Covers, Favorites, Accounts, Debrid |

Every safety property that a run checks is a theorem there. The type invariant
is a theorem of its own for all but JobScheduler (where it is part of the
invariant of `Invariance`), Streams, FanOut and FeedSync (whose invariants type
only what the proof needs), and SharedMeta, about which nothing is proved. Those
were found to hold in the instances of the runs.

### Runs

Components that share no state share an instance. The instance begins with a
choice, `side`, of the component that moves; the others stay in one initial
state, so the states of a run are the sum of its parts and not their product,
and a counterexample is one of a single component. Fairness is stated per side.

| run | components | states |
|---|---|---|
| `Enricher` | MetaQueue, which implements PriorityPool; SharedMeta | 306,000 |
| `Server` | SlidingWindow, Blocklist, JobScheduler | 39,000 |
| `Feeds` | FeedSync, PornripsFeed, SceneStore | 1,030,000 |
| `Streams` | Streams, X1337Cache, LinkCatalog | 220,000 |
| `Addon` | Manifest, CatalogPage, CatalogCache, FanOut | 800,000 |
| `Library` | Covers, Favorites, Accounts, Debrid | 1,750,000 |

Six more runs are expected to fail, each with one claim that a comment or a
document makes and the code does not keep: `JobSchedulerOverlap`,
`PornripsOverlap`, `MetaQueueRetry`, `SharedMetaReprobe`, `FeedSyncEnd`,
`CoversManual`. `Streams` and `Addon` do not check deadlock: their
requests, pages and fan-outs end, and nothing follows.

### JobScheduler

`runPeriodic`, `runPeriodicWithDynamicDelay`, `runWithTaskLock`,
`updateTaskStats`, the `Trigger...` handlers and `Stop`. `pc[t]["loop"]` is the
goroutine of a task, `pc[t][r]` one that a trigger started; a run goes through
`try`, `begin`, `exec`, `report`, `unlock`. A ticker buffers one tick in
`ready`; a dynamic delay is armed only when the loop waits. `timers` are the
goroutines that sleep five seconds before they reset a final status. The body
of a job is one step.

*Checked* (`Server`): the job of a task whose triggers take the mutex
never runs twice at once; the dashboard says "running" as long as it runs,
though the timer of the run before may fire at any moment; at most two scheduled
runs of a task begin after Stop; Stop ends every loop, mutexes are released and
final statuses settle (`JobsSettle`). One task with two triggers shows every race of the code,
since tasks share no state; the proofs cover any number. `MaxTimers` is a bound
of the model only.

*Refuted*: "A named mutex per task prevents overlapping runs" (most triggers do
not take it, `JobSchedulerOverlap`; what that does to a job is `PornripsOverlap`).

*Fairness*: goroutines run, jobs return when their context times out, sleeps
end, tickers tick. `Report` is strongly fair only because `MaxTimers`, which the
code has not, disables it now and then. Nobody need press a trigger or stop the
process.

*Proved*: `ExclusiveRuns`, `StatusTruthful`, `StopPrompt`. They are inductive
only together with: whoever is inside a run of a locked task holds its mutex
(`HolderOnly`), the status reads "running" from begin to report
(`RunningShown`), and the runs begun after Stop plus the ticks and delays that
may still begin one are at most two (`LateBudget`).

### MetaQueue

`EnqueueMetaLookups`, `drain`, the goroutines of a tick behind their semaphore,
and `requeue`. An entry is reduced to whether it has a title and priority. A
tick drains a batch, drops untitled entries, and starts a lookup for every
missing source; which are missing is left open, as the stores are `SharedMeta`.
`owed` is history: the ids that requeue accepted and no tick has drained since.

*Checked* (`Enricher`): no source asked twice at once
for one item; what requeue accepted stays pending; a favorite is drained however
long and however often refilled the backlog is, which needs every tick to end;
and the queue implements `PriorityPool` (`ImplementsPool`). Four ids compete for three places and two drains per tick, so that the queue overflows,
drains leave a rest and goroutines block on the semaphore.

*Refuted* (`MetaQueueRetry`): that a rate-limited item is "retried on the next
tick instead of being dropped": requeue leaves an entry that is pending already
as it is, even one without a title, which the next tick drops.

*Fairness*: the scheduler keeps ticking the enricher and a tick's calls return
(their context ends after ten minutes).

`PriorityPool` is what the callers are promised, without ticks, goroutines or a
map: work of two classes waits in a pool of bounded size; a batch is taken only
when none is under way, and takes plain work only when no urgent work stays
behind; work may be submitted, promoted, given back and, by a restart,
forgotten. The refinement maps the urgent and plain entries of the pending map
to the two classes and the drained items with lookups outstanding to the work
under way; a tick's filter and its first lookups are the end of a batch.

*Proved*: types with the semaphore's bound, `QueueBound`, `SingleLookup`,
`OwedPending`, and `QueueImplementsPool`, the refinement, for every number of
ids, every queue bound and every batch size. The invariant adds that lookups exist only in the lookup phase of
the one tick, and that the running ones are finitely many.

### SharedMeta

The Redis and Mongo records of one torrent, a miss mark for catalog requests,
and three writers: the enricher's tick, from its four existence reads to the
two writes of a hit, each of which may fail alone; the live lookup of a catalog
request; and the inline lookup of the description images. An entry is `none`,
`empty` (no poster) or `poster`.

*Checked* (`Enricher`): a poster that Mongo has gets back into Redis after
expiry or a flush, and one that only Redis has becomes durable, whatever another
writer does between the reads and the writes. Two sources, since a tick reads
and rehydrates them together; one other writer each; one failing step.

*Refuted* (`SharedMetaReprobe`): that "empty-poster entries" are treated "as
absent so the MetaEnricher re-probes and overwrites them": once the empty entry
is in Mongo as well, its existence check reports it and no tick probes again.

*Fairness*: ticks come and end, and the torrent is enqueued each time a page
lists it. No proofs: its properties are liveness.

### SlidingWindow and Blocklist

`SlidingWindow` is `recordAndCheck`, `pruneTimes`, `countSince` and the sweep of
the DDoS guard and, with a single limit, the rate limiter. Requests are kept
with a number, as the code keeps duplicates. `hist` never forgets; `served` is
what passed. *Checked* (`Server`) *and proved*: pruning and sweeping never change
what a window counts; no window lets more requests pass than its threshold. Two
windows with different thresholds; six instants, twice the longer window, so
requests leave both.

`Blocklist` is the map in memory, the collection, and the minute-by-minute sync
that reads without the mutex and then replaces the map. Handlers change memory
first and the collection later, in any order, and may fail; autoBlock ignores
the error. *Checked and proved*: one sync repairs every disagreement for the
addresses nobody touches meanwhile. *Checked*: what the collection settles on is
enforced, or released, in the end. The invariant needs history: what the running
sync read is still true of the addresses untouched since (`quiet`).
*Fairness*: database calls return and the sync ticker ticks.

### FeedSync

One module for the syncs of Perverzija, Porneec, FreePornVideos, WatchPorn,
YesPorn and the hentai site: they share their control and differ in a record
of fields and flags, so each has its record (`PerverzijaEntry`,
`PerverzijaPage`, `Perverzija`, ...). The walk goes page by page from a cursor,
upserts the cards, and ends at the cap, at an empty page, at a page without a new
card, or at a failing page; the sweep completes entries from their detail pages.
The site publishes and takes down posts between any two steps; a scheduled and a
manual run overlap; every store or page call may fail; the process may restart.

*Checked* (`Feeds`): a completed entry keeps its detail while the post is
listed; a post within the walk's reach is stored in the end (`Reach`: the whole
feed with a cursor, the first pages when the walk is pinned to the top); every
entry is completed or found gone. Two posts on pages of one card shift across a
page boundary; caps of one and two pages give a walk that resumes and one that
does not; two faults hit a run and its repair.

*Refuted* (`FeedSyncEnd`): that a YesPorn page without a new card means that
"the forward walk has covered the archive": one post published between two page
fetches moves a stored card to the next page and ends the walk early.

*Fairness*: the ticker keeps starting runs, and runs go on; faults are bounded.

*Proved*: `DetailKept`, for any sync whose fields set by the listing and fields
set by the sweep are disjoint (`SitesAssumption`, which TLC checks of the six
records). What the code must get right is exactly that split.

### Streams

`Service.Scrape`: the shared cache, the metadata, the providers' goroutines
behind the request's semaphore, the select of `runProviders` with its core timer
and context, deduplication, content filter, preference of P2P, and the cache
write. A provider is a record: its kind, whether an early answer waits for it,
and whether its failures read as an empty result. `found[r][p]` is a provider's
share of `collected`. Title matching and seeders are data: `Misfits` are the
streams whose title does not fit, and deduplication keeps any copy of a hash.

*Checked* (`Streams`): an answer is whole, that is, made of everything the
goroutines ever add; a request gets streams only of providers it asked for,
cached or not; every request ends. Two requests share the cache with provider
lists that overlap; one semaphore slot makes providers queue; both P2P providers
list the same hash.

*Fairness*: the metadata client and the hard timeout bound the waits, and a
provider's HTTP call ends once its context is over; before that it may hang.

*Proved*: `AnswerIsWhole` and `OnlyAsked`. The invariant says that no goroutine
is left once Scrape has returned, and that whatever was found, answered or
cached under a list is of the list's providers.

### PornripsFeed and SceneStore

`PornripsFeed` is the tick of the PornRips sync beside the one-off that walks
the whole archive: the walk with its skip cursor, the torrent backfill, the two
passes of `enrichPornripsEntries`. Posts are numbered as they are published, so
that a page is the interval `PageAt(skip)` of a feed that shifts while it is
walked. The cursor is stored at the end of a run only, and a failing page,
an upsert, a lookup, a write (of an entry or of the cursor) or the process may
fail once. *Checked* (`Feeds`):
`WalkCovers`, a walk that reaches the end of the feed, over as many runs as that
took, has stored every post that was published when it began (`due`, history),
but for those whose own upsert failed; `EnrichedKept`, no walk takes an
entry's enrichment away, though its upsert overwrites every listing field. Three
posts, two pages per run and a Window of two make the archive walk need two runs,
during which posts are published, and bring every entry into each pass.

*Refuted* (`PornripsOverlap`): that enriching an entry is "idempotent" and a
"no-op on a continued miss". The manual trigger takes no mutex; when the
scene is added to TPDB between the lookups of the two runs, the miss of the one
is written over the title that the other has stored.

*Proved*: types; `WalkCovers`; and `EnrichedKept` under the hypothesis that no
two runners enrich, which `PornripsOverlap` shows to be needed, while any number
of walks may run beside the one that does. The invariant of the first: what the
walk is to store and has not lies at or behind the first offset of the page that
its skip picks, for the stored cursor as for every walk under way; a post
published meanwhile only moves the others back. That of the second: a hit is of
a scene known to the databases, and an entry held as a miss has not become a hit
since it was looked up.

`SceneStore` is the enriched-scene record: the discovery, whose pages are shared
out among the TPDB keys in strides, the matching per torrent source, the
matching a search starts in the background, and the merge of one result into a
record (`UpsertEnrichedScene`). Sources differ in a profile: whether a failed
search reads as an empty one, whether a cache answers it, whether a row has a
magnet. *Checked* (`Feeds`): `MatchKept`, no later write of anybody drops the
torrent of a source that matched; `ListedOpens`, a scene the catalog lists for an
install's sources has a stream for it. Two scenes on two pages, two keys, two
sources; a search of two source sets overlaps the sync.

*Proved*: types; `MatchKept`; and `ListedOpens` for sources whose rows carry a
magnet. 1337x is not one of them (see below), so the instance leaves it out. The
invariant: a record has a torrent of every source that matched it, and what a
result carries when it is merged is what its source gives.

### CatalogCache

The read-through caches of the addon over Redis: look up, ask the source, write
and answer, with a warming job, a match tick and an operator who bust a prefix
key by key, keys that expire, and a source, a Redis call or a branch of a
fan-out that fails. The twenty caches have one control and differ in a profile
(which sources the key names, whether empty pages are kept, whether a fan-out
loses branches silently). *Checked* (`Addon`): `SourceGate`, whoever filled the
cache before, an install is never answered a row of a source it turned off;
`BustHolds`, once a bust has deleted all it scanned, a page older than the bust
is there only because a request that had read its source before wrote it
afterwards. Two installs with different sources and a job share the keys; six
profiles stand for all flags; one bust and one fault.

*Proved*: types, `SourceGate`, `BustHolds`, for any rows, indexers, installs,
flags and numbers of faults and busts. What is in the cache under a key, what a
client brings from the source and what it is answered are rows of sources that
the key names; pages of the cold path, which are not, are kept under a key of
their own. For the bust: every page it has passed is whole with respect to what
the source held when it began, and so is what any client is about to write,
unless it read its source before the bust.

### FanOut

The nineteen places where a handler or a job starts one goroutine per term, row,
scraper or key. They differ in who takes the slot of the semaphore, where a
result goes, in who waits and who closes, in what a cancelled context cuts off:
each is a profile. *Checked* (`Addon`): `NoSendOnClosed`; `NothingDropped`, an
answer that was waited for has every hit of the goroutines that were started,
up to the maximum of the site; `AllEnd`, every fan-out answers and leaves no
goroutine behind, also the one that leaves at the first hit. Four tasks and two
slots make goroutines queue for a slot and outlive a caller that left.
*Fairness*: until a fan-out is over something of it goes on; lookups end, since
every HTTP client here has a timeout.

*Proved*: the two safety properties, for every length of the
list, every capacity and every set of sites that satisfies `FanOutSites` (a
caller that only waits shares the memory that results are appended to). The
invariant: a hit is in the answer, past the maximum, in the channel or about to
be sent; and once the channel is closed, or an answer that was waited for given,
all who were started are done.

### Manifest and CatalogPage

`Manifest` is the configuration of an install (`parseConfig`), the rows that
`BuildManifest` shows for it, and the gate and dispatch of `ServeCatalog`: two
pieces of code that decide the same thing at different times, with different
keys, studios and genres known to the server. *Checked* (`Addon`): `RowsOpen`, a
row the client was shown is let through later and reads some listing, but for
three kinds named in `DeadEnd`; `OnlyEnabled`, whatever id a client sends, of an
old manifest or of none, only qualities the install has enabled are read, of a
merged row as well. The installs of `MCRaws` cover a whitelist, a blacklist,
both, lists that are given and lists that are not, split and compact installs.

`CatalogPage` is the making of a page: the rounds that merge the two qualities,
deduplication, grouping, cutting, rendering with stored records, live posters,
and their sharing among releases of a code or a performer; and opening an item
by its id. *Checked* (`Addon`): `Aligned`, an item shows the name and poster of
its own scene, or of one with its code or performer; `OpenFinds`, an item opens
unless its record expired. Four releases with one scene in both qualities, one
of unknown resolution, a shared code and performer; skips of 0 and 1.

*Proved* of `Manifest`: types, `RowsOpen`, `OnlyEnabled`, for any studios, tubes,
genres and configurations. The invariant gives each row a reason to be shown that
the URL of the install alone decides (`Showable`), since keys, studios and genres
may change before the row is opened; the gate is then compared with that reason
for every form an id may have.

*Proved* of `CatalogPage`: types, `Aligned`, `OpenFinds`, for any listing, page
size, skip and number of rounds. Each row has a preview in its place that shows
its own scene or what a row of its code or performer handed on, and a record
under its id; each item leads to the place of the first row of its group. That
place is `FlattenAt`: the n-th group begins, in the rows of all of them, behind
as many rows as the groups before it have. `FlattenSeq` is a recursive function,
so the lemma is proved by least counterexample, beginning with the existence of
the function (`JoinsExist`).

### X1337Cache

The queue of refresh jobs, the pending set, the worker. *Checked* (`Streams`)
*and proved*: `MarkIsJob`, a key is marked as pending if and only if it is queued,
once, or with the worker: a mark without a job would never be fetched again, a
job without a mark would be fetched twice. Looking up and scheduling are two
steps under two locks. Three pages, two callers and a queue of one. The proof is
for any queue length; types and marks are inductive together.

### LinkCatalog

The AtishMKV catalog: a daily sync that writes each release's page and resets
its refresh mark, a job every four hours and requests that resolve pages to
links, the links in Redis, `Scrape`. *Checked* (`Streams`): `LinksStay`, a link
that the job resolved last does not run out before the job's next run, which is
a matter of three constants (4, 3.5 and 5 hours) and the length of a run;
`MovedIsDue`, a release whose page moved is not taken for a fresh one, unless a
run that had listed it before the sync marked it afterwards (`excused`). Half
hours up to 18 span two whole periods of the job. The clock assumes what the
margins assume: the ticker is on time and a run takes less than half an hour.

*Proved*: types, `LinksStay`, `MovedIsDue`, for every interval, age and expiry
that `TimingAssumption` allows: a link resolved as one run begins outlasts the
next run. The invariant of the first: a link the job keeps is good until the end
of the run that will take it up (`Lasts`), and no mark makes its entry look too
young to be taken up then (`Ripens`). That of the second: who marks an entry for
the version it has, has stored the link of that version.

### Covers

All writers of a cover row: the user, favorites, pages of results, readers of
one cover, the description and search jobs; each decides from the row it read,
fetches and uploads, and writes last; and the maintenance job that signs,
backfills and cleans up. *Checked* (`Library`): `KeyedObjectsExist`, no row
names a permanent object that is not in the bucket; `BackfillCovers`, a backfill
that reads all its pages skips no row, though its own writes shrink the set it
pages through. *Refuted* (`CoversManual`): that a user's choice is kept "so
automated jobs never overwrite it": a promotion that was decided before the
choice writes after it. Two rows suffice for paging, one image for existence.

*Proved*: types, `KeyedObjectsExist`, `BackfillCovers`, for any rows, images and
writers. An object that any writer or the maintenance job is about to name is in
the bucket, and permanent objects are never deleted; a row that the backfill has
yet to reach lies behind the last key it has read, and is among the rows that
still miss their object.

### Favorites, Accounts and Debrid

`Favorites`: an addition deletes and inserts in two calls; entries belong to a
user, a Google id or nobody. *Checked* (`Library`): `AddedIsKept`, what was added
with success is found and listed until its user removes it, whatever others do.
Two users, two torrents, two overlapping additions. *Proved*, for any users,
torrents and calls, by: what is owed has an entry of the user's own, or is just
being added again by the user, as only their own requests delete that entry.

`Accounts`: logins with their two lookups and the creation, the session, the
code, its exchange, validation and logout; each call may fail. *Checked*:
`OneAccount`, all the logins of a person open sessions of one user, and a login
is refused for an account that exists only when another login made it meanwhile.
*Proved*, for any persons and logins, by: no two users share an address or a
Google id, and what a login has looked for and not found is still missing, unless
another login raced it.

`Debrid`: the refresh of a magnet, with its three tries, the deletion of what the
last try knows of and the sweep of what it does not, by the job and by a user at
once. *Checked*: `LeavesOne`, a refresh leaves at most one torrent of its own in
the account, whichever of its answers were lost, unless a deletion failed.
*Proved*, for any callers, magnets and numbers of torrents, by: a try begins with
none of the refresh's own torrents left, and a sweep has listed all of them.

## What the proofs rest on

The theorems assume the named ASSUMEs of the modules (bounds that are natural
numbers, finite sets, disjoint fields, the shape of a fan-out, the margins of the
AtishMKV job), which TLC evaluates in the runs. Two have a hypothesis besides,
and each is needed: `EnrichmentStays` (no two runners enrich; `PornripsOverlap`
is what happens otherwise) and `ListedScenesOpen` (every row carries a magnet).
`MaxTimers`, `MaxFaults` and the other bounds of the models are constants like
any other, so the theorems hold for every value of them.

What stays with TLC: liveness, since TLAPS does not reason about fairness and
ENABLED (`StoresConverge`, `PriorityDrained`, `JobsSettle`, `ListSettles`,
`ReachedIsStored`, `EveryEntrySettles`, `EveryRequestEnds`, `AllEnd`), and with it
all of SharedMeta; and the refuted claims, which have no proof.

The library's induction theorems take an operator as a parameter, which the
provers cannot instantiate. Where data is walked (pages of a feed, a backfill, the
groups of a page), the proofs use an invariant over the numbers instead, or the
least element of a set of counterexamples (`LeastOfNat`, from `WFMin`).

## What the models show beside the properties

Met while modelling, and visible in the actions. No run is about these: the
repository makes no claim that they contradict.

- Covers: a source label "tpdb+stashdb" is routed to the details slot
  (`Enriched`); an upsert whose read fails finds no manual cover (`ReadRow`); an
  address without an object leaves the old storage key (`KeyOr`).
- Favorites: removing deletes one of several entries a user sees; an addition
  whose insert fails loses the favorite it replaces.
- Accounts: the middleware answers 401 when the store does not answer, where
  handlers/auth.go:342-346 explains why that must be 503; logout ignores the
  error of the deletion.
- Debrid: a sweep may delete the torrent of another caller, whose 404 is then
  not retried; every refresh leaves one torrent in the account.
- PornRips: the walk's upsert empties a backfilled `info_hash`
  (pornrips_entries.go:63 against :671). Scenes: a failed Pirate Bay search
  counts as an attempted one (category_warmer.go:184 against
  enriched_scenes_sync.go:498).
- Scenes: a match from a 1337x search row is stored without a hash, as such a row
  has no magnet (x1337.go:116-179), and 1337x counts as matched all the same
  (enriched_scenes_sync.go:698), so the scene is listed for an install with 1337x
  alone and opens without a stream, although tpdb_catalog.go:129-130 promises "one
  infoHash stream per matched source": with "1337x" among the `Sources` and
  `Configs` of `Feeds.cfg`, `ListedOpens` fails.
- JobScheduler: `Stop` closes a channel, stops the tickers and returns
  (monitoring.go:2108); docs/architecture.md:87 says that it "drains running job
  goroutines", which are neither awaited nor cancelled.
- Caches: the streams of a scene are cached under a key without the install's
  sources (`PornStreams`); the page cache of PornRips ignores the page size; a
  group of PornRips is stored under the id of the group and looked up by its
  first member (catalog.go:922-926, meta.go:77), which is why `OpenFinds` leaves
  that kind out.
- Manifest: the rows of `DeadEnd` are advertised and answer empty; with a
  whitelist the list of sort orders is not enforced.
- AtishMKV: a title warmed on demand between two runs is skipped by the next one
  and expires before the one after, which is why `LinksStay` follows the job's
  own links; an error of Redis is ignored and the entry marked as fresh.

## Not modelled

Parsing, formatting, HTTP headers and title matching are data: the models let
them give any result the code branches on. The request pipeline, read-only
endpoints, store clients and the magnetio addon have no state that
interleavings could break. Job log maintenance is file system calls. The genre
lists that syncs recompute from a collection are derived and left out of
`FeedSync`; catalog entries of AtishMKV that expire after seven days without a
sync, and the popularity tiers that choose what the search caches warm, are left
out. The dashboard only polls.

## Plan

1. `RequestGuard`: `SlidingWindow` and `Blocklist` composed as the middleware
   does, so that a tripped window leads to a block that the sync keeps.
2. The link of a stream through both caches: the age of an AtishMKV link handed
   out by the cache of `Streams`.
3. An abstract read-through cache that `CatalogCache`, the cache of `Streams` and
   `SharedMeta` implement.
4. The safety half of the liveness properties as theorems: that a feed sync which
   ends its walk has stored what `Reach` covers, as `WalksCover` does for PornRips.
