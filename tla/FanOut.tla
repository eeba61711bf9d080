------------------------------- MODULE FanOut -------------------------------
(***************************************************************************)
(* The bounded fan-outs: a handler or a job starts one goroutine for each   *)
(* search term, scraper, row or API key, holds them back with a semaphore,  *)
(* and gathers what they find (services/scraper/service.go,                 *)
(* handlers/torrents.go, stremio/catalog.go, search_resolve.go and          *)
(* sukebei_catalog.go, the enrichers in services/jobs,                      *)
(* services/metadata/tpdb_search.go).  They differ in who takes the slot,   *)
(* in where a result goes, in who waits for the last of them and in what a  *)
(* cancelled context cuts off: that is the profile of the site.             *)
(***************************************************************************)
EXTENDS Integers, FiniteSets

CONSTANTS
  Tasks,       (* the length of the list that is fanned out                     *)
  Slots,       (* the capacity of the semaphore                                 *)
  MaxEntries,  (* the most results a capped site keeps                          *)
  Sites        (* the profiles checked                                          *)

ASSUME FanOutAssumption ==
  Tasks \in Nat \ {0} /\ Slots \in Nat \ {0} /\ MaxEntries \in Nat \ {0}

(***************************************************************************)
(* gate: the loop takes the slot before it starts the goroutine, or the     *)
(* goroutine takes it, or there is none.  sink: a result is appended under  *)
(* a mutex (or stored) or sent into a channel.  gather: the caller waits    *)
(* for all and has the results; waits, closes the channel and drains it;    *)
(* receives one result per task; receives until another goroutine, which    *)
(* waits, closes the channel; or receives until the first hit.  polite: the *)
(* loop ends when the context is over.  skips: a task that finds it over    *)
(* returns.  misses: a task without a result sends all the same.  capped:   *)
(* results past a maximum are dropped.                                      *)
(***************************************************************************)
CoverImages ==
  [id |-> "coverImages", gate |-> "loop", sink |-> "append", gather |-> "wait", polite |-> FALSE,
   skips |-> FALSE, misses |-> FALSE, capped |-> FALSE]
ScenesOnDemand == [CoverImages EXCEPT !.id = "scenesOnDemand", !.polite = TRUE, !.skips = TRUE]
MatchScenes == [CoverImages EXCEPT !.id = "matchScenes", !.polite = TRUE]
EnrichPornrips == [MatchScenes EXCEPT !.id = "enrichPornrips"]
TorrentBackfill == [MatchScenes EXCEPT !.id = "torrentBackfill"]

PirateBayTerms == [CoverImages EXCEPT !.id = "pirateBayTerms", !.gate = "task"]
SukebeiTerms == [PirateBayTerms EXCEPT !.id = "sukebeiTerms"]
TorrentDetails == [PirateBayTerms EXCEPT !.id = "torrentDetails"]
SukebeiJob == [PirateBayTerms EXCEPT !.id = "sukebeiJob", !.capped = TRUE]
SukebeiOnDemand == [SukebeiJob EXCEPT !.id = "sukebeiOnDemand", !.skips = TRUE]

LiveMeta ==
  [id |-> "liveMeta", gate |-> "task", sink |-> "channel", gather |-> "closed", polite |-> FALSE,
   skips |-> TRUE, misses |-> FALSE, capped |-> FALSE]
AdultSources == [LiveMeta EXCEPT !.id = "adultSources", !.gate = "none", !.skips = FALSE, !.misses = TRUE]
AdultBrowse == [AdultSources EXCEPT !.id = "adultBrowse"]
SearchAll == [AdultSources EXCEPT !.id = "searchAll", !.gather = "count", !.capped = TRUE]
AdvancedSearch == [AdultSources EXCEPT !.id = "advancedSearch", !.gather = "count"]
PairProbes == [AdultSources EXCEPT !.id = "pairProbes", !.gather = "first"]
TPDBStrides == [AdultSources EXCEPT !.id = "tpdbStrides", !.gather = "drain", !.skips = TRUE]
DateWindows == [TPDBStrides EXCEPT !.id = "dateWindows"]
StashStrides == [TPDBStrides EXCEPT !.id = "stashStrides"]

(* A caller that only waits shares the memory the results are appended to.  *)
ASSUME FanOutSites ==
  \A s \in Sites :
    /\ s.sink \in {"append", "channel"} /\ s.gather \in {"wait", "closed", "drain", "count", "first"}
    /\ s.gather = "wait" => s.sink = "append"

VARIABLES
  site,     (* the profile in this behaviour                                   *)
  over,     (* the context of the fan-out is cancelled or past its deadline    *)
  caller,   (* "looping", "gathering", "returned"                              *)
  started,  (* how many goroutines the loop has started                        *)
  task,     (* what the goroutine of each task does                            *)
  held,     (* the tasks that hold a slot of the semaphore                     *)
  chan,     (* the results in the channel, by task                             *)
  closed,   (* the channel is closed                                           *)
  taken,    (* the results the caller has received                             *)
  got,      (* the tasks whose hit is in the answer                            *)
  hits      (* history: the tasks that found something                         *)

fanVars == <<site, over, caller, started, task, held, chan, closed, taken, got, hits>>

T == 1..Tasks
Started == 1..started
Busy == {"running", "sending"}

FanInit ==
  /\ site \in Sites /\ over = FALSE
  /\ caller = "looping" /\ started = 0
  /\ task = [t \in T |-> "none"] /\ held = {}
  /\ chan = {} /\ closed = FALSE /\ taken = {} /\ got = {} /\ hits = {}

HasSlot == site.gate = "none" \/ Cardinality(held) < Slots
Takes(t) == IF site.gate = "none" THEN held ELSE held \cup {t}

(* sem <- struct{}{}; go func(): or the goroutine queues for the slot itself. *)
Start ==
  LET t == started + 1 IN
  /\ caller = "looping" /\ t \in T
  /\ ~(site.polite /\ over)
  /\ site.gate = "loop" => HasSlot
  /\ started' = t
  /\ task' = [task EXCEPT ![t] = IF site.gate = "task" THEN "queued" ELSE "running"]
  /\ held' = IF site.gate = "loop" THEN Takes(t) ELSE held
  /\ UNCHANGED <<site, over, caller, chan, closed, taken, got, hits>>

(* The loop is through, or breaks off because the context is over. *)
LoopEnds ==
  /\ caller = "looping" /\ (started = Tasks \/ (site.polite /\ over))
  /\ caller' = "gathering"
  /\ UNCHANGED <<site, over, started, task, held, chan, closed, taken, got, hits>>

TakeSlot(t) ==
  /\ task[t] = "queued" /\ HasSlot
  /\ task' = [task EXCEPT ![t] = "running"] /\ held' = Takes(t)
  /\ UNCHANGED <<site, over, caller, started, chan, closed, taken, got, hits>>

(* defer func() { <-sem }() *)
Release(t) == held \ {t}
Kept(t) == held                 (* Kept: a return that does not give the slot back *)

Full == site.capped /\ Cardinality(got) >= MaxEntries

(* A site that counts its results sends one for a miss and an error as well.   *)
Sends(hit) == site.sink = "channel" /\ (hit \/ site.misses)
SendsHits(hit) == site.sink = "channel" /\ hit        (* SendsHits: hits only *)

(* The work of a task: a lookup or a scrape, which a cancelled context fails.  *)
Work(t) ==
  /\ task[t] = "running"
  /\ \E hit \in (IF over /\ site.skips THEN {FALSE} ELSE BOOLEAN) :
       /\ hits' = IF hit THEN hits \cup {t} ELSE hits
       /\ IF Sends(hit)
          THEN /\ task' = [task EXCEPT ![t] = "sending"] /\ UNCHANGED <<held, got>>
          ELSE /\ task' = [task EXCEPT ![t] = "done"] /\ held' = Release(t)
               /\ got' = IF hit /\ site.sink = "append" /\ ~Full THEN got \cup {t} ELSE got
  /\ UNCHANGED <<site, over, caller, started, chan, closed, taken>>

(* The channel is as large as the list. *)
Unbuffered == 0                      (* Unbuffered: a send waits for a receiver *)
Capacity == Tasks

Send(t) ==
  /\ task[t] = "sending"
  /\ \/ Cardinality(chan) < Capacity
     \/ caller = "gathering" /\ chan = {} /\ site.gather # "drain"      (* hand to hand *)
     \/ caller = "gathering" /\ closed
  /\ chan' = chan \cup {t}
  /\ task' = [task EXCEPT ![t] = "done"] /\ held' = Release(t)
  /\ UNCHANGED <<site, over, caller, started, closed, taken, got, hits>>

(* wg.Wait: wg.Add is called by the loop, before the goroutine runs. *)
WaitedForRunning == \A t \in Started : task[t] \notin Busy  (* WaitedForRunning: wg.Add in the goroutine *)
Waited == \A t \in Started : task[t] = "done"

(* close(ch), after the wait: by a goroutine of its own, or by the caller. *)
Close ==
  /\ caller = "gathering" /\ site.gather \in {"closed", "drain"} /\ ~closed /\ Waited
  /\ closed' = TRUE
  /\ UNCHANGED <<site, over, caller, started, task, held, chan, taken, got, hits>>

(* The results that make the answer: SearchAll cuts it to the maximum. *)
Answer(t) == IF t \in hits /\ ~Full THEN got \cup {t} ELSE got

Receive(t) ==
  /\ caller = "gathering" /\ t \in chan
  /\ site.gather = "drain" => closed
  /\ chan' = chan \ {t} /\ taken' = taken \cup {t}
  /\ got' = Answer(t)
  /\ IF site.gather = "first" /\ t \in hits
     THEN caller' = "returned" /\ over' = TRUE                     (* defer cancel() *)
     ELSE UNCHANGED <<caller, over>>
  /\ UNCHANGED <<site, started, task, held, closed, hits>>

Gathered ==
  CASE site.gather = "wait" -> Waited
    [] site.gather \in {"closed", "drain"} -> closed /\ chan = {}
    [] OTHER -> Cardinality(taken) = Tasks

Return ==
  /\ caller = "gathering" /\ Gathered
  /\ caller' = "returned" /\ over' = TRUE
  /\ UNCHANGED <<site, started, task, held, chan, closed, taken, got, hits>>

(* The client leaves, the deadline passes or the job is stopped. *)
ContextOver ==
  /\ ~over /\ over' = TRUE
  /\ UNCHANGED <<site, caller, started, task, held, chan, closed, taken, got, hits>>

(* Goroutines run, a lookup ends (its client has a timeout), and a goroutine   *)
(* that waits for the semaphore is served in the order of the channel: until    *)
(* nothing is left to do, something happens.                                    *)
FanStep ==
  \/ Start \/ LoopEnds \/ Close \/ Return
  \/ \E t \in T : TakeSlot(t) \/ Work(t) \/ Send(t) \/ Receive(t)

FanNext == FanStep \/ ContextOver

FanSpec == FanInit /\ [][FanNext]_fanVars
FairFanSpec == FanSpec /\ WF_fanVars(FanStep)

-----------------------------------------------------------------------------
FanTypeOK ==
  /\ site \in Sites /\ over \in BOOLEAN /\ closed \in BOOLEAN
  /\ caller \in {"looping", "gathering", "returned"}
  /\ started \in 0..Tasks
  /\ task \in [T -> {"none", "queued", "running", "sending", "done"}]
  /\ held \subseteq {t \in T : task[t] \in Busy}
  /\ site.misses \/ chan \subseteq hits
  /\ got \in SUBSET hits
  /\ chan \cup taken \in SUBSET Started /\ chan \cap taken = {}
  /\ site.capped => Cardinality(got) <= MaxEntries

(* The channel is closed only when nobody is left to send: a send would panic. *)
NoSendOnClosed == closed => \A t \in T : task[t] \in {"none", "done"}

(* The answer has every hit of the goroutines that were started, up to the     *)
(* maximum: a site that does not stop at the first hit drops none of them.     *)
NothingDropped ==
  caller = "returned" /\ site.gather # "first" =>
    hits \subseteq got \/ Full

(* Every fan-out that has started answers and leaves no goroutine behind, one  *)
(* that stopped at the first hit and one whose client left included.           *)
AllEnd ==
  started > 0 ~> caller = "returned" /\ held = {} /\ \A t \in T : task[t] \in {"none", "done"}
=============================================================================
