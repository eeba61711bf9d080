---------------------------- MODULE JobScheduler ----------------------------
(***************************************************************************)
(* The background-job scheduler (src/internal/handlers/monitoring.go): one *)
(* goroutine per task that runs the job and waits for its next tick or for *)
(* Stop, the dashboard's manual triggers that start the same job in a      *)
(* goroutine of their own, the per-task mutex that most of the triggers do *)
(* not take, and the status the dashboard shows, with its five-second      *)
(* return to "idle".                                                       *)
(***************************************************************************)
EXTENDS Integers, FiniteSets

CONSTANTS
  Tasks,      (* the jobs that are enabled                                      *)
  Locked,     (* those whose triggers, if any, go through runWithTaskLock       *)
  Dynamic,    (* those on runPeriodicWithDynamicDelay instead of a ticker       *)
  Requests,   (* manual trigger requests that may be in progress at a time      *)
  MaxTimers   (* bound on the idle timers pending per task and final status     *)

ASSUME JobSchedulerAssumption ==
  /\ Locked \subseteq Tasks
  /\ Dynamic \subseteq Tasks
  /\ {"loop", "free"} \cap Requests = {}
  /\ MaxTimers \in Nat \ {0}

VARIABLES
  pc,       (* per task, where its loop and its manual runs are                 *)
  lock,     (* per task, the holder of its mutex, or "free"                     *)
  status,   (* per task, taskStats.status                                       *)
  timers,   (* per task and final status, the goroutines that sleep 5 s         *)
  ready,    (* per task, a tick is buffered in its timer channel                *)
  done,     (* s.done is closed                                                 *)
  stopped,  (* the tasks whose ticker Stop has stopped                          *)
  late      (* history: per task, the scheduled runs begun after Stop           *)

jobVars == <<pc, lock, status, timers, ready, done, stopped, late>>

Actors == {"loop"} \cup Requests
Final == {"completed", "error"}
Busy == {"begin", "exec", "report", "unlock"}
LoopPlaces == {"delay", "wait", "try", "exited"} \cup Busy
RequestPlaces == {"off", "try"} \cup Busy

JobsInit ==
  \* Start: a task without an initial delay begins with its first run
  /\ pc \in {[t \in Tasks |-> [a \in Actors |-> IF a = "loop" THEN f[t] ELSE "off"]] :
               f \in [Tasks -> {"delay", "try"}]}
  /\ lock = [t \in Tasks |-> "free"]
  /\ status = [t \in Tasks |-> "idle"]
  /\ timers = [t \in Tasks |-> [s \in Final |-> 0]]
  /\ ready = [t \in Tasks |-> FALSE]
  /\ done = FALSE
  /\ stopped = {}
  /\ late = [t \in Tasks |-> 0]

Goto(t, a, place) == pc' = [pc EXCEPT ![t][a] = place]

-----------------------------------------------------------------------------
(* The loop of a task: runPeriodic and runPeriodicWithDynamicDelay.        *)

(* The initial delay is over. *)
DelayElapsed(t) ==
  /\ pc[t]["loop"] = "delay"
  /\ Goto(t, "loop", "try")
  /\ UNCHANGED <<lock, status, timers, ready, done, stopped, late>>

(* The timer sends a tick.  A ticker ticks beside a running job or a delay   *)
(* and buffers one tick; time.After is only started when the loop comes to   *)
(* wait.  Once s.done is closed no interval elapses before the loop or Stop  *)
(* deals with the timer.  (NeverStopped: a bug where the tickers go on.)      *)
NeverStopped(t) == TRUE
Ticking(t) == ~done

TimerFires(t) ==
  /\ Ticking(t) /\ ~ready[t]
  /\ t \in Dynamic => pc[t]["loop"] = "wait"
  /\ pc[t]["loop"] # "exited"
  /\ ready' = [ready EXCEPT ![t] = TRUE]
  /\ UNCHANGED <<pc, lock, status, timers, done, stopped, late>>

(* select: a tick starts a run, even when s.done is closed as well. *)
TickTaken(t) ==
  /\ pc[t]["loop"] = "wait" /\ ready[t]
  /\ ready' = [ready EXCEPT ![t] = FALSE]
  /\ Goto(t, "loop", "try")
  /\ UNCHANGED <<lock, status, timers, done, stopped, late>>

(* select: s.done ends the loop.                                             *)
StopPlaces == {"delay", "wait"}

LoopExits(t) ==
  /\ done
  /\ pc[t]["loop"] \in StopPlaces
  /\ Goto(t, "loop", "exited")
  /\ UNCHANGED <<lock, status, timers, ready, done, stopped, late>>

-----------------------------------------------------------------------------
(* One run of a job: runWithTaskLock around run<Job>, or run<Job> alone.    *)

(* Trigger<Job>: the HTTP handler starts a goroutine and answers. *)
Trigger(t, r) ==
  /\ pc[t][r] = "off"
  /\ Goto(t, r, IF t \in Locked THEN "try" ELSE "begin")
  /\ UNCHANGED <<lock, status, timers, ready, done, stopped, late>>

(* TryLock fails: the run is skipped.  (SkipOff: a bug that ends the loop.)  *)
SkipOff(a) == "off"
SkipTo(a) == IF a = "loop" THEN "wait" ELSE "off"

Skipped(t, a) ==
  /\ pc[t][a] = "try" /\ lock[t] # "free"
  /\ Goto(t, a, SkipTo(a))
  /\ UNCHANGED <<lock, status, timers, ready, done, stopped, late>>

(* TryLock succeeds.  (Blind: a bug that ignores its result.)               *)
Blind(t) == TRUE
LockFree(t) == lock[t] = "free"

Locks(t, a) ==
  /\ pc[t][a] = "try" /\ LockFree(t)
  /\ lock' = [lock EXCEPT ![t] = a]
  /\ Goto(t, a, "begin")
  /\ late' = IF done /\ a = "loop" THEN [late EXCEPT ![t] = @ + 1] ELSE late
  /\ UNCHANGED <<status, timers, ready, done, stopped>>

(* run<Job> publishes "running" before it calls the job. *)
Begin(t, a) ==
  /\ pc[t][a] = "begin"
  /\ status' = [status EXCEPT ![t] = "running"]
  /\ Goto(t, a, "exec")
  /\ UNCHANGED <<lock, timers, ready, done, stopped, late>>

(* The job returns, at the latest when its context times out. *)
JobReturns(t, a) ==
  /\ pc[t][a] = "exec"
  /\ Goto(t, a, "report")
  /\ UNCHANGED <<lock, status, timers, ready, done, stopped, late>>

(* updateTaskStats: the final status, and a goroutine that will reset it. *)
Report(t, a) ==
  /\ pc[t][a] = "report"
  /\ \E s \in Final :
       /\ timers[t][s] < MaxTimers
       /\ status' = [status EXCEPT ![t] = s]
       /\ timers' = [timers EXCEPT ![t][s] = @ + 1]
  /\ Goto(t, a, "unlock")
  /\ UNCHANGED <<lock, ready, done, stopped, late>>

(* The deferred Unlock.  (LeakLock: a bug that returns without it.)          *)
LeakLock(t, a) == lock
Released(t, a) == IF lock[t] = a THEN [lock EXCEPT ![t] = "free"] ELSE lock

Unlock(t, a) ==
  /\ pc[t][a] = "unlock"
  /\ lock' = Released(t, a)
  /\ Goto(t, a, SkipTo(a))
  /\ UNCHANGED <<status, timers, ready, done, stopped, late>>

(* Five seconds later the status of that run becomes "idle", unless another  *)
(* status was set since.  (Reset: a bug that does not look.)                  *)
Reset(t, s) == [status EXCEPT ![t] = "idle"]
Settled(t, s) == IF status[t] = s THEN [status EXCEPT ![t] = "idle"] ELSE status

IdleTimer(t, s) ==
  /\ timers[t][s] > 0
  /\ timers' = [timers EXCEPT ![t][s] = @ - 1]
  /\ status' = Settled(t, s)
  /\ UNCHANGED <<pc, lock, ready, done, stopped, late>>

(* Stop: closes s.done, then stops ticker after ticker; a stopped ticker      *)
(* delivers nothing any more, not even a tick that was buffered.               *)
Stop ==
  /\ ~done
  /\ done' = TRUE
  /\ UNCHANGED <<pc, lock, status, timers, ready, stopped, late>>

StopTicker(t) ==
  /\ done /\ t \in Tasks \ (Dynamic \cup stopped)
  /\ stopped' = stopped \cup {t}
  /\ ready' = [ready EXCEPT ![t] = FALSE]
  /\ UNCHANGED <<pc, lock, status, timers, done, late>>

RunStep(t, a) ==
  \/ Skipped(t, a) \/ Locks(t, a) \/ Begin(t, a)
  \/ JobReturns(t, a) \/ Report(t, a) \/ Unlock(t, a)

LoopStep(t) == DelayElapsed(t) \/ TickTaken(t) \/ LoopExits(t)

JobsNext ==
  \/ \E t \in Tasks :
       \/ TimerFires(t) \/ LoopStep(t) \/ StopTicker(t)
       \/ \E r \in Requests : Trigger(t, r)
       \/ \E a \in Actors : RunStep(t, a)
       \/ \E s \in Final : IdleTimer(t, s)
  \/ Stop

JobsSpec == JobsInit /\ [][JobsNext]_jobVars

(***************************************************************************)
(* Fairness: goroutines run, jobs return within their context's timeout,   *)
(* sleeps end, and tickers tick.  Nobody has to press a trigger, or to     *)
(* stop the process.  Report is strongly fair only because MaxTimers, which *)
(* the code does not have, disables it now and then.                       *)
(***************************************************************************)
FairJobsSpec ==
  /\ JobsSpec
  /\ \A t \in Tasks :
       /\ WF_jobVars(LoopStep(t))
       /\ WF_jobVars(TimerFires(t))
       /\ WF_jobVars(StopTicker(t))
       /\ \A a \in Actors : WF_jobVars(RunStep(t, a)) /\ SF_jobVars(Report(t, a))
       /\ \A s \in Final : WF_jobVars(IdleTimer(t, s))

-----------------------------------------------------------------------------
(* Every variable has its type. *)
JobsTypeOK ==
  /\ \A t \in Tasks : pc[t]["loop"] \in LoopPlaces
  /\ \A t \in Tasks, r \in Requests : pc[t][r] \in RequestPlaces
  /\ pc \in [Tasks -> [Actors -> LoopPlaces \cup RequestPlaces]]
  /\ lock \in [Tasks -> Actors \cup {"free"}]
  /\ status \in [Tasks -> {"idle", "running"} \cup Final]
  /\ timers \in [Tasks -> [Final -> 0 .. MaxTimers]]
  /\ ready \in [Tasks -> BOOLEAN]
  /\ done \in BOOLEAN
  /\ stopped \subseteq Tasks \ Dynamic
  /\ late \in [Tasks -> Nat]

Executing(t) == {a \in Actors : pc[t][a] = "exec"}

(* The job of a task whose triggers take the mutex never runs twice at once,  *)
(* whatever ticks and triggers coincide.                                       *)
ExclusiveRuns ==
  \A t \in Locked : \A a, b \in Executing(t) : a = b

(* While such a job runs, the dashboard says so: the idle timer of an earlier *)
(* run, which may fire at any moment of the next one, does not touch it.       *)
StatusTruthful ==
  \A t \in Locked : Executing(t) # {} => status[t] = "running"

(* Stop is prompt: of each task at most two more scheduled runs begin after   *)
(* it, the one whose delay or tick had elapsed and the one of a tick buffered  *)
(* meanwhile, which select may prefer to s.done until the ticker is stopped.   *)
StopPrompt == \A t \in Tasks : late[t] <= 2

(* Nothing stays as it is for ever: Stop ends every loop, one in the middle of *)
(* a run after it; a mutex that is held is released, so that no task is skipped *)
(* from then on; a final status becomes "idle" or the next run's.               *)
JobsSettle ==
  \A t \in Tasks :
    /\ done ~> pc[t]["loop"] = "exited"
    /\ (lock[t] # "free") ~> (lock[t] = "free")
    /\ (status[t] \in Final) ~> (status[t] \notin Final)

-----------------------------------------------------------------------------
(* What the comment on runPeriodic says: "A named mutex per task prevents      *)
(* overlapping runs when a previous invocation is still active."                *)
NoOverlap == \A t \in Tasks : \A a, b \in Executing(t) : a = b
=============================================================================
