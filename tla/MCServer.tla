------------------------------ MODULE MCServer ------------------------------
(* Small instances, for TLC, of three parts of the server that share no state *)
(* but a mutex the actions already stand for: the sliding windows and the      *)
(* blocklist of the HTTP middleware, and the job scheduler.  A behaviour        *)
(* exercises one and leaves the others as they began.                          *)
EXTENDS SlidingWindow, Blocklist, JobScheduler

VARIABLE side   (* the part this behaviour exercises: "window", "list", "jobs" *)

(* Two windows of the DDoS guard, the longer one with the higher threshold.  *)
TwoLimits == {[window |-> 1, threshold |-> 1], [window |-> 3, threshold |-> 2]}

ServerInit ==
  /\ side \in {"window", "list", "jobs"}
  /\ Init
  /\ ListInit
  /\ side # "list" => db = {}
  /\ JobsInit

Windows(action) == side = "window" /\ action /\ UNCHANGED <<side, listVars, jobVars>>
List(action) == side = "list" /\ action /\ UNCHANGED <<side, vars, jobVars>>
Jobs(action) == side = "jobs" /\ action /\ UNCHANGED <<side, vars, listVars>>

ServerNext == Windows(Next) \/ List(ListNext) \/ Jobs(JobsNext)

allVars == <<side, vars, listVars, jobVars>>

(* The fairness of the three modules, each on its own side. *)
ServerSpec ==
  /\ ServerInit /\ [][ServerNext]_allVars
  /\ WF_allVars(Windows(Sweep))
  /\ WF_allVars(List(Sync))
  /\ \A c \in Callers : WF_allVars(List(CallerWrites(c)))
  /\ \A t \in Tasks :
       /\ WF_allVars(Jobs(LoopStep(t)))
       /\ WF_allVars(Jobs(TimerFires(t)))
       /\ WF_allVars(Jobs(StopTicker(t)))
       /\ \A a \in Actors :
            WF_allVars(Jobs(RunStep(t, a))) /\ SF_allVars(Jobs(Report(t, a)))
       /\ \A s \in Final : WF_allVars(Jobs(IdleTimer(t, s)))
=============================================================================
