----------------------------- MODULE RunnerQueue -----------------------------
(***************************************************************************)
(* The runner queue (gofer/core/runner.py): runs and runners in one SQLite  *)
(* file, worker processes that claim and execute runs, and callers (command *)
(* line, API) that enqueue, cancel and look for lost runs.                  *)
(*                                                                          *)
(* An action is one read of the file, one transaction, or a step that only  *)
(* its process sees.  sqlite3 opens a transaction at the first statement    *)
(* that writes, so the SELECT of an operation is not part of it.  Reads of  *)
(* what no longer changes are merged with the next step; a file that stays  *)
(* locked beyond SQLite's patience is not modelled.  What a workflow does   *)
(* is abstracted to its end: completed, failed or canceled.                 *)
(***************************************************************************)
EXTENDS Integers, FiniteSets

CONSTANTS
  Runs,        (* The runs that can be enqueued.                           *)
  Runners,     (* Runner ids.                                              *)
  Workers,     (* Worker processes.                                        *)
  Callers,     (* Processes that cancel runs and look for lost ones.       *)
  RunnerOf,    (* The runner id a worker registers.                        *)
  Priority,    (* The priority of a run.                                   *)
  Suited,      (* The runners that have what a run requires.               *)
  MaxCrashes,  (* Bounds the crashes of workers.                           *)
  None         (* No runner, no run.                                       *)

ASSUME RunnerOfAssumption == RunnerOf \in [Workers -> Runners]
ASSUME PriorityAssumption == Priority \in [Runs -> Int] /\ MaxCrashes \in Nat
ASSUME SuitedAssumption == Suited \in [Runs -> SUBSET Runners]
ASSUME NoneAssumption == None \notin Runs /\ None \notin Runners /\ IsFiniteSet(Runs)

VARIABLES
  stamps,      (* The time an enqueue took, from 1; 0: none yet.           *)
  runs,        (* The table of runs.                                       *)
  runners,     (* The table of runners; fresh: seen in the last minute.    *)
  workers,     (* Where each worker is and what it read.                   *)
  callers,     (* What each caller read before it writes.                  *)
  crashes      (* Crashes so far.                                          *)

vars == <<stamps, runs, runners, workers, callers, crashes>>

Ended == {"completed", "failed", "canceled", "lost_runner"}

Idle == [doing |-> "nothing", run |-> None, seen |-> "none", stale |-> {}]

Without(at) == [at |-> at, rows |-> {}, run |-> None, stop |-> FALSE, result |-> "none"]

Init ==
  /\ stamps = [r \in Runs |-> 0]
  /\ runs = [r \in Runs |-> [status |-> "absent", runner |-> None, message |-> "none",
                             created |-> 0, arrived |-> 0]]
  /\ runners = [x \in Runners |-> [status |-> "absent", current |-> None, fresh |-> FALSE]]
  /\ workers = [w \in Workers |-> Without("down")]
  /\ callers = [c \in Callers |-> Idle]
  /\ crashes = 0

(***************************************************************************)
(* Faults: variants of definitions below, each with a slip that a change of *)
(* the code could introduce.                                                *)
(***************************************************************************)
ClaimableAlways(r) == TRUE
RequestedOnceCanceled(r) == runs[r].status = "canceled"
FinishedUnlessFailed(r, result) == [runs[r] EXCEPT !.status = IF result = "failed" THEN @ ELSE result]
FinishedSwapped(r, result) == [runs[r] EXCEPT !.status = runs[r].message, !.message = result]
Newest(rows) == CHOOSE r \in rows : \A o \in rows : runs[r].created >= runs[o].created
SuitsAtHead(w) ==
  {r \in workers[w].rows : /\ RunnerOf[w] \in Suited[r]
                           /\ \A o \in workers[w].rows : runs[r].created <= runs[o].created}

(***************************************************************************)
(* Callers.                                                                 *)
(***************************************************************************)

(* An enqueue takes its created_at first: the clock goes on between two.    *)
Stamp(r) ==
  /\ stamps[r] = 0
  /\ stamps' = [stamps EXCEPT ![r] = 1 + Cardinality({o \in Runs : stamps[o] # 0})]
  /\ UNCHANGED <<runs, runners, workers, callers, crashes>>

(* It then connects and inserts the row, perhaps after other writers.  The  *)
(* row's place among the inserts is no column: it is for DispatchOrder.     *)
Enqueue(r) ==
  /\ stamps[r] # 0
  /\ runs[r].status = "absent"
  /\ runs' = [runs EXCEPT ![r].status = "queued", ![r].created = stamps[r],
                          ![r].arrived = Cardinality({o \in Runs : runs[o].status # "absent"})]
  /\ UNCHANGED <<stamps, runners, workers, callers, crashes>>

(* cancel_run reads the run, and is done with one that ended. *)
CancelRead(c, r) ==
  /\ callers[c].doing = "nothing"
  /\ runs[r].status \in {"queued", "running", "cancel_requested"}
  /\ callers' = [callers EXCEPT ![c] = [Idle EXCEPT !.doing = "cancel", !.run = r,
                                                         !.seen = runs[r].status]]
  /\ UNCHANGED <<stamps, runs, runners, workers, crashes>>

CancelStatus(seen) == IF seen = "queued" THEN "canceled" ELSE "cancel_requested"

(* It writes the status that follows from what it read, over any status. *)
CancelWrite(c) ==
  /\ callers[c].doing = "cancel"
  /\ LET seen == callers[c].seen
         r    == callers[c].run
     IN  runs' = [runs EXCEPT
           ![r].status  = CancelStatus(seen),
           ![r].message = IF seen = "queued" THEN "canceled_before_dispatch" ELSE "cancel_requested"]
  /\ callers' = [callers EXCEPT ![c] = Idle]
  /\ UNCHANGED <<stamps, runners, workers, crashes>>

(* mark_lost_runs, at every listing, reads which runners are stale. *)
SweepRead(c) ==
  /\ callers[c].doing = "nothing"
  /\ LET stale == {x \in Runners : runners[x].current # None /\ ~ runners[x].fresh}
     IN  /\ stale # {}
         /\ callers' = [callers EXCEPT ![c] = [Idle EXCEPT !.doing = "sweep", !.stale = stale]]
  /\ UNCHANGED <<stamps, runs, runners, workers, crashes>>

IsLost(r, stale) == runs[r].runner \in stale /\ runs[r].status \in {"running", "cancel_requested"}

GivenUp(r) == [runs[r] EXCEPT !.status = "lost_runner", !.message = "heartbeat_expired"]

Swept(x) == [runners[x] EXCEPT !.status = "lost", !.current = None]

(* It gives up every run of those runners that goes on. *)
SweepWrite(c) ==
  /\ callers[c].doing = "sweep"
  /\ LET stale == callers[c].stale
     IN  /\ runs' = [r \in Runs |->
                       IF IsLost(r, stale)
                       THEN GivenUp(r)
                       ELSE runs[r]]
         /\ runners' = [x \in Runners |-> IF x \in stale THEN Swept(x) ELSE runners[x]]
  /\ callers' = [callers EXCEPT ![c] = Idle]
  /\ UNCHANGED <<stamps, workers, crashes>>

(***************************************************************************)
(* Workers.                                                                 *)
(***************************************************************************)

(* A worker process starts, and registers; a row that exists is kept. *)
Start(w) ==
  /\ workers[w].at = "down"
  /\ workers' = [workers EXCEPT ![w].at = "polling"]
  /\ LET x == RunnerOf[w]
     IN  runners' = [runners EXCEPT
           ![x].status = IF runners[x].current = None THEN "idle" ELSE @,
           ![x].fresh  = TRUE]
  /\ UNCHANGED <<stamps, runs, callers, crashes>>

(* claim_next reads the queued runs. *)
Poll(w) ==
  /\ workers[w].at = "polling"
  /\ workers' = [workers EXCEPT ![w].at = "claiming",
                                ![w].rows = {r \in Runs : runs[r].status = "queued"}]
  /\ UNCHANGED <<stamps, runs, runners, callers, crashes>>

(* The rows it read that suit its runner. *)
Suits(w) == {r \in workers[w].rows : RunnerOf[w] \in Suited[r]}

(* The run that claim_next looks at before the others. *)
First(rows) ==
  CHOOSE r \in rows :
    \A o \in rows : \/ Priority[r] > Priority[o]
                    \/ Priority[r] = Priority[o] /\ runs[r].created <= runs[o].created

(* The rows it finds unsuited on its way to the first suited one. *)
Passed(rows, suited) ==
  {r \in rows : r \notin suited /\ (suited # {} => First({r, First(suited)}) = r)}

(* The condition of the update that dispatches a run. *)
Claimable(r) == runs[r].status = "queued"

(* It dispatches the first run that suits the runner; it does not notice an *)
(* update that matched no row.                                              *)
Claim(w) ==
  /\ workers[w].at = "claiming"
  /\ LET x      == RunnerOf[w]
         rows   == workers[w].rows
         suited == Suits(w)
         passed == Passed(rows, suited)
         chosen == First(suited)
         Noted(r) == [runs[r] EXCEPT !.message = IF r \in passed THEN "unsuited" ELSE @]
     IN  IF suited = {}
         THEN /\ runs' = [r \in Runs |-> Noted(r)]
              /\ workers' = [workers EXCEPT ![w].at = "idle", ![w].rows = {}]
              /\ UNCHANGED runners
         ELSE /\ runs' = [r \in Runs |->
                            IF r = chosen /\ Claimable(r)
                            THEN [runs[r] EXCEPT !.status = "running", !.runner = x, !.message = "none"]
                            ELSE Noted(r)]
              /\ runners' = [runners EXCEPT ![x] = [status |-> "running", current |-> chosen,
                                                    fresh |-> TRUE]]
              /\ workers' = [workers EXCEPT ![w].at = "claimed", ![w].rows = {}, ![w].run = chosen]
  /\ UNCHANGED <<stamps, callers, crashes>>

(* Nothing to claim: the worker reports and polls again. *)
Heartbeat(w) ==
  /\ workers[w].at = "idle"
  /\ workers' = [workers EXCEPT ![w].at = "polling"]
  /\ runners' = [runners EXCEPT ![RunnerOf[w]] = [status |-> "idle", current |-> None,
                                                  fresh |-> TRUE]]
  /\ UNCHANGED <<stamps, runs, callers, crashes>>

(* The workflow is loaded and begins, or cannot be, or was cancelled. *)
Begin(w) ==
  /\ workers[w].at = "claimed"
  /\ \/ /\ ~ workers[w].stop
        /\ workers' = [workers EXCEPT ![w].at = "executing"]
     \/ /\ ~ workers[w].stop
        /\ workers' = [workers EXCEPT ![w].at = "ended", ![w].result = "failed"]
     \/ /\ workers[w].stop
        /\ workers' = [workers EXCEPT ![w].at = "ended", ![w].result = "canceled"]
  /\ UNCHANGED <<stamps, runs, runners, callers, crashes>>

CancelRequested(r) == runs[r].status = "cancel_requested"

(* The monitor thread sees a request and sets the event the executor reads. *)
Monitor(w) ==
  /\ workers[w].at \in {"claimed", "executing"}
  /\ ~ workers[w].stop
  /\ CancelRequested(workers[w].run)
  /\ workers' = [workers EXCEPT ![w].stop = TRUE]
  /\ UNCHANGED <<stamps, runs, runners, callers, crashes>>

(* The workflow ends: by itself, or because it was stopped. *)
End(w, result) ==
  /\ workers[w].at = "executing"
  /\ workers' = [workers EXCEPT ![w].at = "ended", ![w].result = result]
  /\ UNCHANGED <<stamps, runs, runners, callers, crashes>>

(* finish_run reads the run, and whether its cancellation was requested. *)
Check(w) ==
  /\ workers[w].at = "ended"
  /\ workers' = [workers EXCEPT
       ![w].at = "finishing",
       ![w].result = IF CancelRequested(workers[w].run) THEN "canceled" ELSE @]
  /\ UNCHANGED <<stamps, runs, runners, callers, crashes>>

Finished(r, result) ==
  [runs[r] EXCEPT !.status = result, !.message = IF result = "canceled" THEN "canceled" ELSE "none"]

(* It writes the final status, over any status, and frees the run's runner. *)
Finish(w) ==
  /\ workers[w].at = "finishing"
  /\ LET r == workers[w].run
         x == runs[r].runner
     IN  /\ runs' = [runs EXCEPT ![r] = Finished(r, workers[w].result)]
         /\ runners' = IF x = None
                       THEN runners
                       ELSE [runners EXCEPT ![x] = [status |-> "idle", current |-> None,
                                                    fresh |-> TRUE]]
  /\ workers' = [workers EXCEPT ![w] = Without("polling")]
  /\ UNCHANGED <<stamps, callers, crashes>>

(* A worker process dies, or is ended by its user. *)
Crash(w) ==
  /\ crashes < MaxCrashes
  /\ workers[w].at # "down"
  /\ workers' = [workers EXCEPT ![w] = Without("down")]
  /\ crashes' = crashes + 1
  /\ UNCHANGED <<stamps, runs, runners, callers>>

(* A minute passes in which a runner was not seen; nobody asks while it has *)
(* no run.                                                                  *)
Stale(x) ==
  /\ runners[x].fresh
  /\ runners[x].current # None
  /\ runners' = [runners EXCEPT ![x].fresh = FALSE]
  /\ UNCHANGED <<stamps, runs, workers, callers, crashes>>

Work(w) ==
  \/ Start(w) \/ Poll(w) \/ Claim(w) \/ Heartbeat(w) \/ Begin(w) \/ Check(w) \/ Finish(w)

Next ==
  \/ \E r \in Runs : Stamp(r) \/ Enqueue(r)
  \/ \E c \in Callers, r \in Runs : CancelRead(c, r)
  \/ \E c \in Callers : CancelWrite(c) \/ SweepRead(c) \/ SweepWrite(c)
  \/ \E w \in Workers : Work(w)
  \/ \E w \in Workers : Monitor(w)
  \/ \E w \in Workers, result \in {"completed", "failed"} : End(w, result)
  \/ \E w \in Workers : Crash(w)
  \/ \E x \in Runners : Stale(x)

Spec == Init /\ [][Next]_vars

(* Processes go on, and a monitor looks every fifth of a second. *)
Fairness ==
  /\ \A w \in Workers : WF_vars(Work(w)) /\ WF_vars(Monitor(w))
  /\ \A c \in Callers : WF_vars(CancelWrite(c)) /\ WF_vars(SweepWrite(c))

(* Workflows may run for ever, unless they are stopped. *)
StopSpec ==
  Spec /\ Fairness
  /\ \A w \in Workers : WF_vars(workers[w].stop /\ \E result \in {"completed", "failed"} : End(w, result))

(***************************************************************************)
(* Properties.                                                              *)
(***************************************************************************)
Statuses == {"absent", "queued", "running", "cancel_requested"} \cup Ended

RunRow ==
  [status : Statuses, runner : Runners \cup {None},
   message : {"none", "unsuited", "cancel_requested", "canceled", "canceled_before_dispatch",
              "heartbeat_expired"},
   created : Nat, arrived : Nat]

RunnerRow ==
  [status : {"absent", "idle", "running", "lost"}, current : Runs \cup {None}, fresh : BOOLEAN]

WorkerState ==
  [at : {"down", "polling", "claiming", "idle", "claimed", "executing", "ended", "finishing"},
   rows : SUBSET Runs, run : Runs \cup {None}, stop : BOOLEAN,
   result : {"none", "completed", "failed", "canceled"}]

CallerState ==
  [doing : {"nothing", "cancel", "sweep"}, run : Runs \cup {None},
   seen : {"none", "queued", "running", "cancel_requested"}, stale : SUBSET Runners]

(* The rows of both tables, the workers and the callers have their shape:   *)
(* the columns hold what the writes of this component put there.            *)
TypeOK ==
  /\ stamps \in [Runs -> Nat]
  /\ runs \in [Runs -> RunRow]
  /\ runners \in [Runners -> RunnerRow]
  /\ workers \in [Workers -> WorkerState]
  /\ callers \in [Callers -> CallerState]
  /\ crashes \in Nat

(* Worker w has run r: between claim_next and the end of finish_run.         *)
Has(w, r) ==
  workers[w].run = r /\ workers[w].at \in {"claimed", "executing", "ended", "finishing"}

(* While no worker crashed, a run that the queue shows as running is with a  *)
(* worker of the runner it names: finish_run, mark_lost_runs and cancel_run  *)
(* of others never leave such a row behind.                                  *)
RunningIsExecuted ==
  crashes = 0 =>
    \A r \in Runs : runs[r].status = "running" =>
      \E w \in Workers : Has(w, r) /\ RunnerOf[w] = runs[r].runner

(* No run is dispatched while an older one waits that was in the table       *)
(* before it, has no less priority and suits the runner, though the rows     *)
(* were read before (claim_next).  One that took its time before and was     *)
(* inserted after the run may be passed: the worker may not have read it.    *)
DispatchOrder ==
  [][\A r, o \in Runs :
       (/\ runs[r].status = "queued" /\ runs'[r].status = "running"
        /\ runs[o].status = "queued"
        /\ runs[o].created < runs[r].created /\ runs[o].arrived < runs[r].arrived
        /\ Priority[o] >= Priority[r])
       => runs'[r].runner \notin Suited[o]]_vars

(* What the queue promises, whatever workers, callers and crashes do: see    *)
(* RunLedger.  The cells are those of the columns status and runner_id.      *)
Ledger ==
  INSTANCE RunLedger WITH
    NoRunner <- None,
    stage <- [r \in Runs |-> IF runs[r].status \in {"absent", "queued"} THEN runs[r].status ELSE "left"],
    owner <- [r \in Runs |-> runs[r].runner]

ImplementsLedger == Ledger!Spec

(* A run whose cancellation was requested stops in every worker that has it, *)
(* even when its workflow would run for ever.                                *)
CancelReachesWorker ==
  \A w \in Workers, r \in Runs :
    (workers[w].at = "executing" /\ workers[w].run = r /\ runs[r].status = "cancel_requested")
      ~> (workers[w].at # "executing" \/ runs[r].status # "cancel_requested")

(* A queued run that suits a worker's runner does not wait for ever, also    *)
(* behind runs that suit no runner, unless a workflow runs for ever.         *)
QueuedIsDispatched ==
  (\A w \in Workers : []<>(workers[w].at # "executing")) =>
  \A r \in Runs :
    (runs[r].status = "queued" /\ \E w \in Workers : RunnerOf[w] \in Suited[r])
      ~> (runs[r].status # "queued")

(* At most one worker has a run.                                             *)
OneExecution ==
  \A r \in Runs, v, w \in Workers : Has(v, r) /\ Has(w, r) => v = w
=============================================================================
