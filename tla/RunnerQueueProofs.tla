-------------------------- MODULE RunnerQueueProofs --------------------------
(***************************************************************************)
(* Theorems about the runner queue, for any number of runs, runners,        *)
(* workers, callers and crashes.                                            *)
(*                                                                          *)
(* What a process read is old when it writes.  The invariant says what of   *)
(* it still holds by then, whatever happened since: a run that was read     *)
(* exists, one that was seen out of the queue never returns to it, and the  *)
(* rows a worker read hold every run inserted before them that is still     *)
(* queued.                                                                  *)
(***************************************************************************)
EXTENDS RunnerQueue, TLAPS, FiniteSetTheorems, WellFoundedInduction

Busy(w) == workers[w].at \in {"claimed", "executing", "ended", "finishing"}

Existing == {r \in Runs : runs[r].status # "absent"}

(* The rows that a worker read are of runs that exist. *)
RowsExist == \A w \in Workers : workers[w].rows \subseteq Existing

(* The run of a worker has left the queue. *)
BusyLeft ==
  \A w \in Workers : Busy(w) =>
    /\ workers[w].run \in Runs
    /\ runs[workers[w].run].status \notin {"absent", "queued"}

(* A workflow that ended has a result. *)
HasResult ==
  \A w \in Workers : workers[w].at \in {"ended", "finishing"} => workers[w].result # "none"

(* A run that a caller saw outside the queue is not in it. *)
SeenLeft ==
  \A c \in Callers : callers[c].doing = "cancel" =>
    /\ callers[c].run \in Existing
    /\ callers[c].seen # "none"
    /\ callers[c].seen # "queued" => runs[callers[c].run].status # "queued"

(* Runs are numbered in the order in which they were inserted. *)
Numbered == \A r \in Existing : runs[r].arrived < Cardinality(Existing)

(* A worker that claims read every queued run that was inserted before one it *)
(* read.                                                                    *)
OlderRead ==
  \A w \in Workers : \A r \in workers[w].rows, o \in Runs :
    (/\ workers[w].at = "claiming"
     /\ runs[o].status = "queued" /\ runs[o].arrived < runs[r].arrived) => o \in workers[w].rows

Inv ==
  /\ TypeOK /\ RowsExist /\ BusyLeft /\ HasResult /\ SeenLeft /\ Numbered /\ OlderRead
  /\ RunningIsExecuted

(* What every step but Enqueue does to the table of runs: none appears, none *)
(* returns to the queue, and numbers stay.                                  *)
Kept ==
  \A r \in Runs :
    /\ runs'[r].status = "absent" <=> runs[r].status = "absent"
    /\ runs'[r].status = "queued" => runs[r].status = "queued"
    /\ runs'[r].arrived = runs[r].arrived

LEMMA ExistingFinite ==
  IsFiniteSet(Existing) /\ Cardinality(Existing) \in Nat
BY NoneAssumption, FS_Subset, FS_CardinalityType DEF Existing

(* claim_next finds a first row: the order by priority and creation is total. *)
LEMMA FirstExists ==
  ASSUME TypeOK, NEW rows \in SUBSET Runs, rows # {}
  PROVE  /\ First(rows) \in rows
         /\ \A o \in rows : \/ Priority[First(rows)] > Priority[o]
                            \/ /\ Priority[First(rows)] = Priority[o]
                               /\ runs[First(rows)].created <= runs[o].created
<1> DEFINE Before(r, o) == \/ Priority[r] > Priority[o]
                           \/ Priority[r] = Priority[o] /\ runs[r].created <= runs[o].created
           HasFirst(S) == \E r \in S : \A o \in S : Before(r, o)
           T == {S \in SUBSET rows : S # {} /\ ~ HasFirst(S)}
<1>1. \A r \in Runs : Priority[r] \in Int /\ runs[r].created \in Nat
  BY PriorityAssumption DEF TypeOK, RunRow
<1>2. /\ \A r \in Runs : Before(r, r)
      /\ \A r, o \in Runs : Before(r, o) \/ Before(o, r)
      /\ \A r, o, q \in Runs : Before(r, o) /\ Before(o, q) => Before(r, q)
  BY <1>1
<1> HIDE DEF Before
<1>3. SUFFICES HasFirst(rows)
  BY DEF First, Before
<1>4. SUFFICES ASSUME rows \in T PROVE FALSE
  OBVIOUS
<1>5. IsFiniteSet(rows)
  BY NoneAssumption, FS_Subset
<1>6. T \subseteq FiniteSubsetsOf(rows) /\ T # {}
  BY <1>4, <1>5, FS_Subset DEF FiniteSubsetsOf
<1>7. \A S \in T : S \in SUBSET rows /\ S # {} /\ ~ HasFirst(S)
  OBVIOUS
<1>8. \A S \in SUBSET rows : S # {} /\ S \notin T => HasFirst(S)
  OBVIOUS
<1> HIDE DEF T
<1>9. PICK S \in T : \A U \in T : ~ (<<U, S>> \in StrictSubsetOrdering(rows))
  BY <1>5, <1>6, FS_StrictSubsetOrderingWellFounded, WFMin
<1>10. PICK x \in S : TRUE
  BY <1>7
<1>11. CASE S \ {x} = {}
  <2>1. \A o \in S : o = x
    BY <1>11
  <2> QED
    BY <1>2, <1>7, <1>10, <2>1
<1>12. CASE S \ {x} # {}
  <2>1. <<S \ {x}, S>> \in StrictSubsetOrdering(rows)
    BY <1>7, <1>10 DEF StrictSubsetOrdering
  <2>2. HasFirst(S \ {x})
    BY <1>7, <1>8, <1>9, <1>12, <2>1
  <2>3. PICK m \in S \ {x} : \A o \in S \ {x} : Before(m, o)
    BY <2>2
  <2>4. CASE Before(m, x)
    BY <1>7, <2>3, <2>4
  <2>5. CASE Before(x, m)
    <3>1. S \subseteq Runs
      BY <1>7
    <3>2. \A o \in S : Before(x, o)
      BY <1>2, <1>10, <2>3, <2>5, <3>1
    <3> QED
      BY <1>7, <1>10, <3>2
  <2> QED
    BY <1>2, <1>7, <1>10, <2>3, <2>4, <2>5
<1> QED
  BY <1>11, <1>12

(***************************************************************************)
(* Type correctness.                                                        *)
(***************************************************************************)

LEMMA TypeInit == Init => TypeOK
BY DEF Init, TypeOK, RunRow, RunnerRow, WorkerState, CallerState, Without, Idle, Statuses, Ended

(* What the columns may hold. *)
LEMMA Rows ==
  /\ \A row \in RunRow :
       /\ row.status \in Statuses /\ row.runner \in Runners \cup {None} /\ row.arrived \in Nat
       /\ \A s \in Statuses \ {"absent"} : [row EXCEPT !.status = s] \in RunRow
  /\ {"queued", "running", "cancel_requested", "completed", "failed", "canceled", "lost_runner"}
       = Statuses \ {"absent"}
  /\ \A row \in RunnerRow :
       row.status \in {"absent", "idle", "running", "lost"} /\ row.current \in Runs \cup {None}
  /\ \A x \in WorkerState : x.rows \subseteq Runs /\ x.run \in Runs \cup {None}
                           /\ x.result \in {"none", "completed", "failed", "canceled"}
  /\ \A x \in CallerState : x.run \in Runs \cup {None} /\ x.stale \subseteq Runners
BY DEF RunRow, RunnerRow, WorkerState, CallerState, Statuses, Ended

LEMMA TypeStamp ==
  ASSUME TypeOK, NEW r \in Runs, Stamp(r)
  PROVE  TypeOK'
<1> DEFINE stamped == {o \in Runs : stamps[o] # 0}
<1>1. Cardinality(stamped) \in Nat
  BY NoneAssumption, FS_Subset, FS_CardinalityType
<1>2. stamps' = [stamps EXCEPT ![r] = 1 + Cardinality(stamped)]
  BY DEF Stamp
<1> HIDE DEF stamped
<1> QED
  BY <1>1, <1>2 DEF Stamp, TypeOK

LEMMA TypeEnqueue ==
  ASSUME TypeOK, NEW r \in Runs, Enqueue(r)
  PROVE  TypeOK'
<1> DEFINE n == Cardinality({o \in Runs : runs[o].status # "absent"})
<1>1. n \in Nat
  BY ExistingFinite DEF Existing
<1>2. runs[r] \in RunRow
  BY DEF TypeOK
<1> HIDE DEF n
<1>3. [runs[r] EXCEPT !.status = "queued", !.created = stamps[r], !.arrived = n] \in RunRow
  BY <1>1, <1>2 DEF RunRow, Statuses, TypeOK
<1>4. runs' = [runs EXCEPT ![r].status = "queued", ![r].created = stamps[r], ![r].arrived = n]
  BY DEF Enqueue, n
<1> DEFINE row == [runs[r] EXCEPT !.status = "queued", !.created = stamps[r], !.arrived = n]
<1>5. runs' = [runs EXCEPT ![r] = row]
  BY <1>4
<1>6. row \in RunRow
  BY <1>3
<1>7. UNCHANGED <<stamps, runners, workers, callers, crashes>>
  BY DEF Enqueue
<1> HIDE DEF row
<1> QED
  BY <1>5, <1>6, <1>7 DEF TypeOK

LEMMA TypeCallers ==
  ASSUME TypeOK, SeenLeft, NEW c \in Callers,
         CancelWrite(c) \/ SweepRead(c) \/ SweepWrite(c) \/ \E r \in Runs : CancelRead(c, r)
  PROVE  TypeOK'
<1>1. Idle \in CallerState
  BY DEF Idle, CallerState
<1>2. CASE CancelWrite(c)
  <2>1. callers[c].run \in Runs
    BY <1>2 DEF CancelWrite, SeenLeft, Existing
  <2>2. \A r \in Runs, s \in {"canceled", "cancel_requested"},
           m \in {"canceled_before_dispatch", "cancel_requested"} :
          [runs[r] EXCEPT !.status = s, !.message = m] \in RunRow
    BY DEF TypeOK, RunRow, Statuses, Ended
  <2>3. runs' \in [Runs -> RunRow]
    BY <1>2, <2>1, <2>2 DEF CancelWrite, CancelStatus, TypeOK
  <2> QED
    BY <1>1, <1>2, <2>3 DEF CancelWrite, TypeOK
<1>3. CASE SweepRead(c)
  <2>1. \A stale \in SUBSET Runners : [Idle EXCEPT !.doing = "sweep", !.stale = stale] \in CallerState
    BY DEF Idle, CallerState
  <2> QED
    BY <1>3, <2>1 DEF SweepRead, TypeOK
<1>4. CASE SweepWrite(c)
  <2>1. \A r \in Runs : GivenUp(r) \in RunRow
    BY DEF GivenUp, TypeOK, RunRow, Statuses, Ended
  <2>2. \A x \in Runners : Swept(x) \in RunnerRow
    BY DEF Swept, TypeOK, RunnerRow
  <2> QED
    BY <1>1, <1>4, <2>1, <2>2 DEF SweepWrite, TypeOK
<1>5. CASE \E r \in Runs : CancelRead(c, r)
  <2>1. \A r \in Runs, s \in {"queued", "running", "cancel_requested"} :
          [Idle EXCEPT !.doing = "cancel", !.run = r, !.seen = s] \in CallerState
    BY DEF Idle, CallerState
  <2> QED
    BY <1>5, <2>1 DEF CancelRead, TypeOK
<1> QED
  BY <1>2, <1>3, <1>4, <1>5

LEMMA TypeClaim ==
  ASSUME TypeOK, NEW w \in Workers, Claim(w)
  PROVE  TypeOK'
<1> DEFINE suited == Suits(w)
           x == RunnerOf[w]
<1>1. suited \subseteq Runs
  BY Rows DEF Suits, TypeOK
<1>2. x \in Runners
  BY RunnerOfAssumption
<1>3. \A r \in Runs : /\ [runs[r] EXCEPT !.message = "unsuited"] \in RunRow
                     /\ [runs[r] EXCEPT !.message = @] \in RunRow
                     /\ [runs[r] EXCEPT !.status = "running", !.runner = x, !.message = "none"]
                          \in RunRow
  BY <1>2 DEF TypeOK, RunRow, Statuses
<1> HIDE DEF suited
<1>4. CASE suited = {}
  <2>1. [workers[w] EXCEPT !.at = "idle", !.rows = {}] \in WorkerState
    BY DEF TypeOK, WorkerState
  <2> DEFINE Noted(r) ==
               [runs[r] EXCEPT !.message = IF r \in Passed(workers[w].rows, suited)
                                           THEN "unsuited" ELSE runs[r].message]
  <2>2. /\ runs' = [r \in Runs |-> Noted(r)]
        /\ workers' = [workers EXCEPT ![w].at = "idle", ![w].rows = {}]
        /\ UNCHANGED <<stamps, runners, callers, crashes>>
    BY <1>4 DEF Claim, suited
  <2>3. \A r \in Runs : Noted(r) \in RunRow
    BY <1>3
  <2>4. runs' \in [Runs -> RunRow]
    BY <2>2, <2>3
  <2>5. workers' \in [Workers -> WorkerState]
    BY <2>1, <2>2 DEF TypeOK
  <2> QED
    BY <2>2, <2>4, <2>5 DEF TypeOK
<1>5. CASE suited # {}
  <2>1. First(suited) \in Runs
    BY <1>1, <1>5, FirstExists
  <2> DEFINE chosen == First(suited)
  <2> HIDE DEF chosen
  <2>2. [workers[w] EXCEPT !.at = "claimed", !.rows = {}, !.run = chosen] \in WorkerState
    BY <2>1 DEF TypeOK, WorkerState, chosen
  <2>3. [status |-> "running", current |-> chosen, fresh |-> TRUE] \in RunnerRow
    BY <2>1 DEF RunnerRow, chosen
  <2>4. runs' \in [Runs -> RunRow]
    <3> DEFINE passed == Passed(workers[w].rows, suited)
    <3>1. runs' = [r \in Runs |->
                     IF r = chosen /\ Claimable(r)
                     THEN [runs[r] EXCEPT !.status = "running", !.runner = x, !.message = "none"]
                     ELSE [runs[r] EXCEPT !.message = IF r \in passed THEN "unsuited" ELSE @]]
      BY <1>5 DEF Claim, suited, chosen
    <3> HIDE DEF passed
    <3> QED
      BY <1>3, <3>1
  <2>5. runners' \in [Runners -> RunnerRow]
    BY <1>2, <1>5, <2>3 DEF Claim, TypeOK, suited, chosen
  <2>6. workers' \in [Workers -> WorkerState]
    BY <1>5, <2>2 DEF Claim, TypeOK, suited, chosen
  <2> QED
    BY <2>4, <2>5, <2>6 DEF Claim, TypeOK
<1> QED
  BY <1>4, <1>5

LEMMA TypeWorkers ==
  ASSUME TypeOK, BusyLeft, HasResult, NEW w \in Workers,
         \/ Work(w) \/ Monitor(w) \/ Crash(w)
         \/ \E result \in {"completed", "failed"} : End(w, result)
  PROVE  TypeOK'
<1>0. RunnerOf[w] \in Runners /\ workers[w] \in WorkerState
  BY RunnerOfAssumption DEF TypeOK
<1>1. [status |-> "idle", current |-> None, fresh |-> TRUE] \in RunnerRow
  BY DEF RunnerRow
<1>2. CASE Start(w)
  <2>1. \A x \in Runners : \A s \in {"idle", runners[x].status} :
          [runners[x] EXCEPT !.status = s, !.fresh = TRUE] \in RunnerRow
    BY DEF TypeOK, RunnerRow
  <2>2. [workers[w] EXCEPT !.at = "polling"] \in WorkerState
    BY <1>0 DEF WorkerState
  <2> QED
    BY <1>0, <1>2, <2>1, <2>2 DEF Start, TypeOK
<1>3. CASE Poll(w)
  <2>1. \A rows \in SUBSET Runs :
          [workers[w] EXCEPT !.at = "claiming", !.rows = rows] \in WorkerState
    BY <1>0 DEF WorkerState
  <2> QED
    BY <1>3, <2>1 DEF Poll, TypeOK
<1>4. CASE Claim(w)
  BY <1>4, TypeClaim
<1>5. CASE Heartbeat(w)
  <2>1. [workers[w] EXCEPT !.at = "polling"] \in WorkerState
    BY <1>0 DEF WorkerState
  <2> QED
    BY <1>0, <1>1, <1>5, <2>1 DEF Heartbeat, TypeOK
<1>6. CASE Begin(w)
  <2>1. /\ [workers[w] EXCEPT !.at = "executing"] \in WorkerState
        /\ [workers[w] EXCEPT !.at = "ended", !.result = "failed"] \in WorkerState
        /\ [workers[w] EXCEPT !.at = "ended", !.result = "canceled"] \in WorkerState
    BY <1>0 DEF WorkerState
  <2> QED
    BY <1>6, <2>1 DEF Begin, TypeOK
<1>7. CASE Check(w)
  <2>1. \A s \in {"canceled", workers[w].result} :
          [workers[w] EXCEPT !.at = "finishing", !.result = s] \in WorkerState
    BY <1>0 DEF WorkerState
  <2> QED
    BY <1>7, <2>1 DEF Check, TypeOK
<1>8. CASE Finish(w)
  <2>1. workers[w].run \in Runs /\ workers[w].result \in {"completed", "failed", "canceled"}
    BY <1>0, <1>8, Rows DEF Finish, BusyLeft, Busy, HasResult
  <2>2. Finished(workers[w].run, workers[w].result) \in RunRow
    <3>1. \A s \in {"completed", "failed", "canceled"}, m \in {"canceled", "none"} :
            [runs[workers[w].run] EXCEPT !.status = s, !.message = m] \in RunRow
      BY <2>1 DEF TypeOK, RunRow, Statuses, Ended
    <3> QED
      BY <2>1, <3>1 DEF Finished
  <2>3. Without("polling") \in WorkerState
    BY DEF Without, WorkerState
  <2> QED
    BY <1>1, <1>8, <2>1, <2>2, <2>3 DEF Finish, TypeOK
<1>9. CASE Monitor(w)
  <2>1. [workers[w] EXCEPT !.stop = TRUE] \in WorkerState
    BY <1>0 DEF WorkerState
  <2> QED
    BY <1>9, <2>1 DEF Monitor, TypeOK
<1>10. CASE Crash(w)
  <2>1. Without("down") \in WorkerState
    BY DEF Without, WorkerState
  <2> QED
    BY <1>10, <2>1 DEF Crash, TypeOK
<1>11. CASE \E result \in {"completed", "failed"} : End(w, result)
  <2>1. \A s \in {"completed", "failed"} :
          [workers[w] EXCEPT !.at = "ended", !.result = s] \in WorkerState
    BY <1>0 DEF WorkerState
  <2> QED
    BY <1>11, <2>1 DEF End, TypeOK
<1> QED
  BY <1>2, <1>3, <1>4, <1>5, <1>6, <1>7, <1>8, <1>9, <1>10, <1>11 DEF Work

LEMMA TypeStep ==
  ASSUME TypeOK, BusyLeft, HasResult, SeenLeft, [Next]_vars
  PROVE  TypeOK'
<1>1. CASE UNCHANGED vars
  BY <1>1 DEF vars, TypeOK
<1>2. CASE \E x \in Runners : Stale(x)
  <2>1. \A x \in Runners : [runners[x] EXCEPT !.fresh = FALSE] \in RunnerRow
    BY DEF TypeOK, RunnerRow
  <2> QED
    BY <1>2, <2>1 DEF Stale, TypeOK
<1> QED
  BY <1>1, <1>2, TypeStamp, TypeEnqueue, TypeCallers, TypeWorkers DEF Next

(***************************************************************************)
(* What the steps leave of what processes read.                             *)
(***************************************************************************)

(* A worker keeps the rows it read, drops them, or reads those of now. *)
RowsKept ==
  \A w \in Workers :
    \/ /\ workers'[w].rows = workers[w].rows
       /\ workers'[w].at = "claiming" => workers[w].at = "claiming"
    \/ workers'[w].rows = {}
    \/ workers'[w].rows = {r \in Runs : runs[r].status = "queued"} /\ runs' = runs

(* A worker that has a run had it before. *)
BusyKept == \A w \in Workers : Busy(w)' => Busy(w) /\ workers'[w].run = workers[w].run

(* Worker w finds nothing to claim: the runs stay what they are. *)
Passes(w) ==
  /\ workers'[w].at = "idle"
  /\ \A r \in Runs : /\ runs'[r].status = runs[r].status
                     /\ runs'[r].runner = runs[r].runner
                     /\ runs'[r].arrived = runs[r].arrived

(* Worker w takes a run, which it dispatches if it is still in the queue. *)
Takes(w, chosen) ==
  /\ workers'[w].at = "claimed" /\ workers'[w].run = chosen
  /\ \A r \in Runs :
       /\ runs'[r].arrived = runs[r].arrived
       /\ IF r = chosen /\ runs[r].status = "queued"
          THEN runs'[r].status = "running" /\ runs'[r].runner = RunnerOf[w]
          ELSE runs'[r].status = runs[r].status /\ runs'[r].runner = runs[r].runner

(* claim_next takes the first of the rows that suit, or none. *)
LEMMA ClaimEffect ==
  ASSUME TypeOK, NEW w \in Workers, Claim(w)
  PROVE  /\ workers[w].at = "claiming" /\ UNCHANGED <<callers, crashes>>
         /\ \A v \in Workers \ {w} : workers'[v] = workers[v]
         /\ workers'[w].rows = {}
         /\ \/ Passes(w)
            \/ First(Suits(w)) \in Suits(w) /\ Takes(w, First(Suits(w)))
<1> DEFINE suited == Suits(w)
           passed == Passed(workers[w].rows, suited)
           chosen == First(suited)
<1>1. suited \in SUBSET Runs
  BY Rows DEF Suits, TypeOK
<1>2. \A r \in Runs : runs[r] \in RunRow
  BY DEF TypeOK
<1>3. \A row \in RunRow : \A m \in {"unsuited", row.message} :
        /\ [row EXCEPT !.message = m].status = row.status
        /\ [row EXCEPT !.message = m].runner = row.runner
        /\ [row EXCEPT !.message = m].arrived = row.arrived
  BY DEF RunRow
<1>4. \A row \in RunRow : \A y :
        /\ [row EXCEPT !.status = "running", !.runner = y, !.message = "none"].status = "running"
        /\ [row EXCEPT !.status = "running", !.runner = y, !.message = "none"].runner = y
        /\ [row EXCEPT !.status = "running", !.runner = y, !.message = "none"].arrived = row.arrived
  BY DEF RunRow
<1>5. CASE suited = {}
  <2>1. runs' = [r \in Runs |-> [runs[r] EXCEPT !.message = IF r \in passed THEN "unsuited" ELSE @]]
    BY <1>5 DEF Claim
  <2>2. workers' = [workers EXCEPT ![w].at = "idle", ![w].rows = {}]
    BY <1>5 DEF Claim
  <2> HIDE DEF suited, passed
  <2>3. \A r \in Runs : /\ runs'[r].status = runs[r].status
                       /\ runs'[r].runner = runs[r].runner
                       /\ runs'[r].arrived = runs[r].arrived
    BY <1>2, <1>3, <2>1
  <2>4. /\ \A v \in Workers \ {w} : workers'[v] = workers[v]
        /\ workers'[w].at = "idle" /\ workers'[w].rows = {}
    BY <2>2 DEF TypeOK, WorkerState
  <2> QED
    BY <2>3, <2>4 DEF Claim, Passes
<1>6. CASE suited # {}
  <2>1. chosen \in suited
    BY <1>1, <1>6, FirstExists
  <2>2. runs' = [r \in Runs |->
                   IF r = chosen /\ Claimable(r)
                   THEN [runs[r] EXCEPT !.status = "running", !.runner = RunnerOf[w], !.message = "none"]
                   ELSE [runs[r] EXCEPT !.message = IF r \in passed THEN "unsuited" ELSE @]]
    BY <1>6 DEF Claim
  <2>3. workers' = [workers EXCEPT ![w].at = "claimed", ![w].rows = {}, ![w].run = chosen]
    BY <1>6 DEF Claim
  <2> HIDE DEF suited, passed, chosen
  <2>4. /\ \A v \in Workers \ {w} : workers'[v] = workers[v]
        /\ workers'[w].at = "claimed" /\ workers'[w].rows = {} /\ workers'[w].run = chosen
    BY <2>3 DEF TypeOK, WorkerState
  <2>5. ASSUME NEW r \in Runs
        PROVE  /\ runs'[r].arrived = runs[r].arrived
               /\ IF r = chosen /\ runs[r].status = "queued"
                  THEN runs'[r].status = "running" /\ runs'[r].runner = RunnerOf[w]
                  ELSE runs'[r].status = runs[r].status /\ runs'[r].runner = runs[r].runner
    <3>1. CASE r = chosen /\ runs[r].status = "queued"
      <4>1. runs'[r] = [runs[r] EXCEPT !.status = "running", !.runner = RunnerOf[w], !.message = "none"]
        BY <2>2, <3>1 DEF Claimable
      <4> QED
        BY <1>2, <1>4, <3>1, <4>1
    <3>2. CASE ~ (r = chosen /\ runs[r].status = "queued")
      <4>1. runs'[r] = [runs[r] EXCEPT !.message = IF r \in passed THEN "unsuited" ELSE @]
        BY <2>2, <3>2 DEF Claimable
      <4> QED
        BY <1>2, <1>3, <3>2, <4>1
    <3> QED
      BY <3>1, <3>2
  <2>6. Takes(w, chosen)
    BY <2>4, <2>5 DEF Takes
  <2> QED
    BY <2>1, <2>4, <2>6 DEF Claim, suited, chosen
<1> QED
  BY <1>5, <1>6

StaysQueued(r) == runs[r].status = "queued" => runs'[r].status = "queued"

(* Callers write over runs that exist, return none to the queue, and take   *)
(* at most one out of it.                                                   *)
LEMMA KeptCallers ==
  ASSUME TypeOK, SeenLeft, NEW c \in Callers,
         CancelWrite(c) \/ SweepRead(c) \/ SweepWrite(c) \/ \E r \in Runs : CancelRead(c, r)
  PROVE  /\ Kept /\ workers' = workers
         /\ \A r \in Runs : /\ runs'[r].status = "running" => runs[r].status = "running"
                            /\ runs'[r].runner = runs[r].runner
         /\ \/ \A o \in Runs : StaysQueued(o)
            \/ \E r \in Runs : \A o \in Runs \ {r} : StaysQueued(o)
<1>1. \A r \in Runs : runs[r] \in RunRow
  BY DEF TypeOK
<1>2. CASE CancelWrite(c)
  <2> DEFINE r == callers[c].run
             seen == callers[c].seen
             m == IF seen = "queued" THEN "canceled_before_dispatch" ELSE "cancel_requested"
  <2>1. r \in Runs /\ runs[r].status # "absent"
    BY <1>2 DEF CancelWrite, SeenLeft, Existing
  <2>2. runs' = [runs EXCEPT ![r].status = CancelStatus(seen), ![r].message = m]
    BY <1>2 DEF CancelWrite
  <2>3. CancelStatus(seen) \notin {"absent", "queued", "running"}
    BY DEF CancelStatus
  <2> HIDE DEF r, seen, m
  <2>4. \A q \in Runs : /\ runs'[q].arrived = runs[q].arrived
                       /\ runs'[q].runner = runs[q].runner
                       /\ runs'[q].status = IF q = r THEN CancelStatus(seen) ELSE runs[q].status
    BY <1>1, <2>1, <2>2 DEF TypeOK, RunRow
  <2> QED
    <3>1. Kept
      BY <2>1, <2>3, <2>4 DEF Kept
    <3>2. \A o \in Runs \ {r} : StaysQueued(o)
      BY <2>4 DEF StaysQueued
    <3>3. \A q \in Runs : /\ runs'[q].status = "running" => runs[q].status = "running"
                         /\ runs'[q].runner = runs[q].runner
      BY <2>3, <2>4
    <3> QED
      BY <1>2, <2>1, <3>1, <3>2, <3>3 DEF CancelWrite
<1>3. CASE SweepRead(c)
  BY <1>3 DEF SweepRead, Kept, StaysQueued
<1>4. CASE SweepWrite(c)
  <2>1. \A r \in Runs : /\ GivenUp(r).arrived = runs[r].arrived
                       /\ GivenUp(r).runner = runs[r].runner
                       /\ GivenUp(r).status = "lost_runner"
    BY <1>1 DEF GivenUp, RunRow
  <2> QED
    BY <1>4, <2>1 DEF SweepWrite, IsLost, Kept, StaysQueued
<1>5. CASE \E r \in Runs : CancelRead(c, r)
  BY <1>5 DEF CancelRead, Kept, StaysQueued
<1> QED
  BY <1>2, <1>3, <1>4, <1>5

(* finish_run changes the status of the worker's run alone. *)
LEMMA FinishEffect ==
  ASSUME TypeOK, BusyLeft, HasResult, NEW w \in Workers, Finish(w)
  PROVE  /\ workers[w].run \in Runs /\ runs[workers[w].run].status \notin {"absent", "queued"}
         /\ workers[w].result \in {"completed", "failed", "canceled"}
         /\ \A r \in Runs :
              /\ runs'[r].arrived = runs[r].arrived
              /\ runs'[r].runner = runs[r].runner
              /\ runs'[r].status = IF r = workers[w].run THEN workers[w].result ELSE runs[r].status
<1>1. /\ workers[w].run \in Runs /\ runs[workers[w].run].status \notin {"absent", "queued"}
      /\ workers[w].result # "none"
  BY DEF Finish, BusyLeft, Busy, HasResult
<1>2. workers[w].result \in {"completed", "failed", "canceled"}
  BY <1>1, Rows DEF TypeOK
<1>3. \A r \in Runs, s \in {"completed", "failed", "canceled"} :
        /\ Finished(r, s).arrived = runs[r].arrived
        /\ Finished(r, s).runner = runs[r].runner
        /\ Finished(r, s).status = s
  BY DEF Finished, TypeOK, RunRow
<1>4. runs' = [runs EXCEPT ![workers[w].run] = Finished(workers[w].run, workers[w].result)]
  BY DEF Finish
<1> QED
  BY <1>1, <1>2, <1>3, <1>4 DEF TypeOK

(* The steps of a worker that only it sees.                                 *)
LEMMA QuietWorkers ==
  ASSUME TypeOK, HasResult, NEW w \in Workers,
         \/ Start(w) \/ Poll(w) \/ Heartbeat(w) \/ Begin(w) \/ Check(w) \/ Monitor(w)
         \/ \E result \in {"completed", "failed"} : End(w, result)
  PROVE  /\ UNCHANGED <<runs, callers, crashes>> /\ RowsKept /\ BusyKept /\ HasResult'
         /\ \A v \in Workers, r \in Runs : Has(v, r) => Has(v, r)'
<1> USE DEF RowsKept, BusyKept, Busy, HasResult, Has, TypeOK, WorkerState
<1>1. CASE Start(w)
  BY <1>1 DEF Start
<1>2. CASE Poll(w)
  BY <1>2 DEF Poll
<1>3. CASE Heartbeat(w)
  BY <1>3 DEF Heartbeat
<1>4. CASE Begin(w)
  BY <1>4 DEF Begin
<1>5. CASE Check(w)
  BY <1>5 DEF Check
<1>6. CASE Monitor(w)
  BY <1>6 DEF Monitor
<1>7. CASE \E result \in {"completed", "failed"} : End(w, result)
  BY <1>7 DEF End
<1> QED
  BY <1>1, <1>2, <1>3, <1>4, <1>5, <1>6, <1>7

(* A worker that finishes, or crashes, has nothing left. *)
LEMMA LeavingWorkers ==
  ASSUME TypeOK, HasResult, NEW w \in Workers, Finish(w) \/ Crash(w)
  PROVE  /\ UNCHANGED callers /\ RowsKept /\ BusyKept /\ HasResult'
         /\ \A v \in Workers \ {w} : workers'[v] = workers[v]
<1>1. workers' = [workers EXCEPT ![w] = Without("polling")]
      \/ workers' = [workers EXCEPT ![w] = Without("down")]
  BY DEF Finish, Crash
<1>2. /\ \A v \in Workers \ {w} : workers'[v] = workers[v]
      /\ workers'[w] \in {Without("polling"), Without("down")}
  BY <1>1 DEF TypeOK
<1>3. workers'[w].at \in {"polling", "down"} /\ workers'[w].rows = {}
  BY <1>2 DEF Without
<1> QED
  BY <1>2, <1>3 DEF Finish, Crash, RowsKept, BusyKept, Busy, HasResult

(* Numbers and rows stay right when no run enters the queue. *)
LEMMA NumbersInv ==
  ASSUME TypeOK, RowsExist, Numbered, OlderRead, Kept, RowsKept
  PROVE  Existing' = Existing /\ RowsExist' /\ Numbered' /\ OlderRead'
<1>1. Existing' = Existing
  BY DEF Kept, Existing
<1>2. \A w \in Workers : workers[w].rows \subseteq Runs
  BY Rows DEF TypeOK
<1>3. RowsExist'
  BY <1>1 DEF RowsExist, RowsKept, Existing
<1>4. Numbered'
  BY <1>1 DEF Numbered, Existing, Kept
<1>5. OlderRead'
  BY <1>2 DEF OlderRead, Kept, RowsKept
<1> QED
  BY <1>1, <1>3, <1>4, <1>5

LEMMA LeftInv ==
  ASSUME BusyLeft, Kept, BusyKept
  PROVE  BusyLeft'
BY DEF BusyLeft, Kept, BusyKept, Busy

LEMMA SeenInv ==
  ASSUME SeenLeft, Kept, UNCHANGED callers
  PROVE  SeenLeft'
BY DEF SeenLeft, Kept, Existing

(* A running run stays with its worker when no run is dispatched.           *)
LEMMA RunningInv ==
  ASSUME RunningIsExecuted, UNCHANGED crashes,
         \A r \in Runs : runs'[r].status = "running" =>
           /\ runs[r].status = "running" /\ runs'[r].runner = runs[r].runner
           /\ \A w \in Workers : Has(w, r) => Has(w, r)'
  PROVE  RunningIsExecuted'
BY DEF RunningIsExecuted

(***************************************************************************)
(* The invariant, action by action.                                         *)
(***************************************************************************)

LEMMA InitInv == Init => Inv
<1> SUFFICES ASSUME Init PROVE Inv
  OBVIOUS
<1>1. \A r \in Runs : runs[r].status = "absent"
  BY DEF Init
<1>2. \A w \in Workers : workers[w].at = "down" /\ workers[w].rows = {}
  BY DEF Init, Without
<1>3. \A c \in Callers : callers[c].doing = "nothing"
  BY DEF Init, Idle
<1> QED
  BY <1>1, <1>2, <1>3, TypeInit
  DEF Inv, RowsExist, BusyLeft, Busy, HasResult, SeenLeft, Numbered, Existing, OlderRead,
      RunningIsExecuted

LEMMA EnqueueInv ==
  ASSUME Inv, NEW r \in Runs, Enqueue(r)
  PROVE  Inv'
<1> USE DEF Inv
<1> DEFINE n == Cardinality(Existing)
<1>1. n \in Nat /\ IsFiniteSet(Existing)
  BY ExistingFinite
<1>2. runs' = [runs EXCEPT ![r].status = "queued", ![r].created = stamps[r], ![r].arrived = n]
  BY DEF Enqueue, Existing
<1>3. r \notin Existing /\ UNCHANGED <<workers, callers, crashes>>
  BY DEF Enqueue, Existing
<1> HIDE DEF n
<1>4. /\ runs'[r].status = "queued" /\ runs'[r].arrived = n
      /\ \A o \in Runs \ {r} : runs'[o] = runs[o]
  BY <1>2 DEF TypeOK, RunRow
<1>5. Existing' = Existing \cup {r}
  BY <1>4 DEF Existing
<1>6. Cardinality(Existing') = n + 1
  BY <1>1, <1>3, <1>5, FS_AddElement DEF n
<1>7. \A o \in Existing : o \in Runs /\ runs[o].arrived \in Nat /\ runs[o].arrived < n
  BY DEF Numbered, Existing, TypeOK, RunRow, n
<1>8. TypeOK'
  BY TypeEnqueue
<1>9. RowsExist'
  BY <1>3, <1>5 DEF RowsExist
<1>10. BusyLeft'
  BY <1>3, <1>4 DEF BusyLeft, Busy, Existing
<1>11. HasResult'
  BY <1>3 DEF HasResult
<1>12. SeenLeft'
  BY <1>3, <1>4, <1>5 DEF SeenLeft, Existing
<1>13. Numbered'
  <2> SUFFICES ASSUME NEW o \in Existing' PROVE runs'[o].arrived < Cardinality(Existing')
    BY DEF Numbered
  <2>1. CASE o = r
    BY <1>1, <1>4, <1>6, <2>1
  <2>2. CASE o # r
    BY <1>1, <1>4, <1>5, <1>6, <1>7, <2>2
  <2> QED
    BY <2>1, <2>2
<1>14. OlderRead'
  <2> SUFFICES ASSUME NEW w \in Workers, NEW q \in workers'[w].rows, NEW o \in Runs,
                      workers'[w].at = "claiming",
                      runs'[o].status = "queued", runs'[o].arrived < runs'[q].arrived
               PROVE  o \in workers'[w].rows
    BY DEF OlderRead
  <2>1. q \in Existing
    BY <1>3 DEF RowsExist
  <2>2. o # r
    BY <1>1, <1>3, <1>4, <1>7, <2>1
  <2> QED
    BY <1>3, <1>4, <1>7, <2>1, <2>2 DEF OlderRead
<1>15. RunningIsExecuted'
  BY <1>3, <1>4 DEF RunningIsExecuted, Has, Existing
<1> QED
  BY <1>8, <1>9, <1>10, <1>11, <1>12, <1>13, <1>14, <1>15

LEMMA CallersInv ==
  ASSUME Inv, NEW c \in Callers,
         CancelWrite(c) \/ SweepRead(c) \/ SweepWrite(c) \/ \E r \in Runs : CancelRead(c, r)
  PROVE  Inv'
<1> USE DEF Inv
<1>1. Kept /\ workers' = workers /\ UNCHANGED crashes
  BY KeptCallers DEF CancelWrite, SweepRead, SweepWrite, CancelRead
<1>2. RowsKept /\ BusyKept /\ HasResult'
  BY <1>1 DEF RowsKept, BusyKept, Busy, HasResult
<1>3. TypeOK'
  BY TypeCallers
<1>4. BusyLeft' /\ RowsExist' /\ Numbered' /\ OlderRead' /\ Existing' = Existing
  BY <1>1, <1>2, LeftInv, NumbersInv
<1>5. SeenLeft'
  <2> SUFFICES ASSUME NEW d \in Callers, callers'[d].doing = "cancel"
               PROVE  /\ callers'[d].run \in Existing
                      /\ callers'[d].seen # "none"
                      /\ callers'[d].seen # "queued" => runs'[callers'[d].run].status # "queued"
    BY <1>4 DEF SeenLeft
  <2>1. CASE callers'[d] = callers[d]
    BY <1>1, <2>1 DEF SeenLeft, Kept, Existing
  <2>2. CASE callers'[d] # callers[d]
    <3>1. d = c
      BY <2>2 DEF CancelWrite, SweepRead, SweepWrite, CancelRead, TypeOK
    <3>2. ~ CancelWrite(c) /\ ~ SweepWrite(c) /\ ~ SweepRead(c)
      <4>1. \A x : callers' = [callers EXCEPT ![c] = x] => callers'[d] = x
        BY <3>1 DEF TypeOK
      <4>2. Idle.doing # "cancel"
        BY DEF Idle
      <4>3. \A stale : [Idle EXCEPT !.doing = "sweep", !.stale = stale].doing # "cancel"
        BY DEF Idle
      <4>4. ~ CancelWrite(c) /\ ~ SweepWrite(c)
        BY <4>1, <4>2 DEF CancelWrite, SweepWrite
      <4>5. ~ SweepRead(c)
        BY <4>1, <4>3 DEF SweepRead
      <4> QED
        BY <4>4, <4>5
    <3>3. PICK r \in Runs : CancelRead(c, r)
      BY <3>2
    <3>4. callers'[c] = [Idle EXCEPT !.doing = "cancel", !.run = r, !.seen = runs[r].status]
      BY <3>3 DEF CancelRead, TypeOK
    <3>5. callers'[c].run = r /\ callers'[c].seen = runs[r].status
      BY <3>4 DEF Idle
    <3>6. runs[r].status \in {"queued", "running", "cancel_requested"} /\ runs' = runs
      BY <3>3 DEF CancelRead
    <3> QED
      BY <3>1, <3>5, <3>6 DEF Existing
  <2> QED
    BY <2>1, <2>2
<1>6. RunningIsExecuted'
  <2>1. \A r \in Runs : runs'[r].status = "running" =>
          runs[r].status = "running" /\ runs'[r].runner = runs[r].runner
    BY KeptCallers
  <2>2. \A w \in Workers, r \in Runs : Has(w, r) => Has(w, r)'
    BY <1>1 DEF Has
  <2> QED
    BY <1>1, <2>1, <2>2, RunningInv
<1> QED
  BY <1>2, <1>3, <1>4, <1>5, <1>6

LEMMA ClaimInv ==
  ASSUME Inv, NEW w \in Workers, Claim(w)
  PROVE  Inv'
<1> USE DEF Inv
<1>1. Suits(w) \subseteq workers[w].rows /\ workers[w].rows \subseteq Existing
  BY DEF Suits, RowsExist
<1>2. Kept
  BY ClaimEffect DEF Kept, Passes, Takes
<1>3. /\ \A v \in Workers \ {w} : workers'[v] = workers[v]
      /\ workers'[w].rows = {}
      /\ workers'[w].at \in {"idle", "claimed"}
      /\ UNCHANGED <<callers, crashes>>
  BY ClaimEffect DEF Passes, Takes
<1>4. RowsKept /\ HasResult'
  BY <1>3 DEF RowsKept, HasResult
<1>5. TypeOK'
  BY TypeClaim
<1>6. RowsExist' /\ Numbered' /\ OlderRead' /\ SeenLeft'
  BY <1>2, <1>3, <1>4, NumbersInv, SeenInv
<1>7. BusyLeft'
  <2> SUFFICES ASSUME NEW v \in Workers, Busy(v)'
               PROVE  /\ workers'[v].run \in Runs
                      /\ runs'[workers'[v].run].status \notin {"absent", "queued"}
    BY DEF BusyLeft
  <2>1. CASE v # w
    BY <1>2, <1>3, <2>1 DEF BusyLeft, Busy, Kept
  <2>2. CASE v = w
    <3>1. First(Suits(w)) \in Suits(w) /\ Takes(w, First(Suits(w)))
      BY <2>2, ClaimEffect DEF Busy, Passes
    <3>2. workers'[w].run \in Runs /\ runs[workers'[w].run].status # "absent"
      BY <1>1, <3>1 DEF Existing, Takes
    <3> QED
      BY <2>2, <3>1, <3>2 DEF Takes
  <2> QED
    BY <2>1, <2>2
<1>8. RunningIsExecuted'
  <2> SUFFICES ASSUME crashes = 0, NEW r \in Runs, runs'[r].status = "running"
               PROVE  \E v \in Workers : Has(v, r)' /\ RunnerOf[v] = runs'[r].runner
    BY <1>3 DEF RunningIsExecuted
  <2>1. CASE runs[r].status = "running" /\ runs'[r].runner = runs[r].runner
    <3>1. PICK v \in Workers : Has(v, r) /\ RunnerOf[v] = runs[r].runner
      BY <2>1 DEF RunningIsExecuted
    <3>2. v # w
      BY <3>1, ClaimEffect DEF Has
    <3> QED
      BY <1>3, <2>1, <3>1, <3>2 DEF Has
  <2>2. CASE ~ (runs[r].status = "running" /\ runs'[r].runner = runs[r].runner)
    <3>1. Takes(w, r) /\ runs'[r].runner = RunnerOf[w]
      BY <2>2, ClaimEffect DEF Passes, Takes
    <3>2. Has(w, r)'
      BY <3>1 DEF Has, Takes
    <3> QED
      BY <3>1, <3>2
  <2> QED
    BY <2>1, <2>2
<1> QED
  BY <1>4, <1>5, <1>6, <1>7, <1>8

LEMMA WorkersInv ==
  ASSUME Inv, NEW w \in Workers,
         \/ Work(w) \/ Monitor(w) \/ Crash(w)
         \/ \E result \in {"completed", "failed"} : End(w, result)
  PROVE  Inv'
<1> USE DEF Inv
<1>1. TypeOK'
  BY TypeWorkers
<1>2. CASE Claim(w)
  BY <1>2, ClaimInv
<1>3. CASE \/ Start(w) \/ Poll(w) \/ Heartbeat(w) \/ Begin(w) \/ Check(w) \/ Monitor(w)
           \/ \E result \in {"completed", "failed"} : End(w, result)
  <2>1. /\ UNCHANGED <<runs, callers, crashes>> /\ RowsKept /\ BusyKept /\ HasResult'
        /\ \A v \in Workers, r \in Runs : Has(v, r) => Has(v, r)'
    BY <1>3, QuietWorkers
  <2>2. Kept
    BY <2>1 DEF Kept
  <2>3. RunningIsExecuted'
    BY <2>1, RunningInv
  <2> QED
    BY <1>1, <2>1, <2>2, <2>3, NumbersInv, LeftInv, SeenInv
<1>4. CASE Finish(w)
  <2>1. /\ UNCHANGED callers /\ RowsKept /\ BusyKept /\ HasResult'
        /\ \A v \in Workers \ {w} : workers'[v] = workers[v]
    BY <1>4, LeavingWorkers
  <2>2. /\ workers[w].run \in Runs /\ runs[workers[w].run].status \notin {"absent", "queued"}
        /\ workers[w].result \in {"completed", "failed", "canceled"}
        /\ \A r \in Runs :
             /\ runs'[r].arrived = runs[r].arrived
             /\ runs'[r].runner = runs[r].runner
             /\ runs'[r].status = IF r = workers[w].run THEN workers[w].result ELSE runs[r].status
    BY <1>4, FinishEffect
  <2>3. Kept
    BY <2>2 DEF Kept
  <2>4. RunningIsExecuted'
    <3>1. \A r \in Runs : runs'[r].status = "running" => r # workers[w].run
      BY <2>2
    <3>2. \A r \in Runs : \A v \in Workers : r # workers[w].run /\ Has(v, r) => Has(v, r)'
      BY <2>1 DEF Has
    <3> QED
      BY <1>4, <2>2, <3>1, <3>2, RunningInv DEF Finish
  <2> QED
    BY <1>1, <2>1, <2>3, <2>4, NumbersInv, LeftInv, SeenInv
<1>5. CASE Crash(w)
  <2>1. /\ UNCHANGED callers /\ RowsKept /\ BusyKept /\ HasResult'
    BY <1>5, LeavingWorkers
  <2>2. Kept
    BY <1>5 DEF Crash, Kept
  <2>3. RunningIsExecuted'
    BY <1>5 DEF Crash, RunningIsExecuted, TypeOK
  <2> QED
    BY <1>1, <2>1, <2>2, <2>3, NumbersInv, LeftInv, SeenInv
<1> QED
  BY <1>2, <1>3, <1>4, <1>5 DEF Work

LEMMA StepInv == Inv /\ [Next]_vars => Inv'
<1> SUFFICES ASSUME Inv, [Next]_vars PROVE Inv'
  OBVIOUS
<1>1. CASE UNCHANGED <<runs, workers, callers, crashes>>
  <2>1. Kept /\ RowsKept /\ BusyKept
    BY <1>1 DEF Kept, RowsKept, BusyKept, Busy
  <2>2. HasResult' /\ RunningIsExecuted'
    BY <1>1 DEF Inv, HasResult, RunningIsExecuted, Has
  <2> QED
    BY <1>1, <2>1, <2>2, TypeStep, NumbersInv, LeftInv, SeenInv DEF Inv
<1>2. CASE \E x \in Runners : Stale(x)
  BY <1>1, <1>2 DEF Stale
<1>3. CASE UNCHANGED vars
  BY <1>1, <1>3 DEF vars
<1>4. CASE \E r \in Runs : Stamp(r)
  BY <1>1, <1>4 DEF Stamp
<1> QED
  BY <1>2, <1>3, <1>4, EnqueueInv, CallersInv, WorkersInv DEF Next

THEOREM InvAlways == Spec => []Inv
BY InitInv, StepInv, PTL DEF Spec

(* Whatever processes do, rows, workers and callers have their shape.       *)
THEOREM TypeCorrect == Spec => []TypeOK
<1>1. Inv => TypeOK
  BY DEF Inv
<1> QED
  BY <1>1, InvAlways, PTL

(* While no worker crashes, a run shown as running is with a worker of the  *)
(* runner it names.                                                         *)
THEOREM RunningAlways == Spec => []RunningIsExecuted
<1>1. Inv => RunningIsExecuted
  BY DEF Inv
<1> QED
  BY <1>1, InvAlways, PTL

(* No run is dispatched while an older one, inserted before it, of no less  *)
(* priority waits that suits the runner, though a worker decides by rows it *)
(* read before.                                                             *)
THEOREM OrderAlways == Spec => DispatchOrder
<1> DEFINE Jumps(r, o) ==
      /\ runs[r].status = "queued" /\ runs'[r].status = "running"
      /\ runs[o].status = "queued"
      /\ runs[o].created < runs[r].created /\ runs[o].arrived < runs[r].arrived
      /\ Priority[o] >= Priority[r]
<1>1. ASSUME Inv, [Next]_vars, NEW r \in Runs, NEW o \in Runs, Jumps(r, o)
      PROVE  runs'[r].runner \notin Suited[o]
  <2> USE DEF Inv
  <2>1. PICK w \in Workers : Claim(w)
    <3>1. runs'[r].status # runs[r].status /\ runs'[r].status = "running"
      BY <1>1
    <3>2. ~ UNCHANGED runs
      BY <3>1
    <3>3. \A q \in Runs : ~ Enqueue(q)
      BY <1>1, <3>1 DEF Enqueue, TypeOK, RunRow
    <3>4. \A c \in Callers : ~ CancelWrite(c) /\ ~ SweepWrite(c)
      BY <1>1, <3>1, KeptCallers
    <3>5. \A w \in Workers : ~ Finish(w)
      BY <1>1, <3>1, FinishEffect
    <3> QED
      BY <1>1, <3>2, <3>3, <3>4, <3>5
      DEF Next, Work, vars, Stamp, CancelRead, SweepRead, Start, Poll, Heartbeat, Begin, Check, Monitor,
          End, Crash, Stale
  <2>2. r \in Suits(w) /\ r = First(Suits(w)) /\ runs'[r].runner = RunnerOf[w]
    BY <1>1, <2>1, ClaimEffect DEF Passes, Takes
  <2>3. o \in workers[w].rows
    BY <1>1, <2>1, <2>2, ClaimEffect DEF OlderRead, Suits
  <2>4. SUFFICES ASSUME RunnerOf[w] \in Suited[o] PROVE FALSE
    BY <2>2
  <2>5. o \in Suits(w) /\ Suits(w) \subseteq Runs
    BY <1>1, <2>3, <2>4, Rows DEF Suits, TypeOK
  <2>6. \/ Priority[r] > Priority[o]
        \/ Priority[r] = Priority[o] /\ runs[r].created <= runs[o].created
    BY <1>1, <2>2, <2>5, FirstExists
  <2>7. /\ Priority[r] \in Int /\ Priority[o] \in Int
        /\ runs[r].created \in Nat /\ runs[o].created \in Nat
    BY <1>1, PriorityAssumption DEF TypeOK, RunRow
  <2> QED
    BY <1>1, <2>6, <2>7
<1>2. Inv /\ [Next]_vars =>
        [\A r, o \in Runs :
           (/\ runs[r].status = "queued" /\ runs'[r].status = "running"
            /\ runs[o].status = "queued"
            /\ runs[o].created < runs[r].created /\ runs[o].arrived < runs[r].arrived
            /\ Priority[o] >= Priority[r])
           => runs'[r].runner \notin Suited[o]]_vars
  BY <1>1
<1> QED
  BY <1>2, InvAlways, PTL DEF Spec, DispatchOrder

(***************************************************************************)
(* The queue implements the ledger.                                         *)
(***************************************************************************)

Stage == [r \in Runs |-> IF runs[r].status \in {"absent", "queued"} THEN runs[r].status ELSE "left"]

Owner == [r \in Runs |-> runs[r].runner]

LEMMA LedgerStutters ==
  ASSUME Kept, \A r \in Runs : runs'[r].runner = runs[r].runner /\ StaysQueued(r)
  PROVE  Stage' = Stage /\ Owner' = Owner
BY DEF Kept, StaysQueued, Stage, Owner

LEMMA LedgerWithdraws ==
  ASSUME Kept, \A r \in Runs : runs'[r].runner = runs[r].runner,
         NEW r \in Runs, \A o \in Runs \ {r} : StaysQueued(o), ~ StaysQueued(r)
  PROVE  Ledger!Withdraw(r)
<1>1. Owner' = Owner
  BY DEF Owner
<1>2. Stage[r] = "queued" /\ Stage'[r] = "left" /\ \A o \in Runs \ {r} : Stage'[o] = Stage[o]
  BY DEF Kept, StaysQueued, Stage
<1>3. Stage' = [Stage EXCEPT ![r] = "left"]
  BY <1>2 DEF Stage
<1> QED
  BY <1>1, <1>2, <1>3 DEF Ledger!Withdraw, Stage, Owner

LEMMA LedgerStep ==
  ASSUME Inv, [Next]_vars
  PROVE  Ledger!Next \/ (Stage' = Stage /\ Owner' = Owner)
<1> USE DEF Inv
<1>1. CASE UNCHANGED runs
  BY <1>1 DEF Stage, Owner
<1>2. CASE \E r \in Runs : Enqueue(r)
  <2>1. PICK r \in Runs : Enqueue(r)
    BY <1>2
  <2>2. /\ runs[r].status = "absent" /\ runs'[r].status = "queued"
        /\ runs'[r].runner = runs[r].runner
        /\ \A o \in Runs \ {r} : runs'[o] = runs[o]
    BY <2>1 DEF Enqueue, TypeOK, RunRow
  <2>3. Owner' = Owner
    BY <2>2 DEF Owner
  <2>4. Stage[r] = "absent" /\ Stage' = [Stage EXCEPT ![r] = "queued"]
    BY <2>2 DEF Stage
  <2>5. Ledger!Enqueue(r)
    BY <2>3, <2>4 DEF Ledger!Enqueue, Stage, Owner
  <2> QED
    BY <2>5 DEF Ledger!Next
<1>3. CASE \E c \in Callers : CancelWrite(c) \/ SweepWrite(c)
  <2>1. /\ Kept /\ \A r \in Runs : runs'[r].runner = runs[r].runner
        /\ \/ \A o \in Runs : StaysQueued(o)
           \/ \E r \in Runs : \A o \in Runs \ {r} : StaysQueued(o)
    BY <1>3, KeptCallers
  <2>2. CASE \A r \in Runs : StaysQueued(r)
    BY <2>1, <2>2, LedgerStutters
  <2>3. CASE ~ \A r \in Runs : StaysQueued(r)
    <3>1. PICK r \in Runs : (\A o \in Runs \ {r} : StaysQueued(o)) /\ ~ StaysQueued(r)
      BY <2>1, <2>3
    <3>2. Ledger!Withdraw(r)
      BY <2>1, <3>1, LedgerWithdraws
    <3> QED
      BY <3>2 DEF Ledger!Next
  <2> QED
    BY <2>2, <2>3
<1>4. CASE \E w \in Workers : Claim(w)
  <2>1. PICK w \in Workers : Claim(w)
    BY <1>4
  <2>2. CASE Passes(w)
    BY <2>2, LedgerStutters DEF Passes, Kept, StaysQueued
  <2>3. CASE ~ Passes(w)
    <3> DEFINE r == First(Suits(w))
    <3>1. r \in Runs /\ Takes(w, r)
      BY <2>1, <2>3, ClaimEffect, Rows DEF Suits, TypeOK
    <3> HIDE DEF r
    <3>2. CASE runs[r].status = "queued"
      <4>1. /\ runs'[r].status = "running" /\ runs'[r].runner = RunnerOf[w]
            /\ \A o \in Runs \ {r} : /\ runs'[o].status = runs[o].status
                                     /\ runs'[o].runner = runs[o].runner
        BY <3>1, <3>2 DEF Takes
      <4>2. Stage[r] = "queued" /\ Stage' = [Stage EXCEPT ![r] = "left"]
        BY <3>1, <3>2, <4>1 DEF Stage
      <4>3. Owner' = [Owner EXCEPT ![r] = RunnerOf[w]]
        BY <3>1, <4>1 DEF Owner
      <4>4. Ledger!Dispatch(r, RunnerOf[w])
        BY <4>2, <4>3 DEF Ledger!Dispatch, Stage, Owner
      <4>5. RunnerOf[w] \in Runners
        BY RunnerOfAssumption
      <4> QED
        BY <3>1, <4>4, <4>5 DEF Ledger!Next
    <3>3. CASE runs[r].status # "queued"
      BY <3>1, <3>3, LedgerStutters DEF Takes, Kept, StaysQueued
    <3> QED
      BY <3>2, <3>3
  <2> QED
    BY <2>2, <2>3
<1>5. CASE \E w \in Workers : Finish(w)
  <2>1. PICK w \in Workers : Finish(w)
    BY <1>5
  <2> QED
    BY <2>1, FinishEffect, LedgerStutters DEF Kept, StaysQueued
<1> QED
  BY <1>1, <1>2, <1>3, <1>4, <1>5
  DEF Next, Work, vars, Stamp, CancelRead, SweepRead, Start, Poll, Heartbeat, Begin, Check, Monitor,
      End, Crash, Stale

(* Whatever workers, callers and crashes do, a run leaves the queue once,   *)
(* to one runner or to nobody, and keeps that runner.                       *)
THEOREM LedgerImplemented == Spec => ImplementsLedger
<1>1. Init => Ledger!Init
  BY DEF Init, Ledger!Init
<1>2. Inv /\ [Next]_vars => [Ledger!Next]_(Ledger!ledger)
  BY LedgerStep DEF Ledger!ledger, Stage, Owner
<1> QED
  BY <1>1, <1>2, InvAlways, PTL DEF Spec, ImplementsLedger, Ledger!Spec
=============================================================================
