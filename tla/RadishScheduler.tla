--------------------------- MODULE RadishScheduler ---------------------------
(***************************************************************************)
(* The Radish workflow scheduler (gofer/radish/workflow_runtime.py): one    *)
(* run of one compiled workflow.                                            *)
(*                                                                          *)
(* A node runs when a route signal (an activation) is pending for it and    *)
(* every node it "needs" has completed in the activation's lineage.  The    *)
(* node's handler is a task of the event loop; when it ends it sends a      *)
(* completion to the scheduler, which handles one completion at a time,     *)
(* without awaiting, and then starts whatever became runnable.              *)
(*                                                                          *)
(* Every action below is one stretch of code between two awaits.  What a    *)
(* handler does, its values and its errors are abstracted: only the outcome *)
(* of an attempt and, for a loop, the number of items it yields are kept.   *)
(* A route's predicate is a choice over the conditional routes that match.  *)
(***************************************************************************)
EXTENDS Integers, FiniteSets, Sequences

CONSTANTS
  Nodes,       (* The node ids of the workflow.                            *)
  Node,        (* The IR of each node, see IsNode.                         *)
  MaxRuns,     (* The workflow's max-runs, 0 for none.                     *)
  HasTimeout,  (* Whether the workflow declares a timeout.                 *)
  Outputs      (* The nodes whose output is a public workflow output.      *)

ASSUME NodesAssumption == IsFiniteSet(Nodes) /\ Outputs \subseteq Nodes
ASSUME MaxRunsAssumption == MaxRuns \in Nat /\ HasTimeout \in BOOLEAN

Outcomes == {"success", "allowed_failure", "failure"}

(***************************************************************************)
(* What ir_validation and the IR schema guarantee of a node.  max_runs is 0 *)
(* for none.  routes lists the routes in the order _matching_routes emits   *)
(* them: unconditional, conditional, otherwise.  A route that reads the     *)
(* node's output is eligible after success only.  rank is the position of   *)
(* the id in sorted(nodes).  loop is the loop a break closes.  source holds *)
(* a loop's parameters, counts being the numbers of items it may yield.     *)
(***************************************************************************)
IsNode(n) ==
  /\ n.type \in {"task", "loop", "break"}
  /\ n.needs \subseteq Nodes
  /\ n.rank \in Nat
  /\ n.max_concurrency \in Nat \ {0}
  /\ n.max_runs \in Nat
  /\ n.retry_count \in Nat
  /\ n.allow_fail \in BOOLEAN
  /\ n.finish \in {"none", "pass", "fail"}
  /\ n.finish # "none" => n.routes = <<>>
  /\ ~ (n.finish = "fail" /\ n.allow_fail)
  /\ n.routes \in Seq([target : Nodes,
                       mode : {"unconditional", "conditional", "otherwise"},
                       eligible : SUBSET {"success", "allowed_failure"}])
  /\ n.source.counts \subseteq Nat
  /\ n.source.infinite \in BOOLEAN
  /\ n.source.max_concurrency \in Nat \ {0}
  /\ n.source.fail_fast \in BOOLEAN

ASSUME NodeAssumption == \A n \in Nodes : IsNode(Node[n])
ASSUME RankAssumption == \A m, n \in Nodes : Node[m].rank = Node[n].rank => m = n

VARIABLES
  phase,       (* Where run() is, see TypeOK.                              *)
  error,       (* The kind of the error that ends the run, or "none".      *)
  pending,     (* Activations that wait for their node.                    *)
  running,     (* Tasks whose completion was not handled yet.              *)
  completions, (* The memory stream from the tasks to the scheduler.       *)
  satisfied,   (* The nodes that completed, per activation lineage.        *)
  loops,       (* The state of every loop opened, per loop lineage.        *)
  sequence,    (* The last number given: to a signal, or a place in a queue. *)
  runCounts,   (* Runs started per node.                                   *)
  totalRuns,   (* Runs started.                                            *)
  records,     (* The runs the result reports.                             *)
  deferred     (* Whether a loop failure waits for the end of the run.     *)

vars == <<phase, error, pending, running, completions, satisfied, loops,
          sequence, runCounts, totalRuns, records, deferred>>

(***************************************************************************)
(* Activation groups, lineages and loops.                                   *)
(*                                                                          *)
(* A group id is a string that spells how the group came to be; the ids of  *)
(* the iterations a group lies in are the proper prefixes of its id, and    *)
(* are kept in the field inside.  An iteration is its own lineage; all      *)
(* other groups belong to the root lineage.                                 *)
(***************************************************************************)
Root == [kind |-> "root"]

InitialGroup(n) == [kind |-> "initial", node |-> n, inside |-> {}]

MergedGroup(groups) == [kind |-> "merged", groups |-> groups, inside |-> {}]

LoopLineage(a, run) == [loop |-> a.node, group |-> a.group, run |-> run]

Iteration(lineage, index) ==
  [kind |-> "iteration", lineage |-> lineage, index |-> index,
   inside |-> {lineage.group} \cup lineage.group.inside]

(* The part of the scheduler's state that handling a completion transforms. *)
State == [pending |-> pending, running |-> running, satisfied |-> satisfied,
          loops |-> loops, sequence |-> sequence]

Satisfied(s, lineage) ==
  IF lineage \in DOMAIN s.satisfied THEN s.satisfied[lineage] ELSE {}

(* The activations at node n among a set of activations. *)
At(activations, n) == {a \in activations : a.node = n}

Activations(tasks) == {t.activation : t \in tasks}

LiveGroups(s) == {a.group : a \in s.pending \cup Activations(s.running)}

(***************************************************************************)
(* Faults: variants of definitions below, each with a slip that a change of *)
(* the code could introduce.  The runs check that each property notices.    *)
(***************************************************************************)
UnlockedAnywhere(s, n, lineage) ==
  \E l \in DOMAIN s.satisfied : Node[n].needs \subseteq Satisfied(s, l)
HeldPendingOnly(s, x) == \E a \in s.pending : a.node = x.node /\ a.group = x.group
RoomForgotten(loop, active) == loop.limit
BeginsAfterBreak(loop, i) == loop.infinite \/ i < loop.items
BeginsOneLess(loop, i) == ~ loop.closed /\ (loop.infinite \/ i + 1 < loop.items)
MergeNothing(s, lineage, targets) == s
CapacityForgotten(s, n) == Node[n].max_concurrency
CapacityOfOne(s, n) == IF \E t \in s.running : t.activation.node = n THEN 0 ELSE 1
AheadReversed(a, b) == a.place > b.place
ExhaustedLate(n, started) ==
  \/ MaxRuns # 0 /\ totalRuns + Cardinality(started) > MaxRuns
  \/ /\ Node[n].max_runs # 0
     /\ runCounts[n] + Cardinality(At(started, n)) > Node[n].max_runs
DefersAlways(s, a) == TRUE
ExecutingTwice(t) == t \in running
ReceivedKept(c) == State
NumberedFromZero(a, started) ==
  [activation |-> a, attempt |-> 1,
   run |-> runCounts[a.node] + Cardinality({b \in At(started, a.node) : b.sequence < a.sequence})]
FailsDrained ==
  /\ phase = "cancelling" /\ running = {} /\ completions = <<>>
  /\ phase' = "failed"
  /\ UNCHANGED <<error, pending, running, completions, satisfied, loops, sequence, runCounts,
                 totalRuns, records, deferred>>

(***************************************************************************)
(* Readiness: the latch of a node in a lineage.                             *)
(***************************************************************************)
Unlocked(s, n, lineage) == Node[n].needs \subseteq Satisfied(s, lineage)

Satisfy(s, lineage, n) ==
  [s EXCEPT !.satisfied =
     [l \in DOMAIN s.satisfied \cup {lineage} |->
        IF l = lineage THEN Satisfied(s, l) \cup {n} ELSE s.satisfied[l]]]

(***************************************************************************)
(* Enqueueing.  The signals of one call are a set; their field order is the *)
(* order in which the code emits them, and decides the numbers they get.    *)
(* A signal is dropped when its node already has its group pending or       *)
(* running.  place orders a node's queue, sequence the starts of all nodes; *)
(* they differ only for merged activations.                                 *)
(***************************************************************************)
Precedes(p, q) ==
  \/ p[1] < q[1]
  \/ p[1] = q[1] /\ p[2] < q[2]
  \/ p[1] = q[1] /\ p[2] = q[2] /\ p[3] < q[3]

(* The node already has the group. *)
Held(s, x) ==
  \E a \in s.pending \cup Activations(s.running) : a.node = x.node /\ a.group = x.group

Enqueue(s, signals) ==
  LET fresh == {x \in signals :
                  /\ ~ Held(s, x)
                  /\ \A y \in signals :
                       (x # y /\ x.node = y.node /\ x.group = y.group)
                         => Precedes(x.order, y.order)}
      Number(x) == s.sequence + Cardinality({y \in fresh : ~ Precedes(x.order, y.order)})
  IN  [s EXCEPT
         !.pending = @ \cup {[node |-> x.node, group |-> x.group, lineage |-> x.lineage,
                              loops |-> x.loops, sequence |-> Number(x),
                              place |-> Number(x)] : x \in fresh},
         !.sequence = @ + Cardinality(fresh)]

(***************************************************************************)
(* Loops.                                                                   *)
(***************************************************************************)

Room(loop, active) ==
  IF loop.routes = {} THEN loop.items - loop.next ELSE loop.limit - Cardinality(active)

MayBegin(loop, i) == ~ loop.closed /\ (loop.infinite \/ i < loop.items)

(* The iterations a loop begins now, when those of active still live.  With *)
(* no route to follow, an iteration is over at once and the next begins.    *)
Beginning(loop, active) ==
  {i \in loop.next .. (loop.next + Room(loop, active) - 1) : MayBegin(loop, i)}

(* What a new iteration g emits: the matching routes of its loop. *)
IterationSignals(s, g) ==
  LET loop == s.loops[g.lineage]
      id   == g.lineage.loop
  IN  {[node |-> Node[id].routes[r].target, group |-> g, lineage |-> g,
        loops |-> [m \in DOMAIN loop.parentLoops \cup {id} |->
                     IF m = id THEN g.lineage ELSE loop.parentLoops[m]],
        order |-> <<loop.born, g.index, r>>] : r \in loop.routes}

(* The loops in DOMAIN kept are filled up to their capacity: kept[l] are    *)
(* the iterations of l that still live.                                     *)
BegunBy(s, kept, l) == {Iteration(l, i) : i \in Beginning(s.loops[l], kept[l])}

Begun(s, kept) == UNION {BegunBy(s, kept, l) : l \in DOMAIN kept}

(* A new iteration inherits what is satisfied in the lineage of its loop,   *)
(* and its loop.                                                            *)
Filled(s, kept) ==
  [s EXCEPT
     !.loops = [l \in DOMAIN s.loops |->
       IF l \in DOMAIN kept
       THEN [s.loops[l] EXCEPT
               !.next   = @ + Cardinality(BegunBy(s, kept, l)),
               !.active = IF s.loops[l].routes = {} THEN {} ELSE kept[l] \cup BegunBy(s, kept, l)]
       ELSE s.loops[l]],
     !.satisfied = [l \in DOMAIN s.satisfied \cup Begun(s, kept) |->
       IF l \in Begun(s, kept)
       THEN Satisfied(s, s.loops[l.lineage].parent) \cup {l.lineage.loop}
       ELSE s.satisfied[l]]]

FillLoops(s, kept) ==
  LET filled == Filled(s, kept)
  IN  Enqueue(filled, UNION {IterationSignals(filled, g) : g \in Begun(s, kept)})

(* Drops the iterations that no pending or running group lies in. *)
SettleLoops(s) ==
  FillLoops(s, [l \in DOMAIN s.loops |->
                  {g \in s.loops[l].active :
                     \E live \in LiveGroups(s) : live = g \/ g \in live.inside}])

(* A failed loop that is allowed to fail has no items and the defaults. *)
OpenLoop(s, c, routes) ==
  LET a      == c.task.activation
      source == Node[a.node].source
      ok     == c.outcome = "success"
      opened == LoopLineage(a, c.task.run)
      loop   == [items |-> c.items, infinite |-> ok /\ source.infinite,
                 limit |-> IF ok THEN source.max_concurrency ELSE 1,
                 failFast |-> ok /\ source.fail_fast, routes |-> routes,
                 parent |-> a.lineage, parentLoops |-> a.loops,
                 next |-> 0, closed |-> FALSE, active |-> {},
                 born |-> Cardinality(DOMAIN s.loops)]
  IN  FillLoops([s EXCEPT !.loops = [l \in DOMAIN s.loops \cup {opened} |->
                                       IF l = opened THEN loop ELSE s.loops[l]]],
                [l \in {opened} |-> {}])

(* Closes the loop the break node names and discards what is pending in it. *)
CloseLoop(s, a) ==
  LET id == Node[a.node].loop
  IN  IF id \notin DOMAIN a.loops \/ s.loops[a.loops[id]].closed
      THEN s
      ELSE [s EXCEPT
              !.loops[a.loops[id]].closed = TRUE,
              !.pending = {q \in @ : ~ (id \in DOMAIN q.loops /\ q.loops[id] = a.loops[id])}]

(* A failure inside a loop that does not fail fast waits for the end. *)
Defers(s, a) == \E id \in DOMAIN a.loops : ~ s.loops[a.loops[id]].failFast

(***************************************************************************)
(* Coalescing: when a target unlocks in a lineage, the signals that wait    *)
(* for it there become one activation, under the least of their numbers but *)
(* at the end of the queue.                                                 *)
(***************************************************************************)
Waiting(s, lineage, n) == {a \in At(s.pending, n) : a.lineage = lineage}

First(activations) == CHOOSE a \in activations : \A b \in activations : a.place <= b.place

Least(activations) == CHOOSE a \in activations : \A b \in activations : a.sequence <= b.sequence

Merged(s, lineage, n) ==
  LET waiting == Waiting(s, lineage, n)
  IN  [node |-> n, group |-> MergedGroup({a.group : a \in waiting}), lineage |-> lineage,
       loops |-> First(waiting).loops, sequence |-> Least(waiting).sequence,
       place |-> s.sequence + 1]

MergeLockedSignals(s, lineage, targets) ==
  LET merging == {n \in targets : Cardinality(Waiting(s, lineage, n)) > 1}
  IN  [s EXCEPT
         !.pending = (@ \ UNION {Waiting(s, lineage, n) : n \in merging})
                       \cup {Merged(s, lineage, n) : n \in merging},
         !.sequence = @ + IF merging = {} THEN 0 ELSE 1]

(***************************************************************************)
(* Routes that match a completion: the eligible unconditional ones, the     *)
(* conditional ones whose predicate holds, and otherwise when none did.     *)
(***************************************************************************)
Eligible(n, outcome, mode) ==
  {r \in DOMAIN Node[n].routes : /\ Node[n].routes[r].mode = mode
                                 /\ outcome \in Node[n].routes[r].eligible}

MatchingRoutes(n, outcome) ==
  {Eligible(n, outcome, "unconditional") \cup
     IF holds = {} THEN Eligible(n, outcome, "otherwise") ELSE holds :
       holds \in SUBSET Eligible(n, outcome, "conditional")}

Signals(a, routes) ==
  {[node |-> Node[a.node].routes[r].target, group |-> a.group, lineage |-> a.lineage,
    loops |-> a.loops, order |-> <<0, 0, r>>] : r \in routes}

(* A node that is not a loop, or ends the workflow, completed: latch, route, *)
(* merge at the targets this unlocked, settle.                               *)
Advance(s, a, routes) ==
  LET latched  == Satisfy(s, a.lineage, a.node)
      unlocked == {n \in Nodes : /\ ~ Unlocked(s, n, a.lineage)
                                 /\ Unlocked(latched, n, a.lineage)}
  IN  SettleLoops(MergeLockedSignals(Enqueue(latched, Signals(a, routes)),
                                     a.lineage, unlocked))

(* What a loop or a break node does before anything is routed. *)
Control(s, c, routes) ==
  LET a == c.task.activation
  IN  CASE Node[a.node].type = "loop"  ->
             SettleLoops(OpenLoop(Satisfy(s, a.lineage, a.node), c, routes))
        [] Node[a.node].type = "break" -> SettleLoops(CloseLoop(s, a))
        [] OTHER                       -> s

(***************************************************************************)
(* Starting runs.                                                           *)
(***************************************************************************)
Runnable(s) == {a \in s.pending : Unlocked(s, a.node, a.lineage)}

(* The order of a node's queue. *)
Ahead(a, b) == a.place < b.place

Capacity(s, n) ==
  Node[n].max_concurrency - Cardinality({t \in s.running : t.activation.node = n})

(* The candidates: from the front of each node's queue of runnable          *)
(* activations, as many as the node has room for.                           *)
AreCandidates(s, chosen) ==
  /\ \A a \in chosen, b \in Runnable(s) \ chosen : a.node = b.node => Ahead(a, b)
  /\ \A n \in Nodes :
       LET queued == Cardinality(At(Runnable(s), n))
       IN  Cardinality(At(chosen, n)) = IF queued <= Capacity(s, n) THEN queued
                                                                    ELSE Capacity(s, n)

(* The run limits admit no further run of node n once started began. *)
Exhausted(n, started) ==
  \/ MaxRuns # 0 /\ totalRuns + Cardinality(started) >= MaxRuns
  \/ /\ Node[n].max_runs # 0
     /\ runCounts[n] + Cardinality(At(started, n)) >= Node[n].max_runs

(* Candidates start in the order of their numbers until a limit is reached. *)
AreAdmitted(chosen, started) ==
  /\ \A a \in started, b \in chosen \ started : a.sequence < b.sequence
  /\ \A a \in started :
       ~ Exhausted(a.node, {b \in started \ {a} : b.sequence <= a.sequence})
  /\ started # chosen =>
       \E b \in chosen \ started :
         /\ \A o \in chosen \ started : b.sequence <= o.sequence
         /\ Exhausted(b.node, started)

Task(a, started) ==
  [activation |-> a, attempt |-> 1,
   run |-> runCounts[a.node] + Cardinality({b \in At(started, a.node) : b.sequence <= a.sequence})]

StartRunnable(s) ==
  \E chosen \in SUBSET Runnable(s) :
    \E started \in SUBSET chosen :
      /\ AreCandidates(s, chosen)
      /\ AreAdmitted(chosen, started)
      /\ pending'   = s.pending \ started
      /\ running'   = s.running \cup {Task(a, started) : a \in started}
      /\ satisfied' = s.satisfied
      /\ loops'     = s.loops
      /\ sequence'  = s.sequence
      /\ runCounts' = [n \in Nodes |-> runCounts[n] + Cardinality(At(started, n))]
      /\ totalRuns' = totalRuns + Cardinality(started)
      /\ phase'     = IF started = chosen THEN "running" ELSE "cancelling"
      /\ error'     = IF started = chosen THEN "none" ELSE "run_limit"

(* The run ends with an error: the task group is cancelled. *)
Halt(s, kind) ==
  /\ pending'   = s.pending
  /\ running'   = s.running
  /\ satisfied' = s.satisfied
  /\ loops'     = s.loops
  /\ sequence'  = s.sequence
  /\ phase'     = "cancelling"
  /\ error'     = kind
  /\ UNCHANGED <<runCounts, totalRuns>>

(***************************************************************************)
(* The actions.                                                             *)
(***************************************************************************)
Init ==
  /\ phase = "created"
  /\ error = "none"
  /\ pending = {}
  /\ running = {}
  /\ completions = <<>>
  /\ satisfied = [l \in {Root} |-> {}]
  /\ loops = [l \in {} |-> {}]
  /\ sequence = 0
  /\ runCounts = [n \in Nodes |-> 0]
  /\ totalRuns = 0
  /\ records = {}
  /\ deferred = FALSE

(* run() gives every node without needs an activation and starts. *)
Begin ==
  /\ phase = "created"
  /\ StartRunnable(Enqueue(State,
       {[node |-> n, group |-> InitialGroup(n), lineage |-> Root,
         loops |-> [m \in {} |-> {}], order |-> <<0, 0, Node[n].rank>>] :
           n \in {m \in Nodes : Node[m].needs = {}}}))
  /\ UNCHANGED <<completions, records, deferred>>

Executing(t) == t \in running /\ \A i \in DOMAIN completions : completions[i].task # t

Send(t, outcome, items) ==
  completions' = Append(completions, [task |-> t, outcome |-> outcome, items |-> items])

(* A task's handler succeeds; a loop's yields its items. *)
AttemptSucceeds(t) ==
  /\ phase = "running"
  /\ Executing(t)
  /\ LET n == Node[t.activation.node]
     IN  \E items \in IF n.type = "loop" /\ ~ n.source.infinite THEN n.source.counts ELSE {0} :
           Send(t, "success", items)
  /\ UNCHANGED <<phase, error, pending, running, satisfied, loops, sequence, runCounts,
                 totalRuns, records, deferred>>

(* A task's attempt fails and is retried, or was the last one. *)
AttemptFails(t) ==
  /\ phase = "running"
  /\ Executing(t)
  /\ LET n == Node[t.activation.node]
     IN  IF t.attempt <= n.retry_count
         THEN /\ running' = (running \ {t}) \cup {[t EXCEPT !.attempt = @ + 1]}
              /\ UNCHANGED completions
         ELSE /\ Send(t, IF n.allow_fail THEN "allowed_failure" ELSE "failure", 0)
              /\ UNCHANGED running
  /\ UNCHANGED <<phase, error, pending, satisfied, loops, sequence, runCounts, totalRuns,
                 records, deferred>>

(* The scheduler takes the first completion from the stream and records it. *)
Receive ==
  /\ phase = "running"
  /\ completions # <<>>
  /\ completions' = Tail(completions)
  /\ LET c == Head(completions)
     IN  records' = records \cup
           {[node |-> c.task.activation.node, run |-> c.task.run,
             group |-> c.task.activation.group, lineage |-> c.task.activation.lineage,
             outcome |-> c.outcome]}

Received(c) == [State EXCEPT !.running = @ \ {c.task}]

(* A failure that no enclosing loop defers halts the run. *)
CompleteFailure ==
  /\ Receive
  /\ LET c == Head(completions)
     IN  /\ c.outcome = "failure"
         /\ IF Defers(State, c.task.activation)
            THEN deferred' = TRUE /\ StartRunnable(SettleLoops(Received(c)))
            ELSE UNCHANGED deferred /\ Halt(Received(c), "node_failed")

(* An infinite loop none of whose routes match never stops filling. *)
Spins(c, routes) ==
  LET n == Node[c.task.activation.node]
  IN  n.type = "loop" /\ n.source.infinite /\ c.outcome = "success" /\ routes = {}

BreaksOutside(a) == Node[a.node].type = "break" /\ Node[a.node].loop \notin DOMAIN a.loops

(* Any other completion: loop or break control, then finish, then routing,  *)
(* which a loop's completion does not reach.                                *)
CompleteNode ==
  /\ Receive
  /\ UNCHANGED deferred
  /\ LET c == Head(completions)
         a == c.task.activation
         node == Node[a.node]
     IN  /\ c.outcome # "failure"
         /\ \E routes \in MatchingRoutes(a.node, c.outcome) :
              LET controlled == Control(Received(c), c, routes)
              IN  /\ ~ Spins(c, routes)
                  /\ IF node.finish = "fail"
                       THEN Halt(controlled, "finish_fail")
                     ELSE IF BreaksOutside(a)
                       THEN Halt(Advance(controlled, a, routes), "break_outside_loop")
                     ELSE IF node.type = "loop" /\ node.finish = "none"
                       THEN StartRunnable(controlled)
                     ELSE StartRunnable(Advance(controlled, a, routes))

(* The event loop never returns from filling such a loop: no task and no    *)
(* timeout of this process runs again.                                      *)
CompleteSpinning ==
  /\ Receive
  /\ LET c == Head(completions)
     IN  /\ \E routes \in MatchingRoutes(c.task.activation.node, c.outcome) : Spins(c, routes)
         /\ running' = running \ {c.task}
  /\ phase' = "spinning"
  /\ UNCHANGED <<error, pending, satisfied, loops, sequence, runCounts, totalRuns, deferred>>

(* A cancelled task ends without a completion. *)
TaskCancelled(t) ==
  /\ phase = "cancelling"
  /\ t \in running
  /\ running' = running \ {t}
  /\ UNCHANGED <<phase, error, pending, completions, satisfied, loops, sequence, runCounts,
                 totalRuns, records, deferred>>

(* The workflow's timeout cancels the run, and replaces its error. *)
Timeout ==
  /\ HasTimeout
  /\ phase \in {"running", "cancelling"}
  /\ phase' = "cancelling"
  /\ error' = "timeout"
  /\ UNCHANGED <<pending, running, completions, satisfied, loops, sequence, runCounts,
                 totalRuns, records, deferred>>

Succeeded == {r.node : r \in {q \in records : q.outcome = "success"}}

(* The error of a run that came to rest: a deferred loop failure, a signal  *)
(* that still waits, a public output that is missing.                       *)
Verdict(missing) ==
  CASE deferred                       -> "deferred"
    [] ~ deferred /\ pending # {}      -> "join"
    [] ~ deferred /\ pending = {}      -> IF missing THEN "output" ELSE "none"

(* Nothing runs and nothing is runnable: the result is decided. *)
Quiesce ==
  /\ phase = "running"
  /\ running = {}
  /\ Runnable(State) = {}
  /\ error' = Verdict(~ (Outputs \subseteq Succeeded))
  /\ phase' = IF error' = "none" THEN "passed" ELSE "failed"
  /\ UNCHANGED <<pending, running, completions, satisfied, loops, sequence, runCounts,
                 totalRuns, records, deferred>>

(* The task group is empty after a cancellation. *)
Fail ==
  /\ phase = "cancelling"
  /\ running = {}
  /\ phase' = "failed"
  /\ UNCHANGED <<error, pending, running, completions, satisfied, loops, sequence, runCounts,
                 totalRuns, records, deferred>>

(* The result is returned, or the event loop is stuck: the run takes no more steps. *)
Ended ==
  /\ phase \in {"passed", "failed", "spinning"}
  /\ UNCHANGED vars

AttemptEnds(n) ==
  \E t \in running : t.activation.node = n /\ (AttemptSucceeds(t) \/ AttemptFails(t))

Next ==
  \/ Begin
  \/ \E t \in running : AttemptSucceeds(t)
  \/ \E t \in running : AttemptFails(t)
  \/ CompleteFailure
  \/ CompleteNode
  \/ CompleteSpinning
  \/ \E t \in running : TaskCancelled(t)
  \/ Timeout
  \/ Quiesce
  \/ Fail
  \/ Ended

(* Handlers end, and the event loop runs every task that is ready.  A step  *)
(* that receives is one of the three that complete a run.                   *)
Fairness ==
  /\ WF_phase(phase = "created" /\ phase' \in {"running", "cancelling"})
  /\ \A n \in Nodes : WF_vars(AttemptEnds(n))
  /\ WF_<<completions, records>>(Receive)
  /\ WF_vars(\E t \in running : TaskCancelled(t))
  /\ WF_vars(Quiesce)
  /\ WF_vars(Fail)

Spec == Init /\ [][Next]_vars

FairSpec == Spec /\ Fairness

(***************************************************************************)
(* Properties.                                                              *)
(***************************************************************************)
IsActivation(s, a) ==
  /\ a.node \in Nodes
  /\ a.lineage \in DOMAIN s.satisfied
  /\ a.sequence \in Nat
  /\ a.place \in Nat
  /\ \A id \in DOMAIN a.loops : a.loops[id] \in DOMAIN s.loops

IsLoop(s, l) ==
  /\ l.loop \in Nodes
  /\ s.loops[l].items \in Nat
  /\ s.loops[l].limit \in Nat \ {0}
  /\ s.loops[l].next \in Nat
  /\ s.loops[l].routes \subseteq DOMAIN Node[l.loop].routes
  /\ s.loops[l].parent \in DOMAIN s.satisfied
  /\ \A id \in DOMAIN s.loops[l].parentLoops : s.loops[l].parentLoops[id] \in DOMAIN s.loops
  /\ IsFiniteSet(s.loops[l].active)

IsState(s) ==
  /\ IsFiniteSet(s.pending) /\ IsFiniteSet(s.running)
  /\ \A a \in s.pending \cup Activations(s.running) : IsActivation(s, a)
  /\ s.satisfied \in [DOMAIN s.satisfied -> SUBSET Nodes] /\ Root \in DOMAIN s.satisfied
  /\ IsFiniteSet(DOMAIN s.loops)
  /\ \A l \in DOMAIN s.loops : IsLoop(s, l)
  /\ s.sequence \in Nat

(* Every variable has the shape the scheduler's fields have; in particular  *)
(* every lineage and loop that an activation or a loop names exists, and    *)
(* the runs of a node are numbered within the runs that were charged to it. *)
TypeOK ==
  /\ phase \in {"created", "running", "spinning", "cancelling", "passed", "failed"}
  /\ error \in {"none", "node_failed", "finish_fail", "break_outside_loop", "run_limit",
                "timeout", "deferred", "join", "output"}
  /\ IsState(State)
  /\ runCounts \in [Nodes -> Nat]
  /\ \A t \in running : /\ t.attempt \in 1 .. (Node[t.activation.node].retry_count + 1)
                         /\ t.run \in 1 .. runCounts[t.activation.node]
  /\ \A i \in DOMAIN completions : /\ completions[i].outcome \in Outcomes
                                  /\ completions[i].items \in Nat
  /\ totalRuns \in Nat
  /\ deferred \in BOOLEAN

(* A node never runs more often at once than its max-concurrency, whatever   *)
(* the interleaving of completions, loops and merges.                        *)
CapacityRespected ==
  \A n \in Nodes :
    Cardinality({t \in running : t.activation.node = n}) <= Node[n].max_concurrency

(* One group has at most one activation per node, pending or running: two    *)
(* branches of one fan-out that meet never run their join twice at once.     *)
NoDuplicateActivation ==
  /\ \A a, b \in pending : a.node = b.node /\ a.group = b.group => a = b
  /\ \A t, u \in running :
       (t.activation.node = u.activation.node /\ t.activation.group = u.activation.group)
         => t = u
  /\ \A a \in pending, t \in running :
       ~ (a.node = t.activation.node /\ a.group = t.activation.group)

(* Neither the workflow nor a node starts more runs than its max-runs.       *)
RunLimits ==
  /\ MaxRuns # 0 => totalRuns <= MaxRuns
  /\ \A n \in Nodes : Node[n].max_runs # 0 => runCounts[n] <= Node[n].max_runs

(* Until the run is cancelled every run that was charged to the limits is    *)
(* either going on or recorded, once: retries are not charged, and no        *)
(* completion is lost or recorded twice.                                     *)
RunsAccounted ==
  phase \in {"running", "spinning", "passed"} =>
    /\ totalRuns = Cardinality(running) + Cardinality(records)
    /\ \A n \in Nodes :
         runCounts[n] = Cardinality({t \in running : t.activation.node = n})
                        + Cardinality({r \in records : r.node = n})

(* What a node needs completed before it started, in its own lineage or in   *)
(* one it lies in: values of another iteration never open its latch.         *)
NeedsCompletedFirst ==
  \A t \in running : \A needed \in Node[t.activation.node].needs :
    \E r \in records :
      /\ r.node = needed
      /\ r.outcome # "failure"
      /\ r.lineage \in {t.activation.lineage, Root} \cup t.activation.group.inside

(* The stream that carries completions holds all that can be sent: no task   *)
(* blocks on it, and each completion is of a task that still counts.         *)
CompletionsFit ==
  /\ \A i \in DOMAIN completions : completions[i].task \in running \/ phase # "running"
  /\ \A n \in Nodes :
       Cardinality({i \in DOMAIN completions : completions[i].task.activation.node = n})
         <= Node[n].max_concurrency

(* The scheduler never waits while it could start a run: every runnable      *)
(* activation that still waits has its node at capacity.                     *)
WorkConserving ==
  phase = "running" =>
    \A a \in pending :
      Node[a.node].needs \subseteq satisfied[a.lineage] =>
        Cardinality({t \in running : t.activation.node = a.node}) >= Node[a.node].max_concurrency

(* A loop was opened in an iteration of another.                             *)
LiesIn(l, m) ==
  \E i \in 0 .. (loops[m].next - 1) : Iteration(m, i) \in {l.group} \cup l.group.inside

(* A loop never has more iterations with live work than its max-concurrency  *)
(* while the run goes on, unless a loop was opened in it, or one around it   *)
(* was broken.                                                               *)
LoopWindow ==
  phase = "running" =>
    \A l \in DOMAIN loops :
      (\A m \in DOMAIN loops : ~ LiesIn(m, l) /\ (loops[m].closed => ~ LiesIn(l, m))) =>
        Cardinality({i \in 0 .. (loops[l].next - 1) :
                       \E g \in LiveGroups(State) :
                         g = Iteration(l, i) \/ Iteration(l, i) \in g.inside})
          <= loops[l].limit

(* A pass is a whole run: no work and no signal is left, no failure or fail  *)
(* terminal was recorded, and every loop ended or ran all of its items.      *)
PassIsComplete ==
  phase = "passed" =>
    /\ pending = {} /\ running = {} /\ completions = <<>>
    /\ \A r \in records : r.outcome # "failure" /\ Node[r.node].finish # "fail"
    /\ \A l \in DOMAIN loops :
         /\ loops[l].active = {}
         /\ loops[l].closed \/ (~ loops[l].infinite /\ loops[l].next = loops[l].items)

(* When the completion of a node that is not a loop unlocks a node in a      *)
(* lineage, everything that waited for it there becomes one activation.      *)
LatchCoalesces ==
  [][\A n \in Nodes : \A lineage \in DOMAIN satisfied :
       (/\ ~ (Node[n].needs \subseteq satisfied[lineage])
        /\ Node[n].needs \subseteq satisfied'[lineage]
        /\ \A r \in records' \ records : Node[r.node].type # "loop") =>
         Cardinality({a \in pending' \cup Activations(running)' :
                        a.node = n /\ a.lineage = lineage}) <= 1]_vars

(* A node's signals start in the order they arrived, those of one lineage    *)
(* and those of iterations: only a merged activation, in the root, is passed *)
(* by what arrived in the iterations meanwhile.                              *)
ArrivalOrder ==
  [][\A t \in running' \ running, b \in pending' :
       (/\ t.activation \notin Activations(running)
        /\ b.node = t.activation.node
        /\ b.lineage = t.activation.lineage \/ Root \notin {b.lineage, t.activation.lineage}
        /\ Node[b.node].needs \subseteq satisfied'[b.lineage])
       => t.activation.sequence < b.sequence]_vars

(* Once a break closed a loop, none of its iterations that had not begun     *)
(* begins.                                                                   *)
BreakEndsLoop ==
  [][\A l \in DOMAIN loops : \A g \in DOMAIN satisfied' \ DOMAIN satisfied :
       loops'[l].closed => g.lineage # l]_vars

(* Nor does an iteration of a loop that is open inside it.                   *)
BreakStopsIterations ==
  [][\A l \in DOMAIN loops : \A g \in DOMAIN satisfied' \ DOMAIN satisfied :
       (loops'[l].closed /\ g.lineage \in DOMAIN loops) =>
         /\ g.lineage # l
         /\ \A h \in g.inside : h.kind = "iteration" => h.lineage # l]_vars

(* After a failure outside every loop, or a fail terminal, nothing starts.   *)
FatalRunHalts ==
  [][(\E r \in records : \/ r.outcome = "failure" /\ r.lineage = Root
                         \/ r.outcome # "failure" /\ Node[r.node].finish = "fail")
     => totalRuns' = totalRuns]_vars

(* Every run passes or fails, without the help of its timeout, unless it     *)
(* hangs in _fill_loop_capacity (CompleteSpinning): the scheduler never      *)
(* waits for a completion no task will send.                                 *)
Terminates == <>(phase \in {"passed", "failed", "spinning"})
=============================================================================
