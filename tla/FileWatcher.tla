----------------------------- MODULE FileWatcher -----------------------------
(***************************************************************************)
(* The watcher of files that starts workflows (gofer/core/watcher.py), and  *)
(* the requests of the desktop server that bring it up to date with the     *)
(* workflow files (gofer/ui/server.py).                                     *)
(*                                                                          *)
(* Three kinds of threads share the registrations under one lock: the poll  *)
(* thread, one thread for each run that goes on, and the threads of the     *)
(* requests.  An action is what one thread does while it holds the lock, or *)
(* one reading of files.  A registration is an object of its own: a         *)
(* workflow whose watch changes gets a new one, and the old one may still   *)
(* be in the hands of the poll thread and of its runs.                      *)
(*                                                                          *)
(* Of a file only its last change, by number, and its presence count;       *)
(* time is whether the debounce of a registration is over.                  *)
(***************************************************************************)
EXTENDS Naturals, Sequences, FiniteSets, SequencesExt

CONSTANTS
    N,                  \* the number of workflow files in the data directory
    Files,              \* the files that may be watched: numbers, in their sorted order
    Existing,           \* those that exist at the start
    Configs,            \* what a workflow file may say of its watch, see IsConfig
    NoWatch,            \* ... or that it has none
    Started,            \* the watch of each workflow when the server starts
    GlobalLimit,        \* max_watcher_concurrency of the server
    Requests,           \* the requests that edit a workflow, or just list them, and sync
    Edits,              \* what a request may write: a workflow and its watch
    MaxChanges          \* bound: changes of the files, in all

\* mode = "queue" is each, any other mode is not.  concurrency is the least of
\* max_concurrency and the limit of the workflow.
IsConfig(c) ==
    /\ c.files \subseteq Files
    /\ {c.each, c.debounce} \subseteq BOOLEAN
    /\ {c.concurrency, c.depth} \subseteq Nat

ASSUME ConfigsAssumption == (\A c \in Configs : IsConfig(c)) /\ NoWatch \notin Configs
ASSUME StartedAssumption ==
    Started \in [1 .. N -> Configs] /\ Edits \subseteq (1 .. N) \X (Configs \cup {NoWatch})
ASSUME NumbersAssumption == Files \subseteq Nat /\ {N, GlobalLimit, MaxChanges} \subseteq Nat
ASSUME FilesAssumption == IsFiniteSet(Files) /\ Existing \subseteq Files

VARIABLES
    disk,               \* the watched files
    defs,               \* the watch in each workflow file
    watched,            \* the registrations made so far, WatchedWorkflow
    workflows,          \* _workflows: the registrations in force, in order
    globalRunning,      \* _global_running_count
    poll,               \* the poll thread
    runs,               \* the threads of the runs: those of one registration differ by events
    requests            \* the threads of the requests

vars == <<disk, defs, watched, workflows, globalRunning, poll, runs, requests>>

Workflows == 1 .. N
Events == [file : Files, kind : {"created", "deleted", "modified"}, version : Nat]
Stats == [version : Nat, present : BOOLEAN]
Objects == DOMAIN watched
Registered(o) == o \in ToSet(workflows)
Running(o) == {r \in runs : r.object = o /\ r.at = "running"}

Concurrency(config) == IF config.concurrency > 1 THEN config.concurrency ELSE 1
Minus(m, n) == IF m > n THEN m - n ELSE 0
Least(m, n) == IF m < n THEN m ELSE n

-----------------------------------------------------------------------------
(* Faults: definitions as a plausible mistake would have them.              *)

RoomOfTheServer(o) == Least(Len(watched[o].queue), Minus(GlobalLimit, globalRunning))
ReleasedInForce(o) == IF Registered(o) THEN Minus(globalRunning, 1) ELSE globalRunning
Oldest(s, n) == IF Len(s) > n THEN SubSeq(s, 1, n) ELSE s
QueuedFirst(queue, batches) == batches \o queue
WaitsForChange(o) == FALSE
SamePresence(a, b) == a.present = b.present
RegistrationUnscanned(w, config, snapshot) ==
    [workflow |-> w, config |-> config, snapshot |-> <<>>, queue |-> <<>>,
     running |-> 0, recent |-> FALSE]

-----------------------------------------------------------------------------
(* Snapshots and queues.                                                    *)

\* A snapshot has the files that exist.
SameFile(a, b) == a.present = b.present /\ (a.present => a.version = b.version)

\* What changed, in the order _diff_events lists it.
Kind(before, after) ==
    IF ~before.present THEN "created" ELSE IF ~after.present THEN "deleted" ELSE "modified"
Rank(kind) == CASE kind = "created" -> 0 [] kind = "deleted" -> 1 [] OTHER -> 2
Before(e, g) == Rank(e.kind) < Rank(g.kind) \/ (e.kind = g.kind /\ e.file < g.file)
Listed(events) == \A i, j \in DOMAIN events : i < j => Before(events[i], events[j])
Changes(before, after) ==
    {[file |-> f, kind |-> Kind(before[f], after[f]), version |-> after[f].version] :
        f \in {x \in DOMAIN before : ~SameFile(before[x], after[x])}}

\* On overflow the newest n stay.
Newest(s, n) == IF Len(s) > n THEN SubSeq(s, Len(s) - n + 1, Len(s)) ELSE s

\* How many of the queued batches start now.
Room(o) ==
    LET w == watched[o]
    IN Least(Len(w.queue), Least(Minus(Concurrency(w.config), w.running),
                                 Minus(GlobalLimit, globalRunning)))

\* _start_queued_runs, beside the runs that others holds.
StartQueuedRuns(o, others) ==
    LET n == Room(o)
        w == watched[o]
    IN /\ runs' = others \cup
              {[object |-> o, events |-> w.queue[i], at |-> "running", todo |-> <<>>] : i \in 1 .. n}
       /\ watched' = [watched EXCEPT ![o].queue = SubSeq(@, n + 1, Len(@)),
                                     ![o].running = @ + n]
       /\ globalRunning' = globalRunning + n

\* The batches of the events that were found; they join the queue of a registration.
Batches(config, events) ==
    IF events = <<>> THEN <<>>
    ELSE IF config.each THEN [i \in DOMAIN events |-> <<events[i]>>]
    ELSE <<events>>
Queued(queue, batches) == queue \o batches

-----------------------------------------------------------------------------
\* Every variable has the shape of the fields and threads it stands for.
WatchedWorkflow(config) ==
    [workflow : Workflows, config : {config}, snapshot : [config.files -> Stats],
     queue : Seq(Seq(Events)), running : Nat, recent : BOOLEAN]
PollThread ==
    [at : {"scanning", "queueing", "starting"}, todo : Seq(Objects), object : Objects \cup {0},
     events : Seq(Events), trigger : BOOLEAN]
RunThread ==
    [object : Objects, events : Seq(Events), at : {"running", "ended", "starting"},
     todo : Seq(Objects)]
RequestThread(at, workflow, config, snapshot) ==
    [at : at, todo : Seq(Workflows), active : SUBSET Workflows, workflow : workflow,
     config : {config}, snapshot : snapshot]

TypeOK ==
    /\ disk \in [Files -> Stats]
    /\ defs \in [Workflows -> Configs \cup {NoWatch}]
    /\ watched \in Seq(ToSet(watched))
    /\ \A o \in Objects : \E c \in Configs : watched[o] \in WatchedWorkflow(c)
    /\ workflows \in Seq(Objects)
    /\ globalRunning \in Nat
    /\ poll \in PollThread
    /\ runs \subseteq RunThread
    /\ DOMAIN requests = Requests
    /\ \A s \in Requests :
         \/ requests[s] \in RequestThread({"idle", "syncing", "removing"}, {0}, NoWatch, {<<>>})
         \/ \E c \in Configs :
              \/ requests[s] \in RequestThread({"checking", "scanning"}, Workflows, c, {<<>>})
              \/ requests[s] \in RequestThread({"adding"}, Workflows, c, [c.files -> Stats])

Idle == [at |-> "idle", todo |-> <<>>, active |-> {}, workflow |-> 0, config |-> NoWatch,
         snapshot |-> <<>>]
Scanning == [at |-> "scanning", todo |-> <<>>, object |-> 0, events |-> <<>>, trigger |-> FALSE]

\* A new registration.
Registration(w, config, snapshot) ==
    [workflow |-> w, config |-> config, snapshot |-> snapshot, queue |-> <<>>,
     running |-> 0, recent |-> FALSE]
Snapshot(config) == [f \in config.files |-> disk[f]]

\* The next snapshot of a registration: of a file that stays absent nothing is noticed.
Noticed(w) == [f \in w.config.files |-> IF SameFile(w.snapshot[f], disk[f]) THEN w.snapshot[f]
                                        ELSE disk[f]]

\* The server has synced its watcher and starts the poll thread (serve).
Init ==
    /\ disk = [f \in Files |-> [version |-> 0, present |-> f \in Existing]]
    /\ defs = Started
    /\ watched = [w \in Workflows |-> Registration(w, defs[w], Snapshot(defs[w]))]
    /\ workflows = [w \in Workflows |-> w]
    /\ globalRunning = 0
    /\ poll = Scanning
    /\ runs = {}
    /\ requests = [s \in Requests |-> Idle]

-----------------------------------------------------------------------------
(* Files change.                                                            *)

\* How often files changed so far.
ChangesMade == FoldFunction(+, 0, [f \in Files |-> disk[f].version])

Change(f, present) ==
    /\ ChangesMade < MaxChanges
    /\ disk' = [disk EXCEPT ![f] = [version |-> @.version + 1, present |-> present]]
    /\ UNCHANGED <<defs, watched, workflows, globalRunning, poll, runs, requests>>

Write(f) == Change(f, TRUE)
Delete(f) == disk[f].present /\ Change(f, FALSE)

\* The debounce of a registration is over.
Settle(o) ==
    /\ watched[o].recent
    /\ watched' = [watched EXCEPT ![o].recent = FALSE]
    /\ UNCHANGED <<disk, defs, workflows, globalRunning, poll, runs, requests>>

-----------------------------------------------------------------------------
(* The poll thread: poll_once.                                              *)

PollBegins ==
    /\ poll.at = "scanning" /\ poll.todo = <<>>
    /\ poll' = [Scanning EXCEPT !.todo = workflows]
    /\ UNCHANGED <<disk, defs, watched, workflows, globalRunning, runs, requests>>

\* A registration whose files are unchanged starts what it has queued.
StartsUnchanged(o) == watched[o].queue # <<>>

\* The files of a registration are read and compared with its snapshot.
PollScans ==
    LET o == Head(poll.todo)
        w == watched[o]
        changes == Changes(w.snapshot, Noticed(w))
        at == IF changes # {} THEN "queueing" ELSE IF StartsUnchanged(o) THEN "starting"
              ELSE "scanning"
    IN /\ poll.at = "scanning" /\ poll.todo # <<>>
       /\ \E events \in SetToSeqs(changes) :
            /\ Listed(events)
            /\ poll' = [at |-> at, todo |-> Tail(poll.todo),
                        object |-> IF at = "scanning" THEN 0 ELSE o,
                        events |-> Newest(events, w.config.depth),
                        trigger |-> at = "queueing" /\ ~w.recent]
       /\ watched' = IF changes = {} THEN watched
                     ELSE [watched EXCEPT ![o].snapshot = Noticed(w),
                                          ![o].recent = @ \/ w.config.debounce]
       /\ UNCHANGED <<disk, defs, workflows, globalRunning, runs, requests>>

\* The files cannot be read, or are too many.
PollScanFails ==
    /\ poll.at = "scanning" /\ poll.todo # <<>>
    /\ poll' = [poll EXCEPT !.todo = Tail(@)]
    /\ UNCHANGED <<disk, defs, watched, workflows, globalRunning, runs, requests>>

\* _enqueue_events; within the debounce the batch waits for a later poll.
PollQueues ==
    LET o == poll.object
        c == watched[o].config
        queue == Queued(watched[o].queue, Batches(c, poll.events))
    IN /\ poll.at = "queueing"
       /\ watched' = [watched EXCEPT ![o].queue = Newest(queue, c.depth)]
       /\ poll' = IF poll.trigger THEN [Scanning EXCEPT !.at = "starting", !.todo = poll.todo,
                                                        !.object = o]
                  ELSE [Scanning EXCEPT !.todo = poll.todo]
       /\ UNCHANGED <<disk, defs, workflows, globalRunning, runs, requests>>

PollStarts ==
    /\ poll.at = "starting"
    /\ StartQueuedRuns(poll.object, runs)
    /\ poll' = [Scanning EXCEPT !.todo = poll.todo]
    /\ UNCHANGED <<disk, defs, workflows, requests>>

-----------------------------------------------------------------------------
(* The threads of the runs: _run_workflow.                                  *)

\* The run gives back its place in the limit of the server.
GlobalReleased(o) == Minus(globalRunning, 1)

RunEnds(r) ==
    LET o == r.object
        more == Registered(o) /\ watched[o].queue # <<>>
    IN /\ r.at = "running"
       /\ watched' = IF Registered(o)
                     THEN [watched EXCEPT ![o].running = Minus(@, 1)] ELSE watched
       /\ globalRunning' = GlobalReleased(o)
       /\ runs' = (runs \ {r}) \cup IF more THEN {[r EXCEPT !.at = "ended"]} ELSE {}
       /\ UNCHANGED <<disk, defs, workflows, poll, requests>>

\* If its queue goes on it looks after the queues of all registrations, one after
\* the other, and is over.
Thread(r, todo) == IF todo = <<>> THEN {} ELSE {[r EXCEPT !.at = "starting", !.todo = todo]}

RunLists(r) ==
    /\ r.at = "ended"
    /\ runs' = (runs \ {r}) \cup Thread(r, workflows)
    /\ UNCHANGED <<disk, defs, watched, workflows, globalRunning, poll, requests>>

RunStarts(r) ==
    /\ r.at = "starting"
    /\ StartQueuedRuns(Head(r.todo), (runs \ {r}) \cup Thread(r, Tail(r.todo)))
    /\ UNCHANGED <<disk, defs, workflows, poll, requests>>

-----------------------------------------------------------------------------
(* The requests: sync_workflow_watchers after a workflow file changed.      *)

RequestBegins(s, w, config) ==
    /\ requests[s].at = "idle"
    /\ defs' = [defs EXCEPT ![w] = config]
    /\ requests' = [requests EXCEPT ![s] =
          [Idle EXCEPT !.at = "syncing", !.todo = [i \in Workflows |-> i]]]
    /\ UNCHANGED <<disk, watched, workflows, globalRunning, poll, runs>>

SyncReads(s) ==
    LET w == Head(requests[s].todo)
        rest == [requests[s] EXCEPT !.todo = Tail(@)]
    IN /\ requests[s].at = "syncing" /\ requests[s].todo # <<>>
       /\ requests' = [requests EXCEPT ![s] =
             IF defs[w] = NoWatch THEN rest
             ELSE [rest EXCEPT !.at = "checking", !.workflow = w, !.config = defs[w]]]
       /\ UNCHANGED <<disk, defs, watched, workflows, globalRunning, poll, runs>>

\* The request turns to its next workflow.
Onwards(q, active) == [Idle EXCEPT !.at = "syncing", !.todo = q.todo, !.active = active]

\* The registration in force already has this watch.
Unchanged(config, o) == watched[o].config = config

\* add_workflow looks for a registration ...
AddChecks(s) ==
    LET q == requests[s]
        there == \E o \in ToSet(workflows) : watched[o].workflow = q.workflow
                                             /\ Unchanged(q.config, o)
    IN /\ q.at = "checking"
       /\ requests' = [requests EXCEPT ![s] =
             IF there THEN Onwards(q, q.active \cup {q.workflow})
             ELSE [q EXCEPT !.at = "scanning"]]
       /\ UNCHANGED <<disk, defs, watched, workflows, globalRunning, poll, runs>>

\* ... reads the files without the lock ...
AddScans(s) ==
    /\ requests[s].at = "scanning"
    /\ requests' = [requests EXCEPT ![s].at = "adding",
                       ![s].snapshot = Snapshot(requests[s].config)]
    /\ UNCHANGED <<disk, defs, watched, workflows, globalRunning, poll, runs>>

AddScanFails(s) ==
    /\ requests[s].at = "scanning"
    /\ requests' = [requests EXCEPT ![s] = Onwards(@, @.active)]
    /\ UNCHANGED <<disk, defs, watched, workflows, globalRunning, poll, runs>>

\* ... and makes a new one, whatever was registered meanwhile.
AddRegisters(s) ==
    LET q == requests[s]
    IN /\ q.at = "adding"
       /\ watched' = Append(watched, Registration(q.workflow, q.config, q.snapshot))
       /\ workflows' = IF \E o \in ToSet(workflows) : watched[o].workflow = q.workflow
                       THEN [i \in DOMAIN workflows |->
                               IF watched[workflows[i]].workflow = q.workflow
                               THEN Len(watched) + 1 ELSE workflows[i]]
                       ELSE Append(workflows, Len(watched) + 1)
       /\ requests' = [requests EXCEPT ![s] = Onwards(q, q.active \cup {q.workflow})]
       /\ UNCHANGED <<disk, defs, globalRunning, poll, runs>>

\* list_workflows.
ListWorkflows == [i \in DOMAIN workflows |-> watched[workflows[i]].workflow]

SyncLists(s) ==
    /\ requests[s].at = "syncing" /\ requests[s].todo = <<>>
    /\ requests' = [requests EXCEPT ![s].at = "removing", ![s].todo = ListWorkflows]
    /\ UNCHANGED <<disk, defs, watched, workflows, globalRunning, poll, runs>>

\* Of those listed the ones without a watch are removed, if they still are there.
RemoveWorkflow(w) ==
    LET places == {i \in DOMAIN workflows : watched[workflows[i]].workflow = w}
    IN IF places = {} THEN UNCHANGED workflows
       ELSE \E i \in places : workflows' = RemoveAt(workflows, i)

SyncRemoves(s) ==
    LET q == requests[s]
        w == Head(q.todo)
    IN /\ q.at = "removing" /\ q.todo # <<>>
       /\ IF w \in q.active THEN UNCHANGED workflows ELSE RemoveWorkflow(w)
       /\ requests' = [requests EXCEPT ![s].todo = Tail(@)]
       /\ UNCHANGED <<disk, defs, watched, globalRunning, poll, runs>>

-----------------------------------------------------------------------------
Polls == PollBegins \/ PollScans \/ PollScanFails \/ PollQueues \/ PollStarts
Runs == \E r \in runs : RunEnds(r) \/ RunLists(r) \/ RunStarts(r)
Syncs(s) ==
    \/ SyncReads(s) \/ AddChecks(s) \/ AddScans(s) \/ AddScanFails(s) \/ AddRegisters(s)
    \/ SyncLists(s) \/ SyncRemoves(s)

Next ==
    \/ \E f \in Files : Write(f) \/ Delete(f)
    \/ \E o \in Objects : Settle(o)
    \/ Polls \/ Runs
    \/ \E s \in Requests :
         \/ Syncs(s)
         \/ \E edit \in Edits : RequestBegins(s, edit[1], edit[2])

\* The registration of a workflow in force.
Stands(o, w) == o \in Objects /\ Registered(o) /\ watched[o].workflow = w

\* The poll thread goes on, the files of every workflow are scanned
\* with success some time, and every run ends.
Fairness ==
    /\ WF_vars(Polls) /\ WF_vars(Runs)
    /\ \A w \in Workflows :
         SF_vars(poll.todo # <<>> /\ Stands(Head(poll.todo), w) /\ PollScans)

Spec == Init /\ [][Next]_vars
FairSpec == Spec /\ Fairness

-----------------------------------------------------------------------------
(* Properties.                                                              *)

\* The count of the server is the number of the runs that go on, also of
\* registrations that were replaced or removed while they ran, and never more
\* than its limit: no workflow raises it.
GlobalLimitHeld ==
    /\ globalRunning = Cardinality({r \in runs : r.at = "running"})
    /\ globalRunning <= GlobalLimit

\* The same of a registration and its own limit, as long as it is in force: the
\* poll thread and the runs that end start its batches at the same time.
OwnLimitHeld ==
    \A o \in Objects :
        /\ Cardinality(Running(o)) <= Concurrency(watched[o].config)
        /\ Registered(o) => watched[o].running = Cardinality(Running(o))

\* A full queue keeps the newest: it never holds more batches than its limit, and
\* if a change of a file waits alone, so does the last one noticed of that file.
OverflowDropsOldest ==
    \A o \in Objects :
        LET w == watched[o]
            waiting == UNION {ToSet(batch) : batch \in ToSet(w.queue)}
        IN /\ Len(w.queue) <= w.config.depth
           /\ w.config.each /\ (poll.at = "queueing" => poll.object # o) =>
                \A e \in waiting : \E g \in waiting :
                    g.file = e.file /\ g.version = w.snapshot[e.file].version

\* What runs and what waits is in the order of the changes: of one file, a run has
\* an older change than any batch that waits, and a batch than those behind it,
\* and what the poll thread is about to queue is newer than both.
Older(b, c) == \A e \in ToSet(b), g \in ToSet(c) : e.file = g.file => e.version < g.version
Found(o) == IF poll.at = "queueing" /\ poll.object = o THEN poll.events ELSE <<>>
InOrder ==
    \A o \in Objects :
        LET queue == watched[o].queue
        IN /\ \A j \in DOMAIN queue :
                /\ \A i \in 1 .. (j - 1) : Older(queue[i], queue[j])
                /\ \A r \in Running(o) : Older(r.events, queue[j])
                /\ Older(queue[j], Found(o))
           /\ \A r \in Running(o) : Older(r.events, Found(o))

\* When the files of a workflow in force differ from the snapshot, that is noticed.
Stale(o) ==
    \E f \in watched[o].config.files :
        \/ disk[f].present # watched[o].snapshot[f].present
        \/ disk[f].present /\ disk[f].version # watched[o].snapshot[f].version
ChangeIsNoticed ==
    \A w \in Workflows :
        LET unseen == \E o \in Objects : Stands(o, w) /\ Stale(o)
        IN unseen ~> ~unseen

\* What a workflow in force has queued is started, whatever the debounce and the
\* limits: some poll or some run that ends comes back to it.
QueueDrains ==
    \A w \in Workflows :
        LET waits == \E o \in Objects : Stands(o, w) /\ watched[o].queue # <<>>
        IN waits ~> ~waits
=============================================================================
