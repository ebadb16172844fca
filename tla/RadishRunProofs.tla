---------------------------- MODULE RadishRunProofs ----------------------------
(***************************************************************************)
(* Theorems about what a run of the Radish scheduler amounts to, for every  *)
(* workflow: groups are not run twice, latches open only for what           *)
(* completed, runs are accounted for, the scheduler never idles, and a pass *)
(* is a whole run.                                                          *)
(*                                                                          *)
(* The invariant describes the tree of iterations that the groups, lineages *)
(* and loops of a state spell.  As in RadishSchedulerProofs a lemma about   *)
(* each operator says what it keeps of a state.                             *)
(***************************************************************************)
EXTENDS RadishSchedulerProofs

(* The activations that wait or run. *)
Work(s) == s.pending \cup Activations(s.running)

(* A lineage is the root or an iteration that its loop began.               *)
IsLineage(s, l) ==
  \/ l = Root
  \/ /\ l.lineage \in DOMAIN s.loops
     /\ l.index \in Nat
     /\ l.index < s.loops[l.lineage].next
     /\ l = Iteration(l.lineage, l.index)

(* In an iteration there is no other group than the iteration; what is in   *)
(* no iteration is in no loop.                                              *)
Placed(x) == IF x.lineage = Root THEN DOMAIN x.loops = {} ELSE x.group = x.lineage

(* A loop lies where it was opened, and keeps to its items.                 *)
Grounded(s, l) ==
  /\ {"next", "active", "closed"} \subseteq DOMAIN s.loops[l]
  /\ s.loops[l].born \in Nat
  /\ s.loops[l].born < Cardinality(DOMAIN s.loops)
  /\ s.loops[l].parent = Root \/ s.loops[l].parent = l.group
  /\ s.loops[l].infinite \in BOOLEAN
  /\ s.loops[l].infinite => s.loops[l].routes # {}
  /\ ~ s.loops[l].infinite => s.loops[l].next <= s.loops[l].items
  /\ \A g \in s.loops[l].active : g \in DOMAIN s.satisfied /\ g # Root /\ g.lineage = l

Tree(s) ==
  /\ \A l \in DOMAIN s.satisfied : IsLineage(s, l)
  /\ \A a \in Work(s) : Placed(a)
  /\ \A l \in DOMAIN s.loops : Grounded(s, l)
  /\ \A l, m \in DOMAIN s.loops : s.loops[l].born = s.loops[m].born => l = m

(* Signals are numbered in the order they came.                             *)
Numbered(s) ==
  /\ \A a \in s.pending : a.sequence <= s.sequence
  /\ \A a, b \in s.pending : a.sequence = b.sequence => a = b

(* NoDuplicateActivation, of a state.                                       *)
Unique(s) ==
  /\ \A a, b \in s.pending : a.node = b.node /\ a.group = b.group => a = b
  /\ \A t, u \in s.running :
       (t.activation.node = u.activation.node /\ t.activation.group = u.activation.group)
         => t = u
  /\ \A a \in s.pending, t \in s.running :
       ~ (a.node = t.activation.node /\ a.group = t.activation.group)

(* What runs has its latch open, and a latch never closes.                  *)
Latched(s) == \A t \in s.running : Unlocked(s, t.activation.node, t.activation.lineage)

(* What opened a latch of a lineage was recorded, there or further out.     *)
Around(l) == IF l = Root THEN {Root} ELSE {l, Root} \cup l.inside

Completed(recorded, n, l) ==
  \E r \in recorded : r.node = n /\ r.outcome # "failure" /\ r.lineage \in Around(l)

Sourced(s, recorded) ==
  /\ \A l \in DOMAIN s.satisfied : \A n \in s.satisfied[l] : Completed(recorded, n, l)
  /\ \A l \in DOMAIN s.loops :
       \E r \in recorded : /\ r.node = l.loop /\ r.run = l.run
                           /\ r.outcome # "failure"
                           /\ r.lineage = s.loops[l].parent

Sound(s, recorded) ==
  Good(s) /\ Tree(s) /\ Numbered(s) /\ Unique(s) /\ Latched(s) /\ Sourced(s, recorded)

(* The iterations of a loop are at work, and as many as it may have.        *)
Live(s, g) == \E a \in Work(s) : a.group = g \/ g \in a.group.inside

Full(s, l) ==
  LET loop == s.loops[l]
  IN  /\ \A g \in loop.active : Live(s, g)
      /\ \/ loop.closed
         \/ ~ loop.infinite /\ loop.next = loop.items
         \/ Cardinality(loop.active) >= loop.limit

Settled(s) == \A l \in DOMAIN s.loops : Full(s, l)

(* A run has a number of its own at its node, when it goes on and later.    *)
Distinct(tasks, recorded, counts) ==
  /\ IsFiniteSet(recorded)
  /\ \A t, u \in tasks :
       t.activation.node = u.activation.node /\ t.run = u.run => t = u
  /\ \A r \in recorded : r.node \in Nodes /\ r.run \in 1 .. counts[r.node]
  /\ \A t \in tasks, r \in recorded : r.node = t.activation.node => r.run # t.run

RecordsOf(recorded, n) == {r \in recorded : r.node = n}

Balanced(tasks, recorded, counts, total) ==
  /\ total = Cardinality(tasks) + Cardinality(recorded)
  /\ \A n \in Nodes :
       counts[n] = Cardinality(OfNode(tasks, n)) + Cardinality(RecordsOf(recorded, n))

(* While the run goes on nothing fatal was recorded, and a failure that was *)
(* is not forgotten.                                                        *)
Fatal(r) ==
  \/ r.outcome = "failure" /\ r.lineage = Root
  \/ r.outcome # "failure" /\ Node[r.node].finish = "fail"

Honest ==
  /\ phase \in {"created", "running"} => ~ \E r \in records : Fatal(r)
  /\ phase \in {"created", "running"} /\ ~ deferred => \A r \in records : r.outcome # "failure"

RunInv ==
  /\ Inv
  /\ Sound(State, records)
  /\ Distinct(running, records, runCounts)
  /\ phase \in {"created", "running", "spinning", "passed"} =>
       Balanced(running, records, runCounts, totalRuns)
  /\ phase \in {"created", "running", "passed"} => Settled(State)
  /\ WorkConserving
  /\ CompletionsFit
  /\ Honest
  /\ PassIsComplete

(***************************************************************************)
(* Enqueueing.                                                              *)
(***************************************************************************)
Place == Nat \X Nat \X Nat

(* The signals of one call differ in their order.                           *)
Ordered(signals) ==
  /\ \A x \in signals : x.order \in Place
  /\ \A x, y \in signals : x.order = y.order => x = y

(* Precedes is a strict total order.                                        *)
LEMMA PrecedesTotal ==
  ASSUME NEW p \in Place, NEW q \in Place
  PROVE  /\ p # q => Precedes(p, q) \/ Precedes(q, p)
         /\ ~ (Precedes(p, q) /\ Precedes(q, p))
         /\ ~ Precedes(p, p)
<1>1. /\ p = <<p[1], p[2], p[3]>> /\ q = <<q[1], q[2], q[3]>>
      /\ p[1] \in Nat /\ p[2] \in Nat /\ p[3] \in Nat
      /\ q[1] \in Nat /\ q[2] \in Nat /\ q[3] \in Nat
  BY DEF Place
<1>2. p # q => p[1] # q[1] \/ p[2] # q[2] \/ p[3] # q[3]
  BY <1>1
<1> QED
  BY <1>1, <1>2 DEF Precedes

LEMMA PrecedesTransitive ==
  ASSUME NEW p \in Place, NEW q \in Place, NEW r \in Place, Precedes(p, q), Precedes(q, r)
  PROVE  Precedes(p, r)
<1>1. /\ p[1] \in Nat /\ p[2] \in Nat /\ p[3] \in Nat
      /\ q[1] \in Nat /\ q[2] \in Nat /\ q[3] \in Nat
      /\ r[1] \in Nat /\ r[2] \in Nat /\ r[3] \in Nat
  BY DEF Place
<1> QED
  BY <1>1 DEF Precedes

(* Among signals that differ in their order one comes first.                *)
LEMMA FirstSignal ==
  ASSUME NEW W, W # {}, Ordered(W)
  PROVE  \E x \in W : \A y \in W : x # y => Precedes(x.order, y.order)
<1>1. \A x \in W : x.order[1] \in Nat /\ x.order[2] \in Nat /\ x.order[3] \in Nat
  BY DEF Ordered, Place
<1> DEFINE f1 == [x \in W |-> x.order[1]]
<1>2. f1 \in [W -> Nat]
  BY <1>1
<1>3. PICK x1 \in W : \A y \in W : f1[x1] <= f1[y]
  <2> HIDE DEF f1
  <2> QED
    BY <1>2, LeastExists
<1>4. \A y \in W : x1.order[1] <= y.order[1]
  BY <1>3
<1> DEFINE W2 == {y \in W : y.order[1] = x1.order[1]}
           f2 == [x \in W2 |-> x.order[2]]
<1>5. W2 # {} /\ f2 \in [W2 -> Nat]
  BY <1>1
<1>6. PICK x2 \in W2 : \A y \in W2 : f2[x2] <= f2[y]
  <2> HIDE DEF f2, W2
  <2> QED
    BY <1>5, LeastExists
<1>7. x2 \in W /\ x2.order[1] = x1.order[1] /\ \A y \in W2 : x2.order[2] <= y.order[2]
  BY <1>6
<1> DEFINE W3 == {y \in W2 : y.order[2] = x2.order[2]}
           f3 == [x \in W3 |-> x.order[3]]
<1>8. W3 # {} /\ f3 \in [W3 -> Nat]
  BY <1>1
<1>9. PICK x3 \in W3 : \A y \in W3 : f3[x3] <= f3[y]
  <2> HIDE DEF f3, W3
  <2> QED
    BY <1>8, LeastExists
<1>10. /\ x3 \in W /\ x3.order[1] = x1.order[1] /\ x3.order[2] = x2.order[2]
       /\ \A y \in W3 : x3.order[3] <= y.order[3]
  BY <1>9
<1>11. ASSUME NEW y \in W, y # x3 PROVE ~ Precedes(y.order, x3.order)
  <2>1. /\ y.order[1] \in Nat /\ y.order[2] \in Nat /\ y.order[3] \in Nat
        /\ x3.order[1] \in Nat /\ x3.order[2] \in Nat /\ x3.order[3] \in Nat
    BY <1>1, <1>10
  <2>2. x3.order[1] <= y.order[1]
    BY <1>4, <1>10
  <2>3. y.order[1] = x3.order[1] => x3.order[2] <= y.order[2]
    BY <1>7, <1>10
  <2>4. y.order[1] = x3.order[1] /\ y.order[2] = x3.order[2] => x3.order[3] <= y.order[3]
    BY <1>10
  <2> HIDE DEF W2, W3
  <2> QED
    BY <2>1, <2>2, <2>3, <2>4 DEF Precedes
<1>12. ASSUME NEW y \in W, y # x3 PROVE Precedes(x3.order, y.order)
  <2>1. x3.order \in Place /\ y.order \in Place /\ x3.order # y.order
    BY <1>10, <1>12 DEF Ordered
  <2> QED
    BY <1>11, <1>12, <2>1, PrecedesTotal
<1> QED
  BY <1>10, <1>12

(* What Enqueue makes of a state.                                           *)
LEMMA EnqueueEffect ==
  ASSUME NEW s, Good(s), NEW signals, IsFiniteSet(signals), Ordered(signals),
         \A a \in s.pending : a.sequence <= s.sequence
  PROVE  LET r == Enqueue(s, signals)
             added == r.pending \ s.pending
         IN  /\ s.pending \subseteq r.pending
             /\ r.sequence >= s.sequence
             /\ \A a \in added : \E x \in signals :
                  /\ a.node = x.node /\ a.group = x.group /\ a.lineage = x.lineage
                  /\ a.loops = x.loops /\ ~ Held(s, x)
             /\ \A a \in added : a.sequence > s.sequence /\ a.sequence <= r.sequence
             /\ \A a, b \in added : a.sequence = b.sequence => a = b
             /\ \A a, b \in added : a.node = b.node /\ a.group = b.group => a = b
             /\ \A x \in signals : \E a \in Work(r) : a.node = x.node /\ a.group = x.group
<1> DEFINE Foremost(x) == \A y \in signals :
                            (x # y /\ x.node = y.node /\ x.group = y.group)
                              => Precedes(x.order, y.order)
           fresh == {x \in signals : ~ Held(s, x) /\ Foremost(x)}
           upto(x) == {y \in fresh : ~ Precedes(x.order, y.order)}
           Number(x) == s.sequence + Cardinality(upto(x))
           New(x) == [node |-> x.node, group |-> x.group, lineage |-> x.lineage,
                      loops |-> x.loops, sequence |-> Number(x), place |-> Number(x)]
           new == {New(x) : x \in fresh}
           r == Enqueue(s, signals)
           added == r.pending \ s.pending
<1>1. /\ r.pending = s.pending \cup new /\ r.running = s.running
      /\ r.sequence = s.sequence + Cardinality(fresh)
  <2>1. r = [s EXCEPT !.pending = s.pending \cup new,
                      !.sequence = s.sequence + Cardinality(fresh)]
    BY DEF Enqueue
  <2>2. IsRecord(s)
    BY DEF Good
  <2> HIDE DEF r, new, fresh
  <2> QED
    BY <2>1, <2>2 DEF IsRecord
<1>2. IsFiniteSet(fresh) /\ Cardinality(fresh) \in Nat /\ fresh \subseteq signals
  BY FS_Subset, FS_CardinalityType
<1>3. s.sequence \in Nat
  BY DEF Good, IsState
<1> HIDE DEF r
<1>4. \A x \in fresh : /\ x \in upto(x) /\ upto(x) \subseteq fresh
                       /\ IsFiniteSet(upto(x)) /\ Cardinality(upto(x)) \in Nat
                       /\ Cardinality(upto(x)) <= Cardinality(fresh)
  <2> SUFFICES ASSUME NEW x \in fresh
               PROVE  /\ x \in upto(x) /\ upto(x) \subseteq fresh
                      /\ IsFiniteSet(upto(x)) /\ Cardinality(upto(x)) \in Nat
                      /\ Cardinality(upto(x)) <= Cardinality(fresh)
    OBVIOUS
  <2>1. x.order \in Place
    BY <1>2 DEF Ordered
  <2>2. x \in upto(x)
    BY <2>1, PrecedesTotal
  <2>3. upto(x) \subseteq fresh
    OBVIOUS
  <2> HIDE DEF upto, fresh
  <2> QED
    BY <1>2, <2>2, <2>3, FS_Subset, FS_CardinalityType
<1>5. ASSUME NEW x \in fresh, NEW y \in fresh, x # y, Precedes(x.order, y.order)
      PROVE  Cardinality(upto(x)) < Cardinality(upto(y))
  <2>1. \A z \in fresh : z.order \in Place
    BY <1>2 DEF Ordered
  <2>2. upto(x) \subseteq upto(y)
    <3> SUFFICES ASSUME NEW z \in fresh, ~ Precedes(x.order, z.order), Precedes(y.order, z.order)
                 PROVE  FALSE
      OBVIOUS
    <3> QED
      BY <1>5, <2>1, PrecedesTransitive
  <2>3. y \in upto(y) /\ y \notin upto(x)
    BY <1>4, <1>5
  <2> HIDE DEF upto, fresh
  <2>4. IsFiniteSet(upto(y)) /\ Cardinality(upto(x)) <= Cardinality(upto(y))
        /\ Cardinality(upto(x)) # Cardinality(upto(y))
    BY <1>4, <1>5, <2>2, <2>3, FS_Subset
  <2> QED
    BY <1>4, <1>5, <2>4
<1>6. ASSUME NEW x \in fresh, NEW y \in fresh, Number(x) = Number(y)
      PROVE  x = y
  <2>1. Cardinality(upto(x)) = Cardinality(upto(y))
    <3> HIDE DEF upto, fresh
    <3> QED
      BY <1>3, <1>4, <1>6
  <2>2. SUFFICES ASSUME x # y PROVE FALSE
    OBVIOUS
  <2>3. Precedes(x.order, y.order) \/ Precedes(y.order, x.order)
    BY <1>2, <2>2, PrecedesTotal DEF Ordered
  <2>4. Cardinality(upto(x)) < Cardinality(upto(y)) \/ Cardinality(upto(y)) < Cardinality(upto(x))
    BY <1>5, <2>2, <2>3
  <2> HIDE DEF upto, fresh
  <2> QED
    BY <1>4, <2>1, <2>4
<1>7. \A x \in fresh : Number(x) > s.sequence /\ Number(x) <= r.sequence
  <2> SUFFICES ASSUME NEW x \in fresh
               PROVE  Number(x) > s.sequence /\ Number(x) <= r.sequence
    OBVIOUS
  <2> HIDE DEF upto
  <2>1. Cardinality(upto(x)) # 0
    BY <1>4, FS_EmptySet
  <2> HIDE DEF fresh
  <2> QED
    BY <1>1, <1>2, <1>3, <1>4, <2>1
<1>10. \A a \in new : \E x \in fresh : /\ a = New(x)
                                       /\ a.node = x.node /\ a.group = x.group
                                       /\ a.lineage = x.lineage /\ a.loops = x.loops
                                       /\ a.sequence = Number(x)
  <2>1. \A x : /\ New(x).node = x.node /\ New(x).group = x.group
               /\ New(x).lineage = x.lineage /\ New(x).loops = x.loops
               /\ New(x).sequence = Number(x)
    <3> HIDE DEF Number
    <3> QED
      OBVIOUS
  <2> HIDE DEF fresh, New, Number
  <2> QED
    BY <2>1
<1>8. added = new
  <2>1. \A a \in new : a.sequence > s.sequence
    <3> HIDE DEF new, fresh, New, Number
    <3> QED
      BY <1>7, <1>10
  <2>2. \A a \in s.pending : a.sequence \in Nat
    BY DEF Good, IsState, IsActivation
  <2> HIDE DEF new
  <2> QED
    BY <1>1, <1>3, <2>1, <2>2
<1>9. ASSUME NEW x \in fresh, NEW y \in fresh, x.node = y.node, x.group = y.group
      PROVE  x = y
  <2>1. SUFFICES ASSUME x # y PROVE FALSE
    OBVIOUS
  <2>2. Precedes(x.order, y.order) /\ Precedes(y.order, x.order)
    BY <1>9, <2>1
  <2> QED
    BY <1>2, <2>2, PrecedesTotal DEF Ordered
<1>11. \A x \in fresh : ~ Held(s, x) /\ x \in signals /\ New(x) \in new
  OBVIOUS
<1>12. \A x \in signals : \E a \in Work(r) : a.node = x.node /\ a.group = x.group
  <2> SUFFICES ASSUME NEW x \in signals
               PROVE  \E a \in Work(r) : a.node = x.node /\ a.group = x.group
    OBVIOUS
  <2>1. CASE Held(s, x)
    <3>1. PICK a \in s.pending \cup Activations(s.running) : a.node = x.node /\ a.group = x.group
      BY <2>1 DEF Held
    <3> QED
      BY <1>1, <3>1 DEF Work
  <2>2. CASE ~ Held(s, x)
    <3> DEFINE W == {y \in signals : y.node = x.node /\ y.group = x.group}
    <3>1. W # {} /\ Ordered(W) /\ W \subseteq signals
      BY DEF Ordered
    <3>2. PICK y \in W : \A z \in W : y # z => Precedes(y.order, z.order)
      <4> HIDE DEF W
      <4> QED
        BY <3>1, FirstSignal
    <3>3. y \in fresh /\ y.node = x.node /\ y.group = x.group
      BY <2>2, <3>2 DEF Held
    <3>4. New(y) \in new /\ New(y).node = x.node /\ New(y).group = x.group
      BY <3>3
    <3> QED
      BY <1>1, <3>4 DEF Work
  <2> QED
    BY <2>1, <2>2
<1> HIDE DEF fresh, new, New, Number
<1>13. \A a, b \in new : a.sequence = b.sequence => a = b
  BY <1>6, <1>10
<1>14. \A a, b \in new : a.node = b.node /\ a.group = b.group => a = b
  BY <1>9, <1>10
<1>15. r.sequence >= s.sequence
  BY <1>1, <1>2, <1>3
<1>16. \A a \in new : a.sequence > s.sequence /\ a.sequence <= r.sequence
  BY <1>7, <1>10
<1>17. \A a \in new : \E x \in signals :
         /\ a.node = x.node /\ a.group = x.group /\ a.lineage = x.lineage
         /\ a.loops = x.loops /\ ~ Held(s, x)
  BY <1>10, <1>11
<1> QED
  BY <1>1, <1>8, <1>12, <1>13, <1>14, <1>15, <1>16, <1>17 DEF r

(* What is signalled in a sound state.                                      *)
AreSignals(s, signals) ==
  /\ IsFiniteSet(signals)
  /\ Ordered(signals)
  /\ \A x \in signals : IsSignal(s, x) /\ Placed(x)

LEMMA EnqueueSound ==
  ASSUME NEW s, NEW recorded, Sound(s, recorded), NEW signals, AreSignals(s, signals)
  PROVE  LET r == Enqueue(s, signals)
         IN  /\ Sound(r, recorded)
             /\ r.running = s.running /\ r.satisfied = s.satisfied /\ r.loops = s.loops
             /\ s.pending \subseteq r.pending
             /\ \A x \in signals : \E a \in Work(r) : a.node = x.node /\ a.group = x.group
<1> DEFINE r == Enqueue(s, signals)
           added == r.pending \ s.pending
<1>1. Good(s) /\ Tree(s) /\ Numbered(s) /\ Unique(s) /\ Latched(s) /\ Sourced(s, recorded)
  BY DEF Sound
<1>2. IsFiniteSet(signals) /\ Ordered(signals) /\ \A x \in signals : IsSignal(s, x) /\ Placed(x)
  BY DEF AreSignals
<1>3. /\ Good(r) /\ r.running = s.running /\ r.satisfied = s.satisfied /\ r.loops = s.loops
  BY <1>1, <1>2, EnqueueGood
<1>4. /\ s.pending \subseteq r.pending
      /\ r.sequence >= s.sequence
      /\ \A a \in added : \E x \in signals :
           /\ a.node = x.node /\ a.group = x.group /\ a.lineage = x.lineage
           /\ a.loops = x.loops /\ ~ Held(s, x)
      /\ \A a \in added : a.sequence > s.sequence /\ a.sequence <= r.sequence
      /\ \A a, b \in added : a.sequence = b.sequence => a = b
      /\ \A a, b \in added : a.node = b.node /\ a.group = b.group => a = b
      /\ \A x \in signals : \E a \in Work(r) : a.node = x.node /\ a.group = x.group
  BY <1>1, <1>2, EnqueueEffect DEF Numbered
<1> HIDE DEF r
<1>5. r.pending = s.pending \cup added
  BY <1>4
<1>6. Work(r) = Work(s) \cup added
  BY <1>3, <1>5 DEF Work
<1>7. \A a \in added : Placed(a)
  BY <1>2, <1>4 DEF Placed
<1>8. \A a \in added, b \in Work(s) : ~ (a.node = b.node /\ a.group = b.group)
  BY <1>4 DEF Held, Work
<1> HIDE DEF added
<1>9. Tree(r)
  BY <1>1, <1>3, <1>6, <1>7 DEF Tree, IsLineage, Grounded
<1>10. Numbered(r)
  <2>1. s.sequence \in Nat /\ r.sequence \in Nat /\ \A a \in r.pending : a.sequence \in Nat
    BY <1>1, <1>3 DEF Good, IsState, IsActivation
  <2>2. \A a \in s.pending : a.sequence <= s.sequence
    BY <1>1 DEF Numbered
  <2>3. \A a \in added : a.sequence > s.sequence /\ a.sequence <= r.sequence
    BY <1>4 DEF added
  <2>4. \A a \in r.pending : a.sequence <= r.sequence
    BY <1>4, <1>5, <2>1, <2>2, <2>3
  <2>5. \A a, b \in r.pending : a.sequence = b.sequence => a = b
    <3> SUFFICES ASSUME NEW a \in r.pending, NEW b \in r.pending, a.sequence = b.sequence
                 PROVE  a = b
      OBVIOUS
    <3>1. CASE a \in s.pending /\ b \in s.pending
      BY <1>1, <3>1 DEF Numbered
    <3>2. CASE a \in added /\ b \in added
      BY <1>4, <3>2 DEF added
    <3>3. ~ (a \in s.pending /\ b \in added) /\ ~ (a \in added /\ b \in s.pending)
      BY <1>5, <2>1, <2>2, <2>3
    <3> QED
      BY <1>5, <3>1, <3>2, <3>3
  <2> QED
    BY <2>4, <2>5 DEF Numbered
<1>11. Unique(r)
  <2>1. \A a, b \in r.pending : a.node = b.node /\ a.group = b.group => a = b
    <3> SUFFICES ASSUME NEW a \in r.pending, NEW b \in r.pending,
                        a.node = b.node, a.group = b.group
                 PROVE  a = b
      OBVIOUS
    <3>1. CASE a \in s.pending /\ b \in s.pending
      BY <1>1, <3>1 DEF Unique
    <3>2. CASE a \in added /\ b \in added
      BY <1>4, <3>2 DEF added
    <3>3. ~ (a \in s.pending /\ b \in added) /\ ~ (a \in added /\ b \in s.pending)
      BY <1>8 DEF Work
    <3> QED
      BY <1>5, <3>1, <3>2, <3>3
  <2>2. \A a \in r.pending, t \in r.running :
          ~ (a.node = t.activation.node /\ a.group = t.activation.group)
    <3>1. \A t \in s.running : t.activation \in Work(s)
      BY DEF Work, Activations
    <3> QED
      BY <1>1, <1>3, <1>5, <1>8, <3>1 DEF Unique
  <2> QED
    BY <1>1, <1>3, <2>1, <2>2 DEF Unique
<1>12. Latched(r)
  BY <1>1, <1>3 DEF Latched, Unlocked, Satisfied
<1>13. Sourced(r, recorded)
  BY <1>1, <1>3 DEF Sourced
<1>14. Sound(r, recorded)
  BY <1>3, <1>9, <1>10, <1>11, <1>12, <1>13 DEF Sound
<1> QED
  BY <1>3, <1>4, <1>14 DEF r

(***************************************************************************)
(* Filling loops.                                                           *)
(***************************************************************************)

(* The iterations that begin follow the last one, stay within the items,    *)
(* and are as many as there is room for, unless the items run out.          *)
LEMMA BeginningInterval ==
  ASSUME NEW loop, NEW active, IsFiniteSet(active),
         loop.next \in Nat, loop.items \in Nat, loop.limit \in Nat, loop.infinite \in BOOLEAN,
         ~ loop.infinite => loop.next <= loop.items
  PROVE  LET k == Cardinality(Beginning(loop, active))
         IN  /\ k \in Nat
             /\ Beginning(loop, active) = loop.next .. (loop.next + k - 1)
             /\ ~ loop.infinite => loop.next + k <= loop.items
             /\ \/ loop.closed
                \/ k >= Room(loop, active)
                \/ ~ loop.infinite /\ loop.next + k = loop.items
<1> DEFINE room == Room(loop, active)
           first == loop.next
           B == Beginning(loop, active)
           k == Cardinality(B)
           IsLast(last) == /\ first - 1 <= last
                           /\ B = first .. last
                           /\ ~ loop.infinite => last < loop.items
                           /\ \/ loop.closed
                              \/ last - first + 1 >= room
                              \/ ~ loop.infinite /\ last + 1 = loop.items
<1>1. Cardinality(active) \in Nat
  BY FS_CardinalityType
<1>2. room \in Int
  BY <1>1 DEF Room
<1> HIDE DEF room
<1>3. B = {i \in first .. (first + room - 1) : ~ loop.closed /\ (loop.infinite \/ i < loop.items)}
  BY DEF Beginning, MayBegin, room
<1> HIDE DEF B
<1>4. \E last \in Int : IsLast(last)
  <2>1. CASE loop.closed
    <3>1. B = first .. (first - 1)
      BY <1>3, <2>1
    <3>2. first - 1 \in Int
      OBVIOUS
    <3> QED
      BY <2>1, <3>1, <3>2
  <2>2. CASE ~ loop.closed /\ room <= 0
    <3>1. B = first .. (first - 1)
      BY <1>2, <1>3, <2>2
    <3>2. first - 1 \in Int
      OBVIOUS
    <3> QED
      BY <1>2, <2>2, <3>1, <3>2
  <2>3. CASE ~ loop.closed /\ room > 0 /\ (loop.infinite \/ first + room <= loop.items)
    <3>1. B = first .. (first + room - 1)
      BY <1>2, <1>3, <2>3
    <3>2. first + room - 1 \in Int
      BY <1>2
    <3> QED
      BY <1>2, <2>3, <3>1, <3>2
  <2>4. CASE ~ loop.closed /\ room > 0 /\ ~ loop.infinite /\ first + room > loop.items
    <3>1. B = first .. (loop.items - 1)
      BY <1>2, <1>3, <2>4
    <3>2. loop.items - 1 \in Int
      OBVIOUS
    <3> QED
      BY <1>2, <2>4, <3>1, <3>2
  <2> QED
    BY <1>2, <2>1, <2>2, <2>3, <2>4
<1>5. PICK last \in Int : IsLast(last)
  <2> HIDE DEF IsLast
  <2> QED
    BY <1>4
<1>6. k = last - first + 1
  <2>1. first \in Int
    OBVIOUS
  <2> HIDE DEF first
  <2>2. Cardinality(first .. last) = IF first > last THEN 0 ELSE last - first + 1
    BY <1>5, <2>1, FS_Interval
  <2> QED
    BY <1>5, <2>1, <2>2
<1>7. k \in Nat /\ last = first + k - 1
  <2> HIDE DEF k
  <2> QED
    BY <1>5, <1>6
<1>8. /\ B = first .. (first + k - 1)
      /\ ~ loop.infinite => first + k <= loop.items
      /\ loop.closed \/ k >= room \/ (~ loop.infinite /\ first + k = loop.items)
  <2> HIDE DEF k
  <2> QED
    BY <1>2, <1>5, <1>7
<1> QED
  BY <1>7, <1>8 DEF B, room

(* Iterations of one loop differ by their index.                            *)
LEMMA BegunCounted ==
  ASSUME NEW s, NEW kept, NEW l \in DOMAIN kept,
         IsFiniteSet(Beginning(s.loops[l], kept[l]))
  PROVE  /\ IsFiniteSet(BegunBy(s, kept, l))
         /\ Cardinality(BegunBy(s, kept, l)) = Cardinality(Beginning(s.loops[l], kept[l]))
<1> DEFINE B == Beginning(s.loops[l], kept[l])
           f == [i \in B |-> Iteration(l, i)]
           T == BegunBy(s, kept, l)
<1>1. T = {Iteration(l, i) : i \in B}
  BY DEF BegunBy
<1> HIDE DEF B, T
<1>2. f \in [B -> T] /\ \A g \in T : \E i \in B : f[i] = g
  BY <1>1
<1>3. \A i, j \in B : f[i] = f[j] => i = j
  BY DEF Iteration
<1>4. f \in Bijection(B, T)
  <2> HIDE DEF f
  <2> QED
    BY <1>2, <1>3 DEF Bijection, Injection, Surjection, IsInjective
<1>5. ExistsBijection(B, T)
  BY <1>4 DEF ExistsBijection
<1> QED
  BY <1>5, FS_Bijection DEF B, T

(* What filling keeps and changes of a loop.                                *)
SameLoop(new, old) ==
  /\ DOMAIN new = DOMAIN old
  /\ new.born = old.born /\ new.parent = old.parent /\ new.parentLoops = old.parentLoops
  /\ new.infinite = old.infinite /\ new.items = old.items
  /\ new.limit = old.limit /\ new.routes = old.routes /\ new.closed = old.closed

Refilled(s, kept, l, new, old) ==
  /\ l \notin DOMAIN kept => new = old
  /\ l \in DOMAIN kept =>
       /\ new.next = old.next + Cardinality(BegunBy(s, kept, l))
       /\ new.active = IF old.routes = {} THEN {} ELSE kept[l] \cup BegunBy(s, kept, l)

LEMMA FilledLoops ==
  ASSUME NEW s, NEW recorded, Sound(s, recorded), NEW kept, DOMAIN kept \subseteq DOMAIN s.loops,
         NEW l \in DOMAIN s.loops
  PROVE  /\ SameLoop(Filled(s, kept).loops[l], s.loops[l])
         /\ Refilled(s, kept, l, Filled(s, kept).loops[l], s.loops[l])
<1> DEFINE old == s.loops[l]
           loop == Filled(s, kept).loops[l]
           next2 == old.next + Cardinality(BegunBy(s, kept, l))
           active2 == IF old.routes = {} THEN {} ELSE kept[l] \cup BegunBy(s, kept, l)
<1>1. loop = IF l \in DOMAIN kept THEN [old EXCEPT !.next = next2, !.active = active2] ELSE old
  <2>1. IsRecord(s)
    BY DEF Sound, Good
  <2>2. "loops" \in DOMAIN s
    BY <2>1 DEF IsRecord
  <2> QED
    BY <2>2 DEF Filled
<1>2. {"next", "active", "closed"} \subseteq DOMAIN old
  BY DEF Sound, Tree, Grounded
<1> HIDE DEF old, loop, next2, active2
<1>3. /\ DOMAIN loop = DOMAIN old
      /\ loop.born = old.born /\ loop.parent = old.parent
      /\ loop.parentLoops = old.parentLoops
      /\ loop.infinite = old.infinite /\ loop.items = old.items
      /\ loop.limit = old.limit /\ loop.routes = old.routes
      /\ loop.closed = old.closed
      /\ l \notin DOMAIN kept => loop = old
      /\ l \in DOMAIN kept => loop.next = next2 /\ loop.active = active2
  BY <1>1, <1>2
<1> QED
  BY <1>3 DEF old, loop, next2, active2, SameLoop, Refilled

(* The iterations a loop begins follow those it began, and fill it up.      *)
Fresh(s, new, l, g) ==
  /\ g = Iteration(l, g.index) /\ g.lineage = l /\ g # Root
  /\ g.index \in Nat /\ g.index < new.next
  /\ g \notin DOMAIN s.satisfied

LEMMA BegunFills ==
  ASSUME NEW s, NEW recorded, Sound(s, recorded), NEW kept, DOMAIN kept \subseteq DOMAIN s.loops,
         NEW l \in DOMAIN kept, kept[l] \subseteq s.loops[l].active
  PROVE  LET loop == Filled(s, kept).loops[l]
         IN  /\ \A g \in BegunBy(s, kept, l) : Fresh(s, loop, l, g)
             /\ s.loops[l].next <= loop.next
             /\ ~ loop.infinite => loop.next <= loop.items
             /\ \/ loop.closed
                \/ ~ loop.infinite /\ loop.next = loop.items
                \/ Cardinality(loop.active) >= loop.limit
<1> DEFINE old == s.loops[l]
           loop == Filled(s, kept).loops[l]
           B == Beginning(old, kept[l])
           k == Cardinality(B)
           begun == BegunBy(s, kept, l)
<1>1. /\ IsLoop(s, l) /\ Grounded(s, l)
      /\ \A m \in DOMAIN s.satisfied : IsLineage(s, m)
  BY DEF Sound, Tree, Good, IsState
<1>2. /\ old.next \in Nat /\ old.items \in Nat /\ old.limit \in Nat /\ old.infinite \in BOOLEAN
      /\ ~ old.infinite => old.next <= old.items
      /\ old.infinite => old.routes # {}
      /\ IsFiniteSet(old.active)
      /\ \A g \in old.active : g \in DOMAIN s.satisfied
  BY <1>1 DEF IsLoop, Grounded
<1>3. IsFiniteSet(kept[l]) /\ Cardinality(kept[l]) \in Nat
  BY <1>2, FS_Subset, FS_CardinalityType
<1> HIDE DEF old
<1>4. /\ k \in Nat
      /\ B = old.next .. (old.next + k - 1)
      /\ ~ old.infinite => old.next + k <= old.items
      /\ \/ old.closed
         \/ k >= Room(old, kept[l])
         \/ ~ old.infinite /\ old.next + k = old.items
  BY <1>2, <1>3, BeginningInterval
<1>5. IsFiniteSet(B)
  BY <1>2, <1>4, FS_Interval
<1>6. IsFiniteSet(begun) /\ Cardinality(begun) = k
  BY <1>5, BegunCounted DEF old
<1>7. /\ loop.next = old.next + k
      /\ loop.active = IF old.routes = {} THEN {} ELSE kept[l] \cup begun
      /\ loop.infinite = old.infinite /\ loop.items = old.items /\ loop.limit = old.limit
      /\ loop.closed = old.closed
  <2>1. SameLoop(loop, old) /\ Refilled(s, kept, l, loop, old)
    BY FilledLoops DEF old
  <2>2. Cardinality(BegunBy(s, kept, l)) = k
    BY <1>6
  <2> HIDE DEF loop, k
  <2> QED
    BY <2>1, <2>2 DEF SameLoop, Refilled
<1> HIDE DEF loop
<1>8. begun = {Iteration(l, i) : i \in B}
  BY DEF BegunBy, old
<1> HIDE DEF k, B
<1>9. \A g \in begun : /\ g = Iteration(l, g.index) /\ g.lineage = l /\ g # Root
                       /\ g.index \in B
  BY <1>8 DEF Iteration, Root
<1>10. \A i \in B : i \in Nat /\ i >= old.next /\ i < loop.next
  BY <1>2, <1>4, <1>7
<1>11. \A g \in begun : g \notin DOMAIN s.satisfied
  <2> SUFFICES ASSUME NEW g \in begun, g \in DOMAIN s.satisfied PROVE FALSE
    OBVIOUS
  <2>1. g # Root /\ g.lineage = l /\ g.index \in B
    BY <1>9
  <2>2. g.index < s.loops[g.lineage].next
    BY <1>1, <2>1 DEF IsLineage
  <2> QED
    BY <1>2, <1>10, <2>1, <2>2 DEF old
<1> HIDE DEF begun
<1>12. \/ loop.closed
       \/ ~ loop.infinite /\ loop.next = loop.items
       \/ Cardinality(loop.active) >= loop.limit
  <2>1. CASE old.closed
    BY <1>7, <2>1
  <2>2. CASE ~ old.infinite /\ old.next + k = old.items
    BY <1>7, <2>2
  <2>3. CASE k >= Room(old, kept[l]) /\ old.routes = {}
    <3>1. Room(old, kept[l]) = old.items - old.next
      BY <2>3 DEF Room
    <3>2. ~ old.infinite /\ old.next + k <= old.items
      BY <1>2, <1>4, <2>3
    <3> QED
      BY <1>2, <1>4, <1>7, <2>3, <3>1, <3>2
  <2>4. CASE k >= Room(old, kept[l]) /\ old.routes # {}
    <3>1. Room(old, kept[l]) = old.limit - Cardinality(kept[l])
      BY <2>4 DEF Room
    <3>2. kept[l] \cap begun = {}
      BY <1>2, <1>11 DEF old
    <3>3. Cardinality(kept[l] \cup begun) = Cardinality(kept[l]) + k
      <4>1. /\ IsFiniteSet(kept[l] \cup begun)
            /\ Cardinality(kept[l] \cup begun) = Cardinality(kept[l]) + Cardinality(begun)
                                                   - Cardinality(kept[l] \cap begun)
        BY <1>3, <1>6, FS_Union
      <4>2. Cardinality(kept[l] \cap begun) = 0
        BY <3>2, FS_EmptySet
      <4>3. Cardinality(begun) = k
        BY <1>6 DEF begun
      <4> QED
        BY <1>3, <1>4, <4>1, <4>2, <4>3
    <3> QED
      BY <1>2, <1>3, <1>4, <1>7, <2>4, <3>1, <3>3
  <2> QED
    BY <1>4, <2>1, <2>2, <2>3, <2>4
<1>13. old.next <= loop.next /\ (~ loop.infinite => loop.next <= loop.items)
  BY <1>2, <1>4, <1>7
<1>14. \A g \in begun : /\ g = Iteration(l, g.index) /\ g.lineage = l /\ g # Root
                        /\ g.index \in Nat /\ g.index < loop.next
  BY <1>9, <1>10
<1>15. \A g \in begun : Fresh(s, loop, l, g)
  BY <1>11, <1>14 DEF Fresh
<1> QED
  BY <1>12, <1>13, <1>15 DEF begun, loop, old

(* What lies further out of the parent of a loop lies further out of its    *)
(* iterations.                                                              *)
LEMMA CompletedInside ==
  ASSUME NEW recorded, NEW l, NEW g, NEW i, NEW n, g = Iteration(l, i),
         NEW parent, parent = Root \/ parent = l.group, Completed(recorded, n, parent)
  PROVE  Completed(recorded, n, g)
<1>1. g # Root /\ g.inside = {l.group} \cup l.group.inside
  BY DEF Iteration, Root
<1>2. Around(parent) \subseteq Around(g)
  BY <1>1 DEF Around
<1> QED
  BY <1>2 DEF Completed

(* Filling keeps a state sound, before the new iterations are signalled.    *)
LEMMA FilledSound ==
  ASSUME NEW s, NEW recorded, Sound(s, recorded), NEW kept, DOMAIN kept \subseteq DOMAIN s.loops,
         \A l \in DOMAIN kept : kept[l] \subseteq s.loops[l].active
  PROVE  LET f == Filled(s, kept)
         IN  /\ Sound(f, recorded)
             /\ f.pending = s.pending /\ f.running = s.running
             /\ DOMAIN f.loops = DOMAIN s.loops
             /\ DOMAIN f.satisfied = DOMAIN s.satisfied \cup Begun(s, kept)
             /\ \A l \in DOMAIN s.satisfied : f.satisfied[l] = s.satisfied[l]
             /\ \A g \in Begun(s, kept) : g \notin DOMAIN s.satisfied
<1> DEFINE f == Filled(s, kept)
           begun == Begun(s, kept)
<1>1. /\ Good(s) /\ Tree(s) /\ Numbered(s) /\ Unique(s) /\ Latched(s) /\ Sourced(s, recorded)
      /\ \A l \in DOMAIN s.loops : IsLoop(s, l) /\ Grounded(s, l)
      /\ \A l \in DOMAIN s.satisfied : IsLineage(s, l)
  BY DEF Sound, Good, IsState, Tree
<1>2. \A l \in DOMAIN kept : IsFiniteSet(kept[l])
  <2> SUFFICES ASSUME NEW l \in DOMAIN kept PROVE IsFiniteSet(kept[l])
    OBVIOUS
  <2>1. IsFiniteSet(s.loops[l].active) /\ kept[l] \subseteq s.loops[l].active
    BY <1>1 DEF IsLoop
  <2> QED
    BY <2>1, FS_Subset
<1>3. /\ Good(f) /\ f.pending = s.pending /\ f.running = s.running
      /\ DOMAIN f.loops = DOMAIN s.loops
      /\ DOMAIN f.satisfied = DOMAIN s.satisfied \cup begun
  BY <1>1, <1>2, FilledGood
<1>4. f.sequence = s.sequence
  BY <1>1 DEF Good, IsRecord, Filled
<1>5. \A l \in DOMAIN f.satisfied :
        f.satisfied[l] = IF l \in begun
                         THEN Satisfied(s, s.loops[l.lineage].parent) \cup {l.lineage.loop}
                         ELSE s.satisfied[l]
  <2>1. "satisfied" \in DOMAIN s
    BY <1>1 DEF Good, IsRecord
  <2> QED
    BY <1>3, <2>1 DEF Filled
<1>6. \A l \in DOMAIN kept : \A g \in BegunBy(s, kept, l) : Fresh(s, f.loops[l], l, g)
  BY BegunFills
<1>7. \A g \in begun : /\ g.lineage \in DOMAIN kept /\ g.lineage \in DOMAIN f.loops
                       /\ g = Iteration(g.lineage, g.index) /\ g # Root
                       /\ g.index \in Nat /\ g.index < f.loops[g.lineage].next
                       /\ g \notin DOMAIN s.satisfied
  BY <1>3, <1>6 DEF Begun, Fresh
<1>8. \A l \in DOMAIN s.loops : /\ SameLoop(f.loops[l], s.loops[l])
                                /\ Refilled(s, kept, l, f.loops[l], s.loops[l])
  BY FilledLoops
<1>9. \A l \in DOMAIN s.loops : /\ f.loops[l].next >= s.loops[l].next
                                /\ ~ f.loops[l].infinite => f.loops[l].next <= f.loops[l].items
  <2> SUFFICES ASSUME NEW l \in DOMAIN s.loops
               PROVE  /\ f.loops[l].next >= s.loops[l].next
                      /\ ~ f.loops[l].infinite => f.loops[l].next <= f.loops[l].items
    OBVIOUS
  <2>1. CASE l \in DOMAIN kept
    <3>1. /\ s.loops[l].next <= f.loops[l].next
          /\ ~ f.loops[l].infinite => f.loops[l].next <= f.loops[l].items
      BY <2>1, BegunFills
    <3>2. s.loops[l].next \in Nat /\ f.loops[l].next \in Nat
      BY <1>1, <1>3 DEF IsLoop, Good, IsState
    <3> HIDE DEF f
    <3> QED
      BY <3>1, <3>2
  <2>2. CASE l \notin DOMAIN kept
    <3>1. f.loops[l] = s.loops[l]
      BY <1>8, <2>2 DEF Refilled
    <3>2. s.loops[l].next \in Nat /\ (~ s.loops[l].infinite => s.loops[l].next <= s.loops[l].items)
      BY <1>1 DEF IsLoop, Grounded
    <3> QED
      BY <3>1, <3>2
  <2> QED
    BY <2>1, <2>2
<1> HIDE DEF f, begun
<1>10. Tree(f)
  <2>1. \A l \in DOMAIN f.satisfied : IsLineage(f, l)
    <3> SUFFICES ASSUME NEW l \in DOMAIN f.satisfied PROVE IsLineage(f, l)
      OBVIOUS
    <3>1. CASE l \in begun
      BY <1>7, <3>1 DEF IsLineage
    <3>2. CASE l \in DOMAIN s.satisfied /\ l # Root
      <4>1. /\ l.lineage \in DOMAIN s.loops /\ l.index \in Nat
            /\ l.index < s.loops[l.lineage].next /\ l = Iteration(l.lineage, l.index)
        BY <1>1, <3>2 DEF IsLineage
      <4>2. s.loops[l.lineage].next \in Nat /\ f.loops[l.lineage].next \in Nat
            /\ f.loops[l.lineage].next >= s.loops[l.lineage].next
        BY <1>1, <1>3, <1>9, <4>1 DEF IsLoop, Good, IsState
      <4>3. l.index < f.loops[l.lineage].next
        BY <4>1, <4>2
      <4> QED
        BY <1>3, <4>1, <4>3 DEF IsLineage
    <3> QED
      BY <1>3, <3>1, <3>2 DEF IsLineage
  <2>2. Work(f) = Work(s)
    BY <1>3 DEF Work
  <2>3. \A l \in DOMAIN f.loops : Grounded(f, l)
    <3> SUFFICES ASSUME NEW l \in DOMAIN s.loops PROVE Grounded(f, l)
      BY <1>3
    <3>1. \A g \in s.loops[l].active : g \in DOMAIN s.satisfied /\ g # Root /\ g.lineage = l
      BY <1>1 DEF Grounded
    <3>2. \A g \in f.loops[l].active : g \in DOMAIN f.satisfied /\ g # Root /\ g.lineage = l
      <4>1. CASE l \notin DOMAIN kept
        BY <1>3, <1>8, <3>1, <4>1 DEF Refilled
      <4>2. CASE l \in DOMAIN kept
        <5>1. f.loops[l].active \subseteq kept[l] \cup BegunBy(s, kept, l)
          BY <1>8, <4>2 DEF Refilled
        <5>2. BegunBy(s, kept, l) \subseteq begun
          BY <4>2 DEF begun, Begun
        <5> QED
          BY <1>3, <1>6, <3>1, <4>2, <5>1, <5>2 DEF Fresh
      <4> QED
        BY <4>1, <4>2
    <3>3. SameLoop(f.loops[l], s.loops[l])
      BY <1>8
    <3>4. Grounded(s, l) /\ (~ f.loops[l].infinite => f.loops[l].next <= f.loops[l].items)
      BY <1>1, <1>9
    <3> QED
      BY <1>3, <3>2, <3>3, <3>4 DEF Grounded, SameLoop
  <2>4. \A l, m \in DOMAIN f.loops : f.loops[l].born = f.loops[m].born => l = m
    BY <1>1, <1>3, <1>8 DEF Tree, SameLoop
  <2> QED
    BY <1>1, <2>1, <2>2, <2>3, <2>4 DEF Tree
<1>11. Numbered(f) /\ Unique(f)
  BY <1>1, <1>3, <1>4 DEF Numbered, Unique
<1>12. \A l \in DOMAIN s.satisfied : f.satisfied[l] = s.satisfied[l] /\ l \in DOMAIN f.satisfied
  BY <1>3, <1>5, <1>7
<1>13. Latched(f)
  <2>1. \A t \in s.running : t.activation.lineage \in DOMAIN s.satisfied
    BY <1>1 DEF Good, IsState, IsActivation, Activations
  <2> QED
    BY <1>1, <1>3, <1>12, <2>1 DEF Latched, Unlocked, Satisfied
<1>14. Sourced(f, recorded)
  <2>1. ASSUME NEW l \in DOMAIN f.satisfied, NEW n \in f.satisfied[l]
        PROVE  Completed(recorded, n, l)
    <3>1. CASE l \in DOMAIN s.satisfied
      BY <1>1, <1>12, <2>1, <3>1 DEF Sourced
    <3>2. CASE l \in begun
      <4> DEFINE m == l.lineage
                 parent == s.loops[m].parent
      <4>1. m \in DOMAIN s.loops /\ l = Iteration(m, l.index)
        BY <1>3, <1>7, <3>2
      <4>2. parent \in DOMAIN s.satisfied /\ (parent = Root \/ parent = m.group)
        BY <1>1, <4>1 DEF IsLoop, Grounded
      <4>3. n \in s.satisfied[parent] \cup {m.loop}
        BY <1>5, <2>1, <3>2, <4>2 DEF Satisfied
      <4> HIDE DEF m, parent
      <4>4. Completed(recorded, n, parent)
        <5>1. CASE n \in s.satisfied[parent]
          BY <1>1, <4>2, <5>1 DEF Sourced
        <5>2. CASE n = m.loop
          <6>1. PICK r \in recorded : r.node = m.loop /\ r.outcome # "failure" /\ r.lineage = parent
            BY <1>1, <4>1 DEF Sourced, parent
          <6>2. parent \in Around(parent)
            BY DEF Around
          <6> QED
            BY <5>2, <6>1, <6>2 DEF Completed
        <5> QED
          BY <4>3, <5>1, <5>2
      <4> QED
        BY <4>1, <4>2, <4>4, CompletedInside
    <3> QED
      BY <1>3, <3>1, <3>2
  <2>2. \A l \in DOMAIN f.loops :
          \E r \in recorded : /\ r.node = l.loop /\ r.run = l.run
                              /\ r.outcome # "failure"
                              /\ r.lineage = f.loops[l].parent
    <3>1. \A l \in DOMAIN s.loops : f.loops[l].parent = s.loops[l].parent
      BY <1>8 DEF SameLoop
    <3> QED
      BY <1>1, <1>3, <3>1 DEF Sourced
  <2> QED
    BY <2>1, <2>2 DEF Sourced
<1>15. Sound(f, recorded)
  BY <1>3, <1>10, <1>11, <1>13, <1>14 DEF Sound
<1> QED
  BY <1>3, <1>7, <1>12, <1>15 DEF f, begun

(* What the iterations of an open loop emit are signals.                    *)
LEMMA IterationsSignal ==
  ASSUME NEW s, NEW recorded, Sound(s, recorded), NEW begun, IsFiniteSet(begun),
         \A g \in begun : /\ g \in DOMAIN s.satisfied /\ g.lineage \in DOMAIN s.loops /\ g # Root
                          /\ g = Iteration(g.lineage, g.index) /\ g.index \in Nat
  PROVE  AreSignals(s, UNION {IterationSignals(s, g) : g \in begun})
<1> DEFINE all == {IterationSignals(s, g) : g \in begun}
           signals == UNION all
           f == [g \in begun |-> IterationSignals(s, g)]
<1>1. \A g \in begun : /\ IsFiniteSet(IterationSignals(s, g))
                      /\ \A x \in IterationSignals(s, g) : IsSignal(s, x)
  BY IterationSignalsGood DEF Sound, Good
<1>2. f \in [begun -> all] /\ \A B \in all : \E g \in begun : f[g] = B
  OBVIOUS
<1>3. \A B \in all : IsFiniteSet(B)
  BY <1>1
<1>4. \A x \in signals : IsSignal(s, x)
  BY <1>1
<1>5. IsFiniteSet(all)
  <2> HIDE DEF f, all
  <2> QED
    BY <1>2, ImageFinite
<1>6. IsFiniteSet(signals)
  <2> HIDE DEF all
  <2> QED
    BY <1>3, <1>5, FS_UNION
<1> DEFINE loop(g) == s.loops[g.lineage]
           id(g) == g.lineage.loop
           around(g) == [m \in DOMAIN loop(g).parentLoops \cup {id(g)} |->
                           IF m = id(g) THEN g.lineage ELSE loop(g).parentLoops[m]]
           Signal(g, r) == [node |-> Node[id(g)].routes[r].target, group |-> g, lineage |-> g,
                            loops |-> around(g), order |-> <<loop(g).born, g.index, r>>]
<1>7. \A x \in signals : \E g \in begun : \E r \in loop(g).routes : x = Signal(g, r)
  <2>1. \A g \in begun : IterationSignals(s, g) = {Signal(g, r) : r \in loop(g).routes}
    BY DEF IterationSignals
  <2> HIDE DEF Signal, loop
  <2> QED
    BY <2>1
<1> HIDE DEF signals
<1>8. \A x \in signals : /\ x.group \in begun /\ x.lineage = x.group
                         /\ \E r \in loop(x.group).routes :
                              /\ x = Signal(x.group, r)
                              /\ x.order = <<loop(x.group).born, x.group.index, r>>
  <2> HIDE DEF loop, around, id
  <2>1. \A g, r : /\ Signal(g, r).group = g /\ Signal(g, r).lineage = g
                  /\ Signal(g, r).order = <<loop(g).born, g.index, r>>
    OBVIOUS
  <2> HIDE DEF Signal
  <2> QED
    BY <1>7, <2>1
<1> HIDE DEF Signal, around, id
<1>9. \A x \in signals : Placed(x)
  BY <1>8 DEF Placed
<1>10. \A l \in DOMAIN s.loops : /\ s.loops[l].born \in Nat
                                 /\ l.loop \in Nodes
                                 /\ s.loops[l].routes \subseteq DOMAIN Node[l.loop].routes
  BY DEF Sound, Good, IsState, IsLoop, Tree, Grounded
<1>11. \A l \in DOMAIN s.loops : s.loops[l].routes \subseteq Nat
  <2> SUFFICES ASSUME NEW l \in DOMAIN s.loops PROVE DOMAIN Node[l.loop].routes \subseteq Nat
    BY <1>10
  <2>1. Node[l.loop].routes \in Seq([target : Nodes,
                       mode : {"unconditional", "conditional", "otherwise"},
                       eligible : SUBSET {"success", "allowed_failure"}])
    BY <1>10, NodeAssumption DEF IsNode
  <2> QED
    BY <2>1
<1>12. \A x \in signals : x.order \in Place
  <2> SUFFICES ASSUME NEW x \in signals PROVE x.order \in Place
    OBVIOUS
  <2>1. PICK r \in loop(x.group).routes : x.order = <<loop(x.group).born, x.group.index, r>>
    BY <1>8
  <2>2. x.group.index \in Nat /\ x.group.lineage \in DOMAIN s.loops
    BY <1>8
  <2>3. loop(x.group).born \in Nat /\ r \in Nat
    BY <1>10, <1>11, <2>1, <2>2
  <2> HIDE DEF loop
  <2> QED
    BY <2>1, <2>2, <2>3 DEF Place
<1>13. \A x, y \in signals : x.order = y.order => x = y
  <2> SUFFICES ASSUME NEW x \in signals, NEW y \in signals, x.order = y.order PROVE x = y
    OBVIOUS
  <2>1. PICK r \in loop(x.group).routes :
          x = Signal(x.group, r) /\ x.order = <<loop(x.group).born, x.group.index, r>>
    BY <1>8
  <2>2. PICK q \in loop(y.group).routes :
          y = Signal(y.group, q) /\ y.order = <<loop(y.group).born, y.group.index, q>>
    BY <1>8
  <2>3. loop(x.group).born = loop(y.group).born /\ x.group.index = y.group.index /\ r = q
    <3> HIDE DEF loop
    <3>1. <<loop(x.group).born, x.group.index, r>> = <<loop(y.group).born, y.group.index, q>>
      BY <2>1, <2>2
    <3> QED
      BY <3>1
  <2>4. /\ x.group.lineage \in DOMAIN s.loops /\ y.group.lineage \in DOMAIN s.loops
        /\ x.group = Iteration(x.group.lineage, x.group.index)
        /\ y.group = Iteration(y.group.lineage, y.group.index)
    BY <1>8
  <2>5. x.group.lineage = y.group.lineage
    BY <2>3, <2>4 DEF Sound, Tree
  <2>6. x.group = y.group
    BY <2>3, <2>4, <2>5
  <2> HIDE DEF loop
  <2> QED
    BY <2>1, <2>2, <2>3, <2>6
<1> QED
  BY <1>4, <1>6, <1>9, <1>12, <1>13 DEF AreSignals, Ordered, signals

(* An iteration emits something, if its loop has a route.                   *)
LEMMA IterationEmits ==
  ASSUME NEW s, NEW g, NEW r \in s.loops[g.lineage].routes
  PROVE  \E x \in IterationSignals(s, g) : x.group = g
<1> DEFINE loop == s.loops[g.lineage]
           id == g.lineage.loop
           around == [m \in DOMAIN loop.parentLoops \cup {id} |->
                        IF m = id THEN g.lineage ELSE loop.parentLoops[m]]
           Signal(q) == [node |-> Node[id].routes[q].target, group |-> g, lineage |-> g,
                         loops |-> around, order |-> <<loop.born, g.index, q>>]
<1>1. IterationSignals(s, g) = {Signal(q) : q \in loop.routes}
  BY DEF IterationSignals
<1>2. Signal(r).group = g
  OBVIOUS
<1> HIDE DEF Signal
<1> QED
  BY <1>1, <1>2

(* A step that starts no run and drops no signal, latch or loop.            *)
Grows(s, r) ==
  /\ r.running = s.running
  /\ s.pending \subseteq r.pending
  /\ DOMAIN r.loops = DOMAIN s.loops
  /\ \A l \in DOMAIN s.satisfied : l \in DOMAIN r.satisfied /\ r.satisfied[l] = s.satisfied[l]

LEMMA GrowsLive ==
  ASSUME NEW s, NEW r, Grows(s, r), NEW g, Live(s, g)
  PROVE  Live(r, g)
BY DEF Live, Work, Grows

(* Filling keeps a state sound, and fills up the loops.                     *)
LEMMA FillSound ==
  ASSUME NEW s, NEW recorded, Sound(s, recorded), NEW kept, DOMAIN kept \subseteq DOMAIN s.loops,
         \A l \in DOMAIN kept : kept[l] \subseteq s.loops[l].active
  PROVE  LET r == FillLoops(s, kept)
         IN  /\ Sound(r, recorded)
             /\ Grows(s, r)
             /\ \A l \in DOMAIN kept : (\A g \in kept[l] : Live(s, g)) => Full(r, l)
             /\ \A l \in DOMAIN s.loops \ DOMAIN kept : r.loops[l] = s.loops[l]
<1> DEFINE f == Filled(s, kept)
           begun == Begun(s, kept)
           signals == UNION {IterationSignals(f, g) : g \in begun}
           r == FillLoops(s, kept)
<1>1. r = Enqueue(f, signals)
  BY DEF FillLoops
<1>2. /\ Sound(f, recorded)
      /\ f.pending = s.pending /\ f.running = s.running
      /\ DOMAIN f.loops = DOMAIN s.loops
      /\ DOMAIN f.satisfied = DOMAIN s.satisfied \cup begun
      /\ \A l \in DOMAIN s.satisfied : f.satisfied[l] = s.satisfied[l]
  BY FilledSound
<1>3. IsFiniteSet(begun)
  <2>1. \A l \in DOMAIN kept : IsFiniteSet(kept[l])
    BY FS_Subset DEF Sound, Good, IsState, IsLoop
  <2> QED
    BY <2>1, BegunGood DEF Sound, Good
<1>4. \A l \in DOMAIN kept : \A g \in BegunBy(s, kept, l) : Fresh(s, f.loops[l], l, g)
  BY BegunFills
<1>5. \A g \in begun : /\ g \in DOMAIN f.satisfied /\ g.lineage \in DOMAIN f.loops /\ g # Root
                       /\ g = Iteration(g.lineage, g.index) /\ g.index \in Nat
  BY <1>2, <1>4 DEF Begun, Fresh
<1> HIDE DEF f, begun
<1>6. AreSignals(f, signals)
  BY <1>2, <1>3, <1>5, IterationsSignal
<1> HIDE DEF r, signals
<1>7. /\ Sound(r, recorded)
      /\ r.running = f.running /\ r.satisfied = f.satisfied /\ r.loops = f.loops
      /\ f.pending \subseteq r.pending
      /\ \A x \in signals : \E a \in Work(r) : a.node = x.node /\ a.group = x.group
  BY <1>1, <1>2, <1>6, EnqueueSound
<1>8. Grows(s, r)
  BY <1>2, <1>7 DEF Grows
<1>9. \A l \in DOMAIN s.loops : /\ SameLoop(r.loops[l], s.loops[l])
                                /\ Refilled(s, kept, l, r.loops[l], s.loops[l])
  BY <1>7, FilledLoops DEF f
<1>10. \A l \in DOMAIN s.loops \ DOMAIN kept : r.loops[l] = s.loops[l]
  BY <1>9 DEF Refilled
<1>11. ASSUME NEW l \in DOMAIN kept, \A g \in kept[l] : Live(s, g)
       PROVE  Full(r, l)
  <2> DEFINE loop == r.loops[l]
  <2>1. \/ loop.closed
        \/ ~ loop.infinite /\ loop.next = loop.items
        \/ Cardinality(loop.active) >= loop.limit
    BY <1>7, BegunFills DEF f
  <2>2. /\ loop.active = IF s.loops[l].routes = {} THEN {} ELSE kept[l] \cup BegunBy(s, kept, l)
        /\ loop.routes = s.loops[l].routes
    BY <1>9 DEF Refilled, SameLoop
  <2>3. ASSUME NEW g \in loop.active PROVE Live(r, g)
    <3>1. CASE g \in kept[l]
      BY <1>8, <1>11, <3>1, GrowsLive
    <3>2. CASE g \in BegunBy(s, kept, l) /\ loop.routes # {}
      <4>1. g \in begun /\ g.lineage = l
        BY <1>4, <3>2 DEF begun, Begun, Fresh
      <4>2. PICK i \in f.loops[l].routes : TRUE
        BY <1>7, <3>2
      <4>3. \E x \in IterationSignals(f, g) : x.group = g
        BY <4>1, <4>2, IterationEmits
      <4>4. \E x \in signals : x.group = g
        BY <4>1, <4>3 DEF signals
      <4> QED
        BY <1>7, <4>4 DEF Live
    <3> QED
      BY <2>2, <2>3, <3>1, <3>2
  <2> QED
    BY <2>1, <2>3 DEF Full
<1> QED
  BY <1>7, <1>8, <1>10, <1>11 DEF r

(* Settling keeps a state sound, and leaves each loop as full as it may be. *)
LEMMA SettleSound ==
  ASSUME NEW s, NEW recorded, Sound(s, recorded)
  PROVE  LET r == SettleLoops(s)
         IN  Sound(r, recorded) /\ Grows(s, r) /\ Settled(r)
<1> DEFINE living(l) == {g \in s.loops[l].active :
                           \E live \in LiveGroups(s) : live = g \/ g \in live.inside}
           kept == [l \in DOMAIN s.loops |-> living(l)]
           r == SettleLoops(s)
<1>1. r = FillLoops(s, kept)
  BY DEF SettleLoops
<1>2. \A l \in DOMAIN s.loops : /\ living(l) \subseteq s.loops[l].active
                                /\ \A g \in living(l) : Live(s, g)
  BY DEF LiveGroups, Live, Work
<1> HIDE DEF living, r
<1>3. DOMAIN kept = DOMAIN s.loops /\ \A l \in DOMAIN kept : kept[l] = living(l)
  OBVIOUS
<1> HIDE DEF kept
<1>4. /\ Sound(r, recorded) /\ Grows(s, r)
      /\ \A l \in DOMAIN kept : (\A g \in kept[l] : Live(s, g)) => Full(r, l)
  BY <1>1, <1>2, <1>3, FillSound
<1>5. Settled(r)
  BY <1>2, <1>3, <1>4 DEF Settled, Grows
<1> QED
  BY <1>4, <1>5 DEF r

(***************************************************************************)
(* Completions.                                                             *)
(***************************************************************************)

(* The tree does not depend on what is signalled or satisfied.              *)
LEMMA SameTree ==
  ASSUME NEW s, Tree(s), NEW r, r.loops = s.loops, DOMAIN r.satisfied = DOMAIN s.satisfied,
         \A a \in Work(r) : Placed(a)
  PROVE  Tree(r)
<1>1. \A l \in DOMAIN r.satisfied : IsLineage(r, l)
  BY DEF Tree, IsLineage
<1>2. \A l \in DOMAIN r.loops : Grounded(r, l)
  BY DEF Tree, Grounded
<1>3. \A l, m \in DOMAIN r.loops : r.loops[l].born = r.loops[m].born => l = m
  BY DEF Tree
<1> QED
  BY <1>1, <1>2, <1>3 DEF Tree

(* A task that ends, and what is recorded of it, leave the rest sound.      *)
LEMMA FewerSound ==
  ASSUME NEW s, NEW recorded, Sound(s, recorded), NEW more, recorded \subseteq more, NEW task
  PROVE  Sound([s EXCEPT !.running = @ \ {task}], more)
<1> DEFINE r == [s EXCEPT !.running = @ \ {task}]
<1>1. Good(s) /\ Tree(s) /\ Numbered(s) /\ Unique(s) /\ Latched(s) /\ Sourced(s, recorded)
  BY DEF Sound
<1>2. r = [pending |-> s.pending, running |-> s.running \ {task}, satisfied |-> s.satisfied,
           loops |-> s.loops, sequence |-> s.sequence]
  BY <1>1 DEF Good, IsRecord
<1> HIDE DEF r
<1>3. Good(r)
  <2>1. IsRecord(r)
    BY <1>2 DEF IsRecord
  <2>2. IsFiniteSet(r.running)
    BY <1>1, <1>2, FS_Subset DEF Good, IsState
  <2>3. Activations(r.running) \subseteq Activations(s.running)
    BY <1>2 DEF Activations
  <2>4. \A a \in r.pending \cup Activations(r.running) : IsActivation(r, a)
    BY <1>1, <1>2, <2>3 DEF Good, IsState, IsActivation
  <2>5. \A l \in DOMAIN r.loops : IsLoop(r, l)
    BY <1>1, <1>2 DEF Good, IsState, IsLoop
  <2> QED
    BY <1>1, <1>2, <2>1, <2>2, <2>4, <2>5 DEF Good, IsState
<1>4. Work(r) \subseteq Work(s)
  BY <1>2 DEF Work, Activations
<1>5. Tree(r)
  <2>1. \A a \in Work(r) : Placed(a)
    BY <1>1, <1>4 DEF Tree
  <2> QED
    BY <1>1, <1>2, <2>1, SameTree
<1>6. Numbered(r) /\ Unique(r) /\ Latched(r)
  BY <1>1, <1>2 DEF Numbered, Unique, Latched, Unlocked, Satisfied
<1>7. Sourced(r, more)
  <2>1. \A n, l : Completed(recorded, n, l) => Completed(more, n, l)
    BY DEF Completed
  <2> QED
    BY <1>1, <1>2, <2>1 DEF Sourced
<1> QED
  BY <1>3, <1>5, <1>6, <1>7 DEF Sound, r

(* Recording in a lineage what was completed there.                         *)
LEMMA SatisfySound ==
  ASSUME NEW s, NEW recorded, Sound(s, recorded), NEW lineage \in DOMAIN s.satisfied,
         NEW n \in Nodes, Completed(recorded, n, lineage)
  PROVE  LET r == Satisfy(s, lineage, n)
         IN  /\ Sound(r, recorded)
             /\ r.pending = s.pending /\ r.running = s.running /\ r.loops = s.loops
             /\ DOMAIN r.satisfied = DOMAIN s.satisfied
<1> DEFINE r == Satisfy(s, lineage, n)
<1>1. Good(s) /\ Tree(s) /\ Numbered(s) /\ Unique(s) /\ Latched(s) /\ Sourced(s, recorded)
  BY DEF Sound
<1>2. /\ Good(r) /\ r.pending = s.pending /\ r.running = s.running /\ r.loops = s.loops
      /\ DOMAIN r.satisfied = DOMAIN s.satisfied
  <2>1. DOMAIN s.satisfied \cup {lineage} = DOMAIN s.satisfied
    OBVIOUS
  <2>2. /\ Good(r) /\ r.pending = s.pending /\ r.running = s.running /\ r.loops = s.loops
        /\ DOMAIN r.satisfied = DOMAIN s.satisfied \cup {lineage}
    BY <1>1, SatisfyGood
  <2> HIDE DEF r
  <2> QED
    BY <2>1, <2>2
<1>3. \A l \in DOMAIN s.satisfied :
        r.satisfied[l] = IF l = lineage THEN s.satisfied[l] \cup {n} ELSE s.satisfied[l]
  <2>1. "satisfied" \in DOMAIN s
    BY <1>1 DEF Good, IsRecord
  <2> QED
    BY <2>1 DEF Satisfy, Satisfied
<1>4. r.sequence = s.sequence
  BY <1>1 DEF Satisfy, Good, IsRecord
<1> HIDE DEF r
<1>5. Tree(r) /\ Numbered(r) /\ Unique(r)
  <2>1. \A a \in Work(r) : Placed(a)
    BY <1>1, <1>2 DEF Tree, Work
  <2> QED
    BY <1>1, <1>2, <1>4, <2>1, SameTree DEF Numbered, Unique
<1>6. Latched(r)
  <2>1. \A t \in s.running : t.activation.lineage \in DOMAIN s.satisfied
    BY <1>1 DEF Good, IsState, IsActivation, Activations
  <2>2. \A l \in DOMAIN s.satisfied : s.satisfied[l] \subseteq r.satisfied[l]
    BY <1>3
  <2> QED
    BY <1>1, <1>2, <2>1, <2>2 DEF Latched, Unlocked, Satisfied
<1>7. Sourced(r, recorded)
  BY <1>1, <1>2, <1>3 DEF Sourced
<1> QED
  BY <1>2, <1>5, <1>6, <1>7 DEF Sound, r

(* The record that handling a completion makes.                             *)
IsRecordOf(r, c) ==
  /\ r.node = c.task.activation.node /\ r.run = c.task.run
  /\ r.group = c.task.activation.group
  /\ r.lineage = c.task.activation.lineage /\ r.outcome = c.outcome

(* A completion that is handled, of a node that did not fail.               *)
Handled(s, recorded, c, routes) ==
  /\ IsActivation(s, c.task.activation)
  /\ Placed(c.task.activation)
  /\ c.items \in Nat
  /\ c.outcome # "failure"
  /\ \E r \in recorded : IsRecordOf(r, c)
  /\ routes \subseteq DOMAIN Node[c.task.activation.node].routes

(* A loop that opens lies where its node completed.                         *)
LEMMA OpenedSound ==
  ASSUME NEW s, NEW recorded, Sound(s, recorded), NEW c, NEW routes,
         Handled(s, recorded, c, routes), NewLineage(c) \notin DOMAIN s.loops, ~ Spins(c, routes),
         Node[c.task.activation.node].type = "loop"
  PROVE  Sound(Opened(s, c, routes), recorded)
<1> DEFINE a == c.task.activation
           opened == NewLineage(c)
           loop == NewLoop(s, c, routes)
           r == Opened(s, c, routes)
<1>1. Good(s) /\ Tree(s) /\ Numbered(s) /\ Unique(s) /\ Latched(s) /\ Sourced(s, recorded)
  BY DEF Sound
<1>2. /\ IsActivation(s, a) /\ Placed(a) /\ c.items \in Nat
      /\ routes \subseteq DOMAIN Node[a.node].routes
  BY DEF Handled
<1>3. /\ Good(r)
      /\ r.pending = s.pending /\ r.running = s.running
      /\ r.satisfied = s.satisfied /\ r.sequence = s.sequence
      /\ DOMAIN r.loops = DOMAIN s.loops \cup {opened}
      /\ r.loops[opened] = loop
      /\ \A l \in DOMAIN s.loops : l # opened => r.loops[l] = s.loops[l]
  BY <1>1, <1>2, OpenedGood
<1>4. a.node \in Nodes
  BY <1>2 DEF IsActivation
<1>5. /\ {"next", "active", "closed"} \subseteq DOMAIN loop
      /\ loop.born = Cardinality(DOMAIN s.loops) /\ loop.parent = a.lineage
      /\ loop.infinite = (c.outcome = "success" /\ Node[a.node].source.infinite)
      /\ loop.routes = routes /\ loop.next = 0 /\ loop.items = c.items /\ loop.active = {}
      /\ opened.loop = a.node /\ opened.group = a.group /\ opened.run = c.task.run
  BY DEF NewLoop, NewLineage, LoopLineage
<1>6. loop.infinite \in BOOLEAN /\ (loop.infinite => loop.routes # {})
  BY <1>5 DEF Spins
<1>7. /\ Cardinality(DOMAIN s.loops) \in Nat
      /\ Cardinality(DOMAIN r.loops) = Cardinality(DOMAIN s.loops) + 1
  BY <1>1, <1>3, FS_CardinalityType, FS_AddElement DEF Good, IsState
<1> HIDE DEF loop, opened, r
<1>8. a.lineage = Root \/ a.lineage = a.group
  BY <1>2 DEF Placed
<1>9. Tree(r)
  <2>1. \A l \in DOMAIN r.satisfied : IsLineage(r, l)
    <3> SUFFICES ASSUME NEW l \in DOMAIN s.satisfied PROVE IsLineage(r, l)
      BY <1>3
    <3>1. IsLineage(s, l)
      BY <1>1 DEF Tree
    <3>2. l # Root => l.lineage # opened
      BY <3>1 DEF IsLineage, opened
    <3> QED
      BY <1>3, <3>1, <3>2 DEF IsLineage
  <2>2. \A b \in Work(r) : Placed(b)
    BY <1>1, <1>3 DEF Tree, Work
  <2>3. Grounded(r, opened)
    BY <1>2, <1>3, <1>5, <1>6, <1>7, <1>8 DEF Grounded
  <2>4. ASSUME NEW l \in DOMAIN s.loops PROVE Grounded(r, l)
    <3>1. l # opened /\ Grounded(s, l) /\ r.loops[l] = s.loops[l]
      BY <1>1, <1>3 DEF opened, Tree
    <3> QED
      BY <1>3, <1>7, <3>1 DEF Grounded
  <2>5. ASSUME NEW l \in DOMAIN r.loops, NEW m \in DOMAIN r.loops,
               r.loops[l].born = r.loops[m].born
        PROVE  l = m
    <3>1. \A k \in DOMAIN s.loops : /\ r.loops[k] = s.loops[k]
                                    /\ r.loops[k].born < Cardinality(DOMAIN s.loops)
                                    /\ r.loops[k].born \in Nat
      BY <1>1, <1>3 DEF opened, Tree, Grounded
    <3>2. CASE l \in DOMAIN s.loops /\ m \in DOMAIN s.loops
      BY <1>1, <2>5, <3>1, <3>2 DEF Tree
    <3>3. ~ (l = opened /\ m \in DOMAIN s.loops) /\ ~ (m = opened /\ l \in DOMAIN s.loops)
      BY <1>3, <1>5, <1>7, <2>5, <3>1
    <3> QED
      BY <1>3, <3>2, <3>3
  <2> QED
    BY <1>3, <2>1, <2>2, <2>3, <2>4, <2>5 DEF Tree
<1>10. Numbered(r) /\ Unique(r)
  BY <1>1, <1>3 DEF Numbered, Unique
<1>11. Latched(r)
  BY <1>1, <1>3 DEF Latched, Unlocked, Satisfied
<1>12. Sourced(r, recorded)
  <2>1. \E q \in recorded : /\ q.node = opened.loop /\ q.run = opened.run
                            /\ q.outcome # "failure" /\ q.lineage = loop.parent
    BY <1>5 DEF Handled, IsRecordOf
  <2>2. \A l \in DOMAIN s.loops : r.loops[l] = s.loops[l]
    BY <1>3 DEF opened
  <2> QED
    BY <1>1, <1>3, <2>1, <2>2 DEF Sourced
<1> QED
  BY <1>3, <1>9, <1>10, <1>11, <1>12 DEF Sound, r

LEMMA OpenSound ==
  ASSUME NEW s, NEW recorded, Sound(s, recorded), NEW c, NEW routes,
         Handled(s, recorded, c, routes), NewLineage(c) \notin DOMAIN s.loops, ~ Spins(c, routes),
         Node[c.task.activation.node].type = "loop"
  PROVE  LET r == OpenLoop(s, c, routes)
         IN  /\ Sound(r, recorded) /\ r.running = s.running
             /\ DOMAIN s.satisfied \subseteq DOMAIN r.satisfied
             /\ DOMAIN s.loops \subseteq DOMAIN r.loops
<1> DEFINE o == Opened(s, c, routes)
           kept == [l \in {NewLineage(c)} |-> {}]
           r == OpenLoop(s, c, routes)
<1>1. r = FillLoops(o, kept)
  BY OpenIsFill
<1>2. Sound(o, recorded)
  BY OpenedSound
<1>3. /\ o.running = s.running /\ o.satisfied = s.satisfied
      /\ DOMAIN o.loops = DOMAIN s.loops \cup {NewLineage(c)}
  BY OpenedGood DEF Sound, Handled
<1>4. DOMAIN kept = {NewLineage(c)} /\ \A l \in DOMAIN kept : kept[l] = {}
  OBVIOUS
<1> HIDE DEF kept, o, r
<1>5. Sound(r, recorded) /\ Grows(o, r)
  BY <1>1, <1>2, <1>3, <1>4, FillSound
<1> QED
  BY <1>3, <1>5 DEF Grows, r

(* A break closes a loop, whose iterations stay where they are.             *)
LEMMA CloseSound ==
  ASSUME NEW s, NEW recorded, Sound(s, recorded), NEW a, IsActivation(s, a)
  PROVE  LET r == CloseLoop(s, a)
         IN  /\ Sound(r, recorded) /\ r.running = s.running
             /\ r.satisfied = s.satisfied /\ DOMAIN r.loops = DOMAIN s.loops
<1> DEFINE id == Node[a.node].loop
           l == a.loops[id]
           left == {q \in s.pending : ~ (id \in DOMAIN q.loops /\ q.loops[id] = a.loops[id])}
           loops2 == [s.loops EXCEPT ![l].closed = TRUE]
           r == CloseLoop(s, a)
<1>1. Good(s) /\ Tree(s) /\ Numbered(s) /\ Unique(s) /\ Latched(s) /\ Sourced(s, recorded)
  BY DEF Sound
<1>2. CASE id \notin DOMAIN a.loops \/ s.loops[l].closed
  <2>1. r = s
    BY <1>2 DEF CloseLoop
  <2> QED
    BY <2>1
<1>3. CASE ~ (id \notin DOMAIN a.loops \/ s.loops[l].closed)
  <2>1. r = [s EXCEPT !.loops[l].closed = TRUE, !.pending = left]
    BY <1>3 DEF CloseLoop
  <2>2. /\ Good(r) /\ r.running = s.running /\ DOMAIN r.loops = DOMAIN s.loops
        /\ r.satisfied = s.satisfied
    BY <1>1, CloseGood
  <2> HIDE DEF r, left
  <2>3. r = [pending |-> left, running |-> s.running, satisfied |-> s.satisfied,
             loops |-> loops2, sequence |-> s.sequence]
    <3> HIDE DEF l
    <3>1. IsRecord(s)
      BY <1>1 DEF Good
    <3> QED
      BY <2>1, <3>1 DEF IsRecord
  <2>4. left \subseteq s.pending
    BY DEF left
  <2>5. \A k \in DOMAIN s.loops :
          /\ DOMAIN loops2[k] = DOMAIN s.loops[k]
          /\ loops2[k].born = s.loops[k].born
          /\ loops2[k].items = s.loops[k].items
          /\ loops2[k].infinite = s.loops[k].infinite
          /\ loops2[k].next = s.loops[k].next
          /\ loops2[k].routes = s.loops[k].routes
          /\ loops2[k].parent = s.loops[k].parent
          /\ loops2[k].active = s.loops[k].active
    <3> HIDE DEF l
    <3> QED
      OBVIOUS
  <2> HIDE DEF loops2
  <2>6. Tree(r)
    <3>1. \A m \in DOMAIN r.satisfied : IsLineage(r, m)
      BY <1>1, <2>2, <2>3, <2>5 DEF Tree, IsLineage
    <3>2. \A b \in Work(r) : Placed(b)
      BY <1>1, <2>3, <2>4 DEF Tree, Work
    <3>3. ASSUME NEW k \in DOMAIN s.loops PROVE Grounded(r, k)
      <4>1. Grounded(s, k)
        BY <1>1 DEF Tree
      <4> QED
        BY <2>2, <2>3, <2>5, <4>1 DEF Grounded
    <3>4. \A k, m \in DOMAIN r.loops : r.loops[k].born = r.loops[m].born => k = m
      BY <1>1, <2>2, <2>3, <2>5 DEF Tree
    <3> QED
      BY <2>2, <3>1, <3>2, <3>3, <3>4 DEF Tree
  <2>7. Numbered(r) /\ Unique(r)
    BY <1>1, <2>3, <2>4 DEF Numbered, Unique
  <2>8. Latched(r)
    BY <1>1, <2>3 DEF Latched, Unlocked, Satisfied
  <2>9. Sourced(r, recorded)
    BY <1>1, <2>2, <2>3, <2>5 DEF Sourced
  <2> QED
    BY <2>2, <2>6, <2>7, <2>8, <2>9 DEF Sound, r
<1> QED
  BY <1>2, <1>3

(* In an iteration nothing is merged: there is one group per node.          *)
LEMMA WaitingAlone ==
  ASSUME NEW s, Tree(s), Unique(s), NEW lineage, lineage # Root, NEW n
  PROVE  ~ (Cardinality(Waiting(s, lineage, n)) > 1)
<1> DEFINE W == Waiting(s, lineage, n)
<1>1. \A a, b \in W : a = b
  BY DEF Waiting, At, Tree, Placed, Work, Unique
<1>2. CASE W = {}
  BY <1>2, FS_EmptySet
<1>3. CASE W # {}
  <2>1. PICK a \in W : TRUE
    BY <1>3
  <2>2. W = {a}
    BY <1>1, <2>1
  <2> HIDE DEF W
  <2>3. Cardinality(W) = 1
    BY <2>2, FS_Singleton
  <2> QED
    BY <2>3 DEF W
<1> QED
  BY <1>2, <1>3

(* What waits at a target that unlocks at the root becomes one activation.  *)
LEMMA MergeSound ==
  ASSUME NEW s, NEW recorded, Sound(s, recorded), NEW lineage \in DOMAIN s.satisfied,
         NEW targets \in SUBSET Nodes,
         \A n \in targets : \A t \in s.running :
           ~ (t.activation.node = n /\ t.activation.lineage = lineage)
  PROVE  LET r == MergeLockedSignals(s, lineage, targets)
         IN  /\ Sound(r, recorded) /\ r.running = s.running
             /\ r.satisfied = s.satisfied /\ r.loops = s.loops
<1> DEFINE merging == {n \in targets : Cardinality(Waiting(s, lineage, n)) > 1}
           gone == UNION {Waiting(s, lineage, n) : n \in merging}
           new == {Merged(s, lineage, n) : n \in merging}
           last == s.sequence + IF merging = {} THEN 0 ELSE 1
           r == MergeLockedSignals(s, lineage, targets)
<1>1. Good(s) /\ Tree(s) /\ Numbered(s) /\ Unique(s) /\ Latched(s) /\ Sourced(s, recorded)
  BY DEF Sound
<1>2. /\ Good(r) /\ r.running = s.running /\ r.satisfied = s.satisfied /\ r.loops = s.loops
  BY <1>1, MergeGood
<1>3. r.pending = (s.pending \ gone) \cup new /\ r.sequence = last
  <2>1. r = [s EXCEPT !.pending = (s.pending \ gone) \cup new, !.sequence = last]
    BY DEF MergeLockedSignals
  <2> HIDE DEF r, merging, gone, last, new
  <2> QED
    BY <1>1, <2>1 DEF Good, IsRecord
<1>4. s.sequence \in Nat /\ last \in Nat /\ s.sequence <= last
  BY <1>1 DEF Good, IsState
<1>5. \A n \in merging : Waiting(s, lineage, n) # {}
  <2> SUFFICES ASSUME NEW n \in merging, Waiting(s, lineage, n) = {}
               PROVE  FALSE
    OBVIOUS
  <2>1. Cardinality({}) > 1
    OBVIOUS
  <2> HIDE DEF merging
  <2> QED
    BY <2>1, FS_EmptySet
<1>6. merging # {} => lineage = Root
  BY <1>1, WaitingAlone
<1>7. \A n \in merging : \A t \in s.running :
        ~ (t.activation.node = n /\ t.activation.lineage = lineage)
  OBVIOUS
<1> HIDE DEF merging, last, r
<1>8. \A n \in merging : \E first, least \in Waiting(s, lineage, n) :
        /\ Merged(s, lineage, n).node = n /\ Merged(s, lineage, n).lineage = lineage
        /\ Merged(s, lineage, n).loops = first.loops
        /\ Merged(s, lineage, n).sequence = least.sequence
        /\ Merged(s, lineage, n).group.kind = "merged"
  BY <1>1, <1>5, WaitingFirstLeast DEF Merged, MergedGroup
<1>9. \A b \in new : \E n \in merging : \E first, least \in Waiting(s, lineage, n) :
        /\ b = Merged(s, lineage, n) /\ b.node = n /\ b.lineage = Root
        /\ b.loops = first.loops /\ b.sequence = least.sequence /\ b.group.kind = "merged"
        /\ lineage = Root
  <2> SUFFICES ASSUME NEW n \in merging
               PROVE  \E first, least \in Waiting(s, lineage, n) :
        /\ Merged(s, lineage, n).node = n /\ Merged(s, lineage, n).lineage = Root
        /\ Merged(s, lineage, n).loops = first.loops
        /\ Merged(s, lineage, n).sequence = least.sequence
        /\ Merged(s, lineage, n).group.kind = "merged"
        /\ lineage = Root
    <3> HIDE DEF gone
    <3> QED
      BY <1>8
  <2> QED
    BY <1>6, <1>8
<1> HIDE DEF new
<1>10. \A n : \A a \in Waiting(s, lineage, n) : a \in s.pending /\ a.node = n /\ a.lineage = lineage
  BY DEF Waiting, At
<1>11. \A a \in s.pending : \A n \in merging : a.node = n /\ a.lineage = lineage => a \in gone
  BY DEF Waiting, At, gone
<1>12. \A n \in merging : \A a \in Waiting(s, lineage, n) : a \in gone
  BY DEF gone
<1> HIDE DEF gone
<1>13. \A b \in new : b.node \in merging /\ b.lineage = Root /\ lineage = Root
                      /\ b.group.kind = "merged" /\ DOMAIN b.loops = {}
  <2> SUFFICES ASSUME NEW b \in new
               PROVE  b.node \in merging /\ b.lineage = Root /\ lineage = Root
                      /\ b.group.kind = "merged" /\ DOMAIN b.loops = {}
    OBVIOUS
  <2>1. PICK n \in merging : \E first \in Waiting(s, lineage, n) :
          /\ b.node = n /\ b.lineage = Root /\ b.loops = first.loops
          /\ b.group.kind = "merged" /\ lineage = Root
    BY <1>9
  <2> PICK first \in Waiting(s, lineage, n) : b.loops = first.loops
    BY <2>1
  <2>2. first \in s.pending /\ first.lineage = Root
    BY <1>10, <2>1
  <2>3. Placed(first)
    BY <1>1, <2>2 DEF Tree, Work
  <2> QED
    BY <2>1, <2>2, <2>3 DEF Placed
<1>14. \A a \in Work(s) : a.lineage # Root => a.group.kind = "iteration"
  <2> SUFFICES ASSUME NEW a \in Work(s), a.lineage # Root PROVE a.group.kind = "iteration"
    OBVIOUS
  <2>1. a.group = a.lineage /\ a.lineage \in DOMAIN s.satisfied
    BY <1>1 DEF Tree, Placed, Work, Good, IsState, IsActivation
  <2>2. IsLineage(s, a.lineage)
    BY <1>1, <2>1 DEF Tree
  <2> QED
    BY <2>1, <2>2 DEF IsLineage, Iteration
<1>15. Tree(r)
  <2>1. \A b \in new : Placed(b)
    BY <1>13 DEF Placed
  <2>2. \A b \in Work(r) : Placed(b)
    BY <1>1, <1>2, <1>3, <2>1 DEF Tree, Work
  <2> QED
    BY <1>1, <1>2, <2>2, SameTree
<1>16. Unique(r)
  <2>1. \A a, b \in new : a.node = b.node => a = b
    BY <1>9
  <2>2. ASSUME NEW a \in s.pending \ gone, NEW b \in new, a.node = b.node, a.group = b.group
        PROVE  FALSE
    <3>1. a.lineage = Root
      BY <1>13, <1>14, <2>2 DEF Work
    <3> QED
      BY <1>11, <1>13, <2>2, <3>1
  <2>3. ASSUME NEW t \in s.running, NEW b \in new, t.activation.node = b.node,
               t.activation.group = b.group
        PROVE  FALSE
    <3>1. t.activation \in Work(s)
      BY DEF Work, Activations
    <3>2. t.activation.lineage = Root
      BY <1>13, <1>14, <2>3, <3>1
    <3> QED
      BY <1>7, <1>13, <2>3, <3>2
  <2>4. \A a, b \in r.pending : a.node = b.node /\ a.group = b.group => a = b
    BY <1>1, <1>3, <2>1, <2>2 DEF Unique
  <2>5. \A a \in r.pending, t \in r.running :
          ~ (a.node = t.activation.node /\ a.group = t.activation.group)
    BY <1>1, <1>2, <1>3, <2>3 DEF Unique
  <2> QED
    BY <1>1, <1>2, <2>4, <2>5 DEF Unique
<1>17. Numbered(r)
  <2>1. \A b \in new : \E least \in gone : /\ b.sequence = least.sequence /\ least.node = b.node
                                           /\ least \in s.pending
    BY <1>9, <1>10, <1>12
  <2>2. \A a \in s.pending : a.sequence \in Nat /\ a.sequence <= s.sequence
    BY <1>1 DEF Good, IsState, IsActivation, Numbered
  <2>3. \A b \in r.pending : b.sequence <= r.sequence
    <3> SUFFICES ASSUME NEW b \in r.pending PROVE b.sequence <= r.sequence
      OBVIOUS
    <3>1. b.sequence \in Nat /\ b.sequence <= s.sequence
      BY <1>3, <2>1, <2>2
    <3> QED
      BY <1>3, <1>4, <3>1
  <2>4. ASSUME NEW a \in r.pending, NEW b \in r.pending, a.sequence = b.sequence
        PROVE  a = b
    <3>1. CASE a \in new /\ b \in new
      <4>1. a.node = b.node
        BY <1>1, <2>1, <2>4, <3>1 DEF Numbered
      <4> QED
        BY <1>9, <3>1, <4>1
    <3>2. CASE a \notin new /\ b \notin new
      BY <1>1, <1>3, <2>4, <3>2 DEF Numbered
    <3>3. ~ (a \in new /\ b \notin new) /\ ~ (a \notin new /\ b \in new)
      BY <1>1, <1>3, <2>1, <2>4 DEF Numbered
    <3> QED
      BY <3>1, <3>2, <3>3
  <2> QED
    BY <2>3, <2>4 DEF Numbered
<1>18. Latched(r) /\ Sourced(r, recorded)
  BY <1>1, <1>2 DEF Latched, Unlocked, Satisfied, Sourced
<1> QED
  BY <1>2, <1>15, <1>16, <1>17, <1>18 DEF Sound, r

(* The routes of a completed node are signals.                              *)
LEMMA RoutesSignal ==
  ASSUME NEW s, NEW a, IsActivation(s, a), Placed(a),
         NEW routes, routes \subseteq DOMAIN Node[a.node].routes
  PROVE  AreSignals(s, Signals(a, routes))
<1> DEFINE Signal(r) == [node |-> Node[a.node].routes[r].target, group |-> a.group,
                         lineage |-> a.lineage, loops |-> a.loops, order |-> <<0, 0, r>>]
           signals == Signals(a, routes)
           f == [r \in routes |-> Signal(r)]
<1>1. /\ a.node \in Nodes /\ a.lineage \in DOMAIN s.satisfied
      /\ \A id \in DOMAIN a.loops : a.loops[id] \in DOMAIN s.loops
  BY DEF IsActivation
<1>2. f \in [routes -> signals] /\ \A x \in signals : \E r \in routes : f[r] = x
  BY DEF Signals
<1>3. IsFiniteSet(routes) /\ \A r \in routes : Node[a.node].routes[r].target \in Nodes
  BY <1>1, RoutesFinite, FS_Subset
<1>4. routes \subseteq Nat
  <2>1. Node[a.node].routes \in Seq([target : Nodes,
                       mode : {"unconditional", "conditional", "otherwise"},
                       eligible : SUBSET {"success", "allowed_failure"}])
    BY <1>1, NodeAssumption DEF IsNode
  <2> QED
    BY <2>1
<1>5. IsFiniteSet(signals)
  <2> HIDE DEF f, signals
  <2> QED
    BY <1>2, <1>3, ImageFinite
<1>6. \A x \in signals : \E r \in routes :
        /\ x = Signal(r) /\ x.order = <<0, 0, r>> /\ x.node = Node[a.node].routes[r].target
        /\ x.group = a.group /\ x.lineage = a.lineage /\ x.loops = a.loops
  BY DEF Signals
<1> HIDE DEF signals, Signal
<1>7. \A x \in signals : IsSignal(s, x) /\ Placed(x)
  BY <1>1, <1>3, <1>6 DEF IsSignal, Placed
<1>8. \A x \in signals : x.order \in Place
  <2>1. \A r \in routes : <<0, 0, r>> \in Place
    BY <1>4 DEF Place
  <2> QED
    BY <1>6, <2>1
<1>9. \A x, y \in signals : x.order = y.order => x = y
  <2> SUFFICES ASSUME NEW x \in signals, NEW y \in signals, x.order = y.order PROVE x = y
    OBVIOUS
  <2>1. PICK r \in routes : x = Signal(r) /\ x.order = <<0, 0, r>>
    BY <1>6
  <2>2. PICK q \in routes : y = Signal(q) /\ y.order = <<0, 0, q>>
    BY <1>6
  <2>3. r = q
    BY <2>1, <2>2
  <2> QED
    BY <2>1, <2>2, <2>3
<1> QED
  BY <1>5, <1>7, <1>8, <1>9 DEF AreSignals, Ordered, signals

(* Advancing from a completed node keeps a state sound and settles it.      *)
LEMMA AdvanceSound ==
  ASSUME NEW s, NEW recorded, Sound(s, recorded), NEW a, IsActivation(s, a), Placed(a),
         Completed(recorded, a.node, a.lineage),
         NEW routes, routes \subseteq DOMAIN Node[a.node].routes
  PROVE  LET r == Advance(s, a, routes)
         IN  Sound(r, recorded) /\ r.running = s.running /\ Settled(r)
<1> DEFINE latched == Satisfy(s, a.lineage, a.node)
           unlocked == {n \in Nodes : /\ ~ Unlocked(s, n, a.lineage)
                                     /\ Unlocked(latched, n, a.lineage)}
           routed == Enqueue(latched, Signals(a, routes))
           merged == MergeLockedSignals(routed, a.lineage, unlocked)
           r == Advance(s, a, routes)
<1>1. r = SettleLoops(merged)
  BY DEF Advance
<1>2. a.node \in Nodes /\ a.lineage \in DOMAIN s.satisfied
  BY DEF IsActivation
<1>3. /\ Sound(latched, recorded)
      /\ latched.running = s.running /\ latched.loops = s.loops
      /\ DOMAIN latched.satisfied = DOMAIN s.satisfied
  BY <1>2, SatisfySound
<1>4. \A n \in unlocked : \A t \in s.running :
        ~ (t.activation.node = n /\ t.activation.lineage = a.lineage)
  BY DEF Sound, Latched
<1>5. unlocked \in SUBSET Nodes
  OBVIOUS
<1> HIDE DEF latched, unlocked, r
<1>6. IsActivation(latched, a)
  BY <1>3 DEF IsActivation
<1>7. AreSignals(latched, Signals(a, routes))
  BY <1>6, RoutesSignal
<1>8. /\ Sound(routed, recorded) /\ routed.running = latched.running
      /\ routed.satisfied = latched.satisfied
  BY <1>3, <1>7, EnqueueSound
<1> HIDE DEF routed
<1>9. Sound(merged, recorded) /\ merged.running = routed.running
  BY <1>2, <1>3, <1>4, <1>5, <1>8, MergeSound
<1> HIDE DEF merged
<1>10. Sound(r, recorded) /\ Grows(merged, r) /\ Settled(r)
  BY <1>1, <1>9, SettleSound
<1> QED
  BY <1>3, <1>8, <1>9, <1>10 DEF Grows, r

(* What a loop or a break does keeps a state sound, and settles it.         *)
LEMMA ControlSound ==
  ASSUME NEW s, NEW recorded, Sound(s, recorded), NEW c, NEW routes,
         Handled(s, recorded, c, routes), NewLineage(c) \notin DOMAIN s.loops, ~ Spins(c, routes)
  PROVE  LET r == Control(s, c, routes)
             a == c.task.activation
         IN  /\ Sound(r, recorded) /\ r.running = s.running
             /\ IsActivation(r, a)
             /\ Node[a.node].type \in {"loop", "break"} => Settled(r)
<1> DEFINE a == c.task.activation
           r == Control(s, c, routes)
<1>1. /\ IsActivation(s, a) /\ a.node \in Nodes /\ a.lineage \in DOMAIN s.satisfied
      /\ Completed(recorded, a.node, a.lineage)
  <2>1. a.lineage \in Around(a.lineage)
    BY DEF Around
  <2> QED
    BY <2>1 DEF Handled, IsActivation, IsRecordOf, Completed
<1>2. CASE Node[a.node].type = "loop"
  <2> DEFINE latched == Satisfy(s, a.lineage, a.node)
             opened == OpenLoop(latched, c, routes)
  <2>1. r = SettleLoops(opened)
    BY <1>2 DEF Control
  <2>2. /\ Sound(latched, recorded) /\ latched.running = s.running /\ latched.loops = s.loops
        /\ DOMAIN latched.satisfied = DOMAIN s.satisfied
    BY <1>1, SatisfySound
  <2> HIDE DEF latched
  <2>3. Handled(latched, recorded, c, routes) /\ NewLineage(c) \notin DOMAIN latched.loops
    BY <2>2 DEF Handled, IsActivation
  <2>4. /\ Sound(opened, recorded) /\ opened.running = latched.running
        /\ DOMAIN latched.satisfied \subseteq DOMAIN opened.satisfied
        /\ DOMAIN latched.loops \subseteq DOMAIN opened.loops
    BY <1>2, <2>2, <2>3, OpenSound
  <2> HIDE DEF opened
  <2>5. Sound(r, recorded) /\ Grows(opened, r) /\ Settled(r)
    BY <2>1, <2>4, SettleSound
  <2>6. IsActivation(r, a)
    BY <1>1, <2>2, <2>4, <2>5 DEF IsActivation, Grows
  <2> QED
    BY <2>2, <2>4, <2>5, <2>6 DEF Grows
<1>3. CASE Node[a.node].type = "break"
  <2> DEFINE closed == CloseLoop(s, a)
  <2>1. r = SettleLoops(closed)
    BY <1>3 DEF Control
  <2>2. /\ Sound(closed, recorded) /\ closed.running = s.running
        /\ closed.satisfied = s.satisfied /\ DOMAIN closed.loops = DOMAIN s.loops
    BY <1>1, CloseSound
  <2> HIDE DEF closed
  <2>3. Sound(r, recorded) /\ Grows(closed, r) /\ Settled(r)
    BY <2>1, <2>2, SettleSound
  <2>4. IsActivation(r, a)
    BY <1>1, <2>2, <2>3 DEF IsActivation, Grows
  <2> QED
    BY <2>2, <2>3, <2>4 DEF Grows
<1>4. CASE Node[a.node].type \notin {"loop", "break"}
  <2>1. r = s
    BY <1>4 DEF Control
  <2> QED
    BY <1>1, <1>4, <2>1
<1> QED
  BY <1>2, <1>3, <1>4

(***************************************************************************)
(* Starting runs.                                                           *)
(***************************************************************************)

(* Tasks that start get numbers of their own, above those already given.    *)
LEMMA TasksNumbered ==
  ASSUME NEW started, IsFiniteSet(started),
         \A a \in started : a.node \in Nodes /\ a.sequence \in Nat,
         \A a, b \in started : a.sequence = b.sequence => a = b,
         runCounts \in [Nodes -> Nat]
  PROVE  LET tasks == {Task(a, started) : a \in started}
         IN  /\ IsFiniteSet(tasks) /\ Cardinality(tasks) = Cardinality(started)
             /\ \A n \in Nodes : Cardinality(OfNode(tasks, n)) = Cardinality(At(started, n))
             /\ \A a \in started : Task(a, started).run > runCounts[a.node]
             /\ \A a, b \in started :
                  a.node = b.node /\ Task(a, started).run = Task(b, started).run => a = b
<1> DEFINE tasks == {Task(a, started) : a \in started}
           upto(a) == {b \in At(started, a.node) : b.sequence <= a.sequence}
<1>1. \A a \in started : /\ Task(a, started).activation = a
                         /\ Task(a, started).run = runCounts[a.node] + Cardinality(upto(a))
  BY DEF Task
<1>2. \A a \in started : IsFiniteSet(upto(a)) /\ Cardinality(upto(a)) \in Nat /\ a \in upto(a)
  <2> SUFFICES ASSUME NEW a \in started
               PROVE  IsFiniteSet(upto(a)) /\ Cardinality(upto(a)) \in Nat /\ a \in upto(a)
    OBVIOUS
  <2>1. upto(a) \subseteq started /\ a \in upto(a)
    BY DEF At
  <2> HIDE DEF upto
  <2> QED
    BY <2>1, FS_Subset, FS_CardinalityType
<1>3. \A a \in started : Task(a, started).run > runCounts[a.node]
  <2> SUFFICES ASSUME NEW a \in started PROVE Task(a, started).run > runCounts[a.node]
    OBVIOUS
  <2> HIDE DEF upto
  <2>1. Cardinality(upto(a)) # 0 /\ Cardinality(upto(a)) \in Nat
    BY <1>2, FS_EmptySet
  <2>2. runCounts[a.node] \in Nat
    OBVIOUS
  <2> QED
    BY <1>1, <2>1, <2>2
<1>4. ASSUME NEW a \in started, NEW b \in started, a.node = b.node, a.sequence < b.sequence
      PROVE  Task(a, started).run # Task(b, started).run
  <2>1. upto(a) \subseteq upto(b) /\ b \in upto(b) /\ b \notin upto(a)
    BY <1>4 DEF At
  <2>2. runCounts[a.node] \in Nat
    OBVIOUS
  <2> HIDE DEF upto
  <2>3. Cardinality(upto(a)) # Cardinality(upto(b))
    BY <1>2, <2>1, FS_Subset
  <2> QED
    BY <1>1, <1>2, <1>4, <2>2, <2>3
<1>5. \A a, b \in started :
        a.node = b.node /\ Task(a, started).run = Task(b, started).run => a = b
  <2> SUFFICES ASSUME NEW a \in started, NEW b \in started, a.node = b.node,
                      Task(a, started).run = Task(b, started).run, a # b
               PROVE  FALSE
    OBVIOUS
  <2>1. a.sequence < b.sequence \/ b.sequence < a.sequence
    OBVIOUS
  <2> HIDE DEF upto, tasks
  <2> QED
    BY <1>4, <2>1
<1> HIDE DEF upto
<1>6. ASSUME NEW W \in SUBSET started, NEW T, T = {Task(a, started) : a \in W}
      PROVE  IsFiniteSet(T) /\ Cardinality(T) = Cardinality(W)
  <2> DEFINE f == [a \in W |-> Task(a, started)]
  <2>1. f \in [W -> T] /\ \A t \in T : \E a \in W : f[a] = t
    BY <1>6
  <2>2. \A a, b \in W : f[a] = f[b] => a = b
    BY <1>1
  <2> HIDE DEF f
  <2>3. f \in Bijection(W, T)
    BY <2>1, <2>2 DEF Bijection, Injection, Surjection, IsInjective
  <2>4. ExistsBijection(W, T)
    BY <2>3 DEF ExistsBijection
  <2>5. IsFiniteSet(W)
    BY FS_Subset
  <2> QED
    BY <2>4, <2>5, FS_Bijection
<1>7. IsFiniteSet(tasks) /\ Cardinality(tasks) = Cardinality(started)
  BY <1>6
<1>8. \A n \in Nodes : Cardinality(OfNode(tasks, n)) = Cardinality(At(started, n))
  <2> SUFFICES ASSUME NEW n \in Nodes
               PROVE  Cardinality(OfNode(tasks, n)) = Cardinality(At(started, n))
    OBVIOUS
  <2>1. OfNode(tasks, n) = {Task(a, started) : a \in At(started, n)}
    BY <1>1 DEF OfNode, At
  <2>2. At(started, n) \in SUBSET started
    BY DEF At
  <2> HIDE DEF tasks
  <2> QED
    BY <1>6, <2>1, <2>2
<1> QED
  BY <1>3, <1>5, <1>7, <1>8

(* Starting runs keeps the state sound and every run accounted for, and     *)
(* leaves nothing waiting that could start.                                 *)
LEMMA StartSound ==
  ASSUME NEW s, NEW recorded, Countable(s), Sound(s, recorded), Settled(s),
         Distinct(s.running, recorded, runCounts),
         Balanced(s.running, recorded, runCounts, totalRuns), StartRunnable(s)
  PROVE  /\ Sound(State', recorded)
         /\ Settled(State')
         /\ Distinct(running', recorded, runCounts')
         /\ Balanced(running', recorded, runCounts', totalRuns')
         /\ WorkConserving'
         /\ phase' \in {"running", "cancelling"}
         /\ \E started : running' = s.running \cup {Task(a, started) : a \in started}
<1>1. PICK chosen, started :
        /\ chosen \in SUBSET Runnable(s)
        /\ started \in SUBSET chosen
        /\ AreCandidates(s, chosen)
        /\ AreAdmitted(chosen, started)
        /\ pending'   = s.pending \ started
        /\ running'   = s.running \cup {Task(a, started) : a \in started}
        /\ satisfied' = s.satisfied
        /\ loops'     = s.loops
        /\ sequence'  = s.sequence
        /\ runCounts' = [n \in Nodes |-> runCounts[n] + Cardinality(At(started, n))]
        /\ totalRuns' = totalRuns + Cardinality(started)
        /\ phase'     = IF started = chosen THEN "running" ELSE "cancelling"
        /\ error'     = IF started = chosen THEN "none" ELSE "run_limit"
  BY DEF StartRunnable
<1> DEFINE tasks == {Task(a, started) : a \in started}
           r == State'
<1>2. Good(s) /\ Tree(s) /\ Numbered(s) /\ Unique(s) /\ Latched(s) /\ Sourced(s, recorded)
  BY DEF Sound
<1>3. /\ started \subseteq s.pending
      /\ \A a \in started : Unlocked(s, a.node, a.lineage)
  BY <1>1 DEF Runnable
<1>4. IsFiniteSet(started) /\ Cardinality(started) \in Nat
  BY <1>2, <1>3, FS_Subset, FS_CardinalityType DEF Good, IsState
<1>5. \A a \in started : a.node \in Nodes /\ a.sequence \in Nat
  BY <1>2, <1>3 DEF Good, IsState, IsActivation
<1>6. \A a, b \in started : a.sequence = b.sequence => a = b
  BY <1>2, <1>3 DEF Numbered
<1>7. runCounts \in [Nodes -> Nat] /\ totalRuns \in Nat
  BY DEF Countable
<1>8. /\ IsFiniteSet(tasks) /\ Cardinality(tasks) = Cardinality(started)
      /\ \A n \in Nodes : Cardinality(OfNode(tasks, n)) = Cardinality(At(started, n))
      /\ \A a \in started : Task(a, started).run > runCounts[a.node]
      /\ \A a, b \in started :
           a.node = b.node /\ Task(a, started).run = Task(b, started).run => a = b
  BY <1>4, <1>5, <1>6, <1>7, TasksNumbered
<1>9. \A t \in tasks : \E a \in started : t = Task(a, started) /\ t.activation = a
  BY DEF Task
<1>10. Activations(tasks) = started
  <2>1. \A a \in started : Task(a, started).activation = a
    BY DEF Task
  <2> QED
    BY <2>1 DEF Activations
<1>11. /\ Charged(tasks, runCounts') /\ runCounts' \in [Nodes -> Nat] /\ IsState(State')
  <2>1. IsState(State') /\ Charged(running', runCounts') /\ runCounts' \in [Nodes -> Nat]
    BY StartGood
  <2> QED
    BY <1>1, <2>1 DEF Charged
<1>12. running' = s.running \cup tasks
  BY <1>1
<1> HIDE DEF tasks
<1>13. /\ r.pending = s.pending \ started /\ r.running = s.running \cup tasks
       /\ r.satisfied = s.satisfied /\ r.loops = s.loops /\ r.sequence = s.sequence
       /\ IsRecord(r)
  BY <1>1, <1>12 DEF State, IsRecord
<1>14. Good(r)
  BY <1>11, <1>13 DEF Good
<1> HIDE DEF r
<1>15. Work(r) = Work(s)
  BY <1>3, <1>10, <1>13 DEF Work, Activations
<1>16. Sound(r, recorded)
  <2>1. Tree(r)
    <3>1. \A a \in Work(r) : Placed(a)
      BY <1>2, <1>15 DEF Tree
    <3> QED
      BY <1>2, <1>13, <3>1, SameTree
  <2>2. Numbered(r)
    BY <1>2, <1>13 DEF Numbered
  <2>3. Unique(r)
    <3>1. \A a, b \in r.pending : a.node = b.node /\ a.group = b.group => a = b
      BY <1>2, <1>13 DEF Unique
    <3>2. ASSUME NEW t \in r.running, NEW u \in r.running,
                 t.activation.node = u.activation.node, t.activation.group = u.activation.group
          PROVE  t = u
      <4>1. CASE t \in s.running /\ u \in s.running
        BY <1>2, <3>2, <4>1 DEF Unique
      <4>2. CASE t \in tasks /\ u \in tasks
        <5>1. t.activation \in s.pending /\ u.activation \in s.pending
          BY <1>3, <1>9, <4>2
        <5>2. t.activation = u.activation
          BY <1>2, <3>2, <5>1 DEF Unique
        <5> QED
          BY <1>9, <4>2, <5>2
      <4>3. ~ (t \in s.running /\ u \in tasks) /\ ~ (t \in tasks /\ u \in s.running)
        BY <1>2, <1>3, <1>9, <3>2 DEF Unique
      <4> QED
        BY <1>13, <4>1, <4>2, <4>3
    <3>3. ASSUME NEW a \in r.pending, NEW t \in r.running,
                 a.node = t.activation.node, a.group = t.activation.group
          PROVE  FALSE
      <4>1. CASE t \in s.running
        BY <1>2, <1>13, <3>3, <4>1 DEF Unique
      <4>2. CASE t \in tasks
        <5>1. t.activation \in started /\ a \in s.pending /\ a \notin started
          BY <1>9, <1>13, <4>2
        <5> QED
          BY <1>2, <1>3, <3>3, <5>1 DEF Unique
      <4> QED
        BY <1>13, <4>1, <4>2
    <3> QED
      BY <3>1, <3>2, <3>3 DEF Unique
  <2>4. Latched(r)
    <3>1. \A t \in tasks : Unlocked(s, t.activation.node, t.activation.lineage)
      BY <1>3, <1>9
    <3> QED
      BY <1>2, <1>13, <3>1 DEF Latched, Unlocked, Satisfied
  <2>5. Sourced(r, recorded)
    BY <1>2, <1>13 DEF Sourced
  <2> QED
    BY <1>14, <2>1, <2>2, <2>3, <2>4, <2>5 DEF Sound
<1>17. Settled(r)
  BY <1>13, <1>15 DEF Settled, Full, Live
<1>18. \A t \in s.running : t.activation.node \in Nodes /\ t.run \in 1 .. runCounts[t.activation.node]
  BY <1>2 DEF Countable, Charged, Good, IsState, IsActivation, Activations
<1>19. \A t \in tasks : /\ t.activation.node \in Nodes
                        /\ t.run > runCounts[t.activation.node]
                        /\ t.run \in 1 .. runCounts'[t.activation.node]
  BY <1>5, <1>8, <1>9, <1>11 DEF Charged
<1>20. \A t \in s.running, u \in tasks : ~ (t.activation.node = u.activation.node /\ t.run = u.run)
  <2> SUFFICES ASSUME NEW t \in s.running, NEW u \in tasks,
                      t.activation.node = u.activation.node, t.run = u.run
               PROVE  FALSE
    OBVIOUS
  <2>1. runCounts[t.activation.node] \in Nat
    BY <1>7, <1>18
  <2> QED
    BY <1>18, <1>19, <2>1
<1>21. \A n \in Nodes : /\ Cardinality(At(started, n)) \in Nat
                        /\ runCounts'[n] = runCounts[n] + Cardinality(At(started, n))
                        /\ IsFiniteSet(OfNode(tasks, n)) /\ IsFiniteSet(OfNode(s.running, n))
                        /\ OfNode(s.running, n) \cap OfNode(tasks, n) = {}
                        /\ OfNode(running', n) = OfNode(s.running, n) \cup OfNode(tasks, n)
  <2> SUFFICES ASSUME NEW n \in Nodes
               PROVE  /\ Cardinality(At(started, n)) \in Nat
                      /\ runCounts'[n] = runCounts[n] + Cardinality(At(started, n))
                      /\ IsFiniteSet(OfNode(tasks, n)) /\ IsFiniteSet(OfNode(s.running, n))
                      /\ OfNode(s.running, n) \cap OfNode(tasks, n) = {}
                      /\ OfNode(running', n) = OfNode(s.running, n) \cup OfNode(tasks, n)
    OBVIOUS
  <2>1. /\ At(started, n) \subseteq started /\ OfNode(tasks, n) \subseteq tasks
        /\ OfNode(s.running, n) \subseteq s.running
    BY DEF At, OfNode
  <2>2. IsFiniteSet(s.running)
    BY <1>2 DEF Good, IsState
  <2>3. Cardinality(At(started, n)) \in Nat /\ IsFiniteSet(OfNode(tasks, n))
        /\ IsFiniteSet(OfNode(s.running, n))
    BY <1>4, <1>8, <2>1, <2>2, FS_Subset, FS_CardinalityType
  <2>4. OfNode(s.running, n) \cap OfNode(tasks, n) = {}
    BY <1>20 DEF OfNode
  <2>5. OfNode(running', n) = OfNode(s.running, n) \cup OfNode(tasks, n)
    BY <1>12 DEF OfNode
  <2> QED
    BY <1>1, <2>3, <2>4, <2>5
<1>22. \A n \in Nodes :
         /\ Cardinality(OfNode(s.running, n)) \in Nat
         /\ Cardinality(OfNode(running', n))
              = Cardinality(OfNode(s.running, n)) + Cardinality(At(started, n))
  <2> SUFFICES ASSUME NEW n \in Nodes
               PROVE  /\ Cardinality(OfNode(s.running, n)) \in Nat
                      /\ Cardinality(OfNode(running', n))
                           = Cardinality(OfNode(s.running, n)) + Cardinality(At(started, n))
    OBVIOUS
  <2>1. Cardinality(OfNode(s.running, n) \cup OfNode(tasks, n))
          = Cardinality(OfNode(s.running, n)) + Cardinality(OfNode(tasks, n))
            - Cardinality(OfNode(s.running, n) \cap OfNode(tasks, n))
    BY <1>21, FS_Union
  <2>2. Cardinality(OfNode(s.running, n) \cap OfNode(tasks, n)) = 0
    BY <1>21, FS_EmptySet
  <2>3. Cardinality(OfNode(s.running, n)) \in Nat /\ Cardinality(At(started, n)) \in Nat
    BY <1>21, FS_CardinalityType
  <2>4. Cardinality(OfNode(tasks, n)) = Cardinality(At(started, n))
    BY <1>8
  <2>5. OfNode(running', n) = OfNode(s.running, n) \cup OfNode(tasks, n)
    BY <1>21
  <2> QED
    BY <2>1, <2>2, <2>3, <2>4, <2>5
<1>23. Distinct(running', recorded, runCounts')
  <2>1. IsFiniteSet(recorded)
    BY DEF Distinct
  <2>2. ASSUME NEW t \in running', NEW u \in running',
               t.activation.node = u.activation.node, t.run = u.run
        PROVE  t = u
    <3>1. CASE t \in s.running /\ u \in s.running
      BY <2>2, <3>1 DEF Distinct
    <3>2. CASE t \in tasks /\ u \in tasks
      BY <1>8, <1>9, <2>2, <3>2
    <3> QED
      BY <1>12, <1>20, <2>2, <3>1, <3>2
  <2>3. ASSUME NEW q \in recorded
        PROVE  q.node \in Nodes /\ q.run \in 1 .. runCounts[q.node]
               /\ q.run \in 1 .. runCounts'[q.node]
    <3>1. q.node \in Nodes /\ q.run \in 1 .. runCounts[q.node]
      BY DEF Distinct
    <3>2. runCounts[q.node] \in Nat /\ runCounts'[q.node] \in Nat
          /\ runCounts[q.node] <= runCounts'[q.node]
      BY <1>7, <1>11, <1>21, <3>1
    <3> QED
      BY <3>1, <3>2
  <2>4. ASSUME NEW t \in running', NEW q \in recorded, q.node = t.activation.node
        PROVE  q.run # t.run
    <3>1. CASE t \in s.running
      BY <2>4, <3>1 DEF Distinct
    <3>2. CASE t \in tasks
      <4>1. runCounts[q.node] \in Nat
        BY <1>7, <2>3
      <4> QED
        BY <1>19, <2>3, <2>4, <3>2, <4>1
    <3> QED
      BY <1>12, <3>1, <3>2
  <2> QED
    BY <2>1, <2>2, <2>3, <2>4 DEF Distinct
<1>24. Balanced(running', recorded, runCounts', totalRuns')
  <2>1. Cardinality(running') = Cardinality(s.running) + Cardinality(started)
    <3>1. IsFiniteSet(s.running) /\ Cardinality(s.running) \in Nat
      BY <1>2, FS_CardinalityType DEF Good, IsState
    <3>2. s.running \cap tasks = {}
      BY <1>20
    <3>3. Cardinality(s.running \cap tasks) = 0
      BY <3>2, FS_EmptySet
    <3>4. Cardinality(s.running \cup tasks)
            = Cardinality(s.running) + Cardinality(tasks) - Cardinality(s.running \cap tasks)
      BY <1>8, <3>1, FS_Union
    <3> QED
      BY <1>4, <1>8, <1>12, <3>1, <3>3, <3>4
  <2>2. Cardinality(recorded) \in Nat /\ Cardinality(s.running) \in Nat
    BY <1>2, FS_CardinalityType DEF Distinct, Good, IsState
  <2>3. totalRuns' = Cardinality(running') + Cardinality(recorded)
    BY <1>1, <1>4, <2>1, <2>2 DEF Balanced
  <2>4. ASSUME NEW n \in Nodes
        PROVE  runCounts'[n] = Cardinality(OfNode(running', n)) + Cardinality(RecordsOf(recorded, n))
    <3>1. runCounts[n] = Cardinality(OfNode(s.running, n)) + Cardinality(RecordsOf(recorded, n))
      BY DEF Balanced
    <3>2. Cardinality(RecordsOf(recorded, n)) \in Nat
      BY FS_Subset, FS_CardinalityType DEF RecordsOf, Distinct
    <3> QED
      BY <1>21, <1>22, <3>1, <3>2
  <2> QED
    BY <2>3, <2>4 DEF Balanced
<1>25. WorkConserving'
  <2> SUFFICES ASSUME phase' = "running", NEW a \in pending',
                      Node[a.node].needs \subseteq satisfied'[a.lineage]
               PROVE  Cardinality({t \in running' : t.activation.node = a.node})
                        >= Node[a.node].max_concurrency
    BY DEF WorkConserving
  <2> DEFINE n == a.node
             queue == At(Runnable(s), n)
             limit == Node[n].max_concurrency
  <2>1. started = chosen
    BY <1>1
  <2>2. a \in s.pending /\ a \notin chosen /\ n \in Nodes /\ a.lineage \in DOMAIN s.satisfied
    BY <1>1, <1>2, <2>1 DEF Good, IsState, IsActivation
  <2>3. a \in queue /\ a \notin At(chosen, n)
    BY <1>1, <2>2 DEF At, Runnable, Unlocked, Satisfied
  <2>4. At(chosen, n) \subseteq queue /\ queue \subseteq s.pending
    BY <1>1 DEF At, Runnable
  <2>5. limit \in Nat
    BY <2>2, NodeAssumption DEF IsNode
  <2>6. Cardinality(At(chosen, n)) = IF Cardinality(queue) <= Capacity(s, n)
                                     THEN Cardinality(queue) ELSE Capacity(s, n)
    BY <1>1, <2>2 DEF AreCandidates
  <2>7. Capacity(s, n) = limit - Cardinality(OfNode(s.running, n))
    BY DEF Capacity, OfNode
  <2> HIDE DEF queue, limit, n
  <2>8. IsFiniteSet(queue)
    BY <1>2, <2>4, FS_Subset DEF Good, IsState
  <2>9. Cardinality(At(chosen, n)) # Cardinality(queue)
    BY <2>3, <2>4, <2>8, FS_Subset
  <2>10. Cardinality(At(chosen, n)) = limit - Cardinality(OfNode(s.running, n))
    BY <2>6, <2>7, <2>9
  <2>11. Cardinality(OfNode(running', n)) = limit
    BY <1>22, <2>1, <2>2, <2>5, <2>10
  <2> QED
    BY <2>5, <2>11 DEF OfNode, n, limit
<1> QED
  BY <1>1, <1>16, <1>17, <1>23, <1>24, <1>25 DEF r


(***************************************************************************)
(* The stream of completions.                                               *)
(***************************************************************************)

(* Completions of different tasks are no more than the tasks.               *)
LEMMA StreamFits ==
  ASSUME NEW C, NEW stream \in Seq(C), NEW tasks, IsFiniteSet(tasks), Fits(tasks),
         \A i \in DOMAIN stream : stream[i].task \in tasks,
         \A i, j \in DOMAIN stream : stream[i].task = stream[j].task => i = j,
         NEW n \in Nodes
  PROVE  Cardinality({i \in DOMAIN stream : stream[i].task.activation.node = n})
           <= Node[n].max_concurrency
<1> DEFINE I == {i \in DOMAIN stream : stream[i].task.activation.node = n}
           T == OfNode(tasks, n)
           f == [i \in I |-> stream[i].task]
<1>1. IsFiniteSet(T) /\ Cardinality(T) \in Nat /\ Cardinality(T) <= Node[n].max_concurrency
  BY FS_Subset, FS_CardinalityType DEF OfNode, Fits
<1>2. f \in Injection(I, T)
  BY DEF OfNode, Injection, IsInjective
<1> HIDE DEF f, T, I
<1>3. IsFiniteSet(I) /\ Cardinality(I) \in Nat /\ Cardinality(I) <= Cardinality(T)
  BY <1>1, <1>2, FS_Injection, FS_CardinalityType
<1>4. Node[n].max_concurrency \in Nat
  BY NodeAssumption DEF IsNode
<1> QED
  BY <1>1, <1>3, <1>4 DEF I

(* Whatever a step does to the tasks, while those that sent a completion    *)
(* still count their completions fit.                                       *)
LEMMA CompletionsFitNext ==
  ASSUME Inv', \A i \in DOMAIN completions' : completions'[i].task \in running'
  PROVE  CompletionsFit'
<1>1. /\ completions' \in Seq({completions'[i] : i \in DOMAIN completions'})
      /\ \A i, j \in DOMAIN completions' : completions'[i].task = completions'[j].task => i = j
  BY DEF Inv, CompletionsOnce
<1>2. IsFiniteSet(running') /\ Fits(running')
  BY DEF Inv, TypeOK, IsState, State, CapacityRespected, Fits, OfNode
<1>3. ASSUME NEW n \in Nodes
      PROVE  Cardinality({i \in DOMAIN completions' : completions'[i].task.activation.node = n})
               <= Node[n].max_concurrency
  BY <1>1, <1>2, StreamFits
<1> QED
  BY <1>3 DEF CompletionsFit

(***************************************************************************)
(* Receiving a completion.                                                  *)
(***************************************************************************)

(* A set that loses one member and gains another keeps its size.            *)
LEMMA Exchanged ==
  ASSUME NEW S, IsFiniteSet(S), NEW x \in S, NEW y, y \notin S
  PROVE  IsFiniteSet((S \ {x}) \cup {y}) /\ Cardinality((S \ {x}) \cup {y}) = Cardinality(S)
<1>1. IsFiniteSet(S \ {x}) /\ Cardinality(S \ {x}) = Cardinality(S) - 1
  BY FS_RemoveElement
<1>2. Cardinality((S \ {x}) \cup {y}) = Cardinality(S \ {x}) + 1
  BY <1>1, FS_AddElement
<1>3. Cardinality(S) \in Nat /\ IsFiniteSet((S \ {x}) \cup {y})
  BY <1>1, FS_CardinalityType, FS_AddElement
<1> QED
  BY <1>1, <1>2, <1>3

(* What a completion leaves: the run it ends is recorded, under a number    *)
(* that no record had, and every other run still counts.                    *)
RecordOf(c) ==
  [node |-> c.task.activation.node, run |-> c.task.run, group |-> c.task.activation.group,
   lineage |-> c.task.activation.lineage, outcome |-> c.outcome]

LEMMA RecordedDistinct ==
  ASSUME NEW tasks, NEW recorded, NEW counts, NEW total, IsFiniteSet(tasks),
         Distinct(tasks, recorded, counts), Balanced(tasks, recorded, counts, total),
         counts \in [Nodes -> Nat],
         NEW c, c.task \in tasks, c.task.activation.node \in Nodes,
         c.task.run \in 1 .. counts[c.task.activation.node]
  PROVE  /\ Distinct(tasks \ {c.task}, recorded \cup {RecordOf(c)}, counts)
         /\ Balanced(tasks \ {c.task}, recorded \cup {RecordOf(c)}, counts, total)
<1> DEFINE t == c.task
           rec == RecordOf(c)
           m == t.activation.node
<1>1. rec.node = m /\ rec.run = t.run
  BY DEF RecordOf
<1> HIDE DEF rec
<1>2. \A r \in recorded : r.node = rec.node => r.run # rec.run
  BY <1>1 DEF Distinct
<1>3. rec \notin recorded
  BY <1>2
<1>4. Distinct(tasks \ {t}, recorded \cup {rec}, counts)
  <2>1. IsFiniteSet(recorded \cup {rec})
    BY FS_AddElement DEF Distinct
  <2>2. \A u \in tasks \ {t} : u.activation.node = rec.node => rec.run # u.run
    BY <1>1 DEF Distinct
  <2> QED
    BY <1>1, <2>1, <2>2 DEF Distinct
<1>5. Balanced(tasks \ {t}, recorded \cup {rec}, counts, total)
  <2>1. /\ Cardinality(tasks \ {t}) = Cardinality(tasks) - 1
        /\ Cardinality(recorded \cup {rec}) = Cardinality(recorded) + 1
        /\ Cardinality(tasks) \in Nat /\ Cardinality(recorded) \in Nat
    BY <1>3, FS_RemoveElement, FS_AddElement, FS_CardinalityType DEF Distinct
  <2>2. total = Cardinality(tasks \ {t}) + Cardinality(recorded \cup {rec})
    BY <2>1 DEF Balanced
  <2>3. ASSUME NEW n \in Nodes
        PROVE  counts[n] = Cardinality(OfNode(tasks \ {t}, n))
                           + Cardinality(RecordsOf(recorded \cup {rec}, n))
    <3>1. counts[n] = Cardinality(OfNode(tasks, n)) + Cardinality(RecordsOf(recorded, n))
      BY DEF Balanced
    <3>2. CASE n # m
      <4>1. OfNode(tasks \ {t}, n) = OfNode(tasks, n)
        BY <3>2 DEF OfNode
      <4>2. RecordsOf(recorded \cup {rec}, n) = RecordsOf(recorded, n)
        BY <1>1, <3>2 DEF RecordsOf
      <4> QED
        BY <3>1, <4>1, <4>2
    <3>3. CASE n = m
      <4>1. OfNode(tasks \ {t}, n) = OfNode(tasks, n) \ {t} /\ t \in OfNode(tasks, n)
        BY <3>3 DEF OfNode
      <4>2. RecordsOf(recorded \cup {rec}, n) = RecordsOf(recorded, n) \cup {rec}
            /\ rec \notin RecordsOf(recorded, n)
        BY <1>1, <1>3, <3>3 DEF RecordsOf
      <4>3. IsFiniteSet(OfNode(tasks, n)) /\ IsFiniteSet(RecordsOf(recorded, n))
        BY FS_Subset DEF OfNode, RecordsOf, Distinct
      <4>4. Cardinality(OfNode(tasks, n)) \in Nat /\ Cardinality(RecordsOf(recorded, n)) \in Nat
        BY <4>3, FS_CardinalityType
      <4>5. Cardinality(OfNode(tasks, n) \ {t}) = Cardinality(OfNode(tasks, n)) - 1
        BY <4>1, <4>3, FS_RemoveElement
      <4>6. Cardinality(RecordsOf(recorded, n) \cup {rec}) = Cardinality(RecordsOf(recorded, n)) + 1
        BY <4>2, <4>3, FS_AddElement
      <4>7. Cardinality(OfNode(tasks \ {t}, n)) = Cardinality(OfNode(tasks, n)) - 1
        BY <4>1, <4>5
      <4>8. Cardinality(RecordsOf(recorded \cup {rec}, n)) = Cardinality(RecordsOf(recorded, n)) + 1
        BY <4>2, <4>6
      <4> QED
        BY <3>1, <4>4, <4>7, <4>8
    <3> QED
      BY <3>2, <3>3
  <2> QED
    BY <2>2, <2>3 DEF Balanced
<1> QED
  BY <1>4, <1>5 DEF rec

(* Everything a handler of a completion finds when it is called.            *)
LEMMA ReceiveSound ==
  ASSUME RunInv, Receive
  PROVE  LET c == Head(completions)
             s == Received(c)
         IN  /\ Countable(s) /\ s.running = running \ {c.task} /\ c.task \in running
             /\ records' = records \cup {RecordOf(c)}
             /\ Sound(s, records')
             /\ Distinct(s.running, records', runCounts)
             /\ Balanced(s.running, records', runCounts, totalRuns)
             /\ Placed(c.task.activation)
             /\ NewLineage(c) \notin DOMAIN s.loops
             /\ \A routes : /\ c.outcome # "failure"
                            /\ routes \subseteq DOMAIN Node[c.task.activation.node].routes
                            => Handled(s, records', c, routes)
             /\ \A i \in DOMAIN completions' : completions'[i].task \in s.running
<1> DEFINE c == Head(completions)
           s == Received(c)
           a == c.task.activation
<1>1. /\ Inv /\ Sound(State, records) /\ Distinct(running, records, runCounts)
      /\ Balanced(running, records, runCounts, totalRuns)
  BY DEF RunInv, Receive
<1>2. /\ Countable(s) /\ s.running = running \ {c.task} /\ IsActivation(s, a)
      /\ c.items \in Nat
      /\ \A i \in DOMAIN completions' : completions'[i].task \in s.running
  BY <1>1, ReceiveGood
<1>3. c.task \in running
  <2>1. phase = "running" /\ completions # <<>>
    BY DEF Receive
  <2>2. completions \in Seq({completions[i] : i \in DOMAIN completions})
        /\ \A i \in DOMAIN completions : completions[i].task \in running
    BY <1>1, <2>1 DEF Inv, CompletionsOnce
  <2>3. 1 \in DOMAIN completions /\ c = completions[1]
    BY <2>1, <2>2
  <2> QED
    BY <2>2, <2>3
<1>4. records' = records \cup {RecordOf(c)}
  BY DEF Receive, RecordOf
<1>5. State.running = running /\ State.loops = loops
  BY DEF State
<1>6. s = [State EXCEPT !.running = @ \ {c.task}]
  BY <1>5 DEF Received
<1>7. a \in Work(State)
  BY <1>3, <1>5 DEF Work, Activations
<1>8. s.loops = loops
  BY DEF Received, State
<1> HIDE DEF s
<1>9. Sound(s, records')
  BY <1>1, <1>4, <1>6, FewerSound
<1>10. /\ Distinct(s.running, records', runCounts)
       /\ Balanced(s.running, records', runCounts, totalRuns)
  <2>1. IsFiniteSet(running) /\ runCounts \in [Nodes -> Nat]
    BY <1>1, <1>5 DEF Inv, TypeOK, IsState
  <2>2. a.node \in Nodes /\ c.task.run \in 1 .. runCounts[a.node]
    BY <1>1, <1>2, <1>3 DEF Inv, TypeOK, IsActivation
  <2> HIDE DEF c, a
  <2> QED
    BY <1>1, <1>2, <1>3, <1>4, <2>1, <2>2, RecordedDistinct DEF a
<1>11. Placed(a)
  BY <1>1, <1>7 DEF Sound, Tree
<1>12. NewLineage(c) \notin DOMAIN s.loops
  <2>1. NewLineage(c).loop = a.node /\ NewLineage(c).run = c.task.run
    BY DEF NewLineage, LoopLineage
  <2>2. SUFFICES ASSUME NewLineage(c) \in DOMAIN loops PROVE FALSE
    BY <1>8
  <2>3. \E r \in records : r.node = a.node /\ r.run = c.task.run
    BY <1>1, <1>5, <2>1, <2>2 DEF Sound, Sourced
  <2> QED
    BY <1>1, <1>3, <2>3 DEF Distinct
<1>13. ASSUME NEW routes, c.outcome # "failure", routes \subseteq DOMAIN Node[a.node].routes
       PROVE  Handled(s, records', c, routes)
  <2>1. RecordOf(c) \in records' /\ IsRecordOf(RecordOf(c), c)
    BY <1>4 DEF RecordOf, IsRecordOf
  <2> QED
    BY <1>2, <1>11, <1>13, <2>1 DEF Handled
<1> QED
  BY <1>2, <1>3, <1>4, <1>9, <1>10, <1>11, <1>12, <1>13 DEF s

(***************************************************************************)
(* The steps.                                                               *)
(***************************************************************************)

(* Starting what is runnable, from a settled state.                         *)
LEMMA StartedRun ==
  ASSUME Inv', Honest', NEW s, Countable(s), Sound(s, records'), Settled(s),
         Distinct(s.running, records', runCounts),
         Balanced(s.running, records', runCounts, totalRuns), StartRunnable(s),
         \A i \in DOMAIN completions' : completions'[i].task \in s.running
  PROVE  RunInv'
<1>1. /\ Sound(State', records') /\ Settled(State')
      /\ Distinct(running', records', runCounts')
      /\ Balanced(running', records', runCounts', totalRuns')
      /\ WorkConserving' /\ phase' \in {"running", "cancelling"}
      /\ \E started : running' = s.running \cup {Task(a, started) : a \in started}
  BY StartSound
<1>2. \A i \in DOMAIN completions' : completions'[i].task \in running'
  BY <1>1
<1>3. CompletionsFit'
  BY <1>2, CompletionsFitNext
<1>4. PassIsComplete'
  BY <1>1 DEF PassIsComplete
<1> QED
  BY <1>1, <1>3, <1>4 DEF RunInv

(* Halting: nothing is left to decide.                                      *)
LEMMA HaltedRun ==
  ASSUME Inv', NEW s, Countable(s), Sound(s, records'),
         Distinct(s.running, records', runCounts), NEW kind, Halt(s, kind),
         \A i \in DOMAIN completions' : completions'[i].task \in s.running
  PROVE  RunInv'
<1>1. State' = s
  BY DEF Halt, State, Countable, Good, IsRecord
<1>2. running' = s.running /\ phase' = "cancelling" /\ runCounts' = runCounts
  BY DEF Halt
<1>3. CompletionsFit'
  BY <1>2, CompletionsFitNext
<1>4. Sound(State', records') /\ Distinct(running', records', runCounts')
  BY <1>1, <1>2
<1>5. WorkConserving' /\ Honest' /\ PassIsComplete'
  BY <1>2 DEF WorkConserving, Honest, PassIsComplete
<1> QED
  BY <1>2, <1>3, <1>4, <1>5 DEF RunInv

(* The signals of run(): the nodes without needs.                           *)
FirstSignals ==
  {[node |-> n, group |-> InitialGroup(n), lineage |-> Root,
    loops |-> [m \in {} |-> {}], order |-> <<0, 0, Node[n].rank>>] :
      n \in {m \in Nodes : Node[m].needs = {}}}

LEMMA BeginSignals ==
  ASSUME Good(State)
  PROVE  /\ AreSignals(State, FirstSignals)
         /\ \A x \in FirstSignals : /\ x.lineage = Root /\ DOMAIN x.loops = {}
                                     /\ x.group.inside = {}
<1> DEFINE starts == {m \in Nodes : Node[m].needs = {}}
           Signal(n) == [node |-> n, group |-> InitialGroup(n), lineage |-> Root,
                         loops |-> [m \in {} |-> {}], order |-> <<0, 0, Node[n].rank>>]
           signals == {Signal(n) : n \in starts}
<1>1. signals = FirstSignals
  BY DEF FirstSignals
<1>2. \A x \in signals : x.group.inside = {}
  BY DEF InitialGroup
<1>3. IsFiniteSet(signals)
  <2> DEFINE f == [n \in starts |-> Signal(n)]
  <2>1. f \in [starts -> signals] /\ \A x \in signals : \E n \in starts : f[n] = x
    OBVIOUS
  <2>2. IsFiniteSet(starts)
    BY NodesAssumption, FS_Subset
  <2> HIDE DEF f, signals, starts
  <2> QED
    BY <2>1, <2>2, ImageFinite
<1>4. \A x \in signals : /\ x.node \in Nodes /\ x.lineage = Root /\ DOMAIN x.loops = {}
                         /\ x = Signal(x.node) /\ x.order = <<0, 0, Node[x.node].rank>>
  OBVIOUS
<1> HIDE DEF signals, Signal
<1>5. \A x \in signals : IsSignal(State, x) /\ Placed(x)
  BY <1>4 DEF IsSignal, Good, IsState, Placed
<1>6. Ordered(signals)
  <2>1. \A x \in signals : x.order \in Place
    <3> SUFFICES ASSUME NEW x \in signals PROVE x.order \in Place
      OBVIOUS
    <3>1. Node[x.node].rank \in Nat
      BY <1>4, NodeAssumption DEF IsNode
    <3>2. <<0, 0, Node[x.node].rank>> \in Place
      BY <3>1 DEF Place
    <3> QED
      BY <1>4, <3>2
  <2>2. ASSUME NEW x \in signals, NEW y \in signals, x.order = y.order PROVE x = y
    <3>1. Node[x.node].rank = Node[y.node].rank
      BY <1>4, <2>2
    <3>2. x.node = y.node
      BY <1>4, <3>1, RankAssumption
    <3> QED
      BY <1>4, <3>2
  <2> QED
    BY <2>1, <2>2 DEF Ordered
<1>7. AreSignals(State, signals)
  BY <1>3, <1>5, <1>6 DEF AreSignals
<1> QED
  BY <1>1, <1>2, <1>4, <1>7

LEMMA BeginRun == ASSUME RunInv, Begin PROVE RunInv'
<1> DEFINE s == Enqueue(State, FirstSignals)
<1>1. /\ Inv /\ Sound(State, records) /\ Distinct(running, records, runCounts)
      /\ Balanced(running, records, runCounts, totalRuns) /\ Settled(State) /\ Honest
      /\ phase = "created" /\ StartRunnable(s) /\ completions' = completions
      /\ records' = records /\ deferred' = deferred
  BY DEF RunInv, Begin, FirstSignals
<1>2. Countable(State) /\ State.running = running
  BY <1>1, InvCountable
<1>3. AreSignals(State, FirstSignals)
  BY <1>2, BeginSignals DEF Countable
<1>8. /\ Sound(s, records) /\ s.running = running /\ s.loops = loops
      /\ State.pending \subseteq s.pending
  BY <1>1, <1>2, <1>3, EnqueueSound DEF State
<1> HIDE DEF s
<1>9. Countable(s)
  BY <1>2, <1>8, FewerCountable DEF Sound
<1>10. Settled(s)
  <2>1. \A g : Live(State, g) => Live(s, g)
    BY <1>2, <1>8 DEF Live, Work
  <2>2. State.loops = loops
    BY DEF State
  <2> QED
    BY <1>1, <1>8, <2>1, <2>2 DEF Settled, Full
<1>11. \A i \in DOMAIN completions' : completions'[i].task \in s.running
  BY <1>1, <1>8 DEF Inv, CompletionsOnce
<1>12. Inv'
  BY <1>1, BeginInv
<1>13. Honest'
  BY <1>1 DEF Honest
<1> QED
  BY <1>1, <1>8, <1>9, <1>10, <1>11, <1>12, <1>13, StartedRun

LEMMA CompleteFailureRun == ASSUME RunInv, CompleteFailure PROVE RunInv'
<1> DEFINE c == Head(completions)
           s == Received(c)
           a == c.task.activation
<1>1. Receive /\ c.outcome = "failure" /\ phase = "running"
  BY DEF CompleteFailure, Receive
<1>2. /\ Countable(s) /\ Sound(s, records')
      /\ records' = records \cup {RecordOf(c)}
      /\ Distinct(s.running, records', runCounts)
      /\ Balanced(s.running, records', runCounts, totalRuns)
      /\ Placed(a)
      /\ \A i \in DOMAIN completions' : completions'[i].task \in s.running
  BY <1>1, ReceiveSound
<1>3. Inv'
  BY CompleteFailureInv DEF RunInv
<1>4. CASE Defers(State, a)
  <2>1. deferred' = TRUE /\ StartRunnable(SettleLoops(s))
    BY <1>4 DEF CompleteFailure
  <2> HIDE DEF s
  <2>2. a.lineage # Root
    BY <1>2, <1>4 DEF Defers, Placed
  <2>3. ~ Fatal(RecordOf(c))
    BY <1>1, <2>2 DEF Fatal, RecordOf
  <2>4. Honest'
    BY <1>1, <1>2, <2>1, <2>3 DEF RunInv, Honest
  <2>5. Sound(SettleLoops(s), records') /\ Grows(s, SettleLoops(s)) /\ Settled(SettleLoops(s))
    BY <1>2, SettleSound
  <2>6. SettleLoops(s).running = s.running
    BY <2>5 DEF Grows
  <2>7. Countable(SettleLoops(s))
    BY <1>2, <2>5, <2>6, FewerCountable DEF Sound
  <2> QED
    BY <1>2, <1>3, <2>1, <2>4, <2>5, <2>6, <2>7, StartedRun
<1>5. CASE ~ Defers(State, a)
  <2>1. Halt(s, "node_failed")
    BY <1>5 DEF CompleteFailure
  <2> HIDE DEF s
  <2> QED
    BY <1>2, <1>3, <2>1, HaltedRun
<1> QED
  BY <1>4, <1>5

LEMMA CompleteNodeRun == ASSUME RunInv, CompleteNode PROVE RunInv'
<1> DEFINE c == Head(completions)
           s == Received(c)
           a == c.task.activation
<1>1. Receive /\ c.outcome # "failure" /\ phase = "running" /\ deferred' = deferred
  BY DEF CompleteNode, Receive
<1>2. /\ Countable(s) /\ Sound(s, records')
      /\ records' = records \cup {RecordOf(c)}
      /\ Distinct(s.running, records', runCounts)
      /\ Balanced(s.running, records', runCounts, totalRuns)
      /\ Placed(a) /\ NewLineage(c) \notin DOMAIN s.loops
      /\ \A routes : /\ c.outcome # "failure"
                     /\ routes \subseteq DOMAIN Node[a.node].routes
                     => Handled(s, records', c, routes)
      /\ \A i \in DOMAIN completions' : completions'[i].task \in s.running
  BY <1>1, ReceiveSound
<1>3. Inv'
  BY CompleteNodeInv DEF RunInv
<1>4. PICK routes \in MatchingRoutes(a.node, c.outcome) :
        /\ ~ Spins(c, routes)
        /\ \/ Halt(Control(s, c, routes), "finish_fail")
           \/ Halt(Advance(Control(s, c, routes), a, routes), "break_outside_loop")
           \/ /\ Node[a.node].finish # "fail" /\ Node[a.node].type = "loop"
              /\ StartRunnable(Control(s, c, routes))
           \/ /\ Node[a.node].finish # "fail"
              /\ StartRunnable(Advance(Control(s, c, routes), a, routes))
  BY DEF CompleteNode
<1> HIDE DEF s
<1> DEFINE controlled == Control(s, c, routes)
           advanced == Advance(controlled, a, routes)
<1>5. routes \subseteq DOMAIN Node[a.node].routes
  BY MatchingAreRoutes
<1>6. Handled(s, records', c, routes)
  BY <1>1, <1>2, <1>5
<1>7. /\ Sound(controlled, records') /\ controlled.running = s.running
      /\ IsActivation(controlled, a)
      /\ Node[a.node].type \in {"loop", "break"} => Settled(controlled)
  <2>1. ~ Spins(c, routes) /\ Sound(s, records') /\ NewLineage(c) \notin DOMAIN s.loops
    BY <1>2, <1>4
  <2> QED
    BY <1>6, <2>1, ControlSound
<1> HIDE DEF controlled
<1>8. Completed(records', a.node, a.lineage)
  <2>1. a.lineage \in Around(a.lineage)
    BY DEF Around
  <2> QED
    BY <1>6, <2>1 DEF Handled, IsRecordOf, Completed
<1>9. Sound(advanced, records') /\ advanced.running = controlled.running /\ Settled(advanced)
  BY <1>2, <1>5, <1>7, <1>8, AdvanceSound
<1> HIDE DEF advanced
<1>10. Countable(controlled) /\ Countable(advanced)
  BY <1>2, <1>7, <1>9, FewerCountable DEF Sound
<1>11. CASE \/ Halt(controlled, "finish_fail") \/ Halt(advanced, "break_outside_loop")
  BY <1>2, <1>3, <1>7, <1>9, <1>10, <1>11, HaltedRun
<1>12. CASE /\ Node[a.node].finish # "fail"
            /\ \/ Node[a.node].type = "loop" /\ StartRunnable(controlled)
               \/ StartRunnable(advanced)
  <2>1. ~ Fatal(RecordOf(c)) /\ RecordOf(c).outcome # "failure"
    BY <1>1, <1>12 DEF Fatal, RecordOf
  <2>2. Honest'
    BY <1>1, <1>2, <2>1 DEF RunInv, Honest
  <2>3. CASE Node[a.node].type = "loop" /\ StartRunnable(controlled)
    BY <1>2, <1>3, <1>7, <1>10, <2>2, <2>3, StartedRun
  <2>4. CASE StartRunnable(advanced)
    BY <1>2, <1>3, <1>7, <1>9, <1>10, <2>2, <2>4, StartedRun
  <2> QED
    BY <1>12, <2>3, <2>4
<1> QED
  BY <1>4, <1>11, <1>12 DEF controlled, advanced

(* The loop that fills forever takes its task with it.                      *)
LEMMA CompleteSpinningRun == ASSUME RunInv, CompleteSpinning PROVE RunInv'
<1> DEFINE c == Head(completions)
           s == Received(c)
<1>1. /\ Receive /\ running' = running \ {c.task} /\ phase' = "spinning"
      /\ UNCHANGED <<error, pending, satisfied, loops, sequence, runCounts, totalRuns, deferred>>
  BY DEF CompleteSpinning
<1>2. /\ s.running = running \ {c.task} /\ Sound(s, records')
      /\ Distinct(s.running, records', runCounts)
      /\ Balanced(s.running, records', runCounts, totalRuns)
      /\ \A i \in DOMAIN completions' : completions'[i].task \in s.running
  BY <1>1, ReceiveSound
<1>3. Inv'
  <2>1. running' \subseteq running
    BY <1>1
  <2> QED
    BY <1>1, <2>1, FewerTasksInv DEF RunInv, Phases
<1>4. State' = s
  BY <1>1 DEF State, Received
<1> HIDE DEF s
<1>5. CompletionsFit'
  BY <1>1, <1>2, <1>3, CompletionsFitNext
<1>6. WorkConserving' /\ Honest' /\ PassIsComplete'
  BY <1>1 DEF WorkConserving, Honest, PassIsComplete
<1> QED
  BY <1>1, <1>2, <1>3, <1>4, <1>5, <1>6 DEF RunInv

(* A completion that is sent changes nothing else.                          *)
LEMMA SendRun ==
  ASSUME RunInv, Inv', phase = "running",
         UNCHANGED <<phase, error, pending, running, satisfied, loops, sequence, runCounts,
                     totalRuns, records, deferred>>
  PROVE  RunInv'
<1>1. State' = State
  BY DEF State
<1>2. \A i \in DOMAIN completions' : completions'[i].task \in running'
  BY DEF Inv, CompletionsOnce
<1>3. CompletionsFit'
  BY <1>2, CompletionsFitNext
<1>4. WorkConserving' /\ Honest' /\ PassIsComplete'
  BY DEF RunInv, WorkConserving, Honest, PassIsComplete
<1> QED
  BY <1>1, <1>3, <1>4 DEF RunInv

(* The next attempt of a run stands in for the one that failed.             *)
Retried(s, r, t, u) ==
  /\ u.activation = t.activation
  /\ r.pending = s.pending /\ r.running = (s.running \ {t}) \cup {u}
  /\ r.satisfied = s.satisfied /\ r.loops = s.loops /\ r.sequence = s.sequence

LEMMA RetrySound ==
  ASSUME NEW s, NEW recorded, Sound(s, recorded), NEW t \in s.running,
         NEW u, NEW r, Good(r), Retried(s, r, t, u)
  PROVE  Sound(r, recorded) /\ Activations(r.running) = Activations(s.running)
<1> USE DEF Retried
<1>1. Good(s) /\ Tree(s) /\ Numbered(s) /\ Unique(s) /\ Latched(s) /\ Sourced(s, recorded)
  BY DEF Sound
<1>2. Activations(r.running) = Activations(s.running)
  BY DEF Activations
<1>3. Work(r) = Work(s)
  BY <1>2 DEF Work
<1>4. Tree(r)
  <2>1. \A a \in Work(r) : Placed(a)
    BY <1>1, <1>3 DEF Tree
  <2> QED
    BY <1>1, <2>1, SameTree
<1>5. Numbered(r)
  BY <1>1 DEF Numbered
<1>6. Unique(r)
  <2>1. ASSUME NEW x \in r.running, NEW y \in r.running,
               x.activation.node = y.activation.node, x.activation.group = y.activation.group
        PROVE  x = y
    <3>1. CASE x \in s.running \ {t} /\ y \in s.running \ {t}
      BY <1>1, <2>1, <3>1 DEF Unique
    <3>2. ASSUME NEW z \in s.running \ {t}, z.activation.node = t.activation.node,
                 z.activation.group = t.activation.group
          PROVE  FALSE
      BY <1>1, <3>2 DEF Unique
    <3> QED
      BY <2>1, <3>1, <3>2
  <2>2. \A a \in r.pending, x \in r.running :
          ~ (a.node = x.activation.node /\ a.group = x.activation.group)
    BY <1>1 DEF Unique
  <2> QED
    BY <1>1, <2>1, <2>2 DEF Unique
<1>7. Latched(r) /\ Sourced(r, recorded)
  BY <1>1 DEF Latched, Unlocked, Satisfied, Sourced
<1> QED
  BY <1>2, <1>4, <1>5, <1>6, <1>7 DEF Sound

LEMMA RetryRun ==
  ASSUME RunInv, phase = "running", NEW t \in running, Executing(t),
         t.attempt <= Node[t.activation.node].retry_count,
         running' = (running \ {t}) \cup {[t EXCEPT !.attempt = t.attempt + 1]},
         UNCHANGED <<phase, error, pending, completions, satisfied, loops, sequence, runCounts,
                     totalRuns, records, deferred>>
  PROVE  RunInv'
<1> DEFINE u == [t EXCEPT !.attempt = t.attempt + 1]
<1>1. Inv /\ Inv'
  BY RetryInv DEF RunInv
<1>2. /\ Sound(State, records) /\ Distinct(running, records, runCounts)
      /\ Balanced(running, records, runCounts, totalRuns) /\ Settled(State)
  BY DEF RunInv
<1>3. u.activation = t.activation /\ u.run = t.run
  OBVIOUS
<1> HIDE DEF u
<1>4. /\ running' = (running \ {t}) \cup {u} /\ records' = records
      /\ State'.pending = State.pending /\ State'.running = (State.running \ {t}) \cup {u}
      /\ State'.satisfied = State.satisfied /\ State'.loops = State.loops
      /\ State'.sequence = State.sequence /\ IsRecord(State') /\ State.running = running
  BY DEF State, IsRecord, u
<1>5. Sound(State', records') /\ Activations(State'.running) = Activations(State.running)
  <2>1. Good(State')
    BY <1>1, <1>4 DEF Inv, TypeOK, Good
  <2> DEFINE s == State
             r == State'
  <2>2. Sound(s, records) /\ t \in s.running /\ Good(r) /\ Retried(s, r, t, u)
    BY <1>2, <1>3, <1>4, <2>1 DEF Retried
  <2> HIDE DEF s, r
  <2>3. Sound(r, records) /\ Activations(r.running) = Activations(s.running)
    BY <2>2, RetrySound
  <2> QED
    BY <1>4, <2>3 DEF s, r
<1>6. IsFiniteSet(running)
  BY <1>1, <1>4 DEF Inv, TypeOK, IsState
<1>7. u \in running => u = t
  BY <1>2, <1>3 DEF Distinct
<1>8. \A S : IsFiniteSet(S) /\ S \subseteq running /\ t \in S =>
        Cardinality((S \ {t}) \cup {u}) = Cardinality(S)
  <2> SUFFICES ASSUME NEW S, IsFiniteSet(S), S \subseteq running, t \in S
               PROVE  Cardinality((S \ {t}) \cup {u}) = Cardinality(S)
    OBVIOUS
  <2>1. CASE u = t
    <3>1. (S \ {t}) \cup {u} = S
      BY <2>1
    <3> QED
      BY <3>1
  <2>2. CASE u # t
    BY <1>7, <2>2, Exchanged
  <2> QED
    BY <2>1, <2>2
<1>9. Cardinality(running') = Cardinality(running)
  BY <1>4, <1>6, <1>8
<1>10. \A n \in Nodes : Cardinality(OfNode(running', n)) = Cardinality(OfNode(running, n))
  <2> SUFFICES ASSUME NEW n \in Nodes
               PROVE  Cardinality(OfNode(running', n)) = Cardinality(OfNode(running, n))
    OBVIOUS
  <2>1. CASE t.activation.node = n
    <3>1. OfNode(running', n) = (OfNode(running, n) \ {t}) \cup {u}
      BY <1>3, <1>4, <2>1 DEF OfNode
    <3>2. IsFiniteSet(OfNode(running, n)) /\ OfNode(running, n) \subseteq running
          /\ t \in OfNode(running, n)
      BY <1>6, <2>1, FS_Subset DEF OfNode
    <3> QED
      BY <1>8, <3>1, <3>2
  <2>2. CASE t.activation.node # n
    <3>1. OfNode(running', n) = OfNode(running, n)
      BY <1>3, <1>4, <2>2 DEF OfNode
    <3> QED
      BY <3>1
  <2> QED
    BY <2>1, <2>2
<1>11. Distinct(running', records', runCounts')
  <2>1. runCounts' = runCounts
    OBVIOUS
  <2>2. \A x \in running' : \E y \in running :
          /\ x.activation = y.activation /\ x.run = y.run
          /\ IF y = t THEN x = u ELSE x = y
    BY <1>3, <1>4
  <2>3. \A x, y \in running' :
          x.activation.node = y.activation.node /\ x.run = y.run => x = y
    BY <1>2, <2>2 DEF Distinct
  <2>4. \A x \in running', r \in records' : r.node = x.activation.node => r.run # x.run
    BY <1>2, <1>4, <2>2 DEF Distinct
  <2> QED
    BY <1>2, <1>4, <2>1, <2>3, <2>4 DEF Distinct
<1>12. Balanced(running', records', runCounts', totalRuns')
  BY <1>2, <1>4, <1>9, <1>10 DEF Balanced
<1>13. Settled(State')
  <2>1. Work(State') = Work(State)
    BY <1>4, <1>5 DEF Work
  <2> QED
    BY <1>2, <1>4, <2>1 DEF Settled, Full, Live
<1>14. WorkConserving'
  <2> SUFFICES ASSUME NEW a \in pending, Node[a.node].needs \subseteq satisfied[a.lineage]
               PROVE  Cardinality({x \in running' : x.activation.node = a.node})
                        >= Node[a.node].max_concurrency
    BY DEF WorkConserving
  <2>1. a.node \in Nodes
    BY <1>1 DEF Inv, TypeOK, IsState, IsActivation, State
  <2>2. Cardinality({x \in running : x.activation.node = a.node}) >= Node[a.node].max_concurrency
    BY DEF RunInv, WorkConserving
  <2> QED
    BY <1>10, <2>1, <2>2 DEF OfNode
<1>15. CompletionsFit'
  <2>1. \A i \in DOMAIN completions' : completions'[i].task \in running'
    BY <1>1, <1>4 DEF Inv, CompletionsOnce, Executing
  <2> QED
    BY <1>1, <2>1, CompletionsFitNext
<1>16. Honest' /\ PassIsComplete'
  BY DEF RunInv, Honest, PassIsComplete
<1> QED
  BY <1>1, <1>5, <1>11, <1>12, <1>13, <1>14, <1>15, <1>16 DEF RunInv

(* A cancelled task leaves the run that is ending.                          *)
LEMMA TaskCancelledRun == ASSUME RunInv, NEW t \in running, TaskCancelled(t) PROVE RunInv'
<1>1. /\ running' = running \ {t} /\ phase = "cancelling" /\ phase' = "cancelling"
      /\ UNCHANGED <<error, pending, completions, satisfied, loops, sequence, runCounts,
                     totalRuns, records, deferred>>
  BY DEF TaskCancelled
<1>2. Inv'
  BY <1>1, FewerTasksInv DEF RunInv, Phases
<1>3. Sound([State EXCEPT !.running = @ \ {t}], records)
  BY FewerSound DEF RunInv
<1>4. State' = [State EXCEPT !.running = @ \ {t}]
  BY <1>1 DEF State
<1>5. Sound(State', records')
  BY <1>1, <1>3, <1>4
<1>6. Distinct(running', records', runCounts')
  BY <1>1 DEF RunInv, Distinct
<1>7. CompletionsFit' /\ WorkConserving' /\ Honest' /\ PassIsComplete'
  BY <1>1 DEF RunInv, CompletionsFit, WorkConserving, Honest, PassIsComplete
<1> QED
  BY <1>1, <1>2, <1>5, <1>6, <1>7 DEF RunInv

(* A run that is not passed by this step, and does not go on.               *)
LEMMA EndingRun ==
  ASSUME RunInv, Inv', phase' \in {"cancelling", "failed"},
         UNCHANGED <<pending, running, completions, satisfied, loops, sequence, runCounts,
                     totalRuns, records, deferred>>
  PROVE  RunInv'
<1>1. State' = State
  BY DEF State
<1>2. CompletionsFit' /\ WorkConserving' /\ Honest' /\ PassIsComplete'
  BY DEF RunInv, CompletionsFit, WorkConserving, Honest, PassIsComplete
<1> QED
  BY <1>1, <1>2 DEF RunInv

(* A run that comes to rest and passes left nothing.                        *)
LEMMA QuiesceRun == ASSUME RunInv, Quiesce PROVE RunInv'
<1>1. /\ phase = "running" /\ running = {}
      /\ error' = Verdict(~ (Outputs \subseteq Succeeded))
      /\ phase' = IF error' = "none" THEN "passed" ELSE "failed"
      /\ UNCHANGED <<pending, running, completions, satisfied, loops, sequence, runCounts,
                     totalRuns, records, deferred>>
  BY DEF Quiesce
<1>2. Inv'
  <2>1. error' \in Errors /\ phase' \in {"passed", "failed"}
    BY <1>1 DEF Verdict, Errors, RunInv, Inv, TypeOK
  <2> QED
    BY <1>1, <2>1, VerdictInv DEF RunInv, Phases
<1>3. CASE phase' = "failed"
  BY <1>1, <1>2, <1>3, EndingRun
<1>4. CASE phase' = "passed"
  <2>1. Verdict(~ (Outputs \subseteq Succeeded)) = "none" /\ deferred \in BOOLEAN
    BY <1>1, <1>4 DEF RunInv, Inv, TypeOK
  <2>2. ~ deferred /\ pending = {}
    BY <2>1 DEF Verdict
  <2>3. completions = <<>>
    <3>1. completions \in Seq({completions[i] : i \in DOMAIN completions})
          /\ DOMAIN completions = {}
      BY <1>1 DEF RunInv, Inv, CompletionsOnce
    <3> QED
      BY <3>1
  <2>4. \A r \in records : r.outcome # "failure" /\ Node[r.node].finish # "fail"
    BY <1>1, <2>2 DEF RunInv, Honest, Fatal
  <2>5. ASSUME NEW l \in DOMAIN loops
        PROVE  /\ loops[l].active = {}
               /\ loops[l].closed \/ (~ loops[l].infinite /\ loops[l].next = loops[l].items)
    <3>1. Full(State, l) /\ IsLoop(State, l)
      BY <1>1 DEF RunInv, Settled, State, Inv, TypeOK, IsState
    <3>2. State.loops = loops /\ State.pending = {} /\ State.running = {}
      BY <1>1, <2>2 DEF State
    <3>3. \A g : ~ Live(State, g)
      BY <3>2 DEF Live, Work, Activations
    <3>4. loops[l].active = {}
      BY <3>1, <3>2, <3>3 DEF Full
    <3>5. Cardinality(loops[l].active) = 0 /\ loops[l].limit \in Nat \ {0}
      BY <3>1, <3>2, <3>4, FS_EmptySet DEF IsLoop
    <3> QED
      BY <3>1, <3>2, <3>4, <3>5 DEF Full
  <2>6. PassIsComplete'
    BY <1>1, <2>2, <2>3, <2>4, <2>5 DEF PassIsComplete
  <2>7. State' = State
    BY <1>1 DEF State
  <2>8. CompletionsFit' /\ WorkConserving' /\ Honest'
    BY <1>1, <1>4 DEF RunInv, CompletionsFit, WorkConserving, Honest
  <2> QED
    BY <1>1, <1>2, <2>6, <2>7, <2>8 DEF RunInv
<1> QED
  BY <1>1, <1>3, <1>4

LEMMA StutterRun == ASSUME RunInv, UNCHANGED vars PROVE RunInv'
<1>1. Inv'
  BY StutterInv DEF RunInv
<1>2. State' = State
  BY DEF State, vars
<1>3. CompletionsFit' /\ WorkConserving' /\ Honest' /\ PassIsComplete'
  BY DEF RunInv, CompletionsFit, WorkConserving, Honest, PassIsComplete, vars
<1> QED
  BY <1>1, <1>2, <1>3 DEF RunInv, vars

LEMMA AttemptSucceedsRun == ASSUME RunInv, NEW t \in running, AttemptSucceeds(t) PROVE RunInv'
BY AttemptSucceedsInv, SendRun DEF AttemptSucceeds, RunInv

LEMMA AttemptFailsRun == ASSUME RunInv, NEW t \in running, AttemptFails(t) PROVE RunInv'
<1> DEFINE n == Node[t.activation.node]
<1>1. CASE t.attempt <= n.retry_count
  BY <1>1, RetryRun DEF AttemptFails
<1>2. CASE ~ (t.attempt <= n.retry_count)
  BY <1>2, AttemptFailsInv, SendRun DEF AttemptFails, RunInv
<1> QED
  BY <1>1, <1>2

(* Every step keeps the invariant.                                          *)
LEMMA StepRun == ASSUME RunInv, [Next]_vars PROVE RunInv'
<1>1. CASE Begin
  BY <1>1, BeginRun
<1>2. ASSUME NEW t \in running, AttemptSucceeds(t) PROVE RunInv'
  BY <1>2, AttemptSucceedsRun
<1>3. ASSUME NEW t \in running, AttemptFails(t) PROVE RunInv'
  BY <1>3, AttemptFailsRun
<1>4. CASE CompleteFailure
  BY <1>4, CompleteFailureRun
<1>5. CASE CompleteNode
  BY <1>5, CompleteNodeRun
<1>6. CASE CompleteSpinning
  BY <1>6, CompleteSpinningRun
<1>7. ASSUME NEW t \in running, TaskCancelled(t) PROVE RunInv'
  BY <1>7, TaskCancelledRun
<1>8. CASE Timeout \/ Fail
  <2>1. Inv'
    BY <1>8, StepInv DEF Next, RunInv
  <2> QED
    BY <1>8, <2>1, EndingRun DEF Timeout, Fail
<1>9. CASE Quiesce
  BY <1>9, QuiesceRun
<1>10. CASE Ended
  BY <1>10, StutterRun DEF Ended
<1>11. CASE UNCHANGED vars
  BY <1>11, StutterRun
<1> QED
  BY <1>1, <1>2, <1>3, <1>4, <1>5, <1>6, <1>7, <1>8, <1>9, <1>10, <1>11 DEF Next

(* A created run has begun nothing.                                         *)
LEMMA InitRun == Init => RunInv
<1> SUFFICES ASSUME Init PROVE RunInv
  OBVIOUS
<1>1. /\ phase = "created" /\ pending = {} /\ running = {} /\ completions = <<>>
      /\ satisfied = [l \in {Root} |-> {}] /\ loops = [l \in {} |-> {}] /\ sequence = 0
      /\ runCounts = [n \in Nodes |-> 0] /\ totalRuns = 0 /\ records = {} /\ deferred = FALSE
  BY DEF Init
<1>2. Inv
  BY InitInv
<1> DEFINE s == State
<1>3. /\ s.pending = {} /\ s.running = {} /\ s.satisfied = [l \in {Root} |-> {}]
      /\ s.loops = [l \in {} |-> {}] /\ s.sequence = 0 /\ IsRecord(s)
  BY <1>1 DEF State, IsRecord
<1>4. Good(s)
  BY <1>2, <1>3 DEF Good, Inv, TypeOK
<1> HIDE DEF s
<1>5. DOMAIN s.loops = {} /\ DOMAIN s.satisfied = {Root} /\ s.satisfied[Root] = {}
  BY <1>3
<1>6. Work(s) = {}
  BY <1>3 DEF Work, Activations
<1>7. Tree(s)
  BY <1>5, <1>6 DEF Tree, IsLineage
<1>8. Numbered(s) /\ Unique(s) /\ Latched(s)
  BY <1>3 DEF Numbered, Unique, Latched
<1>9. Sourced(s, records)
  BY <1>5 DEF Sourced
<1>10. Sound(State, records) /\ Settled(State)
  BY <1>4, <1>5, <1>7, <1>8, <1>9 DEF Sound, Settled, s
<1>11. IsFiniteSet({}) /\ Cardinality({}) = 0
  BY FS_EmptySet
<1>12. Distinct(running, records, runCounts)
  BY <1>1, <1>11 DEF Distinct
<1>13. Balanced(running, records, runCounts, totalRuns)
  <2>1. \A n \in Nodes : OfNode({}, n) = {} /\ RecordsOf({}, n) = {}
    BY DEF OfNode, RecordsOf
  <2>2. totalRuns = Cardinality(running) + Cardinality(records)
    BY <1>1, <1>11
  <2>3. ASSUME NEW n \in Nodes
        PROVE  runCounts[n] = Cardinality(OfNode(running, n)) + Cardinality(RecordsOf(records, n))
    <3>1. OfNode(running, n) = {} /\ RecordsOf(records, n) = {} /\ runCounts[n] = 0
      BY <1>1, <2>1
    <3> QED
      BY <1>11, <3>1
  <2> QED
    BY <2>2, <2>3 DEF Balanced
<1>14. CompletionsFit
  <2>1. \A n \in Nodes : {i \in DOMAIN completions : completions[i].task.activation.node = n} = {}
    BY <1>1
  <2>2. \A n \in Nodes : 0 <= Node[n].max_concurrency
    BY NodeAssumption DEF IsNode
  <2> QED
    BY <1>1, <1>11, <2>1, <2>2 DEF CompletionsFit
<1>15. WorkConserving /\ Honest /\ PassIsComplete
  BY <1>1 DEF WorkConserving, Honest, PassIsComplete
<1> QED
  BY <1>2, <1>10, <1>12, <1>13, <1>14, <1>15 DEF RunInv

LEMMA RunHolds == Spec => []RunInv
<1>1. RunInv /\ [Next]_vars => RunInv'
  BY StepRun
<1> QED
  BY <1>1, InitRun, PTL DEF Spec

(***************************************************************************)
(* Theorems.                                                                *)
(***************************************************************************)

(* In every workflow a group has at most one activation per node, waiting   *)
(* or going on, whatever merges, loops and retries do (_enqueue,            *)
(* _merge_locked_signals).                                                  *)
THEOREM NoDuplicates == Spec => []NoDuplicateActivation
<1>1. RunInv => NoDuplicateActivation
  BY DEF RunInv, Sound, Unique, State, NoDuplicateActivation
<1> QED
  BY <1>1, RunHolds, PTL

(* In every workflow what a node needs completed before the node started,   *)
(* in its own lineage or in one it lies in (_unlocked, the lineages that    *)
(* _fill_loop_capacity makes).                                              *)
THEOREM NeedsFirst == Spec => []NeedsCompletedFirst
<1>1. RunInv => NeedsCompletedFirst
  <2> SUFFICES ASSUME RunInv, NEW t \in running, NEW needed \in Node[t.activation.node].needs
               PROVE  \E r \in records :
                        /\ r.node = needed
                        /\ r.outcome # "failure"
                        /\ r.lineage \in {t.activation.lineage, Root} \cup t.activation.group.inside
    BY DEF NeedsCompletedFirst
  <2> DEFINE a == t.activation
             s == State
  <2>1. Tree(s) /\ Latched(s) /\ Sourced(s, records) /\ s.running = running
    BY DEF RunInv, Sound, State
  <2>2. Placed(a) /\ Unlocked(s, a.node, a.lineage)
    BY <2>1 DEF Tree, Latched, Work, Activations
  <2>3. a.lineage \in DOMAIN s.satisfied /\ needed \in s.satisfied[a.lineage]
    BY <2>2 DEF Unlocked, Satisfied
  <2> HIDE DEF s
  <2>4. Completed(records, needed, a.lineage)
    BY <2>1, <2>3 DEF Sourced
  <2>5. a.lineage # Root => a.group = a.lineage
    BY <2>2 DEF Placed
  <2> QED
    BY <2>4, <2>5 DEF Completed, Around
<1> QED
  BY <1>1, RunHolds, PTL

(* In every workflow every run that was charged to the limits is going on   *)
(* or recorded, once, until the run is cancelled (_reserve_run, _run_node). *)
THEOREM RunsAlwaysAccounted == Spec => []RunsAccounted
<1>1. RunInv => RunsAccounted
  BY DEF RunInv, Balanced, OfNode, RecordsOf, RunsAccounted
<1> QED
  BY <1>1, RunHolds, PTL

(* In every workflow the stream holds every completion that can be sent: no *)
(* task blocks on it, nor the scheduler on a task that blocks (run(), the   *)
(* buffer of the memory stream).                                            *)
THEOREM CompletionsAlwaysFit == Spec => []CompletionsFit
BY RunHolds, PTL DEF RunInv

(* In no workflow does a runnable activation wait while its node has room   *)
(* (_start_runnable after every completion).                                *)
THEOREM NeverIdle == Spec => []WorkConserving
BY RunHolds, PTL DEF RunInv

(* In every workflow a pass is a whole run: nothing is left, no failure was *)
(* recorded and every loop closed or ran all its items (run()).             *)
THEOREM PassesWhole == Spec => []PassIsComplete
BY RunHolds, PTL DEF RunInv

(* In no workflow does anything start after a failure outside every loop or *)
(* after a fail terminal (_process_completion raises).                      *)
THEOREM FatalAlwaysHalts == Spec => FatalRunHalts
<1>1. ASSUME RunInv, [Next]_vars
      PROVE  [(\E r \in records : \/ r.outcome = "failure" /\ r.lineage = Root
                                  \/ r.outcome # "failure" /\ Node[r.node].finish = "fail")
              => totalRuns' = totalRuns]_vars
  <2>1. SUFFICES ASSUME \E r \in records : Fatal(r) PROVE totalRuns' = totalRuns
    BY DEF Fatal
  <2>2. phase \notin {"created", "running"}
    BY <1>1, <2>1 DEF RunInv, Honest
  <2>3. ~ Begin /\ ~ CompleteFailure /\ ~ CompleteNode
    BY <2>2 DEF Begin, CompleteFailure, CompleteNode, Receive
  <2> QED
    BY <1>1, <2>3 DEF Next, AttemptSucceeds, AttemptFails, CompleteSpinning, TaskCancelled,
                      Timeout, Quiesce, Fail, Ended, vars
<1> QED
  BY <1>1, RunHolds, PTL DEF Spec, FatalRunHalts
=============================================================================
