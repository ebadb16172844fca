------------------------ MODULE RadishSchedulerProofs ------------------------
(***************************************************************************)
(* Theorems about the Radish scheduler, for every workflow.                 *)
(*                                                                          *)
(* The operators of RadishScheduler that transform the scheduler's state    *)
(* are functions of a state record; a lemma about each says that it keeps   *)
(* IsState and what it leaves alone.  The lemmas about actions follow from  *)
(* them.                                                                    *)
(***************************************************************************)
EXTENDS RadishScheduler, TLAPS, FiniteSetTheorems

(* s has exactly the fields of a scheduler state. *)
IsRecord(s) ==
  s = [pending |-> s.pending, running |-> s.running, satisfied |-> s.satisfied,
       loops |-> s.loops, sequence |-> s.sequence]

Good(s) == IsRecord(s) /\ IsState(s)

IsSignal(s, x) ==
  /\ x.node \in Nodes
  /\ x.lineage \in DOMAIN s.satisfied
  /\ \A id \in DOMAIN x.loops : x.loops[id] \in DOMAIN s.loops

(***************************************************************************)
(* Finite sets.                                                             *)
(***************************************************************************)

(* What a function maps a finite set onto is finite, and no larger.         *)
LEMMA ImageFinite ==
  ASSUME NEW S, IsFiniteSet(S), NEW T, NEW f \in [S -> T], \A y \in T : \E x \in S : f[x] = y
  PROVE  /\ IsFiniteSet(T)
         /\ Cardinality(T) \in Nat
         /\ Cardinality(T) <= Cardinality(S)
<1>1. f \in Surjection(S, T)
  BY DEF Surjection
<1> QED
  BY <1>1, FS_Surjection, FS_CardinalityType

(* Enqueueing well-formed signals gives a well-formed state; only pending   *)
(* and sequence change.                                                     *)
LEMMA EnqueueGood ==
  ASSUME NEW s, Good(s), NEW signals, IsFiniteSet(signals),
         \A x \in signals : IsSignal(s, x)
  PROVE  /\ Good(Enqueue(s, signals))
         /\ Enqueue(s, signals).running = s.running
         /\ Enqueue(s, signals).satisfied = s.satisfied
         /\ Enqueue(s, signals).loops = s.loops
<1> DEFINE fresh == {x \in signals :
                       /\ ~ Held(s, x)
                       /\ \A y \in signals :
                            (x # y /\ x.node = y.node /\ x.group = y.group)
                              => Precedes(x.order, y.order)}
           Number(x) == s.sequence + Cardinality({y \in fresh : ~ Precedes(x.order, y.order)})
           New(x) == [node |-> x.node, group |-> x.group, lineage |-> x.lineage,
                      loops |-> x.loops, sequence |-> Number(x), place |-> Number(x)]
           added == {New(x) : x \in fresh}
           r == Enqueue(s, signals)
<1>1. IsFiniteSet(fresh)
  BY FS_Subset
<1>2. \A x \in fresh : Number(x) \in Nat
  <2> SUFFICES ASSUME NEW x \in fresh PROVE Number(x) \in Nat
    OBVIOUS
  <2> DEFINE before == {y \in fresh : ~ Precedes(x.order, y.order)}
  <2>1. IsFiniteSet(before)
    BY <1>1, FS_Subset
  <2>2. Cardinality(before) \in Nat
    BY <2>1, FS_CardinalityType
  <2>3. s.sequence \in Nat
    BY DEF Good, IsState
  <2> QED
    BY <2>2, <2>3
<1>3. r = [s EXCEPT !.pending = s.pending \cup added,
                    !.sequence = s.sequence + Cardinality(fresh)]
  BY DEF Enqueue
<1>4. fresh \subseteq signals
  OBVIOUS
<1> HIDE DEF fresh, r, Number
<1>5. IsFiniteSet(added)
  <2> DEFINE f == [x \in fresh |-> New(x)]
  <2>1. f \in [fresh -> added]
    OBVIOUS
  <2>2. \A a \in added : \E x \in fresh : f[x] = a
    OBVIOUS
  <2> HIDE DEF f, added
  <2> QED
    BY <1>1, <2>1, <2>2, ImageFinite
<1>6. \A a \in added : /\ \E x \in signals : /\ a.node = x.node
                                           /\ a.lineage = x.lineage
                                           /\ a.loops = x.loops
                       /\ a.sequence \in Nat
                       /\ a.place \in Nat
  BY <1>2, <1>4
<1> HIDE DEF added
<1>7. r = [pending |-> s.pending \cup added, running |-> s.running,
           satisfied |-> s.satisfied, loops |-> s.loops,
           sequence |-> s.sequence + Cardinality(fresh)]
  BY <1>3 DEF Good, IsRecord
<1>8. \A a \in added : IsActivation(r, a)
  BY <1>6, <1>7 DEF IsActivation, IsSignal
<1>9. \A a \in s.pending \cup Activations(s.running) : IsActivation(r, a)
  BY <1>7 DEF IsActivation, Good, IsState
<1>10. IsFiniteSet(s.pending \cup added)
  BY <1>5, FS_Union DEF Good, IsState
<1>11. s.sequence + Cardinality(fresh) \in Nat
  BY <1>1, FS_CardinalityType DEF Good, IsState
<1>12. \A l \in DOMAIN s.loops : IsLoop(r, l)
  BY <1>7 DEF IsLoop, Good, IsState
<1>13. IsRecord(r)
  BY <1>7 DEF IsRecord
<1>14. IsState(r)
  BY <1>7, <1>8, <1>9, <1>10, <1>11, <1>12 DEF Good, IsState
<1> QED
  BY <1>7, <1>13, <1>14 DEF Good, r

(* A route leads from a node to a node, and a node has finitely many.       *)
LEMMA RoutesFinite ==
  ASSUME NEW n \in Nodes
  PROVE  /\ IsFiniteSet(DOMAIN Node[n].routes)
         /\ \A r \in DOMAIN Node[n].routes : Node[n].routes[r].target \in Nodes
<1> DEFINE Route == [target : Nodes, mode : {"unconditional", "conditional", "otherwise"},
                     eligible : SUBSET {"success", "allowed_failure"}]
           q == Node[n].routes
<1>1. q \in Seq(Route)
  BY NodeAssumption DEF IsNode
<1> HIDE DEF q, Route
<1>2. DOMAIN q = 1 .. Len(q) /\ Len(q) \in Nat
  BY <1>1
<1>3. IsFiniteSet(DOMAIN q)
  BY <1>2, FS_Interval
<1>4. \A r \in DOMAIN q : q[r] \in Route
  BY <1>1, <1>2
<1> QED
  BY <1>3, <1>4 DEF q, Route

(* What one iteration of an open loop emits.                                *)
LEMMA IterationSignalsGood ==
  ASSUME NEW s, IsState(s), NEW g, g \in DOMAIN s.satisfied, g.lineage \in DOMAIN s.loops
  PROVE  /\ IsFiniteSet(IterationSignals(s, g))
         /\ \A x \in IterationSignals(s, g) : IsSignal(s, x)
<1> DEFINE loop == s.loops[g.lineage]
           id == g.lineage.loop
           around == [m \in DOMAIN loop.parentLoops \cup {id} |->
                        IF m = id THEN g.lineage ELSE loop.parentLoops[m]]
           Signal(r) == [node |-> Node[id].routes[r].target, group |-> g, lineage |-> g,
                         loops |-> around, order |-> <<loop.born, g.index, r>>]
           signals == {Signal(r) : r \in loop.routes}
<1>1. signals = IterationSignals(s, g)
  BY DEF IterationSignals
<1>2. IsLoop(s, g.lineage)
  BY DEF IsState
<1>3. id \in Nodes /\ loop.routes \subseteq DOMAIN Node[id].routes
  BY <1>2 DEF IsLoop
<1>4. IsFiniteSet(loop.routes)
  BY <1>3, RoutesFinite, FS_Subset
<1>5. \A m \in DOMAIN around : around[m] \in DOMAIN s.loops
  BY <1>2 DEF IsLoop
<1>6. IsFiniteSet(signals)
  <2> DEFINE f == [r \in loop.routes |-> Signal(r)]
  <2>1. f \in [loop.routes -> signals] /\ \A x \in signals : \E r \in loop.routes : f[r] = x
    OBVIOUS
  <2> HIDE DEF f, signals
  <2> QED
    BY <1>4, <2>1, ImageFinite
<1>7. \A r \in loop.routes : Node[id].routes[r].target \in Nodes
  BY <1>3, RoutesFinite
<1>8. \A x \in signals : x.node \in Nodes /\ x.lineage = g /\ x.loops = around
  <2> HIDE DEF around, loop, id
  <2> QED
    BY <1>7
<1>9. \A x \in signals : IsSignal(s, x)
  <2> HIDE DEF around, signals
  <2> QED
    BY <1>5, <1>8 DEF IsSignal
<1> QED
  BY <1>1, <1>6, <1>9

(* The iterations a loop begins are finitely many.                          *)
LEMMA BeginningFinite ==
  ASSUME NEW s, IsState(s), NEW l \in DOMAIN s.loops, NEW active, IsFiniteSet(active)
  PROVE  /\ IsFiniteSet(Beginning(s.loops[l], active))
         /\ IsFiniteSet({Iteration(l, i) : i \in Beginning(s.loops[l], active)})
<1> DEFINE loop == s.loops[l]
           first == loop.next
           last == loop.next + Room(loop, active) - 1
           indices == Beginning(loop, active)
           begun == {Iteration(l, i) : i \in indices}
<1>1. loop.items \in Nat /\ loop.next \in Nat /\ loop.limit \in Nat
  BY DEF IsState, IsLoop
<1>2. Cardinality(active) \in Nat
  BY FS_CardinalityType
<1>3. Room(loop, active) \in Int
  BY <1>1, <1>2 DEF Room
<1>4. first \in Int /\ last \in Int
  BY <1>1, <1>3
<1>5. indices \subseteq first .. last
  BY DEF Beginning
<1>6. IsFiniteSet(first .. last)
  BY <1>4, FS_Interval
<1>7. IsFiniteSet(indices)
  BY <1>5, <1>6, FS_Subset
<1>8. IsFiniteSet(begun)
  <2> DEFINE f == [i \in indices |-> Iteration(l, i)]
  <2> HIDE DEF indices
  <2>1. f \in [indices -> begun] /\ \A g \in begun : \E i \in indices : f[i] = g
    OBVIOUS
  <2> HIDE DEF f, begun
  <2> QED
    BY <1>7, <2>1, ImageFinite
<1> QED
  BY <1>7, <1>8

(* The iterations that begin are finitely many, each of a loop being filled. *)
LEMMA BegunGood ==
  ASSUME NEW s, IsState(s), NEW kept, DOMAIN kept \subseteq DOMAIN s.loops,
         \A l \in DOMAIN kept : IsFiniteSet(kept[l])
  PROVE  /\ IsFiniteSet(Begun(s, kept))
         /\ \A g \in Begun(s, kept) : g.lineage \in DOMAIN kept
         /\ \A l \in DOMAIN kept : /\ IsFiniteSet(BegunBy(s, kept, l))
                                  /\ Cardinality(BegunBy(s, kept, l)) \in Nat
<1> DEFINE all == {BegunBy(s, kept, l) : l \in DOMAIN kept}
           f == [l \in DOMAIN kept |-> BegunBy(s, kept, l)]
<1>1. \A l \in DOMAIN kept : /\ IsFiniteSet(BegunBy(s, kept, l))
                            /\ Cardinality(BegunBy(s, kept, l)) \in Nat
  BY BeginningFinite, FS_CardinalityType DEF BegunBy
<1>2. IsFiniteSet(DOMAIN kept)
  BY FS_Subset DEF IsState
<1>3. f \in [DOMAIN kept -> all] /\ \A B \in all : \E l \in DOMAIN kept : f[l] = B
  OBVIOUS
<1>4. \A B \in all : IsFiniteSet(B)
  BY <1>1
<1> HIDE DEF f
<1>5. IsFiniteSet(UNION all)
  <2> HIDE DEF all
  <2>1. IsFiniteSet(all)
    BY <1>2, <1>3, ImageFinite
  <2> QED
    BY <1>4, <2>1, FS_UNION
<1>6. Begun(s, kept) = UNION all
  BY DEF Begun
<1>7. \A g \in UNION all : g.lineage \in DOMAIN kept
  BY DEF BegunBy, Iteration
<1> QED
  BY <1>1, <1>5, <1>6, <1>7

(* Filling gives a well-formed state, before the new iterations are signalled. *)
LEMMA FilledGood ==
  ASSUME NEW s, Good(s), NEW kept, DOMAIN kept \subseteq DOMAIN s.loops,
         \A l \in DOMAIN kept : IsFiniteSet(kept[l])
  PROVE  /\ Good(Filled(s, kept))
         /\ Filled(s, kept).pending = s.pending
         /\ Filled(s, kept).running = s.running
         /\ DOMAIN Filled(s, kept).loops = DOMAIN s.loops
         /\ DOMAIN Filled(s, kept).satisfied = DOMAIN s.satisfied \cup Begun(s, kept)
<1> DEFINE Loop(l) == [s.loops[l] EXCEPT
                         !.next   = @ + Cardinality(BegunBy(s, kept, l)),
                         !.active = IF s.loops[l].routes = {} THEN {}
                                    ELSE kept[l] \cup BegunBy(s, kept, l)]
           loops2 == [l \in DOMAIN s.loops |-> IF l \in DOMAIN kept THEN Loop(l) ELSE s.loops[l]]
           begun == Begun(s, kept)
           satisfied2 == [l \in DOMAIN s.satisfied \cup begun |->
                            IF l \in begun
                            THEN Satisfied(s, s.loops[l.lineage].parent) \cup {l.lineage.loop}
                            ELSE s.satisfied[l]]
           r == Filled(s, kept)
<1>1. r = [s EXCEPT !.loops = loops2, !.satisfied = satisfied2]
  BY DEF Filled
<1> HIDE DEF loops2, satisfied2, begun, Loop, r
<1>2. r = [pending |-> s.pending, running |-> s.running, satisfied |-> satisfied2,
           loops |-> loops2, sequence |-> s.sequence]
  <2>1. IsRecord(s)
    BY DEF Good
  <2> QED
    BY <1>1, <2>1 DEF IsRecord
<1>3. /\ IsFiniteSet(begun)
      /\ \A g \in begun : g.lineage \in DOMAIN kept
      /\ \A l \in DOMAIN kept : /\ IsFiniteSet(BegunBy(s, kept, l))
                               /\ Cardinality(BegunBy(s, kept, l)) \in Nat
  BY BegunGood DEF begun, Good
<1>4. DOMAIN loops2 = DOMAIN s.loops
  BY DEF loops2
<1>5. DOMAIN satisfied2 = DOMAIN s.satisfied \cup begun
  BY DEF satisfied2
<1>6. \A l \in DOMAIN s.loops : IsLoop(s, l)
  BY DEF Good, IsState
<1>7. satisfied2 \in [DOMAIN satisfied2 -> SUBSET Nodes]
  <2>1. \A l : Satisfied(s, l) \subseteq Nodes
    BY DEF Satisfied, Good, IsState
  <2>2. \A g \in begun : g.lineage.loop \in Nodes
    BY <1>3, <1>6 DEF IsLoop
  <2>3. \A l \in DOMAIN s.satisfied : s.satisfied[l] \subseteq Nodes
    BY DEF Good, IsState
  <2> QED
    BY <1>5, <2>1, <2>2, <2>3 DEF satisfied2
<1>8. \A l \in DOMAIN loops2 : IsLoop(r, l)
  <2> SUFFICES ASSUME NEW l \in DOMAIN s.loops PROVE IsLoop(r, l)
    BY <1>4
  <2>1. IsLoop(s, l)
    BY <1>6
  <2>2. CASE l \notin DOMAIN kept
    <3>1. loops2[l] = s.loops[l]
      BY <2>2 DEF loops2
    <3> QED
      BY <1>2, <1>4, <1>5, <2>1, <3>1 DEF IsLoop
  <2>3. CASE l \in DOMAIN kept
    <3>1. loops2[l] = Loop(l)
      BY <2>3 DEF loops2
    <3>2. /\ loops2[l].items = s.loops[l].items
          /\ loops2[l].limit = s.loops[l].limit
          /\ loops2[l].routes = s.loops[l].routes
          /\ loops2[l].parent = s.loops[l].parent
          /\ loops2[l].parentLoops = s.loops[l].parentLoops
      BY <3>1 DEF Loop
    <3>3. loops2[l].next \in Nat
      BY <1>3, <2>1, <2>3, <3>1 DEF Loop, IsLoop
    <3>4. IsFiniteSet(loops2[l].active)
      <4>1. IsFiniteSet(kept[l] \cup BegunBy(s, kept, l))
        BY <1>3, <2>3, FS_Union
      <4>2. loops2[l].active \in {s.loops[l].active, {}, kept[l] \cup BegunBy(s, kept, l)}
        BY <3>1 DEF Loop
      <4> QED
        BY <2>1, <4>1, <4>2, FS_EmptySet DEF IsLoop
    <3> QED
      BY <1>2, <1>4, <1>5, <2>1, <3>2, <3>3, <3>4 DEF IsLoop
  <2> QED
    BY <2>2, <2>3
<1>9. \A a \in s.pending \cup Activations(s.running) : IsActivation(r, a)
  BY <1>2, <1>4, <1>5 DEF Good, IsState, IsActivation
<1>10. IsRecord(r)
  BY <1>2 DEF IsRecord
<1>11. IsState(r)
  BY <1>2, <1>4, <1>5, <1>7, <1>8, <1>9 DEF Good, IsState
<1> QED
  BY <1>2, <1>4, <1>5, <1>10, <1>11 DEF Good, r, begun

(* Filling loops up to their capacity adds pending work and iterations.     *)
LEMMA FillGood ==
  ASSUME NEW s, Good(s), NEW kept, DOMAIN kept \subseteq DOMAIN s.loops,
         \A l \in DOMAIN kept : IsFiniteSet(kept[l])
  PROVE  /\ Good(FillLoops(s, kept))
         /\ FillLoops(s, kept).running = s.running
         /\ DOMAIN FillLoops(s, kept).loops = DOMAIN s.loops
         /\ DOMAIN s.satisfied \subseteq DOMAIN FillLoops(s, kept).satisfied
<1> DEFINE filled == Filled(s, kept)
           begun == Begun(s, kept)
           all == {IterationSignals(filled, g) : g \in begun}
           signals == UNION all
           f == [g \in begun |-> IterationSignals(filled, g)]
<1>1. FillLoops(s, kept) = Enqueue(filled, signals)
  BY DEF FillLoops
<1>2. /\ Good(filled)
      /\ filled.running = s.running
      /\ DOMAIN filled.loops = DOMAIN s.loops
      /\ DOMAIN filled.satisfied = DOMAIN s.satisfied \cup begun
  BY FilledGood
<1>3. IsFiniteSet(begun) /\ \A g \in begun : g.lineage \in DOMAIN kept
  BY BegunGood DEF Good
<1> HIDE DEF filled, begun
<1>4. \A g \in begun : /\ IsFiniteSet(IterationSignals(filled, g))
                      /\ \A x \in IterationSignals(filled, g) : IsSignal(filled, x)
  BY <1>2, <1>3, IterationSignalsGood DEF Good
<1>5. f \in [begun -> all] /\ \A B \in all : \E g \in begun : f[g] = B
  OBVIOUS
<1>6. \A B \in all : IsFiniteSet(B)
  BY <1>4
<1>7. \A x \in signals : IsSignal(filled, x)
  BY <1>4
<1> HIDE DEF f, all
<1>8. IsFiniteSet(all)
  BY <1>3, <1>5, ImageFinite
<1>9. IsFiniteSet(signals)
  BY <1>6, <1>8, FS_UNION
<1> HIDE DEF signals
<1> QED
  BY <1>1, <1>2, <1>7, <1>9, EnqueueGood

(* Dropping iterations that are over and filling the loops again.           *)
LEMMA SettleGood ==
  ASSUME NEW s, Good(s)
  PROVE  /\ Good(SettleLoops(s))
         /\ SettleLoops(s).running = s.running
         /\ DOMAIN SettleLoops(s).loops = DOMAIN s.loops
         /\ DOMAIN s.satisfied \subseteq DOMAIN SettleLoops(s).satisfied
<1> DEFINE Live(l) == {g \in s.loops[l].active :
                         \E live \in LiveGroups(s) : live = g \/ g \in live.inside}
           kept == [l \in DOMAIN s.loops |-> Live(l)]
<1>1. \A l \in DOMAIN s.loops : IsFiniteSet(Live(l))
  <2> SUFFICES ASSUME NEW l \in DOMAIN s.loops PROVE IsFiniteSet(Live(l))
    OBVIOUS
  <2>1. IsFiniteSet(s.loops[l].active)
    BY DEF Good, IsState, IsLoop
  <2>2. Live(l) \subseteq s.loops[l].active
    OBVIOUS
  <2> HIDE DEF Live
  <2> QED
    BY <2>1, <2>2, FS_Subset
<1>2. SettleLoops(s) = FillLoops(s, kept)
  BY DEF SettleLoops
<1> HIDE DEF Live
<1>3. DOMAIN kept = DOMAIN s.loops /\ \A l \in DOMAIN kept : IsFiniteSet(kept[l])
  BY <1>1
<1> HIDE DEF kept
<1> QED
  BY <1>2, <1>3, FillGood

(* Recording that a node completed in a lineage.                            *)
LEMMA SatisfyGood ==
  ASSUME NEW s, Good(s), NEW lineage, NEW n \in Nodes
  PROVE  /\ Good(Satisfy(s, lineage, n))
         /\ Satisfy(s, lineage, n).pending = s.pending
         /\ Satisfy(s, lineage, n).running = s.running
         /\ Satisfy(s, lineage, n).loops = s.loops
         /\ DOMAIN Satisfy(s, lineage, n).satisfied = DOMAIN s.satisfied \cup {lineage}
<1> DEFINE satisfied2 == [l \in DOMAIN s.satisfied \cup {lineage} |->
                            IF l = lineage THEN Satisfied(s, l) \cup {n} ELSE s.satisfied[l]]
           r == Satisfy(s, lineage, n)
<1>1. r = [s EXCEPT !.satisfied = satisfied2]
  BY DEF Satisfy
<1> HIDE DEF satisfied2, r
<1>2. r = [pending |-> s.pending, running |-> s.running, satisfied |-> satisfied2,
           loops |-> s.loops, sequence |-> s.sequence]
  <2>1. IsRecord(s)
    BY DEF Good
  <2> QED
    BY <1>1, <2>1 DEF IsRecord
<1>3. DOMAIN satisfied2 = DOMAIN s.satisfied \cup {lineage}
  BY DEF satisfied2
<1>4. satisfied2 \in [DOMAIN satisfied2 -> SUBSET Nodes]
  <2>1. \A l : Satisfied(s, l) \subseteq Nodes
    BY DEF Satisfied, Good, IsState
  <2>2. \A l \in DOMAIN s.satisfied : s.satisfied[l] \subseteq Nodes
    BY DEF Good, IsState
  <2> QED
    BY <1>3, <2>1, <2>2 DEF satisfied2
<1>5. \A l \in DOMAIN s.loops : IsLoop(r, l)
  BY <1>2, <1>3 DEF Good, IsState, IsLoop
<1>6. \A a \in s.pending \cup Activations(s.running) : IsActivation(r, a)
  BY <1>2, <1>3 DEF Good, IsState, IsActivation
<1>7. IsRecord(r) /\ IsState(r)
  BY <1>2, <1>3, <1>4, <1>5, <1>6 DEF Good, IsState, IsRecord
<1> QED
  BY <1>2, <1>3, <1>7 DEF Good, r

(* The loop that a completed loop node opens, and the state that holds it    *)
(* before it is filled.                                                     *)
NewLoop(s, c, routes) ==
  LET a      == c.task.activation
      source == Node[a.node].source
      ok     == c.outcome = "success"
  IN  [items |-> c.items, infinite |-> ok /\ source.infinite,
       limit |-> IF ok THEN source.max_concurrency ELSE 1,
       failFast |-> ok /\ source.fail_fast, routes |-> routes,
       parent |-> a.lineage, parentLoops |-> a.loops,
       next |-> 0, closed |-> FALSE, active |-> {},
       born |-> Cardinality(DOMAIN s.loops)]

NewLineage(c) == LoopLineage(c.task.activation, c.task.run)

Opened(s, c, routes) ==
  [s EXCEPT !.loops = [l \in DOMAIN s.loops \cup {NewLineage(c)} |->
                         IF l = NewLineage(c) THEN NewLoop(s, c, routes) ELSE s.loops[l]]]

LEMMA OpenIsFill ==
  ASSUME NEW s, NEW c, NEW routes
  PROVE  OpenLoop(s, c, routes) = FillLoops(Opened(s, c, routes), [l \in {NewLineage(c)} |-> {}])
BY DEF OpenLoop, Opened, NewLoop, NewLineage

(* The state with the new loop is well-formed.                              *)
LEMMA OpenedGood ==
  ASSUME NEW s, Good(s), NEW c, IsActivation(s, c.task.activation), c.items \in Nat,
         NEW routes, routes \subseteq DOMAIN Node[c.task.activation.node].routes
  PROVE  LET r == Opened(s, c, routes)
         IN  /\ Good(r)
             /\ r.pending = s.pending /\ r.running = s.running
             /\ r.satisfied = s.satisfied /\ r.sequence = s.sequence
             /\ DOMAIN r.loops = DOMAIN s.loops \cup {NewLineage(c)}
             /\ r.loops[NewLineage(c)] = NewLoop(s, c, routes)
             /\ \A l \in DOMAIN s.loops : l # NewLineage(c) => r.loops[l] = s.loops[l]
<1> DEFINE a      == c.task.activation
           source == Node[a.node].source
           opened == NewLineage(c)
           loop   == NewLoop(s, c, routes)
           loops2 == [l \in DOMAIN s.loops \cup {opened} |-> IF l = opened THEN loop ELSE s.loops[l]]
           r == Opened(s, c, routes)
<1>1. opened.loop = a.node
  BY DEF NewLineage, LoopLineage
<1>2. /\ loop.items = c.items /\ loop.next = 0 /\ loop.routes = routes
      /\ loop.limit \in {source.max_concurrency, 1}
      /\ loop.parent = a.lineage /\ loop.parentLoops = a.loops /\ loop.active = {}
  BY DEF NewLoop
<1>3. DOMAIN loops2 = DOMAIN s.loops \cup {opened} /\ loops2[opened] = loop
      /\ \A l \in DOMAIN s.loops : l # opened => loops2[l] = s.loops[l]
  OBVIOUS
<1>4. source.max_concurrency \in Nat \ {0}
  BY NodeAssumption DEF IsNode, IsActivation
<1>5. r = [s EXCEPT !.loops = loops2]
  BY DEF Opened
<1> HIDE DEF opened, loop, loops2, source, r
<1>6. r = [pending |-> s.pending, running |-> s.running, satisfied |-> s.satisfied,
           loops |-> loops2, sequence |-> s.sequence]
  <2>1. IsRecord(s)
    BY DEF Good
  <2> QED
    BY <1>5, <2>1 DEF IsRecord
<1>7. IsLoop(r, opened)
  BY <1>1, <1>2, <1>3, <1>4, <1>6, FS_EmptySet DEF IsLoop, IsActivation
<1>8. \A l \in DOMAIN s.loops : l # opened => IsLoop(r, l)
  BY <1>3, <1>6 DEF Good, IsState, IsLoop
<1>9. \A b \in s.pending \cup Activations(s.running) : IsActivation(r, b)
  BY <1>3, <1>6 DEF Good, IsState, IsActivation
<1>10. IsFiniteSet(DOMAIN loops2)
  BY <1>3, FS_AddElement DEF Good, IsState
<1>11. Good(r)
  <2>1. IsRecord(r)
    BY <1>6 DEF IsRecord
  <2>2. IsState(r)
    BY <1>3, <1>6, <1>7, <1>8, <1>9, <1>10 DEF Good, IsState
  <2> QED
    BY <2>1, <2>2 DEF Good
<1> QED
  BY <1>3, <1>6, <1>11 DEF r, loop, opened

(* Opening a loop for a well-formed activation of a loop node.              *)
LEMMA OpenGood ==
  ASSUME NEW s, Good(s), NEW c, IsActivation(s, c.task.activation), c.items \in Nat,
         NEW routes, routes \subseteq DOMAIN Node[c.task.activation.node].routes
  PROVE  /\ Good(OpenLoop(s, c, routes))
         /\ OpenLoop(s, c, routes).running = s.running
         /\ DOMAIN s.loops \subseteq DOMAIN OpenLoop(s, c, routes).loops
         /\ DOMAIN s.satisfied \subseteq DOMAIN OpenLoop(s, c, routes).satisfied
<1> DEFINE r == Opened(s, c, routes)
           kept == [l \in {NewLineage(c)} |-> {}]
<1>1. OpenLoop(s, c, routes) = FillLoops(r, kept)
  BY OpenIsFill
<1>2. /\ Good(r) /\ r.running = s.running /\ r.satisfied = s.satisfied
      /\ DOMAIN r.loops = DOMAIN s.loops \cup {NewLineage(c)}
  BY OpenedGood
<1>3. DOMAIN kept = {NewLineage(c)} /\ \A l \in DOMAIN kept : IsFiniteSet(kept[l])
  BY FS_EmptySet
<1> HIDE DEF kept, r
<1> QED
  BY <1>1, <1>2, <1>3, FillGood

(* Closing a loop changes neither its iterations nor what is running.       *)
LEMMA CloseGood ==
  ASSUME NEW s, Good(s), NEW a, IsActivation(s, a)
  PROVE  /\ Good(CloseLoop(s, a))
         /\ CloseLoop(s, a).running = s.running
         /\ DOMAIN CloseLoop(s, a).loops = DOMAIN s.loops
         /\ CloseLoop(s, a).satisfied = s.satisfied
<1> DEFINE id == Node[a.node].loop
           l == a.loops[id]
           left == {q \in s.pending : ~ (id \in DOMAIN q.loops /\ q.loops[id] = a.loops[id])}
           loops2 == [s.loops EXCEPT ![l].closed = TRUE]
           r == CloseLoop(s, a)
<1>1. CASE id \notin DOMAIN a.loops \/ s.loops[l].closed
  <2>1. r = s
    BY <1>1 DEF CloseLoop
  <2> QED
    BY <2>1
<1>2. CASE ~ (id \notin DOMAIN a.loops \/ s.loops[l].closed)
  <2>1. r = [s EXCEPT !.loops[l].closed = TRUE, !.pending = left]
    BY <1>2 DEF CloseLoop
  <2>2. l \in DOMAIN s.loops
    BY <1>2 DEF IsActivation
  <2> HIDE DEF r, l, left
  <2>3. r = [pending |-> left, running |-> s.running, satisfied |-> s.satisfied,
             loops |-> loops2, sequence |-> s.sequence]
    <3>1. IsRecord(s)
      BY DEF Good
    <3> QED
      BY <2>1, <3>1 DEF IsRecord
  <2>4. DOMAIN loops2 = DOMAIN s.loops
    OBVIOUS
  <2>5. \A k \in DOMAIN s.loops :
          /\ loops2[k].items = s.loops[k].items
          /\ loops2[k].limit = s.loops[k].limit
          /\ loops2[k].next = s.loops[k].next
          /\ loops2[k].routes = s.loops[k].routes
          /\ loops2[k].parent = s.loops[k].parent
          /\ loops2[k].parentLoops = s.loops[k].parentLoops
          /\ loops2[k].active = s.loops[k].active
    OBVIOUS
  <2> HIDE DEF loops2
  <2>6. \A k \in DOMAIN s.loops : IsLoop(r, k)
    BY <2>3, <2>4, <2>5 DEF Good, IsState, IsLoop
  <2>7. left \subseteq s.pending
    BY DEF left
  <2>8. IsFiniteSet(left)
    BY <2>7, FS_Subset DEF Good, IsState
  <2>9. \A b \in left \cup Activations(s.running) : IsActivation(r, b)
    BY <2>3, <2>4, <2>7 DEF Good, IsState, IsActivation
  <2>10. IsRecord(r)
    BY <2>3 DEF IsRecord
  <2>11. IsState(r)
    BY <2>3, <2>4, <2>6, <2>8, <2>9 DEF Good, IsState
  <2> QED
    BY <2>3, <2>4, <2>10, <2>11 DEF Good, r
<1> QED
  BY <1>1, <1>2

(* A set of numbered things that is not empty has a least one.              *)
LEMMA LeastExists ==
  ASSUME NEW W, W # {}, NEW f \in [W -> Nat]
  PROVE  \E a \in W : \A b \in W : f[a] <= f[b]
<1> DEFINE T == {f[a] : a \in W}
<1>1. T \subseteq Nat /\ T # {}
  OBVIOUS
<1> HIDE DEF T
<1>2. PICK m \in T : \A k \in T : ~ (<<k, m>> \in OpToRel(<, Nat))
  BY <1>1, NatLessThanWellFounded, WFMin
<1>3. \A k, n \in Nat : k < n => <<k, n>> \in OpToRel(<, Nat)
  BY DEF OpToRel
<1>4. \A k \in T : m <= k
  <2>1. SUFFICES ASSUME NEW k \in T, ~ (m <= k) PROVE FALSE
    OBVIOUS
  <2>2. k \in Nat /\ m \in Nat /\ k < m
    BY <1>1, <2>1
  <2> QED
    BY <1>2, <1>3, <2>2
<1> QED
  BY <1>2, <1>4 DEF T

(* What waits for a target is first and least in it.                        *)
LEMMA WaitingFirstLeast ==
  ASSUME NEW s, Good(s), NEW lineage, NEW n, Waiting(s, lineage, n) # {}
  PROVE  /\ First(Waiting(s, lineage, n)) \in Waiting(s, lineage, n)
         /\ Least(Waiting(s, lineage, n)) \in Waiting(s, lineage, n)
<1> DEFINE W == Waiting(s, lineage, n)
           place == [a \in W |-> a.place]
           number == [a \in W |-> a.sequence]
<1>1. \A a \in W : a.place \in Nat /\ a.sequence \in Nat
  BY DEF Waiting, At, Good, IsState, IsActivation
<1> HIDE DEF W
<1>2. \E a \in W : \A b \in W : place[a] <= place[b]
  BY <1>1, LeastExists DEF W
<1>3. \E a \in W : \A b \in W : number[a] <= number[b]
  BY <1>1, LeastExists DEF W
<1>4. \E a \in W : \A b \in W : a.place <= b.place
  BY <1>2
<1>5. \E a \in W : \A b \in W : a.sequence <= b.sequence
  BY <1>3
<1> QED
  BY <1>4, <1>5 DEF First, Least, W

(* Coalescing the signals that waited for the targets of a lineage.         *)
LEMMA MergeGood ==
  ASSUME NEW s, Good(s), NEW lineage \in DOMAIN s.satisfied, NEW targets \in SUBSET Nodes
  PROVE  /\ Good(MergeLockedSignals(s, lineage, targets))
         /\ MergeLockedSignals(s, lineage, targets).running = s.running
         /\ MergeLockedSignals(s, lineage, targets).loops = s.loops
         /\ MergeLockedSignals(s, lineage, targets).satisfied = s.satisfied
<1> DEFINE merging == {n \in targets : Cardinality(Waiting(s, lineage, n)) > 1}
           gone == UNION {Waiting(s, lineage, n) : n \in merging}
           new == {Merged(s, lineage, n) : n \in merging}
           last == s.sequence + IF merging = {} THEN 0 ELSE 1
           r == MergeLockedSignals(s, lineage, targets)
<1>1. r = [s EXCEPT !.pending = (s.pending \ gone) \cup new, !.sequence = last]
  BY DEF MergeLockedSignals
<1>2. merging \subseteq Nodes
  OBVIOUS
<1>3. \A n \in merging : Waiting(s, lineage, n) # {}
  BY FS_EmptySet
<1>4. IsFiniteSet(merging)
  BY <1>2, NodesAssumption, FS_Subset
<1>5. last \in Nat
  BY DEF Good, IsState
<1> HIDE DEF r, merging, gone, last
<1>6. r = [pending |-> (s.pending \ gone) \cup new, running |-> s.running,
           satisfied |-> s.satisfied, loops |-> s.loops, sequence |-> last]
  <2> HIDE DEF new
  <2>1. IsRecord(s)
    BY DEF Good
  <2> QED
    BY <1>1, <2>1 DEF IsRecord
<1>7. IsFiniteSet(new)
  <2> DEFINE f == [n \in merging |-> Merged(s, lineage, n)]
  <2>1. f \in [merging -> new] /\ \A x \in new : \E n \in merging : f[n] = x
    OBVIOUS
  <2> HIDE DEF f, new
  <2> QED
    BY <1>4, <2>1, ImageFinite
<1>8. \A n \in merging : IsActivation(r, Merged(s, lineage, n))
  <2> SUFFICES ASSUME NEW n \in merging PROVE IsActivation(r, Merged(s, lineage, n))
    OBVIOUS
  <2> DEFINE W == Waiting(s, lineage, n)
             m == Merged(s, lineage, n)
  <2>1. First(W) \in W /\ Least(W) \in W
    BY <1>3, WaitingFirstLeast
  <2>2. \A a \in W : IsActivation(s, a)
    BY DEF Waiting, At, Good, IsState
  <2>3. /\ m.node = n /\ m.lineage = lineage /\ m.loops = First(W).loops
        /\ m.sequence = Least(W).sequence /\ m.place = s.sequence + 1
    BY DEF Merged
  <2> HIDE DEF W, m
  <2>4. s.sequence \in Nat
    BY DEF Good, IsState
  <2>5. IsActivation(r, m)
    BY <1>2, <1>6, <2>1, <2>2, <2>3, <2>4 DEF IsActivation
  <2> QED
    BY <2>5 DEF m
<1>9. \A a \in new : IsActivation(r, a)
  BY <1>8
<1> HIDE DEF new
<1>10. \A a \in s.pending \cup Activations(s.running) : IsActivation(r, a)
  BY <1>6 DEF Good, IsState, IsActivation
<1>11. IsFiniteSet((s.pending \ gone) \cup new)
  <2>1. IsFiniteSet(s.pending \ gone)
    BY FS_Subset DEF Good, IsState
  <2> QED
    BY <1>7, <2>1, FS_Union
<1>12. \A l \in DOMAIN s.loops : IsLoop(r, l)
  BY <1>6 DEF Good, IsState, IsLoop
<1>13. IsRecord(r)
  BY <1>6 DEF IsRecord
<1>14. IsState(r)
  BY <1>5, <1>6, <1>9, <1>10, <1>11, <1>12 DEF Good, IsState
<1> QED
  BY <1>6, <1>13, <1>14 DEF Good, r

(* Latching, routing, merging and settling for a completed node.            *)
LEMMA AdvanceGood ==
  ASSUME NEW s, Good(s), NEW a, IsActivation(s, a),
         NEW routes, routes \subseteq DOMAIN Node[a.node].routes
  PROVE  Good(Advance(s, a, routes)) /\ Advance(s, a, routes).running = s.running
<1> DEFINE latched == Satisfy(s, a.lineage, a.node)
           unlocked == {n \in Nodes : /\ ~ Unlocked(s, n, a.lineage)
                                     /\ Unlocked(latched, n, a.lineage)}
           signals == Signals(a, routes)
           routed == Enqueue(latched, signals)
           merged == MergeLockedSignals(routed, a.lineage, unlocked)
<1>1. Advance(s, a, routes) = SettleLoops(merged)
  BY DEF Advance
<1>2. a.node \in Nodes /\ a.lineage \in DOMAIN s.satisfied
      /\ \A id \in DOMAIN a.loops : a.loops[id] \in DOMAIN s.loops
  BY DEF IsActivation
<1>3. /\ Good(latched) /\ latched.running = s.running /\ latched.loops = s.loops
      /\ DOMAIN latched.satisfied = DOMAIN s.satisfied \cup {a.lineage}
  BY <1>2, SatisfyGood
<1>4. IsFiniteSet(signals)
  <2> DEFINE Signal(r) == [node |-> Node[a.node].routes[r].target, group |-> a.group,
                           lineage |-> a.lineage, loops |-> a.loops, order |-> <<0, 0, r>>]
             f == [r \in routes |-> Signal(r)]
  <2>1. f \in [routes -> signals] /\ \A x \in signals : \E r \in routes : f[r] = x
    BY DEF Signals
  <2>2. IsFiniteSet(routes)
    BY <1>2, RoutesFinite, FS_Subset
  <2> HIDE DEF f, signals
  <2> QED
    BY <2>1, <2>2, ImageFinite
<1>5. \A x \in signals : x.node \in Nodes /\ x.lineage = a.lineage /\ x.loops = a.loops
  <2>1. \A r \in routes : Node[a.node].routes[r].target \in Nodes
    BY <1>2, RoutesFinite
  <2> QED
    BY <2>1 DEF Signals
<1> HIDE DEF latched, signals
<1>6. \A x \in signals : IsSignal(latched, x)
  BY <1>2, <1>3, <1>5 DEF IsSignal
<1>7. Good(routed) /\ routed.running = s.running /\ routed.satisfied = latched.satisfied
  BY <1>3, <1>4, <1>6, EnqueueGood
<1>8. unlocked \subseteq Nodes
  OBVIOUS
<1> HIDE DEF routed, unlocked
<1>9. Good(merged) /\ merged.running = s.running
  BY <1>3, <1>7, <1>8, MergeGood
<1> HIDE DEF merged
<1> QED
  BY <1>1, <1>9, SettleGood

(* What a loop or a break does keeps the activation that completed.         *)
LEMMA ControlGood ==
  ASSUME NEW s, Good(s), NEW c, IsActivation(s, c.task.activation), c.items \in Nat,
         NEW routes, routes \subseteq DOMAIN Node[c.task.activation.node].routes
  PROVE  /\ Good(Control(s, c, routes))
         /\ Control(s, c, routes).running = s.running
         /\ IsActivation(Control(s, c, routes), c.task.activation)
<1> DEFINE a == c.task.activation
           r == Control(s, c, routes)
<1>1. a.node \in Nodes
  BY DEF IsActivation
<1>2. SUFFICES /\ Good(r) /\ r.running = s.running
               /\ DOMAIN s.satisfied \subseteq DOMAIN r.satisfied
               /\ DOMAIN s.loops \subseteq DOMAIN r.loops
  BY DEF IsActivation
<1>3. CASE Node[a.node].type = "loop"
  <2> DEFINE latched == Satisfy(s, a.lineage, a.node)
             opened == OpenLoop(latched, c, routes)
  <2>1. r = SettleLoops(opened)
    BY <1>3 DEF Control
  <2>2. /\ Good(latched) /\ latched.running = s.running /\ latched.loops = s.loops
        /\ DOMAIN s.satisfied \subseteq DOMAIN latched.satisfied
    BY <1>1, SatisfyGood
  <2> HIDE DEF latched
  <2>3. IsActivation(latched, a)
    BY <2>2 DEF IsActivation
  <2>4. /\ Good(opened) /\ opened.running = latched.running
        /\ DOMAIN latched.loops \subseteq DOMAIN opened.loops
        /\ DOMAIN latched.satisfied \subseteq DOMAIN opened.satisfied
    BY <2>2, <2>3, OpenGood
  <2> HIDE DEF opened
  <2> QED
    BY <2>1, <2>2, <2>4, SettleGood
<1>4. CASE Node[a.node].type = "break"
  <2> DEFINE closed == CloseLoop(s, a)
  <2>1. r = SettleLoops(closed)
    BY <1>4 DEF Control
  <2>2. /\ Good(closed) /\ closed.running = s.running
        /\ DOMAIN closed.loops = DOMAIN s.loops /\ closed.satisfied = s.satisfied
    BY CloseGood
  <2> HIDE DEF closed
  <2> QED
    BY <2>1, <2>2, SettleGood
<1>5. CASE Node[a.node].type \notin {"loop", "break"}
  <2>1. r = s
    BY <1>5 DEF Control
  <2> QED
    BY <2>1
<1> QED
  BY <1>3, <1>4, <1>5

(***************************************************************************)
(* Starting runs.                                                           *)
(***************************************************************************)

(* The tasks are numbered within the runs that were charged.                *)
Charged(tasks, counts) ==
  \A t \in tasks : /\ t.attempt \in 1 .. (Node[t.activation.node].retry_count + 1)
                  /\ t.run \in 1 .. counts[t.activation.node]

OfNode(tasks, n) == {t \in tasks : t.activation.node = n}

Fits(tasks) == \A n \in Nodes : Cardinality(OfNode(tasks, n)) <= Node[n].max_concurrency

(* A finite set of numbered things that is not empty has a greatest one.    *)
LEMMA GreatestExists ==
  ASSUME NEW W, IsFiniteSet(W), W # {}, NEW f \in [W -> Nat]
  PROVE  \E a \in W : \A b \in W : f[b] <= f[a]
<1> DEFINE HasGreatest(S) == \E a \in S : \A b \in S : f[b] <= f[a]
           T == {S \in SUBSET W : S # {} /\ ~ HasGreatest(S)}
<1>1. SUFFICES ASSUME W \in T PROVE FALSE
  OBVIOUS
<1>2. T \subseteq FiniteSubsetsOf(W) /\ T # {}
  BY <1>1, FS_Subset DEF FiniteSubsetsOf
<1>3. \A S \in T : S \in SUBSET W /\ S # {} /\ ~ HasGreatest(S)
  OBVIOUS
<1>4. \A S \in SUBSET W : S # {} /\ S \notin T => HasGreatest(S)
  OBVIOUS
<1> HIDE DEF T
<1>5. PICK S \in T : \A U \in T : ~ (<<U, S>> \in StrictSubsetOrdering(W))
  BY <1>2, FS_StrictSubsetOrderingWellFounded, WFMin
<1>6. PICK x \in S : TRUE
  BY <1>3
<1>7. x \in W /\ f[x] \in Nat
  BY <1>3
<1>8. CASE S \ {x} = {}
  <2>1. \A b \in S : b = x
    BY <1>8
  <2> QED
    BY <1>3, <1>6, <1>7, <2>1
<1>9. CASE S \ {x} # {}
  <2>1. <<S \ {x}, S>> \in StrictSubsetOrdering(W)
    BY <1>3, <1>6 DEF StrictSubsetOrdering
  <2>2. HasGreatest(S \ {x})
    BY <1>3, <1>4, <1>5, <1>9, <2>1
  <2>3. PICK m \in S \ {x} : \A b \in S \ {x} : f[b] <= f[m]
    BY <2>2
  <2>4. m \in W /\ f[m] \in Nat /\ \A b \in S : f[b] \in Nat
    BY <1>3
  <2>5. CASE f[m] <= f[x]
    <3>1. \A b \in S : f[b] <= f[x]
      BY <1>7, <2>3, <2>4, <2>5
    <3> QED
      BY <1>3, <1>6, <3>1
  <2>6. CASE f[x] <= f[m]
    <3>1. \A b \in S : f[b] <= f[m]
      BY <2>3, <2>6
    <3> QED
      BY <1>3, <3>1
  <2> QED
    BY <1>7, <2>4, <2>5, <2>6
<1> QED
  BY <1>8, <1>9

(* Candidates are as many as the node has room for.                         *)
LEMMA CandidatesFit ==
  ASSUME NEW s, Good(s), Fits(s.running), NEW chosen \in SUBSET s.pending,
         AreCandidates(s, chosen), NEW started \in SUBSET chosen, NEW n \in Nodes,
         NEW tasks, IsFiniteSet(tasks),
         Cardinality(tasks) <= Cardinality(At(started, n))
  PROVE  /\ IsFiniteSet(OfNode(s.running, n) \cup tasks)
         /\ Cardinality(OfNode(s.running, n) \cup tasks) <= Node[n].max_concurrency
<1> DEFINE now == OfNode(s.running, n)
           limit == Node[n].max_concurrency
<1>1. limit \in Nat
  BY NodeAssumption DEF IsNode
<1>2. IsFiniteSet(now) /\ Cardinality(now) \in Nat
  BY FS_Subset, FS_CardinalityType DEF OfNode, Good, IsState
<1>3. IsFiniteSet(At(chosen, n)) /\ Cardinality(At(chosen, n)) \in Nat
  BY FS_Subset, FS_CardinalityType DEF At, Good, IsState
<1>4. Cardinality(At(started, n)) <= Cardinality(At(chosen, n))
  BY <1>3, FS_Subset DEF At
<1>5. IsFiniteSet(At(started, n)) /\ Cardinality(At(started, n)) \in Nat
  BY FS_Subset, FS_CardinalityType DEF At, Good, IsState
<1>6. Capacity(s, n) = limit - Cardinality(now)
  BY DEF Capacity, OfNode
<1>7. Cardinality(At(chosen, n)) <= Capacity(s, n)
  <2> DEFINE queued == Cardinality(At(Runnable(s), n))
  <2>1. Cardinality(At(chosen, n)) = IF queued <= Capacity(s, n) THEN queued ELSE Capacity(s, n)
    BY DEF AreCandidates
  <2> HIDE DEF queued
  <2>2. Capacity(s, n) \in Int
    BY <1>1, <1>2, <1>6
  <2> QED
    BY <2>1, <2>2
<1>8. Cardinality(tasks) \in Nat
  BY FS_CardinalityType
<1>9. Cardinality(now \cap tasks) \in Nat
  BY <1>2, FS_Intersection, FS_CardinalityType
<1> HIDE DEF now, limit
<1>10. /\ IsFiniteSet(now \cup tasks)
       /\ Cardinality(now \cup tasks) = Cardinality(now) + Cardinality(tasks) - Cardinality(now \cap tasks)
  BY <1>2, FS_Union
<1>11. Cardinality(now \cup tasks) <= limit
  BY <1>1, <1>2, <1>3, <1>4, <1>5, <1>6, <1>7, <1>8, <1>9, <1>10
<1> QED
  BY <1>10, <1>11 DEF now, limit

(* The runs that are admitted stay within the limits.                       *)
LEMMA AdmittedWithin ==
  ASSUME NEW chosen, NEW started \in SUBSET chosen, IsFiniteSet(started),
         \A a \in started : a.sequence \in Nat /\ a.node \in Nodes,
         AreAdmitted(chosen, started), RunLimits,
         totalRuns \in Nat, runCounts \in [Nodes -> Nat]
  PROVE  /\ MaxRuns # 0 => totalRuns + Cardinality(started) <= MaxRuns
         /\ \A n \in Nodes : Node[n].max_runs # 0 =>
              runCounts[n] + Cardinality(At(started, n)) <= Node[n].max_runs
<1> DEFINE Before(a) == {b \in started \ {a} : b.sequence <= a.sequence}
<1>1. \A a \in started : ~ Exhausted(a.node, Before(a))
  BY DEF AreAdmitted
<1>2. ASSUME MaxRuns # 0 PROVE totalRuns + Cardinality(started) <= MaxRuns
  <2>1. CASE started = {}
    BY <1>2, <2>1, FS_EmptySet, MaxRunsAssumption DEF RunLimits
  <2>2. CASE started # {}
    <3> DEFINE f == [a \in started |-> a.sequence]
    <3>1. f \in [started -> Nat]
      OBVIOUS
    <3>2. PICK a \in started : \A b \in started : f[b] <= f[a]
      BY <2>2, <3>1, GreatestExists
    <3>3. Before(a) = started \ {a}
      BY <3>2
    <3>4. /\ Cardinality(started) \in Nat
          /\ Cardinality(started \ {a}) = Cardinality(started) - 1
      BY FS_CardinalityType, FS_RemoveElement
    <3>5. ~ (totalRuns + Cardinality(started \ {a}) >= MaxRuns)
      BY <1>1, <1>2, <3>3 DEF Exhausted
    <3> QED
      BY <3>4, <3>5, MaxRunsAssumption
  <2> QED
    BY <2>1, <2>2
<1>3. ASSUME NEW n \in Nodes, Node[n].max_runs # 0
      PROVE  runCounts[n] + Cardinality(At(started, n)) <= Node[n].max_runs
  <2> DEFINE W == At(started, n)
  <2>1. Node[n].max_runs \in Nat /\ runCounts[n] \in Nat
    BY NodeAssumption DEF IsNode
  <2>2. W \subseteq started /\ \A a \in W : a.node = n
    BY DEF At
  <2>3. IsFiniteSet(W) /\ Cardinality(W) \in Nat
    BY <2>2, FS_Subset, FS_CardinalityType
  <2>4. CASE W = {}
    BY <1>3, <2>1, <2>4, FS_EmptySet DEF RunLimits
  <2>5. CASE W # {}
    <3> DEFINE f == [a \in W |-> a.sequence]
    <3>1. f \in [W -> Nat]
      BY <2>2
    <3> HIDE DEF W
    <3>2. PICK a \in W : \A b \in W : f[b] <= f[a]
      BY <2>3, <2>5, <3>1, GreatestExists
    <3>3. \A b \in W : b.sequence <= a.sequence
      BY <3>2
    <3>4. At(Before(a), n) = W \ {a}
      BY <3>3 DEF At, W
    <3>5. Cardinality(W \ {a}) = Cardinality(W) - 1
      BY <2>3, FS_RemoveElement
    <3>6. a \in started /\ a.node = n
      BY <2>2
    <3>7. ~ (runCounts[n] + Cardinality(W \ {a}) >= Node[n].max_runs)
      BY <1>1, <1>3, <3>4, <3>6 DEF Exhausted
    <3>8. runCounts[n] + Cardinality(W) <= Node[n].max_runs
      BY <2>1, <2>3, <3>5, <3>7
    <3> QED
      BY <3>8 DEF W
  <2> QED
    BY <2>4, <2>5
<1> QED
  BY <1>2, <1>3

(* The facts about the runs of a state s that starting runs relies on.      *)
Countable(s) ==
  /\ Good(s)
  /\ Charged(s.running, runCounts)
  /\ Fits(s.running)
  /\ RunLimits
  /\ runCounts \in [Nodes -> Nat]
  /\ totalRuns \in Nat

(* The tasks that start are numbered within the runs charged, one for each  *)
(* activation.                                                              *)
LEMMA TasksCharged ==
  ASSUME NEW started, IsFiniteSet(started), \A a \in started : a.node \in Nodes /\ a.sequence \in Nat,
         runCounts \in [Nodes -> Nat]
  PROVE  /\ IsFiniteSet({Task(a, started) : a \in started})
         /\ Charged({Task(a, started) : a \in started},
                    [n \in Nodes |-> runCounts[n] + Cardinality(At(started, n))])
         /\ \A n \in Nodes :
              /\ IsFiniteSet(OfNode({Task(a, started) : a \in started}, n))
              /\ Cardinality(OfNode({Task(a, started) : a \in started}, n))
                   <= Cardinality(At(started, n))
<1> DEFINE tasks == {Task(a, started) : a \in started}
           counts == [n \in Nodes |-> runCounts[n] + Cardinality(At(started, n))]
<1>1. \A a \in started : /\ Task(a, started).activation = a
                         /\ Task(a, started).attempt = 1
  BY DEF Task
<1>2. IsFiniteSet(tasks)
  <2> DEFINE f == [a \in started |-> Task(a, started)]
  <2>1. f \in [started -> tasks] /\ \A t \in tasks : \E a \in started : f[a] = t
    OBVIOUS
  <2> HIDE DEF f, tasks
  <2> QED
    BY <2>1, ImageFinite
<1>3. \A a \in started : Task(a, started).run \in 1 .. counts[a.node]
  <2> SUFFICES ASSUME NEW a \in started PROVE Task(a, started).run \in 1 .. counts[a.node]
    OBVIOUS
  <2> DEFINE W == At(started, a.node)
             upto == {b \in W : b.sequence <= a.sequence}
  <2>1. IsFiniteSet(W) /\ Cardinality(W) \in Nat
    BY FS_Subset, FS_CardinalityType DEF At
  <2>2. upto \subseteq W /\ a \in upto
    BY DEF At
  <2>3. Task(a, started).run = runCounts[a.node] + Cardinality(upto)
    BY DEF Task
  <2>4. counts[a.node] = runCounts[a.node] + Cardinality(W) /\ runCounts[a.node] \in Nat
    OBVIOUS
  <2> HIDE DEF W, upto
  <2>5. IsFiniteSet(upto) /\ Cardinality(upto) <= Cardinality(W)
    BY <2>1, <2>2, FS_Subset
  <2>6. Cardinality(upto) \in Nat /\ Cardinality(upto) # 0
    BY <2>2, <2>5, FS_CardinalityType, FS_EmptySet
  <2> HIDE DEF counts
  <2> QED
    BY <2>1, <2>3, <2>4, <2>5, <2>6
<1>4. \A n \in Nodes : /\ IsFiniteSet(OfNode(tasks, n))
                       /\ Cardinality(OfNode(tasks, n)) <= Cardinality(At(started, n))
  <2> SUFFICES ASSUME NEW n \in Nodes
               PROVE  /\ IsFiniteSet(OfNode(tasks, n))
                      /\ Cardinality(OfNode(tasks, n)) <= Cardinality(At(started, n))
    OBVIOUS
  <2> DEFINE W == At(started, n)
             f == [a \in W |-> Task(a, started)]
  <2>1. f \in [W -> OfNode(tasks, n)] /\ \A t \in OfNode(tasks, n) : \E a \in W : f[a] = t
    BY <1>1 DEF At, OfNode
  <2>2. IsFiniteSet(W)
    BY FS_Subset DEF At
  <2> HIDE DEF f, tasks, W
  <2>3. IsFiniteSet(OfNode(tasks, n)) /\ Cardinality(OfNode(tasks, n)) <= Cardinality(W)
    BY <2>1, <2>2, ImageFinite
  <2> QED
    BY <2>3 DEF W
<1>5. Charged(tasks, counts)
  <2> SUFFICES ASSUME NEW a \in started
               PROVE  /\ Task(a, started).attempt \in
                            1 .. (Node[Task(a, started).activation.node].retry_count + 1)
                      /\ Task(a, started).run \in 1 .. counts[Task(a, started).activation.node]
    BY DEF Charged
  <2>1. Node[a.node].retry_count \in Nat
    BY NodeAssumption DEF IsNode
  <2> HIDE DEF counts
  <2> QED
    BY <1>1, <1>3, <2>1
<1> HIDE DEF tasks, counts
<1>6. IsFiniteSet(tasks) /\ Charged(tasks, counts)
  BY <1>2, <1>5
<1> QED
  BY <1>4, <1>6 DEF tasks, counts

(* Starting keeps the state well-formed, the nodes within their capacity    *)
(* and the run within its limits.                                           *)
LEMMA StartGood ==
  ASSUME NEW s, Countable(s), StartRunnable(s)
  PROVE  /\ IsState(State')
         /\ runCounts' \in [Nodes -> Nat]
         /\ totalRuns' \in Nat
         /\ Charged(running', runCounts')
         /\ Fits(running')
         /\ RunLimits'
         /\ s.running \subseteq running'
         /\ phase' \in {"running", "cancelling"}
         /\ error' \in {"none", "run_limit"}
<1>1. PICK chosen, started :
        /\ chosen \in SUBSET Runnable(s)
        /\ started \in SUBSET chosen
        /\ AreCandidates(s, chosen)
        /\ AreAdmitted(chosen, started)
        /\ pending'   = s.pending \ started
        /\ running'   = s.running \cup {Task(a, started) : a \in started}
        /\ satisfied' = s.satisfied
        /\ loops'     = s.loops
        /\ sequence'  = s.sequence
        /\ runCounts' = [n \in Nodes |-> runCounts[n] + Cardinality(At(started, n))]
        /\ totalRuns' = totalRuns + Cardinality(started)
        /\ phase'     = IF started = chosen THEN "running" ELSE "cancelling"
        /\ error'     = IF started = chosen THEN "none" ELSE "run_limit"
  BY DEF StartRunnable
<1> DEFINE tasks == {Task(a, started) : a \in started}
<1>2. chosen \subseteq s.pending /\ started \subseteq s.pending
  BY <1>1 DEF Runnable
<1>3. IsFiniteSet(started) /\ Cardinality(started) \in Nat
  BY <1>2, FS_Subset, FS_CardinalityType DEF Countable, Good, IsState
<1>4. \A a \in s.pending : IsActivation(s, a)
  BY DEF Countable, Good, IsState
<1>5. \A a \in started : a.node \in Nodes /\ a.sequence \in Nat
  BY <1>2, <1>4 DEF IsActivation
<1>6. runCounts \in [Nodes -> Nat] /\ totalRuns \in Nat
  BY DEF Countable
<1>7. /\ IsFiniteSet(tasks)
      /\ Charged(tasks, runCounts')
      /\ \A n \in Nodes : /\ IsFiniteSet(OfNode(tasks, n))
                           /\ Cardinality(OfNode(tasks, n)) <= Cardinality(At(started, n))
  BY <1>1, <1>3, <1>5, <1>6, TasksCharged
<1>8. \A n \in Nodes : IsFiniteSet(At(started, n)) /\ Cardinality(At(started, n)) \in Nat
  BY <1>3, FS_Subset, FS_CardinalityType DEF At
<1>9. runCounts' \in [Nodes -> Nat] /\ totalRuns' \in Nat
      /\ \A n \in Nodes : runCounts[n] <= runCounts'[n]
  BY <1>1, <1>3, <1>6, <1>8
<1>10. Activations(tasks) = started
  <2>1. \A a \in started : Task(a, started).activation = a
    BY DEF Task
  <2> QED
    BY <2>1 DEF Activations
<1>11. running' = s.running \cup tasks
  BY <1>1
<1> HIDE DEF tasks
<1>12. IsState(State')
  <2> DEFINE r == State'
  <2>1. /\ r.pending = s.pending \ started /\ r.running = s.running \cup tasks
        /\ r.satisfied = s.satisfied /\ r.loops = s.loops /\ r.sequence = s.sequence
    BY <1>1, <1>11 DEF State
  <2> HIDE DEF r
  <2>2. IsState(s)
    BY DEF Countable, Good
  <2>3. IsFiniteSet(r.pending)
    BY <2>1, <2>2, FS_Subset DEF IsState
  <2>4. IsFiniteSet(r.running)
    <3>1. IsFiniteSet(s.running)
      BY <2>2 DEF IsState
    <3>2. IsFiniteSet(s.running \cup tasks)
      BY <1>7, <3>1, FS_Union
    <3> QED
      BY <2>1, <3>2
  <2>5. \A a \in s.pending \cup Activations(s.running) : IsActivation(r, a)
    BY <2>1, <2>2 DEF IsState, IsActivation
  <2>6. Activations(r.running) = Activations(s.running) \cup started
    BY <1>10, <2>1 DEF Activations
  <2>7. \A l \in DOMAIN s.loops : IsLoop(r, l)
    BY <2>1, <2>2 DEF IsState, IsLoop
  <2>8. \A a \in r.pending \cup Activations(r.running) : IsActivation(r, a)
    BY <1>2, <2>1, <2>5, <2>6
  <2>9. IsState(r)
    BY <2>1, <2>2, <2>3, <2>4, <2>7, <2>8 DEF IsState
  <2> QED
    BY <2>9 DEF r
<1>13. Charged(running', runCounts')
  <2>1. Charged(s.running, runCounts')
    <3> SUFFICES ASSUME NEW t \in s.running
                 PROVE  /\ t.attempt \in 1 .. (Node[t.activation.node].retry_count + 1)
                        /\ t.run \in 1 .. runCounts'[t.activation.node]
      BY DEF Charged
    <3>1. t.activation.node \in Nodes
      BY DEF Countable, Good, IsState, IsActivation, Activations
    <3>2. t.attempt \in 1 .. (Node[t.activation.node].retry_count + 1)
          /\ t.run \in 1 .. runCounts[t.activation.node]
      BY DEF Countable, Charged
    <3>3. runCounts[t.activation.node] \in Nat /\ runCounts'[t.activation.node] \in Nat
          /\ runCounts[t.activation.node] <= runCounts'[t.activation.node]
      BY <1>6, <1>9, <3>1
    <3> QED
      BY <3>2, <3>3
  <2> QED
    BY <1>7, <1>11, <2>1 DEF Charged
<1>14. Fits(running')
  <2> SUFFICES ASSUME NEW n \in Nodes
               PROVE  Cardinality(OfNode(running', n)) <= Node[n].max_concurrency
    BY DEF Fits
  <2>1. OfNode(running', n) = OfNode(s.running, n) \cup OfNode(tasks, n)
    BY <1>11 DEF OfNode
  <2>2. Cardinality(OfNode(s.running, n) \cup OfNode(tasks, n)) <= Node[n].max_concurrency
    BY <1>1, <1>2, <1>7, CandidatesFit DEF Countable
  <2> QED
    BY <2>1, <2>2
<1>15. RunLimits'
  <2>1. /\ MaxRuns # 0 => totalRuns + Cardinality(started) <= MaxRuns
        /\ \A n \in Nodes : Node[n].max_runs # 0 =>
             runCounts[n] + Cardinality(At(started, n)) <= Node[n].max_runs
    BY <1>1, <1>3, <1>5, <1>6, AdmittedWithin DEF Countable
  <2> QED
    BY <1>1, <2>1 DEF RunLimits
<1> QED
  BY <1>1, <1>9, <1>11, <1>12, <1>13, <1>14, <1>15

(***************************************************************************)
(* The invariant.                                                           *)
(*                                                                          *)
(* Types alone are not inductive: a completion that is handled opens loops  *)
(* and signals routes for its activation, which is well-formed because its  *)
(* task still counts as running.  So the tasks of the completions on the    *)
(* stream are running, and differ, until the run is cancelled.  The         *)
(* capacity and the limits are carried along, since the numbering of runs   *)
(* and the room for candidates depend on them.                              *)
(***************************************************************************)
CompletionsOnce ==
  /\ completions \in Seq({completions[i] : i \in DOMAIN completions})
  /\ \A i, j \in DOMAIN completions : completions[i].task = completions[j].task => i = j
  /\ phase \in {"created", "running"} =>
       \A i \in DOMAIN completions : completions[i].task \in running

Inv == TypeOK /\ CompletionsOnce /\ CapacityRespected /\ RunLimits

(* A created run has no tasks and no completions. *)
LEMMA InitInv == Init => Inv
<1> SUFFICES ASSUME Init PROVE Inv
  OBVIOUS
<1>1. /\ pending = {} /\ running = {} /\ completions = <<>> /\ sequence = 0
      /\ satisfied = [l \in {Root} |-> {}] /\ loops = [l \in {} |-> {}]
      /\ runCounts = [n \in Nodes |-> 0] /\ totalRuns = 0
      /\ phase = "created" /\ error = "none" /\ deferred = FALSE
  BY DEF Init
<1>2. IsState(State)
  <2> DEFINE s == State
  <2>1. /\ s.pending = {} /\ s.running = {} /\ s.sequence = 0
        /\ s.satisfied = [l \in {Root} |-> {}] /\ s.loops = [l \in {} |-> {}]
    BY <1>1 DEF State
  <2> HIDE DEF s
  <2>2. DOMAIN s.loops = {} /\ DOMAIN s.satisfied = {Root} /\ s.satisfied \in [{Root} -> SUBSET Nodes]
    BY <2>1
  <2>3. Activations(s.running) = {}
    BY <2>1 DEF Activations
  <2>4. IsState(s)
    BY <2>1, <2>2, <2>3, FS_EmptySet DEF IsState
  <2> QED
    BY <2>4 DEF s
<1>3. TypeOK
  <2>1. /\ runCounts \in [Nodes -> Nat] /\ totalRuns \in Nat
        /\ \A t \in running : FALSE
        /\ \A i \in DOMAIN completions : FALSE
    BY <1>1
  <2>2. /\ phase \in {"created", "running", "spinning", "cancelling", "passed", "failed"}
        /\ error \in {"none", "node_failed", "finish_fail", "break_outside_loop", "run_limit",
                      "timeout", "deferred", "join", "output"}
        /\ deferred \in BOOLEAN
    BY <1>1
  <2> QED
    BY <1>2, <2>1, <2>2, Zenon DEF TypeOK
<1>4. CompletionsOnce
  BY <1>1 DEF CompletionsOnce
<1>5. CapacityRespected
  <2> SUFFICES ASSUME NEW n \in Nodes
               PROVE  Cardinality(OfNode(running, n)) <= Node[n].max_concurrency
    BY DEF CapacityRespected, OfNode
  <2>1. OfNode(running, n) = {}
    BY <1>1 DEF OfNode
  <2>2. Node[n].max_concurrency \in Nat
    BY NodeAssumption DEF IsNode
  <2> QED
    BY <2>1, <2>2, FS_EmptySet
<1>6. RunLimits
  BY <1>1, NodeAssumption, MaxRunsAssumption DEF RunLimits, IsNode
<1> QED
  BY <1>3, <1>4, <1>5, <1>6 DEF Inv

(* What the invariant says of the state record.                             *)
LEMMA InvCountable ==
  ASSUME Inv
  PROVE  Countable(State) /\ State.running = running
<1>1. IsRecord(State)
  BY DEF IsRecord, State
<1>2. State.running = running
  BY DEF State
<1>3. Fits(running)
  BY DEF Inv, CapacityRespected, Fits, OfNode
<1>4. Charged(running, runCounts)
  BY DEF Inv, TypeOK, Charged
<1> QED
  BY <1>1, <1>2, <1>3, <1>4 DEF Inv, TypeOK, Countable, Good

(* A part of what runs is as well-formed, and fits as well.                 *)
LEMMA FewerCountable ==
  ASSUME NEW s, NEW r, Countable(s), Good(r), r.running \subseteq s.running
  PROVE  Countable(r)
<1>1. Charged(r.running, runCounts)
  BY DEF Countable, Charged
<1>2. Fits(r.running)
  <2> SUFFICES ASSUME NEW n \in Nodes
               PROVE  Cardinality(OfNode(r.running, n)) <= Node[n].max_concurrency
    BY DEF Fits
  <2>1. IsFiniteSet(OfNode(s.running, n)) /\ Cardinality(OfNode(s.running, n)) \in Nat
    BY FS_Subset, FS_CardinalityType DEF OfNode, Countable, Good, IsState
  <2>2. OfNode(r.running, n) \subseteq OfNode(s.running, n)
    BY DEF OfNode
  <2>3. IsFiniteSet(OfNode(r.running, n)) /\ Cardinality(OfNode(r.running, n)) \in Nat
        /\ Cardinality(OfNode(r.running, n)) <= Cardinality(OfNode(s.running, n))
    BY <2>1, <2>2, FS_Subset, FS_CardinalityType
  <2>4. Cardinality(OfNode(s.running, n)) <= Node[n].max_concurrency
    BY DEF Countable, Fits
  <2>5. Node[n].max_concurrency \in Nat
    BY NodeAssumption DEF IsNode
  <2> QED
    BY <2>1, <2>3, <2>4, <2>5
<1> QED
  BY <1>1, <1>2 DEF Countable

(* Tasks that ended leave the rest of the state well-formed.                *)
LEMMA WithoutTaskGood ==
  ASSUME NEW s, Good(s), NEW fewer \in SUBSET s.running
  PROVE  Good([s EXCEPT !.running = fewer])
<1> DEFINE r == [s EXCEPT !.running = fewer]
<1>1. r = [pending |-> s.pending, running |-> fewer, satisfied |-> s.satisfied,
           loops |-> s.loops, sequence |-> s.sequence]
  BY DEF Good, IsRecord
<1> HIDE DEF r
<1>2. IsRecord(r)
  BY <1>1 DEF IsRecord
<1>3. IsFiniteSet(fewer)
  BY FS_Subset DEF Good, IsState
<1>4. Activations(fewer) \subseteq Activations(s.running)
  BY DEF Activations
<1>5. \A a \in s.pending \cup Activations(fewer) : IsActivation(r, a)
  BY <1>1, <1>4 DEF Good, IsState, IsActivation
<1>6. \A l \in DOMAIN s.loops : IsLoop(r, l)
  BY <1>1 DEF Good, IsState, IsLoop
<1>7. IsState(r)
  BY <1>1, <1>3, <1>5, <1>6 DEF Good, IsState
<1> QED
  BY <1>2, <1>7 DEF Good, r

(* The completion that is received is of a well-formed activation.          *)
LEMMA ReceiveGood ==
  ASSUME Inv, Receive
  PROVE  LET c == Head(completions)
         IN  /\ Countable(Received(c))
             /\ IsActivation(Received(c), c.task.activation)
             /\ c.items \in Nat /\ c.outcome \in Outcomes
             /\ Received(c).running = running \ {c.task}
             /\ completions' \in Seq({completions'[i] : i \in DOMAIN completions'})
             /\ \A i, j \in DOMAIN completions' :
                  completions'[i].task = completions'[j].task => i = j
             /\ \A i \in DOMAIN completions' : /\ completions'[i].task \in running \ {c.task}
                                               /\ completions'[i].outcome \in Outcomes
                                               /\ completions'[i].items \in Nat
<1> DEFINE c == Head(completions)
           C == {completions[i] : i \in DOMAIN completions}
<1>1. phase = "running" /\ completions # <<>> /\ completions' = Tail(completions)
  BY DEF Receive
<1>2. completions \in Seq(C)
  BY DEF Inv, CompletionsOnce
<1>3. \A x \in C : x.task \in running /\ x.outcome \in Outcomes /\ x.items \in Nat
  BY <1>1 DEF Inv, TypeOK, CompletionsOnce
<1>4. \A i, j \in DOMAIN completions : completions[i].task = completions[j].task => i = j
  BY DEF Inv, CompletionsOnce
<1> HIDE DEF C
<1>5. /\ Len(completions) \in Nat \ {0} /\ DOMAIN completions = 1 .. Len(completions)
      /\ c = completions[1] /\ c \in C
  BY <1>1, <1>2
<1>6. /\ completions' \in Seq(C)
      /\ DOMAIN completions' = 1 .. Len(completions) - 1
      /\ \A i \in DOMAIN completions' : completions'[i] = completions[i + 1]
  BY <1>1, <1>2, <1>5
<1>7. \A i \in DOMAIN completions' : i + 1 \in DOMAIN completions /\ i + 1 # 1 /\ i \in Int
  BY <1>5, <1>6
<1>8. \A i \in DOMAIN completions' : completions'[i] \in C /\ completions'[i].task # c.task
  BY <1>2, <1>4, <1>5, <1>6, <1>7
<1>9. \A i, j \in DOMAIN completions' : completions'[i].task = completions'[j].task => i = j
  BY <1>4, <1>6, <1>7
<1>10. completions' \in Seq({completions'[i] : i \in DOMAIN completions'})
  <2> DEFINE D == {completions'[i] : i \in DOMAIN completions'}
  <2>1. \A i \in DOMAIN completions' : completions'[i] \in D
    OBVIOUS
  <2>2. completions' = [i \in 1 .. Len(completions) - 1 |-> completions'[i]]
    BY <1>5, <1>6
  <2>3. Len(completions) - 1 \in Nat
    BY <1>5
  <2> HIDE DEF D
  <2>4. completions' \in Seq(D)
    BY <1>6, <2>1, <2>2, <2>3
  <2> QED
    BY <2>4 DEF D
<1>11. Countable(State) /\ State.running = running
  BY InvCountable
<1>12. Received(c) = [State EXCEPT !.running = running \ {c.task}]
  BY <1>11 DEF Received
<1>13. Good(Received(c))
  BY <1>11, <1>12, WithoutTaskGood DEF Countable
<1>14. /\ Received(c).running = running \ {c.task}
       /\ Received(c).satisfied = State.satisfied
       /\ Received(c).loops = State.loops
  BY <1>12 DEF State
<1>15. Countable(Received(c))
  BY <1>11, <1>13, <1>14, FewerCountable
<1>16. IsActivation(State, c.task.activation)
  BY <1>3, <1>5, <1>11 DEF Countable, Good, IsState, Activations
<1>17. IsActivation(Received(c), c.task.activation)
  BY <1>14, <1>16 DEF IsActivation
<1> QED
  BY <1>3, <1>5, <1>6, <1>8, <1>9, <1>10, <1>14, <1>15, <1>17

Phases == {"created", "running", "spinning", "cancelling", "passed", "failed"}
Errors == {"none", "node_failed", "finish_fail", "break_outside_loop", "run_limit", "timeout",
           "deferred", "join", "output"}

(* The parts of the invariant after a step, as the lemmas below yield them. *)
LEMMA NextInv ==
  ASSUME IsState(State'), runCounts' \in [Nodes -> Nat], totalRuns' \in Nat,
         Charged(running', runCounts'), Fits(running'), RunLimits',
         phase' \in Phases, error' \in Errors, deferred' \in BOOLEAN,
         \A i \in DOMAIN completions' : /\ completions'[i].outcome \in Outcomes
                                       /\ completions'[i].items \in Nat,
         CompletionsOnce'
  PROVE  Inv'
<1>1. CapacityRespected'
  BY DEF CapacityRespected, Fits, OfNode
<1>2. TypeOK'
  BY DEF TypeOK, Charged, Phases, Errors
<1> QED
  BY <1>1, <1>2 DEF Inv

(* Halting keeps the state.                                                 *)
LEMMA HaltGood ==
  ASSUME NEW s, Countable(s), NEW kind \in Errors, Halt(s, kind)
  PROVE  /\ IsState(State')
         /\ runCounts' \in [Nodes -> Nat]
         /\ totalRuns' \in Nat
         /\ Charged(running', runCounts')
         /\ Fits(running')
         /\ RunLimits'
         /\ running' = s.running
         /\ phase' = "cancelling"
         /\ error' \in Errors
<1>1. State' = s
  BY DEF Halt, State, Countable, Good, IsRecord
<1>2. runCounts' = runCounts /\ totalRuns' = totalRuns /\ running' = s.running
      /\ phase' = "cancelling" /\ error' = kind
  BY DEF Halt
<1>3. RunLimits'
  BY <1>2 DEF RunLimits, Countable
<1> QED
  BY <1>1, <1>2, <1>3 DEF Countable, Good

(* After a completion was received, starting or halting keeps the invariant. *)
LEMMA ReceivedInv ==
  ASSUME Inv, Receive, deferred' \in BOOLEAN,
         NEW s, Countable(s), s.running = running \ {Head(completions).task},
         StartRunnable(s) \/ \E kind \in Errors : Halt(s, kind)
  PROVE  Inv'
<1>1. /\ IsState(State') /\ runCounts' \in [Nodes -> Nat] /\ totalRuns' \in Nat
      /\ Charged(running', runCounts') /\ Fits(running') /\ RunLimits'
      /\ s.running \subseteq running'
      /\ phase' \in Phases /\ error' \in Errors
  <2>1. CASE StartRunnable(s)
    BY <2>1, StartGood DEF Phases, Errors
  <2>2. CASE \E kind \in Errors : Halt(s, kind)
    BY <2>2, HaltGood DEF Phases
  <2> QED
    BY <2>1, <2>2
<1>2. /\ completions' \in Seq({completions'[i] : i \in DOMAIN completions'})
      /\ \A i, j \in DOMAIN completions' : completions'[i].task = completions'[j].task => i = j
      /\ \A i \in DOMAIN completions' : /\ completions'[i].task \in s.running
                                        /\ completions'[i].outcome \in Outcomes
                                        /\ completions'[i].items \in Nat
  BY ReceiveGood
<1>3. CompletionsOnce'
  BY <1>1, <1>2 DEF CompletionsOnce
<1> QED
  BY <1>1, <1>2, <1>3, NextInv

(* The routes that match lead somewhere.                                    *)
LEMMA MatchingAreRoutes ==
  ASSUME NEW n, NEW outcome, NEW routes \in MatchingRoutes(n, outcome)
  PROVE  routes \subseteq DOMAIN Node[n].routes
BY DEF MatchingRoutes, Eligible

LEMMA BeginInv == ASSUME Inv, Begin PROVE Inv'
<1> DEFINE starts == {m \in Nodes : Node[m].needs = {}}
           Signal(n) == [node |-> n, group |-> InitialGroup(n), lineage |-> Root,
                         loops |-> [m \in {} |-> {}], order |-> <<0, 0, Node[n].rank>>]
           signals == {Signal(n) : n \in starts}
           s == Enqueue(State, signals)
<1>1. Countable(State) /\ State.running = running
  BY InvCountable
<1>2. phase = "created" /\ StartRunnable(s) /\ completions' = completions /\ deferred' = deferred
  BY DEF Begin
<1>3. IsFiniteSet(signals)
  <2> DEFINE f == [n \in starts |-> Signal(n)]
  <2>1. f \in [starts -> signals] /\ \A x \in signals : \E n \in starts : f[n] = x
    OBVIOUS
  <2>2. IsFiniteSet(starts)
    BY NodesAssumption, FS_Subset
  <2> HIDE DEF f, signals, starts
  <2> QED
    BY <2>1, <2>2, ImageFinite
<1>4. \A x \in signals : x.node \in Nodes /\ x.lineage = Root /\ DOMAIN x.loops = {}
  OBVIOUS
<1> HIDE DEF signals
<1>5. \A x \in signals : IsSignal(State, x)
  BY <1>1, <1>4 DEF IsSignal, Countable, Good, IsState
<1>6. Good(s) /\ s.running = running
  BY <1>1, <1>3, <1>5, EnqueueGood DEF Countable
<1> HIDE DEF s
<1>7. Countable(s)
  BY <1>1, <1>6, FewerCountable
<1>8. /\ IsState(State') /\ runCounts' \in [Nodes -> Nat] /\ totalRuns' \in Nat
      /\ Charged(running', runCounts') /\ Fits(running') /\ RunLimits'
      /\ running \subseteq running'
      /\ phase' \in Phases /\ error' \in Errors
  BY <1>2, <1>6, <1>7, StartGood DEF Phases, Errors
<1>9. CompletionsOnce'
  BY <1>2, <1>8 DEF Inv, CompletionsOnce
<1>10. deferred' \in BOOLEAN /\ \A i \in DOMAIN completions' : /\ completions'[i].outcome \in Outcomes
                                                             /\ completions'[i].items \in Nat
  BY <1>2 DEF Inv, TypeOK
<1> QED
  BY <1>8, <1>9, <1>10, NextInv

LEMMA CompleteFailureInv == ASSUME Inv, CompleteFailure PROVE Inv'
<1> DEFINE c == Head(completions)
           s == Received(c)
<1>1. Receive
  BY DEF CompleteFailure
<1>2. Countable(s) /\ s.running = running \ {c.task}
  BY <1>1, ReceiveGood
<1>3. CASE Defers(State, c.task.activation)
  <2>1. deferred' = TRUE /\ StartRunnable(SettleLoops(s))
    BY <1>3 DEF CompleteFailure
  <2> HIDE DEF s
  <2>2. Good(SettleLoops(s)) /\ SettleLoops(s).running = s.running
    BY <1>2, SettleGood DEF Countable
  <2>3. Countable(SettleLoops(s))
    BY <1>2, <2>2, FewerCountable
  <2> QED
    BY <1>1, <1>2, <2>1, <2>2, <2>3, ReceivedInv
<1>4. CASE ~ Defers(State, c.task.activation)
  <2>1. deferred' = deferred /\ Halt(s, "node_failed")
    BY <1>4 DEF CompleteFailure
  <2>2. deferred' \in BOOLEAN /\ "node_failed" \in Errors
    BY <2>1 DEF Inv, TypeOK, Errors
  <2> HIDE DEF s
  <2> QED
    BY <1>1, <1>2, <2>1, <2>2, ReceivedInv
<1> QED
  BY <1>3, <1>4

LEMMA CompleteNodeInv == ASSUME Inv, CompleteNode PROVE Inv'
<1> DEFINE c == Head(completions)
           a == c.task.activation
           s == Received(c)
<1>1. Receive /\ deferred' = deferred
  BY DEF CompleteNode
<1>2. /\ Countable(s) /\ s.running = running \ {c.task}
      /\ IsActivation(s, a) /\ c.items \in Nat
  BY <1>1, ReceiveGood
<1>3. deferred' \in BOOLEAN
  BY <1>1 DEF Inv, TypeOK
<1>4. PICK routes \in MatchingRoutes(a.node, c.outcome) :
        \/ Halt(Control(s, c, routes), "finish_fail")
        \/ Halt(Advance(Control(s, c, routes), a, routes), "break_outside_loop")
        \/ StartRunnable(Control(s, c, routes))
        \/ StartRunnable(Advance(Control(s, c, routes), a, routes))
  BY DEF CompleteNode
<1> HIDE DEF s
<1> DEFINE controlled == Control(s, c, routes)
           advanced == Advance(controlled, a, routes)
<1>5. routes \subseteq DOMAIN Node[a.node].routes
  BY MatchingAreRoutes
<1>6. Good(controlled) /\ controlled.running = s.running /\ IsActivation(controlled, a)
  BY <1>2, <1>5, ControlGood DEF Countable
<1> HIDE DEF controlled
<1>7. Good(advanced) /\ advanced.running = s.running
  BY <1>5, <1>6, AdvanceGood
<1> HIDE DEF advanced
<1>8. Countable(controlled) /\ Countable(advanced)
  BY <1>2, <1>6, <1>7, FewerCountable
<1>9. {"finish_fail", "break_outside_loop"} \subseteq Errors
  BY DEF Errors
<1>10. \/ StartRunnable(controlled) \/ \E kind \in Errors : Halt(controlled, kind)
       \/ StartRunnable(advanced) \/ \E kind \in Errors : Halt(advanced, kind)
  BY <1>4, <1>9 DEF controlled, advanced
<1> QED
  BY <1>1, <1>2, <1>3, <1>6, <1>7, <1>8, <1>10, ReceivedInv

(* A task sends its one completion. *)
LEMMA SendInv ==
  ASSUME Inv, phase = "running", NEW t \in running, Executing(t),
         NEW outcome \in Outcomes, NEW items \in Nat, Send(t, outcome, items),
         UNCHANGED <<phase, error, pending, running, satisfied, loops, sequence, runCounts,
                     totalRuns, deferred>>
  PROVE  Inv'
<1> DEFINE C == {completions[i] : i \in DOMAIN completions}
           c == [task |-> t, outcome |-> outcome, items |-> items]
           D == {completions'[i] : i \in DOMAIN completions'}
           n == Len(completions)
<1>1. completions \in Seq(C) /\ completions' = Append(completions, c)
  BY DEF Inv, CompletionsOnce, Send
<1> HIDE DEF C
<1>2. n \in Nat /\ DOMAIN completions = 1 .. n
  BY <1>1
<1>3. completions' \in Seq(C \cup {c}) /\ Len(completions') = n + 1
  BY <1>1
<1>4. DOMAIN completions' = 1 .. n + 1 /\ completions'[n + 1] = c
      /\ \A i \in 1 .. n : completions'[i] = completions[i]
  BY <1>1, <1>2, <1>3
<1>5. completions' \in Seq(D)
  <2>1. \A i \in 1 .. n + 1 : completions'[i] \in D
    BY <1>4
  <2>2. completions' = [i \in 1 .. n + 1 |-> completions'[i]]
    BY <1>3, <1>4
  <2> HIDE DEF D
  <2> QED
    BY <1>2, <2>1, <2>2
<1>6. c.task = t /\ c.outcome = outcome /\ c.items = items
  OBVIOUS
<1> HIDE DEF c, n
<1>7. \A i \in 1 .. n + 1 : i \in 1 .. n \/ i = n + 1
  BY <1>2
<1>8. \A i \in 1 .. n : completions[i].task # t
  BY <1>2 DEF Executing
<1>9. \A i, j \in DOMAIN completions' : completions'[i].task = completions'[j].task => i = j
  BY <1>2, <1>4, <1>6, <1>7, <1>8 DEF Inv, CompletionsOnce
<1>10. \A i \in DOMAIN completions' : /\ completions'[i].task \in running
                                      /\ completions'[i].outcome \in Outcomes
                                      /\ completions'[i].items \in Nat
  BY <1>2, <1>4, <1>6, <1>7 DEF Inv, TypeOK, CompletionsOnce
<1>11. CompletionsOnce'
  BY <1>5, <1>9, <1>10 DEF CompletionsOnce
<1>12. State' = State
  BY DEF State
<1> QED
  BY <1>10, <1>11, <1>12 DEF Inv, TypeOK, CapacityRespected, RunLimits

LEMMA AttemptSucceedsInv == ASSUME Inv, NEW t \in running, AttemptSucceeds(t) PROVE Inv'
<1> DEFINE n == Node[t.activation.node]
<1>1. PICK items \in IF n.type = "loop" /\ ~ n.source.infinite THEN n.source.counts ELSE {0} :
        Send(t, "success", items)
  BY DEF AttemptSucceeds
<1>2. t.activation.node \in Nodes
  BY DEF Inv, TypeOK, IsState, IsActivation, Activations, State
<1>3. items \in Nat
  BY <1>1, <1>2, NodeAssumption DEF IsNode
<1> QED
  BY <1>1, <1>3, SendInv DEF AttemptSucceeds, Outcomes

(* A retry replaces the task by its next attempt, of the same run. *)
LEMMA RetryInv ==
  ASSUME Inv, phase = "running", NEW t \in running, Executing(t),
         t.attempt <= Node[t.activation.node].retry_count,
         running' = (running \ {t}) \cup {[t EXCEPT !.attempt = t.attempt + 1]},
         UNCHANGED <<phase, error, pending, completions, satisfied, loops, sequence, runCounts,
                     totalRuns, deferred>>
  PROVE  Inv'
<1> DEFINE u == [t EXCEPT !.attempt = t.attempt + 1]
<1>1. Countable(State) /\ State.running = running
  BY InvCountable
<1>2. IsActivation(State, t.activation) /\ t.activation.node \in Nodes
  BY <1>1 DEF Countable, Good, IsState, Activations, IsActivation
<1>3. /\ t.attempt \in 1 .. (Node[t.activation.node].retry_count + 1)
      /\ t.run \in 1 .. runCounts[t.activation.node]
      /\ Node[t.activation.node].retry_count \in Nat
  BY <1>1, <1>2, NodeAssumption DEF Countable, Charged, IsNode
<1>4. u.activation = t.activation /\ u.run = t.run /\ u.attempt \in {t.attempt, t.attempt + 1}
  OBVIOUS
<1> HIDE DEF u
<1>5. Charged(running', runCounts')
  <2>1. /\ u.attempt \in 1 .. (Node[u.activation.node].retry_count + 1)
        /\ u.run \in 1 .. runCounts[u.activation.node]
    BY <1>3, <1>4
  <2> QED
    BY <1>1, <2>1 DEF Countable, Charged, u
<1>6. Fits(running')
  <2> SUFFICES ASSUME NEW n \in Nodes
               PROVE  Cardinality(OfNode(running', n)) <= Node[n].max_concurrency
    BY DEF Fits
  <2> DEFINE W == OfNode(running, n)
  <2>1. IsFiniteSet(W) /\ Cardinality(W) \in Nat /\ Cardinality(W) <= Node[n].max_concurrency
    BY <1>1, FS_Subset, FS_CardinalityType DEF OfNode, Countable, Good, IsState, Fits
  <2>2. Node[n].max_concurrency \in Nat
    BY NodeAssumption DEF IsNode
  <2>3. CASE t.activation.node # n
    <3>1. OfNode(running', n) = W
      BY <1>4, <2>3 DEF OfNode, u
    <3> QED
      BY <2>1, <3>1
  <2>4. CASE t.activation.node = n
    <3>1. OfNode(running', n) = (W \ {t}) \cup {u} /\ t \in W
      BY <1>4, <2>4 DEF OfNode, u
    <3> HIDE DEF W
    <3>2. IsFiniteSet(W \ {t}) /\ Cardinality(W \ {t}) = Cardinality(W) - 1
      BY <2>1, <3>1, FS_RemoveElement
    <3>3. Cardinality((W \ {t}) \cup {u}) \in {Cardinality(W \ {t}), Cardinality(W \ {t}) + 1}
      BY <3>2, FS_AddElement
    <3>4. Cardinality((W \ {t}) \cup {u}) <= Cardinality(W)
      BY <2>1, <3>2, <3>3
    <3>5. Cardinality(OfNode(running', n)) <= Cardinality(W)
      BY <3>1, <3>4
    <3>6. Cardinality(OfNode(running', n)) \in Nat
      BY <3>1, <3>2, FS_AddElement, FS_CardinalityType
    <3> QED
      BY <2>1, <2>2, <3>5, <3>6
  <2> QED
    BY <2>3, <2>4
<1>7. IsState(State')
  <2> DEFINE r == State'
  <2>1. /\ r.pending = State.pending /\ r.running = (running \ {t}) \cup {u}
        /\ r.satisfied = State.satisfied /\ r.loops = State.loops
        /\ r.sequence = State.sequence
    BY DEF State, u
  <2>2. IsState(State)
    BY <1>1 DEF Countable, Good
  <2> HIDE DEF r
  <2>3. IsFiniteSet(r.running)
    <3>1. IsFiniteSet(running \ {t})
      BY <1>1, <2>2, FS_RemoveElement DEF IsState
    <3> QED
      BY <2>1, <3>1, FS_AddElement
  <2>4. Activations(r.running) \subseteq Activations(running)
    BY <1>4, <2>1 DEF Activations
  <2>5. \A a \in r.pending \cup Activations(r.running) : IsActivation(r, a)
    BY <1>1, <2>1, <2>2, <2>4 DEF IsState, IsActivation
  <2>6. \A l \in DOMAIN r.loops : IsLoop(r, l)
    BY <2>1, <2>2 DEF IsState, IsLoop
  <2>7. IsState(r)
    BY <2>1, <2>2, <2>3, <2>5, <2>6 DEF IsState
  <2> QED
    BY <2>7 DEF r
<1>8. CompletionsOnce'
  <2>1. \A i \in DOMAIN completions : completions[i].task \in running \ {t}
    BY DEF Inv, CompletionsOnce, Executing
  <2> QED
    BY <2>1 DEF Inv, CompletionsOnce
<1>9. /\ RunLimits'
      /\ phase' \in Phases /\ error' \in Errors /\ deferred' \in BOOLEAN
      /\ runCounts' \in [Nodes -> Nat] /\ totalRuns' \in Nat
      /\ \A i \in DOMAIN completions' : /\ completions'[i].outcome \in Outcomes
                                        /\ completions'[i].items \in Nat
  BY DEF Inv, TypeOK, RunLimits, Phases, Errors
<1> QED
  BY <1>5, <1>6, <1>7, <1>8, <1>9, NextInv

LEMMA AttemptFailsInv == ASSUME Inv, NEW t \in running, AttemptFails(t) PROVE Inv'
<1> DEFINE n == Node[t.activation.node]
<1>1. CASE t.attempt <= n.retry_count
  BY <1>1, RetryInv DEF AttemptFails
<1>2. CASE ~ (t.attempt <= n.retry_count)
  <2>1. \E outcome \in Outcomes : Send(t, outcome, 0)
    BY <1>2 DEF AttemptFails, Outcomes
  <2> QED
    BY <1>2, <2>1, SendInv DEF AttemptFails
<1> QED
  BY <1>1, <1>2

(* Tasks that leave without a completion. *)
LEMMA FewerTasksInv ==
  ASSUME Inv, running' \subseteq running, phase' \in Phases \ {"created", "running"},
         UNCHANGED <<error, pending, satisfied, loops, sequence, runCounts, totalRuns, deferred>>,
         \/ completions' = completions
         \/ Receive
  PROVE  Inv'
<1>1. Countable(State) /\ State.running = running
  BY InvCountable
<1> DEFINE r == [State EXCEPT !.running = running']
<1>2. Good(r) /\ r.running = running'
  BY <1>1, WithoutTaskGood DEF Countable, State
<1>3. r = State'
  BY DEF State
<1>4. Countable(r)
  BY <1>1, <1>2, FewerCountable
<1>5. /\ completions' \in Seq({completions'[i] : i \in DOMAIN completions'})
      /\ \A i, j \in DOMAIN completions' : completions'[i].task = completions'[j].task => i = j
      /\ \A i \in DOMAIN completions' : /\ completions'[i].outcome \in Outcomes
                                        /\ completions'[i].items \in Nat
  BY ReceiveGood DEF Inv, TypeOK, CompletionsOnce
<1>6. CompletionsOnce'
  BY <1>5 DEF CompletionsOnce
<1>7. IsState(State') /\ Charged(running', runCounts') /\ Fits(running')
      /\ runCounts' \in [Nodes -> Nat] /\ totalRuns' \in Nat /\ RunLimits'
  BY <1>2, <1>3, <1>4 DEF Countable, Good, RunLimits
<1>8. phase' \in Phases /\ error' \in Errors /\ deferred' \in BOOLEAN
  BY DEF Inv, TypeOK, Errors
<1> QED
  BY <1>5, <1>6, <1>7, <1>8, NextInv

(* Steps that change only the verdict. *)
LEMMA VerdictInv ==
  ASSUME Inv, phase' \in Phases \ {"created", "running"}, error' \in Errors,
         UNCHANGED <<pending, running, completions, satisfied, loops, sequence, runCounts,
                     totalRuns, deferred>>
  PROVE  Inv'
<1>1. State' = State
  BY DEF State
<1>2. CompletionsOnce'
  BY DEF Inv, CompletionsOnce
<1>3. Charged(running', runCounts') /\ Fits(running') /\ RunLimits'
  BY DEF Inv, TypeOK, Charged, CapacityRespected, Fits, OfNode, RunLimits
<1>4. /\ IsState(State') /\ runCounts' \in [Nodes -> Nat] /\ totalRuns' \in Nat
      /\ deferred' \in BOOLEAN
      /\ \A i \in DOMAIN completions' : /\ completions'[i].outcome \in Outcomes
                                        /\ completions'[i].items \in Nat
  BY <1>1 DEF Inv, TypeOK
<1> QED
  BY <1>2, <1>3, <1>4, NextInv

LEMMA StutterInv == ASSUME Inv, UNCHANGED vars PROVE Inv'
BY DEF vars, Inv, TypeOK, CompletionsOnce, CapacityRespected, RunLimits, State

(* Every step keeps the invariant.                                          *)
LEMMA StepInv == ASSUME Inv, [Next]_vars PROVE Inv'
<1>1. CASE Begin
  BY <1>1, BeginInv
<1>2. ASSUME NEW t \in running, AttemptSucceeds(t) PROVE Inv'
  BY <1>2, AttemptSucceedsInv
<1>3. ASSUME NEW t \in running, AttemptFails(t) PROVE Inv'
  BY <1>3, AttemptFailsInv
<1>4. CASE CompleteFailure
  BY <1>4, CompleteFailureInv
<1>5. CASE CompleteNode
  BY <1>5, CompleteNodeInv
<1>6. CASE CompleteSpinning
  <2>1. /\ Receive /\ running' \subseteq running /\ phase' = "spinning"
        /\ UNCHANGED <<error, pending, satisfied, loops, sequence, runCounts, totalRuns, deferred>>
    BY <1>6 DEF CompleteSpinning
  <2> QED
    BY <2>1, FewerTasksInv DEF Phases
<1>7. ASSUME NEW t \in running, TaskCancelled(t) PROVE Inv'
  <2>1. /\ running' \subseteq running /\ phase' = "cancelling" /\ completions' = completions
        /\ UNCHANGED <<error, pending, satisfied, loops, sequence, runCounts, totalRuns, deferred>>
    BY <1>7 DEF TaskCancelled
  <2> QED
    BY <2>1, FewerTasksInv DEF Phases
<1>8. CASE Timeout
  BY <1>8, VerdictInv DEF Timeout, Phases, Errors
<1>9. CASE Quiesce
  <2>1. error' \in Errors /\ phase' \in {"passed", "failed"}
    BY <1>9 DEF Quiesce, Verdict, Errors, Inv, TypeOK
  <2> QED
    BY <1>9, <2>1, VerdictInv DEF Quiesce, Phases
<1>10. CASE Fail
  BY <1>10, VerdictInv DEF Fail, Phases, Errors, Inv, TypeOK
<1>11. CASE Ended
  BY <1>11, StutterInv DEF Ended
<1>12. CASE UNCHANGED vars
  BY <1>12, StutterInv
<1> QED
  BY <1>1, <1>2, <1>3, <1>4, <1>5, <1>6, <1>7, <1>8, <1>9, <1>10, <1>11, <1>12 DEF Next

LEMMA InvHolds == Spec => []Inv
<1>1. Inv /\ [Next]_vars => Inv'
  BY StepInv
<1> QED
  BY <1>1, InitInv, PTL DEF Spec

(* The scheduler's state keeps its shape in every workflow: every lineage   *)
(* and loop that an activation names exists when it is used, and the runs   *)
(* of a node are numbered 1 to its count (_start_runnable, _open_loop).     *)
THEOREM TypeCorrect == Spec => []TypeOK
BY InvHolds, PTL DEF Inv

(* No node of any workflow ever runs more often at once than its            *)
(* max-concurrency, however loops, merges and completions interleave        *)
(* (_start_runnable).                                                       *)
THEOREM CapacityAlways == Spec => []CapacityRespected
BY InvHolds, PTL DEF Inv

(* No workflow ever starts more runs than max-runs allows it or a node      *)
(* (_reserve_run, in the middle of a batch of starts).                      *)
THEOREM LimitsAlways == Spec => []RunLimits
BY InvHolds, PTL DEF Inv
=============================================================================
