---------------------------- MODULE RadishLoopProofs ----------------------------
(***************************************************************************)
(* Theorems about the order and the number of what runs in a Radish         *)
(* workflow, for every workflow: signals start in the order they came, what *)
(* waits at a latch becomes one activation, a broken loop begins no further *)
(* iteration, and a loop keeps to its window of iterations.                 *)
(*                                                                          *)
(* The lemmas say what each operator adds to a state that is sound, in the  *)
(* sense of RadishRunProofs: activations, iterations, room.                 *)
(***************************************************************************)
EXTENDS RadishRunProofs

Added(s, r) == r.pending \ s.pending

(* New activations get the next numbers, and their numbers as places.       *)
Appends(s, r) ==
  /\ s.pending \subseteq r.pending
  /\ s.sequence <= r.sequence
  /\ \A a \in Added(s, r) : /\ a.place = a.sequence
                            /\ s.sequence < a.sequence /\ a.sequence <= r.sequence

(* Each new activation is one of the signals.                               *)
Signalled(s, r, signals) ==
  \A a \in Added(s, r) : \E x \in signals :
    a.node = x.node /\ a.group = x.group /\ a.lineage = x.lineage /\ a.loops = x.loops

LEMMA EnqueuePlaces ==
  ASSUME NEW s, IsRecord(s), NEW signals, NEW a \in Added(s, Enqueue(s, signals))
  PROVE  a.place = a.sequence
<1> DEFINE fresh == {x \in signals :
                       /\ ~ Held(s, x)
                       /\ \A y \in signals :
                            (x # y /\ x.node = y.node /\ x.group = y.group)
                              => Precedes(x.order, y.order)}
           Number(x) == s.sequence + Cardinality({y \in fresh : ~ Precedes(x.order, y.order)})
           new == {[node |-> x.node, group |-> x.group, lineage |-> x.lineage,
                    loops |-> x.loops, sequence |-> Number(x),
                    place |-> Number(x)] : x \in fresh}
           r == Enqueue(s, signals)
<1>1. r.pending = s.pending \cup new
  <2>1. r = [s EXCEPT !.pending = s.pending \cup new,
                      !.sequence = s.sequence + Cardinality(fresh)]
    BY DEF Enqueue
  <2> HIDE DEF r, new, fresh
  <2> QED
    BY <2>1 DEF IsRecord
<1>2. \A b \in new : b.place = b.sequence
  <2> HIDE DEF fresh, Number
  <2> QED
    OBVIOUS
<1> HIDE DEF new, r
<1> QED
  BY <1>1, <1>2 DEF Added, r

LEMMA EnqueueAppends ==
  ASSUME NEW s, NEW recorded, Sound(s, recorded), NEW signals, AreSignals(s, signals)
  PROVE  LET r == Enqueue(s, signals)
         IN  Appends(s, r) /\ Signalled(s, r, signals)
<1> DEFINE r == Enqueue(s, signals)
<1>1. /\ Good(s) /\ IsFiniteSet(signals) /\ Ordered(signals)
      /\ \A a \in s.pending : a.sequence <= s.sequence
  BY DEF Sound, Numbered, AreSignals
<1>2. /\ s.pending \subseteq r.pending
      /\ r.sequence >= s.sequence
      /\ \A a \in Added(s, r) : \E x \in signals :
           /\ a.node = x.node /\ a.group = x.group /\ a.lineage = x.lineage
           /\ a.loops = x.loops
      /\ \A a \in Added(s, r) : a.sequence > s.sequence /\ a.sequence <= r.sequence
  BY <1>1, EnqueueEffect DEF Added
<1>3. \A a \in Added(s, r) : a.place = a.sequence
  BY <1>1, EnqueuePlaces DEF Good
<1>4. /\ s.sequence \in Nat /\ r.sequence \in Nat
      /\ \A a \in Added(s, r) : a.sequence \in Nat
  <2>1. Good(r)
    BY <1>1, EnqueueGood DEF AreSignals
  <2> HIDE DEF r
  <2> QED
    BY <1>1, <2>1 DEF Added, Good, IsState, IsActivation
<1> HIDE DEF r
<1>5. Appends(s, r)
  BY <1>2, <1>3, <1>4 DEF Appends
<1> QED
  BY <1>2, <1>5 DEF Signalled, r

(***************************************************************************)
(* Filling loops.                                                           *)
(***************************************************************************)

(* What filling makes of a state: each new activation is in an iteration    *)
(* that begins, and has the loops its loop was opened in, and the loop.     *)
Entered(s, r, begun) ==
  \A a \in Added(s, r) :
    /\ a.lineage \in begun /\ a.group = a.lineage
    /\ s.loops[a.lineage.lineage].routes # {}
    /\ \A id \in DOMAIN a.loops :
         \/ a.loops[id] = a.lineage.lineage
         \/ /\ id \in DOMAIN s.loops[a.lineage.lineage].parentLoops
            /\ a.loops[id] = s.loops[a.lineage.lineage].parentLoops[id]

Begins(s, r, begun) ==
  /\ DOMAIN r.satisfied = DOMAIN s.satisfied \cup begun
  /\ \A g \in begun : /\ g \notin DOMAIN s.satisfied
                      /\ g.lineage \in DOMAIN s.loops /\ ~ s.loops[g.lineage].closed
                      /\ g = Iteration(g.lineage, g.index) /\ g # Root

Refills(s, r, kept) ==
  /\ DOMAIN r.loops = DOMAIN s.loops
  /\ \A l \in DOMAIN s.loops : /\ SameLoop(r.loops[l], s.loops[l])
                               /\ Refilled(s, kept, l, r.loops[l], s.loops[l])

(* The loops stay, and only go further.                                     *)
Further(s, r) ==
  \A l \in DOMAIN s.loops : /\ l \in DOMAIN r.loops
                            /\ s.loops[l].next \in Nat /\ r.loops[l].next \in Nat
                            /\ s.loops[l].next <= r.loops[l].next

Fills(s, r, kept) ==
  /\ Grows(s, r) /\ Further(s, r) /\ Appends(s, r)
  /\ Entered(s, r, Begun(s, kept))
  /\ Begins(s, r, Begun(s, kept))
  /\ \A g \in Begun(s, kept) : g.lineage \in DOMAIN kept /\ g \in BegunBy(s, kept, g.lineage)
  /\ Refills(s, r, kept)

LEMMA FillAdds ==
  ASSUME NEW s, NEW recorded, Sound(s, recorded), NEW kept, DOMAIN kept \subseteq DOMAIN s.loops,
         \A l \in DOMAIN kept : kept[l] \subseteq s.loops[l].active
  PROVE  LET r == FillLoops(s, kept)
         IN  Sound(r, recorded) /\ Fills(s, r, kept)
<1> DEFINE f == Filled(s, kept)
           begun == Begun(s, kept)
           signals == UNION {IterationSignals(f, g) : g \in begun}
           r == FillLoops(s, kept)
<1>1. r = Enqueue(f, signals)
  BY DEF FillLoops
<1>2. /\ Sound(f, recorded)
      /\ f.pending = s.pending /\ f.running = s.running
      /\ DOMAIN f.loops = DOMAIN s.loops
      /\ DOMAIN f.satisfied = DOMAIN s.satisfied \cup begun
      /\ \A g \in begun : g \notin DOMAIN s.satisfied
  BY FilledSound
<1>3. IsFiniteSet(begun) /\ \A g \in begun : g.lineage \in DOMAIN kept
  <2>1. \A l \in DOMAIN kept : IsFiniteSet(kept[l])
    BY FS_Subset DEF Sound, Good, IsState, IsLoop
  <2> QED
    BY <2>1, BegunGood DEF Sound, Good
<1>4. \A l \in DOMAIN kept : \A g \in BegunBy(s, kept, l) :
        Fresh(s, f.loops[l], l, g) /\ ~ s.loops[l].closed
  BY BegunFills DEF BegunBy, Beginning, MayBegin
<1>5. \A g \in begun : /\ g \in DOMAIN f.satisfied /\ g.lineage \in DOMAIN f.loops /\ g # Root
                       /\ g = Iteration(g.lineage, g.index) /\ g.index \in Nat
                       /\ ~ s.loops[g.lineage].closed
  BY <1>2, <1>4 DEF Begun, Fresh
<1>6. f.sequence = s.sequence
  BY DEF Sound, Good, IsRecord, Filled
<1>7. \A l \in DOMAIN s.loops : /\ SameLoop(f.loops[l], s.loops[l])
                                /\ Refilled(s, kept, l, f.loops[l], s.loops[l])
  BY FilledLoops
<1>18. \A g \in begun : g.lineage \in DOMAIN kept /\ g \in BegunBy(s, kept, g.lineage)
  BY <1>4 DEF Begun, Fresh
<1> HIDE DEF f, begun
<1>8. AreSignals(f, signals)
  BY <1>2, <1>3, <1>5, IterationsSignal
<1>9. \A x \in signals :
        /\ x.lineage \in begun /\ x.group = x.lineage
        /\ f.loops[x.lineage.lineage].routes # {}
        /\ \A id \in DOMAIN x.loops :
             \/ x.loops[id] = x.lineage.lineage
             \/ /\ id \in DOMAIN f.loops[x.lineage.lineage].parentLoops
                /\ x.loops[id] = f.loops[x.lineage.lineage].parentLoops[id]
  <2> SUFFICES ASSUME NEW g \in begun, NEW x \in IterationSignals(f, g)
               PROVE  /\ x.lineage = g /\ x.group = g
                      /\ f.loops[g.lineage].routes # {}
                      /\ \A id \in DOMAIN x.loops :
                           \/ x.loops[id] = g.lineage
                           \/ /\ id \in DOMAIN f.loops[g.lineage].parentLoops
                              /\ x.loops[id] = f.loops[g.lineage].parentLoops[id]
    OBVIOUS
  <2>1. x \in {[node |-> Node[g.lineage.loop].routes[i].target, group |-> g, lineage |-> g,
                loops |-> [m \in DOMAIN f.loops[g.lineage].parentLoops \cup {g.lineage.loop} |->
                             IF m = g.lineage.loop THEN g.lineage
                                                   ELSE f.loops[g.lineage].parentLoops[m]],
                order |-> <<f.loops[g.lineage].born, g.index, i>>] : i \in f.loops[g.lineage].routes}
    BY DEF IterationSignals
  <2> QED
    BY <2>1
<1> HIDE DEF r, signals
<1>10. /\ Sound(r, recorded)
       /\ r.running = f.running /\ r.satisfied = f.satisfied /\ r.loops = f.loops
  BY <1>1, <1>2, <1>8, EnqueueSound
<1>11. Appends(f, r) /\ Signalled(f, r, signals)
  BY <1>1, <1>2, <1>8, EnqueueAppends
<1>12. Appends(s, r) /\ Added(s, r) = Added(f, r)
  BY <1>2, <1>6, <1>11 DEF Appends, Added
<1>13. Entered(s, r, begun)
  <2> SUFFICES ASSUME NEW a \in Added(s, r)
               PROVE  /\ a.lineage \in begun /\ a.group = a.lineage
                      /\ s.loops[a.lineage.lineage].routes # {}
                      /\ \A id \in DOMAIN a.loops :
                           \/ a.loops[id] = a.lineage.lineage
                           \/ /\ id \in DOMAIN s.loops[a.lineage.lineage].parentLoops
                              /\ a.loops[id] = s.loops[a.lineage.lineage].parentLoops[id]
    BY DEF Entered
  <2>1. PICK x \in signals : a.group = x.group /\ a.lineage = x.lineage /\ a.loops = x.loops
    BY <1>11, <1>12 DEF Signalled
  <2> DEFINE l == a.lineage.lineage
  <2>2. l \in DOMAIN s.loops
    BY <1>2, <1>5, <1>9, <2>1
  <2>3. f.loops[l].routes = s.loops[l].routes /\ f.loops[l].parentLoops = s.loops[l].parentLoops
    BY <1>7, <2>2 DEF SameLoop
  <2> QED
    BY <1>9, <2>1, <2>3
<1>14. Begins(s, r, begun)
  BY <1>2, <1>5, <1>10 DEF Begins
<1>15. Refills(s, r, kept)
  BY <1>2, <1>7, <1>10 DEF Refills
<1>16. Grows(s, r)
  BY FillSound DEF r
<1>17. Further(s, r)
  <2> SUFFICES ASSUME NEW l \in DOMAIN s.loops
               PROVE  /\ l \in DOMAIN r.loops
                      /\ s.loops[l].next \in Nat /\ r.loops[l].next \in Nat
                      /\ s.loops[l].next <= r.loops[l].next
    BY DEF Further
  <2>1. l \in DOMAIN r.loops /\ s.loops[l].next \in Nat /\ r.loops[l].next \in Nat
    BY <1>2, <1>10 DEF Sound, Good, IsState, IsLoop
  <2>2. CASE l \in DOMAIN kept
    BY <1>10, <2>1, <2>2, BegunFills DEF f
  <2>3. CASE l \notin DOMAIN kept
    <3>1. r.loops[l] = s.loops[l]
      BY <1>15, <2>3 DEF Refills, Refilled
    <3>2. \A n \in Nat : n <= n
      OBVIOUS
    <3> QED
      BY <2>1, <3>1, <3>2
  <2> QED
    BY <2>1, <2>2, <2>3
<1> QED
  BY <1>10, <1>12, <1>13, <1>14, <1>15, <1>16, <1>17, <1>18 DEF r, begun, Fills

(* SettleLoops fills every loop, keeping the iterations that live.          *)
Living(s, l) == {g \in s.loops[l].active : Live(s, g)}

Kept(s) == [l \in DOMAIN s.loops |-> Living(s, l)]

LEMMA SettleIsFill ==
  ASSUME NEW s
  PROVE  SettleLoops(s) = FillLoops(s, Kept(s))
<1>1. \A g : Live(s, g) <=> \E live \in LiveGroups(s) : live = g \/ g \in live.inside
  BY DEF Live, LiveGroups, Work
<1> QED
  BY <1>1 DEF SettleLoops, Living, Kept

LEMMA SettleAdds ==
  ASSUME NEW s, NEW recorded, Sound(s, recorded)
  PROVE  LET r == SettleLoops(s)
         IN  Sound(r, recorded) /\ Fills(s, r, Kept(s))
<1>1. /\ DOMAIN Kept(s) = DOMAIN s.loops
      /\ \A l \in DOMAIN Kept(s) : Kept(s)[l] \subseteq s.loops[l].active
  BY DEF Kept, Living
<1> QED
  BY <1>1, SettleIsFill, FillAdds

(***************************************************************************)
(* Where activations and loops lie, and the order of what waits.            *)
(***************************************************************************)

(* LiesIn, of a state.                                                      *)
Lies(s, l, m) ==
  \E i \in 0 .. (s.loops[m].next - 1) : Iteration(m, i) \in {l.group} \cup l.group.inside

(* The loops of an activation are those that its iteration lies in.         *)
Scoped(s, a) ==
  /\ a.lineage = Root => a.group.inside = {}
  /\ \A id \in DOMAIN a.loops :
       a.loops[id] = a.lineage.lineage \/ Lies(s, a.lineage.lineage, a.loops[id])

Nested(s) ==
  /\ \A a \in Work(s) : Scoped(s, a)
  /\ \A l \in DOMAIN s.loops : \A id \in DOMAIN s.loops[l].parentLoops :
       Lies(s, l, s.loops[l].parentLoops[id])

(* Of what waits in the iterations, and of what waits in the root, the      *)
(* queue of a node has the order in which the signals came.                 *)
Aligned(s) ==
  /\ \A a \in s.pending : a.place <= s.sequence
  /\ \A a \in s.pending : a.lineage # Root => a.place = a.sequence
  /\ \A a, b \in s.pending :
       (a.node = b.node /\ a.lineage = Root /\ b.lineage = Root /\ a.place < b.place)
         => a.sequence < b.sequence

Orderly(s) == Nested(s) /\ Aligned(s)

LEMMA FurtherLies ==
  ASSUME NEW s, NEW r, Further(s, r), NEW l, NEW m \in DOMAIN s.loops, Lies(s, l, m)
  PROVE  Lies(r, l, m)
<1>1. PICK i \in 0 .. (s.loops[m].next - 1) : Iteration(m, i) \in {l.group} \cup l.group.inside
  BY DEF Lies
<1>2. /\ s.loops[m].next \in Nat /\ r.loops[m].next \in Nat
      /\ s.loops[m].next <= r.loops[m].next
  BY DEF Further
<1>3. i \in 0 .. (r.loops[m].next - 1)
  BY <1>2
<1> QED
  BY <1>1, <1>3 DEF Lies

LEMMA FurtherScoped ==
  ASSUME NEW s, NEW r, Further(s, r), NEW a, IsActivation(s, a), Scoped(s, a)
  PROVE  Scoped(r, a)
BY FurtherLies DEF Scoped, IsActivation

(* In a sound state every activation and loop names loops that are.         *)
LEMMA SoundNames ==
  ASSUME NEW s, NEW recorded, Sound(s, recorded)
  PROVE  /\ \A a \in Work(s) : IsActivation(s, a) /\ Placed(a)
         /\ \A l \in DOMAIN s.loops : /\ IsLoop(s, l) /\ Grounded(s, l)
                                      /\ s.loops[l].next \in Nat
         /\ \A l \in DOMAIN s.satisfied : IsLineage(s, l)
BY DEF Sound, Good, IsState, IsLoop, Tree, Work

(* What is added is scoped, and what was there stays so.                    *)
LEMMA NestedNext ==
  ASSUME NEW s, NEW recorded, Sound(s, recorded), Nested(s), NEW r, Further(s, r),
         \A a \in Work(r) : a \in Work(s) \/ Scoped(r, a),
         \A l \in DOMAIN r.loops : \A id \in DOMAIN r.loops[l].parentLoops :
           \/ l \in DOMAIN s.loops /\ r.loops[l].parentLoops = s.loops[l].parentLoops
           \/ Lies(r, l, r.loops[l].parentLoops[id])
  PROVE  Nested(r)
<1>1. \A a \in Work(r) : Scoped(r, a)
  BY SoundNames, FurtherScoped DEF Nested
<1>2. ASSUME NEW l \in DOMAIN r.loops, NEW id \in DOMAIN r.loops[l].parentLoops
      PROVE  Lies(r, l, r.loops[l].parentLoops[id])
  <2>1. CASE l \in DOMAIN s.loops /\ r.loops[l].parentLoops = s.loops[l].parentLoops
    <3>1. /\ s.loops[l].parentLoops[id] \in DOMAIN s.loops
          /\ Lies(s, l, s.loops[l].parentLoops[id])
      BY <1>2, <2>1, SoundNames DEF Nested, IsLoop
    <3> QED
      BY <2>1, <3>1, FurtherLies
  <2> QED
    BY <1>2, <2>1
<1> QED
  BY <1>1, <1>2 DEF Nested

(* Appending keeps the order of what waits.                                 *)
LEMMA AlignedNext ==
  ASSUME NEW s, NEW recorded, Sound(s, recorded), Aligned(s),
         NEW r, Sound(r, recorded), Appends(s, r)
  PROVE  Aligned(r)
<1>1. /\ s.sequence \in Nat /\ r.sequence \in Nat
      /\ \A a \in r.pending : a.sequence \in Nat /\ a.place \in Nat
      /\ \A a \in s.pending : /\ a.sequence \in Nat /\ a.place \in Nat
                              /\ a.sequence <= s.sequence
  BY DEF Sound, Good, IsState, IsActivation, Numbered
<1>2. \A a \in r.pending : a \in s.pending \/ a \in Added(s, r)
  BY DEF Added
<1>3. ASSUME NEW a \in r.pending PROVE a.place <= r.sequence
  BY <1>1, <1>2, <1>3 DEF Aligned, Appends
<1>4. ASSUME NEW a \in r.pending, a.lineage # Root PROVE a.place = a.sequence
  BY <1>2, <1>4 DEF Aligned, Appends
<1>5. ASSUME NEW a \in r.pending, NEW b \in r.pending, a.node = b.node,
             a.lineage = Root, b.lineage = Root, a.place < b.place
      PROVE  a.sequence < b.sequence
  <2>1. CASE a \in s.pending /\ b \in s.pending
    BY <1>5, <2>1 DEF Aligned
  <2>2. CASE a \in s.pending /\ b \in Added(s, r)
    BY <1>1, <2>2 DEF Appends
  <2>3. CASE a \in Added(s, r) /\ b \in s.pending
    BY <1>1, <1>5, <2>3 DEF Aligned, Appends
  <2>4. CASE a \in Added(s, r) /\ b \in Added(s, r)
    BY <1>5, <2>4 DEF Appends
  <2> QED
    BY <1>2, <2>1, <2>2, <2>3, <2>4
<1> QED
  BY <1>3, <1>4, <1>5 DEF Aligned

(***************************************************************************)
(* What operators keep of the order, and where iterations begin.            *)
(***************************************************************************)

(* The iterations that begin are of loops that are open.                    *)
BeginsOpen(s, r) ==
  /\ DOMAIN s.satisfied \subseteq DOMAIN r.satisfied
  /\ DOMAIN s.loops \subseteq DOMAIN r.loops
  /\ \A l \in DOMAIN s.loops : r.loops[l].closed = s.loops[l].closed
  /\ \A g \in DOMAIN r.satisfied \ DOMAIN s.satisfied :
       g.lineage \in DOMAIN r.loops /\ ~ r.loops[g.lineage].closed

LEMMA BeginsOpenTransitive ==
  ASSUME NEW s, NEW q, NEW r, BeginsOpen(s, q), BeginsOpen(q, r)
  PROVE  BeginsOpen(s, r)
BY DEF BeginsOpen

LEMMA FillsOrderly ==
  ASSUME NEW s, NEW recorded, Sound(s, recorded), Orderly(s),
         NEW r, Sound(r, recorded), NEW kept, Fills(s, r, kept)
  PROVE  Orderly(r) /\ BeginsOpen(s, r)
<1> DEFINE begun == Begun(s, kept)
<1>1. /\ Grows(s, r) /\ Further(s, r) /\ Appends(s, r)
      /\ Entered(s, r, begun) /\ Begins(s, r, begun) /\ Refills(s, r, kept)
  BY DEF Fills
<1> HIDE DEF begun
<1>2. Aligned(r)
  BY <1>1, AlignedNext DEF Orderly
<1>3. ASSUME NEW a \in Added(s, r) PROVE Scoped(r, a)
  <2> DEFINE l == a.lineage.lineage
  <2>1. /\ l \in DOMAIN s.loops /\ a.lineage # Root
        /\ \A id \in DOMAIN a.loops :
             \/ a.loops[id] = l
             \/ id \in DOMAIN s.loops[l].parentLoops /\ a.loops[id] = s.loops[l].parentLoops[id]
    BY <1>1 DEF Entered, Begins
  <2>2. \A id \in DOMAIN s.loops[l].parentLoops :
          /\ s.loops[l].parentLoops[id] \in DOMAIN s.loops
          /\ Lies(s, l, s.loops[l].parentLoops[id])
    BY <2>1, SoundNames DEF IsLoop, Orderly, Nested
  <2>3. \A id \in DOMAIN a.loops : a.loops[id] = l \/ Lies(r, l, a.loops[id])
    BY <1>1, <2>1, <2>2, FurtherLies
  <2> QED
    BY <2>1, <2>3 DEF Scoped
<1>4. \A a \in Work(r) : a \in Work(s) \/ a \in Added(s, r)
  BY <1>1 DEF Work, Added, Grows
<1>5. \A l \in DOMAIN r.loops :
        l \in DOMAIN s.loops /\ r.loops[l].parentLoops = s.loops[l].parentLoops
  BY <1>1 DEF Refills, SameLoop
<1>6. Nested(r)
  BY <1>1, <1>3, <1>4, <1>5, NestedNext DEF Orderly
<1>7. BeginsOpen(s, r)
  BY <1>1 DEF BeginsOpen, Refills, SameLoop, Begins
<1> QED
  BY <1>2, <1>6, <1>7 DEF Orderly

LEMMA SettleOrderly ==
  ASSUME NEW s, NEW recorded, Sound(s, recorded), Orderly(s)
  PROVE  LET r == SettleLoops(s)
         IN  Sound(r, recorded) /\ Orderly(r) /\ BeginsOpen(s, r) /\ Fills(s, r, Kept(s))
<1> DEFINE r == SettleLoops(s)
<1>1. Sound(r, recorded) /\ Fills(s, r, Kept(s))
  BY SettleAdds
<1> HIDE DEF r
<1>2. Orderly(r) /\ BeginsOpen(s, r)
  BY <1>1, FillsOrderly
<1> QED
  BY <1>1, <1>2 DEF r

(***************************************************************************)
(* Merging.                                                                 *)
(***************************************************************************)

(* What merging makes of a state: at a target there is one activation left  *)
(* in the lineage, in the root and at the end of its queue when it is new.  *)
Merges(s, r, lineage, targets) ==
  /\ s.sequence <= r.sequence
  /\ \A a \in Added(s, r) : /\ a.lineage = Root /\ lineage = Root /\ a.node \in targets
                            /\ a.group.kind = "merged" /\ a.group.inside = {}
                            /\ DOMAIN a.loops = {}
                            /\ a.place <= r.sequence
  /\ \A a, b \in r.pending :
       (a.node \in targets /\ a.node = b.node /\ a.lineage = lineage /\ b.lineage = lineage)
         => a = b

LEMMA FewWaiting ==
  ASSUME NEW W, IsFiniteSet(W), ~ (Cardinality(W) > 1), NEW a \in W, NEW b \in W
  PROVE  a = b
<1>1. Cardinality(W) \in Nat /\ Cardinality({a}) = 1 /\ IsFiniteSet({a})
  BY FS_CardinalityType, FS_Singleton
<1>2. {a} \subseteq W
  OBVIOUS
<1>3. Cardinality({a}) <= Cardinality(W) /\ (Cardinality({a}) = Cardinality(W) => {a} = W)
  BY <1>2, FS_Subset
<1>4. Cardinality(W) = 1
  BY <1>1, <1>3
<1>5. {a} = W
  BY <1>1, <1>3, <1>4
<1> QED
  BY <1>5

LEMMA MergeMerges ==
  ASSUME NEW s, NEW recorded, Sound(s, recorded), NEW lineage \in DOMAIN s.satisfied,
         NEW targets \in SUBSET Nodes
  PROVE  Merges(s, MergeLockedSignals(s, lineage, targets), lineage, targets)
<1> DEFINE merging == {n \in targets : Cardinality(Waiting(s, lineage, n)) > 1}
           gone == UNION {Waiting(s, lineage, n) : n \in merging}
           new == {Merged(s, lineage, n) : n \in merging}
           last == s.sequence + IF merging = {} THEN 0 ELSE 1
           r == MergeLockedSignals(s, lineage, targets)
<1>1. Good(s) /\ Tree(s) /\ Numbered(s) /\ Unique(s)
  BY DEF Sound
<1>2. r.pending = (s.pending \ gone) \cup new /\ r.sequence = last
  <2>1. r = [s EXCEPT !.pending = (s.pending \ gone) \cup new, !.sequence = last]
    BY DEF MergeLockedSignals
  <2> HIDE DEF r, merging, gone, last, new
  <2> QED
    BY <1>1, <2>1 DEF Good, IsRecord
<1>3. s.sequence \in Nat /\ last \in Nat /\ s.sequence <= last
      /\ (merging # {} => s.sequence + 1 <= last)
  BY <1>1 DEF Good, IsState
<1>4. \A n \in merging : Waiting(s, lineage, n) # {}
  <2> SUFFICES ASSUME NEW n \in merging, Waiting(s, lineage, n) = {}
               PROVE  FALSE
    OBVIOUS
  <2>1. Cardinality({}) > 1
    OBVIOUS
  <2> HIDE DEF merging
  <2> QED
    BY <2>1, FS_EmptySet
<1>5. merging # {} => lineage = Root
  BY <1>1, WaitingAlone
<1>6. \A n \in targets \ merging : ~ (Cardinality(Waiting(s, lineage, n)) > 1)
  OBVIOUS
<1>7. merging \subseteq targets
  OBVIOUS
<1> HIDE DEF merging, last, r
<1>8. ASSUME NEW b \in new
      PROVE  \E n \in merging :
        /\ b = Merged(s, lineage, n) /\ b.node = n /\ b.lineage = lineage
        /\ b.loops = First(Waiting(s, lineage, n)).loops
        /\ b.group.kind = "merged" /\ b.group.inside = {} /\ b.place = s.sequence + 1
  BY DEF Merged, MergedGroup
<1> HIDE DEF new
<1>9. \A n : \A a \in Waiting(s, lineage, n) : a \in s.pending /\ a.node = n /\ a.lineage = lineage
  BY DEF Waiting, At
<1>10. \A a \in s.pending : a.lineage = lineage => a \in Waiting(s, lineage, a.node)
  BY DEF Waiting, At
<1>11. \A n \in merging : \A a \in Waiting(s, lineage, n) : a \in gone
  BY DEF gone
<1> HIDE DEF gone
<1>12. ASSUME NEW b \in new
       PROVE  /\ b.lineage = Root /\ lineage = Root /\ b.node \in merging
              /\ b.group.kind = "merged" /\ b.group.inside = {}
              /\ DOMAIN b.loops = {}
              /\ b.place <= last
  <2>1. PICK n \in merging :
          /\ b = Merged(s, lineage, n) /\ b.node = n /\ b.lineage = lineage
          /\ b.loops = First(Waiting(s, lineage, n)).loops
          /\ b.group.kind = "merged" /\ b.group.inside = {} /\ b.place = s.sequence + 1
    BY <1>8
  <2> DEFINE first == First(Waiting(s, lineage, n))
  <2>2. first \in Waiting(s, lineage, n)
    BY <1>1, <1>4, WaitingFirstLeast
  <2>3. first \in Work(s) /\ first.lineage = Root /\ lineage = Root
    BY <1>5, <1>9, <2>2 DEF Work
  <2>4. DOMAIN first.loops = {}
    BY <1>1, <2>3 DEF Tree, Placed
  <2> QED
    BY <1>3, <2>1, <2>3, <2>4
<1>13. \A a \in Added(s, r) : a \in new
  BY <1>2 DEF Added
<1>14. ASSUME NEW a \in r.pending, NEW b \in r.pending, a.node \in targets, a.node = b.node,
              a.lineage = lineage, b.lineage = lineage
       PROVE  a = b
  <2> DEFINE n == a.node
  <2>1. CASE n \in merging
    <3>1. a \in new /\ b \in new
      BY <1>2, <1>10, <1>11, <1>14, <2>1
    <3> QED
      BY <1>8, <1>14, <3>1
  <2>2. CASE n \notin merging
    <3>1. a \in s.pending /\ b \in s.pending
      BY <1>2, <1>12, <1>14, <2>2
    <3>2. a \in Waiting(s, lineage, n) /\ b \in Waiting(s, lineage, n)
      BY <1>10, <1>14, <3>1
    <3>3. IsFiniteSet(Waiting(s, lineage, n))
      <4>1. IsFiniteSet(s.pending) /\ Waiting(s, lineage, n) \subseteq s.pending
        BY <1>1, <1>9 DEF Good, IsState
      <4> QED
        BY <4>1, FS_Subset
    <3> QED
      BY <1>6, <1>14, <2>2, <3>2, <3>3, FewWaiting
  <2> QED
    BY <2>1, <2>2
<1>15. Merges(s, r, lineage, targets)
  BY <1>2, <1>3, <1>7, <1>12, <1>13, <1>14 DEF Merges
<1> QED
  BY <1>15 DEF r

LEMMA SoundFurther ==
  ASSUME NEW s, NEW recorded, Sound(s, recorded), NEW r, r.loops = s.loops
  PROVE  Further(s, r)
<1>1. \A n \in Nat : n <= n
  OBVIOUS
<1> QED
  BY <1>1, SoundNames DEF Further

LEMMA MergeOrderly ==
  ASSUME NEW s, NEW recorded, Sound(s, recorded), Orderly(s), NEW r, Sound(r, recorded),
         r.running = s.running, r.loops = s.loops,
         NEW lineage, NEW targets, Merges(s, r, lineage, targets)
  PROVE  Orderly(r)
<1>1. \A a \in r.pending : a \in s.pending \/ a \in Added(s, r)
  BY DEF Added
<1>2. /\ s.sequence \in Nat /\ r.sequence \in Nat
      /\ \A a \in r.pending : a.sequence \in Nat /\ a.place \in Nat
      /\ \A a \in s.pending : a.sequence \in Nat /\ a.place \in Nat
  BY DEF Sound, Good, IsState, IsActivation
<1>3. \A a \in r.pending : a.place <= r.sequence
  BY <1>1, <1>2 DEF Merges, Orderly, Aligned
<1>4. \A a \in r.pending : a.lineage # Root => a.place = a.sequence
  BY <1>1 DEF Merges, Orderly, Aligned
<1>5. ASSUME NEW a \in r.pending, NEW b \in r.pending, a.node = b.node,
             a.lineage = Root, b.lineage = Root, a.place < b.place
      PROVE  a.sequence < b.sequence
  <2>1. CASE a \in s.pending /\ b \in s.pending
    BY <1>5, <2>1 DEF Orderly, Aligned
  <2>2. CASE a \in Added(s, r) \/ b \in Added(s, r)
    <3>1. a = b
      BY <1>5, <2>2 DEF Merges
    <3> QED
      BY <1>2, <1>5, <3>1
  <2> QED
    BY <1>1, <2>1, <2>2
<1>6. Aligned(r)
  BY <1>3, <1>4, <1>5 DEF Aligned
<1>7. \A a \in Added(s, r) : Scoped(r, a)
  BY DEF Merges, Scoped
<1>8. \A a \in Work(r) : a \in Work(s) \/ Scoped(r, a)
  BY <1>1, <1>7 DEF Work
<1>9. Nested(r)
  BY <1>8, SoundFurther, NestedNext DEF Orderly
<1> QED
  BY <1>6, <1>9 DEF Orderly

(***************************************************************************)
(* Advancing: the parts of Advance.                                         *)
(***************************************************************************)
Routed(s, a, routes) == Enqueue(Satisfy(s, a.lineage, a.node), Signals(a, routes))

Unlocking(s, a) ==
  {n \in Nodes : /\ ~ Unlocked(s, n, a.lineage)
                 /\ Unlocked(Satisfy(s, a.lineage, a.node), n, a.lineage)}

Joined(s, a, routes) == MergeLockedSignals(Routed(s, a, routes), a.lineage, Unlocking(s, a))

LEMMA AdvanceIsSettle ==
  ASSUME NEW s, NEW a, NEW routes
  PROVE  Advance(s, a, routes) = SettleLoops(Joined(s, a, routes))
BY DEF Advance, Joined, Routed, Unlocking

(* What is advanced: a completion of a, recorded.                           *)
Advances(s, recorded, a, routes) ==
  /\ Sound(s, recorded)
  /\ IsActivation(s, a) /\ Placed(a)
  /\ Completed(recorded, a.node, a.lineage)
  /\ routes \subseteq DOMAIN Node[a.node].routes

(* A state that differs in its latches only.                                *)
SameButLatches(s, r) ==
  /\ r.running = s.running /\ r.loops = s.loops
  /\ DOMAIN r.satisfied = DOMAIN s.satisfied

LEMMA RoutedParts ==
  ASSUME NEW s, NEW recorded, NEW a, NEW routes, Advances(s, recorded, a, routes)
  PROVE  LET r == Routed(s, a, routes)
         IN  /\ Sound(r, recorded) /\ SameButLatches(s, r)
             /\ Appends(s, r) /\ Signalled(s, r, Signals(a, routes))
             /\ \A l \in DOMAIN s.satisfied : l # a.lineage => r.satisfied[l] = s.satisfied[l]
             /\ Satisfied(r, a.lineage) = Satisfied(Satisfy(s, a.lineage, a.node), a.lineage)
<1> DEFINE latched == Satisfy(s, a.lineage, a.node)
           r == Routed(s, a, routes)
<1>1. r = Enqueue(latched, Signals(a, routes))
  BY DEF Routed
<1>2. a.node \in Nodes /\ a.lineage \in DOMAIN s.satisfied
  BY DEF IsActivation, Advances
<1>3. /\ Sound(latched, recorded)
      /\ latched.pending = s.pending
      /\ latched.running = s.running /\ latched.loops = s.loops
      /\ DOMAIN latched.satisfied = DOMAIN s.satisfied
  BY <1>2, SatisfySound DEF Advances
<1>4. latched.sequence = s.sequence
  BY DEF Advances, Sound, Good, IsRecord, Satisfy
<1>5. \A l \in DOMAIN s.satisfied : l # a.lineage => latched.satisfied[l] = s.satisfied[l]
  <2>1. "satisfied" \in DOMAIN s
    BY DEF Advances, Sound, Good, IsRecord
  <2> QED
    BY <2>1 DEF Satisfy
<1> HIDE DEF latched, r
<1>6. IsActivation(latched, a)
  BY <1>3 DEF IsActivation, Advances
<1>7. AreSignals(latched, Signals(a, routes))
  BY <1>6, RoutesSignal DEF Advances
<1>8. /\ Sound(r, recorded) /\ r.running = latched.running
      /\ r.satisfied = latched.satisfied /\ r.loops = latched.loops
  BY <1>1, <1>3, <1>7, EnqueueSound
<1>9. Appends(latched, r) /\ Signalled(latched, r, Signals(a, routes))
  BY <1>1, <1>3, <1>7, EnqueueAppends
<1>10. Appends(s, r) /\ Signalled(s, r, Signals(a, routes))
  BY <1>3, <1>4, <1>9 DEF Appends, Signalled, Added
<1> QED
  BY <1>3, <1>5, <1>8, <1>10 DEF SameButLatches, Satisfied, r, latched

LEMMA JoinedParts ==
  ASSUME NEW s, NEW recorded, NEW a, NEW routes, Advances(s, recorded, a, routes)
  PROVE  LET q == Routed(s, a, routes)
             r == Joined(s, a, routes)
         IN  /\ Sound(r, recorded) /\ r.running = q.running
             /\ r.satisfied = q.satisfied /\ r.loops = q.loops
             /\ Merges(q, r, a.lineage, Unlocking(s, a))
<1> DEFINE q == Routed(s, a, routes)
           r == Joined(s, a, routes)
           unlocking == Unlocking(s, a)
<1>1. Sound(q, recorded) /\ SameButLatches(s, q)
  BY RoutedParts
<1>2. \A n \in unlocking : \A t \in s.running :
        ~ (t.activation.node = n /\ t.activation.lineage = a.lineage)
  BY DEF Advances, Sound, Latched, Unlocking
<1>3. unlocking \in SUBSET Nodes
  BY DEF Unlocking
<1>4. r = MergeLockedSignals(q, a.lineage, unlocking)
  BY DEF Joined
<1>5. a.lineage \in DOMAIN q.satisfied
  BY <1>1 DEF SameButLatches, Advances, IsActivation
<1> HIDE DEF q, r, unlocking
<1>6. /\ Sound(r, recorded) /\ r.running = q.running
      /\ r.satisfied = q.satisfied /\ r.loops = q.loops
  BY <1>1, <1>2, <1>3, <1>4, <1>5, MergeSound DEF SameButLatches
<1>7. Merges(q, r, a.lineage, unlocking)
  BY <1>1, <1>3, <1>4, <1>5, MergeMerges
<1> QED
  BY <1>6, <1>7 DEF q, r, unlocking

LEMMA JoinedOrderly ==
  ASSUME NEW s, NEW recorded, NEW a, NEW routes, Advances(s, recorded, a, routes),
         Orderly(s), Scoped(s, a)
  PROVE  Orderly(Joined(s, a, routes))
<1> DEFINE q == Routed(s, a, routes)
           j == Joined(s, a, routes)
<1>1. /\ Sound(q, recorded) /\ SameButLatches(s, q)
      /\ Appends(s, q) /\ Signalled(s, q, Signals(a, routes))
  BY RoutedParts
<1>2. /\ Sound(j, recorded) /\ j.running = q.running
      /\ j.satisfied = q.satisfied /\ j.loops = q.loops
      /\ Merges(q, j, a.lineage, Unlocking(s, a))
  BY JoinedParts
<1> HIDE DEF q, j
<1>3. Sound(s, recorded)
  BY DEF Advances
<1>4. \A x \in Signals(a, routes) : /\ x.group = a.group /\ x.lineage = a.lineage
                                    /\ x.loops = a.loops
  BY DEF Signals
<1>5. \A b \in Added(s, q) : /\ b.group = a.group /\ b.lineage = a.lineage
                             /\ b.loops = a.loops
  BY <1>1, <1>4 DEF Signalled
<1>6. Further(s, q)
  BY <1>1, <1>3, SoundFurther DEF SameButLatches
<1>7. Scoped(q, a)
  BY <1>6, FurtherScoped DEF Advances
<1>8. \A b \in Work(q) : b \in Work(s) \/ Scoped(q, b)
  <2>1. \A b \in Added(s, q) : Scoped(q, b)
    BY <1>5, <1>7 DEF Scoped
  <2> QED
    BY <1>1, <2>1 DEF Work, Added, SameButLatches
<1>9. Nested(q)
  BY <1>1, <1>3, <1>6, <1>8, NestedNext DEF Orderly, SameButLatches
<1>10. Aligned(q)
  BY <1>1, <1>3, AlignedNext DEF Orderly
<1>11. Orderly(j)
  BY <1>1, <1>2, <1>9, <1>10, MergeOrderly DEF Orderly
<1> QED
  BY <1>11 DEF j

LEMMA AdvanceOrderly ==
  ASSUME NEW s, NEW recorded, NEW a, NEW routes, Advances(s, recorded, a, routes),
         Orderly(s), Scoped(s, a)
  PROVE  LET r == Advance(s, a, routes)
         IN  Orderly(r) /\ BeginsOpen(s, r)
<1> DEFINE q == Routed(s, a, routes)
           j == Joined(s, a, routes)
           r == Advance(s, a, routes)
<1>1. Sound(q, recorded) /\ SameButLatches(s, q)
  BY RoutedParts
<1>2. Sound(j, recorded) /\ j.satisfied = q.satisfied /\ j.loops = q.loops
  BY JoinedParts
<1>3. r = SettleLoops(j) /\ Orderly(j)
  BY AdvanceIsSettle, JoinedOrderly
<1> HIDE DEF q, j, r
<1>4. Orderly(r) /\ BeginsOpen(j, r)
  BY <1>2, <1>3, SettleOrderly
<1>5. BeginsOpen(s, r)
  BY <1>1, <1>2, <1>4 DEF BeginsOpen, SameButLatches
<1> QED
  BY <1>4, <1>5 DEF r

(***************************************************************************)
(* Loops that open and close.                                               *)
(***************************************************************************)

(* What a break makes of a state: the loop it names is closed, and nothing  *)
(* else of the loops changes.                                               *)
Closes(s, r, a) ==
  /\ r.pending \subseteq s.pending /\ r.running = s.running
  /\ r.satisfied = s.satisfied /\ r.sequence = s.sequence
  /\ DOMAIN r.loops = DOMAIN s.loops
  /\ \A k \in DOMAIN s.loops :
       /\ r.loops[k].next = s.loops[k].next /\ r.loops[k].active = s.loops[k].active
       /\ r.loops[k].limit = s.loops[k].limit /\ r.loops[k].routes = s.loops[k].routes
       /\ r.loops[k].parentLoops = s.loops[k].parentLoops
       /\ s.loops[k].closed => r.loops[k].closed
  /\ Node[a.node].loop \in DOMAIN a.loops => r.loops[a.loops[Node[a.node].loop]].closed

LEMMA CloseCloses ==
  ASSUME NEW s, NEW recorded, Sound(s, recorded), NEW a, IsActivation(s, a)
  PROVE  Closes(s, CloseLoop(s, a), a)
<1> DEFINE id == Node[a.node].loop
           l == a.loops[id]
           left == {q \in s.pending : ~ (id \in DOMAIN q.loops /\ q.loops[id] = a.loops[id])}
           loops2 == [s.loops EXCEPT ![l].closed = TRUE]
           r == CloseLoop(s, a)
<1>1. CASE id \notin DOMAIN a.loops \/ s.loops[l].closed
  <2>1. r = s
    BY <1>1 DEF CloseLoop
  <2> QED
    BY <1>1, <2>1 DEF Closes
<1>2. CASE ~ (id \notin DOMAIN a.loops \/ s.loops[l].closed)
  <2>1. r = [s EXCEPT !.loops[l].closed = TRUE, !.pending = left]
    BY <1>2 DEF CloseLoop
  <2>2. l \in DOMAIN s.loops /\ "closed" \in DOMAIN s.loops[l]
    BY <1>2 DEF IsActivation, Sound, Tree, Grounded
  <2> HIDE DEF r, left
  <2>3. r = [pending |-> left, running |-> s.running, satisfied |-> s.satisfied,
             loops |-> loops2, sequence |-> s.sequence]
    <3> HIDE DEF l
    <3>1. IsRecord(s)
      BY DEF Sound, Good
    <3> QED
      BY <2>1, <3>1 DEF IsRecord
  <2>4. left \subseteq s.pending
    BY DEF left
  <2>5. /\ DOMAIN loops2 = DOMAIN s.loops
        /\ \A k \in DOMAIN s.loops :
             /\ loops2[k].next = s.loops[k].next /\ loops2[k].active = s.loops[k].active
             /\ loops2[k].limit = s.loops[k].limit /\ loops2[k].routes = s.loops[k].routes
             /\ loops2[k].parentLoops = s.loops[k].parentLoops
             /\ s.loops[k].closed => loops2[k].closed
        /\ loops2[l].closed
    <3> HIDE DEF l
    <3> QED
      BY <2>2
  <2> HIDE DEF loops2
  <2>6. Closes(s, r, a)
    BY <2>3, <2>4, <2>5 DEF Closes
  <2> QED
    BY <2>6 DEF r
<1> QED
  BY <1>1, <1>2

LEMMA FewerAligned ==
  ASSUME NEW s, Aligned(s), NEW r, r.pending \subseteq s.pending, r.sequence = s.sequence
  PROVE  Aligned(r)
BY DEF Aligned

LEMMA CloseOrderly ==
  ASSUME NEW s, NEW recorded, Sound(s, recorded), Orderly(s), NEW a, NEW r, Closes(s, r, a)
  PROVE  Orderly(r) /\ Further(s, r)
<1>1. Aligned(r)
  BY FewerAligned DEF Orderly, Closes
<1>2. Further(s, r)
  <2>1. \A n \in Nat : n <= n
    OBVIOUS
  <2> QED
    BY <2>1, SoundNames DEF Further, Closes
<1>3. \A b \in Work(r) : b \in Work(s)
  BY DEF Work, Closes
<1>4. Nested(r)
  BY <1>2, <1>3, NestedNext DEF Orderly, Closes
<1> QED
  BY <1>1, <1>2, <1>4 DEF Orderly

LEMMA IterationFields ==
  ASSUME NEW l, NEW i, NEW g, g = Iteration(l, i)
  PROVE  /\ g.kind = "iteration" /\ g.lineage = l /\ g.index = i
         /\ g.inside = {l.group} \cup l.group.inside
BY DEF Iteration

(* A loop that opens lies in the iteration of its loop node, and so in the  *)
(* loops which that lies in.                                                *)
LEMMA OpenedLies ==
  ASSUME NEW s, NEW recorded, Sound(s, recorded), NEW c,
         IsActivation(s, c.task.activation), Placed(c.task.activation),
         Scoped(s, c.task.activation), NEW id \in DOMAIN c.task.activation.loops
  PROVE  Lies(s, NewLineage(c), c.task.activation.loops[id])
<1> DEFINE a == c.task.activation
           l == a.lineage.lineage
           m == a.loops[id]
<1>1. a.lineage # Root /\ a.group = a.lineage /\ a.lineage \in DOMAIN s.satisfied
  BY DEF Placed, IsActivation
<1>2. /\ l \in DOMAIN s.loops /\ a.lineage.index \in Nat
      /\ a.lineage.index < s.loops[l].next
      /\ a.lineage = Iteration(l, a.lineage.index)
  BY <1>1, SoundNames DEF IsLineage
<1>3. NewLineage(c).group = a.group
  BY DEF NewLineage, LoopLineage
<1>4. a.group.inside = {l.group} \cup l.group.inside
  <2> HIDE DEF l, a
  <2> QED
    BY <1>1, <1>2, IterationFields
<1>5. CASE m = l
  <2>1. a.lineage.index \in 0 .. (s.loops[l].next - 1)
    BY <1>2, SoundNames
  <2> QED
    BY <1>1, <1>2, <1>3, <1>5, <2>1 DEF Lies
<1>6. CASE Lies(s, l, m)
  BY <1>3, <1>4, <1>6 DEF Lies
<1> QED
  BY <1>5, <1>6 DEF Scoped

LEMMA OpenedOrderly ==
  ASSUME NEW s, NEW recorded, Sound(s, recorded), NEW c, NEW routes,
         Handled(s, recorded, c, routes), NewLineage(c) \notin DOMAIN s.loops, ~ Spins(c, routes),
         Node[c.task.activation.node].type = "loop",
         Orderly(s), Scoped(s, c.task.activation)
  PROVE  LET r == Opened(s, c, routes)
         IN  Sound(r, recorded) /\ Orderly(r) /\ BeginsOpen(s, r) /\ Further(s, r)
<1> DEFINE a == c.task.activation
           new == NewLineage(c)
           r == Opened(s, c, routes)
<1>1. IsActivation(s, a) /\ Placed(a) /\ c.items \in Nat /\ Good(s)
      /\ routes \subseteq DOMAIN Node[a.node].routes
  BY DEF Handled, Sound
<1>2. Sound(r, recorded)
  BY OpenedSound
<1>3. /\ r.pending = s.pending /\ r.running = s.running
      /\ r.satisfied = s.satisfied /\ r.sequence = s.sequence
      /\ DOMAIN r.loops = DOMAIN s.loops \cup {new}
      /\ r.loops[new] = NewLoop(s, c, routes)
      /\ \A l \in DOMAIN s.loops : l # new => r.loops[l] = s.loops[l]
  BY <1>1, OpenedGood
<1>4. \A l \in DOMAIN s.loops : r.loops[l] = s.loops[l]
  BY <1>3
<1>5. r.loops[new].parentLoops = a.loops
  BY <1>3 DEF NewLoop
<1> HIDE DEF r
<1>6. Further(s, r)
  <2>1. \A n \in Nat : n <= n
    OBVIOUS
  <2> QED
    BY <1>3, <1>4, <2>1, SoundNames DEF Further
<1>7. Aligned(r)
  BY <1>3, FewerAligned DEF Orderly
<1>8. \A id \in DOMAIN a.loops : Lies(r, new, a.loops[id])
  <2>1. \A id \in DOMAIN a.loops : a.loops[id] \in DOMAIN s.loops /\ Lies(s, new, a.loops[id])
    BY <1>1, OpenedLies DEF IsActivation
  <2> HIDE DEF new, a
  <2> QED
    BY <1>6, <2>1, FurtherLies
<1>9. Nested(r)
  <2>1. \A b \in Work(r) : b \in Work(s)
    BY <1>3 DEF Work
  <2>2. ASSUME NEW l \in DOMAIN r.loops, NEW id \in DOMAIN r.loops[l].parentLoops
        PROVE  \/ l \in DOMAIN s.loops /\ r.loops[l].parentLoops = s.loops[l].parentLoops
               \/ Lies(r, l, r.loops[l].parentLoops[id])
    BY <1>3, <1>4, <1>5, <1>8, <2>2
  <2> HIDE DEF new, a
  <2> QED
    BY <1>6, <2>1, <2>2, NestedNext DEF Orderly
<1>10. BeginsOpen(s, r)
  BY <1>3, <1>4 DEF BeginsOpen
<1> QED
  BY <1>2, <1>6, <1>7, <1>9, <1>10 DEF Orderly, r

LEMMA FurtherTransitive ==
  ASSUME NEW s, NEW q, NEW r, Further(s, q), Further(q, r)
  PROVE  Further(s, r)
BY DEF Further

(* The room of a loop that opens is filled.                                 *)
Alone(c) == [l \in {NewLineage(c)} |-> {}]

LEMMA OpenOrderly ==
  ASSUME NEW s, NEW recorded, Sound(s, recorded), NEW c, NEW routes,
         Handled(s, recorded, c, routes), NewLineage(c) \notin DOMAIN s.loops, ~ Spins(c, routes),
         Node[c.task.activation.node].type = "loop",
         Orderly(s), Scoped(s, c.task.activation)
  PROVE  LET r == OpenLoop(s, c, routes)
         IN  /\ Sound(r, recorded) /\ Orderly(r)
             /\ BeginsOpen(s, r) /\ Further(s, r)
             /\ Fills(Opened(s, c, routes), r, Alone(c))
<1> DEFINE q == Opened(s, c, routes)
           r == OpenLoop(s, c, routes)
<1>1. Sound(q, recorded) /\ Orderly(q) /\ BeginsOpen(s, q) /\ Further(s, q)
  BY OpenedOrderly
<1>2. r = FillLoops(q, Alone(c))
  BY OpenIsFill DEF Alone
<1>3. DOMAIN Alone(c) \subseteq DOMAIN q.loops /\ \A l \in DOMAIN Alone(c) : Alone(c)[l] = {}
  BY DEF Alone, Opened, Handled, Sound, Good, IsRecord
<1> HIDE DEF q, r
<1>4. Sound(r, recorded) /\ Fills(q, r, Alone(c))
  BY <1>1, <1>2, <1>3, FillAdds
<1>5. Orderly(r) /\ BeginsOpen(q, r)
  BY <1>1, <1>4, FillsOrderly
<1>6. BeginsOpen(s, r) /\ Further(s, r)
  BY <1>1, <1>4, <1>5, BeginsOpenTransitive, FurtherTransitive DEF Fills
<1> QED
  BY <1>4, <1>5, <1>6 DEF q, r

LEMMA SatisfyOrderly ==
  ASSUME NEW s, NEW recorded, Sound(s, recorded), Orderly(s), NEW lineage \in DOMAIN s.satisfied,
         NEW n \in Nodes, Completed(recorded, n, lineage)
  PROVE  LET r == Satisfy(s, lineage, n)
         IN  /\ Sound(r, recorded) /\ Orderly(r) /\ Further(s, r) /\ BeginsOpen(s, r)
             /\ r.pending = s.pending /\ SameButLatches(s, r)
<1> DEFINE r == Satisfy(s, lineage, n)
<1>1. /\ Sound(r, recorded)
      /\ r.pending = s.pending /\ r.running = s.running /\ r.loops = s.loops
      /\ DOMAIN r.satisfied = DOMAIN s.satisfied
  BY SatisfySound
<1>2. r.sequence = s.sequence
  BY DEF Sound, Good, IsRecord, Satisfy
<1> HIDE DEF r
<1>3. Further(s, r)
  BY <1>1, SoundFurther
<1>4. Aligned(r)
  BY <1>1, <1>2, FewerAligned DEF Orderly
<1>5. \A b \in Work(r) : b \in Work(s)
  BY <1>1 DEF Work
<1>6. Nested(r)
  BY <1>1, <1>3, <1>5, NestedNext DEF Orderly
<1>7. BeginsOpen(s, r) /\ SameButLatches(s, r)
  BY <1>1 DEF BeginsOpen, SameButLatches
<1> QED
  BY <1>1, <1>3, <1>4, <1>6, <1>7 DEF Orderly, r

(* What begins, ends no loop that was there: BreakEndsLoop, of two states.  *)
Ends(s, r) ==
  /\ DOMAIN s.satisfied \subseteq DOMAIN r.satisfied
  /\ DOMAIN s.loops \subseteq DOMAIN r.loops
  /\ \A l \in DOMAIN s.loops : \A g \in DOMAIN r.satisfied \ DOMAIN s.satisfied :
       r.loops[l].closed => g.lineage # l

LEMMA BeginsOpenEnds ==
  ASSUME NEW s, NEW q, NEW r, BeginsOpen(q, r),
         Ends(s, q) \/ (DOMAIN q.satisfied = DOMAIN s.satisfied /\ DOMAIN q.loops = DOMAIN s.loops)
  PROVE  Ends(s, r)
BY DEF BeginsOpen, Ends

LEMMA ControlOrderly ==
  ASSUME NEW s, NEW recorded, Sound(s, recorded), NEW c, NEW routes,
         Handled(s, recorded, c, routes), NewLineage(c) \notin DOMAIN s.loops, ~ Spins(c, routes),
         Orderly(s), Scoped(s, c.task.activation)
  PROVE  LET r == Control(s, c, routes)
         IN  Sound(r, recorded) /\ Orderly(r) /\ Further(s, r) /\ Ends(s, r)
<1> DEFINE a == c.task.activation
           r == Control(s, c, routes)
<1>1. /\ IsActivation(s, a) /\ a.node \in Nodes /\ a.lineage \in DOMAIN s.satisfied
      /\ Completed(recorded, a.node, a.lineage)
  <2>1. a.lineage \in Around(a.lineage)
    BY DEF Around
  <2> QED
    BY <2>1 DEF Handled, IsActivation, IsRecordOf, Completed
<1>2. CASE Node[a.node].type = "loop"
  <2> DEFINE latched == Satisfy(s, a.lineage, a.node)
             opened == OpenLoop(latched, c, routes)
  <2>1. r = SettleLoops(opened)
    BY <1>2 DEF Control
  <2>2. /\ Sound(latched, recorded) /\ Orderly(latched)
        /\ Further(s, latched) /\ BeginsOpen(s, latched)
        /\ SameButLatches(s, latched)
    BY <1>1, SatisfyOrderly
  <2> HIDE DEF latched
  <2>3. Handled(latched, recorded, c, routes) /\ NewLineage(c) \notin DOMAIN latched.loops
    BY <2>2 DEF Handled, IsActivation, SameButLatches
  <2>4. Scoped(latched, a)
    BY <1>1, <2>2, FurtherScoped
  <2>5. /\ Sound(opened, recorded) /\ Orderly(opened)
        /\ BeginsOpen(latched, opened) /\ Further(latched, opened)
    BY <1>2, <2>2, <2>3, <2>4, OpenOrderly
  <2> HIDE DEF opened, r
  <2>6. /\ Sound(r, recorded) /\ Orderly(r)
        /\ BeginsOpen(opened, r) /\ Further(opened, r)
    BY <2>1, <2>5, SettleOrderly DEF Fills
  <2>7. Further(s, r) /\ BeginsOpen(s, r)
    BY <2>2, <2>5, <2>6, FurtherTransitive, BeginsOpenTransitive
  <2>8. Ends(s, r)
    BY <2>7, BeginsOpenEnds
  <2> QED
    BY <2>6, <2>7, <2>8 DEF r
<1>3. CASE Node[a.node].type = "break"
  <2> DEFINE closed == CloseLoop(s, a)
  <2>1. r = SettleLoops(closed)
    BY <1>3 DEF Control
  <2>2. Sound(closed, recorded) /\ Closes(s, closed, a)
    BY <1>1, CloseSound, CloseCloses
  <2> HIDE DEF closed, r
  <2>3. Orderly(closed) /\ Further(s, closed)
    BY <2>2, CloseOrderly
  <2>4. /\ Sound(r, recorded) /\ Orderly(r)
        /\ BeginsOpen(closed, r) /\ Further(closed, r)
    BY <2>1, <2>2, <2>3, SettleOrderly DEF Fills
  <2>5. Further(s, r)
    BY <2>3, <2>4, FurtherTransitive
  <2>6. Ends(s, r)
    BY <2>2, <2>4, BeginsOpenEnds DEF Closes
  <2> QED
    BY <2>4, <2>5, <2>6 DEF r
<1>4. CASE Node[a.node].type \notin {"loop", "break"}
  <2>1. r = s
    BY <1>4 DEF Control
  <2> QED
    BY <2>1, SoundFurther DEF Ends
<1> QED
  BY <1>2, <1>3, <1>4

(***************************************************************************)
(* The window of a loop.                                                    *)
(***************************************************************************)

(* No loop was opened in an iteration of the loop, and no loop around it    *)
(* was broken.                                                              *)
Simple(s, l) ==
  \A m \in DOMAIN s.loops : ~ Lies(s, m, l) /\ (s.loops[m].closed => ~ Lies(s, l, m))

(* The iterations of a loop in which something waits or runs, or is in G.   *)
Busy(s, l, G) ==
  {i \in 0 .. (s.loops[l].next - 1) :
     Iteration(l, i) \in G \/ \E a \in Work(s) : a.lineage = Iteration(l, i)}

Window(s, l, G) ==
  /\ Cardinality(Busy(s, l, G)) <= s.loops[l].limit
  /\ ~ s.loops[l].closed => \A i \in Busy(s, l, G) : Iteration(l, i) \in s.loops[l].active

Windows(s, G) == \A l \in DOMAIN s.loops : Simple(s, l) => Window(s, l, G)

(* A loop knows no more iterations than it may have at a time.              *)
Bounded(s) ==
  \A l \in DOMAIN s.loops :
    /\ Cardinality(s.loops[l].active) <= s.loops[l].limit
    /\ s.loops[l].routes = {} => s.loops[l].active = {}

LEMMA IterationsDiffer ==
  ASSUME NEW l, NEW i, NEW m, NEW j, Iteration(l, i) = Iteration(m, j)
  PROVE  l = m /\ i = j
<1> DEFINE g == Iteration(l, i)
<1>1. g = Iteration(l, i) /\ g = Iteration(m, j)
  OBVIOUS
<1> HIDE DEF g
<1>2. g.lineage = l /\ g.index = i
  BY <1>1, IterationFields
<1>3. g.lineage = m /\ g.index = j
  BY <1>1, IterationFields
<1> QED
  BY <1>2, <1>3

LEMMA IterationNotRoot ==
  ASSUME NEW l, NEW i
  PROVE  Iteration(l, i) # Root /\ Iteration(l, i).inside # {}
<1>1. Iteration(l, i).kind = "iteration" /\ l.group \in Iteration(l, i).inside
  BY IterationFields
<1>2. Root.kind = "root"
  BY DEF Root
<1> QED
  BY <1>1, <1>2

LEMMA BusyFinite ==
  ASSUME NEW s, NEW l, s.loops[l].next \in Nat, NEW G
  PROVE  IsFiniteSet(Busy(s, l, G)) /\ Cardinality(Busy(s, l, G)) \in Nat
<1>1. IsFiniteSet(0 .. (s.loops[l].next - 1))
  BY FS_Interval
<1>2. Busy(s, l, G) \subseteq 0 .. (s.loops[l].next - 1)
  BY DEF Busy
<1> QED
  BY <1>1, <1>2, FS_Subset, FS_CardinalityType

(* Where less is busy the window is kept.                                   *)
LEMMA WindowFewer ==
  ASSUME NEW s, NEW r, NEW l, NEW G, NEW H, Window(s, l, G),
         s.loops[l].next \in Nat, s.loops[l].limit \in Nat,
         Busy(r, l, H) \subseteq Busy(s, l, G),
         r.loops[l].limit = s.loops[l].limit,
         s.loops[l].closed => r.loops[l].closed,
         r.loops[l].closed \/ r.loops[l].active = s.loops[l].active
  PROVE  Window(r, l, H)
<1>1. /\ IsFiniteSet(Busy(s, l, G)) /\ Cardinality(Busy(s, l, G)) \in Nat
  BY BusyFinite
<1>2. Cardinality(Busy(r, l, H)) \in Nat /\ Cardinality(Busy(r, l, H)) <= Cardinality(Busy(s, l, G))
  BY <1>1, FS_Subset, FS_CardinalityType
<1>3. Cardinality(Busy(r, l, H)) <= r.loops[l].limit
  <2>1. Cardinality(Busy(s, l, G)) <= s.loops[l].limit
    BY DEF Window
  <2> QED
    BY <1>1, <1>2, <2>1
<1> QED
  BY <1>3 DEF Window

LEMMA SimpleBefore ==
  ASSUME NEW s, NEW r, Further(s, r),
         \A m \in DOMAIN s.loops : s.loops[m].closed => r.loops[m].closed,
         NEW l \in DOMAIN s.loops, Simple(r, l)
  PROVE  Simple(s, l)
BY FurtherLies DEF Simple, Further

(* What lives in an iteration of a simple loop lies directly in it.         *)
LEMMA BusyLive ==
  ASSUME NEW s, NEW recorded, Sound(s, recorded), Nested(s), NEW l \in DOMAIN s.loops,
         Simple(s, l), NEW i \in 0 .. (s.loops[l].next - 1)
  PROVE  Live(s, Iteration(l, i)) <=> \E a \in Work(s) : a.lineage = Iteration(l, i)
<1> DEFINE g == Iteration(l, i)
<1>1. ASSUME NEW a \in Work(s), a.group = g \/ g \in a.group.inside
      PROVE  a.lineage = g
  <2>1. Placed(a) /\ Scoped(s, a) /\ IsActivation(s, a)
    BY SoundNames DEF Nested
  <2>2. CASE a.lineage = Root
    BY <1>1, <2>1, <2>2, IterationNotRoot DEF Scoped
  <2>3. CASE a.lineage # Root /\ a.group # g
    <3> DEFINE m == a.lineage.lineage
    <3>1. a.group = a.lineage /\ a.lineage \in DOMAIN s.satisfied
      BY <2>1, <2>3 DEF Placed, IsActivation
    <3>2. m \in DOMAIN s.loops /\ a.lineage = Iteration(m, a.lineage.index)
      BY <2>3, <3>1, SoundNames DEF IsLineage
    <3>3. a.lineage.inside = {m.group} \cup m.group.inside
      <4> HIDE DEF m
      <4> QED
        BY <3>2, IterationFields
    <3>4. g \in {m.group} \cup m.group.inside
      BY <1>1, <2>3, <3>1, <3>3
    <3>5. Lies(s, m, l)
      BY <3>4 DEF Lies
    <3> QED
      BY <3>2, <3>5 DEF Simple
  <2>4. CASE a.lineage # Root /\ a.group = g
    BY <2>1, <2>4 DEF Placed
  <2> QED
    BY <2>2, <2>3, <2>4
<1>2. ASSUME NEW a \in Work(s), a.lineage = g PROVE a.group = g
  <2>1. Placed(a) /\ g # Root
    BY SoundNames, IterationNotRoot
  <2> QED
    BY <1>2, <2>1 DEF Placed
<1> QED
  BY <1>1, <1>2 DEF Live

(***************************************************************************)
(* What filling keeps of the windows.                                       *)
(***************************************************************************)
LEMMA RoomKept ==
  ASSUME NEW s, NEW recorded, Sound(s, recorded), NEW kept, NEW l \in DOMAIN kept,
         l \in DOMAIN s.loops, IsFiniteSet(kept[l]), s.loops[l].routes # {},
         Cardinality(kept[l]) <= s.loops[l].limit
  PROVE  Cardinality(kept[l] \cup BegunBy(s, kept, l)) <= s.loops[l].limit
<1> DEFINE loop == s.loops[l]
           active == kept[l]
           B == Beginning(loop, active)
           room == loop.limit - Cardinality(active)
<1>1. loop.next \in Nat /\ loop.limit \in Nat /\ Cardinality(active) \in Nat
  BY SoundNames, FS_CardinalityType DEF IsLoop
<1>2. room \in Nat
  BY <1>1
<1>3. B \subseteq loop.next .. (loop.next + room - 1)
  BY DEF Beginning, Room
<1>4. IsFiniteSet(B) /\ Cardinality(B) \in Nat /\ Cardinality(B) <= room
  <2> HIDE DEF B, room, loop
  <2>1. ASSUME NEW i \in Nat, NEW n \in Nat
        PROVE  IsFiniteSet(i .. (i + n - 1)) /\ Cardinality(i .. (i + n - 1)) = n
    <3>1. i \in Int /\ i + n - 1 \in Int
      OBVIOUS
    <3>2. /\ IsFiniteSet(i .. (i + n - 1))
          /\ Cardinality(i .. (i + n - 1)) = IF i > i + n - 1 THEN 0 ELSE (i + n - 1) - i + 1
      BY <3>1, FS_Interval
    <3>3. (IF i > i + n - 1 THEN 0 ELSE (i + n - 1) - i + 1) = n
      OBVIOUS
    <3> QED
      BY <3>2, <3>3
  <2>2. /\ IsFiniteSet(loop.next .. (loop.next + room - 1))
        /\ Cardinality(loop.next .. (loop.next + room - 1)) = room
    BY <1>1, <1>2, <2>1
  <2> QED
    BY <1>3, <2>2, FS_Subset, FS_CardinalityType
<1>5. IsFiniteSet(BegunBy(s, kept, l)) /\ Cardinality(BegunBy(s, kept, l)) = Cardinality(B)
  BY <1>4, BegunCounted
<1> DEFINE C == BegunBy(s, kept, l)
<1> HIDE DEF B, C
<1>6. Cardinality(active \cup C) = Cardinality(active) + Cardinality(C) - Cardinality(active \cap C)
  BY <1>5, FS_Union DEF C
<1>7. Cardinality(active \cap C) \in Nat
  <2>1. active \cap C \subseteq active
    OBVIOUS
  <2> QED
    BY <2>1, FS_Subset, FS_CardinalityType
<1> HIDE DEF active
<1>8. Cardinality(active \cup C) <= loop.limit
  BY <1>1, <1>4, <1>5, <1>6, <1>7 DEF C
<1> QED
  BY <1>8 DEF C, active

LEMMA FillBounded ==
  ASSUME NEW s, NEW recorded, Sound(s, recorded), Bounded(s),
         NEW kept, \A l \in DOMAIN kept : kept[l] \subseteq s.loops[l].active,
         NEW r, Fills(s, r, kept)
  PROVE  Bounded(r)
<1> SUFFICES ASSUME NEW l \in DOMAIN r.loops
             PROVE  /\ Cardinality(r.loops[l].active) <= r.loops[l].limit
                    /\ r.loops[l].routes = {} => r.loops[l].active = {}
  BY DEF Bounded
<1> DEFINE old == s.loops[l]
           new == r.loops[l]
<1>1. l \in DOMAIN s.loops /\ SameLoop(new, old) /\ Refilled(s, kept, l, new, old)
  BY DEF Fills, Refills
<1>2. /\ Cardinality(old.active) <= old.limit /\ (old.routes = {} => old.active = {})
      /\ IsFiniteSet(old.active) /\ old.limit \in Nat
  BY <1>1, SoundNames DEF Bounded, IsLoop
<1> HIDE DEF old, new
<1>3. CASE l \notin DOMAIN kept
  BY <1>1, <1>2, <1>3 DEF Refilled, new
<1>4. CASE l \in DOMAIN kept /\ old.routes = {}
  <2>1. new.active = {} /\ new.limit = old.limit
    BY <1>1, <1>4 DEF Refilled, SameLoop
  <2>2. Cardinality({}) = 0
    BY FS_EmptySet
  <2>3. Cardinality(new.active) <= new.limit
    BY <1>2, <2>1, <2>2
  <2> QED
    BY <2>1, <2>3 DEF new
<1>5. CASE l \in DOMAIN kept /\ old.routes # {}
  <2>1. new.active = kept[l] \cup BegunBy(s, kept, l) /\ new.limit = old.limit
        /\ new.routes = old.routes
    BY <1>1, <1>5 DEF Refilled, SameLoop
  <2>2. kept[l] \subseteq old.active
    BY <1>5 DEF old
  <2>3. IsFiniteSet(kept[l]) /\ Cardinality(kept[l]) <= Cardinality(old.active)
    BY <1>2, <2>2, FS_Subset
  <2>4. Cardinality(kept[l]) \in Nat /\ Cardinality(old.active) \in Nat
    BY <1>2, <2>3, FS_CardinalityType
  <2>5. Cardinality(kept[l]) <= old.limit
    BY <1>2, <2>3, <2>4
  <2>6. Cardinality(new.active) <= old.limit
    BY <1>1, <1>5, <2>1, <2>3, <2>5, RoomKept DEF old
  <2> QED
    BY <1>5, <2>1, <2>6 DEF new
<1> QED
  BY <1>3, <1>4, <1>5

(* The window of a loop that is filled, from its living iterations, or that *)
(* is closed.                                                               *)
LEMMA FillWindow ==
  ASSUME NEW s, NEW recorded, Sound(s, recorded), Nested(s), Bounded(s),
         NEW kept, \A l \in DOMAIN kept : kept[l] \subseteq s.loops[l].active,
         NEW r, Sound(r, recorded), Bounded(r), Fills(s, r, kept),
         NEW l \in DOMAIN s.loops, Simple(s, l), NEW G, Window(s, l, G),
         \/ s.loops[l].closed \/ l \notin DOMAIN kept
         \/ G = {} /\ kept[l] = Living(s, l)
  PROVE  Window(r, l, G)
<1> DEFINE old == s.loops[l]
           new == r.loops[l]
           begun == Begun(s, kept)
<1>1. /\ SameLoop(new, old) /\ Refilled(s, kept, l, new, old)
      /\ Grows(s, r) /\ Entered(s, r, begun) /\ Begins(s, r, begun)
      /\ \A g \in begun : g.lineage \in DOMAIN kept /\ g \in BegunBy(s, kept, g.lineage)
  BY DEF Fills, Refills
<1>2. \A g \in BegunBy(s, kept, l) : l \in DOMAIN kept => g \in begun /\ g.lineage = l
  BY IterationFields DEF Begun, BegunBy
<1> HIDE DEF begun
<1>3. old.next \in Nat /\ old.limit \in Nat /\ new.next \in Nat
  BY SoundNames DEF IsLoop, Fills, Refills
<1>4. \A a \in Work(r) : a \in Work(s) \/ a \in Added(s, r)
  BY <1>1 DEF Work, Added, Grows
<1>5. \A a \in Added(s, r) : a.lineage \in begun /\ s.loops[a.lineage.lineage].routes # {}
  BY <1>1 DEF Entered
<1>6. ASSUME NEW i, NEW a \in Work(s), a.lineage = Iteration(l, i)
      PROVE  i \in 0 .. (old.next - 1)
  <2>1. a.lineage \in DOMAIN s.satisfied /\ a.lineage # Root
    BY <1>6, SoundNames, IterationNotRoot DEF IsActivation
  <2>2. a.lineage.lineage = l /\ a.lineage.index = i
    BY <1>6, IterationFields
  <2>3. IsLineage(s, a.lineage)
    BY <2>1, SoundNames
  <2>4. i \in Nat /\ i < old.next
    BY <2>1, <2>2, <2>3 DEF IsLineage
  <2> QED
    BY <1>3, <2>4
<1>7. CASE old.closed \/ l \notin DOMAIN kept
  <2>1. \A g \in begun : g.lineage # l
    BY <1>1, <1>7 DEF Begins
  <2>2. new.next = old.next /\ (new.closed \/ new.active = old.active)
    <3>1. CASE l \notin DOMAIN kept
      BY <1>1, <3>1 DEF Refilled
    <3>2. CASE l \in DOMAIN kept
      <4>1. BegunBy(s, kept, l) = {}
        BY <1>2, <2>1, <3>2
      <4>2. new.next = old.next + 0
        BY <1>1, <3>2, <4>1, FS_EmptySet DEF Refilled
      <4>3. old.closed /\ new.closed = old.closed
        BY <1>1, <1>7, <3>2 DEF SameLoop
      <4> HIDE DEF old, new
      <4> QED
        BY <1>3, <4>2, <4>3
    <3> QED
      BY <3>1, <3>2
  <2>3. \A i : \A a \in Added(s, r) : a.lineage # Iteration(l, i)
    BY <1>5, <2>1, IterationFields
  <2>4. Busy(r, l, G) \subseteq Busy(s, l, G)
    BY <1>4, <2>2, <2>3 DEF Busy
  <2>5. new.limit = old.limit /\ (old.closed => new.closed)
    BY <1>1 DEF SameLoop
  <2> QED
    BY <1>3, <2>2, <2>4, <2>5, WindowFewer
<1>8. CASE ~ old.closed /\ l \in DOMAIN kept /\ G = {} /\ kept[l] = Living(s, l)
  <2>1. ASSUME NEW i \in Busy(r, l, G) PROVE Iteration(l, i) \in new.active
    <3>1. PICK a \in Work(r) : a.lineage = Iteration(l, i)
      BY <1>8 DEF Busy
    <3>2. CASE a \in Work(s)
      <4>1. i \in 0 .. (old.next - 1)
        BY <1>6, <3>1, <3>2
      <4>2. i \in Busy(s, l, G)
        BY <3>1, <3>2, <4>1 DEF Busy
      <4>3. Iteration(l, i) \in old.active
        BY <1>8, <4>2 DEF Window
      <4>4. Live(s, Iteration(l, i))
        BY <3>1, <3>2, <4>1, BusyLive
      <4>5. Iteration(l, i) \in kept[l] /\ old.routes # {}
        BY <1>8, <4>3, <4>4 DEF Living, Bounded
      <4> QED
        BY <1>1, <1>8, <4>5 DEF Refilled
    <3>3. CASE a \in Added(s, r)
      <4>1. a.lineage.lineage = l
        BY <3>1, IterationFields
      <4>2. Iteration(l, i) \in BegunBy(s, kept, l) /\ old.routes # {}
        BY <1>1, <1>5, <3>1, <3>3, <4>1
      <4> QED
        BY <1>1, <1>8, <4>2 DEF Refilled
    <3> QED
      BY <1>4, <3>2, <3>3
  <2>2. Cardinality(Busy(r, l, G)) <= new.limit
    <3> DEFINE W == Busy(r, l, G)
               V == {Iteration(l, i) : i \in W}
               f == [i \in W |-> Iteration(l, i)]
    <3>1. V \subseteq new.active
      BY <2>1
    <3>2. l \in DOMAIN r.loops /\ IsFiniteSet(new.active)
          /\ Cardinality(new.active) <= new.limit /\ new.limit \in Nat
      BY SoundNames DEF IsLoop, Bounded, Fills, Refills
    <3>3. IsFiniteSet(W) /\ Cardinality(W) \in Nat
      BY <1>3, BusyFinite
    <3>4. f \in Injection(W, V)
      BY IterationsDiffer DEF Injection, IsInjective
    <3>5. IsFiniteSet(V) /\ Cardinality(V) <= Cardinality(new.active)
      BY <3>1, <3>2, FS_Subset
    <3> HIDE DEF W, V, f, new
    <3>6. Cardinality(W) <= Cardinality(V)
      BY <3>3, <3>4, <3>5, FS_Injection
    <3>7. Cardinality(V) \in Nat /\ Cardinality(new.active) \in Nat
      BY <3>2, <3>5, FS_CardinalityType
    <3>8. Cardinality(W) <= new.limit
      BY <3>2, <3>3, <3>5, <3>6, <3>7
    <3> QED
      BY <3>8 DEF W
  <2> QED
    BY <2>1, <2>2 DEF Window
<1> QED
  BY <1>7, <1>8

(* The loops keep to their windows; something of the groups in G may follow. *)
Roomy(s, G) == Bounded(s) /\ Windows(s, G)

LEMMA SettleWindow ==
  ASSUME NEW s, NEW recorded, Sound(s, recorded), Nested(s), Bounded(s)
  PROVE  LET r == SettleLoops(s)
         IN  /\ Bounded(r) /\ DOMAIN r.loops = DOMAIN s.loops
             /\ \A l \in DOMAIN s.loops : \A G :
                  /\ r.loops[l].closed = s.loops[l].closed
                  /\ Simple(r, l) => Simple(s, l)
                  /\ (Simple(r, l) /\ Window(s, l, G) /\ (s.loops[l].closed \/ G = {}))
                       => Window(r, l, G)
<1> DEFINE r == SettleLoops(s)
<1>1. Sound(r, recorded) /\ Fills(s, r, Kept(s))
  BY SettleAdds
<1>2. \A l \in DOMAIN s.loops : l \in DOMAIN Kept(s) /\ Kept(s)[l] = Living(s, l)
  BY DEF Kept
<1>3. \A l \in DOMAIN Kept(s) : Kept(s)[l] \subseteq s.loops[l].active
  BY DEF Kept, Living
<1> HIDE DEF r
<1>4. Bounded(r)
  BY <1>1, <1>3, FillBounded
<1>5. DOMAIN r.loops = DOMAIN s.loops /\ Further(s, r)
      /\ \A l \in DOMAIN s.loops : r.loops[l].closed = s.loops[l].closed
  BY <1>1 DEF Fills, Refills, SameLoop
<1>6. ASSUME NEW l \in DOMAIN s.loops, Simple(r, l) PROVE Simple(s, l)
  BY <1>5, <1>6, SimpleBefore
<1>7. ASSUME NEW l \in DOMAIN s.loops, NEW G, Simple(r, l), Window(s, l, G),
             s.loops[l].closed \/ G = {}
      PROVE  Window(r, l, G)
  BY <1>1, <1>2, <1>3, <1>4, <1>6, <1>7, FillWindow
<1> QED
  BY <1>4, <1>5, <1>6, <1>7 DEF r

LEMMA SettleRoomy ==
  ASSUME NEW s, NEW recorded, Sound(s, recorded), Nested(s), Roomy(s, {})
  PROVE  Roomy(SettleLoops(s), {})
BY SettleWindow DEF Roomy, Windows

LEMMA FewerWindows ==
  ASSUME NEW s, NEW recorded, Sound(s, recorded), NEW G, Windows(s, G),
         NEW r, r.loops = s.loops, NEW H,
         \A l \in DOMAIN s.loops : Busy(r, l, H) \subseteq Busy(s, l, G)
  PROVE  Windows(r, H)
<1> SUFFICES ASSUME NEW l \in DOMAIN r.loops, Simple(r, l) PROVE Window(r, l, H)
  BY DEF Windows
<1>1. l \in DOMAIN s.loops /\ s.loops[l].next \in Nat /\ s.loops[l].limit \in Nat
  BY SoundNames DEF IsLoop
<1>2. Simple(s, l)
  BY DEF Simple, Lies
<1>3. Window(s, l, G)
  BY <1>1, <1>2 DEF Windows
<1> QED
  BY <1>1, <1>3, WindowFewer

(* What a signalled activation is in, its sender was in.                    *)
LEMMA SameGroup ==
  ASSUME NEW a, Placed(a), NEW l, NEW i, a.lineage = Iteration(l, i)
  PROVE  a.group = Iteration(l, i)
BY IterationNotRoot DEF Placed

LEMMA AdvanceRoomy ==
  ASSUME NEW s, NEW recorded, NEW a, NEW routes, Advances(s, recorded, a, routes),
         Orderly(s), Scoped(s, a), Roomy(s, {a.group})
  PROVE  Roomy(Advance(s, a, routes), {})
<1> DEFINE q == Routed(s, a, routes)
           j == Joined(s, a, routes)
<1>1. /\ Sound(q, recorded) /\ SameButLatches(s, q)
      /\ Appends(s, q) /\ Signalled(s, q, Signals(a, routes))
  BY RoutedParts
<1>2. /\ Sound(j, recorded) /\ j.running = q.running
      /\ j.satisfied = q.satisfied /\ j.loops = q.loops
      /\ Merges(q, j, a.lineage, Unlocking(s, a))
  BY JoinedParts
<1>3. Advance(s, a, routes) = SettleLoops(j) /\ Orderly(j)
  BY AdvanceIsSettle, JoinedOrderly
<1> HIDE DEF q, j
<1>4. \A b \in Added(s, q) : b.lineage = a.lineage
  BY <1>1 DEF Signalled, Signals
<1>5. \A b \in Work(j) : b \in Work(s) \/ b.lineage = a.lineage \/ b.lineage = Root
  <2>1. \A b \in Work(j) : b \in Work(q) \/ b \in Added(q, j)
    BY <1>2 DEF Work, Added
  <2>2. \A b \in Work(q) : b \in Work(s) \/ b \in Added(s, q)
    BY <1>1 DEF Work, Added, SameButLatches
  <2> QED
    BY <1>2, <1>4, <2>1, <2>2 DEF Merges
<1>6. j.loops = s.loops
  BY <1>1, <1>2 DEF SameButLatches
<1>7. Sound(s, recorded) /\ Placed(a)
  BY DEF Advances
<1>8. ASSUME NEW l \in DOMAIN s.loops PROVE Busy(j, l, {}) \subseteq Busy(s, l, {a.group})
  <2> SUFFICES ASSUME NEW i \in 0 .. (s.loops[l].next - 1),
                      NEW b \in Work(j), b.lineage = Iteration(l, i)
               PROVE  \/ Iteration(l, i) = a.group
                      \/ \E d \in Work(s) : d.lineage = Iteration(l, i)
    BY <1>6 DEF Busy
  <2> QED
    BY <1>5, <1>7, SameGroup, IterationNotRoot
<1>9. Windows(j, {})
  BY <1>6, <1>7, <1>8, FewerWindows DEF Roomy
<1>10. Bounded(j)
  BY <1>6 DEF Roomy, Bounded
<1> QED
  BY <1>2, <1>3, <1>9, <1>10, SettleRoomy DEF Roomy, Orderly

(* Without a sender in the loop nothing may follow there.                   *)
LEMMA WindowWithout ==
  ASSUME NEW s, NEW l, NEW G, Window(s, l, {}),
         \A i \in 0 .. (s.loops[l].next - 1) : Iteration(l, i) \notin G
  PROVE  Window(s, l, G)
<1>1. Busy(s, l, G) = Busy(s, l, {})
  BY DEF Busy
<1> QED
  BY <1>1 DEF Window

LEMMA RoomyLess ==
  ASSUME NEW s, NEW recorded, Sound(s, recorded), NEW G, Roomy(s, G)
  PROVE  Roomy(s, {})
<1>1. \A l \in DOMAIN s.loops : Busy(s, l, {}) \subseteq Busy(s, l, G)
  BY DEF Busy
<1> QED
  BY <1>1, FewerWindows DEF Roomy

(* A loop opens with room for its first iterations.                         *)
LEMMA OpenedRoomy ==
  ASSUME NEW s, NEW recorded, Sound(s, recorded), NEW c, NEW routes,
         Handled(s, recorded, c, routes), NewLineage(c) \notin DOMAIN s.loops, ~ Spins(c, routes),
         Node[c.task.activation.node].type = "loop",
         Orderly(s), Scoped(s, c.task.activation), Roomy(s, {})
  PROVE  Roomy(Opened(s, c, routes), {})
<1> DEFINE new == NewLineage(c)
           r == Opened(s, c, routes)
<1>1. IsActivation(s, c.task.activation) /\ c.items \in Nat /\ Good(s)
      /\ routes \subseteq DOMAIN Node[c.task.activation.node].routes
  BY DEF Handled, Sound
<1>2. /\ r.pending = s.pending /\ r.running = s.running
      /\ DOMAIN r.loops = DOMAIN s.loops \cup {new}
      /\ r.loops[new] = NewLoop(s, c, routes)
      /\ \A l \in DOMAIN s.loops : l # new => r.loops[l] = s.loops[l]
  BY <1>1, OpenedGood
<1>3. \A l \in DOMAIN s.loops : r.loops[l] = s.loops[l]
  BY <1>2
<1>4. Sound(r, recorded) /\ Further(s, r)
  BY OpenedOrderly
<1>5. r.loops[new].next = 0 /\ r.loops[new].active = {}
  BY <1>2 DEF NewLoop
<1>6. r.loops[new].limit \in Nat
  BY <1>2, <1>4, SoundNames DEF IsLoop
<1> HIDE DEF r, new
<1>7. Bounded(r)
  <2>1. Cardinality({}) = 0
    BY FS_EmptySet
  <2>2. Cardinality(r.loops[new].active) <= r.loops[new].limit
    BY <1>5, <1>6, <2>1
  <2> QED
    BY <1>2, <1>3, <1>5, <2>2 DEF Roomy, Bounded
<1>8. Work(r) = Work(s)
  BY <1>2 DEF Work
<1>9. ASSUME NEW l \in DOMAIN s.loops, Simple(r, l) PROVE Window(r, l, {})
  <2>1. Simple(s, l)
    BY <1>3, <1>4, <1>9, SimpleBefore
  <2>2. Window(s, l, {})
    BY <2>1 DEF Roomy, Windows
  <2> QED
    BY <1>3, <1>8, <2>2 DEF Window, Busy
<1>10. Window(r, new, {})
  <2>1. Busy(r, new, {}) = {}
    BY <1>5 DEF Busy
  <2>2. Cardinality({}) = 0
    BY FS_EmptySet
  <2> QED
    BY <1>6, <2>1, <2>2 DEF Window
<1> QED
  BY <1>2, <1>7, <1>9, <1>10 DEF Roomy, Windows, r

LEMMA OpenRoomy ==
  ASSUME NEW s, NEW recorded, Sound(s, recorded), NEW c, NEW routes,
         Handled(s, recorded, c, routes), NewLineage(c) \notin DOMAIN s.loops, ~ Spins(c, routes),
         Node[c.task.activation.node].type = "loop",
         Orderly(s), Scoped(s, c.task.activation), Roomy(s, {})
  PROVE  /\ Roomy(OpenLoop(s, c, routes), {})
         /\ NewLineage(c) \in DOMAIN OpenLoop(s, c, routes).loops
<1> DEFINE new == NewLineage(c)
           q == Opened(s, c, routes)
           r == OpenLoop(s, c, routes)
<1>1. Sound(q, recorded) /\ Orderly(q)
  BY OpenedOrderly
<1>2. Sound(r, recorded) /\ Fills(q, r, Alone(c))
  BY OpenOrderly
<1>3. Roomy(q, {})
  BY OpenedRoomy
<1>4. new \in DOMAIN q.loops /\ q.loops[new].active = {}
  <2>1. IsActivation(s, c.task.activation) /\ c.items \in Nat /\ Good(s)
        /\ routes \subseteq DOMAIN Node[c.task.activation.node].routes
    BY DEF Handled, Sound
  <2>2. new \in DOMAIN q.loops /\ q.loops[new] = NewLoop(s, c, routes)
    BY <2>1, OpenedGood
  <2> QED
    BY <2>2 DEF NewLoop
<1>5. \A l \in DOMAIN Alone(c) : l = new /\ Alone(c)[l] = {}
  BY DEF Alone
<1> HIDE DEF q, r, new
<1>6. Living(q, new) = {}
  BY <1>4 DEF Living
<1>7. Bounded(r)
  BY <1>1, <1>2, <1>3, <1>5, FillBounded DEF Roomy
<1>8. DOMAIN r.loops = DOMAIN q.loops /\ Further(q, r)
      /\ \A l \in DOMAIN q.loops : r.loops[l].closed = q.loops[l].closed
  BY <1>2 DEF Fills, Refills, SameLoop
<1>9. ASSUME NEW l \in DOMAIN q.loops, Simple(r, l) PROVE Window(r, l, {})
  <2>1. Simple(q, l)
    BY <1>8, <1>9, SimpleBefore
  <2>2. Window(q, l, {})
    BY <1>3, <2>1 DEF Roomy, Windows
  <2>3. \A k \in DOMAIN Alone(c) : Alone(c)[k] \subseteq q.loops[k].active
    BY <1>5
  <2>4. \/ q.loops[l].closed \/ l \notin DOMAIN Alone(c)
        \/ Alone(c)[l] = Living(q, l)
    BY <1>5, <1>6
  <2> QED
    BY <1>1, <1>2, <1>3, <1>7, <2>1, <2>2, <2>3, <2>4, FillWindow DEF Roomy, Orderly
<1> QED
  BY <1>4, <1>7, <1>8, <1>9 DEF Roomy, Windows, r, new

LEMMA CloseRoomy ==
  ASSUME NEW s, NEW recorded, Sound(s, recorded), Orderly(s), NEW a, NEW r, Closes(s, r, a),
         NEW G, Roomy(s, G)
  PROVE  Roomy(r, G)
<1>1. Further(s, r)
  BY CloseOrderly
<1>2. Bounded(r)
  BY DEF Roomy, Bounded, Closes
<1>3. ASSUME NEW l \in DOMAIN r.loops, Simple(r, l) PROVE Window(r, l, G)
  <2>1. l \in DOMAIN s.loops /\ \A m \in DOMAIN s.loops : s.loops[m].closed => r.loops[m].closed
    BY DEF Closes
  <2>2. Window(s, l, G)
    BY <1>1, <1>3, <2>1, SimpleBefore DEF Roomy, Windows
  <2>3. Busy(r, l, G) \subseteq Busy(s, l, G)
    BY <2>1 DEF Busy, Work, Closes
  <2>4. s.loops[l].next \in Nat /\ s.loops[l].limit \in Nat
    BY <2>1, SoundNames DEF IsLoop
  <2> QED
    BY <2>1, <2>2, <2>3, <2>4, WindowFewer DEF Closes
<1> QED
  BY <1>2, <1>3 DEF Roomy, Windows

(* An activation whose group is an iteration is in its loop.                *)
LEMMA GroupLoop ==
  ASSUME NEW s, NEW a, Placed(a), Scoped(s, a), NEW l, NEW i, a.group = Iteration(l, i)
  PROVE  a.lineage.lineage = l /\ a.lineage # Root
<1>1. a.lineage # Root
  BY IterationNotRoot DEF Scoped
<1>2. a.lineage = Iteration(l, i)
  BY <1>1 DEF Placed
<1> DEFINE g == a.lineage
<1>3. g = Iteration(l, i)
  BY <1>2
<1> HIDE DEF g
<1>4. g.lineage = l
  BY <1>3, IterationFields
<1> QED
  BY <1>1, <1>4 DEF g

(* What a loop or a break does leaves room for what its own group sends.    *)
LEMMA ControlRoomy ==
  ASSUME NEW s, NEW recorded, Sound(s, recorded), NEW c, NEW routes,
         Handled(s, recorded, c, routes), NewLineage(c) \notin DOMAIN s.loops, ~ Spins(c, routes),
         Orderly(s), Scoped(s, c.task.activation), Roomy(s, {c.task.activation.group}),
         ~ BreaksOutside(c.task.activation)
  PROVE  Roomy(Control(s, c, routes), {c.task.activation.group})
<1> DEFINE a == c.task.activation
           new == NewLineage(c)
           r == Control(s, c, routes)
<1>1. /\ IsActivation(s, a) /\ a.node \in Nodes /\ a.lineage \in DOMAIN s.satisfied
      /\ Completed(recorded, a.node, a.lineage) /\ Placed(a)
  <2>1. a.lineage \in Around(a.lineage)
    BY DEF Around
  <2> QED
    BY <2>1 DEF Handled, IsActivation, IsRecordOf, Completed
<1>2. Roomy(s, {})
  BY RoomyLess
<1>3. CASE Node[a.node].type = "loop"
  <2> DEFINE latched == Satisfy(s, a.lineage, a.node)
             opened == OpenLoop(latched, c, routes)
  <2>1. r = SettleLoops(opened)
    BY <1>3 DEF Control
  <2>2. /\ Sound(latched, recorded) /\ Orderly(latched)
        /\ Further(s, latched) /\ latched.pending = s.pending
        /\ SameButLatches(s, latched)
    BY <1>1, SatisfyOrderly
  <2>13. new.group = a.group
    BY DEF NewLineage, LoopLineage
  <2> HIDE DEF latched, a, new
  <2>3. Handled(latched, recorded, c, routes) /\ NewLineage(c) \notin DOMAIN latched.loops
    BY <2>2 DEF Handled, IsActivation, SameButLatches
  <2>4. Scoped(latched, a)
    BY <1>1, <2>2, FurtherScoped DEF a
  <2>5. Roomy(latched, {})
    <3>1. latched.loops = s.loops /\ Work(latched) = Work(s)
      BY <2>2 DEF SameButLatches, Work
    <3>2. \A l \in DOMAIN s.loops : Busy(latched, l, {}) \subseteq Busy(s, l, {})
      BY <3>1 DEF Busy
    <3> QED
      BY <1>2, <3>1, <3>2, FewerWindows DEF Roomy, Bounded
  <2>6. Sound(opened, recorded) /\ Orderly(opened)
    BY <1>3, <2>2, <2>3, <2>4, OpenOrderly DEF a
  <2>7. Roomy(opened, {}) /\ new \in DOMAIN opened.loops
    BY <1>3, <2>2, <2>3, <2>4, <2>5, OpenRoomy DEF a, new
  <2> HIDE DEF opened, r
  <2>8. Roomy(r, {})
    BY <2>1, <2>6, <2>7, SettleRoomy DEF Orderly
  <2>9. new \in DOMAIN r.loops
    BY <2>1, <2>6, <2>7, SettleWindow DEF Orderly, Roomy
  <2>10. ASSUME NEW l \in DOMAIN r.loops, Simple(r, l) PROVE Window(r, l, {a.group})
    <3>1. \A i \in 0 .. (r.loops[l].next - 1) : Iteration(l, i) \notin {a.group}
      BY <2>9, <2>10, <2>13 DEF Simple, Lies
    <3>2. Window(r, l, {})
      BY <2>8, <2>10 DEF Roomy, Windows
    <3> QED
      BY <3>1, <3>2, WindowWithout
  <2> QED
    BY <2>8, <2>10 DEF Roomy, Windows, r, a
<1>4. CASE Node[a.node].type = "break"
  <2> DEFINE closed == CloseLoop(s, a)
             id == Node[a.node].loop
             m == a.loops[id]
  <2>1. r = SettleLoops(closed)
    BY <1>4 DEF Control
  <2>2. Sound(closed, recorded) /\ Closes(s, closed, a)
    BY <1>1, CloseSound, CloseCloses
  <2>3. id \in DOMAIN a.loops /\ m \in DOMAIN s.loops /\ closed.loops[m].closed
        /\ m \in DOMAIN closed.loops
    BY <1>1, <1>4, <2>2 DEF BreaksOutside, Closes, IsActivation
  <2>4. m = a.lineage.lineage \/ Lies(s, a.lineage.lineage, m)
    BY <2>3 DEF Scoped
  <2> HIDE DEF closed, r, id, m, a
  <2>5. Orderly(closed) /\ Further(s, closed)
    BY <2>2, CloseOrderly
  <2>6. Roomy(closed, {a.group})
    BY <2>2, CloseRoomy DEF a
  <2>7. Roomy(closed, {})
    BY <2>2, <2>6, RoomyLess
  <2>8. Further(closed, r)
    BY <2>1, <2>2, <2>5, SettleOrderly DEF Fills
  <2>9. Further(s, r)
    BY <2>5, <2>8, FurtherTransitive
  <2>10. /\ Bounded(r) /\ DOMAIN r.loops = DOMAIN closed.loops
         /\ \A l \in DOMAIN closed.loops : \A G :
              /\ r.loops[l].closed = closed.loops[l].closed
              /\ Simple(r, l) => Simple(closed, l)
              /\ (Simple(r, l) /\ Window(closed, l, G) /\ (closed.loops[l].closed \/ G = {}))
                   => Window(r, l, G)
    BY <2>1, <2>2, <2>5, <2>7, SettleWindow DEF Orderly, Roomy
  <2>11. ASSUME NEW l \in DOMAIN r.loops, Simple(r, l) PROVE Window(r, l, {a.group})
    <3>1. Window(closed, l, {a.group}) /\ Window(closed, l, {})
      BY <2>6, <2>7, <2>10, <2>11 DEF Roomy, Windows
    <3>2. CASE closed.loops[l].closed
      BY <2>10, <2>11, <3>1, <3>2
    <3>3. CASE ~ closed.loops[l].closed
      <4>1. Window(r, l, {})
        BY <2>10, <2>11, <3>1
      <4>2. ASSUME NEW i, a.group = Iteration(l, i) PROVE FALSE
        <5>1. a.lineage.lineage = l
          BY <1>1, <4>2, GroupLoop DEF a
        <5>2. Lies(s, l, m)
          BY <2>3, <2>4, <3>3, <5>1
        <5>3. Lies(r, l, m)
          BY <2>3, <2>9, <5>2, FurtherLies
        <5>4. m \in DOMAIN r.loops /\ r.loops[m].closed
          BY <2>3, <2>10
        <5> QED
          BY <2>11, <5>3, <5>4 DEF Simple
      <4> QED
        BY <4>1, <4>2, WindowWithout
    <3> QED
      BY <3>2, <3>3
  <2> QED
    BY <2>10, <2>11 DEF Roomy, Windows, r, a
<1>5. CASE Node[a.node].type \notin {"loop", "break"}
  BY <1>5 DEF Control
<1> QED
  BY <1>3, <1>4, <1>5

(***************************************************************************)
(* The invariant: what waits is in order, and while the run goes on loops   *)
(* keep to their windows.                                                   *)
(***************************************************************************)
OrderInv ==
  /\ RunInv
  /\ Orderly(State)
  /\ phase \in {"created", "running"} => Roomy(State, {})

(* Nothing new waits or runs, and the loops stay as they are.               *)
LEMMA FewerOrderly ==
  ASSUME NEW s, NEW recorded, Sound(s, recorded), NEW r,
         r.pending \subseteq s.pending, Work(r) \subseteq Work(s),
         r.sequence = s.sequence, r.loops = s.loops
  PROVE  /\ Orderly(s) => Orderly(r) /\ Further(s, r)
         /\ Roomy(s, {}) => Roomy(r, {})
<1>1. Further(s, r)
  BY SoundFurther
<1>2. Orderly(s) => Orderly(r)
  BY <1>1, NestedNext, FewerAligned DEF Orderly
<1>3. \A l \in DOMAIN s.loops : Busy(r, l, {}) \subseteq Busy(s, l, {})
  BY DEF Busy
<1>4. Roomy(s, {}) => Roomy(r, {})
  BY <1>3, FewerWindows DEF Roomy, Bounded
<1> QED
  BY <1>1, <1>2, <1>4

(* The completion that is handled follows its task.                         *)
LEMMA ReceivedOrderly ==
  ASSUME OrderInv, Receive
  PROVE  LET c == Head(completions)
             a == c.task.activation
             s == Received(c)
         IN  /\ Orderly(s) /\ Scoped(s, a) /\ Roomy(s, {a.group})
             /\ s.satisfied = satisfied /\ s.loops = loops /\ s.running = running \ {c.task}
             /\ s.pending = pending /\ c.task \in running
<1> DEFINE c == Head(completions)
           a == c.task.activation
           s == Received(c)
           q == State
<1>1. c.task \in running
  BY ReceiveSound DEF OrderInv
<1>2. /\ Sound(q, records) /\ Orderly(q) /\ Roomy(q, {})
      /\ q.pending = pending /\ q.running = running /\ q.satisfied = satisfied
      /\ q.loops = loops
  BY DEF OrderInv, RunInv, Receive, State
<1>3. /\ s.pending = q.pending /\ s.running = q.running \ {c.task}
      /\ s.satisfied = q.satisfied /\ s.sequence = q.sequence /\ s.loops = q.loops
  BY DEF Received, State
<1>4. a \in Work(q)
  BY <1>1, <1>2 DEF Work, Activations
<1> HIDE DEF s, q, c, a
<1>5. Work(s) \subseteq Work(q)
  BY <1>3 DEF Work, Activations
<1>6. Orderly(s) /\ Further(q, s)
  BY <1>2, <1>3, <1>5, FewerOrderly
<1>7. Scoped(q, a) /\ IsActivation(q, a) /\ Placed(a)
  BY <1>2, <1>4, SoundNames DEF Orderly, Nested
<1>8. Scoped(s, a)
  BY <1>6, <1>7, FurtherScoped
<1>9. ASSUME NEW l \in DOMAIN q.loops PROVE Busy(s, l, {a.group}) \subseteq Busy(q, l, {})
  <2> SUFFICES ASSUME NEW i \in Busy(s, l, {a.group}) PROVE i \in Busy(q, l, {})
    OBVIOUS
  <2>1. i \in 0 .. (q.loops[l].next - 1)
    BY <1>3 DEF Busy
  <2>2. CASE Iteration(l, i) = a.group
    <3>1. a.lineage # Root
      BY <1>7, <2>2, GroupLoop
    <3>2. a.lineage = Iteration(l, i)
      BY <1>7, <2>2, <3>1 DEF Placed
    <3> QED
      BY <1>4, <2>1, <3>2 DEF Busy
  <2>3. CASE \E b \in Work(s) : b.lineage = Iteration(l, i)
    BY <1>5, <2>1, <2>3 DEF Busy
  <2> QED
    BY <2>2, <2>3 DEF Busy
<1>10. Roomy(s, {a.group})
  BY <1>2, <1>3, <1>9, FewerWindows DEF Roomy, Bounded
<1> QED
  BY <1>1, <1>2, <1>3, <1>6, <1>8, <1>10 DEF a, c, s

(* What starts was waiting.                                                 *)
LEMMA StartedOrderly ==
  ASSUME NEW s, NEW recorded, Sound(s, recorded), StartRunnable(s)
  PROVE  /\ Orderly(s) => Orderly(State')
         /\ Roomy(s, {}) => Roomy(State', {})
<1>1. PICK started \in SUBSET s.pending :
        /\ pending'   = s.pending \ started
        /\ running'   = s.running \cup {Task(a, started) : a \in started}
        /\ loops'     = s.loops
        /\ sequence'  = s.sequence
  BY DEF StartRunnable, Runnable
<1> DEFINE r == State'
<1>2. /\ r.pending = s.pending \ started
      /\ r.running = s.running \cup {Task(a, started) : a \in started}
      /\ r.loops = s.loops /\ r.sequence = s.sequence
  BY <1>1 DEF State
<1> HIDE DEF r
<1>3. \A a \in started : Task(a, started).activation = a
  BY DEF Task
<1>4. Work(r) \subseteq Work(s)
  BY <1>1, <1>2, <1>3 DEF Work, Activations
<1>5. r.pending \subseteq s.pending
  BY <1>2
<1> QED
  BY <1>2, <1>4, <1>5, FewerOrderly DEF r

LEMMA HaltedOrderly ==
  ASSUME NEW s, NEW recorded, Sound(s, recorded), Orderly(s), NEW kind, Halt(s, kind)
  PROVE  Orderly(State') /\ phase' = "cancelling"
<1>1. State' = s
  BY DEF Halt, State, Sound, Good, IsRecord
<1> QED
  BY <1>1 DEF Halt

(* Steps that only take away keep the invariant.                            *)
LEMMA QuietOrder ==
  ASSUME OrderInv, RunInv', Activations(running)' \subseteq Activations(running),
         phase' \in {"created", "running"} => phase = phase',
         UNCHANGED <<pending, loops, sequence>>
  PROVE  OrderInv'
<1> DEFINE s == State
           r == State'
<1>1. /\ r.pending = s.pending /\ r.sequence = s.sequence /\ r.loops = s.loops
      /\ s.running = running /\ r.running = running'
  BY DEF State
<1>2. Sound(s, records) /\ Orderly(s) /\ (phase \in {"created", "running"} => Roomy(s, {}))
  BY DEF OrderInv, RunInv
<1>3. Activations(r.running) \subseteq Activations(s.running)
  BY <1>1 DEF Activations
<1> HIDE DEF r, s
<1>4. Work(r) \subseteq Work(s) /\ r.pending \subseteq s.pending
  BY <1>1, <1>3 DEF Work
<1>5. Orderly(r) /\ (Roomy(s, {}) => Roomy(r, {}))
  BY <1>1, <1>2, <1>4, FewerOrderly
<1> QED
  BY <1>2, <1>5 DEF OrderInv, r

(***************************************************************************)
(* Latches.                                                                 *)
(***************************************************************************)
SameLatches(s, r) ==
  \A l \in DOMAIN s.satisfied : l \in DOMAIN r.satisfied /\ r.satisfied[l] = s.satisfied[l]

(* At most one activation of the node waits or runs in the lineage.         *)
Coalesced(s, n, lineage) ==
  \A x, y \in Work(s) :
    (x.node = n /\ y.node = n /\ x.lineage = lineage /\ y.lineage = lineage) => x = y

LEMMA ControlLatches ==
  ASSUME NEW s, NEW recorded, Sound(s, recorded), NEW c, NEW routes,
         IsActivation(s, c.task.activation), Node[c.task.activation.node].type # "loop"
  PROVE  SameLatches(s, Control(s, c, routes))
<1> DEFINE a == c.task.activation
           r == Control(s, c, routes)
<1>1. CASE Node[a.node].type = "break"
  <2> DEFINE closed == CloseLoop(s, a)
  <2>1. r = SettleLoops(closed)
    BY <1>1 DEF Control
  <2>2. Sound(closed, recorded) /\ Closes(s, closed, a)
    BY CloseSound, CloseCloses
  <2> HIDE DEF closed, r
  <2>3. Grows(closed, r)
    BY <2>1, <2>2, SettleSound
  <2> QED
    BY <2>2, <2>3 DEF Closes, Grows, SameLatches, r
<1>2. CASE Node[a.node].type # "break"
  <2>1. r = s
    BY <1>2 DEF Control
  <2> QED
    BY <2>1 DEF SameLatches
<1> QED
  BY <1>1, <1>2

LEMMA AdvanceCoalesces ==
  ASSUME NEW s, NEW recorded, NEW a, NEW routes, Advances(s, recorded, a, routes),
         NEW n \in Nodes, NEW lineage \in DOMAIN s.satisfied, ~ Unlocked(s, n, lineage),
         Unlocked(Advance(s, a, routes), n, lineage)
  PROVE  Coalesced(Advance(s, a, routes), n, lineage)
<1> DEFINE q == Routed(s, a, routes)
           j == Joined(s, a, routes)
           r == Advance(s, a, routes)
<1>1. /\ SameButLatches(s, q)
      /\ \A l \in DOMAIN s.satisfied : l # a.lineage => q.satisfied[l] = s.satisfied[l]
      /\ Satisfied(q, a.lineage) = Satisfied(Satisfy(s, a.lineage, a.node), a.lineage)
  BY RoutedParts
<1>2. /\ Sound(j, recorded) /\ j.running = q.running /\ j.satisfied = q.satisfied
      /\ Merges(q, j, a.lineage, Unlocking(s, a))
  BY JoinedParts
<1>3. r = SettleLoops(j)
  BY AdvanceIsSettle
<1>4. Latched(s)
  BY DEF Advances, Sound
<1> HIDE DEF q, j, r
<1>5. Fills(j, r, Kept(j))
  BY <1>2, <1>3, SettleAdds
<1>6. /\ r.running = s.running
      /\ lineage \in DOMAIN j.satisfied /\ r.satisfied[lineage] = q.satisfied[lineage]
      /\ lineage \in DOMAIN r.satisfied /\ lineage \in DOMAIN q.satisfied
  BY <1>1, <1>2, <1>5 DEF Fills, Grows, SameButLatches
<1>7. lineage = a.lineage
  <2> SUFFICES ASSUME lineage # a.lineage PROVE FALSE
    OBVIOUS
  <2>1. r.satisfied[lineage] = s.satisfied[lineage]
    BY <1>1, <1>6
  <2> QED
    BY <1>6, <2>1 DEF Unlocked, Satisfied, r
<1>8. n \in Unlocking(s, a)
  <2>1. Satisfied(r, lineage) = Satisfied(q, lineage)
    BY <1>6 DEF Satisfied
  <2> QED
    BY <1>1, <1>7, <2>1 DEF Unlocking, Unlocked, r
<1>9. ASSUME NEW x \in Work(r), x.node = n, x.lineage = lineage PROVE x \in j.pending
  <2>1. x \notin Added(j, r)
    BY <1>5, <1>6, <1>9 DEF Fills, Entered, Begins
  <2>2. x \notin Activations(s.running)
    BY <1>4, <1>9 DEF Latched, Activations
  <2> QED
    BY <1>6, <1>9, <2>1, <2>2 DEF Work, Added
<1> QED
  BY <1>2, <1>7, <1>8, <1>9 DEF Merges, Coalesced, r

(***************************************************************************)
(* The steps.                                                               *)
(***************************************************************************)

(* What unlocks in a lineage that was there is one activation.              *)
Coalesces(s, r) ==
  \A n \in Nodes : \A lineage \in DOMAIN s.satisfied :
    (~ Unlocked(s, n, lineage) /\ Unlocked(r, n, lineage)) => Coalesced(r, n, lineage)

(* The state that a step reaches before it starts what is runnable.         *)
Reaches(s) ==
  /\ Sound(s, records') /\ Orderly(s)
  /\ s.running \subseteq running
  /\ Ends(State, s)
  /\ (\A r \in records' \ records : Node[r.node].type # "loop") => Coalesces(State, s)
  /\ \/ \E kind : Halt(s, kind)
     \/ Roomy(s, {}) /\ StartRunnable(s)

LEMMA SameCoalesces ==
  ASSUME NEW s, NEW r, SameLatches(s, r)
  PROVE  Coalesces(s, r)
BY DEF Coalesces, SameLatches, Unlocked, Satisfied

LEMMA BeginReaches == ASSUME OrderInv, Begin PROVE \E s : Reaches(s)
<1> DEFINE q == State
           s == Enqueue(State, FirstSignals)
<1>1. phase = "created" /\ StartRunnable(s) /\ records' = records
  BY DEF Begin, FirstSignals
<1>2. Sound(q, records) /\ Orderly(q) /\ Roomy(q, {}) /\ q.running = running
  BY <1>1 DEF OrderInv, RunInv, State
<1>3. /\ AreSignals(q, FirstSignals)
      /\ \A x \in FirstSignals : x.lineage = Root /\ DOMAIN x.loops = {} /\ x.group.inside = {}
  BY <1>2, BeginSignals DEF Sound
<1>4. /\ Sound(s, records) /\ s.running = q.running /\ s.loops = q.loops
      /\ s.satisfied = q.satisfied
  BY <1>2, <1>3, EnqueueSound
<1>5. Appends(q, s) /\ Signalled(q, s, FirstSignals)
  BY <1>2, <1>3, EnqueueAppends
<1> HIDE DEF q, s
<1>6. \A a \in Added(q, s) : a.lineage = Root /\ DOMAIN a.loops = {} /\ a.group.inside = {}
  BY <1>3, <1>5 DEF Signalled
<1>7. \A a \in Work(s) : a \in Work(q) \/ a \in Added(q, s)
  BY <1>4 DEF Work, Added
<1>8. Orderly(s)
  <2>1. Aligned(s)
    BY <1>2, <1>4, <1>5, AlignedNext DEF Orderly
  <2>2. Further(q, s)
    BY <1>2, <1>4, SoundFurther
  <2>3. \A a \in Work(s) : a \in Work(q) \/ Scoped(s, a)
    BY <1>6, <1>7 DEF Scoped
  <2>4. Nested(s)
    BY <1>2, <1>4, <2>2, <2>3, NestedNext DEF Orderly
  <2> QED
    BY <2>1, <2>4 DEF Orderly
<1>9. Roomy(s, {})
  <2>1. ASSUME NEW l \in DOMAIN q.loops PROVE Busy(s, l, {}) \subseteq Busy(q, l, {})
    BY <1>4, <1>6, <1>7, IterationNotRoot DEF Busy
  <2> QED
    BY <1>2, <1>4, <2>1, FewerWindows DEF Roomy, Bounded
<1>10. Ends(q, s) /\ Coalesces(q, s)
  <2>1. SameLatches(q, s)
    BY <1>4 DEF SameLatches
  <2> QED
    BY <1>4, <2>1, SameCoalesces DEF Ends
<1> QED
  BY <1>1, <1>2, <1>4, <1>8, <1>9, <1>10 DEF Reaches, q, s

LEMMA CompleteFailureReaches == ASSUME OrderInv, CompleteFailure PROVE \E s : Reaches(s)
<1> DEFINE c == Head(completions)
           s == Received(c)
           r == SettleLoops(s)
           q == State
<1>1. Receive /\ (StartRunnable(r) \/ Halt(s, "node_failed"))
  BY DEF CompleteFailure
<1>2. Sound(s, records')
  BY <1>1, ReceiveSound DEF OrderInv
<1>3. /\ Orderly(s) /\ Roomy(s, {c.task.activation.group})
      /\ s.satisfied = q.satisfied /\ s.loops = q.loops /\ s.running \subseteq running
  BY <1>1, ReceivedOrderly DEF State
<1> HIDE DEF s, q
<1>4. Roomy(s, {})
  BY <1>2, <1>3, RoomyLess
<1>5. Sound(r, records') /\ Orderly(r) /\ BeginsOpen(s, r)
  BY <1>2, <1>3, SettleOrderly
<1>6. Roomy(r, {})
  BY <1>2, <1>3, <1>4, SettleRoomy DEF Orderly
<1>7. Grows(s, r)
  BY <1>2, SettleSound
<1> HIDE DEF r
<1>8. Ends(q, s) /\ SameLatches(q, s)
  BY <1>3 DEF Ends, SameLatches
<1>9. Ends(q, r) /\ SameLatches(q, r)
  BY <1>3, <1>5, <1>7, BeginsOpenEnds DEF Grows, SameLatches
<1>10. Coalesces(q, s) /\ Coalesces(q, r)
  BY <1>8, <1>9, SameCoalesces
<1>11. CASE StartRunnable(r)
  <2>1. Reaches(r)
    BY <1>3, <1>5, <1>6, <1>7, <1>9, <1>10, <1>11 DEF Reaches, Grows, q
  <2> QED
    BY <2>1
<1>12. CASE Halt(s, "node_failed")
  <2>1. Reaches(s)
    BY <1>2, <1>3, <1>8, <1>10, <1>12 DEF Reaches, q
  <2> QED
    BY <2>1
<1> QED
  BY <1>1, <1>11, <1>12

(* The completion of a run is recorded once.                                *)
LEMMA RecordNew ==
  ASSUME OrderInv, Receive
  PROVE  RecordOf(Head(completions)) \in records' \ records
<1> DEFINE c == Head(completions)
<1>1. c.task \in running /\ records' = records \cup {RecordOf(c)}
  BY ReceiveSound DEF OrderInv
<1>2. RecordOf(c).node = c.task.activation.node /\ RecordOf(c).run = c.task.run
  BY DEF RecordOf
<1>3. RecordOf(c) \notin records
  BY <1>1, <1>2 DEF OrderInv, RunInv, Distinct
<1> QED
  BY <1>1, <1>3

LEMMA CompleteNodeReaches == ASSUME OrderInv, CompleteNode PROVE \E s : Reaches(s)
<1> DEFINE c == Head(completions)
           s == Received(c)
           a == c.task.activation
           q == State
<1>1. Receive /\ c.outcome # "failure"
  BY DEF CompleteNode
<1>2. /\ Sound(s, records')
      /\ Placed(a) /\ NewLineage(c) \notin DOMAIN s.loops
      /\ \A routes : /\ c.outcome # "failure"
                     /\ routes \subseteq DOMAIN Node[a.node].routes
                     => Handled(s, records', c, routes)
  BY <1>1, ReceiveSound DEF OrderInv
<1>3. /\ Orderly(s) /\ Scoped(s, a) /\ Roomy(s, {a.group})
      /\ s.satisfied = q.satisfied /\ s.loops = q.loops /\ s.running \subseteq running
  BY <1>1, ReceivedOrderly DEF State
<1>4. PICK routes \in MatchingRoutes(a.node, c.outcome) :
        /\ ~ Spins(c, routes)
        /\ \/ Halt(Control(s, c, routes), "finish_fail")
           \/ Halt(Advance(Control(s, c, routes), a, routes), "break_outside_loop")
           \/ /\ Node[a.node].type = "loop" /\ ~ BreaksOutside(a)
              /\ StartRunnable(Control(s, c, routes))
           \/ /\ ~ BreaksOutside(a)
              /\ StartRunnable(Advance(Control(s, c, routes), a, routes))
  BY DEF CompleteNode
<1> HIDE DEF s, q
<1> DEFINE controlled == Control(s, c, routes)
           advanced == Advance(controlled, a, routes)
<1>5. routes \subseteq DOMAIN Node[a.node].routes
  BY MatchingAreRoutes
<1>6. Handled(s, records', c, routes)
  BY <1>1, <1>2, <1>5
<1>7. /\ Sound(controlled, records') /\ IsActivation(controlled, a)
      /\ Orderly(controlled) /\ Further(s, controlled) /\ Ends(s, controlled)
      /\ controlled.running = s.running
  BY <1>2, <1>3, <1>4, <1>6, ControlSound, ControlOrderly
<1>8. Scoped(controlled, a)
  BY <1>3, <1>6, <1>7, FurtherScoped DEF Handled
<1>9. ~ BreaksOutside(a) => Roomy(controlled, {a.group})
  BY <1>2, <1>3, <1>4, <1>6, ControlRoomy
<1>10. Node[a.node].type # "loop" => SameLatches(s, controlled)
  BY <1>2, <1>6, ControlLatches DEF Handled
<1> HIDE DEF controlled
<1>11. Completed(records', a.node, a.lineage)
  <2>1. a.lineage \in Around(a.lineage)
    BY DEF Around
  <2> QED
    BY <1>6, <2>1 DEF Handled, IsRecordOf, Completed
<1>12. Advances(controlled, records', a, routes)
  BY <1>2, <1>5, <1>7, <1>11 DEF Advances
<1>13. Sound(advanced, records') /\ advanced.running = controlled.running
  BY <1>2, <1>5, <1>7, <1>11, AdvanceSound
<1>14. Orderly(advanced) /\ BeginsOpen(controlled, advanced)
  BY <1>7, <1>8, <1>12, AdvanceOrderly
<1>15. ~ BreaksOutside(a) => Roomy(advanced, {}) /\ Roomy(controlled, {})
  BY <1>7, <1>8, <1>9, <1>12, AdvanceRoomy, RoomyLess
<1>16. ASSUME Node[a.node].type # "loop"
       PROVE  SameLatches(q, controlled) /\ Coalesces(q, advanced)
  <2>1. SameLatches(q, controlled)
    BY <1>3, <1>10, <1>16 DEF SameLatches
  <2>2. ASSUME NEW n \in Nodes, NEW lineage \in DOMAIN q.satisfied,
               ~ Unlocked(q, n, lineage), Unlocked(advanced, n, lineage)
        PROVE  Coalesced(advanced, n, lineage)
    <3>1. lineage \in DOMAIN controlled.satisfied /\ ~ Unlocked(controlled, n, lineage)
      BY <2>1, <2>2 DEF SameLatches, Unlocked, Satisfied
    <3> QED
      BY <1>12, <2>2, <3>1, AdvanceCoalesces
  <2> QED
    BY <2>1, <2>2 DEF Coalesces
<1>17. Ends(q, controlled)
  BY <1>3, <1>7 DEF Ends
<1>18. Ends(q, advanced)
  BY <1>14, <1>17, BeginsOpenEnds
<1>19. Node[a.node].type = "loop" => \E r \in records' \ records : Node[r.node].type = "loop"
  <2>1. RecordOf(c) \in records' \ records /\ RecordOf(c).node = a.node
    BY <1>1, RecordNew DEF RecordOf
  <2> QED
    BY <2>1
<1> HIDE DEF advanced
<1>20. CASE Halt(controlled, "finish_fail") \/ (~ BreaksOutside(a) /\ StartRunnable(controlled))
  <2>1. Reaches(controlled)
    BY <1>3, <1>7, <1>15, <1>16, <1>17, <1>19, <1>20, SameCoalesces DEF Reaches, q
  <2> QED
    BY <2>1
<1>21. CASE \/ Halt(advanced, "break_outside_loop")
            \/ ~ BreaksOutside(a) /\ StartRunnable(advanced)
  <2>1. Reaches(advanced)
    BY <1>3, <1>7, <1>13, <1>14, <1>15, <1>16, <1>18, <1>19, <1>21 DEF Reaches, q
  <2> QED
    BY <2>1
<1> QED
  BY <1>4, <1>20, <1>21 DEF controlled, advanced

(* The steps that only end something.                                       *)
Ending ==
  \/ \E t \in running : AttemptSucceeds(t)
  \/ \E t \in running : AttemptFails(t)
  \/ CompleteSpinning
  \/ \E t \in running : TaskCancelled(t)
  \/ Timeout \/ Quiesce \/ Fail \/ Ended \/ UNCHANGED vars

LEMMA EndingEnds ==
  ASSUME Ending
  PROVE  /\ UNCHANGED <<pending, satisfied, loops, sequence>>
         /\ Activations(running)' \subseteq Activations(running)
         /\ phase' \in {"created", "running"} => phase = phase'
<1>1. CASE \E t \in running : AttemptSucceeds(t)
  BY <1>1 DEF AttemptSucceeds
<1>2. CASE \E t \in running : AttemptFails(t)
  <2>1. PICK t \in running : AttemptFails(t)
    BY <1>2
  <2>2. UNCHANGED <<phase, pending, satisfied, loops, sequence>>
    BY <2>1 DEF AttemptFails
  <2> DEFINE u == [t EXCEPT !.attempt = t.attempt + 1]
  <2>3. running' = running \/ running' = (running \ {t}) \cup {u}
    BY <2>1 DEF AttemptFails
  <2>4. u.activation = t.activation
    OBVIOUS
  <2> HIDE DEF u
  <2>5. Activations(running') \subseteq Activations(running)
    BY <2>1, <2>3, <2>4 DEF Activations
  <2> QED
    BY <2>2, <2>5
<1>3. CASE CompleteSpinning
  BY <1>3 DEF CompleteSpinning, Activations
<1>4. CASE \E t \in running : TaskCancelled(t)
  BY <1>4 DEF TaskCancelled, Activations
<1>5. CASE Timeout \/ Fail \/ Ended \/ UNCHANGED vars
  BY <1>5 DEF Timeout, Fail, Ended, vars
<1>6. CASE Quiesce
  BY <1>6 DEF Quiesce
<1> QED
  BY <1>1, <1>2, <1>3, <1>4, <1>5, <1>6 DEF Ending

LEMMA StepCases == [Next]_vars <=> Begin \/ CompleteFailure \/ CompleteNode \/ Ending
BY DEF Next, Ending

LEMMA StepReaches ==
  ASSUME OrderInv, [Next]_vars, ~ Ending
  PROVE  \E s : Reaches(s)
BY StepCases, BeginReaches, CompleteFailureReaches, CompleteNodeReaches

LEMMA StepOrder == ASSUME OrderInv, [Next]_vars PROVE OrderInv'
<1>1. RunInv'
  BY StepRun DEF OrderInv
<1>2. CASE Ending
  BY <1>1, <1>2, EndingEnds, QuietOrder
<1>3. CASE ~ Ending
  <2>1. PICK s : Reaches(s)
    BY <1>3, StepReaches
  <2>2. CASE \E kind : Halt(s, kind)
    BY <1>1, <2>1, <2>2, HaltedOrderly DEF Reaches, OrderInv
  <2>3. CASE Roomy(s, {}) /\ StartRunnable(s)
    BY <1>1, <2>1, <2>3, StartedOrderly DEF Reaches, OrderInv
  <2> QED
    BY <2>1, <2>2, <2>3 DEF Reaches
<1> QED
  BY <1>2, <1>3

LEMMA InitOrder == Init => OrderInv
<1> SUFFICES ASSUME Init PROVE OrderInv
  OBVIOUS
<1> DEFINE s == State
<1>1. s.pending = {} /\ s.running = {} /\ DOMAIN s.loops = {}
  BY DEF Init, State
<1> HIDE DEF s
<1>2. Orderly(s)
  BY <1>1 DEF Orderly, Nested, Aligned, Work, Activations
<1>3. Roomy(s, {})
  BY <1>1 DEF Roomy, Bounded, Windows
<1> QED
  BY <1>2, <1>3, InitRun DEF OrderInv, s

LEMMA OrderHolds == Spec => []OrderInv
<1>1. OrderInv /\ [Next]_vars => OrderInv'
  BY StepOrder
<1> QED
  BY <1>1, InitOrder, PTL DEF Spec

(***************************************************************************)
(* Theorems.                                                                *)
(***************************************************************************)

(* In every workflow a loop that none was opened in, and none around was    *)
(* broken, keeps to its max-concurrency of iterations that are at work      *)
(* while the run goes on (_fill_loop_capacity, _settle_loops).              *)
THEOREM WindowKept == Spec => []LoopWindow
<1>1. OrderInv => LoopWindow
  <2> SUFFICES ASSUME OrderInv, phase = "running", NEW l \in DOMAIN loops,
                      \A m \in DOMAIN loops : ~ LiesIn(m, l) /\ (loops[m].closed => ~ LiesIn(l, m))
               PROVE  Cardinality({i \in 0 .. (loops[l].next - 1) :
                                     \E g \in LiveGroups(State) :
                                       g = Iteration(l, i) \/ Iteration(l, i) \in g.inside})
                        <= loops[l].limit
    BY DEF LoopWindow
  <2> DEFINE s == State
             working == {i \in 0 .. (loops[l].next - 1) :
                           \E g \in LiveGroups(State) :
                             g = Iteration(l, i) \/ Iteration(l, i) \in g.inside}
  <2>1. s.loops = loops
    BY DEF State
  <2>2. Sound(s, records) /\ Nested(s) /\ Windows(s, {})
    BY DEF OrderInv, RunInv, Orderly, Roomy
  <2>3. Simple(s, l)
    BY <2>1 DEF Simple, Lies, LiesIn
  <2>4. \A i : (\E g \in LiveGroups(s) : g = Iteration(l, i) \/ Iteration(l, i) \in g.inside)
                 <=> Live(s, Iteration(l, i))
    BY DEF Live, LiveGroups, Work
  <2>5. working = {i \in 0 .. (s.loops[l].next - 1) : Live(s, Iteration(l, i))}
    BY <2>1, <2>4
  <2> HIDE DEF s, working
  <2>6. \A i \in 0 .. (s.loops[l].next - 1) :
          Live(s, Iteration(l, i)) <=> \E a \in Work(s) : a.lineage = Iteration(l, i)
    BY <2>1, <2>2, <2>3, BusyLive
  <2>7. working = Busy(s, l, {})
    BY <2>5, <2>6 DEF Busy
  <2>8. Cardinality(working) <= loops[l].limit
    BY <2>1, <2>2, <2>3, <2>7 DEF Windows, Window
  <2> QED
    BY <2>8 DEF working
<1> QED
  BY <1>1, OrderHolds, PTL

(* In no workflow does an iteration of a loop begin once a break closed it  *)
(* (_break_loop, _fill_loop_capacity).                                      *)
THEOREM BreaksAlwaysEnd == Spec => BreakEndsLoop
<1>1. ASSUME OrderInv, [Next]_vars
      PROVE  [\A l \in DOMAIN loops : \A g \in DOMAIN satisfied' \ DOMAIN satisfied :
                loops'[l].closed => g.lineage # l]_vars
  <2>1. CASE Ending
    BY <2>1, EndingEnds
  <2>2. CASE ~ Ending
    <3>1. PICK s : Reaches(s)
      BY <1>1, <2>2, StepReaches
    <3>2. satisfied' = s.satisfied /\ loops' = s.loops
      BY <3>1 DEF Reaches, Halt, StartRunnable
    <3>3. State.satisfied = satisfied /\ State.loops = loops
      BY DEF State
    <3> QED
      BY <3>1, <3>2, <3>3 DEF Reaches, Ends
  <2> QED
    BY <2>1, <2>2
<1> QED
  BY <1>1, OrderHolds, PTL DEF Spec, BreakEndsLoop

(* What starts came before what still could.                                *)
LEMMA StartedInOrder ==
  ASSUME NEW s, NEW recorded, Sound(s, recorded), Orderly(s), StartRunnable(s),
         NEW t \in running' \ s.running, NEW b \in pending', b.node = t.activation.node,
         b.lineage = t.activation.lineage \/ Root \notin {b.lineage, t.activation.lineage},
         Node[b.node].needs \subseteq satisfied'[b.lineage]
  PROVE  t.activation.sequence < b.sequence
<1>1. PICK chosen, started :
        /\ chosen \in SUBSET Runnable(s)
        /\ started \in SUBSET chosen
        /\ AreCandidates(s, chosen)
        /\ AreAdmitted(chosen, started)
        /\ pending'   = s.pending \ started
        /\ running'   = s.running \cup {Task(a, started) : a \in started}
        /\ satisfied' = s.satisfied
  BY DEF StartRunnable
<1>2. PICK a \in started : t = Task(a, started)
  BY <1>1
<1>3. t.activation = a
  BY <1>2 DEF Task
<1>4. a \in s.pending /\ b \in s.pending /\ a \in chosen /\ b \notin started
  BY <1>1 DEF Runnable
<1>5. b \in Runnable(s)
  <2>1. b.lineage \in DOMAIN s.satisfied
    BY <1>4, SoundNames DEF Work, IsActivation
  <2> QED
    BY <1>1, <1>4, <2>1 DEF Runnable, Unlocked, Satisfied
<1>6. CASE b \in chosen
  BY <1>1, <1>3, <1>4, <1>6 DEF AreAdmitted
<1>7. CASE b \notin chosen
  <2>1. a.place < b.place
    BY <1>1, <1>3, <1>4, <1>5, <1>7 DEF AreCandidates, Ahead
  <2>2. CASE a.lineage = Root /\ b.lineage = Root
    BY <1>3, <1>4, <2>1, <2>2 DEF Orderly, Aligned
  <2>3. CASE a.lineage # Root /\ b.lineage # Root
    BY <1>3, <1>4, <2>1, <2>3 DEF Orderly, Aligned
  <2> QED
    BY <1>3, <2>2, <2>3
<1> QED
  BY <1>6, <1>7

(* In every workflow a node's signals start in the order they arrived, but  *)
(* for what merged in the root beside what is in iterations                 *)
(* (_start_runnable, _merge_locked_signals).                                *)
THEOREM ArrivalsInOrder == Spec => ArrivalOrder
<1>1. ASSUME OrderInv, [Next]_vars
      PROVE  [\A t \in running' \ running, b \in pending' :
                (/\ t.activation \notin Activations(running)
                 /\ b.node = t.activation.node
                 /\ b.lineage = t.activation.lineage \/ Root \notin {b.lineage, t.activation.lineage}
                 /\ Node[b.node].needs \subseteq satisfied'[b.lineage])
                => t.activation.sequence < b.sequence]_vars
  <2> SUFFICES ASSUME NEW t \in running' \ running, NEW b \in pending',
                      t.activation \notin Activations(running), b.node = t.activation.node,
                      \/ b.lineage = t.activation.lineage
                      \/ Root \notin {b.lineage, t.activation.lineage},
                      Node[b.node].needs \subseteq satisfied'[b.lineage]
               PROVE  t.activation.sequence < b.sequence
    OBVIOUS
  <2>1. ~ Ending
    <3>1. t.activation \in Activations(running)'
      BY DEF Activations
    <3> QED
      BY <3>1, EndingEnds
  <2>2. PICK s : Reaches(s)
    BY <1>1, <2>1, StepReaches
  <2>3. t \notin s.running
    BY <2>2 DEF Reaches
  <2>4. StartRunnable(s)
    BY <2>2, <2>3 DEF Reaches, Halt
  <2> QED
    BY <2>2, <2>3, <2>4, StartedInOrder DEF Reaches
<1> QED
  BY <1>1, OrderHolds, PTL DEF Spec, ArrivalOrder

LEMMA AtMostOne ==
  ASSUME NEW S, \A x, y \in S : x = y
  PROVE  Cardinality(S) <= 1
<1>1. CASE S = {}
  BY <1>1, FS_EmptySet
<1>2. CASE S # {}
  <2>1. PICK x \in S : TRUE
    BY <1>2
  <2>2. S = {x}
    BY <2>1
  <2> QED
    BY <2>2, FS_Singleton
<1> QED
  BY <1>1, <1>2

(* In every workflow what waited at a latch is one activation once the      *)
(* completion of a node that is no loop opens it (_merge_locked_signals).   *)
THEOREM LatchesCoalesce == Spec => LatchCoalesces
<1>1. ASSUME OrderInv, [Next]_vars
      PROVE  [\A n \in Nodes : \A lineage \in DOMAIN satisfied :
                (/\ ~ (Node[n].needs \subseteq satisfied[lineage])
                 /\ Node[n].needs \subseteq satisfied'[lineage]
                 /\ \A r \in records' \ records : Node[r.node].type # "loop") =>
                  Cardinality({a \in pending' \cup Activations(running)' :
                                 a.node = n /\ a.lineage = lineage}) <= 1]_vars
  <2> SUFFICES ASSUME NEW n \in Nodes, NEW lineage \in DOMAIN satisfied,
                      ~ (Node[n].needs \subseteq satisfied[lineage]),
                      Node[n].needs \subseteq satisfied'[lineage],
                      \A r \in records' \ records : Node[r.node].type # "loop"
               PROVE  Cardinality({a \in pending' \cup Activations(running)' :
                                     a.node = n /\ a.lineage = lineage}) <= 1
    OBVIOUS
  <2>1. ~ Ending
    BY EndingEnds
  <2>2. PICK s : Reaches(s)
    BY <1>1, <2>1, StepReaches
  <2>3. satisfied' = s.satisfied
    BY <2>2 DEF Reaches, Halt, StartRunnable
  <2>4. lineage \in DOMAIN s.satisfied /\ State.satisfied = satisfied
    BY <2>2 DEF Reaches, Ends, State
  <2>5. ~ Unlocked(State, n, lineage) /\ Unlocked(s, n, lineage)
    BY <2>3, <2>4 DEF Unlocked, Satisfied
  <2>6. Coalesced(s, n, lineage)
    BY <2>2, <2>4, <2>5 DEF Reaches, Coalesces
  <2>7. pending' \cup Activations(running)' \subseteq Work(s)
    <3>1. CASE \E kind : Halt(s, kind)
      BY <3>1 DEF Halt, Work, Activations
    <3>2. CASE StartRunnable(s)
      <4>1. PICK started \in SUBSET s.pending :
              /\ pending' = s.pending \ started
              /\ running' = s.running \cup {Task(a, started) : a \in started}
        BY <3>2 DEF StartRunnable, Runnable
      <4>2. \A a \in started : Task(a, started).activation = a
        BY DEF Task
      <4> QED
        BY <4>1, <4>2 DEF Work, Activations
    <3> QED
      BY <2>2, <3>1, <3>2 DEF Reaches
  <2> DEFINE there == {a \in pending' \cup Activations(running)' :
                         a.node = n /\ a.lineage = lineage}
  <2>8. \A x, y \in there : x = y
    BY <2>6, <2>7 DEF Coalesced
  <2> HIDE DEF there
  <2>9. Cardinality(there) <= 1
    BY <2>8, AtMostOne
  <2> QED
    BY <2>9 DEF there
<1> QED
  BY <1>1, OrderHolds, PTL DEF Spec, LatchCoalesces
=============================================================================
