-------------------------- MODULE FileWatcherProofs --------------------------
(***************************************************************************)
(* Theorems about the file watcher, for any number of workflows, files,     *)
(* requests and changes: the shape of its variables, the limits of the      *)
(* server and of a registration, and what its queues keep, in which order.  *)
(*                                                                          *)
(* The invariant says of every registration what its queue, its runs and    *)
(* the events the poll thread holds have to do with its snapshot (Good) and *)
(* with its count of runs (Counted).  Both are stated of the fields of a    *)
(* registration, so that a lemma about a queue that is filled, cut or       *)
(* drained serves every action that does so.                                *)
(***************************************************************************)
EXTENDS FileWatcher, TLAPS, FiniteSetTheorems, SequenceTheorems

(* The runs that go on, of all registrations.                               *)
Active == {r \in runs : r.at = "running"}

(* A thread has a registration at hand, and a list as long as it works on it. *)
Threads ==
  /\ poll.at # "scanning" => poll.object \in Objects
  /\ \A r \in runs : r.at = "starting" => r.todo # <<>>

(* A snapshot is of the past: what it has of a file is older than what is   *)
(* on the disk, or the same.                                                *)
Past(config, snapshot) ==
  \A f \in config.files :
    /\ snapshot[f].version <= disk[f].version
    /\ snapshot[f].version = disk[f].version => snapshot[f] = disk[f]
Known ==
  /\ \A o \in Objects : Past(watched[o].config, watched[o].snapshot)
  /\ \A s \in Requests :
       requests[s].at = "adding" => Past(requests[s].config, requests[s].snapshot)

(* A batch is not empty, and of changes that were noticed.                  *)
Noted(config, snapshot, events) ==
  /\ events # <<>>
  /\ \A i \in DOMAIN events :
       /\ events[i].file \in config.files
       /\ events[i].version <= snapshot[events[i].file].version
  /\ config.each => Len(events) = 1

(* What the poll thread holds are the last changes, of different files.     *)
Fresh(config, snapshot, found) ==
  /\ \A i \in DOMAIN found :
       /\ found[i].file \in config.files
       /\ found[i].version = snapshot[found[i].file].version
  /\ \A i, j \in DOMAIN found : found[i].file = found[j].file => i = j

(* The order of InOrder, for one registration.                              *)
Ordered(queue, active, found) ==
  /\ \A j \in DOMAIN queue :
       /\ \A i \in 1 .. (j - 1) : Older(queue[i], queue[j])
       /\ \A r \in active : Older(r.events, queue[j])
       /\ Older(queue[j], found)
  /\ \A r \in active : Older(r.events, found)

(* The last change of a file of which a change waits alone: it waits too,   *)
(* or is about to, or as many newer ones are about to as the queue holds.   *)
LastWaits(snapshot, queue, file) ==
  \E k \in DOMAIN queue : \E i \in DOMAIN queue[k] :
    queue[k][i].file = file /\ queue[k][i].version = snapshot[file].version
LastFound(found, file) == \E i \in DOMAIN found : found[i].file = file
Newer(config, snapshot, queue, found) ==
  config.each =>
    \A j \in DOMAIN queue : \A i \in DOMAIN queue[j] :
      \/ LastWaits(snapshot, queue, queue[j][i].file)
      \/ LastFound(found, queue[j][i].file)
      \/ Len(found) >= config.depth

Sound(config, snapshot, queue, active, found) ==
  /\ \A j \in DOMAIN queue : Noted(config, snapshot, queue[j])
  /\ \A r \in active : Noted(config, snapshot, r.events)
  /\ Fresh(config, snapshot, found)
  /\ Ordered(queue, active, found)

Good(config, snapshot, queue, active, found) ==
  /\ Len(queue) <= config.depth /\ Len(found) <= config.depth
  /\ Sound(config, snapshot, queue, active, found)
  /\ Newer(config, snapshot, queue, found)

(* The runs of a registration fit its count, and its count its limit.       *)
Counted(config, running, active, inForce) ==
  /\ IsFiniteSet(active)
  /\ Cardinality(active) <= running
  /\ running <= Concurrency(config)
  /\ inForce => Cardinality(active) = running

GoodObject(o) ==
  LET w == watched[o] IN Good(w.config, w.snapshot, w.queue, Running(o), Found(o))
CountedObject(o) ==
  Counted(watched[o].config, watched[o].running, Running(o), Registered(o))

Limited ==
  /\ IsFiniteSet(Active)
  /\ globalRunning = Cardinality(Active)
  /\ globalRunning <= GlobalLimit

WatchInv ==
  /\ TypeOK /\ Threads /\ Known /\ Limited
  /\ \A o \in Objects : GoodObject(o) /\ CountedObject(o)

-----------------------------------------------------------------------------
(* Sequences.                                                               *)

(* The members of a sequence are at its places.                             *)
LEMMA MembersAt ==
  ASSUME NEW s, NEW x
  PROVE  x \in ToSet(s) <=> \E i \in DOMAIN s : x = s[i]
BY DEF ToSet

LEMMA IsASequence ==
  ASSUME NEW S, NEW n \in Nat, NEW s \in [1 .. n -> S]
  PROVE  s \in Seq(S)
OBVIOUS

(* A sequence without its first n elements.                                 *)
LEMMA Without ==
  ASSUME NEW S, NEW s \in Seq(S), NEW n \in 0 .. Len(s)
  PROVE  /\ SubSeq(s, n + 1, Len(s)) \in Seq(S)
         /\ Len(SubSeq(s, n + 1, Len(s))) = Len(s) - n
         /\ \A i \in DOMAIN SubSeq(s, n + 1, Len(s)) :
              /\ i + n \in DOMAIN s
              /\ SubSeq(s, n + 1, Len(s))[i] = s[i + n]
         /\ \A i \in DOMAIN s : i > n =>
              /\ i - n \in DOMAIN SubSeq(s, n + 1, Len(s))
              /\ SubSeq(s, n + 1, Len(s))[i - n] = s[i]
OBVIOUS

(* The newest elements are what is left without the first ones, as many as  *)
(* fit.                                                                     *)
LEMMA NewestIs ==
  ASSUME NEW S, NEW s \in Seq(S), NEW k \in Nat
  PROVE  /\ Newest(s, k) \in Seq(S)
         /\ Len(Newest(s, k)) <= k
         /\ \E n \in 0 .. Len(s) : Newest(s, k) = SubSeq(s, n + 1, Len(s))
         /\ Len(s) >= k => Len(Newest(s, k)) = k
<1>0. Len(s) \in Nat
  OBVIOUS
<1>1. CASE Len(s) > k
  <2>1. PICK n \in 0 .. Len(s) : n = Len(s) - k
    BY <1>0, <1>1
  <2>2. Newest(s, k) = SubSeq(s, n + 1, Len(s))
    BY <1>1, <2>1 DEF Newest
  <2>3. Newest(s, k) \in Seq(S) /\ Len(Newest(s, k)) = Len(s) - n
    BY <2>2, Without
  <2>4. Len(s) - n = k
    BY <1>0, <2>1
  <2>. QED
    BY <2>2, <2>3, <2>4
<1>2. CASE ~ Len(s) > k
  <2>1. Newest(s, k) = s
    BY <1>2 DEF Newest
  <2>2. s = SubSeq(s, 0 + 1, Len(s)) /\ 0 \in 0 .. Len(s)
    BY <1>0
  <2>3. \E n \in 0 .. Len(s) : Newest(s, k) = SubSeq(s, n + 1, Len(s))
    BY <2>1, <2>2
  <2>. QED
    BY <1>0, <1>2, <2>1, <2>3
<1>. QED
  BY <1>1, <1>2

(* The sequences of a set list every element once.                          *)
LEMMA ListsAll ==
  ASSUME NEW S, IsFiniteSet(S), NEW s \in SetToSeqs(S)
  PROVE  /\ s \in Seq(S)
         /\ Len(s) = Cardinality(S)
         /\ \A i, j \in DOMAIN s : s[i] = s[j] => i = j
         /\ \A x \in S : \E i \in DOMAIN s : s[i] = x
<1>. DEFINE D == 1 .. Cardinality(S)
<1>0. Cardinality(S) \in Nat
  BY FS_CardinalityType
<1>1. s \in [D -> S] /\ \A i, j \in D : i # j => s[i] # s[j]
  BY DEF SetToSeqs
<1>2. s \in Seq(S) /\ Len(s) = Cardinality(S) /\ DOMAIN s = D
  BY <1>0, <1>1
<1>3. IsFiniteSet(D) /\ Cardinality(D) = Cardinality(S)
  BY <1>0, FS_Interval
<1>4. s \in Injection(D, S)
  BY <1>1 DEF Injection, IsInjective
<1>5. s \in Surjection(D, S)
  BY <1>3, <1>4, FS_Injection
<1>. QED
  BY <1>1, <1>2, <1>5 DEF Surjection

-----------------------------------------------------------------------------
(* The fields of a registration.                                            *)

Typed(config, snapshot, queue, active, found) ==
  /\ config \in Configs
  /\ snapshot \in [config.files -> Stats]
  /\ queue \in Seq(Seq(Events))
  /\ \A r \in active : r.events \in Seq(Events)
  /\ found \in Seq(Events)

LEMMA ConfigFields ==
  ASSUME NEW c \in Configs
  PROVE  c.files \subseteq Files /\ c.each \in BOOLEAN /\ c.concurrency \in Nat /\ c.depth \in Nat
BY ConfigsAssumption DEF IsConfig

LEMMA OlderAt ==
  ASSUME NEW b, NEW c, Older(b, c), NEW i \in DOMAIN b, NEW j \in DOMAIN c,
         b[i].file = c[j].file
  PROVE  b[i].version < c[j].version
BY MembersAt DEF Older

LEMMA OlderIf ==
  ASSUME NEW b, NEW c,
         \A i \in DOMAIN b, j \in DOMAIN c :
           b[i].file = c[j].file => b[i].version < c[j].version
  PROVE  Older(b, c)
BY MembersAt DEF Older

(* The last change of a file is in no older batch than another of it.       *)
LEMMA LastIsBehind ==
  ASSUME NEW config, NEW snapshot, NEW queue, NEW active, NEW found,
         Typed(config, snapshot, queue, active, found),
         Sound(config, snapshot, queue, active, found),
         NEW j \in DOMAIN queue, NEW i \in DOMAIN queue[j],
         NEW k \in DOMAIN queue, NEW l \in DOMAIN queue[k],
         queue[k][l].file = queue[j][i].file,
         queue[k][l].version = snapshot[queue[j][i].file].version
  PROVE  j <= k
<1>1. j \in Nat /\ k \in Nat /\ j >= 1 /\ k >= 1
  BY DEF Typed
<1>2. queue[j] \in Seq(Events) /\ queue[k] \in Seq(Events)
  BY DEF Typed
<1>3. queue[j][i] \in Events /\ queue[k][l] \in Events
  BY <1>2
<1>4. Noted(config, snapshot, queue[j])
  BY DEF Sound
<1>5. queue[j][i].version <= snapshot[queue[j][i].file].version
  BY <1>4 DEF Noted
<1>6. SUFFICES ASSUME k < j PROVE FALSE
  BY <1>1
<1>7. k \in 1 .. (j - 1)
  BY <1>1, <1>6
<1>8. Older(queue[k], queue[j])
  BY <1>7 DEF Sound, Ordered
<1>9. queue[k][l].version < queue[j][i].version
  BY <1>8, OlderAt
<1>10. queue[j][i].version \in Nat /\ queue[k][l].version \in Nat
  BY <1>3 DEF Events
<1>. QED
  BY <1>5, <1>9, <1>10

(* What is left of a queue without its first n batches, some of which may   *)
(* run now, while other runs may have ended.                                *)
LEMMA Rest ==
  ASSUME NEW config, NEW snapshot, NEW queue, NEW active, NEW found,
         Typed(config, snapshot, queue, active, found),
         Sound(config, snapshot, queue, active, found),
         NEW n \in 0 .. Len(queue), NEW now,
         \A r \in now : r \in active \/ \E i \in 1 .. n : r.events = queue[i]
  PROVE  Sound(config, snapshot, SubSeq(queue, n + 1, Len(queue)), now, found)
<1>. DEFINE rest == SubSeq(queue, n + 1, Len(queue))
<1>q. queue \in Seq(Seq(Events))
  BY DEF Typed
<1>0. Len(queue) \in Nat /\ n \in Nat
  BY <1>q
<1>1. /\ rest \in Seq(Seq(Events))
      /\ Len(rest) = Len(queue) - n
      /\ \A i \in DOMAIN rest : i + n \in DOMAIN queue /\ rest[i] = queue[i + n]
  BY <1>q, Without
<1>2. /\ DOMAIN rest = 1 .. (Len(queue) - n) /\ DOMAIN queue = 1 .. Len(queue)
      /\ 1 .. n \subseteq DOMAIN queue
  BY <1>0, <1>1, <1>q
<1>. HIDE DEF rest
<1>4. \A j \in DOMAIN rest : Noted(config, snapshot, rest[j])
  BY <1>1 DEF Sound
<1>5. \A r \in now : Noted(config, snapshot, r.events)
  BY <1>2 DEF Sound
<1>6. Ordered(rest, now, found)
  <2>1. ASSUME NEW j \in DOMAIN rest, NEW i \in 1 .. (j - 1)
        PROVE  Older(rest[i], rest[j])
    <3>1. i \in DOMAIN rest /\ i + n \in 1 .. ((j + n) - 1) /\ j + n \in DOMAIN queue
      BY <1>0, <1>1, <1>2
    <3>2. Older(queue[i + n], queue[j + n])
      BY <3>1 DEF Sound, Ordered
    <3>. QED
      BY <1>1, <3>1, <3>2
  <2>2. ASSUME NEW j \in DOMAIN rest, NEW r \in now
        PROVE  Older(r.events, rest[j])
    <3>1. j + n \in DOMAIN queue /\ rest[j] = queue[j + n]
      BY <1>1
    <3>2. CASE r \in active
      BY <3>1, <3>2 DEF Sound, Ordered
    <3>3. ASSUME NEW i \in 1 .. n, r.events = queue[i] PROVE Older(r.events, rest[j])
      <4>1. i \in 1 .. ((j + n) - 1)
        BY <1>0, <1>2
      <4>. QED
        BY <3>1, <3>3, <4>1 DEF Sound, Ordered
    <3>. QED
      BY <3>2, <3>3
  <2>3. ASSUME NEW j \in DOMAIN rest PROVE Older(rest[j], found)
    BY <1>1 DEF Sound, Ordered
  <2>4. ASSUME NEW r \in now PROVE Older(r.events, found)
    BY <1>2 DEF Sound, Ordered
  <2>. QED
    BY <2>1, <2>2, <2>3, <2>4 DEF Ordered
<1>8. Fresh(config, snapshot, found)
  BY DEF Sound
<1>. QED
  BY <1>4, <1>5, <1>6, <1>8 DEF Sound, rest

(* If the last change of a file waits, it still does when older batches are *)
(* gone and one with a change of the file is left.                          *)
LEMMA LastStays ==
  ASSUME NEW config, NEW snapshot, NEW queue, NEW active, NEW found,
         Typed(config, snapshot, queue, active, found),
         Sound(config, snapshot, queue, active, found),
         NEW n \in 0 .. Len(queue),
         NEW j \in DOMAIN queue, j > n, NEW i \in DOMAIN queue[j],
         LastWaits(snapshot, queue, queue[j][i].file)
  PROVE  LastWaits(snapshot, SubSeq(queue, n + 1, Len(queue)), queue[j][i].file)
<1>q. queue \in Seq(Seq(Events))
  BY DEF Typed
<1>1. PICK k \in DOMAIN queue : \E l \in DOMAIN queue[k] :
        /\ queue[k][l].file = queue[j][i].file
        /\ queue[k][l].version = snapshot[queue[j][i].file].version
  BY DEF LastWaits
<1>2. j <= k
  BY <1>1, LastIsBehind
<1>3. k > n
  BY <1>q, <1>2
<1>4. /\ k - n \in DOMAIN SubSeq(queue, n + 1, Len(queue))
      /\ SubSeq(queue, n + 1, Len(queue))[k - n] = queue[k]
  BY <1>q, <1>3, Without
<1>. QED
  BY <1>1, <1>4 DEF LastWaits

(* The first n batches of a queue start, or none, and runs may have ended.  *)
LEMMA Drained ==
  ASSUME NEW config, NEW snapshot, NEW queue, NEW active, NEW found,
         Typed(config, snapshot, queue, active, found),
         Good(config, snapshot, queue, active, found),
         NEW n \in 0 .. Len(queue), NEW now,
         \A r \in now : r \in active \/ \E i \in 1 .. n : r.events = queue[i]
  PROVE  Good(config, snapshot, SubSeq(queue, n + 1, Len(queue)), now, found)
<1>. DEFINE rest == SubSeq(queue, n + 1, Len(queue))
<1>q. queue \in Seq(Seq(Events))
  BY DEF Typed
<1>0. config.depth \in Nat /\ Len(queue) \in Nat /\ n \in Nat
  BY <1>q, ConfigFields DEF Typed
<1>1. /\ rest \in Seq(Seq(Events))
      /\ Len(rest) = Len(queue) - n
      /\ \A i \in DOMAIN rest : i + n \in DOMAIN queue /\ rest[i] = queue[i + n]
  BY <1>q, Without
<1>2. Sound(config, snapshot, queue, active, found)
  BY DEF Good
<1>3. Sound(config, snapshot, rest, now, found)
  BY <1>2, Rest
<1>. HIDE DEF rest
<1>4. Len(rest) <= config.depth /\ Len(found) <= config.depth
  BY <1>0, <1>1 DEF Good
<1>5. Newer(config, snapshot, rest, found)
  <2>. SUFFICES ASSUME config.each, NEW j \in DOMAIN rest, NEW i \in DOMAIN rest[j],
                       ~ LastFound(found, rest[j][i].file), ~ Len(found) >= config.depth
                PROVE  LastWaits(snapshot, rest, rest[j][i].file)
    BY DEF Newer
  <2>1. j + n \in DOMAIN queue /\ rest[j] = queue[j + n]
    BY <1>1
  <2>2. j + n > n
    BY <1>0, <1>1
  <2>3. LastWaits(snapshot, queue, queue[j + n][i].file)
    BY <2>1 DEF Good, Newer
  <2>4. LastWaits(snapshot, rest, queue[j + n][i].file)
    BY <1>2, <2>1, <2>2, <2>3, LastStays DEF rest
  <2>. QED
    BY <2>1, <2>4
<1>. QED
  BY <1>3, <1>4, <1>5 DEF Good, rest

(* The batches of what was found hold nothing else, and in the mode where   *)
(* every change is a batch, each change.                                    *)
LEMMA BatchesAre ==
  ASSUME NEW config, NEW snapshot, NEW queue, NEW active, NEW found,
         Typed(config, snapshot, queue, active, found),
         Fresh(config, snapshot, found)
  PROVE  /\ Batches(config, found) \in Seq(Seq(Events))
         /\ \A j \in DOMAIN Batches(config, found) :
              /\ Noted(config, snapshot, Batches(config, found)[j])
              /\ \A i \in DOMAIN Batches(config, found)[j] :
                   \E k \in DOMAIN found : Batches(config, found)[j][i] = found[k]
         /\ \A j \in DOMAIN Batches(config, found) : \A i \in 1 .. (j - 1) :
              Older(Batches(config, found)[i], Batches(config, found)[j])
         /\ config.each =>
              /\ Len(Batches(config, found)) = Len(found)
              /\ \A k \in DOMAIN found : Batches(config, found)[k] = <<found[k]>>
<1>. DEFINE b == Batches(config, found)
<1>0. /\ found \in Seq(Events) /\ DOMAIN found = 1 .. Len(found) /\ Len(found) \in Nat
      /\ config.each \in BOOLEAN
  BY ConfigFields DEF Typed
<1>e. \A k \in DOMAIN found : found[k] \in Events
  BY <1>0
<1>v. \A k \in DOMAIN found : found[k].version \in Nat
  BY <1>e DEF Events
<1>1. CASE found = <<>>
  <2>1. b = <<>>
    BY <1>1 DEF Batches
  <2>2. DOMAIN b = {} /\ Len(b) = 0
    BY <2>1
  <2>3. DOMAIN found = {} /\ Len(found) = 0
    BY <1>1
  <2>4. b \in Seq(Seq(Events))
    BY <2>1
  <2>. QED
    BY <2>2, <2>3, <2>4
<1>2. CASE found # <<>> /\ config.each
  <2>1. b = [i \in DOMAIN found |-> <<found[i]>>]
    BY <1>2 DEF Batches
  <2>2. DOMAIN b = DOMAIN found /\ \A k \in DOMAIN found : b[k] = <<found[k]>>
    BY <2>1
  <2>3. \A k \in DOMAIN found : <<found[k]>> \in Seq(Events)
    BY <1>0
  <2>4. b \in Seq(Seq(Events)) /\ Len(b) = Len(found)
    BY <1>0, <2>1, <2>3
  <2>. HIDE DEF b
  <2>5. ASSUME NEW j \in DOMAIN b
        PROVE  /\ Noted(config, snapshot, b[j])
               /\ \A i \in DOMAIN b[j] : \E k \in DOMAIN found : b[j][i] = found[k]
    <3>1. j \in DOMAIN found /\ b[j] = <<found[j]>>
      BY <2>2
    <3>2. DOMAIN b[j] = {1} /\ b[j][1] = found[j] /\ Len(b[j]) = 1 /\ b[j] # <<>>
      BY <3>1
    <3>3. /\ found[j].file \in config.files
          /\ found[j].version <= snapshot[found[j].file].version
      BY <1>v, <3>1 DEF Fresh
    <3>. QED
      BY <1>2, <3>1, <3>2, <3>3 DEF Noted
  <2>6. ASSUME NEW j \in DOMAIN b, NEW i \in 1 .. (j - 1) PROVE Older(b[i], b[j])
    <3>1. i \in DOMAIN found /\ j \in DOMAIN found /\ i # j
      BY <1>0, <2>2
    <3>2. b[i] = <<found[i]>> /\ b[j] = <<found[j]>>
      BY <2>2, <3>1
    <3>3. found[i].file # found[j].file
      BY <3>1 DEF Fresh
    <3>. QED
      BY <3>2, <3>3, OlderIf
  <2>. QED
    BY <2>2, <2>4, <2>5, <2>6 DEF b
<1>3. CASE found # <<>> /\ ~ config.each
  <2>1. b = <<found>>
    BY <1>3 DEF Batches
  <2>2. b \in Seq(Seq(Events)) /\ DOMAIN b = {1} /\ b[1] = found
    BY <1>0, <2>1
  <2>. HIDE DEF b
  <2>3. Noted(config, snapshot, found)
    BY <1>3, <1>v DEF Fresh, Noted
  <2>4. \A j \in DOMAIN b : 1 .. (j - 1) = {}
    BY <2>2
  <2>. QED
    BY <1>3, <2>2, <2>3, <2>4 DEF b
<1>. QED
  BY <1>0, <1>1, <1>2, <1>3

(* They join the queue ...                                                  *)
LEMMA Joined ==
  ASSUME NEW config, NEW snapshot, NEW queue, NEW active, NEW found,
         Typed(config, snapshot, queue, active, found),
         Sound(config, snapshot, queue, active, found)
  PROVE  LET all == Queued(queue, Batches(config, found))
         IN  /\ Typed(config, snapshot, all, active, <<>>)
             /\ Sound(config, snapshot, all, active, <<>>)
             /\ Len(all) = Len(queue) + Len(Batches(config, found))
             /\ \A i \in DOMAIN queue : i \in DOMAIN all /\ all[i] = queue[i]
             /\ \A i \in DOMAIN Batches(config, found) :
                  i + Len(queue) \in DOMAIN all /\ all[i + Len(queue)] = Batches(config, found)[i]
             /\ \A i \in DOMAIN all :
                  \/ i \in DOMAIN queue
                  \/ i > Len(queue) /\ i - Len(queue) \in DOMAIN Batches(config, found)
<1>. DEFINE b == Batches(config, found)
            all == Queued(queue, b)
<1>t. queue \in Seq(Seq(Events)) /\ found \in Seq(Events)
  BY DEF Typed
<1>f. Fresh(config, snapshot, found)
  BY DEF Sound
<1>b. /\ b \in Seq(Seq(Events))
      /\ \A j \in DOMAIN b :
           /\ Noted(config, snapshot, b[j])
           /\ \A i \in DOMAIN b[j] : \E k \in DOMAIN found : b[j][i] = found[k]
      /\ \A j \in DOMAIN b : \A i \in 1 .. (j - 1) : Older(b[i], b[j])
  BY <1>f, BatchesAre
<1>. HIDE DEF b
<1>1. /\ all \in Seq(Seq(Events))
      /\ Len(all) = Len(queue) + Len(b)
      /\ DOMAIN all = 1 .. (Len(queue) + Len(b))
      /\ DOMAIN queue = 1 .. Len(queue) /\ DOMAIN b = 1 .. Len(b)
      /\ Len(queue) \in Nat /\ Len(b) \in Nat
      /\ \A i \in DOMAIN queue : all[i] = queue[i]
      /\ \A i \in DOMAIN b : all[i + Len(queue)] = b[i]
  BY <1>t, <1>b DEF Queued
<1>. HIDE DEF all
<1>2. /\ \A i \in DOMAIN queue : i \in DOMAIN all
      /\ \A i \in DOMAIN b : i + Len(queue) \in DOMAIN all
      /\ \A i \in DOMAIN all :
           i \in DOMAIN queue \/ (i > Len(queue) /\ i - Len(queue) \in DOMAIN b)
  BY <1>1
<1>3. \A i \in DOMAIN all : i > Len(queue) /\ i - Len(queue) \in DOMAIN b => all[i] = b[i - Len(queue)]
  <2>1. ASSUME NEW i \in DOMAIN all, i - Len(queue) \in DOMAIN b
        PROVE  all[i] = b[i - Len(queue)]
    <3>1. (i - Len(queue)) + Len(queue) = i
      BY <1>1
    <3>. QED
      BY <1>1, <2>1, <3>1
  <2>. QED
    BY <2>1
<1>4. ASSUME NEW c, Older(c, found), NEW j \in DOMAIN b PROVE Older(c, b[j])
  <2>1. ASSUME NEW i \in DOMAIN c, NEW l \in DOMAIN b[j], c[i].file = b[j][l].file
        PROVE  c[i].version < b[j][l].version
    <3>1. PICK k \in DOMAIN found : b[j][l] = found[k]
      BY <1>b
    <3>. QED
      BY <1>4, <2>1, <3>1, OlderAt
  <2>. QED
    BY <2>1, OlderIf
<1>5. \A j \in DOMAIN all : Noted(config, snapshot, all[j])
  BY <1>b, <1>1, <1>2, <1>3 DEF Sound
<1>6. \A c : Older(c, <<>>)
  BY OlderIf
<1>7. Ordered(all, active, <<>>)
  <2>1. ASSUME NEW j \in DOMAIN all, NEW i \in 1 .. (j - 1) PROVE Older(all[i], all[j])
    <3>0. i \in DOMAIN all /\ i < j /\ i \in Nat /\ j \in Nat
      BY <1>1
    <3>1. CASE j \in DOMAIN queue
      <4>1. i \in DOMAIN queue
        BY <1>1, <3>0, <3>1
      <4>. QED
        BY <1>1, <3>1, <4>1 DEF Sound, Ordered
    <3>2. CASE j > Len(queue) /\ j - Len(queue) \in DOMAIN b /\ i \in DOMAIN queue
      <4>1. Older(queue[i], found)
        BY <3>2 DEF Sound, Ordered
      <4>. QED
        BY <1>1, <1>3, <1>4, <3>2, <4>1
    <3>3. CASE /\ j > Len(queue) /\ j - Len(queue) \in DOMAIN b
               /\ i > Len(queue) /\ i - Len(queue) \in DOMAIN b
      <4>1. i - Len(queue) \in 1 .. ((j - Len(queue)) - 1)
        BY <1>1, <3>0, <3>3
      <4>2. Older(b[i - Len(queue)], b[j - Len(queue)])
        BY <1>b, <3>3, <4>1
      <4>. QED
        BY <1>3, <3>0, <3>3, <4>2
    <3>. QED
      BY <1>2, <3>0, <3>1, <3>2, <3>3
  <2>2. ASSUME NEW j \in DOMAIN all, NEW r \in active PROVE Older(r.events, all[j])
    <3>1. CASE j \in DOMAIN queue
      BY <1>1, <3>1 DEF Sound, Ordered
    <3>2. CASE j > Len(queue) /\ j - Len(queue) \in DOMAIN b
      <4>1. Older(r.events, found)
        BY DEF Sound, Ordered
      <4>. QED
        BY <1>3, <1>4, <3>2, <4>1
    <3>. QED
      BY <1>2, <3>1, <3>2
  <2>. QED
    BY <1>6, <2>1, <2>2 DEF Ordered
<1>8. Typed(config, snapshot, all, active, <<>>)
  BY <1>1 DEF Typed
<1>9. Fresh(config, snapshot, <<>>)
  BY DEF Fresh
<1>10. Sound(config, snapshot, all, active, <<>>)
  BY <1>5, <1>7, <1>9 DEF Sound
<1>. QED
  BY <1>1, <1>2, <1>8, <1>10 DEF all, b

(* ... of which the newest stay.                                            *)
LEMMA Enqueued ==
  ASSUME NEW config, NEW snapshot, NEW queue, NEW active, NEW found,
         Typed(config, snapshot, queue, active, found),
         Good(config, snapshot, queue, active, found)
  PROVE  Good(config, snapshot, Newest(Queued(queue, Batches(config, found)), config.depth),
              active, <<>>)
<1>. DEFINE b == Batches(config, found)
            all == Queued(queue, b)
            rest == Newest(all, config.depth)
<1>1. Sound(config, snapshot, queue, active, found) /\ Len(found) <= config.depth
  BY DEF Good
<1>2. /\ Typed(config, snapshot, all, active, <<>>)
      /\ Sound(config, snapshot, all, active, <<>>)
      /\ Len(all) = Len(queue) + Len(b)
      /\ \A i \in DOMAIN queue : i \in DOMAIN all /\ all[i] = queue[i]
      /\ \A i \in DOMAIN b : i + Len(queue) \in DOMAIN all /\ all[i + Len(queue)] = b[i]
      /\ \A i \in DOMAIN all :
           i \in DOMAIN queue \/ (i > Len(queue) /\ i - Len(queue) \in DOMAIN b)
  BY <1>1, Joined
<1>3. /\ b \in Seq(Seq(Events))
      /\ \A j \in DOMAIN b :
           \A i \in DOMAIN b[j] : \E k \in DOMAIN found : b[j][i] = found[k]
      /\ config.each => Len(b) = Len(found) /\ \A k \in DOMAIN found : b[k] = <<found[k]>>
  BY <1>1, BatchesAre DEF Sound
<1>4. /\ all \in Seq(Seq(Events)) /\ queue \in Seq(Seq(Events)) /\ found \in Seq(Events)
      /\ config.depth \in Nat /\ config.each \in BOOLEAN
  BY <1>2, ConfigFields DEF Typed
<1>. HIDE DEF b, all
<1>5. PICK n \in 0 .. Len(all) : rest = SubSeq(all, n + 1, Len(all))
  BY <1>4, NewestIs
<1>6. /\ Len(rest) <= config.depth /\ (Len(all) >= config.depth => Len(rest) = config.depth)
      /\ Len(rest) = Len(all) - n
  <2>1. Len(rest) <= config.depth /\ (Len(all) >= config.depth => Len(rest) = config.depth)
    BY <1>4, NewestIs
  <2>2. Len(SubSeq(all, n + 1, Len(all))) = Len(all) - n
    BY <1>4, Without
  <2>. QED
    BY <1>5, <2>1, <2>2
<1>7. \A i \in DOMAIN rest : i + n \in DOMAIN all /\ rest[i] = all[i + n] /\ i + n > n
  <2>1. \A i \in DOMAIN rest : i + n \in DOMAIN all /\ rest[i] = all[i + n]
    BY <1>4, <1>5, Without
  <2>2. rest \in Seq(Seq(Events))
    BY <1>4, NewestIs
  <2>. HIDE DEF rest
  <2>. QED
    BY <2>1, <2>2
<1>8. Sound(config, snapshot, rest, active, <<>>)
  BY <1>2, <1>5, Rest
<1>. HIDE DEF rest
<1>9. Newer(config, snapshot, rest, <<>>)
  <2>. SUFFICES ASSUME config.each, NEW j \in DOMAIN rest, NEW i \in DOMAIN rest[j]
                PROVE  LastWaits(snapshot, rest, rest[j][i].file)
    BY DEF Newer
  <2>0. j + n \in DOMAIN all /\ rest[j] = all[j + n] /\ j + n > n
    BY <1>7
  <2>1. ASSUME NEW k \in DOMAIN found, found[k].file = rest[j][i].file
        PROVE  LastWaits(snapshot, all, rest[j][i].file)
    <3>1. k \in DOMAIN b
      BY <1>3, <1>4
    <3>2. k + Len(queue) \in DOMAIN all /\ all[k + Len(queue)] = <<found[k]>>
      BY <1>2, <1>3, <3>1
    <3>3. 1 \in DOMAIN <<found[k]>> /\ <<found[k]>>[1] = found[k]
      OBVIOUS
    <3>4. found[k].version = snapshot[found[k].file].version
      BY <1>1 DEF Sound, Fresh
    <3>. QED
      BY <2>1, <3>2, <3>3, <3>4 DEF LastWaits
  <2>2. ASSUME j + n \in DOMAIN queue PROVE LastWaits(snapshot, all, rest[j][i].file)
    <3>1. rest[j] = queue[j + n]
      BY <1>2, <2>0, <2>2
    <3>2. \/ LastWaits(snapshot, queue, rest[j][i].file)
          \/ LastFound(found, rest[j][i].file)
          \/ Len(found) >= config.depth
      BY <2>2, <3>1 DEF Good, Newer
    <3>3. ASSUME LastWaits(snapshot, queue, rest[j][i].file)
          PROVE  LastWaits(snapshot, all, rest[j][i].file)
      BY <1>2, <3>3 DEF LastWaits
    <3>4. ASSUME LastFound(found, rest[j][i].file)
          PROVE  LastWaits(snapshot, all, rest[j][i].file)
      BY <2>1, <3>4 DEF LastFound
    <3>5. ASSUME Len(found) >= config.depth PROVE FALSE
      <4>1. Len(b) >= config.depth /\ Len(b) \in Nat /\ Len(queue) \in Nat /\ Len(all) \in Nat
        BY <1>3, <1>4, <3>5
      <4>2. Len(all) >= config.depth
        BY <1>2, <1>4, <4>1
      <4>3. Len(all) - n = config.depth
        BY <1>6, <4>2
      <4>4. n \in Nat /\ n >= Len(queue)
        BY <1>2, <1>4, <4>1, <4>3
      <4>5. j + n <= Len(queue)
        BY <1>4, <2>2
      <4>. QED
        BY <1>4, <2>0, <4>1, <4>4, <4>5
    <3>. QED
      BY <3>2, <3>3, <3>4, <3>5
  <2>3. ASSUME j + n > Len(queue), (j + n) - Len(queue) \in DOMAIN b
        PROVE  LastWaits(snapshot, all, rest[j][i].file)
    <3>1. ((j + n) - Len(queue)) + Len(queue) = j + n
      BY <1>4, <2>0
    <3>2. rest[j] = b[(j + n) - Len(queue)]
      BY <1>2, <2>0, <2>3, <3>1
    <3>3. PICK k \in DOMAIN found : rest[j][i] = found[k]
      BY <1>3, <2>3, <3>2
    <3>. QED
      BY <2>1, <3>3
  <2>4. LastWaits(snapshot, all, all[j + n][i].file) /\ i \in DOMAIN all[j + n]
    BY <1>2, <2>0, <2>2, <2>3
  <2>5. LastWaits(snapshot, SubSeq(all, n + 1, Len(all)), all[j + n][i].file)
    BY <1>2, <2>0, <2>4, LastStays
  <2>. QED
    BY <1>5, <2>0, <2>5
<1>10. Len(<<>>) <= config.depth
  BY <1>4
<1>. QED
  BY <1>6, <1>8, <1>9, <1>10 DEF Good, rest, all, b

(* The snapshot is replaced: what changed is newer, and was found, or as    *)
(* much as the queue holds.                                                 *)
LEMMA Scanned ==
  ASSUME NEW config, NEW snapshot, NEW queue, NEW active, NEW found, NEW next,
         Typed(config, snapshot, queue, active, <<>>),
         Good(config, snapshot, queue, active, <<>>),
         next \in [config.files -> Stats], found \in Seq(Events),
         \A f \in config.files :
           next[f] = snapshot[f] \/ next[f].version > snapshot[f].version,
         \A i \in DOMAIN found :
           /\ found[i].file \in config.files
           /\ found[i].version = next[found[i].file].version
           /\ found[i].version > snapshot[found[i].file].version,
         \A i, j \in DOMAIN found : found[i].file = found[j].file => i = j,
         Len(found) <= config.depth,
         \/ Len(found) >= config.depth
         \/ \A f \in config.files : next[f] # snapshot[f] => LastFound(found, f)
  PROVE  Good(config, next, queue, active, found)
<1>t. /\ queue \in Seq(Seq(Events)) /\ snapshot \in [config.files -> Stats]
      /\ \A r \in active : r.events \in Seq(Events)
  BY DEF Typed
<1>v. \A f \in config.files : /\ snapshot[f].version \in Nat /\ next[f].version \in Nat
                              /\ snapshot[f].version <= next[f].version
  BY <1>t DEF Stats
<1>0. Sound(config, snapshot, queue, active, <<>>)
  BY DEF Good
<1>1. ASSUME NEW b \in Seq(Events), Noted(config, snapshot, b)
      PROVE  Noted(config, next, b) /\ Older(b, found)
  <2>0. \A i \in DOMAIN b : b[i] \in Events
    OBVIOUS
  <2>1. \A i \in DOMAIN b : b[i].version \in Nat
    BY <2>0 DEF Events
  <2>2. Noted(config, next, b)
    BY <1>1, <1>v, <2>1 DEF Noted
  <2>3. ASSUME NEW i \in DOMAIN b, NEW j \in DOMAIN found, b[i].file = found[j].file
        PROVE  b[i].version < found[j].version
    <3>1. b[i].version <= snapshot[found[j].file].version
      BY <1>1, <2>3 DEF Noted
    <3>. QED
      BY <1>v, <2>1, <3>1
  <2>. QED
    BY <2>2, <2>3, OlderIf
<1>2. \A j \in DOMAIN queue : Noted(config, next, queue[j]) /\ Older(queue[j], found)
  BY <1>0, <1>1, <1>t DEF Sound
<1>3. \A r \in active : Noted(config, next, r.events) /\ Older(r.events, found)
  BY <1>0, <1>1, <1>t DEF Sound
<1>4. Fresh(config, next, found)
  BY DEF Fresh
<1>5. Ordered(queue, active, found)
  BY <1>0, <1>2, <1>3 DEF Sound, Ordered
<1>6. Newer(config, next, queue, found)
  <2>. SUFFICES ASSUME config.each, NEW j \in DOMAIN queue, NEW i \in DOMAIN queue[j],
                       ~ LastFound(found, queue[j][i].file), ~ Len(found) >= config.depth
                PROVE  LastWaits(next, queue, queue[j][i].file)
    BY DEF Newer
  <2>1. Noted(config, snapshot, queue[j])
    BY <1>0 DEF Sound
  <2>2. queue[j][i].file \in config.files
    BY <2>1 DEF Noted
  <2>3. next[queue[j][i].file] = snapshot[queue[j][i].file]
    BY <2>2
  <2>4. ~ LastFound(<<>>, queue[j][i].file)
    BY DEF LastFound
  <2>5. ~ Len(<<>>) >= config.depth
    <3>1. Len(queue) <= config.depth /\ Len(queue) \in Nat /\ DOMAIN queue = 1 .. Len(queue)
      BY <1>t DEF Good
    <3>2. config.depth \in Nat
      BY ConfigFields DEF Typed
    <3>. QED
      BY <3>1, <3>2
  <2>6. LastWaits(snapshot, queue, queue[j][i].file)
    BY <2>4, <2>5 DEF Good, Newer
  <2>. QED
    BY <2>3, <2>6 DEF LastWaits
<1>. QED
  BY <1>2, <1>3, <1>4, <1>5, <1>6 DEF Good, Sound

-----------------------------------------------------------------------------
(* Runs that start.                                                         *)

NewRuns(o, queue, n) ==
  {[object |-> o, events |-> queue[i], at |-> "running", todo |-> <<>>] : i \in 1 .. n}

LEMMA OlderNotSame ==
  ASSUME NEW b \in Seq(Events), b # <<>>
  PROVE  ~ Older(b, b)
<1>1. 1 \in DOMAIN b /\ b[1] \in Events
  OBVIOUS
<1>2. b[1].version \in Nat
  BY <1>1 DEF Events
<1>. SUFFICES ASSUME Older(b, b) PROVE FALSE
  OBVIOUS
<1>3. b[1].version < b[1].version
  BY <1>1, OlderAt
<1>. QED
  BY <1>2, <1>3

(* The batches of a queue differ, and from the events of every run: as many *)
(* runs start as batches do.                                                *)
LEMMA NewRunsAre ==
  ASSUME NEW config, NEW snapshot, NEW queue, NEW active, NEW found,
         Typed(config, snapshot, queue, active, found),
         Sound(config, snapshot, queue, active, found),
         NEW n \in 0 .. Len(queue), NEW o
  PROVE  /\ IsFiniteSet(NewRuns(o, queue, n))
         /\ Cardinality(NewRuns(o, queue, n)) = n
         /\ \A r \in NewRuns(o, queue, n) :
              /\ r.object = o /\ r.at = "running" /\ r.todo = <<>>
              /\ \E i \in 1 .. n : r.events = queue[i]
              /\ r.events \in Seq(Events)
              /\ r \notin active
<1>0. /\ queue \in Seq(Seq(Events)) /\ DOMAIN queue = 1 .. Len(queue) /\ Len(queue) \in Nat
      /\ n \in Nat /\ 1 .. n \subseteq DOMAIN queue
  BY DEF Typed
<1>1. ASSUME NEW i \in 1 .. n PROVE queue[i] \in Seq(Events) /\ queue[i] # <<>>
  <2>1. i \in DOMAIN queue
    BY <1>0
  <2>2. Noted(config, snapshot, queue[i])
    BY <2>1 DEF Sound
  <2>. QED
    BY <1>0, <2>1, <2>2 DEF Noted
<1>2. ASSUME NEW i \in 1 .. n, NEW j \in 1 .. n, i < j PROVE Older(queue[i], queue[j])
  <2>1. j \in DOMAIN queue /\ i \in 1 .. (j - 1)
    BY <1>0, <1>2
  <2>. QED
    BY <2>1 DEF Sound, Ordered
<1>3. \A i, j \in 1 .. n : queue[i] = queue[j] => i = j
  <2>1. ASSUME NEW i \in 1 .. n, NEW j \in 1 .. n, queue[i] = queue[j], i < j PROVE FALSE
    BY <1>1, <1>2, <2>1, OlderNotSame
  <2>. QED
    BY <1>0, <2>1
<1>4. ASSUME NEW i \in 1 .. n, NEW r \in active, r.events = queue[i] PROVE FALSE
  <2>1. Older(r.events, queue[i])
    BY <1>0 DEF Sound, Ordered
  <2>. QED
    BY <1>1, <1>4, <2>1, OlderNotSame
<1>. DEFINE run(i) == [object |-> o, events |-> queue[i], at |-> "running", todo |-> <<>>]
            new == NewRuns(o, queue, n)
            f == [i \in 1 .. n |-> run(i)]
<1>5. new = {run(i) : i \in 1 .. n}
  BY DEF NewRuns
<1>6. /\ \A i, j \in 1 .. n : run(i) = run(j) => queue[i] = queue[j]
      /\ \A i \in 1 .. n : run(i).object = o /\ run(i).at = "running" /\ run(i).todo = <<>>
                           /\ run(i).events = queue[i]
  OBVIOUS
<1>. HIDE DEF run, new
<1>7. f \in [1 .. n -> new] /\ \A i, j \in 1 .. n : f[i] = f[j] => i = j
  BY <1>3, <1>5, <1>6
<1>8. \A r \in new : \E i \in 1 .. n : f[i] = r
  BY <1>5
<1>9. f \in Surjection(1 .. n, new) /\ f \in Injection(1 .. n, new)
  BY <1>7, <1>8 DEF Surjection, Injection, IsInjective
<1>10. IsFiniteSet(1 .. n) /\ Cardinality(1 .. n) = n
  BY <1>0, FS_Interval
<1>11. IsFiniteSet(new) /\ Cardinality(new) = n
  BY <1>9, <1>10, FS_Surjection
<1>12. ASSUME NEW r \in new
       PROVE  /\ r.object = o /\ r.at = "running" /\ r.todo = <<>>
              /\ \E i \in 1 .. n : r.events = queue[i]
              /\ r.events \in Seq(Events)
              /\ r \notin active
  BY <1>1, <1>4, <1>5, <1>6
<1>. QED
  BY <1>11, <1>12 DEF new

-----------------------------------------------------------------------------
(* The variables.                                                           *)

WatchedOK ==
  /\ watched \in Seq(ToSet(watched))
  /\ \A o \in Objects : \E c \in Configs : watched[o] \in WatchedWorkflow(c)
PollOK == workflows \in Seq(Objects) /\ poll \in PollThread /\ runs \subseteq RunThread
RequestOK(q) ==
  \/ q \in RequestThread({"idle", "syncing", "removing"}, {0}, NoWatch, {<<>>})
  \/ \E c \in Configs :
       \/ q \in RequestThread({"checking", "scanning"}, Workflows, c, {<<>>})
       \/ q \in RequestThread({"adding"}, Workflows, c, [c.files -> Stats])
RequestsOK == DOMAIN requests = Requests /\ \A s \in Requests : RequestOK(requests[s])
FilesOK == disk \in [Files -> Stats] /\ defs \in [Workflows -> Configs \cup {NoWatch}]

LEMMA TypeParts ==
  TypeOK <=> FilesOK /\ WatchedOK /\ PollOK /\ RequestsOK /\ globalRunning \in Nat
BY DEF TypeOK, FilesOK, WatchedOK, PollOK, RequestsOK, RequestOK

LEMMA InvParts ==
  ASSUME FilesOK', WatchedOK', PollOK', RequestsOK', globalRunning' \in Nat, Threads', Known',
         Limited', \A o \in Objects' : GoodObject(o)' /\ CountedObject(o)'
  PROVE  WatchInv'
<1>1. TypeOK'
  BY DEF TypeOK, FilesOK, WatchedOK, PollOK, RequestsOK, RequestOK
<1>. QED
  BY <1>1 DEF WatchInv

LEMMA RecordFields ==
  ASSUME NEW c \in Configs, NEW w \in WatchedWorkflow(c)
  PROVE  /\ w.config = c /\ w.workflow \in Workflows
         /\ w.snapshot \in [c.files -> Stats] /\ w.queue \in Seq(Seq(Events))
         /\ w.running \in Nat /\ w.recent \in BOOLEAN
BY DEF WatchedWorkflow

LEMMA ObjectFields ==
  ASSUME WatchedOK, NEW o \in Objects
  PROVE  /\ watched[o].config \in Configs
         /\ watched[o] \in WatchedWorkflow(watched[o].config)
         /\ watched[o].workflow \in Workflows
         /\ watched[o].snapshot \in [watched[o].config.files -> Stats]
         /\ watched[o].queue \in Seq(Seq(Events))
         /\ watched[o].running \in Nat /\ watched[o].recent \in BOOLEAN
BY RecordFields DEF WatchedOK

LEMMA ObjectsAre ==
  ASSUME WatchedOK
  PROVE  Objects = 1 .. Len(watched) /\ Len(watched) \in Nat
BY DEF WatchedOK, Objects

LEMMA RunFields ==
  ASSUME PollOK, NEW r \in runs
  PROVE  r.object \in Objects /\ r.events \in Seq(Events) /\ r.todo \in Seq(Objects)
BY DEF PollOK, RunThread

LEMMA PollFields ==
  ASSUME PollOK
  PROVE  /\ poll.at \in {"scanning", "queueing", "starting"} /\ poll.todo \in Seq(Objects)
         /\ poll.object \in Objects \cup {0} /\ poll.events \in Seq(Events)
         /\ poll.trigger \in BOOLEAN
BY DEF PollOK, PollThread

LEMMA ObjectTyped ==
  ASSUME WatchedOK, PollOK, NEW o \in Objects
  PROVE  Typed(watched[o].config, watched[o].snapshot, watched[o].queue, Running(o), Found(o))
<1>1. \A r \in Running(o) : r.events \in Seq(Events)
  BY RunFields DEF Running
<1>2. Found(o) \in Seq(Events)
  BY PollFields DEF Found
<1>. QED
  BY <1>1, <1>2, ObjectFields DEF Typed

(* One registration is written.                                             *)
LEMMA Updated ==
  ASSUME WatchedOK, NEW o \in Objects, NEW w \in WatchedWorkflow(watched[o].config),
         watched' = [watched EXCEPT ![o] = w]
  PROVE  /\ Objects' = Objects /\ WatchedOK'
         /\ watched'[o] = w
         /\ \A p \in Objects : p # o => watched'[p] = watched[p]
<1>1. Objects' = Objects /\ watched'[o] = w /\ \A p \in Objects : p # o => watched'[p] = watched[p]
  BY DEF Objects
<1>2. \A p \in Objects' : watched'[p] \in ToSet(watched')
  BY <1>1 DEF ToSet, Objects
<1>3. watched' = [p \in 1 .. Len(watched) |-> watched'[p]] /\ Len(watched) \in Nat
  BY <1>1, ObjectsAre DEF Objects
<1>4. watched' \in Seq(ToSet(watched'))
  <2>1. watched' \in [1 .. Len(watched) -> ToSet(watched')]
    BY <1>1, <1>2, <1>3, ObjectsAre
  <2>. QED
    BY <1>3, <2>1, IsASequence
<1>5. watched[o].config \in Configs
  BY ObjectFields
<1>6. \A p \in Objects : \E c \in Configs : watched'[p] \in WatchedWorkflow(c)
  BY <1>1, <1>5 DEF WatchedOK
<1>. QED
  BY <1>1, <1>4, <1>6 DEF WatchedOK

(* Nothing is said of a registration that a step does not touch.            *)
LEMMA ObjectStays ==
  ASSUME NEW o, GoodObject(o), CountedObject(o),
         watched'[o] = watched[o], Running(o)' = Running(o), Found(o)' = Found(o),
         Registered(o)' => Registered(o)
  PROVE  GoodObject(o)' /\ CountedObject(o)'
BY DEF GoodObject, CountedObject, Counted

(* The threads of a set that run a workflow.                                *)
RunningOf(threads) == {r \in threads : r.at = "running"}

LEMMA RoomIs ==
  ASSUME WatchedOK, globalRunning \in Nat, NEW o \in Objects
  PROVE  /\ Room(o) \in 0 .. Len(watched[o].queue)
         /\ watched[o].running <= Concurrency(watched[o].config) =>
              watched[o].running + Room(o) <= Concurrency(watched[o].config)
         /\ globalRunning <= GlobalLimit => globalRunning + Room(o) <= GlobalLimit
<1>1. /\ Len(watched[o].queue) \in Nat /\ watched[o].running \in Nat
      /\ watched[o].config \in Configs
  BY ObjectFields
<1>2. Concurrency(watched[o].config) \in Nat
  BY <1>1, ConfigFields DEF Concurrency
<1>3. GlobalLimit \in Nat
  BY NumbersAssumption
<1>4. ASSUME NEW l \in Nat, NEW c \in Nat, NEW r \in Nat, NEW g \in Nat, NEW h \in Nat
      PROVE  LET room == Least(l, Least(Minus(c, r), Minus(g, h)))
             IN  /\ room \in 0 .. l
                 /\ r <= c => r + room <= c
                 /\ h <= g => h + room <= g
  BY DEF Least, Minus
<1>. QED
  BY <1>1, <1>2, <1>3, <1>4 DEF Room

LEMMA DisjointUnion ==
  ASSUME NEW S, NEW T, IsFiniteSet(S), IsFiniteSet(T), \A x \in T : x \notin S
  PROVE  /\ IsFiniteSet(S \cup T)
         /\ Cardinality(S \cup T) = Cardinality(S) + Cardinality(T)
         /\ Cardinality(S) \in Nat /\ Cardinality(T) \in Nat
<1>1. S \cap T = {}
  OBVIOUS
<1>2. /\ IsFiniteSet(S \cup T)
      /\ Cardinality(S \cup T) = Cardinality(S) + Cardinality(T) - Cardinality({})
  BY <1>1, FS_Union
<1>3. Cardinality({}) = 0 /\ Cardinality(S) \in Nat /\ Cardinality(T) \in Nat
  BY FS_CardinalityType, FS_EmptySet
<1>. QED
  BY <1>2, <1>3

Written(w, queue, running) == [w EXCEPT !.queue = queue, !.running = running]

(* What _start_queued_runs does, called by the poll thread or by a run.     *)
LEMMA Starting ==
  ASSUME WatchedOK, PollOK, globalRunning \in Nat, Limited,
         \A p \in Objects : GoodObject(p) /\ CountedObject(p),
         NEW o \in Objects, NEW others \in SUBSET RunThread, RunningOf(others) = Active,
         StartQueuedRuns(o, others), workflows' = workflows,
         \A p \in Objects : Found(p)' = Found(p)
  PROVE  /\ WatchedOK' /\ Objects' = Objects
         /\ \A p \in Objects : /\ watched'[p].config = watched[p].config
                               /\ watched'[p].snapshot = watched[p].snapshot
         /\ runs' \subseteq RunThread
         /\ \A r \in runs' : r \in others \/ r.at = "running"
         /\ globalRunning' \in Nat /\ Limited'
         /\ \A p \in Objects : GoodObject(p)' /\ CountedObject(p)'
<1>. DEFINE w == watched[o]
            n == Room(o)
            rest == SubSeq(w.queue, n + 1, Len(w.queue))
            new == NewRuns(o, w.queue, n)
            count == w.running + n
            x == Written(w, rest, count)
<1>0. Typed(w.config, w.snapshot, w.queue, Running(o), Found(o))
  BY ObjectTyped
<1>1. Good(w.config, w.snapshot, w.queue, Running(o), Found(o))
  BY DEF GoodObject
<1>2. Sound(w.config, w.snapshot, w.queue, Running(o), Found(o))
  BY <1>1 DEF Good
<1>3. /\ w.config \in Configs /\ w \in WatchedWorkflow(w.config)
      /\ w.queue \in Seq(Seq(Events)) /\ w.running \in Nat
  BY ObjectFields
<1>4. n \in 0 .. Len(w.queue) /\ n \in Nat
  <2>1. n \in 0 .. Len(w.queue)
    BY RoomIs
  <2>. QED
    BY <1>3, <2>1
<1>5. /\ w.running + n <= Concurrency(w.config) /\ w.running \in Nat
      /\ globalRunning + n <= GlobalLimit
      /\ Cardinality(Running(o)) <= w.running /\ IsFiniteSet(Running(o))
      /\ Registered(o) => Cardinality(Running(o)) = w.running
  BY <1>3, RoomIs DEF CountedObject, Counted, Limited
<1>6. /\ runs' = others \cup new /\ globalRunning' = globalRunning + n
      /\ watched' = [watched EXCEPT ![o].queue = SubSeq(@, n + 1, Len(@)), ![o].running = @ + n]
  BY DEF StartQueuedRuns, NewRuns
<1>7. /\ IsFiniteSet(new) /\ Cardinality(new) = n
      /\ \A r \in new :
           /\ r.object = o /\ r.at = "running" /\ r.todo = <<>>
           /\ \E i \in 1 .. n : r.events = w.queue[i]
           /\ r.events \in Seq(Events)
           /\ r \notin Running(o)
  BY <1>0, <1>2, <1>4, NewRunsAre
<1>8. rest \in Seq(Seq(Events))
  BY <1>3, <1>4, Without
<1>9. x \in WatchedWorkflow(w.config) /\ x.config = w.config /\ x.snapshot = w.snapshot
      /\ x.queue = rest /\ x.running = w.running + n
  <2>1. count \in Nat /\ count = w.running + n
    BY <1>3, <1>4
  <2>. HIDE DEF w, n, rest, count
  <2>2. /\ x \in WatchedWorkflow(w.config) /\ x.config = w.config
        /\ x.snapshot = w.snapshot /\ x.queue = rest /\ x.running = count
    BY <1>3, <1>8, <2>1 DEF Written, WatchedWorkflow
  <2>. QED
    BY <2>1, <2>2
<1>10. watched' = [watched EXCEPT ![o] = x]
  BY <1>6 DEF Written
<1>11. new \subseteq RunThread
  <2>1. \A i \in 1 .. n : w.queue[i] \in Seq(Events)
    BY <1>3, <1>4
  <2>2. ASSUME NEW b \in Seq(Events)
        PROVE  [object |-> o, events |-> b, at |-> "running", todo |-> <<>>] \in RunThread
    BY DEF RunThread
  <2>. QED
    BY <2>1, <2>2 DEF NewRuns
<1>. HIDE DEF x, new, rest, n
<1>12. /\ Objects' = Objects /\ WatchedOK' /\ watched'[o] = x
       /\ \A p \in Objects : p # o => watched'[p] = watched[p]
  BY <1>9, <1>10, Updated
<1>13. Active' = Active \cup new
  BY <1>6, <1>7 DEF Active, RunningOf
<1>14. Running(o)' = Running(o) \cup new
  BY <1>7, <1>13 DEF Active, Running
<1>15. \A p \in Objects : p # o => Running(p)' = Running(p)
  BY <1>7, <1>13 DEF Active, Running
<1>16. \A p : Registered(p)' = Registered(p)
  BY DEF Registered
<1>17. Limited' /\ globalRunning' \in Nat
  <2>1. \A r \in new : r \notin Active
    BY <1>7 DEF Active, Running
  <2>2. IsFiniteSet(Active \cup new) /\ Cardinality(Active \cup new) = Cardinality(Active) + n
    BY <1>7, <2>1, DisjointUnion DEF Limited
  <2>. QED
    BY <1>4, <1>5, <1>6, <1>13, <2>2 DEF Limited
<1>18. CountedObject(o)'
  <2>2. /\ IsFiniteSet(Running(o) \cup new)
        /\ Cardinality(Running(o) \cup new) = Cardinality(Running(o)) + n
        /\ Cardinality(Running(o)) \in Nat
    BY <1>5, <1>7, DisjointUnion
  <2>3. /\ Cardinality(Running(o)') <= x.running /\ IsFiniteSet(Running(o)')
        /\ x.running <= Concurrency(x.config)
        /\ Registered(o)' => Cardinality(Running(o)') = x.running
    BY <1>4, <1>5, <1>9, <1>14, <1>16, <2>2
  <2>4. Counted(x.config, x.running, Running(o)', Registered(o)')
    BY <2>3 DEF Counted
  <2>. QED
    BY <1>12, <2>4 DEF CountedObject
<1>19. GoodObject(o)'
  <2>1. \A r \in Running(o) \cup new : r \in Running(o) \/ \E i \in 1 .. n : r.events = w.queue[i]
    BY <1>7
  <2>2. Good(w.config, w.snapshot, rest, Running(o) \cup new, Found(o))
    BY <1>0, <1>1, <1>4, <2>1, Drained DEF rest
  <2>. QED
    BY <1>9, <1>12, <1>14, <2>2 DEF GoodObject
<1>20. ASSUME NEW p \in Objects, p # o PROVE GoodObject(p)' /\ CountedObject(p)'
  BY <1>12, <1>15, <1>16, <1>20, ObjectStays
<1>21. runs' \subseteq RunThread /\ \A r \in runs' : r \in others \/ r.at = "running"
  BY <1>6, <1>7, <1>11
<1>22. \A p \in Objects : /\ watched'[p].config = watched[p].config
                          /\ watched'[p].snapshot = watched[p].snapshot
  BY <1>9, <1>12
<1>. QED
  BY <1>12, <1>17, <1>18, <1>19, <1>20, <1>21, <1>22

-----------------------------------------------------------------------------
(* Files and requests.                                                      *)

(* What a step keeps that touches neither registrations nor their threads.  *)
LEMMA Untouched ==
  ASSUME WatchInv, UNCHANGED <<watched, workflows, globalRunning, poll, runs>>
  PROVE  /\ WatchedOK' /\ PollOK' /\ globalRunning' \in Nat /\ Objects' = Objects
         /\ Threads' /\ Limited'
         /\ \A o \in Objects' : GoodObject(o)' /\ CountedObject(o)'
<1>1. WatchedOK' /\ PollOK' /\ globalRunning' \in Nat /\ Objects' = Objects
  BY TypeParts DEF WatchInv, WatchedOK, PollOK, Objects, PollThread, RunThread
<1>2. Threads' /\ Limited'
  BY <1>1 DEF WatchInv, Threads, Limited, Active
<1>3. ASSUME NEW o \in Objects PROVE GoodObject(o)' /\ CountedObject(o)'
  <2>1. /\ watched'[o] = watched[o] /\ Running(o)' = Running(o) /\ Found(o)' = Found(o)
        /\ Registered(o)' = Registered(o)
    BY DEF Running, Found, Registered
  <2>. QED
    BY <2>1, ObjectStays DEF WatchInv
<1>. QED
  BY <1>1, <1>2, <1>3

(* A file changes: every snapshot is older now.                             *)
LEMMA ChangeKeeps ==
  ASSUME WatchInv, NEW f \in Files, NEW present \in BOOLEAN, Change(f, present)
  PROVE  WatchInv'
<1>1. /\ disk \in [Files -> Stats]
      /\ disk' = [disk EXCEPT ![f] = [version |-> disk[f].version + 1, present |-> present]]
  BY TypeParts DEF WatchInv, FilesOK, Change
<1>2. /\ disk' \in [Files -> Stats]
      /\ \A g \in Files : g # f => disk'[g] = disk[g]
      /\ disk'[f].version = disk[f].version + 1 /\ disk[f].version \in Nat
  BY <1>1 DEF Stats
<1>3. ASSUME NEW c \in Configs, NEW snapshot \in [c.files -> Stats], Past(c, snapshot)
      PROVE  Past(c, snapshot)'
  <2>1. \A g \in c.files : g \in Files /\ snapshot[g].version \in Nat
    BY ConfigFields DEF Stats
  <2>2. ASSUME NEW g \in c.files
        PROVE  /\ snapshot[g].version <= disk'[g].version
               /\ snapshot[g].version = disk'[g].version => snapshot[g] = disk'[g]
    <3>1. snapshot[g].version <= disk[g].version
      BY <1>3 DEF Past
    <3>2. CASE g = f
      BY <1>2, <2>1, <3>1, <3>2
    <3>3. CASE g # f
      BY <1>2, <1>3, <2>1, <3>3 DEF Past
    <3>. QED
      BY <3>2, <3>3
  <2>. QED
    BY <2>2 DEF Past
<1>4. /\ WatchedOK' /\ PollOK' /\ globalRunning' \in Nat /\ Objects' = Objects
      /\ Threads' /\ Limited'
      /\ \A o \in Objects' : GoodObject(o)' /\ CountedObject(o)'
  BY Untouched DEF Change
<1>5. FilesOK' /\ RequestsOK'
  BY <1>2, TypeParts DEF WatchInv, Change, FilesOK, RequestsOK
<1>6. ASSUME NEW o \in Objects PROVE Past(watched[o].config, watched[o].snapshot)'
  <2>1. Past(watched[o].config, watched[o].snapshot)
    BY DEF WatchInv, Known
  <2>2. watched' = watched
    BY DEF Change
  <2>. QED
    BY <1>3, <2>1, <2>2, ObjectFields, TypeParts DEF WatchInv
<1>7. ASSUME NEW s \in Requests, requests[s].at = "adding"
      PROVE  Past(requests[s].config, requests[s].snapshot)'
  <2>1. Past(requests[s].config, requests[s].snapshot)
    BY <1>7 DEF WatchInv, Known
  <2>2. requests' = requests
    BY DEF Change
  <2>3. RequestOK(requests[s])
    BY TypeParts DEF WatchInv, RequestsOK
  <2>4. requests[s].config \in Configs /\ requests[s].snapshot \in [requests[s].config.files -> Stats]
    BY <1>7, <2>3 DEF RequestOK, RequestThread
  <2>. QED
    BY <1>3, <2>1, <2>2, <2>4
<1>8. Known'
  BY <1>4, <1>6, <1>7 DEF Known, Change
<1>. QED
  BY <1>4, <1>5, <1>8, InvParts

(* A request goes on.                                                       *)
LEMMA RequestTurns ==
  ASSUME WatchInv, NEW s \in Requests, NEW q, RequestOK(q),
         q.at = "adding" => Past(q.config, q.snapshot),
         requests' = [requests EXCEPT ![s] = q], disk' = disk
  PROVE  /\ RequestsOK'
         /\ \A t \in Requests :
              requests'[t].at = "adding" => Past(requests[t].config, requests[t].snapshot)'
<1>1. DOMAIN requests = Requests /\ \A t \in Requests : RequestOK(requests[t])
  BY TypeParts DEF WatchInv, RequestsOK
<1>2. requests'[s] = q /\ \A t \in Requests : t # s => requests'[t] = requests[t]
  BY <1>1
<1>3. RequestsOK'
  BY <1>1, <1>2 DEF RequestsOK
<1>4. \A t \in Requests :
        requests[t].at = "adding" => Past(requests[t].config, requests[t].snapshot)
  BY DEF WatchInv, Known
<1>5. ASSUME NEW c, NEW snapshot, Past(c, snapshot)
      PROVE  Past(c, snapshot)'
  BY <1>5 DEF Past
<1>6. ASSUME NEW t \in Requests, requests'[t].at = "adding"
      PROVE  Past(requests[t].config, requests[t].snapshot)'
  BY <1>2, <1>4, <1>5, <1>6
<1>. QED
  BY <1>3, <1>6

LEMMA RequestKeeps ==
  ASSUME WatchInv, NEW s \in Requests, NEW q, RequestOK(q),
         q.at = "adding" => Past(q.config, q.snapshot),
         requests' = [requests EXCEPT ![s] = q],
         UNCHANGED <<disk, watched, workflows, globalRunning, poll, runs>>,
         defs' \in [Workflows -> Configs \cup {NoWatch}]
  PROVE  WatchInv'
<1>1. /\ WatchedOK' /\ PollOK' /\ globalRunning' \in Nat /\ Objects' = Objects
      /\ Threads' /\ Limited'
      /\ \A o \in Objects' : GoodObject(o)' /\ CountedObject(o)'
  BY Untouched
<1>2. FilesOK'
  BY TypeParts DEF WatchInv, FilesOK
<1>3. /\ RequestsOK'
      /\ \A t \in Requests :
           requests'[t].at = "adding" => Past(requests[t].config, requests[t].snapshot)'
  BY RequestTurns
<1>4. \A o \in Objects' : Past(watched[o].config, watched[o].snapshot)'
  BY <1>1 DEF WatchInv, Known, Past
<1>5. Known'
  BY <1>3, <1>4 DEF Known
<1>. QED
  BY <1>1, <1>2, <1>3, <1>5, InvParts

(* The forms a request takes.                                               *)
LEMMA RequestFields ==
  ASSUME WatchInv, NEW s \in Requests
  PROVE  /\ requests[s].todo \in Seq(Workflows) /\ requests[s].active \subseteq Workflows
         /\ requests[s].at \in {"checking", "scanning", "adding"} =>
              requests[s].workflow \in Workflows /\ requests[s].config \in Configs
         /\ requests[s].at = "adding" =>
              /\ requests[s].snapshot \in [requests[s].config.files -> Stats]
              /\ Past(requests[s].config, requests[s].snapshot)
<1>1. RequestOK(requests[s])
  BY TypeParts DEF WatchInv, RequestsOK
<1>2. requests[s].at = "adding" => Past(requests[s].config, requests[s].snapshot)
  BY DEF WatchInv, Known
<1>. QED
  BY <1>1, <1>2 DEF RequestOK, RequestThread

(* The same as sets of records.                                             *)
Waiting == RequestThread({"idle", "syncing", "removing"}, {0}, NoWatch, {<<>>})
Checking(c) == RequestThread({"checking", "scanning"}, Workflows, c, {<<>>})
Adding(c) == RequestThread({"adding"}, Workflows, c, [c.files -> Stats])

LEMMA RequestForms ==
  ASSUME WatchInv, NEW s \in Requests
  PROVE  /\ RequestOK(requests[s])
         /\ requests[s].at \in {"idle", "syncing", "removing"} => requests[s] \in Waiting
         /\ requests[s].at \in {"checking", "scanning"} =>
              requests[s].config \in Configs /\ requests[s] \in Checking(requests[s].config)
<1>1. RequestOK(requests[s])
  BY TypeParts DEF WatchInv, RequestsOK
<1>. QED
  BY <1>1 DEF RequestOK, RequestThread, Waiting, Checking

LEMMA FormsAre ==
  /\ \A q \in Waiting : RequestOK(q) /\ q.at # "adding"
  /\ \A c \in Configs : \A q \in Checking(c) : RequestOK(q) /\ q.at # "adding"
  /\ \A c \in Configs : \A q \in Adding(c) : RequestOK(q) /\ q.config = c
<1>1. ASSUME NEW q \in Waiting PROVE RequestOK(q) /\ q.at # "adding"
  BY DEF Waiting, RequestOK, RequestThread
<1>2. ASSUME NEW c \in Configs, NEW q \in Checking(c) PROVE RequestOK(q) /\ q.at # "adding"
  BY DEF Checking, RequestOK, RequestThread
<1>3. ASSUME NEW c \in Configs, NEW q \in Adding(c) PROVE RequestOK(q) /\ q.config = c
  BY DEF Adding, RequestOK, RequestThread
<1>. QED
  BY <1>1, <1>2, <1>3

LEMMA OnwardsIs ==
  ASSUME NEW q, NEW active \in SUBSET Workflows, q.todo \in Seq(Workflows)
  PROVE  RequestOK(Onwards(q, active)) /\ Onwards(q, active).at # "adding"
<1>1. Idle \in Waiting
  BY DEF Idle, Waiting, RequestThread
<1>2. Onwards(q, active) \in Waiting
  BY <1>1 DEF Onwards, Waiting, RequestThread
<1>. QED
  BY <1>2, FormsAre

LEMMA DefsAre ==
  ASSUME WatchInv
  PROVE  disk \in [Files -> Stats] /\ defs \in [Workflows -> Configs \cup {NoWatch}]
BY TypeParts DEF WatchInv, FilesOK

LEMMA RequestBeginsKeeps ==
  ASSUME WatchInv, NEW s \in Requests, NEW edit \in Edits, RequestBegins(s, edit[1], edit[2])
  PROVE  WatchInv'
<1>. DEFINE todo == [i \in Workflows |-> i]
            q == [Idle EXCEPT !.at = "syncing", !.todo = todo]
<1>1. todo \in Seq(Workflows)
  BY NumbersAssumption, IsASequence DEF Workflows
<1>. HIDE DEF todo
<1>2. Idle \in Waiting
  BY DEF Idle, Waiting, RequestThread
<1>3. q \in Waiting
  BY <1>1, <1>2 DEF Waiting, RequestThread
<1>4. requests' = [requests EXCEPT ![s] = q]
  BY DEF RequestBegins, todo
<1>5. defs' \in [Workflows -> Configs \cup {NoWatch}]
  <2>1. edit[1] \in Workflows /\ edit[2] \in Configs \cup {NoWatch}
    BY StartedAssumption DEF Workflows
  <2>. QED
    BY <2>1, DefsAre DEF RequestBegins
<1>. HIDE DEF q
<1>. QED
  BY <1>3, <1>4, <1>5, FormsAre, RequestKeeps DEF RequestBegins

LEMMA SyncReadsKeeps ==
  ASSUME WatchInv, NEW s \in Requests, SyncReads(s)
  PROVE  WatchInv'
<1>. DEFINE p == requests[s]
            w == Head(p.todo)
            next == [p EXCEPT !.todo = Tail(@)]
            q == [next EXCEPT !.at = "checking", !.workflow = w, !.config = defs[w]]
<1>0. p.at = "syncing" /\ p.todo \in Seq(Workflows) /\ p.todo # <<>>
  BY RequestFields DEF SyncReads
<1>1. w \in Workflows /\ Tail(p.todo) \in Seq(Workflows)
  BY <1>0
<1>2. next \in Waiting
  <2>1. p \in Waiting
    BY <1>0, RequestForms
  <2>. QED
    BY <1>1, <2>1 DEF Waiting, RequestThread
<1>. HIDE DEF next
<1>3. CASE defs[w] = NoWatch
  <2>1. requests' = [requests EXCEPT ![s] = next]
    BY <1>3 DEF SyncReads, next
  <2>. QED
    BY <1>2, <2>1, FormsAre, DefsAre, RequestKeeps DEF SyncReads
<1>4. CASE defs[w] # NoWatch
  <2>1. requests' = [requests EXCEPT ![s] = q]
    BY <1>4 DEF SyncReads, next
  <2>2. defs[w] \in Configs
    BY <1>1, <1>4, DefsAre
  <2>3. q \in Checking(defs[w])
    BY <1>1, <1>2 DEF Waiting, Checking, RequestThread
  <2>. HIDE DEF q
  <2>. QED
    BY <2>1, <2>2, <2>3, FormsAre, DefsAre, RequestKeeps DEF SyncReads
<1>. QED
  BY <1>3, <1>4

LEMMA AddChecksKeeps ==
  ASSUME WatchInv, NEW s \in Requests, AddChecks(s)
  PROVE  WatchInv'
<1>. DEFINE p == requests[s]
            q == [p EXCEPT !.at = "scanning"]
<1>0. /\ p.at = "checking" /\ p.todo \in Seq(Workflows) /\ p.active \subseteq Workflows
      /\ p.workflow \in Workflows /\ p.config \in Configs
  BY RequestFields DEF AddChecks
<1>1. defs' \in [Workflows -> Configs \cup {NoWatch}]
  BY DefsAre DEF AddChecks
<1>2. p.active \cup {p.workflow} \in SUBSET Workflows
  BY <1>0
<1>3. CASE requests' = [requests EXCEPT ![s] = Onwards(p, p.active \cup {p.workflow})]
  BY <1>0, <1>1, <1>2, <1>3, OnwardsIs, RequestKeeps DEF AddChecks
<1>4. CASE requests' = [requests EXCEPT ![s] = q]
  <2>1. q \in Checking(p.config)
    <3>1. p \in Checking(p.config)
      BY <1>0, RequestForms
    <3>. QED
      BY <3>1 DEF Checking, RequestThread
  <2>. HIDE DEF q
  <2>. QED
    BY <1>0, <1>1, <1>4, <2>1, FormsAre, RequestKeeps DEF AddChecks
<1>. QED
  BY <1>3, <1>4 DEF AddChecks

LEMMA AddScansKeeps ==
  ASSUME WatchInv, NEW s \in Requests, AddScans(s)
  PROVE  WatchInv'
<1>. DEFINE p == requests[s]
            snapshot == Snapshot(p.config)
            q == [p EXCEPT !.at = "adding", !.snapshot = snapshot]
<1>0. p.at = "scanning" /\ p.config \in Configs
  BY RequestFields DEF AddScans
<1>1. snapshot \in [p.config.files -> Stats] /\ Past(p.config, snapshot)
  <2>1. \A f \in p.config.files : f \in Files /\ disk[f] \in Stats
    BY <1>0, DefsAre, ConfigFields
  <2>2. \A f \in p.config.files : disk[f].version \in Nat
    BY <2>1 DEF Stats
  <2>. QED
    BY <2>1, <2>2 DEF Snapshot, Past
<1>2. requests' = [requests EXCEPT ![s] = q]
  BY DEF AddScans
<1>. HIDE DEF snapshot
<1>3. q \in Adding(p.config) /\ q.snapshot = snapshot
  <2>1. p \in Checking(p.config)
    BY <1>0, RequestForms
  <2>. QED
    BY <1>1, <2>1 DEF Checking, Adding, RequestThread
<1>. HIDE DEF q
<1>4. RequestOK(q) /\ Past(q.config, q.snapshot)
  BY <1>0, <1>1, <1>3, FormsAre
<1>. QED
  BY <1>2, <1>4, DefsAre, RequestKeeps DEF AddScans

LEMMA AddScanFailsKeeps ==
  ASSUME WatchInv, NEW s \in Requests, AddScanFails(s)
  PROVE  WatchInv'
<1>1. requests' = [requests EXCEPT ![s] = Onwards(requests[s], requests[s].active)]
  BY DEF AddScanFails
<1>2. /\ RequestOK(Onwards(requests[s], requests[s].active))
      /\ Onwards(requests[s], requests[s].active).at # "adding"
  BY RequestFields, OnwardsIs
<1>. QED
  BY <1>1, <1>2, DefsAre, RequestKeeps DEF AddScanFails

LEMMA SyncListsKeeps ==
  ASSUME WatchInv, NEW s \in Requests, SyncLists(s)
  PROVE  WatchInv'
<1>. DEFINE p == requests[s]
            todo == ListWorkflows
            q == [p EXCEPT !.at = "removing", !.todo = todo]
<1>1. todo \in Seq(Workflows)
  <2>1. workflows \in Seq(Objects) /\ WatchedOK
    BY TypeParts DEF WatchInv, PollOK
  <2>2. \A i \in DOMAIN workflows : watched[workflows[i]].workflow \in Workflows
    BY <2>1, ObjectFields
  <2>3. Len(workflows) \in Nat /\ DOMAIN workflows = 1 .. Len(workflows)
    BY <2>1
  <2>4. ListWorkflows \in [1 .. Len(workflows) -> Workflows]
    BY <2>2, <2>3 DEF ListWorkflows
  <2>. QED
    BY <2>3, <2>4, IsASequence
<1>2. requests' = [requests EXCEPT ![s] = q]
  BY DEF SyncLists
<1>. HIDE DEF todo
<1>3. q \in Waiting
  <2>1. p \in Waiting
    BY RequestForms DEF SyncLists
  <2>. QED
    BY <1>1, <2>1 DEF Waiting, RequestThread
<1>. HIDE DEF q
<1>. QED
  BY <1>2, <1>3, FormsAre, DefsAre, RequestKeeps DEF SyncLists

-----------------------------------------------------------------------------
(* The poll thread and the runs.                                            *)

(* What a step keeps that changes neither files, requests nor snapshots.    *)
LEMMA FilesStay ==
  ASSUME WatchInv, UNCHANGED <<disk, defs, requests>>, Objects' = Objects,
         \A p \in Objects : /\ watched'[p].config = watched[p].config
                            /\ watched'[p].snapshot = watched[p].snapshot
  PROVE  FilesOK' /\ RequestsOK' /\ Known'
<1>1. FilesOK' /\ RequestsOK'
  BY TypeParts DEF WatchInv, FilesOK, RequestsOK
<1>2. Known'
  BY DEF WatchInv, Known, Past
<1>. QED
  BY <1>1, <1>2

LEMMA TypesAre ==
  ASSUME WatchInv
  PROVE  FilesOK /\ WatchedOK /\ PollOK /\ RequestsOK /\ globalRunning \in Nat
BY TypeParts DEF WatchInv

(* The debounce of a registration is no matter of the invariant.            *)
LEMMA SettleKeeps ==
  ASSUME WatchInv, NEW o \in Objects, Settle(o)
  PROVE  WatchInv'
<1>. DEFINE w == watched[o]
            x == [w EXCEPT !.recent = FALSE]
<1>1. w.config \in Configs /\ w \in WatchedWorkflow(w.config)
  BY TypesAre, ObjectFields
<1>2. /\ x \in WatchedWorkflow(w.config) /\ x.config = w.config /\ x.snapshot = w.snapshot
      /\ x.queue = w.queue /\ x.running = w.running
  BY <1>1 DEF WatchedWorkflow
<1>3. watched' = [watched EXCEPT ![o] = x]
  BY DEF Settle
<1>. HIDE DEF x
<1>4. /\ Objects' = Objects /\ WatchedOK' /\ watched'[o] = x
      /\ \A p \in Objects : p # o => watched'[p] = watched[p]
  BY <1>2, <1>3, TypesAre, Updated
<1>5. FilesOK' /\ RequestsOK' /\ Known'
  BY <1>2, <1>4, FilesStay DEF Settle
<1>6. PollOK' /\ globalRunning' \in Nat
  BY <1>4, TypesAre DEF Settle, PollOK, PollThread, RunThread
<1>7. Threads' /\ Limited'
  BY <1>4 DEF Settle, WatchInv, Threads, Limited, Active
<1>8. ASSUME NEW p \in Objects PROVE GoodObject(p)' /\ CountedObject(p)'
  <2>1. Running(p)' = Running(p) /\ Found(p)' = Found(p) /\ Registered(p)' = Registered(p)
    BY DEF Settle, Running, Found, Registered
  <2>2. GoodObject(p) /\ CountedObject(p)
    BY DEF WatchInv
  <2>. QED
    BY <1>2, <1>4, <2>1, <2>2 DEF GoodObject, CountedObject
<1>. QED
  BY <1>4, <1>5, <1>6, <1>7, <1>8, InvParts

(* The poll thread turns to something else.                                 *)
LEMMA PollTurns ==
  ASSUME WatchInv, UNCHANGED <<disk, defs, watched, workflows, globalRunning, runs, requests>>,
         poll' \in PollThread, poll'.at = "scanning", poll.at = "scanning"
  PROVE  WatchInv'
<1>1. Objects' = Objects /\ WatchedOK' /\ PollOK' /\ globalRunning' \in Nat
  BY TypesAre DEF Objects, WatchedOK, PollOK, PollThread, RunThread
<1>2. FilesOK' /\ RequestsOK' /\ Known'
  BY <1>1, FilesStay
<1>3. Threads' /\ Limited'
  BY <1>1 DEF WatchInv, Threads, Limited, Active
<1>4. ASSUME NEW o \in Objects PROVE GoodObject(o)' /\ CountedObject(o)'
  <2>1. /\ watched'[o] = watched[o] /\ Running(o)' = Running(o) /\ Found(o)' = Found(o)
        /\ Registered(o)' = Registered(o)
    BY DEF Running, Found, Registered
  <2>. QED
    BY <2>1, ObjectStays DEF WatchInv
<1>. QED
  BY <1>1, <1>2, <1>3, <1>4, InvParts

LEMMA ScanningIs ==
  ASSUME NEW todo \in Seq(Objects)
  PROVE  /\ [Scanning EXCEPT !.todo = todo] \in PollThread
         /\ [Scanning EXCEPT !.todo = todo].at = "scanning"
         /\ [Scanning EXCEPT !.todo = todo].todo = todo
<1>1. Scanning \in PollThread /\ Scanning.at = "scanning"
  BY DEF Scanning, PollThread
<1>. QED
  BY <1>1 DEF PollThread

LEMMA PollBeginsKeeps ==
  ASSUME WatchInv, PollBegins
  PROVE  WatchInv'
<1>1. workflows \in Seq(Objects)
  BY TypesAre DEF PollOK
<1>2. poll' \in PollThread /\ poll'.at = "scanning"
  BY <1>1, ScanningIs DEF PollBegins
<1>. QED
  BY <1>2, PollTurns DEF PollBegins

LEMMA PollScanFailsKeeps ==
  ASSUME WatchInv, PollScanFails
  PROVE  WatchInv'
<1>1. poll \in PollThread /\ poll.todo \in Seq(Objects) /\ poll.todo # <<>> /\ poll.at = "scanning"
  BY TypesAre, PollFields DEF PollOK, PollScanFails
<1>2. Tail(poll.todo) \in Seq(Objects)
  BY <1>1
<1>3. poll' \in PollThread /\ poll'.at = "scanning"
  BY <1>1, <1>2 DEF PollThread, PollScanFails
<1>. QED
  BY <1>1, <1>3, PollTurns DEF PollScanFails

LEMMA PollStartsKeeps ==
  ASSUME WatchInv, PollStarts
  PROVE  WatchInv'
<1>0. FilesOK /\ WatchedOK /\ PollOK /\ RequestsOK /\ globalRunning \in Nat
  BY TypesAre
<1>1. poll.object \in Objects /\ poll.todo \in Seq(Objects) /\ runs \in SUBSET RunThread
  BY <1>0, PollFields DEF PollStarts, WatchInv, Threads, PollOK
<1>2. RunningOf(runs) = Active
  BY DEF RunningOf, Active
<1>3. poll' = [Scanning EXCEPT !.todo = poll.todo] /\ poll'.at = "scanning"
  BY <1>1, ScanningIs DEF PollStarts
<1>4. \A p \in Objects : Found(p)' = Found(p)
  BY <1>3 DEF PollStarts, Found
<1>5. /\ WatchedOK' /\ Objects' = Objects
      /\ \A p \in Objects : /\ watched'[p].config = watched[p].config
                            /\ watched'[p].snapshot = watched[p].snapshot
      /\ runs' \subseteq RunThread
      /\ \A r \in runs' : r \in runs \/ r.at = "running"
      /\ globalRunning' \in Nat /\ Limited'
      /\ \A p \in Objects : GoodObject(p)' /\ CountedObject(p)'
  BY <1>0, <1>1, <1>2, <1>4, Starting DEF PollStarts, WatchInv
<1>6. FilesOK' /\ RequestsOK' /\ Known'
  BY <1>5, FilesStay DEF PollStarts
<1>7. poll' \in PollThread
  BY <1>1, <1>3, ScanningIs
<1>8. PollOK'
  BY <1>0, <1>5, <1>7 DEF PollOK, PollStarts, PollThread, RunThread
<1>9. Threads'
  BY <1>3, <1>5 DEF WatchInv, Threads
<1>. QED
  BY <1>5, <1>6, <1>8, <1>9, InvParts

LEMMA ThreadIs ==
  ASSUME NEW r \in RunThread, NEW todo \in Seq(Objects), NEW t \in Thread(r, todo)
  PROVE  t \in RunThread /\ t.at = "starting" /\ t.todo # <<>>
<1>1. todo # <<>> /\ t = [r EXCEPT !.at = "starting", !.todo = todo]
  BY DEF Thread
<1>. QED
  BY <1>1 DEF RunThread

LEMMA RunStartsKeeps ==
  ASSUME WatchInv, NEW r \in runs, RunStarts(r)
  PROVE  WatchInv'
<1>. DEFINE o == Head(r.todo)
            others == (runs \ {r}) \cup Thread(r, Tail(r.todo))
<1>0. FilesOK /\ WatchedOK /\ PollOK /\ RequestsOK /\ globalRunning \in Nat
  BY TypesAre
<1>1. /\ r \in RunThread /\ r.at = "starting" /\ r.todo \in Seq(Objects) /\ r.todo # <<>>
      /\ runs \subseteq RunThread
  BY <1>0, RunFields DEF RunStarts, WatchInv, Threads, PollOK
<1>2. o \in Objects /\ Tail(r.todo) \in Seq(Objects)
  BY <1>1
<1>3. \A t \in Thread(r, Tail(r.todo)) : t \in RunThread /\ t.at = "starting" /\ t.todo # <<>>
  BY <1>1, <1>2, ThreadIs
<1>4. others \in SUBSET RunThread /\ RunningOf(others) = Active
  BY <1>1, <1>3 DEF RunningOf, Active
<1>5. \A t \in others : t.at = "starting" => t.todo # <<>>
  BY <1>3 DEF WatchInv, Threads
<1>6. StartQueuedRuns(o, others)
  BY DEF RunStarts
<1>. HIDE DEF o, others
<1>7. \A p \in Objects : Found(p)' = Found(p)
  BY DEF RunStarts, Found
<1>8. /\ WatchedOK' /\ Objects' = Objects
      /\ \A p \in Objects : /\ watched'[p].config = watched[p].config
                            /\ watched'[p].snapshot = watched[p].snapshot
      /\ runs' \subseteq RunThread
      /\ \A t \in runs' : t \in others \/ t.at = "running"
      /\ globalRunning' \in Nat /\ Limited'
      /\ \A p \in Objects : GoodObject(p)' /\ CountedObject(p)'
  BY <1>0, <1>2, <1>4, <1>6, <1>7, Starting DEF RunStarts, WatchInv
<1>9. FilesOK' /\ RequestsOK' /\ Known'
  BY <1>8, FilesStay DEF RunStarts
<1>10. PollOK'
  BY <1>0, <1>8 DEF PollOK, RunStarts, PollThread, RunThread
<1>11. Threads'
  BY <1>5, <1>8 DEF WatchInv, Threads, RunStarts
<1>. QED
  BY <1>8, <1>9, <1>10, <1>11, InvParts

LEMMA RunListsKeeps ==
  ASSUME WatchInv, NEW r \in runs, RunLists(r)
  PROVE  WatchInv'
<1>0. WatchedOK /\ PollOK /\ globalRunning \in Nat
  BY TypesAre
<1>1. r \in RunThread /\ workflows \in Seq(Objects) /\ runs \subseteq RunThread
  BY <1>0 DEF PollOK
<1>2. \A t \in Thread(r, workflows) : t \in RunThread /\ t.at = "starting" /\ t.todo # <<>>
  BY <1>1, ThreadIs
<1>3. runs' = (runs \ {r}) \cup Thread(r, workflows) /\ r.at = "ended"
  BY DEF RunLists
<1>4. Active' = Active
  BY <1>2, <1>3 DEF Active
<1>5. \A o : Running(o)' = Running(o)
  BY <1>4 DEF Active, Running
<1>6. Objects' = Objects /\ WatchedOK' /\ globalRunning' \in Nat
  BY <1>0 DEF RunLists, Objects, WatchedOK
<1>7. PollOK'
  BY <1>0, <1>1, <1>2, <1>3, <1>6 DEF RunLists, PollOK, PollThread, RunThread
<1>8. FilesOK' /\ RequestsOK' /\ Known'
  BY <1>6, FilesStay DEF RunLists
<1>9. Threads' /\ Limited'
  BY <1>2, <1>3, <1>4, <1>6 DEF RunLists, WatchInv, Threads, Limited
<1>10. ASSUME NEW o \in Objects PROVE GoodObject(o)' /\ CountedObject(o)'
  <2>1. watched'[o] = watched[o] /\ Found(o)' = Found(o) /\ Registered(o)' = Registered(o)
    BY DEF RunLists, Found, Registered
  <2>. QED
    BY <1>5, <2>1, ObjectStays DEF WatchInv
<1>. QED
  BY <1>6, <1>7, <1>8, <1>9, <1>10, InvParts

LEMMA OneLess ==
  ASSUME NEW S, NEW x \in S, IsFiniteSet(S)
  PROVE  /\ IsFiniteSet(S \ {x}) /\ Cardinality(S) \in Nat /\ Cardinality(S) >= 1
         /\ Cardinality(S \ {x}) = Cardinality(S) - 1
         /\ Minus(Cardinality(S), 1) = Cardinality(S) - 1
<1>1. IsFiniteSet(S \ {x}) /\ Cardinality(S \ {x}) = Cardinality(S) - 1
  BY FS_RemoveElement
<1>2. Cardinality(S) \in Nat /\ Cardinality(S \ {x}) \in Nat
  BY <1>1, FS_CardinalityType
<1>3. Cardinality(S) >= 1
  BY <1>1, <1>2
<1>4. Minus(Cardinality(S), 1) = Cardinality(S) - 1
  BY <1>2, <1>3 DEF Minus
<1>. QED
  BY <1>1, <1>2, <1>3, <1>4

(* A run is over: its place in the limit of the server is free, and in that *)
(* of its registration if that is in force.                                 *)
LEMMA RunEndsKeeps ==
  ASSUME WatchInv, NEW r \in runs, RunEnds(r)
  PROVE  WatchInv'
<1>. DEFINE o == r.object
            w == watched[o]
            left == IF Registered(o) THEN Minus(w.running, 1) ELSE w.running
            x == [w EXCEPT !.running = left]
            ended == [r EXCEPT !.at = "ended"]
<1>0. FilesOK /\ WatchedOK /\ PollOK /\ RequestsOK /\ globalRunning \in Nat
  BY TypesAre
<1>1. r \in RunThread /\ o \in Objects /\ r.at = "running" /\ runs \subseteq RunThread
  BY <1>0, RunFields DEF RunEnds, PollOK
<1>2. r \in Active /\ r \in Running(o)
  BY <1>1 DEF Active, Running
<1>3. /\ w.config \in Configs /\ w \in WatchedWorkflow(w.config) /\ w.running \in Nat
      /\ w.queue \in Seq(Seq(Events))
  BY <1>0, <1>1, ObjectFields
<1>4. left \in Nat
  BY <1>3 DEF Minus
<1>5. watched' = [watched EXCEPT ![o] = x]
  <2>1. CASE Registered(o)
    BY <2>1 DEF RunEnds
  <2>2. CASE ~ Registered(o)
    <3>1. watched' = watched
      BY <2>2 DEF RunEnds
    <3>2. x = w
      BY <1>3, <2>2 DEF WatchedWorkflow
    <3>3. watched = [p \in 1 .. Len(watched) |-> watched[p]]
      BY <1>0 DEF WatchedOK
    <3>. QED
      BY <1>0, <1>1, <3>1, <3>2, <3>3, ObjectsAre
  <2>. QED
    BY <2>1, <2>2
<1>. HIDE DEF left
<1>6. /\ x \in WatchedWorkflow(w.config) /\ x.config = w.config /\ x.snapshot = w.snapshot
      /\ x.queue = w.queue /\ x.running = left
  BY <1>3, <1>4 DEF WatchedWorkflow
<1>. HIDE DEF x
<1>7. /\ Objects' = Objects /\ WatchedOK' /\ watched'[o] = x
      /\ \A p \in Objects : p # o => watched'[p] = watched[p]
  BY <1>0, <1>1, <1>5, <1>6, Updated
<1>8. ended \in RunThread /\ ended.at = "ended"
  BY <1>1 DEF RunThread
<1>9. \A t \in runs' : (t \in runs /\ t # r) \/ t = ended
  BY DEF RunEnds
<1>10. \A t \in runs : t # r => t \in runs'
  BY DEF RunEnds
<1>. HIDE DEF ended
<1>11. Active' = Active \ {r}
  BY <1>8, <1>9, <1>10 DEF Active
<1>12. Running(o)' = Running(o) \ {r} /\ \A p : p # o => Running(p)' = Running(p)
  BY <1>11 DEF Active, Running
<1>13. \A p : Found(p)' = Found(p) /\ Registered(p)' = Registered(p)
  BY DEF RunEnds, Found, Registered
<1>14. globalRunning' = Minus(globalRunning, 1)
  BY DEF RunEnds, GlobalReleased
<1>15. Limited' /\ globalRunning' \in Nat
  <2>1. IsFiniteSet(Active) /\ globalRunning = Cardinality(Active) /\ globalRunning <= GlobalLimit
    BY DEF WatchInv, Limited
  <2>2. /\ IsFiniteSet(Active \ {r}) /\ Cardinality(Active \ {r}) = globalRunning - 1
        /\ globalRunning >= 1 /\ globalRunning' = globalRunning - 1
    BY <1>2, <1>14, <2>1, OneLess
  <2>3. globalRunning' \in Nat /\ globalRunning' <= GlobalLimit
    BY <1>0, <2>1, <2>2, NumbersAssumption
  <2>. QED
    BY <1>11, <2>2, <2>3 DEF Limited
<1>16. CountedObject(o)'
  <2>1. /\ IsFiniteSet(Running(o)) /\ Cardinality(Running(o)) <= w.running
        /\ w.running <= Concurrency(w.config)
        /\ Registered(o) => Cardinality(Running(o)) = w.running
    BY <1>1 DEF WatchInv, CountedObject, Counted
  <2>2. /\ IsFiniteSet(Running(o) \ {r}) /\ Cardinality(Running(o)) \in Nat
        /\ Cardinality(Running(o)) >= 1
        /\ Cardinality(Running(o) \ {r}) = Cardinality(Running(o)) - 1
    BY <1>2, <2>1, OneLess
  <2>3. Concurrency(w.config) \in Nat
    BY <1>3, ConfigFields DEF Concurrency
  <2>4. CASE Registered(o)
    <3>1. left = w.running - 1
      BY <1>3, <2>1, <2>2, <2>4 DEF left, Minus
    <3>. QED
      BY <1>3, <1>6, <1>7, <1>12, <2>1, <2>2, <2>3, <2>4, <3>1 DEF CountedObject, Counted
  <2>5. CASE ~ Registered(o)
    <3>1. left = w.running
      BY <2>5 DEF left
    <3>2. ~ Registered(o)'
      BY <1>13, <2>5
    <3>. QED
      BY <1>3, <1>6, <1>7, <1>12, <2>1, <2>2, <2>3, <3>1, <3>2 DEF CountedObject, Counted
  <2>. QED
    BY <2>4, <2>5
<1>17. GoodObject(o)'
  <2>1. Typed(w.config, w.snapshot, w.queue, Running(o), Found(o))
    BY <1>0, <1>1, ObjectTyped
  <2>2. Good(w.config, w.snapshot, w.queue, Running(o), Found(o))
    BY <1>1 DEF WatchInv, GoodObject
  <2>3. 0 \in 0 .. Len(w.queue) /\ SubSeq(w.queue, 0 + 1, Len(w.queue)) = w.queue
    BY <1>3
  <2>4. Good(w.config, w.snapshot, SubSeq(w.queue, 0 + 1, Len(w.queue)), Running(o) \ {r}, Found(o))
    BY <2>1, <2>2, <2>3, Drained
  <2>. QED
    BY <1>6, <1>7, <1>12, <1>13, <2>3, <2>4 DEF GoodObject
<1>18. ASSUME NEW p \in Objects, p # o PROVE GoodObject(p)' /\ CountedObject(p)'
  BY <1>7, <1>12, <1>13, <1>18, ObjectStays DEF WatchInv
<1>19. FilesOK' /\ RequestsOK' /\ Known'
  BY <1>6, <1>7, FilesStay DEF RunEnds
<1>20. PollOK'
  <2>1. runs' \subseteq RunThread
    BY <1>1, <1>8, <1>9
  <2>. QED
    BY <1>0, <1>7, <2>1 DEF RunEnds, PollOK, PollThread, RunThread
<1>21. Threads'
  BY <1>7, <1>8, <1>9 DEF RunEnds, WatchInv, Threads
<1>. QED
  BY <1>7, <1>15, <1>16, <1>17, <1>18, <1>19, <1>20, <1>21, InvParts

-----------------------------------------------------------------------------
(* Changes are noticed and queued.                                          *)

(* What is noticed of a file is newer than the snapshot.                    *)
LEMMA NoticedIs ==
  ASSUME WatchInv, NEW o \in Objects
  PROVE  LET w == watched[o] IN
         /\ Noticed(w) \in [w.config.files -> Stats]
         /\ Past(w.config, Noticed(w))
         /\ \A f \in w.config.files :
              /\ \/ Noticed(w)[f] = w.snapshot[f]
                 \/ Noticed(w)[f].version > w.snapshot[f].version
              /\ ~ SameFile(w.snapshot[f], Noticed(w)[f]) =>
                   Noticed(w)[f].version > w.snapshot[f].version
              /\ Noticed(w)[f] # w.snapshot[f] => ~ SameFile(w.snapshot[f], Noticed(w)[f])
<1>. DEFINE w == watched[o]
<1>1. w.config \in Configs /\ w.snapshot \in [w.config.files -> Stats] /\ Past(w.config, w.snapshot)
  BY TypesAre, ObjectFields DEF WatchInv, Known
<1>2. \A f \in w.config.files : f \in Files /\ disk[f] \in Stats /\ w.snapshot[f] \in Stats
  BY <1>1, DefsAre, ConfigFields
<1>3. \A f \in w.config.files : disk[f].version \in Nat /\ w.snapshot[f].version \in Nat
  BY <1>2 DEF Stats
<1>. HIDE DEF w
<1>4. ASSUME NEW f \in w.config.files
      PROVE  /\ Noticed(w)[f] = IF SameFile(w.snapshot[f], disk[f]) THEN w.snapshot[f] ELSE disk[f]
             /\ Noticed(w)[f] \in Stats
             /\ Noticed(w)[f].version <= disk[f].version
             /\ Noticed(w)[f].version = disk[f].version => Noticed(w)[f] = disk[f]
  <2>1. Noticed(w)[f] = IF SameFile(w.snapshot[f], disk[f]) THEN w.snapshot[f] ELSE disk[f]
    BY DEF Noticed
  <2>2. /\ w.snapshot[f].version <= disk[f].version
        /\ w.snapshot[f].version = disk[f].version => w.snapshot[f] = disk[f]
    BY <1>1 DEF Past
  <2>. QED
    BY <1>2, <1>3, <2>1, <2>2
<1>5. ASSUME NEW f \in w.config.files, ~ SameFile(w.snapshot[f], disk[f])
      PROVE  disk[f].version > w.snapshot[f].version
  <2>1. /\ w.snapshot[f].version <= disk[f].version
        /\ w.snapshot[f].version = disk[f].version => w.snapshot[f] = disk[f]
    BY <1>1 DEF Past
  <2>2. w.snapshot[f] # disk[f]
    BY <1>5 DEF SameFile
  <2>. QED
    BY <1>3, <2>1, <2>2
<1>6. Noticed(w) \in [w.config.files -> Stats] /\ Past(w.config, Noticed(w))
  BY <1>4 DEF Noticed, Past
<1>7. ASSUME NEW f \in w.config.files
      PROVE  /\ \/ Noticed(w)[f] = w.snapshot[f]
                \/ Noticed(w)[f].version > w.snapshot[f].version
             /\ ~ SameFile(w.snapshot[f], Noticed(w)[f]) =>
                  Noticed(w)[f].version > w.snapshot[f].version
             /\ Noticed(w)[f] # w.snapshot[f] => ~ SameFile(w.snapshot[f], Noticed(w)[f])
  <2>1. SameFile(w.snapshot[f], w.snapshot[f])
    BY DEF SameFile
  <2>. QED
    BY <1>4, <1>5, <2>1
<1>. QED
  BY <1>6, <1>7 DEF w

LEMMA ChangesAre ==
  ASSUME NEW c \in Configs, NEW before \in [c.files -> Stats], NEW after \in [c.files -> Stats]
  PROVE  /\ IsFiniteSet(Changes(before, after))
         /\ \A e \in Changes(before, after) :
              /\ e \in Events /\ e.file \in c.files
              /\ ~ SameFile(before[e.file], after[e.file])
              /\ e.version = after[e.file].version
         /\ \A e, g \in Changes(before, after) : e.file = g.file => e = g
         /\ \A f \in c.files : ~ SameFile(before[f], after[f]) =>
              \E e \in Changes(before, after) : e.file = f
<1>. DEFINE D == {f \in c.files : ~ SameFile(before[f], after[f])}
            event(f) == [file |-> f, kind |-> Kind(before[f], after[f]), version |-> after[f].version]
            S == Changes(before, after)
            m == [f \in D |-> event(f)]
<1>1. S = {event(f) : f \in D}
  BY DEF Changes
<1>2. D \in SUBSET Files /\ D \subseteq c.files
  BY ConfigFields
<1>3. IsFiniteSet(D)
  BY <1>2, FilesAssumption, FS_Subset
<1>4. \A f \in D : event(f) \in Events /\ event(f).file = f /\ event(f).version = after[f].version
  <2>1. \A f \in D : after[f].version \in Nat /\ f \in Files
    BY <1>2 DEF Stats
  <2>. QED
    BY <2>1 DEF Events, Kind
<1>. HIDE DEF event, S
<1>5. m \in Surjection(D, S)
  BY <1>1 DEF Surjection
<1>6. IsFiniteSet(S)
  BY <1>3, <1>5, FS_Surjection
<1>. QED
  BY <1>1, <1>4, <1>6 DEF S

(* The poll thread keeps the newest of them, or all.                        *)
LEMMA FoundIs ==
  ASSUME NEW S \in SUBSET Events, IsFiniteSet(S), \A e, g \in S : e.file = g.file => e = g,
         NEW events \in SetToSeqs(S), NEW depth \in Nat
  PROVE  /\ Newest(events, depth) \in Seq(Events) /\ Len(Newest(events, depth)) <= depth
         /\ \A i \in DOMAIN Newest(events, depth) : Newest(events, depth)[i] \in S
         /\ \A i, j \in DOMAIN Newest(events, depth) :
              Newest(events, depth)[i].file = Newest(events, depth)[j].file => i = j
         /\ \/ Len(Newest(events, depth)) >= depth
            \/ \A e \in S : \E i \in DOMAIN Newest(events, depth) : Newest(events, depth)[i] = e
<1>1. /\ events \in Seq(S)
      /\ \A i, j \in DOMAIN events : events[i] = events[j] => i = j
      /\ \A e \in S : \E i \in DOMAIN events : events[i] = e
  BY ListsAll
<1>2. events \in Seq(Events) /\ Len(events) \in Nat
  BY <1>1
<1>. DEFINE found == Newest(events, depth)
<1>3. PICK n \in 0 .. Len(events) : found = SubSeq(events, n + 1, Len(events))
  BY <1>2, NewestIs
<1>4. found \in Seq(Events) /\ Len(found) <= depth /\ (Len(events) >= depth => Len(found) = depth)
  BY <1>2, NewestIs
<1>5. \A i \in DOMAIN found : i + n \in DOMAIN events /\ found[i] = events[i + n]
  BY <1>2, <1>3, Without
<1>6. ~ Len(events) > depth => found = events
  BY DEF Newest
<1>. HIDE DEF found
<1>7. \A i \in DOMAIN found : found[i] \in S
  BY <1>1, <1>5
<1>8. ASSUME NEW i \in DOMAIN found, NEW j \in DOMAIN found, found[i].file = found[j].file
      PROVE  i = j
  <2>1. found[i] = found[j]
    BY <1>7, <1>8
  <2>2. i + n = j + n
    BY <1>1, <1>5, <2>1
  <2>. QED
    BY <1>4, <2>2
<1>9. \/ Len(found) >= depth
      \/ \A e \in S : \E i \in DOMAIN found : found[i] = e
  <2>1. CASE Len(events) >= depth
    BY <1>4, <2>1
  <2>2. CASE ~ Len(events) >= depth
    BY <1>1, <1>2, <1>6, <2>2
  <2>. QED
    BY <2>1, <2>2
<1>. QED
  BY <1>4, <1>7, <1>8, <1>9 DEF found

(* A scan: the snapshot is the files as they are, and what changed is found. *)
LEMMA PollScansKeeps ==
  ASSUME WatchInv, PollScans
  PROVE  WatchInv'
<1>o. PICK o : o = Head(poll.todo)
  OBVIOUS
<1>. DEFINE w == watched[o]
            next == Noticed(w)
            changes == Changes(w.snapshot, next)
            recent == w.recent \/ w.config.debounce
            x == [w EXCEPT !.snapshot = next, !.recent = recent]
<1>0. FilesOK /\ WatchedOK /\ PollOK /\ RequestsOK /\ globalRunning \in Nat
  BY TypesAre
<1>1. poll.at = "scanning" /\ poll.todo \in Seq(Objects) /\ poll.todo # <<>>
  BY <1>0, PollFields DEF PollScans
<1>2. o \in Objects /\ Tail(poll.todo) \in Seq(Objects)
  BY <1>o, <1>1
<1>3. /\ w.config \in Configs /\ w \in WatchedWorkflow(w.config) /\ w.queue \in Seq(Seq(Events))
      /\ w.snapshot \in [w.config.files -> Stats] /\ w.recent \in BOOLEAN
      /\ w.config.depth \in Nat /\ w.config.debounce \in BOOLEAN
  <2>1. w.config \in Configs
    BY <1>0, <1>2, ObjectFields
  <2>2. w.config.debounce \in BOOLEAN
    BY <2>1, ConfigsAssumption DEF IsConfig
  <2>. QED
    BY <1>0, <1>2, <2>1, <2>2, ObjectFields, ConfigFields
<1>4. /\ next \in [w.config.files -> Stats] /\ Past(w.config, next)
      /\ \A f \in w.config.files :
           /\ next[f] = w.snapshot[f] \/ next[f].version > w.snapshot[f].version
           /\ ~ SameFile(w.snapshot[f], next[f]) => next[f].version > w.snapshot[f].version
           /\ next[f] # w.snapshot[f] => ~ SameFile(w.snapshot[f], next[f])
  BY <1>2, NoticedIs
<1>5. PICK events \in SetToSeqs(changes) :
        poll' = [at |-> IF changes # {} THEN "queueing" ELSE IF StartsUnchanged(o) THEN "starting"
                        ELSE "scanning",
                 todo |-> Tail(poll.todo),
                 object |-> IF changes # {} \/ StartsUnchanged(o) THEN o ELSE 0,
                 events |-> Newest(events, w.config.depth),
                 trigger |-> changes # {} /\ ~ w.recent]
  BY <1>o DEF PollScans
<1>6. watched' = IF changes = {} THEN watched
                 ELSE [watched EXCEPT ![o].snapshot = next, ![o].recent = @ \/ w.config.debounce]
  BY <1>o DEF PollScans
<1>. DEFINE found == Newest(events, w.config.depth)
<1>7. /\ IsFiniteSet(changes)
      /\ \A e \in changes :
           /\ e \in Events /\ e.file \in w.config.files
           /\ ~ SameFile(w.snapshot[e.file], next[e.file])
           /\ e.version = next[e.file].version
      /\ \A e, g \in changes : e.file = g.file => e = g
      /\ \A f \in w.config.files : ~ SameFile(w.snapshot[f], next[f]) =>
           \E e \in changes : e.file = f
  <2>. HIDE DEF w, next
  <2>1. /\ w.config \in Configs
        /\ w.snapshot \in [w.config.files -> Stats] /\ next \in [w.config.files -> Stats]
    BY <1>3, <1>4
  <2>. QED
    BY <2>1, ChangesAre
<1>. HIDE DEF next, changes
<1>8. /\ found \in Seq(Events) /\ Len(found) <= w.config.depth
      /\ \A i \in DOMAIN found : found[i] \in changes
      /\ \A i, j \in DOMAIN found : found[i].file = found[j].file => i = j
      /\ \/ Len(found) >= w.config.depth
         \/ \A e \in changes : \E i \in DOMAIN found : found[i] = e
  BY <1>3, <1>7, FoundIs
<1>. HIDE DEF found
<1>9. UNCHANGED <<disk, defs, workflows, globalRunning, runs, requests>>
  BY DEF PollScans
<1>10. \A p : Found(p) = <<>> /\ Running(p)' = Running(p) /\ Registered(p)' = Registered(p)
  BY <1>1, <1>9 DEF Found, Running, Registered
<1>11. ASSUME poll' \in PollThread, poll'.at # "scanning" => poll'.object \in Objects, Objects' = Objects
       PROVE  PollOK' /\ Threads' /\ Limited'
  BY <1>0, <1>9, <1>11 DEF PollOK, PollThread, RunThread, WatchInv, Threads, Limited, Active
<1>12. CASE changes = {}
  <2>1. watched' = watched /\ Objects' = Objects /\ WatchedOK'
    BY <1>0, <1>6, <1>12 DEF Objects, WatchedOK
  <2>2. /\ poll' \in PollThread /\ poll'.at # "queueing"
        /\ poll'.at # "scanning" => poll'.object \in Objects
    <3>1. CASE StartsUnchanged(o)
      BY <1>2, <1>5, <1>8, <1>12, <3>1 DEF PollThread, found
    <3>2. CASE ~ StartsUnchanged(o)
      BY <1>2, <1>5, <1>8, <1>12, <3>2 DEF PollThread, found
    <3>. QED
      BY <3>1, <3>2
  <2>3. \A p : Found(p)' = <<>>
    BY <2>2 DEF Found
  <2>4. \A p \in Objects : GoodObject(p)' /\ CountedObject(p)'
    BY <1>10, <2>1, <2>3, ObjectStays DEF WatchInv
  <2>5. FilesOK' /\ RequestsOK' /\ Known'
    BY <1>9, <2>1, FilesStay
  <2>. QED
    BY <1>0, <1>9, <1>11, <2>1, <2>2, <2>4, <2>5, InvParts
<1>13. CASE changes # {}
  <2>1. watched' = [watched EXCEPT ![o] = x]
    BY <1>6, <1>13
  <2>2. /\ x \in WatchedWorkflow(w.config) /\ x.config = w.config /\ x.snapshot = next
        /\ x.queue = w.queue /\ x.running = w.running
    <3>1. recent \in BOOLEAN
      BY <1>3
    <3>. HIDE DEF recent, w
    <3>. QED
      BY <1>3, <1>4, <3>1 DEF WatchedWorkflow
  <2>. HIDE DEF x
  <2>3. /\ Objects' = Objects /\ WatchedOK' /\ watched'[o] = x
        /\ \A p \in Objects : p # o => watched'[p] = watched[p]
    BY <1>0, <1>2, <2>1, <2>2, Updated
  <2>4. poll' = [at |-> "queueing", todo |-> Tail(poll.todo), object |-> o, events |-> found,
                 trigger |-> ~ w.recent]
    BY <1>5, <1>13 DEF found
  <2>5. poll' \in PollThread /\ poll'.at = "queueing" /\ poll'.object = o /\ poll'.events = found
    BY <1>2, <1>8, <2>4 DEF PollThread
  <2>6. Found(o)' = found /\ \A p : p # o => Found(p)' = <<>>
    BY <2>5 DEF Found
  <2>7. GoodObject(o)'
    <3>1. /\ Typed(w.config, w.snapshot, w.queue, Running(o), <<>>)
          /\ Good(w.config, w.snapshot, w.queue, Running(o), <<>>)
      BY <1>0, <1>2, <1>10, ObjectTyped DEF WatchInv, GoodObject
    <3>2. \A i \in DOMAIN found :
            /\ found[i].file \in w.config.files
            /\ found[i].version = next[found[i].file].version
            /\ found[i].version > w.snapshot[found[i].file].version
      BY <1>4, <1>7, <1>8
    <3>3. \/ Len(found) >= w.config.depth
          \/ \A f \in w.config.files : next[f] # w.snapshot[f] => LastFound(found, f)
      BY <1>4, <1>7, <1>8 DEF LastFound
    <3>4. Good(w.config, next, w.queue, Running(o), found)
      BY <1>4, <1>8, <3>1, <3>2, <3>3, Scanned
    <3>. QED
      BY <1>10, <2>2, <2>3, <2>6, <3>4 DEF GoodObject
  <2>8. CountedObject(o)'
    BY <1>2, <1>10, <2>2, <2>3 DEF WatchInv, CountedObject
  <2>9. ASSUME NEW p \in Objects, p # o PROVE GoodObject(p)' /\ CountedObject(p)'
    BY <1>10, <2>3, <2>6, <2>9, ObjectStays DEF WatchInv
  <2>10. Known'
    <3>1. ASSUME NEW p \in Objects PROVE Past(watched[p].config, watched[p].snapshot)'
      <4>1. Past(watched'[p].config, watched'[p].snapshot)
        BY <1>2, <1>4, <2>2, <2>3 DEF WatchInv, Known
      <4>. QED
        BY <1>9, <4>1 DEF Past
    <3>2. \A s \in Requests :
            requests'[s].at = "adding" => Past(requests[s].config, requests[s].snapshot)'
      BY <1>9 DEF WatchInv, Known, Past
    <3>. QED
      BY <2>3, <3>1, <3>2 DEF Known
  <2>11. FilesOK' /\ RequestsOK'
    BY <1>0, <1>9 DEF FilesOK, RequestsOK
  <2>12. PollOK' /\ Threads' /\ Limited' /\ globalRunning' \in Nat
    BY <1>0, <1>2, <1>9, <1>11, <2>3, <2>5
  <2>. QED
    BY <2>3, <2>7, <2>8, <2>9, <2>10, <2>11, <2>12, InvParts
<1>. QED
  BY <1>12, <1>13

(* What was found joins the queue.                                          *)
LEMMA PollQueuesKeeps ==
  ASSUME WatchInv, PollQueues
  PROVE  WatchInv'
<1>o. PICK o : o = poll.object
  OBVIOUS
<1>. DEFINE w == watched[o]
            queue == Newest(Queued(w.queue, Batches(w.config, poll.events)), w.config.depth)
            x == [w EXCEPT !.queue = queue]
<1>0. FilesOK /\ WatchedOK /\ PollOK /\ RequestsOK /\ globalRunning \in Nat
  BY TypesAre
<1>1. /\ poll.at = "queueing" /\ o \in Objects /\ poll.todo \in Seq(Objects)
      /\ poll.events \in Seq(Events)
  BY <1>o, <1>0, PollFields DEF PollQueues, WatchInv, Threads
<1>2. /\ w.config \in Configs /\ w \in WatchedWorkflow(w.config) /\ w.config.depth \in Nat
  BY <1>0, <1>1, ObjectFields, ConfigFields
<1>3. Found(o) = poll.events /\ \A p : p # o => Found(p) = <<>>
  BY <1>o, <1>1 DEF Found
<1>4. /\ Typed(w.config, w.snapshot, w.queue, Running(o), poll.events)
      /\ Good(w.config, w.snapshot, w.queue, Running(o), poll.events)
  BY <1>0, <1>1, <1>3, ObjectTyped DEF WatchInv, GoodObject
<1>5. Good(w.config, w.snapshot, queue, Running(o), <<>>)
  BY <1>4, Enqueued
<1>6. queue \in Seq(Seq(Events))
  <2>1. Sound(w.config, w.snapshot, w.queue, Running(o), poll.events)
    BY <1>4 DEF Good
  <2>2. Typed(w.config, w.snapshot, Queued(w.queue, Batches(w.config, poll.events)), Running(o), <<>>)
    BY <1>4, <2>1, Joined
  <2>3. Queued(w.queue, Batches(w.config, poll.events)) \in Seq(Seq(Events))
    BY <2>2 DEF Typed
  <2>. QED
    BY <1>2, <2>3, NewestIs
<1>7. watched' = [watched EXCEPT ![o] = x]
  BY <1>o DEF PollQueues
<1>. HIDE DEF queue
<1>8. /\ x \in WatchedWorkflow(w.config) /\ x.config = w.config /\ x.snapshot = w.snapshot
      /\ x.queue = queue /\ x.running = w.running
  BY <1>2, <1>6 DEF WatchedWorkflow
<1>. HIDE DEF x
<1>9. /\ Objects' = Objects /\ WatchedOK' /\ watched'[o] = x
      /\ \A p \in Objects : p # o => watched'[p] = watched[p]
  BY <1>0, <1>1, <1>7, <1>8, Updated
<1>10. /\ poll' \in PollThread /\ poll'.at # "queueing"
       /\ poll'.at # "scanning" => poll'.object \in Objects
  <2>1. Scanning \in PollThread
    BY DEF Scanning, PollThread
  <2>2. CASE poll.trigger
    <3>1. poll' = [Scanning EXCEPT !.at = "starting", !.todo = poll.todo, !.object = o]
      BY <1>o, <2>2 DEF PollQueues
    <3>. QED
      BY <1>1, <2>1, <3>1 DEF PollThread
  <2>3. CASE ~ poll.trigger
    <3>1. poll' = [Scanning EXCEPT !.todo = poll.todo]
      BY <2>3 DEF PollQueues
    <3>. QED
      BY <1>1, <3>1, ScanningIs
  <2>. QED
    BY <2>2, <2>3
<1>11. \A p : Found(p)' = <<>>
  BY <1>10 DEF Found
<1>12. UNCHANGED <<disk, defs, workflows, globalRunning, runs, requests>>
  BY DEF PollQueues
<1>13. \A p : Running(p)' = Running(p) /\ Registered(p)' = Registered(p)
  BY <1>12 DEF Running, Registered
<1>14. GoodObject(o)' /\ CountedObject(o)'
  BY <1>1, <1>5, <1>8, <1>9, <1>11, <1>13 DEF WatchInv, GoodObject, CountedObject
<1>15. ASSUME NEW p \in Objects, p # o PROVE GoodObject(p)' /\ CountedObject(p)'
  BY <1>3, <1>9, <1>11, <1>13, <1>15, ObjectStays DEF WatchInv
<1>16. FilesOK' /\ RequestsOK' /\ Known'
  BY <1>8, <1>9, <1>12, FilesStay
<1>17. PollOK' /\ Threads' /\ Limited' /\ globalRunning' \in Nat
  BY <1>0, <1>9, <1>10, <1>12 DEF PollOK, PollThread, RunThread, WatchInv, Threads, Limited, Active
<1>. QED
  BY <1>9, <1>14, <1>15, <1>16, <1>17, InvParts

-----------------------------------------------------------------------------
(* Registrations that are made and removed.                                 *)

(* A new registration has no runs and nothing that waits.                   *)
LEMMA NewIsGood ==
  ASSUME NEW c \in Configs, NEW snapshot
  PROVE  /\ Good(c, snapshot, <<>>, {}, <<>>)
         /\ \A inForce : Counted(c, 0, {}, inForce)
<1>0. c.depth \in Nat /\ Len(<<>>) = 0
  BY ConfigFields
<1>1. Sound(c, snapshot, <<>>, {}, <<>>) /\ Newer(c, snapshot, <<>>, <<>>)
  BY DEF Sound, Fresh, Ordered, Newer
<1>2. Good(c, snapshot, <<>>, {}, <<>>)
  BY <1>0, <1>1 DEF Good
<1>3. IsFiniteSet({}) /\ Cardinality({}) = 0
  BY FS_EmptySet
<1>4. 0 <= Concurrency(c)
  BY ConfigFields DEF Concurrency
<1>. QED
  BY <1>2, <1>3, <1>4 DEF Counted

LEMMA RegistrationIs ==
  ASSUME NEW w \in Workflows, NEW c \in Configs, NEW snapshot \in [c.files -> Stats]
  PROVE  /\ Registration(w, c, snapshot) \in WatchedWorkflow(c)
         /\ Registration(w, c, snapshot).config = c
         /\ Registration(w, c, snapshot).snapshot = snapshot
         /\ Registration(w, c, snapshot).queue = <<>>
         /\ Registration(w, c, snapshot).running = 0
BY DEF Registration, WatchedWorkflow

LEMMA AddRegistersKeeps ==
  ASSUME WatchInv, NEW s \in Requests, AddRegisters(s)
  PROVE  WatchInv'
<1>n. PICK n : n = Len(watched) + 1
  OBVIOUS
<1>. DEFINE q == requests[s]
            x == Registration(q.workflow, q.config, q.snapshot)
<1>0. FilesOK /\ WatchedOK /\ PollOK /\ RequestsOK /\ globalRunning \in Nat
  BY TypesAre
<1>1. /\ q.todo \in Seq(Workflows) /\ q.active \subseteq Workflows
      /\ q.workflow \in Workflows /\ q.config \in Configs
      /\ q.snapshot \in [q.config.files -> Stats] /\ Past(q.config, q.snapshot)
  BY RequestFields DEF AddRegisters
<1>2. /\ x \in WatchedWorkflow(q.config) /\ x.config = q.config /\ x.snapshot = q.snapshot
      /\ x.queue = <<>> /\ x.running = 0
  BY <1>1, RegistrationIs
<1>3. watched' = Append(watched, x)
  BY DEF AddRegisters
<1>. HIDE DEF x
<1>4. Objects = 1 .. Len(watched) /\ Len(watched) \in Nat /\ n \notin Objects
  BY <1>n, <1>0, ObjectsAre
<1>5. /\ Objects' = Objects \cup {n}
      /\ watched'[n] = x /\ \A p \in Objects : watched'[p] = watched[p]
      /\ Objects' = 1 .. n /\ n \in Nat /\ watched' = [p \in 1 .. n |-> watched'[p]]
  <2>1. watched \in Seq(ToSet(watched) \cup {x})
    BY <1>0, <1>4 DEF WatchedOK, Objects, ToSet
  <2>2. /\ watched' \in Seq(ToSet(watched) \cup {x}) /\ Len(watched') = n
        /\ watched'[n] = x /\ \A p \in 1 .. Len(watched) : watched'[p] = watched[p]
    BY <1>n, <1>3, <1>4, <2>1
  <2>3. watched' \in [1 .. n -> ToSet(watched) \cup {x}] /\ n \in Nat
    BY <1>n, <1>4, <2>2
  <2>4. Objects' = 1 .. n /\ watched' = [p \in 1 .. n |-> watched'[p]]
    BY <2>3 DEF Objects
  <2>5. 1 .. n = 1 .. Len(watched) \cup {n}
    BY <1>n, <1>4
  <2>. QED
    BY <1>4, <2>2, <2>3, <2>4, <2>5
<1>6. WatchedOK'
  <2>1. watched' \in [1 .. n -> ToSet(watched')]
    BY <1>5 DEF ToSet, Objects
  <2>2. watched' \in Seq(ToSet(watched'))
    BY <1>5, <2>1, IsASequence
  <2>3. \A p \in Objects' : \E c \in Configs : watched'[p] \in WatchedWorkflow(c)
    BY <1>0, <1>1, <1>2, <1>5 DEF WatchedOK
  <2>. QED
    BY <2>2, <2>3 DEF WatchedOK
<1>7. UNCHANGED <<disk, defs, globalRunning, poll, runs>>
  BY DEF AddRegisters
<1>8. /\ workflows' \in Seq(Objects')
      /\ \A p \in Objects : Registered(p)' => Registered(p)
  <2>0. workflows \in Seq(Objects)
    BY <1>0 DEF PollOK
  <2>1. workflows \in Seq(Objects') /\ n \in Objects' /\ Len(workflows) \in Nat
        /\ DOMAIN workflows = 1 .. Len(workflows)
    BY <1>5, <2>0
  <2>2. CASE workflows' = [i \in DOMAIN workflows |->
                             IF watched[workflows[i]].workflow = q.workflow
                             THEN Len(watched) + 1 ELSE workflows[i]]
    <3>1. workflows' \in [1 .. Len(workflows) -> Objects']
      BY <1>n, <2>1, <2>2
    <3>2. \A i \in DOMAIN workflows' :
            i \in DOMAIN workflows /\ (workflows'[i] = n \/ workflows'[i] = workflows[i])
      BY <1>n, <2>2
    <3>3. \A p \in Objects : p \in ToSet(workflows') => p \in ToSet(workflows)
      BY <1>4, <3>2 DEF ToSet
    <3>. QED
      BY <2>1, <3>1, <3>3, IsASequence DEF Registered
  <2>3. CASE workflows' = Append(workflows, Len(watched) + 1)
    <3>1. workflows' \in Seq(Objects')
      BY <1>n, <2>1, <2>3
    <3>2. \A i \in DOMAIN workflows' :
            workflows'[i] = n \/ (i \in DOMAIN workflows /\ workflows'[i] = workflows[i])
      BY <1>n, <2>1, <2>3
    <3>3. \A p \in Objects : p \in ToSet(workflows') => p \in ToSet(workflows)
      BY <1>4, <3>2 DEF ToSet
    <3>. QED
      BY <3>1, <3>3 DEF Registered
  <2>. QED
    BY <2>2, <2>3 DEF AddRegisters
<1>9. PollOK'
  <2>1. Objects \subseteq Objects'
    BY <1>5
  <2>2. \A t \in Seq(Objects) : t \in Seq(Objects')
    BY <2>1
  <2>3. poll \in PollThread /\ runs \subseteq RunThread
    BY <1>0 DEF PollOK
  <2>4. PollThread \subseteq PollThread'
    BY <2>1, <2>2 DEF PollThread
  <2>5. RunThread \subseteq RunThread'
    BY <2>1, <2>2 DEF RunThread
  <2>. QED
    BY <1>7, <1>8, <2>3, <2>4, <2>5 DEF PollOK
<1>10. Threads' /\ Limited' /\ globalRunning' \in Nat
  BY <1>0, <1>5, <1>7 DEF WatchInv, Threads, Limited, Active
<1>11. ASSUME NEW p \in Objects PROVE GoodObject(p)' /\ CountedObject(p)'
  <2>1. Running(p)' = Running(p) /\ Found(p)' = Found(p)
    BY <1>7 DEF Running, Found
  <2>. QED
    BY <1>5, <1>8, <2>1, ObjectStays DEF WatchInv
<1>12. GoodObject(n)' /\ CountedObject(n)'
  <2>1. \A r \in runs : r.object \in Objects
    BY <1>0, RunFields
  <2>2. poll.at = "queueing" => poll.object \in Objects
    BY DEF WatchInv, Threads
  <2>3. Running(n)' = {} /\ Found(n)' = <<>>
    BY <1>4, <1>7, <2>1, <2>2 DEF Running, Found
  <2>. QED
    BY <1>1, <1>2, <1>5, <2>3, NewIsGood DEF GoodObject, CountedObject
<1>13. /\ RequestsOK'
       /\ \A t \in Requests :
            requests'[t].at = "adding" => Past(requests[t].config, requests[t].snapshot)'
  <2>1. q.active \cup {q.workflow} \in SUBSET Workflows
    BY <1>1
  <2>2. /\ RequestOK(Onwards(q, q.active \cup {q.workflow}))
        /\ Onwards(q, q.active \cup {q.workflow}).at # "adding"
    BY <1>1, <2>1, OnwardsIs
  <2>3. requests' = [requests EXCEPT ![s] = Onwards(q, q.active \cup {q.workflow})]
    BY DEF AddRegisters
  <2>. QED
    BY <1>7, <2>2, <2>3, RequestTurns
<1>14. \A p \in Objects' : Past(watched[p].config, watched[p].snapshot)'
  <2>1. \A p \in Objects' : Past(watched'[p].config, watched'[p].snapshot)
    BY <1>1, <1>2, <1>5 DEF WatchInv, Known
  <2>. QED
    BY <1>7, <2>1 DEF Past
<1>15. Known' /\ FilesOK'
  BY <1>0, <1>7, <1>13, <1>14 DEF Known, FilesOK
<1>. QED
  BY <1>5, <1>6, <1>9, <1>10, <1>11, <1>12, <1>13, <1>15, InvParts

LEMMA RemovedIs ==
  ASSUME NEW S, NEW t \in Seq(S), NEW i \in DOMAIN t
  PROVE  RemoveAt(t, i) \in Seq(S) /\ \A x \in ToSet(RemoveAt(t, i)) : x \in ToSet(t)
<1>1. /\ SubSeq(t, 1, i - 1) \in Seq(S) /\ SubSeq(t, i + 1, Len(t)) \in Seq(S)
      /\ \A j \in DOMAIN SubSeq(t, 1, i - 1) : j \in DOMAIN t /\ SubSeq(t, 1, i - 1)[j] = t[j]
      /\ \A j \in DOMAIN SubSeq(t, i + 1, Len(t)) :
           j + i \in DOMAIN t /\ SubSeq(t, i + 1, Len(t))[j] = t[j + i]
  OBVIOUS
<1>. DEFINE front == SubSeq(t, 1, i - 1)
            back == SubSeq(t, i + 1, Len(t))
<1>2. RemoveAt(t, i) = front \o back
  BY DEF RemoveAt
<1>. HIDE DEF front, back
<1>3. /\ front \o back \in Seq(S)
      /\ \A j \in DOMAIN (front \o back) :
           \/ j \in DOMAIN front /\ (front \o back)[j] = front[j]
           \/ j - Len(front) \in DOMAIN back /\ (front \o back)[j] = back[j - Len(front)]
  BY <1>1 DEF front, back
<1>4. \A j \in DOMAIN (front \o back) : \E k \in DOMAIN t : (front \o back)[j] = t[k]
  BY <1>1, <1>3 DEF front, back
<1>5. ASSUME NEW x \in ToSet(front \o back) PROVE x \in ToSet(t)
  <2>1. \E j \in DOMAIN (front \o back) : x = (front \o back)[j]
    BY MembersAt
  <2>2. \E k \in DOMAIN t : x = t[k]
    BY <1>4, <2>1
  <2>. QED
    BY <2>2, MembersAt
<1>. QED
  BY <1>2, <1>3, <1>5

LEMMA SyncRemovesKeeps ==
  ASSUME WatchInv, NEW s \in Requests, SyncRemoves(s)
  PROVE  WatchInv'
<1>. DEFINE p == requests[s]
            q == [p EXCEPT !.todo = Tail(@)]
<1>0. FilesOK /\ WatchedOK /\ PollOK /\ RequestsOK /\ globalRunning \in Nat
  BY TypesAre
<1>1. p.at = "removing" /\ p.todo \in Seq(Workflows) /\ p.todo # <<>>
  BY RequestFields DEF SyncRemoves
<1>2. q \in Waiting
  <2>1. p \in Waiting
    BY <1>1, RequestForms
  <2>2. Tail(p.todo) \in Seq(Workflows)
    BY <1>1
  <2>. QED
    BY <2>1, <2>2 DEF Waiting, RequestThread
<1>3. requests' = [requests EXCEPT ![s] = q]
  BY DEF SyncRemoves
<1>. HIDE DEF q
<1>4. UNCHANGED <<disk, defs, watched, globalRunning, poll, runs>>
  BY DEF SyncRemoves
<1>5. workflows' \in Seq(Objects) /\ \A x \in ToSet(workflows') : x \in ToSet(workflows)
  <2>1. workflows \in Seq(Objects)
    BY <1>0 DEF PollOK
  <2>2. workflows' = workflows \/ \E i \in DOMAIN workflows : workflows' = RemoveAt(workflows, i)
    BY DEF SyncRemoves, RemoveWorkflow
  <2>. QED
    BY <2>1, <2>2, RemovedIs
<1>6. Objects' = Objects /\ WatchedOK' /\ globalRunning' \in Nat /\ FilesOK'
  BY <1>0, <1>4 DEF Objects, WatchedOK, FilesOK
<1>7. PollOK'
  BY <1>0, <1>4, <1>5, <1>6 DEF PollOK, PollThread, RunThread
<1>8. Threads' /\ Limited'
  BY <1>4, <1>6 DEF WatchInv, Threads, Limited, Active
<1>9. ASSUME NEW o \in Objects PROVE GoodObject(o)' /\ CountedObject(o)'
  <2>1. /\ watched'[o] = watched[o] /\ Running(o)' = Running(o) /\ Found(o)' = Found(o)
        /\ Registered(o)' => Registered(o)
    BY <1>4, <1>5 DEF Running, Found, Registered
  <2>. QED
    BY <2>1, ObjectStays DEF WatchInv
<1>10. /\ RequestsOK'
       /\ \A t \in Requests :
            requests'[t].at = "adding" => Past(requests[t].config, requests[t].snapshot)'
  BY <1>2, <1>3, <1>4, FormsAre, RequestTurns
<1>11. \A o \in Objects' : Past(watched[o].config, watched[o].snapshot)'
  BY <1>4, <1>6 DEF WatchInv, Known, Past
<1>12. Known'
  BY <1>10, <1>11 DEF Known
<1>. QED
  BY <1>6, <1>7, <1>8, <1>9, <1>10, <1>12, InvParts

-----------------------------------------------------------------------------
(* The invariant.                                                           *)

LEMMA InitKeeps ==
  ASSUME Init
  PROVE  WatchInv
<1>0. N \in Nat /\ GlobalLimit \in Nat /\ Started \in [Workflows -> Configs]
  BY NumbersAssumption, StartedAssumption DEF Workflows
<1>1. /\ Objects = Workflows /\ Objects = 1 .. N
      /\ watched = [w \in 1 .. N |-> watched[w]]
      /\ \A o \in Objects : watched[o] = Registration(o, Started[o], Snapshot(Started[o]))
  BY DEF Init, Objects, Workflows
<1>2. \A f \in Files : disk[f].version = 0 /\ disk[f] \in Stats
  BY DEF Init, Stats
<1>3. FilesOK
  BY <1>0, <1>2 DEF Init, FilesOK
<1>4. ASSUME NEW c \in Configs
      PROVE  Snapshot(c) \in [c.files -> Stats] /\ Past(c, Snapshot(c))
  <2>1. \A f \in c.files : f \in Files
    BY ConfigFields
  <2>. QED
    BY <1>2, <2>1 DEF Snapshot, Past
<1>5. ASSUME NEW o \in Objects
      PROVE  /\ Started[o] \in Configs /\ watched[o] \in WatchedWorkflow(Started[o])
             /\ watched[o].config = Started[o] /\ watched[o].snapshot = Snapshot(Started[o])
             /\ watched[o].queue = <<>> /\ watched[o].running = 0
  BY <1>0, <1>1, <1>4, RegistrationIs
<1>6. WatchedOK
  <2>1. watched \in [1 .. N -> ToSet(watched)]
    BY <1>1 DEF ToSet, Objects
  <2>2. watched \in Seq(ToSet(watched))
    BY <1>0, <2>1, IsASequence
  <2>. QED
    BY <1>5, <2>2 DEF WatchedOK
<1>7. Scanning \in PollThread /\ Scanning.at = "scanning"
  BY DEF Scanning, PollThread
<1>8. PollOK
  <2>1. workflows \in [1 .. N -> Objects]
    BY <1>1 DEF Init
  <2>2. workflows \in Seq(Objects)
    BY <1>0, <2>1, IsASequence
  <2>. QED
    BY <1>7, <2>2 DEF Init, PollOK
<1>9. RequestsOK /\ \A s \in Requests : requests[s].at # "adding"
  <2>1. Idle \in Waiting
    BY DEF Idle, Waiting, RequestThread
  <2>2. RequestOK(Idle) /\ Idle.at # "adding"
    BY <2>1, FormsAre
  <2>. QED
    BY <2>2 DEF Init, RequestsOK
<1>10. TypeOK
  BY <1>3, <1>6, <1>8, <1>9, TypeParts DEF Init
<1>11. Threads
  BY <1>7 DEF Init, Threads
<1>12. Known
  BY <1>4, <1>5, <1>9 DEF Known
<1>13. Active = {} /\ \A o : Running(o) = {} /\ Found(o) = <<>>
  BY <1>7 DEF Init, Active, Running, Found
<1>14. Limited
  BY <1>0, <1>13, FS_EmptySet DEF Init, Limited
<1>15. \A o \in Objects : GoodObject(o) /\ CountedObject(o)
  BY <1>5, <1>13, NewIsGood DEF GoodObject, CountedObject
<1>. QED
  BY <1>10, <1>11, <1>12, <1>14, <1>15 DEF WatchInv

LEMMA StutterKeeps ==
  ASSUME WatchInv, UNCHANGED vars
  PROVE  WatchInv'
<1>1. /\ WatchedOK' /\ PollOK' /\ globalRunning' \in Nat /\ Objects' = Objects
      /\ Threads' /\ Limited'
      /\ \A o \in Objects' : GoodObject(o)' /\ CountedObject(o)'
  BY Untouched DEF vars
<1>2. FilesOK' /\ RequestsOK' /\ Known'
  BY <1>1, FilesStay DEF vars
<1>. QED
  BY <1>1, <1>2, InvParts

LEMMA NextKeeps ==
  ASSUME WatchInv, [Next]_vars
  PROVE  WatchInv'
<1>1. ASSUME NEW f \in Files, Write(f) \/ Delete(f) PROVE WatchInv'
  BY <1>1, ChangeKeeps DEF Write, Delete
<1>2. ASSUME NEW o \in Objects, Settle(o) PROVE WatchInv'
  BY <1>2, SettleKeeps
<1>3. CASE Polls
  BY <1>3, PollBeginsKeeps, PollScansKeeps, PollScanFailsKeeps, PollQueuesKeeps, PollStartsKeeps
     DEF Polls
<1>4. CASE Runs
  BY <1>4, RunEndsKeeps, RunListsKeeps, RunStartsKeeps DEF Runs
<1>5. ASSUME NEW s \in Requests, Syncs(s) PROVE WatchInv'
  BY <1>5, SyncReadsKeeps, AddChecksKeeps, AddScansKeeps, AddScanFailsKeeps, AddRegistersKeeps,
     SyncListsKeeps, SyncRemovesKeeps DEF Syncs
<1>6. ASSUME NEW s \in Requests, NEW edit \in Edits, RequestBegins(s, edit[1], edit[2])
      PROVE  WatchInv'
  BY <1>6, RequestBeginsKeeps
<1>7. CASE UNCHANGED vars
  BY <1>7, StutterKeeps
<1>. QED
  BY <1>1, <1>2, <1>3, <1>4, <1>5, <1>6, <1>7 DEF Next

LEMMA WatchHolds == Spec => []WatchInv
<1>1. Init => WatchInv
  BY InitKeeps
<1>2. WatchInv /\ [Next]_vars => WatchInv'
  BY NextKeeps
<1>. QED
  BY <1>1, <1>2, PTL DEF Spec

-----------------------------------------------------------------------------
(* The theorems.                                                            *)

(* Registrations, threads and counts keep the shape of the fields of the    *)
(* source: of a registration made while another is scanned or run as well.  *)
THEOREM TypesHold == Spec => []TypeOK
<1>1. WatchInv => TypeOK
  BY DEF WatchInv
<1>. QED
  BY <1>1, WatchHolds, PTL

(* The server never runs more workflows than its limit, and its count is of *)
(* those that run, whatever is registered anew or removed meanwhile         *)
(* (_start_queued_runs, _run_workflow).                                     *)
THEOREM GlobalLimitAlways == Spec => []GlobalLimitHeld
<1>1. WatchInv => GlobalLimitHeld
  BY DEF WatchInv, Limited, Active, GlobalLimitHeld
<1>. QED
  BY <1>1, WatchHolds, PTL

(* A registration never runs more than its own limit, and one in force      *)
(* counts its runs, though the poll thread and every run that ends start    *)
(* batches of all registrations.                                            *)
THEOREM OwnLimitAlways == Spec => []OwnLimitHeld
<1>1. ASSUME WatchInv PROVE OwnLimitHeld
  <2>. SUFFICES ASSUME NEW o \in Objects
                PROVE  /\ Cardinality(Running(o)) <= Concurrency(watched[o].config)
                       /\ Registered(o) => watched[o].running = Cardinality(Running(o))
    BY DEF OwnLimitHeld
  <2>1. WatchedOK
    BY <1>1, TypesAre
  <2>2. /\ IsFiniteSet(Running(o)) /\ Cardinality(Running(o)) <= watched[o].running
        /\ watched[o].running <= Concurrency(watched[o].config)
        /\ Registered(o) => Cardinality(Running(o)) = watched[o].running
    BY <1>1 DEF WatchInv, CountedObject, Counted
  <2>3. Cardinality(Running(o)) \in Nat /\ watched[o].running \in Nat
    BY <2>1, <2>2, ObjectFields, FS_CardinalityType
  <2>4. Concurrency(watched[o].config) \in Nat
    BY <2>1, ObjectFields, ConfigFields DEF Concurrency
  <2>. QED
    BY <2>2, <2>3, <2>4
<1>. QED
  BY <1>1, WatchHolds, PTL

(* An overflow costs the oldest changes only: what waits of a file, its     *)
(* last change noticed waits with it (_enqueue_events, _diff_events).       *)
THEOREM NewestAlwaysKept == Spec => []OverflowDropsOldest
<1>1. ASSUME WatchInv PROVE OverflowDropsOldest
  <2>. SUFFICES ASSUME NEW o \in Objects
                PROVE  LET w == watched[o]
                           waiting == UNION {ToSet(batch) : batch \in ToSet(w.queue)}
                       IN  /\ Len(w.queue) <= w.config.depth
                           /\ w.config.each /\ (poll.at = "queueing" => poll.object # o) =>
                                \A e \in waiting : \E g \in waiting :
                                  g.file = e.file /\ g.version = w.snapshot[e.file].version
    BY DEF OverflowDropsOldest
  <2>. DEFINE w == watched[o]
              waiting == UNION {ToSet(batch) : batch \in ToSet(w.queue)}
  <2>1. Good(w.config, w.snapshot, w.queue, Running(o), Found(o))
    BY <1>1 DEF WatchInv, GoodObject
  <2>2. w.queue \in Seq(Seq(Events)) /\ w.config.depth \in Nat
    BY <1>1, TypesAre, ObjectFields, ConfigFields
  <2>. HIDE DEF w
  <2>3. \A e : e \in waiting <=> \E j \in DOMAIN w.queue : \E i \in DOMAIN w.queue[j] : e = w.queue[j][i]
    <3>1. \A e : e \in waiting <=> \E batch \in ToSet(w.queue) : e \in ToSet(batch)
      OBVIOUS
    <3>2. \A e : e \in waiting <=> \E j \in DOMAIN w.queue : e \in ToSet(w.queue[j])
      BY <3>1, MembersAt
    <3>. QED
      BY <3>2, MembersAt
  <2>. HIDE DEF waiting
  <2>4. ASSUME w.config.each, poll.at = "queueing" => poll.object # o, NEW e \in waiting
        PROVE  \E g \in waiting : g.file = e.file /\ g.version = w.snapshot[e.file].version
    <3>1. PICK j \in DOMAIN w.queue : \E i \in DOMAIN w.queue[j] : e = w.queue[j][i]
      BY <2>3
    <3>2. PICK i \in DOMAIN w.queue[j] : e = w.queue[j][i]
      BY <3>1
    <3>3. Found(o) = <<>>
      BY <2>4 DEF Found
    <3>4. ~ LastFound(<<>>, e.file)
      BY DEF LastFound
    <3>5. ~ Len(<<>>) >= w.config.depth
      <4>1. Len(w.queue) <= w.config.depth /\ Len(w.queue) \in Nat /\ j \in 1 .. Len(w.queue)
        BY <2>1, <2>2 DEF Good
      <4>. QED
        BY <2>2, <4>1
    <3>6. LastWaits(w.snapshot, w.queue, e.file)
      BY <2>1, <2>4, <3>2, <3>3, <3>4, <3>5 DEF Good, Newer
    <3>. QED
      BY <2>3, <3>6 DEF LastWaits
  <2>. QED
    BY <2>1, <2>4 DEF Good, w, waiting
<1>. QED
  BY <1>1, WatchHolds, PTL

(* Of a file, changes are run, wait and are queued in the order they        *)
(* happened, whatever an overflow drops and whichever thread starts them.   *)
THEOREM AlwaysInOrder == Spec => []InOrder
<1>1. ASSUME WatchInv PROVE InOrder
  <2>1. ASSUME NEW o \in Objects PROVE Ordered(watched[o].queue, Running(o), Found(o))
    BY <1>1 DEF WatchInv, GoodObject, Good, Sound
  <2>. QED
    BY <2>1 DEF Ordered, InOrder
<1>. QED
  BY <1>1, WatchHolds, PTL
=============================================================================
