------------------------- MODULE HalSessionsProofs -------------------------
(***************************************************************************)
(* Proofs about HalSessions, for any number of devices, peers and streams, *)
(* any number of upsets and any length of the worker's queue.              *)
(***************************************************************************)
EXTENDS HalSessions, FiniteSetTheorems, SequenceTheorems, TLAPS

-----------------------------------------------------------------------------
(* Shapes: what the records of the threads hold while they are at work.    *)

Records == [fp : Peers \cup {None}, bound : BOOLEAN, io : BOOLEAN,
            linger : BOOLEAN, sess : SessionOrNone]
Works == {Idle}
         \cup [at : {"close"}, id : Ids]
         \cup [at : {"dial", "open", "failed"}, slot : Slots, peer : Peers]
         \cup [at : {"opened"}, slot : Slots, peer : Peers, id : Ids]
Passes == {Idle} \cup [at : {"snap"}, live : SUBSET Ids,
                       conn : [Peers -> {"none", "half", "ready"}], modeB : BOOLEAN]
Forgets == {Idle} \cup [at : {"closing"}, peer : Peers, id : SessionOrNone]
           \cup [at : {"dropping"}, peer : Peers]

Shapes ==
    /\ conn \in [Peers -> {"none", "half", "ready"}]
    /\ modeB \in BOOLEAN
    /\ live \subseteq [id : Ids, slot : Slots, peer : Peers]
    /\ rec \in [Slots -> Records]
    /\ opening \in [Slots -> BOOLEAN]
    /\ queue \in Seq(Commands)
    /\ worker \in Works
    /\ pass \in Passes
    /\ forget \in Forgets

\* The session the worker has just opened, while it is in the table, is the slot's
\* and the peer's it was opened for.
OpenedIsOwn ==
    worker.at = "opened" =>
        \A x \in live : x.id = worker.id => x.slot = worker.slot /\ x.peer = worker.peer

-----------------------------------------------------------------------------
(* Who is opening a session for slot s.                                    *)

Busy(s) == worker.at \in {"dial", "open", "opened", "failed"} /\ worker.slot = s
OpenAt(i, s) == queue[i].op = "Open" /\ queue[i].slot = s
CloseAt(i, s) == queue[i].op = "Close" /\ queue[i].slot = s

\* At most one open per slot, in the queue or in the worker's hands, and the
\* flag says whether there is one.
OneOpen ==
    \A s \in Slots :
        /\ \A i, j \in DOMAIN queue : OpenAt(i, s) /\ OpenAt(j, s) => i = j
        /\ Busy(s) => \A i \in DOMAIN queue : ~OpenAt(i, s)
        /\ opening[s] <=> Busy(s) \/ \E i \in DOMAIN queue : OpenAt(i, s)

\* While a session is being opened none is recorded, and every Close of the slot
\* is before the Open in the queue, so that it finds what it was sent for.
CloseFirst ==
    \A s \in Slots :
        /\ opening[s] => rec[s].sess = None
        /\ Busy(s) => \A i \in DOMAIN queue : ~CloseAt(i, s)
        /\ \A i, j \in DOMAIN queue : CloseAt(i, s) /\ OpenAt(j, s) => i < j
        /\ \A i \in DOMAIN queue : CloseAt(i, s) => rec[s].sess \in {None, queue[i].id}

HInv == Shapes /\ OpenedIsOwn /\ RecordedIsTenants /\ OneOpen /\ CloseFirst

-----------------------------------------------------------------------------
(* The queue: what the coordinator appends and what the worker takes.      *)

\* A set of slots put in order names each of them once.
LEMMA InOrder ==
  ASSUME NEW T \in SUBSET Slots
  PROVE  /\ Cardinality(T) \in Nat
         /\ SetToSeq(T) \in [1 .. Cardinality(T) -> T]
         /\ \A i, j \in 1 .. Cardinality(T) : SetToSeq(T)[i] = SetToSeq(T)[j] => i = j
         /\ \A s \in T : \E i \in 1 .. Cardinality(T) : SetToSeq(T)[i] = s
<1>1. IsFiniteSet(T)
  BY SessionsAssumption, FS_Subset
<1>2. PICK n \in Nat : ExistsBijection(1 .. n, T)
  BY <1>1, FS_NatBijection
<1>3. Cardinality(T) = n
  BY <1>2, FS_CountingElements
<1>4. \E f \in [1 .. n -> T] : IsInjective(f)
  BY <1>2 DEF ExistsBijection, Bijection, Injection
<1>5. SetToSeq(T) \in [1 .. n -> T] /\ IsInjective(SetToSeq(T))
  BY <1>3, <1>4 DEF SetToSeq
<1>6. \A i, j \in 1 .. n : SetToSeq(T)[i] = SetToSeq(T)[j] => i = j
  BY <1>5 DEF IsInjective
<1>7. \A s \in T : \E i \in 1 .. n : SetToSeq(T)[i] = s
  <2> DEFINE f == SetToSeq(T)
             R == {f[i] : i \in 1 .. n}
  <2>1. f \in Bijection(1 .. n, R)
    BY <1>5 DEF Bijection, Injection, Surjection
  <2>2. Cardinality(R) = n
    BY <2>1, FS_CountingElements DEF ExistsBijection
  <2>3. R \subseteq T
    BY <1>5
  <2>4. R = T
    BY <1>1, <1>3, <2>2, <2>3, FS_Subset
  <2> QED
    BY <2>4
<1> QED
  BY <1>3, <1>5, <1>6, <1>7

\* The worker's command is the first one; the others move up.
LEMMA QueueTail ==
  ASSUME NEW q \in Seq(Commands), q # << >>
  PROVE  /\ RemoveAt(q, 1) \in Seq(Commands)
         /\ Len(RemoveAt(q, 1)) = Len(q) - 1
         /\ \A i \in 1 .. Len(q) - 1 : RemoveAt(q, 1)[i] = q[i + 1]
         /\ q[1] \in Commands
<1>1. SubSeq(q, 1, 0) = << >>
  OBVIOUS
<1>2. RemoveAt(q, 1) = SubSeq(q, 2, Len(q))
  BY <1>1 DEF RemoveAt
<1>3. Len(q) \in Nat /\ Len(q) >= 1 /\ q \in [1 .. Len(q) -> Commands]
  BY EmptySeq, LenProperties
<1>4. /\ SubSeq(q, 2, Len(q)) \in Seq(Commands)
      /\ Len(SubSeq(q, 2, Len(q))) = Len(q) - 1
      /\ \A i \in 1 .. Len(q) - 1 : SubSeq(q, 2, Len(q))[i] = q[i + 1]
  BY <1>3, SubSeqProperties
<1>5. q[1] \in Commands
  BY <1>3
<1> QED
  BY <1>2, <1>4, <1>5, Zenon

\* What Decide sends: opens for slots that had none under way, closes of what
\* is recorded, one command per slot at most.
LEMMA DecideSends ==
  ASSUME Shapes, Decide
  PROVE  /\ queue' \in Seq(Commands) /\ Len(queue') >= Len(queue)
         /\ \A i \in DOMAIN queue : queue'[i] = queue[i]
         /\ \A i, j \in DOMAIN queue' \ DOMAIN queue :
               queue'[i].slot = queue'[j].slot => i = j
         /\ \A i \in DOMAIN queue' \ DOMAIN queue :
               LET s == queue'[i].slot IN
               \/ queue'[i].op = "Open" /\ ~opening[s] /\ opening'[s] /\ rec'[s].sess = None
               \/ queue'[i].op = "Close" /\ rec'[s].sess = queue'[i].id
                  /\ rec'[s].sess # None
         /\ \A i \in DOMAIN queue' \ DOMAIN queue : queue'[i].op = "Open" =>
               queue'[i].peer = rec[queue'[i].slot].fp
         /\ \A s \in Slots : opening'[s] <=>
               opening[s] \/ \E i \in DOMAIN queue' \ DOMAIN queue :
                                 queue'[i].op = "Open" /\ queue'[i].slot = s
         /\ \A s \in Slots : rec'[s].sess \in {rec[s].sess, None}
         /\ rec' \in [Slots -> Records] /\ opening' \in [Slots -> BOOLEAN]
         /\ \A s \in Slots : rec'[s].fp = rec[s].fp
<1> DEFINE r == [s \in Slots |-> Remembered(rec[s])]
           opens == {s \in Slots : MayOpen(s, r[s])}
           closes == {s \in Slots : r[s].fp # None /\ ~Wants(r[s]) /\ r[s].sess # None}
           cmd(s) == IF s \in opens
                     THEN [op |-> "Open", slot |-> s, peer |-> r[s].fp]
                     ELSE [op |-> "Close", slot |-> s, id |-> r[s].sess]
           T == opens \cup closes
           order == SetToSeq(T)
           m == Cardinality(T)
           n == Len(queue)
<1>1. /\ rec' = r
      /\ opening' = [s \in Slots |-> opening[s] \/ s \in opens]
      /\ queue' = queue \o [i \in DOMAIN order |-> cmd(order[i])]
  BY ZenonT(30) DEF Decide
<1>2. /\ r \in [Slots -> Records]
      /\ \A s \in Slots : r[s].sess \in {rec[s].sess, None} /\ r[s].fp = rec[s].fp
  BY ZenonT(60) DEF Shapes, Records, Remembered, SessionOrNone
<1>3. \A s \in opens : r[s].sess = None /\ ~opening[s] /\ r[s].fp \in Peers
  BY <1>2 DEF MayOpen, Wants, Records
<1>4. \A s \in closes : s \notin opens /\ r[s].sess # None /\ r[s].sess \in Ids
  BY <1>2, <1>3 DEF Records, SessionOrNone
<1>0. \A s \in Slots : opening'[s] <=> opening[s] \/ s \in opens
  BY <1>1, ZenonT(30)
<1>19. \A s \in opens : cmd(s).op = "Open" /\ cmd(s).peer = r[s].fp
  OBVIOUS
<1>20. \A s \in T : s \notin opens => cmd(s).op = "Close" /\ cmd(s).id = r[s].sess
  OBVIOUS
<1>5. \A s \in T : cmd(s) \in Commands /\ cmd(s).slot = s
  BY <1>3, <1>4 DEF Commands
<1>6. /\ m \in Nat /\ order \in [1 .. m -> T]
      /\ \A i, j \in 1 .. m : order[i] = order[j] => i = j
      /\ \A s \in T : \E i \in 1 .. m : order[i] = s
  BY InOrder
<1> HIDE DEF r, opens, closes, order, m
<1>7. n \in Nat /\ queue \in Seq(Commands) /\ DOMAIN queue = 1 .. n
  BY DEF Shapes
<1> DEFINE more == [i \in 1 .. m |-> cmd(order[i])]
<1>8. more \in Seq(Commands) /\ Len(more) = m
  BY <1>5, <1>6
<1>9. queue' = queue \o more
  BY <1>1, <1>6
<1> HIDE DEF cmd, n
<1>10. \A i \in 1 .. m : more[i] = cmd(order[i])
  OBVIOUS
<1> HIDE DEF more
<1>11. /\ queue' \in Seq(Commands) /\ Len(queue') = n + m /\ DOMAIN queue' = 1 .. n + m
       /\ \A i \in 1 .. n : queue'[i] = queue[i]
       /\ \A i \in n + 1 .. n + m : queue'[i] = more[i - n]
  <2>1. queue' \in Seq(Commands) /\ Len(queue') = n + m
    BY <1>7, <1>8, <1>9, ConcatProperties DEF n
  <2>2. DOMAIN queue' = 1 .. n + m
    BY <2>1, LenProperties
  <2>3. \A i \in 1 .. n + m : queue'[i] = IF i <= n THEN queue[i] ELSE more[i - n]
    BY <1>7, <1>8, <1>9, ConcatProperties DEF n
  <2> QED
    <3>1. \A i \in 1 .. n : i \in 1 .. n + m /\ i <= n
      BY <1>6, <1>7
    <3>2. \A i \in n + 1 .. n + m : i \in 1 .. n + m /\ ~(i <= n)
      BY <1>6, <1>7
    <3>3. \A i \in 1 .. n : queue'[i] = queue[i]
      BY <2>3, <3>1
    <3>4. \A i \in n + 1 .. n + m : queue'[i] = more[i - n]
      BY <2>3, <3>2
    <3> QED
      BY <2>1, <2>2, <3>3, <3>4
<1>12. DOMAIN queue' \ DOMAIN queue = n + 1 .. n + m
  BY <1>6, <1>7, <1>11
<1>13. \A i \in n + 1 .. n + m : i - n \in 1 .. m /\ order[i - n] \in T
                                 /\ queue'[i] = cmd(order[i - n])
  BY <1>6, <1>7, <1>10, <1>11, SMTT(30)
<1>14. \A i, j \in n + 1 .. n + m : queue'[i].slot = queue'[j].slot => i = j
  <2> SUFFICES ASSUME NEW i \in n + 1 .. n + m, NEW j \in n + 1 .. n + m,
                      queue'[i].slot = queue'[j].slot
               PROVE  i = j
    OBVIOUS
  <2>1. order[i - n] = order[j - n]
    BY <1>5, <1>13
  <2>2. i - n = j - n
    BY <1>6, <1>13, <2>1
  <2> QED
    BY <1>6, <1>7, <2>2
<1>15. ASSUME NEW i \in n + 1 .. n + m
       PROVE  LET s == queue'[i].slot IN
              \/ queue'[i].op = "Open" /\ ~opening[s] /\ opening'[s] /\ rec'[s].sess = None
              \/ queue'[i].op = "Close" /\ rec'[s].sess = queue'[i].id /\ rec'[s].sess # None
  <2> DEFINE u == order[i - n]
  <2>1. u \in T /\ queue'[i] = cmd(u) /\ queue'[i].slot = u
    BY <1>5, <1>13
  <2>2. u \in Slots
    BY <2>1 DEF opens, closes
  <2> HIDE DEF u
  <2>3. CASE u \in opens
    BY <1>0, <1>1, <1>3, <1>19, <2>1, <2>2, <2>3
  <2>4. CASE u \notin opens
    BY <1>1, <1>4, <1>20, <2>1, <2>2, <2>4
  <2> QED
    BY <2>3, <2>4
<1>16. ASSUME NEW s \in Slots
       PROVE  opening'[s] <=> opening[s] \/ \E i \in n + 1 .. n + m :
                                               queue'[i].op = "Open" /\ queue'[i].slot = s
  <2>1. ASSUME s \in opens
        PROVE  \E i \in n + 1 .. n + m : queue'[i].op = "Open" /\ queue'[i].slot = s
    <3>1. PICK i \in 1 .. m : order[i] = s
      BY <1>6, <2>1
    <3>2. n + i \in n + 1 .. n + m /\ queue'[n + i] = cmd(s)
      BY <1>6, <1>7, <1>13, <3>1
    <3> QED
      BY <1>5, <1>19, <2>1, <3>2
  <2>2. ASSUME NEW i \in n + 1 .. n + m, queue'[i].op = "Open", queue'[i].slot = s
        PROVE  s \in opens
    BY <1>5, <1>13, <1>20, <2>2
  <2> QED
    BY <1>0, <2>1, <2>2
<1>17. opening' \in [Slots -> BOOLEAN]
  BY <1>1
<1>18. Len(queue') >= Len(queue)
  BY <1>6, <1>7, <1>11 DEF n
<1>21. /\ rec' \in [Slots -> Records]
       /\ \A s \in Slots : rec'[s].sess \in {rec[s].sess, None} /\ rec'[s].fp = rec[s].fp
  BY <1>1, <1>2
<1>22. \A i \in DOMAIN queue : queue'[i] = queue[i]
  BY <1>7, <1>11
<1>23. \A i, j \in DOMAIN queue' \ DOMAIN queue : queue'[i].slot = queue'[j].slot => i = j
  BY <1>12, <1>14, Zenon
<1>24. \A i \in DOMAIN queue' \ DOMAIN queue :
          LET s == queue'[i].slot IN
          \/ queue'[i].op = "Open" /\ ~opening[s] /\ opening'[s] /\ rec'[s].sess = None
          \/ queue'[i].op = "Close" /\ rec'[s].sess = queue'[i].id /\ rec'[s].sess # None
  BY <1>12, <1>15, Zenon
<1>25. \A s \in Slots : opening'[s] <=>
          opening[s] \/ \E i \in DOMAIN queue' \ DOMAIN queue :
                            queue'[i].op = "Open" /\ queue'[i].slot = s
  BY <1>12, <1>16, Zenon
<1>26. \A i \in DOMAIN queue' \ DOMAIN queue : queue'[i].op = "Open" =>
          queue'[i].peer = rec[queue'[i].slot].fp
  <2> SUFFICES ASSUME NEW i \in n + 1 .. n + m, queue'[i].op = "Open"
               PROVE  queue'[i].peer = rec[queue'[i].slot].fp
    BY <1>12, Zenon
  <2>1. order[i - n] \in T /\ queue'[i] = cmd(order[i - n]) /\ queue'[i].slot = order[i - n]
    BY <1>5, <1>13
  <2>2. order[i - n] \in opens
    BY <1>20, <2>1
  <2>3. order[i - n] \in Slots
    BY <2>2 DEF opens
  <2> QED
    BY <1>2, <1>19, <2>1, <2>2, <2>3
<1> QED
  BY <1>11, <1>17, <1>18, <1>21, <1>22, <1>23, <1>24, <1>25, <1>26, ZenonT(60)

-----------------------------------------------------------------------------
(* Every step keeps the shapes.                                            *)

\* The ids in the table, and none of them is the one a new session gets.
LEMMA LiveIdsTyped == Shapes => LiveIds \subseteq Ids /\ LiveIds \subseteq Mentioned
  BY DEF Shapes, LiveIds, Mentioned

\* Nothing is under way at the start.
LEMMA InitHolds == Init => HInv
  BY SessionsAssumption
  DEF Init, HInv, Shapes, Records, Works, Passes, Forgets, Idle, NoRec, SessionOrNone, OpenedIsOwn,
      RecordedIsTenants, OneOpen, CloseFirst, Busy, OpenAt, CloseAt, Commands

\* What the loss of a connection leaves of the shapes.
TornTyped(p) ==
    /\ conn' \in [Peers -> {"none", "half", "ready"}]
    /\ live' \subseteq live
    /\ worker' \in Works

LEMMA TornShapes == ASSUME Shapes, NEW p \in Peers, Torn(p) PROVE TornTyped(p)
<1>1. conn' \in [Peers -> {"none", "half", "ready"}] /\ live' \subseteq live
  BY DEF Torn, Shapes
<1>2. CASE worker' = worker
  BY <1>1, <1>2 DEF TornTyped, Shapes
<1>3. CASE worker.at = "open" /\ worker' = [worker EXCEPT !.at = "failed"]
  <2>1. worker \in Works
    BY DEF Shapes
  <2>2. worker' \in Works
    BY <1>3, <2>1 DEF Works, Idle
  <2> QED
    BY <1>1, <2>2 DEF TornTyped
<1> QED
  BY <1>2, <1>3 DEF Torn

\* Every step keeps the shapes of the records.
LEMMA StepShapes == Shapes /\ [Next]_vars => Shapes'
<1> SUFFICES ASSUME Shapes, [Next]_vars PROVE Shapes'
  OBVIOUS
<1> USE SessionsAssumption
    DEF Shapes, Records, Works, Passes, Forgets, Idle, NoRec, SessionOrNone, Reports, Upset, envVars, haldev, vars
<1>1. ASSUME Snapshot PROVE Shapes'
  <2>1. LiveIds \in SUBSET Ids
    BY LiveIdsTyped
  <2>2. pass' \in Passes
    BY <1>1, <2>1 DEF Snapshot
  <2> QED
    BY <1>1, <2>2 DEF Snapshot
<1>2. ASSUME Decide PROVE Shapes'
  <2>1. queue' \in Seq(Commands) /\ rec' \in [Slots -> Records] /\ opening' \in [Slots -> BOOLEAN]
    BY <1>2, DecideSends
  <2>2. UNCHANGED <<conn, modeB, live, worker, forget>> /\ pass' \in Passes
    BY <1>2, ZenonT(30) DEF Decide
  <2> HIDE DEF Records, Works, Passes, Forgets
  <2> QED
    BY <2>1, <2>2
<1>3. ASSUME Take PROVE Shapes'
  <2> DEFINE c == queue[1]
  <2>1. queue # << >> /\ queue' = RemoveAt(queue, 1) /\ UNCHANGED <<conn, modeB, live, opening, pass, forget>>
    BY <1>3 DEF Take, Turn
  <2>2. queue' \in Seq(Commands) /\ c \in Commands
    BY <2>1, QueueTail
  <2>3. CASE c.op = "Open"
    <3>1. worker' = [at |-> "dial", slot |-> c.slot, peer |-> c.peer] /\ UNCHANGED rec
      BY <1>3, <2>3 DEF Take, Turn
    <3>2. c.slot \in Slots /\ c.peer \in Peers
      BY <2>2, <2>3 DEF Commands
    <3>3. worker' \in Works
      BY <3>1, <3>2
    <3> HIDE DEF c, Records, Works, Passes, Forgets
    <3> QED
      BY <2>1, <2>2, <3>1, <3>3
  <2>4. CASE c.op # "Open"
    <3>1. worker' = [at |-> "close", id |-> c.id] /\ rec' = [rec EXCEPT ![c.slot].sess = None]
      BY <1>3, <2>4 DEF Take, Turn
    <3>2. c.slot \in Slots /\ c.id \in Ids
      BY <2>2, <2>4 DEF Commands
    <3>3. worker' \in Works
      BY <3>1, <3>2
    <3> HIDE DEF c
    <3>4. rec' \in [Slots -> Records]
      <4>1. rec[c.slot] \in Records
        BY <3>2
      <4>2. [rec[c.slot] EXCEPT !.sess = None] \in Records
        BY <4>1
      <4> HIDE DEF Records, Works, Passes, Forgets
      <4> QED
        BY <3>1, <3>2, <4>2
    <3> HIDE DEF Records, Works, Passes, Forgets
    <3> QED
      BY <2>1, <2>2, <3>3, <3>4
  <2> QED
    BY <2>3, <2>4
<1>4. ASSUME WorkerClose PROVE Shapes'
  BY <1>4 DEF WorkerClose, Closed
<1>5. ASSUME Dial PROVE Shapes'
  BY <1>5 DEF Dial
<1>6. ASSUME Open PROVE Shapes'
  <2> DEFINE id == CHOOSE i \in Fresh : TRUE
  <2>1. id \in Ids
    BY <1>6 DEF Open, Fresh
  <2>2. /\ worker.at = "open" /\ live' = live \cup {[id |-> id, slot |-> worker.slot, peer |-> worker.peer]}
        /\ worker' = [at |-> "opened", slot |-> worker.slot, peer |-> worker.peer, id |-> id]
        /\ UNCHANGED <<conn, modeB, rec, opening, pass, queue, forget>>
    BY <1>6 DEF Open
  <2> HIDE DEF id
  <2>3. worker' \in Works
    BY <2>1, <2>2
  <2>4. live' \subseteq [id : Ids, slot : Slots, peer : Peers]
    BY <2>1, <2>2
  <2> HIDE DEF Records, Works, Passes, Forgets
  <2> QED
    BY <2>2, <2>3, <2>4
<1>7. ASSUME OpenFails PROVE Shapes'
  BY <1>7 DEF OpenFails
<1>8. ASSUME Record PROVE Shapes'
  <2>1. /\ opening' = [opening EXCEPT ![worker.slot] = FALSE]
        /\ UNCHANGED <<conn, modeB, live, queue, pass, forget>>
    BY <1>8 DEF Record
  <2>2. worker' \in Works
    BY <1>8 DEF Record
  <2>3. rec' \in [Slots -> Records]
    <3>1. CASE UNCHANGED rec
      BY <3>1
    <3>2. CASE ~UNCHANGED rec
      <4>1. worker.slot \in Slots /\ worker.id \in Ids
        BY <1>8, <3>2 DEF Record
      <4>2. rec[worker.slot] \in Records
        BY <4>1
      <4>3. [rec[worker.slot] EXCEPT !.sess = worker.id] \in Records
        BY <4>1, <4>2
      <4>4. rec' = [rec EXCEPT ![worker.slot] = [rec[worker.slot] EXCEPT !.sess = worker.id]]
        BY <1>8, <3>2 DEF Record
      <4> HIDE DEF Records, Works, Passes, Forgets
      <4> QED
        BY <4>1, <4>3, <4>4
    <3> QED
      BY <3>1, <3>2
  <2> HIDE DEF Records, Works, Passes, Forgets
  <2> QED
    BY <2>1, <2>2, <2>3
<1>9. ASSUME NEW s \in Slots, NEW p \in Peers, Assigned(s, p) PROVE Shapes'
  BY <1>9 DEF Assigned
<1>10. ASSUME NEW s \in Slots, BoundReport(s) PROVE Shapes'
  <2>1. rec[s] \in Records
    OBVIOUS
  <2>2. [rec[s] EXCEPT !.bound = TRUE] \in Records
    BY <2>1
  <2>3. rec' = [rec EXCEPT ![s] = [rec[s] EXCEPT !.bound = TRUE]]
    BY <1>10 DEF BoundReport
  <2>4. UNCHANGED <<conn, modeB, live, opening, queue, worker, pass, forget>>
    BY <1>10 DEF BoundReport
  <2> HIDE DEF Records, Works, Passes, Forgets
  <2> QED
    BY <2>2, <2>3, <2>4
<1>11. ASSUME NEW s \in Slots, DelistedReport(s) PROVE Shapes'
  <2>1. rec[s] \in Records
    OBVIOUS
  <2>2. [rec[s] EXCEPT !.bound = FALSE, !.io = FALSE, !.linger = FALSE] \in Records
    BY <2>1
  <2>3. rec' = [rec EXCEPT ![s] = [rec[s] EXCEPT !.bound = FALSE, !.io = FALSE, !.linger = FALSE]]
    BY <1>11 DEF DelistedReport
  <2>4. UNCHANGED <<conn, modeB, live, opening, queue, worker, pass, forget>>
    BY <1>11 DEF DelistedReport
  <2> HIDE DEF Records, Works, Passes, Forgets
  <2> QED
    BY <2>2, <2>3, <2>4
<1>12. ASSUME NEW s \in Slots, FreeReport(s) PROVE Shapes'
  BY <1>12 DEF FreeReport
<1>13. ASSUME NEW s \in Slots, DetachedReport(s) PROVE Shapes'
  <2>1. rec[s] \in Records
    OBVIOUS
  <2>2. [rec[s] EXCEPT !.bound = FALSE, !.io = FALSE] \in Records
    BY <2>1
  <2>3. rec' = [rec EXCEPT ![s] = [rec[s] EXCEPT !.bound = FALSE, !.io = FALSE]]
    BY <1>13 DEF DetachedReport
  <2>4. UNCHANGED <<conn, modeB, live, opening, queue, worker, pass, forget>>
    BY <1>13 DEF DetachedReport
  <2> HIDE DEF Records, Works, Passes, Forgets
  <2> QED
    BY <2>2, <2>3, <2>4
<1>14. ASSUME NEW s \in Slots, NEW running \in BOOLEAN, IoReport(s, running) PROVE Shapes'
  <2>1. [rec[s] EXCEPT !.io = running, !.linger = ~running] \in Records
    <3>1. rec[s] \in Records /\ (~running) \in BOOLEAN
      OBVIOUS
    <3> QED
      BY <3>1
  <2>2. rec' = [rec EXCEPT ![s] = [rec[s] EXCEPT !.io = running, !.linger = ~running]]
    BY <1>14 DEF IoReport
  <2>3. UNCHANGED <<conn, modeB, live, opening, queue, worker, pass, forget>>
    BY <1>14 DEF IoReport
  <2> HIDE DEF Records, Works, Passes, Forgets
  <2> QED
    BY <2>1, <2>2, <2>3
<1>15. ASSUME NEW s \in Slots, LingerOver(s) PROVE Shapes'
  <2>1. rec[s] \in Records
    OBVIOUS
  <2>2. [rec[s] EXCEPT !.linger = FALSE] \in Records
    BY <2>1
  <2>3. rec' = [rec EXCEPT ![s] = [rec[s] EXCEPT !.linger = FALSE]]
    BY <1>15 DEF LingerOver
  <2>4. UNCHANGED <<conn, modeB, live, opening, queue, worker, pass, forget>>
    BY <1>15 DEF LingerOver
  <2> HIDE DEF Records, Works, Passes, Forgets
  <2> QED
    BY <2>2, <2>3, <2>4
<1>16. ASSUME NEW s \in Slots, CoolingOver(s) PROVE Shapes'
  BY <1>16 DEF CoolingOver
<1>17. ASSUME NEW p \in Peers, Contract(p) PROVE Shapes'
  BY <1>17 DEF Contract
<1>18. ASSUME NEW p \in Peers, Inbound(p) PROVE Shapes'
  BY <1>18 DEF Inbound
<1>19. ASSUME NEW p \in Peers, DropConn(p) PROVE Shapes'
  <2>1. TornTyped(p) /\ UNCHANGED <<modeB, rec, opening, queue, pass, forget>>
    BY <1>19, TornShapes DEF DropConn
  <2> HIDE DEF Records, Works, Passes, Forgets
  <2> QED
    BY <2>1 DEF TornTyped
<1>20. ASSUME SetMode PROVE Shapes'
  BY <1>20 DEF SetMode
<1>21. ASSUME Announce PROVE Shapes'
  BY <1>21 DEF Announce
<1>22. ASSUME NEW p \in Peers, Forget(p) PROVE Shapes'
  <2>1. UNCHANGED <<conn, modeB, live, opening, queue, worker, pass>>
    BY <1>22 DEF Forget
  <2>2. rec' \in [Slots -> Records] /\ forget' \in Forgets
    <3>1. ASSUME UNCHANGED rec, forget' = [at |-> "closing", peer |-> p, id |-> None]
          PROVE  rec' \in [Slots -> Records] /\ forget' \in Forgets
      BY <3>1
    <3>2. ASSUME NEW s \in Slots,
                 rec' = [rec EXCEPT ![s].sess = None, ![s].io = FALSE],
                 forget' = [at |-> "closing", peer |-> p, id |-> rec[s].sess]
          PROVE  rec' \in [Slots -> Records] /\ forget' \in Forgets
      <4>1. forget' \in Forgets
        BY <3>2
      <4>2. rec[s] \in Records
        OBVIOUS
      <4>3. [rec[s] EXCEPT !.sess = None, !.io = FALSE] \in Records
        BY <4>2
      <4>4. rec' = [rec EXCEPT ![s] = [rec[s] EXCEPT !.sess = None, !.io = FALSE]]
        BY <3>2
      <4> HIDE DEF Records, Forgets
      <4> QED
        BY <4>1, <4>3, <4>4
    <3> HIDE DEF Records, Forgets
    <3> QED
      BY <1>22, <3>1, <3>2 DEF Forget
  <2> HIDE DEF Records, Works, Passes, Forgets
  <2> QED
    BY <2>1, <2>2
<1>23. ASSUME ForgetCloses PROVE Shapes'
  BY <1>23 DEF ForgetCloses, Closed
<1>24. ASSUME ForgetDrops PROVE Shapes'
  <2>1. forget.peer \in Peers /\ forget' \in Forgets
    BY <1>24 DEF ForgetDrops
  <2>2. TornTyped(forget.peer) /\ UNCHANGED <<modeB, rec, opening, queue, pass>>
    BY <1>24, <2>1, TornShapes DEF ForgetDrops
  <2> HIDE DEF Records, Works, Passes, Forgets
  <2> QED
    BY <2>1, <2>2 DEF TornTyped
<1>25. ASSUME NEW id \in Ids, SessionEnds(id) PROVE Shapes'
  BY <1>25 DEF SessionEnds, Closed
<1>26. ASSUME UNCHANGED vars PROVE Shapes'
  BY <1>26 DEF vars
<1> HIDE DEF Shapes, Records, Works, Passes, Forgets, Idle, NoRec, SessionOrNone, Reports, Upset, envVars, haldev, vars
<1> QED
  BY <1>1, <1>2, <1>3, <1>4, <1>5, <1>6, <1>7, <1>8, <1>9, <1>10, <1>11, <1>12, <1>13, <1>14,
     <1>15, <1>16, <1>17, <1>18, <1>19, <1>20, <1>21, <1>22, <1>23, <1>24, <1>25, <1>26
     DEF Next, Coordinator, Worker, Driver, Time, Links, User

-----------------------------------------------------------------------------
(* Most steps neither open, record nor queue anything.                     *)

\* No session comes into the table; what a slot records stays with its peer or goes.
Steady ==
    /\ live' \subseteq live
    /\ \A s \in Slots : \/ rec'[s].sess = None
                        \/ rec'[s].sess = rec[s].sess /\ rec'[s].fp = rec[s].fp
    /\ worker'.at = "opened" => worker' = worker

\* Nor does it say that a session is being opened, or that it no longer is.
Quiet ==
    /\ UNCHANGED <<opening, queue>>
    /\ \A s \in Slots : (Busy(s)' <=> Busy(s)) /\ (Busy(s) => worker'.peer = worker.peer)

\* What the steps of the driver, the user, the links and time leave alone.
LEMMA QuietSteps ==
  Shapes /\ [Next]_vars /\ ~Decide /\ ~Take /\ ~Open /\ ~Record => Steady /\ Quiet
<1> SUFFICES ASSUME Shapes, [Next]_vars, ~Decide, ~Take, ~Open, ~Record PROVE Steady /\ Quiet
  OBVIOUS
<1> USE SessionsAssumption
    DEF Shapes, Records, Works, Idle, NoRec, SessionOrNone, Reports, Upset, envVars, haldev, vars, Busy, Quiet, Steady
<1>1. ASSUME Snapshot PROVE Steady /\ Quiet
  BY <1>1 DEF Snapshot
<1>2. ASSUME WorkerClose PROVE Steady /\ Quiet
  BY <1>2 DEF WorkerClose, Closed
<1>3. ASSUME Dial PROVE Steady /\ Quiet
  BY <1>3 DEF Dial
<1>4. ASSUME OpenFails PROVE Steady /\ Quiet
  BY <1>4 DEF OpenFails
<1>5. ASSUME NEW s \in Slots, NEW p \in Peers, Assigned(s, p) PROVE Steady /\ Quiet
  BY <1>5 DEF Assigned
<1>6. ASSUME NEW s \in Slots, BoundReport(s) PROVE Steady /\ Quiet
  BY <1>6 DEF BoundReport
<1>7. ASSUME NEW s \in Slots, DelistedReport(s) PROVE Steady /\ Quiet
  BY <1>7 DEF DelistedReport
<1>8. ASSUME NEW s \in Slots, FreeReport(s) PROVE Steady /\ Quiet
  BY <1>8 DEF FreeReport
<1>9. ASSUME NEW s \in Slots, DetachedReport(s) PROVE Steady /\ Quiet
  BY <1>9 DEF DetachedReport
<1>10. ASSUME NEW s \in Slots, NEW running \in BOOLEAN, IoReport(s, running) PROVE Steady /\ Quiet
  BY <1>10 DEF IoReport
<1>11. ASSUME NEW s \in Slots, LingerOver(s) PROVE Steady /\ Quiet
  BY <1>11 DEF LingerOver
<1>12. ASSUME NEW s \in Slots, CoolingOver(s) PROVE Steady /\ Quiet
  BY <1>12 DEF CoolingOver
<1>13. ASSUME NEW p \in Peers, Contract(p) PROVE Steady /\ Quiet
  BY <1>13 DEF Contract
<1>14. ASSUME NEW p \in Peers, Inbound(p) PROVE Steady /\ Quiet
  BY <1>14 DEF Inbound
<1>15. ASSUME NEW p \in Peers, DropConn(p) PROVE Steady /\ Quiet
  BY <1>15 DEF DropConn, Torn
<1>16. ASSUME SetMode PROVE Steady /\ Quiet
  BY <1>16 DEF SetMode
<1>17. ASSUME Announce PROVE Steady /\ Quiet
  BY <1>17 DEF Announce
<1>18. ASSUME NEW p \in Peers, Forget(p) PROVE Steady /\ Quiet
  <2>1. UNCHANGED <<live, worker, opening, queue>>
    BY <1>18 DEF Forget
  <2>2. ASSUME NEW s \in Slots, rec' = [rec EXCEPT ![s].sess = None, ![s].io = FALSE]
        PROVE  /\ rec'[s].sess = None
               /\ \A t \in Slots \ {s} : rec'[t] = rec[t]
    <3>1. rec[s] \in Records /\ rec' = [rec EXCEPT ![s] = [rec[s] EXCEPT !.sess = None, !.io = FALSE]]
      BY <2>2, ZenonT(60)
    <3>2. [rec[s] EXCEPT !.sess = None, !.io = FALSE].sess = None
      BY <3>1
    <3>3. rec \in [Slots -> Records]
      OBVIOUS
    <3> HIDE DEF Records, Shapes
    <3> QED
      BY <3>1, <3>2, <3>3
  <2>3. \A s \in Slots : \/ rec'[s].sess = None
                         \/ rec'[s].sess = rec[s].sess /\ rec'[s].fp = rec[s].fp
    BY <1>18, <2>2 DEF Forget
  <2> QED
    BY <2>1, <2>3
<1>19. ASSUME ForgetCloses PROVE Steady /\ Quiet
  BY <1>19 DEF ForgetCloses, Closed
<1>20. ASSUME ForgetDrops PROVE Steady /\ Quiet
  BY <1>20 DEF ForgetDrops, Torn
<1>21. ASSUME NEW id \in Ids, SessionEnds(id) PROVE Steady /\ Quiet
  BY <1>21 DEF SessionEnds, Closed
<1>22. ASSUME UNCHANGED vars PROVE Steady /\ Quiet
  BY <1>22 DEF vars
<1> HIDE DEF Shapes, Records, Works, Idle, NoRec, SessionOrNone, Reports, Upset, envVars, haldev, vars, Busy, Quiet, Steady
<1> QED
  BY <1>1, <1>2, <1>3, <1>4, <1>5, <1>6, <1>7, <1>8, <1>9, <1>10, <1>11, <1>12, <1>13, <1>14,
     <1>15, <1>16, <1>17, <1>18, <1>19, <1>20, <1>21, <1>22
     DEF Next, Coordinator, Worker, Driver, Time, Links, User

-----------------------------------------------------------------------------
(* The session a slot records is its tenant's.                             *)

Owned == OpenedIsOwn /\ RecordedIsTenants

\* A steady step keeps it.
LEMMA SteadyOwned == Shapes /\ Owned /\ Steady => Owned'
  BY SessionsAssumption DEF Shapes, Owned, OpenedIsOwn, RecordedIsTenants, Steady

\* So does every other one: the id of a new session is nobody's, and what is
\* recorded has been compared with the slot first.
LEMMA StepOwned == Shapes /\ Shapes' /\ Owned /\ [Next]_vars => Owned'
<1> SUFFICES ASSUME Shapes, Shapes', Owned, [Next]_vars PROVE Owned'
  OBVIOUS
<1>1. CASE Decide
  <2>1. \A s \in Slots : rec'[s].sess \in {rec[s].sess, None} /\ rec'[s].fp = rec[s].fp
    BY <1>1, DecideSends
  <2>2. UNCHANGED <<live, worker>>
    BY <1>1, ZenonT(30) DEF Decide
  <2> QED
    BY <2>1, <2>2, SteadyOwned DEF Steady
<1>2. CASE Take
  <2>1. UNCHANGED live /\ worker'.at # "opened"
    BY <1>2 DEF Take
  <2>2. \A s \in Slots : \/ rec'[s].sess = None
                         \/ rec'[s].sess = rec[s].sess /\ rec'[s].fp = rec[s].fp
    BY <1>2 DEF Take, Shapes, Records
  <2> QED
    BY <2>1, <2>2, SteadyOwned DEF Steady
<1>3. CASE Open
  <2> DEFINE id == CHOOSE i \in Fresh : TRUE
  <2>1. /\ id \in Ids /\ id \notin LiveIds /\ \A s \in Slots : id # rec[s].sess
    BY <1>3 DEF Open, Fresh, Mentioned
  <2>2. /\ live' = live \cup {[id |-> id, slot |-> worker.slot, peer |-> worker.peer]}
        /\ worker' = [at |-> "opened", slot |-> worker.slot, peer |-> worker.peer, id |-> id]
        /\ UNCHANGED rec
    BY <1>3 DEF Open, haldev
  <2>3. \A x \in live : x.id # id
    BY <2>1 DEF LiveIds
  <2> HIDE DEF id
  <2>4. RecordedIsTenants'
    BY <2>1, <2>2, <2>3 DEF Owned, RecordedIsTenants
  <2>5. OpenedIsOwn'
    BY <2>2, <2>3 DEF OpenedIsOwn
  <2> QED
    BY <2>4, <2>5 DEF Owned
<1>4. CASE Record
  <2>1. UNCHANGED live /\ worker'.at # "opened"
    BY <1>4 DEF Record, Idle
  <2>2. CASE UNCHANGED rec
    BY <2>1, <2>2, SteadyOwned DEF Steady
  <2>3. CASE ~UNCHANGED rec
    <3>1. /\ worker.at = "opened" /\ rec[worker.slot].fp = worker.peer
          /\ rec' = [rec EXCEPT ![worker.slot].sess = worker.id]
      BY <1>4, <2>3 DEF Record, Stale
    <3>2. worker.slot \in Slots
      BY <3>1 DEF Shapes, Works, Idle
    <3>3. /\ rec'[worker.slot].sess = worker.id /\ rec'[worker.slot].fp = worker.peer
          /\ \A s \in Slots \ {worker.slot} : rec'[s] = rec[s]
      BY <3>1, <3>2 DEF Shapes, Records
    <3>4. RecordedIsTenants'
      BY <2>1, <3>1, <3>2, <3>3 DEF Owned, OpenedIsOwn, RecordedIsTenants
    <3> QED
      BY <2>1, <3>4 DEF Owned, OpenedIsOwn
  <2> QED
    BY <2>2, <2>3
<1> QED
  BY <1>1, <1>2, <1>3, <1>4, QuietSteps, SteadyOwned

-----------------------------------------------------------------------------
(* One open per slot, and its closes before it.                            *)

\* A quiet step keeps both.
LEMMA QuietKeeps ==
  Shapes /\ OneOpen /\ CloseFirst /\ Quiet
  /\ (\A s \in Slots : rec'[s].sess \in {rec[s].sess, None}) => OneOpen' /\ CloseFirst'
<1> SUFFICES ASSUME Shapes, OneOpen, CloseFirst, Quiet,
                    \A s \in Slots : rec'[s].sess \in {rec[s].sess, None}
             PROVE  OneOpen' /\ CloseFirst'
  OBVIOUS
<1>1. UNCHANGED <<opening, queue>> /\ \A s \in Slots : Busy(s)' <=> Busy(s)
  BY DEF Quiet
<1>2. \A s \in Slots : rec'[s].sess \in {rec[s].sess, None}
  OBVIOUS
<1>3. OneOpen'
  BY <1>1 DEF OneOpen, OpenAt
<1>4. CloseFirst'
  BY <1>1, <1>2 DEF CloseFirst, OpenAt, CloseAt
<1> QED
  BY <1>3, <1>4

\* The coordinator opens only for a slot that has none under way.
LEMMA DecideKeeps ==
  ASSUME Shapes, OneOpen, CloseFirst, Decide
  PROVE  OneOpen' /\ CloseFirst'
<1> DEFINE old == DOMAIN queue
           new == DOMAIN queue' \ DOMAIN queue
<1>1. UNCHANGED worker /\ \A s \in Slots : Busy(s)' <=> Busy(s)
  BY ZenonT(30) DEF Decide, Busy
<1>2. /\ \A i \in old : queue'[i] = queue[i]
      /\ \A i, j \in new : queue'[i].slot = queue'[j].slot => i = j
      /\ \A i \in new : \/ /\ queue'[i].op = "Open" /\ ~opening[queue'[i].slot]
                           /\ opening'[queue'[i].slot] /\ rec'[queue'[i].slot].sess = None
                        \/ /\ queue'[i].op = "Close" /\ rec'[queue'[i].slot].sess = queue'[i].id
                           /\ rec'[queue'[i].slot].sess # None
      /\ \A s \in Slots : rec'[s].sess \in {rec[s].sess, None}
  BY DecideSends
<1>3. \A s \in Slots : opening'[s] <=>
         opening[s] \/ \E i \in new : queue'[i].op = "Open" /\ queue'[i].slot = s
  BY DecideSends
<1>4. old \subseteq DOMAIN queue' /\ DOMAIN queue' = old \cup new
      /\ \A i \in old, j \in new : i < j
  <2>1. Len(queue) \in Nat /\ Len(queue') \in Nat /\ Len(queue) <= Len(queue')
        /\ DOMAIN queue = 1 .. Len(queue) /\ DOMAIN queue' = 1 .. Len(queue')
    BY DecideSends, LenProperties DEF Shapes
  <2> QED
    BY <2>1
<1> HIDE DEF old, new
<1>5. \A i \in old, s \in Slots : (OpenAt(i, s)' <=> OpenAt(i, s)) /\ (CloseAt(i, s)' <=> CloseAt(i, s))
  BY <1>2 DEF OpenAt, CloseAt
<1>6. \A i \in new, s \in Slots : OpenAt(i, s)' => ~opening[s] /\ opening'[s] /\ rec'[s].sess = None
  BY <1>2 DEF OpenAt
<1>7. \A i \in new, s \in Slots : CloseAt(i, s)' => rec'[s].sess = queue'[i].id /\ rec'[s].sess # None
  BY <1>2 DEF CloseAt
<1>8. \A i, j \in new, s \in Slots : OpenAt(i, s)' /\ (OpenAt(j, s)' \/ CloseAt(j, s)') => i = j
  BY <1>2 DEF OpenAt, CloseAt
<1>9. ASSUME NEW s \in Slots
      PROVE  /\ \A i, j \in DOMAIN queue' : OpenAt(i, s)' /\ OpenAt(j, s)' => i = j
             /\ Busy(s)' => \A i \in DOMAIN queue' : ~OpenAt(i, s)'
             /\ opening'[s] <=> Busy(s)' \/ \E i \in DOMAIN queue' : OpenAt(i, s)'
  <2>1. /\ \A i, j \in old : OpenAt(i, s) /\ OpenAt(j, s) => i = j
        /\ Busy(s) => \A i \in old : ~OpenAt(i, s)
        /\ opening[s] <=> Busy(s) \/ \E i \in old : OpenAt(i, s)
    BY DEF OneOpen, old
  <2>2. opening'[s] <=> opening[s] \/ \E i \in new : OpenAt(i, s)'
    BY <1>3 DEF OpenAt
  <2> QED
    BY <1>1, <1>4, <1>5, <1>6, <1>8, <2>1, <2>2
<1>10. ASSUME NEW s \in Slots
       PROVE  /\ opening'[s] => rec'[s].sess = None
              /\ Busy(s)' => \A i \in DOMAIN queue' : ~CloseAt(i, s)'
              /\ \A i, j \in DOMAIN queue' : CloseAt(i, s)' /\ OpenAt(j, s)' => i < j
              /\ \A i \in DOMAIN queue' : CloseAt(i, s)' => rec'[s].sess \in {None, queue'[i].id}
  <2>1. /\ opening[s] => rec[s].sess = None
        /\ Busy(s) => \A i \in old : ~CloseAt(i, s)
        /\ \A i, j \in old : CloseAt(i, s) /\ OpenAt(j, s) => i < j
        /\ \A i \in old : CloseAt(i, s) => rec[s].sess \in {None, queue[i].id}
    BY DEF CloseFirst, old
  <2>2. opening'[s] <=> opening[s] \/ \E i \in new : OpenAt(i, s)'
    BY <1>3 DEF OpenAt
  <2>3. Busy(s) \/ (\E i \in old : OpenAt(i, s)) => opening[s]
    BY DEF OneOpen, old
  <2>4. rec'[s].sess \in {rec[s].sess, None} /\ (opening'[s] => rec'[s].sess = None)
    BY <1>2, <1>6, <2>1, <2>2
  <2>5. Busy(s)' => \A i \in DOMAIN queue' : ~CloseAt(i, s)'
    BY <1>1, <1>4, <1>5, <1>7, <2>1, <2>2, <2>3, <2>4
  <2>6. ASSUME NEW i \in DOMAIN queue', NEW j \in DOMAIN queue', CloseAt(i, s)', OpenAt(j, s)'
        PROVE  i < j
    <3>1. i \notin new
      BY <1>4, <1>5, <1>6, <1>7, <2>1, <2>2, <2>3, <2>4, <2>6
    <3> QED
      BY <1>4, <1>5, <2>1, <2>6, <3>1
  <2>7. \A i \in DOMAIN queue' : CloseAt(i, s)' => rec'[s].sess \in {None, queue'[i].id}
    BY <1>2, <1>4, <1>5, <1>7, <2>1, <2>4
  <2> QED
    BY <2>4, <2>5, <2>6, <2>7
<1>11. OneOpen'
  BY <1>9 DEF OneOpen
<1>12. CloseFirst'
  BY <1>10 DEF CloseFirst
<1> QED
  BY <1>11, <1>12

\* The worker takes the oldest command: an Open has no Close of its slot behind
\* it, and a Close leaves the slot without a session.
LEMMA TakeKeeps ==
  ASSUME Shapes, OneOpen, CloseFirst, Take
  PROVE  OneOpen' /\ CloseFirst'
<1> DEFINE c == queue[1]
           D == DOMAIN queue
<1>1. /\ worker.at = "idle" /\ queue # << >> /\ queue' = RemoveAt(queue, 1)
      /\ UNCHANGED opening
  BY DEF Take, Turn
<1>2. /\ queue \in Seq(Commands) /\ Len(queue) \in Nat /\ Len(queue) >= 1 /\ D = 1 .. Len(queue)
  BY <1>1, EmptySeq, LenProperties DEF Shapes
<1>3. /\ DOMAIN queue' = 1 .. Len(queue) - 1
      /\ \A i \in DOMAIN queue' : queue'[i] = queue[i + 1]
      /\ c \in Commands
  <2>1. /\ queue' \in Seq(Commands) /\ Len(queue') = Len(queue) - 1
        /\ \A i \in 1 .. Len(queue) - 1 : queue'[i] = queue[i + 1]
        /\ c \in Commands
    BY <1>1, <1>2, QueueTail, ZenonT(30)
  <2> QED
    BY <2>1, LenProperties
<1>4. /\ 1 \in D /\ \A i \in DOMAIN queue' : i + 1 \in D /\ i + 1 # 1
      /\ \A i \in D : i # 1 => i - 1 \in DOMAIN queue' /\ i = (i - 1) + 1
      /\ \A i, j \in DOMAIN queue' : i + 1 < j + 1 => i < j
      /\ \A i, j \in DOMAIN queue' : i + 1 = j + 1 => i = j
      /\ \A i \in DOMAIN queue' : ~(i + 1 < 1)
  BY <1>2, <1>3
<1> HIDE DEF D
<1>5. \A i \in DOMAIN queue', s \in Slots :
          (OpenAt(i, s)' <=> OpenAt(i + 1, s)) /\ (CloseAt(i, s)' <=> CloseAt(i + 1, s))
  BY <1>3 DEF OpenAt, CloseAt
<1>6. \A s \in Slots : ~Busy(s)
  BY <1>1 DEF Busy
<1>7. ASSUME NEW s \in Slots
      PROVE  /\ \A i, j \in D : OpenAt(i, s) /\ OpenAt(j, s) => i = j
             /\ opening[s] <=> \E i \in D : OpenAt(i, s)
             /\ opening[s] => rec[s].sess = None
             /\ \A i, j \in D : CloseAt(i, s) /\ OpenAt(j, s) => i < j
             /\ \A i \in D : CloseAt(i, s) => rec[s].sess \in {None, queue[i].id}
  BY <1>6 DEF OneOpen, CloseFirst, D
<1>8. /\ \A s \in Slots : OpenAt(1, s) <=> c.op = "Open" /\ s = c.slot
      /\ c.slot \in Slots
  BY <1>3 DEF OpenAt, Commands
<1>9. CASE c.op = "Open"
  <2>1. worker' = [at |-> "dial", slot |-> c.slot, peer |-> c.peer] /\ UNCHANGED rec
    BY <1>9 DEF Take, Turn
  <2>2. \A s \in Slots : Busy(s)' <=> s = c.slot
    BY <2>1 DEF Busy
  <2>3. ASSUME NEW s \in Slots, s = c.slot
        PROVE  \A i \in DOMAIN queue' : ~OpenAt(i, s)' /\ ~CloseAt(i, s)'
    <3>1. OpenAt(1, s)
      BY <1>8, <1>9, <2>3
    <3> QED
      BY <1>4, <1>5, <1>7, <3>1
  <2>4. ASSUME NEW s \in Slots
        PROVE  /\ \A i, j \in DOMAIN queue' : OpenAt(i, s)' /\ OpenAt(j, s)' => i = j
               /\ Busy(s)' => \A i \in DOMAIN queue' : ~OpenAt(i, s)'
               /\ opening'[s] <=> Busy(s)' \/ \E i \in DOMAIN queue' : OpenAt(i, s)'
    <3>1. \A i, j \in DOMAIN queue' : OpenAt(i, s)' /\ OpenAt(j, s)' => i = j
      BY <1>4, <1>5, <1>7
    <3>2. Busy(s)' => \A i \in DOMAIN queue' : ~OpenAt(i, s)'
      BY <2>2, <2>3
    <3>3. (\E i \in D : OpenAt(i, s)) <=> s = c.slot \/ \E i \in DOMAIN queue' : OpenAt(i, s)'
      BY <1>4, <1>5, <1>8, <1>9
    <3>4. opening'[s] <=> Busy(s)' \/ \E i \in DOMAIN queue' : OpenAt(i, s)'
      BY <1>1, <1>7, <2>2, <3>3
    <3> QED
      BY <3>1, <3>2, <3>4
  <2>5. ASSUME NEW s \in Slots
        PROVE  /\ opening'[s] => rec'[s].sess = None
               /\ Busy(s)' => \A i \in DOMAIN queue' : ~CloseAt(i, s)'
               /\ \A i, j \in DOMAIN queue' : CloseAt(i, s)' /\ OpenAt(j, s)' => i < j
               /\ \A i \in DOMAIN queue' : CloseAt(i, s)' => rec'[s].sess \in {None, queue'[i].id}
    <3>1. opening'[s] => rec'[s].sess = None
      BY <1>1, <1>7, <2>1
    <3>2. Busy(s)' => \A i \in DOMAIN queue' : ~CloseAt(i, s)'
      BY <2>2, <2>3
    <3>3. \A i, j \in DOMAIN queue' : CloseAt(i, s)' /\ OpenAt(j, s)' => i < j
      BY <1>4, <1>5, <1>7
    <3>4. \A i \in DOMAIN queue' : CloseAt(i, s)' => rec'[s].sess \in {None, queue'[i].id}
      BY <1>3, <1>4, <1>5, <1>7, <2>1
    <3> QED
      BY <3>1, <3>2, <3>3, <3>4
  <2>6. OneOpen'
    BY <2>4 DEF OneOpen
  <2>7. CloseFirst'
    BY <2>5 DEF CloseFirst
  <2> QED
    BY <2>6, <2>7
<1>10. CASE c.op # "Open"
  <2>1. worker' = [at |-> "close", id |-> c.id] /\ rec' = [rec EXCEPT ![c.slot].sess = None]
    BY <1>10 DEF Take, Turn
  <2>2. \A s \in Slots : ~Busy(s)'
    BY <2>1 DEF Busy
  <2>3. \A s \in Slots : rec'[s].sess \in {rec[s].sess, None}
    BY <2>1, <1>8 DEF Shapes, Records
  <2>4. ASSUME NEW s \in Slots
        PROVE  /\ \A i, j \in DOMAIN queue' : OpenAt(i, s)' /\ OpenAt(j, s)' => i = j
               /\ Busy(s)' => \A i \in DOMAIN queue' : ~OpenAt(i, s)'
               /\ opening'[s] <=> Busy(s)' \/ \E i \in DOMAIN queue' : OpenAt(i, s)'
    <3>1. \A i, j \in DOMAIN queue' : OpenAt(i, s)' /\ OpenAt(j, s)' => i = j
      BY <1>4, <1>5, <1>7
    <3>2. (\E i \in D : OpenAt(i, s)) <=> \E i \in DOMAIN queue' : OpenAt(i, s)'
      BY <1>4, <1>5, <1>8, <1>10
    <3>3. opening'[s] <=> Busy(s)' \/ \E i \in DOMAIN queue' : OpenAt(i, s)'
      BY <1>1, <1>7, <2>2, <3>2
    <3> QED
      BY <2>2, <3>1, <3>3
  <2>5. ASSUME NEW s \in Slots
        PROVE  /\ opening'[s] => rec'[s].sess = None
               /\ Busy(s)' => \A i \in DOMAIN queue' : ~CloseAt(i, s)'
               /\ \A i, j \in DOMAIN queue' : CloseAt(i, s)' /\ OpenAt(j, s)' => i < j
               /\ \A i \in DOMAIN queue' : CloseAt(i, s)' => rec'[s].sess \in {None, queue'[i].id}
    <3>1. opening'[s] => rec'[s].sess = None
      BY <1>1, <1>7, <2>3
    <3>3. \A i, j \in DOMAIN queue' : CloseAt(i, s)' /\ OpenAt(j, s)' => i < j
      BY <1>4, <1>5, <1>7
    <3>4. \A i \in DOMAIN queue' : CloseAt(i, s)' => rec'[s].sess \in {None, queue'[i].id}
      BY <1>3, <1>4, <1>5, <1>7, <2>3
    <3> QED
      BY <2>2, <3>1, <3>3, <3>4
  <2>6. OneOpen'
    BY <2>4 DEF OneOpen
  <2>7. CloseFirst'
    BY <2>5 DEF CloseFirst
  <2> QED
    BY <2>6, <2>7
<1> QED
  BY <1>9, <1>10

\* The end of an open takes the flag down, with nothing of the slot in the queue.
LEMMA RecordKeeps ==
  ASSUME Shapes, OneOpen, CloseFirst, Record
  PROVE  OneOpen' /\ CloseFirst'
<1> DEFINE u == worker.slot
<1>1. worker.at \in {"opened", "failed"} /\ u \in Slots
  BY DEF Record, Shapes, Works, Idle
<1>2. /\ opening' = [opening EXCEPT ![u] = FALSE]
      /\ \A s \in Slots : s # u => rec'[s] = rec[s]
      /\ UNCHANGED queue /\ worker'.at \in {"idle", "close"}
  BY DEF Record, Idle, Shapes
<1>3. \A s \in Slots : ~Busy(s)' /\ (Busy(s) <=> s = u)
  BY <1>1, <1>2 DEF Busy
<1> HIDE DEF u
<1>4. ~opening'[u] /\ \A s \in Slots : s # u => opening'[s] = opening[s]
  BY <1>1, <1>2 DEF Shapes
<1>5. \A i \in DOMAIN queue : ~OpenAt(i, u) /\ ~CloseAt(i, u)
  BY <1>1, <1>3 DEF OneOpen, CloseFirst
<1>6. \A i \in DOMAIN queue, s \in Slots : (OpenAt(i, s)' <=> OpenAt(i, s)) /\ (CloseAt(i, s)' <=> CloseAt(i, s))
  BY <1>2 DEF OpenAt, CloseAt
<1>7. OneOpen'
  BY <1>2, <1>3, <1>4, <1>5, <1>6 DEF OneOpen
<1>8. CloseFirst'
  BY <1>2, <1>3, <1>4, <1>5, <1>6 DEF CloseFirst
<1> QED
  BY <1>7, <1>8

\* Every step keeps both.
LEMMA StepOpens ==
  Shapes /\ OneOpen /\ CloseFirst /\ [Next]_vars => OneOpen' /\ CloseFirst'
<1> SUFFICES ASSUME Shapes, OneOpen, CloseFirst, [Next]_vars PROVE OneOpen' /\ CloseFirst'
  OBVIOUS
<1>1. CASE Open
  <2>1. Quiet /\ UNCHANGED rec
    BY <1>1 DEF Open, Quiet, Busy, haldev
  <2> QED
    BY <2>1, QuietKeeps
<1>2. CASE Steady /\ Quiet
  BY <1>2, QuietKeeps DEF Steady
<1> QED
  BY <1>1, <1>2, QuietSteps, DecideKeeps, TakeKeeps, RecordKeeps

-----------------------------------------------------------------------------
(* The theorems.                                                           *)

\* Shapes, tenants, one open per slot and closes before it, in every behaviour.
THEOREM Inductive == Spec => []HInv
<1>1. HInv /\ [Next]_vars => HInv'
  BY StepShapes, StepOwned, StepOpens DEF HInv, Owned
<1> QED
  BY InitHolds, <1>1, PTL DEF Spec

\* A recorded session is the slot's own and goes to the slot's own peer.
THEOREM TenantsOnly == Spec => []RecordedIsTenants
<1>1. HInv => RecordedIsTenants
  BY DEF HInv
<1> QED
  BY <1>1, Inductive, PTL

\* One open at a time for a device, exactly while its flag is up.
THEOREM OneAtATime == Spec => []OneOpening
<1>1. ASSUME HInv PROVE OneOpening
  <2> SUFFICES ASSUME NEW s \in Slots PROVE OpensOf(s) = IF opening[s] THEN 1 ELSE 0
    BY DEF OneOpening
  <2> DEFINE Q == {i \in DOMAIN queue : OpenAt(i, s)}
  <2>1. OpensOf(s) = Cardinality(Q) + (IF Busy(s) THEN 1 ELSE 0)
    BY DEF OpensOf, OpenAt, Busy
  <2>2. /\ \A i, j \in Q : i = j
        /\ Busy(s) => Q = {}
        /\ opening[s] <=> Busy(s) \/ Q # {}
    BY <1>1 DEF HInv, OneOpen
  <2> HIDE DEF Q
  <2>3. CASE Q = {}
    BY <2>1, <2>2, <2>3, FS_EmptySet
  <2>4. CASE Q # {}
    <3>1. PICK i \in Q : Q = {i}
      BY <2>2, <2>4
    <3>2. Cardinality(Q) = 1
      BY <3>1, FS_Singleton
    <3> QED
      BY <2>1, <2>2, <2>4, <3>2
  <2> QED
    BY <2>3, <2>4
<1> QED
  BY <1>1, Inductive, PTL

\* A Close in the queue finds the session it was sent for, or none.
THEOREM ClosesItsOwn == Spec => []CloseIsOwn
<1>1. ASSUME HInv PROVE CloseIsOwn
  <2> SUFFICES ASSUME NEW i \in DOMAIN queue, queue[i].op = "Close"
               PROVE  rec[queue[i].slot].sess \in {None, queue[i].id}
    BY DEF CloseIsOwn, Range
  <2>1. queue[i] \in Commands
    BY <1>1 DEF HInv, Shapes
  <2> QED
    BY <1>1, <2>1 DEF HInv, CloseFirst, CloseAt, Commands
<1> QED
  BY <1>1, Inductive, PTL

-----------------------------------------------------------------------------
(* The opener implements DeviceSession.                                    *)

\* Where the peer of an open under way is found: with the worker, or in the queue.
AskedRight ==
    \A s \in Slots :
        /\ opening[s] <=> Busy(s) \/ \E i \in DOMAIN queue : OpenAt(i, s)
        /\ ~opening[s] => AskedFor(s) = None
        /\ Busy(s) => AskedFor(s) = worker.peer /\ worker.peer \in Peers
        /\ \A i \in DOMAIN queue : OpenAt(i, s) => AskedFor(s) = queue[i].peer /\ queue[i].peer \in Peers

\* One open per slot: there is no other place to look.
LEMMA AskedNow == HInv => AskedRight
<1> SUFFICES ASSUME HInv, NEW s \in Slots
             PROVE  /\ opening[s] <=> Busy(s) \/ \E i \in DOMAIN queue : OpenAt(i, s)
                    /\ ~opening[s] => AskedFor(s) = None
                    /\ Busy(s) => AskedFor(s) = worker.peer /\ worker.peer \in Peers
                    /\ \A i \in DOMAIN queue : OpenAt(i, s) =>
                          AskedFor(s) = queue[i].peer /\ queue[i].peer \in Peers
  BY DEF AskedRight
<1>1. /\ \A i, j \in DOMAIN queue : OpenAt(i, s) /\ OpenAt(j, s) => i = j
      /\ Busy(s) => \A i \in DOMAIN queue : ~OpenAt(i, s)
      /\ opening[s] <=> Busy(s) \/ \E i \in DOMAIN queue : OpenAt(i, s)
  BY DEF HInv, OneOpen
<1>2. ~opening[s] => AskedFor(s) = None
  BY DEF AskedFor
<1>3. ASSUME Busy(s) PROVE AskedFor(s) = worker.peer /\ worker.peer \in Peers
  BY <1>1, <1>3 DEF AskedFor, Busy, HInv, Shapes, Works, Idle
<1>4. ASSUME NEW i \in DOMAIN queue, OpenAt(i, s)
      PROVE  AskedFor(s) = queue[i].peer /\ queue[i].peer \in Peers
  <2> DEFINE j == CHOOSE k \in DOMAIN queue : OpenAt(k, s)
  <2>1. j \in DOMAIN queue /\ OpenAt(j, s)
    BY <1>4
  <2>2. j = i
    BY <1>1, <1>4, <2>1
  <2>3. opening[s] /\ ~Busy(s)
    BY <1>1, <1>4
  <2>4. AskedFor(s) = queue[j].peer
    BY <2>3 DEF AskedFor, Busy, OpenAt
  <2>5. queue[i] \in Commands
    BY DEF HInv, Shapes
  <2> HIDE DEF j
  <2> QED
    BY <1>4, <2>2, <2>4, <2>5 DEF Commands, OpenAt
<1> QED
  BY <1>1, <1>2, <1>3, <1>4

\* What is asked for slot s stays; its session stays with its tenant or goes.
Kept(s) ==
    /\ AskedFor(s)' = AskedFor(s)
    /\ \/ rec'[s].sess = None
       \/ rec'[s].sess = rec[s].sess /\ rec'[s].fp = rec[s].fp

\* These, and asking and being answered, are the steps of DeviceSession.
LEMMA SlotStep ==
  ASSUME NEW s \in Slots, Shapes, Shapes',
         \/ Kept(s)
         \/ /\ rec[s].fp # None /\ AskedFor(s) = None /\ AskedFor(s)' = rec[s].fp
            /\ rec'[s].fp = rec[s].fp /\ rec'[s].sess = None
         \/ /\ AskedFor(s) # None /\ rec[s].sess = None /\ AskedFor(s)' = None
            /\ rec'[s].sess # None => rec'[s].sess \in Ids /\ AskedFor(s) = rec[s].fp
            /\ rec'[s].fp = rec[s].fp
  PROVE  \/ Device!Stays(s) \/ Device!Asks(s) \/ Device!IsAnswered(s)
         \/ Device!LetsGo(s) \/ Device!ChangesHands(s)
<1>1. rec'[s].fp \in Peers \cup {None}
  BY DEF Shapes, Records
<1> QED
  BY <1>1 DEF Kept, Device!Stays, Device!Asks, Device!IsAnswered, Device!LetsGo, Device!ChangesHands

\* A step that neither opens nor records for a slot.
LEMMA QuietKept ==
  ASSUME AskedRight, AskedRight', Quiet, NEW s \in Slots
  PROVE  AskedFor(s)' = AskedFor(s)
<1>1. /\ UNCHANGED <<opening, queue>> /\ (Busy(s)' <=> Busy(s))
      /\ Busy(s) => worker'.peer = worker.peer
  BY DEF Quiet
<1>2. \A i \in DOMAIN queue : OpenAt(i, s)' <=> OpenAt(i, s)
  BY <1>1 DEF OpenAt
<1> QED
  BY <1>1, <1>2 DEF AskedRight

\* An open that is sent asks for the peer whose device it is.
LEMMA DecideStep ==
  ASSUME HInv, AskedRight, AskedRight', Decide, NEW s \in Slots
  PROVE  \/ Kept(s)
         \/ /\ rec[s].fp # None /\ AskedFor(s) = None /\ AskedFor(s)' = rec[s].fp
            /\ rec'[s].fp = rec[s].fp /\ rec'[s].sess = None
<1> DEFINE old == DOMAIN queue
           new == DOMAIN queue' \ DOMAIN queue
<1>1. UNCHANGED worker /\ (Busy(s)' <=> Busy(s))
  BY ZenonT(30) DEF Decide, Busy
<1>2. /\ \A i \in old : queue'[i] = queue[i]
      /\ \A i \in new : queue'[i].op = "Open" =>
            /\ queue'[i].peer = rec[queue'[i].slot].fp
            /\ ~opening[queue'[i].slot] /\ rec'[queue'[i].slot].sess = None
      /\ rec'[s].sess \in {rec[s].sess, None} /\ rec'[s].fp = rec[s].fp
      /\ opening'[s] <=> opening[s] \/ \E i \in new : queue'[i].op = "Open" /\ queue'[i].slot = s
  BY DecideSends DEF HInv
<1>3. old \subseteq DOMAIN queue'
  <2>1. Len(queue) \in Nat /\ Len(queue') \in Nat /\ Len(queue) <= Len(queue')
        /\ DOMAIN queue = 1 .. Len(queue) /\ DOMAIN queue' = 1 .. Len(queue')
    BY DecideSends, LenProperties DEF HInv, Shapes
  <2> QED
    BY <2>1
<1> HIDE DEF old, new
<1>4. \A i \in old : OpenAt(i, s)' <=> OpenAt(i, s)
  BY <1>2 DEF OpenAt
<1>5. CASE opening[s]
  <2>1. CASE Busy(s)
    BY <1>1, <1>2, <2>1 DEF AskedRight, Kept
  <2>2. CASE ~Busy(s)
    <3>1. PICK i \in old : OpenAt(i, s)
      BY <1>5, <2>2 DEF AskedRight, old
    <3>2. AskedFor(s) = queue[i].peer
      BY <3>1 DEF AskedRight, old
    <3>3. AskedFor(s)' = queue'[i].peer
      BY <1>3, <1>4, <3>1 DEF AskedRight
    <3> QED
      BY <1>2, <3>2, <3>3 DEF Kept
  <2> QED
    BY <2>1, <2>2
<1>6. CASE ~opening[s] /\ opening'[s]
  <2>1. PICK i \in new : queue'[i].op = "Open" /\ queue'[i].slot = s
    BY <1>2, <1>6
  <2>2. OpenAt(i, s)' /\ i \in DOMAIN queue'
    BY <2>1 DEF OpenAt, new
  <2>3. AskedFor(s)' = queue'[i].peer /\ queue'[i].peer \in Peers
    BY <2>2 DEF AskedRight
  <2>4. AskedFor(s) = None
    BY <1>6 DEF AskedRight
  <2> QED
    BY <1>2, <2>1, <2>3, <2>4, SessionsAssumption
<1>7. CASE ~opening[s] /\ ~opening'[s]
  BY <1>2, <1>7 DEF AskedRight, Kept
<1> QED
  BY <1>5, <1>6, <1>7

\* What the worker takes keeps its peer.
LEMMA TakeStep ==
  ASSUME HInv, AskedRight, AskedRight', Take, NEW s \in Slots
  PROVE  Kept(s)
<1> DEFINE c == queue[1]
           D == DOMAIN queue
<1>1. /\ worker.at = "idle" /\ queue # << >> /\ queue' = RemoveAt(queue, 1)
      /\ UNCHANGED opening
  BY DEF Take, Turn
<1>2. /\ queue \in Seq(Commands) /\ Len(queue) \in Nat /\ Len(queue) >= 1 /\ D = 1 .. Len(queue)
  BY <1>1, EmptySeq, LenProperties DEF HInv, Shapes
<1>3. /\ DOMAIN queue' = 1 .. Len(queue) - 1
      /\ \A i \in DOMAIN queue' : queue'[i] = queue[i + 1]
      /\ c \in Commands
  <2>1. /\ queue' \in Seq(Commands) /\ Len(queue') = Len(queue) - 1
        /\ \A i \in 1 .. Len(queue) - 1 : queue'[i] = queue[i + 1]
        /\ c \in Commands
    BY <1>1, <1>2, QueueTail, ZenonT(30)
  <2> QED
    BY <2>1, LenProperties
<1>4. \A i \in D : i # 1 => i - 1 \in DOMAIN queue' /\ i = (i - 1) + 1
  BY <1>2, <1>3
<1>5. \A i \in D : i # 1 => i - 1 \in DOMAIN queue' /\ queue'[i - 1] = queue[i]
  BY <1>3, <1>4
<1>6. \/ rec'[s].sess = None
      \/ rec'[s].sess = rec[s].sess /\ rec'[s].fp = rec[s].fp
  BY DEF Take, HInv, Shapes, Records
<1>7. ~Busy(s)
  BY <1>1 DEF Busy
<1>8. CASE ~opening[s]
  BY <1>1, <1>6, <1>8 DEF AskedRight, Kept
<1>9. CASE opening[s]
  <2>1. PICK i \in D : OpenAt(i, s)
    BY <1>7, <1>9 DEF AskedRight
  <2>2. AskedFor(s) = queue[i].peer
    BY <2>1 DEF AskedRight
  <2>3. CASE i = 1
    <3>1. worker' = [at |-> "dial", slot |-> c.slot, peer |-> c.peer]
      BY <2>1, <2>3 DEF Take, Turn, OpenAt
    <3>2. Busy(s)' /\ worker'.peer = queue[i].peer
      BY <2>1, <2>3, <3>1 DEF Busy, OpenAt
    <3> QED
      BY <1>6, <2>2, <3>2 DEF AskedRight, Kept
  <2>4. CASE i # 1
    <3>1. i - 1 \in DOMAIN queue' /\ queue'[i - 1] = queue[i]
      BY <1>5, <2>4
    <3> HIDE DEF D
    <3>2. OpenAt(i - 1, s)'
      BY <2>1, <3>1 DEF OpenAt
    <3>3. AskedFor(s)' = queue'[i - 1].peer
      BY <3>1, <3>2 DEF AskedRight
    <3> QED
      BY <1>6, <2>2, <3>1, <3>3 DEF Kept
  <2> QED
    BY <2>3, <2>4
<1> QED
  BY <1>8, <1>9

\* The answer is for the slot the worker opened for; it brings a session only if
\* the slot still belongs to that peer, and there was none before.
LEMMA RecordStep ==
  ASSUME HInv, AskedRight, AskedRight', Record, NEW s \in Slots
  PROVE  \/ Kept(s)
         \/ /\ AskedFor(s) # None /\ rec[s].sess = None /\ AskedFor(s)' = None
            /\ rec'[s].sess # None => rec'[s].sess \in Ids /\ AskedFor(s) = rec[s].fp
            /\ rec'[s].fp = rec[s].fp
<1> DEFINE u == worker.slot
<1>1. worker.at \in {"opened", "failed"} /\ u \in Slots
  BY DEF Record, HInv, Shapes, Works, Idle
<1>2. /\ opening' = [opening EXCEPT ![u] = FALSE]
      /\ \A t \in Slots : t # u => rec'[t] = rec[t]
      /\ UNCHANGED queue /\ worker'.at \in {"idle", "close"}
  BY DEF Record, Idle, HInv, Shapes
<1>3. ~Busy(s)' /\ (Busy(s) <=> s = u)
  BY <1>1, <1>2 DEF Busy
<1>4. /\ rec'[u].fp = rec[u].fp
      /\ \/ rec'[u] = rec[u]
         \/ rec'[u].sess = worker.id /\ worker.id \in Ids /\ rec[u].fp = worker.peer
  BY <1>1 DEF Record, Stale, HInv, Shapes, Records, Works, Idle
<1> HIDE DEF u
<1>5. CASE s = u
  <2>1. AskedFor(s) = worker.peer /\ worker.peer \in Peers /\ opening[s]
    BY <1>3, <1>5 DEF AskedRight
  <2>2. rec[s].sess = None
    BY <2>1 DEF HInv, CloseFirst
  <2>3. AskedFor(s)' = None
    BY <1>2, <1>5 DEF AskedRight, HInv, Shapes
  <2> QED
    BY <1>4, <1>5, <2>1, <2>2, <2>3, SessionsAssumption
<1>6. CASE s # u
  <2>1. rec'[s] = rec[s] /\ opening'[s] = opening[s] /\ ~Busy(s)
    BY <1>2, <1>3, <1>6 DEF HInv, Shapes
  <2>2. \A i \in DOMAIN queue : OpenAt(i, s)' <=> OpenAt(i, s)
    BY <1>2 DEF OpenAt
  <2>3. AskedFor(s)' = AskedFor(s)
    BY <1>2, <2>1, <2>2 DEF AskedRight
  <2> QED
    BY <2>1, <2>3 DEF Kept
<1> QED
  BY <1>5, <1>6

\* Every step of the opener is one of DeviceSession.
LEMMA StepDevice == HInv /\ HInv' /\ AskedRight /\ AskedRight' /\ [Next]_vars => [Device!Next]_(Device!vars)
<1> SUFFICES ASSUME HInv, HInv', AskedRight, AskedRight', [Next]_vars PROVE Device!Next
  OBVIOUS
<1>1. ASSUME NEW s \in Slots
      PROVE  \/ Device!Stays(s) \/ Device!Asks(s) \/ Device!IsAnswered(s)
             \/ Device!LetsGo(s) \/ Device!ChangesHands(s)
  <2>1. Shapes /\ Shapes'
    BY DEF HInv
  <2>2. CASE Decide
    BY <2>1, <2>2, DecideStep, SlotStep
  <2>3. CASE Take
    BY <2>1, <2>3, TakeStep, SlotStep
  <2>4. CASE Record
    BY <2>1, <2>4, RecordStep, SlotStep
  <2>5. CASE Open
    <3>1. Quiet /\ UNCHANGED rec
      BY <2>5 DEF Open, Quiet, Busy, haldev
    <3>2. Kept(s)
      BY <3>1, QuietKept DEF Kept
    <3> QED
      BY <2>1, <3>2, SlotStep
  <2>6. CASE ~Decide /\ ~Take /\ ~Record /\ ~Open
    <3>1. Steady /\ Quiet
      BY <2>1, <2>6, QuietSteps
    <3>2. Kept(s)
      BY <3>1, QuietKept DEF Kept, Steady
    <3> QED
      BY <2>1, <3>2, SlotStep
  <2> QED
    BY <2>2, <2>3, <2>4, <2>5, <2>6
<1> QED
  BY <1>1 DEF Device!Next

\* The coordinator, the channel and the worker together implement DeviceSession.
THEOREM Refines == Spec => ImplementsDevice
<1>1. Init => Device!Init
  BY DEF Init, NoRec, AskedFor, Device!Init
<1>2. HInv /\ HInv' /\ [Next]_vars => [Device!Next]_(Device!vars)
  BY AskedNow, StepDevice, PTL
<1> QED
  BY <1>1, <1>2, Inductive, PTL DEF Spec, ImplementsDevice, Device!Spec
=============================================================================
