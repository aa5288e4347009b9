---------------------------- MODULE HalSlotProofs ----------------------------
(***************************************************************************)
(* Proofs about HalSlot, for any number of slots, peers and upsets.  Its   *)
(* passes fold over queues of any length, so the first part proves what a  *)
(* fold keeps; induction over Nat is drawn from the cardinalities of       *)
(* intervals.                                                              *)
(***************************************************************************)
EXTENDS HalSlot, FiniteSetTheorems, SequenceTheorems, TLAPS

-----------------------------------------------------------------------------
(* Induction and folds.                                                    *)

\* A set that has 0 and the successor of each of its numbers has them all: were
\* n missing, k |-> k + 1 would map the members below n into those but 0.
LEMMA Induction ==
  ASSUME NEW S, 0 \in S, \A n \in Nat : n \in S => n + 1 \in S
  PROVE  Nat \subseteq S
<1> SUFFICES ASSUME NEW n \in Nat, n \notin S PROVE FALSE
  OBVIOUS
<1> DEFINE U == {k \in 0 .. n : k \in S}
<1>1. IsFiniteSet(U) /\ 0 \in U
  <2>1. IsFiniteSet(0 .. n)
    BY FS_Interval
  <2> QED
    BY <2>1, FS_Subset
<1>2. /\ Cardinality(U \ {0}) = Cardinality(U) - 1
      /\ Cardinality(U) \in Nat /\ Cardinality(U \ {0}) \in Nat
      /\ IsFiniteSet(U \ {0})
  BY <1>1, FS_RemoveElement, FS_CardinalityType
<1>3. [k \in U |-> k + 1] \in Injection(U, U \ {0})
  BY DEF Injection, IsInjective
<1>4. Cardinality(U) <= Cardinality(U \ {0})
  BY <1>1, <1>2, <1>3, FS_Injection
<1> QED
  BY <1>2, <1>4

\* A set of positive numbers that does not go beyond n has a greatest.
LEMMA MaxExists ==
  ASSUME NEW n \in Nat, NEW s \in SUBSET (1 .. n), s # {}
  PROVE  Max(s) \in s /\ \A y \in s : Max(s) >= y
<1> DEFINE M == {m \in Nat : \A t \in SUBSET (1 .. m) : t # {} => \E x \in t : \A y \in t : x >= y}
<1>1. 0 \in M
  <2>1. \A t \in SUBSET (1 .. 0) : t = {}
    OBVIOUS
  <2> QED
    BY <2>1
<1>2. ASSUME NEW m \in Nat, m \in M PROVE m + 1 \in M
  <2> SUFFICES ASSUME NEW t \in SUBSET (1 .. m + 1), t # {}
               PROVE  \E x \in t : \A y \in t : x >= y
    OBVIOUS
  <2>1. CASE m + 1 \in t
    BY <2>1
  <2>2. CASE m + 1 \notin t
    <3>1. t \in SUBSET (1 .. m)
      BY <2>2
    <3> QED
      BY <1>2, <3>1
  <2> QED
    BY <2>1, <2>2
<1>3. n \in M
  <2> HIDE DEF M
  <2> QED
    BY <1>1, <1>2, Induction
<1>4. \E x \in s : \A y \in s : x >= y
  BY <1>3
<1> QED
  BY <1>4 DEF Max

\* A fold over q that starts at b and steps by g: the function from the sets of
\* indices that FoldLeft walks down.
IsFold(h, V, g, b, q) ==
    /\ h \in [SUBSET DOMAIN q -> V]
    /\ \A s \in SUBSET DOMAIN q :
          h[s] = IF s = {} THEN b ELSE g[h[s \ {Max(s)}]][q[Max(s)]]

LEMMA FoldExists ==
  ASSUME NEW V, NEW E, NEW g \in [V -> [E -> V]], NEW b \in V, NEW q \in Seq(E)
  PROVE  \E h : IsFold(h, V, g, b, q)
<1> DEFINE Fold(h, n) == \A s \in SUBSET (1 .. n) :
               h[s] = IF s = {} THEN b ELSE g[h[s \ {Max(s)}]][q[Max(s)]]
<1> DEFINE Folds(n) == \E h \in [SUBSET (1 .. n) -> V] : Fold(h, n)
<1> DEFINE M == {n \in Nat : n <= Len(q) => Folds(n)}
<1>0. Len(q) \in Nat /\ DOMAIN q = 1 .. Len(q) /\ \A i \in 1 .. Len(q) : q[i] \in E
  BY LenProperties, ElementOfSeq
<1>1. 0 \in M
  <2> DEFINE h == [s \in SUBSET (1 .. 0) |-> b]
  <2>1. h \in [SUBSET (1 .. 0) -> V] /\ Fold(h, 0)
    OBVIOUS
  <2> QED
    BY <2>1
<1>2. ASSUME NEW n \in Nat, n \in M PROVE n + 1 \in M
  <2> HIDE DEF Folds
  <2> SUFFICES ASSUME n + 1 <= Len(q) PROVE Folds(n + 1)
    OBVIOUS
  <2>0. Folds(n)
    BY <1>0, <1>2
  <2> USE DEF Folds
  <2>1. PICK h \in [SUBSET (1 .. n) -> V] : Fold(h, n)
    BY <2>0
  <2> DEFINE k == [s \in SUBSET (1 .. n + 1) |->
                     IF n + 1 \in s THEN g[h[s \ {n + 1}]][q[n + 1]] ELSE h[s]]
  <2>2. k \in [SUBSET (1 .. n + 1) -> V]
    <3> SUFFICES ASSUME NEW s \in SUBSET (1 .. n + 1) PROVE k[s] \in V
      OBVIOUS
    <3>1. s \ {n + 1} \in SUBSET (1 .. n) /\ q[n + 1] \in E
      BY <1>0
    <3> DEFINE x == h[s \ {n + 1}]
    <3>4. x \in V
      BY <3>1
    <3>5. g[x] \in [E -> V]
      <4> HIDE DEF x
      <4> QED
        BY <3>4
    <3>6. g[x][q[n + 1]] \in V
      <4> HIDE DEF x
      <4> QED
        BY <3>1, <3>5, SMTT(30)
    <3>2. CASE n + 1 \in s
      <4>1. k[s] = g[x][q[n + 1]]
        BY <3>2
      <4> HIDE DEF k, x
      <4> QED
        BY <3>6, <4>1
    <3>3. CASE n + 1 \notin s
      BY <3>1, <3>3
    <3> QED
      BY <3>2, <3>3
  <2>3. Fold(k, n + 1)
    <3> SUFFICES ASSUME NEW s \in SUBSET (1 .. n + 1)
                 PROVE  k[s] = IF s = {} THEN b ELSE g[k[s \ {Max(s)}]][q[Max(s)]]
      OBVIOUS
    <3>1. CASE n + 1 \in s
      <4>1. Max(s) = n + 1
        <5>1. n + 1 \in Nat /\ s # {}
          BY <3>1
        <5>2. Max(s) \in s /\ Max(s) >= n + 1
          BY <3>1, <5>1, MaxExists
        <5> HIDE DEF k
        <5>3. Max(s) \in 1 .. n + 1
          BY <5>2
        <5> QED
          BY <5>2, <5>3
      <4>2. s \ {n + 1} \in SUBSET (1 .. n + 1) /\ k[s \ {n + 1}] = h[s \ {n + 1}]
        OBVIOUS
      <4>3. k[s] = g[h[s \ {n + 1}]][q[n + 1]]
        BY <3>1
      <4> HIDE DEF k
      <4> QED
        BY <3>1, <4>1, <4>2, <4>3
    <3>2. CASE n + 1 \notin s
      <4>1. s \in SUBSET (1 .. n)
        BY <3>2, SMTT(30)
      <4>2. s \ {Max(s)} \in SUBSET (1 .. n) /\ s \ {Max(s)} \in SUBSET (1 .. n + 1)
        BY <4>1
      <4>3. k[s] = h[s] /\ k[s \ {Max(s)}] = h[s \ {Max(s)}]
        BY <3>2, <4>2
      <4> HIDE DEF k
      <4> QED
        BY <2>1, <4>1, <4>3
    <3> QED
      BY <3>1, <3>2
  <2> HIDE DEF k, Fold
  <2> QED
    BY <2>2, <2>3
<1>3. Len(q) \in M
  <2> HIDE DEF M
  <2> QED
    BY <1>0, <1>1, <1>2, Induction
<1>4. Folds(Len(q))
  <2> HIDE DEF Folds
  <2> QED
    BY <1>0, <1>3
<1>5. PICK h \in [SUBSET (1 .. Len(q)) -> V] : Fold(h, Len(q))
  BY <1>4
<1>6. \A s \in SUBSET DOMAIN q : h[s] = IF s = {} THEN b ELSE g[h[s \ {Max(s)}]][q[Max(s)]]
  BY <1>0, <1>5
<1> QED
  BY <1>0, <1>5, <1>6 DEF IsFold

\* ... and what every step of it keeps, it keeps.
LEMMA FoldStays ==
  ASSUME NEW V, NEW q, NEW n \in Nat, DOMAIN q = 1 .. n, NEW h,
         \A s \in SUBSET DOMAIN q : s = {} => h[s] \in V,
         \A s \in SUBSET DOMAIN q : s # {} /\ h[s \ {Max(s)}] \in V => h[s] \in V
  PROVE  h[DOMAIN q] \in V
<1> DEFINE M == {m \in Nat : m <= n => \A s \in SUBSET (1 .. m) : h[s] \in V}
<1>1. 0 \in M
  <2>1. \A s \in SUBSET (1 .. 0) : s = {} /\ s \in SUBSET DOMAIN q
    OBVIOUS
  <2> QED
    BY <2>1
<1>2. ASSUME NEW m \in Nat, m \in M PROVE m + 1 \in M
  <2> SUFFICES ASSUME m + 1 <= n, NEW s \in SUBSET (1 .. m + 1), s # {} PROVE h[s] \in V
    OBVIOUS
  <2>0. m + 1 \in Nat
    OBVIOUS
  <2>1. Max(s) \in s /\ \A y \in s : Max(s) >= y
    BY <2>0, MaxExists
  <2>2. s \ {Max(s)} \in SUBSET (1 .. m)
    <3> SUFFICES ASSUME NEW y \in s, y # Max(s) PROVE y \in 1 .. m
      OBVIOUS
    <3>1. Max(s) \in 1 .. m + 1 /\ y \in 1 .. m + 1 /\ Max(s) >= y
      BY <2>1
    <3> QED
      BY <3>1
  <2>3. h[s \ {Max(s)}] \in V
    BY <1>2, <2>2
  <2>4. s \in SUBSET DOMAIN q
    OBVIOUS
  <2> QED
    BY <2>3, <2>4
<1>3. n \in M
  <2> HIDE DEF M
  <2> QED
    BY <1>1, <1>2, Induction
<1> QED
  BY <1>3

\* The sequences of a sequence, one after the other.
LEMMA Flattened ==
  ASSUME NEW E, NEW ss \in Seq(Seq(E))
  PROVE  ss # << >> => FlattenSeq(ss) \in Seq(E)
<1> SUFFICES ASSUME ss # << >> PROVE FlattenSeq(ss) \in Seq(E)
  OBVIOUS
<1>0. /\ Len(ss) \in Nat /\ Len(ss) # 0
      /\ \A i \in 1 .. Len(ss) : ss[i] \in Seq(E)
  BY LenProperties, ElementOfSeq, EmptySeq
<1> DEFINE Flat(f, n) == \A i \in 1 .. n : f[i] = IF i = 1 THEN ss[i] ELSE f[i - 1] \o ss[i]
<1> DEFINE Flats(n) == \E f \in [1 .. n -> Seq(E)] : Flat(f, n)
<1> DEFINE M == {n \in Nat : n <= Len(ss) => Flats(n)}
<1>1. 0 \in M
  <2> DEFINE f == [i \in 1 .. 0 |-> << >>]
  <2>1. f \in [1 .. 0 -> Seq(E)] /\ Flat(f, 0)
    OBVIOUS
  <2> QED
    BY <2>1
<1>2. ASSUME NEW n \in Nat, n \in M PROVE n + 1 \in M
  <2> HIDE DEF Flats
  <2> SUFFICES ASSUME n + 1 <= Len(ss) PROVE Flats(n + 1)
    OBVIOUS
  <2>0. Flats(n)
    BY <1>0, <1>2
  <2> USE DEF Flats
  <2>1. PICK f \in [1 .. n -> Seq(E)] : Flat(f, n)
    BY <2>0
  <2> DEFINE last == IF n = 0 THEN ss[1] ELSE f[n] \o ss[n + 1]
  <2>2. last \in Seq(E)
    <3>1. CASE n = 0
      BY <1>0, <3>1
    <3>2. CASE n # 0
      <4>1. f[n] \in Seq(E) /\ ss[n + 1] \in Seq(E)
        BY <1>0, <3>2
      <4> QED
        BY <3>2, <4>1, ConcatProperties
    <3> QED
      BY <3>1, <3>2
  <2>3. last = IF n + 1 = 1 THEN ss[n + 1] ELSE f[n] \o ss[n + 1]
    OBVIOUS
  <2> HIDE DEF last
  <2> DEFINE k == [i \in 1 .. n + 1 |-> IF i = n + 1 THEN last ELSE f[i]]
  <2>4. k \in [1 .. n + 1 -> Seq(E)]
    BY <2>2
  <2>5. Flat(k, n + 1)
    <3> SUFFICES ASSUME NEW i \in 1 .. n + 1
                 PROVE  k[i] = IF i = 1 THEN ss[i] ELSE k[i - 1] \o ss[i]
      OBVIOUS
    <3>1. CASE i = n + 1
      BY <2>3, <3>1
    <3>2. CASE i \in 1 .. n
      <4>1. f[i] = IF i = 1 THEN ss[i] ELSE f[i - 1] \o ss[i]
        BY <2>1, <3>2
      <4>2. k[i] = f[i] /\ (i # 1 => i - 1 \in 1 .. n + 1 /\ k[i - 1] = f[i - 1])
        BY <3>2
      <4> HIDE DEF k
      <4> QED
        BY <4>1, <4>2
    <3> QED
      BY <3>1, <3>2
  <2> HIDE DEF k, Flat
  <2> QED
    BY <2>4, <2>5
<1>3. Flats(Len(ss))
  <2> HIDE DEF Flats
  <2>1. Len(ss) \in M
    <3> HIDE DEF M
    <3> QED
      BY <1>0, <1>1, <1>2, Induction
  <2> QED
    BY <1>0, <2>1
<1>4. PICK f \in [1 .. Len(ss) -> Seq(E)] : Flat(f, Len(ss))
  BY <1>3
<1> DEFINE Eq(h) == h = [i \in 1 .. Len(ss) |-> IF i = 1 THEN ss[i] ELSE h[i - 1] \o ss[i]]
<1>5. Eq(f)
  BY <1>4
<1> DEFINE g == CHOOSE h : Eq(h)
<1>6. Eq(g)
  <2> HIDE DEF Eq
  <2> QED
    BY <1>5
<1>7. FlattenSeq(ss) = g[Len(ss)]
  BY <1>0 DEF FlattenSeq
<1> HIDE DEF g
<1> DEFINE N == {n \in Nat : n \in 1 .. Len(ss) => g[n] = f[n]}
<1>8. 0 \in N
  OBVIOUS
<1>9. ASSUME NEW n \in Nat, n \in N PROVE n + 1 \in N
  <2> SUFFICES ASSUME n + 1 \in 1 .. Len(ss) PROVE g[n + 1] = f[n + 1]
    OBVIOUS
  <2> DEFINE i == n + 1
  <2>0. i \in 1 .. Len(ss)
    OBVIOUS
  <2>1. /\ g[i] = IF i = 1 THEN ss[i] ELSE g[i - 1] \o ss[i]
        /\ f[i] = IF i = 1 THEN ss[i] ELSE f[i - 1] \o ss[i]
    <3> HIDE DEF i
    <3> QED
      BY <1>5, <1>6, <2>0
  <2>2. n + 1 - 1 = n /\ (n # 0 => g[n] = f[n])
    BY <1>9
  <2> QED
    BY <2>1, <2>2
<1>10. Len(ss) \in N
  <2> HIDE DEF N
  <2> QED
    BY <1>0, <1>8, <1>9, Induction
<1> QED
  BY <1>0, <1>4, <1>7, <1>10

-----------------------------------------------------------------------------
(* What the variables hold.  A slot's generation is even exactly while the *)
(* slot is free, in the driver, in its reports and in the coordinator's    *)
(* records.                                                                *)

Even(n) == n % 2 = 0

\* A binding and an unbinding each count one up.
LEMMA EvenOdd == \A n \in Nat : Even(n + 1) <=> ~Even(n)
  BY DEF Even

\* A record that repeats a report: the state it has seen is that of its generation.
Known == {k \in [fp : PeerOrNone, state : States \cup {None}, gen : Nat, sent : BOOLEAN,
                 acked : BOOLEAN, clearing : BOOLEAN, recent : BOOLEAN, io : BOOLEAN] :
             k.state # None => (k.state = "Free" <=> Even(k.gen))}

Reports == {e \in Events : e.kind = "BindState" => (e.state = "Free" <=> Even(e.gen))}

\* A peer has one slot.
Tables == {t \in [Slots -> PeerOrNone] :
              \A s, u \in Slots : t[s] = t[u] /\ t[s] # None => s = u}

\* A Set names a peer.
Orders == {b \in Actions : b.op = "Set" => b.peer # None}

Devices == {d \in [state : States, gen : Nat, tenant : PeerOrNone, run : BOOLEAN,
                   bindDue : BOOLEAN, ioDue : BOOLEAN] :
               /\ d.state = "Free" <=> Even(d.gen)
               /\ d.state = "Free" <=> d.tenant = None
               /\ d.state = "Free" => ~d.run}

HInv ==
    /\ paired \in Seq(Peers) /\ forgetting \subseteq Peers /\ modeB \in BOOLEAN
    /\ disk \in Tables /\ table \in Tables
    /\ rec \in [Slots -> Known]
    /\ observed = None \/ observed \subseteq Peers
    /\ pc \in {"idle", "send"} /\ (pc = "idle" => plan = << >>)
    /\ plan \in Seq(Orders) /\ binds \in Seq(Orders) /\ events \in Seq(Reports)
    /\ filter \in [Slots -> Nat]
    /\ drv \in [Slots -> Devices]

\* One event applied to the records.
LEMMA ApplyTyped == ASSUME NEW r \in [Slots -> Known], NEW e \in Reports
                    PROVE  Apply(r, e) \in [Slots -> Known]
<1> USE HalAssumption DEF Known, States, PeerOrNone, Slots
<1>1. ASSUME e.kind = "Detached" PROVE Apply(r, e) \in [Slots -> Known]
  <2>1. Apply(r, e) = [s \in Slots |-> [r[s] EXCEPT !.acked = FALSE, !.state = None, !.io = FALSE]]
    BY <1>1 DEF Apply
  <2>2. ASSUME NEW s \in Slots
        PROVE  [r[s] EXCEPT !.acked = FALSE, !.state = None, !.io = FALSE] \in Known
    <3> DEFINE k == r[s]
    <3>1. k \in Known
      OBVIOUS
    <3> HIDE DEF k, Even
    <3> QED
      BY <3>1, ZenonT(30)
  <2> HIDE DEF Known
  <2> QED
    BY <2>1, <2>2, ZenonT(30)
<1>2. ASSUME e.kind = "BindState" PROVE Apply(r, e) \in [Slots -> Known]
  <2>1. /\ e.slot \in Slots /\ e.gen \in Nat /\ e.state \in States
        /\ e.state = "Free" <=> Even(e.gen)
    BY <1>2 DEF Reports, Events
  <2>2. CASE e.state = "Free"
    BY <1>2, <2>1, <2>2 DEF Apply, NoRec
  <2> DEFINE k == r[e.slot]
  <2>3. CASE e.state = "Bound"
    <3>1. [k EXCEPT !.gen = e.gen, !.state = "Bound", !.acked = TRUE] \in Known
      <4>1. k \in Known /\ ~Even(e.gen) /\ e.gen \in Nat
        BY <2>1, <2>3
      <4> HIDE DEF k, Even
      <4> QED
        BY <4>1
    <3>2. Apply(r, e) = [r EXCEPT ![e.slot] = [k EXCEPT !.gen = e.gen, !.state = "Bound", !.acked = TRUE]]
      BY <1>2, <2>1, <2>3 DEF Apply
    <3> HIDE DEF Known, k
    <3> QED
      BY <3>1, <3>2
  <2>4. CASE e.state = "Delisted"
    <3>1. [k EXCEPT !.gen = e.gen, !.state = "Delisted", !.acked = FALSE, !.io = FALSE] \in Known
      <4>1. k \in Known /\ ~Even(e.gen) /\ e.gen \in Nat
        BY <2>1, <2>4
      <4> HIDE DEF k, Even
      <4> QED
        BY <4>1
    <3>2. Apply(r, e) = [r EXCEPT ![e.slot] = [k EXCEPT !.gen = e.gen, !.state = "Delisted",
                                                        !.acked = FALSE, !.io = FALSE]]
      BY <1>2, <2>1, <2>4 DEF Apply
    <3> HIDE DEF Known, k
    <3> QED
      BY <3>1, <3>2
  <2> QED
    BY <2>1, <2>2, <2>3, <2>4
<1>3. ASSUME e.kind = "IoState" PROVE Apply(r, e) \in [Slots -> Known]
  <2>1. e.slot \in Slots /\ e.gen \in Nat /\ e.run \in BOOLEAN
    BY <1>3 DEF Reports, Events
  <2>2. AppliedIo(r, e) \in [Slots -> Known]
    BY <2>1, SMTT(30) DEF AppliedIo
  <2> QED
    BY <1>3, <2>2 DEF Apply
<1> QED
  BY <1>1, <1>2, <1>3 DEF Reports, Events

\* A peer assigned, unless it has a slot or none is free.
LEMMA AssignTyped == ASSUME NEW t \in Tables, NEW p \in Peers
                     PROVE  Assign(t, p) \in Tables
<1>1. CASE Assign(t, p) = t
  BY <1>1
<1>2. CASE Assign(t, p) # t
  <2>1. PICK s : p \notin Range(t) /\ Assign(t, p) = [t EXCEPT ![s] = p]
    BY <1>2 DEF Assign
  <2>2. \A u \in Slots : t[u] # p
    BY <2>1 DEF Range, Tables
  <2> QED
    BY <2>1, <2>2 DEF Tables, PeerOrNone
<1> QED
  BY <1>1, <1>2

\* One Bind message handled by the driver.
LEMMA HandleTyped == ASSUME NEW d \in [Slots -> Devices], NEW b \in Orders
                     PROVE  Handle(d, b) \in [Slots -> Devices]
<1> DEFINE cur == d[b.slot]
           restate == [d EXCEPT ![b.slot].bindDue = TRUE]
           delist  == [d EXCEPT ![b.slot].bindDue = TRUE, ![b.slot].state = "Delisted"]
           again   == [restate EXCEPT ![b.slot].ioDue = TRUE]
           bound   == [d EXCEPT ![b.slot] = NewBinding(cur.gen, b.peer)]
<1>1. /\ b.slot \in Slots /\ b.peer \in PeerOrNone /\ b.op \in {"Set", "Clear"}
      /\ b.op = "Set" => b.peer # None
      /\ cur \in Devices
  BY DEF Orders, Actions
<1>2. cur.state \in {"Free", "Bound", "Delisted"} /\ cur.gen \in Nat
  BY <1>1 DEF Devices, States
<1>3. restate \in [Slots -> Devices]
  BY <1>1 DEF Devices
<1>4. again \in [Slots -> Devices]
  BY <1>1 DEF Devices
<1>5. cur.state = "Bound" => delist \in [Slots -> Devices]
  <2> SUFFICES ASSUME cur.state = "Bound" PROVE delist \in [Slots -> Devices]
    OBVIOUS
  <2> DEFINE new == [cur EXCEPT !.bindDue = TRUE, !.state = "Delisted"]
  <2>1. new \in Devices
    BY <1>1 DEF Devices, States
  <2>2. delist = [d EXCEPT ![b.slot] = new]
    BY <1>1 DEF Devices
  <2> HIDE DEF new, delist
  <2> QED
    BY <1>1, <2>1, <2>2
<1>6. cur.state = "Free" /\ b.op = "Set" => bound \in [Slots -> Devices]
  BY <1>1, <1>2, EvenOdd DEF Devices, States, NewBinding
<1>7. Handle(d, b) \in {d, restate, again}
         \cup (IF cur.state = "Bound" THEN {delist} ELSE {})
         \cup (IF cur.state = "Free" /\ b.op = "Set" THEN {bound} ELSE {})
  <2> HIDE DEF bound
  <2>1. CASE b.op = "Set" /\ cur.state = "Delisted"
    BY <2>1 DEF Handle
  <2>2. CASE b.op = "Set" /\ cur.state = "Bound"
    BY <2>2 DEF Handle
  <2>3. CASE b.op = "Set" /\ cur.state = "Free"
    BY <2>3 DEF Handle, bound
  <2>4. CASE b.op = "Clear"
    BY <2>4 DEF Handle
  <2> QED
    BY <1>1, <1>2, <2>1, <2>2, <2>3, <2>4
<1> HIDE DEF cur, restate, delist, again, bound
<1> QED
  BY <1>3, <1>4, <1>5, <1>6, <1>7

\* Every event drained.
LEMMA Applied == ASSUME NEW r \in [Slots -> Known], NEW q \in Seq(Reports)
            PROVE  FoldLeft(Apply, r, q) \in [Slots -> Known]
<1> DEFINE V == [Slots -> Known]
           E == Reports
           g == [x \in V |-> [e \in E |-> Apply(x, e)]]
           Eq(f) == f = [s \in SUBSET DOMAIN q |->
                           IF s = {} THEN r ELSE Apply(f[s \ {Max(s)}], q[Max(s)])]
           it == CHOOSE f : Eq(f)
<1>0. Len(q) \in Nat /\ DOMAIN q = 1 .. Len(q) /\ \A i \in DOMAIN q : q[i] \in E
  BY LenProperties, ElementOfSeq
<1>1. \A x \in V, e \in E : Apply(x, e) \in V
  BY ApplyTyped
<1> HIDE DEF V, E
<1>2. g \in [V -> [E -> V]] /\ r \in V /\ q \in Seq(E)
  BY <1>1 DEF V, E
<1>3. PICK h : IsFold(h, V, g, r, q)
  <2> HIDE DEF g
  <2> QED
    BY <1>2, FoldExists
<1>4. \A s \in SUBSET DOMAIN q : s # {} => Max(s) \in s
  <2> SUFFICES ASSUME NEW s \in SUBSET (1 .. Len(q)), s # {} PROVE Max(s) \in s
    BY <1>0
  <2> QED
    BY <1>0, MaxExists
<1>5. Eq(h)
  <2> SUFFICES ASSUME NEW s \in SUBSET DOMAIN q, s # {}
               PROVE  g[h[s \ {Max(s)}]][q[Max(s)]] = Apply(h[s \ {Max(s)}], q[Max(s)])
    BY <1>3 DEF IsFold
  <2>1. h[s \ {Max(s)}] \in V /\ q[Max(s)] \in E
    BY <1>0, <1>3, <1>4 DEF IsFold
  <2> QED
    BY <2>1
<1>6. Eq(it)
  <2> HIDE DEF Eq
  <2> QED
    BY <1>5
<1>7. FoldLeft(Apply, r, q) = it[DOMAIN q]
  BY DEF FoldLeft, MapThenFoldSet
<1> HIDE DEF it
<1>8. \A s \in SUBSET DOMAIN q : s = {} => it[s] \in V
  BY <1>2, <1>6
<1>9. \A s \in SUBSET DOMAIN q : s # {} /\ it[s \ {Max(s)}] \in V => it[s] \in V
  <2> SUFFICES ASSUME NEW s \in SUBSET DOMAIN q, s # {}, it[s \ {Max(s)}] \in V PROVE it[s] \in V
    OBVIOUS
  <2>1. it[s] = Apply(it[s \ {Max(s)}], q[Max(s)])
    BY <1>6
  <2>2. q[Max(s)] \in E
    BY <1>0, <1>4
  <2> HIDE DEF Eq
  <2> QED
    BY <1>1, <2>1, <2>2
<1>10. it[DOMAIN q] \in V
  <2> HIDE DEF Eq
  <2> QED
    BY <1>0, <1>8, <1>9, FoldStays
<1> QED
  BY <1>7, <1>10 DEF V

\* Every paired peer assigned.
LEMMA Assigned == ASSUME NEW r \in Tables, NEW q \in Seq(Peers)
            PROVE  FoldLeft(Assign, r, q) \in Tables
<1> DEFINE V == Tables
           E == Peers
           g == [x \in V |-> [e \in E |-> Assign(x, e)]]
           Eq(f) == f = [s \in SUBSET DOMAIN q |->
                           IF s = {} THEN r ELSE Assign(f[s \ {Max(s)}], q[Max(s)])]
           it == CHOOSE f : Eq(f)
<1>0. Len(q) \in Nat /\ DOMAIN q = 1 .. Len(q) /\ \A i \in DOMAIN q : q[i] \in E
  BY LenProperties, ElementOfSeq
<1>1. \A x \in V, e \in E : Assign(x, e) \in V
  BY AssignTyped
<1> HIDE DEF V, E
<1>2. g \in [V -> [E -> V]] /\ r \in V /\ q \in Seq(E)
  BY <1>1 DEF V, E
<1>3. PICK h : IsFold(h, V, g, r, q)
  <2> HIDE DEF g
  <2> QED
    BY <1>2, FoldExists
<1>4. \A s \in SUBSET DOMAIN q : s # {} => Max(s) \in s
  <2> SUFFICES ASSUME NEW s \in SUBSET (1 .. Len(q)), s # {} PROVE Max(s) \in s
    BY <1>0
  <2> QED
    BY <1>0, MaxExists
<1>5. Eq(h)
  <2> SUFFICES ASSUME NEW s \in SUBSET DOMAIN q, s # {}
               PROVE  g[h[s \ {Max(s)}]][q[Max(s)]] = Assign(h[s \ {Max(s)}], q[Max(s)])
    BY <1>3 DEF IsFold
  <2>1. h[s \ {Max(s)}] \in V /\ q[Max(s)] \in E
    BY <1>0, <1>3, <1>4 DEF IsFold
  <2> QED
    BY <2>1
<1>6. Eq(it)
  <2> HIDE DEF Eq
  <2> QED
    BY <1>5
<1>7. FoldLeft(Assign, r, q) = it[DOMAIN q]
  BY DEF FoldLeft, MapThenFoldSet
<1> HIDE DEF it
<1>8. \A s \in SUBSET DOMAIN q : s = {} => it[s] \in V
  BY <1>2, <1>6
<1>9. \A s \in SUBSET DOMAIN q : s # {} /\ it[s \ {Max(s)}] \in V => it[s] \in V
  <2> SUFFICES ASSUME NEW s \in SUBSET DOMAIN q, s # {}, it[s \ {Max(s)}] \in V PROVE it[s] \in V
    OBVIOUS
  <2>1. it[s] = Assign(it[s \ {Max(s)}], q[Max(s)])
    BY <1>6
  <2>2. q[Max(s)] \in E
    BY <1>0, <1>4
  <2> HIDE DEF Eq
  <2> QED
    BY <1>1, <2>1, <2>2
<1>10. it[DOMAIN q] \in V
  <2> HIDE DEF Eq
  <2> QED
    BY <1>0, <1>8, <1>9, FoldStays
<1> QED
  BY <1>7, <1>10 DEF V

\* Every message of the port handled.
LEMMA Handled == ASSUME NEW r \in [Slots -> Devices], NEW q \in Seq(Orders)
            PROVE  FoldLeft(Handle, r, q) \in [Slots -> Devices]
<1> DEFINE V == [Slots -> Devices]
           E == Orders
           g == [x \in V |-> [e \in E |-> Handle(x, e)]]
           Eq(f) == f = [s \in SUBSET DOMAIN q |->
                           IF s = {} THEN r ELSE Handle(f[s \ {Max(s)}], q[Max(s)])]
           it == CHOOSE f : Eq(f)
<1>0. Len(q) \in Nat /\ DOMAIN q = 1 .. Len(q) /\ \A i \in DOMAIN q : q[i] \in E
  BY LenProperties, ElementOfSeq
<1>1. \A x \in V, e \in E : Handle(x, e) \in V
  BY HandleTyped
<1> HIDE DEF V, E
<1>2. g \in [V -> [E -> V]] /\ r \in V /\ q \in Seq(E)
  BY <1>1 DEF V, E
<1>3. PICK h : IsFold(h, V, g, r, q)
  <2> HIDE DEF g
  <2> QED
    BY <1>2, FoldExists
<1>4. \A s \in SUBSET DOMAIN q : s # {} => Max(s) \in s
  <2> SUFFICES ASSUME NEW s \in SUBSET (1 .. Len(q)), s # {} PROVE Max(s) \in s
    BY <1>0
  <2> QED
    BY <1>0, MaxExists
<1>5. Eq(h)
  <2> SUFFICES ASSUME NEW s \in SUBSET DOMAIN q, s # {}
               PROVE  g[h[s \ {Max(s)}]][q[Max(s)]] = Handle(h[s \ {Max(s)}], q[Max(s)])
    BY <1>3 DEF IsFold
  <2>1. h[s \ {Max(s)}] \in V /\ q[Max(s)] \in E
    BY <1>0, <1>3, <1>4 DEF IsFold
  <2> QED
    BY <2>1
<1>6. Eq(it)
  <2> HIDE DEF Eq
  <2> QED
    BY <1>5
<1>7. FoldLeft(Handle, r, q) = it[DOMAIN q]
  BY DEF FoldLeft, MapThenFoldSet
<1> HIDE DEF it
<1>8. \A s \in SUBSET DOMAIN q : s = {} => it[s] \in V
  BY <1>2, <1>6
<1>9. \A s \in SUBSET DOMAIN q : s # {} /\ it[s \ {Max(s)}] \in V => it[s] \in V
  <2> SUFFICES ASSUME NEW s \in SUBSET DOMAIN q, s # {}, it[s \ {Max(s)}] \in V PROVE it[s] \in V
    OBVIOUS
  <2>1. it[s] = Handle(it[s \ {Max(s)}], q[Max(s)])
    BY <1>6
  <2>2. q[Max(s)] \in E
    BY <1>0, <1>4
  <2> HIDE DEF Eq
  <2> QED
    BY <1>1, <2>1, <2>2
<1>10. it[DOMAIN q] \in V
  <2> HIDE DEF Eq
  <2> QED
    BY <1>0, <1>8, <1>9, FoldStays
<1> QED
  BY <1>7, <1>10 DEF V

\* The i-th slot of a set is one of it, whatever tells its slots apart.
LEMMA NthTyped ==
  ASSUME NEW S \in SUBSET Slots, NEW place \in [S -> Nat],
         \A s, u \in S : place[s] = place[u] => s = u,
         NEW i \in 1 .. Cardinality(S)
  PROVE  Nth(S, place, i) \in S
<1> DEFINE Before(s) == {u \in S \ {s} : place[u] < place[s]}
           rank == [s \in S |-> Cardinality(Before(s)) + 1]
           n == Cardinality(S)
<1>0. \A s \in S : place[s] \in Nat
  OBVIOUS
<1>1. IsFiniteSet(S) /\ n \in Nat
  <2>1. IsFiniteSet(Slots)
    BY HalAssumption, FS_Interval DEF Slots
  <2> QED
    BY <2>1, FS_Subset, FS_CardinalityType
<1>2. ASSUME NEW s \in S
      PROVE  /\ IsFiniteSet(Before(s)) /\ Cardinality(Before(s)) \in Nat
             /\ Cardinality(Before(s)) + 1 \in 1 .. n
  <2>1. S \ {s} \in SUBSET S /\ IsFiniteSet(S \ {s}) /\ Cardinality(S \ {s}) = n - 1
    BY <1>1, FS_RemoveElement
  <2>2. Before(s) \in SUBSET (S \ {s})
    BY <1>0
  <2>3. IsFiniteSet(Before(s)) /\ Cardinality(Before(s)) <= n - 1
    BY <2>1, <2>2, FS_Subset
  <2>4. Cardinality(Before(s)) \in Nat
    BY <2>3, FS_CardinalityType
  <2> QED
    BY <1>1, <2>3, <2>4
<1>3. ASSUME NEW s \in S, NEW t \in S, place[s] < place[t]
      PROVE  Cardinality(Before(s)) < Cardinality(Before(t))
  <2>1. s \in Before(t) /\ s \notin Before(s)
    BY <1>0, <1>3
  <2>2. ASSUME NEW u \in Before(s) PROVE u \in Before(t)
    <3>1. u \in S /\ place[u] < place[s]
      OBVIOUS
    <3>2. place[u] \in Nat /\ place[s] \in Nat /\ place[t] \in Nat
      BY <1>0, <3>1
    <3>3. place[u] < place[t]
      BY <1>3, <3>1, <3>2
    <3> QED
      BY <3>1, <3>3
  <2> HIDE DEF Before
  <2>3. IsFiniteSet(Before(t) \ {s}) /\ Cardinality(Before(t) \ {s}) = Cardinality(Before(t)) - 1
    BY <1>2, <2>1, FS_RemoveElement
  <2>4. Before(s) \in SUBSET (Before(t) \ {s})
    BY <2>1, <2>2
  <2>5. Cardinality(Before(s)) <= Cardinality(Before(t) \ {s})
    BY <2>3, <2>4, FS_Subset
  <2> QED
    BY <1>2, <2>3, <2>5
<1>4. rank \in Injection(S, 1 .. n)
  <2> HIDE DEF Before
  <2>1. rank \in [S -> 1 .. n]
    BY <1>2
  <2>2. ASSUME NEW s \in S, NEW t \in S, rank[s] = rank[t] PROVE s = t
    <3>1. Cardinality(Before(s)) = Cardinality(Before(t))
      BY <1>2, <2>2
    <3>2. place[s] \in Nat /\ place[t] \in Nat
      BY <1>0
    <3>3. ~(place[s] < place[t]) /\ ~(place[t] < place[s])
      BY <1>2, <1>3, <3>1
    <3> QED
      BY <3>2, <3>3
  <2> HIDE DEF rank
  <2> QED
    BY <2>1, <2>2 DEF Injection, IsInjective
<1>5. IsFiniteSet(1 .. n) /\ Cardinality(1 .. n) = n
  BY <1>1, FS_Interval
<1>6. rank \in Surjection(S, 1 .. n)
  <2> HIDE DEF rank
  <2> QED
    BY <1>4, <1>5, FS_Injection
<1>7. \E s \in S : rank[s] = i
  BY <1>6 DEF Surjection
<1>8. \E s \in S : Cardinality(Before(s)) = i - 1
  <2> HIDE DEF Before
  <2> QED
    BY <1>2, <1>7
<1> QED
  BY <1>8 DEF Nth

\* The orders for a set of slots, in whatever order, are a sequence.
LEMMA OrdersTyped ==
  ASSUME NEW S \in SUBSET Slots, NEW f, \A s \in S : f[s] \in Orders,
         NEW place \in [S -> Nat], \A s, u \in S : place[s] = place[u] => s = u
  PROVE  [i \in 1 .. Cardinality(S) |-> f[Nth(S, place, i)]] \in Seq(Orders)
<1>1. Cardinality(S) \in Nat
  <2>1. IsFiniteSet(Slots)
    BY HalAssumption, FS_Interval DEF Slots
  <2> QED
    BY <2>1, FS_Subset, FS_CardinalityType
<1>2. \A i \in 1 .. Cardinality(S) : f[Nth(S, place, i)] \in Orders
  BY NthTyped
<1> QED
  BY <1>1, <1>2

-----------------------------------------------------------------------------
(* The invariant: the initial states, and one lemma per action.            *)

\* The first state: no slot is bound and no record says anything.
LEMMA InitHolds == Init => HInv
<1> SUFFICES ASSUME Init PROVE HInv
  OBVIOUS
<1> USE HalAssumption DEF Init
<1>1. paired \in Seq(Peers) /\ forgetting \subseteq Peers /\ modeB \in BOOLEAN
  OBVIOUS
<1>2. disk \in Tables /\ table \in Tables
  BY DEF PeerOrNone, Tables
<1>3. rec \in [Slots -> Known]
  BY DEF Known, NoRec, PeerOrNone, States
<1>4. plan \in Seq(Orders) /\ binds \in Seq(Orders) /\ events \in Seq(Reports)
  BY EmptySeq
<1>5. drv \in [Slots -> Devices]
  <2>1. Even(0)
    BY DEF Even
  <2>2. FreeSlot \in Devices
    BY <2>1 DEF Devices, FreeSlot, PeerOrNone, States
  <2> QED
    BY <2>2
<1> QED
  BY <1>1, <1>2, <1>3, <1>4, <1>5 DEF HInv

\* A pass of the coordinator.
LEMMA PassKeeps ==
  ASSUME HInv, NEW capacity \in BOOLEAN, NEW look \in BOOLEAN, NEW late \in BOOLEAN,
         Pass(capacity, look, late)
  PROVE  HInv'
<1> DEFINE seen     == IF look THEN Listed ELSE observed
           asks     == modeB /\ capacity
           assigned == IF asks THEN FoldLeft(Assign, table, paired) ELSE table
           wants(s) == asks /\ assigned[s] \in Range(paired)
           wanted   == {assigned[s] : s \in {u \in Slots : wants(u)}}
           drained  == FoldLeft(Apply, rec, events)
           base     == Timers(Reattached(drained), late)
           r        == [s \in Slots |->
                          IF wants(s) /\ base[s].fp # assigned[s]
                          THEN [NoRec EXCEPT !.fp = assigned[s], !.recent = base[s].recent]
                          ELSE base[s]]
           sets     == {s \in Slots : wants(s) /\ SetDue(r[s], assigned[s], seen)}
           clears   == {s \in Slots :
                          /\ ~wants(s) /\ ~r[s].clearing /\ r[s].state # "Free"
                          /\ \/ r[s].fp # None
                             \/ r[s].state = None /\ Orphan(r, wanted, seen)}
           set(s)   == [op |-> "Set", slot |-> s, peer |-> assigned[s], gen |-> 0]
           clear(s) == [op |-> "Clear", slot |-> s, peer |-> r[s].fp, gen |-> r[s].gen]
           inStore  == [s \in sets |-> CHOOSE i \in DOMAIN paired : paired[i] = assigned[s]]
           inTable  == [s \in clears |-> s]
           fset     == [s \in Slots |-> set(s)]
           fclear   == [s \in Slots |-> clear(s)]
           settle   == [i \in 1 .. Cardinality(sets) |-> set(Nth(sets, inStore, i))]
           clearing == [i \in 1 .. Cardinality(clears) |-> clear(Nth(clears, inTable, i))]
<1>0. /\ observed' = seen
      /\ table' = [s \in Slots |-> IF assigned[s] \in Range(paired) THEN assigned[s] ELSE None]
      /\ rec' = r
      /\ pc' = IF plan' = << >> /\ table' = disk THEN "idle" ELSE "send"
      /\ events' = << >>
      /\ UNCHANGED <<paired, forgetting, modeB, disk, filter, binds, drv>>
  BY ZenonT(60) DEF Pass, userVars
<1>1. plan' = settle \o clearing
  BY ZenonT(30) DEF Pass, InOrder
<1>2. assigned \in Tables
  BY Assigned DEF HInv
<1>3. drained \in [Slots -> Known]
  BY Applied DEF HInv
<1> HIDE DEF assigned, drained
<1>4. \A s \in Slots : wants(s) => assigned[s] \in Peers
  <2>1. Range(paired) \subseteq Peers
    BY ElementOfSeq, LenProperties DEF HInv, Range
  <2> QED
    BY <2>1
<1>5. base \in [Slots -> Known]
  <2>1. ASSUME NEW k \in Known
        PROVE  /\ [k EXCEPT !.acked = FALSE, !.state = None,
                             !.clearing = FALSE, !.recent = FALSE] \in Known
               /\ [k EXCEPT !.recent = FALSE, !.clearing = FALSE] \in Known
    BY <2>1, ZenonT(30) DEF Known
  <2> DEFINE x == Reattached(drained)
  <2>2. x \in [Slots -> Known]
    BY <1>3, <2>1, ZenonT(30) DEF Reattached
  <2> HIDE DEF x
  <2>3. Timers(x, late) \in [Slots -> Known]
    BY <2>1, <2>2, ZenonT(30) DEF Timers
  <2> QED
    BY <2>3 DEF x
<1> HIDE DEF base
<1>6. r \in [Slots -> Known]
  <2> SUFFICES ASSUME NEW s \in Slots PROVE r[s] \in Known
    BY ZenonT(30)
  <2>1. CASE wants(s) /\ base[s].fp # assigned[s]
    BY HalAssumption, <1>2, <1>5, <2>1 DEF Known, NoRec, Tables
  <2>2. CASE ~(wants(s) /\ base[s].fp # assigned[s])
    BY <1>5, <2>2
  <2> QED
    BY <2>1, <2>2
<1>7. observed' = None \/ observed' \subseteq Peers
  <2>1. Listed \subseteq Peers
    BY DEF Listed, HInv, Devices, PeerOrNone
  <2> QED
    BY <1>0, <2>1, ZenonT(30) DEF HInv
<1> HIDE DEF r
<1>8. settle \in Seq(Orders)
  <2>1. \A s \in sets : s \in Slots /\ wants(s)
    OBVIOUS
  <2> HIDE DEF sets
  <2>2. ASSUME NEW s \in sets PROVE fset[s] \in Orders
    BY HalAssumption, <1>4, <2>1, <2>2 DEF Orders, Actions, PeerOrNone
  <2>3. sets \in SUBSET Slots
    BY <2>1
  <2>7. ASSUME NEW s \in sets
        PROVE  inStore[s] \in DOMAIN paired /\ paired[inStore[s]] = assigned[s]
    <3>1. \E i \in DOMAIN paired : paired[i] = assigned[s]
      BY <2>1 DEF Range
    <3> QED
      BY <3>1
  <2>8. inStore \in [sets -> Nat]
    <3>1. DOMAIN paired \subseteq Nat
      BY LenProperties DEF HInv
    <3>2. \A s \in sets : inStore[s] \in Nat
      <4> HIDE DEF inStore
      <4> QED
        BY <2>7, <3>1
    <3> QED
      BY <3>2
  <2>9. \A s, u \in sets : inStore[s] = inStore[u] => s = u
    <3> HIDE DEF inStore
    <3> SUFFICES ASSUME NEW s \in sets, NEW u \in sets, inStore[s] = inStore[u] PROVE s = u
      OBVIOUS
    <3>1. assigned[s] = assigned[u]
      BY <2>7
    <3>2. assigned[s] # None
      BY HalAssumption, <1>4, <2>1
    <3> QED
      BY <1>2, <2>3, <3>1, <3>2 DEF Tables
  <2> HIDE DEF inStore
  <2>4. [i \in 1 .. Cardinality(sets) |-> fset[Nth(sets, inStore, i)]] \in Seq(Orders)
    <3> HIDE DEF fset
    <3> QED
      BY <2>2, <2>3, <2>8, <2>9, OrdersTyped
  <2>5. ASSUME NEW i \in 1 .. Cardinality(sets) PROVE fset[Nth(sets, inStore, i)] = set(Nth(sets, inStore, i))
    <3>1. Nth(sets, inStore, i) \in Slots
      BY <2>3, <2>8, <2>9, NthTyped
    <3> QED
      BY <3>1
  <2>6. settle = [i \in 1 .. Cardinality(sets) |-> fset[Nth(sets, inStore, i)]]
    <3> HIDE DEF fset, set
    <3> QED
      BY <2>5
  <2> QED
    BY <2>4, <2>6
<1>9. clearing \in Seq(Orders)
  <2>1. \A s \in clears : s \in Slots
    OBVIOUS
  <2> HIDE DEF clears
  <2>2. ASSUME NEW s \in clears PROVE fclear[s] \in Orders
    BY <1>6, <2>1 DEF Orders, Actions, Known
  <2>3. clears \in SUBSET Slots
    BY <2>1
  <2>7. inTable \in [clears -> Nat] /\ \A s, u \in clears : inTable[s] = inTable[u] => s = u
    <3>1. \A s \in clears : s \in Nat
      BY <2>1 DEF Slots
    <3> QED
      BY <3>1
  <2> HIDE DEF inTable
  <2>4. [i \in 1 .. Cardinality(clears) |-> fclear[Nth(clears, inTable, i)]] \in Seq(Orders)
    <3> HIDE DEF fclear
    <3> QED
      BY <2>2, <2>3, <2>7, OrdersTyped
  <2>5. ASSUME NEW i \in 1 .. Cardinality(clears) PROVE fclear[Nth(clears, inTable, i)] = clear(Nth(clears, inTable, i))
    <3>1. Nth(clears, inTable, i) \in Slots
      BY <2>3, <2>7, NthTyped
    <3> QED
      BY <3>1
  <2>6. clearing = [i \in 1 .. Cardinality(clears) |-> fclear[Nth(clears, inTable, i)]]
    <3> HIDE DEF fclear, clear
    <3> QED
      BY <2>5
  <2> QED
    BY <2>4, <2>6
<1>10. plan' \in Seq(Orders)
  <2> HIDE DEF settle, clearing
  <2> QED
    BY <1>1, <1>8, <1>9, ConcatProperties
<1>11. table' \in Tables
  BY <1>0, <1>2 DEF PeerOrNone, Tables
<1>12. rec' \in [Slots -> Known]
  BY <1>0, <1>6
<1>13. events' \in Seq(Reports)
  BY <1>0, EmptySeq
<1> HIDE DEF seen, wants, sets, clears, settle, clearing
<1> QED
  BY <1>0, <1>7, <1>10, <1>11, <1>12, <1>13 DEF HInv

\* One order put on the wire.
LEMMA SendKeeps == ASSUME HInv, Send PROVE HInv'
<1>1. plan \in Seq(Orders) /\ plan # << >>
  BY DEF HInv, Send
<1>2. Head(plan) \in Orders /\ Tail(plan) \in Seq(Orders)
  BY <1>1, HeadTailProperties, SMTT(30)
<1>3. plan' \in Seq(Orders) /\ pc' = "send"
  BY <1>2 DEF Send
<1>4. binds' \in Seq(Orders)
  <2>1. binds \in Seq(Orders)
    BY DEF HInv
  <2>2. Append(binds, Head(plan)) \in Seq(Orders)
    BY <1>2, <2>1, AppendProperties
  <2> QED
    BY <2>1, <2>2 DEF Send
<1>5. rec' \in [Slots -> Known]
  <2> DEFINE b == Head(plan)
  <2>1. b.slot \in Slots /\ b.peer \in PeerOrNone
    BY <1>2 DEF Orders, Actions
  <2>2. [rec EXCEPT ![b.slot].fp = b.peer, ![b.slot].sent = TRUE,
                    ![b.slot].acked = FALSE, ![b.slot].recent = TRUE] \in [Slots -> Known]
    <3> HIDE DEF b
    <3> DEFINE k == rec[b.slot]
    <3>0. k \in Known
      BY <2>1 DEF HInv
    <3>1. [k EXCEPT !.fp = b.peer, !.sent = TRUE, !.acked = FALSE, !.recent = TRUE] \in Known
      <4> HIDE DEF k, Even
      <4> QED
        BY <2>1, <3>0 DEF Known
    <3>2. rec \in [Slots -> Known]
      BY DEF HInv
    <3> QED
      BY <2>1, <3>1, <3>2
  <2>3. [rec EXCEPT ![b.slot].clearing = TRUE] \in [Slots -> Known]
    <3> HIDE DEF b
    <3> DEFINE k == rec[b.slot]
    <3>0. k \in Known
      BY <2>1 DEF HInv
    <3>1. [k EXCEPT !.clearing = TRUE] \in Known
      <4> HIDE DEF k, Even
      <4> QED
        BY <2>1, <3>0 DEF Known
    <3>2. rec \in [Slots -> Known]
      BY DEF HInv
    <3> QED
      BY <2>1, <3>1, <3>2
  <2>4. rec \in [Slots -> Known]
    BY DEF HInv
  <2> QED
    BY <2>2, <2>3, <2>4 DEF Send
<1>6. UNCHANGED <<paired, forgetting, modeB, disk, table, observed, filter, events, drv>>
  BY DEF Send, userVars
<1> QED
  BY <1>3, <1>4, <1>5, <1>6 DEF HInv

\* The table saved.
LEMMA SaveKeeps == ASSUME HInv, SaveTable PROVE HInv'
  BY DEF HInv, SaveTable, userVars, linkVars

\* What the driver posts of a slot repeats its generation and its state.
LEMMA PostsTyped == ASSUME HInv, NEW s \in Slots PROVE Posts(s) \in Seq(Reports)
<1> DEFINE d == drv[s]
           bind == [kind |-> "BindState", slot |-> s, gen |-> d.gen, state |-> d.state]
           io   == [kind |-> "IoState", slot |-> s, gen |-> d.gen, run |-> d.run]
<1>1. d \in Devices
  BY DEF HInv
<1>2. bind \in Reports
  BY <1>1 DEF Reports, Events, Devices
<1>3. io \in Reports
  BY <1>1 DEF Reports, Events, Devices
<1>4. /\ (IF d.bindDue THEN << bind >> ELSE << >>) \in Seq(Reports)
      /\ (IF d.ioDue /\ d.gen # 0 /\ d.gen = FilterAfter(s) THEN << io >> ELSE << >>) \in Seq(Reports)
  <2> HIDE DEF bind, io, d
  <2> QED
    BY <1>2, <1>3, EmptySeq
<1>5. Posts(s) = (IF d.bindDue THEN << bind >> ELSE << >>)
          \o (IF d.ioDue /\ d.gen # 0 /\ d.gen = FilterAfter(s) THEN << io >> ELSE << >>)
  BY DEF Posts
<1> HIDE DEF bind, io, d
<1> QED
  BY <1>4, <1>5, ConcatProperties

\* Slots retired.
LEMMA RetireTyped == ASSUME NEW d \in [Slots -> Devices], NEW expired \in BOOLEAN
                     PROVE  Retire(d, expired) \in [Slots -> Devices]
<1> SUFFICES ASSUME NEW s \in Slots, d[s].state = "Delisted" PROVE RetiredSlot(d[s]) \in Devices
  BY DEF Retire
<1>1. d[s].gen \in Nat /\ ~Even(d[s].gen)
  BY DEF Devices
<1>2. Even(d[s].gen + 1)
  BY <1>1, EvenOdd
<1> DEFINE g == d[s].gen + 1
<1>3. g \in Nat /\ Even(g)
  BY <1>1, <1>2
<1> HIDE DEF g
<1> DEFINE x == FreeSlot
<1>4. /\ x \in [state : States, gen : Nat, tenant : PeerOrNone, run : BOOLEAN,
                bindDue : BOOLEAN, ioDue : BOOLEAN]
      /\ x.state = "Free" /\ x.tenant = None /\ ~x.run
  BY DEF FreeSlot, States, PeerOrNone
<1>5. RetiredSlot(d[s]) = [x EXCEPT !.gen = g, !.bindDue = TRUE]
  BY DEF RetiredSlot, g
<1> HIDE DEF x, Even
<1>6. [x EXCEPT !.gen = g, !.bindDue = TRUE] \in Devices
  BY <1>3, <1>4 DEF Devices
<1> QED
  BY <1>5, <1>6

\* A pass of the driver's service thread.
LEMMA ServiceKeeps == ASSUME HInv, NEW expired \in BOOLEAN, ServicePass(expired) PROVE HInv'
<1> DEFINE flushes == attached /\ Len(events) + 2 * NSlots <= MaxEvents
           sent(d) == [d EXCEPT !.bindDue = FALSE, !.ioDue = FALSE]
           flushed == IF flushes THEN [s \in Slots |-> sent(drv[s])] ELSE drv
           done    == FoldLeft(Handle, flushed, binds)
           posts   == [s \in Slots |-> Posts(s)]
<1>0. /\ drv' = Retire(done, expired)
      /\ binds' = << >>
      /\ \/ events' = events /\ filter' = filter
         \/ events' = events \o FlattenSeq(posts) /\ filter' = [s \in Slots |-> FilterAfter(s)]
      /\ UNCHANGED <<paired, forgetting, modeB, disk, table, rec, observed, pc, plan>>
  BY ZenonT(30) DEF ServicePass, userVars, daemonVars
<1>1. flushed \in [Slots -> Devices]
  <2>1. \A s \in Slots : sent(drv[s]) \in Devices
    BY ZenonT(30) DEF HInv, Devices
  <2>2. drv \in [Slots -> Devices]
    BY DEF HInv
  <2> HIDE DEF sent
  <2> QED
    BY <2>1, <2>2
<1>2. drv' \in [Slots -> Devices]
  <2>1. binds \in Seq(Orders)
    BY DEF HInv
  <2> HIDE DEF flushed
  <2>2. done \in [Slots -> Devices]
    BY <1>1, <2>1, Handled
  <2> HIDE DEF done
  <2> QED
    BY <1>0, <2>2, RetireTyped
<1>3. FlattenSeq(posts) \in Seq(Reports)
  <2>1. posts \in Seq(Seq(Reports)) /\ posts # << >>
    <3>1. \A s \in 1 .. NSlots : Posts(s) \in Seq(Reports)
      BY PostsTyped DEF Slots
    <3>2. posts = [s \in 1 .. NSlots |-> Posts(s)] /\ NSlots \in Nat /\ NSlots # 0
      BY HalAssumption DEF Slots
    <3>3. posts \in Seq(Seq(Reports))
      BY <3>1, <3>2
    <3>4. DOMAIN posts = 1 .. NSlots /\ 1 \in 1 .. NSlots
      BY <3>2
    <3>5. posts # << >>
      <4>1. DOMAIN posts # {} /\ DOMAIN << >> = {}
        BY <3>4
      <4> HIDE DEF posts
      <4> QED
        BY <4>1
    <3> QED
      BY <3>3, <3>5
  <2> HIDE DEF posts
  <2> QED
    BY <2>1, Flattened
<1>4. events' \in Seq(Reports)
  <2>1. events \in Seq(Reports)
    BY DEF HInv
  <2> HIDE DEF posts
  <2> QED
    BY <1>0, <1>3, <2>1, ConcatProperties, ZenonT(30)
<1>5. filter' \in [Slots -> Nat]
  BY <1>0, ZenonT(30) DEF HInv, FilterAfter, Devices
<1>6. binds' \in Seq(Orders)
  BY <1>0, EmptySeq, ZenonT(30)
<1> HIDE DEF flushes, sent, flushed, done, posts
<1> QED
  BY <1>0, <1>2, <1>4, <1>5, <1>6 DEF HInv

\* An application starts or stops a device.
LEMMA IoKeeps == ASSUME HInv, NEW s \in Slots, StartIO(s) \/ StopIO(s) PROVE HInv'
<1>1. drv' \in [Slots -> Devices]
  <2>1. drv \in [Slots -> Devices]
    BY DEF HInv
  <2>2. CASE StartIO(s)
    <3>1. [drv[s] EXCEPT !.run = TRUE, !.ioDue = TRUE] \in Devices
      BY <2>1, <2>2 DEF Devices, StartIO
    <3>2. drv' = [drv EXCEPT ![s] = [drv[s] EXCEPT !.run = TRUE, !.ioDue = TRUE]]
      BY <2>1, <2>2 DEF StartIO, Devices
    <3> QED
      BY <2>1, <3>1, <3>2
  <2>3. CASE StopIO(s)
    <3>1. [drv[s] EXCEPT !.run = FALSE, !.ioDue = TRUE] \in Devices
      BY <2>1 DEF Devices
    <3>2. drv' = [drv EXCEPT ![s] = [drv[s] EXCEPT !.run = FALSE, !.ioDue = TRUE]]
      BY <2>1, <2>3 DEF StopIO, Devices
    <3> QED
      BY <2>1, <3>1, <3>2
  <2> QED
    BY <2>2, <2>3
<1>2. UNCHANGED <<userVars, daemonVars, linkVars>>
  BY DEF StartIO, StopIO
<1> QED
  BY <1>1, <1>2 DEF HInv, userVars, daemonVars, linkVars

\* A new session empties the driver's port.
LEMMA AttachKeeps == ASSUME HInv, Attach PROVE HInv'
<1>1. binds' \in Seq(Orders)
  BY EmptySeq DEF Attach
<1> QED
  BY <1>1 DEF HInv, Attach, userVars

\* A session that ends tells the coordinator.
LEMMA DisconnectedTyped == ASSUME HInv, Disconnected
                           PROVE  events' \in Seq(Reports) /\ filter' \in [Slots -> Nat]
<1>1. [kind |-> "Detached"] \in Reports
  BY DEF Reports, Events
<1> QED
  BY <1>1, AppendProperties DEF HInv, Disconnected

\* The link lost.
LEMMA LoseKeeps == ASSUME HInv, LoseSession PROVE HInv'
<1>1. events' \in Seq(Reports) /\ filter' \in [Slots -> Nat]
  BY DisconnectedTyped DEF LoseSession
<1>2. UNCHANGED <<userVars, daemonVars, binds, drv>>
  BY DEF LoseSession
<1> QED
  BY <1>1, <1>2 DEF HInv, userVars, daemonVars

\* A driver that starts again has no slot bound and no message.
LEMMA DriverKeeps == ASSUME HInv, DriverRestart PROVE HInv'
<1>1. events' \in Seq(Reports) /\ filter' \in [Slots -> Nat]
  BY DisconnectedTyped DEF DriverRestart, HInv
<1>2. drv' \in [Slots -> Devices]
  <2>1. FreeSlot \in Devices
    BY DEF Devices, FreeSlot, PeerOrNone, States, Even
  <2> QED
    BY <2>1 DEF DriverRestart
<1>3. binds' \in Seq(Orders)
  BY EmptySeq DEF DriverRestart
<1>4. UNCHANGED <<userVars, daemonVars>>
  BY DEF DriverRestart
<1> QED
  BY <1>1, <1>2, <1>3, <1>4 DEF HInv, userVars, daemonVars

\* A daemon that starts again knows nothing of the driver.
LEMMA DaemonKeeps == ASSUME HInv, DaemonRestart PROVE HInv'
<1>1. rec' \in [Slots -> Known]
  <2>1. NoRec \in Known
    BY HalAssumption DEF Known, NoRec, PeerOrNone, States
  <2> QED
    BY <2>1 DEF DaemonRestart
<1>2. plan' \in Seq(Orders) /\ events' \in Seq(Reports) /\ plan' = << >>
  BY EmptySeq DEF DaemonRestart
<1>3. /\ table' = disk /\ disk' = disk /\ pc' = "idle" /\ observed' = None /\ forgetting' = {}
      /\ filter' = [s \in Slots |-> 0]
      /\ UNCHANGED <<paired, modeB, binds, drv>>
  BY DEF DaemonRestart
<1> QED
  BY <1>1, <1>2, <1>3 DEF HInv

\* A peer paired.
LEMMA PairKeeps == ASSUME HInv, NEW p \in Peers, Pair(p) PROVE HInv'
<1>1. paired' \in Seq(Peers)
  BY AppendProperties DEF HInv, Pair
<1> QED
  BY <1>1 DEF HInv, Pair, daemonVars, linkVars

\* A peer taken out of the store.
LEMMA UnpairKeeps == ASSUME HInv, NEW p \in Peers, NEW byDaemon \in BOOLEAN, Unpair(p, byDaemon)
                     PROVE  HInv'
<1> DEFINE i == CHOOSE j \in DOMAIN paired : paired[j] = p
<1>1. paired \in Seq(Peers) /\ i \in 1 .. Len(paired) /\ Len(paired) \in Nat
  BY LenProperties DEF Unpair, HInv, Range
<1> HIDE DEF i
<1>2. SubSeq(paired, 1, i - 1) \in Seq(Peers) /\ SubSeq(paired, i + 1, Len(paired)) \in Seq(Peers)
  BY <1>1, SubSeqProperties
<1>3. paired' \in Seq(Peers)
  BY <1>2, ConcatProperties DEF Unpair, RemoveAt, i
<1>4. forgetting' \subseteq Peers
  BY DEF HInv, Unpair
<1>5. UNCHANGED <<modeB, daemonVars, linkVars, drv>>
  BY DEF Unpair
<1> QED
  BY <1>3, <1>4, <1>5 DEF HInv, daemonVars, linkVars

\* A forgotten peer's slot given up.
LEMMA ReleaseKeeps == ASSUME HInv, NEW p \in Peers, ReleasePeer(p) PROVE HInv'
<1>1. rec' \in [Slots -> Known]
  <2>1. \A s \in Slots : rec[s] \in Known /\ [rec[s] EXCEPT !.io = FALSE] \in Known
    BY ZenonT(30) DEF HInv, Known
  <2>2. rec \in [Slots -> Known]
    BY DEF HInv
  <2> QED
    BY <2>1, <2>2 DEF ReleasePeer
<1>2. table' \in Tables
  BY DEF HInv, ReleasePeer, PeerOrNone, Tables
<1>3. disk' \in Tables
  BY <1>2 DEF HInv, ReleasePeer
<1>4. forgetting' \subseteq Peers
  BY DEF HInv, ReleasePeer
<1>5. UNCHANGED <<paired, modeB, observed, pc, plan, linkVars, drv>>
  BY DEF ReleasePeer
<1> QED
  BY <1>1, <1>2, <1>3, <1>4, <1>5 DEF HInv, linkVars

\* Every step keeps the invariant.
LEMMA StepHolds == HInv /\ [Next]_vars => HInv'
<1> SUFFICES ASSUME HInv, [Next]_vars PROVE HInv'
  OBVIOUS
<1>1. CASE Coordinator
  BY <1>1, SendKeeps, SaveKeeps, PassKeeps DEF Coordinator
<1>2. CASE Service
  BY <1>2, ServiceKeeps DEF Service
<1>3. CASE Attach
  BY <1>3, AttachKeeps
<1>4. CASE User
  <2>1. CASE SetMode
    BY <2>1 DEF HInv, SetMode, daemonVars, linkVars
  <2> QED
    BY <1>4, <2>1, PairKeeps, ReleaseKeeps, UnpairKeeps, IoKeeps DEF User
<1>5. CASE LoseSession
  BY <1>5, LoseKeeps
<1>6. CASE DriverRestart
  BY <1>6, DriverKeeps
<1>7. CASE DaemonRestart
  BY <1>7, DaemonKeeps
<1>8. CASE UNCHANGED vars
  BY <1>8 DEF HInv, vars, userVars, daemonVars, linkVars
<1> QED
  BY <1>1, <1>2, <1>3, <1>4, <1>5, <1>6, <1>7, <1>8 DEF Next

-----------------------------------------------------------------------------
(* The theorems.                                                           *)

\* The inductive invariant of the specification: the shapes of the variables, and the
\* parity of the generations on both sides (AudioHub_BindSlot, AudioHub_RetireDueSlots).
THEOREM Inductive == Spec => []HInv
<1>1. Init => HInv
  BY InitHolds
<1>2. HInv /\ [Next]_vars => HInv'
  BY StepHolds
<1> QED
  BY <1>1, <1>2, PTL DEF Spec

\* A generation that the coordinator's record and the driver's slot share is even on
\* both sides or on neither: a report says Free of a generation exactly if the slot
\* was free in it, however late the coordinator reads the report.
THEOREM OneTenancy == Spec => []OneOccupancy
<1>1. HInv => OneOccupancy
  <2> SUFFICES ASSUME HInv, NEW s \in Slots, rec[s].gen = drv[s].gen
               PROVE  /\ rec[s].state = "Free" => drv[s].state = "Free"
                      /\ rec[s].state \in {"Bound", "Delisted"} => drv[s].state # "Free"
    BY DEF OneOccupancy
  <2>1. rec[s] \in Known /\ drv[s] \in Devices
    BY DEF HInv
  <2>2. /\ rec[s].state # None => (rec[s].state = "Free" <=> Even(drv[s].gen))
        /\ drv[s].state = "Free" <=> Even(drv[s].gen)
    BY <2>1 DEF Known, Devices
  <2>3. None \notin {"Free", "Bound", "Delisted"}
    BY HalAssumption
  <2> QED
    BY <2>2, <2>3
<1> QED
  BY <1>1, Inductive, PTL

\* The shapes of the variables, and that a slot has a tenant unless it is free.
THEOREM Typed == Spec => []TypeOK
<1>1. HInv => TypeOK
  <2> SUFFICES ASSUME HInv PROVE TypeOK
    OBVIOUS
  <2>1. Range(paired) \subseteq Peers
    BY ElementOfSeq, LenProperties DEF HInv, Range
  <2>2. rec \in [Slots -> [fp : PeerOrNone, state : States \cup {None}, gen : Nat,
                          sent : BOOLEAN, acked : BOOLEAN, clearing : BOOLEAN,
                          recent : BOOLEAN, io : BOOLEAN]]
    BY DEF HInv, Known
  <2>3. plan \in Seq(Actions) /\ binds \in Seq(Actions) /\ events \in Seq(Events)
    BY DEF HInv, Orders, Reports
  <2>4. /\ drv \in [Slots -> [state : States, gen : Nat, tenant : PeerOrNone, run : BOOLEAN,
                              bindDue : BOOLEAN, ioDue : BOOLEAN]]
        /\ \A s \in Slots : drv[s].state = "Free" <=> drv[s].tenant = None
        /\ \A s \in Slots : drv[s].state = "Free" => ~drv[s].run
    BY DEF HInv, Devices
  <2> QED
    BY <2>1, <2>2, <2>3, <2>4 DEF HInv, TypeOK, Tables
<1> QED
  BY <1>1, Inductive, PTL
=============================================================================
