------------------------- MODULE SessionTableProofs -------------------------
(***************************************************************************)
(* Proofs about SessionTable, for any number of connections, threads and   *)
(* stream ids and for any caps.                                            *)
(***************************************************************************)
EXTENDS SessionTable, FiniteSetTheorems, TLAPS

-----------------------------------------------------------------------------
(* Typing: which thread can be where, and what its locals then hold.       *)

Opening == {"gated", "picked"} \cup Holding
Ending  == {"dying", "snapping", "purging"}

Roles ==
    /\ \A c \in Conns : pc[c] \in {"born", "retiring", "reading", "closing", "done"}
                                    \cup Opening \cup Ending
    /\ \A o \in Openers : pc[o] \in {"idle"} \cup Opening
    /\ \A t \in Threads \ Workers :
          pc[t] \in {"idle", "closing", "switched", "noticed", "queried"} \cup Ending

JobOK ==
    \A t \in Threads :
        /\ pc[t] \in Opening => job[t].kind \in Kinds
        /\ pc[t] \in Holding => job[t].id \in Ids
        /\ pc[t] \in {"picked"} \cup Holding \cup Ending => On(t) \in Conns
        /\ pc[t] = "retiring" => job[t].conn \in Conns

TInv == TypeOK /\ Roles /\ JobOK

USE DEF Modes, Endpoints

\* Types, roles and locals at the start.
LEMMA InitTyped == Init => TInv
  BY ConstantsOK, ThreadsDistinct
  DEF Init, TInv, TypeOK, Roles, JobOK, NoJob, Threads, Workers, Opening, Ending, Holding, On

\* Every step keeps types, roles and locals.
LEMMA StepTyped == TInv /\ [Next]_vars => TInv'
<1> SUFFICES ASSUME TInv, [Next]_vars PROVE TInv'
  OBVIOUS
<1> USE ConstantsOK, ThreadsDistinct
        DEF TInv, TypeOK, Roles, JobOK, NoJob, Threads, Workers, Opening, Ending,
            Holding, On, Goto, Return, Home, reg, dev, tab, tear
<1>1. ASSUME NEW c \in Conns, NEW k \in Offered, RemoteGate(c, k) PROVE TInv'
  BY <1>1 DEF RemoteGate
<1>2. ASSUME NEW c \in Conns, RemoteSample(c) PROVE TInv'
  <2>1. CASE Return(c)
    BY <1>2, <2>1 DEF RemoteSample
  <2>2. CASE ~Return(c)
    <3> DEFINE e == Endpoint(job[c].kind)
               n == IF e = "none" THEN 0 ELSE epoch[e]
    <3>1. e \in {"none", "in", "out"}
      BY DEF Endpoint
    <3>2. n \in Nat
      BY <3>1
    <3>3. job' = [job EXCEPT ![c] = [job[c] EXCEPT !.epoch = n]] /\ Goto(c, "picked")
      BY <1>2, <2>2 DEF RemoteSample
    <3>4. UNCHANGED <<mode, reg, tab, dev, tear>> /\ pc[c] = "gated"
      BY <1>2 DEF RemoteSample
    <3> HIDE DEF n
    <3>5. TypeOK'
      <4>1. [job[c] EXCEPT !.epoch = n]
              \in [conn : Conns \cup {None}, id : Ids \cup {None}, kind : Kinds \cup {None}, epoch : Nat]
        <5>1. job[c] \in [conn : Conns \cup {None}, id : Ids \cup {None}, kind : Kinds \cup {None}, epoch : Nat]
          OBVIOUS
        <5> HIDE DEF TInv, TypeOK, Roles, JobOK
        <5> QED
          BY <3>2, <5>1
      <4>2. job' \in [Threads -> [conn : Conns \cup {None}, id : Ids \cup {None},
                                 kind : Kinds \cup {None}, epoch : Nat]]
        BY <3>3, <4>1
      <4>3. pc' = [pc EXCEPT ![c] = "picked"]
        BY <3>3
      <4> QED
        BY <3>4, <4>2, <4>3
    <3>6. Roles'
      BY <3>3, <3>4
    <3>7. JobOK'
      BY <3>3, <3>4
    <3> QED
      BY <3>5, <3>6, <3>7
  <2> QED
    BY <2>1, <2>2
<1>3. ASSUME NEW o \in Openers, NEW k \in Offered, LocalGate(o, k) PROVE TInv'
  BY <1>3 DEF LocalGate
<1>4. ASSUME NEW o \in Openers, LocalPick(o) PROVE TInv'
  <2>1. CASE Return(o)
    BY <1>4, <2>1 DEF LocalPick
  <2>2. ASSUME NEW p \in Peers, conns[p] # None,
               job' = [job EXCEPT ![o] = [@ EXCEPT !.conn = conns[p]]],
               Goto(o, "picked")
        PROVE  TInv'
    <3>1. conns[p] \in Conns
      BY <2>2
    <3>2. UNCHANGED <<mode, reg, tab, dev, tear>> /\ pc[o] = "gated"
      BY <1>4 DEF LocalPick
    <3>3. TypeOK'
      BY <2>2, <3>1, <3>2, SMTT(30)
    <3>4. Roles'
      BY <2>2, <3>2
    <3>5. JobOK'
      BY <2>2, <3>1, <3>2
    <3> QED
      BY <3>3, <3>4, <3>5
  <2> HIDE DEF TInv, Return, Goto
  <2> QED
    BY <1>4, <2>1, <2>2 DEF LocalPick
<1>5. ASSUME NEW t \in Workers, NEW i \in Ids, Claim(t, i) PROVE TInv'
  BY <1>5, SMTT(30) DEF Claim
<1>6. ASSUME NEW t \in Workers, ClaimRefused(t) PROVE TInv'
  BY <1>6 DEF ClaimRefused
<1>7. ASSUME NEW t \in Workers, Build(t) PROVE TInv'
  BY <1>7 DEF Build
<1>8. ASSUME NEW t \in Workers, BuildFails(t) PROVE TInv'
  BY <1>8 DEF BuildFails
<1>9. ASSUME NEW t \in Workers, Publish(t) PROVE TInv'
  BY <1>9 DEF Publish
<1>10. ASSUME NEW t \in Workers, Abandon(t) PROVE TInv'
  BY <1>10 DEF Abandon
<1>11. ASSUME NEW t \in Workers, Unwind(t) PROVE TInv'
  BY <1>11 DEF Unwind
<1>12. ASSUME NEW t \in Workers, Release(t) PROVE TInv'
  BY <1>12 DEF Release
<1>13. ASSUME NEW c \in Conns, Connect(c) PROVE TInv'
  BY <1>13 DEF Connect
<1>14. ASSUME NEW c \in Conns, Register(c) PROVE TInv'
  <2> DEFINE old == conns[PeerOf[c]]
  <2>1. old \in Conns \cup {None}
    BY <1>14
  <2>2. CASE Goto(c, "done") /\ UNCHANGED <<conns, job>>
    <3>1. /\ \/ alive' = [alive EXCEPT ![c] = FALSE]
             \/ UNCHANGED alive
          /\ UNCHANGED <<mode, tab, dev, tear>>
      BY <1>14 DEF Register
    <3>2. TypeOK'
      BY <2>2, <3>1, ZenonT(30)
    <3>3. Roles'
      BY <2>2, <3>1
    <3>4. JobOK'
      BY <2>2, <3>1
    <3> QED
      BY <3>2, <3>3, <3>4
  <2>3. CASE ~(Goto(c, "done") /\ UNCHANGED <<conns, job>>)
    <3>1. /\ conns' = [conns EXCEPT ![PeerOf[c]] = c]
          /\ job' = [job EXCEPT ![c] = [NoJob EXCEPT !.conn = old]]
          /\ pc' = [pc EXCEPT ![c] = IF old = None THEN "reading" ELSE "retiring"]
          /\ UNCHANGED <<mode, alive, tab, dev, tear>>
      BY <1>14, <2>3 DEF Register
    <3> HIDE DEF old
    <3>2. TypeOK'
      BY <2>1, <3>1
    <3>3. Roles'
      BY <2>1, <3>1
    <3>4. JobOK'
      BY <2>1, <3>1
    <3> QED
      BY <3>2, <3>3, <3>4
  <2> QED
    BY <2>2, <2>3
<1>15. ASSUME NEW c \in Conns, Retire(c) PROVE TInv'
  BY <1>15 DEF Retire
<1>16. ASSUME NEW c \in Conns, ReaderExits(c) PROVE TInv'
  BY <1>16 DEF ReaderExits
<1>17. ASSUME NEW r \in Reapers, NEW p \in Peers, Reap(r, p) PROVE TInv'
  BY <1>17 DEF Reap
<1>18. ASSUME NEW t \in Threads, MarkDead(t) PROVE TInv'
  BY <1>18, SMTT(30) DEF MarkDead
<1>19. ASSUME NEW t \in Threads, SnapConn(t) PROVE TInv'
  BY <1>19, SMTT(30) DEF SnapConn, LiveOn, Live
<1>20. ASSUME NEW t \in Threads, Unregister(t) PROVE TInv'
  BY <1>20 DEF Unregister
<1>21. ASSUME NEW t \in Threads, NEW i \in Ids, Take(t, i) PROVE TInv'
  BY <1>21 DEF Take
<1>22. ASSUME NEW t \in Threads, Unplug(t) PROVE TInv'
  BY <1>22 DEF Unplug
<1>23. ASSUME NEW t \in Threads, Swept(t) PROVE TInv'
  BY <1>23 DEF Swept
<1>24. ASSUME NEW c \in Conns, NEW i \in Ids, RemoteClose(c, i) PROVE TInv'
  BY <1>24 DEF RemoteClose
<1>25. ASSUME NEW u \in Closers, NEW i \in Ids, LocalClose(u, i) PROVE TInv'
  BY <1>25 DEF LocalClose
<1>26. ASSUME NEW m \in Switchable, SetMode(m) PROVE TInv'
  BY <1>26 DEF SetMode
<1>27. ASSUME SnapMode PROVE TInv'
  BY <1>27 DEF SnapMode, Live
<1>28. ASSUME NEW e \in Endpoints, DeviceChange(e) PROVE TInv'
  BY <1>28 DEF DeviceChange
<1>29. ASSUME NEW e \in Endpoints, DeviceCallback(e) PROVE TInv'
  BY <1>29 DEF DeviceCallback
<1>30. ASSUME WatchEpoch PROVE TInv'
  BY <1>30 DEF WatchEpoch
<1>31. ASSUME WatchPresence PROVE TInv'
  BY <1>31 DEF WatchPresence
<1>32. ASSUME SnapMissing PROVE TInv'
  BY <1>32 DEF SnapMissing, Live
<1>33. ASSUME UNCHANGED vars PROVE TInv'
  BY <1>33 DEF vars
<1>34. QED
  <2> HIDE DEF TInv, TypeOK, Roles, JobOK, NoJob, Opening, Ending, Holding, On, Goto, Return,
               Home, reg, dev, tab, tear
  <2> QED
    BY <1>1, <1>2, <1>3, <1>4, <1>5, <1>6, <1>7, <1>8, <1>9, <1>10, <1>11, <1>12, <1>13, <1>14,
       <1>15, <1>16, <1>17, <1>18, <1>19, <1>20, <1>21, <1>22, <1>23, <1>24, <1>25, <1>26, <1>27,
       <1>28, <1>29, <1>30, <1>31, <1>32, <1>33 DEF Next, Request, OpenStep, TearStep

-----------------------------------------------------------------------------
(* Claims: an opener owns its stream id from the claim to the commit.      *)

CInv ==
    /\ ClaimsAreHeld
    /\ \A i \in Ids : claims[i] # None => sessions[i] = None

\* Nothing is claimed at the start.
LEMMA InitClaims == Init => CInv
  BY ThreadsDistinct DEF Init, CInv, ClaimsAreHeld, Threads, Workers, Holding

\* A step of a worker that holds nothing before and after it leaves them alone.
LEMMA IdleKeepsClaims ==
  ASSUME TInv, CInv, NEW o \in Workers, pc[o] \notin Holding, pc'[o] \notin Holding,
         UNCHANGED <<sessions, claims>>,
         \A t \in Threads : t # o => job'[t] = job[t] /\ pc'[t] = pc[t]
  PROVE  CInv'
<1>1. \A i \in Ids : claims[i] # None =>
          claims[i] \in Threads /\ pc[claims[i]] \in Holding /\ job[claims[i]].id = i
  BY DEF TInv, TypeOK, CInv, ClaimsAreHeld, Threads, Workers
<1>2. \A t \in Workers : t \in Threads
  BY DEF Threads, Workers
<1>3. \A t \in Workers : pc[t] \in Holding => job[t].id \in Ids /\ claims[job[t].id] = t
  BY DEF CInv, ClaimsAreHeld
<1>4. \A i \in Ids : claims'[i] # None => pc'[claims'[i]] \in Holding /\ job'[claims'[i]].id = i
  BY <1>1
<1>5. \A t \in Workers : pc'[t] \in Holding => job'[t].id \in Ids /\ claims'[job'[t].id] = t
  BY <1>2, <1>3
<1>6. \A i \in Ids : claims'[i] # None => sessions'[i] = None
  BY DEF CInv
<1> QED
  BY <1>4, <1>5, <1>6 DEF CInv, ClaimsAreHeld

\* The worker that holds id k and lets it go leaves the others alone.
LEMMA ReleaseKeepsClaims ==
  ASSUME TInv, CInv, NEW o \in Workers, NEW k \in Ids, claims[k] = o, job[o].id = k,
         pc'[o] \notin Holding, UNCHANGED sessions,
         claims' = [claims EXCEPT ![k] = None],
         \A t \in Threads : t # o => job'[t] = job[t] /\ pc'[t] = pc[t]
  PROVE  CInv'
<1>1. \A i \in Ids : claims[i] # None =>
          claims[i] \in Threads /\ pc[claims[i]] \in Holding /\ job[claims[i]].id = i
  BY DEF TInv, TypeOK, CInv, ClaimsAreHeld, Threads, Workers
<1>2. \A t \in Workers : t \in Threads
  BY DEF Threads, Workers
<1>3. \A t \in Workers : pc[t] \in Holding => job[t].id \in Ids /\ claims[job[t].id] = t
  BY DEF CInv, ClaimsAreHeld
<1>4. claims'[k] = None /\ \A i \in Ids : i # k => claims'[i] = claims[i] /\ claims[i] # o
  <2>1. claims \in [Ids -> Workers \cup {None}] /\ o # None
    BY ThreadsDistinct, NoneIsNothing DEF TInv, TypeOK, Threads, Workers
  <2> QED
    BY <1>1, <2>1
<1>5. \A i \in Ids : claims'[i] # None => pc'[claims'[i]] \in Holding /\ job'[claims'[i]].id = i
  BY <1>1, <1>4
<1>6. \A t \in Workers : pc'[t] \in Holding => job'[t].id \in Ids /\ claims'[job'[t].id] = t
  BY <1>2, <1>3, <1>4
<1>7. \A i \in Ids : claims'[i] # None => sessions'[i] = None
  BY <1>4 DEF CInv
<1> QED
  BY <1>5, <1>6, <1>7 DEF CInv, ClaimsAreHeld

\* Every step keeps claims with the openers that made them.
LEMMA StepClaims == TInv /\ TInv' /\ CInv /\ [Next]_vars => CInv'
<1> SUFFICES ASSUME TInv, TInv', CInv, [Next]_vars PROVE CInv'
  OBVIOUS
<1> USE ThreadsDistinct, NoneIsNothing
        DEF TInv, TypeOK, Roles, CInv, ClaimsAreHeld, Threads, Workers, Opening, Ending,
            Holding, NoJob, Goto, Return, Home, reg, dev, tab, tear
<1>1. ASSUME NEW c \in Conns, NEW k \in Offered, RemoteGate(c, k) PROVE CInv'
  BY <1>1 DEF RemoteGate
<1>2. ASSUME NEW c \in Conns, RemoteSample(c) PROVE CInv'
  BY <1>2, SMTT(30) DEF RemoteSample
<1>3. ASSUME NEW o \in Openers, NEW k \in Offered, LocalGate(o, k) PROVE CInv'
  BY <1>3 DEF LocalGate
<1>4. ASSUME NEW o \in Openers, LocalPick(o) PROVE CInv'
  <2>1. pc[o] = "gated" /\ pc'[o] \notin Holding /\ UNCHANGED tab
    BY <1>4 DEF LocalPick
  <2>2. \A t \in Threads : t # o => job'[t] = job[t] /\ pc'[t] = pc[t]
    BY <1>4 DEF LocalPick
  <2>3. o \in Workers /\ pc[o] \notin Holding
    BY <2>1
  <2> HIDE DEF TInv, CInv, Workers, Threads, Holding
  <2> QED
    BY <2>1, <2>2, <2>3, IdleKeepsClaims
<1>5. ASSUME NEW t \in Workers, NEW i \in Ids, Claim(t, i) PROVE CInv'
  BY <1>5 DEF Claim, Claimable
<1>6. ASSUME NEW t \in Workers, ClaimRefused(t) PROVE CInv'
  BY <1>6 DEF ClaimRefused
<1>7. ASSUME NEW t \in Workers, Build(t) PROVE CInv'
  BY <1>7 DEF Build
<1>8. ASSUME NEW t \in Workers, BuildFails(t) PROVE CInv'
  BY <1>8, SMTT(30) DEF BuildFails
<1>9. ASSUME NEW t \in Workers, Publish(t) PROVE CInv'
  BY <1>9 DEF Publish, Publishable
<1>10. ASSUME NEW t \in Workers, Abandon(t) PROVE CInv'
  BY <1>10 DEF Abandon
<1>11. ASSUME NEW t \in Workers, Unwind(t) PROVE CInv'
  BY <1>11 DEF Unwind
<1>12. ASSUME NEW t \in Workers, Release(t) PROVE CInv'
  <2> DEFINE k == job[t].id
  <2>1. pc[t] = "release" /\ k \in Ids /\ claims[k] = t
    BY <1>12 DEF Release
  <2>2. claims' = [claims EXCEPT ![k] = IF @ = t THEN None ELSE @]
    BY <1>12 DEF Release
  <2>3. claims' = [claims EXCEPT ![k] = None]
    BY <2>1, <2>2
  <2>4. pc'[t] \notin Holding /\ UNCHANGED sessions
    BY <1>12 DEF Release
  <2>5. \A x \in Threads : x # t => job'[x] = job[x] /\ pc'[x] = pc[x]
    BY <1>12 DEF Release
  <2>6. job[t].id = k
    OBVIOUS
  <2> HIDE DEF k, TInv, CInv, Workers, Threads, Holding
  <2> QED
    BY <2>1, <2>3, <2>4, <2>5, <2>6, ReleaseKeepsClaims
<1>13. ASSUME NEW c \in Conns, Connect(c) PROVE CInv'
  BY <1>13 DEF Connect
<1>14. ASSUME NEW c \in Conns, Register(c) PROVE CInv'
  <2>1. pc[c] = "born" /\ UNCHANGED tab
    BY <1>14 DEF Register
  <2>2. pc'[c] \notin Holding
    BY <1>14 DEF Register
  <2>3. \A t \in Threads : t # c => job'[t] = job[t] /\ pc'[t] = pc[t]
    BY <1>14 DEF Register
  <2>4. c \in Workers /\ pc[c] \notin Holding
    BY <2>1
  <2> HIDE DEF TInv, CInv, Workers, Threads, Holding
  <2> QED
    BY <2>1, <2>2, <2>3, <2>4, IdleKeepsClaims
<1>15. ASSUME NEW c \in Conns, Retire(c) PROVE CInv'
  BY <1>15 DEF Retire
<1>16. ASSUME NEW c \in Conns, ReaderExits(c) PROVE CInv'
  BY <1>16 DEF ReaderExits
<1>17. ASSUME NEW r \in Reapers, NEW p \in Peers, Reap(r, p) PROVE CInv'
  BY <1>17 DEF Reap
<1>18. ASSUME NEW t \in Threads, MarkDead(t) PROVE CInv'
  BY <1>18 DEF MarkDead
<1>19. ASSUME NEW t \in Threads, SnapConn(t) PROVE CInv'
  BY <1>19 DEF SnapConn
<1>20. ASSUME NEW t \in Threads, Unregister(t) PROVE CInv'
  BY <1>20 DEF Unregister
<1>21. ASSUME NEW t \in Threads, NEW i \in Ids, Take(t, i) PROVE CInv'
  BY <1>21 DEF Take
<1>22. ASSUME NEW t \in Threads, Unplug(t) PROVE CInv'
  BY <1>22 DEF Unplug
<1>23. ASSUME NEW t \in Threads, Swept(t) PROVE CInv'
  BY <1>23 DEF Swept
<1>24. ASSUME NEW c \in Conns, NEW i \in Ids, RemoteClose(c, i) PROVE CInv'
  BY <1>24 DEF RemoteClose
<1>25. ASSUME NEW u \in Closers, NEW i \in Ids, LocalClose(u, i) PROVE CInv'
  BY <1>25 DEF LocalClose
<1>26. ASSUME NEW m \in Switchable, SetMode(m) PROVE CInv'
  BY <1>26 DEF SetMode
<1>27. ASSUME SnapMode PROVE CInv'
  BY <1>27 DEF SnapMode
<1>28. ASSUME NEW e \in Endpoints, DeviceChange(e) PROVE CInv'
  BY <1>28 DEF DeviceChange
<1>29. ASSUME NEW e \in Endpoints, DeviceCallback(e) PROVE CInv'
  BY <1>29 DEF DeviceCallback
<1>30. ASSUME WatchEpoch PROVE CInv'
  BY <1>30 DEF WatchEpoch
<1>31. ASSUME WatchPresence PROVE CInv'
  BY <1>31 DEF WatchPresence
<1>32. ASSUME SnapMissing PROVE CInv'
  BY <1>32 DEF SnapMissing
<1>33. ASSUME UNCHANGED vars PROVE CInv'
  BY <1>33 DEF vars
<1> HIDE DEF TInv, CInv, TypeOK, Roles, ClaimsAreHeld, Goto, Return
<1>34. QED
  BY <1>1, <1>2, <1>3, <1>4, <1>5, <1>6, <1>7, <1>8, <1>9, <1>10, <1>11, <1>12, <1>13, <1>14,
     <1>15, <1>16, <1>17, <1>18, <1>19, <1>20, <1>21, <1>22, <1>23, <1>24, <1>25, <1>26, <1>27,
     <1>28, <1>29, <1>30, <1>31, <1>32, <1>33
     DEF Next, Request, OpenStep, TearStep

-----------------------------------------------------------------------------
(* Orphans: what is on a connection that is over.                          *)

OInv ==
    \A c \in Conns :
        /\ pc[c] \in {"snapping", "purging", "done"} => ~alive[c]
        /\ pc[c] = "purging" => LiveOn(c) \subseteq todo[c]
        /\ pc[c] \in {"done", "born"} => LiveOn(c) = {}
        /\ pc[c] = "born" => \A p \in Peers : conns[p] # c

\* No session is on a dead connection at the start.
LEMMA InitOrphans == Init => OInv
  BY ThreadsDistinct, NoneIsNothing DEF Init, OInv, LiveOn, Live, Threads

\* Every step keeps the sessions of a dying connection in its reader's hands.
LEMMA StepOrphans == TInv /\ TInv' /\ CInv /\ OInv /\ [Next]_vars => OInv'
<1> SUFFICES ASSUME TInv, TInv', CInv, OInv, [Next]_vars PROVE OInv'
  OBVIOUS
<1> USE ConstantsOK, ThreadsDistinct, NoneIsNothing
        DEF TInv, TypeOK, Roles, JobOK, OInv, LiveOn, Live, On, Current, Threads, Workers,
            Opening, Ending, Holding, NoJob, Goto, Return, Home, reg, dev, tab, tear
<1>1. ASSUME NEW c \in Conns, NEW k \in Offered, RemoteGate(c, k) PROVE OInv'
  BY <1>1 DEF RemoteGate
<1>2. ASSUME NEW c \in Conns, RemoteSample(c) PROVE OInv'
  BY <1>2 DEF RemoteSample
<1>3. ASSUME NEW o \in Openers, NEW k \in Offered, LocalGate(o, k) PROVE OInv'
  BY <1>3 DEF LocalGate
<1>4. ASSUME NEW o \in Openers, LocalPick(o) PROVE OInv'
  BY <1>4 DEF LocalPick
<1>5. ASSUME NEW t \in Workers, NEW i \in Ids, Claim(t, i) PROVE OInv'
  BY <1>5 DEF Claim, Claimable
<1>6. ASSUME NEW t \in Workers, ClaimRefused(t) PROVE OInv'
  BY <1>6 DEF ClaimRefused
<1>7. ASSUME NEW t \in Workers, Build(t) PROVE OInv'
  BY <1>7 DEF Build
<1>8. ASSUME NEW t \in Workers, BuildFails(t) PROVE OInv'
  BY <1>8 DEF BuildFails
<1>9. ASSUME NEW t \in Workers, Publish(t) PROVE OInv'
  <2>1. alive[On(t)] /\ On(t) \in Conns /\ conns[PeerOf[On(t)]] = On(t)
        /\ PeerOf[On(t)] \in Peers
    BY <1>9 DEF Publish, Publishable
  <2>2. UNCHANGED <<conns, alive, todo>>
    BY <1>9 DEF Publish
  <2>3. \A c \in Conns : LiveOn(c)' \subseteq LiveOn(c) \/ c = On(t)
    BY <1>9 DEF Publish
  <2>4. \A c \in Conns : pc'[c] = pc[c] \/ pc'[c] = "reading"
    BY <1>9 DEF Publish
  <2>5. /\ pc[On(t)] \notin {"snapping", "purging", "done"}
        /\ pc[On(t)] # "born"
    BY <2>1
  <2> HIDE DEF TInv, LiveOn, On, Live
  <2> QED
    BY <2>1, <2>2, <2>3, <2>4, <2>5, SMTT(30)
<1>10. ASSUME NEW t \in Workers, Abandon(t) PROVE OInv'
  BY <1>10 DEF Abandon
<1>11. ASSUME NEW t \in Workers, Unwind(t) PROVE OInv'
  BY <1>11 DEF Unwind
<1>12. ASSUME NEW t \in Workers, Release(t) PROVE OInv'
  BY <1>12 DEF Release
<1>13. ASSUME NEW c \in Conns, Connect(c) PROVE OInv'
  BY <1>13 DEF Connect
<1>14. ASSUME NEW c \in Conns, Register(c) PROVE OInv'
  BY <1>14 DEF Register
<1>15. ASSUME NEW c \in Conns, Retire(c) PROVE OInv'
  BY <1>15 DEF Retire
<1>16. ASSUME NEW c \in Conns, ReaderExits(c) PROVE OInv'
  BY <1>16 DEF ReaderExits
<1>17. ASSUME NEW r \in Reapers, NEW p \in Peers, Reap(r, p) PROVE OInv'
  BY <1>17 DEF Reap
<1>18. ASSUME NEW t \in Threads, MarkDead(t) PROVE OInv'
  BY <1>18 DEF MarkDead
<1>19. ASSUME NEW t \in Threads, SnapConn(t) PROVE OInv'
  BY <1>19 DEF SnapConn
<1>20. ASSUME NEW t \in Threads, Unregister(t) PROVE OInv'
  <2>1. pc[t] = "purging" /\ todo[t] = {} /\ UNCHANGED <<alive, todo, sessions>>
    BY <1>20 DEF Unregister
  <2>2. \A c \in Conns : c # t => pc'[c] = pc[c]
    BY <1>20 DEF Unregister
  <2>3. t \in Conns => pc'[t] = "done"
    BY <1>20, SMTT(30) DEF Unregister
  <2>4. \A p \in Peers : conns'[p] \in {conns[p], None}
    BY <1>20 DEF Unregister
  <2>5. \A c \in Conns : LiveOn(c)' = LiveOn(c)
    BY <2>1
  <2> HIDE DEF TInv, LiveOn, On, Live
  <2> QED
    BY <2>1, <2>2, <2>3, <2>4, <2>5
<1>21. ASSUME NEW t \in Threads, NEW i \in Ids, Take(t, i) PROVE OInv'
  BY <1>21 DEF Take
<1>22. ASSUME NEW t \in Threads, Unplug(t) PROVE OInv'
  BY <1>22 DEF Unplug
<1>23. ASSUME NEW t \in Threads, Swept(t) PROVE OInv'
  BY <1>23 DEF Swept
<1>24. ASSUME NEW c \in Conns, NEW i \in Ids, RemoteClose(c, i) PROVE OInv'
  BY <1>24 DEF RemoteClose
<1>25. ASSUME NEW u \in Closers, NEW i \in Ids, LocalClose(u, i) PROVE OInv'
  BY <1>25 DEF LocalClose
<1>26. ASSUME NEW m \in Switchable, SetMode(m) PROVE OInv'
  BY <1>26 DEF SetMode
<1>27. ASSUME SnapMode PROVE OInv'
  BY <1>27 DEF SnapMode
<1>28. ASSUME NEW e \in Endpoints, DeviceChange(e) PROVE OInv'
  BY <1>28 DEF DeviceChange
<1>29. ASSUME NEW e \in Endpoints, DeviceCallback(e) PROVE OInv'
  BY <1>29 DEF DeviceCallback
<1>30. ASSUME WatchEpoch PROVE OInv'
  BY <1>30 DEF WatchEpoch
<1>31. ASSUME WatchPresence PROVE OInv'
  BY <1>31 DEF WatchPresence
<1>32. ASSUME SnapMissing PROVE OInv'
  BY <1>32 DEF SnapMissing
<1>33. ASSUME UNCHANGED vars PROVE OInv'
  BY <1>33 DEF vars
<1> HIDE DEF TInv, OInv, TypeOK, Roles, JobOK, LiveOn, Live, Current, Goto, Return
<1>34. QED
  BY <1>1, <1>2, <1>3, <1>4, <1>5, <1>6, <1>7, <1>8, <1>9, <1>10, <1>11, <1>12, <1>13, <1>14,
     <1>15, <1>16, <1>17, <1>18, <1>19, <1>20, <1>21, <1>22, <1>23, <1>24, <1>25, <1>26, <1>27,
     <1>28, <1>29, <1>30, <1>31, <1>32, <1>33
     DEF Next, Request, OpenStep, TearStep

-----------------------------------------------------------------------------
(* Routing: rx_table between the open, the commit and the teardown. What   *)
(* makes it work is that claim_stream_id also refuses an id that is still  *)
(* in rx_table, so a teardown between its two steps is alone with its id.  *)

RInv ==
    /\ \A t \in Workers : pc[t] \in {"built", "unwind"} /\ Receives(job[t].kind)
                             => job[t].id \in rxTable
    /\ \A i \in Ids : sessions[i] # None /\ Receives(sessions[i].kind) => i \in rxTable
    /\ \A t \in Threads : cut[t] # None /\ Receives(cut[t].kind) =>
          /\ cut[t].id \in rxTable
          /\ sessions[cut[t].id] = None /\ claims[cut[t].id] = None
    /\ \A t, u \in Threads :
          /\ cut[t] # None /\ Receives(cut[t].kind)
          /\ cut[u] # None /\ Receives(cut[u].kind)
          /\ cut[t].id = cut[u].id
          => t = u

\* Routing holds at the start.
LEMMA InitRouting == Init => RInv
  BY ThreadsDistinct DEF Init, RInv, Threads, Workers

\* Routing is about the threads between their open and its end, and the table.
LEMMA KeepsRouting ==
  ASSUME RInv, UNCHANGED <<sessions, claims, rxTable, cut>>,
         \A t \in Workers : pc'[t] \in {"built", "unwind"} =>
                              pc'[t] = pc[t] /\ job'[t] = job[t]
  PROVE  RInv'
  BY DEF RInv

\* Every step keeps receivers in rx_table for as long as they are needed.
LEMMA StepRouting == TInv /\ TInv' /\ CInv /\ RInv /\ [Next]_vars => RInv'
<1> SUFFICES ASSUME TInv, TInv', CInv, RInv, [Next]_vars PROVE RInv'
  OBVIOUS
<1> USE ThreadsDistinct, NoneIsNothing
        DEF TInv, TypeOK, Roles, JobOK, CInv, ClaimsAreHeld, RInv, Threads, Workers,
            Opening, Ending, Holding, NoJob, Goto, Return, Home, reg, dev, tab, tear
<1>1. ASSUME NEW c \in Conns, NEW k \in Offered, RemoteGate(c, k) PROVE RInv'
  BY <1>1 DEF RemoteGate
<1>2. ASSUME NEW c \in Conns, RemoteSample(c) PROVE RInv'
  BY <1>2 DEF RemoteSample
<1>3. ASSUME NEW o \in Openers, NEW k \in Offered, LocalGate(o, k) PROVE RInv'
  BY <1>3 DEF LocalGate
<1>4. ASSUME NEW o \in Openers, LocalPick(o) PROVE RInv'
  BY <1>4, SMTT(30) DEF LocalPick
<1>5. ASSUME NEW t \in Workers, NEW i \in Ids, Claim(t, i) PROVE RInv'
  BY <1>5 DEF Claim, Claimable
<1>6. ASSUME NEW t \in Workers, ClaimRefused(t) PROVE RInv'
  BY <1>6 DEF ClaimRefused
<1>7. ASSUME NEW t \in Workers, Build(t) PROVE RInv'
  BY <1>7 DEF Build
<1>8. ASSUME NEW t \in Workers, BuildFails(t) PROVE RInv'
  BY <1>8 DEF BuildFails
<1>9. ASSUME NEW t \in Workers, Publish(t) PROVE RInv'
  <2> DEFINE n == job[t].id
             k == job[t].kind
  <2>1. /\ pc[t] = "built" /\ n \in Ids /\ claims[n] = t /\ t # None
        /\ sessions' = [sessions EXCEPT ![n] = [conn |-> On(t), kind |-> k]]
        /\ claims' = [claims EXCEPT ![n] = None]
        /\ UNCHANGED <<rxTable, cut>>
    BY <1>9, SMTT(30) DEF Publish, Publishable
  <2>2. \A u \in Threads : u # t => pc'[u] = pc[u] /\ job'[u] = job[u]
    BY <1>9, SMTT(30) DEF Publish
  <2>3. pc'[t] \notin {"built", "unwind"}
    BY <1>9, SMTT(30) DEF Publish
  <2>4. /\ sessions'[n].kind = k /\ claims'[n] = None
        /\ \A i \in Ids \ {n} : sessions'[i] = sessions[i] /\ claims'[i] = claims[i]
    BY <2>1
  <2>5. Receives(k) => n \in rxTable
    BY <2>1
  <2>6. \A u \in Threads : cut[u] # None => cut[u].id \in Ids
    OBVIOUS
  <2>7. Workers \subseteq Threads
    OBVIOUS
  <2> HIDE DEF TInv, n, k, CInv, ClaimsAreHeld, Receives, TypeOK, Roles, JobOK, Threads, Workers
  <2>8. \A u \in Threads : cut[u] # None /\ Receives(cut[u].kind) => cut[u].id # n
    BY <2>1
  <2> QED
    BY <2>1, <2>2, <2>3, <2>4, <2>5, <2>6, <2>7, <2>8, SMTT(30)
<1>10. ASSUME NEW t \in Workers, Abandon(t) PROVE RInv'
  BY <1>10 DEF Abandon
<1>11. ASSUME NEW t \in Workers, Unwind(t) PROVE RInv'
  BY <1>11 DEF Unwind
<1>12. ASSUME NEW t \in Workers, Release(t) PROVE RInv'
  <2>1. UNCHANGED <<rxTable, cut, sessions>>
    BY <1>12 DEF Release
  <2>2. \A u \in Threads : u # t => pc'[u] = pc[u] /\ job'[u] = job[u]
    BY <1>12 DEF Release
  <2>3. pc'[t] \notin {"built", "unwind"}
    BY <1>12 DEF Release
  <2>4. \A i \in Ids : claims'[i] \in {claims[i], None}
    BY <1>12 DEF Release
  <2>5. \A u \in Threads : cut[u] # None => cut[u].id \in Ids
    OBVIOUS
  <2> HIDE DEF TInv, CInv, ClaimsAreHeld, Receives
  <2> QED
    BY <2>1, <2>2, <2>3, <2>4, <2>5
<1>13. ASSUME NEW c \in Conns, Connect(c) PROVE RInv'
  <2>1. UNCHANGED <<sessions, claims, rxTable, cut>>
    BY <1>13 DEF Connect
  <2>2. \A u \in Workers : pc'[u] \in {"built", "unwind"} =>
                             pc'[u] = pc[u] /\ job'[u] = job[u]
    BY <1>13 DEF Connect
  <2> HIDE DEF TInv, TypeOK, Roles, JobOK, CInv, ClaimsAreHeld, RInv, Threads, Workers
  <2> QED
    BY <2>1, <2>2, KeepsRouting
<1>14. ASSUME NEW c \in Conns, Register(c) PROVE RInv'
  <2>1. UNCHANGED <<sessions, claims, rxTable, cut>>
    BY <1>14 DEF Register
  <2>2. \A u \in Workers : pc'[u] \in {"built", "unwind"} =>
                             pc'[u] = pc[u] /\ job'[u] = job[u]
    BY <1>14 DEF Register
  <2> HIDE DEF TInv, TypeOK, Roles, JobOK, CInv, ClaimsAreHeld, RInv, Threads, Workers
  <2> QED
    BY <2>1, <2>2, KeepsRouting
<1>15. ASSUME NEW c \in Conns, Retire(c) PROVE RInv'
  BY <1>15 DEF Retire
<1>16. ASSUME NEW c \in Conns, ReaderExits(c) PROVE RInv'
  <2>1. UNCHANGED <<sessions, claims, rxTable, cut>>
    BY <1>16 DEF ReaderExits
  <2>2. \A u \in Workers : pc'[u] \in {"built", "unwind"} =>
                             pc'[u] = pc[u] /\ job'[u] = job[u]
    BY <1>16 DEF ReaderExits
  <2> HIDE DEF TInv, TypeOK, Roles, JobOK, CInv, ClaimsAreHeld, RInv, Threads, Workers
  <2> QED
    BY <2>1, <2>2, KeepsRouting
<1>17. ASSUME NEW r \in Reapers, NEW p \in Peers, Reap(r, p) PROVE RInv'
  <2>1. UNCHANGED <<sessions, claims, rxTable, cut>>
    BY <1>17 DEF Reap
  <2>2. \A u \in Workers : pc'[u] \in {"built", "unwind"} =>
                             pc'[u] = pc[u] /\ job'[u] = job[u]
    BY <1>17 DEF Reap
  <2> HIDE DEF TInv, TypeOK, Roles, JobOK, CInv, ClaimsAreHeld, RInv, Threads, Workers
  <2> QED
    BY <2>1, <2>2, KeepsRouting
<1>18. ASSUME NEW t \in Threads, MarkDead(t) PROVE RInv'
  BY <1>18 DEF MarkDead
<1>19. ASSUME NEW t \in Threads, SnapConn(t) PROVE RInv'
  <2>1. UNCHANGED <<sessions, claims, rxTable, cut>>
    BY <1>19 DEF SnapConn
  <2>2. \A u \in Workers : pc'[u] \in {"built", "unwind"} =>
                             pc'[u] = pc[u] /\ job'[u] = job[u]
    BY <1>19 DEF SnapConn
  <2> HIDE DEF TInv, TypeOK, Roles, JobOK, CInv, ClaimsAreHeld, RInv, Threads, Workers
  <2> QED
    BY <2>1, <2>2, KeepsRouting
<1>20. ASSUME NEW t \in Threads, Unregister(t) PROVE RInv'
  <2>1. UNCHANGED <<sessions, claims, rxTable, cut>>
    BY <1>20 DEF Unregister
  <2>2. \A u \in Workers : pc'[u] \in {"built", "unwind"} =>
                             pc'[u] = pc[u] /\ job'[u] = job[u]
    BY <1>20 DEF Unregister
  <2> HIDE DEF TInv, TypeOK, Roles, JobOK, CInv, ClaimsAreHeld, RInv, Threads, Workers
  <2> QED
    BY <2>1, <2>2, KeepsRouting
<1>21. ASSUME NEW t \in Threads, NEW i \in Ids, Take(t, i) PROVE RInv'
  <2>1. /\ cut[t] = None /\ i \in Ids
        /\ cut' = [cut EXCEPT ![t] = IF sessions[i] = None THEN None
                                     ELSE [id |-> i, kind |-> sessions[i].kind]]
        /\ sessions' = [sessions EXCEPT ![i] = None]
        /\ UNCHANGED <<claims, rxTable, pc, job>>
    BY <1>21 DEF Take
  <2>2. /\ \A u \in Threads \ {t} : cut'[u] = cut[u]
        /\ \A j \in Ids \ {i} : sessions'[j] = sessions[j]
        /\ sessions'[i] = None
        /\ cut'[t] = IF sessions[i] = None THEN None ELSE [id |-> i, kind |-> sessions[i].kind]
    BY <2>1
  <2>3. \A u \in Threads : cut[u] # None => cut[u].id \in Ids
    OBVIOUS
  <2>4. sessions[i] # None => claims[i] = None
    OBVIOUS
  <2> HIDE DEF TInv, TypeOK, Roles, JobOK, CInv, ClaimsAreHeld, Receives, Threads, Workers
  <2> QED
    BY <2>1, <2>2, <2>3, <2>4
<1>22. ASSUME NEW t \in Threads, Unplug(t) PROVE RInv'
  <2> DEFINE i == cut[t].id
  <2>1. /\ cut[t] # None /\ cut' = [cut EXCEPT ![t] = None]
        /\ UNCHANGED <<sessions, claims, pc, job>>
    BY <1>22 DEF Unplug
  <2>2. CASE ~Receives(cut[t].kind)
    BY <1>22, <2>1, <2>2, SMTT(30) DEF Unplug
  <2>3. CASE Receives(cut[t].kind)
    <3>1. rxTable' = rxTable \ {i}
      BY <1>22, <2>3 DEF Unplug
    <3>2. i \in Ids /\ sessions[i] = None /\ claims[i] = None
      BY <1>22, <2>1, <2>3
    <3>3. \A u \in Workers : pc[u] \in {"built", "unwind"} => job[u].id # i
      <4> SUFFICES ASSUME NEW u \in Workers, pc[u] \in {"built", "unwind"} PROVE job[u].id # i
        OBVIOUS
      <4>1. claims[job[u].id] = u /\ u # None
        OBVIOUS
      <4> QED
        BY <3>2, <4>1
    <3>4. \A u \in Threads : u # t /\ cut[u] # None /\ Receives(cut[u].kind) => cut[u].id # i
      BY <1>22, <2>1, <2>3, SMTT(30)
    <3> QED
      BY <1>22, <2>1, <3>1, <3>2, <3>3, <3>4
  <2> QED
    BY <2>2, <2>3
<1>23. ASSUME NEW t \in Threads, Swept(t) PROVE RInv'
  BY <1>23 DEF Swept
<1>24. ASSUME NEW c \in Conns, NEW i \in Ids, RemoteClose(c, i) PROVE RInv'
  BY <1>24 DEF RemoteClose
<1>25. ASSUME NEW u \in Closers, NEW i \in Ids, LocalClose(u, i) PROVE RInv'
  BY <1>25 DEF LocalClose
<1>26. ASSUME NEW m \in Switchable, SetMode(m) PROVE RInv'
  BY <1>26 DEF SetMode
<1>27. ASSUME SnapMode PROVE RInv'
  BY <1>27 DEF SnapMode
<1>28. ASSUME NEW e \in Endpoints, DeviceChange(e) PROVE RInv'
  BY <1>28 DEF DeviceChange
<1>29. ASSUME NEW e \in Endpoints, DeviceCallback(e) PROVE RInv'
  BY <1>29 DEF DeviceCallback
<1>30. ASSUME WatchEpoch PROVE RInv'
  BY <1>30 DEF WatchEpoch
<1>31. ASSUME WatchPresence PROVE RInv'
  BY <1>31 DEF WatchPresence
<1>32. ASSUME SnapMissing PROVE RInv'
  BY <1>32 DEF SnapMissing
<1>33. ASSUME UNCHANGED vars PROVE RInv'
  BY <1>33 DEF vars
<1> HIDE DEF TInv, TypeOK, Roles, JobOK, CInv, ClaimsAreHeld, RInv, Goto, Return
<1>34. QED
  BY <1>1, <1>2, <1>3, <1>4, <1>5, <1>6, <1>7, <1>8, <1>9, <1>10, <1>11,
     <1>12, <1>13, <1>14, <1>15, <1>16, <1>17, <1>18, <1>19, <1>20, <1>21, <1>22,
     <1>23, <1>24, <1>25, <1>26, <1>27, <1>28, <1>29, <1>30, <1>31, <1>32, <1>33
     DEF Next, Request, OpenStep, TearStep

-----------------------------------------------------------------------------
(* The steps that matter to the table. All the others are quiet: they touch *)
(* no entry of it and no thread that is holding a claim, though a connection *)
(* may die or come back in them.                                           *)

Built == {"built", "unwind"}

Quiet ==
    /\ UNCHANGED <<sessions, claims, rxTable, txStreams, cut>>
    /\ \A t \in Workers : pc[t] \in Holding =>
          /\ pc'[t] \in Holding /\ job'[t] = job[t]
          /\ pc[t] \in Built => pc'[t] \in Built
    /\ \/ UNCHANGED alive
       \/ \E c \in Conns : alive' = [alive EXCEPT ![c] = FALSE]
       \/ \E c \in Conns : Connect(c)

\* Every step is quiet or one of those that touch the table or the media.
LEMMA Shapes ==
    ASSUME TInv, [Next]_vars
    PROVE  \/ Quiet
           \/ \E t \in Workers, i \in Ids : Claim(t, i)
           \/ \E t \in Workers : Build(t) \/ Publish(t) \/ Unwind(t) \/ Release(t)
           \/ \E t \in Threads, i \in Ids : Take(t, i)
           \/ \E t \in Threads : Unplug(t)
<1> USE ThreadsDistinct, NoneIsNothing
        DEF TInv, TypeOK, Roles, JobOK, On, Threads, Workers, Opening, Ending, Holding, Built,
            Quiet, NoJob, Goto, Return, Home, reg, dev, tab, tear
<1>1. ASSUME NEW c \in Conns, NEW k \in Offered, RemoteGate(c, k) PROVE Quiet
  BY <1>1 DEF RemoteGate
<1>2. ASSUME NEW c \in Conns, RemoteSample(c) PROVE Quiet
  BY <1>2 DEF RemoteSample
<1>3. ASSUME NEW o \in Openers, NEW k \in Offered, LocalGate(o, k) PROVE Quiet
  BY <1>3 DEF LocalGate
<1>4. ASSUME NEW o \in Openers, LocalPick(o) PROVE Quiet
  BY <1>4 DEF LocalPick
<1>5. ASSUME NEW t \in Workers, ClaimRefused(t) PROVE Quiet
  BY <1>5 DEF ClaimRefused
<1>6. ASSUME NEW t \in Workers, BuildFails(t) PROVE Quiet
  BY <1>6 DEF BuildFails
<1>7. ASSUME NEW t \in Workers, Abandon(t) PROVE Quiet
  BY <1>7 DEF Abandon
<1>8. ASSUME NEW c \in Conns, Connect(c) PROVE Quiet
  BY <1>8 DEF Connect
<1>9. ASSUME NEW c \in Conns, Register(c) PROVE Quiet
  BY <1>9 DEF Register
<1>10. ASSUME NEW c \in Conns, Retire(c) PROVE Quiet
  BY <1>10 DEF Retire
<1>11. ASSUME NEW c \in Conns, ReaderExits(c) PROVE Quiet
  BY <1>11 DEF ReaderExits
<1>12. ASSUME NEW r \in Reapers, NEW p \in Peers, Reap(r, p) PROVE Quiet
  BY <1>12 DEF Reap
<1>13. ASSUME NEW t \in Threads, MarkDead(t) PROVE Quiet
  BY <1>13 DEF MarkDead
<1>14. ASSUME NEW t \in Threads, SnapConn(t) PROVE Quiet
  BY <1>14 DEF SnapConn
<1>15. ASSUME NEW t \in Threads, Unregister(t) PROVE Quiet
  BY <1>15 DEF Unregister
<1>16. ASSUME NEW t \in Threads, Swept(t) PROVE Quiet
  BY <1>16 DEF Swept
<1>17. ASSUME NEW c \in Conns, NEW i \in Ids, RemoteClose(c, i) PROVE Quiet
  BY <1>17 DEF RemoteClose
<1>18. ASSUME NEW u \in Closers, NEW i \in Ids, LocalClose(u, i) PROVE Quiet
  BY <1>18 DEF LocalClose
<1>19. ASSUME NEW m \in Switchable, SetMode(m) PROVE Quiet
  BY <1>19 DEF SetMode
<1>20. ASSUME SnapMode PROVE Quiet
  BY <1>20 DEF SnapMode
<1>21. ASSUME NEW e \in Endpoints, DeviceChange(e) PROVE Quiet
  BY <1>21 DEF DeviceChange
<1>22. ASSUME NEW e \in Endpoints, DeviceCallback(e) PROVE Quiet
  BY <1>22 DEF DeviceCallback
<1>23. ASSUME WatchEpoch PROVE Quiet
  BY <1>23 DEF WatchEpoch
<1>24. ASSUME WatchPresence PROVE Quiet
  BY <1>24 DEF WatchPresence
<1>25. ASSUME SnapMissing PROVE Quiet
  BY <1>25 DEF SnapMissing
<1>26. ASSUME UNCHANGED vars PROVE Quiet
  BY <1>26 DEF vars
<1> HIDE DEF TInv, TypeOK, Roles, JobOK, Quiet, Goto, Return
<1>27. QED
  BY <1>1, <1>2, <1>3, <1>4, <1>5, <1>6, <1>7, <1>8, <1>9, <1>10, <1>11,
     <1>12, <1>13, <1>14, <1>15, <1>16, <1>17, <1>18, <1>19, <1>20, <1>21, <1>22,
     <1>23, <1>24, <1>25, <1>26
     DEF Next, Request, OpenStep, TearStep

-----------------------------------------------------------------------------
(* Leaks: whatever is put up has somebody who will take it down.           *)

Media(rx) == IF rx THEN rxTable ELSE txStreams

\* The three ways Accounted names somebody, and what each of them must keep.
InTable(i, rx) == sessions[i] # None /\ Receives(sessions[i].kind) = rx
AtWork(t, i, rx) == pc[t] \in Built /\ job[t].id = i /\ Receives(job[t].kind) = rx
CutBy(t, i, rx) == cut[t] # None /\ cut[t].id = i /\ Receives(cut[t].kind) = rx

\* Media of a stream is accounted for by one of three owners.
LEMMA AccountedBy ==
    ASSUME NEW i, NEW rx
    PROVE  Accounted(i, rx) <=> \/ InTable(i, rx)
                                \/ \E t \in Workers : AtWork(t, i, rx)
                                \/ \E t \in Threads : CutBy(t, i, rx)
  BY DEF Accounted, InTable, AtWork, CutBy, Built

\* The same, in the next state.
LEMMA AccountedNext ==
    ASSUME NEW i, NEW rx
    PROVE  Accounted(i, rx)' <=> \/ InTable(i, rx)'
                                 \/ \E t \in Workers : AtWork(t, i, rx)'
                                 \/ \E t \in Threads : CutBy(t, i, rx)'
  BY DEF Accounted, InTable, AtWork, CutBy, Built

\* Receives is a truth value.
LEMMA ReceivesBool == ASSUME NEW k PROVE Receives(k) \in BOOLEAN
  BY DEF Receives

\* NoMediaLeak, one stream and direction at a time.
LEMMA LeakByMedia ==
    NoMediaLeak <=> \A rx \in BOOLEAN : \A i \in Media(rx) : Accounted(i, rx)
  BY DEF NoMediaLeak, Media

\* The same, in the next state.
LEMMA LeakByMediaNext ==
    NoMediaLeak' <=> \A rx \in BOOLEAN : \A i \in Media(rx)' : Accounted(i, rx)'
  BY DEF NoMediaLeak, Media

\* Nothing receives or captures at the start.
LEMMA InitNoLeak == Init => NoMediaLeak
  BY DEF Init, NoMediaLeak

\* Every step keeps all media accounted for.
LEMMA StepNoLeak == TInv /\ TInv' /\ CInv /\ NoMediaLeak /\ [Next]_vars => NoMediaLeak'
<1> SUFFICES ASSUME TInv, TInv', CInv, NoMediaLeak, [Next]_vars,
                    NEW rx \in BOOLEAN, NEW i \in Media(rx)'
             PROVE  Accounted(i, rx)'
  BY LeakByMediaNext
<1> USE ThreadsDistinct, NoneIsNothing
<1>0. i \in Media(rx) => Accounted(i, rx)
  BY LeakByMedia
<1>1. CASE Quiet
  <2>1. i \in Media(rx)
    BY <1>1 DEF Quiet, Media
  <2>2. InTable(i, rx) => InTable(i, rx)'
    BY <1>1 DEF Quiet, InTable
  <2>3. \A t \in Workers : AtWork(t, i, rx) => AtWork(t, i, rx)'
    BY <1>1 DEF Quiet, AtWork, Built, Holding
  <2>4. \A t \in Threads : CutBy(t, i, rx) => CutBy(t, i, rx)'
    BY <1>1 DEF Quiet, CutBy
  <2> QED
    BY <1>0, <2>1, <2>2, <2>3, <2>4, AccountedBy, AccountedNext
<1>2. ASSUME NEW t \in Workers, NEW n \in Ids, Claim(t, n) PROVE Accounted(i, rx)'
  <2> USE <1>2 DEF Claim, tab, tear, Goto
  <2>1. i \in Media(rx)
    BY DEF Media
  <2>2. InTable(i, rx) => InTable(i, rx)'
    BY DEF InTable
  <2>3. \A u \in Workers : AtWork(u, i, rx) => AtWork(u, i, rx)'
    BY DEF AtWork, Built, TInv, TypeOK, Threads, Workers
  <2>4. \A u \in Threads : CutBy(u, i, rx) => CutBy(u, i, rx)'
    BY DEF CutBy
  <2> QED
    BY <1>0, <2>1, <2>2, <2>3, <2>4, AccountedBy, AccountedNext
<1>3. ASSUME NEW t \in Workers, Build(t) PROVE Accounted(i, rx)'
  <2> USE <1>3 DEF Build, tab, tear, Goto
  <2>1. i \in Media(rx) \/ (i = job[t].id /\ rx = Receives(job[t].kind))
    BY ReceivesBool DEF Media
  <2>2. InTable(i, rx) => InTable(i, rx)'
    BY DEF InTable
  <2>3. \A u \in Workers : AtWork(u, i, rx) => AtWork(u, i, rx)'
    BY DEF AtWork, Built, TInv, TypeOK, Threads, Workers
  <2>4. \A u \in Threads : CutBy(u, i, rx) => CutBy(u, i, rx)'
    BY DEF CutBy
  <2>5. i = job[t].id /\ rx = Receives(job[t].kind) => AtWork(t, i, rx)'
    BY DEF AtWork, Built, TInv, TypeOK, Threads, Workers
  <2> QED
    BY <1>0, <2>1, <2>2, <2>3, <2>4, <2>5, AccountedBy, AccountedNext
<1>4. ASSUME NEW t \in Workers, Publish(t) PROVE Accounted(i, rx)'
  <2> USE <1>4 DEF Publish, tab, tear, Goto, Return
  <2>1. i \in Media(rx)
    BY DEF Media
  <2>2. job[t].id \in Ids /\ sessions[job[t].id] = None /\ job[t].kind \in Kinds /\ On(t) \in Conns
    BY DEF Publishable, TInv, JobOK, Threads, Workers, Opening, Holding
  <2>3. InTable(i, rx) => InTable(i, rx)'
    BY <2>2 DEF InTable, TInv, TypeOK
  <2>4. \A u \in Workers : u # t /\ AtWork(u, i, rx) => AtWork(u, i, rx)'
    BY DEF AtWork, Built, TInv, TypeOK, Threads, Workers
  <2>5. AtWork(t, i, rx) => InTable(i, rx)'
    <3>1. [conn |-> On(t), kind |-> job[t].kind] # None
      BY <2>2
    <3>2. sessions'[job[t].id] = [conn |-> On(t), kind |-> job[t].kind]
      BY <2>2 DEF TInv, TypeOK
    <3> QED
      BY <3>1, <3>2 DEF AtWork, InTable
  <2>6. \A u \in Threads : CutBy(u, i, rx) => CutBy(u, i, rx)'
    BY DEF CutBy
  <2> QED
    BY <1>0, <2>1, <2>3, <2>4, <2>5, <2>6, AccountedBy, AccountedNext
<1>5. ASSUME NEW t \in Workers, Unwind(t) PROVE Accounted(i, rx)'
  <2> USE <1>5 DEF Unwind, tab, tear, Goto
  <2>1. i \in Media(rx) /\ ~(i = job[t].id /\ rx = Receives(job[t].kind))
    BY ReceivesBool DEF Media
  <2>2. InTable(i, rx) => InTable(i, rx)'
    BY DEF InTable
  <2>3. \A u \in Workers : AtWork(u, i, rx) => AtWork(u, i, rx)'
    BY <2>1 DEF AtWork, Built, TInv, TypeOK, Threads, Workers
  <2>4. \A u \in Threads : CutBy(u, i, rx) => CutBy(u, i, rx)'
    BY DEF CutBy
  <2> QED
    BY <1>0, <2>1, <2>2, <2>3, <2>4, AccountedBy, AccountedNext
<1>6. ASSUME NEW t \in Workers, Release(t) PROVE Accounted(i, rx)'
  <2> USE <1>6 DEF Release, tab, tear, Goto, Return
  <2>1. i \in Media(rx)
    BY DEF Media
  <2>2. InTable(i, rx) => InTable(i, rx)'
    BY DEF InTable
  <2>3. \A u \in Workers : AtWork(u, i, rx) => AtWork(u, i, rx)'
    BY DEF AtWork, Built, TInv, TypeOK, Threads, Workers
  <2>4. \A u \in Threads : CutBy(u, i, rx) => CutBy(u, i, rx)'
    BY DEF CutBy
  <2> QED
    BY <1>0, <2>1, <2>2, <2>3, <2>4, AccountedBy, AccountedNext
<1>7. ASSUME NEW t \in Threads, NEW n \in Ids, Take(t, n) PROVE Accounted(i, rx)'
  <2> USE <1>7 DEF Take, tab, tear
  <2>1. i \in Media(rx)
    BY DEF Media
  <2>2. InTable(i, rx) /\ i # n => InTable(i, rx)'
    BY DEF InTable, TInv, TypeOK
  <2>3. InTable(n, rx) => CutBy(t, n, rx)'
    <3>1. sessions[n] # None => sessions[n].kind \in Kinds
      BY DEF TInv, TypeOK
    <3>2. sessions[n] # None => cut'[t] = [id |-> n, kind |-> sessions[n].kind]
      BY DEF TInv, TypeOK
    <3> QED
      BY <3>1, <3>2 DEF InTable, CutBy
  <2>4. \A u \in Workers : AtWork(u, i, rx) => AtWork(u, i, rx)'
    BY DEF AtWork
  <2>5. \A u \in Threads : CutBy(u, i, rx) => CutBy(u, i, rx)'
    BY DEF CutBy, TInv, TypeOK
  <2> QED
    BY <1>0, <2>1, <2>2, <2>3, <2>4, <2>5, AccountedBy, AccountedNext
<1>8. ASSUME NEW t \in Threads, Unplug(t) PROVE Accounted(i, rx)'
  <2> USE <1>8 DEF Unplug, tab, tear
  <2>1. i \in Media(rx) /\ ~(i = cut[t].id /\ rx = Receives(cut[t].kind))
    BY ReceivesBool DEF Media
  <2>2. InTable(i, rx) => InTable(i, rx)'
    BY DEF InTable
  <2>3. \A u \in Workers : AtWork(u, i, rx) => AtWork(u, i, rx)'
    BY DEF AtWork
  <2>4. \A u \in Threads : CutBy(u, i, rx) => CutBy(u, i, rx)'
    BY <2>1 DEF CutBy, TInv, TypeOK
  <2> QED
    BY <1>0, <2>1, <2>2, <2>3, <2>4, AccountedBy, AccountedNext
<1> QED
  BY <1>1, <1>2, <1>3, <1>4, <1>5, <1>6, <1>7, <1>8, Shapes

-----------------------------------------------------------------------------
(* Refinement: SessionTable implements StreamPool.                         *)

IInv == TInv /\ CInv /\ OInv /\ RInv /\ NoMediaLeak

\* A claimed id has an opener at work on a connection and no session yet.
LEMMA HolderOf ==
    ASSUME TInv, CInv, NEW i \in Ids, claims[i] # None
    PROVE  /\ claims[i] \in Workers /\ pc[claims[i]] \in Holding
           /\ On(claims[i]) \in Conns
           /\ sessions[i] = None
  BY ThreadsDistinct
  DEF TInv, TypeOK, JobOK, CInv, ClaimsAreHeld, Threads, Workers, Opening

\* The held ids are the live and the claimed ones.
LEMMA HeldSets ==
    ASSUME TInv, CInv
    PROVE  /\ Pool!Held = Live \cup Claimed
           /\ \A c \in Conns : Pool!HeldBy(c) = LiveOn(c) \cup ClaimedOn(c)
<1>1. Pool!Held = Live \cup Claimed
  BY DEF Pool!Held, PhaseOf, Live, Claimed
<1>2. ASSUME NEW c \in Conns PROVE Pool!HeldBy(c) = LiveOn(c) \cup ClaimedOn(c)
  BY <1>1, HolderOf DEF Pool!HeldBy, OwnerOf, LiveOn, ClaimedOn, Live, Claimed
<1> QED
  BY <1>1, <1>2

\* The cardinality of two disjoint finite sets together.
LEMMA DisjointCards ==
    ASSUME NEW S, NEW T, IsFiniteSet(S), IsFiniteSet(T), S \cap T = {}
    PROVE  /\ IsFiniteSet(S \cup T)
           /\ Cardinality(S) + Cardinality(T) = Cardinality(S \cup T)
<1>1. Cardinality(S \cap T) = 0
  BY FS_EmptySet
<1>2. Cardinality(S) \in Nat /\ Cardinality(T) \in Nat
  BY FS_CardinalityType
<1>3. /\ IsFiniteSet(S \cup T)
      /\ Cardinality(S \cup T) = Cardinality(S) + Cardinality(T) - Cardinality(S \cap T)
  BY FS_Union
<1> QED
  BY <1>1, <1>2, <1>3

\* The pool counts what the table counts.
LEMMA HeldCards ==
    ASSUME TInv, CInv
    PROVE  /\ IsFiniteSet(Pool!Held)
           /\ Cardinality(Live) + Cardinality(Claimed) = Cardinality(Pool!Held)
           /\ \A c \in Conns :
                 /\ IsFiniteSet(Pool!HeldBy(c))
                 /\ Cardinality(LiveOn(c)) + Cardinality(ClaimedOn(c)) = Cardinality(Pool!HeldBy(c))
<1>1. IsFiniteSet(Live) /\ IsFiniteSet(Claimed) /\ Live \cap Claimed = {}
  <2>1. Live \in SUBSET Ids /\ Claimed \in SUBSET Ids
    BY DEF Live, Claimed
  <2>2. IsFiniteSet(Live) /\ IsFiniteSet(Claimed)
    BY <2>1, FS_Subset, ConstantsOK
  <2> QED
    BY <2>2, HolderOf DEF Live, Claimed
<1>2. /\ IsFiniteSet(Pool!Held)
      /\ Cardinality(Live) + Cardinality(Claimed) = Cardinality(Pool!Held)
  BY <1>1, HeldSets, DisjointCards
<1>3. ASSUME NEW c \in Conns
      PROVE  /\ IsFiniteSet(Pool!HeldBy(c))
             /\ Cardinality(LiveOn(c)) + Cardinality(ClaimedOn(c)) = Cardinality(Pool!HeldBy(c))
  <2>1. LiveOn(c) \in SUBSET Live /\ ClaimedOn(c) \in SUBSET Claimed
    BY DEF LiveOn, ClaimedOn
  <2>2. IsFiniteSet(LiveOn(c)) /\ IsFiniteSet(ClaimedOn(c)) /\ LiveOn(c) \cap ClaimedOn(c) = {}
    BY <1>1, <2>1, FS_Subset
  <2> QED
    BY <2>2, HeldSets, DisjointCards
<1> QED
  BY <1>2, <1>3

\* Both modules mean the same by Cardinality.
LEMMA SameCardinality == \A S : Pool!Cardinality(S) = Cardinality(S)
  BY DEF Pool!Cardinality, Cardinality

\* The table starts as an empty pool.
LEMMA InitPool == Init => Pool!Init
  BY NoneIsNothing DEF Init, Pool!Init, PhaseOf, OwnerOf

\* A thread that keeps its claim keeps the connection it was made on.
LEMMA QuietKeeps ==
    ASSUME TInv, CInv, Quiet
    PROVE  \A i \in Ids : PhaseOf(i)' = PhaseOf(i) /\ OwnerOf(i)' = OwnerOf(i)
  BY HolderOf DEF Quiet, PhaseOf, OwnerOf, On

\* Every step of a thread is a step of the pool or none.
LEMMA StepPool ==
    ASSUME IInv, IInv', [Next]_vars
    PROVE  [Pool!Next]_(Pool!vars)
<1> USE DEF IInv
<1> DEFINE phase == [i \in Ids |-> PhaseOf(i)]
           owner == [i \in Ids |-> OwnerOf(i)]
<1>1. CASE Quiet
  <2>1. phase' = phase /\ owner' = owner
    BY <1>1, QuietKeeps
  <2> HIDE DEF phase, owner
  <2>2. CASE UNCHANGED alive
    BY <2>1, <2>2 DEF Pool!vars, phase, owner
  <2>3. ASSUME NEW c \in Conns, alive' = [alive EXCEPT ![c] = FALSE] PROVE Pool!Next
    BY <2>1, <2>3 DEF Pool!Next, Pool!GoDown, phase, owner
  <2>4. ASSUME NEW c \in Conns, Connect(c) PROVE Pool!Next
    <3>1. ~alive[c] /\ alive' = [alive EXCEPT ![c] = TRUE] /\ LiveOn(c) = {}
      BY <2>4 DEF Connect, OInv
    <3>2. ClaimedOn(c) = {}
      <4> SUFFICES ASSUME NEW i \in Ids, claims[i] # None, On(claims[i]) = c PROVE FALSE
        BY DEF ClaimedOn, Claimed
      <4>1. claims[i] \in Workers /\ pc[claims[i]] \in Holding
        BY HolderOf
      <4> QED
        BY <2>4, <4>1 DEF Connect, On, Workers, Threads, Holding
    <3>3. Pool!HeldBy(c) = {}
      BY <3>1, <3>2, HeldSets
    <3> QED
      BY <2>1, <3>1, <3>3 DEF Pool!Next, Pool!ComeUp, phase, owner
  <2> QED
    BY <1>1, <2>2, <2>3, <2>4 DEF Quiet
<1>2. ASSUME NEW t \in Workers, NEW n \in Ids, Claim(t, n) PROVE Pool!Next
  <2> DEFINE c == On(t)
  <2>1. /\ c \in Conns /\ alive[c] /\ sessions[n] = None /\ claims[n] = None
        /\ claims' = [claims EXCEPT ![n] = t]
        /\ UNCHANGED <<alive, sessions>>
        /\ job' = [job EXCEPT ![t] = [@ EXCEPT !.id = n]]
    BY <1>2 DEF Claim, Claimable, Current, TInv, JobOK, Threads, Workers, reg, tab
  <2>2. Cardinality(Pool!Held) < MaxTotal /\ Cardinality(Pool!HeldBy(c)) < MaxPerConn
    BY <1>2, <2>1, HeldCards DEF Claim, Claimable
  <2>3. t \in Threads /\ t # None /\ job[t] \in [conn : Conns \cup {None}, id : Ids \cup {None},
                                  kind : Kinds \cup {None}, epoch : Nat]
    BY NoneIsNothing DEF TInv, TypeOK, Threads, Workers
  <2>4. On(t)' = c /\ \A u \in Workers : On(u)' = On(u)
    BY <2>1, <2>3 DEF On, Threads, Workers, TInv, TypeOK
  <2>5. PhaseOf(n) = "free" /\ PhaseOf(n)' = "claimed" /\ OwnerOf(n)' = c
    BY <2>1, <2>3, <2>4 DEF PhaseOf, OwnerOf, TInv, TypeOK, On
  <2>6. \A i \in Ids \ {n} : PhaseOf(i)' = PhaseOf(i) /\ OwnerOf(i)' = OwnerOf(i)
    BY <2>1, <2>4, HolderOf DEF PhaseOf, OwnerOf, TInv, TypeOK
  <2>7. /\ phase[n] = "free"
        /\ phase' = [phase EXCEPT ![n] = "claimed"]
        /\ owner' = [owner EXCEPT ![n] = c]
    BY <2>5, <2>6
  <2> HIDE DEF phase, owner, c
  <2>8. Pool!Reserve(n, c)
    BY <2>1, <2>2, <2>7, SameCardinality DEF Pool!Reserve, phase, owner
  <2> QED
    BY <2>1, <2>8 DEF Pool!Next
<1>3. ASSUME NEW t \in Workers, Build(t) \/ Unwind(t) PROVE UNCHANGED Pool!vars
  <2>1. UNCHANGED <<alive, sessions, claims, job>>
    BY <1>3 DEF Build, Unwind, reg, tab
  <2> QED
    BY <2>1 DEF Pool!vars, PhaseOf, OwnerOf, On
<1>4. ASSUME NEW t \in Workers, Publish(t) PROVE Pool!Next
  <2>1. PICK n \in Ids, c \in Conns :
        /\ n = job[t].id /\ c = On(t) /\ alive[c] /\ sessions[n] = None /\ claims[n] = t /\ t # None
        /\ sessions' = [sessions EXCEPT ![n] = [conn |-> c, kind |-> job[t].kind]]
        /\ claims' = [claims EXCEPT ![n] = None]
        /\ UNCHANGED alive
        /\ job' = [job EXCEPT ![t] = NoJob]
        /\ job[t].kind \in Kinds
    BY <1>4, NoneIsNothing
    DEF Publish, Publishable, Current, TInv, JobOK, Threads, Workers, Opening, Holding, Return,
        reg, tab
  <2>2. PhaseOf(n) = "claimed" /\ OwnerOf(n) = c
    BY <2>1 DEF PhaseOf, OwnerOf
  <2>3. sessions'[n] = [conn |-> c, kind |-> job[t].kind] /\ sessions'[n] # None
    BY <2>1, NoneIsNothing DEF TInv, TypeOK
  <2>4. PhaseOf(n)' = "live" /\ OwnerOf(n)' = c
    BY <2>3 DEF PhaseOf, OwnerOf
  <2>5. ASSUME NEW i \in Ids \ {n} PROVE PhaseOf(i)' = PhaseOf(i) /\ OwnerOf(i)' = OwnerOf(i)
    <3>1. sessions'[i] = sessions[i] /\ claims'[i] = claims[i]
      BY <2>1 DEF TInv, TypeOK
    <3>2. claims[i] # None => claims[i] # t /\ claims[i] \in Threads
      BY <2>1 DEF TInv, TypeOK, CInv, ClaimsAreHeld, Threads, Workers
    <3>3. claims[i] # None => On(claims[i])' = On(claims[i])
      BY <2>1, <3>1, <3>2 DEF On, TInv, TypeOK
    <3> QED
      BY <3>1, <3>3 DEF PhaseOf, OwnerOf, On
  <2>6. /\ phase[n] = "claimed" /\ owner[n] = c
        /\ phase' = [phase EXCEPT ![n] = "live"]
        /\ owner' = owner
    BY <2>2, <2>4, <2>5
  <2> HIDE DEF phase, owner
  <2>7. Pool!Commit(n)
    BY <2>1, <2>6 DEF Pool!Commit, phase, owner
  <2> QED
    BY <2>7 DEF Pool!Next
<1>5. ASSUME NEW t \in Workers, Release(t) PROVE Pool!Next
  <2>0. pc[t] \in Holding
    BY <1>5 DEF Release, Holding
  <2>1. PICK n \in Ids :
        /\ n = job[t].id /\ claims[n] = t /\ t # None /\ sessions[n] = None
        /\ claims' = [claims EXCEPT ![n] = None]
        /\ UNCHANGED <<alive, sessions>>
        /\ job' = [job EXCEPT ![t] = NoJob]
    <3>1. job[t].id \in Ids /\ claims[job[t].id] = t
      BY <2>0 DEF CInv, ClaimsAreHeld
    <3>2. claims' = [claims EXCEPT ![job[t].id] = None]
      BY <1>5, <3>1 DEF Release
    <3>3. t # None
      BY NoneIsNothing DEF Threads, Workers
    <3>4. sessions[job[t].id] = None
      BY <3>1, <3>3 DEF CInv
    <3> QED
      BY <1>5, <3>1, <3>2, <3>3, <3>4 DEF Release, Return, reg
  <2>2. PhaseOf(n) = "claimed" /\ PhaseOf(n)' = "free" /\ OwnerOf(n)' = None
    BY <2>1 DEF PhaseOf, OwnerOf, TInv, TypeOK
  <2>3. ASSUME NEW i \in Ids \ {n} PROVE PhaseOf(i)' = PhaseOf(i) /\ OwnerOf(i)' = OwnerOf(i)
    <3>1. sessions'[i] = sessions[i] /\ claims'[i] = claims[i]
      BY <2>1 DEF TInv, TypeOK
    <3>2. claims[i] # None => claims[i] # t /\ claims[i] \in Threads
      BY <2>1 DEF TInv, TypeOK, CInv, ClaimsAreHeld, Threads, Workers
    <3>3. claims[i] # None => On(claims[i])' = On(claims[i])
      BY <2>1, <3>1, <3>2 DEF On, TInv, TypeOK
    <3> QED
      BY <3>1, <3>3 DEF PhaseOf, OwnerOf, On
  <2>4. /\ phase[n] = "claimed"
        /\ phase' = [phase EXCEPT ![n] = "free"]
        /\ owner' = [owner EXCEPT ![n] = None]
    BY <2>2, <2>3
  <2> HIDE DEF phase, owner
  <2>5. Pool!Drop(n)
    BY <2>1, <2>4 DEF Pool!Drop, phase, owner
  <2> QED
    BY <2>5 DEF Pool!Next
<1>6. ASSUME NEW t \in Threads, NEW n \in Ids, Take(t, n) PROVE [Pool!Next]_(Pool!vars)
  <2>1. sessions' = [sessions EXCEPT ![n] = None] /\ UNCHANGED <<alive, claims, job>>
    BY <1>6 DEF Take, reg
  <2>2. \A i \in Ids \ {n} : PhaseOf(i)' = PhaseOf(i) /\ OwnerOf(i)' = OwnerOf(i)
    BY <2>1 DEF PhaseOf, OwnerOf, On, TInv, TypeOK
  <2>3. CASE sessions[n] = None
    BY <2>1, <2>2, <2>3 DEF Pool!vars, PhaseOf, OwnerOf, On, TInv, TypeOK
  <2>4. CASE sessions[n] # None
    <3>1. claims[n] = None
      BY <2>4, HolderOf
    <3>2. PhaseOf(n) = "live" /\ PhaseOf(n)' = "free" /\ OwnerOf(n)' = None
      BY <2>1, <2>4, <3>1 DEF PhaseOf, OwnerOf, TInv, TypeOK
    <3> QED
      BY <2>1, <2>2, <3>2 DEF Pool!Next, Pool!Drop
  <2> QED
    BY <2>3, <2>4
<1>7. ASSUME NEW t \in Threads, Unplug(t) PROVE UNCHANGED Pool!vars
  <2>1. UNCHANGED <<alive, sessions, claims, job>>
    BY <1>7 DEF Unplug, reg
  <2> QED
    BY <2>1 DEF Pool!vars, PhaseOf, OwnerOf, On
<1> QED
  BY <1>1, <1>2, <1>3, <1>4, <1>5, <1>6, <1>7, Shapes

-----------------------------------------------------------------------------
(* The caps: only Reserve makes the held set larger, and it counts first.  *)

PoolCaps ==
    /\ Cardinality(Pool!Held) <= MaxTotal
    /\ \A c \in Conns : Cardinality(Pool!HeldBy(c)) <= MaxPerConn

\* The caps of the table are the caps of the pool.
LEMMA CapsByPool == TInv /\ CInv => (StreamCaps <=> PoolCaps)
  BY HeldCards DEF StreamCaps, PoolCaps

\* The caps hold at the start.
LEMMA InitCaps == Init => PoolCaps
<1> SUFFICES ASSUME Init PROVE PoolCaps
  OBVIOUS
<1>1. Pool!Held = {}
  BY InitPool DEF Pool!Init, Pool!Held
<1>2. \A c \in Conns : Pool!HeldBy(c) = {}
  BY <1>1 DEF Pool!HeldBy
<1>3. Cardinality({}) = 0
  BY FS_EmptySet
<1> QED
  BY <1>1, <1>2, <1>3, ConstantsOK DEF PoolCaps

\* One more element adds at most one.
LEMMA OneMore ==
    ASSUME NEW S, NEW x, IsFiniteSet(S), NEW n \in Nat, Cardinality(S) < n
    PROVE  Cardinality(S \cup {x}) <= n
<1>1. Cardinality(S) \in Nat
  BY FS_CardinalityType
<1>2. Cardinality(S \cup {x}) = IF x \in S THEN Cardinality(S) ELSE Cardinality(S) + 1
  BY FS_AddElement
<1> QED
  BY <1>1, <1>2

\* Every step keeps the caps.
LEMMA StepCaps ==
    ASSUME TInv, CInv, PoolCaps, [Pool!Next]_(Pool!vars)
    PROVE  PoolCaps'
<1> DEFINE phase == [i \in Ids |-> PhaseOf(i)]
           owner == [i \in Ids |-> OwnerOf(i)]
           held == Pool!Held
           by(c) == Pool!HeldBy(c)
<1>1. /\ IsFiniteSet(held) /\ Cardinality(held) \in Nat /\ Cardinality(held) <= MaxTotal
      /\ \A c \in Conns : /\ IsFiniteSet(by(c)) /\ Cardinality(by(c)) \in Nat
                          /\ Cardinality(by(c)) <= MaxPerConn
  BY HeldCards, FS_CardinalityType DEF PoolCaps
<1>2. SUFFICES \/ held' \subseteq held /\ \A c \in Conns : by(c)' \subseteq by(c)
               \/ \E i \in Ids, d \in Conns :
                    /\ held' = held \cup {i} /\ Cardinality(held) < MaxTotal
                    /\ by(d)' = by(d) \cup {i} /\ Cardinality(by(d)) < MaxPerConn
                    /\ \A c \in Conns \ {d} : by(c)' = by(c)
  <2>1. CASE held' \subseteq held /\ \A c \in Conns : by(c)' \subseteq by(c)
    <3>1. Cardinality(held') <= Cardinality(held) /\ Cardinality(held') \in Nat
      BY <1>1, <2>1, FS_Subset, FS_CardinalityType
    <3>2. \A c \in Conns : Cardinality(by(c)') <= Cardinality(by(c)) /\ Cardinality(by(c)') \in Nat
      BY <1>1, <2>1, FS_Subset, FS_CardinalityType
    <3> QED
      BY <1>1, <3>1, <3>2, ConstantsOK DEF PoolCaps
  <2>2. ASSUME NEW i \in Ids, NEW d \in Conns,
               held' = held \cup {i}, Cardinality(held) < MaxTotal,
               by(d)' = by(d) \cup {i}, Cardinality(by(d)) < MaxPerConn,
               \A c \in Conns \ {d} : by(c)' = by(c)
        PROVE  PoolCaps'
    <3>1. Cardinality(held') <= MaxTotal
      BY <1>1, <2>2, OneMore, ConstantsOK
    <3>2. Cardinality(by(d)') <= MaxPerConn
      BY <1>1, <2>2, OneMore, ConstantsOK
    <3>3. \A c \in Conns \ {d} : Cardinality(by(c)') <= MaxPerConn
      BY <1>1, <2>2
    <3> QED
      BY <3>1, <3>2, <3>3 DEF PoolCaps
  <2> QED
    BY <1>2, <2>1, <2>2
<1>3. held = {i \in Ids : phase[i] # "free"} /\ \A c \in Conns : by(c) = {i \in held : owner[i] = c}
  BY DEF Pool!Held, Pool!HeldBy
<1>4. held' = {i \in Ids : phase'[i] # "free"} /\ \A c \in Conns : by(c)' = {i \in held' : owner'[i] = c}
  BY DEF Pool!Held, Pool!HeldBy
<1>5. phase \in [Ids -> {"free", "claimed", "live"}] /\ owner \in [Ids -> Conns \cup {None}]
  BY HolderOf DEF PhaseOf, OwnerOf, TInv, TypeOK
<1>6. CASE UNCHANGED Pool!vars
  <2>1. phase' = phase /\ owner' = owner
    BY <1>6 DEF Pool!vars
  <2> HIDE DEF phase, owner, held, by
  <2> QED
    BY <1>3, <1>4, <2>1
<1>7. ASSUME NEW n \in Ids, NEW d \in Conns, Pool!Reserve(n, d)
      PROVE  /\ held' = held \cup {n} /\ Cardinality(held) < MaxTotal
             /\ by(d)' = by(d) \cup {n} /\ Cardinality(by(d)) < MaxPerConn
             /\ \A c \in Conns \ {d} : by(c)' = by(c)
  <2>1. /\ phase[n] = "free"
        /\ phase' = [phase EXCEPT ![n] = "claimed"]
        /\ owner' = [owner EXCEPT ![n] = d]
        /\ Cardinality(held) < MaxTotal /\ Cardinality(by(d)) < MaxPerConn
    BY <1>7, SameCardinality DEF Pool!Reserve
  <2> HIDE DEF phase, owner, held, by
  <2>2. held' = held \cup {n}
    BY <1>3, <1>4, <1>5, <2>1
  <2>3. \A c \in Conns : by(c)' = IF c = d THEN by(c) \cup {n} ELSE by(c)
    BY <1>3, <1>4, <1>5, <2>1, <2>2, SMTT(30)
  <2> QED
    BY <2>1, <2>2, <2>3
<1>8. ASSUME NEW n \in Ids, Pool!Commit(n) \/ Pool!Drop(n)
      PROVE  held' \subseteq held /\ \A c \in Conns : by(c)' \subseteq by(c)
  <2>1. /\ phase[n] # "free"
        /\ \/ phase' = [phase EXCEPT ![n] = "live"] /\ owner' = owner
           \/ phase' = [phase EXCEPT ![n] = "free"] /\ owner' = [owner EXCEPT ![n] = None]
    BY <1>8 DEF Pool!Commit, Pool!Drop
  <2> HIDE DEF phase, owner, held, by
  <2>2. held' \subseteq held
    BY <1>3, <1>4, <1>5, <2>1
  <2>3. \A c \in Conns : \A i \in by(c)' : i \in held /\ owner[i] = c
    BY <1>3, <1>4, <1>5, <2>1, <2>2
  <2> QED
    BY <1>3, <2>2, <2>3
<1>9. ASSUME NEW d \in Conns, Pool!GoDown(d) \/ Pool!ComeUp(d)
      PROVE  held' = held /\ \A c \in Conns : by(c)' = by(c)
  <2>1. phase' = phase /\ owner' = owner
    BY <1>9 DEF Pool!GoDown, Pool!ComeUp
  <2> HIDE DEF phase, owner, held, by
  <2> QED
    BY <1>3, <1>4, <2>1
<1> HIDE DEF held, by
<1>10. QED
  BY <1>6, <1>7, <1>8, <1>9 DEF Pool!Next

-----------------------------------------------------------------------------
(* Devices: what an open knows of its endpoint, and what the watcher owes.  *)

\* A peer's open was sampled with its endpoint there, so while the epoch has not
\* moved the endpoint is there, or the callback of its going is still to come.
Sampled ==
    \A t \in Workers : \A e \in Endpoints :
        pc[t] \in {"picked"} \cup Holding /\ Endpoint(job[t].kind) = e =>
            /\ job[t].epoch <= epoch[e]
            /\ job[t].epoch = epoch[e] /\ ~present[e] => fired[e] > 0

\* The streams this machine opens for itself need no endpoint of the peer's kind.
LocalKinds ==
    \A o \in Openers : pc[o] \in Opening => Endpoint(job[o].kind) = "none"

\* The watcher has not caught up, or it is on its way to close stream i.
Owed(e, i) ==
    \/ seen[e] # epoch[e]
    \/ pc[Watcher] = "noticed"
    \/ pc[Watcher] = "queried" /\ e \in gone
    \/ pc[Watcher] = "closing" /\ i \in todo[Watcher]

Watched ==
    /\ \A e \in Endpoints : seen[e] <= epoch[e]
    /\ \A e \in Endpoints, i \in Ids :
          /\ sessions[i] # None /\ Endpoint(sessions[i].kind) = e
          /\ fired[e] = 0 /\ ~present[e]
          => Owed(e, i)

DInv == Sampled /\ LocalKinds /\ Watched

-----------------------------------------------------------------------------
(* Registrations: who tears a connection down has marked it dead.          *)

DeadFirst ==
    \A t \in Threads : pc[t] \in {"snapping", "purging"} => ~alive[On(t)]

\* Nobody has sampled anything at the start, and the watcher has seen it all.
LEMMA InitDevices == Init => DInv /\ DeadFirst
  BY ThreadsDistinct
  DEF Init, DInv, Sampled, LocalKinds, Watched, DeadFirst, Threads, Workers, Opening, Holding

\* A step that leaves the devices and what the openers know of theirs alone.
LEMMA KeepsSampled ==
  ASSUME Sampled, UNCHANGED <<present, fired, epoch>>,
         \A t \in Workers : pc'[t] \in {"picked"} \cup Holding =>
            \/ /\ pc[t] \in {"picked"} \cup Holding
               /\ job'[t].kind = job[t].kind /\ job'[t].epoch = job[t].epoch
            \/ Endpoint(job'[t].kind) = "none"
  PROVE  Sampled'
  BY DEF Sampled

\* The samples of the openers stay true of the devices.
LEMMA StepSampled == TInv /\ TInv' /\ LocalKinds /\ Sampled /\ [Next]_vars => Sampled'
<1> SUFFICES ASSUME TInv, TInv', LocalKinds, Sampled, [Next]_vars PROVE Sampled'
  OBVIOUS
<1> USE ConstantsOK, ThreadsDistinct, NoneIsNothing
        DEF TInv, TypeOK, Roles, JobOK, NoJob, Threads, Workers, Opening, Ending,
            Holding, On, Goto, Return, Home, reg, dev, tab, tear, Sampled, Endpoint
<1>1. ASSUME NEW c \in Conns, NEW k \in Offered, RemoteGate(c, k) PROVE Sampled'
  <2>1. UNCHANGED <<present, fired, epoch>>
    BY <1>1 DEF RemoteGate
  <2>2. \A t \in Workers : pc'[t] \in {"picked"} \cup Holding =>
           /\ pc[t] \in {"picked"} \cup Holding
           /\ job'[t].kind = job[t].kind /\ job'[t].epoch = job[t].epoch
    BY <1>1, SMTT(30) DEF RemoteGate
  <2> HIDE DEF TInv, Workers, Holding, Sampled
  <2> QED
    BY <2>1, <2>2, KeepsSampled
<1>2. ASSUME NEW c \in Conns, RemoteSample(c) PROVE Sampled'
  <2> DEFINE e == Endpoint(job[c].kind)
  <2>1. CASE Return(c)
    <3>1. UNCHANGED <<present, fired, epoch>>
      BY <1>2 DEF RemoteSample
    <3>2. \A t \in Workers : pc'[t] \in {"picked"} \cup Holding =>
             /\ pc[t] \in {"picked"} \cup Holding
             /\ job'[t].kind = job[t].kind /\ job'[t].epoch = job[t].epoch
      BY <2>1
    <3> HIDE DEF TInv, Workers, Holding, Sampled, Return
    <3> QED
      BY <3>1, <3>2, KeepsSampled
  <2>2. CASE ~Return(c)
    <3>1. e \in {"none", "in", "out"}
      BY DEF Endpoint
    <3>2. /\ e = "none" \/ present[e]
          /\ job' = [job EXCEPT ![c] = [@ EXCEPT !.epoch = IF e = "none" THEN 0 ELSE epoch[e]]]
          /\ UNCHANGED <<present, fired, epoch>>
          /\ \A t \in Threads : t # c => pc'[t] = pc[t]
      BY <1>2, <2>2 DEF RemoteSample
    <3>3. \A t \in Threads : t # c => job'[t] = job[t]
      BY <3>2, ZenonT(30)
    <3>4. job'[c].kind = job[c].kind /\ (e # "none" => job'[c].epoch = epoch[e])
      <4> DEFINE n == IF e = "none" THEN 0 ELSE epoch[e]
      <4>1. job \in [Threads -> [conn : Conns \cup {None}, id : Ids \cup {None},
                               kind : Kinds \cup {None}, epoch : Nat]] /\ c \in Threads
        OBVIOUS
      <4>2. job' = [job EXCEPT ![c] = [@ EXCEPT !.epoch = n]] /\ (e # "none" => n = epoch[e])
        BY <3>2, ZenonT(30)
      <4> HIDE DEF n, e, TInv, Threads
      <4> QED
        BY <4>1, <4>2
    <3>7. Endpoint(job'[c].kind) = e
      BY <3>4
    <3>8. \A x \in Endpoints : epoch[x] \in Nat
      OBVIOUS
    <3> HIDE DEF e, TInv, Endpoint
    <3>5. \A x \in Endpoints : Endpoint(job'[c].kind) = x =>
             x = e /\ job'[c].epoch = epoch[x] /\ present[x] /\ epoch[x] \in Nat
      BY <3>1, <3>2, <3>4, <3>7, <3>8
    <3>6. \A t \in Workers : t \in Threads
      OBVIOUS
    <3> HIDE DEF TInv, Threads, Workers, Holding, Endpoint
    <3> QED
      BY <3>2, <3>3, <3>5, <3>6 DEF Sampled
  <2> QED
    BY <2>1, <2>2
<1>3. ASSUME NEW o \in Openers, NEW k \in Offered, LocalGate(o, k) PROVE Sampled'
  <2>1. UNCHANGED <<present, fired, epoch>>
    BY <1>3 DEF LocalGate
  <2>2. \A t \in Workers : pc'[t] \in {"picked"} \cup Holding =>
           /\ pc[t] \in {"picked"} \cup Holding
           /\ job'[t].kind = job[t].kind /\ job'[t].epoch = job[t].epoch
    BY <1>3 DEF LocalGate
  <2> HIDE DEF TInv, Workers, Holding, Sampled
  <2> QED
    BY <2>1, <2>2, KeepsSampled
<1>4. ASSUME NEW o \in Openers, LocalPick(o) PROVE Sampled'
  <2>1. UNCHANGED <<present, fired, epoch>>
    BY <1>4 DEF LocalPick
  <2>2. pc[o] \in Opening /\ job'[o].kind \in {job[o].kind, None}
        /\ (pc'[o] = "picked" => job'[o].kind = job[o].kind)
        /\ pc'[o] \notin Holding
    BY <1>4 DEF LocalPick
  <2>3. \A t \in Workers \ {o} : pc'[t] = pc[t] /\ job'[t] = job[t]
    BY <1>4 DEF LocalPick
  <2>4. Endpoint(job[o].kind) = "none"
    BY <2>2 DEF LocalKinds
  <2> HIDE DEF TInv, Workers, Holding, Sampled, Endpoint
  <2> QED
    BY <2>1, <2>2, <2>3, <2>4, KeepsSampled
<1>5. ASSUME NEW t \in Workers, NEW i \in Ids, Claim(t, i) PROVE Sampled'
  <2>1. UNCHANGED <<present, fired, epoch>>
    BY <1>5 DEF Claim
  <2>2. \A u \in Workers : pc'[u] \in {"picked"} \cup Holding =>
           /\ pc[u] \in {"picked"} \cup Holding
           /\ job'[u].kind = job[u].kind /\ job'[u].epoch = job[u].epoch
    BY <1>5 DEF Claim
  <2> HIDE DEF TInv, Workers, Holding, Sampled
  <2> QED
    BY <2>1, <2>2, KeepsSampled
<1>6. ASSUME NEW t \in Workers, ClaimRefused(t) PROVE Sampled'
  BY <1>6 DEF ClaimRefused
<1>7. ASSUME NEW t \in Workers, Build(t) PROVE Sampled'
  BY <1>7 DEF Build
<1>8. ASSUME NEW t \in Workers, BuildFails(t) PROVE Sampled'
  BY <1>8 DEF BuildFails
<1>9. ASSUME NEW t \in Workers, Publish(t) PROVE Sampled'
  <2>1. UNCHANGED <<present, fired, epoch>>
    BY <1>9, SMTT(30) DEF Publish
  <2>2. pc'[t] \notin {"picked"} \cup Holding
    BY <1>9 DEF Publish
  <2>3. \A u \in Threads : u # t => pc'[u] = pc[u] /\ job'[u] = job[u]
    BY <1>9 DEF Publish
  <2>4. Workers \subseteq Threads
    OBVIOUS
  <2> HIDE DEF TInv, Workers, Threads, Holding, Sampled, Endpoint
  <2> QED
    BY <2>1, <2>2, <2>3, <2>4, KeepsSampled, SMTT(30)
<1>10. ASSUME NEW t \in Workers, Abandon(t) PROVE Sampled'
  BY <1>10 DEF Abandon
<1>11. ASSUME NEW t \in Workers, Unwind(t) PROVE Sampled'
  BY <1>11 DEF Unwind
<1>12. ASSUME NEW t \in Workers, Release(t) PROVE Sampled'
  BY <1>12 DEF Release
<1>13. ASSUME NEW c \in Conns, Connect(c) PROVE Sampled'
  <2>1. UNCHANGED <<present, fired, epoch>>
    BY <1>13 DEF Connect
  <2>2. \A t \in Workers : pc'[t] \in {"picked"} \cup Holding =>
           /\ pc[t] \in {"picked"} \cup Holding
           /\ job'[t].kind = job[t].kind /\ job'[t].epoch = job[t].epoch
    BY <1>13 DEF Connect
  <2> HIDE DEF TInv, Workers, Holding, Sampled
  <2> QED
    BY <2>1, <2>2, KeepsSampled
<1>14. ASSUME NEW c \in Conns, Register(c) PROVE Sampled'
  BY <1>14 DEF Register
<1>15. ASSUME NEW c \in Conns, Retire(c) PROVE Sampled'
  BY <1>15 DEF Retire
<1>16. ASSUME NEW c \in Conns, ReaderExits(c) PROVE Sampled'
  BY <1>16 DEF ReaderExits
<1>17. ASSUME NEW r \in Reapers, NEW p \in Peers, Reap(r, p) PROVE Sampled'
  <2>1. UNCHANGED <<present, fired, epoch>>
    BY <1>17 DEF Reap
  <2>2. \A t \in Workers : pc'[t] \in {"picked"} \cup Holding =>
           /\ pc[t] \in {"picked"} \cup Holding
           /\ job'[t].kind = job[t].kind /\ job'[t].epoch = job[t].epoch
    BY <1>17 DEF Reap
  <2> HIDE DEF TInv, Workers, Holding, Sampled
  <2> QED
    BY <2>1, <2>2, KeepsSampled
<1>18. ASSUME NEW t \in Threads, MarkDead(t) PROVE Sampled'
  <2>1. UNCHANGED <<present, fired, epoch>>
    BY <1>18 DEF MarkDead
  <2>2. \A u \in Workers : pc'[u] \in {"picked"} \cup Holding =>
           /\ pc[u] \in {"picked"} \cup Holding
           /\ job'[u].kind = job[u].kind /\ job'[u].epoch = job[u].epoch
    BY <1>18 DEF MarkDead
  <2> HIDE DEF TInv, Workers, Holding, Sampled
  <2> QED
    BY <2>1, <2>2, KeepsSampled
<1>19. ASSUME NEW t \in Threads, SnapConn(t) PROVE Sampled'
  BY <1>19 DEF SnapConn
<1>20. ASSUME NEW t \in Threads, Unregister(t) PROVE Sampled'
  <2>1. UNCHANGED <<present, fired, epoch>>
    BY <1>20, SMTT(30) DEF Unregister
  <2>2. pc'[t] \notin {"picked"} \cup Holding
    BY <1>20, SMTT(30) DEF Unregister
  <2>3. \A u \in Threads : u # t => pc'[u] = pc[u] /\ job'[u] = job[u]
    BY <1>20 DEF Unregister
  <2>4. Workers \subseteq Threads
    OBVIOUS
  <2> HIDE DEF TInv, Workers, Threads, Holding, Sampled, Endpoint
  <2> QED
    BY <2>1, <2>2, <2>3, <2>4, KeepsSampled, SMTT(30)
<1>21. ASSUME NEW t \in Threads, NEW i \in Ids, Take(t, i) PROVE Sampled'
  BY <1>21 DEF Take
<1>22. ASSUME NEW t \in Threads, Unplug(t) PROVE Sampled'
  BY <1>22 DEF Unplug
<1>23. ASSUME NEW t \in Threads, Swept(t) PROVE Sampled'
  BY <1>23 DEF Swept
<1>24. ASSUME NEW c \in Conns, NEW i \in Ids, RemoteClose(c, i) PROVE Sampled'
  BY <1>24 DEF RemoteClose
<1>25. ASSUME NEW u \in Closers, NEW i \in Ids, LocalClose(u, i) PROVE Sampled'
  <2>1. UNCHANGED <<present, fired, epoch>>
    BY <1>25 DEF LocalClose
  <2>2. \A t \in Workers : pc'[t] \in {"picked"} \cup Holding =>
           /\ pc[t] \in {"picked"} \cup Holding
           /\ job'[t].kind = job[t].kind /\ job'[t].epoch = job[t].epoch
    BY <1>25 DEF LocalClose
  <2> HIDE DEF TInv, Workers, Holding, Sampled
  <2> QED
    BY <2>1, <2>2, KeepsSampled
<1>26. ASSUME NEW m \in Switchable, SetMode(m) PROVE Sampled'
  BY <1>26 DEF SetMode
<1>27. ASSUME SnapMode PROVE Sampled'
  BY <1>27 DEF SnapMode
<1>28. ASSUME NEW e \in Endpoints, DeviceChange(e) PROVE Sampled'
  BY <1>28 DEF DeviceChange
<1>29. ASSUME NEW e \in Endpoints, DeviceCallback(e) PROVE Sampled'
  BY <1>29 DEF DeviceCallback
<1>30. ASSUME WatchEpoch PROVE Sampled'
  BY <1>30 DEF WatchEpoch
<1>31. ASSUME WatchPresence PROVE Sampled'
  <2>1. UNCHANGED <<present, fired, epoch>>
    BY <1>31 DEF WatchPresence
  <2>2. \A t \in Workers : pc'[t] \in {"picked"} \cup Holding =>
           /\ pc[t] \in {"picked"} \cup Holding
           /\ job'[t].kind = job[t].kind /\ job'[t].epoch = job[t].epoch
    BY <1>31 DEF WatchPresence
  <2> HIDE DEF TInv, Workers, Holding, Sampled
  <2> QED
    BY <2>1, <2>2, KeepsSampled
<1>32. ASSUME SnapMissing PROVE Sampled'
  <2>1. UNCHANGED <<present, fired, epoch>>
    BY <1>32 DEF SnapMissing
  <2>2. \A t \in Workers : pc'[t] \in {"picked"} \cup Holding =>
           /\ pc[t] \in {"picked"} \cup Holding
           /\ job'[t].kind = job[t].kind /\ job'[t].epoch = job[t].epoch
    BY <1>32 DEF SnapMissing
  <2> HIDE DEF TInv, Workers, Holding, Sampled
  <2> QED
    BY <2>1, <2>2, KeepsSampled
<1>33. ASSUME UNCHANGED vars PROVE Sampled'
  BY <1>33 DEF vars
<1> HIDE DEF TInv, TypeOK, Roles, JobOK, NoJob, Opening, Ending, Holding, On, Goto, Return, Home, reg, dev, tab, tear, Sampled, Endpoint
<1> QED
  BY <1>1, <1>2, <1>3, <1>4, <1>5, <1>6, <1>7, <1>8, <1>9, <1>10, <1>11, <1>12, <1>13, <1>14,
     <1>15, <1>16, <1>17, <1>18, <1>19, <1>20, <1>21, <1>22, <1>23, <1>24, <1>25, <1>26, <1>27,
     <1>28, <1>29, <1>30, <1>31, <1>32, <1>33
     DEF Next, Request, OpenStep, TearStep

\* What this machine opens for itself never waits for an endpoint.
LEMMA StepLocal == TInv /\ TInv' /\ LocalKinds /\ [Next]_vars => LocalKinds'
<1> SUFFICES ASSUME TInv, TInv', LocalKinds, [Next]_vars PROVE LocalKinds'
  OBVIOUS
<1> USE ConstantsOK, ThreadsDistinct, NoneIsNothing
        DEF TInv, TypeOK, Roles, JobOK, NoJob, Threads, Workers, Opening, Ending,
            Holding, On, Goto, Return, Home, reg, dev, tab, tear, LocalKinds, Endpoint
<1>1. ASSUME NEW c \in Conns, NEW k \in Offered, RemoteGate(c, k) PROVE LocalKinds'
  BY <1>1 DEF RemoteGate
<1>2. ASSUME NEW c \in Conns, RemoteSample(c) PROVE LocalKinds'
  BY <1>2 DEF RemoteSample
<1>3. ASSUME NEW o \in Openers, NEW k \in Offered, LocalGate(o, k) PROVE LocalKinds'
  BY <1>3 DEF LocalGate
<1>4. ASSUME NEW o \in Openers, LocalPick(o) PROVE LocalKinds'
  BY <1>4 DEF LocalPick
<1>5. ASSUME NEW t \in Workers, NEW i \in Ids, Claim(t, i) PROVE LocalKinds'
  BY <1>5 DEF Claim
<1>6. ASSUME NEW t \in Workers, ClaimRefused(t) PROVE LocalKinds'
  BY <1>6 DEF ClaimRefused
<1>7. ASSUME NEW t \in Workers, Build(t) PROVE LocalKinds'
  BY <1>7 DEF Build
<1>8. ASSUME NEW t \in Workers, BuildFails(t) PROVE LocalKinds'
  BY <1>8 DEF BuildFails
<1>9. ASSUME NEW t \in Workers, Publish(t) PROVE LocalKinds'
  BY <1>9 DEF Publish
<1>10. ASSUME NEW t \in Workers, Abandon(t) PROVE LocalKinds'
  BY <1>10 DEF Abandon
<1>11. ASSUME NEW t \in Workers, Unwind(t) PROVE LocalKinds'
  BY <1>11 DEF Unwind
<1>12. ASSUME NEW t \in Workers, Release(t) PROVE LocalKinds'
  BY <1>12 DEF Release
<1>13. ASSUME NEW c \in Conns, Connect(c) PROVE LocalKinds'
  BY <1>13 DEF Connect
<1>14. ASSUME NEW c \in Conns, Register(c) PROVE LocalKinds'
  BY <1>14 DEF Register
<1>15. ASSUME NEW c \in Conns, Retire(c) PROVE LocalKinds'
  BY <1>15 DEF Retire
<1>16. ASSUME NEW c \in Conns, ReaderExits(c) PROVE LocalKinds'
  BY <1>16 DEF ReaderExits
<1>17. ASSUME NEW r \in Reapers, NEW p \in Peers, Reap(r, p) PROVE LocalKinds'
  BY <1>17 DEF Reap
<1>18. ASSUME NEW t \in Threads, MarkDead(t) PROVE LocalKinds'
  BY <1>18 DEF MarkDead
<1>19. ASSUME NEW t \in Threads, SnapConn(t) PROVE LocalKinds'
  BY <1>19 DEF SnapConn
<1>20. ASSUME NEW t \in Threads, Unregister(t) PROVE LocalKinds'
  BY <1>20 DEF Unregister
<1>21. ASSUME NEW t \in Threads, NEW i \in Ids, Take(t, i) PROVE LocalKinds'
  BY <1>21 DEF Take
<1>22. ASSUME NEW t \in Threads, Unplug(t) PROVE LocalKinds'
  BY <1>22 DEF Unplug
<1>23. ASSUME NEW t \in Threads, Swept(t) PROVE LocalKinds'
  BY <1>23 DEF Swept
<1>24. ASSUME NEW c \in Conns, NEW i \in Ids, RemoteClose(c, i) PROVE LocalKinds'
  BY <1>24 DEF RemoteClose
<1>25. ASSUME NEW u \in Closers, NEW i \in Ids, LocalClose(u, i) PROVE LocalKinds'
  BY <1>25 DEF LocalClose
<1>26. ASSUME NEW m \in Switchable, SetMode(m) PROVE LocalKinds'
  BY <1>26 DEF SetMode
<1>27. ASSUME SnapMode PROVE LocalKinds'
  BY <1>27 DEF SnapMode
<1>28. ASSUME NEW e \in Endpoints, DeviceChange(e) PROVE LocalKinds'
  BY <1>28 DEF DeviceChange
<1>29. ASSUME NEW e \in Endpoints, DeviceCallback(e) PROVE LocalKinds'
  BY <1>29 DEF DeviceCallback
<1>30. ASSUME WatchEpoch PROVE LocalKinds'
  BY <1>30 DEF WatchEpoch
<1>31. ASSUME WatchPresence PROVE LocalKinds'
  BY <1>31 DEF WatchPresence
<1>32. ASSUME SnapMissing PROVE LocalKinds'
  BY <1>32 DEF SnapMissing
<1>33. ASSUME UNCHANGED vars PROVE LocalKinds'
  BY <1>33 DEF vars
<1> HIDE DEF TInv, TypeOK, Roles, JobOK, NoJob, Opening, Ending, Holding, On, Goto, Return, Home, reg, dev, tab, tear, LocalKinds, Endpoint
<1> QED
  BY <1>1, <1>2, <1>3, <1>4, <1>5, <1>6, <1>7, <1>8, <1>9, <1>10, <1>11, <1>12, <1>13, <1>14,
     <1>15, <1>16, <1>17, <1>18, <1>19, <1>20, <1>21, <1>22, <1>23, <1>24, <1>25, <1>26, <1>27,
     <1>28, <1>29, <1>30, <1>31, <1>32, <1>33
     DEF Next, Request, OpenStep, TearStep

\* The watcher goes on owing a look, or the close, to every stream it must close.
LEMMA StepWatched == TInv /\ TInv' /\ Sampled /\ LocalKinds /\ Watched /\ [Next]_vars => Watched'
<1> SUFFICES ASSUME TInv, TInv', Sampled, LocalKinds, Watched, [Next]_vars PROVE Watched'
  OBVIOUS
<1> USE ConstantsOK, ThreadsDistinct, NoneIsNothing
        DEF TInv, TypeOK, Roles, JobOK, NoJob, Threads, Workers, Opening, Ending,
            Holding, On, Goto, Return, Home, reg, dev, tab, tear, Watched, Owed
<1>1. ASSUME NEW c \in Conns, NEW k \in Offered, RemoteGate(c, k) PROVE Watched'
  BY <1>1 DEF RemoteGate
<1>2. ASSUME NEW c \in Conns, RemoteSample(c) PROVE Watched'
  BY <1>2 DEF RemoteSample
<1>3. ASSUME NEW o \in Openers, NEW k \in Offered, LocalGate(o, k) PROVE Watched'
  BY <1>3 DEF LocalGate
<1>4. ASSUME NEW o \in Openers, LocalPick(o) PROVE Watched'
  BY <1>4 DEF LocalPick
<1>5. ASSUME NEW t \in Workers, NEW i \in Ids, Claim(t, i) PROVE Watched'
  BY <1>5 DEF Claim
<1>6. ASSUME NEW t \in Workers, ClaimRefused(t) PROVE Watched'
  BY <1>6 DEF ClaimRefused
<1>7. ASSUME NEW t \in Workers, Build(t) PROVE Watched'
  BY <1>7 DEF Build
<1>8. ASSUME NEW t \in Workers, BuildFails(t) PROVE Watched'
  BY <1>8 DEF BuildFails
<1>9. ASSUME NEW t \in Workers, Publish(t) PROVE Watched'
  <2> DEFINE n == job[t].id
             k == job[t].kind
  <2>1. /\ pc[t] = "built" /\ n \in Ids /\ k \in Kinds
        /\ sessions' = [sessions EXCEPT ![n] = [conn |-> On(t), kind |-> k]]
        /\ Endpoint(k) # "none" => epoch[Endpoint(k)] = job[t].epoch
        /\ UNCHANGED <<present, fired, epoch, seen, gone, todo>>
    BY <1>9 DEF Publish, Publishable
  <2>2. pc'[Watcher] = pc[Watcher]
    BY <1>9 DEF Publish
  <2>3. \A e \in Endpoints : Endpoint(k) = e => present[e] \/ fired[e] > 0
    <3>1. t \in Workers /\ pc[t] \in Holding
      BY <2>1
    <3> HIDE DEF TInv, Workers, Holding, k
    <3>2. \A e \in Endpoints : Endpoint(k) = e /\ epoch[e] = job[t].epoch /\ ~present[e] => fired[e] > 0
      BY <3>1 DEF Sampled, k
    <3> QED
      BY <2>1, <3>2
  <2>4. sessions'[n].kind = k /\ \A i \in Ids \ {n} : sessions'[i] = sessions[i]
    BY <2>1
  <2>5. \A e \in Endpoints : fired[e] \in Nat
    OBVIOUS
  <2> HIDE DEF n, k, TInv, Endpoint
  <2> QED
    BY <2>1, <2>2, <2>3, <2>4, <2>5
<1>10. ASSUME NEW t \in Workers, Abandon(t) PROVE Watched'
  BY <1>10 DEF Abandon
<1>11. ASSUME NEW t \in Workers, Unwind(t) PROVE Watched'
  BY <1>11 DEF Unwind
<1>12. ASSUME NEW t \in Workers, Release(t) PROVE Watched'
  BY <1>12 DEF Release
<1>13. ASSUME NEW c \in Conns, Connect(c) PROVE Watched'
  BY <1>13 DEF Connect
<1>14. ASSUME NEW c \in Conns, Register(c) PROVE Watched'
  BY <1>14 DEF Register
<1>15. ASSUME NEW c \in Conns, Retire(c) PROVE Watched'
  BY <1>15 DEF Retire
<1>16. ASSUME NEW c \in Conns, ReaderExits(c) PROVE Watched'
  BY <1>16 DEF ReaderExits
<1>17. ASSUME NEW r \in Reapers, NEW p \in Peers, Reap(r, p) PROVE Watched'
  BY <1>17 DEF Reap
<1>18. ASSUME NEW t \in Threads, MarkDead(t) PROVE Watched'
  BY <1>18 DEF MarkDead
<1>19. ASSUME NEW t \in Threads, SnapConn(t) PROVE Watched'
  BY <1>19 DEF SnapConn
<1>20. ASSUME NEW t \in Threads, Unregister(t) PROVE Watched'
  <2>1. /\ pc[t] = "purging"
        /\ UNCHANGED <<sessions, present, fired, epoch, seen, gone, todo>>
    BY <1>20, SMTT(30) DEF Unregister
  <2>2. pc[Watcher] \in {"noticed", "queried", "closing"} => pc'[Watcher] = pc[Watcher]
    BY <1>20 DEF Unregister
  <2> HIDE DEF TInv, Endpoint
  <2> QED
    BY <2>1, <2>2, SMTT(30)
<1>21. ASSUME NEW t \in Threads, NEW i \in Ids, Take(t, i) PROVE Watched'
  BY <1>21 DEF Take
<1>22. ASSUME NEW t \in Threads, Unplug(t) PROVE Watched'
  BY <1>22 DEF Unplug
<1>23. ASSUME NEW t \in Threads, Swept(t) PROVE Watched'
  BY <1>23 DEF Swept
<1>24. ASSUME NEW c \in Conns, NEW i \in Ids, RemoteClose(c, i) PROVE Watched'
  BY <1>24 DEF RemoteClose
<1>25. ASSUME NEW u \in Closers, NEW i \in Ids, LocalClose(u, i) PROVE Watched'
  BY <1>25 DEF LocalClose
<1>26. ASSUME NEW m \in Switchable, SetMode(m) PROVE Watched'
  BY <1>26 DEF SetMode
<1>27. ASSUME SnapMode PROVE Watched'
  BY <1>27 DEF SnapMode
<1>28. ASSUME NEW e \in Endpoints, DeviceChange(e) PROVE Watched'
  BY <1>28 DEF DeviceChange
<1>29. ASSUME NEW e \in Endpoints, DeviceCallback(e) PROVE Watched'
  BY <1>29 DEF DeviceCallback
<1>30. ASSUME WatchEpoch PROVE Watched'
  BY <1>30 DEF WatchEpoch
<1>31. ASSUME WatchPresence PROVE Watched'
  BY <1>31 DEF WatchPresence
<1>32. ASSUME SnapMissing PROVE Watched'
  BY <1>32 DEF SnapMissing, Live
<1>33. ASSUME UNCHANGED vars PROVE Watched'
  BY <1>33 DEF vars
<1> HIDE DEF TInv, TypeOK, Roles, JobOK, NoJob, Opening, Ending, Holding, On, Goto, Return, Home, reg, dev, tab, tear, Watched, Owed
<1> QED
  BY <1>1, <1>2, <1>3, <1>4, <1>5, <1>6, <1>7, <1>8, <1>9, <1>10, <1>11, <1>12, <1>13, <1>14,
     <1>15, <1>16, <1>17, <1>18, <1>19, <1>20, <1>21, <1>22, <1>23, <1>24, <1>25, <1>26, <1>27,
     <1>28, <1>29, <1>30, <1>31, <1>32, <1>33
     DEF Next, Request, OpenStep, TearStep

\* A thread marks its connection dead first and nothing revives it meanwhile.
LEMMA StepDead == TInv /\ TInv' /\ DeadFirst /\ [Next]_vars => DeadFirst'
<1> SUFFICES ASSUME TInv, TInv', DeadFirst, [Next]_vars PROVE DeadFirst'
  OBVIOUS
<1> USE ConstantsOK, ThreadsDistinct, NoneIsNothing
        DEF TInv, TypeOK, Roles, JobOK, NoJob, Threads, Workers, Opening, Ending,
            Holding, On, Goto, Return, Home, reg, dev, tab, tear, DeadFirst
<1>1. ASSUME NEW c \in Conns, NEW k \in Offered, RemoteGate(c, k) PROVE DeadFirst'
  BY <1>1 DEF RemoteGate
<1>2. ASSUME NEW c \in Conns, RemoteSample(c) PROVE DeadFirst'
  BY <1>2 DEF RemoteSample
<1>3. ASSUME NEW o \in Openers, NEW k \in Offered, LocalGate(o, k) PROVE DeadFirst'
  BY <1>3 DEF LocalGate
<1>4. ASSUME NEW o \in Openers, LocalPick(o) PROVE DeadFirst'
  BY <1>4 DEF LocalPick
<1>5. ASSUME NEW t \in Workers, NEW i \in Ids, Claim(t, i) PROVE DeadFirst'
  BY <1>5 DEF Claim
<1>6. ASSUME NEW t \in Workers, ClaimRefused(t) PROVE DeadFirst'
  BY <1>6 DEF ClaimRefused
<1>7. ASSUME NEW t \in Workers, Build(t) PROVE DeadFirst'
  BY <1>7 DEF Build
<1>8. ASSUME NEW t \in Workers, BuildFails(t) PROVE DeadFirst'
  BY <1>8 DEF BuildFails
<1>9. ASSUME NEW t \in Workers, Publish(t) PROVE DeadFirst'
  BY <1>9 DEF Publish
<1>10. ASSUME NEW t \in Workers, Abandon(t) PROVE DeadFirst'
  BY <1>10 DEF Abandon
<1>11. ASSUME NEW t \in Workers, Unwind(t) PROVE DeadFirst'
  BY <1>11 DEF Unwind
<1>12. ASSUME NEW t \in Workers, Release(t) PROVE DeadFirst'
  BY <1>12 DEF Release
<1>13. ASSUME NEW c \in Conns, Connect(c) PROVE DeadFirst'
  BY <1>13 DEF Connect
<1>14. ASSUME NEW c \in Conns, Register(c) PROVE DeadFirst'
  <2>1. pc'[c] \notin {"snapping", "purging"}
    BY <1>14 DEF Register
  <2>2. \A t \in Threads \ {c} : pc'[t] = pc[t] /\ job'[t] = job[t]
    BY <1>14 DEF Register
  <2>3. \A x \in Conns : alive'[x] => alive[x]
    BY <1>14 DEF Register
  <2>4. \A t \in Threads : pc[t] \in {"snapping", "purging"} => On(t) \in Conns
    OBVIOUS
  <2> HIDE DEF TInv, Threads
  <2> QED
    BY <2>1, <2>2, <2>3, <2>4
<1>15. ASSUME NEW c \in Conns, Retire(c) PROVE DeadFirst'
  BY <1>15 DEF Retire
<1>16. ASSUME NEW c \in Conns, ReaderExits(c) PROVE DeadFirst'
  BY <1>16 DEF ReaderExits
<1>17. ASSUME NEW r \in Reapers, NEW p \in Peers, Reap(r, p) PROVE DeadFirst'
  BY <1>17 DEF Reap
<1>18. ASSUME NEW t \in Threads, MarkDead(t) PROVE DeadFirst'
  BY <1>18 DEF MarkDead
<1>19. ASSUME NEW t \in Threads, SnapConn(t) PROVE DeadFirst'
  BY <1>19, SMTT(30) DEF SnapConn
<1>20. ASSUME NEW t \in Threads, Unregister(t) PROVE DeadFirst'
  BY <1>20, SMTT(30) DEF Unregister
<1>21. ASSUME NEW t \in Threads, NEW i \in Ids, Take(t, i) PROVE DeadFirst'
  BY <1>21 DEF Take
<1>22. ASSUME NEW t \in Threads, Unplug(t) PROVE DeadFirst'
  BY <1>22 DEF Unplug
<1>23. ASSUME NEW t \in Threads, Swept(t) PROVE DeadFirst'
  BY <1>23 DEF Swept
<1>24. ASSUME NEW c \in Conns, NEW i \in Ids, RemoteClose(c, i) PROVE DeadFirst'
  BY <1>24 DEF RemoteClose
<1>25. ASSUME NEW u \in Closers, NEW i \in Ids, LocalClose(u, i) PROVE DeadFirst'
  BY <1>25 DEF LocalClose
<1>26. ASSUME NEW m \in Switchable, SetMode(m) PROVE DeadFirst'
  BY <1>26 DEF SetMode
<1>27. ASSUME SnapMode PROVE DeadFirst'
  BY <1>27 DEF SnapMode
<1>28. ASSUME NEW e \in Endpoints, DeviceChange(e) PROVE DeadFirst'
  BY <1>28 DEF DeviceChange
<1>29. ASSUME NEW e \in Endpoints, DeviceCallback(e) PROVE DeadFirst'
  BY <1>29 DEF DeviceCallback
<1>30. ASSUME WatchEpoch PROVE DeadFirst'
  BY <1>30 DEF WatchEpoch
<1>31. ASSUME WatchPresence PROVE DeadFirst'
  BY <1>31 DEF WatchPresence
<1>32. ASSUME SnapMissing PROVE DeadFirst'
  BY <1>32 DEF SnapMissing
<1>33. ASSUME UNCHANGED vars PROVE DeadFirst'
  BY <1>33 DEF vars
<1> HIDE DEF TInv, TypeOK, Roles, JobOK, NoJob, Opening, Ending, Holding, On, Goto, Return, Home, reg, dev, tab, tear, DeadFirst
<1> QED
  BY <1>1, <1>2, <1>3, <1>4, <1>5, <1>6, <1>7, <1>8, <1>9, <1>10, <1>11, <1>12, <1>13, <1>14,
     <1>15, <1>16, <1>17, <1>18, <1>19, <1>20, <1>21, <1>22, <1>23, <1>24, <1>25, <1>26, <1>27,
     <1>28, <1>29, <1>30, <1>31, <1>32, <1>33
     DEF Next, Request, OpenStep, TearStep

-----------------------------------------------------------------------------
(* The connections are a PeerRegistry.                                     *)

\* Before register_conn and after the end of its reader a connection is not
\* registered, and nobody has looked up one that is to be registered yet.
Enrolled ==
    /\ \A c \in Conns, p \in Peers : conns[p] = c => PeerOf[c] = p /\ pc[c] \notin {"born", "done"}
    /\ \A c \in Conns : pc[c] = "born" => alive[c] /\ \A t \in Threads : job[t].conn # c

\* A step of the registry, or none.
Stays == UNCHANGED conns /\ \A k \in Conns : Standing(k)' = Standing(k)

Enters(c) ==
    /\ Standing(c) = "off" /\ conns' = [conns EXCEPT ![PeerOf[c]] = c]
    /\ \A k \in Conns : Standing(k)' =
          IF k = c THEN "live"
          ELSE IF k = conns[PeerOf[c]] /\ Standing(k) = "live" THEN "ousted" ELSE Standing(k)

Dies(c) ==
    /\ Standing(c) \in {"live", "ousted"} /\ UNCHANGED conns
    /\ \A k \in Conns : Standing(k)' = IF k = c THEN "dead" ELSE Standing(k)

Leaves(c) ==
    /\ Standing(c) = "dead"
    /\ conns' = [conns EXCEPT ![PeerOf[c]] = IF @ = c THEN None ELSE @]
    /\ \/ \A k \in Conns : Standing(k)' = Standing(k)
       \/ \A k \in Conns : Standing(k)' = IF k = c THEN "off" ELSE Standing(k)

Moves == Stays \/ \E c \in Conns : Enters(c) \/ Dies(c) \/ Leaves(c)

\* A step that is nothing to the registry: nobody is born, done, registered or marked
\* dead, and a thread that looks a connection up finds a registered one.
Steady ==
    /\ UNCHANGED <<alive, conns>>
    /\ \A c \in Conns : \/ pc'[c] = pc[c]
                        \/ pc[c] \notin {"born", "done"} /\ pc'[c] \notin {"born", "done"}
    /\ \A t \in Threads : \/ job'[t].conn \in {job[t].conn, None}
                          \/ \E p \in Peers : job'[t].conn = conns[p]

\* Openers, closers, the mode and the watcher leave the registry alone.
LEMMA OnlyThese ==
  ASSUME TInv, [Next]_vars
  PROVE  \/ Steady
         \/ \E c \in Conns : Connect(c) \/ Register(c) \/ Retire(c)
         \/ \E t \in Threads : MarkDead(t) \/ Unregister(t)
<1> USE ThreadsDistinct
        DEF TInv, TypeOK, Roles, NoJob, Threads, Workers, Opening, Ending, Holding, Goto, Return,
            Home, reg, dev, tab, tear, Steady
<1>1. ASSUME NEW c \in Conns, NEW k \in Offered, RemoteGate(c, k) PROVE Steady
  BY <1>1 DEF RemoteGate
<1>2. ASSUME NEW c \in Conns, RemoteSample(c) PROVE Steady
  BY <1>2 DEF RemoteSample
<1>3. ASSUME NEW o \in Openers, NEW k \in Offered, LocalGate(o, k) PROVE Steady
  BY <1>3 DEF LocalGate
<1>4. ASSUME NEW o \in Openers, LocalPick(o) PROVE Steady
  BY <1>4, SMTT(30) DEF LocalPick
<1>5. ASSUME NEW t \in Workers, NEW i \in Ids, Claim(t, i) PROVE Steady
  BY <1>5 DEF Claim
<1>6. ASSUME NEW t \in Workers, ClaimRefused(t) \/ Publish(t) \/ Release(t) PROVE Steady
  BY <1>6 DEF ClaimRefused, Publish, Release
<1>7. ASSUME NEW t \in Workers, Build(t) \/ BuildFails(t) \/ Abandon(t) \/ Unwind(t) PROVE Steady
  BY <1>7 DEF Build, BuildFails, Abandon, Unwind
<1>8. ASSUME NEW c \in Conns, ReaderExits(c) PROVE Steady
  BY <1>8 DEF ReaderExits
<1>9. ASSUME NEW r \in Reapers, NEW p \in Peers, Reap(r, p) PROVE Steady
  BY <1>9 DEF Reap
<1>10. ASSUME NEW t \in Threads, SnapConn(t) \/ Swept(t) PROVE Steady
  BY <1>10 DEF SnapConn, Swept
<1>11. ASSUME NEW t \in Threads, NEW i \in Ids, Take(t, i) PROVE Steady
  BY <1>11 DEF Take
<1>12. ASSUME NEW t \in Threads, Unplug(t) PROVE Steady
  BY <1>12 DEF Unplug
<1>13. ASSUME NEW c \in Conns, NEW i \in Ids, RemoteClose(c, i) PROVE Steady
  BY <1>13 DEF RemoteClose
<1>14. ASSUME NEW u \in Closers, NEW i \in Ids, LocalClose(u, i) PROVE Steady
  BY <1>14 DEF LocalClose
<1>15. ASSUME NEW m \in Switchable, SetMode(m) PROVE Steady
  BY <1>15 DEF SetMode
<1>16. ASSUME SnapMode PROVE Steady
  BY <1>16 DEF SnapMode
<1>17. ASSUME NEW e \in Endpoints, DeviceChange(e) \/ DeviceCallback(e) PROVE Steady
  BY <1>17 DEF DeviceChange, DeviceCallback
<1>18. ASSUME WatchEpoch \/ WatchPresence \/ SnapMissing PROVE Steady
  BY <1>18 DEF WatchEpoch, WatchPresence, SnapMissing
<1>19. ASSUME UNCHANGED vars PROVE Steady
  BY <1>19 DEF vars
<1> HIDE DEF TInv, TypeOK, Roles, NoJob, Threads, Workers, Opening, Ending, Holding, Goto, Return,
             Home, reg, dev, tab, tear, Steady
<1> QED
  BY <1>1, <1>2, <1>3, <1>4, <1>5, <1>6, <1>7, <1>8, <1>9, <1>10, <1>11,
     <1>12, <1>13, <1>14, <1>15, <1>16, <1>17, <1>18, <1>19
     DEF Next, Request, OpenStep, TearStep

\* Nothing is registered at the start.
LEMMA InitEnrolled == Init => Enrolled /\ Registry!Init
  BY ThreadsDistinct, NoneIsNothing
  DEF Init, Enrolled, Registry!Init, Standing, Threads, NoJob

\* Such a step keeps what is registered.
LEMMA SteadyStays == ASSUME TInv, Enrolled, Steady PROVE Enrolled' /\ Stays
<1>1. \A c \in Conns : /\ pc'[c] \in {"born", "done"} <=> pc[c] \in {"born", "done"}
                       /\ pc'[c] = "born" <=> pc[c] = "born"
  BY DEF Steady
<1>2. ASSUME NEW c \in Conns, pc'[c] = "born", NEW t \in Threads PROVE job'[t].conn # c
  <2>1. pc[c] = "born" /\ job[t].conn # c /\ c # None
    BY <1>1, <1>2, NoneIsNothing DEF Enrolled, Threads
  <2>2. \A p \in Peers : conns[p] # c
    BY <2>1 DEF Enrolled
  <2> QED
    BY <2>1, <2>2 DEF Steady
<1>3. Enrolled'
  BY <1>1, <1>2 DEF Enrolled, Steady
<1>4. Stays
  BY <1>1 DEF Stays, Standing, Steady
<1> QED
  BY <1>3, <1>4

\* A connection made is not registered yet.
LEMMA ConnectStays ==
  ASSUME TInv, Enrolled, NEW c \in Conns, Connect(c) PROVE Enrolled' /\ Stays
<1>1. /\ pc[c] = "done" /\ pc'[c] = "born" /\ alive'[c] /\ UNCHANGED <<conns, job>>
      /\ \A t \in Threads : job[t].conn # c
      /\ \A p \in Peers : conns[p] # c
      /\ \A k \in Conns \ {c} : pc'[k] = pc[k] /\ alive'[k] = alive[k]
  BY DEF Connect, Goto, TInv, TypeOK, Threads
<1>2. Enrolled'
  BY <1>1 DEF Enrolled
<1>3. Stays
  BY <1>1 DEF Stays, Standing
<1> QED
  BY <1>2, <1>3

\* register_conn, that drops the newcomer or puts it in the place of another.
LEMMA RegisterEnters ==
  ASSUME TInv, Enrolled, NEW c \in Conns, Register(c) PROVE Enrolled' /\ (Stays \/ Enters(c))
<1> DEFINE p == PeerOf[c]
           old == conns[p]
<1>1. /\ pc[c] = "born" /\ alive[c] /\ p \in Peers /\ c \in Threads /\ c # None
      /\ \A q \in Peers : conns[q] # c
      /\ \A t \in Threads : job[t].conn # c
  BY ConstantsOK, NoneIsNothing DEF Register, Enrolled, Threads
<1>2. \A k \in Conns \ {c} : pc'[k] = pc[k]
  BY DEF Register, Goto, TInv, TypeOK, Threads
<1>3. CASE alive'[c] # alive[c]
  <2>1. /\ pc'[c] = "done" /\ UNCHANGED <<conns, job>>
        /\ \A k \in Conns \ {c} : alive'[k] = alive[k]
    BY <1>1, <1>3 DEF Register, Goto, TInv, TypeOK
  <2>2. Enrolled'
    BY <1>1, <1>2, <2>1 DEF Enrolled
  <2>3. Stays
    BY <1>1, <1>2, <2>1 DEF Stays, Standing
  <2> QED
    BY <2>2, <2>3
<1>4. CASE alive'[c] = alive[c]
  <2>1. /\ conns' = [conns EXCEPT ![p] = c] /\ UNCHANGED alive
        /\ job' = [job EXCEPT ![c] = [NoJob EXCEPT !.conn = old]]
        /\ pc'[c] \in {"reading", "retiring"}
    BY <1>1, <1>4 DEF Register, Goto, TInv, TypeOK
  <2>2. conns'[p] = c /\ \A q \in Peers \ {p} : conns'[q] = conns[q]
    BY <1>1, <2>1 DEF TInv, TypeOK
  <2>3. job'[c].conn = old /\ \A t \in Threads \ {c} : job'[t] = job[t]
    BY <1>1, <2>1 DEF TInv, TypeOK, NoJob
  <2>4. \A k \in Conns : pc'[k] = "born" => pc[k] = "born" /\ k # c
    BY <1>2, <2>1
  <2>5. \A k \in Conns : pc[k] = "born" => k # old
    BY <1>1 DEF Enrolled
  <2> HIDE DEF p, old
  <2>6. \A k \in Conns, q \in Peers : conns'[q] = k => PeerOf[k] = q /\ pc'[k] \notin {"born", "done"}
    BY <1>1, <1>2, <2>1, <2>2 DEF Enrolled, p
  <2>7. \A k \in Conns : pc'[k] = "born" => alive'[k] /\ \A t \in Threads : job'[t].conn # k
    BY <2>1, <2>3, <2>4, <2>5 DEF Enrolled
  <2>8. Standing(c) = "off" /\ Standing(c)' = "live"
    BY <1>1, <2>1, <2>2 DEF Standing, p
  <2>9. ASSUME NEW k \in Conns \ {c}
        PROVE  Standing(k)' = IF k = old /\ Standing(k) = "live" THEN "ousted" ELSE Standing(k)
    <3>1. PeerOf[k] \in Peers
      BY ConstantsOK
    <3>2. CASE PeerOf[k] = p
      <4>1. conns'[PeerOf[k]] # k /\ (conns[PeerOf[k]] = k <=> k = old)
        BY <2>2, <3>2 DEF old
      <4> QED
        BY <1>2, <2>1, <4>1 DEF Standing
    <3>3. CASE PeerOf[k] # p
      <4>1. conns'[PeerOf[k]] = conns[PeerOf[k]] /\ k # old
        BY <1>1, <2>2, <3>1, <3>3 DEF Enrolled, old
      <4> QED
        BY <1>2, <2>1, <4>1 DEF Standing
    <3> QED
      BY <3>2, <3>3
  <2>10. Enters(c)
    BY <2>1, <2>8, <2>9 DEF Enters, p, old
  <2> QED
    BY <2>6, <2>7, <2>10 DEF Enrolled
<1> QED
  BY <1>3, <1>4

\* Whoever marks a connection dead - a reader, a reaper, the one that took its
\* place - has looked it up since it was registered.
LEMMA MarkDies ==
  ASSUME TInv, OInv, Enrolled, NEW c \in Conns, pc[c] # "born",
         alive' = [alive EXCEPT ![c] = FALSE], UNCHANGED conns,
         \A k \in Conns : \/ pc'[k] = pc[k]
                          \/ pc[k] \notin {"born", "done"} /\ pc'[k] \notin {"born", "done"},
         \A t \in Threads : job'[t].conn \in {job[t].conn, None}
  PROVE  Enrolled' /\ (Stays \/ Dies(c))
<1>1. ~alive'[c] /\ \A k \in Conns \ {c} : alive'[k] = alive[k]
  BY DEF TInv, TypeOK
<1>2. \A k \in Conns : /\ pc'[k] \in {"born", "done"} <=> pc[k] \in {"born", "done"}
                       /\ pc'[k] = "born" <=> pc[k] = "born"
  OBVIOUS
<1>3. Enrolled'
  BY <1>1, <1>2, NoneIsNothing DEF Enrolled, Threads
<1>4. \A k \in Conns \ {c} : Standing(k)' = Standing(k)
  BY <1>1, <1>2 DEF Standing
<1>5. CASE pc[c] # "done" /\ alive[c]
  <2>1. Standing(c) \in {"live", "ousted"} /\ Standing(c)' = "dead"
    BY <1>1, <1>2, <1>5 DEF Standing
  <2> QED
    BY <1>3, <1>4, <2>1 DEF Dies
<1>6. CASE pc[c] = "done" \/ ~alive[c]
  <2>1. Standing(c)' = Standing(c)
    BY <1>1, <1>2, <1>6 DEF Standing, OInv
  <2> QED
    BY <1>3, <1>4, <2>1 DEF Stays
<1> QED
  BY <1>5, <1>6

\* The last lock of teardown_conn, of a reader or of a reaper.
LEMMA UnregisterLeaves ==
  ASSUME TInv, DeadFirst, Enrolled, NEW t \in Threads, Unregister(t), NEW c \in Conns, On(t) = c
  PROVE  Enrolled' /\ (Stays \/ Leaves(c))
<1> DEFINE p == PeerOf[c]
<1>1. /\ pc[t] = "purging" /\ ~alive[c] /\ p \in Peers /\ UNCHANGED alive
      /\ conns' = [conns EXCEPT ![p] = IF conns[p] = c THEN None ELSE conns[p]]
      /\ job' = [job EXCEPT ![t] = NoJob]
      /\ pc' = [pc EXCEPT ![t] = IF t \in Conns THEN "done" ELSE "idle"]
  BY ConstantsOK DEF Unregister, Goto, DeadFirst
<1>2. t \in Conns => t = c
  BY DEF On
<1>3. /\ conns'[p] # c /\ c # None
      /\ \A q \in Peers, k \in Conns \ {c} : conns'[q] = k <=> conns[q] = k
      /\ \A q \in Peers : conns'[q] # c
  BY <1>1, NoneIsNothing DEF TInv, TypeOK, Enrolled, Threads
<1>4. \A k \in Conns \ {c} : pc'[k] = pc[k]
  BY <1>1, <1>2 DEF TInv, TypeOK
<1>5. \A u \in Threads : job'[u].conn \in {job[u].conn, None}
  BY <1>1 DEF TInv, TypeOK, NoJob
<1>6. pc'[c] = "born" => pc[c] = "born" /\ t # c
  BY <1>1 DEF TInv, TypeOK, Threads
<1>7. \A k \in Conns \ {c} : Standing(k)' = Standing(k)
  BY <1>1, <1>3, <1>4, ConstantsOK DEF Standing
<1> HIDE DEF p
<1>8. pc[c] # "born"
  BY <1>1 DEF Enrolled
<1>9. Enrolled'
  BY <1>1, <1>3, <1>4, <1>5, <1>6, <1>8, NoneIsNothing DEF Enrolled, Threads
<1>10. CASE pc[c] = "done"
  <2>1. \A q \in Peers : conns[q] # c
    BY <1>10 DEF Enrolled
  <2>2. UNCHANGED conns
    BY <1>1, <2>1 DEF TInv, TypeOK
  <2>3. t # c /\ pc'[c] = "done"
    BY <1>1, <1>10 DEF TInv, TypeOK, Threads
  <2>4. Standing(c) = "off" /\ Standing(c)' = "off"
    BY <1>10, <2>3 DEF Standing
  <2> QED
    BY <1>7, <1>9, <2>2, <2>4 DEF Stays
<1>11. CASE pc[c] # "done"
  <2>1. Standing(c) = "dead"
    BY <1>1, <1>8, <1>11 DEF Standing
  <2>2. Standing(c)' \in {"dead", "off"}
    BY <1>1 DEF Standing
  <2>3. \/ \A k \in Conns : Standing(k)' = Standing(k)
        \/ \A k \in Conns : Standing(k)' = IF k = c THEN "off" ELSE Standing(k)
    BY <1>7, <2>1, <2>2
  <2>4. Leaves(c)
    BY <1>1, <2>1, <2>3 DEF Leaves, p
  <2> QED
    BY <1>9, <2>4
<1> QED
  BY <1>10, <1>11

\* Every step is one of the registry, or none.
LEMMA StepMoves ==
  ASSUME TInv, OInv, DeadFirst, Enrolled, [Next]_vars
  PROVE  Enrolled' /\ Moves
<1>1. CASE Steady
  BY <1>1, SteadyStays DEF Moves
<1>2. ASSUME NEW c \in Conns, Connect(c) \/ Register(c) PROVE Enrolled' /\ Moves
  BY <1>2, ConnectStays, RegisterEnters DEF Moves
<1>3. ASSUME NEW c \in Conns, Retire(c) PROVE Enrolled' /\ Moves
  <2> DEFINE k == job[c].conn
  <2>1. k \in Conns /\ pc[k] # "born" /\ alive' = [alive EXCEPT ![k] = FALSE] /\ UNCHANGED conns
    BY <1>3 DEF Retire, TInv, JobOK, Enrolled, Threads
  <2>2. \A d \in Conns : pc'[d] = pc[d] \/ (pc[d] \notin {"born", "done"} /\ pc'[d] \notin {"born", "done"})
    BY <1>3 DEF Retire, Return, Goto, Home, TInv, TypeOK, Threads
  <2>3. \A t \in Threads : job'[t].conn \in {job[t].conn, None}
    BY <1>3 DEF Retire, Return, NoJob, TInv, TypeOK, Threads
  <2> QED
    BY <2>1, <2>2, <2>3, MarkDies DEF Moves
<1>4. ASSUME NEW t \in Threads, MarkDead(t) PROVE Enrolled' /\ Moves
  <2> DEFINE k == On(t)
  <2>1. /\ k \in Conns /\ alive' = [alive EXCEPT ![k] = FALSE]
        /\ UNCHANGED <<conns, job>> /\ pc[t] = "dying"
    BY <1>4 DEF MarkDead, TInv, JobOK, Ending
  <2>2. pc[k] # "born"
    BY <2>1 DEF On, Enrolled
  <2>3. \A d \in Conns : pc'[d] = pc[d] \/ (pc[d] \notin {"born", "done"} /\ pc'[d] \notin {"born", "done"})
    BY <1>4 DEF MarkDead, Goto, TInv, TypeOK, Threads
  <2> QED
    BY <2>1, <2>2, <2>3, MarkDies DEF Moves
<1>5. ASSUME NEW t \in Threads, Unregister(t) PROVE Enrolled' /\ Moves
  <2>1. On(t) \in Conns
    BY <1>5 DEF Unregister, TInv, JobOK, Ending
  <2> QED
    BY <1>5, <2>1, UnregisterLeaves DEF Moves
<1> QED
  BY <1>1, <1>2, <1>3, <1>4, <1>5, OnlyThese

\* ... and what that is in PeerRegistry.
LEMMA StepRegistry == Moves => [Registry!Next]_(Registry!vars)
<1> SUFFICES ASSUME Moves PROVE [Registry!Next]_(Registry!vars)
  OBVIOUS
<1>1. CASE Stays
  BY <1>1 DEF Stays, Registry!vars
<1>2. ASSUME NEW c \in Conns, Enters(c) PROVE Registry!Enter(c)
  BY <1>2 DEF Enters, Registry!Enter
<1>3. ASSUME NEW c \in Conns, Dies(c) PROVE Registry!Die(c)
  BY <1>3 DEF Dies, Registry!Die
<1>4. ASSUME NEW c \in Conns, Leaves(c) PROVE Registry!Leave(c)
  BY <1>4 DEF Leaves, Registry!Leave
<1> QED
  BY <1>1, <1>2, <1>3, <1>4 DEF Moves, Registry!Next

-----------------------------------------------------------------------------
(* The theorems.                                                           *)

\* The inductive invariant holds of every behaviour of the daemon's threads.
THEOREM Inductive == Spec => [](IInv /\ PoolCaps)
<1>1. Init => IInv /\ PoolCaps
  BY InitTyped, InitClaims, InitOrphans, InitRouting, InitNoLeak, InitCaps DEF IInv
<1>2. IInv /\ PoolCaps /\ [Next]_vars => (IInv /\ PoolCaps)'
  <2> SUFFICES ASSUME IInv, PoolCaps, [Next]_vars PROVE IInv' /\ PoolCaps'
    OBVIOUS
  <2>1. IInv'
    BY StepTyped, StepClaims, StepOrphans, StepRouting, StepNoLeak DEF IInv
  <2>2. [Pool!Next]_(Pool!vars)
    BY <2>1, StepPool
  <2>3. PoolCaps'
    BY <2>2, StepCaps DEF IInv
  <2> QED
    BY <2>1, <2>3
<1> QED
  BY <1>1, <1>2, PTL DEF Spec

\* Every variable keeps its type, whatever the threads interleave.
THEOREM Typed == Spec => []TypeOK
<1>1. IInv /\ PoolCaps => TypeOK
  BY DEF IInv, TInv
<1> QED
  BY <1>1, Inductive, PTL

\* An opener's claim is its own from claim_stream_id to the commit or the drop.
THEOREM ClaimsHeld == Spec => []ClaimsAreHeld
<1>1. IInv /\ PoolCaps => ClaimsAreHeld
  BY DEF IInv, CInv
<1> QED
  BY <1>1, Inductive, PTL

\* MAX_STREAMS_PER_CONN and MAX_STREAMS_TOTAL hold over table and openers.
THEOREM CapsHold == Spec => []StreamCaps
<1>1. IInv /\ PoolCaps => StreamCaps
  BY CapsByPool DEF IInv
<1> QED
  BY <1>1, Inductive, PTL

\* A committed receive stream is in rx_table, for any interleaving of teardowns.
THEOREM Routable == Spec => []CommittedIsRoutable
<1>1. IInv /\ PoolCaps => CommittedIsRoutable
  BY DEF IInv, RInv, CommittedIsRoutable, Live
<1> QED
  BY <1>1, Inductive, PTL

\* Every rx_table entry and every source has somebody who will take it down.
THEOREM NoLeak == Spec => []NoMediaLeak
<1>1. IInv /\ PoolCaps => NoMediaLeak
  BY DEF IInv
<1> QED
  BY <1>1, Inductive, PTL

\* No session is left on a connection whose reader has ended; what is left on one
\* that is being torn down is in its reader's snapshot.
THEOREM NoOrphans == Spec => []NoOrphanSession
<1>1. IInv /\ PoolCaps => NoOrphanSession
  BY DEF IInv, OInv, NoOrphanSession
<1> QED
  BY <1>1, Inductive, PTL

\* The daemon's session table implements StreamPool.
THEOREM Refines == Spec => ImplementsPool
<1>1. Init => Pool!Init
  BY InitPool
<1>2. IInv /\ IInv' /\ [Next]_vars => [Pool!Next]_(Pool!vars)
  BY StepPool
<1>3. Spec => []IInv
  BY Inductive, PTL
<1> QED
  BY <1>1, <1>2, <1>3, PTL DEF Spec, ImplementsPool, Pool!Spec

\* What the openers sampled, what the watcher owes, and who is dead by when.
THEOREM DevicesInductive == Spec => [](IInv /\ DInv /\ DeadFirst)
<1>1. Init => IInv /\ DInv /\ DeadFirst
  BY InitTyped, InitClaims, InitOrphans, InitRouting, InitNoLeak, InitDevices DEF IInv
<1>2. IInv /\ IInv' /\ DInv /\ DeadFirst /\ [Next]_vars => DInv' /\ DeadFirst'
  BY StepSampled, StepLocal, StepWatched, StepDead DEF IInv, DInv
<1>3. Spec => []IInv
  BY Inductive, PTL
<1> QED
  BY <1>1, <1>2, <1>3, PTL DEF Spec

\* Once the watcher has caught up, no peer is served from a missing endpoint,
\* whatever an open that was under way meanwhile had been told about it.
THEOREM NoneServedFromMissing == Spec => []MissingEndpointServesNobody
<1>1. IInv /\ DInv /\ DeadFirst => MissingEndpointServesNobody
  <2> SUFFICES ASSUME DInv, pc[Watcher] = "idle", seen = epoch,
                      NEW e \in Endpoints, fired[e] = 0, ~present[e],
                      NEW i \in Live, Endpoint(sessions[i].kind) = e
               PROVE  FALSE
    BY DEF MissingEndpointServesNobody
  <2> QED
    BY DEF DInv, Watched, Owed, Live
<1> QED
  BY <1>1, DevicesInductive, PTL

\* No step takes a live connection out of the registry, but for register_conn
\* putting a newer one in its place.
THEOREM OnlyDeadLeave == Spec => OnlyDeadUnregistered
<1> DEFINE Left == \A p \in Peers : conns[p] # None /\ conns'[p] # conns[p] =>
                     \/ ~alive'[conns[p]]
                     \/ \E c \in Conns : pc'[c] = "retiring" /\ job'[c].conn = conns[p]
<1>1. IInv /\ DeadFirst /\ [Next]_vars => Left
  <2> SUFFICES ASSUME TInv, DeadFirst, [Next]_vars,
                      NEW p \in Peers, conns[p] # None, conns'[p] # conns[p]
               PROVE  \/ ~alive'[conns[p]]
                      \/ \E c \in Conns : pc'[c] = "retiring" /\ job'[c].conn = conns[p]
    BY SMTT(30) DEF IInv
  <2>1. \/ \E c \in Conns : Register(c)
        \/ \E t \in Threads : Unregister(t)
    BY DEF Next, Request, OpenStep, TearStep, vars, reg, RemoteGate, RemoteSample, LocalGate,
           LocalPick, Claim, ClaimRefused, Build, BuildFails, Publish, Abandon, Unwind, Release,
           Connect, Retire, ReaderExits, Reap, MarkDead, SnapConn, Take, Unplug, Swept, RemoteClose,
           LocalClose, SetMode, SnapMode, DeviceChange, DeviceCallback, WatchEpoch, WatchPresence,
           SnapMissing
  <2>2. ASSUME NEW c \in Conns, Register(c)
        PROVE  pc'[c] = "retiring" /\ job'[c].conn = conns[p]
    <3>1. /\ conns' = [conns EXCEPT ![PeerOf[c]] = c]
          /\ job' = [job EXCEPT ![c] = [NoJob EXCEPT !.conn = conns[PeerOf[c]]]]
          /\ pc' = [pc EXCEPT ![c] = IF conns[PeerOf[c]] = None THEN "reading" ELSE "retiring"]
      BY <2>2 DEF Register, Goto
    <3>2. PeerOf[c] = p
      BY <3>1 DEF TInv, TypeOK
    <3>3. c \in Threads
      BY DEF Threads
    <3> QED
      BY <3>1, <3>2, <3>3 DEF TInv, TypeOK, NoJob
  <2>3. ASSUME NEW t \in Threads, Unregister(t) PROVE ~alive'[conns[p]]
    <3>1. pc[t] = "purging" /\ alive' = alive
      BY <2>3 DEF Unregister
    <3>2. conns[p] = On(t)
      BY <2>3 DEF Unregister, TInv, TypeOK
    <3> QED
      BY <3>1, <3>2 DEF DeadFirst
  <2> QED
    BY <2>1, <2>2, <2>3
<1>2. IInv /\ DInv /\ DeadFirst /\ [Next]_vars => [Left]_vars
  BY <1>1
<1> HIDE DEF Left
<1>3. Spec => [][Left]_vars
  BY DevicesInductive, <1>2, PTL DEF Spec
<1> QED
  BY <1>3 DEF OnlyDeadUnregistered, Left

\* Readers, reapers and openers together are a PeerRegistry: however many of them tear
\* a connection down, each ends its own registration and never its successor's.
THEOREM RefinesRegistry == Spec => ImplementsRegistry
<1>1. Init => Enrolled /\ Registry!Init
  BY InitEnrolled
<1>2. IInv /\ DeadFirst /\ Enrolled /\ [Next]_vars => Enrolled' /\ [Registry!Next]_(Registry!vars)
  BY StepMoves, StepRegistry DEF IInv
<1> QED
  BY <1>1, <1>2, DevicesInductive, PTL DEF Spec, ImplementsRegistry, Registry!Spec
=============================================================================
