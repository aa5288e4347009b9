-------------------------- MODULE ReconnectProofs --------------------------
(***************************************************************************)
(* Proofs about Reconnect, for any number of connections, threads and      *)
(* media intents.                                                          *)
(***************************************************************************)
EXTENDS Reconnect, TLAPS

-----------------------------------------------------------------------------
(* The inductive invariant.                                                *)

\* Where a thread can be, and what its locals and its teardown hold there.
Roles ==
    /\ \A u \in Users : pc[u] # "connected" /\ list[u] = Zero
    /\ \A t \in Threads : /\ pc[t] = "open" => want[t] # None
                          /\ want[t] # None => pc[t] \in {"dial", "note", "open"}
                          /\ list[t] # Zero => pc[t] = "replay" \/ want[t] # None
                          /\ td[t] # None => pc[t] = "tearing"

\* A connection that is alive has its reader; one whose reader is still in its
\* loop has not been torn down by it.
Served ==
    /\ \A c \in Conns : alive[c] => c \in serving
    /\ \A c \in serving : td[c] = None

\* A reader tears down its own connection. A teardown runs on a dead connection, and
\* its list covers what is still open there when it closes it.
Tearing ==
    /\ \A c \in Conns : td[c] # None => td[c].conn = c
    /\ \A x \in Tearers : td[x] # None =>
          /\ ~alive[td[x].conn]
          /\ td[x].step = "snap" => td[x].mine = Zero
          /\ td[x].step = "close" => \A i \in Intents : live[td[x].conn][i] <= td[x].mine[i]

Inv == TypeOK /\ Roles /\ Served /\ Tearing /\ PlanIsArmed /\ InFlightIsHeld /\ LiveIsServed

-----------------------------------------------------------------------------
\* Counts stay counts when plans are merged.
LEMMA CountsOK ==
    /\ Zero \in Counts
    /\ \A f, g \in Counts : Merge(f, g) \in Counts
  BY BoundsOK DEF Zero, Counts, Merge

\* Typing and thread roles hold at the start.
LEMMA InitTyped == Init => TypeOK /\ Roles
  BY BoundsOK, KindsDistinct, CountsOK, SMTT(30) DEF Init, TypeOK, Roles, Tearers, Threads

\* Every step keeps the types and the roles of the threads.
LEMMA StepTyped == TypeOK /\ Roles /\ [Next]_vars => (TypeOK /\ Roles)'
<1> SUFFICES ASSUME TypeOK, Roles, [Next]_vars PROVE (TypeOK /\ Roles)'
  OBVIOUS
<1> USE BoundsOK, KindsDistinct, CountsOK
        DEF TypeOK, Roles, Entries, Teardowns, Goto, net, locals, Threads, Tearers
<1>1. ASSUME NEW u \in Users, UserConnect(u) PROVE (TypeOK /\ Roles)'
  BY <1>1 DEF UserConnect
<1>2. ASSUME NEW u \in Users, NEW i \in Intents, UserOpen(u, i) PROVE (TypeOK /\ Roles)'
  BY <1>2 DEF UserOpen
<1>3. ASSUME NEW u \in Users, UserDisconnect(u) PROVE (TypeOK /\ Roles)'
  BY <1>3 DEF UserDisconnect
<1>4. ASSUME NEW u \in Users, UserRetier(u) PROVE (TypeOK /\ Roles)'
  BY <1>4 DEF UserRetier, Connected
<1>5. ASSUME NEW c \in Conns, NEW i \in Intents, UserClose(c, i) PROVE (TypeOK /\ Roles)'
  BY <1>5 DEF UserClose, Counts
<1>6. ASSUME NEW c \in Conns, Inbound(c) PROVE (TypeOK /\ Roles)'
  BY <1>6 DEF Inbound, Registered
<1>7. ASSUME SetPolicy PROVE (TypeOK /\ Roles)'
  BY <1>7 DEF SetPolicy
<1>8. ASSUME NEW t \in Threads, DialFound(t) PROVE (TypeOK /\ Roles)'
  BY <1>8 DEF DialFound, Dialled
<1>9. ASSUME NEW t \in Threads, DialFails(t) PROVE (TypeOK /\ Roles)'
  BY <1>9 DEF DialFails, Resume
<1>10. ASSUME NEW t \in Threads, NEW c \in Conns, DialNew(t, c) PROVE (TypeOK /\ Roles)'
  BY <1>10, ZenonT(30) DEF DialNew, Dialled, Registered
<1>11. ASSUME NEW t \in Threads, Note(t) PROVE (TypeOK /\ Roles)'
  <2> DEFINE held == IF dialable /\ entry # None THEN entry.plan ELSE Zero
             next == IF want[t] # None THEN "open" ELSE "idle"
  <2>1. held \in Counts
    BY DEF Entries
  <2>2. /\ entry' \in Entries \cup {None}
        /\ UNCHANGED <<dialable, locked, net, live, want, attempts, td>>
    BY <1>11 DEF Note, Fresh, Entries
  <2>3. CASE UNCHANGED list /\ pc' = [pc EXCEPT ![t] = next]
    BY <1>11, <2>2, <2>3 DEF Note
  <2>4. ASSUME NEW r \in Retriers, pc[r] = "idle", list' = [list EXCEPT ![r] = held],
               pc' = [pc EXCEPT ![r] = "replay", ![t] = next]
        PROVE  (TypeOK /\ Roles)'
    <3> HIDE DEF held
    <3>1. pc[t] = "note" /\ r # t
      BY <1>11, <2>4 DEF Note
    <3> QED
      BY <2>1, <2>2, <2>4, <3>1
  <2> QED
    BY <1>11, <2>3, <2>4 DEF Note
<1>12. ASSUME NEW t \in Threads, Open(t) PROVE (TypeOK /\ Roles)'
  <2>1. want[t] \in Intents /\ current \in Conns
    BY <1>12 DEF Open, Connected
  <2>2. live' \in [Conns -> Counts]
    BY <1>12, <2>1 DEF Open, Counts
  <2>3. UNCHANGED <<dialable, locked, entry, net, list, attempts, td>>
    BY <1>12 DEF Open
  <2>4. /\ want' = [want EXCEPT ![t] = None]
        /\ pc' = [pc EXCEPT ![t] = IF t \in Users THEN "idle" ELSE "replay"]
        /\ pc[t] = "open"
    BY <1>12 DEF Open, Resume
  <2> QED
    BY <2>2, <2>3, <2>4
<1>13. ASSUME NEW t \in Threads, OpenFails(t) PROVE (TypeOK /\ Roles)'
  BY <1>13 DEF OpenFails, Resume
<1>14. ASSUME NEW t \in Threads, Check(t) PROVE (TypeOK /\ Roles)'
  BY <1>14 DEF Check
<1>15. ASSUME NEW t \in Threads, TakePlan(t) PROVE (TypeOK /\ Roles)'
  <2>1. CASE entry = None
    BY <1>15, <2>1 DEF TakePlan
  <2>2. CASE entry # None
    <3>1. entry \in Entries /\ entry.plan \in Counts
      BY <2>2
    <3>2. [entry EXCEPT !.armed = FALSE, !.plan = Zero] \in Entries
      BY <3>1
    <3> QED
      BY <1>15, <2>2, <3>1, <3>2 DEF TakePlan
  <2> QED
    BY <2>1, <2>2
<1>16. ASSUME NEW t \in Threads, Rearm(t) PROVE (TypeOK /\ Roles)'
  BY <1>16 DEF Rearm
<1>17. ASSUME NEW t \in Threads, NEW i \in Intents, Replay(t, i) PROVE (TypeOK /\ Roles)'
  <2>1. list[t] \in Counts /\ [list[t] EXCEPT ![i] = @ - 1] \in Counts
    BY <1>17 DEF Replay, Counts
  <2>2. t \notin Users
    BY <1>17 DEF Replay, Zero
  <2>3. /\ list' = [list EXCEPT ![t] = [list[t] EXCEPT ![i] = @ - 1]]
        /\ pc[t] = "replay"
        /\ \/ UNCHANGED <<pc, want>>
           \/ want' = [want EXCEPT ![t] = i] /\ pc' = [pc EXCEPT ![t] = "dial"]
        /\ UNCHANGED <<dialable, locked, entry, net, live, attempts, td>>
    BY <1>17 DEF Replay
  <2> QED
    BY <2>1, <2>2, <2>3
<1>18. ASSUME NEW t \in Threads, Replayed(t) PROVE (TypeOK /\ Roles)'
  BY <1>18 DEF Replayed
<1>19. ASSUME NEW t \in Threads, Finish(t) PROVE (TypeOK /\ Roles)'
  BY <1>19 DEF Finish
<1>20. ASSUME NEW t \in Threads, DropConn(t) PROVE (TypeOK /\ Roles)'
  <2>1. CASE current = None
    BY <1>20, <2>1 DEF DropConn
  <2>2. CASE current # None
    <3>1. [conn |-> current, step |-> "snap", mine |-> Zero] \in Teardowns
      BY <2>2
    <3>2. /\ td' = [td EXCEPT ![t] = [conn |-> current, step |-> "snap", mine |-> Zero]]
          /\ alive' = [alive EXCEPT ![current] = FALSE]
          /\ pc' = [pc EXCEPT ![t] = "tearing"] /\ pc[t] = "drop"
          /\ UNCHANGED <<locked, dialable, entry, current, serving, live, locals>>
      BY <1>20, <2>2 DEF DropConn
    <3> QED
      BY <3>1, <3>2
  <2> QED
    BY <2>1, <2>2
<1>21. ASSUME NEW t \in Retriers, Dispatch(t) PROVE (TypeOK /\ Roles)'
  BY <1>21, ZenonT(30) DEF Dispatch
<1>22. ASSUME NEW c \in Conns, ReaderExits(c) PROVE (TypeOK /\ Roles)'
  BY <1>22 DEF ReaderExits
<1>23. ASSUME NEW x \in Tearers, TearSnap(x) PROVE (TypeOK /\ Roles)'
  <2>1. td[x] \in Teardowns /\ live[td[x].conn] \in Counts
    BY <1>23 DEF TearSnap
  <2>2. [td[x] EXCEPT !.step = "close", !.mine = live[td[x].conn]] \in Teardowns
    BY <2>1
  <2> QED
    BY <1>23, <2>2 DEF TearSnap
<1>24. ASSUME NEW x \in Tearers, TearClose(x) PROVE (TypeOK /\ Roles)'
  BY <1>24 DEF TearClose
<1>25. ASSUME NEW x \in Tearers, TearUnregister(x) PROVE (TypeOK /\ Roles)'
  BY <1>25 DEF TearUnregister
<1>26. ASSUME NEW x \in Tearers, TearArm(x) PROVE (TypeOK /\ Roles)'
  <2>1. td[x] \in Teardowns /\ td[x].mine \in Counts
    BY <1>26 DEF TearArm
  <2>2. entry' \in Entries \cup {None}
    <3>1. ASSUME entry \in Entries PROVE [entry EXCEPT !.armed = TRUE, !.plan = Merge(@, td[x].mine)] \in Entries
      BY <2>1, <3>1
    <3> QED
      BY <1>26, <3>1 DEF TearArm, ArmIn
  <2>3. UNCHANGED <<dialable, locked, net, live, locals>>
    BY <1>26 DEF TearArm
  <2>4. /\ td' = [td EXCEPT ![x] = None]
        /\ \/ UNCHANGED pc
           \/ x \in Threads /\ pc' = [pc EXCEPT ![x] = IF x \in attempts THEN "finish" ELSE "idle"]
    BY <1>26 DEF TearArm
  <2>5. ReconFree /\ td[x] # None
    BY <1>26 DEF TearArm
  <2> QED
    BY <2>2, <2>3, <2>4, <2>5
<1>27. CASE UNCHANGED vars
  BY <1>27 DEF vars
<1> QED
  BY <1>1, <1>2, <1>3, <1>4, <1>5, <1>6, <1>7, <1>8, <1>9, <1>10, <1>11, <1>12, <1>13, <1>14,
     <1>15, <1>16, <1>17, <1>18, <1>19, <1>20, <1>21, <1>22, <1>23, <1>24, <1>25, <1>26, <1>27
     DEF Next, Request, Step, TearStep

-----------------------------------------------------------------------------
(* Teardowns and what they hold.                                           *)

\* The rest of the invariant holds at the start.
LEMMA InitServed == Init => Served /\ Tearing /\ PlanIsArmed /\ InFlightIsHeld /\ LiveIsServed
  BY BoundsOK, KindsDistinct, CountsOK
  DEF Init, Served, Tearing, PlanIsArmed, InFlightIsHeld, LiveIsServed, Tearers, Threads

\* A registration keeps readers and teardowns in order.
LEMMA RegisteredServes ==
    ASSUME TypeOK, Served, Tearing, NEW c \in Conns, Registered(c), UNCHANGED <<live, td>>
    PROVE  (Served /\ Tearing)'
<1> USE DEF TypeOK, Served, Tearing, Registered, Tearers
<1>1. \A x \in Tearers : td[x] # None => td[x] \in Teardowns /\ td[x].conn # c /\ td[x].conn \in Conns
  BY DEF Teardowns
<1>2. Served'
  BY <1>1
<1>3. \A x \in Tearers : td[x] # None => ~alive'[td[x].conn]
  BY <1>1
<1>4. Tearing'
  BY <1>3
<1> QED
  BY <1>2, <1>4

\* Every step keeps readers and teardowns in order.
LEMMA StepServed == TypeOK /\ TypeOK' /\ Roles /\ Served /\ Tearing /\ [Next]_vars => (Served /\ Tearing)'
<1> SUFFICES ASSUME TypeOK, TypeOK', Roles, Served, Tearing, [Next]_vars PROVE (Served /\ Tearing)'
  OBVIOUS
<1> USE BoundsOK, KindsDistinct, CountsOK
        DEF TypeOK, Served, Tearing, Goto, net, locals, Threads, Tearers
<1>1. ASSUME NEW u \in Users, UserConnect(u) PROVE (Served /\ Tearing)'
  BY <1>1 DEF UserConnect
<1>2. ASSUME NEW u \in Users, NEW i \in Intents, UserOpen(u, i) PROVE (Served /\ Tearing)'
  BY <1>2 DEF UserOpen
<1>3. ASSUME NEW u \in Users, UserDisconnect(u) PROVE (Served /\ Tearing)'
  BY <1>3 DEF UserDisconnect
<1>4. ASSUME NEW u \in Users, UserRetier(u) PROVE (Served /\ Tearing)'
  BY <1>4 DEF UserRetier, Connected
<1>5. ASSUME NEW c \in Conns, NEW i \in Intents, UserClose(c, i) PROVE (Served /\ Tearing)'
  <2>1. \A k \in Conns, j \in Intents : live'[k][j] <= live[k][j]
    BY <1>5 DEF UserClose, Counts
  <2>2. UNCHANGED <<net, td>>
    BY <1>5 DEF UserClose
  <2>3. ASSUME NEW x \in Tearers, td[x] # None, td[x].step = "close", NEW j \in Intents
        PROVE  live'[td[x].conn][j] <= td[x].mine[j]
    <3>1. td[x].conn \in Conns /\ td[x].mine[j] \in Nat
      BY <2>3 DEF Teardowns, Counts
    <3>2. live'[td[x].conn][j] \in Nat /\ live[td[x].conn][j] \in Nat
      BY <3>1 DEF Counts
    <3> QED
      BY <2>1, <2>3, <3>1, <3>2
  <2> QED
    BY <2>2, <2>3
<1>6. ASSUME NEW c \in Conns, Inbound(c) PROVE (Served /\ Tearing)'
  BY <1>6, RegisteredServes DEF Inbound
<1>7. ASSUME SetPolicy PROVE (Served /\ Tearing)'
  BY <1>7 DEF SetPolicy
<1>8. ASSUME NEW t \in Threads, DialFound(t) PROVE (Served /\ Tearing)'
  BY <1>8 DEF DialFound, Dialled
<1>9. ASSUME NEW t \in Threads, DialFails(t) PROVE (Served /\ Tearing)'
  BY <1>9 DEF DialFails, Resume
<1>10. ASSUME NEW t \in Threads, NEW c \in Conns, DialNew(t, c) PROVE (Served /\ Tearing)'
  BY <1>10, RegisteredServes DEF DialNew, Dialled
<1>11. ASSUME NEW t \in Threads, Note(t) PROVE (Served /\ Tearing)'
  BY <1>11 DEF Note
<1>12. ASSUME NEW t \in Threads, Open(t) PROVE (Served /\ Tearing)'
  BY <1>12 DEF Open, Resume, Connected
<1>13. ASSUME NEW t \in Threads, OpenFails(t) PROVE (Served /\ Tearing)'
  BY <1>13 DEF OpenFails, Resume
<1>14. ASSUME NEW t \in Threads, Check(t) PROVE (Served /\ Tearing)'
  BY <1>14 DEF Check
<1>15. ASSUME NEW t \in Threads, TakePlan(t) PROVE (Served /\ Tearing)'
  BY <1>15 DEF TakePlan
<1>16. ASSUME NEW t \in Threads, Rearm(t) PROVE (Served /\ Tearing)'
  BY <1>16 DEF Rearm
<1>17. ASSUME NEW t \in Threads, NEW i \in Intents, Replay(t, i) PROVE (Served /\ Tearing)'
  BY <1>17 DEF Replay, Counts
<1>18. ASSUME NEW t \in Threads, Replayed(t) PROVE (Served /\ Tearing)'
  BY <1>18 DEF Replayed
<1>19. ASSUME NEW t \in Threads, Finish(t) PROVE (Served /\ Tearing)'
  BY <1>19 DEF Finish
<1>20. ASSUME NEW t \in Threads, DropConn(t) PROVE (Served /\ Tearing)'
  <2>1. CASE current = None
    BY <1>20, <2>1 DEF DropConn
  <2>2. CASE current # None
    <3>1. /\ td' = [td EXCEPT ![t] = [conn |-> current, step |-> "snap", mine |-> Zero]]
          /\ alive' = [alive EXCEPT ![current] = FALSE]
          /\ UNCHANGED <<serving, live>>
      BY <1>20, <2>2 DEF DropConn
    <3>2. current \in Conns /\ t \notin Conns
      BY <2>2
    <3>3. Served'
      BY <3>1, <3>2
    <3>4. \A x \in Tearers : td[x] # None => td[x].conn \in Conns
      BY DEF Teardowns
    <3>5. Tearing'
      BY <3>1, <3>2, <3>4
    <3> QED
      BY <3>3, <3>5
  <2> QED
    BY <2>1, <2>2
<1>21. ASSUME NEW t \in Retriers, Dispatch(t) PROVE (Served /\ Tearing)'
  BY <1>21 DEF Dispatch
<1>22. ASSUME NEW c \in Conns, ReaderExits(c) PROVE (Served /\ Tearing)'
  BY <1>22 DEF ReaderExits
<1>23. ASSUME NEW x \in Tearers, TearSnap(x) PROVE (Served /\ Tearing)'
  <2> DEFINE c == td[x].conn
  <2>1. td[x] \in Teardowns /\ c \in Conns /\ UNCHANGED <<net, live>>
    BY <1>23 DEF TearSnap, Teardowns
  <2>2. td' = [td EXCEPT ![x] = [td[x] EXCEPT !.step = "close", !.mine = live[c]]]
    BY <1>23 DEF TearSnap
  <2>3. /\ td'[x].conn = c /\ td'[x].step = "close" /\ td'[x].mine = live[c]
        /\ td[x] # None /\ x \notin serving
        /\ \A y \in Tearers \ {x} : td'[y] = td[y]
    BY <1>23, <2>1, <2>2 DEF TearSnap, Teardowns
  <2>4. \A j \in Intents : live[c][j] <= live[c][j]
    BY <2>1 DEF Counts
  <2> HIDE DEF c
  <2>5. Served'
    BY <2>1, <2>3
  <2>6. td[x].conn = c
    BY DEF c
  <2>7. Tearing'
    BY <2>1, <2>3, <2>4, <2>6
  <2> QED
    BY <2>5, <2>7
<1>24. ASSUME NEW x \in Tearers, TearClose(x) PROVE (Served /\ Tearing)'
  <2> DEFINE c == td[x].conn
  <2>1. /\ td[x] \in Teardowns /\ c \in Conns /\ UNCHANGED net
        /\ live' = [live EXCEPT ![c] = Zero]
        /\ td' = [td EXCEPT ![x] = [td[x] EXCEPT !.step = "unreg"]]
    BY <1>24 DEF TearClose, Teardowns
  <2>2. /\ td'[x].conn = c /\ td'[x].step = "unreg" /\ td[x] # None
        /\ \A y \in Tearers \ {x} : td'[y] = td[y]
    BY <1>24, <2>1 DEF TearClose, Teardowns
  <2>3. \A k \in Conns, j \in Intents : live'[k][j] = live[k][j] \/ live'[k][j] = 0
    BY <2>1 DEF Zero
  <2>4. ASSUME NEW y \in Tearers \ {x}, td[y] # None, td[y].step = "close", NEW j \in Intents
        PROVE  live'[td[y].conn][j] <= td[y].mine[j]
    <3>1. td[y].conn \in Conns /\ td[y].mine[j] \in Nat
      BY <2>4 DEF Teardowns, Counts
    <3> QED
      BY <2>3, <2>4, <3>1
  <2>5. td[x].conn = c
    OBVIOUS
  <2> HIDE DEF c
  <2>6. Served'
    BY <2>1, <2>2
  <2>7. Tearing'
    BY <2>1, <2>2, <2>4, <2>5
  <2> QED
    BY <2>6, <2>7
<1>25. ASSUME NEW x \in Tearers, TearUnregister(x) PROVE (Served /\ Tearing)'
  BY <1>25 DEF TearUnregister
<1>26. ASSUME NEW x \in Tearers, TearArm(x) PROVE (Served /\ Tearing)'
  BY <1>26 DEF TearArm, ArmIn
<1>27. CASE UNCHANGED vars
  BY <1>27 DEF vars
<1> QED
  BY <1>1, <1>2, <1>3, <1>4, <1>5, <1>6, <1>7, <1>8, <1>9, <1>10, <1>11, <1>12, <1>13, <1>14,
     <1>15, <1>16, <1>17, <1>18, <1>19, <1>20, <1>21, <1>22, <1>23, <1>24, <1>25, <1>26, <1>27
     DEF Next, Request, Step, TearStep

\* Every step leaves sessions only where somebody will hand them over.
LEMMA StepLive == TypeOK /\ Served /\ Tearing /\ LiveIsServed /\ [Next]_vars => LiveIsServed'
<1> SUFFICES ASSUME TypeOK, Served, Tearing, LiveIsServed, [Next]_vars PROVE LiveIsServed'
  OBVIOUS
<1> USE BoundsOK, KindsDistinct, CountsOK
        DEF TypeOK, LiveIsServed, Goto, net, locals, Threads, Tearers
<1>1. ASSUME NEW u \in Users, UserConnect(u) PROVE LiveIsServed'
  BY <1>1 DEF UserConnect
<1>2. ASSUME NEW u \in Users, NEW i \in Intents, UserOpen(u, i) PROVE LiveIsServed'
  BY <1>2 DEF UserOpen
<1>3. ASSUME NEW u \in Users, UserDisconnect(u) PROVE LiveIsServed'
  BY <1>3 DEF UserDisconnect
<1>4. ASSUME NEW u \in Users, UserRetier(u) PROVE LiveIsServed'
  BY <1>4 DEF UserRetier, Connected
<1>5. ASSUME NEW c \in Conns, NEW i \in Intents, UserClose(c, i) PROVE LiveIsServed'
  <2>1. live[c] # Zero
    BY <1>5 DEF UserClose, Zero
  <2>2. \A k \in Conns : live'[k] # Zero => live[k] # Zero
    BY <1>5, <2>1 DEF UserClose
  <2> QED
    BY <1>5, <2>2 DEF UserClose
<1>6. ASSUME NEW c \in Conns, Inbound(c) PROVE LiveIsServed'
  BY <1>6 DEF Inbound, Registered
<1>7. ASSUME SetPolicy PROVE LiveIsServed'
  BY <1>7 DEF SetPolicy
<1>8. ASSUME NEW t \in Threads, DialFound(t) PROVE LiveIsServed'
  BY <1>8 DEF DialFound, Dialled
<1>9. ASSUME NEW t \in Threads, DialFails(t) PROVE LiveIsServed'
  BY <1>9 DEF DialFails, Resume
<1>10. ASSUME NEW t \in Threads, NEW c \in Conns, DialNew(t, c) PROVE LiveIsServed'
  BY <1>10 DEF DialNew, Dialled, Registered
<1>11. ASSUME NEW t \in Threads, Note(t) PROVE LiveIsServed'
  BY <1>11 DEF Note
<1>12. ASSUME NEW t \in Threads, Open(t) PROVE LiveIsServed'
  <2>1. current \in serving /\ UNCHANGED <<net, td>>
    BY <1>12 DEF Open, Connected, Served
  <2>2. \A k \in Conns \ {current} : live'[k] = live[k]
    BY <1>12 DEF Open
  <2> QED
    BY <2>1, <2>2
<1>13. ASSUME NEW t \in Threads, OpenFails(t) PROVE LiveIsServed'
  BY <1>13 DEF OpenFails, Resume
<1>14. ASSUME NEW t \in Threads, Check(t) PROVE LiveIsServed'
  BY <1>14 DEF Check
<1>15. ASSUME NEW t \in Threads, TakePlan(t) PROVE LiveIsServed'
  BY <1>15 DEF TakePlan
<1>16. ASSUME NEW t \in Threads, Rearm(t) PROVE LiveIsServed'
  BY <1>16 DEF Rearm
<1>17. ASSUME NEW t \in Threads, NEW i \in Intents, Replay(t, i) PROVE LiveIsServed'
  BY <1>17 DEF Replay, Counts
<1>18. ASSUME NEW t \in Threads, Replayed(t) PROVE LiveIsServed'
  BY <1>18 DEF Replayed
<1>19. ASSUME NEW t \in Threads, Finish(t) PROVE LiveIsServed'
  BY <1>19 DEF Finish
<1>20. ASSUME NEW t \in Threads, DropConn(t) PROVE LiveIsServed'
  BY <1>20 DEF DropConn
<1>21. ASSUME NEW t \in Retriers, Dispatch(t) PROVE LiveIsServed'
  BY <1>21 DEF Dispatch
<1>22. ASSUME NEW c \in Conns, ReaderExits(c) PROVE LiveIsServed'
  <2>1. /\ serving' = serving \ {c} /\ UNCHANGED live
        /\ td'[c] = [conn |-> c, step |-> "snap", mine |-> Zero]
        /\ \A y \in Tearers \ {c} : td'[y] = td[y]
    BY <1>22 DEF ReaderExits
  <2>2. [conn |-> c, step |-> "snap", mine |-> Zero] \in Teardowns
    BY DEF Teardowns
  <2> QED
    BY <2>1, <2>2
<1>23. ASSUME NEW x \in Tearers, TearSnap(x) PROVE LiveIsServed'
  <2>1. UNCHANGED <<net, live>> /\ td[x] \in Teardowns
    BY <1>23 DEF TearSnap
  <2>5. td' = [td EXCEPT ![x] = [td[x] EXCEPT !.step = "close", !.mine = live[td[x].conn]]]
    BY <1>23 DEF TearSnap
  <2>2. td[x].conn \in Conns /\ live[td[x].conn] \in Counts
    BY <2>1 DEF Teardowns
  <2>3. td'[x] \in Teardowns /\ td'[x].step = "close"
    BY <2>1, <2>2, <2>5 DEF Teardowns
  <2>4. \A y \in Tearers \ {x} : td'[y] = td[y]
    BY <2>5
  <2> QED
    BY <2>1, <2>3, <2>4
<1>24. ASSUME NEW x \in Tearers, TearClose(x) PROVE LiveIsServed'
  <2> DEFINE k == td[x].conn
  <2>1. /\ UNCHANGED net /\ td[x] \in Teardowns /\ k \in Conns
        /\ live' = [live EXCEPT ![k] = Zero]
        /\ td' = [td EXCEPT ![x] = [td[x] EXCEPT !.step = "unreg"]]
    BY <1>24 DEF TearClose, Teardowns
  <2>2. /\ live'[k] = Zero /\ \A c \in Conns \ {k} : live'[c] = live[c]
        /\ \A y \in Tearers \ {x} : td'[y] = td[y]
    BY <2>1
  <2>3. \A c \in Conns \ {k} : td'[c] = td[c]
    BY <1>24, <2>2 DEF Tearing, TearClose
  <2> HIDE DEF k
  <2> QED
    BY <2>1, <2>2, <2>3
<1>25. ASSUME NEW x \in Tearers, TearUnregister(x) PROVE LiveIsServed'
  BY <1>25 DEF TearUnregister
<1>26. ASSUME NEW x \in Tearers, TearArm(x) PROVE LiveIsServed'
  BY <1>26 DEF TearArm, ArmIn
<1>27. CASE UNCHANGED vars
  BY <1>27 DEF vars
<1> QED
  BY <1>1, <1>2, <1>3, <1>4, <1>5, <1>6, <1>7, <1>8, <1>9, <1>10, <1>11, <1>12, <1>13, <1>14,
     <1>15, <1>16, <1>17, <1>18, <1>19, <1>20, <1>21, <1>22, <1>23, <1>24, <1>25, <1>26, <1>27
     DEF Next, Request, Step, TearStep

-----------------------------------------------------------------------------
(* The two facts about the entry alone.                                    *)

\* Every step keeps a stored plan armed and in_flight held by an attempt.
LEMMA StepPlan == TypeOK /\ TypeOK' /\ PlanIsArmed /\ InFlightIsHeld /\ [Next]_vars => (PlanIsArmed /\ InFlightIsHeld)'
<1> SUFFICES ASSUME TypeOK, TypeOK', PlanIsArmed, InFlightIsHeld, [Next]_vars PROVE (PlanIsArmed /\ InFlightIsHeld)'
  OBVIOUS
<1> USE BoundsOK, KindsDistinct, CountsOK
        DEF TypeOK, PlanIsArmed, InFlightIsHeld, Entries, Fresh, Goto, net, locals, Threads, Tearers
<1>1. ASSUME NEW u \in Users, UserConnect(u) PROVE (PlanIsArmed /\ InFlightIsHeld)'
  BY <1>1 DEF UserConnect
<1>2. ASSUME NEW u \in Users, NEW i \in Intents, UserOpen(u, i) PROVE (PlanIsArmed /\ InFlightIsHeld)'
  BY <1>2 DEF UserOpen
<1>3. ASSUME NEW u \in Users, UserDisconnect(u) PROVE (PlanIsArmed /\ InFlightIsHeld)'
  BY <1>3 DEF UserDisconnect
<1>4. ASSUME NEW u \in Users, UserRetier(u) PROVE (PlanIsArmed /\ InFlightIsHeld)'
  BY <1>4 DEF UserRetier, Connected
<1>5. ASSUME NEW c \in Conns, NEW i \in Intents, UserClose(c, i) PROVE (PlanIsArmed /\ InFlightIsHeld)'
  BY <1>5 DEF UserClose, Counts
<1>6. ASSUME NEW c \in Conns, Inbound(c) PROVE (PlanIsArmed /\ InFlightIsHeld)'
  BY <1>6 DEF Inbound, Registered
<1>7. ASSUME SetPolicy PROVE (PlanIsArmed /\ InFlightIsHeld)'
  BY <1>7 DEF SetPolicy
<1>8. ASSUME NEW t \in Threads, DialFound(t) PROVE (PlanIsArmed /\ InFlightIsHeld)'
  BY <1>8 DEF DialFound, Dialled
<1>9. ASSUME NEW t \in Threads, DialFails(t) PROVE (PlanIsArmed /\ InFlightIsHeld)'
  BY <1>9 DEF DialFails, Resume
<1>10. ASSUME NEW t \in Threads, NEW c \in Conns, DialNew(t, c) PROVE (PlanIsArmed /\ InFlightIsHeld)'
  BY <1>10 DEF DialNew, Dialled, Registered
<1>11. ASSUME NEW t \in Threads, Note(t) PROVE (PlanIsArmed /\ InFlightIsHeld)'
  BY <1>11 DEF Note
<1>12. ASSUME NEW t \in Threads, Open(t) PROVE (PlanIsArmed /\ InFlightIsHeld)'
  BY <1>12 DEF Open, Resume, Connected
<1>13. ASSUME NEW t \in Threads, OpenFails(t) PROVE (PlanIsArmed /\ InFlightIsHeld)'
  BY <1>13 DEF OpenFails, Resume
<1>14. ASSUME NEW t \in Threads, Check(t) PROVE (PlanIsArmed /\ InFlightIsHeld)'
  BY <1>14 DEF Check
<1>15. ASSUME NEW t \in Threads, TakePlan(t) PROVE (PlanIsArmed /\ InFlightIsHeld)'
  <2>1. CASE entry = None
    BY <1>15, <2>1 DEF TakePlan
  <2>2. CASE entry # None
    <3>1. entry' = [entry EXCEPT !.armed = FALSE, !.plan = Zero] /\ UNCHANGED attempts
      BY <1>15, <2>2 DEF TakePlan
    <3>2. entry'.plan = Zero /\ entry'.inFlight = entry.inFlight
      BY <2>2, <3>1
    <3> QED
      BY <2>2, <3>1, <3>2
  <2> QED
    BY <2>1, <2>2
<1>16. ASSUME NEW t \in Threads, Rearm(t) PROVE (PlanIsArmed /\ InFlightIsHeld)'
  BY <1>16 DEF Rearm
<1>17. ASSUME NEW t \in Threads, NEW i \in Intents, Replay(t, i) PROVE (PlanIsArmed /\ InFlightIsHeld)'
  BY <1>17 DEF Replay, Counts
<1>18. ASSUME NEW t \in Threads, Replayed(t) PROVE (PlanIsArmed /\ InFlightIsHeld)'
  BY <1>18 DEF Replayed
<1>19. ASSUME NEW t \in Threads, Finish(t) PROVE (PlanIsArmed /\ InFlightIsHeld)'
  BY <1>19 DEF Finish
<1>20. ASSUME NEW t \in Threads, DropConn(t) PROVE (PlanIsArmed /\ InFlightIsHeld)'
  BY <1>20 DEF DropConn
<1>21. ASSUME NEW t \in Retriers, Dispatch(t) PROVE (PlanIsArmed /\ InFlightIsHeld)'
  BY <1>21 DEF Dispatch
<1>22. ASSUME NEW c \in Conns, ReaderExits(c) PROVE (PlanIsArmed /\ InFlightIsHeld)'
  BY <1>22 DEF ReaderExits
<1>23. ASSUME NEW x \in Tearers, TearSnap(x) PROVE (PlanIsArmed /\ InFlightIsHeld)'
  BY <1>23 DEF TearSnap
<1>24. ASSUME NEW x \in Tearers, TearClose(x) PROVE (PlanIsArmed /\ InFlightIsHeld)'
  BY <1>24 DEF TearClose
<1>25. ASSUME NEW x \in Tearers, TearUnregister(x) PROVE (PlanIsArmed /\ InFlightIsHeld)'
  BY <1>25 DEF TearUnregister
<1>26. ASSUME NEW x \in Tearers, TearArm(x) PROVE (PlanIsArmed /\ InFlightIsHeld)'
  BY <1>26 DEF TearArm, ArmIn
<1>27. CASE UNCHANGED vars
  BY <1>27 DEF vars
<1> QED
  BY <1>1, <1>2, <1>3, <1>4, <1>5, <1>6, <1>7, <1>8, <1>9, <1>10, <1>11, <1>12, <1>13, <1>14,
     <1>15, <1>16, <1>17, <1>18, <1>19, <1>20, <1>21, <1>22, <1>23, <1>24, <1>25, <1>26, <1>27
     DEF Next, Request, Step, TearStep

-----------------------------------------------------------------------------
(* No step loses what is owed.                                             *)

\* Whatever step is taken, an intent that is live or owed stays so or is given up.
LEMMA StepConserves ==
    ASSUME Inv, Inv', [Next]_vars, NEW j \in Intents, Kept(j)
    PROVE  Kept(j)' \/ GivenUp(j)
<1> USE BoundsOK, KindsDistinct
        DEF Kept, IsLive, IsOwed, GivenUp, Goto, net, locals, Threads, Tearers
<1>1. ASSUME NEW u \in Users, UserConnect(u) PROVE Kept(j)' \/ GivenUp(j)
  BY <1>1 DEF UserConnect
<1>2. ASSUME NEW u \in Users, NEW i \in Intents, UserOpen(u, i) PROVE Kept(j)' \/ GivenUp(j)
  <2>1. want[u] = None
    BY <1>2 DEF UserOpen, Inv, Roles
  <2> QED
    BY <1>2, <2>1 DEF UserOpen, Inv, TypeOK
<1>3. ASSUME NEW u \in Users, UserDisconnect(u) PROVE Kept(j)' \/ GivenUp(j)
  BY <1>3 DEF UserDisconnect
<1>4. ASSUME NEW u \in Users, UserRetier(u) PROVE Kept(j)' \/ GivenUp(j)
  BY <1>4 DEF UserRetier, Connected
<1>5. ASSUME NEW c \in Conns, NEW i \in Intents, UserClose(c, i) PROVE Kept(j)' \/ GivenUp(j)
  <2>1. CASE i = j
    <3>1. live[c][i] \in Nat
      BY DEF Inv, TypeOK, Counts
    <3>2. live'[c][i] < live[c][i] /\ UNCHANGED <<entry, td>>
      BY <1>5, <3>1 DEF UserClose, Inv, TypeOK, Counts
    <3> QED
      BY <2>1, <3>2
  <2>2. CASE i # j
    <3>1. \A k \in Conns : live'[k][j] = live[k][j]
      BY <1>5, <2>2 DEF UserClose, Inv, TypeOK, Counts
    <3> QED
      BY <1>5, <3>1 DEF UserClose
  <2> QED
    BY <2>1, <2>2
<1>6. ASSUME NEW c \in Conns, Inbound(c) PROVE Kept(j)' \/ GivenUp(j)
  BY <1>6 DEF Inbound, Registered
<1>7. ASSUME SetPolicy PROVE Kept(j)' \/ GivenUp(j)
  BY <1>7 DEF SetPolicy
<1>8. ASSUME NEW t \in Threads, DialFound(t) PROVE Kept(j)' \/ GivenUp(j)
  BY <1>8 DEF DialFound, Dialled
<1>9. ASSUME NEW t \in Threads, DialFails(t) PROVE Kept(j)' \/ GivenUp(j)
  BY <1>9 DEF DialFails, Resume, Inv, TypeOK
<1>10. ASSUME NEW t \in Threads, NEW c \in Conns, DialNew(t, c) PROVE Kept(j)' \/ GivenUp(j)
  BY <1>10 DEF DialNew, Dialled, Registered
<1>11. ASSUME NEW t \in Threads, Note(t) PROVE Kept(j)' \/ GivenUp(j)
  <2> DEFINE held == IF dialable /\ entry # None THEN entry.plan ELSE Zero
  <2> DEFINE next == IF want[t] # None THEN "open" ELSE "idle"
  <2>1. CASE NoSpareThread
    <3>1. pc[t] = "note" /\ next # "note"
      BY <1>11 DEF Note
    <3>2. \/ pc' = [pc EXCEPT ![t] = next]
          \/ \E r \in Retriers : pc[r] = "idle" /\ pc' = [pc EXCEPT ![r] = "replay", ![t] = next]
      BY <1>11 DEF Note
    <3> HIDE DEF next
    <3>3. pc'[t] # "note"
      BY <3>1, <3>2 DEF Inv, TypeOK
    <3> QED
      BY <2>1, <3>1, <3>3
  <2>2. ASSUME NEW r \in Retriers, pc[r] = "idle", list' = [list EXCEPT ![r] = held]
        PROVE  Kept(j)'
    <3>1. list[r] = Zero
      BY <2>2 DEF Inv, Roles
    <3>2. list[r][j] = 0
      BY <3>1 DEF Zero
    <3>3. \A k \in Threads : list[k][j] > 0 => list'[k][j] > 0
      BY <2>2, <3>2 DEF Inv, TypeOK
    <3>4. CASE entry # None /\ entry.plan[j] > 0 /\ dialable
      BY <2>2, <3>4 DEF Inv, TypeOK
    <3>5. CASE entry # None /\ entry.plan[j] > 0 /\ ~dialable
      BY <1>11, <3>5 DEF Note
    <3>6. CASE ~(entry # None /\ entry.plan[j] > 0)
      BY <1>11, <3>3, <3>6 DEF Note
    <3> QED
      BY <3>4, <3>5, <3>6
  <2>3. CASE held = Zero /\ UNCHANGED list
    <3>1. entry # None /\ entry.plan[j] > 0 => ~dialable
      BY <2>3 DEF Zero
    <3> QED
      BY <1>11, <2>3, <3>1 DEF Note
  <2> QED
    BY <1>11, <2>1, <2>2, <2>3 DEF Note
<1>12. ASSUME NEW t \in Threads, Open(t) PROVE Kept(j)' \/ GivenUp(j)
  BY <1>12 DEF Open, Resume, Connected, Inv, TypeOK, Counts
<1>13. ASSUME NEW t \in Threads, OpenFails(t) PROVE Kept(j)' \/ GivenUp(j)
  BY <1>13 DEF OpenFails, Resume, Inv, TypeOK
<1>14. ASSUME NEW t \in Threads, Check(t) PROVE Kept(j)' \/ GivenUp(j)
  BY <1>14 DEF Check
<1>15. ASSUME NEW t \in Threads, TakePlan(t) PROVE Kept(j)' \/ GivenUp(j)
  <2>1. CASE entry = None
    BY <1>15, <2>1 DEF TakePlan
  <2>2. CASE entry # None
    <3>1. list[t] = Zero
      BY <1>15 DEF TakePlan, Inv, Roles
    <3>2. list[t][j] = 0
      BY <3>1 DEF Zero
    <3>3. list' = [list EXCEPT ![t] = entry.plan]
      BY <1>15, <2>2 DEF TakePlan
    <3>4. \A k \in Threads : list[k][j] > 0 => list'[k][j] > 0
      BY <3>2, <3>3 DEF Inv, TypeOK
    <3>5. entry.plan[j] > 0 => list'[t][j] > 0
      BY <3>3 DEF Inv, TypeOK
    <3>6. UNCHANGED <<live, want, td>>
      BY <1>15 DEF TakePlan
    <3> QED
      BY <3>4, <3>5, <3>6
  <2> QED
    BY <2>1, <2>2
<1>16. ASSUME NEW t \in Threads, Rearm(t) PROVE Kept(j)' \/ GivenUp(j)
  BY <1>16 DEF Rearm
<1>17. ASSUME NEW t \in Threads, NEW i \in Intents, Replay(t, i) PROVE Kept(j)' \/ GivenUp(j)
  <2>1. list[t][i] \in Nat /\ pc[t] = "replay" /\ UNCHANGED <<live, entry, td>>
    BY <1>17 DEF Replay, Inv, TypeOK, Counts
  <2>2. want[t] = None
    BY <2>1 DEF Inv, Roles
  <2>3. \A k \in Threads : want[k] = j => want'[k] = j
    BY <1>17, <2>2 DEF Replay, Inv, TypeOK
  <2>4. CASE i = j
    <3>1. list'[t][j] < list[t][j]
      BY <1>17, <2>1, <2>4 DEF Replay, Inv, TypeOK, Counts
    <3> QED
      BY <2>1, <3>1
  <2>5. CASE i # j
    <3>1. \A k \in Threads : list'[k][j] = list[k][j]
      BY <1>17, <2>5 DEF Replay, Inv, TypeOK, Counts
    <3> QED
      BY <2>1, <2>3, <3>1
  <2> QED
    BY <2>4, <2>5
<1>18. ASSUME NEW t \in Threads, Replayed(t) PROVE Kept(j)' \/ GivenUp(j)
  BY <1>18 DEF Replayed
<1>19. ASSUME NEW t \in Threads, Finish(t) PROVE Kept(j)' \/ GivenUp(j)
  BY <1>19 DEF Finish
<1>20. ASSUME NEW t \in Threads, DropConn(t) PROVE Kept(j)' \/ GivenUp(j)
  <2>1. td[t] = None
    BY <1>20 DEF DropConn, Inv, Roles
  <2>2. \A x \in Tearers : td[x] # None => td'[x] = td[x]
    BY <1>20, <2>1 DEF DropConn, Inv, TypeOK
  <2>3. UNCHANGED <<entry, live, list, want>>
    BY <1>20 DEF DropConn
  <2> QED
    BY <2>2, <2>3
<1>21. ASSUME NEW t \in Retriers, Dispatch(t) PROVE Kept(j)' \/ GivenUp(j)
  BY <1>21 DEF Dispatch
<1>22. ASSUME NEW c \in Conns, ReaderExits(c) PROVE Kept(j)' \/ GivenUp(j)
  <2>1. td[c] = None
    BY <1>22 DEF ReaderExits, Inv, Served
  <2>2. \A x \in Tearers : td[x] # None => td'[x] = td[x]
    BY <1>22, <2>1 DEF ReaderExits, Inv, TypeOK
  <2>3. UNCHANGED <<entry, live, list, want>>
    BY <1>22 DEF ReaderExits
  <2> QED
    BY <2>2, <2>3
<1>23. ASSUME NEW x \in Tearers, TearSnap(x) PROVE Kept(j)' \/ GivenUp(j)
  <2>1. td[x].mine = Zero /\ td[x] # None
    BY <1>23 DEF TearSnap, Inv, Tearing
  <2>2. td[x].mine[j] = 0
    BY <2>1 DEF Zero
  <2>3. \A y \in Tearers : td[y] # None /\ td[y].mine[j] > 0 => td'[y] = td[y]
    BY <1>23, <2>2 DEF TearSnap, Inv, TypeOK
  <2>4. UNCHANGED <<entry, live, list, want>>
    BY <1>23 DEF TearSnap
  <2> QED
    BY <2>3, <2>4
<1>24. ASSUME NEW x \in Tearers, TearClose(x) PROVE Kept(j)' \/ GivenUp(j)
  <2> DEFINE k == td[x].conn
  <2>1. td[x] # None /\ td[x].step = "close" /\ td[x] \in Teardowns /\ k \in Conns
    BY <1>24 DEF TearClose, Inv, TypeOK, Teardowns
  <2>2. live[k][j] <= td[x].mine[j] /\ live[k][j] \in Nat /\ td[x].mine[j] \in Nat
    BY <2>1 DEF Inv, TypeOK, Tearing, Teardowns, Counts
  <2>3. /\ live' = [live EXCEPT ![k] = Zero]
        /\ td' = [td EXCEPT ![x] = [td[x] EXCEPT !.step = "unreg"]]
        /\ UNCHANGED <<entry, list, want>>
    BY <1>24 DEF TearClose
  <2>4. td'[x] # None /\ td'[x].mine = td[x].mine
    BY <2>1, <2>3 DEF Inv, TypeOK, Teardowns
  <2>5. \A y \in Tearers \ {x} : td'[y] = td[y]
    BY <2>3 DEF Inv, TypeOK
  <2>6. \A c \in Conns : live[c][j] > 0 => live'[c][j] > 0 \/ td[x].mine[j] > 0
    BY <2>2, <2>3 DEF Inv, TypeOK
  <2> HIDE DEF k
  <2> QED
    BY <2>3, <2>4, <2>5, <2>6
<1>25. ASSUME NEW x \in Tearers, TearUnregister(x) PROVE Kept(j)' \/ GivenUp(j)
  <2>1. /\ td[x] # None /\ td[x] \in Teardowns
        /\ td' = [td EXCEPT ![x] = [td[x] EXCEPT !.step = "arm"]]
        /\ UNCHANGED <<entry, live, list, want>>
    BY <1>25 DEF TearUnregister, Inv, TypeOK
  <2>2. td'[x] # None /\ td'[x].mine = td[x].mine
    BY <2>1 DEF Inv, TypeOK, Teardowns
  <2>3. \A y \in Tearers \ {x} : td'[y] = td[y]
    BY <2>1 DEF Inv, TypeOK
  <2> QED
    BY <2>1, <2>2, <2>3
<1>26. ASSUME NEW x \in Tearers, TearArm(x) PROVE Kept(j)' \/ GivenUp(j)
  <2>1. CASE entry' = None
    <3>1. td[x] # None /\ td' = [td EXCEPT ![x] = None]
      BY <1>26 DEF TearArm
    <3>2. td'[x] # td[x]
      BY <3>1 DEF Inv, TypeOK
    <3> QED
      BY <2>1, <3>2
  <2>2. CASE entry' # None
    <3>1. /\ td[x] # None /\ td[x].mine \in Counts /\ entry # None /\ entry.plan \in Counts
          /\ entry' = [entry EXCEPT !.armed = TRUE, !.plan = Merge(@, td[x].mine)]
          /\ td' = [td EXCEPT ![x] = None]
          /\ UNCHANGED <<live, list, want>>
      BY <1>26, <2>2 DEF TearArm, ArmIn, Inv, TypeOK, Teardowns, Entries
    <3>2. entry'.plan = Merge(entry.plan, td[x].mine)
      BY <3>1 DEF Inv, TypeOK, Entries
    <3>3. entry.plan[j] > 0 \/ td[x].mine[j] > 0 => entry'.plan[j] > 0
      BY <3>1, <3>2 DEF Merge, Counts
    <3>4. \A y \in Tearers \ {x} : td'[y] = td[y]
      BY <3>1 DEF Inv, TypeOK
    <3> QED
      BY <2>2, <3>1, <3>3, <3>4
  <2> QED
    BY <2>1, <2>2
<1>27. CASE UNCHANGED vars
  BY <1>27 DEF vars
<1> QED
  BY <1>1, <1>2, <1>3, <1>4, <1>5, <1>6, <1>7, <1>8, <1>9, <1>10, <1>11, <1>12, <1>13, <1>14,
     <1>15, <1>16, <1>17, <1>18, <1>19, <1>20, <1>21, <1>22, <1>23, <1>24, <1>25, <1>26, <1>27
     DEF Next, Request, Step, TearStep

-----------------------------------------------------------------------------
(* The connections are a PeerRegistry.                                     *)

\* What is registered has its reader, or a teardown that will take it away.
Enrolled == current # None => Leaving(current)

\* A step of the registry, or none.
Stays == UNCHANGED current /\ \A k \in Conns : Standing(k)' = Standing(k)

Enters(c) ==
    /\ Standing(c) = "off" /\ current' = c
    /\ \A k \in Conns : Standing(k)' =
          IF k = c THEN "live"
          ELSE IF k = current /\ Standing(k) = "live" THEN "dead" ELSE Standing(k)

Dies(c) ==
    /\ Standing(c) \in {"live", "ousted"} /\ UNCHANGED current
    /\ \A k \in Conns : Standing(k)' = IF k = c THEN "dead" ELSE Standing(k)

Leaves(c) ==
    /\ Standing(c) = "dead" /\ current' = IF current = c THEN None ELSE current
    /\ Standing(c)' \in {"dead", "off"}
    /\ \A k \in Conns \ {c} : Standing(k)' = Standing(k)

Moves == Stays \/ \E c \in Conns : Enters(c) \/ Dies(c) \/ Leaves(c)

\* The calls of connect_peer, replay and the users leave connections and teardowns
\* alone; register_conn, the readers, drop_conn and the teardowns do not.
LEMMA OnlyThese ==
  ASSUME [Next]_vars
  PROVE  \/ UNCHANGED <<current, alive, serving, td>>
         \/ \E c \in Conns : Registered(c) /\ UNCHANGED td
         \/ \E c \in Conns : ReaderExits(c)
         \/ \E t \in Threads : DropConn(t)
         \/ \E x \in Tearers : TearStep(x)
<1>1. ASSUME Request PROVE \/ UNCHANGED <<current, alive, serving, td>>
                           \/ \E c \in Conns : Registered(c) /\ UNCHANGED td
  BY <1>1 DEF Request, UserConnect, UserDisconnect, UserRetier, UserOpen, UserClose, Inbound,
              SetPolicy, net
<1>2. ASSUME NEW t \in Threads, Step(t)
      PROVE  \/ UNCHANGED <<current, alive, serving, td>>
             \/ \E c \in Conns : Registered(c) /\ UNCHANGED td
             \/ DropConn(t)
  BY <1>2 DEF Step, DialFound, DialFails, DialNew, Note, Open, OpenFails, Check, TakePlan, Rearm,
              Replay, Replayed, Finish, net
<1>3. ASSUME NEW t \in Retriers, Dispatch(t) PROVE UNCHANGED <<current, alive, serving, td>>
  BY <1>3 DEF Dispatch, net
<1>4. CASE UNCHANGED vars
  BY <1>4 DEF vars, net
<1> QED
  BY <1>1, <1>2, <1>3, <1>4 DEF Next

\* register_conn is an Enter.
LEMMA RegisterEnters ==
  ASSUME Inv, Enrolled, NEW c \in Conns, Registered(c), UNCHANGED td
  PROVE  Enrolled' /\ Enters(c)
<1>1. /\ ~Leaving(c) /\ ~alive[c] /\ current # c
      /\ current' = c /\ serving' = serving \cup {c}
      /\ alive' = [k \in Conns |-> IF k = c THEN TRUE ELSE IF k = current THEN FALSE ELSE alive[k]]
  BY DEF Registered, Inv, Served, Leaving
<1>2. \A k \in Conns : Leaving(k)' <=> k = c \/ Leaving(k)
  BY <1>1 DEF Leaving
<1>3. \A k \in Conns : alive[k] => Leaving(k)
  BY DEF Inv, Served, Leaving
<1> HIDE DEF Leaving
<1>4. Enrolled'
  BY <1>1, <1>2 DEF Enrolled
<1>5. Enters(c)
  BY <1>1, <1>2, <1>3 DEF Enters, Standing, Enrolled
<1> QED
  BY <1>4, <1>5

\* The end of a reader's loop is a Die, or nothing new.
LEMMA ReaderDies ==
  ASSUME Inv, Enrolled, NEW c \in Conns, ReaderExits(c)
  PROVE  Enrolled' /\ (Stays \/ Dies(c))
<1>1. /\ c \in serving /\ serving' = serving \ {c} /\ alive' = [alive EXCEPT ![c] = FALSE]
      /\ td' = [td EXCEPT ![c] = [conn |-> c, step |-> "snap", mine |-> Zero]]
      /\ UNCHANGED current
  BY DEF ReaderExits
<1>2. td[c] = None /\ c \in Tearers
  BY <1>1 DEF Inv, Served, Tearers
<1>3. td'[c] # None /\ td'[c].conn = c /\ td'[c].step # "arm"
  BY <1>1, <1>2, CountsOK, KindsDistinct DEF Inv, TypeOK, Teardowns
<1>4. Leaving(c) /\ Leaving(c)'
  BY <1>1, <1>2, <1>3 DEF Leaving
<1>5. \A x \in Tearers \ {c} : td'[x] = td[x]
  BY <1>1 DEF Inv, TypeOK
<1>6. \A k \in Conns \ {c} : Leaving(k)' <=> Leaving(k)
  BY <1>1, <1>2, <1>3, <1>5 DEF Leaving
<1>7. ~alive'[c] /\ \A k \in Conns \ {c} : alive'[k] = alive[k]
  BY <1>1 DEF Inv, TypeOK
<1>8. current \in Conns \cup {None} /\ UNCHANGED current
  BY <1>1 DEF Inv, TypeOK
<1>9. /\ Standing(c)' = "dead" /\ \A k \in Conns \ {c} : Standing(k)' = Standing(k)
      /\ Standing(c) = IF alive[c] THEN "live" ELSE "dead"
  BY <1>4, <1>6, <1>7, <1>8 DEF Standing
<1> HIDE DEF Leaving
<1>10. Enrolled'
  BY <1>4, <1>6, <1>8 DEF Enrolled
<1>11. CASE alive[c]
  BY <1>8, <1>10, <1>9, <1>11 DEF Dies
<1>12. CASE ~alive[c]
  BY <1>8, <1>10, <1>9, <1>12 DEF Stays
<1> QED
  BY <1>11, <1>12

\* So is drop_conn, of the connection that is registered.
LEMMA DropDies ==
  ASSUME Inv, Enrolled, NEW t \in Threads, DropConn(t)
  PROVE  Enrolled' /\ (Stays \/ \E c \in Conns : Dies(c))
<1>1. CASE current = None
  BY <1>1 DEF DropConn, Enrolled, Stays, Standing, Leaving
<1>2. CASE current # None
  <2> DEFINE c == current
  <2>1. /\ c \in Conns /\ pc[t] = "drop" /\ alive' = [alive EXCEPT ![c] = FALSE]
        /\ td' = [td EXCEPT ![t] = [conn |-> c, step |-> "snap", mine |-> Zero]]
        /\ UNCHANGED <<current, serving>>
    BY <1>2 DEF DropConn, Inv, TypeOK
  <2>2. td[t] = None /\ t \in Tearers
    BY <2>1 DEF Inv, Roles, Tearers
  <2>3. td'[t] # None /\ td'[t].conn = c /\ td'[t].step # "arm"
    BY <2>1, <2>2, CountsOK, KindsDistinct DEF Inv, TypeOK, Teardowns
  <2>4. Leaving(c) /\ Leaving(c)'
    BY <1>2, <2>1, <2>2, <2>3 DEF Leaving, Enrolled
  <2>5. \A x \in Tearers \ {t} : td'[x] = td[x]
    BY <2>1 DEF Inv, TypeOK
  <2>6. \A k \in Conns \ {c} : Leaving(k)' <=> Leaving(k)
    BY <2>1, <2>2, <2>3, <2>5 DEF Leaving
  <2>7. ~alive'[c] /\ \A k \in Conns \ {c} : alive'[k] = alive[k]
    BY <2>1 DEF Inv, TypeOK
  <2> HIDE DEF Leaving
  <2>8. Enrolled'
    BY <2>1, <2>4 DEF Enrolled
  <2>9. CASE alive[c]
    <3>1. Dies(c)
      BY <2>1, <2>4, <2>6, <2>7, <2>9 DEF Dies, Standing
    <3> QED
      BY <2>1, <2>8, <3>1
  <2>10. CASE ~alive[c]
    BY <2>1, <2>4, <2>6, <2>7, <2>8, <2>10 DEF Stays, Standing
  <2> QED
    BY <2>9, <2>10
<1> QED
  BY <1>1, <1>2

\* Of a teardown only the second lock of teardown_conn is a step of the registry.
LEMMA TearLeaves ==
  ASSUME Inv, Enrolled, NEW x \in Tearers, TearStep(x), NEW c \in Conns, td[x].conn = c
  PROVE  Enrolled' /\ (Stays \/ Leaves(c))
<1>1. /\ td[x] # None /\ td[x] \in Teardowns /\ td[x].conn = c /\ ~alive[c]
      /\ current \in Conns \cup {None}
  BY DEF TearStep, TearSnap, TearClose, TearUnregister, TearArm, Inv, TypeOK, Tearing, Teardowns
<1>2. UNCHANGED <<alive, serving>> /\ \A y \in Tearers \ {x} : td'[y] = td[y]
  BY DEF TearStep, TearSnap, TearClose, TearUnregister, TearArm, net, Inv, TypeOK
<1>3. CASE TearSnap(x) \/ TearClose(x)
  <2>1. UNCHANGED current /\ td[x].step # "arm"
    BY <1>3 DEF TearSnap, TearClose, net
  <2>2. live[c] \in Counts
    BY <1>1 DEF Inv, TypeOK
  <2>3. td'[x] \in Teardowns /\ td'[x].conn = c /\ td'[x].step # "arm"
    <3>1. CASE TearSnap(x)
      BY <1>1, <2>2, <3>1 DEF TearSnap, Teardowns, Inv, TypeOK
    <3>2. CASE TearClose(x)
      BY <1>1, <3>2 DEF TearClose, Teardowns, Inv, TypeOK
    <3> QED
      BY <1>3, <3>1, <3>2
  <2>4. td'[x] # None
    BY <2>3, KindsDistinct
  <2>5. \A k \in Conns : Leaving(k)' <=> Leaving(k)
    BY <1>1, <1>2, <2>1, <2>3, <2>4 DEF Leaving
  <2> HIDE DEF Leaving
  <2> QED
    BY <1>1, <1>2, <2>1, <2>5 DEF Stays, Standing, Enrolled
<1>4. CASE TearUnregister(x)
  <2>1. /\ td[x].step = "unreg" /\ current' = IF current = c THEN None ELSE current
        /\ td' = [td EXCEPT ![x] = [td[x] EXCEPT !.step = "arm"]]
    BY <1>4 DEF TearUnregister
  <2>2. td'[x].conn = c /\ td'[x].step = "arm"
    BY <1>1, <2>1 DEF Teardowns, Inv, TypeOK
  <2>3. Leaving(c)
    BY <1>1, <2>1 DEF Leaving
  <2>4. \A k \in Conns \ {c} : Leaving(k)' <=> Leaving(k)
    BY <1>1, <1>2, <2>2 DEF Leaving
  <2> HIDE DEF Leaving
  <2>5. Enrolled'
    BY <1>1, <2>1, <2>4 DEF Enrolled
  <2>6. Leaves(c)
    <3>1. ~alive'[c] /\ \A k \in Conns \ {c} : alive'[k] = alive[k]
      BY <1>1, <1>2
    <3>2. \A k \in Conns \ {c} : Standing(k)' = Standing(k)
      <4> SUFFICES ASSUME NEW k \in Conns \ {c} PROVE Standing(k)' = Standing(k)
        OBVIOUS
      <4>1. current' = k <=> current = k
        BY <1>1, <2>1, KindsDistinct
      <4> QED
        BY <2>4, <3>1, <4>1 DEF Standing
    <3>3. Standing(c) = "dead" /\ Standing(c)' \in {"dead", "off"}
      BY <1>1, <2>3, <3>1 DEF Standing
    <3> QED
      BY <2>1, <3>2, <3>3 DEF Leaves
  <2> QED
    BY <1>1, <2>5, <2>6
<1>5. CASE TearArm(x)
  <2>1. td[x].step = "arm" /\ td'[x] = None /\ UNCHANGED current
    BY <1>5 DEF TearArm, net, Inv, TypeOK
  <2>2. \A k \in Conns : Leaving(k)' <=> Leaving(k)
    BY <1>1, <1>2, <2>1 DEF Leaving
  <2> HIDE DEF Leaving
  <2> QED
    BY <1>1, <1>2, <2>1, <2>2 DEF Stays, Standing, Enrolled
<1> QED
  BY <1>3, <1>4, <1>5 DEF TearStep

\* Every step is one of the registry, or none, and what is registered is accounted for.
LEMMA StepMoves == Inv /\ Enrolled /\ [Next]_vars => Enrolled' /\ Moves
<1> SUFFICES ASSUME Inv, Enrolled, [Next]_vars PROVE Enrolled' /\ Moves
  OBVIOUS
<1>1. CASE UNCHANGED <<current, alive, serving, td>>
  BY <1>1 DEF Enrolled, Moves, Stays, Standing, Leaving
<1>2. ASSUME NEW x \in Tearers, TearStep(x) PROVE Enrolled' /\ Moves
  <2>1. td[x].conn \in Conns
    BY <1>2 DEF TearStep, TearSnap, TearClose, TearUnregister, TearArm, Inv, TypeOK, Teardowns
  <2> QED
    BY <1>2, <2>1, TearLeaves DEF Moves
<1> QED
  BY <1>1, <1>2, OnlyThese, RegisterEnters, ReaderDies, DropDies DEF Moves

\* ... and what that is in PeerRegistry.
LEMMA StepRegistry == Moves => [Registry!Next]_(Registry!vars)
<1> SUFFICES ASSUME Moves PROVE [Registry!Next]_(Registry!vars)
  OBVIOUS
<1>1. CASE Stays
  BY <1>1 DEF Stays, Registry!vars
<1>2. ASSUME NEW c \in Conns, Enters(c) PROVE Registry!Enter(c)
  BY <1>2 DEF Enters, Registry!Enter
<1>3. ASSUME NEW c \in Conns, Dies(c) PROVE Registry!Die(c)
  BY <1>3 DEF Dies, Registry!Die
<1>4. ASSUME NEW c \in Conns, Leaves(c) PROVE Registry!Leave(c)
  <2>1. \/ \A k \in Conns : Standing(k)' = Standing(k)
        \/ \A k \in Conns : Standing(k)' = IF k = c THEN "off" ELSE Standing(k)
    BY <1>4 DEF Leaves
  <2> QED
    BY <1>4, <2>1 DEF Leaves, Registry!Leave
<1> QED
  BY <1>1, <1>2, <1>3, <1>4 DEF Moves, Registry!Next

-----------------------------------------------------------------------------
(* The theorems.                                                           *)

\* The inductive invariant.
THEOREM Inductive == Spec => []Inv
<1>1. Init => Inv
  BY InitTyped, InitServed DEF Inv
<1>2. Inv /\ [Next]_vars => Inv'
  BY StepTyped, StepServed, StepLive, StepPlan DEF Inv
<1> QED
  BY <1>1, <1>2, PTL DEF Spec

\* Every variable keeps its type.
THEOREM Typed == Spec => []TypeOK
<1>1. Inv => TypeOK
  BY DEF Inv
<1> QED
  BY <1>1, Inductive, PTL

\* A plan is never stored without a timer that will bring it back.
THEOREM PlanArmed == Spec => []PlanIsArmed
<1>1. Inv => PlanIsArmed
  BY DEF Inv
<1> QED
  BY <1>1, Inductive, PTL

\* in_flight is never left behind by the last attempt.
THEOREM InFlightHeld == Spec => []InFlightIsHeld
<1>1. Inv => InFlightIsHeld
  BY DEF Inv
<1> QED
  BY <1>1, Inductive, PTL

\* A session is on a connection that is served, or about to be handed over.
THEOREM LiveServed == Spec => []LiveIsServed
<1>1. Inv => LiveIsServed
  BY DEF Inv
<1> QED
  BY <1>1, Inductive, PTL

\* A session a drop took is live or owed until somebody decides otherwise.
THEOREM Conserved == Spec => PlanConserved
<1>1. Inv /\ Inv' /\ [Next]_vars =>
        [\A i \in Intents : Kept(i) /\ ~Kept(i)' => GivenUp(i)]_vars
  BY StepConserves
<1> QED
  BY <1>1, Inductive, PTL DEF Spec, PlanConserved

\* Attempts, users, readers and drops together are a PeerRegistry: two teardowns of one
\* connection take away its registration once, and never its successor's.
THEOREM Refines == Spec => ImplementsRegistry
<1>1. Init => Enrolled /\ Registry!Init
  BY DEF Init, Enrolled, Registry!Init, Standing, Leaving
<1>2. Inv /\ Enrolled /\ [Next]_vars => Enrolled' /\ [Registry!Next]_(Registry!vars)
  BY StepMoves, StepRegistry
<1> QED
  BY <1>1, <1>2, Inductive, PTL DEF Spec, ImplementsRegistry, Registry!Spec
=============================================================================
