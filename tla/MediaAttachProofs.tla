--------------------------- MODULE MediaAttachProofs ---------------------------
(***************************************************************************)
(* Proofs about MediaAttach, for any number of control connections, media  *)
(* connections, tickets and faults.                                        *)
(***************************************************************************)
EXTENDS MediaAttach, FiniteSetTheorems, SequenceTheorems, TLAPS

-----------------------------------------------------------------------------
(* Shapes.                                                                 *)

Walks == Holding \cup {"idle", "dial", "failed", "accepted", "spent", "found"}
Places == {"none", "greet", "offer", "mint", "pump", "await", "ready", "answer",
           "mintAnswer", "torn"}
Messages == Tickets \cup {"mode", "open", "refused"}

Shapes ==
    /\ conns \in Links \cup {None}
    /\ up \in [Links -> BOOLEAN]
    /\ at \in [Sides -> [Links -> Places]]
    /\ thr \in [Sides -> [Socks -> Walks]]
    /\ on \in [Sides -> [Socks -> Links \cup {None}]]
    /\ latch \in [Sides -> [Links -> BOOLEAN]]
    /\ path \in [Sides -> [Links -> Socks \cup {None}]]
    /\ toD \in [Links -> Seq(Messages)]
    /\ deferred \in [Links -> Seq(Messages)]
    /\ bound \in [Sides -> [Links -> SUBSET {"udp", "tcp"}]]

-----------------------------------------------------------------------------
(* Media connections: who serves which control connection.                 *)

\* A thread that has chosen its control connection is on one, and A's end of a
\* socket waits until D has dialled it.
Seated ==
    /\ \A side \in Sides, s \in Socks :
          thr[side][s] \in Holding \cup {"dial", "failed", "found"} => on[side][s] \in Links
    /\ \A s \in Socks :
          /\ thr["D"][s] \in {"dial", "dialling"} => thr["A"][s] = "idle"
          /\ thr["D"][s] \notin {"accepted", "spent", "found", "acking"}
          /\ thr["A"][s] \notin {"dial", "dialling", "presented", "failed"}

Holds(side, s, l) == thr[side][s] \in Holding /\ on[side][s] = l

\* The latch of an end and the thread that holds it.
Latched ==
    \A side \in Sides, l \in Links :
        /\ \A s \in Socks : Holds(side, s, l) => latch[side][l]
        /\ \A s, r \in Socks : Holds(side, s, l) /\ Holds(side, r, l) => s = r
        /\ latch[side][l] => \E s \in Socks : Holds(side, s, l)

\* From the start of a dial until the flag is cleared, be it by a failure or by
\* the end of the link.
Attaches(s, l) ==
    on["D"][s] = l /\ thr["D"][s] \in {"dial", "dialling", "presented", "installing",
                                       "serving", "stopped", "restored", "failed"}

\* media_attaching and the thread it speaks of.
Attached ==
    /\ attaching \subseteq Links
    /\ \A l \in Links :
        /\ \A s \in Socks : Attaches(s, l) => l \in attaching
        /\ \A s, r \in Socks : Attaches(s, l) /\ Attaches(r, l) => s = r
        /\ l \in attaching => \E s \in Socks : Attaches(s, l)

-----------------------------------------------------------------------------
(* The control channel to D and the park in front of it.                   *)

HasMode(q) == \E i \in DOMAIN q : q[i] = "mode"

\* No "open" in q comes before a "mode" of q.
Led(q) == \A j \in DOMAIN q : q[j] = "open" => \E i \in DOMAIN q : i < j /\ q[i] = "mode"

\* ModeState goes ahead of every open of a connection, from A's register_conn to
\* D's reader: it has been handled, or waits ahead of them.
InOrder(l) ==
    /\ bound["D"][l] # {} => l \in told
    /\ l \in told \/ Led(deferred[l])
    /\ l \in told \/ HasMode(deferred[l]) \/ Led(toD[l])
    /\ up[l] /\ at["A"][l] \notin {"none", "greet"} =>
          l \in told \/ HasMode(deferred[l]) \/ HasMode(toD[l])

Ordered == \A l \in Links : InOrder(l)

AInv == Shapes /\ Seated /\ Latched /\ PathIsServed /\ Attached /\ Ordered

\* Nothing is under way at the start.
LEMMA InitHolds == Init => AInv
  BY AttachConstants
  DEF Init, AInv, Shapes, Walks, Places, Messages, Holding, Sides, Seated, Latched, Holds, PathIsServed,
      Attached, Attaches, Ordered, InOrder, HasMode, Led

\* One entry of a table of tables is replaced.
LEMMA Nested ==
  ASSUME NEW S, NEW T, NEW V, NEW f \in [S -> [T -> V]], NEW a \in S, NEW b \in T, NEW v \in V
  PROVE  /\ [f EXCEPT ![a][b] = v] \in [S -> [T -> V]]
         /\ [f EXCEPT ![a][b] = v][a][b] = v
         /\ \A x \in S, y \in T : x # a \/ y # b => [f EXCEPT ![a][b] = v][x][y] = f[x][y]
<1>1. [f[a] EXCEPT ![b] = v] \in [T -> V]
  OBVIOUS
<1>2. [f EXCEPT ![a][b] = v] = [f EXCEPT ![a] = [f[a] EXCEPT ![b] = v]]
  OBVIOUS
<1> QED
  BY <1>1, <1>2

\* A latch is taken or dropped.
LEMMA LatchTyped ==
  ASSUME Shapes, NEW side \in Sides, NEW k \in Links, NEW v \in BOOLEAN,
         latch' = [latch EXCEPT ![side][k] = v]
  PROVE  latch' \in [Sides -> [Links -> BOOLEAN]]
<1>1. latch \in [Sides -> [Links -> BOOLEAN]]
  BY DEF Shapes
<1> QED
  BY <1>1, Nested

\* A message leaves the channel for the reader: it and the rest are messages.
LEMMA Taking ==
  ASSUME NEW q \in Seq(Messages), q # << >>
  PROVE  /\ Head(q) \in Messages /\ Head(q) = q[1]
         /\ Tail(q) \in Seq(Messages) /\ Len(Tail(q)) = Len(q) - 1
         /\ \A i \in 1 .. Len(q) - 1 : Tail(q)[i] = q[i + 1]
         /\ Len(q) \in Nat /\ Len(q) >= 1
  BY HeadTailProperties, EmptySeq, LenProperties

\* A message that is sent keeps the channel one of messages.
LEMMA TellTyped ==
  ASSUME Shapes, NEW l \in Links, NEW m \in Messages, TellD(l, m)
  PROVE  toD' \in [Links -> Seq(Messages)]
<1>1. Append(toD[l], m) \in Seq(Messages)
  BY DEF Shapes
<1>2. toD' = toD \/ toD' = [toD EXCEPT ![l] = Append(toD[l], m)]
  BY DEF TellD
<1> QED
  BY <1>1, <1>2 DEF Shapes

\* A ticket starts a thread at D's end of an idle socket, or nothing.
LEMMA TakeTicketTyped ==
  ASSUME Shapes, NEW l \in Links, NEW t, TakeTicket(l, t)
  PROVE  thr' \in [Sides -> [Socks -> Walks]] /\ on' \in [Sides -> [Socks -> Links \cup {None}]]
<1>1. CASE UNCHANGED <<thr, on>>
  BY <1>1 DEF Shapes
<1>2. ASSUME NEW s \in Socks, thr' = [thr EXCEPT !["D"][s] = "dial"], on' = [on EXCEPT !["D"][s] = l]
      PROVE  thr' \in [Sides -> [Socks -> Walks]] /\ on' \in [Sides -> [Socks -> Links \cup {None}]]
  BY <1>2 DEF Shapes, Walks, Sides
<1> QED
  BY <1>1, <1>2 DEF TakeTicket

\* A's thread that refuses a socket, or ends, is idle again.
LEMMA EndedTyped ==
  ASSUME Shapes, NEW side \in Sides, NEW s \in Socks, Ended(side, s)
  PROVE  thr' \in [Sides -> [Socks -> Walks]] /\ on' \in [Sides -> [Socks -> Links \cup {None}]]
  BY DEF Ended, Shapes, Walks

\* A thread goes on.
LEMMA WalkTyped ==
  ASSUME Shapes, NEW side \in Sides, NEW s \in Socks, NEW from, NEW to \in Walks, Walk(side, s, from, to)
  PROVE  thr' \in [Sides -> [Socks -> Walks]]
  BY DEF Walk, Shapes

\* Every step keeps the shapes.
LEMMA StepShapes == Shapes /\ Seated /\ [Next]_vars => Shapes'
<1> SUFFICES ASSUME Shapes, Seated, [Next]_vars PROVE Shapes'
  OBVIOUS
<1> USE AttachConstants
    DEF Shapes, Walks, Places, Messages, Holding, Sides, Fault, Step, Walk, ctl, reg, med, tix, sock, vars
<1>1. ASSUME NEW l \in Links, Connect(l) PROVE Shapes'
  BY <1>1 DEF Connect
<1>2. ASSUME NEW l \in Links, Break(l) PROVE Shapes'
  <2>1. << >> \in Seq(Messages)
    OBVIOUS
  <2>2. /\ toD' = toD \/ toD' = [toD EXCEPT ![l] = << >>]
        /\ up' = [up EXCEPT ![l] = FALSE]
        /\ UNCHANGED <<conns, at, deferred, bound, path, latch, thr, on>>
    BY <1>2 DEF Break
  <2> HIDE DEF Messages, Walks, Places
  <2>3. toD' \in [Links -> Seq(Messages)]
    <3>1. toD \in [Links -> Seq(Messages)]
      OBVIOUS
    <3> HIDE DEF Shapes
    <3> QED
      BY <2>1, <2>2, <3>1
  <2> QED
    BY <2>2, <2>3
<1>3. ASSUME NEW l \in Links, OpenStream(l) PROVE Shapes'
  <2>1. toD' \in [Links -> Seq(Messages)]
    BY <1>3, TellTyped DEF OpenStream, Kind
  <2> QED
    BY <1>3, <2>1 DEF OpenStream, Kind
<1>4. ASSUME NEW l \in Links, RegisterA(l) PROVE Shapes'
  BY <1>4 DEF RegisterA
<1>5. ASSUME NEW l \in Links, RegisterD(l) PROVE Shapes'
  BY <1>5 DEF RegisterD
<1>6. ASSUME NEW l \in Links, Offer(l) PROVE Shapes'
  BY <1>6 DEF Offer
<1>7. ASSUME NEW l \in Links, NEW t \in Tickets, Mint(l, t) PROVE Shapes'
  <2>1. toD' \in [Links -> Seq(Messages)]
    BY <1>7, TellTyped DEF Mint
  <2> QED
    BY <1>7, <2>1 DEF Mint
<1>8. ASSUME NEW l \in Links, PumpEnds(l) PROVE Shapes'
  BY <1>8 DEF PumpEnds
<1>9. ASSUME NEW side \in Sides, NEW l \in Links, Await(side, l) PROVE Shapes'
  BY <1>9 DEF Await
<1>10. ASSUME NEW side \in Sides, NEW l \in Links, Deadline(side, l) PROVE Shapes'
  BY <1>10 DEF Deadline
<1>11. ASSUME NEW l \in Links, OnRequest(l) PROVE Shapes'
  <2>1. toD' \in [Links -> Seq(Messages)]
    BY <1>11, TellTyped DEF OnRequest
  <2>2. at' \in [Sides -> [Links -> Places]]
    <3>1. UNCHANGED at \/ at' = [at EXCEPT !["A"][l] = "answer"]
      BY <1>11 DEF OnRequest
    <3>2. "A" \in Sides /\ "answer" \in Places /\ at \in [Sides -> [Links -> Places]]
      OBVIOUS
    <3> HIDE DEF Messages, Walks, Sides, Places
    <3>3. CASE at' = [at EXCEPT !["A"][l] = "answer"]
      BY <3>2, <3>3, Nested
    <3> QED
      BY <3>1, <3>2, <3>3
  <2>3. UNCHANGED <<conns, up, deferred, bound, path, latch, thr, on>>
    BY <1>11 DEF OnRequest
  <2> HIDE DEF Places, Messages, Walks
  <2> QED
    BY <2>1, <2>2, <2>3
<1>12. ASSUME NEW l \in Links, Pump(l) PROVE Shapes'
  <2> DEFINE m == Head(toD[l])
  <2>1. toD[l] # << >> /\ toD[l] \in Seq(Messages) /\ deferred[l] \in Seq(Messages)
    BY <1>12 DEF Pump
  <2>2. m \in Messages /\ Tail(toD[l]) \in Seq(Messages)
    BY <2>1, Taking
  <2>3. /\ toD' = [toD EXCEPT ![l] = Tail(toD[l])]
        /\ UNCHANGED <<conns, up, bound, path, latch>>
        /\ \/ TakeTicket(l, m)
           \/ UNCHANGED <<thr, on>>
        /\ \/ deferred' = [deferred EXCEPT ![l] = Append(deferred[l], m)]
           \/ UNCHANGED deferred
        /\ at'["A"] = at["A"]
        /\ \E w \in Places : at' = [at EXCEPT !["D"][l] = w]
    <3> HIDE DEF m, Messages
    <3>1. at["D"][l] \in Places
      OBVIOUS
    <3>2. at' = [at EXCEPT !["D"][l] = IF m \in Tickets THEN "await" ELSE IF m = "refused" THEN "ready" ELSE @]
      BY <1>12 DEF Pump, m
    <3>3. \E w \in Places : at' = [at EXCEPT !["D"][l] = w]
      BY <3>1, <3>2
    <3>4. at'["A"] = at["A"]
      BY <3>2
    <3> QED
      BY <1>12, <3>3, <3>4 DEF Pump, m
  <2>4. thr' \in [Sides -> [Socks -> Walks]] /\ on' \in [Sides -> [Socks -> Links \cup {None}]]
    BY <2>3, TakeTicketTyped
  <2>5. deferred' \in [Links -> Seq(Messages)]
    <3>1. Append(deferred[l], m) \in Seq(Messages)
      BY <2>1, <2>2
    <3>2. deferred \in [Links -> Seq(Messages)]
      OBVIOUS
    <3>3. deferred' = [deferred EXCEPT ![l] = Append(deferred[l], m)] \/ UNCHANGED deferred
      BY <2>3
    <3> HIDE DEF m, Messages, Shapes
    <3> QED
      BY <3>1, <3>2, <3>3
  <2> HIDE DEF m, Messages
  <2>6. toD' \in [Links -> Seq(Messages)]
    BY <2>2, <2>3
  <2>7. at' \in [Sides -> [Links -> Places]]
    BY <2>3
  <2> HIDE DEF Walks, Places
  <2> QED
    BY <2>3, <2>4, <2>5, <2>6, <2>7
<1>13. ASSUME NEW l \in Links, Read(l) PROVE Shapes'
  <2> DEFINE src == IF deferred[l] # << >> THEN deferred[l] ELSE toD[l]
  <2>1. src # << >> /\ src \in Seq(Messages)
    BY <1>13 DEF Read
  <2>2. Tail(src) \in Seq(Messages)
    BY <2>1, Taking
  <2>3. /\ \/ toD' = [toD EXCEPT ![l] = Tail(src)] /\ UNCHANGED deferred
           \/ deferred' = [deferred EXCEPT ![l] = Tail(src)] /\ UNCHANGED toD
        /\ UNCHANGED <<conns, up, at, path, latch>>
    BY <1>13 DEF Read
  <2>4. \/ TakeTicket(l, Head(src))
        \/ UNCHANGED <<thr, on>>
    BY <1>13 DEF Read
  <2>5. thr' \in [Sides -> [Socks -> Walks]] /\ on' \in [Sides -> [Socks -> Links \cup {None}]]
    BY <2>4, TakeTicketTyped
  <2>6. bound' = bound \/ bound' = [bound EXCEPT !["D"][l] = @ \cup {Kind("D", l)}]
    BY <1>13 DEF Read
  <2>7. bound' \in [Sides -> [Links -> SUBSET {"udp", "tcp"}]]
    <3>1. Kind("D", l) \in {"udp", "tcp"}
      BY DEF Kind
    <3>2. bound["D"][l] \cup {Kind("D", l)} \in SUBSET {"udp", "tcp"}
      BY <3>1
    <3>3. "D" \in Sides /\ bound \in [Sides -> [Links -> SUBSET {"udp", "tcp"}]]
      OBVIOUS
    <3> HIDE DEF Messages, Walks, Places, Sides
    <3>4. CASE bound' = [bound EXCEPT !["D"][l] = @ \cup {Kind("D", l)}]
      BY <3>2, <3>3, <3>4, Nested
    <3> QED
      BY <2>6, <3>3, <3>4
  <2> HIDE DEF src, Messages, Walks, Places
  <2>8. toD' \in [Links -> Seq(Messages)] /\ deferred' \in [Links -> Seq(Messages)]
    <3>1. toD \in [Links -> Seq(Messages)] /\ deferred \in [Links -> Seq(Messages)]
      OBVIOUS
    <3> HIDE DEF Shapes
    <3> QED
      BY <2>2, <2>3, <3>1
  <2> HIDE DEF Walks, Places
  <2> QED
    BY <2>3, <2>5, <2>7, <2>8
<1>14. ASSUME NEW side \in Sides, NEW l \in Links, Teardown(side, l) PROVE Shapes'
  BY <1>14 DEF Teardown
<1>15. ASSUME NEW side \in Sides, NEW l \in Links, Retire(side, l) PROVE Shapes'
  BY <1>15 DEF Retire
<1>16. ASSUME NEW t \in Tickets, Expire(t) PROVE Shapes'
  BY <1>16 DEF Expire
<1>17. ASSUME NEW s \in Socks, DialFails(s) PROVE Shapes'
  BY <1>17 DEF DialFails, Unlatch
<1>18. ASSUME NEW s \in Socks, BreakMedia(s) PROVE Shapes'
  BY <1>18 DEF BreakMedia
<1>19. ASSUME NEW s \in Socks, TakeLatch(s) PROVE Shapes'
  <2> HIDE DEF Walk
  <2>1. thr' \in [Sides -> [Socks -> Walks]]
    <3>1. Walk("D", s, "dial", "failed") \/ Walk("D", s, "dial", "dialling")
      BY <1>19 DEF TakeLatch
    <3> QED
      BY <3>1, WalkTyped
  <2>2. latch' \in [Sides -> [Links -> BOOLEAN]]
    <3>1. \/ UNCHANGED latch
          \/ latch' = [latch EXCEPT !["D"][on["D"][s]] = TRUE]
      BY <1>19 DEF TakeLatch
    <3>2. on["D"][s] \in Links
      BY <1>19 DEF TakeLatch, Seated
    <3> QED
      BY <3>1, <3>2, LatchTyped
  <2>3. UNCHANGED <<on, path>>
    BY <1>19 DEF TakeLatch
  <2>9. UNCHANGED <<conns, up, at, toD, deferred, bound>>
    BY <1>19 DEF TakeLatch
  <2> HIDE DEF Walks, Places, Messages
  <2> QED
    BY <2>1, <2>2, <2>3, <2>9
<1>20. ASSUME NEW s \in Socks, Dial(s) PROVE Shapes'
  BY <1>20 DEF Dial
<1>21. ASSUME NEW s \in Socks, Accepted(s) PROVE Shapes'
  BY <1>21 DEF Accepted
<1>22. ASSUME NEW s \in Socks, GiveUp(s) PROVE Shapes'
  BY <1>22 DEF GiveUp, Ended
<1>23. ASSUME NEW s \in Socks, Spend(s) PROVE Shapes'
  <2> HIDE DEF Walk
  <2>1. thr' \in [Sides -> [Socks -> Walks]] /\ on' \in [Sides -> [Socks -> Links \cup {None}]]
    <3>1. (Walk("A", s, "accepted", "spent") /\ UNCHANGED on) \/ Ended("A", s)
      BY <1>23 DEF Spend, Refuse
    <3> QED
      BY <3>1, WalkTyped, EndedTyped
  <2>2. UNCHANGED latch
    BY <1>23 DEF Spend
  <2>3. UNCHANGED path
    BY <1>23 DEF Spend
  <2>9. UNCHANGED <<conns, up, at, toD, deferred, bound>>
    BY <1>23 DEF Spend
  <2> HIDE DEF Walks, Places, Messages
  <2> QED
    BY <2>1, <2>2, <2>3, <2>9
<1>24. ASSUME NEW s \in Socks, FindConn(s) PROVE Shapes'
  <2> HIDE DEF Walk
  <2>1. thr' \in [Sides -> [Socks -> Walks]] /\ on' \in [Sides -> [Socks -> Links \cup {None}]]
    <3>1. \/ Walk("A", s, "spent", "found") /\ conns # None /\ on' = [on EXCEPT !["A"][s] = conns]
          \/ Ended("A", s)
      BY <1>24 DEF FindConn, Refuse
    <3>2. "A" \in Sides /\ on \in [Sides -> [Socks -> Links \cup {None}]] /\ conns \in Links \cup {None}
          /\ "found" \in Walks
      OBVIOUS
    <3>3. CASE Ended("A", s)
      BY <3>2, <3>3, EndedTyped
    <3>4. CASE Walk("A", s, "spent", "found")
      <4> HIDE DEF Walks, Sides
      <4>1. thr' \in [Sides -> [Socks -> Walks]]
        BY <3>2, <3>4, WalkTyped
      <4>2. CASE conns # None /\ on' = [on EXCEPT !["A"][s] = conns]
        BY <3>2, <4>1, <4>2, Nested
      <4> QED
        BY <3>1, <3>3, <4>1, <4>2
    <3> QED
      BY <3>1, <3>3, <3>4
  <2>2. UNCHANGED latch
    BY <1>24 DEF FindConn
  <2>3. UNCHANGED path
    BY <1>24 DEF FindConn
  <2>9. UNCHANGED <<conns, up, at, toD, deferred, bound>>
    BY <1>24 DEF FindConn
  <2> HIDE DEF Walks, Places, Messages
  <2> QED
    BY <2>1, <2>2, <2>3, <2>9
<1>25. ASSUME NEW s \in Socks, ClaimLatch(s) PROVE Shapes'
  <2> HIDE DEF Walk
  <2>1. thr' \in [Sides -> [Socks -> Walks]] /\ on' \in [Sides -> [Socks -> Links \cup {None}]]
    <3>1. (Walk("A", s, "found", "acking") /\ UNCHANGED on) \/ Ended("A", s)
      BY <1>25 DEF ClaimLatch, Refuse
    <3> QED
      BY <3>1, WalkTyped, EndedTyped
  <2>2. latch' \in [Sides -> [Links -> BOOLEAN]]
    <3>1. UNCHANGED latch \/ latch' = [latch EXCEPT !["A"][on["A"][s]] = TRUE]
      BY <1>25 DEF ClaimLatch
    <3>2. on["A"][s] \in Links
      BY <1>25 DEF ClaimLatch, Seated
    <3> QED
      BY <3>1, <3>2, LatchTyped
  <2>3. UNCHANGED path
    BY <1>25 DEF ClaimLatch
  <2>9. UNCHANGED <<conns, up, at, toD, deferred, bound>>
    BY <1>25 DEF ClaimLatch
  <2> HIDE DEF Walks, Places, Messages
  <2> QED
    BY <2>1, <2>2, <2>3, <2>9
<1>26. ASSUME NEW s \in Socks, Ack(s) PROVE Shapes'
  <2> HIDE DEF Walk
  <2>1. thr' \in [Sides -> [Socks -> Walks]] /\ on' \in [Sides -> [Socks -> Links \cup {None}]]
    <3>1. (Walk("A", s, "acking", "installing") /\ UNCHANGED on) \/ Ended("A", s)
      BY <1>26 DEF Ack
    <3> QED
      BY <3>1, WalkTyped, EndedTyped
  <2>2. latch' \in [Sides -> [Links -> BOOLEAN]]
    <3>1. UNCHANGED latch \/ latch' = [latch EXCEPT !["A"][on["A"][s]] = FALSE]
      BY <1>26 DEF Ack, Unlatch
    <3>2. on["A"][s] \in Links
      BY <1>26 DEF Ack, Seated
    <3> QED
      BY <3>1, <3>2, LatchTyped
  <2>3. UNCHANGED path
    BY <1>26 DEF Ack
  <2>9. UNCHANGED <<conns, up, at, toD, deferred, bound>>
    BY <1>26 DEF Ack
  <2> HIDE DEF Walks, Places, Messages
  <2> QED
    BY <2>1, <2>2, <2>3, <2>9
<1>27. ASSUME NEW side \in Sides, NEW s \in Socks, Install(side, s) PROVE Shapes'
  BY <1>27 DEF Install
<1>28. ASSUME NEW side \in Sides, NEW s \in Socks, Leave(side, s) PROVE Shapes'
  BY <1>28 DEF Leave, Unlatch, Ended
<1>29. ASSUME NEW side \in Sides, NEW s \in Socks, Stop(side, s) PROVE Shapes'
  BY <1>29 DEF Stop
<1>30. ASSUME NEW side \in Sides, NEW s \in Socks, Restore(side, s) PROVE Shapes'
  BY <1>30 DEF Restore
<1>31. ASSUME NEW side \in Sides, NEW s \in Socks, Clear(side, s) PROVE Shapes'
  BY <1>31 DEF Clear
<1>32. ASSUME NEW side \in Sides, NEW s \in Socks, DropControl(side, s) PROVE Shapes'
  BY <1>32 DEF DropControl
<1>33. ASSUME NEW side \in Sides, NEW s \in Socks, InstallFails(side, s) PROVE Shapes'
  <2> HIDE DEF Walk
  <2>1. thr' \in [Sides -> [Socks -> Walks]] /\ on' \in [Sides -> [Socks -> Links \cup {None}]]
    <3>1. (Walk(side, s, "installing", "failed") /\ UNCHANGED on) \/ Ended(side, s)
      BY <1>33 DEF InstallFails
    <3> QED
      BY <3>1, WalkTyped, EndedTyped
  <2>2. latch' \in [Sides -> [Links -> BOOLEAN]]
    <3>1. latch' = [latch EXCEPT ![side][on[side][s]] = FALSE]
      BY <1>33 DEF InstallFails, Unlatch
    <3>2. on[side][s] \in Links
      BY <1>33 DEF InstallFails, Seated
    <3> QED
      BY <3>1, <3>2, LatchTyped
  <2>3. UNCHANGED path
    BY <1>33 DEF InstallFails
  <2>9. UNCHANGED <<conns, up, at, toD, deferred, bound>>
    BY <1>33 DEF InstallFails
  <2> HIDE DEF Walks, Places, Messages
  <2> QED
    BY <2>1, <2>2, <2>3, <2>9
<1>34. ASSUME UNCHANGED vars PROVE Shapes'
  BY <1>34 DEF vars
<1> HIDE DEF Shapes, Walks, Places, Messages, Holding, Sides, Fault, Step, Walk, ctl, reg, med, tix, sock, vars
<1> QED
  BY <1>1, <1>2, <1>3, <1>4, <1>5, <1>6, <1>7, <1>8, <1>9, <1>10, <1>11, <1>12, <1>13, <1>14,
     <1>15, <1>16, <1>17, <1>18, <1>19, <1>20, <1>21, <1>22, <1>23, <1>24, <1>25, <1>26, <1>27,
     <1>28, <1>29, <1>30, <1>31, <1>32, <1>33, <1>34
     DEF Next, RegisterStep, ReaderStep, AttachStep, ServeEnds

-----------------------------------------------------------------------------
(* What a step can do to the threads of the media connections, entry by    *)
(* entry of the tables.                                                    *)

\* One entry of a table changes.
Entry(new, old, Xs, Ys, x, y, v) ==
    /\ new[x][y] = v
    /\ \A a \in Xs, b \in Ys : a # x \/ b # y => new[a][b] = old[a][b]

Moves(side, s, w)   == Entry(thr', thr, Sides, Socks, side, s, w)
Seats(side, s, l)   == Entry(on', on, Sides, Socks, side, s, l)
Latches(side, l, v) == Entry(latch', latch, Sides, Links, side, l, v)
Points(side, l, s)  == Entry(path', path, Sides, Links, side, l, s)

Still == UNCHANGED <<thr, on, latch, path, attaching>>
Afresh(l) ==
    /\ Servants("D", l) = {} /\ attaching' = attaching \ {l}
    /\ UNCHANGED <<thr, on, latch, path>>
Start(s, l) ==
    /\ thr["D"][s] = "idle" /\ thr["A"][s] = "idle" /\ l \notin attaching
    /\ Moves("D", s, "dial") /\ Seats("D", s, l) /\ attaching' = attaching \cup {l}
    /\ UNCHANGED <<latch, path>>
Lock(side, s) ==
    /\ \/ side = "D" /\ thr[side][s] = "dial" /\ Moves(side, s, "dialling")
       \/ side = "A" /\ thr[side][s] = "found" /\ Moves(side, s, "acking")
    /\ ~latch[side][on[side][s]] /\ Latches(side, on[side][s], TRUE)
    /\ UNCHANGED <<on, path, attaching>>
Knock(s) ==
    /\ thr["D"][s] = "dialling" /\ thr'["D"][s] = "presented" /\ thr'["A"][s] = "accepted"
    /\ \A side \in Sides, r \in Socks \ {s} : thr'[side][r] = thr[side][r]
    /\ UNCHANGED <<on, latch, path, attaching>>
Miss(s) ==
    /\ thr["D"][s] = "dial" /\ Moves("D", s, "failed")
    /\ UNCHANGED <<on, latch, path, attaching>>
Quit(s) ==
    /\ thr["D"][s] = "failed" /\ Moves("D", s, "idle") /\ Seats("D", s, None)
    /\ attaching' = attaching \ {on["D"][s]}
    /\ UNCHANGED <<latch, path>>
Refused(s) ==
    /\ thr["A"][s] \in {"accepted", "spent", "found"} /\ Moves("A", s, "idle") /\ Seats("A", s, None)
    /\ UNCHANGED <<latch, path, attaching>>
Spent(s) ==
    /\ thr["A"][s] = "accepted" /\ Moves("A", s, "spent")
    /\ UNCHANGED <<on, latch, path, attaching>>
Found(s, l) ==
    /\ thr["A"][s] = "spent" /\ Moves("A", s, "found") /\ Seats("A", s, l)
    /\ UNCHANGED <<latch, path, attaching>>
GoOn(side, s) ==
    /\ \/ side = "D" /\ thr[side][s] = "presented" /\ Moves(side, s, "installing")
       \/ side = "A" /\ thr[side][s] = "acking" /\ Moves(side, s, "installing")
       \/ thr[side][s] = "serving" /\ Moves(side, s, "stopped")
       \/ thr[side][s] = "cleared" /\ Moves(side, s, "over")
    /\ UNCHANGED <<on, latch, path, attaching>>
Installed(side, s) ==
    /\ thr[side][s] = "installing" /\ Moves(side, s, "serving") /\ Points(side, on[side][s], s)
    /\ UNCHANGED <<on, latch, attaching>>
Restored(side, s) ==
    /\ thr[side][s] = "stopped" /\ Moves(side, s, "restored") /\ Points(side, on[side][s], None)
    /\ UNCHANGED <<on, latch, attaching>>
Cleared(side, s) ==
    /\ thr[side][s] = "restored" /\ Moves(side, s, "cleared")
    /\ attaching' = IF side = "D" THEN attaching \ {on[side][s]} ELSE attaching
    /\ UNCHANGED <<on, latch, path>>
Fails(side, s) ==
    /\ side = "D" /\ thr[side][s] \in {"dialling", "presented", "installing"}
    /\ Moves(side, s, "failed") /\ Latches(side, on[side][s], FALSE)
    /\ UNCHANGED <<on, path, attaching>>
Ends(side, s) ==
    /\ \/ side = "A" /\ thr[side][s] \in {"acking", "installing"}
       \/ thr[side][s] = "over"
    /\ Moves(side, s, "idle") /\ Seats(side, s, None) /\ Latches(side, on[side][s], FALSE)
    /\ UNCHANGED <<path, attaching>>

Change ==
    \/ Still
    \/ \E l \in Links : Afresh(l)
    \/ \E s \in Socks : Knock(s) \/ Miss(s) \/ Quit(s) \/ Refused(s) \/ Spent(s)
    \/ \E s \in Socks, l \in Links : Start(s, l) \/ Found(s, l)
    \/ \E side \in Sides, s \in Socks :
          \/ Lock(side, s) \/ GoOn(side, s) \/ Installed(side, s) \/ Restored(side, s)
          \/ Cleared(side, s) \/ Fails(side, s) \/ Ends(side, s)

\* The tables of the threads.
LEMMA Tables ==
  ASSUME Shapes, NEW side \in Sides
  PROVE  /\ \A s \in Socks, w \in Walks :
               thr' = [thr EXCEPT ![side][s] = w] => Moves(side, s, w)
         /\ \A s \in Socks, l \in Links \cup {None} :
               on' = [on EXCEPT ![side][s] = l] => Seats(side, s, l)
         /\ \A l \in Links, v \in BOOLEAN :
               latch' = [latch EXCEPT ![side][l] = v] => Latches(side, l, v)
         /\ \A l \in Links, s \in Socks \cup {None} :
               path' = [path EXCEPT ![side][l] = s] => Points(side, l, s)
<1>1. \A s \in Socks, w \in Walks : thr' = [thr EXCEPT ![side][s] = w] => Moves(side, s, w)
  BY Nested DEF Shapes, Moves, Entry
<1>2. \A s \in Socks, l \in Links \cup {None} : on' = [on EXCEPT ![side][s] = l] => Seats(side, s, l)
  BY Nested DEF Shapes, Seats, Entry
<1>3. \A l \in Links, v \in BOOLEAN : latch' = [latch EXCEPT ![side][l] = v] => Latches(side, l, v)
  BY Nested DEF Shapes, Latches, Entry
<1>4. \A l \in Links, s \in Socks \cup {None} : path' = [path EXCEPT ![side][l] = s] => Points(side, l, s)
  BY Nested DEF Shapes, Points, Entry
<1> QED
  BY <1>1, <1>2, <1>3, <1>4

\* A ticket in D's hands starts a dial or nothing.
LEMMA TicketChange ==
  ASSUME Shapes, NEW l \in Links, NEW t, TakeTicket(l, t), UNCHANGED <<latch, path>>
  PROVE  Still \/ \E s \in Socks : Start(s, l)
<1>1. ASSUME UNCHANGED <<attaching, thr, on, carries, reply>> PROVE Still
  BY <1>1 DEF Still
<1>2. ASSUME l \notin attaching, NEW s \in Socks, \A side \in Sides : thr[side][s] = "idle",
             attaching' = attaching \cup {l},
             thr' = [thr EXCEPT !["D"][s] = "dial"], on' = [on EXCEPT !["D"][s] = l]
      PROVE  Start(s, l)
  <2>1. "D" \in Sides /\ "A" \in Sides /\ "dial" \in Walks /\ l \in Links \cup {None}
    BY DEF Sides, Walks
  <2>2. Moves("D", s, "dial") /\ Seats("D", s, l)
    BY <1>2, <2>1, Tables
  <2> QED
    BY <1>2, <2>1, <2>2 DEF Start
<1> QED
  BY <1>1, <1>2 DEF TakeTicket

\* The end of A's thread.
LEMMA EndedChange ==
  ASSUME Shapes, NEW side \in Sides, NEW s \in Socks, Ended(side, s)
  PROVE  Moves(side, s, "idle") /\ Seats(side, s, None)
<1>1. "idle" \in Walks /\ None \in Links \cup {None}
  BY DEF Walks
<1> QED
  BY <1>1, Tables DEF Ended


\* Every step is one of these changes.
LEMMA StepChange == Shapes /\ Seated /\ [Next]_vars => Change
<1> SUFFICES ASSUME Shapes, Seated, [Next]_vars PROVE Change
  OBVIOUS
<1>1. ASSUME NEW l \in Links, Connect(l) PROVE Change
  <2>1. Afresh(l)
    BY <1>1 DEF Connect, Afresh, Sides, sock
  <2> QED
    BY <2>1 DEF Change
<1>2. ASSUME NEW l \in Links, Break(l) PROVE Change
  BY <1>2 DEF Break, Change, Still, ctl, reg, med, tix, sock
<1>3. ASSUME NEW l \in Links, OpenStream(l) PROVE Change
  BY <1>3 DEF OpenStream, Change, Still, ctl, reg, med, tix, sock
<1>4. ASSUME NEW l \in Links, RegisterA(l) PROVE Change
  BY <1>4 DEF RegisterA, Change, Still, ctl, reg, med, tix, sock
<1>5. ASSUME NEW l \in Links, RegisterD(l) PROVE Change
  BY <1>5 DEF RegisterD, Change, Still, ctl, reg, med, tix, sock
<1>6. ASSUME NEW l \in Links, Offer(l) PROVE Change
  BY <1>6 DEF Offer, Change, Still, ctl, reg, med, tix, sock
<1>7. ASSUME NEW l \in Links, NEW t \in Tickets, Mint(l, t) PROVE Change
  BY <1>7 DEF Mint, Change, Still, ctl, reg, med, tix, sock
<1>8. ASSUME NEW l \in Links, PumpEnds(l) PROVE Change
  BY <1>8 DEF PumpEnds, Change, Still, ctl, reg, med, tix, sock
<1>9. ASSUME NEW side \in Sides, NEW l \in Links, Await(side, l) PROVE Change
  BY <1>9 DEF Await, Change, Still, ctl, reg, med, tix, sock
<1>10. ASSUME NEW side \in Sides, NEW l \in Links, Deadline(side, l) PROVE Change
  BY <1>10 DEF Deadline, Change, Still, ctl, reg, med, tix, sock
<1>11. ASSUME NEW l \in Links, OnRequest(l) PROVE Change
  BY <1>11 DEF OnRequest, Change, Still, ctl, reg, med, tix, sock
<1>12. ASSUME NEW l \in Links, Pump(l) PROVE Change
  <2>1. Still \/ \E s \in Socks : Start(s, l)
    <3>1. CASE UNCHANGED <<attaching, thr, on, carries, reply>>
      BY <1>12, <3>1 DEF Pump, Still
    <3>2. ASSUME NEW t, TakeTicket(l, t) PROVE Still \/ \E s \in Socks : Start(s, l)
      BY <1>12, <3>2, TicketChange DEF Pump
    <3> QED
      BY <1>12, <3>1, <3>2 DEF Pump
  <2> QED
    BY <2>1 DEF Change
<1>13. ASSUME NEW l \in Links, Read(l) PROVE Change
  <2>1. Still \/ \E s \in Socks : Start(s, l)
    <3>1. CASE UNCHANGED <<attaching, thr, on, carries, reply>>
      BY <1>13, <3>1 DEF Read, Still
    <3>2. ASSUME NEW t, TakeTicket(l, t) PROVE Still \/ \E s \in Socks : Start(s, l)
      BY <1>13, <3>2, TicketChange DEF Read
    <3> QED
      BY <1>13, <3>1, <3>2 DEF Read
  <2> QED
    BY <2>1 DEF Change
<1>14. ASSUME NEW side \in Sides, NEW l \in Links, Teardown(side, l) PROVE Change
  BY <1>14 DEF Teardown, Change, Still, ctl, reg, med, tix, sock
<1>15. ASSUME NEW side \in Sides, NEW l \in Links, Retire(side, l) PROVE Change
  BY <1>15 DEF Retire, Change, Still, ctl, reg, med, tix, sock
<1>16. ASSUME NEW t \in Tickets, Expire(t) PROVE Change
  BY <1>16 DEF Expire, Change, Still, ctl, reg, med, tix, sock
<1>17. ASSUME NEW s \in Socks, DialFails(s) PROVE Change
  <2>1. "D" \in Sides /\ "failed" \in Walks /\ on["D"][s] \in Links /\ FALSE \in BOOLEAN
    BY <1>17 DEF DialFails, Sides, Walks, Seated, Holding, Walk, Shapes
  <2>2. Moves("D", s, "failed") /\ Latches("D", on["D"][s], FALSE)
    BY <1>17, <2>1, Tables DEF DialFails, Unlatch
  <2>3. Fails("D", s)
    BY <1>17, <2>1, <2>2 DEF DialFails, Fails
  <2> QED
    BY <2>1, <2>3 DEF Change
<1>18. ASSUME NEW s \in Socks, BreakMedia(s) PROVE Change
  BY <1>18 DEF BreakMedia, Change, Still, ctl, reg, med, tix, sock
<1>19. ASSUME NEW s \in Socks, TakeLatch(s) PROVE Change
  <2>1. "D" \in Sides /\ "failed" \in Walks /\ "dialling" \in Walks /\ on["D"][s] \in Links /\ TRUE \in BOOLEAN
    BY <1>19 DEF TakeLatch, Sides, Walks, Seated, Holding, Walk, Shapes
  <2>2. CASE latch["D"][on["D"][s]]
    <3>1. Moves("D", s, "failed")
      BY <1>19, <2>1, <2>2, Tables DEF TakeLatch, Walk
    <3>2. Miss(s)
      BY <1>19, <2>2, <3>1 DEF TakeLatch, Miss
    <3> QED
      BY <3>2 DEF Change
  <2>3. CASE ~latch["D"][on["D"][s]]
    <3>1. Moves("D", s, "dialling") /\ Latches("D", on["D"][s], TRUE)
      BY <1>19, <2>1, <2>3, Tables DEF TakeLatch, Walk
    <3>2. Lock("D", s)
      BY <1>19, <2>3, <3>1 DEF TakeLatch, Lock
    <3> QED
      BY <2>1, <3>2 DEF Change
  <2> QED
    BY <2>2, <2>3
<1>20. ASSUME NEW s \in Socks, Dial(s) PROVE Change
  <2>1. "A" # "D" /\ "A" \in Sides /\ "D" \in Sides /\ thr \in [Sides -> [Socks -> Walks]]
    BY DEF Sides, Shapes
  <2>2. thr' = [thr EXCEPT !["D"][s] = "presented", !["A"][s] = "accepted"]
    BY <1>20 DEF Dial
  <2>3. /\ thr'["D"][s] = "presented" /\ thr'["A"][s] = "accepted"
        /\ \A side \in Sides, r \in Socks \ {s} : thr'[side][r] = thr[side][r]
    <3>1. "presented" \in Walks /\ "accepted" \in Walks
      BY DEF Walks, Holding
    <3> DEFINE f == [thr EXCEPT !["D"][s] = "presented"]
    <3>2. /\ f \in [Sides -> [Socks -> Walks]] /\ f["D"][s] = "presented"
          /\ \A x \in Sides, y \in Socks : x # "D" \/ y # s => f[x][y] = thr[x][y]
      BY <2>1, <3>1, Nested
    <3>3. thr' = [f EXCEPT !["A"][s] = "accepted"]
      BY <2>2
    <3> HIDE DEF f
    <3>4. /\ thr'["A"][s] = "accepted"
          /\ \A x \in Sides, y \in Socks : x # "A" \/ y # s => thr'[x][y] = f[x][y]
      BY <2>1, <3>1, <3>2, <3>3, Nested
    <3> QED
      BY <2>1, <3>2, <3>4
  <2>4. Knock(s)
    BY <1>20, <2>3 DEF Dial, Knock, med
  <2> QED
    BY <2>4 DEF Change
<1>21. ASSUME NEW s \in Socks, Accepted(s) PROVE Change
  <2>1. "D" \in Sides /\ "installing" \in Walks
    BY <1>21 DEF Accepted, Sides, Walks, Seated, Holding, Walk, Shapes
  <2>2. Moves("D", s, "installing")
    BY <1>21, <2>1, Tables DEF Accepted, Walk
  <2>3. GoOn("D", s)
    BY <1>21, <2>1, <2>2 DEF Accepted, GoOn, Walk, med
  <2> QED
    BY <2>1, <2>3 DEF Change
<1>22. ASSUME NEW s \in Socks, GiveUp(s) PROVE Change
  <2>1. "D" \in Sides
    BY <1>22 DEF GiveUp, Sides, Walks, Seated, Holding, Walk, Shapes
  <2>2. Moves("D", s, "idle") /\ Seats("D", s, None)
    BY <1>22, <2>1, EndedChange DEF GiveUp
  <2>3. Quit(s)
    BY <1>22, <2>1, <2>2 DEF GiveUp, Quit
  <2> QED
    BY <2>1, <2>3 DEF Change
<1>23. ASSUME NEW s \in Socks, Spend(s) PROVE Change
  <2>1. "A" \in Sides
    BY DEF Sides
  <2>2. CASE Refuse(s)
    <3>1. Moves("A", s, "idle") /\ Seats("A", s, None)
      BY <2>1, <2>2, EndedChange DEF Refuse
    <3>2. thr["A"][s] = "accepted" /\ UNCHANGED <<path, attaching>>
      BY <1>23 DEF Spend, reg, med
    <3>3. UNCHANGED latch
      BY <1>23 DEF Spend, med
    <3>4. Refused(s)
      BY <3>1, <3>2, <3>3 DEF Refused
    <3> QED
      BY <3>4 DEF Change
  <2>3. CASE Walk("A", s, "accepted", "spent") /\ UNCHANGED on
    <3>1. "spent" \in Walks
      BY DEF Walks
    <3>2. Moves("A", s, "spent")
      BY <2>1, <2>3, <3>1, Tables DEF Walk
    <3>3. Spent(s)
      BY <1>23, <2>3, <3>2 DEF Spend, Spent, med
    <3> QED
      BY <3>3 DEF Change
  <2> QED
    BY <1>23, <2>2, <2>3 DEF Spend
<1>24. ASSUME NEW s \in Socks, FindConn(s) PROVE Change
  <2>1. "A" \in Sides
    BY DEF Sides
  <2>2. CASE Refuse(s)
    <3>1. Moves("A", s, "idle") /\ Seats("A", s, None)
      BY <2>1, <2>2, EndedChange DEF Refuse
    <3>2. thr["A"][s] = "spent" /\ UNCHANGED <<path, attaching>>
      BY <1>24 DEF FindConn, reg, med
    <3>3. UNCHANGED latch
      BY <1>24 DEF FindConn, med
    <3>4. Refused(s)
      BY <3>1, <3>2, <3>3 DEF Refused
    <3> QED
      BY <3>4 DEF Change
  <2>3. CASE Walk("A", s, "spent", "found") /\ conns # None /\ on' = [on EXCEPT !["A"][s] = conns]
    <3>1. "found" \in Walks /\ conns \in Links /\ conns \in Links \cup {None}
      BY <2>3 DEF Walks, Shapes
    <3>2. Moves("A", s, "found") /\ Seats("A", s, conns)
      BY <2>1, <2>3, <3>1, Tables DEF Walk
    <3>3. Found(s, conns)
      BY <1>24, <2>3, <3>2 DEF FindConn, Found, med
    <3> QED
      BY <3>1, <3>3 DEF Change
  <2> QED
    BY <1>24, <2>2, <2>3 DEF FindConn
<1>25. ASSUME NEW s \in Socks, ClaimLatch(s) PROVE Change
  <2>1. "A" \in Sides /\ "acking" \in Walks /\ on["A"][s] \in Links /\ TRUE \in BOOLEAN
    BY <1>25 DEF ClaimLatch, Sides, Walks, Seated, Holding
  <2>2. CASE latch["A"][on["A"][s]]
    <3>1. Moves("A", s, "idle") /\ Seats("A", s, None)
      BY <1>25, <2>1, <2>2, EndedChange DEF ClaimLatch, Refuse
    <3>2. Refused(s)
      BY <1>25, <2>2, <3>1 DEF ClaimLatch, Refused, reg
    <3> QED
      BY <3>2 DEF Change
  <2>3. CASE ~latch["A"][on["A"][s]]
    <3>1. Moves("A", s, "acking") /\ Latches("A", on["A"][s], TRUE)
      BY <1>25, <2>1, <2>3, Tables DEF ClaimLatch, Walk
    <3>2. Lock("A", s)
      BY <1>25, <2>3, <3>1 DEF ClaimLatch, Lock
    <3> QED
      BY <2>1, <3>2 DEF Change
  <2> QED
    BY <2>2, <2>3
<1>26. ASSUME NEW s \in Socks, Ack(s) PROVE Change
  <2>1. "A" \in Sides /\ "installing" \in Walks /\ on["A"][s] \in Links /\ FALSE \in BOOLEAN
    BY <1>26 DEF Ack, Sides, Walks, Seated, Holding
  <2>2. CASE open[s]
    <3>1. Moves("A", s, "installing")
      BY <1>26, <2>1, <2>2, Tables DEF Ack, Walk
    <3>2. GoOn("A", s)
      BY <1>26, <2>2, <3>1 DEF Ack, GoOn
    <3> QED
      BY <2>1, <3>2 DEF Change
  <2>3. CASE ~open[s]
    <3>1. Moves("A", s, "idle") /\ Seats("A", s, None) /\ Latches("A", on["A"][s], FALSE)
      BY <1>26, <2>1, <2>3, Tables, EndedChange DEF Ack, Unlatch
    <3>2. Ends("A", s)
      BY <1>26, <2>3, <3>1 DEF Ack, Ends
    <3> QED
      BY <2>1, <3>2 DEF Change
  <2> QED
    BY <2>2, <2>3
<1>27. ASSUME NEW side \in Sides, NEW s \in Socks, Install(side, s) PROVE Change
  <2>1. "serving" \in Walks /\ on[side][s] \in Links /\ s \in Socks \cup {None}
    BY <1>27 DEF Install, Sides, Walks, Seated, Holding, Walk, Shapes
  <2>2. Moves(side, s, "serving") /\ Points(side, on[side][s], s)
    BY <1>27, <2>1, Tables DEF Install, Walk
  <2>3. Installed(side, s)
    BY <1>27, <2>1, <2>2 DEF Install, Installed, Walk
  <2> QED
    BY <2>1, <2>3 DEF Change
<1>28. ASSUME NEW side \in Sides, NEW s \in Socks, Leave(side, s) PROVE Change
  <2>1. on[side][s] \in Links /\ FALSE \in BOOLEAN
    BY <1>28 DEF Leave, Sides, Walks, Seated, Holding, Walk, Shapes
  <2>2. Moves(side, s, "idle") /\ Seats(side, s, None) /\ Latches(side, on[side][s], FALSE)
    BY <1>28, <2>1, Tables, EndedChange DEF Leave, Unlatch
  <2>3. Ends(side, s)
    BY <1>28, <2>1, <2>2 DEF Leave, Ends
  <2> QED
    BY <2>1, <2>3 DEF Change
<1>29. ASSUME NEW side \in Sides, NEW s \in Socks, Stop(side, s) PROVE Change
  <2>1. "stopped" \in Walks
    BY <1>29 DEF Stop, Sides, Walks, Seated, Holding, Walk, Shapes
  <2>2. Moves(side, s, "stopped")
    BY <1>29, <2>1, Tables DEF Stop, Walk
  <2>3. GoOn(side, s)
    BY <1>29, <2>1, <2>2 DEF Stop, GoOn, Walk, med
  <2> QED
    BY <2>1, <2>3 DEF Change
<1>30. ASSUME NEW side \in Sides, NEW s \in Socks, Restore(side, s) PROVE Change
  <2>1. "restored" \in Walks /\ on[side][s] \in Links /\ None \in Socks \cup {None}
    BY <1>30 DEF Restore, Sides, Walks, Seated, Holding, Walk, Shapes
  <2>2. Moves(side, s, "restored") /\ Points(side, on[side][s], None)
    BY <1>30, <2>1, Tables DEF Restore, Walk
  <2>3. Restored(side, s)
    BY <1>30, <2>1, <2>2 DEF Restore, Restored, Walk
  <2> QED
    BY <2>1, <2>3 DEF Change
<1>31. ASSUME NEW side \in Sides, NEW s \in Socks, Clear(side, s) PROVE Change
  <2>1. "cleared" \in Walks
    BY <1>31 DEF Clear, Sides, Walks, Seated, Holding, Walk, Shapes
  <2>2. Moves(side, s, "cleared")
    BY <1>31, <2>1, Tables DEF Clear, Walk
  <2>3. Cleared(side, s)
    BY <1>31, <2>1, <2>2 DEF Clear, Cleared, Walk
  <2> QED
    BY <2>1, <2>3 DEF Change
<1>32. ASSUME NEW side \in Sides, NEW s \in Socks, DropControl(side, s) PROVE Change
  <2>1. "over" \in Walks
    BY <1>32 DEF DropControl, Sides, Walks, Seated, Holding, Walk, Shapes
  <2>2. Moves(side, s, "over")
    BY <1>32, <2>1, Tables DEF DropControl, Walk
  <2>3. GoOn(side, s)
    BY <1>32, <2>1, <2>2 DEF DropControl, GoOn, Walk, med
  <2> QED
    BY <2>1, <2>3 DEF Change
<1>33. ASSUME NEW side \in Sides, NEW s \in Socks, InstallFails(side, s) PROVE Change
  <2>1. on[side][s] \in Links /\ FALSE \in BOOLEAN /\ "failed" \in Walks /\ thr[side][s] = "installing"
    BY <1>33 DEF InstallFails, Seated, Holding, Walks
  <2>2. Latches(side, on[side][s], FALSE) /\ UNCHANGED <<path, attaching>>
    BY <1>33, <2>1, Tables DEF InstallFails, Unlatch, reg
  <2>3. CASE side = "D"
    <3>1. Moves(side, s, "failed") /\ UNCHANGED on
      BY <1>33, <2>1, <2>3, Tables DEF InstallFails, Walk
    <3>2. Fails(side, s)
      BY <2>1, <2>2, <2>3, <3>1 DEF Fails
    <3> QED
      BY <3>2 DEF Change
  <2>4. CASE side = "A"
    <3>1. Moves(side, s, "idle") /\ Seats(side, s, None)
      BY <1>33, <2>4, EndedChange DEF InstallFails
    <3>2. Ends(side, s)
      BY <2>1, <2>2, <2>4, <3>1 DEF Ends
    <3> QED
      BY <3>2 DEF Change
  <2> QED
    BY <2>3, <2>4 DEF Sides
<1>34. ASSUME UNCHANGED vars PROVE Change
  BY <1>34 DEF vars, Change, Still, med, sock
<1> QED
  BY <1>1, <1>2, <1>3, <1>4, <1>5, <1>6, <1>7, <1>8, <1>9, <1>10, <1>11, <1>12, <1>13, <1>14,
     <1>15, <1>16, <1>17, <1>18, <1>19, <1>20, <1>21, <1>22, <1>23, <1>24, <1>25, <1>26, <1>27,
     <1>28, <1>29, <1>30, <1>31, <1>32, <1>33, <1>34
     DEF Next, RegisterStep, ReaderStep, AttachStep, ServeEnds

-----------------------------------------------------------------------------
(* The changes keep what is said of the threads.                           *)

\* A thread that has chosen its connection stays on one.
LEMMA StepSeated == ASSUME Shapes, Seated, Change PROVE Seated'
<1> USE DEF Seated, Holding, Sides
<1>1. ASSUME Still PROVE Seated'
  BY <1>1 DEF Still
<1>2. ASSUME NEW l \in Links, Afresh(l) PROVE Seated'
  BY <1>2 DEF Afresh, Servants
<1>3. ASSUME NEW s \in Socks, NEW l \in Links, Start(s, l) PROVE Seated'
  BY <1>3 DEF Start, Moves, Seats, Entry
<1>4. ASSUME NEW side \in Sides, NEW s \in Socks, Lock(side, s) PROVE Seated'
  BY <1>4 DEF Lock, Moves, Latches, Entry
<1>5. ASSUME NEW s \in Socks, Knock(s) PROVE Seated'
  BY <1>5 DEF Knock
<1>6. ASSUME NEW s \in Socks, Miss(s) PROVE Seated'
  BY <1>6 DEF Miss, Moves, Entry
<1>7. ASSUME NEW s \in Socks, Quit(s) PROVE Seated'
  BY <1>7 DEF Quit, Moves, Seats, Entry
<1>8. ASSUME NEW s \in Socks, Refused(s) PROVE Seated'
  BY <1>8 DEF Refused, Moves, Seats, Entry
<1>9. ASSUME NEW s \in Socks, Spent(s) PROVE Seated'
  BY <1>9 DEF Spent, Moves, Entry
<1>10. ASSUME NEW s \in Socks, NEW l \in Links, Found(s, l) PROVE Seated'
  BY <1>10 DEF Found, Moves, Seats, Entry
<1>11. ASSUME NEW side \in Sides, NEW s \in Socks, GoOn(side, s) PROVE Seated'
  BY <1>11 DEF GoOn, Moves, Entry
<1>12. ASSUME NEW side \in Sides, NEW s \in Socks, Installed(side, s) PROVE Seated'
  BY <1>12 DEF Installed, Moves, Points, Entry
<1>13. ASSUME NEW side \in Sides, NEW s \in Socks, Restored(side, s) PROVE Seated'
  BY <1>13 DEF Restored, Moves, Points, Entry
<1>14. ASSUME NEW side \in Sides, NEW s \in Socks, Cleared(side, s) PROVE Seated'
  BY <1>14 DEF Cleared, Moves, Entry
<1>15. ASSUME NEW side \in Sides, NEW s \in Socks, Fails(side, s) PROVE Seated'
  BY <1>15 DEF Fails, Moves, Latches, Entry
<1>16. ASSUME NEW side \in Sides, NEW s \in Socks, Ends(side, s) PROVE Seated'
  BY <1>16 DEF Ends, Moves, Seats, Latches, Entry
<1> QED
  BY <1>1, <1>2, <1>3, <1>4, <1>5, <1>6, <1>7, <1>8, <1>9, <1>10, <1>11, <1>12, <1>13, <1>14,
     <1>15, <1>16 DEF Change

\* The latch stays with the one thread that holds it.
LEMMA StepLatched == ASSUME Shapes, Seated, Latched, Change PROVE Latched'
<1> SUFFICES ASSUME NEW sd \in Sides, NEW k \in Links
             PROVE  /\ \A q \in Socks : Holds(sd, q, k)' => latch'[sd][k]
                    /\ \A q, r \in Socks : Holds(sd, q, k)' /\ Holds(sd, r, k)' => q = r
                    /\ latch'[sd][k] => \E q \in Socks : Holds(sd, q, k)'
  BY DEF Latched, Sides
<1> DEFINE Goal == /\ \A q \in Socks : Holds(sd, q, k)' => latch'[sd][k]
                   /\ \A q, r \in Socks : Holds(sd, q, k)' /\ Holds(sd, r, k)' => q = r
                   /\ latch'[sd][k] => \E q \in Socks : Holds(sd, q, k)'
<1> USE DEF Seated, Latched, Holds, Holding, Sides
<1>1. ASSUME Still PROVE Goal
  BY <1>1 DEF Still
<1>2. ASSUME NEW l \in Links, Afresh(l) PROVE Goal
  BY <1>2 DEF Afresh, Servants
<1>3. ASSUME NEW s \in Socks, NEW l \in Links, Start(s, l) PROVE Goal
  BY <1>3 DEF Start, Moves, Seats, Entry
<1>4. ASSUME NEW side \in Sides, NEW s \in Socks, Lock(side, s) PROVE Goal
  BY <1>4 DEF Lock, Moves, Latches, Entry
<1>5. ASSUME NEW s \in Socks, Knock(s) PROVE Goal
  BY <1>5 DEF Knock
<1>6. ASSUME NEW s \in Socks, Miss(s) PROVE Goal
  BY <1>6 DEF Miss, Moves, Entry
<1>7. ASSUME NEW s \in Socks, Quit(s) PROVE Goal
  BY <1>7 DEF Quit, Moves, Seats, Entry
<1>8. ASSUME NEW s \in Socks, Refused(s) PROVE Goal
  BY <1>8 DEF Refused, Moves, Seats, Entry
<1>9. ASSUME NEW s \in Socks, Spent(s) PROVE Goal
  BY <1>9 DEF Spent, Moves, Entry
<1>10. ASSUME NEW s \in Socks, NEW l \in Links, Found(s, l) PROVE Goal
  BY <1>10 DEF Found, Moves, Seats, Entry
<1>11. ASSUME NEW side \in Sides, NEW s \in Socks, GoOn(side, s) PROVE Goal
  BY <1>11 DEF GoOn, Moves, Entry
<1>12. ASSUME NEW side \in Sides, NEW s \in Socks, Installed(side, s) PROVE Goal
  BY <1>12 DEF Installed, Moves, Points, Entry
<1>13. ASSUME NEW side \in Sides, NEW s \in Socks, Restored(side, s) PROVE Goal
  BY <1>13 DEF Restored, Moves, Points, Entry
<1>14. ASSUME NEW side \in Sides, NEW s \in Socks, Cleared(side, s) PROVE Goal
  BY <1>14 DEF Cleared, Moves, Entry
<1>15. ASSUME NEW side \in Sides, NEW s \in Socks, Fails(side, s) PROVE Goal
  BY <1>15 DEF Fails, Moves, Latches, Entry
<1>16. ASSUME NEW side \in Sides, NEW s \in Socks, Ends(side, s) PROVE Goal
  BY <1>16, SMTT(30) DEF Ends, Moves, Seats, Latches, Entry
<1> HIDE DEF Seated, Latched, Holds, Holding, Sides
<1> QED
  BY <1>1, <1>2, <1>3, <1>4, <1>5, <1>6, <1>7, <1>8, <1>9, <1>10, <1>11, <1>12, <1>13, <1>14,
     <1>15, <1>16 DEF Change

\* A media path keeps pointing to a link that is served.
LEMMA StepServed == ASSUME Shapes, Seated, PathIsServed, Change PROVE PathIsServed'
<1> SUFFICES ASSUME NEW sd \in Sides, NEW k \in Links, path'[sd][k] # None
             PROVE  /\ on'[sd][path'[sd][k]] = k
                    /\ thr'[sd][path'[sd][k]] \in {"serving", "stopped"}
  BY DEF PathIsServed, Sides
<1> DEFINE Goal == /\ on'[sd][path'[sd][k]] = k
                   /\ thr'[sd][path'[sd][k]] \in {"serving", "stopped"}
<1>0. /\ path[sd][k] \in Socks \cup {None}
      /\ path[sd][k] # None => /\ on[sd][path[sd][k]] = k
                               /\ thr[sd][path[sd][k]] \in {"serving", "stopped"}
      /\ None \notin Socks
  BY AttachConstants DEF Shapes, PathIsServed
<1> USE <1>0 DEF Seated, Sides
<1>1. ASSUME Still PROVE Goal
  BY <1>1 DEF Still
<1>2. ASSUME NEW l \in Links, Afresh(l) PROVE Goal
  BY <1>2 DEF Afresh, Servants
<1>3. ASSUME NEW s \in Socks, NEW l \in Links, Start(s, l) PROVE Goal
  BY <1>3 DEF Start, Moves, Seats, Entry
<1>4. ASSUME NEW side \in Sides, NEW s \in Socks, Lock(side, s) PROVE Goal
  BY <1>4 DEF Lock, Moves, Latches, Entry
<1>5. ASSUME NEW s \in Socks, Knock(s) PROVE Goal
  BY <1>5 DEF Knock
<1>6. ASSUME NEW s \in Socks, Miss(s) PROVE Goal
  BY <1>6 DEF Miss, Moves, Entry
<1>7. ASSUME NEW s \in Socks, Quit(s) PROVE Goal
  BY <1>7 DEF Quit, Moves, Seats, Entry
<1>8. ASSUME NEW s \in Socks, Refused(s) PROVE Goal
  BY <1>8 DEF Refused, Moves, Seats, Entry
<1>9. ASSUME NEW s \in Socks, Spent(s) PROVE Goal
  BY <1>9 DEF Spent, Moves, Entry
<1>10. ASSUME NEW s \in Socks, NEW l \in Links, Found(s, l) PROVE Goal
  BY <1>10 DEF Found, Moves, Seats, Entry
<1>11. ASSUME NEW side \in Sides, NEW s \in Socks, GoOn(side, s) PROVE Goal
  BY <1>11 DEF GoOn, Moves, Entry
<1>12. ASSUME NEW side \in Sides, NEW s \in Socks, Installed(side, s) PROVE Goal
  BY <1>12 DEF Installed, Moves, Points, Entry
<1>13. ASSUME NEW side \in Sides, NEW s \in Socks, Restored(side, s) PROVE Goal
  BY <1>13 DEF Restored, Moves, Points, Entry
<1>14. ASSUME NEW side \in Sides, NEW s \in Socks, Cleared(side, s) PROVE Goal
  BY <1>14 DEF Cleared, Moves, Entry
<1>15. ASSUME NEW side \in Sides, NEW s \in Socks, Fails(side, s) PROVE Goal
  BY <1>15 DEF Fails, Moves, Latches, Entry
<1>16. ASSUME NEW side \in Sides, NEW s \in Socks, Ends(side, s) PROVE Goal
  BY <1>16 DEF Ends, Moves, Seats, Latches, Entry
<1> QED
  BY <1>1, <1>2, <1>3, <1>4, <1>5, <1>6, <1>7, <1>8, <1>9, <1>10, <1>11, <1>12, <1>13, <1>14,
     <1>15, <1>16 DEF Change

\* media_attaching keeps speaking of the one dial under way.
LEMMA StepAttached == ASSUME Shapes, Seated, Attached, Change PROVE Attached'
<1>a. attaching' \subseteq Links
  BY ZenonT(60)
     DEF Attached, Change, Still, Afresh, Start, Lock, Knock, Miss, Quit, Refused, Spent,
         Found, GoOn, Installed, Restored, Cleared, Fails, Ends
<1> SUFFICES ASSUME NEW k \in Links
             PROVE  /\ \A q \in Socks : Attaches(q, k)' => k \in attaching'
                    /\ \A q, r \in Socks : Attaches(q, k)' /\ Attaches(r, k)' => q = r
                    /\ k \in attaching' => \E q \in Socks : Attaches(q, k)'
  BY <1>a DEF Attached
<1> DEFINE Goal == /\ \A q \in Socks : Attaches(q, k)' => k \in attaching'
                   /\ \A q, r \in Socks : Attaches(q, k)' /\ Attaches(r, k)' => q = r
                   /\ k \in attaching' => \E q \in Socks : Attaches(q, k)'
<1> USE DEF Seated, Attached, Attaches, Sides
<1>1. ASSUME Still PROVE Goal
  BY <1>1 DEF Still
<1>2. ASSUME NEW l \in Links, Afresh(l) PROVE Goal
  BY <1>2 DEF Afresh, Servants
<1>3. ASSUME NEW s \in Socks, NEW l \in Links, Start(s, l) PROVE Goal
  BY <1>3 DEF Start, Moves, Seats, Entry
<1>4. ASSUME NEW side \in Sides, NEW s \in Socks, Lock(side, s) PROVE Goal
  BY <1>4 DEF Lock, Moves, Latches, Entry
<1>5. ASSUME NEW s \in Socks, Knock(s) PROVE Goal
  BY <1>5 DEF Knock
<1>6. ASSUME NEW s \in Socks, Miss(s) PROVE Goal
  BY <1>6 DEF Miss, Moves, Entry
<1>7. ASSUME NEW s \in Socks, Quit(s) PROVE Goal
  BY <1>7 DEF Quit, Moves, Seats, Entry
<1>8. ASSUME NEW s \in Socks, Refused(s) PROVE Goal
  BY <1>8 DEF Refused, Moves, Seats, Entry
<1>9. ASSUME NEW s \in Socks, Spent(s) PROVE Goal
  BY <1>9 DEF Spent, Moves, Entry
<1>10. ASSUME NEW s \in Socks, NEW l \in Links, Found(s, l) PROVE Goal
  BY <1>10 DEF Found, Moves, Seats, Entry
<1>11. ASSUME NEW side \in Sides, NEW s \in Socks, GoOn(side, s) PROVE Goal
  BY <1>11 DEF GoOn, Moves, Entry
<1>12. ASSUME NEW side \in Sides, NEW s \in Socks, Installed(side, s) PROVE Goal
  BY <1>12 DEF Installed, Moves, Points, Entry
<1>13. ASSUME NEW side \in Sides, NEW s \in Socks, Restored(side, s) PROVE Goal
  BY <1>13 DEF Restored, Moves, Points, Entry
<1>14. ASSUME NEW side \in Sides, NEW s \in Socks, Cleared(side, s) PROVE Goal
  BY <1>14 DEF Cleared, Moves, Entry
<1>15. ASSUME NEW side \in Sides, NEW s \in Socks, Fails(side, s) PROVE Goal
  BY <1>15 DEF Fails, Moves, Latches, Entry
<1>16. ASSUME NEW side \in Sides, NEW s \in Socks, Ends(side, s) PROVE Goal
  BY <1>16 DEF Ends, Moves, Seats, Latches, Entry
<1> QED
  BY <1>1, <1>2, <1>3, <1>4, <1>5, <1>6, <1>7, <1>8, <1>9, <1>10, <1>11, <1>12, <1>13, <1>14,
     <1>15, <1>16 DEF Change

-----------------------------------------------------------------------------
(* The order of the control channel.                                       *)

\* A message at the end of the channel: one that opens a stream needs a mode ahead.
LEMMA Appended ==
  ASSUME NEW q \in Seq(Messages), NEW m \in Messages
  PROVE  /\ HasMode(q) \/ m = "mode" => HasMode(Append(q, m))
         /\ Led(q) /\ (m = "open" => HasMode(q)) => Led(Append(q, m))
<1> HIDE DEF Messages
<1> DEFINE p == Append(q, m)
<1>1. /\ Len(q) \in Nat /\ DOMAIN q = 1 .. Len(q)
      /\ DOMAIN p = 1 .. Len(q) + 1
      /\ \A i \in 1 .. Len(q) : p[i] = q[i]
      /\ p[Len(q) + 1] = m
  BY AppendProperties, LenProperties
<1> HIDE DEF p
<1>2. ASSUME HasMode(q) \/ m = "mode" PROVE HasMode(p)
  BY <1>1, <1>2 DEF HasMode
<1>3. ASSUME Led(q), m = "open" => HasMode(q) PROVE Led(p)
  <2> SUFFICES ASSUME NEW j \in DOMAIN p, p[j] = "open"
               PROVE  \E i \in DOMAIN p : i < j /\ p[i] = "mode"
    BY DEF Led
  <2>1. CASE j \in DOMAIN q
    <3>1. PICK i \in DOMAIN q : i < j /\ q[i] = "mode"
      BY <1>1, <1>3, <2>1 DEF Led
    <3> QED
      BY <1>1, <3>1
  <2>2. CASE j = Len(q) + 1
    <3>1. PICK i \in DOMAIN q : q[i] = "mode"
      BY <1>1, <1>3, <2>2 DEF HasMode
    <3> QED
      BY <1>1, <2>2, <3>1
  <2> QED
    BY <1>1, <2>1, <2>2
<1> QED
  BY <1>2, <1>3 DEF p

\* A message taken from the front: the first of a channel in order opens no
\* stream, and the rest is in order unless the mode has gone.
LEMMA Taken ==
  ASSUME NEW q \in Seq(Messages), q # << >>
  PROVE  /\ Led(q) => Head(q) # "open"
         /\ HasMode(q) /\ Head(q) # "mode" => HasMode(Tail(q))
         /\ Led(q) /\ Head(q) # "mode" => Led(Tail(q))
<1> DEFINE p == Tail(q)
<1>1. /\ Len(q) \in Nat /\ Len(q) >= 1 /\ DOMAIN q = 1 .. Len(q)
      /\ DOMAIN p = 1 .. Len(q) - 1
      /\ \A i \in 1 .. Len(q) - 1 : p[i] = q[i + 1]
      /\ Head(q) = q[1]
  BY Taking, LenProperties
<1> HIDE DEF p
<1>2. ASSUME Led(q) PROVE Head(q) # "open"
  BY <1>1, <1>2 DEF Led
<1>3. ASSUME HasMode(q), Head(q) # "mode" PROVE HasMode(p)
  <2>1. PICK i \in DOMAIN q : q[i] = "mode"
    BY <1>3 DEF HasMode
  <2>2. i # 1 /\ i - 1 \in DOMAIN p /\ p[i - 1] = "mode"
    BY <1>1, <1>3, <2>1
  <2> QED
    BY <2>2 DEF HasMode
<1>4. ASSUME Led(q), Head(q) # "mode" PROVE Led(p)
  <2> SUFFICES ASSUME NEW j \in DOMAIN p, p[j] = "open"
               PROVE  \E i \in DOMAIN p : i < j /\ p[i] = "mode"
    BY DEF Led
  <2>1. j + 1 \in DOMAIN q /\ q[j + 1] = "open"
    BY <1>1
  <2>2. PICK i \in DOMAIN q : i < j + 1 /\ q[i] = "mode"
    BY <1>4, <2>1 DEF Led
  <2>3. i # 1 /\ i - 1 \in DOMAIN p /\ p[i - 1] = "mode" /\ i - 1 < j
    BY <1>1, <1>4, <2>2
  <2> QED
    BY <2>3
<1> QED
  BY <1>2, <1>3, <1>4 DEF p

\* What A has sent on a connection that it has published.
Published(l) == at["A"][l] \notin {"none", "greet"}

\* A step that leaves the channel, the park and the streams of a connection alone,
\* and neither raises nor publishes it.
LEMMA Untouched ==
  ASSUME NEW k \in Links, InOrder(k),
         toD'[k] = toD[k], deferred'[k] = deferred[k], bound'["D"][k] = bound["D"][k],
         k \in told => k \in told', up'[k] => up[k], up'[k] /\ Published(k)' => Published(k)
  PROVE  InOrder(k)'
  BY DEF InOrder, Published

\* A sends a message: the mode as it publishes, or a stream once it has.
LEMMA Said ==
  ASSUME Shapes, NEW k \in Links, InOrder(k), NEW m \in Messages,
         toD'[k] = Append(toD[k], m), deferred'[k] = deferred[k], bound'["D"][k] = bound["D"][k],
         told' = told, up[k], m = "open" => Published(k),
         m = "mode" \/ (Published(k)' => Published(k))
  PROVE  InOrder(k)'
<1>1. toD[k] \in Seq(Messages)
  BY DEF Shapes
<1>2. /\ HasMode(toD[k]) \/ m = "mode" => HasMode(toD'[k])
      /\ Led(toD[k]) /\ (m = "open" => HasMode(toD[k])) => Led(toD'[k])
  BY <1>1, Appended
<1> QED
  BY <1>2 DEF InOrder, Published

\* D's pump takes a message from the channel, and parks the modes and the streams.
LEMMA Parked ==
  ASSUME Shapes, NEW k \in Links, InOrder(k), toD[k] # << >>, toD'[k] = Tail(toD[k]),
         deferred'[k] = IF Head(toD[k]) \in {"mode", "open"} THEN Append(deferred[k], Head(toD[k]))
                                                             ELSE deferred[k],
         bound'["D"][k] = bound["D"][k], told' = told, up'[k] = up[k], Published(k)' = Published(k)
  PROVE  InOrder(k)'
<1> DEFINE m == Head(toD[k])
<1>1. toD[k] \in Seq(Messages) /\ deferred[k] \in Seq(Messages)
  BY DEF Shapes
<1>2. m \in Messages
  BY <1>1, Taking
<1>3. /\ Led(toD[k]) => m # "open"
      /\ HasMode(toD[k]) /\ m # "mode" => HasMode(toD'[k])
      /\ Led(toD[k]) /\ m # "mode" => Led(toD'[k])
  BY <1>1, Taken
<1>4. /\ HasMode(deferred[k]) \/ m = "mode" => HasMode(Append(deferred[k], m))
      /\ Led(deferred[k]) /\ (m = "open" => HasMode(deferred[k])) => Led(Append(deferred[k], m))
  BY <1>1, <1>2, Appended
<1>5. deferred'[k] = IF m \in {"mode", "open"} THEN Append(deferred[k], m) ELSE deferred[k]
  OBVIOUS
<1> HIDE DEF m
<1>6. CASE m = "mode"
  BY <1>3, <1>4, <1>5, <1>6 DEF InOrder, Published
<1>7. CASE m = "open"
  BY <1>3, <1>4, <1>5, <1>7 DEF InOrder, Published
<1>8. CASE m \notin {"mode", "open"}
  BY <1>3, <1>5, <1>8 DEF InOrder, Published
<1> QED
  BY <1>6, <1>7, <1>8

\* D's reader takes a message, from the park as long as it holds one.
LEMMA Heard ==
  ASSUME Shapes, NEW k \in Links, InOrder(k),
         NEW src, src = (IF deferred[k] # << >> THEN deferred[k] ELSE toD[k]), src # << >>,
         IF deferred[k] # << >> THEN deferred'[k] = Tail(src) /\ toD'[k] = toD[k]
                                ELSE toD'[k] = Tail(src) /\ deferred'[k] = deferred[k],
         Head(src) # "open" => bound'["D"][k] = bound["D"][k],
         told' = IF Head(src) = "mode" THEN told \cup {k} ELSE told,
         up'[k] = up[k], Published(k)' = Published(k)
  PROVE  InOrder(k)'
<1>1. src \in Seq(Messages)
  BY DEF Shapes
<1>2. /\ Led(src) => Head(src) # "open"
      /\ HasMode(src) /\ Head(src) # "mode" => HasMode(Tail(src))
      /\ Led(src) /\ Head(src) # "mode" => Led(Tail(src))
  BY <1>1, Taken
<1>3. ~HasMode(<< >>)
  BY DEF HasMode
<1>4. CASE k \in told
  BY <1>4 DEF InOrder
<1>5. CASE Head(src) = "mode"
  BY <1>5 DEF InOrder
<1>6. CASE k \notin told /\ Head(src) # "mode" /\ deferred[k] # << >>
  BY <1>2, <1>6 DEF InOrder, Published
<1>7. CASE k \notin told /\ Head(src) # "mode" /\ deferred[k] = << >>
  BY <1>2, <1>3, <1>7 DEF InOrder, Published
<1> QED
  BY <1>4, <1>5, <1>6, <1>7

\* No step lets a stream of the peer get ahead of its mode.
LEMMA StepOrdered == Shapes /\ Ordered /\ [Next]_vars => Ordered'
<1> SUFFICES ASSUME Shapes, Ordered, [Next]_vars, NEW k \in Links PROVE InOrder(k)'
  BY DEF Ordered
<1> USE DEF Shapes, Published, Sides, Step, Walk, Fault, ctl, reg, med, tix, sock, vars
<1>0. InOrder(k)
  BY DEF Ordered
<1> USE <1>0
<1>1. ASSUME NEW l \in Links, Connect(l) PROVE InOrder(k)'
  <2>1. CASE k # l
    BY <1>1, <2>1, Untouched DEF Connect
  <2>2. CASE k = l
    <3>1. toD'[k] = << >> /\ deferred'[k] = << >> /\ bound'["D"][k] = {} /\ at'["A"][k] = "greet"
      BY <1>1, <2>2 DEF Connect
    <3>2. Led(<< >>)
      BY DEF Led
    <3> QED
      BY <3>1, <3>2 DEF InOrder
  <2> QED
    BY <2>1, <2>2
<1>2. ASSUME NEW l \in Links, Break(l) PROVE InOrder(k)'
  <2>1. /\ toD' = toD \/ toD' = [toD EXCEPT ![l] = << >>]
        /\ up' = [up EXCEPT ![l] = FALSE]
        /\ UNCHANGED <<deferred, bound, told, at>>
    BY <1>2 DEF Break
  <2>2. CASE toD' = toD \/ k # l
    <3>1. toD'[k] = toD[k] /\ (up'[k] => up[k])
      BY <2>1, <2>2
    <3> QED
      BY <2>1, <3>1, Untouched
  <2>3. CASE toD' = [toD EXCEPT ![l] = << >>] /\ k = l
    <3>1. toD'[k] = << >>
      BY <2>3
    <3>2. Led(<< >>)
      BY DEF Led
    <3>3. ~up'[k]
      BY <2>1, <2>3
    <3> QED
      BY <2>1, <3>1, <3>2, <3>3 DEF InOrder
  <2> QED
    BY <2>1, <2>2, <2>3
<1>3. ASSUME NEW l \in Links, OpenStream(l) PROVE InOrder(k)'
  <2>1. CASE k # l \/ ~up[l]
    BY <1>3, <2>1, Untouched DEF OpenStream, TellD
  <2>2. CASE k = l /\ up[l]
    <3>1. "open" \in Messages
      BY AttachConstants DEF Messages
    <3> HIDE DEF Messages
    <3>2. toD'[k] = Append(toD[k], "open")
      BY <1>3, <2>2 DEF OpenStream, TellD
    <3> QED
      BY <1>3, <2>2, <3>1, <3>2, Said DEF OpenStream
  <2> QED
    BY <2>1, <2>2
<1>4. ASSUME NEW l \in Links, RegisterA(l) PROVE InOrder(k)'
  <2>1. CASE k # l \/ ~up[l]
    BY <1>4, <2>1, Untouched DEF RegisterA
  <2>2. CASE k = l /\ up[l]
    <3>1. "mode" \in Messages
      BY AttachConstants DEF Messages
    <3> HIDE DEF Messages
    <3>2. toD'[k] = Append(toD[k], "mode")
      BY <1>4, <2>2 DEF RegisterA
    <3> QED
      BY <1>4, <2>2, <3>1, <3>2, Said DEF RegisterA
  <2> QED
    BY <2>1, <2>2
<1>5. ASSUME NEW l \in Links, RegisterD(l) PROVE InOrder(k)'
  BY <1>5, Untouched DEF RegisterD
<1>6. ASSUME NEW l \in Links, Offer(l) PROVE InOrder(k)'
  BY <1>6, Untouched DEF Offer
<1>7. ASSUME NEW l \in Links, NEW t \in Tickets, Mint(l, t) PROVE InOrder(k)'
  <2>1. CASE k # l \/ ~up[l]
    BY <1>7, <2>1, Untouched DEF Mint, TellD
  <2>2. CASE k = l /\ up[l]
    <3>1. t \in Messages /\ t # "open"
      BY AttachConstants DEF Messages
    <3> HIDE DEF Messages
    <3>2. toD'[k] = Append(toD[k], t)
      BY <1>7, <2>2 DEF Mint, TellD
    <3> QED
      BY <1>7, <2>2, <3>1, <3>2, Said DEF Mint
  <2> QED
    BY <2>1, <2>2
<1>8. ASSUME NEW l \in Links, PumpEnds(l) PROVE InOrder(k)'
  BY <1>8, Untouched DEF PumpEnds
<1>9. ASSUME NEW side \in Sides, NEW l \in Links, Await(side, l) PROVE InOrder(k)'
  BY <1>9, Untouched DEF Await
<1>10. ASSUME NEW side \in Sides, NEW l \in Links, Deadline(side, l) PROVE InOrder(k)'
  BY <1>10, Untouched DEF Deadline
<1>11. ASSUME NEW l \in Links, OnRequest(l) PROVE InOrder(k)'
  <2>1. CASE k # l \/ ~up[l] \/ pref["A"] # "tier0"
    BY <1>11, <2>1, Untouched DEF OnRequest, TellD
  <2>2. CASE k = l /\ up[l] /\ pref["A"] = "tier0"
    <3>1. "refused" \in Messages
      BY DEF Messages
    <3> HIDE DEF Messages
    <3>2. toD'[k] = Append(toD[k], "refused")
      BY <1>11, <2>2 DEF OnRequest, TellD
    <3> QED
      BY <1>11, <2>2, <3>1, <3>2, Said DEF OnRequest
  <2> QED
    BY <2>1, <2>2
<1>12. ASSUME NEW l \in Links, Pump(l) PROVE InOrder(k)'
  <2>1. at'["A"][k] = at["A"][k] /\ bound' = bound /\ told' = told /\ up' = up
    BY <1>12 DEF Pump
  <2>2. CASE k # l
    BY <1>12, <2>1, <2>2, Untouched DEF Pump
  <2>3. CASE k = l
    <3>1. /\ toD[k] # << >> /\ toD'[k] = Tail(toD[k])
          /\ deferred'[k] = IF Head(toD[k]) \in {"mode", "open"} THEN Append(deferred[k], Head(toD[k]))
                                                                 ELSE deferred[k]
      BY <1>12, <2>3 DEF Pump
    <3>2. Published(k)' = Published(k)
      BY <2>1
    <3> HIDE DEF Published
    <3> QED
      BY <2>1, <3>1, <3>2, Parked
  <2> QED
    BY <2>2, <2>3
<1>13. ASSUME NEW l \in Links, Read(l) PROVE InOrder(k)'
  <2>1. at' = at /\ up' = up
    BY <1>13 DEF Read
  <2>2. CASE k # l
    BY <1>13, <2>1, <2>2, Untouched DEF Read
  <2>3. CASE k = l
    <3> DEFINE src == IF deferred[k] # << >> THEN deferred[k] ELSE toD[k]
    <3>1. /\ src # << >>
          /\ IF deferred[k] # << >> THEN deferred'[k] = Tail(src) /\ toD'[k] = toD[k]
                                    ELSE toD'[k] = Tail(src) /\ deferred'[k] = deferred[k]
          /\ Head(src) # "open" => bound'["D"][k] = bound["D"][k]
          /\ told' = IF Head(src) = "mode" THEN told \cup {k} ELSE told
      BY <1>13, <2>3 DEF Read
    <3>2. Published(k)' = Published(k)
      BY <2>1
    <3>3. \A q : q = src => q = (IF deferred[k] # << >> THEN deferred[k] ELSE toD[k])
      OBVIOUS
    <3> HIDE DEF Published, src
    <3> QED
      BY <2>1, <3>1, <3>2, <3>3, Heard
  <2> QED
    BY <2>2, <2>3
<1>14. ASSUME NEW side \in Sides, NEW l \in Links, Teardown(side, l) PROVE InOrder(k)'
  BY <1>14, Untouched DEF Teardown
<1>15. ASSUME NEW side \in Sides, NEW l \in Links, Retire(side, l) PROVE InOrder(k)'
  BY <1>15, Untouched DEF Retire
<1>16. ASSUME NEW t \in Tickets, Expire(t) PROVE InOrder(k)'
  BY <1>16, Untouched DEF Expire
<1>17. ASSUME NEW s \in Socks, DialFails(s) PROVE InOrder(k)'
  BY <1>17, Untouched DEF DialFails
<1>18. ASSUME NEW s \in Socks, BreakMedia(s) PROVE InOrder(k)'
  BY <1>18, Untouched DEF BreakMedia
<1>19. ASSUME NEW s \in Socks, TakeLatch(s) PROVE InOrder(k)'
  BY <1>19, Untouched DEF TakeLatch
<1>20. ASSUME NEW s \in Socks, Dial(s) PROVE InOrder(k)'
  BY <1>20, Untouched DEF Dial
<1>21. ASSUME NEW s \in Socks, Accepted(s) PROVE InOrder(k)'
  BY <1>21, Untouched DEF Accepted
<1>22. ASSUME NEW s \in Socks, GiveUp(s) PROVE InOrder(k)'
  BY <1>22, Untouched DEF GiveUp
<1>23. ASSUME NEW s \in Socks, Spend(s) PROVE InOrder(k)'
  BY <1>23, Untouched DEF Spend
<1>24. ASSUME NEW s \in Socks, FindConn(s) PROVE InOrder(k)'
  BY <1>24, Untouched DEF FindConn
<1>25. ASSUME NEW s \in Socks, ClaimLatch(s) PROVE InOrder(k)'
  BY <1>25, Untouched DEF ClaimLatch
<1>26. ASSUME NEW s \in Socks, Ack(s) PROVE InOrder(k)'
  BY <1>26, Untouched DEF Ack
<1>27. ASSUME NEW side \in Sides, NEW s \in Socks, Install(side, s) PROVE InOrder(k)'
  BY <1>27, Untouched DEF Install
<1>28. ASSUME NEW side \in Sides, NEW s \in Socks, Leave(side, s) PROVE InOrder(k)'
  BY <1>28, Untouched DEF Leave
<1>29. ASSUME NEW side \in Sides, NEW s \in Socks, Stop(side, s) PROVE InOrder(k)'
  BY <1>29, Untouched DEF Stop
<1>30. ASSUME NEW side \in Sides, NEW s \in Socks, Restore(side, s) PROVE InOrder(k)'
  BY <1>30, Untouched DEF Restore
<1>31. ASSUME NEW side \in Sides, NEW s \in Socks, Clear(side, s) PROVE InOrder(k)'
  BY <1>31, Untouched DEF Clear
<1>32. ASSUME NEW side \in Sides, NEW s \in Socks, DropControl(side, s) PROVE InOrder(k)'
  BY <1>32, Untouched DEF DropControl
<1>33. ASSUME NEW side \in Sides, NEW s \in Socks, InstallFails(side, s) PROVE InOrder(k)'
  BY <1>33, Untouched DEF InstallFails
<1>34. ASSUME UNCHANGED vars PROVE InOrder(k)'
  BY <1>34, Untouched DEF vars
<1> QED
  BY <1>1, <1>2, <1>3, <1>4, <1>5, <1>6, <1>7, <1>8, <1>9, <1>10, <1>11, <1>12, <1>13, <1>14,
     <1>15, <1>16, <1>17, <1>18, <1>19, <1>20, <1>21, <1>22, <1>23, <1>24, <1>25, <1>26, <1>27,
     <1>28, <1>29, <1>30, <1>31, <1>32, <1>33, <1>34
     DEF Next, RegisterStep, ReaderStep, AttachStep, ServeEnds

-----------------------------------------------------------------------------
(* Theorems.                                                               *)

\* The invariant holds in every state of every behaviour.
THEOREM Inductive == Spec => []AInv
<1>1. Init => AInv
  BY InitHolds
<1>2. AInv /\ [Next]_vars => AInv'
  BY StepShapes, StepChange, StepSeated, StepLatched, StepServed, StepAttached, StepOrdered DEF AInv
<1> QED
  BY <1>1, <1>2, PTL DEF Spec

\* The latch of an end is up exactly while one thread installs or serves a media
\* connection there.
THEOREM OneServes == Spec => []OneServant
<1>1. ASSUME AInv PROVE OneServant
  <2> SUFFICES ASSUME NEW side \in Sides, NEW l \in Links
               PROVE  Cardinality({s \in Socks : thr[side][s] \in Holding /\ on[side][s] = l})
                        = IF latch[side][l] THEN 1 ELSE 0
    BY DEF OneServant
  <2> DEFINE H == {s \in Socks : thr[side][s] \in Holding /\ on[side][s] = l}
  <2>1. /\ \A s, r \in H : s = r
        /\ latch[side][l] <=> H # {}
    BY <1>1 DEF AInv, Latched, Holds
  <2>2. (IF latch[side][l] THEN 1 ELSE 0) = IF H = {} THEN 0 ELSE 1
    BY <2>1
  <2> HIDE DEF H
  <2>3. Cardinality(H) = IF H = {} THEN 0 ELSE 1
    <3>1. CASE H = {}
      BY <3>1, FS_EmptySet
    <3>2. CASE H # {}
      <4>1. PICK s \in H : H = {s}
        BY <2>1, <3>2
      <4> QED
        BY <4>1, FS_Singleton
    <3> QED
      BY <3>1, <3>2
  <2> QED
    BY <2>2, <2>3 DEF H
<1> QED
  BY <1>1, Inductive, PTL

\* A stream never attaches to a media path whose reader has gone for good.
THEOREM NoCorpse == Spec => []PathIsServed
<1>1. AInv => PathIsServed
  BY DEF AInv
<1> QED
  BY <1>1, Inductive, PTL

\* media_attaching is never left up with no dial behind it.
THEOREM FlagHasDial == Spec => []AttachingHasDial
<1>1. AInv => AttachingHasDial
  <2> SUFFICES ASSUME AInv, NEW l \in attaching PROVE Servants("D", l) # {}
    BY DEF AttachingHasDial
  <2> QED
    BY DEF AInv, Attached, Attaches, Servants
<1> QED
  BY <1>1, Inductive, PTL

\* No stream of the peer opens at D before its mode has been heard.
THEOREM ModeFirst == Spec => []ChannelOrder
<1>1. AInv => ChannelOrder
  BY DEF AInv, Ordered, InOrder, ChannelOrder
<1> QED
  BY <1>1, Inductive, PTL

\* Only await_attach lets register_conn at D return from its wait.
LEMMA OnlyAwaitReturns ==
  ASSUME Shapes, [Next]_vars, NEW k \in Links, at["D"][k] = "await", at'["D"][k] # "await"
  PROVE  Await("D", k)
<1> USE DEF Shapes, Sides, Step, Walk, ctl, reg, med, tix, sock, vars
<1>1. ASSUME NEW l \in Links, Connect(l) PROVE Await("D", k)
  BY <1>1 DEF Connect
<1>2. ASSUME NEW l \in Links, Break(l) PROVE Await("D", k)
  BY <1>2 DEF Break
<1>3. ASSUME NEW l \in Links, OpenStream(l) PROVE Await("D", k)
  BY <1>3 DEF OpenStream
<1>4. ASSUME NEW l \in Links, RegisterA(l) PROVE Await("D", k)
  BY <1>4 DEF RegisterA
<1>5. ASSUME NEW l \in Links, RegisterD(l) PROVE Await("D", k)
  BY <1>5 DEF RegisterD
<1>6. ASSUME NEW l \in Links, Offer(l) PROVE Await("D", k)
  BY <1>6 DEF Offer
<1>7. ASSUME NEW l \in Links, NEW t \in Tickets, Mint(l, t) PROVE Await("D", k)
  BY <1>7 DEF Mint
<1>8. ASSUME NEW l \in Links, PumpEnds(l) PROVE Await("D", k)
  BY <1>8 DEF PumpEnds
<1>9. ASSUME NEW side \in Sides, NEW l \in Links, Await(side, l) PROVE Await("D", k)
  <2>1. side = "D" /\ l = k
    BY <1>9 DEF Await
  <2> QED
    BY <1>9, <2>1
<1>10. ASSUME NEW side \in Sides, NEW l \in Links, Deadline(side, l) PROVE Await("D", k)
  BY <1>10 DEF Deadline
<1>11. ASSUME NEW l \in Links, OnRequest(l) PROVE Await("D", k)
  BY <1>11 DEF OnRequest
<1>12. ASSUME NEW l \in Links, Pump(l) PROVE Await("D", k)
  BY <1>12 DEF Pump
<1>13. ASSUME NEW l \in Links, Read(l) PROVE Await("D", k)
  BY <1>13 DEF Read
<1>14. ASSUME NEW side \in Sides, NEW l \in Links, Teardown(side, l) PROVE Await("D", k)
  BY <1>14 DEF Teardown
<1>15. ASSUME NEW side \in Sides, NEW l \in Links, Retire(side, l) PROVE Await("D", k)
  BY <1>15 DEF Retire
<1>16. ASSUME NEW t \in Tickets, Expire(t) PROVE Await("D", k)
  BY <1>16 DEF Expire
<1>17. ASSUME NEW s \in Socks, DialFails(s) PROVE Await("D", k)
  BY <1>17 DEF DialFails
<1>18. ASSUME NEW s \in Socks, BreakMedia(s) PROVE Await("D", k)
  BY <1>18 DEF BreakMedia
<1>19. ASSUME NEW s \in Socks, TakeLatch(s) PROVE Await("D", k)
  BY <1>19 DEF TakeLatch
<1>20. ASSUME NEW s \in Socks, Dial(s) PROVE Await("D", k)
  BY <1>20 DEF Dial
<1>21. ASSUME NEW s \in Socks, Accepted(s) PROVE Await("D", k)
  BY <1>21 DEF Accepted
<1>22. ASSUME NEW s \in Socks, GiveUp(s) PROVE Await("D", k)
  BY <1>22 DEF GiveUp
<1>23. ASSUME NEW s \in Socks, Spend(s) PROVE Await("D", k)
  BY <1>23 DEF Spend
<1>24. ASSUME NEW s \in Socks, FindConn(s) PROVE Await("D", k)
  BY <1>24 DEF FindConn
<1>25. ASSUME NEW s \in Socks, ClaimLatch(s) PROVE Await("D", k)
  BY <1>25 DEF ClaimLatch
<1>26. ASSUME NEW s \in Socks, Ack(s) PROVE Await("D", k)
  BY <1>26 DEF Ack
<1>27. ASSUME NEW side \in Sides, NEW s \in Socks, Install(side, s) PROVE Await("D", k)
  BY <1>27 DEF Install
<1>28. ASSUME NEW side \in Sides, NEW s \in Socks, Leave(side, s) PROVE Await("D", k)
  BY <1>28 DEF Leave
<1>29. ASSUME NEW side \in Sides, NEW s \in Socks, Stop(side, s) PROVE Await("D", k)
  BY <1>29 DEF Stop
<1>30. ASSUME NEW side \in Sides, NEW s \in Socks, Restore(side, s) PROVE Await("D", k)
  BY <1>30 DEF Restore
<1>31. ASSUME NEW side \in Sides, NEW s \in Socks, Clear(side, s) PROVE Await("D", k)
  BY <1>31 DEF Clear
<1>32. ASSUME NEW side \in Sides, NEW s \in Socks, DropControl(side, s) PROVE Await("D", k)
  BY <1>32 DEF DropControl
<1>33. ASSUME NEW side \in Sides, NEW s \in Socks, InstallFails(side, s) PROVE Await("D", k)
  BY <1>33 DEF InstallFails
<1>34. ASSUME UNCHANGED vars PROVE Await("D", k)
  BY <1>34 DEF vars
<1> QED
  BY <1>1, <1>2, <1>3, <1>4, <1>5, <1>6, <1>7, <1>8, <1>9, <1>10, <1>11, <1>12, <1>13, <1>14,
     <1>15, <1>16, <1>17, <1>18, <1>19, <1>20, <1>21, <1>22, <1>23, <1>24, <1>25, <1>26, <1>27,
     <1>28, <1>29, <1>30, <1>31, <1>32, <1>33, <1>34
     DEF Next, RegisterStep, ReaderStep, AttachStep, ServeEnds

\* ... and that is with the link up, with no dial under way, with the connection
\* dead, or late.
THEOREM HeldOpen == Spec => HeldWhileDialling
<1> DEFINE Held == \A l \in Links : at["D"][l] = "await" /\ at'["D"][l] # "await" =>
                     ~Dialling(l) \/ ~alive["D"][l] \/ <<"D", l>> \in late
<1>1. AInv /\ [Next]_vars => Held
  <2> SUFFICES ASSUME AInv, [Next]_vars, NEW l \in Links, at["D"][l] = "await", at'["D"][l] # "await",
                      Dialling(l), alive["D"][l], <<"D", l>> \notin late
               PROVE  FALSE
    OBVIOUS
  <2>1. path["D"][l] # None \/ l \notin attaching
    BY OnlyAwaitReturns DEF AInv, Await
  <2>2. PICK s \in Socks : /\ Attaches(s, l)
                           /\ thr["D"][s] \in {"dial", "dialling", "presented", "installing"}
    BY DEF Dialling, Servants, Attaches
  <2>3. l \in attaching
    BY <2>2 DEF AInv, Attached
  <2>4. PICK p \in Socks : p = path["D"][l]
    BY <2>1, <2>3 DEF AInv, Shapes, Sides
  <2>5. Attaches(p, l) /\ thr["D"][p] \in {"serving", "stopped"}
    BY <2>1, <2>3, <2>4 DEF AInv, PathIsServed, Attaches, Sides
  <2> QED
    BY <2>2, <2>5 DEF AInv, Attached
<1>2. AInv /\ [Next]_vars => [Held]_vars
  BY <1>1
<1> HIDE DEF Held
<1>3. Spec => [][Held]_vars
  BY Inductive, <1>2, PTL DEF Spec
<1> QED
  BY <1>3 DEF HeldWhileDialling, Held

-----------------------------------------------------------------------------
(* The remaining variables.                                                *)

Rest ==
    /\ pref \in Prefs
    /\ dialled \in 0 .. MaxConns /\ faults \in 0 .. MaxFaults
    /\ alive \in [Sides -> [Links -> BOOLEAN]]
    /\ asked \subseteq Links /\ told \subseteq Links
    /\ late \subseteq Sides \X Links
    /\ deferred \in [Links -> Seq({"mode", "open"})]
    /\ tickets \subseteq minted /\ minted \subseteq Tickets
    /\ killed \in [Sides -> SUBSET Socks]
    /\ carries \in [Socks -> Tickets \cup {None}]
    /\ reply \in [Socks -> {"ok", "error", None}]
    /\ open \in [Socks -> BOOLEAN]

\* A message that fails marks the end dead.
LEMMA TellAlive ==
  ASSUME Rest, NEW l \in Links, NEW m, TellD(l, m)
  PROVE  alive' \in [Sides -> [Links -> BOOLEAN]]
<1>1. "A" \in Sides /\ alive \in [Sides -> [Links -> BOOLEAN]]
  BY DEF Sides, Rest
<1>2. alive' = alive \/ alive' = [alive EXCEPT !["A"][l] = FALSE]
  BY DEF TellD
<1>3. CASE alive' = [alive EXCEPT !["A"][l] = FALSE]
  BY <1>1, <1>3, Nested
<1> QED
  BY <1>1, <1>2, <1>3

\* A dial carries a ticket.
LEMMA TicketTyped ==
  ASSUME Rest, NEW l \in Links, NEW t \in Tickets, TakeTicket(l, t)
  PROVE  /\ carries' \in [Socks -> Tickets \cup {None}]
         /\ reply' \in [Socks -> {"ok", "error", None}]
  BY ZenonT(60) DEF Rest, TakeTicket

\* Every step keeps them typed.
LEMMA StepRest == AInv /\ Rest /\ [Next]_vars => Rest'
<1> SUFFICES ASSUME AInv, Rest, [Next]_vars PROVE Rest'
  OBVIOUS
<1> USE AttachConstants DEF Rest, Sides, Step, Walk, Fault, ctl, reg, med, tix, sock, vars
<1>1. ASSUME NEW l \in Links, Connect(l) PROVE Rest'
  BY <1>1 DEF Connect
<1>2. ASSUME NEW l \in Links, Break(l) PROVE Rest'
  BY <1>2 DEF Break
<1>3. ASSUME NEW l \in Links, OpenStream(l) PROVE Rest'
  <2>1. alive' \in [Sides -> [Links -> BOOLEAN]]
    BY <1>3, TellAlive DEF OpenStream
  <2>2. UNCHANGED <<pref, dialled, faults, asked, told, late, deferred, tickets, minted, killed, carries, reply, open>>
    BY <1>3 DEF OpenStream
  <2> QED
    BY <2>1, <2>2
<1>4. ASSUME NEW l \in Links, RegisterA(l) PROVE Rest'
  BY <1>4 DEF RegisterA
<1>5. ASSUME NEW l \in Links, RegisterD(l) PROVE Rest'
  <2>1. alive' \in [Sides -> [Links -> BOOLEAN]]
    <3>1. alive' = [alive EXCEPT !["D"][l] = up[l]]
      BY <1>5 DEF RegisterD
    <3>2. "D" \in Sides /\ up[l] \in BOOLEAN
      BY DEF AInv, Shapes
    <3> HIDE DEF Sides
    <3> QED
      BY <3>1, <3>2, Nested
  <2>2. UNCHANGED <<pref, dialled, faults, told, late, deferred, tickets, minted, killed, carries, reply, open>> /\ asked' \subseteq Links
    BY <1>5 DEF RegisterD
  <2> QED
    BY <2>1, <2>2
<1>6. ASSUME NEW l \in Links, Offer(l) PROVE Rest'
  BY <1>6 DEF Offer
<1>7. ASSUME NEW l \in Links, NEW t \in Tickets, Mint(l, t) PROVE Rest'
  <2>1. alive' \in [Sides -> [Links -> BOOLEAN]]
    BY <1>7, TellAlive DEF Mint
  <2>2. UNCHANGED <<pref, dialled, faults, asked, told, late, deferred, killed, carries, reply, open>> /\ tickets' \subseteq minted' /\ minted' \subseteq Tickets
    BY <1>7 DEF Mint
  <2> QED
    BY <2>1, <2>2
<1>8. ASSUME NEW l \in Links, PumpEnds(l) PROVE Rest'
  BY <1>8 DEF PumpEnds
<1>9. ASSUME NEW side \in Sides, NEW l \in Links, Await(side, l) PROVE Rest'
  BY <1>9 DEF Await
<1>10. ASSUME NEW side \in Sides, NEW l \in Links, Deadline(side, l) PROVE Rest'
  BY <1>10 DEF Deadline
<1>11. ASSUME NEW l \in Links, OnRequest(l) PROVE Rest'
  <2>1. alive' \in [Sides -> [Links -> BOOLEAN]]
    BY <1>11, TellAlive DEF OnRequest
  <2>2. UNCHANGED <<pref, dialled, faults, told, late, deferred, tickets, minted, killed, carries, reply, open>> /\ asked' \subseteq Links
    BY <1>11 DEF OnRequest
  <2> QED
    BY <2>1, <2>2
<1>12. ASSUME NEW l \in Links, Pump(l) PROVE Rest'
  <2>1. UNCHANGED <<pref, dialled, faults, alive, asked, told, late, tickets, minted, killed, open>>
    BY <1>12 DEF Pump
  <2>2. /\ carries' \in [Socks -> Tickets \cup {None}]
        /\ reply' \in [Socks -> {"ok", "error", None}]
    <3>1. ASSUME NEW t \in Tickets, TakeTicket(l, t)
          PROVE  /\ carries' \in [Socks -> Tickets \cup {None}]
                 /\ reply' \in [Socks -> {"ok", "error", None}]
      BY <3>1, TicketTyped
    <3> QED
      BY <1>12, <3>1 DEF Pump
  <2>3. deferred' \in [Links -> Seq({"mode", "open"})]
    <3>1. \A m \in {"mode", "open"} : Append(deferred[l], m) \in Seq({"mode", "open"})
      OBVIOUS
    <3> QED
      BY <1>12, <3>1 DEF Pump
  <2> QED
    BY <2>1, <2>2, <2>3
<1>13. ASSUME NEW l \in Links, Read(l) PROVE Rest'
  <2>1. /\ UNCHANGED <<pref, dialled, faults, alive, asked, late, tickets, minted, killed, open>>
        /\ told' \subseteq Links
    BY <1>13 DEF Read
  <2>2. /\ carries' \in [Socks -> Tickets \cup {None}]
        /\ reply' \in [Socks -> {"ok", "error", None}]
    <3>1. ASSUME NEW t \in Tickets, TakeTicket(l, t)
          PROVE  /\ carries' \in [Socks -> Tickets \cup {None}]
                 /\ reply' \in [Socks -> {"ok", "error", None}]
      BY <3>1, TicketTyped
    <3> QED
      BY <1>13, <3>1 DEF Read
  <2>3. deferred' \in [Links -> Seq({"mode", "open"})]
    <3>1. deferred[l] # << >> => Tail(deferred[l]) \in Seq({"mode", "open"})
      BY HeadTailProperties
    <3> QED
      BY <1>13, <3>1, ZenonT(60) DEF Read
  <2> QED
    BY <2>1, <2>2, <2>3
<1>14. ASSUME NEW side \in Sides, NEW l \in Links, Teardown(side, l) PROVE Rest'
  BY <1>14 DEF Teardown
<1>15. ASSUME NEW side \in Sides, NEW l \in Links, Retire(side, l) PROVE Rest'
  BY <1>15 DEF Retire
<1>16. ASSUME NEW t \in Tickets, Expire(t) PROVE Rest'
  BY <1>16 DEF Expire
<1>17. ASSUME NEW s \in Socks, DialFails(s) PROVE Rest'
  BY <1>17 DEF DialFails, Unlatch
<1>18. ASSUME NEW s \in Socks, BreakMedia(s) PROVE Rest'
  BY <1>18 DEF BreakMedia
<1>19. ASSUME NEW s \in Socks, TakeLatch(s) PROVE Rest'
  BY <1>19 DEF TakeLatch, Walk
<1>20. ASSUME NEW s \in Socks, Dial(s) PROVE Rest'
  BY <1>20 DEF Dial
<1>21. ASSUME NEW s \in Socks, Accepted(s) PROVE Rest'
  BY <1>21 DEF Accepted
<1>22. ASSUME NEW s \in Socks, GiveUp(s) PROVE Rest'
  BY <1>22 DEF GiveUp, Ended
<1>23. ASSUME NEW s \in Socks, Spend(s) PROVE Rest'
  <2>1. UNCHANGED <<pref, dialled, faults, asked, told, late, deferred, minted, carries>> /\ tickets' \subseteq minted /\ alive' = alive
    BY <1>23 DEF Spend
  <2>2. CASE UNCHANGED <<killed, reply, open>>
    BY <2>1, <2>2
  <2>3. CASE Refuse(s)
    BY <2>1, <2>3 DEF Refuse, Ended
  <2> QED
    BY <1>23, <2>2, <2>3 DEF Spend
<1>24. ASSUME NEW s \in Socks, FindConn(s) PROVE Rest'
  <2>1. UNCHANGED <<pref, dialled, faults, asked, told, late, deferred, tickets, minted, carries>> /\ alive' = alive
    BY <1>24 DEF FindConn
  <2>2. CASE UNCHANGED <<killed, reply, open>>
    BY <2>1, <2>2
  <2>3. CASE Refuse(s)
    BY <2>1, <2>3 DEF Refuse, Ended
  <2> QED
    BY <1>24, <2>2, <2>3 DEF FindConn
<1>25. ASSUME NEW s \in Socks, ClaimLatch(s) PROVE Rest'
  <2>1. UNCHANGED <<pref, dialled, faults, asked, told, late, deferred, tickets, minted, carries>> /\ alive' = alive
    BY <1>25 DEF ClaimLatch
  <2>2. CASE UNCHANGED <<killed, reply, open>>
    BY <2>1, <2>2
  <2>3. CASE Refuse(s)
    BY <2>1, <2>3 DEF Refuse, Ended
  <2> QED
    BY <1>25, <2>2, <2>3 DEF ClaimLatch
<1>26. ASSUME NEW s \in Socks, Ack(s) PROVE Rest'
  BY <1>26 DEF Ack, Unlatch, Ended
<1>27. ASSUME NEW side \in Sides, NEW s \in Socks, Install(side, s) PROVE Rest'
  BY <1>27 DEF Install
<1>28. ASSUME NEW side \in Sides, NEW s \in Socks, Leave(side, s) PROVE Rest'
  BY <1>28 DEF Leave, Unlatch, Ended
<1>29. ASSUME NEW side \in Sides, NEW s \in Socks, Stop(side, s) PROVE Rest'
  BY <1>29 DEF Stop
<1>30. ASSUME NEW side \in Sides, NEW s \in Socks, Restore(side, s) PROVE Rest'
  BY <1>30 DEF Restore
<1>31. ASSUME NEW side \in Sides, NEW s \in Socks, Clear(side, s) PROVE Rest'
  BY <1>31 DEF Clear
<1>32. ASSUME NEW side \in Sides, NEW s \in Socks, DropControl(side, s) PROVE Rest'
  BY <1>32 DEF DropControl
<1>33. ASSUME NEW side \in Sides, NEW s \in Socks, InstallFails(side, s) PROVE Rest'
  BY <1>33 DEF InstallFails, Unlatch, Ended
<1>34. ASSUME UNCHANGED vars PROVE Rest'
  BY <1>34 DEF vars
<1> QED
  BY <1>1, <1>2, <1>3, <1>4, <1>5, <1>6, <1>7, <1>8, <1>9, <1>10, <1>11, <1>12, <1>13, <1>14,
     <1>15, <1>16, <1>17, <1>18, <1>19, <1>20, <1>21, <1>22, <1>23, <1>24, <1>25, <1>26, <1>27,
     <1>28, <1>29, <1>30, <1>31, <1>32, <1>33, <1>34
     DEF Next, RegisterStep, ReaderStep, AttachStep, ServeEnds

\* Every variable keeps its type.
THEOREM Typed == Spec => []TypeOK
<1>1. Init => Rest
  <2>1. << >> \in Seq({"mode", "open"})
    OBVIOUS
  <2> QED
    BY <2>1, AttachConstants DEF Init, Rest, Sides
<1>2. AInv /\ Rest /\ [Next]_vars => Rest'
  BY StepRest
<1>3. AInv /\ Rest => TypeOK
  BY DEF AInv, Rest, Shapes, Walks, Places, Messages, Attached, TypeOK
<1> QED
  BY <1>1, <1>2, <1>3, Inductive, PTL DEF Spec
=============================================================================
