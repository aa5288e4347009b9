--------------------------- MODULE DialRaceProofs ---------------------------
(***************************************************************************)
(* What two daemons that dial each other are left with, for any number of  *)
(* connections and faults.                                                 *)
(*                                                                         *)
(* One live connection a side needs nothing but the registration itself.   *)
(* That a connection both ends have registered stays needs the tie-break.  *)
(* That one stays whole from its dial on needs as well that no side dials  *)
(* twice at a time (OneDialAtATime): of two dials from one side each end   *)
(* may keep another.  Then a connection of the lower side is never touched *)
(* once it is there; one of the higher side not before there is one of the *)
(* lower.                                                                  *)
(***************************************************************************)
EXTENDS DialRace, TLAPS

Inv == TypeOK /\ OneLivePerSide

Dialled(s, l) == by[l] # None /\ SideOf[by[l]] = s

\* No thread of a side begins a dial beside another dial of that side.
OneDialAtATime ==
    \A d \in Diallers, l \in Links :
        Dial(d, l) => \A k \in Links : Dialled(SideOf[d], k) => end[SideOf[d]][k] # "shaking"

Whole(l) == \A s \in Sides : end[s][l] \in {"shaking", "up"}

\* The connections side s dialled: one at most, and untouched.
OneWhole(s) ==
    /\ \A l \in Links : Dialled(s, l) => Whole(l)
    /\ \A l, k \in Links : Dialled(s, l) /\ Dialled(s, k) => l = k

\* What nothing but a fault changes.
Healthy ==
    /\ mute = {} /\ \A s \in Sides : ~stale[s]
    /\ OneWhole("low")
    /\ (\A l \in Links : ~Dialled("low", l)) => OneWhole("high")

\* A connection somebody knows was dialled; without a fault the above holds.
Race ==
    /\ \A s \in Sides, l \in Links : end[s][l] # "idle" => by[l] # None
    /\ faults = 0 => Healthy

USE DialConstants DEF Sides

-----------------------------------------------------------------------------
(* One live connection a side.                                             *)

\* At the start there is no connection.
LEMMA InitKept == Init => Inv /\ Race
  BY DEF Init, Inv, TypeOK, OneLivePerSide, Race, Healthy, OneWhole, Dialled

\* register_conn, whichever of the two it keeps.
LEMMA RegisterKeeps ==
  ASSUME Inv, NEW s \in Sides, NEW l \in Links, Register(s, l)
  PROVE  Inv'
<1>1. CASE Keep(s, l)
  BY <1>1 DEF Inv, TypeOK, OneLivePerSide, Register
<1>2. CASE ~Keep(s, l)
  <2>1. /\ conns' = [conns EXCEPT ![s] = l]
        /\ stale' = [stale EXCEPT ![s] = FALSE]
        /\ end' = [end EXCEPT ![s] = [k \in Links |->
                     IF k = l THEN "up"
                     ELSE IF k = conns[s] /\ end[s][k] = "up" THEN "dead" ELSE end[s][k]]]
        /\ UNCHANGED <<by, mute, faults>>
    BY <1>2 DEF Register
  <2>2. TypeOK'
    BY <2>1 DEF Inv, TypeOK
  <2>3. OneLivePerSide'
    BY <2>1 DEF Inv, TypeOK, OneLivePerSide
  <2> QED
    BY <2>2, <2>3 DEF Inv
<1> QED
  BY <1>1, <1>2

\* Every step keeps types and the one live connection of each side.
LEMMA InvKept == Inv /\ [Next]_vars => Inv'
<1> SUFFICES ASSUME Inv, [Next]_vars PROVE Inv'
  OBVIOUS
<1>1. ASSUME NEW d \in Diallers, NEW l \in Links, Dial(d, l) PROVE Inv'
  BY <1>1 DEF Inv, TypeOK, OneLivePerSide, Dial, Unused
<1>2. ASSUME NEW s \in Sides, NEW l \in Links, MarkDead(s, l) PROVE Inv'
  BY <1>2 DEF Inv, TypeOK, OneLivePerSide, MarkDead
<1>3. ASSUME NEW s \in Sides, NEW l \in Links, TearDown(s, l) PROVE Inv'
  BY <1>3 DEF Inv, TypeOK, OneLivePerSide, TearDown
<1>4. ASSUME NEW s \in Sides, NEW l \in Links, Closes(s, l) PROVE Inv'
  BY <1>4 DEF Inv, TypeOK, OneLivePerSide, Closes, Fault
<1>5. ASSUME NEW l \in Links, GoesMute(l) PROVE Inv'
  BY <1>5 DEF Inv, TypeOK, OneLivePerSide, GoesMute, Fault
<1>6. ASSUME NEW s \in Sides, Ages(s) PROVE Inv'
  BY <1>6 DEF Inv, TypeOK, OneLivePerSide, Ages, Fault
<1>7. CASE UNCHANGED vars
  BY <1>7 DEF Inv, TypeOK, OneLivePerSide, vars
<1> QED
  BY <1>1, <1>2, <1>3, <1>4, <1>5, <1>6, <1>7, RegisterKeeps DEF Next

-----------------------------------------------------------------------------
(* One connection stays whole.                                             *)

\* A side that has a whole connection of its own, and nothing that never fails
\* would make it replace, dials no other: one dial at a time, and none beside a
\* live connection.
LEMMA NoSecondDial ==
  ASSUME Inv, Race, OneDialAtATime, NEW s \in Sides, OneWhole(s),
         NEW d \in Diallers, SideOf[d] = s, NEW l \in Links, Dial(d, l)
  PROVE  \A k \in Links : ~Dialled(s, k)
<1> SUFFICES ASSUME NEW k \in Links, Dialled(s, k) PROVE FALSE
  BY ZenonT(30)
<1>1. end[s][k] # "shaking"
  BY DEF OneDialAtATime
<1>2. end[s][k] = "up"
  BY <1>1 DEF OneWhole, Whole
<1>3. conns[s] = k /\ k # None
  BY <1>2 DEF Inv, OneLivePerSide
<1> QED
  BY <1>2, <1>3 DEF Dial, Alive

\* A dial adds the one connection of its side.
LEMMA DialKeepsRace ==
  ASSUME Inv, Race, OneDialAtATime, NEW d \in Diallers, NEW l \in Links, Dial(d, l)
  PROVE  Race'
<1>1. /\ by' = [by EXCEPT ![l] = d]
      /\ end' = [s \in Sides |-> [end[s] EXCEPT ![l] = "shaking"]]
      /\ mute' = mute \ {l} /\ UNCHANGED <<conns, stale, faults>>
      /\ \A s \in Sides : end[s][l] \in {"idle", "over"}
  BY DEF Dial, Unused
<1>2. \A s \in Sides, k \in Links : end'[s][k] # "idle" => by'[k] # None
  BY <1>1 DEF Inv, TypeOK, Race
<1>3. ASSUME faults = 0 PROVE Healthy'
  <2>1. Healthy
    BY <1>3 DEF Race
  <2>2. \A k \in Links : k # l => by'[k] = by[k] /\ \A s \in Sides : end'[s][k] = end[s][k]
    BY <1>1 DEF Inv, TypeOK
  <2>3. by'[l] = d /\ Whole(l)' /\ ~Whole(l)
    BY <1>1 DEF Inv, TypeOK, Whole
  <2>4. \A s \in Sides, k \in Links : k # l =>
            (Dialled(s, k)' <=> Dialled(s, k)) /\ (Whole(k)' <=> Whole(k))
    BY <2>2 DEF Dialled, Whole
  <2>5. \A s \in Sides : Dialled(s, l)' <=> SideOf[d] = s
    BY <2>3 DEF Dialled
  <2>6. mute' = {} /\ \A s \in Sides : ~stale'[s]
    BY <1>1, <2>1 DEF Healthy
  <2>7. OneWhole("low")'
    <3>1. CASE SideOf[d] = "low"
      <4>1. \A k \in Links : ~Dialled("low", k)
        BY <2>1, <3>1, NoSecondDial DEF Healthy
      <4> QED
        BY <2>3, <2>4, <2>5, <4>1 DEF OneWhole
    <3>2. CASE SideOf[d] # "low"
      BY <2>1, <2>4, <2>5, <3>2 DEF OneWhole, Healthy
    <3> QED
      BY <3>1, <3>2
  <2>8. ASSUME \A k \in Links : ~Dialled("low", k)' PROVE OneWhole("high")'
    <3>1. SideOf[d] = "high"
      BY <2>5, <2>8
    <3>2. \A k \in Links : ~Dialled("low", k)
      BY <2>1, <2>3, <2>4, <2>8 DEF Healthy, OneWhole
    <3>3. OneWhole("high")
      BY <2>1, <3>2 DEF Healthy
    <3>4. \A k \in Links : ~Dialled("high", k)
      BY <3>1, <3>3, NoSecondDial
    <3> QED
      BY <2>3, <2>4, <2>5, <3>4 DEF OneWhole
  <2> QED
    BY <2>6, <2>7, <2>8 DEF Healthy
<1> QED
  BY <1>1, <1>2, <1>3 DEF Race

\* A registration leaves alone what must stay: the other ones lose against it.
LEMMA RegisterKeepsWhole ==
  ASSUME Inv, Race, NEW s \in Sides, NEW l \in Links, Register(s, l), NEW o \in Sides,
         ~stale[s], OneWhole(o), o = "low" \/ \A k \in Links : ~Dialled("low", k)
  PROVE  OneWhole(o)'
<1>1. UNCHANGED by
  BY DEF Register
<1>2. ASSUME NEW k \in Links, Dialled(o, k) PROVE Whole(k)'
  <2>1. Whole(k)
    BY <1>2 DEF OneWhole
  <2>2. CASE Keep(s, l)
    <3>1. end' = [end EXCEPT ![s][l] = "over"]
      BY <2>2 DEF Register
    <3>2. k # l
      <4> SUFFICES ASSUME k = l PROVE FALSE
        OBVIOUS
      <4>1. conns[s] \in Links /\ end[s][conns[s]] = "up" /\ by[conns[s]] \in Diallers
        BY <2>2 DEF Keep, Alive, Inv, TypeOK, Race
      <4>2. Dialled(o, conns[s])
        BY <1>2, <2>2, <4>1 DEF Keep, NotAbove, Initiator, Dialled, Inv, TypeOK
      <4>3. conns[s] = l
        BY <1>2, <4>1, <4>2 DEF OneWhole
      <4> QED
        BY <4>1, <4>3 DEF Register
    <3> QED
      BY <2>1, <3>1, <3>2 DEF Whole, Inv, TypeOK
  <2>3. CASE ~Keep(s, l)
    <3>1. end' = [end EXCEPT ![s] = [j \in Links |->
                    IF j = l THEN "up"
                    ELSE IF j = conns[s] /\ end[s][j] = "up" THEN "dead" ELSE end[s][j]]]
      BY <2>3 DEF Register
    <3>2. ~(k # l /\ k = conns[s] /\ end[s][k] = "up")
      <4> SUFFICES ASSUME k = conns[s], end[s][k] = "up" PROVE FALSE
        OBVIOUS
      <4>1. Alive(s)
        BY DEF Alive
      <4>2. by[l] \in Diallers
        BY DEF Register, Inv, TypeOK, Race
      <4>3. NotAbove(k, l)
        BY <1>2, <4>2 DEF NotAbove, Initiator, Dialled, Inv, TypeOK
      <4> QED
        BY <2>3, <4>1, <4>3 DEF Keep
    <3> QED
      BY <2>1, <3>1, <3>2 DEF Whole, Inv, TypeOK
  <2> QED
    BY <2>2, <2>3
<1> QED
  BY <1>1, <1>2 DEF OneWhole, Dialled

\* A registration keeps the race decided.
LEMMA RegisterKeepsRace ==
  ASSUME Inv, Race, NEW s \in Sides, NEW l \in Links, Register(s, l)
  PROVE  Race'
<1>1. UNCHANGED <<by, mute, faults>> /\ \A o \in Sides : stale'[o] => stale[o]
  BY DEF Register, Inv, TypeOK
<1>2. \A o \in Sides, k \in Links : end'[o][k] # "idle" => end[o][k] # "idle"
  BY DEF Register, Inv, TypeOK
<1>3. ASSUME faults = 0 PROVE Healthy'
  <2>1. Healthy /\ ~stale[s]
    BY <1>3 DEF Race, Healthy
  <2>2. OneWhole("low")'
    BY <2>1, RegisterKeepsWhole DEF Healthy
  <2>3. ASSUME \A k \in Links : ~Dialled("low", k)' PROVE OneWhole("high")'
    <3>1. \A k \in Links : ~Dialled("low", k)
      BY <1>1, <2>3 DEF Dialled
    <3> QED
      BY <2>1, <3>1, RegisterKeepsWhole DEF Healthy
  <2> QED
    BY <1>1, <2>1, <2>2, <2>3 DEF Healthy
<1> QED
  BY <1>1, <1>2, <1>3 DEF Race

\* The end of a connection touches none that is whole.
LEMMA EndKeepsRace ==
  ASSUME Inv, Race, NEW s \in Sides, NEW l \in Links, MarkDead(s, l) \/ TearDown(s, l)
  PROVE  Race'
<1>1. UNCHANGED <<by, stale, mute, faults>>
  BY DEF MarkDead, TearDown
<1>2. \A o \in Sides, k \in Links : end'[o][k] # "idle" => end[o][k] # "idle"
  BY DEF MarkDead, TearDown, Inv, TypeOK
<1>3. ASSUME faults = 0 PROVE Healthy'
  <2>1. Healthy
    BY <1>3 DEF Race
  <2>2. \A k \in Links : Whole(k) => Whole(k)'
    BY <2>1 DEF Healthy, MarkDead, TearDown, Unanswered, Other, Whole, Inv, TypeOK
  <2>3. \A o \in Sides : OneWhole(o) => OneWhole(o)'
    BY <1>1, <2>2 DEF OneWhole, Dialled
  <2> QED
    BY <1>1, <2>1, <2>3 DEF Healthy, Dialled
<1> QED
  BY <1>1, <1>2, <1>3 DEF Race

\* Every step keeps the race decided.
LEMMA RaceKept == Inv /\ Race /\ [Next]_vars /\ [OneDialAtATime]_vars => Race'
<1> SUFFICES ASSUME Inv, Race, [Next]_vars, [OneDialAtATime]_vars PROVE Race'
  OBVIOUS
<1>1. ASSUME NEW s \in Sides, NEW l \in Links, Closes(s, l) PROVE Race'
  BY <1>1 DEF Race, Closes, Fault, Inv, TypeOK
<1>2. ASSUME NEW l \in Links, GoesMute(l) PROVE Race'
  BY <1>2 DEF Race, GoesMute, Fault, Inv, TypeOK
<1>3. ASSUME NEW s \in Sides, Ages(s) PROVE Race'
  BY <1>3 DEF Race, Ages, Fault, Inv, TypeOK
<1>4. CASE UNCHANGED vars
  BY <1>4 DEF Race, Healthy, OneWhole, Dialled, Whole, vars
<1> QED
  BY <1>1, <1>2, <1>3, <1>4, DialKeepsRace, RegisterKeepsRace, EndKeepsRace DEF Next

-----------------------------------------------------------------------------
(* What both ends have registered stays.                                   *)

\* Silence and age are faults, and a connection somebody knows was dialled.
Unharmed ==
    /\ \A s \in Sides, l \in Links : end[s][l] # "idle" => by[l] \in Diallers
    /\ faults = 0 => mute = {} /\ \A s \in Sides : ~stale[s]

\* At the start and after every step.
LEMMA UnharmedKept == (Init => Unharmed) /\ (Inv /\ Unharmed /\ [Next]_vars => Unharmed')
<1>1. Init => Unharmed
  BY DEF Init, Unharmed
<1> SUFFICES ASSUME Inv, Unharmed, [Next]_vars PROVE Unharmed'
  BY <1>1
<1>2. ASSUME NEW d \in Diallers, NEW l \in Links, Dial(d, l) PROVE Unharmed'
  BY <1>2 DEF Unharmed, Dial, Inv, TypeOK
<1>3. ASSUME NEW s \in Sides, NEW l \in Links, Register(s, l) PROVE Unharmed'
  BY <1>3 DEF Unharmed, Register, Inv, TypeOK
<1>4. ASSUME NEW s \in Sides, NEW l \in Links, MarkDead(s, l) \/ TearDown(s, l) PROVE Unharmed'
  BY <1>4 DEF Unharmed, MarkDead, TearDown, Inv, TypeOK
<1>5. ASSUME NEW s \in Sides, NEW l \in Links, Closes(s, l) PROVE Unharmed'
  BY <1>5 DEF Unharmed, Closes, Fault, Inv, TypeOK
<1>6. ASSUME NEW l \in Links, GoesMute(l) PROVE Unharmed'
  BY <1>6 DEF Unharmed, GoesMute, Fault, Inv, TypeOK
<1>7. ASSUME NEW s \in Sides, Ages(s) PROVE Unharmed'
  BY <1>7 DEF Unharmed, Ages, Fault, Inv, TypeOK
<1>8. CASE UNCHANGED vars
  BY <1>8 DEF Unharmed, vars
<1> QED
  BY <1>2, <1>3, <1>4, <1>5, <1>6, <1>7, <1>8 DEF Next

\* A step takes the place of an established connection only for one of the lower side.
Outranked(l) ==
    /\ Initiator(l) = "high"
    /\ \E s \in Sides, k \in Links : conns'[s] = k /\ Initiator(k) = "low"

\* register_conn: a newcomer meets the established connection, alive and fresh.
LEMMA RegisterYields ==
  ASSUME Inv, Unharmed, faults = 0, NEW l \in Links, Linked(l),
         NEW s \in Sides, NEW k \in Links, Register(s, k)
  PROVE  Linked(l)' \/ Outranked(l)
<1>1. conns[s] = l /\ end[s][l] = "up" /\ k # l /\ end[s][k] = "shaking" /\ ~stale[s]
  BY DEF Linked, Register, Unharmed
<1>2. Alive(s) /\ by[l] \in Diallers /\ by[k] \in Diallers
  BY <1>1 DEF Alive, Unharmed
<1>3. CASE Keep(s, k)
  <2>1. UNCHANGED conns /\ end' = [end EXCEPT ![s][k] = "over"]
    BY <1>3 DEF Register
  <2> QED
    BY <1>1, <2>1 DEF Linked, Inv, TypeOK
<1>4. CASE ~Keep(s, k)
  <2>1. conns' = [conns EXCEPT ![s] = k]
    BY <1>4 DEF Register
  <2>2. ~NotAbove(l, k)
    BY <1>1, <1>2, <1>4 DEF Keep
  <2>3. Initiator(l) = "high" /\ Initiator(k) = "low"
    BY <1>2, <2>2 DEF NotAbove, Initiator
  <2>4. conns'[s] = k
    BY <2>1 DEF Inv, TypeOK
  <2> QED
    BY <2>3, <2>4 DEF Outranked
<1> QED
  BY <1>3, <1>4

\* Without a fault a later dial takes an established connection down only if it is one
\* of the higher side and the dial one of the lower, for any number of dialling threads.
THEOREM Established == Spec => EstablishedStays
<1>1. Inv /\ Unharmed /\ [Next]_vars =>
        [\A l \in Links : Linked(l) /\ faults' = 0 =>
            \/ Linked(l)'
            \/ /\ Initiator(l) = "high"
               /\ \E s \in Sides, k \in Links : conns'[s] = k /\ Initiator(k) = "low"]_vars
  <2> SUFFICES ASSUME Inv, Unharmed, Next, NEW l \in Links, Linked(l), faults' = 0
               PROVE  Linked(l)' \/ Outranked(l)
    BY DEF Outranked
  <2>1. ASSUME NEW d \in Diallers, NEW k \in Links, Dial(d, k) PROVE Linked(l)'
    <3>1. k # l /\ UNCHANGED conns /\ end' = [s \in Sides |-> [end[s] EXCEPT ![k] = "shaking"]]
      BY <2>1 DEF Dial, Unused, Linked
    <3> QED
      BY <3>1 DEF Linked, Inv, TypeOK
  <2>2. ASSUME NEW s \in Sides, NEW k \in Links, Register(s, k) PROVE Linked(l)' \/ Outranked(l)
    <3>1. faults = 0
      BY <2>2 DEF Register
    <3> QED
      BY <2>2, <3>1, RegisterYields
  <2>3. ASSUME NEW s \in Sides, NEW k \in Links, MarkDead(s, k) PROVE Linked(l)'
    <3>1. UNCHANGED <<conns, faults>> /\ Unanswered(s, k) /\ end' = [end EXCEPT ![s][k] = "dead"]
      BY <2>3 DEF MarkDead
    <3>2. k # l
      BY <3>1 DEF Unanswered, Unharmed, Linked, Other
    <3> QED
      BY <3>1, <3>2 DEF Linked, Inv, TypeOK
  <2>4. ASSUME NEW s \in Sides, NEW k \in Links, TearDown(s, k) PROVE Linked(l)'
    BY <2>4 DEF TearDown, Linked, Inv, TypeOK
  <2>5. ASSUME NEW s \in Sides, NEW k \in Links, Closes(s, k) PROVE FALSE
    BY <2>5 DEF Closes, Fault, Inv, TypeOK
  <2>6. ASSUME NEW k \in Links, GoesMute(k) PROVE FALSE
    BY <2>6 DEF GoesMute, Fault, Inv, TypeOK
  <2>7. ASSUME NEW s \in Sides, Ages(s) PROVE FALSE
    BY <2>7 DEF Ages, Fault, Inv, TypeOK
  <2> QED
    BY <2>1, <2>2, <2>3, <2>4, <2>5, <2>6, <2>7 DEF Next
<1>2. Init => Inv /\ Unharmed
  BY InitKept, UnharmedKept
<1>3. (Inv /\ Unharmed) /\ [Next]_vars => (Inv /\ Unharmed)'
  BY InvKept, UnharmedKept
<1> QED
  BY <1>1, <1>2, <1>3, PTL DEF Spec, EstablishedStays

-----------------------------------------------------------------------------
(* Each daemon's side of the race is a PeerRegistry.                       *)

\* What is registered is there until its teardown.
Enrolled == \A s \in Sides, l \in Links : conns[s] = l => end[s][l] \in {"up", "dead"}

\* A step of the registry of side s, or none.
Stays(s) == conns'[s] = conns[s] /\ \A k \in Links : Standing(s, k)' = Standing(s, k)

Enters(s, l) ==
    /\ Standing(s, l) = "off" /\ conns'[s] = l
    /\ \A k \in Links : Standing(s, k)' =
          IF k = l THEN "live"
          ELSE IF k = conns[s] /\ Standing(s, k) = "live" THEN "dead" ELSE Standing(s, k)

Dies(s, l) ==
    /\ Standing(s, l) \in {"live", "ousted"} /\ conns'[s] = conns[s]
    /\ \A k \in Links : Standing(s, k)' = IF k = l THEN "dead" ELSE Standing(s, k)

Leaves(s, l) ==
    /\ Standing(s, l) = "dead" /\ conns'[s] = IF conns[s] = l THEN None ELSE conns[s]
    /\ \A k \in Links : Standing(s, k)' = IF k = l THEN "off" ELSE Standing(s, k)

Moves(s) == Stays(s) \/ \E l \in Links : Enters(s, l) \/ Dies(s, l) \/ Leaves(s, l)

\* Nothing is registered at the start.
LEMMA InitEnrolled == Init => Enrolled
  BY DEF Init, Enrolled

\* Only a teardown ends what is registered, and it takes the registration along.
LEMMA EnrolledKept == Inv /\ Enrolled /\ [Next]_vars => Enrolled'
<1> SUFFICES ASSUME Inv, Enrolled, [Next]_vars PROVE Enrolled'
  OBVIOUS
<1>1. ASSUME NEW d \in Diallers, NEW l \in Links, Dial(d, l) PROVE Enrolled'
  BY <1>1 DEF Inv, TypeOK, Enrolled, Dial, Unused
<1>2. ASSUME NEW s \in Sides, NEW l \in Links, Register(s, l) PROVE Enrolled'
  BY <1>2 DEF Inv, TypeOK, Enrolled, Register, Keep
<1>3. ASSUME NEW s \in Sides, NEW l \in Links, MarkDead(s, l) PROVE Enrolled'
  BY <1>3 DEF Inv, TypeOK, Enrolled, MarkDead
<1>4. ASSUME NEW s \in Sides, NEW l \in Links, TearDown(s, l) PROVE Enrolled'
  BY <1>4 DEF Inv, TypeOK, Enrolled, TearDown
<1>5. ASSUME NEW s \in Sides, NEW l \in Links, Closes(s, l) PROVE Enrolled'
  BY <1>5 DEF Inv, TypeOK, Enrolled, Closes
<1>6. ASSUME NEW l \in Links, GoesMute(l) PROVE Enrolled'
  BY <1>6 DEF Enrolled, GoesMute
<1>7. ASSUME NEW s \in Sides, Ages(s) PROVE Enrolled'
  BY <1>7 DEF Enrolled, Ages
<1>8. CASE UNCHANGED vars
  BY <1>8 DEF Enrolled, vars
<1> QED
  BY <1>1, <1>2, <1>3, <1>4, <1>5, <1>6, <1>7, <1>8 DEF Next

\* What each step is to the registry of one side: a step of the other side is
\* nothing to it.
LEMMA StepMoves ==
  ASSUME Inv, Enrolled, [Next]_vars, NEW o \in Sides
  PROVE  Moves(o)
<1> USE DEF Standing, Stays
<1>1. ASSUME NEW d \in Diallers, NEW l \in Links, Dial(d, l) PROVE Stays(o)
  BY <1>1 DEF Inv, TypeOK, Dial, Unused
<1>2. ASSUME NEW s \in Sides, NEW l \in Links, Register(s, l) PROVE Moves(o)
  <2>1. CASE s # o \/ Keep(s, l)
    <3>1. Stays(o)
      BY <1>2, <2>1 DEF Inv, TypeOK, Register
    <3> QED
      BY <3>1 DEF Moves
  <2>2. CASE s = o /\ ~Keep(s, l)
    <3>1. Enters(o, l)
      BY <1>2, <2>2 DEF Inv, TypeOK, OneLivePerSide, Enrolled, Register, Enters
    <3> QED
      BY <3>1 DEF Moves
  <2> QED
    BY <2>1, <2>2
<1>3. ASSUME NEW s \in Sides, NEW l \in Links, MarkDead(s, l) \/ Closes(s, l) PROVE Moves(o)
  <2>1. CASE s = o /\ end[s][l] = "up"
    <3>1. Dies(o, l)
      BY <1>3, <2>1 DEF Inv, TypeOK, MarkDead, Closes, Dies
    <3> QED
      BY <3>1 DEF Moves
  <2>2. CASE ~(s = o /\ end[s][l] = "up")
    <3>1. Stays(o)
      BY <1>3, <2>2 DEF Inv, TypeOK, MarkDead, Closes
    <3> QED
      BY <3>1 DEF Moves
  <2> QED
    BY <2>1, <2>2
<1>4. ASSUME NEW s \in Sides, NEW l \in Links, TearDown(s, l) PROVE Moves(o)
  <2>1. CASE s = o
    <3>1. Leaves(o, l)
      BY <1>4, <2>1 DEF Inv, TypeOK, OneLivePerSide, TearDown, Leaves
    <3> QED
      BY <3>1 DEF Moves
  <2>2. CASE s # o
    <3>1. Stays(o)
      BY <1>4, <2>2 DEF Inv, TypeOK, TearDown
    <3> QED
      BY <3>1 DEF Moves
  <2> QED
    BY <2>1, <2>2
<1>5. ASSUME NEW l \in Links, GoesMute(l) PROVE Stays(o)
  BY <1>5 DEF GoesMute
<1>6. ASSUME NEW s \in Sides, Ages(s) PROVE Stays(o)
  BY <1>6 DEF Ages
<1>7. ASSUME UNCHANGED vars PROVE Stays(o)
  BY <1>7 DEF vars
<1> QED
  BY <1>1, <1>2, <1>3, <1>4, <1>5, <1>6, <1>7 DEF Next, Moves

\* ... and what that is in PeerRegistry.
LEMMA StepRegistries ==
  ASSUME Inv, Enrolled, [Next]_vars
  PROVE  /\ [LowRegistry!Next]_(LowRegistry!vars)
         /\ [HighRegistry!Next]_(HighRegistry!vars)
<1>1. [LowRegistry!Next]_(LowRegistry!vars)
  <2>1. Moves("low")
    BY StepMoves
  <2>2. CASE Stays("low")
    BY <2>2 DEF Stays, LowRegistry!vars
  <2>3. ASSUME NEW l \in Links, Enters("low", l) PROVE LowRegistry!Enter(l)
    BY <2>3 DEF Enters, LowRegistry!Enter
  <2>4. ASSUME NEW l \in Links, Dies("low", l) PROVE LowRegistry!Die(l)
    BY <2>4 DEF Dies, LowRegistry!Die
  <2>5. ASSUME NEW l \in Links, Leaves("low", l) PROVE LowRegistry!Leave(l)
    BY <2>5 DEF Leaves, LowRegistry!Leave
  <2> QED
    BY <2>1, <2>2, <2>3, <2>4, <2>5 DEF Moves, LowRegistry!Next
<1>2. [HighRegistry!Next]_(HighRegistry!vars)
  <2>1. Moves("high")
    BY StepMoves
  <2>2. CASE Stays("high")
    BY <2>2 DEF Stays, HighRegistry!vars
  <2>3. ASSUME NEW l \in Links, Enters("high", l) PROVE HighRegistry!Enter(l)
    BY <2>3 DEF Enters, HighRegistry!Enter
  <2>4. ASSUME NEW l \in Links, Dies("high", l) PROVE HighRegistry!Die(l)
    BY <2>4 DEF Dies, HighRegistry!Die
  <2>5. ASSUME NEW l \in Links, Leaves("high", l) PROVE HighRegistry!Leave(l)
    BY <2>5 DEF Leaves, HighRegistry!Leave
  <2> QED
    BY <2>1, <2>2, <2>3, <2>4, <2>5 DEF Moves, HighRegistry!Next
<1> QED
  BY <1>1, <1>2

-----------------------------------------------------------------------------
\* Types, and that a daemon's live connection to a peer is the registered one
\* (register_conn, teardown_conn).
THEOREM Inductive == Spec => []Inv
  BY InitKept, InvKept, PTL DEF Spec

\* A daemon never keeps two live connections to one peer, however the registrations
\* of its threads and the ends of their predecessors interleave.
THEOREM OneLive == Spec => []OneLivePerSide
<1>1. Inv => OneLivePerSide
  BY DEF Inv
<1> QED
  BY Inductive, <1>1, PTL

\* While nothing fails the tie-break of register_conn leaves one connection untouched
\* at both ends, from its dial on, unless a side begins a second dial beside its own
\* first (conn.rs:3247): nothing else breaks it, whatever the number of threads.
THEOREM OneLeft == Spec /\ [][OneDialAtATime]_vars => []OneIsLeft
<1>1. Race /\ Inv => OneIsLeft
  <2> SUFFICES ASSUME Race, Inv, faults = 0, NEW k \in Links, by[k] # None
               PROVE  \E l \in Links : \A s \in Sides : end[s][l] \in {"shaking", "up"}
    BY DEF OneIsLeft
  <2>1. \E s \in Sides : Dialled(s, k)
    BY DEF Dialled, Inv, TypeOK
  <2> QED
    BY <2>1 DEF Race, Healthy, OneWhole, Whole
<1>2. Init => Inv /\ Race
  BY InitKept
<1>3. (Inv /\ Race) /\ [Next]_vars /\ [OneDialAtATime]_vars => (Inv /\ Race)'
  BY InvKept, RaceKept
<1> QED
  BY <1>1, <1>2, <1>3, PTL DEF Spec

\* Each daemon's connections to the other are a PeerRegistry: a live connection leaves
\* the registry only when it is dead or a newer one takes its place, however the
\* dials, registrations and teardowns of both ends interleave.
THEOREM Refines == Spec => ImplementsRegistry
<1>1. Init => Inv /\ Enrolled /\ LowRegistry!Init /\ HighRegistry!Init
  BY InitKept, InitEnrolled DEF Init, LowRegistry!Init, HighRegistry!Init, Standing
<1>2. (Inv /\ Enrolled) /\ [Next]_vars => (Inv /\ Enrolled)'
  BY InvKept, EnrolledKept
<1>3. Inv /\ Enrolled /\ [Next]_vars =>
          /\ [LowRegistry!Next]_(LowRegistry!vars)
          /\ [HighRegistry!Next]_(HighRegistry!vars)
  BY StepRegistries
<1> QED
  BY <1>1, <1>2, <1>3, PTL
  DEF Spec, ImplementsRegistry, LowRegistry!Spec, HighRegistry!Spec
=============================================================================
