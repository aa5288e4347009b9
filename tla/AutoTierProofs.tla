--------------------------- MODULE AutoTierProofs ---------------------------
(***************************************************************************)
(* That no connection outlives the tier it was negotiated for, for any     *)
(* number of connections, any settings and any number of upsets.  Doomed   *)
(* strengthens ChoiceIsCurrent: a finding that is recorded but not weighed *)
(* yet (job "noted") counts only while the user has pinned nothing, since  *)
(* a pin ends it without a drop.                                           *)
(***************************************************************************)
EXTENDS AutoTier, TLAPS

-----------------------------------------------------------------------------
(* Types, those of the variables TypeOK leaves out as well.                *)

Verdicts == {"none", "fresh", "old"}
Tiers    == {"auto", "tier0", "tier1"}

Shapes ==
    /\ TypeOK
    /\ alive \in [Sides -> [Links -> BOOLEAN]]
    /\ chose \in [Sides -> [Links -> {"auto", "tier0", "tier1"}]]
    /\ saw \in [Sides -> Links \cup {None}]
    /\ edit \in [Sides -> [pref : Prefs, verdict : Verdicts] \cup {None}]
    /\ \A s \in Sides : job[s]["user"] = "edit" =>
          edit[s] \in [pref : Prefs, verdict : Verdicts]

\* A thread of s drops the connection, or will once it has weighed its finding.
Dooms(s, t) ==
    \/ job[s][t] \in {"announce", "drop"}
    \/ job[s][t] = "noted" /\ pref[s] = "auto"

Doomed ==
    \A s \in Sides :
        LET l == conns[s] IN
        l # None /\ alive[s][l] /\ at[s][l] \in {"wait", "ready"} /\ Outdated(s, l)
            => \E t \in Threads : Dooms(s, t)

Inv == Shapes /\ Doomed

USE TierConstants DEF Sides, store, link, media, work

-----------------------------------------------------------------------------
\* The ticker, the user and the readers are threads.
LEMMA ThreadNames == "ticker" \in Threads /\ "user" \in Threads /\ Links \subseteq Threads
  BY DEF Threads

\* A step of one thread of one side keeps the shape of job.
LEMMA JobShape ==
  ASSUME NEW Steps, NEW j \in [Sides -> [Threads -> Steps]], NEW s \in Sides, NEW t \in Threads,
         NEW x \in Steps
  PROVE  [j EXCEPT ![s][t] = x] \in [Sides -> [Threads -> Steps]]
  OBVIOUS

\* The first state has them.
LEMMA InitKept == Init => Inv
  BY ThreadNames DEF Init, Inv, Shapes, TypeOK, Doomed, Verdicts

\* Every step keeps the shapes.
LEMMA ShapesKept == Shapes /\ [Next]_vars => Shapes'
<1> SUFFICES ASSUME Shapes, [Next]_vars PROVE Shapes'
  OBVIOUS
<1> USE ThreadNames DEF Shapes, TypeOK, Verdicts
<1>1. ASSUME NEW l \in Links, Connect(l) PROVE Shapes'
  BY <1>1 DEF Connect, Free
<1>2. ASSUME NEW l \in Links, Attach(l) PROVE Shapes'
  BY <1>2 DEF Attach
<1>3. ASSUME NEW l \in Links, Break(l) PROVE Shapes'
  BY <1>3 DEF Break, Upset
<1>4. ASSUME NEW l \in Links, Accept(l) PROVE Shapes'
  BY <1>4 DEF Accept
<1>5. ASSUME NEW s \in Sides, NEW l \in Links, Publish(s, l) PROVE Shapes'
  BY <1>5 DEF Publish
<1>6. ASSUME NEW s \in Sides, NEW l \in Links, Retire(s, l) PROVE Shapes'
  BY <1>6 DEF Retire
<1>7. ASSUME NEW s \in Sides, NEW l \in Links, Choose(s, l) PROVE Shapes'
  <2>1. Effective(s) \in Tiers
    BY DEF Effective, Tier, Tiers
  <2> QED
    BY <1>7, <2>1 DEF Choose, Tiers
<1>8. ASSUME NEW s \in Sides, NEW l \in Links, NegotiateEnds(s, l) PROVE Shapes'
  BY <1>8 DEF NegotiateEnds
<1>9. ASSUME NEW s \in Sides, NEW l \in Links, ReaderEnds(s, l) PROVE Shapes'
  BY <1>9 DEF ReaderEnds
<1>10. ASSUME NEW s \in Sides, NEW l \in Links, Heed(s, l) PROVE Shapes'
  BY <1>10 DEF Heed, Busy
<1>11. ASSUME NEW s \in Sides, NEW l \in Links, AttachFails(s, l) PROVE Shapes'
  BY <1>11 DEF AttachFails
<1>12. ASSUME NEW s \in Sides, NEW l \in Links, Lose(s, l) PROVE Shapes'
  BY <1>12 DEF Lose
<1>13. ASSUME NEW s \in Sides, NEW f \in Senders, NEW l \in Links, OpenStream(s, f, l) PROVE Shapes'
  BY <1>13 DEF OpenStream
<1>14. ASSUME NEW s \in Sides, Sweep(s) PROVE Shapes'
  BY <1>14 DEF Sweep, Busy
<1>15. ASSUME NEW s \in Sides, NEW t \in Threads, Note(s, t) PROVE Shapes'
  BY <1>15 DEF Note
<1>16. ASSUME NEW s \in Sides, NEW t \in Threads, Weigh(s, t) PROVE Shapes'
  BY <1>16 DEF Weigh
<1>17. ASSUME NEW s \in Sides, Announce(s) PROVE Shapes'
  <2>1. job' = [job EXCEPT ![s]["ticker"] = "drop"]
    BY <1>17 DEF Announce, Busy
  <2>2. job' \in [Sides -> [Threads -> {"idle", "found", "noted", "announce", "drop", "edit"}]]
    BY <2>1, JobShape
  <2>3. alive' \in [Sides -> [Links -> BOOLEAN]] /\ mail' \in [Sides -> SUBSET Links]
    <3>1. CASE saw[s] # None /\ up[saw[s]]
      BY <1>17, <3>1 DEF Announce, Other
    <3>2. CASE ~(saw[s] # None /\ up[saw[s]])
      <4>1. /\ alive' = [alive EXCEPT ![s] = [k \in Links |-> alive[s][k] /\ k # saw[s]]]
            /\ UNCHANGED mail
        BY <1>17, <3>2 DEF Announce
      <4>2. [k \in Links |-> alive[s][k] /\ k # saw[s]] \in [Links -> BOOLEAN]
        OBVIOUS
      <4> QED
        BY <4>1, <4>2
    <3> QED
      BY <3>1, <3>2
  <2>4. UNCHANGED <<store, conns, at, chose, edit>> /\ saw' = [saw EXCEPT ![s] = None]
    BY <1>17 DEF Announce
  <2> QED
    BY <2>1, <2>2, <2>3, <2>4
<1>18. ASSUME NEW s \in Sides, NEW t \in Threads, Drop(s, t) PROVE Shapes'
  <2>1. job' = [job EXCEPT ![s][t] = "idle"]
    BY <1>18 DEF Drop, Busy
  <2>2. job' \in [Sides -> [Threads -> {"idle", "found", "noted", "announce", "drop", "edit"}]]
    BY <2>1, JobShape
  <2>3. /\ alive' \in [Sides -> [Links -> BOOLEAN]]
        /\ conns' \in [Sides -> Links \cup {None}]
    <3>1. CASE conns[s] # None /\ alive[s][conns[s]]
      <4>1. /\ alive' = [alive EXCEPT ![s][conns[s]] = FALSE]
            /\ conns' = [conns EXCEPT ![s] = None]
        BY <1>18, <3>1 DEF Drop
      <4> QED
        BY <4>1
    <3>2. CASE ~(conns[s] # None /\ alive[s][conns[s]])
      BY <1>18, <3>2 DEF Drop
    <3> QED
      BY <3>1, <3>2
  <2>4. UNCHANGED <<store, at, chose, mail, saw, edit>>
    BY <1>18 DEF Drop
  <2> QED
    BY <2>1, <2>2, <2>3, <2>4
<1>19. ASSUME NEW s \in Sides, NEW p \in Prefs, TakeRecord(s, p) PROVE Shapes'
  <2>1. job' = [job EXCEPT ![s]["user"] = "edit"]
    BY <1>19 DEF TakeRecord, Busy
  <2>2. job' \in [Sides -> [Threads -> {"idle", "found", "noted", "announce", "drop", "edit"}]]
    BY <2>1, JobShape
  <2>3. UNCHANGED <<store, link, mail, saw>>
    BY <1>19 DEF TakeRecord
  <2>4. edit' = [edit EXCEPT ![s] = [pref |-> p, verdict |-> verdict[s]]]
    BY <1>19 DEF TakeRecord
  <2>5. \A u \in Sides : job'[u]["user"] = "edit" =>
            edit'[u] \in [pref : Prefs, verdict : Verdicts]
    BY <2>1, <2>4
  <2> QED
    BY <2>2, <2>3, <2>4, <2>5
<1>20. ASSUME NEW s \in Sides, PutRecord(s) PROVE Shapes'
  BY <1>20 DEF PutRecord, Busy
<1>21. ASSUME Hour PROVE Shapes'
  BY <1>21 DEF Hour
<1>22. ASSUME UNCHANGED vars PROVE Shapes'
  BY <1>22 DEF vars
<1>23. QED
  <2> HIDE DEF Shapes
  <2> QED
    BY <1>1, <1>2, <1>3, <1>4, <1>5, <1>6, <1>7, <1>8, <1>9, <1>10, <1>11, <1>12, <1>13, <1>14,
       <1>15, <1>16, <1>17, <1>18, <1>19, <1>20, <1>21, <1>22
    DEF Next, Register, Reader, Downgrade

\* Every step keeps a connection with an outdated tier doomed.
LEMMA DoomedKept == Shapes /\ Doomed /\ [Next]_vars => Doomed'
<1> SUFFICES ASSUME Shapes, Doomed, [Next]_vars PROVE Doomed'
  OBVIOUS
<1> USE ThreadNames DEF Shapes, TypeOK, Verdicts, Doomed, Dooms, Outdated, Effective, Tier
<1>1. ASSUME NEW l \in Links, Connect(l) PROVE Doomed'
  BY <1>1 DEF Connect, Free
<1>2. ASSUME NEW l \in Links, Attach(l) PROVE Doomed'
  BY <1>2 DEF Attach
<1>3. ASSUME NEW l \in Links, Break(l) PROVE Doomed'
  BY <1>3 DEF Break, Upset
<1>4. ASSUME NEW l \in Links, Accept(l) PROVE Doomed'
  BY <1>4 DEF Accept
<1>5. ASSUME NEW s \in Sides, NEW l \in Links, Publish(s, l) PROVE Doomed'
  BY <1>5 DEF Publish
<1>6. ASSUME NEW s \in Sides, NEW l \in Links, Retire(s, l) PROVE Doomed'
  BY <1>6 DEF Retire
<1>7. ASSUME NEW s \in Sides, NEW l \in Links, Choose(s, l) PROVE Doomed'
  BY <1>7 DEF Choose
<1>8. ASSUME NEW s \in Sides, NEW l \in Links, NegotiateEnds(s, l) PROVE Doomed'
  BY <1>8 DEF NegotiateEnds
<1>9. ASSUME NEW s \in Sides, NEW l \in Links, ReaderEnds(s, l) PROVE Doomed'
  BY <1>9 DEF ReaderEnds
<1>10. ASSUME NEW s \in Sides, NEW l \in Links, Heed(s, l) PROVE Doomed'
  BY <1>10 DEF Heed, Busy
<1>11. ASSUME NEW s \in Sides, NEW l \in Links, AttachFails(s, l) PROVE Doomed'
  BY <1>11 DEF AttachFails
<1>12. ASSUME NEW s \in Sides, NEW l \in Links, Lose(s, l) PROVE Doomed'
  BY <1>12 DEF Lose
<1>13. ASSUME NEW s \in Sides, NEW f \in Senders, NEW l \in Links, OpenStream(s, f, l) PROVE Doomed'
  BY <1>13 DEF OpenStream
<1>14. ASSUME NEW s \in Sides, Sweep(s) PROVE Doomed'
  BY <1>14 DEF Sweep, Busy
<1>15. ASSUME NEW s \in Sides, NEW t \in Threads, Note(s, t) PROVE Doomed'
  BY <1>15 DEF Note
<1>16. ASSUME NEW s \in Sides, NEW t \in Threads, Weigh(s, t) PROVE Doomed'
  BY <1>16 DEF Weigh
<1>17. ASSUME NEW s \in Sides, Announce(s) PROVE Doomed'
  BY <1>17 DEF Announce, Busy
<1>18. ASSUME NEW s \in Sides, NEW t \in Threads, Drop(s, t) PROVE Doomed'
  BY <1>18 DEF Drop, Busy
<1>19. ASSUME NEW s \in Sides, NEW p \in Prefs, TakeRecord(s, p) PROVE Doomed'
  BY <1>19 DEF TakeRecord, Busy
<1>20. ASSUME NEW s \in Sides, PutRecord(s) PROVE Doomed'
  BY <1>20 DEF PutRecord, Busy
<1>21. ASSUME Hour PROVE Doomed'
  BY <1>21 DEF Hour
<1>22. ASSUME UNCHANGED vars PROVE Doomed'
  BY <1>22 DEF vars
<1>23. QED
  <2> HIDE DEF Shapes, Doomed
  <2> QED
    BY <1>1, <1>2, <1>3, <1>4, <1>5, <1>6, <1>7, <1>8, <1>9, <1>10, <1>11, <1>12, <1>13, <1>14,
       <1>15, <1>16, <1>17, <1>18, <1>19, <1>20, <1>21, <1>22
    DEF Next, Register, Reader, Downgrade

-----------------------------------------------------------------------------
\* The inductive invariant of the tier choice.
THEOREM Inductive == Spec => []Inv
<1>1. Inv /\ [Next]_vars => Inv'
  BY ShapesKept, DoomedKept DEF Inv
<1>2. QED
  BY InitKept, <1>1, PTL DEF Spec

\* A connection negotiated for a tier that is ruled out by now has a thread on
\* its way to drop it (autotier.rs: downgrade, set_tier).
THEOREM Current == Spec => []ChoiceIsCurrent
<1>1. Inv => ChoiceIsCurrent
  BY DEF Inv, Doomed, Dooms, ChoiceIsCurrent, Pending
<1>2. QED
  BY Inductive, <1>1, PTL
=============================================================================
