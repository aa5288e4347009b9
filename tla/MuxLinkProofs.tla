--------------------------- MODULE MuxLinkProofs ---------------------------
(***************************************************************************)
(* That the writer of a tier 2 connection loses no wakeup, for queues of    *)
(* any length.  Inv adds to the property what each producer's flag says at  *)
(* every step of the writer on its way to bed, and that a kill on that way  *)
(* leaves its unpark behind.                                               *)
(***************************************************************************)
EXTENDS MuxLink, TLAPS

\* The writer has a frame to write when it goes to write one.
HasFrame == writer = "media" => media > 0

\* A flag is up from the moment it is set until the writer is up again.
Flagged ==
    /\ writer \in {"armed", "lookMedia", "lookControl", "parked", "rise", "risen"} => ioParked
    /\ writer \in {"lookMedia", "lookControl", "parked", "rise"} => mediaParked

\* What came after the look at a queue has its producer, or its unpark, behind it.
MediaSeen == writer \in {"lookControl", "parked"} /\ media > 0 => tick = "queued" \/ token
ControlSeen == writer = "parked" /\ outbox > 0 => flush = "pushed" \/ token

\* The end of the media half leaves an unpark that only a park consumes.
KillSeen ==
    writer \in {"arm", "armed", "lookMedia", "lookControl", "parked"} => mediaAlive \/ token

Awake == HasFrame /\ Flagged /\ MediaSeen /\ ControlSeen /\ KillSeen

Inv == TypeOK /\ Awake

USE MuxAssumption

-----------------------------------------------------------------------------
(* One lemma for each thread.                                              *)

\* kill(): its first step leaves the unpark, before any other thread can see the end.
LEMMA KillKeeps == Inv /\ Kill => Inv'
<1> SUFFICES ASSUME Inv, Kill PROVE Inv'
  OBVIOUS
<1>1. CASE KillMedia
  <2>1. TypeOK'
    <3>1. Flags'
      BY <1>1, Zenon DEF Inv, TypeOK, Flags, queues, link, wake, KillMedia
    <3>2. Bounds'
      BY <1>1 DEF Inv, HasFrame, TypeOK, Bounds, queues, link, wake, KillMedia
    <3>3. (kill.step # 0 => ~alive)'
      BY <1>1 DEF Inv, TypeOK, Bounds, queues, link, wake, KillMedia
    <3>4. QED
      BY <3>1, <3>2, <3>3 DEF TypeOK
  <2>2. Awake'
    BY <1>1 DEF Inv, TypeOK, Flags, Bounds, Awake, HasFrame, Flagged, MediaSeen, ControlSeen,
                  KillSeen, queues, link, wake, KillMedia
  <2>3. QED
    BY <2>1, <2>2 DEF Inv
<1>2. CASE KillControl
  BY <1>2 DEF Inv, TypeOK, Flags, Bounds, Awake, HasFrame, Flagged, MediaSeen, ControlSeen,
                KillSeen, queues, link, wake, KillControl
<1>3. CASE KillSocket
  <2>1. TypeOK'
    <3>1. Flags'
      BY <1>3, Zenon DEF Inv, TypeOK, Flags, queues, link, wake, KillSocket, NoKill
    <3>2. Bounds'
      BY <1>3 DEF Inv, HasFrame, TypeOK, Bounds, queues, link, wake, KillSocket, NoKill
    <3>3. (kill.step # 0 => ~alive)'
      BY <1>3 DEF Inv, TypeOK, Bounds, queues, link, wake, KillSocket, NoKill
    <3>4. QED
      BY <3>1, <3>2, <3>3 DEF TypeOK
  <2>2. Awake'
    BY <1>3 DEF Inv, TypeOK, Flags, Bounds, Awake, HasFrame, Flagged, MediaSeen, ControlSeen,
                  KillSeen, queues, link, wake, KillSocket, NoKill
  <2>3. QED
    BY <2>1, <2>2 DEF Inv
<1>4. QED
  BY <1>1, <1>2, <1>3 DEF Kill

\* The writer: a flag before each look, a look before the park.
LEMMA WriterKeeps == Inv /\ Writer => Inv'
<1> SUFFICES ASSUME Inv, Writer PROVE Inv'
  OBVIOUS
<1>1. CASE Turn
  BY <1>1 DEF Inv, TypeOK, Flags, Bounds, Awake, HasFrame, Flagged, MediaSeen, ControlSeen,
                KillSeen, queues, link, wake, Turn, ControlMayGo
<1>2. CASE WriteControl
  <2>1. TypeOK'
    <3>1. Flags'
      BY <1>2, Zenon DEF Inv, TypeOK, Flags, queues, link, wake, WriteControl, SocketFails, Fault
    <3>2. Bounds'
      BY <1>2
         DEF Inv, HasFrame, TypeOK, Bounds, queues, link, wake, WriteControl, SocketFails, Fault
    <3>3. (kill.step # 0 => ~alive)'
      BY <1>2 DEF Inv, TypeOK, Bounds, queues, link, wake, WriteControl, SocketFails, Fault
    <3>4. QED
      BY <3>1, <3>2, <3>3 DEF TypeOK
  <2>2. Awake'
    BY <1>2 DEF Inv, TypeOK, Flags, Bounds, Awake, HasFrame, Flagged, MediaSeen, ControlSeen,
                  KillSeen, queues, link, wake, WriteControl, SocketFails, Fault
  <2>3. QED
    BY <2>1, <2>2 DEF Inv
<1>3. CASE WriteMedia
  BY <1>3 DEF Inv, TypeOK, Flags, Bounds, Awake, HasFrame, Flagged, MediaSeen, ControlSeen,
                KillSeen, queues, link, wake, WriteMedia, SocketFails, Fault
<1>4. CASE WriterKills
  <2>1. TypeOK'
    <3>1. Flags'
      BY <1>4, Zenon DEF Inv, TypeOK, Flags, queues, link, wake, WriterKills, StartKill
    <3>2. Bounds'
      BY <1>4 DEF Inv, HasFrame, TypeOK, Bounds, queues, link, wake, WriterKills, StartKill
    <3>3. (kill.step # 0 => ~alive)'
      BY <1>4 DEF Inv, TypeOK, Bounds, queues, link, wake, WriterKills, StartKill
    <3>4. QED
      BY <3>1, <3>2, <3>3 DEF TypeOK
  <2>2. Awake'
    BY <1>4 DEF Inv, TypeOK, Flags, Bounds, Awake, HasFrame, Flagged, MediaSeen, ControlSeen,
                  KillSeen, queues, link, wake, WriterKills, StartKill
  <2>3. QED
    BY <2>1, <2>2 DEF Inv
<1>5. CASE WriterKilled
  BY <1>5 DEF Inv, TypeOK, Flags, Bounds, Awake, HasFrame, Flagged, MediaSeen, ControlSeen,
                KillSeen, queues, link, wake, WriterKilled
<1>6. CASE Lull
  BY <1>6 DEF Inv, TypeOK, Flags, Bounds, Awake, HasFrame, Flagged, MediaSeen, ControlSeen,
                KillSeen, queues, link, wake, Lull, SocketFails, Fault
<1>7. CASE ArmControl
  BY <1>7 DEF Inv, TypeOK, Flags, Bounds, Awake, HasFrame, Flagged, MediaSeen, ControlSeen,
                KillSeen, queues, link, wake, ArmControl
<1>8. CASE ArmMedia
  BY <1>8 DEF Inv, TypeOK, Flags, Bounds, Awake, HasFrame, Flagged, MediaSeen, ControlSeen,
                KillSeen, queues, link, wake, ArmMedia
<1>9. CASE LookAgain
  BY <1>9 DEF Inv, TypeOK, Flags, Bounds, Awake, HasFrame, Flagged, MediaSeen, ControlSeen,
                KillSeen, queues, link, wake, LookAgain
<1>10. CASE Unparked
  <2>1. TypeOK'
    <3>1. Flags'
      BY <1>10, Zenon DEF Inv, TypeOK, Flags, queues, link, wake, Unparked
    <3>2. Bounds'
      BY <1>10 DEF Inv, HasFrame, TypeOK, Bounds, queues, link, wake, Unparked
    <3>3. (kill.step # 0 => ~alive)'
      BY <1>10 DEF Inv, TypeOK, Bounds, queues, link, wake, Unparked
    <3>4. QED
      BY <3>1, <3>2, <3>3 DEF TypeOK
  <2>2. Awake'
    BY <1>10 DEF Inv, TypeOK, Flags, Bounds, Awake, HasFrame, Flagged, MediaSeen, ControlSeen,
                  KillSeen, queues, link, wake, Unparked
  <2>3. QED
    BY <2>1, <2>2 DEF Inv
<1>11. CASE Rise
  <2>1. TypeOK'
    <3>1. Flags'
      BY <1>11, Zenon DEF Inv, TypeOK, Flags, queues, link, wake, Rise
    <3>2. Bounds'
      BY <1>11 DEF Inv, HasFrame, TypeOK, Bounds, queues, link, wake, Rise
    <3>3. (kill.step # 0 => ~alive)'
      BY <1>11 DEF Inv, TypeOK, Bounds, queues, link, wake, Rise
    <3>4. QED
      BY <3>1, <3>2, <3>3 DEF TypeOK
  <2>2. Awake'
    BY <1>11 DEF Inv, TypeOK, Flags, Bounds, Awake, HasFrame, Flagged, MediaSeen, ControlSeen,
                  KillSeen, queues, link, wake, Rise
  <2>3. QED
    BY <2>1, <2>2 DEF Inv
<1>12. QED
  BY <1>1, <1>2, <1>3, <1>4, <1>5, <1>6, <1>7, <1>8, <1>9, <1>10, <1>11 DEF Writer

\* The producers: the frame is in its queue before the flag is looked at.
Producers == (\E n \in 1..MaxMessage : Flush(n)) \/ FlushWakes \/ Enqueue \/ TickWakes

LEMMA ProducersKeep == Inv /\ Producers => Inv'
<1> SUFFICES ASSUME Inv, Producers PROVE Inv'
  OBVIOUS
<1>1. CASE \E n \in 1..MaxMessage : Flush(n)
  BY <1>1 DEF Inv, TypeOK, Flags, Bounds, Awake, HasFrame, Flagged, MediaSeen, ControlSeen,
                KillSeen, queues, link, wake, Flush
<1>2. CASE FlushWakes
  BY <1>2 DEF Inv, TypeOK, Flags, Bounds, Awake, HasFrame, Flagged, MediaSeen, ControlSeen,
                KillSeen, queues, link, wake, FlushWakes
<1>3. CASE Enqueue
  BY <1>3 DEF Inv, TypeOK, Flags, Bounds, Awake, HasFrame, Flagged, MediaSeen, ControlSeen,
                KillSeen, queues, link, wake, Enqueue
<1>4. CASE TickWakes
  BY <1>4 DEF Inv, TypeOK, Flags, Bounds, Awake, HasFrame, Flagged, MediaSeen, ControlSeen,
                KillSeen, queues, link, wake, TickWakes
<1>5. QED
  BY <1>1, <1>2, <1>3, <1>4 DEF Producers

\* The park's timeout, the reader and the control stack.
Others == \/ ParkTimesOut \/ CreditDue \/ Deliver \/ ReadEnds \/ ReaderKills
          \/ ReaderKilled \/ Receive \/ Teardown

LEMMA OthersKeep == Inv /\ Others => Inv'
<1> SUFFICES ASSUME Inv, Others PROVE Inv'
  OBVIOUS
<1>1. CASE ParkTimesOut
  BY <1>1 DEF Inv, TypeOK, Flags, Bounds, Awake, HasFrame, Flagged, MediaSeen, ControlSeen,
                KillSeen, queues, link, wake, ParkTimesOut
<1>2. CASE CreditDue
  BY <1>2 DEF Inv, TypeOK, Flags, Bounds, Awake, HasFrame, Flagged, MediaSeen, ControlSeen,
                KillSeen, queues, link, wake, CreditDue
<1>3. CASE Deliver
  <2>1. TypeOK'
    <3>1. Flags'
      BY <1>3, Zenon DEF Inv, TypeOK, Flags, queues, link, wake, Deliver
    <3>2. Bounds'
      BY <1>3 DEF Inv, HasFrame, TypeOK, Bounds, queues, link, wake, Deliver
    <3>3. (kill.step # 0 => ~alive)'
      BY <1>3 DEF Inv, TypeOK, Bounds, queues, link, wake, Deliver
    <3>4. QED
      BY <3>1, <3>2, <3>3 DEF TypeOK
  <2>2. Awake'
    BY <1>3 DEF Inv, TypeOK, Flags, Bounds, Awake, HasFrame, Flagged, MediaSeen, ControlSeen,
                  KillSeen, queues, link, wake, Deliver
  <2>3. QED
    BY <2>1, <2>2 DEF Inv
<1>4. CASE ReadEnds
  BY <1>4 DEF Inv, TypeOK, Flags, Bounds, Awake, HasFrame, Flagged, MediaSeen, ControlSeen,
                KillSeen, queues, link, wake, ReadEnds, SocketFails, Fault
<1>5. CASE ReaderKills
  <2>1. TypeOK'
    <3>1. Flags'
      BY <1>5, Zenon DEF Inv, TypeOK, Flags, queues, link, wake, ReaderKills, StartKill
    <3>2. Bounds'
      BY <1>5 DEF Inv, HasFrame, TypeOK, Bounds, queues, link, wake, ReaderKills, StartKill
    <3>3. (kill.step # 0 => ~alive)'
      BY <1>5 DEF Inv, TypeOK, Bounds, queues, link, wake, ReaderKills, StartKill
    <3>4. QED
      BY <3>1, <3>2, <3>3 DEF TypeOK
  <2>2. Awake'
    BY <1>5 DEF Inv, TypeOK, Flags, Bounds, Awake, HasFrame, Flagged, MediaSeen, ControlSeen,
                  KillSeen, queues, link, wake, ReaderKills, StartKill
  <2>3. QED
    BY <2>1, <2>2 DEF Inv
<1>6. CASE ReaderKilled
  BY <1>6 DEF Inv, TypeOK, Flags, Bounds, Awake, HasFrame, Flagged, MediaSeen, ControlSeen,
                KillSeen, queues, link, wake, ReaderKilled
<1>7. CASE Receive
  <2>1. TypeOK'
    <3>1. Flags'
      BY <1>7, Zenon DEF Inv, TypeOK, Flags, queues, link, wake, Receive
    <3>2. Bounds'
      BY <1>7 DEF Inv, HasFrame, TypeOK, Bounds, queues, link, wake, Receive
    <3>3. (kill.step # 0 => ~alive)'
      BY <1>7 DEF Inv, TypeOK, Bounds, queues, link, wake, Receive
    <3>4. QED
      BY <3>1, <3>2, <3>3 DEF TypeOK
  <2>2. Awake'
    BY <1>7 DEF Inv, TypeOK, Flags, Bounds, Awake, HasFrame, Flagged, MediaSeen, ControlSeen,
                  KillSeen, queues, link, wake, Receive
  <2>3. QED
    BY <2>1, <2>2 DEF Inv
<1>8. CASE Teardown
  <2>1. TypeOK'
    <3>1. Flags'
      BY <1>8, Zenon DEF Inv, TypeOK, Flags, queues, link, wake, Teardown, StartKill, Fault
    <3>2. Bounds'
      BY <1>8 DEF Inv, HasFrame, TypeOK, Bounds, queues, link, wake, Teardown, StartKill, Fault
    <3>3. (kill.step # 0 => ~alive)'
      BY <1>8 DEF Inv, TypeOK, Bounds, queues, link, wake, Teardown, StartKill, Fault
    <3>4. QED
      BY <3>1, <3>2, <3>3 DEF TypeOK
  <2>2. Awake'
    BY <1>8 DEF Inv, TypeOK, Flags, Bounds, Awake, HasFrame, Flagged, MediaSeen, ControlSeen,
                  KillSeen, queues, link, wake, Teardown, StartKill, Fault
  <2>3. QED
    BY <2>1, <2>2 DEF Inv
<1>9. QED
  BY <1>1, <1>2, <1>3, <1>4, <1>5, <1>6, <1>7, <1>8 DEF Others

-----------------------------------------------------------------------------
\* Init, and every step of Next, a stutter included, keep the invariant.
LEMMA InvInit == Init => Inv
<1> SUFFICES ASSUME Init PROVE Inv
  OBVIOUS
<1>1. Flags
  BY Zenon DEF Init, Flags
<1>2. Bounds /\ (kill.step # 0 => ~alive)
  BY DEF Init, NoKill, Bounds
<1>3. Awake
  BY DEF Init, Awake, HasFrame, Flagged, MediaSeen, ControlSeen, KillSeen
<1>4. QED
  BY <1>1, <1>2, <1>3 DEF Inv, TypeOK

LEMMA InvNext == Inv /\ [Next]_vars => Inv'
<1>1. CASE Next
  BY <1>1, KillKeeps, WriterKeeps, ProducersKeep, OthersKeep DEF Next, Producers, Others
<1>2. CASE UNCHANGED vars
  BY <1>2 DEF vars, queues, link, wake, Inv, TypeOK, Flags, Bounds, Awake, HasFrame, Flagged,
              MediaSeen, ControlSeen, KillSeen
<1>3. QED
  BY <1>1, <1>2

\* The invariant holds throughout.
THEOREM Inductive == Spec => []Inv
<1>1. QED
  BY InvInit, InvNext, PTL DEF Spec

\* Queues within their bounds, for every size of them.
THEOREM Types == Spec => []TypeOK
<1>1. Inv => TypeOK
  BY DEF Inv
<1>2. QED
  BY <1>1, Inductive, PTL

\* The writer does not sleep through a frame, nor through the end of the media half
\* (WriterPark::armed, TcpMediaLink::park_writer): no wakeup rests on the timeout.
THEOREM NoneIsLost == Spec => []NoLostWakeup
<1>1. Inv => NoLostWakeup
  BY DEF Inv, TypeOK, Awake, MediaSeen, ControlSeen, KillSeen, NoLostWakeup
<1>2. QED
  BY <1>1, Inductive, PTL
=============================================================================
