------------------------------ MODULE MuxLink ------------------------------
(***************************************************************************)
(* One tier 2 connection (mux.rs, muxio.rs, the queue of tcpmedia.rs): the *)
(* control stack and the media engine put frames into two queues, one      *)
(* writer thread puts both on one socket, one reader thread takes both off *)
(* it.  Media goes first, a control frame is owed every CONTROL_CREDIT; a  *)
(* writer without work parks, and either producer must find it.  Whatever  *)
(* ends one part of the connection ends all of it.                         *)
(***************************************************************************)
EXTENDS Naturals

CONSTANTS
    MaxOut,     \* MAX_PENDING_FRAMES of the control outbox
    MaxMedia,   \* slots of the media ring
    MaxInbox,   \* MAX_INBOX_BYTES, in control frames
    MaxMessage, \* frames one control message is cut into at most
    Faults      \* how often the socket or the user may end the connection

ASSUME MuxAssumption ==
    /\ {MaxOut, MaxMedia, MaxInbox, MaxMessage} \subseteq Nat \ {0}
    /\ Faults \in Nat

VARIABLES
    outbox, media,              \* frames that wait for the writer
    inbox, closed,              \* what the control stack has to read, and its end
    alive, mediaAlive, sockUp,  \* the link, its media half, the socket
    ioParked, mediaParked,      \* what the two producers look at before they unpark
    token,                      \* the writer thread has an unpark to consume
    credit,                     \* CONTROL_CREDIT has passed since the last control frame
    writer, reader,             \* where the two threads are
    flush, tick,                \* where the control stack and tx_loop are
    eof,                        \* the control stack has read the end
    kill,                       \* who runs kill(), and its next step
    faults

queues == <<outbox, media, inbox, closed>>
link   == <<alive, mediaAlive, sockUp>>
wake   == <<ioParked, mediaParked, token>>
vars == <<queues, link, wake, credit, writer, reader, flush, tick, eof, kill, faults>>

NoKill == [by |-> "nobody", step |-> 0]

Init ==
    /\ outbox = 0 /\ media = 0 /\ inbox = 0 /\ closed = FALSE
    /\ alive = TRUE /\ mediaAlive = TRUE /\ sockUp = TRUE
    /\ ioParked = FALSE /\ mediaParked = FALSE /\ token = FALSE
    /\ credit = FALSE
    /\ writer = "turn" /\ reader = "read" /\ flush = "idle" /\ tick = "idle"
    /\ eof = FALSE /\ kill = NoKill /\ faults = 0

Fault == faults < Faults /\ faults' = faults + 1

\* A write fails because the socket is down, or goes down now.
SocketFails == \/ ~sockUp /\ UNCHANGED faults
               \/ sockUp /\ Fault

-----------------------------------------------------------------------------
(* MuxLink::kill: the first caller ends everything, the others return.     *)

StartKill(who) ==
    IF alive THEN alive' = FALSE /\ kill' = [by |-> who, step |-> 1]
             ELSE UNCHANGED <<alive, kill>>

KillMedia ==
    /\ kill.step = 1
    /\ mediaAlive' = FALSE /\ token' = TRUE
    /\ kill' = [kill EXCEPT !.step = 2]
    /\ UNCHANGED <<queues, alive, sockUp, ioParked, mediaParked, credit, writer,
                   reader, flush, tick, eof, faults>>

KillControl ==
    /\ kill.step = 2
    /\ closed' = TRUE
    /\ kill' = [kill EXCEPT !.step = 3]
    /\ UNCHANGED <<outbox, media, inbox, link, wake, credit, writer, reader, flush,
                   tick, eof, faults>>

KillSocket ==
    /\ kill.step = 3
    /\ token' = (token \/ ioParked)
    /\ sockUp' = FALSE
    /\ kill' = NoKill
    /\ UNCHANGED <<queues, alive, mediaAlive, ioParked, mediaParked, credit, writer,
                   reader, flush, tick, eof, faults>>

Kill == KillMedia \/ KillControl \/ KillSocket

-----------------------------------------------------------------------------
(* The writer thread: write_loop.                                          *)

\* Mutant: strict priority, without the credit.
ControlAfterMedia == outbox > 0 /\ media = 0

\* control_may_go
ControlMayGo == outbox > 0 /\ (media = 0 \/ credit)

Turn ==
    /\ writer = "turn"
    /\ \/ /\ ControlMayGo
          /\ outbox' = outbox - 1 /\ writer' = "control"
       \/ /\ ~ControlMayGo
          /\ writer' = IF media > 0 THEN "media" ELSE "lull"
          /\ UNCHANGED outbox
    /\ UNCHANGED <<media, inbox, closed, link, wake, credit, reader, flush, tick,
                   eof, kill, faults>>

\* write_control_frame: sent, or the link is finished, and a frame of which nothing
\* went out and that was put back makes no difference.
WriteControl ==
    /\ writer = "control"
    /\ \/ /\ sockUp
          /\ credit' = FALSE /\ writer' = "turn" /\ UNCHANGED faults
       \/ SocketFails /\ writer' = "fatal" /\ UNCHANGED credit
    /\ UNCHANGED <<queues, link, wake, reader, flush, tick, eof, kill>>

\* write_one_queued: sent, stale or revoked, and the slot is free again.
WriteMedia ==
    /\ writer = "media"
    /\ media' = media - 1
    /\ \/ writer' = (IF mediaAlive THEN "turn" ELSE "lull") /\ UNCHANGED faults
       \/ SocketFails /\ writer' = "fatal"
    /\ UNCHANGED <<outbox, inbox, closed, link, wake, credit, reader, flush, tick,
                   eof, kill>>

\* Mutant: the media queue only, and the socket and the reader live on.
WriterKillsMedia ==
    /\ writer \in {"fatal", "failed"}
    /\ mediaAlive' = FALSE /\ writer' = IF writer = "fatal" THEN "lull" ELSE "done"
    /\ UNCHANGED <<queues, alive, kill, sockUp, wake, credit, reader, flush, tick, eof,
                   faults>>

\* The whole link, not just the media queue.
WriterKills ==
    /\ writer \in {"fatal", "failed"}
    /\ StartKill("writer")
    /\ writer' = CASE alive -> IF writer = "fatal" THEN "killing" ELSE "failing"
                   [] ~alive -> IF writer = "fatal" THEN "lull" ELSE "done"
    /\ UNCHANGED <<queues, mediaAlive, sockUp, wake, credit, reader, flush, tick,
                   eof, faults>>

WriterKilled ==
    /\ writer \in {"killing", "failing"} /\ kill.by # "writer"
    /\ writer' = IF writer = "killing" THEN "lull" ELSE "done"
    /\ UNCHANGED <<queues, link, wake, credit, reader, flush, tick, eof, kill, faults>>

\* Nothing to write: end, or the carrier's heartbeat, then to bed.
Lull ==
    /\ writer = "lull"
    /\ \/ /\ ~mediaAlive \/ closed
          /\ writer' = "done" /\ UNCHANGED faults
       \/ /\ mediaAlive /\ ~closed
          /\ \/ writer' = "arm" /\ UNCHANGED faults
             \/ SocketFails /\ writer' = "failed"
    /\ UNCHANGED <<queues, link, wake, credit, reader, flush, tick, eof, kill>>

\* Mutant: the park belongs to the media link, and only its flag is set.
NeverArmControl ==
    /\ writer = "arm" /\ writer' = "armed"
    /\ UNCHANGED <<queues, link, wake, credit, reader, flush, tick, eof, kill, faults>>

\* WriterPark::armed around TcpMediaLink::park_writer: a flag for each producer,
\* both queues again, and only then the park.
ArmControl ==
    /\ writer = "arm" /\ writer' = "armed"
    /\ ioParked' = TRUE
    /\ UNCHANGED <<queues, link, mediaParked, token, credit, reader, flush, tick,
                   eof, kill, faults>>

ArmMedia ==
    /\ writer = "armed" /\ writer' = "lookMedia"
    /\ mediaParked' = TRUE
    /\ UNCHANGED <<queues, link, ioParked, token, credit, reader, flush, tick, eof,
                   kill, faults>>

LookAgain ==
    /\ \/ /\ writer = "lookMedia"
          /\ writer' = IF media = 0 THEN "lookControl" ELSE "rise"
       \/ /\ writer = "lookControl"
          /\ writer' = IF outbox = 0 THEN "parked" ELSE "rise"
    /\ UNCHANGED <<queues, link, wake, credit, reader, flush, tick, eof, kill, faults>>

Unparked ==
    /\ writer = "parked" /\ token
    /\ token' = FALSE /\ writer' = "rise"
    /\ UNCHANGED <<queues, link, ioParked, mediaParked, credit, reader, flush, tick,
                   eof, kill, faults>>

Rise ==
    /\ \/ /\ writer = "rise" /\ writer' = "risen" /\ mediaParked' = FALSE
          /\ UNCHANGED ioParked
       \/ /\ writer = "risen" /\ writer' = "turn" /\ ioParked' = FALSE
          /\ UNCHANGED mediaParked
    /\ UNCHANGED <<queues, link, token, credit, reader, flush, tick, eof, kill, faults>>

\* park_timeout's slice: nothing rests on it.
ParkTimesOut ==
    /\ writer = "parked" /\ writer' = "rise"
    /\ UNCHANGED <<queues, link, wake, credit, reader, flush, tick, eof, kill, faults>>

Writer == \/ Turn \/ WriteControl \/ WriteMedia \/ WriterKills \/ WriterKilled \/ Lull
          \/ ArmControl \/ ArmMedia \/ LookAgain \/ Unparked \/ Rise

CreditDue ==
    /\ ~credit /\ credit' = TRUE
    /\ UNCHANGED <<queues, link, wake, writer, reader, flush, tick, eof, kill, faults>>

-----------------------------------------------------------------------------
(* The producers: MuxControlStream::flush, TcpMediaLink::enqueue and wake. *)

\* A message goes into the outbox whole or not at all; one that does not fit
\* poisons the channel.
Flush(n) ==
    /\ flush = "idle" /\ ~eof
    /\ IF outbox + n <= MaxOut
       THEN outbox' = outbox + n /\ flush' = "pushed"
       ELSE flush' = "poisoned" /\ UNCHANGED outbox
    /\ UNCHANGED <<media, inbox, closed, link, wake, credit, writer, reader, tick,
                   eof, kill, faults>>

\* WriterPark::wake
FlushWakes ==
    /\ flush = "pushed" /\ flush' = "idle"
    /\ token' = (token \/ ioParked)
    /\ UNCHANGED <<queues, link, ioParked, mediaParked, credit, writer, reader, tick,
                   eof, kill, faults>>

\* Refused when the ring is full: a frame is dropped, never waited for.
Enqueue ==
    /\ mediaAlive /\ media < MaxMedia
    /\ media' = media + 1 /\ tick' = "queued"
    /\ UNCHANGED <<outbox, inbox, closed, link, wake, credit, writer, reader, flush,
                   eof, kill, faults>>

TickWakes ==
    /\ tick = "queued" /\ tick' = "idle"
    /\ token' = (token \/ mediaParked)
    /\ UNCHANGED <<queues, link, ioParked, mediaParked, credit, writer, reader, flush,
                   eof, kill, faults>>

-----------------------------------------------------------------------------
(* The reader thread and the control stack behind it.                      *)

\* deliver_control: an inbox nobody reads ends the connection.
Deliver ==
    /\ reader = "read" /\ alive /\ sockUp
    /\ IF closed THEN reader' = "ended" /\ UNCHANGED <<inbox, closed>>
       ELSE IF inbox < MaxInbox
       THEN inbox' = inbox + 1 /\ UNCHANGED <<closed, reader>>
       ELSE closed' = TRUE /\ reader' = "ended" /\ UNCHANGED inbox
    /\ UNCHANGED <<outbox, media, link, wake, credit, writer, flush, tick, eof, kill,
                   faults>>

\* The peer is gone, the stream is out of frame, or the link is dead already.
ReadEnds ==
    /\ reader = "read" /\ reader' = "ended"
    /\ \/ SocketFails
       \/ ~alive /\ UNCHANGED faults
    /\ UNCHANGED <<queues, link, wake, credit, writer, flush, tick, eof, kill>>

ReaderKills ==
    /\ reader = "ended" /\ StartKill("reader")
    /\ reader' = IF alive THEN "killing" ELSE "done"
    /\ UNCHANGED <<queues, mediaAlive, sockUp, wake, credit, writer, flush, tick, eof,
                   faults>>

ReaderKilled ==
    /\ reader = "killing" /\ kill.by # "reader" /\ reader' = "done"
    /\ UNCHANGED <<queues, link, wake, credit, writer, flush, tick, eof, kill, faults>>

Reader == (ReadEnds /\ ~(sockUp /\ alive)) \/ ReaderKills \/ ReaderKilled

\* MuxControlStream::read drains what came in, then sees the end.
Receive ==
    /\ ~eof
    /\ IF inbox > 0 THEN inbox' = inbox - 1 /\ UNCHANGED eof
       ELSE closed /\ eof' = TRUE /\ UNCHANGED inbox
    /\ UNCHANGED <<outbox, media, closed, link, wake, credit, writer, reader, flush,
                   tick, kill, faults>>

\* teardown_conn: the channel ended, was poisoned, or the user disconnects.
Teardown ==
    /\ alive /\ StartKill("teardown")
    /\ \/ (eof \/ flush = "poisoned") /\ UNCHANGED faults
       \/ Fault
    /\ UNCHANGED <<queues, mediaAlive, sockUp, wake, credit, writer, reader, flush,
                   tick, eof>>

-----------------------------------------------------------------------------
Next == \/ Kill \/ Writer \/ ParkTimesOut \/ CreditDue
        \/ (\E n \in 1..MaxMessage : Flush(n)) \/ FlushWakes \/ Enqueue \/ TickWakes
        \/ Deliver \/ ReadEnds \/ ReaderKills \/ ReaderKilled \/ Receive \/ Teardown

Spec == Init /\ [][Next]_vars

\* The threads run and time passes.  Nothing is asked of the two environments,
\* and nothing of the park's timeout.
Fairness ==
    /\ WF_vars(Writer) /\ WF_vars(Kill) /\ WF_vars(CreditDue)
    /\ WF_vars(FlushWakes) /\ WF_vars(TickWakes)
    /\ WF_vars(Reader) /\ WF_vars(Receive)
    /\ WF_vars(Teardown /\ (eof \/ flush = "poisoned"))
FairSpec == Spec /\ Fairness
-----------------------------------------------------------------------------
Flags ==
    /\ closed \in BOOLEAN /\ alive \in BOOLEAN /\ mediaAlive \in BOOLEAN /\ sockUp \in BOOLEAN
    /\ ioParked \in BOOLEAN /\ mediaParked \in BOOLEAN /\ token \in BOOLEAN
    /\ credit \in BOOLEAN /\ eof \in BOOLEAN

Bounds ==
    /\ outbox \in 0..MaxOut /\ media \in 0..MaxMedia /\ inbox \in 0..MaxInbox
    /\ writer \in {"turn", "control", "media", "fatal", "failed", "killing", "failing",
                   "lull", "arm", "armed", "lookMedia", "lookControl", "parked", "rise",
                   "risen", "done"}
    /\ reader \in {"read", "ended", "killing", "done"}
    /\ flush \in {"idle", "pushed", "poisoned"} /\ tick \in {"idle", "queued"}
    /\ kill \in [by : {"nobody", "writer", "reader", "teardown"}, step : 0..3]
    /\ faults \in 0..Faults

\* The queues stay within their bounds, and kill() is under way only on a link
\* that is no longer alive.
TypeOK == Flags /\ Bounds /\ (kill.step # 0 => ~alive)

\* The writer does not sleep without an unpark to come while a queue holds a
\* frame: whoever queued it has yet to look at its flag.  And it does not sleep
\* through the end of its media half (WriterPark::armed, TcpMediaLink::park_writer,
\* and the two wake()s; park_timeout's slice is a backstop, never the wakeup).
NoLostWakeup ==
    writer = "parked" /\ ~token =>
        /\ outbox > 0 => flush = "pushed"
        /\ media > 0 => tick = "queued"
        /\ mediaAlive

\* Media goes first and never for ever: a queued control frame reaches the writer,
\* however busy the media queue is kept, or the link dies (CONTROL_CREDIT).
ControlGoesOut == outbox > 0 ~> writer = "control" \/ ~alive

\* Whatever dies first (writer, reader, inbox, media half, user), all of it ends:
\* both threads return and the control stack sees the end of its channel.
Ended == /\ writer = "done" /\ reader = "done" /\ eof
         /\ closed /\ ~mediaAlive /\ ~sockUp
LinkDiesWhole ==
    (~alive \/ ~mediaAlive \/ closed \/ writer = "done" \/ reader = "done") ~> Ended
=============================================================================
