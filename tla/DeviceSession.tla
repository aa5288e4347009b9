--------------------------- MODULE DeviceSession ---------------------------
(***************************************************************************)
(* What the opener of sessions promises the devices, without its channel,  *)
(* its worker and its snapshots: a device asks for one session at a time,  *)
(* for the peer it then belongs to; only the answer to that brings it a    *)
(* session, and only while it still belongs to that peer; and a session is *)
(* let go before there is another.  HalSessions implements it              *)
(* (HalSessions!Device).                                                   *)
(***************************************************************************)

CONSTANTS Slots, Peers, Ids, None

VARIABLES
    tenant,     \* slot -> the peer whose device it is, or None
    asked,      \* slot -> the peer a session is being opened to, or None
    session     \* slot -> the session it has, or None

vars == <<tenant, asked, session>>

Stays(s) ==
    tenant'[s] = tenant[s] /\ asked'[s] = asked[s] /\ session'[s] = session[s]

Asks(s) ==
    /\ tenant[s] # None /\ asked[s] = None
    /\ asked'[s] = tenant[s]
    /\ tenant'[s] = tenant[s] /\ session'[s] = None

\* With a session, or with none.
IsAnswered(s) ==
    /\ asked[s] # None /\ session[s] = None
    /\ asked'[s] = None
    /\ session'[s] # None => session'[s] \in Ids /\ asked[s] = tenant[s]
    /\ tenant'[s] = tenant[s]

LetsGo(s) ==
    session'[s] = None /\ tenant'[s] = tenant[s] /\ asked'[s] = asked[s]

\* What is being opened for the last tenant goes on.
ChangesHands(s) ==
    session'[s] = None /\ tenant'[s] \in Peers \cup {None} /\ asked'[s] = asked[s]

Init ==
    /\ tenant = [s \in Slots |-> None]
    /\ asked = tenant /\ session = tenant

\* One pass of the coordinator may move several devices.
Next ==
    /\ {DOMAIN tenant', DOMAIN asked', DOMAIN session'} = {Slots}
    /\ \A s \in Slots : Stays(s) \/ Asks(s) \/ IsAnswered(s) \/ LetsGo(s) \/ ChangesHands(s)

Spec == Init /\ [][Next]_vars
=============================================================================
