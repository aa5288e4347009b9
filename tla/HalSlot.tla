------------------------------ MODULE HalSlot ------------------------------
(***************************************************************************)
(* The virtual devices of paired peers (mode B, macOS): the coordinator    *)
(* thread of haldev.rs keeps one record per driver slot and reconciles it  *)
(* with the peer store; the HAL driver binds, delists and retires slots on *)
(* its service thread; halbridge.rs filters what the driver reports by the *)
(* generation of the slot.  The two sides share no state: Bind messages go *)
(* one way, latest-only mailboxes come back, and either process may die.   *)
(***************************************************************************)
EXTENDS Naturals, Sequences, FiniteSets, SequencesExt

CONSTANTS
    NSlots,     \* slots the driver offers (HAL_MAX_SLOTS)
    Peers,
    Stores,     \* what paired_peers.json may hold at first
    None,       \* no peer, no report, nothing observed
    Upsets,     \* budget of pairings, mode switches, StartIO edges and faults
    MaxBinds,   \* Bind messages the driver's port holds
    MaxEvents   \* undrained events of the bridge

ASSUME HalAssumption ==
    /\ NSlots \in Nat \ {0}
    /\ None \notin Peers \cup {"Free", "Bound", "Delisted"}
    /\ \A q \in Stores : q \in Seq(Peers) /\ IsInjective(q)
    /\ {Upsets, MaxBinds} \subseteq Nat
    /\ MaxEvents \in Nat \ {0, 1}

VARIABLES
    paired,     \* paired_peers.json, in store order: any process may write it
    forgetting, \* peers forget_peer took out of the store and has not released
    modeB,      \* the mode the user set
    disk,       \* hal_slots.json
    table,      \* slot -> peer, in the daemon's memory
    rec,        \* slot -> SlotRec
    observed,   \* peers whose devices the last enumeration saw, or None
    newEpoch,   \* attach_epoch moved since the last pass
    pc, plan,   \* the pass: capacity read, actions planned and not yet sent
    attached,   \* the handshake of the current session is done
    filter,     \* slot -> generation the bridge lets through, 0 for none
    events,     \* the bridge's queue to the coordinator
    binds,      \* the driver's port
    drv,        \* slot -> the driver's slot
    left        \* what is left of Upsets

userVars   == <<paired, forgetting, modeB>>
daemonVars == <<disk, table, rec, observed, newEpoch, pc, plan>>
linkVars   == <<attached, filter, events, binds>>
vars == <<userVars, daemonVars, linkVars, drv, left>>

Slots  == 1..NSlots
States == {"Free", "Bound", "Delisted"}
PeerOrNone == Peers \cup {None}

Actions == [op : {"Set", "Clear"}, slot : Slots, peer : PeerOrNone, gen : Nat]
Events  == [kind : {"Detached"}]
           \cup [kind : {"BindState"}, slot : Slots, gen : Nat, state : States]
           \cup [kind : {"IoState"}, slot : Slots, gen : Nat, run : BOOLEAN]

NoRec == [fp |-> None, state |-> None, gen |-> 0, sent |-> FALSE,
          acked |-> FALSE, clearing |-> FALSE, recent |-> FALSE,
          io |-> FALSE]

FreeSlot == [state |-> "Free", gen |-> 0, tenant |-> None, run |-> FALSE,
             bindDue |-> FALSE, ioDue |-> FALSE]

Init ==
    /\ paired \in Stores /\ forgetting = {} /\ modeB = TRUE
    /\ disk = [s \in Slots |-> None] /\ table = disk
    /\ rec = [s \in Slots |-> NoRec] /\ observed = None /\ newEpoch = FALSE
    /\ pc = "idle" /\ plan = <<>>
    /\ attached = FALSE /\ filter = [s \in Slots |-> 0]
    /\ events = <<>> /\ binds = <<>>
    /\ drv = [s \in Slots |-> FreeSlot]
    /\ left = Upsets

-----------------------------------------------------------------------------
(* The coordinator's pass: drain, plan, send, save.                        *)

\* An IoState of another binding than the record's says nothing.
AppliedIo(r, e) ==
    IF r[e.slot].gen # e.gen THEN r ELSE [r EXCEPT ![e.slot].io = e.run]

\* One event of the bridge applied to the records.
Apply(r, e) ==
    CASE e.kind = "Detached" ->
           [s \in Slots |-> [r[s] EXCEPT !.acked = FALSE, !.state = None, !.io = FALSE]]
      [] e.kind = "BindState" /\ e.state = "Free" ->
           [r EXCEPT ![e.slot] = [NoRec EXCEPT !.gen = e.gen, !.state = "Free"]]
      [] e.kind = "BindState" /\ e.state = "Bound" ->
           [r EXCEPT ![e.slot].gen = e.gen, ![e.slot].state = "Bound",
                     ![e.slot].acked = TRUE]
      [] e.kind = "BindState" /\ e.state = "Delisted" ->
           [r EXCEPT ![e.slot].gen = e.gen, ![e.slot].state = "Delisted",
                     ![e.slot].acked = FALSE, ![e.slot].io = FALSE]
      [] e.kind = "IoState" -> AppliedIo(r, e)

\* The lowest free slot, for a peer that has none yet.
Assign(t, p) ==
    LET free == {s \in Slots : t[s] = None} IN
    IF p \in Range(t) \/ free = {} THEN t
    ELSE [t EXCEPT ![CHOOSE s \in free : \A u \in free : s <= u] = p]

\* What a fresh handshake makes of the records.
Reattached(r) ==
    IF newEpoch
    THEN [s \in Slots |-> [r[s] EXCEPT !.acked = FALSE, !.state = None,
                                       !.clearing = FALSE, !.recent = FALSE]]
    ELSE r

Timers(r, late) ==
    IF late THEN [s \in Slots |-> [r[s] EXCEPT !.recent = FALSE, !.clearing = FALSE]]
            ELSE r

\* Mutant: a Set that went out is taken to have arrived.
SetDueOnce(r, p, seen) == ~r.sent

\* Published needs the driver's word and the system's; a Set that nobody has
\* answered waits for its cooldown.
SetDue(r, p, seen) ==
    /\ ~ /\ r.fp = p /\ r.sent /\ r.acked /\ r.state = "Bound"
         /\ seen = None \/ p \in seen
    /\ ~(r.sent /\ r.recent)

\* A device the system lists that no wanted and no tracked slot explains.
Orphan(r, wanted, seen) ==
    seen # None /\ \E p \in seen \ wanted : \A s \in Slots : p # r[s].fp

\* The system's device list: a Delisted device has left it.
Listed == {drv[s].tenant : s \in {u \in Slots : drv[u].state = "Bound"}}

\* The i-th slot of a set has i - 1 of its slots before it.
Nth(S, place, i) ==
    CHOOSE s \in S : Cardinality({u \in S \ {s} : place[u] < place[s]}) = i - 1
InOrder(S, place, Op(_)) == [i \in 1..Cardinality(S) |-> Op(Nth(S, place, i))]

\* One pass under the lock: apply_events drains the bridge, the device list is
\* read once a second (look), and reconcile assigns slots, drops unpaired peers,
\* brings the records in step and plans the Binds: Sets in the order of the store,
\* Clears in that of the slots.  The capacity was read before the lock: a driver
\* that attached since then still counts as none (capacity).  late: SET_COOLDOWN
\* and CLEAR_TIMEOUT have passed.
Pass(capacity, look, late) ==
    /\ pc = "idle"
    /\ \/ capacity = attached
       \/ ~capacity /\ newEpoch /\ (events # <<>> => Last(events).kind = "Detached")
    /\ LET seen     == IF look THEN Listed ELSE observed
           asks     == modeB /\ capacity
           assigned == IF asks THEN FoldLeft(Assign, table, paired) ELSE table
           wants(s) == asks /\ assigned[s] \in Range(paired)
           wanted   == {assigned[s] : s \in {u \in Slots : wants(u)}}
           base     == Timers(Reattached(FoldLeft(Apply, rec, events)), late)
           r        == [s \in Slots |->
                          IF wants(s) /\ base[s].fp # assigned[s]
                          THEN [NoRec EXCEPT !.fp = assigned[s], !.recent = base[s].recent]
                          ELSE base[s]]
           sets     == {s \in Slots : wants(s) /\ SetDue(r[s], assigned[s], seen)}
           clears   == {s \in Slots :
                          /\ ~wants(s) /\ ~r[s].clearing /\ r[s].state # "Free"
                          /\ \/ r[s].fp # None
                             \/ r[s].state = None /\ Orphan(r, wanted, seen)}
           inStore  == [s \in sets |-> CHOOSE i \in DOMAIN paired : paired[i] = assigned[s]]
           inTable  == [s \in clears |-> s]
           set(s)   == [op |-> "Set", slot |-> s, peer |-> assigned[s], gen |-> 0]
           clear(s) == [op |-> "Clear", slot |-> s, peer |-> r[s].fp, gen |-> r[s].gen]
       IN /\ observed' = seen
          /\ table' = [s \in Slots |-> IF assigned[s] \in Range(paired)
                                       THEN assigned[s] ELSE None]
          /\ rec' = r
          /\ plan' = InOrder(sets, inStore, set) \o InOrder(clears, inTable, clear)
    /\ pc' = IF plan' = <<>> /\ table' = disk THEN "idle" ELSE "send"
    /\ events' = <<>> /\ newEpoch' = FALSE
    /\ UNCHANGED <<userVars, disk, attached, filter, binds, drv, left>>

\* One planned action put on the wire outside the lock.  A send that finds no
\* driver, or its port full, is dropped and planned again by the next pass.
Send ==
    /\ pc = "send" /\ plan # <<>>
    /\ LET b == Head(plan) IN
       IF attached /\ Len(binds) < MaxBinds
       THEN /\ binds' = Append(binds, b)
            /\ rec' = IF b.op = "Set"
                      THEN [rec EXCEPT ![b.slot].fp = b.peer, ![b.slot].sent = TRUE,
                                       ![b.slot].acked = FALSE, ![b.slot].recent = TRUE]
                      ELSE [rec EXCEPT ![b.slot].clearing = TRUE]
       ELSE UNCHANGED <<binds, rec>>
    /\ plan' = Tail(plan)
    /\ UNCHANGED <<userVars, disk, table, observed, newEpoch, pc,
                   attached, filter, events, drv, left>>

\* save_table: the assignment reaches the disk after the Binds went out; a save that
\* fails is not modelled.
SaveTable ==
    /\ pc = "send" /\ plan = <<>>
    /\ disk' = table
    /\ pc' = "idle"
    /\ UNCHANGED <<userVars, table, rec, observed, newEpoch, plan, linkVars,
                   drv, left>>

-----------------------------------------------------------------------------
(* The driver's service thread: flush, drain the port, tick.               *)

\* AudioHub_FlushOutbox and handle_control: the current generation stamps both
\* posts of a slot, BindState sets the bridge's filter, IoState must pass it.
FilterAfter(s) == IF drv[s].bindDue THEN drv[s].gen ELSE filter[s]

Posts(s) ==
    LET d == drv[s] IN
    (IF d.bindDue
     THEN <<[kind |-> "BindState", slot |-> s, gen |-> d.gen, state |-> d.state]>>
     ELSE <<>>)
    \o (IF d.ioDue /\ d.gen # 0 /\ d.gen = FilterAfter(s)
        THEN <<[kind |-> "IoState", slot |-> s, gen |-> d.gen, run |-> d.run]>>
        ELSE <<>>)

\* Mutant: a slot bound again keeps the generation of its last tenant.
NewBindingOldGen(gen, p) ==
    [state |-> "Bound", gen |-> gen, tenant |-> p, run |-> FALSE,
     bindDue |-> TRUE, ioDue |-> TRUE]

\* AudioHub_BindSlot: a new generation for a new occupancy.
NewBinding(gen, p) ==
    [state |-> "Bound", gen |-> gen + 1, tenant |-> p, run |-> FALSE,
     bindDue |-> TRUE, ioDue |-> TRUE]

\* AudioHub_HandleBindSet, and AudioHub_HandleBind's Clear.
Handle(d, b) ==
    LET cur     == d[b.slot]
        restate == [d EXCEPT ![b.slot].bindDue = TRUE]
        delist  == [d EXCEPT ![b.slot].bindDue = TRUE, ![b.slot].state = "Delisted"]
    IN IF b.op = "Set"
       THEN CASE cur.state = "Delisted" -> restate
              [] cur.state = "Bound" -> IF cur.tenant = b.peer
                                        THEN [restate EXCEPT ![b.slot].ioDue = TRUE]
                                        ELSE delist
              [] cur.state = "Free" -> IF \E s \in Slots : d[s].tenant = b.peer
                                       THEN restate
                                       ELSE [d EXCEPT ![b.slot] = NewBinding(cur.gen, b.peer)]
       ELSE IF cur.state # "Bound" THEN restate
       ELSE IF b.gen = cur.gen THEN delist
       ELSE d

RetiredSlot(cur) == [FreeSlot EXCEPT !.gen = cur.gen + 1, !.bindDue = TRUE]

\* AudioHub_RetireDueSlots: IO has stopped, or the grace period is over.
Retire(d, expired) ==
    [s \in Slots |-> IF d[s].state = "Delisted" /\ (expired \/ ~d[s].run)
                     THEN RetiredSlot(d[s]) ELSE d[s]]

\* A flush that finds no session, or whose sends time out, posts nothing; the code sends
\* each mailbox alone, and an IoState that overtakes its BindState is filtered out.
ServicePass(expired) ==
    LET flushes == attached /\ Len(events) + 2 * NSlots <= MaxEvents
        sent(d) == [d EXCEPT !.bindDue = FALSE, !.ioDue = FALSE]
        flushed == IF flushes THEN [s \in Slots |-> sent(drv[s])] ELSE drv
    IN /\ IF flushes
          THEN /\ events' = events \o FlattenSeq([s \in Slots |-> Posts(s)])
               /\ filter' = [s \in Slots |-> FilterAfter(s)]
          ELSE UNCHANGED <<events, filter>>
       /\ drv' = Retire(FoldLeft(Handle, flushed, binds), expired)
       /\ binds' = <<>>
       /\ UNCHANGED <<userVars, daemonVars, attached, left>>

Upset == left > 0 /\ left' = left - 1

\* An application starts or stops the device; a delisted one still answers.
StartIO(s) ==
    /\ Upset /\ drv[s].state # "Free" /\ ~drv[s].run
    /\ drv' = [drv EXCEPT ![s].run = TRUE, ![s].ioDue = TRUE]
    /\ UNCHANGED <<userVars, daemonVars, linkVars>>

StopIO(s) ==
    /\ drv[s].run
    /\ drv' = [drv EXCEPT ![s].run = FALSE, ![s].ioDue = TRUE]
    /\ UNCHANGED <<userVars, daemonVars, linkVars, left>>

-----------------------------------------------------------------------------
(* Sessions, crashes and the user.                                         *)

\* handshake and set_driver_port, the capacity and the epoch at once.  Binds of an
\* earlier session are refused.
Attach ==
    /\ ~attached
    /\ attached' = TRUE /\ newEpoch' = TRUE /\ binds' = <<>>
    /\ UNCHANGED <<userVars, disk, table, rec, observed, pc, plan, filter,
                   events, drv, left>>

\* disconnect_inner
Disconnected ==
    /\ attached' = FALSE
    /\ filter' = [s \in Slots |-> 0]
    /\ events' = Append(events, [kind |-> "Detached"])

LoseSession ==
    /\ Upset /\ attached /\ Disconnected
    /\ UNCHANGED <<userVars, daemonVars, binds, drv>>

DriverRestart ==
    /\ Upset
    /\ IF attached THEN Disconnected ELSE UNCHANGED <<attached, filter, events>>
    /\ drv' = [s \in Slots |-> FreeSlot] /\ binds' = <<>>
    /\ UNCHANGED <<userVars, daemonVars>>

\* The daemon dies and a new one reads the slot table back.
DaemonRestart ==
    /\ Upset
    /\ table' = disk /\ rec' = [s \in Slots |-> NoRec] /\ observed' = None
    /\ newEpoch' = FALSE /\ pc' = "idle" /\ plan' = <<>> /\ forgetting' = {}
    /\ attached' = FALSE /\ filter' = [s \in Slots |-> 0] /\ events' = <<>>
    /\ UNCHANGED <<paired, modeB, disk, binds, drv>>

Pair(p) ==
    /\ Upset /\ p \notin Range(paired)
    /\ paired' = Append(paired, p)
    /\ UNCHANGED <<forgetting, modeB, daemonVars, linkVars, drv>>

\* The command line edits the store, which lists a peer once, and tells nobody;
\* the daemon's own forget_peer goes on to release_peer.
Unpair(p, byDaemon) ==
    /\ Upset /\ p \in Range(paired)
    /\ paired' = RemoveAt(paired, CHOOSE i \in DOMAIN paired : paired[i] = p)
    /\ forgetting' = IF byDaemon THEN forgetting \cup {p} ELSE forgetting
    /\ UNCHANGED <<modeB, daemonVars, linkVars, drv>>

\* release_peer drops the assignment and leaves the record to the next Clear.
ReleasePeer(p) ==
    /\ p \in forgetting
    /\ forgetting' = forgetting \ {p}
    /\ rec' = [s \in Slots |-> IF table[s] = p THEN [rec[s] EXCEPT !.io = FALSE]
                                               ELSE rec[s]]
    /\ table' = [s \in Slots |-> IF table[s] = p THEN None ELSE table[s]]
    /\ disk' = IF p \in Range(table) THEN table' ELSE disk
    /\ UNCHANGED <<paired, modeB, observed, newEpoch, pc, plan, linkVars, drv, left>>

SetMode ==
    /\ Upset /\ modeB' = ~modeB
    /\ UNCHANGED <<paired, forgetting, daemonVars, linkVars, drv>>

-----------------------------------------------------------------------------
Coordinator == \/ Send \/ SaveTable
               \/ \E capacity, look, late \in BOOLEAN : Pass(capacity, look, late)
Service == \E expired \in BOOLEAN : ServicePass(expired)
User    == \/ SetMode
           \/ \E p \in Peers : \/ Pair(p) \/ ReleasePeer(p)
                             \/ \E byDaemon \in BOOLEAN : Unpair(p, byDaemon)
           \/ \E s \in Slots : StartIO(s) \/ StopIO(s)

Next == \/ Coordinator \/ Service \/ Attach \/ User
        \/ LoseSession \/ DriverRestart \/ DaemonRestart

Spec == Init /\ [][Next]_vars

Fairness ==
    /\ WF_vars(Coordinator) /\ WF_vars(Attach) /\ WF_vars(ServicePass(TRUE))
    /\ \A p \in Peers : WF_vars(ReleasePeer(p))
    /\ SF_vars(\E capacity \in BOOLEAN : Pass(capacity, TRUE, TRUE))
FairSpec == Spec /\ Fairness
-----------------------------------------------------------------------------
\* Shapes, and that a slot has a tenant unless it is Free.
TypeOK ==
    /\ Range(paired) \subseteq Peers /\ forgetting \subseteq Peers /\ modeB \in BOOLEAN
    /\ disk \in [Slots -> PeerOrNone] /\ table \in [Slots -> PeerOrNone]
    /\ rec \in [Slots -> [fp : PeerOrNone, state : States \cup {None}, gen : Nat,
                          sent : BOOLEAN, acked : BOOLEAN, clearing : BOOLEAN,
                          recent : BOOLEAN, io : BOOLEAN]]
    /\ observed = None \/ observed \subseteq Peers
    /\ pc \in {"idle", "send"} /\ (pc = "idle" => plan = <<>>)
    /\ plan \in Seq(Actions) /\ binds \in Seq(Actions) /\ events \in Seq(Events)
    /\ filter \in [Slots -> Nat]
    /\ drv \in [Slots -> [state : States, gen : Nat, tenant : PeerOrNone, run : BOOLEAN,
                          bindDue : BOOLEAN, ioDue : BOOLEAN]]
    /\ \A s \in Slots : drv[s].state = "Free" <=> drv[s].tenant = None
    /\ \A s \in Slots : drv[s].state = "Free" => ~drv[s].run

\* The generation names one occupancy of a slot: while it is equal on the two
\* sides, "Free" and "not Free" mean the same thing on both, however late the
\* report came.  (AudioHub_HandleBindSet, AudioHub_RetireDueSlots.)
OneOccupancy == \A s \in Slots :
    rec[s].gen = drv[s].gen =>
        /\ rec[s].state = "Free" => drv[s].state = "Free"
        /\ rec[s].state \in {"Bound", "Delisted"} => drv[s].state # "Free"

\* The device of a paired peer stays on the slot the table gives the peer
\* (SlotTable's doc: reshuffling slots moves a device under the user).  A crash between
\* the Bind and the save breaks it (README, section 5).
DeviceKeepsSlot == \A s, u \in Slots : \A p \in Range(paired) :
    drv[s].state = "Bound" /\ drv[s].tenant = p /\ table[u] = p => s = u

Wants(s)   == modeB /\ table[s] \in Range(paired)
Served(s)  == /\ drv[s].state = "Bound" /\ drv[s].tenant = table[s]
              /\ rec[s].fp = table[s] /\ rec[s].acked /\ rec[s].gen = drv[s].gen
Leaving(s) == rec[s].fp # None /\ drv[s].state # "Free" /\ rec[s].gen = drv[s].gen

\* When the pairings, the mode, the applications and the processes come to rest,
\* the two sides settle: a slot the mode and the store ask for holds that peer's
\* device and the coordinator knows its generation; any other slot whose tenant
\* the coordinator knows has been given back.  (reconcile, plan_binds: a lost
\* Bind is sent again, an unanswered Clear is retried.)
TablesAgree == <>[](\A s \in Slots : IF Wants(s) THEN Served(s) ELSE ~Leaving(s))
=============================================================================
