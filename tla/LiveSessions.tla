---------------------------- MODULE LiveSessions ----------------------------
(***************************************************************************)
(* Live sessions on the data plane: the vendor's tunnel (a guacd desktop   *)
(* or an isolated browser), the hub that lists it, the operators who watch *)
(* it, take control of it and terminate it, and the grant that terminate   *)
(* revokes.  Every handler is a goroutine or a request of its own; the     *)
(* hub's map and each session object have a lock, so one call on them is   *)
(* one step.  A vendor stands for a user on a site.                        *)
(***************************************************************************)
EXTENDS Naturals, Sequences, FiniteSets

CONSTANTS Sessions,  \* the tunnels vendors open; each is its session id
          Vendors, Admins,
          Views,     \* the view handlers operators open
          Controls,  \* requests to take or release control
          Kills,     \* terminate requests
          Cloud,     \* a manager's request is one transaction with a time budget
          Grants, HolderOf,
          None

ASSUME LiveAssumption ==
    /\ HolderOf \in [Grants -> Vendors]
    /\ None \notin Admins /\ None \notin Grants /\ None \notin Sessions
    /\ IsFiniteSet(Views) /\ Cloud \in BOOLEAN
    /\ Sessions \cap Views = {}

VARIABLES active,  \* grants in force
          vend,    \* handler of each tunnel
          conn,    \* its connection to guacd or to the browser
          broker,  \* isolated browsers the broker runs
          lost,    \* tunnels whose connector was gone when the broker was called
          audit,   \* session_open and session_close events queued, per tunnel
          hub, ls, \* the hub's map, and the session objects
          view, ctl, kill,
          sending, \* pumps that hold an input they found allowed
          late     \* per pump, inputs sent against the owner since that last changed

vars == <<active, vend, conn, broker, lost, audit, hub, ls, view, ctl, kill, sending, late>>
tunnels == <<conn, broker, lost, audit>>

Pumps == Sessions \cup Views
NewLs == [owner |-> None, viewers |-> 0, closer |-> FALSE]
NoControl == [admin |-> None, s |-> None, take |-> FALSE]

Init ==
    /\ active = Grants
    /\ vend = [s \in Sessions |-> [pc |-> "idle", who |-> None, kind |-> None, after |-> {}]]
    /\ conn = [s \in Sessions |-> "none"]
    /\ broker = {} /\ lost = {}
    /\ audit = [s \in Sessions |-> <<>>]
    /\ hub = {}
    /\ ls = [s \in Sessions |-> NewLs]
    /\ view = [w \in Views |-> [pc |-> "idle", admin |-> None, s |-> None]]
    /\ ctl = [c \in Controls |-> NoControl]
    /\ kill = [k \in Kills |-> [pc |-> "idle", dp |-> "none", s |-> None, g |-> None,
                                found |-> FALSE]]
    /\ sending = {}
    /\ late = [p \in Pumps |-> 0]

-----------------------------------------------------------------------------
\* The vendor's tunnel.

EvaluateAccess(v) == \E g \in active : HolderOf[g] = v

Goto(s, pc) == vend' = [vend EXCEPT ![s].pc = pc]

\* The session cookie and the descriptor: the grant is checked once, here.
Connect(s, v, kind) ==
    /\ vend[s].pc = "idle"
    /\ EvaluateAccess(v)
    /\ vend' = [vend EXCEPT ![s] = [pc |-> "authorized", who |-> v, kind |-> kind,
                                    after |-> {k \in Kills : kill[k].dp = "done"}]]
    /\ UNCHANGED <<active, tunnels, hub, ls, view, ctl, kill, sending, late>>

\* guacd is dialled and its handshake done.
OpenGateway(s) ==
    /\ vend[s].pc = "authorized" /\ vend[s].kind = "gateway"
    /\ conn' = [conn EXCEPT ![s] = "open"]
    /\ Goto(s, "opened")
    /\ UNCHANGED <<active, broker, lost, audit, hub, ls, view, ctl, kill, sending, late>>

\* The broker starts a browser; its answer may be lost on the way back.
OpenBrowser(s, answered) ==
    /\ vend[s].pc = "authorized" /\ vend[s].kind = "isolated"
    /\ broker' = broker \cup {s}
    /\ lost' = IF answered THEN lost ELSE lost \cup {s}
    /\ Goto(s, IF answered THEN "opened" ELSE "done")
    /\ UNCHANGED <<active, conn, audit, hub, ls, view, ctl, kill, sending, late>>

\* The connector is offline, guacd refuses, the broker is at capacity.
OpenFails(s) ==
    /\ vend[s].pc = "authorized"
    /\ Goto(s, "done")
    /\ UNCHANGED <<active, tunnels, hub, ls, view, ctl, kill, sending, late>>

Register(s) ==
    /\ vend[s].pc = "opened"
    /\ hub' = hub \cup {s}
    /\ ls' = [ls EXCEPT ![s] = NewLs]
    /\ Goto(s, "registered")
    /\ UNCHANGED <<active, tunnels, view, ctl, kill, sending, late>>

\* Mutant: the tunnel never says how to close it.
SetCloserForgotten(s) ==
    /\ vend[s].pc = "registered"
    /\ Goto(s, "closable")
    /\ UNCHANGED <<active, tunnels, hub, ls, view, ctl, kill, sending, late>>

SetCloser(s) ==
    /\ vend[s].pc = "registered"
    /\ ls' = [ls EXCEPT ![s].closer = TRUE]
    /\ Goto(s, "closable")
    /\ UNCHANGED <<active, tunnels, hub, view, ctl, kill, sending, late>>

AuditOpen(s) ==
    /\ vend[s].pc = "closable"
    /\ audit' = [audit EXCEPT ![s] = Append(@, "session_open")]
    /\ Goto(s, "audited")
    /\ UNCHANGED <<active, conn, broker, lost, hub, ls, view, ctl, kill, sending, late>>

\* The browser's WebSocket is accepted; an isolated tunnel dials its browser.
Bridge(s) ==
    /\ vend[s].pc = "audited"
    /\ conn' = [conn EXCEPT ![s] = IF vend[s].kind = "isolated" THEN "open" ELSE @]
    /\ Goto(s, "bridging")
    /\ UNCHANGED <<active, broker, lost, audit, hub, ls, view, ctl, kill, sending, late>>

\* Mutant: the close is deferred only once the upgrade has succeeded.
BridgeFailsUnaudited(s) ==
    /\ vend[s].pc = "audited"
    /\ Goto(s, "closed")
    /\ UNCHANGED <<active, tunnels, hub, ls, view, ctl, kill, sending, late>>

BridgeFails(s) ==
    /\ vend[s].pc = "audited"
    /\ Goto(s, "closing")
    /\ UNCHANGED <<active, tunnels, hub, ls, view, ctl, kill, sending, late>>

VendorLeaves(s) ==
    /\ vend[s].pc = "bridging"
    /\ Goto(s, "closing")
    /\ UNCHANGED <<active, tunnels, hub, ls, view, ctl, kill, sending, late>>

\* A pump meets the closed connection.
RelayFails(s) ==
    /\ vend[s].pc = "bridging" /\ conn[s] = "closed"
    /\ Goto(s, "closing")
    /\ UNCHANGED <<active, tunnels, hub, ls, view, ctl, kill, sending, late>>

\* guacd, the browser or the connector goes away.
ConnBreaks(s) ==
    /\ conn[s] = "open"
    /\ conn' = [conn EXCEPT ![s] = "closed"]
    /\ UNCHANGED <<active, vend, broker, lost, audit, hub, ls, view, ctl, kill, sending, late>>

\* The deferred calls, last one first.
AuditClose(s) ==
    /\ vend[s].pc = "closing"
    /\ audit' = [audit EXCEPT ![s] = Append(@, "session_close")]
    /\ Goto(s, "closed")
    /\ UNCHANGED <<active, conn, broker, lost, hub, ls, view, ctl, kill, sending, late>>

Remove(s) ==
    /\ vend[s].pc = "closed"
    /\ hub' = hub \ {s}
    /\ Goto(s, "removed")
    /\ UNCHANGED <<active, tunnels, ls, view, ctl, kill, sending, late>>

\* Mutant: the browser is left to the broker.
FinishKeepsBrowser(s, reachable) ==
    /\ vend[s].pc = "removed"
    /\ conn' = [conn EXCEPT ![s] = "closed"]
    /\ Goto(s, "done")
    /\ UNCHANGED <<active, broker, lost, audit, hub, ls, view, ctl, kill, sending, late>>

\* The connection is closed, and the broker told, if the connector is there.
Finish(s, reachable) ==
    /\ vend[s].pc = "removed"
    /\ conn' = [conn EXCEPT ![s] = "closed"]
    /\ IF reachable THEN broker' = broker \ {s} /\ UNCHANGED lost
                    ELSE lost' = lost \cup {s} /\ UNCHANGED broker
    /\ Goto(s, "done")
    /\ UNCHANGED <<active, audit, hub, ls, view, ctl, kill, sending, late>>

-----------------------------------------------------------------------------
\* Watching, and control.

ViewGet(w, a, s) ==
    /\ view[w].pc = "idle"
    /\ s \in hub
    /\ view' = [view EXCEPT ![w] = [pc |-> "got", admin |-> a, s |-> s]]
    /\ UNCHANGED <<active, vend, tunnels, hub, ls, ctl, kill, sending, late>>

\* Refused by ViewAuthz, the connector, or guacd: the connection to join is gone.
ViewFails(w) ==
    /\ view[w].pc = "got"
    /\ view' = [view EXCEPT ![w].pc = "done"]
    /\ UNCHANGED <<active, vend, tunnels, hub, ls, ctl, kill, sending, late>>

\* The object that ViewGet found is counted on, listed or not.
ViewAttach(w) ==
    /\ view[w].pc = "got"
    /\ vend[view[w].s].kind = "gateway" => conn[view[w].s] = "open"
    /\ view' = [view EXCEPT ![w].pc = "attached"]
    /\ ls' = [ls EXCEPT ![view[w].s].viewers = @ + 1]
    /\ UNCHANGED <<active, vend, tunnels, hub, ctl, kill, sending, late>>

\* Mutant: only a view that ends in an error is taken off.
ViewEndsUncounted(w) ==
    /\ view[w].pc = "attached"
    /\ view' = [view EXCEPT ![w].pc = "done"]
    /\ sending' = sending \ {w}
    /\ UNCHANGED <<active, vend, tunnels, hub, ls, ctl, kill, late>>

ViewEnds(w) ==
    /\ view[w].pc = "attached"
    /\ view' = [view EXCEPT ![w].pc = "done"]
    /\ ls' = [ls EXCEPT ![view[w].s].viewers = IF @ > 0 THEN @ - 1 ELSE 0]
    /\ sending' = sending \ {w}
    /\ UNCHANGED <<active, vend, tunnels, hub, ctl, kill, late>>

\* A new owner: what was sent against the old one is over.
OwnerIs(s, a) ==
    /\ ls' = [ls EXCEPT ![s].owner = a]
    /\ late' = IF a = ls[s].owner THEN late
               ELSE [p \in Pumps |-> IF p = s \/ (p \in Views /\ view[p].s = s) THEN 0 ELSE late[p]]

\* A request finds the object in the hub, and then sets its owner.
ControlGet(c, a, s, take) ==
    /\ ctl[c] = NoControl
    /\ s \in hub
    /\ ctl' = [ctl EXCEPT ![c] = [admin |-> a, s |-> s, take |-> take]]
    /\ UNCHANGED <<active, vend, tunnels, hub, ls, view, kill, sending, late>>

TakeControl(c) ==
    /\ ctl[c].s # None /\ ctl[c].take
    /\ IF ls[ctl[c].s].owner \in {None, ctl[c].admin} THEN OwnerIs(ctl[c].s, ctl[c].admin)
                                                      ELSE UNCHANGED <<ls, late>>
    /\ ctl' = [ctl EXCEPT ![c] = NoControl]
    /\ UNCHANGED <<active, vend, tunnels, hub, view, kill, sending>>

ReleaseControl(c) ==
    /\ ctl[c].s # None /\ ~ctl[c].take
    /\ IF ls[ctl[c].s].owner = ctl[c].admin THEN OwnerIs(ctl[c].s, None)
                                            ELSE UNCHANGED <<ls, late>>
    /\ ctl' = [ctl EXCEPT ![c] = NoControl]
    /\ UNCHANGED <<active, vend, tunnels, hub, view, kill, sending>>

VendorInputAllowed(s) == ls[s].owner = None
ViewerInputAllowed(w) == ls[view[w].s].owner = view[w].admin

Allowed(p) == IF p \in Sessions THEN VendorInputAllowed(p) ELSE ViewerInputAllowed(p)

\* The pumps that read input: a gateway tunnel's until its WebSocket is closed,
\* and those of its views.
Pumping(p) ==
    IF p \in Sessions THEN vend[p].pc \in {"bridging", "closing"} /\ vend[p].kind = "gateway"
    ELSE view[p].pc = "attached" /\ vend[view[p].s].kind = "gateway"

\* Mutant: the pump does not ask.
PumpReadUnchecked(p) ==
    /\ Pumping(p) /\ p \notin sending
    /\ sending' = sending \cup {p}
    /\ UNCHANGED <<active, vend, tunnels, hub, ls, view, ctl, kill, late>>

\* An input is read; one that is not allowed is dropped.
PumpRead(p) ==
    /\ Pumping(p) /\ p \notin sending
    /\ Allowed(p)
    /\ sending' = sending \cup {p}
    /\ UNCHANGED <<active, vend, tunnels, hub, ls, view, ctl, kill, late>>

\* The input held is written; a closed connection refuses it.
PumpWrite(p) ==
    /\ p \in sending
    /\ sending' = sending \ {p}
    /\ late' = IF Allowed(p) \/ (p \in Sessions /\ conn[p] # "open") THEN late
               ELSE [late EXCEPT ![p] = @ + 1]
    /\ UNCHANGED <<active, vend, tunnels, hub, ls, view, ctl, kill>>

\* What the vendor's page is told: of the first entry the map yields.
WatchStatus(v, s) == s \in hub /\ vend[s].who = v /\ ls[s].viewers > 0

-----------------------------------------------------------------------------
\* Terminate, with or without the grant behind the session.

\* The operator picks a row of the live list; it names one active grant.
KillStart(k, s, g) ==
    /\ kill[k].pc = "idle"
    /\ s \in hub
    /\ g = None \/ (g \in active /\ HolderOf[g] = vend[s].who)
    /\ kill' = [kill EXCEPT ![k] = [pc |-> "find", dp |-> "none", s |-> s, g |-> g,
                                    found |-> FALSE]]
    /\ UNCHANGED <<active, vend, tunnels, hub, ls, view, ctl, sending, late>>

\* The session is looked up in the list first: an unreachable data plane has an
\* empty one.  Then the request is posted to it, or lost.
KillFind(k, listed, posted) ==
    /\ kill[k].pc = "find"
    /\ kill' = [kill EXCEPT ![k] =
          IF listed /\ kill[k].s \in hub
          THEN [kill[k] EXCEPT !.pc = "wait", !.dp = IF posted THEN "get" ELSE "none"]
          ELSE [kill[k] EXCEPT !.pc = "revoke"]]
    /\ UNCHANGED <<active, vend, tunnels, hub, ls, view, ctl, sending, late>>

\* SessionHub.Terminate: the object, its closer, the call.
TerminateGet(k) ==
    /\ kill[k].dp = "get"
    /\ kill' = [kill EXCEPT ![k].dp = IF kill[k].s \in hub THEN "closer" ELSE "done"]
    /\ UNCHANGED <<active, vend, tunnels, hub, ls, view, ctl, sending, late>>

TerminateRead(k) ==
    /\ kill[k].dp = "closer"
    /\ kill' = [kill EXCEPT ![k] =
          IF ls[kill[k].s].closer THEN [kill[k] EXCEPT !.dp = "call"]
          ELSE [kill[k] EXCEPT !.dp = "done", !.found = TRUE]]
    /\ UNCHANGED <<active, vend, tunnels, hub, ls, view, ctl, sending, late>>

\* The closer of an isolated tunnel that has not dialled yet closes nothing.
TerminateCall(k) ==
    /\ kill[k].dp = "call"
    /\ conn' = [conn EXCEPT ![kill[k].s] = IF @ = "open" THEN "closed" ELSE @]
    /\ kill' = [kill EXCEPT ![k] = [kill[k] EXCEPT !.dp = "done", !.found = TRUE]]
    /\ UNCHANGED <<active, vend, broker, lost, audit, hub, ls, view, ctl, sending, late>>

\* The manager has the answer, or has waited long enough.
KillAnswered(k) ==
    /\ kill[k].pc = "wait"
    /\ kill' = [kill EXCEPT ![k].pc = "revoke"]
    /\ UNCHANGED <<active, vend, tunnels, hub, ls, view, ctl, sending, late>>

\* Mutant: a grant is revoked only if a session was found.
RevokeIfFound(k) ==
    /\ kill[k].pc = "revoke"
    /\ active' = IF kill[k].found THEN active \ {kill[k].g} ELSE active
    /\ kill' = [kill EXCEPT ![k].pc = "done"]
    /\ UNCHANGED <<vend, tunnels, hub, ls, view, ctl, sending, late>>

KillRevoke(k) ==
    /\ kill[k].pc = "revoke"
    /\ active' = active \ {kill[k].g}
    /\ kill' = [kill EXCEPT ![k].pc = "done"]
    /\ UNCHANGED <<vend, tunnels, hub, ls, view, ctl, sending, late>>

\* Waiting on the data plane outlasted the transaction: the request fails, and
\* nothing it wrote is kept.
KillExpires(k) ==
    /\ Cloud
    /\ kill[k].pc \in {"find", "wait", "revoke"}
    /\ kill' = [kill EXCEPT ![k].pc = "failed"]
    /\ UNCHANGED <<active, vend, tunnels, hub, ls, view, ctl, sending, late>>

TunnelNext(s) ==
    \/ \E v \in Vendors, kind \in {"gateway", "isolated"} : Connect(s, v, kind)
    \/ OpenGateway(s) \/ OpenFails(s) \/ \E answered \in BOOLEAN : OpenBrowser(s, answered)
    \/ Register(s) \/ SetCloser(s) \/ AuditOpen(s) \/ Bridge(s) \/ BridgeFails(s)
    \/ VendorLeaves(s) \/ RelayFails(s) \/ ConnBreaks(s)
    \/ AuditClose(s) \/ Remove(s) \/ \E reachable \in BOOLEAN : Finish(s, reachable)

ViewNext(w) ==
    \/ \E a \in Admins, s \in Sessions : ViewGet(w, a, s)
    \/ ViewFails(w) \/ ViewAttach(w) \/ ViewEnds(w)

ControlNext(c) ==
    \/ \E a \in Admins, s \in Sessions, take \in BOOLEAN : ControlGet(c, a, s, take)
    \/ TakeControl(c) \/ ReleaseControl(c)

KillNext(k) ==
    \/ \E s \in Sessions, g \in Grants \cup {None} : KillStart(k, s, g)
    \/ \E listed, posted \in BOOLEAN : KillFind(k, listed, posted)
    \/ TerminateGet(k) \/ TerminateRead(k) \/ TerminateCall(k)
    \/ KillAnswered(k) \/ KillRevoke(k) \/ KillExpires(k)

Next ==
    \/ \E s \in Sessions : TunnelNext(s)
    \/ \E w \in Views : ViewNext(w)
    \/ \E c \in Controls : ControlNext(c)
    \/ \E p \in Pumps : PumpRead(p) \/ PumpWrite(p)
    \/ \E k \in Kills : KillNext(k)

Spec == Init /\ [][Next]_vars

\* A goroutine that can go on does, a read of a closed connection returns, and
\* the manager waits for an answer no longer than its timeout.
Fairness ==
    /\ \A s \in Sessions : /\ WF_vars(RelayFails(s)) /\ WF_vars(AuditClose(s)) /\ WF_vars(Remove(s))
    /\ \A k \in Kills : /\ WF_vars(TerminateGet(k)) /\ WF_vars(TerminateRead(k))
                        /\ WF_vars(TerminateCall(k)) /\ WF_vars(KillAnswered(k))
                        /\ WF_vars(\E listed, posted \in BOOLEAN : KillFind(k, listed, posted))
                        /\ WF_vars(KillRevoke(k))

FairSpec == Spec /\ Fairness

-----------------------------------------------------------------------------
\* Properties.

Pcs == {"idle", "authorized", "opened", "registered", "closable", "audited", "bridging",
        "closing", "closed", "removed", "done"}
Tunnel == [pc : Pcs, who : Vendors \cup {None}, kind : {"gateway", "isolated", None},
           after : SUBSET Kills]
Object == [owner : Admins \cup {None}, viewers : Nat, closer : BOOLEAN]
View == [pc : {"idle", "got", "attached", "done"}, admin : Admins \cup {None},
         s : Sessions \cup {None}]
Control == [admin : Admins \cup {None}, s : Sessions \cup {None}, take : BOOLEAN]
Kill == [pc : {"idle", "find", "wait", "revoke", "done", "failed"},
         dp : {"none", "get", "closer", "call", "done"},
         s : Sessions \cup {None}, g : Grants \cup {None}, found : BOOLEAN]

TunnelsOK ==
    /\ active \subseteq Grants
    /\ vend \in [Sessions -> Tunnel] /\ conn \in [Sessions -> {"none", "open", "closed"}]
    /\ broker \subseteq Sessions /\ lost \subseteq Sessions /\ hub \subseteq Sessions
    /\ audit \in [Sessions -> Seq({"session_open", "session_close"})]

WatchOK ==
    /\ ls \in [Sessions -> Object] /\ view \in [Views -> View] /\ ctl \in [Controls -> Control]
    /\ \A w \in Views : view[w].pc # "idle" => view[w].s \in Sessions
    /\ sending \subseteq Pumps /\ late \in [Pumps -> Nat]

KillsOK ==
    /\ kill \in [Kills -> Kill]
    /\ \A k \in Kills : kill[k].pc # "idle" \/ kill[k].dp # "none" => kill[k].s \in Sessions

\* The handlers' locals, the hub and the session objects keep their types.
TypeOK == TunnelsOK /\ WatchOK /\ KillsOK

\* The live list shows exactly the tunnels whose handler is between its
\* registration and its teardown, whichever way that ended.
EntryHasHandler ==
    \A s \in Sessions : s \in hub <=>
        vend[s].pc \in {"registered", "closable", "audited", "bridging", "closing", "closed"}

\* The number of viewers the list shows, and the vendor's notice depends on,
\* is the number of views attached, though views come and go while tunnels end.
ViewersCounted ==
    \A s \in Sessions :
        ls[s].viewers = Cardinality({w \in Views : view[w].pc = "attached" /\ view[w].s = s})

\* Control takes effect at once: after the owner changes, each pump sends at
\* most the one input it had already found allowed.
InputFollowsControl == \A p \in Pumps : late[p] <= 1

\* The audit trail of a tunnel is an open and then a close, and a handler does
\* not end with its session open.
AuditPaired ==
    \A s \in Sessions :
        /\ audit[s] \in {<<>>, <<"session_open">>, <<"session_open", "session_close">>}
        /\ vend[s].pc \in {"removed", "done"} => audit[s] # <<"session_open">>

\* An isolated browser does not outlive its tunnel, unless the connector could
\* not be reached to start it in full or to close it.
NoOrphanBrowser == \A s \in broker : vend[s].pc = "done" => s \in lost

\* A terminate request that meets a running session ends it.
TerminateEnds ==
    \A k \in Kills, s \in Sessions :
        (kill[k].dp = "get" /\ kill[k].s = s /\ vend[s].pc = "bridging") ~> s \notin hub

\* A terminate request with a grant revokes it, whether or not the data plane
\* answers, unless the request itself fails.
RevokeHappens ==
    \A k \in Kills, g \in Grants :
        (kill[k].pc = "find" /\ kill[k].g = g) ~> (g \notin active \/ kill[k].pc = "failed")

\* SessionHub.Terminate "force-closes a session's tunnel": once it has answered
\* that it found the session, that session's connection is not open.  Violated:
\* the session is listed before its closer is set.
TerminateCloses ==
    \A k \in Kills : kill[k].found => conn[kill[k].s] # "open"

\* terminateLiveSession revokes the grant "so the vendor cannot simply
\* reconnect": no tunnel the vendor opened after the termination is running
\* once the request has returned.  Violated: the grant goes last.
VendorStaysOut ==
    \A k \in Kills, s \in Sessions :
        kill[k].pc = "done" /\ kill[k].g # None /\ kill[k].found /\ k \in vend[s].after
            => ~(vend[s].pc = "bridging" /\ vend[s].who = vend[kill[k].s].who)

\* "The vendor sees a being monitored notice": whichever of the vendor's
\* sessions the map yields first, the answer says that someone is watching.
\* Violated with two sessions, only one of them watched.
MonitoredIsTold ==
    \A v \in Vendors, s \in hub :
        vend[s].who = v /\ (\E t \in hub : vend[t].who = v /\ ls[t].viewers > 0)
            => WatchStatus(v, s)

=============================================================================
