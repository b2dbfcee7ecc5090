--------------------------- MODULE SessionProofs ----------------------------
(***************************************************************************)
(* Proofs about a session on a target and the two pages around it: the     *)
(* live sessions (LiveSessions), for any tunnels, operators, views and     *)
(* requests; the vendor's page with its consent, client and splash         *)
(* (SessionPage); and the forms that say what a session may do             *)
(* (ResourceForm).  Each safety property is a conjunct of, or follows      *)
(* from, an inductive invariant that says where each handler's effects     *)
(* stand at each of its steps.                                             *)
(***************************************************************************)
EXTENDS LiveSessions, SessionPage, ResourceForm, FiniteSetTheorems, SequenceTheorems, TLAPS

-----------------------------------------------------------------------------
(* Live sessions *)

\* Types.

\* Nothing runs at first.
LEMMA InitType == Init => TypeOK
BY LiveAssumption
   DEF Init, TypeOK, TunnelsOK, WatchOK, KillsOK, Tunnel, Pcs, Object, View, Control, Kill,
       NewLs, NoControl

\* A step of a tunnel's handler keeps the types of what tunnels own.
LEMMA TunnelType ==
    ASSUME TypeOK, NEW s \in Sessions, TunnelNext(s)
    PROVE  TypeOK'
<1> USE DEF TypeOK, TunnelsOK
<1>1. UNCHANGED <<view, ctl, kill, sending, late>>
  BY Zenon DEF TunnelNext, Connect, OpenGateway, OpenFails, OpenBrowser, Register, SetCloser,
         AuditOpen, Bridge, BridgeFails, VendorLeaves, RelayFails, ConnBreaks, AuditClose,
         Remove, Finish
<1>2. vend' \in [Sessions -> Tunnel]
  <2>1. ASSUME NEW v \in Vendors, NEW kind \in {"gateway", "isolated"}, Connect(s, v, kind)
        PROVE  vend' \in [Sessions -> Tunnel]
    <3>1. [pc |-> "authorized", who |-> v, kind |-> kind,
           after |-> {k \in Kills : kill[k].dp = "done"}] \in Tunnel
      BY Zenon DEF Tunnel, Pcs
    <3> QED
      BY <2>1, <3>1, Zenon DEF Connect
  <2>2. ASSUME NEW pc \in Pcs
        PROVE  [vend EXCEPT ![s].pc = pc] \in [Sessions -> Tunnel]
    <3> DEFINE t == [vend[s] EXCEPT !.pc = pc]
    <3>1. t \in Tunnel
      BY Zenon DEF Tunnel
    <3>2. [vend EXCEPT ![s].pc = pc] = [vend EXCEPT ![s] = t]
      BY Zenon
    <3> HIDE DEF t
    <3> QED
      BY <3>1, <3>2, Zenon
  <2>3. \/ \E v \in Vendors, kind \in {"gateway", "isolated"} : Connect(s, v, kind)
        \/ \E pc \in Pcs : Goto(s, pc)
        \/ vend' = vend
    BY Zenon DEF TunnelNext, OpenGateway, OpenFails, OpenBrowser, Register, SetCloser, Pcs,
           AuditOpen, Bridge, BridgeFails, VendorLeaves, RelayFails, ConnBreaks, AuditClose,
           Remove, Finish
  <2> QED
    BY <2>1, <2>2, <2>3, Zenon DEF Goto
<1>3. conn' \in [Sessions -> {"none", "open", "closed"}]
  BY Zenon DEF TunnelNext, Connect, OpenGateway, OpenFails, OpenBrowser, Register, SetCloser,
         AuditOpen, Bridge, BridgeFails, VendorLeaves, RelayFails, ConnBreaks, AuditClose,
         Remove, Finish, tunnels
<1>4. /\ active' \subseteq Grants
      /\ broker' \subseteq Sessions /\ lost' \subseteq Sessions /\ hub' \subseteq Sessions
  BY Zenon DEF TunnelNext, Connect, OpenGateway, OpenFails, OpenBrowser, Register, SetCloser,
         AuditOpen, Bridge, BridgeFails, VendorLeaves, RelayFails, ConnBreaks, AuditClose,
         Remove, Finish, tunnels
<1>5. audit' \in [Sessions -> Seq({"session_open", "session_close"})]
  <2>1. ASSUME NEW e \in {"session_open", "session_close"}
        PROVE  [audit EXCEPT ![s] = Append(audit[s], e)]
                   \in [Sessions -> Seq({"session_open", "session_close"})]
    OBVIOUS
  <2> QED
    BY <2>1, Zenon
    DEF TunnelNext, Connect, OpenGateway, OpenFails, OpenBrowser, Register, SetCloser,
        AuditOpen, Bridge, BridgeFails, VendorLeaves, RelayFails, ConnBreaks, AuditClose,
        Remove, Finish, tunnels
<1>6. ls' \in [Sessions -> Object]
  <2>1. /\ [ls EXCEPT ![s] = NewLs] \in [Sessions -> Object]
        /\ [ls EXCEPT ![s].closer = TRUE] \in [Sessions -> Object]
    BY Zenon DEF WatchOK, Object, NewLs
  <2> QED
    BY <2>1, Zenon
    DEF WatchOK, TunnelNext, Connect, OpenGateway, OpenFails, OpenBrowser, Register, SetCloser,
        AuditOpen, Bridge, BridgeFails, VendorLeaves, RelayFails, ConnBreaks, AuditClose,
        Remove, Finish
<1> QED
  BY <1>1, <1>2, <1>3, <1>4, <1>5, <1>6, Zenon DEF WatchOK, KillsOK

\* A step of a view keeps the types.
LEMMA ViewType ==
    ASSUME TypeOK, NEW w \in Views, ViewNext(w)
    PROVE  TypeOK'
<1>1. UNCHANGED <<active, vend, tunnels, hub, ctl, kill, late>> /\ sending' \subseteq sending
  BY Zenon DEF ViewNext, ViewGet, ViewFails, ViewAttach, ViewEnds
<1>2. /\ view' \in [Views -> View]
      /\ \A x \in Views : view'[x].pc # "idle" => view'[x].s \in Sessions
  <2>1. ASSUME NEW a \in Admins, NEW s \in Sessions
        PROVE  [pc |-> "got", admin |-> a, s |-> s] \in View
    BY Zenon DEF View
  <2>2. ASSUME NEW pc \in {"attached", "done"}
        PROVE  [view EXCEPT ![w].pc = pc] \in [Views -> View]
    BY Zenon DEF View, TypeOK, WatchOK
  <2> QED
    BY <2>1, <2>2 DEF TypeOK, WatchOK, ViewNext, ViewGet, ViewFails, ViewAttach, ViewEnds, View
<1>3. ls' \in [Sessions -> Object]
  BY DEF TypeOK, WatchOK, ViewNext, ViewGet, ViewFails, ViewAttach, ViewEnds, Object
<1> QED
  BY <1>1, <1>2, <1>3, Zenon DEF TypeOK, TunnelsOK, WatchOK, KillsOK, tunnels

\* A step of a control request keeps the types.
LEMMA ControlType ==
    ASSUME TypeOK, NEW c \in Controls, ControlNext(c)
    PROVE  TypeOK'
<1>1. UNCHANGED <<active, vend, tunnels, hub, view, kill, sending>>
  BY Zenon DEF ControlNext, ControlGet, TakeControl, ReleaseControl
<1>2. ctl' \in [Controls -> Control]
  <2>1. /\ NoControl \in Control
        /\ \A a \in Admins, s \in Sessions, take \in BOOLEAN :
              [admin |-> a, s |-> s, take |-> take] \in Control
    BY Zenon DEF Control, NoControl
  <2> QED
    BY <2>1 DEF TypeOK, WatchOK, ControlNext, ControlGet, TakeControl, ReleaseControl
<1>3. ASSUME NEW s \in Sessions, NEW a \in Admins \cup {None}, OwnerIs(s, a)
      PROVE  ls' \in [Sessions -> Object] /\ late' \in [Pumps -> Nat]
  <2>1. ls' \in [Sessions -> Object]
    BY <1>3, Zenon DEF OwnerIs, Object, TypeOK, WatchOK
  <2>2. late' \in [Pumps -> Nat]
    BY <1>3, Zenon DEF OwnerIs, TypeOK, WatchOK
  <2> QED
    BY <2>1, <2>2, Zenon
<1>4. ls' \in [Sessions -> Object] /\ late' \in [Pumps -> Nat]
  BY <1>3, Zenon DEF TypeOK, WatchOK, ControlNext, ControlGet, TakeControl, ReleaseControl, Control
<1> QED
  BY <1>1, <1>2, <1>4, Zenon DEF TypeOK, TunnelsOK, WatchOK, KillsOK, tunnels

\* A step of a terminate request keeps the types.
LEMMA KillType ==
    ASSUME TypeOK, NEW k \in Kills, KillNext(k)
    PROVE  TypeOK'
<1>1. UNCHANGED <<vend, broker, lost, audit, hub, ls, view, ctl, sending, late>>
  BY Zenon DEF KillNext, KillStart, KillFind, TerminateGet, TerminateRead, TerminateCall,
         KillAnswered, KillRevoke, KillExpires, tunnels
<1>2. active' \subseteq Grants /\ conn' \in [Sessions -> {"none", "open", "closed"}]
  BY Zenon DEF TypeOK, TunnelsOK, KillsOK, KillNext, KillStart, KillFind, TerminateGet, TerminateRead,
         TerminateCall, KillAnswered, KillRevoke, KillExpires, tunnels
<1>3. /\ kill' \in [Kills -> Kill]
      /\ \A x \in Kills : kill'[x].pc # "idle" \/ kill'[x].dp # "none" => kill'[x].s \in Sessions
  <2>1. ASSUME NEW r \in Kill, r.s \in Sessions, kill' = [kill EXCEPT ![k] = r]
        PROVE  <1>3!:
    BY <2>1, Zenon DEF TypeOK, KillsOK
  <2>2. CASE \E s \in Sessions, g \in Grants \cup {None} : KillStart(k, s, g)
    BY <2>1, <2>2, Zenon DEF KillStart, Kill
  <2>3. ASSUME NEW pc \in {"wait", "revoke", "done", "failed"}, NEW dp \in {"none", "get"},
               kill[k].s \in Sessions
        PROVE  /\ [kill[k] EXCEPT !.pc = pc] \in Kill
               /\ [kill[k] EXCEPT !.pc = pc].s \in Sessions
               /\ [kill[k] EXCEPT !.pc = pc, !.dp = dp] \in Kill
               /\ [kill[k] EXCEPT !.pc = pc, !.dp = dp].s \in Sessions
    BY <2>3, Zenon DEF TypeOK, KillsOK, Kill
  <2>4. ASSUME NEW dp \in {"closer", "call", "done"}, kill[k].s \in Sessions
        PROVE  /\ [kill[k] EXCEPT !.dp = dp] \in Kill
               /\ [kill[k] EXCEPT !.dp = dp].s \in Sessions
               /\ [kill[k] EXCEPT !.dp = dp, !.found = TRUE] \in Kill
               /\ [kill[k] EXCEPT !.dp = dp, !.found = TRUE].s \in Sessions
    BY <2>4, Zenon DEF TypeOK, KillsOK, Kill
  <2>5. CASE \E listed, posted \in BOOLEAN : KillFind(k, listed, posted)
    BY <2>1, <2>3, <2>5, Zenon DEF KillFind, TypeOK, KillsOK
  <2>6. CASE KillAnswered(k) \/ KillRevoke(k) \/ KillExpires(k)
    BY <2>1, <2>3, <2>6, Zenon DEF KillAnswered, KillRevoke, KillExpires, TypeOK, KillsOK
  <2>7. CASE TerminateGet(k) \/ TerminateRead(k) \/ TerminateCall(k)
    BY <2>1, <2>4, <2>7, Zenon DEF TerminateGet, TerminateRead, TerminateCall, TypeOK, KillsOK
  <2> QED
    BY <2>2, <2>5, <2>6, <2>7, Zenon DEF KillNext
<1> QED
  BY <1>1, <1>2, <1>3, Zenon DEF TypeOK, TunnelsOK, WatchOK, KillsOK

\* The type invariant is inductive.
LEMMA NextType == TypeOK /\ [Next]_vars => TypeOK'
<1> SUFFICES ASSUME TypeOK, [Next]_vars PROVE TypeOK'
  BY Zenon
<1>1. ASSUME NEW p \in Pumps, PumpRead(p) \/ PumpWrite(p)
      PROVE  TypeOK'
  <2>1. /\ UNCHANGED <<active, vend, tunnels, hub, ls, view, ctl, kill>>
        /\ sending' \subseteq Pumps /\ late' \in [Pumps -> Nat]
    BY <1>1 DEF PumpRead, PumpWrite, TypeOK, WatchOK
  <2> QED
    BY <2>1, Zenon DEF TypeOK, TunnelsOK, WatchOK, KillsOK, tunnels
<1>2. CASE UNCHANGED vars
  BY <1>2, Zenon DEF vars, TypeOK, TunnelsOK, WatchOK, KillsOK
<1> QED
  BY <1>1, <1>2, TunnelType, ViewType, ControlType, KillType, Zenon DEF Next

\* Types of the handlers' locals, the hub and the session objects.
THEOREM LiveTypes == Spec => []TypeOK
<1>1. Init => TypeOK
  BY InitType, Zenon
<1>2. TypeOK /\ [Next]_vars => TypeOK'
  BY NextType, Zenon
<1> QED
  BY <1>1, <1>2, PTL DEF Spec

-----------------------------------------------------------------------------
\* Where the effects of a tunnel's handler stand at each of its steps.

Unregistered == {"idle", "authorized", "opened"}

Phase(s) ==
    /\ s \in hub <=> vend[s].pc \in {"registered", "closable", "audited", "bridging",
                                     "closing", "closed"}
    /\ vend[s].pc \in Unregistered \cup {"registered", "closable"} => audit[s] = <<>>
    /\ vend[s].pc \in {"audited", "bridging", "closing"} => audit[s] = <<"session_open">>
    /\ vend[s].pc \in {"closed", "removed"} => audit[s] = <<"session_open", "session_close">>
    /\ vend[s].pc = "done" => audit[s] \in {<<>>, <<"session_open", "session_close">>}
    /\ vend[s].pc \in {"idle", "authorized"} => s \notin broker
    /\ s \in broker /\ vend[s].pc = "done" => s \in lost

PhaseInv == \A s \in Sessions : Phase(s)

\* What a step of one tunnel leaves of the others.
Others(s) ==
    \A x \in Sessions \ {s} :
        /\ vend'[x] = vend[x] /\ audit'[x] = audit[x]
        /\ x \in hub' <=> x \in hub
        /\ x \in broker' <=> x \in broker
        /\ x \in lost => x \in lost'

\* Moving one handler on leaves the others where they are.
LEMMA GotoMoves ==
    ASSUME TypeOK, NEW s \in Sessions, NEW pc, Goto(s, pc)
    PROVE  /\ vend'[s].pc = pc
           /\ \A x \in Sessions \ {s} : vend'[x] = vend[x]
           /\ \A x \in Sessions : vend'[x].kind = vend[x].kind
BY Zenon DEF Goto, TypeOK, TunnelsOK, Tunnel

\* A step of a tunnel is its own.
LEMMA TunnelOthers ==
    ASSUME TypeOK, NEW s \in Sessions, TunnelNext(s)
    PROVE  Others(s)
<1>1. \A x \in Sessions \ {s} : vend'[x] = vend[x]
  <2>1. \/ \E v \in Vendors, kind \in {"gateway", "isolated"} : Connect(s, v, kind)
        \/ \E pc \in Pcs : Goto(s, pc)
        \/ vend' = vend
    BY Zenon DEF TunnelNext, OpenGateway, OpenFails, OpenBrowser, Register, SetCloser, Pcs,
           AuditOpen, Bridge, BridgeFails, VendorLeaves, RelayFails, ConnBreaks, AuditClose,
           Remove, Finish
  <2> QED
    BY <2>1, GotoMoves, Zenon DEF Connect, TypeOK, TunnelsOK
<1>2. \A x \in Sessions \ {s} : audit'[x] = audit[x]
  BY Zenon DEF TunnelNext, Connect, OpenGateway, OpenFails, OpenBrowser, Register, SetCloser,
         AuditOpen, Bridge, BridgeFails, VendorLeaves, RelayFails, ConnBreaks, AuditClose,
         Remove, Finish, tunnels, TypeOK, TunnelsOK
<1>3. \A x \in Sessions \ {s} :
        /\ x \in hub' <=> x \in hub
        /\ x \in broker' <=> x \in broker
        /\ x \in lost => x \in lost'
  BY Zenon DEF TunnelNext, Connect, OpenGateway, OpenFails, OpenBrowser, Register, SetCloser,
         AuditOpen, Bridge, BridgeFails, VendorLeaves, RelayFails, ConnBreaks, AuditClose,
         Remove, Finish, tunnels
<1> QED
  BY <1>1, <1>2, <1>3, Zenon DEF Others

\* The trail grows by one event.
LEMMA Trail ==
    /\ Append(<<>>, "session_open") = <<"session_open">>
    /\ Append(<<"session_open">>, "session_close") = <<"session_open", "session_close">>
<1> DEFINE E == {"session_open", "session_close"}
           t == Append(<<"session_open">>, "session_close")
           u == <<"session_open", "session_close">>
<1>1. Append(<<>>, "session_open") = <<"session_open">>
  OBVIOUS
<1>2. t \in Seq(E) /\ Len(t) = 2 /\ t[1] = "session_open" /\ t[2] = "session_close"
  OBVIOUS
<1>3. u \in Seq(E) /\ Len(u) = 2 /\ u[1] = "session_open" /\ u[2] = "session_close"
  OBVIOUS
<1>4. \A i \in 1 .. Len(t) : t[i] = u[i]
  <2> HIDE DEF t, u
  <2> QED
    BY <1>2, <1>3
<1>5. t = u
  <2> HIDE DEF t, u, E
  <2> QED
    BY <1>2, <1>3, <1>4, SeqEqual, Zenon
<1> QED
  BY <1>1, <1>5, Zenon

\* The steps before the registration, and the registration.
LEMMA OpeningPhase ==
    ASSUME TypeOK, NEW s \in Sessions, Phase(s),
           \/ \E v \in Vendors, kind \in {"gateway", "isolated"} : Connect(s, v, kind)
           \/ OpenGateway(s) \/ OpenFails(s) \/ \E answered \in BOOLEAN : OpenBrowser(s, answered)
           \/ Register(s) \/ SetCloser(s)
    PROVE  Phase(s)'
<1>1. CASE \E v \in Vendors, kind \in {"gateway", "isolated"} : Connect(s, v, kind)
  <2>1. vend[s].pc = "idle" /\ vend'[s].pc = "authorized"
    BY <1>1 DEF Connect, TypeOK, TunnelsOK
  <2>2. UNCHANGED <<audit, broker, lost, hub>>
    BY <1>1, Zenon DEF Connect, tunnels
  <2> QED
    BY <2>1, <2>2, Zenon DEF Phase, Unregistered
<1>2. CASE OpenGateway(s)
  BY <1>2, GotoMoves DEF OpenGateway, Phase, Unregistered
<1>3. CASE OpenFails(s)
  BY <1>3, GotoMoves DEF OpenFails, tunnels, Phase, Unregistered
<1>4. ASSUME NEW answered \in BOOLEAN, OpenBrowser(s, answered)
      PROVE  Phase(s)'
  <2>1. vend[s].pc = "authorized" /\ vend'[s].pc = IF answered THEN "opened" ELSE "done"
    BY <1>4, GotoMoves, Zenon DEF OpenBrowser
  <2>2. ~answered => s \in lost'
    BY <1>4, Zenon DEF OpenBrowser
  <2>3. UNCHANGED <<audit, hub>>
    BY <1>4, Zenon DEF OpenBrowser
  <2> QED
    BY <2>1, <2>2, <2>3, Zenon DEF Phase, Unregistered
<1>5. CASE Register(s)
  BY <1>5, GotoMoves DEF Register, tunnels, Phase, Unregistered
<1>6. CASE SetCloser(s)
  BY <1>6, GotoMoves DEF SetCloser, tunnels, Phase, Unregistered
<1> QED
  BY <1>1, <1>2, <1>3, <1>4, <1>5, <1>6, Zenon

\* The steps from the first audit event to the end.
LEMMA RunningPhase ==
    ASSUME TypeOK, NEW s \in Sessions, Phase(s),
           \/ AuditOpen(s) \/ Bridge(s) \/ BridgeFails(s) \/ VendorLeaves(s) \/ RelayFails(s)
           \/ ConnBreaks(s) \/ AuditClose(s) \/ Remove(s)
           \/ \E reachable \in BOOLEAN : Finish(s, reachable)
    PROVE  Phase(s)'
<1>1. CASE AuditOpen(s)
  <2>1. vend[s].pc = "closable" /\ vend'[s].pc = "audited" /\ UNCHANGED <<broker, lost, hub>>
    BY <1>1, GotoMoves, Zenon DEF AuditOpen
  <2>2. audit'[s] = <<"session_open">>
    BY <1>1, Trail, Zenon DEF AuditOpen, Phase, TypeOK, TunnelsOK
  <2> QED
    BY <2>1, <2>2, Zenon DEF Phase, Unregistered
<1>2. CASE Bridge(s)
  <2>1. vend[s].pc = "audited" /\ vend'[s].pc = "bridging" /\ UNCHANGED <<audit, broker, lost, hub>>
    BY <1>2, GotoMoves, Zenon DEF Bridge
  <2> QED
    BY <2>1, Zenon DEF Phase, Unregistered
<1>3. CASE BridgeFails(s) \/ VendorLeaves(s) \/ RelayFails(s)
  <2>1. vend[s].pc \in {"audited", "bridging"} /\ vend'[s].pc = "closing"
    BY <1>3, GotoMoves, Zenon DEF BridgeFails, VendorLeaves, RelayFails
  <2>2. UNCHANGED <<audit, broker, lost, hub>>
    BY <1>3, Zenon DEF BridgeFails, VendorLeaves, RelayFails, tunnels
  <2> QED
    BY <2>1, <2>2, Zenon DEF Phase, Unregistered
<1>4. CASE ConnBreaks(s)
  BY <1>4, Zenon DEF ConnBreaks, Phase
<1>5. CASE AuditClose(s)
  <2>1. vend[s].pc = "closing" /\ vend'[s].pc = "closed" /\ UNCHANGED <<broker, lost, hub>>
    BY <1>5, GotoMoves, Zenon DEF AuditClose
  <2>2. audit'[s] = <<"session_open", "session_close">>
    BY <1>5, Trail, Zenon DEF AuditClose, Phase, TypeOK, TunnelsOK
  <2> QED
    BY <2>1, <2>2, Zenon DEF Phase, Unregistered
<1>6. CASE Remove(s)
  <2>1. vend[s].pc = "closed" /\ vend'[s].pc = "removed" /\ hub' = hub \ {s}
    BY <1>6, GotoMoves, Zenon DEF Remove
  <2>2. UNCHANGED <<audit, broker, lost>>
    BY <1>6, Zenon DEF Remove, tunnels
  <2> QED
    BY <2>1, <2>2, Zenon DEF Phase, Unregistered
<1>7. ASSUME NEW reachable \in BOOLEAN, Finish(s, reachable)
      PROVE  Phase(s)'
  <2>1. /\ vend[s].pc = "removed" /\ vend'[s].pc = "done" /\ UNCHANGED <<audit, hub>>
        /\ s \in broker' => s \in lost'
    BY <1>7, GotoMoves, Zenon DEF Finish
  <2> QED
    BY <2>1, Zenon DEF Phase, Unregistered
<1> QED
  BY <1>1, <1>2, <1>3, <1>4, <1>5, <1>6, <1>7, Zenon

\* A tunnel's step leaves a session's count and owner alone, except that the
\* registration makes the object.
LEMMA TunnelObjects ==
    ASSUME TypeOK, NEW s \in Sessions, TunnelNext(s)
    PROVE  \/ Register(s) /\ \A x \in Sessions \ {s} : ls'[x] = ls[x]
           \/ \A x \in Sessions : ls'[x].viewers = ls[x].viewers /\ ls'[x].owner = ls[x].owner
<1>1. CASE Register(s)
  BY <1>1, Zenon DEF Register, TypeOK, WatchOK
<1>2. CASE SetCloser(s)
  BY <1>2, Zenon DEF SetCloser, TypeOK, WatchOK, Object
<1>3. CASE ls' = ls
  BY <1>3, Zenon
<1> QED
  BY <1>1, <1>2, <1>3, Zenon
  DEF TunnelNext, Connect, OpenGateway, OpenFails, OpenBrowser, AuditOpen, Bridge, BridgeFails,
      VendorLeaves, RelayFails, ConnBreaks, AuditClose, Remove, Finish

\* Only tunnels' handlers touch the hub's map, the trail and the browsers.
LEMMA TunnelsOwn ==
    ASSUME [Next]_vars
    PROVE  \/ \E s \in Sessions : TunnelNext(s)
           \/ UNCHANGED <<vend, audit, broker, lost, hub>>
<1>1. ASSUME NEW w \in Views, ViewNext(w)
      PROVE  UNCHANGED <<vend, audit, broker, lost, hub>>
  BY <1>1, Zenon DEF tunnels, ViewNext, ViewGet, ViewFails, ViewAttach, ViewEnds
<1>2. ASSUME NEW c \in Controls, ControlNext(c)
      PROVE  UNCHANGED <<vend, audit, broker, lost, hub>>
  BY <1>2, Zenon DEF tunnels, ControlNext, ControlGet, TakeControl, ReleaseControl
<1>3. ASSUME NEW p \in Pumps, PumpRead(p) \/ PumpWrite(p)
      PROVE  UNCHANGED <<vend, audit, broker, lost, hub>>
  BY <1>3, Zenon DEF tunnels, PumpRead, PumpWrite
<1>4. ASSUME NEW k \in Kills, KillNext(k)
      PROVE  UNCHANGED <<vend, audit, broker, lost, hub>>
  BY <1>4, Zenon DEF tunnels, KillNext, KillStart, KillFind, TerminateGet, TerminateRead, TerminateCall,
         KillAnswered, KillRevoke, KillExpires
<1> QED
  BY <1>1, <1>2, <1>3, <1>4, Zenon DEF Next, vars

\* The phases are inductive.
LEMMA PhaseStep == TypeOK /\ PhaseInv /\ [Next]_vars => PhaseInv'
<1> SUFFICES ASSUME TypeOK, PhaseInv, [Next]_vars, NEW x \in Sessions PROVE Phase(x)'
  BY Zenon DEF PhaseInv
<1>1. ASSUME NEW s \in Sessions, TunnelNext(s)
      PROVE  Phase(x)'
  <2>1. CASE x = s
    BY <1>1, <2>1, OpeningPhase, RunningPhase, Zenon DEF PhaseInv, TunnelNext
  <2>2. CASE x # s
    BY <1>1, <2>2, TunnelOthers, Zenon DEF PhaseInv, Phase, Others, Unregistered
  <2> QED
    BY <2>1, <2>2, Zenon
<1>2. CASE UNCHANGED <<vend, audit, broker, lost, hub>>
  BY <1>2, Zenon DEF PhaseInv, Phase
<1> QED
  BY <1>1, <1>2, TunnelsOwn, Zenon

\* No handler has started.
LEMMA PhaseInit == Init => PhaseInv
BY DEF Init, PhaseInv, Phase, Unregistered

\* Every behaviour keeps the phases.
LEMMA PhaseAlways == Spec => [](TypeOK /\ PhaseInv)
<1>1. Init => TypeOK /\ PhaseInv
  BY InitType, PhaseInit, Zenon
<1>2. TypeOK /\ PhaseInv /\ [Next]_vars => (TypeOK /\ PhaseInv)'
  BY NextType, PhaseStep, Zenon
<1> QED
  BY <1>1, <1>2, PTL DEF Spec

\* The live list shows exactly the tunnels between their registration and
\* their teardown, for any number of tunnels and terminations.
THEOREM EntriesHaveHandlers == Spec => []EntryHasHandler
<1>1. PhaseInv => EntryHasHandler
  BY Zenon DEF PhaseInv, Phase, EntryHasHandler
<1> QED
  BY <1>1, PhaseAlways, PTL

\* Each tunnel's trail is an open and then a close, on every path through its
\* handler.
THEOREM TrailsArePaired == Spec => []AuditPaired
<1>1. ASSUME TypeOK, PhaseInv, NEW s \in Sessions
      PROVE  /\ audit[s] \in {<<>>, <<"session_open">>, <<"session_open", "session_close">>}
             /\ vend[s].pc \in {"removed", "done"} => audit[s] # <<"session_open">>
  <2>1. vend[s].pc \in Pcs /\ Phase(s)
    BY <1>1, Zenon DEF TypeOK, TunnelsOK, Tunnel, PhaseInv
  <2>2. /\ <<>> # <<"session_open">>
        /\ <<"session_open", "session_close">> # <<"session_open">>
    BY Zenon
  <2> QED
    BY <2>1, <2>2, Zenon DEF Phase, Pcs, Unregistered
<1>2. TypeOK /\ PhaseInv => AuditPaired
  BY <1>1, Zenon DEF AuditPaired
<1> QED
  BY <1>2, PhaseAlways, PTL

\* An isolated browser outlives its tunnel only if the connector was gone.
THEOREM BrowsersAreClosed == Spec => []NoOrphanBrowser
<1>1. TypeOK /\ PhaseInv => NoOrphanBrowser
  BY Zenon DEF TypeOK, TunnelsOK, PhaseInv, Phase, NoOrphanBrowser
<1> QED
  BY <1>1, PhaseAlways, PTL

-----------------------------------------------------------------------------
\* Viewers.

\* A view has seen only sessions that were registered.
SeenInv == \A w \in Views : view[w].s \in Sessions => vend[view[w].s].pc \notin Unregistered

\* No handler goes back before its registration.
LEMMA Forward ==
    ASSUME TypeOK, [Next]_vars, NEW x \in Sessions, vend[x].pc \notin Unregistered
    PROVE  vend'[x].pc \notin Unregistered
<1>1. ASSUME NEW s \in Sessions, TunnelNext(s)
      PROVE  vend'[x].pc \notin Unregistered
  <2>1. CASE x # s
    BY <1>1, <2>1, TunnelOthers, Zenon DEF Others
  <2>2. CASE x = s
    <3>1. \/ \E pc \in Pcs \ Unregistered : Goto(s, pc)
          \/ vend' = vend
      BY <1>1, <2>2, Zenon
      DEF TunnelNext, Connect, OpenGateway, OpenFails, OpenBrowser, Register, SetCloser, Pcs,
          AuditOpen, Bridge, BridgeFails, VendorLeaves, RelayFails, ConnBreaks, AuditClose,
          Remove, Finish, Unregistered
    <3> QED
      BY <2>2, <3>1, GotoMoves, Zenon
  <2> QED
    BY <2>1, <2>2, Zenon
<1> QED
  BY <1>1, TunnelsOwn, Zenon

\* Which sessions a view can name.
LEMMA ViewsOwn ==
    ASSUME TypeOK, [Next]_vars, NEW w \in Views
    PROVE  \/ \E a \in Admins, s \in Sessions : ViewGet(w, a, s)
           \/ view'[w].s = view[w].s /\ view'[w].admin = view[w].admin
<1>1. ASSUME NEW v \in Views, ViewFails(v) \/ ViewAttach(v) \/ ViewEnds(v)
      PROVE  view'[w].s = view[w].s /\ view'[w].admin = view[w].admin
  BY <1>1 DEF ViewFails, ViewAttach, ViewEnds, TypeOK, WatchOK, View
<1>2. ASSUME NEW v \in Views, v # w, NEW a \in Admins, NEW s \in Sessions, ViewGet(v, a, s)
      PROVE  view'[w] = view[w]
  BY <1>2, Zenon DEF ViewGet, TypeOK, WatchOK
<1>3. \/ \E v \in Views : ViewNext(v)
      \/ view' = view
  BY Zenon DEF Next, vars, tunnels, TunnelNext, Connect, OpenGateway, OpenFails, OpenBrowser, Register,
         SetCloser, AuditOpen, Bridge, BridgeFails, VendorLeaves, RelayFails, ConnBreaks,
         AuditClose, Remove, Finish, ControlNext, ControlGet, TakeControl, ReleaseControl,
         PumpRead, PumpWrite, KillNext, KillStart, KillFind, TerminateGet, TerminateRead,
         TerminateCall, KillAnswered, KillRevoke, KillExpires
<1> QED
  BY <1>1, <1>2, <1>3, Zenon DEF ViewNext

\* What views have seen stays registered.
LEMMA SeenStep == TypeOK /\ PhaseInv /\ SeenInv /\ [Next]_vars => SeenInv'
<1> SUFFICES ASSUME TypeOK, PhaseInv, SeenInv, [Next]_vars, NEW w \in Views,
                    view'[w].s \in Sessions
             PROVE  vend'[view'[w].s].pc \notin Unregistered
  BY Zenon DEF SeenInv
<1>1. ASSUME NEW a \in Admins, NEW s \in Sessions, ViewGet(w, a, s)
      PROVE  view'[w].s = s /\ vend' = vend /\ vend[s].pc \notin Unregistered
  BY <1>1, Zenon DEF ViewGet, TypeOK, WatchOK, PhaseInv, Phase, Unregistered
<1>2. CASE view'[w].s = view[w].s
  BY <1>2, Forward, Zenon DEF SeenInv
<1> QED
  BY <1>1, <1>2, ViewsOwn, Zenon

Attached(s) == {w \in Views : view[w].pc = "attached" /\ view[w].s = s}

\* There are finitely many views.
LEMMA AttachedFinite ==
    ASSUME NEW s
    PROVE  IsFiniteSet(Attached(s)) /\ IsFiniteSet(Attached(s)')
<1>1. IsFiniteSet(Views) /\ Attached(s) \subseteq Views /\ Attached(s)' \subseteq Views
  BY LiveAssumption, Zenon DEF Attached
<1> QED
  BY <1>1, FS_Subset, Zenon

\* A view counts itself on and off the session it has attached to.
LEMMA ViewCounts ==
    ASSUME TypeOK, ViewersCounted, NEW w \in Views, ViewNext(w), NEW x \in Sessions
    PROVE  ls'[x].viewers = Cardinality(Attached(x)')
<1>0. /\ ls[x].viewers = Cardinality(Attached(x)) /\ ls[x].viewers \in Nat
      /\ view[w].s \in Sessions \/ view[w].pc = "idle"
  BY Zenon DEF ViewersCounted, Attached, TypeOK, WatchOK, Object
<1>1. CASE \/ \E a \in Admins, s \in Sessions : ViewGet(w, a, s)
           \/ ViewFails(w)
  <2>1. ls' = ls /\ \A v \in Views : v # w => view'[v] = view[v]
    BY <1>1, Zenon DEF ViewGet, ViewFails, TypeOK, WatchOK
  <2>2. view[w].pc # "attached" /\ view'[w].pc # "attached"
    BY <1>1 DEF ViewGet, ViewFails, TypeOK, WatchOK, View
  <2>3. Attached(x)' = Attached(x)
    BY <2>1, <2>2, Zenon DEF Attached
  <2> QED
    BY <1>0, <2>1, <2>3, Zenon
<1>2. CASE ViewAttach(w)
  <2>1. /\ \A v \in Views : v # w => view'[v] = view[v]
        /\ view[w].pc = "got" /\ view'[w].pc = "attached" /\ view'[w].s = view[w].s
    BY <1>2, Zenon DEF ViewAttach, TypeOK, WatchOK, View
  <2>2. CASE x = view[w].s
    <3>1. ls'[x].viewers = ls[x].viewers + 1
      BY <1>2, <2>2, Zenon DEF ViewAttach, TypeOK, WatchOK, Object
    <3>2. Attached(x)' = Attached(x) \cup {w} /\ w \notin Attached(x)
      BY <2>1, <2>2, Zenon DEF Attached
    <3>3. Cardinality(Attached(x) \cup {w}) = Cardinality(Attached(x)) + 1
      BY <3>2, AttachedFinite, FS_AddElement, Zenon
    <3> QED
      BY <1>0, <3>1, <3>2, <3>3, Zenon
  <2>3. CASE x # view[w].s
    <3>1. ls'[x].viewers = ls[x].viewers
      BY <1>2, <2>3, Zenon DEF ViewAttach, TypeOK, WatchOK
    <3>2. Attached(x)' = Attached(x)
      BY <2>1, <2>3, Zenon DEF Attached
    <3> QED
      BY <1>0, <3>1, <3>2, Zenon
  <2> QED
    BY <2>2, <2>3, Zenon
<1>3. CASE ViewEnds(w)
  <2>1. /\ \A v \in Views : v # w => view'[v] = view[v]
        /\ view[w].pc = "attached" /\ view'[w].pc = "done" /\ view'[w].s = view[w].s
    BY <1>3, Zenon DEF ViewEnds, TypeOK, WatchOK, View
  <2>2. CASE x = view[w].s
    <3>1. ls'[x].viewers = IF ls[x].viewers > 0 THEN ls[x].viewers - 1 ELSE 0
      BY <1>3, <2>2, Zenon DEF ViewEnds, TypeOK, WatchOK, Object
    <3>2. Attached(x)' = Attached(x) \ {w} /\ w \in Attached(x)
      BY <2>1, <2>2, Zenon DEF Attached
    <3>3. Cardinality(Attached(x) \ {w}) = Cardinality(Attached(x)) - 1
      BY <3>2, AttachedFinite, FS_RemoveElement, Zenon
    <3>4. Cardinality(Attached(x)') \in Nat
      BY AttachedFinite, FS_CardinalityType, Zenon
    <3> QED
      BY <1>0, <3>1, <3>2, <3>3, <3>4
  <2>3. CASE x # view[w].s
    <3>1. ls'[x].viewers = ls[x].viewers
      BY <1>3, <2>3, Zenon DEF ViewEnds, TypeOK, WatchOK
    <3>2. Attached(x)' = Attached(x)
      BY <2>1, <2>3, Zenon DEF Attached
    <3> QED
      BY <1>0, <3>1, <3>2, Zenon
  <2> QED
    BY <2>2, <2>3, Zenon
<1> QED
  BY <1>1, <1>2, <1>3, Zenon DEF ViewNext

\* A tunnel's step changes no count: a session that registers has no viewers.
LEMMA TunnelCounts ==
    ASSUME TypeOK, SeenInv, ViewersCounted, NEW s \in Sessions, TunnelNext(s), NEW x \in Sessions
    PROVE  ls'[x].viewers = Cardinality(Attached(x)')
<1>0. ls[x].viewers = Cardinality(Attached(x))
  BY Zenon DEF ViewersCounted, Attached
<1>1. view' = view /\ Attached(x)' = Attached(x)
  BY Zenon DEF TunnelNext, Connect, OpenGateway, OpenFails, OpenBrowser, Register, SetCloser,
         AuditOpen, Bridge, BridgeFails, VendorLeaves, RelayFails, ConnBreaks, AuditClose,
         Remove, Finish, Attached
<1>2. CASE Register(s) /\ x = s
  <2>1. ls'[x].viewers = 0
    BY <1>2, Zenon DEF Register, NewLs, TypeOK, WatchOK
  <2>2. vend[x].pc \in Unregistered
    BY <1>2, Zenon DEF Register, Unregistered
  <2>3. Attached(x) = {}
    BY <2>2, Zenon DEF SeenInv, Attached
  <2> QED
    BY <1>1, <2>1, <2>3, FS_EmptySet, Zenon
<1>3. CASE ~(Register(s) /\ x = s)
  <2>1. ls'[x].viewers = ls[x].viewers
    BY <1>3, TunnelObjects, Zenon
  <2> QED
    BY <1>0, <1>1, <2>1, Zenon
<1> QED
  BY <1>2, <1>3, Zenon

\* The other steps change no count.
LEMMA OtherCounts ==
    ASSUME TypeOK, ViewersCounted, NEW x \in Sessions,
           \/ \E c \in Controls : ControlNext(c)
           \/ \E p \in Pumps : PumpRead(p) \/ PumpWrite(p)
           \/ \E k \in Kills : KillNext(k)
           \/ UNCHANGED vars
    PROVE  ls'[x].viewers = Cardinality(Attached(x)')
<1>1. view' = view
  BY Zenon DEF ControlNext, ControlGet, TakeControl, ReleaseControl, PumpRead, PumpWrite, KillNext,
         KillStart, KillFind, TerminateGet, TerminateRead, TerminateCall, KillAnswered,
         KillRevoke, KillExpires, vars
<1>2. ls' = ls \/ \E s \in Sessions, a \in Admins \cup {None} : OwnerIs(s, a)
  BY Zenon DEF ControlNext, ControlGet, TakeControl, ReleaseControl, PumpRead, PumpWrite, KillNext,
         KillStart, KillFind, TerminateGet, TerminateRead, TerminateCall, KillAnswered,
         KillRevoke, KillExpires, vars, TypeOK, WatchOK, Control
<1>3. ls'[x].viewers = ls[x].viewers
  BY <1>2 DEF OwnerIs, TypeOK, WatchOK, Object
<1>4. Attached(x)' = Attached(x)
  BY <1>1, Zenon DEF Attached
<1> QED
  BY <1>3, <1>4, Zenon DEF ViewersCounted, Attached

\* The count is inductive.
LEMMA CountStep == TypeOK /\ SeenInv /\ ViewersCounted /\ [Next]_vars => ViewersCounted'
<1> SUFFICES ASSUME TypeOK, SeenInv, ViewersCounted, [Next]_vars, NEW x \in Sessions
             PROVE  ls'[x].viewers = Cardinality(Attached(x)')
  BY Zenon DEF ViewersCounted, Attached
<1> QED
  BY TunnelCounts, ViewCounts, OtherCounts, Zenon DEF Next

-----------------------------------------------------------------------------
\* Control.

Unstarted(p) == IF p \in Sessions THEN vend[p].pc \in Unregistered
                              ELSE view[p].pc \in {"idle", "got"}

\* A pump that has sent against the owner holds no other input, and cannot get
\* one before the owner changes; a pump that has not started has sent nothing.
LateOK(p) ==
    /\ \/ late[p] = 0
       \/ late[p] = 1 /\ p \notin sending /\ ~Allowed(p)
    /\ Unstarted(p) => late[p] = 0 /\ p \notin sending

LateInv == \A p \in Pumps : LateOK(p)

\* A started view has a session.
LEMMA PumpTypes ==
    ASSUME TypeOK, NEW p \in Pumps
    PROVE  /\ late[p] \in Nat
           /\ p \in Sessions \/ (p \in Views /\ p \notin Sessions)
           /\ p \notin Sessions /\ ~Unstarted(p) => view[p].s \in Sessions
BY LiveAssumption, Zenon DEF TypeOK, WatchOK, Pumps, Unstarted, View

\* A tunnel's step: the owner changes only by a registration, before any pump
\* of the session has started.
LEMMA TunnelLate ==
    ASSUME TypeOK, SeenInv, LateInv, [Next]_vars, NEW s \in Sessions, TunnelNext(s), NEW p \in Pumps
    PROVE  LateOK(p)'
<1>1. UNCHANGED <<view, sending, late>>
  BY Zenon DEF TunnelNext, Connect, OpenGateway, OpenFails, OpenBrowser, Register, SetCloser,
         AuditOpen, Bridge, BridgeFails, VendorLeaves, RelayFails, ConnBreaks, AuditClose,
         Remove, Finish
<1>2. ASSUME NEW x \in Sessions, vend[x].pc \notin Unregistered
      PROVE  ls'[x].owner = ls[x].owner
  BY <1>2, TunnelObjects, Zenon DEF Register, Unregistered
<1>3. Unstarted(p)' => Unstarted(p)
  BY <1>1, Forward, Zenon DEF Unstarted
<1>4. ~Unstarted(p) => (Allowed(p)' <=> Allowed(p))
  <2>1. CASE p \in Sessions
    BY <1>2, <2>1, Zenon DEF Unstarted, Allowed, VendorInputAllowed
  <2>2. CASE p \notin Sessions
    BY <1>1, <1>2, <2>2, PumpTypes, Zenon DEF SeenInv, Allowed, ViewerInputAllowed
  <2> QED
    BY <2>1, <2>2, Zenon
<1>5. LateOK(p)
  BY Zenon DEF LateInv
<1> QED
  BY <1>1, <1>3, <1>4, <1>5, Zenon DEF LateOK

\* A view's step: it takes its name and its session before its pump starts.
LEMMA ViewLate ==
    ASSUME TypeOK, LateInv, NEW w \in Views, ViewNext(w), NEW p \in Pumps
    PROVE  LateOK(p)'
<1>1. UNCHANGED <<vend, late>> /\ sending' \subseteq sending
  BY Zenon DEF ViewNext, ViewGet, ViewFails, ViewAttach, ViewEnds
<1>2. \A x \in Sessions : ls'[x].owner = ls[x].owner
  BY DEF ViewNext, ViewGet, ViewFails, ViewAttach, ViewEnds, TypeOK, WatchOK, Object
<1>3. p # w /\ p \in Views => view'[p] = view[p]
  BY Zenon DEF ViewNext, ViewGet, ViewFails, ViewAttach, ViewEnds, TypeOK, WatchOK
<1>4. /\ view'[w].pc \in {"idle", "got"} => view[w].pc \in {"idle", "got"}
      /\ \/ view[w].pc = "idle"
         \/ view'[w].s = view[w].s /\ view'[w].admin = view[w].admin
  BY DEF ViewNext, ViewGet, ViewFails, ViewAttach, ViewEnds, TypeOK, WatchOK, View
<1>5. Unstarted(p)' => Unstarted(p)
  BY <1>1, <1>3, <1>4, PumpTypes, Zenon DEF Unstarted
<1>6. ~Unstarted(p) => (Allowed(p)' <=> Allowed(p))
  BY <1>2, <1>3, <1>4, PumpTypes, Zenon DEF Unstarted, Allowed, VendorInputAllowed, ViewerInputAllowed
<1>7. LateOK(p)
  BY Zenon DEF LateInv
<1> QED
  BY <1>1, <1>5, <1>6, <1>7, Zenon DEF LateOK

\* A change of owner clears what the session's pumps had sent.
LEMMA ControlLate ==
    ASSUME TypeOK, LateInv, NEW c \in Controls, ControlNext(c), NEW p \in Pumps
    PROVE  LateOK(p)'
<1>1. UNCHANGED <<vend, view, sending>> /\ LateOK(p)
  BY Zenon DEF ControlNext, ControlGet, TakeControl, ReleaseControl, LateInv
<1>2. ASSUME NEW s \in Sessions, NEW a \in Admins \cup {None}, OwnerIs(s, a)
      PROVE  LateOK(p)'
  <2>1. \A x \in Sessions : ls'[x].owner = IF x = s THEN a ELSE ls[x].owner
    BY <1>2, Zenon DEF OwnerIs, TypeOK, WatchOK, Object
  <2>2. CASE a = ls[s].owner
    <3>1. late' = late /\ \A x \in Sessions : ls'[x].owner = ls[x].owner
      BY <1>2, <2>1, <2>2, Zenon DEF OwnerIs
    <3>2. ~Unstarted(p) => (Allowed(p)' <=> Allowed(p))
      BY <1>1, <3>1, PumpTypes, Zenon DEF Allowed, VendorInputAllowed, ViewerInputAllowed
    <3> QED
      BY <1>1, <3>1, <3>2, Zenon DEF LateOK, Unstarted
  <2>3. CASE a # ls[s].owner
    <3>1. late'[p] = IF p = s \/ (p \in Views /\ view[p].s = s) THEN 0 ELSE late[p]
      BY <1>2, <2>3, Zenon DEF OwnerIs
    <3>2. ~Unstarted(p) /\ p # s /\ ~(p \in Views /\ view[p].s = s) => (Allowed(p)' <=> Allowed(p))
      BY <1>1, <2>1, PumpTypes, Zenon DEF Allowed, VendorInputAllowed, ViewerInputAllowed
    <3> QED
      BY <1>1, <3>1, <3>2, Zenon DEF LateOK, Unstarted
  <2> QED
    BY <2>2, <2>3, Zenon
<1>3. CASE ls' = ls /\ late' = late
  BY <1>1, <1>3, Zenon DEF LateOK, Unstarted, Allowed, VendorInputAllowed, ViewerInputAllowed
<1> QED
  BY <1>2, <1>3, Zenon DEF ControlNext, ControlGet, TakeControl, ReleaseControl, TypeOK, WatchOK, Control

\* A pump takes an input only if it is allowed, and sends the one it has.
LEMMA PumpLate ==
    ASSUME TypeOK, LateInv, NEW q \in Pumps, PumpRead(q) \/ PumpWrite(q), NEW p \in Pumps
    PROVE  LateOK(p)'
<1>1. UNCHANGED <<vend, view, ls>> /\ LateOK(p) /\ LateOK(q)
  BY Zenon DEF PumpRead, PumpWrite, LateInv
<1>2. (Unstarted(p)' <=> Unstarted(p)) /\ (Allowed(p)' <=> Allowed(p))
  BY <1>1, Zenon DEF Unstarted, Allowed, VendorInputAllowed, ViewerInputAllowed
<1>3. CASE p # q
  <2>1. late'[p] = late[p] /\ (p \in sending' <=> p \in sending)
    BY <1>3, Zenon DEF PumpRead, PumpWrite, TypeOK, WatchOK
  <2> QED
    BY <1>1, <1>2, <2>1, Zenon DEF LateOK
<1>4. CASE p = q /\ PumpRead(q)
  <2>1. late' = late /\ Allowed(p)
    BY <1>4, Zenon DEF PumpRead
  <2>2. ~Unstarted(p)
    BY <1>4, Zenon DEF PumpRead, Pumping, Unstarted, Unregistered
  <2> QED
    BY <1>1, <1>2, <2>1, <2>2, Zenon DEF LateOK
<1>5. CASE p = q /\ PumpWrite(q)
  <2>1. late[p] = 0 /\ ~Unstarted(p) /\ p \notin sending'
    BY <1>1, <1>5, Zenon DEF PumpWrite, LateOK
  <2>2. late'[p] = 0 \/ (late'[p] = 1 /\ ~Allowed(p))
    <3>1. CASE late' = late
      BY <2>1, <3>1, Zenon
    <3>2. CASE late' = [late EXCEPT ![p] = @ + 1]
      <4>1. late'[p] = late[p] + 1
        BY <3>2, Zenon DEF TypeOK, WatchOK
      <4>2. Allowed(p) => late' = late
        BY <1>5, Zenon DEF PumpWrite
      <4> QED
        BY <2>1, <4>1, <4>2
    <3> QED
      BY <1>5, <3>1, <3>2, Zenon DEF PumpWrite
  <2> QED
    BY <1>2, <2>1, <2>2, Zenon DEF LateOK
<1> QED
  BY <1>3, <1>4, <1>5, Zenon

\* The bound on late inputs is inductive.
LEMMA LateStep == TypeOK /\ SeenInv /\ LateInv /\ [Next]_vars => LateInv'
<1> SUFFICES ASSUME TypeOK, SeenInv, LateInv, [Next]_vars, NEW p \in Pumps PROVE LateOK(p)'
  BY Zenon DEF LateInv
<1>1. CASE (\E k \in Kills : KillNext(k)) \/ UNCHANGED vars
  <2>1. UNCHANGED <<vend, view, ls, sending, late>>
    BY <1>1, Zenon DEF KillNext, KillStart, KillFind, TerminateGet, TerminateRead, TerminateCall,
           KillAnswered, KillRevoke, KillExpires, vars
  <2> QED
    BY <2>1, Zenon DEF LateInv, LateOK, Unstarted, Allowed, VendorInputAllowed, ViewerInputAllowed
<1> QED
  BY <1>1, TunnelLate, ViewLate, ControlLate, PumpLate, Zenon DEF Next

WatchInv == SeenInv /\ ViewersCounted /\ LateInv

\* Nobody watches at first.
LEMMA WatchInit == Init => WatchInv
<1> SUFFICES ASSUME Init PROVE WatchInv
  BY Zenon
<1>1. SeenInv
  BY LiveAssumption, Zenon DEF Init, SeenInv
<1>2. ASSUME NEW s \in Sessions
      PROVE  ls[s].viewers = Cardinality({w \in Views : view[w].pc = "attached" /\ view[w].s = s})
  <2>1. {w \in Views : view[w].pc = "attached" /\ view[w].s = s} = {} /\ ls[s].viewers = 0
    BY Zenon DEF Init, NewLs
  <2> QED
    BY <2>1, FS_EmptySet, Zenon
<1>3. LateInv
  BY Zenon DEF Init, LateInv, LateOK, Pumps
<1> QED
  BY <1>1, <1>2, <1>3, Zenon DEF WatchInv, ViewersCounted

\* Every behaviour keeps it.
LEMMA WatchAlways == Spec => []WatchInv
<1>1. Init => TypeOK /\ PhaseInv /\ WatchInv
  BY InitType, PhaseInit, WatchInit, Zenon
<1>2. TypeOK /\ PhaseInv /\ WatchInv /\ [Next]_vars => (TypeOK /\ PhaseInv /\ WatchInv)'
  BY NextType, PhaseStep, SeenStep, CountStep, LateStep, Zenon DEF WatchInv
<1> QED
  BY <1>1, <1>2, PTL DEF Spec

\* The number of viewers shown is the number attached, for any number of views
\* and sessions.
THEOREM CountsAreRight == Spec => []ViewersCounted
<1>1. WatchInv => ViewersCounted
  BY Zenon DEF WatchInv
<1> QED
  BY <1>1, WatchAlways, PTL

\* After control changes hands, each pump sends at most one more input.
THEOREM ControlIsPrompt == Spec => []InputFollowsControl
<1>1. WatchInv => InputFollowsControl
  BY DEF WatchInv, LateInv, LateOK, InputFollowsControl
<1> QED
  BY <1>1, WatchAlways, PTL

-----------------------------------------------------------------------------
(* The session page *)

\* The client and the splash over it, and the resource and policy that decide
\* what is recorded.
LifeRecs == [phase : {"none", "importing", "loading", "connecting", "connected", "failed"}, disposed : BOOLEAN]
SplashRecs == [ready : BOOLEAN, timer : BOOLEAN, why : {"none", "connected", "fallback"}]
GivenRecs == [mode : PageModes, recorded : BOOLEAN, asked : BOOLEAN]
SettingRecs == [recording : RecModes, consent : BOOLEAN]
ResourceRecs == [mode : PageModes, toggle : BOOLEAN, canUpload : BOOLEAN]

PageTypes ==
    /\ life \in LifeRecs
    /\ splash \in SplashRecs
    /\ given \in GivenRecs
    /\ setting \in SettingRecs
    /\ site \in ResourceRecs
    /\ cookie \in BOOLEAN /\ agreed \in BOOLEAN /\ recording \in BOOLEAN

\* Who may be connected: a page that is not the session's has no client, or one
\* whose import is still to resolve and will find itself disposed of.
ClientFits(scr, lf) ==
    scr # "session" => lf.phase = "none" \/ (lf.phase = "importing" /\ lf.disposed)

\* Consent: the cookie and the wait for its answer follow the button, and a
\* session that asks for it has it.
Consented(scr, gv, ask, ck, ag) ==
    /\ ck => ag
    /\ scr = "accepting" => ag
    /\ scr = "session" /\ gv.recorded /\ ask => ag

PageInv ==
    /\ PageTypes
    /\ ClientFits(screen, life)
    /\ Consented(screen, given, setting.consent, cookie, agreed)
    /\ recording => screen = "session"
    /\ SplashHonest

\* Every edit of the page's records, by name.
Phased(lf, p) == [lf EXCEPT !.phase = p]
Disposed(lf) == [lf EXCEPT !.disposed = TRUE]
Lifted(sp, w) == [sp EXCEPT !.ready = TRUE, !.why = w]
Armed == [NoSplash EXCEPT !.timer = TRUE]

\* What they leave behind.
LEMMA PageForms ==
    /\ \A lf \in LifeRecs, p \in {"connecting", "connected", "failed", "loading"} :
          Phased(lf, p) \in LifeRecs /\ Phased(lf, p).phase = p /\ Phased(lf, p).disposed = lf.disposed
    /\ \A lf \in LifeRecs : Disposed(lf) \in LifeRecs /\ Disposed(lf).phase = lf.phase /\ Disposed(lf).disposed
    /\ \A sp \in SplashRecs, w \in {"connected", "fallback"} :
          Lifted(sp, w) \in SplashRecs /\ Lifted(sp, w).ready /\ Lifted(sp, w).why = w
    /\ Armed \in SplashRecs /\ ~Armed.ready
    /\ NoSplash \in SplashRecs /\ ~NoSplash.ready
    /\ NoClient \in LifeRecs /\ NoClient.phase = "none"
  BY Zenon DEF Phased, Disposed, Lifted, Armed, NoSplash, NoClient, LifeRecs, SplashRecs

\* The page has its types, its consent and its client when it opens.
LEMMA PageStart == PageInit => PageInv
<1> SUFFICES ASSUME PageInit PROVE PageInv
  BY Zenon
<1>1. life \in LifeRecs /\ splash \in SplashRecs /\ ~splash.ready /\ life.phase = "none"
  BY PageForms, Zenon DEF PageInit
<1>2. given \in GivenRecs
  BY Zenon DEF PageInit, GivenRecs, PageModes
<1>3. setting \in SettingRecs /\ site \in ResourceRecs
  BY Zenon DEF PageInit, SettingRecs, ResourceRecs
<1>4. cookie = FALSE /\ agreed = FALSE /\ recording = FALSE /\ screen = "away"
  BY Zenon DEF PageInit
<1> QED
  BY <1>1, <1>2, <1>3, <1>4, Zenon DEF PageInv, PageTypes, ClientFits, Consented, SplashHonest

\* Loading the page, the button and the answer to it.
LEMMA PageLoads ==
    ASSUME PageInv, GatewaySessionPage \/ Accept \/ ConsentAccepted
    PROVE  PageInv'
<1>1. CASE GatewaySessionPage
  <2>1. UNCHANGED <<site, setting, cookie, agreed, recording>> /\ screen = "away"
    BY <1>1, Zenon DEF GatewaySessionPage
  <2>2. RecordedNow \in BOOLEAN
    BY Zenon DEF RecordedNow, effectiveRecordSessions, PageInv, PageTypes, SettingRecs, ResourceRecs
  <2>3. given' \in GivenRecs /\ given'.recorded = RecordedNow
    BY <1>1, <2>2, Zenon DEF GatewaySessionPage, GivenRecs, PageInv, PageTypes, ResourceRecs, SettingRecs
  <2>4. ~recording
    BY <2>1, Zenon DEF PageInv, PageTypes
  <2>5. CASE screen' # "session" /\ screen' # "accepting" /\ UNCHANGED <<life, splash>>
    BY <2>1, <2>3, <2>4, <2>5, Zenon DEF PageInv, PageTypes, ClientFits, Consented, SplashHonest
  <2>6. CASE screen' = "session" /\ Mounted(site.mode) /\ ~(RecordedNow /\ ~cookie /\ setting.consent)
    <3>1. life' \in LifeRecs /\ splash' = Armed
      BY <2>6, Zenon DEF Mounted, LifeRecs, Armed
    <3>2. splash' \in SplashRecs /\ ~splash'.ready
      BY <3>1, PageForms, Zenon
    <3>3. given'.recorded /\ setting.consent => agreed
      BY <2>3, <2>6, Zenon DEF PageInv, Consented, PageTypes
    <3> QED
      BY <2>1, <2>3, <2>4, <2>6, <3>1, <3>2, <3>3, Zenon DEF PageInv, PageTypes, ClientFits, Consented, SplashHonest
  <2> QED
    BY <1>1, <2>5, <2>6, Zenon DEF GatewaySessionPage
<1>2. CASE Accept
  <2>1. UNCHANGED <<site, setting, cookie, given, life, recording, splash>>
    BY <1>2, Zenon DEF Accept
  <2>2. screen = "gate" /\ screen' = "accepting" /\ agreed' = TRUE
    BY <1>2, Zenon DEF Accept
  <2> QED
    BY <2>1, <2>2, Zenon DEF PageInv, PageTypes, ClientFits, Consented, SplashHonest
<1>3. CASE ConsentAccepted
  <2>1. UNCHANGED <<site, setting, agreed, given, recording>> /\ screen = "accepting" /\ screen' = "session"
    BY <1>3, Zenon DEF ConsentAccepted
  <2>2. agreed /\ cookie' \in BOOLEAN
    BY <1>3, Zenon DEF ConsentAccepted, PageInv, PageTypes, Consented
  <2>3. life' \in LifeRecs /\ splash' = Armed
    BY <1>3, Zenon DEF ConsentAccepted, Mounted, LifeRecs, Armed
  <2>4. splash' \in SplashRecs /\ ~splash'.ready
    BY <2>3, PageForms, Zenon
  <2> QED
    BY <2>1, <2>2, <2>3, <2>4, Zenon DEF PageInv, PageTypes, ClientFits, Consented, SplashHonest
<1> QED
  BY <1>1, <1>2, <1>3, Zenon

\* The client's steps keep the page on its screen, its consent and its props.
SamePage == UNCHANGED <<site, setting, cookie, agreed, screen, given>>

\* A client in a session moves on, or one that is disposed of goes.
LEMMA ClientMoves ==
    ASSUME PageInv, SamePage, UNCHANGED splash, recording' \in BOOLEAN,
           \/ /\ life.phase # "none" /\ ~life.disposed
              /\ \E p \in {"connecting", "connected", "failed"} : life' = Phased(life, p)
           \/ life' = NoClient /\ UNCHANGED recording
    PROVE  PageInv'
<1>1. CASE life' = NoClient /\ UNCHANGED recording
  BY <1>1, PageForms, Zenon DEF PageInv, PageTypes, ClientFits, Consented, SplashHonest, SamePage
<1>2. CASE life.phase # "none" /\ ~life.disposed /\ \E p \in {"connecting", "connected", "failed"} : life' = Phased(life, p)
  <2>1. PICK p \in {"connecting", "connected", "failed"} : life' = Phased(life, p)
    BY <1>2, Zenon
  <2>2. life' \in LifeRecs /\ life'.phase = p
    BY <2>1, PageForms DEF PageInv, PageTypes
  <2>3. screen = "session"
    BY <1>2, Zenon DEF PageInv, ClientFits
  <2>4. life'.phase # "loading"
    BY <2>2, Zenon
  <2> QED
    BY <2>2, <2>3, <2>4, Zenon DEF PageInv, PageTypes, ClientFits, Consented, SplashHonest, SamePage
<1> QED
  BY <1>1, <1>2, Zenon

\* What the policy and the toggle resolve to is a Boolean.
LEMMA RecordedIsBool == ASSUME PageInv PROVE RecordedNow \in BOOLEAN
  BY Zenon DEF RecordedNow, effectiveRecordSessions, PageInv, PageTypes, SettingRecs, ResourceRecs

\* The import, the connection and their failures.
LEMMA PageClient ==
    ASSUME PageInv, Imported \/ ImportFails \/ FrameConnected \/ ClientFails
    PROVE  PageInv'
<1>1. CASE Imported
  <2>1. SamePage /\ UNCHANGED splash /\ life.phase = "importing"
    BY <1>1, Zenon DEF Imported, SamePage
  <2>2. CASE life.disposed /\ life' = NoClient /\ UNCHANGED recording
    BY <2>1, <2>2, ClientMoves, Zenon DEF PageInv, PageTypes
  <2>3. CASE ~life.disposed /\ life' = Phased(life, "connecting") /\ recording' = RecordedNow
    BY <2>1, <2>3, ClientMoves, RecordedIsBool, Zenon
  <2> QED
    BY <1>1, <2>2, <2>3, Zenon DEF Imported, Phased
<1>2. CASE ImportFails
  <2>1. SamePage /\ UNCHANGED <<splash, recording>> /\ life.phase = "importing"
    BY <1>2, Zenon DEF ImportFails, SamePage
  <2>2. life' = IF life.disposed THEN NoClient ELSE Phased(life, "failed")
    BY <1>2, Zenon DEF ImportFails, Phased
  <2>3. recording' \in BOOLEAN
    BY <2>1, Zenon DEF PageInv, PageTypes
  <2> QED
    BY <2>1, <2>2, <2>3, ClientMoves, Zenon
<1>3. CASE FrameConnected
  <2>1. SamePage /\ UNCHANGED splash /\ life.phase = "loading" /\ ~life.disposed
    BY <1>3, Zenon DEF FrameConnected, SamePage, InSession
  <2>2. life' = Phased(life, "connected") /\ recording' = RecordedNow
    BY <1>3, Zenon DEF FrameConnected, Phased
  <2> QED
    BY <2>1, <2>2, ClientMoves, RecordedIsBool, Zenon
<1>4. CASE ClientFails
  <2>1. SamePage /\ UNCHANGED <<splash, recording>> /\ life.phase \in {"connecting", "connected"} /\ ~life.disposed
    BY <1>4, Zenon DEF ClientFails, SamePage, InSession
  <2>2. life' = Phased(life, "failed")
    BY <1>4, Zenon DEF ClientFails, Phased
  <2>3. recording' \in BOOLEAN
    BY <2>1, Zenon DEF PageInv, PageTypes
  <2> QED
    BY <2>1, <2>2, <2>3, ClientMoves, Zenon
<1> QED
  BY <1>1, <1>2, <1>3, <1>4, Zenon

\* The splash lifts, or covers a new frame.
LEMMA PageSplash ==
    ASSUME PageInv, ClientConnected \/ FramePollSeesIt \/ FallbackFires \/ cycleQuality
    PROVE  PageInv'
<1>1. CASE ClientConnected
  <2>1. SamePage /\ UNCHANGED recording /\ screen = "session"
    BY <1>1, Zenon DEF ClientConnected, SamePage, InSession
  <2>2. life' = Phased(life, "connected") /\ splash' = Lifted(splash, IF splash.ready THEN splash.why ELSE "connected")
    BY <1>1, Zenon DEF ClientConnected, Phased, Lifted
  <2>3. (IF splash.ready THEN splash.why ELSE "connected") \in {"connected", "fallback"}
    BY Zenon DEF PageInv, PageTypes, SplashHonest
  <2>4. splash' \in SplashRecs /\ splash'.why \in {"connected", "fallback"}
    BY <2>2, <2>3, PageForms, Zenon DEF PageInv, PageTypes
  <2>5. life' \in LifeRecs /\ life'.phase = "connected"
    BY <2>2, PageForms, Zenon DEF PageInv, PageTypes
  <2> QED
    BY <2>1, <2>4, <2>5, Zenon DEF PageInv, PageTypes, ClientFits, Consented, SplashHonest, SamePage
<1>2. CASE FramePollSeesIt
  <2>1. SamePage /\ UNCHANGED <<recording, life>> /\ life.phase = "connected"
    BY <1>2, Zenon DEF FramePollSeesIt, SamePage
  <2>2. splash' = Lifted(splash, "connected")
    BY <1>2, Zenon DEF FramePollSeesIt, Lifted
  <2>3. splash' \in SplashRecs /\ splash'.why = "connected"
    BY <2>2, PageForms, Zenon DEF PageInv, PageTypes
  <2> QED
    BY <2>1, <2>3, Zenon DEF PageInv, PageTypes, ClientFits, Consented, SplashHonest, SamePage
<1>3. CASE FallbackFires
  <2>1. SamePage /\ UNCHANGED <<recording, life>>
    BY <1>3, Zenon DEF FallbackFires, SamePage
  <2>2. splash' \in SplashRecs /\ splash'.why = IF splash.ready THEN splash.why ELSE "fallback"
    BY <1>3, Zenon DEF FallbackFires, SplashRecs, PageInv, PageTypes
  <2> QED
    BY <2>1, <2>2, Zenon DEF PageInv, PageTypes, ClientFits, Consented, SplashHonest, SamePage
<1>4. CASE cycleQuality
  <2>1. SamePage /\ UNCHANGED recording /\ screen = "session"
    BY <1>4, Zenon DEF cycleQuality, SamePage, InSession
  <2>2. life' = Phased(life, "loading") /\ splash' = Armed
    BY <1>4, Zenon DEF cycleQuality, Phased, Armed
  <2>3. life' \in LifeRecs /\ splash' \in SplashRecs /\ ~splash'.ready
    BY <2>2, PageForms, Zenon DEF PageInv, PageTypes
  <2> QED
    BY <2>1, <2>3, Zenon DEF PageInv, PageTypes, ClientFits, Consented, SplashHonest, SamePage
<1> QED
  BY <1>1, <1>2, <1>3, <1>4, Zenon

\* Leaving disconnects, and an administrator's change is not seen by the page.
LEMMA PageLeft ==
    ASSUME PageInv, Leave \/ \E p \in RecModes, toggle \in BOOLEAN : AdminSetsRecording(p, toggle)
    PROVE  PageInv'
<1>1. CASE Leave
  <2>1. UNCHANGED <<site, setting, cookie, agreed, given>> /\ screen' = "away" /\ splash' = NoSplash /\ recording' = FALSE
    BY <1>1, Zenon DEF Leave
  <2>2. life' = IF life.phase = "importing" THEN Disposed(life) ELSE NoClient
    BY <1>1, Zenon DEF Leave, Disposed
  <2>3. life' \in LifeRecs /\ ClientFits("away", life')
    BY <2>2, PageForms, Zenon DEF PageInv, PageTypes, ClientFits
  <2>4. splash' \in SplashRecs /\ ~splash'.ready
    BY <2>1, PageForms, Zenon
  <2> QED
    BY <2>1, <2>3, <2>4, Zenon DEF PageInv, PageTypes, ClientFits, Consented, SplashHonest
<1>2. CASE \E p \in RecModes, toggle \in BOOLEAN : AdminSetsRecording(p, toggle)
  <2>1. PICK p \in RecModes, toggle \in BOOLEAN : AdminSetsRecording(p, toggle)
    BY <1>2, Zenon
  <2>2. UNCHANGED <<cookie, agreed, screen, given, life, recording, splash>>
    BY <2>1, Zenon DEF AdminSetsRecording, visitVars
  <2>3. setting' \in SettingRecs /\ setting'.consent = setting.consent
    BY <2>1, Zenon DEF AdminSetsRecording, SettingRecs, PageInv, PageTypes
  <2>4. site' \in ResourceRecs
    BY <2>1, Zenon DEF AdminSetsRecording, ResourceRecs, PageInv, PageTypes
  <2> QED
    BY <2>2, <2>3, <2>4, Zenon DEF PageInv, PageTypes, ClientFits, Consented, SplashHonest
<1> QED
  BY <1>1, <1>2, Zenon

\* What the invariant reads.
pageSeen == <<site, setting, cookie, agreed, screen, given, life, recording, splash>>

\* Dragging files and polling for monitoring touch none of it.
LEMMA PageAside ==
    ASSUME \/ onfilesystem \/ onDragEnter \/ onDragLeave \/ onDrop \/ PollSent
           \/ \E i \in 1..MaxPolls : PollAnswered(i) \/ PollFails(i)
           \/ \E w \in Monitoring : AdminWatches(w)
           \/ UNCHANGED pageVars
    PROVE  UNCHANGED pageSeen
<1>1. ASSUME onfilesystem PROVE UNCHANGED pageSeen
  BY <1>1, Zenon DEF onfilesystem, pageSeen
<1>2. ASSUME onDragEnter PROVE UNCHANGED pageSeen
  BY <1>2, Zenon DEF onDragEnter, pageSeen
<1>3. ASSUME onDragLeave PROVE UNCHANGED pageSeen
  BY <1>3, Zenon DEF onDragLeave, pageSeen
<1>4. ASSUME onDrop PROVE UNCHANGED pageSeen
  BY <1>4, Zenon DEF onDrop, pageSeen
<1>5. ASSUME PollSent PROVE UNCHANGED pageSeen
  BY <1>5, Zenon DEF PollSent, pageSeen, visitVars
<1>6. ASSUME NEW i, PollAnswered(i) \/ PollFails(i) PROVE UNCHANGED pageSeen
  BY <1>6, Zenon DEF PollAnswered, PollFails, pageSeen, visitVars
<1>7. ASSUME NEW w, AdminWatches(w) PROVE UNCHANGED pageSeen
  BY <1>7, Zenon DEF AdminWatches, pageSeen, visitVars
<1>8. ASSUME UNCHANGED pageVars PROVE UNCHANGED pageSeen
  BY <1>8, Zenon DEF pageVars, pageSeen, visitVars
<1> QED
  BY <1>1, <1>2, <1>3, <1>4, <1>5, <1>6, <1>7, <1>8, Zenon

\* Every step of the page keeps its invariant.
LEMMA PageStep == PageInv /\ [PageNext]_pageVars => PageInv'
<1> SUFFICES ASSUME PageInv, [PageNext]_pageVars PROVE PageInv'
  BY Zenon
<1>1. ASSUME UNCHANGED pageSeen PROVE PageInv'
  BY <1>1, Zenon DEF pageSeen, PageInv, PageTypes, ClientFits, Consented, SplashHonest
<1> QED
  BY <1>1, PageLoads, PageClient, PageSplash, PageLeft, PageAside, Zenon DEF PageNext

\* What follows of the page at any moment.
LEMMA PageMeans == PageInv => SplashHonest /\ LeavingDisconnects /\ RecordedWithConsent
  BY Zenon DEF PageInv, PageTypes, LifeRecs, ClientFits, Consented, LeavingDisconnects, RecordedWithConsent

\* The splash over a session lifts for a reason of that session: its own client
\* connected or its own fallback fired, however many times the vendor changes
\* the streaming quality, leaves and comes back.
THEOREM SplashLiftsForCause == PageSpec => []SplashHonest
<1>1. PageInit => PageInv
  BY PageStart, Zenon
<1>2. PageInv /\ [PageNext]_pageVars => PageInv'
  BY PageStep, Zenon
<1>3. PageInv => SplashHonest
  BY PageMeans, Zenon
<1> QED
  BY <1>1, <1>2, <1>3, PTL DEF PageSpec

\* Where consent is required nothing is recorded of a vendor who did not agree,
\* whatever became of the post that sets the cookie; and a page that is gone
\* leaves no client connected, however late its import resolves.
THEOREM ConsentComesFirst == PageSpec => [](RecordedWithConsent /\ LeavingDisconnects)
<1>1. PageInit => PageInv
  BY PageStart, Zenon
<1>2. PageInv /\ [PageNext]_pageVars => PageInv'
  BY PageStep, Zenon
<1>3. PageInv => RecordedWithConsent /\ LeavingDisconnects
  BY PageMeans, Zenon
<1> QED
  BY <1>1, <1>2, <1>3, PTL DEF PageSpec

-----------------------------------------------------------------------------
(* The resource form *)

\* What a form on screen owes to the row it was loaded from, as long as nothing
\* was saved since: the recording toggle unless it was switched, and the logo.
OfRow(f, row) ==
    /\ {"kind", "record", "logo", "hadLogo", "touched", "stale"} \subseteq DOMAIN f
    /\ f.kind = "resource" /\ f.record \in BOOLEAN
    /\ ~f.stale => /\ "record" \notin f.touched => f.record = row.record
                   /\ f.hadLogo = row.logo
FormFits(f, row) ==
    \/ f = BlankForm
    \/ "kind" \in DOMAIN f /\ f.kind = "policy"
    \/ OfRow(f, row)

FormInv ==
    /\ submits \in Nat
    /\ {"record", "logo"} \subseteq DOMAIN stored /\ stored.record \in BOOLEAN
    /\ capRec \in BOOLEAN
    /\ forms = [a \in FormAdmins |-> forms[a]]
    /\ \A a \in FormAdmins : FormFits(forms[a], stored)

\* One field of a form set.
With(f, field, v) == [f EXCEPT ![field] = v]

\* It alone changes.
LEMMA WithForm ==
    ASSUME NEW f, NEW field, NEW v
    PROVE  /\ DOMAIN With(f, field, v) = DOMAIN f
           /\ \A x \in DOMAIN f : With(f, field, v)[x] = IF x = field THEN v ELSE f[x]
  BY Zenon DEF With

\* A form that is edited is still one of its row: the controls other than the
\* toggle leave the toggle, and the toggle is remembered as touched.
LEMMA WithFits ==
    ASSUME NEW f, NEW row, OfRow(f, row), NEW field, NEW v, field \notin {"kind", "record", "hadLogo", "touched", "stale"}
    PROVE  OfRow(With(f, field, v), row)
<1>1. PICK h : h = With(f, field, v)
  BY Zenon
<1>2. DOMAIN h = DOMAIN f /\ \A x \in DOMAIN f : h[x] = IF x = field THEN v ELSE f[x]
  BY <1>1, Zenon DEF With
<1>3. {"kind", "record", "logo", "hadLogo", "touched", "stale"} \subseteq DOMAIN h
  BY <1>2, Zenon DEF OfRow
<1>4. h.kind = f.kind /\ h.record = f.record /\ h.hadLogo = f.hadLogo /\ h.touched = f.touched /\ h.stale = f.stale
  BY <1>2, Zenon DEF OfRow
<1>5. OfRow(h, row)
  BY <1>3, <1>4, Zenon DEF OfRow
<1> QED BY <1>1, <1>5, Zenon

\* So is one whose control is marked as touched,
LEMMA TouchFits ==
    ASSUME NEW f, NEW row, OfRow(f, row), NEW field
    PROVE  OfRow(With(f, "touched", f.touched \cup {field}), row)
<1>1. PICK t : t = f.touched \cup {field}
  BY Zenon
<1>2. PICK h : h = With(f, "touched", t)
  BY Zenon
<1>3. DOMAIN h = DOMAIN f /\ \A x \in DOMAIN f : h[x] = IF x = "touched" THEN t ELSE f[x]
  BY <1>2, Zenon DEF With
<1>4. {"kind", "record", "logo", "hadLogo", "touched", "stale"} \subseteq DOMAIN h
  BY <1>3, Zenon DEF OfRow
<1>5. h.kind = f.kind /\ h.record = f.record /\ h.hadLogo = f.hadLogo /\ h.touched = t /\ h.stale = f.stale
  BY <1>3, Zenon DEF OfRow
<1>6. OfRow(h, row)
  BY <1>1, <1>4, <1>5, Zenon DEF OfRow
<1> QED BY <1>1, <1>2, <1>6, Zenon

\* and one whose toggle was switched.
LEMMA ToggleFits ==
    ASSUME NEW f, NEW row, OfRow(f, row), NEW v \in BOOLEAN, NEW g, g = With(f, "record", v)
    PROVE  OfRow(With(g, "touched", g.touched \cup {"record"}), row)
<1>1. DOMAIN g = DOMAIN f /\ \A x \in DOMAIN f : g[x] = IF x = "record" THEN v ELSE f[x]
  BY Zenon DEF With
<1>2. PICK t : t = g.touched \cup {"record"}
  BY Zenon
<1>3. PICK h : h = With(g, "touched", t)
  BY Zenon
<1>4. DOMAIN h = DOMAIN g /\ \A x \in DOMAIN g : h[x] = IF x = "touched" THEN t ELSE g[x]
  BY <1>3, Zenon DEF With
<1>5. {"kind", "record", "logo", "hadLogo", "touched", "stale"} \subseteq DOMAIN h
  BY <1>1, <1>4, Zenon DEF OfRow
<1>6. h.kind = f.kind /\ h.record = v /\ h.hadLogo = f.hadLogo /\ h.touched = t /\ h.stale = f.stale
  BY <1>1, <1>4, Zenon DEF OfRow
<1>7. OfRow(h, row)
  BY <1>2, <1>5, <1>6, Zenon DEF OfRow
<1> QED
  BY <1>2, <1>3, <1>7, Zenon

\* A policy form stays one, whichever of its fields is set.
LEMMA PolicyFits ==
    ASSUME NEW f, NEW row, "kind" \in DOMAIN f, f.kind = "policy", NEW field, field # "kind", NEW v
    PROVE  "kind" \in DOMAIN With(f, field, v) /\ With(f, field, v).kind = "policy"
  BY WithForm

\* Once a save has outdated a form it owes the new row nothing.
LEMMA StaleFits ==
    ASSUME NEW f, NEW row, NEW other, FormFits(f, row), f # BlankForm
    PROVE  FormFits(With(f, "stale", TRUE), other)
<1>1. CASE "kind" \in DOMAIN f /\ f.kind = "policy"
  BY <1>1, PolicyFits, Zenon DEF FormFits
<1>2. CASE OfRow(f, row)
  <2>1. PICK h : h = With(f, "stale", TRUE)
    BY Zenon
  <2>2. DOMAIN h = DOMAIN f /\ \A x \in DOMAIN f : h[x] = IF x = "stale" THEN TRUE ELSE f[x]
    BY <2>1, Zenon DEF With
  <2>3. {"kind", "record", "logo", "hadLogo", "touched", "stale"} \subseteq DOMAIN h
    BY <1>2, <2>2, Zenon DEF OfRow
  <2>4. h.kind = f.kind /\ h.record = f.record
    BY <1>2, <2>2, Zenon DEF OfRow
  <2>5. h.stale = TRUE
    BY <1>2, <2>2, Zenon DEF OfRow
  <2>6. OfRow(h, other)
    BY <1>2, <2>3, <2>4, <2>5, Zenon DEF OfRow
  <2> QED
    BY <2>1, <2>6, Zenon DEF FormFits
<1> QED
  BY <1>1, <1>2, Zenon DEF FormFits

\* One form is replaced by another that fits the row.
LEMMA FormReplaced ==
    ASSUME FormInv, NEW a \in FormAdmins, NEW g, FormFits(g, stored), forms' = [forms EXCEPT ![a] = g],
           UNCHANGED <<stored, capRec>>, submits' \in Nat
    PROVE  FormInv'
<1>1. forms' = [b \in FormAdmins |-> IF b = a THEN g ELSE forms[b]]
  BY Zenon DEF FormInv
<1>2. forms' = [b \in FormAdmins |-> forms'[b]]
  BY <1>1, Zenon
<1>3. \A b \in FormAdmins : FormFits(forms'[b], stored)
  BY <1>1, Zenon DEF FormInv
<1> QED
  BY <1>2, <1>3, Zenon DEF FormInv

\* One control changed.
LEMMA EditStep ==
    ASSUME FormInv, NEW a \in FormAdmins, NEW field, NEW changed, Edit(a, field, changed),
           \/ "kind" \in DOMAIN changed /\ changed.kind = "policy"
           \/ OfRow(With(changed, "touched", changed.touched \cup {field}), stored)
    PROVE  FormInv'
<1>1. PICK g : g = With(changed, "touched", changed.touched \cup {field})
  BY Zenon
<1>2. forms' = [forms EXCEPT ![a] = g]
  BY <1>1, Zenon DEF Edit, With
<1>3. FormFits(g, stored)
  BY <1>1, PolicyFits, Zenon DEF FormFits
<1>4. UNCHANGED <<stored, capRec, submits>>
  BY Zenon DEF Edit
<1> QED
  BY <1>2, <1>3, <1>4, FormReplaced, Zenon DEF FormInv

\* A form of the resource is its row's.
LEMMA ResourceIsOfRow ==
    ASSUME FormInv, NEW a \in FormAdmins, forms[a].kind = "resource"
    PROVE  OfRow(forms[a], stored)
  BY DEF FormInv, FormFits, BlankForm

\* Any control of the resource form but the toggle.
LEMMA FieldStep ==
    ASSUME FormInv, NEW a \in FormAdmins, forms[a].kind = "resource", NEW name, NEW field, NEW v,
           field \notin {"kind", "record", "hadLogo", "touched", "stale"},
           Edit(a, name, With(forms[a], field, v))
    PROVE  FormInv'
<1>1. PICK g : g = With(forms[a], field, v)
  BY Zenon
<1>2. OfRow(g, stored)
  BY <1>1, ResourceIsOfRow, WithFits, Zenon
<1>3. OfRow(With(g, "touched", g.touched \cup {name}), stored)
  BY <1>2, TouchFits, Zenon
<1>4. Edit(a, name, g)
  BY <1>1, Zenon
<1> QED
  BY <1>3, <1>4, EditStep, Zenon

\* Switching the recording toggle keeps the invariant.
LEMMA ToggleStep ==
    ASSUME FormInv, NEW a \in FormAdmins, forms[a].kind = "resource", NEW v \in BOOLEAN,
           Edit(a, "record", With(forms[a], "record", v))
    PROVE  FormInv'
<1>1. PICK g : g = With(forms[a], "record", v)
  BY Zenon
<1>2. OfRow(With(g, "touched", g.touched \cup {"record"}), stored)
  BY <1>1, ResourceIsOfRow, ToggleFits, Zenon
<1>3. Edit(a, "record", g)
  BY <1>1, Zenon
<1> QED
  BY <1>2, <1>3, EditStep, Zenon

\* The controls of the resource form.
LEMMA ResourceEdited ==
    ASSUME FormInv, NEW a \in FormAdmins, EditResource(a)
    PROVE  FormInv'
<1> DEFINE f == forms[a]
<1>0. forms[a].kind = "resource"
  BY Zenon DEF EditResource
<1>1. CASE EditMode(a, f)
  <2>1. PICK m : Edit(a, "mode", With(f, "mode", m))
    BY <1>1, Zenon DEF EditMode, With
  <2> QED
    BY <1>0, <2>1, FieldStep, Zenon
<1>2. CASE EditHost(a, f)
  <2>1. PICK v : Edit(a, "custom", With(f, "custom", v)) \/ Edit(a, "host", With(f, "host", v))
    BY <1>2, Zenon DEF EditHost, With
  <2> QED
    BY <1>0, <2>1, FieldStep, Zenon
<1>3. CASE EditSecret(a, f)
  <2>1. PICK v : Edit(a, "secret", With(f, "secret", v))
    BY <1>3, Zenon DEF EditSecret, With
  <2> QED
    BY <1>0, <2>1, FieldStep, Zenon
<1>4. CASE EditGuac(a, f)
  <2>1. PICK v : Edit(a, "guac", With(f, "guac", v))
    BY <1>4, Zenon DEF EditGuac, With
  <2> QED
    BY <1>0, <2>1, FieldStep, Zenon
<1>5. CASE EditClipboard(a, f) \/ EditWatermark(a, f)
  <2>1. PICK v : Edit(a, "clip", With(f, "clip", v)) \/ Edit(a, "mark", With(f, "mark", v))
    BY <1>5, Zenon DEF EditClipboard, EditWatermark, With
  <2> QED
    BY <1>0, <2>1, FieldStep, Zenon
<1>6. CASE EditRecord(a, f)
  <2>1. Edit(a, "record", With(f, "record", ~f.record))
    BY <1>6, Zenon DEF EditRecord, With
  <2>2. PICK v \in BOOLEAN : v = ~f.record
    BY Zenon
  <2>3. Edit(a, "record", With(f, "record", v))
    BY <2>1, <2>2, Zenon
  <2> QED
    BY <1>0, <2>3, ToggleStep, Zenon
<1>7. CASE EditKeystrokes(a, f)
  <2>1. PICK v : Edit(a, "keys", With(f, "keys", v))
    BY <1>7, Zenon DEF EditKeystrokes, With
  <2> QED
    BY <1>0, <2>1, FieldStep, Zenon
<1>8. CASE onLogoFile(a, f) \/ removeLogo(a, f)
  <2>1. PICK v : Edit(a, "logo", With(f, "reading", v)) \/ Edit(a, "removed", With(f, "logo", v))
    BY <1>8, Zenon DEF onLogoFile, removeLogo, With
  <2> QED
    BY <1>0, <2>1, FieldStep, Zenon
<1>9. CASE LogoRead(a, f)
  <2>1. PICK g : g = With(With(With(f, "reading", FALSE), "logo", "new"), "error", FALSE)
    BY Zenon
  <2>2. forms' = [forms EXCEPT ![a] = g] /\ UNCHANGED <<stored, capRec, submits>>
    BY <1>9, <2>1, Zenon DEF LogoRead, With
  <2>3. OfRow(g, stored)
    BY <1>0, <2>1, ResourceIsOfRow, WithFits, Zenon
  <2> QED
    BY <2>2, <2>3, FormReplaced, Zenon DEF FormFits, FormInv
<1> QED
  BY <1>1, <1>2, <1>3, <1>4, <1>5, <1>6, <1>7, <1>8, <1>9, Zenon DEF EditResource

\* Opening, leaving and turning a form down.
LEMMA FormOpened ==
    ASSUME FormInv, NEW a \in FormAdmins, OpenResource(a) \/ OpenPolicy(a) \/ CloseForm(a)
    PROVE  FormInv'
<1>1. CASE OpenResource(a)
  <2>1. PICK g : /\ forms' = [forms EXCEPT ![a] = g]
                 /\ g = [kind |-> "resource", mode |-> stored.mode, record |-> stored.record,
                         keys |-> stored.keys, clip |-> stored.clip, mark |-> stored.mark,
                         host |-> WithoutSuffix(stored.host), custom |-> stored.custom, secret |-> FALSE,
                         guac |-> paramsToGuacFields(stored.guac),
                         logo |-> "undefined", hadLogo |-> stored.logo, reading |-> FALSE,
                         lock |-> resolvedRecordingMode, ksMode |-> resolvedKeystrokeLoggingMode,
                         labels |-> policy.guac, touched |-> {}, error |-> FALSE, stale |-> FALSE]
    BY <1>1, Zenon DEF OpenResource
  <2>2. OfRow(g, stored)
    BY <2>1, Zenon DEF OfRow, FormInv
  <2>3. UNCHANGED <<stored, capRec, submits>>
    BY <1>1, Zenon DEF OpenResource
  <2> QED
    BY <2>1, <2>2, <2>3, FormReplaced, Zenon DEF FormFits, FormInv
<1>2. CASE OpenPolicy(a)
  <2>1. PICK g : /\ forms' = [forms EXCEPT ![a] = g]
                 /\ g = [kind |-> "policy", recording |-> PolicyInitial.recording, mark |-> PolicyInitial.mark,
                         keys |-> resolvedKeystrokeLoggingMode, clip |-> resolvedClipboardDefault,
                         guac |-> paramsToGuacFields(policy.guac), touched |-> {}, stale |-> FALSE]
    BY <1>2, Zenon DEF OpenPolicy
  <2>2. "kind" \in DOMAIN g /\ g.kind = "policy"
    BY <2>1, Zenon
  <2>3. UNCHANGED <<stored, capRec, submits>>
    BY <1>2, Zenon DEF OpenPolicy
  <2> QED
    BY <2>1, <2>2, <2>3, FormReplaced, Zenon DEF FormFits, FormInv
<1>3. CASE CloseForm(a)
  <2>1. forms' = [forms EXCEPT ![a] = BlankForm] /\ UNCHANGED <<stored, capRec, submits>>
    BY <1>3, Zenon DEF CloseForm
  <2> QED
    BY <2>1, FormReplaced, Zenon DEF FormFits, FormInv
<1> QED
  BY <1>1, <1>2, <1>3, Zenon

\* The policy form's controls.
LEMMA PolicyEdited ==
    ASSUME FormInv, NEW a \in FormAdmins, EditPolicy(a)
    PROVE  FormInv'
<1>1. "kind" \in DOMAIN forms[a] /\ forms[a].kind = "policy"
  BY DEF EditPolicy, FormInv, FormFits, BlankForm, OfRow
<1>2. PICK field, v : field \in {"recording", "keys", "clip", "mark", "guac"} /\ Edit(a, field, With(forms[a], field, v))
  <2>1. CASE EditRecordingPolicy(a, forms[a])
    <3>1. PICK v : Edit(a, "recording", With(forms[a], "recording", v)) \/ Edit(a, "keys", With(forms[a], "keys", v))
      BY <2>1, Zenon DEF EditRecordingPolicy, With
    <3> QED
      BY <3>1
  <2>2. CASE EditPolicyDefaults(a, forms[a])
    <3>1. PICK v : Edit(a, "clip", With(forms[a], "clip", v)) \/ Edit(a, "mark", With(forms[a], "mark", v))
      BY <2>2, Zenon DEF EditPolicyDefaults, With
    <3> QED
      BY <3>1
  <2>3. CASE EditGuac(a, forms[a])
    <3>1. PICK v : Edit(a, "guac", With(forms[a], "guac", v))
      BY <2>3, Zenon DEF EditGuac, With
    <3> QED
      BY <3>1
  <2> QED
    BY <2>1, <2>2, <2>3, Zenon DEF EditPolicy
<1>3. PICK g : g = With(forms[a], field, v)
  BY Zenon
<1>4. "kind" \in DOMAIN g /\ g.kind = "policy"
  BY <1>1, <1>2, <1>3, PolicyFits, Zenon
<1>5. Edit(a, field, g)
  BY <1>2, <1>3, Zenon
<1> QED
  BY <1>4, <1>5, EditStep, Zenon

\* What is open elsewhere when something is saved no longer counts as its row's.
LEMMA OutdatedFits ==
    ASSUME FormInv, NEW b \in FormAdmins, NEW other
    PROVE  FormFits(Outdated(b), other)
<1>1. CASE forms[b] = BlankForm
  BY <1>1, Zenon DEF Outdated, FormFits
<1>2. CASE forms[b] # BlankForm
  <2>1. Outdated(b) = With(forms[b], "stale", TRUE)
    BY <1>2, Zenon DEF Outdated, With
  <2> QED
    BY <1>2, <2>1, StaleFits, Zenon DEF FormInv
<1> QED
  BY <1>1, <1>2, Zenon

\* A save of the policy, and the capability switched.
LEMMA PolicySaved ==
    ASSUME FormInv, CapabilitySwitched \/ \E a \in FormAdmins : SavePolicy(a)
    PROVE  FormInv'
<1>1. CASE CapabilitySwitched
  <2>1. forms' = [b \in FormAdmins |-> Outdated(b)] /\ UNCHANGED stored
    BY <1>1, Zenon DEF CapabilitySwitched
  <2>2. capRec' \in BOOLEAN
    BY <1>1, Zenon DEF CapabilitySwitched, FormInv
  <2>3. submits' \in Nat
    BY <1>1 DEF CapabilitySwitched, FormInv
  <2>4. forms' = [b \in FormAdmins |-> forms'[b]]
    BY <2>1, Zenon
  <2>5. \A b \in FormAdmins : FormFits(forms'[b], stored)
    BY <2>1, OutdatedFits, Zenon
  <2> QED
    BY <2>1, <2>2, <2>3, <2>4, <2>5, Zenon DEF FormInv
<1>2. ASSUME NEW a \in FormAdmins, SavePolicy(a) PROVE FormInv'
  <2>1. PICK g : g = With(With(forms[a], "touched", {}), "stale", FALSE)
    BY Zenon
  <2>2. forms' = [b \in FormAdmins |-> IF b = a THEN g ELSE Outdated(b)] /\ UNCHANGED <<stored, capRec>>
    BY <1>2, <2>1, Zenon DEF SavePolicy, With
  <2>0. submits' = submits + 1 /\ forms[a].kind = "policy"
    BY <1>2, Zenon DEF SavePolicy
  <2>3. submits' \in Nat
    BY <2>0 DEF FormInv
  <2>4. "kind" \in DOMAIN forms[a] /\ forms[a].kind = "policy"
    BY <2>0 DEF FormInv, FormFits, BlankForm, OfRow
  <2>5. "kind" \in DOMAIN g /\ g.kind = "policy"
    BY <2>1, <2>4, PolicyFits, Zenon
  <2>6. forms' = [b \in FormAdmins |-> forms'[b]]
    BY <2>2, Zenon
  <2>7. \A b \in FormAdmins : FormFits(forms'[b], stored)
    BY <2>2, <2>5, OutdatedFits, Zenon DEF FormFits
  <2> QED
    BY <2>2, <2>3, <2>6, <2>7, Zenon DEF FormInv
<1> QED
  BY <1>1, <1>2, Zenon

\* The row a save writes.
LEMMA RowPatched ==
    ASSUME FormInv, NEW f, NEW rec
    PROVE  /\ DOMAIN PatchedWith(f, rec) = DOMAIN stored
           /\ PatchedWith(f, rec).record = rec
           /\ PatchedWith(f, rec).logo = parseLogoUpload(f.logo, stored.logo)
  BY Zenon DEF PatchedWith, FormInv

\* A save of the resource.
LEMMA ResourceSaved ==
    ASSUME FormInv, NEW a \in FormAdmins, handleSubmit(a)
    PROVE  FormInv'
<1>0. OfRow(forms[a], stored) /\ UNCHANGED capRec
  BY ResourceIsOfRow, Zenon DEF handleSubmit
<1>1. CASE InputAccepted(forms[a])
  <2>1. /\ stored' = PatchedWith(forms[a], capRec /\ forms[a].record)
        /\ forms' = [b \in FormAdmins |-> IF b = a THEN BlankForm ELSE Outdated(b)]
    BY <1>1, Zenon DEF handleSubmit, PatchedRow
  <2>2. submits' \in Nat
    BY <1>1 DEF handleSubmit, FormInv
  <2>3. PICK rec \in BOOLEAN : rec = (capRec /\ forms[a].record)
    BY Zenon
  <2>4. stored' = PatchedWith(forms[a], rec)
    BY <2>1, <2>3, Zenon
  <2>5. {"record", "logo"} \subseteq DOMAIN stored' /\ stored'.record \in BOOLEAN
    BY <2>4, RowPatched, Zenon DEF FormInv
  <2>6. forms' = [b \in FormAdmins |-> forms'[b]]
    BY <2>1, Zenon
  <2>7. \A b \in FormAdmins : FormFits(forms'[b], stored')
    BY <2>1, OutdatedFits, Zenon DEF FormFits
  <2> QED
    BY <1>0, <2>2, <2>5, <2>6, <2>7, Zenon DEF FormInv
<1>2. CASE ~InputAccepted(forms[a])
  <2>1. PICK g : g = With(forms[a], "error", TRUE)
    BY Zenon
  <2>2. forms' = [forms EXCEPT ![a] = g] /\ UNCHANGED <<stored, submits>>
    BY <1>2, <2>1, Zenon DEF handleSubmit, With
  <2>3. OfRow(g, stored)
    BY <1>0, <2>1, WithFits, Zenon
  <2> QED
    BY <1>0, <2>2, <2>3, FormReplaced, Zenon DEF FormFits, FormInv
<1> QED
  BY <1>1, <1>2, Zenon

\* The administrators the model lets edit are administrators.
LEMMA EditorsAreAdmins == Editing \subseteq FormAdmins
  BY FormAssumption, Zenon DEF Editing

\* The invariant holds at first, and every step keeps it.
LEMMA FormStart == FormInit => FormInv
<1> SUFFICES ASSUME FormInit PROVE FormInv
  BY Zenon
<1>1. forms = [a \in FormAdmins |-> BlankForm] /\ submits = 0
  BY Zenon DEF FormInit
<1>2. In("record", BOOLEAN, FALSE) \subseteq BOOLEAN /\ In("record", BOOLEAN, TRUE) \subseteq BOOLEAN
  BY Zenon DEF In
<1>3. capRec \in BOOLEAN
  BY <1>2, Zenon DEF FormInit
<1>5. {"record", "logo"} \subseteq DOMAIN stored /\ stored.record \in In("record", BOOLEAN, FALSE)
  BY Zenon DEF FormInit
<1>6. stored.record \in BOOLEAN
  BY <1>2, <1>5, Zenon
<1> QED
  BY <1>1, <1>3, <1>5, <1>6, Zenon DEF FormInv, FormFits

\* Every step of the forms keeps the invariant.
LEMMA FormStep == FormInv /\ [FormNext]_formVars => FormInv'
<1> SUFFICES ASSUME FormInv, [FormNext]_formVars PROVE FormInv'
  BY Zenon
<1>1. ASSUME UNCHANGED formVars PROVE FormInv'
  BY <1>1, Zenon DEF formVars, FormInv
<1>2. ASSUME NEW a \in Editing, OpenResource(a) \/ EditResource(a) \/ handleSubmit(a) PROVE FormInv'
  BY <1>2, EditorsAreAdmins, FormOpened, ResourceEdited, ResourceSaved, Zenon
<1>3. ASSUME NEW a \in Editing, OpenPolicy(a) \/ EditPolicy(a) \/ SavePolicy(a) \/ CloseForm(a) PROVE FormInv'
  BY <1>3, EditorsAreAdmins, FormOpened, PolicyEdited, PolicySaved, Zenon
<1> QED
  BY <1>1, <1>2, <1>3, PolicySaved, Zenon DEF FormNext

\* What a save of a form nothing has outdated does to the row.
Keeps(a) == SavesResource(a) /\ "record" \notin forms[a].touched /\ capRec => stored'.record = stored.record
ShowsLogo(a) == SavesResource(a) => stored'.logo = ShownLogo(forms[a])

\* A save of a form that is not outdated keeps the row's toggle unless it was
\* switched, and stores the logo the form shows.
LEMMA SaveMeans ==
    ASSUME FormInv, NEW a \in FormAdmins
    PROVE  Keeps(a) /\ ShowsLogo(a)
<1>1. SUFFICES ASSUME SavesResource(a)
      PROVE  /\ "record" \notin forms[a].touched /\ capRec => stored'.record = stored.record
             /\ stored'.logo = ShownLogo(forms[a])
  BY Zenon DEF Keeps, ShowsLogo
<1>2. handleSubmit(a) /\ submits' = submits + 1 /\ ~forms[a].stale
  BY <1>1, Zenon DEF SavesResource
<1>3. OfRow(forms[a], stored)
  BY <1>2, ResourceIsOfRow, Zenon DEF handleSubmit
<1>4. submits' # submits
  BY <1>2 DEF FormInv
<1>5. stored' = PatchedWith(forms[a], capRec /\ forms[a].record)
  BY <1>2, <1>4, Zenon DEF handleSubmit, PatchedRow
<1>6. PICK rec \in BOOLEAN : rec = (capRec /\ forms[a].record)
  BY Zenon
<1>7. stored' = PatchedWith(forms[a], rec)
  BY <1>5, <1>6, Zenon
<1>8. stored'.record = rec /\ stored'.logo = parseLogoUpload(forms[a].logo, stored.logo)
  BY <1>7, RowPatched, Zenon
<1>9. ASSUME "record" \notin forms[a].touched, capRec PROVE stored'.record = stored.record
  <2>1. forms[a].record = stored.record
    BY <1>2, <1>3, <1>9, Zenon DEF OfRow
  <2>2. rec = forms[a].record
    BY <1>3, <1>6, <1>9, Zenon DEF OfRow
  <2> QED
    BY <1>8, <2>1, <2>2, Zenon
<1>10. forms[a].hadLogo = stored.logo
  BY <1>2, <1>3, Zenon DEF OfRow
<1>11. stored'.logo = ShownLogo(forms[a])
  BY <1>8, <1>10, Zenon DEF parseLogoUpload, ShownLogo
<1> QED
  BY <1>9, <1>11, Zenon

\* A policy that locks the recording toggle never overwrites the resource's own
\* preference: whatever was opened, edited, saved or refused before, a save of a
\* form nothing has outdated keeps the stored toggle unless it was switched.
THEOREM LocksKeepPreference == FormSpec => LockKeepsPreference
<1>1. FormInit => FormInv
  BY FormStart, Zenon
<1>2. FormInv /\ [FormNext]_formVars => FormInv'
  BY FormStep, Zenon
<1>3. FormInv => [\A a \in FormAdmins : Keeps(a)]_formVars
  BY SaveMeans, Zenon
<1> QED
  BY <1>1, <1>2, <1>3, PTL DEF FormSpec, LockKeepsPreference, Keeps

\* The logo saved is the one the form showed, whatever was picked, removed or
\* was still being read, as long as nothing has outdated the form.
THEOREM LogosAreSavedAsShown == FormSpec => LogoShownIsSaved
<1>1. FormInit => FormInv
  BY FormStart, Zenon
<1>2. FormInv /\ [FormNext]_formVars => FormInv'
  BY FormStep, Zenon
<1>3. FormInv => [\A a \in FormAdmins : ShowsLogo(a)]_formVars
  BY SaveMeans, Zenon
<1> QED
  BY <1>1, <1>2, <1>3, PTL DEF FormSpec, LogoShownIsSaved, ShowsLogo

=============================================================================
