--------------------- MODULE ConnectorLifecycleProofs ---------------------
(* Proofs about ConnectorLifecycle, for any number of connectors, codes,     *)
(* requests, sessions and restarts, self-hosted and cloud alike.             *)
EXTENDS ConnectorLifecycle, TLAPS

(* Consuming a code keeps the table of pairings well formed.                 *)
LEMMA ConsumedRow ==
    ASSUME NEW f \in [Pairings -> PairingRow], NEW p \in Pairings
    PROVE  [f EXCEPT ![p].used = TRUE] \in [Pairings -> PairingRow]
  BY Zenon DEF PairingRow

(* Answering a redeem request keeps the requests well formed.                *)
LEMMA AnsweredRequest ==
    ASSUME NEW f \in [Redeems -> RedeemRequest], NEW r \in Redeems, NEW c \in Connectors
    PROVE  [f EXCEPT ![r] = [@ EXCEPT !.pc = "done", !.got = c]] \in [Redeems -> RedeemRequest]
  BY Zenon DEF RedeemRequest

(* Closing a session keeps the handlers well formed.                         *)
LEMMA ClosedHandler ==
    ASSUME NEW f \in [Sessions -> Handler], NEW s \in Sessions
    PROVE  [f EXCEPT ![s].open = FALSE] \in [Sessions -> Handler]
  BY Zenon DEF Handler

(* An authenticated handler is well formed.                                  *)
LEMMA AuthedHandler ==
    ASSUME NEW f \in [Sessions -> Handler], NEW s \in Sessions, NEW c \in Connectors,
           NEW t \in Redeems \cup {NoToken}
    PROVE  [f EXCEPT ![s] = [pc |-> "authed", conn |-> c, tok |-> t, open |-> TRUE]]
           \in [Sessions -> Handler]
  <1>1. [pc |-> "authed", conn |-> c, tok |-> t, open |-> TRUE] \in Handler
    BY Zenon DEF Handler
  <1> QED BY <1>1, Zenon

(* A handler that returned is well formed.                                   *)
LEMMA GoneHandler ==
    ASSUME NEW f \in [Sessions -> Handler], NEW s \in Sessions
    PROVE  [f EXCEPT ![s].pc = "gone"] \in [Sessions -> Handler]
  BY Zenon DEF Handler

(* A restart the bound allows stays within it.                               *)
LEMMA OneMoreCrash ==
    ASSUME NEW k \in 0..MaxCrashes, k < MaxCrashes PROVE k + 1 \in 0..MaxCrashes
  <1>1. MaxCrashes \in Nat
    BY LifecycleAssumption, Zenon
  <1> QED BY <1>1

(* A repair that created its code is still a request.                        *)
LEMMA PairedRequest ==
    ASSUME NEW x \in AdminRequest, NEW p \in Pairings, NEW pc \in {"paired", "done"}
    PROVE  [x EXCEPT !.p = p, !.pc = pc] \in AdminRequest
  BY Zenon DEF AdminRequest

(* A row bound to a connector is a pairing row.                              *)
LEMMA BoundPairingRow ==
    ASSUME NEW c \in Connectors PROVE BoundPairing(c) \in PairingRow
  BY Zenon DEF BoundPairing, NewPairing, PairingRow

(* What a step leaves alone stays named.                                     *)
LEMMA RedeemFrame == ASSUME RedeemNamed, redeem' = redeem PROVE RedeemNamed'
  BY Zenon DEF RedeemNamed

(* The same for handlers and reports.                                        *)
LEMMA HandlerFrame ==
    ASSUME HandlerNamed, session' = session, reports' = reports PROVE HandlerNamed'
  BY Zenon DEF HandlerNamed

(* The same for administrator requests.                                      *)
LEMMA RequestFrame == ASSUME RequestNamed, op' = op, kick' = kick PROVE RequestNamed'
  BY Zenon DEF RequestNamed

(* The steps of a pairing or redeem request keep the types.                  *)
LEMMA PairingNextType ==
    ASSUME TypeOK, PairingNext PROVE TypeOK'
  <1>1. ASSUME NEW p \in Pairings, CreatePairing(p) PROVE TypeOK'
    <2>1. pairing \in [Pairings -> PairingRow]
      BY Zenon DEF TypeOK, StateShape
    <2>2. pairing' \in [Pairings -> PairingRow]
      BY <1>1, <2>1, Zenon DEF CreatePairing, PairingRow
    <2>3. StateShape'
      BY <1>1, <2>2, Zenon DEF CreatePairing, TypeOK, StateShape
    <2> QED BY <1>1, <2>3, RedeemFrame, HandlerFrame, RequestFrame, Zenon
            DEF CreatePairing, TypeOK, NamesBound
  <1>2. ASSUME NEW p \in Pairings, PairingExpires(p) PROVE TypeOK'
    <2>1. pairing \in [Pairings -> PairingRow]
      BY Zenon DEF TypeOK, StateShape
    <2>2. pairing' \in [Pairings -> PairingRow]
      BY <1>2, <2>1, Zenon DEF PairingExpires, PairingRow
    <2>3. StateShape'
      BY <1>2, <2>2, Zenon DEF PairingExpires, TypeOK, StateShape
    <2> QED BY <1>2, <2>3, RedeemFrame, HandlerFrame, RequestFrame, Zenon
            DEF PairingExpires, TypeOK, NamesBound
  <1>3. ASSUME NEW p \in Pairings, DeletePairing(p) PROVE TypeOK'
    <2>1. pairing \in [Pairings -> PairingRow]
      BY Zenon DEF TypeOK, StateShape
    <2>2. pairing' \in [Pairings -> PairingRow]
      BY <1>3, <2>1, ZenonT(60) DEF DeletePairing, PairingRow
    <2>3. StateShape'
      BY <1>3, <2>2, Zenon DEF DeletePairing, TypeOK, StateShape
    <2> QED BY <1>3, <2>3, RedeemFrame, HandlerFrame, RequestFrame, Zenon
            DEF DeletePairing, TypeOK, NamesBound
  <1>4. ASSUME NEW r \in Redeems, RedeemRefetch(r) PROVE TypeOK'
    <2>1. redeem \in [Redeems -> RedeemRequest]
      BY Zenon DEF TypeOK, StateShape
    <2>2. redeem' \in [Redeems -> RedeemRequest]
      BY <1>4, <2>1 DEF RedeemRefetch, RedeemRequest
    <2>3. StateShape'
      BY <1>4, <2>2, Zenon DEF RedeemRefetch, TypeOK, StateShape
    <2>4. RedeemNamed'
      BY <1>4, <2>1, <2>2 DEF RedeemRefetch, RedeemNamed, RedeemRequest, TypeOK, NamesBound
    <2> QED BY <1>4, <2>3, <2>4, HandlerFrame, RequestFrame, Zenon
            DEF RedeemRefetch, TypeOK, NamesBound
  <1>5. ASSUME NEW r \in Redeems, RedeemRotate(r) PROVE TypeOK'
    <2>1. /\ pairing \in [Pairings -> PairingRow]
          /\ redeem \in [Redeems -> RedeemRequest]
          /\ status \in [Connectors -> Rows \cup {"NEW", "DELETED"}]
          /\ tokenOf \in [Connectors -> Redeems \cup {NoToken}]
      BY Zenon DEF TypeOK, StateShape
    <2>2. redeem[r].p \in Pairings
      BY <1>5, Zenon DEF RedeemRotate, ReadyToFinish, TypeOK, NamesBound, RedeemNamed
    <2>3. pairing[redeem[r].p].target \in Connectors
      BY <1>5, <2>1, <2>2, Zenon DEF RedeemRotate, PairingRow
    <2>4. pairing' \in [Pairings -> PairingRow]
      BY <1>5, <2>1, <2>2, <2>3, ConsumedRow, Zenon DEF RedeemRotate
    <2>5. redeem' \in [Redeems -> RedeemRequest]
      BY <1>5, <2>1, <2>2, <2>3, AnsweredRequest, Zenon DEF RedeemRotate
    <2>6. status' \in [Connectors -> Rows \cup {"NEW", "DELETED"}]
      BY <1>5, <2>1, <2>2, <2>3, Zenon DEF RedeemRotate, Live, Rows
    <2>7. tokenOf' \in [Connectors -> Redeems \cup {NoToken}]
      BY <1>5, <2>1, <2>2, <2>3, Zenon DEF RedeemRotate
    <2>8. StateShape'
      BY <1>5, <2>4, <2>5, <2>6, <2>7, Zenon DEF RedeemRotate, TypeOK, StateShape
    <2>9. RedeemNamed'
      BY <1>5, <2>1, <2>2, <2>3, <2>5, Zenon DEF RedeemRotate, RedeemNamed, RedeemRequest, TypeOK, NamesBound
    <2> QED BY <1>5, <2>8, <2>9, HandlerFrame, RequestFrame, Zenon
            DEF RedeemRotate, TypeOK, NamesBound
  <1>6. ASSUME NEW r \in Redeems, RedeemRefused(r) PROVE TypeOK'
    <2>1. pairing \in [Pairings -> PairingRow] /\ redeem \in [Redeems -> RedeemRequest]
      BY Zenon DEF TypeOK, StateShape
    <2>2. redeem[r].p \in Pairings
      BY <1>6, Zenon DEF RedeemRefused, ReadyToFinish, TypeOK, NamesBound, RedeemNamed
    <2>3. pairing' \in [Pairings -> PairingRow]
      BY <1>6, <2>1, <2>2, ConsumedRow, Zenon DEF RedeemRefused
    <2>4. redeem' \in [Redeems -> RedeemRequest]
      BY <1>6, <2>1, <2>2 DEF RedeemRefused, RedeemRequest
    <2>5. StateShape'
      BY <1>6, <2>3, <2>4, Zenon DEF RedeemRefused, TypeOK, StateShape
    <2>6. RedeemNamed'
      BY <1>6, <2>1, <2>2, <2>4 DEF RedeemRefused, RedeemNamed, RedeemRequest, TypeOK, NamesBound
    <2> QED BY <1>6, <2>5, <2>6, HandlerFrame, RequestFrame, Zenon
            DEF RedeemRefused, TypeOK, NamesBound
  <1>7. ASSUME NEW r \in Redeems, AgentStoresToken(r) PROVE TypeOK'
    <2>1. StateShape'
      BY <1>7, Zenon DEF AgentStoresToken, TypeOK, StateShape
    <2> QED BY <1>7, <2>1, RedeemFrame, HandlerFrame, RequestFrame, Zenon
            DEF AgentStoresToken, TypeOK, NamesBound
  <1>8. ASSUME NEW r \in Redeems, NEW p \in Pairings, RedeemScan(r, p) PROVE TypeOK'
    <2>1. redeem \in [Redeems -> RedeemRequest]
      BY Zenon DEF TypeOK, StateShape
    <2>2. redeem' \in [Redeems -> RedeemRequest]
      BY <1>8, <2>1, Zenon DEF RedeemScan, RedeemRequest
    <2>3. StateShape'
      BY <1>8, <2>2, Zenon DEF RedeemScan, TypeOK, StateShape
    <2>4. RedeemNamed'
      BY <1>8, <2>1, <2>2 DEF RedeemScan, RedeemNamed, RedeemRequest, TypeOK, NamesBound
    <2> QED BY <1>8, <2>3, <2>4, HandlerFrame, RequestFrame, Zenon
            DEF RedeemScan, TypeOK, NamesBound
  <1>9. ASSUME NEW r \in Redeems, NEW c \in Connectors, RedeemCreate(r, c) PROVE TypeOK'
    <2>1. /\ pairing \in [Pairings -> PairingRow]
          /\ redeem \in [Redeems -> RedeemRequest]
          /\ status \in [Connectors -> Rows \cup {"NEW", "DELETED"}]
          /\ tokenOf \in [Connectors -> Redeems \cup {NoToken}]
      BY Zenon DEF TypeOK, StateShape
    <2>2. redeem[r].p \in Pairings
      BY <1>9, Zenon DEF RedeemCreate, ReadyToFinish, TypeOK, NamesBound, RedeemNamed
    <2>3. pairing' \in [Pairings -> PairingRow]
      BY <1>9, <2>1, <2>2, ConsumedRow, Zenon DEF RedeemCreate
    <2>4. redeem' \in [Redeems -> RedeemRequest]
      BY <1>9, <2>1, <2>2, AnsweredRequest, Zenon DEF RedeemCreate
    <2>5. status' \in [Connectors -> Rows \cup {"NEW", "DELETED"}]
      BY <1>9, <2>1, <2>2, Zenon DEF RedeemCreate, Live, Rows
    <2>6. tokenOf' \in [Connectors -> Redeems \cup {NoToken}]
      BY <1>9, <2>1, <2>2, Zenon DEF RedeemCreate
    <2>7. StateShape'
      BY <1>9, <2>3, <2>4, <2>5, <2>6, Zenon DEF RedeemCreate, TypeOK, StateShape
    <2>8. RedeemNamed'
      BY <1>9, <2>1, <2>2, <2>4 DEF RedeemCreate, RedeemNamed, RedeemRequest, TypeOK, NamesBound
    <2> QED BY <1>9, <2>7, <2>8, HandlerFrame, RequestFrame, Zenon
            DEF RedeemCreate, TypeOK, NamesBound
  <1> QED
    BY <1>1, <1>2, <1>3, <1>4, <1>5, <1>6, <1>7, <1>8, <1>9, Zenon DEF PairingNext

(* The steps of the tunnel handlers and of the data plane keep the types.    *)
LEMMA TunnelNextType ==
    ASSUME TypeOK, TunnelNext PROVE TypeOK'
  <1>1. ASSUME NEW s \in Sessions, NEW c \in Connectors, NEW t \in Redeems, TunnelAuth(s, c, t) PROVE TypeOK'
    <2>1. session \in [Sessions -> Handler] /\ missed \in [AdminOps -> SUBSET Sessions]
      BY Zenon DEF TypeOK, StateShape
    <2>2. session' \in [Sessions -> Handler]
      BY <1>1, <2>1, Zenon DEF TunnelAuth, Authed, Handler
    <2>3. missed' \in [AdminOps -> SUBSET Sessions]
      BY <1>1, <2>1, Zenon DEF TunnelAuth, Authed
    <2>4. StateShape'
      BY <1>1, <2>2, <2>3, Zenon DEF TunnelAuth, Authed, TypeOK, StateShape
    <2>5. HandlerNamed'
      BY <1>1, <2>1, <2>2, Zenon DEF TunnelAuth, Authed, HandlerNamed, Handler, TypeOK, NamesBound
    <2> QED BY <1>1, <2>4, <2>5, RedeemFrame, RequestFrame, Zenon
            DEF TunnelAuth, Authed, TypeOK, NamesBound
  <1>2. ASSUME NEW s \in Sessions, NEW c \in Connectors, NEW t \in Redeems, TunnelMatch(s, c, t) PROVE TypeOK'
    <2>1. session \in [Sessions -> Handler]
      BY Zenon DEF TypeOK, StateShape
    <2>2. session' \in [Sessions -> Handler]
      BY <1>2, <2>1, Zenon DEF TunnelMatch, Handler
    <2>3. StateShape'
      BY <1>2, <2>2, Zenon DEF TunnelMatch, TypeOK, StateShape
    <2>4. HandlerNamed'
      BY <1>2, <2>1, <2>2, Zenon DEF TunnelMatch, HandlerNamed, Handler, TypeOK, NamesBound
    <2> QED BY <1>2, <2>3, <2>4, RedeemFrame, RequestFrame, Zenon
            DEF TunnelMatch, TypeOK, NamesBound
  <1>3. ASSUME NEW s \in Sessions, TunnelStatusCheck(s) PROVE TypeOK'
    <2>1. session \in [Sessions -> Handler] /\ missed \in [AdminOps -> SUBSET Sessions]
      BY Zenon DEF TypeOK, StateShape
    <2>2. session[s].conn \in Connectors
      BY <1>3, Zenon DEF TunnelStatusCheck, TypeOK, NamesBound, HandlerNamed
    <2>3. session[s].tok \in Redeems \cup {NoToken}
      BY <2>1, <2>2, Zenon DEF Handler
    <2>4. session' \in [Sessions -> Handler]
      BY <1>3, <2>1, <2>2, <2>3, AuthedHandler, GoneHandler DEF TunnelStatusCheck, Authed
    <2>5. missed' \in [AdminOps -> SUBSET Sessions]
      BY <1>3, <2>1, <2>2, <2>3 DEF TunnelStatusCheck, Authed
    <2>6. StateShape'
      BY <1>3, <2>4, <2>5, Zenon DEF TunnelStatusCheck, Authed, TypeOK, StateShape
    <2>7. HandlerNamed'
      BY <1>3, <2>1, <2>2, <2>3, <2>4 DEF TunnelStatusCheck, Authed, HandlerNamed, Handler, TypeOK, NamesBound
    <2> QED BY <1>3, <2>6, <2>7, RedeemFrame, RequestFrame, Zenon
            DEF TunnelStatusCheck, Authed, TypeOK, NamesBound
  <1>4. ASSUME NEW s \in Sessions, TunnelRegister(s) PROVE TypeOK'
    <2>1. /\ session \in [Sessions -> Handler]
          /\ registry \in [Connectors -> Sessions \cup {NoSession}]
          /\ reports \in SUBSET (Sessions \X {"ONLINE", "OFFLINE"})
      BY Zenon DEF TypeOK, StateShape
    <2>2. session[s].conn \in Connectors
      BY <1>4, Zenon DEF TunnelRegister, TypeOK, NamesBound, HandlerNamed
    <2>3. [session[s] EXCEPT !.pc = "registered"] \in Handler
      BY <2>1, <2>2, Zenon DEF Handler
    <2>4. \A u \in Sessions : [session[u] EXCEPT !.open = FALSE] \in Handler
      BY <2>1, <2>2, <2>3, Zenon DEF Handler
    <2>5. session' \in [Sessions -> Handler]
      BY <1>4, <2>1, <2>2, <2>3, <2>4, Zenon DEF TunnelRegister
    <2>6. registry' \in [Connectors -> Sessions \cup {NoSession}]
      BY <1>4, <2>1, <2>2, <2>3, <2>4, Zenon DEF TunnelRegister
    <2>7. reports' \in SUBSET (Sessions \X {"ONLINE", "OFFLINE"})
      BY <1>4, <2>1, <2>2, <2>3, <2>4 DEF TunnelRegister
    <2>8. StateShape'
      BY <1>4, <2>5, <2>6, <2>7, Zenon DEF TunnelRegister, TypeOK, StateShape
    <2>9. HandlerNamed'
      BY <1>4, <2>1, <2>2, <2>3, <2>4, <2>5, <2>7 DEF TunnelRegister, HandlerNamed, Handler, TypeOK, NamesBound
    <2> QED BY <1>4, <2>8, <2>9, RedeemFrame, RequestFrame, Zenon
            DEF TunnelRegister, TypeOK, NamesBound
  <1>5. ASSUME NEW s \in Sessions, TunnelUpgradeFails(s) PROVE TypeOK'
    <2>1. session \in [Sessions -> Handler]
      BY Zenon DEF TypeOK, StateShape
    <2>2. session' \in [Sessions -> Handler]
      BY <1>5, <2>1, Zenon DEF TunnelUpgradeFails, Handler
    <2>3. StateShape'
      BY <1>5, <2>2, Zenon DEF TunnelUpgradeFails, TypeOK, StateShape
    <2>4. HandlerNamed'
      BY <1>5, <2>1, <2>2 DEF TunnelUpgradeFails, HandlerNamed, Handler, TypeOK, NamesBound
    <2> QED BY <1>5, <2>3, <2>4, RedeemFrame, RequestFrame, Zenon
            DEF TunnelUpgradeFails, TypeOK, NamesBound
  <1>6. ASSUME NEW s \in Sessions, TunnelServe(s) PROVE TypeOK'
    <2>1. session \in [Sessions -> Handler]
      BY Zenon DEF TypeOK, StateShape
    <2>2. session' \in [Sessions -> Handler]
      BY <1>6, <2>1, Zenon DEF TunnelServe, Handler
    <2>3. StateShape'
      BY <1>6, <2>2, Zenon DEF TunnelServe, TypeOK, StateShape
    <2>4. HandlerNamed'
      BY <1>6, <2>1, <2>2 DEF TunnelServe, HandlerNamed, Handler, TypeOK, NamesBound
    <2> QED BY <1>6, <2>3, <2>4, RedeemFrame, RequestFrame, Zenon
            DEF TunnelServe, TypeOK, NamesBound
  <1>7. ASSUME NEW s \in Sessions, TunnelDrops(s) PROVE TypeOK'
    <2>1. session \in [Sessions -> Handler]
      BY Zenon DEF TypeOK, StateShape
    <2>2. session' \in [Sessions -> Handler]
      BY <1>7, <2>1, ClosedHandler, Zenon DEF TunnelDrops
    <2>3. StateShape'
      BY <1>7, <2>2, Zenon DEF TunnelDrops, TypeOK, StateShape
    <2>4. HandlerNamed'
      BY <1>7, <2>1, <2>2 DEF TunnelDrops, HandlerNamed, Handler, TypeOK, NamesBound
    <2> QED BY <1>7, <2>3, <2>4, RedeemFrame, RequestFrame, Zenon
            DEF TunnelDrops, TypeOK, NamesBound
  <1>8. ASSUME NEW s \in Sessions, TunnelCleanup(s) PROVE TypeOK'
    <2>1. /\ session \in [Sessions -> Handler]
          /\ registry \in [Connectors -> Sessions \cup {NoSession}]
          /\ reports \in SUBSET (Sessions \X {"ONLINE", "OFFLINE"})
      BY Zenon DEF TypeOK, StateShape
    <2>2. session[s].conn \in Connectors
      BY <1>8, Zenon DEF TunnelCleanup, TypeOK, NamesBound, HandlerNamed
    <2>3. session' \in [Sessions -> Handler]
      BY <1>8, <2>1, <2>2 DEF TunnelCleanup, Handler
    <2>4. registry' \in [Connectors -> Sessions \cup {NoSession}]
      BY <1>8, <2>1, <2>2, Zenon DEF TunnelCleanup
    <2>5. reports' \in SUBSET (Sessions \X {"ONLINE", "OFFLINE"})
      BY <1>8, <2>1, <2>2 DEF TunnelCleanup
    <2>6. StateShape'
      BY <1>8, <2>3, <2>4, <2>5, Zenon DEF TunnelCleanup, TypeOK, StateShape
    <2>7. HandlerNamed'
      BY <1>8, <2>1, <2>2, <2>3, <2>5 DEF TunnelCleanup, HandlerNamed, Handler, TypeOK, NamesBound
    <2> QED BY <1>8, <2>6, <2>7, RedeemFrame, RequestFrame, Zenon
            DEF TunnelCleanup, TypeOK, NamesBound
  <1>9. ASSUME NEW s \in Sessions, NEW st \in {"ONLINE", "OFFLINE"}, ApplyReport(s, st) PROVE TypeOK'
    <2>1. /\ status \in [Connectors -> Rows \cup {"NEW", "DELETED"}]
          /\ reports \in SUBSET (Sessions \X {"ONLINE", "OFFLINE"})
      BY Zenon DEF TypeOK, StateShape
    <2>2. status' \in [Connectors -> Rows \cup {"NEW", "DELETED"}]
      BY <1>9, <2>1, Zenon DEF ApplyReport, Live, Rows
    <2>3. reports' \in SUBSET (Sessions \X {"ONLINE", "OFFLINE"})
      BY <1>9, <2>1, Zenon DEF ApplyReport
    <2>4. StateShape'
      BY <1>9, <2>2, <2>3, Zenon DEF ApplyReport, TypeOK, StateShape
    <2>5. HandlerNamed'
      BY <1>9, <2>1, <2>3, Zenon DEF ApplyReport, HandlerNamed, TypeOK, NamesBound
    <2> QED BY <1>9, <2>4, <2>5, RedeemFrame, RequestFrame, Zenon
            DEF ApplyReport, TypeOK, NamesBound
  <1>10. ASSUME NEW s \in Sessions, NEW st \in {"ONLINE", "OFFLINE"}, LoseReport(s, st) PROVE TypeOK'
    <2>1. reports \in SUBSET (Sessions \X {"ONLINE", "OFFLINE"})
      BY Zenon DEF TypeOK, StateShape
    <2>2. reports' \in SUBSET (Sessions \X {"ONLINE", "OFFLINE"})
      BY <1>10, <2>1, Zenon DEF LoseReport
    <2>3. StateShape'
      BY <1>10, <2>2, Zenon DEF LoseReport, TypeOK, StateShape
    <2>4. HandlerNamed'
      BY <1>10, <2>1, <2>2, Zenon DEF LoseReport, HandlerNamed, TypeOK, NamesBound
    <2> QED BY <1>10, <2>3, <2>4, RedeemFrame, RequestFrame, Zenon
            DEF LoseReport, TypeOK, NamesBound
  <1>11. ASSUME DataplaneRestarts PROVE TypeOK'
    <2>1. /\ session \in [Sessions -> Handler]
          /\ registry \in [Connectors -> Sessions \cup {NoSession}]
          /\ kick \in [AdminOps -> KickState]
      BY Zenon DEF TypeOK, StateShape
    <2>2. crashes' \in 0..MaxCrashes
      BY <1>11, OneMoreCrash, Zenon DEF DataplaneRestarts, TypeOK, StateShape
    <2>3. \A s \in Sessions : [session[s] EXCEPT !.pc = "gone", !.open = FALSE] \in Handler
      BY <2>1, <2>2, Zenon DEF Handler
    <2>4. \A s \in Sessions : /\ session'[s].conn = session[s].conn
                              /\ session'[s].pc \in {session[s].pc, "gone"}
      BY <1>11, <2>1, <2>2, <2>3, Zenon DEF DataplaneRestarts, Handler
    <2>5. session' \in [Sessions -> Handler]
      BY <1>11, <2>1, <2>2, <2>3, <2>4, Zenon DEF DataplaneRestarts
    <2>6. registry' \in [Connectors -> Sessions \cup {NoSession}]
      BY <1>11, <2>1, <2>2, <2>3, <2>4, Zenon DEF DataplaneRestarts
    <2>7. kick' \in [AdminOps -> KickState]
      BY <1>11, <2>1, <2>2, <2>3, <2>4, Zenon DEF DataplaneRestarts, KickState
    <2>8. StateShape'
      BY <1>11, <2>1, <2>2, <2>3, <2>4, <2>5, <2>6, <2>7, Zenon DEF DataplaneRestarts, TypeOK, StateShape
    <2>9. HandlerNamed'
      BY <1>11, <2>1, <2>2, <2>3, <2>4, Zenon DEF DataplaneRestarts, HandlerNamed, TypeOK, NamesBound
    <2>10. RequestNamed'
      BY <1>11, <2>1, <2>2, <2>3, <2>4, <2>7, Zenon DEF DataplaneRestarts, RequestNamed, KickState, TypeOK, NamesBound
    <2> QED BY <1>11, <2>8, <2>9, <2>10, RedeemFrame, Zenon
            DEF DataplaneRestarts, TypeOK, NamesBound
  <1> QED
    BY <1>1, <1>2, <1>3, <1>4, <1>5, <1>6, <1>7, <1>8, <1>9, <1>10, <1>11, Zenon DEF TunnelNext

(* The steps of administrator requests and of their kicks keep the types.    *)
LEMMA AdminNextType ==
    ASSUME TypeOK, AdminNext PROVE TypeOK'
  <1>1. ASSUME NEW o \in AdminOps, NEW c \in Connectors, Revoke(o, c) PROVE TypeOK'
    <2>1. /\ op \in [AdminOps -> AdminRequest]
          /\ kick \in [AdminOps -> KickState]
          /\ status \in [Connectors -> Rows \cup {"NEW", "DELETED"}]
      BY Zenon DEF TypeOK, StateShape
    <2>2. op' \in [AdminOps -> AdminRequest]
      BY <1>1, <2>1, Zenon DEF Revoke, NewOp, AdminRequest
    <2>3. kick' \in [AdminOps -> KickState]
      BY <1>1, <2>1, Zenon DEF Revoke, NewOp, KickState
    <2>4. status' \in [Connectors -> Rows \cup {"NEW", "DELETED"}]
      BY <1>1, <2>1, Zenon DEF Revoke, NewOp, Live, Rows
    <2>5. StateShape'
      BY <1>1, <2>2, <2>3, <2>4, Zenon DEF Revoke, NewOp, TypeOK, StateShape
    <2>6. RequestNamed'
      BY <1>1, <2>1, <2>2, <2>3 DEF Revoke, NewOp, RequestNamed, AdminRequest, KickState, TypeOK, NamesBound
    <2> QED BY <1>1, <2>5, <2>6, RedeemFrame, HandlerFrame, Zenon
            DEF Revoke, NewOp, TypeOK, NamesBound
  <1>2. ASSUME NEW o \in AdminOps, NEW c \in Connectors, DeleteCheck(o, c) PROVE TypeOK'
    <2>1. op \in [AdminOps -> AdminRequest]
      BY Zenon DEF TypeOK, StateShape
    <2>2. op' \in [AdminOps -> AdminRequest]
      BY <1>2, <2>1, Zenon DEF DeleteCheck, NewOp, AdminRequest
    <2>3. StateShape'
      BY <1>2, <2>2, Zenon DEF DeleteCheck, NewOp, TypeOK, StateShape
    <2>4. RequestNamed'
      BY <1>2, <2>1, <2>2 DEF DeleteCheck, NewOp, RequestNamed, AdminRequest, TypeOK, NamesBound
    <2> QED BY <1>2, <2>3, <2>4, RedeemFrame, HandlerFrame, Zenon
            DEF DeleteCheck, NewOp, TypeOK, NamesBound
  <1>3. ASSUME NEW o \in AdminOps, NEW c \in Connectors, NEW inval \in RepairModes, RepairCheck(o, c, inval) PROVE TypeOK'
    <2>1. op \in [AdminOps -> AdminRequest]
      BY Zenon DEF TypeOK, StateShape
    <2>2. inval \in BOOLEAN
      BY <1>3, LifecycleAssumption, Zenon
    <2>3. op' \in [AdminOps -> AdminRequest]
      BY <1>3, <2>1, <2>2, Zenon DEF RepairCheck, NewOp, AdminRequest
    <2>4. StateShape'
      BY <1>3, <2>3, Zenon DEF RepairCheck, NewOp, TypeOK, StateShape
    <2>5. RequestNamed'
      BY <1>3, <2>1, <2>2, <2>3 DEF RepairCheck, NewOp, RequestNamed, AdminRequest, TypeOK, NamesBound
    <2> QED BY <1>3, <2>4, <2>5, RedeemFrame, HandlerFrame, Zenon
            DEF RepairCheck, NewOp, TypeOK, NamesBound
  <1>4. ASSUME NEW o \in AdminOps, NEW p \in Pairings, RepairPair(o, p) PROVE TypeOK'
    <2>1. op \in [AdminOps -> AdminRequest] /\ pairing \in [Pairings -> PairingRow]
      BY Zenon DEF TypeOK, StateShape
    <2>2. op[o].conn \in Connectors
      BY <1>4, Zenon DEF RepairPair, TypeOK, NamesBound, RequestNamed
    <2>3. (IF op[o].inval THEN "paired" ELSE "done") \in {"paired", "done"}
      BY Zenon
    <2>4. [op[o] EXCEPT !.p = p, !.pc = IF op[o].inval THEN "paired" ELSE "done"] \in AdminRequest
      BY <2>1, <2>2, <2>3, PairedRequest, Zenon
    <2>5. op' \in [AdminOps -> AdminRequest]
      BY <1>4, <2>1, <2>2, <2>3, <2>4, Zenon DEF RepairPair
    <2>6. pairing' \in [Pairings -> PairingRow]
      BY <1>4, <2>1, <2>2, <2>3, <2>4, BoundPairingRow, Zenon DEF RepairPair
    <2>7. StateShape'
      BY <1>4, <2>5, <2>6, Zenon DEF RepairPair, TypeOK, StateShape
    <2>8. RequestNamed'
      BY <1>4, <2>1, <2>2, <2>3, <2>4, <2>5 DEF RepairPair, RequestNamed, AdminRequest, TypeOK, NamesBound
    <2> QED BY <1>4, <2>7, <2>8, RedeemFrame, HandlerFrame, Zenon
            DEF RepairPair, TypeOK, NamesBound
  <1>5. ASSUME NEW o \in AdminOps, RepairInvalidate(o) PROVE TypeOK'
    <2>1. /\ op \in [AdminOps -> AdminRequest]
          /\ kick \in [AdminOps -> KickState]
          /\ status \in [Connectors -> Rows \cup {"NEW", "DELETED"}]
          /\ tokenOf \in [Connectors -> Redeems \cup {NoToken}]
      BY Zenon DEF TypeOK, StateShape
    <2>2. op[o].conn \in Connectors
      BY <1>5, Zenon DEF RepairInvalidate, TypeOK, NamesBound, RequestNamed
    <2>3. op' \in [AdminOps -> AdminRequest]
      BY <1>5, <2>1, <2>2 DEF RepairInvalidate, Written, AdminRequest
    <2>4. kick' \in [AdminOps -> KickState]
      BY <1>5, <2>1, <2>2, Zenon DEF RepairInvalidate, Written, KickState
    <2>5. status' \in [Connectors -> Rows \cup {"NEW", "DELETED"}]
      BY <1>5, <2>1, <2>2, Zenon DEF RepairInvalidate, Written, Live, Rows
    <2>6. tokenOf' \in [Connectors -> Redeems \cup {NoToken}]
      BY <1>5, <2>1, <2>2, Zenon DEF RepairInvalidate, Written
    <2>7. StateShape'
      BY <1>5, <2>3, <2>4, <2>5, <2>6, Zenon DEF RepairInvalidate, Written, TypeOK, StateShape
    <2>8. RequestNamed'
      BY <1>5, <2>1, <2>2, <2>3, <2>4 DEF RepairInvalidate, Written, RequestNamed, AdminRequest, KickState, TypeOK, NamesBound
    <2> QED BY <1>5, <2>7, <2>8, RedeemFrame, HandlerFrame, Zenon
            DEF RepairInvalidate, Written, TypeOK, NamesBound
  <1>6. ASSUME NEW o \in AdminOps, KickClose(o) PROVE TypeOK'
    <2>1. kick \in [AdminOps -> KickState] /\ session \in [Sessions -> Handler]
      BY Zenon DEF TypeOK, StateShape
    <2>2. op[o].conn \in Connectors
      BY <1>6, Zenon DEF KickClose, TypeOK, NamesBound, RequestNamed
    <2>3. registry[op[o].conn] \in Sessions \cup {NoSession}
      BY <2>1, <2>2, Zenon DEF TypeOK, StateShape
    <2>4. \A u \in Sessions : session'[u].conn = session[u].conn /\ session'[u].pc = session[u].pc
      BY <1>6, <2>1, <2>2, <2>3, Zenon DEF KickClose, Handler
    <2>5. kick' \in [AdminOps -> KickState]
      BY <1>6, <2>1, <2>2, <2>3, <2>4, Zenon DEF KickClose, KickState
    <2>6. session' \in [Sessions -> Handler]
      BY <1>6, <2>1, <2>2, <2>3, <2>4, ClosedHandler, Zenon DEF KickClose
    <2>7. StateShape'
      BY <1>6, <2>5, <2>6, Zenon DEF KickClose, TypeOK, StateShape
    <2>8. RequestNamed'
      BY <1>6, <2>1, <2>2, <2>3, <2>4, <2>5, Zenon DEF KickClose, RequestNamed, KickState, TypeOK, NamesBound
    <2>9. HandlerNamed'
      BY <1>6, <2>1, <2>2, <2>3, <2>4, Zenon DEF KickClose, HandlerNamed, TypeOK, NamesBound
    <2> QED BY <1>6, <2>7, <2>8, <2>9, RedeemFrame, Zenon
            DEF KickClose, TypeOK, NamesBound
  <1>7. ASSUME NEW o \in AdminOps, KickRemove(o) PROVE TypeOK'
    <2>1. /\ kick \in [AdminOps -> KickState]
          /\ registry \in [Connectors -> Sessions \cup {NoSession}]
          /\ missed \in [AdminOps -> SUBSET Sessions]
      BY Zenon DEF TypeOK, StateShape
    <2>2. op[o].conn \in Connectors
      BY <1>7, Zenon DEF KickRemove, TypeOK, NamesBound, RequestNamed
    <2>3. kick' \in [AdminOps -> KickState]
      BY <1>7, <2>1, <2>2, Zenon DEF KickRemove, KickState
    <2>4. registry' \in [Connectors -> Sessions \cup {NoSession}]
      BY <1>7, <2>1, <2>2, Zenon DEF KickRemove
    <2>5. missed' \in [AdminOps -> SUBSET Sessions]
      BY <1>7, <2>1, <2>2, Zenon DEF KickRemove
    <2>6. StateShape'
      BY <1>7, <2>3, <2>4, <2>5, Zenon DEF KickRemove, TypeOK, StateShape
    <2>7. RequestNamed'
      BY <1>7, <2>1, <2>2, <2>3, Zenon DEF KickRemove, RequestNamed, KickState, TypeOK, NamesBound
    <2> QED BY <1>7, <2>6, <2>7, RedeemFrame, HandlerFrame, Zenon
            DEF KickRemove, TypeOK, NamesBound
  <1>8. ASSUME NEW o \in AdminOps, KickLost(o) PROVE TypeOK'
    <2>1. kick \in [AdminOps -> KickState]
      BY Zenon DEF TypeOK, StateShape
    <2>2. kick' \in [AdminOps -> KickState]
      BY <1>8, <2>1, Zenon DEF KickLost, KickState
    <2>3. StateShape'
      BY <1>8, <2>2, Zenon DEF KickLost, TypeOK, StateShape
    <2>4. RequestNamed'
      BY <1>8, <2>1, <2>2, Zenon DEF KickLost, RequestNamed, KickState, TypeOK, NamesBound
    <2> QED BY <1>8, <2>3, <2>4, RedeemFrame, HandlerFrame, Zenon
            DEF KickLost, TypeOK, NamesBound
  <1>9. ASSUME NEW o \in AdminOps, KickReturns(o) PROVE TypeOK'
    <2>1. /\ op \in [AdminOps -> AdminRequest]
          /\ status \in [Connectors -> Rows \cup {"NEW", "DELETED"}]
          /\ tokenOf \in [Connectors -> Redeems \cup {NoToken}]
          /\ pairing \in [Pairings -> PairingRow]
      BY Zenon DEF TypeOK, StateShape
    <2>2. op[o].conn \in Connectors
      BY <1>9, Zenon DEF KickReturns, TypeOK, NamesBound, RequestNamed
    <2>3. op[o].kind = "repair" => op[o].p \in Pairings
      BY <1>9, Zenon DEF KickReturns, TypeOK, NamesBound, RequestNamed
    <2>4. op' \in [AdminOps -> AdminRequest]
      BY <1>9, <2>1, <2>2, <2>3 DEF KickReturns, Written, AdminRequest
    <2>5. status' \in [Connectors -> Rows \cup {"NEW", "DELETED"}]
      BY <1>9, <2>1, <2>2, <2>3, Zenon DEF KickReturns, Written, Live, Rows
    <2>6. tokenOf' \in [Connectors -> Redeems \cup {NoToken}]
      BY <1>9, <2>1, <2>2, <2>3, Zenon DEF KickReturns, Written
    <2>7. pairing' \in [Pairings -> PairingRow]
      BY <1>9, <2>1, <2>2, <2>3, BoundPairingRow, Zenon DEF KickReturns
    <2>8. StateShape'
      BY <1>9, <2>4, <2>5, <2>6, <2>7, Zenon DEF KickReturns, Written, TypeOK, StateShape
    <2>9. RequestNamed'
      BY <1>9, <2>1, <2>2, <2>3, <2>4 DEF KickReturns, Written, RequestNamed, AdminRequest, TypeOK, NamesBound
    <2> QED BY <1>9, <2>8, <2>9, RedeemFrame, HandlerFrame, Zenon
            DEF KickReturns, Written, TypeOK, NamesBound
  <1>10. ASSUME NEW o \in AdminOps, RequestFails(o) PROVE TypeOK'
    <2>1. op \in [AdminOps -> AdminRequest]
      BY Zenon DEF TypeOK, StateShape
    <2>2. op' \in [AdminOps -> AdminRequest]
      BY <1>10, <2>1 DEF RequestFails, AdminRequest
    <2>3. StateShape'
      BY <1>10, <2>2, Zenon DEF RequestFails, TypeOK, StateShape
    <2>4. RequestNamed'
      BY <1>10, <2>1, <2>2 DEF RequestFails, RequestNamed, AdminRequest, TypeOK, NamesBound
    <2> QED BY <1>10, <2>3, <2>4, RedeemFrame, HandlerFrame, Zenon
            DEF RequestFails, TypeOK, NamesBound
  <1>11. ASSUME NEW o \in AdminOps, DeleteRow(o) PROVE TypeOK'
    <2>1. /\ op \in [AdminOps -> AdminRequest]
          /\ status \in [Connectors -> Rows \cup {"NEW", "DELETED"}]
          /\ tokenOf \in [Connectors -> Redeems \cup {NoToken}]
          /\ pairing \in [Pairings -> PairingRow]
      BY Zenon DEF TypeOK, StateShape
    <2>2. op[o].conn \in Connectors
      BY <1>11, Zenon DEF DeleteRow, TypeOK, NamesBound, RequestNamed
    <2>3. op' \in [AdminOps -> AdminRequest]
      BY <1>11, <2>1, <2>2 DEF DeleteRow, AdminRequest
    <2>4. status' \in [Connectors -> Rows \cup {"NEW", "DELETED"}]
      BY <1>11, <2>1, <2>2, Zenon DEF DeleteRow, Live, Rows
    <2>5. tokenOf' \in [Connectors -> Redeems \cup {NoToken}]
      BY <1>11, <2>1, <2>2, Zenon DEF DeleteRow
    <2>6. pairing' \in [Pairings -> PairingRow]
      BY <1>11, <2>1, <2>2 DEF DeleteRow, PairingRow
    <2>7. StateShape'
      BY <1>11, <2>3, <2>4, <2>5, <2>6, Zenon DEF DeleteRow, TypeOK, StateShape
    <2>8. RequestNamed'
      BY <1>11, <2>1, <2>2, <2>3 DEF DeleteRow, RequestNamed, AdminRequest, TypeOK, NamesBound
    <2> QED BY <1>11, <2>7, <2>8, RedeemFrame, HandlerFrame, Zenon
            DEF DeleteRow, TypeOK, NamesBound
  <1>12. ASSUME NEW c \in Connectors, CreateSite(c) PROVE TypeOK'
    <2>1. StateShape'
      BY <1>12, Zenon DEF CreateSite, TypeOK, StateShape
    <2> QED BY <1>12, <2>1, RedeemFrame, HandlerFrame, RequestFrame, Zenon
            DEF CreateSite, TypeOK, NamesBound
  <1>13. ASSUME NEW c \in Connectors, DeleteSite(c) PROVE TypeOK'
    <2>1. StateShape'
      BY <1>13, Zenon DEF DeleteSite, TypeOK, StateShape
    <2> QED BY <1>13, <2>1, RedeemFrame, HandlerFrame, RequestFrame, Zenon
            DEF DeleteSite, TypeOK, NamesBound
  <1> QED
    BY <1>1, <1>2, <1>3, <1>4, <1>5, <1>6, <1>7, <1>8, <1>9, <1>10, <1>11, <1>12, <1>13, Zenon DEF AdminNext

(* A state the program starts in has the types.                              *)
LEMMA InitType == Init => TypeOK
  <1> SUFFICES ASSUME Init PROVE TypeOK
    BY Zenon
  <1>1. /\ NewPairing \in PairingRow /\ NewRedeem \in RedeemRequest
        /\ NewSession \in Handler /\ NewOp \in AdminRequest
    BY Zenon DEF NewPairing, NewRedeem, NewSession, NewOp, PairingRow, RedeemRequest, Handler,
           AdminRequest
  <1>2. 0 \in 0..MaxCrashes
    BY LifecycleAssumption
  <1>3. StateShape
    BY <1>1, <1>2, Zenon DEF Init, StateShape, KickState, Rows
  <1>4. NamesBound
    BY Zenon DEF Init, NamesBound, RedeemNamed, HandlerNamed, RequestNamed, NewRedeem, NewSession, NewOp
  <1> QED BY <1>3, <1>4, Zenon DEF TypeOK

(* One step of anything keeps the types.                                     *)
LEMMA NextType == TypeOK /\ [Next]_vars => TypeOK'
  <1> SUFFICES ASSUME TypeOK, [Next]_vars PROVE TypeOK'
    BY Zenon
  <1>1. CASE UNCHANGED vars
    BY <1>1, Zenon DEF vars, TypeOK, StateShape, NamesBound, RedeemNamed, HandlerNamed, RequestNamed
  <1> QED BY <1>1, PairingNextType, TunnelNextType, AdminNextType, Zenon DEF Next

(* Rows, handlers and requests keep their shapes, and every one that is past *)
(* its lookup names what it works on, in every behaviour of the code.        *)
THEOREM TypeCorrect == Spec => []TypeOK
  BY InitType, NextType, PTL DEF Spec

----------------------------------------------------------------------------
(* The registry *)

(* A redeem or pairing step leaves the data plane and the requests alone.    *)
LEMMA PairingFrame ==
    ASSUME PairingNext PROVE UNCHANGED <<session, registry, op, kick, missed>>
  BY Zenon DEF PairingNext, CreatePairing, PairingExpires, DeletePairing, RedeemRefetch, RedeemRotate,
         RedeemRefused, AgentStoresToken, RedeemScan, RedeemCreate

(* The tunnel side leaves codes, redemptions and requests alone.             *)
LEMMA TunnelFrame ==
    ASSUME TunnelNext PROVE UNCHANGED <<pairing, redeem, op>>
  <1>1. ASSUME NEW s \in Sessions, NEW c \in Connectors, NEW t \in Redeems,
               TunnelAuth(s, c, t) \/ TunnelMatch(s, c, t)
        PROVE  UNCHANGED <<pairing, redeem, op>>
    BY <1>1, Zenon DEF TunnelAuth, TunnelMatch
  <1>2. ASSUME NEW s \in Sessions, TunnelStatusCheck(s) \/ TunnelRegister(s)
                                   \/ TunnelUpgradeFails(s) \/ TunnelServe(s)
        PROVE  UNCHANGED <<pairing, redeem, op>>
    BY <1>2, Zenon DEF TunnelStatusCheck, TunnelRegister, TunnelUpgradeFails, TunnelServe
  <1>3. ASSUME NEW s \in Sessions, TunnelDrops(s) \/ TunnelCleanup(s)
        PROVE  UNCHANGED <<pairing, redeem, op>>
    BY <1>3, Zenon DEF TunnelDrops, TunnelCleanup
  <1>4. ASSUME NEW s \in Sessions, NEW st \in {"ONLINE", "OFFLINE"},
               ApplyReport(s, st) \/ LoseReport(s, st)
        PROVE  UNCHANGED <<pairing, redeem, op>>
    BY <1>4, Zenon DEF ApplyReport, LoseReport
  <1>5. CASE DataplaneRestarts
    BY <1>5, Zenon DEF DataplaneRestarts
  <1> QED BY <1>1, <1>2, <1>3, <1>4, <1>5, Zenon DEF TunnelNext

(* An administrator step other than a kick leaves the data plane alone.      *)
LEMMA AdminFrame ==
    ASSUME AdminNext,
           ~ \E o \in AdminOps : KickClose(o) \/ KickRemove(o)
    PROVE  UNCHANGED <<session, registry, missed>>
  BY Zenon DEF AdminNext, Revoke, DeleteCheck, RepairCheck, RepairPair, RepairInvalidate, KickLost,
         KickReturns, RequestFails, DeleteRow, CreateSite, DeleteSite

(* One step of anything keeps every registry entry with its handler.  A      *)
(* handler that is not registered cannot be an entry, so replacing it        *)
(* disturbs nothing; the cleanup of a registered one removes its own entry.  *)
LEMMA RegistryStep ==
    ASSUME TypeOK, RegistryEntryHasHandler, [Next]_vars
    PROVE  RegistryEntryHasHandler'
  <1>t. /\ session \in [Sessions -> Handler]
        /\ registry \in [Connectors -> Sessions \cup {NoSession}]
        /\ op \in [AdminOps -> AdminRequest]
    BY Zenon DEF TypeOK, StateShape
  <1> USE <1>t DEF RegistryEntryHasHandler
  <1>1. ASSUME UNCHANGED <<session, registry>> PROVE RegistryEntryHasHandler'
    BY <1>1, Zenon
  <1>2. ASSUME NEW s \in Sessions, session[s].pc \notin {"registered", "serving"},
               \A u \in Sessions \ {s} : session'[u] = session[u], UNCHANGED registry
        PROVE  RegistryEntryHasHandler'
    BY <1>2
  <1>3. ASSUME NEW s \in Sessions, session[s].pc \in {"registered", "serving"},
               \A u \in Sessions : session'[u].conn = session[u].conn,
               \A u \in Sessions : session'[u].pc = session[u].pc
                                   \/ (u = s /\ session'[u].pc = "serving"),
               UNCHANGED registry
        PROVE  RegistryEntryHasHandler'
    BY <1>3, Zenon
  <1>4. ASSUME NEW s \in Sessions, TunnelRegister(s) PROVE RegistryEntryHasHandler'
    <2>1. session[s].conn \in Connectors
      BY <1>4, Zenon DEF TunnelRegister, TypeOK, NamesBound, RedeemNamed, HandlerNamed, RequestNamed
    <2>2. session'[s].pc = "registered" /\ session'[s].conn = session[s].conn
      BY <1>4 DEF TunnelRegister, Handler
    <2>3. \A u \in Sessions \ {s} : session'[u].pc = session[u].pc
                                   /\ session'[u].conn = session[u].conn
      BY <1>4 DEF TunnelRegister, Handler
    <2>4. registry' = [registry EXCEPT ![session[s].conn] = s] /\ session[s].pc = "authed"
      BY <1>4, Zenon DEF TunnelRegister
    <2> QED BY <2>1, <2>2, <2>3, <2>4
  <1>5. ASSUME NEW s \in Sessions, TunnelCleanup(s) PROVE RegistryEntryHasHandler'
    <2>1. session[s].conn \in Connectors
      BY <1>5, Zenon DEF TunnelCleanup, TypeOK, NamesBound, RedeemNamed, HandlerNamed, RequestNamed
    <2>2. \A u \in Sessions \ {s} : session'[u] = session[u]
      BY <1>5, Zenon DEF TunnelCleanup
    <2>3. \A c \in Connectors : registry'[c] \in {registry[c], NoSession} /\ registry'[c] # s
      BY <1>5, <2>1, LifecycleAssumption, Zenon DEF TunnelCleanup
    <2> QED BY <2>2, <2>3
  <1>6. ASSUME NEW o \in AdminOps, KickClose(o) PROVE RegistryEntryHasHandler'
    <2>1. \A u \in Sessions : session'[u].pc = session[u].pc
                             /\ session'[u].conn = session[u].conn
      BY <1>6 DEF KickClose, Handler
    <2> QED BY <1>6, <2>1 DEF KickClose
  <1>7. ASSUME NEW o \in AdminOps, KickRemove(o) PROVE RegistryEntryHasHandler'
    BY <1>7, Zenon DEF KickRemove
  <1>8. ASSUME DataplaneRestarts PROVE RegistryEntryHasHandler'
    BY <1>8, Zenon DEF DataplaneRestarts
  <1>9. ASSUME NEW s \in Sessions, NEW c \in Connectors, NEW t \in Redeems,
               TunnelAuth(s, c, t) \/ TunnelMatch(s, c, t)
        PROVE  RegistryEntryHasHandler'
    BY <1>2, <1>9, Zenon DEF TunnelAuth, TunnelMatch, Authed
  <1>10. ASSUME NEW s \in Sessions, TunnelStatusCheck(s) \/ TunnelUpgradeFails(s)
         PROVE  RegistryEntryHasHandler'
    BY <1>2, <1>10, Zenon DEF TunnelStatusCheck, TunnelUpgradeFails, Authed
  <1>11. ASSUME NEW s \in Sessions, TunnelServe(s) \/ TunnelDrops(s)
         PROVE  RegistryEntryHasHandler'
    <2>1. CASE TunnelServe(s)
      BY <1>3, <2>1 DEF TunnelServe, Handler
    <2>2. CASE TunnelDrops(s)
      <3>1. \A u \in Sessions : session'[u].pc = session[u].pc
                               /\ session'[u].conn = session[u].conn
        BY <2>2 DEF TunnelDrops, Handler
      <3> QED BY <2>2, <3>1 DEF TunnelDrops
    <2> QED BY <1>11, <2>1, <2>2, Zenon
  <1>12. CASE TunnelNext
    BY <1>1, <1>4, <1>5, <1>8, <1>9, <1>10, <1>11, <1>12, Zenon
       DEF TunnelNext, ApplyReport, LoseReport
  <1>13. CASE AdminNext
    BY <1>1, <1>6, <1>7, <1>13, AdminFrame, Zenon
  <1>14. CASE PairingNext
    BY <1>1, <1>14, PairingFrame, Zenon
  <1>15. CASE UNCHANGED vars
    BY <1>1, <1>15, Zenon DEF vars
  <1> QED BY <1>12, <1>13, <1>14, <1>15, Zenon DEF Next

(* The registry never leaks an entry, and never names a handler of another   *)
(* connector (Registry.Set, RemoveIfSame and /kick's Remove, interleaved).   *)
THEOREM RegistrySound == Spec => []RegistryEntryHasHandler
  <1>1. Init => RegistryEntryHasHandler
    BY Zenon DEF Init, RegistryEntryHasHandler
  <1>2. TypeOK /\ RegistryEntryHasHandler /\ [Next]_vars => RegistryEntryHasHandler'
    BY RegistryStep, Zenon
  <1> QED BY <1>1, <1>2, TypeCorrect, PTL DEF Spec

----------------------------------------------------------------------------
(* Revocation *)

(* With no invalidating repair under way, no step takes a connector out of   *)
(* REVOKED or DELETED: a redeem and a report write only over a live status,  *)
(* and a new row is created only over an id never used.                      *)
LEMMA FinalStays ==
    ASSUME TypeOK, RevokeInv, [Next]_vars, NEW c \in Connectors, status[c] \in Final
    PROVE  status'[c] \in Final
  <1>t. status \in [Connectors -> Rows \cup {"NEW", "DELETED"}]
    BY Zenon DEF TypeOK, StateShape
  <1> USE <1>t DEF Final
  <1>1. CASE UNCHANGED status
    BY <1>1, Zenon
  <1>2. ASSUME NEW r \in Redeems, RedeemRotate(r) PROVE status'[c] \in Final
    BY <1>2, Zenon DEF RedeemRotate, Live
  <1>3. ASSUME NEW r \in Redeems, NEW d \in Connectors, RedeemCreate(r, d)
        PROVE  status'[c] \in Final
    BY <1>3, Zenon DEF RedeemCreate
  <1>4. ASSUME NEW s \in Sessions, NEW st \in {"ONLINE", "OFFLINE"}, ApplyReport(s, st)
        PROVE  status'[c] \in Final
    BY <1>4, Zenon DEF ApplyReport, Live
  <1>5. ASSUME NEW o \in AdminOps, NEW d \in Connectors, Revoke(o, d)
        PROVE  status'[c] \in Final
    BY <1>5, Zenon DEF Revoke
  <1>6. ASSUME NEW o \in AdminOps, RepairInvalidate(o) PROVE status'[c] \in Final
    BY <1>6, Zenon DEF RepairInvalidate, RevokeInv
  <1>7. ASSUME NEW o \in AdminOps, KickReturns(o) PROVE status'[c] \in Final
    <2>1. op[o].kind = "revoke"
      BY <1>7, Zenon DEF KickReturns, RevokeInv
    <2> QED BY <1>7, <2>1, Zenon DEF KickReturns, Written
  <1>8. ASSUME NEW o \in AdminOps, DeleteRow(o) PROVE status'[c] \in Final
    BY <1>8, Zenon DEF DeleteRow
  <1>9. CASE PairingNext
    BY <1>1, <1>2, <1>3, <1>9, Zenon
       DEF PairingNext, CreatePairing, PairingExpires, DeletePairing, RedeemRefetch,
           RedeemRefused, AgentStoresToken, RedeemScan
  <1>10. CASE TunnelNext
    BY <1>1, <1>4, <1>10, Zenon
       DEF TunnelNext, TunnelAuth, TunnelMatch, TunnelStatusCheck, TunnelRegister,
           TunnelUpgradeFails, TunnelServe, TunnelDrops, TunnelCleanup, LoseReport,
           DataplaneRestarts
  <1>11. CASE AdminNext
    BY <1>1, <1>5, <1>6, <1>7, <1>8, <1>11, Zenon
       DEF AdminNext, DeleteCheck, RepairCheck, RepairPair, KickClose, KickRemove, KickLost,
           RequestFails, CreateSite, DeleteSite
  <1> QED BY <1>1, <1>9, <1>10, <1>11, Zenon DEF Next, vars

(* One step of anything keeps RevokeInv, when no repair asks for             *)
(* invalidateNow: the row a request checked can only have been deleted since. *)
LEMMA RevokeStep ==
    ASSUME TRUE \notin RepairModes, TypeOK, RevokeInv, [Next]_vars
    PROVE  RevokeInv'
  <1>t. /\ status \in [Connectors -> Rows \cup {"NEW", "DELETED"}]
        /\ op \in [AdminOps -> AdminRequest]
    BY Zenon DEF TypeOK, StateShape
  <1> USE <1>t DEF RevokeInv
  <1>1. \A c \in Connectors : status[c] \in Final => status'[c] \in Final
    BY FinalStays, Zenon
  <1>2. \A o \in AdminOps : op[o].pc # "idle" => op[o].conn \in Connectors
    BY Zenon DEF TypeOK, NamesBound, RedeemNamed, HandlerNamed, RequestNamed
  <1>3. \A o \in AdminOps : op[o].pc = "idle" <=> op[o].kind = "none"
    BY Zenon DEF TypeOK, NamesBound, RedeemNamed, HandlerNamed, RequestNamed
  <1>4. CASE UNCHANGED op
    BY <1>1, <1>2, <1>3, <1>4, Zenon
  <1>5. ASSUME NEW o \in AdminOps, NEW c \in Connectors, Revoke(o, c) PROVE RevokeInv'
    <2>1. op'[o].kind = "revoke" /\ op'[o].pc = "kicking" /\ op'[o].conn = c
      BY <1>5, Zenon DEF Revoke, NewOp
    <2>2. \A q \in AdminOps \ {o} : op'[q] = op[q]
      BY <1>5, Zenon DEF Revoke
    <2>3. ~MultiTenant => status'[c] \in Final
      BY <1>5, Zenon DEF Revoke, Final
    <2> QED BY <1>1, <1>2, <1>3, <2>1, <2>2, <2>3
  <1>6. ASSUME NEW o \in AdminOps, NEW c \in Connectors, DeleteCheck(o, c) PROVE RevokeInv'
    <2>1. op'[o].kind = "delete" /\ op'[o].pc = "checked" /\ op'[o].conn = c
      BY <1>6, Zenon DEF DeleteCheck, NewOp
    <2>2. \A q \in AdminOps \ {o} : op'[q] = op[q]
      BY <1>6, Zenon DEF DeleteCheck
    <2>3. status'[c] \in Final
      BY <1>1, <1>6, Zenon DEF DeleteCheck, Final
    <2> QED BY <1>1, <1>2, <1>3, <2>1, <2>2, <2>3
  <1>7. ASSUME NEW o \in AdminOps, NEW c \in Connectors, NEW inval \in RepairModes,
               RepairCheck(o, c, inval)
        PROVE  RevokeInv'
    <2>1. op'[o].kind = "repair" /\ op'[o].pc = "checked" /\ op'[o].inval = inval
      BY <1>7, Zenon DEF RepairCheck, NewOp
    <2>2. \A q \in AdminOps \ {o} : op'[q] = op[q]
      BY <1>7, Zenon DEF RepairCheck
    <2>3. ~inval
      BY <1>7, LifecycleAssumption, Zenon
    <2> QED BY <1>1, <1>2, <1>3, <2>1, <2>2, <2>3, ZenonT(60)
  <1>8. ASSUME NEW o \in AdminOps, op[o].pc # "idle",
               op' = [op EXCEPT ![o].pc = "failed"]
               \/ (op' = [op EXCEPT ![o].pc = "done"] /\ op[o].kind # "revoke")
        PROVE  RevokeInv'
    <2>1. /\ op'[o].kind = op[o].kind /\ op'[o].conn = op[o].conn
          /\ op'[o].inval = op[o].inval /\ op'[o].pc \in {"failed", "done"}
          /\ op'[o].pc = "done" => op[o].kind # "revoke"
      BY <1>8 DEF AdminRequest
    <2>2. \A q \in AdminOps \ {o} : op'[q] = op[q]
      BY <1>8, Zenon
    <2> QED BY <1>1, <1>2, <1>3, <1>8, <2>1, <2>2
  <1>9. ASSUME NEW o \in AdminOps, NEW p \in Pairings, RepairPair(o, p) PROVE RevokeInv'
    <2>1. /\ op'[o].kind = "repair" /\ op'[o].conn = op[o].conn
          /\ op'[o].inval = op[o].inval /\ op'[o].pc = "done"
      BY <1>9, Zenon DEF RepairPair, AdminRequest
    <2>2. \A q \in AdminOps \ {o} : op'[q] = op[q]
      BY <1>9, Zenon DEF RepairPair
    <2> QED BY <1>1, <1>2, <1>3, <1>9, <2>1, <2>2, Zenon DEF RepairPair
  <1>10. ASSUME NEW o \in AdminOps, KickReturns(o) PROVE RevokeInv'
    <2>1. /\ op'[o].kind = "revoke" /\ op'[o].conn = op[o].conn /\ op'[o].pc = "done"
          /\ op[o].conn \in Connectors
      BY <1>2, <1>10, Zenon DEF KickReturns, AdminRequest
    <2>2. \A q \in AdminOps \ {o} : op'[q] = op[q]
      BY <1>10, Zenon DEF KickReturns
    <2>3. status'[op[o].conn] \in Final
      BY <1>1, <1>10, <2>1, Zenon DEF KickReturns, Written, Final
    <2> QED BY <1>1, <1>2, <1>3, <2>1, <2>2, <2>3
  <1>11. CASE AdminNext
    <2>1. ASSUME NEW o \in AdminOps, RequestFails(o) \/ DeleteRow(o) PROVE RevokeInv'
      BY <1>8, <2>1, Zenon DEF RequestFails, DeleteRow
    <2>2. ASSUME NEW o \in AdminOps, RepairInvalidate(o) PROVE RevokeInv'
      BY <2>2, Zenon DEF RepairInvalidate
    <2> QED BY <1>4, <1>5, <1>6, <1>7, <1>9, <1>10, <1>11, <2>1, <2>2, Zenon
            DEF AdminNext, KickClose, KickRemove, KickLost, CreateSite, DeleteSite
  <1>12. CASE TunnelNext
    BY <1>4, <1>12, Zenon
       DEF TunnelNext, TunnelAuth, TunnelMatch, TunnelStatusCheck, TunnelRegister,
           TunnelUpgradeFails, TunnelServe, TunnelDrops, TunnelCleanup, ApplyReport,
           LoseReport, DataplaneRestarts
  <1>13. CASE PairingNext
    BY <1>4, <1>13, PairingFrame, Zenon
  <1>14. CASE UNCHANGED vars
    BY <1>4, <1>14, Zenon DEF vars
  <1> QED BY <1>11, <1>12, <1>13, <1>14, Zenon DEF Next

(* As long as administrators re-pair without invalidateNow, RevokeInv holds. *)
LEMMA RevokeInvariant == ASSUME TRUE \notin RepairModes PROVE Spec => []RevokeInv
  <1>1. Init => RevokeInv
    BY DEF Init, RevokeInv, NewOp
  <1>2. TypeOK /\ RevokeInv /\ [Next]_vars => RevokeInv'
    BY RevokeStep, Zenon
  <1> QED BY <1>1, <1>2, TypeCorrect, PTL DEF Spec

(* Revocation is final in both deployments, however redeems, reports, kicks  *)
(* and deletes interleave, as long as no re-pair asks for invalidateNow      *)
(* (which revoked_resurrected shows is the one thing that undoes it).        *)
THEOREM RevocationFinal ==
    ASSUME TRUE \notin RepairModes PROVE Spec => RevokedIsFinal
  <1>1. TypeOK /\ RevokeInv /\ [Next]_vars
        => [\A c \in Connectors : status[c] = "REVOKED" => status'[c] \in {"REVOKED", "DELETED"}]_vars
    BY FinalStays, Zenon DEF Final
  <1> QED BY <1>1, TypeCorrect, RevokeInvariant, PTL DEF Spec, RevokedIsFinal

(* One step of anything keeps MissedInv.  A handler authenticates only while *)
(* the connector is live, which after a self-hosted revocation, or a         *)
(* committed cloud one, it is not; between a cloud kick and its commit the   *)
(* handler is recorded as missed.                                            *)
LEMMA MissedStep ==
    ASSUME TypeOK, RevokeInv, MissedInv, [Next]_vars
    PROVE  MissedInv'
  <1>t. /\ session \in [Sessions -> Handler]
        /\ registry \in [Connectors -> Sessions \cup {NoSession}]
        /\ op \in [AdminOps -> AdminRequest]
        /\ kick \in [AdminOps -> KickState]
        /\ missed \in [AdminOps -> SUBSET Sessions]
    BY Zenon DEF TypeOK, StateShape
  <1> USE <1>t DEF MissedInv
  <1>1. \A o \in AdminOps : op[o].pc # "idle" => op[o].conn \in Connectors
    BY Zenon DEF TypeOK, NamesBound, RedeemNamed, HandlerNamed, RequestNamed
  <1>2. \A o \in AdminOps : kick[o] # "none" => op[o].pc # "idle"
    BY Zenon DEF TypeOK, NamesBound, RedeemNamed, HandlerNamed, RequestNamed
  <1>3. CASE UNCHANGED <<session, registry, op, kick, missed>>
    BY <1>3, Zenon
  <1>4. ASSUME NEW s \in Sessions, NEW c \in Connectors, NEW t,
               Authed(s, c, t), status[c] \in Live, UNCHANGED <<registry, op, kick>>
        PROVE  MissedInv'
    <2>1. \A o \in AdminOps : op[o].kind = "revoke" /\ op[o].conn = c
                              /\ op[o].pc \in {"kicking", "done"} /\ kick[o] = "done"
                              => o \in Unseen(c)
      BY <1>4, Zenon DEF RevokeInv, Unseen, Live, Final
    <2>2. \A o \in AdminOps : missed[o] \subseteq missed'[o]
                              /\ (o \in Unseen(c) => s \in missed'[o])
      BY <1>4, Zenon DEF Authed
    <2>3. session'[s].conn = c /\ \A u \in Sessions \ {s} : session'[u] = session[u]
      BY <1>4, Zenon DEF Authed
    <2> QED BY <1>4, <2>1, <2>2, <2>3, Zenon
  <1>5. ASSUME NEW s \in Sessions, UNCHANGED <<registry, op, kick, missed>>,
               session'[s].pc # "authed", \A u \in Sessions \ {s} : session'[u] = session[u]
        PROVE  MissedInv'
    BY <1>5, Zenon
  <1>6. ASSUME NEW s \in Sessions, TunnelRegister(s) PROVE MissedInv'
    <2>1. session[s].pc = "authed" /\ session[s].conn \in Connectors
          /\ registry' = [registry EXCEPT ![session[s].conn] = s]
          /\ UNCHANGED <<op, kick, missed>>
      BY <1>6, Zenon DEF TunnelRegister, TypeOK, NamesBound, RedeemNamed, HandlerNamed, RequestNamed
    <2>2. \A u \in Sessions : session'[u].conn = session[u].conn
                             /\ (session'[u].pc = "authed" => session[u].pc = "authed")
      BY <1>6, Zenon DEF TunnelRegister, Handler
    <2> QED BY <1>1, <2>1, <2>2, Zenon
  <1>7. ASSUME NEW s \in Sessions, TunnelCleanup(s) PROVE MissedInv'
    <2>1. \A u \in Sessions : session'[u].conn = session[u].conn
                             /\ (session'[u].pc = "authed" => session[u].pc = "authed")
      BY <1>7, Zenon DEF TunnelCleanup, Handler
    <2>2. \A c \in Connectors : registry'[c] \in {registry[c], NoSession}
      BY <1>7, Zenon DEF TunnelCleanup
    <2> QED BY <1>1, <1>7, <2>1, <2>2, ZenonT(60) DEF TunnelCleanup
  <1>8. CASE DataplaneRestarts
    <2>1. \A u \in Sessions : session'[u].pc # "authed"
      BY <1>8, Zenon DEF DataplaneRestarts, Handler
    <2>2. \A o \in AdminOps : kick'[o] = "done" => kick[o] = "done"
      BY <1>8, Zenon DEF DataplaneRestarts
    <2> QED BY <1>1, <1>8, <2>1, <2>2, Zenon DEF DataplaneRestarts
  <1>9. ASSUME NEW o \in AdminOps, KickClose(o) PROVE MissedInv'
    <2>1. \A u \in Sessions : session'[u].pc = session[u].pc
                             /\ session'[u].conn = session[u].conn
      BY <1>9 DEF KickClose, Handler
    <2>2. \A q \in AdminOps : kick'[q] = "done" => kick[q] = "done"
      BY <1>9, Zenon DEF KickClose
    <2> QED BY <1>9, <2>1, <2>2 DEF KickClose
  <1>10. ASSUME NEW o \in AdminOps, KickRemove(o) PROVE MissedInv'
    <2>1. op[o].conn \in Connectors
      BY <1>1, <1>2, <1>10, Zenon DEF KickRemove
    <2>2. missed'[o] = {s \in Sessions : session[s].pc = "authed" /\ session[s].conn = op[o].conn}
          /\ registry'[op[o].conn] = NoSession
      BY <1>10, <2>1, Zenon DEF KickRemove
    <2>3. \A q \in AdminOps \ {o} : missed'[q] = missed[q] /\ kick'[q] = kick[q]
      BY <1>10, Zenon DEF KickRemove
    <2>4. \A c \in Connectors : registry'[c] \in {registry[c], NoSession}
      BY <1>10, Zenon DEF KickRemove
    <2>5. UNCHANGED <<op, session>>
      BY <1>10, Zenon DEF KickRemove
    <2>6. SUFFICES ASSUME NEW q \in AdminOps, op[q].kind = "revoke",
                          op[q].pc \in {"kicking", "done"}, kick'[q] = "done"
                   PROVE  /\ registry'[op[q].conn] \in missed'[q] \cup {NoSession}
                          /\ \A s \in Sessions : (session[s].pc = "authed" /\ session[s].conn = op[q].conn)
                                                  => s \in missed'[q]
      BY <2>5, Zenon
    <2>7. CASE q = o
      BY <2>2, <2>7, Zenon
    <2>8. CASE q # o
      <3>1. op[q].conn \in Connectors /\ kick[q] = "done" /\ missed'[q] = missed[q]
        BY <1>1, <2>3, <2>6, <2>8, Zenon
      <3>2. registry'[op[q].conn] \in {registry[op[q].conn], NoSession}
        BY <2>4, <3>1, Zenon
      <3> QED BY <2>6, <3>1, <3>2, Zenon
    <2> QED BY <2>7, <2>8, Zenon
  <1>11. ASSUME UNCHANGED <<session, registry, missed>>,
                \A o \in AdminOps :
                   (op'[o].kind = "revoke" /\ op'[o].pc \in {"kicking", "done"} /\ kick'[o] = "done")
                   => /\ op[o].kind = "revoke" /\ op[o].pc \in {"kicking", "done"}
                      /\ kick[o] = "done" /\ op'[o].conn = op[o].conn
         PROVE  MissedInv'
    BY <1>11, Zenon
  <1>12. ASSUME NEW o \in AdminOps, NEW c \in Connectors, Revoke(o, c) PROVE MissedInv'
    BY <1>11, <1>12, Zenon DEF Revoke
  <1>13. ASSUME NEW o \in AdminOps, NEW c \in Connectors, NEW inval,
                DeleteCheck(o, c) \/ RepairCheck(o, c, inval)
         PROVE  MissedInv'
    <2>1. op'[o].kind # "revoke"
      <3>1. CASE DeleteCheck(o, c)
        BY <3>1, Zenon DEF DeleteCheck, NewOp
      <3>2. CASE RepairCheck(o, c, inval)
        BY <3>2, Zenon DEF RepairCheck, NewOp
      <3> QED BY <1>13, <3>1, <3>2, Zenon
    <2>2. \A q \in AdminOps \ {o} : op'[q] = op[q]
      BY <1>13, Zenon DEF DeleteCheck, RepairCheck
    <2>3. UNCHANGED <<session, registry, missed, kick>>
      BY <1>13, Zenon DEF DeleteCheck, RepairCheck
    <2> QED BY <1>11, <2>1, <2>2, <2>3, Zenon
  <1>14. ASSUME NEW o \in AdminOps, KickLost(o) PROVE MissedInv'
    BY <1>11, <1>14, Zenon DEF KickLost
  <1>15. ASSUME NEW o \in AdminOps, NEW p \in Pairings, RepairPair(o, p) PROVE MissedInv'
    <2>1. op'[o].kind = "repair" /\ \A q \in AdminOps \ {o} : op'[q] = op[q]
      BY <1>15, Zenon DEF RepairPair, AdminRequest
    <2> QED BY <1>11, <1>15, <2>1, Zenon DEF RepairPair
  <1>16. ASSUME NEW o \in AdminOps, RequestFails(o) \/ DeleteRow(o) \/ KickReturns(o)
         PROVE  MissedInv'
    <2>1. /\ op' \in {[op EXCEPT ![o].pc = "done"], [op EXCEPT ![o].pc = "failed"]}
          /\ op[o].kind = "revoke" /\ op'[o].pc = "done" => op[o].pc = "kicking"
      <3>1. CASE RequestFails(o)
        BY <3>1, Zenon DEF RequestFails, AdminRequest
      <3>2. CASE DeleteRow(o)
        BY <3>2, Zenon DEF DeleteRow
      <3>3. CASE KickReturns(o)
        BY <3>3, Zenon DEF KickReturns
      <3> QED BY <1>16, <3>1, <3>2, <3>3, Zenon
    <2>2. UNCHANGED <<session, registry, missed, kick>>
      BY <1>16, Zenon DEF RequestFails, DeleteRow, KickReturns
    <2>3. /\ op'[o].kind = op[o].kind /\ op'[o].conn = op[o].conn
          /\ op'[o].pc \in {"done", "failed"}
          /\ \A q \in AdminOps \ {o} : op'[q] = op[q]
      BY <2>1 DEF AdminRequest
    <2>4. ASSUME NEW q \in AdminOps, op'[q].kind = "revoke", op'[q].pc \in {"kicking", "done"},
                 kick'[q] = "done"
          PROVE  /\ op[q].kind = "revoke" /\ op[q].pc \in {"kicking", "done"}
                 /\ kick[q] = "done" /\ op'[q].conn = op[q].conn
      BY <2>1, <2>2, <2>3, <2>4, Zenon
    <2> QED BY <1>11, <2>2, <2>4, Zenon
  <1>17. CASE PairingNext
    BY <1>3, <1>17, PairingFrame, Zenon
  <1>18. CASE TunnelNext
    <2>1. ASSUME NEW s \in Sessions, NEW c \in Connectors, NEW t \in Redeems,
                 TunnelAuth(s, c, t) \/ TunnelMatch(s, c, t)
          PROVE  MissedInv'
      <3>1. CASE TunnelAuth(s, c, t)
        <4>1. Authed(s, c, t) /\ status[c] \in Live /\ UNCHANGED <<registry, op, kick>>
          BY <3>1, Zenon DEF TunnelAuth
        <4> QED BY <1>4, <4>1, Zenon
      <3>2. CASE TunnelMatch(s, c, t)
        <4>1. /\ UNCHANGED <<registry, op, kick, missed>> /\ session'[s].pc # "authed"
              /\ \A u \in Sessions \ {s} : session'[u] = session[u]
          BY <3>2, Zenon DEF TunnelMatch
        <4> QED BY <1>5, <4>1, Zenon
      <3> QED BY <2>1, <3>1, <3>2, Zenon
    <2>2. ASSUME NEW s \in Sessions, TunnelStatusCheck(s) PROVE MissedInv'
      <3>1. session[s].conn \in Connectors
        BY <2>2, Zenon DEF TunnelStatusCheck, TypeOK, NamesBound, RedeemNamed, HandlerNamed, RequestNamed
      <3>2. CASE status[session[s].conn] \in Live
        BY <1>4, <2>2, <3>1, <3>2, Zenon DEF TunnelStatusCheck
      <3>3. CASE status[session[s].conn] \notin Live
        BY <1>5, <2>2, <3>3 DEF TunnelStatusCheck, Handler
      <3> QED BY <3>2, <3>3, Zenon
    <2>3. ASSUME NEW s \in Sessions, TunnelUpgradeFails(s) \/ TunnelServe(s) \/ TunnelDrops(s)
          PROVE  MissedInv'
      <3>1. session'[s].pc # "authed"
        <4>1. CASE TunnelUpgradeFails(s)
          BY <4>1, Zenon DEF TunnelUpgradeFails, Handler
        <4>2. CASE TunnelServe(s)
          BY <4>2, Zenon DEF TunnelServe, Handler
        <4>3. CASE TunnelDrops(s)
          BY <4>3, Zenon DEF TunnelDrops, Handler
        <4> QED BY <2>3, <4>1, <4>2, <4>3, Zenon
      <3>2. \A u \in Sessions \ {s} : session'[u] = session[u]
        BY <2>3, Zenon DEF TunnelUpgradeFails, TunnelServe, TunnelDrops
      <3>3. UNCHANGED <<registry, op, kick, missed>>
        BY <2>3, Zenon DEF TunnelUpgradeFails, TunnelServe, TunnelDrops
      <3> QED BY <1>5, <3>1, <3>2, <3>3, Zenon
    <2> QED BY <1>3, <1>6, <1>7, <1>8, <1>18, <2>1, <2>2, <2>3, Zenon
            DEF TunnelNext, ApplyReport, LoseReport
  <1>19. CASE AdminNext
    <2>1. ASSUME NEW o \in AdminOps, RepairInvalidate(o) PROVE FALSE
      BY <2>1, Zenon DEF RepairInvalidate, RevokeInv
    <2> QED BY <1>3, <1>9, <1>10, <1>12, <1>13, <1>14, <1>15, <1>16, <1>19, <2>1, Zenon
            DEF AdminNext, CreateSite, DeleteSite
  <1>20. CASE UNCHANGED vars
    BY <1>3, <1>20, Zenon DEF vars
  <1> QED BY <1>17, <1>18, <1>19, <1>20, Zenon DEF Next

(* A tunnel that is registered after its connector's revocation returned,    *)
(* with the kick served, is one whose handshake was under way: no other      *)
(* interleaving lets a revoked connector stay proxyable.                     *)
THEOREM RevocationMisses ==
    ASSUME TRUE \notin RepairModes PROVE Spec => []RevokeMissesOnlyHandshakes
  <1>1. Init => MissedInv
    BY Zenon DEF Init, MissedInv, NewOp
  <1>2. TypeOK /\ RevokeInv /\ MissedInv /\ [Next]_vars => MissedInv'
    BY MissedStep, Zenon
  <1>3. MissedInv => RevokeMissesOnlyHandshakes
    BY Zenon DEF MissedInv, RevokeMissesOnlyHandshakes
  <1> QED BY <1>1, <1>2, <1>3, TypeCorrect, RevokeInvariant, PTL DEF Spec

(* A delete that checked REVOKED two queries earlier still deletes a revoked *)
(* row (canDeleteConnector's first rule), under the same condition.          *)
THEOREM DeletionNeedsRevocation ==
    ASSUME TRUE \notin RepairModes PROVE Spec => OnlyRevokedDeleted
  <1>1. TypeOK /\ RevokeInv /\ [Next]_vars
        => [\A c \in Connectors : (status'[c] = "DELETED" /\ status[c] # "DELETED")
                                  => status[c] = "REVOKED"]_vars
    <2> SUFFICES ASSUME TypeOK, RevokeInv, [Next]_vars, NEW c \in Connectors,
                        status'[c] = "DELETED", status[c] # "DELETED"
                 PROVE  status[c] = "REVOKED"
      BY Zenon
    <2> USE DEF TypeOK, StateShape
    <2>1. ASSUME NEW o \in AdminOps, DeleteRow(o) PROVE status[c] = "REVOKED"
      BY <2>1, Zenon DEF DeleteRow, RevokeInv, Final, Rows, Live
    <2>2. CASE PairingNext
      BY <2>2, Zenon DEF PairingNext, CreatePairing, PairingExpires, DeletePairing, RedeemRefetch,
                  RedeemRefused, AgentStoresToken, RedeemScan, RedeemRotate, RedeemCreate
    <2>3. CASE TunnelNext
      BY <2>3, Zenon DEF TunnelNext, TunnelAuth, TunnelMatch, TunnelStatusCheck, TunnelRegister,
                  TunnelUpgradeFails, TunnelServe, TunnelDrops, TunnelCleanup, LoseReport,
                  ApplyReport, DataplaneRestarts
    <2>4. CASE AdminNext
      <3>1. ASSUME NEW o \in AdminOps, NEW d \in Connectors, Revoke(o, d)
            PROVE  status[c] = "REVOKED"
        BY <3>1, Zenon DEF Revoke
      <3>2. ASSUME NEW o \in AdminOps, RepairInvalidate(o) \/ KickReturns(o)
            PROVE  status[c] = "REVOKED"
        BY <3>2, Zenon DEF RepairInvalidate, KickReturns, Written
      <3> QED BY <2>1, <2>4, <3>1, <3>2, Zenon
              DEF AdminNext, DeleteCheck, RepairCheck, RepairPair, KickClose, KickRemove,
                  KickLost, RequestFails, CreateSite, DeleteSite
    <2> QED BY <2>2, <2>3, <2>4, Zenon DEF Next, vars
  <1> QED BY <1>1, TypeCorrect, RevokeInvariant, PTL DEF Spec, OnlyRevokedDeleted

----------------------------------------------------------------------------
(* Pairing codes *)

(* A request that finishes holds a code nobody consumed before it, so no     *)
(* earlier request was answered with it.                                     *)
LEMMA CodeConsumed ==
    ASSUME TypeOK, CodeInv, NEW r \in Redeems, NEW c \in Connectors,
           ReadyToFinish(r), Consumable(redeem[r].p),
           pairing' = [pairing EXCEPT ![redeem[r].p].used = TRUE],
           redeem' = [redeem EXCEPT ![r] = [@ EXCEPT !.pc = "done", !.got = c]],
           UNCHANGED op
    PROVE  CodeInv'
  <1>t. /\ pairing \in [Pairings -> PairingRow]
        /\ redeem \in [Redeems -> RedeemRequest]
        /\ op \in [AdminOps -> AdminRequest]
    BY Zenon DEF TypeOK, StateShape
  <1> USE <1>t
  <1>1. redeem[r].p \in Pairings
    BY Zenon DEF TypeOK, NamesBound, RedeemNamed, HandlerNamed, RequestNamed, ReadyToFinish
  <1>2. /\ redeem'[r].p = redeem[r].p /\ redeem'[r].got = c /\ redeem'[r].pc = "done"
        /\ \A q \in Redeems \ {r} : redeem'[q] = redeem[q]
    BY Zenon DEF RedeemRequest
  <1>3. pairing' = [pairing EXCEPT ![redeem[r].p] = [@ EXCEPT !.used = TRUE]]
    BY <1>1, Zenon
  <1>4. \A p \in Pairings : [pairing[p] EXCEPT !.used = TRUE].st = pairing[p].st
                            /\ [pairing[p] EXCEPT !.used = TRUE].used
    BY Zenon DEF PairingRow
  <1>5. /\ pairing'[redeem[r].p].st = pairing[redeem[r].p].st /\ pairing'[redeem[r].p].used
        /\ \A p \in Pairings \ {redeem[r].p} : pairing'[p] = pairing[p]
    BY <1>1, <1>3, <1>4, Zenon
  <1>6. pairing[redeem[r].p].st = "row" /\ ~pairing[redeem[r].p].used
    BY Zenon DEF Consumable
  <1>7. CodeRedeemedOnce'
    BY <1>1, <1>2, <1>6 DEF CodeInv, CodeRedeemedOnce, AnsweredConsumed
  <1>8. AnsweredConsumed'
    BY <1>1, <1>2, <1>5, Zenon DEF CodeInv, AnsweredConsumed
  <1>9. ConsumedVisible'
    BY <1>5, <1>6, Zenon DEF CodeInv, ConsumedVisible
  <1>10. \A o \in AdminOps : (op[o].kind = "repair" /\ op[o].pc \in {"paired", "kicking"})
                             => op[o].p \in Pairings
    BY Zenon DEF TypeOK, NamesBound, RequestNamed
  <1>11. RepairHidden'
    BY <1>5, <1>10 DEF CodeInv, RepairHidden
  <1>12. RepairsApart'
    BY Zenon DEF CodeInv, RepairsApart
  <1> QED BY <1>7, <1>8, <1>9, <1>11, <1>12, Zenon DEF CodeInv

(* A row that becomes visible was never visible before, so nobody holds it.  *)
LEMMA CodePublished ==
    ASSUME TypeOK, CodeInv, NEW p \in Pairings, NEW row \in PairingRow, row.st = "row",
           ~row.used, pairing[p].st = "none",
           pairing' = [pairing EXCEPT ![p] = row], UNCHANGED redeem,
           \A o \in AdminOps : op'[o].p = op[o].p,
           \A o \in AdminOps : (op'[o].kind = "repair" /\ op'[o].pc \in {"paired", "kicking"})
              => op'[o] = op[o] /\ op[o].p # p
    PROVE  CodeInv'
  <1>t. /\ pairing \in [Pairings -> PairingRow]
        /\ redeem \in [Redeems -> RedeemRequest]
        /\ op \in [AdminOps -> AdminRequest]
    BY Zenon DEF TypeOK, StateShape
  <1> USE <1>t
  <1>1. pairing'[p] = row /\ \A q \in Pairings \ {p} : pairing'[q] = pairing[q]
    BY Zenon
  <1>2. ~pairing[p].used
    BY Zenon DEF CodeInv, ConsumedVisible
  <1>3. \A r \in Redeems : redeem[r].got # NoConnector => redeem[r].p # p
    BY <1>2, Zenon DEF CodeInv, AnsweredConsumed
  <1>4. CodeRedeemedOnce'
    BY Zenon DEF CodeInv, CodeRedeemedOnce
  <1>5. AnsweredConsumed'
    BY <1>1, <1>3, Zenon DEF CodeInv, AnsweredConsumed
  <1>6. ConsumedVisible'
    BY <1>1, Zenon DEF CodeInv, ConsumedVisible
  <1>7. \A o \in AdminOps : (op[o].kind = "repair" /\ op[o].pc \in {"paired", "kicking"})
                            => op[o].p \in Pairings
    BY Zenon DEF TypeOK, NamesBound, RequestNamed
  <1>8. RepairHidden'
    BY <1>1, <1>7 DEF CodeInv, RepairHidden
  <1>9. RepairsApart'
    BY DEF CodeInv, RepairsApart
  <1> QED BY <1>4, <1>5, <1>6, <1>8, <1>9, Zenon DEF CodeInv

(* A step that keeps the answers and only moves rows among their later       *)
(* states keeps CodeInv.                                                     *)
LEMMA CodeKept ==
    ASSUME TypeOK, CodeInv,
           \A r \in Redeems : redeem'[r].got = redeem[r].got
              /\ (redeem[r].got # NoConnector => redeem'[r] = redeem[r]),
           \A p \in Pairings : /\ pairing[p].used => pairing'[p].used
                               /\ (pairing'[p].used => pairing'[p].st # "none")
                               /\ (pairing[p].st = "none" <=> pairing'[p].st = "none"),
           \A o \in AdminOps : op'[o].p = op[o].p \/ op'[o].p = NoPairing,
           \A o \in AdminOps : (op'[o].kind = "repair" /\ op'[o].pc \in {"paired", "kicking"})
              => op[o].kind = "repair" /\ op[o].pc \in {"paired", "kicking"}
                 /\ op'[o].p = op[o].p
    PROVE  CodeInv'
  <1>1. CodeRedeemedOnce'
    <2>1. SUFFICES ASSUME NEW r \in Redeems, NEW q \in Redeems, r # q,
                          redeem'[r].got # NoConnector, redeem'[q].got # NoConnector
                   PROVE  redeem'[r].p # redeem'[q].p
      BY Zenon DEF CodeRedeemedOnce
    <2>2. redeem'[r] = redeem[r] /\ redeem[r].got # NoConnector
      BY <2>1, Zenon
    <2>3. redeem'[q] = redeem[q] /\ redeem[q].got # NoConnector
      BY <2>1, Zenon
    <2> QED BY <2>1, <2>2, <2>3 DEF CodeInv, CodeRedeemedOnce
  <1>2. AnsweredConsumed'
    <2>1. SUFFICES ASSUME NEW r \in Redeems, redeem'[r].got # NoConnector
                   PROVE  redeem'[r].p \in Pairings /\ redeem'[r].pc = "done"
                          /\ pairing'[redeem'[r].p].used
      BY Zenon DEF AnsweredConsumed
    <2>2. redeem'[r] = redeem[r] /\ redeem[r].got # NoConnector
      BY <2>1, Zenon
    <2>3. redeem[r].p \in Pairings /\ redeem[r].pc = "done" /\ pairing[redeem[r].p].used
      BY <2>2, Zenon DEF CodeInv, AnsweredConsumed
    <2> QED BY <2>2, <2>3, Zenon
  <1>3. ConsumedVisible'
    BY Zenon DEF ConsumedVisible
  <1>4. \A o \in AdminOps : (op[o].kind = "repair" /\ op[o].pc \in {"paired", "kicking"})
                            => op[o].p \in Pairings
    BY Zenon DEF TypeOK, NamesBound, RequestNamed
  <1>5. RepairHidden'
    BY <1>4, Zenon DEF CodeInv, RepairHidden
  <1>6. RepairsApart'
    <2>1. SUFFICES ASSUME NEW o \in AdminOps, NEW q \in AdminOps, o # q, op'[o].p # NoPairing
                   PROVE  op'[o].p # op'[q].p
      BY Zenon DEF RepairsApart
    <2>2. op'[o].p = op[o].p /\ op[o].p # op[q].p
      BY <2>1, Zenon DEF CodeInv, RepairsApart
    <2>3. op'[q].p = op[q].p \/ op'[q].p = NoPairing
      BY Zenon
    <2> QED BY <2>1, <2>2, <2>3, Zenon
  <1> QED BY <1>1, <1>2, <1>3, <1>5, <1>6, Zenon DEF CodeInv

(* The same for a step that leaves the administrator requests alone.         *)
LEMMA CodeKeptByRedeem ==
    ASSUME TypeOK, CodeInv,
           \A r \in Redeems : redeem'[r].got = redeem[r].got
              /\ (redeem[r].got # NoConnector => redeem'[r] = redeem[r]),
           \A p \in Pairings : /\ pairing[p].used => pairing'[p].used
                               /\ (pairing'[p].used => pairing[p].st # "none")
                               /\ (pairing[p].st = "none" <=> pairing'[p].st = "none"),
           op' = op
    PROVE  CodeInv'
  BY CodeKept, Zenon

(* One step of anything keeps CodeInv.                                       *)
LEMMA CodeStep ==
    ASSUME TypeOK, CodeInv, [Next]_vars
    PROVE  CodeInv'
  <1>t. /\ pairing \in [Pairings -> PairingRow]
        /\ redeem \in [Redeems -> RedeemRequest]
        /\ op \in [AdminOps -> AdminRequest]
    BY Zenon DEF TypeOK, StateShape
  <1> USE <1>t
  <1>1. CASE UNCHANGED <<pairing, redeem, op>>
    BY <1>1, Zenon DEF CodeInv, CodeRedeemedOnce, AnsweredConsumed, ConsumedVisible, RepairHidden, RepairsApart
  <1>2. ASSUME NEW p \in Pairings, CreatePairing(p) PROVE CodeInv'
    <2>1. \E row \in PairingRow : row.st = "row" /\ row.used = pairing[p].used
                                 /\ pairing' = [pairing EXCEPT ![p] = row]
      <3>1. [pairing[p] EXCEPT !.st = "row"] \in PairingRow
        BY Zenon DEF PairingRow
      <3> WITNESS [pairing[p] EXCEPT !.st = "row"] \in PairingRow
      <3> QED BY <1>2, Zenon DEF CreatePairing, PairingRow
    <2>2. ~pairing[p].used /\ pairing[p].st = "none"
      BY <1>2, Zenon DEF CreatePairing, CodeInv, ConsumedVisible
    <2>3. UNCHANGED <<redeem, op>> /\ \A o \in AdminOps : op[o].p # p
      BY <1>2, Zenon DEF CreatePairing
    <2>4. PICK row \in PairingRow : row.st = "row" /\ row.used = pairing[p].used
                                  /\ pairing' = [pairing EXCEPT ![p] = row]
      BY <2>1, Zenon
    <2>5. ~row.used
      BY <2>2, <2>4, Zenon
    <2>6. \A o \in AdminOps : op'[o] = op[o] /\ op[o].p # p
      BY <2>3, Zenon
    <2> QED BY <2>2, <2>3, <2>4, <2>5, <2>6, CodePublished, Zenon
  <1>3. ASSUME NEW p \in Pairings, PairingExpires(p) \/ DeletePairing(p) PROVE CodeInv'
    <2>1. \A q \in Pairings : /\ pairing'[q].used = pairing[q].used
                              /\ pairing[q].st = "none" <=> pairing'[q].st = "none"
      BY <1>3, Zenon DEF PairingExpires, DeletePairing, PairingRow
    <2>2. redeem' = redeem /\ op' = op
      BY <1>3, Zenon DEF PairingExpires, DeletePairing
    <2>3. \A q \in Pairings : /\ pairing[q].used => pairing'[q].used
                              /\ pairing'[q].used => pairing[q].st # "none"
      BY <2>1, Zenon DEF CodeInv, ConsumedVisible
    <2> QED BY <2>1, <2>2, <2>3, CodeKeptByRedeem, Zenon
  <1>4. ASSUME NEW r \in Redeems, RedeemRefetch(r) PROVE CodeInv'
    <2>1. redeem[r].got = NoConnector
      BY <1>4, Zenon DEF RedeemRefetch, CodeInv, AnsweredConsumed
    <2>2. redeem'[r].got = redeem[r].got /\ \A q \in Redeems \ {r} : redeem'[q] = redeem[q]
      BY <1>4, Zenon DEF RedeemRefetch, RedeemRequest
    <2>3. UNCHANGED <<pairing, op>>
      BY <1>4, Zenon DEF RedeemRefetch
    <2>4. \A q \in Redeems : redeem'[q].got = redeem[q].got
                            /\ (redeem[q].got # NoConnector => redeem'[q] = redeem[q])
      BY <2>1, <2>2, Zenon
    <2>5. \A p \in Pairings : pairing[p].used => pairing[p].st # "none"
      BY Zenon DEF CodeInv, ConsumedVisible
    <2> QED BY <2>3, <2>4, <2>5, CodeKeptByRedeem, Zenon
  <1>5. ASSUME NEW r \in Redeems, NEW p \in Pairings, RedeemScan(r, p) PROVE CodeInv'
    <2>1. redeem[r].got = NoConnector
      BY <1>5, Zenon DEF RedeemScan, CodeInv, AnsweredConsumed
    <2>2. redeem'[r].got = redeem[r].got /\ \A q \in Redeems \ {r} : redeem'[q] = redeem[q]
      BY <1>5, Zenon DEF RedeemScan, RedeemRequest
    <2>3. UNCHANGED <<pairing, op>>
      BY <1>5, Zenon DEF RedeemScan
    <2>4. \A q \in Redeems : redeem'[q].got = redeem[q].got
                            /\ (redeem[q].got # NoConnector => redeem'[q] = redeem[q])
      BY <2>1, <2>2, Zenon
    <2>5. \A q \in Pairings : pairing[q].used => pairing[q].st # "none"
      BY Zenon DEF CodeInv, ConsumedVisible
    <2> QED BY <2>3, <2>4, <2>5, CodeKeptByRedeem, Zenon
  <1>6. ASSUME NEW r \in Redeems, RedeemRotate(r) PROVE CodeInv'
    <2>1. redeem[r].p \in Pairings
      BY <1>6, Zenon DEF RedeemRotate, ReadyToFinish, TypeOK, NamesBound, RedeemNamed, HandlerNamed, RequestNamed
    <2>2. pairing[redeem[r].p].target \in Connectors
      BY <1>6, <2>1, Zenon DEF RedeemRotate, PairingRow
    <2> QED BY <1>6, <2>2, CodeConsumed, Zenon DEF RedeemRotate
  <1>7. ASSUME NEW r \in Redeems, NEW c \in Connectors, RedeemCreate(r, c) PROVE CodeInv'
    BY <1>7, CodeConsumed, Zenon DEF RedeemCreate
  <1>8. ASSUME NEW r \in Redeems, RedeemRefused(r) PROVE CodeInv'
    <2>1. redeem[r].p \in Pairings /\ redeem[r].got = NoConnector
      BY <1>8, Zenon DEF RedeemRefused, ReadyToFinish, TypeOK, NamesBound, RedeemNamed, CodeInv, AnsweredConsumed
    <2>2. redeem'[r].got = redeem[r].got /\ \A q \in Redeems \ {r} : redeem'[q] = redeem[q]
      BY <1>8, Zenon DEF RedeemRefused, RedeemRequest
    <2>3. op' = op
      BY <1>8, Zenon DEF RedeemRefused
    <2>4. \A q \in Redeems : redeem'[q].got = redeem[q].got
                            /\ (redeem[q].got # NoConnector => redeem'[q] = redeem[q])
      BY <2>1, <2>2, Zenon
    <2>5. \A p \in Pairings : pairing[p].used => pairing[p].st # "none"
      BY Zenon DEF CodeInv, ConsumedVisible
    <2>6. CASE pairing' = pairing
      BY <2>3, <2>4, <2>5, <2>6, CodeKeptByRedeem, Zenon
    <2>7. CASE pairing' # pairing
      <3>1. /\ pairing' = [pairing EXCEPT ![redeem[r].p].used = TRUE]
            /\ pairing[redeem[r].p].st = "row"
        BY <1>8, <2>7, Zenon DEF RedeemRefused, Consumable
      <3>2. /\ pairing'[redeem[r].p].st = "row" /\ pairing'[redeem[r].p].used
            /\ \A p \in Pairings \ {redeem[r].p} : pairing'[p] = pairing[p]
        BY <2>1, <3>1, Zenon DEF PairingRow
      <3>3. \A p \in Pairings : /\ pairing[p].used => pairing'[p].used
                                /\ (pairing'[p].used => pairing[p].st # "none")
                                /\ (pairing[p].st = "none" <=> pairing'[p].st = "none")
        BY <2>1, <2>5, <3>1, <3>2, Zenon
      <3> QED BY <2>3, <2>4, <3>3, CodeKeptByRedeem, Zenon
    <2> QED BY <2>6, <2>7, Zenon
  <1>9. CASE PairingNext
    BY <1>1, <1>2, <1>3, <1>4, <1>5, <1>6, <1>7, <1>8, <1>9, Zenon DEF PairingNext, AgentStoresToken
  <1>10. CASE TunnelNext
    <2>1. UNCHANGED <<pairing, redeem, op>>
      BY <1>10, TunnelFrame, Zenon
    <2> QED BY <1>1, <2>1, Zenon
  <1>11. ASSUME NEW o \in AdminOps, NEW c \in Connectors, NEW inval,
                Revoke(o, c) \/ DeleteCheck(o, c) \/ RepairCheck(o, c, inval)
         PROVE  CodeInv'
    <2>1. op'[o].p = NoPairing /\ op'[o].pc \in {"checked", "kicking"}
          /\ (op'[o].kind = "repair" => op'[o].pc = "checked")
      <3>1. CASE Revoke(o, c)
        BY <3>1, Zenon DEF Revoke, NewOp
      <3>2. CASE DeleteCheck(o, c)
        BY <3>2, Zenon DEF DeleteCheck, NewOp
      <3>3. CASE RepairCheck(o, c, inval)
        BY <3>3, Zenon DEF RepairCheck, NewOp
      <3> QED BY <1>11, <3>1, <3>2, <3>3, Zenon
    <2>2. UNCHANGED <<pairing, redeem>> /\ \A q \in AdminOps \ {o} : op'[q] = op[q]
      BY <1>11, Zenon DEF Revoke, DeleteCheck, RepairCheck
    <2>3. \A p \in Pairings : pairing[p].used => pairing[p].st # "none"
      BY Zenon DEF CodeInv, ConsumedVisible
    <2>4. \A q \in AdminOps : op'[q].p = op[q].p \/ op'[q].p = NoPairing
      BY <2>1, <2>2, Zenon
    <2>5. \A q \in AdminOps : (op'[q].kind = "repair" /\ op'[q].pc \in {"paired", "kicking"})
             => op[q].kind = "repair" /\ op[q].pc \in {"paired", "kicking"} /\ op'[q].p = op[q].p
      BY <2>1, <2>2, Zenon
    <2> QED BY <2>2, <2>3, <2>4, <2>5, CodeKept, Zenon
  <1>12. ASSUME NEW o \in AdminOps, NEW p \in Pairings, RepairPair(o, p) PROVE CodeInv'
    <2>1. /\ pairing[p].st = "none" /\ \A q \in AdminOps : op[q].p # p
          /\ UNCHANGED redeem /\ \A q \in AdminOps \ {o} : op'[q] = op[q]
      BY <1>12, Zenon DEF RepairPair
    <2>2. op'[o].p = p /\ (op'[o].pc \in {"paired", "kicking"} => op[o].inval)
      BY <1>12, Zenon DEF RepairPair, AdminRequest
    <2>3. ~pairing[p].used
      BY <2>1, Zenon DEF CodeInv, ConsumedVisible
    <2>4. \A r \in Redeems : redeem[r].got # NoConnector => redeem[r].p # p
      BY <2>3, Zenon DEF CodeInv, AnsweredConsumed
    <2>5. ~pairing'[p].used /\ \A q \in Pairings \ {p} : pairing'[q] = pairing[q]
      <3>1. CASE pairing' = pairing
        BY <2>3, <3>1, Zenon
      <3>2. CASE pairing' = [pairing EXCEPT ![p] = BoundPairing(op[o].conn)]
        BY <3>2, Zenon DEF BoundPairing, NewPairing
      <3> QED BY <1>12, <3>1, <3>2, Zenon DEF RepairPair
    <2>6. (MultiTenant /\ op[o].inval) => pairing' = pairing
      BY <1>12, Zenon DEF RepairPair
    <2>7. \A q \in AdminOps : (op[q].kind = "repair" /\ op[q].pc \in {"paired", "kicking"})
                              => op[q].p \in Pairings
      BY Zenon DEF TypeOK, NamesBound, RequestNamed
    <2>8. CodeRedeemedOnce'
      BY <2>1, Zenon DEF CodeInv, CodeRedeemedOnce
    <2>9. AnsweredConsumed'
      BY <2>1, <2>4, <2>5, Zenon DEF CodeInv, AnsweredConsumed
    <2>10. ConsumedVisible'
      BY <2>5, Zenon DEF CodeInv, ConsumedVisible
    <2>11. RepairHidden'
      <3>1. SUFFICES ASSUME NEW q \in AdminOps, MultiTenant, op'[q].kind = "repair",
                            op'[q].pc \in {"paired", "kicking"}
                     PROVE  pairing'[op'[q].p].st = "none"
        BY Zenon DEF RepairHidden
      <3>2. CASE q = o
        BY <2>1, <2>2, <2>6, <3>1, <3>2, Zenon
      <3>3. CASE q # o
        <4>1. op'[q] = op[q] /\ op[q].p \in Pairings \ {p}
          BY <2>1, <2>7, <3>1, <3>3, Zenon
        <4>2. pairing[op[q].p].st = "none"
          BY <3>1, <4>1, Zenon DEF CodeInv, RepairHidden
        <4> QED BY <2>5, <4>1, <4>2, Zenon
      <3> QED BY <3>2, <3>3, Zenon
    <2>12. RepairsApart'
      <3>1. \A q \in AdminOps \ {o} : op'[q].p = op[q].p /\ op'[q].p # p
        BY <2>1, Zenon
      <3> QED BY <2>2, <3>1, Zenon DEF CodeInv, RepairsApart
    <2> QED BY <2>8, <2>9, <2>10, <2>11, <2>12, Zenon DEF CodeInv
  <1>13. ASSUME NEW o \in AdminOps, RepairInvalidate(o) \/ RequestFails(o) PROVE CodeInv'
    <2>1. /\ op'[o].kind = op[o].kind /\ op'[o].p = op[o].p
          /\ op'[o].pc \in {"paired", "kicking"} => op[o].pc = "paired"
      <3>1. CASE RepairInvalidate(o)
        BY <3>1, Zenon DEF RepairInvalidate, AdminRequest
      <3>2. CASE RequestFails(o)
        BY <3>2, Zenon DEF RequestFails, AdminRequest
      <3> QED BY <1>13, <3>1, <3>2, Zenon
    <2>2. UNCHANGED <<pairing, redeem>> /\ \A q \in AdminOps \ {o} : op'[q] = op[q]
      BY <1>13, Zenon DEF RepairInvalidate, RequestFails
    <2>3. \A p \in Pairings : pairing[p].used => pairing[p].st # "none"
      BY Zenon DEF CodeInv, ConsumedVisible
    <2>4. \A q \in AdminOps : op'[q].p = op[q].p \/ op'[q].p = NoPairing
      BY <2>1, <2>2, Zenon
    <2>5. \A q \in AdminOps : (op'[q].kind = "repair" /\ op'[q].pc \in {"paired", "kicking"})
             => op[q].kind = "repair" /\ op[q].pc \in {"paired", "kicking"} /\ op'[q].p = op[q].p
      BY <2>1, <2>2, Zenon
    <2> QED BY <2>2, <2>3, <2>4, <2>5, CodeKept, Zenon
  <1>14. ASSUME NEW o \in AdminOps, DeleteRow(o) PROVE CodeInv'
    <2>1. op'[o].p = op[o].p /\ op'[o].pc = "done"
      BY <1>14, Zenon DEF DeleteRow, AdminRequest
    <2>2. UNCHANGED redeem /\ \A q \in AdminOps \ {o} : op'[q] = op[q]
      BY <1>14, Zenon DEF DeleteRow
    <2>3. \A p \in Pairings : pairing'[p].used = pairing[p].used
      BY <1>14, Zenon DEF DeleteRow, PairingRow
    <2>4. \A p \in Pairings : pairing'[p].st = "none" <=> pairing[p].st = "none"
      BY <1>14, Zenon DEF DeleteRow, PairingRow
    <2>5. \A p \in Pairings : pairing'[p].used => pairing'[p].st # "none"
      BY <2>3, <2>4, Zenon DEF CodeInv, ConsumedVisible
    <2> QED BY <2>1, <2>2, <2>3, <2>4, <2>5, CodeKept, Zenon
  <1>15. ASSUME NEW o \in AdminOps, KickReturns(o) PROVE CodeInv'
    <2>1. op'[o].p = op[o].p /\ op'[o].pc = "done" /\ op[o].pc = "kicking"
      BY <1>15, Zenon DEF KickReturns, AdminRequest
    <2>2. UNCHANGED redeem /\ \A q \in AdminOps \ {o} : op'[q] = op[q]
      BY <1>15, Zenon DEF KickReturns
    <2>3. CASE UNCHANGED pairing
      <3>1. \A p \in Pairings : pairing[p].used => pairing[p].st # "none"
        BY Zenon DEF CodeInv, ConsumedVisible
      <3>2. \A q \in AdminOps : op'[q].p = op[q].p \/ op'[q].p = NoPairing
        BY <2>1, <2>2, Zenon
      <3>3. \A q \in AdminOps : (op'[q].kind = "repair" /\ op'[q].pc \in {"paired", "kicking"})
               => op[q].kind = "repair" /\ op[q].pc \in {"paired", "kicking"} /\ op'[q].p = op[q].p
        BY <2>1, <2>2, Zenon
      <3> QED BY <2>2, <2>3, <3>1, <3>2, <3>3, CodeKept, Zenon
    <2>4. CASE MultiTenant /\ op[o].kind = "repair"
      <3>1. op[o].p \in Pairings /\ op[o].conn \in Connectors /\ pairing[op[o].p].st = "none"
        BY <2>1, <2>4, Zenon DEF TypeOK, NamesBound, RequestNamed, CodeInv, RepairHidden
      <3>2. \A q \in AdminOps \ {o} : op[q].p # op[o].p
        BY <3>1, LifecycleAssumption, Zenon DEF CodeInv, RepairsApart
      <3>3. pairing' = [pairing EXCEPT ![op[o].p] = BoundPairing(op[o].conn)]
        BY <1>15, <2>4, Zenon DEF KickReturns
      <3>4. BoundPairing(op[o].conn) \in PairingRow
        BY <3>1, BoundPairingRow, Zenon
      <3>5. BoundPairing(op[o].conn).st = "row" /\ ~BoundPairing(op[o].conn).used
        BY Zenon DEF BoundPairing, NewPairing
      <3>6. \A q \in AdminOps : op'[q].p = op[q].p
        BY <2>1, <2>2, Zenon
      <3>7. \A q \in AdminOps : (op'[q].kind = "repair" /\ op'[q].pc \in {"paired", "kicking"})
                                => op'[q] = op[q] /\ op[q].p # op[o].p
        BY <2>1, <2>2, <3>2, Zenon
      <3> QED BY <2>2, <3>1, <3>3, <3>4, <3>5, <3>6, <3>7, CodePublished, Zenon
    <2> QED BY <1>15, <2>3, <2>4, Zenon DEF KickReturns
  <1>16. CASE AdminNext
    BY <1>1, <1>11, <1>12, <1>13, <1>14, <1>15, <1>16, Zenon
       DEF AdminNext, KickClose, KickRemove, KickLost, CreateSite, DeleteSite
  <1> QED BY <1>1, <1>9, <1>10, <1>16, Zenon DEF Next, vars

(* What makes a code single-use holds throughout.                            *)
LEMMA CodeInvariant == Spec => []CodeInv
  <1>1. Init => CodeInv
    <2> SUFFICES ASSUME Init PROVE CodeInv
      BY Zenon
    <2>1. /\ \A p \in Pairings : ~pairing[p].used
          /\ \A r \in Redeems : redeem[r].got = NoConnector
          /\ \A o \in AdminOps : op[o].p = NoPairing /\ op[o].pc = "idle"
      BY Zenon DEF Init, NewPairing, NewRedeem, NewOp
    <2> QED BY <2>1, Zenon DEF CodeInv, CodeRedeemedOnce, AnsweredConsumed, ConsumedVisible, RepairHidden, RepairsApart
  <1>2. TypeOK /\ CodeInv /\ [Next]_vars => CodeInv'
    BY CodeStep, Zenon
  <1> QED BY <1>1, <1>2, TypeCorrect, PTL DEF Spec

(* A pairing code buys one token, however many requests race to redeem it    *)
(* and whatever repairs, deletions and commits happen meanwhile.             *)
THEOREM OneTokenPerCode == Spec => []CodeRedeemedOnce
  <1>1. CodeInv => CodeRedeemedOnce
    BY Zenon DEF CodeInv
  <1> QED BY <1>1, CodeInvariant, PTL

(* A token that was rotated away never validates again: what a step installs *)
(* is minted by a request that has been answered with no connector before,   *)
(* in both deployments and with invalidateNow or without.                    *)
THEOREM RotatedTokensStayOut == Spec => TokenNeverReturns
  <1>1. TypeOK /\ CodeInv /\ [Next]_vars =>
          [\A c \in Connectors : tokenOf'[c] # tokenOf[c] =>
              \/ tokenOf'[c] = NoToken
              \/ redeem[tokenOf'[c]].got = NoConnector]_vars
    <2> SUFFICES ASSUME TypeOK, CodeInv, [Next]_vars, NEW c \in Connectors, tokenOf'[c] # tokenOf[c]
                 PROVE  tokenOf'[c] = NoToken \/ redeem[tokenOf'[c]].got = NoConnector
      BY Zenon
    <2>0. tokenOf \in [Connectors -> Redeems \cup {NoToken}]
      BY Zenon DEF TypeOK, StateShape
    <2>1. ASSUME NEW r \in Redeems, NEW d, ReadyToFinish(r), tokenOf' = [tokenOf EXCEPT ![d] = r]
          PROVE  redeem[tokenOf'[c]].got = NoConnector
      <3>1. redeem[r].pc # "done"
        BY <2>1, Zenon DEF ReadyToFinish
      <3>2. redeem[r].got = NoConnector
        BY <3>1, Zenon DEF CodeInv, AnsweredConsumed
      <3> QED BY <2>0, <2>1, <3>2, Zenon
    <2>2. ASSUME NEW d, tokenOf' = [tokenOf EXCEPT ![d] = NoToken] PROVE tokenOf'[c] = NoToken
      BY <2>0, <2>2, Zenon
    <2>3. ASSUME NEW r \in Redeems, RedeemRotate(r) \/ \E d \in Connectors : RedeemCreate(r, d)
          PROVE  ReadyToFinish(r) /\ \E d : tokenOf' = [tokenOf EXCEPT ![d] = r]
      BY <2>3, Zenon DEF RedeemRotate, RedeemCreate
    <2>4. ASSUME NEW o \in AdminOps, RepairInvalidate(o) \/ KickReturns(o) \/ DeleteRow(o)
          PROVE  tokenOf' = tokenOf \/ \E d : tokenOf' = [tokenOf EXCEPT ![d] = NoToken]
      BY <2>4, Zenon DEF RepairInvalidate, KickReturns, DeleteRow, Written
    <2>5. \/ tokenOf' = tokenOf
          \/ \E r \in Redeems : RedeemRotate(r) \/ \E d \in Connectors : RedeemCreate(r, d)
          \/ \E o \in AdminOps : RepairInvalidate(o) \/ KickReturns(o) \/ DeleteRow(o)
      <3>1. ASSUME TunnelNext PROVE tokenOf' = tokenOf
        BY <3>1, Zenon DEF TunnelNext, TunnelAuth, TunnelMatch, TunnelStatusCheck, TunnelRegister, TunnelUpgradeFails,
                    TunnelServe, TunnelDrops, TunnelCleanup, ApplyReport, LoseReport, DataplaneRestarts
      <3>2. ASSUME PairingNext
            PROVE  tokenOf' = tokenOf \/ \E r \in Redeems : RedeemRotate(r) \/ \E d \in Connectors : RedeemCreate(r, d)
        BY <3>2, Zenon DEF PairingNext, CreatePairing, PairingExpires, DeletePairing, RedeemRefetch, RedeemRefused,
                    AgentStoresToken, RedeemScan
      <3>3. ASSUME AdminNext
            PROVE  tokenOf' = tokenOf \/ \E o \in AdminOps : RepairInvalidate(o) \/ KickReturns(o) \/ DeleteRow(o)
        BY <3>3, Zenon DEF AdminNext, Revoke, DeleteCheck, RepairCheck, RepairPair, KickClose, KickRemove, KickLost,
                    RequestFails, CreateSite, DeleteSite
      <3> QED BY <3>1, <3>2, <3>3, Zenon DEF Next, vars
    <2> QED BY <2>1, <2>2, <2>3, <2>4, <2>5, Zenon
  <1> QED BY <1>1, CodeInvariant, TypeCorrect, PTL DEF Spec, TokenNeverReturns
============================================================================
