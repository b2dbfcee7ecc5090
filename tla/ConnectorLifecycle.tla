------------------------ MODULE ConnectorLifecycle ------------------------
(* The life of a connector: the one-time pairing code, the token it is       *)
(* redeemed for, the tunnel sessions that token opens on the data plane, the *)
(* status the data plane reports back, and the administrator's revoke,       *)
(* re-pair and delete.  Five kinds of process interleave: redeem requests,   *)
(* tunnel handlers (one goroutine per WSS connection), status reports in     *)
(* flight, /kick calls in flight, and administrator requests.                *)
(*                                                                           *)
(* MultiTenant is the deployment flag of src/src/lib/tenant/enabled.ts.  With *)
(* it on, an administrator request is ONE database transaction (scope.ts):   *)
(* what it writes becomes visible when it returns, the rows it updated stay  *)
(* locked until then, and an inner db.$transaction is the same transaction   *)
(* (db.ts), so an error caught inside the handler undoes nothing.            *)
EXTENDS Naturals, FiniteSets

CONSTANTS
    Connectors,      \* connector row ids (a deleted id is never reused)
    Pairings,        \* pairing row ids; a row stands for its one-time code
    Redeems,         \* redeem requests; the token a request mints is named by it
    Sessions,        \* tunnel connections, each with its own handler goroutine
    AdminOps,        \* administrator requests
    MultiTenant,     \* BOOLEAN: the cloud deployment
    RepairModes,     \* the values of invalidateNow that repair requests carry
    MaxConnectors,   \* the tenant's connector limit
    SiteStatuses,    \* bound: the statuses of a connector at which sites are attached
    MaxCrashes,      \* bound on data-plane restarts
    NoConnector, NoPairing, NoToken, NoSession

ASSUME LifecycleAssumption ==
    /\ MultiTenant \in BOOLEAN /\ RepairModes \subseteq BOOLEAN
    /\ MaxConnectors \in Nat /\ MaxCrashes \in Nat
    /\ NoConnector \notin Connectors /\ NoPairing \notin Pairings
    /\ NoToken \notin Redeems /\ NoSession \notin Sessions

VARIABLES
    status,    \* Connector.status; NEW: no row yet, DELETED: the row is gone
    tokenOf,   \* Connector.tokenHash, by the token it verifies
    hasSite,   \* whether a Site row points at the connector
    pairing,   \* ConnectorPairing rows
    redeem,    \* redeem requests: program counter, matched row, connector obtained
    held,      \* tokens an agent has on disk (enroll's WriteFile)
    session,   \* tunnel handlers
    registry,  \* Registry.m
    reports,   \* ReportStatus calls the manager has not answered
    op,        \* administrator requests
    kick,      \* the /kick call of each administrator request
    missed,    \* history: the tunnel handlers each revocation could not see
    crashes

vars == <<status, tokenOf, hasSite, pairing, redeem, held, session, registry,
          reports, op, kick, missed, crashes>>

Live == {"PENDING", "ONLINE", "OFFLINE"}
Rows == Live \cup {"REVOKED"}

NewPairing == [st |-> "none", used |-> FALSE, expired |-> FALSE, target |-> NoConnector]
NewRedeem  == [pc |-> "idle", p |-> NoPairing, got |-> NoConnector]
NewSession == [pc |-> "idle", conn |-> NoConnector, tok |-> NoToken, open |-> FALSE]
NewOp      == [kind |-> "none", pc |-> "idle", conn |-> NoConnector, p |-> NoPairing,
               inval |-> FALSE]

PairingRow == [st : {"none", "row", "deleted"}, used : BOOLEAN, expired : BOOLEAN,
               target : Connectors \cup {NoConnector}]
RedeemRequest == [pc : {"idle", "scanned", "refetched", "done", "refused"},
                  p : Pairings \cup {NoPairing}, got : Connectors \cup {NoConnector}]
Handler == [pc : {"idle", "matched", "authed", "registered", "serving", "gone"},
            conn : Connectors \cup {NoConnector}, tok : Redeems \cup {NoToken}, open : BOOLEAN]
AdminRequest == [kind : {"none", "revoke", "repair", "delete"},
                 pc : {"idle", "checked", "paired", "kicking", "done", "failed"},
                 conn : Connectors \cup {NoConnector}, p : Pairings \cup {NoPairing},
                 inval : BOOLEAN]
KickState == {"none", "sent", "closed", "done", "lost"}

StateShape ==
    /\ status \in [Connectors -> Rows \cup {"NEW", "DELETED"}]
    /\ tokenOf \in [Connectors -> Redeems \cup {NoToken}]
    /\ hasSite \in [Connectors -> BOOLEAN]
    /\ pairing \in [Pairings -> PairingRow]
    /\ redeem \in [Redeems -> RedeemRequest]
    /\ held \subseteq Redeems
    /\ session \in [Sessions -> Handler]
    /\ registry \in [Connectors -> Sessions \cup {NoSession}]
    /\ reports \subseteq (Sessions \X {"ONLINE", "OFFLINE"})
    /\ op \in [AdminOps -> AdminRequest]
    /\ kick \in [AdminOps -> KickState]
    /\ missed \in [AdminOps -> SUBSET Sessions]
    /\ crashes \in 0..MaxCrashes

RedeemNamed == \A r \in Redeems : redeem[r].pc # "idle" => redeem[r].p \in Pairings

HandlerNamed ==
    /\ \A s \in Sessions : session[s].pc \in {"matched", "authed", "registered", "serving"}
                            => session[s].conn \in Connectors
    /\ \A s \in Sessions, st \in {"ONLINE", "OFFLINE"} :
          <<s, st>> \in reports => session[s].conn \in Connectors

RequestNamed ==
    \A o \in AdminOps :
        /\ op[o].pc # "idle" => op[o].conn \in Connectors
        /\ op[o].kind = "repair" /\ op[o].pc \in {"paired", "kicking"} => op[o].p \in Pairings
        /\ op[o].pc = "idle" <=> op[o].kind = "none"
        /\ kick[o] # "none" => op[o].pc # "idle"

NamesBound == RedeemNamed /\ HandlerNamed /\ RequestNamed

(* Every request, handler and row has a legal shape, whatever interleaved: a *)
(* request past its lookup names the row it works on, a handler past         *)
(* authentication names its connector, and a /kick belongs to a request.     *)
TypeOK == StateShape /\ NamesBound

Init ==
    /\ status = [c \in Connectors |-> "NEW"]
    /\ tokenOf = [c \in Connectors |-> NoToken]
    /\ hasSite = [c \in Connectors |-> FALSE]
    /\ pairing = [p \in Pairings |-> NewPairing]
    /\ redeem = [r \in Redeems |-> NewRedeem]
    /\ held = {}
    /\ session = [s \in Sessions |-> NewSession]
    /\ registry = [c \in Connectors |-> NoSession]
    /\ reports = {}
    /\ op = [o \in AdminOps |-> NewOp]
    /\ kick = [o \in AdminOps |-> "none"]
    /\ missed = [o \in AdminOps |-> {}]
    /\ crashes = 0

(* A cloud request that has updated the connector's row holds its row lock   *)
(* until it commits, so every other write of the row waits for it.           *)
Locked(c) == MultiTenant /\ \E o \in AdminOps : op[o].conn = c /\ op[o].pc = "kicking"

----------------------------------------------------------------------------
(* Pairing codes *)

(* POST /api/admin/connectors: the limit counts the connectors that exist,   *)
(* not the codes already handed out.                                         *)
CreatePairing(p) ==
    /\ pairing[p].st = "none"
    /\ \A o \in AdminOps : op[o].p # p
    /\ Cardinality({c \in Connectors : status[c] \in Live}) < MaxConnectors
    /\ pairing' = [pairing EXCEPT ![p].st = "row"]
    /\ UNCHANGED <<status, tokenOf, hasSite, redeem, held, session, registry, reports,
                   op, kick, missed, crashes>>

(* Fifteen minutes pass (expiresAt, which nobody reads of a used code).      *)
PairingExpires(p) ==
    /\ pairing[p].st = "row" /\ ~pairing[p].expired /\ ~pairing[p].used
    /\ pairing' = [pairing EXCEPT ![p].expired = TRUE]
    /\ UNCHANGED <<status, tokenOf, hasSite, redeem, held, session, registry, reports,
                   op, kick, missed, crashes>>

(* POST /api/admin/connectors/pairings/[id]/delete: the row was unused when  *)
(* it was read, but may have been redeemed by the time it is deleted.        *)
DeletePairing(p) ==
    /\ pairing[p].st = "row" /\ pairing[p].target = NoConnector
    /\ pairing' = [pairing EXCEPT ![p].st = "deleted"]
    /\ UNCHANGED <<status, tokenOf, hasSite, redeem, held, session, registry, reports,
                   op, kick, missed, crashes>>

Redeemable(p) == pairing[p].st = "row" /\ ~pairing[p].used /\ ~pairing[p].expired

(* redeemPairing reads the candidate rows and finds the one whose hash the   *)
(* code verifies against (argon2: time passes before the row is consumed).   *)
RedeemScan(r, p) ==
    /\ redeem[r].pc = "idle" /\ Redeemable(p)
    /\ redeem' = [redeem EXCEPT ![r] = [@ EXCEPT !.pc = "scanned", !.p = p]]
    /\ UNCHANGED <<status, tokenOf, hasSite, pairing, held, session, registry, reports,
                   op, kick, missed, crashes>>

(* Cloud only: the matched row is read again in its tenant's scope.          *)
RedeemRefetch(r) ==
    /\ MultiTenant /\ redeem[r].pc = "scanned"
    /\ redeem' = [redeem EXCEPT ![r].pc = IF Redeemable(redeem[r].p)
                                          THEN "refetched" ELSE "refused"]
    /\ UNCHANGED <<status, tokenOf, hasSite, pairing, held, session, registry, reports,
                   op, kick, missed, crashes>>

(* Mutant: the consume forgets "usedAt: null" in its WHERE clause.           *)
ConsumableTwice(p) == pairing[p].st = "row"

Consumable(p) == pairing[p].st = "row" /\ ~pairing[p].used

ReadyToFinish(r) == redeem[r].pc = IF MultiTenant THEN "refetched" ELSE "scanned"

(* Mutant: the rotation drops its "status not REVOKED" condition.            *)
RedeemRotateRevoked(r) ==
    LET p == redeem[r].p
        c == pairing[p].target
    IN /\ ReadyToFinish(r) /\ Consumable(p) /\ c # NoConnector
       /\ ~Locked(c) /\ status[c] \in Rows
       /\ pairing' = [pairing EXCEPT ![p].used = TRUE]
       /\ tokenOf' = [tokenOf EXCEPT ![c] = r]
       /\ status' = [status EXCEPT ![c] = "PENDING"]
       /\ redeem' = [redeem EXCEPT ![r] = [@ EXCEPT !.pc = "done", !.got = c]]
       /\ UNCHANGED <<hasSite, held, session, registry, reports, op, kick, missed, crashes>>

(* Mutant: a retried request is answered by installing its token again.      *)
RedeemRotateRetried(r) ==
    LET p == redeem[r].p
        c == IF redeem[r].pc = "done" THEN redeem[r].got ELSE pairing[p].target
    IN /\ redeem[r].pc = "done" \/ (ReadyToFinish(r) /\ Consumable(p))
       /\ c # NoConnector /\ ~Locked(c) /\ status[c] \in Live
       /\ pairing' = [pairing EXCEPT ![p].used = TRUE]
       /\ tokenOf' = [tokenOf EXCEPT ![c] = r]
       /\ status' = [status EXCEPT ![c] = "PENDING"]
       /\ redeem' = [redeem EXCEPT ![r] = [@ EXCEPT !.pc = "done", !.got = c]]
       /\ UNCHANGED <<hasSite, held, session, registry, reports, op, kick, missed, crashes>>

(* finishRedeem, the re-pair branch: rotate the token of the bound connector *)
(* unless it has been revoked or deleted.                                    *)
RedeemRotate(r) ==
    LET p == redeem[r].p
        c == pairing[p].target
    IN /\ ReadyToFinish(r) /\ Consumable(p) /\ c # NoConnector
       /\ ~Locked(c) /\ status[c] \in Live
       /\ pairing' = [pairing EXCEPT ![p].used = TRUE]
       /\ tokenOf' = [tokenOf EXCEPT ![c] = r]
       /\ status' = [status EXCEPT ![c] = "PENDING"]
       /\ redeem' = [redeem EXCEPT ![r] = [@ EXCEPT !.pc = "done", !.got = c]]
       /\ UNCHANGED <<hasSite, held, session, registry, reports, op, kick, missed, crashes>>

(* finishRedeem, the first-pairing branch: a connector row is created.       *)
RedeemCreate(r, c) ==
    LET p == redeem[r].p
    IN /\ ReadyToFinish(r) /\ Consumable(p) /\ pairing[p].target = NoConnector
       /\ status[c] = "NEW"
       /\ pairing' = [pairing EXCEPT ![p].used = TRUE]
       /\ tokenOf' = [tokenOf EXCEPT ![c] = r]
       /\ status' = [status EXCEPT ![c] = "PENDING"]
       /\ redeem' = [redeem EXCEPT ![r] = [@ EXCEPT !.pc = "done", !.got = c]]
       /\ UNCHANGED <<hasSite, held, session, registry, reports, op, kick, missed, crashes>>

(* finishRedeem, its two refusals.  PAIRING_ALREADY_USED wrote nothing;      *)
(* CONNECTOR_GONE is thrown after the code was consumed, and only the        *)
(* self-hosted transaction rolls that back.                                  *)
RedeemRefused(r) ==
    LET p == redeem[r].p
        c == pairing[p].target
        gone == Consumable(p) /\ c # NoConnector /\ status[c] \notin Live /\ ~Locked(c)
    IN /\ ReadyToFinish(r) /\ (~Consumable(p) \/ gone)
       /\ redeem' = [redeem EXCEPT ![r].pc = "refused"]
       /\ pairing' = IF gone /\ MultiTenant THEN [pairing EXCEPT ![p].used = TRUE] ELSE pairing
       /\ UNCHANGED <<status, tokenOf, hasSite, held, session, registry, reports,
                      op, kick, missed, crashes>>

(* enroll: the answer arrives and the agent writes the token to its volume.  *)
(* An answer that is lost, or a crash before the write, is this action never *)
(* happening.                                                                *)
AgentStoresToken(r) ==
    /\ redeem[r].pc = "done" /\ r \notin held
    /\ held' = held \cup {r}
    /\ UNCHANGED <<status, tokenOf, hasSite, pairing, redeem, session, registry, reports,
                   op, kick, missed, crashes>>

----------------------------------------------------------------------------
(* Tunnel sessions *)

(* The revocations of c that have swept the registry but not yet committed.  *)
Unseen(c) == {o \in AdminOps : /\ op[o].kind = "revoke" /\ op[o].conn = c
                               /\ op[o].pc = "kicking" /\ kick[o] = "done"}

Authed(s, c, t) ==
    /\ session' = [session EXCEPT ![s] = [pc |-> "authed", conn |-> c, tok |-> t, open |-> TRUE]]
    /\ missed' = [o \in AdminOps |-> IF o \in Unseen(c) THEN missed[o] \cup {s} ELSE missed[o]]

(* validateConnectorToken, self-hosted: one read of the rows not revoked.    *)
TunnelAuth(s, c, t) ==
    /\ ~MultiTenant /\ session[s].pc = "idle" /\ t \in held
    /\ status[c] \in Live /\ tokenOf[c] = t
    /\ Authed(s, c, t)
    /\ UNCHANGED <<status, tokenOf, hasSite, pairing, redeem, held, registry, reports,
                   op, kick, crashes>>

(* validateConnectorToken, cloud: the token is matched over all rows, then   *)
(* the matched row's status is read in its tenant's scope.                   *)
TunnelMatch(s, c, t) ==
    /\ MultiTenant /\ session[s].pc = "idle" /\ t \in held
    /\ status[c] \in Rows /\ tokenOf[c] = t
    /\ session' = [session EXCEPT ![s] = [pc |-> "matched", conn |-> c, tok |-> t, open |-> FALSE]]
    /\ UNCHANGED <<status, tokenOf, hasSite, pairing, redeem, held, registry, reports,
                   op, kick, missed, crashes>>

TunnelStatusCheck(s) ==
    LET c == session[s].conn
    IN /\ session[s].pc = "matched"
       /\ IF status[c] \in Live
          THEN Authed(s, c, session[s].tok)
          ELSE session' = [session EXCEPT ![s].pc = "gone"] /\ UNCHANGED missed
       /\ UNCHANGED <<status, tokenOf, hasSite, pairing, redeem, held, registry, reports,
                      op, kick, crashes>>

(* The WSS upgrade and yamux succeed: Registry.Set closes the session it     *)
(* replaces, and ReportStatus(ONLINE) leaves for the manager.                *)
TunnelRegister(s) ==
    LET c == session[s].conn
        old == registry[c]
    IN /\ session[s].pc = "authed"
       /\ session' = [u \in Sessions |->
                        IF u = s THEN [session[s] EXCEPT !.pc = "registered"]
                        ELSE IF u = old THEN [session[u] EXCEPT !.open = FALSE]
                        ELSE session[u]]
       /\ registry' = [registry EXCEPT ![c] = s]
       /\ reports' = reports \cup {<<s, "ONLINE">>}
       /\ UNCHANGED <<status, tokenOf, hasSite, pairing, redeem, held, op, kick, missed, crashes>>

(* The upgrade fails: the handler returns before it registered anything.     *)
TunnelUpgradeFails(s) ==
    /\ session[s].pc = "authed"
    /\ session' = [session EXCEPT ![s] = [@ EXCEPT !.pc = "gone", !.open = FALSE]]
    /\ UNCHANGED <<status, tokenOf, hasSite, pairing, redeem, held, registry, reports,
                   op, kick, missed, crashes>>

(* ReportStatus returns (answered, failed, or timed out after 10 s with the  *)
(* call still under way) and the handler blocks on the session.              *)
TunnelServe(s) ==
    /\ session[s].pc = "registered"
    /\ session' = [session EXCEPT ![s].pc = "serving"]
    /\ UNCHANGED <<status, tokenOf, hasSite, pairing, redeem, held, registry, reports,
                   op, kick, missed, crashes>>

(* The peer goes away (yamux keepalive).                                     *)
TunnelDrops(s) ==
    /\ session[s].pc \in {"registered", "serving"} /\ session[s].open
    /\ session' = [session EXCEPT ![s].open = FALSE]
    /\ UNCHANGED <<status, tokenOf, hasSite, pairing, redeem, held, registry, reports,
                   op, kick, missed, crashes>>

(* Mutant: the cleanup reports OFFLINE but leaves its registry entry.        *)
TunnelCleanupLeaks(s) ==
    LET c == session[s].conn
        same == registry[c] = s
    IN /\ session[s].pc = "serving" /\ ~session[s].open
       /\ session' = [session EXCEPT ![s].pc = "gone"]
       /\ reports' = IF same THEN reports \cup {<<s, "OFFLINE">>} ELSE reports
       /\ UNCHANGED <<status, tokenOf, hasSite, pairing, redeem, held, registry, op, kick, missed,
                      crashes>>

(* The deferred cleanup of HandleTunnel: RemoveIfSame, and OFFLINE only if   *)
(* this session was still the registered one.                                *)
TunnelCleanup(s) ==
    LET c == session[s].conn
        same == registry[c] = s
    IN /\ session[s].pc = "serving" /\ ~session[s].open
       /\ session' = [session EXCEPT ![s].pc = "gone"]
       /\ registry' = IF same THEN [registry EXCEPT ![c] = NoSession] ELSE registry
       /\ reports' = IF same THEN reports \cup {<<s, "OFFLINE">>} ELSE reports
       /\ UNCHANGED <<status, tokenOf, hasSite, pairing, redeem, held, op, kick, missed, crashes>>

(* POST /api/internal/connector/status: never overwrites REVOKED.            *)
ApplyReport(s, st) ==
    LET c == session[s].conn
    IN /\ <<s, st>> \in reports /\ ~Locked(c)
       /\ reports' = reports \ {<<s, st>>}
       /\ status' = IF status[c] \in Live THEN [status EXCEPT ![c] = st] ELSE status
       /\ UNCHANGED <<tokenOf, hasSite, pairing, redeem, held, session, registry,
                      op, kick, missed, crashes>>

(* ReportStatus is best-effort: the call fails and nobody retries it.        *)
LoseReport(s, st) ==
    /\ <<s, st>> \in reports
    /\ reports' = reports \ {<<s, st>>}
    /\ UNCHANGED <<status, tokenOf, hasSite, pairing, redeem, held, session, registry,
                   op, kick, missed, crashes>>

(* The data plane restarts: sessions, registry and the /kick calls it was    *)
(* serving are gone, and no OFFLINE is reported.                             *)
DataplaneRestarts ==
    /\ crashes < MaxCrashes
    /\ crashes' = crashes + 1
    /\ session' = [s \in Sessions |-> IF session[s].pc = "idle" THEN session[s]
                                      ELSE [session[s] EXCEPT !.pc = "gone", !.open = FALSE]]
    /\ registry' = [c \in Connectors |-> NoSession]
    /\ kick' = [o \in AdminOps |-> IF kick[o] \in {"sent", "closed"} THEN "lost" ELSE kick[o]]
    /\ UNCHANGED <<status, tokenOf, hasSite, pairing, redeem, held, reports, op, missed>>

----------------------------------------------------------------------------
(* Administrator requests *)

(* What a request has written reaches the database: at once when self-hosted, *)
(* at the commit that ends the request in the cloud.                         *)
Written(o) ==
    LET c == op[o].conn
        revoking == op[o].kind = "revoke"
    IN /\ status' = [status EXCEPT ![c] = IF revoking THEN "REVOKED" ELSE "PENDING"]
       /\ tokenOf' = IF revoking THEN tokenOf ELSE [tokenOf EXCEPT ![c] = NoToken]

(* DELETE /api/admin/connectors: find, update to REVOKED, then kick.         *)
Revoke(o, c) ==
    /\ op[o].pc = "idle" /\ status[c] \in Rows /\ ~Locked(c)
    /\ op' = [op EXCEPT ![o] = [NewOp EXCEPT !.kind = "revoke", !.pc = "kicking", !.conn = c]]
    /\ kick' = [kick EXCEPT ![o] = "sent"]
    /\ status' = IF MultiTenant THEN status ELSE [status EXCEPT ![c] = "REVOKED"]
    /\ UNCHANGED <<tokenOf, hasSite, pairing, redeem, held, session, registry, reports,
                   missed, crashes>>

(* POST /api/admin/connectors/[id]/repair: canRepairConnector on the row     *)
(* read, then a pairing bound to the connector.                              *)
RepairCheck(o, c, inval) ==
    /\ op[o].pc = "idle" /\ status[c] \in Live
    /\ op' = [op EXCEPT ![o] = [NewOp EXCEPT !.kind = "repair", !.pc = "checked",
                                             !.conn = c, !.inval = inval]]
    /\ UNCHANGED <<status, tokenOf, hasSite, pairing, redeem, held, session, registry, reports,
                   kick, missed, crashes>>

BoundPairing(c) == [NewPairing EXCEPT !.st = "row", !.target = c]

RepairPair(o, p) ==
    LET c == op[o].conn
        visible == ~MultiTenant \/ ~op[o].inval
    IN /\ op[o].kind = "repair" /\ op[o].pc = "checked"
       /\ status[c] \in Rows
       /\ pairing[p].st = "none" /\ \A q \in AdminOps : op[q].p # p
       /\ op' = [op EXCEPT ![o] = [@ EXCEPT !.p = p, !.pc = IF op[o].inval THEN "paired" ELSE "done"]]
       /\ pairing' = IF visible THEN [pairing EXCEPT ![p] = BoundPairing(c)] ELSE pairing
       /\ UNCHANGED <<status, tokenOf, hasSite, redeem, held, session, registry, reports,
                      kick, missed, crashes>>

(* invalidateNow: the hash becomes a throwaway and the status PENDING, by an *)
(* update with no condition on the status it overwrites; then the kick.      *)
RepairInvalidate(o) ==
    LET c == op[o].conn
    IN /\ op[o].pc = "paired" /\ status[c] \in Rows /\ ~Locked(c)
       /\ op' = [op EXCEPT ![o].pc = "kicking"]
       /\ kick' = [kick EXCEPT ![o] = "sent"]
       /\ IF MultiTenant THEN UNCHANGED <<status, tokenOf>> ELSE Written(o)
       /\ UNCHANGED <<hasSite, pairing, redeem, held, session, registry, reports,
                      missed, crashes>>

(* POST /kick on the data plane: close what is registered, then remove the   *)
(* entry, whatever it is by then.                                            *)
KickClose(o) ==
    LET s == registry[op[o].conn]
    IN /\ kick[o] = "sent"
       /\ kick' = [kick EXCEPT ![o] = "closed"]
       /\ session' = IF s = NoSession THEN session ELSE [session EXCEPT ![s].open = FALSE]
       /\ UNCHANGED <<status, tokenOf, hasSite, pairing, redeem, held, registry, reports,
                      op, missed, crashes>>

(* Mutant: the kick closes the session but does not remove the entry.        *)
KickRemoveKeeps(o) ==
    LET c == op[o].conn
    IN /\ kick[o] = "closed"
       /\ kick' = [kick EXCEPT ![o] = "done"]
       /\ missed' = [missed EXCEPT ![o] = {s \in Sessions : session[s].pc = "authed"
                                                            /\ session[s].conn = c}]
       /\ UNCHANGED <<status, tokenOf, hasSite, pairing, redeem, held, session, registry, reports,
                      op, crashes>>

KickRemove(o) ==
    LET c == op[o].conn
    IN /\ kick[o] = "closed"
       /\ kick' = [kick EXCEPT ![o] = "done"]
       /\ registry' = [registry EXCEPT ![c] = NoSession]
       /\ missed' = [missed EXCEPT ![o] = {s \in Sessions : session[s].pc = "authed"
                                                            /\ session[s].conn = c}]
       /\ UNCHANGED <<status, tokenOf, hasSite, pairing, redeem, held, session, reports,
                      op, crashes>>

KickLost(o) ==
    /\ kick[o] = "sent"
    /\ kick' = [kick EXCEPT ![o] = "lost"]
    /\ UNCHANGED <<status, tokenOf, hasSite, pairing, redeem, held, session, registry, reports,
                   op, missed, crashes>>

(* The kick answered, failed, or timed out after 5 s; the request returns    *)
(* and, in the cloud, commits.                                               *)
KickReturns(o) ==
    LET c == op[o].conn
    IN /\ op[o].pc = "kicking"
       /\ op' = [op EXCEPT ![o].pc = "done"]
       /\ IF MultiTenant
          THEN /\ Written(o)
               /\ pairing' = IF op[o].kind = "repair"
                             THEN [pairing EXCEPT ![op[o].p] = BoundPairing(c)] ELSE pairing
          ELSE UNCHANGED <<status, tokenOf, pairing>>
       /\ UNCHANGED <<hasSite, redeem, held, session, registry, reports, kick, missed, crashes>>

(* The manager dies mid-request, a row the request updates is gone, or (in   *)
(* the cloud) the scope's budget expires during the kick and the transaction *)
(* is rolled back.                                                           *)
RequestFails(o) ==
    /\ op[o].pc \in {"checked", "paired", "kicking"}
    /\ op' = [op EXCEPT ![o].pc = "failed"]
    /\ UNCHANGED <<status, tokenOf, hasSite, pairing, redeem, held, session, registry, reports,
                   kick, missed, crashes>>

(* POST /api/admin/connectors/[id]/delete: canDeleteConnector on the row     *)
(* read, then the delete, which cascades to sites and bound pairings.        *)
DeleteCheck(o, c) ==
    /\ op[o].pc = "idle" /\ status[c] = "REVOKED" /\ ~hasSite[c]
    /\ op' = [op EXCEPT ![o] = [NewOp EXCEPT !.kind = "delete", !.pc = "checked", !.conn = c]]
    /\ UNCHANGED <<status, tokenOf, hasSite, pairing, redeem, held, session, registry, reports,
                   kick, missed, crashes>>

DeleteRow(o) ==
    LET c == op[o].conn
    IN /\ op[o].kind = "delete" /\ op[o].pc = "checked" /\ status[c] \in Rows /\ ~Locked(c)
       /\ MultiTenant => \A q \in AdminOps : op[q].conn # c \/ op[q].pc # "paired"
       /\ op' = [op EXCEPT ![o].pc = "done"]
       /\ status' = [status EXCEPT ![c] = "DELETED"]
       /\ tokenOf' = [tokenOf EXCEPT ![c] = NoToken]
       /\ hasSite' = [hasSite EXCEPT ![c] = FALSE]
       /\ pairing' = [p \in Pairings |-> IF pairing[p].st = "row" /\ pairing[p].target = c
                                         THEN [pairing[p] EXCEPT !.st = "deleted"]
                                         ELSE pairing[p]]
       /\ UNCHANGED <<redeem, held, session, registry, reports, kick, missed, crashes>>

(* POST /api/admin/sites: any connector row will do, a revoked one included. *)
CreateSite(c) ==
    /\ status[c] \in Rows \cap SiteStatuses /\ ~hasSite[c]
    /\ hasSite' = [hasSite EXCEPT ![c] = TRUE]
    /\ UNCHANGED <<status, tokenOf, pairing, redeem, held, session, registry, reports,
                   op, kick, missed, crashes>>

(* DELETE /api/admin/sites/[id].                                             *)
DeleteSite(c) ==
    /\ hasSite[c]
    /\ hasSite' = [hasSite EXCEPT ![c] = FALSE]
    /\ UNCHANGED <<status, tokenOf, pairing, redeem, held, session, registry, reports,
                   op, kick, missed, crashes>>

----------------------------------------------------------------------------
PairingNext ==
    \/ \E p \in Pairings : CreatePairing(p) \/ PairingExpires(p) \/ DeletePairing(p)
    \/ \E r \in Redeems : RedeemRefetch(r) \/ RedeemRotate(r) \/ RedeemRefused(r)
                          \/ AgentStoresToken(r)
    \/ \E r \in Redeems, p \in Pairings : RedeemScan(r, p)
    \/ \E r \in Redeems, c \in Connectors : RedeemCreate(r, c)

TunnelNext ==
    \/ \E s \in Sessions, c \in Connectors, t \in Redeems : TunnelAuth(s, c, t)
                                                            \/ TunnelMatch(s, c, t)
    \/ \E s \in Sessions : \/ TunnelStatusCheck(s) \/ TunnelRegister(s) \/ TunnelUpgradeFails(s)
                           \/ TunnelServe(s) \/ TunnelDrops(s) \/ TunnelCleanup(s)
    \/ \E s \in Sessions, st \in {"ONLINE", "OFFLINE"} : ApplyReport(s, st) \/ LoseReport(s, st)
    \/ DataplaneRestarts

AdminNext ==
    \/ \E o \in AdminOps, c \in Connectors : Revoke(o, c) \/ DeleteCheck(o, c)
    \/ \E o \in AdminOps, c \in Connectors, inval \in RepairModes : RepairCheck(o, c, inval)
    \/ \E o \in AdminOps, p \in Pairings : RepairPair(o, p)
    \/ \E o \in AdminOps : \/ RepairInvalidate(o) \/ KickClose(o) \/ KickRemove(o) \/ KickLost(o)
                           \/ KickReturns(o) \/ RequestFails(o) \/ DeleteRow(o)
    \/ \E c \in Connectors : CreateSite(c) \/ DeleteSite(c)

Next == PairingNext \/ TunnelNext \/ AdminNext

Spec == Init /\ [][Next]_vars

(* A handler goroutine whose session closed always gets to its deferred      *)
(* cleanup: ReportStatus is bounded by a 10 s timeout and nothing else waits. *)
FairSpec == Spec /\ \A s \in Sessions : WF_vars(TunnelServe(s)) /\ WF_vars(TunnelCleanup(s))

----------------------------------------------------------------------------
(* Properties *)

(* A pairing code buys one token: of all the requests racing to redeem it,   *)
(* at most one obtains a connector (finishRedeem's conditional consume).     *)
CodeRedeemedOnce ==
    \A r, q \in Redeems : (r # q /\ redeem[r].got # NoConnector /\ redeem[q].got # NoConnector)
                           => redeem[r].p # redeem[q].p

(* A token that was rotated away never validates again: the only token a     *)
(* step installs is one minted in that step (finishRedeem, repair).          *)
TokenNeverReturns ==
    [][\A c \in Connectors : tokenOf'[c] # tokenOf[c] =>
          \/ tokenOf'[c] = NoToken
          \/ redeem[tokenOf'[c]].got = NoConnector]_vars

(* A revoked connector stays revoked until its row is deleted: neither a     *)
(* late status report nor a redeem that raced the revocation brings it back. *)
RevokedIsFinal ==
    [][\A c \in Connectors : status[c] = "REVOKED" => status'[c] \in {"REVOKED", "DELETED"}]_vars

(* canDeleteConnector's first rule still holds when the row is deleted, two  *)
(* queries after it was checked.                                             *)
OnlyRevokedDeleted ==
    [][\A c \in Connectors : (status'[c] = "DELETED" /\ status[c] # "DELETED")
                              => status[c] = "REVOKED"]_vars

(* The same for the second rule: the delete never cascades to a site.        *)
(* Violated: a site may be created between the check and the delete.         *)
DeleteSparesSites ==
    [][\A c \in Connectors : (status'[c] = "DELETED" /\ status[c] # "DELETED")
                              => ~hasSite[c]]_vars

(* The registry never leaks: an entry belongs to a handler that has yet to   *)
(* run its cleanup, for that very connector (Registry.Set / RemoveIfSame).   *)
RegistryEntryHasHandler ==
    \A c \in Connectors : registry[c] # NoSession =>
        /\ session[registry[c]].pc \in {"registered", "serving"}
        /\ session[registry[c]].conn = c

(* When a revocation has returned and its kick was served, nothing of the    *)
(* connector is registered, so nothing can be proxied to it.  Violated by a  *)
(* tunnel that had authenticated and registers after the kick.               *)
RevokedNotProxyable ==
    \A o \in AdminOps :
        (op[o].kind = "revoke" /\ op[o].pc = "done" /\ kick[o] = "done")
        => registry[op[o].conn] = NoSession

(* What the code guarantees instead: a tunnel that survives a served kick    *)
(* had passed AuthConnector when the kick ran and not yet registered, or (in *)
(* the cloud) authenticated between the kick and the commit.                 *)
RevokeMissesOnlyHandshakes ==
    \A o \in AdminOps :
        LET s == registry[op[o].conn]
        IN (op[o].kind = "revoke" /\ op[o].pc = "done" /\ kick[o] = "done")
           => s = NoSession \/ s \in missed[o]

(* A session that died is taken out of the registry, so the data plane stops *)
(* proxying to it (HandleTunnel's deferred RemoveIfSame).                    *)
DeadSessionDeregistered ==
    \A c \in Connectors, s \in Sessions :
        (registry[c] = s /\ ~session[s].open) ~> (registry[c] # s)

----------------------------------------------------------------------------
(* The inductive invariants the proofs use *)

Final == {"REVOKED", "DELETED"}

(* A code is redeemed once because an answered request consumed it, a        *)
(* consumed code was visible before, and the codes of repairs that have not  *)
(* committed are not visible and not shared.                                 *)
AnsweredConsumed ==
    \A r \in Redeems : redeem[r].got # NoConnector =>
        redeem[r].p \in Pairings /\ redeem[r].pc = "done" /\ pairing[redeem[r].p].used

ConsumedVisible == \A p \in Pairings : pairing[p].used => pairing[p].st # "none"

RepairHidden ==
    \A o \in AdminOps :
        (MultiTenant /\ op[o].kind = "repair" /\ op[o].pc \in {"paired", "kicking"})
        => pairing[op[o].p].st = "none"

RepairsApart == \A o, q \in AdminOps : (o # q /\ op[o].p # NoPairing) => op[o].p # op[q].p

CodeInv == CodeRedeemedOnce /\ AnsweredConsumed /\ ConsumedVisible /\ RepairHidden /\ RepairsApart

(* While no repair asks for invalidateNow, what was revoked stays revoked.   *)
RevokeInv ==
    \A o \in AdminOps :
        /\ op[o].kind = "repair" => ~op[o].inval
        /\ op[o].pc # "paired"
        /\ op[o].pc = "kicking" => op[o].kind = "revoke"
        /\ op[o].kind = "delete" => status[op[o].conn] \in Final
        /\ op[o].kind = "revoke" /\ (op[o].pc = "done" \/ (op[o].pc = "kicking" /\ ~MultiTenant))
           => status[op[o].conn] \in Final

(* A handler of a revoked connector that the kick has not removed is on the  *)
(* list of those it could not see.                                           *)
MissedInv ==
    \A o \in AdminOps :
        (op[o].kind = "revoke" /\ op[o].pc \in {"kicking", "done"} /\ kick[o] = "done")
        => /\ registry[op[o].conn] \in missed[o] \cup {NoSession}
           /\ \A s \in Sessions : (session[s].pc = "authed" /\ session[s].conn = op[o].conn)
                                   => s \in missed[o]
============================================================================
