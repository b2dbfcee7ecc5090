------------------------------ MODULE MobileApp -----------------------------
(***************************************************************************)
(* The phone app's sign-in: the hand-off cookie, the one-time code bound   *)
(* to the attempt's challenge, its exchange for a bearer token, the calls  *)
(* made with it and the push registrations that hang on it.  The browser   *)
(* is the phone's, shared by its attempts; a session of the console that   *)
(* carries an attempt comes from SignIn.  Rows are numbered as they are    *)
(* written and never reused.                                               *)
(***************************************************************************)
EXTENDS Integers, FiniteSets

CONSTANTS AppUsers,   \* accounts
          Attempts,   \* sign-ins begun in the app, each with its own challenge
          PushTokens, \* the phones' push tokens
          MaxRows     \* bound: code rows written

ASSUME AppAssumption == MaxRows \in Nat

VARIABLES appUser,    \* role and status of an account
          handoffJar, \* the hand-off cookie: the challenge it remembers
          browser,    \* who the browser's console session belongs to
          appRow,     \* Session rows with `mobile` set
          written,    \* how many were written
          attempt,    \* the attempts: code received, exchange under way, token
          issued,     \* history: tokens handed out for a row
          device      \* push registrations

appVars == <<appUser, handoffJar, browser, appRow, written, attempt, issued, device>>

AppRows == 1..MaxRows
NoAppRow == [kind |-> "none", user |-> "none", challenge |-> "none"]
NoDevice == [user |-> "none", row |-> 0]
Fresh == [pc |-> "new", code |-> 0, token |-> 0, verifier |-> "none", seen |-> "none"]
ConsoleRole(r) == r \in {"ADMIN", "OPERATOR", "AUDITOR"}

AppInit ==
    /\ appUser = [u \in AppUsers |-> [role |-> "ADMIN", active |-> TRUE]]
    /\ handoffJar = "none" /\ browser = "none"
    /\ appRow = [r \in AppRows |-> NoAppRow] /\ written = 0
    /\ attempt = [a \in Attempts |-> Fresh]
    /\ issued = [r \in AppRows |-> 0]
    /\ device = [t \in PushTokens |-> NoDevice]

\* Deleting session rows takes their push registrations with them (cascade).
Gone(R) ==
    /\ appRow' = [r \in AppRows |-> IF r \in R THEN NoAppRow ELSE appRow[r]]
    /\ device' = [t \in PushTokens |-> IF device[t].row \in R THEN NoDevice ELSE device[t]]

-----------------------------------------------------------------------------
(* Sign-in *)

\* GET /api/mobile/auth/start: the cookie remembers this attempt's challenge
\* (signHandoff); a later start overwrites it.
AppStart(a) ==
    /\ attempt[a] = Fresh
    /\ attempt' = [attempt EXCEPT ![a].pc = "waiting", ![a].verifier = a]
    /\ handoffJar' = a
    /\ UNCHANGED <<appUser, browser, appRow, written, issued, device>>

\* The console's own sign-in in the phone's browser.
BrowserSignsIn(u) ==
    /\ browser = "none" /\ appUser[u].active
    /\ browser' = u
    /\ UNCHANGED <<appUser, handoffJar, appRow, written, attempt, issued, device>>

\* readHandoff: a cookie past its ten minutes reads as none.
HandoffExpires ==
    /\ handoffJar # "none" /\ handoffJar' = "none"
    /\ UNCHANGED <<appUser, browser, appRow, written, attempt, issued, device>>

\* issueMobileCode: a row that is a code, bound to the challenge.
IssueMobileCode(u, challenge) ==
    /\ written < MaxRows /\ written' = written + 1
    /\ appRow' = [appRow EXCEPT ![written + 1] = [kind |-> "code", user |-> u, challenge |-> challenge]]

\* GET /api/mobile/auth/finish: the cookie is spent, the browser's session is
\* ended, and a console user's code goes to the app, which hands it to an
\* attempt that waits.
AppFinish(a) ==
    /\ handoffJar # "none" /\ attempt[a].pc = "waiting"
    /\ handoffJar' = "none" /\ browser' = "none"
    /\ IF browser # "none" /\ appUser[browser].active /\ ConsoleRole(appUser[browser].role)
       THEN /\ IssueMobileCode(browser, handoffJar)
            /\ attempt' = [attempt EXCEPT ![a].pc = "code", ![a].code = written + 1]
       ELSE attempt' = [attempt EXCEPT ![a].pc = "failed"] /\ UNCHANGED <<appRow, written>>
    /\ UNCHANGED <<appUser, issued, device>>

\* POST /api/mobile/auth/exchange, first statement: the row of the code.
ExchangeRead(a) ==
    /\ attempt[a].pc = "code"
    /\ attempt' = [attempt EXCEPT ![a].pc = IF appRow[attempt[a].code].kind = "code" THEN "read" ELSE "failed",
                                  ![a].seen = appRow[attempt[a].code].challenge]
    /\ UNCHANGED <<appUser, handoffJar, browser, appRow, written, issued, device>>

\* The app sends the same code again while the first answer is under way.
ExchangeAgain(a, b) ==
    /\ attempt[a].pc \in {"code", "read"} /\ attempt[b] = Fresh
    /\ attempt' = [attempt EXCEPT ![b] = [attempt[a] EXCEPT !.pc = "code"]]
    /\ UNCHANGED <<appUser, handoffJar, browser, appRow, written, issued, device>>

\* pkceMatches: the verifier sent against the challenge that was read.
PkceMatches(a) == attempt[a].verifier = attempt[a].seen

\* redeemMobileCode: a late code or a wrong verifier deletes the row; otherwise
\* the hash is swapped while the row still holds the code's, and the token is
\* handed out if the account is active.
RedeemMobileCodeBlind(a, late) ==
    LET r == attempt[a].code IN
    /\ attempt[a].pc = "read"
    /\ appRow' = [appRow EXCEPT ![r] = [kind |-> "app", user |-> IF @.user = "none" THEN CHOOSE u \in AppUsers : TRUE ELSE @.user,
                                        challenge |-> "none"]]
    /\ issued' = [issued EXCEPT ![r] = @ + 1]
    /\ attempt' = [attempt EXCEPT ![a].pc = "done", ![a].token = r]
    /\ UNCHANGED <<appUser, handoffJar, browser, written, device>>

RedeemMobileCode(a, late) ==
    LET r == attempt[a].code
        row == appRow[r] IN
    /\ attempt[a].pc = "read"
    /\ IF late \/ ~PkceMatches(a)
       THEN Gone({r}) /\ attempt' = [attempt EXCEPT ![a].pc = "failed"] /\ UNCHANGED issued
       ELSE IF row.kind = "code"
       THEN /\ appRow' = [appRow EXCEPT ![r].kind = "app", ![r].challenge = "none"]
            /\ IF appUser[row.user].active
               THEN /\ issued' = [issued EXCEPT ![r] = @ + 1]
                    /\ attempt' = [attempt EXCEPT ![a].pc = "done", ![a].token = r]
               ELSE attempt' = [attempt EXCEPT ![a].pc = "failed"] /\ UNCHANGED issued
            /\ UNCHANGED device
       ELSE attempt' = [attempt EXCEPT ![a].pc = "failed"] /\ UNCHANGED <<appRow, issued, device>>
    /\ UNCHANGED <<appUser, handoffJar, browser, written>>

-----------------------------------------------------------------------------
(* Calls with the token *)

\* mobileSessionFromRequest and mobileRoute: the token's row, an active account,
\* and the role it has now.
Caller(a) == LET r == attempt[a].token IN
    IF attempt[a].pc = "done" /\ appRow[r].kind = "app" /\ appUser[appRow[r].user].active
       /\ ConsoleRole(appUser[appRow[r].user].role)
    THEN appRow[r].user ELSE "none"

\* POST /api/mobile/push/register: one token, one person, one sign-in.
RegisterPush(a, t) ==
    /\ Caller(a) # "none"
    /\ device' = [device EXCEPT ![t] = [user |-> Caller(a), row |-> attempt[a].token]]
    /\ UNCHANGED <<appUser, handoffJar, browser, appRow, written, attempt, issued>>

UnregisterPush(a, t) ==
    /\ Caller(a) # "none" /\ device[t].row = attempt[a].token
    /\ device' = [device EXCEPT ![t] = NoDevice]
    /\ UNCHANGED <<appUser, handoffJar, browser, appRow, written, attempt, issued>>

\* sendExpo: a token the push service no longer knows is dropped.
DeviceNotRegistered(t) ==
    /\ device[t] # NoDevice
    /\ device' = [device EXCEPT ![t] = NoDevice]
    /\ UNCHANGED <<appUser, handoffJar, browser, appRow, written, attempt, issued>>

\* POST /api/mobile/auth/logout: endMobileSession.
AppLogout(a) ==
    /\ attempt[a].pc = "done" /\ appRow[attempt[a].token].kind = "app" /\ appUser[appRow[attempt[a].token].user].active
    /\ Gone({attempt[a].token})
    /\ UNCHANGED <<appUser, handoffJar, browser, written, attempt, issued>>

\* The centre's sign-out, a removal or an administrator ends the rows of a
\* user, the app's with the others; the account may be disabled as well.
EndUser(u, disable) ==
    /\ appUser' = IF disable THEN [appUser EXCEPT ![u].active = FALSE] ELSE appUser
    /\ Gone({r \in AppRows : appRow[r].user = u})
    /\ browser' = IF browser = u THEN "none" ELSE browser
    /\ UNCHANGED <<handoffJar, written, attempt, issued>>

LowerRole(u) ==
    /\ appUser[u].role = "ADMIN"
    /\ appUser' = [appUser EXCEPT ![u].role = "STAFF"]
    /\ UNCHANGED <<handoffJar, browser, appRow, written, attempt, issued, device>>

AppNext ==
    \/ \E a \in Attempts :
         \/ AppStart(a) \/ AppFinish(a) \/ ExchangeRead(a) \/ AppLogout(a)
         \/ \E late \in BOOLEAN : RedeemMobileCode(a, late)
         \/ \E b \in Attempts : ExchangeAgain(a, b)
         \/ \E t \in PushTokens : RegisterPush(a, t) \/ UnregisterPush(a, t)
    \/ HandoffExpires
    \/ \E u \in AppUsers : BrowserSignsIn(u) \/ LowerRole(u) \/ \E disable \in BOOLEAN : EndUser(u, disable)
    \/ \E t \in PushTokens : DeviceNotRegistered(t)

AppSpec == AppInit /\ [][AppNext]_appVars

-----------------------------------------------------------------------------
(* Properties *)

\* The rows, attempts and registrations.
AppTypeOK ==
    /\ \A r \in AppRows : appRow[r].kind \in {"none", "code", "app"} /\ (r > written => appRow[r] = NoAppRow)
    /\ \A a \in Attempts : attempt[a].token # 0 => attempt[a].pc = "done" /\ attempt[a].token <= written
    /\ handoffJar \in Attempts \cup {"none"}

\* Repeated and racing exchanges of one code hand out one token.
OneTokenPerCode == \A r \in AppRows : issued[r] <= 1

\* A row that ended (sign-out at the centre, removal, logout, a burnt code) is
\* not brought back by an exchange that had read it, and never changes hands.
EndedStaysEnded ==
    [][\A r \in 1..written : appRow'[r] # appRow[r] =>
          appRow'[r] = NoAppRow \/ (appRow[r].kind = "code" /\ appRow'[r].user = appRow[r].user)]_appVars

\* A phone hears a workspace only through the sign-in it registered with: every
\* registration hangs on a live app session of the person it names, so whatever
\* ends the session silences the phone.
RegistrationsHaveSession ==
    \A t \in PushTokens : device[t] # NoDevice =>
        appRow[device[t].row].kind = "app" /\ appRow[device[t].row].user = device[t].user

\* A token is obtained only with the verifier of the challenge its code was
\* issued for: an attempt that received another attempt's code ends without one.
CodeBoundToAttempt ==
    [][\A a \in Attempts : attempt'[a].pc = "done" /\ attempt[a].pc # "done" =>
          attempt[a].verifier = appRow[attempt[a].code].challenge]_appVars

=============================================================================
