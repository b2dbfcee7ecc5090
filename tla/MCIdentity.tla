---------------------------- MODULE MCIdentity ----------------------------
(***************************************************************************)
(* Accounts and sessions, checked in one run: each behaviour is one of one *)
(* part, the others resting in an initial state of theirs.  The concurrent *)
(* requests of every part are the same two model values, so that one       *)
(* permutation serves them all.                                            *)
(***************************************************************************)
EXTENDS Enrollment, SignIn, OidcFlow, MobileApp, TLC

VARIABLE part

Parts == {"enrollment", "signin", "oidc", "app"}

RequestSymmetry == Permutations(Tabs)

\* The part of the behaviour, and where the others rest.
Resting ==
    /\ (enrolScope # {}) <=> (part = "enrollment")
    /\ (signScope # {}) <=> (part = "signin")
    /\ part # "enrollment" => deployment = "self"
    /\ "keys" \notin enrolScope \/ deployment # "self" => jarOf = [t \in Tabs |-> "b1"]
    /\ \E t \in Tabs : jarOf[t] = "b1"
    /\ deployment = "platform" => "keys" \in enrolScope
    /\ part # "oidc" => flowHost = "self" /\ ~envOidc

IdentityInit ==
    /\ part \in Parts
    /\ EnrolInit /\ SignInInit /\ FlowInit /\ AppInit
    /\ Resting

IdentityNext ==
    \/ part = "enrollment" /\ EnrolNext /\ UNCHANGED <<part, signVars, flowVars, appVars>>
    \/ part = "signin" /\ SignInNext /\ UNCHANGED <<part, enrolVars, flowVars, appVars>>
    \/ part = "oidc" /\ FlowNext /\ UNCHANGED <<part, enrolVars, signVars, appVars>>
    \/ part = "app" /\ AppNext /\ UNCHANGED <<part, enrolVars, signVars, flowVars>>

IdentitySpec == IdentityInit /\ [][IdentityNext]_<<part, enrolVars, signVars, flowVars, appVars>>
=============================================================================
