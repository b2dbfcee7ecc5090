------------------------------- MODULE MCJobs -------------------------------
(***************************************************************************)
(* What the scheduler keeps going, checked in one run with its fairness:   *)
(* the jobs fanned out over the tenants (Platform) and the erasures that   *)
(* are pushed to the connectors until they are confirmed (Recordings).     *)
(* Each behaviour is one of one part, the other resting in an initial      *)
(* state of its own and under no fairness.                                 *)
(***************************************************************************)
EXTENDS Platform, Recordings

VARIABLE part

Parts == {"platform", "recordings"}

MCRecScopes == {{"erase"}, {"erase", "record"}, {"erase", "retention"}, {"erase", "move"},
                {"move", "search"}, {"erase", "replay"}, {"move", "replay"}, {}}

\* Two recordings and two connectors.  The second recording exists from the
\* start where two of them matter: in the searches, and in the erasures that
\* share a push.  The first recording's site starts at the first connector.
RecordingsStart ==
    /\ RecInit
    /\ recRow["k2"].there => recScope \in {{"erase"}, {"move", "search"}}
    /\ recScope = {"erase", "record"} \/ recRow["k1"].there
    /\ recSite["k1"] = "c1"
    /\ recSite["k2"] = IF "search" \in recScope THEN "c2" ELSE "c1"
    /\ recFormat["k2"] = "rrweb"
    /\ "replay" \in recScope \/ recFormat["k1"] = "rrweb"
    /\ writer["k2"] = OverWriter
    /\ writer["k1"] = IF "record" \in recScope THEN NoWriter ELSE OverWriter

\* The part of the behaviour, and where the other rests.
Resting ==
    /\ (platScope # {}) <=> (part = "platform")
    /\ (recScope # {}) <=> (part = "recordings")
    /\ part # "recordings" => recOnline = Connectors

JobsInit ==
    /\ part \in Parts
    /\ PlatformInit /\ RecordingsStart
    /\ Resting

JobsNext ==
    \/ part = "platform" /\ PlatformNext /\ UNCHANGED <<part, recVars>>
    \/ part = "recordings" /\ RecNext /\ UNCHANGED <<part, platVars>>

\* PlatformFairness and RecFairness, each on its own part.
JobsFairness ==
    /\ \A j \in PlatformJobs : SF_platVars(part = "platform" /\ CronHit(j))
    /\ \A t \in Customers : WF_platVars(part = "platform" /\ RunJob(t))
    /\ WF_platVars(part = "platform" /\ \E t \in Customers : t \notin alive /\ JobThrows(t))
    /\ WF_recVars(part = "recordings" /\ ReconcilePendingErasures)
    /\ \A c \in Connectors :
         /\ WF_recVars(part = "recordings" /\ Connect(c))
         /\ SF_recVars(part = "recordings" /\ \E p \in pushes : p.conn = c /\ ApplyRecordingPolicy(p, {}))
    /\ WF_recVars(part = "recordings" /\ \E a \in acks : ErasureAck(a) \/ AckLost(a))
    /\ \A k \in RecKeys :
         /\ WF_recVars(part = "recordings" /\ (CommitRequest(k) \/ ExpireRequest(k)))
         /\ SF_recVars(part = "recordings" /\ \E p \in pushes : k \in p.keys /\ ApplyRecordingPolicy(p, {}))
         /\ SF_recVars(part = "recordings" /\ \E a \in acks : k \in a.keys /\ ErasureAck(a))

JobsSpec == JobsInit /\ [][JobsNext]_<<part, platVars, recVars>> /\ JobsFairness
=============================================================================
