---------------------------- MODULE AuditVerify ----------------------------
(* The pure functions of the audit chain: src/lib/audit/chain.ts, verify.ts, *)
(* anchor.ts and anchor-verify.ts (and admin-chain.ts, which mirrors them).  *)
(*                                                                           *)
(* SHA-256 is modelled by what the chain relies on: it is injective.  The    *)
(* hash of a row is therefore the sequence of everything hashed into it, one *)
(* [seq, ev] entry per row up to and including this one, and the genesis     *)
(* hash "" is the empty sequence.  A table is a set of rows; the verifier's  *)
(* array ordered by seq is the set read in that order.                       *)
EXTENDS Integers, Sequences

CONSTANTS Events      \* what a row attests: the canonicalised fields

Genesis == <<>>

(* computeHash: the previous hash and the canonical form of the row, which   *)
(* includes its seq.                                                         *)
ComputeHash(prev, e) == Append(prev, [seq |-> e.seq, ev |-> e.ev])

(* The row appendAuditEvents makes of one event on top of a chain head.      *)
Link(last, ev) ==
    LET seq == last.seq + 1
    IN [seq |-> seq, ev |-> ev, prev |-> last.hash,
        hash |-> ComputeHash(last.hash, [seq |-> seq, ev |-> ev])]

(* verifyChain (verifyAdminChain): every row recomputes, every row points at *)
(* the row before it, and the last row is the stored head.  The first row    *)
(* may point anywhere, and without rows there is nothing to object to.       *)
VerifyChain(evs, hd) ==
    \/ evs = {}
    \/ /\ \A e \in evs : ComputeHash(e.prev, e) = e.hash
       /\ \A e, f \in evs : (e.seq < f.seq /\ \A g \in evs : g.seq \notin (e.seq + 1)..(f.seq - 1))
                            => f.prev = e.hash
       /\ hd.row => \E e \in evs : /\ e.seq = hd.seq /\ e.hash = hd.hash
                                   /\ \A f \in evs : f.seq <= e.seq

(* Mutant: a chain that has an anchor is never anchored again.               *)
ShouldAnchorOnce(hd, lasts) == hd.seq > 0 /\ lasts = {}

(* shouldAnchor: there is something to anchor and the last anchor is not it. *)
ShouldAnchor(hd, lasts) ==
    /\ hd.seq > 0
    /\ \A a \in lasts : a.seq # hd.seq \/ a.hash # hd.hash

(* verifyOneAnchor, for a token that checks out: the table has no row at the *)
(* anchored position any more, or one with the anchored hash.                *)
VerifyOneAnchor(a, rows) == \A r \in rows : r.seq = a.seq => r.hash = a.hash
============================================================================
