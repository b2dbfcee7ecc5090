---------------------------- MODULE AuditChain ----------------------------
(* One tamper-evident audit chain (a tenant's access chain or admin chain)   *)
(* and everything that runs against it at the same time: transactions that   *)
(* append under the advisory lock, the backfill of rows from before the      *)
(* chain, the retention cron, the paging verifier and the anchoring cron.    *)
(*                                                                           *)
(* An appending transaction is invisible until it commits; the advisory lock *)
(* is transaction-scoped, so the commit or the rollback releases it.  That   *)
(* is true of a self-hosted append (its own transaction) and of a cloud one  *)
(* (the request's), which merely keeps the lock longer.  Every statement     *)
(* outside reads what is committed at that moment (READ COMMITTED).          *)
(*                                                                           *)
(* The access chain has retention and no legacy rows; the admin chain has    *)
(* legacy rows, is verified in one page and never purged.                    *)
EXTENDS AuditVerify, FiniteSets, FiniteSetsExt

CONSTANTS
    Writers,     \* transactions that append (or backfill) once each
    Batches,     \* the batches of events they may carry: non-empty sequences
    Legacy,      \* the rows without a seq, in createdAt order
    Retainers,   \* runs of the retention cron
    Verifiers,   \* runs of the verify route
    Anchorers,   \* runs of the anchor cron
    PageSize,    \* PAGE of the verify route
    NoWriter

ASSUME AuditChainAssumption ==
    /\ PageSize \in Nat \ {0} /\ NoWriter \notin Writers
    /\ Legacy \in Seq(Events) /\ Batches \subseteq Seq(Events)
    /\ \A i, j \in 1..Len(Legacy) : Legacy[i] = Legacy[j] => i = j

VARIABLES
    head,       \* the AuditChainState row; head.row: it exists
    rows,       \* the event table, rows with a seq
    legacy,     \* the event table, rows without one
    fresh,      \* events nobody has recorded yet
    lock,       \* holder of the advisory lock
    writer,     \* appending transactions
    expired,    \* events whose timestamp is before the retention cutoff
    retainer, verifier, anchorer,
    anchors     \* the anchor table

vars == <<head, rows, legacy, fresh, lock, writer, expired, retainer, verifier, anchorer, anchors>>

NoHead    == [row |-> FALSE, seq |-> 0, hash |-> Genesis]
NewWriter == [pc |-> "idle", fill |-> FALSE, batch |-> <<>>, last |-> NoHead, rows |-> {}]
NewVerify == [pc |-> "idle", head |-> NoHead, seen |-> {}, cursor |-> 0, purged |-> FALSE]

Init ==
    /\ head = NoHead /\ rows = {} /\ legacy = Legacy
    /\ fresh = {e \in Events : \A i \in 1..Len(Legacy) : Legacy[i] # e}
    /\ lock = NoWriter /\ writer = [w \in Writers |-> NewWriter]
    /\ expired = {} /\ retainer = [t \in Retainers |-> 0]
    /\ verifier = [v \in Verifiers |-> NewVerify]
    /\ anchorer = [a \in Anchorers |-> [pc |-> "idle", head |-> NoHead]] /\ anchors = {}

EventsOf(batch) == {batch[i] : i \in 1..Len(batch)}
Distinct(batch) == \A i, j \in 1..Len(batch) : batch[i] = batch[j] => i = j

----------------------------------------------------------------------------
(* appendAuditEvents, recordAdminAction and backfillAdminChain *)

(* A request has events to record, or an administrator asks for a backfill.  *)
AppendBegin(w, b) ==
    /\ writer[w].pc = "idle" /\ EventsOf(b) \subseteq fresh
    /\ Distinct(b)
    /\ fresh' = fresh \ EventsOf(b)
    /\ writer' = [writer EXCEPT ![w] = [@ EXCEPT !.pc = "waiting", !.batch = b]]
    /\ UNCHANGED <<head, rows, legacy, lock, expired, retainer, verifier, anchorer, anchors>>

BackfillBegin(w) ==
    /\ writer[w].pc = "idle" /\ Legacy # <<>>
    /\ writer' = [writer EXCEPT ![w] = [@ EXCEPT !.pc = "waiting", !.fill = TRUE]]
    /\ UNCHANGED <<head, rows, legacy, fresh, lock, expired, retainer, verifier, anchorer, anchors>>

(* Mutant: the append does not take the lock.                                *)
AppendLockFree(w) ==
    /\ writer[w].pc = "waiting"
    /\ lock' = w
    /\ writer' = [writer EXCEPT ![w].pc = "locked"]
    /\ UNCHANGED <<head, rows, legacy, fresh, expired, retainer, verifier, anchorer, anchors>>

(* pg_advisory_xact_lock *)
AppendLock(w) ==
    /\ writer[w].pc = "waiting" /\ lock = NoWriter
    /\ lock' = w
    /\ writer' = [writer EXCEPT ![w].pc = "locked"]
    /\ UNCHANGED <<head, rows, legacy, fresh, expired, retainer, verifier, anchorer, anchors>>

(* Mutant: the backfill takes the old rows whether or not they have a seq.   *)
AppendReadHeadAll(w) ==
    /\ writer[w].pc = "locked"
    /\ writer' = [writer EXCEPT ![w] = [@ EXCEPT !.pc = "chaining", !.last = [head EXCEPT !.row = TRUE],
                                                !.batch = IF writer[w].fill THEN Legacy ELSE writer[w].batch]]
    /\ UNCHANGED <<head, rows, legacy, fresh, lock, expired, retainer, verifier, anchorer, anchors>>

(* The upsert that creates or reads the head; a backfill first reads the     *)
(* rows without a seq and is finished when there are none.                   *)
AppendReadHead(w) ==
    LET done == writer[w].fill /\ legacy = <<>>
    IN /\ writer[w].pc = "locked"
       /\ lock' = IF done THEN NoWriter ELSE lock
       /\ writer' = [writer EXCEPT ![w] =
                        [@ EXCEPT !.pc = IF done THEN "done" ELSE "chaining",
                                  !.last = [head EXCEPT !.row = TRUE],
                                  !.batch = IF writer[w].fill THEN legacy ELSE writer[w].batch]]
       /\ UNCHANGED <<head, rows, legacy, fresh, expired, retainer, verifier, anchorer, anchors>>

(* One event of the batch: its seq and previous hash come from the event     *)
(* before it, the first one's from the head that was read.                   *)
AppendChain(w) ==
    LET r == Link(writer[w].last, writer[w].batch[1])
    IN /\ writer[w].pc = "chaining" /\ writer[w].batch # <<>>
       /\ writer' = [writer EXCEPT ![w] =
                        [@ EXCEPT !.batch = Tail(writer[w].batch), !.rows = writer[w].rows \cup {r},
                                  !.last = [row |-> TRUE, seq |-> r.seq, hash |-> r.hash]]]
       /\ UNCHANGED <<head, rows, legacy, fresh, lock, expired, retainer, verifier, anchorer, anchors>>

(* createMany, the head's update, and the commit.  The table's unique        *)
(* (tenantId, seq) refuses a position that is taken.                         *)
AppendCommit(w) ==
    /\ writer[w].pc = "chaining" /\ writer[w].batch = <<>>
    /\ \A r \in writer[w].rows, q \in rows : r.seq # q.seq
    /\ rows' = rows \cup writer[w].rows
    /\ head' = writer[w].last
    /\ legacy' = IF writer[w].fill THEN <<>> ELSE legacy
    /\ lock' = NoWriter
    /\ writer' = [writer EXCEPT ![w] = [NewWriter EXCEPT !.pc = "done"]]
    /\ UNCHANGED <<fresh, expired, retainer, verifier, anchorer, anchors>>

(* Mutant: the lock outlives a transaction that is rolled back.              *)
AppendAbortLocked(w) ==
    /\ writer[w].pc \in {"waiting", "locked", "chaining"}
    /\ writer' = [writer EXCEPT ![w] = [NewWriter EXCEPT !.pc = "done"]]
    /\ UNCHANGED <<head, rows, legacy, fresh, lock, expired, retainer, verifier, anchorer, anchors>>

(* The transaction is rolled back: an error, an expired budget, a crash.     *)
AppendAbort(w) ==
    /\ writer[w].pc \in {"waiting", "locked", "chaining"}
    /\ lock' = IF lock = w THEN NoWriter ELSE lock
    /\ writer' = [writer EXCEPT ![w] = [NewWriter EXCEPT !.pc = "done"]]
    /\ UNCHANGED <<head, rows, legacy, fresh, expired, retainer, verifier, anchorer, anchors>>

----------------------------------------------------------------------------
(* POST /api/cron/audit-retention *)

(* Time passes, and a row's timestamp drops out of the retention window.     *)
(* Timestamps are the data plane's, so rows need not age in seq order.       *)
EventExpires(e) ==
    /\ Retainers # {} /\ e \notin expired /\ \E r \in rows : r.ev = e
    /\ expired' = expired \cup {e}
    /\ UNCHANGED <<head, rows, legacy, fresh, lock, writer, retainer, verifier, anchorer, anchors>>

(* The newest seq among the rows before the cutoff.                          *)
RetentionBoundary(t) ==
    LET old == {r.seq : r \in {q \in rows : q.ev \in expired}}
    IN /\ retainer[t] = 0 /\ old # {}
       /\ retainer' = [retainer EXCEPT ![t] = Max(old)]
       /\ UNCHANGED <<head, rows, legacy, fresh, lock, writer, expired, verifier, anchorer, anchors>>

(* Mutant: only the rows before the cutoff are deleted, not the prefix.      *)
RetentionDeleteSlice(t) ==
    /\ retainer[t] > 0
    /\ rows' = {r \in rows : r.ev \notin expired}
    /\ retainer' = [retainer EXCEPT ![t] = 0]
    /\ verifier' = [v \in Verifiers |->
                      [verifier[v] EXCEPT !.purged = @ \/ (verifier[v].pc = "paging" /\ rows' # rows)]]
    /\ UNCHANGED <<head, legacy, fresh, lock, writer, expired, anchorer, anchors>>

(* deleteMany of the whole prefix up to it, then the commit; a verifier that *)
(* is between two pages has rows of it and will not get the rest.            *)
RetentionDelete(t) ==
    /\ retainer[t] > 0
    /\ rows' = {r \in rows : r.seq > retainer[t]}
    /\ retainer' = [retainer EXCEPT ![t] = 0]
    /\ verifier' = [v \in Verifiers |->
                      [verifier[v] EXCEPT !.purged = @ \/ (verifier[v].pc = "paging" /\ rows' # rows)]]
    /\ UNCHANGED <<head, legacy, fresh, lock, writer, expired, anchorer, anchors>>

(* The run fails after the lookup and deletes nothing.                       *)
RetentionFails(t) ==
    /\ retainer[t] > 0
    /\ retainer' = [retainer EXCEPT ![t] = 0]
    /\ UNCHANGED <<head, rows, legacy, fresh, lock, writer, expired, verifier, anchorer, anchors>>

----------------------------------------------------------------------------
(* GET /api/admin/audit/verify and /admin-verify *)

(* The head is read first, so rows appended later are left out.              *)
VerifyBegin(v) ==
    /\ verifier[v].pc # "paging"
    /\ verifier' = [verifier EXCEPT ![v] = [NewVerify EXCEPT !.pc = "paging", !.head = head]]
    /\ UNCHANGED <<head, rows, legacy, fresh, lock, writer, expired, retainer, anchorer, anchors>>

(* Mutant: the pages are not bounded by the head that was read.              *)
PageUnbounded(v) ==
    LET ahead == {r \in rows : r.seq > verifier[v].cursor}
    IN {r \in ahead : Cardinality({q \in ahead : q.seq < r.seq}) < PageSize}

(* The next page: the lowest rows behind the cursor, none beyond the head    *)
(* (a chain without a head row has no bound).                                *)
Page(v) ==
    LET ahead == {r \in rows : /\ r.seq > verifier[v].cursor
                               /\ verifier[v].head.row => r.seq <= verifier[v].head.seq}
    IN {r \in ahead : Cardinality({q \in ahead : q.seq < r.seq}) < PageSize}

(* A page; a short one is the last, and then the verdict is given.           *)
VerifyPage(v) ==
    LET batch == Page(v)
        seen == verifier[v].seen \cup batch
    IN /\ verifier[v].pc = "paging"
       /\ verifier' = [verifier EXCEPT ![v] =
                         [@ EXCEPT !.seen = seen,
                                   !.cursor = IF batch = {} THEN verifier[v].cursor ELSE Max({r.seq : r \in batch}),
                                   !.pc = IF Cardinality(batch) >= PageSize THEN "paging"
                                          ELSE IF VerifyChain(seen, verifier[v].head)
                                          THEN "ok" ELSE "broken"]]
       /\ UNCHANGED <<head, rows, legacy, fresh, lock, writer, expired, retainer, anchorer, anchors>>

----------------------------------------------------------------------------
(* runAnchorFor, from POST /api/cron/audit-anchor *)

AnchorReadHead(a) ==
    /\ anchorer[a].pc = "idle" /\ head.row
    /\ anchorer' = [anchorer EXCEPT ![a] = [pc |-> "head", head |-> head]]
    /\ UNCHANGED <<head, rows, legacy, fresh, lock, writer, expired, retainer, verifier, anchors>>

(* The newest anchor is read, and the timestamp is requested or skipped.     *)
AnchorDecide(a) ==
    LET last == {x \in anchors : \A y \in anchors : y.seq <= x.seq}
    IN /\ anchorer[a].pc = "head"
       /\ anchorer' = [anchorer EXCEPT ![a].pc = IF ShouldAnchor(anchorer[a].head, last)
                                                 THEN "asked" ELSE "idle"]
       /\ UNCHANGED <<head, rows, legacy, fresh, lock, writer, expired, retainer, verifier, anchors>>

(* Mutant: the anchor is stored for the head of now, not for the one the     *)
(* timestamp was requested for.                                              *)
AnchorStoreLate(a) ==
    /\ anchorer[a].pc = "asked"
    /\ anchors' = anchors \cup {[seq |-> head.seq, hash |-> anchorer[a].head.hash]}
    /\ anchorer' = [anchorer EXCEPT ![a].pc = "idle"]
    /\ UNCHANGED <<head, rows, legacy, fresh, lock, writer, expired, retainer, verifier>>

AnchorStore(a) ==
    /\ anchorer[a].pc = "asked"
    /\ anchors' = anchors \cup {[seq |-> anchorer[a].head.seq, hash |-> anchorer[a].head.hash]}
    /\ anchorer' = [anchorer EXCEPT ![a].pc = "idle"]
    /\ UNCHANGED <<head, rows, legacy, fresh, lock, writer, expired, retainer, verifier>>

(* The authority does not answer, or refuses; the next run tries again.      *)
AnchorFails(a) ==
    /\ anchorer[a].pc = "asked"
    /\ anchorer' = [anchorer EXCEPT ![a].pc = "idle"]
    /\ UNCHANGED <<head, rows, legacy, fresh, lock, writer, expired, retainer, verifier, anchors>>

----------------------------------------------------------------------------
WriterNext(w) ==
    \/ \E b \in Batches : AppendBegin(w, b)
    \/ BackfillBegin(w) \/ AppendLock(w) \/ AppendReadHead(w) \/ AppendChain(w)
    \/ AppendCommit(w) \/ AppendAbort(w)

RetentionNext ==
    \/ \E e \in Events : EventExpires(e)
    \/ \E t \in Retainers : RetentionBoundary(t) \/ RetentionDelete(t) \/ RetentionFails(t)

VerifyNext == \E v \in Verifiers : VerifyBegin(v) \/ VerifyPage(v)

AnchorNext ==
    \E a \in Anchorers : AnchorReadHead(a) \/ AnchorDecide(a) \/ AnchorStore(a) \/ AnchorFails(a)

Next == (\E w \in Writers : WriterNext(w)) \/ RetentionNext \/ VerifyNext \/ AnchorNext

Spec == Init /\ [][Next]_vars

(* A transaction that has the lock runs to its end; Postgres grants an       *)
(* advisory lock in the order it was asked for, so a waiter is not starved.  *)
(* The anchor cron keeps running and the authority answers now and then.     *)
Fairness ==
    /\ \A w \in Writers : /\ SF_vars(AppendLock(w))
                          /\ WF_vars(AppendReadHead(w) \/ AppendChain(w) \/ AppendCommit(w))
    /\ \A a \in Anchorers : /\ WF_vars(AnchorReadHead(a)) /\ WF_vars(AnchorDecide(a))
                            /\ SF_vars(AnchorStore(a))

FairSpec == Spec /\ Fairness

----------------------------------------------------------------------------
(* Properties *)

Entry == [seq : Nat, ev : Events]
Row   == [seq : Nat, ev : Events, prev : Seq(Entry), hash : Seq(Entry)]
ChainHead == [row : BOOLEAN, seq : Nat, hash : Seq(Entry)]
Transaction == [pc : {"idle", "waiting", "locked", "chaining", "done"}, fill : BOOLEAN,
                batch : Seq(Events), last : ChainHead, rows : SUBSET Row]
VerifyRun == [pc : {"idle", "paging", "ok", "broken"}, head : ChainHead, seen : SUBSET Row,
              cursor : Nat, purged : BOOLEAN]
AnchorRun == [pc : {"idle", "head", "asked"}, head : ChainHead]
Anchor == [seq : Nat, hash : Seq(Entry)]

TypeOK ==
    /\ head \in ChainHead /\ rows \in SUBSET Row /\ legacy \in Seq(Events) /\ fresh \in SUBSET Events
    /\ lock \in Writers \cup {NoWriter} /\ writer \in [Writers -> Transaction]
    /\ expired \in SUBSET Events /\ retainer \in [Retainers -> Nat]
    /\ verifier \in [Verifiers -> VerifyRun] /\ anchorer \in [Anchorers -> AnchorRun]
    /\ anchors \in SUBSET Anchor

(* Whatever appends, backfills and purges, the committed table verifies      *)
(* against the committed head (appendAuditEvents' lock, retention's prefix). *)
ChainIntact == VerifyChain(rows, head)

(* An event is chained at most once: two backfills, or a backfill and an     *)
(* append, never give the same event two positions.                          *)
ChainedOnce ==
    \A i, j \in 1..head.seq : i # j => head.hash[i].ev # head.hash[j].ev

(* The verifier's paging reads several snapshots.  On an untampered table it *)
(* objects only if retention deleted rows while it was reading.              *)
VerifierHonest == \A v \in Verifiers : verifier[v].pc = "broken" => verifier[v].purged

(* The verifier never reports an untampered chain as broken.  Violated when  *)
(* retention deletes rows between two of its pages.                          *)
VerifierNeverAlarms == \A v \in Verifiers : verifier[v].pc # "broken"

(* Every anchor stays true of the table: overlapping runs, and appends while *)
(* the authority is asked, never pin a position to a hash it does not have   *)
(* (runAnchorFor stores the head it read).                                   *)
AnchorsHold == \A a \in anchors : VerifyOneAnchor(a, rows)

(* The chain implements the append-only log: its history is the list of      *)
(* entries hashed into the head, and what is gone is what lies below the     *)
(* lowest row left.                                                          *)
History == [i \in 1..head.seq |-> head.hash[i].ev]
Purged  == IF rows = {} THEN head.seq ELSE Min({r.seq : r \in rows}) - 1

Log == INSTANCE AuditLog WITH log <- History, gone <- Purged

AppendOnly == Log!Spec

(* A request that waits for the lock gets it and finishes, whoever else      *)
(* appends.                                                                  *)
AppendFinishes == \A w \in Writers : writer[w].pc = "waiting" ~> writer[w].pc = "done"

(* Once nothing more is appended, the head gets anchored and stays so.       *)
AnchorCatchesUp == <>[](head.seq > 0 => [seq |-> head.seq, hash |-> head.hash] \in anchors)

----------------------------------------------------------------------------
(* The inductive invariants the proofs use *)

(* The first n entries of a hash, and a row that is the chain's own.         *)
Prefix(h, n) == [i \in 1..n |-> h[i]]

Genuine(r, h) ==
    /\ r.seq \in 1..Len(h) /\ h[r.seq] = [seq |-> r.seq, ev |-> r.ev]
    /\ r.prev = Prefix(h, r.seq - 1) /\ r.hash = Prefix(h, r.seq)

(* A head that was read some time ago is a prefix of the head of now.        *)
Earlier(hd, h) == hd.seq = Len(hd.hash) /\ hd.seq <= Len(h) /\ hd.hash = Prefix(h, hd.seq)

(* The rows are the chain's own and reach without a gap up to the head.      *)
TableInv ==
    /\ head.seq = Len(head.hash)
    /\ \A r \in rows : Genuine(r, head.hash)
    /\ \A r \in rows : \A n \in r.seq..head.seq : \E q \in rows : q.seq = n

(* What a transaction has chained so far continues the committed chain.      *)
Continues(last, new) ==
    /\ last.row /\ last.seq = Len(last.hash)
    /\ Earlier(head, last.hash)
    /\ \A r \in new : Genuine(r, last.hash) /\ r.seq > head.seq
    /\ \A n \in (head.seq + 1)..last.seq : \E r \in new : r.seq = n

(* Only the holder of the lock is between its read of the head and its       *)
(* commit, so what it read is still the head and its rows continue it.       *)
WriterInv ==
    \A w \in Writers :
        /\ writer[w].pc \in {"locked", "chaining"} <=> lock = w
        /\ writer[w].pc # "chaining" => writer[w].rows = {}
        /\ writer[w].pc = "chaining" => Continues(writer[w].last, writer[w].rows)

AnchorInv ==
    /\ \A a \in Anchorers : Earlier(anchorer[a].head, head.hash)
    /\ \A x \in anchors : Earlier(x, head.hash)

ChainInv == TableInv /\ WriterInv /\ AnchorInv

(* The events hashed into a chain, and those a transaction has in hand.      *)
Chained(h) == {h[i].ev : i \in 1..Len(h)}
Unrepeated(h) == \A i, j \in 1..Len(h) : h[i].ev = h[j].ev => i = j
Claim(t) == EventsOf(t.batch) \cup {r.ev : r \in t.rows}

(* An event is chained, old, not recorded yet, or in one transaction's hand; *)
(* a backfill has old rows in hand and only while it holds the lock.         *)
Apart(h, old, free) ==
    /\ Unrepeated(h) /\ Distinct(old)
    /\ Chained(h) \cap EventsOf(old) = {}
    /\ (Chained(h) \cup EventsOf(old)) \cap free = {}

Claims(t, h, old, free) ==
    /\ Distinct(t.batch)
    /\ t.pc = "idle" => ~t.fill /\ Claim(t) = {}
    /\ t.fill => Claim(t) \subseteq EventsOf(old)
    /\ t.fill /\ t.pc # "chaining" => Claim(t) = {}
    /\ ~t.fill => Claim(t) \cap (Chained(h) \cup EventsOf(old) \cup free) = {}
    /\ t.pc = "chaining" =>
          /\ Unrepeated(t.last.hash)
          /\ Chained(t.last.hash) = Chained(h) \cup {r.ev : r \in t.rows}
          /\ EventsOf(t.batch) \cap Chained(t.last.hash) = {}

OnceInv ==
    /\ Apart(head.hash, legacy, fresh)
    /\ \A w \in Writers : Claims(writer[w], head.hash, legacy, fresh)
    /\ \A w, u \in Writers : (w # u /\ ~writer[w].fill /\ ~writer[u].fill)
                              => Claim(writer[w]) \cap Claim(writer[u]) = {}

(* While retention has not interfered, a verifier has read exactly the rows  *)
(* up to its cursor, and the head it started from is part of the chain.      *)
Reading(run, hd, table) ==
    /\ Earlier(run.head, hd.hash)
    /\ run.pc = "paging" /\ ~run.purged =>
          /\ run.seen = {r \in table : r.seq <= run.cursor}
          /\ run.cursor <= hd.seq
          /\ run.head.row => run.cursor <= run.head.seq
    /\ run.pc = "broken" => run.purged

PagesInv == \A v \in Verifiers : Reading(verifier[v], head, rows)
============================================================================
