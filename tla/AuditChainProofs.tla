------------------------- MODULE AuditChainProofs -------------------------
(* Proofs about AuditChain: the committed table always verifies against the  *)
(* committed head, anchors stay true, and the chain implements AuditLog, for *)
(* any number of writers, verifiers, retention and anchor runs.              *)
EXTENDS AuditChain, TLAPS, SequenceTheorems, WellFoundedInduction, FiniteSetTheorems

----------------------------------------------------------------------------
(* Hashes are sequences of entries *)

(* A prefix of a hash is a hash of that length.                              *)
LEMMA PrefixType ==
    ASSUME NEW h \in Seq(Entry), NEW n \in 0..Len(h)
    PROVE  /\ Prefix(h, n) \in Seq(Entry) /\ Len(Prefix(h, n)) = n
           /\ \A i \in 1..n : Prefix(h, n)[i] = h[i]
  <1>1. \A i \in 1..n : h[i] \in Entry
    BY ElementOfSeq
  <1>2. Prefix(h, n) \in [1..n -> Entry]
    BY <1>1, Zenon DEF Prefix
  <1>3. n \in Nat
    OBVIOUS
  <1>4. Prefix(h, n) \in Seq(Entry)
    BY <1>2, <1>3, IsASeq DEF Prefix
  <1>5. DOMAIN Prefix(h, n) = 1..n
    BY Zenon DEF Prefix
  <1>6. Len(Prefix(h, n)) = n
    BY <1>3, <1>4, <1>5, LenProperties
  <1> QED BY <1>4, <1>6, Zenon DEF Prefix

(* The whole of a hash, and a prefix of a prefix.                            *)
LEMMA PrefixWhole ==
    ASSUME NEW h \in Seq(Entry)
    PROVE  Prefix(h, Len(h)) = h
  BY PrefixType, SeqEqual, LenProperties

\* A prefix of a prefix is the shorter prefix.
LEMMA PrefixOfPrefix ==
    ASSUME NEW h \in Seq(Entry), NEW n \in 0..Len(h), NEW m \in 0..n
    PROVE  Prefix(Prefix(h, n), m) = Prefix(h, m)
  <1>1. \A i \in 1..m : Prefix(h, n)[i] = h[i]
    BY PrefixType
  <1> QED BY <1>1, Zenon DEF Prefix

(* Linking one more entry behind a hash keeps its prefixes.                  *)
LEMMA PrefixOfAppend ==
    ASSUME NEW h \in Seq(Entry), NEW x \in Entry, NEW n \in 0..Len(h)
    PROVE  Prefix(Append(h, x), n) = Prefix(h, n)
  <1>1. \A i \in 1..n : Append(h, x)[i] = h[i]
    BY AppendProperties
  <1> QED BY <1>1, Zenon DEF Prefix

(* The hash a verifier recomputes from a prefix is the next prefix.          *)
LEMMA AppendToPrefix ==
    ASSUME NEW h \in Seq(Entry), NEW n \in 1..Len(h)
    PROVE  Append(Prefix(h, n - 1), h[n]) = Prefix(h, n)
  <1>1. n - 1 \in 0..Len(h) /\ n \in 0..Len(h) /\ h[n] \in Entry
    BY ElementOfSeq
  <1>2. /\ Prefix(h, n - 1) \in Seq(Entry) /\ Len(Prefix(h, n - 1)) = n - 1
        /\ \A i \in 1..(n - 1) : Prefix(h, n - 1)[i] = h[i]
    BY <1>1, PrefixType, Zenon
  <1>3. /\ Prefix(h, n) \in Seq(Entry) /\ Len(Prefix(h, n)) = n
        /\ \A i \in 1..n : Prefix(h, n)[i] = h[i]
    BY <1>1, PrefixType, Zenon
  <1>4. /\ Append(Prefix(h, n - 1), h[n]) \in Seq(Entry)
        /\ Len(Append(Prefix(h, n - 1), h[n])) = n
        /\ \A i \in 1..(n - 1) : Append(Prefix(h, n - 1), h[n])[i] = Prefix(h, n - 1)[i]
        /\ Append(Prefix(h, n - 1), h[n])[n] = h[n]
    BY <1>1, <1>2, AppendProperties
  <1>5. \A i \in 1..n : Append(Prefix(h, n - 1), h[n])[i] = Prefix(h, n)[i]
    BY <1>1, <1>2, <1>3, <1>4
  <1> QED BY <1>3, <1>4, <1>5, SeqEqual, Zenon

(* A non-empty set of positions has a lowest one.                            *)
LEMMA LowestPosition ==
    ASSUME NEW S \in SUBSET Nat, S # {}
    PROVE  Min(S) \in S /\ \A n \in S : Min(S) <= n
  <1> DEFINE R == {ss \in Nat \X Nat : ss[1] < ss[2]}
  <1>1. IsWellFoundedOn(R, Nat)
    BY NatLessThanWellFounded, Zenon DEF OpToRel
  <1> HIDE DEF R
  <1>2. PICK m \in S : \A n \in S : ~(<<n, m>> \in R)
    BY <1>1, WFMin, Zenon
  <1>3. ASSUME NEW n \in S PROVE m <= n
    <2>1. n \in Nat /\ m \in Nat /\ ~(<<n, m>> \in R)
      BY <1>2, Zenon
    <2>2. n < m => <<n, m>> \in R
      BY <2>1, Zenon DEF R
    <2> QED BY <2>1, <2>2
  <1> QED BY <1>3, Zenon DEF Min

(* A non-empty bounded set of positions has a highest one.                   *)
LEMMA HighestPosition ==
    ASSUME NEW S \in SUBSET Nat, S # {}, NEW b \in Nat, \A n \in S : n <= b
    PROVE  Max(S) \in S /\ \A n \in S : n <= Max(S)
  <1> DEFINE T == {b - n : n \in S}
  <1>0. \A n \in S : n \in Nat /\ b - n \in Nat
    OBVIOUS
  <1>1. T \in SUBSET Nat /\ T # {}
    BY <1>0, Zenon
  <1>2. Min(T) \in T /\ \A n \in T : Min(T) <= n
    BY <1>1, LowestPosition, Zenon
  <1>3. PICK m \in S : Min(T) = b - m
    BY <1>2, Zenon
  <1>4. ASSUME NEW n \in S PROVE n <= m
    <2>1. b - m <= b - n
      BY <1>2, <1>3, Zenon
    <2> QED BY <1>0, <2>1
  <1> QED BY <1>4, Zenon DEF Max

----------------------------------------------------------------------------
(* Types *)

(* The values a fresh process starts from.                                   *)
LEMMA NewTypes ==
    NoHead \in ChainHead /\ NewWriter \in Transaction /\ NewVerify \in VerifyRun
  <1>1. <<>> \in Seq(Entry) /\ <<>> \in Seq(Events)
    BY EmptySeq, Zenon
  <1>2. NoHead \in ChainHead
    BY <1>1, Zenon DEF NoHead, ChainHead, Genesis
  <1>3. NewWriter \in Transaction
    BY <1>1, <1>2, Zenon DEF NewWriter, Transaction
  <1>4. NewVerify \in VerifyRun
    BY <1>2, Zenon DEF NewVerify, VerifyRun
  <1> QED BY <1>2, <1>3, <1>4, Zenon

(* A program that starts has the types.                                      *)
LEMMA InitType == Init => TypeOK
  <1> SUFFICES ASSUME Init PROVE TypeOK
    BY Zenon
  <1>1. [pc |-> "idle", head |-> NoHead] \in AnchorRun
    BY NewTypes, Zenon DEF AnchorRun
  <1> QED BY <1>1, NewTypes, AuditChainAssumption, Zenon DEF Init, TypeOK

(* The row an event becomes, and the head behind it.                         *)
LEMMA LinkType ==
    ASSUME NEW last \in ChainHead, NEW ev \in Events
    PROVE  /\ Link(last, ev) \in Row
           /\ Link(last, ev).seq = last.seq + 1 /\ Link(last, ev).prev = last.hash
           /\ Link(last, ev).ev = ev
           /\ Link(last, ev).hash = Append(last.hash, [seq |-> last.seq + 1, ev |-> ev])
           /\ [row |-> TRUE, seq |-> Link(last, ev).seq, hash |-> Link(last, ev).hash] \in ChainHead
  <1>1. last.seq \in Nat /\ last.hash \in Seq(Entry)
    BY Zenon DEF ChainHead
  <1>2. [seq |-> last.seq + 1, ev |-> ev] \in Entry
    BY <1>1 DEF Entry
  <1>3. Append(last.hash, [seq |-> last.seq + 1, ev |-> ev]) \in Seq(Entry)
    BY <1>1, <1>2, AppendProperties, Zenon
  <1>4. Link(last, ev) = [seq |-> last.seq + 1, ev |-> ev, prev |-> last.hash,
                          hash |-> Append(last.hash, [seq |-> last.seq + 1, ev |-> ev])]
    BY Zenon DEF Link, ComputeHash
  <1>5. Link(last, ev) \in Row
    BY <1>1, <1>3, <1>4 DEF Row
  <1>6. [row |-> TRUE, seq |-> last.seq + 1,
         hash |-> Append(last.hash, [seq |-> last.seq + 1, ev |-> ev])] \in ChainHead
    BY <1>1, <1>3 DEF ChainHead
  <1> QED BY <1>4, <1>5, <1>6

(* A writer's step keeps the types.                                          *)
LEMMA WriterType ==
    ASSUME TypeOK, NEW w \in Writers, WriterNext(w)
    PROVE  TypeOK'
  <1>t. /\ head \in ChainHead /\ rows \in SUBSET Row /\ legacy \in Seq(Events)
        /\ fresh \in SUBSET Events /\ lock \in Writers \cup {NoWriter}
        /\ writer \in [Writers -> Transaction]
    BY Zenon DEF TypeOK
  <1>r. writer[w] \in Transaction
    BY <1>t, Zenon
  <1>f. /\ writer[w].batch \in Seq(Events) /\ writer[w].last \in ChainHead
        /\ writer[w].rows \in SUBSET Row /\ writer[w].fill \in BOOLEAN
    BY <1>r, Zenon DEF Transaction
  <1>1. ASSUME NEW b \in Batches, AppendBegin(w, b) PROVE TypeOK'
    <2>1. b \in Seq(Events)
      BY AuditChainAssumption, Zenon
    <2>2. [writer[w] EXCEPT !.pc = "waiting", !.batch = b] \in Transaction
      BY <1>r, <2>1, Zenon DEF Transaction
    <2>3. writer' \in [Writers -> Transaction]
      BY <1>1, <1>t, <2>2, Zenon DEF AppendBegin
    <2> QED BY <1>1, <2>3, Zenon DEF AppendBegin, TypeOK
  <1>2. CASE BackfillBegin(w)
    <2>1. [writer[w] EXCEPT !.pc = "waiting", !.fill = TRUE] \in Transaction
      BY <1>r, Zenon DEF Transaction
    <2>2. writer' \in [Writers -> Transaction]
      BY <1>2, <1>t, <2>1, Zenon DEF BackfillBegin
    <2> QED BY <1>2, <2>2, Zenon DEF BackfillBegin, TypeOK
  <1>3. CASE AppendLock(w)
    <2>1. [writer[w] EXCEPT !.pc = "locked"] \in Transaction
      BY <1>r, Zenon DEF Transaction
    <2>2. writer' \in [Writers -> Transaction]
      BY <1>3, <1>t, <2>1, Zenon DEF AppendLock
    <2> QED BY <1>3, <2>2, Zenon DEF AppendLock, TypeOK
  <1>4. CASE AppendReadHead(w)
    <2>1. [head EXCEPT !.row = TRUE] \in ChainHead
      BY <1>t, Zenon DEF ChainHead
    <2>2. ASSUME NEW pc \in {"done", "chaining"}, NEW b \in Seq(Events)
          PROVE  [writer[w] EXCEPT !.pc = pc, !.last = [head EXCEPT !.row = TRUE], !.batch = b]
                 \in Transaction
      BY <1>r, <2>1, Zenon DEF Transaction
    <2>3. PICK pc \in {"done", "chaining"}, b \in Seq(Events) :
              writer' = [writer EXCEPT ![w] = [writer[w] EXCEPT !.pc = pc,
                                   !.last = [head EXCEPT !.row = TRUE], !.batch = b]]
      <3>1. (IF writer[w].fill THEN legacy ELSE writer[w].batch) \in Seq(Events)
        BY <1>t, <1>f, Zenon
      <3>2. (IF writer[w].fill /\ legacy = <<>> THEN "done" ELSE "chaining") \in {"done", "chaining"}
        BY Zenon
      <3>3. writer' = [writer EXCEPT ![w] =
                        [writer[w] EXCEPT
                            !.pc = IF writer[w].fill /\ legacy = <<>> THEN "done" ELSE "chaining",
                            !.last = [head EXCEPT !.row = TRUE],
                            !.batch = IF writer[w].fill THEN legacy ELSE writer[w].batch]]
        BY <1>4, Zenon DEF AppendReadHead
      <3> QED BY <3>1, <3>2, <3>3, Zenon
    <2>4. writer' \in [Writers -> Transaction]
      BY <1>t, <2>2, <2>3, Zenon
    <2>5. lock' \in Writers \cup {NoWriter}
      BY <1>4, <1>t, Zenon DEF AppendReadHead
    <2> QED BY <1>4, <2>4, <2>5, Zenon DEF AppendReadHead, TypeOK
  <1>5. CASE AppendChain(w)
    <2> DEFINE r == Link(writer[w].last, writer[w].batch[1])
    <2>1. writer[w].batch[1] \in Events /\ Tail(writer[w].batch) \in Seq(Events)
      BY <1>5, <1>f, HeadTailProperties, ElementOfSeq, EmptySeq DEF AppendChain
    <2>2. r \in Row /\ [row |-> TRUE, seq |-> r.seq, hash |-> r.hash] \in ChainHead
      BY <1>f, <2>1, LinkType, Zenon
    <2>3. writer' = [writer EXCEPT ![w] =
                        [writer[w] EXCEPT !.batch = Tail(writer[w].batch), !.rows = writer[w].rows \cup {r},
                                  !.last = [row |-> TRUE, seq |-> r.seq, hash |-> r.hash]]]
      BY <1>5, Zenon DEF AppendChain
    <2> HIDE DEF r
    <2>4. [writer[w] EXCEPT !.batch = Tail(writer[w].batch), !.rows = writer[w].rows \cup {r},
                            !.last = [row |-> TRUE, seq |-> r.seq, hash |-> r.hash]] \in Transaction
      BY <1>r, <1>f, <2>1, <2>2, Zenon DEF Transaction
    <2>5. writer' \in [Writers -> Transaction]
      BY <1>t, <2>3, <2>4, Zenon
    <2> QED BY <1>5, <2>5, Zenon DEF AppendChain, TypeOK
  <1>d. [NewWriter EXCEPT !.pc = "done"] \in Transaction
    BY NewTypes, Zenon DEF Transaction
  <1>6. CASE AppendCommit(w)
    <2>1. writer' \in [Writers -> Transaction]
      BY <1>6, <1>t, <1>d, Zenon DEF AppendCommit
    <2>2. legacy' \in Seq(Events)
      BY <1>6, <1>t, EmptySeq, Zenon DEF AppendCommit
    <2> QED BY <1>6, <1>f, <2>1, <2>2, Zenon DEF AppendCommit, TypeOK
  <1>7. CASE AppendAbort(w)
    <2>1. writer' \in [Writers -> Transaction]
      BY <1>7, <1>t, <1>d, Zenon DEF AppendAbort
    <2> QED BY <1>7, <2>1, Zenon DEF AppendAbort, TypeOK
  <1> QED BY <1>1, <1>2, <1>3, <1>4, <1>5, <1>6, <1>7, Zenon DEF WriterNext

(* The highest position among some rows of the table is a position.          *)
LEMMA HighestRow ==
    ASSUME TypeOK, TableInv, NEW B \in SUBSET rows, B # {}
    PROVE  LET m == Max({r.seq : r \in B})
           IN /\ m \in 1..head.seq /\ \E r \in B : r.seq = m
              /\ \A r \in B : r.seq <= m
  <1> DEFINE S == {r.seq : r \in B}
  <1>1. head.seq \in Nat /\ Len(head.hash) = head.seq
    BY Zenon DEF TypeOK, ChainHead, TableInv
  <1>2. \A r \in B : r.seq \in 1..head.seq
    BY <1>1, Zenon DEF TableInv, Genuine
  <1>3. S \in SUBSET Nat /\ S # {} /\ \A n \in S : n <= head.seq
    BY <1>1, <1>2
  <1>4. Max(S) \in S /\ \A n \in S : n <= Max(S)
    BY <1>1, <1>3, HighestPosition, Zenon
  <1> QED BY <1>2, <1>4, Zenon

(* A retention step keeps the types.                                         *)
LEMMA RetentionType ==
    ASSUME TypeOK, TableInv, RetentionNext
    PROVE  TypeOK'
  <1>t. /\ rows \in SUBSET Row /\ retainer \in [Retainers -> Nat]
        /\ verifier \in [Verifiers -> VerifyRun] /\ head.seq \in Nat
    BY Zenon DEF TypeOK, ChainHead
  <1>1. ASSUME NEW e \in Events, EventExpires(e) PROVE TypeOK'
    BY <1>1, Zenon DEF EventExpires, TypeOK
  <1>2. ASSUME NEW t \in Retainers, RetentionBoundary(t) PROVE TypeOK'
    <2> DEFINE B == {q \in rows : q.ev \in expired}
    <2>1. B \in SUBSET rows /\ B # {} /\ retainer' = [retainer EXCEPT ![t] = Max({r.seq : r \in B})]
      BY <1>2, Zenon DEF RetentionBoundary
    <2>2. Max({r.seq : r \in B}) \in 1..head.seq
      BY <2>1, HighestRow, Zenon
    <2>3. Max({r.seq : r \in B}) \in Nat
      BY <1>t, <2>2
    <2>4. retainer' \in [Retainers -> Nat]
      BY <1>t, <2>1, <2>3, Zenon
    <2> QED BY <1>2, <2>4, Zenon DEF RetentionBoundary, TypeOK
  <1>3. ASSUME NEW t \in Retainers, RetentionDelete(t) PROVE TypeOK'
    <2>1. \A v \in Verifiers :
             [verifier[v] EXCEPT !.purged = verifier[v].purged \/ (verifier[v].pc = "paging" /\ rows' # rows)]
             \in VerifyRun
      BY <1>t, Zenon DEF VerifyRun
    <2>2. verifier' \in [Verifiers -> VerifyRun]
      BY <1>3, <2>1, Zenon DEF RetentionDelete
    <2>3. retainer' \in [Retainers -> Nat] /\ rows' \in SUBSET Row
      BY <1>3, <1>t, Zenon DEF RetentionDelete
    <2> QED BY <1>3, <2>2, <2>3, Zenon DEF RetentionDelete, TypeOK
  <1>4. ASSUME NEW t \in Retainers, RetentionFails(t) PROVE TypeOK'
    <2>1. retainer' \in [Retainers -> Nat]
      BY <1>4, <1>t, Zenon DEF RetentionFails
    <2> QED BY <1>4, <2>1, Zenon DEF RetentionFails, TypeOK
  <1> QED BY <1>1, <1>2, <1>3, <1>4, Zenon DEF RetentionNext

(* A verifier's step keeps the types.                                        *)
LEMMA VerifyType ==
    ASSUME TypeOK, TableInv, VerifyNext
    PROVE  TypeOK'
  <1>t. /\ rows \in SUBSET Row /\ verifier \in [Verifiers -> VerifyRun] /\ head \in ChainHead
    BY Zenon DEF TypeOK
  <1>1. ASSUME NEW v \in Verifiers, VerifyBegin(v) PROVE TypeOK'
    <2>1. [NewVerify EXCEPT !.pc = "paging", !.head = head] \in VerifyRun
      BY <1>t, NewTypes, Zenon DEF VerifyRun
    <2>2. verifier' \in [Verifiers -> VerifyRun]
      BY <1>1, <1>t, <2>1, Zenon DEF VerifyBegin
    <2> QED BY <1>1, <2>2, Zenon DEF VerifyBegin, TypeOK
  <1>2. ASSUME NEW v \in Verifiers, VerifyPage(v) PROVE TypeOK'
    <2> DEFINE m == IF Page(v) = {} THEN verifier[v].cursor ELSE Max({r.seq : r \in Page(v)})
               pc == IF Cardinality(Page(v)) >= PageSize THEN "paging"
                     ELSE IF VerifyChain(verifier[v].seen \cup Page(v), verifier[v].head)
                     THEN "ok" ELSE "broken"
    <2>1. Page(v) \in SUBSET rows
      BY Zenon DEF Page
    <2>2. m \in Nat
      <3>1. CASE Page(v) = {}
        BY <1>t, <3>1, Zenon DEF VerifyRun
      <3>2. CASE Page(v) # {}
        <4>1. Max({r.seq : r \in Page(v)}) \in 1..head.seq
          BY <2>1, <3>2, HighestRow, Zenon
        <4> QED BY <1>t, <3>2, <4>1 DEF ChainHead
      <3> QED BY <3>1, <3>2, Zenon
    <2>3. pc \in {"paging", "ok", "broken"}
      BY Zenon
    <2>4. verifier' = [verifier EXCEPT ![v] = [verifier[v] EXCEPT
                           !.seen = verifier[v].seen \cup Page(v), !.cursor = m, !.pc = pc]]
      BY <1>2, Zenon DEF VerifyPage
    <2> HIDE DEF m, pc
    <2>5. [verifier[v] EXCEPT !.seen = verifier[v].seen \cup Page(v), !.cursor = m, !.pc = pc]
          \in VerifyRun
      BY <1>t, <2>1, <2>2, <2>3, Zenon DEF VerifyRun
    <2>6. verifier' \in [Verifiers -> VerifyRun]
      BY <1>t, <2>4, <2>5, Zenon
    <2> QED BY <1>2, <2>6, Zenon DEF VerifyPage, TypeOK
  <1> QED BY <1>1, <1>2, Zenon DEF VerifyNext

(* An anchoring step keeps the types.                                        *)
LEMMA AnchorType ==
    ASSUME TypeOK, AnchorNext
    PROVE  TypeOK'
  <1>t. /\ head \in ChainHead /\ anchorer \in [Anchorers -> AnchorRun] /\ anchors \in SUBSET Anchor
    BY Zenon DEF TypeOK
  <1>1. ASSUME NEW a \in Anchorers, AnchorReadHead(a) PROVE TypeOK'
    <2>1. [pc |-> "head", head |-> head] \in AnchorRun
      BY <1>t, Zenon DEF AnchorRun
    <2>2. anchorer' \in [Anchorers -> AnchorRun]
      BY <1>1, <1>t, <2>1, Zenon DEF AnchorReadHead
    <2> QED BY <1>1, <2>2, Zenon DEF AnchorReadHead, TypeOK
  <1>2. \A a \in Anchorers, pc \in {"idle", "asked"} : [anchorer[a] EXCEPT !.pc = pc] \in AnchorRun
    BY <1>t, Zenon DEF AnchorRun
  <1>3. ASSUME NEW a \in Anchorers, AnchorDecide(a) \/ AnchorFails(a) PROVE TypeOK'
    <2>1. \E pc \in {"idle", "asked"} : anchorer' = [anchorer EXCEPT ![a].pc = pc]
      BY <1>3, Zenon DEF AnchorDecide, AnchorFails
    <2>2. anchorer' \in [Anchorers -> AnchorRun]
      BY <1>t, <1>2, <2>1, Zenon
    <2> QED BY <1>3, <2>2, Zenon DEF AnchorDecide, AnchorFails, TypeOK
  <1>4. ASSUME NEW a \in Anchorers, AnchorStore(a) PROVE TypeOK'
    <2>1. anchorer' \in [Anchorers -> AnchorRun]
      BY <1>4, <1>t, <1>2, Zenon DEF AnchorStore
    <2>2. [seq |-> anchorer[a].head.seq, hash |-> anchorer[a].head.hash] \in Anchor
      BY <1>t, Zenon DEF AnchorRun, ChainHead, Anchor
    <2>3. anchors' \in SUBSET Anchor
      BY <1>4, <1>t, <2>2, Zenon DEF AnchorStore
    <2> QED BY <1>4, <2>1, <2>3, Zenon DEF AnchorStore, TypeOK
  <1> QED BY <1>1, <1>3, <1>4, Zenon DEF AnchorNext

(* One step of anything keeps the types.                                     *)
LEMMA NextType ==
    ASSUME TypeOK, TableInv, [Next]_vars
    PROVE  TypeOK'
  <1>1. CASE UNCHANGED vars
    BY <1>1, Zenon DEF vars, TypeOK
  <1>2. CASE Next
    BY <1>2, WriterType, RetentionType, VerifyType, AnchorType, Zenon DEF Next
  <1> QED BY <1>1, <1>2, Zenon

----------------------------------------------------------------------------
(* The chain *)

(* Being a prefix is transitive, and a genuine row stays genuine when the    *)
(* chain grows.                                                              *)
LEMMA EarlierTransitive ==
    ASSUME NEW x, x.seq \in Nat, NEW h \in Seq(Entry), NEW k \in Seq(Entry),
           Earlier(x, h), Len(h) <= Len(k), h = Prefix(k, Len(h))
    PROVE  Earlier(x, k)
  <1>1. Len(h) \in Nat /\ Len(k) \in Nat
    BY LenProperties, Zenon
  <1>2. x.seq \in 0..Len(h) /\ Len(h) \in 0..Len(k)
    BY <1>1 DEF Earlier
  <1>3. Prefix(Prefix(k, Len(h)), x.seq) = Prefix(k, x.seq)
    BY <1>2, PrefixOfPrefix, Zenon
  <1> QED BY <1>1, <1>2, <1>3 DEF Earlier

\* A row genuine in a history stays genuine when the history grows.
LEMMA GenuineLater ==
    ASSUME NEW r \in Row, NEW h \in Seq(Entry), NEW k \in Seq(Entry),
           Genuine(r, h), Len(h) <= Len(k), h = Prefix(k, Len(h))
    PROVE  Genuine(r, k)
  <1>1. Len(h) \in Nat /\ Len(k) \in Nat /\ r.seq \in 1..Len(h)
    BY LenProperties, Zenon DEF Genuine
  <1>2. r.seq \in 0..Len(h) /\ r.seq - 1 \in 0..Len(h) /\ Len(h) \in 0..Len(k) /\ r.seq \in 1..Len(k)
    BY <1>1
  <1>3. /\ Prefix(Prefix(k, Len(h)), r.seq) = Prefix(k, r.seq)
        /\ Prefix(Prefix(k, Len(h)), r.seq - 1) = Prefix(k, r.seq - 1)
    BY <1>2, PrefixOfPrefix, Zenon
  <1>4. h[r.seq] = k[r.seq]
    <2>1. \A i \in 1..Len(h) : Prefix(k, Len(h))[i] = k[i]
      BY <1>2, PrefixType, Zenon
    <2> QED BY <1>1, <2>1
  <1> QED BY <1>2, <1>3, <1>4, Zenon DEF Genuine

(* The head read under the lock continues the chain with no rows yet.        *)
LEMMA HeadContinues ==
    ASSUME TypeOK, TableInv
    PROVE  Continues([head EXCEPT !.row = TRUE], {}) /\ Earlier(head, head.hash)
  <1>1. head \in ChainHead /\ head.seq \in Nat /\ head.hash \in Seq(Entry)
    BY Zenon DEF TypeOK, ChainHead
  <1>2. Prefix(head.hash, Len(head.hash)) = head.hash /\ head.seq = Len(head.hash)
    BY <1>1, PrefixWhole, Zenon DEF TableInv
  <1>3. Earlier(head, head.hash)
    BY <1>1, <1>2 DEF Earlier
  <1>4. /\ [head EXCEPT !.row = TRUE].row /\ [head EXCEPT !.row = TRUE].seq = head.seq
        /\ [head EXCEPT !.row = TRUE].hash = head.hash
    BY <1>1, Zenon DEF ChainHead
  <1>5. \A n \in (head.seq + 1)..head.seq : FALSE
    BY <1>1
  <1> QED BY <1>2, <1>3, <1>4, <1>5, Zenon DEF Continues

(* One more linked row still continues it.                                   *)
LEMMA LinkContinues ==
    ASSUME TypeOK, TableInv, NEW last \in ChainHead, NEW new \in SUBSET Row, NEW ev \in Events,
           Continues(last, new)
    PROVE  LET r == Link(last, ev)
           IN Continues([row |-> TRUE, seq |-> r.seq, hash |-> r.hash], new \cup {r})
  <1> DEFINE r == Link(last, ev)
             h == last.hash
             x == [seq |-> last.seq + 1, ev |-> ev]
             k == Append(h, x)
  <1>1. /\ r \in Row /\ r.seq = last.seq + 1 /\ r.prev = h /\ r.ev = ev /\ r.hash = k
    BY LinkType, Zenon
  <1>2. /\ h \in Seq(Entry) /\ last.seq \in Nat /\ last.seq = Len(h)
        /\ head.seq \in Nat /\ head.seq <= last.seq /\ head.hash \in Seq(Entry)
        /\ Earlier(head, h)
    BY Zenon DEF TypeOK, ChainHead, Continues, Earlier
  <1>3. x \in Entry
    BY <1>2 DEF Entry
  <1>4. k \in Seq(Entry) /\ Len(k) = Len(h) + 1 /\ k[Len(h) + 1] = x
    BY <1>2, <1>3, AppendProperties
  <1>5. Len(h) <= Len(k) /\ h = Prefix(k, Len(h))
    <2>1. Len(h) \in 0..Len(h)
      BY <1>2
    <2>2. Prefix(k, Len(h)) = Prefix(h, Len(h))
      BY <1>2, <1>3, <2>1, PrefixOfAppend, Zenon
    <2> QED BY <1>2, <1>4, <2>2, PrefixWhole
  <1> HIDE DEF k, h
  <1>6. Earlier(head, k)
    BY <1>2, <1>4, <1>5, EarlierTransitive, Zenon
  <1>7. ASSUME NEW q \in new PROVE Genuine(q, k) /\ q.seq > head.seq
    <2>1. Genuine(q, h) /\ q.seq > head.seq
      BY Zenon DEF Continues, h
    <2> QED BY <1>2, <1>4, <1>5, <2>1, GenuineLater, Zenon
  <1>8. Genuine(r, k) /\ r.seq > head.seq
    <2>1. Prefix(k, r.seq) = k
      BY <1>1, <1>2, <1>4, PrefixWhole
    <2>2. Prefix(k, r.seq - 1) = h
      BY <1>1, <1>2, <1>5
    <2> QED BY <1>1, <1>2, <1>4, <2>1, <2>2, SMTT(30) DEF Genuine
  <1>9. ASSUME NEW n \in (head.seq + 1)..r.seq PROVE \E q \in new \cup {r} : q.seq = n
    <2>1. CASE n = r.seq
      BY <2>1, Zenon
    <2>2. CASE n # r.seq
      <3>1. n \in (head.seq + 1)..last.seq
        BY <1>1, <1>2, <2>2
      <3> QED BY <3>1, Zenon DEF Continues
    <2> QED BY <2>1, <2>2, Zenon
  <1> DEFINE l == [row |-> TRUE, seq |-> r.seq, hash |-> r.hash]
  <1>10. l.row /\ l.seq = r.seq /\ l.hash = k /\ l.seq = Len(k)
    BY <1>1, <1>2, <1>4, Zenon
  <1> HIDE DEF l, r
  <1> QED BY <1>6, <1>7, <1>8, <1>9, <1>10, Zenon DEF Continues, l, r

(* A step that leaves the chain and its anchors alone.                       *)
LEMMA ChainFrame ==
    ASSUME TableInv, AnchorInv, UNCHANGED <<head, rows, anchorer, anchors>>
    PROVE  TableInv' /\ AnchorInv'
  BY Zenon DEF TableInv, AnchorInv

(* A writer's step keeps the chain.                                          *)
LEMMA WriterChain ==
    ASSUME TypeOK, ChainInv, NEW w \in Writers, WriterNext(w)
    PROVE  ChainInv'
  <1>t. /\ writer \in [Writers -> Transaction] /\ lock \in Writers \cup {NoWriter}
        /\ NoWriter \notin Writers
    BY AuditChainAssumption, Zenon DEF TypeOK
  <1>r. writer[w] \in Transaction
    BY <1>t, Zenon
  <1>f. /\ writer[w].batch \in Seq(Events) /\ writer[w].last \in ChainHead
        /\ writer[w].rows \in SUBSET Row
    BY <1>r, Zenon DEF Transaction
  <1>i. TableInv /\ WriterInv /\ AnchorInv
    BY Zenon DEF ChainInv
  <1>1. ASSUME NEW b \in Batches, AppendBegin(w, b) PROVE ChainInv'
    <2>0. /\ writer'[w].pc = "waiting" /\ writer'[w].rows = writer[w].rows /\ writer[w].pc = "idle"
          /\ \A u \in Writers : u # w => writer'[u] = writer[u]
          /\ UNCHANGED <<head, lock>>
      BY <1>1, <1>t, <1>r, Zenon DEF AppendBegin, Transaction
    <2>1. WriterInv'
      BY <1>t, <1>i, <2>0 DEF WriterInv, Continues
    <2> QED BY <1>1, <1>i, <2>1, ChainFrame, Zenon DEF ChainInv, AppendBegin
  <1>2. CASE BackfillBegin(w)
    <2>0. /\ writer'[w].pc = "waiting" /\ writer'[w].rows = writer[w].rows /\ writer[w].pc = "idle"
          /\ \A u \in Writers : u # w => writer'[u] = writer[u]
          /\ UNCHANGED <<head, lock>>
      BY <1>2, <1>t, <1>r, Zenon DEF BackfillBegin, Transaction
    <2>1. WriterInv'
      BY <1>t, <1>i, <2>0 DEF WriterInv, Continues
    <2> QED BY <1>2, <1>i, <2>1, ChainFrame, Zenon DEF ChainInv, BackfillBegin
  <1>3. CASE AppendLock(w)
    <2>0. /\ writer'[w].pc = "locked" /\ writer'[w].rows = writer[w].rows /\ writer[w].pc = "waiting"
          /\ \A u \in Writers : u # w => writer'[u] = writer[u]
          /\ lock = NoWriter /\ lock' = w /\ head' = head
      BY <1>3, <1>t, <1>r, Zenon DEF AppendLock, Transaction
    <2>1. WriterInv'
      BY <1>t, <1>i, <2>0, Zenon DEF WriterInv, Continues
    <2> QED BY <1>3, <1>i, <2>1, ChainFrame, Zenon DEF ChainInv, AppendLock
  <1>4. CASE AppendReadHead(w)
    <2>1. Continues([head EXCEPT !.row = TRUE], {})
      BY <1>i, HeadContinues, Zenon
    <2>2. writer[w].pc = "locked" /\ lock = w /\ writer[w].rows = {}
      BY <1>4, <1>i, Zenon DEF AppendReadHead, WriterInv
    <2> DEFINE done == writer[w].fill /\ legacy = <<>>
               pc == IF done THEN "done" ELSE "chaining"
               b == IF writer[w].fill THEN legacy ELSE writer[w].batch
    <2>3. /\ writer' = [writer EXCEPT ![w] = [writer[w] EXCEPT !.pc = pc,
                           !.last = [head EXCEPT !.row = TRUE], !.batch = b]]
          /\ lock' = IF done THEN NoWriter ELSE lock
      BY <1>4, Zenon DEF AppendReadHead
    <2>p. \/ pc = "done" /\ lock' = NoWriter
          \/ pc = "chaining" /\ lock' = lock
      BY <2>3, Zenon
    <2> HIDE DEF b, pc, done
    <2>4. /\ writer'[w].pc = pc /\ writer'[w].last = [head EXCEPT !.row = TRUE] /\ writer'[w].rows = {}
          /\ \A u \in Writers : u # w => writer'[u] = writer[u]
      BY <1>t, <1>r, <2>2, <2>3, Zenon DEF Transaction
    <2>5. WriterInv'
      <3> SUFFICES ASSUME NEW u \in Writers
                   PROVE  /\ writer'[u].pc \in {"locked", "chaining"} <=> lock' = u
                          /\ writer'[u].pc # "chaining" => writer'[u].rows = {}
                          /\ writer'[u].pc = "chaining" => Continues(writer[u].last, writer[u].rows)'
        BY Zenon DEF WriterInv
      <3>1. CASE u = w
        BY <1>4, <1>t, <2>1, <2>2, <2>p, <2>4, <3>1, Zenon DEF AppendReadHead, Continues
      <3>2. CASE u # w
        <4>1. lock' # u /\ lock # u
          BY <1>t, <2>2, <2>p, <3>2, Zenon
        <4> QED BY <1>i, <2>4, <3>2, <4>1, Zenon DEF WriterInv
      <3> QED BY <3>1, <3>2, Zenon
    <2> QED BY <1>4, <1>i, <2>5, ChainFrame, Zenon DEF ChainInv, AppendReadHead
  <1>5. CASE AppendChain(w)
    <2> DEFINE r == Link(writer[w].last, writer[w].batch[1])
               l == [row |-> TRUE, seq |-> r.seq, hash |-> r.hash]
    <2>1. writer[w].pc = "chaining" /\ writer[w].batch # <<>> /\ lock = w
          /\ Continues(writer[w].last, writer[w].rows)
      BY <1>5, <1>i, Zenon DEF AppendChain, WriterInv
    <2>2. writer[w].batch[1] \in Events
      BY <1>f, <2>1
    <2>3. Continues(l, writer[w].rows \cup {r})
      BY <1>f, <1>i, <2>1, <2>2, LinkContinues, Zenon
    <2>4. writer' = [writer EXCEPT ![w] = [writer[w] EXCEPT !.batch = Tail(writer[w].batch),
                        !.rows = writer[w].rows \cup {r}, !.last = l]]
      BY <1>5, Zenon DEF AppendChain
    <2> HIDE DEF l, r
    <2>5. /\ writer'[w].pc = "chaining" /\ writer'[w].last = l
          /\ writer'[w].rows = writer[w].rows \cup {r}
          /\ \A u \in Writers : u # w => writer'[u] = writer[u]
      BY <1>t, <1>r, <2>1, <2>4, Zenon DEF Transaction
    <2>6. WriterInv'
      <3> SUFFICES ASSUME NEW u \in Writers
                   PROVE  /\ writer'[u].pc \in {"locked", "chaining"} <=> lock' = u
                          /\ writer'[u].pc # "chaining" => writer'[u].rows = {}
                          /\ writer'[u].pc = "chaining" => Continues(writer[u].last, writer[u].rows)'
        BY Zenon DEF WriterInv
      <3>1. lock' = lock /\ head' = head
        BY <1>5, Zenon DEF AppendChain
      <3>2. CASE u = w
        BY <2>1, <2>3, <2>5, <3>1, <3>2, Zenon DEF Continues
      <3>3. CASE u # w
        BY <1>i, <2>1, <2>5, <3>1, <3>3, Zenon DEF WriterInv
      <3> QED BY <3>2, <3>3, Zenon
    <2> QED BY <1>5, <1>i, <2>6, ChainFrame, Zenon DEF ChainInv, AppendChain
  <1>6. CASE AppendCommit(w)
    <2> DEFINE h == head.hash
               k == writer[w].last.hash
               new == writer[w].rows
    <2>1. lock = w /\ Continues(writer[w].last, new)
      BY <1>6, <1>i, Zenon DEF AppendCommit, WriterInv
    <2>2. /\ head' = writer[w].last /\ rows' = rows \cup new /\ lock' = NoWriter
          /\ UNCHANGED <<anchorer, anchors>>
          /\ writer' = [writer EXCEPT ![w] = [NewWriter EXCEPT !.pc = "done"]]
      BY <1>6, Zenon DEF AppendCommit
    <2>3. /\ h \in Seq(Entry) /\ k \in Seq(Entry) /\ head.seq = Len(h) /\ Len(h) <= Len(k)
          /\ h = Prefix(k, Len(h)) /\ head.seq \in Nat /\ rows \in SUBSET Row
          /\ head'.hash = k /\ head'.seq = Len(k) /\ Len(k) \in Nat
      BY <1>f, <1>i, <2>1, <2>2, LenProperties, Zenon DEF TypeOK, ChainHead, TableInv, Continues, Earlier
    <2>4. ASSUME NEW q \in rows' PROVE Genuine(q, k)
      <3>1. CASE q \in rows
        <4>1. Genuine(q, h) /\ q \in Row
          BY <1>i, <2>3, <3>1, Zenon DEF TableInv
        <4> HIDE DEF h, k
        <4> QED BY <2>3, <4>1, GenuineLater, Zenon
      <3>2. CASE q \in new
        BY <2>1, <3>2, Zenon DEF Continues
      <3> QED BY <2>2, <3>1, <3>2, Zenon
    <2>5. ASSUME NEW q \in rows', NEW n \in q.seq..Len(k) PROVE \E z \in rows' : z.seq = n
      <3>0. q.seq \in Nat /\ n \in Nat
        <4>1. q.seq \in 1..Len(k)
          BY <2>4, Zenon DEF Genuine
        <4> QED BY <2>3, <4>1
      <3>1. CASE n > head.seq
        <4>1. n \in (head.seq + 1)..writer[w].last.seq
          BY <2>2, <2>3, <3>0, <3>1
        <4>2. \E z \in new : z.seq = n
          BY <2>1, <4>1, Zenon DEF Continues
        <4> QED BY <2>2, <4>2, Zenon
      <3>2. CASE n <= head.seq
        <4>1. q \notin new
          BY <2>1, <2>3, <3>0, <3>2, SMTT(30) DEF Continues
        <4>2. q \in rows /\ n \in q.seq..head.seq
          BY <2>2, <2>3, <3>0, <3>2, <4>1, SMTT(30)
        <4>3. \E z \in rows : z.seq = n
          BY <1>i, <4>2, Zenon DEF TableInv
        <4> QED BY <2>2, <4>3, Zenon
      <3> QED BY <2>3, <3>0, <3>1, <3>2, SMTT(30)
    <2>6. TableInv'
      BY <2>3, <2>4, <2>5, Zenon DEF TableInv
    <2>7. AnchorInv'
      <3>1. \A x : x.seq \in Nat /\ Earlier(x, h) => Earlier(x, k)
        <4> HIDE DEF h, k
        <4> QED BY <2>3, EarlierTransitive, Zenon
      <3>2. \A a \in Anchorers : anchorer[a].head.seq \in Nat
        BY Zenon DEF TypeOK, AnchorRun, ChainHead
      <3>3. \A x \in anchors : x.seq \in Nat
        BY Zenon DEF TypeOK, Anchor
      <3> QED BY <1>i, <2>2, <2>3, <3>1, <3>2, <3>3, Zenon DEF AnchorInv
    <2>8. WriterInv'
      <3>1. /\ writer'[w].pc = "done" /\ writer'[w].rows = {}
            /\ \A u \in Writers : u # w => writer'[u] = writer[u]
        BY <1>t, <2>2, Zenon DEF NewWriter
      <3>2. \A u \in Writers : u # w => writer[u].pc \notin {"locked", "chaining"} /\ writer[u].rows = {}
        BY <1>i, <2>1, Zenon DEF WriterInv
      <3> QED BY <1>t, <2>2, <3>1, <3>2, Zenon DEF WriterInv
    <2> QED BY <2>6, <2>7, <2>8, Zenon DEF ChainInv
  <1>7. CASE AppendAbort(w)
    <2>1. /\ writer'[w].pc = "done" /\ writer'[w].rows = {} /\ head' = head
          /\ lock' = (IF lock = w THEN NoWriter ELSE lock)
          /\ \A u \in Writers : u # w => writer'[u] = writer[u]
      BY <1>7, <1>t, Zenon DEF AppendAbort, NewWriter
    <2>2. WriterInv'
      BY <1>t, <1>i, <2>1 DEF WriterInv, Continues
    <2> QED BY <1>7, <1>i, <2>2, ChainFrame, Zenon DEF ChainInv, AppendAbort
  <1> QED BY <1>1, <1>2, <1>3, <1>4, <1>5, <1>6, <1>7, Zenon DEF WriterNext

(* Retention deletes a prefix, so what is left still reaches the head.       *)
LEMMA RetentionChain ==
    ASSUME TypeOK, ChainInv, RetentionNext
    PROVE  ChainInv'
  <1>t. /\ rows \in SUBSET Row /\ retainer \in [Retainers -> Nat] /\ head.seq \in Nat
        /\ TableInv /\ WriterInv /\ AnchorInv
    BY Zenon DEF TypeOK, ChainHead, ChainInv
  <1>1. UNCHANGED <<head, lock, writer, anchorer, anchors>>
    BY Zenon DEF RetentionNext, EventExpires, RetentionBoundary, RetentionDelete, RetentionFails
  <1>2. WriterInv' /\ AnchorInv'
    BY <1>1, <1>t, Zenon DEF WriterInv, AnchorInv, Continues
  <1>3. CASE rows' = rows
    BY <1>1, <1>2, <1>3, <1>t, Zenon DEF TableInv, ChainInv
  <1>4. CASE rows' # rows
    <2>1. PICK t \in Retainers : rows' = {r \in rows : r.seq > retainer[t]}
      BY <1>4, Zenon DEF RetentionNext, EventExpires, RetentionBoundary, RetentionDelete, RetentionFails
    <2>2. \A r \in rows' : r \in rows /\ r.seq \in Nat
      BY <1>t, <2>1, Zenon DEF Row
    <2>3. ASSUME NEW r \in rows', NEW n \in r.seq..head.seq PROVE \E q \in rows' : q.seq = n
      <3>1. PICK q \in rows : q.seq = n
        BY <1>t, <2>2, Zenon DEF TableInv
      <3>2. retainer[t] \in Nat /\ r.seq \in Nat /\ r.seq > retainer[t] /\ n \in Nat
        BY <1>t, <2>1, <2>2
      <3>3. q.seq > retainer[t]
        BY <1>t, <3>1, <3>2
      <3> QED BY <2>1, <3>1, <3>3, Zenon
    <2>4. TableInv'
      BY <1>1, <1>t, <2>2, <2>3, Zenon DEF TableInv
    <2> QED BY <1>2, <2>4, Zenon DEF ChainInv
  <1> QED BY <1>3, <1>4, Zenon

(* An anchor is a head that was read, and a head that was read is a prefix   *)
(* of every later one.                                                       *)
LEMMA AnchorChain ==
    ASSUME TypeOK, ChainInv, AnchorNext
    PROVE  ChainInv'
  <1>t. /\ anchorer \in [Anchorers -> AnchorRun] /\ TableInv /\ WriterInv /\ AnchorInv
    BY Zenon DEF TypeOK, ChainInv
  <1>1. UNCHANGED <<head, rows, lock, writer>>
    BY Zenon DEF AnchorNext, AnchorReadHead, AnchorDecide, AnchorStore, AnchorFails
  <1>2. WriterInv' /\ TableInv'
    BY <1>1, <1>t, Zenon DEF WriterInv, TableInv, Continues
  <1>3. PICK a \in Anchorers :
           AnchorReadHead(a) \/ AnchorDecide(a) \/ AnchorStore(a) \/ AnchorFails(a)
    BY Zenon DEF AnchorNext
  <1>4. /\ \A b \in Anchorers : anchorer'[b].head = anchorer[b].head \/ anchorer'[b].head = head
        /\ \A x \in anchors' : x \in anchors
                            \/ x = [seq |-> anchorer[a].head.seq, hash |-> anchorer[a].head.hash]
    BY <1>3, <1>t DEF AnchorReadHead, AnchorDecide, AnchorStore, AnchorFails, AnchorRun
  <1>5. Earlier(head, head.hash)
    BY <1>t, HeadContinues, Zenon
  <1>6. AnchorInv'
    BY <1>1, <1>4, <1>5, <1>t DEF AnchorInv, Earlier
  <1> QED BY <1>2, <1>6, Zenon DEF ChainInv

(* The chain's invariant starts out true and survives every step.            *)
LEMMA ChainStart == Init => ChainInv
  <1> SUFFICES ASSUME Init PROVE ChainInv
    BY Zenon
  <1>1. Len(<<>>) = 0 /\ Prefix(<<>>, 0) = <<>>
    BY DEF Prefix
  <1>2. NoHead.seq = 0 /\ NoHead.hash = <<>> /\ Earlier(NoHead, <<>>)
    BY <1>1 DEF NoHead, Genesis, Earlier
  <1>3. TableInv
    BY <1>1, <1>2, Zenon DEF Init, TableInv
  <1>4. WriterInv
    BY AuditChainAssumption, Zenon DEF Init, WriterInv, NewWriter
  <1>5. AnchorInv
    BY <1>2, Zenon DEF Init, AnchorInv
  <1> QED BY <1>3, <1>4, <1>5, Zenon DEF ChainInv

\* Every step of the writers, the anchorer and the retention job keeps the chain invariant.
LEMMA ChainStep ==
    ASSUME TypeOK, ChainInv, [Next]_vars
    PROVE  ChainInv'
  <1>1. CASE UNCHANGED <<head, rows, lock, writer, anchorer, anchors>>
    BY <1>1, Zenon DEF ChainInv, TableInv, WriterInv, AnchorInv, Continues
  <1>2. CASE VerifyNext
    BY <1>1, <1>2, Zenon DEF VerifyNext, VerifyBegin, VerifyPage
  <1>3. CASE UNCHANGED vars
    BY <1>1, <1>3, Zenon DEF vars
  <1> QED BY <1>2, <1>3, WriterChain, RetentionChain, AnchorChain, Zenon DEF Next

----------------------------------------------------------------------------
(* The append-only log *)

(* The number of purged positions is the one number that lies below every    *)
(* row with the lowest row right behind it.                                  *)
LEMMA PurgedIs ==
    ASSUME NEW rs \in SUBSET Row, NEW top \in Nat, \A r \in rs : r.seq \in 1..top
    PROVE  LET p == IF rs = {} THEN top ELSE Min({r.seq : r \in rs}) - 1
           IN /\ p \in 0..top /\ \A r \in rs : r.seq > p
              /\ rs # {} => \E r \in rs : r.seq = p + 1
  <1> DEFINE S == {r.seq : r \in rs}
  <1>1. CASE rs = {}
    BY <1>1
  <1>2. CASE rs # {}
    <2>1. S \in SUBSET Nat /\ S # {}
      BY <1>2
    <2>2. Min(S) \in S /\ \A n \in S : Min(S) <= n
      BY <2>1, LowestPosition, Zenon
    <2>3. PICK r \in rs : r.seq = Min(S)
      BY <2>2, Zenon
    <2>4. Min(S) \in 1..top
      BY <2>3, Zenon
    <2>5. \A q \in rs : q.seq \in 1..top /\ Min(S) <= q.seq
      BY <2>2, Zenon
    <2> HIDE DEF S
    <2>6. /\ Min(S) - 1 \in 0..top /\ \A q \in rs : q.seq > Min(S) - 1
          /\ r.seq = (Min(S) - 1) + 1
      BY <2>3, <2>4, <2>5
    <2> QED BY <1>2, <2>6, Zenon DEF S
  <1> QED BY <1>1, <1>2, Zenon

(* The history as a sequence.                                                *)
LEMMA HistoryType ==
    ASSUME NEW h \in Seq(Entry)
    PROVE  LET g == [i \in 1..Len(h) |-> h[i].ev] IN g \in Seq(Events) /\ Len(g) = Len(h)
  <1> DEFINE g == [i \in 1..Len(h) |-> h[i].ev]
  <1>1. Len(h) \in Nat /\ \A i \in 1..Len(h) : h[i] \in Entry
    BY LenProperties, ElementOfSeq, Zenon
  <1>2. \A i \in 1..Len(h) : h[i].ev \in Events
    BY <1>1, Zenon DEF Entry
  <1>3. g \in [1..Len(h) -> Events] /\ DOMAIN g = 1..Len(h)
    BY <1>2, Zenon
  <1> HIDE DEF g
  <1>4. g \in Seq(Events)
    BY <1>1, <1>3, IsASeq
  <1>5. Len(g) = Len(h)
    BY <1>1, <1>3, <1>4, LenProperties
  <1> QED BY <1>4, <1>5, Zenon DEF g

(* A committed append is a growth of the log (or, for an empty batch, no     *)
(* change of it).                                                            *)
LEMMA CommitGrows ==
    ASSUME TypeOK, ChainInv, NEW w \in Writers, AppendCommit(w)
    PROVE  Log!Grow \/ UNCHANGED <<History, Purged>>
  <1> DEFINE h == head.hash
             k == writer[w].last.hash
             new == writer[w].rows
             top == head.seq
  <1>1. Continues(writer[w].last, new)
    BY Zenon DEF ChainInv, WriterInv, AppendCommit
  <1>2. head' = writer[w].last /\ rows' = rows \cup new
    BY Zenon DEF AppendCommit
  <1>t. /\ rows \in SUBSET Row /\ h \in Seq(Entry) /\ top \in Nat /\ top = Len(h)
        /\ \A r \in rows : r.seq \in 1..top
    BY Zenon DEF TypeOK, ChainHead, ChainInv, TableInv, Genuine
  <1>w. writer[w].last \in ChainHead /\ new \in SUBSET Row
    BY Zenon DEF TypeOK, Transaction
  <1>k. /\ k \in Seq(Entry) /\ head'.hash = k /\ head'.seq = Len(k) /\ Len(k) \in Nat
        /\ top <= Len(k) /\ h = Prefix(k, top)
        /\ \A r \in new : r.seq \in 1..Len(k) /\ r.seq > top
        /\ \A n \in (top + 1)..Len(k) : \E r \in new : r.seq = n
    BY <1>1, <1>2, <1>w, LenProperties, Zenon DEF ChainHead, Continues, Earlier, Genuine
  <1> HIDE DEF h, k, new, top
  <1>3. \A i \in 1..top : h[i] = k[i]
    <2>1. top \in 0..Len(k)
      BY <1>t, <1>k
    <2> QED BY <1>k, <2>1, PrefixType, Zenon
  <1>4. History = [i \in 1..Len(h) |-> h[i].ev] /\ History' = [i \in 1..Len(k) |-> k[i].ev]
    BY <1>t, <1>k, Zenon DEF History, h, top
  <1>5. /\ History \in Seq(Events) /\ History' \in Seq(Events)
        /\ Len(History) = top /\ Len(History') = Len(k)
        /\ \A i \in 1..top : History'[i] = History[i]
    <2>1. /\ [i \in 1..Len(h) |-> h[i].ev] \in Seq(Events) /\ [i \in 1..Len(k) |-> k[i].ev] \in Seq(Events)
          /\ Len([i \in 1..Len(h) |-> h[i].ev]) = Len(h)
          /\ Len([i \in 1..Len(k) |-> k[i].ev]) = Len(k)
      BY <1>t, <1>k, HistoryType, Zenon
    <2>2. \A i \in 1..top : /\ [j \in 1..Len(h) |-> h[j].ev][i] = h[i].ev
                            /\ [j \in 1..Len(k) |-> k[j].ev][i] = k[i].ev
      BY <1>t, <1>k
    <2> QED BY <1>3, <1>4, <1>t, <2>1, <2>2, Zenon
  <1>6. /\ Purged = IF rows = {} THEN top ELSE Min({r.seq : r \in rows}) - 1
        /\ Purged' = IF rows' = {} THEN Len(k) ELSE Min({r.seq : r \in rows'}) - 1
    BY <1>k, Zenon DEF Purged, top
  <1>7. /\ Purged \in 0..top /\ \A r \in rows : r.seq > Purged
        /\ rows # {} => \E r \in rows : r.seq = Purged + 1
    BY <1>6, <1>t, PurgedIs, Zenon
  <1>8. /\ Purged' \in 0..Len(k) /\ \A r \in rows' : r.seq > Purged'
        /\ rows' # {} => \E r \in rows' : r.seq = Purged' + 1
    <2>1. rows' \in SUBSET Row /\ \A r \in rows' : r.seq \in 1..Len(k)
      BY <1>2, <1>t, <1>w, <1>k DEF new
    <2> QED BY <1>6, <1>k, <2>1, PurgedIs, Zenon
  <1>9. CASE Len(k) > top
    <2>1. PICK x \in new : x.seq = top + 1
      BY <1>9, <1>k, <1>t
    <2>2. PICK y \in rows' : y.seq = Purged' + 1
      BY <1>2, <1>8, <2>1, Zenon DEF new
    <2>3. Purged' = Purged
      <3>1. CASE rows = {}
        <4>1. Purged = top
          BY <1>6, <3>1, Zenon
        <4>2. y \in new /\ x \in rows'
          BY <1>2, <3>1, <2>1, Zenon DEF new
        <4>3. y.seq > top /\ y.seq \in Nat /\ x.seq > Purged'
          BY <1>k, <1>8, <4>2
        <4> QED BY <1>t, <1>8, <2>1, <2>2, <4>1, <4>3, SMTT(30)
      <3>2. CASE rows # {}
        <4>1. PICK z \in rows : z.seq = Purged + 1
          BY <1>7, <3>2, Zenon
        <4>2. z \in rows'
          BY <1>2, Zenon
        <4>3. z.seq > Purged' /\ z.seq <= top /\ y.seq > Purged
          <5>1. y \in rows \/ y \in new
            BY <1>2, Zenon DEF new
          <5>2. y \in new => y.seq > top /\ y.seq \in Nat
            BY <1>k
          <5> QED BY <1>t, <1>7, <1>8, <4>2, <5>1, <5>2, SMTT(30)
        <4>4. Purged' \in Nat /\ Purged \in Nat
          BY <1>t, <1>k, <1>7, <1>8
        <4>5. Purged + 1 > Purged' /\ Purged' + 1 > Purged
          BY <2>2, <4>1, <4>3, Zenon
        <4>6. \A p, q \in Nat : p + 1 > q /\ q + 1 > p => p = q
          OBVIOUS
        <4> QED BY <4>4, <4>5, <4>6, Zenon
      <3> QED BY <3>1, <3>2, Zenon
    <2>4. Log!Grow
      BY <1>5, <1>9, <2>3, <1>t, Zenon DEF Log!Grow
    <2> QED BY <2>4, Zenon
  <1>10. CASE ~(Len(k) > top)
    <2>1. Len(k) = top /\ new = {}
      BY <1>10, <1>k, <1>t
    <2>2. rows' = rows
      BY <1>2, <2>1, Zenon DEF new
    <2>3. Purged' = Purged
      BY <1>6, <2>1, <2>2, Zenon
    <2>4. History' = History
      BY <1>5, <2>1, SeqEqual, Zenon
    <2> QED BY <2>3, <2>4, Zenon
  <1> QED BY <1>9, <1>10, Zenon

(* A retention run is a purge of the log's oldest entries (or no change).    *)
LEMMA DeletePurges ==
    ASSUME TypeOK, ChainInv, NEW t \in Retainers, RetentionDelete(t)
    PROVE  Log!Purge \/ UNCHANGED <<History, Purged>>
  <1> DEFINE h == head.hash
             top == head.seq
  <1>1. rows' = {r \in rows : r.seq > retainer[t]} /\ head' = head /\ retainer[t] \in Nat
    BY Zenon DEF RetentionDelete, TypeOK
  <1>t. /\ rows \in SUBSET Row /\ h \in Seq(Entry) /\ top \in Nat /\ top = Len(h)
        /\ \A r \in rows : r.seq \in 1..top
    BY Zenon DEF TypeOK, ChainHead, ChainInv, TableInv, Genuine
  <1>2. History' = History /\ Len(History) = top
    <2>1. Len([i \in 1..Len(h) |-> h[i].ev]) = Len(h)
      BY <1>t, HistoryType, Zenon
    <2> QED BY <1>1, <1>t, <2>1, Zenon DEF History
  <1> HIDE DEF h, top
  <1>3. /\ Purged = IF rows = {} THEN top ELSE Min({r.seq : r \in rows}) - 1
        /\ Purged' = IF rows' = {} THEN top ELSE Min({r.seq : r \in rows'}) - 1
    BY <1>1, Zenon DEF Purged, top
  <1>4. /\ Purged \in 0..top /\ \A r \in rows : r.seq > Purged
        /\ rows # {} => \E r \in rows : r.seq = Purged + 1
    BY <1>3, <1>t, PurgedIs, Zenon
  <1>5. /\ Purged' \in 0..top /\ \A r \in rows' : r.seq > Purged'
        /\ rows' # {} => \E r \in rows' : r.seq = Purged' + 1
    <2>1. rows' \in SUBSET Row /\ \A r \in rows' : r.seq \in 1..top
      BY <1>1, <1>t, Zenon
    <2> QED BY <1>3, <1>t, <2>1, PurgedIs, Zenon
  <1>6. CASE rows' = rows
    BY <1>2, <1>3, <1>6, Zenon
  <1>7. CASE rows' # rows
    <2>1. PICK z \in rows : ~(z.seq > retainer[t])
      BY <1>1, <1>7, Zenon
    <2>2. z.seq \in 1..top /\ z.seq > Purged /\ z.seq <= retainer[t]
      BY <1>1, <1>t, <1>4, <2>1
    <2>3. Purged' >= Purged + 1
      <3>1. CASE rows' = {}
        <4>1. Purged' = top
          BY <1>3, <3>1, Zenon
        <4> QED BY <1>t, <1>4, <2>2, <4>1
      <3>2. CASE rows' # {}
        <4>1. PICK y \in rows' : y.seq = Purged' + 1
          BY <1>5, <3>2, Zenon
        <4>2. y.seq > retainer[t]
          BY <1>1, Zenon
        <4>3. y.seq \in Nat /\ Purged' \in Nat /\ Purged \in Nat /\ z.seq \in Nat
          BY <1>1, <1>t, <1>4, <1>5, <2>2, SMTT(30)
        <4> QED BY <1>1, <2>2, <4>1, <4>2, <4>3
      <3> QED BY <3>1, <3>2, Zenon
    <2>4. Purged' \in (Purged + 1)..Len(History)
      BY <1>2, <1>t, <1>4, <1>5, <2>3
    <2> QED BY <1>2, <2>4, Zenon DEF Log!Purge
  <1> QED BY <1>6, <1>7, Zenon

----------------------------------------------------------------------------
(* Theorems *)

(* Every variable keeps its type and the chain its invariant.                *)
THEOREM ChainInvariant == Spec => [](TypeOK /\ ChainInv)
  <1>1. Init => TypeOK /\ ChainInv
    BY InitType, ChainStart, Zenon
  <1>2. TypeOK /\ ChainInv /\ [Next]_vars => (TypeOK /\ ChainInv)'
    BY NextType, ChainStep, Zenon DEF ChainInv
  <1> QED BY <1>1, <1>2, PTL DEF Spec

(* The rows up to a position, with the head as it was there, verify.         *)
LEMMA SliceVerifies ==
    ASSUME TypeOK, TableInv, NEW n \in Nat, n <= head.seq, NEW hd, Earlier(hd, head.hash),
           hd.row => hd.seq = n
    PROVE  VerifyChain({r \in rows : r.seq <= n}, hd)
  <1> DEFINE h == head.hash
             S == {r \in rows : r.seq <= n}
  <1>t. /\ rows \in SUBSET Row /\ h \in Seq(Entry) /\ head.seq \in Nat /\ head.seq = Len(h)
        /\ \A r \in rows : Genuine(r, h) /\ r.seq \in Nat
        /\ \A r \in rows : \A m \in r.seq..head.seq : \E q \in rows : q.seq = m
    BY Zenon DEF TypeOK, ChainHead, TableInv, Row
  <1>s. \A r : r \in S <=> r \in rows /\ r.seq <= n
    BY Zenon
  <1>h. hd.hash = Prefix(h, hd.seq)
    BY Zenon DEF Earlier
  <1> HIDE DEF h, S
  <1>g. \A r \in rows : /\ r.seq \in 1..head.seq /\ h[r.seq] = [seq |-> r.seq, ev |-> r.ev]
                        /\ r.prev = Prefix(h, r.seq - 1) /\ r.hash = Prefix(h, r.seq)
    BY <1>t, Zenon DEF Genuine
  <1>1. ASSUME NEW e \in S PROVE ComputeHash(e.prev, e) = e.hash
    <2>1. e \in rows /\ e.seq \in 1..Len(h)
      BY <1>g, <1>s, <1>t, Zenon
    <2>2. Append(Prefix(h, e.seq - 1), h[e.seq]) = Prefix(h, e.seq)
      BY <1>t, <2>1, AppendToPrefix, Zenon
    <2> QED BY <1>g, <2>1, <2>2, Zenon DEF ComputeHash
  <1>2. ASSUME NEW e \in S, NEW f \in S, e.seq < f.seq,
               \A g \in S : g.seq \notin (e.seq + 1)..(f.seq - 1)
        PROVE  f.prev = e.hash
    <2>1. e.seq \in 1..head.seq /\ f.seq \in 1..head.seq /\ f.seq <= n /\ e \in rows /\ f \in rows
      BY <1>g, <1>s, Zenon
    <2>2. f.seq - 1 \in e.seq..head.seq
      BY <1>t, <1>2, <2>1
    <2>3. PICK g \in rows : g.seq = f.seq - 1
      BY <1>t, <2>1, <2>2, Zenon
    <2>4. g \in S
      BY <1>s, <1>t, <2>1, <2>3
    <2>5. f.seq - 1 = e.seq
      BY <1>t, <1>2, <2>1, <2>2, <2>3, <2>4
    <2>6. f.prev = Prefix(h, f.seq - 1) /\ e.hash = Prefix(h, e.seq)
      BY <1>g, <2>1, Zenon
    <2> QED BY <2>5, <2>6, Zenon
  <1>3. ASSUME S # {}, hd.row
        PROVE  \E e \in S : e.seq = hd.seq /\ e.hash = hd.hash /\ \A f \in S : f.seq <= e.seq
    <2>1. PICK e \in S : TRUE
      BY <1>3, Zenon
    <2>2. e \in rows /\ e.seq \in 1..head.seq /\ e.seq <= n
      BY <1>g, <1>s, Zenon
    <2>3. n \in e.seq..head.seq
      BY <1>t, <2>2
    <2>4. PICK q \in rows : q.seq = n
      BY <1>t, <2>2, <2>3, Zenon
    <2>5. q \in S /\ q.hash = Prefix(h, q.seq)
      <3>1. q.seq <= n
        BY <2>4
      <3>2. q.hash = Prefix(h, q.seq)
        BY <1>g, Zenon
      <3> QED BY <1>s, <3>1, <3>2, Zenon
    <2>6. \A f \in S : f.seq <= q.seq
      BY <1>s, <2>4, Zenon
    <2> QED BY <1>3, <1>h, <2>4, <2>5, <2>6, Zenon
  <1> QED BY <1>1, <1>2, <1>3, Zenon DEF VerifyChain, S

(* An untampered table verifies: whatever is appended, backfilled, rolled    *)
(* back, purged and anchored at the same time, the rows on disk and the head *)
(* on disk pass verifyChain (appendAuditEvents, audit-retention).            *)
THEOREM AlwaysIntact == Spec => []ChainIntact
  <1>1. ASSUME TypeOK, TableInv PROVE ChainIntact
    <2>1. head.hash \in Seq(Entry) /\ head.seq = Len(head.hash) /\ head.seq \in Nat
      BY <1>1, Zenon DEF TypeOK, ChainHead, TableInv
    <2>2. Earlier(head, head.hash)
      BY <2>1, PrefixWhole DEF Earlier
    <2>3. VerifyChain({r \in rows : r.seq <= head.seq}, head)
      BY <1>1, <2>1, <2>2, SliceVerifies
    <2>4. ASSUME NEW r \in rows PROVE r.seq <= head.seq
      <3>1. r.seq \in 1..Len(head.hash)
        BY <1>1, Zenon DEF TableInv, Genuine
      <3> QED BY <2>1, <3>1
    <2>5. {r \in rows : r.seq <= head.seq} = rows
      BY <2>4, Zenon
    <2> QED BY <2>3, <2>5, Zenon DEF ChainIntact
  <1> QED BY <1>1, ChainInvariant, PTL DEF ChainInv

(* An anchor never disagrees with the table, however late it is stored and   *)
(* however many rows were appended meanwhile (runAnchorFor).                 *)
THEOREM AnchorsStayTrue == Spec => []AnchorsHold
  <1>1. ASSUME TypeOK, ChainInv PROVE AnchorsHold
    <2>1. \A r \in rows : r.hash = Prefix(head.hash, r.seq)
      BY <1>1, Zenon DEF ChainInv, TableInv, Genuine
    <2>2. \A x \in anchors : x.hash = Prefix(head.hash, x.seq)
      BY <1>1, Zenon DEF ChainInv, AnchorInv, Earlier
    <2> QED BY <2>1, <2>2, Zenon DEF AnchorsHold, VerifyOneAnchor
  <1> QED BY <1>1, ChainInvariant, PTL

(* The chain implements the append-only log: committed entries are never     *)
(* changed or reordered, new ones go behind them, and only the oldest ones   *)
(* are ever removed.                                                         *)
THEOREM ImplementsLog == Spec => AppendOnly
  <1>1. Init => Log!Init
    <2> SUFFICES ASSUME Init PROVE Log!Init
      BY Zenon
    <2>1. head.seq = 0 /\ rows = {}
      BY Zenon DEF Init, NoHead
    <2>2. History = <<>>
      BY <2>1 DEF History
    <2> QED BY <2>1, <2>2, Zenon DEF Log!Init, Purged
  <1>2. TypeOK /\ ChainInv /\ [Next]_vars => [Log!Next]_(Log!vars)
    <2> SUFFICES ASSUME TypeOK, ChainInv, [Next]_vars
                 PROVE  Log!Grow \/ Log!Purge \/ UNCHANGED <<History, Purged>>
      BY Zenon DEF Log!Next, Log!vars
    <2>1. CASE UNCHANGED <<head, rows>>
      BY <2>1, Zenon DEF History, Purged
    <2>2. ASSUME NEW w \in Writers, WriterNext(w)
          PROVE  AppendCommit(w) \/ UNCHANGED <<head, rows>>
      BY <2>2, Zenon DEF WriterNext, AppendBegin, BackfillBegin, AppendLock, AppendReadHead, AppendChain,
                  AppendAbort
    <2>3. ASSUME RetentionNext
          PROVE  (\E t \in Retainers : RetentionDelete(t)) \/ UNCHANGED <<head, rows>>
      BY <2>3, Zenon DEF RetentionNext, EventExpires, RetentionBoundary, RetentionFails
    <2>4. ASSUME VerifyNext \/ AnchorNext \/ UNCHANGED vars PROVE UNCHANGED <<head, rows>>
      BY <2>4, Zenon DEF VerifyNext, VerifyBegin, VerifyPage, AnchorNext, AnchorReadHead, AnchorDecide,
                  AnchorStore, AnchorFails, vars
    <2> QED BY <2>1, <2>2, <2>3, <2>4, CommitGrows, DeletePurges, Zenon DEF Next
  <1> QED BY <1>1, <1>2, ChainInvariant, PTL DEF Spec, AppendOnly, Log!Spec

----------------------------------------------------------------------------
(* No event is chained twice *)

(* What an event added behind a hash does to its events.                     *)
LEMMA ChainedAppend ==
    ASSUME NEW h \in Seq(Entry), NEW x \in Entry, Unrepeated(h), x.ev \notin Chained(h)
    PROVE  /\ Unrepeated(Append(h, x))
           /\ Chained(Append(h, x)) = Chained(h) \cup {x.ev}
  <1> DEFINE k == Append(h, x)
  <1>1. /\ k \in Seq(Entry) /\ Len(k) = Len(h) + 1 /\ k[Len(h) + 1] = x
        /\ \A i \in 1..Len(h) : k[i] = h[i]
    OBVIOUS
  <1>n. Len(h) \in Nat
    OBVIOUS
  <1>2. \A i \in 1..Len(k) : i \in 1..Len(h) \/ i = Len(h) + 1
    BY <1>1, <1>n
  <1>3. \A i \in 1..Len(h) : i \in 1..Len(k)
    BY <1>1, <1>n
  <1>4. Len(h) + 1 \in 1..Len(k)
    BY <1>1, <1>n
  <1> HIDE DEF k
  <1>5. Chained(k) = Chained(h) \cup {x.ev}
    <2>1. ASSUME NEW e \in Chained(k) PROVE e \in Chained(h) \cup {x.ev}
      BY <1>1, <1>2, Zenon DEF Chained
    <2>2. ASSUME NEW e \in Chained(h) PROVE e \in Chained(k)
      <3>1. PICK i \in 1..Len(h) : e = h[i].ev
        BY Zenon DEF Chained
      <3>2. i \in 1..Len(k) /\ e = k[i].ev
        BY <1>1, <1>3, <3>1, Zenon
      <3> QED BY <3>2, Zenon DEF Chained
    <2>3. x.ev \in Chained(k)
      BY <1>1, <1>4, Zenon DEF Chained
    <2> QED BY <2>1, <2>2, <2>3, Zenon
  <1>6. Unrepeated(k)
    <2> SUFFICES ASSUME NEW i \in 1..Len(k), NEW j \in 1..Len(k), k[i].ev = k[j].ev
                 PROVE  i = j
      BY Zenon DEF Unrepeated
    <2>1. \A m \in 1..Len(h) : k[m].ev # x.ev
      BY <1>1, Zenon DEF Chained
    <2>2. CASE i \in 1..Len(h) /\ j \in 1..Len(h)
      BY <1>1, <2>2, Zenon DEF Unrepeated
    <2>3. CASE i = Len(h) + 1 \/ j = Len(h) + 1
      BY <1>1, <1>2, <2>1, <2>3, Zenon
    <2> QED BY <1>2, <2>2, <2>3, Zenon
  <1> QED BY <1>5, <1>6, Zenon DEF k

(* What is left of a batch when its first event is taken.                    *)
LEMMA TailEvents ==
    ASSUME NEW b \in Seq(Events), b # <<>>, Distinct(b)
    PROVE  /\ Distinct(Tail(b)) /\ b[1] \in EventsOf(b) /\ b[1] \notin EventsOf(Tail(b))
           /\ EventsOf(b) = EventsOf(Tail(b)) \cup {b[1]}
  <1> DEFINE t == Tail(b)
  <1>1. /\ t \in Seq(Events) /\ Len(t) = Len(b) - 1 /\ Len(b) \in Nat /\ Len(b) > 0
        /\ \A i \in 1..Len(t) : t[i] = b[i + 1]
    OBVIOUS
  <1>2. \A i \in 1..Len(t) : i + 1 \in 1..Len(b) /\ i + 1 # 1
    BY <1>1
  <1>3. \A i \in 1..Len(b) : i = 1 \/ (i - 1 \in 1..Len(t) /\ t[i - 1] = b[i])
    BY <1>1
  <1>4. 1 \in 1..Len(b)
    BY <1>1
  <1> HIDE DEF t
  <1>5. Distinct(t)
    <2> SUFFICES ASSUME NEW i \in 1..Len(t), NEW j \in 1..Len(t), t[i] = t[j] PROVE i = j
      BY Zenon DEF Distinct
    <2>1. i + 1 = j + 1
      BY <1>1, <1>2, Zenon DEF Distinct
    <2> QED BY <2>1
  <1>6. b[1] \in EventsOf(b)
    BY <1>4, Zenon DEF EventsOf
  <1>7. b[1] \notin EventsOf(t)
    BY <1>1, <1>2, <1>4 DEF EventsOf, Distinct
  <1>8. EventsOf(b) = EventsOf(t) \cup {b[1]}
    <2>1. ASSUME NEW e \in EventsOf(b) PROVE e \in EventsOf(t) \cup {b[1]}
      <3>1. PICK i \in 1..Len(b) : e = b[i]
        BY Zenon DEF EventsOf
      <3> QED BY <1>3, <3>1, Zenon DEF EventsOf
    <2>2. ASSUME NEW e \in EventsOf(t) PROVE e \in EventsOf(b)
      <3>1. PICK i \in 1..Len(t) : e = t[i]
        BY Zenon DEF EventsOf
      <3> QED BY <1>1, <1>2, <3>1, Zenon DEF EventsOf
    <2> QED BY <1>6, <2>1, <2>2, Zenon
  <1> QED BY <1>5, <1>6, <1>7, <1>8, Zenon DEF t

(* Nothing is in hand in a transaction that has no batch and no rows.        *)
LEMMA NoClaim ==
    ASSUME NEW t, t.batch = <<>>, t.rows = {}
    PROVE  Claim(t) = {} /\ Distinct(t.batch)
  <1>1. EventsOf(<<>>) = {} /\ Distinct(<<>>)
    BY DEF EventsOf, Distinct
  <1> QED BY <1>1, Zenon DEF Claim

(* A program that starts has each event in one place.                        *)
LEMMA OnceStart == Init => OnceInv
  <1> SUFFICES ASSUME Init PROVE OnceInv
    BY Zenon
  <1>1. Apart(head.hash, legacy, fresh)
    <2>1. head.hash = <<>> /\ legacy = Legacy
          /\ fresh = {e \in Events : \A i \in 1..Len(Legacy) : Legacy[i] # e}
      BY Zenon DEF Init, NoHead, Genesis
    <2>2. Unrepeated(<<>>) /\ Chained(<<>>) = {}
      BY DEF Unrepeated, Chained
    <2>3. Distinct(Legacy)
      BY AuditChainAssumption, Zenon DEF Distinct
    <2>4. EventsOf(Legacy) \cap fresh = {}
      BY <2>1, Zenon DEF EventsOf
    <2> QED BY <2>1, <2>2, <2>3, <2>4, Zenon DEF Apart
  <1>2. ASSUME NEW w \in Writers
        PROVE  writer[w].pc = "idle" /\ ~writer[w].fill /\ Claim(writer[w]) = {}
               /\ Distinct(writer[w].batch)
    <2>1. writer[w].pc = "idle" /\ ~writer[w].fill /\ writer[w].batch = <<>> /\ writer[w].rows = {}
      BY Zenon DEF Init, NewWriter
    <2> QED BY <2>1, NoClaim, Zenon
  <1> QED BY <1>1, <1>2, Zenon DEF OnceInv, Claims

(* A step of one transaction that commits nothing, and takes no event that   *)
(* another has in hand.                                                      *)
LEMMA OnceFrame ==
    ASSUME OnceInv, NEW w \in Writers,
           \A u \in Writers : u # w => writer'[u] = writer[u],
           UNCHANGED <<head, legacy>>, fresh' \in SUBSET fresh,
           Claims(writer'[w], head.hash, legacy, fresh'),
           ~writer'[w].fill =>
              \A e \in Claim(writer'[w]) :
                 e \in fresh \/ (~writer[w].fill /\ e \in Claim(writer[w]))
    PROVE  OnceInv'
  <1>1. Apart(head'.hash, legacy', fresh')
    BY Zenon DEF OnceInv, Apart
  <1>2. ASSUME NEW u \in Writers PROVE Claims(writer'[u], head'.hash, legacy', fresh')
    <2>1. CASE u = w
      BY <2>1, Zenon
    <2>2. CASE u # w
      <3>1. Claims(writer[u], head.hash, legacy, fresh)
        BY Zenon DEF OnceInv
      <3> QED BY <2>2, <3>1, Zenon DEF Claims
    <2> QED BY <2>1, <2>2, Zenon
  <1>3. ASSUME NEW u \in Writers, u # w, ~writer'[u].fill, ~writer'[w].fill
        PROVE  Claim(writer'[u]) \cap Claim(writer'[w]) = {}
    <2>1. writer'[u] = writer[u] /\ ~writer[u].fill
      BY <1>3, Zenon
    <2>2. Claim(writer[u]) \cap fresh = {}
      BY <2>1, Zenon DEF OnceInv, Claims
    <2>3. ~writer[w].fill => Claim(writer[u]) \cap Claim(writer[w]) = {}
      BY <1>3, <2>1, Zenon DEF OnceInv
    <2> QED BY <1>3, <2>1, <2>2, <2>3, Zenon
  <1>4. ASSUME NEW u \in Writers, NEW v \in Writers, u # v, ~writer'[u].fill, ~writer'[v].fill
        PROVE  Claim(writer'[u]) \cap Claim(writer'[v]) = {}
    <2>1. CASE u = w
      BY <1>3, <1>4, <2>1, Zenon
    <2>2. CASE v = w
      BY <1>3, <1>4, <2>2, Zenon
    <2>3. CASE u # w /\ v # w
      BY <1>4, <2>3, Zenon DEF OnceInv
    <2> QED BY <2>1, <2>2, <2>3, Zenon
  <1> QED BY <1>1, <1>2, <1>4, Zenon DEF OnceInv

(* A transaction that has nothing in hand.                                   *)
LEMMA EmptyClaims ==
    ASSUME NEW t, NEW h, NEW old, NEW free, Claim(t) = {}, Distinct(t.batch),
           t.pc # "chaining", t.pc = "idle" => ~t.fill
    PROVE  Claims(t, h, old, free)
BY Zenon DEF Claims

(* An append takes events nobody has recorded, each once.                    *)
LEMMA OnceBegin ==
    ASSUME TypeOK, ChainInv, OnceInv, NEW w \in Writers, NEW b \in Batches, AppendBegin(w, b)
    PROVE  OnceInv'
  <1>1. writer[w] \in Transaction /\ writer \in [Writers -> Transaction]
    BY Zenon DEF TypeOK
  <1>2. /\ writer'[w] = [writer[w] EXCEPT !.pc = "waiting", !.batch = b]
        /\ \A u \in Writers : u # w => writer'[u] = writer[u]
        /\ UNCHANGED <<head, legacy>> /\ fresh' = fresh \ EventsOf(b)
        /\ writer[w].pc = "idle" /\ Distinct(b) /\ EventsOf(b) \subseteq fresh
    BY <1>1, Zenon DEF AppendBegin
  <1>3. writer[w].rows = {} /\ ~writer[w].fill
    BY <1>2, Zenon DEF OnceInv, Claims, ChainInv, WriterInv
  <1>4. /\ writer'[w].pc = "waiting" /\ writer'[w].batch = b /\ writer'[w].rows = {}
        /\ ~writer'[w].fill
    BY <1>1, <1>2, <1>3, Zenon DEF Transaction
  <1>5. Claim(writer'[w]) = EventsOf(b)
    BY <1>4, Zenon DEF Claim
  <1>6. EventsOf(b) \cap (Chained(head.hash) \cup EventsOf(legacy) \cup fresh') = {}
    BY <1>2, Zenon DEF OnceInv, Apart
  <1>7. Claims(writer'[w], head.hash, legacy, fresh')
    BY <1>2, <1>4, <1>5, <1>6, Zenon DEF Claims
  <1> QED BY <1>2, <1>5, <1>7, OnceFrame, Zenon

(* A backfill that begins, a lock that is granted, and a rollback.           *)
LEMMA OnceIdle ==
    ASSUME TypeOK, ChainInv, OnceInv, NEW w \in Writers,
           BackfillBegin(w) \/ AppendLock(w) \/ AppendAbort(w)
    PROVE  OnceInv'
  <1>1. writer[w] \in Transaction /\ writer \in [Writers -> Transaction]
    BY Zenon DEF TypeOK
  <1>2. /\ \A u \in Writers : u # w => writer'[u] = writer[u]
        /\ UNCHANGED <<head, legacy, fresh>>
    BY <1>1, Zenon DEF BackfillBegin, AppendLock, AppendAbort
  <1>c. Claims(writer[w], head.hash, legacy, fresh)
    BY Zenon DEF OnceInv
  <1>3. CASE BackfillBegin(w)
    <2>1. writer'[w] = [writer[w] EXCEPT !.pc = "waiting", !.fill = TRUE] /\ writer[w].pc = "idle"
      BY <1>1, <1>3, Zenon DEF BackfillBegin
    <2>2. /\ writer'[w].pc = "waiting" /\ writer'[w].fill
          /\ writer'[w].batch = writer[w].batch /\ writer'[w].rows = writer[w].rows
      BY <1>1, <2>1, Zenon DEF Transaction
    <2>3. Claim(writer'[w]) = {} /\ Distinct(writer'[w].batch)
      BY <1>c, <2>1, <2>2, Zenon DEF Claim, Claims
    <2>4. Claims(writer'[w], head.hash, legacy, fresh')
      BY <2>2, <2>3, EmptyClaims, Zenon
    <2> QED BY <1>2, <2>2, <2>4, OnceFrame, Zenon
  <1>4. CASE AppendLock(w)
    <2>1. writer'[w] = [writer[w] EXCEPT !.pc = "locked"] /\ writer[w].pc = "waiting"
      BY <1>1, <1>4, Zenon DEF AppendLock
    <2>2. /\ writer'[w].pc = "locked" /\ writer'[w].fill = writer[w].fill
          /\ writer'[w].batch = writer[w].batch /\ writer'[w].rows = writer[w].rows
      BY <1>1, <2>1, Zenon DEF Transaction
    <2>3. Claim(writer'[w]) = Claim(writer[w])
      BY <2>2, Zenon DEF Claim
    <2>4. Claims(writer'[w], head.hash, legacy, fresh')
      BY <1>2, <1>c, <2>1, <2>2, <2>3, Zenon DEF Claims
    <2> QED BY <1>2, <2>2, <2>3, <2>4, OnceFrame, Zenon
  <1>5. CASE AppendAbort(w)
    <2>1. /\ writer'[w].pc = "done" /\ ~writer'[w].fill
          /\ writer'[w].batch = <<>> /\ writer'[w].rows = {}
      BY <1>1, <1>5, Zenon DEF AppendAbort, NewWriter
    <2>3. Claim(writer'[w]) = {} /\ Distinct(writer'[w].batch)
      BY <2>1, NoClaim, Zenon
    <2>4. Claims(writer'[w], head.hash, legacy, fresh')
      BY <2>1, <2>3, EmptyClaims, Zenon
    <2> QED BY <1>2, <2>3, <2>4, OnceFrame, Zenon
  <1> QED BY <1>3, <1>4, <1>5, Zenon

(* The head is read under the lock; a backfill takes the old rows in hand.   *)
LEMMA OnceRead ==
    ASSUME TypeOK, ChainInv, OnceInv, NEW w \in Writers, AppendReadHead(w)
    PROVE  OnceInv'
  <1>1. writer[w] \in Transaction /\ writer \in [Writers -> Transaction] /\ head \in ChainHead
    BY Zenon DEF TypeOK
  <1> DEFINE done == writer[w].fill /\ legacy = <<>>
             pc == IF done THEN "done" ELSE "chaining"
             b == IF writer[w].fill THEN legacy ELSE writer[w].batch
  <1>2. /\ writer'[w] = [writer[w] EXCEPT !.pc = pc, !.last = [head EXCEPT !.row = TRUE], !.batch = b]
        /\ \A u \in Writers : u # w => writer'[u] = writer[u]
        /\ UNCHANGED <<head, legacy, fresh>> /\ writer[w].pc = "locked"
    BY <1>1, Zenon DEF AppendReadHead
  <1>3. pc \in {"done", "chaining"} /\ (pc = "done" => writer[w].fill)
    BY Zenon
  <1>b. /\ writer[w].fill => b = legacy
        /\ ~writer[w].fill => b = writer[w].batch
        /\ pc = "done" => legacy = <<>>
    BY Zenon
  <1> HIDE DEF done, pc, b
  <1>4. writer[w].rows = {} /\ Claims(writer[w], head.hash, legacy, fresh)
    BY <1>2, Zenon DEF OnceInv, ChainInv, WriterInv
  <1>5. /\ writer'[w].pc = pc /\ writer'[w].batch = b /\ writer'[w].rows = {}
        /\ writer'[w].fill = writer[w].fill /\ writer'[w].last.hash = head.hash
    BY <1>1, <1>2, <1>4 DEF Transaction, ChainHead
  <1>6. Claim(writer'[w]) = EventsOf(b) /\ Claim(writer[w]) = EventsOf(writer[w].batch)
        /\ {r.ev : r \in writer'[w].rows} = {}
    BY <1>4, <1>5, Zenon DEF Claim
  <1>7. Apart(head.hash, legacy, fresh)
    BY Zenon DEF OnceInv
  <1>8. Distinct(b) /\ EventsOf(b) \cap Chained(head.hash) = {}
    <2>1. CASE writer[w].fill
      BY <1>b, <1>7, <2>1, Zenon DEF Apart
    <2>2. CASE ~writer[w].fill
      BY <1>b, <1>4, <1>6, <2>2, Zenon DEF Claims
    <2> QED BY <2>1, <2>2, Zenon
  <1>9. Claims(writer'[w], head.hash, legacy, fresh')
    <2>1. writer'[w].pc # "idle"
      BY <1>3, <1>5, Zenon
    <2>2. writer'[w].fill => Claim(writer'[w]) = EventsOf(legacy)
      BY <1>5, <1>6, <1>b, Zenon
    <2>3. (writer'[w].fill /\ writer'[w].pc # "chaining") => Claim(writer'[w]) = {}
      <3>1. EventsOf(<<>>) = {}
        BY DEF EventsOf
      <3> QED BY <1>3, <1>5, <1>b, <2>2, <3>1, Zenon
    <2>4. ~writer'[w].fill =>
            Claim(writer'[w]) \cap (Chained(head.hash) \cup EventsOf(legacy) \cup fresh') = {}
      BY <1>2, <1>4, <1>5, <1>6, <1>b, Zenon DEF Claims
    <2>5. /\ Unrepeated(writer'[w].last.hash)
          /\ Chained(writer'[w].last.hash) = Chained(head.hash) \cup {r.ev : r \in writer'[w].rows}
          /\ EventsOf(writer'[w].batch) \cap Chained(writer'[w].last.hash) = {}
      BY <1>5, <1>6, <1>7, <1>8, Zenon DEF Apart
    <2> QED BY <1>5, <1>8, <2>1, <2>2, <2>3, <2>4, <2>5, Zenon DEF Claims
  <1>10. ~writer'[w].fill => Claim(writer'[w]) = Claim(writer[w])
    BY <1>5, <1>6, <1>b, Zenon
  <1> QED BY <1>2, <1>5, <1>9, <1>10, OnceFrame, Zenon

(* Chaining moves one event from the batch to the rows.                      *)
LEMMA OnceChain ==
    ASSUME TypeOK, ChainInv, OnceInv, NEW w \in Writers, AppendChain(w)
    PROVE  OnceInv'
  <1>1. /\ writer[w] \in Transaction /\ writer \in [Writers -> Transaction]
        /\ writer[w].last \in ChainHead /\ writer[w].batch \in Seq(Events)
    BY Zenon DEF TypeOK, Transaction
  <1> DEFINE r == Link(writer[w].last, writer[w].batch[1])
             l == [row |-> TRUE, seq |-> r.seq, hash |-> r.hash]
             t == Tail(writer[w].batch)
             x == [seq |-> writer[w].last.seq + 1, ev |-> writer[w].batch[1]]
  <1>2. /\ writer'[w] = [writer[w] EXCEPT !.batch = t, !.rows = writer[w].rows \cup {r}, !.last = l]
        /\ \A u \in Writers : u # w => writer'[u] = writer[u]
        /\ UNCHANGED <<head, legacy, fresh>> /\ writer[w].pc = "chaining" /\ writer[w].batch # <<>>
    BY <1>1, Zenon DEF AppendChain
  <1>3. writer[w].batch[1] \in Events
    BY <1>1, <1>2
  <1>4. r.ev = writer[w].batch[1] /\ r.hash = Append(writer[w].last.hash, x)
    BY <1>1, <1>3, LinkType, Zenon
  <1>5. l.hash = r.hash
    BY Zenon
  <1>x. x \in Entry /\ x.ev = writer[w].batch[1] /\ writer[w].last.hash \in Seq(Entry)
    BY <1>1, <1>3 DEF Entry, ChainHead
  <1> HIDE DEF r, l, t, x
  <1>6. Claims(writer[w], head.hash, legacy, fresh) /\ Distinct(writer[w].batch)
    BY Zenon DEF OnceInv, Claims
  <1>7. /\ Unrepeated(writer[w].last.hash)
        /\ Chained(writer[w].last.hash) = Chained(head.hash) \cup {q.ev : q \in writer[w].rows}
        /\ EventsOf(writer[w].batch) \cap Chained(writer[w].last.hash) = {}
    BY <1>2, <1>6, Zenon DEF Claims
  <1>8. /\ writer'[w].pc = "chaining" /\ writer'[w].batch = t /\ writer'[w].last = l
        /\ writer'[w].rows = writer[w].rows \cup {r} /\ writer'[w].fill = writer[w].fill
    BY <1>1, <1>2, Zenon DEF Transaction
  <1>9. /\ Distinct(t) /\ x.ev \in EventsOf(writer[w].batch) /\ x.ev \notin EventsOf(t)
        /\ EventsOf(writer[w].batch) = EventsOf(t) \cup {x.ev}
    BY <1>1, <1>2, <1>6, <1>x, TailEvents, ZenonT(60) DEF t
  <1>10. /\ Unrepeated(l.hash) /\ Chained(l.hash) = Chained(writer[w].last.hash) \cup {x.ev}
    <2>1. x.ev \notin Chained(writer[w].last.hash)
      BY <1>7, <1>9, Zenon
    <2> QED BY <1>x, <1>4, <1>5, <1>7, <2>1, ChainedAppend, SMTT(30)
  <1>11. {q.ev : q \in writer'[w].rows} = {q.ev : q \in writer[w].rows} \cup {x.ev}
    BY <1>4, <1>8, <1>x, Zenon
  <1>12. Claim(writer'[w]) = Claim(writer[w])
    BY <1>8, <1>9, <1>11, Zenon DEF Claim
  <1>13. Claims(writer'[w], head.hash, legacy, fresh')
    <2>1. /\ Chained(writer'[w].last.hash) = Chained(head.hash) \cup {q.ev : q \in writer'[w].rows}
          /\ EventsOf(writer'[w].batch) \cap Chained(writer'[w].last.hash) = {}
          /\ Unrepeated(writer'[w].last.hash) /\ Distinct(writer'[w].batch)
      BY <1>7, <1>8, <1>9, <1>10, <1>11, ZenonT(60)
    <2> QED BY <1>2, <1>6, <1>8, <1>12, <2>1, Zenon DEF Claims
  <1> QED BY <1>2, <1>8, <1>12, <1>13, OnceFrame, Zenon

(* A commit chains what the transaction had in hand, and only that.          *)
LEMMA OnceCommit ==
    ASSUME TypeOK, ChainInv, OnceInv, NEW w \in Writers, AppendCommit(w)
    PROVE  OnceInv'
  <1>1. /\ writer[w] \in Transaction /\ writer \in [Writers -> Transaction]
    BY Zenon DEF TypeOK
  <1>2. /\ writer'[w].pc = "done" /\ ~writer'[w].fill
        /\ writer'[w].batch = <<>> /\ writer'[w].rows = {}
        /\ \A u \in Writers : u # w => writer'[u] = writer[u]
    BY <1>1, Zenon DEF AppendCommit, NewWriter
  <1>3. /\ head' = writer[w].last /\ fresh' = fresh
        /\ writer[w].pc = "chaining" /\ writer[w].batch = <<>>
        /\ writer[w].fill => legacy' = <<>>
        /\ ~writer[w].fill => legacy' = legacy
    BY Zenon DEF AppendCommit
  <1> DEFINE h == head.hash
             k == writer[w].last.hash
             mine == Claim(writer[w])
  <1>4. Claims(writer[w], h, legacy, fresh) /\ Apart(h, legacy, fresh)
    BY Zenon DEF OnceInv
  <1>e. EventsOf(<<>>) = {} /\ Distinct(<<>>)
    BY DEF EventsOf, Distinct
  <1>5. Unrepeated(k) /\ Chained(k) = Chained(h) \cup mine
    BY <1>3, <1>4, <1>e, Zenon DEF Claims, Claim
  <1>6. /\ writer[w].fill => mine \subseteq EventsOf(legacy)
        /\ ~writer[w].fill => mine \cap (Chained(h) \cup EventsOf(legacy) \cup fresh) = {}
    BY <1>4, Zenon DEF Claims
  <1>k. head'.hash = k
    BY <1>3, Zenon
  <1> HIDE DEF h, k, mine
  <1>7. Apart(k, legacy', fresh)
    <2>1. CASE writer[w].fill
      BY <1>3, <1>4, <1>5, <1>6, <1>e, <2>1, Zenon DEF Apart
    <2>2. CASE ~writer[w].fill
      BY <1>3, <1>4, <1>5, <1>6, <2>2, Zenon DEF Apart
    <2> QED BY <2>1, <2>2, Zenon
  <1>8. ASSUME NEW u \in Writers, u # w
        PROVE  writer[u].pc # "chaining" /\ Claims(writer[u], k, legacy', fresh)
    <2>1. Claims(writer[u], h, legacy, fresh)
      BY Zenon DEF OnceInv, h
    <2>2. lock = w /\ writer[u].pc # "chaining"
      BY <1>3, <1>8, Zenon DEF ChainInv, WriterInv
    <2>3. CASE writer[u].fill
      <3>1. Claim(writer[u]) = {} /\ Distinct(writer[u].batch) /\ writer[u].pc # "idle"
        BY <2>1, <2>2, <2>3, Zenon DEF Claims
      <3> QED BY <2>2, <3>1, EmptyClaims, Zenon
    <2>4. CASE ~writer[u].fill
      <3>1. ~writer[w].fill => Claim(writer[u]) \cap mine = {}
        BY <1>8, <2>4, Zenon DEF OnceInv, mine
      <3>2. Claim(writer[u]) \cap (Chained(h) \cup EventsOf(legacy) \cup fresh) = {}
        BY <2>1, <2>4, Zenon DEF Claims
      <3>3. Claim(writer[u]) \cap (Chained(k) \cup EventsOf(legacy') \cup fresh) = {}
        <4>1. CASE writer[w].fill
          BY <1>3, <1>5, <1>6, <1>e, <3>2, <4>1, Zenon
        <4>2. CASE ~writer[w].fill
          BY <1>3, <1>5, <3>1, <3>2, <4>2, Zenon
        <4> QED BY <4>1, <4>2, Zenon
      <3> QED BY <2>1, <2>2, <2>4, <3>3, Zenon DEF Claims
    <2> QED BY <2>2, <2>3, <2>4, Zenon
  <1>9. Claim(writer'[w]) = {} /\ Claims(writer'[w], k, legacy', fresh)
    <2>1. Claim(writer'[w]) = {} /\ Distinct(writer'[w].batch)
      BY <1>2, NoClaim, Zenon
    <2> QED BY <1>2, <2>1, EmptyClaims, Zenon
  <1>10. \A u \in Writers : Claims(writer'[u], head'.hash, legacy', fresh')
    BY <1>2, <1>3, <1>8, <1>9, <1>k, Zenon
  <1>11. ASSUME NEW u \in Writers, NEW v \in Writers, u # v, ~writer'[u].fill, ~writer'[v].fill
         PROVE  Claim(writer'[u]) \cap Claim(writer'[v]) = {}
    <2>1. CASE u = w \/ v = w
      BY <1>9, <2>1, Zenon
    <2>2. CASE u # w /\ v # w
      BY <1>2, <1>11, <2>2, Zenon DEF OnceInv
    <2> QED BY <2>1, <2>2, Zenon
  <1> QED BY <1>3, <1>7, <1>10, <1>11, <1>k, Zenon DEF OnceInv

(* Every step keeps each event in one place.                                 *)
LEMMA OnceStep ==
    ASSUME TypeOK, ChainInv, OnceInv, Next
    PROVE  OnceInv'
  <1>1. ASSUME NEW w \in Writers, WriterNext(w) PROVE OnceInv'
    BY <1>1, OnceBegin, OnceIdle, OnceRead, OnceChain, OnceCommit, Zenon DEF WriterNext
  <1>2. CASE RetentionNext \/ VerifyNext \/ AnchorNext
    <2>1. UNCHANGED <<head, legacy, fresh, writer>>
      BY <1>2, Zenon DEF RetentionNext, EventExpires, RetentionBoundary, RetentionDelete, RetentionFails,
                  VerifyNext, VerifyBegin, VerifyPage, AnchorNext, AnchorReadHead, AnchorDecide,
                  AnchorStore, AnchorFails
    <2> QED BY <2>1, Zenon DEF OnceInv
  <1> QED BY <1>1, <1>2, Zenon DEF Next

(* No event gets two positions: not from two backfills, nor from a backfill  *)
(* and an append (the seq IS NULL read under the chain's lock).              *)
THEOREM NoEventTwice == Spec => []ChainedOnce
  <1>1. Spec => []OnceInv
    <2>1. OnceInv /\ UNCHANGED vars => OnceInv'
      BY Zenon DEF vars, OnceInv
    <2> QED BY <2>1, OnceStart, OnceStep, ChainInvariant, PTL DEF Spec
  <1>2. TypeOK /\ ChainInv /\ OnceInv => ChainedOnce
    BY Zenon DEF ChainInv, TableInv, OnceInv, Apart, Unrepeated, ChainedOnce
  <1> QED BY <1>1, <1>2, ChainInvariant, PTL

----------------------------------------------------------------------------
(* The paging verifier *)

(* The table is finite: a position has one row.                              *)
LEMMA RowsFinite ==
    ASSUME TypeOK, TableInv
    PROVE  IsFiniteSet(rows)
  <1>1. head.seq \in Nat /\ Len(head.hash) = head.seq /\ rows \in SUBSET Row
    BY Zenon DEF TypeOK, ChainHead, TableInv
  <1>2. \A r \in rows : /\ r.seq \in 1..head.seq /\ head.hash[r.seq] = [seq |-> r.seq, ev |-> r.ev]
                        /\ r.prev = Prefix(head.hash, r.seq - 1) /\ r.hash = Prefix(head.hash, r.seq)
    BY <1>1, Zenon DEF TableInv, Genuine
  <1>3. ASSUME NEW q \in rows, NEW r \in rows, q.seq = r.seq PROVE q = r
    <2>1. q.ev = r.ev
      <3>1. [seq |-> q.seq, ev |-> q.ev] = [seq |-> r.seq, ev |-> r.ev]
        BY <1>2, <1>3
      <3> QED BY <3>1, Zenon
    <2>2. q.prev = r.prev /\ q.hash = r.hash
      <3>1. q.prev = Prefix(head.hash, q.seq - 1) /\ q.hash = Prefix(head.hash, q.seq)
        BY <1>2, Zenon
      <3>2. r.prev = Prefix(head.hash, r.seq - 1) /\ r.hash = Prefix(head.hash, r.seq)
        BY <1>2, Zenon
      <3> QED BY <1>3, <3>1, <3>2, Zenon
    <2>3. q \in Row /\ r \in Row
      BY <1>1, Zenon
    <2> QED BY <1>3, <2>1, <2>2, <2>3 DEF Row
  <1> DEFINE f == [r \in rows |-> r.seq]
  <1>4. f \in Injection(rows, 1..head.seq)
    <2>1. f \in [rows -> 1..head.seq]
      BY <1>2, Zenon
    <2>2. \A q, r \in rows : f[q] = f[r] => q = r
      BY <1>3, Zenon
    <2> QED BY <2>1, <2>2, Zenon DEF Injection, IsInjective
  <1>5. IsFiniteSet(1..head.seq)
    BY <1>1, FS_Interval
  <1> QED BY <1>4, <1>5, FS_Injection, Zenon

(* The lowest rows of a finite set: a page is an initial piece of what lies  *)
(* ahead, and a short page is all of it.                                     *)
LEMMA LowestRows ==
    ASSUME NEW A, IsFiniteSet(A), \A r \in A : r.seq \in Nat, NEW B,
           B = {r \in A : Cardinality({q \in A : q.seq < r.seq}) < PageSize}
    PROVE  /\ \A r \in B, q \in A : q.seq <= r.seq => q \in B
           /\ Cardinality(B) < PageSize => B = A
  <1> DEFINE Below(r) == {q \in A : q.seq < r.seq}
  <1>p. PageSize \in Nat
    BY AuditChainAssumption, Zenon
  <1>b. \A r : r \in B <=> r \in A /\ Cardinality(Below(r)) < PageSize
    BY Zenon
  <1>s. \A r : Below(r) \in SUBSET A /\ \A q : q \in Below(r) <=> q \in A /\ q.seq < r.seq
    BY Zenon
  <1> HIDE DEF Below
  <1>f. \A r : IsFiniteSet(Below(r)) /\ Cardinality(Below(r)) \in Nat
    BY <1>s, FS_Subset, FS_CardinalityType, Zenon
  <1>1. ASSUME NEW r \in B, NEW q \in A, q.seq <= r.seq PROVE q \in B
    <2>1. r \in A /\ Cardinality(Below(r)) < PageSize
      BY <1>b, Zenon
    <2>2. Below(q) \in SUBSET Below(r)
      BY <1>1, <1>s, <2>1
    <2>3. Cardinality(Below(q)) <= Cardinality(Below(r))
      BY <1>f, <2>2, FS_Subset, Zenon
    <2>4. Cardinality(Below(q)) < PageSize
      BY <1>f, <1>p, <2>1, <2>3
    <2> QED BY <1>b, <2>4, Zenon
  <1>2. ASSUME Cardinality(B) < PageSize, B # A PROVE FALSE
    <2> DEFINE S == {r.seq : r \in A \ B}
    <2>1. S \in SUBSET Nat /\ S # {}
      BY <1>2, <1>b, Zenon
    <2>2. Min(S) \in S /\ \A n \in S : Min(S) <= n
      BY <2>1, LowestPosition, Zenon
    <2>3. PICK r \in A \ B : r.seq = Min(S)
      BY <2>2, Zenon
    <2>4. \A q \in A \ B : r.seq <= q.seq
      BY <2>2, <2>3, Zenon
    <2>5. ASSUME NEW q \in Below(r) PROVE q \in B
      <3>1. q \in A /\ q.seq < r.seq /\ q.seq \in Nat /\ r.seq \in Nat
        BY <1>s, <2>3, Zenon
      <3>2. ~(r.seq <= q.seq)
        BY <3>1
      <3> QED BY <2>4, <3>1, <3>2, Zenon
    <2>6. IsFiniteSet(B) /\ Cardinality(B) \in Nat
      BY <1>b, FS_Subset, FS_CardinalityType, Zenon
    <2>7. Cardinality(Below(r)) <= Cardinality(B)
      BY <2>5, <2>6, FS_Subset, Zenon
    <2>8. Cardinality(Below(r)) < PageSize
      BY <1>2, <1>f, <1>p, <2>6, <2>7, SMTT(30)
    <2> QED BY <1>b, <2>3, <2>8, Zenon
  <1> QED BY <1>1, <1>2, Zenon

(* A verifier that has not started has read nothing.                         *)
LEMMA PagesStart == Init => PagesInv
  <1> SUFFICES ASSUME Init, NEW v \in Verifiers PROVE Reading(verifier[v], head, rows)
    BY Zenon DEF PagesInv
  <1>1. verifier[v].pc = "idle" /\ verifier[v].head.seq = 0 /\ verifier[v].head.hash = <<>>
        /\ head.hash = <<>>
    BY Zenon DEF Init, NewVerify, NoHead, Genesis
  <1>2. Earlier(verifier[v].head, head.hash)
    <2>1. Prefix(<<>>, 0) = <<>>
      BY DEF Prefix
    <2> QED BY <1>1, <2>1 DEF Earlier
  <1> QED BY <1>1, <1>2, Zenon DEF Reading

(* A commit adds rows behind everything a verifier has read.                 *)
LEMMA PagesCommit ==
    ASSUME TypeOK, ChainInv, PagesInv, NEW w \in Writers, AppendCommit(w)
    PROVE  PagesInv'
  <1> DEFINE h == head.hash
             k == writer[w].last.hash
             new == writer[w].rows
  <1>1. /\ head' = writer[w].last /\ rows' = rows \cup new /\ verifier' = verifier
        /\ writer[w].pc = "chaining"
    BY Zenon DEF AppendCommit
  <1>2. Continues(writer[w].last, new) /\ head.seq = Len(h)
    BY <1>1, Zenon DEF ChainInv, WriterInv, TableInv
  <1>3. /\ h \in Seq(Entry) /\ k \in Seq(Entry) /\ writer[w].last.seq = Len(k) /\ Len(h) <= Len(k)
        /\ h = Prefix(k, Len(h)) /\ head.seq \in Nat /\ writer[w].last.seq \in Nat
        /\ new \in SUBSET Row /\ \A r \in new : r.seq > head.seq /\ r.seq \in Nat
    BY <1>2, Zenon DEF TypeOK, ChainHead, Transaction, Row, Continues, Earlier
  <1>k. head'.hash = k /\ head'.seq = Len(k)
    BY <1>1, <1>3, Zenon
  <1> HIDE DEF h, k, new
  <1> SUFFICES ASSUME NEW v \in Verifiers PROVE Reading(verifier[v], head', rows')
    BY <1>1, Zenon DEF PagesInv
  <1>4. /\ Reading(verifier[v], head, rows) /\ verifier[v].head.seq \in Nat
        /\ verifier[v].cursor \in Nat
    BY Zenon DEF PagesInv, TypeOK, VerifyRun, ChainHead
  <1>5. Earlier(verifier[v].head, k)
    BY <1>3, <1>4, EarlierTransitive, Zenon DEF Reading, h
  <1>6. ASSUME verifier[v].pc = "paging", ~verifier[v].purged
        PROVE  /\ verifier[v].seen = {r \in rows' : r.seq <= verifier[v].cursor}
               /\ verifier[v].cursor <= Len(k)
               /\ verifier[v].head.row => verifier[v].cursor <= verifier[v].head.seq
    <2>1. /\ verifier[v].seen = {r \in rows : r.seq <= verifier[v].cursor}
          /\ verifier[v].cursor <= head.seq
          /\ verifier[v].head.row => verifier[v].cursor <= verifier[v].head.seq
      BY <1>4, <1>6, Zenon DEF Reading
    <2>2. \A r \in new : ~(r.seq <= verifier[v].cursor)
      BY <1>3, <1>4, <2>1
    <2>3. {r \in rows' : r.seq <= verifier[v].cursor} = {r \in rows : r.seq <= verifier[v].cursor}
      BY <1>1, <2>2, Zenon
    <2>4. verifier[v].cursor <= Len(k)
      BY <1>2, <1>3, <1>4, <2>1
    <2> QED BY <2>1, <2>3, <2>4, Zenon
  <1>7. verifier[v].pc = "broken" => verifier[v].purged
    BY <1>4, Zenon DEF Reading
  <1> QED BY <1>5, <1>6, <1>7, <1>k, Zenon DEF Reading

(* A deletion marks every verifier it takes rows from.                       *)
LEMMA PagesDelete ==
    ASSUME TypeOK, PagesInv, NEW t \in Retainers, RetentionDelete(t)
    PROVE  PagesInv'
  <1> SUFFICES ASSUME NEW v \in Verifiers PROVE Reading(verifier'[v], head', rows')
    BY Zenon DEF PagesInv
  <1>1. verifier[v] \in VerifyRun /\ head' = head /\ Reading(verifier[v], head, rows)
    BY Zenon DEF PagesInv, TypeOK, RetentionDelete
  <1>2. verifier'[v] = [verifier[v] EXCEPT !.purged =
                           verifier[v].purged \/ (verifier[v].pc = "paging" /\ rows' # rows)]
    BY Zenon DEF RetentionDelete
  <1>3. /\ verifier'[v].pc = verifier[v].pc /\ verifier'[v].head = verifier[v].head
        /\ verifier'[v].seen = verifier[v].seen /\ verifier'[v].cursor = verifier[v].cursor
        /\ verifier'[v].purged = (verifier[v].purged \/ (verifier[v].pc = "paging" /\ rows' # rows))
    BY <1>1, <1>2, Zenon DEF VerifyRun
  <1> QED BY <1>1, <1>3, Zenon DEF Reading

(* A page extends what was read to its last row, and the last page completes *)
(* the part of the table that the head the verifier read vouches for.        *)
LEMMA PagesPage ==
    ASSUME TypeOK, ChainInv, PagesInv, NEW v \in Verifiers, VerifyPage(v)
    PROVE  Reading(verifier'[v], head', rows')
  <1> DEFINE run == verifier[v]
             A == {r \in rows : r.seq > run.cursor /\ (run.head.row => r.seq <= run.head.seq)}
             B == Page(v)
             m == IF B = {} THEN run.cursor ELSE Max({r.seq : r \in B})
             ok == VerifyChain(run.seen \cup B, run.head)
             pc == IF Cardinality(B) >= PageSize THEN "paging" ELSE IF ok THEN "ok" ELSE "broken"
  <1>1. /\ verifier' = [verifier EXCEPT ![v] = [verifier[v] EXCEPT
                           !.seen = run.seen \cup B, !.cursor = m, !.pc = pc]]
        /\ head' = head /\ rows' = rows /\ run.pc = "paging"
    BY Zenon DEF VerifyPage
  <1>2. /\ run \in VerifyRun /\ run.cursor \in Nat /\ run.head.seq \in Nat /\ run.purged \in BOOLEAN
        /\ head.seq \in Nat /\ head.seq = Len(head.hash) /\ rows \in SUBSET Row /\ TableInv
        /\ verifier \in [Verifiers -> VerifyRun] /\ Reading(run, head, rows)
    BY Zenon DEF TypeOK, VerifyRun, ChainHead, ChainInv, TableInv, PagesInv
  <1>3. B = {r \in A : Cardinality({q \in A : q.seq < r.seq}) < PageSize}
    BY Zenon DEF Page
  <1>a. \A r : r \in A <=> r \in rows /\ r.seq > run.cursor /\ (run.head.row => r.seq <= run.head.seq)
    BY Zenon
  <1>p. /\ pc \in {"paging", "ok", "broken"}
        /\ pc = "paging" => Cardinality(B) >= PageSize
        /\ pc = "broken" => ~(Cardinality(B) >= PageSize) /\ ~ok
    BY Zenon
  <1>m. (B = {} => m = run.cursor) /\ (B # {} => m = Max({r.seq : r \in B}))
    BY Zenon
  <1> HIDE DEF A, B, m, pc, ok
  <1>4. \A r \in rows : r.seq \in 1..head.seq /\ r.seq \in Nat
    BY <1>2, Zenon DEF TableInv, Genuine, Row
  <1>5. IsFiniteSet(A) /\ \A r \in A : r.seq \in Nat
    <2>1. A \in SUBSET rows
      BY <1>a, Zenon
    <2> QED BY <1>2, <1>4, <2>1, RowsFinite, FS_Subset, Zenon
  <1>6. /\ B \in SUBSET A /\ \A r \in B, q \in A : q.seq <= r.seq => q \in B
        /\ Cardinality(B) < PageSize => B = A
    BY <1>3, <1>5, LowestRows, Zenon
  <1>7. /\ verifier'[v].pc = pc /\ verifier'[v].cursor = m /\ verifier'[v].seen = run.seen \cup B
        /\ verifier'[v].head = run.head /\ verifier'[v].purged = run.purged
    BY <1>1, <1>2, Zenon DEF VerifyRun
  <1>8. /\ m \in Nat /\ run.cursor <= m /\ \A r \in B : r.seq <= m
        /\ \A q \in A : q.seq <= m => q \in B
        /\ B # {} => \E r \in B : r.seq = m
    <2>1. CASE B = {}
      BY <1>2, <1>a, <1>m, <1>4, <2>1, SMTT(30)
    <2>2. CASE B # {}
      <3>1. B \in SUBSET rows
        BY <1>6, <1>a, Zenon
      <3>2. m \in 1..head.seq /\ (\E r \in B : r.seq = m) /\ \A r \in B : r.seq <= m
        BY <1>2, <1>m, <2>2, <3>1, HighestRow, Zenon
      <3>3. PICK r \in B : r.seq = m
        BY <3>2, Zenon
      <3>4. r.seq > run.cursor /\ r.seq \in Nat
        BY <1>a, <1>4, <1>6, <3>1, Zenon
      <3> QED BY <1>2, <1>6, <3>2, <3>3, <3>4, SMTT(30)
    <2> QED BY <2>1, <2>2, Zenon
  <1>9. ASSUME ~run.purged
        PROVE  /\ run.seen \cup B = {r \in rows : r.seq <= m}
               /\ m <= head.seq /\ (run.head.row => m <= run.head.seq)
    <2>1. /\ run.seen = {r \in rows : r.seq <= run.cursor} /\ run.cursor <= head.seq
          /\ run.head.row => run.cursor <= run.head.seq
      BY <1>1, <1>2, <1>9, Zenon DEF Reading
    <2>2. m <= head.seq /\ (run.head.row => m <= run.head.seq)
      <3>1. CASE B = {}
        BY <1>m, <2>1, <3>1, Zenon
      <3>2. CASE B # {}
        BY <1>2, <1>4, <1>6, <1>8, <1>a, <3>2, SMTT(30)
      <3> QED BY <3>1, <3>2, Zenon
    <2>3. ASSUME NEW r \in run.seen \cup B PROVE r \in rows /\ r.seq <= m
      BY <1>2, <1>4, <1>6, <1>8, <1>a, <2>1, SMTT(30)
    <2>4. ASSUME NEW r \in rows, r.seq <= m PROVE r \in run.seen \cup B
      <3>1. CASE r.seq <= run.cursor
        BY <2>1, <3>1, Zenon
      <3>2. CASE ~(r.seq <= run.cursor)
        <4>1. r.seq > run.cursor /\ (run.head.row => r.seq <= run.head.seq)
          BY <1>2, <1>4, <1>8, <2>2, <2>4, <3>2, SMTT(30)
        <4> QED BY <1>8, <1>a, <2>4, <4>1, Zenon
      <3> QED BY <3>1, <3>2, Zenon
    <2> QED BY <2>2, <2>3, <2>4, Zenon
  <1>10. ASSUME ~run.purged, ~(Cardinality(B) >= PageSize) PROVE ok
    <2>1. B = A
      <3>1. IsFiniteSet(B)
        BY <1>5, <1>6, FS_Subset, Zenon
      <3>2. Cardinality(B) \in Nat /\ PageSize \in Nat
        BY <3>1, FS_CardinalityType, AuditChainAssumption, Zenon
      <3> QED BY <1>6, <1>10, <3>2
    <2>2. PICK n \in Nat : n = IF run.head.row THEN run.head.seq ELSE head.seq
      BY <1>2, Zenon
    <2>e. Earlier(run.head, head.hash)
      BY <1>2, Zenon DEF Reading
    <2>3. n <= head.seq /\ (run.head.row => run.head.seq = n)
      BY <1>2, <2>2, <2>e, SMTT(30) DEF Earlier
    <2>4. {r \in rows : r.seq <= m} = {r \in rows : r.seq <= n}
      <3>1. m <= n
        BY <1>9, <1>10, <2>2, Zenon
      <3>2. ASSUME NEW r \in rows, r.seq <= n PROVE r.seq <= m
        <4>1. CASE r.seq <= run.cursor
          BY <1>2, <1>4, <1>8, <4>1, SMTT(30)
        <4>2. CASE ~(r.seq <= run.cursor)
          <5>1. r \in A
            BY <1>2, <1>4, <1>a, <2>2, <3>2, <4>2, SMTT(30)
          <5> QED BY <1>8, <2>1, <5>1, Zenon
        <4> QED BY <4>1, <4>2, Zenon
      <3> QED BY <1>4, <1>8, <3>1, <3>2, SMTT(30)
    <2>5. VerifyChain({r \in rows : r.seq <= n}, run.head)
      BY <1>2, <2>3, <2>e, SliceVerifies, Zenon
    <2> QED BY <1>9, <1>10, <2>4, <2>5, Zenon DEF ok
  <1>11. Earlier(run.head, head.hash)
    BY <1>2, Zenon DEF Reading
  <1> QED BY <1>1, <1>7, <1>9, <1>10, <1>11, <1>p, Zenon DEF Reading

(* Every step leaves each verifier with the rows up to its cursor.           *)
LEMMA PagesStep ==
    ASSUME TypeOK, ChainInv, PagesInv, Next
    PROVE  PagesInv'
  <1>1. CASE UNCHANGED <<head, rows, verifier>>
    BY <1>1, Zenon DEF PagesInv
  <1>2. ASSUME NEW w \in Writers, WriterNext(w), ~AppendCommit(w) PROVE PagesInv'
    BY <1>1, <1>2, Zenon DEF WriterNext, AppendBegin, BackfillBegin, AppendLock, AppendReadHead,
                      AppendChain, AppendAbort
  <1>3. CASE RetentionNext
    <2>1. (\E t \in Retainers : RetentionDelete(t)) \/ UNCHANGED <<head, rows, verifier>>
      BY <1>3, Zenon DEF RetentionNext, EventExpires, RetentionBoundary, RetentionFails
    <2> QED BY <1>1, <2>1, PagesDelete, Zenon
  <1>4. CASE AnchorNext
    BY <1>1, <1>4, Zenon DEF AnchorNext, AnchorReadHead, AnchorDecide, AnchorStore, AnchorFails
  <1>5. ASSUME NEW v \in Verifiers, VerifyBegin(v) \/ VerifyPage(v) PROVE PagesInv'
    <2>t. /\ verifier \in [Verifiers -> VerifyRun] /\ head \in ChainHead
          /\ head.hash \in Seq(Entry) /\ head.seq = Len(head.hash) /\ head.seq \in Nat
      BY Zenon DEF TypeOK, ChainHead, ChainInv, TableInv
    <2>0. /\ head' = head /\ rows' = rows
          /\ \A u \in Verifiers : u # v => verifier'[u] = verifier[u]
      BY <1>5, <2>t, Zenon DEF VerifyBegin, VerifyPage
    <2>1. Reading(verifier'[v], head', rows')
      <3>1. CASE VerifyBegin(v)
        <4>1. /\ verifier'[v].pc = "paging" /\ verifier'[v].head = head
              /\ verifier'[v].seen = {} /\ verifier'[v].cursor = 0 /\ ~verifier'[v].purged
          BY <2>t, <3>1, Zenon DEF VerifyBegin, NewVerify
        <4>2. ASSUME NEW r \in rows PROVE ~(r.seq <= 0)
          <5>1. r.seq \in 1..Len(head.hash)
            BY Zenon DEF ChainInv, TableInv, Genuine
          <5> QED BY <2>t, <5>1
        <4>3. Earlier(head, head.hash)
          BY <2>t, PrefixWhole DEF Earlier
        <4> QED BY <2>0, <2>t, <4>1, <4>2, <4>3, SMTT(30) DEF Reading
      <3> QED BY <1>5, <3>1, PagesPage, Zenon
    <2> QED BY <2>0, <2>1, Zenon DEF PagesInv
  <1> QED BY <1>2, <1>3, <1>4, <1>5, PagesCommit, Zenon DEF Next, VerifyNext

(* The verify route reads the head and then page after page, while others    *)
(* append; it finds fault with an untampered chain only when retention has   *)
(* deleted rows between two of its pages.                                    *)
THEOREM AlarmsHaveCause == Spec => []VerifierHonest
  <1>1. Spec => []PagesInv
    <2>1. PagesInv /\ UNCHANGED vars => PagesInv'
      BY Zenon DEF vars, PagesInv
    <2> QED BY <2>1, PagesStart, PagesStep, ChainInvariant, PTL DEF Spec
  <1>2. PagesInv => VerifierHonest
    BY Zenon DEF PagesInv, Reading, VerifierHonest
  <1> QED BY <1>1, <1>2, PTL
=============================================================================
