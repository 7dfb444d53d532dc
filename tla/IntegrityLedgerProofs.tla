------------------------ MODULE IntegrityLedgerProofs ------------------------
(***************************************************************************)
(* Type correctness of the integrity ledger and what it promises while no  *)
(* stored row is damaged: the chain is whole, appends never collide, and   *)
(* neither a status request nor an audit raises a false alarm; the scan of *)
(* the rows finds the first break.  Then the history of what visitors did, *)
(* of which every report counts each event once; the Merkle trees of the   *)
(* seals; and the signed records of a market, as they are verified.        *)
(***************************************************************************)
EXTENDS IntegrityLedger, MarketRecords, Observations, SetSumsProofs, WellFoundedInduction, TLAPS

-----------------------------------------------------------------------------
(* The inductive invariant.                                                *)

\* The advisory lock has one holder.
OneHolder ==
    \A v, w \in Workers : tx[v] # Idle /\ tx[w] # Idle => v = w

\* A checkpoint that the ledger still agrees with.
Agrees(c) ==
    /\ c.sound /\ c.valid
    /\ c.last = c.head
    /\ c.lastHash = c.headHash
    /\ c.head <= ChainHead
    /\ HashAt(c.head) = c.headHash

Gapless == \A n \in Seqs : Present(n) <=> n <= ChainHead

Linked == \A n \in Seqs : Present(n) => Follows(n, 1, 0)

\* A transaction that appends after the stored head.
AtHead(t) ==
    /\ t.first = ChainHead + 1
    /\ t.prev = HashAt(ChainHead)
    /\ t.audit # Absent => Agrees(t.audit)

HolderAtHead == \A w \in Workers : tx[w] # Idle => AtHead(tx[w])

LatestAgrees == latest # Absent => Agrees(latest)

\* A request has read a checkpoint no newer than the head it reads next.
ReadsInOrder(q) ==
    /\ q.at = "answered" => q.status # "failed"
    /\ q.at # "answered" /\ q.ckpt # Absent => Agrees(q.ckpt)
    /\ q.at = "head" =>
        /\ q.head <= ChainHead
        /\ q.headHash = HashAt(q.head)
        /\ q.ckpt # Absent => q.ckpt.head <= q.head

RequestsInOrder == \A r \in Readers : request[r] # Idle => ReadsInOrder(request[r])

Undamaged == Gapless /\ Linked /\ HolderAtHead /\ LatestAgrees /\ RequestsInOrder

IInv == TypeOK /\ OneHolder /\ (~ damaged => Undamaged)

-----------------------------------------------------------------------------
(* Types.                                                                  *)

\* The head is 0 or the sequence of a stored row, and has a hash.
LEMMA HeadType ==
  ASSUME TypeOK
  PROVE  /\ ChainHead \in 0..MaxEvents
         /\ ChainHead # 0 => Present(ChainHead)
         /\ HashAt(ChainHead) \in Hashes
         /\ \A n \in Seqs : Present(n) => ledger[n] \in EventRow
<1>1. ChainHead \in 0..MaxEvents /\ (ChainHead # 0 => ChainHead \in Seqs /\ Present(ChainHead))
  BY LedgerAssumption DEF ChainHead, IsHead, Seqs
<1>2. \A n \in Seqs : Present(n) => ledger[n] \in EventRow
  BY DEF TypeOK, Present
<1>3. HashAt(ChainHead) \in Hashes
  BY <1>1, <1>2, LedgerAssumption DEF HashAt, EventRow, Hashes
<1>. QED BY <1>1, <1>2, <1>3

\* An audit stops at the head or before it, at a row that has a hash.
LEMMA LastVerifiedType ==
  ASSUME TypeOK, NEW first \in 1..(MaxEvents + 1), NEW entry \in Hashes
  PROVE  /\ LastVerified(first, entry) \in 0..MaxEvents
         /\ LastVerified(first, entry) >= first =>
              HashAt(LastVerified(first, entry)) \in Hashes
<1>. DEFINE last == LastVerified(first, entry)
<1>0. MaxEvents \in Nat /\ ChainHead \in 0..MaxEvents
  BY HeadType, LedgerAssumption
<1>1. last \in 0..MaxEvents /\ (last >= first => last \in Seqs /\ Follows(last, first, entry))
  <2>1. CASE SegmentValid(first, entry)
    <3>1. last = ChainHead
      BY <2>1 DEF LastVerified
    <3>2. last >= first => last \in first..ChainHead
      BY <3>1, <1>0
    <3>. QED BY <2>1, <3>1, <3>2, <1>0 DEF SegmentValid, Seqs
  <2>2. CASE ~ SegmentValid(first, entry)
    <3>. DEFINE T == {n \in first..ChainHead : ~ Follows(n, first, entry)}
    <3>1. T # {} /\ T \in SUBSET Nat
      BY <2>2, <1>0 DEF SegmentValid
    <3>2. PICK m \in T : \A k \in T : m <= k
      BY <3>1, LeastNumber
    <3>3. \A n \in first..(m - 1) : Follows(n, first, entry)
      BY <3>2, <1>0
    <3>. DEFINE Stops(k) ==
           /\ \A n \in first..k : Follows(n, first, entry)
           /\ ~ Follows(k + 1, first, entry)
    <3>4. m - 1 \in (first - 1)..ChainHead /\ Stops(m - 1)
      BY <3>2, <3>3, <1>0
    <3>5. last = CHOOSE k \in (first - 1)..ChainHead : Stops(k)
      BY <2>2 DEF LastVerified
    <3>6. last \in (first - 1)..ChainHead /\ Stops(last)
      <4>. HIDE DEF Stops, last
      <4>. QED BY <3>4, <3>5
    <3>. QED BY <3>6, <1>0 DEF Seqs
  <2>. QED BY <2>1, <2>2
<1>2. last >= first => HashAt(last) \in Hashes
  <2>. HIDE DEF last
  <2>. QED BY <1>0, <1>1, HeadType DEF Follows, HashAt, EventRow, Seqs
<1>. QED BY <1>1, <1>2

LEMMA AttestType ==
  ASSUME TypeOK, NEW full \in BOOLEAN, full \/ latest # Absent
  PROVE  Attest(full) \in Checkpoint
<1>. DEFINE first == ScanFrom(full)
            entry == EntryHash(full)
            last  == LastVerified(first, entry)
<1>1. first \in 1..(MaxEvents + 1) /\ entry \in Hashes
  BY LedgerAssumption DEF TypeOK, ScanFrom, EntryHash, Checkpoint, Hashes
<1>. HIDE DEF first, entry
<1>2. last \in 0..MaxEvents /\ (last >= first => HashAt(last) \in Hashes)
  BY <1>1, LastVerifiedType
<1>. HIDE DEF last
<1>3. (IF last < first THEN entry ELSE HashAt(last)) \in Hashes
  BY <1>1, <1>2, LedgerAssumption
<1>4. SegmentValid(first, entry) \in BOOLEAN
  BY DEF SegmentValid
<1>5. Attest(full) =
        [full |-> full, valid |-> SegmentValid(first, entry), sound |-> TRUE,
         last |-> last, lastHash |-> IF last < first THEN entry ELSE HashAt(last),
         head |-> ChainHead, headHash |-> HashAt(ChainHead)]
  BY DEF Attest, first, entry, last
<1>. QED BY <1>2, <1>3, <1>4, <1>5, HeadType DEF Checkpoint

LEMMA StatusType ==
  ASSUME NEW c, NEW head, NEW headHash, NEW boundary
  PROVE  Status(c, head, headHash, boundary) \in Statuses
BY DEF Status, Statuses

\* A transaction that has just taken the lock.
LEMMA OpeningType ==
  ASSUME TypeOK, NEW size \in 0..MaxBatch, NEW audit \in Checkpoint \cup {Absent},
         NEW seals \in BOOLEAN
  PROVE  [first |-> NextSeq, prev |-> HashAt(ChainHead), size |-> size,
          audit |-> audit, seal |-> seals] \in Transaction
BY HeadType, LedgerAssumption DEF Transaction, NextSeq

\* The rows that a commit stores.
LEMMA NewRowType ==
  ASSUME TypeOK, NEW w \in Workers, Commit(w), NEW n \in Batch(tx[w])
  PROVE  NewRow(tx[w], n) \in EventRow
<1>. DEFINE t == tx[w]
<1>1. t \in Transaction
  BY DEF TypeOK, Commit
<1>2. /\ t.first \in Nat /\ t.size \in Nat /\ n \in Nat /\ appended \in Nat
      /\ t.first <= n /\ n < t.first + t.size
      /\ appended + t.size <= MaxAppends
      /\ t.prev \in Hashes
  BY <1>1, LedgerAssumption DEF Transaction, Batch, Seqs, TypeOK, Hashes, Commit
<1>. HIDE DEF t
<1>3. appended + n - t.first \in Hashes /\ appended + n - t.first + 1 \in Hashes
  BY <1>2, LedgerAssumption DEF Hashes
<1>. QED BY <1>2, <1>3 DEF NewRow, EventRow, t

LEMMA TypeStep ==
  ASSUME TypeOK, [Next]_vars
  PROVE  TypeOK'
<1>. USE DEF stored, attested
<1>1. ASSUME NEW w \in Workers, BeginAppend(w)
      PROVE TypeOK'
  <2>1. [first |-> NextSeq, prev |-> HashAt(ChainHead), size |-> 1,
         audit |-> Absent, seal |-> FALSE] \in Transaction
    <3>1. 1 \in 0..MaxBatch /\ Absent \in Checkpoint \cup {Absent} /\ FALSE \in BOOLEAN
      BY <1>1, LedgerAssumption DEF BeginAppend
    <3>. QED BY <3>1, OpeningType
  <2>. QED BY <1>1, <2>1 DEF BeginAppend, TypeOK
<1>2. ASSUME NEW w \in Workers, AppendAgain(w)
      PROVE TypeOK'
  <2>1. tx[w] \in Transaction
    BY <1>2 DEF AppendAgain, TypeOK
  <2>2. tx[w].size + 1 \in 0..MaxBatch
    BY <1>2, LedgerAssumption DEF AppendAgain
  <2>3. [tx[w] EXCEPT !.size = tx[w].size + 1] \in Transaction
    BY <2>1, <2>2 DEF Transaction
  <2>4. tx' = [tx EXCEPT ![w] = [tx[w] EXCEPT !.size = tx[w].size + 1]]
    BY <1>2 DEF AppendAgain
  <2>5. tx' \in [Workers -> Transaction \cup {Idle}]
    BY <2>3, <2>4 DEF TypeOK
  <2>. QED BY <1>2, <2>5 DEF AppendAgain, TypeOK
<1>3. ASSUME NEW w \in Workers, AppendSeal(w)
      PROVE TypeOK'
  <2>1. tx[w] \in Transaction
    BY <1>3 DEF AppendSeal, TypeOK
  <2>. DEFINE t == [tx[w] EXCEPT !.first = NextSeq, !.prev = HashAt(ChainHead), !.size = 1]
  <2>2. NextSeq \in 1..(MaxEvents + 1) /\ HashAt(ChainHead) \in Hashes /\ 1 \in 0..MaxBatch
    BY <1>3, HeadType, LedgerAssumption DEF AppendSeal, NextSeq
  <2>3. t \in Transaction
    BY <2>1, <2>2 DEF Transaction
  <2>4. tx' = [tx EXCEPT ![w] = t]
    BY <1>3 DEF AppendSeal
  <2>. HIDE DEF t
  <2>5. tx' \in [Workers -> Transaction \cup {Idle}]
    BY <2>3, <2>4 DEF TypeOK
  <2>. QED BY <1>3, <2>5 DEF AppendSeal, TypeOK
<1>4. ASSUME NEW w \in Workers, NEW seals \in BOOLEAN, BeginAudit(w, seals)
      PROVE TypeOK'
  <2>. DEFINE audit == Attest(AuditsAll(seals))
  <2>1. AuditsAll(seals) \in BOOLEAN /\ (AuditsAll(seals) \/ latest # Absent)
    BY DEF AuditsAll
  <2>2. audit \in Checkpoint
    BY <2>1, AttestType
  <2>3. [first |-> NextSeq, prev |-> HashAt(ChainHead), size |-> 0,
         audit |-> audit, seal |-> seals] \in Transaction
    <3>. HIDE DEF audit
    <3>. QED BY <2>2, OpeningType, LedgerAssumption
  <2>. QED BY <1>4, <2>3 DEF BeginAudit, TypeOK
<1>5. ASSUME NEW w \in Workers, Commit(w)
      PROVE TypeOK'
  <2>1. tx[w] \in Transaction
    BY <1>5 DEF Commit, TypeOK
  <2>2. ledger' \in [Seqs -> EventRow \cup {Absent}]
    <3>1. ledger' = [n \in Seqs |-> IF n \in Batch(tx[w]) THEN NewRow(tx[w], n) ELSE ledger[n]]
      BY <1>5 DEF Commit
    <3>2. \A n \in Batch(tx[w]) : NewRow(tx[w], n) \in EventRow
      BY <1>5, NewRowType
    <3>. QED BY <3>1, <3>2 DEF TypeOK
  <2>3. appended' \in Hashes
    BY <1>5, <2>1, LedgerAssumption DEF Commit, TypeOK, Hashes, Transaction
  <2>4. latest' \in Checkpoint \cup {Absent}
    BY <1>5, <2>1 DEF Commit, TypeOK, Transaction
  <2>5. lastFull' \in {"none", "fresh", "old"} /\ retryDue' \in BOOLEAN
    BY <1>5 DEF Commit, TypeOK
  <2>6. tx' \in [Workers -> Transaction \cup {Idle}]
    BY <1>5 DEF Commit, TypeOK
  <2>. QED BY <1>5, <2>2, <2>3, <2>4, <2>5, <2>6 DEF Commit, TypeOK
<1>6. ASSUME NEW w \in Workers, Rollback(w)
      PROVE TypeOK'
  BY <1>6 DEF Rollback, TypeOK
<1>7. CASE PassDay \/ PassHour
  BY <1>7 DEF PassDay, PassHour, TypeOK
<1>8. ASSUME NEW r \in Readers, ReadCheckpoint(r)
      PROVE TypeOK'
  <2>1. [at |-> "checkpoint", ckpt |-> latest] \in Request
    BY DEF Request, TypeOK
  <2>. QED BY <1>8, <2>1 DEF ReadCheckpoint, TypeOK
<1>9. ASSUME NEW r \in Readers, ReadHead(r)
      PROVE TypeOK'
  <2>1. request[r].ckpt \in Checkpoint \cup {Absent}
    BY <1>9 DEF ReadHead, TypeOK, Request
  <2>2. [at |-> "head", ckpt |-> request[r].ckpt, head |-> ChainHead, headHash |-> HashAt(ChainHead)]
          \in Request
    BY <2>1, HeadType DEF Request
  <2>. QED BY <1>9, <2>2 DEF ReadHead, TypeOK
<1>10. ASSUME NEW r \in Readers, Answer(r)
       PROVE TypeOK'
  <2>. DEFINE answer == Status(Judged(r), request[r].head, request[r].headHash,
                               BoundaryHash(Judged(r)))
  <2>1. answer \in Statuses
    BY StatusType
  <2>2. [at |-> "answered", status |-> answer] \in Request
    <3>. HIDE DEF answer
    <3>. QED BY <2>1 DEF Request
  <2>. QED BY <1>10, <2>2 DEF Answer, TypeOK
<1>11. ASSUME NEW r \in Readers, FinishRequest(r)
       PROVE TypeOK'
  BY <1>11 DEF FinishRequest, TypeOK
<1>12. ASSUME NEW n \in Seqs, AlterRow(n) \/ RepairRow(n)
       PROVE TypeOK'
  <2>1. ledger[n] \in EventRow /\ 0 \in Hashes
    BY <1>12, HeadType, LedgerAssumption DEF AlterRow, RepairRow, Hashes
  <2>2. PICK row \in EventRow : ledger' = [ledger EXCEPT ![n] = row]
    <3>1. /\ [ledger[n] EXCEPT !.intact = FALSE] \in EventRow
          /\ [ledger[n] EXCEPT !.intact = FALSE, !.hash = 0] \in EventRow
          /\ [ledger[n] EXCEPT !.intact = TRUE] \in EventRow
      BY <2>1 DEF EventRow
    <3>2. \/ ledger' = [ledger EXCEPT ![n] = [ledger[n] EXCEPT !.intact = FALSE]]
          \/ ledger' = [ledger EXCEPT ![n] = [ledger[n] EXCEPT !.intact = FALSE, !.hash = 0]]
          \/ ledger' = [ledger EXCEPT ![n] = [ledger[n] EXCEPT !.intact = TRUE]]
      BY <1>12 DEF AlterRow, RepairRow, DamageRows
    <3>. QED BY <3>1, <3>2
  <2>3. ledger' \in [Seqs -> EventRow \cup {Absent}]
    BY <2>2 DEF TypeOK
  <2>4. UNCHANGED <<appended, attested, tx, request>> /\ damaged'
    BY <1>12 DEF AlterRow, RepairRow, DamageRows
  <2>. QED BY <2>3, <2>4 DEF TypeOK
<1>13. ASSUME NEW n \in Seqs, LoseRow(n) \/ LoseTail(n)
       PROVE TypeOK'
  BY <1>13 DEF LoseRow, LoseTail, DamageRows, TypeOK
<1>14. ASSUME AlterCheckpoint
       PROVE TypeOK'
  <2>1. [latest EXCEPT !.sound = FALSE] \in Checkpoint
    BY <1>14 DEF AlterCheckpoint, TypeOK, Checkpoint
  <2>. QED BY <1>14, <2>1 DEF AlterCheckpoint, TypeOK
<1>15. CASE UNCHANGED vars
  BY <1>15 DEF vars, TypeOK
<1>. QED
  BY <1>1, <1>2, <1>3, <1>4, <1>5, <1>6, <1>7, <1>8, <1>9, <1>10, <1>11, <1>12,
     <1>13, <1>14, <1>15 DEF Next

\* Every stored row, checkpoint, transaction and request has its type, for any
\* number of connections and any damage.
THEOREM LedgerTypeCorrect == Spec => []TypeOK
<1>1. Init => TypeOK
  <2>1. 0 \in Hashes
    BY LedgerAssumption DEF Hashes
  <2>. QED BY <2>1 DEF Init, TypeOK
<1>2. TypeOK /\ [Next]_vars => TypeOK'
  BY TypeStep
<1>. QED BY <1>1, <1>2, PTL DEF Spec

-----------------------------------------------------------------------------
(* The undamaged ledger.                                                   *)

\* A step that leaves the events alone leaves the head and every agreement.
LEMMA SameLedger ==
  ASSUME ledger' = ledger
  PROVE  /\ ChainHead' = ChainHead
         /\ \A n : Present(n)' <=> Present(n)
         /\ \A n : HashAt(n)' = HashAt(n)
         /\ \A n, first, entry : Follows(n, first, entry)' <=> Follows(n, first, entry)
         /\ \A c : Agrees(c)' <=> Agrees(c)
         /\ \A t : AtHead(t)' <=> AtHead(t)
         /\ \A q : ReadsInOrder(q)' <=> ReadsInOrder(q)
<1>1. ChainHead' = ChainHead
  BY DEF ChainHead, IsHead, Present
<1>2. \A n : HashAt(n)' = HashAt(n)
  BY DEF HashAt
<1>3. \A c : Agrees(c)' <=> Agrees(c)
  BY <1>1, <1>2 DEF Agrees
<1>4. \A q : ReadsInOrder(q)' <=> ReadsInOrder(q)
  BY <1>1, <1>2, <1>3 DEF ReadsInOrder
<1>5. \A n, first, entry : Follows(n, first, entry)' <=> Follows(n, first, entry)
  BY DEF Follows, Present
<1>6. \A t : AtHead(t)' <=> AtHead(t)
  BY <1>1, <1>2, <1>3 DEF AtHead
<1>. QED BY <1>1, <1>2, <1>3, <1>4, <1>5, <1>6 DEF Present

\* In a whole chain every segment that an audit may scan is valid, and what
\* the audit attests agrees with the ledger.
LEMMA AuditAgrees ==
  ASSUME TypeOK, Gapless, Linked, LatestAgrees,
         NEW full \in BOOLEAN, full \/ latest # Absent
  PROVE  Agrees(Attest(full))
<1>. DEFINE first == ScanFrom(full)
            entry == EntryHash(full)
<1>0. MaxEvents \in Nat /\ ChainHead \in 0..MaxEvents
  BY HeadType, LedgerAssumption
<1>1. first \in 1..(ChainHead + 1) /\ entry = HashAt(first - 1)
  <2>1. CASE full
    BY <2>1, <1>0 DEF ScanFrom, EntryHash, HashAt
  <2>2. CASE ~ full
    <3>1. latest \in Checkpoint /\ Agrees(latest)
      BY <2>2 DEF TypeOK, LatestAgrees
    <3>2. latest.last \in 0..ChainHead /\ latest.lastHash = HashAt(latest.last)
      BY <3>1, <1>0 DEF Agrees, Checkpoint
    <3>3. latest.last + 1 - 1 = latest.last
      BY <3>2, <1>0
    <3>. QED BY <2>2, <3>2, <3>3, <1>0 DEF ScanFrom, EntryHash
  <2>. QED BY <2>1, <2>2
<1>. HIDE DEF first, entry
<1>2. ASSUME NEW n \in first..ChainHead
      PROVE Follows(n, first, entry)
  <2>1. n \in Seqs /\ n \in Nat /\ n > 0
    BY <1>0, <1>1 DEF Seqs
  <2>2. Present(n) /\ Follows(n, 1, 0)
    BY <1>0, <2>1 DEF Gapless, Linked
  <2>3. n = first => ledger[n].prev = entry
    <3>1. CASE n = 1
      BY <3>1, <2>2, <1>1 DEF Follows, HashAt
    <3>2. CASE n # 1
      <4>1. n - 1 # 0
        BY <3>2, <2>1
      <4>. QED BY <3>2, <4>1, <2>2, <1>1 DEF Follows, HashAt
    <3>. QED BY <3>1, <3>2
  <2>4. n # first => Present(n - 1) /\ ledger[n].prev = ledger[n - 1].hash
    <3>1. n # first => n # 1
      BY <1>0, <1>1, <2>1
    <3>. QED BY <3>1, <2>2 DEF Follows
  <2>. QED BY <2>2, <2>3, <2>4 DEF Follows
<1>3. SegmentValid(first, entry) /\ LastVerified(first, entry) = ChainHead
  BY <1>2 DEF SegmentValid, LastVerified
<1>4. (IF ChainHead < first THEN entry ELSE HashAt(ChainHead)) = HashAt(ChainHead)
  <2>1. ChainHead < first => first - 1 = ChainHead
    BY <1>0, <1>1
  <2>. QED BY <2>1, <1>1
<1>5. Attest(full) =
        [full |-> full, valid |-> TRUE, sound |-> TRUE,
         last |-> ChainHead, lastHash |-> HashAt(ChainHead),
         head |-> ChainHead, headHash |-> HashAt(ChainHead)]
  BY <1>3, <1>4 DEF Attest, first, entry
<1>. QED BY <1>0, <1>5 DEF Agrees

\* A checkpoint that agrees with the ledger is never reported as failed
\* against a head read after it.
LEMMA AgreementVerifies ==
  ASSUME TypeOK, Gapless, NEW c \in Checkpoint, Agrees(c),
         NEW head \in 0..MaxEvents, c.head <= head, head <= ChainHead,
         NEW headHash, headHash = HashAt(head)
  PROVE  Status(c, head, headHash, BoundaryHash(c)) # "failed"
<1>0. MaxEvents \in Nat /\ ChainHead \in 0..MaxEvents /\ c.head \in 0..MaxEvents
  BY HeadType, LedgerAssumption DEF Checkpoint
<1>1. c # Absent
  BY LedgerAssumption
<1>2. BoundaryHash(c) = c.lastHash
  <2>1. c.last \in Seqs => Present(c.last)
    BY <1>0 DEF Agrees, Gapless
  <2>. QED BY <1>1, <2>1 DEF BoundaryHash, HashIfPresent, Agrees
<1>3. head = c.head => headHash = c.headHash
  BY DEF Agrees
<1>4. ~ (head < c.head)
  BY <1>0
<1>. QED BY <1>1, <1>2, <1>3, <1>4 DEF Status, Agrees

\* A commit extends the chain: old rows stay, new ones follow the old head.
LEMMA CommitExtends ==
  ASSUME TypeOK, Gapless, Linked, HolderAtHead, NEW w \in Workers, Commit(w)
  PROVE  /\ ChainHead' = ChainHead + tx[w].size
         /\ \A n \in 0..ChainHead : HashAt(n)' = HashAt(n)
         /\ Gapless'
         /\ Linked'
         /\ \A c \in Checkpoint : Agrees(c) => Agrees(c)'
<1>. DEFINE t == tx[w]
            k == ChainHead + t.size
<1>0. /\ MaxEvents \in Nat /\ ChainHead \in 0..MaxEvents
      /\ t.size \in Nat /\ k \in 0..MaxEvents
      /\ t.first = ChainHead + 1 /\ t.prev = HashAt(ChainHead)
  <2>1. t \in Transaction
    BY DEF Commit, TypeOK
  <2>2. t.first = ChainHead + 1 /\ t.prev = HashAt(ChainHead) /\ t.first + t.size <= MaxEvents + 1
    BY DEF HolderAtHead, AtHead, Commit
  <2>. QED BY <2>1, <2>2, HeadType, LedgerAssumption DEF Transaction
<1>1. \A n \in Seqs : n \in Batch(t) <=> ChainHead < n /\ n <= k
  BY <1>0 DEF Batch, Seqs
<1>2. \A n \in Seqs : ledger'[n] = IF n \in Batch(t) THEN NewRow(t, n) ELSE ledger[n]
  BY DEF Commit
<1>. HIDE DEF t, k
<1>3. \A n \in Batch(t) : NewRow(t, n) \in EventRow /\ NewRow(t, n) # Absent
  BY NewRowType, LedgerAssumption DEF t
<1>4. \A n \in Seqs : Present(n)' <=> n <= k
  <2>. TAKE n \in Seqs
  <2>1. n \in Nat
    BY <1>0 DEF Seqs
  <2>2. CASE n \in Batch(t)
    BY <2>2, <1>1, <1>2, <1>3 DEF Present
  <2>3. CASE n \notin Batch(t)
    <3>1. Present(n)' <=> Present(n)
      BY <2>3, <1>2 DEF Present
    <3>2. n <= ChainHead <=> n <= k
      BY <2>1, <2>3, <1>0, <1>1 DEF k
    <3>. QED BY <3>1, <3>2 DEF Gapless
  <2>. QED BY <2>2, <2>3
<1>5. ChainHead' = k
  <2>1. \A n \in Seqs : IsHead(n)' <=> n = k
    BY <1>0, <1>4 DEF IsHead, Seqs
  <2>2. ChainHead' = IF \E n \in Seqs : IsHead(n)' THEN CHOOSE n \in Seqs : IsHead(n)' ELSE 0
    BY DEF ChainHead
  <2>3. CASE k = 0
    <3>1. k \notin Seqs
      BY <2>3, <1>0 DEF Seqs
    <3>. QED BY <2>1, <2>2, <2>3, <3>1
  <2>4. CASE k # 0
    <3>1. k \in Seqs
      BY <2>4, <1>0 DEF Seqs
    <3>. QED BY <2>1, <2>2, <3>1
  <2>. QED BY <2>3, <2>4
<1>6. \A n \in Seqs : n <= ChainHead => ledger'[n] = ledger[n]
  BY <1>0, <1>1, <1>2 DEF Seqs
<1>7. \A n \in 0..ChainHead : HashAt(n)' = HashAt(n)
  <2>1. \A n \in 0..ChainHead : n # 0 => n \in Seqs /\ n <= ChainHead
    BY <1>0 DEF Seqs
  <2>. QED BY <2>1, <1>6 DEF HashAt
<1>8. Gapless'
  BY <1>4, <1>5 DEF Gapless
<1>9. Linked'
  <2>. SUFFICES ASSUME NEW n \in Seqs, n <= k
                PROVE Follows(n, 1, 0)'
    BY <1>4 DEF Linked
  <2>0. n \in Nat /\ n > 0 /\ (n # 1 => n - 1 \in Seqs /\ n - 1 <= k)
    BY <1>0 DEF Seqs, k
  <2>1. Present(n)' /\ (n # 1 => Present(n - 1)')
    BY <2>0, <1>4
  <2>2. CASE n <= ChainHead
    <3>1. Follows(n, 1, 0)
      BY <2>2 DEF Gapless, Linked
    <3>2. ledger'[n] = ledger[n] /\ (n # 1 => ledger'[n - 1] = ledger[n - 1])
      <4>1. n # 1 => n - 1 <= ChainHead
        BY <2>0, <2>2, <1>0
      <4>. QED BY <4>1, <2>0, <2>2, <1>6
    <3>. QED BY <2>1, <3>1, <3>2 DEF Follows
  <2>3. CASE ~ (n <= ChainHead)
    <3>1. n \in Batch(t) /\ ledger'[n] = NewRow(t, n)
      BY <2>0, <2>3, <1>0, <1>1, <1>2
    <3>2. ledger'[n].intact
      BY <3>1 DEF NewRow
    <3>3. CASE n = t.first
      <4>1. ledger'[n].prev = HashAt(ChainHead) /\ n = ChainHead + 1
        BY <3>1, <3>3, <1>0 DEF NewRow
      <4>2. CASE ChainHead = 0
        BY <4>1, <4>2, <2>1, <3>2 DEF Follows, HashAt
      <4>3. CASE ChainHead # 0
        <5>1. n # 1 /\ n - 1 = ChainHead /\ ChainHead \in Seqs
          BY <4>1, <4>3, <1>0 DEF Seqs
        <5>2. ledger'[n - 1].hash = HashAt(ChainHead)
          BY <5>1, <4>3, <1>0, <1>6 DEF HashAt
        <5>. QED BY <4>1, <5>1, <5>2, <2>1, <3>2 DEF Follows
      <4>. QED BY <4>2, <4>3
    <3>4. CASE n # t.first
      <4>1. n # 1 /\ n - 1 \in Batch(t)
        <5>1. n # 1 /\ n - 1 \in Seqs /\ ChainHead < n - 1 /\ n - 1 <= k
          BY <2>0, <2>3, <3>4, <1>0 DEF Seqs
        <5>. QED BY <5>1, <1>1
      <4>2. ledger'[n - 1] = NewRow(t, n - 1)
        BY <4>1, <2>0, <1>2
      <4>3. appended \in Nat
        BY LedgerAssumption DEF TypeOK, Hashes
      <4>4. appended + (n - 1) - t.first + 1 = appended + n - t.first
        BY <4>3, <2>0, <1>0
      <4>5. ledger'[n].prev = ledger'[n - 1].hash
        BY <3>1, <3>4, <4>2, <4>4 DEF NewRow
      <4>. QED BY <4>1, <4>5, <2>1, <3>2 DEF Follows
    <3>. QED BY <3>3, <3>4
  <2>. QED BY <2>2, <2>3
<1>10. ASSUME NEW c \in Checkpoint, Agrees(c)
       PROVE Agrees(c)'
  <2>1. c.head \in 0..ChainHead
    BY <1>0, <1>10 DEF Checkpoint, Agrees
  <2>2. HashAt(c.head)' = HashAt(c.head)
    BY <2>1, <1>7
  <2>3. c.head <= ChainHead'
    BY <2>1, <1>0, <1>5 DEF k
  <2>. QED BY <1>10, <2>2, <2>3 DEF Agrees
<1>. QED BY <1>5, <1>7, <1>8, <1>9, <1>10 DEF k, t

\* Only one worker holds the lock after any step.
LEMMA OneHolderStep ==
  ASSUME TypeOK, OneHolder, [Next]_vars
  PROVE  OneHolder'
<1>1. ASSUME NEW w \in Workers, LockFree, NEW t, tx' = [tx EXCEPT ![w] = t]
      PROVE OneHolder'
  <2>1. \A v \in Workers : v # w => tx'[v] = Idle
    BY <1>1 DEF TypeOK, LockFree
  <2>. QED BY <2>1 DEF OneHolder
<1>2. ASSUME NEW w \in Workers, tx[w] # Idle, NEW t, tx' = [tx EXCEPT ![w] = t]
      PROVE OneHolder'
  <2>1. \A v \in Workers : v # w => tx'[v] = tx[v]
    BY <1>2 DEF TypeOK
  <2>2. \A v \in Workers : v # w => tx[v] = Idle
    BY <1>2 DEF OneHolder
  <2>. QED BY <2>1, <2>2 DEF OneHolder
<1>3. CASE tx' = tx
  BY <1>3 DEF OneHolder
<1>4. ASSUME NEW w \in Workers, AppendAgain(w)
      PROVE OneHolder'
  BY <1>2, <1>4 DEF AppendAgain
<1>5. ASSUME NEW w \in Workers, AppendSeal(w)
      PROVE OneHolder'
  <2>. DEFINE t == [tx[w] EXCEPT !.first = NextSeq, !.prev = HashAt(ChainHead), !.size = 1]
  <2>1. tx[w] # Idle /\ tx' = [tx EXCEPT ![w] = t]
    BY <1>5 DEF AppendSeal
  <2>. HIDE DEF t
  <2>. QED BY <1>2, <2>1
<1>6. ASSUME NEW w \in Workers, BeginAppend(w)
      PROVE OneHolder'
  BY <1>1, <1>6 DEF BeginAppend
<1>7. ASSUME NEW w \in Workers, NEW seals \in BOOLEAN, BeginAudit(w, seals)
      PROVE OneHolder'
  BY <1>1, <1>7 DEF BeginAudit
<1>8. ASSUME NEW w \in Workers, Commit(w) \/ Rollback(w)
      PROVE OneHolder'
  BY <1>2, <1>8 DEF Commit, Rollback
<1>9. ASSUME \/ PassDay \/ PassHour \/ AlterCheckpoint
             \/ \E r \in Readers :
                  ReadCheckpoint(r) \/ ReadHead(r) \/ Answer(r) \/ FinishRequest(r)
             \/ \E n \in Seqs : AlterRow(n) \/ RepairRow(n) \/ LoseRow(n) \/ LoseTail(n)
             \/ UNCHANGED vars
      PROVE tx' = tx
  BY <1>9 DEF PassDay, PassHour, AlterCheckpoint, ReadCheckpoint, ReadHead, Answer,
     FinishRequest, AlterRow, RepairRow, LoseRow, LoseTail, DamageRows, vars
<1>. QED BY <1>3, <1>4, <1>5, <1>6, <1>7, <1>8, <1>9 DEF Next

\* What the undamaged ledger guarantees survives every step that does no
\* damage.
LEMMA UndamagedStep ==
  ASSUME IInv, Next, ~ damaged'
  PROVE  Undamaged'
<1>0. TypeOK /\ OneHolder /\ ~ damaged /\ Undamaged
  <2>1. ~ damaged
    BY DEF Next, BeginAppend, AppendAgain, AppendSeal, BeginAudit, Commit, Rollback,
       PassDay, PassHour, ReadCheckpoint, ReadHead, Answer, FinishRequest, AlterRow,
       RepairRow, LoseRow, LoseTail, DamageRows, AlterCheckpoint
  <2>. QED BY <2>1 DEF IInv
<1>. USE DEF stored, attested
\* Steps of a worker that leave the stored rows alone.
<1>1. ASSUME NEW w \in Workers, NEW t, tx' = [tx EXCEPT ![w] = t],
             t # Idle => AtHead(t),
             UNCHANGED <<ledger, latest, request>>
      PROVE Undamaged'
  <2>1. Gapless' /\ Linked' /\ LatestAgrees' /\ RequestsInOrder'
    BY <1>0, <1>1, SameLedger
       DEF Undamaged, Gapless, Linked, LatestAgrees, RequestsInOrder
  <2>2. HolderAtHead'
    <3>. SUFFICES ASSUME NEW v \in Workers, tx'[v] # Idle
                  PROVE AtHead(tx[v])'
      BY DEF HolderAtHead
    <3>1. tx'[v] # Idle /\ AtHead(tx'[v])
      <4>1. CASE v = w
        BY <1>0, <1>1, <4>1 DEF TypeOK
      <4>2. CASE v # w
        BY <1>0, <1>1, <4>2 DEF TypeOK, Undamaged, HolderAtHead
      <4>. QED BY <4>1, <4>2
    <3>. QED BY <1>1, <3>1, SameLedger
  <2>. QED BY <2>1, <2>2 DEF Undamaged
<1>2. ASSUME NEW w \in Workers, BeginAppend(w)
      PROVE Undamaged'
  <2>. DEFINE t == [first |-> NextSeq, prev |-> HashAt(ChainHead), size |-> 1,
                    audit |-> Absent, seal |-> FALSE]
  <2>1. tx' = [tx EXCEPT ![w] = t] /\ UNCHANGED <<ledger, latest, request>>
    BY <1>2 DEF BeginAppend
  <2>2. t.first = ChainHead + 1 /\ t.prev = HashAt(ChainHead) /\ t.audit = Absent
    BY DEF NextSeq
  <2>. HIDE DEF t
  <2>. QED BY <1>1, <2>1, <2>2 DEF AtHead
<1>3. ASSUME NEW w \in Workers, AppendAgain(w)
      PROVE Undamaged'
  <2>. DEFINE t == [tx[w] EXCEPT !.size = @ + 1]
  <2>1. tx' = [tx EXCEPT ![w] = t] /\ UNCHANGED <<ledger, latest, request>>
    BY <1>3 DEF AppendAgain
  <2>2. tx[w] \in Transaction /\ tx[w] # Idle
    BY <1>0, <1>3 DEF TypeOK, AppendAgain
  <2>3. t.first = tx[w].first /\ t.prev = tx[w].prev /\ t.audit = tx[w].audit
    BY <2>2 DEF Transaction
  <2>4. t.first = ChainHead + 1 /\ t.prev = HashAt(ChainHead) /\ (t.audit # Absent => Agrees(t.audit))
    <3>. HIDE DEF t
    <3>. QED BY <1>0, <2>2, <2>3 DEF Undamaged, HolderAtHead, AtHead
  <2>. HIDE DEF t
  <2>. QED BY <1>1, <2>1, <2>4 DEF AtHead
<1>4. ASSUME NEW w \in Workers, AppendSeal(w)
      PROVE Undamaged'
  <2>. DEFINE t == [tx[w] EXCEPT !.first = NextSeq, !.prev = HashAt(ChainHead), !.size = 1]
  <2>1. tx' = [tx EXCEPT ![w] = t] /\ UNCHANGED <<ledger, latest, request>>
    BY <1>4 DEF AppendSeal
  <2>2. tx[w] \in Transaction /\ tx[w] # Idle
    BY <1>0, <1>4 DEF TypeOK, AppendSeal
  <2>3. t.first = ChainHead + 1 /\ t.prev = HashAt(ChainHead) /\ t.audit = tx[w].audit
    BY <2>2 DEF Transaction, NextSeq
  <2>4. t.audit # Absent => Agrees(t.audit)
    <3>. HIDE DEF t
    <3>. QED BY <1>0, <2>2, <2>3 DEF Undamaged, HolderAtHead, AtHead
  <2>. HIDE DEF t
  <2>. QED BY <1>1, <2>1, <2>3, <2>4 DEF AtHead
<1>5. ASSUME NEW w \in Workers, NEW seals \in BOOLEAN, BeginAudit(w, seals)
      PROVE Undamaged'
  <2>. DEFINE audit == Attest(AuditsAll(seals))
              t == [first |-> NextSeq, prev |-> HashAt(ChainHead), size |-> 0,
                    audit |-> audit, seal |-> seals]
  <2>1. tx' = [tx EXCEPT ![w] = t] /\ UNCHANGED <<ledger, latest, request>>
    BY <1>5 DEF BeginAudit
  <2>2. AuditsAll(seals) \in BOOLEAN /\ (AuditsAll(seals) \/ latest # Absent)
    BY DEF AuditsAll
  <2>3. Agrees(audit)
    BY <1>0, <2>2, AuditAgrees DEF Undamaged
  <2>. HIDE DEF audit
  <2>4. t.first = ChainHead + 1 /\ t.prev = HashAt(ChainHead) /\ t.audit = audit
    BY DEF NextSeq
  <2>. HIDE DEF t
  <2>. QED BY <1>1, <2>1, <2>3, <2>4 DEF AtHead
<1>6. ASSUME NEW w \in Workers, Rollback(w)
      PROVE Undamaged'
  BY <1>1, <1>6 DEF Rollback
<1>7. ASSUME NEW w \in Workers, Commit(w)
      PROVE Undamaged'
  <2>1. /\ ChainHead' = ChainHead + tx[w].size
        /\ \A n \in 0..ChainHead : HashAt(n)' = HashAt(n)
        /\ Gapless' /\ Linked'
        /\ \A c \in Checkpoint : Agrees(c) => Agrees(c)'
    BY <1>0, <1>7, CommitExtends DEF Undamaged
  <2>2. tx[w] \in Transaction /\ tx[w] # Idle
    BY <1>0, <1>7 DEF TypeOK, Commit
  <2>3. HolderAtHead'
    <3>1. \A v \in Workers : tx'[v] = Idle
      BY <1>0, <1>7, <2>2 DEF TypeOK, OneHolder, Commit
    <3>. QED BY <3>1 DEF HolderAtHead
  <2>4. \A c : c # Absent /\ c \in Checkpoint /\ Agrees(c) => Agrees(c)'
    BY <2>1
  <2>5. LatestAgrees'
    <3>1. latest' # Absent => latest' \in Checkpoint /\ Agrees(latest')
      <4>1. CASE tx[w].audit = Absent
        <5>1. latest' = latest
          BY <1>7, <4>1 DEF Commit
        <5>. QED BY <1>0, <5>1 DEF TypeOK, Undamaged, LatestAgrees
      <4>2. CASE tx[w].audit # Absent
        <5>1. latest' = tx[w].audit
          BY <1>7, <4>2 DEF Commit
        <5>. QED BY <1>0, <2>2, <4>2, <5>1
                 DEF Undamaged, HolderAtHead, AtHead, Transaction
      <4>. QED BY <4>1, <4>2
    <3>. QED BY <3>1, <2>4 DEF LatestAgrees
  <2>6. RequestsInOrder'
    <3>. SUFFICES ASSUME NEW r \in Readers, request'[r] # Idle
                  PROVE ReadsInOrder(request[r])'
      BY DEF RequestsInOrder
    <3>. DEFINE q == request[r]
    <3>1. request' = request /\ q \in Request /\ ReadsInOrder(q)
      BY <1>0, <1>7 DEF TypeOK, Undamaged, RequestsInOrder, Commit
    <3>2. ASSUME NEW p \in Request, ReadsInOrder(p)
          PROVE ReadsInOrder(p)'
      <4>1. p.at # "answered" /\ p.ckpt # Absent => Agrees(p.ckpt)'
        <5>1. p.at # "answered" /\ p.ckpt # Absent => p.ckpt \in Checkpoint
          BY DEF Request
        <5>. QED BY <3>2, <5>1, <2>1 DEF ReadsInOrder
      <4>2. p.at = "head" => p.head <= ChainHead' /\ p.headHash = HashAt(p.head)'
        <5>. SUFFICES ASSUME p.at = "head"
                      PROVE p.head <= ChainHead' /\ p.headHash = HashAt(p.head)'
          OBVIOUS
        <5>1. p.head \in 0..ChainHead /\ p.headHash = HashAt(p.head)
          BY <3>2, <1>0, HeadType, LedgerAssumption DEF ReadsInOrder, Request
        <5>2. HashAt(p.head)' = HashAt(p.head)
          BY <5>1, <2>1
        <5>3. p.head <= ChainHead'
          BY <5>1, <1>0, <2>1, <2>2, HeadType, LedgerAssumption DEF Transaction
        <5>. QED BY <5>1, <5>2, <5>3
      <4>. QED BY <3>2, <4>1, <4>2 DEF ReadsInOrder
    <3>. QED BY <3>1, <3>2
  <2>. QED BY <2>1, <2>3, <2>5, <2>6 DEF Undamaged
\* Steps of a request, which change nothing else.
<1>8. ASSUME NEW r \in Readers, NEW q, request' = [request EXCEPT ![r] = q],
             q # Idle => ReadsInOrder(q),
             UNCHANGED <<ledger, latest, tx>>
      PROVE Undamaged'
  <2>1. Gapless' /\ Linked' /\ LatestAgrees' /\ HolderAtHead'
    BY <1>0, <1>8, SameLedger
       DEF Undamaged, Gapless, Linked, LatestAgrees, HolderAtHead
  <2>2. RequestsInOrder'
    <3>. SUFFICES ASSUME NEW v \in Readers, request'[v] # Idle
                  PROVE ReadsInOrder(request[v])'
      BY DEF RequestsInOrder
    <3>1. ReadsInOrder(request'[v])
      <4>1. CASE v = r
        BY <1>0, <1>8, <4>1 DEF TypeOK
      <4>2. CASE v # r
        BY <1>0, <1>8, <4>2 DEF TypeOK, Undamaged, RequestsInOrder
      <4>. QED BY <4>1, <4>2
    <3>. QED BY <1>8, <3>1, SameLedger
  <2>. QED BY <2>1, <2>2 DEF Undamaged
<1>9. ASSUME NEW r \in Readers, ReadCheckpoint(r)
      PROVE Undamaged'
  <2>. DEFINE q == [at |-> "checkpoint", ckpt |-> latest]
  <2>1. request' = [request EXCEPT ![r] = q] /\ UNCHANGED <<ledger, latest, tx>>
    BY <1>9 DEF ReadCheckpoint
  <2>2. ReadsInOrder(q)
    BY <1>0 DEF Undamaged, LatestAgrees, ReadsInOrder
  <2>. HIDE DEF q
  <2>. QED BY <1>8, <2>1, <2>2
<1>10. ASSUME NEW r \in Readers, ReadHead(r)
       PROVE Undamaged'
  <2>. DEFINE q == [at |-> "head", ckpt |-> request[r].ckpt,
                    head |-> ChainHead, headHash |-> HashAt(ChainHead)]
  <2>1. request' = [request EXCEPT ![r] = q] /\ UNCHANGED <<ledger, latest, tx>>
    BY <1>10 DEF ReadHead
  <2>2. request[r].ckpt # Absent => Agrees(request[r].ckpt)
    BY <1>0, <1>10 DEF Undamaged, RequestsInOrder, ReadsInOrder, ReadHead
  <2>3. ChainHead <= ChainHead
    BY <1>0, HeadType, LedgerAssumption
  <2>4. ReadsInOrder(q)
    BY <2>2, <2>3 DEF ReadsInOrder, Agrees
  <2>. HIDE DEF q
  <2>. QED BY <1>8, <2>1, <2>4
<1>11. ASSUME NEW r \in Readers, Answer(r)
       PROVE Undamaged'
  <2>. DEFINE c == request[r].ckpt
              answer == Status(c, request[r].head, request[r].headHash, BoundaryHash(c))
              q == [at |-> "answered", status |-> answer]
  <2>1. request' = [request EXCEPT ![r] = q] /\ UNCHANGED <<ledger, latest, tx>>
    BY <1>11 DEF Answer, Judged
  <2>2. /\ request[r] \in Request /\ request[r].at = "head"
        /\ ReadsInOrder(request[r])
    BY <1>0, <1>11 DEF TypeOK, Answer, Undamaged, RequestsInOrder
  <2>3. answer # "failed"
    <3>1. CASE c = Absent
      BY <3>1 DEF Status
    <3>2. CASE c # Absent
      <4>1. /\ c \in Checkpoint /\ Agrees(c)
            /\ request[r].head \in 0..MaxEvents
            /\ c.head <= request[r].head /\ request[r].head <= ChainHead
            /\ request[r].headHash = HashAt(request[r].head)
        BY <2>2, <3>2 DEF Request, ReadsInOrder
      <4>. HIDE DEF c
      <4>. QED BY <1>0, <4>1, AgreementVerifies DEF Undamaged
    <3>. QED BY <3>1, <3>2
  <2>. HIDE DEF answer
  <2>4. ReadsInOrder(q)
    BY <2>3 DEF ReadsInOrder
  <2>. HIDE DEF q
  <2>. QED BY <1>8, <2>1, <2>4
<1>12. ASSUME NEW r \in Readers, FinishRequest(r)
       PROVE Undamaged'
  BY <1>8, <1>12 DEF FinishRequest
<1>13. CASE PassDay \/ PassHour
  BY <1>0, <1>13, SameLedger
     DEF PassDay, PassHour, Undamaged, Gapless, Linked, LatestAgrees, HolderAtHead,
         RequestsInOrder
<1>14. ~ AlterCheckpoint /\ \A n \in Seqs :
         ~ AlterRow(n) /\ ~ RepairRow(n) /\ ~ LoseRow(n) /\ ~ LoseTail(n)
  BY DEF AlterRow, RepairRow, LoseRow, LoseTail, DamageRows, AlterCheckpoint
<1>. QED
  BY <1>2, <1>3, <1>4, <1>5, <1>6, <1>7, <1>9, <1>10, <1>11, <1>12, <1>13, <1>14 DEF Next

LEMMA LedgerInvariance == Spec => []IInv
<1>1. Init => IInv
  <2>1. Init => TypeOK
    <3>1. 0 \in Hashes
      BY LedgerAssumption DEF Hashes
    <3>. QED BY <3>1 DEF Init, TypeOK
  <2>. SUFFICES ASSUME Init
                PROVE OneHolder /\ Undamaged
    BY <2>1 DEF IInv
  <2>2. \A n \in Seqs : ~ Present(n)
    BY DEF Init, Present
  <2>3. ChainHead = 0
    BY <2>2 DEF ChainHead, IsHead
  <2>4. Gapless /\ Linked
    BY <2>2, <2>3, LedgerAssumption DEF Gapless, Linked, Seqs
  <2>. QED BY <2>4 DEF Init, OneHolder, Undamaged, HolderAtHead, LatestAgrees, RequestsInOrder
<1>2. IInv /\ [Next]_vars => IInv'
  <2>. SUFFICES ASSUME IInv, [Next]_vars
                PROVE IInv'
    OBVIOUS
  <2>1. TypeOK' /\ OneHolder'
    BY TypeStep, OneHolderStep DEF IInv
  <2>2. CASE Next
    BY <2>1, <2>2, UndamagedStep DEF IInv
  <2>3. CASE UNCHANGED vars
    <3>1. Undamaged => Undamaged'
      BY <2>3, SameLedger DEF vars, Undamaged, Gapless, Linked, LatestAgrees,
         HolderAtHead, RequestsInOrder
    <3>. QED BY <2>1, <2>3, <3>1 DEF IInv, vars
  <2>. QED BY <2>2, <2>3
<1>. QED BY <1>1, <1>2, PTL DEF Spec

-----------------------------------------------------------------------------
(* What the invariant says to users of the ledger.                         *)

\* While no stored row is damaged the events are one chain, for any number of
\* concurrent appends.
THEOREM LedgerChainWhole == Spec => []ChainWhole
<1>1. IInv => ChainWhole
  BY DEF IInv, Undamaged, Linked, ChainWhole
<1>. QED BY <1>1, LedgerInvariance, PTL

\* While no stored row is damaged the unique sequence never refuses an append.
THEOREM LedgerNoAppendCollides == Spec => []NoAppendCollides
<1>1. IInv => NoAppendCollides
  <2>. SUFFICES ASSUME IInv, ~ damaged, NEW w \in Workers, tx[w] # Idle
                PROVE /\ Fits(tx[w])
                      /\ tx[w].first = ChainHead + 1
                      /\ tx[w].prev = HashAt(ChainHead)
    BY DEF NoAppendCollides
  <2>1. AtHead(tx[w]) /\ Gapless /\ TypeOK
    BY DEF IInv, Undamaged, HolderAtHead
  <2>2. ChainHead \in Nat
    BY <2>1, HeadType, LedgerAssumption
  <2>3. \A n \in Batch(tx[w]) : n \in Seqs /\ n \in Nat /\ ChainHead + 1 <= n
    BY <2>1, LedgerAssumption DEF Batch, AtHead, Seqs
  <2>4. Fits(tx[w])
    BY <2>1, <2>2, <2>3 DEF Fits, Gapless
  <2>. QED BY <2>1, <2>4 DEF AtHead
<1>. QED BY <1>1, LedgerInvariance, PTL

\* While no stored row is damaged neither an audit nor a status request, for
\* any number of them in flight, reports a failure.
THEOREM LedgerNoFalseAlarm == Spec => []NoFalseAlarm
<1>1. IInv => NoFalseAlarm
  <2>. SUFFICES ASSUME IInv, ~ damaged
                PROVE /\ CurrentStatus # "failed"
                      /\ latest # Absent => latest.valid
                      /\ \A r \in Readers :
                           request[r] # Idle /\ request[r].at = "answered" =>
                             request[r].status # "failed"
    BY DEF NoFalseAlarm
  <2>1. TypeOK /\ Gapless /\ LatestAgrees /\ RequestsInOrder
    BY DEF IInv, Undamaged
  <2>2. CurrentStatus # "failed"
    <3>1. CASE latest = Absent
      BY <3>1 DEF CurrentStatus, Status
    <3>2. CASE latest # Absent
      <4>1. latest \in Checkpoint /\ Agrees(latest) /\ latest.head <= ChainHead
        BY <2>1, <3>2 DEF TypeOK, LatestAgrees, Agrees
      <4>2. ChainHead \in 0..MaxEvents /\ ChainHead <= ChainHead
        BY <2>1, HeadType, LedgerAssumption
      <4>. QED BY <2>1, <4>1, <4>2, AgreementVerifies DEF CurrentStatus
    <3>. QED BY <3>1, <3>2
  <2>. QED BY <2>1, <2>2 DEF LatestAgrees, Agrees, RequestsInOrder, ReadsInOrder
<1>. QED BY <1>1, LedgerInvariance, PTL

-----------------------------------------------------------------------------
(* What an audit may never do, whatever happened to the stored rows.       *)

\* Only BeginAudit leaves an attestation in a transaction that was not open.
LEMMA AuditStep ==
  ASSUME TypeOK, [Next]_vars, NEW w \in Workers, Audits(w)
  PROVE  \E seals \in BOOLEAN :
           /\ BeginAudit(w, seals)
           /\ tx'[w].seal = seals
           /\ tx'[w].audit = Attest(AuditsAll(seals))
<1>0. tx[w] = Idle /\ tx'[w] # Idle /\ tx'[w].audit # Absent
  BY DEF Audits
<1>1. ASSUME NEW v \in Workers, NEW t, tx' = [tx EXCEPT ![v] = t]
      PROVE v = w /\ tx'[w] = t
  BY <1>0, <1>1 DEF TypeOK
<1>2. ASSUME NEW v \in Workers, NEW seals \in BOOLEAN, BeginAudit(v, seals)
      PROVE BeginAudit(w, seals) /\ tx'[w].seal = seals
              /\ tx'[w].audit = Attest(AuditsAll(seals))
  <2>. DEFINE audit == Attest(AuditsAll(seals))
              t == [first |-> NextSeq, prev |-> HashAt(ChainHead), size |-> 0,
                    audit |-> audit, seal |-> seals]
  <2>1. tx' = [tx EXCEPT ![v] = t]
    BY <1>2 DEF BeginAudit
  <2>. HIDE DEF audit
  <2>2. t.seal = seals /\ t.audit = audit
    OBVIOUS
  <2>. HIDE DEF t
  <2>3. v = w /\ tx'[w] = t
    BY <1>1, <2>1
  <2>. QED BY <1>2, <2>2, <2>3 DEF audit
<1>3. ASSUME NEW v \in Workers
      PROVE ~ BeginAppend(v)
  <2>. SUFFICES ASSUME BeginAppend(v)
                PROVE FALSE
    OBVIOUS
  <2>. DEFINE t == [first |-> NextSeq, prev |-> HashAt(ChainHead), size |-> 1,
                    audit |-> Absent, seal |-> FALSE]
  <2>1. tx' = [tx EXCEPT ![v] = t] /\ t.audit = Absent
    BY DEF BeginAppend
  <2>. HIDE DEF t
  <2>. QED BY <1>0, <1>1, <2>1
<1>4. ASSUME NEW v \in Workers,
             AppendAgain(v) \/ AppendSeal(v) \/ Commit(v) \/ Rollback(v)
      PROVE FALSE
  <2>1. tx[v] # Idle /\ \A u \in Workers : u # v => tx'[u] = tx[u]
    BY <1>4 DEF TypeOK, AppendAgain, AppendSeal, Commit, Rollback
  <2>. QED BY <1>0, <2>1
<1>5. tx' # tx
  BY <1>0
<1>. QED
  BY <1>2, <1>3, <1>4, <1>5
     DEF Next, vars, PassDay, PassHour, ReadCheckpoint, ReadHead, Answer, FinishRequest,
         AlterRow, RepairRow, LoseRow, LoseTail, DamageRows, AlterCheckpoint

LEMMA AttestValid ==
  ASSUME NEW full
  PROVE  /\ Attest(full).full = full
         /\ Attest(full).valid = SegmentValid(ScanFrom(full), EntryHash(full))
BY DEF Attest

\* An audit after a valid checkpoint finds what the checkpoint attested.
LEMMA NotSticky ==
  ASSUME TypeOK, latest # Absent, latest.valid, ~ StickyFailure
  PROVE  /\ latest \in Checkpoint
         /\ latest.head <= ChainHead /\ latest.last = latest.head
         /\ latest.last # 0 => Present(latest.last)
         /\ BoundaryHash(latest) = latest.lastHash
         /\ HashAt(latest.last) = latest.lastHash
<1>1. latest \in Checkpoint /\ latest.head \in 0..MaxEvents /\ ChainHead \in 0..MaxEvents
  BY HeadType DEF TypeOK, Checkpoint
<1>2. CurrentStatus # "failed"
  BY DEF StickyFailure
<1>3. /\ latest.last = latest.head
      /\ latest.lastHash = latest.headHash
      /\ ~ (ChainHead < latest.head)
      /\ ChainHead = latest.head => HashAt(ChainHead) = latest.headHash
      /\ ChainHead > latest.head => BoundaryHash(latest) = latest.lastHash
  BY <1>2 DEF CurrentStatus, Status
<1>4. latest.lastHash \in Hashes /\ latest.last \in 0..MaxEvents
  BY <1>1 DEF Checkpoint
<1>5. CASE ChainHead = latest.head
  <2>1. latest.last # 0 => Present(latest.last)
    BY <1>3, <1>5, HeadType
  <2>2. BoundaryHash(latest) = HashAt(latest.last)
    BY <1>1, <2>1, <1>4, LedgerAssumption DEF BoundaryHash, HashIfPresent, Seqs
  <2>. QED BY <1>1, <1>3, <1>5, <2>1, <2>2, LedgerAssumption
<1>6. CASE ChainHead > latest.head
  <2>1. BoundaryHash(latest) = latest.lastHash
    BY <1>3, <1>6
  <2>2. CASE latest.last = 0
    <3>1. latest.last \notin Seqs
      BY <2>2, LedgerAssumption DEF Seqs
    <3>2. BoundaryHash(latest) = HashAt(latest.last)
      BY <3>1 DEF BoundaryHash, HashIfPresent
    <3>. QED BY <1>1, <1>3, <1>6, <2>1, <2>2, <3>2, LedgerAssumption
  <2>3. CASE latest.last # 0
    <3>1. latest.last \in Seqs
      BY <1>4, <2>3, LedgerAssumption DEF Seqs
    <3>2. CASE Present(latest.last)
      <4>1. BoundaryHash(latest) = HashAt(latest.last)
        BY <3>2 DEF BoundaryHash, HashIfPresent
      <4>. QED BY <1>1, <1>3, <1>6, <2>1, <3>2, <4>1, LedgerAssumption
    <3>3. CASE ~ Present(latest.last)
      <4>1. BoundaryHash(latest) = Absent
        BY <3>1, <3>3 DEF BoundaryHash, HashIfPresent
      <4>. QED BY <4>1, <2>1, <1>4, LedgerAssumption
    <3>. QED BY <3>2, <3>3
  <2>. QED BY <2>2, <2>3
<1>. QED BY <1>1, <1>3, <1>5, <1>6, LedgerAssumption

\* A valid attestation is never over a ledger that lost or replaced what the
\* valid checkpoint before it attested.
THEOREM LedgerCheckpointsExtend == Spec => CheckpointsExtend
<1>. DEFINE Extends ==
       \A w \in Workers :
         Audits(w) /\ tx'[w].audit.valid /\ latest # Absent /\ latest.valid =>
           ChainHead >= latest.head /\ BoundaryHash(latest) = latest.lastHash
<1>1. TypeOK /\ [Next]_vars => Extends
  <2>. SUFFICES ASSUME TypeOK, [Next]_vars, NEW w \in Workers, Audits(w),
                       latest # Absent, latest.valid
                PROVE ChainHead >= latest.head /\ BoundaryHash(latest) = latest.lastHash
    OBVIOUS
  <2>1. ~ StickyFailure
    BY AuditStep DEF BeginAudit
  <2>2. latest.head \in Nat /\ ChainHead \in Nat
    BY HeadType, LedgerAssumption DEF TypeOK, Checkpoint
  <2>. QED BY <2>1, <2>2, NotSticky
<1>2. TypeOK /\ [Next]_vars => [Extends]_vars
  BY <1>1
<1>. HIDE DEF Extends
<1>3. Spec => [][Extends]_vars
  BY <1>2, LedgerTypeCorrect, PTL DEF Spec
<1>. QED BY <1>3 DEF CheckpointsExtend, Extends

\* A seal's audit is valid only when the whole chain is.
THEOREM LedgerSealsOnWholeChain == Spec => SealsOnWholeChain
<1>. DEFINE Whole ==
       \A w \in Workers :
         Audits(w) /\ tx'[w].seal /\ tx'[w].audit.valid => SegmentValid(1, 0)
<1>1. TypeOK /\ [Next]_vars => Whole
  <2>. SUFFICES ASSUME TypeOK, [Next]_vars, NEW w \in Workers, Audits(w),
                       tx'[w].seal, tx'[w].audit.valid
                PROVE SegmentValid(1, 0)
    OBVIOUS
  <2>1. tx'[w].audit = Attest(AuditsAll(TRUE))
    <3>1. PICK seals \in BOOLEAN : tx'[w].seal = seals /\ tx'[w].audit = Attest(AuditsAll(seals))
      BY AuditStep
    <3>. QED BY <3>1
  <2>2. AuditsAll(TRUE) = TRUE
    BY DEF AuditsAll
  <2>3. Attest(TRUE).valid = SegmentValid(1, 0)
    BY AttestValid DEF ScanFrom, EntryHash
  <2>. QED BY <2>1, <2>2, <2>3
<1>2. TypeOK /\ [Next]_vars => [Whole]_vars
  BY <1>1
<1>. HIDE DEF Whole
<1>3. Spec => [][Whole]_vars
  BY <1>2, LedgerTypeCorrect, PTL DEF Spec
<1>. QED BY <1>3 DEF SealsOnWholeChain, Whole

\* An incremental audit reaches the verdict of a full one while the events
\* already attested are whole.
THEOREM LedgerIncrementalAgreesWithFull == Spec => IncrementalAgreesWithFull
<1>. DEFINE SameVerdict ==
       \A w \in Workers :
         Audits(w) /\ ~ tx'[w].audit.full /\ (\A n \in 1..latest.last : Follows(n, 1, 0)) =>
           tx'[w].audit.valid = SegmentValid(1, 0)
<1>1. TypeOK /\ [Next]_vars => SameVerdict
  <2>. SUFFICES ASSUME TypeOK, [Next]_vars, NEW w \in Workers, Audits(w),
                       ~ tx'[w].audit.full,
                       \A n \in 1..latest.last : Follows(n, 1, 0)
                PROVE tx'[w].audit.valid = SegmentValid(1, 0)
    OBVIOUS
  <2>. DEFINE first == latest.last + 1
              entry == latest.lastHash
  <2>1. /\ ~ StickyFailure /\ latest # Absent /\ latest.valid
        /\ tx'[w].audit.valid = SegmentValid(first, entry)
    <3>1. PICK seals \in BOOLEAN :
            BeginAudit(w, seals) /\ tx'[w].audit = Attest(AuditsAll(seals))
      BY AuditStep
    <3>2. AuditsAll(seals) = FALSE
      BY <3>1, AttestValid DEF AuditsAll
    <3>3. latest # Absent /\ latest.valid
      BY <3>2 DEF AuditsAll, TypeOK, Checkpoint
    <3>4. Attest(FALSE).valid = SegmentValid(first, entry)
      BY AttestValid DEF ScanFrom, EntryHash
    <3>. QED BY <3>1, <3>2, <3>3, <3>4 DEF BeginAudit
  <2>2. /\ latest.last \in Nat /\ ChainHead \in Nat /\ latest.last <= ChainHead
        /\ latest.last # 0 => Present(latest.last)
        /\ HashAt(latest.last) = entry
    BY <2>1, NotSticky, HeadType, LedgerAssumption DEF Checkpoint
  <2>3. ASSUME NEW n \in first..ChainHead
        PROVE Follows(n, first, entry) <=> Follows(n, 1, 0)
    <3>0. n \in Nat /\ n > latest.last
      BY <2>2
    <3>1. CASE n = first /\ latest.last = 0
      BY <3>1, <2>2 DEF Follows, HashAt
    <3>2. CASE n = first /\ latest.last # 0
      <4>1. n # 1 /\ n - 1 = latest.last
        BY <3>2, <2>2
      <4>2. Present(n - 1) /\ ledger[n - 1].hash = entry
        BY <4>1, <3>2, <2>2 DEF HashAt
      <4>. QED BY <3>2, <4>1, <4>2 DEF Follows
    <3>3. CASE n # first
      <4>1. n # 1
        BY <3>0, <3>3, <2>2
      <4>. QED BY <3>3, <4>1 DEF Follows
    <3>. QED BY <3>1, <3>2, <3>3
  <2>4. SegmentValid(1, 0) <=> \A n \in first..ChainHead : Follows(n, 1, 0)
    <3>1. \A n \in 1..ChainHead : n \in 1..latest.last \/ n \in first..ChainHead
      BY <2>2
    <3>2. \A n \in first..ChainHead : n \in 1..ChainHead
      BY <2>2
    <3>. QED BY <3>1, <3>2 DEF SegmentValid
  <2>5. SegmentValid(first, entry) <=> SegmentValid(1, 0)
    <3>. HIDE DEF first, entry
    <3>. QED BY <2>3, <2>4 DEF SegmentValid
  <2>6. SegmentValid(first, entry) \in BOOLEAN /\ SegmentValid(1, 0) \in BOOLEAN
    BY DEF SegmentValid
  <2>. QED BY <2>1, <2>5, <2>6
<1>2. TypeOK /\ [Next]_vars => [SameVerdict]_vars
  BY <1>1
<1>. HIDE DEF SameVerdict
<1>3. Spec => [][SameVerdict]_vars
  BY <1>2, LedgerTypeCorrect, PTL DEF Spec
<1>. QED BY <1>3 DEF IncrementalAgreesWithFull, SameVerdict

-----------------------------------------------------------------------------
(* What the platform observes of its visitors (Observations).              *)

\* A batch under way has a fresh event and is at most one midnight old.
RequestsFresh ==
    \A r \in requests :
        /\ written[r.note] # Nothing
        /\ r.begun <= today /\ today <= r.begun + 1
        /\ r.begun - LateDays <= written[r.note].day

\* What is raw, kept or counted has been written down, and is counted on its day.
EventsWritten ==
    /\ \A n \in raw \cup kept : written[n] # Nothing
    /\ \A d \in Days : \A n \in counted[d] : written[n] # Nothing /\ written[n].day = d
    /\ \A d \in Days \ consolidated : counted[d] = {}

\* Consolidated days are mature, pruned ones past the cutoff, and no raw event is on a day
\* without a checkpoint before one that has one.
HistoryOld ==
    /\ \A d \in consolidated : d <= Through
    /\ \A d \in pruned : d < Cutoff
    /\ \A n \in raw, d \in consolidated : written[n].day <= d => written[n].day \in consolidated

\* A plan skips no day with a raw event.
PlansSound ==
    \A w \in Consolidators : plans[w] # Nothing =>
        /\ plans[w].stale = {}
        /\ plans[w].next <= plans[w].through /\ plans[w].through <= Through
        /\ \A n \in raw : written[n].day < plans[w].next => written[n].day \in consolidated

\* The history agrees with the raw events of its days until they are removed, and with
\* what is kept for ever.
HistoryExact ==
    /\ \A d \in consolidated \ pruned : counted[d] = RawOn(d)
    /\ \A d \in pruned : RawOn(d) = {}
    /\ \A d \in Days : On(d, kept) = IF d \in consolidated THEN counted[d] ELSE RawOn(d)

\* The actor an event stands for, with or without its session.
Who(n) == IF author[n] = NoMember THEN written[n].browser ELSE author[n]

PresenceExact ==
    /\ \A d \in Days :
         {p.who : p \in {q \in presence : q.day = d}} = {Who(n) : n \in counted[d] \ nameless}
    /\ \A n \in nameless : n \notin raw /\ written[n] # Nothing /\ written[n].day \in pruned

VisitorsBound ==
    /\ \A n \in raw :
         /\ sittings[written[n].sitting] # Nothing
         /\ sittings[written[n].sitting].browser = written[n].browser
    /\ \A s \in Sittings : sittings[s] # Nothing => visitors[sittings[s].browser] # Nothing

NoLateMember == \A r \in requests : r.member \in closed => r.member \in overtaken

ObservationInv ==
    /\ ObservationTypeOK
    /\ RequestsFresh /\ EventsWritten /\ HistoryOld /\ PlansSound /\ HistoryExact
    /\ PresenceExact /\ VisitorsBound /\ CohortsStable
    /\ NoLateMember /\ ErasedForGood /\ ListingConsistent

-----------------------------------------------------------------------------
(* Lemmas about the operators of the reports and the consolidators.        *)

\* A nonempty set of numbers up to a bound has a greatest element.
LEMMA GreatestNumber ==
  ASSUME NEW b \in Nat, NEW T \in SUBSET (0..b), T # {}
  PROVE  \E m \in T : \A k \in T : k <= m
<1>. DEFINE U == {i \in Nat : b - i \in T}
<1>1. U \in SUBSET Nat /\ U # {}
  <2>1. PICK k \in T : TRUE
    OBVIOUS
  <2>2. b - k \in Nat /\ b - (b - k) = k
    BY <2>1
  <2>. QED BY <2>1, <2>2
<1>2. PICK m \in U : \A k \in U : m <= k
  <2>. HIDE DEF U
  <2>. QED BY <1>1, LeastNumber
<1>3. b - m \in T /\ \A k \in T : k <= b - m
  <2>1. b - m \in T /\ m \in Nat
    BY <1>2
  <2>2. ASSUME NEW k \in T PROVE k <= b - m
    <3>1. k \in 0..b /\ b - k \in Nat /\ b - (b - k) = k
      OBVIOUS
    <3>2. m <= b - k
      BY <1>2, <3>1
    <3>. QED BY <3>1, <3>2, <2>1
  <2>. QED BY <2>1, <2>2
<1>. QED BY <1>3

LEMMA MinMax ==
  ASSUME NEW b \in Nat, NEW T \in SUBSET (0..b), T # {}
  PROVE  /\ Min(T) \in T /\ \A k \in T : Min(T) <= k
         /\ Max(T) \in T /\ \A k \in T : k <= Max(T)
<1>1. \E m \in T : \A k \in T : m <= k
  BY LeastNumber
<1>2. \E m \in T : \A k \in T : m >= k
  BY GreatestNumber
<1>. QED BY <1>1, <1>2 DEF Min, Max

LEMMA DaysAreNumbers == Days \subseteq Nat /\ LastDay \in Nat /\ Days = 0..(LastDay + 1)
  BY ObservationAssumption DEF Days

LEMMA MinMaxOfDays ==
  ASSUME NEW T \in SUBSET Days, T # {}
  PROVE  /\ Min(T) \in T /\ \A k \in T : Min(T) <= k
         /\ Max(T) \in T /\ \A k \in T : k <= Max(T)
<1>1. LastDay + 1 \in Nat /\ T \in SUBSET (0..(LastDay + 1))
  BY DaysAreNumbers
<1>. QED BY <1>1, MinMax

\* Where a plan starts: no raw event before it is on a day without a checkpoint.
LEMMA FirstDaySkipsNothing ==
  ASSUME ObservationInv, raw # {}
  PROVE  /\ FirstDay \in Nat
         /\ \A n \in raw : written[n].day < FirstDay => written[n].day \in consolidated
<1>. DEFINE D == {written[n].day : n \in raw}
            first == Min(D)
            last == Max(consolidated)
<1>1. D \in SUBSET Days /\ D # {} /\ consolidated \in SUBSET Days
  BY DEF ObservationInv, ObservationTypeOK, EventsWritten
<1>2. first \in Days /\ \A n \in raw : written[n].day \in Days /\ first <= written[n].day
  <2>1. Min(D) \in D /\ \A k \in D : Min(D) <= k
    <3>. HIDE DEF D
    <3>. QED BY <1>1, MinMaxOfDays
  <2>. QED BY <1>1, <2>1
<1>3. first \in Nat /\ \A n \in raw : written[n].day \in Nat
  BY <1>2, DaysAreNumbers
<1>4. CASE consolidated = {}
  <2>1. FirstDay = first
    BY <1>4 DEF FirstDay
  <2>. HIDE DEF first
  <2>. QED BY <2>1, <1>2, <1>3
<1>5. CASE consolidated # {}
  <2>1. last \in consolidated /\ last \in Nat
    BY <1>1, <1>5, MinMaxOfDays, DaysAreNumbers
  <2>2. FirstDay = Max({first, last + 1})
    BY <1>5 DEF FirstDay
  <2>. HIDE DEF first, last
  <2>3. Max({first, last + 1}) \in {first, last + 1}
    <3>1. \E m \in {first, last + 1} : \A k \in {first, last + 1} : m >= k
      BY <1>3, <2>1
    <3>. QED BY <3>1 DEF Max
  <2>4. ASSUME NEW n \in raw, written[n].day < FirstDay PROVE written[n].day \in consolidated
    <3>1. written[n].day <= last
      BY <2>1, <2>2, <2>3, <2>4, <1>2, <1>3
    <3>. QED BY <2>1, <3>1 DEF ObservationInv, HistoryOld
  <2>. QED BY <2>1, <2>2, <2>3, <2>4, <1>3
<1>. QED BY <1>4, <1>5

\* A consolidated day is never stale, so that a round only goes forward.
LEMMA NothingStale ==
  ASSUME ObservationInv
  PROVE  Stale = {}
  BY DEF ObservationInv, HistoryExact, Stale

\* The event of a batch under way is on no consolidated day, and nothing is kept or
\* counted under its name but a raw event.
LEMMA ArrivalsAreLate ==
  ASSUME ObservationInv, NEW r \in requests
  PROVE  /\ r.note \in Notes /\ written[r.note] # Nothing
         /\ written[r.note].day \in Days /\ r.begun \in Days
         /\ Through < written[r.note].day
         /\ written[r.note].day \notin consolidated
         /\ r.note \notin nameless
         /\ \A d \in Days : r.note \notin counted[d]
         /\ r.note \in kept => r.note \in raw
<1>1. /\ r.note \in Notes /\ written[r.note] # Nothing /\ written[r.note].day \in Days
      /\ r.begun \in Days /\ today \in Nat
  BY DaysAreNumbers, ObservationAssumption DEF ObservationInv, RequestsFresh, ObservationTypeOK
<1>2. Through < written[r.note].day
  BY <1>1, DaysAreNumbers, ObservationAssumption DEF ObservationInv, RequestsFresh, Through
<1>3. written[r.note].day \notin consolidated
  BY <1>1, <1>2, DaysAreNumbers, ObservationAssumption DEF ObservationInv, HistoryOld, ObservationTypeOK, Through
<1>4. r.note \notin nameless
  BY <1>3 DEF ObservationInv, PresenceExact, ObservationTypeOK
<1>5. \A d \in Days : r.note \notin counted[d]
  BY <1>3 DEF ObservationInv, EventsWritten
<1>6. r.note \in kept => r.note \in raw
  BY <1>1, <1>3 DEF ObservationInv, HistoryExact, On, RawOn
<1>. QED BY <1>1, <1>2, <1>3, <1>4, <1>5, <1>6

\* A raw event belongs to the actor it stands for, whose cohort is known.
LEMMA RawActor ==
  ASSUME ObservationInv, NEW n \in raw
  PROVE  /\ ActorOf(n) = Who(n)
         /\ Who(n) \in Browsers \cup Members
         /\ CohortOf(Who(n)) \in Days
         /\ Who(n) \in Browsers => visitors[Who(n)] # Nothing /\ CohortOf(Who(n)) = visitors[Who(n)]
<1>1. /\ n \in Notes /\ author[n] \in Members \cup {NoMember} /\ written[n].browser \in Browsers
      /\ written[n].sitting \in Sittings /\ sittings[written[n].sitting].browser = written[n].browser
      /\ visitors[written[n].browser] # Nothing /\ visitors[written[n].browser] \in Days
  BY DEF ObservationInv, ObservationTypeOK, EventsWritten, VisitorsBound
<1>2. 0 \in Days
  BY DaysAreNumbers
<1>. QED BY <1>1, <1>2, ObservationAssumption DEF ActorOf, Who, CohortOf

-----------------------------------------------------------------------------
(* Each action of Observations keeps ObservationInv.                       *)

\* What the reports read stands as long as no event, day or member comes or goes.
LEMMA ReportsStand ==
  ASSUME ObservationInv,
         UNCHANGED <<raw, author, sittings, visitors>>,
         UNCHANGED <<consolidated, pruned, counted, presence, nameless, kept>>,
         today' \in 0..LastDay, today <= today',
         \A n \in Notes : written[n] # Nothing => written'[n] = written[n]
  PROVE  /\ EventsWritten' /\ HistoryOld' /\ HistoryExact' /\ PresenceExact'
         /\ VisitorsBound' /\ CohortsStable'
<1>1. /\ \A n \in raw \cup kept : written[n] # Nothing /\ written'[n] = written[n]
      /\ \A d \in Days : \A n \in counted[d] : written[n] # Nothing /\ written'[n] = written[n]
      /\ \A n \in nameless : written[n] # Nothing /\ written'[n] = written[n]
  BY DEF ObservationInv, ObservationTypeOK, EventsWritten, PresenceExact
<1>2. EventsWritten'
  BY <1>1 DEF ObservationInv, EventsWritten
<1>3. HistoryOld'
  <2>1. /\ \A d \in consolidated : d \in Nat /\ d <= today - Mature
        /\ \A d \in pruned : d \in Nat /\ d < today - Retain
    BY DaysAreNumbers DEF ObservationInv, ObservationTypeOK, HistoryOld, Through, Cutoff
  <2>2. /\ \A d \in consolidated : d <= Through'
        /\ \A d \in pruned : d < Cutoff'
    BY <2>1, ObservationAssumption, DaysAreNumbers DEF ObservationInv, ObservationTypeOK, Through, Cutoff
  <2>. QED BY <1>1, <2>2 DEF ObservationInv, HistoryOld
<1>4. \A d \in Days : RawOn(d)' = RawOn(d) /\ On(d, kept)' = On(d, kept)
  BY <1>1 DEF RawOn, On
<1>5. HistoryExact'
  BY <1>4 DEF ObservationInv, ObservationTypeOK, HistoryExact, RawOn, On
<1>6. PresenceExact'
  <2>1. \A d \in Days : {Who(n)' : n \in counted[d] \ nameless} = {Who(n) : n \in counted[d] \ nameless}
    BY <1>1 DEF Who
  <2>. QED BY <1>1, <2>1 DEF ObservationInv, PresenceExact
<1>7. VisitorsBound' /\ CohortsStable'
  BY <1>1 DEF ObservationInv, VisitorsBound, CohortsStable
<1>. QED BY <1>2, <1>3, <1>5, <1>6, <1>7

LEMMA WriteDownKeeps ==
  ASSUME ObservationInv, NEW n \in Notes, WriteDown(n)
  PROVE  ObservationInv'
<1>. USE DEF ObservationInv
<1>1. PICK b \in Browsers, s \in Sittings, ahead \in 0..1 :
        written' = [written EXCEPT ![n] = [day |-> today + ahead, browser |-> b, sitting |-> s]]
  BY DEF WriteDown
<1>2. \A k \in Notes : written[k] # Nothing => written'[k] = written[k]
  BY <1>1 DEF WriteDown, ObservationTypeOK
<1>3. today + ahead \in Days
  BY DaysAreNumbers DEF ObservationTypeOK
<1>4. ObservationTypeOK'
  BY <1>1, <1>3 DEF ObservationTypeOK, WriteDown, rawVars, historyVars, erasureVars
<1>5. /\ EventsWritten' /\ HistoryOld' /\ HistoryExact' /\ PresenceExact'
      /\ VisitorsBound' /\ CohortsStable'
  BY <1>2, ReportsStand DEF WriteDown, rawVars, historyVars, erasureVars, ObservationTypeOK
<1>6. RequestsFresh'
  BY <1>2 DEF RequestsFresh, WriteDown, ObservationTypeOK
<1>7. PlansSound'
  BY <1>2 DEF PlansSound, WriteDown, ObservationTypeOK, rawVars, historyVars, EventsWritten, Through
<1>8. NoLateMember' /\ ErasedForGood'
  BY DEF NoLateMember, ErasedForGood, Mine, WriteDown, rawVars, historyVars, erasureVars
<1>9. ListingConsistent'
  BY <1>2 DEF ListingConsistent, WriteDown, EventsWritten, ObservationTypeOK
<1>. QED BY <1>4, <1>5, <1>6, <1>7, <1>8, <1>9

LEMMA ArrivesKeeps ==
  ASSUME ObservationInv, NEW n \in Notes, Arrives(n)
  PROVE  ObservationInv'
<1>. USE DEF ObservationInv
<1>1. PICK m \in (Members \ closed) \cup {NoMember} :
        requests' = requests \cup {[note |-> n, member |-> m, begun |-> today]}
  BY DEF Arrives
<1>2. today \in Days /\ today <= today + 1
  BY DaysAreNumbers DEF ObservationTypeOK
<1>3. ObservationTypeOK'
  BY <1>1, <1>2 DEF ObservationTypeOK, Arrives, rawVars, historyVars, erasureVars
<1>4. /\ EventsWritten' /\ HistoryOld' /\ HistoryExact' /\ PresenceExact'
      /\ VisitorsBound' /\ CohortsStable'
  BY ReportsStand, <1>3 DEF Arrives, rawVars, historyVars, erasureVars, ObservationTypeOK
<1>5. RequestsFresh'
  BY <1>1, <1>2 DEF RequestsFresh, Arrives, InWindow, ObservationTypeOK
<1>6. PlansSound'
  BY DEF PlansSound, Arrives, rawVars, historyVars, Through
<1>7. NoLateMember' /\ ErasedForGood'
  BY <1>1, ObservationAssumption DEF NoLateMember, ErasedForGood, Mine, Arrives, rawVars, historyVars, erasureVars, ObservationTypeOK
<1>8. ListingConsistent'
  BY DEF ListingConsistent, Arrives
<1>. QED BY <1>3, <1>4, <1>5, <1>6, <1>7, <1>8

LEMMA RejectedKeeps ==
  ASSUME ObservationInv, NEW r \in requests, Rejected(r)
  PROVE  ObservationInv'
<1>. USE DEF ObservationInv
<1>1. ObservationTypeOK'
  BY DEF ObservationTypeOK, Rejected, rawVars, historyVars, erasureVars
<1>2. /\ EventsWritten' /\ HistoryOld' /\ HistoryExact' /\ PresenceExact'
      /\ VisitorsBound' /\ CohortsStable'
  <2>1. today' \in 0..LastDay /\ today <= today'
    BY DEF Rejected, ObservationTypeOK
  <2>. QED BY <2>1, ReportsStand DEF Rejected, rawVars, historyVars, erasureVars
<1>3. RequestsFresh' /\ NoLateMember'
  BY DEF RequestsFresh, NoLateMember, Rejected, erasureVars
<1>4. PlansSound' /\ ErasedForGood' /\ ListingConsistent'
  BY DEF PlansSound, ErasedForGood, Mine, ListingConsistent, Rejected, rawVars, historyVars, erasureVars, Through
<1>. QED BY <1>1, <1>2, <1>3, <1>4

LEMMA MidnightKeeps ==
  ASSUME ObservationInv, Midnight
  PROVE  ObservationInv'
<1>. USE DEF ObservationInv
<1>1. today \in Nat /\ today' = today + 1 /\ today' \in 0..LastDay
  BY DaysAreNumbers DEF Midnight, ObservationTypeOK
<1>2. ObservationTypeOK'
  BY <1>1 DEF ObservationTypeOK, Midnight, clientVars, rawVars, historyVars, erasureVars
<1>3. /\ EventsWritten' /\ HistoryOld' /\ HistoryExact' /\ PresenceExact'
      /\ VisitorsBound' /\ CohortsStable'
  BY <1>1, ReportsStand DEF Midnight, clientVars, rawVars, historyVars, erasureVars
<1>4. RequestsFresh'
  BY <1>1, DaysAreNumbers DEF RequestsFresh, Midnight, clientVars, ObservationTypeOK
<1>5. PlansSound'
  <2>1. \A w \in Consolidators : plans[w] # Nothing => plans[w].through \in Int
    BY DEF ObservationTypeOK
  <2>2. \A w \in Consolidators : plans[w] # Nothing => plans[w].through <= Through'
    BY <1>1, <2>1, ObservationAssumption DEF PlansSound, Through, Midnight
  <2>. QED BY <2>2 DEF PlansSound, Midnight, clientVars, rawVars, historyVars
<1>6. NoLateMember' /\ ErasedForGood' /\ ListingConsistent'
  BY DEF NoLateMember, ErasedForGood, Mine, ListingConsistent, Midnight, clientVars, rawVars, historyVars, erasureVars
<1>. QED BY <1>2, <1>3, <1>4, <1>5, <1>6

LEMMA BeginRoundKeeps ==
  ASSUME ObservationInv, NEW w \in Consolidators, BeginRound(w)
  PROVE  ObservationInv'
<1>. USE DEF ObservationInv
<1>. DEFINE plan == [stale |-> Stale, next |-> FirstDay, through |-> Through]
<1>1. /\ plan \in [stale : SUBSET Days, next : Nat, through : Int] /\ plan.stale = {}
      /\ plan.next = FirstDay /\ plan.through = Through
  BY NothingStale, FirstDaySkipsNothing, ObservationAssumption DEF BeginRound, Through, ObservationTypeOK
<1>2. plans' = [plans EXCEPT ![w] = AsPlan(plan)]
  BY DEF BeginRound
<1>. HIDE DEF plan
<1>3. AsPlan(plan) # Nothing => AsPlan(plan) = plan /\ plan.next <= plan.through
  BY <1>1 DEF AsPlan
<1>4. AsPlan(plan) \in [stale : SUBSET Days, next : Nat, through : Int] \cup {Nothing}
  BY <1>1, <1>3
<1>5. ObservationTypeOK'
  BY <1>2, <1>4 DEF ObservationTypeOK, BeginRound, clientVars, rawVars, historyVars, erasureVars
<1>6. /\ EventsWritten' /\ HistoryOld' /\ HistoryExact' /\ PresenceExact'
      /\ VisitorsBound' /\ CohortsStable'
  <2>1. today' \in 0..LastDay /\ today <= today'
    BY DEF BeginRound, ObservationTypeOK
  <2>. QED BY <2>1, ReportsStand DEF BeginRound, clientVars, rawVars, historyVars, erasureVars
<1>7. PlansSound'
  <2>1. ASSUME NEW v \in Consolidators, plans'[v] # Nothing
        PROVE  /\ plans'[v].stale = {}
               /\ plans'[v].next <= plans'[v].through /\ plans'[v].through <= Through
               /\ \A n \in raw : written[n].day < plans'[v].next => written[n].day \in consolidated
    <3>1. CASE v = w
      <4>1. plans'[v] = plan /\ plan.next <= plan.through
        BY <1>2, <1>3, <2>1, <3>1 DEF ObservationTypeOK
      <4>2. Through \in Int
        BY ObservationAssumption DEF Through, ObservationTypeOK
      <4>3. raw # {}
        BY DEF BeginRound
      <4>. QED BY <1>1, <4>1, <4>2, <4>3, FirstDaySkipsNothing
    <3>2. CASE v # w
      BY <1>2, <2>1, <3>2 DEF ObservationTypeOK, PlansSound
    <3>. QED BY <3>1, <3>2
  <2>. QED BY <2>1 DEF PlansSound, BeginRound, clientVars, rawVars, historyVars, Through
<1>8. RequestsFresh' /\ NoLateMember' /\ ErasedForGood' /\ ListingConsistent'
  BY DEF RequestsFresh, NoLateMember, ErasedForGood, Mine, ListingConsistent, BeginRound,
         clientVars, rawVars, historyVars, erasureVars
<1>. QED BY <1>5, <1>6, <1>7, <1>8

LEMMA EndRoundKeeps ==
  ASSUME ObservationInv, NEW w \in Consolidators, EndRound(w)
  PROVE  ObservationInv'
<1>. USE DEF ObservationInv
<1>1. ObservationTypeOK'
  BY DEF ObservationTypeOK, EndRound, clientVars, rawVars, historyVars, erasureVars
<1>2. /\ EventsWritten' /\ HistoryOld' /\ HistoryExact' /\ PresenceExact'
      /\ VisitorsBound' /\ CohortsStable'
  <2>1. today' \in 0..LastDay /\ today <= today'
    BY DEF EndRound, ObservationTypeOK
  <2>. QED BY <2>1, ReportsStand DEF EndRound, clientVars, rawVars, historyVars, erasureVars
<1>3. PlansSound'
  BY DEF ObservationTypeOK, PlansSound, EndRound, clientVars, rawVars, historyVars, Through
<1>4. RequestsFresh' /\ NoLateMember' /\ ErasedForGood' /\ ListingConsistent'
  BY DEF RequestsFresh, NoLateMember, ErasedForGood, Mine, ListingConsistent, EndRound,
         clientVars, rawVars, historyVars, erasureVars
<1>. QED BY <1>1, <1>2, <1>3, <1>4

LEMMA ReopenKeeps ==
  ASSUME ObservationInv, NEW m \in Members, Reopen(m)
  PROVE  ObservationInv'
<1>. USE DEF ObservationInv
<1>1. ObservationTypeOK'
  BY DEF ObservationTypeOK, Reopen, clientVars, rawVars, historyVars
<1>2. /\ EventsWritten' /\ HistoryOld' /\ HistoryExact' /\ PresenceExact'
      /\ VisitorsBound' /\ CohortsStable'
  <2>1. today' \in 0..LastDay /\ today <= today'
    BY DEF Reopen, ObservationTypeOK
  <2>. QED BY <2>1, ReportsStand DEF Reopen, clientVars, rawVars, historyVars
<1>3. PlansSound'
  BY DEF PlansSound, Reopen, rawVars, historyVars, clientVars, Through
<1>4. RequestsFresh' /\ NoLateMember' /\ ErasedForGood' /\ ListingConsistent'
  BY DEF RequestsFresh, NoLateMember, ErasedForGood, Mine, ListingConsistent, Reopen,
         clientVars, rawVars, historyVars
<1>. QED BY <1>1, <1>2, <1>3, <1>4

\* A page shows what is kept of its day.
LEMMA ReportedIsKept ==
  ASSUME ObservationInv, NEW d \in Days
  PROVE  ReportedOn(d) = On(d, kept)
<1>1. d \notin consolidated => counted[d] = {}
  BY DEF ObservationInv, EventsWritten
<1>. QED BY <1>1 DEF ObservationInv, HistoryExact, ReportedOn, LiveOn

LEMMA PagesKeep ==
  ASSUME ObservationInv, OpenListing \/ TurnPage \/ CloseListing
  PROVE  ObservationInv'
<1>. USE DEF ObservationInv
<1>1. UNCHANGED <<today, clientVars, rawVars, historyVars, plans, erasureVars, kept>>
  BY DEF OpenListing, TurnPage, CloseListing
<1>. USE DEF clientVars, rawVars, historyVars, erasureVars
<1>2. /\ EventsWritten' /\ HistoryOld' /\ HistoryExact' /\ PresenceExact'
      /\ VisitorsBound' /\ CohortsStable'
  <2>1. today' \in 0..LastDay /\ today <= today'
    BY <1>1 DEF ObservationTypeOK
  <2>. QED BY <1>1, <2>1, ReportsStand
<1>3. RequestsFresh' /\ PlansSound' /\ NoLateMember' /\ ErasedForGood'
  BY <1>1 DEF RequestsFresh, PlansSound, NoLateMember, ErasedForGood, Mine, Through
<1>4. /\ listing' # Nothing => listing' \in [next : 0..LastDay + 2, shown : SUBSET Notes]
      /\ ListingConsistent'
  <2>1. \A n \in kept : written[n] # Nothing /\ written[n].day \in Nat
    BY DaysAreNumbers DEF ObservationTypeOK, EventsWritten
  <2>2. CASE OpenListing
    <3>1. /\ ObservedDays \in SUBSET Days /\ ObservedDays # {}
      <4>1. /\ consolidated \in SUBSET Days
            /\ \A n \in raw : written[n].day \in Days
        BY DEF ObservationTypeOK, EventsWritten
      <4>. QED BY <2>2, <4>1 DEF OpenListing, ObservedDays
    <3>2. listing' = [next |-> Min(ObservedDays), shown |-> {}]
      BY <2>2 DEF OpenListing
    <3>3. Min(ObservedDays) \in Days /\ \A d \in ObservedDays : Min(ObservedDays) <= d
      BY <3>1, MinMaxOfDays
    <3>4. ASSUME NEW n \in kept PROVE written[n].day \in ObservedDays
      <4>1. n \in On(written[n].day, kept) /\ written[n].day \in Days
        BY <2>1 DEF On, ObservationTypeOK
      <4>. QED BY <4>1 DEF HistoryExact, RawOn, On, ObservedDays
    <3>5. ~ \E n \in kept : written[n].day < Min(ObservedDays)
      BY <2>1, <3>3, <3>4, DaysAreNumbers
    <3>. QED BY <1>1, <3>2, <3>3, <3>5, DaysAreNumbers DEF ListingConsistent
  <2>3. CASE TurnPage
    <3>1. /\ listing \in [next : 0..LastDay + 2, shown : SUBSET Notes]
          /\ listing.shown = {n \in kept : written[n].day < listing.next}
          /\ listing.next <= today
          /\ listing' = [listing EXCEPT !.next = @ + 1, !.shown = @ \cup ReportedOn(listing.next)]
      BY <2>3 DEF TurnPage, ObservationTypeOK, ListingConsistent
    <3>2. listing.next \in Days /\ listing.next \in Nat /\ listing.next + 1 \in 0..LastDay + 2
      BY <3>1, DaysAreNumbers DEF ObservationTypeOK
    <3>3. ReportedOn(listing.next) = {n \in kept : written[n].day = listing.next}
      BY <3>2, ReportedIsKept DEF On
    <3>4. listing'.next = listing.next + 1 /\ listing'.shown = listing.shown \cup ReportedOn(listing.next)
      BY <3>1
    <3>5. listing'.shown = {n \in kept : written[n].day < listing.next + 1}
      <4>1. \A n \in kept : written[n].day < listing.next + 1 <=> (written[n].day < listing.next \/ written[n].day = listing.next)
        BY <2>1, <3>2
      <4>. QED BY <3>1, <3>3, <3>4, <4>1
    <3>6. listing' \in [next : 0..LastDay + 2, shown : SUBSET Notes]
      <4>1. ReportedOn(listing.next) \in SUBSET Notes
        BY <3>3 DEF ObservationTypeOK
      <4>. QED BY <3>1, <3>2, <4>1
    <3>. QED BY <1>1, <3>4, <3>5, <3>6 DEF ListingConsistent
  <2>4. CASE CloseListing
    BY <2>4 DEF CloseListing, ListingConsistent
  <2>. QED BY <2>2, <2>3, <2>4
<1>5. ObservationTypeOK'
  BY <1>1, <1>4 DEF ObservationTypeOK
<1>. QED BY <1>2, <1>3, <1>4, <1>5

LEMMA IngestKeeps ==
  ASSUME ObservationInv, NEW r \in requests, Ingest(r)
  PROVE  ObservationInv'
<1>. USE DEF ObservationInv
<1>. DEFINE n == r.note
            b == written[r.note].browser
            s == written[r.note].sitting
<1>1. /\ n \in Notes /\ written[n] # Nothing /\ written[n].day \in Days /\ r.begun \in Days
      /\ b \in Browsers /\ s \in Sittings /\ r.member \in Members \cup {NoMember}
      /\ written[n].day \notin consolidated /\ n \notin nameless
      /\ \A d \in Days : n \notin counted[d]
      /\ n \in kept => n \in raw
  BY ArrivalsAreLate DEF ObservationTypeOK
<1>2. /\ requests' = requests \ {r}
      /\ sittings[s] # Nothing => sittings[s].browser = b
      /\ visitors' = [visitors EXCEPT ![b] = IF @ = Nothing THEN r.begun ELSE @]
      /\ sittings' = [sittings EXCEPT ![s] = [browser |-> b, seen |-> r.begun]]
      /\ raw' = raw \cup {n}
      /\ author' = IF n \in raw THEN author ELSE [author EXCEPT ![n] = r.member]
      /\ kept' = kept \cup {n}
      /\ listing' = IF n \notin raw THEN Nothing ELSE listing
      /\ UNCHANGED <<today, written, consolidated, pruned, counted, presence, plans, closed, nameless, overtaken>>
  BY DEF Ingest, BoundTo, Revised, historyVars, erasureVars
<1>. HIDE DEF n, b, s
<1>3. ObservationTypeOK'
  BY <1>1, <1>2 DEF ObservationTypeOK
<1>4. /\ \A k \in raw : author'[k] = author[k]
      /\ \A k \in Notes \ {n} : author'[k] = author[k]
      /\ \A c \in Browsers : visitors[c] # Nothing => visitors'[c] = visitors[c]
      /\ visitors'[b] # Nothing
      /\ sittings'[s] # Nothing /\ sittings'[s].browser = b
      /\ \A t \in Sittings : sittings[t] # Nothing =>
            sittings'[t] # Nothing /\ sittings'[t].browser = sittings[t].browser
      /\ \A t \in Sittings \ {s} : sittings'[t] = sittings[t]
  <2>1. r.begun # Nothing
    BY <1>1, ObservationAssumption
  <2>2. [browser |-> b, seen |-> r.begun] # Nothing
    BY <1>1, ObservationAssumption
  <2>. QED BY <1>1, <1>2, <2>1, <2>2 DEF ObservationTypeOK
<1>5. RequestsFresh' /\ EventsWritten' /\ PlansSound'
  <2>1. EventsWritten'
    BY <1>1, <1>2 DEF EventsWritten
  <2>2. RequestsFresh'
    BY <1>2 DEF RequestsFresh
  <2>3. PlansSound'
    <3>1. \A w \in Consolidators : plans[w] # Nothing => ~ (written[n].day < plans[w].next)
      <4>1. ASSUME NEW w \in Consolidators, plans[w] # Nothing PROVE ~ (written[n].day < plans[w].next)
        <5>1. plans[w].next \in Nat /\ plans[w].through \in Int /\ Through \in Int /\ written[n].day \in Nat
          BY <4>1, <1>1, ObservationAssumption, DaysAreNumbers DEF ObservationTypeOK, Through
        <5>2. plans[w].next <= plans[w].through /\ plans[w].through <= Through /\ Through < written[n].day
          BY <4>1, ArrivalsAreLate DEF PlansSound, n
        <5>. QED BY <5>1, <5>2
      <4>. QED BY <4>1
    <3>. QED BY <1>2, <3>1 DEF PlansSound, Through
  <2>. QED BY <2>1, <2>2, <2>3
<1>6. HistoryOld'
  <2>1. \A d \in consolidated : ~ (written[n].day <= d)
    <3>1. ASSUME NEW d \in consolidated PROVE ~ (written[n].day <= d)
      <4>1. d \in Nat /\ Through \in Int /\ written[n].day \in Nat
        BY <1>1, ObservationAssumption, DaysAreNumbers DEF ObservationTypeOK, Through
      <4>2. d <= Through /\ Through < written[n].day
        BY ArrivalsAreLate DEF HistoryOld, n
      <4>. QED BY <4>1, <4>2
    <3>. QED BY <3>1
  <2>. QED BY <1>2, <2>1 DEF HistoryOld, Through, Cutoff
<1>7. \A d \in Days : /\ d # written[n].day => RawOn(d)' = RawOn(d) /\ On(d, kept)' = On(d, kept)
                     /\ RawOn(written[n].day)' = RawOn(written[n].day) \cup {n}
                     /\ On(written[n].day, kept)' = On(written[n].day, kept) \cup {n}
  BY <1>2 DEF RawOn, On
<1>8. HistoryExact'
  <2>1. /\ \A d \in consolidated : d # written[n].day /\ d \in Days
        /\ \A d \in pruned : d # written[n].day /\ d \in Days
    BY <1>1 DEF ObservationTypeOK
  <2>2. /\ \A d \in (consolidated \ pruned)' : (counted[d] = RawOn(d))'
        /\ \A d \in pruned' : (RawOn(d) = {})'
    BY <1>2, <1>7, <2>1 DEF HistoryExact
  <2>3. ASSUME NEW d \in Days
        PROVE  On(d, kept)' = IF d \in consolidated' THEN counted'[d] ELSE RawOn(d)'
    BY <1>1, <1>2, <1>7 DEF HistoryExact
  <2>4. \A d \in Days : On(d, kept)' = (IF d \in consolidated THEN counted[d] ELSE RawOn(d))'
    BY <2>3
  <2>. QED BY <2>2, <2>3 DEF HistoryExact
<1>9. PresenceExact'
  <2>1. \A d \in Days : {Who(k)' : k \in counted[d] \ nameless} = {Who(k) : k \in counted[d] \ nameless}
    BY <1>1, <1>2, <1>4 DEF Who, ObservationTypeOK
  <2>. QED BY <1>1, <1>2, <2>1 DEF PresenceExact
<1>10. VisitorsBound'
  <2>1. \A k \in raw' : /\ sittings'[written[k].sitting] # Nothing
                        /\ sittings'[written[k].sitting].browser = written[k].browser
    <3>1. \A k \in raw : written[k].sitting \in Sittings
      BY DEF ObservationTypeOK, EventsWritten
    <3>. QED BY <1>2, <1>4, <3>1 DEF VisitorsBound, b, s, n
  <2>2. \A t \in Sittings : sittings'[t] # Nothing => visitors'[sittings'[t].browser] # Nothing
    <3>1. \A t \in Sittings : sittings[t] # Nothing => sittings[t].browser \in Browsers
      BY DEF ObservationTypeOK
    <3>. QED BY <1>1, <1>4, <3>1 DEF VisitorsBound
  <2>. QED BY <1>2, <2>1, <2>2 DEF VisitorsBound
<1>11. CohortsStable'
  BY <1>2, <1>4 DEF CohortsStable
<1>12. NoLateMember' /\ ErasedForGood'
  <2>1. NoLateMember'
    BY <1>2 DEF NoLateMember
  <2>2. ASSUME NEW m \in closed \ overtaken PROVE Mine(m)' = {}
    <3>1. r.member # m
      BY DEF NoLateMember
    <3>2. Mine(m) = {}
      BY DEF ErasedForGood
    <3>3. \A k \in raw \cup {n} : author'[k] # m
      BY <1>1, <1>2, <1>4, <3>1, <3>2 DEF Mine, ObservationTypeOK
    <3>. QED BY <1>2, <3>3 DEF Mine
  <2>. QED BY <1>2, <2>1, <2>2 DEF ErasedForGood
<1>13. ListingConsistent'
  <2>1. n \in raw => n \in kept
    <3>1. ASSUME n \in raw PROVE n \in On(written[n].day, kept)
      BY <1>1, <3>1 DEF HistoryExact, RawOn, On
    <3>. QED BY <3>1 DEF On
  <2>. QED BY <1>2, <2>1 DEF ListingConsistent
<1>. QED BY <1>3, <1>5, <1>6, <1>8, <1>9, <1>10, <1>11, <1>12, <1>13

\* A day's presence, once it is rebuilt, is that of its events, and each visitor's cohort
\* is the day it was first seen.
LEMMA PresenceRebuilt ==
  ASSUME ObservationInv, NEW days \in SUBSET Days, NEW events \in SUBSET raw
  PROVE  /\ PresenceFrom(days, events) \subseteq [day : Days, who : Browsers \cup Members, cohort : Days]
         /\ \A d \in days :
              {p.who : p \in {q \in PresenceFrom(days, events) : q.day = d}} = {Who(n) : n \in On(d, events)}
         /\ \A d \in Days \ days :
              {q \in PresenceFrom(days, events) : q.day = d} = {q \in presence : q.day = d}
         /\ \A p \in PresenceFrom(days, events) : p.who \in Browsers =>
              visitors[p.who] # Nothing /\ p.cohort = visitors[p.who]
         /\ \A p \in PresenceFrom(days, events) : p \in presence \/ \E n \in events : p.who = Who(n)
<1>. DEFINE row(n) == [day |-> written[n].day, who |-> Who(n), cohort |-> CohortOf(Who(n))]
            fresh == {row(n) : n \in {k \in events : written[k].day \in days}}
            old == {p \in presence : p.day \notin days}
<1>1. PresenceFrom(days, events) = old \cup fresh
  <2>1. \A n \in events : ActorOf(n) = Who(n)
    BY RawActor
  <2>. QED BY <2>1 DEF PresenceFrom
<1>2. /\ old \subseteq presence
      /\ \A p \in old : p.day \notin days
      /\ \A p \in presence : p.day \notin days => p \in old
  OBVIOUS
<1>3. \A p \in fresh : \E n \in events : /\ written[n].day \in days /\ p.day = written[n].day /\ p.who = Who(n)
                                          /\ p = row(n)
  OBVIOUS
<1>4. \A n \in events : written[n].day \in days =>
        row(n) \in fresh /\ row(n).day = written[n].day /\ row(n).who = Who(n) /\ row(n).cohort = CohortOf(Who(n))
  OBVIOUS
<1>. HIDE DEF fresh, old
<1>5. fresh \subseteq [day : Days, who : Browsers \cup Members, cohort : Days]
  <2>1. ASSUME NEW n \in events, written[n].day \in days
        PROVE  row(n) \in [day : Days, who : Browsers \cup Members, cohort : Days]
    BY <2>1, RawActor
  <2>. QED BY <2>1, <1>3
<1>6. \A p \in fresh : p.who \in Browsers => visitors[p.who] # Nothing /\ p.cohort = visitors[p.who]
  <2>1. ASSUME NEW n \in events, Who(n) \in Browsers
        PROVE  visitors[row(n).who] # Nothing /\ row(n).cohort = visitors[row(n).who]
    BY <2>1, RawActor
  <2>. HIDE DEF row
  <2>. QED BY <1>3, <2>1
<1>. HIDE DEF row
<1>7. ASSUME NEW d \in days
      PROVE  {p.who : p \in {q \in PresenceFrom(days, events) : q.day = d}} = {Who(n) : n \in On(d, events)}
  BY <1>1, <1>2, <1>3, <1>4 DEF On
<1>8. ASSUME NEW d \in Days \ days
      PROVE  {q \in PresenceFrom(days, events) : q.day = d} = {q \in presence : q.day = d}
  BY <1>1, <1>2, <1>3
<1>9. \A p \in old : p \in presence
  BY <1>2
<1>10. old \subseteq [day : Days, who : Browsers \cup Members, cohort : Days]
  BY <1>2 DEF ObservationInv, ObservationTypeOK
<1>11. \A p \in old : p.who \in Browsers => visitors[p.who] # Nothing /\ p.cohort = visitors[p.who]
  BY <1>2 DEF ObservationInv, CohortsStable
<1>. QED BY <1>1, <1>3, <1>5, <1>6, <1>7, <1>8, <1>9, <1>10, <1>11

\* No event of a visitor belongs to a member.
LEMMA WhoIsMember ==
  ASSUME ObservationInv, NEW n \in Notes, written[n] # Nothing, NEW m \in Members
  PROVE  Who(n) = m <=> author[n] = m
  BY ObservationAssumption DEF ObservationInv, ObservationTypeOK, Who

LEMMA ConsolidateDayKeeps ==
  ASSUME ObservationInv, NEW w \in Consolidators, ConsolidateDay(w)
  PROVE  ObservationInv'
<1>. USE DEF ObservationInv
<1>. DEFINE plan == plans[w]
            day == plan.next
            rest == [plan EXCEPT !.next = @ + 1]
<1>1. /\ plan # Nothing /\ plan \in [stale : SUBSET Days, next : Nat, through : Int]
      /\ plan.stale = {} /\ plan.through <= Through
      /\ \A n \in raw : written[n].day < day => written[n].day \in consolidated
      /\ NextDay(plan) = day /\ Without(plan) = rest
  BY DEF ConsolidateDay, ObservationTypeOK, PlansSound, NextDay, Without
<1>2. /\ day <= Through /\ day \notin pruned
      /\ consolidated' = consolidated \cup {day}
      /\ counted' = CountsFrom({day}, raw)
      /\ presence' = PresenceFrom({day}, raw)
      /\ plans' = [plans EXCEPT ![w] = AsPlan(rest)]
      /\ listing' = Nothing
      /\ UNCHANGED <<today, written, requests, raw, author, sittings, visitors, pruned,
                     closed, nameless, overtaken, kept>>
  BY <1>1 DEF ConsolidateDay, Revised, clientVars, rawVars, erasureVars
<1>3. /\ day \in Days /\ day \in Nat /\ Through \in Int
      /\ rest \in [stale : SUBSET Days, next : Nat, through : Int]
      /\ rest.stale = {} /\ rest.next = day + 1 /\ rest.through = plan.through
  <2>1. day \in Nat /\ Through \in Int /\ day <= Through
    BY <1>1, <1>2, ObservationAssumption DEF Through, ObservationTypeOK
  <2>2. day \in Days
    BY <2>1, ObservationAssumption, DaysAreNumbers DEF Through, ObservationTypeOK
  <2>. QED BY <1>1, <2>1, <2>2
<1>. HIDE DEF plan, day, rest
<1>4. /\ AsPlan(rest) # Nothing => AsPlan(rest) = rest /\ rest.next <= rest.through
      /\ AsPlan(rest) \in [stale : SUBSET Days, next : Nat, through : Int] \cup {Nothing}
  BY <1>3 DEF AsPlan
<1>5. /\ counted' \in [Days -> SUBSET Notes]
      /\ counted'[day] = RawOn(day)
      /\ \A d \in Days \ {day} : counted'[d] = counted[d]
  BY <1>2, <1>3 DEF CountsFrom, ObservationTypeOK, RawOn, On
<1>6. /\ presence' \subseteq [day : Days, who : Browsers \cup Members, cohort : Days]
      /\ {p.who : p \in {q \in presence' : q.day = day}} = {Who(n) : n \in RawOn(day)}
      /\ \A d \in Days \ {day} : {q \in presence' : q.day = d} = {q \in presence : q.day = d}
      /\ \A p \in presence' : p.who \in Browsers =>
            visitors[p.who] # Nothing /\ p.cohort = visitors[p.who]
      /\ \A p \in presence' : p \in presence \/ \E n \in raw : p.who = Who(n)
  <2>1. {day} \in SUBSET Days /\ raw \in SUBSET raw
    BY <1>3
  <2>2. On(day, raw) = RawOn(day)
    BY DEF RawOn
  <2>. DEFINE now == PresenceFrom({day}, raw)
  <2>3. /\ now \subseteq [day : Days, who : Browsers \cup Members, cohort : Days]
        /\ {p.who : p \in {q \in now : q.day = day}} = {Who(n) : n \in On(day, raw)}
        /\ \A d \in Days \ {day} : {q \in now : q.day = d} = {q \in presence : q.day = d}
        /\ \A p \in now : p.who \in Browsers => visitors[p.who] # Nothing /\ p.cohort = visitors[p.who]
        /\ \A p \in now : p \in presence \/ \E n \in raw : p.who = Who(n)
    BY <2>1, PresenceRebuilt
  <2>. QED BY <1>2, <2>2, <2>3
<1>7. ObservationTypeOK'
  BY <1>2, <1>3, <1>4, <1>5, <1>6 DEF ObservationTypeOK
<1>8. \A n \in raw : written[n] # Nothing /\ written[n].day \in Days /\ written[n].day \in Nat
  BY DaysAreNumbers DEF ObservationTypeOK, EventsWritten
<1>9. RequestsFresh' /\ NoLateMember' /\ VisitorsBound' /\ ListingConsistent'
  BY <1>2 DEF RequestsFresh, NoLateMember, VisitorsBound, ListingConsistent
<1>10. EventsWritten'
  <2>1. \A n \in RawOn(day) : written[n] # Nothing /\ written[n].day = day
    BY DEF RawOn, On, EventsWritten
  <2>2. \A d \in Days : \A n \in counted'[d] : written[n] # Nothing /\ written[n].day = d
    BY <1>5, <2>1 DEF EventsWritten
  <2>3. \A d \in Days \ consolidated' : counted'[d] = {}
    BY <1>2, <1>5 DEF EventsWritten
  <2>. QED BY <1>2, <2>2, <2>3 DEF EventsWritten
<1>11. HistoryOld'
  <2>1. \A n \in raw : written[n].day <= day => written[n].day \in consolidated \cup {day}
    BY <1>1, <1>3, <1>8 DEF day
  <2>. QED BY <1>2, <2>1 DEF HistoryOld, Through, Cutoff
<1>12. PlansSound'
  <2>1. ASSUME NEW v \in Consolidators, plans'[v] # Nothing
        PROVE  /\ plans'[v].stale = {}
               /\ plans'[v].next <= plans'[v].through /\ plans'[v].through <= Through
               /\ \A n \in raw : written[n].day < plans'[v].next => written[n].day \in consolidated'
    <3>1. CASE v = w
      <4>1. plans'[v] = rest /\ rest.next <= rest.through
        BY <1>2, <1>4, <2>1, <3>1 DEF ObservationTypeOK
      <4>2. \A n \in raw : written[n].day < day + 1 => written[n].day \in consolidated'
        BY <1>1, <1>2, <1>3, <1>8 DEF day
      <4>. QED BY <1>1, <1>3, <4>1, <4>2
    <3>2. CASE v # w
      <4>1. plans'[v] = plans[v]
        BY <1>2, <3>2 DEF ObservationTypeOK
      <4>. QED BY <1>2, <2>1, <4>1 DEF PlansSound
    <3>. QED BY <3>1, <3>2
  <2>. QED BY <1>2, <2>1 DEF PlansSound, Through
<1>13. HistoryExact'
  <2>1. \A d \in Days : RawOn(d)' = RawOn(d) /\ On(d, kept)' = On(d, kept)
    BY <1>2 DEF RawOn, On
  <2>2. On(day, kept) = RawOn(day)
    BY <1>2, <1>3 DEF HistoryExact
  <2>3. \A d \in consolidated' : d \in Days
    BY <1>7 DEF ObservationTypeOK
  <2>4. \A d \in (consolidated \ pruned)' : (counted[d] = RawOn(d))'
    BY <1>2, <1>5, <2>1, <2>3 DEF HistoryExact
  <2>5. \A d \in pruned' : (RawOn(d) = {})'
    BY <1>2, <2>1, <2>3 DEF HistoryExact, ObservationTypeOK
  <2>6. \A d \in Days : (On(d, kept) = IF d \in consolidated THEN counted[d] ELSE RawOn(d))'
    BY <1>2, <1>5, <2>1, <2>2 DEF HistoryExact
  <2>. QED BY <2>4, <2>5, <2>6 DEF HistoryExact
<1>14. PresenceExact'
  <2>1. RawOn(day) \ nameless = RawOn(day)
    BY DEF PresenceExact, RawOn, On
  <2>2. \A d \in Days : {Who(n)' : n \in (counted[d] \ nameless)'} = {Who(n) : n \in counted'[d] \ nameless}
    BY <1>2 DEF Who
  <2>3. ASSUME NEW d \in Days
        PROVE  {p.who : p \in {q \in presence' : q.day = d}} = {Who(n) : n \in counted'[d] \ nameless}
    <3>1. CASE d = day
      BY <1>5, <1>6, <2>1, <3>1
    <3>2. CASE d # day
      BY <1>5, <1>6, <3>2 DEF PresenceExact
    <3>. QED BY <3>1, <3>2
  <2>. QED BY <1>2, <2>2, <2>3 DEF PresenceExact
<1>15. CohortsStable'
  BY <1>2, <1>6 DEF CohortsStable
<1>16. ErasedForGood'
  <2>1. ASSUME NEW m \in closed \ overtaken, NEW n \in raw PROVE Who(n) # m
    <3>1. m \in Members /\ n \in Notes /\ author[n] # m
      BY DEF ErasedForGood, Mine, ObservationTypeOK
    <3>. QED BY <1>8, <3>1, WhoIsMember
  <2>2. ASSUME NEW m \in closed \ overtaken, NEW p \in presence' PROVE p.who # m
    BY <1>6, <2>1 DEF ErasedForGood
  <2>3. \A m \in closed \ overtaken : Mine(m)' = {}
    BY <1>2 DEF ErasedForGood, Mine
  <2>. QED BY <1>2, <2>2, <2>3 DEF ErasedForGood
<1>. QED BY <1>7, <1>9, <1>10, <1>11, <1>12, <1>13, <1>14, <1>15, <1>16

LEMMA PruneKeeps ==
  ASSUME ObservationInv, Prune
  PROVE  ObservationInv'
<1>. USE DEF ObservationInv
<1>. DEFINE gone == {n \in raw : written[n].day < Cutoff /\ written[n].day \in pruned \cup Prunable}
            quiet == {s \in Sittings :
                        /\ sittings[s] # Nothing /\ sittings[s].seen < Cutoff
                        /\ \A n \in raw \ gone : written[n].sitting # s}
            left == [s \in Sittings |-> IF s \in quiet THEN Nothing ELSE sittings[s]]
<1>1. /\ pruned' = pruned \cup Prunable
      /\ raw' = raw \ gone
      /\ sittings' = left
      /\ visitors' = [b \in Browsers |->
           IF /\ \A s \in Sittings : left[s] # Nothing => left[s].browser # b
              /\ \A p \in presence : p.who # b
           THEN Nothing ELSE visitors[b]]
      /\ UNCHANGED <<today, written, requests, author, consolidated, counted, presence, plans,
                     closed, nameless, overtaken, kept, listing>>
  BY DEF Prune, clientVars, erasureVars
<1>2. /\ Prunable \subseteq consolidated \ pruned
      /\ \A d \in Prunable : d < Cutoff /\ counted[d] = RawOn(d)
      /\ \A d \in pruned : d < Cutoff
      /\ \A n \in raw \ gone : ~ (written[n].day < Cutoff) \/ written[n].day \notin pruned \cup Prunable
      /\ \A n \in gone : n \in raw /\ written[n].day \in pruned \cup Prunable
  BY DEF Prunable, HistoryOld
<1>3. /\ \A s \in Sittings : left[s] = sittings[s] \/ left[s] = Nothing
      /\ \A n \in raw \ gone : written[n].sitting \in Sittings => left[written[n].sitting] = sittings[written[n].sitting]
  OBVIOUS
<1>4. left \in [Sittings -> [browser : Browsers, seen : Days] \cup {Nothing}]
  BY DEF ObservationTypeOK
<1>. HIDE DEF gone, quiet, left
<1>5. ObservationTypeOK'
  BY <1>1, <1>2, <1>4 DEF ObservationTypeOK
<1>6. RequestsFresh' /\ NoLateMember' /\ ListingConsistent' /\ EventsWritten' /\ PlansSound'
  BY <1>1 DEF RequestsFresh, NoLateMember, ListingConsistent, EventsWritten, PlansSound, Through
<1>7. HistoryOld'
  BY <1>1, <1>2 DEF HistoryOld, Through, Cutoff
<1>8. HistoryExact'
  <2>1. \A d \in Days : d \notin pruned \cup Prunable => RawOn(d)' = RawOn(d)
    BY <1>1, <1>2 DEF RawOn, On
  <2>2. \A d \in pruned' : RawOn(d)' = {}
    BY <1>1, <1>2 DEF RawOn, On
  <2>3. \A d \in Days : On(d, kept)' = On(d, kept)
    BY <1>1 DEF On
  <2>4. \A d \in consolidated : d \in Days
    BY DEF ObservationTypeOK
  <2>5. \A d \in (consolidated \ pruned)' : (counted[d] = RawOn(d))'
    BY <1>1, <2>1, <2>4 DEF HistoryExact
  <2>6. \A d \in Days : (On(d, kept) = IF d \in consolidated THEN counted[d] ELSE RawOn(d))'
    <3>1. ASSUME NEW d \in Days, d \notin consolidated PROVE RawOn(d)' = RawOn(d)
      BY <1>2, <2>1, <3>1 DEF ObservationTypeOK
    <3>. QED BY <1>1, <2>3, <3>1 DEF HistoryExact
  <2>. QED BY <2>2, <2>5, <2>6 DEF HistoryExact
<1>9. PresenceExact'
  <2>1. \A d \in Days : {Who(n)' : n \in (counted[d] \ nameless)'} = {Who(n) : n \in counted[d] \ nameless}
    BY <1>1 DEF Who
  <2>. QED BY <1>1, <2>1 DEF PresenceExact
<1>10. VisitorsBound'
  <2>1. ASSUME NEW n \in raw'
        PROVE  /\ left[written[n].sitting] # Nothing
               /\ left[written[n].sitting].browser = written[n].browser
    <3>1. n \in raw \ gone /\ written[n].sitting \in Sittings
      BY <1>1 DEF ObservationTypeOK, EventsWritten
    <3>. QED BY <1>3, <3>1 DEF VisitorsBound
  <2>2. ASSUME NEW s \in Sittings, left[s] # Nothing PROVE visitors'[left[s].browser] # Nothing
    <3>1. left[s] = sittings[s] /\ left[s].browser \in Browsers
      BY <1>3, <1>4, <2>2
    <3>2. visitors'[left[s].browser] = visitors[left[s].browser]
      BY <1>1, <2>2, <3>1
    <3>. QED BY <2>2, <3>1, <3>2 DEF VisitorsBound
  <2>. QED BY <1>1, <2>1, <2>2 DEF VisitorsBound
<1>11. CohortsStable'
  BY <1>1 DEF CohortsStable
<1>12. ErasedForGood'
  BY <1>1 DEF ErasedForGood, Mine
<1>. QED BY <1>5, <1>6, <1>7, <1>8, <1>9, <1>10, <1>11, <1>12

LEMMA CloseAccountKeeps ==
  ASSUME ObservationInv, NEW m \in Members, CloseAccount(m)
  PROVE  ObservationInv'
<1>. USE DEF ObservationInv
<1>. DEFINE days == Affected(m)
            rest == raw \ Mine(m)
            lost == {n \in UNION {counted[d] : d \in pruned} : author[n] = m}
<1>1. /\ m \notin closed /\ closed' = closed \cup {m}
      /\ raw' = rest
      /\ kept' = kept \ Mine(m)
      /\ counted' = CountsFrom(days, rest)
      /\ presence' = {p \in PresenceFrom(days, rest) : p.who # m}
      /\ nameless' = nameless \cup lost
      /\ overtaken' = IF \E r \in requests : r.member = m THEN overtaken \cup {m} ELSE overtaken
      /\ listing' = IF Mine(m) # {} THEN Nothing ELSE listing
      /\ UNCHANGED <<today, written, requests, author, sittings, visitors, consolidated, pruned, plans>>
  BY DEF CloseAccount, Revised, clientVars
<1>2. /\ days \in SUBSET Days /\ days \subseteq consolidated \ pruned
      /\ \A n \in Mine(m) : n \in raw /\ n \in Notes /\ author[n] = m /\ written[n] # Nothing /\ written[n].day \in Days
      /\ \A n \in Mine(m) : written[n].day \in consolidated \ pruned => written[n].day \in days
      /\ \A n \in raw : n \notin rest => n \in Mine(m)
      /\ rest \in SUBSET raw
      /\ \A n \in rest : author[n] # m
  BY DEF Affected, Mine, ObservationTypeOK, EventsWritten
<1>3. /\ lost \subseteq Notes
      /\ \A n \in lost : author[n] = m /\ written[n] # Nothing /\ written[n].day \in pruned /\ n \in counted[written[n].day]
      /\ \A d \in pruned : \A n \in counted[d] : author[n] = m => n \in lost
  BY DEF ObservationTypeOK, EventsWritten
<1>. HIDE DEF days, rest, lost
<1>4. /\ counted' \in [Days -> SUBSET Notes]
      /\ \A d \in days : counted'[d] = On(d, rest)
      /\ \A d \in Days \ days : counted'[d] = counted[d]
  BY <1>1, <1>2 DEF CountsFrom, ObservationTypeOK, On
<1>. DEFINE now == PresenceFrom(days, rest)
<1>5. /\ now \subseteq [day : Days, who : Browsers \cup Members, cohort : Days]
      /\ \A d \in days : {p.who : p \in {q \in now : q.day = d}} = {Who(n) : n \in On(d, rest)}
      /\ \A d \in Days \ days : {q \in now : q.day = d} = {q \in presence : q.day = d}
      /\ \A p \in now : p.who \in Browsers => visitors[p.who] # Nothing /\ p.cohort = visitors[p.who]
      /\ \A p \in now : p \in presence \/ \E n \in rest : p.who = Who(n)
  BY <1>2, PresenceRebuilt
<1>6. /\ presence' = {p \in now : p.who # m}
      /\ presence' \subseteq now
  BY <1>1
<1>. HIDE DEF now
<1>7. ObservationTypeOK'
  <2>1. /\ raw' \subseteq Notes /\ kept' \subseteq Notes /\ nameless' \subseteq Notes
        /\ closed' \subseteq Members /\ overtaken' \subseteq closed'
    BY <1>1, <1>2, <1>3 DEF ObservationTypeOK
  <2>2. presence' \subseteq [day : Days, who : Browsers \cup Members, cohort : Days]
    BY <1>5, <1>6
  <2>3. listing' # Nothing => listing' = listing
    BY <1>1
  <2>. QED BY <1>1, <1>4, <2>1, <2>2, <2>3 DEF ObservationTypeOK
<1>8. RequestsFresh' /\ PlansSound' /\ HistoryOld' /\ VisitorsBound'
  BY <1>1, <1>2 DEF RequestsFresh, PlansSound, HistoryOld, VisitorsBound, Through, Cutoff
<1>9. EventsWritten'
  <2>1. \A n \in raw' \cup kept' : written[n] # Nothing
    BY <1>1, <1>2 DEF EventsWritten
  <2>2. ASSUME NEW d \in Days PROVE \A n \in counted'[d] : written[n] # Nothing /\ written[n].day = d
    BY <1>2, <1>4 DEF EventsWritten, On
  <2>3. \A d \in Days \ consolidated : counted'[d] = {}
    BY <1>2, <1>4 DEF EventsWritten
  <2>. QED BY <1>1, <2>1, <2>2, <2>3 DEF EventsWritten
<1>10. \A d \in Days : RawOn(d)' = RawOn(d) \ Mine(m) /\ On(d, kept)' = On(d, kept) \ Mine(m) /\ RawOn(d)' = On(d, rest)
  <2>1. \A n \in raw : n \in rest <=> n \notin Mine(m)
    BY DEF rest
  <2>. QED BY <1>1, <1>2, <2>1 DEF RawOn, On
<1>11. HistoryExact'
  <2>1. \A d \in consolidated : d \in Days
    BY DEF ObservationTypeOK
  <2>2. ASSUME NEW d \in consolidated \ pruned PROVE counted'[d] = RawOn(d)'
    <3>1. CASE d \in days
      BY <1>4, <1>10, <2>1, <3>1
    <3>2. CASE d \notin days
      <4>1. \A n \in RawOn(d) : n \notin Mine(m)
        BY <1>2, <3>2 DEF RawOn, On
      <4>2. RawOn(d) \ Mine(m) = RawOn(d)
        BY <4>1
      <4>. QED BY <1>4, <1>10, <2>1, <3>2, <4>2 DEF HistoryExact
    <3>. QED BY <3>1, <3>2
  <2>3. \A d \in pruned : d \in Days /\ d \in consolidated /\ RawOn(d) = {}
    BY DEF ObservationTypeOK, HistoryExact
  <2>4. \A d \in pruned : RawOn(d)' = {}
    BY <1>10, <2>3
  <2>5. ASSUME NEW d \in Days
        PROVE  On(d, kept)' = IF d \in consolidated THEN counted'[d] ELSE RawOn(d)'
    <3>1. CASE d \in pruned
      <4>1. \A n \in On(d, kept) : n \notin Mine(m)
        <5>1. \A n \in Mine(m) : n \in RawOn(written[n].day)
          BY <1>2 DEF RawOn, On
        <5>. QED BY <2>3, <3>1, <5>1 DEF On
      <4>2. On(d, kept) \ Mine(m) = On(d, kept)
        BY <4>1
      <4>. QED BY <1>2, <1>4, <1>10, <2>3, <3>1, <4>2 DEF HistoryExact
    <3>2. CASE d \in consolidated \ pruned
      BY <1>10, <2>2, <3>2 DEF HistoryExact
    <3>3. CASE d \notin consolidated
      BY <1>10, <3>3 DEF HistoryExact
    <3>. QED BY <3>1, <3>2, <3>3
  <2>6. /\ \A d \in (consolidated \ pruned)' : (counted[d] = RawOn(d))'
        /\ \A d \in pruned' : (RawOn(d) = {})'
        /\ \A d \in Days : (On(d, kept) = IF d \in consolidated THEN counted[d] ELSE RawOn(d))'
    BY <1>1, <2>2, <2>4, <2>5
  <2>. QED BY <2>6 DEF HistoryExact
<1>12. \A n \in Notes : written[n] # Nothing => (Who(n) = m <=> author[n] = m)
  BY WhoIsMember
<1>13. PresenceExact'
  <2>1. \A d \in Days : {Who(n)' : n \in (counted[d] \ nameless)'} = {Who(n) : n \in counted'[d] \ nameless'}
    BY <1>1 DEF Who
  <2>2. \A n \in nameless' : n \notin raw /\ written[n] # Nothing /\ written[n].day \in pruned
    <3>1. \A n \in lost : n \notin raw
      <4>1. \A n \in lost : RawOn(written[n].day) = {}
        BY <1>3 DEF HistoryExact
      <4>. QED BY <4>1 DEF RawOn, On
    <3>. QED BY <1>1, <1>3, <3>1 DEF PresenceExact
  <2>3. ASSUME NEW d \in Days
        PROVE  {p.who : p \in {q \in presence' : q.day = d}} = {Who(n) : n \in counted'[d] \ nameless'}
    <3>1. {p.who : p \in {q \in presence' : q.day = d}} = {p.who : p \in {q \in now : q.day = d}} \ {m}
      BY <1>6
    <3>2. CASE d \in days
      <4>1. \A n \in On(d, rest) : n \in rest /\ n \in raw /\ n \in Notes /\ written[n] # Nothing
        BY <1>2 DEF On, ObservationTypeOK, EventsWritten
      <4>2. \A n \in On(d, rest) : Who(n) # m /\ n \notin nameless'
        BY <1>2, <1>12, <2>2, <4>1
      <4>. QED BY <1>4, <1>5, <3>1, <3>2, <4>2
    <3>3. CASE d \notin days
      <4>1. {p.who : p \in {q \in now : q.day = d}} = {Who(n) : n \in counted[d] \ nameless}
        BY <1>5, <3>3 DEF PresenceExact
      <4>2. counted'[d] = counted[d]
        BY <1>4, <3>3
      <4>3. \A n \in counted[d] \ nameless : Who(n) = m <=> n \in nameless'
        <5>1. \A n \in counted[d] : n \in Notes /\ written[n] # Nothing /\ written[n].day = d
          BY DEF ObservationTypeOK, EventsWritten
        <5>2. CASE d \in pruned
          BY <1>1, <1>3, <1>12, <5>1, <5>2
        <5>3. CASE d \in consolidated \ pruned
          <6>1. \A n \in counted[d] : n \in raw
            BY <5>3 DEF HistoryExact, RawOn, On
          <6>2. \A n \in counted[d] : n \notin Mine(m)
            BY <1>2, <3>3, <5>1, <5>3
          <6>3. \A n \in counted[d] : author[n] # m /\ n \notin nameless'
            BY <2>2, <6>1, <6>2 DEF Mine
          <6>. QED BY <1>12, <5>1, <6>3
        <5>4. CASE d \notin consolidated
          BY <5>4 DEF EventsWritten
        <5>. QED BY <5>2, <5>3, <5>4
      <4>4. {Who(n) : n \in counted[d] \ nameless} \ {m} = {Who(n) : n \in counted[d] \ nameless'}
        <5>1. nameless \subseteq nameless'
          BY <1>1
        <5>. QED BY <4>3, <5>1
      <4>. QED BY <3>1, <4>1, <4>2, <4>4
    <3>. QED BY <3>2, <3>3
  <2>4. \A n \in nameless' : n \notin raw' /\ written'[n] # Nothing /\ written'[n].day \in pruned'
    BY <1>1, <1>2, <2>2
  <2>5. \A d \in Days : {p.who : p \in {q \in presence' : q.day = d}} = {Who(n)' : n \in (counted[d] \ nameless)'}
    BY <2>1, <2>3
  <2>. QED BY <2>4, <2>5 DEF PresenceExact
<1>14. CohortsStable'
  BY <1>1, <1>5, <1>6 DEF CohortsStable
<1>15. NoLateMember'
  BY <1>1 DEF NoLateMember
<1>16. ErasedForGood'
  <2>1. closed' \ overtaken' \subseteq (closed \ overtaken) \cup {m}
    BY <1>1
  <2>2. ASSUME NEW k \in closed' \ overtaken' PROVE Mine(k)' = {}
    <3>1. CASE k = m
      BY <1>1, <1>2, <3>1 DEF Mine
    <3>2. CASE k # m
      <4>1. Mine(k) = {}
        BY <2>1, <3>2 DEF ErasedForGood
      <4>. QED BY <1>1, <1>2, <4>1 DEF Mine
    <3>. QED BY <3>1, <3>2
  <2>3. ASSUME NEW k \in closed' \ overtaken', NEW p \in presence' PROVE p.who # k
    <3>1. CASE k = m
      BY <1>6, <3>1
    <3>2. CASE k # m
      <4>1. k \in closed \ overtaken /\ k \in Members /\ p \in now
        BY <1>6, <2>1, <3>2 DEF ObservationTypeOK
      <4>2. \A n \in rest : n \in Notes /\ written[n] # Nothing /\ author[n] # k
        BY <1>2, <4>1 DEF ErasedForGood, Mine, ObservationTypeOK, EventsWritten
      <4>3. \A n \in rest : Who(n) # k
        BY <4>1, <4>2, WhoIsMember
      <4>. QED BY <1>5, <4>1, <4>3 DEF ErasedForGood
    <3>. QED BY <3>1, <3>2
  <2>. QED BY <2>2, <2>3 DEF ErasedForGood
<1>17. ListingConsistent'
  <2>1. Mine(m) = {} => kept' = kept
    BY <1>1
  <2>. QED BY <1>1, <2>1 DEF ListingConsistent
<1>. QED BY <1>7, <1>8, <1>9, <1>11, <1>13, <1>14, <1>15, <1>16, <1>17

LEMMA ObservationsStart ==
  ASSUME ObservationInit
  PROVE  ObservationInv
<1>. USE ObservationAssumption, DaysAreNumbers DEF ObservationInit
<1>1. ObservationTypeOK
  BY DEF ObservationTypeOK
<1>2. RequestsFresh /\ EventsWritten /\ HistoryOld /\ PlansSound
  BY DEF RequestsFresh, EventsWritten, HistoryOld, PlansSound
<1>3. HistoryExact
  BY DEF HistoryExact, RawOn, On
<1>4. PresenceExact
  <2>1. \A d \in Days : counted[d] = {} /\ {q \in presence : q.day = d} = {}
    OBVIOUS
  <2>. QED BY <2>1 DEF PresenceExact
<1>5. VisitorsBound /\ CohortsStable /\ NoLateMember /\ ErasedForGood /\ ListingConsistent
  BY DEF VisitorsBound, CohortsStable, NoLateMember, ErasedForGood, Mine, ListingConsistent
<1>. QED BY <1>1, <1>2, <1>3, <1>4, <1>5 DEF ObservationInv

LEMMA ObservationsStep ==
  ASSUME ObservationInv, [ObservationNext]_observationVars
  PROVE  ObservationInv'
<1>1. CASE UNCHANGED observationVars
  <2>. USE <1>1 DEF ObservationInv, observationVars, clientVars, rawVars, historyVars, erasureVars
  <2>1. ObservationTypeOK' /\ RequestsFresh' /\ PlansSound'
    BY DEF ObservationTypeOK, RequestsFresh, PlansSound, Through
  <2>2. /\ EventsWritten' /\ HistoryOld' /\ HistoryExact' /\ PresenceExact'
        /\ VisitorsBound' /\ CohortsStable'
    <3>1. today' \in 0..LastDay /\ today <= today'
      BY DEF ObservationTypeOK
    <3>. QED BY <3>1, ReportsStand
  <2>3. NoLateMember' /\ ErasedForGood' /\ ListingConsistent'
    BY DEF NoLateMember, ErasedForGood, Mine, ListingConsistent
  <2>. QED BY <2>1, <2>2, <2>3
<1>2. CASE \E n \in Notes : WriteDown(n) \/ Arrives(n)
  BY <1>2, WriteDownKeeps, ArrivesKeeps
<1>3. CASE \E r \in requests : Ingest(r) \/ Rejected(r)
  BY <1>3, IngestKeeps, RejectedKeeps
<1>4. CASE \E w \in Consolidators : BeginRound(w) \/ ConsolidateDay(w) \/ EndRound(w)
  BY <1>4, BeginRoundKeeps, ConsolidateDayKeeps, EndRoundKeeps
<1>5. CASE Prune
  BY <1>5, PruneKeeps
<1>6. CASE \E m \in Members : CloseAccount(m) \/ Reopen(m)
  BY <1>6, CloseAccountKeeps, ReopenKeeps
<1>7. CASE OpenListing \/ TurnPage \/ CloseListing
  BY <1>7, PagesKeep
<1>8. CASE Midnight
  BY <1>8, MidnightKeeps
<1>. QED BY <1>1, <1>2, <1>3, <1>4, <1>5, <1>6, <1>7, <1>8 DEF ObservationNext

\* What the reports show of a day follows from the invariant: the events kept of it and the
\* actors they stand for, the dashboard's too while the day is retained.
LEMMA ReportsFollow ==
  ASSUME ObservationInv
  PROVE  ReportsComplete
<1>. USE DEF ObservationInv
<1>1. ASSUME NEW d \in Days
      PROVE  ActorsOn(d) = {Who(n) : n \in On(d, kept) \ nameless}
  <2>1. {p.who : p \in {q \in presence : q.day = d}} = {Who(n) : n \in counted[d] \ nameless}
    BY DEF PresenceExact
  <2>2. {ActorOf(n) : n \in LiveOn(d)} = {Who(n) : n \in LiveOn(d)}
    <3>1. \A n \in LiveOn(d) : n \in raw
      BY DEF LiveOn, RawOn, On
    <3>2. \A n \in LiveOn(d) : ActorOf(n) = Who(n)
      BY <3>1, RawActor
    <3>. QED BY <3>2
  <2>3. LiveOn(d) \ nameless = LiveOn(d)
    BY DEF PresenceExact, LiveOn, RawOn, On
  <2>4. CASE d \in consolidated
    BY <2>1, <2>4 DEF ActorsOn, LiveOn, HistoryExact
  <2>5. CASE d \notin consolidated
    <3>1. counted[d] = {} /\ LiveOn(d) = On(d, kept)
      BY <2>5 DEF EventsWritten, HistoryExact, LiveOn
    <3>. QED BY <2>1, <2>2, <2>3, <3>1 DEF ActorsOn
  <2>. QED BY <2>4, <2>5
<1>2. ASSUME NEW d \in Days, d >= Cutoff
      PROVE  DashboardOn(d) = ReportedOn(d) /\ DashboardActorsOn(d) = ActorsOn(d)
  <2>1. d \notin pruned
    <3>1. Cutoff \in Int /\ d \in Nat
      BY ObservationAssumption, DaysAreNumbers DEF Cutoff, ObservationTypeOK
    <3>. QED BY <1>2, <3>1 DEF HistoryOld
  <2>2. On(d, kept) = RawOn(d)
    BY <2>1 DEF HistoryExact
  <2>3. ReportedOn(d) = RawOn(d)
    BY <2>2, ReportedIsKept
  <2>4. \A n \in RawOn(d) : n \in raw /\ n \notin nameless /\ ActorOf(n) = Who(n)
    BY RawActor DEF PresenceExact, RawOn, On
  <2>5. RawOn(d) \ nameless = RawOn(d)
    BY <2>4
  <2>6. DashboardActorsOn(d) = {Who(n) : n \in RawOn(d)}
    BY <2>4 DEF DashboardActorsOn
  <2>. QED BY <1>1, <2>2, <2>3, <2>5, <2>6 DEF DashboardOn
<1>3. \A d \in Days : ReportedOn(d) = On(d, kept)
  BY ReportedIsKept
<1>. QED BY <1>1, <1>2, <1>3 DEF ReportsComplete, Who

LEMMA ObservationsHold ==
  ASSUME ObservationInv
  PROVE  ObservationInvariant
  BY ReportsFollow DEF ObservationInv, ObservationInvariant

\* In every behaviour each event that was accepted and not erased is reported once on its
\* day and by its actor, a closed account leaves nothing behind, a visitor keeps its cohort
\* and the pages of a listing agree (ingest, consolidate_pending, prune, forget_actor).
THEOREM ObservationsKept == ObservationSpec => []ObservationInvariant
<1>1. ObservationInit => ObservationInv
  BY ObservationsStart
<1>2. ObservationInv /\ [ObservationNext]_observationVars => ObservationInv'
  BY ObservationsStep
<1>3. ObservationInv => ObservationInvariant
  BY ObservationsHold
<1>. QED BY <1>1, <1>2, <1>3, PTL DEF ObservationSpec

-----------------------------------------------------------------------------
(* The scan of an audit.  Its loop is a recursive function over the         *)
(* sequence numbers: it exists, and what it has found at a row is what the  *)
(* rows up to there are, both by induction on the rows passed.              *)

\* The loop before its first row, and after row n.
Entered(first, entry) ==
  [expected |-> first, prev |-> entry, ok |-> TRUE, last |-> first - 1, lastHash |-> entry]

RowIsGood(s, n) ==
  /\ n = s.expected
  /\ ledger[n].prev = s.prev
  /\ ledger[n].intact

ScanRow(scan, n, first, entry) ==
  IF n < first
  THEN Entered(first, entry)
  ELSE IF ~ Present(n) THEN scan[n - 1]
  ELSE LET s    == scan[n - 1]
           good == RowIsGood(s, n)
       IN [expected |-> n + 1, prev |-> ledger[n].hash, ok |-> s.ok /\ good,
           last     |-> IF s.ok /\ good THEN n ELSE s.last,
           lastHash |-> IF s.ok /\ good THEN ledger[n].hash ELSE s.lastHash]

Scans(scan, first, entry, m) ==
  scan = [n \in (first - 1)..m |-> ScanRow(scan, n, first, entry)]

\* The loop runs through any number of rows.
LEMMA ScansExist ==
  ASSUME NEW first \in Nat \ {0}, NEW entry, NEW m \in Nat
  PROVE  \E scan : Scans(scan, first, entry, first - 1 + m)
<1>. DEFINE P == {k \in Nat : \E scan : Scans(scan, first, entry, first - 1 + k)}
<1>1. 0 \in P
  <2>. DEFINE scan == [n \in (first - 1)..(first - 1 + 0) |-> Entered(first, entry)]
  <2>1. \A n \in (first - 1)..(first - 1 + 0) : n < first
    OBVIOUS
  <2>2. Scans(scan, first, entry, first - 1 + 0)
    BY <2>1 DEF Scans, ScanRow
  <2>. QED BY <2>2
<1>2. ASSUME NEW k \in P PROVE k + 1 \in P
  <2>1. PICK g : Scans(g, first, entry, first - 1 + k)
    OBVIOUS
  <2>. DEFINE h == [n \in (first - 1)..(first - 1 + (k + 1)) |-> ScanRow(g, n, first, entry)]
  <2>2. ASSUME NEW n \in (first - 1)..(first - 1 + (k + 1))
        PROVE  ScanRow(h, n, first, entry) = ScanRow(g, n, first, entry)
    <3>1. CASE n < first
      BY <3>1 DEF ScanRow
    <3>2. CASE ~ (n < first)
      <4>1. n - 1 \in (first - 1)..(first - 1 + k) /\ n - 1 \in (first - 1)..(first - 1 + (k + 1))
        BY <3>2
      <4>2. g[n - 1] = ScanRow(g, n - 1, first, entry)
        BY <2>1, <4>1 DEF Scans
      <4>3. h[n - 1] = g[n - 1]
        BY <4>1, <4>2
      <4>. HIDE DEF h
      <4>. QED BY <4>3 DEF ScanRow
    <3>. QED BY <3>1, <3>2
  <2>3. Scans(h, first, entry, first - 1 + (k + 1))
    BY <2>2 DEF Scans
  <2>. QED BY <2>3
<1>3. P = Nat
  <2>. HIDE DEF P
  <2>1. P \in SUBSET Nat
    BY DEF P
  <2>. QED BY <1>1, <1>2, <2>1, SetInduction
<1>. QED BY <1>3

\* What the loop knows at row n: no row is stored between the last it saw and
\* n, it has accepted exactly the rows that follow, and it stays at the last
\* of them once one did not.
ScanKnows(s, n, first, entry) ==
  /\ s.ok \in BOOLEAN
  /\ s.expected \in first..(n + 1)
  /\ \A k \in s.expected..n : ~ Present(k)
  /\ s.expected = first => s.prev = entry
  /\ s.expected # first => Present(s.expected - 1) /\ s.prev = ledger[s.expected - 1].hash
  /\ s.last \in (first - 1)..(s.expected - 1)
  /\ s.ok => s.last = s.expected - 1
  /\ \A k \in first..(s.last) : Follows(k, first, entry)
  /\ ~ s.ok => ~ Follows(s.last + 1, first, entry) /\ s.last + 1 <= s.expected - 1

\* One more row.
LEMMA ScanStep ==
  ASSUME TypeOK, NEW first \in Nat \ {0}, NEW entry, NEW n \in Seqs, first <= n,
         NEW scan, ScanKnows(scan[n - 1], n - 1, first, entry)
  PROVE  ScanKnows(ScanRow(scan, n, first, entry), n, first, entry)
<1>. DEFINE s == scan[n - 1]
            good == RowIsGood(s, n)
<1>0. n \in Nat \ {0} /\ ~ (n < first)
  BY DEF Seqs
<1>1. CASE ~ Present(n)
  <2>1. ScanRow(scan, n, first, entry) = s
    BY <1>0, <1>1 DEF ScanRow
  <2>2. s.expected \in first..((n - 1) + 1)
    BY DEF ScanKnows
  <2>3. \A k \in s.expected..n : ~ Present(k)
    <3>1. \A k \in s.expected..n : k \in s.expected..(n - 1) \/ k = n
      BY <1>0, <2>2
    <3>. QED BY <1>1, <3>1 DEF ScanKnows
  <2>4. s.expected \in first..(n + 1)
    BY <1>0, <2>2
  <2>. QED BY <2>1, <2>3, <2>4 DEF ScanKnows
<1>2. CASE Present(n)
  <2>0. ledger[n] \in EventRow
    BY <1>2, HeadType
  <2>1. good \in BOOLEAN /\ ledger[n].intact \in BOOLEAN
    BY <2>0 DEF RowIsGood, EventRow
  <2>2. s.expected \in first..n
    BY <1>0 DEF ScanKnows
  <2>3. (s.ok /\ good) => Follows(n, first, entry)
    <3>1. SUFFICES ASSUME good PROVE Follows(n, first, entry)
      OBVIOUS
    <3>2. n = s.expected /\ ledger[n].prev = s.prev /\ ledger[n].intact
      BY <3>1 DEF RowIsGood
    <3>. QED BY <1>2, <3>2 DEF Follows, ScanKnows
  <2>4. (s.ok /\ ~ good) => ~ Follows(s.last + 1, first, entry)
    <3>1. SUFFICES ASSUME s.ok, ~ good, Follows(s.expected, first, entry) PROVE FALSE
      <4>1. s.ok => s.last + 1 = s.expected
        BY <2>2 DEF ScanKnows
      <4>. QED BY <4>1
    <3>2. Present(s.expected)
      BY <3>1 DEF Follows
    <3>3. s.expected = n
      <4>1. \A k \in s.expected..(n - 1) : ~ Present(k)
        BY DEF ScanKnows
      <4>2. s.expected \notin s.expected..(n - 1)
        BY <3>2, <4>1
      <4>. QED BY <1>0, <2>2, <4>2
    <3>4. ledger[n].prev = s.prev /\ ledger[n].intact
      BY <3>1, <3>3 DEF Follows, ScanKnows
    <3>. QED BY <3>1, <3>3, <3>4 DEF RowIsGood
  <2>. DEFINE t == ScanRow(scan, n, first, entry)
  <2>5. t = [expected |-> n + 1, prev |-> ledger[n].hash, ok |-> s.ok /\ good,
             last     |-> IF s.ok /\ good THEN n ELSE s.last,
             lastHash |-> IF s.ok /\ good THEN ledger[n].hash ELSE s.lastHash]
    BY <1>0, <1>2, Zenon DEF ScanRow
  <2>6. /\ t.expected = n + 1 /\ t.prev = ledger[n].hash
        /\ t.ok = (s.ok /\ good)
        /\ t.last = (IF s.ok /\ good THEN n ELSE s.last)
    BY <2>5
  <2>. HIDE DEF t, good, s
  <2>7. /\ s.ok \in BOOLEAN
        /\ s.last \in (first - 1)..(s.expected - 1)
        /\ s.ok => s.last = s.expected - 1
        /\ \A k \in first..(s.last) : Follows(k, first, entry)
        /\ ~ s.ok => ~ Follows(s.last + 1, first, entry) /\ s.last + 1 <= s.expected - 1
    BY DEF ScanKnows, s
  <2>8. ASSUME s.ok /\ good PROVE ScanKnows(t, n, first, entry)
    <3>1. t.ok /\ t.last = n /\ s.expected = n
      BY <2>6, <2>8 DEF good, RowIsGood
    <3>2. \A k \in first..n : Follows(k, first, entry)
      <4>1. s.last = n - 1
        BY <2>7, <2>8, <3>1
      <4>2. \A k \in first..n : k \in first..(n - 1) \/ k = n
        BY <1>0
      <4>. QED BY <2>3, <2>7, <2>8, <4>1, <4>2
    <3>3. /\ t.expected \in first..(n + 1) /\ t.expected - 1 = n /\ t.expected # first
          /\ t.expected..n = {}
          /\ n \in (first - 1)..n
      BY <1>0, <2>6
    <3>4. t.ok \in BOOLEAN /\ ledger[t.expected - 1].hash = ledger[n].hash
      BY <3>1, <3>3, <2>8, <2>6, <2>1, <2>7
    <3>. QED BY <1>2, <2>6, <3>1, <3>2, <3>3, <3>4 DEF ScanKnows
  <2>9. ASSUME ~ (s.ok /\ good) PROVE ScanKnows(t, n, first, entry)
    <3>1. ~ t.ok /\ t.ok \in BOOLEAN /\ t.last = s.last
      BY <2>6, <2>9, <2>1, <2>7
    <3>2. ~ Follows(s.last + 1, first, entry)
      BY <2>4, <2>7, <2>9
    <3>3. s.last + 1 <= n /\ s.last \in (first - 1)..n
      BY <1>0, <2>2, <2>7
    <3>4. /\ t.expected \in first..(n + 1) /\ t.expected - 1 = n /\ t.expected # first
          /\ t.expected..n = {}
      BY <1>0, <2>6
    <3>5. t.prev = ledger[t.expected - 1].hash
      BY <2>6, <3>4
    <3>. QED BY <1>2, <2>7, <3>1, <3>2, <3>3, <3>4, <3>5 DEF ScanKnows
  <2>. QED BY <2>8, <2>9 DEF t
<1>. QED BY <1>1, <1>2

\* Where the loop ends.
LEMMA ScanAtHead ==
  ASSUME TypeOK, NEW first \in Nat \ {0}, NEW entry, first <= ChainHead + 1
  PROVE  ScanKnows(Scan(first, entry), ChainHead, first, entry)
<1>0. MaxEvents \in Nat /\ ChainHead \in 0..MaxEvents
  BY HeadType, LedgerAssumption
<1>. DEFINE m == ChainHead - (first - 1)
<1>1. m \in Nat /\ first - 1 + m = ChainHead
  BY <1>0
<1>2. \E scan : Scans(scan, first, entry, ChainHead)
  <2>. HIDE DEF m
  <2>. QED BY <1>1, ScansExist
<1>. DEFINE scan == CHOOSE g : Scans(g, first, entry, ChainHead)
<1>3. Scans(scan, first, entry, ChainHead)
  <2>. HIDE DEF Scans
  <2>. QED BY <1>2
<1>4. Scan(first, entry) = scan[ChainHead]
  BY DEF Scan, Scans, ScanRow, Entered, RowIsGood
<1>. HIDE DEF scan
<1>5. \A n \in (first - 1)..ChainHead : scan[n] = ScanRow(scan, n, first, entry)
  BY <1>3 DEF Scans
<1>. DEFINE P == {k \in Nat : first - 1 + k <= ChainHead =>
                      ScanKnows(scan[first - 1 + k], first - 1 + k, first, entry)}
<1>6. 0 \in P
  <2>1. scan[first - 1] = Entered(first, entry)
    <3>1. first - 1 \in (first - 1)..ChainHead /\ first - 1 < first
      BY <1>0
    <3>. QED BY <1>5, <3>1 DEF ScanRow
  <2>2. ScanKnows(scan[first - 1], first - 1, first, entry)
    BY <2>1 DEF ScanKnows, Entered
  <2>3. first - 1 + 0 = first - 1
    OBVIOUS
  <2>. QED BY <2>2, <2>3
<1>7. ASSUME NEW k \in P PROVE k + 1 \in P
  <2>1. SUFFICES ASSUME first - 1 + (k + 1) <= ChainHead
                 PROVE  ScanKnows(scan[first - 1 + (k + 1)], first - 1 + (k + 1), first, entry)
    OBVIOUS
  <2>. DEFINE n == first - 1 + (k + 1)
  <2>2. n \in Seqs /\ first <= n /\ n \in (first - 1)..ChainHead /\ n - 1 = first - 1 + k
    BY <1>0, <2>1 DEF Seqs
  <2>3. ScanKnows(scan[n - 1], n - 1, first, entry)
    BY <2>1, <2>2, <1>0
  <2>4. scan[n] = ScanRow(scan, n, first, entry)
    BY <1>5, <2>2
  <2>. HIDE DEF n
  <2>5. ScanKnows(ScanRow(scan, n, first, entry), n, first, entry)
    BY <2>2, <2>3, ScanStep
  <2>. QED BY <2>4, <2>5 DEF n
<1>8. P = Nat
  <2>. HIDE DEF P
  <2>1. P \in SUBSET Nat
    BY DEF P
  <2>. QED BY <1>6, <1>7, <2>1, SetInduction
<1>9. ScanKnows(scan[ChainHead], ChainHead, first, entry)
  <2>1. m \in P
    BY <1>1, <1>8
  <2>. QED BY <1>0, <1>1, <2>1
<1>. QED BY <1>4, <1>9

\* On any stored rows, whole or damaged, the loop of an audit accepts exactly the segments whose
\* every row is present, intact and linked, and stops verifying at the first row that is not
\* (_verify_integrity_ledger_segment).
THEOREM LedgerScanFindsFirstBreak == Spec => []ScanFindsFirstBreak
<1>1. TypeOK => ScanFindsFirstBreak
  <2>. SUFFICES ASSUME TypeOK, NEW full \in BOOLEAN, full \/ latest # Absent,
                       full \/ latest.last <= ChainHead
                PROVE  LET first == ScanFrom(full)
                           s     == Scan(first, EntryHash(full))
                       IN /\ s.ok = SegmentValid(first, EntryHash(full))
                          /\ s.last = LastVerified(first, EntryHash(full))
    BY DEF ScanFindsFirstBreak
  <2>. DEFINE first == ScanFrom(full)
              entry == EntryHash(full)
              s == Scan(first, entry)
  <2>0. MaxEvents \in Nat /\ ChainHead \in 0..MaxEvents /\ (ChainHead # 0 => Present(ChainHead))
    BY HeadType, LedgerAssumption
  <2>1. first \in Nat \ {0} /\ first <= ChainHead + 1
    <3>1. CASE full
      BY <2>0, <3>1 DEF ScanFrom
    <3>2. CASE ~ full
      <4>1. latest.last \in Nat /\ latest.last <= ChainHead
        BY <3>2, <2>0 DEF TypeOK, Checkpoint
      <4>. QED BY <2>0, <3>2, <4>1 DEF ScanFrom
    <3>. QED BY <3>1, <3>2
  <2>. HIDE DEF first, entry
  <2>2. ScanKnows(s, ChainHead, first, entry)
    BY <2>1, ScanAtHead
  <2>. HIDE DEF s
  <2>3. s.expected = ChainHead + 1
    <3>1. s.expected \in first..(ChainHead + 1) /\ \A k \in s.expected..ChainHead : ~ Present(k)
      BY <2>2 DEF ScanKnows
    <3>2. s.expected <= ChainHead => ChainHead # 0 /\ ChainHead \in s.expected..ChainHead
      BY <2>0, <2>1, <3>1
    <3>. QED BY <2>0, <2>1, <3>1, <3>2
  <2>4. /\ s.ok \in BOOLEAN
        /\ s.last \in (first - 1)..ChainHead
        /\ s.ok => s.last = ChainHead
        /\ \A k \in first..(s.last) : Follows(k, first, entry)
        /\ ~ s.ok => ~ Follows(s.last + 1, first, entry) /\ s.last + 1 <= ChainHead
    <3>1. s.expected - 1 = ChainHead
      BY <2>0, <2>3
    <3>. QED BY <2>2, <3>1 DEF ScanKnows
  <2>5. s.ok = SegmentValid(first, entry)
    <3>1. CASE s.ok
      BY <2>4, <3>1 DEF SegmentValid
    <3>2. CASE ~ s.ok
      <4>1. s.last + 1 \in first..ChainHead
        BY <2>0, <2>1, <2>4, <3>2
      <4>2. ~ SegmentValid(first, entry)
        BY <2>4, <3>2, <4>1 DEF SegmentValid
      <4>. QED BY <3>2, <4>2, <2>4 DEF SegmentValid
    <3>. QED BY <3>1, <3>2
  <2>6. s.last = LastVerified(first, entry)
    <3>1. CASE s.ok
      BY <2>4, <2>5, <3>1 DEF LastVerified
    <3>2. CASE ~ s.ok
      <4>. DEFINE Stops(k) == /\ \A n \in first..k : Follows(n, first, entry)
                              /\ ~ Follows(k + 1, first, entry)
      <4>1. LastVerified(first, entry) = CHOOSE k \in (first - 1)..ChainHead : Stops(k)
        BY <2>5, <3>2 DEF LastVerified
      <4>2. s.last \in (first - 1)..ChainHead /\ Stops(s.last)
        BY <2>4, <3>2
      <4>3. ASSUME NEW k \in (first - 1)..ChainHead, Stops(k) PROVE k = s.last
        <5>1. k < s.last => k + 1 \in first..(s.last)
          BY <2>0, <2>1, <4>2
        <5>2. s.last < k => s.last + 1 \in first..k
          BY <2>0, <2>1, <4>2
        <5>3. ~ (k < s.last) /\ ~ (s.last < k)
          BY <4>2, <4>3, <5>1, <5>2
        <5>. QED BY <2>0, <2>1, <4>2, <5>3
      <4>. HIDE DEF Stops
      <4>. QED BY <4>1, <4>2, <4>3
    <3>. QED BY <3>1, <3>2
  <2>. QED BY <2>5, <2>6 DEF s, first, entry
<1>. QED BY <1>1, LedgerTypeCorrect, PTL

-----------------------------------------------------------------------------
(* Merkle trees.  A list of n hashes is a function on 1..n.  The levels and *)
(* the places are recursive functions, each of which is first shown to      *)
(* satisfy its equation, by induction on the level.                         *)

IsList(s, n) == s = [i \in 1..n |-> s[i]]

NextPlace(g, k, i) == IF k = 0 THEN i ELSE (g[k - 1] + 1) \div 2

PlacesTo(g, m, i) == g = [k \in 0..m |-> NextPlace(g, k, i)]

LEMMA PlacesUnfold ==
  ASSUME NEW n \in Nat, NEW i
  PROVE  /\ Places(n, i)[0] = i
         /\ \A k \in 1..n : Places(n, i)[k] = (Places(n, i)[k - 1] + 1) \div 2
<1>. DEFINE P == {m \in Nat : \E g : PlacesTo(g, m, i)}
<1>1. 0 \in P
  <2>. DEFINE g == [k \in 0..0 |-> i]
  <2>1. PlacesTo(g, 0, i)
    BY DEF PlacesTo, NextPlace
  <2>. QED BY <2>1
<1>2. ASSUME NEW m \in P PROVE m + 1 \in P
  <2>1. PICK g : PlacesTo(g, m, i)
    OBVIOUS
  <2>. DEFINE h == [k \in 0..(m + 1) |-> NextPlace(g, k, i)]
  <2>2. ASSUME NEW k \in 0..(m + 1) PROVE NextPlace(g, k, i) = NextPlace(h, k, i)
    <3>1. CASE k = 0
      BY <3>1 DEF NextPlace
    <3>2. CASE k # 0
      <4>1. k - 1 \in 0..m /\ k - 1 \in 0..(m + 1)
        BY <3>2
      <4>2. h[k - 1] = g[k - 1]
        BY <2>1, <4>1 DEF PlacesTo
      <4>. HIDE DEF h
      <4>. QED BY <4>2 DEF NextPlace
    <3>. QED BY <3>1, <3>2
  <2>3. PlacesTo(h, m + 1, i)
    BY <2>2 DEF PlacesTo
  <2>. QED BY <2>3
<1>3. P = Nat
  <2>. HIDE DEF P
  <2>1. P \in SUBSET Nat
    BY DEF P
  <2>. QED BY <1>1, <1>2, <2>1, SetInduction
<1>. DEFINE f == CHOOSE g : PlacesTo(g, n, i)
<1>4. PlacesTo(f, n, i)
  <2>1. \E g : PlacesTo(g, n, i)
    BY <1>3
  <2>. QED BY <2>1
<1>5. Places(n, i) = f
  BY DEF Places, PlacesTo, NextPlace
<1>. HIDE DEF f
<1>6. \A k \in 0..n : f[k] = NextPlace(f, k, i)
  BY <1>4 DEF PlacesTo
<1>. QED BY <1>5, <1>6 DEF NextPlace

\* A leaf and the nodes above it lie on their levels, and levels grow no wider.
LEMMA PlacesOnLevels ==
  ASSUME NEW n \in Nat, NEW i \in 1..n, NEW k \in 0..n
  PROVE  /\ Widths(n)[k] \in Nat /\ (Widths(n)[k] <= 1 \/ Widths(n)[k] <= n - k)
         /\ Places(n, i)[k] \in 1..Widths(n)[k]
<1>. DEFINE w == Places(n, n)
            p == Places(n, i)
            P == {m \in Nat : m <= n => /\ w[m] \in Nat /\ (w[m] <= 1 \/ w[m] <= n - m)
                                       /\ p[m] \in 1..w[m]}
<1>0. /\ w[0] = n /\ \A m \in 1..n : w[m] = (w[m - 1] + 1) \div 2
      /\ p[0] = i /\ \A m \in 1..n : p[m] = (p[m - 1] + 1) \div 2
  BY PlacesUnfold
<1>. HIDE DEF w, p
<1>1. 0 \in P
  BY <1>0
<1>2. ASSUME NEW m \in P PROVE m + 1 \in P
  <2>. SUFFICES ASSUME m + 1 <= n PROVE m + 1 \in P
    OBVIOUS
  <2>1. m + 1 \in 1..n /\ (m + 1) - 1 = m
    OBVIOUS
  <2>2. w[m + 1] = (w[m] + 1) \div 2 /\ p[m + 1] = (p[m] + 1) \div 2
    BY <1>0, <2>1
  <2>3. w[m] \in Nat /\ (w[m] <= 1 \/ w[m] <= n - m) /\ p[m] \in 1..w[m]
    BY <2>1
  <2>. QED BY <2>2, <2>3
<1>3. P = Nat
  <2>. HIDE DEF P
  <2>1. P \in SUBSET Nat
    BY DEF P
  <2>. QED BY <1>1, <1>2, <2>1, SetInduction
<1>. QED BY <1>3 DEF Widths, w, p

\* There is a level of one node, or of none if there are no leaves.
LEMMA HeightOfTree ==
  ASSUME NEW n \in Nat
  PROVE  Height(n) \in 0..n /\ Widths(n)[Height(n)] <= 1
<1>. DEFINE Top(k) == Widths(n)[k] <= 1 /\ (k > 0 => Widths(n)[k - 1] > 1)
            T == {k \in 0..n : Widths(n)[k] <= 1}
<1>1. T # {}
  <2>1. CASE n = 0
    <3>1. Widths(n)[0] = 0
      BY <2>1, PlacesUnfold DEF Widths
    <3>. QED BY <2>1, <3>1
  <2>2. CASE n # 0
    <3>1. 1 \in 1..n /\ n \in 0..n
      BY <2>2
    <3>2. Widths(n)[n] \in Nat /\ (Widths(n)[n] <= 1 \/ Widths(n)[n] <= n - n)
      BY <3>1, PlacesOnLevels
    <3>. QED BY <3>1, <3>2
  <2>. QED BY <2>1, <2>2
<1>2. PICK m \in T : \A k \in T : m <= k
  <2>. HIDE DEF T
  <2>1. T \in SUBSET Nat
    BY DEF T
  <2>. QED BY <1>1, <2>1, LeastNumber
<1>3. Top(m)
  <2>1. ASSUME m > 0 PROVE Widths(n)[m - 1] > 1
    <3>1. m - 1 \in 0..n /\ m - 1 \notin T /\ 1 \in 1..n
      BY <1>2, <2>1
    <3>2. Widths(n)[m - 1] \in Nat
      BY <3>1, PlacesOnLevels
    <3>. QED BY <3>1, <3>2
  <2>. QED BY <1>2, <2>1
<1>4. Height(n) = CHOOSE k \in 0..n : Top(k)
  BY DEF Height
<1>5. Height(n) \in 0..n /\ Top(Height(n))
  <2>. HIDE DEF Top
  <2>1. m \in 0..n
    OBVIOUS
  <2>. QED BY <1>3, <1>4, <2>1
<1>. QED BY <1>5

LevelAbove(g, k, s, n) == IF k = 0 THEN s ELSE NextLevel(g[k - 1], Widths(n)[k - 1])

LevelsTo(g, m, s, n) == g = [k \in 0..m |-> LevelAbove(g, k, s, n)]

LEMMA LevelsUnfold ==
  ASSUME NEW n \in Nat, NEW s, IsList(s, n)
  PROVE  /\ Levels(s)[0] = s
         /\ \A k \in 1..n : Levels(s)[k] = NextLevel(Levels(s)[k - 1], Widths(n)[k - 1])
         /\ Root(s) = Levels(s)[Height(n)]
<1>. DEFINE P == {m \in Nat : \E g : LevelsTo(g, m, s, n)}
<1>1. 0 \in P
  <2>. DEFINE g == [k \in 0..0 |-> s]
  <2>1. LevelsTo(g, 0, s, n)
    BY DEF LevelsTo, LevelAbove
  <2>. QED BY <2>1
<1>2. ASSUME NEW m \in P PROVE m + 1 \in P
  <2>1. PICK g : LevelsTo(g, m, s, n)
    OBVIOUS
  <2>. DEFINE h == [k \in 0..(m + 1) |-> LevelAbove(g, k, s, n)]
  <2>2. ASSUME NEW k \in 0..(m + 1) PROVE LevelAbove(g, k, s, n) = LevelAbove(h, k, s, n)
    <3>1. CASE k = 0
      BY <3>1 DEF LevelAbove
    <3>2. CASE k # 0
      <4>1. k - 1 \in 0..m /\ k - 1 \in 0..(m + 1)
        BY <3>2
      <4>2. h[k - 1] = g[k - 1]
        BY <2>1, <4>1 DEF LevelsTo
      <4>. HIDE DEF h
      <4>. QED BY <4>2 DEF LevelAbove
    <3>. QED BY <3>1, <3>2
  <2>3. LevelsTo(h, m + 1, s, n)
    BY <2>2 DEF LevelsTo
  <2>. QED BY <2>3
<1>3. P = Nat
  <2>. HIDE DEF P
  <2>1. P \in SUBSET Nat
    BY DEF P
  <2>. QED BY <1>1, <1>2, <2>1, SetInduction
<1>. DEFINE f == CHOOSE g : LevelsTo(g, n, s, n)
<1>4. LevelsTo(f, n, s, n)
  <2>1. \E g : LevelsTo(g, n, s, n)
    BY <1>3
  <2>. QED BY <2>1
<1>5. Levels(s) = f /\ Root(s) = Levels(s)[Height(n)]
  BY DEF Levels, Root, LevelsTo, LevelAbove, IsList
<1>. HIDE DEF f
<1>6. \A k \in 0..n : f[k] = LevelAbove(f, k, s, n)
  BY <1>4 DEF LevelsTo
<1>. QED BY <1>5, <1>6 DEF LevelAbove

\* Each level is a list of its width.
LEMMA LevelsAreLists ==
  ASSUME NEW n \in Nat, NEW s, IsList(s, n), NEW k \in 0..n
  PROVE  IsList(Levels(s)[k], Widths(n)[k])
<1>1. CASE k = 0
  <2>1. Widths(n)[0] = n
    BY PlacesUnfold DEF Widths
  <2>. QED BY <1>1, <2>1, LevelsUnfold
<1>2. CASE k # 0
  <2>1. k \in 1..n
    BY <1>2
  <2>2. Levels(s)[k] = NextLevel(Levels(s)[k - 1], Widths(n)[k - 1])
    BY <2>1, LevelsUnfold
  <2>3. Widths(n)[k] = (Widths(n)[k - 1] + 1) \div 2
    BY <2>1, PlacesUnfold DEF Widths
  <2>. QED BY <2>2, <2>3 DEF IsList, NextLevel
<1>. QED BY <1>1, <1>2

NextValue(g, k, hash, proof) ==
  IF k = 0 THEN hash
  ELSE IF proof[k].side = "left" THEN <<proof[k].hash, g[k - 1]>>
  ELSE <<g[k - 1], proof[k].hash>>

ValuesTo(g, m, hash, proof) == g = [k \in 0..m |-> NextValue(g, k, hash, proof)]

LEMMA ClimbUnfold ==
  ASSUME NEW h \in Nat, NEW proof, IsList(proof, h), NEW hash
  PROVE  \E g : ValuesTo(g, h, hash, proof) /\ Climb(hash, proof) = g[h]
<1>. DEFINE P == {m \in Nat : \E g : ValuesTo(g, m, hash, proof)}
<1>1. 0 \in P
  <2>. DEFINE g == [k \in 0..0 |-> hash]
  <2>1. ValuesTo(g, 0, hash, proof)
    BY DEF ValuesTo, NextValue
  <2>. QED BY <2>1
<1>2. ASSUME NEW m \in P PROVE m + 1 \in P
  <2>1. PICK g : ValuesTo(g, m, hash, proof)
    OBVIOUS
  <2>. DEFINE f == [k \in 0..(m + 1) |-> NextValue(g, k, hash, proof)]
  <2>2. ASSUME NEW k \in 0..(m + 1)
        PROVE  NextValue(g, k, hash, proof) = NextValue(f, k, hash, proof)
    <3>1. CASE k = 0
      BY <3>1 DEF NextValue
    <3>2. CASE k # 0
      <4>1. k - 1 \in 0..m /\ k - 1 \in 0..(m + 1)
        BY <3>2
      <4>2. f[k - 1] = g[k - 1]
        BY <2>1, <4>1 DEF ValuesTo
      <4>. HIDE DEF f
      <4>. QED BY <4>2 DEF NextValue
    <3>. QED BY <3>1, <3>2
  <2>3. ValuesTo(f, m + 1, hash, proof)
    BY <2>2 DEF ValuesTo
  <2>. QED BY <2>3
<1>3. P = Nat
  <2>. HIDE DEF P
  <2>1. P \in SUBSET Nat
    BY DEF P
  <2>. QED BY <1>1, <1>2, <2>1, SetInduction
<1>. DEFINE f == CHOOSE g : ValuesTo(g, h, hash, proof)
<1>4. ValuesTo(f, h, hash, proof)
  <2>1. \E g : ValuesTo(g, h, hash, proof)
    BY <1>3
  <2>. QED BY <2>1
<1>5. Climb(hash, proof) = f[h]
  BY DEF Climb, ValuesTo, NextValue, IsList
<1>. QED BY <1>4, <1>5

\* The node above a node is the pair of it and its sibling, in the order of their sides.
LEMMA SiblingMakesPair ==
  ASSUME NEW level, NEW n \in Nat, NEW p \in 1..n
  PROVE  NextLevel(level, n)[(p + 1) \div 2] =
           IF Sibling(level, n, p).side = "left"
           THEN <<Sibling(level, n, p).hash, level[p]>>
           ELSE <<level[p], Sibling(level, n, p).hash>>
<1>. DEFINE q == (p + 1) \div 2
<1>1. q \in 1..((n + 1) \div 2)
  OBVIOUS
<1>2. NextLevel(level, n)[q] =
        <<level[2 * q - 1], level[IF 2 * q <= n THEN 2 * q ELSE 2 * q - 1]>>
  BY <1>1 DEF NextLevel
<1>3. CASE p % 2 = 0
  <2>1. 2 * q = p
    BY <1>3
  <2>. HIDE DEF q
  <2>2. NextLevel(level, n)[q] = <<level[p - 1], level[p]>>
    BY <1>2, <2>1
  <2>. QED BY <1>3, <2>2 DEF Sibling, q
<1>4. CASE p % 2 # 0
  <2>1. 2 * q - 1 = p /\ 2 * q = p + 1
    BY <1>4
  <2>. HIDE DEF q
  <2>2. NextLevel(level, n)[q] = <<level[p], level[IF p + 1 <= n THEN p + 1 ELSE p]>>
    BY <1>2, <2>1
  <2>. QED BY <1>4, <2>2 DEF Sibling, q
<1>. QED BY <1>3, <1>4

\* The proof built for a leaf is accepted against the root, also where a level is odd
\* (build_merkle, verify_merkle_proof).
THEOREM TreeComplete ==
  ASSUME NEW n \in Nat, NEW s, IsList(s, n), NEW i \in 1..n
  PROVE  ProofHolds(s[i], Proof(s, i), Root(s))
<1>. DEFINE h == Height(n)
            proof == Proof(s, i)
            w == Widths(n)
            level == Levels(s)
            place == Places(n, i)
<1>0. /\ h \in 0..n /\ w[h] <= 1
      /\ \A k \in 0..n : w[k] \in Nat /\ place[k] \in 1..w[k]
      /\ place[0] = i /\ \A k \in 1..n : place[k] = (place[k - 1] + 1) \div 2
      /\ level[0] = s /\ \A k \in 1..n : level[k] = NextLevel(level[k - 1], w[k - 1])
      /\ Root(s) = level[h]
  BY HeightOfTree, PlacesOnLevels, PlacesUnfold, LevelsUnfold
<1>1. proof = [k \in 1..h |-> Sibling(level[k - 1], w[k - 1], place[k - 1])]
  BY DEF Proof, IsList
<1>2. IsList(proof, h)
  <2>. HIDE DEF h, w, level, place, proof
  <2>. QED BY <1>1 DEF IsList
<1>3. PICK g : ValuesTo(g, h, s[i], proof) /\ Climb(s[i], proof) = g[h]
  <2>1. h \in Nat
    BY <1>0
  <2>. HIDE DEF h, proof
  <2>. QED BY <1>2, <2>1, ClimbUnfold
<1>8. IsList(level[h], w[h])
  BY <1>0, LevelsAreLists
<1>. HIDE DEF h, w, level, place, proof
<1>. DEFINE P == {k \in Nat : k <= h => g[k] = level[k][place[k]]}
<1>4. 0 \in P
  BY <1>0, <1>3 DEF ValuesTo, NextValue
<1>5. ASSUME NEW k \in P PROVE k + 1 \in P
  <2>. SUFFICES ASSUME k + 1 <= h PROVE g[k + 1] = level[k + 1][place[k + 1]]
    OBVIOUS
  <2>1. k + 1 \in 1..n /\ k \in 0..n /\ k + 1 \in 1..h /\ k + 1 \in 0..h /\ (k + 1) - 1 = k /\ k + 1 # 0
    BY <1>0
  <2>2. g[k] = level[k][place[k]]
    BY <1>0, <2>1
  <2>3. proof[k + 1] = Sibling(level[k], w[k], place[k])
    BY <1>1, <2>1
  <2>4. g[k + 1] = IF proof[k + 1].side = "left" THEN <<proof[k + 1].hash, g[k]>>
                   ELSE <<g[k], proof[k + 1].hash>>
    BY <1>3, <2>1 DEF ValuesTo, NextValue
  <2>5. level[k + 1] = NextLevel(level[k], w[k]) /\ place[k + 1] = (place[k] + 1) \div 2
    BY <1>0, <2>1
  <2>6. w[k] \in Nat /\ place[k] \in 1..w[k]
    BY <1>0, <2>1
  <2>7. NextLevel(level[k], w[k])[(place[k] + 1) \div 2] =
           IF Sibling(level[k], w[k], place[k]).side = "left"
           THEN <<Sibling(level[k], w[k], place[k]).hash, level[k][place[k]]>>
           ELSE <<level[k][place[k]], Sibling(level[k], w[k], place[k]).hash>>
    BY <2>6, SiblingMakesPair, Zenon
  <2>. QED BY <2>2, <2>3, <2>4, <2>5, <2>7, Zenon
<1>6. P = Nat
  <2>. HIDE DEF P
  <2>1. P \in SUBSET Nat
    BY DEF P
  <2>. QED BY <1>4, <1>5, <2>1, SetInduction
<1>7. g[h] = level[h][place[h]]
  <2>1. h \in P /\ h <= h
    BY <1>0, <1>6
  <2>. QED BY <2>1
<1>9. w[h] = 1 /\ place[h] = 1
  BY <1>0
<1>10. level[h] = <<level[h][1]>>
  <2>1. level[h] = [k \in 1..1 |-> level[h][k]]
    BY <1>8, <1>9 DEF IsList
  <2>. QED BY <2>1
<1>. QED BY <1>0, <1>3, <1>7, <1>9, <1>10 DEF ProofHolds, proof

\* Levels that differ have different levels above them.
LEMMA NextLevelInjective ==
  ASSUME NEW n \in Nat, NEW s, IsList(s, n), NEW t, IsList(t, n),
         NextLevel(s, n) = NextLevel(t, n)
  PROVE  s = t
<1>1. ASSUME NEW i \in 1..n PROVE s[i] = t[i]
  <2>. DEFINE q == (i + 1) \div 2
  <2>1. q \in 1..((n + 1) \div 2) /\ (2 * q = i \/ 2 * q - 1 = i)
    OBVIOUS
  <2>. HIDE DEF q
  <2>2. \A r : NextLevel(r, n)[q] = <<r[2 * q - 1], r[IF 2 * q <= n THEN 2 * q ELSE 2 * q - 1]>>
    BY <2>1 DEF NextLevel
  <2>3. <<s[2 * q - 1], s[IF 2 * q <= n THEN 2 * q ELSE 2 * q - 1]>> =
        <<t[2 * q - 1], t[IF 2 * q <= n THEN 2 * q ELSE 2 * q - 1]>>
    BY <2>2
  <2>4. s[2 * q - 1] = t[2 * q - 1]
    BY <2>3
  <2>5. 2 * q <= n => s[2 * q] = t[2 * q]
    BY <2>3
  <2>6. 2 * q = i => 2 * q <= n
    BY <2>1
  <2>. QED BY <2>1, <2>4, <2>5, <2>6
<1>. QED BY <1>1 DEF IsList

\* The root tells apart any two lists of leaves of the same length (build_merkle).
THEOREM TreeInjective ==
  ASSUME NEW n \in Nat, NEW s, IsList(s, n), NEW t, IsList(t, n), Root(s) = Root(t)
  PROVE  s = t
<1>. DEFINE h == Height(n)
            P == {k \in Nat : k <= h => Levels(s)[h - k] = Levels(t)[h - k]}
<1>0. h \in 0..n /\ Levels(s)[h] = Levels(t)[h]
  BY HeightOfTree, LevelsUnfold
<1>. HIDE DEF h
<1>1. 0 \in P
  BY <1>0
<1>2. ASSUME NEW k \in P PROVE k + 1 \in P
  <2>. SUFFICES ASSUME k + 1 <= h PROVE Levels(s)[h - (k + 1)] = Levels(t)[h - (k + 1)]
    OBVIOUS
  <2>. DEFINE m == h - k
  <2>1. m \in 1..n /\ m - 1 \in 0..n /\ h - (k + 1) = m - 1
    BY <1>0
  <2>2. Levels(s)[m] = Levels(t)[m]
    BY <1>0
  <2>. HIDE DEF m
  <2>3. /\ Levels(s)[m] = NextLevel(Levels(s)[m - 1], Widths(n)[m - 1])
        /\ Levels(t)[m] = NextLevel(Levels(t)[m - 1], Widths(n)[m - 1])
    BY <2>1, LevelsUnfold
  <2>4. IsList(Levels(s)[m - 1], Widths(n)[m - 1]) /\ IsList(Levels(t)[m - 1], Widths(n)[m - 1])
    BY <2>1, LevelsAreLists
  <2>5. Widths(n)[m - 1] \in Nat
    <3>1. 1 \in 1..n
      BY <2>1
    <3>. QED BY <2>1, <3>1, PlacesOnLevels
  <2>. QED BY <2>1, <2>2, <2>3, <2>4, <2>5, NextLevelInjective
<1>3. P = Nat
  <2>. HIDE DEF P
  <2>1. P \in SUBSET Nat
    BY DEF P
  <2>. QED BY <1>1, <1>2, <2>1, SetInduction
<1>4. h \in P /\ h <= h /\ h - h = 0
  BY <1>0, <1>3
<1>. QED BY <1>4, LevelsUnfold

-----------------------------------------------------------------------------
(* The order of the leaves.                                                *)

\* In a strict order of a finite set, for each number below its size there is an element that so
\* many others precede.
StrictOrder(Lt, S) ==
  /\ \A i \in S : <<i, i>> \notin Lt
  /\ \A i, j, k \in S : <<i, j>> \in Lt /\ <<j, k>> \in Lt => <<i, k>> \in Lt
  /\ \A i, j \in S : i = j \/ <<i, j>> \in Lt \/ <<j, i>> \in Lt

Preceding(Lt, S, i) == {k \in S : <<k, i>> \in Lt}

LEMMA RankOnto ==
  ASSUME NEW S, IsFiniteSet(S), NEW Lt, StrictOrder(Lt, S), NEW m \in 1..Cardinality(S)
  PROVE  \E i \in S : Cardinality(Preceding(Lt, S, i)) = m - 1
<1>. DEFINE Below(i) == Preceding(Lt, S, i)
            N == Cardinality(S)
            T == (0..(N - 1)) \ {m - 1}
            f == [i \in S |-> Cardinality(Below(i))]
<1>. SUFFICES ASSUME \A i \in S : Cardinality(Below(i)) # m - 1 PROVE FALSE
  OBVIOUS
<1>0. N \in Nat /\ m \in 1..N
  BY FS_CardinalityType
<1>. USE DEF StrictOrder, Preceding
<1>1. ASSUME NEW i \in S PROVE IsFiniteSet(Below(i)) /\ Cardinality(Below(i)) \in 0..(N - 1)
  <2>1. Below(i) \in SUBSET (S \ {i})
    OBVIOUS
  <2>2. IsFiniteSet(S \ {i}) /\ Cardinality(S \ {i}) = N - 1
    BY FS_RemoveElement
  <2>. HIDE DEF Below, N
  <2>3. IsFiniteSet(Below(i)) /\ Cardinality(Below(i)) <= N - 1
    BY <2>1, <2>2, FS_Subset
  <2>. QED BY <1>0, <2>3, FS_CardinalityType
<1>2. IsFiniteSet(T) /\ Cardinality(T) < N
  <2>. HIDE DEF N
  <2>1. IsFiniteSet(0..(N - 1)) /\ Cardinality(0..(N - 1)) = N
    BY <1>0, FS_Interval
  <2>2. m - 1 \in 0..(N - 1)
    BY <1>0
  <2>3. IsFiniteSet(T) /\ Cardinality(T) = N - 1
    <3>. DEFINE U == 0..(N - 1)
    <3>. HIDE DEF U
    <3>1. IsFiniteSet(U) /\ Cardinality(U) = N /\ m - 1 \in U
      BY <2>1, <2>2 DEF U
    <3>2. IsFiniteSet(U \ {m - 1}) /\ Cardinality(U \ {m - 1}) = Cardinality(U) - 1
      BY <3>1, FS_RemoveElement
    <3>. QED BY <3>1, <3>2 DEF U
  <2>. HIDE DEF T
  <2>. QED BY <1>0, <2>3
<1>3. f \in [S -> T]
  BY <1>1
<1>4. PICK x, y \in S : x # y /\ f[x] = f[y]
  <2>. HIDE DEF f, T, N
  <2>. QED BY <1>2, <1>3, FS_PigeonHole DEF N
<1>5. ASSUME NEW i \in S, NEW j \in S, <<i, j>> \in Lt
      PROVE  Cardinality(Below(i)) < Cardinality(Below(j))
  <2>1. Below(i) \in SUBSET Below(j) /\ i \in Below(j) /\ i \notin Below(i)
    BY <1>5
  <2>. HIDE DEF Below
  <2>2. Cardinality(Below(i)) <= Cardinality(Below(j)) /\ Cardinality(Below(j)) # Cardinality(Below(i))
    BY <1>1, <2>1, FS_Subset
  <2>. QED BY <1>0, <1>1, <2>2
<1>6. Cardinality(Below(x)) = Cardinality(Below(y))
  BY <1>4
<1>7. Cardinality(Below(x)) \in Nat
  <2>. HIDE DEF Below
  <2>. QED BY <1>0, <1>1
<1>8. <<x, y>> \in Lt \/ <<y, x>> \in Lt
  BY <1>4
<1>. HIDE DEF Below
<1>. QED BY <1>5, <1>6, <1>7, <1>8

\* The leaves are as many as the predictions, and each is one of them.
LEMMA SequencedLists ==
  /\ Cardinality(MadeBets) \in Nat
  /\ DOMAIN Sequenced = 1..Cardinality(MadeBets)
  /\ \A n \in 1..Cardinality(MadeBets) : Sequenced[n] \in MadeBets
<1>. DEFINE rank(i) == Cardinality({k \in BetsOf(bet[i].user) : k < i})
            before(i, k) == rank(i) < rank(k) \/ (rank(i) = rank(k) /\ i < k)
            Lt == {p \in MadeBets \X MadeBets : before(p[1], p[2])}
<1>1. IsFiniteSet(MadeBets) /\ MadeBets \in SUBSET Nat
  <2>1. IsFiniteSet(BetIds) /\ BetIds \subseteq Nat
    BY RecordAssumption, FS_Interval DEF BetIds
  <2>2. MadeBets \in SUBSET BetIds
    BY DEF MadeBets
  <2>. QED BY <2>1, <2>2, FS_Subset
<1>2. ASSUME NEW i PROVE rank(i) \in Nat
  <2>1. {k \in BetsOf(bet[i].user) : k < i} \in SUBSET MadeBets
    BY DEF BetsOf
  <2>. QED BY <1>1, <2>1, FS_Subset, FS_CardinalityType
<1>3. Sequenced = [n \in 1..Cardinality(MadeBets) |->
        CHOOSE i \in MadeBets : Cardinality({k \in MadeBets : before(k, i)}) = n - 1]
  BY DEF Sequenced
<1>. HIDE DEF rank
<1>4. ASSUME NEW n \in 1..Cardinality(MadeBets)
      PROVE  \E i \in MadeBets : Cardinality({k \in MadeBets : before(k, i)}) = n - 1
  <2>1. \A i \in MadeBets : <<i, i>> \notin Lt
    BY <1>1, <1>2
  <2>2. \A i, j, k \in MadeBets : <<i, j>> \in Lt /\ <<j, k>> \in Lt => <<i, k>> \in Lt
    BY <1>1, <1>2
  <2>3. \A i, j \in MadeBets : i = j \/ <<i, j>> \in Lt \/ <<j, i>> \in Lt
    BY <1>1, <1>2
  <2>4. \A i \in MadeBets : {k \in MadeBets : before(k, i)} = Preceding(Lt, MadeBets, i)
    BY DEF Preceding
  <2>. HIDE DEF Lt, before
  <2>5. StrictOrder(Lt, MadeBets)
    BY <2>1, <2>2, <2>3 DEF StrictOrder
  <2>6. \E i \in MadeBets : Cardinality(Preceding(Lt, MadeBets, i)) = n - 1
    BY <1>1, <2>5, RankOnto
  <2>. QED BY <2>4, <2>6
<1>. HIDE DEF before
<1>. QED BY <1>1, <1>3, <1>4, FS_CardinalityType

-----------------------------------------------------------------------------
(* The records of a market.                                                *)

Phases == {"draft", "open", "locked", "resolved", "sealed"}

\* The market's row, the definition signed when it was published, and the keys.
MarketRow ==
  market \in [status : Phases, title : {"original", "altered"}, published : {0, 1},
              result : Results \cup {"none"}, stamp : Nat, sealedAt : {0, 1}]

KeysAreGood == signer \in Nat /\ keys \subseteq 0..signer

TitleIsGood ==
  /\ altered = {} \/ \E k \in Alterations : altered = {k}
  /\ market.title = IF altered = {"title"} THEN "altered" ELSE "original"

DefinitionIsGood ==
  /\ market.status = "draft" =>
        market.published = 0 /\ definition = NoRecord /\ MadeBets = {} /\ altered = {}
  /\ market.status # "draft" =>
        market.published = 1 /\ definition \in [title : {"original"}, published : {1}, key : keys]

MarketIsGood == MarketRow /\ KeysAreGood /\ TitleIsGood /\ DefinitionIsGood

EarlierOnes(b, i) == {k \in 1..(i - 1) : b[k] # NoRecord /\ b[k].user = b[i].user}

\* The predictions and their commitments.
BetsAreGood ==
  /\ \E n \in 0..MaxBets : MadeBets = 1..n
  /\ bet \in [BetIds -> [user : Bettors, stake : {1, 2}] \cup {NoRecord}]
  /\ commitment \in [BetIds -> [user : Bettors, stake : {1}, previous : Nat, key : keys] \cup {NoRecord}]
  /\ \A i \in BetIds : commitment[i] # NoRecord =>
        /\ i \in MadeBets /\ commitment[i].user = bet[i].user
        /\ commitment[i].previous = Latest(EarlierOnes(bet, i))

\* An alteration of a prediction or a commitment leaves its mark.
MarksOfAlteration ==
  /\ altered # {"commitment"} => \A i \in MadeBets : commitment[i] # NoRecord
  /\ altered # {"stake"} => \A i \in MadeBets : bet[i].stake = 1
  /\ altered = {"commitment"} => \E i \in MadeBets : commitment[i] = NoRecord
  /\ altered = {"stake"} => \E i \in MadeBets : bet[i].stake = 2

Resolved(m) == resolution = [result |-> m.result, stamp |-> m.stamp]

\* The event of the last resolution.
ResolutionIsGood ==
  /\ resolution = NoRecord \/ resolution \in [result : Results, stamp : Nat]
  /\ market.status \in {"resolved", "sealed"} =>
        /\ resolution # NoRecord /\ market.result \in Results
        /\ altered # {"result"} => Resolved(market)

\* The seal.
SealIsGood ==
  /\ seal = NoRecord <=> market.status # "sealed"
  /\ SealProves
  /\ market.status = "sealed" =>
        /\ SignedBy(seal) /\ seal.title = "original" /\ seal.stamp = 1 /\ market.sealedAt = 1
        /\ resolution = [result |-> seal.result, stamp |-> market.stamp]
        /\ altered # {"result"} => market.result = seal.result
        /\ altered = {} => LeavesHold(bet, commitment, seal)

RowsAreGood ==
  MarketIsGood /\ BetsAreGood /\ MarksOfAlteration /\ ResolutionIsGood /\ SealIsGood

\* A request in progress, and what it has read so far.
ReadingShape ==
  /\ reading = [op |-> reading.op, next |-> reading.next, during |-> reading.during,
                outcome |-> reading.outcome, seen |-> reading.seen]
  /\ reading.op \in {"none", "verify", "contract", "done"}
  /\ reading.op = "verify" => reading.next \in 1..5
  /\ reading.op = "contract" => reading.next \in 1..3 /\ market.status # "draft"
  /\ reading.op \in {"verify", "contract"} => reading.seen = [what \in Shown |-> reading.seen[what]]

\* While nothing happens it has read what is there.
ReadIsCurrent ==
  reading.op \in {"verify", "contract"} /\ reading.during = {} =>
    /\ reading.next > 1 => reading.seen.market = market
    /\ reading.next > 2 => reading.seen.definition = definition /\ reading.seen.title = market.title
    /\ reading.next > 3 => reading.seen.bet = bet /\ reading.seen.commitment = commitment
    /\ reading.next > 4 => reading.seen.seal = seal

Untouched == altered = {} /\ reading.during \cap {"publish", "resolve"} = {}

\* What an untouched market has shown remains true of it.
ReadStands ==
  reading.op \in {"verify", "contract"} /\ Untouched =>
    /\ reading.next > 1 =>
         /\ reading.seen.market.status \in Phases
         /\ reading.seen.market.status = "draft" <=> market.status = "draft"
         /\ reading.seen.market.status # "draft" => reading.seen.market.published = 1
         /\ reading.seen.market.status = "resolved" => Resolved(reading.seen.market)
         /\ reading.seen.market.status = "sealed" => market = reading.seen.market
    /\ reading.next > 2 => reading.seen.definition = definition /\ reading.seen.title = "original"
    /\ reading.next > 3 =>
         /\ CommitmentsHold(reading.seen.bet, reading.seen.commitment)
         /\ reading.seen.market.status = "sealed" =>
              reading.seen.bet = bet /\ reading.seen.commitment = commitment
    /\ reading.next > 4 =>
         /\ reading.seen.seal \in {NoRecord, seal}
         /\ reading.seen.market.status = "sealed" => reading.seen.seal = seal

ReadingIsGood ==
  ReadingShape /\ ReadIsCurrent /\ ReadStands /\ NoFalseSuspicion /\ AlterationFound


\* Stored rows are none of them the missing row.
LEMMA RowsExist ==
  /\ \A u, s : [user |-> u, stake |-> s] # NoRecord
  /\ \A u, s, p, k : [user |-> u, stake |-> s, previous |-> p, key |-> k] # NoRecord
  /\ \A t, p, k : [title |-> t, published |-> p, key |-> k] # NoRecord
  /\ \A r, s : [result |-> r, stamp |-> s] # NoRecord
  /\ \A t, r, s, l, o, k :
        [title |-> t, result |-> r, stamp |-> s, leaves |-> l, root |-> o, key |-> k] # NoRecord
BY DEF NoRecord

\* The latest of some numbers up to m is one of them, if there are any.
LEMMA LatestIsGreatest ==
  ASSUME NEW m \in Nat, NEW S, S \subseteq 1..m
  PROVE  /\ Latest(S) \in 0..m
         /\ S # {} => Latest(S) \in S /\ \A k \in S : k <= Latest(S)
         /\ S = {} => Latest(S) = 0
<1>1. CASE S = {}
  BY <1>1 DEF Latest
<1>2. CASE S # {}
  <2>1. S \in SUBSET (0..m)
    OBVIOUS
  <2>2. \E i \in S : \A k \in S : k <= i
    BY <1>2, <2>1, GreatestNumber
  <2>. DEFINE c == CHOOSE i \in S : \A k \in S : k <= i
  <2>3. Latest(S) = c
    BY <1>2 DEF Latest
  <2>4. c \in S /\ \A k \in S : k <= c
    BY <2>2
  <2>. HIDE DEF c
  <2>. QED BY <1>2, <2>3, <2>4
<1>. QED BY <1>1, <1>2

\* Predictions stay good while nobody touches them; keys are only added.
LEMMA BetsStay ==
  ASSUME BetsAreGood, MarksOfAlteration, UNCHANGED <<bet, commitment, altered>>, keys \subseteq keys'
  PROVE  BetsAreGood' /\ MarksOfAlteration' /\ MadeBets' = MadeBets
<1>1. MadeBets' = MadeBets
  BY DEF MadeBets
<1>2. commitment' \in [BetIds -> [user : Bettors, stake : {1}, previous : Nat, key : keys'] \cup {NoRecord}]
  BY DEF BetsAreGood
<1>. QED BY <1>1, <1>2 DEF BetsAreGood, MarksOfAlteration, EarlierOnes

LEMMA SealProvesStays ==
  ASSUME SealProves, UNCHANGED seal
  PROVE  SealProves'
BY DEF SealProves

\* A market without a seal stays without one unless it is sealed.
LEMMA UnsealedStays ==
  ASSUME SealIsGood, market.status # "sealed", market'.status # "sealed", UNCHANGED seal
  PROVE  SealIsGood'
<1>1. SealProves'
  BY SealProvesStays DEF SealIsGood
<1>. QED BY <1>1 DEF SealIsGood

LEMMA PublishKeepsRows ==
  ASSUME RowsAreGood, Publish
  PROVE  RowsAreGood'
<1>. USE DEF RowsAreGood
<1>1. keys \subseteq keys' /\ keys' \subseteq 0..signer' /\ signer \in keys'
  BY DEF Publish, Remember, MarketIsGood, KeysAreGood
<1>2. BetsAreGood' /\ MarksOfAlteration'
  BY <1>1, BetsStay DEF Publish
<1>3. market' = [market EXCEPT !.status = "open", !.published = 1] /\ market.status = "draft"
  BY DEF Publish
<1>4. MarketIsGood'
  <2>1. MarketRow' /\ market'.title = market.title /\ market'.status = "open" /\ market'.published = 1
    BY <1>3 DEF MarketIsGood, MarketRow, Phases
  <2>2. definition' \in [title : {"original"}, published : {1}, key : keys']
    BY <1>1, <1>3 DEF Publish, MarketIsGood, TitleIsGood, DefinitionIsGood
  <2>. QED BY <1>1, <2>1, <2>2 DEF Publish, MarketIsGood, KeysAreGood, TitleIsGood, DefinitionIsGood
<1>5. SealIsGood'
  BY <1>3, UnsealedStays DEF Publish, MarketIsGood, MarketRow
<1>6. ResolutionIsGood'
  BY <1>3 DEF Publish, MarketIsGood, MarketRow, ResolutionIsGood
<1>. QED BY <1>2, <1>4, <1>5, <1>6

LEMMA LockForResultKeepsRows ==
  ASSUME RowsAreGood, LockForResult
  PROVE  RowsAreGood'
<1>. USE DEF RowsAreGood
<1>1. BetsAreGood' /\ MarksOfAlteration' /\ MadeBets' = MadeBets
  BY BetsStay DEF LockForResult
<1>2. market' = [market EXCEPT !.status = "locked"] /\ market.status = "open"
  BY DEF LockForResult
<1>3. MarketIsGood'
  <2>1. /\ MarketRow' /\ market'.title = market.title /\ market'.status = "locked"
        /\ market'.published = market.published
    BY <1>2 DEF MarketIsGood, MarketRow, Phases
  <2>. QED BY <1>1, <1>2, <2>1 DEF LockForResult, MarketIsGood, KeysAreGood, TitleIsGood, DefinitionIsGood
<1>4. SealIsGood'
  BY <1>2, UnsealedStays DEF LockForResult, MarketIsGood, MarketRow
<1>5. ResolutionIsGood'
  BY <1>2 DEF LockForResult, MarketIsGood, MarketRow, ResolutionIsGood
<1>. QED BY <1>1, <1>3, <1>4, <1>5

LEMMA ResolveKeepsRows ==
  ASSUME RowsAreGood, NEW result \in Results, Resolve(result)
  PROVE  RowsAreGood'
<1>. USE DEF RowsAreGood
<1>1. BetsAreGood' /\ MarksOfAlteration' /\ MadeBets' = MadeBets
  BY BetsStay DEF Resolve
<1>2. PICK stamp \in Nat : resolution' = [result |-> result, stamp |-> stamp]
  BY DEF Resolve, ResolutionIsGood
<1>3. market' = [market EXCEPT !.status = "resolved", !.result = result, !.stamp = stamp] /\ market.status = "locked"
  <2>1. resolution'.stamp = stamp
    BY <1>2
  <2>. QED BY <2>1 DEF Resolve
<1>4. MarketIsGood'
  <2>1. /\ MarketRow' /\ market'.title = market.title /\ market'.status = "resolved"
        /\ market'.published = market.published
    BY <1>3 DEF MarketIsGood, MarketRow, Phases
  <2>. QED BY <1>1, <1>3, <2>1 DEF Resolve, MarketIsGood, KeysAreGood, TitleIsGood, DefinitionIsGood
<1>5. SealIsGood'
  BY <1>3, UnsealedStays DEF Resolve, MarketIsGood, MarketRow
<1>6. ResolutionIsGood'
  BY <1>2, <1>3, RowsExist DEF MarketIsGood, MarketRow, ResolutionIsGood, Resolved
<1>. QED BY <1>1, <1>4, <1>5, <1>6

LEMMA UndoResolutionKeepsRows ==
  ASSUME RowsAreGood, UndoResolution
  PROVE  RowsAreGood'
<1>. USE DEF RowsAreGood
<1>1. BetsAreGood' /\ MarksOfAlteration' /\ MadeBets' = MadeBets
  BY BetsStay DEF UndoResolution
<1>2. market' = [market EXCEPT !.status = "locked", !.result = "none", !.stamp = 0] /\ market.status = "resolved"
  BY DEF UndoResolution
<1>3. MarketIsGood'
  <2>1. /\ MarketRow' /\ market'.title = market.title /\ market'.status = "locked"
        /\ market'.published = market.published
    BY <1>2 DEF MarketIsGood, MarketRow, Phases
  <2>. QED BY <1>1, <1>2, <2>1 DEF UndoResolution, MarketIsGood, KeysAreGood, TitleIsGood, DefinitionIsGood
<1>4. SealIsGood'
  BY <1>2, UnsealedStays DEF UndoResolution, MarketIsGood, MarketRow
<1>5. ResolutionIsGood'
  BY <1>2 DEF UndoResolution, MarketIsGood, MarketRow, ResolutionIsGood
<1>. QED BY <1>1, <1>3, <1>4, <1>5

LEMMA RestartSignerKeepsRows ==
  ASSUME RowsAreGood, RestartSigner
  PROVE  RowsAreGood'
<1>. USE DEF RowsAreGood
<1>1. BetsAreGood' /\ MarksOfAlteration' /\ MadeBets' = MadeBets
  BY BetsStay DEF RestartSigner
<1>2. signer' \in Nat /\ keys \subseteq 0..signer'
  BY DEF RestartSigner, MarketIsGood, KeysAreGood
<1>3. MarketIsGood'
  BY <1>1, <1>2
  DEF RestartSigner, MarketIsGood, MarketRow, KeysAreGood, TitleIsGood, DefinitionIsGood
<1>4. ResolutionIsGood'
  BY DEF RestartSigner, ResolutionIsGood, Resolved
<1>5. SealIsGood'
  <2>1. SealProves'
    BY SealProvesStays DEF RestartSigner, SealIsGood
  <2>. QED BY <2>1 DEF RestartSigner, SealIsGood, SignedBy
<1>. QED BY <1>1, <1>3, <1>4, <1>5

\* The predictions are numbered without gaps, so the next one leaves what the earlier ones refer
\* to as it is.
LEMMA PlaceBetKeepsRows ==
  ASSUME RowsAreGood, NEW u \in Bettors, PlaceBet(u)
  PROVE  RowsAreGood'
<1>. USE DEF RowsAreGood
<1>1. PICK n \in 0..MaxBets : MadeBets = 1..n
  BY DEF BetsAreGood
<1>. DEFINE i == n + 1
            row == [user |-> u, stake |-> 1]
            made == [user |-> u, stake |-> 1, previous |-> Latest(BetsOf(u)), key |-> signer]
<1>2. Cardinality(MadeBets) = n
  BY <1>1, RecordAssumption, FS_Interval
<1>3. /\ market.status = "open" /\ i \in BetIds /\ bet[i] = NoRecord
      /\ altered \cap {"bet", "commitment"} = {}
      /\ bet' = [bet EXCEPT ![i] = row] /\ commitment' = [commitment EXCEPT ![i] = made]
      /\ UNCHANGED <<market, definition, resolution, seal, signer, altered>>
      /\ keys' = keys \cup {signer}
  BY <1>2 DEF PlaceBet, Remember
<1>4. row # NoRecord /\ made # NoRecord
  BY RowsExist
<1>. HIDE DEF i
<1>5. i \in Nat /\ i = n + 1 /\ MadeBets' = 1..i /\ i \in 0..MaxBets
  <2>1. i \in Nat /\ i = n + 1 /\ i \in 0..MaxBets
    BY <1>3, RecordAssumption DEF i, BetIds
  <2>2. MadeBets' = MadeBets \cup {i}
    BY <1>3, <1>4 DEF MadeBets, BetsAreGood
  <2>. QED BY <1>1, <2>1, <2>2
<1>6. ASSUME NEW k \in BetIds, k # i PROVE bet'[k] = bet[k] /\ commitment'[k] = commitment[k]
  <2>1. bet = [j \in BetIds |-> bet[j]] /\ commitment = [j \in BetIds |-> commitment[j]]
    BY DEF BetsAreGood
  <2>2. bet'[k] = bet[k]
    BY <1>3, <1>6, <2>1
  <2>3. commitment'[k] = commitment[k]
    BY <1>3, <1>6, <2>1
  <2>. QED BY <2>2, <2>3
<1>7. bet'[i] = row /\ commitment'[i] = made
  BY <1>3 DEF BetsAreGood
<1>8. 1..n \subseteq BetIds
  BY <1>1 DEF MadeBets
<1>9. EarlierOnes(bet', i) = BetsOf(u)
  <2>1. 1..(i - 1) = 1..n
    BY <1>5
  <2>2. \A k \in 1..n : bet'[k] = bet[k] /\ bet[k] # NoRecord
    BY <1>1, <1>5, <1>6, <1>8 DEF MadeBets
  <2>3. bet'[i].user = u
    BY <1>7
  <2>4. EarlierOnes(bet', i) = {k \in 1..n : bet[k].user = u}
    BY <2>1, <2>2, <2>3 DEF EarlierOnes
  <2>. QED BY <1>1, <2>4 DEF BetsOf
<1>10. ASSUME NEW k \in 1..n PROVE EarlierOnes(bet', k) = EarlierOnes(bet, k)
  <2>1. k # i /\ k \in BetIds /\ 1..(k - 1) \subseteq BetIds /\ i \notin 1..(k - 1)
    BY <1>5, <1>8
  <2>. QED BY <1>6, <2>1 DEF EarlierOnes
<1>11. Latest(BetsOf(u)) \in Nat
  <2>1. BetsOf(u) \subseteq 1..n
    BY <1>1 DEF BetsOf
  <2>. QED BY <2>1, LatestIsGreatest
<1>12. BetsAreGood'
  <2>1. bet' \in [BetIds -> [user : Bettors, stake : {1, 2}] \cup {NoRecord}]
    BY <1>3 DEF BetsAreGood
  <2>2. commitment' \in [BetIds -> [user : Bettors, stake : {1}, previous : Nat, key : keys'] \cup {NoRecord}]
    BY <1>3, <1>11 DEF BetsAreGood
  <2>3. ASSUME NEW k \in BetIds, commitment'[k] # NoRecord
        PROVE  /\ k \in MadeBets' /\ commitment'[k].user = bet'[k].user
               /\ commitment'[k].previous = Latest(EarlierOnes(bet', k))
    <3>1. CASE k = i
      BY <1>5, <1>7, <1>9, <3>1
    <3>2. CASE k # i
      <4>1. k \in 1..n
        BY <1>1, <1>6, <2>3, <3>2 DEF BetsAreGood
      <4>. QED BY <1>5, <1>6, <1>10, <2>3, <3>2, <4>1 DEF BetsAreGood
    <3>. QED BY <3>1, <3>2
  <2>. QED BY <1>5, <2>1, <2>2, <2>3 DEF BetsAreGood
<1>13. MarksOfAlteration'
  <2>1. \A k \in MadeBets' : k = i \/ k \in MadeBets
    BY <1>1, <1>5
  <2>2. \A k \in MadeBets : k \in MadeBets' /\ k \in BetIds /\ k # i
    BY <1>1, <1>5, <1>8
  <2>3. altered' = altered /\ altered # {"commitment"}
    BY <1>3
  <2>. QED BY <1>4, <1>6, <1>7, <2>1, <2>2, <2>3 DEF MarksOfAlteration
<1>14. MarketIsGood'
  BY <1>3 DEF MarketIsGood, MarketRow, KeysAreGood, TitleIsGood, DefinitionIsGood
<1>15. SealIsGood' /\ ResolutionIsGood'
  BY <1>3, UnsealedStays DEF ResolutionIsGood
<1>. QED BY <1>12, <1>13, <1>14, <1>15

\* What makes the leaves of a seal hold, N of them.
LEMMA LeavesHoldWhen ==
  ASSUME NEW b, NEW c, NEW s, NEW N \in Nat, IsList(s.leaves, N),
         N = Cardinality({k \in BetIds : b[k] # NoRecord}),
         \A i \in 1..N :
           /\ s.leaves[i].id \in {k \in BetIds : b[k] # NoRecord} /\ c[s.leaves[i].id] # NoRecord
           /\ s.leaves[i].hash = CommitmentHash(s.leaves[i].id, c[s.leaves[i].id])
           /\ ProofHolds(s.leaves[i].hash, s.leaves[i].proof, s.root),
         Root([i \in 1..N |-> s.leaves[i].hash]) = s.root
  PROVE  LeavesHold(b, c, s)
<1>. DEFINE l == s.leaves
            committed == {k \in BetIds : b[k] # NoRecord}
            M == Cardinality(committed)
            Good(i) == /\ l[i].id \in committed /\ c[l[i].id] # NoRecord
                       /\ l[i].hash = CommitmentHash(l[i].id, c[l[i].id])
                       /\ ProofHolds(l[i].hash, l[i].proof, s.root)
            R(n) == Root([i \in 1..n |-> l[i].hash]) = s.root
<1>1. IsList(l, N) /\ N = M /\ (\A i \in 1..N : Good(i)) /\ R(N)
  OBVIOUS
<1>2. LeafCount(s) = N
  <2>. HIDE DEF l
  <2>. QED BY <1>1 DEF LeafCount, IsList, l
<1>. SUFFICES LeafCount(s) = M /\ (\A i \in 1..LeafCount(s) : Good(i)) /\ R(LeafCount(s))
  BY DEF LeavesHold
<1>. HIDE DEF l, M, Good, R
<1>. QED BY <1>1, <1>2

\* What a market is sealed with: a leaf for each prediction, with a proof that it belongs to the tree.
LEMMA NewSealIsGood ==
  ASSUME RowsAreGood, SealMarket
  PROVE  SealProves' /\ LeavesHold(bet, commitment, seal')
<1>. DEFINE N == Cardinality(MadeBets)
            order == Sequenced
            hashes == [n \in DOMAIN order |-> CommitmentHash(order[n], commitment[order[n]])]
            leaves == NewLeaves
<1>1. N \in Nat /\ DOMAIN order = 1..N /\ \A n \in 1..N : order[n] \in MadeBets
  BY SequencedLists
<1>. HIDE DEF N, order
<1>2. IsList(hashes, N) /\ hashes = [n \in 1..N |-> hashes[n]]
  BY <1>1 DEF IsList
<1>3. leaves = [n \in 1..N |-> [id |-> order[n], hash |-> hashes[n], proof |-> Proof(hashes, n)]]
  BY <1>1 DEF NewLeaves, order
<1>4. \A n \in 1..N : hashes[n] = CommitmentHash(order[n], commitment[order[n]])
  BY <1>1
<1>. HIDE DEF hashes, leaves
<1>5. [n \in DOMAIN leaves |-> leaves[n].hash] = hashes /\ DOMAIN leaves = 1..N
  BY <1>2, <1>3
<1>6. seal'.leaves = leaves /\ seal'.root = Root(hashes) /\ SealableNow
  BY <1>5 DEF SealMarket, leaves
<1>7. \A n \in 1..N : ProofHolds(hashes[n], leaves[n].proof, Root(hashes))
  BY <1>1, <1>2, <1>3, TreeComplete
<1>8. SealProves'
  <2>1. ASSUME NEW f \in [1..N -> {hashes[n] : n \in 1..N}], Root(f) = Root(hashes)
        PROVE  f = hashes
    <3>1. IsList(f, N)
      BY DEF IsList
    <3>. QED BY <1>1, <1>2, <2>1, <3>1, TreeInjective
  <2>2. DOMAIN hashes = 1..N
    BY <1>2
  <2>. QED BY <1>5, <1>6, <1>7, <2>1, <2>2 DEF SealProves
<1>9. \A i \in MadeBets : commitment[i] # NoRecord
  <2>1. CommitmentsHold(bet, commitment)
    BY <1>6 DEF SealableNow, MarketValid
  <2>. QED BY <2>1 DEF CommitmentsHold, MadeBets
<1>10. LeavesHold(bet, commitment, seal')
  <2>1. leaves = [i \in 1..N |-> leaves[i]] /\ N \in Nat
    BY <1>1, <1>3
  <2>2. [i \in 1..N |-> leaves[i].hash] = hashes
    BY <1>5
  <2>3. {k \in BetIds : bet[k] # NoRecord} = MadeBets
    BY DEF MadeBets
  <2>4. ASSUME NEW i \in 1..N
        PROVE  /\ leaves[i].id \in MadeBets /\ commitment[leaves[i].id] # NoRecord
               /\ leaves[i].hash = CommitmentHash(leaves[i].id, commitment[leaves[i].id])
               /\ ProofHolds(leaves[i].hash, leaves[i].proof, Root(hashes))
    <3>1. leaves[i].id = order[i] /\ leaves[i].hash = hashes[i]
      BY <1>3
    <3>2. order[i] \in MadeBets /\ commitment[order[i]] # NoRecord
      BY <1>1, <1>9
    <3>3. hashes[i] = CommitmentHash(order[i], commitment[order[i]])
      BY <1>4
    <3>4. ProofHolds(hashes[i], leaves[i].proof, Root(hashes))
      BY <1>7
    <3>. QED BY <3>1, <3>2, <3>3, <3>4, Zenon
  <2>5. Root([i \in 1..N |-> leaves[i].hash]) = Root(hashes)
    BY <2>2
  <2>6. N = Cardinality({k \in BetIds : bet[k] # NoRecord})
    BY <2>3 DEF N
  <2>7. IsList(leaves, N)
    BY <2>1 DEF IsList
  <2>. HIDE DEF N
  <2>. QED BY <1>1, <1>6, <2>3, <2>4, <2>5, <2>6, <2>7, LeavesHoldWhen, Zenon
<1>. QED BY <1>8, <1>10

LEMMA SealMarketKeepsRows ==
  ASSUME RowsAreGood, SealMarket
  PROVE  RowsAreGood'
<1>. USE DEF RowsAreGood
<1>1. keys \subseteq keys' /\ keys' \subseteq 0..signer' /\ signer \in keys'
  BY DEF SealMarket, Remember, MarketIsGood, KeysAreGood
<1>2. BetsAreGood' /\ MarksOfAlteration' /\ MadeBets' = MadeBets
  BY <1>1, BetsStay DEF SealMarket
<1>3. /\ market' = [market EXCEPT !.status = "sealed", !.sealedAt = 1] /\ market.status = "resolved"
      /\ UNCHANGED <<definition, bet, commitment, resolution, signer, altered>>
      /\ seal' = [title |-> definition.title, result |-> market.result, stamp |-> 1, leaves |-> NewLeaves,
                  root |-> Root([n \in DOMAIN NewLeaves |-> NewLeaves[n].hash]), key |-> signer]
  BY DEF SealMarket
<1>4. MarketIsGood'
  <2>1. /\ MarketRow' /\ market'.title = market.title /\ market'.status = "sealed"
        /\ market'.published = market.published
    BY <1>3 DEF MarketIsGood, MarketRow, Phases
  <2>. QED BY <1>1, <1>2, <1>3, <2>1 DEF MarketIsGood, KeysAreGood, TitleIsGood, DefinitionIsGood
<1>5. /\ market'.status = "sealed" /\ market'.sealedAt = 1
      /\ market'.result = market.result /\ market'.stamp = market.stamp
  BY <1>3 DEF MarketIsGood, MarketRow
<1>6. resolution = [result |-> market.result, stamp |-> market.stamp]
  <2>1. seal = NoRecord /\ SealableNow
    BY DEF SealMarket
  <2>. QED BY <1>3, <2>1 DEF SealableNow, MarketValid, ResolutionHolds
<1>7. ResolutionIsGood'
  BY <1>3, <1>5, <1>6 DEF ResolutionIsGood, Resolved
<1>8. /\ seal' # NoRecord /\ seal'.title = "original" /\ seal'.result = market.result
      /\ seal'.stamp = 1 /\ seal'.key = signer
  BY <1>3, RowsExist DEF MarketIsGood, DefinitionIsGood
<1>9. SealProves' /\ LeavesHold(bet, commitment, seal')
  BY NewSealIsGood
<1>10. SealIsGood'
  BY <1>1, <1>3, <1>5, <1>6, <1>8, <1>9 DEF SealIsGood, SignedBy
<1>. QED BY <1>2, <1>4, <1>7, <1>10

\* An alteration leaves the seal as it is; what the seal says of an intact market no longer counts.
LEMMA AlteredSealStays ==
  ASSUME SealIsGood, ResolutionIsGood, altered = {}, altered' # {}, UNCHANGED <<seal, resolution, keys>>,
         market'.status = market.status, market'.sealedAt = market.sealedAt,
         market'.stamp = market.stamp, altered' # {"result"} => market'.result = market.result,
         market'.result \in Results \/ market'.result = market.result
  PROVE  SealIsGood' /\ ResolutionIsGood'
<1>1. SealProves'
  BY SealProvesStays DEF SealIsGood
<1>2. SealIsGood'
  <2>1. altered # {"result"}
    OBVIOUS
  <2>. QED BY <1>1, <2>1 DEF SealIsGood, SignedBy
<1>3. ResolutionIsGood'
  <2>1. altered # {"result"}
    OBVIOUS
  <2>. QED BY <2>1 DEF ResolutionIsGood, Resolved
<1>. QED BY <1>2, <1>3

LEMMA AlterMarketKeepsRows ==
  ASSUME RowsAreGood, NEW kind \in {"title", "result"}, Alter(kind)
  PROVE  RowsAreGood'
<1>. USE DEF RowsAreGood
<1>1. /\ altered = {} /\ altered' = {kind} /\ market.status # "draft"
      /\ UNCHANGED <<bet, commitment, definition, resolution, seal, signer, keys>>
  BY DEF Alter
<1>2. MadeBets' = MadeBets
  BY <1>1 DEF MadeBets
<1>3. BetsAreGood' /\ MarksOfAlteration'
  <2>1. BetsAreGood'
    BY <1>1, <1>2 DEF BetsAreGood, EarlierOnes
  <2>. QED BY <1>1, <1>2, <2>1 DEF MarksOfAlteration
<1>4. /\ MarketRow'
      /\ market'.status = market.status /\ market'.sealedAt = market.sealedAt
      /\ market'.stamp = market.stamp /\ market'.published = market.published
      /\ market'.result \in Results \/ market'.result = market.result
  <2>1. CASE kind = "title"
    <3>1. market' = [market EXCEPT !.title = "altered"]
      BY <2>1 DEF Alter
    <3>. QED BY <3>1 DEF MarketIsGood, MarketRow, Phases
  <2>2. CASE kind = "result"
    <3>1. PICK r \in Results \ {market.result} : market' = [market EXCEPT !.result = r]
      BY <2>2 DEF Alter
    <3>. QED BY <3>1 DEF MarketIsGood, MarketRow, Phases
  <2>. QED BY <2>1, <2>2
<1>5. /\ market'.title = IF kind = "title" THEN "altered" ELSE "original"
      /\ kind # "result" => market'.result = market.result
  <2>1. CASE kind = "title"
    <3>1. market' = [market EXCEPT !.title = "altered"]
      BY <2>1 DEF Alter
    <3>. QED BY <2>1, <3>1 DEF MarketIsGood, MarketRow
  <2>2. CASE kind = "result"
    <3>1. PICK r \in Results \ {market.result} : market' = [market EXCEPT !.result = r]
      BY <2>2 DEF Alter
    <3>. QED BY <1>1, <2>2, <3>1 DEF MarketIsGood, MarketRow, TitleIsGood
  <2>. QED BY <2>1, <2>2
<1>6. MarketIsGood'
  <2>1. KeysAreGood' /\ DefinitionIsGood'
    BY <1>1, <1>2, <1>4 DEF MarketIsGood, KeysAreGood, DefinitionIsGood
  <2>2. TitleIsGood'
    BY <1>1, <1>5 DEF TitleIsGood, Alterations
  <2>. QED BY <1>4, <2>1, <2>2 DEF MarketIsGood
<1>7. SealIsGood' /\ ResolutionIsGood'
  <2>1. altered' # {"result"} => market'.result = market.result
    BY <1>1, <1>5
  <2>. QED BY <1>1, <1>4, <2>1, AlteredSealStays
<1>. QED BY <1>3, <1>6, <1>7

\* What an alteration of the predictions leaves alone.
LEMMA AlterBetsLeaves ==
  ASSUME RowsAreGood, NEW kind \in {"stake", "commitment", "bet"}, Alter(kind)
  PROVE  /\ altered = {} /\ altered' = {kind} /\ market.status # "draft"
         /\ UNCHANGED <<market, definition, resolution, seal, signer, keys>>
         /\ MarketIsGood' /\ SealIsGood' /\ ResolutionIsGood'
<1>. USE DEF RowsAreGood
<1>1. /\ altered = {} /\ altered' = {kind} /\ market.status # "draft"
      /\ UNCHANGED <<market, definition, resolution, seal, signer, keys>>
  BY DEF Alter
<1>2. MarketIsGood'
  <2>1. MarketRow' /\ KeysAreGood' /\ DefinitionIsGood'
    BY <1>1 DEF MarketIsGood, MarketRow, KeysAreGood, DefinitionIsGood
  <2>2. TitleIsGood'
    BY <1>1 DEF MarketIsGood, TitleIsGood, Alterations
  <2>. QED BY <2>1, <2>2 DEF MarketIsGood
<1>3. SealIsGood' /\ ResolutionIsGood'
  BY <1>1, AlteredSealStays
<1>. QED BY <1>1, <1>2, <1>3

LEMMA AlterStakeKeepsRows ==
  ASSUME RowsAreGood, Alter("stake")
  PROVE  RowsAreGood'
<1>1. altered = {} /\ altered' = {"stake"} /\ keys' = keys /\ MarketIsGood' /\ SealIsGood' /\ ResolutionIsGood'
  BY AlterBetsLeaves
<1>2. PICK i \in MadeBets : bet' = [bet EXCEPT ![i].stake = 2]
  BY DEF Alter
<1>3. commitment' = commitment
  BY DEF Alter
<1>4. i \in BetIds /\ bet[i] \in [user : Bettors, stake : {1, 2}]
  BY DEF RowsAreGood, BetsAreGood, MadeBets
<1>5. bet = [k \in BetIds |-> bet[k]]
  BY DEF RowsAreGood, BetsAreGood
<1>6. \A k \in BetIds : k # i => bet'[k] = bet[k]
  BY <1>2, <1>5
<1>7. bet'[i] = [user |-> bet[i].user, stake |-> 2]
  BY <1>2, <1>4, <1>5
<1>8. bet'[i] # NoRecord
  BY <1>7, RowsExist
<1>9. MadeBets' = MadeBets
  BY <1>4, <1>6, <1>8 DEF MadeBets
<1>10. ASSUME NEW k \in BetIds
       PROVE  /\ (bet'[k] # NoRecord) <=> (bet[k] # NoRecord)
              /\ bet[k] # NoRecord => bet'[k].user = bet[k].user
  BY <1>2, <1>6, <1>7, <1>8 DEF MadeBets
<1>11. BetsAreGood'
  <2>1. bet' \in [BetIds -> [user : Bettors, stake : {1, 2}] \cup {NoRecord}]
    <3>1. bet' = [k \in BetIds |-> bet'[k]]
      BY <1>2, <1>5
    <3>2. \A k \in BetIds : bet'[k] \in [user : Bettors, stake : {1, 2}] \cup {NoRecord}
      BY <1>4, <1>6, <1>7 DEF RowsAreGood, BetsAreGood
    <3>. QED BY <3>1, <3>2
  <2>2. ASSUME NEW k \in BetIds, bet[k] # NoRecord
        PROVE  EarlierOnes(bet', k) = EarlierOnes(bet, k)
    <3>1. 1..(k - 1) \subseteq BetIds
      BY RecordAssumption DEF BetIds
    <3>2. bet'[k].user = bet[k].user
      BY <1>10, <2>2
    <3>. QED BY <1>10, <3>1, <3>2 DEF EarlierOnes
  <2>3. ASSUME NEW k \in BetIds, commitment[k] # NoRecord
        PROVE  /\ k \in MadeBets' /\ commitment[k].user = bet'[k].user
               /\ commitment[k].previous = Latest(EarlierOnes(bet', k))
    <3>1. /\ k \in MadeBets /\ commitment[k].user = bet[k].user
          /\ commitment[k].previous = Latest(EarlierOnes(bet, k))
      BY <2>3 DEF RowsAreGood, BetsAreGood
    <3>2. bet[k] # NoRecord
      BY <3>1 DEF MadeBets
    <3>. QED BY <1>9, <1>10, <2>2, <3>1, <3>2
  <2>. QED BY <1>1, <1>3, <1>9, <2>1, <2>3 DEF RowsAreGood, BetsAreGood
<1>12. MarksOfAlteration'
  <2>1. bet'[i].stake = 2
    BY <1>7
  <2>. QED BY <1>1, <1>3, <1>9, <2>1 DEF RowsAreGood, MarksOfAlteration
<1>. QED BY <1>1, <1>11, <1>12 DEF RowsAreGood

LEMMA AlterCommitmentKeepsRows ==
  ASSUME RowsAreGood, Alter("commitment")
  PROVE  RowsAreGood'
<1>1. /\ altered = {} /\ altered' = {"commitment"} /\ keys' = keys
      /\ MarketIsGood' /\ SealIsGood' /\ ResolutionIsGood'
  BY AlterBetsLeaves
<1>2. PICK i \in MadeBets : commitment' = [commitment EXCEPT ![i] = NoRecord]
  BY DEF Alter
<1>3. bet' = bet
  BY DEF Alter
<1>4. MadeBets' = MadeBets
  BY <1>3 DEF MadeBets
<1>5. i \in BetIds
  BY DEF MadeBets
<1>6. commitment' \in [BetIds -> [user : Bettors, stake : {1}, previous : Nat, key : keys] \cup {NoRecord}]
  BY <1>2 DEF RowsAreGood, BetsAreGood
<1>7. \A k \in BetIds : commitment'[k] = IF k = i THEN NoRecord ELSE commitment[k]
  BY <1>2 DEF RowsAreGood, BetsAreGood
<1>8. BetsAreGood'
  BY <1>1, <1>3, <1>4, <1>6, <1>7 DEF RowsAreGood, BetsAreGood, EarlierOnes
<1>9. MarksOfAlteration'
  BY <1>1, <1>3, <1>4, <1>5, <1>7 DEF RowsAreGood, MarksOfAlteration
<1>. QED BY <1>1, <1>8, <1>9 DEF RowsAreGood

LEMMA AlterBetKeepsRows ==
  ASSUME RowsAreGood, Alter("bet")
  PROVE  RowsAreGood'
<1>1. altered = {} /\ altered' = {"bet"} /\ keys' = keys /\ MarketIsGood' /\ SealIsGood' /\ ResolutionIsGood'
  BY AlterBetsLeaves
<1>. DEFINE i == Latest(MadeBets)
<1>2. /\ MadeBets # {}
      /\ bet' = [bet EXCEPT ![i] = NoRecord] /\ commitment' = [commitment EXCEPT ![i] = NoRecord]
  BY DEF Alter
<1>3. PICK n \in 0..MaxBets : MadeBets = 1..n
  BY DEF RowsAreGood, BetsAreGood
<1>4. i = n /\ n \in 1..MaxBets /\ n - 1 \in 0..MaxBets
  <2>1. n \in Nat /\ MadeBets \subseteq 1..n
    BY <1>3, RecordAssumption
  <2>2. i \in MadeBets /\ \A k \in MadeBets : k <= i
    BY <1>2, <2>1, LatestIsGreatest
  <2>. HIDE DEF i
  <2>. QED BY <1>2, <1>3, <2>1, <2>2, RecordAssumption
<1>. HIDE DEF i
<1>5. \A k \in BetIds : /\ bet'[k] = IF k = n THEN NoRecord ELSE bet[k]
                        /\ commitment'[k] = IF k = n THEN NoRecord ELSE commitment[k]
  <2>1. bet = [j \in BetIds |-> bet[j]] /\ commitment = [j \in BetIds |-> commitment[j]]
    BY DEF RowsAreGood, BetsAreGood
  <2>. QED BY <1>2, <1>4, <2>1
<1>6. MadeBets' = 1..(n - 1)
  <2>1. MadeBets' = MadeBets \ {n}
    BY <1>5 DEF MadeBets
  <2>. QED BY <1>3, <1>4, <2>1
<1>7. ASSUME NEW k \in 1..(n - 1) PROVE EarlierOnes(bet', k) = EarlierOnes(bet, k)
  <2>1. k \in BetIds /\ k # n /\ 1..(k - 1) \subseteq BetIds /\ n \notin 1..(k - 1)
    BY <1>4, RecordAssumption DEF BetIds
  <2>. QED BY <1>5, <2>1 DEF EarlierOnes
<1>8. BetsAreGood'
  <2>1. /\ bet' \in [BetIds -> [user : Bettors, stake : {1, 2}] \cup {NoRecord}]
        /\ commitment' \in [BetIds -> [user : Bettors, stake : {1}, previous : Nat, key : keys] \cup {NoRecord}]
    BY <1>2 DEF RowsAreGood, BetsAreGood
  <2>2. ASSUME NEW k \in BetIds, commitment'[k] # NoRecord
        PROVE  /\ k \in MadeBets' /\ commitment'[k].user = bet'[k].user
               /\ commitment'[k].previous = Latest(EarlierOnes(bet', k))
    <3>1. k # n /\ commitment'[k] = commitment[k] /\ bet'[k] = bet[k]
      BY <1>5, <2>2
    <3>2. /\ k \in MadeBets /\ commitment[k].user = bet[k].user
          /\ commitment[k].previous = Latest(EarlierOnes(bet, k))
      BY <2>2, <3>1 DEF RowsAreGood, BetsAreGood
    <3>3. k \in 1..(n - 1)
      BY <1>3, <1>4, <3>1, <3>2
    <3>. QED BY <1>6, <1>7, <3>1, <3>2, <3>3
  <2>. QED BY <1>1, <1>4, <1>6, <2>1, <2>2 DEF BetsAreGood
<1>9. MarksOfAlteration'
  <2>1. ASSUME NEW k \in MadeBets' PROVE commitment'[k] # NoRecord /\ bet'[k].stake = 1
    <3>1. k \in MadeBets /\ k # n /\ k \in BetIds
      BY <1>3, <1>4, <1>6 DEF MadeBets
    <3>. QED BY <1>1, <1>5, <3>1 DEF RowsAreGood, MarksOfAlteration
  <2>. QED BY <1>1, <2>1 DEF MarksOfAlteration
<1>. QED BY <1>1, <1>8, <1>9 DEF RowsAreGood

LEMMA RowsStep ==
  ASSUME RowsAreGood, [RecordNext]_recordVars
  PROVE  RowsAreGood'
<1>1. ASSUME UNCHANGED <<market, definition, bet, commitment, resolution, seal, signer, keys, altered>>
      PROVE  RowsAreGood'
  <2>1. BetsAreGood' /\ MarksOfAlteration' /\ MadeBets' = MadeBets
    BY <1>1, BetsStay DEF RowsAreGood
  <2>2. MarketIsGood'
    BY <1>1, <2>1 DEF RowsAreGood, MarketIsGood, MarketRow, KeysAreGood, TitleIsGood, DefinitionIsGood
  <2>3. ResolutionIsGood'
    BY <1>1 DEF RowsAreGood, ResolutionIsGood, Resolved
  <2>4. SealProves'
    BY <1>1, SealProvesStays DEF RowsAreGood, SealIsGood
  <2>5. SealIsGood'
    BY <1>1, <2>4 DEF RowsAreGood, SealIsGood, SignedBy
  <2>. QED BY <2>1, <2>2, <2>3, <2>5 DEF RowsAreGood
<1>2. CASE UNCHANGED recordVars
  BY <1>1, <1>2 DEF recordVars
<1>3. CASE Read
  BY <1>1, <1>3 DEF Read
<1>4. ASSUME NEW op, BeginReading(op) PROVE RowsAreGood'
  BY <1>1, <1>4 DEF BeginReading
<1>5. ASSUME NEW kind \in Alterations, Alter(kind) PROVE RowsAreGood'
  BY <1>5, AlterMarketKeepsRows, AlterStakeKeepsRows, AlterCommitmentKeepsRows, AlterBetKeepsRows
  DEF Alterations
<1>. QED
  BY <1>2, <1>3, <1>4, <1>5, PublishKeepsRows, LockForResultKeepsRows, UndoResolutionKeepsRows,
     SealMarketKeepsRows, RestartSignerKeepsRows, PlaceBetKeepsRows, ResolveKeepsRows
  DEF RecordNext

\* What happens while a request reads takes nothing from what it has read: a row that an intact
\* market has shown is still there, unless it is published or resolved meanwhile.
LEMMA HappensKeeps ==
  ASSUME RowsAreGood, ReadingIsGood, NEW event, Happens(event), keys \subseteq keys',
         market.status # "draft" => market'.status # "draft",
         altered' = {} => altered = {},
         altered' = {} /\ event \notin {"publish", "resolve"} =>
           /\ UNCHANGED <<definition, resolution>>
           /\ market.status = "draft" => market'.status = "draft"
           /\ market.status = "sealed" => UNCHANGED <<market, bet, commitment>>
           /\ seal # NoRecord => UNCHANGED seal
  PROVE  ReadingIsGood'
<1>. DEFINE now == IF reading.op = "none" THEN {} ELSE reading.during \cup {event}
<1>1. /\ reading'.op = reading.op /\ reading'.next = reading.next /\ reading'.during = now
      /\ reading'.outcome = reading.outcome /\ reading'.seen = reading.seen
      /\ reading' = [op |-> reading'.op, next |-> reading'.next, during |-> reading'.during,
                     outcome |-> reading'.outcome, seen |-> reading'.seen]
  BY DEF Happens, ReadingIsGood, ReadingShape
<1>2. ReadingShape'
  BY <1>1 DEF ReadingIsGood, ReadingShape
<1>3. reading.op # "none" => event \in now /\ reading.during \subseteq now
  OBVIOUS
<1>. HIDE DEF now
<1>4. ReadIsCurrent'
  BY <1>1, <1>3 DEF ReadIsCurrent
<1>5. ReadStands'
  <2>. SUFFICES ASSUME reading.op \in {"verify", "contract"}, altered' = {},
                       now \cap {"publish", "resolve"} = {}
                PROVE  ReadStands'
    BY <1>1 DEF ReadStands, Untouched
  <2>1. Untouched /\ event \notin {"publish", "resolve"}
    BY <1>3 DEF Untouched
  <2>2. /\ UNCHANGED <<definition, resolution>>
        /\ market.status = "draft" <=> market'.status = "draft"
        /\ market.status = "sealed" => UNCHANGED <<market, bet, commitment>>
        /\ seal # NoRecord => UNCHANGED seal
    BY <2>1
  <2>3. CommitmentsHold(reading.seen.bet, reading.seen.commitment)
          => CommitmentsHold(reading.seen.bet, reading.seen.commitment)'
    BY <1>1 DEF CommitmentsHold, SignedBy
  <2>4. market.status = "sealed" => seal # NoRecord
    BY DEF RowsAreGood, SealIsGood
  <2>5. ReadStands
    BY DEF ReadingIsGood
  <2>6. reading.next > 1 =>
           /\ reading.seen.market.status \in Phases
           /\ reading.seen.market.status = "draft" <=> market'.status = "draft"
           /\ reading.seen.market.status # "draft" => reading.seen.market.published = 1
           /\ reading.seen.market.status = "resolved" => Resolved(reading.seen.market)'
           /\ reading.seen.market.status = "sealed" => market' = reading.seen.market
    BY <1>1, <2>1, <2>2, <2>5 DEF ReadStands, Resolved
  <2>7. reading.next > 2 => reading.seen.definition = definition' /\ reading.seen.title = "original"
    BY <2>1, <2>2, <2>5 DEF ReadStands
  <2>8. reading.next > 3 =>
           /\ CommitmentsHold(reading.seen.bet, reading.seen.commitment)'
           /\ reading.seen.market.status = "sealed" =>
                reading.seen.bet = bet' /\ reading.seen.commitment = commitment'
    <3>. SUFFICES ASSUME reading.next > 3
                  PROVE  /\ CommitmentsHold(reading.seen.bet, reading.seen.commitment)
                         /\ reading.seen.market.status = "sealed" =>
                              reading.seen.bet = bet' /\ reading.seen.commitment = commitment'
      BY <2>3
    <3>. QED BY <2>1, <2>2, <2>5, <2>6 DEF ReadStands, ReadingIsGood, ReadingShape
  <2>9. reading.next > 4 =>
           /\ reading.seen.seal \in {NoRecord, seal'}
           /\ reading.seen.market.status = "sealed" => reading.seen.seal = seal'
    BY <2>1, <2>2, <2>4, <2>5 DEF ReadStands, ReadingIsGood, ReadingShape
  <2>. QED BY <1>1, <2>6, <2>7, <2>8, <2>9 DEF ReadStands
<1>6. NoFalseSuspicion'
  BY <1>1, <1>3 DEF ReadingIsGood, NoFalseSuspicion, Answered
<1>7. AlterationFound'
  BY <1>1, <1>3 DEF AlterationFound, Answered
<1>. QED BY <1>2, <1>4, <1>5, <1>6, <1>7 DEF ReadingIsGood

\* A new request has read nothing.
LEMMA BeginReadingKeeps ==
  ASSUME NEW op \in {"verify", "contract"}, BeginReading(op)
  PROVE  ReadingIsGood'
<1>1. reading' = [op |-> op, next |-> 1, during |-> {}, outcome |-> "none",
                  seen |-> [what \in Shown |-> NoRecord]]
  BY DEF BeginReading
<1>2. /\ reading'.op = op /\ reading'.next = 1 /\ reading'.during = {}
      /\ reading'.outcome = "none" /\ reading'.seen = [what \in Shown |-> NoRecord]
  BY <1>1
<1>3. reading'.op = "contract" => market'.status # "draft"
  BY <1>2 DEF BeginReading
<1>4. ReadingShape'
  <2>1. reading'.seen = [what \in Shown |-> reading'.seen[what]]
    BY <1>2
  <2>. QED BY <1>1, <1>2, <1>3, <2>1 DEF ReadingShape
<1>. QED BY <1>2, <1>4 DEF ReadingIsGood, ReadIsCurrent, ReadStands, NoFalseSuspicion, AlterationFound, Answered

LEMMA VerifyAnswer ==
  ASSUME RowsAreGood, ReadingIsGood, reading.op = "verify", reading.next = 5,
         NEW o, o = MarketValid(reading.seen.market, reading.seen.definition, reading.seen.title,
                                reading.seen.bet, reading.seen.commitment, resolution, reading.seen.seal)
  PROVE  /\ Untouched => o \in {"pending", "verified"}
         /\ reading.during = {} /\ altered # {} /\ o = "verified" =>
              \/ altered = {"bet"} /\ (seal # NoRecord => LeafCount(seal) = Cardinality(MadeBets))
              \/ altered = {"result"} /\ market.status \notin {"resolved", "sealed"}
              \/ altered = {"result"} /\ Resolved(market)
<1>. DEFINE s == reading.seen
<1>1. ASSUME Untouched PROVE o \in {"pending", "verified"}
  <2>1. /\ s.market.status = "draft" <=> market.status = "draft"
        /\ s.market.status # "draft" => s.market.published = 1
        /\ s.market.status = "resolved" => Resolved(s.market)
        /\ s.market.status = "sealed" => market = s.market
        /\ s.definition = definition /\ s.title = "original"
        /\ CommitmentsHold(s.bet, s.commitment)
        /\ s.market.status = "sealed" => s.bet = bet /\ s.commitment = commitment /\ s.seal = seal
        /\ s.seal \in {NoRecord, seal}
    BY <1>1 DEF ReadingIsGood, ReadStands
  <2>. HIDE DEF s
  <2>2. CASE market.status = "draft"
    BY <2>1, <2>2 DEF MarketValid, RowsAreGood, MarketIsGood, DefinitionIsGood, s
  <2>3. CASE market.status # "draft"
    <3>1. DefinitionHolds(s.market, s.definition, s.title)
      BY <2>1, <2>3, RowsExist DEF DefinitionHolds, SignedBy, RowsAreGood, MarketIsGood, DefinitionIsGood
    <3>2. s.market.status = "resolved" =>
            IF s.seal = NoRecord THEN ResolutionHolds(s.market, resolution) ELSE s.seal.result = s.market.result
      <4>. SUFFICES ASSUME s.market.status = "resolved"
                    PROVE  IF s.seal = NoRecord THEN ResolutionHolds(s.market, resolution)
                           ELSE s.seal.result = s.market.result
        OBVIOUS
      <4>1. resolution = [result |-> s.market.result, stamp |-> s.market.stamp] /\ resolution # NoRecord
        BY <2>1, RowsExist DEF Resolved
      <4>2. CASE s.seal = NoRecord
        BY <4>1, <4>2 DEF ResolutionHolds
      <4>3. CASE s.seal # NoRecord
        <5>1. s.seal = seal /\ seal # NoRecord
          BY <2>1, <4>3
        <5>2. resolution = [result |-> seal.result, stamp |-> market.stamp]
          BY <5>1 DEF RowsAreGood, SealIsGood
        <5>3. resolution.result = seal.result /\ resolution.result = s.market.result
          BY <4>1, <5>2
        <5>. QED BY <4>3, <5>1, <5>3
      <4>. QED BY <4>2, <4>3
    <3>3. s.market.status = "sealed" =>
            SealHolds(s.market, s.definition, s.seal) /\ LeavesHold(s.bet, s.commitment, s.seal)
      <4>. SUFFICES ASSUME s.market.status = "sealed"
                    PROVE  SealHolds(s.market, s.definition, s.seal) /\ LeavesHold(s.bet, s.commitment, s.seal)
        OBVIOUS
      <4>1. /\ s.market = market /\ market.status = "sealed" /\ s.seal = seal
            /\ s.bet = bet /\ s.commitment = commitment /\ s.definition = definition
        BY <2>1
      <4>2. /\ seal # NoRecord /\ SignedBy(seal) /\ seal.title = "original" /\ seal.stamp = 1
            /\ market.sealedAt = 1 /\ market.result = seal.result /\ LeavesHold(bet, commitment, seal)
        BY <1>1, <4>1 DEF Untouched, RowsAreGood, SealIsGood
      <4>3. definition.title = "original"
        BY <2>3 DEF RowsAreGood, MarketIsGood, DefinitionIsGood
      <4>. QED BY <4>1, <4>2, <4>3 DEF SealHolds
    <3>. QED BY <2>1, <3>1, <3>2, <3>3 DEF MarketValid, s
  <2>. QED BY <2>2, <2>3
<1>2. ASSUME reading.during = {}, altered # {}, o = "verified"
      PROVE  \/ altered = {"bet"} /\ (seal # NoRecord => LeafCount(seal) = Cardinality(MadeBets))
             \/ altered = {"result"} /\ market.status \notin {"resolved", "sealed"}
             \/ altered = {"result"} /\ Resolved(market)
  <2>1. /\ s.market = market /\ s.definition = definition /\ s.title = market.title
        /\ s.bet = bet /\ s.commitment = commitment /\ s.seal = seal
    BY <1>2 DEF ReadingIsGood, ReadIsCurrent
  <2>2. o = MarketValid(market, definition, market.title, bet, commitment, resolution, seal)
    BY <2>1
  <2>. HIDE DEF s
  <2>3. /\ DefinitionHolds(market, definition, market.title) /\ CommitmentsHold(bet, commitment)
        /\ market.status = "resolved" =>
             IF seal = NoRecord THEN ResolutionHolds(market, resolution) ELSE seal.result = market.result
        /\ market.status = "sealed" => SealHolds(market, definition, seal) /\ LeavesHold(bet, commitment, seal)
    BY <1>2, <2>2 DEF MarketValid
  <2>4. market.status # "draft"
    BY <1>2 DEF RowsAreGood, MarketIsGood, DefinitionIsGood
  <2>5. altered # {"title"}
    <3>1. definition.title = market.title /\ definition.title = "original"
      BY <2>3, <2>4 DEF DefinitionHolds, RowsAreGood, MarketIsGood, DefinitionIsGood
    <3>. QED BY <3>1 DEF RowsAreGood, MarketIsGood, TitleIsGood
  <2>6. altered # {"commitment"}
    BY <2>3 DEF CommitmentsHold, MadeBets, RowsAreGood, MarksOfAlteration
  <2>7. altered # {"stake"}
    <3>. SUFFICES ASSUME altered = {"stake"} PROVE FALSE
      OBVIOUS
    <3>1. PICK i \in MadeBets : bet[i].stake = 2
      BY DEF RowsAreGood, MarksOfAlteration
    <3>2. i \in BetIds /\ bet[i] # NoRecord
      BY DEF MadeBets
    <3>3. commitment[i] # NoRecord /\ commitment[i].stake = bet[i].stake
      BY <2>3, <3>2 DEF CommitmentsHold
    <3>4. commitment[i].stake = 1
      BY <3>2, <3>3 DEF RowsAreGood, BetsAreGood
    <3>. QED BY <3>1, <3>3, <3>4
  <2>8. altered = {"bet"} => (seal # NoRecord => LeafCount(seal) = Cardinality(MadeBets))
    <3>. SUFFICES ASSUME seal # NoRecord PROVE LeafCount(seal) = Cardinality(MadeBets)
      OBVIOUS
    <3>1. market.status = "sealed"
      BY DEF RowsAreGood, SealIsGood
    <3>2. LeavesHold(bet, commitment, seal)
      BY <2>3, <3>1
    <3>. QED BY <3>2 DEF LeavesHold, MadeBets
  <2>9. altered = {"result"} => market.status \notin {"resolved", "sealed"} \/ Resolved(market)
    <3>1. CASE market.status = "resolved"
      <4>1. seal = NoRecord
        BY <3>1 DEF RowsAreGood, SealIsGood
      <4>. QED BY <2>3, <3>1, <4>1 DEF ResolutionHolds, Resolved
    <3>2. CASE market.status = "sealed"
      BY <2>3, <3>2 DEF SealHolds, Resolved, RowsAreGood, SealIsGood
    <3>. QED BY <3>1, <3>2
  <2>10. \E k \in Alterations : altered = {k}
    BY <1>2 DEF RowsAreGood, MarketIsGood, TitleIsGood
  <2>. QED BY <2>5, <2>6, <2>7, <2>8, <2>9, <2>10 DEF Alterations
<1>. QED BY <1>1, <1>2

LEMMA ContractAnswer ==
  ASSUME RowsAreGood, ReadingIsGood, reading.op = "contract", reading.next = 3,
         NEW o, o = ContractStatus(reading.seen.market, reading.seen.definition, seal)
  PROVE  /\ Untouched => o \notin {"failed", "verification_failed", "legacy_unregistered"}
         /\ reading.during = {} => o # "verified"
<1>. DEFINE s == reading.seen
<1>1. ASSUME Untouched PROVE o \notin {"failed", "verification_failed", "legacy_unregistered"}
  <2>1. /\ s.market.status \in Phases
        /\ s.market.status = "sealed" => market = s.market
        /\ s.definition = definition
    BY <1>1 DEF ReadingIsGood, ReadStands
  <2>2. definition # NoRecord
    BY RowsExist DEF ReadingIsGood, ReadingShape, RowsAreGood, MarketIsGood, DefinitionIsGood
  <2>3. s.market.status = "sealed" => seal # NoRecord
    BY <2>1 DEF RowsAreGood, SealIsGood
  <2>. QED BY <2>1, <2>2, <2>3 DEF ContractStatus, Phases
<1>2. ASSUME reading.during = {} PROVE o # "verified"
  <2>1. s.market = market
    BY <1>2 DEF ReadingIsGood, ReadIsCurrent
  <2>. QED BY <2>1 DEF ContractStatus, Phases, RowsAreGood, MarketIsGood, MarketRow
<1>. QED BY <1>1, <1>2

\* One statement of a request, by its place.
LEMMA ReadByPlace ==
  ASSUME ReadingIsGood, Read
  PROVE  /\ reading' = [op |-> reading'.op, next |-> reading'.next, during |-> reading'.during,
                        outcome |-> reading'.outcome, seen |-> reading'.seen]
         /\ reading'.during = reading.during /\ reading.op \in {"verify", "contract"}
         /\ reading.next = 1 =>
              /\ reading'.op = reading.op /\ reading'.next = 2
              /\ reading'.seen = [reading.seen EXCEPT !.market = market]
         /\ reading.next = 2 =>
              /\ reading'.op = reading.op /\ reading'.next = 3
              /\ reading'.seen = [reading.seen EXCEPT !.definition = definition, !.title = market.title]
         /\ reading.op = "verify" /\ reading.next = 3 =>
              /\ reading'.op = "verify" /\ reading'.next = 4
              /\ reading'.seen = [reading.seen EXCEPT !.bet = bet, !.commitment = commitment]
         /\ reading.op = "verify" /\ reading.next = 4 =>
              /\ reading'.op = "verify" /\ reading'.next = 5
              /\ reading'.seen = [reading.seen EXCEPT !.seal = seal]
         /\ reading.op = "verify" /\ reading.next = 5 =>
              /\ reading'.op = "done"
              /\ reading'.outcome =
                   MarketValid(reading.seen.market, reading.seen.definition, reading.seen.title,
                               reading.seen.bet, reading.seen.commitment, resolution, reading.seen.seal)
         /\ reading.op = "contract" /\ reading.next = 3 =>
              /\ reading'.op = "done"
              /\ reading'.outcome = ContractStatus(reading.seen.market, reading.seen.definition, seal)
<1>. DEFINE todo == Statements(reading.op)
            s == reading.seen
            Seen(what) == [s EXCEPT
                   !.market = IF what = "market" THEN market ELSE @,
                   !.definition = IF what = "definition" THEN definition ELSE @,
                   !.title = IF what = "definition" THEN market.title ELSE @,
                   !.bet = IF what = "bets" THEN bet ELSE @,
                   !.commitment = IF what = "bets" THEN commitment ELSE @,
                   !.seal = IF what = "seal" THEN seal ELSE @,
                   !.resolution = IF what = "resolution" THEN resolution ELSE @]
            Told(seen) == IF reading.op = "verify"
                   THEN MarketValid(seen.market, seen.definition, seen.title, seen.bet,
                                    seen.commitment, seen.resolution, seen.seal)
                   ELSE ContractStatus(seen.market, seen.definition, seen.seal)
<1>1. /\ reading.op \in {"verify", "contract"}
      /\ reading' = IF reading.next < StatementCount(reading.op)
                    THEN [reading EXCEPT !.next = @ + 1, !.seen = Seen(todo[reading.next])]
                    ELSE [reading EXCEPT !.op = "done", !.outcome = Told(Seen(todo[reading.next])), !.seen = NoRecord]
  BY DEF Read
<1>2. s = [what \in Shown |-> s[what]]
  BY <1>1 DEF ReadingIsGood, ReadingShape
<1>3. /\ reading.op = "verify" => /\ todo = <<"market", "definition", "bets", "seal", "resolution">>
                                  /\ StatementCount(reading.op) = 5 /\ reading.next \in 1..5
      /\ reading.op = "contract" => /\ todo = <<"market", "definition", "seal">>
                                    /\ StatementCount(reading.op) = 3 /\ reading.next \in 1..3
  BY DEF Statements, StatementCount, ReadingIsGood, ReadingShape
<1>4. reading = [op |-> reading.op, next |-> reading.next, during |-> reading.during,
                 outcome |-> reading.outcome, seen |-> reading.seen]
  BY DEF ReadingIsGood, ReadingShape
<1>5. /\ Seen("market") = [s EXCEPT !.market = market]
      /\ Seen("definition") = [s EXCEPT !.definition = definition, !.title = market.title]
      /\ Seen("bets") = [s EXCEPT !.bet = bet, !.commitment = commitment]
      /\ Seen("seal") = [s EXCEPT !.seal = seal]
      /\ Seen("resolution") = [s EXCEPT !.resolution = resolution]
  BY <1>2 DEF Shown
<1>6. Told(Seen("resolution")) =
        IF reading.op = "verify"
        THEN MarketValid(s.market, s.definition, s.title, s.bet, s.commitment, resolution, s.seal)
        ELSE ContractStatus(s.market, s.definition, s.seal)
  <2>. DEFINE r == [s EXCEPT !.resolution = resolution]
  <2>1. /\ r.market = s.market /\ r.definition = s.definition /\ r.title = s.title /\ r.bet = s.bet
        /\ r.commitment = s.commitment /\ r.seal = s.seal /\ r.resolution = resolution
    BY <1>2 DEF Shown
  <2>. HIDE DEF s
  <2>2. Seen("resolution") = r
    BY <1>5
  <2>. HIDE DEF r, Seen
  <2>. QED BY <2>1, <2>2, Zenon
<1>7. reading.op = "contract" => Told(Seen("seal")) = ContractStatus(s.market, s.definition, seal)
  <2>. DEFINE r == [s EXCEPT !.seal = seal]
  <2>1. r.market = s.market /\ r.definition = s.definition /\ r.seal = seal
    BY <1>2 DEF Shown
  <2>2. Seen("seal") = r
    BY <1>5
  <2>. HIDE DEF r, Seen, s
  <2>. QED BY <2>1, <2>2
<1>. HIDE DEF Seen, Told, todo
<1>8. ASSUME reading.next < StatementCount(reading.op)
      PROVE  /\ reading'.op = reading.op /\ reading'.next = reading.next + 1
             /\ reading'.during = reading.during /\ reading'.outcome = reading.outcome
             /\ reading'.seen = Seen(todo[reading.next])
             /\ reading' = [op |-> reading'.op, next |-> reading'.next, during |-> reading'.during,
                            outcome |-> reading'.outcome, seen |-> reading'.seen]
  BY <1>1, <1>4, <1>8
<1>9. ASSUME ~ (reading.next < StatementCount(reading.op))
      PROVE  /\ reading'.op = "done" /\ reading'.during = reading.during
             /\ reading'.outcome = Told(Seen(todo[reading.next]))
             /\ reading' = [op |-> reading'.op, next |-> reading'.next, during |-> reading'.during,
                            outcome |-> reading'.outcome, seen |-> reading'.seen]
  BY <1>1, <1>4, <1>9
<1>10. CASE reading.op = "verify"
  <2>. USE <1>3, <1>10
  <2>1. CASE reading.next = 1
    BY <1>5, <1>8, <2>1
  <2>2. CASE reading.next = 2
    BY <1>5, <1>8, <2>2
  <2>3. CASE reading.next = 3
    BY <1>5, <1>8, <2>3
  <2>4. CASE reading.next = 4
    <3>1. todo[reading.next] = "seal"
      BY <2>4
    <3>2. /\ reading'.op = "verify" /\ reading'.next = 5 /\ reading'.during = reading.during
          /\ reading'.seen = [s EXCEPT !.seal = seal]
          /\ reading' = [op |-> reading'.op, next |-> reading'.next, during |-> reading'.during,
                         outcome |-> reading'.outcome, seen |-> reading'.seen]
      BY <1>5, <1>8, <2>4, <3>1
    <3>. QED BY <2>4, <3>2
  <2>5. CASE reading.next = 5
    <3>0. StatementCount(reading.op) = 5 /\ ~ (reading.next < 5)
      BY <2>5
    <3>1. todo[reading.next] = "resolution" /\ ~ (reading.next < StatementCount(reading.op))
      <4>1. todo[reading.next] = "resolution"
        BY <2>5
      <4>. QED BY <3>0, <4>1, Zenon
    <3>2. /\ reading'.outcome = Told(Seen("resolution")) /\ reading'.op = "done"
          /\ reading'.during = reading.during
          /\ reading' = [op |-> reading'.op, next |-> reading'.next, during |-> reading'.during,
                         outcome |-> reading'.outcome, seen |-> reading'.seen]
      BY <1>9, <3>1
    <3>. QED BY <1>6, <2>5, <3>2
  <2>. QED BY <2>1, <2>2, <2>3, <2>4, <2>5
<1>11. CASE reading.op = "contract"
  <2>. USE <1>3, <1>11
  <2>1. CASE reading.next = 1
    BY <1>5, <1>8, <2>1
  <2>2. CASE reading.next = 2
    BY <1>5, <1>8, <2>2
  <2>3. CASE reading.next = 3
    <3>0. StatementCount(reading.op) = 3 /\ ~ (reading.next < 3)
      BY <2>3
    <3>1. todo[reading.next] = "seal" /\ ~ (reading.next < StatementCount(reading.op))
      <4>1. todo[reading.next] = "seal"
        BY <2>3
      <4>. QED BY <3>0, <4>1, Zenon
    <3>2. /\ reading'.outcome = Told(Seen("seal")) /\ reading'.op = "done"
          /\ reading'.during = reading.during
          /\ reading' = [op |-> reading'.op, next |-> reading'.next, during |-> reading'.during,
                         outcome |-> reading'.outcome, seen |-> reading'.seen]
      BY <1>9, <3>1
    <3>. QED BY <1>7, <2>3, <3>2
  <2>. QED BY <2>1, <2>2, <2>3
<1>. QED BY <1>1, <1>10, <1>11

\* An answer is given: nothing is being read any more.
LEMMA AnswerKeeps ==
  ASSUME reading' = [op |-> reading'.op, next |-> reading'.next, during |-> reading'.during,
                     outcome |-> reading'.outcome, seen |-> reading'.seen],
         reading'.op = "done", NoFalseSuspicion', AlterationFound'
  PROVE  ReadingIsGood'
BY DEF ReadingIsGood, ReadingShape, ReadIsCurrent, ReadStands

LEMMA ReadKeeps ==
  ASSUME RowsAreGood, ReadingIsGood, Read
  PROVE  ReadingIsGood'
<1>. DEFINE s == reading.seen
            s2 == reading'.seen
<1>1. UNCHANGED <<market, definition, bet, commitment, resolution, seal, signer, keys, altered>>
  BY DEF Read
<1>2. /\ reading' = [op |-> reading'.op, next |-> reading'.next, during |-> reading'.during,
                     outcome |-> reading'.outcome, seen |-> reading'.seen]
      /\ reading'.during = reading.during /\ reading.op \in {"verify", "contract"}
  BY ReadByPlace
<1>3. s = [what \in Shown |-> s[what]]
  BY <1>2 DEF ReadingIsGood, ReadingShape
<1>4. ReadIsCurrent /\ ReadStands
  BY DEF ReadingIsGood
<1>5. MadeBets' = MadeBets
  BY <1>1 DEF MadeBets
<1>6. ASSUME reading'.op = reading.op, reading'.next = reading.next + 1, reading.next \in 1..4,
             reading.op = "contract" => reading'.next \in 1..3,
             s2 = [what \in Shown |-> s2[what]], ReadIsCurrent', ReadStands'
      PROVE  ReadingIsGood'
  <2>1. ReadingShape'
    BY <1>1, <1>2, <1>6 DEF ReadingIsGood, ReadingShape
  <2>. QED BY <1>2, <1>6, <2>1 DEF ReadingIsGood, NoFalseSuspicion, AlterationFound, Answered
<1>7. CASE reading.next = 1
  <2>1. reading'.op = reading.op /\ reading'.next = 2 /\ s2 = [s EXCEPT !.market = market]
    BY <1>7, ReadByPlace
  <2>2. s2 = [what \in Shown |-> s2[what]] /\ s2.market = market
    BY <1>3, <2>1 DEF Shown
  <2>3. ReadIsCurrent'
    BY <1>1, <2>1, <2>2 DEF ReadIsCurrent
  <2>4. Untouched => Untouched /\ market.status \in Phases
                     /\ (market.status # "draft" => market.published = 1)
                     /\ (market.status = "resolved" => Resolved(market))
    BY DEF RowsAreGood, MarketIsGood, MarketRow, DefinitionIsGood, ResolutionIsGood, Untouched
  <2>5. ReadStands'
    BY <1>1, <1>2, <2>1, <2>2, <2>4 DEF ReadStands, Untouched, Resolved
  <2>. QED BY <1>6, <1>7, <2>1, <2>2, <2>3, <2>5
<1>8. CASE reading.next = 2
  <2>1. /\ reading'.op = reading.op /\ reading'.next = 3
        /\ s2 = [s EXCEPT !.definition = definition, !.title = market.title]
    BY <1>8, ReadByPlace
  <2>2. /\ s2 = [what \in Shown |-> s2[what]] /\ s2.market = s.market
        /\ s2.definition = definition /\ s2.title = market.title
    BY <1>3, <2>1 DEF Shown
  <2>3. ReadIsCurrent'
    BY <1>1, <1>2, <1>4, <1>8, <2>1, <2>2 DEF ReadIsCurrent
  <2>4. altered = {} => market.title = "original"
    BY DEF RowsAreGood, MarketIsGood, TitleIsGood
  <2>5. ReadStands'
    BY <1>1, <1>2, <1>4, <1>8, <2>1, <2>2, <2>4 DEF ReadStands, Untouched, Resolved
  <2>. QED BY <1>6, <1>8, <2>1, <2>2, <2>3, <2>5
<1>9. CASE reading.op = "verify" /\ reading.next = 3
  <2>1. /\ reading'.op = "verify" /\ reading'.next = 4
        /\ s2 = [s EXCEPT !.bet = bet, !.commitment = commitment]
    BY <1>9, ReadByPlace
  <2>2. /\ s2 = [what \in Shown |-> s2[what]] /\ s2.market = s.market /\ s2.definition = s.definition
        /\ s2.title = s.title /\ s2.bet = bet /\ s2.commitment = commitment
    BY <1>3, <2>1 DEF Shown
  <2>3. ReadIsCurrent'
    BY <1>1, <1>2, <1>4, <1>9, <2>1, <2>2 DEF ReadIsCurrent
  <2>4. altered = {} => CommitmentsHold(reading.seen.bet, reading.seen.commitment)'
    <3>. SUFFICES ASSUME altered = {} PROVE CommitmentsHold(reading.seen.bet, reading.seen.commitment)'
      OBVIOUS
    <3>1. ASSUME NEW i \in BetIds, bet[i] # NoRecord
          PROVE  /\ commitment[i] # NoRecord /\ commitment[i].key \in keys
                 /\ commitment[i].user = bet[i].user /\ commitment[i].stake = bet[i].stake
                 /\ commitment[i].previous = Latest(EarlierOnes(bet, i))
      <4>1. i \in MadeBets
        BY <3>1 DEF MadeBets
      <4>2. commitment[i] # NoRecord /\ bet[i].stake = 1
        BY <4>1 DEF RowsAreGood, MarksOfAlteration
      <4>. QED BY <4>2 DEF RowsAreGood, BetsAreGood
    <3>2. /\ reading'.seen.bet = bet /\ reading'.seen.commitment = commitment /\ keys' = keys
      BY <1>1, <2>2
    <3>. QED BY <3>1, <3>2 DEF CommitmentsHold, SignedBy, EarlierOnes
  <2>5. ReadStands'
    <3>. SUFFICES ASSUME Untouched' PROVE ReadStands'
      BY DEF ReadStands
    <3>1. Untouched
      BY <1>1, <1>2 DEF Untouched
    <3>2. CommitmentsHold(reading.seen.bet, reading.seen.commitment)'
      BY <2>4, <3>1 DEF Untouched
    <3>. QED BY <1>1, <1>2, <1>4, <1>9, <2>1, <2>2, <3>1, <3>2 DEF ReadStands, Resolved
  <2>. QED BY <1>6, <1>9, <2>1, <2>2, <2>3, <2>5
<1>10. CASE reading.op = "verify" /\ reading.next = 4
  <2>1. reading'.op = "verify" /\ reading'.next = 5 /\ s2 = [s EXCEPT !.seal = seal]
    BY <1>10, ReadByPlace
  <2>2. /\ s2 = [what \in Shown |-> s2[what]] /\ s2.market = s.market /\ s2.definition = s.definition
        /\ s2.title = s.title /\ s2.bet = s.bet /\ s2.commitment = s.commitment /\ s2.seal = seal
    BY <1>3, <2>1 DEF Shown
  <2>3. ReadIsCurrent'
    BY <1>1, <1>2, <1>4, <1>10, <2>1, <2>2 DEF ReadIsCurrent
  <2>5. ReadStands'
    <3>. SUFFICES ASSUME Untouched' PROVE ReadStands'
      BY DEF ReadStands
    <3>1. Untouched
      BY <1>1, <1>2 DEF Untouched
    <3>2. CommitmentsHold(reading.seen.bet, reading.seen.commitment)'
      BY <1>1, <1>4, <1>10, <2>2, <3>1 DEF ReadStands, CommitmentsHold, SignedBy
    <3>. QED BY <1>1, <1>2, <1>4, <1>10, <2>1, <2>2, <3>1, <3>2 DEF ReadStands, Resolved
  <2>. QED BY <1>6, <1>10, <2>1, <2>2, <2>3, <2>5
<1>11. CASE reading.op = "verify" /\ reading.next = 5
  <2>1. /\ reading'.op = "done"
        /\ reading'.outcome =
             MarketValid(s.market, s.definition, s.title, s.bet, s.commitment, resolution, s.seal)
    BY <1>11, ReadByPlace
  <2>. DEFINE o == reading'.outcome
  <2>2. /\ Untouched => o \in {"pending", "verified"}
        /\ reading.during = {} /\ altered # {} /\ o = "verified" =>
             \/ altered = {"bet"} /\ (seal # NoRecord => LeafCount(seal) = Cardinality(MadeBets))
             \/ altered = {"result"} /\ market.status \notin {"resolved", "sealed"}
             \/ altered = {"result"} /\ Resolved(market)
    BY <1>11, <2>1, VerifyAnswer
  <2>3. NoFalseSuspicion'
    BY <1>1, <1>2, <2>2 DEF NoFalseSuspicion, Answered, Untouched
  <2>4. AlterationFound'
    BY <1>1, <1>2, <1>5, <2>2 DEF AlterationFound, Answered, Resolved
  <2>. QED BY <1>2, <2>1, <2>3, <2>4, AnswerKeeps
<1>12. CASE reading.op = "contract" /\ reading.next = 3
  <2>1. reading'.op = "done" /\ reading'.outcome = ContractStatus(s.market, s.definition, seal)
    BY <1>12, ReadByPlace
  <2>. DEFINE o == reading'.outcome
  <2>2. /\ Untouched => o \notin {"failed", "verification_failed", "legacy_unregistered"}
        /\ reading.during = {} => o # "verified"
    BY <1>12, <2>1, ContractAnswer
  <2>3. NoFalseSuspicion'
    BY <1>1, <1>2, <2>2 DEF NoFalseSuspicion, Answered, Untouched
  <2>4. AlterationFound'
    BY <1>1, <1>2, <2>2 DEF AlterationFound, Answered
  <2>. QED BY <1>2, <2>1, <2>3, <2>4, AnswerKeeps
<1>. QED
  BY <1>2, <1>7, <1>8, <1>9, <1>10, <1>11, <1>12 DEF ReadingIsGood, ReadingShape

RecordInv == RowsAreGood /\ ReadingIsGood

LEMMA ReadingStep ==
  ASSUME RecordInv, [RecordNext]_recordVars, RowsAreGood'
  PROVE  ReadingIsGood'
<1>. USE DEF RecordInv
<1>1. ASSUME UNCHANGED <<market, definition, bet, commitment, resolution, seal, keys, altered, reading>>
      PROVE  ReadingIsGood'
  <2>1. ReadingShape' /\ ReadIsCurrent'
    BY <1>1 DEF ReadingIsGood, ReadingShape, ReadIsCurrent
  <2>2. ReadStands'
    BY <1>1 DEF ReadingIsGood, ReadStands, Untouched, Resolved, CommitmentsHold, SignedBy
  <2>3. NoFalseSuspicion'
    BY <1>1 DEF ReadingIsGood, NoFalseSuspicion, Answered
  <2>4. AlterationFound'
    BY <1>1 DEF ReadingIsGood, AlterationFound, Answered, MadeBets
  <2>. QED BY <2>1, <2>2, <2>3, <2>4 DEF ReadingIsGood
<1>2. CASE UNCHANGED recordVars
  BY <1>1, <1>2 DEF recordVars
<1>3. CASE RestartSigner
  BY <1>1, <1>3 DEF RestartSigner
<1>4. CASE Read
  BY <1>4, ReadKeeps
<1>5. ASSUME NEW op \in {"verify", "contract"}, BeginReading(op) PROVE ReadingIsGood'
  BY <1>5, BeginReadingKeeps
<1>6. market = [market EXCEPT !.status = market.status]
  BY DEF RowsAreGood, MarketIsGood, MarketRow
<1>7. CASE Publish
  <2>1. market'.status = "open"
    BY <1>6, <1>7 DEF Publish
  <2>. QED BY <1>7, <2>1, HappensKeeps DEF Publish, Remember
<1>8. CASE LockForResult
  <2>1. market'.status = "locked"
    BY <1>6, <1>8 DEF LockForResult
  <2>. QED BY <1>8, <2>1, HappensKeeps DEF LockForResult
<1>9. ASSUME NEW result \in Results, Resolve(result) PROVE ReadingIsGood'
  <2>1. market'.status = "resolved"
    BY <1>6, <1>9 DEF Resolve
  <2>. QED BY <1>9, <2>1, HappensKeeps DEF Resolve
<1>10. CASE UndoResolution
  <2>1. market'.status = "locked"
    BY <1>6, <1>10 DEF UndoResolution
  <2>. QED BY <1>10, <2>1, HappensKeeps DEF UndoResolution
<1>11. CASE SealMarket
  <2>1. market'.status = "sealed"
    BY <1>6, <1>11 DEF SealMarket
  <2>. QED BY <1>11, <2>1, HappensKeeps DEF SealMarket, Remember
<1>12. ASSUME NEW u \in Bettors, PlaceBet(u) PROVE ReadingIsGood'
  BY <1>12, HappensKeeps DEF PlaceBet, Remember
<1>13. ASSUME NEW kind \in Alterations, Alter(kind) PROVE ReadingIsGood'
  <2>1. altered' = {kind} /\ keys' = keys /\ market.status # "draft" /\ Happens("other")
    BY <1>13 DEF Alter
  <2>2. market'.status # "draft"
    BY <2>1 DEF RowsAreGood, MarketIsGood, DefinitionIsGood
  <2>. QED BY <2>1, <2>2, HappensKeeps
<1>. QED
  BY <1>2, <1>3, <1>4, <1>5, <1>7, <1>8, <1>9, <1>10, <1>11, <1>12, <1>13 DEF RecordNext

LEMMA RecordStart == RecordInit => RecordInv
<1>. SUFFICES ASSUME RecordInit PROVE RecordInv
  OBVIOUS
<1>. USE DEF RecordInit
<1>1. MadeBets = {} /\ MadeBets = 1..0 /\ 0 \in 0..MaxBets
  BY RecordAssumption DEF MadeBets
<1>2. MarketIsGood
  BY <1>1 DEF MarketIsGood, MarketRow, KeysAreGood, TitleIsGood, DefinitionIsGood, Phases
<1>3. BetsAreGood
  BY <1>1 DEF BetsAreGood
<1>4. MarksOfAlteration /\ ResolutionIsGood
  BY <1>1 DEF MarksOfAlteration, ResolutionIsGood
<1>5. SealIsGood
  BY DEF SealIsGood, SealProves
<1>6. ReadingIsGood
  BY DEF NotReading, ReadingIsGood, ReadingShape, ReadIsCurrent, ReadStands, NoFalseSuspicion,
         AlterationFound, Answered
<1>. QED BY <1>2, <1>3, <1>4, <1>5, <1>6 DEF RecordInv, RowsAreGood

\* An intact sealed market passes its verification.
LEMMA SealedVerifies ==
  ASSUME RowsAreGood
  PROVE  SealedIntact
<1>. SUFFICES ASSUME market.status = "sealed", altered = {}
              PROVE  MarketValid(market, definition, market.title, bet, commitment, resolution, seal) = "verified"
  BY DEF SealedIntact
<1>1. DefinitionHolds(market, definition, market.title)
  BY RowsExist
  DEF DefinitionHolds, SignedBy, RowsAreGood, MarketIsGood, MarketRow, TitleIsGood, DefinitionIsGood
<1>2. CommitmentsHold(bet, commitment)
  <2>1. ASSUME NEW i \in BetIds, bet[i] # NoRecord
        PROVE  /\ commitment[i] # NoRecord /\ commitment[i].key \in keys
               /\ commitment[i].user = bet[i].user /\ commitment[i].stake = bet[i].stake
               /\ commitment[i].previous = Latest(EarlierOnes(bet, i))
    <3>1. i \in MadeBets
      BY <2>1 DEF MadeBets
    <3>2. commitment[i] # NoRecord /\ bet[i].stake = 1
      BY <3>1 DEF RowsAreGood, MarksOfAlteration
    <3>. QED BY <3>2 DEF RowsAreGood, BetsAreGood
  <2>. QED BY <2>1 DEF CommitmentsHold, SignedBy, EarlierOnes
<1>3. /\ seal # NoRecord /\ SignedBy(seal) /\ seal.title = "original" /\ seal.stamp = 1
      /\ market.sealedAt = 1 /\ market.result = seal.result /\ LeavesHold(bet, commitment, seal)
  BY DEF RowsAreGood, SealIsGood
<1>4. SealHolds(market, definition, seal)
  <2>1. definition.title = "original"
    BY DEF RowsAreGood, MarketIsGood, DefinitionIsGood
  <2>. QED BY <1>3, <2>1 DEF SealHolds
<1>. QED BY <1>1, <1>2, <1>3, <1>4 DEF MarketValid

LEMMA RecordsFollow == RecordInv => RecordInvariant
<1>. SUFFICES ASSUME RecordInv PROVE RecordInvariant
  OBVIOUS
<1>1. RecordTypeOK
  <2>1. ASSUME NEW i \in BetIds, commitment[i] # NoRecord PROVE commitment[i].previous \in 0..(i - 1)
    <3>1. commitment[i].previous = Latest(EarlierOnes(bet, i))
      BY <2>1 DEF RecordInv, RowsAreGood, BetsAreGood
    <3>2. i - 1 \in Nat /\ EarlierOnes(bet, i) \subseteq 1..(i - 1)
      BY RecordAssumption DEF BetIds, EarlierOnes
    <3>. QED BY <3>1, <3>2, LatestIsGreatest
  <2>2. (definition = NoRecord) <=> (market.status = "draft")
    BY RowsExist DEF RecordInv, RowsAreGood, MarketIsGood, DefinitionIsGood
  <2>. QED BY <2>1, <2>2
    DEF RecordTypeOK, RecordInv, RowsAreGood, MarketIsGood, MarketRow, Phases, KeysAreGood
<1>2. SealProves /\ SealedIntact
  BY SealedVerifies DEF RecordInv, RowsAreGood, SealIsGood
<1>. QED BY <1>1, <1>2 DEF RecordInvariant, RecordInv, ReadingIsGood

\* The signed records of a market hold against everyone who reads them: an intact market is never
\* reported as failed, an altered one not as verified, and what a market is sealed with proves every
\* prediction (verify_market_integrity_records, _market_integrity_contract, seal_market).
THEOREM MarketRecordsHold == RecordSpec => []RecordInvariant
<1>1. RecordInv /\ [RecordNext]_recordVars => RecordInv'
  <2>. SUFFICES ASSUME RecordInv, [RecordNext]_recordVars PROVE RecordInv'
    OBVIOUS
  <2>1. RowsAreGood'
    BY RowsStep DEF RecordInv
  <2>. QED BY <2>1, ReadingStep DEF RecordInv
<1>. QED BY <1>1, RecordStart, RecordsFollow, PTL DEF RecordSpec

=============================================================================
