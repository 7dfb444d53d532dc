--------------------------- MODULE IntegrityLedger ---------------------------
(***************************************************************************)
(* The global integrity ledger: an append-only chain of signed events, the *)
(* signed checkpoints that audits of the chain leave, and the public       *)
(* status that is read from the last checkpoint without walking the chain. *)
(*                                                                         *)
(* Appends and audits run inside transactions that hold one transactional  *)
(* advisory lock; what they write is visible when they commit.  A status   *)
(* request takes no lock: it reads the checkpoint, then the head, then the *)
(* event at the checkpoint's boundary, each in its own statement.          *)
(*                                                                         *)
(* A hash is the number of the append that produced it, 0 standing for the *)
(* hash before the first event; a row verifies or not ("intact").          *)
(***************************************************************************)
EXTENDS Integers, FiniteSets

CONSTANTS
    Workers,        \* connections that append or audit
    Readers,        \* connections that serve the public status
    MaxEvents,      \* bound on the sequence numbers
    MaxAppends,     \* bound on the appends that commit
    MaxBatch,       \* bound on the events of one transaction
    Damages,        \* what may happen to the stored rows
    Absent, Idle

Seqs == 1..MaxEvents
Hashes == 0..MaxAppends
EventRow == [prev : Hashes, hash : Hashes, intact : BOOLEAN]

\* A row of integrity_ledger_checkpoints; "sound" is _checkpoint_is_valid and
\* the link to the checkpoint before it, "last" the last verified event.
Checkpoint ==
    [full : BOOLEAN, valid : BOOLEAN, sound : BOOLEAN,
     last : 0..MaxEvents, lastHash : Hashes,
     head : 0..MaxEvents, headHash : Hashes]

\* A transaction that holds the ledger lock: where its events go and what its
\* audit attests; "seal" says that a market is being sealed.
Transaction ==
    [first : 1..(MaxEvents + 1), prev : Hashes, size : 0..MaxBatch,
     audit : Checkpoint \cup {Absent}, seal : BOOLEAN]

Statuses == {"unavailable", "failed", "verified", "pending"}

\* A status request: what it has read so far, and at last its answer.
Request ==
    [at : {"checkpoint"}, ckpt : Checkpoint \cup {Absent}]
    \cup [at : {"head"}, ckpt : Checkpoint \cup {Absent},
          head : 0..MaxEvents, headHash : Hashes]
    \cup [at : {"answered"}, status : Statuses]

ASSUME LedgerAssumption ==
    /\ MaxEvents \in Nat
    /\ MaxAppends \in Nat
    /\ MaxBatch \in Nat
    /\ Damages \subseteq {"alter", "rehash", "repair", "tail", "row", "checkpoint"}
    /\ Absent \notin EventRow
    /\ Absent \notin Checkpoint
    /\ Absent \notin Hashes
    /\ Idle \notin Transaction
    /\ Idle \notin Request

VARIABLES
    ledger,     \* integrity_ledger_events by sequence
    appended,   \* number of appends committed so far
    latest,     \* the last row of integrity_ledger_checkpoints
    lastFull,   \* age of the last valid full checkpoint: none, fresh or old
    retryDue,   \* has the hour since an invalid audit passed?
    tx,         \* transactions that hold the ledger lock
    request,    \* status requests
    damaged     \* has a stored row ever been damaged?

stored == <<ledger, appended>>
attested == <<latest, lastFull, retryDue>>
vars == <<ledger, appended, latest, lastFull, retryDue, tx, request, damaged>>

Init ==
    /\ ledger = [n \in Seqs |-> Absent]
    /\ appended = 0
    /\ latest = Absent
    /\ lastFull = "none"
    /\ retryDue = FALSE
    /\ tx = [w \in Workers |-> Idle]
    /\ request = [r \in Readers |-> Idle]
    /\ damaged = FALSE

Present(n) == ledger[n] # Absent

\* The row that ORDER BY sequence DESC LIMIT 1 returns.
IsHead(n) == Present(n) /\ \A m \in Seqs : Present(m) => m <= n

ChainHead == IF \E n \in Seqs : IsHead(n) THEN CHOOSE n \in Seqs : IsHead(n) ELSE 0

HashAt(n) == IF n = 0 THEN 0 ELSE ledger[n].hash

-----------------------------------------------------------------------------
(* Appending.                                                              *)

\* pg_advisory_xact_lock
LockFree_NotTaken == TRUE
LockFree == \A w \in Workers : tx[w] = Idle

NextSeq == ChainHead + 1

BeginAppend(w) ==
    /\ MaxBatch > 0
    /\ LockFree
    /\ tx' = [tx EXCEPT ![w] =
        [first |-> NextSeq, prev |-> HashAt(ChainHead), size |-> 1,
         audit |-> Absent, seal |-> FALSE]]
    /\ UNCHANGED <<stored, attested, request, damaged>>

\* Another event in the same transaction follows the one before it.
AppendAgain(w) ==
    /\ tx[w] # Idle
    /\ ~ tx[w].seal
    /\ tx[w].size \in 1..(MaxBatch - 1)
    /\ tx' = [tx EXCEPT ![w].size = @ + 1]
    /\ UNCHANGED <<stored, attested, request, damaged>>

\* The event of a seal follows the audit, which must have verified the chain.
AppendSeal(w) ==
    /\ tx[w] # Idle
    /\ tx[w].seal
    /\ tx[w].size = 0
    /\ tx[w].audit.valid
    /\ MaxBatch > 0
    /\ tx' = [tx EXCEPT ![w].first = NextSeq, ![w].prev = HashAt(ChainHead), ![w].size = 1]
    /\ UNCHANGED <<stored, attested, request, damaged>>

Batch(t) == {n \in Seqs : t.first <= n /\ n < t.first + t.size}

\* Each event names the hash of the one before it.
NewRow_ForgetsBatch(t, n) ==
    [prev |-> t.prev, hash |-> appended + n - t.first + 1, intact |-> TRUE]
NewRow(t, n) ==
    [prev |-> IF n = t.first THEN t.prev ELSE appended + n - t.first,
     hash |-> appended + n - t.first + 1,
     intact |-> TRUE]

-----------------------------------------------------------------------------
(* Auditing.                                                               *)

\* _verify_integrity_ledger_segment: is the event at n the one that may follow
\* what a scan from "first", entered with hash "entry", has seen?
Follows_Unlinked(n, first, entry) ==
    /\ Present(n)
    /\ ledger[n].intact
Follows(n, first, entry) ==
    /\ Present(n)
    /\ ledger[n].intact
    /\ IF n = first THEN ledger[n].prev = entry
       ELSE Present(n - 1) /\ ledger[n].prev = ledger[n - 1].hash

SegmentValid(first, entry) == \A n \in first..ChainHead : Follows(n, first, entry)

\* The last event before the first that does not follow.
LastVerified(first, entry) ==
    IF SegmentValid(first, entry) THEN ChainHead
    ELSE CHOOSE k \in (first - 1)..ChainHead :
            /\ \A n \in first..k : Follows(n, first, entry)
            /\ ~ Follows(k + 1, first, entry)

\* ledger_checkpoint_status, given the head and the hash now at the boundary
\* (Absent when that event is gone).
Status(c, head, headHash, boundary) ==
    IF c = Absent THEN "unavailable"
    ELSE IF \/ ~ c.sound
            \/ ~ c.valid
            \/ c.last # c.head
            \/ c.lastHash # c.headHash
            \/ head < c.head
            \/ head = c.head /\ headHash # c.headHash
            \/ head > c.head /\ boundary # c.lastHash
         THEN "failed"
         ELSE IF head = c.head THEN "verified" ELSE "pending"

HashIfPresent(n) == IF n \in Seqs /\ ~ Present(n) THEN Absent ELSE HashAt(n)

BoundaryHash(c) == IF c = Absent THEN Absent ELSE HashIfPresent(c.last)

CurrentStatus == Status(latest, ChainHead, HashAt(ChainHead), BoundaryHash(latest))

\* A valid checkpoint that the ledger no longer agrees with is never replaced.
StickyFailure_Reaudits == FALSE
StickyFailure == latest # Absent /\ latest.valid /\ CurrentStatus = "failed"

\* A failure seen within the hour on the same head is not audited again.
BacksOff ==
    /\ latest # Absent
    /\ ~ latest.valid
    /\ latest.sound
    /\ ChainHead = latest.head
    /\ HashAt(ChainHead) = latest.headHash
    /\ ~ retryDue

FullDue_Never == lastFull = "none"
FullDue == lastFull # "fresh"

AuditsAll_Incremental(force) == latest = Absent \/ ~ latest.valid \/ FullDue
AuditsAll(force) == force \/ latest = Absent \/ ~ latest.valid \/ FullDue

NothingNew(force) == ~ AuditsAll(force) /\ CurrentStatus = "verified"

\* Where the scan starts and the hash it is entered with.
ScanFrom_SkipsOne(full) == IF full THEN 1 ELSE latest.last + 2
ScanFrom(full) == IF full THEN 1 ELSE latest.last + 1
EntryHash(full) == IF full THEN 0 ELSE latest.lastHash

Attest(full) ==
    LET first == ScanFrom(full)
        entry == EntryHash(full)
        last  == LastVerified(first, entry)
    IN [full |-> full, valid |-> SegmentValid(first, entry), sound |-> TRUE,
        last |-> last, lastHash |-> IF last < first THEN entry ELSE HashAt(last),
        head |-> ChainHead, headHash |-> HashAt(ChainHead)]

\* audit_integrity_ledger up to its commit: the daemon audits every cycle, and
\* a seal forces a full audit.
BeginAudit(w, seal) ==
    /\ LockFree
    /\ ~ StickyFailure
    /\ ~ (BacksOff /\ ~ seal)
    /\ ~ NothingNew(seal)
    /\ tx' = [tx EXCEPT ![w] =
        [first |-> NextSeq, prev |-> HashAt(ChainHead), size |-> 0,
         audit |-> Attest(AuditsAll(seal)), seal |-> seal]]
    /\ UNCHANGED <<stored, attested, request, damaged>>

-----------------------------------------------------------------------------
(* Ending a transaction.                                                   *)

\* sequence is unique, so an event cannot replace one.
Fits(t) == \A n \in Batch(t) : ~ Present(n)

\* A seal commits with its event or not at all.
Commit(w) ==
    LET t == tx[w] IN
    /\ t # Idle
    /\ t.seal => t.size > 0
    /\ t.first + t.size <= MaxEvents + 1
    /\ appended + t.size <= MaxAppends
    /\ Fits(t)
    /\ ledger' = [n \in Seqs |-> IF n \in Batch(t) THEN NewRow(t, n) ELSE ledger[n]]
    /\ appended' = appended + t.size
    /\ IF t.audit = Absent THEN UNCHANGED attested
       ELSE /\ latest' = t.audit
            /\ lastFull' = IF t.audit.full /\ t.audit.valid THEN "fresh" ELSE lastFull
            /\ retryDue' = FALSE
    /\ tx' = [tx EXCEPT ![w] = Idle]
    /\ UNCHANGED <<request, damaged>>

\* The signer, the database or the rest of the transaction fails.
Rollback(w) ==
    /\ tx[w] # Idle
    /\ tx' = [tx EXCEPT ![w] = Idle]
    /\ UNCHANGED <<stored, attested, request, damaged>>

\* FULL_AUDIT_INTERVAL and INVALID_AUDIT_RETRY_INTERVAL pass.
PassDay ==
    /\ lastFull = "fresh"
    /\ lastFull' = "old"
    /\ UNCHANGED <<stored, latest, retryDue, tx, request, damaged>>

PassHour ==
    /\ latest # Absent
    /\ ~ latest.valid
    /\ ~ retryDue
    /\ retryDue' = TRUE
    /\ UNCHANGED <<stored, latest, lastFull, tx, request, damaged>>

-----------------------------------------------------------------------------
(* The public status.                                                      *)

ReadCheckpoint(r) ==
    /\ request[r] = Idle
    /\ request' = [request EXCEPT ![r] = [at |-> "checkpoint", ckpt |-> latest]]
    /\ UNCHANGED <<stored, attested, tx, damaged>>

ReadHead(r) ==
    /\ request[r] # Idle
    /\ request[r].at = "checkpoint"
    /\ request' = [request EXCEPT ![r] =
        [at |-> "head", ckpt |-> request[r].ckpt, head |-> ChainHead, headHash |-> HashAt(ChainHead)]]
    /\ UNCHANGED <<stored, attested, tx, damaged>>

\* The checkpoint a request judges is the one it read before the head.
Judged_ReadLast(r) == latest
Judged(r) == request[r].ckpt

Answer(r) ==
    /\ request[r] # Idle
    /\ request[r].at = "head"
    /\ request' = [request EXCEPT ![r] =
        [at |-> "answered",
         status |-> Status(Judged(r), request[r].head, request[r].headHash,
                           BoundaryHash(Judged(r)))]]
    /\ UNCHANGED <<stored, attested, tx, damaged>>

FinishRequest(r) ==
    /\ request[r] # Idle
    /\ request[r].at = "answered"
    /\ request' = [request EXCEPT ![r] = Idle]
    /\ UNCHANGED <<stored, attested, tx, damaged>>

-----------------------------------------------------------------------------
(* What the ledger is there to reveal: privileged writes and lost rows.    *)

DamageRows(kind, rows) ==
    /\ kind \in Damages
    /\ ledger' = rows
    /\ damaged' = TRUE
    /\ UNCHANGED <<appended, attested, tx, request>>

\* A protected column is altered, or the hash column with it.
AlterRow(n) ==
    /\ Present(n) /\ ledger[n].intact
    /\ \/ DamageRows("alter", [ledger EXCEPT ![n].intact = FALSE])
       \/ DamageRows("rehash", [ledger EXCEPT ![n].intact = FALSE, ![n].hash = 0])

\* The altered column gets its value back.
RepairRow(n) ==
    /\ Present(n) /\ ~ ledger[n].intact /\ ledger[n].hash # 0
    /\ DamageRows("repair", [ledger EXCEPT ![n].intact = TRUE])

LoseRow(n) ==
    /\ Present(n)
    /\ n # ChainHead
    /\ DamageRows("row", [ledger EXCEPT ![n] = Absent])

LoseTail(n) ==
    /\ Present(n)
    /\ DamageRows("tail", [m \in Seqs |-> IF m < n THEN ledger[m] ELSE Absent])

AlterCheckpoint ==
    /\ "checkpoint" \in Damages
    /\ latest # Absent
    /\ latest.sound
    /\ latest' = [latest EXCEPT !.sound = FALSE]
    /\ damaged' = TRUE
    /\ UNCHANGED <<stored, lastFull, retryDue, tx, request>>

Next ==
    \/ \E w \in Workers :
        \/ BeginAppend(w) \/ AppendAgain(w) \/ AppendSeal(w)
        \/ BeginAudit(w, TRUE) \/ BeginAudit(w, FALSE)
        \/ Commit(w) \/ Rollback(w)
    \/ PassDay \/ PassHour
    \/ \E r \in Readers : ReadCheckpoint(r) \/ ReadHead(r) \/ Answer(r) \/ FinishRequest(r)
    \/ \E n \in Seqs : AlterRow(n) \/ RepairRow(n) \/ LoseRow(n) \/ LoseTail(n)
    \/ AlterCheckpoint

Spec == Init /\ [][Next]_vars

\* The daemon audits every cycle and its waits for the lock are queued; the
\* failures that roll its audits back do not last for ever; time passes.
Fairness ==
    /\ \A w \in Workers :
        /\ SF_vars(BeginAudit(w, FALSE))
        /\ SF_vars(Commit(w))
        /\ WF_vars(Rollback(w))
    /\ WF_vars(PassDay)
    /\ WF_vars(PassHour)

FairSpec == Spec /\ Fairness
-----------------------------------------------------------------------------
(* Properties.                                                             *)

\* Every stored row, checkpoint, transaction and request has its type.
TypeOK ==
    /\ ledger \in [Seqs -> EventRow \cup {Absent}]
    /\ appended \in Hashes
    /\ latest \in Checkpoint \cup {Absent}
    /\ lastFull \in {"none", "fresh", "old"}
    /\ retryDue \in BOOLEAN
    /\ tx \in [Workers -> Transaction \cup {Idle}]
    /\ request \in [Readers -> Request \cup {Idle}]
    /\ damaged \in BOOLEAN

\* While no stored row is damaged, the events are one unbroken chain from the
\* first: no concurrent appends fork it or leave a gap.
ChainWhole == ~ damaged => \A n \in Seqs : Present(n) => Follows(n, 1, 0)

\* While no stored row is damaged, no transaction that holds the lock can be
\* refused by the unique sequence, and its events go after the stored head.
NoAppendCollides ==
    ~ damaged => \A w \in Workers :
        tx[w] # Idle /\ tx[w].size > 0 =>
            /\ Fits(tx[w])
            /\ tx[w].first = ChainHead + 1
            /\ tx[w].prev = HashAt(ChainHead)

\* While no stored row is damaged, no status request, however its three reads
\* interleave with appends and audits, answers that the ledger failed, and no
\* audit finds a failure.
NoFalseAlarm ==
    ~ damaged =>
        /\ CurrentStatus # "failed"
        /\ latest # Absent => latest.valid
        /\ \A r \in Readers :
            request[r] # Idle /\ request[r].at = "answered" => request[r].status # "failed"

\* The loop of _verify_integrity_ledger_segment, row by row.
Scan(first, entry) ==
    LET scan[n \in (first - 1)..ChainHead] ==
        IF n < first
        THEN [expected |-> first, prev |-> entry, ok |-> TRUE,
              last |-> first - 1, lastHash |-> entry]
        ELSE IF ~ Present(n) THEN scan[n - 1]
        ELSE LET s    == scan[n - 1]
                 good == /\ n = s.expected
                         /\ ledger[n].prev = s.prev
                         /\ ledger[n].intact
             IN [expected |-> n + 1, prev |-> ledger[n].hash, ok |-> s.ok /\ good,
                 last     |-> IF s.ok /\ good THEN n ELSE s.last,
                 lastHash |-> IF s.ok /\ good THEN ledger[n].hash ELSE s.lastHash]
    IN scan[ChainHead]

\* On any stored rows, whole or damaged, the scan of an audit accepts exactly
\* the segments whose every row is present, intact and linked, and stops
\* verifying at the first row that is not.
ScanFindsFirstBreak ==
    \A full \in BOOLEAN :
        (full \/ latest # Absent) /\ (full \/ latest.last <= ChainHead) =>
            LET first == ScanFrom(full)
                s     == Scan(first, EntryHash(full))
            IN /\ s.ok = SegmentValid(first, EntryHash(full))
               /\ s.last = LastVerified(first, EntryHash(full))

\* Step: worker w audits the ledger.
Audits(w) == tx[w] = Idle /\ tx'[w] # Idle /\ tx'[w].audit # Absent

\* An audit never attests a valid chain over a ledger that lost or replaced
\* the events the valid checkpoint before it had attested.
CheckpointsExtend ==
    [][\A w \in Workers :
        Audits(w) /\ tx'[w].audit.valid /\ latest # Absent /\ latest.valid =>
            ChainHead >= latest.head /\ BoundaryHash(latest) = latest.lastHash]_vars

\* An incremental audit and a full one agree, as long as the events that the
\* last checkpoint attested are still whole.
IncrementalAgreesWithFull ==
    [][\A w \in Workers :
        Audits(w) /\ ~ tx'[w].audit.full /\ (\A n \in 1..latest.last : Follows(n, 1, 0)) =>
            tx'[w].audit.valid = SegmentValid(1, 0)]_vars

\* A market is sealed only on a chain that is whole from the first event to
\* the head, whatever an earlier checkpoint attested.
SealsOnWholeChain ==
    [][\A w \in Workers :
        Audits(w) /\ tx'[w].seal /\ tx'[w].audit.valid => SegmentValid(1, 0)]_vars

\* Docs: a ledger whose head lies behind the last checkpoint never verifies.
\* The code refutes it (README, section 5); no run includes it.
HeadNeverRegresses ==
    [][\A w \in Workers :
        Audits(w) /\ tx'[w].audit.valid /\ latest # Absent => ChainHead >= latest.head]_vars

\* A damaged chain is reported as failed by the public status before long,
\* however far behind the last checkpoint the damage lies.
DamageReported ==
    ~ SegmentValid(1, 0) ~> (CurrentStatus = "failed" \/ SegmentValid(1, 0))

\* A failure that an audit attested is withdrawn once the chain is whole again.
RepairNoticed ==
    (latest # Absent /\ ~ latest.valid /\ SegmentValid(1, 0))
        ~> ((latest # Absent /\ latest.valid) \/ ~ SegmentValid(1, 0))
=============================================================================
