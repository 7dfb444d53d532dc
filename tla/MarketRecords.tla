---------------------------- MODULE MarketRecords ----------------------------
(***************************************************************************)
(* The signed records of one market and their public verification: the     *)
(* definition signed at publication, a commitment for every prediction,    *)
(* the event of the last resolution, and the seal with the Merkle tree of  *)
(* the commitments.  A verification reads the market and its records in    *)
(* separate statements without a lock.  Someone with access to the         *)
(* database may alter rows.  Hashes are injective: the hash of a pair is   *)
(* the pair.  The chain of ledger events is the subject of IntegrityLedger.*)
(***************************************************************************)
EXTENDS Integers, FiniteSets

LOCAL INSTANCE Sequences

CONSTANTS
    Bettors,            \* users who predict
    MaxBets,            \* bound: predictions
    MaxResolutions,     \* bound: resolutions of the market
    MaxRestarts         \* bound: restarts that change the local signing key

ASSUME RecordAssumption == MaxBets \in Nat /\ MaxResolutions \in Nat /\ MaxRestarts \in Nat

\* A row that does not exist.
NoRecord == [found |-> FALSE]

BetIds == 1..MaxBets
Results == {"yes", "no"}
Alterations == {"title", "result", "stake", "commitment", "bet"}

VARIABLES
    market,         \* the row of gotrendlabs_markets
    definition,     \* market_integrity_definitions
    bet,            \* gotrendlabs_predictions
    commitment,     \* prediction_commitments
    resolution,     \* the last market_resolved event
    seal,           \* market_seals with market_merkle_leaves
    signer,         \* the key of the running process
    keys,           \* integrity_signing_keys
    altered,        \* what was altered in the database (history)
    reading         \* a verification or status request, and what it has read

recordVars == <<market, definition, bet, commitment, resolution, seal, signer, keys, altered, reading>>

NotReading == [op |-> "none", next |-> 1, during |-> {}, outcome |-> "none",
               seen |-> NoRecord]

RecordInit ==
    /\ market = [status |-> "draft", title |-> "original", published |-> 0, result |-> "none",
                 stamp |-> 0, sealedAt |-> 0]
    /\ definition = NoRecord
    /\ bet = [i \in BetIds |-> NoRecord]
    /\ commitment = [i \in BetIds |-> NoRecord]
    /\ resolution = NoRecord
    /\ seal = NoRecord
    /\ signer = 0
    /\ keys = {}
    /\ altered = {}
    /\ reading = NotReading

-----------------------------------------------------------------------------
(* Merkle trees over sequences of hashes.                                  *)

\* The places, on each level, of the i-th of n leaves and of the nodes above it...
Places(n, i) ==
    LET place[k \in 0..n] == IF k = 0 THEN i ELSE (place[k - 1] + 1) \div 2
    IN  place

\* ... of which those of the last leaf are the widths of the levels.
Widths(n) == Places(n, n)

\* The level of the root over n leaves.
Height(n) ==
    CHOOSE k \in 0..n : Widths(n)[k] <= 1 /\ (k > 0 => Widths(n)[k - 1] > 1)

\* A node stands for its two children; the last of an odd level is paired with itself.
NextLevel(below, n) ==
    [i \in 1..((n + 1) \div 2) |-> <<below[2 * i - 1], below[IF 2 * i <= n THEN 2 * i ELSE 2 * i - 1]>>]

\* The levels of the tree from its leaves up.
Levels(s) ==
    LET n == Len(s)
        level[k \in 0..n] == IF k = 0 THEN s ELSE NextLevel(level[k - 1], Widths(n)[k - 1])
    IN  level

Root(s) == Levels(s)[Height(Len(s))]

\* The sibling of the i-th node of a level of n, itself if it has none, and its side.
Sibling(level, n, i) ==
    IF i % 2 = 0 THEN [side |-> "left", hash |-> level[i - 1]]
    ELSE [side |-> "right", hash |-> level[IF i + 1 <= n THEN i + 1 ELSE i]]

\* The siblings on the way from the i-th leaf to the root.
Proof(s, i) ==
    LET n == Len(s) IN
    [k \in 1..Height(n) |-> Sibling(Levels(s)[k - 1], Widths(n)[k - 1], Places(n, i)[k - 1])]

Climb(hash, proof) ==
    LET value[k \in 0..Len(proof)] ==
          IF k = 0 THEN hash
          ELSE IF proof[k].side = "left" THEN <<proof[k].hash, value[k - 1]>>
          ELSE <<value[k - 1], proof[k].hash>>
    IN  value[Len(proof)]

ProofHolds(leaf, proof, root) == root = <<Climb(leaf, proof)>>

-----------------------------------------------------------------------------
(* Records and their checks.                                               *)

MadeBets == {i \in BetIds : bet[i] # NoRecord}
BetsOf(u) == {i \in MadeBets : bet[i].user = u}

Latest(S) == IF S = {} THEN 0 ELSE CHOOSE i \in S : \A k \in S : k <= i

\* The hash of a commitment: what its payload says.
CommitmentHash(i, c) == <<i, c.user, c.stake, c.previous>>

\* A signed record is checked with the key registered under its identifier.
SignedBy(record) == record.key \in keys

\* Verification of the market's rows as read: d, b, c, r, s stand for the
\* definition, bets, commitments, resolution event and seal; m is the market's
\* row and title its current title.
DefinitionHolds(m, d, title) ==
    /\ d # NoRecord
    /\ SignedBy(d)
    /\ d.published = m.published
    /\ d.title = title

CommitmentsHold(b, c) ==
    \A i \in {k \in BetIds : b[k] # NoRecord} :
        /\ c[i] # NoRecord
        /\ SignedBy(c[i])
        /\ c[i].user = b[i].user
        /\ c[i].stake = b[i].stake
        /\ c[i].previous = Latest({k \in 1..(i - 1) : b[k] # NoRecord /\ b[k].user = b[i].user})

ResolutionHolds(m, r) == r # NoRecord /\ r = [result |-> m.result, stamp |-> m.stamp]

LeafCount(s) == Len(s.leaves)

LeavesHold(b, c, s) ==
    LET committed == {k \in BetIds : b[k] # NoRecord}
        hashes == [i \in 1..LeafCount(s) |-> s.leaves[i].hash] IN
    /\ LeafCount(s) = Cardinality(committed)
    /\ \A i \in 1..LeafCount(s) :
         LET id == s.leaves[i].id IN
         /\ id \in committed /\ c[id] # NoRecord
         /\ s.leaves[i].hash = CommitmentHash(id, c[id])
         /\ ProofHolds(s.leaves[i].hash, s.leaves[i].proof, s.root)
    /\ Root(hashes) = s.root

SealHolds(m, d, s) ==
    /\ s # NoRecord
    /\ SignedBy(s)
    /\ m.sealedAt = s.stamp
    /\ s.title = d.title
    /\ s.result = m.result

\* verify_market_integrity_records: what counts depends on the status read.
MarketValid(m, d, title, b, c, r, s) ==
    IF m.status = "draft" /\ d = NoRecord THEN "pending"
    ELSE IF /\ DefinitionHolds(m, d, title)
            /\ CommitmentsHold(b, c)
            /\ m.status = "resolved" =>
                 IF s = NoRecord THEN ResolutionHolds(m, r) ELSE s.result = m.result
            /\ m.status = "sealed" => SealHolds(m, d, s) /\ LeavesHold(b, c, s)
         THEN "verified" ELSE "failed"

\* _market_integrity_contract
ContractStatus(m, d, s) ==
    IF d = NoRecord THEN "legacy_unregistered"
    ELSE IF m.status = "sealed" THEN (IF s # NoRecord THEN "sealed" ELSE "verification_failed")
    ELSE m.status

-----------------------------------------------------------------------------
(* The market's life.                                                      *)

\* What happens while a request reads.
Happens(event) == reading' = [reading EXCEPT !.during = IF reading.op = "none" THEN {} ELSE @ \cup {event}]

Remember == keys' = keys \cup {signer}

Publish ==
    /\ market.status = "draft"
    /\ market' = [market EXCEPT !.status = "open", !.published = 1]
    /\ definition' = [title |-> market.title, published |-> 1, key |-> signer]
    /\ Remember
    /\ Happens("publish")
    /\ UNCHANGED <<bet, commitment, resolution, seal, signer, altered>>

\* A prediction and its commitment are one transaction; those of one user are
\* serialised by an advisory lock.
PlaceBet(u) ==
    LET i == Cardinality(MadeBets) + 1 IN
    /\ market.status = "open"
    /\ i \in BetIds /\ bet[i] = NoRecord
    /\ altered \cap {"bet", "commitment"} = {}
    /\ bet' = [bet EXCEPT ![i] = [user |-> u, stake |-> 1]]
    /\ commitment' = [commitment EXCEPT ![i] =
           [user |-> u, stake |-> 1, previous |-> Latest(BetsOf(u)), key |-> signer]]
    /\ Remember
    /\ Happens("other")
    /\ UNCHANGED <<market, definition, resolution, seal, signer, altered>>

LockForResult ==
    /\ market.status = "open"
    /\ market' = [market EXCEPT !.status = "locked"]
    /\ Happens("other")
    /\ UNCHANGED <<definition, bet, commitment, resolution, seal, signer, keys, altered>>

Resolve(result) ==
    /\ market.status = "locked"
    /\ (IF resolution = NoRecord THEN 0 ELSE resolution.stamp) < MaxResolutions
    /\ resolution' = [result |-> result,
                      stamp |-> 1 + IF resolution = NoRecord THEN 0 ELSE resolution.stamp]
    /\ market' = [market EXCEPT !.status = "resolved", !.result = result, !.stamp = resolution'.stamp]
    /\ Happens("resolve")
    /\ UNCHANGED <<definition, bet, commitment, seal, signer, keys, altered>>

UndoResolution ==
    /\ market.status = "resolved"
    /\ market' = [market EXCEPT !.status = "locked", !.result = "none", !.stamp = 0]
    /\ Happens("other")
    /\ UNCHANGED <<definition, bet, commitment, resolution, seal, signer, keys, altered>>

\* The commitments in the order of the tree: by position of the user, then id.
Sequenced ==
    LET rank(i) == Cardinality({k \in BetsOf(bet[i].user) : k < i})
        before(i, k) == rank(i) < rank(k) \/ (rank(i) = rank(k) /\ i < k) IN
    [n \in 1..Cardinality(MadeBets) |->
        CHOOSE i \in MadeBets : Cardinality({k \in MadeBets : before(k, i)}) = n - 1]

NewLeaves ==
    LET order == Sequenced
        hashes == [n \in DOMAIN order |-> CommitmentHash(order[n], commitment[order[n]])] IN
    [n \in DOMAIN order |->
        [id |-> order[n], hash |-> hashes[n], proof |-> Proof(hashes, n)]]

\* The seal verifies the market first, in the same transaction and under the
\* lock of its row; a market that fails stays resolved and is tried again.
SealableNow ==
    MarketValid(market, definition, market.title, bet, commitment, resolution, seal) = "verified"

SealMarket ==
    LET leaves == NewLeaves IN
    /\ market.status = "resolved"
    /\ seal = NoRecord
    /\ SealableNow
    /\ seal' = [title |-> definition.title, result |-> market.result, stamp |-> 1, leaves |-> leaves,
                root |-> Root([n \in DOMAIN leaves |-> leaves[n].hash]), key |-> signer]
    /\ market' = [market EXCEPT !.status = "sealed", !.sealedAt = 1]
    /\ Remember
    /\ Happens("other")
    /\ UNCHANGED <<definition, bet, commitment, resolution, signer, altered>>

\* Without a key service a process signs with a key of its own.
RestartSigner ==
    /\ signer < MaxRestarts
    /\ signer' = signer + 1
    /\ UNCHANGED <<market, definition, bet, commitment, resolution, seal, keys, altered, reading>>

\* One thing of a published market is altered behind the program's back.
Alter(kind) ==
    /\ altered = {}
    /\ market.status # "draft"
    /\ CASE kind = "title" ->
              /\ market' = [market EXCEPT !.title = "altered"]
              /\ UNCHANGED <<bet, commitment>>
         [] kind = "result" ->
              /\ market.status \in {"resolved", "sealed"}
              /\ \E r \in Results \ {market.result} : market' = [market EXCEPT !.result = r]
              /\ UNCHANGED <<bet, commitment>>
         [] kind = "stake" ->
              /\ \E i \in MadeBets : bet' = [bet EXCEPT ![i].stake = 2]
              /\ UNCHANGED <<market, commitment>>
         [] kind = "commitment" ->
              /\ \E i \in MadeBets : commitment' = [commitment EXCEPT ![i] = NoRecord]
              /\ UNCHANGED <<market, bet>>
         [] OTHER ->
              /\ MadeBets # {}
              /\ bet' = [bet EXCEPT ![Latest(MadeBets)] = NoRecord]
              /\ commitment' = [commitment EXCEPT ![Latest(MadeBets)] = NoRecord]
              /\ UNCHANGED market
    /\ altered' = {kind}
    /\ Happens("other")
    /\ UNCHANGED <<definition, resolution, seal, signer, keys>>

-----------------------------------------------------------------------------
(* Readers.                                                                *)

\* The statements of each request, in order.
Statements_SealFirst(op) ==
    IF op = "verify" THEN <<"market", "definition", "bets", "seal", "resolution">>
    ELSE <<"definition", "seal", "market">>
Statements(op) ==
    IF op = "verify" THEN <<"market", "definition", "bets", "seal", "resolution">>
    ELSE <<"market", "definition", "seal">>
StatementCount(op) == Len(Statements(op))

Shown == {"market", "definition", "title", "bet", "commitment", "seal", "resolution"}

\* The public status exists for published markets only.
BeginReading(op) ==
    /\ reading.op \in {"none", "done"}
    /\ op = "contract" => market.status # "draft"
    /\ reading' = [op |-> op, next |-> 1, during |-> {}, outcome |-> "none",
                   seen |-> [what \in Shown |-> NoRecord]]
    /\ UNCHANGED <<market, definition, bet, commitment, resolution, seal, signer, keys, altered>>

\* One statement; with the last one the answer is given.
Read ==
    LET todo == Statements(reading.op)
        what == todo[reading.next]
        seen == [reading.seen EXCEPT
                   !.market = IF what = "market" THEN market ELSE @,
                   !.definition = IF what = "definition" THEN definition ELSE @,
                   !.title = IF what = "definition" THEN market.title ELSE @,
                   !.bet = IF what = "bets" THEN bet ELSE @,
                   !.commitment = IF what = "bets" THEN commitment ELSE @,
                   !.seal = IF what = "seal" THEN seal ELSE @,
                   !.resolution = IF what = "resolution" THEN resolution ELSE @]
        outcome == IF reading.op = "verify"
                   THEN MarketValid(seen.market, seen.definition, seen.title, seen.bet,
                                    seen.commitment, seen.resolution, seen.seal)
                   ELSE ContractStatus(seen.market, seen.definition, seen.seal) IN
    /\ reading.op \in {"verify", "contract"}
    /\ reading' = IF reading.next < StatementCount(reading.op)
                  THEN [reading EXCEPT !.next = @ + 1, !.seen = seen]
                  ELSE [reading EXCEPT !.op = "done", !.outcome = outcome, !.seen = NoRecord]
    /\ UNCHANGED <<market, definition, bet, commitment, resolution, seal, signer, keys, altered>>

RecordNext ==
    \/ Publish \/ LockForResult \/ UndoResolution \/ SealMarket \/ RestartSigner \/ Read
    \/ \E u \in Bettors : PlaceBet(u)
    \/ \E r \in Results : Resolve(r)
    \/ \E k \in Alterations : Alter(k)
    \/ \E op \in {"verify", "contract"} : BeginReading(op)

RecordSpec == RecordInit /\ [][RecordNext]_recordVars

-----------------------------------------------------------------------------
(* Properties.                                                             *)

RecordTypeOK ==
    /\ market.status \in {"draft", "open", "locked", "resolved", "sealed"}
    /\ (definition = NoRecord) <=> (market.status = "draft")
    /\ keys \subseteq 0..signer
    /\ \A i \in BetIds : commitment[i] # NoRecord => commitment[i].previous \in 0..(i - 1)

Answered(outcomes) == reading.op = "done" /\ reading.outcome \in outcomes

\* A market nobody altered is never reported as failed or unregistered, whatever
\* commits between the statements of the request - except that a verification
\* which a publication or another resolution overtakes compares rows of two
\* moments (verify_market_integrity, _market_integrity_contract).
NoFalseSuspicion ==
    Answered({"failed", "verification_failed", "legacy_unregistered"}) /\ altered = {}
    => reading.during \cap {"publish", "resolve"} # {}

\* A verification begun after an alteration never reports the market as
\* verified.  Before the seal, the removal of a user's last prediction together
\* with its commitment leaves no trace in the market's records (the chain of
\* events still has it); a result altered after the market was resolved again,
\* or undone, is no longer the current one.
AlterationFound ==
    (/\ Answered({"verified"})
     /\ reading.during = {}
     /\ altered # {})
    => \/ altered = {"bet"} /\ (seal # NoRecord => LeafCount(seal) = Cardinality(MadeBets))
       \/ altered = {"result"} /\ market.status \notin {"resolved", "sealed"}
       \/ altered = {"result"} /\ resolution = [result |-> market.result, stamp |-> market.stamp]

\* Every leaf of a sealed market proves its membership, and the tree tells
\* apart any two lists of commitments of the same length (build_merkle,
\* verify_merkle_proof).
SealProves ==
    seal # NoRecord =>
      LET hashes == [n \in DOMAIN seal.leaves |-> seal.leaves[n].hash] IN
      /\ \A n \in DOMAIN hashes : ProofHolds(hashes[n], seal.leaves[n].proof, seal.root)
      /\ \A f \in [DOMAIN hashes -> {hashes[n] : n \in DOMAIN hashes}] :
            Root(f) = seal.root => f = hashes

\* What an intact market is sealed with is what it shows; the signature of a
\* record outlives the process that made it.
SealedIntact ==
    market.status = "sealed" /\ altered = {} =>
        MarketValid(market, definition, market.title, bet, commitment, resolution, seal) = "verified"

\* The signed records of a market hold against everyone who reads them
\* (verify_market_integrity_records, _market_integrity_contract, seal_market).
\* What does not depend on a reader is evaluated where there is none.
RecordInvariant ==
    /\ RecordTypeOK
    /\ NoFalseSuspicion
    /\ AlterationFound
    /\ reading.op = "none" => SealProves /\ SealedIntact

=============================================================================
