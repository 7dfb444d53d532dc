----------------------- MODULE MarketSettlementProofs -----------------------
(***************************************************************************)
(* Proofs about MarketSettlement, for any number of users, markets,        *)
(* options, predictions, requests, stakes and prices.                      *)
(*                                                                         *)
(* LockedIsOpenStakes, StakeHeldWhileOpen and RefundTestIsExact support    *)
(* one another: a refund needs the flag "released" to be exact for the     *)
(* ledger to end at zero, a resolution needs the ledger to hold the stake  *)
(* of an open position, and the locked balance follows only when every     *)
(* row an action touches moves by exactly what its entry says.  Inv is     *)
(* their conjunction, row by row (RowOK), with the types.  Every action    *)
(* changes the tables through Record, so RecordPreserves reduces Inv' to   *)
(* RowOK of each touched row: the sum over a user's positions is the only  *)
(* place where finiteness and induction (SetSumsProofs) are needed.        *)
(*                                                                         *)
(* The lemmas ...Effects then say what each action writes row by row; from *)
(* them follow SettledInv (what a position gained, which option its owner  *)
(* is on), the action properties and the refinement of StakeCustody.       *)
(***************************************************************************)
EXTENDS MarketSettlement, SetSumsProofs, TLAPS

-----------------------------------------------------------------------------
(* Arithmetic.                                                             *)

\* Integer division of naturals stays natural.
LEMMA DivNat == \A n \in Nat, d \in Nat \ {0} : n \div d \in Nat
OBVIOUS

\* The payout the API quotes (stake over probability, rounded half to even) is a
\* natural number.
LEMMA PayoutNat ==
  ASSUME NEW stake \in Nat, NEW price \in 1..100
  PROVE  Payout(stake, price) \in Nat
<1> DEFINE n == stake * 100
           q == n \div price
<1>1. n \in Nat /\ price \in Nat \ {0}
  OBVIOUS
<1>2. q \in Nat
  BY <1>1, DivNat
<1> HIDE DEF q
<1>3. Payout(stake, price) = q \/ Payout(stake, price) = q + 1
  BY DEF Payout, RoundHalfEven, q
<1> QED BY <1>2, <1>3

\* The penalty of a revision (_position_penalty) is a natural number.
LEMMA PenaltyNat ==
  ASSUME NEW stake \in Nat
  PROVE  Penalty(stake) \in Nat
<1> DEFINE n == 2 * (stake * PenaltyPercent) + 100
<1>1. PenaltyPercent \in Nat
  BY SettlementAssumption
<1>2. stake * PenaltyPercent \in Nat
  BY <1>1
<1>3. n \in Nat
  BY <1>2
<1>4. n \div 200 \in Nat
  BY <1>3, DivNat
<1>5. RoundHalfUp(stake * PenaltyPercent, 100) = n \div 200
  BY DEF RoundHalfUp
<1> QED BY <1>4, <1>5 DEF Penalty

-----------------------------------------------------------------------------
(* Ledger entries.                                                         *)

\* The amounts of a single ledger row, kind by kind.
LEMMA EntryType ==
  ASSUME NEW kind \in Kinds, NEW n \in Nat
  PROVE  /\ Entry(kind, n) \in [Kinds -> Nat]
         /\ \A k \in Kinds : Entry(kind, n)[k] = IF k = kind THEN n ELSE 0
         /\ NoEntries \in [Kinds -> Nat]
         /\ \A k \in Kinds : NoEntries[k] = 0
BY DEF Entry, NoEntries

\* Adding ledger rows adds their amounts kind by kind.
LEMMA PlusType ==
  ASSUME NEW e \in [Kinds -> Nat], NEW f \in [Kinds -> Nat]
  PROVE  /\ Plus(e, f) \in [Kinds -> Nat]
         /\ \A k \in Kinds : Plus(e, f)[k] = e[k] + f[k]
BY DEF Plus

\* The kinds of ledger rows, one by one.
LEMMA KindsElements ==
  /\ "lock" \in Kinds /\ "release" \in Kinds /\ "settle" \in Kinds /\ "payout" \in Kinds
  /\ "reversal" \in Kinds /\ "recredit" \in Kinds /\ "penalty" \in Kinds
BY DEF Kinds

\* A ledger row moves the balances by an integer.
LEMMA DeltaInt ==
  ASSUME NEW e \in [Kinds -> Nat]
  PROVE  LockedDelta(e) \in Int /\ AvailableDelta(e) \in Int
BY KindsElements DEF LockedDelta, AvailableDelta

\* What two ledger rows do to the locked balance is the sum of what each does.
LEMMA DeltaPlus ==
  ASSUME NEW e \in [Kinds -> Nat], NEW f \in [Kinds -> Nat]
  PROVE  LockedDelta(Plus(e, f)) = LockedDelta(e) + LockedDelta(f)
BY PlusType, KindsElements DEF LockedDelta

-----------------------------------------------------------------------------
(* The inductive invariant.                                                *)

\* A row of the predictions table, the ledger rows that refer to it and its
\* release flag agree.
RowOK(row, e, rel) ==
    IF row = Absent THEN e = NoEntries /\ rel = FALSE
    ELSE /\ LockedDelta(e) = IF row.status = "open" THEN row.stake ELSE 0
         /\ rel <=> row.status \in {"revised", "canceled"} \/ row.outcome = "won"
         /\ row.outcome # "null" <=> row.status = "resolved"

RowsOK == \A p \in Predictions : RowOK(prediction[p], ledger[p], released[p])

WalletInv ==
    /\ prediction \in [Predictions -> PredictionRow \cup {Absent}]
    /\ LedgerTypeOK
    /\ WalletTypeOK
    /\ RowsOK
    /\ LockedIsOpenStakes

Inv ==
    /\ MarketTypeOK
    /\ WalletInv
    /\ request \in [Requests -> RequestRow \cup {Idle}]

-----------------------------------------------------------------------------
(* Recording rows preserves the wallet invariant when each row it touches  *)
(* still agrees with its ledger.                                           *)

\* A total over the elements that count is a total over all of them.
LEMMA SumOfCounted ==
  ASSUME NEW owned \in SUBSET Predictions, NEW open \in SUBSET owned,
         NEW stake, NEW held,
         \A p \in open : stake[p] = held[p],
         \A p \in owned : held[p] \in Int,
         \A p \in owned \ open : held[p] = 0
  PROVE  SumOver(stake, open) = SumOver(held, owned)
<1>1. IsFiniteSet(owned) /\ IsFiniteSet(open)
  BY FS_Subset, SettlementAssumption
<1>2. SumOver(stake, open) = SumOver(held, open)
  BY <1>1, SumCongruence
<1>3. SumOver(held, owned) = SumOver(held, open)
  BY <1>1, SumZeros
<1> QED BY <1>2, <1>3

\* Record keeps the wallet invariant if no row changes owner or disappears and
\* each row it writes agrees with the ledger it leaves.
LEMMA RecordPreserves ==
  ASSUME WalletInv,
         NEW rows \in [Predictions -> PredictionRow \cup {Absent}],
         NEW posted \in [Predictions -> [Kinds -> Nat]],
         Record(rows, posted),
         \A p \in Predictions : prediction[p] # Absent =>
             rows[p] # Absent /\ rows[p].user = prediction[p].user,
         \A p \in Predictions :
             RowOK(rows[p], Plus(ledger[p], posted[p]), ReleasedAfter(released[p], posted[p]))
  PROVE  WalletInv'
<1>0. /\ prediction \in [Predictions -> PredictionRow \cup {Absent}]
      /\ ledger \in [Predictions -> [Kinds -> Nat]]
      /\ LockedIsOpenStakes
      /\ \A p \in Predictions : RowOK(prediction[p], ledger[p], released[p])
  BY DEF WalletInv, LedgerTypeOK, RowsOK
<1>1. prediction' = rows
  BY DEF Record
<1>2. ledger' = [p \in Predictions |-> Plus(ledger[p], posted[p])]
  BY DEF Record
<1>3. ledger' \in [Predictions -> [Kinds -> Nat]]
  BY <1>2, PlusType DEF WalletInv, LedgerTypeOK
<1>4. released' = [p \in Predictions |-> ReleasedAfter(released[p], posted[p])]
  BY DEF Record
<1>5. released' \in [Predictions -> BOOLEAN]
  BY <1>4 DEF ReleasedAfter
<1>6. \A p \in Predictions : RowOK(prediction'[p], ledger'[p], released'[p])
  BY <1>1, <1>2, <1>4
<1> DEFINE owned(u) == {p \in Predictions : rows[p] # Absent /\ rows[p].user = u}
           before(u) == {p \in Predictions : prediction[p] # Absent /\ prediction[p].user = u}
           openAfter(u) == {p \in {q \in Predictions : rows[q] # Absent} :
                              rows[p].user = u /\ rows[p].status = "open"}
           openBefore(u) == {p \in {q \in Predictions : prediction[q] # Absent} :
                              prediction[p].user = u /\ prediction[p].status = "open"}
           stakeBefore(u) == [p \in openBefore(u) |-> prediction[p].stake]
           stakeAfter(u) == [p \in openAfter(u) |-> rows[p].stake]
           held == [p \in Predictions |-> LockedDelta(ledger[p])]
           heldAfter == [p \in Predictions |-> LockedDelta(ledger'[p])]
           moved == [p \in Predictions |-> LockedDelta(posted[p])]
           paid == [p \in Predictions |-> AvailableDelta(posted[p])]
<1>7. \A p \in Predictions : /\ held[p] \in Int /\ moved[p] \in Int /\ paid[p] \in Int
                             /\ heldAfter[p] \in Int
                             /\ heldAfter[p] = held[p] + moved[p]
  BY <1>2, DeltaInt, DeltaPlus DEF WalletInv, LedgerTypeOK
<1>8. ASSUME NEW u \in Users
      PROVE  /\ available'[u] = available[u] + SumOver(paid, owned(u))
             /\ locked'[u] = locked[u] + SumOver(moved, owned(u))
  BY DEF Record
<1>9. ASSUME NEW u \in Users
      PROVE  locked'[u] = SumOver(stakeAfter(u), openAfter(u))
  <2>1. locked[u] = SumOver(stakeBefore(u), openBefore(u))
    BY <1>0, Zenon DEF LockedIsOpenStakes, StakeSum, Rows
  <2>2. SumOver(stakeBefore(u), openBefore(u)) = SumOver(held, before(u))
    <3>1. before(u) \in SUBSET Predictions /\ openBefore(u) \in SUBSET before(u)
      OBVIOUS
    <3>2. \A p \in before(u) : held[p] \in Int
      BY <1>7
    <3>3. \A p \in openBefore(u) : stakeBefore(u)[p] = held[p]
      BY <1>0 DEF RowOK
    <3>4. \A p \in before(u) \ openBefore(u) : held[p] = 0
      BY <1>0 DEF RowOK
    <3> HIDE DEF before, openBefore, stakeBefore, held
    <3> QED BY <3>1, <3>2, <3>3, <3>4, SumOfCounted
  <2>3. SumOver(stakeAfter(u), openAfter(u)) = SumOver(heldAfter, owned(u))
    <3>1. owned(u) \in SUBSET Predictions /\ openAfter(u) \in SUBSET owned(u)
      OBVIOUS
    <3>2. \A p \in owned(u) : heldAfter[p] \in Int
      BY <1>7
    <3>3. \A p \in openAfter(u) : stakeAfter(u)[p] = heldAfter[p]
      BY <1>1, <1>6 DEF RowOK
    <3>4. \A p \in owned(u) \ openAfter(u) : heldAfter[p] = 0
      BY <1>1, <1>6 DEF RowOK
    <3> HIDE DEF owned, openAfter, stakeAfter, heldAfter
    <3> QED BY <3>1, <3>2, <3>3, <3>4, SumOfCounted
  <2>4. before(u) \in SUBSET owned(u) /\ IsFiniteSet(owned(u)) /\ owned(u) \in SUBSET Predictions
    <3>1. before(u) \in SUBSET owned(u) /\ owned(u) \in SUBSET Predictions
      OBVIOUS
    <3> QED BY <3>1, FS_Subset, SettlementAssumption
  <2>5. \A p \in owned(u) \ before(u) : held[p] = 0
    <3>1. ASSUME NEW p \in owned(u) \ before(u) PROVE prediction[p] = Absent
      OBVIOUS
    <3>2. ASSUME NEW p \in owned(u) \ before(u) PROVE ledger[p] = NoEntries
      BY <1>0, <3>1 DEF RowOK
    <3>3. LockedDelta(NoEntries) = 0
      BY KindsElements DEF LockedDelta, NoEntries
    <3> QED BY <3>2, <3>3
  <2>6. \A p \in owned(u) : /\ held[p] \in Int /\ moved[p] \in Int
                            /\ heldAfter[p] = held[p] + moved[p]
    BY <1>7
  <2>7. locked'[u] = locked[u] + SumOver(moved, owned(u))
    BY <1>8
  <2> HIDE DEF before, owned, openAfter, openBefore, stakeBefore, stakeAfter,
               held, heldAfter, moved, paid
  <2>8. SumOver(held, owned(u)) = SumOver(held, before(u))
    BY <2>4, <2>5, <2>6, SumZeros
  <2>9. SumOver(heldAfter, owned(u)) = SumOver(held, owned(u)) + SumOver(moved, owned(u))
    BY <2>4, <2>6, SumPlus
  <2> QED BY <2>1, <2>2, <2>3, <2>7, <2>8, <2>9
<1>10. LockedIsOpenStakes'
  BY <1>1, <1>9 DEF LockedIsOpenStakes, StakeSum, Rows
<1>11. ASSUME NEW u \in Users PROVE available'[u] \in Int /\ locked'[u] \in Nat
  <2>1. IsFiniteSet(owned(u)) /\ IsFiniteSet(openAfter(u))
    <3>1. openAfter(u) \in SUBSET Predictions /\ owned(u) \in SUBSET Predictions
      OBVIOUS
    <3> QED BY <3>1, FS_Subset, SettlementAssumption
  <2>2. \A p \in owned(u) : paid[p] \in Int
    BY <1>7
  <2>3. \A p \in openAfter(u) : stakeAfter(u)[p] \in Nat
    BY DEF PredictionRow
  <2>4. available[u] \in Int
    BY DEF WalletInv, WalletTypeOK
  <2>5. available'[u] = available[u] + SumOver(paid, owned(u))
    BY <1>8
  <2> HIDE DEF owned, openAfter, stakeAfter, paid
  <2>6. SumOver(paid, owned(u)) \in Int
    BY <2>1, <2>2, SumInt
  <2>7. SumOver(stakeAfter(u), openAfter(u)) \in Nat
    BY <2>1, <2>3, SumNat
  <2> QED BY <1>9, <2>4, <2>5, <2>6, <2>7
<1>12. WalletTypeOK'
  <2>1. available' = [u \in Users |-> available'[u]] /\ locked' = [u \in Users |-> locked'[u]]
    BY DEF Record
  <2> QED BY <1>11, <2>1 DEF WalletTypeOK
<1> QED BY <1>1, <1>3, <1>5, <1>6, <1>10, <1>12 DEF WalletInv, LedgerTypeOK, RowsOK

-----------------------------------------------------------------------------
(* Single rows.                                                            *)

\* The effect of the ledger entries the actions post.
LEMMA EntryEffect ==
  ASSUME NEW n \in Nat
  PROVE  /\ LockedDelta(Entry("lock", n)) = n
         /\ LockedDelta(Entry("release", n)) = -n
         /\ LockedDelta(Entry("settle", n)) = -n
         /\ LockedDelta(NoEntries) = 0
         /\ \A k \in {"payout", "reversal", "recredit", "penalty"} :
               LockedDelta(Entry(k, n)) = 0
<1>1. /\ \A k \in Kinds : NoEntries[k] = 0
      /\ \A kind, k \in Kinds : Entry(kind, n)[k] = IF k = kind THEN n ELSE 0
  BY EntryType
<1>2. LockedDelta(Entry("lock", n)) = n - 0 - 0
  BY <1>1, KindsElements DEF LockedDelta
<1>3. LockedDelta(Entry("release", n)) = 0 - n - 0
  BY <1>1, KindsElements DEF LockedDelta
<1>4. LockedDelta(Entry("settle", n)) = 0 - 0 - n
  BY <1>1, KindsElements DEF LockedDelta
<1>5. LockedDelta(NoEntries) = 0 - 0 - 0
  BY <1>1, KindsElements DEF LockedDelta
<1>6. ASSUME NEW k \in {"payout", "reversal", "recredit", "penalty"}
      PROVE  LockedDelta(Entry(k, n)) = 0 - 0 - 0
  BY <1>1, KindsElements DEF LockedDelta
<1> QED BY <1>2, <1>3, <1>4, <1>5, <1>6

Relocks(f, n) ==
    f \in [Kinds -> Nat] /\ LockedDelta(f) = n /\ \A rel : ~ReleasedAfter(rel, f)

Releases(f, n) ==
    f \in [Kinds -> Nat] /\ LockedDelta(f) = -n /\ \A rel : ReleasedAfter(rel, f)

\* Posting the lock of a stake (with or without other credits and debits) makes
\* the ledger hold the stake and clears the release flag.
LEMMA LockEffect ==
  ASSUME NEW n \in Nat \ {0}, NEW a \in Nat,
         NEW k \in {"reversal", "recredit", "penalty"}
  PROVE  /\ Relocks(Entry("lock", n), n)
         /\ Relocks(Plus(Entry(k, a), Entry("lock", n)), n)
<1> DEFINE e == Entry("lock", n)
           f == Entry(k, a)
<1>0. /\ \A x \in Kinds : e[x] = IF x = "lock" THEN n ELSE 0
      /\ \A x \in Kinds : f[x] = IF x = k THEN a ELSE 0
      /\ e \in [Kinds -> Nat] /\ f \in [Kinds -> Nat]
  <2>1. k \in Kinds
    BY KindsElements
  <2> QED BY <2>1, EntryType, KindsElements
<1>1. /\ e \in [Kinds -> Nat] /\ f \in [Kinds -> Nat]
      /\ e["lock"] = n /\ f["lock"] = 0
  <2> HIDE DEF e, f
  <2> QED BY <1>0, KindsElements
<1>2. LockedDelta(e) = n /\ LockedDelta(f) = 0
  BY EntryEffect
<1> HIDE DEF e, f
<1>3. Relocks(e, n)
  BY <1>1, <1>2 DEF Relocks, ReleasedAfter
<1>4. /\ Plus(f, e) \in [Kinds -> Nat] /\ Plus(f, e)["lock"] = 0 + n
      /\ LockedDelta(Plus(f, e)) = 0 + n
  BY <1>1, <1>2, PlusType, DeltaPlus, KindsElements
<1>5. Relocks(Plus(f, e), n)
  BY <1>4 DEF Relocks, ReleasedAfter
<1> QED BY <1>3, <1>5 DEF e, f

\* Posting a release (with or without a payout) takes the stake out of the
\* locked balance and raises the flag.
LEMMA ReleaseEffect ==
  ASSUME NEW n \in Nat \ {0}, NEW a \in Nat
  PROVE  /\ Releases(Entry("release", n), n)
         /\ Releases(Plus(Entry("release", n), Entry("payout", a)), n)
<1> DEFINE e == Entry("release", n)
           f == Entry("payout", a)
<1>0. /\ \A x \in Kinds : e[x] = IF x = "release" THEN n ELSE 0
      /\ \A x \in Kinds : f[x] = IF x = "payout" THEN a ELSE 0
      /\ e \in [Kinds -> Nat] /\ f \in [Kinds -> Nat]
  BY EntryType, KindsElements
<1>1. /\ e \in [Kinds -> Nat] /\ f \in [Kinds -> Nat]
      /\ e["lock"] = 0 /\ f["lock"] = 0 /\ e["release"] = n /\ f["release"] = 0
  <2> HIDE DEF e, f
  <2> QED BY <1>0, KindsElements
<1>2. LockedDelta(e) = -n /\ LockedDelta(f) = 0
  BY EntryEffect
<1> HIDE DEF e, f
<1>3. Releases(e, n)
  BY <1>1, <1>2 DEF Releases, ReleasedAfter
<1>4. /\ Plus(e, f) \in [Kinds -> Nat]
      /\ Plus(e, f)["lock"] = 0 + 0 /\ Plus(e, f)["release"] = n + 0
      /\ LockedDelta(Plus(e, f)) = -n + 0
  BY <1>1, <1>2, PlusType, DeltaPlus, KindsElements
<1>5. Releases(Plus(e, f), n)
  BY <1>4 DEF Releases, ReleasedAfter
<1> QED BY <1>3, <1>5 DEF e, f

\* A row nothing is posted for keeps its agreement with the ledger.
LEMMA RowKept ==
  ASSUME NEW row, NEW e \in [Kinds -> Nat], NEW rel \in BOOLEAN, RowOK(row, e, rel)
  PROVE  RowOK(row, Plus(e, NoEntries), ReleasedAfter(rel, NoEntries))
<1>1. Plus(e, NoEntries) = e
  BY DEF Plus, NoEntries
<1>2. ReleasedAfter(rel, NoEntries) = rel
  BY KindsElements DEF ReleasedAfter, NoEntries
<1> QED BY <1>1, <1>2

\* A row agrees with its ledger again when what is posted moves the locked
\* amount from what it was to what it should be.
LEMMA RowMoved ==
  ASSUME NEW was \in PredictionRow \cup {Absent}, NEW row \in PredictionRow,
         NEW e \in [Kinds -> Nat], NEW f \in [Kinds -> Nat], NEW rel \in BOOLEAN,
         RowOK(was, e, rel),
         row.outcome # "null" <=> row.status = "resolved",
         LockedDelta(f) = (IF row.status = "open" THEN row.stake ELSE 0)
             - (IF was # Absent /\ was.status = "open" THEN was.stake ELSE 0),
         ReleasedAfter(rel, f) <=>
             row.status \in {"revised", "canceled"} \/ row.outcome = "won"
  PROVE  RowOK(row, Plus(e, f), ReleasedAfter(rel, f))
<1>1. row # Absent
  BY SettlementAssumption
<1>2. LockedDelta(e) = IF was # Absent /\ was.status = "open" THEN was.stake ELSE 0
  <2>1. CASE was = Absent
    BY <2>1, EntryEffect DEF RowOK
  <2>2. CASE was # Absent
    BY <2>2 DEF RowOK
  <2> QED BY <2>1, <2>2
<1>3. LockedDelta(Plus(e, f)) = LockedDelta(e) + LockedDelta(f)
  BY DeltaPlus
<1>4. LockedDelta(Plus(e, f)) = IF row.status = "open" THEN row.stake ELSE 0
  BY <1>2, <1>3, DeltaInt DEF PredictionRow
<1> QED BY <1>1, <1>4 DEF RowOK

\* The row a position request inserts is a row of the table.
LEMMA NewRowType ==
  ASSUME prediction \in [Predictions -> PredictionRow \cup {Absent}],
         NEW u \in Users, NEW m \in Markets, NEW option \in Options,
         NEW action \in Actions, NEW stake \in Nat \ {0}, NEW price \in Prices
  PROVE  /\ NewRow(u, m, option, action, stake, price) \in PredictionRow
         /\ NewRow(u, m, option, action, stake, price).user = u
         /\ NewRow(u, m, option, action, stake, price).market = m
         /\ NewRow(u, m, option, action, stake, price).stake = stake
         /\ NewRow(u, m, option, action, stake, price).status = "open"
         /\ NewRow(u, m, option, action, stake, price).outcome = "null"
<1>1. Positions(u, m) \in SUBSET Predictions
  BY DEF Positions, InMarket, Rows
<1>2. Cardinality(Positions(u, m)) + 1 \in Nat
  BY <1>1, FS_Subset, FS_CardinalityType, SettlementAssumption
<1>3. Payout(stake, price) \in Nat
  BY PayoutNat, SettlementAssumption
<1> QED BY <1>2, <1>3 DEF NewRow, PredictionRow

-----------------------------------------------------------------------------
(* One lemma per action that writes positions.                             *)

\* Opening a position (create_prediction, create_position_action, the agent
\* cycle) keeps the wallet invariant.
LEMMA OpenPreserves ==
  ASSUME Inv, NEW r \in Requests, NEW p \in Predictions, NEW option \in Options,
         NEW stake \in Stakes, NEW price \in Prices,
         request[r] # Idle, Open(r, p, option, stake, price)
  PROVE  WalletInv'
<1> DEFINE q == request[r]
           row == NewRow(q.user, q.market, option, q.action, stake, price)
           rows == [prediction EXCEPT ![p] = row]
           posted == [x \in Predictions |-> IF x = p THEN Entry("lock", stake) ELSE NoEntries]
<1>1. q.user \in Users /\ q.market \in Markets /\ q.action \in Actions
  BY DEF Inv, RequestRow
<1>2. stake \in Nat \ {0}
  BY SettlementAssumption
<1>3. /\ prediction \in [Predictions -> PredictionRow \cup {Absent}]
      /\ ledger \in [Predictions -> [Kinds -> Nat]]
      /\ released \in [Predictions -> BOOLEAN]
      /\ \A x \in Predictions : RowOK(prediction[x], ledger[x], released[x])
      /\ WalletInv
  BY DEF Inv, WalletInv, LedgerTypeOK, RowsOK
<1>4. prediction[p] = Absent /\ Record(rows, posted)
  BY DEF Open
<1>5. /\ row \in PredictionRow /\ row.stake = stake
      /\ row.status = "open" /\ row.outcome = "null"
  BY <1>1, <1>2, <1>3, NewRowType
<1>6. row # Absent
  BY <1>5, SettlementAssumption
<1> HIDE DEF q, row
<1>7. rows \in [Predictions -> PredictionRow \cup {Absent}]
  BY <1>3, <1>5
<1>8. posted \in [Predictions -> [Kinds -> Nat]]
  BY <1>2, EntryType, KindsElements
<1>9. \A x \in Predictions : prediction[x] # Absent =>
          rows[x] # Absent /\ rows[x].user = prediction[x].user
  BY <1>3, <1>4
<1>10. ASSUME NEW x \in Predictions
       PROVE  RowOK(rows[x], Plus(ledger[x], posted[x]), ReleasedAfter(released[x], posted[x]))
  <2>1. CASE x = p
    <3>1. rows[x] = row /\ posted[x] = Entry("lock", stake)
      BY <1>3, <2>1
    <3>2. Relocks(posted[x], stake)
      BY <1>2, <3>1, LockEffect
    <3>3. prediction[x] = Absent /\ RowOK(prediction[x], ledger[x], released[x])
      BY <1>3, <1>4, <2>1
    <3>4. LockedDelta(posted[x]) = stake - 0
      BY <1>2, <3>2 DEF Relocks
    <3>5. posted[x] \in [Kinds -> Nat] /\ ~ReleasedAfter(released[x], posted[x])
      BY <3>2 DEF Relocks
    <3>6. RowOK(row, Plus(ledger[x], posted[x]), ReleasedAfter(released[x], posted[x]))
      <4> HIDE DEF posted
      <4> QED BY <1>3, <1>5, <3>3, <3>4, <3>5, RowMoved
    <3> QED BY <3>1, <3>6
  <2>2. CASE x # p
    <3>1. rows[x] = prediction[x] /\ posted[x] = NoEntries
      BY <1>3, <2>2
    <3> QED BY <1>3, <3>1, RowKept
  <2> QED BY <2>1, <2>2
<1> HIDE DEF rows, posted
<1> QED BY <1>3, <1>4, <1>7, <1>8, <1>9, <1>10, RecordPreserves

\* The total stake of any set of positions is a natural number.
LEMMA ActiveStakes ==
  ASSUME prediction \in [Predictions -> PredictionRow \cup {Absent}],
         NEW S \in SUBSET Rows(Predictions)
  PROVE  StakeSum(S) \in Nat
<1>1. IsFiniteSet(S)
  BY FS_Subset, SettlementAssumption DEF Rows
<1>2. \A p \in S : [x \in S |-> prediction[x].stake][p] \in Nat
  BY DEF Rows, PredictionRow
<1> QED BY <1>1, <1>2, SumNat DEF StakeSum

\* Revising a position keeps the wallet invariant: the stakes it releases are
\* those the ledger holds, and the new one is locked.
LEMMA RevisionPreserves ==
  ASSUME Inv, NEW r \in Requests, NEW p \in Predictions, NEW option \in Options,
         NEW price \in Prices, CommitRevision(r, p, option, price)
  PROVE  WalletInv'
<1> DEFINE u == request[r].user
           m == request[r].market
           active == ActivePositions(u, m)
           penalty == Penalty(StakeSum(active))
           stake == StakeSum(active) - penalty
           row == NewRow(u, m, option, "revision", stake, price)
           rows == [x \in Predictions |->
                      IF x = p THEN row
                      ELSE IF x \in active THEN [prediction[x] EXCEPT !.status = "revised"]
                      ELSE prediction[x]]
           posted == [x \in Predictions |->
                        IF x = p THEN Plus(Entry("penalty", penalty), Entry("lock", stake))
                        ELSE IF x \in active THEN Entry("release", prediction[x].stake)
                        ELSE NoEntries]
<1>1. u \in Users /\ m \in Markets
  BY DEF Inv, RequestRow, CommitRevision
<1>2. /\ prediction \in [Predictions -> PredictionRow \cup {Absent}]
      /\ ledger \in [Predictions -> [Kinds -> Nat]]
      /\ released \in [Predictions -> BOOLEAN]
      /\ \A x \in Predictions : RowOK(prediction[x], ledger[x], released[x])
      /\ WalletInv
  BY DEF Inv, WalletInv, LedgerTypeOK, RowsOK
<1>3. prediction[p] = Absent /\ stake >= MinRemaining /\ Record(rows, posted)
  BY DEF CommitRevision
<1>4. active \in SUBSET Rows(Predictions)
  BY DEF ActivePositions, Positions, InMarket
<1>5. penalty \in Nat /\ stake \in Nat \ {0}
  <2>1. StakeSum(active) \in Nat
    BY <1>2, <1>4, ActiveStakes
  <2>2. penalty \in Nat
    BY <2>1, PenaltyNat
  <2>3. MinRemaining \in Nat \ {0}
    BY SettlementAssumption
  <2> QED BY <1>3, <2>1, <2>2, <2>3
<1>6. /\ row \in PredictionRow /\ row.stake = stake
      /\ row.status = "open" /\ row.outcome = "null"
  <2> HIDE DEF stake
  <2> QED BY <1>1, <1>2, <1>5, NewRowType DEF Actions
<1>7. ASSUME NEW x \in active
      PROVE  /\ x \in Predictions /\ x # p
             /\ prediction[x] \in PredictionRow
             /\ prediction[x].status = "open" /\ prediction[x].outcome = "null"
             /\ prediction[x] # Absent
  BY <1>2, <1>3 DEF ActivePositions, Positions, InMarket, Rows, RowOK
<1>8. row # Absent
  BY <1>6, SettlementAssumption
<1> HIDE DEF u, m, active, penalty, stake, row
<1>9. ASSUME NEW x \in active
      PROVE  /\ [prediction[x] EXCEPT !.status = "revised"] \in PredictionRow
             /\ [prediction[x] EXCEPT !.status = "revised"] # Absent
             /\ [prediction[x] EXCEPT !.status = "revised"].user = prediction[x].user
             /\ [prediction[x] EXCEPT !.status = "revised"].status = "revised"
             /\ [prediction[x] EXCEPT !.status = "revised"].outcome = "null"
  <2>1. [prediction[x] EXCEPT !.status = "revised"] \in PredictionRow
    BY <1>7 DEF PredictionRow
  <2> QED BY <1>7, <2>1, SettlementAssumption DEF PredictionRow
<1>10. rows \in [Predictions -> PredictionRow \cup {Absent}]
  BY <1>2, <1>6, <1>9
<1>11. ASSUME NEW x \in active
       PROVE  Releases(Entry("release", prediction[x].stake), prediction[x].stake)
  BY <1>7, ReleaseEffect DEF PredictionRow
<1>12. Relocks(Plus(Entry("penalty", penalty), Entry("lock", stake)), stake)
  BY <1>5, LockEffect
<1>13. NoEntries \in [Kinds -> Nat]
  BY EntryType, KindsElements
<1>14. posted \in [Predictions -> [Kinds -> Nat]]
  BY <1>11, <1>12, <1>13 DEF Relocks, Releases
<1>15. \A x \in Predictions : prediction[x] # Absent =>
          rows[x] # Absent /\ rows[x].user = prediction[x].user
  BY <1>3, <1>9
<1>16. ASSUME NEW x \in Predictions
       PROVE  RowOK(rows[x], Plus(ledger[x], posted[x]), ReleasedAfter(released[x], posted[x]))
  <2>1. CASE x = p
    <3>1. rows[x] = row /\ posted[x] = Plus(Entry("penalty", penalty), Entry("lock", stake))
      BY <2>1
    <3>2. /\ posted[x] \in [Kinds -> Nat] /\ LockedDelta(posted[x]) = stake - 0
          /\ ~ReleasedAfter(released[x], posted[x])
      BY <1>5, <1>12, <3>1 DEF Relocks
    <3> HIDE DEF rows, posted
    <3> QED BY <1>2, <1>3, <1>6, <2>1, <3>1, <3>2, RowMoved
  <2>2. CASE x \in active
    <3> DEFINE new == [prediction[x] EXCEPT !.status = "revised"]
    <3>1. rows[x] = new /\ posted[x] = Entry("release", prediction[x].stake)
      BY <1>7, <2>2
    <3>2. /\ posted[x] \in [Kinds -> Nat] /\ LockedDelta(posted[x]) = 0 - prediction[x].stake
          /\ ReleasedAfter(released[x], posted[x])
      BY <1>7, <1>11, <2>2, <3>1 DEF Releases, PredictionRow
    <3>3. new \in PredictionRow /\ new.status = "revised" /\ new.outcome = "null"
      BY <1>9, <2>2
    <3> HIDE DEF rows, posted, new
    <3> QED BY <1>2, <1>7, <2>2, <3>1, <3>2, <3>3, RowMoved
  <2>3. CASE x # p /\ x \notin active
    <3>1. rows[x] = prediction[x] /\ posted[x] = NoEntries
      BY <2>3
    <3> QED BY <1>2, <3>1, RowKept
  <2> QED BY <2>1, <2>2, <2>3
<1> HIDE DEF rows, posted
<1> QED BY <1>2, <1>3, <1>10, <1>14, <1>15, <1>16, RecordPreserves

\* Writing status and outcome of a position changes nothing else in its row.
Reclassify(row, status, outcome) == [row EXCEPT !.status = status, !.outcome = outcome]

\* What Reclassify leaves and what it changes.
LEMMA Reclassified ==
  ASSUME NEW row \in PredictionRow,
         NEW status \in {"open", "resolved", "canceled", "revised"},
         NEW outcome \in {"won", "lost", "null"}
  PROVE  /\ Reclassify(row, status, outcome) \in PredictionRow
         /\ Reclassify(row, status, outcome) # Absent
         /\ Reclassify(row, status, outcome).user = row.user
         /\ Reclassify(row, status, outcome).market = row.market
         /\ Reclassify(row, status, outcome).option = row.option
         /\ Reclassify(row, status, outcome).stake = row.stake
         /\ Reclassify(row, status, outcome).payout = row.payout
         /\ Reclassify(row, status, outcome).status = status
         /\ Reclassify(row, status, outcome).outcome = outcome
<1> DEFINE new == [row EXCEPT !.status = status, !.outcome = outcome]
<1>1. new \in PredictionRow
  BY DEF PredictionRow
<1>2. /\ new.user = row.user /\ new.market = row.market
      /\ new.option = row.option /\ new.stake = row.stake /\ new.payout = row.payout
      /\ new.status = status /\ new.outcome = outcome
  BY DEF PredictionRow
<1> QED BY <1>1, <1>2, SettlementAssumption DEF Reclassify

\* What the wallet invariant says of the positions of a market in one status.
LEMMA StatusRows ==
  ASSUME WalletInv, NEW m, NEW status, NEW x \in WithStatus(m, status)
  PROVE  /\ x \in Predictions /\ prediction[x] \in PredictionRow
         /\ prediction[x] # Absent /\ prediction[x].stake \in Nat \ {0}
         /\ prediction[x].market = m /\ prediction[x].status = status
         /\ prediction[x].outcome # "null" <=> status = "resolved"
         /\ status = "open" => ~released[x]
<1>1. x \in Predictions /\ prediction[x] # Absent /\ prediction[x].status = status
      /\ prediction[x].market = m
  BY DEF WithStatus, InMarket, Rows
<1>2. prediction[x] \in PredictionRow
  BY <1>1 DEF WalletInv
<1>3. RowOK(prediction[x], ledger[x], released[x])
  BY <1>1 DEF WalletInv, RowsOK
<1>4. prediction[x].stake \in Nat \ {0}
  BY <1>2 DEF PredictionRow
<1>5. released[x] \in BOOLEAN
  BY <1>1 DEF WalletInv, LedgerTypeOK
<1> QED BY <1>1, <1>2, <1>3, <1>4, <1>5 DEF RowOK

\* Refunding the open positions of a market keeps the wallet invariant.
LEMMA RefundPreserves ==
  ASSUME WalletInv, NEW m \in Markets, RefundOpen(m)
  PROVE  WalletInv'
<1> DEFINE open == WithStatus(m, "open")
           due == {p \in open : ~released[p]}
           new(p) == Reclassify(prediction[p], "canceled", "null")
           rows == [p \in Predictions |-> IF p \in open THEN new(p) ELSE prediction[p]]
           posted == [p \in Predictions |->
                        IF p \in due THEN Entry("release", prediction[p].stake)
                        ELSE NoEntries]
<1>1. Record(rows, posted)
  BY DEF RefundOpen, Refundable, Reclassify
<1>2. /\ prediction \in [Predictions -> PredictionRow \cup {Absent}]
      /\ ledger \in [Predictions -> [Kinds -> Nat]]
      /\ released \in [Predictions -> BOOLEAN]
      /\ \A x \in Predictions : RowOK(prediction[x], ledger[x], released[x])
  BY DEF WalletInv, LedgerTypeOK, RowsOK
<1>3. ASSUME NEW x \in open
      PROVE  /\ x \in due /\ x \in Predictions /\ prediction[x] # Absent
             /\ prediction[x] \in PredictionRow /\ prediction[x].status = "open"
             /\ prediction[x].stake \in Nat \ {0}
             /\ new(x) \in PredictionRow /\ new(x) # Absent
             /\ new(x).user = prediction[x].user
             /\ new(x).status = "canceled" /\ new(x).outcome = "null"
             /\ Releases(Entry("release", prediction[x].stake), prediction[x].stake)
  <2>1. /\ x \in Predictions /\ prediction[x] # Absent /\ prediction[x] \in PredictionRow
        /\ prediction[x].stake \in Nat \ {0} /\ prediction[x].status = "open" /\ ~released[x]
    BY StatusRows
  <2>2. /\ new(x) \in PredictionRow /\ new(x) # Absent
        /\ new(x).user = prediction[x].user
        /\ new(x).status = "canceled" /\ new(x).outcome = "null"
    BY <2>1, Reclassified
  <2> QED BY <2>1, <2>2, ReleaseEffect
<1>4. open \in SUBSET Predictions /\ due = open
  BY <1>3
<1> HIDE DEF open, due, new
<1>5. rows \in [Predictions -> PredictionRow \cup {Absent}]
  BY <1>2, <1>3
<1>6. NoEntries \in [Kinds -> Nat]
  BY EntryType, KindsElements
<1>7. posted \in [Predictions -> [Kinds -> Nat]]
  BY <1>3, <1>4, <1>6 DEF Releases
<1>8. \A x \in Predictions : prediction[x] # Absent =>
          rows[x] # Absent /\ rows[x].user = prediction[x].user
  BY <1>3
<1>9. ASSUME NEW x \in Predictions
      PROVE  RowOK(rows[x], Plus(ledger[x], posted[x]), ReleasedAfter(released[x], posted[x]))
  <2>1. CASE x \in open
    <3>1. rows[x] = new(x) /\ posted[x] = Entry("release", prediction[x].stake)
      BY <1>4, <2>1
    <3>2. /\ posted[x] \in [Kinds -> Nat] /\ LockedDelta(posted[x]) = 0 - prediction[x].stake
          /\ ReleasedAfter(released[x], posted[x])
      BY <1>3, <2>1, <3>1 DEF Releases
    <3> HIDE DEF rows, posted
    <3> QED BY <1>2, <1>3, <2>1, <3>1, <3>2, RowMoved
  <2>2. CASE x \notin open
    <3>1. rows[x] = prediction[x] /\ posted[x] = NoEntries
      BY <1>4, <2>2
    <3> QED BY <1>2, <3>1, RowKept
  <2> QED BY <2>1, <2>2
<1> HIDE DEF rows, posted
<1> QED BY <1>1, <1>5, <1>7, <1>8, <1>9, RecordPreserves

\* Resolving a market keeps the wallet invariant.
LEMMA ResolvePreserves ==
  ASSUME WalletInv, NEW m \in Markets, NEW option \in Options, Resolve(m, option)
  PROVE  WalletInv'
<1> DEFINE open == WithStatus(m, "open")
           result(p) == IF prediction[p].option = option THEN "won" ELSE "lost"
           new(p) == Reclassify(prediction[p], "resolved", result(p))
           rows == [p \in Predictions |-> IF p \in open THEN new(p) ELSE prediction[p]]
           posted == [p \in Predictions |->
                        IF p \in open THEN SettleEntries(p, option) ELSE NoEntries]
<1>1. Record(rows, posted)
  <2>1. rows = [p \in Predictions |->
                     IF p \in open
                     THEN [prediction[p] EXCEPT
                             !.status = "resolved",
                             !.outcome = IF prediction[p].option = option
                                         THEN "won" ELSE "lost"]
                     ELSE prediction[p]]
    BY DEF Reclassify
  <2> HIDE DEF rows
  <2> QED BY <2>1 DEF Resolve
<1>2. /\ prediction \in [Predictions -> PredictionRow \cup {Absent}]
      /\ ledger \in [Predictions -> [Kinds -> Nat]]
      /\ released \in [Predictions -> BOOLEAN]
      /\ \A x \in Predictions : RowOK(prediction[x], ledger[x], released[x])
  BY DEF WalletInv, LedgerTypeOK, RowsOK
<1>3. ASSUME NEW x \in open
      PROVE  /\ x \in Predictions /\ prediction[x] # Absent
             /\ prediction[x] \in PredictionRow /\ prediction[x].status = "open"
             /\ prediction[x].stake \in Nat \ {0} /\ ~released[x]
             /\ new(x) \in PredictionRow /\ new(x) # Absent
             /\ new(x).user = prediction[x].user
             /\ new(x).status = "resolved" /\ new(x).outcome = result(x)
  <2>1. /\ x \in Predictions /\ prediction[x] # Absent /\ prediction[x] \in PredictionRow
        /\ prediction[x].stake \in Nat \ {0} /\ prediction[x].status = "open" /\ ~released[x]
    BY StatusRows
  <2>2. result(x) \in {"won", "lost", "null"}
    OBVIOUS
  <2> HIDE DEF result
  <2>3. /\ new(x) \in PredictionRow /\ new(x) # Absent
        /\ new(x).user = prediction[x].user
        /\ new(x).status = "resolved" /\ new(x).outcome = result(x)
    BY <2>1, <2>2, Reclassified
  <2> QED BY <2>1, <2>3
<1>4. ASSUME NEW x \in open
      PROVE  /\ SettleEntries(x, option) \in [Kinds -> Nat]
             /\ LockedDelta(SettleEntries(x, option)) = -prediction[x].stake
             /\ ReleasedAfter(released[x], SettleEntries(x, option)) <=> result(x) = "won"
  <2> DEFINE n == prediction[x].stake
             f == SettleEntries(x, option)
  <2>0. n \in Nat \ {0}
    BY <1>3
  <2>1. CASE prediction[x].option = option
    <3>1. NetPayout(prediction[x]) \in Nat
      <4>1. prediction[x].payout \in Nat /\ prediction[x].stake \in Nat
        BY <1>3 DEF PredictionRow
      <4> QED BY <4>1 DEF NetPayout
    <3>2. f = Plus(Entry("release", n), Entry("payout", NetPayout(prediction[x])))
      BY <2>1 DEF SettleEntries
    <3>3. Releases(f, n)
      <4> HIDE DEF f, n
      <4> QED BY <2>0, <3>1, <3>2, ReleaseEffect
    <3> QED BY <2>1, <3>3 DEF Releases
  <2>2. CASE prediction[x].option # option
    <3>1. f = Entry("settle", n)
      BY <2>2 DEF SettleEntries
    <3>2. f \in [Kinds -> Nat] /\ f["release"] = 0 /\ LockedDelta(f) = -n
      <4> HIDE DEF f, n
      <4>1. LockedDelta(f) = -n
        BY <2>0, <3>1, EntryEffect
      <4>2. f \in [Kinds -> Nat] /\ \A k \in Kinds : f[k] = IF k = "settle" THEN n ELSE 0
        <5>1. n \in Nat /\ "settle" \in Kinds
          BY <2>0, KindsElements
        <5> QED BY <3>1, <5>1, EntryType
      <4> QED BY <4>1, <4>2, KindsElements
    <3>3. ~ReleasedAfter(released[x], f)
      <4>1. ~released[x]
        BY <1>3
      <4> HIDE DEF f
      <4> QED BY <3>2, <4>1 DEF ReleasedAfter
    <3> QED BY <2>2, <3>2, <3>3
  <2> QED BY <2>1, <2>2
<1>5. open \in SUBSET Predictions /\ \A x \in open : result(x) \in {"won", "lost"}
  BY <1>3
<1> HIDE DEF open, new, result
<1>6. rows \in [Predictions -> PredictionRow \cup {Absent}]
  BY <1>2, <1>3
<1>7. posted \in [Predictions -> [Kinds -> Nat]]
  <2>1. NoEntries \in [Kinds -> Nat]
    BY EntryType, KindsElements
  <2> QED BY <1>4, <2>1
<1>8. \A x \in Predictions : prediction[x] # Absent =>
          rows[x] # Absent /\ rows[x].user = prediction[x].user
  BY <1>3
<1>9. ASSUME NEW x \in Predictions
      PROVE  RowOK(rows[x], Plus(ledger[x], posted[x]), ReleasedAfter(released[x], posted[x]))
  <2>1. CASE x \in open
    <3>1. rows[x] = new(x) /\ posted[x] = SettleEntries(x, option)
      BY <2>1
    <3>2. /\ posted[x] \in [Kinds -> Nat] /\ LockedDelta(posted[x]) = 0 - prediction[x].stake
          /\ ReleasedAfter(released[x], posted[x]) <=> result(x) = "won"
      BY <1>3, <1>4, <2>1, <3>1
    <3>3. /\ new(x) \in PredictionRow /\ new(x).outcome # "null"
          /\ new(x).status = "resolved" /\ (new(x).outcome = "won" <=> result(x) = "won")
      BY <1>3, <1>5, <2>1
    <3> HIDE DEF rows, posted
    <3> QED BY <1>2, <1>3, <2>1, <3>1, <3>2, <3>3, RowMoved
  <2>2. CASE x \notin open
    <3>1. rows[x] = prediction[x] /\ posted[x] = NoEntries
      BY <2>2
    <3> QED BY <1>2, <3>1, RowKept
  <2> QED BY <2>1, <2>2
<1> HIDE DEF rows, posted
<1> QED BY <1>1, <1>6, <1>7, <1>8, <1>9, RecordPreserves

\* Undoing a resolution keeps the wallet invariant.
LEMMA UndoPreserves ==
  ASSUME WalletInv, NEW m \in Markets, UndoResolution(m)
  PROVE  WalletInv'
<1> DEFINE settled == WithStatus(m, "resolved")
           new(p) == Reclassify(prediction[p], "open", "null")
           rows == [p \in Predictions |-> IF p \in settled THEN new(p) ELSE prediction[p]]
           posted == [p \in Predictions |->
                        IF p \in settled THEN RecallEntries(p) ELSE NoEntries]
<1>1. Record(rows, posted)
  BY DEF UndoResolution, Recallable, Reclassify
<1>2. /\ prediction \in [Predictions -> PredictionRow \cup {Absent}]
      /\ ledger \in [Predictions -> [Kinds -> Nat]]
      /\ released \in [Predictions -> BOOLEAN]
      /\ \A x \in Predictions : RowOK(prediction[x], ledger[x], released[x])
  BY DEF WalletInv, LedgerTypeOK, RowsOK
<1>3. ASSUME NEW x \in settled
      PROVE  /\ x \in Predictions /\ prediction[x] # Absent
             /\ prediction[x] \in PredictionRow /\ prediction[x].status = "resolved"
             /\ prediction[x].stake \in Nat \ {0}
             /\ new(x) \in PredictionRow /\ new(x) # Absent
             /\ new(x).user = prediction[x].user /\ new(x).stake = prediction[x].stake
             /\ new(x).status = "open" /\ new(x).outcome = "null"
  <2>1. /\ x \in Predictions /\ prediction[x] # Absent /\ prediction[x] \in PredictionRow
        /\ prediction[x].stake \in Nat \ {0} /\ prediction[x].status = "resolved"
    BY StatusRows
  <2>2. /\ new(x) \in PredictionRow /\ new(x) # Absent
        /\ new(x).user = prediction[x].user /\ new(x).stake = prediction[x].stake
        /\ new(x).status = "open" /\ new(x).outcome = "null"
    BY <2>1, Reclassified
  <2> QED BY <2>1, <2>2
<1>4. ASSUME NEW x \in settled PROVE Relocks(RecallEntries(x), prediction[x].stake)
  <2>1. prediction[x].stake \in Nat \ {0} /\ prediction[x].stake \in Nat
    BY <1>3
  <2>2. ledger[x]["payout"] \in Nat
    <3>1. x \in Predictions
      BY <1>3
    <3>2. ledger[x] \in [Kinds -> Nat]
      BY <1>2, <3>1
    <3> QED BY <3>2, KindsElements
  <2>3. CASE prediction[x].outcome = "won"
    BY <2>1, <2>2, <2>3, LockEffect DEF RecallEntries
  <2>4. CASE prediction[x].outcome # "won"
    BY <2>1, <2>4, LockEffect DEF RecallEntries
  <2> QED BY <2>3, <2>4
<1>5. settled \in SUBSET Predictions
  BY <1>3
<1> HIDE DEF settled, new
<1>6. rows \in [Predictions -> PredictionRow \cup {Absent}]
  BY <1>2, <1>3
<1>7. posted \in [Predictions -> [Kinds -> Nat]]
  <2>1. NoEntries \in [Kinds -> Nat]
    BY EntryType, KindsElements
  <2> QED BY <1>4, <2>1 DEF Relocks
<1>8. \A x \in Predictions : prediction[x] # Absent =>
          rows[x] # Absent /\ rows[x].user = prediction[x].user
  BY <1>3
<1>9. ASSUME NEW x \in Predictions
      PROVE  RowOK(rows[x], Plus(ledger[x], posted[x]), ReleasedAfter(released[x], posted[x]))
  <2>1. CASE x \in settled
    <3>1. rows[x] = new(x) /\ posted[x] = RecallEntries(x)
      BY <2>1
    <3>2. /\ posted[x] \in [Kinds -> Nat] /\ LockedDelta(posted[x]) = prediction[x].stake - 0
          /\ ~ReleasedAfter(released[x], posted[x])
      BY <1>3, <1>4, <2>1, <3>1 DEF Relocks
    <3> HIDE DEF rows, posted
    <3> QED BY <1>2, <1>3, <2>1, <3>1, <3>2, RowMoved
  <2>2. CASE x \notin settled
    <3>1. rows[x] = prediction[x] /\ posted[x] = NoEntries
      BY <2>2
    <3> QED BY <1>2, <3>1, RowKept
  <2> QED BY <2>1, <2>2
<1> HIDE DEF rows, posted
<1> QED BY <1>1, <1>6, <1>7, <1>8, <1>9, RecordPreserves

-----------------------------------------------------------------------------
(* The invariant holds in every state.                                     *)

\* The invariant holds initially.
LEMMA InitInv == Init => Inv
<1> SUFFICES ASSUME Init PROVE Inv
  OBVIOUS
<1>1. MarketTypeOK
  BY SettlementAssumption DEF Init, MarketTypeOK, Statuses, Clock
<1>2. request \in [Requests -> RequestRow \cup {Idle}]
  BY DEF Init
<1>3. prediction \in [Predictions -> PredictionRow \cup {Absent}]
  BY DEF Init
<1>4. LedgerTypeOK
  BY EntryType, KindsElements DEF Init, LedgerTypeOK
<1>5. WalletTypeOK
  BY SettlementAssumption DEF Init, WalletTypeOK
<1>6. RowsOK
  BY DEF Init, RowsOK, RowOK
<1>7. LockedIsOpenStakes
  <2>1. Rows(Predictions) = {}
    BY DEF Init, Rows
  <2>2. ASSUME NEW u \in Users
        PROVE  StakeSum({p \in Rows(Predictions) :
                   prediction[p].user = u /\ prediction[p].status = "open"}) = 0
    <3> DEFINE S == {p \in Rows(Predictions) :
                       prediction[p].user = u /\ prediction[p].status = "open"}
    <3>1. S = {}
      BY <2>1
    <3>2. StakeSum({}) = 0
      BY SumEmpty DEF StakeSum
    <3> QED BY <3>1, <3>2
  <2> QED BY <2>2 DEF Init, LockedIsOpenStakes
<1> QED BY <1>1, <1>2, <1>3, <1>4, <1>5, <1>6, <1>7 DEF Inv, WalletInv

\* A step that writes neither positions nor wallets.
LEMMA WalletKept ==
  ASSUME WalletInv, UNCHANGED walletVars
  PROVE  WalletInv'
<1>1. /\ prediction' = prediction /\ ledger' = ledger /\ released' = released
      /\ available' = available /\ locked' = locked
  BY DEF walletVars
<1>2. LockedIsOpenStakes'
  BY <1>1 DEF WalletInv, LockedIsOpenStakes, StakeSum, Rows
<1> QED BY <1>1, <1>2 DEF WalletInv, LedgerTypeOK, WalletTypeOK, RowsOK

RequestTypeOK == request \in [Requests -> RequestRow \cup {Idle}]

\* Steps of position requests keep the invariant.
LEMMA PositionStepInv ==
  ASSUME Inv, PositionStep
  PROVE  Inv'
<1> USE DEF RequestTypeOK
<1>0. WalletInv /\ MarketTypeOK /\ RequestTypeOK
  BY DEF Inv
<1> SUFFICES WalletInv' /\ MarketTypeOK' /\ RequestTypeOK'
  BY DEF Inv
<1>1. PICK r \in Requests :
        \/ \E u \in Users, m \in Markets :
              \/ \E action \in Actions : AdmitPosition(r, u, m, action)
              \/ AdmitBotPrediction(r, u, m)
        \/ RejectPosition(r)
        \/ \E p \in Predictions, option \in Options, price \in Prices :
              \/ \E stake \in Stakes :
                    \/ CommitInitial(r, p, option, stake, price)
                    \/ CommitReinforcement(r, p, option, stake, price)
              \/ CommitRevision(r, p, option, price)
  BY DEF PositionStep
<1>2. ASSUME UNCHANGED marketVars PROVE MarketTypeOK'
  BY <1>0, <1>2 DEF MarketTypeOK, marketVars
<1>3. ASSUME NEW u \in Users, NEW m \in Markets, NEW action \in Actions,
             AdmitPosition(r, u, m, action)
      PROVE  WalletInv' /\ MarketTypeOK' /\ RequestTypeOK'
  <2>1. [user |-> u, market |-> m, action |-> action] \in RequestRow
    BY DEF RequestRow
  <2> QED BY <1>0, <1>2, <1>3, <2>1, WalletKept DEF AdmitPosition
<1>4. ASSUME NEW u \in Users, NEW m \in Markets, AdmitBotPrediction(r, u, m)
      PROVE  WalletInv' /\ MarketTypeOK' /\ RequestTypeOK'
  <2>1. [user |-> u, market |-> m, action |-> "initial"] \in RequestRow
    BY DEF RequestRow, Actions
  <2> QED BY <1>0, <1>2, <1>4, <2>1, WalletKept DEF AdmitBotPrediction
<1>5. CASE RejectPosition(r)
  BY <1>0, <1>2, <1>5, WalletKept DEF RejectPosition
<1>6. ASSUME NEW p \in Predictions, NEW option \in Options, NEW price \in Prices,
             NEW stake \in Stakes, request[r] # Idle, Open(r, p, option, stake, price)
      PROVE  WalletInv' /\ MarketTypeOK' /\ RequestTypeOK'
  <2>1. WalletInv'
    BY <1>6, OpenPreserves
  <2>2. UNCHANGED marketVars /\ request' = [request EXCEPT ![r] = Idle]
    BY <1>6 DEF Open
  <2> QED BY <1>0, <1>2, <2>1, <2>2
<1>7. ASSUME NEW p \in Predictions, NEW option \in Options, NEW price \in Prices,
             CommitRevision(r, p, option, price)
      PROVE  WalletInv' /\ MarketTypeOK' /\ RequestTypeOK'
  <2>1. WalletInv'
    BY <1>7, RevisionPreserves
  <2>2. UNCHANGED marketVars /\ request' = [request EXCEPT ![r] = Idle]
    BY <1>7 DEF CommitRevision
  <2> QED BY <1>0, <1>2, <2>1, <2>2
<1> QED BY <1>1, <1>3, <1>4, <1>5, <1>6, <1>7 DEF CommitInitial, CommitReinforcement

\* Lifecycle steps (staff, daemon and operator) keep the invariant.
LEMMA LifecycleStepInv ==
  ASSUME Inv, NEW m \in Markets, LifecycleStep(m)
  PROVE  Inv'
<1>0. WalletInv /\ MarketTypeOK /\ RequestTypeOK
  BY DEF Inv, RequestTypeOK
<1>1. RequestTypeOK'
  BY <1>0 DEF LifecycleStep, Publish, LockMarket, CloseDue, Cancel, Resolve, UndoResolution,
              Seal, ReconcileCanceled, RequestTypeOK
<1>2. MarketTypeOK'
  <2>1. CASE Publish(m) \/ LockMarket(m) \/ Cancel(m) \/ Seal(m)
    BY <1>0, <2>1 DEF Publish, LockMarket, Cancel, Seal, SetStatus, MarketTypeOK, Statuses
  <2>2. CASE CloseDue(m)
    BY <1>0, <2>2 DEF CloseDue, SetStatus, MarketTypeOK, Statuses
  <2>3. CASE \E option \in Options : Resolve(m, option)
    BY <1>0, <2>3 DEF Resolve, SetStatus, MarketTypeOK, Statuses
  <2>4. CASE UndoResolution(m)
    <3>1. undos[m] + 1 \in 0..MaxUndos
      <4>1. undos[m] \in 0..MaxUndos
        BY <1>0 DEF MarketTypeOK
      <4>2. undos[m] < MaxUndos
        BY <2>4 DEF UndoResolution
      <4>3. MaxUndos \in Nat
        BY SettlementAssumption
      <4> QED BY <4>1, <4>2, <4>3
    <3> QED BY <1>0, <2>4, <3>1 DEF UndoResolution, SetStatus, MarketTypeOK, Statuses
  <2>5. CASE ReconcileCanceled(m)
    BY <1>0, <2>5 DEF ReconcileCanceled, marketVars, MarketTypeOK
  <2> QED BY <2>1, <2>2, <2>3, <2>4, <2>5 DEF LifecycleStep
<1>3. WalletInv'
  <2>1. CASE Publish(m) \/ LockMarket(m) \/ Seal(m)
    BY <1>0, <2>1, WalletKept DEF Publish, LockMarket, Seal
  <2>2. CASE Cancel(m) \/ ReconcileCanceled(m)
    BY <1>0, <2>2, RefundPreserves DEF Cancel, ReconcileCanceled
  <2>3. CASE CloseDue(m)
    BY <1>0, <2>3, WalletKept, RefundPreserves DEF CloseDue
  <2>4. CASE \E option \in Options : Resolve(m, option)
    BY <1>0, <2>4, ResolvePreserves
  <2>5. CASE UndoResolution(m)
    BY <1>0, <2>5, UndoPreserves
  <2> QED BY <2>1, <2>2, <2>3, <2>4, <2>5 DEF LifecycleStep
<1> QED BY <1>1, <1>2, <1>3 DEF Inv, RequestTypeOK

\* The passage of time keeps the invariant.
LEMMA TimeStepInv ==
  ASSUME Inv, NEW m \in Markets, TimeStep(m)
  PROVE  Inv'
<1>0. WalletInv /\ MarketTypeOK /\ RequestTypeOK
  BY DEF Inv, RequestTypeOK
<1>1. UNCHANGED walletVars /\ UNCHANGED request
  BY DEF TimeStep, PassCutoff, PassClose, PassSealWindow
<1>2. MarketTypeOK'
  BY <1>0 DEF TimeStep, PassCutoff, PassClose, PassSealWindow, MarketTypeOK, Clock
<1>3. WalletInv'
  BY <1>0, <1>1, WalletKept
<1> QED BY <1>0, <1>1, <1>2, <1>3 DEF Inv, RequestTypeOK

\* Every step keeps the invariant.
LEMMA NextInv == Inv /\ [Next]_vars => Inv'
<1> SUFFICES ASSUME Inv, [Next]_vars PROVE Inv'
  OBVIOUS
<1>1. CASE PositionStep
  BY <1>1, PositionStepInv
<1>2. CASE \E m \in Markets : LifecycleStep(m) \/ TimeStep(m)
  BY <1>2, LifecycleStepInv, TimeStepInv
<1>3. CASE UNCHANGED vars
  <2>1. UNCHANGED walletVars /\ UNCHANGED marketVars /\ UNCHANGED request
    BY <1>3 DEF vars, walletVars, marketVars
  <2>2. WalletInv'
    BY <2>1, WalletKept DEF Inv
  <2> QED BY <2>1, <2>2 DEF Inv, MarketTypeOK, marketVars
<1> QED BY <1>1, <1>2, <1>3 DEF Next

\* The inductive invariant: every table has its type, every row agrees with
\* its ledger rows, and every wallet with its owner's open positions.
THEOREM Invariance == Spec => []Inv
<1>1. Init => Inv
  BY InitInv
<1>2. Inv /\ [Next]_vars => Inv'
  BY NextInv
<1> QED BY <1>1, <1>2, PTL DEF Spec

\* Every table holds rows of its type, whatever the users, markets and stakes
\* are; no wallet's locked balance is ever negative.
THEOREM TypeCorrect == Spec => []TypeOK
<1>1. Inv => TypeOK
  BY DEF Inv, WalletInv, TypeOK
<1> QED BY <1>1, Invariance, PTL

\* The ledger holds exactly the stake of a prediction while it is open and
\* nothing once it is revised, resolved or canceled.
THEOREM StakeHeld == Spec => []StakeHeldWhileOpen
<1>1. ASSUME Inv, NEW p \in Predictions
      PROVE  Held(p) = IF prediction[p] # Absent /\ prediction[p].status = "open"
                       THEN prediction[p].stake ELSE 0
  <2>1. RowOK(prediction[p], ledger[p], released[p])
    BY <1>1 DEF Inv, WalletInv, RowsOK
  <2>2. LockedDelta(NoEntries) = 0
    BY EntryEffect
  <2> QED BY <2>1, <2>2 DEF RowOK, Held
<1>2. Inv => StakeHeldWhileOpen
  BY <1>1 DEF StakeHeldWhileOpen
<1> QED BY <1>2, Invariance, PTL

\* The refund's idempotency test (a release newer than the last lock) is true
\* of exactly the positions whose stake was given back.
THEOREM RefundTestExact == Spec => []RefundTestIsExact
<1>1. Inv => RefundTestIsExact
  BY DEF Inv, WalletInv, RowsOK, RowOK, RefundTestIsExact, Rows
<1> QED BY <1>1, Invariance, PTL

\* The locked balance of a wallet is the sum of its owner's open stakes.
THEOREM LockedBalance == Spec => []LockedIsOpenStakes
<1>1. Inv => LockedIsOpenStakes
  BY DEF Inv, WalletInv
<1> QED BY <1>1, Invariance, PTL

-----------------------------------------------------------------------------
(* What each action writes: the rows it touches and the credits and debits *)
(* it posts for them, besides those of the stake itself.                   *)

\* The rows posted settle s, pay out, reverse and recredit these amounts.
Credits(f, s, pay, rev, rec) ==
    /\ f \in [Kinds -> Nat]
    /\ f["settle"] = s
    /\ f["payout"] = pay
    /\ f["reversal"] = rev
    /\ f["recredit"] = rec

\* The same, of the step from a ledger e to a ledger after.
Posts(e, after, s, pay, rev, rec) ==
    /\ after["settle"] = e["settle"] + s
    /\ after["payout"] = e["payout"] + pay
    /\ after["reversal"] = e["reversal"] + rev
    /\ after["recredit"] = e["recredit"] + rec

\* The credits of the entries the actions post.
LEMMA EntryCredits ==
  ASSUME NEW n \in Nat, NEW a \in Nat
  PROVE  /\ Credits(NoEntries, 0, 0, 0, 0)
         /\ Credits(Entry("lock", n), 0, 0, 0, 0)
         /\ Credits(Entry("release", n), 0, 0, 0, 0)
         /\ Credits(Entry("settle", n), n, 0, 0, 0)
         /\ Credits(Plus(Entry("penalty", a), Entry("lock", n)), 0, 0, 0, 0)
         /\ Credits(Plus(Entry("release", n), Entry("payout", a)), 0, a, 0, 0)
         /\ Credits(Plus(Entry("reversal", a), Entry("lock", n)), 0, 0, a, 0)
         /\ Credits(Plus(Entry("recredit", a), Entry("lock", n)), 0, 0, 0, a)
<1>1. /\ \A k \in Kinds : NoEntries[k] = 0
      /\ \A kind, k \in Kinds : Entry(kind, n)[k] = IF k = kind THEN n ELSE 0
      /\ \A kind, k \in Kinds : Entry(kind, a)[k] = IF k = kind THEN a ELSE 0
      /\ \A kind \in Kinds : Entry(kind, n) \in [Kinds -> Nat] /\ Entry(kind, a) \in [Kinds -> Nat]
  BY EntryType
<1>2. /\ Credits(NoEntries, 0, 0, 0, 0)
      /\ Credits(Entry("lock", n), 0, 0, 0, 0)
      /\ Credits(Entry("release", n), 0, 0, 0, 0)
      /\ Credits(Entry("settle", n), n, 0, 0, 0)
  BY <1>1, EntryType, KindsElements DEF Credits
<1>3. \A kind, other, k \in Kinds :
          Plus(Entry(kind, a), Entry(other, n))[k] =
            (IF k = kind THEN a ELSE 0) + (IF k = other THEN n ELSE 0)
  <2> SUFFICES ASSUME NEW kind \in Kinds, NEW other \in Kinds, NEW k \in Kinds
               PROVE  Plus(Entry(kind, a), Entry(other, n))[k] =
                        (IF k = kind THEN a ELSE 0) + (IF k = other THEN n ELSE 0)
    OBVIOUS
  <2>1. Plus(Entry(kind, a), Entry(other, n))[k] = Entry(kind, a)[k] + Entry(other, n)[k]
    BY DEF Plus
  <2>2. Entry(kind, a)[k] = IF k = kind THEN a ELSE 0
    BY <1>1
  <2>3. Entry(other, n)[k] = IF k = other THEN n ELSE 0
    BY <1>1
  <2> QED BY <2>1, <2>2, <2>3
<1>4. /\ Credits(Plus(Entry("penalty", a), Entry("lock", n)), 0, 0, 0, 0)
      /\ Credits(Plus(Entry("reversal", a), Entry("lock", n)), 0, 0, a, 0)
      /\ Credits(Plus(Entry("recredit", a), Entry("lock", n)), 0, 0, 0, a)
  <2>1. \A kind, other \in Kinds : Plus(Entry(kind, a), Entry(other, n)) \in [Kinds -> Nat]
    BY <1>1, PlusType
  <2>2. Credits(Plus(Entry("penalty", a), Entry("lock", n)), 0, 0, 0, 0)
    <3> DEFINE f == Plus(Entry("penalty", a), Entry("lock", n))
    <3>1. f \in [Kinds -> Nat]
      BY <2>1, KindsElements
    <3>2. \A k \in Kinds : f[k] = (IF k = "penalty" THEN a ELSE 0) + (IF k = "lock" THEN n ELSE 0)
      BY <1>3, KindsElements
    <3> HIDE DEF f
    <3>3. Credits(f, 0, 0, 0, 0)
      BY <3>1, <3>2, KindsElements DEF Credits
    <3> QED BY <3>3 DEF f
  <2>3. Credits(Plus(Entry("reversal", a), Entry("lock", n)), 0, 0, a, 0)
    <3> DEFINE f == Plus(Entry("reversal", a), Entry("lock", n))
    <3>1. f \in [Kinds -> Nat]
      BY <2>1, KindsElements
    <3>2. \A k \in Kinds : f[k] = (IF k = "reversal" THEN a ELSE 0) + (IF k = "lock" THEN n ELSE 0)
      BY <1>3, KindsElements
    <3> HIDE DEF f
    <3>3. Credits(f, 0, 0, a, 0)
      BY <3>1, <3>2, KindsElements DEF Credits
    <3> QED BY <3>3 DEF f
  <2>4. Credits(Plus(Entry("recredit", a), Entry("lock", n)), 0, 0, 0, a)
    <3> DEFINE f == Plus(Entry("recredit", a), Entry("lock", n))
    <3>1. f \in [Kinds -> Nat]
      BY <2>1, KindsElements
    <3>2. \A k \in Kinds : f[k] = (IF k = "recredit" THEN a ELSE 0) + (IF k = "lock" THEN n ELSE 0)
      BY <1>3, KindsElements
    <3> HIDE DEF f
    <3>3. Credits(f, 0, 0, 0, a)
      BY <3>1, <3>2, KindsElements DEF Credits
    <3> QED BY <3>3 DEF f
  <2> QED BY <2>2, <2>3, <2>4
<1>5. \A k \in Kinds :
          Plus(Entry("release", n), Entry("payout", a))[k] =
            (IF k = "release" THEN n ELSE 0) + (IF k = "payout" THEN a ELSE 0)
  <2> SUFFICES ASSUME NEW k \in Kinds
               PROVE  Plus(Entry("release", n), Entry("payout", a))[k] =
                        (IF k = "release" THEN n ELSE 0) + (IF k = "payout" THEN a ELSE 0)
    OBVIOUS
  <2>1. Plus(Entry("release", n), Entry("payout", a))[k]
          = Entry("release", n)[k] + Entry("payout", a)[k]
    BY DEF Plus
  <2>2. Entry("release", n)[k] = IF k = "release" THEN n ELSE 0
    BY <1>1, KindsElements
  <2>3. Entry("payout", a)[k] = IF k = "payout" THEN a ELSE 0
    BY <1>1, KindsElements
  <2> QED BY <2>1, <2>2, <2>3
<1>6. Credits(Plus(Entry("release", n), Entry("payout", a)), 0, a, 0, 0)
  BY <1>1, <1>5, PlusType, KindsElements DEF Credits
<1> QED BY <1>2, <1>4, <1>6

\* Adding rows with these credits to a ledger posts them.
LEMMA CreditsPosted ==
  ASSUME NEW e \in [Kinds -> Nat], NEW f \in [Kinds -> Nat],
         NEW s \in Nat, NEW pay \in Nat, NEW rev \in Nat, NEW rec \in Nat,
         Credits(f, s, pay, rev, rec)
  PROVE  Posts(e, Plus(e, f), s, pay, rev, rec)
BY PlusType, KindsElements DEF Credits, Posts

\* What Record writes, position by position.
LEMMA Recorded ==
  ASSUME WalletInv, NEW rows, NEW posted, Record(rows, posted)
  PROVE  /\ prediction' = rows
         /\ \A x \in Predictions : ledger'[x] = Plus(ledger[x], posted[x])
         /\ \A x \in Predictions : posted[x] = NoEntries => ledger'[x] = ledger[x]
<1>1. ledger \in [Predictions -> [Kinds -> Nat]]
  BY DEF WalletInv, LedgerTypeOK
<1>2. \A x \in Predictions : ledger'[x] = Plus(ledger[x], posted[x])
  BY DEF Record
<1>3. \A x \in Predictions : Plus(ledger[x], NoEntries) = ledger[x]
  BY <1>1 DEF Plus, NoEntries
<1> QED BY <1>2, <1>3 DEF Record

\* The position p appears, open, with nothing credited to it.
Opened(p, row, u, m, option) ==
    /\ prediction[p] = Absent
    /\ row \in PredictionRow
    /\ row # Absent
    /\ row.user = u
    /\ row.market = m
    /\ row.option = option
    /\ row.status = "open"
    /\ row.outcome = "null"

\* The position x keeps what it is, and changes its status and outcome.
Reclassed(x, row, status, outcome) ==
    /\ prediction[x] \in PredictionRow
    /\ prediction[x] # Absent
    /\ row \in PredictionRow
    /\ row # Absent
    /\ row.user = prediction[x].user
    /\ row.market = prediction[x].market
    /\ row.option = prediction[x].option
    /\ row.stake = prediction[x].stake
    /\ row.payout = prediction[x].payout
    /\ row.status = status
    /\ row.outcome = outcome

KeptOutside(S) ==
    \A x \in Predictions \ S : prediction'[x] = prediction[x] /\ ledger'[x] = ledger[x]

\* Opening a position writes its row and nothing else.
LEMMA OpenEffects ==
  ASSUME Inv, NEW r \in Requests, NEW p \in Predictions, NEW option \in Options,
         NEW stake \in Stakes, NEW price \in Prices,
         request[r] # Idle, Open(r, p, option, stake, price)
  PROVE  /\ Opened(p, prediction'[p], request[r].user, request[r].market, option)
         /\ Posts(ledger[p], ledger'[p], 0, 0, 0, 0)
         /\ KeptOutside({p})
         /\ request[r].user \in Users /\ request[r].market \in Markets
         /\ UNCHANGED marketVars
<1> DEFINE q == request[r]
           row == NewRow(q.user, q.market, option, q.action, stake, price)
           rows == [prediction EXCEPT ![p] = row]
           posted == [x \in Predictions |-> IF x = p THEN Entry("lock", stake) ELSE NoEntries]
<1>1. q.user \in Users /\ q.market \in Markets /\ q.action \in Actions
  BY DEF Inv, RequestRow
<1>2. stake \in Nat \ {0} /\ stake \in Nat
  BY SettlementAssumption
<1>3. /\ prediction \in [Predictions -> PredictionRow \cup {Absent}]
      /\ ledger \in [Predictions -> [Kinds -> Nat]]
      /\ WalletInv
  BY DEF Inv, WalletInv, LedgerTypeOK
<1>4. prediction[p] = Absent /\ Record(rows, posted) /\ UNCHANGED marketVars
  BY DEF Open
<1>5. /\ row \in PredictionRow /\ row.user = q.user /\ row.market = q.market
      /\ row.status = "open" /\ row.outcome = "null"
  BY <1>1, <1>2, <1>3, NewRowType
<1>6. row.option = option
  BY DEF NewRow
<1>7. row # Absent
  BY <1>5, SettlementAssumption
<1>8. /\ posted[p] = Entry("lock", stake)
      /\ \A x \in Predictions \ {p} : posted[x] = NoEntries
  OBVIOUS
<1> HIDE DEF row, posted
<1>9. /\ prediction' = rows
      /\ \A x \in Predictions : ledger'[x] = Plus(ledger[x], posted[x])
      /\ \A x \in Predictions : posted[x] = NoEntries => ledger'[x] = ledger[x]
  BY <1>3, <1>4, Recorded
<1>10. prediction'[p] = row /\ \A x \in Predictions \ {p} : prediction'[x] = prediction[x]
  BY <1>3, <1>9
<1>11. Posts(ledger[p], ledger'[p], 0, 0, 0, 0)
  <2>1. Entry("lock", stake) \in [Kinds -> Nat]
    BY <1>2, EntryType, KindsElements
  <2>2. Credits(Entry("lock", stake), 0, 0, 0, 0)
    BY <1>2, EntryCredits
  <2>3. ledger[p] \in [Kinds -> Nat] /\ ledger'[p] = Plus(ledger[p], Entry("lock", stake))
    BY <1>3, <1>8, <1>9
  <2> QED BY <2>1, <2>2, <2>3, CreditsPosted
<1>12. Opened(p, prediction'[p], request[r].user, request[r].market, option)
  <2> HIDE DEF rows
  <2> QED BY <1>4, <1>5, <1>6, <1>7, <1>10 DEF Opened
<1> QED BY <1>1, <1>4, <1>8, <1>9, <1>10, <1>11, <1>12 DEF KeptOutside

\* Revising marks the active positions revised and opens one on the new option.
LEMMA RevisionEffects ==
  ASSUME Inv, NEW r \in Requests, NEW p \in Predictions, NEW option \in Options,
         NEW price \in Prices, CommitRevision(r, p, option, price),
         NEW active, active = ActivePositions(request[r].user, request[r].market)
  PROVE  /\ Opened(p, prediction'[p], request[r].user, request[r].market, option)
         /\ Posts(ledger[p], ledger'[p], 0, 0, 0, 0)
         /\ \A x \in active :
               /\ x \in Predictions \ {p}
               /\ Reclassed(x, prediction'[x], "revised", "null")
               /\ Posts(ledger[x], ledger'[x], 0, 0, 0, 0)
         /\ KeptOutside({p} \cup active)
         /\ request[r].user \in Users /\ request[r].market \in Markets
         /\ UNCHANGED marketVars
<1> DEFINE u == request[r].user
           m == request[r].market
           penalty == Penalty(StakeSum(active))
           stake == StakeSum(active) - penalty
           row == NewRow(u, m, option, "revision", stake, price)
           rows == [x \in Predictions |->
                      IF x = p THEN row
                      ELSE IF x \in active THEN [prediction[x] EXCEPT !.status = "revised"]
                      ELSE prediction[x]]
           posted == [x \in Predictions |->
                        IF x = p THEN Plus(Entry("penalty", penalty), Entry("lock", stake))
                        ELSE IF x \in active THEN Entry("release", prediction[x].stake)
                        ELSE NoEntries]
<1>1. u \in Users /\ m \in Markets
  BY DEF Inv, RequestRow, CommitRevision
<1>2. /\ prediction \in [Predictions -> PredictionRow \cup {Absent}]
      /\ ledger \in [Predictions -> [Kinds -> Nat]]
      /\ \A x \in Predictions : RowOK(prediction[x], ledger[x], released[x])
      /\ WalletInv
  BY DEF Inv, WalletInv, LedgerTypeOK, RowsOK
<1>3. /\ prediction[p] = Absent /\ stake >= MinRemaining /\ Record(rows, posted)
      /\ UNCHANGED marketVars
  BY DEF CommitRevision
<1>4. active \in SUBSET Rows(Predictions)
  BY DEF ActivePositions, Positions, InMarket
<1>5. penalty \in Nat /\ stake \in Nat \ {0} /\ stake \in Nat
  <2>1. StakeSum(active) \in Nat
    BY <1>2, <1>4, ActiveStakes
  <2>2. penalty \in Nat
    BY <2>1, PenaltyNat
  <2>3. MinRemaining \in Nat \ {0}
    BY SettlementAssumption
  <2> QED BY <1>3, <2>1, <2>2, <2>3
<1>6. /\ row \in PredictionRow /\ row.user = u /\ row.market = m
      /\ row.status = "open" /\ row.outcome = "null"
  <2> HIDE DEF stake
  <2> QED BY <1>1, <1>2, <1>5, NewRowType DEF Actions
<1>7. row.option = option
  BY DEF NewRow
<1>8. row # Absent
  BY <1>6, SettlementAssumption
<1>9. ASSUME NEW x \in active
      PROVE  /\ x \in Predictions /\ x # p
             /\ prediction[x] \in PredictionRow /\ prediction[x] # Absent
             /\ prediction[x].status = "open" /\ prediction[x].outcome = "null"
             /\ prediction[x].stake \in Nat
  BY <1>2, <1>3 DEF ActivePositions, Positions, InMarket, Rows, RowOK, PredictionRow
<1> HIDE DEF u, m, penalty, stake, row
<1>10. /\ prediction' = rows
       /\ \A x \in Predictions : ledger'[x] = Plus(ledger[x], posted[x])
       /\ \A x \in Predictions : posted[x] = NoEntries => ledger'[x] = ledger[x]
  <2> HIDE DEF rows, posted
  <2> QED BY <1>2, <1>3, Recorded
<1>11. Opened(p, prediction'[p], request[r].user, request[r].market, option)
  <2>1. prediction'[p] = row
    BY <1>10
  <2> QED BY <1>3, <1>6, <1>7, <1>8, <2>1 DEF Opened, u, m
<1>12. Posts(ledger[p], ledger'[p], 0, 0, 0, 0)
  <2> DEFINE f == Plus(Entry("penalty", penalty), Entry("lock", stake))
  <2>1. f \in [Kinds -> Nat]
    BY <1>5, EntryType, PlusType, KindsElements
  <2>2. Credits(f, 0, 0, 0, 0)
    BY <1>5, EntryCredits
  <2>3. ledger[p] \in [Kinds -> Nat] /\ ledger'[p] = Plus(ledger[p], f)
    BY <1>2, <1>10
  <2> HIDE DEF f
  <2> QED BY <2>1, <2>2, <2>3, CreditsPosted
<1>13. ASSUME NEW x \in active
       PROVE  /\ x \in Predictions \ {p}
              /\ Reclassed(x, prediction'[x], "revised", "null")
              /\ Posts(ledger[x], ledger'[x], 0, 0, 0, 0)
  <2> DEFINE new == [prediction[x] EXCEPT !.status = "revised"]
             f == Entry("release", prediction[x].stake)
  <2>0. x \in Predictions \ {p}
    BY <1>9
  <2>1. prediction'[x] = new /\ ledger'[x] = Plus(ledger[x], f)
    BY <1>9, <1>10
  <2>2. /\ new \in PredictionRow /\ new.status = "revised" /\ new.outcome = "null"
        /\ new.user = prediction[x].user /\ new.market = prediction[x].market
        /\ new.option = prediction[x].option /\ new.stake = prediction[x].stake
        /\ new.payout = prediction[x].payout
    BY <1>9 DEF PredictionRow
  <2>3. new # Absent
    BY <2>2, SettlementAssumption
  <2>4. f \in [Kinds -> Nat]
    BY <1>9, EntryType, KindsElements
  <2>5. Credits(f, 0, 0, 0, 0)
    BY <1>9, EntryCredits
  <2> HIDE DEF f
  <2>6. Posts(ledger[x], ledger'[x], 0, 0, 0, 0)
    <3>1. ledger \in [Predictions -> [Kinds -> Nat]]
      BY <1>2
    <3>2. ledger[x] \in [Kinds -> Nat]
      BY <2>0, <3>1
    <3>3. Posts(ledger[x], Plus(ledger[x], f), 0, 0, 0, 0)
      BY <2>4, <2>5, <3>2, CreditsPosted
    <3> QED BY <2>1, <3>3
  <2> HIDE DEF new
  <2> QED BY <1>9, <2>0, <2>1, <2>2, <2>3, <2>6 DEF Reclassed
<1>14. KeptOutside({p} \cup active)
  <2>1. ASSUME NEW x \in Predictions \ ({p} \cup active)
        PROVE  prediction'[x] = prediction[x] /\ posted[x] = NoEntries
    BY <1>10
  <2> QED BY <1>10, <2>1 DEF KeptOutside
<1> QED BY <1>1, <1>3, <1>11, <1>12, <1>13, <1>14 DEF u, m

\* A refund cancels the open positions of the market and credits nothing but
\* their stakes.
LEMMA RefundEffects ==
  ASSUME WalletInv, NEW m \in Markets, RefundOpen(m),
         NEW open, open = WithStatus(m, "open")
  PROVE  /\ \A x \in open :
               /\ x \in Predictions
               /\ Reclassed(x, prediction'[x], "canceled", "null")
               /\ Posts(ledger[x], ledger'[x], 0, 0, 0, 0)
         /\ KeptOutside(open)
<1> DEFINE due == {p \in open : ~released[p]}
           new(p) == Reclassify(prediction[p], "canceled", "null")
           rows == [p \in Predictions |-> IF p \in open THEN new(p) ELSE prediction[p]]
           posted == [p \in Predictions |->
                        IF p \in due THEN Entry("release", prediction[p].stake)
                        ELSE NoEntries]
<1>1. Record(rows, posted)
  BY DEF RefundOpen, Refundable, Reclassify
<1>2. ledger \in [Predictions -> [Kinds -> Nat]]
  BY DEF WalletInv, LedgerTypeOK
<1>3. /\ prediction' = rows
      /\ \A x \in Predictions : ledger'[x] = Plus(ledger[x], posted[x])
      /\ \A x \in Predictions : posted[x] = NoEntries => ledger'[x] = ledger[x]
  <2> HIDE DEF rows, posted
  <2> QED BY <1>1, Recorded
<1>4. ASSUME NEW x \in open
      PROVE  /\ x \in Predictions
             /\ Reclassed(x, prediction'[x], "canceled", "null")
             /\ Posts(ledger[x], ledger'[x], 0, 0, 0, 0)
  <2> DEFINE f == Entry("release", prediction[x].stake)
             row == new(x)
  <2>1. /\ x \in Predictions /\ prediction[x] # Absent /\ prediction[x] \in PredictionRow
        /\ prediction[x].stake \in Nat \ {0} /\ prediction[x].status = "open" /\ ~released[x]
    BY StatusRows
  <2>2. /\ row \in PredictionRow /\ row # Absent /\ row.user = prediction[x].user
        /\ row.market = prediction[x].market /\ row.option = prediction[x].option
        /\ row.stake = prediction[x].stake /\ row.payout = prediction[x].payout
        /\ row.status = "canceled" /\ row.outcome = "null"
    BY <2>1, Reclassified
  <2>3. prediction'[x] = row /\ ledger'[x] = Plus(ledger[x], f)
    BY <1>3, <2>1
  <2>4. f \in [Kinds -> Nat] /\ Credits(f, 0, 0, 0, 0) /\ ledger[x] \in [Kinds -> Nat]
    BY <1>2, <2>1, EntryType, EntryCredits, KindsElements
  <2> HIDE DEF f, row, new
  <2>5. Posts(ledger[x], ledger'[x], 0, 0, 0, 0)
    BY <2>3, <2>4, CreditsPosted
  <2> QED BY <2>1, <2>2, <2>3, <2>5 DEF Reclassed
<1>5. KeptOutside(open)
  <2>1. ASSUME NEW x \in Predictions \ open
        PROVE  prediction'[x] = prediction[x] /\ posted[x] = NoEntries
    BY <1>3
  <2> QED BY <1>3, <2>1 DEF KeptOutside
<1> QED BY <1>4, <1>5

\* The net payout of a position is a natural number.
LEMMA NetPayoutNat ==
  ASSUME NEW row \in PredictionRow
  PROVE  NetPayout(row) \in Nat
<1>1. row.payout \in Nat /\ row.stake \in Nat
  BY DEF PredictionRow
<1> QED BY <1>1 DEF NetPayout

\* A resolution pays each winner the net payout and settles each loser's stake.
LEMMA ResolveEffects ==
  ASSUME WalletInv, NEW m \in Markets, NEW option \in Options, Resolve(m, option),
         NEW open, open = WithStatus(m, "open")
  PROVE  /\ \A x \in open :
               /\ x \in Predictions
               /\ IF prediction[x].option = option
                  THEN /\ Reclassed(x, prediction'[x], "resolved", "won")
                       /\ Posts(ledger[x], ledger'[x], 0, NetPayout(prediction[x]), 0, 0)
                  ELSE /\ Reclassed(x, prediction'[x], "resolved", "lost")
                       /\ Posts(ledger[x], ledger'[x], prediction[x].stake, 0, 0, 0)
         /\ KeptOutside(open)
<1> DEFINE result(p) == IF prediction[p].option = option THEN "won" ELSE "lost"
           new(p) == Reclassify(prediction[p], "resolved", result(p))
           rows == [p \in Predictions |-> IF p \in open THEN new(p) ELSE prediction[p]]
           posted == [p \in Predictions |->
                        IF p \in open THEN SettleEntries(p, option) ELSE NoEntries]
<1>1. Record(rows, posted)
  <2>1. rows = [p \in Predictions |->
                     IF p \in open
                     THEN [prediction[p] EXCEPT
                             !.status = "resolved",
                             !.outcome = IF prediction[p].option = option
                                         THEN "won" ELSE "lost"]
                     ELSE prediction[p]]
    BY DEF Reclassify
  <2> HIDE DEF rows
  <2> QED BY <2>1 DEF Resolve
<1>2. ledger \in [Predictions -> [Kinds -> Nat]]
  BY DEF WalletInv, LedgerTypeOK
<1>3. /\ prediction' = rows
      /\ \A x \in Predictions : ledger'[x] = Plus(ledger[x], posted[x])
      /\ \A x \in Predictions : posted[x] = NoEntries => ledger'[x] = ledger[x]
  <2> HIDE DEF rows, posted
  <2> QED BY <1>1, Recorded
<1>4. ASSUME NEW x \in open
      PROVE  /\ x \in Predictions
             /\ IF prediction[x].option = option
                THEN /\ Reclassed(x, prediction'[x], "resolved", "won")
                     /\ Posts(ledger[x], ledger'[x], 0, NetPayout(prediction[x]), 0, 0)
                ELSE /\ Reclassed(x, prediction'[x], "resolved", "lost")
                     /\ Posts(ledger[x], ledger'[x], prediction[x].stake, 0, 0, 0)
  <2> DEFINE f == SettleEntries(x, option)
             row == new(x)
             won == result(x)
             n == prediction[x].stake
             net == NetPayout(prediction[x])
  <2>1. /\ x \in Predictions /\ prediction[x] # Absent /\ prediction[x] \in PredictionRow
        /\ n \in Nat /\ prediction[x].status = "open"
    BY StatusRows
  <2>2. won \in {"won", "lost", "null"}
    OBVIOUS
  <2>3. prediction'[x] = row /\ ledger'[x] = Plus(ledger[x], f)
    BY <1>3, <2>1
  <2>4. net \in Nat /\ ledger[x] \in [Kinds -> Nat]
    BY <1>2, <2>1, NetPayoutNat
  <2>5. IF prediction[x].option = option
        THEN won = "won" /\ f = Plus(Entry("release", n), Entry("payout", net))
        ELSE won = "lost" /\ f = Entry("settle", n)
    BY DEF SettleEntries
  <2> HIDE DEF f, won, net, n
  <2>6. /\ row \in PredictionRow /\ row # Absent /\ row.user = prediction[x].user
        /\ row.market = prediction[x].market /\ row.option = prediction[x].option
        /\ row.stake = prediction[x].stake /\ row.payout = prediction[x].payout
        /\ row.status = "resolved" /\ row.outcome = won
    BY <2>1, <2>2, Reclassified DEF won
  <2> HIDE DEF row, new, result
  <2>7. Reclassed(x, prediction'[x], "resolved", won)
    BY <2>1, <2>3, <2>6 DEF Reclassed
  <2>8. CASE prediction[x].option = option
    <3>1. Credits(f, 0, net, 0, 0)
      BY <2>1, <2>4, <2>5, <2>8, EntryCredits
    <3>2. Posts(ledger[x], ledger'[x], 0, net, 0, 0)
      BY <2>3, <2>4, <3>1, CreditsPosted DEF Credits
    <3> QED BY <2>1, <2>5, <2>7, <2>8, <3>2 DEF net
  <2>9. CASE prediction[x].option # option
    <3>1. Credits(f, n, 0, 0, 0)
      BY <2>1, <2>5, <2>9, EntryCredits
    <3>2. Posts(ledger[x], ledger'[x], n, 0, 0, 0)
      BY <2>1, <2>3, <2>4, <3>1, CreditsPosted DEF Credits
    <3> QED BY <2>1, <2>5, <2>7, <2>9, <3>2 DEF n
  <2> QED BY <2>8, <2>9
<1>5. KeptOutside(open)
  <2>1. ASSUME NEW x \in Predictions \ open
        PROVE  prediction'[x] = prediction[x] /\ posted[x] = NoEntries
    BY <1>3
  <2> QED BY <1>3, <2>1 DEF KeptOutside
<1> QED BY <1>4, <1>5

\* Undoing takes back the payouts the ledger holds for a winner, and gives a
\* loser the stake back.
LEMMA UndoEffects ==
  ASSUME WalletInv, NEW m \in Markets, UndoResolution(m),
         NEW settled, settled = WithStatus(m, "resolved")
  PROVE  /\ \A x \in settled :
               /\ x \in Predictions
               /\ Reclassed(x, prediction'[x], "open", "null")
               /\ prediction[x].outcome \in {"won", "lost"}
               /\ IF prediction[x].outcome = "won"
                  THEN Posts(ledger[x], ledger'[x], 0, 0, ledger[x]["payout"], 0)
                  ELSE Posts(ledger[x], ledger'[x], 0, 0, 0, prediction[x].stake)
         /\ KeptOutside(settled)
<1> DEFINE new(p) == Reclassify(prediction[p], "open", "null")
           rows == [p \in Predictions |-> IF p \in settled THEN new(p) ELSE prediction[p]]
           posted == [p \in Predictions |->
                        IF p \in settled THEN RecallEntries(p) ELSE NoEntries]
<1>1. Record(rows, posted)
  BY DEF UndoResolution, Recallable, Reclassify
<1>2. ledger \in [Predictions -> [Kinds -> Nat]]
  BY DEF WalletInv, LedgerTypeOK
<1>3. /\ prediction' = rows
      /\ \A x \in Predictions : ledger'[x] = Plus(ledger[x], posted[x])
      /\ \A x \in Predictions : posted[x] = NoEntries => ledger'[x] = ledger[x]
  <2> HIDE DEF rows, posted
  <2> QED BY <1>1, Recorded
<1>4. ASSUME NEW x \in settled
      PROVE  /\ x \in Predictions
             /\ Reclassed(x, prediction'[x], "open", "null")
             /\ prediction[x].outcome \in {"won", "lost"}
             /\ IF prediction[x].outcome = "won"
                THEN Posts(ledger[x], ledger'[x], 0, 0, ledger[x]["payout"], 0)
                ELSE Posts(ledger[x], ledger'[x], 0, 0, 0, prediction[x].stake)
  <2> DEFINE f == RecallEntries(x)
             row == new(x)
             n == prediction[x].stake
             paid == ledger[x]["payout"]
  <2>1. /\ x \in Predictions /\ prediction[x] # Absent /\ prediction[x] \in PredictionRow
        /\ n \in Nat /\ prediction[x].outcome # "null"
    BY StatusRows
  <2>2. prediction[x].outcome \in {"won", "lost"}
    BY <2>1 DEF PredictionRow
  <2>3. prediction'[x] = row /\ ledger'[x] = Plus(ledger[x], f)
    BY <1>3, <2>1
  <2>4. ledger[x] \in [Kinds -> Nat]
    BY <1>2, <2>1
  <2>5. paid \in Nat
    BY <2>4, KindsElements
  <2>6. IF prediction[x].outcome = "won"
        THEN f = Plus(Entry("reversal", paid), Entry("lock", n))
        ELSE f = Plus(Entry("recredit", n), Entry("lock", n))
    BY DEF RecallEntries
  <2>7. /\ row \in PredictionRow /\ row # Absent /\ row.user = prediction[x].user
        /\ row.market = prediction[x].market /\ row.option = prediction[x].option
        /\ row.stake = prediction[x].stake /\ row.payout = prediction[x].payout
        /\ row.status = "open" /\ row.outcome = "null"
    BY <2>1, Reclassified
  <2> HIDE DEF f, n, paid, row, new
  <2>8. Reclassed(x, prediction'[x], "open", "null")
    BY <2>1, <2>3, <2>7 DEF Reclassed
  <2>9. CASE prediction[x].outcome = "won"
    <3>1. Credits(f, 0, 0, paid, 0)
      BY <2>1, <2>5, <2>6, <2>9, EntryCredits
    <3>2. Posts(ledger[x], ledger'[x], 0, 0, paid, 0)
      <4>1. f \in [Kinds -> Nat]
        BY <3>1 DEF Credits
      <4>2. Posts(ledger[x], Plus(ledger[x], f), 0, 0, paid, 0)
        BY <2>4, <2>5, <3>1, <4>1, CreditsPosted
      <4> QED BY <2>3, <4>2
    <3> QED BY <2>1, <2>2, <2>8, <2>9, <3>2 DEF paid
  <2>10. CASE prediction[x].outcome # "won"
    <3>1. Credits(f, 0, 0, 0, n)
      BY <2>1, <2>6, <2>10, EntryCredits
    <3>2. Posts(ledger[x], ledger'[x], 0, 0, 0, n)
      BY <2>1, <2>3, <2>4, <3>1, CreditsPosted DEF Credits
    <3> QED BY <2>1, <2>2, <2>8, <2>10, <3>2 DEF n
  <2> QED BY <2>9, <2>10
<1>5. KeptOutside(settled)
  <2>1. ASSUME NEW x \in Predictions \ settled
        PROVE  prediction'[x] = prediction[x] /\ posted[x] = NoEntries
    BY <1>3
  <2> QED BY <1>3, <2>1 DEF KeptOutside
<1> QED BY <1>4, <1>5

-----------------------------------------------------------------------------
(* What a position has gained its owner, and the option the owner is on.   *)
(*                                                                         *)
(* OutcomePaidOnce is not inductive: undoing reverses every payout the     *)
(* ledger holds, which is the payout of the result undone only while none  *)
(* was reversed before.  Accounted says so row by row.  OneSidedPosition   *)
(* needs Together: the settled positions of a user in a market, which an   *)
(* undo opens again, are on one option too, and never settled beside open  *)
(* ones.                                                                   *)

Accounted(row, e, n) ==
    /\ e["settle"] - e["recredit"] = IF row.outcome = "lost" THEN row.stake ELSE 0
    /\ n <= 1 => e["payout"] - e["reversal"]
                    = IF row.outcome = "won" THEN NetPayout(row) ELSE 0
    /\ n = 0 => e["reversal"] = 0

PaidRows ==
    \A p \in Predictions : prediction[p] # Absent =>
        Accounted(prediction[p], ledger[p], undos[prediction[p].market])

Stands(row) == row # Absent /\ row.status \in {"open", "resolved"}

Together ==
    \A p, q \in Predictions :
        (/\ Stands(prediction[p]) /\ Stands(prediction[q])
         /\ prediction[p].user = prediction[q].user
         /\ prediction[p].market = prediction[q].market)
        => /\ prediction[p].option = prediction[q].option
           /\ prediction[p].status = prediction[q].status

SettledInv == PaidRows /\ Together

\* Rows nothing is written for stay accounted for, in a step that undoes no
\* resolution of their market.
LEMMA KeptAccounted ==
  ASSUME PaidRows, NEW S, KeptOutside(S), NEW x \in Predictions \ S,
         prediction'[x] # Absent,
         undos'[prediction[x].market] = undos[prediction[x].market]
  PROVE  Accounted(prediction'[x], ledger'[x], undos'[prediction'[x].market])
<1>1. prediction'[x] = prediction[x] /\ ledger'[x] = ledger[x]
  BY DEF KeptOutside
<1> QED BY <1>1 DEF PaidRows

\* An open position has no outcome.
LEMMA OpenHasNoOutcome ==
  ASSUME WalletInv, NEW x \in Predictions, prediction[x] # Absent,
         prediction[x].status # "resolved"
  PROVE  prediction[x].outcome = "null"
BY DEF WalletInv, RowsOK, RowOK

\* The amounts of a position's ledger rows.
LEMMA Amounts ==
  ASSUME WalletInv, NEW x \in Predictions
  PROVE  /\ ledger[x]["settle"] \in Nat /\ ledger[x]["payout"] \in Nat
         /\ ledger[x]["reversal"] \in Nat /\ ledger[x]["recredit"] \in Nat
         /\ prediction[x] = Absent =>
              /\ ledger[x]["settle"] = 0 /\ ledger[x]["payout"] = 0
              /\ ledger[x]["reversal"] = 0 /\ ledger[x]["recredit"] = 0
<1>1. ledger[x] \in [Kinds -> Nat] /\ RowOK(prediction[x], ledger[x], released[x])
  BY DEF WalletInv, LedgerTypeOK, RowsOK
<1> QED BY <1>1, KindsElements DEF RowOK, NoEntries

\* A position that appears is accounted for.
LEMMA OpenedAccounted ==
  ASSUME WalletInv, NEW p \in Predictions, NEW u, NEW m, NEW option, NEW row, NEW after,
         Opened(p, row, u, m, option), Posts(ledger[p], after, 0, 0, 0, 0), NEW n
  PROVE  Accounted(row, after, n)
<1>1. /\ ledger[p]["settle"] = 0 /\ ledger[p]["payout"] = 0
      /\ ledger[p]["reversal"] = 0 /\ ledger[p]["recredit"] = 0
  BY Amounts DEF Opened
<1>2. /\ after["settle"] = 0 /\ after["payout"] = 0
      /\ after["reversal"] = 0 /\ after["recredit"] = 0
  BY <1>1 DEF Posts
<1> QED BY <1>2 DEF Opened, Accounted

\* A position revised or canceled has gained nothing and stays so.
LEMMA ReturnedAccounted ==
  ASSUME WalletInv, PaidRows, NEW x \in Predictions, NEW row, NEW status, NEW after,
         Reclassed(x, row, status, "null"), prediction[x].status # "resolved",
         Posts(ledger[x], after, 0, 0, 0, 0)
  PROVE  Accounted(row, after, undos[row.market])
<1>1. /\ ledger[x]["settle"] \in Nat /\ ledger[x]["payout"] \in Nat
      /\ ledger[x]["reversal"] \in Nat /\ ledger[x]["recredit"] \in Nat
  BY Amounts
<1>2. prediction[x].outcome = "null"
  BY OpenHasNoOutcome DEF Reclassed
<1>3. Accounted(prediction[x], ledger[x], undos[prediction[x].market])
  BY DEF PaidRows, Reclassed
<1>4. row.market = prediction[x].market /\ row.outcome = "null"
  BY DEF Reclassed
<1>5. /\ after["settle"] = ledger[x]["settle"] /\ after["payout"] = ledger[x]["payout"]
      /\ after["reversal"] = ledger[x]["reversal"]
      /\ after["recredit"] = ledger[x]["recredit"]
  BY <1>1 DEF Posts
<1> QED BY <1>2, <1>3, <1>4, <1>5 DEF Accounted

\* A winner's row is accounted for.
LEMMA WonAccounted ==
  ASSUME WalletInv, PaidRows, NEW x \in Predictions, NEW row, NEW after,
         Reclassed(x, row, "resolved", "won"), prediction[x].status = "open",
         Posts(ledger[x], after, 0, NetPayout(prediction[x]), 0, 0)
  PROVE  Accounted(row, after, undos[row.market])
<1>1. /\ ledger[x]["settle"] \in Nat /\ ledger[x]["payout"] \in Nat
      /\ ledger[x]["reversal"] \in Nat /\ ledger[x]["recredit"] \in Nat
  BY Amounts
<1>2. prediction[x].outcome = "null"
  BY OpenHasNoOutcome DEF Reclassed
<1>3. Accounted(prediction[x], ledger[x], undos[prediction[x].market])
  BY DEF PaidRows, Reclassed
<1>4. /\ row.market = prediction[x].market /\ row.outcome = "won"
      /\ NetPayout(row) = NetPayout(prediction[x])
  BY DEF Reclassed, NetPayout
<1>5. NetPayout(prediction[x]) \in Nat
  BY NetPayoutNat DEF Reclassed
<1>6. /\ after["settle"] = ledger[x]["settle"]
      /\ after["payout"] = ledger[x]["payout"] + NetPayout(prediction[x])
      /\ after["reversal"] = ledger[x]["reversal"]
      /\ after["recredit"] = ledger[x]["recredit"]
  BY <1>1 DEF Posts
<1> QED BY <1>1, <1>2, <1>3, <1>4, <1>5, <1>6 DEF Accounted

\* A loser's row is accounted for.
LEMMA LostAccounted ==
  ASSUME WalletInv, PaidRows, NEW x \in Predictions, NEW row, NEW after,
         Reclassed(x, row, "resolved", "lost"), prediction[x].status = "open",
         Posts(ledger[x], after, prediction[x].stake, 0, 0, 0)
  PROVE  Accounted(row, after, undos[row.market])
<1>1. /\ ledger[x]["settle"] \in Nat /\ ledger[x]["payout"] \in Nat
      /\ ledger[x]["reversal"] \in Nat /\ ledger[x]["recredit"] \in Nat
  BY Amounts
<1>2. prediction[x].outcome = "null"
  BY OpenHasNoOutcome DEF Reclassed
<1>3. Accounted(prediction[x], ledger[x], undos[prediction[x].market])
  BY DEF PaidRows, Reclassed
<1>4. /\ row.market = prediction[x].market /\ row.outcome = "lost"
      /\ row.stake = prediction[x].stake
  BY DEF Reclassed
<1>5. prediction[x].stake \in Nat
  BY DEF Reclassed, PredictionRow
<1>6. /\ after["settle"] = ledger[x]["settle"] + prediction[x].stake
      /\ after["payout"] = ledger[x]["payout"]
      /\ after["reversal"] = ledger[x]["reversal"]
      /\ after["recredit"] = ledger[x]["recredit"]
  BY <1>1 DEF Posts
<1> QED BY <1>1, <1>2, <1>3, <1>4, <1>5, <1>6 DEF Accounted

\* A position recalled is accounted for after one more undo.
LEMMA RecalledAccounted ==
  ASSUME WalletInv, PaidRows, NEW x \in Predictions, NEW row, NEW after,
         Reclassed(x, row, "open", "null"), prediction[x].outcome \in {"won", "lost"},
         IF prediction[x].outcome = "won"
         THEN Posts(ledger[x], after, 0, 0, ledger[x]["payout"], 0)
         ELSE Posts(ledger[x], after, 0, 0, 0, prediction[x].stake),
         undos[prediction[x].market] \in Nat
  PROVE  Accounted(row, after, undos[row.market] + 1)
<1>1. /\ ledger[x]["settle"] \in Nat /\ ledger[x]["payout"] \in Nat
      /\ ledger[x]["reversal"] \in Nat /\ ledger[x]["recredit"] \in Nat
  BY Amounts
<1>2. Accounted(prediction[x], ledger[x], undos[prediction[x].market])
  BY DEF PaidRows, Reclassed
<1>3. row.market = prediction[x].market /\ row.outcome = "null"
  BY DEF Reclassed
<1>4. prediction[x].stake \in Nat
  BY DEF Reclassed, PredictionRow
<1>5. CASE prediction[x].outcome = "won"
  <2>1. /\ after["settle"] = ledger[x]["settle"]
        /\ after["payout"] = ledger[x]["payout"]
        /\ after["reversal"] = ledger[x]["reversal"] + ledger[x]["payout"]
        /\ after["recredit"] = ledger[x]["recredit"]
    BY <1>1, <1>5 DEF Posts
  <2> QED BY <1>1, <1>2, <1>3, <1>5, <2>1 DEF Accounted
<1>6. CASE prediction[x].outcome = "lost"
  <2>1. /\ after["settle"] = ledger[x]["settle"]
        /\ after["payout"] = ledger[x]["payout"]
        /\ after["reversal"] = ledger[x]["reversal"]
        /\ after["recredit"] = ledger[x]["recredit"] + prediction[x].stake
    BY <1>1, <1>6 DEF Posts
  <2> QED BY <1>1, <1>2, <1>3, <1>4, <1>6, <2>1 DEF Accounted
<1> QED BY <1>5, <1>6

\* A position may join those its user holds in the market.
Joins(u, m, option) ==
    \A x \in Predictions :
        (Stands(prediction[x]) /\ prediction[x].user = u /\ prediction[x].market = m)
        => prediction[x].option = option /\ prediction[x].status = "open"

\* A position that joins the others keeps its user on one side.
LEMMA OpenedTogether ==
  ASSUME Together, NEW p \in Predictions, NEW u, NEW m, NEW option,
         Opened(p, prediction'[p], u, m, option), KeptOutside({p}), Joins(u, m, option)
  PROVE  Together'
<1> SUFFICES ASSUME NEW x \in Predictions, NEW y \in Predictions,
                    Stands(prediction'[x]), Stands(prediction'[y]),
                    prediction'[x].user = prediction'[y].user,
                    prediction'[x].market = prediction'[y].market
             PROVE  /\ prediction'[x].option = prediction'[y].option
                    /\ prediction'[x].status = prediction'[y].status
  BY DEF Together, Stands
<1>1. \A z \in Predictions \ {p} : prediction'[z] = prediction[z]
  BY DEF KeptOutside
<1>2. /\ prediction'[p].user = u /\ prediction'[p].market = m
      /\ prediction'[p].option = option /\ prediction'[p].status = "open"
  BY DEF Opened
<1>3. CASE x = p /\ y # p
  <2>1. prediction'[y] = prediction[y]
    BY <1>1, <1>3
  <2> QED BY <1>2, <1>3, <2>1 DEF Joins
<1>4. CASE x # p /\ y = p
  <2>1. prediction'[x] = prediction[x]
    BY <1>1, <1>4
  <2> QED BY <1>2, <1>4, <2>1 DEF Joins
<1>5. CASE x # p /\ y # p
  <2>1. prediction'[x] = prediction[x] /\ prediction'[y] = prediction[y]
    BY <1>1, <1>5
  <2> QED BY <2>1 DEF Together
<1>6. CASE x = p /\ y = p
  BY <1>6
<1> QED BY <1>3, <1>4, <1>5, <1>6

\* Giving every position of a market in one status another status keeps each
\* user on one side.
LEMMA ReclassedTogether ==
  ASSUME Together, NEW m, NEW S, NEW before \in {"open", "resolved"}, NEW after,
         S = WithStatus(m, before),
         \A x \in S : x \in Predictions /\
             \E outcome \in {"won", "lost", "null"} : Reclassed(x, prediction'[x], after, outcome),
         KeptOutside(S)
  PROVE  Together'
<1> SUFFICES ASSUME NEW x \in Predictions, NEW y \in Predictions,
                    Stands(prediction'[x]), Stands(prediction'[y]),
                    prediction'[x].user = prediction'[y].user,
                    prediction'[x].market = prediction'[y].market
             PROVE  /\ prediction'[x].option = prediction'[y].option
                    /\ prediction'[x].status = prediction'[y].status
  BY DEF Together, Stands
<1>1. \A z \in Predictions \ S : prediction'[z] = prediction[z]
  BY DEF KeptOutside
<1>2. \A z \in S : /\ prediction'[z].user = prediction[z].user
                   /\ prediction'[z].market = prediction[z].market
                   /\ prediction'[z].option = prediction[z].option
                   /\ prediction'[z].status = after
                   /\ Stands(prediction[z])
                   /\ prediction[z].status = before
                   /\ prediction[z].market = m
  BY DEF Reclassed, Stands, WithStatus, InMarket, Rows
<1>3. \A z \in Predictions : prediction[z] # Absent /\ prediction[z].market = m
         /\ prediction[z].status = before => z \in S
  BY DEF WithStatus, InMarket, Rows
<1>4. CASE x \in S /\ y \in S
  BY <1>2, <1>4 DEF Together
<1>5. CASE x \in S /\ y \notin S
  <2>1. prediction'[y] = prediction[y]
    BY <1>1, <1>5
  <2>2. prediction[y].status = before /\ prediction[y].market = m
    BY <1>2, <1>5, <2>1 DEF Together
  <2> QED BY <1>3, <1>5, <2>1, <2>2 DEF Stands
<1>6. CASE x \notin S /\ y \in S
  <2>1. prediction'[x] = prediction[x]
    BY <1>1, <1>6
  <2>2. prediction[x].status = before /\ prediction[x].market = m
    BY <1>2, <1>6, <2>1 DEF Together
  <2> QED BY <1>3, <1>6, <2>1, <2>2 DEF Stands
<1>7. CASE x \notin S /\ y \notin S
  <2>1. prediction'[x] = prediction[x] /\ prediction'[y] = prediction[y]
    BY <1>1, <1>7
  <2> QED BY <2>1 DEF Together
<1> QED BY <1>4, <1>5, <1>6, <1>7

\* A new position's option is the one already held, if any is.
LEMMA MayJoin ==
  ASSUME WalletInv, Together, NEW u, NEW m, NEW option,
         Positions(u, m) = {} \/ HoldsOption(u, m, option)
  PROVE  Joins(u, m, option)
<1> SUFFICES ASSUME NEW x \in Predictions, Stands(prediction[x]),
                    prediction[x].user = u, prediction[x].market = m
             PROVE  prediction[x].option = option /\ prediction[x].status = "open"
  BY DEF Joins
<1>1. x \in Positions(u, m)
  BY DEF Positions, InMarket, Rows, Stands
<1>2. PICK q \in ActivePositions(u, m) : prediction[q].option = option
  BY <1>1 DEF HoldsOption
<1>3. /\ q \in Predictions /\ Stands(prediction[q]) /\ prediction[q].status = "open"
      /\ prediction[q].user = u /\ prediction[q].market = m
  BY DEF ActivePositions, Positions, InMarket, Rows, Stands
<1> QED BY <1>2, <1>3 DEF Together

\* First predictions, bot predictions and reinforcements.
LEMMA OpenSettled ==
  ASSUME Inv, SettledInv, NEW r \in Requests, NEW p \in Predictions, NEW option \in Options,
         NEW stake \in Stakes, NEW price \in Prices,
         CommitInitial(r, p, option, stake, price)
            \/ CommitReinforcement(r, p, option, stake, price)
  PROVE  SettledInv'
<1> DEFINE u == request[r].user
           m == request[r].market
<1>1. /\ request[r] # Idle /\ Open(r, p, option, stake, price)
      /\ Positions(u, m) = {} \/ HoldsOption(u, m, option)
  BY DEF CommitInitial, CommitReinforcement
<1>2. WalletInv /\ PaidRows /\ Together
  BY DEF Inv, SettledInv
<1>3. /\ Opened(p, prediction'[p], u, m, option)
      /\ Posts(ledger[p], ledger'[p], 0, 0, 0, 0)
      /\ KeptOutside({p})
      /\ undos' = undos
  BY <1>1, OpenEffects DEF marketVars
<1> HIDE DEF u, m
<1>4. Together'
  BY <1>1, <1>2, <1>3, MayJoin, OpenedTogether
<1>5. PaidRows'
  <2> SUFFICES ASSUME NEW x \in Predictions, prediction'[x] # Absent
               PROVE  Accounted(prediction'[x], ledger'[x], undos'[prediction'[x].market])
    BY DEF PaidRows
  <2>1. CASE x = p
    BY <1>2, <1>3, <2>1, OpenedAccounted
  <2>2. CASE x # p
    BY <1>2, <1>3, <2>2, KeptAccounted
  <2> QED BY <2>1, <2>2
<1> QED BY <1>4, <1>5 DEF SettledInv

\* Revisions.
LEMMA RevisionSettled ==
  ASSUME Inv, SettledInv, NEW r \in Requests, NEW p \in Predictions, NEW option \in Options,
         NEW price \in Prices, CommitRevision(r, p, option, price)
  PROVE  SettledInv'
<1> DEFINE u == request[r].user
           m == request[r].market
<1>0. PICK active : active = ActivePositions(u, m)
  OBVIOUS
<1>1. active # {}
  BY <1>0 DEF CommitRevision
<1>2. WalletInv /\ PaidRows /\ Together
  BY DEF Inv, SettledInv
<1>3. /\ Opened(p, prediction'[p], u, m, option)
      /\ Posts(ledger[p], ledger'[p], 0, 0, 0, 0)
      /\ \A x \in active :
            /\ x \in Predictions \ {p}
            /\ Reclassed(x, prediction'[x], "revised", "null")
            /\ Posts(ledger[x], ledger'[x], 0, 0, 0, 0)
      /\ KeptOutside({p} \cup active)
      /\ undos' = undos
  BY <1>0, RevisionEffects DEF marketVars
<1>4. \A x \in active : Stands(prediction[x]) /\ prediction[x].status = "open"
          /\ prediction[x].user = u /\ prediction[x].market = m
  BY <1>0 DEF ActivePositions, Positions, InMarket, Rows, Stands
<1>5. \A x \in Predictions : prediction[x] # Absent /\ prediction[x].user = u
          /\ prediction[x].market = m /\ prediction[x].status = "open" => x \in active
  BY <1>0 DEF ActivePositions, Positions, InMarket, Rows
<1> HIDE DEF u, m
<1>6. ASSUME NEW x \in Predictions, Stands(prediction[x]),
             prediction[x].user = u, prediction[x].market = m
      PROVE  x \in active
  <2>1. PICK y \in active : TRUE
    BY <1>1
  <2>2. y \in Predictions /\ Stands(prediction[y]) /\ prediction[y].status = "open"
        /\ prediction[y].user = u /\ prediction[y].market = m
    BY <1>3, <1>4
  <2>3. prediction[x].status = "open"
    BY <1>2, <1>6, <2>2 DEF Together
  <2> QED BY <1>5, <1>6, <2>3 DEF Stands
<1>7. \A x \in Predictions \ ({p} \cup active) : prediction'[x] = prediction[x]
  BY <1>3 DEF KeptOutside
<1>8. \A x \in active : ~Stands(prediction'[x])
  BY <1>3 DEF Reclassed, Stands
<1>9. /\ prediction'[p].user = u /\ prediction'[p].market = m
  BY <1>3 DEF Opened
<1>10. Together'
  <2> SUFFICES ASSUME NEW x \in Predictions, NEW y \in Predictions,
                      Stands(prediction'[x]), Stands(prediction'[y]),
                      prediction'[x].user = prediction'[y].user,
                      prediction'[x].market = prediction'[y].market
               PROVE  /\ prediction'[x].option = prediction'[y].option
                      /\ prediction'[x].status = prediction'[y].status
    BY DEF Together, Stands
  <2>1. x \notin active /\ y \notin active
    BY <1>8
  <2>2. ASSUME NEW z \in Predictions, z # p, z \notin active, Stands(prediction'[z]),
               prediction'[z].user = u, prediction'[z].market = m
        PROVE  FALSE
    <3>1. prediction'[z] = prediction[z]
      BY <1>7, <2>2
    <3> QED BY <1>6, <2>2, <3>1
  <2>3. CASE x = p /\ y # p
    BY <1>9, <2>1, <2>2, <2>3
  <2>4. CASE x # p /\ y = p
    BY <1>9, <2>1, <2>2, <2>4
  <2>5. CASE x # p /\ y # p
    <3>1. prediction'[x] = prediction[x] /\ prediction'[y] = prediction[y]
      BY <1>7, <2>1, <2>5
    <3> QED BY <1>2, <3>1 DEF Together
  <2>6. CASE x = p /\ y = p
    BY <2>6
  <2> QED BY <2>3, <2>4, <2>5, <2>6
<1>11. PaidRows'
  <2> SUFFICES ASSUME NEW x \in Predictions, prediction'[x] # Absent
               PROVE  Accounted(prediction'[x], ledger'[x], undos'[prediction'[x].market])
    BY DEF PaidRows
  <2>1. CASE x = p
    BY <1>2, <1>3, <2>1, OpenedAccounted
  <2>2. CASE x \in active
    <3>1. prediction[x].status # "resolved"
      BY <1>4, <2>2
    <3>2. Accounted(prediction'[x], ledger'[x], undos[prediction'[x].market])
      BY <1>2, <1>3, <2>2, <3>1, ReturnedAccounted
    <3> QED BY <1>3, <3>2
  <2>3. CASE x \notin {p} \cup active
    BY <1>2, <1>3, <2>3, KeptAccounted
  <2> QED BY <2>1, <2>2, <2>3
<1> QED BY <1>10, <1>11 DEF SettledInv

\* Refunds.
LEMMA RefundSettled ==
  ASSUME Inv, SettledInv, NEW m \in Markets, RefundOpen(m), undos' = undos
  PROVE  SettledInv'
<1>0. PICK open : open = WithStatus(m, "open")
  OBVIOUS
<1>1. WalletInv /\ PaidRows /\ Together
  BY DEF Inv, SettledInv
<1>2. /\ \A x \in open :
            /\ x \in Predictions
            /\ Reclassed(x, prediction'[x], "canceled", "null")
            /\ Posts(ledger[x], ledger'[x], 0, 0, 0, 0)
      /\ KeptOutside(open)
  BY <1>0, <1>1, RefundEffects
<1>3. \A x \in open : prediction[x].status = "open"
  BY <1>0 DEF WithStatus
<1>4. Together'
  <2>1. \A x \in open : x \in Predictions /\
           \E outcome \in {"won", "lost", "null"} :
              Reclassed(x, prediction'[x], "canceled", outcome)
    BY <1>2
  <2> QED BY <1>0, <1>1, <1>2, <2>1, ReclassedTogether
<1>5. PaidRows'
  <2> SUFFICES ASSUME NEW x \in Predictions, prediction'[x] # Absent
               PROVE  Accounted(prediction'[x], ledger'[x], undos'[prediction'[x].market])
    BY DEF PaidRows
  <2>1. CASE x \in open
    BY <1>1, <1>2, <1>3, <2>1, ReturnedAccounted
  <2>2. CASE x \notin open
    BY <1>1, <1>2, <2>2, KeptAccounted
  <2> QED BY <2>1, <2>2
<1> QED BY <1>4, <1>5 DEF SettledInv

\* Resolutions.
LEMMA ResolveSettled ==
  ASSUME Inv, SettledInv, NEW m \in Markets, NEW option \in Options, Resolve(m, option)
  PROVE  SettledInv'
<1>0. PICK open : open = WithStatus(m, "open")
  OBVIOUS
<1>1. WalletInv /\ PaidRows /\ Together /\ undos' = undos
  BY DEF Inv, SettledInv, Resolve
<1>2. /\ \A x \in open :
            /\ x \in Predictions
            /\ IF prediction[x].option = option
               THEN /\ Reclassed(x, prediction'[x], "resolved", "won")
                    /\ Posts(ledger[x], ledger'[x], 0, NetPayout(prediction[x]), 0, 0)
               ELSE /\ Reclassed(x, prediction'[x], "resolved", "lost")
                    /\ Posts(ledger[x], ledger'[x], prediction[x].stake, 0, 0, 0)
      /\ KeptOutside(open)
  BY <1>0, <1>1, ResolveEffects
<1>3. \A x \in open : prediction[x].status = "open"
  BY <1>0 DEF WithStatus
<1>4. Together'
  <2>1. \A x \in open : x \in Predictions /\
           \E outcome \in {"won", "lost", "null"} :
              Reclassed(x, prediction'[x], "resolved", outcome)
    BY <1>2
  <2> QED BY <1>0, <1>1, <1>2, <2>1, ReclassedTogether
<1>5. PaidRows'
  <2> SUFFICES ASSUME NEW x \in Predictions, prediction'[x] # Absent
               PROVE  Accounted(prediction'[x], ledger'[x], undos'[prediction'[x].market])
    BY DEF PaidRows
  <2>1. CASE x \in open /\ prediction[x].option = option
    BY <1>1, <1>2, <1>3, <2>1, WonAccounted
  <2>2. CASE x \in open /\ prediction[x].option # option
    BY <1>1, <1>2, <1>3, <2>2, LostAccounted
  <2>3. CASE x \notin open
    BY <1>1, <1>2, <2>3, KeptAccounted
  <2> QED BY <2>1, <2>2, <2>3
<1> QED BY <1>4, <1>5 DEF SettledInv

\* Undone resolutions.
LEMMA UndoSettled ==
  ASSUME Inv, SettledInv, NEW m \in Markets, UndoResolution(m)
  PROVE  SettledInv'
<1>0. PICK settled : settled = WithStatus(m, "resolved")
  OBVIOUS
<1>1. WalletInv /\ PaidRows /\ Together /\ undos' = [undos EXCEPT ![m] = @ + 1]
  BY DEF Inv, SettledInv, UndoResolution
<1>2. /\ \A x \in settled :
            /\ x \in Predictions
            /\ Reclassed(x, prediction'[x], "open", "null")
            /\ prediction[x].outcome \in {"won", "lost"}
            /\ IF prediction[x].outcome = "won"
               THEN Posts(ledger[x], ledger'[x], 0, 0, ledger[x]["payout"], 0)
               ELSE Posts(ledger[x], ledger'[x], 0, 0, 0, prediction[x].stake)
      /\ KeptOutside(settled)
  BY <1>0, <1>1, UndoEffects
<1>3. \A x \in settled : prediction[x].market = m
  BY <1>0 DEF WithStatus, InMarket
<1>4. Together'
  <2>1. \A x \in settled : x \in Predictions /\
           \E outcome \in {"won", "lost", "null"} :
              Reclassed(x, prediction'[x], "open", outcome)
    BY <1>2
  <2> QED BY <1>0, <1>1, <1>2, <2>1, ReclassedTogether
<1>5. undos \in [Markets -> Nat]
  BY SettlementAssumption DEF Inv, MarketTypeOK
<1>6. PaidRows'
  <2> SUFFICES ASSUME NEW x \in Predictions, prediction'[x] # Absent
               PROVE  Accounted(prediction'[x], ledger'[x], undos'[prediction'[x].market])
    BY DEF PaidRows
  <2>1. CASE x \in settled
    <3>1. undos[prediction[x].market] \in Nat /\ prediction'[x].market = m
      BY <1>2, <1>3, <1>5, <2>1 DEF Reclassed
    <3>2. Accounted(prediction'[x], ledger'[x], undos[prediction'[x].market] + 1)
      BY <1>1, <1>2, <2>1, <3>1, RecalledAccounted
    <3> QED BY <1>1, <1>5, <3>1, <3>2
  <2>2. CASE x \notin settled
    <3>1. prediction'[x] = prediction[x] /\ ledger'[x] = ledger[x]
      BY <1>2, <2>2 DEF KeptOutside
    <3>2. Accounted(prediction[x], ledger[x], undos[prediction[x].market])
      BY <1>1, <3>1 DEF PaidRows
    <3>3. CASE prediction[x].market = m
      <4>1. undos[m] \in Nat /\ undos'[m] = undos[m] + 1
        BY <1>1, <1>5
      <4> QED BY <3>1, <3>2, <3>3, <4>1 DEF Accounted
    <3>4. CASE prediction[x].market # m
      <4>1. prediction[x].market \in Markets
        <5>1. prediction[x] \in PredictionRow
          BY <1>1, <3>1 DEF WalletInv
        <5> QED BY <5>1 DEF PredictionRow
      <4>2. undos'[prediction[x].market] = undos[prediction[x].market]
        BY <1>1, <1>5, <3>4, <4>1
      <4> QED BY <3>1, <3>2, <4>2
    <3> QED BY <3>3, <3>4
  <2> QED BY <2>1, <2>2
<1> QED BY <1>4, <1>6 DEF SettledInv

\* A step that writes no position keeps every account.
LEMMA SettledKept ==
  ASSUME SettledInv, prediction' = prediction, ledger' = ledger, undos' = undos
  PROVE  SettledInv'
BY DEF SettledInv, PaidRows, Together

\* The kinds of steps, by what they write in the tables of positions.
LEMMA StepKinds ==
  ASSUME Inv, [Next]_vars
  PROVE  \/ \E r \in Requests, p \in Predictions, option \in Options, price \in Prices :
              \/ \E stake \in Stakes :
                    \/ CommitInitial(r, p, option, stake, price)
                    \/ CommitReinforcement(r, p, option, stake, price)
              \/ CommitRevision(r, p, option, price)
         \/ \E m \in Markets :
              /\ RefundOpen(m)
              /\ Cancel(m) \/ CloseDue(m) \/ ReconcileCanceled(m)
              /\ undos' = undos
         \/ \E m \in Markets, option \in Options : Resolve(m, option)
         \/ \E m \in Markets : UndoResolution(m)
         \/ /\ UNCHANGED walletVars
            /\ undos' = undos
            /\ \A m \in Markets :
                  mstatus'[m] # mstatus[m] => mstatus'[m] \in {"open", "locked", "sealed"}
<1>1. CASE PositionStep
  <2>1. PICK r \in Requests :
          \/ \E u \in Users, m \in Markets :
                \/ \E action \in Actions : AdmitPosition(r, u, m, action)
                \/ AdmitBotPrediction(r, u, m)
          \/ RejectPosition(r)
          \/ \E p \in Predictions, option \in Options, price \in Prices :
                \/ \E stake \in Stakes :
                      \/ CommitInitial(r, p, option, stake, price)
                      \/ CommitReinforcement(r, p, option, stake, price)
                \/ CommitRevision(r, p, option, price)
    BY <1>1 DEF PositionStep
  <2>2. CASE \/ \E u \in Users, m \in Markets :
                   \/ \E action \in Actions : AdmitPosition(r, u, m, action)
                   \/ AdmitBotPrediction(r, u, m)
             \/ RejectPosition(r)
    <3>1. UNCHANGED walletVars /\ undos' = undos /\ mstatus' = mstatus
      BY <2>2 DEF AdmitPosition, AdmitBotPrediction, RejectPosition, marketVars
    <3> QED BY <3>1
  <2>3. CASE \E p \in Predictions, option \in Options, price \in Prices :
                \/ \E stake \in Stakes :
                      \/ CommitInitial(r, p, option, stake, price)
                      \/ CommitReinforcement(r, p, option, stake, price)
                \/ CommitRevision(r, p, option, price)
    BY <2>3, Zenon
  <2> QED BY <2>1, <2>2, <2>3
<1>2. ASSUME NEW m \in Markets, LifecycleStep(m)
      PROVE  \/ /\ RefundOpen(m)
                /\ Cancel(m) \/ CloseDue(m) \/ ReconcileCanceled(m)
                /\ undos' = undos
             \/ \E option \in Options : Resolve(m, option)
             \/ UndoResolution(m)
             \/ /\ UNCHANGED walletVars
                /\ undos' = undos
                /\ \E s \in {"open", "locked", "sealed"} : SetStatus(m, s)
  <2>1. CASE Publish(m) \/ LockMarket(m) \/ Seal(m)
    BY <2>1 DEF Publish, LockMarket, Seal
  <2>2. CASE CloseDue(m)
    BY <2>2 DEF CloseDue
  <2>3. CASE Cancel(m) \/ ReconcileCanceled(m)
    BY <2>3 DEF Cancel, ReconcileCanceled, marketVars
  <2> QED BY <1>2, <2>1, <2>2, <2>3 DEF LifecycleStep
<1>3. ASSUME NEW m \in Markets, TimeStep(m)
      PROVE  UNCHANGED walletVars /\ undos' = undos /\ mstatus' = mstatus
  BY <1>3 DEF TimeStep, PassCutoff, PassClose, PassSealWindow
<1>4. CASE UNCHANGED vars
  BY <1>4 DEF vars, walletVars
<1>5. ASSUME NEW m \in Markets, \E s \in {"open", "locked", "sealed"} : SetStatus(m, s),
             NEW k \in Markets, mstatus'[k] # mstatus[k]
      PROVE  mstatus'[k] \in {"open", "locked", "sealed"}
  BY <1>5 DEF SetStatus, Inv, MarketTypeOK
<1> QED BY <1>1, <1>2, <1>3, <1>4, <1>5 DEF Next

\* Every position is accounted for, and every user on one side, in every state.
LEMMA SettledAlways == Spec => [](Inv /\ SettledInv)
<1>1. Init => Inv /\ SettledInv
  <2> SUFFICES ASSUME Init PROVE SettledInv
    BY InitInv
  <2> QED BY DEF Init, SettledInv, PaidRows, Together, Stands
<1>2. Inv /\ SettledInv /\ [Next]_vars => (Inv /\ SettledInv)'
  <2> SUFFICES ASSUME Inv, SettledInv, [Next]_vars PROVE SettledInv'
    BY NextInv
  <2> QED BY StepKinds, OpenSettled, RevisionSettled, RefundSettled, ResolveSettled,
             UndoSettled, SettledKept DEF walletVars
<1> QED BY <1>1, <1>2, PTL DEF Spec

\* While at most one resolution of the market was undone, a position has gained
\* its owner exactly what its result says; and the open positions of a user in
\* a market are on one option.
THEOREM PaidOnce == Spec => []PaidOnceOnOneSide
<1>1. Inv /\ SettledInv => PaidOnceOnOneSide
  <2> SUFFICES ASSUME Inv, SettledInv PROVE PaidOnceOnOneSide
    OBVIOUS
  <2>1. ASSUME NEW p \in Rows(Predictions), undos[prediction[p].market] <= 1
        PROVE  Gain(p) = GainDue(p)
    <3>1. p \in Predictions /\ prediction[p] # Absent
      BY DEF Rows
    <3>2. prediction[p] \in PredictionRow /\ WalletInv
      BY <3>1 DEF Inv, WalletInv
    <3>3. /\ ledger[p]["settle"] \in Nat /\ ledger[p]["payout"] \in Nat
          /\ ledger[p]["reversal"] \in Nat /\ ledger[p]["recredit"] \in Nat
      BY <3>1, <3>2, Amounts
    <3>4. Accounted(prediction[p], ledger[p], undos[prediction[p].market])
      BY <3>1 DEF SettledInv, PaidRows
    <3>5. NetPayout(prediction[p]) \in Nat /\ prediction[p].stake \in Nat
      BY <3>2, NetPayoutNat DEF PredictionRow
    <3>6. Gain(p) = (ledger[p]["payout"] - ledger[p]["reversal"])
                    - (ledger[p]["settle"] - ledger[p]["recredit"])
      BY <3>3 DEF Gain
    <3>7. CASE prediction[p].outcome = "won"
      BY <2>1, <3>4, <3>5, <3>6, <3>7 DEF Accounted, GainDue
    <3>8. CASE prediction[p].outcome = "lost"
      BY <2>1, <3>4, <3>5, <3>6, <3>8 DEF Accounted, GainDue
    <3>9. CASE prediction[p].outcome = "null"
      BY <2>1, <3>4, <3>5, <3>6, <3>9 DEF Accounted, GainDue
    <3> QED BY <3>2, <3>7, <3>8, <3>9 DEF PredictionRow
  <2>2. OutcomePaidOnce
    BY <2>1 DEF OutcomePaidOnce
  <2>3. OneSidedPosition
    BY DEF SettledInv, Together, OneSidedPosition, Stands, Rows
  <2> QED BY <2>2, <2>3 DEF PaidOnceOnOneSide
<1> QED BY <1>1, SettledAlways, PTL

-----------------------------------------------------------------------------
(* What a step may never do.                                               *)

\* Taking a position changes nothing of the markets.
LEMMA PositionsKeepMarkets ==
  ASSUME NEW r \in Requests, NEW p \in Predictions, NEW option \in Options, NEW price \in Prices,
         \/ \E stake \in Stakes :
               \/ CommitInitial(r, p, option, stake, price)
               \/ CommitReinforcement(r, p, option, stake, price)
         \/ CommitRevision(r, p, option, price)
  PROVE  UNCHANGED marketVars
<1>1. ASSUME NEW stake \in Stakes, CommitInitial(r, p, option, stake, price)
      PROVE  UNCHANGED marketVars
  BY <1>1 DEF CommitInitial, Open
<1>2. ASSUME NEW stake \in Stakes, CommitReinforcement(r, p, option, stake, price)
      PROVE  UNCHANGED marketVars
  BY <1>2 DEF CommitReinforcement, Open
<1>3. CASE CommitRevision(r, p, option, price)
  BY <1>3 DEF CommitRevision
<1> QED BY <1>1, <1>2, <1>3

\* Leaving no position of the set open leaves none open in the market.
LEMMA NoneLeftOpen ==
  ASSUME NEW m, NEW S, S = WithStatus(m, "open"), KeptOutside(S),
         \A x \in S : prediction'[x].status # "open"
  PROVE  WithStatus(m, "open")' = {}
<1> SUFFICES ASSUME NEW x \in Predictions, prediction'[x] # Absent,
                    prediction'[x].market = m, prediction'[x].status = "open"
             PROVE  FALSE
  BY DEF WithStatus, InMarket, Rows
<1>1. x \notin S
  OBVIOUS
<1>2. prediction'[x] = prediction[x]
  BY <1>1 DEF KeptOutside
<1> QED BY <1>1, <1>2 DEF WithStatus, InMarket, Rows

\* The step that resolves or cancels a market settles or refunds every open
\* position in it.
THEOREM ClosingSettles == Spec => ClosingSettlesAll
<1> DEFINE A == \A m \in Markets :
                  mstatus'[m] # mstatus[m] /\ mstatus'[m] \in {"resolved", "canceled"}
                  => WithStatus(m, "open")' = {}
<1>1. Inv /\ [Next]_vars => A
  <2> SUFFICES ASSUME Inv, [Next]_vars, NEW k \in Markets,
                      mstatus'[k] # mstatus[k], mstatus'[k] \in {"resolved", "canceled"}
               PROVE  WithStatus(k, "open")' = {}
    OBVIOUS
  <2>0. WalletInv /\ mstatus \in [Markets -> Statuses]
    BY DEF Inv, MarketTypeOK
  <2>1. CASE \E r \in Requests, p \in Predictions, option \in Options, price \in Prices :
                \/ \E stake \in Stakes :
                      \/ CommitInitial(r, p, option, stake, price)
                      \/ CommitReinforcement(r, p, option, stake, price)
                \/ CommitRevision(r, p, option, price)
    <3>1. UNCHANGED marketVars
      BY <2>1, PositionsKeepMarkets
    <3> QED BY <3>1 DEF marketVars
  <2>2. ASSUME NEW m \in Markets, RefundOpen(m),
               Cancel(m) \/ CloseDue(m) \/ ReconcileCanceled(m)
        PROVE  WithStatus(k, "open")' = {}
    <3>0. PICK open : open = WithStatus(m, "open")
      OBVIOUS
    <3>1. \E s \in Statuses : SetStatus(m, s) \/ mstatus' = mstatus
      BY <2>2 DEF Cancel, CloseDue, ReconcileCanceled, marketVars, Statuses
    <3>2. k = m
      BY <2>0, <3>1 DEF SetStatus
    <3>3. /\ \A x \in open : Reclassed(x, prediction'[x], "canceled", "null")
          /\ KeptOutside(open)
      BY <2>0, <2>2, <3>0, RefundEffects
    <3>4. \A x \in open : prediction'[x].status # "open"
      BY <3>3 DEF Reclassed
    <3> QED BY <3>0, <3>2, <3>3, <3>4, NoneLeftOpen
  <2>3. ASSUME NEW m \in Markets, NEW option \in Options, Resolve(m, option)
        PROVE  WithStatus(k, "open")' = {}
    <3>0. PICK open : open = WithStatus(m, "open")
      OBVIOUS
    <3>1. SetStatus(m, "resolved")
      BY <2>3 DEF Resolve
    <3>2. k = m
      BY <2>0, <3>1 DEF SetStatus
    <3>3. /\ \A x \in open : prediction'[x].status = "resolved"
          /\ KeptOutside(open)
      BY <2>0, <2>3, <3>0, ResolveEffects DEF Reclassed
    <3> QED BY <3>0, <3>2, <3>3, NoneLeftOpen
  <2>4. ASSUME NEW m \in Markets, UndoResolution(m) PROVE FALSE
    BY <2>0, <2>4 DEF UndoResolution, SetStatus
  <2>5. CASE \A m \in Markets :
                mstatus'[m] # mstatus[m] => mstatus'[m] \in {"open", "locked", "sealed"}
    BY <2>5
  <2> QED BY <2>1, <2>2, <2>3, <2>4, <2>5, StepKinds
<1> QED BY <1>1, Invariance, PTL DEF Spec, ClosingSettlesAll

\* The result of a settled position of a sealed market, and its ledger rows,
\* never change again.
THEOREM SealedIsFinal == Spec => SealedResultsFinal
<1> DEFINE A == \A p \in Rows(Predictions) :
                  (mstatus[prediction[p].market] = "sealed" /\ prediction[p].status = "resolved")
                  => prediction'[p] = prediction[p] /\ ledger'[p] = ledger[p]
<1>1. Inv /\ [Next]_vars => A
  <2> SUFFICES ASSUME Inv, [Next]_vars, NEW p \in Predictions, prediction[p] # Absent,
                      mstatus[prediction[p].market] = "sealed",
                      prediction[p].status = "resolved"
               PROVE  prediction'[p] = prediction[p] /\ ledger'[p] = ledger[p]
    BY DEF Rows
  <2>0. WalletInv
    BY DEF Inv
  <2>1. ASSUME NEW r \in Requests, NEW q \in Predictions, NEW option \in Options,
               NEW stake \in Stakes, NEW price \in Prices,
               CommitInitial(r, q, option, stake, price)
                  \/ CommitReinforcement(r, q, option, stake, price)
        PROVE  prediction'[p] = prediction[p] /\ ledger'[p] = ledger[p]
    <3>1. request[r] # Idle /\ Open(r, q, option, stake, price)
      BY <2>1 DEF CommitInitial, CommitReinforcement
    <3>2. Opened(q, prediction'[q], request[r].user, request[r].market, option)
          /\ KeptOutside({q})
      BY <3>1, OpenEffects
    <3> QED BY <3>2 DEF Opened, KeptOutside
  <2>2. ASSUME NEW r \in Requests, NEW q \in Predictions, NEW option \in Options,
               NEW price \in Prices, CommitRevision(r, q, option, price)
        PROVE  prediction'[p] = prediction[p] /\ ledger'[p] = ledger[p]
    <3>0. PICK active : active = ActivePositions(request[r].user, request[r].market)
      OBVIOUS
    <3>1. Opened(q, prediction'[q], request[r].user, request[r].market, option)
          /\ KeptOutside({q} \cup active)
      BY <2>2, <3>0, RevisionEffects
    <3>2. p \notin active
      BY <3>0 DEF ActivePositions
    <3> QED BY <3>1, <3>2 DEF Opened, KeptOutside
  <2>3. ASSUME NEW m \in Markets, RefundOpen(m)
        PROVE  prediction'[p] = prediction[p] /\ ledger'[p] = ledger[p]
    <3>1. KeptOutside(WithStatus(m, "open"))
      BY <2>0, <2>3, RefundEffects
    <3> QED BY <3>1 DEF KeptOutside, WithStatus
  <2>4. ASSUME NEW m \in Markets, NEW option \in Options, Resolve(m, option)
        PROVE  prediction'[p] = prediction[p] /\ ledger'[p] = ledger[p]
    <3>1. KeptOutside(WithStatus(m, "open"))
      BY <2>0, <2>4, ResolveEffects
    <3> QED BY <3>1 DEF KeptOutside, WithStatus
  <2>5. ASSUME NEW m \in Markets, UndoResolution(m)
        PROVE  prediction'[p] = prediction[p] /\ ledger'[p] = ledger[p]
    <3>1. KeptOutside(WithStatus(m, "resolved"))
      BY <2>0, <2>5, UndoEffects
    <3>2. mstatus[m] = "resolved"
      BY <2>5 DEF UndoResolution, CanUndo
    <3>3. p \notin WithStatus(m, "resolved")
      BY <3>2 DEF WithStatus, InMarket
    <3> QED BY <3>1, <3>3 DEF KeptOutside
  <2>6. CASE UNCHANGED walletVars
    BY <2>6 DEF walletVars
  <2> QED BY <2>1, <2>2, <2>3, <2>4, <2>5, <2>6, StepKinds
<1> QED BY <1>1, Invariance, PTL DEF Spec, SealedResultsFinal

-----------------------------------------------------------------------------
(* The settlement of markets implements the custody of stakes.             *)

\* Where the stake is, read off the row instead of the ledger.
PlaceOf(row) ==
    IF row = Absent THEN "none"
    ELSE IF row.status = "open" THEN "escrow"
    ELSE IF row.outcome = "lost" THEN "forfeited"
    ELSE IF row.status = "resolved" THEN "paid" ELSE "refunded"

\* The ledger and the row agree on where the stake is.
LEMMA CustodyIsPlace ==
  ASSUME Inv, SettledInv, NEW p \in Predictions
  PROVE  CustodyOf(p) = PlaceOf(prediction[p])
<1>1. CASE prediction[p] = Absent
  BY <1>1 DEF CustodyOf, PlaceOf
<1>2. CASE prediction[p] # Absent
  <2>1. /\ RowOK(prediction[p], ledger[p], released[p])
        /\ prediction[p] \in PredictionRow
    BY <1>2 DEF Inv, WalletInv, RowsOK
  <2>2. prediction[p].stake \in Nat \ {0}
    BY <2>1 DEF PredictionRow
  <2>3. Held(p) = IF prediction[p].status = "open" THEN prediction[p].stake ELSE 0
    BY <1>2, <2>1 DEF RowOK, Held
  <2>4. ledger[p]["settle"] - ledger[p]["recredit"] =
          IF prediction[p].outcome = "lost" THEN prediction[p].stake ELSE 0
    BY <1>2 DEF SettledInv, PaidRows, Accounted
  <2>5. Held(p) = prediction[p].stake <=> prediction[p].status = "open"
    BY <2>2, <2>3
  <2>6. ledger[p]["settle"] - ledger[p]["recredit"] = prediction[p].stake
          <=> prediction[p].outcome = "lost"
    BY <2>2, <2>4
  <2> QED BY <1>2, <2>5, <2>6 DEF CustodyOf, PlaceOf
<1> QED BY <1>1, <1>2

\* The same in the next state.
LEMMA CustodyIsPlaceNext ==
  ASSUME Inv', SettledInv', NEW p \in Predictions
  PROVE  CustodyOf(p)' = PlaceOf(prediction'[p])
<1>1. CASE prediction'[p] = Absent
  BY <1>1 DEF CustodyOf, PlaceOf
<1>2. CASE prediction'[p] # Absent
  <2>1. /\ RowOK(prediction'[p], ledger'[p], released'[p])
        /\ prediction'[p] \in PredictionRow
    BY <1>2 DEF Inv, WalletInv, RowsOK
  <2>2. prediction'[p].stake \in Nat \ {0}
    BY <2>1 DEF PredictionRow
  <2>3. Held(p)' = IF prediction'[p].status = "open" THEN prediction'[p].stake ELSE 0
    BY <1>2, <2>1 DEF RowOK, Held
  <2>4. ledger'[p]["settle"] - ledger'[p]["recredit"] =
          IF prediction'[p].outcome = "lost" THEN prediction'[p].stake ELSE 0
    BY <1>2 DEF SettledInv, PaidRows, Accounted
  <2>5. Held(p)' = prediction'[p].stake <=> prediction'[p].status = "open"
    BY <2>2, <2>3
  <2>6. ledger'[p]["settle"] - ledger'[p]["recredit"] = prediction'[p].stake
          <=> prediction'[p].outcome = "lost"
    BY <2>2, <2>4
  <2> QED BY <1>2, <2>5, <2>6 DEF CustodyOf, PlaceOf
<1> QED BY <1>1, <1>2

\* Rows kept keep the places of their stakes.
LEMMA PlacesKept ==
  ASSUME NEW S, KeptOutside(S), NEW x \in Predictions \ S
  PROVE  PlaceOf(prediction'[x]) = PlaceOf(prediction[x])
BY DEF KeptOutside

\* Every step of the settlement is a step of the custody of stakes, or none.
LEMMA CustodyStep ==
  ASSUME Inv, SettledInv, Inv', SettledInv', [Next]_vars
  PROVE  Custody!Next \/ UNCHANGED [p \in Predictions |-> CustodyOf(p)]
<1> DEFINE at == [p \in Predictions |-> PlaceOf(prediction[p])]
           next == [p \in Predictions |-> PlaceOf(prediction'[p])]
<1>1. [p \in Predictions |-> CustodyOf(p)] = at
  BY CustodyIsPlace
<1>2. [p \in Predictions |-> CustodyOf(p)]' = next
  BY CustodyIsPlaceNext
<1>3. WalletInv
  BY DEF Inv
<1>4. ASSUME NEW r \in Requests, NEW p \in Predictions, NEW option \in Options,
             NEW stake \in Stakes, NEW price \in Prices,
             CommitInitial(r, p, option, stake, price)
                \/ CommitReinforcement(r, p, option, stake, price)
      PROVE  Custody!Next
  <2>1. request[r] # Idle /\ Open(r, p, option, stake, price)
    BY <1>4 DEF CommitInitial, CommitReinforcement
  <2>2. Opened(p, prediction'[p], request[r].user, request[r].market, option)
        /\ KeptOutside({p})
    BY <2>1, OpenEffects
  <2>3. at[p] = "none" /\ next[p] = "escrow"
    BY <2>2 DEF Opened, PlaceOf
  <2>4. \A x \in Predictions \ {p} : next[x] = at[x]
    BY <2>2, PlacesKept
  <2>5. next = [q \in Predictions |->
                  IF q = p THEN "escrow" ELSE IF q \in {} THEN "refunded" ELSE at[q]]
    BY <2>3, <2>4
  <2> HIDE DEF at, next
  <2>6. Custody!Stake(p, {})
    BY <1>1, <1>2, <2>3, <2>5 DEF Custody!Stake
  <2> QED BY <2>6 DEF Custody!Next
<1>5. ASSUME NEW r \in Requests, NEW p \in Predictions, NEW option \in Options,
             NEW price \in Prices, CommitRevision(r, p, option, price)
      PROVE  Custody!Next
  <2>0. PICK active : active = ActivePositions(request[r].user, request[r].market)
    OBVIOUS
  <2>1. /\ Opened(p, prediction'[p], request[r].user, request[r].market, option)
        /\ \A x \in active : x \in Predictions \ {p}
                             /\ Reclassed(x, prediction'[x], "revised", "null")
        /\ KeptOutside({p} \cup active)
    BY <1>5, <2>0, RevisionEffects
  <2>2. at[p] = "none" /\ next[p] = "escrow"
    BY <2>1 DEF Opened, PlaceOf
  <2>3. \A x \in active : at[x] = "escrow" /\ next[x] = "refunded"
    BY <2>0, <2>1 DEF ActivePositions, Reclassed, PlaceOf
  <2>4. \A x \in Predictions \ ({p} \cup active) : next[x] = at[x]
    BY <2>1, PlacesKept
  <2>5. next = [q \in Predictions |->
                  IF q = p THEN "escrow" ELSE IF q \in active THEN "refunded" ELSE at[q]]
    BY <2>1, <2>2, <2>3, <2>4
  <2>6. active \in SUBSET Predictions
    BY <2>1
  <2> HIDE DEF at, next
  <2>7. Custody!Stake(p, active)
    BY <1>1, <1>2, <2>2, <2>3, <2>5 DEF Custody!Stake
  <2> QED BY <2>6, <2>7 DEF Custody!Next
<1>6. ASSUME NEW m \in Markets, RefundOpen(m) PROVE Custody!Next
  <2>0. PICK open : open = WithStatus(m, "open")
    OBVIOUS
  <2>1. /\ \A x \in open : x \in Predictions
                           /\ Reclassed(x, prediction'[x], "canceled", "null")
        /\ KeptOutside(open)
    BY <1>3, <1>6, <2>0, RefundEffects
  <2>2. \A x \in open : at[x] = "escrow" /\ next[x] = "refunded"
    BY <2>0, <2>1 DEF WithStatus, Reclassed, PlaceOf
  <2>3. \A x \in Predictions \ open : next[x] = at[x]
    BY <2>1, PlacesKept
  <2>4. next = [q \in Predictions |-> IF q \in open THEN "refunded" ELSE at[q]]
    BY <2>1, <2>2, <2>3
  <2>5. open \in SUBSET Predictions
    BY <2>1
  <2> HIDE DEF at, next
  <2>6. Custody!Refund(open)
    BY <1>1, <1>2, <2>2, <2>4 DEF Custody!Refund, Custody!Move
  <2> QED BY <2>5, <2>6 DEF Custody!Next
<1>7. ASSUME NEW m \in Markets, NEW option \in Options, Resolve(m, option)
      PROVE  Custody!Next
  <2>0. PICK open : open = WithStatus(m, "open")
    OBVIOUS
  <2> DEFINE winners == {x \in open : prediction[x].option = option}
             losers == open \ winners
  <2>1. /\ \A x \in open :
              /\ x \in Predictions
              /\ IF prediction[x].option = option
                 THEN Reclassed(x, prediction'[x], "resolved", "won")
                 ELSE Reclassed(x, prediction'[x], "resolved", "lost")
        /\ KeptOutside(open)
    BY <1>3, <1>7, <2>0, ResolveEffects
  <2>2. \A x \in open : at[x] = "escrow"
    BY <2>0, <2>1 DEF WithStatus, Reclassed, PlaceOf
  <2>3. \A x \in winners : next[x] = "paid"
    BY <2>1 DEF Reclassed, PlaceOf
  <2>4. \A x \in losers : next[x] = "forfeited"
    BY <2>1 DEF Reclassed, PlaceOf
  <2>5. \A x \in Predictions \ open : next[x] = at[x]
    BY <2>1, PlacesKept
  <2>6. /\ winners \in SUBSET Predictions /\ losers \in SUBSET Predictions
        /\ winners \cap losers = {} /\ winners \cup losers = open
    BY <2>1
  <2> HIDE DEF winners, losers
  <2>7. next = [q \in Predictions |->
                  IF q \in winners THEN "paid" ELSE IF q \in losers THEN "forfeited" ELSE at[q]]
    BY <2>3, <2>4, <2>5, <2>6
  <2> HIDE DEF at, next
  <2>8. Custody!Settle(winners, losers)
    BY <1>1, <1>2, <2>2, <2>6, <2>7 DEF Custody!Settle
  <2> QED BY <2>6, <2>8 DEF Custody!Next
<1>8. ASSUME NEW m \in Markets, UndoResolution(m) PROVE Custody!Next
  <2>0. PICK settled : settled = WithStatus(m, "resolved")
    OBVIOUS
  <2>1. /\ \A x \in settled : /\ x \in Predictions
                              /\ Reclassed(x, prediction'[x], "open", "null")
                              /\ prediction[x].outcome \in {"won", "lost"}
        /\ KeptOutside(settled)
    BY <1>3, <1>8, <2>0, UndoEffects
  <2>2. \A x \in settled : at[x] \in {"paid", "forfeited"} /\ next[x] = "escrow"
    BY <2>0, <2>1 DEF WithStatus, Reclassed, PlaceOf
  <2>3. \A x \in Predictions \ settled : next[x] = at[x]
    BY <2>1, PlacesKept
  <2>4. next = [q \in Predictions |-> IF q \in settled THEN "escrow" ELSE at[q]]
    BY <2>1, <2>2, <2>3
  <2>5. settled \in SUBSET Predictions
    BY <2>1
  <2> HIDE DEF at, next
  <2>6. Custody!Recall(settled)
    BY <1>1, <1>2, <2>2, <2>4 DEF Custody!Recall, Custody!Move
  <2> QED BY <2>5, <2>6 DEF Custody!Next
<1>9. ASSUME UNCHANGED walletVars
      PROVE  UNCHANGED [p \in Predictions |-> CustodyOf(p)]
  <2>1. prediction' = prediction
    BY <1>9 DEF walletVars
  <2>2. next = at
    BY <2>1
  <2> HIDE DEF at, next
  <2> QED BY <1>1, <1>2, <2>2
<1> HIDE DEF at, next
<1> QED BY <1>4, <1>5, <1>6, <1>7, <1>8, <1>9, StepKinds

\* MarketSettlement implements StakeCustody: a stake is in one place, read off
\* the ledger, and moves only along the edges StakeCustody allows.
THEOREM ImplementsCustody == Spec => CustodySpec
<1>1. Init => Custody!Init
  <2>1. ASSUME Init, NEW p \in Predictions PROVE CustodyOf(p) = "none"
    BY <2>1 DEF Init, CustodyOf
  <2> QED BY <2>1 DEF Custody!Init
<1>2. Inv /\ SettledInv /\ Inv' /\ SettledInv' /\ [Next]_vars
        => [Custody!Next]_([p \in Predictions |-> CustodyOf(p)])
  BY CustodyStep
<1> QED BY <1>1, <1>2, SettledAlways, PTL DEF Spec, CustodySpec, Custody!Spec

-----------------------------------------------------------------------------
(* What wallets can spend.                                                 *)

\* What the entries the actions post do to an available balance.
LEMMA EntrySpends ==
  ASSUME NEW n \in Nat, NEW a \in Nat
  PROVE  /\ AvailableDelta(NoEntries) = 0
         /\ AvailableDelta(Entry("lock", n)) = -n
         /\ AvailableDelta(Entry("release", n)) = n
         /\ AvailableDelta(Entry("settle", n)) = 0
         /\ AvailableDelta(Entry("penalty", a)) = -a
         /\ AvailableDelta(Entry("payout", a)) = a
<1>1. /\ \A k \in Kinds : NoEntries[k] = 0
      /\ \A kind, k \in Kinds : Entry(kind, n)[k] = IF k = kind THEN n ELSE 0
      /\ \A kind, k \in Kinds : Entry(kind, a)[k] = IF k = kind THEN a ELSE 0
  BY EntryType
<1>2. AvailableDelta(NoEntries) = 0
  BY <1>1, KindsElements DEF AvailableDelta
<1>3. AvailableDelta(Entry("lock", n)) = -n
  BY <1>1, KindsElements DEF AvailableDelta
<1>4. AvailableDelta(Entry("release", n)) = n
  BY <1>1, KindsElements DEF AvailableDelta
<1>5. AvailableDelta(Entry("settle", n)) = 0
  BY <1>1, KindsElements DEF AvailableDelta
<1>6. AvailableDelta(Entry("penalty", a)) = -a
  BY <1>1, KindsElements DEF AvailableDelta
<1>7. AvailableDelta(Entry("payout", a)) = a
  BY <1>1, KindsElements DEF AvailableDelta
<1> QED BY <1>2, <1>3, <1>4, <1>5, <1>6, <1>7

\* What two ledger rows do to an available balance is the sum of what each does.
LEMMA SpendPlus ==
  ASSUME NEW e \in [Kinds -> Nat], NEW f \in [Kinds -> Nat]
  PROVE  AvailableDelta(Plus(e, f)) = AvailableDelta(e) + AvailableDelta(f)
BY PlusType, KindsElements DEF AvailableDelta

\* The positions of a user among the rows, and what rows posted do to the
\* available balance.
OwnedBy(rows, u) == {p \in Predictions : rows[p] # Absent /\ rows[p].user = u}
SpentOn(posted) == [p \in Predictions |-> AvailableDelta(posted[p])]

\* Record moves an available balance by the rows posted for its owner's
\* positions.
LEMMA Spent ==
  ASSUME WalletInv, NEW rows, NEW posted \in [Predictions -> [Kinds -> Nat]],
         Record(rows, posted), NEW u \in Users
  PROVE  /\ available'[u] = available[u] + SumOver(SpentOn(posted), OwnedBy(rows, u))
         /\ IsFiniteSet(OwnedBy(rows, u))
         /\ \A p \in OwnedBy(rows, u) : SpentOn(posted)[p] \in Int
<1>1. available'[u] = available[u] + SumOver(SpentOn(posted), OwnedBy(rows, u))
  BY DEF Record, SpentOn, OwnedBy
<1>2. OwnedBy(rows, u) \in SUBSET Predictions
  BY DEF OwnedBy
<1>3. IsFiniteSet(OwnedBy(rows, u))
  BY <1>2, FS_Subset, SettlementAssumption
<1>4. \A p \in Predictions : SpentOn(posted)[p] \in Int
  BY DeltaInt DEF SpentOn
<1> QED BY <1>1, <1>2, <1>3, <1>4

\* A wallet no row is debited to never loses.
LEMMA NothingSpent ==
  ASSUME WalletInv, NEW rows, NEW posted \in [Predictions -> [Kinds -> Nat]],
         Record(rows, posted), NEW u \in Users,
         \A p \in Predictions : rows[p] # Absent /\ rows[p].user = u
             => AvailableDelta(posted[p]) >= 0
  PROVE  available'[u] >= available[u] /\ available'[u] \in Int
<1>0. PICK owned : owned = OwnedBy(rows, u)
  OBVIOUS
<1>1. PICK paid : paid = SpentOn(posted)
  OBVIOUS
<1>2. /\ available'[u] = available[u] + SumOver(paid, owned)
      /\ IsFiniteSet(owned)
      /\ \A p \in owned : paid[p] \in Int
  BY <1>0, <1>1, Spent
<1>3. \A p \in owned : paid[p] \in Nat
  BY <1>0, <1>1, <1>2 DEF OwnedBy, SpentOn
<1>4. SumOver(paid, owned) \in Nat
  BY <1>2, <1>3, SumNat
<1>5. available[u] \in Int
  BY DEF WalletInv, WalletTypeOK
<1> QED BY <1>2, <1>4, <1>5

\* Taking a position costs the owner the stake, which the wallet covers, and
\* nobody else anything.
LEMMA OpenCovered ==
  ASSUME Inv, NEW r \in Requests, NEW p \in Predictions, NEW option \in Options,
         NEW stake \in Stakes, NEW price \in Prices,
         request[r] # Idle, Open(r, p, option, stake, price), NEW u \in Users,
         available[u] >= 0
  PROVE  available'[u] >= 0 /\ available'[u] \in Int
<1> DEFINE q == request[r]
           row == NewRow(q.user, q.market, option, q.action, stake, price)
           rows == [prediction EXCEPT ![p] = row]
           posted == [x \in Predictions |-> IF x = p THEN Entry("lock", stake) ELSE NoEntries]
<1>1. q.user \in Users /\ q.market \in Markets /\ q.action \in Actions
  BY DEF Inv, RequestRow
<1>2. stake \in Nat \ {0} /\ stake \in Nat
  BY SettlementAssumption
<1>3. /\ prediction \in [Predictions -> PredictionRow \cup {Absent}]
      /\ WalletInv /\ available \in [Users -> Int]
  BY DEF Inv, WalletInv, WalletTypeOK
<1>4. Record(rows, posted) /\ available[q.user] >= stake
  BY DEF Open, Covers
<1>5. row \in PredictionRow /\ row.user = q.user
  BY <1>1, <1>2, <1>3, NewRowType
<1>6. row # Absent
  BY <1>5, SettlementAssumption
<1>7. posted \in [Predictions -> [Kinds -> Nat]]
  BY <1>2, EntryType, KindsElements
<1>8. AvailableDelta(posted[p]) = -stake
  BY <1>2, EntrySpends
<1>9. \A x \in Predictions \ {p} : AvailableDelta(posted[x]) = 0
  BY <1>2, EntrySpends
<1>10. rows[p] = row
  BY <1>3
<1> HIDE DEF q, row, posted
<1>11. CASE u # q.user
  <2>1. \A x \in Predictions : rows[x] # Absent /\ rows[x].user = u
            => AvailableDelta(posted[x]) >= 0
    BY <1>5, <1>9, <1>10, <1>11
  <2> HIDE DEF rows
  <2>2. available'[u] >= available[u] /\ available'[u] \in Int
    BY <1>3, <1>4, <1>7, <2>1, NothingSpent
  <2> QED BY <1>3, <2>2
<1>12. CASE u = q.user
  <2>0. PICK owned : owned = OwnedBy(rows, u)
    OBVIOUS
  <2>1. PICK paid : paid = SpentOn(posted)
    OBVIOUS
  <2>2. p \in owned
    BY <1>5, <1>6, <1>10, <1>12, <2>0 DEF OwnedBy
  <2> HIDE DEF rows
  <2>3. /\ available'[u] = available[u] + SumOver(paid, owned)
        /\ IsFiniteSet(owned)
        /\ \A x \in owned : paid[x] \in Int
    BY <1>3, <1>4, <1>7, <2>0, <2>1, Spent
  <2>4. paid[p] = -stake /\ \A x \in owned \ {p} : paid[x] = 0
    BY <1>8, <1>9, <2>0, <2>1 DEF OwnedBy, SpentOn
  <2>5. SumOver(paid, owned) = -stake + SumOver(paid, owned \ {p})
    BY <2>2, <2>3, <2>4, SumRemove
  <2>6. SumOver(paid, owned \ {p}) = SumOver(paid, {})
    <3>1. IsFiniteSet(owned \ {p})
      BY <2>3, FS_Subset
    <3> QED BY <2>3, <2>4, <3>1, SumZeros
  <2>7. available'[u] = available[u] - stake
    BY <1>2, <1>3, <2>3, <2>5, <2>6, SumEmpty
  <2> QED BY <1>2, <1>3, <1>4, <1>12, <2>7
<1> QED BY <1>11, <1>12

\* Revising costs the owner nothing available: what the stakes given up
\* release pays the penalty and the new stake.
LEMMA RevisionCovered ==
  ASSUME Inv, NEW r \in Requests, NEW p \in Predictions, NEW option \in Options,
         NEW price \in Prices, CommitRevision(r, p, option, price), NEW u \in Users
  PROVE  available'[u] = available[u]
<1> DEFINE v == request[r].user
           m == request[r].market
           active == ActivePositions(v, m)
           penalty == Penalty(StakeSum(active))
           stake == StakeSum(active) - penalty
           row == NewRow(v, m, option, "revision", stake, price)
           rows == [x \in Predictions |->
                      IF x = p THEN row
                      ELSE IF x \in active THEN [prediction[x] EXCEPT !.status = "revised"]
                      ELSE prediction[x]]
           posted == [x \in Predictions |->
                        IF x = p THEN Plus(Entry("penalty", penalty), Entry("lock", stake))
                        ELSE IF x \in active THEN Entry("release", prediction[x].stake)
                        ELSE NoEntries]
<1>1. v \in Users /\ m \in Markets
  BY DEF Inv, RequestRow, CommitRevision
<1>2. /\ prediction \in [Predictions -> PredictionRow \cup {Absent}]
      /\ WalletInv /\ available \in [Users -> Int]
  BY DEF Inv, WalletInv, WalletTypeOK
<1>3. prediction[p] = Absent /\ stake >= MinRemaining /\ Record(rows, posted)
  BY DEF CommitRevision
<1>4. active \in SUBSET Rows(Predictions)
  BY DEF ActivePositions, Positions, InMarket
<1>5. /\ penalty \in Nat /\ stake \in Nat \ {0} /\ stake \in Nat
      /\ StakeSum(active) \in Nat /\ StakeSum(active) = penalty + stake
  <2>1. StakeSum(active) \in Nat
    BY <1>2, <1>4, ActiveStakes
  <2>2. penalty \in Nat
    BY <2>1, PenaltyNat
  <2>3. MinRemaining \in Nat \ {0}
    BY SettlementAssumption
  <2> QED BY <1>3, <2>1, <2>2, <2>3
<1>6. row \in PredictionRow /\ row.user = v /\ row # Absent
  <2> HIDE DEF stake
  <2>1. row \in PredictionRow /\ row.user = v
    BY <1>1, <1>2, <1>5, NewRowType DEF Actions
  <2> QED BY <2>1, SettlementAssumption
<1>7. ASSUME NEW x \in active
      PROVE  /\ x \in Predictions /\ x # p
             /\ prediction[x] \in PredictionRow /\ prediction[x] # Absent
             /\ prediction[x].user = v /\ prediction[x].stake \in Nat
  BY <1>2, <1>3 DEF ActivePositions, Positions, InMarket, Rows, PredictionRow
<1>8. \A x \in active : /\ [prediction[x] EXCEPT !.status = "revised"].user = v
                        /\ [prediction[x] EXCEPT !.status = "revised"] # Absent
  <2> SUFFICES ASSUME NEW x \in active
               PROVE  /\ [prediction[x] EXCEPT !.status = "revised"].user = v
                      /\ [prediction[x] EXCEPT !.status = "revised"] # Absent
    OBVIOUS
  <2>1. /\ [prediction[x] EXCEPT !.status = "revised"] \in PredictionRow
        /\ [prediction[x] EXCEPT !.status = "revised"].user = v
    BY <1>7 DEF PredictionRow
  <2> QED BY <2>1, SettlementAssumption
<1>9. PICK stakes : stakes = [x \in active |-> prediction[x].stake]
  OBVIOUS
<1>10. StakeSum(active) = SumOver(stakes, active)
  BY <1>9 DEF StakeSum
<1> HIDE DEF v, m, active, penalty, stake, row
<1>11. /\ Plus(Entry("penalty", penalty), Entry("lock", stake)) \in [Kinds -> Nat]
       /\ AvailableDelta(Plus(Entry("penalty", penalty), Entry("lock", stake)))
             = -penalty - stake
  <2>1. Entry("penalty", penalty) \in [Kinds -> Nat] /\ Entry("lock", stake) \in [Kinds -> Nat]
    BY <1>5, EntryType, KindsElements
  <2>2. AvailableDelta(Entry("penalty", penalty)) = -penalty
        /\ AvailableDelta(Entry("lock", stake)) = -stake
    BY <1>5, EntrySpends
  <2> QED BY <1>5, <2>1, <2>2, PlusType, SpendPlus
<1>12. \A x \in active : /\ Entry("release", prediction[x].stake) \in [Kinds -> Nat]
                         /\ AvailableDelta(Entry("release", prediction[x].stake))
                               = prediction[x].stake
  BY <1>7, EntryType, EntrySpends, KindsElements
<1>13. NoEntries \in [Kinds -> Nat] /\ AvailableDelta(NoEntries) = 0
  BY EntryType, EntrySpends, KindsElements
<1>14. posted \in [Predictions -> [Kinds -> Nat]]
  BY <1>11, <1>12, <1>13
<1>15. /\ AvailableDelta(posted[p]) = -penalty - stake
       /\ \A x \in active : AvailableDelta(posted[x]) = prediction[x].stake
       /\ \A x \in Predictions \ ({p} \cup active) : AvailableDelta(posted[x]) = 0
  BY <1>7, <1>11, <1>12, <1>13
<1>16. /\ rows[p] = row
       /\ \A x \in active : rows[x] # Absent /\ rows[x].user = v
  BY <1>7, <1>8
<1>17. PICK owned : owned = OwnedBy(rows, u)
  OBVIOUS
<1>18. PICK paid : paid = SpentOn(posted)
  OBVIOUS
<1> HIDE DEF posted
<1>19. /\ available'[u] = available[u] + SumOver(paid, owned)
       /\ IsFiniteSet(owned)
       /\ \A x \in owned : paid[x] \in Int
       /\ available[u] \in Int
  <2> HIDE DEF rows
  <2> QED BY <1>2, <1>3, <1>14, <1>17, <1>18, Spent
<1>20. /\ paid[p] = -penalty - stake
       /\ \A x \in active : paid[x] = prediction[x].stake
       /\ \A x \in Predictions \ ({p} \cup active) : paid[x] = 0
  BY <1>7, <1>15, <1>18 DEF SpentOn
<1>21. CASE u # v
  <2>1. \A x \in owned : x \in Predictions \ ({p} \cup active)
    BY <1>6, <1>16, <1>17, <1>21 DEF OwnedBy
  <2>2. SumOver(paid, owned) = SumOver(paid, {})
    BY <1>19, <1>20, <2>1, SumZeros
  <2> QED BY <1>19, <2>2, SumEmpty
<1>22. CASE u = v
  <2>1. p \in owned /\ active \in SUBSET (owned \ {p}) /\ owned \in SUBSET Predictions
    BY <1>6, <1>7, <1>16, <1>17, <1>22 DEF OwnedBy
  <2>2. SumOver(paid, owned) = paid[p] + SumOver(paid, owned \ {p})
    BY <1>19, <2>1, SumRemove
  <2>3. IsFiniteSet(owned \ {p}) /\ IsFiniteSet(active)
    BY <1>19, <2>1, FS_Subset
  <2>4. SumOver(paid, owned \ {p}) = SumOver(paid, active)
    <3>1. \A x \in (owned \ {p}) \ active : paid[x] = 0
      BY <1>20, <2>1
    <3> QED BY <1>19, <2>1, <2>3, <3>1, SumZeros
  <2>5. SumOver(paid, active) = SumOver(stakes, active)
    <3>1. \A x \in active : paid[x] = stakes[x]
      BY <1>9, <1>20
    <3> QED BY <2>3, <3>1, SumCongruence
  <2> QED BY <1>5, <1>10, <1>19, <1>20, <2>2, <2>4, <2>5
<1> QED BY <1>21, <1>22

\* A refund takes nothing from an available balance.
LEMMA RefundCovered ==
  ASSUME WalletInv, NEW m \in Markets, RefundOpen(m), NEW u \in Users
  PROVE  available'[u] >= available[u] /\ available'[u] \in Int
<1> DEFINE open == WithStatus(m, "open")
           due == {p \in open : ~released[p]}
           rows == [p \in Predictions |->
                      IF p \in open
                      THEN [prediction[p] EXCEPT !.status = "canceled", !.outcome = "null"]
                      ELSE prediction[p]]
           posted == [p \in Predictions |->
                        IF p \in due THEN Entry("release", prediction[p].stake)
                        ELSE NoEntries]
<1>1. Record(rows, posted)
  BY DEF RefundOpen, Refundable
<1>2. \A x \in due : prediction[x].stake \in Nat
  BY StatusRows
<1> HIDE DEF due
<1>3. \A x \in due : /\ Entry("release", prediction[x].stake) \in [Kinds -> Nat]
                     /\ AvailableDelta(Entry("release", prediction[x].stake)) \in Nat
  BY <1>2, EntryType, EntrySpends, KindsElements
<1>4. NoEntries \in [Kinds -> Nat] /\ AvailableDelta(NoEntries) \in Nat
  BY EntryType, EntrySpends, KindsElements
<1>5. /\ posted \in [Predictions -> [Kinds -> Nat]]
      /\ \A x \in Predictions : AvailableDelta(posted[x]) \in Nat
  BY <1>3, <1>4
<1> HIDE DEF rows, posted
<1>6. \A x \in Predictions : AvailableDelta(posted[x]) >= 0
  BY <1>5
<1> QED BY <1>1, <1>5, <1>6, NothingSpent

\* Nor does a resolution.
LEMMA ResolveCovered ==
  ASSUME WalletInv, NEW m \in Markets, NEW option \in Options, Resolve(m, option),
         NEW u \in Users
  PROVE  available'[u] >= available[u] /\ available'[u] \in Int
<1> DEFINE open == WithStatus(m, "open")
           rows == [p \in Predictions |->
                     IF p \in open
                     THEN [prediction[p] EXCEPT
                             !.status = "resolved",
                             !.outcome = IF prediction[p].option = option
                                         THEN "won" ELSE "lost"]
                     ELSE prediction[p]]
           posted == [p \in Predictions |->
                        IF p \in open THEN SettleEntries(p, option) ELSE NoEntries]
<1>1. Record(rows, posted)
  BY DEF Resolve
<1>2. \A x \in open : prediction[x].stake \in Nat /\ NetPayout(prediction[x]) \in Nat
  BY StatusRows, NetPayoutNat
<1> HIDE DEF open
<1>3. ASSUME NEW x \in open
      PROVE  /\ SettleEntries(x, option) \in [Kinds -> Nat]
             /\ AvailableDelta(SettleEntries(x, option)) \in Nat
  <2> DEFINE n == prediction[x].stake
             net == NetPayout(prediction[x])
  <2>1. n \in Nat /\ net \in Nat
    BY <1>2
  <2>2. IF prediction[x].option = option
        THEN SettleEntries(x, option) = Plus(Entry("release", n), Entry("payout", net))
        ELSE SettleEntries(x, option) = Entry("settle", n)
    BY DEF SettleEntries
  <2> HIDE DEF n, net
  <2>3. /\ Entry("release", n) \in [Kinds -> Nat] /\ Entry("payout", net) \in [Kinds -> Nat]
        /\ Entry("settle", n) \in [Kinds -> Nat]
    BY <2>1, EntryType, KindsElements
  <2>4. /\ AvailableDelta(Entry("release", n)) = n
        /\ AvailableDelta(Entry("payout", net)) = net
        /\ AvailableDelta(Entry("settle", n)) = 0
    BY <2>1, EntrySpends
  <2>5. /\ Plus(Entry("release", n), Entry("payout", net)) \in [Kinds -> Nat]
        /\ AvailableDelta(Plus(Entry("release", n), Entry("payout", net))) = n + net
    BY <2>3, <2>4, PlusType, SpendPlus
  <2>6. CASE prediction[x].option = option
    <3>1. SettleEntries(x, option) = Plus(Entry("release", n), Entry("payout", net))
      BY <2>2, <2>6
    <3>2. n + net \in Nat
      BY <2>1
    <3> QED BY <2>5, <3>1, <3>2
  <2>7. CASE prediction[x].option # option
    <3>1. SettleEntries(x, option) = Entry("settle", n)
      BY <2>2, <2>7
    <3> QED BY <2>3, <2>4, <3>1
  <2> QED BY <2>6, <2>7
<1>4. NoEntries \in [Kinds -> Nat] /\ AvailableDelta(NoEntries) \in Nat
  BY EntryType, EntrySpends, KindsElements
<1>5. /\ posted \in [Predictions -> [Kinds -> Nat]]
      /\ \A x \in Predictions : AvailableDelta(posted[x]) \in Nat
  BY <1>3, <1>4
<1> HIDE DEF rows, posted
<1>6. \A x \in Predictions : AvailableDelta(posted[x]) >= 0
  BY <1>5
<1> QED BY <1>1, <1>5, <1>6, NothingSpent

\* Only undoing a resolution makes an available balance negative.
THEOREM UndoAloneOverdraws == Spec => OnlyUndoOverdraws
<1> DEFINE A == \A u \in Users :
                  available[u] >= 0 /\ available'[u] < 0
                  => \E m \in Markets : mstatus[m] = "resolved" /\ mstatus'[m] = "locked"
<1>1. Inv /\ [Next]_vars => A
  <2> SUFFICES ASSUME Inv, [Next]_vars, NEW u \in Users,
                      available[u] >= 0, available'[u] < 0
               PROVE  \E m \in Markets : mstatus[m] = "resolved" /\ mstatus'[m] = "locked"
    OBVIOUS
  <2>0. WalletInv /\ available[u] \in Int /\ mstatus \in [Markets -> Statuses]
    BY DEF Inv, WalletInv, WalletTypeOK, MarketTypeOK
  <2>1. ASSUME NEW r \in Requests, NEW q \in Predictions, NEW option \in Options,
               NEW stake \in Stakes, NEW price \in Prices,
               CommitInitial(r, q, option, stake, price)
                  \/ CommitReinforcement(r, q, option, stake, price)
        PROVE  FALSE
    <3>1. request[r] # Idle /\ Open(r, q, option, stake, price)
      BY <2>1 DEF CommitInitial, CommitReinforcement
    <3>2. available'[u] >= 0 /\ available'[u] \in Int
      BY <3>1, OpenCovered
    <3> QED BY <2>0, <3>2
  <2>2. ASSUME NEW r \in Requests, NEW q \in Predictions, NEW option \in Options,
               NEW price \in Prices, CommitRevision(r, q, option, price)
        PROVE  FALSE
    <3>1. available'[u] = available[u]
      BY <2>2, RevisionCovered
    <3> QED BY <2>0, <3>1
  <2>3. ASSUME NEW m \in Markets,
               RefundOpen(m) \/ \E option \in Options : Resolve(m, option)
        PROVE  FALSE
    <3>1. available'[u] >= available[u] /\ available'[u] \in Int
      BY <2>0, <2>3, RefundCovered, ResolveCovered
    <3> QED BY <2>0, <3>1
  <2>4. ASSUME NEW m \in Markets, UndoResolution(m)
        PROVE  mstatus[m] = "resolved" /\ mstatus'[m] = "locked"
    BY <2>0, <2>4 DEF UndoResolution, CanUndo, SetStatus
  <2>5. CASE UNCHANGED walletVars
    BY <2>0, <2>5 DEF walletVars
  <2> QED BY <2>1, <2>2, <2>3, <2>4, <2>5, StepKinds
<1> QED BY <1>1, Invariance, PTL DEF Spec, OnlyUndoOverdraws

=============================================================================
