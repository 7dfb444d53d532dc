-------------------------- MODULE MarketSettlement --------------------------
(***************************************************************************)
(* Prediction markets, positions and wallets: how a stake is taken, how a  *)
(* market closes, and how its stakes are settled, refunded or recalled.    *)
(*                                                                         *)
(* Every request handler of the API and every pass of the daemon is one    *)
(* PostgreSQL transaction at READ COMMITTED.  Lifecycle handlers hold the  *)
(* market row FOR UPDATE from their first read, and run atomically with    *)
(* respect to each other and to the commit of a position, so each is one   *)
(* action.  A position request reads the market WITHOUT a lock and writes  *)
(* later, behind an advisory lock of the user and market; it is therefore  *)
(* two actions, Admit... and Commit..., and anything may commit between.   *)
(*                                                                         *)
(* The ledger is kept per prediction as the sum of the amounts of its rows *)
(* of each kind, plus whether a release is newer than the last lock: that  *)
(* is all the code ever asks of it.                                        *)
(***************************************************************************)
EXTENDS Integers, FiniteSets, SetSums

CONSTANTS
    Users,              \* every account with a wallet
    Bots,               \* the accounts of internal agents
    Markets,
    AutoClose,          \* markets the daemon closes at close_at
    Options,
    Predictions,        \* identities the predictions table can hand out (bound)
    Requests,           \* API workers that can serve a position request (bound)
    NoOption, Absent, Idle,
    Grant,              \* opening balance of every wallet
    Stakes,             \* stakes a request may carry
    Prices,             \* probabilities, in percent, an option may show
    MaxReinforcements, MaxRevisions, PenaltyPercent,
    MinReinforcement, MinRemaining,   \* site configuration of positions
    MaxUndos            \* bound on resolutions undone per market

Statuses == {"draft", "scheduled", "open", "locked", "resolved", "sealed", "canceled"}
Actions == {"initial", "reinforcement", "revision"}
Clock == {"early", "cutoff", "due"}

\* A row of the predictions table.  "outcome" is the nullable column "won".
PredictionRow ==
    [user : Users, market : Markets, option : Options, action : Actions,
     sequence : Nat, stake : Nat \ {0}, payout : Nat,
     status : {"open", "resolved", "canceled", "revised"},
     outcome : {"won", "lost", "null"}]

\* An admitted position request: what it holds after reading the market.
RequestRow == [user : Users, market : Markets, action : Actions]

\* Kinds of ledger rows that refer to a prediction.
Kinds == {"lock", "release", "settle", "payout", "reversal", "recredit", "penalty"}

ASSUME SettlementAssumption ==
    /\ Bots \subseteq Users
    /\ AutoClose \subseteq Markets
    /\ NoOption \notin Options
    /\ IsFiniteSet(Predictions)
    /\ Absent \notin PredictionRow
    /\ Idle \notin RequestRow
    /\ Grant \in Nat
    /\ Stakes \subseteq Nat \ {0}
    /\ Prices \subseteq 1..100
    /\ MaxReinforcements \in Nat
    /\ MaxRevisions \in Nat
    /\ PenaltyPercent \in 0..100
    /\ MinReinforcement \in Nat \ {0}
    /\ MinRemaining \in Nat \ {0}
    /\ MaxUndos \in Nat

VARIABLES
    mstatus,        \* markets.status
    winner,         \* markets.winning_option_id
    closing,        \* the clock relative to close_at and the revision cutoff
    sealDue,        \* has markets.seal_due_at passed?
    undos,          \* resolutions undone so far (history, bounds the model)
    prediction,     \* the predictions table
    ledger,         \* wallet_ledger, summed per prediction and kind
    released,       \* is a stake release newer than the last lock?
    available, locked,   \* wallet_balances.available_gtl, locked_gtl
    request         \* position requests in flight

marketVars == <<mstatus, winner, closing, sealDue, undos>>
walletVars == <<prediction, ledger, released, available, locked>>
vars == <<mstatus, winner, closing, sealDue, undos, prediction, ledger,
          released, available, locked, request>>

-----------------------------------------------------------------------------
(* Arithmetic of stakes, payouts and penalties.                            *)

RoundHalfUp(n, d) == (2 * n + d) \div (2 * d)

\* Decimal.to_integral_value rounds half to even.
RoundHalfEven(n, d) ==
    LET q == n \div d
        r == n % d
    IN  IF 2 * r < d \/ (2 * r = d /\ q % 2 = 0) THEN q ELSE q + 1

Payout(stake, price) == RoundHalfEven(stake * 100, price)

Penalty(stake) ==
    IF PenaltyPercent <= 0 THEN 0
    ELSE LET cost == RoundHalfUp(stake * PenaltyPercent, 100)
         IN  IF cost < 1 THEN 1 ELSE cost

NetPayout(row) == IF row.payout > row.stake THEN row.payout - row.stake ELSE 0

-----------------------------------------------------------------------------
(* The tables.                                                             *)

Rows(S) == {p \in S : prediction[p] # Absent}

InMarket(m) == {p \in Rows(Predictions) : prediction[p].market = m}

WithStatus(m, status) == {p \in InMarket(m) : prediction[p].status = status}

\* Every position the user ever took in the market, and the active ones.
Positions(u, m) == {p \in InMarket(m) : prediction[p].user = u}
ActivePositions(u, m) == {p \in Positions(u, m) : prediction[p].status = "open"}

HumanHolds(m) == \E p \in WithStatus(m, "open") : prediction[p].user \notin Bots

StakeSum(S) == SumOver([p \in S |-> prediction[p].stake], S)

CountOf(u, m, action) ==
    Cardinality({p \in Positions(u, m) : prediction[p].action = action})

\* An open market that closes automatically reads as locked once it is due.
EffectiveStatus(m) ==
    IF mstatus[m] = "open" /\ m \in AutoClose /\ closing[m] = "due"
    THEN "locked" ELSE mstatus[m]

NoEntries == [k \in Kinds |-> 0]
Entry(kind, amount) == [NoEntries EXCEPT ![kind] = amount]
Plus(e, f) == [k \in Kinds |-> e[k] + f[k]]

\* What ledger rows do to the balances of the owner's wallet.
AvailableDelta(e) ==
    e["release"] + e["payout"] + e["recredit"] - e["lock"] - e["reversal"] - e["penalty"]
LockedDelta_NoSettle(e) == e["lock"] - e["release"]
LockedDelta(e) == e["lock"] - e["release"] - e["settle"]

\* Is a release newer than the last lock, after the rows "e"?
ReleasedAfter_IgnoringLocks(was, e) == was \/ e["release"] > 0
ReleasedAfter(was, e) == e["lock"] = 0 /\ (was \/ e["release"] > 0)

\* Write the predictions "rows" and post the ledger rows "posted" (by
\* prediction) with the balance updates that accompany each of them.
Record(rows, posted) ==
    LET owned(u) == {p \in Predictions : rows[p] # Absent /\ rows[p].user = u}
    IN  /\ prediction' = rows
        /\ ledger' = [p \in Predictions |-> Plus(ledger[p], posted[p])]
        /\ released' = [p \in Predictions |-> ReleasedAfter(released[p], posted[p])]
        /\ available' =
             [u \in Users |-> available[u] +
                SumOver([p \in Predictions |-> AvailableDelta(posted[p])], owned(u))]
        /\ locked' =
             [u \in Users |-> locked[u] +
                SumOver([p \in Predictions |-> LockedDelta(posted[p])], owned(u))]

-----------------------------------------------------------------------------
Init ==
    /\ mstatus \in [Markets -> {"draft", "scheduled"}]
    /\ winner = [m \in Markets |-> NoOption]
    /\ closing = [m \in Markets |-> "early"]
    /\ sealDue = [m \in Markets |-> FALSE]
    /\ undos = [m \in Markets |-> 0]
    /\ prediction = [p \in Predictions |-> Absent]
    /\ ledger = [p \in Predictions |-> NoEntries]
    /\ released = [p \in Predictions |-> FALSE]
    /\ available = [u \in Users |-> Grant]
    /\ locked = [u \in Users |-> 0]
    /\ request = [r \in Requests |-> Idle]

-----------------------------------------------------------------------------
(* Positions.                                                              *)

\* A handler has read the market and goes on only if it looks open.
AdmitPosition(r, u, m, action) ==
    /\ request[r] = Idle
    /\ u \notin Bots
    /\ EffectiveStatus(m) = "open"
    /\ request' = [request EXCEPT ![r] = [user |-> u, market |-> m, action |-> action]]
    /\ UNCHANGED <<marketVars, walletVars>>

\* The agent cycle picks a candidate market by its stored status, among those
\* with a human position and none of the bot's.
AdmitBotPrediction(r, u, m) ==
    /\ request[r] = Idle
    /\ u \in Bots
    /\ mstatus[m] = "open"
    /\ HumanHolds(m)
    /\ Positions(u, m) = {}
    /\ request' = [request EXCEPT ![r] = [user |-> u, market |-> m, action |-> "initial"]]
    /\ UNCHANGED <<marketVars, walletVars>>

\* The request ends in an error or a rollback: nothing was written.
RejectPosition(r) ==
    /\ request[r] # Idle
    /\ request' = [request EXCEPT ![r] = Idle]
    /\ UNCHANGED <<marketVars, walletVars>>

NewRow(u, m, option, action, stake, price) ==
    [user |-> u, market |-> m, option |-> option, action |-> action,
     sequence |-> Cardinality(Positions(u, m)) + 1,
     stake |-> stake, payout |-> Payout(stake, price),
     status |-> "open", outcome |-> "null"]

\* The wallet row, read FOR UPDATE, pays for the stake.
Covers_WithLocked(u, stake) == available[u] + locked[u] >= stake
Covers(u, stake) == available[u] >= stake

\* Insert one position of the request in slot r and lock its stake.
Open(r, p, option, stake, price) ==
    LET q == request[r]
    IN  /\ prediction[p] = Absent
        /\ Covers(q.user, stake)
        /\ Record([prediction EXCEPT
                     ![p] = NewRow(q.user, q.market, option, q.action, stake, price)],
                  [x \in Predictions |->
                     IF x = p THEN Entry("lock", stake) ELSE NoEntries])
        /\ request' = [request EXCEPT ![r] = Idle]
        /\ UNCHANGED marketVars

\* First prediction of the user in the market (human or bot).
CommitInitial(r, p, option, stake, price) ==
    /\ request[r] # Idle
    /\ request[r].action = "initial"
    /\ Positions(request[r].user, request[r].market) = {}
    /\ Open(r, p, option, stake, price)

\* The option of the user's latest active position.
HoldsOption(u, m, option) ==
    \E q \in ActivePositions(u, m) :
        /\ prediction[q].option = option
        /\ \A x \in ActivePositions(u, m) : prediction[x].sequence <= prediction[q].sequence

\* More stake on the option already held.
CommitReinforcement(r, p, option, stake, price) ==
    LET u == request[r].user
        m == request[r].market
    IN  /\ request[r] # Idle
        /\ request[r].action = "reinforcement"
        /\ HoldsOption(u, m, option)
        /\ CountOf(u, m, "reinforcement") < MaxReinforcements
        /\ stake >= MinReinforcement
        /\ Open(r, p, option, stake, price)

\* Trade every active position for one on another option, at a cost.
CommitRevision(r, p, option, price) ==
    LET u == request[r].user
        m == request[r].market
        active == ActivePositions(u, m)
        penalty == Penalty(StakeSum(active))
        stake == StakeSum(active) - penalty
    IN  /\ request[r] # Idle
        /\ request[r].action = "revision"
        /\ prediction[p] = Absent
        /\ active # {}
        /\ ~HoldsOption(u, m, option)
        /\ closing[m] = "early"
        /\ CountOf(u, m, "revision") < MaxRevisions
        /\ stake >= MinRemaining
        /\ Record([x \in Predictions |->
                     IF x = p THEN NewRow(u, m, option, "revision", stake, price)
                     ELSE IF x \in active THEN [prediction[x] EXCEPT !.status = "revised"]
                     ELSE prediction[x]],
                  [x \in Predictions |->
                     IF x = p THEN Plus(Entry("penalty", penalty), Entry("lock", stake))
                     ELSE IF x \in active THEN Entry("release", prediction[x].stake)
                     ELSE NoEntries])
        /\ request' = [request EXCEPT ![r] = Idle]
        /\ UNCHANGED marketVars

-----------------------------------------------------------------------------
(* Market lifecycle.                                                       *)

SetStatus(m, status) == mstatus' = [mstatus EXCEPT ![m] = status]

Publish(m) ==
    /\ mstatus[m] \in {"draft", "scheduled"}
    /\ SetStatus(m, "open")
    /\ UNCHANGED <<winner, closing, sealDue, undos, walletVars, request>>

\* Staff close by hand only the markets the daemon does not close.
LockMarket(m) ==
    /\ m \notin AutoClose
    /\ mstatus[m] \in {"open", "scheduled"}
    /\ SetStatus(m, "locked")
    /\ UNCHANGED <<winner, closing, sealDue, undos, walletVars, request>>

Refundable_HumansOnly(m) == {p \in WithStatus(m, "open") : prediction[p].user \notin Bots}
Refundable(m) == WithStatus(m, "open")

\* Mark the open predictions of the market canceled and release their stakes,
\* skipping those a release already covers; a wallet that holds less than the
\* stakes aborts the transaction.
RefundOpen(m) ==
    LET open == Refundable(m)
        due == {p \in open : ~released[p]}
    IN  /\ \A u \in Users : StakeSum({p \in due : prediction[p].user = u}) <= locked[u]
        /\ Record([p \in Predictions |->
                     IF p \in open
                     THEN [prediction[p] EXCEPT !.status = "canceled", !.outcome = "null"]
                     ELSE prediction[p]],
                  [p \in Predictions |->
                     IF p \in due THEN Entry("release", prediction[p].stake) ELSE NoEntries])

\* Cancel a market that is not resolved, sealed or already canceled.
Cancel(m) ==
    /\ mstatus[m] \notin {"resolved", "sealed", "canceled"}
    /\ RefundOpen(m)
    /\ SetStatus(m, "canceled")
    /\ UNCHANGED <<winner, closing, sealDue, undos, request>>

DueForClose_WithPositions(m) ==
    /\ m \in AutoClose
    /\ mstatus[m] \in {"open", "scheduled"}
    /\ closing[m] = "due"
    /\ WithStatus(m, "open") # {}
DueForClose(m) ==
    /\ m \in AutoClose
    /\ mstatus[m] \in {"open", "scheduled"}
    /\ closing[m] = "due"

\* The daemon closes a due market: it cancels one no human holds a position
\* in, and locks the others.
CloseDue(m) ==
    /\ DueForClose(m)
    /\ IF HumanHolds(m)
       THEN SetStatus(m, "locked") /\ UNCHANGED walletVars
       ELSE RefundOpen(m) /\ SetStatus(m, "canceled")
    /\ UNCHANGED <<winner, closing, sealDue, undos, request>>

\* Winners get the stake and the net payout, losers lose the stake.
SettleEntries_StakeKept(p, option) ==
    IF prediction[p].option = option
    THEN Entry("payout", NetPayout(prediction[p]))
    ELSE Entry("settle", prediction[p].stake)
SettleEntries(p, option) ==
    IF prediction[p].option = option
    THEN Plus(Entry("release", prediction[p].stake),
              Entry("payout", NetPayout(prediction[p])))
    ELSE Entry("settle", prediction[p].stake)

\* Publish a result; the window in which it can be undone opens.
Resolve(m, option) ==
    LET open == WithStatus(m, "open")
    IN  /\ mstatus[m] = "locked"
        /\ SetStatus(m, "resolved")
        /\ winner' = [winner EXCEPT ![m] = option]
        /\ sealDue' = [sealDue EXCEPT ![m] = FALSE]
        /\ Record([p \in Predictions |->
                     IF p \in open
                     THEN [prediction[p] EXCEPT
                             !.status = "resolved",
                             !.outcome = IF prediction[p].option = option
                                         THEN "won" ELSE "lost"]
                     ELSE prediction[p]],
                  [p \in Predictions |->
                     IF p \in open THEN SettleEntries(p, option) ELSE NoEntries])
        /\ UNCHANGED <<closing, undos, request>>

\* Winners give back every payout credit the ledger holds for the prediction,
\* losers get the stake back, and both stakes are locked again.
RecallEntries_PayoutKept(p) ==
    IF prediction[p].outcome = "won"
    THEN Entry("lock", prediction[p].stake)
    ELSE Plus(Entry("recredit", prediction[p].stake), Entry("lock", prediction[p].stake))
RecallEntries(p) ==
    IF prediction[p].outcome = "won"
    THEN Plus(Entry("reversal", ledger[p]["payout"]), Entry("lock", prediction[p].stake))
    ELSE Plus(Entry("recredit", prediction[p].stake), Entry("lock", prediction[p].stake))

Recallable_WithRevised(m) == WithStatus(m, "resolved") \cup WithStatus(m, "revised")
Recallable(m) == WithStatus(m, "resolved")

CanUndo_EvenSealed(m) == mstatus[m] \in {"resolved", "sealed"}
CanUndo(m) == mstatus[m] = "resolved" /\ ~sealDue[m]

\* Undo a result inside its window: the market is locked again.
UndoResolution(m) ==
    LET settled == Recallable(m)
    IN  /\ undos[m] < MaxUndos
        /\ CanUndo(m)
        /\ SetStatus(m, "locked")
        /\ winner' = [winner EXCEPT ![m] = NoOption]
        /\ sealDue' = [sealDue EXCEPT ![m] = FALSE]
        /\ undos' = [undos EXCEPT ![m] = @ + 1]
        /\ Record([p \in Predictions |->
                     IF p \in settled
                     THEN [prediction[p] EXCEPT !.status = "open", !.outcome = "null"]
                     ELSE prediction[p]],
                  [p \in Predictions |->
                     IF p \in settled THEN RecallEntries(p) ELSE NoEntries])
        /\ UNCHANGED <<closing, request>>

Sealable(m) == mstatus[m] = "resolved" /\ sealDue[m]

\* The daemon seals a resolved market whose window is over.
Seal(m) ==
    /\ Sealable(m)
    /\ SetStatus(m, "sealed")
    /\ UNCHANGED <<winner, closing, sealDue, undos, walletVars, request>>

\* Operator command: refund open predictions found in a canceled market.
ReconcileCanceled(m) ==
    /\ mstatus[m] = "canceled"
    /\ WithStatus(m, "open") # {}
    /\ RefundOpen(m)
    /\ UNCHANGED <<marketVars, request>>

-----------------------------------------------------------------------------
(* Time.                                                                   *)

PassCutoff(m) ==
    /\ closing[m] = "early"
    /\ closing' = [closing EXCEPT ![m] = "cutoff"]
    /\ UNCHANGED <<mstatus, winner, sealDue, undos, walletVars, request>>

PassClose(m) ==
    /\ closing[m] = "cutoff"
    /\ closing' = [closing EXCEPT ![m] = "due"]
    /\ UNCHANGED <<mstatus, winner, sealDue, undos, walletVars, request>>

PassSealWindow(m) ==
    /\ mstatus[m] = "resolved"
    /\ ~sealDue[m]
    /\ sealDue' = [sealDue EXCEPT ![m] = TRUE]
    /\ UNCHANGED <<mstatus, winner, closing, undos, walletVars, request>>

-----------------------------------------------------------------------------
PositionStep ==
    \E r \in Requests :
        \/ \E u \in Users, m \in Markets :
              \/ \E action \in Actions : AdmitPosition(r, u, m, action)
              \/ AdmitBotPrediction(r, u, m)
        \/ RejectPosition(r)
        \/ \E p \in Predictions, option \in Options, price \in Prices :
              \/ \E stake \in Stakes :
                    \/ CommitInitial(r, p, option, stake, price)
                    \/ CommitReinforcement(r, p, option, stake, price)
              \/ CommitRevision(r, p, option, price)

LifecycleStep(m) ==
    \/ Publish(m)
    \/ LockMarket(m)
    \/ CloseDue(m)
    \/ Cancel(m)
    \/ \E option \in Options : Resolve(m, option)
    \/ UndoResolution(m)
    \/ Seal(m)
    \/ ReconcileCanceled(m)

TimeStep(m) == PassCutoff(m) \/ PassClose(m) \/ PassSealWindow(m)

Next == PositionStep \/ \E m \in Markets : LifecycleStep(m) \/ TimeStep(m)

Spec == Init /\ [][Next]_vars

\* The daemon runs its cycle forever, and time passes.
Fairness ==
    \A m \in Markets :
        /\ WF_vars(CloseDue(m))
        /\ WF_vars(Seal(m))
        /\ WF_vars(TimeStep(m))

FairSpec == Spec /\ Fairness

-----------------------------------------------------------------------------
(* Properties.                                                             *)

Held(p) == LockedDelta(ledger[p])

MarketTypeOK ==
    /\ mstatus \in [Markets -> Statuses]
    /\ winner \in [Markets -> Options \cup {NoOption}]
    /\ closing \in [Markets -> Clock]
    /\ sealDue \in [Markets -> BOOLEAN]
    /\ undos \in [Markets -> 0..MaxUndos]

LedgerTypeOK ==
    /\ ledger \in [Predictions -> [Kinds -> Nat]]
    /\ released \in [Predictions -> BOOLEAN]

WalletTypeOK ==
    /\ available \in [Users -> Int]
    /\ locked \in [Users -> Nat]

\* Every table holds rows of its type; in particular no wallet ever has a
\* negative locked balance.
TypeOK ==
    /\ MarketTypeOK
    /\ prediction \in [Predictions -> PredictionRow \cup {Absent}]
    /\ LedgerTypeOK
    /\ WalletTypeOK
    /\ request \in [Requests -> RequestRow \cup {Idle}]

\* The ledger holds exactly the stake of a prediction locked while it is open
\* and nothing once it is revised, resolved or canceled: across reinforcement,
\* revision, settlement, refund and undo no stake is released twice, released
\* in part or left behind.  (market_lifecycle_engine.py, _apply_position_action)
StakeHeldWhileOpen ==
    \A p \in Predictions :
        Held(p) = IF prediction[p] # Absent /\ prediction[p].status = "open"
                  THEN prediction[p].stake ELSE 0

\* The refund's idempotency test never skips a stake still held: an open
\* prediction has no release newer than its last lock, a closed one that was
\* not lost has one.  (_refund_market_predictions)
RefundTestIsExact ==
    \A p \in Rows(Predictions) :
        released[p] <=> \/ prediction[p].status \in {"revised", "canceled"}
                        \/ prediction[p].outcome = "won"

\* The locked balance of a wallet is the sum of its owner's open stakes, so a
\* cancellation or settlement always finds the balance it needs.
LockedIsOpenStakes ==
    \A u \in Users :
        locked[u] = StakeSum({p \in Rows(Predictions) :
                        prediction[p].user = u /\ prediction[p].status = "open"})

\* What a prediction has brought its owner so far, beyond the stake itself,
\* and what its status says it should have.
Gain(p) ==
    ledger[p]["payout"] + ledger[p]["recredit"]
        - ledger[p]["reversal"] - ledger[p]["settle"]
GainDue(p) ==
    CASE prediction[p].outcome = "won" -> NetPayout(prediction[p])
      [] prediction[p].outcome = "lost" -> -prediction[p].stake
      [] OTHER -> 0

\* As long as at most one resolution of the market was undone, a prediction
\* has gained its owner the net payout if won, lost the stake if lost, and
\* nothing otherwise, whatever was resolved, undone, refunded or revised.
OutcomePaidOnce ==
    \A p \in Rows(Predictions) :
        undos[prediction[p].market] <= 1 => Gain(p) = GainDue(p)

\* The same without the bound on undone resolutions: undoing reverts "os
\* efeitos atuais" of a resolution (docs/specs/contracts/market-lifecycle.md).
UndoRevertsCurrentEffects ==
    \A p \in Rows(Predictions) : Gain(p) = GainDue(p)

\* All the positions a user holds open in one market are on one option.
OneSidedPosition ==
    \A p, q \in Rows(Predictions) :
        (/\ prediction[p].status = "open" /\ prediction[q].status = "open"
         /\ prediction[p].user = prediction[q].user
         /\ prediction[p].market = prediction[q].market)
        => prediction[p].option = prediction[q].option

\* One position per user and market, and what it brings is paid once.
PaidOnceOnOneSide == OutcomePaidOnce /\ OneSidedPosition

\* No step but undoing a resolution makes an available balance negative: a
\* position never spends more than the wallet holds, whatever ran meanwhile.
OnlyUndoOverdraws ==
    [][\A u \in Users :
         available[u] >= 0 /\ available'[u] < 0
         => \E m \in Markets : mstatus[m] = "resolved" /\ mstatus'[m] = "locked"]_vars

\* When a market becomes resolved or canceled, every position in it is settled
\* or refunded by that very step.
ClosingSettlesAll ==
    [][\A m \in Markets :
         mstatus'[m] # mstatus[m] /\ mstatus'[m] \in {"resolved", "canceled"}
         => WithStatus(m, "open")' = {}]_vars

\* Once a market is sealed, the result of a settled position and its ledger
\* rows never change again.
SealedResultsFinal ==
    [][\A p \in Rows(Predictions) :
         (mstatus[prediction[p].market] = "sealed" /\ prediction[p].status = "resolved")
         => prediction'[p] = prediction[p] /\ ledger'[p] = ledger[p]]_vars

\* "Apenas open aceita novas previsoes" (docs/specs/contracts/market-lifecycle.md):
\* a new prediction appears only in a market that is open at that moment. The
\* code refutes it (README, section 5); no run includes it.
OnlyOpenAccepts ==
    [][\A p \in Predictions :
         prediction[p] = Absent /\ prediction'[p] # Absent
         => mstatus[prediction'[p].market] = "open"]_vars

\* Where the stake of a prediction is, read off its ledger rows.
CustodyOf(p) ==
    IF prediction[p] = Absent THEN "none"
    ELSE IF Held(p) = prediction[p].stake THEN "escrow"
    ELSE IF ledger[p]["settle"] - ledger[p]["recredit"] = prediction[p].stake
    THEN "forfeited"
    ELSE IF prediction[p].status = "resolved" THEN "paid" ELSE "refunded"

Custody == INSTANCE StakeCustody WITH custody <- [p \in Predictions |-> CustodyOf(p)]

\* The settlement of markets implements the custody of stakes: a stake is in
\* one place and moves only as StakeCustody allows.
CustodySpec == Custody!Spec

\* A due market that closes automatically does not stay open.
DueMarketsClose ==
    \A m \in AutoClose :
        (mstatus[m] = "open" /\ closing[m] = "due") ~> (mstatus[m] # "open")

\* A result that is never undone inside its window is sealed.
ResultsAreSealed ==
    \A m \in Markets :
        (mstatus[m] = "resolved") ~> (mstatus[m] \in {"sealed", "locked"})

=============================================================================
