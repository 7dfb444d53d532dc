-------------------------- MODULE EditorialProofs --------------------------
(***************************************************************************)
(* Proofs about the components that MCEditorial puts side by side, for any *)
(* sets of people, keys, requests and rows and any bounds.  Each part has  *)
(* its inductive invariant, a lemma per group of actions, and the theorem  *)
(* about the composite specification that the runs check.                  *)
(***************************************************************************)
EXTENDS MCEditorial, FiniteSetTheorems, SequenceTheorems, TLAPS

-----------------------------------------------------------------------------
(* Confirmations.  Why a repeated request is told the truth: windows are   *)
(* numbered upwards, so the result a receipt names stands exactly while    *)
(* the market shows the receipt's window, and then its outcome is the      *)
(* market's winner.  Why a key publishes once although it is looked up     *)
(* before the result is computed: FinishConfirm inserts it.                *)

\* A request in flight holds the row of a locked market, alone.
ContestsHeld ==
    \A c \in Confirmers : confirming[c] # NotConfirming =>
      /\ contest[confirming[c].contest].status = "locked"
      /\ \A d \in Confirmers :
           confirming[d] # NotConfirming /\ confirming[d].contest = confirming[c].contest => d = c

\* Results are numbered, and nobody is notified before the first.
WindowsNumbered ==
    \A m \in Contests :
      /\ contest[m].window <= windows[m]
      /\ contest[m].status \in {"resolved", "sealed"} <=> contest[m].window >= 1
      /\ windows[m] = 0 => notice[m] = NoOutcome

\* A receipt names one of the results published; while that one stands its
\* outcome is the winner.
ReceiptNames(m, r) ==
    r.contest = m =>
      /\ 1 <= r.window /\ r.window <= windows[m]
      /\ contest[m].window = r.window => contest[m].winner = r.outcome

ReceiptsNameResults ==
    \A k \in ResultKeys : resultReceipt[k] # NoReceiptYet =>
      \A m \in Contests : ReceiptNames(m, resultReceipt[k])

ConfirmationsInv ==
    /\ ConfirmationInvariant
    /\ effects \in [ResultKeys -> Nat]
    /\ ContestsHeld
    /\ WindowsNumbered
    /\ ReceiptsNameResults

\* The parts of the invariant, for leaves that need no more.
LEMMA ConfirmationsTypes ==
  ASSUME ConfirmationsInv
  PROVE  /\ contest \in [Contests -> ContestRow]
         /\ windows \in [Contests -> 0..MaxWindows]
         /\ resultReceipt \in [ResultKeys -> ResultReceipt \cup {NoReceiptYet}]
         /\ cancelReceipt \subseteq AgentKeys \X Contests
         /\ confirming \in [Confirmers -> ConfirmRow \cup {NotConfirming}]
         /\ notice \in [Contests -> Outcomes \cup {NoOutcome}]
         /\ effects \in [ResultKeys -> Nat]
         /\ misled = {}
BY DEF ConfirmationsInv, ConfirmationInvariant, ConfirmationTypeOK, NobodyMisled

\* What a handler assigns to a market's row.
StampedRow(r, s, o, w) ==
    [[r EXCEPT !.status = s, !.winner = o, !.window = w] EXCEPT !.stamp = @ + 1]

LEMMA ContestStamped ==
  ASSUME NEW r \in ContestRow, NEW s \in {"locked", "resolved", "sealed", "canceled"},
         NEW o \in Outcomes \cup {NoOutcome}, NEW w \in 0..MaxWindows
  PROVE  /\ StampedRow(r, s, o, w) \in ContestRow
         /\ StampedRow(r, s, o, w).status = s
         /\ StampedRow(r, s, o, w).winner = o
         /\ StampedRow(r, s, o, w).window = w
<1> DEFINE q == [r EXCEPT !.status = s, !.winner = o, !.window = w]
<1>1. q \in ContestRow
  BY DEF ContestRow
<1>2. q.status = s /\ q.winner = o /\ q.window = w
  BY DEF ContestRow
<1> HIDE DEF q
<1>3. [q EXCEPT !.stamp = @ + 1] \in ContestRow
  BY <1>1 DEF ContestRow
<1>4. /\ [q EXCEPT !.stamp = @ + 1].status = s /\ [q EXCEPT !.stamp = @ + 1].winner = o
      /\ [q EXCEPT !.stamp = @ + 1].window = w
  BY <1>1, <1>2 DEF ContestRow
<1> QED BY <1>3, <1>4 DEF StampedRow, q

LEMMA ConfirmationsStart == ConfirmationInit => ConfirmationsInv
<1> SUFFICES ASSUME ConfirmationInit PROVE ConfirmationsInv
  OBVIOUS
<1>1. ConfirmationTypeOK
  BY ConfirmationAssumption DEF ConfirmationInit, ConfirmationTypeOK, ContestRow
<1>2. KeyPublishesOnce /\ NobodyMisled /\ NoticeNamesResult
  BY DEF ConfirmationInit, KeyPublishesOnce, NobodyMisled, NoticeNamesResult
<1>3. effects \in [ResultKeys -> Nat] /\ ContestsHeld /\ ReceiptsNameResults
  BY DEF ConfirmationInit, ContestsHeld, ReceiptsNameResults
<1>4. WindowsNumbered
  BY DEF ConfirmationInit, WindowsNumbered
<1> QED BY <1>1, <1>2, <1>3, <1>4 DEF ConfirmationsInv, ConfirmationInvariant

\* Undoing, sealing or canceling: a row nobody holds changes its status, and
\* keeps its result or loses it.
LEMMA RowChangeKeeps ==
  ASSUME ConfirmationsInv, NEW m \in Contests, NEW row \in ContestRow,
         Unlocked(m), contest' = [contest EXCEPT ![m] = row],
         UNCHANGED <<windows, resultReceipt, confirming, notice, effects, misled>>,
         cancelReceipt' \subseteq AgentKeys \X Contests,
         \/ row.status = "sealed" /\ contest[m].status = "resolved"
            /\ row.winner = contest[m].winner /\ row.window = contest[m].window
         \/ row.status \in {"locked", "canceled"} /\ row.winner = NoOutcome /\ row.window = 0
  PROVE  ConfirmationsInv'
<1>1. ConfirmationTypeOK'
  BY ConfirmationAssumption
     DEF ConfirmationsInv, ConfirmationInvariant, ConfirmationTypeOK
<1>2. KeyPublishesOnce' /\ NobodyMisled' /\ effects' \in [ResultKeys -> Nat]
  BY DEF ConfirmationsInv, ConfirmationInvariant, KeyPublishesOnce, NobodyMisled
<1>3. NoticeNamesResult'
  BY ConfirmationsTypes DEF ConfirmationsInv, ConfirmationInvariant, NoticeNamesResult
<1>4. ContestsHeld'
  BY ConfirmationsTypes DEF ConfirmationsInv, ContestsHeld, Unlocked, ConfirmRow
<1>5. WindowsNumbered'
  BY ConfirmationsTypes DEF ConfirmationsInv, WindowsNumbered, ContestRow
<1>6. ReceiptsNameResults'
  <2> SUFFICES ASSUME NEW k \in ResultKeys, resultReceipt[k] # NoReceiptYet,
                      NEW n \in Contests, resultReceipt[k].contest = n
               PROVE  /\ 1 <= resultReceipt[k].window /\ resultReceipt[k].window <= windows[n]
                      /\ contest'[n].window = resultReceipt[k].window =>
                           contest'[n].winner = resultReceipt[k].outcome
    BY ConfirmationsTypes DEF ReceiptsNameResults, ReceiptNames
  <2>1. /\ 1 <= resultReceipt[k].window /\ resultReceipt[k].window <= windows[n]
        /\ contest[n].window = resultReceipt[k].window =>
             contest[n].winner = resultReceipt[k].outcome
    BY DEF ConfirmationsInv, ReceiptsNameResults, ReceiptNames
  <2> QED BY <2>1, ConfirmationsTypes
<1> QED BY <1>1, <1>2, <1>3, <1>4, <1>5, <1>6 DEF ConfirmationsInv, ConfirmationInvariant

\* A result is published by a key that was not used, on a locked market that
\* no other request holds.
LEMMA PublishKeeps ==
  ASSUME ConfirmationsInv, NEW m \in Contests, NEW k \in ResultKeys, NEW o \in Outcomes,
         PublishResult(m, k, o), resultReceipt[k] = NoReceiptYet,
         contest[m].status = "locked",
         misled' = misled, cancelReceipt' = cancelReceipt,
         confirming' \in [Confirmers -> ConfirmRow \cup {NotConfirming}],
         \A c \in Confirmers : confirming'[c] # NotConfirming =>
             confirming'[c] = confirming[c] /\ confirming[c].contest # m
  PROVE  ConfirmationsInv'
<1> DEFINE w == windows[m] + 1
           row == StampedRow(contest[m], "resolved", o, w)
           newReceipt == [contest |-> m, outcome |-> o, window |-> w]
<1>1. /\ windows[m] \in Nat /\ w \in 1..MaxWindows
      /\ contest[m] \in ContestRow /\ contest[m].stamp \in Nat
  BY ConfirmationsTypes, ConfirmationAssumption DEF PublishResult, ContestRow
<1>2. /\ windows' = [windows EXCEPT ![m] = w]
      /\ contest' = [contest EXCEPT ![m] = row]
      /\ resultReceipt' = [resultReceipt EXCEPT ![k] = newReceipt]
      /\ effects' = [effects EXCEPT ![k] = @ + 1]
      /\ notice' = [notice EXCEPT ![m] = IF @ = NoOutcome THEN o ELSE @]
  BY DEF PublishResult, Changed, Notified, StampedRow
<1>3. newReceipt \in ResultReceipt /\ newReceipt # NoReceiptYet
  BY <1>1, ConfirmationAssumption DEF ResultReceipt
<1>4. /\ row \in ContestRow
      /\ row.status = "resolved" /\ row.winner = o /\ row.window = w
      /\ newReceipt.contest = m /\ newReceipt.outcome = o /\ newReceipt.window = w
  BY <1>1, ContestStamped
<1>5. contest[m].winner = NoOutcome /\ o # NoOutcome
  BY ConfirmationAssumption
     DEF ConfirmationsInv, ConfirmationInvariant, ConfirmationTypeOK
<1> HIDE DEF row, newReceipt
<1>6. ConfirmationTypeOK'
  <2>1. /\ contest' \in [Contests -> ContestRow]
        /\ windows' \in [Contests -> 0..MaxWindows]
        /\ resultReceipt' \in [ResultKeys -> ResultReceipt \cup {NoReceiptYet}]
        /\ notice' \in [Contests -> Outcomes \cup {NoOutcome}]
    BY <1>1, <1>2, <1>3, <1>4, ConfirmationsTypes
  <2>2. \A n \in Contests :
          (contest'[n].winner # NoOutcome) <=> contest'[n].status \in {"resolved", "sealed"}
    BY <1>2, <1>4, <1>5, ConfirmationsTypes
       DEF ConfirmationsInv, ConfirmationInvariant, ConfirmationTypeOK
  <2> QED BY <2>1, <2>2, ConfirmationsTypes DEF ConfirmationTypeOK
<1>7. KeyPublishesOnce' /\ effects' \in [ResultKeys -> Nat]
  BY <1>2, <1>3, ConfirmationsTypes
     DEF ConfirmationsInv, ConfirmationInvariant, KeyPublishesOnce
<1>8. NobodyMisled'
  BY ConfirmationsTypes DEF NobodyMisled
<1>9. NoticeNamesResult'
  <2> SUFFICES ASSUME NEW n \in Contests, contest'[n].winner # NoOutcome, windows'[n] = 1
               PROVE  notice'[n] = contest'[n].winner
    BY DEF NoticeNamesResult
  <2>1. CASE n = m
    <3>1. windows[m] = 0
      BY <1>1, <1>2, <2>1, ConfirmationsTypes
    <3>2. notice[m] = NoOutcome
      BY <3>1 DEF ConfirmationsInv, WindowsNumbered
    <3> QED BY <1>2, <1>4, <2>1, <3>2, ConfirmationsTypes
  <2>2. CASE n # m
    BY <1>2, <2>2, ConfirmationsTypes
       DEF ConfirmationsInv, ConfirmationInvariant, NoticeNamesResult
  <2> QED BY <2>1, <2>2
<1>10. ContestsHeld'
  BY <1>2, ConfirmationsTypes DEF ConfirmationsInv, ContestsHeld, ConfirmRow
<1>11. WindowsNumbered'
  <2> SUFFICES ASSUME NEW n \in Contests
               PROVE  /\ contest'[n].window <= windows'[n]
                      /\ contest'[n].status \in {"resolved", "sealed"} <=> contest'[n].window >= 1
                      /\ windows'[n] = 0 => notice'[n] = NoOutcome
    BY DEF WindowsNumbered
  <2>1. CASE n = m
    BY <1>1, <1>2, <1>4, <2>1, ConfirmationsTypes
  <2>2. CASE n # m
    BY <1>2, <2>2, ConfirmationsTypes DEF ConfirmationsInv, WindowsNumbered
  <2> QED BY <2>1, <2>2
<1>12. ReceiptsNameResults'
  <2> SUFFICES ASSUME NEW j \in ResultKeys, resultReceipt'[j] # NoReceiptYet,
                      NEW n \in Contests, resultReceipt'[j].contest = n
               PROVE  /\ 1 <= resultReceipt'[j].window /\ resultReceipt'[j].window <= windows'[n]
                      /\ contest'[n].window = resultReceipt'[j].window =>
                           contest'[n].winner = resultReceipt'[j].outcome
    BY DEF ReceiptsNameResults, ReceiptNames
  <2>1. CASE j = k
    <3>1. resultReceipt'[j] = newReceipt /\ n = m
      BY <1>2, <1>4, <2>1, ConfirmationsTypes
    <3> QED BY <1>1, <1>2, <1>4, <3>1, ConfirmationsTypes
  <2>2. CASE j # k
    <3>1. resultReceipt'[j] = resultReceipt[j] /\ resultReceipt[j] \in ResultReceipt
      BY <1>2, <2>2, ConfirmationsTypes
    <3>2. /\ 1 <= resultReceipt[j].window /\ resultReceipt[j].window <= windows[n]
          /\ contest[n].window = resultReceipt[j].window =>
               contest[n].winner = resultReceipt[j].outcome
      BY <3>1 DEF ConfirmationsInv, ReceiptsNameResults, ReceiptNames
    <3>3. CASE n = m
      BY <1>1, <1>2, <1>4, <3>1, <3>2, <3>3, ConfirmationsTypes DEF ResultReceipt
    <3>4. CASE n # m
      BY <1>2, <3>1, <3>2, <3>4, ConfirmationsTypes
    <3> QED BY <3>3, <3>4
  <2> QED BY <2>1, <2>2
<1> QED BY <1>6, <1>7, <1>8, <1>9, <1>10, <1>11, <1>12
        DEF ConfirmationsInv, ConfirmationInvariant

\* A request in flight ends, or begins with a market nobody holds.
LEMMA RequestsKeep ==
  ASSUME ConfirmationsInv,
         UNCHANGED <<contest, windows, resultReceipt, cancelReceipt, notice, effects, misled>>,
         confirming' \in [Confirmers -> ConfirmRow \cup {NotConfirming}],
         ContestsHeld'
  PROVE  ConfirmationsInv'
<1>1. ConfirmationTypeOK'
  BY DEF ConfirmationsInv, ConfirmationInvariant, ConfirmationTypeOK
<1>2. /\ KeyPublishesOnce' /\ NobodyMisled' /\ effects' \in [ResultKeys -> Nat]
      /\ NoticeNamesResult' /\ WindowsNumbered'
  BY DEF ConfirmationsInv, ConfirmationInvariant, KeyPublishesOnce, NobodyMisled,
         NoticeNamesResult, WindowsNumbered
<1>3. ReceiptsNameResults'
  BY DEF ConfirmationsInv, ReceiptsNameResults, ReceiptNames
<1> QED BY <1>1, <1>2, <1>3 DEF ConfirmationsInv, ConfirmationInvariant

\* An operator's request looks its key up while it holds the market.
LEMMA BeginConfirmInv ==
  ASSUME ConfirmationsInv, NEW c \in Confirmers, NEW m \in Contests,
         NEW k \in HumanKeys, NEW o \in Outcomes, BeginConfirm(c, m, k, o)
  PROVE  ConfirmationsInv'
<1> DEFINE q == [contest |-> m, key |-> k, outcome |-> o]
<1>1. q \in ConfirmRow /\ q.contest = m
  BY DEF ConfirmRow
<1>2. confirming' = [confirming EXCEPT ![c] = q] /\ confirming[c] = NotConfirming
  BY DEF BeginConfirm
<1>3. contest[m].status = "locked" /\ Unlocked(m)
  BY DEF BeginConfirm, Publishable
<1> HIDE DEF q
<1>4. confirming' \in [Confirmers -> ConfirmRow \cup {NotConfirming}]
  BY <1>1, <1>2, ConfirmationsTypes
<1>5. UNCHANGED <<contest, windows, resultReceipt, cancelReceipt, notice, effects, misled>>
  BY DEF BeginConfirm
<1>6. ContestsHeld'
  BY <1>1, <1>2, <1>3, <1>5, ConfirmationsTypes DEF ConfirmationsInv, ContestsHeld, Unlocked
<1> QED BY <1>4, <1>5, <1>6, RequestsKeep

\* It publishes the result and inserts the key.
LEMMA FinishConfirmInv ==
  ASSUME ConfirmationsInv, NEW c \in Confirmers, FinishConfirm(c)
  PROVE  ConfirmationsInv'
<1> DEFINE q == confirming[c]
<1>1. /\ q # NotConfirming /\ q \in ConfirmRow
      /\ resultReceipt[q.key] = NoReceiptYet
      /\ PublishResult(q.contest, q.key, q.outcome)
      /\ confirming' = [confirming EXCEPT ![c] = NotConfirming]
      /\ misled' = misled /\ cancelReceipt' = cancelReceipt
  BY ConfirmationsTypes DEF FinishConfirm, KeyUnused
<1>2. q.contest \in Contests /\ q.key \in ResultKeys /\ q.outcome \in Outcomes
  BY <1>1 DEF ConfirmRow, ResultKeys
<1>3. contest[q.contest].status = "locked"
  BY <1>1 DEF ConfirmationsInv, ContestsHeld
<1>4. confirming' \in [Confirmers -> ConfirmRow \cup {NotConfirming}]
  BY <1>1, ConfirmationsTypes
<1>5. \A d \in Confirmers : confirming'[d] # NotConfirming =>
        confirming'[d] = confirming[d] /\ confirming[d].contest # q.contest
  BY <1>1, ConfirmationsTypes DEF ConfirmationsInv, ContestsHeld
<1> QED BY <1>1, <1>2, <1>3, <1>4, <1>5, PublishKeeps

\* Or it is rolled back.
LEMMA ConfirmFailsInv ==
  ASSUME ConfirmationsInv, NEW c \in Confirmers, ConfirmFails(c)
  PROVE  ConfirmationsInv'
<1>1. confirming' = [confirming EXCEPT ![c] = NotConfirming]
  BY DEF ConfirmFails
<1>2. UNCHANGED <<contest, windows, resultReceipt, cancelReceipt, notice, effects, misled>>
  BY DEF ConfirmFails
<1>3. confirming' \in [Confirmers -> ConfirmRow \cup {NotConfirming}]
  BY <1>1, ConfirmationsTypes
<1>4. ContestsHeld'
  BY <1>1, <1>2, ConfirmationsTypes DEF ConfirmationsInv, ContestsHeld
<1> QED BY <1>2, <1>3, <1>4, RequestsKeep

\* A repeated request is answered from its receipt, and truly.
LEMMA ConfirmAgainInv ==
  ASSUME ConfirmationsInv, NEW m \in Contests, NEW k \in ResultKeys, ConfirmAgain(m, k)
  PROVE  ConfirmationsInv'
<1>1. /\ resultReceipt[k] # NoReceiptYet /\ resultReceipt[k].contest = m
      /\ contest[m].status \in {"resolved", "sealed"}
      /\ contest[m].window = resultReceipt[k].window
  BY DEF ConfirmAgain, Standing
<1>2. contest[m].winner = resultReceipt[k].outcome
  BY <1>1 DEF ConfirmationsInv, ReceiptsNameResults, ReceiptNames
<1>3. UNCHANGED <<contest, windows, resultReceipt, cancelReceipt, confirming, notice,
                  effects, misled>>
  BY <1>1, <1>2 DEF ConfirmAgain, ToldConfirmed
<1>4. ContestsHeld'
  BY <1>3 DEF ConfirmationsInv, ContestsHeld
<1> QED BY <1>3, <1>4, ConfirmationsTypes, RequestsKeep

\* A locked market that no request holds is canceled.
LEMMA CanceledKeeps ==
  ASSUME ConfirmationsInv, NEW m \in Contests, Unlocked(m), contest[m].status = "locked",
         Changed(m, [contest[m] EXCEPT !.status = "canceled"]),
         UNCHANGED <<windows, resultReceipt, confirming, notice, effects, misled>>,
         cancelReceipt' \subseteq AgentKeys \X Contests
  PROVE  ConfirmationsInv'
<1> DEFINE row == [contest[m] EXCEPT !.status = "canceled", !.stamp = @ + 1]
<1>1. contest[m] \in ContestRow /\ contest[m].stamp + 1 \in Nat
  BY ConfirmationsTypes DEF ContestRow
<1>2. contest[m].winner = NoOutcome /\ contest[m].window = 0
  BY <1>1
     DEF ConfirmationsInv, ConfirmationInvariant, ConfirmationTypeOK, WindowsNumbered, ContestRow
<1>3. row \in ContestRow /\ row.status = "canceled" /\ row.winner = NoOutcome /\ row.window = 0
  BY <1>1, <1>2 DEF ContestRow
<1>4. contest' = [contest EXCEPT ![m] = row]
  BY <1>1 DEF Changed, ContestRow
<1> HIDE DEF row
<1> QED BY <1>3, <1>4, RowChangeKeeps

\* Undo, seal and cancel of a market no request holds, and its reading.
LEMMA MarketRowInv ==
  ASSUME ConfirmationsInv, NEW m \in Contests,
         UndoResult(m) \/ SealResult(m) \/ CancelContest(m) \/ ReadBriefing(m)
  PROVE  ConfirmationsInv'
<1>1. contest[m] \in ContestRow /\ contest[m].stamp + 1 \in Nat
  BY ConfirmationsTypes DEF ContestRow
<1>2. CASE UndoResult(m)
  <2> DEFINE row == StampedRow(contest[m], "locked", NoOutcome, 0)
  <2>1. row \in ContestRow /\ row.status = "locked" /\ row.winner = NoOutcome /\ row.window = 0
    BY <1>1, ContestStamped, ConfirmationAssumption
  <2>2. contest' = [contest EXCEPT ![m] = row]
    BY <1>2 DEF UndoResult, Changed, Undone, StampedRow
  <2> HIDE DEF row
  <2> QED BY <1>2, <2>1, <2>2, RowChangeKeeps, ConfirmationsTypes DEF UndoResult
<1>3. CASE SealResult(m)
  <2> DEFINE row == [contest[m] EXCEPT !.status = "sealed", !.stamp = @ + 1]
  <2>1. row \in ContestRow /\ row.status = "sealed"
        /\ row.winner = contest[m].winner /\ row.window = contest[m].window
    BY <1>1 DEF ContestRow
  <2>2. contest' = [contest EXCEPT ![m] = row]
    BY <1>1, <1>3 DEF SealResult, Changed, ContestRow
  <2> HIDE DEF row
  <2> QED BY <1>3, <2>1, <2>2, RowChangeKeeps, ConfirmationsTypes DEF SealResult
<1>4. CASE CancelContest(m)
  BY <1>4, CanceledKeeps, ConfirmationsTypes DEF CancelContest
<1>5. CASE ReadBriefing(m)
  <2>1. UNCHANGED <<contest, windows, resultReceipt, cancelReceipt, confirming, notice,
                    effects, misled>>
    BY <1>5 DEF ReadBriefing
  <2>2. ContestsHeld'
    BY <2>1 DEF ConfirmationsInv, ContestsHeld
  <2> QED BY <2>1, <2>2, ConfirmationsTypes, RequestsKeep
<1> QED BY <1>2, <1>3, <1>4, <1>5

\* The agent's operations, under the version of the market it read.
LEMMA AgentResolveInv ==
  ASSUME ConfirmationsInv, NEW m \in Contests, NEW k \in AgentKeys, NEW o \in Outcomes,
         AgentResolve(m, k, o)
  PROVE  ConfirmationsInv'
<1>1. /\ PublishResult(m, k, o) /\ resultReceipt[k] = NoReceiptYet
      /\ contest[m].status = "locked" /\ Unlocked(m)
      /\ misled' = misled /\ cancelReceipt' = cancelReceipt /\ confirming' = confirming
  BY DEF AgentResolve, Informed, Publishable
<1> QED BY <1>1, PublishKeeps, ConfirmationsTypes DEF ResultKeys, Unlocked

LEMMA AgentCancelInv ==
  ASSUME ConfirmationsInv, NEW m \in Contests, NEW k \in AgentKeys, AgentCancel(m, k)
  PROVE  ConfirmationsInv'
<1>1. cancelReceipt' \subseteq AgentKeys \X Contests
  BY ConfirmationsTypes DEF AgentCancel
<1> QED BY <1>1, CanceledKeeps DEF AgentCancel

\* Every step keeps the invariant.
LEMMA ConfirmationsStep ==
  ASSUME ConfirmationsInv, [ConfirmationNext]_confirmationVars
  PROVE  ConfirmationsInv'
<1>1. CASE ConfirmationNext
  <2>1. CASE \E c \in Confirmers, m \in Contests, k \in HumanKeys, o \in Outcomes :
               BeginConfirm(c, m, k, o)
    BY <2>1, BeginConfirmInv
  <2>2. CASE \E c \in Confirmers : FinishConfirm(c) \/ ConfirmFails(c)
    BY <2>2, FinishConfirmInv, ConfirmFailsInv
  <2>3. CASE \E m \in Contests, k \in ResultKeys : ConfirmAgain(m, k)
    BY <2>3, ConfirmAgainInv
  <2>4. CASE \E m \in Contests :
               UndoResult(m) \/ SealResult(m) \/ CancelContest(m) \/ ReadBriefing(m)
    BY <2>4, MarketRowInv
  <2>5. CASE \E m \in Contests, k \in AgentKeys, o \in Outcomes : AgentResolve(m, k, o)
    BY <2>5, AgentResolveInv
  <2>6. CASE \E m \in Contests, k \in AgentKeys : AgentCancel(m, k)
    BY <2>6, AgentCancelInv
  <2> QED BY <1>1, <2>1, <2>2, <2>3, <2>4, <2>5, <2>6 DEF ConfirmationNext
<1>2. CASE UNCHANGED confirmationVars
  <2>1. UNCHANGED <<contest, windows, resultReceipt, cancelReceipt, confirming, notice,
                    effects, misled>>
    BY <1>2 DEF confirmationVars
  <2>2. ContestsHeld'
    BY <2>1 DEF ConfirmationsInv, ContestsHeld
  <2> QED BY <2>1, <2>2, ConfirmationsTypes, RequestsKeep
<1> QED BY <1>1, <1>2

\* A step of the composite is a step of the confirmations or leaves them alone.
LEMMA ConfirmationsPart == [Next]_allVars => [ConfirmationNext]_confirmationVars
BY DEF Next, AgentSteps, DraftSteps, CatalogueSteps, ConfirmationSteps, SettingSteps,
       RequestSteps, allVars

LEMMA ConfirmationsAlways == Spec => []ConfirmationsInv
<1>1. Init => ConfirmationsInv
  BY ConfirmationsStart DEF Init
<1>2. ConfirmationsInv /\ [Next]_allVars => ConfirmationsInv'
  BY ConfirmationsPart, ConfirmationsStep
<1> QED BY <1>1, <1>2, PTL DEF Spec

\* A result is published only on a locked market, which the request holds; the
\* other steps leave a sealed or canceled market alone.
LEMMA SealedRowsKept ==
  ASSUME ConfirmationsInv, [ConfirmationNext]_confirmationVars, NEW m \in Contests,
         contest[m].status \in {"sealed", "canceled"}
  PROVE  contest'[m].status = contest[m].status /\ contest'[m].winner = contest[m].winner
<1>1. ASSUME NEW n \in Contests, NEW k, NEW o, PublishResult(n, k, o),
             contest[n].status = "locked"
      PROVE  contest'[m] = contest[m]
  BY <1>1, ConfirmationsTypes DEF PublishResult, Changed
<1>2. ASSUME NEW c \in Confirmers, FinishConfirm(c)
      PROVE  contest'[m] = contest[m]
  <2>1. /\ confirming[c].contest \in Contests
        /\ contest[confirming[c].contest].status = "locked"
    BY <1>2, ConfirmationsTypes DEF FinishConfirm, ConfirmationsInv, ContestsHeld, ConfirmRow
  <2> QED BY <1>2, <2>1, <1>1 DEF FinishConfirm
<1>3. ASSUME NEW n \in Contests, NEW k \in AgentKeys, NEW o \in Outcomes, AgentResolve(n, k, o)
      PROVE  contest'[m] = contest[m]
  BY <1>3, <1>1 DEF AgentResolve, Publishable
<1>4. ASSUME NEW n \in Contests,
             UndoResult(n) \/ SealResult(n) \/ CancelContest(n) \/ ReadBriefing(n)
      PROVE  contest'[m] = contest[m]
  BY <1>4, ConfirmationsTypes DEF UndoResult, SealResult, CancelContest, ReadBriefing, Changed
<1>5. CASE ConfirmationNext
  <2>1. CASE \E c \in Confirmers, n \in Contests, k \in HumanKeys, o \in Outcomes :
               BeginConfirm(c, n, k, o)
    BY <2>1 DEF BeginConfirm
  <2>2. CASE \E c \in Confirmers : FinishConfirm(c) \/ ConfirmFails(c)
    BY <2>2, <1>2 DEF ConfirmFails
  <2>3. CASE \E n \in Contests, k \in ResultKeys : ConfirmAgain(n, k)
    BY <2>3 DEF ConfirmAgain
  <2>4. CASE \E n \in Contests :
               UndoResult(n) \/ SealResult(n) \/ CancelContest(n) \/ ReadBriefing(n)
    BY <2>4, <1>4
  <2>5. CASE \E n \in Contests, k \in AgentKeys, o \in Outcomes : AgentResolve(n, k, o)
    BY <2>5, <1>3
  <2>6. CASE \E n \in Contests, k \in AgentKeys : AgentCancel(n, k)
    <3>1. PICK n \in Contests, k \in AgentKeys : AgentCancel(n, k)
      BY <2>6
    <3> QED BY <3>1, ConfirmationsTypes DEF AgentCancel, Changed
  <2> QED BY <1>5, <2>1, <2>2, <2>3, <2>4, <2>5, <2>6 DEF ConfirmationNext
<1> QED BY <1>5 DEF confirmationVars

LEMMA SealedStay == Spec => SealedResultsStay
<1>1. ConfirmationsInv /\ [Next]_allVars =>
        [\A m \in Contests :
           contest[m].status \in {"sealed", "canceled"} =>
             contest'[m].status = contest[m].status /\ contest'[m].winner = contest[m].winner
        ]_confirmationVars
  BY ConfirmationsPart, SealedRowsKept
<1> QED BY <1>1, ConfirmationsAlways, PTL DEF Spec, SealedResultsStay

\* A key causes one result, ever and on one market, however often its request
\* is repeated; whoever repeats one is told that it is confirmed only while its
\* result stands; and participants are notified of the first result.
THEOREM ConfirmationsHold == Spec => []ConfirmationInvariant
<1>1. ConfirmationsInv => ConfirmationInvariant
  BY DEF ConfirmationsInv
<1> QED BY ConfirmationsAlways, <1>1, PTL

-----------------------------------------------------------------------------
(* An agent's authority.  Whatever could take it away waits for the row    *)
(* that a working call has locked (RowFree), except the loss of a person's *)
(* role, which waits for the share lock on that person (LockedPeople).  A  *)
(* grant's tokens replace each other under the same lock, and a lease is   *)
(* added only where the count leaves room for it.                          *)

AgentTypes ==
    /\ integration \in Integration
    /\ eligiblePeople \subseteq People
    /\ origin \in [Origins -> Origin]
    /\ unspent \in [Grants -> SUBSET Artifacts]
    /\ issued \in [Grants -> Artifacts]
    /\ access \subseteq Origins
    /\ exchange \in [Exchanges -> ExchangeRow]
    /\ call \in [Calls -> CallRow]
    /\ leases \subseteq Calls /\ staleLeases \subseteq leases
    /\ limitCut \in BOOLEAN
    /\ replayed \subseteq Grants

OneActs == \A c, d \in Acting : c = d

OneUnspent == \A g \in Grants : \A a, b \in unspent[g] : a = b

LeasesCounted == IsFiniteSet(leases) /\ LeasesWithinLimit

AgentsInv ==
    /\ AgentTypes
    /\ OneActs
    /\ ActsUnderLiveAuthority
    /\ OneUnspent
    /\ ReplayedGrantIsDead
    /\ LeasesCounted

\* A set without two elements has at most one.
LEMMA AtMostOne ==
  ASSUME NEW S, \A a, b \in S : a = b
  PROVE  Cardinality(S) <= 1
<1>1. CASE S = {}
  BY <1>1, FS_EmptySet
<1>2. CASE S # {}
  <2>1. PICK a \in S : S = {a}
    BY <1>2
  <2> QED BY <2>1, FS_Singleton
<1> QED BY <1>1, <1>2

LEMMA AgentsInvImplies == AgentsInv => AgentInvariant
<1> SUFFICES ASSUME AgentsInv PROVE AgentInvariant
  OBVIOUS
<1>1. Cardinality(Acting) <= 1
  BY AtMostOne DEF AgentsInv, OneActs
<1>2. OneSuccessor
  BY AtMostOne DEF AgentsInv, OneUnspent, OneSuccessor
<1> QED BY <1>1, <1>2 DEF AgentsInv, AgentTypes, AgentInvariant, AgentTypeOK, LeasesCounted

LEMMA FreeRows ==
  FreeExchange \in ExchangeRow /\ NoCallRow \in CallRow /\ NoCallRow.stage = "idle"
<1>1. AnyOrigin \in Origins
  BY AgentAssumption DEF AnyOrigin
<1>2. 0 \in Artifacts
  BY AgentAssumption DEF Artifacts
<1> QED BY <1>1, <1>2 DEF FreeExchange, NoCallRow, ExchangeRow, CallRow

LEMMA AgentsStart == AgentInit => AgentsInv
<1> SUFFICES ASSUME AgentInit PROVE AgentsInv
  OBVIOUS
<1>1. AgentTypes
  <2>1. integration \in Integration
    BY DEF AgentInit, Integration
  <2>2. limitCut \in BOOLEAN
    BY DEF AgentInit
  <2> QED BY <2>1, <2>2, FreeRows, AgentAssumption DEF AgentInit, AgentTypes, Origin, Artifacts
<1>2. Acting = {}
  BY FreeRows DEF AgentInit, Acting
<1>3. OneActs /\ ActsUnderLiveAuthority
  BY <1>2 DEF OneActs, ActsUnderLiveAuthority
<1>4. OneUnspent /\ ReplayedGrantIsDead
  BY DEF AgentInit, OneUnspent, ReplayedGrantIsDead
<1>5. LeasesCounted
  <2>1. integration.concurrent \in Nat
    BY AgentAssumption DEF AgentInit
  <2> QED BY <2>1, FS_EmptySet DEF AgentInit, LeasesCounted, LeasesWithinLimit
<1> QED BY <1>1, <1>3, <1>4, <1>5 DEF AgentsInv

\* Administration and OAuth change the rows a call rests on only while none
\* works on them.
LEMMA AuthorityKeeps ==
  ASSUME AgentsInv, RowFree, AgentTypes', UNCHANGED call,
         OneUnspent', ReplayedGrantIsDead', LeasesCounted'
  PROVE  AgentsInv'
<1>1. Acting' = {}
  BY DEF RowFree, Acting
<1>2. OneActs' /\ ActsUnderLiveAuthority'
  BY <1>1 DEF OneActs, ActsUnderLiveAuthority
<1> QED BY <1>2 DEF AgentsInv

\* Steps of the calls: nobody begins to act, or one does on rows that are free
\* and valid; leases are taken where there is room, or given up.
LEMMA CallsKeep ==
  ASSUME AgentsInv, AgentTypes',
         UNCHANGED <<integration, eligiblePeople, origin, unspent, replayed>>,
         \A c \in Acting' : \/ c \in Acting /\ call'[c] = call[c]
                            \/ /\ RowFree /\ Acting' = {c} /\ integration.scope
                               /\ ValidOrigin(call'[c].origin),
         LeasesCounted'
  PROVE  AgentsInv'
<1>1. OneActs'
  BY DEF AgentsInv, OneActs, RowFree
<1>2. ActsUnderLiveAuthority'
  BY DEF AgentsInv, ActsUnderLiveAuthority, ValidOrigin, IntegrationLive
<1>3. OneUnspent' /\ ReplayedGrantIsDead'
  BY DEF AgentsInv, OneUnspent, ReplayedGrantIsDead
<1> QED BY <1>1, <1>2, <1>3 DEF AgentsInv

\* The limit is a number.
LEMMA LimitIsNat == AgentsInv => integration.concurrent \in Nat
BY AgentAssumption DEF AgentsInv, AgentTypes, Integration

\* Leases given up or expired leave a smaller count, which fits if they did.
LEMMA FewerLeases ==
  ASSUME AgentsInv, NEW S \in SUBSET leases
  PROVE  /\ IsFiniteSet(S) /\ Cardinality(S) \in Nat
         /\ Cardinality(S) <= integration.concurrent \/ limitCut
<1>1. /\ IsFiniteSet(S) /\ Cardinality(S) \in Nat
      /\ Cardinality(leases) \in Nat /\ Cardinality(S) <= Cardinality(leases)
  BY FS_Subset, FS_CardinalityType DEF AgentsInv, LeasesCounted
<1> QED BY <1>1, LimitIsNat DEF AgentsInv, LeasesCounted, LeasesWithinLimit

LEMMA LeasesKeep ==
  ASSUME AgentsInv, leases' \subseteq leases, UNCHANGED <<integration, limitCut>>
  PROVE  LeasesCounted'
BY FewerLeases DEF LeasesCounted, LeasesWithinLimit

\* The operator's changes of the integration, each under the row's revision.
LEMMA RevisedInv ==
  ASSUME AgentsInv, NEW row \in Integration, Revised(row)
  PROVE  AgentsInv'
<1>1. /\ RowFree /\ integration' = row
      /\ limitCut' = (limitCut \/ row.concurrent < integration.concurrent)
      /\ UNCHANGED <<eligiblePeople, origin, unspent, issued, access, exchange, call, leases,
                     staleLeases, replayed>>
  BY DEF Revised, Editable
<1>2. AgentTypes'
  BY <1>1 DEF AgentsInv, AgentTypes
<1>3. OneUnspent' /\ ReplayedGrantIsDead'
  BY <1>1 DEF AgentsInv, OneUnspent, ReplayedGrantIsDead
<1>4. LeasesCounted'
  <2>1. row.concurrent \in Nat /\ integration.concurrent \in Nat
    BY LimitIsNat, AgentAssumption DEF Integration
  <2>2. IsFiniteSet(leases) /\ Cardinality(leases) \in Nat
    BY FS_CardinalityType DEF AgentsInv, LeasesCounted
  <2>3. CASE limitCut \/ row.concurrent < integration.concurrent
    <3>1. limitCut'
      BY <1>1, <2>3
    <3> QED BY <1>1, <2>2, <3>1 DEF LeasesCounted, LeasesWithinLimit
  <2>4. CASE ~limitCut /\ integration.concurrent <= row.concurrent
    <3>1. Cardinality(leases) <= row.concurrent
      BY <2>1, <2>2, <2>4 DEF AgentsInv, LeasesCounted, LeasesWithinLimit
    <3> QED BY <1>1, <2>2, <3>1 DEF LeasesCounted, LeasesWithinLimit
  <2> QED BY <2>1, <2>3, <2>4
<1> QED BY <1>1, <1>2, <1>3, <1>4, AuthorityKeeps

LEMMA IntegrationEditInv ==
  ASSUME AgentsInv,
         \/ \E state \in {"paused", "active", "revoked"} : Transition(state)
         \/ \E scope \in BOOLEAN, n \in CallLimits : EditIntegration(scope, n)
         \/ \E p \in People : TransferResponsibility(p)
  PROVE  AgentsInv'
<1>0. integration \in Integration
  BY DEF AgentsInv, AgentTypes
<1>1. ASSUME NEW state \in {"paused", "active", "revoked"}
      PROVE  [integration EXCEPT !.state = state] \in Integration
  BY <1>0 DEF Integration
<1>2. ASSUME NEW scope \in BOOLEAN, NEW n \in CallLimits
      PROVE  [integration EXCEPT !.scope = scope, !.concurrent = n] \in Integration
  BY <1>0 DEF Integration
<1>3. ASSUME NEW p \in People PROVE [integration EXCEPT !.responsible = p] \in Integration
  BY <1>0 DEF Integration
<1>4. CASE \E state \in {"paused", "active", "revoked"} : Transition(state)
  BY <1>4, <1>1, RevisedInv DEF Transition
<1>5. CASE \E scope \in BOOLEAN, n \in CallLimits : EditIntegration(scope, n)
  BY <1>5, <1>2, RevisedInv DEF EditIntegration
<1>6. CASE \E p \in People : TransferResponsibility(p)
  BY <1>6, <1>3, RevisedInv DEF TransferResponsibility
<1> QED BY <1>4, <1>5, <1>6

\* A grant or credential is revoked, and stays so.
LEMMA RevokingKeeps ==
  ASSUME AgentsInv, RowFree, NEW o \in Origins, origin' = [origin EXCEPT ![o].state = "revoked"],
         replayed' \in {replayed, replayed \cup (Grants \cap {o})},
         exchange' \in [Exchanges -> ExchangeRow],
         UNCHANGED <<integration, eligiblePeople, unspent, issued, access, call, leases,
                     staleLeases, limitCut>>
  PROVE  AgentsInv'
<1>1. AgentTypes
  BY DEF AgentsInv
<1>2. [origin[o] EXCEPT !.state = "revoked"] \in Origin
  BY <1>1 DEF AgentTypes, Origin
<1>3. origin' = [origin EXCEPT ![o] = [origin[o] EXCEPT !.state = "revoked"]]
  OBVIOUS
<1>4. origin' \in [Origins -> Origin]
  BY <1>1, <1>2, <1>3 DEF AgentTypes
<1>5. AgentTypes'
  BY <1>1, <1>4 DEF AgentTypes
<1>6. \A q \in Origins : origin[q].state = "revoked" \/ q = o => origin'[q].state = "revoked"
  BY <1>1 DEF AgentTypes, Origin
<1>7. OneUnspent' /\ ReplayedGrantIsDead'
  BY <1>1, <1>6 DEF AgentsInv, AgentTypes, OneUnspent, ReplayedGrantIsDead, Origins
<1> QED BY <1>5, <1>7, LeasesKeep, AuthorityKeeps

LEMMA OriginEditInv ==
  ASSUME AgentsInv,
         \/ \E k \in Credentials : IssueCredential(k)
         \/ \E o \in Origins : RevokeOrigin(o)
         \/ \E g \in Grants : RevokeByToken(g)
         \/ \E p \in People, g \in Grants : Consent(p, g)
  PROVE  AgentsInv'
<1>0. AgentTypes
  BY DEF AgentsInv
<1>1. ASSUME NEW k \in Credentials, IssueCredential(k) PROVE AgentsInv'
  <2>1. k \in Origins /\ origin[k].state = "none" /\ RowFree
    BY <1>1 DEF IssueCredential, Origins
  <2>2. [origin[k] EXCEPT !.state = "live"] \in Origin
    BY <1>0, <2>1 DEF AgentTypes, Origin
  <2>3. origin' = [origin EXCEPT ![k] = [origin[k] EXCEPT !.state = "live"]]
    BY <1>1 DEF IssueCredential
  <2>4. UNCHANGED <<integration, eligiblePeople, unspent, issued, access, exchange, call,
                    leases, staleLeases, limitCut, replayed>>
    BY <1>1 DEF IssueCredential
  <2>5. AgentTypes'
    BY <1>0, <2>2, <2>3, <2>4 DEF AgentTypes
  <2>6. OneUnspent' /\ ReplayedGrantIsDead'
    BY <1>0, <2>1, <2>3, <2>4 DEF AgentsInv, AgentTypes, OneUnspent, ReplayedGrantIsDead, Origins
  <2> QED BY <2>1, <2>4, <2>5, <2>6, LeasesKeep, AuthorityKeeps
<1>2. ASSUME NEW o \in Origins, RevokeOrigin(o) PROVE AgentsInv'
  BY <1>0, <1>2, RevokingKeeps DEF RevokeOrigin, AgentTypes
<1>3. ASSUME NEW g \in Grants, RevokeByToken(g) PROVE AgentsInv'
  BY <1>0, <1>3, RevokingKeeps DEF RevokeByToken, AgentTypes, Origins
<1>4. ASSUME NEW p \in People, NEW g \in Grants, Consent(p, g) PROVE AgentsInv'
  <2>1. /\ g \in Origins /\ origin[g].state = "none" /\ RowFree
        /\ origin' = [origin EXCEPT ![g] = [state |-> "live", user |-> p]]
        /\ unspent' = [unspent EXCEPT ![g] = {0}]
        /\ UNCHANGED <<integration, eligiblePeople, issued, access, exchange, call, leases,
                       staleLeases, limitCut, replayed>>
    BY <1>4 DEF Consent, Origins
  <2>2. [state |-> "live", user |-> p] \in Origin /\ {0} \in SUBSET Artifacts
    BY AgentAssumption DEF Origin, Artifacts
  <2>3. AgentTypes'
    BY <1>0, <2>1, <2>2 DEF AgentTypes
  <2>4. OneUnspent'
    BY <1>0, <2>1 DEF AgentsInv, AgentTypes, OneUnspent
  <2>5. ReplayedGrantIsDead'
    BY <1>0, <2>1 DEF AgentsInv, AgentTypes, ReplayedGrantIsDead, Origins
  <2> QED BY <2>1, <2>3, <2>4, <2>5, LeasesKeep, AuthorityKeeps
<1> QED BY <1>1, <1>2, <1>3, <1>4

\* Steps that leave the calls and what they rest on alone.
LEMMA ExchangesKeep ==
  ASSUME AgentsInv, exchange' \in [Exchanges -> ExchangeRow],
         UNCHANGED <<integration, eligiblePeople, origin, unspent, issued, access, call,
                     leases, staleLeases, limitCut, replayed>>
  PROVE  AgentsInv'
<1>1. AgentTypes'
  BY DEF AgentsInv, AgentTypes
<1>2. Acting' = Acting
  BY DEF Acting
<1>3. LeasesCounted'
  BY LeasesKeep
<1> QED BY <1>1, <1>2, <1>3, CallsKeep

LEMMA ExchangeInv ==
  ASSUME AgentsInv, NEW x \in Exchanges,
         \/ \E o \in Origins, n \in Artifacts : BeginExchange(x, o, n)
         \/ ExchangeArtifact(x) \/ ReplayArtifact(x) \/ ExchangeCredential(x)
         \/ ExchangeRefused(x)
  PROVE  AgentsInv'
<1>0. AgentTypes
  BY DEF AgentsInv
<1> DEFINE e == exchange[x]
<1>1. e \in ExchangeRow /\ e.origin \in Origins /\ e.artifact \in Artifacts
  BY <1>0 DEF AgentTypes, ExchangeRow
<1>2. ExchangeEnds(x) => exchange' \in [Exchanges -> ExchangeRow]
  BY <1>0, FreeRows DEF ExchangeEnds, AgentTypes
<1>3. ASSUME NEW o \in Origins, NEW n \in Artifacts, BeginExchange(x, o, n) PROVE AgentsInv'
  <2>1. [busy |-> TRUE, origin |-> o, artifact |-> n,
         spent |-> o \in Grants /\ n \notin unspent[o]] \in ExchangeRow
    BY DEF ExchangeRow
  <2>2. exchange' \in [Exchanges -> ExchangeRow]
    BY <1>0, <1>3, <2>1 DEF AgentTypes, BeginExchange
  <2> QED BY <1>3, <2>2, ExchangesKeep DEF BeginExchange
<1>4. CASE ExchangeArtifact(x)
  <2> DEFINE g == e.origin
             next == issued[g] + 1
  <2>1. /\ g \in Grants /\ RowFree /\ e.artifact \in unspent[g] /\ issued[g] < MaxRefreshes
        /\ issued' = [issued EXCEPT ![g] = next]
        /\ unspent' = [unspent EXCEPT ![g] = (unspent[g] \ {e.artifact}) \cup {next}]
        /\ access' = access \cup {g}
        /\ ExchangeEnds(x)
        /\ UNCHANGED <<integration, eligiblePeople, origin, call, leases, staleLeases, limitCut, replayed>>
    BY <1>4 DEF ExchangeArtifact, Spent
  <2>2. next \in Artifacts /\ issued[g] \in Artifacts
    BY <1>0, <2>1, AgentAssumption DEF AgentTypes, Artifacts
  <2>3. unspent[g] \in SUBSET Artifacts
    BY <1>0, <2>1 DEF AgentTypes
  <2>4. (unspent[g] \ {e.artifact}) \cup {next} = {next}
    BY <2>1 DEF AgentsInv, OneUnspent
  <2>5. g \in Origins
    BY <2>1 DEF Origins
  <2> HIDE DEF g, next, e
  <2>6. /\ issued' \in [Grants -> Artifacts] /\ unspent' \in [Grants -> SUBSET Artifacts]
        /\ access' \subseteq Origins /\ exchange' \in [Exchanges -> ExchangeRow]
    BY <1>0, <1>2, <2>1, <2>2, <2>4, <2>5 DEF AgentTypes
  <2>7. AgentTypes'
    BY <1>0, <2>1, <2>6 DEF AgentTypes
  <2>8. OneUnspent'
    BY <1>0, <2>1, <2>4 DEF AgentsInv, AgentTypes, OneUnspent
  <2>9. ReplayedGrantIsDead'
    BY <2>1 DEF AgentsInv, ReplayedGrantIsDead
  <2> QED BY <2>1, <2>7, <2>8, <2>9, LeasesKeep, AuthorityKeeps
<1>5. CASE ReplayArtifact(x)
  <2>1. /\ e.origin \in Grants /\ RowFree
        /\ origin' = [origin EXCEPT ![e.origin].state = "revoked"]
        /\ replayed' = replayed \cup {e.origin}
        /\ ExchangeEnds(x)
        /\ UNCHANGED <<integration, eligiblePeople, unspent, issued, access, call, leases,
                       staleLeases, limitCut>>
    BY <1>5 DEF ReplayArtifact, AfterReplay
  <2>2. replayed' = replayed \cup (Grants \cap {e.origin})
    BY <2>1
  <2> HIDE DEF e
  <2> QED BY <1>1, <1>2, <2>1, <2>2, RevokingKeeps
<1>6. CASE ExchangeCredential(x)
  <2>1. /\ RowFree /\ access' = access \cup {e.origin} /\ ExchangeEnds(x)
        /\ UNCHANGED <<integration, eligiblePeople, origin, unspent, issued, call, leases,
                       staleLeases, limitCut, replayed>>
    BY <1>6 DEF ExchangeCredential
  <2> HIDE DEF e
  <2>2. AgentTypes'
    BY <1>0, <1>1, <1>2, <2>1 DEF AgentTypes
  <2>3. OneUnspent' /\ ReplayedGrantIsDead'
    BY <2>1 DEF AgentsInv, OneUnspent, ReplayedGrantIsDead
  <2> QED BY <2>1, <2>2, <2>3, LeasesKeep, AuthorityKeeps
<1>7. CASE ExchangeRefused(x)
  BY <1>2, <1>7, ExchangesKeep DEF ExchangeRefused
<1> QED BY <1>3, <1>4, <1>5, <1>6, <1>7

\* Whoever answers for a working call is share-locked by it.
LEMMA PersonInv ==
  ASSUME AgentsInv, NEW p \in People, PersonChanges(p)
  PROVE  AgentsInv'
<1>1. /\ p \notin LockedPeople
      /\ eligiblePeople' \subseteq People
      /\ \A q \in eligiblePeople : q # p => q \in eligiblePeople'
      /\ UNCHANGED <<integration, origin, unspent, issued, access, exchange, call, leases,
                     staleLeases, limitCut, replayed>>
  BY DEF PersonChanges, AgentsInv, AgentTypes
<1>2. AgentTypes'
  BY <1>1 DEF AgentsInv, AgentTypes
<1>3. Acting' = Acting
  BY <1>1 DEF Acting
<1>4. ActsUnderLiveAuthority'
  <2> SUFFICES ASSUME NEW c \in Acting
               PROVE  LET o == call[c].origin IN
                      /\ integration.state = "active" /\ integration.scope
                      /\ integration.responsible \in eligiblePeople'
                      /\ origin[o].state = "live"
                      /\ o \in Grants => origin[o].user \in eligiblePeople'
    BY <1>1, <1>3 DEF ActsUnderLiveAuthority
  <2>1. LockedPeople = {integration.responsible} \cup {origin[call[d].origin].user : d \in Acting}
    BY DEF LockedPeople, RowFree
  <2> QED BY <1>1, <2>1 DEF AgentsInv, ActsUnderLiveAuthority
<1>5. OneActs' /\ OneUnspent' /\ ReplayedGrantIsDead' /\ LeasesCounted'
  BY <1>1, <1>3
     DEF AgentsInv, OneActs, OneUnspent, ReplayedGrantIsDead, LeasesCounted, LeasesWithinLimit
<1> QED BY <1>2, <1>4, <1>5 DEF AgentsInv

\* A call's steps change its own row only.
LEMMA CallStep ==
  ASSUME AgentsInv, NEW c \in Calls, NEW row \in CallRow, call' = [call EXCEPT ![c] = row],
         leases' \subseteq Calls, staleLeases' \subseteq leases',
         LeasesCounted', limitCut' \in BOOLEAN,
         UNCHANGED <<integration, eligiblePeople, origin, unspent, issued, access, exchange,
                     replayed>>,
         row.stage = "acting" => RowFree /\ integration.scope /\ ValidOrigin(row.origin)
  PROVE  AgentsInv'
<1>1. AgentTypes'
  BY DEF AgentsInv, AgentTypes
<1>2. ASSUME NEW d \in Acting'
      PROVE  \/ d \in Acting /\ call'[d] = call[d]
             \/ /\ RowFree /\ Acting' = {d} /\ integration.scope
                /\ ValidOrigin(call'[d].origin)
  <2>1. CASE d = c
    <3>1. row.stage = "acting" /\ call'[d] = row
      BY <2>1 DEF Acting, AgentsInv, AgentTypes
    <3>2. Acting' = {d}
      BY <2>1, <3>1 DEF Acting, RowFree, AgentsInv, AgentTypes
    <3> QED BY <3>1, <3>2
  <2>2. CASE d # c
    BY <2>2 DEF Acting, AgentsInv, AgentTypes
  <2> QED BY <2>1, <2>2
<1> QED BY <1>1, <1>2, CallsKeep

LEMMA CallInv ==
  ASSUME AgentsInv, NEW c \in Calls,
         \/ \E o \in Origins : Delegate(c, o)
         \/ ReserveCall(c) \/ RefuseCall(c) \/ BeginAct(c) \/ EndAct(c) \/ ReleaseCall(c)
         \/ CallDies(c) \/ LeaseRunsOut(c)
  PROVE  AgentsInv'
<1>0. AgentTypes
  BY DEF AgentsInv
<1>1. call[c] \in CallRow /\ call[c].origin \in Origins
  BY <1>0 DEF AgentTypes, CallRow
<1>2. ASSUME leases' \subseteq leases, UNCHANGED <<integration, limitCut>>
      PROVE  leases' \subseteq Calls /\ LeasesCounted' /\ limitCut' \in BOOLEAN
  BY <1>0, <1>2, LeasesKeep DEF AgentTypes
<1>3. ASSUME NEW o \in Origins, Delegate(c, o) PROVE AgentsInv'
  <2> DEFINE row == [stage |-> "delegated", origin |-> o]
  <2>1. row \in CallRow /\ row.stage # "acting"
    BY DEF CallRow
  <2>2. /\ call' = [call EXCEPT ![c] = row]
        /\ UNCHANGED <<integration, eligiblePeople, origin, unspent, issued, access, exchange,
                       leases, staleLeases, limitCut, replayed>>
    BY <1>3 DEF Delegate
  <2> HIDE DEF row
  <2> QED BY <1>0, <1>2, <2>1, <2>2, CallStep DEF AgentTypes
<1>4. ASSUME NEW stage \in {"idle", "delegated", "reserved", "acting", "ending"}, Staged(c, stage)
      PROVE  \E row \in CallRow : /\ call' = [call EXCEPT ![c] = row]
                                  /\ row.stage = stage /\ row.origin = call[c].origin
  <2> DEFINE row == [call[c] EXCEPT !.stage = stage]
  <2>1. row \in CallRow /\ row.stage = stage /\ row.origin = call[c].origin
    BY <1>1 DEF CallRow
  <2>2. call' = [call EXCEPT ![c] = row]
    BY <1>4 DEF Staged
  <2> HIDE DEF row
  <2> QED BY <2>1, <2>2
<1>5. CASE ReserveCall(c)
  <2> DEFINE kept == leases \ staleLeases
  <2>1. /\ leases' = kept \cup {c} /\ staleLeases' = {} /\ Staged(c, "reserved")
        /\ Cardinality(kept) < integration.concurrent /\ limitCut' = FALSE
        /\ UNCHANGED <<integration, eligiblePeople, origin, unspent, issued, access, exchange,
                       replayed>>
    BY <1>5 DEF ReserveCall, RoomForLease
  <2>2. kept \subseteq Calls /\ IsFiniteSet(kept) /\ Cardinality(kept) \in Nat
    BY <1>0, FewerLeases DEF AgentTypes
  <2> HIDE DEF kept
  <2>3. LeasesCounted' /\ leases' \subseteq Calls
    <3>1. integration.concurrent \in Nat
      BY LimitIsNat
    <3>2. /\ IsFiniteSet(kept \cup {c})
          /\ Cardinality(kept \cup {c}) \in {Cardinality(kept), Cardinality(kept) + 1}
      BY <2>2, FS_AddElement
    <3> QED BY <2>1, <2>2, <3>1, <3>2 DEF LeasesCounted, LeasesWithinLimit
  <2>4. PICK row \in CallRow : call' = [call EXCEPT ![c] = row] /\ row.stage = "reserved"
    BY <1>4, <2>1
  <2> QED BY <2>1, <2>2, <2>3, <2>4, CallStep
<1>6. CASE RefuseCall(c)
  <2>1. /\ call' = [call EXCEPT ![c] = NoCallRow]
        /\ leases' \subseteq leases /\ staleLeases' \subseteq leases'
        /\ UNCHANGED <<integration, eligiblePeople, origin, unspent, issued, access, exchange,
                       limitCut, replayed>>
    BY <1>0, <1>6 DEF RefuseCall, AgentTypes
  <2> QED BY <1>2, <2>1, FreeRows, CallStep
<1>7. CASE BeginAct(c)
  <2>1. /\ Staged(c, "acting") /\ RowFree /\ ValidOrigin(call[c].origin) /\ integration.scope
        /\ UNCHANGED <<integration, eligiblePeople, origin, unspent, issued, access, exchange,
                       leases, staleLeases, limitCut, replayed>>
    BY <1>7 DEF BeginAct
  <2>2. PICK row \in CallRow : /\ call' = [call EXCEPT ![c] = row]
                               /\ row.origin = call[c].origin
    BY <1>4, <2>1
  <2> QED BY <1>0, <1>2, <2>1, <2>2, CallStep DEF AgentTypes
<1>8. CASE EndAct(c)
  <2>1. /\ Staged(c, "ending")
        /\ UNCHANGED <<integration, eligiblePeople, origin, unspent, issued, access, exchange,
                       leases, staleLeases, limitCut, replayed>>
    BY <1>8 DEF EndAct
  <2>2. PICK row \in CallRow : call' = [call EXCEPT ![c] = row] /\ row.stage = "ending"
    BY <1>4, <2>1
  <2> QED BY <1>0, <1>2, <2>1, <2>2, CallStep DEF AgentTypes
<1>9. CASE ReleaseCall(c) \/ CallDies(c)
  <2>1. /\ call' = [call EXCEPT ![c] = NoCallRow]
        /\ leases' \subseteq leases /\ staleLeases' \subseteq leases'
        /\ UNCHANGED <<integration, eligiblePeople, origin, unspent, issued, access, exchange,
                       limitCut, replayed>>
    BY <1>0, <1>9 DEF ReleaseCall, CallDies, AgentTypes
  <2> QED BY <1>2, <2>1, FreeRows, CallStep
<1>10. CASE LeaseRunsOut(c)
  <2>1. /\ leases' = leases /\ staleLeases' \subseteq leases
        /\ UNCHANGED <<integration, eligiblePeople, origin, unspent, issued, access, exchange,
                       call, limitCut, replayed>>
    BY <1>0, <1>10 DEF LeaseRunsOut, AgentTypes
  <2>2. call' = [call EXCEPT ![c] = call[c]]
    BY <1>0, <2>1 DEF AgentTypes
  <2>3. AgentTypes' /\ Acting' = Acting
    BY <1>0, <2>1 DEF AgentTypes, Acting
  <2>4. \A d \in Acting' : d \in Acting /\ call'[d] = call[d]
    BY <2>1, <2>3
  <2> QED BY <1>2, <2>1, <2>3, <2>4, CallsKeep
<1> QED BY <1>3, <1>5, <1>6, <1>7, <1>8, <1>9, <1>10

\* Every step keeps the invariant.
LEMMA AgentsStep ==
  ASSUME AgentsInv, [AgentNext]_agentVars
  PROVE  AgentsInv'
<1>0. AgentTypes
  BY DEF AgentsInv
<1>1. CASE OpenPage \/ UNCHANGED agentVars
  BY <1>0, <1>1, ExchangesKeep DEF OpenPage, agentVars, AgentTypes
<1>2. CASE \/ \E state \in {"paused", "active", "revoked"} : Transition(state)
           \/ \E scope \in BOOLEAN, n \in CallLimits : EditIntegration(scope, n)
           \/ \E p \in People : TransferResponsibility(p)
  BY <1>2, IntegrationEditInv
<1>3. CASE \E p \in People : PersonChanges(p)
  BY <1>3, PersonInv
<1>4. CASE \/ \E k \in Credentials : IssueCredential(k)
           \/ \E o \in Origins : RevokeOrigin(o)
           \/ \E g \in Grants : RevokeByToken(g)
           \/ \E p \in People, g \in Grants : Consent(p, g)
  BY <1>4, OriginEditInv
<1>5. CASE \E x \in Exchanges :
             \/ \E o \in Origins, n \in Artifacts : BeginExchange(x, o, n)
             \/ ExchangeArtifact(x) \/ ReplayArtifact(x) \/ ExchangeCredential(x)
             \/ ExchangeRefused(x)
  BY <1>5, ExchangeInv
<1>6. CASE \E c \in Calls :
             \/ \E o \in Origins : Delegate(c, o)
             \/ ReserveCall(c) \/ RefuseCall(c) \/ BeginAct(c) \/ EndAct(c) \/ ReleaseCall(c)
             \/ CallDies(c) \/ LeaseRunsOut(c)
  BY <1>6, CallInv
<1> QED BY <1>1, <1>2, <1>3, <1>4, <1>5, <1>6, Zenon DEF AgentNext

LEMMA AgentsPart == [Next]_allVars => [AgentNext]_agentVars
BY DEF Next, AgentSteps, DraftSteps, CatalogueSteps, ConfirmationSteps, SettingSteps,
       RequestSteps, allVars

LEMMA AgentsAlways == Spec => []AgentsInv
<1>1. Init => AgentsInv
  BY AgentsStart DEF Init
<1>2. AgentsInv /\ [Next]_allVars => AgentsInv'
  BY AgentsPart, AgentsStep
<1> QED BY <1>1, <1>2, PTL DEF Spec

\* However calls, exchanges and administrators interleave, a call works only
\* under an integration, an origin and people that still authorise it; a grant
\* has one spendable token; one presented twice is dead; and the leases are
\* never more than the calls the integration may make at once, unless its limit
\* was lowered and no call has been reserved since.
THEOREM AgentAuthority == Spec => []AgentInvariant
BY AgentsAlways, AgentsInvImplies, PTL

\* An edited integration is not a revoked one; a grant or credential becomes
\* live only where there was none.
LEMMA RevokedKept ==
  ASSUME AgentsInv, [AgentNext]_agentVars
  PROVE  /\ integration.state = "revoked" => integration'.state = "revoked"
         /\ \A o \in Origins : origin[o].state = "revoked" => origin'[o].state = "revoked"
<1>0. AgentTypes
  BY DEF AgentsInv
<1> DEFINE Kept == integration' = integration /\ origin' = origin
           Edited == integration.state # "revoked" /\ origin' = origin
           Moved == /\ integration' = integration
                    /\ \E o \in Origins : \E row :
                         /\ origin' = [origin EXCEPT ![o] = row]
                         /\ origin[o].state # "revoked" \/ row.state = "revoked"
<1>1. CASE OpenPage \/ UNCHANGED agentVars \/ \E p \in People : PersonChanges(p)
  <2>1. Kept
    BY <1>1 DEF OpenPage, agentVars, PersonChanges
  <2> QED BY <2>1
<1>2. CASE \/ \E state \in {"paused", "active", "revoked"} : Transition(state)
           \/ \E scope \in BOOLEAN, n \in CallLimits : EditIntegration(scope, n)
           \/ \E p \in People : TransferResponsibility(p)
  <2>1. Edited
    BY <1>2 DEF Transition, EditIntegration, TransferResponsibility, Revised, Editable
  <2> QED BY <2>1
<1>3. ASSUME Moved
      PROVE  /\ integration.state = "revoked" => integration'.state = "revoked"
             /\ \A o \in Origins : origin[o].state = "revoked" => origin'[o].state = "revoked"
  BY <1>0, <1>3 DEF AgentTypes
<1>4. ASSUME NEW o \in Origins, origin' = [origin EXCEPT ![o].state = "revoked"],
             integration' = integration
      PROVE  Moved
  <2> DEFINE row == [origin[o] EXCEPT !.state = "revoked"]
  <2>1. row.state = "revoked"
    BY <1>0 DEF AgentTypes, Origin
  <2>2. origin' = [origin EXCEPT ![o] = row]
    BY <1>4
  <2> HIDE DEF row
  <2> QED BY <1>4, <2>1, <2>2
<1>5. ASSUME NEW k \in Credentials, IssueCredential(k) PROVE Moved
  <2> DEFINE row == [origin[k] EXCEPT !.state = "live"]
  <2>1. k \in Origins /\ origin[k].state # "revoked" /\ integration' = integration
        /\ origin' = [origin EXCEPT ![k] = row]
    BY <1>5 DEF IssueCredential, Origins
  <2> HIDE DEF row
  <2> QED BY <2>1
<1>6. ASSUME NEW g \in Grants, NEW p \in People, Consent(p, g) PROVE Moved
  <2> DEFINE row == [state |-> "live", user |-> p]
  <2>1. g \in Origins /\ origin[g].state # "revoked" /\ integration' = integration
        /\ origin' = [origin EXCEPT ![g] = row]
    BY <1>6 DEF Consent, Origins
  <2> HIDE DEF row
  <2> QED BY <2>1
<1>7. ASSUME NEW x \in Exchanges, ReplayArtifact(x) PROVE Moved
  <2>1. exchange[x].origin \in Origins
    BY <1>7 DEF ReplayArtifact, Origins
  <2> QED BY <1>4, <1>7, <2>1 DEF ReplayArtifact, AfterReplay
<1> HIDE DEF Moved
<1>8. CASE \/ \E k \in Credentials : IssueCredential(k)
           \/ \E o \in Origins : RevokeOrigin(o)
           \/ \E g \in Grants : RevokeByToken(g)
           \/ \E p \in People, g \in Grants : Consent(p, g)
  <2>1. \A o \in Origins : RevokeOrigin(o) => Moved
    BY <1>4 DEF RevokeOrigin
  <2>2. \A g \in Grants : RevokeByToken(g) => Moved
    BY <1>4 DEF RevokeByToken, Origins
  <2> QED BY <1>3, <1>5, <1>6, <1>8, <2>1, <2>2
<1>9. CASE \E x \in Exchanges :
             \/ \E o \in Origins, n \in Artifacts : BeginExchange(x, o, n)
             \/ ExchangeArtifact(x) \/ ReplayArtifact(x) \/ ExchangeCredential(x)
             \/ ExchangeRefused(x)
  <2>1. PICK x \in Exchanges :
             \/ \E o \in Origins, n \in Artifacts : BeginExchange(x, o, n)
             \/ ExchangeArtifact(x) \/ ReplayArtifact(x) \/ ExchangeCredential(x)
             \/ ExchangeRefused(x)
    BY <1>9
  <2>2. Kept \/ Moved
    BY <2>1, <1>7 DEF BeginExchange, ExchangeArtifact, ExchangeCredential, ExchangeRefused
  <2> QED BY <1>3, <2>2
<1>10. CASE \E c \in Calls :
             \/ \E o \in Origins : Delegate(c, o)
             \/ ReserveCall(c) \/ RefuseCall(c) \/ BeginAct(c) \/ EndAct(c) \/ ReleaseCall(c)
             \/ CallDies(c) \/ LeaseRunsOut(c)
  <2>1. Kept
    BY <1>10 DEF Delegate, ReserveCall, RefuseCall, BeginAct, EndAct, ReleaseCall, CallDies,
                 LeaseRunsOut
  <2> QED BY <2>1
<1> QED BY <1>1, <1>2, <1>8, <1>9, <1>10, Zenon DEF AgentNext

LEMMA RevokedStay == Spec => RevokedForGood
<1>1. AgentsInv /\ [Next]_allVars =>
        [/\ integration.state = "revoked" => integration'.state = "revoked"
         /\ \A o \in Origins : origin[o].state = "revoked" => origin'[o].state = "revoked"
        ]_agentVars
  BY AgentsPart, RevokedKept
<1> QED BY <1>1, AgentsAlways, PTL DEF Spec, RevokedForGood

-----------------------------------------------------------------------------
(* Drafts.  A page carries the revision it showed, every change of a text  *)
(* raises the revision, and ids are never given twice: so whoever acts on  *)
(* a page of the current revision acts on the text he was shown, although  *)
(* the slug may have changed hands.                                        *)

\* What a row shows of its past: seen are the texts approved of it.
RowFine(row, seen) ==
    /\ row.definition # NoText => row.definition \in seen
    /\ row.state = "approved" => row.content.text \in seen
    /\ row.state = "approved" /\ row.status = "draft" => row.decided = row.revision - 1
    /\ row.status = "draft" => row.snapshot = row.content /\ row.registered = <<>>
    /\ Versioned(row) => row.content.date = row.registered[Len(row.registered)]

RowsFine == \A m \in Known : m <= created /\ RowFine(market[m], judged[m])

\* A page that shows the current revision shows the current text.
PageFollows(p, row) ==
    p.revision <= row.revision /\ (p.revision = row.revision => p.shown.text = row.content.text)

PagesFollow ==
    \A r \in Readers : page[r] # NoPage =>
      /\ page[r].market <= created
      /\ \A m \in Known : page[r].market = m => PageFollows(page[r], market[m])

KeysCounted ==
    \A k \in Keys :
      /\ made[k] \in {0, 1}
      /\ receipt[k] = NoReceipt => made[k] = 0
      /\ receipt[k] \in MarketIds => market[receipt[k]] # NoMarket

DraftsInv ==
    /\ DraftTypeOK
    /\ judged \in [MarketIds -> SUBSET Texts] /\ made \in [Keys -> Nat]
    /\ NoBlindSave
    /\ RowsFine
    /\ PagesFollow
    /\ KeysCounted

LEMMA DraftsTypes ==
  ASSUME DraftsInv
  PROVE  /\ created \in Nat /\ MaxMarkets \in Nat
         /\ market \in [MarketIds -> MarketRow \cup {NoMarket}]
         /\ receipt \in [Keys -> MarketIds \cup {NoReceipt, Deleted}]
         /\ page \in [Readers -> Page \cup {NoPage}]
         /\ judged \in [MarketIds -> SUBSET Texts] /\ made \in [Keys -> Nat]
         /\ \A m \in Known : m \in MarketIds /\ market[m] \in MarketRow
BY DraftAssumption DEF DraftsInv, DraftTypeOK, Known

LEMMA DraftsInvImplies == DraftsInv => DraftInvariant
<1> SUFFICES ASSUME DraftsInv PROVE DraftInvariant
  OBVIOUS
<1>1. PublishedAsApproved /\ ScheduleIsRegistered
  BY DEF DraftsInv, RowsFine, RowFine, PublishedAsApproved, ScheduleIsRegistered
<1>2. ApprovalIsCurrent
  BY DEF DraftsInv, RowsFine, RowFine, ApprovalIsCurrent, ApprovedNow
<1>3. OneMarketPerKey
  BY DEF DraftsInv, KeysCounted, OneMarketPerKey
<1> QED BY <1>1, <1>2, <1>3 DEF DraftsInv, DraftInvariant

LEMMA DraftsStart == DraftInit => DraftsInv
<1> SUFFICES ASSUME DraftInit PROVE DraftsInv
  OBVIOUS
<1>1. Known = {}
  BY DEF DraftInit, Known
<1>2. DraftTypeOK
  BY <1>1, DraftAssumption DEF DraftInit, DraftTypeOK
<1>3. judged \in [MarketIds -> SUBSET Texts] /\ made \in [Keys -> Nat] /\ NoBlindSave
  BY DEF DraftInit, NoBlindSave
<1>4. RowsFine /\ PagesFollow
  BY <1>1 DEF DraftInit, RowsFine, PagesFollow
<1>5. KeysCounted
  BY DraftAssumption DEF DraftInit, KeysCounted
<1> QED BY <1>2, <1>3, <1>4, <1>5 DEF DraftsInv

\* A known market's row changes: its slug is its own or was free, its revision
\* does not go back and goes on with the text.
LEMMA DraftRowKeeps ==
  ASSUME DraftsInv, NEW m \in Known, NEW row \in MarketRow,
         market' = [market EXCEPT ![m] = row],
         UNCHANGED <<created, receipt, page, made>>,
         "identified" \notin blind',
         judged' \in [MarketIds -> SUBSET Texts],
         \A n \in MarketIds : judged[n] \subseteq judged'[n],
         row.slug = market[m].slug \/ SlugFree(row.slug),
         row.revision >= market[m].revision,
         row.revision = market[m].revision => row.content.text = market[m].content.text,
         RowFine(row, judged'[m])
  PROVE  DraftsInv'
<1>0. m \in MarketIds /\ market[m] \in MarketRow /\ row # NoMarket
  BY DraftsTypes, DraftAssumption
<1>1. Known' = Known
  BY <1>0, DraftsTypes DEF Known
<1>2. DraftTypeOK'
  <2>1. market' \in [MarketIds -> MarketRow \cup {NoMarket}]
    BY DraftsTypes
  <2>2. \A a, b \in Known' : market'[a].slug = market'[b].slug => a = b
    BY <1>0, <1>1, DraftsTypes DEF DraftsInv, DraftTypeOK, SlugFree, Known
  <2> QED BY <2>1, <2>2 DEF DraftsInv, DraftTypeOK
<1>3. NoBlindSave'
  BY DEF NoBlindSave
<1>4. RowsFine'
  <2> SUFFICES ASSUME NEW n \in Known PROVE n <= created /\ RowFine(market'[n], judged'[n])
    BY <1>1 DEF RowsFine
  <2>1. n \in MarketIds /\ n <= created /\ RowFine(market[n], judged[n])
    BY DraftsTypes DEF DraftsInv, RowsFine
  <2>2. CASE n = m
    BY <1>0, <2>1, <2>2, DraftsTypes
  <2>3. CASE n # m
    BY <1>0, <2>1, <2>3, DraftsTypes DEF RowFine
  <2> QED BY <2>2, <2>3
<1>5. PagesFollow'
  <2> SUFFICES ASSUME NEW r \in Readers, page[r] # NoPage
               PROVE  /\ page[r].market <= created
                      /\ \A n \in Known : page[r].market = n => PageFollows(page[r], market'[n])
    BY <1>1 DEF PagesFollow
  <2>1. page[r] \in Page /\ page[r].revision \in Nat
    BY DraftsTypes DEF Page
  <2>2. /\ page[r].market <= created
        /\ \A n \in Known : page[r].market = n => PageFollows(page[r], market[n])
    BY DEF DraftsInv, PagesFollow
  <2>3. market[m].revision \in Nat /\ row.revision \in Nat
    BY <1>0 DEF MarketRow
  <2>4. page[r].market = m => PageFollows(page[r], row)
    BY <2>1, <2>2, <2>3 DEF PageFollows
  <2> QED BY <1>0, <2>2, <2>4, DraftsTypes
<1>6. KeysCounted'
  BY <1>0, DraftsTypes DEF DraftsInv, KeysCounted
<1> QED BY <1>2, <1>3, <1>4, <1>5, <1>6, DraftsTypes DEF DraftsInv

\* A new market's id is one that no page, receipt or row names.
LEMMA CreatesKeeps ==
  ASSUME DraftsInv, NEW s \in Slugs, NEW content \in FirstContent, NEW byAgent \in BOOLEAN,
         SlugFree(s), Creates(NewDraft(s, content, byAgent)),
         UNCHANGED <<page, judged, blind>>,
         \/ UNCHANGED <<receipt, made>>
         \/ \E k \in Keys : /\ receipt[k] = NoReceipt
                            /\ receipt' = [receipt EXCEPT ![k] = created + 1]
                            /\ made' = [made EXCEPT ![k] = @ + 1]
  PROVE  DraftsInv'
<1> DEFINE row == NewDraft(s, content, byAgent)
           m == created + 1
<1>1. m \in MarketIds /\ m \in Nat /\ m \notin Known
  BY DraftsTypes DEF Creates, MarketIds, DraftsInv, RowsFine
<1>2. content \in Content
  BY DraftAssumption DEF FirstContent, Content
<1>3. /\ row \in MarketRow /\ row.slug = s /\ row # NoMarket
      /\ row.status = "draft" /\ row.state = "preparation" /\ row.definition = NoText
      /\ row.snapshot = row.content /\ row.registered = <<>>
  <2>1. <<>> \in Seq(Dates)
    BY EmptySeq
  <2>2. row \in MarketRow
    BY <1>2, <2>1 DEF NewDraft, MarketRow
  <2>3. row # NoMarket
    BY <2>2, DraftAssumption
  <2> QED BY <2>2, <2>3 DEF NewDraft
<1>4. created' = m /\ market' = [market EXCEPT ![m] = row]
  BY DEF Creates
<1> HIDE DEF row
<1>5. Known' = Known \cup {m}
  BY <1>1, <1>3, <1>4, DraftsTypes DEF Known
<1>6. DraftTypeOK'
  <2>1. market' \in [MarketIds -> MarketRow \cup {NoMarket}] /\ created' \in 0..MaxMarkets
    BY <1>1, <1>3, <1>4, DraftsTypes DEF MarketIds
  <2>2. receipt' \in [Keys -> MarketIds \cup {NoReceipt, Deleted}]
    BY <1>1, DraftsTypes
  <2>3. \A a, b \in Known' : market'[a].slug = market'[b].slug => a = b
    BY <1>1, <1>3, <1>4, <1>5, DraftsTypes DEF DraftsInv, DraftTypeOK, SlugFree
  <2> QED BY <2>1, <2>2, <2>3 DEF DraftsInv, DraftTypeOK
<1>7. NoBlindSave'
  BY DEF DraftsInv, NoBlindSave
<1>8. RowsFine'
  <2> SUFFICES ASSUME NEW n \in Known' PROVE n <= created' /\ RowFine(market'[n], judged[n])
    BY DEF RowsFine
  <2>1. CASE n = m
    BY <1>1, <1>3, <1>4, <2>1, DraftsTypes DEF RowFine, Versioned
  <2>2. CASE n # m
    BY <1>1, <1>4, <1>5, <2>2, DraftsTypes DEF DraftsInv, RowsFine, MarketIds
  <2> QED BY <2>1, <2>2
<1>9. PagesFollow'
  <2> SUFFICES ASSUME NEW r \in Readers, page[r] # NoPage
               PROVE  /\ page[r].market <= created'
                      /\ \A n \in Known' : page[r].market = n => PageFollows(page[r], market'[n])
    BY DEF PagesFollow
  <2>1. page[r].market <= created /\ page[r].market \in Int
    BY DraftsTypes DEF DraftsInv, PagesFollow, Page, MarketIds
  <2>2. page[r].market <= created' /\ page[r].market # m
    BY <1>1, <1>4, <2>1, DraftsTypes
  <2> QED BY <1>1, <1>4, <1>5, <2>2, DraftsTypes DEF DraftsInv, PagesFollow
<1>10. made' \in [Keys -> Nat]
  BY DraftsTypes
<1>11. KeysCounted'
  <2> SUFFICES ASSUME NEW k \in Keys
               PROVE  /\ made'[k] \in {0, 1}
                      /\ receipt'[k] = NoReceipt => made'[k] = 0
                      /\ receipt'[k] \in MarketIds => market'[receipt'[k]] # NoMarket
    BY DEF KeysCounted
  <2>1. /\ made[k] \in {0, 1}
        /\ receipt[k] = NoReceipt => made[k] = 0
        /\ receipt[k] \in MarketIds => market[receipt[k]] # NoMarket
    BY DEF DraftsInv, KeysCounted
  <2>2. \A n \in MarketIds : market[n] # NoMarket \/ n = m => market'[n] # NoMarket
    BY <1>1, <1>3, <1>4, DraftsTypes
  <2>3. m # NoReceipt
    BY <1>1, DraftAssumption
  <2>4. CASE receipt'[k] = receipt[k] /\ made'[k] = made[k]
    BY <2>1, <2>2, <2>4
  <2>5. CASE receipt[k] = NoReceipt /\ receipt'[k] = m /\ made'[k] = made[k] + 1
    BY <1>1, <2>1, <2>2, <2>3, <2>5
  <2> QED BY <2>4, <2>5, DraftsTypes
<1> QED BY <1>6, <1>7, <1>8, <1>9, <1>10, <1>11, DraftsTypes DEF DraftsInv

\* What an edit makes of a row.
LEMMA RewrittenRow ==
  ASSUME NEW row \in MarketRow, NEW content \in Content, NEW state \in {"preparation", "in_review"}
  PROVE  LET new == Rewritten(row, content, state) IN
         /\ new \in MarketRow
         /\ new.content = content /\ new.snapshot = content /\ new.state = state
         /\ new.revision = row.revision + 1
         /\ new.slug = row.slug /\ new.status = row.status /\ new.definition = row.definition
         /\ new.registered = row.registered
<1> DEFINE new == Rewritten(row, content, state)
<1>1. row.revision \in Nat \ {0} /\ row.revision + 1 \in Nat \ {0}
  BY DEF MarketRow
<1>2. new \in MarketRow
  BY <1>1 DEF Rewritten, MarketRow
<1>3. /\ new.content = content /\ new.snapshot = content /\ new.state = state
      /\ new.revision = row.revision + 1
  BY DEF Rewritten, MarketRow
<1>4. /\ new.slug = row.slug /\ new.status = row.status /\ new.definition = row.definition
      /\ new.registered = row.registered
  BY DEF Rewritten, MarketRow
<1> QED BY <1>2, <1>3, <1>4

\* What a verdict makes of a row.
LEMMA DecidedRow ==
  ASSUME NEW row \in MarketRow, NEW verdict \in Verdicts
  PROVE  LET new == Decided(row, verdict) IN
         /\ new \in MarketRow
         /\ new.content = row.content /\ new.snapshot = row.snapshot /\ new.state = verdict
         /\ new.revision = row.revision + 1 /\ new.decided = row.revision
         /\ new.slug = row.slug /\ new.status = row.status /\ new.definition = row.definition
         /\ new.registered = row.registered
<1> DEFINE new == Decided(row, verdict)
<1>1. row.revision \in Nat \ {0} /\ row.revision + 1 \in Nat \ {0}
  BY DEF MarketRow
<1>2. new \in MarketRow
  BY <1>1 DEF Decided, MarketRow
<1>3. /\ new.state = verdict /\ new.revision = row.revision + 1 /\ new.decided = row.revision
  BY DEF Decided, MarketRow
<1>4. /\ new.slug = row.slug /\ new.status = row.status /\ new.definition = row.definition
      /\ new.content = row.content /\ new.snapshot = row.snapshot
      /\ new.registered = row.registered
  BY DEF Decided, MarketRow
<1> QED BY <1>2, <1>3, <1>4

\* An edited row is fine, whatever became of the approval.
LEMMA RewrittenFine ==
  ASSUME NEW row \in MarketRow, NEW seen, RowFine(row, seen), NEW content \in Content,
         NEW state \in {"preparation", "in_review"},
         Versioned(row) => content.date = row.content.date
  PROVE  RowFine(Rewritten(row, content, state), seen)
<1> DEFINE new == Rewritten(row, content, state)
<1>1. /\ new.content = content /\ new.snapshot = content /\ new.state = state
      /\ new.status = row.status /\ new.definition = row.definition
      /\ new.registered = row.registered
  BY RewrittenRow
<1> HIDE DEF new
<1>2. RowFine(new, seen)
  BY <1>1 DEF RowFine, Versioned
<1> QED BY <1>2 DEF new

LEMMA DecidedFine ==
  ASSUME NEW row \in MarketRow, NEW seen, RowFine(row, seen), NEW verdict \in Verdicts,
         NEW more, seen \subseteq more, verdict = "approved" => row.content.text \in more
  PROVE  RowFine(Decided(row, verdict), more)
<1> DEFINE new == Decided(row, verdict)
<1>1. /\ new.content = row.content /\ new.snapshot = row.snapshot /\ new.state = verdict
      /\ new.revision = row.revision + 1 /\ new.decided = row.revision
      /\ new.status = row.status /\ new.definition = row.definition
      /\ new.registered = row.registered
  BY DecidedRow
<1>2. row.revision \in Nat
  BY DEF MarketRow
<1> HIDE DEF new
<1>3. RowFine(new, more)
  BY <1>1, <1>2 DEF RowFine, Versioned
<1> QED BY <1>3 DEF new

\* The page whose revision is current shows the market's text.
LEMMA CurrentPage ==
  ASSUME DraftsInv, NEW r \in Readers, NEW m \in Known, page[r] # NoPage,
         page[r].market = m, Current(r, m)
  PROVE  page[r].shown.text = market[m].content.text
BY DEF DraftsInv, PagesFollow, PageFollows, Current

\* Nobody who is identified saves blindly.
LEMMA IdentifiedSees ==
  ASSUME DraftsInv, NEW r \in Readers, NEW m \in Known, NEW kind, page[r] # NoPage,
         kind = "identified" => page[r].market = m, Current(r, m)
  PROVE  "identified" \notin Blinded(r, m, kind)
BY CurrentPage DEF DraftsInv, NoBlindSave, Blinded

LEMMA HumanEditInv ==
  ASSUME DraftsInv, NEW r \in Readers, NEW m \in Known, NEW kind \in FormKinds,
         NEW s \in Slugs, NEW c \in Content, HumanEdit(r, m, kind, s, c)
  PROVE  DraftsInv'
<1> DEFINE base == Rewritten(market[m], c, "preparation")
           row == [base EXCEPT !.slug = s]
<1>1. m \in MarketIds /\ market[m] \in MarketRow /\ market[m].revision \in Nat
  BY DraftsTypes DEF MarketRow
<1>2. RowFine(market[m], judged[m])
  BY DEF DraftsInv, RowsFine
<1>3. Versioned(market[m]) => c.date = market[m].content.date
  BY DEF HumanEdit, ScheduleAllows
<1>4. base \in MarketRow /\ base.revision = market[m].revision + 1
  BY <1>1, RewrittenRow
<1>5. RowFine(base, judged[m])
  BY <1>1, <1>2, <1>3, RewrittenFine
<1>6. /\ market' = [market EXCEPT ![m] = row]
      /\ blind' = Blinded(r, m, kind)
      /\ UNCHANGED <<created, receipt, page, judged, made>>
      /\ s = market[m].slug \/ SlugFree(s)
  BY DEF HumanEdit
<1> HIDE DEF base
<1>7. /\ row \in MarketRow /\ row.slug = s /\ row.revision = base.revision
      /\ row.content = base.content /\ row.snapshot = base.snapshot /\ row.state = base.state
      /\ row.status = base.status /\ row.definition = base.definition
      /\ row.registered = base.registered /\ row.decided = base.decided
  BY <1>4 DEF MarketRow
<1> HIDE DEF row
<1>8. RowFine(row, judged[m])
  BY <1>5, <1>7 DEF RowFine, Versioned
<1>9. "identified" \notin blind'
  <2>1. /\ page[r] # NoPage /\ Current(r, m)
        /\ kind = "identified" => page[r].market = m
    BY DEF HumanEdit, Targets, Identified
  <2> QED BY <1>6, <2>1, IdentifiedSees
<1>10. row.revision >= market[m].revision /\ row.revision # market[m].revision
  BY <1>1, <1>4, <1>7
<1>11. row.slug = market[m].slug \/ SlugFree(row.slug)
  BY <1>6, <1>7
<1>12. /\ judged' \in [MarketIds -> SUBSET Texts] /\ RowFine(row, judged'[m])
       /\ \A n \in MarketIds : judged[n] \subseteq judged'[n]
  BY <1>6, <1>8, DraftsTypes
<1> QED BY <1>6, <1>7, <1>9, <1>10, <1>11, <1>12, DraftRowKeeps

LEMMA AgentEditInv ==
  ASSUME DraftsInv, NEW m \in Known,
         (\E c \in Content : AgentUpdate(m, c)) \/ AgentSubmit(m)
  PROVE  DraftsInv'
<1>1. m \in MarketIds /\ market[m] \in MarketRow /\ market[m].revision \in Nat
      /\ market[m].content \in Content
  BY DraftsTypes DEF MarketRow
<1>2. RowFine(market[m], judged[m])
  BY DEF DraftsInv, RowsFine
<1>3. AgentWrites(m)
  BY DEF AgentUpdate, AgentSubmit
<1>4. /\ page[Agent] # NoPage /\ page[Agent].market = m /\ Current(Agent, m)
      /\ market[m].status = "draft" /\ Agent \in Readers
  BY <1>3, DraftAssumption DEF AgentWrites
<1>5. ~Versioned(market[m])
  BY <1>2, <1>4 DEF RowFine, Versioned
<1>6. PICK c \in Content, state \in {"preparation", "in_review"} :
        /\ market' = [market EXCEPT ![m] = Rewritten(market[m], c, state)]
        /\ blind' \in {blind, Blinded(Agent, m, "identified")}
        /\ UNCHANGED <<created, receipt, page, judged, made>>
  BY <1>1 DEF AgentUpdate, AgentSubmit
<1> DEFINE row == Rewritten(market[m], c, state)
<1>7. row \in MarketRow /\ row.revision = market[m].revision + 1 /\ row.slug = market[m].slug
  BY <1>1, RewrittenRow
<1>8. RowFine(row, judged[m])
  BY <1>1, <1>2, <1>5, RewrittenFine
<1>9. "identified" \notin blind'
  BY <1>4, <1>6, IdentifiedSees DEF DraftsInv, NoBlindSave
<1> HIDE DEF row
<1>10. market' = [market EXCEPT ![m] = row]
  BY <1>6 DEF row
<1>11. row.revision >= market[m].revision /\ row.revision # market[m].revision
  BY <1>1, <1>7
<1>12. /\ judged' \in [MarketIds -> SUBSET Texts] /\ RowFine(row, judged'[m])
       /\ \A n \in MarketIds : judged[n] \subseteq judged'[n]
  BY <1>6, <1>8, DraftsTypes
<1> QED BY <1>6, <1>7, <1>9, <1>10, <1>11, <1>12, DraftRowKeeps

\* A verdict is about the text the reviewer was shown.
LEMMA VerdictInv ==
  ASSUME DraftsInv, NEW r \in Readers, NEW m \in Known, NEW verdict \in Verdicts,
         Decide(r, m, verdict) \/ Assess(r, m, verdict)
  PROVE  DraftsInv'
<1>1. m \in MarketIds /\ market[m] \in MarketRow /\ market[m].revision \in Nat
      /\ market[m].content \in Content
  BY DraftsTypes DEF MarketRow
<1>2. RowFine(market[m], judged[m])
  BY DEF DraftsInv, RowsFine
<1>3. /\ page[r] # NoPage /\ page[r].market = m /\ Current(r, m)
      /\ judged' = Judged(r, m, verdict)
      /\ UNCHANGED <<created, receipt, page, blind, made>>
  BY DEF Decide, Assess, Reviewable
<1>4. page[r].shown.text = market[m].content.text /\ market[m].content.text \in Texts
  BY <1>1, <1>3, CurrentPage DEF Content
<1>5. /\ judged' \in [MarketIds -> SUBSET Texts]
      /\ \A n \in MarketIds : judged[n] \subseteq judged'[n]
      /\ verdict = "approved" => market[m].content.text \in judged'[m]
  BY <1>1, <1>3, <1>4, DraftsTypes DEF Judged
<1>6. PICK base \in MarketRow :
        /\ market' = [market EXCEPT ![m] = Decided(base, verdict)]
        /\ base.revision >= market[m].revision /\ base.slug = market[m].slug
        /\ base.content = market[m].content
        /\ RowFine(base, judged[m])
  <2>1. CASE Decide(r, m, verdict)
    <3>1. market' = [market EXCEPT ![m] = Decided(market[m], verdict)]
      BY <2>1 DEF Decide
    <3>2. market[m].revision >= market[m].revision
      BY <1>1
    <3> QED BY <1>1, <1>2, <3>1, <3>2
  <2>2. CASE Assess(r, m, verdict)
    <3> DEFINE new == Rewritten(market[m], market[m].content, "in_review")
    <3>1. /\ new \in MarketRow /\ new.revision >= market[m].revision
          /\ new.slug = market[m].slug /\ new.content = market[m].content
      BY <1>1, RewrittenRow
    <3>2. RowFine(new, judged[m])
      BY <1>1, <1>2, RewrittenFine
    <3>3. market' = [market EXCEPT ![m] = Decided(new, verdict)]
      BY <2>2 DEF Assess
    <3> HIDE DEF new
    <3> QED BY <3>1, <3>2, <3>3
  <2> QED BY <2>1, <2>2
<1> DEFINE row == Decided(base, verdict)
<1>7. /\ row \in MarketRow /\ row.slug = market[m].slug /\ row.revision = base.revision + 1
      /\ row.content = base.content
  BY <1>6, DecidedRow
<1>8. RowFine(row, judged'[m])
  BY <1>1, <1>5, <1>6, DecidedFine
<1>9. base.revision \in Nat /\ row.revision > market[m].revision
  BY <1>1, <1>6, <1>7 DEF MarketRow
<1>10. "identified" \notin blind'
  BY <1>3 DEF DraftsInv, NoBlindSave
<1> HIDE DEF row
<1>11. market' = [market EXCEPT ![m] = row] /\ row.revision \in Nat
  BY <1>6, <1>7 DEF row, MarketRow
<1>12. row.revision >= market[m].revision /\ row.revision # market[m].revision
  BY <1>1, <1>9, <1>11
<1> QED BY <1>3, <1>5, <1>7, <1>8, <1>10, <1>11, <1>12, DraftRowKeeps

\* Publication, cancellation and rescheduling change a row but not its text.
LEMMA SameTextKeeps ==
  ASSUME DraftsInv, NEW m \in Known, NEW row \in MarketRow,
         market' = [market EXCEPT ![m] = row],
         UNCHANGED <<created, receipt, page, judged, blind, made>>,
         row.slug = market[m].slug, row.revision = market[m].revision,
         row.content.text = market[m].content.text,
         RowFine(row, judged[m])
  PROVE  DraftsInv'
<1>1. row.revision >= market[m].revision
  BY DraftsTypes DEF MarketRow
<1>2. /\ judged' \in [MarketIds -> SUBSET Texts] /\ RowFine(row, judged'[m])
      /\ \A n \in MarketIds : judged[n] \subseteq judged'[n]
  BY DraftsTypes
<1>3. "identified" \notin blind'
  BY DEF DraftsInv, NoBlindSave
<1> QED BY <1>1, <1>2, <1>3, DraftRowKeeps

LEMMA PublishInv ==
  ASSUME DraftsInv, NEW r \in Readers, NEW m \in Known, NEW kind \in FormKinds,
         Publish(r, m, kind) \/ Cancel(r, m, kind)
  PROVE  DraftsInv'
<1>1. m \in MarketIds /\ market[m] \in MarketRow /\ market[m].content \in Content
  BY DraftsTypes DEF MarketRow
<1>2. RowFine(market[m], judged[m])
  BY DEF DraftsInv, RowsFine
<1>3. UNCHANGED <<created, receipt, page, judged, blind, made>>
  BY DEF Publish, Cancel
<1>4. CASE Publish(r, m, kind)
  <2> DEFINE first == <<market[m].content.date>>
             registered == IF Versioned(market[m]) THEN market[m].registered ELSE first
             row == [market[m] EXCEPT !.status = "open", !.definition = market[m].content.text,
                                      !.registered = IF Versioned(market[m]) THEN @ ELSE first]
  <2>1. market' = [market EXCEPT ![m] = row] /\ ApprovedNow(market[m])
    BY <1>4 DEF Publish
  <2>2. first \in Seq(Dates) /\ Len(first) = 1 /\ first[1] = market[m].content.date
    BY <1>1 DEF Content
  <2>3. registered \in Seq(Dates) /\ market[m].content.text \in Texts
    BY <1>1, <2>2 DEF MarketRow, Content
  <2>4. registered[Len(registered)] = market[m].content.date
    BY <1>2, <2>2 DEF RowFine
  <2> HIDE DEF first
  <2>5. row = [market[m] EXCEPT !.status = "open", !.definition = market[m].content.text,
                                !.registered = registered]
    BY <1>1 DEF MarketRow
  <2> HIDE DEF registered, row
  <2>6. row \in MarketRow
    BY <1>1, <2>3, <2>5 DEF MarketRow
  <2>7. /\ row.slug = market[m].slug /\ row.revision = market[m].revision
        /\ row.content = market[m].content /\ row.state = market[m].state
        /\ row.status = "open" /\ row.definition = market[m].content.text
        /\ row.registered = registered
    BY <1>1, <2>5 DEF MarketRow
  <2>8. RowFine(row, judged[m])
    BY <1>2, <2>1, <2>4, <2>7 DEF RowFine, ApprovedNow
  <2> QED BY <1>3, <2>1, <2>6, <2>7, <2>8, SameTextKeeps
<1>5. CASE Cancel(r, m, kind)
  <2> DEFINE row == [market[m] EXCEPT !.status = "canceled"]
  <2>1. market' = [market EXCEPT ![m] = row]
    BY <1>5 DEF Cancel
  <2>2. row \in MarketRow
    BY <1>1 DEF MarketRow
  <2>3. /\ row.slug = market[m].slug /\ row.revision = market[m].revision
        /\ row.content = market[m].content /\ row.state = market[m].state
        /\ row.status = "canceled" /\ row.definition = market[m].definition
        /\ row.registered = market[m].registered
    BY <1>1 DEF MarketRow
  <2> HIDE DEF row
  <2>4. RowFine(row, judged[m])
    BY <1>2, <2>3 DEF RowFine, Versioned
  <2> QED BY <1>3, <2>1, <2>2, <2>3, <2>4, SameTextKeeps
<1> QED BY <1>4, <1>5

\* The row after a rescheduling.
LEMMA RescheduledRow ==
  ASSUME NEW old \in MarketRow, NEW date \in Dates
  PROVE  LET row == [old EXCEPT !.registered = Registered(old, date), !.content.date = date] IN
         /\ row \in MarketRow
         /\ row.slug = old.slug /\ row.revision = old.revision /\ row.state = old.state
         /\ row.status = old.status /\ row.definition = old.definition
         /\ row.content.text = old.content.text /\ row.content.date = date
         /\ row.registered = Append(old.registered, date)
<1> DEFINE row == [old EXCEPT !.registered = Registered(old, date), !.content.date = date]
           content == [old.content EXCEPT !.date = date]
<1>1. Append(old.registered, date) \in Seq(Dates)
  BY AppendProperties DEF MarketRow
<1>2. content \in Content /\ content.text = old.content.text /\ content.date = date
  BY DEF MarketRow, Content
<1> HIDE DEF content
<1>3. row = [old EXCEPT !.registered = Append(old.registered, date), !.content = content]
  BY DEF MarketRow, Registered, content
<1> HIDE DEF row
<1>4. row \in MarketRow
  BY <1>1, <1>2, <1>3 DEF MarketRow
<1>5. /\ row.slug = old.slug /\ row.revision = old.revision /\ row.state = old.state
      /\ row.status = old.status /\ row.definition = old.definition
      /\ row.content = content /\ row.registered = Append(old.registered, date)
  BY <1>3 DEF MarketRow
<1> QED BY <1>2, <1>4, <1>5 DEF row

LEMMA RescheduleInv ==
  ASSUME DraftsInv, NEW r \in Readers, NEW m \in Known, NEW date \in Dates,
         Reschedule(r, m, date)
  PROVE  DraftsInv'
<1> DEFINE row == [market[m] EXCEPT !.registered = Registered(market[m], date),
                                    !.content.date = date]
<1>1. m \in MarketIds /\ market[m] \in MarketRow /\ market[m].registered \in Seq(Dates)
  BY DraftsTypes DEF MarketRow
<1>2. RowFine(market[m], judged[m])
  BY DEF DraftsInv, RowsFine
<1>3. /\ market' = [market EXCEPT ![m] = row] /\ market[m].status = "open"
      /\ UNCHANGED <<created, receipt, page, judged, blind, made>>
  BY DEF Reschedule
<1>4. /\ row \in MarketRow
      /\ row.slug = market[m].slug /\ row.revision = market[m].revision
      /\ row.state = market[m].state
      /\ row.status = market[m].status /\ row.definition = market[m].definition
      /\ row.content.text = market[m].content.text /\ row.content.date = date
      /\ row.registered = Append(market[m].registered, date)
  BY <1>1, RescheduledRow
<1> HIDE DEF row
<1>5. row.registered[Len(row.registered)] = date
  BY <1>1, <1>4, AppendProperties
<1>6. RowFine(row, judged[m])
  BY <1>2, <1>3, <1>4, <1>5 DEF RowFine
<1> QED BY <1>3, <1>4, <1>6, SameTextKeeps

LEMMA OpenDraftInv ==
  ASSUME DraftsInv, NEW r \in Readers, NEW m \in MarketIds, OpenDraft(r, m)
  PROVE  DraftsInv'
<1> DEFINE p == [market |-> m, slug |-> market[m].slug, revision |-> market[m].revision,
                 shown |-> market[m].content, snapshot |-> market[m].snapshot,
                 version |-> Len(market[m].registered)]
<1>1. /\ m \in Known /\ page' = [page EXCEPT ![r] = p]
      /\ UNCHANGED <<market, created, receipt, deletedSlugs, judged, blind, made>>
  BY DEF OpenDraft
<1>2. market[m] \in MarketRow /\ m <= created
  BY <1>1, DraftsTypes DEF DraftsInv, RowsFine
<1>3. Len(market[m].registered) \in Nat
  BY <1>2, LenProperties DEF MarketRow
<1>4. p \in Page /\ p.market = m /\ PageFollows(p, market[m])
  BY <1>2, <1>3 DEF Page, MarketRow, PageFollows
<1> HIDE DEF p
<1>5. DraftTypeOK'
  <2>1. page' \in [Readers -> Page \cup {NoPage}]
    BY <1>1, <1>4, DraftsTypes
  <2> QED BY <1>1, <2>1 DEF DraftsInv, DraftTypeOK, Known
<1>6. /\ judged' \in [MarketIds -> SUBSET Texts] /\ made' \in [Keys -> Nat]
      /\ NoBlindSave' /\ RowsFine' /\ KeysCounted'
  BY <1>1 DEF DraftsInv, NoBlindSave, RowsFine, KeysCounted, Known
<1>7. PagesFollow'
  BY <1>1, <1>2, <1>4, DraftsTypes DEF DraftsInv, PagesFollow, Known
<1> QED BY <1>5, <1>6, <1>7 DEF DraftsInv

\* A deleted market leaves receipts that say so, and pages that name nothing.
LEMMA DeleteMarketInv ==
  ASSUME DraftsInv, NEW r \in Readers, NEW m \in MarketIds, DeleteMarket(r, m)
  PROVE  DraftsInv'
<1>1. /\ market' = [market EXCEPT ![m] = NoMarket] /\ receipt' = AfterDeletion(m)
      /\ UNCHANGED <<created, page, judged, blind, made>>
  BY DEF DeleteMarket
<1>2. Known' = Known \ {m} /\ \A n \in Known' : market'[n] = market[n]
  BY <1>1, DraftsTypes DEF Known
<1>3. \A k \in Keys : receipt'[k] = IF receipt[k] = m THEN Deleted ELSE receipt[k]
  BY <1>1 DEF AfterDeletion
<1>4. DraftTypeOK'
  <2>1. market' \in [MarketIds -> MarketRow \cup {NoMarket}]
    BY <1>1, DraftsTypes
  <2>2. receipt' \in [Keys -> MarketIds \cup {NoReceipt, Deleted}]
    BY <1>1, DraftsTypes DEF AfterDeletion
  <2> QED BY <1>1, <1>2, <2>1, <2>2 DEF DraftsInv, DraftTypeOK
<1>5. judged' \in [MarketIds -> SUBSET Texts] /\ made' \in [Keys -> Nat] /\ NoBlindSave'
  BY <1>1 DEF DraftsInv, NoBlindSave
<1>6. RowsFine' /\ PagesFollow'
  BY <1>1, <1>2 DEF DraftsInv, RowsFine, PagesFollow
<1>7. KeysCounted'
  BY <1>1, <1>3, DraftsTypes, DraftAssumption DEF DraftsInv, KeysCounted
<1> QED BY <1>4, <1>5, <1>6, <1>7 DEF DraftsInv

\* Every step keeps the invariant.
LEMMA DraftsStep ==
  ASSUME DraftsInv, [DraftNext]_draftVars
  PROVE  DraftsInv'
<1>1. ASSUME NEW s \in Slugs, NEW c \in FirstContent, HumanCreate(s, c) PROVE DraftsInv'
  BY <1>1, CreatesKeeps DEF HumanCreate
<1>2. ASSUME NEW k \in Keys, NEW s \in Slugs, NEW c \in FirstContent, AgentCreate(k, s, c)
      PROVE  DraftsInv'
  BY <1>2, CreatesKeeps DEF AgentCreate
<1>3. CASE UNCHANGED draftVars
  BY <1>3 DEF draftVars, DraftsInv, DraftTypeOK, NoBlindSave, RowsFine, PagesFollow,
              KeysCounted, Known
<1>4. CASE \E r \in Readers, m \in MarketIds : OpenDraft(r, m) \/ DeleteMarket(r, m)
  BY <1>4, OpenDraftInv, DeleteMarketInv
<1>5. CASE \E r \in Readers, m \in Known, kind \in FormKinds :
             \/ \E s \in Slugs, c \in Content : HumanEdit(r, m, kind, s, c)
             \/ Publish(r, m, kind)
             \/ Cancel(r, m, kind)
  BY <1>5, HumanEditInv, PublishInv
<1>6. CASE \E m \in Known : (\E c \in Content : AgentUpdate(m, c)) \/ AgentSubmit(m)
  BY <1>6, AgentEditInv
<1>7. CASE \E r \in Readers, m \in Known, verdict \in Verdicts :
             Decide(r, m, verdict) \/ Assess(r, m, verdict)
  BY <1>7, VerdictInv
<1>8. CASE \E r \in Readers, m \in Known, date \in Dates : Reschedule(r, m, date)
  BY <1>8, RescheduleInv
<1> QED BY <1>1, <1>2, <1>3, <1>4, <1>5, <1>6, <1>7, <1>8, Zenon DEF DraftNext

LEMMA DraftsPart == [Next]_allVars => [DraftNext]_draftVars
BY DEF Next, AgentSteps, DraftSteps, CatalogueSteps, ConfirmationSteps, SettingSteps,
       RequestSteps, allVars

\* What is published, saved, approved, created and scheduled is what its author
\* or reviewer was shown.
LEMMA DraftsAlways == Spec => []DraftsInv
<1>1. Init => DraftsInv
  BY DraftsStart DEF Init
<1>2. DraftsInv /\ [Next]_allVars => DraftsInv'
  BY DraftsPart, DraftsStep
<1> QED BY <1>1, <1>2, PTL DEF Spec

\* A step leaves the registered history of market m, or adds one date to it.
HistoryKeeps(m) ==
    \/ market'[m].registered = market[m].registered
    \/ \E date \in Dates : market'[m].registered = Append(market[m].registered, date)

\* A registered schedule keeps its history, or is rescheduled.
LEMMA HistoryStep ==
  ASSUME DraftsInv, [DraftNext]_draftVars, NEW m \in Known, m \in Known', Versioned(market[m])
  PROVE  HistoryKeeps(m)
<1>0. /\ m \in MarketIds /\ m <= created /\ market[m] \in MarketRow
      /\ \A n \in Known : n \in MarketIds /\ market[n] \in MarketRow
      /\ market \in [MarketIds -> MarketRow \cup {NoMarket}]
      /\ created \in Nat
  BY DraftsTypes DEF DraftsInv, RowsFine
<1>1. ASSUME NEW n \in Known, NEW row, market' = [market EXCEPT ![n] = row],
             \/ row.registered = market[n].registered
             \/ n # m
             \/ \E date \in Dates : row.registered = Append(market[n].registered, date)
      PROVE  HistoryKeeps(m)
  <2>1. CASE n = m
    <3>1. market'[m] = row
      BY <1>0, <1>1, <2>1
    <3> QED BY <1>1, <2>1, <3>1 DEF HistoryKeeps
  <2>2. CASE n # m
    <3>1. market'[m] = market[m]
      BY <1>0, <1>1, <2>2
    <3> QED BY <3>1 DEF HistoryKeeps
  <2> QED BY <2>1, <2>2
<1>2. ASSUME NEW row, Creates(row) PROVE HistoryKeeps(m)
  <2>1. market' = [market EXCEPT ![created + 1] = row]
    BY <1>2 DEF Creates
  <2>2. m # created + 1
    BY <1>0 DEF MarketIds
  <2>3. market'[m] = market[m]
    BY <1>0, <2>1, <2>2
  <2> QED BY <2>3 DEF HistoryKeeps
<1>3. ASSUME NEW s \in Slugs, NEW c \in FirstContent,
             HumanCreate(s, c) \/ \E k \in Keys : AgentCreate(k, s, c)
      PROVE  HistoryKeeps(m)
  BY <1>3, <1>2 DEF HumanCreate, AgentCreate
<1>4. ASSUME NEW r \in Readers, NEW n \in MarketIds, OpenDraft(r, n) \/ DeleteMarket(r, n)
      PROVE  HistoryKeeps(m)
  <2>1. CASE OpenDraft(r, n)
    BY <2>1 DEF OpenDraft, HistoryKeeps
  <2>2. CASE DeleteMarket(r, n)
    <3>1. market' = [market EXCEPT ![n] = NoMarket]
      BY <2>2 DEF DeleteMarket
    <3>2. m # n
      BY <1>0, <3>1 DEF Known
    <3>3. market'[m] = market[m]
      BY <1>0, <3>1, <3>2
    <3> QED BY <3>3 DEF HistoryKeeps
  <2> QED BY <1>4, <2>1, <2>2
<1>5. ASSUME NEW n \in Known, NEW c \in Content, NEW state \in {"preparation", "in_review"}
      PROVE  /\ Rewritten(market[n], c, state) \in MarketRow
             /\ Rewritten(market[n], c, state).registered = market[n].registered
  BY <1>0, RewrittenRow
<1>6. ASSUME NEW r \in Readers, NEW n \in Known, NEW kind \in FormKinds, NEW s \in Slugs,
             NEW c \in Content, HumanEdit(r, n, kind, s, c)
      PROVE  HistoryKeeps(m)
  <2> DEFINE base == Rewritten(market[n], c, "preparation")
             row == [base EXCEPT !.slug = s]
  <2>1. market' = [market EXCEPT ![n] = row]
    BY <1>6 DEF HumanEdit
  <2>2. base \in MarketRow /\ base.registered = market[n].registered
    BY <1>5
  <2> HIDE DEF base
  <2>3. row.registered = market[n].registered
    BY <2>2 DEF MarketRow
  <2> HIDE DEF row
  <2> QED BY <1>1, <2>1, <2>3
<1>7. ASSUME NEW r \in Readers, NEW n \in Known, NEW kind \in FormKinds, Publish(r, n, kind)
      PROVE  HistoryKeeps(m)
  <2> DEFINE row == [market[n] EXCEPT
               !.status = "open", !.definition = market[n].content.text,
               !.registered = IF Versioned(market[n]) THEN @ ELSE <<market[n].content.date>>]
  <2>1. market' = [market EXCEPT ![n] = row]
    BY <1>7 DEF Publish
  <2>2. n = m => row.registered = market[n].registered
    BY <1>0 DEF MarketRow
  <2> HIDE DEF row
  <2> QED BY <1>1, <2>1, <2>2
<1>8. ASSUME NEW r \in Readers, NEW n \in Known, NEW kind \in FormKinds, Cancel(r, n, kind)
      PROVE  HistoryKeeps(m)
  <2> DEFINE row == [market[n] EXCEPT !.status = "canceled"]
  <2>1. market' = [market EXCEPT ![n] = row]
    BY <1>8 DEF Cancel
  <2>2. row.registered = market[n].registered
    BY <1>0 DEF MarketRow
  <2> HIDE DEF row
  <2> QED BY <1>1, <2>1, <2>2
<1>9. ASSUME NEW n \in Known, NEW c \in Content, AgentUpdate(n, c) PROVE HistoryKeeps(m)
  <2>1. market' = [market EXCEPT ![n] = Rewritten(market[n], c, "preparation")]
    BY <1>9 DEF AgentUpdate
  <2> QED BY <1>1, <1>5, <2>1
<1>10. ASSUME NEW n \in Known PROVE market[n].content \in Content
  BY <1>0 DEF MarketRow
<1>11. ASSUME NEW n \in Known, AgentSubmit(n) PROVE HistoryKeeps(m)
  <2>1. market' = [market EXCEPT ![n] = Rewritten(market[n], market[n].content, "in_review")]
    BY <1>11 DEF AgentSubmit
  <2> QED BY <1>1, <1>5, <1>10, <2>1
<1>12. ASSUME NEW r \in Readers, NEW n \in Known, NEW verdict \in Verdicts, Decide(r, n, verdict)
      PROVE  HistoryKeeps(m)
  <2>1. market' = [market EXCEPT ![n] = Decided(market[n], verdict)]
    BY <1>12 DEF Decide
  <2>2. Decided(market[n], verdict).registered = market[n].registered
    BY <1>0, DecidedRow
  <2> QED BY <1>1, <2>1, <2>2
<1>13. ASSUME NEW r \in Readers, NEW n \in Known, NEW verdict \in Verdicts, Assess(r, n, verdict)
      PROVE  HistoryKeeps(m)
  <2> DEFINE base == Rewritten(market[n], market[n].content, "in_review")
  <2>1. market' = [market EXCEPT ![n] = Decided(base, verdict)]
    BY <1>13 DEF Assess
  <2>2. base \in MarketRow /\ base.registered = market[n].registered
    BY <1>5, <1>10
  <2> HIDE DEF base
  <2>3. Decided(base, verdict).registered = market[n].registered
    BY <2>2, DecidedRow
  <2> QED BY <1>1, <2>1, <2>3
<1>14. ASSUME NEW r \in Readers, NEW n \in Known, NEW date \in Dates, Reschedule(r, n, date)
      PROVE  HistoryKeeps(m)
  <2> DEFINE row == [market[n] EXCEPT !.registered = Registered(market[n], date),
                                      !.content.date = date]
  <2>1. market' = [market EXCEPT ![n] = row]
    BY <1>14 DEF Reschedule
  <2> DEFINE old == market[n]
  <2>2. old \in MarketRow
    BY <1>0
  <2> HIDE DEF old
  <2>3. [old EXCEPT !.registered = Registered(old, date), !.content.date = date].registered
          = Append(old.registered, date)
    BY <2>2, RescheduledRow, Zenon
  <2>4. row.registered = Append(market[n].registered, date)
    BY <2>3 DEF old
  <2> HIDE DEF row
  <2> QED BY <1>1, <2>1, <2>4
<1>15. CASE UNCHANGED draftVars
  BY <1>15 DEF draftVars, HistoryKeeps
<1>16. CASE DraftNext
  <2>1. CASE \E n \in Known : (\E c \in Content : AgentUpdate(n, c)) \/ AgentSubmit(n)
    BY <2>1, <1>9, <1>11
  <2>2. CASE \E r \in Readers, n \in Known, verdict \in Verdicts :
               Decide(r, n, verdict) \/ Assess(r, n, verdict)
    BY <2>2, <1>12, <1>13
  <2>3. CASE \E r \in Readers, n \in Known, kind \in FormKinds :
               \/ \E s \in Slugs, c \in Content : HumanEdit(r, n, kind, s, c)
               \/ Publish(r, n, kind)
               \/ Cancel(r, n, kind)
    BY <2>3, <1>6, <1>7, <1>8
  <2>4. CASE \/ \E s \in Slugs, c \in FirstContent : HumanCreate(s, c)
             \/ \E k \in Keys, s \in Slugs, c \in FirstContent : AgentCreate(k, s, c)
    BY <2>4, <1>3
  <2>5. CASE \E r \in Readers, n \in MarketIds : OpenDraft(r, n) \/ DeleteMarket(r, n)
    BY <2>5, <1>4
  <2>6. CASE \E r \in Readers, n \in Known, date \in Dates : Reschedule(r, n, date)
    BY <2>6, <1>14
  <2> QED BY <1>16, <2>1, <2>2, <2>3, <2>4, <2>5, <2>6, Zenon DEF DraftNext
<1> QED BY <1>15, <1>16

\* The dates once registered are the beginning of every later history.
LEMMA HistoryKept ==
  ASSUME DraftsInv, [DraftNext]_draftVars, NEW m \in Known, m \in Known', Versioned(market[m])
  PROVE  SubSeq(market'[m].registered, 1, Len(market[m].registered)) = market[m].registered
<1> DEFINE old == market[m].registered
<1>1. old \in Seq(Dates)
  BY DraftsTypes DEF MarketRow
<1> HIDE DEF old
<1>2. SubSeq(old, 1, Len(old)) = old
  BY <1>1, SubSeqFull
<1>3. ASSUME NEW date \in Dates PROVE SubSeq(Append(old, date), 1, Len(old)) = old
  <2>1. Append(old, date) = old \o <<date>> /\ <<date>> \in Seq(Dates)
    BY <1>1, AppendIsConcat
  <2>2. Len(old) \in Nat
    BY <1>1, LenProperties
  <2>3. SubSeq(old \o <<date>>, 1, Len(old)) = SubSeq(old, 1, Len(old))
    BY <1>1, <2>1, <2>2, SubSeqOfConcat1
  <2> QED BY <1>2, <2>1, <2>3
<1>4. \/ market'[m].registered = old
      \/ \E date \in Dates : market'[m].registered = Append(old, date)
  BY HistoryStep DEF old, HistoryKeeps
<1> QED BY <1>2, <1>3, <1>4 DEF old

LEMMA HistoryGrows == Spec => ScheduleHistoryGrows
<1>1. DraftsInv /\ [Next]_allVars =>
        [\A m \in Known :
           /\ m \in Known'
           /\ Versioned(market[m])
           => SubSeq(market'[m].registered, 1, Len(market[m].registered)) = market[m].registered
        ]_draftVars
  BY DraftsPart, HistoryKept
<1> QED BY <1>1, DraftsAlways, PTL DEF Spec, ScheduleHistoryGrows

\* A revoked integration, grant or credential never lives again; the signed
\* history of a schedule only grows; a sealed or canceled market keeps its
\* result.
THEOREM NothingRewritten == Spec => NothingIsRewritten
BY RevokedStay, HistoryGrows, SealedStay, PTL DEF NothingIsRewritten

-----------------------------------------------------------------------------
(* Where markets stand in the catalogue.  A save that is still on its way   *)
(* knows the entry it found, unless that entry was changed under it, and    *)
(* the save that made room on the front page is alone, unless saves raced.  *)

FoundAsTyped ==
    \A s \in Saving :
      saving[s].entry # NoEntry /\ ~saving[s].crossed =>
        /\ saving[s].entry \in Filed
        /\ entry[saving[s].entry].name = saving[s].name
        /\ ~entry[saving[s].entry].blocked

RoomIsListed == \A s \in Saving : saving[s].off \subseteq Listed \ {saving[s].listing}

MadeRoom(s) == s \in Saving /\ saving[s].featured /\ saving[s].ready

FrontPageInv ==
    ~raced =>
      /\ \E a, b \in Listings : Featured \subseteq {a, b}
      /\ \A s, t \in Savers : MadeRoom(s) /\ MadeRoom(t) => s = t
      /\ \A s \in Savers :
           MadeRoom(s) => \E k \in Listings :
             Featured \subseteq saving[s].off \cup {saving[s].listing, k}

CatalogueInv ==
    /\ CatalogueTypeOK /\ MarketsKeepTheirEntry /\ PlacedAsTyped /\ ApprovedPlaceStands
    /\ FoundAsTyped /\ RoomIsListed
    /\ Listings # {} => FrontPageInv

LEMMA CatalogueTypes ==
  ASSUME CatalogueInv
  PROVE  /\ NoEntry \notin Entries /\ NoEntry \notin EntryRow
         /\ NotApproved \notin ListingRow /\ NotApproved \notin Place
         /\ NotSaving \notin SaveRow
         /\ entry \in [Entries -> EntryRow \cup {NoEntry}]
         /\ listing \in [Listings -> ListingRow \cup {NotApproved}]
         /\ saving \in [Savers -> SaveRow \cup {NotSaving}]
         /\ \A e \in Filed : e \in Entries /\ entry[e] \in EntryRow
         /\ \A l \in Listed : l \in Listings /\ listing[l] \in ListingRow
         /\ \A s \in Saving : s \in Savers /\ saving[s] \in SaveRow
BY CatalogueAssumption DEF CatalogueInv, CatalogueTypeOK, Filed, Listed, Saving

\* The front page stays as it is: no market enters it and no save makes room.
LEMMA FrontPageKeeps ==
  ASSUME FrontPageInv, ~raced' => ~raced, Featured' \subseteq Featured,
         \A s \in Savers :
           MadeRoom(s)' => /\ MadeRoom(s)
                           /\ saving'[s].off = saving[s].off
                           /\ saving'[s].listing = saving[s].listing
  PROVE  FrontPageInv'
BY DEF FrontPageInv

\* What a step of a save leaves alone while no entry and no market changes.
LEMMA SavingKeeps ==
  ASSUME CatalogueInv, NEW s \in Savers, NEW q \in SaveRow \cup {NotSaving},
         saving' = [saving EXCEPT ![s] = q], q # NotSaving => q.off \subseteq Listed \ {q.listing},
         UNCHANGED <<entry, listing, displaced, moved>>
  PROVE  /\ CatalogueTypeOK' /\ MarketsKeepTheirEntry' /\ PlacedAsTyped' /\ ApprovedPlaceStands'
         /\ RoomIsListed'
         /\ Filed' = Filed /\ Listed' = Listed /\ Featured' = Featured
         /\ saving'[s] = q
         /\ \A t \in Savers \ {s} : saving'[t] = saving[t]
<1>1. Filed' = Filed /\ Listed' = Listed /\ Featured' = Featured
  BY DEF Filed, Listed, Featured
<1>2. /\ saving'[s] = q
      /\ \A t \in Savers \ {s} : saving'[t] = saving[t]
      /\ saving' \in [Savers -> SaveRow \cup {NotSaving}]
  BY CatalogueTypes
<1>3. CatalogueTypeOK'
  BY <1>1, <1>2 DEF CatalogueInv, CatalogueTypeOK
<1>4. RoomIsListed'
  BY <1>1, <1>2 DEF CatalogueInv, RoomIsListed, Saving
<1> QED BY <1>1, <1>2, <1>3, <1>4
        DEF CatalogueInv, MarketsKeepTheirEntry, PlacedAsTyped, ApprovedPlaceStands

\* An operator's save reads the entry of the name typed.
LEMMA BeginSaveKeeps ==
  ASSUME CatalogueInv, NEW s \in Savers, NEW l \in Listings, NEW n \in Labels,
         NEW f \in BOOLEAN, BeginSave(s, l, n, f)
  PROVE  CatalogueInv'
<1> DEFINE found == IF Named(n) = {} THEN NoEntry ELSE CHOOSE e \in Named(n) : TRUE
           q == [listing |-> l, name |-> n, entry |-> found, featured |-> f,
                 ready |-> ~f, off |-> {}, crossed |-> FALSE]
<1>1. /\ saving' = [saving EXCEPT ![s] = q] /\ Available(n)
      /\ UNCHANGED <<entry, listing, displaced, moved, raced>>
  BY DEF BeginSave
<1>2. \/ found = NoEntry
      \/ found \in Filed /\ entry[found].name = n /\ ~entry[found].blocked
  BY <1>1 DEF Named, Available
<1>3. found \in Entries \cup {NoEntry}
  BY <1>2, CatalogueTypes
<1> HIDE DEF found
<1>4. q \in SaveRow
  BY <1>3 DEF SaveRow
<1>5. /\ q.entry = found /\ q.name = n /\ q.featured = f /\ q.ready = ~f /\ q.off = {}
      /\ q # NotSaving
  BY <1>4, CatalogueTypes
<1> HIDE DEF q
<1>6. /\ CatalogueTypeOK' /\ MarketsKeepTheirEntry' /\ PlacedAsTyped' /\ ApprovedPlaceStands'
      /\ RoomIsListed'
      /\ Filed' = Filed /\ Listed' = Listed /\ Featured' = Featured
      /\ saving'[s] = q
      /\ \A t \in Savers \ {s} : saving'[t] = saving[t]
  BY <1>1, <1>4, <1>5, SavingKeeps
<1>7. FoundAsTyped'
  BY <1>1, <1>2, <1>5, <1>6 DEF CatalogueInv, FoundAsTyped, Saving
<1>8. \A t \in Savers : MadeRoom(t)' => t # s
  BY <1>5, <1>6 DEF MadeRoom
<1>9. \A t \in Savers : MadeRoom(t)' => MadeRoom(t) /\ saving'[t] = saving[t]
  BY <1>6, <1>8 DEF MadeRoom, Saving
<1>10. Listings # {} => FrontPageInv'
  BY <1>1, <1>6, <1>9, FrontPageKeeps DEF CatalogueInv
<1> QED BY <1>6, <1>7, <1>10 DEF CatalogueInv

\* It decides who leaves the front page.
LEMMA MakeRoomKeeps ==
  ASSUME CatalogueInv, NEW s \in Savers, MakeRoom(s)
  PROVE  CatalogueInv'
<1> DEFINE q == saving[s]
<1>1. PICK kept \in IF Featured \subseteq {q.listing} THEN {q.listing} ELSE Featured \ {q.listing} :
        saving' = [saving EXCEPT ![s] = [q EXCEPT !.ready = TRUE, !.off = Leaving(q.listing, kept)]]
  BY DEF MakeRoom
<1>2. /\ UNCHANGED <<entry, listing, displaced, moved>> /\ Featured \subseteq Listed
      /\ raced' = (raced \/ \E t \in Saving : saving[t].featured /\ saving[t].ready)
      /\ s \in Saving /\ q \in SaveRow /\ Featured \subseteq Listings
  BY CatalogueTypes DEF MakeRoom, Featured
<1>3. /\ kept \in Listings /\ Leaving(q.listing, kept) \in SUBSET Listings
      /\ Leaving(q.listing, kept) \subseteq Listed \ {q.listing}
  BY <1>2 DEF Leaving, SaveRow
<1> DEFINE off == Leaving(q.listing, kept)
<1>4. Featured \subseteq off \cup {q.listing, kept}
  BY DEF Leaving
<1> HIDE DEF q, off
<1> DEFINE new == [q EXCEPT !.ready = TRUE, !.off = off]
<1>5. /\ new \in SaveRow /\ new.entry = q.entry /\ new.name = q.name /\ new.crossed = q.crossed
      /\ new.listing = q.listing /\ new.off = off /\ new # NotSaving
  BY <1>2, <1>3, CatalogueTypes DEF SaveRow, off
<1>6. saving' = [saving EXCEPT ![s] = new]
  BY <1>1 DEF off
<1> HIDE DEF new
<1>7. /\ CatalogueTypeOK' /\ MarketsKeepTheirEntry' /\ PlacedAsTyped' /\ ApprovedPlaceStands'
      /\ RoomIsListed'
      /\ Filed' = Filed /\ Listed' = Listed /\ Featured' = Featured
      /\ saving'[s] = new
      /\ \A t \in Savers \ {s} : saving'[t] = saving[t]
  <2>1. new.off \subseteq Listed \ {new.listing}
    BY <1>3, <1>5 DEF off
  <2>2. UNCHANGED <<entry, listing, displaced, moved>> /\ new \in SaveRow
    BY <1>2, <1>5
  <2> QED BY <1>6, <2>1, <2>2, SavingKeeps
<1>8. FoundAsTyped'
  BY <1>2, <1>5, <1>7 DEF CatalogueInv, FoundAsTyped, Saving, q
<1>9. ASSUME Listings # {}, ~raced'
      PROVE  /\ \E a, b \in Listings : Featured' \subseteq {a, b}
             /\ \A t, u \in Savers : MadeRoom(t)' /\ MadeRoom(u)' => t = u
             /\ \A t \in Savers :
                  MadeRoom(t)' => \E k \in Listings :
                    Featured' \subseteq saving'[t].off \cup {saving'[t].listing, k}
  <2>1. \A t \in Savers : ~MadeRoom(t)
    BY <1>2, <1>9 DEF MadeRoom
  <2>2. \A t \in Savers : MadeRoom(t)' => t = s
    BY <1>7, <2>1 DEF MadeRoom, Saving
  <2>3. \E a, b \in Listings : Featured \subseteq {a, b}
    BY <1>2, <1>9 DEF CatalogueInv, FrontPageInv
  <2> QED BY <1>3, <1>4, <1>5, <1>7, <2>2, <2>3
<1> QED BY <1>7, <1>8, <1>9 DEF CatalogueInv, FrontPageInv

\* A save that fails leaves no trace.
LEMMA SaveFailsKeeps ==
  ASSUME CatalogueInv, NEW s \in Savers, SaveFails(s)
  PROVE  CatalogueInv'
<1>1. /\ saving' = [saving EXCEPT ![s] = NotSaving]
      /\ UNCHANGED <<entry, listing, displaced, moved, raced>>
  BY DEF SaveFails
<1>2. /\ CatalogueTypeOK' /\ MarketsKeepTheirEntry' /\ PlacedAsTyped' /\ ApprovedPlaceStands'
      /\ RoomIsListed'
      /\ Filed' = Filed /\ Listed' = Listed /\ Featured' = Featured
      /\ saving'[s] = NotSaving
      /\ \A t \in Savers \ {s} : saving'[t] = saving[t]
  BY <1>1, SavingKeeps
<1>3. \A t \in Saving' : t \in Saving /\ saving'[t] = saving[t]
  BY <1>2 DEF Saving
<1>4. FoundAsTyped'
  BY <1>1, <1>2, <1>3 DEF CatalogueInv, FoundAsTyped
<1>5. \A t \in Savers : MadeRoom(t)' => MadeRoom(t) /\ saving'[t] = saving[t]
  BY <1>3 DEF MadeRoom
<1>6. Listings # {} => FrontPageInv'
  BY <1>1, <1>2, <1>5, FrontPageKeeps DEF CatalogueInv
<1> QED BY <1>2, <1>4, <1>6 DEF CatalogueInv

\* The running saves after a change of entry e: those that found e know.
LEMMA CrossedRows ==
  ASSUME CatalogueInv, NEW e
  PROVE  /\ Crossed(e) \in [Savers -> SaveRow \cup {NotSaving}]
         /\ \A s \in Savers \ Saving : Crossed(e)[s] = NotSaving
         /\ \A s \in Saving : LET q == Crossed(e)[s] IN
              /\ q \in SaveRow
              /\ q.listing = saving[s].listing /\ q.name = saving[s].name
              /\ q.entry = saving[s].entry /\ q.featured = saving[s].featured
              /\ q.ready = saving[s].ready /\ q.off = saving[s].off
              /\ q.crossed = (saving[s].crossed \/ saving[s].entry = e)
<1>1. ASSUME NEW s \in Saving
      PROVE  LET q == Crossed(e)[s] IN
             /\ q \in SaveRow
             /\ q.listing = saving[s].listing /\ q.name = saving[s].name
             /\ q.entry = saving[s].entry /\ q.featured = saving[s].featured
             /\ q.ready = saving[s].ready /\ q.off = saving[s].off
             /\ q.crossed = (saving[s].crossed \/ saving[s].entry = e)
  <2>1. s \in Savers /\ saving[s] \in SaveRow
    BY CatalogueTypes
  <2>2. CASE saving[s].entry = e
    <3>1. Crossed(e)[s] = [saving[s] EXCEPT !.crossed = TRUE]
      BY <2>1, <2>2 DEF Crossed
    <3>2. Crossed(e)[s] \in SaveRow
      BY <2>1, <3>1 DEF SaveRow
    <3> QED BY <2>1, <2>2, <3>1, <3>2 DEF SaveRow
  <2>3. CASE saving[s].entry # e
    <3>1. Crossed(e)[s] = saving[s]
      BY <2>1, <2>3 DEF Crossed
    <3> QED BY <2>1, <2>3, <3>1 DEF SaveRow
  <2> QED BY <2>2, <2>3
<1>2. \A s \in Savers \ Saving : Crossed(e)[s] = NotSaving
  BY DEF Crossed, Saving
<1>3. Crossed(e) = [s \in Savers |-> Crossed(e)[s]]
  BY DEF Crossed
<1> QED BY <1>1, <1>2, <1>3

\* The entries after entry e became row, whose slug no other has.
LEMMA EntryRows ==
  ASSUME CatalogueInv, NEW e \in Entries, NEW row \in EntryRow \cup {NoEntry},
         entry' = [entry EXCEPT ![e] = row],
         row # NoEntry => \A f \in Filed \ {e} : entry[f].slug # row.slug
  PROVE  /\ entry' \in [Entries -> EntryRow \cup {NoEntry}]
         /\ entry'[e] = row
         /\ \A f \in Entries \ {e} : entry'[f] = entry[f]
         /\ \A f, g \in Entries :
              entry'[f] # NoEntry /\ entry'[g] # NoEntry /\ entry'[f].slug = entry'[g].slug => f = g
<1>1. /\ entry' \in [Entries -> EntryRow \cup {NoEntry}]
      /\ entry'[e] = row
      /\ \A f \in Entries \ {e} : entry'[f] = entry[f]
  BY CatalogueTypes
<1>2. ASSUME NEW f \in Entries, NEW g \in Entries, entry'[f] # NoEntry, entry'[g] # NoEntry,
             entry'[f].slug = entry'[g].slug
      PROVE  f = g
  <2>1. CASE f = e \/ g = e
    BY <1>1, <1>2, <2>1 DEF Filed
  <2>2. CASE f # e /\ g # e
    BY <1>1, <1>2, <2>2 DEF CatalogueInv, CatalogueTypeOK, Filed
  <2> QED BY <2>1, <2>2
<1> QED BY <1>1, <1>2

\* A change of an entry by the taxonomy's own handlers.
LEMMA ChangeKeeps ==
  ASSUME CatalogueInv, NEW e \in Entries, NEW row \in EntryRow \cup {NoEntry}, Change(e, row),
         row # NoEntry => \A f \in Filed \ {e} : entry[f].slug # row.slug,
         row = NoEntry => OnEntry(e) = {}
  PROVE  CatalogueInv'
<1>1. /\ entry' = [entry EXCEPT ![e] = row] /\ moved' = moved \cup OnEntry(e)
      /\ saving' = Crossed(e) /\ UNCHANGED <<listing, displaced, raced>>
  BY DEF Change
<1>2. /\ entry' \in [Entries -> EntryRow \cup {NoEntry}]
      /\ entry'[e] = row
      /\ \A f \in Entries \ {e} : entry'[f] = entry[f]
      /\ \A f, g \in Entries :
           entry'[f] # NoEntry /\ entry'[g] # NoEntry /\ entry'[f].slug = entry'[g].slug => f = g
  BY <1>1, EntryRows
<1>3. Listed' = Listed /\ Featured' = Featured
  BY <1>1 DEF Listed, Featured
<1>4. /\ saving' \in [Savers -> SaveRow \cup {NotSaving}] /\ Saving' = Saving
      /\ \A s \in Saving :
           /\ saving'[s].listing = saving[s].listing /\ saving'[s].name = saving[s].name
           /\ saving'[s].entry = saving[s].entry /\ saving'[s].featured = saving[s].featured
           /\ saving'[s].ready = saving[s].ready /\ saving'[s].off = saving[s].off
           /\ saving'[s].crossed = (saving[s].crossed \/ saving[s].entry = e)
  BY <1>1, CrossedRows, CatalogueTypes DEF Saving
<1>5. CatalogueTypeOK'
  BY <1>1, <1>2, <1>4 DEF CatalogueInv, CatalogueTypeOK, Filed
<1>6. ASSUME NEW l \in Listed
      PROVE  /\ listing'[l].place.entry \in Filed'
             /\ l \notin moved' => listing[l].place.entry # e /\ l \notin moved
  <2>1. listing[l].place.entry \in Filed
    BY DEF CatalogueInv, MarketsKeepTheirEntry
  <2>2. listing[l].place.entry = e => l \in OnEntry(e)
    BY DEF OnEntry
  <2> QED BY <1>1, <1>2, <2>1, <2>2 DEF Filed
<1>7. MarketsKeepTheirEntry' /\ PlacedAsTyped'
  BY <1>1, <1>2, <1>3, <1>6 DEF CatalogueInv, MarketsKeepTheirEntry, PlacedAsTyped, Filed
<1>8. FoundAsTyped' /\ RoomIsListed'
  <2>1. ASSUME NEW s \in Saving, saving[s].entry # NoEntry, ~saving'[s].crossed
        PROVE  LET f == saving[s].entry IN
               f \in Filed' /\ entry'[f].name = saving[s].name /\ ~entry'[f].blocked
    <3>1. saving[s].entry # e /\ ~saving[s].crossed
      BY <1>4, <2>1
    <3> QED BY <1>2, <2>1, <3>1 DEF CatalogueInv, FoundAsTyped, Filed
  <2>2. FoundAsTyped'
    BY <1>4, <2>1 DEF FoundAsTyped
  <2>3. RoomIsListed'
    BY <1>3, <1>4 DEF CatalogueInv, RoomIsListed
  <2> QED BY <2>2, <2>3
<1>9. Listings # {} => FrontPageInv'
  BY <1>1, <1>3, <1>4, FrontPageKeeps DEF CatalogueInv, MadeRoom
<1>10. ApprovedPlaceStands'
  BY <1>1, <1>3 DEF CatalogueInv, ApprovedPlaceStands
<1> QED BY <1>5, <1>7, <1>8, <1>9, <1>10 DEF CatalogueInv

\* Markets saved, approved or canceled one at a time.
LEMMA ListingKeeps ==
  ASSUME CatalogueInv, NEW l \in Listed, NEW row \in ListingRow,
         listing' = [listing EXCEPT ![l] = row], UNCHANGED <<entry, saving, raced>>,
         displaced' = displaced \ {l}, moved' \in {moved, moved \ {l}},
         row.place.entry \in Filed,
         l \notin moved' => /\ entry[row.place.entry].name = row.named
                            /\ ~entry[row.place.entry].blocked,
         row.approved # NotApproved => row.approved = row.place,
         row.place.featured => listing[l].place.featured
  PROVE  CatalogueInv'
<1>1. /\ listing' \in [Listings -> ListingRow \cup {NotApproved}]
      /\ listing'[l] = row /\ row # NotApproved /\ l \in Listings
      /\ \A k \in Listings \ {l} : listing'[k] = listing[k]
  BY CatalogueTypes
<1>2. Listed' = Listed /\ Filed' = Filed /\ Saving' = Saving
  BY <1>1 DEF Listed, Filed, Saving
<1>3. Featured' \subseteq Featured
  BY <1>1, <1>2 DEF Featured, Listed
<1>4. CatalogueTypeOK'
  BY <1>1, <1>2 DEF CatalogueInv, CatalogueTypeOK
<1>5. MarketsKeepTheirEntry' /\ PlacedAsTyped' /\ ApprovedPlaceStands'
  BY <1>1, <1>2 DEF CatalogueInv, MarketsKeepTheirEntry, PlacedAsTyped, ApprovedPlaceStands, Listed
<1>6. FoundAsTyped' /\ RoomIsListed'
  BY <1>2 DEF CatalogueInv, FoundAsTyped, RoomIsListed
<1>7. Listings # {} => FrontPageInv'
  BY <1>2, <1>3, FrontPageKeeps DEF CatalogueInv, MadeRoom
<1> QED BY <1>4, <1>5, <1>6, <1>7 DEF CatalogueInv

LEMMA AgentSaveKeeps ==
  ASSUME CatalogueInv, NEW l \in Listings, NEW e \in Entries, AgentSave(l, e)
  PROVE  CatalogueInv'
<1> DEFINE place == [listing[l].place EXCEPT !.entry = e]
           row == [listing[l] EXCEPT
                     !.place = place, !.named = entry[e].name, !.approved = NotApproved]
<1>1. /\ l \in Listed /\ listing[l] \in ListingRow /\ e \in Filed /\ entry[e] \in EntryRow
      /\ ~entry[e].blocked
      /\ displaced' = displaced \ {l} /\ moved' = moved \ {l} /\ UNCHANGED <<entry, saving, raced>>
  BY CatalogueTypes DEF AgentSave
<1>2. place \in Place /\ place.entry = e /\ place.featured = listing[l].place.featured
  BY <1>1 DEF ListingRow, Place
<1>3. listing' = [listing EXCEPT ![l] = row]
  BY <1>1 DEF AgentSave, ListingRow
<1> HIDE DEF place
<1>4. /\ row \in ListingRow /\ row.place = place /\ row.named = entry[e].name
      /\ row.approved = NotApproved
  BY <1>1, <1>2 DEF ListingRow, EntryRow
<1> HIDE DEF row
<1> QED BY <1>1, <1>2, <1>3, <1>4, ListingKeeps

LEMMA ApproveKeeps ==
  ASSUME CatalogueInv, NEW l \in Listings, Approve(l)
  PROVE  CatalogueInv'
<1> DEFINE row == [listing[l] EXCEPT !.approved = listing[l].place]
<1>1. /\ l \in Listed /\ listing[l] \in ListingRow /\ listing' = [listing EXCEPT ![l] = row]
      /\ displaced' = displaced \ {l} /\ UNCHANGED <<entry, saving, raced, moved>>
  BY CatalogueTypes DEF Approve
<1>2. /\ row \in ListingRow /\ row.place = listing[l].place /\ row.named = listing[l].named
      /\ row.approved = row.place
  BY <1>1 DEF ListingRow
<1> HIDE DEF row
<1>3. /\ listing[l].place.entry \in Filed
      /\ l \notin moved => /\ entry[listing[l].place.entry].name = listing[l].named
                           /\ ~entry[listing[l].place.entry].blocked
  BY <1>1 DEF CatalogueInv, MarketsKeepTheirEntry, PlacedAsTyped
<1> QED BY <1>1, <1>2, <1>3, ListingKeeps

LEMMA CancelListingKeeps ==
  ASSUME CatalogueInv, NEW l \in Listings, CancelListing(l)
  PROVE  CatalogueInv'
<1> DEFINE place == [listing[l].place EXCEPT !.featured = FALSE]
           off == [listing[l] EXCEPT !.place = place]
           row == [off EXCEPT !.approved = NotApproved]
<1>1. /\ l \in Listed /\ listing[l] \in ListingRow
      /\ listing' = [listing EXCEPT ![l] = row]
      /\ displaced' = displaced \ {l} /\ UNCHANGED <<entry, saving, raced, moved>>
  BY CatalogueTypes DEF CancelListing, OffFrontPage, Featured, ListingRow
<1>2. place \in Place /\ place.entry = listing[l].place.entry /\ place.featured = FALSE
  BY <1>1 DEF ListingRow, Place
<1> HIDE DEF place
<1>3. off \in ListingRow /\ off.place = place /\ off.named = listing[l].named
  BY <1>1, <1>2 DEF ListingRow
<1> HIDE DEF off
<1>4. /\ row \in ListingRow /\ row.place = place /\ row.named = listing[l].named
      /\ row.approved = NotApproved
  BY <1>3 DEF ListingRow
<1> HIDE DEF row
<1>5. /\ listing[l].place.entry \in Filed
      /\ l \notin moved => /\ entry[listing[l].place.entry].name = listing[l].named
                           /\ ~entry[listing[l].place.entry].blocked
  BY <1>1 DEF CatalogueInv, MarketsKeepTheirEntry, PlacedAsTyped
<1> QED BY <1>1, <1>2, <1>4, <1>5, ListingKeeps

\* The taxonomy's own handlers.
LEMMA TaxonomyKeeps ==
  ASSUME CatalogueInv,
         \/ \E n, g \in Labels : CreateEntry(n, g)
         \/ \E e \in Entries, n, g \in Labels : UpdateEntry(e, n, g)
         \/ \E e \in Entries, b \in BOOLEAN : SwitchEntry(e, b)
         \/ \E e \in Entries : DeleteEntry(e)
  PROVE  CatalogueInv'
<1>1. ASSUME NEW e \in Filed
      PROVE  /\ e \in Entries /\ entry[e] \in EntryRow
             /\ \A f \in Filed \ {e} : entry[f].slug # entry[e].slug
  BY CatalogueTypes DEF CatalogueInv, CatalogueTypeOK
<1>2. ASSUME NEW n \in Labels, NEW g \in Labels, CreateEntry(n, g) PROVE CatalogueInv'
  <2> DEFINE owner == {e \in Filed : entry[e].slug = g}
  <2>1. PICK e \in IF owner = {} THEN Entries \ Filed ELSE owner :
          Change(e, [name |-> n, slug |-> g, blocked |-> e \in owner /\ entry[e].blocked])
    BY <1>2 DEF CreateEntry
  <2> DEFINE row == [name |-> n, slug |-> g, blocked |-> e \in owner /\ entry[e].blocked]
  <2>2. e \in Entries /\ \A f \in Filed \ {e} : entry[f].slug # g
    BY <1>1, <2>1 DEF Filed
  <2>3. e \in owner => entry[e].blocked \in BOOLEAN
    BY <1>1 DEF EntryRow
  <2>4. (e \in owner /\ entry[e].blocked) \in BOOLEAN
    BY <2>3
  <2>5. row \in EntryRow /\ row.slug = g
    BY <2>4 DEF EntryRow
  <2>6. row # NoEntry
    BY <2>5, CatalogueTypes
  <2> HIDE DEF row
  <2>7. Change(e, row)
    BY <2>1 DEF row
  <2> QED BY <2>2, <2>5, <2>6, <2>7, ChangeKeeps
<1>3. ASSUME NEW e \in Entries, NEW n \in Labels, NEW g \in Labels, UpdateEntry(e, n, g)
      PROVE  CatalogueInv'
  <2> DEFINE row == [entry[e] EXCEPT !.name = n, !.slug = g]
  <2>1. e \in Filed /\ Change(e, row) /\ \A f \in Filed \ {e} : entry[f].slug # g
    BY <1>3 DEF UpdateEntry, SlugTaken
  <2>2. row \in EntryRow /\ row.slug = g
    BY <1>1, <2>1 DEF EntryRow
  <2>3. row # NoEntry
    BY <2>2, CatalogueTypes
  <2> HIDE DEF row
  <2> QED BY <2>1, <2>2, <2>3, ChangeKeeps
<1>4. ASSUME NEW e \in Entries, NEW b \in BOOLEAN, SwitchEntry(e, b) PROVE CatalogueInv'
  <2> DEFINE row == [entry[e] EXCEPT !.blocked = b]
  <2>1. e \in Filed /\ Change(e, row)
    BY <1>4 DEF SwitchEntry
  <2>2. row \in EntryRow /\ row.slug = entry[e].slug
    BY <1>1, <2>1 DEF EntryRow
  <2>3. row # NoEntry
    BY <2>2, CatalogueTypes
  <2> HIDE DEF row
  <2> QED BY <1>1, <2>1, <2>2, <2>3, ChangeKeeps
<1>5. ASSUME NEW e \in Entries, DeleteEntry(e) PROVE CatalogueInv'
  BY <1>5, ChangeKeeps DEF DeleteEntry
<1> QED BY <1>2, <1>3, <1>4, <1>5

\* What a committed save did to the entries.
LEMMA PlacedEntry ==
  ASSUME CatalogueInv, NEW s \in Saving, NEW p \in Placed(saving[s]), entry' = p[2],
         saving[s].entry = p[1] \/ ~p[2][p[1]].blocked
  PROVE  /\ p[1] \in Entries
         /\ entry' \in [Entries -> EntryRow \cup {NoEntry}]
         /\ entry'[p[1]] # NoEntry
         /\ \A f \in Entries \ {p[1]} : entry'[f] = entry[f]
         /\ \A f, g \in Entries :
              entry'[f] # NoEntry /\ entry'[g] # NoEntry /\ entry'[f].slug = entry'[g].slug => f = g
         /\ ~saving[s].crossed =>
              entry'[p[1]].name = saving[s].name /\ ~entry'[p[1]].blocked
<1> DEFINE q == saving[s]
           owner == {e \in Filed : entry[e].slug = q.name}
<1>0. /\ q \in SaveRow /\ q.name \in Labels
      /\ \A f, g \in Filed : entry[f].slug = entry[g].slug => f = g
  BY CatalogueTypes DEF SaveRow, CatalogueInv, CatalogueTypeOK
<1>1. CASE q.entry # NoEntry
  <2>1. p[1] = q.entry /\ p[2] = entry /\ q.entry \in Filed
    BY <1>1 DEF Placed
  <2>2. ~q.crossed => entry[q.entry].name = q.name /\ ~entry[q.entry].blocked
    BY <1>1 DEF CatalogueInv, FoundAsTyped
  <2> QED BY <1>0, <2>1, <2>2, CatalogueTypes DEF Filed
<1>2. CASE q.entry = NoEntry /\ owner # {}
  <2>1. PICK e \in owner : p = <<e, [entry EXCEPT ![e].name = q.name]>>
    BY <1>2 DEF Placed, Upserted
  <2> DEFINE row == [entry[e] EXCEPT !.name = q.name]
  <2>2. e \in Entries /\ e \in Filed /\ p[1] = e /\ entry' = [entry EXCEPT ![e] = row]
    BY <2>1, CatalogueTypes
  <2>3. row \in EntryRow /\ row.slug = q.name /\ row.name = q.name
    BY <1>0, <2>1, <2>2, CatalogueTypes DEF EntryRow
  <2>4. \A f \in Filed \ {e} : entry[f].slug # row.slug
    BY <1>0, <2>1, <2>3
  <2>5. row # NoEntry
    BY <2>3, CatalogueTypes
  <2> HIDE DEF row
  <2>6. /\ entry' \in [Entries -> EntryRow \cup {NoEntry}]
        /\ entry'[e] = row
        /\ \A f \in Entries \ {e} : entry'[f] = entry[f]
        /\ \A f, g \in Entries :
             entry'[f] # NoEntry /\ entry'[g] # NoEntry /\ entry'[f].slug = entry'[g].slug => f = g
    BY <2>2, <2>3, <2>4, EntryRows
  <2>7. q.entry # e
    BY <1>2, <2>2, CatalogueTypes
  <2> QED BY <2>2, <2>3, <2>5, <2>6, <2>7
<1>3. CASE q.entry = NoEntry /\ owner = {}
  <2> DEFINE row == [name |-> q.name, slug |-> q.name, blocked |-> FALSE]
  <2>1. PICK e \in Entries \ Filed : p = <<e, [entry EXCEPT ![e] = row]>>
    BY <1>3 DEF Placed, Upserted
  <2>2. p[1] = e /\ entry' = [entry EXCEPT ![e] = row]
    BY <2>1
  <2>3. row \in EntryRow /\ row.slug = q.name /\ row.name = q.name /\ row.blocked = FALSE
    BY <1>0 DEF EntryRow
  <2>4. \A f \in Filed \ {e} : entry[f].slug # row.slug
    BY <1>3, <2>3
  <2>5. row # NoEntry
    BY <2>3, CatalogueTypes
  <2> HIDE DEF row
  <2>6. /\ entry' \in [Entries -> EntryRow \cup {NoEntry}]
        /\ entry'[e] = row
        /\ \A f \in Entries \ {e} : entry'[f] = entry[f]
        /\ \A f, g \in Entries :
             entry'[f] # NoEntry /\ entry'[g] # NoEntry /\ entry'[f].slug = entry'[g].slug => f = g
    BY <2>2, <2>3, <2>4, EntryRows
  <2> QED BY <2>1, <2>2, <2>3, <2>5, <2>6
<1> QED BY <1>1, <1>2, <1>3

\* A market taken off the front page.
LEMMA OffFrontPageRow ==
  ASSUME NEW l \in Listings, listing[l] \in ListingRow
  PROVE  /\ OffFrontPage(l) \in ListingRow
         /\ OffFrontPage(l).place.entry = listing[l].place.entry
         /\ ~OffFrontPage(l).place.featured
         /\ OffFrontPage(l).approved = listing[l].approved
         /\ OffFrontPage(l).named = listing[l].named
<1> DEFINE place == [listing[l].place EXCEPT !.featured = FALSE]
           off == [listing[l] EXCEPT !.place = place]
<1>1. place \in Place /\ place.entry = listing[l].place.entry /\ place.featured = FALSE
  BY DEF ListingRow, Place
<1>2. OffFrontPage(l) = off
  BY DEF OffFrontPage, ListingRow
<1> HIDE DEF place
<1>3. /\ off \in ListingRow /\ off.place = place /\ off.named = listing[l].named
      /\ off.approved = listing[l].approved
  BY <1>1 DEF ListingRow
<1> HIDE DEF off
<1> QED BY <1>1, <1>2, <1>3

\* The operator's save is committed.
LEMMA FinishSaveKeeps ==
  ASSUME CatalogueInv, NEW s \in Savers, FinishSave(s)
  PROVE  CatalogueInv'
<1> DEFINE q == saving[s]
<1>1. PICK p \in Placed(q) :
        /\ entry' = p[2]
        /\ q.entry = p[1] \/ ~p[2][p[1]].blocked
        /\ listing' = [l \in Listings |->
             CASE l = q.listing -> Saved(q, p[1])
               [] l \in q.off -> OffFrontPage(l)
               [] OTHER -> listing[l]]
        /\ LET also == IF p[2] = entry THEN moved ELSE moved \cup OnEntry(p[1])
           IN  moved' = IF q.crossed THEN also \cup {q.listing} ELSE also \ {q.listing}
        /\ saving' = [(IF p[2] = entry THEN saving ELSE Crossed(p[1])) EXCEPT ![s] = NotSaving]
  BY DEF FinishSave
<1> DEFINE e == p[1]
           mine == q.listing
           saved == Saved(q, e)
<1>2. /\ s \in Saving /\ q.ready /\ UNCHANGED raced
      /\ displaced' = (displaced \ {mine}) \cup {l \in q.off : listing[l].approved # NotApproved}
      /\ q \in SaveRow /\ mine \in Listings /\ q.name \in Labels /\ q.featured \in BOOLEAN
  BY CatalogueTypes DEF FinishSave, SaveRow
<1>3. /\ e \in Entries
      /\ entry' \in [Entries -> EntryRow \cup {NoEntry}]
      /\ entry'[e] # NoEntry
      /\ \A f \in Entries \ {e} : entry'[f] = entry[f]
      /\ \A f, g \in Entries :
           entry'[f] # NoEntry /\ entry'[g] # NoEntry /\ entry'[f].slug = entry'[g].slug => f = g
      /\ ~q.crossed => entry'[e].name = q.name /\ ~entry'[e].blocked
  BY <1>1, <1>2, PlacedEntry
<1>4. /\ saved \in ListingRow /\ saved.place.entry = e /\ saved.place.featured = q.featured
      /\ saved.named = q.name /\ saved.approved = NotApproved
  BY <1>2, <1>3 DEF Saved, ListingRow, Place
<1>5. listing'[mine] = saved
  <2> HIDE DEF saved
  <2>1. mine \in Listings /\ mine \notin q.off /\ saved = Saved(q, p[1])
    BY <1>2 DEF saved, CatalogueInv, RoomIsListed
  <2> QED BY <1>1, <2>1
<1>6. ASSUME NEW l \in q.off, l # mine
      PROVE  /\ l \in Listed /\ listing'[l] = OffFrontPage(l) /\ listing'[l] \in ListingRow
             /\ listing'[l].place.entry = listing[l].place.entry
             /\ ~listing'[l].place.featured
             /\ listing'[l].approved = listing[l].approved
             /\ listing'[l].named = listing[l].named
  <2>1. l \in Listed
    BY <1>2, <1>6 DEF CatalogueInv, RoomIsListed
  <2>2. l \in Listings /\ listing[l] \in ListingRow
    BY <2>1, CatalogueTypes
  <2>3. listing'[l] = OffFrontPage(l)
    BY <1>1, <1>6, <2>2
  <2> QED BY <2>1, <2>2, <2>3, OffFrontPageRow
<1>7. ASSUME NEW l \in Listings, l # mine, l \notin q.off
      PROVE  listing'[l] = listing[l]
  BY <1>1, <1>7
<1> DEFINE also == IF entry' = entry THEN moved ELSE moved \cup OnEntry(e)
           base == IF entry' = entry THEN saving ELSE Crossed(e)
<1>8. /\ moved' = IF q.crossed THEN also \cup {mine} ELSE also \ {mine}
      /\ saving' = [base EXCEPT ![s] = NotSaving]
  BY <1>1
<1>9. /\ base \in [Savers -> SaveRow \cup {NotSaving}]
      /\ \A t \in Savers \ Saving : base[t] = NotSaving
      /\ \A t \in Saving :
           /\ base[t] # NotSaving
           /\ base[t].listing = saving[t].listing /\ base[t].name = saving[t].name
           /\ base[t].entry = saving[t].entry /\ base[t].featured = saving[t].featured
           /\ base[t].ready = saving[t].ready /\ base[t].off = saving[t].off
           /\ base[t].crossed \/ entry' = entry \/ saving[t].entry # e
           /\ saving[t].crossed => base[t].crossed
  <2>1. CASE entry' = entry
    BY <2>1, CatalogueTypes DEF Saving
  <2>2. CASE entry' # entry
    <3>1. base = Crossed(e)
      BY <2>2
    <3> HIDE DEF base, e
    <3>2. /\ base \in [Savers -> SaveRow \cup {NotSaving}]
          /\ \A t \in Savers \ Saving : base[t] = NotSaving
      BY <3>1, CrossedRows
    <3>3. ASSUME NEW t \in Saving
          PROVE  /\ base[t] \in SaveRow
                 /\ base[t].listing = saving[t].listing /\ base[t].name = saving[t].name
                 /\ base[t].entry = saving[t].entry /\ base[t].featured = saving[t].featured
                 /\ base[t].ready = saving[t].ready /\ base[t].off = saving[t].off
                 /\ base[t].crossed = (saving[t].crossed \/ saving[t].entry = e)
      BY <3>1, CrossedRows
    <3> QED BY <3>2, <3>3, CatalogueTypes
  <2> QED BY <2>1, <2>2
<1> HIDE DEF base, saved, q, e
<1>10. /\ saving' \in [Savers -> SaveRow \cup {NotSaving}]
       /\ Saving' = Saving \ {s}
       /\ \A t \in Savers \ {s} : saving'[t] = base[t]
  BY <1>2, <1>8, <1>9 DEF Saving
<1>11. Filed' = Filed \cup {e}
  BY <1>3 DEF Filed
<1>12. listing' \in [Listings -> ListingRow \cup {NotApproved}]
  <2>1. listing' = [l \in Listings |-> listing'[l]]
    BY <1>1
  <2>2. \A l \in Listings : listing'[l] \in ListingRow \cup {NotApproved}
    BY <1>4, <1>5, <1>6, <1>7, CatalogueTypes
  <2> QED BY <2>1, <2>2
<1>13. Listed' = Listed \cup {mine}
  BY <1>2, <1>4, <1>5, <1>6, <1>7, CatalogueTypes DEF Listed
<1>14. CatalogueTypeOK'
  BY <1>3, <1>10, <1>12 DEF CatalogueTypeOK, Filed
<1>15. ASSUME NEW l \in Listed, l # mine
       PROVE  /\ listing'[l].place.entry = listing[l].place.entry
              /\ listing'[l].named = listing[l].named
              /\ listing'[l].approved = listing[l].approved
              /\ listing'[l].place.featured => listing[l].place.featured /\ l \notin q.off
  BY <1>6, <1>7, <1>15, CatalogueTypes
<1>16. MarketsKeepTheirEntry'
  BY <1>4, <1>5, <1>11, <1>13, <1>15 DEF CatalogueInv, MarketsKeepTheirEntry
<1>17. PlacedAsTyped'
  <2>1. ASSUME NEW l \in Listed, l # mine, l \notin moved'
        PROVE  /\ entry'[listing[l].place.entry].name = listing[l].named
               /\ ~entry'[listing[l].place.entry].blocked
    <3>1. l \notin moved /\ (entry' = entry \/ listing[l].place.entry # e)
      BY <1>8, <2>1 DEF OnEntry
    <3>2. listing[l].place.entry \in Entries
      BY CatalogueTypes DEF CatalogueInv, MarketsKeepTheirEntry
    <3>3. entry'[listing[l].place.entry] = entry[listing[l].place.entry]
      BY <1>3, <3>1, <3>2
    <3> QED BY <3>1, <3>3 DEF CatalogueInv, PlacedAsTyped
  <2>2. mine \notin moved' => entry'[e].name = q.name /\ ~entry'[e].blocked
    BY <1>3, <1>8
  <2> QED BY <1>4, <1>5, <1>13, <1>15, <2>1, <2>2 DEF PlacedAsTyped
<1>18. ApprovedPlaceStands'
  <2>1. ASSUME NEW l \in Listed, l # mine, l \notin displaced', listing'[l].approved # NotApproved
        PROVE  listing'[l] = listing[l] /\ l \notin displaced
    BY <1>2, <1>6, <1>7, <2>1, CatalogueTypes
  <2> QED BY <1>4, <1>5, <1>13, <2>1 DEF CatalogueInv, ApprovedPlaceStands
<1>19. FoundAsTyped' /\ RoomIsListed'
  <2>1. ASSUME NEW t \in Saving, t # s, saving[t].entry # NoEntry, ~saving'[t].crossed
        PROVE  LET f == saving[t].entry IN
               f \in Filed' /\ entry'[f].name = saving[t].name /\ ~entry'[f].blocked
    <3>1. t \in Savers /\ saving'[t] = base[t]
      BY <1>10, <2>1, CatalogueTypes
    <3>2. ~saving[t].crossed /\ (entry' = entry \/ saving[t].entry # e)
      BY <1>9, <2>1, <3>1
    <3>3. saving[t].entry \in Filed
      BY <2>1, <3>2 DEF CatalogueInv, FoundAsTyped
    <3>4. entry'[saving[t].entry] = entry[saving[t].entry]
      BY <1>3, <3>2, <3>3, CatalogueTypes
    <3> QED BY <1>11, <2>1, <3>2, <3>3, <3>4 DEF CatalogueInv, FoundAsTyped
  <2>2. FoundAsTyped'
    BY <1>9, <1>10, <2>1, CatalogueTypes DEF FoundAsTyped
  <2>3. RoomIsListed'
    BY <1>9, <1>10, <1>13, CatalogueTypes DEF CatalogueInv, RoomIsListed
  <2> QED BY <2>2, <2>3
<1>20. ASSUME NEW t \in Savers, MadeRoom(t)'
       PROVE  /\ t # s /\ MadeRoom(t)
              /\ saving'[t].off = saving[t].off /\ saving'[t].listing = saving[t].listing
  BY <1>9, <1>10, <1>20 DEF MadeRoom
<1>21. Featured' \subseteq (Featured \ q.off) \cup {mine}
  BY <1>13, <1>15 DEF Featured
<1>22. Listings # {} => FrontPageInv'
  <2>1. CASE ~q.featured
    <3>1. Featured' \subseteq Featured
      BY <1>4, <1>5, <1>21, <2>1 DEF Featured
    <3> QED BY <1>2, <1>20, <3>1, FrontPageKeeps DEF CatalogueInv
  <2>2. CASE q.featured
    <3>1. MadeRoom(s)
      BY <1>2, <2>2 DEF MadeRoom, q
    <3>2. ASSUME ~raced, Listings # {}
          PROVE  /\ \E a, b \in Listings : Featured' \subseteq {a, b}
                 /\ \A t \in Savers : ~MadeRoom(t)'
      <4>1. PICK k \in Listings : Featured \subseteq saving[s].off \cup {saving[s].listing, k}
        BY <3>1, <3>2 DEF CatalogueInv, FrontPageInv
      <4>2. Featured' \subseteq {mine, k}
        BY <1>21, <4>1 DEF q
      <4>3. \A t \in Savers : ~MadeRoom(t)'
        BY <1>20, <3>1, <3>2 DEF CatalogueInv, FrontPageInv
      <4> QED BY <1>2, <4>2, <4>3
    <3> QED BY <1>2, <3>2 DEF FrontPageInv
  <2> QED BY <1>2, <2>1, <2>2
<1> QED BY <1>14, <1>16, <1>17, <1>18, <1>19, <1>22 DEF CatalogueInv

LEMMA CatalogueStart == CatalogueInit => CatalogueInv
<1> SUFFICES ASSUME CatalogueInit PROVE CatalogueInv
  OBVIOUS
<1>1. PICK e \in Entries, n \in Labels :
        entry = [f \in Entries |->
                   IF f = e THEN [name |-> n, slug |-> n, blocked |-> FALSE] ELSE NoEntry]
  BY DEF CatalogueInit
<1>2. /\ listing = [l \in Listings |-> NotApproved] /\ saving = [s \in Savers |-> NotSaving]
  BY DEF CatalogueInit
<1>3. [name |-> n, slug |-> n, blocked |-> FALSE] \in EntryRow
  BY DEF EntryRow
<1>4. Listed = {} /\ Saving = {} /\ Featured = {} /\ Filed \subseteq {e}
  BY <1>1, <1>2 DEF Listed, Saving, Featured, Filed
<1>5. CatalogueTypeOK
  BY <1>1, <1>2, <1>3, <1>4 DEF CatalogueTypeOK
<1>6. Listings # {} => FrontPageInv
  BY <1>4 DEF FrontPageInv, MadeRoom
<1> QED BY <1>4, <1>5, <1>6
        DEF CatalogueInv, MarketsKeepTheirEntry, PlacedAsTyped, ApprovedPlaceStands, FoundAsTyped,
            RoomIsListed

LEMMA CatalogueStep ==
  ASSUME CatalogueInv, [CatalogueNext]_catalogueVars
  PROVE  CatalogueInv'
<1>1. CASE UNCHANGED catalogueVars
  BY <1>1 DEF catalogueVars, CatalogueInv, CatalogueTypeOK, MarketsKeepTheirEntry, PlacedAsTyped,
              ApprovedPlaceStands, FoundAsTyped, RoomIsListed, FrontPageInv, MadeRoom, Filed,
              Listed, Saving, Featured
<1>2. CASE \E s \in Savers, l \in Listings, n \in Labels, f \in BOOLEAN : BeginSave(s, l, n, f)
  BY <1>2, BeginSaveKeeps
<1>3. CASE \E s \in Savers : MakeRoom(s) \/ FinishSave(s) \/ SaveFails(s)
  BY <1>3, MakeRoomKeeps, FinishSaveKeeps, SaveFailsKeeps
<1>4. CASE \E l \in Listings, e \in Entries : AgentSave(l, e)
  BY <1>4, AgentSaveKeeps
<1>5. CASE \E l \in Listings : Approve(l) \/ CancelListing(l)
  BY <1>5, ApproveKeeps, CancelListingKeeps
<1>6. CASE \/ \E n, g \in Labels : CreateEntry(n, g)
           \/ \E e \in Entries, n, g \in Labels : UpdateEntry(e, n, g)
           \/ \E e \in Entries, b \in BOOLEAN : SwitchEntry(e, b)
           \/ \E e \in Entries : DeleteEntry(e)
  BY <1>6, TaxonomyKeeps
<1> QED BY <1>1, <1>2, <1>3, <1>4, <1>5, <1>6, Zenon DEF CatalogueNext

\* Two places bound a cardinality by two.
LEMMA FrontPageCount ==
  ASSUME CatalogueInv
  PROVE  FrontPageHasTwoPlaces
<1> SUFFICES ASSUME ~raced PROVE Cardinality(Featured) <= 2
  BY DEF FrontPageHasTwoPlaces
<1>1. CASE Listings = {}
  <2>1. Featured = {}
    BY <1>1 DEF Featured, Listed
  <2> QED BY <2>1, FS_EmptySet
<1>2. CASE Listings # {}
  <2>1. PICK a \in Listings, b \in Listings : Featured \subseteq {a, b}
    BY <1>2 DEF CatalogueInv, FrontPageInv
  <2>2. IsFiniteSet({a}) /\ Cardinality({a}) = 1
    BY FS_Singleton
  <2>3. /\ IsFiniteSet({a} \cup {b}) /\ Cardinality({a} \cup {b}) \in {1, 2}
    BY <2>2, FS_AddElement
  <2>4. /\ IsFiniteSet(Featured) /\ Cardinality(Featured) <= Cardinality({a} \cup {b})
    BY <2>1, <2>3, FS_Subset
  <2>5. Cardinality(Featured) \in Nat
    BY <2>4, FS_CardinalityType
  <2> QED BY <2>3, <2>4, <2>5
<1> QED BY <1>1, <1>2

LEMMA CataloguePart == [Next]_allVars => [CatalogueNext]_catalogueVars
BY DEF Next, AgentSteps, DraftSteps, CatalogueSteps, ConfirmationSteps, SettingSteps,
       RequestSteps, allVars

LEMMA CatalogueAlways == Spec => []CatalogueInv
<1>1. Init => CatalogueInv
  BY CatalogueStart DEF Init
<1>2. CatalogueInv /\ [Next]_allVars => CatalogueInv'
  BY CataloguePart, CatalogueStep
<1> QED BY <1>1, <1>2, PTL DEF Spec

\* Drafts say what their reviewers approved, and markets stand where they were
\* put: two at most on the front page, none without its entry.
THEOREM ContentKept == Spec => []ContentInvariant
<1>1. DraftsInv /\ CatalogueInv => ContentInvariant
  BY DraftsInvImplies, FrontPageCount DEF ContentInvariant, CatalogueInv, CatalogueInvariant
<1> QED BY <1>1, DraftsAlways, CatalogueAlways, PTL

-----------------------------------------------------------------------------
(* Settings and gates.  A running save carries a policy that a superuser    *)
(* answers for, asking for builds that have been offered; it is alone with  *)
(* the temporary file, unless saves overlapped; and a call between the two  *)
(* middlewares is one that maintenance does not concern.                    *)

ReleaseOffered == release # NoRelease => release \in everActive

Offered(policy) ==
    \A b \in {policy.min, policy.recommended} \ {0} : \E v \in everActive : b <= v

PostingFine ==
    \A e \in Editors :
      posting[e].step # "idle" =>
        /\ e \in Chiefs \/ posting[e].policy \in chiefPolicies
        /\ Offered(posting[e].policy)

PolicyInv ==
    siteRow.policy \in chiefPolicies /\ Offered(siteRow.policy) /\ ReleaseOffered /\ PostingFine

WithTheFile(e) == posting[e].step \in {"write", "rename"}

FileInv ==
    ~overlapped =>
      /\ configFile # Torn
      /\ \A e, o \in Editors : WithTheFile(e) /\ WithTheFile(o) => e = o
      /\ \A e \in Editors :
           /\ posting[e].step = "write" => posting[e].handle = "tmp" /\ tmpFile = Torn
           /\ posting[e].step = "rename" => tmpFile # Torn

CallFine(q) ==
    /\ q.call = "served" /\ Outdated => q.excused
    /\ q.call = "inside" /\ ~q.excused /\ InMaintenance => q.exempt

CallsFine == \A p \in Phones : CallFine(phone[p])

SettingsInv == SettingsTypes /\ ImagesKept /\ PolicyInv /\ FileInv /\ CallsFine

LEMMA SettingsInvImplies == SettingsInv => SettingsInvariant
BY DEF SettingsInv, SettingsInvariant, PolicyInv, PolicyFromChiefs, AskedBuildsExist, Offered,
       FileInv, TornOnlyByOverlap, CallsFine, CallFine, OutdatedIsRefused

LEMMA SettingsStart == SettingsInit => SettingsInv
<1> SUFFICES ASSUME SettingsInit PROVE SettingsInv
  OBVIOUS
<1> DEFINE none == [min |-> 0, recommended |-> 0]
           quiet == [screen |-> "loading", override |-> FALSE, call |-> "none",
                     exempt |-> FALSE, excused |-> FALSE]
<1>1. none \in Policies /\ none.min = 0 /\ none.recommended = 0
  BY DEF Policies, Builds
<1>2. Idle \in Request /\ Idle.step = "idle"
  BY <1>1 DEF Idle, Request, Switch, Choices
<1>3. quiet \in Phone /\ quiet.call = "none"
  BY DEF Phone
<1>4. /\ posting = [e \in Editors |-> Idle] /\ phone = [p \in Phones |-> quiet]
      /\ siteRow = [general |-> 0, window |-> 0, images |-> 0, policy |-> none]
      /\ configFile = "off" /\ tmpFile = Absent /\ release = NoRelease
      /\ chiefPolicies = {siteRow.policy} /\ imageChoice = 0
  BY DEF SettingsInit
<1> HIDE DEF none, quiet
<1>5. siteRow \in SiteRow /\ siteRow.policy = none /\ siteRow.images = 0
  BY <1>1, <1>4 DEF SiteRow, Choices
<1>6. SettingsTypes /\ ImagesKept
  BY <1>2, <1>3, <1>4, <1>5 DEF SettingsTypes, ImagesKept, Switch
<1>7. PolicyInv
  BY <1>1, <1>2, <1>4, <1>5 DEF PolicyInv, Offered, ReleaseOffered, PostingFine
<1>8. FileInv /\ CallsFine
  BY <1>2, <1>3, <1>4 DEF FileInv, WithTheFile, CallsFine, CallFine, Torn
<1> QED BY <1>6, <1>7, <1>8 DEF SettingsInv

\* A call in flight is excused from the rules that change under it.
LEMMA ExcusedFine ==
  ASSUME phone \in [Phones -> Phone], phone' = Excused
  PROVE  phone' \in [Phones -> Phone] /\ CallsFine'
<1>1. ASSUME NEW p \in Phones
      PROVE  /\ Excused[p] \in Phone
             /\ Excused[p].call # "none" => Excused[p].excused
  <2> DEFINE row == [phone[p] EXCEPT !.excused = phone[p].call # "none"]
  <2>1. phone[p] \in Phone /\ Excused[p] = row
    BY DEF Excused
  <2>2. row \in Phone /\ row.call = phone[p].call /\ row.excused = (phone[p].call # "none")
    BY <2>1 DEF Phone
  <2> HIDE DEF row
  <2> QED BY <2>1, <2>2
<1>2. Excused = [p \in Phones |-> Excused[p]]
  BY DEF Excused
<1>3. phone' \in [Phones -> Phone]
  BY <1>1, <1>2
<1> QED BY <1>1, <1>3 DEF CallsFine, CallFine

\* A telephone's step.
LEMMA PhoneKeeps ==
  ASSUME SettingsInv, NEW p \in Phones, NEW row \in Phone, phone' = [phone EXCEPT ![p] = row],
         CallFine(row),
         UNCHANGED <<siteRow, configFile, tmpFile, release, posting, everActive, chiefPolicies,
                     imageChoice, overlapped>>
  PROVE  SettingsInv'
<1>1. phone' \in [Phones -> Phone] /\ CallsFine'
  BY DEF SettingsInv, SettingsTypes, CallsFine, CallFine, Outdated, InMaintenance
<1>2. SettingsTypes' /\ ImagesKept'
  BY <1>1 DEF SettingsInv, SettingsTypes, ImagesKept
<1>3. PolicyInv' /\ FileInv'
  BY DEF SettingsInv, PolicyInv, Offered, ReleaseOffered, PostingFine, FileInv, WithTheFile
<1> QED BY <1>1, <1>2, <1>3 DEF SettingsInv

LEMMA TelephoneKeeps ==
  ASSUME SettingsInv, NEW p \in Phones,
         \/ HealthAnswers(p) \/ AskAgain(p) \/ StartCall(p)
         \/ PassMaintenance(p) \/ PassCompatibility(p) \/ PolicyUnreadable(p)
  PROVE  SettingsInv'
<1> DEFINE old == phone[p]
<1>0. old \in Phone /\ CallFine(old)
  BY DEF SettingsInv, SettingsTypes, CallsFine
<1>1. CASE HealthAnswers(p)
  <2>1. PICK s \in Screens : phone' = [phone EXCEPT ![p] = [old EXCEPT !.screen = s]]
    BY <1>1 DEF HealthAnswers
  <2> DEFINE row == [old EXCEPT !.screen = s]
  <2>2. row \in Phone /\ row.call = old.call /\ row.excused = old.excused /\ row.exempt = old.exempt
    BY <1>0, <2>1 DEF Phone, Screens
  <2> HIDE DEF row, old
  <2>3. CallFine(row)
    BY <1>0, <2>2 DEF CallFine
  <2> QED BY <1>1, <2>1, <2>2, <2>3, PhoneKeeps DEF HealthAnswers, row
<1>2. CASE AskAgain(p)
  <2>1. PICK lift \in BOOLEAN :
          phone' = [phone EXCEPT ![p] =
                      [old EXCEPT !.screen = "loading", !.override = @ /\ ~lift]]
    BY <1>2 DEF AskAgain
  <2> DEFINE row == [old EXCEPT !.screen = "loading", !.override = @ /\ ~lift]
  <2>2. row \in Phone /\ row.call = old.call /\ row.excused = old.excused /\ row.exempt = old.exempt
    BY <1>0, <2>1 DEF Phone
  <2> HIDE DEF row, old
  <2>3. CallFine(row)
    BY <1>0, <2>2 DEF CallFine
  <2> QED BY <1>2, <2>1, <2>2, <2>3, PhoneKeeps DEF AskAgain, row
<1>3. CASE StartCall(p)
  <2>1. PICK exempt \in BOOLEAN :
          phone' = [phone EXCEPT ![p] =
                      [old EXCEPT !.call = "outside", !.exempt = exempt, !.excused = FALSE]]
    BY <1>3 DEF StartCall
  <2> DEFINE row == [old EXCEPT !.call = "outside", !.exempt = exempt, !.excused = FALSE]
  <2>2. row \in Phone /\ row.call = "outside"
    BY <1>0, <2>1 DEF Phone
  <2> HIDE DEF row, old
  <2>3. CallFine(row)
    BY <2>2 DEF CallFine
  <2> QED BY <1>3, <2>1, <2>2, <2>3, PhoneKeeps DEF StartCall, row
<1>4. CASE PassMaintenance(p)
  <2> DEFINE row == [old EXCEPT !.call = IF InMaintenance /\ ~old.exempt THEN "none" ELSE "inside"]
  <2>1. phone' = [phone EXCEPT ![p] = row]
    BY <1>4 DEF PassMaintenance
  <2>2. /\ row \in Phone /\ row.excused = old.excused /\ row.exempt = old.exempt
        /\ row.call = IF InMaintenance /\ ~old.exempt THEN "none" ELSE "inside"
    BY <1>0 DEF Phone
  <2> HIDE DEF row, old
  <2>3. CallFine(row)
    BY <2>2 DEF CallFine
  <2> QED BY <1>4, <2>1, <2>2, <2>3, PhoneKeeps DEF PassMaintenance
<1>5. CASE PassCompatibility(p)
  <2> DEFINE row == [old EXCEPT !.call = IF RefusedBuild(p) THEN "none" ELSE "served",
                                !.override = @ \/ RefusedBuild(p),
                                !.excused = @ \/ (InMaintenance /\ old.exempt)]
  <2>1. phone' = [phone EXCEPT ![p] = row] /\ old.call = "inside"
    BY <1>5 DEF PassCompatibility
  <2>2. /\ row \in Phone /\ row.excused = (old.excused \/ (InMaintenance /\ old.exempt))
        /\ row.call = IF RefusedBuild(p) THEN "none" ELSE "served"
    BY <1>0 DEF Phone
  <2> HIDE DEF row, old
  <2>3. CallFine(row)
    BY <1>0, <2>1, <2>2 DEF CallFine, RefusedBuild
  <2> QED BY <1>5, <2>1, <2>2, <2>3, PhoneKeeps DEF PassCompatibility
<1>6. CASE PolicyUnreadable(p)
  <2> DEFINE row == [old EXCEPT !.call = "served", !.excused = TRUE]
  <2>1. phone' = [phone EXCEPT ![p] = row]
    BY <1>6 DEF PolicyUnreadable
  <2>2. row \in Phone /\ row.excused /\ row.call = "served"
    BY <1>0 DEF Phone
  <2> HIDE DEF row, old
  <2>3. CallFine(row)
    BY <2>2 DEF CallFine
  <2> QED BY <1>6, <2>1, <2>2, <2>3, PhoneKeeps DEF PolicyUnreadable
<1> QED BY <1>1, <1>2, <1>3, <1>4, <1>5, <1>6

\* An editor's request moves on with the policy it carries.
LEMMA PostingKeeps ==
  ASSUME SettingsInv, NEW e \in Editors, NEW row \in Request,
         posting' = [posting EXCEPT ![e] = row],
         UNCHANGED <<siteRow, release, phone, everActive, chiefPolicies, imageChoice>>,
         row.step # "idle" => /\ e \in Chiefs \/ row.policy \in chiefPolicies
                              /\ Offered(row.policy)
  PROVE  /\ posting' \in [Editors -> Request]
         /\ posting'[e] = row /\ \A o \in Editors \ {e} : posting'[o] = posting[o]
         /\ ImagesKept' /\ PolicyInv'
<1>1. /\ posting' \in [Editors -> Request]
      /\ posting'[e] = row /\ \A o \in Editors \ {e} : posting'[o] = posting[o]
  BY DEF SettingsInv, SettingsTypes
<1>2. PolicyInv'
  BY <1>1 DEF SettingsInv, PolicyInv, PostingFine, Offered, ReleaseOffered
<1> QED BY <1>1, <1>2 DEF SettingsInv, ImagesKept

LEMMA PolicyBuilds ==
  ASSUME NEW policy \in Policies
  PROVE  policy.min \in Nat /\ policy.recommended \in Nat
<1>1. Builds \subseteq Nat
  BY SettingsAssumption DEF SettingsAssumption, Builds
<1>2. policy.min \in Builds /\ policy.recommended \in Builds
  BY DEF Policies
<1> QED BY <1>1, <1>2

LEMMA PostConfigKeeps ==
  ASSUME SettingsInv, NEW e \in Editors, PostConfig(e)
  PROVE  SettingsInv'
<1>1. PICK maintenance \in Switch, general \in Choices, posted \in BOOLEAN,
           window \in Choices, policy \in Policies :
        /\ posted => Acceptable(e, policy)
        /\ ~posted => window = siteRow.window /\ policy = siteRow.policy
        /\ posting' = [posting EXCEPT ![e] =
             [step |-> "open", handle |-> "none", maintenance |-> maintenance,
              general |-> general, window |-> window, policy |-> policy]]
  BY DEF PostConfig
<1> DEFINE row == [step |-> "open", handle |-> "none", maintenance |-> maintenance,
                   general |-> general, window |-> window, policy |-> policy]
<1>2. row \in Request /\ row.step = "open" /\ row.policy = policy
  BY DEF Request
<1>3. /\ posting' = [posting EXCEPT ![e] = row]
      /\ UNCHANGED <<siteRow, configFile, tmpFile, release, phone, everActive, chiefPolicies,
                     imageChoice, overlapped>>
  BY <1>1 DEF PostConfig
<1> HIDE DEF row
<1>4. /\ siteRow.policy \in chiefPolicies /\ Offered(siteRow.policy)
      /\ release # NoRelease => release \in everActive
  BY DEF SettingsInv, PolicyInv, ReleaseOffered
<1>5. e \in Chiefs \/ policy \in chiefPolicies
  BY <1>1, <1>4 DEF Acceptable
<1>6. Offered(policy)
  <2>1. CASE ~posted
    BY <1>1, <1>4, <2>1
  <2>2. CASE posted
    <3>1. policy.min \in Nat /\ policy.recommended \in Nat
      BY PolicyBuilds
    <3> QED BY <1>1, <1>4, <2>2, <3>1 DEF Acceptable, Offered
  <2> QED BY <2>1, <2>2
<1>7. /\ posting' \in [Editors -> Request]
      /\ posting'[e] = row /\ \A o \in Editors \ {e} : posting'[o] = posting[o]
      /\ ImagesKept' /\ PolicyInv'
  <2>1. row.step # "idle" => (e \in Chiefs \/ row.policy \in chiefPolicies) /\ Offered(row.policy)
    BY <1>2, <1>5, <1>6
  <2> QED BY <1>2, <1>3, <2>1, PostingKeeps
<1>8. SettingsTypes'
  BY <1>3, <1>7 DEF SettingsInv, SettingsTypes
<1>9. FileInv'
  BY <1>2, <1>3, <1>7 DEF SettingsInv, FileInv, WithTheFile
<1>10. CallsFine'
  BY <1>3 DEF SettingsInv, CallsFine, CallFine, Outdated, InMaintenance
<1> QED BY <1>7, <1>8, <1>9, <1>10 DEF SettingsInv

LEMMA OpenTmpKeeps ==
  ASSUME SettingsInv, NEW e \in Editors, OpenTmp(e)
  PROVE  SettingsInv'
<1> DEFINE row == [posting[e] EXCEPT !.step = "write", !.handle = "tmp"]
<1>1. /\ posting[e].step = "open" /\ posting[e] \in Request
      /\ tmpFile' = Torn /\ posting' = [posting EXCEPT ![e] = row]
      /\ overlapped' = (overlapped \/ \E o \in Editors \ {e} : WithTheFile(o))
      /\ UNCHANGED <<siteRow, configFile, release, phone, everActive, chiefPolicies, imageChoice>>
  BY DEF OpenTmp, SettingsInv, SettingsTypes, WithTheFile
<1>2. row \in Request /\ row.step = "write" /\ row.handle = "tmp" /\ row.policy = posting[e].policy
  BY <1>1 DEF Request
<1> HIDE DEF row
<1>3. (e \in Chiefs \/ row.policy \in chiefPolicies) /\ Offered(row.policy)
  BY <1>1, <1>2 DEF SettingsInv, PolicyInv, PostingFine
<1>4. /\ posting' \in [Editors -> Request]
      /\ posting'[e] = row /\ \A o \in Editors \ {e} : posting'[o] = posting[o]
      /\ ImagesKept' /\ PolicyInv'
  BY <1>1, <1>2, <1>3, PostingKeeps
<1>5. FileInv'
  BY <1>1, <1>2, <1>4 DEF SettingsInv, FileInv, WithTheFile
<1>6. SettingsTypes' /\ CallsFine'
  BY <1>1, <1>4 DEF SettingsInv, SettingsTypes, CallsFine, CallFine, Outdated, InMaintenance
<1> QED BY <1>4, <1>5, <1>6 DEF SettingsInv

LEMMA WriteTmpKeeps ==
  ASSUME SettingsInv, NEW e \in Editors, WriteTmp(e)
  PROVE  SettingsInv'
<1> DEFINE row == [posting[e] EXCEPT !.step = "rename"]
           text == posting[e].maintenance
<1>1. /\ posting[e].step = "write" /\ posting[e] \in Request
      /\ posting' = [posting EXCEPT ![e] = row]
      /\ UNCHANGED <<siteRow, release, everActive, chiefPolicies, imageChoice, overlapped>>
      /\ text \in Switch
  BY DEF WriteTmp, SettingsInv, SettingsTypes, Request
<1>2. row \in Request /\ row.step = "rename" /\ row.policy = posting[e].policy
  BY <1>1 DEF Request
<1> HIDE DEF row
<1>3. (e \in Chiefs \/ row.policy \in chiefPolicies) /\ Offered(row.policy)
  BY <1>1, <1>2 DEF SettingsInv, PolicyInv, PostingFine
<1>4. /\ posting' \in [Editors -> Request]
      /\ posting'[e] = row /\ \A o \in Editors \ {e} : posting'[o] = posting[o]
  BY <1>1, <1>2 DEF SettingsInv, SettingsTypes
<1>5. ImagesKept' /\ PolicyInv'
  BY <1>1, <1>2, <1>3, <1>4
     DEF SettingsInv, ImagesKept, PolicyInv, PostingFine, Offered, ReleaseOffered
<1>6. \A old : Overwritten(old, text) \subseteq Switch \cup {Torn}
  BY <1>1 DEF Overwritten
<1>7. /\ configFile' \in Switch \cup {Torn} /\ tmpFile' \in Switch \cup {Torn, Absent}
      /\ phone' \in [Phones -> Phone] /\ CallsFine'
  <2>1. CASE configFile' \in Overwritten(configFile, text) /\ phone' = Excused /\ UNCHANGED tmpFile
    BY <1>6, <2>1, ExcusedFine DEF SettingsInv, SettingsTypes
  <2>2. CASE /\ tmpFile' \in Overwritten(tmpFile, text) \/ UNCHANGED tmpFile
             /\ UNCHANGED <<configFile, phone>>
    BY <1>1, <1>6, <2>2
       DEF SettingsInv, SettingsTypes, CallsFine, CallFine, Outdated, InMaintenance
  <2> QED BY <2>1, <2>2 DEF WriteTmp
<1>8. FileInv'
  <2>1. CASE overlapped
    BY <1>1, <2>1 DEF FileInv
  <2>2. CASE ~overlapped
    <3>1. posting[e].handle = "tmp" /\ tmpFile = Torn
      BY <1>1, <2>2 DEF SettingsInv, FileInv
    <3>2. tmpFile' = text /\ configFile' = configFile
      BY <3>1 DEF WriteTmp, Overwritten
    <3>3. text # Torn
      BY <1>1 DEF Switch, Torn
    <3> QED BY <1>1, <1>2, <1>4, <2>2, <3>2, <3>3 DEF SettingsInv, FileInv, WithTheFile
  <2> QED BY <2>1, <2>2
<1>9. SettingsTypes'
  BY <1>1, <1>4, <1>7 DEF SettingsInv, SettingsTypes
<1> QED BY <1>5, <1>7, <1>8, <1>9 DEF SettingsInv

LEMMA RenameTmpKeeps ==
  ASSUME SettingsInv, NEW e \in Editors, RenameTmp(e)
  PROVE  SettingsInv'
<1>1. /\ posting[e].step = "rename" /\ tmpFile # Absent
      /\ configFile' = tmpFile /\ tmpFile' = Absent /\ phone' = Excused
      /\ posting' = [o \in Editors |->
                      IF o = e THEN [posting[e] EXCEPT !.step = "row", !.handle = "none"]
                      ELSE [posting[o] EXCEPT !.handle = AfterRename(posting[o].handle)]]
      /\ UNCHANGED <<siteRow, release, everActive, chiefPolicies, imageChoice, overlapped>>
      /\ \A o \in Editors : posting[o] \in Request
  BY DEF RenameTmp, SettingsInv, SettingsTypes
<1>2. ASSUME NEW o \in Editors
      PROVE  /\ posting'[o] \in Request /\ posting'[o].policy = posting[o].policy
             /\ posting'[o].step = IF o = e THEN "row" ELSE posting[o].step
  <2>1. CASE o = e
    BY <1>1, <2>1 DEF Request
  <2>2. CASE o # e
    <3> DEFINE handle == AfterRename(posting[o].handle)
               row == [posting[o] EXCEPT !.handle = handle]
    <3>1. handle \in {"none", "tmp", "file", "gone"}
      BY <1>1 DEF AfterRename, Request
    <3>2. posting'[o] = row
      BY <1>1, <2>2
    <3> HIDE DEF handle
    <3>3. row \in Request /\ row.policy = posting[o].policy /\ row.step = posting[o].step
      BY <1>1, <3>1 DEF Request
    <3> QED BY <2>2, <3>2, <3>3
  <2> QED BY <2>1, <2>2
<1>3. posting' \in [Editors -> Request]
  BY <1>1, <1>2
<1>4. ImagesKept' /\ PolicyInv'
  <2>1. ASSUME NEW o \in Editors, posting'[o].step # "idle"
        PROVE  /\ o \in Chiefs \/ posting'[o].policy \in chiefPolicies
               /\ Offered(posting'[o].policy)
    <3>1. posting[o].step # "idle"
      BY <1>1, <1>2, <2>1
    <3> QED BY <1>2, <3>1 DEF SettingsInv, PolicyInv, PostingFine
  <2>2. PostingFine'
    BY <1>1, <2>1 DEF PostingFine, Offered
  <2> QED BY <1>1, <2>2 DEF SettingsInv, ImagesKept, PolicyInv, Offered, ReleaseOffered
<1>5. phone' \in [Phones -> Phone] /\ CallsFine'
  BY <1>1, ExcusedFine DEF SettingsInv, SettingsTypes
<1>6. FileInv'
  BY <1>1, <1>2 DEF SettingsInv, FileInv, WithTheFile
<1>7. SettingsTypes'
  BY <1>1, <1>3, <1>5 DEF SettingsInv, SettingsTypes
<1> QED BY <1>4, <1>5, <1>6, <1>7 DEF SettingsInv

LEMMA PostFailsKeeps ==
  ASSUME SettingsInv, NEW e \in Editors, PostFails(e)
  PROVE  SettingsInv'
<1>1. Idle \in Request /\ Idle.step = "idle"
  BY DEF Idle, Request, Switch, Choices, Policies, Builds
<1>2. /\ posting' = [posting EXCEPT ![e] = Idle]
      /\ UNCHANGED <<siteRow, configFile, tmpFile, release, phone, everActive, chiefPolicies,
                     imageChoice, overlapped>>
  BY DEF PostFails
<1>3. /\ posting' \in [Editors -> Request]
      /\ posting'[e] = Idle /\ \A o \in Editors \ {e} : posting'[o] = posting[o]
      /\ ImagesKept' /\ PolicyInv'
  BY <1>1, <1>2, PostingKeeps
<1> QED BY <1>1, <1>2, <1>3
        DEF SettingsInv, SettingsTypes, FileInv, WithTheFile, CallsFine, CallFine, Outdated,
            InMaintenance

LEMMA SaveConfigKeeps ==
  ASSUME SettingsInv, NEW e \in Editors, SaveConfig(e)
  PROVE  SettingsInv'
<1> DEFINE q == posting[e]
<1>1. /\ q.step = "row" /\ q \in Request /\ siteRow \in SiteRow
      /\ siteRow' = SavedRow(siteRow, q)
      /\ posting' = [posting EXCEPT ![e] = Idle] /\ phone' = Excused
      /\ chiefPolicies' = chiefPolicies \cup (IF e \in Chiefs THEN {q.policy} ELSE {})
      /\ UNCHANGED <<configFile, tmpFile, release, everActive, imageChoice, overlapped>>
  BY DEF SaveConfig, SettingsInv, SettingsTypes
<1>2. Idle \in Request /\ Idle.step = "idle"
  BY DEF Idle, Request, Switch, Choices, Policies, Builds
<1>3. /\ posting' \in [Editors -> Request]
      /\ posting'[e] = Idle /\ \A o \in Editors \ {e} : posting'[o] = posting[o]
  BY <1>1, <1>2 DEF SettingsInv, SettingsTypes
<1>4. siteRow' \in SiteRow /\ siteRow'.policy = q.policy /\ siteRow'.images = siteRow.images
  BY <1>1 DEF SavedRow, SiteRow, Request
<1>5. (e \in Chiefs \/ q.policy \in chiefPolicies) /\ Offered(q.policy)
  BY <1>1 DEF SettingsInv, PolicyInv, PostingFine
<1>6. ImagesKept' /\ PolicyInv'
  BY <1>1, <1>2, <1>3, <1>4, <1>5
     DEF SettingsInv, ImagesKept, PolicyInv, PostingFine, Offered, ReleaseOffered
<1>7. phone' \in [Phones -> Phone] /\ CallsFine'
  BY <1>1, ExcusedFine DEF SettingsInv, SettingsTypes
<1>8. FileInv'
  BY <1>1, <1>2, <1>3 DEF SettingsInv, FileInv, WithTheFile
<1>9. SettingsTypes'
  BY <1>1, <1>3, <1>4, <1>7 DEF SettingsInv, SettingsTypes
<1> QED BY <1>6, <1>7, <1>8, <1>9 DEF SettingsInv

LEMMA PublicationKeeps ==
  ASSUME SettingsInv, SaveImages \/ PublishRelease
  PROVE  SettingsInv'
<1>1. CASE SaveImages
  <2>1. PICK c \in Choices : /\ siteRow' = [siteRow EXCEPT !.images = c]
                             /\ imageChoice' = c
    BY <1>1 DEF SaveImages
  <2>2. /\ siteRow' \in SiteRow /\ siteRow'.policy = siteRow.policy /\ siteRow'.images = c
    BY <2>1 DEF SettingsInv, SettingsTypes, SiteRow
  <2>3. UNCHANGED <<configFile, tmpFile, release, posting, phone, everActive, chiefPolicies, overlapped>>
    BY <1>1 DEF SaveImages
  <2> QED BY <2>1, <2>2, <2>3
          DEF SettingsInv, SettingsTypes, ImagesKept, PolicyInv, PostingFine, Offered,
              ReleaseOffered, FileInv, WithTheFile, CallsFine, CallFine, Outdated, InMaintenance
<1>2. CASE PublishRelease
  <2>1. PICK v \in Versions : release' = v /\ everActive' = everActive \cup {v}
    BY <1>2 DEF PublishRelease
  <2>2. UNCHANGED <<siteRow, configFile, tmpFile, posting, phone, chiefPolicies, imageChoice, overlapped>>
    BY <1>2 DEF PublishRelease
  <2>3. PolicyInv'
    BY <2>1, <2>2 DEF SettingsInv, PolicyInv, PostingFine, Offered, ReleaseOffered
  <2> QED BY <2>1, <2>2, <2>3
          DEF SettingsInv, SettingsTypes, ImagesKept, FileInv, WithTheFile, CallsFine, CallFine,
              Outdated, InMaintenance
<1> QED BY <1>1, <1>2

LEMMA SettingsStep ==
  ASSUME SettingsInv, [SettingsNext]_settingVars
  PROVE  SettingsInv'
<1>1. CASE UNCHANGED settingVars
  BY <1>1 DEF settingVars, SettingsInv, SettingsTypes, ImagesKept, PolicyInv, PostingFine, Offered,
              ReleaseOffered, FileInv, WithTheFile, CallsFine, CallFine, Outdated, InMaintenance
<1>2. CASE \E e \in Editors : \/ PostConfig(e) \/ OpenTmp(e) \/ WriteTmp(e) \/ RenameTmp(e)
                              \/ PostFails(e) \/ SaveConfig(e)
  BY <1>2, PostConfigKeeps, OpenTmpKeeps, WriteTmpKeeps, RenameTmpKeeps, PostFailsKeeps,
     SaveConfigKeeps
<1>3. CASE SaveImages \/ PublishRelease
  BY <1>3, PublicationKeeps
<1>4. CASE \E p \in Phones : \/ HealthAnswers(p) \/ AskAgain(p) \/ StartCall(p)
                             \/ PassMaintenance(p) \/ PassCompatibility(p) \/ PolicyUnreadable(p)
  BY <1>4, TelephoneKeeps
<1> QED BY <1>1, <1>2, <1>3, <1>4, Zenon DEF SettingsNext

LEMMA SettingsPart == [Next]_allVars => [SettingsNext]_settingVars
BY DEF Next, AgentSteps, DraftSteps, CatalogueSteps, ConfirmationSteps, SettingSteps,
       RequestSteps, allVars

LEMMA SettingsAlways == Spec => []SettingsInv
<1>1. Init => SettingsInv
  BY SettingsStart DEF Init
<1>2. SettingsInv /\ [Next]_allVars => SettingsInv'
  BY SettingsPart, SettingsStep
<1> QED BY <1>1, <1>2, PTL DEF Spec

-----------------------------------------------------------------------------
(* Places and connections.  One caller moves at a time, and it leaves every *)
(* count as it found it but for itself.                                     *)

WebHeld(c, a, w) == c \in WebCalls /\ a \notin {"new", "lobby", "gone"} /\ w = "none"

BeforeHandler == {"new", "lobby", "sent", "door", "session", "policy", "handler"}

\* What holds of a caller that stands at a, deals with the pool as l says, was
\* told w and answered r, when the writes in D are committed.
CallerFine(c, a, l, w, r, D) ==
    /\ l # "none" => a \in UsesPool
    /\ a = "lobby" => c \in WebCalls
    /\ a \in {"new", "lobby"} => w = "none"
    /\ c \in AppCalls /\ w = "try again" => a = "gone"
    /\ c \in Writes =>
         /\ a \in BeforeHandler => r = "none" /\ c \notin D
         /\ r \in {"dependency_unavailable", "refused"} => c \notin D
         /\ r = "ok" => c \in D
         /\ c \in AppCalls /\ w = "try again" => c \notin D

WebHolders == {c \in WebCalls : at[c] \notin {"new", "lobby", "gone"} /\ told[c] = "none"}
InLobby == {c \in WebCalls : at[c] = "lobby"}
Admitted == InApi(WebCalls \cup AppCalls)
Checking == InApi(HealthCalls)
Connected == {c \in Callers : link[c] = "has"}
Queueing == {c \in Callers : link[c] = "waiting"}
Coming == {c \in Callers : at[c] # "gone"}

AdmissionInv ==
    /\ AdmissionTypes
    /\ PlacesAccounted
    /\ IsFiniteSet(Coming)
    /\ \A c \in Callers : CallerFine(c, at[c], link[c], told[c], reply[c], done)

LEMMA AdmissionInvImplies == AdmissionInv => AdmissionInvariant
<1> SUFFICES ASSUME AdmissionInv PROVE RefusalsAreHonest
  BY DEF AdmissionInv, AdmissionInvariant
<1>1. Writes \subseteq Callers
  BY AdmissionAssumption DEF AdmissionAssumption, Callers
<1> QED BY <1>1 DEF AdmissionInv, CallerFine, RefusalsAreHonest

One(b) == IF b THEN 1 ELSE 0

LEMMA OneIsNumber == \A b : One(b) \in {0, 1}
BY DEF One

\* A set that changes by one element at most.
LEMMA CountMoves ==
  ASSUME NEW S, NEW T, NEW c, IsFiniteSet(S), T \ {c} = S \ {c}
  PROVE  /\ IsFiniteSet(T) /\ Cardinality(S) \in Nat /\ Cardinality(T) \in Nat
         /\ Cardinality(T) + One(c \in S) = Cardinality(S) + One(c \in T)
<1>1. /\ IsFiniteSet(S \ {c})
      /\ Cardinality(S \ {c}) = Cardinality(S) - One(c \in S)
  BY FS_RemoveElement, FS_CardinalityType DEF One
<1>2. IsFiniteSet(T \ {c}) /\ Cardinality(T \ {c}) = Cardinality(S) - One(c \in S)
  BY <1>1
<1>3. /\ IsFiniteSet((T \ {c}) \cup {c})
      /\ Cardinality((T \ {c}) \cup {c}) = Cardinality(T \ {c}) + 1
  BY <1>2, FS_AddElement
<1>4. IsFiniteSet(T) /\ Cardinality(T) = Cardinality(T \ {c}) + One(c \in T)
  <2>1. CASE c \in T
    <3>1. (T \ {c}) \cup {c} = T
      BY <2>1
    <3> QED BY <1>3, <2>1, <3>1 DEF One
  <2>2. CASE c \notin T
    <3>1. T \ {c} = T
      BY <2>2
    <3>2. Cardinality(T \ {c}) \in Nat
      BY <1>2, FS_CardinalityType
    <3>3. One(c \in T) = 0
      BY <2>2 DEF One
    <3>4. IsFiniteSet(T) /\ Cardinality(T) = Cardinality(T \ {c})
      BY <1>2, <3>1
    <3> QED BY <3>2, <3>3, <3>4
  <2> QED BY <2>1, <2>2
<1>5. Cardinality(S) \in Nat /\ Cardinality(T) \in Nat
  BY <1>4, FS_CardinalityType
<1> QED BY <1>2, <1>4, <1>5 DEF One

LEMMA AdmissionSets ==
  ASSUME AdmissionInv
  PROVE  /\ IsFiniteSet(WebHolders) /\ IsFiniteSet(InLobby)
         /\ IsFiniteSet(Admitted) /\ IsFiniteSet(Checking)
         /\ IsFiniteSet(Connected) /\ IsFiniteSet(Queueing)
<1>1. IsFiniteSet(Coming)
  BY DEF AdmissionInv
<1>2. /\ WebHolders \subseteq Coming /\ InLobby \subseteq Coming
      /\ Admitted \subseteq Coming /\ Checking \subseteq Coming
  BY DEF WebHolders, InLobby, Admitted, Checking, InApi, Inside, Coming, Callers
<1>3. Connected \subseteq Coming /\ Queueing \subseteq Coming
  BY DEF AdmissionInv, CallerFine, Connected, Queueing, Coming, UsesPool
<1> QED BY <1>1, <1>2, <1>3, FS_Subset

\* Caller c now stands at a, deals with the pool as l says, was told w, answered r.
CallerBecomes(c, a, l, w, r) ==
    /\ at' = [at EXCEPT ![c] = a] /\ link' = [link EXCEPT ![c] = l]
    /\ told' = [told EXCEPT ![c] = w] /\ reply' = [reply EXCEPT ![c] = r]

\* The places and connections it took or gave back by that.
Balanced(c, a, l, w) ==
    /\ webFree' \in Nat /\ webWaiting' \in Nat /\ apiFree' \in Nat /\ healthFree' \in Nat
    /\ poolFree' \in Nat /\ poolWaiting' \in Nat /\ poolWaiting' <= PoolQueue
    /\ webFree' + One(WebHeld(c, a, w)) = webFree + One(WebHeld(c, at[c], told[c]))
    /\ webWaiting' + One(at[c] = "lobby") = webWaiting + One(a = "lobby")
    /\ apiFree' + One(c \notin HealthCalls /\ a \in Inside)
         = apiFree + One(c \notin HealthCalls /\ at[c] \in Inside)
    /\ healthFree' + One(c \in HealthCalls /\ a \in Inside)
         = healthFree + One(c \in HealthCalls /\ at[c] \in Inside)
    /\ poolFree' + One(l = "has") = poolFree + One(link[c] = "has")
    /\ poolWaiting' + One(link[c] = "waiting") = poolWaiting + One(l = "waiting")

LoggerKeeps == /\ logger' \in {"idle", "asked", "writing"}
               /\ logger' = "writing" <=> logger = "writing"

\* One caller's step.
LEMMA CallerMoves ==
  ASSUME AdmissionInv, NEW c \in Callers,
         NEW a \in Steps, NEW l \in Links, NEW w \in Words, NEW r \in Replies,
         CallerBecomes(c, a, l, w, r), Balanced(c, a, l, w), LoggerKeeps,
         done' \in {done, done \cup ({c} \cap Writes)},
         CallerFine(c, a, l, w, r, done')
  PROVE  AdmissionInv'
<1>1. /\ at' \in [Callers -> Steps] /\ link' \in [Callers -> Links]
      /\ told' \in [Callers -> Words] /\ reply' \in [Callers -> Replies]
      /\ at'[c] = a /\ link'[c] = l /\ told'[c] = w /\ reply'[c] = r
      /\ \A d \in Callers \ {c} : /\ at'[d] = at[d] /\ link'[d] = link[d]
                                 /\ told'[d] = told[d] /\ reply'[d] = reply[d]
  BY DEF AdmissionInv, AdmissionTypes, CallerBecomes
<1>2. AdmissionTypes'
  BY <1>1 DEF AdmissionInv, AdmissionTypes, Balanced, LoggerKeeps
<1>3. \A d \in Callers : CallerFine(d, at'[d], link'[d], told'[d], reply'[d], done')
  <2>1. CallerFine(c, at'[c], link'[c], told'[c], reply'[c], done')
    BY <1>1
  <2>2. ASSUME NEW d \in Callers, d # c
        PROVE  CallerFine(d, at'[d], link'[d], told'[d], reply'[d], done')
    <3>1. CallerFine(d, at[d], link[d], told[d], reply[d], done)
      BY DEF AdmissionInv
    <3>2. d \in done' <=> d \in done
      BY <2>2
    <3> QED BY <1>1, <2>2, <3>1, <3>2 DEF CallerFine
  <2> QED BY <2>1, <2>2
<1>4. IsFiniteSet(Coming')
  <2>1. Coming' \subseteq Coming \cup {c}
    BY <1>1 DEF Coming
  <2> QED BY <2>1, FS_AddElement, FS_Subset DEF AdmissionInv
<1>5. /\ c \in WebCalls \cup AppCalls \/ c \in HealthCalls
      /\ c \in HealthCalls => c \notin WebCalls \cup AppCalls
      /\ WebCalls \subseteq Callers /\ AppCalls \subseteq Callers /\ HealthCalls \subseteq Callers
  BY AdmissionAssumption DEF AdmissionAssumption, Callers
<1>6. /\ WebHolders' \ {c} = WebHolders \ {c} /\ InLobby' \ {c} = InLobby \ {c}
      /\ Admitted' \ {c} = Admitted \ {c}
      /\ Checking' \ {c} = Checking \ {c}
      /\ Connected' \ {c} = Connected \ {c} /\ Queueing' \ {c} = Queueing \ {c}
  BY <1>1, <1>5 DEF WebHolders, InLobby, Admitted, Checking, InApi, Connected, Queueing
<1>7. /\ c \in WebHolders <=> WebHeld(c, at[c], told[c])
      /\ c \in WebHolders' <=> WebHeld(c, a, w)
  BY <1>1 DEF WebHolders, WebHeld
<1>8. /\ c \in InLobby <=> at[c] = "lobby"
      /\ c \in InLobby' <=> a = "lobby"
  BY <1>1 DEF InLobby, AdmissionInv, CallerFine
<1>9. /\ c \in Admitted <=> (c \notin HealthCalls /\ at[c] \in Inside)
      /\ c \in Admitted' <=> (c \notin HealthCalls /\ a \in Inside)
      /\ c \in Checking <=> (c \in HealthCalls /\ at[c] \in Inside)
      /\ c \in Checking' <=> (c \in HealthCalls /\ a \in Inside)
  BY <1>1, <1>5 DEF Admitted, Checking, InApi
<1>10. /\ c \in Connected <=> link[c] = "has"
       /\ c \in Connected' <=> l = "has"
       /\ c \in Queueing <=> link[c] = "waiting"
       /\ c \in Queueing' <=> l = "waiting"
  BY <1>1 DEF Connected, Queueing
<1>11. /\ webFree + Cardinality(WebHolders) = WebPlaces
       /\ webWaiting = Cardinality(InLobby)
       /\ apiFree + Cardinality(Admitted) = ApiPlaces
       /\ healthFree + Cardinality(Checking) = HealthPlaces
       /\ poolFree + Cardinality(Connected) + One(logger = "writing") = PoolMax
       /\ poolWaiting = Cardinality(Queueing)
       /\ webFree \in Nat /\ webWaiting \in Nat /\ apiFree \in Nat /\ healthFree \in Nat
       /\ poolFree \in Nat /\ poolWaiting \in Nat
  BY DEF AdmissionInv, AdmissionTypes, PlacesAccounted, WebHolders, InLobby, Admitted, Checking,
         Connected, Queueing, One
<1>12. webFree' + Cardinality(WebHolders') = WebPlaces
  <2>1. /\ Cardinality(WebHolders) \in Nat /\ Cardinality(WebHolders') \in Nat
        /\ Cardinality(WebHolders') + One(c \in WebHolders)
             = Cardinality(WebHolders) + One(c \in WebHolders')
    <3>1. IsFiniteSet(WebHolders) /\ WebHolders' \ {c} = WebHolders \ {c}
      BY <1>6, AdmissionSets
    <3> QED BY <3>1, CountMoves
  <2>2. /\ One(c \in WebHolders) = One(WebHeld(c, at[c], told[c]))
        /\ One(c \in WebHolders') = One(WebHeld(c, a, w))
    BY <1>7 DEF One
  <2> QED BY <1>11, <2>1, <2>2, OneIsNumber DEF Balanced
<1>13. webWaiting' = Cardinality(InLobby')
  <2>1. /\ Cardinality(InLobby) \in Nat /\ Cardinality(InLobby') \in Nat
        /\ Cardinality(InLobby') + One(c \in InLobby)
             = Cardinality(InLobby) + One(c \in InLobby')
    <3>1. IsFiniteSet(InLobby) /\ InLobby' \ {c} = InLobby \ {c}
      BY <1>6, AdmissionSets
    <3> QED BY <3>1, CountMoves
  <2>2. One(c \in InLobby) = One(at[c] = "lobby") /\ One(c \in InLobby') = One(a = "lobby")
    BY <1>8 DEF One
  <2> QED BY <1>11, <2>1, <2>2, OneIsNumber DEF Balanced
<1>14. apiFree' + Cardinality(Admitted') = ApiPlaces
  <2>1. /\ Cardinality(Admitted) \in Nat /\ Cardinality(Admitted') \in Nat
        /\ Cardinality(Admitted') + One(c \in Admitted)
             = Cardinality(Admitted) + One(c \in Admitted')
    <3>1. IsFiniteSet(Admitted) /\ Admitted' \ {c} = Admitted \ {c}
      BY <1>6, AdmissionSets
    <3> QED BY <3>1, CountMoves
  <2>2. One(c \in Admitted) = One(c \notin HealthCalls /\ at[c] \in Inside) /\ One(c \in Admitted') = One(c \notin HealthCalls /\ a \in Inside)
    BY <1>9 DEF One
  <2> QED BY <1>11, <2>1, <2>2, OneIsNumber DEF Balanced
<1>15. healthFree' + Cardinality(Checking') = HealthPlaces
  <2>1. /\ Cardinality(Checking) \in Nat /\ Cardinality(Checking') \in Nat
        /\ Cardinality(Checking') + One(c \in Checking)
             = Cardinality(Checking) + One(c \in Checking')
    <3>1. IsFiniteSet(Checking) /\ Checking' \ {c} = Checking \ {c}
      BY <1>6, AdmissionSets
    <3> QED BY <3>1, CountMoves
  <2>2. One(c \in Checking) = One(c \in HealthCalls /\ at[c] \in Inside) /\ One(c \in Checking') = One(c \in HealthCalls /\ a \in Inside)
    BY <1>9 DEF One
  <2> QED BY <1>11, <2>1, <2>2, OneIsNumber DEF Balanced
<1>16. poolFree' + Cardinality(Connected') + One(logger' = "writing") = PoolMax
  <2>1. /\ Cardinality(Connected) \in Nat /\ Cardinality(Connected') \in Nat
        /\ Cardinality(Connected') + One(c \in Connected)
             = Cardinality(Connected) + One(c \in Connected')
    <3>1. IsFiniteSet(Connected) /\ Connected' \ {c} = Connected \ {c}
      BY <1>6, AdmissionSets
    <3> QED BY <3>1, CountMoves
  <2>2. One(c \in Connected) = One(link[c] = "has") /\ One(c \in Connected') = One(l = "has")
    BY <1>10 DEF One
  <2>3. One(logger' = "writing") = One(logger = "writing")
    BY DEF One, LoggerKeeps
  <2> QED BY <1>11, <2>1, <2>2, <2>3, OneIsNumber DEF Balanced
<1>17. poolWaiting' = Cardinality(Queueing')
  <2>1. /\ Cardinality(Queueing) \in Nat /\ Cardinality(Queueing') \in Nat
        /\ Cardinality(Queueing') + One(c \in Queueing)
             = Cardinality(Queueing) + One(c \in Queueing')
    <3>1. IsFiniteSet(Queueing) /\ Queueing' \ {c} = Queueing \ {c}
      BY <1>6, AdmissionSets
    <3> QED BY <3>1, CountMoves
  <2>2. One(c \in Queueing) = One(link[c] = "waiting") /\ One(c \in Queueing') = One(l = "waiting")
    BY <1>10 DEF One
  <2> QED BY <1>11, <2>1, <2>2, OneIsNumber DEF Balanced
<1>18. PlacesAccounted'
  <2>1. poolWaiting' <= PoolQueue
    BY DEF Balanced
  <2> QED BY <2>1, <1>12, <1>13, <1>14, <1>15, <1>16, <1>17
     DEF PlacesAccounted, WebHolders, InLobby, Admitted, Checking,
         Connected, Queueing, One
<1> QED BY <1>2, <1>3, <1>4, <1>18 DEF AdmissionInv

LEMMA CallerNow ==
  ASSUME AdmissionInv, NEW c \in Callers
  PROVE  /\ at[c] \in Steps /\ link[c] \in Links /\ told[c] \in Words /\ reply[c] \in Replies
         /\ CallerBecomes(c, at[c], link[c], told[c], reply[c])
              <=> at' = at /\ link' = link /\ told' = told /\ reply' = reply
         /\ at = [at EXCEPT ![c] = at[c]] /\ link = [link EXCEPT ![c] = link[c]]
         /\ told = [told EXCEPT ![c] = told[c]] /\ reply = [reply EXCEPT ![c] = reply[c]]
         /\ CallerFine(c, at[c], link[c], told[c], reply[c], done)
         /\ logger \in {"idle", "asked", "writing"}
         /\ webFree \in Nat /\ webWaiting \in Nat /\ apiFree \in Nat /\ healthFree \in Nat
         /\ poolFree \in Nat /\ poolWaiting \in Nat /\ poolWaiting <= PoolQueue
         /\ at[c] = "lobby" => webWaiting >= 1
         /\ link[c] = "waiting" => poolWaiting >= 1
<1>1. /\ at \in [Callers -> Steps] /\ link \in [Callers -> Links]
      /\ told \in [Callers -> Words] /\ reply \in [Callers -> Replies]
  BY DEF AdmissionInv, AdmissionTypes
<1>2. /\ at[c] \in Steps /\ link[c] \in Links /\ told[c] \in Words /\ reply[c] \in Replies
      /\ at = [at EXCEPT ![c] = at[c]] /\ link = [link EXCEPT ![c] = link[c]]
      /\ told = [told EXCEPT ![c] = told[c]] /\ reply = [reply EXCEPT ![c] = reply[c]]
  BY <1>1
<1>3. /\ CallerFine(c, at[c], link[c], told[c], reply[c], done)
      /\ logger \in {"idle", "asked", "writing"}
      /\ webFree \in Nat /\ webWaiting \in Nat /\ apiFree \in Nat /\ healthFree \in Nat
      /\ poolFree \in Nat /\ poolWaiting \in Nat /\ poolWaiting <= PoolQueue
  BY DEF AdmissionInv, AdmissionTypes, PlacesAccounted
<1>4. ASSUME NEW S, IsFiniteSet(S), c \in S
      PROVE  Cardinality(S) \in Nat /\ Cardinality(S) >= 1
  <2>1. IsFiniteSet(S \ {c}) /\ Cardinality(S \ {c}) = Cardinality(S) - 1
    BY <1>4, FS_RemoveElement
  <2> QED BY <1>4, <2>1, FS_CardinalityType
<1>5. at[c] = "lobby" => webWaiting >= 1
  <2>1. at[c] = "lobby" => c \in InLobby
    BY <1>3 DEF CallerFine, InLobby
  <2>2. webWaiting = Cardinality(InLobby)
    BY DEF AdmissionInv, PlacesAccounted, InLobby
  <2> QED BY <1>4, <2>1, <2>2, AdmissionSets
<1>6. link[c] = "waiting" => poolWaiting >= 1
  <2>1. link[c] = "waiting" => c \in Queueing
    BY DEF Queueing
  <2>2. poolWaiting = Cardinality(Queueing)
    BY DEF AdmissionInv, PlacesAccounted, Queueing
  <2> QED BY <1>4, <2>1, <2>2, AdmissionSets
<1> QED BY <1>2, <1>3, <1>5, <1>6 DEF CallerBecomes

LEMMA EnterKeeps ==
  ASSUME AdmissionInv, NEW c \in Callers, Enter(c)
  PROVE  AdmissionInv'
<1>1. /\ c \in WebCalls \/ c \in AppCalls \/ c \in HealthCalls
      /\ c \in AppCalls => c \notin WebCalls /\ c \notin HealthCalls
      /\ c \in HealthCalls => c \notin WebCalls /\ c \notin Writes
      /\ PoolQueue \in Nat
  BY AdmissionAssumption DEF AdmissionAssumption, Callers
<1>2. /\ webFree \in Nat /\ webWaiting \in Nat /\ apiFree \in Nat /\ healthFree \in Nat
      /\ poolFree \in Nat /\ poolWaiting \in Nat /\ poolWaiting <= PoolQueue
      /\ at[c] \in Steps /\ link[c] \in Links
      /\ at[c] = "lobby" => webWaiting >= 1 /\ c \in WebCalls
      /\ link[c] = "waiting" => poolWaiting >= 1
      /\ link[c] # "none" => at[c] \in UsesPool
      /\ at[c] \in {"new", "lobby"} => told[c] = "none"
  BY CallerNow DEF CallerFine
<1>3. CASE /\ webFree > 0 /\ Move(c, "new", "sent") /\ webFree' = webFree - 1
          /\ UNCHANGED <<webWaiting, told>>
  <2>1. /\ c \in WebCalls /\ at[c] = "new" /\ webFree > 0
          /\ webFree' = webFree - 1
          /\ link' = link /\ told' = told /\ reply' = reply /\ webWaiting' = webWaiting
          /\ apiFree' = apiFree /\ healthFree' = healthFree /\ poolFree' = poolFree /\ poolWaiting' = poolWaiting
          /\ logger' = logger /\ done' = done
    BY <1>3, <1>2, Zenon DEF Enter, web, api, pool, Move, Say, WebDone
  <2>2. "sent" \in Steps /\ link[c] \in Links /\ told[c] \in Words /\ reply[c] \in Replies
    BY <1>1, <1>2, <2>1, CallerNow DEF Steps, Links, Words, Replies
  <2>3. CallerBecomes(c, "sent", link[c], told[c], reply[c])
    BY <2>1, <1>3, CallerNow, Zenon DEF CallerBecomes, Enter, Move, Say
  <2>4. Balanced(c, "sent", link[c], told[c])
    <3>1. /\ webFree' \in Nat /\ webWaiting' \in Nat /\ apiFree' \in Nat /\ healthFree' \in Nat
          /\ poolFree' \in Nat /\ poolWaiting' \in Nat /\ poolWaiting' <= PoolQueue
      BY <1>1, <1>2, <2>1 DEF UsesPool
    <3>2. webFree' + One(WebHeld(c, "sent", told[c])) = webFree + One(WebHeld(c, at[c], told[c]))
      BY <1>1, <1>2, <2>1 DEF One, Inside, UsesPool, WebHeld
    <3>3. webWaiting' + One(at[c] = "lobby") = webWaiting + One("sent" = "lobby")
      BY <1>1, <1>2, <2>1 DEF One, Inside, UsesPool
    <3>4. /\ apiFree' + One(c \notin HealthCalls /\ "sent" \in Inside)
               = apiFree + One(c \notin HealthCalls /\ at[c] \in Inside)
          /\ healthFree' + One(c \in HealthCalls /\ "sent" \in Inside)
               = healthFree + One(c \in HealthCalls /\ at[c] \in Inside)
      BY <1>1, <1>2, <2>1 DEF One, Inside, UsesPool
    <3>5. /\ poolFree' + One(link[c] = "has") = poolFree + One(link[c] = "has")
          /\ poolWaiting' + One(link[c] = "waiting") = poolWaiting + One(link[c] = "waiting")
      BY <1>1, <1>2, <2>1 DEF One, Inside, UsesPool
    <3> QED BY <3>1, <3>2, <3>3, <3>4, <3>5 DEF Balanced
  <2>5. /\ done' \in {done, done \cup ({c} \cap Writes)} /\ LoggerKeeps
        /\ CallerFine(c, "sent", link[c], told[c], reply[c], done')
    BY <1>1, <1>2, <2>1, CallerNow DEF CallerFine, UsesPool, BeforeHandler, LoggerKeeps
  <2> QED BY <2>2, <2>3, <2>4, <2>5, CallerMoves
<1>4. CASE /\ webFree = 0 /\ webWaiting < WebQueue /\ Move(c, "new", "lobby")
          /\ webWaiting' = webWaiting + 1 /\ UNCHANGED <<webFree, told>>
  <2>1. /\ c \in WebCalls /\ at[c] = "new"
          /\ webWaiting' = webWaiting + 1
          /\ link' = link /\ told' = told /\ reply' = reply /\ webFree' = webFree
          /\ apiFree' = apiFree /\ healthFree' = healthFree /\ poolFree' = poolFree /\ poolWaiting' = poolWaiting
          /\ logger' = logger /\ done' = done
    BY <1>4, <1>2, Zenon DEF Enter, web, api, pool, Move, Say, WebDone
  <2>2. "lobby" \in Steps /\ link[c] \in Links /\ told[c] \in Words /\ reply[c] \in Replies
    BY <1>1, <1>2, <2>1, CallerNow DEF Steps, Links, Words, Replies
  <2>3. CallerBecomes(c, "lobby", link[c], told[c], reply[c])
    BY <2>1, <1>4, CallerNow, Zenon DEF CallerBecomes, Enter, Move, Say
  <2>4. Balanced(c, "lobby", link[c], told[c])
    <3>1. /\ webFree' \in Nat /\ webWaiting' \in Nat /\ apiFree' \in Nat /\ healthFree' \in Nat
          /\ poolFree' \in Nat /\ poolWaiting' \in Nat /\ poolWaiting' <= PoolQueue
      BY <1>1, <1>2, <2>1 DEF UsesPool
    <3>2. webFree' + One(WebHeld(c, "lobby", told[c])) = webFree + One(WebHeld(c, at[c], told[c]))
      BY <1>1, <1>2, <2>1 DEF One, Inside, UsesPool, WebHeld
    <3>3. webWaiting' + One(at[c] = "lobby") = webWaiting + One("lobby" = "lobby")
      BY <1>1, <1>2, <2>1 DEF One, Inside, UsesPool
    <3>4. /\ apiFree' + One(c \notin HealthCalls /\ "lobby" \in Inside)
               = apiFree + One(c \notin HealthCalls /\ at[c] \in Inside)
          /\ healthFree' + One(c \in HealthCalls /\ "lobby" \in Inside)
               = healthFree + One(c \in HealthCalls /\ at[c] \in Inside)
      BY <1>1, <1>2, <2>1 DEF One, Inside, UsesPool
    <3>5. /\ poolFree' + One(link[c] = "has") = poolFree + One(link[c] = "has")
          /\ poolWaiting' + One(link[c] = "waiting") = poolWaiting + One(link[c] = "waiting")
      BY <1>1, <1>2, <2>1 DEF One, Inside, UsesPool
    <3> QED BY <3>1, <3>2, <3>3, <3>4, <3>5 DEF Balanced
  <2>5. /\ done' \in {done, done \cup ({c} \cap Writes)} /\ LoggerKeeps
        /\ CallerFine(c, "lobby", link[c], told[c], reply[c], done')
    BY <1>1, <1>2, <2>1, CallerNow DEF CallerFine, UsesPool, BeforeHandler, LoggerKeeps
  <2> QED BY <2>2, <2>3, <2>4, <2>5, CallerMoves
<1>5. CASE /\ webFree = 0 /\ webWaiting = WebQueue /\ Move(c, "new", "gone")
          /\ Say(c, "try again") /\ UNCHANGED web
  <2>1. /\ c \in WebCalls /\ at[c] = "new"
          /\ link' = link /\ reply' = reply /\ webFree' = webFree /\ webWaiting' = webWaiting
          /\ apiFree' = apiFree /\ healthFree' = healthFree /\ poolFree' = poolFree /\ poolWaiting' = poolWaiting
          /\ logger' = logger /\ done' = done
    BY <1>5, <1>2, Zenon DEF Enter, web, api, pool, Move, Say, WebDone
  <2>2. "gone" \in Steps /\ link[c] \in Links /\ "try again" \in Words /\ reply[c] \in Replies
    BY <1>1, <1>2, <2>1, CallerNow DEF Steps, Links, Words, Replies
  <2>3. CallerBecomes(c, "gone", link[c], "try again", reply[c])
    BY <2>1, <1>5, CallerNow, Zenon DEF CallerBecomes, Enter, Move, Say
  <2>4. Balanced(c, "gone", link[c], "try again")
    <3>1. /\ webFree' \in Nat /\ webWaiting' \in Nat /\ apiFree' \in Nat /\ healthFree' \in Nat
          /\ poolFree' \in Nat /\ poolWaiting' \in Nat /\ poolWaiting' <= PoolQueue
      BY <1>1, <1>2, <2>1 DEF UsesPool
    <3>2. webFree' + One(WebHeld(c, "gone", "try again")) = webFree + One(WebHeld(c, at[c], told[c]))
      BY <1>1, <1>2, <2>1 DEF One, Inside, UsesPool, WebHeld
    <3>3. webWaiting' + One(at[c] = "lobby") = webWaiting + One("gone" = "lobby")
      BY <1>1, <1>2, <2>1 DEF One, Inside, UsesPool
    <3>4. /\ apiFree' + One(c \notin HealthCalls /\ "gone" \in Inside)
               = apiFree + One(c \notin HealthCalls /\ at[c] \in Inside)
          /\ healthFree' + One(c \in HealthCalls /\ "gone" \in Inside)
               = healthFree + One(c \in HealthCalls /\ at[c] \in Inside)
      BY <1>1, <1>2, <2>1 DEF One, Inside, UsesPool
    <3>5. /\ poolFree' + One(link[c] = "has") = poolFree + One(link[c] = "has")
          /\ poolWaiting' + One(link[c] = "waiting") = poolWaiting + One(link[c] = "waiting")
      BY <1>1, <1>2, <2>1 DEF One, Inside, UsesPool
    <3> QED BY <3>1, <3>2, <3>3, <3>4, <3>5 DEF Balanced
  <2>5. /\ done' \in {done, done \cup ({c} \cap Writes)} /\ LoggerKeeps
        /\ CallerFine(c, "gone", link[c], "try again", reply[c], done')
    BY <1>1, <1>2, <2>1, CallerNow DEF CallerFine, UsesPool, BeforeHandler, LoggerKeeps
  <2> QED BY <2>2, <2>3, <2>4, <2>5, CallerMoves
<1> QED BY <1>3, <1>4, <1>5, <1>2, Zenon DEF Enter, web

LEMMA LeaveLobbyKeeps ==
  ASSUME AdmissionInv, NEW c \in Callers, LeaveLobby(c)
  PROVE  AdmissionInv'
<1>1. /\ c \in WebCalls \/ c \in AppCalls \/ c \in HealthCalls
      /\ c \in AppCalls => c \notin WebCalls /\ c \notin HealthCalls
      /\ c \in HealthCalls => c \notin WebCalls /\ c \notin Writes
      /\ PoolQueue \in Nat
  BY AdmissionAssumption DEF AdmissionAssumption, Callers
<1>2. /\ webFree \in Nat /\ webWaiting \in Nat /\ apiFree \in Nat /\ healthFree \in Nat
      /\ poolFree \in Nat /\ poolWaiting \in Nat /\ poolWaiting <= PoolQueue
      /\ at[c] \in Steps /\ link[c] \in Links
      /\ at[c] = "lobby" => webWaiting >= 1 /\ c \in WebCalls
      /\ link[c] = "waiting" => poolWaiting >= 1
      /\ link[c] # "none" => at[c] \in UsesPool
      /\ at[c] \in {"new", "lobby"} => told[c] = "none"
  BY CallerNow DEF CallerFine
<1>3. CASE /\ webFree > 0 /\ Move(c, "lobby", "sent") /\ webFree' = webFree - 1
          /\ UNCHANGED told
  <2>1. /\ at[c] = "lobby" /\ webFree > 0
          /\ webFree' = webFree - 1 /\ webWaiting' = webWaiting - 1
          /\ link' = link /\ told' = told /\ reply' = reply
          /\ apiFree' = apiFree /\ healthFree' = healthFree /\ poolFree' = poolFree /\ poolWaiting' = poolWaiting
          /\ logger' = logger /\ done' = done
    BY <1>3, <1>2, Zenon DEF LeaveLobby, web, api, pool, Move, Say, WebDone
  <2>2. "sent" \in Steps /\ link[c] \in Links /\ told[c] \in Words /\ reply[c] \in Replies
    BY <1>1, <1>2, <2>1, CallerNow DEF Steps, Links, Words, Replies
  <2>3. CallerBecomes(c, "sent", link[c], told[c], reply[c])
    BY <2>1, <1>3, CallerNow, Zenon DEF CallerBecomes, LeaveLobby, Move, Say
  <2>4. Balanced(c, "sent", link[c], told[c])
    <3>1. /\ webFree' \in Nat /\ webWaiting' \in Nat /\ apiFree' \in Nat /\ healthFree' \in Nat
          /\ poolFree' \in Nat /\ poolWaiting' \in Nat /\ poolWaiting' <= PoolQueue
      BY <1>1, <1>2, <2>1 DEF UsesPool
    <3>2. webFree' + One(WebHeld(c, "sent", told[c])) = webFree + One(WebHeld(c, at[c], told[c]))
      BY <1>1, <1>2, <2>1 DEF One, Inside, UsesPool, WebHeld
    <3>3. webWaiting' + One(at[c] = "lobby") = webWaiting + One("sent" = "lobby")
      BY <1>1, <1>2, <2>1 DEF One, Inside, UsesPool
    <3>4. /\ apiFree' + One(c \notin HealthCalls /\ "sent" \in Inside)
               = apiFree + One(c \notin HealthCalls /\ at[c] \in Inside)
          /\ healthFree' + One(c \in HealthCalls /\ "sent" \in Inside)
               = healthFree + One(c \in HealthCalls /\ at[c] \in Inside)
      BY <1>1, <1>2, <2>1 DEF One, Inside, UsesPool
    <3>5. /\ poolFree' + One(link[c] = "has") = poolFree + One(link[c] = "has")
          /\ poolWaiting' + One(link[c] = "waiting") = poolWaiting + One(link[c] = "waiting")
      BY <1>1, <1>2, <2>1 DEF One, Inside, UsesPool
    <3> QED BY <3>1, <3>2, <3>3, <3>4, <3>5 DEF Balanced
  <2>5. /\ done' \in {done, done \cup ({c} \cap Writes)} /\ LoggerKeeps
        /\ CallerFine(c, "sent", link[c], told[c], reply[c], done')
    BY <1>1, <1>2, <2>1, CallerNow DEF CallerFine, UsesPool, BeforeHandler, LoggerKeeps
  <2> QED BY <2>2, <2>3, <2>4, <2>5, CallerMoves
<1>4. CASE Move(c, "lobby", "gone") /\ Say(c, "try again") /\ UNCHANGED webFree
  <2>1. /\ at[c] = "lobby"
          /\ webWaiting' = webWaiting - 1
          /\ link' = link /\ reply' = reply /\ webFree' = webFree
          /\ apiFree' = apiFree /\ healthFree' = healthFree /\ poolFree' = poolFree /\ poolWaiting' = poolWaiting
          /\ logger' = logger /\ done' = done
    BY <1>4, <1>2, Zenon DEF LeaveLobby, web, api, pool, Move, Say, WebDone
  <2>2. "gone" \in Steps /\ link[c] \in Links /\ "try again" \in Words /\ reply[c] \in Replies
    BY <1>1, <1>2, <2>1, CallerNow DEF Steps, Links, Words, Replies
  <2>3. CallerBecomes(c, "gone", link[c], "try again", reply[c])
    BY <2>1, <1>4, CallerNow, Zenon DEF CallerBecomes, LeaveLobby, Move, Say
  <2>4. Balanced(c, "gone", link[c], "try again")
    <3>1. /\ webFree' \in Nat /\ webWaiting' \in Nat /\ apiFree' \in Nat /\ healthFree' \in Nat
          /\ poolFree' \in Nat /\ poolWaiting' \in Nat /\ poolWaiting' <= PoolQueue
      BY <1>1, <1>2, <2>1 DEF UsesPool
    <3>2. webFree' + One(WebHeld(c, "gone", "try again")) = webFree + One(WebHeld(c, at[c], told[c]))
      BY <1>1, <1>2, <2>1 DEF One, Inside, UsesPool, WebHeld
    <3>3. webWaiting' + One(at[c] = "lobby") = webWaiting + One("gone" = "lobby")
      BY <1>1, <1>2, <2>1 DEF One, Inside, UsesPool
    <3>4. /\ apiFree' + One(c \notin HealthCalls /\ "gone" \in Inside)
               = apiFree + One(c \notin HealthCalls /\ at[c] \in Inside)
          /\ healthFree' + One(c \in HealthCalls /\ "gone" \in Inside)
               = healthFree + One(c \in HealthCalls /\ at[c] \in Inside)
      BY <1>1, <1>2, <2>1 DEF One, Inside, UsesPool
    <3>5. /\ poolFree' + One(link[c] = "has") = poolFree + One(link[c] = "has")
          /\ poolWaiting' + One(link[c] = "waiting") = poolWaiting + One(link[c] = "waiting")
      BY <1>1, <1>2, <2>1 DEF One, Inside, UsesPool
    <3> QED BY <3>1, <3>2, <3>3, <3>4, <3>5 DEF Balanced
  <2>5. /\ done' \in {done, done \cup ({c} \cap Writes)} /\ LoggerKeeps
        /\ CallerFine(c, "gone", link[c], "try again", reply[c], done')
    BY <1>1, <1>2, <2>1, CallerNow DEF CallerFine, UsesPool, BeforeHandler, LoggerKeeps
  <2> QED BY <2>2, <2>3, <2>4, <2>5, CallerMoves
<1> QED BY <1>3, <1>4, <1>2, Zenon DEF LeaveLobby, web

LEMMA SendDirectlyKeeps ==
  ASSUME AdmissionInv, NEW c \in Callers, SendDirectly(c)
  PROVE  AdmissionInv'
<1>1. /\ c \in WebCalls \/ c \in AppCalls \/ c \in HealthCalls
      /\ c \in AppCalls => c \notin WebCalls /\ c \notin HealthCalls
      /\ c \in HealthCalls => c \notin WebCalls /\ c \notin Writes
      /\ PoolQueue \in Nat
  BY AdmissionAssumption DEF AdmissionAssumption, Callers
<1>2. /\ webFree \in Nat /\ webWaiting \in Nat /\ apiFree \in Nat /\ healthFree \in Nat
      /\ poolFree \in Nat /\ poolWaiting \in Nat /\ poolWaiting <= PoolQueue
      /\ at[c] \in Steps /\ link[c] \in Links
      /\ at[c] = "lobby" => webWaiting >= 1 /\ c \in WebCalls
      /\ link[c] = "waiting" => poolWaiting >= 1
      /\ link[c] # "none" => at[c] \in UsesPool
      /\ at[c] \in {"new", "lobby"} => told[c] = "none"
  BY CallerNow DEF CallerFine
<1>3. "sent" \in Steps /\ link[c] \in Links /\ told[c] \in Words /\ reply[c] \in Replies
  BY <1>1, <1>2, CallerNow DEF SendDirectly, Steps, Links, Words, Replies
<1>4. CallerBecomes(c, "sent", link[c], told[c], reply[c])
  BY <1>1, <1>2, CallerNow DEF SendDirectly, CallerBecomes, Move, Say, Answer
<1>5. Balanced(c, "sent", link[c], told[c])
  <2>1. /\ webFree' \in Nat /\ webWaiting' \in Nat /\ apiFree' \in Nat /\ healthFree' \in Nat
        /\ poolFree' \in Nat /\ poolWaiting' \in Nat /\ poolWaiting' <= PoolQueue
    BY <1>1, <1>2 DEF SendDirectly, web, api, pool, Move, Say, Answer, UsesPool
  <2>2. webFree' + One(WebHeld(c, "sent", told[c])) = webFree + One(WebHeld(c, at[c], told[c]))
    BY <1>1, <1>2 DEF SendDirectly, web, api, pool, One, Inside, UsesPool, Move, Say, Answer, WebHeld
  <2>3. webWaiting' + One(at[c] = "lobby") = webWaiting + One("sent" = "lobby")
    BY <1>1, <1>2 DEF SendDirectly, web, api, pool, One, Inside, UsesPool, Move, Say, Answer
  <2>4. /\ apiFree' + One(c \notin HealthCalls /\ "sent" \in Inside)
             = apiFree + One(c \notin HealthCalls /\ at[c] \in Inside)
        /\ healthFree' + One(c \in HealthCalls /\ "sent" \in Inside)
             = healthFree + One(c \in HealthCalls /\ at[c] \in Inside)
    BY <1>1, <1>2 DEF SendDirectly, web, api, pool, One, Inside, UsesPool, Move, Say, Answer
  <2>5. /\ poolFree' + One(link[c] = "has") = poolFree + One(link[c] = "has")
        /\ poolWaiting' + One(link[c] = "waiting") = poolWaiting + One(link[c] = "waiting")
    BY <1>1, <1>2 DEF SendDirectly, web, api, pool, One, Inside, UsesPool, Move, Say, Answer
  <2> QED BY <2>1, <2>2, <2>3, <2>4, <2>5 DEF Balanced
<1>6. /\ done' \in {done, done \cup ({c} \cap Writes)} /\ LoggerKeeps
      /\ CallerFine(c, "sent", link[c], told[c], reply[c], done')
  BY <1>1, <1>2, CallerNow DEF SendDirectly, CallerFine, UsesPool, BeforeHandler, LoggerKeeps, pool, Move, Say, Answer
<1> QED BY <1>3, <1>4, <1>5, <1>6, CallerMoves

LEMMA AdmitKeeps ==
  ASSUME AdmissionInv, NEW c \in Callers, Admit(c)
  PROVE  AdmissionInv'
<1>1. /\ c \in WebCalls \/ c \in AppCalls \/ c \in HealthCalls
      /\ c \in AppCalls => c \notin WebCalls /\ c \notin HealthCalls
      /\ c \in HealthCalls => c \notin WebCalls /\ c \notin Writes
      /\ PoolQueue \in Nat
  BY AdmissionAssumption DEF AdmissionAssumption, Callers
<1>2. /\ webFree \in Nat /\ webWaiting \in Nat /\ apiFree \in Nat /\ healthFree \in Nat
      /\ poolFree \in Nat /\ poolWaiting \in Nat /\ poolWaiting <= PoolQueue
      /\ at[c] \in Steps /\ link[c] \in Links
      /\ at[c] = "lobby" => webWaiting >= 1 /\ c \in WebCalls
      /\ link[c] = "waiting" => poolWaiting >= 1
      /\ link[c] # "none" => at[c] \in UsesPool
      /\ at[c] \in {"new", "lobby"} => told[c] = "none"
  BY CallerNow DEF CallerFine
<1>3. CASE apiFree > 0 /\ at[c] \in {"sent", "door"} /\ at' = [at EXCEPT ![c] = "session"] /\ apiFree' = apiFree - 1 /\ UNCHANGED reply
  <2>1. "session" \in Steps /\ link[c] \in Links /\ told[c] \in Words /\ reply[c] \in Replies
    BY <1>3, <1>1, <1>2, CallerNow DEF Admit, Steps, Links, Words, Replies
  <2>2. CallerBecomes(c, "session", link[c], told[c], reply[c])
    BY <1>3, <1>1, <1>2, CallerNow DEF Admit, CallerBecomes, Move, Say, Answer
  <2>3. Balanced(c, "session", link[c], told[c])
    <3>1. /\ webFree' \in Nat /\ webWaiting' \in Nat /\ apiFree' \in Nat /\ healthFree' \in Nat
          /\ poolFree' \in Nat /\ poolWaiting' \in Nat /\ poolWaiting' <= PoolQueue
      BY <1>3, <1>1, <1>2 DEF Admit, web, api, pool, Move, Say, Answer, UsesPool
    <3>2. webFree' + One(WebHeld(c, "session", told[c])) = webFree + One(WebHeld(c, at[c], told[c]))
      BY <1>3, <1>1, <1>2 DEF Admit, web, api, pool, One, Inside, UsesPool, Move, Say, Answer, WebHeld
    <3>3. webWaiting' + One(at[c] = "lobby") = webWaiting + One("session" = "lobby")
      BY <1>3, <1>1, <1>2 DEF Admit, web, api, pool, One, Inside, UsesPool, Move, Say, Answer
    <3>4. /\ apiFree' + One(c \notin HealthCalls /\ "session" \in Inside)
               = apiFree + One(c \notin HealthCalls /\ at[c] \in Inside)
          /\ healthFree' + One(c \in HealthCalls /\ "session" \in Inside)
               = healthFree + One(c \in HealthCalls /\ at[c] \in Inside)
      BY <1>3, <1>1, <1>2 DEF Admit, web, api, pool, One, Inside, UsesPool, Move, Say, Answer
    <3>5. /\ poolFree' + One(link[c] = "has") = poolFree + One(link[c] = "has")
          /\ poolWaiting' + One(link[c] = "waiting") = poolWaiting + One(link[c] = "waiting")
      BY <1>3, <1>1, <1>2 DEF Admit, web, api, pool, One, Inside, UsesPool, Move, Say, Answer
    <3> QED BY <3>1, <3>2, <3>3, <3>4, <3>5 DEF Balanced
  <2>4. /\ done' \in {done, done \cup ({c} \cap Writes)} /\ LoggerKeeps
        /\ CallerFine(c, "session", link[c], told[c], reply[c], done')
    BY <1>3, <1>1, <1>2, CallerNow DEF Admit, CallerFine, UsesPool, BeforeHandler, LoggerKeeps, pool, Move, Say, Answer
  <2> QED BY <2>1, <2>2, <2>3, <2>4, CallerMoves
<1>4. CASE apiFree = 0 /\ Move(c, "sent", "door") /\ UNCHANGED <<apiFree, reply>>
  <2>1. "door" \in Steps /\ link[c] \in Links /\ told[c] \in Words /\ reply[c] \in Replies
    BY <1>4, <1>1, <1>2, CallerNow DEF Admit, Steps, Links, Words, Replies
  <2>2. CallerBecomes(c, "door", link[c], told[c], reply[c])
    BY <1>4, <1>1, <1>2, CallerNow DEF Admit, CallerBecomes, Move, Say, Answer
  <2>3. Balanced(c, "door", link[c], told[c])
    <3>1. /\ webFree' \in Nat /\ webWaiting' \in Nat /\ apiFree' \in Nat /\ healthFree' \in Nat
          /\ poolFree' \in Nat /\ poolWaiting' \in Nat /\ poolWaiting' <= PoolQueue
      BY <1>4, <1>1, <1>2 DEF Admit, web, api, pool, Move, Say, Answer, UsesPool
    <3>2. webFree' + One(WebHeld(c, "door", told[c])) = webFree + One(WebHeld(c, at[c], told[c]))
      BY <1>4, <1>1, <1>2 DEF Admit, web, api, pool, One, Inside, UsesPool, Move, Say, Answer, WebHeld
    <3>3. webWaiting' + One(at[c] = "lobby") = webWaiting + One("door" = "lobby")
      BY <1>4, <1>1, <1>2 DEF Admit, web, api, pool, One, Inside, UsesPool, Move, Say, Answer
    <3>4. /\ apiFree' + One(c \notin HealthCalls /\ "door" \in Inside)
               = apiFree + One(c \notin HealthCalls /\ at[c] \in Inside)
          /\ healthFree' + One(c \in HealthCalls /\ "door" \in Inside)
               = healthFree + One(c \in HealthCalls /\ at[c] \in Inside)
      BY <1>4, <1>1, <1>2 DEF Admit, web, api, pool, One, Inside, UsesPool, Move, Say, Answer
    <3>5. /\ poolFree' + One(link[c] = "has") = poolFree + One(link[c] = "has")
          /\ poolWaiting' + One(link[c] = "waiting") = poolWaiting + One(link[c] = "waiting")
      BY <1>4, <1>1, <1>2 DEF Admit, web, api, pool, One, Inside, UsesPool, Move, Say, Answer
    <3> QED BY <3>1, <3>2, <3>3, <3>4, <3>5 DEF Balanced
  <2>4. /\ done' \in {done, done \cup ({c} \cap Writes)} /\ LoggerKeeps
        /\ CallerFine(c, "door", link[c], told[c], reply[c], done')
    BY <1>4, <1>1, <1>2, CallerNow DEF Admit, CallerFine, UsesPool, BeforeHandler, LoggerKeeps, pool, Move, Say, Answer
  <2> QED BY <2>1, <2>2, <2>3, <2>4, CallerMoves
<1>5. CASE Move(c, "door", "answered") /\ Answer(c, "dependency_unavailable") /\ UNCHANGED apiFree
  <2>1. "answered" \in Steps /\ link[c] \in Links /\ told[c] \in Words /\ "dependency_unavailable" \in Replies
    BY <1>5, <1>1, <1>2, CallerNow DEF Admit, Steps, Links, Words, Replies
  <2>2. CallerBecomes(c, "answered", link[c], told[c], "dependency_unavailable")
    BY <1>5, <1>1, <1>2, CallerNow DEF Admit, CallerBecomes, Move, Say, Answer
  <2>3. Balanced(c, "answered", link[c], told[c])
    <3>1. /\ webFree' \in Nat /\ webWaiting' \in Nat /\ apiFree' \in Nat /\ healthFree' \in Nat
          /\ poolFree' \in Nat /\ poolWaiting' \in Nat /\ poolWaiting' <= PoolQueue
      BY <1>5, <1>1, <1>2 DEF Admit, web, api, pool, Move, Say, Answer, UsesPool
    <3>2. webFree' + One(WebHeld(c, "answered", told[c])) = webFree + One(WebHeld(c, at[c], told[c]))
      BY <1>5, <1>1, <1>2 DEF Admit, web, api, pool, One, Inside, UsesPool, Move, Say, Answer, WebHeld
    <3>3. webWaiting' + One(at[c] = "lobby") = webWaiting + One("answered" = "lobby")
      BY <1>5, <1>1, <1>2 DEF Admit, web, api, pool, One, Inside, UsesPool, Move, Say, Answer
    <3>4. /\ apiFree' + One(c \notin HealthCalls /\ "answered" \in Inside)
               = apiFree + One(c \notin HealthCalls /\ at[c] \in Inside)
          /\ healthFree' + One(c \in HealthCalls /\ "answered" \in Inside)
               = healthFree + One(c \in HealthCalls /\ at[c] \in Inside)
      BY <1>5, <1>1, <1>2 DEF Admit, web, api, pool, One, Inside, UsesPool, Move, Say, Answer
    <3>5. /\ poolFree' + One(link[c] = "has") = poolFree + One(link[c] = "has")
          /\ poolWaiting' + One(link[c] = "waiting") = poolWaiting + One(link[c] = "waiting")
      BY <1>5, <1>1, <1>2 DEF Admit, web, api, pool, One, Inside, UsesPool, Move, Say, Answer
    <3> QED BY <3>1, <3>2, <3>3, <3>4, <3>5 DEF Balanced
  <2>4. /\ done' \in {done, done \cup ({c} \cap Writes)} /\ LoggerKeeps
        /\ CallerFine(c, "answered", link[c], told[c], "dependency_unavailable", done')
    BY <1>5, <1>1, <1>2, CallerNow DEF Admit, CallerFine, UsesPool, BeforeHandler, LoggerKeeps, pool, Move, Say, Answer
  <2> QED BY <2>1, <2>2, <2>3, <2>4, CallerMoves
<1> QED BY <1>3, <1>4, <1>5, <1>1 DEF Admit, Move

LEMMA AdmitHealthKeeps ==
  ASSUME AdmissionInv, NEW c \in Callers, AdmitHealth(c)
  PROVE  AdmissionInv'
<1>1. /\ c \in WebCalls \/ c \in AppCalls \/ c \in HealthCalls
      /\ c \in AppCalls => c \notin WebCalls /\ c \notin HealthCalls
      /\ c \in HealthCalls => c \notin WebCalls /\ c \notin Writes
      /\ PoolQueue \in Nat
  BY AdmissionAssumption DEF AdmissionAssumption, Callers
<1>2. /\ webFree \in Nat /\ webWaiting \in Nat /\ apiFree \in Nat /\ healthFree \in Nat
      /\ poolFree \in Nat /\ poolWaiting \in Nat /\ poolWaiting <= PoolQueue
      /\ at[c] \in Steps /\ link[c] \in Links
      /\ at[c] = "lobby" => webWaiting >= 1 /\ c \in WebCalls
      /\ link[c] = "waiting" => poolWaiting >= 1
      /\ link[c] # "none" => at[c] \in UsesPool
      /\ at[c] \in {"new", "lobby"} => told[c] = "none"
  BY CallerNow DEF CallerFine
<1>3. CASE healthFree > 0
  <2>1. "session" \in Steps /\ link[c] \in Links /\ told[c] \in Words /\ reply[c] \in Replies
    BY <1>3, <1>1, <1>2, CallerNow DEF AdmitHealth, Steps, Links, Words, Replies
  <2>2. CallerBecomes(c, "session", link[c], told[c], reply[c])
    BY <1>3, <1>1, <1>2, CallerNow DEF AdmitHealth, CallerBecomes, Move, Say, Answer
  <2>3. Balanced(c, "session", link[c], told[c])
    <3>1. /\ webFree' \in Nat /\ webWaiting' \in Nat /\ apiFree' \in Nat /\ healthFree' \in Nat
          /\ poolFree' \in Nat /\ poolWaiting' \in Nat /\ poolWaiting' <= PoolQueue
      BY <1>3, <1>1, <1>2 DEF AdmitHealth, web, api, pool, Move, Say, Answer, UsesPool
    <3>2. webFree' + One(WebHeld(c, "session", told[c])) = webFree + One(WebHeld(c, at[c], told[c]))
      BY <1>3, <1>1, <1>2 DEF AdmitHealth, web, api, pool, One, Inside, UsesPool, Move, Say, Answer, WebHeld
    <3>3. webWaiting' + One(at[c] = "lobby") = webWaiting + One("session" = "lobby")
      BY <1>3, <1>1, <1>2 DEF AdmitHealth, web, api, pool, One, Inside, UsesPool, Move, Say, Answer
    <3>4. /\ apiFree' + One(c \notin HealthCalls /\ "session" \in Inside)
               = apiFree + One(c \notin HealthCalls /\ at[c] \in Inside)
          /\ healthFree' + One(c \in HealthCalls /\ "session" \in Inside)
               = healthFree + One(c \in HealthCalls /\ at[c] \in Inside)
      BY <1>3, <1>1, <1>2 DEF AdmitHealth, web, api, pool, One, Inside, UsesPool, Move, Say, Answer
    <3>5. /\ poolFree' + One(link[c] = "has") = poolFree + One(link[c] = "has")
          /\ poolWaiting' + One(link[c] = "waiting") = poolWaiting + One(link[c] = "waiting")
      BY <1>3, <1>1, <1>2 DEF AdmitHealth, web, api, pool, One, Inside, UsesPool, Move, Say, Answer
    <3> QED BY <3>1, <3>2, <3>3, <3>4, <3>5 DEF Balanced
  <2>4. /\ done' \in {done, done \cup ({c} \cap Writes)} /\ LoggerKeeps
        /\ CallerFine(c, "session", link[c], told[c], reply[c], done')
    BY <1>3, <1>1, <1>2, CallerNow DEF AdmitHealth, CallerFine, UsesPool, BeforeHandler, LoggerKeeps, pool, Move, Say, Answer
  <2> QED BY <2>1, <2>2, <2>3, <2>4, CallerMoves
<1>4. CASE healthFree = 0
  <2>1. "answered" \in Steps /\ link[c] \in Links /\ told[c] \in Words /\ "dependency_unavailable" \in Replies
    BY <1>4, <1>1, <1>2, CallerNow DEF AdmitHealth, Steps, Links, Words, Replies
  <2>2. CallerBecomes(c, "answered", link[c], told[c], "dependency_unavailable")
    BY <1>4, <1>1, <1>2, CallerNow DEF AdmitHealth, CallerBecomes, Move, Say, Answer
  <2>3. Balanced(c, "answered", link[c], told[c])
    <3>1. /\ webFree' \in Nat /\ webWaiting' \in Nat /\ apiFree' \in Nat /\ healthFree' \in Nat
          /\ poolFree' \in Nat /\ poolWaiting' \in Nat /\ poolWaiting' <= PoolQueue
      BY <1>4, <1>1, <1>2 DEF AdmitHealth, web, api, pool, Move, Say, Answer, UsesPool
    <3>2. webFree' + One(WebHeld(c, "answered", told[c])) = webFree + One(WebHeld(c, at[c], told[c]))
      BY <1>4, <1>1, <1>2 DEF AdmitHealth, web, api, pool, One, Inside, UsesPool, Move, Say, Answer, WebHeld
    <3>3. webWaiting' + One(at[c] = "lobby") = webWaiting + One("answered" = "lobby")
      BY <1>4, <1>1, <1>2 DEF AdmitHealth, web, api, pool, One, Inside, UsesPool, Move, Say, Answer
    <3>4. /\ apiFree' + One(c \notin HealthCalls /\ "answered" \in Inside)
               = apiFree + One(c \notin HealthCalls /\ at[c] \in Inside)
          /\ healthFree' + One(c \in HealthCalls /\ "answered" \in Inside)
               = healthFree + One(c \in HealthCalls /\ at[c] \in Inside)
      BY <1>4, <1>1, <1>2 DEF AdmitHealth, web, api, pool, One, Inside, UsesPool, Move, Say, Answer
    <3>5. /\ poolFree' + One(link[c] = "has") = poolFree + One(link[c] = "has")
          /\ poolWaiting' + One(link[c] = "waiting") = poolWaiting + One(link[c] = "waiting")
      BY <1>4, <1>1, <1>2 DEF AdmitHealth, web, api, pool, One, Inside, UsesPool, Move, Say, Answer
    <3> QED BY <3>1, <3>2, <3>3, <3>4, <3>5 DEF Balanced
  <2>4. /\ done' \in {done, done \cup ({c} \cap Writes)} /\ LoggerKeeps
        /\ CallerFine(c, "answered", link[c], told[c], "dependency_unavailable", done')
    BY <1>4, <1>1, <1>2, CallerNow DEF AdmitHealth, CallerFine, UsesPool, BeforeHandler, LoggerKeeps, pool, Move, Say, Answer
  <2> QED BY <2>1, <2>2, <2>3, <2>4, CallerMoves
<1> QED BY <1>3, <1>4, <1>1 DEF AdmitHealth, Move

LEMMA AskPoolKeeps ==
  ASSUME AdmissionInv, NEW c \in Callers, AskPool(c)
  PROVE  AdmissionInv'
<1>1. /\ c \in WebCalls \/ c \in AppCalls \/ c \in HealthCalls
      /\ c \in AppCalls => c \notin WebCalls /\ c \notin HealthCalls
      /\ c \in HealthCalls => c \notin WebCalls /\ c \notin Writes
      /\ PoolQueue \in Nat
  BY AdmissionAssumption DEF AdmissionAssumption, Callers
<1>2. /\ webFree \in Nat /\ webWaiting \in Nat /\ apiFree \in Nat /\ healthFree \in Nat
      /\ poolFree \in Nat /\ poolWaiting \in Nat /\ poolWaiting <= PoolQueue
      /\ at[c] \in Steps /\ link[c] \in Links
      /\ at[c] = "lobby" => webWaiting >= 1 /\ c \in WebCalls
      /\ link[c] = "waiting" => poolWaiting >= 1
      /\ link[c] # "none" => at[c] \in UsesPool
      /\ at[c] \in {"new", "lobby"} => told[c] = "none"
  BY CallerNow DEF CallerFine
<1>3. CASE poolFree > 0
  <2>1. at[c] \in Steps /\ "has" \in Links /\ told[c] \in Words /\ reply[c] \in Replies
    BY <1>3, <1>1, <1>2, CallerNow DEF AskPool, Steps, Links, Words, Replies
  <2>2. CallerBecomes(c, at[c], "has", told[c], reply[c])
    BY <1>3, <1>1, <1>2, CallerNow DEF AskPool, CallerBecomes, Move, Say, Answer
  <2>3. Balanced(c, at[c], "has", told[c])
    <3>1. /\ webFree' \in Nat /\ webWaiting' \in Nat /\ apiFree' \in Nat /\ healthFree' \in Nat
          /\ poolFree' \in Nat /\ poolWaiting' \in Nat /\ poolWaiting' <= PoolQueue
      BY <1>3, <1>1, <1>2 DEF AskPool, web, api, pool, Move, Say, Answer, UsesPool
    <3>2. webFree' + One(WebHeld(c, at[c], told[c])) = webFree + One(WebHeld(c, at[c], told[c]))
      BY <1>3, <1>1, <1>2 DEF AskPool, web, api, pool, One, Inside, UsesPool, Move, Say, Answer, WebHeld
    <3>3. webWaiting' + One(at[c] = "lobby") = webWaiting + One(at[c] = "lobby")
      BY <1>3, <1>1, <1>2 DEF AskPool, web, api, pool, One, Inside, UsesPool, Move, Say, Answer
    <3>4. /\ apiFree' + One(c \notin HealthCalls /\ at[c] \in Inside)
               = apiFree + One(c \notin HealthCalls /\ at[c] \in Inside)
          /\ healthFree' + One(c \in HealthCalls /\ at[c] \in Inside)
               = healthFree + One(c \in HealthCalls /\ at[c] \in Inside)
      BY <1>3, <1>1, <1>2 DEF AskPool, web, api, pool, One, Inside, UsesPool, Move, Say, Answer
    <3>5. /\ poolFree' + One("has" = "has") = poolFree + One(link[c] = "has")
          /\ poolWaiting' + One(link[c] = "waiting") = poolWaiting + One("has" = "waiting")
      BY <1>3, <1>1, <1>2 DEF AskPool, web, api, pool, One, Inside, UsesPool, Move, Say, Answer
    <3> QED BY <3>1, <3>2, <3>3, <3>4, <3>5 DEF Balanced
  <2>4. /\ done' \in {done, done \cup ({c} \cap Writes)} /\ LoggerKeeps
        /\ CallerFine(c, at[c], "has", told[c], reply[c], done')
    BY <1>3, <1>1, <1>2, CallerNow DEF AskPool, CallerFine, UsesPool, BeforeHandler, LoggerKeeps, pool, Move, Say, Answer
  <2> QED BY <2>1, <2>2, <2>3, <2>4, CallerMoves
<1>4. CASE poolFree = 0
  <2>1. at[c] \in Steps /\ "waiting" \in Links /\ told[c] \in Words /\ reply[c] \in Replies
    BY <1>4, <1>1, <1>2, CallerNow DEF AskPool, Steps, Links, Words, Replies
  <2>2. CallerBecomes(c, at[c], "waiting", told[c], reply[c])
    BY <1>4, <1>1, <1>2, CallerNow DEF AskPool, CallerBecomes, Move, Say, Answer
  <2>3. Balanced(c, at[c], "waiting", told[c])
    <3>1. /\ webFree' \in Nat /\ webWaiting' \in Nat /\ apiFree' \in Nat /\ healthFree' \in Nat
          /\ poolFree' \in Nat /\ poolWaiting' \in Nat /\ poolWaiting' <= PoolQueue
      BY <1>4, <1>1, <1>2 DEF AskPool, web, api, pool, Move, Say, Answer, UsesPool
    <3>2. webFree' + One(WebHeld(c, at[c], told[c])) = webFree + One(WebHeld(c, at[c], told[c]))
      BY <1>4, <1>1, <1>2 DEF AskPool, web, api, pool, One, Inside, UsesPool, Move, Say, Answer, WebHeld
    <3>3. webWaiting' + One(at[c] = "lobby") = webWaiting + One(at[c] = "lobby")
      BY <1>4, <1>1, <1>2 DEF AskPool, web, api, pool, One, Inside, UsesPool, Move, Say, Answer
    <3>4. /\ apiFree' + One(c \notin HealthCalls /\ at[c] \in Inside)
               = apiFree + One(c \notin HealthCalls /\ at[c] \in Inside)
          /\ healthFree' + One(c \in HealthCalls /\ at[c] \in Inside)
               = healthFree + One(c \in HealthCalls /\ at[c] \in Inside)
      BY <1>4, <1>1, <1>2 DEF AskPool, web, api, pool, One, Inside, UsesPool, Move, Say, Answer
    <3>5. /\ poolFree' + One("waiting" = "has") = poolFree + One(link[c] = "has")
          /\ poolWaiting' + One(link[c] = "waiting") = poolWaiting + One("waiting" = "waiting")
      BY <1>4, <1>1, <1>2 DEF AskPool, web, api, pool, One, Inside, UsesPool, Move, Say, Answer
    <3> QED BY <3>1, <3>2, <3>3, <3>4, <3>5 DEF Balanced
  <2>4. /\ done' \in {done, done \cup ({c} \cap Writes)} /\ LoggerKeeps
        /\ CallerFine(c, at[c], "waiting", told[c], reply[c], done')
    BY <1>4, <1>1, <1>2, CallerNow DEF AskPool, CallerFine, UsesPool, BeforeHandler, LoggerKeeps, pool, Move, Say, Answer
  <2> QED BY <2>1, <2>2, <2>3, <2>4, CallerMoves
<1> QED BY <1>3, <1>4, <1>1 DEF AskPool, Move

LEMMA GetConnectionKeeps ==
  ASSUME AdmissionInv, NEW c \in Callers, GetConnection(c)
  PROVE  AdmissionInv'
<1>1. /\ c \in WebCalls \/ c \in AppCalls \/ c \in HealthCalls
      /\ c \in AppCalls => c \notin WebCalls /\ c \notin HealthCalls
      /\ c \in HealthCalls => c \notin WebCalls /\ c \notin Writes
      /\ PoolQueue \in Nat
  BY AdmissionAssumption DEF AdmissionAssumption, Callers
<1>2. /\ webFree \in Nat /\ webWaiting \in Nat /\ apiFree \in Nat /\ healthFree \in Nat
      /\ poolFree \in Nat /\ poolWaiting \in Nat /\ poolWaiting <= PoolQueue
      /\ at[c] \in Steps /\ link[c] \in Links
      /\ at[c] = "lobby" => webWaiting >= 1 /\ c \in WebCalls
      /\ link[c] = "waiting" => poolWaiting >= 1
      /\ link[c] # "none" => at[c] \in UsesPool
      /\ at[c] \in {"new", "lobby"} => told[c] = "none"
  BY CallerNow DEF CallerFine
<1>3. at[c] \in Steps /\ "has" \in Links /\ told[c] \in Words /\ reply[c] \in Replies
  BY <1>1, <1>2, CallerNow DEF GetConnection, Steps, Links, Words, Replies
<1>4. CallerBecomes(c, at[c], "has", told[c], reply[c])
  BY <1>1, <1>2, CallerNow DEF GetConnection, CallerBecomes, Move, Say, Answer
<1>5. Balanced(c, at[c], "has", told[c])
  <2>1. /\ webFree' \in Nat /\ webWaiting' \in Nat /\ apiFree' \in Nat /\ healthFree' \in Nat
        /\ poolFree' \in Nat /\ poolWaiting' \in Nat /\ poolWaiting' <= PoolQueue
    BY <1>1, <1>2 DEF GetConnection, web, api, pool, Move, Say, Answer, UsesPool
  <2>2. webFree' + One(WebHeld(c, at[c], told[c])) = webFree + One(WebHeld(c, at[c], told[c]))
    BY <1>1, <1>2 DEF GetConnection, web, api, pool, One, Inside, UsesPool, Move, Say, Answer, WebHeld
  <2>3. webWaiting' + One(at[c] = "lobby") = webWaiting + One(at[c] = "lobby")
    BY <1>1, <1>2 DEF GetConnection, web, api, pool, One, Inside, UsesPool, Move, Say, Answer
  <2>4. /\ apiFree' + One(c \notin HealthCalls /\ at[c] \in Inside)
             = apiFree + One(c \notin HealthCalls /\ at[c] \in Inside)
        /\ healthFree' + One(c \in HealthCalls /\ at[c] \in Inside)
             = healthFree + One(c \in HealthCalls /\ at[c] \in Inside)
    BY <1>1, <1>2 DEF GetConnection, web, api, pool, One, Inside, UsesPool, Move, Say, Answer
  <2>5. /\ poolFree' + One("has" = "has") = poolFree + One(link[c] = "has")
        /\ poolWaiting' + One(link[c] = "waiting") = poolWaiting + One("has" = "waiting")
    BY <1>1, <1>2 DEF GetConnection, web, api, pool, One, Inside, UsesPool, Move, Say, Answer
  <2> QED BY <2>1, <2>2, <2>3, <2>4, <2>5 DEF Balanced
<1>6. /\ done' \in {done, done \cup ({c} \cap Writes)} /\ LoggerKeeps
      /\ CallerFine(c, at[c], "has", told[c], reply[c], done')
  BY <1>1, <1>2, CallerNow DEF GetConnection, CallerFine, UsesPool, BeforeHandler, LoggerKeeps, pool, Move, Say, Answer
<1> QED BY <1>3, <1>4, <1>5, <1>6, CallerMoves

LEMMA NoConnectionKeeps ==
  ASSUME AdmissionInv, NEW c \in Callers, NoConnection(c)
  PROVE  AdmissionInv'
<1>1. /\ c \in WebCalls \/ c \in AppCalls \/ c \in HealthCalls
      /\ c \in AppCalls => c \notin WebCalls /\ c \notin HealthCalls
      /\ c \in HealthCalls => c \notin WebCalls /\ c \notin Writes
      /\ PoolQueue \in Nat
  BY AdmissionAssumption DEF AdmissionAssumption, Callers
<1>2. /\ webFree \in Nat /\ webWaiting \in Nat /\ apiFree \in Nat /\ healthFree \in Nat
      /\ poolFree \in Nat /\ poolWaiting \in Nat /\ poolWaiting <= PoolQueue
      /\ at[c] \in Steps /\ link[c] \in Links
      /\ at[c] = "lobby" => webWaiting >= 1 /\ c \in WebCalls
      /\ link[c] = "waiting" => poolWaiting >= 1
      /\ link[c] # "none" => at[c] \in UsesPool
      /\ at[c] \in {"new", "lobby"} => told[c] = "none"
  BY CallerNow DEF CallerFine
<1>3. CASE at[c] \in {"session", "policy"}
  <2>1. AfterLookup(c) \in Steps /\ "none" \in Links /\ told[c] \in Words /\ reply[c] \in Replies
    BY <1>3, <1>1, <1>2, CallerNow DEF NoConnection, AfterLookup, Steps, Links, Words, Replies
  <2>2. CallerBecomes(c, AfterLookup(c), "none", told[c], reply[c])
    BY <1>3, <1>1, <1>2, CallerNow DEF NoConnection, AfterLookup, CallerBecomes, Move, Say, Answer
  <2>3. Balanced(c, AfterLookup(c), "none", told[c])
    <3>1. /\ webFree' \in Nat /\ webWaiting' \in Nat /\ apiFree' \in Nat /\ healthFree' \in Nat
          /\ poolFree' \in Nat /\ poolWaiting' \in Nat /\ poolWaiting' <= PoolQueue
      BY <1>3, <1>1, <1>2 DEF NoConnection, AfterLookup, web, api, pool, Move, Say, Answer, UsesPool
    <3>2. webFree' + One(WebHeld(c, AfterLookup(c), told[c])) = webFree + One(WebHeld(c, at[c], told[c]))
      BY <1>3, <1>1, <1>2 DEF NoConnection, AfterLookup, web, api, pool, One, Inside, UsesPool, Move, Say, Answer, WebHeld
    <3>3. webWaiting' + One(at[c] = "lobby") = webWaiting + One(AfterLookup(c) = "lobby")
      BY <1>3, <1>1, <1>2 DEF NoConnection, AfterLookup, web, api, pool, One, Inside, UsesPool, Move, Say, Answer
    <3>4. /\ apiFree' + One(c \notin HealthCalls /\ AfterLookup(c) \in Inside)
               = apiFree + One(c \notin HealthCalls /\ at[c] \in Inside)
          /\ healthFree' + One(c \in HealthCalls /\ AfterLookup(c) \in Inside)
               = healthFree + One(c \in HealthCalls /\ at[c] \in Inside)
      BY <1>3, <1>1, <1>2 DEF NoConnection, AfterLookup, web, api, pool, One, Inside, UsesPool, Move, Say, Answer
    <3>5. /\ poolFree' + One("none" = "has") = poolFree + One(link[c] = "has")
          /\ poolWaiting' + One(link[c] = "waiting") = poolWaiting + One("none" = "waiting")
      BY <1>3, <1>1, <1>2 DEF NoConnection, AfterLookup, web, api, pool, One, Inside, UsesPool, Move, Say, Answer
    <3> QED BY <3>1, <3>2, <3>3, <3>4, <3>5 DEF Balanced
  <2>4. /\ done' \in {done, done \cup ({c} \cap Writes)} /\ LoggerKeeps
        /\ CallerFine(c, AfterLookup(c), "none", told[c], reply[c], done')
    BY <1>3, <1>1, <1>2, CallerNow DEF NoConnection, AfterLookup, CallerFine, UsesPool, BeforeHandler, LoggerKeeps, pool, Move, Say, Answer
  <2> QED BY <2>1, <2>2, <2>3, <2>4, CallerMoves
<1>4. CASE at[c] = "handler"
  <2>1. (IF c \in HealthCalls THEN "policy" ELSE "leaving") \in Steps /\ "none" \in Links /\ told[c] \in Words /\ "dependency_unavailable" \in Replies
    BY <1>4, <1>1, <1>2, CallerNow DEF NoConnection, AfterLookup, Steps, Links, Words, Replies
  <2>2. CallerBecomes(c, (IF c \in HealthCalls THEN "policy" ELSE "leaving"), "none", told[c], "dependency_unavailable")
    BY <1>4, <1>1, <1>2, CallerNow DEF NoConnection, AfterLookup, CallerBecomes, Move, Say, Answer
  <2>3. Balanced(c, (IF c \in HealthCalls THEN "policy" ELSE "leaving"), "none", told[c])
    <3>1. /\ webFree' \in Nat /\ webWaiting' \in Nat /\ apiFree' \in Nat /\ healthFree' \in Nat
          /\ poolFree' \in Nat /\ poolWaiting' \in Nat /\ poolWaiting' <= PoolQueue
      BY <1>4, <1>1, <1>2 DEF NoConnection, AfterLookup, web, api, pool, Move, Say, Answer, UsesPool
    <3>2. webFree' + One(WebHeld(c, (IF c \in HealthCalls THEN "policy" ELSE "leaving"), told[c])) = webFree + One(WebHeld(c, at[c], told[c]))
      BY <1>4, <1>1, <1>2 DEF NoConnection, AfterLookup, web, api, pool, One, Inside, UsesPool, Move, Say, Answer, WebHeld
    <3>3. webWaiting' + One(at[c] = "lobby") = webWaiting + One((IF c \in HealthCalls THEN "policy" ELSE "leaving") = "lobby")
      BY <1>4, <1>1, <1>2 DEF NoConnection, AfterLookup, web, api, pool, One, Inside, UsesPool, Move, Say, Answer
    <3>4. /\ apiFree' + One(c \notin HealthCalls /\ (IF c \in HealthCalls THEN "policy" ELSE "leaving") \in Inside)
               = apiFree + One(c \notin HealthCalls /\ at[c] \in Inside)
          /\ healthFree' + One(c \in HealthCalls /\ (IF c \in HealthCalls THEN "policy" ELSE "leaving") \in Inside)
               = healthFree + One(c \in HealthCalls /\ at[c] \in Inside)
      BY <1>4, <1>1, <1>2 DEF NoConnection, AfterLookup, web, api, pool, One, Inside, UsesPool, Move, Say, Answer
    <3>5. /\ poolFree' + One("none" = "has") = poolFree + One(link[c] = "has")
          /\ poolWaiting' + One(link[c] = "waiting") = poolWaiting + One("none" = "waiting")
      BY <1>4, <1>1, <1>2 DEF NoConnection, AfterLookup, web, api, pool, One, Inside, UsesPool, Move, Say, Answer
    <3> QED BY <3>1, <3>2, <3>3, <3>4, <3>5 DEF Balanced
  <2>4. /\ done' \in {done, done \cup ({c} \cap Writes)} /\ LoggerKeeps
        /\ CallerFine(c, (IF c \in HealthCalls THEN "policy" ELSE "leaving"), "none", told[c], "dependency_unavailable", done')
    BY <1>4, <1>1, <1>2, CallerNow DEF NoConnection, AfterLookup, CallerFine, UsesPool, BeforeHandler, LoggerKeeps, pool, Move, Say, Answer
  <2> QED BY <2>1, <2>2, <2>3, <2>4, CallerMoves
<1> QED BY <1>3, <1>4, <1>1 DEF NoConnection, AfterLookup, Move

LEMMA AnonymousKeeps ==
  ASSUME AdmissionInv, NEW c \in Callers, Anonymous(c)
  PROVE  AdmissionInv'
<1>1. /\ c \in WebCalls \/ c \in AppCalls \/ c \in HealthCalls
      /\ c \in AppCalls => c \notin WebCalls /\ c \notin HealthCalls
      /\ c \in HealthCalls => c \notin WebCalls /\ c \notin Writes
      /\ PoolQueue \in Nat
  BY AdmissionAssumption DEF AdmissionAssumption, Callers
<1>2. /\ webFree \in Nat /\ webWaiting \in Nat /\ apiFree \in Nat /\ healthFree \in Nat
      /\ poolFree \in Nat /\ poolWaiting \in Nat /\ poolWaiting <= PoolQueue
      /\ at[c] \in Steps /\ link[c] \in Links
      /\ at[c] = "lobby" => webWaiting >= 1 /\ c \in WebCalls
      /\ link[c] = "waiting" => poolWaiting >= 1
      /\ link[c] # "none" => at[c] \in UsesPool
      /\ at[c] \in {"new", "lobby"} => told[c] = "none"
  BY CallerNow DEF CallerFine
<1>3. AfterLookup(c) \in Steps /\ "none" \in Links /\ told[c] \in Words /\ reply[c] \in Replies
  BY <1>1, <1>2, CallerNow DEF Anonymous, AfterLookup, Steps, Links, Words, Replies
<1>4. CallerBecomes(c, AfterLookup(c), "none", told[c], reply[c])
  BY <1>1, <1>2, CallerNow DEF Anonymous, AfterLookup, CallerBecomes, Move, Say, Answer
<1>5. Balanced(c, AfterLookup(c), "none", told[c])
  <2>1. /\ webFree' \in Nat /\ webWaiting' \in Nat /\ apiFree' \in Nat /\ healthFree' \in Nat
        /\ poolFree' \in Nat /\ poolWaiting' \in Nat /\ poolWaiting' <= PoolQueue
    BY <1>1, <1>2 DEF Anonymous, AfterLookup, web, api, pool, Move, Say, Answer, UsesPool
  <2>2. webFree' + One(WebHeld(c, AfterLookup(c), told[c])) = webFree + One(WebHeld(c, at[c], told[c]))
    BY <1>1, <1>2 DEF Anonymous, AfterLookup, web, api, pool, One, Inside, UsesPool, Move, Say, Answer, WebHeld
  <2>3. webWaiting' + One(at[c] = "lobby") = webWaiting + One(AfterLookup(c) = "lobby")
    BY <1>1, <1>2 DEF Anonymous, AfterLookup, web, api, pool, One, Inside, UsesPool, Move, Say, Answer
  <2>4. /\ apiFree' + One(c \notin HealthCalls /\ AfterLookup(c) \in Inside)
             = apiFree + One(c \notin HealthCalls /\ at[c] \in Inside)
        /\ healthFree' + One(c \in HealthCalls /\ AfterLookup(c) \in Inside)
             = healthFree + One(c \in HealthCalls /\ at[c] \in Inside)
    BY <1>1, <1>2 DEF Anonymous, AfterLookup, web, api, pool, One, Inside, UsesPool, Move, Say, Answer
  <2>5. /\ poolFree' + One("none" = "has") = poolFree + One(link[c] = "has")
        /\ poolWaiting' + One(link[c] = "waiting") = poolWaiting + One("none" = "waiting")
    BY <1>1, <1>2 DEF Anonymous, AfterLookup, web, api, pool, One, Inside, UsesPool, Move, Say, Answer
  <2> QED BY <2>1, <2>2, <2>3, <2>4, <2>5 DEF Balanced
<1>6. /\ done' \in {done, done \cup ({c} \cap Writes)} /\ LoggerKeeps
      /\ CallerFine(c, AfterLookup(c), "none", told[c], reply[c], done')
  BY <1>1, <1>2, CallerNow DEF Anonymous, AfterLookup, CallerFine, UsesPool, BeforeHandler, LoggerKeeps, pool, Move, Say, Answer
<1> QED BY <1>3, <1>4, <1>5, <1>6, CallerMoves

LEMMA LookupDoneKeeps ==
  ASSUME AdmissionInv, NEW c \in Callers, LookupDone(c)
  PROVE  AdmissionInv'
<1>1. /\ c \in WebCalls \/ c \in AppCalls \/ c \in HealthCalls
      /\ c \in AppCalls => c \notin WebCalls /\ c \notin HealthCalls
      /\ c \in HealthCalls => c \notin WebCalls /\ c \notin Writes
      /\ PoolQueue \in Nat
  BY AdmissionAssumption DEF AdmissionAssumption, Callers
<1>2. /\ webFree \in Nat /\ webWaiting \in Nat /\ apiFree \in Nat /\ healthFree \in Nat
      /\ poolFree \in Nat /\ poolWaiting \in Nat /\ poolWaiting <= PoolQueue
      /\ at[c] \in Steps /\ link[c] \in Links
      /\ at[c] = "lobby" => webWaiting >= 1 /\ c \in WebCalls
      /\ link[c] = "waiting" => poolWaiting >= 1
      /\ link[c] # "none" => at[c] \in UsesPool
      /\ at[c] \in {"new", "lobby"} => told[c] = "none"
  BY CallerNow DEF CallerFine
<1>3. AfterLookup(c) \in Steps /\ "none" \in Links /\ told[c] \in Words /\ reply[c] \in Replies
  BY <1>1, <1>2, CallerNow DEF LookupDone, ReturnConnection, AfterLookup, Steps, Links, Words, Replies
<1>4. CallerBecomes(c, AfterLookup(c), "none", told[c], reply[c])
  BY <1>1, <1>2, CallerNow DEF LookupDone, ReturnConnection, AfterLookup, CallerBecomes, Move, Say, Answer
<1>5. Balanced(c, AfterLookup(c), "none", told[c])
  <2>1. /\ webFree' \in Nat /\ webWaiting' \in Nat /\ apiFree' \in Nat /\ healthFree' \in Nat
        /\ poolFree' \in Nat /\ poolWaiting' \in Nat /\ poolWaiting' <= PoolQueue
    BY <1>1, <1>2 DEF LookupDone, ReturnConnection, AfterLookup, web, api, pool, Move, Say, Answer, UsesPool
  <2>2. webFree' + One(WebHeld(c, AfterLookup(c), told[c])) = webFree + One(WebHeld(c, at[c], told[c]))
    BY <1>1, <1>2 DEF LookupDone, ReturnConnection, AfterLookup, web, api, pool, One, Inside, UsesPool, Move, Say, Answer, WebHeld
  <2>3. webWaiting' + One(at[c] = "lobby") = webWaiting + One(AfterLookup(c) = "lobby")
    BY <1>1, <1>2 DEF LookupDone, ReturnConnection, AfterLookup, web, api, pool, One, Inside, UsesPool, Move, Say, Answer
  <2>4. /\ apiFree' + One(c \notin HealthCalls /\ AfterLookup(c) \in Inside)
             = apiFree + One(c \notin HealthCalls /\ at[c] \in Inside)
        /\ healthFree' + One(c \in HealthCalls /\ AfterLookup(c) \in Inside)
             = healthFree + One(c \in HealthCalls /\ at[c] \in Inside)
    BY <1>1, <1>2 DEF LookupDone, ReturnConnection, AfterLookup, web, api, pool, One, Inside, UsesPool, Move, Say, Answer
  <2>5. /\ poolFree' + One("none" = "has") = poolFree + One(link[c] = "has")
        /\ poolWaiting' + One(link[c] = "waiting") = poolWaiting + One("none" = "waiting")
    BY <1>1, <1>2 DEF LookupDone, ReturnConnection, AfterLookup, web, api, pool, One, Inside, UsesPool, Move, Say, Answer
  <2> QED BY <2>1, <2>2, <2>3, <2>4, <2>5 DEF Balanced
<1>6. /\ done' \in {done, done \cup ({c} \cap Writes)} /\ LoggerKeeps
      /\ CallerFine(c, AfterLookup(c), "none", told[c], reply[c], done')
  BY <1>1, <1>2, CallerNow DEF LookupDone, ReturnConnection, AfterLookup, CallerFine, UsesPool, BeforeHandler, LoggerKeeps, pool, Move, Say, Answer
<1> QED BY <1>3, <1>4, <1>5, <1>6, CallerMoves

LEMMA CommittedKeeps ==
  ASSUME AdmissionInv, NEW c \in Callers, Committed(c)
  PROVE  AdmissionInv'
<1>1. /\ c \in WebCalls \/ c \in AppCalls \/ c \in HealthCalls
      /\ c \in AppCalls => c \notin WebCalls /\ c \notin HealthCalls
      /\ c \in HealthCalls => c \notin WebCalls /\ c \notin Writes
      /\ PoolQueue \in Nat
  BY AdmissionAssumption DEF AdmissionAssumption, Callers
<1>2. /\ webFree \in Nat /\ webWaiting \in Nat /\ apiFree \in Nat /\ healthFree \in Nat
      /\ poolFree \in Nat /\ poolWaiting \in Nat /\ poolWaiting <= PoolQueue
      /\ at[c] \in Steps /\ link[c] \in Links
      /\ at[c] = "lobby" => webWaiting >= 1 /\ c \in WebCalls
      /\ link[c] = "waiting" => poolWaiting >= 1
      /\ link[c] # "none" => at[c] \in UsesPool
      /\ at[c] \in {"new", "lobby"} => told[c] = "none"
  BY CallerNow DEF CallerFine
<1>3. (IF c \in HealthCalls THEN "policy" ELSE "leaving") \in Steps /\ "none" \in Links /\ told[c] \in Words /\ "ok" \in Replies
  BY <1>1, <1>2, CallerNow DEF Committed, HandlerEnds, ReturnConnection, Steps, Links, Words, Replies
<1>4. CallerBecomes(c, (IF c \in HealthCalls THEN "policy" ELSE "leaving"), "none", told[c], "ok")
  BY <1>1, <1>2, CallerNow DEF Committed, HandlerEnds, ReturnConnection, CallerBecomes, Move, Say, Answer
<1>5. Balanced(c, (IF c \in HealthCalls THEN "policy" ELSE "leaving"), "none", told[c])
  <2>1. /\ webFree' \in Nat /\ webWaiting' \in Nat /\ apiFree' \in Nat /\ healthFree' \in Nat
        /\ poolFree' \in Nat /\ poolWaiting' \in Nat /\ poolWaiting' <= PoolQueue
    BY <1>1, <1>2 DEF Committed, HandlerEnds, ReturnConnection, web, api, pool, Move, Say, Answer, UsesPool
  <2>2. webFree' + One(WebHeld(c, (IF c \in HealthCalls THEN "policy" ELSE "leaving"), told[c])) = webFree + One(WebHeld(c, at[c], told[c]))
    BY <1>1, <1>2 DEF Committed, HandlerEnds, ReturnConnection, web, api, pool, One, Inside, UsesPool, Move, Say, Answer, WebHeld
  <2>3. webWaiting' + One(at[c] = "lobby") = webWaiting + One((IF c \in HealthCalls THEN "policy" ELSE "leaving") = "lobby")
    BY <1>1, <1>2 DEF Committed, HandlerEnds, ReturnConnection, web, api, pool, One, Inside, UsesPool, Move, Say, Answer
  <2>4. /\ apiFree' + One(c \notin HealthCalls /\ (IF c \in HealthCalls THEN "policy" ELSE "leaving") \in Inside)
             = apiFree + One(c \notin HealthCalls /\ at[c] \in Inside)
        /\ healthFree' + One(c \in HealthCalls /\ (IF c \in HealthCalls THEN "policy" ELSE "leaving") \in Inside)
             = healthFree + One(c \in HealthCalls /\ at[c] \in Inside)
    BY <1>1, <1>2 DEF Committed, HandlerEnds, ReturnConnection, web, api, pool, One, Inside, UsesPool, Move, Say, Answer
  <2>5. /\ poolFree' + One("none" = "has") = poolFree + One(link[c] = "has")
        /\ poolWaiting' + One(link[c] = "waiting") = poolWaiting + One("none" = "waiting")
    BY <1>1, <1>2 DEF Committed, HandlerEnds, ReturnConnection, web, api, pool, One, Inside, UsesPool, Move, Say, Answer
  <2> QED BY <2>1, <2>2, <2>3, <2>4, <2>5 DEF Balanced
<1>6. /\ done' \in {done, done \cup ({c} \cap Writes)} /\ LoggerKeeps
      /\ CallerFine(c, (IF c \in HealthCalls THEN "policy" ELSE "leaving"), "none", told[c], "ok", done')
  BY <1>1, <1>2, CallerNow DEF Committed, HandlerEnds, ReturnConnection, CallerFine, UsesPool, BeforeHandler, LoggerKeeps, pool, Move, Say, Answer
<1> QED BY <1>3, <1>4, <1>5, <1>6, CallerMoves

LEMMA DomainRefusesKeeps ==
  ASSUME AdmissionInv, NEW c \in Callers, DomainRefuses(c)
  PROVE  AdmissionInv'
<1>1. /\ c \in WebCalls \/ c \in AppCalls \/ c \in HealthCalls
      /\ c \in AppCalls => c \notin WebCalls /\ c \notin HealthCalls
      /\ c \in HealthCalls => c \notin WebCalls /\ c \notin Writes
      /\ PoolQueue \in Nat
  BY AdmissionAssumption DEF AdmissionAssumption, Callers
<1>2. /\ webFree \in Nat /\ webWaiting \in Nat /\ apiFree \in Nat /\ healthFree \in Nat
      /\ poolFree \in Nat /\ poolWaiting \in Nat /\ poolWaiting <= PoolQueue
      /\ at[c] \in Steps /\ link[c] \in Links
      /\ at[c] = "lobby" => webWaiting >= 1 /\ c \in WebCalls
      /\ link[c] = "waiting" => poolWaiting >= 1
      /\ link[c] # "none" => at[c] \in UsesPool
      /\ at[c] \in {"new", "lobby"} => told[c] = "none"
  BY CallerNow DEF CallerFine
<1>3. (IF c \in HealthCalls THEN "policy" ELSE "leaving") \in Steps /\ "none" \in Links /\ told[c] \in Words /\ "refused" \in Replies
  BY <1>1, <1>2, CallerNow DEF DomainRefuses, HandlerEnds, ReturnConnection, Steps, Links, Words, Replies
<1>4. CallerBecomes(c, (IF c \in HealthCalls THEN "policy" ELSE "leaving"), "none", told[c], "refused")
  BY <1>1, <1>2, CallerNow DEF DomainRefuses, HandlerEnds, ReturnConnection, CallerBecomes, Move, Say, Answer
<1>5. Balanced(c, (IF c \in HealthCalls THEN "policy" ELSE "leaving"), "none", told[c])
  <2>1. /\ webFree' \in Nat /\ webWaiting' \in Nat /\ apiFree' \in Nat /\ healthFree' \in Nat
        /\ poolFree' \in Nat /\ poolWaiting' \in Nat /\ poolWaiting' <= PoolQueue
    BY <1>1, <1>2 DEF DomainRefuses, HandlerEnds, ReturnConnection, web, api, pool, Move, Say, Answer, UsesPool
  <2>2. webFree' + One(WebHeld(c, (IF c \in HealthCalls THEN "policy" ELSE "leaving"), told[c])) = webFree + One(WebHeld(c, at[c], told[c]))
    BY <1>1, <1>2 DEF DomainRefuses, HandlerEnds, ReturnConnection, web, api, pool, One, Inside, UsesPool, Move, Say, Answer, WebHeld
  <2>3. webWaiting' + One(at[c] = "lobby") = webWaiting + One((IF c \in HealthCalls THEN "policy" ELSE "leaving") = "lobby")
    BY <1>1, <1>2 DEF DomainRefuses, HandlerEnds, ReturnConnection, web, api, pool, One, Inside, UsesPool, Move, Say, Answer
  <2>4. /\ apiFree' + One(c \notin HealthCalls /\ (IF c \in HealthCalls THEN "policy" ELSE "leaving") \in Inside)
             = apiFree + One(c \notin HealthCalls /\ at[c] \in Inside)
        /\ healthFree' + One(c \in HealthCalls /\ (IF c \in HealthCalls THEN "policy" ELSE "leaving") \in Inside)
             = healthFree + One(c \in HealthCalls /\ at[c] \in Inside)
    BY <1>1, <1>2 DEF DomainRefuses, HandlerEnds, ReturnConnection, web, api, pool, One, Inside, UsesPool, Move, Say, Answer
  <2>5. /\ poolFree' + One("none" = "has") = poolFree + One(link[c] = "has")
        /\ poolWaiting' + One(link[c] = "waiting") = poolWaiting + One("none" = "waiting")
    BY <1>1, <1>2 DEF DomainRefuses, HandlerEnds, ReturnConnection, web, api, pool, One, Inside, UsesPool, Move, Say, Answer
  <2> QED BY <2>1, <2>2, <2>3, <2>4, <2>5 DEF Balanced
<1>6. /\ done' \in {done, done \cup ({c} \cap Writes)} /\ LoggerKeeps
      /\ CallerFine(c, (IF c \in HealthCalls THEN "policy" ELSE "leaving"), "none", told[c], "refused", done')
  BY <1>1, <1>2, CallerNow DEF DomainRefuses, HandlerEnds, ReturnConnection, CallerFine, UsesPool, BeforeHandler, LoggerKeeps, pool, Move, Say, Answer
<1> QED BY <1>3, <1>4, <1>5, <1>6, CallerMoves

LEMMA ConnectionLostKeeps ==
  ASSUME AdmissionInv, NEW c \in Callers, ConnectionLost(c)
  PROVE  AdmissionInv'
<1>1. /\ c \in WebCalls \/ c \in AppCalls \/ c \in HealthCalls
      /\ c \in AppCalls => c \notin WebCalls /\ c \notin HealthCalls
      /\ c \in HealthCalls => c \notin WebCalls /\ c \notin Writes
      /\ PoolQueue \in Nat
  BY AdmissionAssumption DEF AdmissionAssumption, Callers
<1>2. /\ webFree \in Nat /\ webWaiting \in Nat /\ apiFree \in Nat /\ healthFree \in Nat
      /\ poolFree \in Nat /\ poolWaiting \in Nat /\ poolWaiting <= PoolQueue
      /\ at[c] \in Steps /\ link[c] \in Links
      /\ at[c] = "lobby" => webWaiting >= 1 /\ c \in WebCalls
      /\ link[c] = "waiting" => poolWaiting >= 1
      /\ link[c] # "none" => at[c] \in UsesPool
      /\ at[c] \in {"new", "lobby"} => told[c] = "none"
  BY CallerNow DEF CallerFine
<1>3. (IF c \in HealthCalls THEN "policy" ELSE "leaving") \in Steps /\ "none" \in Links /\ told[c] \in Words /\ LostConnectionCode(c) \in Replies
  BY <1>1, <1>2, CallerNow DEF ConnectionLost, HandlerEnds, ReturnConnection, LostConnectionCode, Steps, Links, Words, Replies
<1>4. CallerBecomes(c, (IF c \in HealthCalls THEN "policy" ELSE "leaving"), "none", told[c], LostConnectionCode(c))
  BY <1>1, <1>2, CallerNow DEF ConnectionLost, HandlerEnds, ReturnConnection, LostConnectionCode, CallerBecomes, Move, Say, Answer
<1>5. Balanced(c, (IF c \in HealthCalls THEN "policy" ELSE "leaving"), "none", told[c])
  <2>1. /\ webFree' \in Nat /\ webWaiting' \in Nat /\ apiFree' \in Nat /\ healthFree' \in Nat
        /\ poolFree' \in Nat /\ poolWaiting' \in Nat /\ poolWaiting' <= PoolQueue
    BY <1>1, <1>2 DEF ConnectionLost, HandlerEnds, ReturnConnection, LostConnectionCode, web, api, pool, Move, Say, Answer, UsesPool
  <2>2. webFree' + One(WebHeld(c, (IF c \in HealthCalls THEN "policy" ELSE "leaving"), told[c])) = webFree + One(WebHeld(c, at[c], told[c]))
    BY <1>1, <1>2 DEF ConnectionLost, HandlerEnds, ReturnConnection, LostConnectionCode, web, api, pool, One, Inside, UsesPool, Move, Say, Answer, WebHeld
  <2>3. webWaiting' + One(at[c] = "lobby") = webWaiting + One((IF c \in HealthCalls THEN "policy" ELSE "leaving") = "lobby")
    BY <1>1, <1>2 DEF ConnectionLost, HandlerEnds, ReturnConnection, LostConnectionCode, web, api, pool, One, Inside, UsesPool, Move, Say, Answer
  <2>4. /\ apiFree' + One(c \notin HealthCalls /\ (IF c \in HealthCalls THEN "policy" ELSE "leaving") \in Inside)
             = apiFree + One(c \notin HealthCalls /\ at[c] \in Inside)
        /\ healthFree' + One(c \in HealthCalls /\ (IF c \in HealthCalls THEN "policy" ELSE "leaving") \in Inside)
             = healthFree + One(c \in HealthCalls /\ at[c] \in Inside)
    BY <1>1, <1>2 DEF ConnectionLost, HandlerEnds, ReturnConnection, LostConnectionCode, web, api, pool, One, Inside, UsesPool, Move, Say, Answer
  <2>5. /\ poolFree' + One("none" = "has") = poolFree + One(link[c] = "has")
        /\ poolWaiting' + One(link[c] = "waiting") = poolWaiting + One("none" = "waiting")
    BY <1>1, <1>2 DEF ConnectionLost, HandlerEnds, ReturnConnection, LostConnectionCode, web, api, pool, One, Inside, UsesPool, Move, Say, Answer
  <2> QED BY <2>1, <2>2, <2>3, <2>4, <2>5 DEF Balanced
<1>6. /\ done' \in {done, done \cup ({c} \cap Writes)} /\ LoggerKeeps
      /\ CallerFine(c, (IF c \in HealthCalls THEN "policy" ELSE "leaving"), "none", told[c], LostConnectionCode(c), done')
  BY <1>1, <1>2, CallerNow DEF ConnectionLost, HandlerEnds, ReturnConnection, LostConnectionCode, CallerFine, UsesPool, BeforeHandler, LoggerKeeps, pool, Move, Say, Answer
<1> QED BY <1>3, <1>4, <1>5, <1>6, CallerMoves

LEMMA LeaveKeeps ==
  ASSUME AdmissionInv, NEW c \in Callers, Leave(c)
  PROVE  AdmissionInv'
<1>1. /\ c \in WebCalls \/ c \in AppCalls \/ c \in HealthCalls
      /\ c \in AppCalls => c \notin WebCalls /\ c \notin HealthCalls
      /\ c \in HealthCalls => c \notin WebCalls /\ c \notin Writes
      /\ PoolQueue \in Nat
  BY AdmissionAssumption DEF AdmissionAssumption, Callers
<1>2. /\ webFree \in Nat /\ webWaiting \in Nat /\ apiFree \in Nat /\ healthFree \in Nat
      /\ poolFree \in Nat /\ poolWaiting \in Nat /\ poolWaiting <= PoolQueue
      /\ at[c] \in Steps /\ link[c] \in Links
      /\ at[c] = "lobby" => webWaiting >= 1 /\ c \in WebCalls
      /\ link[c] = "waiting" => poolWaiting >= 1
      /\ link[c] # "none" => at[c] \in UsesPool
      /\ at[c] \in {"new", "lobby"} => told[c] = "none"
  BY CallerNow DEF CallerFine
<1>3. "answered" \in Steps /\ link[c] \in Links /\ told[c] \in Words /\ reply[c] \in Replies
  BY <1>1, <1>2, CallerNow DEF Leave, Steps, Links, Words, Replies
<1>4. CallerBecomes(c, "answered", link[c], told[c], reply[c])
  BY <1>1, <1>2, CallerNow DEF Leave, CallerBecomes, Move, Say, Answer
<1>5. Balanced(c, "answered", link[c], told[c])
  <2>1. /\ webFree' \in Nat /\ webWaiting' \in Nat /\ apiFree' \in Nat /\ healthFree' \in Nat
        /\ poolFree' \in Nat /\ poolWaiting' \in Nat /\ poolWaiting' <= PoolQueue
    BY <1>1, <1>2 DEF Leave, web, api, pool, Move, Say, Answer, UsesPool
  <2>2. webFree' + One(WebHeld(c, "answered", told[c])) = webFree + One(WebHeld(c, at[c], told[c]))
    BY <1>1, <1>2 DEF Leave, web, api, pool, One, Inside, UsesPool, Move, Say, Answer, WebHeld
  <2>3. webWaiting' + One(at[c] = "lobby") = webWaiting + One("answered" = "lobby")
    BY <1>1, <1>2 DEF Leave, web, api, pool, One, Inside, UsesPool, Move, Say, Answer
  <2>4. /\ apiFree' + One(c \notin HealthCalls /\ "answered" \in Inside)
             = apiFree + One(c \notin HealthCalls /\ at[c] \in Inside)
        /\ healthFree' + One(c \in HealthCalls /\ "answered" \in Inside)
             = healthFree + One(c \in HealthCalls /\ at[c] \in Inside)
    BY <1>1, <1>2 DEF Leave, web, api, pool, One, Inside, UsesPool, Move, Say, Answer
  <2>5. /\ poolFree' + One(link[c] = "has") = poolFree + One(link[c] = "has")
        /\ poolWaiting' + One(link[c] = "waiting") = poolWaiting + One(link[c] = "waiting")
    BY <1>1, <1>2 DEF Leave, web, api, pool, One, Inside, UsesPool, Move, Say, Answer
  <2> QED BY <2>1, <2>2, <2>3, <2>4, <2>5 DEF Balanced
<1>6. /\ done' \in {done, done \cup ({c} \cap Writes)} /\ LoggerKeeps
      /\ CallerFine(c, "answered", link[c], told[c], reply[c], done')
  BY <1>1, <1>2, CallerNow DEF Leave, CallerFine, UsesPool, BeforeHandler, LoggerKeeps, pool, Move, Say, Answer
<1> QED BY <1>3, <1>4, <1>5, <1>6, CallerMoves

ToldHonestly(c, a, w) ==
    c \in AppCalls /\ w = "try again" => a = "gone" /\ (c \in Writes => c \notin done)

\* A person is told something, now or together with the answer's arrival.
LEMMA PersonTold ==
  ASSUME AdmissionInv, NEW c \in Callers, NEW a \in Steps, NEW w \in Words,
         told[c] = "none", at[c] \notin {"new", "lobby", "gone"},
         (a = at[c] /\ w # "none") \/ (at[c] = "answered" /\ a = "gone"),
         ToldHonestly(c, a, w),
         CallerBecomes(c, a, link[c], w, reply[c]),
         c \in WebCalls => webFree' = webFree + 1, c \notin WebCalls => webFree' = webFree,
         webWaiting' = webWaiting,
         apiFree' = apiFree, healthFree' = healthFree,
         poolFree' = poolFree, poolWaiting' = poolWaiting, logger' = logger, done' = done
  PROVE  AdmissionInv'
<1>1. /\ webFree \in Nat /\ webWaiting \in Nat /\ apiFree \in Nat /\ healthFree \in Nat
      /\ poolFree \in Nat /\ poolWaiting \in Nat /\ poolWaiting <= PoolQueue
      /\ logger \in {"idle", "asked", "writing"}
      /\ at[c] \in Steps /\ link[c] \in Links /\ reply[c] \in Replies
      /\ CallerFine(c, at[c], link[c], told[c], reply[c], done)
  BY CallerNow
<1>3. a \in Inside <=> at[c] \in Inside
  BY DEF Inside
<1>4. Balanced(c, a, link[c], w)
  <2>1. webFree' + One(WebHeld(c, a, w)) = webFree + One(WebHeld(c, at[c], told[c]))
    BY <1>1 DEF One, WebHeld
  <2>2. One(at[c] = "lobby") = One(a = "lobby")
    BY DEF One
  <2>3. /\ One(c \notin HealthCalls /\ a \in Inside) = One(c \notin HealthCalls /\ at[c] \in Inside)
        /\ One(c \in HealthCalls /\ a \in Inside) = One(c \in HealthCalls /\ at[c] \in Inside)
    BY <1>3 DEF One
  <2>4. webFree' \in Nat
    BY <1>1
  <2> QED BY <1>1, <2>1, <2>2, <2>3, <2>4, OneIsNumber DEF Balanced
<1>5. CallerFine(c, a, link[c], w, reply[c], done')
  BY <1>1 DEF CallerFine, UsesPool, BeforeHandler, ToldHonestly
<1>6. LoggerKeeps
  BY <1>1 DEF LoggerKeeps
<1> QED BY <1>1, <1>4, <1>5, <1>6, CallerMoves

LEMMA TellKeeps ==
  ASSUME AdmissionInv, NEW c \in Callers, Tell(c)
  PROVE  AdmissionInv'
<1>1. /\ at[c] = "answered" /\ at' = [at EXCEPT ![c] = "gone"]
      /\ link' = link /\ reply' = reply /\ webWaiting' = webWaiting
      /\ apiFree' = apiFree /\ healthFree' = healthFree
      /\ poolFree' = poolFree /\ poolWaiting' = poolWaiting /\ logger' = logger /\ done' = done
  BY Zenon DEF Tell, Move, api, pool
<1>2. "gone" \in Steps
  BY DEF Steps
<1>3. /\ reply[c] \in Replies /\ told[c] \in Words /\ link[c] \in Links
      /\ CallerFine(c, at[c], link[c], told[c], reply[c], done)
  BY CallerNow
<1>4. CASE told[c] = "none" /\ Say(c, WordsFor(c, reply[c])) /\ WebDone(c)
  <2>1. PICK w : w = WordsFor(c, reply[c])
    OBVIOUS
  <2>2. w \in Words
    BY <1>3, <2>1 DEF WordsFor, Replies, Words
  <2>3. c \in AppCalls /\ w = "try again" => (c \in Writes => c \notin done)
    <3>1. c \in AppCalls => c \notin WebCalls
      BY AdmissionAssumption DEF AdmissionAssumption
    <3>2. c \in AppCalls /\ w = "try again" => reply[c] = "dependency_unavailable"
      BY <1>3, <2>1, <3>1 DEF WordsFor, Replies
    <3> QED BY <1>3, <3>2 DEF CallerFine
  <2>4. /\ told' = [told EXCEPT ![c] = w]
        /\ webFree' = IF c \in WebCalls THEN webFree + 1 ELSE webFree
    BY <1>4, <2>1, Zenon DEF Say, WebDone
  <2>5. at[c] \notin {"new", "lobby", "gone"}
    BY <1>1
  <2>6. (c \in WebCalls => webFree' = webFree + 1) /\ (c \notin WebCalls => webFree' = webFree)
    BY <2>4, Zenon
  <2>7. CallerBecomes(c, "gone", link[c], w, reply[c])
    <3>1. /\ link = [link EXCEPT ![c] = link[c]] /\ reply = [reply EXCEPT ![c] = reply[c]]
      BY CallerNow
    <3> QED BY <1>1, <2>4, <3>1, Zenon DEF CallerBecomes
  <2> QED BY <1>1, <1>2, <1>4, <2>2, <2>3, <2>5, <2>6, <2>7, PersonTold DEF ToldHonestly
<1>5. CASE told[c] # "none" /\ UNCHANGED <<told, webFree>>
  <2>1. told' = told /\ webFree' = webFree /\ told[c] # "none"
    BY <1>5
  <2>2. CallerBecomes(c, "gone", link[c], told[c], reply[c])
    <3>1. /\ link = [link EXCEPT ![c] = link[c]] /\ reply = [reply EXCEPT ![c] = reply[c]]
          /\ told = [told EXCEPT ![c] = told[c]]
      BY CallerNow
    <3> QED BY <1>1, <2>1, <3>1, Zenon DEF CallerBecomes
  <2>3. Balanced(c, "gone", link[c], told[c])
    <3>1. /\ webFree \in Nat /\ webWaiting \in Nat /\ apiFree \in Nat /\ healthFree \in Nat
          /\ poolFree \in Nat /\ poolWaiting \in Nat /\ poolWaiting <= PoolQueue
      BY CallerNow
    <3>2. /\ One(WebHeld(c, "gone", told[c])) = One(WebHeld(c, at[c], told[c]))
          /\ One(at[c] = "lobby") = One("gone" = "lobby")
          /\ One(c \notin HealthCalls /\ "gone" \in Inside) = One(c \notin HealthCalls /\ at[c] \in Inside)
          /\ One(c \in HealthCalls /\ "gone" \in Inside) = One(c \in HealthCalls /\ at[c] \in Inside)
      BY <1>1, <2>1 DEF One, WebHeld, Inside
    <3> QED BY <1>1, <2>1, <3>1, <3>2, OneIsNumber DEF Balanced
  <2>4. CallerFine(c, "gone", link[c], told[c], reply[c], done')
    BY <1>1, <1>3 DEF CallerFine, UsesPool, BeforeHandler
  <2>5. LoggerKeeps
    BY <1>1, CallerNow DEF LoggerKeeps
  <2> QED BY <1>1, <1>2, <1>3, <2>2, <2>3, <2>4, <2>5, CallerMoves
<1> QED BY <1>4, <1>5, Zenon DEF Tell

LEMMA CallerGivesUpKeeps ==
  ASSUME AdmissionInv, NEW c \in Callers, CallerGivesUp(c)
  PROVE  AdmissionInv'
<1>1. /\ told[c] = "none" /\ at[c] \notin {"new", "lobby", "answered", "gone"}
      /\ link' = link /\ reply' = reply /\ webWaiting' = webWaiting /\ at' = at
      /\ apiFree' = apiFree /\ healthFree' = healthFree
      /\ poolFree' = poolFree /\ poolWaiting' = poolWaiting /\ logger' = logger /\ done' = done
  BY Zenon DEF CallerGivesUp, api, pool
<1>2. PICK w : w = IF c \in WebCalls THEN "try again" ELSE "no answer"
  OBVIOUS
<1>3. /\ told' = [told EXCEPT ![c] = w]
      /\ webFree' = IF c \in WebCalls THEN webFree + 1 ELSE webFree
  BY <1>2, Zenon DEF CallerGivesUp, Say, WebDone
<1>8. (c \in WebCalls => webFree' = webFree + 1) /\ (c \notin WebCalls => webFree' = webFree)
  BY <1>3, Zenon
<1>4. /\ at[c] \in Steps /\ at = [at EXCEPT ![c] = at[c]]
      /\ link = [link EXCEPT ![c] = link[c]] /\ reply = [reply EXCEPT ![c] = reply[c]]
  BY CallerNow
<1>5. c \in AppCalls => c \notin WebCalls
  BY AdmissionAssumption DEF AdmissionAssumption
<1>6. w \in Words /\ w # "none" /\ (c \in AppCalls => w # "try again")
  BY <1>2, <1>5 DEF Words
<1>7. CallerBecomes(c, at[c], link[c], w, reply[c])
  BY <1>1, <1>3, <1>4, Zenon DEF CallerBecomes
<1>9. at[c] \notin {"new", "lobby", "gone"}
  BY <1>1
<1> QED BY <1>1, <1>4, <1>6, <1>7, <1>8, <1>9, PersonTold DEF ToldHonestly

LEMMA LogStepKeeps == AdmissionInv /\ LogStep => AdmissionInv'
<1> SUFFICES ASSUME AdmissionInv, LogStep PROVE AdmissionInv'
  OBVIOUS
<1>1. /\ at' = at /\ link' = link /\ told' = told /\ reply' = reply /\ done' = done
      /\ webFree' = webFree /\ webWaiting' = webWaiting /\ apiFree' = apiFree
      /\ healthFree' = healthFree /\ poolWaiting' = poolWaiting
  BY DEF LogStep, web, api
<1>2. /\ poolFree \in Nat /\ logger \in {"idle", "asked", "writing"}
      /\ Cardinality(Connected) \in Nat
      /\ poolFree + Cardinality(Connected) + One(logger = "writing") = PoolMax
  <2>1. Cardinality(Connected) \in Nat
    BY AdmissionSets, FS_CardinalityType
  <2> QED BY <2>1 DEF AdmissionInv, AdmissionTypes, PlacesAccounted, Connected, One
<1>3. /\ poolFree' \in Nat /\ logger' \in {"idle", "asked", "writing"}
      /\ poolFree' + Cardinality(Connected) + One(logger' = "writing") = PoolMax
  BY <1>2 DEF LogStep, One
<1>4. AdmissionTypes'
  BY <1>1, <1>3 DEF AdmissionInv, AdmissionTypes
<1>5. PlacesAccounted'
  BY <1>1, <1>3 DEF AdmissionInv, PlacesAccounted, Connected, One, InApi
<1>6. Coming' = Coming
  BY <1>1 DEF Coming
<1> QED BY <1>1, <1>4, <1>5, <1>6 DEF AdmissionInv, CallerFine

LEMMA AdmissionStart ==
  ASSUME NEW coming, IsFiniteSet(coming), AdmissionInit(coming)
  PROVE  AdmissionInv
<1>1. /\ WebPlaces \in Nat /\ WebQueue \in Nat /\ ApiPlaces \in Nat /\ HealthPlaces \in Nat
      /\ PoolMax \in Nat /\ PoolQueue \in Nat
  BY AdmissionAssumption DEF AdmissionAssumption
<1>2. AdmissionTypes
  BY <1>1 DEF AdmissionInit, AdmissionTypes, Steps, Links, Replies, Words
<1>3. \A c \in Callers : /\ at[c] \in {"new", "gone"} /\ link[c] = "none"
                         /\ told[c] = "none" /\ reply[c] = "none" /\ c \notin done
  BY DEF AdmissionInit
<1>4. IsFiniteSet(Coming)
  <2>1. Coming \subseteq coming
    BY DEF Coming, AdmissionInit
  <2> QED BY <2>1, FS_Subset
<1>5. \A c \in Callers : CallerFine(c, at[c], link[c], told[c], reply[c], done)
  BY <1>3 DEF CallerFine
<1>6. PlacesAccounted
  <2>1. /\ WebCalls \subseteq Callers /\ WebCalls \cup AppCalls \subseteq Callers
        /\ HealthCalls \subseteq Callers
    BY DEF Callers
  <2>2. /\ {c \in WebCalls : at[c] \notin {"new", "lobby", "gone"} /\ told[c] = "none"} = {}
        /\ {c \in WebCalls : at[c] = "lobby"} = {}
        /\ InApi(WebCalls \cup AppCalls) = {} /\ InApi(HealthCalls) = {}
        /\ {c \in Callers : link[c] = "has"} = {} /\ {c \in Callers : link[c] = "waiting"} = {}
    BY <1>3, <2>1 DEF InApi, Inside
  <2> QED BY <1>1, <2>2, FS_EmptySet DEF AdmissionInit, PlacesAccounted
<1> QED BY <1>2, <1>4, <1>5, <1>6 DEF AdmissionInv

LEMMA AdmissionStep ==
  ASSUME AdmissionInv, [AdmissionNext]_flowVars
  PROVE  AdmissionInv'
<1>1. CASE LogStep
  BY <1>1, LogStepKeeps
<1>2. ASSUME NEW c \in Callers, Progress(c)
      PROVE  AdmissionInv'
  BY <1>2, EnterKeeps, LeaveLobbyKeeps, SendDirectlyKeeps, AdmitKeeps, AdmitHealthKeeps,
     AskPoolKeeps, GetConnectionKeeps, NoConnectionKeeps, AnonymousKeeps, LookupDoneKeeps, CommittedKeeps,
     DomainRefusesKeeps, ConnectionLostKeeps, LeaveKeeps, TellKeeps DEF Progress
<1>3. ASSUME NEW c \in Callers, CallerGivesUp(c)
      PROVE  AdmissionInv'
  BY <1>3, CallerGivesUpKeeps
<1>4. CASE UNCHANGED flowVars
  <2>1. /\ at' = at /\ link' = link /\ told' = told /\ reply' = reply /\ done' = done
        /\ webFree' = webFree /\ webWaiting' = webWaiting /\ apiFree' = apiFree
        /\ healthFree' = healthFree /\ poolFree' = poolFree /\ poolWaiting' = poolWaiting
        /\ logger' = logger
    BY <1>4 DEF flowVars, web, api, pool
  <2>2. AdmissionTypes'
    BY <2>1 DEF AdmissionInv, AdmissionTypes
  <2>3. PlacesAccounted'
    BY <2>1 DEF AdmissionInv, PlacesAccounted, InApi
  <2>4. Coming' = Coming
    BY <2>1 DEF Coming
  <2> QED BY <2>1, <2>2, <2>3, <2>4 DEF AdmissionInv, CallerFine
<1> QED BY <1>1, <1>2, <1>3, <1>4 DEF AdmissionNext

LEMMA AdmissionPart == [Next]_allVars => [AdmissionNext]_flowVars
BY DEF Next, AgentSteps, DraftSteps, CatalogueSteps, ConfirmationSteps, SettingSteps,
       RequestSteps, allVars

LEMMA PartiesFinite == IsFiniteSet({}) /\ \A coming \in Parties : IsFiniteSet(coming)
<1>1. \A a, b, c : IsFiniteSet({a, b, c})
  <2> TAKE a, b, c
  <2>1. IsFiniteSet({a})
    BY FS_Singleton
  <2>2. IsFiniteSet({a} \cup {b})
    BY <2>1, FS_AddElement
  <2>3. IsFiniteSet(({a} \cup {b}) \cup {c})
    BY <2>2, FS_AddElement
  <2>4. ({a} \cup {b}) \cup {c} = {a, b, c}
    OBVIOUS
  <2> QED BY <2>3, <2>4
<1>2. ASSUME NEW coming \in Parties
      PROVE  IsFiniteSet(coming)
  <2>1. \/ coming = {w1, w2, w3} \/ coming = {w1, p1, p2}
        \/ coming = {p1, h1, h2} \/ coming = {w1, p1, h1}
    BY DEF Parties
  <2>2. /\ IsFiniteSet({w1, w2, w3}) /\ IsFiniteSet({w1, p1, p2})
        /\ IsFiniteSet({p1, h1, h2}) /\ IsFiniteSet({w1, p1, h1})
    BY <1>1, Zenon
  <2> QED BY <2>1, <2>2
<1> QED BY <1>2, FS_EmptySet

LEMMA AdmissionAlways == Spec => []AdmissionInv
<1>1. Init => AdmissionInv
  <2>1. Init => AdmissionInit({}) \/ \E coming \in Parties : AdmissionInit(coming)
    BY DEF Init
  <2> QED BY <2>1, AdmissionStart, PartiesFinite
<1>2. AdmissionInv /\ [Next]_allVars => AdmissionInv'
  BY AdmissionStep, AdmissionPart
<1> QED BY <1>1, <1>2, PTL DEF Spec

(***************************************************************************)
(* The policy file, its images and the answers of the gates that read them *)
(* agree with the row, and no place, connection or refusal is lost or      *)
(* given twice on a request's way through the gates.                       *)
(***************************************************************************)
THEOREM GatesKept == Spec => []GateInvariant
<1>1. SettingsInv /\ AdmissionInv => GateInvariant
  BY SettingsInvImplies, AdmissionInvImplies DEF GateInvariant
<1> QED BY <1>1, SettingsAlways, AdmissionAlways, PTL

=============================================================================
