--------------------------- MODULE Confirmations ---------------------------
(***************************************************************************)
(* Results confirmed by requests that are repeated until they are          *)
(* answered: operators' requests carry a key, an agent's a key of its own  *)
(* and the version of the market that the agent read.  Receipts commit     *)
(* with their effects.  What the result does to positions and wallets is   *)
(* MarketSettlement's subject; here it is which request may cause it, how  *)
(* often, and what a repeated one is told.                                 *)
(***************************************************************************)
EXTENDS Integers

CONSTANTS
    Contests,                   \* markets past their closing
    Outcomes, NoOutcome,
    HumanKeys, AgentKeys,       \* idempotency keys
    Confirmers, NotConfirming,  \* operators' requests in flight at once
    NoReceiptYet,
    MaxWindows                  \* bound on results published per market

ResultKeys == HumanKeys \cup AgentKeys

\* window stands for seal_due_at, which no two results share, and stamp for
\* updated_at.
ContestRow ==
    [status : {"locked", "resolved", "sealed", "canceled"}, winner : Outcomes \cup {NoOutcome},
     window : 0..MaxWindows, stamp : Nat]

\* gotrendlabs_market_resolution_requests, an agent's in the same table under
\* a key derived from its own.
ResultReceipt == [contest : Contests, outcome : Outcomes, window : 0..MaxWindows]
ConfirmRow == [contest : Contests, key : HumanKeys, outcome : Outcomes]

ASSUME ConfirmationAssumption ==
    /\ HumanKeys \cap AgentKeys = {}
    /\ NoOutcome \notin Outcomes
    /\ NoReceiptYet \notin ResultReceipt /\ NotConfirming \notin ConfirmRow
    /\ MaxWindows \in Nat

VARIABLES
    contest,
    windows,        \* of each market, results published so far
    resultReceipt,  \* by key
    cancelReceipt,  \* gotrendlabs_agent_market_requests, operation cancel: key and market
    confirming,     \* operators' requests that hold a market's row
    briefing,       \* the version of each market that the agent read
    notice,         \* the outcome participants were notified of
    effects,        \* of each key, the results it caused (history)
    misled          \* keys answered that something holds that does not (history)

confirmationVars ==
    <<contest, windows, resultReceipt, cancelReceipt, confirming, briefing, notice, effects, misled>>

ConfirmationInit ==
    /\ contest = [m \in Contests |->
         [status |-> "locked", winner |-> NoOutcome, window |-> 0, stamp |-> 0]]
    /\ windows = [m \in Contests |-> 0]
    /\ resultReceipt = [k \in ResultKeys |-> NoReceiptYet]
    /\ cancelReceipt = {}
    /\ confirming = [c \in Confirmers |-> NotConfirming]
    /\ briefing = [m \in Contests |-> 0]
    /\ notice = [m \in Contests |-> NoOutcome]
    /\ effects = [k \in ResultKeys |-> 0]
    /\ misled = {}

Unlocked(m) ==
    \A c \in Confirmers : confirming[c] # NotConfirming => confirming[c].contest # m

Changed(m, row) == contest' = [contest EXCEPT ![m] = [row EXCEPT !.stamp = @ + 1]]

-----------------------------------------------------------------------------
(* Publishing a result.                                                    *)

\* resolve_market: the row is read again, and must be locked.
Publishable_Cached(m) == contest[m].status # "canceled"
Publishable(m) == contest[m].status = "locked"

\* (recipient, source_key) is unique, and the key names only the market.
Notified(m, o) == [notice EXCEPT ![m] = IF @ = NoOutcome THEN o ELSE @]

PublishResult(m, k, o) ==
    /\ windows[m] < MaxWindows
    /\ windows' = [windows EXCEPT ![m] = @ + 1]
    /\ Changed(m, [contest[m] EXCEPT !.status = "resolved", !.winner = o, !.window = windows[m] + 1])
    /\ resultReceipt' = [resultReceipt EXCEPT
         ![k] = [contest |-> m, outcome |-> o, window |-> windows[m] + 1]]
    /\ effects' = [effects EXCEPT ![k] = @ + 1]
    /\ notice' = Notified(m, o)

\* confirmed_request: the receipt is of this market and this content, and its
\* result was not undone or replaced since.
Standing_AnyWindow(m, k) ==
    /\ resultReceipt[k].contest = m
    /\ contest[m].status \in {"resolved", "sealed"}
Standing(m, k) ==
    /\ resultReceipt[k].contest = m
    /\ contest[m].status \in {"resolved", "sealed"}
    /\ contest[m].window = resultReceipt[k].window

ToldConfirmed(m, k, o) ==
    misled' = IF contest[m].status \in {"resolved", "sealed"} /\ contest[m].winner = o
              THEN misled ELSE misled \cup {k}

\* admin_resolve_market, until it has seen that the key was not used.
BeginConfirm(c, m, k, o) ==
    /\ confirming[c] = NotConfirming /\ Unlocked(m)
    /\ resultReceipt[k] = NoReceiptYet
    /\ Publishable(m)
    /\ confirming' = [confirming EXCEPT ![c] = [contest |-> m, key |-> k, outcome |-> o]]
    /\ UNCHANGED <<contest, windows, resultReceipt, cancelReceipt, briefing, notice, effects, misled>>

\* record_request inserts the key, or rolls everything back if a request for
\* another market was faster.
KeyUnused(k) == resultReceipt[k] = NoReceiptYet

FinishConfirm(c) ==
    LET q == confirming[c] IN
    /\ q # NotConfirming
    /\ KeyUnused(q.key)
    /\ PublishResult(q.contest, q.key, q.outcome)
    /\ confirming' = [confirming EXCEPT ![c] = NotConfirming]
    /\ UNCHANGED <<cancelReceipt, briefing, misled>>

ConfirmFails(c) ==
    /\ confirming[c] # NotConfirming
    /\ confirming' = [confirming EXCEPT ![c] = NotConfirming]
    /\ UNCHANGED <<contest, windows, resultReceipt, cancelReceipt, briefing, notice, effects, misled>>

\* The repeated request, and the query for its outcome.
ConfirmAgain(m, k) ==
    /\ Unlocked(m)
    /\ resultReceipt[k] # NoReceiptYet
    /\ Standing(m, k)
    /\ ToldConfirmed(m, k, resultReceipt[k].outcome)
    /\ UNCHANGED <<contest, windows, resultReceipt, cancelReceipt, confirming, briefing, notice, effects>>

-----------------------------------------------------------------------------
(* Operators' other steps, and the daemon's seal.                          *)

\* cancel_market of a resolved market
Undone(row) == [row EXCEPT !.status = "locked", !.winner = NoOutcome, !.window = 0]

UndoResult(m) ==
    /\ Unlocked(m)
    /\ contest[m].status = "resolved"
    /\ Changed(m, Undone(contest[m]))
    /\ UNCHANGED <<windows, resultReceipt, cancelReceipt, confirming, briefing, notice, effects, misled>>

SealResult(m) ==
    /\ Unlocked(m)
    /\ contest[m].status = "resolved"
    /\ Changed(m, [contest[m] EXCEPT !.status = "sealed"])
    /\ UNCHANGED <<windows, resultReceipt, cancelReceipt, confirming, briefing, notice, effects, misled>>

CancelContest(m) ==
    /\ Unlocked(m)
    /\ contest[m].status = "locked"
    /\ Changed(m, [contest[m] EXCEPT !.status = "canceled"])
    /\ UNCHANGED <<windows, resultReceipt, cancelReceipt, confirming, briefing, notice, effects, misled>>

-----------------------------------------------------------------------------
(* The agent (mutate): a receipt is looked for, then the version compared. *)

ReadBriefing(m) ==
    /\ briefing' = [briefing EXCEPT ![m] = contest[m].stamp]
    /\ UNCHANGED <<contest, windows, resultReceipt, cancelReceipt, confirming, notice, effects, misled>>

Informed(m) == briefing[m] = contest[m].stamp

AgentResolve(m, k, o) ==
    /\ Unlocked(m)
    /\ resultReceipt[k] = NoReceiptYet
    /\ Informed(m)
    /\ Publishable(m)
    /\ PublishResult(m, k, o)
    /\ misled' = IF briefing[m] = contest[m].stamp THEN misled ELSE misled \cup {k}
    /\ UNCHANGED <<cancelReceipt, confirming, briefing>>

AgentCancel(m, k) ==
    /\ Unlocked(m)
    /\ \A n \in Contests : <<k, n>> \notin cancelReceipt
    /\ Informed(m)
    /\ contest[m].status = "locked"
    /\ Changed(m, [contest[m] EXCEPT !.status = "canceled"])
    /\ cancelReceipt' = cancelReceipt \cup {<<k, m>>}
    /\ UNCHANGED <<windows, resultReceipt, confirming, briefing, notice, effects, misled>>

ConfirmationNext ==
    \/ \E c \in Confirmers, m \in Contests, k \in HumanKeys, o \in Outcomes : BeginConfirm(c, m, k, o)
    \/ \E c \in Confirmers : FinishConfirm(c) \/ ConfirmFails(c)
    \/ \E m \in Contests, k \in ResultKeys : ConfirmAgain(m, k)
    \/ \E m \in Contests : UndoResult(m) \/ SealResult(m) \/ CancelContest(m) \/ ReadBriefing(m)
    \/ \E m \in Contests, k \in AgentKeys, o \in Outcomes : AgentResolve(m, k, o)
    \/ \E m \in Contests, k \in AgentKeys : AgentCancel(m, k)

-----------------------------------------------------------------------------
(* Properties.                                                             *)

\* Rows keep their types; a winner is named while a result stands.
ConfirmationTypeOK ==
    /\ contest \in [Contests -> ContestRow]
    /\ windows \in [Contests -> 0..MaxWindows]
    /\ resultReceipt \in [ResultKeys -> ResultReceipt \cup {NoReceiptYet}]
    /\ cancelReceipt \subseteq AgentKeys \X Contests
    /\ confirming \in [Confirmers -> ConfirmRow \cup {NotConfirming}]
    /\ notice \in [Contests -> Outcomes \cup {NoOutcome}]
    /\ \A m \in Contests :
         (contest[m].winner # NoOutcome) <=> contest[m].status \in {"resolved", "sealed"}

\* A key publishes one result ever, on one market, however often and wherever
\* the request is repeated, before and after the result is undone
\* (confirmed_request, record_request).
KeyPublishesOnce ==
    \A k \in ResultKeys :
      effects[k] = (IF resultReceipt[k] = NoReceiptYet THEN 0 ELSE 1)

\* Whoever repeats a request is told that it is confirmed only while its result
\* stands, and the agent publishes only on a version of the market it read
\* (confirmed_request, mutate).
NobodyMisled == misled = {}

\* What participants were told is the result that stands, unless an earlier
\* one was undone: nobody is notified of its successor (resolve_market).
NoticeNamesResult ==
    \A m \in Contests :
      contest[m].winner # NoOutcome /\ windows[m] = 1 => notice[m] = contest[m].winner

\* A sealed or canceled market keeps its result, whatever is in flight.
SealedResultsStay ==
    [][\A m \in Contests :
         contest[m].status \in {"sealed", "canceled"} =>
           contest'[m].status = contest[m].status /\ contest'[m].winner = contest[m].winner]_confirmationVars

\* A key causes one result, and whoever repeats or is notified of it is told
\* the truth (confirmed_request, record_request, resolve_market).
ConfirmationInvariant ==
    ConfirmationTypeOK /\ KeyPublishesOnce /\ NobodyMisled /\ NoticeNamesResult

=============================================================================
