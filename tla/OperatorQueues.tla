--------------------------- MODULE OperatorQueues ---------------------------
(***************************************************************************)
(* Wallet administration: operators reward suggestions and feedback,       *)
(* approve or reject recharges, convert suggestions into draft markets and *)
(* adjust balances by hand, while users stake and ask for recharges.       *)
(*                                                                         *)
(* Every request is a transaction at READ COMMITTED that reads the item or *)
(* the balance without a lock, decides, and then updates rows by their id. *)
(* It is two actions: Begin... reads and decides, Commit... writes.  The   *)
(* updates of a balance are increments, so none is lost; what may be stale *)
(* is the decision.                                                        *)
(***************************************************************************)
EXTENDS Integers, FiniteSets

CONSTANTS
    Users,
    Suggestions, Feedbacks, Recharges,  \* rows the tables can hold (bound)
    Workers,            \* API workers serving operators and users
    NoUser,             \* a guest submitted the item
    Absent, Idle,
    Amounts, MaxAmount, \* amounts a payload may carry, and their limit
    Grant,              \* opening balance
    MinBalance,         \* wallet_recharge_min_balance_gtl
    MaxBalance,         \* bound on balances raised by hand
    MaxDrafts           \* bound on drafts made of one suggestion

Items == Suggestions \cup Feedbacks \cup Recharges
Rewardable == Suggestions \cup Feedbacks

ItemStatuses == {"pending", "reviewed", "rejected", "converted", "rewarded", "approved"}

\* A row of market_suggestions, product_feedback or wallet_recharge_requests;
\* "paid" is a non-null reward_gtl.
ItemRow == [owner : Users \cup {NoUser}, status : ItemStatuses, paid : BOOLEAN]

Operations == {"reward", "approve", "reject", "convert", "debit", "recharge"}

\* What a request holds between its reads and its writes; only a conversion
\* needs no wallet.
JobRow ==
    [op : {"convert"}, item : Suggestions, user : {NoUser}, amount : Amounts]
    \cup [op : Operations \ {"convert"}, item : Items \cup {Absent},
          user : Users, amount : Amounts]

ASSUME QueuesAssumption ==
    /\ IsFiniteSet(Workers)
    /\ MaxAmount \in Nat
    /\ Amounts \subseteq 1..MaxAmount
    /\ Grant \in Nat
    /\ MinBalance \in Nat
    /\ MaxBalance \in Nat
    /\ MaxDrafts \in Nat
    /\ NoUser \notin Users
    /\ Absent \notin ItemRow
    /\ Absent \notin Items
    /\ Idle \notin JobRow
    /\ Suggestions \cap Feedbacks = {}
    /\ Rewardable \cap Recharges = {}

VARIABLES
    item,           \* the three tables
    credits,        \* credit rows of the ledger that refer to each item
    drafts,         \* draft markets made of each suggestion
    available,      \* wallet_balances.available_gtl
    job             \* requests in flight

vars == <<item, credits, drafts, available, job>>

Init ==
    /\ item = [i \in Items |-> Absent]
    /\ credits = [i \in Items |-> 0]
    /\ drafts = [s \in Suggestions |-> 0]
    /\ available = [u \in Users |-> Grant]
    /\ job = [w \in Workers |-> Idle]

Exists(i) == item[i] # Absent

Pending(u) ==
    {i \in Recharges : Exists(i) /\ item[i].owner = u /\ item[i].status = "pending"}

-----------------------------------------------------------------------------
(* Reading and deciding.                                                   *)

Begin(w, op, i, u, amount) ==
    /\ job[w] = Idle
    /\ job' = [job EXCEPT ![w] = [op |-> op, item |-> i, user |-> u, amount |-> amount]]
    /\ UNCHANGED <<item, credits, drafts, available>>

\* Has no reward been recorded on the item?
NotRewarded_ByStatus(i) == item[i].status # "rewarded"
NotRewarded(i) ==
    /\ ~item[i].paid
    /\ i \in Feedbacks => item[i].status # "rewarded"

\* Only an item of a registered user can be rewarded.
HasAuthor(i) == item[i].owner # NoUser

BeginReward(w, i, amount) ==
    /\ i \in Rewardable
    /\ Exists(i)
    /\ HasAuthor(i)
    /\ NotRewarded(i)
    /\ Begin(w, "reward", i, item[i].owner, amount)

\* A recharge is decided only while it is pending.
BeginDecision(w, i, op, amount) ==
    /\ i \in Recharges
    /\ Exists(i)
    /\ item[i].status = "pending"
    /\ Begin(w, op, i, item[i].owner, amount)

BeginConvert(w, s, amount) ==
    /\ s \in Suggestions
    /\ Exists(s)
    /\ item[s].status # "converted"
    /\ drafts[s] < MaxDrafts
    /\ Begin(w, "convert", s, NoUser, amount)

\* A manual debit takes at most what the wallet shows.
DebitCovered_Unchecked(u, amount) == TRUE
DebitCovered(u, amount) == available[u] >= amount

BeginDebit(w, u, amount) ==
    /\ DebitCovered(u, amount)
    /\ Begin(w, "debit", Absent, u, amount)

BeginRecharge(w, u, amount) ==
    /\ available[u] <= MinBalance
    /\ Pending(u) = {}
    /\ Begin(w, "recharge", Absent, u, amount)

-----------------------------------------------------------------------------
(* Writing and committing.                                                 *)

Finish(w, op) ==
    /\ job[w] # Idle
    /\ job[w].op = op
    /\ job' = [job EXCEPT ![w] = Idle]

\* Credit the owner with a ledger row that refers to item i.
Credit(i, u, amount) ==
    /\ credits' = [credits EXCEPT ![i] = @ + 1]
    /\ available' = [available EXCEPT ![u] = @ + amount]

CommitReward(w) ==
    LET j == job[w]
    IN  /\ Finish(w, "reward")
        /\ Credit(j.item, j.user, j.amount)
        /\ item' = [item EXCEPT ![j.item].status = "rewarded", ![j.item].paid = TRUE]
        /\ UNCHANGED drafts

CommitApprove(w) ==
    LET j == job[w]
    IN  /\ Finish(w, "approve")
        /\ Credit(j.item, j.user, j.amount)
        /\ item' = [item EXCEPT ![j.item].status = "approved", ![j.item].paid = TRUE]
        /\ UNCHANGED drafts

RejectedStatus_Reopened == "pending"
RejectedStatus == "rejected"

CommitReject(w) ==
    /\ Finish(w, "reject")
    /\ item' = [item EXCEPT ![job[w].item].status = RejectedStatus]
    /\ UNCHANGED <<credits, drafts, available>>

CommitConvert(w) ==
    LET s == job[w].item
    IN  /\ Finish(w, "convert")
        /\ drafts' = [drafts EXCEPT ![s] = @ + 1]
        /\ item' = [item EXCEPT ![s].status = "converted"]
        /\ UNCHANGED <<credits, available>>

CommitDebit(w) ==
    /\ Finish(w, "debit")
    /\ available' = [available EXCEPT ![job[w].user] = @ - job[w].amount]
    /\ UNCHANGED <<item, credits, drafts>>

\* A partial unique index admits one pending recharge per user.
IndexAdmits_Anything(u) == TRUE
IndexAdmits(u) == Pending(u) = {}

CommitRecharge(w, i) ==
    LET u == job[w].user
    IN  /\ Finish(w, "recharge")
        /\ i \in Recharges
        /\ ~Exists(i)
        /\ IndexAdmits(u)
        /\ item' = [item EXCEPT ![i] = [owner |-> u, status |-> "pending", paid |-> FALSE]]
        /\ UNCHANGED <<credits, drafts, available>>

\* An error, a violated index or a crash: the transaction wrote nothing.
Rollback(w) ==
    /\ job[w] # Idle
    /\ job' = [job EXCEPT ![w] = Idle]
    /\ UNCHANGED <<item, credits, drafts, available>>

-----------------------------------------------------------------------------
(* Requests of one statement.                                              *)

\* A user or a guest sends a suggestion or feedback.
Submit(i, u) ==
    /\ ~Exists(i)
    /\ item' = [item EXCEPT ![i] = [owner |-> u, status |-> "pending", paid |-> FALSE]]
    /\ UNCHANGED <<credits, drafts, available, job>>

\* A review overwrites the status of an item, whatever it was.
Review(i, status) ==
    /\ Exists(i)
    /\ item' = [item EXCEPT ![i].status = status]
    /\ UNCHANGED <<credits, drafts, available, job>>

AdjustUp(u, amount) ==
    /\ available[u] + amount <= MaxBalance
    /\ available' = [available EXCEPT ![u] = @ + amount]
    /\ UNCHANGED <<item, credits, drafts, job>>

\* A position is taken: its balance check and its lock are one step, behind
\* the lock of the wallet row.
TakePosition(u, stake) ==
    /\ available[u] >= stake
    /\ available' = [available EXCEPT ![u] = @ - stake]
    /\ UNCHANGED <<item, credits, drafts, job>>

-----------------------------------------------------------------------------
Request(w) ==
    \/ \E i \in Items, amount \in Amounts :
          \/ BeginReward(w, i, amount)
          \/ BeginConvert(w, i, amount)
          \/ \E op \in {"approve", "reject"} : BeginDecision(w, i, op, amount)
    \/ \E u \in Users, amount \in Amounts :
          \/ BeginDebit(w, u, amount)
          \/ BeginRecharge(w, u, amount)
    \/ CommitReward(w)
    \/ CommitApprove(w)
    \/ CommitReject(w)
    \/ CommitConvert(w)
    \/ CommitDebit(w)
    \/ \E i \in Recharges : CommitRecharge(w, i)
    \/ Rollback(w)

Direct ==
    \/ \E i \in Rewardable :
          \/ \E u \in Users \cup {NoUser} : Submit(i, u)
          \/ \E status \in {"pending", "reviewed", "rejected"} : Review(i, status)
    \/ \E u \in Users, amount \in Amounts : AdjustUp(u, amount) \/ TakePosition(u, amount)

Next == (\E w \in Workers : Request(w)) \/ Direct

Spec == Init /\ [][Next]_vars

-----------------------------------------------------------------------------
(* Properties.                                                             *)

\* Tables, balances and requests hold values of their types.
TypeOK ==
    /\ item \in [Items -> ItemRow \cup {Absent}]
    /\ credits \in [Items -> Nat]
    /\ drafts \in [Suggestions -> Nat]
    /\ available \in [Users -> Int]
    /\ job \in [Workers -> JobRow \cup {Idle}]

Crediting(i) ==
    {w \in Workers : job[w] # Idle /\ job[w].item = i /\ job[w].op \in {"reward", "approve"}}

\* An item is credited at most once per request that can be in flight at the
\* same time, whatever is reviewed, converted or decided in between: with one
\* worker, exactly the promise "no more than once".  (admin_reward_suggestion,
\* admin_reward_feedback, admin_approve_wallet_recharge)
CreditsBounded ==
    \A i \in Items : credits[i] + Cardinality(Crediting(i)) <= Cardinality(Workers)

Debiting(u) == {w \in Workers : job[w] # Idle /\ job[w].op = "debit" /\ job[w].user = u}

\* Manual debits overdraw a wallet by no more than the debits that can be in
\* flight together: every debit was covered when it was read.
\* (admin_adjust_user_wallet)
OverdraftBounded ==
    \A u \in Users :
        available[u] >= -(MaxAmount * (Cardinality(Workers) - Cardinality(Debiting(u))))

\* A user has at most one pending recharge, although two requests may both
\* have found none.  (create_my_wallet_recharge_request)
OnePendingRecharge ==
    \A u \in Users : \A i, k \in Pending(u) : i = k

\* A recharge that was credited stays decided: it is never open to a second
\* decision, even when a rejection overwrites the approval.
CreditedIsDecided ==
    \A i \in Recharges : credits[i] > 0 => item[i].status \in {"approved", "rejected"}

\* "a mesma fila operacional nao pode gerar credito mais de uma vez para o
\* mesmo item" (docs/specs/features/wallet-and-ledger.md).
CreditedOnce == \A i \in Items : credits[i] <= 1

\* "debito maior que available_gtl deve ser rejeitado"
\* (docs/specs/contracts/wallet-ledger.md): a debit never overdraws a wallet.
\* The code refutes it (README, section 5); no run includes it.
DebitsCovered ==
    [][\A w \in Workers :
         (job[w] # Idle /\ job[w].op = "debit" /\ job'[w] = Idle /\ available' # available)
         => available'[job[w].user] >= 0]_vars

\* A converted suggestion is not converted again ("Sugestao ja convertida",
\* admin_convert_suggestion_to_draft): a suggestion makes one draft.
\* The code refutes it (README, section 5); no run includes it.
ConvertedOnce == \A s \in Suggestions : drafts[s] <= 1

=============================================================================
