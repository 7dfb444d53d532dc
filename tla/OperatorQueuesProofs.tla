------------------------ MODULE OperatorQueuesProofs ------------------------
(***************************************************************************)
(* Proofs about OperatorQueues, for any number of users, items, workers    *)
(* and amounts.                                                            *)
(*                                                                         *)
(* Both bounds count requests in flight.  A request is admitted only while *)
(* its worker is idle, so at most Cardinality(Workers) are in flight; once *)
(* an item is credited it carries a mark (Marked) that admits no further   *)
(* request, so its credits and its crediting requests together never       *)
(* exceed the workers.  A debit is admitted only when covered; every debit *)
(* that commits gives up one unit of the count it was admitted under.      *)
(*                                                                         *)
(* A second part is about EditorialGateway, for any number of calls,       *)
(* integrations, addresses and any limits.  Its invariant rests on what a  *)
(* file and a delivery owe to the call they stand for: only reports with a *)
(* result are spooled or delivered, by the integration of their call.      *)
(*                                                                         *)
(* The end is about Reputation, for any players, contests, odds and        *)
(* transactions.  The rows depend on the data of a recursion, so its parts *)
(* come first: that the recursion is one, that it looks only at the        *)
(* positions it is given, and that a result that came last is added to it. *)
(* The rest is who may still change what a transaction has seen: nobody,   *)
(* since it holds the wallet of every player whose position it touched.    *)
(***************************************************************************)
EXTENDS OperatorQueues, EditorialGateway, Reputation, SetSumsProofs, FiniteSetTheorems, TLAPS

-----------------------------------------------------------------------------
(* Counting requests.                                                      *)

\* A set of workers has a natural cardinality, at most that of all workers.
LEMMA CountType ==
  ASSUME NEW S \in SUBSET Workers
  PROVE  /\ IsFiniteSet(S)
         /\ Cardinality(S) \in Nat
         /\ Cardinality(Workers) \in Nat
         /\ Cardinality(S) <= Cardinality(Workers)
BY QueuesAssumption, FS_Subset, FS_CardinalityType

\* One more worker adds one to the count, which stays within the workers.
LEMMA CountAdd ==
  ASSUME NEW S \in SUBSET Workers, NEW w \in Workers, w \notin S
  PROVE  /\ Cardinality(S \cup {w}) = Cardinality(S) + 1
         /\ Cardinality(S) + 1 <= Cardinality(Workers)
<1>1. Cardinality(S \cup {w}) = Cardinality(S) + 1
  BY CountType, FS_AddElement
<1>2. S \cup {w} \in SUBSET Workers
  OBVIOUS
<1> QED BY <1>1, <1>2, CountType

\* One worker less takes one from the count.
LEMMA CountRemove ==
  ASSUME NEW S \in SUBSET Workers, NEW w \in S
  PROVE  Cardinality(S \ {w}) = Cardinality(S) - 1
BY CountType, FS_RemoveElement

\* Amounts are natural numbers up to the largest.
LEMMA AmountType ==
  ASSUME NEW amount \in Amounts
  PROVE  amount \in Nat /\ amount <= MaxAmount /\ MaxAmount \in Nat
<1>1. amount \in 1..MaxAmount /\ MaxAmount \in Nat
  BY QueuesAssumption
<1> QED BY <1>1

-----------------------------------------------------------------------------
(* The inductive invariant.                                                *)

\* A request in flight names an existing item of the kind it works on.
JobsInv ==
    \A w \in Workers : job[w] # Idle =>
        /\ job[w].op = "reward" => job[w].item \in Rewardable /\ Exists(job[w].item)
        /\ job[w].op \in {"approve", "reject"} =>
              job[w].item \in Recharges /\ Exists(job[w].item)
        /\ job[w].op = "convert" => Exists(job[w].item)
        /\ job[w].op \in {"debit", "recharge"} => job[w].item = Absent

\* A credited item shows that it was.
RowMarked(i, row) ==
    /\ row # Absent
    /\ IF i \in Recharges THEN row.status \in {"approved", "rejected"} ELSE row.paid

Marked(i) == RowMarked(i, item[i])

MarkedInv == \A i \in Items : credits[i] > 0 => Marked(i)

\* A recharge belongs to a user.
OwnedInv == \A k \in Recharges : Exists(k) => item[k].owner \in Users

Inv ==
    /\ TypeOK
    /\ JobsInv
    /\ OwnedInv
    /\ MarkedInv
    /\ CreditsBounded
    /\ OverdraftBounded
    /\ OnePendingRecharge

\* The invariant holds initially.
LEMMA InitInv == Init => Inv
<1> SUFFICES ASSUME Init PROVE Inv
  OBVIOUS
<1>1. TypeOK
  BY QueuesAssumption DEF Init, TypeOK
<1>2. JobsInv /\ MarkedInv /\ OwnedInv
  BY DEF Init, JobsInv, MarkedInv, OwnedInv, Items, Exists
<1>3. CreditsBounded
  <2> SUFFICES ASSUME NEW i \in Items
               PROVE  credits[i] + Cardinality(Crediting(i)) <= Cardinality(Workers)
    BY DEF CreditsBounded
  <2>1. Crediting(i) \in SUBSET Workers /\ credits[i] = 0
    BY DEF Init, Crediting
  <2> QED BY <2>1, CountType
<1>4. OverdraftBounded
  <2> SUFFICES ASSUME NEW u \in Users
               PROVE  available[u] >=
                        -(MaxAmount * (Cardinality(Workers) - Cardinality(Debiting(u))))
    BY DEF OverdraftBounded
  <2>1. Debiting(u) = {} /\ available[u] = Grant
    BY DEF Init, Debiting
  <2>2. Cardinality(Workers) \in Nat /\ MaxAmount \in Nat /\ Grant \in Nat
    BY CountType, QueuesAssumption
  <2>3. MaxAmount * Cardinality(Workers) \in Nat
    BY <2>2
  <2> QED BY <2>1, <2>2, <2>3, FS_EmptySet
<1>5. OnePendingRecharge
  <2>1. \A u \in Users : Pending(u) = {}
    BY DEF Init, Pending, Exists, Items
  <2> QED BY <2>1 DEF OnePendingRecharge
<1> QED BY <1>1, <1>2, <1>3, <1>4, <1>5 DEF Inv

-----------------------------------------------------------------------------
(* Admitting a request.                                                    *)

\* What admitting a request does to the requests that credit an item or debit
\* a wallet.
LEMMA BeginCounts ==
  ASSUME TypeOK, NEW w \in Workers, NEW op \in Operations, NEW i, NEW u, NEW amount,
         [op |-> op, item |-> i, user |-> u, amount |-> amount] \in JobRow,
         Begin(w, op, i, u, amount)
  PROVE  /\ \A x \in Items :
              Crediting(x)' = IF x = i /\ op \in {"reward", "approve"}
                              THEN Crediting(x) \cup {w} ELSE Crediting(x)
         /\ \A x \in Items : w \notin Crediting(x)
         /\ \A y \in Users :
              Debiting(y)' = IF y = u /\ op = "debit"
                             THEN Debiting(y) \cup {w} ELSE Debiting(y)
         /\ \A y \in Users : w \notin Debiting(y)
<1> DEFINE row == [op |-> op, item |-> i, user |-> u, amount |-> amount]
<1>1. job[w] = Idle
  BY DEF Begin
<1>2. row # Idle
  BY QueuesAssumption
<1>3. \A v \in Workers : job'[v] = IF v = w THEN row ELSE job[v]
  BY DEF Begin, TypeOK
<1>4. row.op = op /\ row.item = i /\ row.user = u
  OBVIOUS
<1> HIDE DEF row
<1> QED BY <1>1, <1>2, <1>3, <1>4 DEF Crediting, Debiting

\* Admitting a request keeps the invariant, if an item it will credit was not
\* credited yet and a balance it will debit covers the amount.
LEMMA BeginPreserves ==
  ASSUME Inv, NEW w \in Workers, NEW op \in Operations, NEW i, NEW u, NEW amount \in Amounts,
         [op |-> op, item |-> i, user |-> u, amount |-> amount] \in JobRow,
         op = "reward" => i \in Rewardable /\ Exists(i),
         op \in {"approve", "reject"} => i \in Recharges /\ Exists(i),
         op = "convert" => Exists(i),
         op \in {"debit", "recharge"} => i = Absent,
         op \in {"reward", "approve"} => credits[i] = 0,
         op = "debit" => available[u] >= amount,
         Begin(w, op, i, u, amount)
  PROVE  Inv'
<1> DEFINE row == [op |-> op, item |-> i, user |-> u, amount |-> amount]
<1>0. /\ TypeOK /\ JobsInv /\ OwnedInv /\ MarkedInv
      /\ CreditsBounded /\ OverdraftBounded /\ OnePendingRecharge
  BY DEF Inv
<1>1. UNCHANGED <<item, credits, drafts, available>>
  BY DEF Begin
<1>2. \A v \in Workers : job'[v] = IF v = w THEN row ELSE job[v]
  BY <1>0 DEF Begin, TypeOK
<1>3. row.op = op /\ row.item = i /\ row.user = u /\ row \in JobRow
  OBVIOUS
<1>4. job' = [job EXCEPT ![w] = row]
  BY DEF Begin
<1> HIDE DEF row
<1>5. TypeOK'
  BY <1>0, <1>1, <1>3, <1>4 DEF TypeOK
<1>6. JobsInv'
  BY <1>0, <1>1, <1>2, <1>3 DEF JobsInv, Exists
<1>7. MarkedInv' /\ OwnedInv' /\ OnePendingRecharge'
  BY <1>0, <1>1 DEF MarkedInv, Marked, RowMarked, OwnedInv, OnePendingRecharge, Pending, Exists
<1>8. CreditsBounded'
  <2> SUFFICES ASSUME NEW x \in Items
               PROVE  credits[x] + Cardinality(Crediting(x)') <= Cardinality(Workers)
    BY <1>1 DEF CreditsBounded
  <2>1. Crediting(x) \in SUBSET Workers /\ credits[x] \in Nat
    BY <1>0 DEF Crediting, TypeOK
  <2>2. CASE x = i /\ op \in {"reward", "approve"}
    <3>1. Crediting(x)' = Crediting(x) \cup {w} /\ w \notin Crediting(x)
      BY <1>0, <2>2, BeginCounts
    <3>2. credits[x] = 0
      BY <2>2
    <3> HIDE DEF Crediting
    <3> QED BY <2>1, <3>1, <3>2, CountAdd, CountType
  <2>3. CASE ~(x = i /\ op \in {"reward", "approve"})
    <3>1. Crediting(x)' = Crediting(x)
      BY <1>0, <2>3, BeginCounts
    <3> QED BY <1>0, <3>1 DEF CreditsBounded
  <2> QED BY <2>2, <2>3
<1>9. OverdraftBounded'
  <2> SUFFICES ASSUME NEW y \in Users
               PROVE  available[y] >=
                        -(MaxAmount * (Cardinality(Workers) - Cardinality(Debiting(y)')))
    BY <1>1 DEF OverdraftBounded
  <2>1. Debiting(y) \in SUBSET Workers /\ available[y] \in Int
    BY <1>0 DEF Debiting, TypeOK
  <2>2. CASE y = u /\ op = "debit"
    <3>1. Debiting(y)' = Debiting(y) \cup {w} /\ w \notin Debiting(y)
      BY <1>0, <2>2, BeginCounts
    <3>2. available[y] >= amount /\ amount \in Nat /\ MaxAmount \in Nat
      BY <2>2, QueuesAssumption
    <3>3. /\ Cardinality(Debiting(y)') \in Nat /\ Cardinality(Workers) \in Nat
          /\ Cardinality(Debiting(y)') <= Cardinality(Workers)
      BY <2>1, <3>1, CountAdd, CountType
    <3> DEFINE k == Cardinality(Workers) - Cardinality(Debiting(y)')
    <3>4. k \in Nat
      BY <3>3
    <3> HIDE DEF k
    <3>5. MaxAmount * k \in Nat
      BY <3>2, <3>4
    <3> QED BY <2>1, <3>2, <3>5 DEF k
  <2>3. CASE ~(y = u /\ op = "debit")
    <3>1. Debiting(y)' = Debiting(y)
      BY <1>0, <2>3, BeginCounts
    <3> QED BY <1>0, <3>1 DEF OverdraftBounded
  <2> QED BY <2>2, <2>3
<1> QED BY <1>5, <1>6, <1>7, <1>8, <1>9 DEF Inv

-----------------------------------------------------------------------------
(* Committing a request.                                                   *)

\* A request that ends leaves the sets of requests in flight.
LEMMA EndCounts ==
  ASSUME TypeOK, NEW w \in Workers, job' = [job EXCEPT ![w] = Idle]
  PROVE  /\ \A x \in Items : Crediting(x)' = Crediting(x) \ {w}
         /\ \A y \in Users : Debiting(y)' = Debiting(y) \ {w}
<1>1. \A v \in Workers : job'[v] = IF v = w THEN Idle ELSE job[v]
  BY DEF TypeOK
<1> QED BY <1>1 DEF Crediting, Debiting

\* A step of w credits only an item that w was counted for, once.
CreditsCounted(w) ==
    \A x \in Items : credits'[x] \in Nat
        /\ (credits'[x] = credits[x]
            \/ (credits'[x] = credits[x] + 1 /\ w \in Crediting(x)))

\* A step of w debits only a wallet that w was counted for, by at most the
\* largest amount.
DebitsCounted(w) ==
    \A y \in Users : available'[y] \in Int
        /\ (available'[y] >= available[y]
            \/ (available'[y] >= available[y] - MaxAmount /\ w \in Debiting(y)))

\* A request that ends keeps both bounds if its credits and debits are counted.
LEMMA EndKeepsBounds ==
  ASSUME TypeOK, CreditsBounded, OverdraftBounded,
         NEW w \in Workers, job' = [job EXCEPT ![w] = Idle],
         CreditsCounted(w), DebitsCounted(w)
  PROVE  CreditsBounded' /\ OverdraftBounded'
<1>1. CreditsBounded'
  <2> SUFFICES ASSUME NEW x \in Items
               PROVE  credits'[x] + Cardinality(Crediting(x)') <= Cardinality(Workers)
    BY DEF CreditsBounded
  <2>1. /\ Crediting(x) \in SUBSET Workers /\ credits[x] \in Nat
        /\ credits[x] + Cardinality(Crediting(x)) <= Cardinality(Workers)
        /\ Crediting(x)' = Crediting(x) \ {w}
        /\ credits'[x] \in Nat
    BY EndCounts DEF Crediting, TypeOK, CreditsBounded, CreditsCounted
  <2> DEFINE C == Crediting(x)
  <2>4. credits'[x] = credits[x] \/ (credits'[x] = credits[x] + 1 /\ w \in C)
    BY DEF CreditsCounted
  <2> HIDE DEF C
  <2>2. CASE w \in C
    <3>1. Cardinality(C \ {w}) = Cardinality(C) - 1
      BY <2>1, <2>2, CountRemove DEF C
    <3>2. Cardinality(C) \in Nat /\ Cardinality(Workers) \in Nat
      BY <2>1, CountType DEF C
    <3> QED BY <2>1, <2>4, <3>1, <3>2 DEF C
  <2>3. CASE w \notin C
    <3>1. C \ {w} = C
      BY <2>3
    <3> QED BY <2>1, <2>3, <2>4, <3>1 DEF C
  <2> QED BY <2>2, <2>3
<1>2. OverdraftBounded'
  <2> SUFFICES ASSUME NEW y \in Users
               PROVE  available'[y] >=
                        -(MaxAmount * (Cardinality(Workers) - Cardinality(Debiting(y)')))
    BY DEF OverdraftBounded
  <2> DEFINE D == Debiting(y)
             k == Cardinality(Workers) - Cardinality(D)
  <2>1. /\ D \in SUBSET Workers /\ available[y] \in Int /\ available'[y] \in Int
        /\ available[y] >= -(MaxAmount * k)
        /\ Debiting(y)' = D \ {w}
    BY EndCounts DEF Debiting, TypeOK, OverdraftBounded, DebitsCounted
  <2>2. available'[y] >= available[y] \/ (available'[y] >= available[y] - MaxAmount /\ w \in D)
    BY DEF DebitsCounted
  <2> HIDE DEF D
  <2>3. /\ Cardinality(D) \in Nat /\ Cardinality(Workers) \in Nat
        /\ Cardinality(D) <= Cardinality(Workers)
    BY <2>1, CountType
  <2>4. k \in Nat /\ MaxAmount \in Nat
    BY <2>3, QueuesAssumption
  <2>5. MaxAmount * k \in Nat
    BY <2>4
  <2>6. CASE w \in D
    <3>1. Cardinality(D \ {w}) = Cardinality(D) - 1
      BY <2>1, <2>6, CountRemove
    <3>2. Cardinality(Workers) - Cardinality(D \ {w}) = k + 1
      BY <2>3, <3>1
    <3> HIDE DEF k
    <3>3. MaxAmount * (k + 1) = MaxAmount * k + MaxAmount
      BY <2>4
    <3>4. available'[y] >= available[y] - MaxAmount
      BY <2>1, <2>2, <2>4
    <3> QED BY <2>1, <2>4, <2>5, <3>2, <3>3, <3>4
  <2>7. CASE w \notin D
    <3>1. D \ {w} = D
      BY <2>7
    <3>2. Cardinality(Workers) - Cardinality(Debiting(y)') = k
      BY <2>1, <3>1
    <3> HIDE DEF k
    <3>3. available'[y] >= available[y]
      BY <2>2, <2>7
    <3>4. available'[y] >= -(MaxAmount * k)
      BY <2>1, <2>5, <3>3
    <3> QED BY <3>2, <3>4
  <2> QED BY <2>6, <2>7
<1> QED BY <1>1, <1>2

-----------------------------------------------------------------------------
(* Every step.                                                             *)

\* No row is deleted or changes hands, no mark is erased, no decided recharge
\* reopens, and no recharge is added.
RowsKept ==
    /\ item' \in [Items -> ItemRow \cup {Absent}]
    /\ \A i \in Items : Exists(i) =>
          /\ Exists(i)'
          /\ item'[i].owner = item[i].owner
          /\ item[i].paid => item'[i].paid
          /\ i \in Recharges =>
                /\ item'[i].status = "pending" => item[i].status = "pending"
                /\ item[i].status \in {"approved", "rejected"} =>
                      item'[i].status \in {"approved", "rejected"}
    /\ \A i \in Recharges : ~Exists(i) => ~Exists(i)'

\* An item that is credited is marked.
CreditsMarked == \A i \in Items : credits'[i] > 0 => credits[i] > 0 \/ Marked(i)'

\* An update of one existing row keeps the rows, if it keeps that one.
LEMMA OneRowKept ==
  ASSUME TypeOK, NEW i \in Items, Exists(i), NEW row \in ItemRow,
         item' = [item EXCEPT ![i] = row],
         row.owner = item[i].owner, item[i].paid => row.paid,
         i \in Recharges =>
            /\ row.status = "pending" => item[i].status = "pending"
            /\ item[i].status \in {"approved", "rejected"} =>
                  row.status \in {"approved", "rejected"}
  PROVE  RowsKept /\ item'[i] = row
<1>1. /\ item' \in [Items -> ItemRow \cup {Absent}]
      /\ item'[i] = row
      /\ \A x \in Items : x # i => item'[x] = item[x]
  BY DEF TypeOK
<1>2. row # Absent
  BY QueuesAssumption
<1>3. ASSUME NEW x \in Items, Exists(x)
      PROVE  /\ Exists(x)'
             /\ item'[x].owner = item[x].owner
             /\ item[x].paid => item'[x].paid
             /\ x \in Recharges =>
                   /\ item'[x].status = "pending" => item[x].status = "pending"
                   /\ item[x].status \in {"approved", "rejected"} =>
                         item'[x].status \in {"approved", "rejected"}
  <2>1. CASE x = i
    BY <1>1, <1>2, <2>1 DEF Exists
  <2>2. CASE x # i
    BY <1>1, <1>3, <2>2 DEF Exists
  <2> QED BY <2>1, <2>2
<1>4. \A x \in Recharges : ~Exists(x) => ~Exists(x)'
  BY <1>1 DEF Exists, Items
<1> QED BY <1>1, <1>3, <1>4 DEF RowsKept

\* Rows left alone are kept.
LEMMA NoRowTouched ==
  ASSUME TypeOK, item' = item
  PROVE  RowsKept
BY DEF RowsKept, TypeOK, Exists

\* Kept rows keep what the invariant says of the tables.
LEMMA RowsKeep ==
  ASSUME TypeOK, MarkedInv, OwnedInv, OnePendingRecharge, RowsKept, CreditsMarked
  PROVE  MarkedInv' /\ OwnedInv' /\ OnePendingRecharge'
<1>1. MarkedInv'
  <2> SUFFICES ASSUME NEW i \in Items, credits'[i] > 0 PROVE Marked(i)'
    BY DEF MarkedInv
  <2>0. credits[i] > 0 \/ Marked(i)'
    BY DEF CreditsMarked
  <2>1. CASE Marked(i)'
    BY <2>1
  <2>2. CASE credits[i] > 0
    <3>1. Marked(i)
      BY <2>2 DEF MarkedInv
    <3> QED BY <3>1 DEF Marked, RowMarked, Exists, RowsKept
  <2> QED BY <2>0, <2>1, <2>2
<1>2. OnePendingRecharge'
  <2>1. \A u \in Users : Pending(u)' \subseteq Pending(u)
    BY DEF Pending, Items, Exists, RowsKept
  <2> QED BY <2>1 DEF OnePendingRecharge
<1>3. OwnedInv'
  BY DEF OwnedInv, Items, RowsKept
<1> QED BY <1>1, <1>2, <1>3

\* A request that ends keeps the invariant under all these conditions.
LEMMA EndPreserves ==
  ASSUME Inv, NEW w \in Workers, job' = [job EXCEPT ![w] = Idle],
         credits' \in [Items -> Nat], drafts' \in [Suggestions -> Nat],
         available' \in [Users -> Int],
         RowsKept, CreditsMarked, CreditsCounted(w), DebitsCounted(w)
  PROVE  Inv'
<1>0. /\ TypeOK /\ JobsInv /\ OwnedInv /\ MarkedInv
      /\ CreditsBounded /\ OverdraftBounded /\ OnePendingRecharge
  BY DEF Inv
<1>1. TypeOK'
  BY <1>0 DEF TypeOK, RowsKept
<1>2. JobsInv'
  <2>1. \A v \in Workers : job'[v] = IF v = w THEN Idle ELSE job[v]
    BY <1>0 DEF TypeOK
  <2> QED BY <1>0, <2>1 DEF RowsKept, JobsInv, Items, Rewardable, TypeOK, JobRow
<1>3. MarkedInv' /\ OwnedInv' /\ OnePendingRecharge'
  BY <1>0, RowsKeep
<1>4. CreditsBounded' /\ OverdraftBounded'
  BY <1>0, EndKeepsBounds
<1> QED BY <1>1, <1>2, <1>3, <1>4 DEF Inv

\* Credits left alone are counted and marked.
LEMMA CreditsAlone ==
  ASSUME TypeOK, NEW w, credits' = credits
  PROVE  CreditsMarked /\ CreditsCounted(w)
BY DEF TypeOK, CreditsMarked, CreditsCounted

\* Wallets left alone are counted.
LEMMA WalletsAlone ==
  ASSUME TypeOK, NEW w, available' = available
  PROVE  DebitsCounted(w)
BY DEF TypeOK, DebitsCounted

\* A request that ends without touching credits or wallets keeps the invariant.
LEMMA QuietEnd ==
  ASSUME Inv, NEW w \in Workers, job' = [job EXCEPT ![w] = Idle], RowsKept,
         credits' = credits, available' = available, drafts' \in [Suggestions -> Nat]
  PROVE  Inv'
<1>1. TypeOK
  BY DEF Inv
<1>2. credits' \in [Items -> Nat] /\ available' \in [Users -> Int]
  BY <1>1 DEF TypeOK
<1> QED BY <1>1, <1>2, CreditsAlone, WalletsAlone, EndPreserves

\* A credit of the item a request works on to the user it names.
Credited(w) ==
    /\ w \in Crediting(job[w].item)
    /\ \A x \in Items :
          credits'[x] = IF x = job[w].item THEN credits[x] + 1 ELSE credits[x]
    /\ \A y \in Users : available'[y] >= available[y]

\* What Credit does to the ledger and the wallets.
LEMMA CreditEffect ==
  ASSUME TypeOK, NEW w \in Workers, job[w] # Idle, job[w].op \in {"reward", "approve"},
         job[w].item \in Items, Credit(job[w].item, job[w].user, job[w].amount)
  PROVE  Credited(w) /\ credits' \in [Items -> Nat] /\ available' \in [Users -> Int]
<1> DEFINE i == job[w].item
           u == job[w].user
           amount == job[w].amount
<1>1. job[w] \in JobRow
  BY DEF TypeOK
<1>2. u \in Users /\ amount \in Amounts
  BY <1>1 DEF JobRow
<1>3. amount \in Nat
  BY <1>2, AmountType
<1>4. /\ credits' = [credits EXCEPT ![i] = @ + 1]
      /\ available' = [available EXCEPT ![u] = @ + amount]
  BY DEF Credit
<1>5. w \in Crediting(i)
  BY DEF Crediting
<1> HIDE DEF i, u, amount
<1>6. i \in Items
  BY DEF i
<1>7. /\ credits' \in [Items -> Nat]
      /\ \A x \in Items : credits'[x] = IF x = i THEN credits[x] + 1 ELSE credits[x]
  BY <1>4, <1>6 DEF TypeOK
<1>8. available' \in [Users -> Int] /\ \A y \in Users : available'[y] >= available[y]
  BY <1>2, <1>3, <1>4 DEF TypeOK
<1> QED BY <1>5, <1>7, <1>8 DEF Credited, i

\* A credit of an item that ends up marked is counted and marked.
LEMMA CreditKept ==
  ASSUME TypeOK, NEW w \in Workers, Credited(w), RowMarked(job[w].item, item'[job[w].item]),
         credits' \in [Items -> Nat], available' \in [Users -> Int],
         job' = [job EXCEPT ![w] = Idle]
  PROVE  CreditsMarked /\ CreditsCounted(w) /\ DebitsCounted(w)
<1>1. CreditsCounted(w)
  BY DEF Credited, CreditsCounted
<1>2. DebitsCounted(w)
  BY DEF Credited, DebitsCounted
<1>3. CreditsMarked
  <2>1. ASSUME NEW x \in Items, credits'[x] > 0
        PROVE  credits[x] > 0 \/ Marked(x)'
    <3>1. CASE x = job[w].item
      BY <3>1 DEF Marked
    <3>2. CASE x # job[w].item
      <4>1. credits'[x] = credits[x]
        BY <3>2 DEF Credited
      <4> QED BY <2>1, <4>1
    <3> QED BY <3>1, <3>2
  <2> QED BY <2>1 DEF CreditsMarked
<1> QED BY <1>1, <1>2, <1>3

\* Requests keep the invariant.
LEMMA RequestInv ==
  ASSUME Inv, NEW w \in Workers, Request(w)
  PROVE  Inv'
<1>0. /\ TypeOK /\ JobsInv /\ OwnedInv /\ MarkedInv
      /\ CreditsBounded /\ OverdraftBounded /\ OnePendingRecharge
  BY DEF Inv
<1>1. ASSUME NEW i \in Items, NEW amount \in Amounts, BeginReward(w, i, amount)
      PROVE  Inv'
  <2>1. /\ i \in Rewardable /\ Exists(i) /\ item[i].owner # NoUser /\ ~item[i].paid
        /\ Begin(w, "reward", i, item[i].owner, amount)
    BY <1>1 DEF BeginReward, HasAuthor, NotRewarded
  <2>2. item[i] \in ItemRow
    BY <1>0, <2>1 DEF TypeOK, Exists
  <2>3. item[i].owner \in Users
    BY <2>1, <2>2 DEF ItemRow
  <2>4. credits[i] = 0
    <3>1. credits[i] \in Nat
      BY <1>0 DEF TypeOK
    <3>2. i \notin Recharges
      BY <2>1, QueuesAssumption
    <3> QED BY <1>0, <2>1, <3>1, <3>2 DEF MarkedInv, Marked, RowMarked, RowMarked
  <2>5. [op |-> "reward", item |-> i, user |-> item[i].owner, amount |-> amount] \in JobRow
    BY <2>3 DEF JobRow, Operations
  <2> QED BY <2>1, <2>4, <2>5, BeginPreserves DEF Operations
<1>2. ASSUME NEW i \in Items, NEW amount \in Amounts, BeginConvert(w, i, amount)
      PROVE  Inv'
  <2>1. i \in Suggestions /\ Exists(i) /\ Begin(w, "convert", i, NoUser, amount)
    BY <1>2 DEF BeginConvert
  <2>2. [op |-> "convert", item |-> i, user |-> NoUser, amount |-> amount] \in JobRow
    BY <2>1 DEF JobRow
  <2> QED BY <2>1, <2>2, BeginPreserves DEF Operations
<1>3. ASSUME NEW i \in Items, NEW amount \in Amounts, NEW op \in {"approve", "reject"},
             BeginDecision(w, i, op, amount)
      PROVE  Inv'
  <2>1. /\ i \in Recharges /\ Exists(i) /\ item[i].status = "pending"
        /\ Begin(w, op, i, item[i].owner, amount)
    BY <1>3 DEF BeginDecision
  <2>2. credits[i] = 0
    <3>1. credits[i] \in Nat
      BY <1>0 DEF TypeOK
    <3> QED BY <1>0, <2>1, <3>1 DEF MarkedInv, Marked, RowMarked, RowMarked
  <2>3. item[i].owner \in Users
    BY <1>0, <2>1 DEF OwnedInv
  <2>4. [op |-> op, item |-> i, user |-> item[i].owner, amount |-> amount] \in JobRow
    BY <2>3 DEF JobRow, Operations
  <2> QED BY <2>1, <2>2, <2>4, BeginPreserves DEF Operations
<1>4. ASSUME NEW u \in Users, NEW amount \in Amounts, BeginDebit(w, u, amount)
      PROVE  Inv'
  <2>1. available[u] >= amount /\ Begin(w, "debit", Absent, u, amount)
    BY <1>4 DEF BeginDebit, DebitCovered
  <2>2. [op |-> "debit", item |-> Absent, user |-> u, amount |-> amount] \in JobRow
    BY DEF JobRow, Operations
  <2> QED BY <2>1, <2>2, BeginPreserves DEF Operations
<1>5. ASSUME NEW u \in Users, NEW amount \in Amounts, BeginRecharge(w, u, amount)
      PROVE  Inv'
  <2>1. Begin(w, "recharge", Absent, u, amount)
    BY <1>5 DEF BeginRecharge
  <2>2. [op |-> "recharge", item |-> Absent, user |-> u, amount |-> amount] \in JobRow
    BY DEF JobRow, Operations
  <2> QED BY <2>1, <2>2, BeginPreserves DEF Operations
<1>6. ASSUME CommitReward(w) PROVE Inv'
  <2>1. /\ job[w] # Idle /\ job[w].op = "reward"
        /\ job' = [job EXCEPT ![w] = Idle] /\ drafts' = drafts
        /\ Credit(job[w].item, job[w].user, job[w].amount)
        /\ item' = [item EXCEPT ![job[w].item].status = "rewarded", ![job[w].item].paid = TRUE]
    BY <1>6 DEF CommitReward, Finish
  <2>2. job[w].item \in Rewardable /\ job[w].item \in Items /\ Exists(job[w].item)
    BY <1>0, <2>1 DEF JobsInv, Items, Rewardable
  <2>3. job[w].item \notin Recharges
    BY <2>2, QueuesAssumption
  <2>4. /\ Credited(w) /\ drafts' \in [Suggestions -> Nat]
        /\ credits' \in [Items -> Nat] /\ available' \in [Users -> Int]
    BY <1>0, <2>1, <2>2, CreditEffect DEF TypeOK
  <2>5. RowsKept /\ RowMarked(job[w].item, item'[job[w].item])
    <3> DEFINE i == job[w].item
               row == [item[i] EXCEPT !.status = "rewarded", !.paid = TRUE]
    <3>1. item[i] \in ItemRow
      BY <1>0, <2>2 DEF TypeOK, Exists
    <3>2. /\ row \in ItemRow /\ row.owner = item[i].owner /\ row.paid
          /\ row.status = "rewarded"
      BY <3>1 DEF ItemRow, ItemStatuses
    <3>3. item' = [item EXCEPT ![i] = row]
      BY <2>1
    <3> HIDE DEF row, i
    <3>4. RowsKept /\ item'[i] = row
      BY <1>0, <2>2, <2>3, <3>2, <3>3, OneRowKept DEF i
    <3>5. item'[i] \in ItemRow /\ item'[i].paid
      BY <3>2, <3>4
    <3>6. item'[i] # Absent
      BY <3>5, QueuesAssumption
    <3>7. RowMarked(i, item'[i])
      BY <2>3, <3>5, <3>6 DEF RowMarked, Exists, i
    <3> QED BY <3>4, <3>7 DEF i
  <2> QED BY <1>0, <2>1, <2>4, <2>5, CreditKept, EndPreserves
<1>7. ASSUME CommitApprove(w) PROVE Inv'
  <2>1. /\ job[w] # Idle /\ job[w].op = "approve"
        /\ job' = [job EXCEPT ![w] = Idle] /\ drafts' = drafts
        /\ Credit(job[w].item, job[w].user, job[w].amount)
        /\ item' = [item EXCEPT ![job[w].item].status = "approved", ![job[w].item].paid = TRUE]
    BY <1>7 DEF CommitApprove, Finish
  <2>2. job[w].item \in Recharges /\ job[w].item \in Items /\ Exists(job[w].item)
    BY <1>0, <2>1 DEF JobsInv, Items
  <2>4. /\ Credited(w) /\ drafts' \in [Suggestions -> Nat]
        /\ credits' \in [Items -> Nat] /\ available' \in [Users -> Int]
    BY <1>0, <2>1, <2>2, CreditEffect DEF TypeOK
  <2>5. RowsKept /\ RowMarked(job[w].item, item'[job[w].item])
    <3> DEFINE i == job[w].item
               row == [item[i] EXCEPT !.status = "approved", !.paid = TRUE]
    <3>1. item[i] \in ItemRow
      BY <1>0, <2>2 DEF TypeOK, Exists
    <3>2. /\ row \in ItemRow /\ row.owner = item[i].owner /\ row.paid
          /\ row.status = "approved"
      BY <3>1 DEF ItemRow, ItemStatuses
    <3>3. item' = [item EXCEPT ![i] = row]
      BY <2>1
    <3> HIDE DEF row, i
    <3>4. RowsKept /\ item'[i] = row
      BY <1>0, <2>2, <3>2, <3>3, OneRowKept DEF i
    <3>5. item'[i] \in ItemRow /\ item'[i].status = "approved"
      BY <3>2, <3>4
    <3>6. item'[i] # Absent
      BY <3>5, QueuesAssumption
    <3>7. RowMarked(i, item'[i])
      BY <2>2, <3>5, <3>6 DEF RowMarked, Exists, i
    <3> QED BY <3>4, <3>7 DEF i
  <2> QED BY <1>0, <2>1, <2>4, <2>5, CreditKept, EndPreserves
<1>8. ASSUME CommitReject(w) PROVE Inv'
  <2>1. /\ job[w] # Idle /\ job[w].op = "reject" /\ job' = [job EXCEPT ![w] = Idle]
        /\ item' = [item EXCEPT ![job[w].item].status = "rejected"]
        /\ UNCHANGED <<credits, drafts, available>>
    BY <1>8 DEF CommitReject, Finish, RejectedStatus
  <2>2. job[w].item \in Items /\ Exists(job[w].item)
    BY <1>0, <2>1 DEF JobsInv, Items
  <2>3. RowsKept
    <3> DEFINE i == job[w].item
               row == [item[i] EXCEPT !.status = "rejected"]
    <3>1. item[i] \in ItemRow
      BY <1>0, <2>2 DEF TypeOK, Exists
    <3>2. /\ row \in ItemRow /\ row.owner = item[i].owner /\ row.paid = item[i].paid
          /\ row.status = "rejected"
      BY <3>1 DEF ItemRow, ItemStatuses
    <3>3. item' = [item EXCEPT ![i] = row]
      BY <2>1
    <3> HIDE DEF row, i
    <3> QED BY <1>0, <2>2, <3>2, <3>3, OneRowKept DEF i
  <2>4. credits' = credits /\ available' = available /\ drafts' \in [Suggestions -> Nat]
    BY <1>0, <2>1 DEF TypeOK
  <2> QED BY <2>1, <2>3, <2>4, QuietEnd
<1>9. ASSUME CommitConvert(w) PROVE Inv'
  <2>1. /\ job[w] # Idle /\ job[w].op = "convert" /\ job' = [job EXCEPT ![w] = Idle]
        /\ item' = [item EXCEPT ![job[w].item].status = "converted"]
        /\ drafts' = [drafts EXCEPT ![job[w].item] = @ + 1]
        /\ credits' = credits /\ available' = available
    BY <1>9 DEF CommitConvert, Finish
  <2>2. job[w] \in JobRow
    BY <1>0, <2>1 DEF TypeOK
  <2>3. /\ job[w].item \in Suggestions /\ job[w].item \in Items
        /\ job[w].item \notin Recharges /\ Exists(job[w].item)
    BY <1>0, <2>1, <2>2, QueuesAssumption DEF JobsInv, JobRow, Items, Rewardable
  <2>4. RowsKept
    <3> DEFINE i == job[w].item
               row == [item[i] EXCEPT !.status = "converted"]
    <3>1. item[i] \in ItemRow
      BY <1>0, <2>3 DEF TypeOK, Exists
    <3>2. /\ row \in ItemRow /\ row.owner = item[i].owner /\ row.paid = item[i].paid
          /\ row.status = "converted"
      BY <3>1 DEF ItemRow, ItemStatuses
    <3>3. item' = [item EXCEPT ![i] = row]
      BY <2>1
    <3> HIDE DEF row, i
    <3> QED BY <1>0, <2>3, <3>2, <3>3, OneRowKept DEF i
  <2>5. drafts' \in [Suggestions -> Nat]
    BY <1>0, <2>1, <2>3 DEF TypeOK
  <2> QED BY <1>0, <2>1, <2>4, <2>5, QuietEnd
<1>10. ASSUME CommitDebit(w) PROVE Inv'
  <2>1. /\ job[w] # Idle /\ job[w].op = "debit" /\ job' = [job EXCEPT ![w] = Idle]
        /\ available' = [available EXCEPT ![job[w].user] = @ - job[w].amount]
        /\ item' = item /\ credits' = credits /\ drafts' = drafts
    BY <1>10 DEF CommitDebit, Finish
  <2>2. job[w] \in JobRow
    BY <1>0, <2>1 DEF TypeOK
  <2> DEFINE u == job[w].user
             amount == job[w].amount
  <2>3. u \in Users /\ w \in Debiting(u)
    BY <2>1, <2>2 DEF JobRow, Debiting
  <2>4. amount \in Amounts
    BY <2>2 DEF JobRow
  <2>5. amount \in Nat /\ amount <= MaxAmount /\ MaxAmount \in Nat
    BY <2>4, AmountType
  <2>6. available' = [available EXCEPT ![u] = @ - amount]
    BY <2>1
  <2> HIDE DEF u, amount
  <2>7. available' \in [Users -> Int] /\ DebitsCounted(w)
    <3>1. available \in [Users -> Int]
      BY <1>0 DEF TypeOK
    <3>2. available' \in [Users -> Int]
      BY <2>3, <2>5, <2>6, <3>1
    <3>3. available'[u] = available[u] - amount /\ available[u] \in Int
      BY <2>3, <2>6, <3>1
    <3>4. available'[u] >= available[u] - MaxAmount
      BY <2>5, <3>3
    <3>5. ASSUME NEW y \in Users
          PROVE  available'[y] \in Int
                 /\ (available'[y] >= available[y]
                     \/ (available'[y] >= available[y] - MaxAmount /\ w \in Debiting(y)))
      <4>1. CASE y = u
        BY <2>3, <3>2, <3>4, <4>1
      <4>2. CASE y # u
        <5>1. available'[y] = available[y] /\ available[y] \in Int
          BY <2>6, <3>1, <4>2
        <5> QED BY <5>1
      <4> QED BY <4>1, <4>2
    <3> QED BY <3>2, <3>5 DEF DebitsCounted
  <2>8. CreditsMarked /\ CreditsCounted(w)
    BY <1>0, <2>1, CreditsAlone
  <2>9. RowsKept
    BY <1>0, <2>1, NoRowTouched
  <2>10. credits' \in [Items -> Nat] /\ drafts' \in [Suggestions -> Nat]
    BY <1>0, <2>1 DEF TypeOK
  <2> QED BY <2>1, <2>7, <2>8, <2>9, <2>10, EndPreserves
<1>11. ASSUME NEW i \in Recharges, CommitRecharge(w, i) PROVE Inv'
  <2> DEFINE u == job[w].user
             row == [owner |-> u, status |-> "pending", paid |-> FALSE]
  <2>1. /\ job[w] # Idle /\ job[w].op = "recharge" /\ job' = [job EXCEPT ![w] = Idle]
        /\ item' = [item EXCEPT ![i] = row]
        /\ UNCHANGED <<credits, drafts, available>>
        /\ ~Exists(i) /\ Pending(u) = {}
    BY <1>11 DEF CommitRecharge, Finish, IndexAdmits
  <2>2. job[w] \in JobRow
    BY <1>0, <2>1 DEF TypeOK
  <2>3. u \in Users
    BY <2>1, <2>2 DEF JobRow
  <2>4. row \in ItemRow /\ row.owner = u
    BY <2>3 DEF ItemRow, ItemStatuses
  <2>5. i \in Items /\ Recharges \subseteq Items
    BY DEF Items
  <2> HIDE DEF u, row
  <2>6. \A x \in Items : item'[x] = IF x = i THEN row ELSE item[x]
    BY <1>0, <2>1 DEF TypeOK
  <2>7. TypeOK'
    BY <1>0, <2>1, <2>4 DEF TypeOK
  <2>8. JobsInv'
    <3>1. \A v \in Workers : job'[v] = IF v = w THEN Idle ELSE job[v]
      BY <1>0, <2>1 DEF TypeOK
    <3>2. \A x \in Items : Exists(x) => Exists(x)'
      BY <2>1, <2>6 DEF Exists
    <3> QED BY <1>0, <3>1, <3>2 DEF JobsInv, Items, Rewardable, TypeOK, JobRow
  <2>9. MarkedInv'
    BY <1>0, <2>1, <2>6, <2>5 DEF MarkedInv, Marked, RowMarked, Exists
  <2>10. OwnedInv'
    BY <1>0, <2>3, <2>4, <2>5, <2>6 DEF OwnedInv, Exists
  <2>11. OnePendingRecharge'
    <3>1. \A y \in Users : Pending(y)' \subseteq IF y = u THEN {i} ELSE Pending(y)
      BY <2>1, <2>4, <2>5, <2>6 DEF Pending, Exists
    <3> QED BY <1>0, <3>1 DEF OnePendingRecharge
  <2>12. CreditsBounded' /\ OverdraftBounded'
    <3>1. \A x \in Items : credits'[x] \in Nat /\ credits'[x] = credits[x]
      BY <1>0, <2>1 DEF TypeOK
    <3>2. \A y \in Users : available'[y] \in Int /\ available'[y] >= available[y]
      BY <1>0, <2>1 DEF TypeOK
    <3>3. CreditsCounted(w) /\ DebitsCounted(w)
      BY <3>1, <3>2 DEF CreditsCounted, DebitsCounted
    <3> QED BY <1>0, <2>1, <3>3, EndKeepsBounds
  <2> QED BY <2>7, <2>8, <2>9, <2>10, <2>11, <2>12 DEF Inv
<1>12. ASSUME Rollback(w) PROVE Inv'
  <2>1. /\ job' = [job EXCEPT ![w] = Idle] /\ item' = item
        /\ credits' = credits /\ drafts' = drafts /\ available' = available
    BY <1>12 DEF Rollback
  <2>2. drafts' \in [Suggestions -> Nat]
    BY <1>0, <2>1 DEF TypeOK
  <2> QED BY <1>0, <2>1, <2>2, NoRowTouched, QuietEnd
<1> QED BY <1>1, <1>2, <1>3, <1>4, <1>5, <1>6, <1>7, <1>8, <1>9, <1>10, <1>11, <1>12 DEF Request

\* A step that leaves the requests alone leaves both counts alone.
LEMMA SameCounts ==
  ASSUME job' = job
  PROVE  /\ \A x \in Items : Crediting(x)' = Crediting(x)
         /\ \A y \in Users : Debiting(y)' = Debiting(y)
BY DEF Crediting, Debiting

\* A step that leaves the requests and the tables alone keeps the invariant, if
\* a wallet only loses what it holds.
LEMMA WalletStep ==
  ASSUME Inv, job' = job, item' = item, credits' = credits, drafts' = drafts,
         available' \in [Users -> Int],
         \A y \in Users : available'[y] >= available[y] \/ available'[y] >= 0
  PROVE  Inv'
<1>0. /\ TypeOK /\ JobsInv /\ OwnedInv /\ MarkedInv
      /\ CreditsBounded /\ OverdraftBounded /\ OnePendingRecharge
  BY DEF Inv
<1>1. TypeOK'
  BY <1>0 DEF TypeOK
<1>2. JobsInv' /\ OwnedInv' /\ OnePendingRecharge'
  BY <1>0 DEF JobsInv, OwnedInv, OnePendingRecharge, Pending, Exists
<1>3. MarkedInv'
  BY <1>0 DEF MarkedInv, Marked, RowMarked
<1>4. CreditsBounded'
  BY <1>0, SameCounts DEF CreditsBounded
<1>5. OverdraftBounded'
  <2> SUFFICES ASSUME NEW y \in Users
               PROVE  available'[y] >=
                        -(MaxAmount * (Cardinality(Workers) - Cardinality(Debiting(y)')))
    BY DEF OverdraftBounded
  <2> DEFINE k == Cardinality(Workers) - Cardinality(Debiting(y))
  <2>1. /\ Debiting(y) \in SUBSET Workers /\ Debiting(y)' = Debiting(y)
        /\ available[y] \in Int /\ available'[y] \in Int
        /\ available[y] >= -(MaxAmount * k)
    BY <1>0, SameCounts DEF Debiting, TypeOK, OverdraftBounded
  <2>2. k \in Nat /\ MaxAmount \in Nat
    BY <2>1, CountType, QueuesAssumption
  <2>3. Cardinality(Workers) - Cardinality(Debiting(y)') = k
    BY <2>1
  <2> HIDE DEF k
  <2>4. MaxAmount * k \in Nat
    BY <2>2
  <2>5. available'[y] >= -(MaxAmount * k)
    BY <2>1, <2>4
  <2> QED BY <2>3, <2>5
<1> QED BY <1>1, <1>2, <1>3, <1>4, <1>5 DEF Inv

\* An update of one reward item that keeps its owner and its mark, or adds it,
\* keeps the invariant.
LEMMA ItemStep ==
  ASSUME Inv, job' = job, credits' = credits, drafts' = drafts, available' = available,
         NEW i \in Rewardable, NEW row \in ItemRow, item' = [item EXCEPT ![i] = row],
         credits[i] > 0 => row.paid
  PROVE  Inv'
<1>0. /\ TypeOK /\ JobsInv /\ OwnedInv /\ MarkedInv
      /\ CreditsBounded /\ OverdraftBounded /\ OnePendingRecharge
  BY DEF Inv
<1>1. i \in Items /\ i \notin Recharges
  BY QueuesAssumption DEF Items, Rewardable
<1>2. \A x \in Items : item'[x] = IF x = i THEN row ELSE item[x]
  BY <1>0 DEF TypeOK
<1>3. row # Absent
  BY QueuesAssumption
<1>4. TypeOK'
  BY <1>0, <1>1 DEF TypeOK
<1>5. \A x \in Items : Exists(x) => Exists(x)'
  BY <1>2, <1>3 DEF Exists
<1>6. \A x \in Recharges : item'[x] = item[x]
  BY <1>1, <1>2 DEF Items
<1>7. JobsInv'
  BY <1>0, <1>5 DEF JobsInv, Items, Rewardable, TypeOK, JobRow
<1>8. OwnedInv' /\ OnePendingRecharge'
  BY <1>0, <1>6 DEF OwnedInv, OnePendingRecharge, Pending, Exists
<1>9. MarkedInv'
  BY <1>0, <1>1, <1>2, <1>3 DEF MarkedInv, Marked, RowMarked
<1>10. CreditsBounded' /\ OverdraftBounded'
  BY <1>0, SameCounts DEF CreditsBounded, OverdraftBounded
<1> QED BY <1>4, <1>7, <1>8, <1>9, <1>10 DEF Inv

\* Requests of one statement keep the invariant.
LEMMA DirectInv ==
  ASSUME Inv, Direct
  PROVE  Inv'
<1>0. TypeOK /\ MarkedInv
  BY DEF Inv
<1>1. ASSUME NEW i \in Rewardable, NEW u \in Users \cup {NoUser}, Submit(i, u)
      PROVE  Inv'
  <2> DEFINE row == [owner |-> u, status |-> "pending", paid |-> FALSE]
  <2>1. row \in ItemRow
    BY DEF ItemRow, ItemStatuses
  <2>2. ~Exists(i) /\ i \in Items /\ credits[i] \in Nat
    BY <1>0, <1>1 DEF Submit, Items, Rewardable, TypeOK
  <2>3. ~(credits[i] > 0)
    BY <1>0, <2>2 DEF MarkedInv, Marked, RowMarked, Exists
  <2>4. /\ item' = [item EXCEPT ![i] = row]
        /\ job' = job /\ credits' = credits /\ drafts' = drafts /\ available' = available
    BY <1>1 DEF Submit
  <2> HIDE DEF row
  <2> QED BY <2>1, <2>3, <2>4, ItemStep
<1>2. ASSUME NEW i \in Rewardable, NEW status \in {"pending", "reviewed", "rejected"},
             Review(i, status)
      PROVE  Inv'
  <2> DEFINE row == [item[i] EXCEPT !.status = status]
  <2>1. Exists(i) /\ i \in Items /\ i \notin Recharges
    BY <1>2, QueuesAssumption DEF Review, Items, Rewardable
  <2>2. item[i] \in ItemRow
    BY <1>0, <2>1 DEF TypeOK, Exists
  <2>3. row \in ItemRow /\ row.paid = item[i].paid
    BY <2>2 DEF ItemRow, ItemStatuses
  <2>4. credits[i] > 0 => item[i].paid
    BY <1>0, <2>1 DEF MarkedInv, Marked, RowMarked
  <2>5. /\ item' = [item EXCEPT ![i] = row]
        /\ job' = job /\ credits' = credits /\ drafts' = drafts /\ available' = available
    BY <1>2 DEF Review
  <2> HIDE DEF row
  <2> QED BY <2>3, <2>4, <2>5, ItemStep
<1>3. ASSUME NEW u \in Users, NEW amount \in Amounts, AdjustUp(u, amount)
      PROVE  Inv'
  <2>1. /\ available' = [available EXCEPT ![u] = @ + amount]
        /\ job' = job /\ item' = item /\ credits' = credits /\ drafts' = drafts
    BY <1>3 DEF AdjustUp
  <2>2. amount \in Nat
    BY AmountType
  <2>3. available' \in [Users -> Int] /\ \A y \in Users : available'[y] >= available[y]
    BY <1>0, <2>1, <2>2 DEF TypeOK
  <2> QED BY <2>1, <2>3, WalletStep
<1>4. ASSUME NEW u \in Users, NEW amount \in Amounts, TakePosition(u, amount)
      PROVE  Inv'
  <2>1. /\ available' = [available EXCEPT ![u] = @ - amount] /\ available[u] >= amount
        /\ job' = job /\ item' = item /\ credits' = credits /\ drafts' = drafts
    BY <1>4 DEF TakePosition
  <2>2. amount \in Nat
    BY AmountType
  <2>3. available' \in [Users -> Int]
        /\ \A y \in Users : available'[y] >= available[y] \/ available'[y] >= 0
    BY <1>0, <2>1, <2>2 DEF TypeOK
  <2> QED BY <2>1, <2>3, WalletStep
<1> QED BY <1>1, <1>2, <1>3, <1>4 DEF Direct

-----------------------------------------------------------------------------
(* The theorems.                                                           *)

\* Every step keeps the invariant.
LEMMA NextInv ==
  ASSUME Inv, [Next]_vars
  PROVE  Inv'
<1>1. CASE Next
  BY <1>1, RequestInv, DirectInv DEF Next
<1>2. CASE UNCHANGED vars
  <2>1. /\ item' = item /\ credits' = credits /\ drafts' = drafts
        /\ available' = available /\ job' = job
    BY <1>2 DEF vars
  <2>2. TypeOK
    BY DEF Inv
  <2>3. available' \in [Users -> Int] /\ \A y \in Users : available'[y] >= available[y]
    BY <2>1, <2>2 DEF TypeOK
  <2> QED BY <2>1, <2>3, WalletStep
<1> QED BY <1>1, <1>2

\* The inductive invariant holds throughout.
THEOREM QueuesInvariance == Spec => []Inv
<1>1. Inv /\ [Next]_vars => Inv'
  BY NextInv
<1> QED BY InitInv, <1>1, PTL DEF Spec

\* Tables, wallets and requests keep their types: a reward never names a guest
\* and a request never works on a row that is not there.
THEOREM QueuesTypeCorrect == Spec => []TypeOK
<1>1. Inv => TypeOK
  BY DEF Inv
<1> QED BY QueuesInvariance, <1>1, PTL

\* However many operators reward, approve, review and convert, an item is
\* credited at most once per worker.
THEOREM QueuesCreditsBounded == Spec => []CreditsBounded
<1>1. Inv => CreditsBounded
  BY DEF Inv
<1> QED BY QueuesInvariance, <1>1, PTL

\* With one worker, an item is credited at most once: the documented promise
\* holds exactly when requests do not overlap.
THEOREM SerialCreditedOnce ==
  ASSUME Cardinality(Workers) = 1
  PROVE  Spec => []CreditedOnce
<1>1. Inv => CreditedOnce
  <2> SUFFICES ASSUME Inv, NEW i \in Items PROVE credits[i] <= 1
    BY DEF CreditedOnce
  <2>1. /\ credits[i] \in Nat /\ Crediting(i) \in SUBSET Workers
        /\ credits[i] + Cardinality(Crediting(i)) <= Cardinality(Workers)
    BY DEF Inv, TypeOK, CreditsBounded, Crediting
  <2> QED BY <2>1, CountType
<1> QED BY QueuesInvariance, <1>1, PTL

\* Overlapping manual debits overdraw a wallet by a bounded amount, which the
\* debits still in flight share.
THEOREM QueuesOverdraftBounded == Spec => []OverdraftBounded
<1>1. Inv => OverdraftBounded
  BY DEF Inv
<1> QED BY QueuesInvariance, <1>1, PTL

\* A user never has two pending recharges.
THEOREM QueuesOnePendingRecharge == Spec => []OnePendingRecharge
<1>1. Inv => OnePendingRecharge
  BY DEF Inv
<1> QED BY QueuesInvariance, <1>1, PTL

\* A recharge that was credited never returns to the queue.
THEOREM QueuesCreditedIsDecided == Spec => []CreditedIsDecided
<1>1. Inv => CreditedIsDecided
  BY DEF Inv, MarkedInv, Marked, RowMarked, CreditedIsDecided, Items
<1> QED BY QueuesInvariance, <1>1, PTL

-----------------------------------------------------------------------------
(* The MCP gateway.                                                        *)

\* At the edge: what was let through was counted, and the table is bounded.
EdgeGood ==
    /\ minute \in Minutes
    /\ attempts \in [Addresses -> [Minutes -> Nat]]
    /\ passed \in [Addresses -> Nat]
    /\ \A a \in Addresses : passed[a] <= attempts[a][minute] /\ passed[a] <= MaxAttempts
    /\ Cardinality(Keys(attempts)) <= MaxKeys

\* A call learns its result once, after it was sent, and tells what the API has decided.
CallGood(k) ==
    /\ k.stage \in {"idle", "admitted"} =>
          k.effect = "none" /\ k.result = "none" /\ k.verdict = "none"
    /\ k.stage = "sent" => k.effect # "none" /\ k.result = "none" /\ k.verdict = "none"
    /\ k.stage = "reporting" => k.result # "none"
    /\ k.result = "completed" => k.effect = "applied"
    /\ k.verdict = "completed" => k.effect = "applied"
    /\ k.verdict = "refused" => k.effect \in {"none", "refused"}

CallsGood ==
    /\ calls \in [ToolCalls -> GatewayCall]
    /\ \A c \in ToolCalls : CallGood(calls[c])

Entry(c) == [agency |-> calls[c].agency, result |-> calls[c].result]

\* What is at the API and in the spool has a result; an event is logged as it was.
LogGood ==
    /\ ingested \subseteq ToolCalls
    /\ logged \in [ToolCalls -> Seq([agency : Agencies, result : {"none", "completed", "failed"}])]
    /\ \A e \in ingested : calls[e].result # "none"
    /\ \A e \in ToolCalls : logged[e] = <<>> \/ (e \in ingested /\ logged[e] = <<Entry(e)>>)

SpoolGood ==
    /\ todo \in [ToolCalls -> SUBSET ToolCalls]
    /\ posting \in [ToolCalls -> ToolCalls \cup {NoFile}]
    /\ spool \subseteq ToolCalls /\ torn \subseteq spool
    /\ forgone \subseteq ToolCalls
    /\ \A f \in spool : calls[f].result # "none"
    /\ \A f \in torn : calls[f].stage = "done"
    /\ \A c \in ToolCalls : posting[c] # NoFile =>
          /\ calls[c].stage = "reporting"
          /\ calls[posting[c]].agency = calls[c].agency
          /\ calls[posting[c]].result # "none"
          /\ posting[c] \notin torn
    /\ Cardinality(spool) <= SpoolLimit

GatewayGood == EdgeGood /\ CallsGood /\ LogGood /\ SpoolGood /\ NothingUnaccounted

\* The keys of a table are finitely many.
LEMMA KeysFinite ==
  ASSUME NEW table PROVE IsFiniteSet(Keys(table)) /\ Cardinality(Keys(table)) \in Nat
<1>1. IsFiniteSet(Minutes)
  <2>1. 0 \in Int /\ LastMinute \in Int BY GatewayAssumption
  <2> QED BY <2>1, FS_Interval DEF Minutes
<1>2. IsFiniteSet(Addresses \X Minutes)
  BY <1>1, FS_Product, GatewayAssumption
<1>3. Keys(table) \in SUBSET (Addresses \X Minutes)
  BY DEF Keys
<1>4. IsFiniteSet(Keys(table))
  BY <1>2, <1>3, FS_Subset
<1> QED BY <1>4, FS_CardinalityType

LEMMA FewerKeys ==
  ASSUME NEW table, NEW other, Keys(other) \subseteq Keys(table)
  PROVE  Cardinality(Keys(other)) <= Cardinality(Keys(table))
BY KeysFinite, FS_Subset

\* Dropping old keys leaves those of this minute.
LEMMA RecentKeys ==
  ASSUME EdgeGood
  PROVE  /\ Recent \in [Addresses -> [Minutes -> Nat]]
         /\ \A a \in Addresses : Recent[a][minute] = attempts[a][minute]
         /\ Cardinality(Keys(Recent)) <= MaxKeys
<1>1. /\ minute \in Int /\ minute >= minute - 1 /\ minute \in Minutes
      /\ \A t \in Minutes : t \in Nat
  BY GatewayAssumption DEF EdgeGood, Minutes
<1>2. attempts \in [Addresses -> [Minutes -> Nat]]
  BY DEF EdgeGood
<1>3. Recent \in [Addresses -> [Minutes -> Nat]]
  BY <1>2 DEF Recent
<1>4. \A a \in Addresses : Recent[a][minute] = attempts[a][minute]
  BY <1>1, <1>2 DEF Recent
<1>5. Keys(Recent) \subseteq Keys(attempts)
  <2> SUFFICES ASSUME NEW k \in Addresses \X Minutes, Recent[k[1]][k[2]] > 0
               PROVE  attempts[k[1]][k[2]] > 0
    BY DEF Keys
  <2>1. k[1] \in Addresses /\ k[2] \in Minutes OBVIOUS
  <2>2. Recent[k[1]][k[2]] = IF k[2] >= minute - 1 THEN attempts[k[1]][k[2]] ELSE 0
    BY <2>1 DEF Recent
  <2> QED BY <2>2
<1>6. Cardinality(Keys(Recent)) <= Cardinality(Keys(attempts))
  BY <1>5, FewerKeys
<1>7. /\ Cardinality(Keys(attempts)) <= MaxKeys /\ MaxKeys \in Nat
      /\ Cardinality(Keys(attempts)) \in Nat /\ Cardinality(Keys(Recent)) \in Nat
  BY KeysFinite, GatewayAssumption DEF EdgeGood
<1> QED BY <1>3, <1>4, <1>6, <1>7

\* A request that finds room adds at most one key.
LEMMA CountedKeys ==
  ASSUME EdgeGood, NEW a \in Addresses, Room(a)
  PROVE  /\ Counted(a) \in [Addresses -> [Minutes -> Nat]]
         /\ Counted(a)[a][minute] = attempts[a][minute] + 1
         /\ \A b \in Addresses \ {a} : Counted(a)[b][minute] = attempts[b][minute]
         /\ Cardinality(Keys(Counted(a))) <= MaxKeys
<1>1. minute \in Minutes
  BY DEF EdgeGood
<1>2. /\ Recent \in [Addresses -> [Minutes -> Nat]]
      /\ \A b \in Addresses : Recent[b][minute] = attempts[b][minute]
      /\ Cardinality(Keys(Recent)) <= MaxKeys
  BY RecentKeys
<1>3. Counted(a) \in [Addresses -> [Minutes -> Nat]]
  BY <1>1, <1>2 DEF Counted
<1>4. Counted(a)[a][minute] = attempts[a][minute] + 1
  BY <1>1, <1>2 DEF Counted
<1>5. \A b \in Addresses \ {a} : Counted(a)[b][minute] = attempts[b][minute]
  BY <1>1, <1>2 DEF Counted
<1>6. Keys(Counted(a)) \subseteq Keys(Recent) \cup {<<a, minute>>}
  <2> SUFFICES ASSUME NEW k \in Addresses \X Minutes, Counted(a)[k[1]][k[2]] > 0,
                      k # <<a, minute>>
               PROVE  Recent[k[1]][k[2]] > 0
    BY DEF Keys
  <2>1. k[1] \in Addresses /\ k[2] \in Minutes /\ (k[1] # a \/ k[2] # minute)
    OBVIOUS
  <2>2. Counted(a)[k[1]][k[2]] = Recent[k[1]][k[2]]
    BY <1>1, <1>2, <2>1 DEF Counted
  <2> QED BY <2>2
<1>7. /\ Cardinality(Keys(Recent)) \in Nat /\ MaxKeys \in Nat
      /\ IsFiniteSet(Keys(Recent)) /\ Cardinality(Keys(Counted(a))) \in Nat
  BY KeysFinite, GatewayAssumption
<1>8. IsFiniteSet(Keys(Recent) \cup {<<a, minute>>})
      /\ Cardinality(Keys(Recent) \cup {<<a, minute>>}) =
           IF <<a, minute>> \in Keys(Recent) THEN Cardinality(Keys(Recent))
           ELSE Cardinality(Keys(Recent)) + 1
  BY <1>7, FS_AddElement
<1>9. Cardinality(Keys(Counted(a))) <= Cardinality(Keys(Recent) \cup {<<a, minute>>})
  BY <1>6, <1>8, FS_Subset
<1>10. Recent[a][minute] > 0 => <<a, minute>> \in Keys(Recent)
  BY <1>1 DEF Keys
<1>11. Cardinality(Keys(Recent) \cup {<<a, minute>>}) <= MaxKeys
  BY <1>2, <1>7, <1>8, <1>10 DEF Room
<1>12. Cardinality(Keys(Recent) \cup {<<a, minute>>}) \in Nat
  BY <1>7, <1>8
<1>13. Cardinality(Keys(Counted(a))) <= MaxKeys
  BY <1>7, <1>9, <1>11, <1>12
<1> QED BY <1>3, <1>4, <1>5, <1>13

-----------------------------------------------------------------------------
(* Steps at the edge.                                                      *)

\* A table without a key is within the bound.
LEMMA NoKeys ==
  ASSUME NEW table, \A a \in Addresses, t \in Minutes : table[a][t] = 0
  PROVE  Cardinality(Keys(table)) <= MaxKeys
<1>1. Keys(table) = {}
  <2> SUFFICES ASSUME NEW k \in Addresses \X Minutes PROVE ~ (table[k[1]][k[2]] > 0)
    BY DEF Keys
  <2>1. k[1] \in Addresses /\ k[2] \in Minutes OBVIOUS
  <2>2. table[k[1]][k[2]] = 0 BY <2>1
  <2> QED BY <2>2
<1>2. Cardinality(Keys(table)) = 0
  BY <1>1, FS_EmptySet
<1> QED BY <1>2, GatewayAssumption

LEMMA EdgeStep ==
  ASSUME EdgeGood, GatewayNext
  PROVE  EdgeGood'
<1>1. ASSUME UNCHANGED edgeVars PROVE EdgeGood'
  BY <1>1 DEF EdgeGood, edgeVars, Keys
<1>2. ASSUME NEW c \in ToolCalls, NEW a \in Addresses, Admit(c, a) PROVE EdgeGood'
  <2>1. /\ attempts' = Counted(a) /\ passed' = [passed EXCEPT ![a] = @ + 1]
        /\ minute' = minute /\ Counted(a)[a][minute] <= MaxAttempts /\ Room(a)
    BY <1>2 DEF Admit
  <2>2. /\ Counted(a) \in [Addresses -> [Minutes -> Nat]]
        /\ Counted(a)[a][minute] = attempts[a][minute] + 1
        /\ \A b \in Addresses \ {a} : Counted(a)[b][minute] = attempts[b][minute]
        /\ Cardinality(Keys(Counted(a))) <= MaxKeys
    BY <2>1, CountedKeys
  <2>3. Keys(attempts)' = Keys(Counted(a))
    BY <2>1 DEF Keys
  <2>4. \A b \in Addresses : attempts[b][minute] \in Nat /\ passed[b] \in Nat
    BY DEF EdgeGood
  <2>5. passed' \in [Addresses -> Nat]
    BY <2>1, <2>4 DEF EdgeGood
  <2>6. passed'[a] = passed[a] + 1 /\ \A b \in Addresses \ {a} : passed'[b] = passed[b]
    BY <2>1 DEF EdgeGood
  <2>7. MaxAttempts \in Nat
    BY GatewayAssumption
  <2>8. passed'[a] <= attempts'[a][minute'] /\ passed'[a] <= MaxAttempts
    BY <2>1, <2>2, <2>4, <2>6, <2>7 DEF EdgeGood
  <2>9. \A b \in Addresses \ {a} : passed'[b] <= attempts'[b][minute'] /\ passed'[b] <= MaxAttempts
    BY <2>1, <2>2, <2>6 DEF EdgeGood
  <2> QED BY <2>1, <2>2, <2>3, <2>5, <2>8, <2>9 DEF EdgeGood
<1>3. ASSUME NEW c \in ToolCalls, NEW a \in Addresses, TurnAway(c, a) PROVE EdgeGood'
  <2>1. /\ attempts' = (IF Room(a) THEN Counted(a) ELSE Recent)
        /\ passed' = passed /\ minute' = minute
    BY <1>3 DEF TurnAway
  <2>2. CASE Room(a)
    <3>1. /\ attempts' \in [Addresses -> [Minutes -> Nat]]
          /\ attempts'[a][minute] = attempts[a][minute] + 1
          /\ \A b \in Addresses \ {a} : attempts'[b][minute] = attempts[b][minute]
          /\ Cardinality(Keys(attempts)') <= MaxKeys
      BY <2>1, <2>2, CountedKeys DEF Keys
    <3>2. /\ attempts[a][minute] \in Nat /\ passed[a] \in Nat
          /\ \A b \in Addresses : passed[b] <= attempts[b][minute]
      BY DEF EdgeGood
    <3>3. passed[a] <= attempts'[a][minute]
      BY <3>1, <3>2
    <3>4. \A b \in Addresses : passed[b] <= attempts'[b][minute]
      BY <3>1, <3>2, <3>3
    <3> QED BY <2>1, <3>1, <3>4 DEF EdgeGood
  <2>3. CASE ~ Room(a)
    <3>1. /\ attempts' \in [Addresses -> [Minutes -> Nat]]
          /\ \A b \in Addresses : attempts'[b][minute] = attempts[b][minute]
          /\ Cardinality(Keys(attempts)') <= MaxKeys
      BY <2>1, <2>3, RecentKeys DEF Keys
    <3> QED BY <2>1, <3>1 DEF EdgeGood
  <2> QED BY <2>2, <2>3
<1>4. ASSUME MinutePasses PROVE EdgeGood'
  <2>1. /\ minute < LastMinute /\ minute' = minute + 1 /\ attempts' = attempts
        /\ passed' = [a \in Addresses |-> 0]
    BY <1>4 DEF MinutePasses
  <2>2. minute' \in Minutes
    BY <2>1, GatewayAssumption DEF EdgeGood, Minutes
  <2>3. \A a \in Addresses : attempts[a][minute'] \in Nat
    BY <2>2 DEF EdgeGood
  <2>4. MaxAttempts \in Nat
    BY GatewayAssumption
  <2>5. Keys(attempts)' = Keys(attempts)
    BY <2>1 DEF Keys
  <2> QED BY <2>1, <2>2, <2>3, <2>4, <2>5 DEF EdgeGood
<1>5. ASSUME Restart PROVE EdgeGood'
  <2>1. /\ attempts' = [a \in Addresses |-> [t \in Minutes |-> 0]]
        /\ passed' = [a \in Addresses |-> 0] /\ minute' = minute
    BY <1>5 DEF Restart
  <2>2. Cardinality(Keys(attempts')) <= MaxKeys
    BY <2>1, NoKeys
  <2>3. Keys(attempts)' = Keys(attempts')
    BY DEF Keys
  <2>4. MaxAttempts \in Nat
    BY GatewayAssumption
  <2> QED BY <2>1, <2>2, <2>3, <2>4 DEF EdgeGood
<1>6. ASSUME NEW c \in ToolCalls,
             \/ Send(c) \/ Unauthorized(c) \/ Perform(c)
             \/ Completed(c) \/ Refused(c) \/ GivesUp(c) \/ DiskFails(c)
      PROVE  UNCHANGED edgeVars
  BY <1>6 DEF Send, Unauthorized, Perform, Completed, Refused, GivesUp, Reports, DiskFails
<1>7. ASSUME NEW c \in ToolCalls, NEW f \in ToolCalls,
             LeaveSpool(c, f) \/ Expire(c, f) \/ PassOver(c, f) \/ Post(c, f)
      PROVE  UNCHANGED edgeVars
  BY <1>7 DEF LeaveSpool, Expire, PassOver, Post
<1>8. ASSUME NEW c \in ToolCalls, NEW answer \in {"accepted", "refused", "lost"},
             Posted(c, answer) \/ ReportOwn(c, answer)
      PROVE  UNCHANGED edgeVars
  BY <1>8 DEF Posted, ReportOwn
<1> QED BY <1>1, <1>2, <1>3, <1>4, <1>5, <1>6, <1>7, <1>8 DEF GatewayNext

-----------------------------------------------------------------------------
(* Steps of a call.                                                        *)

\* What is in the spool and the log does not change when a call moves on without a result.
LEMMA MovesOn ==
  ASSUME CallsGood, LogGood, SpoolGood, NothingUnaccounted,
         NEW c \in ToolCalls, NEW k \in GatewayCall, CallGood(k),
         calls' = [calls EXCEPT ![c] = k],
         k.agency = calls[c].agency, k.result = calls[c].result,
         calls[c].stage = "reporting" => k.stage = "reporting",
         calls[c].stage = "done" => k.stage = "done",
         k.stage = "done" => calls[c].stage = "done" \/ k.result = "none",
         UNCHANGED <<todo, posting, fileVars, logVars>>
  PROVE  CallsGood' /\ LogGood' /\ SpoolGood' /\ NothingUnaccounted'
<1>1. /\ calls' \in [ToolCalls -> GatewayCall]
      /\ calls'[c] = k /\ \A d \in ToolCalls \ {c} : calls'[d] = calls[d]
  BY DEF CallsGood
<1>2. CallsGood'
  BY <1>1 DEF CallsGood
<1>3. \A d \in ToolCalls :
        /\ calls'[d].agency = calls[d].agency /\ calls'[d].result = calls[d].result
        /\ calls[d].stage = "reporting" => calls'[d].stage = "reporting"
        /\ calls[d].stage = "done" => calls'[d].stage = "done"
        /\ calls'[d].stage = "done" => calls[d].stage = "done" \/ calls'[d].result = "none"
  BY <1>1
<1>4. LogGood'
  BY <1>3 DEF LogGood, Entry, logVars
<1>5. SpoolGood'
  <2>1. UNCHANGED <<todo, posting, spool, torn, forgone>>
    BY DEF fileVars
  <2>2. ASSUME NEW d \in ToolCalls, posting[d] # NoFile
        PROVE  /\ calls'[d].stage = "reporting"
               /\ calls'[posting[d]].agency = calls'[d].agency
               /\ calls'[posting[d]].result # "none"
    <3>1. posting[d] \in ToolCalls
      BY <2>2 DEF SpoolGood
    <3> QED BY <1>3, <2>2, <3>1 DEF SpoolGood
  <2>3. \A f \in spool : calls'[f].result # "none"
    BY <1>3 DEF SpoolGood
  <2>4. \A f \in torn : calls'[f].stage = "done"
    BY <1>3 DEF SpoolGood
  <2> QED BY <2>1, <2>2, <2>3, <2>4 DEF SpoolGood
<1>6. NothingUnaccounted'
  BY <1>3 DEF NothingUnaccounted, fileVars, logVars
<1> QED BY <1>2, <1>4, <1>5, <1>6

LEMMA BeforeReports ==
  ASSUME CallsGood, LogGood, SpoolGood, NothingUnaccounted, NEW c \in ToolCalls,
         \/ \E a \in Addresses : Admit(c, a) \/ TurnAway(c, a)
         \/ Send(c) \/ Unauthorized(c) \/ Perform(c)
  PROVE  CallsGood' /\ LogGood' /\ SpoolGood' /\ NothingUnaccounted'
<1>1. calls[c] \in GatewayCall /\ CallGood(calls[c]) /\ calls \in [ToolCalls -> GatewayCall]
  BY DEF CallsGood
<1>2. ASSUME NEW a \in Addresses, Admit(c, a)
      PROVE  CallsGood' /\ LogGood' /\ SpoolGood' /\ NothingUnaccounted'
  <2> DEFINE k == [calls[c] EXCEPT !.stage = "admitted"]
  <2>1. /\ calls[c].stage = "idle" /\ calls' = [calls EXCEPT ![c] = k]
        /\ UNCHANGED <<todo, posting, fileVars, logVars>>
    BY <1>2 DEF Admit
  <2>2. /\ k \in GatewayCall /\ CallGood(k) /\ k.agency = calls[c].agency
        /\ k.result = calls[c].result /\ k.stage = "admitted"
    BY <1>1, <2>1 DEF GatewayCall, CallStage, CallGood
  <2> QED BY <2>1, <2>2, MovesOn
<1>3. ASSUME NEW a \in Addresses, TurnAway(c, a)
      PROVE  CallsGood' /\ LogGood' /\ SpoolGood' /\ NothingUnaccounted'
  <2> DEFINE k == [calls[c] EXCEPT !.stage = "done", !.verdict = "refused"]
  <2>1. /\ calls[c].stage = "idle" /\ calls' = [calls EXCEPT ![c] = k]
        /\ UNCHANGED <<todo, posting, fileVars, logVars>>
    BY <1>3 DEF TurnAway
  <2>2. /\ k \in GatewayCall /\ CallGood(k) /\ k.agency = calls[c].agency
        /\ k.result = calls[c].result /\ k.result = "none"
    BY <1>1, <2>1 DEF GatewayCall, CallStage, CallGood, Verdicts
  <2> QED BY <2>1, <2>2, MovesOn
<1>4. ASSUME Send(c)
      PROVE  CallsGood' /\ LogGood' /\ SpoolGood' /\ NothingUnaccounted'
  <2> DEFINE k == [calls[c] EXCEPT !.stage = "sent", !.effect = "pending"]
  <2>1. /\ calls[c].stage = "admitted" /\ calls' = [calls EXCEPT ![c] = k]
        /\ UNCHANGED <<todo, posting, fileVars, logVars>>
    BY <1>4 DEF Send
  <2>2. /\ k \in GatewayCall /\ CallGood(k) /\ k.agency = calls[c].agency
        /\ k.result = calls[c].result /\ k.stage = "sent"
    BY <1>1, <2>1 DEF GatewayCall, CallStage, CallGood
  <2> QED BY <2>1, <2>2, MovesOn
<1>5. ASSUME Unauthorized(c)
      PROVE  CallsGood' /\ LogGood' /\ SpoolGood' /\ NothingUnaccounted'
  <2> DEFINE k == [calls[c] EXCEPT !.stage = "done", !.verdict = "refused"]
  <2>1. /\ calls[c].stage = "admitted" /\ calls' = [calls EXCEPT ![c] = k]
        /\ UNCHANGED <<todo, posting, fileVars, logVars>>
    BY <1>5 DEF Unauthorized
  <2>2. /\ k \in GatewayCall /\ CallGood(k) /\ k.agency = calls[c].agency
        /\ k.result = calls[c].result /\ k.result = "none"
    BY <1>1, <2>1 DEF GatewayCall, CallStage, CallGood, Verdicts
  <2> QED BY <2>1, <2>2, MovesOn
<1>6. ASSUME Perform(c)
      PROVE  CallsGood' /\ LogGood' /\ SpoolGood' /\ NothingUnaccounted'
  <2>1. PICK effect \in {"applied", "refused"} : calls' = [calls EXCEPT ![c].effect = effect]
    BY <1>6 DEF Perform
  <2> DEFINE k == [calls[c] EXCEPT !.effect = effect]
  <2>2. /\ calls[c].effect = "pending" /\ calls' = [calls EXCEPT ![c] = k]
        /\ UNCHANGED <<todo, posting, fileVars, logVars>>
    BY <1>6, <2>1 DEF Perform
  <2>3. /\ k \in GatewayCall /\ CallGood(k) /\ k.agency = calls[c].agency
        /\ k.result = calls[c].result /\ k.stage = calls[c].stage
    BY <1>1, <2>2 DEF GatewayCall, CallGood
  <2> QED BY <2>2, <2>3, MovesOn
<1> QED BY <1>2, <1>3, <1>4, <1>5, <1>6

-----------------------------------------------------------------------------
(* Outcomes and their reports.                                             *)

\* A call that learns its result has reported nothing yet.
LEMMA OutcomeKnown ==
  ASSUME CallsGood, LogGood, SpoolGood, NothingUnaccounted,
         NEW c \in ToolCalls, Completed(c) \/ Refused(c) \/ GivesUp(c)
  PROVE  CallsGood' /\ LogGood' /\ SpoolGood' /\ NothingUnaccounted'
<1>1. calls[c] \in GatewayCall /\ CallGood(calls[c]) /\ calls \in [ToolCalls -> GatewayCall]
  BY DEF CallsGood
<1>2. PICK result \in {"completed", "failed"}, verdict \in Verdicts :
        /\ calls[c].stage = "sent" /\ Reports(c, result, verdict)
        /\ result = "completed" => calls[c].effect = "applied"
        /\ verdict = "completed" => calls[c].effect = "applied"
        /\ verdict = "refused" => calls[c].effect = "refused"
  <2>1. CASE Completed(c)
    BY <2>1 DEF Completed, Verdicts
  <2>2. CASE Refused(c)
    BY <2>2 DEF Refused, Verdicts
  <2>3. CASE GivesUp(c)
    BY <2>3 DEF GivesUp, Verdicts
  <2> QED BY <2>1, <2>2, <2>3
<1> DEFINE k == [calls[c] EXCEPT !.stage = "reporting", !.result = result, !.verdict = verdict]
<1>3. /\ calls' = [calls EXCEPT ![c] = k] /\ todo' = [todo EXCEPT ![c] = spool]
      /\ UNCHANGED <<posting, fileVars, logVars>>
  BY <1>2 DEF Reports
<1>4. /\ k \in GatewayCall /\ CallGood(k) /\ k.agency = calls[c].agency
      /\ k.stage = "reporting" /\ k.result # "none"
  BY <1>1, <1>2 DEF GatewayCall, CallStage, CallGood
<1>5. /\ calls'[c] = k /\ \A d \in ToolCalls \ {c} : calls'[d] = calls[d]
      /\ calls' \in [ToolCalls -> GatewayCall]
  BY <1>1, <1>3, <1>4
<1>6. calls[c].result = "none" /\ c \notin ingested \cup spool /\ c \notin torn
  BY <1>1, <1>2 DEF CallGood, LogGood, SpoolGood
<1>7. CallsGood'
  BY <1>4, <1>5 DEF CallsGood
<1>8. LogGood'
  BY <1>3, <1>4, <1>5, <1>6 DEF LogGood, Entry, logVars
<1>9. SpoolGood'
  <2>1. UNCHANGED <<posting, spool, torn, forgone>>
    BY <1>3 DEF fileVars
  <2>2. ASSUME NEW d \in ToolCalls, posting[d] # NoFile
        PROVE  /\ calls'[d].stage = "reporting"
               /\ calls'[posting[d]].agency = calls'[d].agency
               /\ calls'[posting[d]].result # "none"
    <3>1. posting[d] \in ToolCalls
      BY <2>2 DEF SpoolGood
    <3>2. \A e \in ToolCalls : calls'[e].agency = calls[e].agency
      BY <1>4, <1>5
    <3>3. d # c /\ posting[d] # c
      BY <1>2, <1>6, <2>2 DEF SpoolGood
    <3> QED BY <1>5, <2>2, <3>1, <3>2, <3>3 DEF SpoolGood
  <2>3. \A f \in spool : calls'[f].result # "none"
    BY <1>4, <1>5 DEF SpoolGood
  <2>4. \A f \in torn : calls'[f].stage = "done"
    BY <1>5, <1>6 DEF SpoolGood
  <2>5. todo' \in [ToolCalls -> SUBSET ToolCalls]
    BY <1>3 DEF SpoolGood
  <2> QED BY <2>1, <2>2, <2>3, <2>4, <2>5 DEF SpoolGood
<1>10. NothingUnaccounted'
  BY <1>3, <1>4, <1>5 DEF NothingUnaccounted, fileVars, logVars
<1> QED BY <1>7, <1>8, <1>9, <1>10

\* The API's log takes an event once.
LEMMA DeliveredOnce ==
  ASSUME CallsGood, LogGood, NEW e \in ToolCalls, calls[e].result # "none",
         NEW answer \in {"accepted", "refused", "lost"},
         Delivered(e, calls[e].agency, answer),
         \A d \in ToolCalls :
            calls'[d].agency = calls[d].agency /\ calls'[d].result = calls[d].result
  PROVE  /\ LogGood' /\ ingested \subseteq ingested'
         /\ answer = "accepted" => e \in ingested'
<1>1. calls[e].agency \in Agencies /\ calls[e].result \in {"none", "completed", "failed"}
  BY DEF CallsGood, GatewayCall
<1>2. CASE UNCHANGED logVars /\ answer # "accepted"
  BY <1>2 DEF LogGood, Entry, logVars
<1>3. CASE Ingest(e, calls[e].agency)
  <2>1. ingested' = ingested \cup {e}
    BY <1>3 DEF Ingest
  <2>2. \A d \in ToolCalls : Entry(d)' = Entry(d)
    BY DEF Entry
  <2>3. CASE UNCHANGED logged
    BY <2>1, <2>2, <2>3 DEF LogGood
  <2>4. CASE e \notin ingested /\ logged' = [logged EXCEPT ![e] = Append(@, Entry(e))]
    <3>1. logged[e] = <<>>
      BY <2>4 DEF LogGood
    <3>2. Entry(e) \in [agency : Agencies, result : {"none", "completed", "failed"}]
      BY <1>1 DEF Entry
    <3>3. Append(<<>>, Entry(e)) = <<Entry(e)>>
      OBVIOUS
    <3>4. logged' = [logged EXCEPT ![e] = <<Entry(e)>>]
      BY <2>4, <3>1, <3>3
    <3>5. <<Entry(e)>> \in Seq([agency : Agencies, result : {"none", "completed", "failed"}])
      BY <3>2
    <3>6. logged' \in [ToolCalls -> Seq([agency : Agencies, result : {"none", "completed", "failed"}])]
      BY <3>4, <3>5 DEF LogGood
    <3>7. /\ logged'[e] = <<Entry(e)>>
          /\ \A d \in ToolCalls \ {e} : logged'[d] = logged[d]
      BY <3>4 DEF LogGood
    <3> QED BY <2>1, <2>2, <3>6, <3>7 DEF LogGood
  <2>5. \/ UNCHANGED logged
        \/ e \notin ingested /\ logged' = [logged EXCEPT ![e] = Append(@, Entry(e))]
    BY <1>3 DEF Ingest, Entry
  <2> QED BY <2>1, <2>3, <2>4, <2>5
<1>4. \/ UNCHANGED logVars /\ answer # "accepted"
      \/ Ingest(e, calls[e].agency)
  BY DEF Delivered
<1> QED BY <1>2, <1>3, <1>4

\* Files are finitely many, and one less or one more where there is room stays so.
LEMMA SpoolFits ==
  ASSUME SpoolGood
  PROVE  /\ \A f : Cardinality(spool \ {f}) <= SpoolLimit
         /\ \A f : Cardinality(spool) < SpoolLimit => Cardinality(spool \cup {f}) <= SpoolLimit
<1>1. IsFiniteSet(spool) /\ Cardinality(spool) \in Nat /\ SpoolLimit \in Nat
  BY GatewayAssumption, FS_Subset, FS_CardinalityType DEF SpoolGood
<1>2. ASSUME NEW f PROVE Cardinality(spool \ {f}) <= SpoolLimit
  <2>1. Cardinality(spool \ {f}) =
          IF f \in spool THEN Cardinality(spool) - 1 ELSE Cardinality(spool)
    BY <1>1, FS_RemoveElement
  <2> QED BY <1>1, <2>1 DEF SpoolGood
<1>3. ASSUME NEW f, Cardinality(spool) < SpoolLimit
      PROVE  Cardinality(spool \cup {f}) <= SpoolLimit
  <2>1. Cardinality(spool \cup {f}) =
          IF f \in spool THEN Cardinality(spool) ELSE Cardinality(spool) + 1
    BY <1>1, FS_AddElement
  <2> QED BY <1>1, <1>3, <2>1 DEF SpoolGood
<1> QED BY <1>2, <1>3

\* The spooled files are looked at one by one; one that is removed has expired.
LEMMA FileStep ==
  ASSUME CallsGood, LogGood, SpoolGood, NothingUnaccounted,
         NEW c \in ToolCalls, NEW f \in ToolCalls,
         LeaveSpool(c, f) \/ Expire(c, f) \/ PassOver(c, f) \/ Post(c, f)
  PROVE  CallsGood' /\ LogGood' /\ SpoolGood' /\ NothingUnaccounted'
<1>1. UNCHANGED <<calls, ingested, logged, torn>> /\ c \in ToolCalls
  BY DEF LeaveSpool, Expire, PassOver, Post, fileVars, logVars
<1>2. CallsGood' /\ LogGood'
  BY <1>1 DEF CallsGood, LogGood, Entry
<1>3. CASE LeaveSpool(c, f) \/ PassOver(c, f)
  <2>1. /\ UNCHANGED <<posting, spool, forgone>>
        /\ todo' = [todo EXCEPT ![c] = {}] \/ todo' = [todo EXCEPT ![c] = @ \ {f}]
    BY <1>3 DEF LeaveSpool, PassOver, fileVars
  <2>2. todo' \in [ToolCalls -> SUBSET ToolCalls]
    BY <2>1 DEF SpoolGood
  <2>3. SpoolGood'
    BY <1>1, <2>1, <2>2 DEF SpoolGood
  <2>4. NothingUnaccounted'
    BY <1>1, <2>1 DEF NothingUnaccounted
  <2> QED BY <1>2, <2>3, <2>4
<1>4. CASE Expire(c, f)
  <2>1. /\ UNCHANGED posting /\ f \in spool \ torn /\ spool' = spool \ {f}
        /\ forgone' = forgone \cup {f} /\ todo' = [todo EXCEPT ![c] = @ \ {f}]
    BY <1>4 DEF Expire
  <2>2. todo' \in [ToolCalls -> SUBSET ToolCalls]
    BY <2>1 DEF SpoolGood
  <2>3. Cardinality(spool') <= SpoolLimit
    BY <2>1, SpoolFits
  <2>4. SpoolGood'
    BY <1>1, <2>1, <2>2, <2>3 DEF SpoolGood
  <2>5. NothingUnaccounted'
    BY <1>1, <2>1 DEF NothingUnaccounted
  <2> QED BY <1>2, <2>4, <2>5
<1>5. CASE Post(c, f)
  <2>1. /\ UNCHANGED <<spool, forgone>> /\ f \in spool \ torn
        /\ calls[c].stage = "reporting" /\ calls[f].agency = calls[c].agency
        /\ posting' = [posting EXCEPT ![c] = f] /\ todo' = [todo EXCEPT ![c] = @ \ {f}]
    BY <1>5 DEF Post, Looking, Addressed, fileVars
  <2>2. /\ todo' \in [ToolCalls -> SUBSET ToolCalls]
        /\ posting' \in [ToolCalls -> ToolCalls \cup {NoFile}]
    BY <2>1 DEF SpoolGood
  <2>3. posting'[c] = f /\ \A d \in ToolCalls \ {c} : posting'[d] = posting[d]
    BY <2>1 DEF SpoolGood
  <2>4. SpoolGood'
    BY <1>1, <2>1, <2>2, <2>3 DEF SpoolGood
  <2>5. NothingUnaccounted'
    BY <1>1, <2>1 DEF NothingUnaccounted
  <2> QED BY <1>2, <2>4, <2>5
<1> QED BY <1>3, <1>4, <1>5

\* A file is removed when the API has its event.
LEMMA PostedStep ==
  ASSUME CallsGood, LogGood, SpoolGood, NothingUnaccounted,
         NEW c \in ToolCalls, NEW answer \in {"accepted", "refused", "lost"}, Posted(c, answer)
  PROVE  CallsGood' /\ LogGood' /\ SpoolGood' /\ NothingUnaccounted'
<1> DEFINE f == posting[c]
<1>1. /\ f # NoFile /\ Delivered(f, calls[c].agency, answer)
      /\ UNCHANGED <<calls, torn, forgone>>
      /\ posting' = [posting EXCEPT ![c] = NoFile]
      /\ spool' = IF answer = "accepted" THEN spool \ {f} ELSE spool
      /\ todo' = [todo EXCEPT ![c] = {}] \/ todo' = todo
  BY DEF Posted
<1>2. /\ f \in ToolCalls /\ calls[f].agency = calls[c].agency
      /\ calls[f].result # "none" /\ f \notin torn
  BY <1>1 DEF SpoolGood
<1>3. Delivered(f, calls[f].agency, answer)
  BY <1>1, <1>2
<1>4. LogGood' /\ ingested \subseteq ingested' /\ (answer = "accepted" => f \in ingested')
  BY <1>1, <1>2, <1>3, DeliveredOnce
<1>5. CallsGood'
  BY <1>1 DEF CallsGood
<1>6. /\ todo' \in [ToolCalls -> SUBSET ToolCalls]
      /\ posting' \in [ToolCalls -> ToolCalls \cup {NoFile}]
      /\ posting'[c] = NoFile /\ \A d \in ToolCalls \ {c} : posting'[d] = posting[d]
  BY <1>1 DEF SpoolGood
<1>7. Cardinality(spool') <= SpoolLimit
  BY <1>1, SpoolFits DEF SpoolGood
<1>8. spool' \subseteq spool /\ torn \subseteq spool' /\ spool \ {f} \subseteq spool'
  BY <1>1, <1>2 DEF SpoolGood
<1>9. SpoolGood'
  BY <1>1, <1>6, <1>7, <1>8 DEF SpoolGood
<1>10. NothingUnaccounted'
  BY <1>1, <1>4, <1>8 DEF NothingUnaccounted
<1> QED BY <1>4, <1>5, <1>9, <1>10

\* What a call that ends leaves: no delivery of its own, nothing torn.
LEMMA CallEnds ==
  ASSUME CallsGood, SpoolGood, NEW c \in ToolCalls, NEW k \in GatewayCall, CallGood(k),
         calls[c].stage = "reporting", posting[c] = NoFile,
         calls' = [calls EXCEPT ![c] = k],
         k.stage = "done", k.agency = calls[c].agency, k.result = calls[c].result
  PROVE  /\ CallsGood'
         /\ \A d \in ToolCalls :
              calls'[d].agency = calls[d].agency /\ calls'[d].result = calls[d].result
         /\ \A d \in ToolCalls \ {c} : calls'[d] = calls[d]
         /\ \A f \in torn : calls'[f].stage = "done"
         /\ \A d \in ToolCalls : posting[d] # NoFile =>
              /\ calls'[d].stage = "reporting"
              /\ calls'[posting[d]].agency = calls'[d].agency
              /\ calls'[posting[d]].result # "none"
              /\ posting[d] \notin torn
<1>1. /\ calls' \in [ToolCalls -> GatewayCall]
      /\ calls'[c] = k /\ \A d \in ToolCalls \ {c} : calls'[d] = calls[d]
  BY DEF CallsGood
<1>2. CallsGood'
  BY <1>1 DEF CallsGood
<1>3. \A d \in ToolCalls :
        calls'[d].agency = calls[d].agency /\ calls'[d].result = calls[d].result
  BY <1>1
<1>4. \A f \in torn : calls'[f].stage = "done"
  BY <1>1 DEF SpoolGood
<1>5. ASSUME NEW d \in ToolCalls, posting[d] # NoFile
      PROVE  /\ calls'[d].stage = "reporting"
             /\ calls'[posting[d]].agency = calls'[d].agency
             /\ calls'[posting[d]].result # "none"
             /\ posting[d] \notin torn
  <2>1. posting[d] \in ToolCalls /\ d # c
    BY <1>5 DEF SpoolGood
  <2> QED BY <1>1, <1>3, <1>5, <2>1 DEF SpoolGood
<1> QED BY <1>1, <1>2, <1>3, <1>4, <1>5

LEMMA OwnReportStep ==
  ASSUME CallsGood, LogGood, SpoolGood, NothingUnaccounted,
         NEW c \in ToolCalls, NEW answer \in {"accepted", "refused", "lost"}, ReportOwn(c, answer)
  PROVE  CallsGood' /\ LogGood' /\ SpoolGood' /\ NothingUnaccounted'
<1> DEFINE k == [calls[c] EXCEPT !.stage = "done"]
<1>1. /\ calls[c].stage = "reporting" /\ posting[c] = NoFile
      /\ Delivered(c, calls[c].agency, answer)
      /\ calls' = [calls EXCEPT ![c] = k]
      /\ UNCHANGED <<todo, posting, torn>>
      /\ \/ answer = "accepted" /\ UNCHANGED <<spool, forgone>>
         \/ answer # "accepted" /\ Cardinality(spool) < SpoolLimit
            /\ spool' = spool \cup {c} /\ UNCHANGED forgone
         \/ answer # "accepted" /\ forgone' = forgone \cup {c} /\ UNCHANGED spool
  BY DEF ReportOwn
<1>2. calls[c] \in GatewayCall /\ CallGood(calls[c])
  BY DEF CallsGood
<1>3. /\ k \in GatewayCall /\ CallGood(k) /\ k.stage = "done"
      /\ k.agency = calls[c].agency /\ k.result = calls[c].result
  BY <1>1, <1>2 DEF GatewayCall, CallStage, CallGood
<1>4. /\ CallsGood'
      /\ \A d \in ToolCalls :
           calls'[d].agency = calls[d].agency /\ calls'[d].result = calls[d].result
      /\ \A d \in ToolCalls \ {c} : calls'[d] = calls[d]
      /\ \A f \in torn : calls'[f].stage = "done"
      /\ \A d \in ToolCalls : posting[d] # NoFile =>
           /\ calls'[d].stage = "reporting"
           /\ calls'[posting[d]].agency = calls'[d].agency
           /\ calls'[posting[d]].result # "none"
           /\ posting[d] \notin torn
  BY <1>1, <1>3, CallEnds
<1>5. calls[c].result # "none" /\ c \notin torn
  BY <1>1, <1>2 DEF CallGood, SpoolGood
<1>6. LogGood' /\ ingested \subseteq ingested' /\ (answer = "accepted" => c \in ingested')
  BY <1>1, <1>4, <1>5, DeliveredOnce
<1>7. /\ spool \subseteq spool' /\ spool' \subseteq spool \cup {c}
      /\ Cardinality(spool') <= SpoolLimit
  BY <1>1, SpoolFits DEF SpoolGood
<1>8. forgone \subseteq forgone' /\ forgone' \subseteq forgone \cup {c}
  BY <1>1
<1>9. \A f \in spool' : calls'[f].result # "none"
  BY <1>4, <1>5, <1>7 DEF SpoolGood
<1>10. SpoolGood'
  BY <1>1, <1>4, <1>7, <1>8, <1>9 DEF SpoolGood
<1>11. c \in ingested' \cup (spool' \ torn') \cup forgone'
  BY <1>1, <1>5, <1>6
<1>12. NothingUnaccounted'
  BY <1>1, <1>4, <1>6, <1>7, <1>8, <1>11 DEF NothingUnaccounted
<1> QED BY <1>4, <1>6, <1>10, <1>12

LEMMA DiskFailsStep ==
  ASSUME CallsGood, LogGood, SpoolGood, NothingUnaccounted, NEW c \in ToolCalls, DiskFails(c)
  PROVE  CallsGood' /\ LogGood' /\ SpoolGood' /\ NothingUnaccounted'
<1> DEFINE k == [calls[c] EXCEPT !.stage = "done", !.verdict = "broken"]
<1>1. /\ calls[c].stage = "reporting" /\ posting[c] = NoFile
      /\ calls' = [calls EXCEPT ![c] = k]
      /\ todo' = [todo EXCEPT ![c] = {}] /\ forgone' = forgone \cup {c}
      /\ UNCHANGED <<posting, spool, torn, ingested, logged>>
  BY DEF DiskFails, logVars
<1>2. calls[c] \in GatewayCall /\ CallGood(calls[c])
  BY DEF CallsGood
<1>3. /\ k \in GatewayCall /\ CallGood(k) /\ k.stage = "done"
      /\ k.agency = calls[c].agency /\ k.result = calls[c].result
  BY <1>1, <1>2 DEF GatewayCall, CallStage, CallGood, Verdicts
<1>4. /\ CallsGood'
      /\ \A d \in ToolCalls :
           calls'[d].agency = calls[d].agency /\ calls'[d].result = calls[d].result
      /\ \A d \in ToolCalls \ {c} : calls'[d] = calls[d]
      /\ \A f \in torn : calls'[f].stage = "done"
      /\ \A d \in ToolCalls : posting[d] # NoFile =>
           /\ calls'[d].stage = "reporting"
           /\ calls'[posting[d]].agency = calls'[d].agency
           /\ calls'[posting[d]].result # "none"
           /\ posting[d] \notin torn
  BY <1>1, <1>3, CallEnds
<1>5. LogGood'
  BY <1>1, <1>4 DEF LogGood, Entry
<1>6. todo' \in [ToolCalls -> SUBSET ToolCalls]
  BY <1>1 DEF SpoolGood
<1>7. SpoolGood'
  BY <1>1, <1>4, <1>6 DEF SpoolGood
<1>8. NothingUnaccounted'
  BY <1>1, <1>4 DEF NothingUnaccounted
<1> QED BY <1>4, <1>5, <1>7, <1>8

\* A restart ends every call under way, and forgoes what it knew.
LEMMA RestartStep ==
  ASSUME CallsGood, LogGood, SpoolGood, NothingUnaccounted, Restart
  PROVE  CallsGood' /\ LogGood' /\ SpoolGood' /\ NothingUnaccounted'
<1>1. PICK half \in {{}} \cup {{c} : c \in {k \in UnderWay : calls[k].stage = "reporting"}} :
        /\ half # {} => Cardinality(spool) < SpoolLimit
        /\ spool' = spool \cup half /\ torn' = torn \cup half
  BY DEF Restart
<1>2. /\ calls' = [c \in ToolCalls |->
             IF c \in UnderWay THEN [calls[c] EXCEPT !.stage = "done", !.verdict = "broken"]
             ELSE calls[c]]
      /\ forgone' = forgone \cup UnderWay
      /\ todo' = [c \in ToolCalls |-> {}]
      /\ posting' = [c \in ToolCalls |-> NoFile]
      /\ ingested' = ingested /\ logged' = logged
  BY DEF Restart, logVars
<1>3. ASSUME NEW c \in ToolCalls
      PROVE  /\ calls'[c] \in GatewayCall /\ CallGood(calls'[c])
             /\ calls'[c].agency = calls[c].agency /\ calls'[c].result = calls[c].result
             /\ c \in UnderWay => calls'[c].stage = "done"
             /\ c \notin UnderWay => calls'[c] = calls[c]
  <2>1. calls[c] \in GatewayCall /\ CallGood(calls[c])
    BY DEF CallsGood
  <2>2. CASE c \in UnderWay
    BY <1>2, <2>1, <2>2 DEF GatewayCall, CallStage, Verdicts, CallGood
  <2>3. CASE c \notin UnderWay
    BY <1>2, <2>1, <2>3
  <2> QED BY <2>2, <2>3
<1>4. CallsGood'
  <2>1. calls' = [c \in ToolCalls |-> calls'[c]]
    BY <1>2
  <2>2. calls' \in [ToolCalls -> GatewayCall]
    BY <1>3, <2>1
  <2> QED BY <1>3, <2>2 DEF CallsGood
<1>5. LogGood'
  <2>1. \A c \in ToolCalls : Entry(c)' = Entry(c) /\ calls'[c].result = calls[c].result
    BY <1>3 DEF Entry
  <2> QED BY <1>2, <2>1 DEF LogGood
<1>6. UnderWay \subseteq ToolCalls
  BY DEF UnderWay
<1>7. half \subseteq UnderWay /\ \A c \in half : calls[c].result # "none"
  BY <1>1, <1>6 DEF CallsGood, CallGood
<1>8. Cardinality(spool') <= SpoolLimit
  <2>1. CASE half = {}
    <3>1. spool' = spool BY <1>1, <2>1
    <3> QED BY <3>1 DEF SpoolGood
  <2>2. CASE half # {}
    <3>1. PICK f : half = {f}
      BY <1>1, <2>2
    <3> QED BY <1>1, <2>2, <3>1, SpoolFits
  <2> QED BY <2>1, <2>2
<1>9. SpoolGood'
  <2>1. \A f \in spool' : calls'[f].result # "none"
    BY <1>1, <1>3, <1>6, <1>7 DEF SpoolGood
  <2>2. \A f \in torn' : calls'[f].stage = "done"
    BY <1>1, <1>3, <1>6, <1>7 DEF SpoolGood
  <2>3. spool' \subseteq ToolCalls /\ torn' \subseteq spool' /\ forgone' \subseteq ToolCalls
    BY <1>1, <1>2, <1>6, <1>7 DEF SpoolGood
  <2> QED BY <1>2, <1>8, <2>1, <2>2, <2>3 DEF SpoolGood
<1>10. NothingUnaccounted'
  <2> SUFFICES ASSUME NEW c \in ToolCalls, calls'[c].stage = "done", calls'[c].result # "none"
               PROVE  c \in ingested' \cup (spool' \ torn') \cup forgone'
    BY DEF NothingUnaccounted
  <2>1. CASE c \in UnderWay
    BY <1>2, <2>1
  <2>2. CASE c \notin UnderWay
    <3>1. c \in ingested \cup (spool \ torn) \cup forgone
      BY <1>3, <2>2 DEF NothingUnaccounted
    <3>2. c \notin half
      BY <1>7, <2>2
    <3> QED BY <1>1, <1>2, <3>1, <3>2
  <2> QED BY <2>1, <2>2
<1> QED BY <1>4, <1>5, <1>9, <1>10

-----------------------------------------------------------------------------
LEMMA GatewayStart == GatewayInit => GatewayGood
<1> SUFFICES ASSUME GatewayInit PROVE GatewayGood
  OBVIOUS
<1>1. /\ minute = 0 /\ spool = {} /\ torn = {} /\ forgone = {} /\ ingested = {}
      /\ attempts = [a \in Addresses |-> [t \in Minutes |-> 0]]
      /\ passed = [a \in Addresses |-> 0]
      /\ todo = [c \in ToolCalls |-> {}] /\ posting = [c \in ToolCalls |-> NoFile]
      /\ logged = [e \in ToolCalls |-> <<>>]
  BY DEF GatewayInit
<1>2. /\ calls \in [ToolCalls -> GatewayCall]
      /\ \A c \in ToolCalls : /\ calls[c].stage = "idle" /\ calls[c].effect = "none"
                              /\ calls[c].result = "none" /\ calls[c].verdict = "none"
  BY DEF GatewayInit, GatewayCall, CallStage, Verdicts
<1>3. EdgeGood
  <2>1. minute \in Minutes /\ MaxAttempts \in Nat
    BY <1>1, GatewayAssumption DEF Minutes
  <2>2. Cardinality(Keys(attempts)) <= MaxKeys
    BY <1>1, NoKeys
  <2> QED BY <1>1, <2>1, <2>2 DEF EdgeGood
<1>4. CallsGood
  BY <1>2 DEF CallsGood, CallGood
<1>5. LogGood
  BY <1>1 DEF LogGood
<1>6. SpoolGood
  <2>1. Cardinality(spool) <= SpoolLimit
    BY <1>1, FS_EmptySet, GatewayAssumption
  <2> QED BY <1>1, <2>1 DEF SpoolGood
<1>7. NothingUnaccounted
  BY <1>2 DEF NothingUnaccounted
<1> QED BY <1>3, <1>4, <1>5, <1>6, <1>7 DEF GatewayGood

LEMMA GatewayStep == GatewayGood /\ [GatewayNext]_gatewayVars => GatewayGood'
<1> SUFFICES ASSUME GatewayGood, [GatewayNext]_gatewayVars PROVE GatewayGood'
  OBVIOUS
<1> USE DEF GatewayGood
<1> DEFINE Rest == CallsGood /\ LogGood /\ SpoolGood /\ NothingUnaccounted
<1>1. CASE UNCHANGED gatewayVars
  <2>1. EdgeGood'
    BY <1>1 DEF gatewayVars, edgeVars, EdgeGood, Keys
  <2>2. CallsGood' /\ LogGood' /\ NothingUnaccounted'
    BY <1>1 DEF gatewayVars, fileVars, logVars, CallsGood, LogGood, Entry, NothingUnaccounted
  <2>3. SpoolGood'
    BY <1>1 DEF gatewayVars, fileVars, SpoolGood
  <2> QED BY <2>1, <2>2, <2>3
<1>2. CASE GatewayNext
  <2>1. EdgeGood'
    BY <1>2, EdgeStep
  <2>2. ASSUME NEW c \in ToolCalls, NEW a \in Addresses, Admit(c, a) \/ TurnAway(c, a)
        PROVE  Rest'
    BY <2>2, BeforeReports
  <2>3. ASSUME NEW c \in ToolCalls, Send(c) \/ Unauthorized(c) \/ Perform(c) PROVE Rest'
    BY <2>3, BeforeReports
  <2>4. ASSUME NEW c \in ToolCalls, Completed(c) \/ Refused(c) \/ GivesUp(c) PROVE Rest'
    BY <2>4, OutcomeKnown
  <2>5. ASSUME NEW c \in ToolCalls, NEW f \in ToolCalls,
               LeaveSpool(c, f) \/ Expire(c, f) \/ PassOver(c, f) \/ Post(c, f)
        PROVE  Rest'
    BY <2>5, FileStep
  <2>6. ASSUME NEW c \in ToolCalls, NEW answer \in {"accepted", "refused", "lost"},
               Posted(c, answer) \/ ReportOwn(c, answer)
        PROVE  Rest'
    BY <2>6, PostedStep, OwnReportStep
  <2>7. ASSUME NEW c \in ToolCalls, DiskFails(c) PROVE Rest'
    BY <2>7, DiskFailsStep
  <2>8. ASSUME MinutePasses PROVE Rest'
    <3>1. UNCHANGED <<calls, todo, posting, spool, torn, forgone, ingested, logged>>
      BY <2>8 DEF MinutePasses, fileVars, logVars
    <3>2. CallsGood' /\ LogGood' /\ NothingUnaccounted'
      BY <3>1 DEF CallsGood, LogGood, Entry, NothingUnaccounted
    <3> QED BY <3>1, <3>2 DEF SpoolGood
  <2>9. ASSUME Restart PROVE Rest'
    BY <2>9, RestartStep
  <2>10. Rest'
    BY <1>2, <2>2, <2>3, <2>4, <2>5, <2>6, <2>7, <2>8, <2>9 DEF GatewayNext
  <2> QED BY <2>1, <2>10
<1> QED BY <1>1, <1>2

LEMMA GatewayPromises == GatewayGood => GatewayInvariant
<1> SUFFICES ASSUME GatewayGood PROVE GatewayInvariant
  OBVIOUS
<1> USE DEF GatewayGood
<1>1. GatewayTypeOK
  BY DEF EdgeGood, CallsGood, LogGood, SpoolGood, GatewayTypeOK
<1>2. LoggedOnce
  <2> SUFFICES ASSUME NEW e \in ToolCalls
      PROVE /\ Len(logged[e]) <= 1
            /\ \A i \in 1..Len(logged[e]) : logged[e][i] = Entry(e)
            /\ calls[e].result = "completed" => calls[e].effect = "applied"
    BY DEF LoggedOnce, Entry
  <2>1. calls[e].result = "completed" => calls[e].effect = "applied"
    BY DEF CallsGood, CallGood
  <2>2. CASE logged[e] = <<>>
    BY <2>1, <2>2
  <2>3. CASE logged[e] = <<Entry(e)>>
    <3>1. Len(logged[e]) = 1 /\ logged[e][1] = Entry(e)
      BY <2>3
    <3> QED BY <2>1, <3>1
  <2> QED BY <2>2, <2>3 DEF LogGood
<1>3. ToldTruly
  BY DEF CallsGood, CallGood, ToldTruly
<1>4. GatewayBounded
  BY DEF EdgeGood, SpoolGood, GatewayBounded
<1> QED BY <1>1, <1>2, <1>3, <1>4 DEF GatewayInvariant

\* Whatever calls overlap, answers are lost, files are shared and crashes come between, an
\* outcome is logged at most once and as it was, none disappears unnoticed, an agent is told
\* the truth, and the edge and the spool stay within their limits (event, call,
\* LimitsMiddleware, ingest_event).
THEOREM GatewayKept == GatewaySpec => []GatewayInvariant
<1>1. GatewaySpec => []GatewayGood
  BY GatewayStart, GatewayStep, PTL DEF GatewaySpec
<1> QED BY <1>1, GatewayPromises, PTL

-----------------------------------------------------------------------------
(* The reputation of players: what a rebuilt row is made of.               *)

\* In a table whose times are numbers, finitely many positions have a latest one.
Timed(table, S) == \A b \in S : table[b].at \in Nat

LEMMA LatestInSet ==
  ASSUME NEW table, NEW S, IsFiniteSet(S), Timed(table, S), S # {}
  PROVE  Latest(table, S) \in S /\ \A c \in S : table[c].at <= table[Latest(table, S)].at
<1>. DEFINE Last(s) == {k \in s : \A c \in s : table[c].at <= table[k].at}
            Q == {s \in SUBSET S : s = {} \/ Last(s) # {}}
<1>1. ASSUME NEW s \in SUBSET S, s # {}, \A x \in s : s \ {x} \in Q PROVE s \in Q
  <2>1. PICK x \in s : TRUE
    BY <1>1
  <2>. DEFINE r == s \ {x}
  <2>2. r = {} \/ \E k \in r : \A c \in r : table[c].at <= table[k].at
    BY <1>1
  <2>3. CASE r = {}
    <3>1. s = {x} /\ table[x].at \in Nat
      BY <2>3 DEF Timed
    <3>. QED BY <3>1
  <2>4. CASE \E k \in r : \A c \in r : table[c].at <= table[k].at
    <3>1. PICK k \in r : \A c \in r : table[c].at <= table[k].at
      BY <2>4
    <3>2. \A c \in s : table[c].at \in Nat
      BY DEF Timed
    <3>3. CASE table[x].at <= table[k].at
      <4>1. \A c \in s : table[c].at <= table[k].at
        BY <3>1, <3>3
      <4>. QED BY <4>1
    <3>4. CASE ~ (table[x].at <= table[k].at)
      <4>1. \A c \in s : table[c].at <= table[x].at
        BY <3>1, <3>2, <3>4
      <4>. QED BY <4>1
    <3>. QED BY <3>3, <3>4
  <2>. QED BY <2>2, <2>3, <2>4
<1>2. Q = SUBSET S
  <2>. HIDE DEF Last
  <2>1. {} \in Q /\ Q \in SUBSET SUBSET S
    OBVIOUS
  <2>. HIDE DEF Q
  <2>. QED BY <1>1, <2>1, SubsetInduction
<1>3. Last(S) # {}
  BY <1>2
<1>4. Latest(table, S) \in Last(S)
  BY <1>3 DEF Latest
<1>. QED BY <1>4

\* Tables that agree on some positions have the same latest one.
Agreeing(t1, t2, S) == \A b \in S : t1[b] = t2[b]

LEMMA LatestOfAgreeing ==
  ASSUME NEW t1, NEW t2, NEW S, Agreeing(t1, t2, S)
  PROVE  Latest(t1, S) = Latest(t2, S)
<1>1. {k \in S : \A c \in S : t1[c].at <= t1[k].at} = {k \in S : \A c \in S : t2[c].at <= t2[k].at}
  BY DEF Agreeing
<1>. QED BY <1>1, Zenon DEF Latest

\* The recursion that defines a replay.
After(table, g, s) ==
  IF s = {} THEN Opening ELSE Floor(g[s \ {Latest(table, s)}] + Delta(table[Latest(table, s)]))

ReplaysUpTo(table, g, S, n) == g = [s \in UpTo(S, n) |-> After(table, g, s)]
Replays(table, g, S) == g = [s \in SUBSET S |-> After(table, g, s)]

LEMMA ReplaysExist ==
  ASSUME NEW table, NEW S, IsFiniteSet(S), Timed(table, S)
  PROVE  \E g : Replays(table, g, S)
<1> DEFINE P == {n \in Nat : \E g : ReplaysUpTo(table, g, S, n)}
<1>1. 0 \in P
  <2> DEFINE g == [s \in UpTo(S, 0) |-> Opening]
  <2>1. \A s \in UpTo(S, 0) : s = {}
    BY FS_EmptySet, FS_Subset, FS_CardinalityType DEF UpTo
  <2>2. ReplaysUpTo(table, g, S, 0)
    BY <2>1 DEF ReplaysUpTo, After
  <2> QED BY <2>2
<1>2. ASSUME NEW n \in P PROVE n + 1 \in P
  <2>1. PICK g : ReplaysUpTo(table, g, S, n)
    OBVIOUS
  <2> DEFINE h == [s \in UpTo(S, n + 1) |-> After(table, g, s)]
  <2>2. ASSUME NEW s \in UpTo(S, n + 1) PROVE After(table, g, s) = After(table, h, s)
    <3>1. CASE s = {}
      BY <3>1 DEF After
    <3>2. CASE s # {}
      <4> DEFINE t == s \ {Latest(table, s)}
      <4>1. IsFiniteSet(s) /\ Timed(table, s)
        BY FS_Subset DEF UpTo, Timed
      <4>2. Latest(table, s) \in s
        BY <3>2, <4>1, LatestInSet
      <4>3. t \in UpTo(S, n) /\ t \in UpTo(S, n + 1)
        BY <4>1, <4>2, CardinalityWithout DEF UpTo
      <4>4. g[t] = After(table, g, t)
        BY <2>1, <4>3 DEF ReplaysUpTo
      <4>5. h[t] = After(table, g, t)
        BY <4>3
      <4> QED BY <3>2, <4>4, <4>5 DEF After
    <3> QED BY <3>1, <3>2
  <2>3. ReplaysUpTo(table, h, S, n + 1)
    BY <2>2 DEF ReplaysUpTo
  <2> QED BY <2>3
<1>3. Cardinality(S) \in P
  <2> HIDE DEF P
  <2>1. P \in SUBSET Nat
    BY DEF P
  <2> QED BY <1>1, <1>2, <2>1, SetInduction, FS_CardinalityType
<1>4. UpTo(S, Cardinality(S)) = SUBSET S
  BY FS_Subset DEF UpTo
<1> QED BY <1>3, <1>4 DEF ReplaysUpTo, Replays

\* A replay depends only on the positions it goes through.
LEMMA ReplaysUnique ==
  ASSUME NEW t1, NEW t2, NEW S, IsFiniteSet(S), NEW T \in SUBSET S, Timed(t1, T), Agreeing(t1, t2, T),
         NEW g, Replays(t1, g, S), NEW h, Replays(t2, h, T)
  PROVE  g[T] = h[T]
<1> DEFINE Q == {s \in SUBSET T : g[s] = h[s]}
<1>0. \A s \in SUBSET T : g[s] = After(t1, g, s) /\ h[s] = After(t2, h, s)
  BY DEF Replays
<1>1. {} \in Q
  BY <1>0 DEF After
<1>2. ASSUME NEW s \in SUBSET T, s # {}, \A x \in s : s \ {x} \in Q PROVE s \in Q
  <2>1. IsFiniteSet(s) /\ Timed(t1, s) /\ Agreeing(t1, t2, s)
    BY FS_Subset DEF Timed, Agreeing
  <2>2. Latest(t1, s) \in s /\ Latest(t2, s) = Latest(t1, s)
    BY <1>2, <2>1, LatestInSet, LatestOfAgreeing
  <2>3. t1[Latest(t1, s)] = t2[Latest(t1, s)] /\ g[s \ {Latest(t1, s)}] = h[s \ {Latest(t1, s)}]
    BY <1>2, <2>1, <2>2 DEF Agreeing
  <2> QED BY <1>0, <1>2, <2>2, <2>3 DEF After
<1>3. Q = SUBSET T
  <2>1. IsFiniteSet(T)
    BY FS_Subset
  <2> HIDE DEF Q
  <2>2. Q \in SUBSET SUBSET T
    BY DEF Q
  <2> QED BY <1>1, <1>2, <2>1, <2>2, SubsetInduction
<1> QED BY <1>3

LEMMA ReplayIsRecursion ==
  ASSUME NEW table, NEW S
  PROVE  Replay(table, S) = (CHOOSE g : Replays(table, g, S))[S]
BY Zenon DEF Replay, Replays, After

LEMMA ReplayAgrees ==
  ASSUME NEW t1, NEW t2, NEW S, IsFiniteSet(S), Timed(t1, S), Agreeing(t1, t2, S)
  PROVE  Replay(t1, S) = Replay(t2, S)
<1> DEFINE g == CHOOSE g : Replays(t1, g, S)
           h == CHOOSE h : Replays(t2, h, S)
<1>1. Replays(t1, g, S)
  BY ReplaysExist
<1>2. Timed(t2, S)
  BY DEF Timed, Agreeing
<1>3. Replays(t2, h, S)
  BY <1>2, ReplaysExist
<1>4. g[S] = h[S]
  <2>. HIDE DEF g, h
  <2>. QED BY <1>1, <1>3, ReplaysUnique
<1> QED BY <1>4, ReplayIsRecursion

\* The latest position is added last.
LEMMA ReplayStep ==
  ASSUME NEW table, NEW S, IsFiniteSet(S), Timed(table, S), S # {}
  PROVE  Replay(table, S) =
           Floor(Replay(table, S \ {Latest(table, S)}) + Delta(table[Latest(table, S)]))
<1> DEFINE b == Latest(table, S)
           T == S \ {b}
           g == CHOOSE g : Replays(table, g, S)
           h == CHOOSE h : Replays(table, h, T)
<1>1. IsFiniteSet(T) /\ Timed(table, T) /\ Agreeing(table, table, T)
  BY FS_Subset DEF Timed, Agreeing
<1>2. Replays(table, g, S)
  BY ReplaysExist
<1>3. Replays(table, h, T)
  BY <1>1, ReplaysExist
<1>4. Replay(table, S) = g[S] /\ Replay(table, T) = h[T]
  BY ReplayIsRecursion
<1>5. g[T] = h[T]
  <2>. HIDE DEF g, h, b
  <2>. QED BY <1>1, <1>2, <1>3, ReplaysUnique
<1>6. g[S] = After(table, g, S)
  <2>. HIDE DEF g
  <2>. QED BY <1>2 DEF Replays
<1>. HIDE DEF g, h
<1> QED BY <1>4, <1>5, <1>6 DEF After

LEMMA ReplayNothing == \A table : Replay(table, {}) = Opening
<1>. SUFFICES ASSUME NEW table PROVE Replay(table, {}) = Opening
  OBVIOUS
<1>. DEFINE g == CHOOSE g : Replays(table, g, {})
<1>1. Replays(table, g, {})
  BY ReplaysExist, FS_EmptySet DEF Timed
<1>2. g[{}] = Opening
  <2>. HIDE DEF g
  <2>. QED BY <1>1 DEF Replays, After
<1>. QED BY <1>2, ReplayIsRecursion

LEMMA DeltaType == ASSUME NEW table \in [Bets -> Bet], NEW b \in Bets PROVE Delta(table[b]) \in Int
<1>1. table[b].odds \in Int
  <2>1. table[b] \in Bet
    OBVIOUS
  <2>2. table[b].odds \in Odds
    BY <2>1 DEF Bet
  <2>3. Odds \subseteq Int
    <3>1. Odds \subseteq 0..100
      BY ReputationAssumption
    <3>. QED BY <3>1
  <2>. QED BY <2>2, <2>3
<1>. QED BY <1>1 DEF Delta, HalfUp

LEMMA ReplayType ==
  ASSUME NEW table \in [Bets -> Bet], NEW S \in SUBSET Bets, IsFiniteSet(S)
  PROVE  Timed(table, S) /\ Replay(table, S) \in Nat
<1>. DEFINE Q == {s \in SUBSET S : Replay(table, s) \in Nat}
<1>0. \A s \in SUBSET S : Timed(table, s)
  BY DEF Timed, Bet, Rounds
<1>1. {} \in Q
  BY ReplayNothing, ReputationAssumption
<1>2. ASSUME NEW s \in SUBSET S, s # {}, \A x \in s : s \ {x} \in Q PROVE s \in Q
  <2>. DEFINE b == Latest(table, s)
  <2>1. IsFiniteSet(s)
    BY FS_Subset
  <2>2. b \in s
    BY <1>0, <1>2, <2>1, LatestInSet
  <2>3. Replay(table, s) = Floor(Replay(table, s \ {b}) + Delta(table[b]))
    BY <1>0, <1>2, <2>1, ReplayStep
  <2>4. Replay(table, s \ {b}) \in Nat /\ Delta(table[b]) \in Int
    BY <1>2, <2>2, DeltaType
  <2>. HIDE DEF b
  <2>. QED BY <2>3, <2>4 DEF Floor
<1>3. Q = SUBSET S
  <2>1. Q \in SUBSET SUBSET S
    OBVIOUS
  <2>. HIDE DEF Q
  <2>. QED BY <1>1, <1>2, <2>1, SubsetInduction
<1>. QED BY <1>0, <1>3

LEMMA FinitePositions ==
  ASSUME NEW u \in Players
  PROVE  BetsOf(u) \in SUBSET Bets /\ IsFiniteSet(BetsOf(u))
<1>1. IsFiniteSet({u})
  BY FS_Singleton
<1>2. IsFiniteSet({u} \X Contests)
  BY <1>1, FS_Product, ReputationAssumption
<1>. QED BY <1>2 DEF BetsOf, Bets

\* Tables that agree on a player's positions give the same row, which is a row.
LEMMA RebuiltAgrees ==
  ASSUME NEW u \in Players, NEW t1 \in [Bets -> Bet], NEW t2, Agreeing(t1, t2, BetsOf(u))
  PROVE  /\ Rebuilt(t1, u) = Rebuilt(t2, u)
         /\ Resolved(t1, BetsOf(u)) = Resolved(t2, BetsOf(u))
         /\ Won(t1, BetsOf(u)) = Won(t2, BetsOf(u))
<1>. DEFINE S == Resolved(t1, BetsOf(u))
<1>1. S = Resolved(t2, BetsOf(u)) /\ Won(t1, BetsOf(u)) = Won(t2, BetsOf(u))
  BY DEF Resolved, Won, Agreeing
<1>2. S \in SUBSET BetsOf(u) /\ S \in SUBSET Bets /\ IsFiniteSet(S) /\ Agreeing(t1, t2, S)
  BY FinitePositions, FS_Subset DEF Resolved, Agreeing
<1>3. Replay(t1, S) = Replay(t2, S)
  BY <1>2, ReplayType, ReplayAgrees
<1>4. Won(t1, S) = Won(t2, S) /\ InARow(t1, S) = InARow(t2, S)
  <2>. HIDE DEF S
  <2>1. {b \in S : \A c \in S : t1[c].at >= t1[b].at => t1[c].status = "won"}
          = {b \in S : \A c \in S : t2[c].at >= t2[b].at => t2[c].status = "won"}
    BY <1>2 DEF Agreeing
  <2>2. Won(t1, S) = Won(t2, S)
    BY <1>2 DEF Agreeing, Won
  <2>. QED BY <2>1, <2>2 DEF InARow
<1>5. Rebuilt(t1, u) = [score |-> Replay(t1, S), count |-> Cardinality(S),
                        wins |-> Cardinality(Won(t1, S)), streak |-> InARow(t1, S), tidy |-> TRUE]
  BY DEF Rebuilt
<1>6. Rebuilt(t2, u) = [score |-> Replay(t2, S), count |-> Cardinality(S),
                        wins |-> Cardinality(Won(t2, S)), streak |-> InARow(t2, S), tidy |-> TRUE]
  BY <1>1 DEF Rebuilt
<1>. QED BY <1>1, <1>3, <1>4, <1>5, <1>6

\* A row counts a player's results, and if tidy is what rebuilding it gives.
RowFits(r, table, u) ==
  /\ r.count = Cardinality(Resolved(table, BetsOf(u)))
  /\ r.wins = Cardinality(Won(table, BetsOf(u)))
  /\ r.tidy => r = Rebuilt(table, u)


LEMMA FitsAgrees ==
  ASSUME NEW u \in Players, NEW t1 \in [Bets -> Bet], NEW t2, Agreeing(t1, t2, BetsOf(u)),
         NEW r, RowFits(r, t1, u)
  PROVE  RowFits(r, t2, u)
BY RebuiltAgrees DEF RowFits

\* A rebuilt row fits and is a row.
LEMMA RebuiltFits ==
  ASSUME NEW u \in Players, NEW table \in [Bets -> Bet]
  PROVE  RowFits(Rebuilt(table, u), table, u) /\ Rebuilt(table, u) \in Row
<1>. DEFINE S == Resolved(table, BetsOf(u))
            run == {b \in S : \A c \in S : table[c].at >= table[b].at => table[c].status = "won"}
<1>1. S \in SUBSET Bets /\ IsFiniteSet(S)
  BY FinitePositions, FS_Subset DEF Resolved
<1>2. Won(table, S) = Won(table, BetsOf(u)) /\ Won(table, S) \in SUBSET S /\ run \in SUBSET S
  BY DEF Won, Resolved
<1>3. Cardinality(S) \in Nat /\ Cardinality(Won(table, S)) \in Nat /\ Cardinality(run) \in Nat
  <2>. HIDE DEF S, run
  <2>. QED BY <1>1, <1>2, FS_Subset, FS_CardinalityType
<1>4. Replay(table, S) \in Nat
  BY <1>1, ReplayType
<1>5. InARow(table, S) = Cardinality(run)
  BY DEF InARow
<1>6. Rebuilt(table, u) = [score |-> Replay(table, S), count |-> Cardinality(S),
                           wins |-> Cardinality(Won(table, S)), streak |-> Cardinality(run), tidy |-> TRUE]
  BY <1>5 DEF Rebuilt
<1>7. Rebuilt(table, u) \in Row
  <2>. HIDE DEF S, run
  <2>. QED BY <1>3, <1>4, <1>6 DEF Row
<1>8. RowFits(Rebuilt(table, u), table, u)
  <2>1. Rebuilt(table, u).count = Cardinality(S) /\ Rebuilt(table, u).wins = Cardinality(Won(table, S))
    BY <1>6
  <2>. QED BY <1>2, <2>1 DEF RowFits
<1>. QED BY <1>7, <1>8

\* Adding a result that came after all the others is rebuilding the row; adding any other keeps the
\* counts right.
LEMMA AddedFits ==
  ASSUME NEW u \in Players, NEW before \in [Bets -> Bet], NEW table \in [Bets -> Bet],
         NEW b \in BetsOf(u), before[b].status \notin {"won", "lost"}, table[b].status \in {"won", "lost"},
         Agreeing(before, table, BetsOf(u) \ {b}), NEW r \in Row, RowFits(r, before, u)
  PROVE  RowFits(Added(r, table, u, b), table, u) /\ Added(r, table, u, b) \in Row
<1>. DEFINE S == Resolved(table, BetsOf(u))
            O == Resolved(before, BetsOf(u))
            a == Added(r, table, u, b)
            last == \A c \in S \ {b} : table[c].at < table[b].at
<1>1. /\ S \in SUBSET Bets /\ IsFiniteSet(S) /\ O \in SUBSET Bets /\ IsFiniteSet(O)
      /\ b \in S /\ O = S \ {b} /\ b \in Bets
  BY FinitePositions, FS_Subset DEF Resolved, Agreeing
<1>2. Agreeing(before, table, O)
  BY <1>1 DEF Resolved, Agreeing
<1>3. a = [score |-> Floor(r.score + Delta(table[b])), count |-> Cardinality(S),
           wins |-> Cardinality(Won(table, S)),
           streak |-> IF table[b].status = "won" THEN r.streak + 1 ELSE 0, tidy |-> r.tidy /\ last]
  BY DEF Added
<1>4. Won(table, S) = Won(table, BetsOf(u)) /\ Won(table, S) \in SUBSET S
  BY DEF Won, Resolved
<1>5. Cardinality(S) \in Nat /\ Cardinality(Won(table, S)) \in Nat
  <2>. HIDE DEF S
  <2>. QED BY <1>1, <1>4, FS_Subset, FS_CardinalityType
<1>6. Delta(table[b]) \in Int
  BY <1>1, DeltaType
<1>7. a \in Row
  <2>. HIDE DEF S, last
  <2>1. Floor(r.score + Delta(table[b])) \in Nat
    BY <1>6 DEF Row, Floor
  <2>2. (IF table[b].status = "won" THEN r.streak + 1 ELSE 0) \in Nat
    BY DEF Row
  <2>3. (r.tidy /\ last) \in BOOLEAN
    OBVIOUS
  <2>. HIDE DEF a
  <2>. QED BY <1>3, <1>5, <2>1, <2>2, <2>3 DEF Row
<1>8. a.count = Cardinality(S) /\ a.wins = Cardinality(Won(table, S)) /\ a.tidy = (r.tidy /\ last)
  BY <1>3
<1>9. ASSUME r.tidy, last PROVE a = Rebuilt(table, u)
  <2>1. r = Rebuilt(before, u)
    BY <1>9 DEF RowFits
  <2>2. r.score = Replay(before, O) /\ r.streak = InARow(before, O)
    BY <2>1 DEF Rebuilt
  <2>3. Timed(before, O) /\ Timed(table, S)
    BY <1>1, ReplayType
  <2>. HIDE DEF S, O, a
  <2>4. Replay(before, O) = Replay(table, O)
    BY <1>1, <1>2, <2>3, ReplayAgrees
  <2>5. Latest(table, S) = b
    <3>1. Latest(table, S) \in S /\ \A c \in S : table[c].at <= table[Latest(table, S)].at
      BY <1>1, <2>3, LatestInSet
    <3>. QED BY <1>1, <1>9, <2>3, <3>1 DEF Timed
  <2>6. Replay(table, S) = Floor(r.score + Delta(table[b]))
    <3>1. Replay(table, S) = Floor(Replay(table, S \ {b}) + Delta(table[b]))
      BY <1>1, <2>3, <2>5, ReplayStep
    <3>. QED BY <1>1, <2>2, <2>4, <3>1
  <2>. DEFINE run == {x \in S : \A c \in S : table[c].at >= table[x].at => table[c].status = "won"}
              was == {x \in O : \A c \in O : before[c].at >= before[x].at => before[c].status = "won"}
  <2>7. InARow(table, S) = Cardinality(run) /\ r.streak = Cardinality(was)
    BY <2>2 DEF InARow
  <2>8. was \in SUBSET O /\ IsFiniteSet(was) /\ b \notin was
    BY <1>1, FS_Subset
  <2>9. CASE table[b].status = "won"
    <3>1. run = was \cup {b}
      <4>1. \A c \in O : before[c] = table[c] /\ table[c].at < table[b].at /\ table[c].at \in Nat
        BY <1>1, <1>2, <1>9, <2>3 DEF Agreeing, Timed
      <4>2. table[b].at \in Nat /\ S = O \cup {b}
        BY <1>1, <2>3 DEF Timed
      <4>3. ASSUME NEW x \in O PROVE x \in run <=> x \in was
        BY <2>9, <4>1, <4>2
      <4>4. b \in run
        BY <2>9, <4>1, <4>2
      <4>. QED BY <4>2, <4>3, <4>4, <2>8
    <3>2. Cardinality(run) = Cardinality(was) + 1
      <4>. HIDE DEF run, was
      <4>. QED BY <2>8, <3>1, FS_AddElement
    <3>3. InARow(table, S) = IF table[b].status = "won" THEN r.streak + 1 ELSE 0
      BY <2>7, <2>9, <3>2
    <3>. QED BY <1>3, <1>9, <2>6, <3>3 DEF Rebuilt, S, a
  <2>10. CASE table[b].status # "won"
    <3>1. \A x \in S : table[b].at >= table[x].at
      BY <1>1, <1>9, <2>3 DEF Timed
    <3>2. run = {}
      BY <1>1, <2>10, <3>1
    <3>3. InARow(table, S) = IF table[b].status = "won" THEN r.streak + 1 ELSE 0
      BY <2>7, <2>10, <3>2, FS_EmptySet
    <3>. QED BY <1>3, <1>9, <2>6, <3>3 DEF Rebuilt, S, a
  <2>. QED BY <2>9, <2>10
<1>. HIDE DEF a, S, O, last
<1>10. RowFits(a, table, u)
  BY <1>4, <1>8, <1>9 DEF RowFits, S
<1>. QED BY <1>7, <1>10 DEF a

-----------------------------------------------------------------------------
(* The reputation of players: transactions that overlap.                   *)

StandingsFit == \A u \in Players : RowFits(standing[u], bet, u)

\* No two transactions hold the same lock, and one that is open holds its contest.
LocksExclusive == \A v, w \in Engines : v # w => held[v] \cap held[w] = {}

LocksOfTransactions ==
  \A w \in Engines :
    /\ tx[w] = NoTx => held[w] = {}
    /\ tx[w] # NoTx => \A c \in Contests : <<"contest", c>> \in held[w] <=> c = tx[w].contest

\* Where no transaction works the positions are the committed ones.
WorkIsCommitted ==
  \A b \in Bets :
    (\A w \in Engines : <<"contest", b[2]>> \notin held[w]) => workBet[b] = bet[b]

Position(w, u) == <<u, tx[w].contest>>
HasLock(w, kind, u) == <<kind, u>> \in held[w]

\* A position of its contest that the transaction has not come to...
Unchanged(w, u) ==
  LET b == Position(w, u) IN
  /\ workBet[b] = bet[b] /\ u \notin tx[w].affected
  /\ ~ HasLock(w, "row", u) /\ tx[w].seen[u] = NoRow
  /\ b \in tx[w].left => bet[b].status \in (IF tx[w].op = "resolve" THEN {"open"} ELSE {"won", "lost"})

\* ... or settled, with the row of its player ...
Settled(w, u) ==
  LET b == Position(w, u) IN
  /\ tx[w].op = "resolve" /\ b \notin tx[w].left /\ u \notin tx[w].affected
  /\ HasLock(w, "wallet", u) /\ HasLock(w, "row", u)
  /\ RowFits(workStanding[u], View(w), u)

\* ... or recalled, the row of its player to be rebuilt or already written.
Recalled(w, u) ==
  LET b == Position(w, u) IN
  /\ tx[w].op = "undo" /\ b \notin tx[w].left
  /\ HasLock(w, "wallet", u)
  /\ HasLock(w, "row", u) <=> u \notin tx[w].affected
  /\ u \in tx[w].affected /\ tx[w].seen[u] # NoRow => tx[w].seen[u] = Rebuilt(View(w), u)
  /\ u \notin tx[w].affected => RowFits(workStanding[u], View(w), u)

PositionGood(w, u) == Unchanged(w, u) \/ Settled(w, u) \/ Recalled(w, u)

PositionsGood == \A w \in Engines : tx[w] # NoTx => \A u \in Players : PositionGood(w, u)

LeftInContest == \A w \in Engines : tx[w] # NoTx => \A b \in tx[w].left : b[2] = tx[w].contest

ReputationInv ==
  /\ ReputationTypeOK /\ StandingsFit /\ LocksExclusive /\ LocksOfTransactions
  /\ WorkIsCommitted /\ PositionsGood /\ LeftInContest

LEMMA OpenFields ==
  ASSUME ReputationTypeOK, NEW w \in Engines, tx[w] # NoTx
  PROVE  /\ tx[w] \in OpenTx /\ tx[w].op \in {"resolve", "undo"} /\ tx[w].contest \in Contests
         /\ tx[w].left \in SUBSET Bets /\ tx[w].affected \in SUBSET Players
         /\ tx[w].seen \in [Players -> Row \cup {NoRow}] /\ tx[w].now \in Rounds
         /\ tx[w] = [op |-> tx[w].op, contest |-> tx[w].contest, now |-> tx[w].now, left |-> tx[w].left,
                     affected |-> tx[w].affected, seen |-> tx[w].seen]
<1>1. tx[w] \in OpenTx
  BY DEF ReputationTypeOK
<1>. QED BY <1>1 DEF OpenTx

LEMMA ViewType ==
  ASSUME ReputationTypeOK, NEW w
  PROVE  View(w) \in [Bets -> Bet]
BY DEF ReputationTypeOK, View

\* A position stays as good as it was through a step that touches neither it, nor its locks, nor,
\* once its player's wallet is held, any position of the player.
LEMMA PositionFrame ==
  ASSUME ReputationTypeOK, NEW v \in Engines, NEW u \in Players, PositionGood(v, u),
         tx[v] # NoTx, tx'[v] # NoTx, tx'[v].op = tx[v].op, tx'[v].contest = tx[v].contest,
         tx'[v].seen[u] = tx[v].seen[u],
         Position(v, u) \in tx'[v].left <=> Position(v, u) \in tx[v].left,
         u \in tx'[v].affected <=> u \in tx[v].affected,
         <<"wallet", u>> \in held'[v] <=> <<"wallet", u>> \in held[v],
         <<"row", u>> \in held'[v] <=> <<"row", u>> \in held[v],
         workBet'[Position(v, u)] = workBet[Position(v, u)], bet'[Position(v, u)] = bet[Position(v, u)],
         <<"wallet", u>> \in held[v] => \A c \in Contests : bet'[<<u, c>>] = bet[<<u, c>>],
         <<"row", u>> \in held[v] => workStanding'[u] = workStanding[u]
  PROVE  PositionGood(v, u)'
<1>1. Position(v, u)' = Position(v, u)
  BY DEF Position
<1>2. CASE Unchanged(v, u)
  <2>1. Unchanged(v, u)'
    BY <1>1, <1>2 DEF Unchanged, HasLock
  <2>. QED BY <2>1 DEF PositionGood
<1>3. ASSUME <<"wallet", u>> \in held[v]
      PROVE  Agreeing(View(v), View(v)', BetsOf(u))
  <2>1. ASSUME NEW c \in Contests PROVE View(v)[<<u, c>>] = View(v)'[<<u, c>>]
    <3>1. <<u, c>> \in Bets
      BY DEF Bets
    <3>2. c = tx[v].contest => <<u, c>> = Position(v, u)
      BY DEF Position
    <3>3. View(v)[<<u, c>>] = IF c = tx[v].contest THEN workBet[<<u, c>>] ELSE bet[<<u, c>>]
      BY <3>1 DEF View
    <3>4. View(v)'[<<u, c>>] = IF c = tx[v].contest THEN workBet'[<<u, c>>] ELSE bet'[<<u, c>>]
      BY <3>1 DEF View
    <3>. QED BY <1>3, <3>2, <3>3, <3>4
  <2>. QED BY <2>1 DEF Agreeing, BetsOf
<1>4. CASE Settled(v, u)
  <2>1. RowFits(workStanding'[u], View(v)', u)
    BY <1>3, <1>4, ViewType, FitsAgrees DEF Settled, HasLock
  <2>2. Settled(v, u)'
    BY <1>1, <1>4, <2>1 DEF Settled, HasLock
  <2>. QED BY <2>2 DEF PositionGood
<1>5. CASE Recalled(v, u)
  <2>1. Agreeing(View(v), View(v)', BetsOf(u)) /\ View(v) \in [Bets -> Bet]
    BY <1>3, <1>5, ViewType DEF Recalled, HasLock
  <2>2. Rebuilt(View(v)', u) = Rebuilt(View(v), u)
    BY <2>1, RebuiltAgrees
  <2>3. u \notin tx[v].affected => RowFits(workStanding'[u], View(v)', u)
    BY <1>5, <2>1, FitsAgrees DEF Recalled, HasLock
  <2>4. u \in tx[v].affected /\ tx[v].seen[u] # NoRow => tx[v].seen[u] = Rebuilt(View(v)', u)
    BY <1>5, <2>2 DEF Recalled
  <2>5. Recalled(v, u)'
    BY <1>1, <1>5, <2>3, <2>4 DEF Recalled, HasLock
  <2>. QED BY <2>5 DEF PositionGood
<1>. QED BY <1>2, <1>4, <1>5 DEF PositionGood

\* Contests keep transactions apart.
LEMMA ContestsApart ==
  ASSUME ReputationInv, NEW v \in Engines, NEW w \in Engines, v # w, tx[v] # NoTx, tx[w] # NoTx
  PROVE  tx[v].contest # tx[w].contest
<1>1. tx[v].contest \in Contests /\ tx[w].contest \in Contests
  BY OpenFields DEF ReputationInv
<1>2. <<"contest", tx[v].contest>> \in held[v] /\ <<"contest", tx[w].contest>> \in held[w]
  BY <1>1 DEF ReputationInv, LocksOfTransactions
<1>3. held[v] \cap held[w] = {}
  BY DEF ReputationInv, LocksExclusive
<1>. QED BY <1>2, <1>3

\* What one transaction does before it commits is nothing to the others.
LEMMA OthersFrame ==
  ASSUME ReputationInv, NEW w \in Engines, bet' = bet,
         \A v \in Engines \ {w} : tx'[v] = tx[v] /\ held'[v] = held[v],
         \A b \in Bets : tx[w] = NoTx \/ b[2] # tx[w].contest => workBet'[b] = workBet[b],
         \A v \in Engines \ {w}, u \in Players :
            <<"row", u>> \in held[v] => workStanding'[u] = workStanding[u]
  PROVE  \A v \in Engines \ {w} : tx'[v] # NoTx => \A u \in Players : PositionGood(v, u)'
<1>. SUFFICES ASSUME NEW v \in Engines \ {w}, tx'[v] # NoTx, NEW u \in Players PROVE PositionGood(v, u)'
  OBVIOUS
<1>1. tx'[v] = tx[v] /\ held'[v] = held[v] /\ tx[v] # NoTx
  OBVIOUS
<1>2. tx[v].contest \in Contests /\ ReputationTypeOK
  BY <1>1, OpenFields DEF ReputationInv
<1>3. Position(v, u) \in Bets /\ Position(v, u)[2] = tx[v].contest
  BY <1>2 DEF Position, Bets
<1>4. tx[w] = NoTx \/ tx[v].contest # tx[w].contest
  BY <1>1, ContestsApart
<1>5. workBet'[Position(v, u)] = workBet[Position(v, u)]
  BY <1>3, <1>4
<1>6. PositionGood(v, u)
  BY <1>1 DEF ReputationInv, PositionsGood
<1>7. <<"row", u>> \in held[v] => workStanding'[u] = workStanding[u]
  OBVIOUS
<1>. QED BY <1>1, <1>2, <1>5, <1>6, <1>7, PositionFrame

\* Taking locks that are free.
LEMMA LocksGrow ==
  ASSUME ReputationInv, NEW w \in Engines, tx[w] # NoTx, tx'[w] # NoTx,
         tx'[w].contest = tx[w].contest, \A v \in Engines \ {w} : tx'[v] = tx[v],
         NEW L \in SUBSET ({"wallet", "row"} \X Players), \A l \in L : Free(w, l),
         held' = [held EXCEPT ![w] = @ \cup L]
  PROVE  /\ LocksExclusive' /\ LocksOfTransactions' /\ held' \in [Engines -> SUBSET Locks]
         /\ held'[w] = held[w] \cup L /\ \A v \in Engines \ {w} : held'[v] = held[v]
<1>1. held \in [Engines -> SUBSET Locks]
  BY DEF ReputationInv, ReputationTypeOK
<1>2. held'[w] = held[w] \cup L /\ \A v \in Engines \ {w} : held'[v] = held[v]
  BY <1>1
<1>3. L \subseteq Locks
  BY DEF Locks
<1>4. held' \in [Engines -> SUBSET Locks]
  BY <1>1, <1>3
<1>5. \A v \in Engines \ {w} : held[v] \cap L = {}
  BY DEF Free
<1>6. LocksExclusive'
  BY <1>2, <1>5 DEF ReputationInv, LocksExclusive
<1>7. \A c \in Contests : <<"contest", c>> \notin L
  OBVIOUS
<1>8. LocksOfTransactions'
  BY <1>2, <1>7 DEF ReputationInv, LocksOfTransactions
<1>. QED BY <1>2, <1>4, <1>6, <1>8

LEMMA StartKeeps ==
  ASSUME ReputationInv, NEW w \in Engines, NEW c \in Contests, NEW op \in {"resolve", "undo"}, Start(w, c, op)
  PROVE  ReputationInv'
<1>. DEFINE S == {b \in Bets : b[2] = c /\ bet[b].status \in
                    (IF op = "resolve" THEN {"open"} ELSE {"won", "lost"})}
            t == [op |-> op, contest |-> c, now |-> clock + 1, left |-> S,
                  affected |-> {}, seen |-> [u \in Players |-> NoRow]]
            lock == <<"contest", c>>
<1>1. /\ tx[w] = NoTx /\ clock < LastRound /\ clock' = clock + 1
      /\ held' = [held EXCEPT ![w] = {lock}] /\ tx' = [tx EXCEPT ![w] = t]
      /\ bet' = bet /\ standing' = standing /\ workBet' = workBet /\ workStanding' = workStanding
      /\ \A v \in Engines \ {w} : lock \notin held[v]
  BY DEF Start, tableVars, Free
<1>2. /\ t.op = op /\ t.contest = c /\ t.now = clock + 1 /\ t.left = S /\ t.affected = {}
      /\ t.seen = [u \in Players |-> NoRow] /\ t # NoTx
  BY DEF NoTx
<1>3. ReputationTypeOK
  BY DEF ReputationInv
<1>4. clock' \in Rounds
  BY <1>1, <1>3, ReputationAssumption DEF ReputationTypeOK, Rounds
<1>5. t \in OpenTx
  BY <1>1, <1>4 DEF OpenTx
<1>. HIDE DEF t
<1>6. /\ tx'[w] = t /\ held'[w] = {lock}
      /\ \A v \in Engines \ {w} : tx'[v] = tx[v] /\ held'[v] = held[v]
  BY <1>1, <1>3 DEF ReputationTypeOK
<1>7. ReputationTypeOK'
  <2>1. tx' \in [Engines -> OpenTx \cup {NoTx}]
    BY <1>1, <1>3, <1>5 DEF ReputationTypeOK
  <2>2. lock \in Locks
    BY DEF Locks
  <2>3. held' \in [Engines -> SUBSET Locks]
    BY <1>1, <1>3, <2>2 DEF ReputationTypeOK
  <2>. QED BY <1>1, <1>3, <1>4, <2>1, <2>3 DEF ReputationTypeOK
<1>8. StandingsFit'
  BY <1>1 DEF ReputationInv, StandingsFit
<1>9. LocksExclusive'
  BY <1>1, <1>6 DEF ReputationInv, LocksExclusive
<1>10. LocksOfTransactions'
  BY <1>2, <1>6 DEF ReputationInv, LocksOfTransactions
<1>11. held[w] = {}
  BY <1>1 DEF ReputationInv, LocksOfTransactions
<1>12. WorkIsCommitted'
  BY <1>1, <1>6, <1>11 DEF ReputationInv, WorkIsCommitted
<1>13. PositionsGood'
  <2>1. \A v \in Engines \ {w} : tx'[v] # NoTx => \A u \in Players : PositionGood(v, u)'
    BY <1>1, <1>6, OthersFrame
  <2>2. ASSUME NEW u \in Players PROVE PositionGood(w, u)'
    <3>1. Position(w, u)' = <<u, c>> /\ <<u, c>> \in Bets
      BY <1>2, <1>6 DEF Position, Bets
    <3>2. workBet[<<u, c>>] = bet[<<u, c>>]
      <4>1. \A v \in Engines : lock \notin held[v]
        BY <1>1, <1>11
      <4>2. <<u, c>>[2] = c
        OBVIOUS
      <4>. QED BY <3>1, <4>1, <4>2 DEF ReputationInv, WorkIsCommitted
    <3>3. Unchanged(w, u)'
      BY <1>1, <1>2, <1>6, <3>1, <3>2 DEF Unchanged, HasLock
    <3>. QED BY <3>3 DEF PositionGood
  <2>. QED BY <2>1, <2>2 DEF PositionsGood
<1>14. LeftInContest'
  BY <1>2, <1>6 DEF ReputationInv, LeftInContest
<1>. QED BY <1>7, <1>8, <1>9, <1>10, <1>12, <1>13, <1>14 DEF ReputationInv

\* A step that a transaction takes for one player, with locks that are free, leaves everything else
\* as good as it was.
LEMMA PlayerStep ==
  ASSUME ReputationInv, NEW w \in Engines, tx[w] # NoTx, NEW u \in Players, NEW t \in OpenTx,
         t.op = tx[w].op, t.contest = tx[w].contest, tx' = [tx EXCEPT ![w] = t],
         NEW L \in SUBSET {<<"wallet", u>>, <<"row", u>>}, \A l \in L : Free(w, l),
         held' = [held EXCEPT ![w] = @ \cup L],
         t.left \subseteq tx[w].left, tx[w].left \ t.left \subseteq {Position(w, u)},
         \A p \in Players \ {u} : (p \in t.affected <=> p \in tx[w].affected) /\ t.seen[p] = tx[w].seen[p],
         workBet' \in [Bets -> Bet], \A b \in Bets \ {Position(w, u)} : workBet'[b] = workBet[b],
         workStanding' \in [Players -> Row],
         \A p \in Players \ {u} : workStanding'[p] = workStanding[p],
         <<"row", u>> \in L \/ workStanding'[u] = workStanding[u],
         clock' = clock, bet' = bet, standing' = standing,
         PositionGood(w, u)'
  PROVE  ReputationInv'
<1>1. ReputationTypeOK /\ tx'[w] = t /\ t # NoTx /\ \A v \in Engines \ {w} : tx'[v] = tx[v]
  <2>1. ReputationTypeOK
    BY DEF ReputationInv
  <2>2. t # NoTx
    BY DEF OpenTx, NoTx
  <2>. QED BY <2>1, <2>2 DEF ReputationTypeOK
<1>2. /\ tx[w].contest \in Contests /\ tx[w].left \in SUBSET Bets
  BY <1>1, OpenFields
<1>3. L \in SUBSET ({"wallet", "row"} \X Players)
  OBVIOUS
<1>4. /\ LocksExclusive' /\ LocksOfTransactions' /\ held' \in [Engines -> SUBSET Locks]
      /\ held'[w] = held[w] \cup L /\ \A v \in Engines \ {w} : held'[v] = held[v]
  BY <1>1, <1>3, LocksGrow
<1>5. ReputationTypeOK'
  <2>1. tx' \in [Engines -> OpenTx \cup {NoTx}]
    BY <1>1 DEF ReputationTypeOK
  <2>. QED BY <1>1, <1>4, <2>1 DEF ReputationTypeOK
<1>6. StandingsFit'
  BY DEF ReputationInv, StandingsFit
<1>7. \A p \in Players : Position(w, p) \in Bets /\ Position(w, p)[2] = tx[w].contest
  BY <1>2 DEF Position, Bets
<1>8. WorkIsCommitted'
  <2>. SUFFICES ASSUME NEW b \in Bets, \A v \in Engines : <<"contest", b[2]>> \notin held'[v]
                PROVE  workBet'[b] = bet'[b]
    BY DEF WorkIsCommitted
  <2>1. \A v \in Engines : <<"contest", b[2]>> \notin held[v]
    BY <1>4
  <2>2. <<"contest", tx[w].contest>> \in held[w]
    BY <1>2 DEF ReputationInv, LocksOfTransactions
  <2>3. b # Position(w, u)
    BY <1>7, <2>1, <2>2
  <2>. QED BY <2>1, <2>3 DEF ReputationInv, WorkIsCommitted
<1>9. PositionsGood'
  <2>1. \A v \in Engines \ {w}, p \in Players : <<"row", p>> \in held[v] => workStanding'[p] = workStanding[p]
    BY DEF Free
  <2>2. \A b \in Bets : b[2] # tx[w].contest => workBet'[b] = workBet[b]
    BY <1>7
  <2>3. \A v \in Engines \ {w} : tx'[v] # NoTx => \A p \in Players : PositionGood(v, p)'
    BY <1>1, <1>4, <2>1, <2>2, OthersFrame
  <2>4. ASSUME NEW p \in Players \ {u} PROVE PositionGood(w, p)'
    <3>1. PositionGood(w, p)
      BY DEF ReputationInv, PositionsGood
    <3>2. /\ <<"wallet", p>> \in held'[w] <=> <<"wallet", p>> \in held[w]
          /\ <<"row", p>> \in held'[w] <=> <<"row", p>> \in held[w]
      BY <1>4
    <3>3. Position(w, p) # Position(w, u) /\ Position(w, p) \in Bets
      BY <1>7 DEF Position
    <3>4. Position(w, p) \in tx'[w].left <=> Position(w, p) \in tx[w].left
      BY <1>1, <3>3
    <3>5. /\ tx'[w].op = tx[w].op /\ tx'[w].contest = tx[w].contest /\ tx'[w].seen[p] = tx[w].seen[p]
          /\ p \in tx'[w].affected <=> p \in tx[w].affected
      BY <1>1
    <3>6. workBet'[Position(w, p)] = workBet[Position(w, p)] /\ workStanding'[p] = workStanding[p]
      BY <3>3
    <3>. QED BY <1>1, <3>1, <3>2, <3>4, <3>5, <3>6, PositionFrame
  <2>. QED BY <2>3, <2>4 DEF PositionsGood
<1>10. LeftInContest'
  BY <1>1 DEF ReputationInv, LeftInContest
<1>. QED BY <1>4, <1>5, <1>6, <1>8, <1>9, <1>10 DEF ReputationInv

\* What a transaction sees once it has written a position of its contest.
LEMMA ViewWritten ==
  ASSUME ReputationInv, NEW w \in Engines, tx[w] # NoTx, tx'[w] # NoTx, tx'[w].contest = tx[w].contest,
         NEW b \in Bets, b[2] = tx[w].contest, NEW x, workBet' = [workBet EXCEPT ![b] = x], bet' = bet
  PROVE  View(w)' = [View(w) EXCEPT ![b] = x]
<1>1. workBet \in [Bets -> Bet]
  BY DEF ReputationInv, ReputationTypeOK
<1>2. View(w)' = [k \in Bets |-> IF k[2] = tx[w].contest THEN workBet'[k] ELSE bet[k]]
  BY DEF View
<1>3. View(w) = [k \in Bets |-> IF k[2] = tx[w].contest THEN workBet[k] ELSE bet[k]]
  BY DEF View
<1>. QED BY <1>1, <1>2, <1>3

\* A position that is left to do is in the contest, and nothing was done to it.
LEMMA LeftPosition ==
  ASSUME ReputationInv, NEW w \in Engines, tx[w] # NoTx, NEW b \in tx[w].left
  PROVE  /\ b \in Bets /\ b[1] \in Players /\ b[2] = tx[w].contest /\ Position(w, b[1]) = b
         /\ Unchanged(w, b[1])
<1>1. b \in Bets /\ b[2] = tx[w].contest
  BY OpenFields DEF ReputationInv, LeftInContest
<1>2. b[1] \in Players /\ Position(w, b[1]) = b
  BY <1>1 DEF Bets, Position
<1>3. PositionGood(w, b[1])
  BY <1>2 DEF ReputationInv, PositionsGood
<1>. QED BY <1>1, <1>2, <1>3 DEF PositionGood, Settled, Recalled

\* An open transaction with some fields changed.
LEMMA OpenExcept ==
  ASSUME NEW r \in OpenTx, NEW S, NEW A, NEW s
  PROVE  /\ [r EXCEPT !.left = S] = [op |-> r.op, contest |-> r.contest, now |-> r.now, left |-> S,
                                     affected |-> r.affected, seen |-> r.seen]
         /\ [r EXCEPT !.affected = A] = [op |-> r.op, contest |-> r.contest, now |-> r.now, left |-> r.left,
                                         affected |-> A, seen |-> r.seen]
         /\ [r EXCEPT !.seen = s] = [op |-> r.op, contest |-> r.contest, now |-> r.now, left |-> r.left,
                                     affected |-> r.affected, seen |-> s]
<1>1. [r EXCEPT !.left = S] = [op |-> r.op, contest |-> r.contest, now |-> r.now, left |-> S,
                               affected |-> r.affected, seen |-> r.seen]
  BY DEF OpenTx
<1>2. [r EXCEPT !.affected = A] = [op |-> r.op, contest |-> r.contest, now |-> r.now, left |-> r.left,
                                   affected |-> A, seen |-> r.seen]
  BY DEF OpenTx
<1>3. [r EXCEPT !.seen = s] = [op |-> r.op, contest |-> r.contest, now |-> r.now, left |-> r.left,
                               affected |-> r.affected, seen |-> s]
  BY DEF OpenTx
<1>. QED BY <1>1, <1>2, <1>3

LEMMA OpenExceptTwo ==
  ASSUME NEW r \in OpenTx, NEW S, NEW A
  PROVE  [r EXCEPT !.left = S, !.affected = A]
           = [op |-> r.op, contest |-> r.contest, now |-> r.now, left |-> S, affected |-> A, seen |-> r.seen]
<1>. DEFINE m == [r EXCEPT !.left = S]
<1>1. m \in [op : {"resolve", "undo"}, contest : Contests, now : Rounds, left : {S},
             affected : SUBSET Players, seen : [Players -> Row \cup {NoRow}]]
      /\ m.op = r.op /\ m.contest = r.contest /\ m.now = r.now /\ m.left = S /\ m.seen = r.seen
  BY DEF OpenTx
<1>. HIDE DEF m
<1>2. [m EXCEPT !.affected = A] = [op |-> m.op, contest |-> m.contest, now |-> m.now, left |-> m.left,
                                   affected |-> A, seen |-> m.seen]
  BY <1>1
<1>. QED BY <1>1, <1>2 DEF m

\* The fields of an open transaction after a step.
LEMMA OpenAfter ==
  ASSUME ReputationTypeOK, NEW w \in Engines, tx[w] # NoTx,
         NEW S \in SUBSET Bets, NEW A \in SUBSET Players, NEW s \in [Players -> Row \cup {NoRow}],
         NEW t, t = [op |-> tx[w].op, contest |-> tx[w].contest, now |-> tx[w].now, left |-> S,
                     affected |-> A, seen |-> s]
  PROVE  /\ t \in OpenTx /\ t.op = tx[w].op /\ t.contest = tx[w].contest /\ t # NoTx
         /\ t.left = S /\ t.affected = A /\ t.seen = s
<1>1. tx[w].op \in {"resolve", "undo"} /\ tx[w].contest \in Contests /\ tx[w].now \in Rounds
  BY OpenFields
<1>. QED BY <1>1 DEF OpenTx, NoTx

LEMMA SettleKeeps ==
  ASSUME ReputationInv, NEW w \in Engines, NEW b \in Bets, Settle(w, b)
  PROVE  ReputationInv'
<1>. DEFINE u == b[1]
            t == [tx[w] EXCEPT !.left = @ \ {b}]
            L == {<<"wallet", u>>, <<"row", u>>}
<1>1. /\ tx[w] # NoTx /\ tx[w].op = "resolve" /\ b \in tx[w].left
      /\ \A l \in L : Free(w, l)
      /\ held' = [held EXCEPT ![w] = @ \cup L]
      /\ tx' = [tx EXCEPT ![w] = t]
      /\ clock' = clock /\ bet' = bet /\ standing' = standing
  BY DEF Settle, WalletFree, tableVars
<1>2. ReputationTypeOK
  BY DEF ReputationInv
<1>3. /\ u \in Players /\ b[2] = tx[w].contest /\ Position(w, u) = b
      /\ Unchanged(w, u)
  BY <1>1, LeftPosition
<1>4. PICK status \in {"won", "lost"} :
        LET settled == [bet[b] EXCEPT !.status = status, !.at = tx[w].now]
            now == IF <<"row", u>> \in held[w] THEN workStanding[u] ELSE standing[u]
        IN  /\ workBet' = [workBet EXCEPT ![b] = settled]
            /\ workStanding' = [workStanding EXCEPT ![u] =
                             Added(now, [View(w) EXCEPT ![b] = settled], u, b)]
  BY DEF Settle
<1>. DEFINE settled == [bet[b] EXCEPT !.status = status, !.at = tx[w].now]
            table == [View(w) EXCEPT ![b] = settled]
<1>5. /\ workBet' = [workBet EXCEPT ![b] = settled]
      /\ workStanding' = [workStanding EXCEPT ![u] = Added(standing[u], table, u, b)]
      /\ bet[b].status = "open" /\ workBet[b] = bet[b] /\ u \notin tx[w].affected
  BY <1>1, <1>3, <1>4 DEF Unchanged, HasLock
<1>6. /\ t \in OpenTx /\ t.op = tx[w].op /\ t.contest = tx[w].contest /\ t # NoTx
      /\ t.left = tx[w].left \ {b} /\ t.affected = tx[w].affected /\ t.seen = tx[w].seen
  <2>1. t = [op |-> tx[w].op, contest |-> tx[w].contest, now |-> tx[w].now, left |-> tx[w].left \ {b},
             affected |-> tx[w].affected, seen |-> tx[w].seen]
    BY <1>1, <1>2, OpenFields, OpenExcept
  <2>2. /\ tx[w].left \ {b} \in SUBSET Bets /\ tx[w].affected \in SUBSET Players
        /\ tx[w].seen \in [Players -> Row \cup {NoRow}]
    BY <1>1, <1>2, OpenFields
  <2>. HIDE DEF t
  <2>. QED BY <1>1, <1>2, <2>1, <2>2, OpenAfter
<1>7. settled \in Bet /\ settled.status = status
  <2>1. bet[b] \in Bet
    BY <1>2 DEF ReputationTypeOK
  <2>2. tx[w].now \in Rounds
    BY <1>1, <1>2, OpenFields
  <2>. QED BY <2>1, <2>2 DEF Bet
<1>. HIDE DEF t, settled
<1>8. tx'[w] = t
  BY <1>1, <1>2 DEF ReputationTypeOK
<1>9. View(w)' = table
  BY <1>1, <1>3, <1>5, <1>6, <1>8, ViewWritten
<1>10. View(w) \in [Bets -> Bet] /\ table \in [Bets -> Bet] /\ table[b] = settled /\ View(w)[b] = bet[b]
  <2>1. View(w) \in [Bets -> Bet]
    BY <1>2, ViewType
  <2>. QED BY <1>3, <1>5, <1>7, <2>1 DEF View
<1>11. b \in BetsOf(u)
  BY DEF Bets, BetsOf
<1>12. RowFits(standing[u], View(w), u)
  <2>1. \A k \in BetsOf(u) : k[2] = tx[w].contest => k = b
    BY <1>3 DEF Position, BetsOf
  <2>2. Agreeing(bet, View(w), BetsOf(u))
    <3>1. BetsOf(u) \subseteq Bets
      BY <1>3, FinitePositions
    <3>. QED BY <1>5, <2>1, <3>1 DEF Agreeing, View
  <2>. QED BY <1>2, <1>3, <2>2, FitsAgrees DEF ReputationInv, StandingsFit, ReputationTypeOK
<1>13. RowFits(Added(standing[u], table, u, b), table, u) /\ Added(standing[u], table, u, b) \in Row
  <2>1. Agreeing(View(w), table, BetsOf(u) \ {b})
    <3>1. BetsOf(u) \subseteq Bets
      BY <1>3, FinitePositions
    <3>. QED BY <1>10, <3>1 DEF Agreeing
  <2>2. View(w)[b].status \notin {"won", "lost"} /\ table[b].status \in {"won", "lost"}
    BY <1>5, <1>7, <1>10
  <2>3. standing[u] \in Row
    BY <1>2, <1>3 DEF ReputationTypeOK
  <2>. HIDE DEF table, u
  <2>. QED BY <1>3, <1>10, <1>11, <1>12, <2>1, <2>2, <2>3, AddedFits
<1>14. /\ workStanding' \in [Players -> Row] /\ \A p \in Players \ {u} : workStanding'[p] = workStanding[p]
       /\ workStanding'[u] = Added(standing[u], table, u, b)
  BY <1>2, <1>3, <1>5, <1>13 DEF ReputationTypeOK
<1>15. workBet' \in [Bets -> Bet] /\ \A k \in Bets \ {b} : workBet'[k] = workBet[k]
  BY <1>2, <1>5, <1>7 DEF ReputationTypeOK
<1>16. PositionGood(w, u)'
  <2>1. Position(w, u)' = b
    BY <1>3, <1>6, <1>8 DEF Position
  <2>2. L \subseteq held'[w]
    BY <1>1, <1>2 DEF ReputationTypeOK
  <2>3. tx'[w].op = "resolve" /\ b \notin tx'[w].left /\ u \notin tx'[w].affected
    BY <1>1, <1>5, <1>6, <1>8
  <2>4. RowFits(workStanding'[u], View(w)', u)
    BY <1>9, <1>13, <1>14
  <2>5. HasLock(w, "wallet", u)' /\ HasLock(w, "row", u)'
    BY <2>2 DEF HasLock
  <2>. QED BY <2>1, <2>3, <2>4, <2>5 DEF PositionGood, Settled
<1>. HIDE DEF table, u
<1>17. L \in SUBSET {<<"wallet", u>>, <<"row", u>>} /\ <<"row", u>> \in L
  OBVIOUS
<1>. HIDE DEF L
<1>. QED BY <1>1, <1>3, <1>6, <1>14, <1>15, <1>16, <1>17, PlayerStep

LEMMA RecallKeeps ==
  ASSUME ReputationInv, NEW w \in Engines, NEW b \in Bets, Recall(w, b)
  PROVE  ReputationInv'
<1>. DEFINE u == b[1]
            t == [tx[w] EXCEPT !.left = @ \ {b}, !.affected = @ \cup {u}]
            L == {<<"wallet", u>>}
            recalled == [workBet[b] EXCEPT !.status = "open", !.at = tx[w].now]
<1>1. /\ tx[w] # NoTx /\ tx[w].op = "undo" /\ b \in tx[w].left
      /\ \A l \in L : Free(w, l)
      /\ held' = [held EXCEPT ![w] = @ \cup L]
      /\ tx' = [tx EXCEPT ![w] = t]
      /\ workBet' = [workBet EXCEPT ![b] = recalled]
      /\ clock' = clock /\ bet' = bet /\ standing' = standing /\ workStanding' = workStanding
  <2>1. workBet' = [workBet EXCEPT ![b] = recalled]
    BY DEF Recall, ReputationInv, ReputationTypeOK
  <2>2. tx' = [tx EXCEPT ![w] = t]
    BY DEF Recall, ReputationInv, ReputationTypeOK
  <2>. QED BY <2>1, <2>2 DEF Recall, WalletFree, tableVars
<1>2. ReputationTypeOK
  BY DEF ReputationInv
<1>3. /\ u \in Players /\ b[2] = tx[w].contest /\ Position(w, u) = b
      /\ Unchanged(w, u)
  BY <1>1, LeftPosition
<1>4. /\ t \in OpenTx /\ t.op = tx[w].op /\ t.contest = tx[w].contest /\ t # NoTx
      /\ t.left = tx[w].left \ {b} /\ t.affected = tx[w].affected \cup {u} /\ t.seen = tx[w].seen
  <2>. DEFINE S == tx[w].left \ {b}
              A == tx[w].affected \cup {u}
  <2>1. S \in SUBSET Bets /\ A \in SUBSET Players /\ tx[w].seen \in [Players -> Row \cup {NoRow}]
    BY <1>1, <1>2, <1>3, OpenFields
  <2>2. t = [tx[w] EXCEPT !.left = S, !.affected = A]
    OBVIOUS
  <2>. HIDE DEF t, S, A
  <2>3. t = [op |-> tx[w].op, contest |-> tx[w].contest, now |-> tx[w].now, left |-> S,
             affected |-> A, seen |-> tx[w].seen]
    BY <1>1, <1>2, <2>2, OpenFields, OpenExceptTwo
  <2>4. /\ t \in OpenTx /\ t.op = tx[w].op /\ t.contest = tx[w].contest /\ t # NoTx
        /\ t.left = S /\ t.affected = A /\ t.seen = tx[w].seen
    BY <1>1, <1>2, <2>1, <2>3, OpenAfter
  <2>. QED BY <2>4 DEF S, A
<1>5. recalled \in Bet
  <2>1. workBet[b] \in Bet
    BY <1>2 DEF ReputationTypeOK
  <2>2. tx[w].now \in Rounds
    BY <1>1, <1>2, OpenFields
  <2>. QED BY <2>1, <2>2 DEF Bet
<1>. HIDE DEF t, recalled
<1>6. tx'[w] = t
  BY <1>1, <1>2 DEF ReputationTypeOK
<1>7. workBet' \in [Bets -> Bet] /\ \A k \in Bets \ {b} : workBet'[k] = workBet[k]
  BY <1>1, <1>2, <1>5 DEF ReputationTypeOK
<1>8. PositionGood(w, u)'
  <2>1. Position(w, u)' = b
    BY <1>3, <1>4, <1>6 DEF Position
  <2>2. HasLock(w, "wallet", u)' /\ ~ HasLock(w, "row", u)'
    BY <1>1, <1>2, <1>3 DEF ReputationTypeOK, HasLock, Unchanged
  <2>3. /\ tx'[w].op = "undo" /\ b \notin tx'[w].left /\ u \in tx'[w].affected
        /\ tx'[w].seen[u] = NoRow
    BY <1>1, <1>3, <1>4, <1>6 DEF Unchanged
  <2>. QED BY <2>1, <2>2, <2>3 DEF PositionGood, Recalled
<1>. HIDE DEF u
<1>9. L \in SUBSET {<<"wallet", u>>, <<"row", u>>}
  OBVIOUS
<1>10. \A p \in Players \ {u} : (p \in t.affected <=> p \in tx[w].affected) /\ t.seen[p] = tx[w].seen[p]
  BY <1>4
<1>11. workStanding' \in [Players -> Row]
  BY <1>1, <1>2 DEF ReputationTypeOK
<1>. HIDE DEF L
<1>. QED BY <1>1, <1>3, <1>4, <1>7, <1>8, <1>9, <1>10, <1>11, PlayerStep

\* What a player has to be rebuilt is in the positions that were recalled.
LEMMA AffectedPosition ==
  ASSUME ReputationInv, NEW w \in Engines, tx[w] # NoTx, NEW u \in tx[w].affected
  PROVE  u \in Players /\ Recalled(w, u)
<1>1. u \in Players
  BY OpenFields DEF ReputationInv
<1>2. PositionGood(w, u)
  BY <1>1 DEF ReputationInv, PositionsGood
<1>. QED BY <1>1, <1>2 DEF PositionGood, Unchanged, Settled

LEMMA ReadResultsKeeps ==
  ASSUME ReputationInv, NEW w \in Engines, NEW u \in Players, ReadResults(w, u)
  PROVE  ReputationInv'
<1>. DEFINE s == [tx[w].seen EXCEPT ![u] = Rebuilt(View(w), u)]
            t == [tx[w] EXCEPT !.seen = s]
<1>1. ReputationTypeOK
  BY DEF ReputationInv
<1>2. /\ tx[w] # NoTx /\ u \in tx[w].affected
      /\ clock' = clock /\ bet' = bet /\ standing' = standing
      /\ workBet' = workBet /\ workStanding' = workStanding /\ held' = held
  BY DEF ReadResults, tableVars
<1>3. tx' = [tx EXCEPT ![w] = t]
  BY <1>1 DEF ReadResults, ReputationTypeOK
<1>4. Recalled(w, u)
  BY <1>2, AffectedPosition
<1>5. Rebuilt(View(w), u) \in Row
  BY <1>1, ViewType, RebuiltFits
<1>6. /\ t \in OpenTx /\ t.op = tx[w].op /\ t.contest = tx[w].contest /\ t # NoTx
      /\ t.left = tx[w].left /\ t.affected = tx[w].affected /\ t.seen = s
  <2>1. t = [op |-> tx[w].op, contest |-> tx[w].contest, now |-> tx[w].now, left |-> tx[w].left,
             affected |-> tx[w].affected, seen |-> s]
    BY <1>1, <1>2, OpenFields, OpenExcept
  <2>2. /\ tx[w].left \in SUBSET Bets /\ tx[w].affected \in SUBSET Players
        /\ s \in [Players -> Row \cup {NoRow}]
    BY <1>1, <1>2, <1>5, OpenFields
  <2>. HIDE DEF t, s
  <2>. QED BY <1>1, <1>2, <2>1, <2>2, OpenAfter
<1>7. s[u] = Rebuilt(View(w), u) /\ \A p \in Players \ {u} : s[p] = tx[w].seen[p]
  BY <1>1, <1>2, OpenFields
<1>. HIDE DEF t, s
<1>8. tx'[w] = t
  BY <1>1, <1>3 DEF ReputationTypeOK
<1>9. View(w)' = View(w)
  BY <1>2, <1>6, <1>8 DEF View
<1>10. PositionGood(w, u)'
  <2>1. Position(w, u)' = Position(w, u)
    BY <1>6, <1>8 DEF Position
  <2>2. Recalled(w, u)'
    BY <1>2, <1>4, <1>6, <1>7, <1>8, <1>9, <2>1 DEF Recalled, HasLock
  <2>. QED BY <2>2 DEF PositionGood
<1>11. {} \in SUBSET {<<"wallet", u>>, <<"row", u>>} /\ \A l \in {} : Free(w, l)
  OBVIOUS
<1>12. held' = [held EXCEPT ![w] = @ \cup {}]
  BY <1>1, <1>2 DEF ReputationTypeOK
<1>13. workBet' \in [Bets -> Bet] /\ workStanding' \in [Players -> Row]
  BY <1>1, <1>2 DEF ReputationTypeOK
<1>. QED BY <1>2, <1>3, <1>6, <1>7, <1>10, <1>11, <1>12, <1>13, PlayerStep

LEMMA WriteRowKeeps ==
  ASSUME ReputationInv, NEW w \in Engines, NEW u \in Players, WriteRow(w, u)
  PROVE  ReputationInv'
<1>. DEFINE t == [tx[w] EXCEPT !.affected = @ \ {u}]
            L == {<<"row", u>>}
<1>1. ReputationTypeOK
  BY DEF ReputationInv
<1>2. /\ tx[w] # NoTx /\ u \in tx[w].affected /\ tx[w].seen[u] # NoRow /\ tx[w].op = "undo"
      /\ clock' = clock /\ bet' = bet /\ standing' = standing /\ workBet' = workBet
      /\ workStanding' = [workStanding EXCEPT ![u] = tx[w].seen[u]]
      /\ \A l \in L : Free(w, l)
      /\ held' = [held EXCEPT ![w] = @ \cup L]
  BY DEF WriteRow, tableVars
<1>3. tx' = [tx EXCEPT ![w] = t]
  BY <1>1 DEF WriteRow, ReputationTypeOK
<1>4. Recalled(w, u) /\ tx[w].seen[u] = Rebuilt(View(w), u)
  BY <1>2, AffectedPosition DEF Recalled
<1>5. RowFits(Rebuilt(View(w), u), View(w), u) /\ Rebuilt(View(w), u) \in Row
  BY <1>1, ViewType, RebuiltFits
<1>6. /\ t \in OpenTx /\ t.op = tx[w].op /\ t.contest = tx[w].contest /\ t # NoTx
      /\ t.left = tx[w].left /\ t.affected = tx[w].affected \ {u} /\ t.seen = tx[w].seen
  <2>. DEFINE A == tx[w].affected \ {u}
  <2>1. /\ tx[w].left \in SUBSET Bets /\ A \in SUBSET Players
        /\ tx[w].seen \in [Players -> Row \cup {NoRow}]
    BY <1>1, <1>2, OpenFields
  <2>2. t = [tx[w] EXCEPT !.affected = A]
    OBVIOUS
  <2>. HIDE DEF t, A
  <2>3. t = [op |-> tx[w].op, contest |-> tx[w].contest, now |-> tx[w].now, left |-> tx[w].left,
             affected |-> A, seen |-> tx[w].seen]
    BY <1>1, <1>2, <2>2, OpenFields, OpenExcept
  <2>4. /\ t \in OpenTx /\ t.op = tx[w].op /\ t.contest = tx[w].contest /\ t # NoTx
        /\ t.left = tx[w].left /\ t.affected = A /\ t.seen = tx[w].seen
    BY <1>1, <1>2, <2>1, <2>3, OpenAfter
  <2>. QED BY <2>4 DEF A
<1>. HIDE DEF t
<1>7. tx'[w] = t
  BY <1>1, <1>3 DEF ReputationTypeOK
<1>8. View(w)' = View(w)
  BY <1>2, <1>6, <1>7 DEF View
<1>9. /\ workStanding' \in [Players -> Row] /\ workStanding'[u] = Rebuilt(View(w), u)
      /\ \A p \in Players \ {u} : workStanding'[p] = workStanding[p]
  BY <1>1, <1>2, <1>4, <1>5 DEF ReputationTypeOK
<1>10. <<"row", u>> \in held'[w] /\ (<<"wallet", u>> \in held'[w] <=> <<"wallet", u>> \in held[w])
  BY <1>1, <1>2 DEF ReputationTypeOK
<1>11. PositionGood(w, u)'
  <2>1. Position(w, u)' = Position(w, u)
    BY <1>6, <1>7 DEF Position
  <2>2. RowFits(workStanding'[u], View(w)', u)
    BY <1>5, <1>8, <1>9
  <2>3. Recalled(w, u)'
    BY <1>4, <1>6, <1>7, <1>10, <2>1, <2>2 DEF Recalled, HasLock
  <2>. QED BY <2>3 DEF PositionGood
<1>12. L \in SUBSET {<<"wallet", u>>, <<"row", u>>} /\ <<"row", u>> \in L
  OBVIOUS
<1>13. workBet' \in [Bets -> Bet]
  BY <1>1, <1>2 DEF ReputationTypeOK
<1>14. \A p \in Players \ {u} : (p \in t.affected <=> p \in tx[w].affected) /\ t.seen[p] = tx[w].seen[p]
  BY <1>6
<1>. HIDE DEF L
<1>. QED BY <1>2, <1>3, <1>6, <1>9, <1>11, <1>12, <1>13, <1>14, PlayerStep

\* A transaction ends: its locks are free, and where others hold theirs nothing changes.
LEMMA TransactionEnds ==
  ASSUME ReputationInv, NEW w \in Engines, tx[w] # NoTx,
         held' = [held EXCEPT ![w] = {}], tx' = [tx EXCEPT ![w] = NoTx]
  PROVE  /\ tx'[w] = NoTx /\ \A v \in Engines \ {w} : tx'[v] = tx[v] /\ held'[v] = held[v]
         /\ held'[w] = {} /\ LocksExclusive' /\ LocksOfTransactions' /\ LeftInContest'
         /\ held' \in [Engines -> SUBSET Locks] /\ tx' \in [Engines -> OpenTx \cup {NoTx}]
         /\ \A b \in Bets : (\A v \in Engines : <<"contest", b[2]>> \notin held'[v])
                            => b[2] = tx[w].contest \/ workBet[b] = bet[b]
<1>1. /\ held \in [Engines -> SUBSET Locks] /\ tx \in [Engines -> OpenTx \cup {NoTx}]
  BY DEF ReputationInv, ReputationTypeOK
<1>2. /\ tx'[w] = NoTx /\ held'[w] = {} /\ \A v \in Engines \ {w} : tx'[v] = tx[v] /\ held'[v] = held[v]
      /\ held' \in [Engines -> SUBSET Locks] /\ tx' \in [Engines -> OpenTx \cup {NoTx}]
  BY <1>1
<1>3. LocksExclusive'
  BY <1>2 DEF ReputationInv, LocksExclusive
<1>4. LocksOfTransactions'
  BY <1>2 DEF ReputationInv, LocksOfTransactions
<1>5. LeftInContest'
  BY <1>2 DEF ReputationInv, LeftInContest
<1>6. ASSUME NEW b \in Bets, \A v \in Engines : <<"contest", b[2]>> \notin held'[v], b[2] # tx[w].contest
      PROVE  workBet[b] = bet[b]
  <2>1. b[2] \in Contests
    BY DEF Bets
  <2>2. <<"contest", b[2]>> \notin held[w]
    BY <1>6, <2>1 DEF ReputationInv, LocksOfTransactions
  <2>3. \A v \in Engines : <<"contest", b[2]>> \notin held[v]
    BY <1>2, <1>6, <2>2
  <2>. QED BY <2>3 DEF ReputationInv, WorkIsCommitted
<1>. QED BY <1>2, <1>3, <1>4, <1>5, <1>6

\* A player of whom the transaction changed nothing has the positions that were committed.
LEMMA UnchangedView ==
  ASSUME ReputationInv, NEW w \in Engines, tx[w] # NoTx, NEW u \in Players, Unchanged(w, u)
  PROVE  \A c \in Contests : View(w)[<<u, c>>] = bet[<<u, c>>]
<1>. SUFFICES ASSUME NEW c \in Contests PROVE View(w)[<<u, c>>] = bet[<<u, c>>]
  OBVIOUS
<1>1. <<u, c>> \in Bets
  BY DEF Bets
<1>2. c = tx[w].contest => <<u, c>> = Position(w, u)
  BY DEF Position
<1>3. View(w)[<<u, c>>] = IF c = tx[w].contest THEN workBet[<<u, c>>] ELSE bet[<<u, c>>]
  BY <1>1 DEF View
<1>. QED BY <1>2, <1>3 DEF Unchanged

LEMMA CommitKeeps ==
  ASSUME ReputationInv, NEW w \in Engines, Commit(w)
  PROVE  ReputationInv'
<1>1. /\ tx[w] # NoTx /\ tx[w].left = {} /\ tx[w].affected = {}
      /\ bet' = View(w)
      /\ standing' = [u \in Players |->
                        IF <<"row", u>> \in held[w] THEN workStanding[u] ELSE standing[u]]
      /\ held' = [held EXCEPT ![w] = {}] /\ tx' = [tx EXCEPT ![w] = NoTx]
      /\ clock' = clock /\ workBet' = workBet /\ workStanding' = workStanding
  BY DEF Commit
<1>2. ReputationTypeOK /\ View(w) \in [Bets -> Bet]
  BY ViewType DEF ReputationInv
<1>3. /\ tx'[w] = NoTx /\ \A v \in Engines \ {w} : tx'[v] = tx[v] /\ held'[v] = held[v]
      /\ LocksExclusive' /\ LocksOfTransactions' /\ LeftInContest'
      /\ held' \in [Engines -> SUBSET Locks] /\ tx' \in [Engines -> OpenTx \cup {NoTx}]
      /\ \A b \in Bets : (\A v \in Engines : <<"contest", b[2]>> \notin held'[v])
                         => b[2] = tx[w].contest \/ workBet[b] = bet[b]
  BY <1>1, TransactionEnds
<1>4. ReputationTypeOK'
  <2>1. standing' \in [Players -> Row]
    BY <1>1, <1>2 DEF ReputationTypeOK
  <2>. QED BY <1>1, <1>2, <1>3, <2>1 DEF ReputationTypeOK
<1>5. StandingsFit'
  <2>. SUFFICES ASSUME NEW u \in Players PROVE RowFits(standing'[u], View(w), u)
    BY <1>1 DEF StandingsFit
  <2>1. PositionGood(w, u)
    BY <1>1 DEF ReputationInv, PositionsGood
  <2>2. CASE <<"row", u>> \in held[w]
    BY <1>1, <2>1, <2>2 DEF PositionGood, Unchanged, Settled, Recalled, HasLock
  <2>3. CASE <<"row", u>> \notin held[w]
    <3>1. Unchanged(w, u)
      BY <1>1, <2>1, <2>3 DEF PositionGood, Settled, Recalled, HasLock
    <3>2. Agreeing(bet, View(w), BetsOf(u))
      BY <1>1, <3>1, UnchangedView DEF Agreeing, BetsOf
    <3>3. bet \in [Bets -> Bet] /\ RowFits(standing[u], bet, u)
      BY <1>2 DEF ReputationInv, StandingsFit, ReputationTypeOK
    <3>4. RowFits(standing[u], View(w), u)
      BY <3>2, <3>3, FitsAgrees
    <3>. QED BY <1>1, <2>3, <3>4
  <2>. QED BY <2>2, <2>3
<1>6. \A b \in Bets : bet'[b] = IF b[2] = tx[w].contest THEN workBet[b] ELSE bet[b]
  BY <1>1 DEF View
<1>7. WorkIsCommitted'
  BY <1>1, <1>3, <1>6 DEF WorkIsCommitted
<1>8. PositionsGood'
  <2>. SUFFICES ASSUME NEW v \in Engines, tx'[v] # NoTx, NEW u \in Players PROVE PositionGood(v, u)'
    BY DEF PositionsGood
  <2>1. v # w /\ tx'[v] = tx[v] /\ held'[v] = held[v] /\ tx[v] # NoTx
    BY <1>3
  <2>2. tx[v].contest \in Contests /\ tx[v].contest # tx[w].contest
    BY <1>1, <1>2, <2>1, OpenFields, ContestsApart
  <2>3. Position(v, u) \in Bets /\ Position(v, u)[2] = tx[v].contest
    BY <2>2 DEF Position, Bets
  <2>4. bet'[Position(v, u)] = bet[Position(v, u)]
    BY <1>6, <2>2, <2>3
  <2>5. ASSUME <<"wallet", u>> \in held[v] PROVE \A c \in Contests : bet'[<<u, c>>] = bet[<<u, c>>]
    <3>1. <<"wallet", u>> \notin held[w]
      BY <2>1, <2>5 DEF ReputationInv, LocksExclusive
    <3>2. PositionGood(w, u)
      BY <1>1 DEF ReputationInv, PositionsGood
    <3>3. Unchanged(w, u)
      BY <3>1, <3>2 DEF PositionGood, Settled, Recalled, HasLock
    <3>. QED BY <1>1, <3>3, UnchangedView
  <2>6. PositionGood(v, u)
    BY <2>1 DEF ReputationInv, PositionsGood
  <2>. QED BY <1>1, <1>2, <2>1, <2>4, <2>5, <2>6, PositionFrame
<1>. QED BY <1>3, <1>4, <1>5, <1>7, <1>8 DEF ReputationInv

LEMMA AbortKeeps ==
  ASSUME ReputationInv, NEW w \in Engines, Abort(w)
  PROVE  ReputationInv'
<1>1. /\ tx[w] # NoTx
      /\ workBet' = [b \in Bets |-> IF b[2] = tx[w].contest THEN bet[b] ELSE workBet[b]]
      /\ held' = [held EXCEPT ![w] = {}] /\ tx' = [tx EXCEPT ![w] = NoTx]
      /\ clock' = clock /\ bet' = bet /\ standing' = standing /\ workStanding' = workStanding
  BY DEF Abort, tableVars
<1>2. ReputationTypeOK
  BY DEF ReputationInv
<1>3. /\ tx'[w] = NoTx /\ \A v \in Engines \ {w} : tx'[v] = tx[v] /\ held'[v] = held[v]
      /\ LocksExclusive' /\ LocksOfTransactions' /\ LeftInContest'
      /\ held' \in [Engines -> SUBSET Locks] /\ tx' \in [Engines -> OpenTx \cup {NoTx}]
      /\ \A b \in Bets : (\A v \in Engines : <<"contest", b[2]>> \notin held'[v])
                         => b[2] = tx[w].contest \/ workBet[b] = bet[b]
  BY <1>1, TransactionEnds
<1>4. ReputationTypeOK'
  <2>1. workBet' \in [Bets -> Bet]
    BY <1>1, <1>2 DEF ReputationTypeOK
  <2>. QED BY <1>1, <1>2, <1>3, <2>1 DEF ReputationTypeOK
<1>5. StandingsFit'
  BY <1>1 DEF ReputationInv, StandingsFit
<1>6. WorkIsCommitted'
  BY <1>1, <1>3 DEF WorkIsCommitted
<1>7. PositionsGood'
  <2>1. \A v \in Engines \ {w} : tx'[v] # NoTx => \A u \in Players : PositionGood(v, u)'
    BY <1>1, <1>3, OthersFrame
  <2>. QED BY <1>3, <2>1 DEF PositionsGood
<1>. QED BY <1>3, <1>4, <1>5, <1>6, <1>7 DEF ReputationInv

LEMMA ReputationStart == ReputationInit => ReputationInv
<1>. SUFFICES ASSUME ReputationInit PROVE ReputationInv
  OBVIOUS
<1>. DEFINE row == [score |-> Opening, count |-> 0, wins |-> 0, streak |-> 0, tidy |-> TRUE]
<1>1. /\ clock = 0 /\ workBet = bet
      /\ bet \in [Bets -> [status : {"none", "open"}, odds : Odds, at : {0}]]
      /\ standing = [u \in Players |-> row] /\ workStanding = standing
      /\ held = [w \in Engines |-> {}] /\ tx = [w \in Engines |-> NoTx]
  BY DEF ReputationInit
<1>2. ReputationTypeOK
  <2>1. 0 \in Rounds
    BY ReputationAssumption DEF Rounds
  <2>2. row \in Row
    BY ReputationAssumption DEF Row
  <2>3. bet \in [Bets -> Bet]
    BY <1>1, <2>1 DEF Bet
  <2>. QED BY <1>1, <2>1, <2>2, <2>3 DEF ReputationTypeOK
<1>3. StandingsFit
  <2>. SUFFICES ASSUME NEW u \in Players PROVE RowFits(row, bet, u)
    BY <1>1 DEF StandingsFit
  <2>1. \A b \in BetsOf(u) : bet[b].status \in {"none", "open"}
    BY <1>1, FinitePositions
  <2>2. Resolved(bet, BetsOf(u)) = {} /\ Won(bet, BetsOf(u)) = {}
    BY <2>1 DEF Resolved, Won
  <2>3. Won(bet, {}) = {} /\ InARow(bet, {}) = 0
    BY FS_EmptySet DEF Won, InARow
  <2>4. Rebuilt(bet, u) = row
    BY <2>2, <2>3, ReplayNothing, FS_EmptySet DEF Rebuilt
  <2>. QED BY <2>2, <2>4, FS_EmptySet DEF RowFits
<1>4. LocksExclusive /\ LocksOfTransactions
  BY <1>1 DEF LocksExclusive, LocksOfTransactions
<1>5. WorkIsCommitted /\ PositionsGood /\ LeftInContest
  BY <1>1 DEF WorkIsCommitted, PositionsGood, LeftInContest
<1>. QED BY <1>2, <1>3, <1>4, <1>5 DEF ReputationInv

LEMMA ReputationStep == ReputationInv /\ [ReputationNext]_reputationVars => ReputationInv'
<1>. SUFFICES ASSUME ReputationInv, [ReputationNext]_reputationVars PROVE ReputationInv'
  OBVIOUS
<1>1. CASE UNCHANGED reputationVars
  <2>1. /\ clock' = clock /\ bet' = bet /\ workBet' = workBet /\ standing' = standing
        /\ workStanding' = workStanding /\ held' = held /\ tx' = tx
    BY <1>1 DEF reputationVars
  <2>2. ReputationTypeOK' /\ LocksExclusive' /\ LocksOfTransactions' /\ WorkIsCommitted' /\ LeftInContest'
    BY <2>1 DEF ReputationInv, ReputationTypeOK, LocksExclusive, LocksOfTransactions, WorkIsCommitted,
                LeftInContest
  <2>3. StandingsFit'
    BY <2>1 DEF ReputationInv, StandingsFit
  <2>4. PositionsGood'
    <3>. SUFFICES ASSUME NEW v \in Engines, tx'[v] # NoTx, NEW u \in Players PROVE PositionGood(v, u)'
      BY DEF PositionsGood
    <3>1. PositionGood(v, u)
      BY <2>1 DEF ReputationInv, PositionsGood
    <3>. QED BY <2>1, <3>1, PositionFrame DEF ReputationInv
  <2>. QED BY <2>2, <2>3, <2>4 DEF ReputationInv
<1>2. ASSUME NEW w \in Engines, NEW c \in Contests, NEW op \in {"resolve", "undo"}, Start(w, c, op)
      PROVE  ReputationInv'
  BY <1>2, StartKeeps
<1>3. ASSUME NEW w \in Engines, NEW b \in Bets, Settle(w, b) \/ Recall(w, b)
      PROVE  ReputationInv'
  BY <1>3, SettleKeeps, RecallKeeps
<1>4. ASSUME NEW w \in Engines, NEW u \in Players, ReadResults(w, u) \/ WriteRow(w, u)
      PROVE  ReputationInv'
  BY <1>4, ReadResultsKeeps, WriteRowKeeps
<1>5. ASSUME NEW w \in Engines, Commit(w) \/ Abort(w)
      PROVE  ReputationInv'
  BY <1>5, CommitKeeps, AbortKeeps
<1>. QED BY <1>1, <1>2, <1>3, <1>4, <1>5 DEF ReputationNext

LEMMA ReputationPromises == ReputationInv => ReputationInvariant
<1>. SUFFICES ASSUME ReputationInv PROVE ReputationInvariant
  OBVIOUS
<1>1. ReputationTypeOK
  BY DEF ReputationInv
<1>2. ResultsCounted
  BY DEF ReputationInv, StandingsFit, RowFits, ResultsCounted
<1>3. ASSUME NEW u \in Players, standing[u].tidy
      PROVE  standing[u] = Rebuilt(bet, u) /\ standing[u].score = ThemeScore(u, Contests)
  <2>1. standing[u] = Rebuilt(bet, u)
    BY <1>3 DEF ReputationInv, StandingsFit, RowFits
  <2>2. Rebuilt(bet, u).score = Replay(bet, Resolved(bet, BetsOf(u)))
    BY DEF Rebuilt
  <2>. QED BY <2>1, <2>2 DEF ThemeScore, BetsOf
<1>4. Agrees
  BY <1>3 DEF Agrees
<1>. QED BY <1>1, <1>2, <1>4 DEF ReputationInvariant

\* However resolutions and undos of several contests overlap, fail or crash, each reputation row
\* counts all of its player's results, and one that was added to in their order is what rebuilding
\* it gives and what a ranking over every theme shows (market_lifecycle_engine.py), for any players,
\* contests and transactions.
THEOREM ReputationKept == ReputationSpec => []ReputationInvariant
<1>1. ReputationInit => ReputationInv
  BY ReputationStart
<1>2. ReputationInv /\ [ReputationNext]_reputationVars => ReputationInv'
  BY ReputationStep
<1>3. ReputationInv => ReputationInvariant
  BY ReputationPromises
<1>. QED BY <1>1, <1>2, <1>3, PTL DEF ReputationSpec

=============================================================================
