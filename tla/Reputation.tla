----------------------------- MODULE Reputation -----------------------------
(***************************************************************************)
(* The reputation of players (market_lifecycle_engine.py): a resolution    *)
(* adds to the row of each player who had a position, an undo rebuilds the *)
(* rows from the resolved positions, and a ranking by theme rebuilds them  *)
(* once more to show them.                                                 *)
(*                                                                         *)
(* Each resolution or undo is a transaction at READ COMMITTED: it holds    *)
(* its contest, and takes the wallet of each player whose position it      *)
(* settles or recalls, for the entry it writes there.  The row is locked   *)
(* by a resolution but not by the query an undo rebuilds it from.  What a  *)
(* transaction writes is in workBet and workStanding until it commits.     *)
(*                                                                         *)
(* A contest is a market; a player has one position in it at most.         *)
(***************************************************************************)
EXTENDS Integers, FiniteSets

CONSTANTS
    Players,       \* users who are neither operators nor bots
    Contests,
    Engines,       \* transactions
    Odds,          \* probabilities at entry, in percent
    Opening,       \* INITIAL_REPUTATION
    LastRound,     \* resolutions and undos (bound)
    NoRow

ASSUME ReputationAssumption ==
    /\ Odds \subseteq 0..100
    /\ Opening \in Nat /\ LastRound \in Nat
    /\ IsFiniteSet(Players) /\ IsFiniteSet(Contests)

Bets == Players \X Contests

Rounds == 0..LastRound

Bet == [status : {"none", "open", "won", "lost"},
        odds : Odds,
        at : Rounds]               \* updated_at

\* tidy: what was added since the last rebuilding came in the order of updated_at (history)
Row == [score : Nat, count : Nat, wins : Nat, streak : Nat, tidy : BOOLEAN]

VARIABLES
    clock,
    bet, workBet,
    standing, workStanding,
    held,          \* the locks of each transaction
    tx             \* its operation, contest, time, positions and rows to do, and rows rebuilt

tableVars == <<bet, standing>>
reputationVars == <<clock, bet, workBet, standing, workStanding, held, tx>>

Locks == {"contest"} \X Contests \cup {"wallet", "row"} \X Players

NoTx == [op |-> "none"]

OpenTx == [op : {"resolve", "undo"}, contest : Contests, now : Rounds,
           left : SUBSET Bets, affected : SUBSET Players, seen : [Players -> Row \cup {NoRow}]]

ReputationInit ==
    /\ clock = 0
    /\ bet \in [Bets -> [status : {"none", "open"}, odds : Odds, at : {0}]]
    /\ workBet = bet
    /\ standing = [u \in Players |->
                [score |-> Opening, count |-> 0, wins |-> 0, streak |-> 0, tidy |-> TRUE]]
    /\ workStanding = standing
    /\ held = [w \in Engines |-> {}]
    /\ tx = [w \in Engines |-> NoTx]

-----------------------------------------------------------------------------
(* What a row is made of.                                                  *)

\* n hundredths, rounded half up.
HalfUp(n) == (n + 50) \div 100

\* REPUTATION_K_FACTOR is 10.
Delta(b) == IF b.status = "won" THEN HalfUp(10 * (100 - b.odds)) ELSE -HalfUp(10 * b.odds)

Floor(n) == IF n < 0 THEN 0 ELSE n

Resolved(table, S) == {b \in S : table[b].status \in {"won", "lost"}}

Latest(table, S) == CHOOSE b \in {k \in S : \A c \in S : table[c].at <= table[k].at} : TRUE

\* The score after the positions of S, one after the other.
Replay(table, S) ==
    LET after[T \in SUBSET S] ==
          IF T = {} THEN Opening
          ELSE LET b == Latest(table, T) IN Floor(after[T \ {b}] + Delta(table[b]))
    IN  after[S]

\* How many of S were won since the last that was lost.
InARow(table, S) ==
    Cardinality({b \in S : \A c \in S :
        table[c].at >= table[b].at => table[c].status = "won"})

Won(table, S) == {b \in S : table[b].status = "won"}

BetsOf(u) == {u} \X Contests

\* _recalculate_user_reputation
Rebuilt(table, u) ==
    LET S == Resolved(table, BetsOf(u))
    IN  [score |-> Replay(table, S), count |-> Cardinality(S),
         wins |-> Cardinality(Won(table, S)), streak |-> InARow(table, S), tidy |-> TRUE]

\* The ranking of a theme that takes in the contests C.
ThemeScore(u, C) == Replay(bet, Resolved(bet, {u} \X C))

\* _apply_reputation_delta: the position b of player u has just been settled.
Added(r, table, u, b) ==
    LET S == Resolved(table, BetsOf(u))
    IN  [score |-> Floor(r.score + Delta(table[b])), count |-> Cardinality(S),
         wins |-> Cardinality(Won(table, S)),
         streak |-> IF table[b].status = "won" THEN r.streak + 1 ELSE 0,
         tidy |-> r.tidy /\ \A c \in S \ {b} : table[c].at < table[b].at]

-----------------------------------------------------------------------------
(* Transactions.                                                           *)

Free(w, lock) == \A v \in Engines \ {w} : lock \notin held[v]

\* The entry in the wallet is behind the lock of its balance.
WalletFree_Unlocked(w, u) == TRUE
WalletFree(w, u) == Free(w, <<"wallet", u>>)

\* The positions as transaction w sees them: what others have committed and what it wrote.
View(w) ==
    [b \in Bets |-> IF tx[w] # NoTx /\ b[2] = tx[w].contest THEN workBet[b] ELSE bet[b]]

\* A contest with open positions is resolved, one with settled positions is undone.
Start(w, c, op) ==
    LET S == {b \in Bets : b[2] = c /\ bet[b].status \in
                 (IF op = "resolve" THEN {"open"} ELSE {"won", "lost"})}
    IN  /\ tx[w] = NoTx /\ S # {} /\ clock < LastRound
        /\ Free(w, <<"contest", c>>)
        /\ clock' = clock + 1
        /\ held' = [held EXCEPT ![w] = {<<"contest", c>>}]
        /\ tx' = [tx EXCEPT ![w] = [op |-> op, contest |-> c, now |-> clock + 1, left |-> S,
                                    affected |-> {}, seen |-> [u \in Players |-> NoRow]]]
        /\ UNCHANGED <<tableVars, workBet, workStanding>>

\* A position is settled: its outcome, the wallet, then the row under its lock.
Settle(w, b) ==
    LET u == b[1]
    IN  /\ tx[w] # NoTx /\ tx[w].op = "resolve" /\ b \in tx[w].left
        /\ WalletFree(w, u) /\ Free(w, <<"row", u>>)
        /\ \E status \in {"won", "lost"} :
             LET settled == [bet[b] EXCEPT !.status = status, !.at = tx[w].now]
                 \* rows that nobody holds are as they were committed
                 now == IF <<"row", u>> \in held[w] THEN workStanding[u] ELSE standing[u]
             IN  /\ workBet' = [workBet EXCEPT ![b] = settled]
                 /\ workStanding' = [workStanding EXCEPT ![u] =
                                  Added(now, [View(w) EXCEPT ![b] = settled], u, b)]
        /\ held' = [held EXCEPT ![w] = @ \cup {<<"wallet", u>>, <<"row", u>>}]
        /\ tx' = [tx EXCEPT ![w].left = @ \ {b}]
        /\ UNCHANGED <<clock, tableVars>>

\* A position is open again, and the wallet has its entries.
Recall(w, b) ==
    /\ tx[w] # NoTx /\ tx[w].op = "undo" /\ b \in tx[w].left
    /\ WalletFree(w, b[1])
    /\ workBet' = [workBet EXCEPT ![b].status = "open", ![b].at = tx[w].now]
    /\ held' = [held EXCEPT ![w] = @ \cup {<<"wallet", b[1]>>}]
    /\ tx' = [tx EXCEPT ![w].left = @ \ {b}, ![w].affected = @ \cup {b[1]}]
    /\ UNCHANGED <<clock, tableVars, workStanding>>

\* An undo reads what is left of a player's results...
ReadResults(w, u) ==
    /\ tx[w] # NoTx /\ tx[w].op = "undo" /\ tx[w].left = {}
    /\ u \in tx[w].affected /\ tx[w].seen[u] = NoRow
    /\ tx' = [tx EXCEPT ![w].seen[u] = Rebuilt(View(w), u)]
    /\ UNCHANGED <<clock, tableVars, workBet, workStanding, held>>

\* ... and overwrites the row.
WriteRow(w, u) ==
    /\ tx[w] # NoTx /\ tx[w].op = "undo"
    /\ u \in tx[w].affected /\ tx[w].seen[u] # NoRow
    /\ Free(w, <<"row", u>>)
    /\ workStanding' = [workStanding EXCEPT ![u] = tx[w].seen[u]]
    /\ held' = [held EXCEPT ![w] = @ \cup {<<"row", u>>}]
    /\ tx' = [tx EXCEPT ![w].affected = @ \ {u}]
    /\ UNCHANGED <<clock, tableVars, workBet>>

Commit(w) ==
    /\ tx[w] # NoTx /\ tx[w].left = {} /\ tx[w].affected = {}
    /\ bet' = View(w)
    /\ standing' = [u \in Players |->
                      IF <<"row", u>> \in held[w] THEN workStanding[u] ELSE standing[u]]
    /\ held' = [held EXCEPT ![w] = {}]
    /\ tx' = [tx EXCEPT ![w] = NoTx]
    /\ UNCHANGED <<clock, workBet, workStanding>>

\* An error, a deadlock or a crash: the transaction wrote nothing.
Abort(w) ==
    /\ tx[w] # NoTx
    /\ workBet' = [b \in Bets |-> IF b[2] = tx[w].contest THEN bet[b] ELSE workBet[b]]
    /\ held' = [held EXCEPT ![w] = {}]
    /\ tx' = [tx EXCEPT ![w] = NoTx]
    /\ UNCHANGED <<clock, tableVars, workStanding>>

-----------------------------------------------------------------------------
ReputationNext ==
    \E w \in Engines :
        \/ \E c \in Contests, op \in {"resolve", "undo"} : Start(w, c, op)
        \/ \E b \in Bets : Settle(w, b) \/ Recall(w, b)
        \/ \E u \in Players : ReadResults(w, u) \/ WriteRow(w, u)
        \/ Commit(w) \/ Abort(w)

ReputationSpec == ReputationInit /\ [][ReputationNext]_reputationVars

-----------------------------------------------------------------------------
ReputationTypeOK ==
    /\ clock \in Rounds
    /\ bet \in [Bets -> Bet] /\ workBet \in [Bets -> Bet]
    /\ standing \in [Players -> Row] /\ workStanding \in [Players -> Row]
    /\ held \in [Engines -> SUBSET Locks]
    /\ tx \in [Engines -> OpenTx \cup {NoTx}]

\* However resolutions and undos overlap, no result is lost: a row counts the player's
\* resolved positions and those that were won (_apply_reputation_delta, _accuracy_indicator,
\* _recalculate_user_reputation).
ResultsCounted ==
    \A u \in Players :
        /\ standing[u].count = Cardinality(Resolved(bet, BetsOf(u)))
        /\ standing[u].wins = Cardinality(Won(bet, BetsOf(u)))

\* A row that was added to in the order of its results is what rebuilding it would give, and
\* what a ranking over every theme shows.
Agrees ==
    \A u \in Players : standing[u].tidy =>
        standing[u] = Rebuilt(bet, u) /\ standing[u].score = ThemeScore(u, Contests)

ReputationInvariant == ReputationTypeOK /\ ResultsCounted /\ Agrees

=============================================================================
