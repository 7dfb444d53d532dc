-------------------------- MODULE MCOperatorQueues --------------------------
(***************************************************************************)
(* Overlapping transactions on small instances: the operators' queues and  *)
(* the rows of reputation, side by side.  They share no variable: a        *)
(* behaviour works on one of them, its focus, and the state space is the   *)
(* sum of theirs.                                                          *)
(***************************************************************************)
EXTENDS OperatorQueues, Reputation, TLC

VARIABLE focus

allVars == <<focus, vars, reputationVars>>

\* API workers and recharge rows are interchangeable; transactions take the names of workers
\* and contests those of recharges.
Symmetry == Permutations(Workers) \cup Permutations(Recharges)

QueueSteps ==
    /\ focus = "queues"
    /\ Next
    /\ UNCHANGED <<focus, reputationVars>>

ReputationSteps ==
    /\ focus = "reputation"
    /\ ReputationNext
    /\ UNCHANGED <<focus, vars>>

TransactionsInit ==
    /\ focus \in {"queues", "reputation"}
    /\ Init /\ ReputationInit
    \* what is not in focus starts in one way
    /\ focus = "queues" => \A b, c \in Bets : bet[b].status = "open" /\ bet[b].odds = bet[c].odds

TransactionsSpec == TransactionsInit /\ [][QueueSteps \/ ReputationSteps]_allVars

=============================================================================
