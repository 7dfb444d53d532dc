------------------------- MODULE MCMarketSettlement -------------------------
(***************************************************************************)
(* MarketSettlement on small instances and, beside it, the gateway of the  *)
(* agents that ask for its operations.  They share no variable: a          *)
(* behaviour works on one of them, its focus, and the state space is the   *)
(* sum of theirs.                                                          *)
(***************************************************************************)
EXTENDS MarketSettlement, EditorialGateway, TLC

VARIABLE focus

allVars == <<focus, vars, gatewayVars>>

\* Prediction identities, options and API workers are interchangeable; calls take the names
\* of predictions and integrations those of workers.
Symmetry ==
    Permutations(Predictions) \cup Permutations(Options) \cup Permutations(Requests)

SettlementSteps ==
    /\ focus = "settlement"
    /\ Next
    /\ UNCHANGED <<focus, gatewayVars>>

GatewaySteps ==
    /\ focus = "gateway"
    /\ GatewayNext
    /\ UNCHANGED <<focus, vars>>

OperationsInit ==
    /\ focus \in {"settlement", "gateway"}
    /\ Init /\ GatewayInit
    \* what is not in focus starts in one way
    /\ focus = "gateway" => \A m \in Markets : mstatus[m] = "scheduled"
    /\ focus = "settlement" => \A c, d \in ToolCalls : calls[c].agency = calls[d].agency

OperationsSpec == OperationsInit /\ [][SettlementSteps \/ GatewaySteps]_allVars

=============================================================================
