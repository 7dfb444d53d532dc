------------------------------ MODULE MCLedger ------------------------------
(***************************************************************************)
(* What the platform keeps for good, side by side: the ledger of events,   *)
(* the records of a market and the history of what visitors did.  They     *)
(* share no variable: a behaviour works on one of them, its focus, and the *)
(* state space is the sum of theirs.                                       *)
(***************************************************************************)
EXTENDS IntegrityLedger, MarketRecords, Observations, TLC

VARIABLE focus

allVars == <<focus, vars, recordVars, observationVars>>

\* Connections, requests, bettors, events and browsers are interchangeable; events take
\* the names of requests and browsers those of connections.
Perms == Permutations(Workers) \cup Permutations(Readers) \cup Permutations(Bettors)

LedgerSteps ==
    /\ focus = "ledger"
    /\ Next
    /\ UNCHANGED <<focus, recordVars, observationVars>>

RecordSteps ==
    /\ focus = "records"
    /\ RecordNext
    /\ UNCHANGED <<focus, vars, observationVars>>

ObservationSteps ==
    /\ focus = "observations"
    /\ ObservationNext
    /\ UNCHANGED <<focus, vars, recordVars>>

LedgerInit ==
    /\ focus \in {"ledger", "records", "observations"}
    /\ Init /\ RecordInit /\ ObservationInit

LedgerSpec == LedgerInit /\ [][LedgerSteps \/ RecordSteps \/ ObservationSteps]_allVars

=============================================================================
