-------------------------- MODULE EditorialGateway --------------------------
(***************************************************************************)
(* The remote MCP adapter (apps/mcp/server.py): it bounds what reaches it, *)
(* has a token verified, performs a tool call at the API and reports the   *)
(* outcome, once, to the API's log.  A report that fails is spooled, and   *)
(* later calls of the same integration deliver it.                         *)
(*                                                                         *)
(* Calls are coroutines of one process: what a call does between two       *)
(* awaits is one step.  The operation itself goes on at the API whatever   *)
(* becomes of the call.  A call names its event; its payload, the policy   *)
(* that it reads and the texts of the answers are left out.                *)
(***************************************************************************)
EXTENDS Integers, FiniteSets, Sequences

CONSTANTS
    ToolCalls,     \* calls, by the identifier of their event
    Agencies,      \* integrations
    Addresses,     \* addresses that requests come from
    MaxAttempts,   \* requests of an address in a minute
    MaxKeys,       \* addresses and minutes that are remembered
    SpoolLimit,    \* files in the spool
    MaxAtOnce,     \* calls under way (bound)
    LastMinute,    \* the model's horizon
    NoFile

ASSUME GatewayAssumption ==
    /\ {MaxAttempts, MaxKeys, SpoolLimit} \subseteq Nat \ {0}
    /\ {LastMinute, MaxAtOnce} \subseteq Nat
    /\ NoFile \notin ToolCalls
    /\ IsFiniteSet(ToolCalls) /\ IsFiniteSet(Addresses)

Minutes == 0..LastMinute

Verdicts == {"none", "completed", "refused", "indeterminate", "unavailable", "broken"}

CallStage == {"idle", "admitted", "sent", "reporting", "done"}

GatewayCall ==
    [stage : CallStage, agency : Agencies,
     effect : {"none", "pending", "applied", "refused"}, \* of the operation, at the API
     result : {"none", "completed", "failed"},           \* as it is reported
     verdict : Verdicts]                                 \* as the agent is told

VARIABLES
    minute,
    attempts,      \* LimitsMiddleware.attempts: 0 where there is no key
    passed,        \* requests let through in this minute by this process (history)
    calls,
    todo,          \* of each reporting call, the spooled files still to look at
    posting,       \* the file it is delivering
    spool,         \* files, by their event
    torn,          \* the ones cut short by a crash
    forgone,       \* events that expired, found no room or were lost in a crash (history)
    ingested,      \* gotrendlabs_agent_ingested_events
    logged         \* of each event, the entries of the API's log

edgeVars == <<minute, attempts, passed>>
fileVars == <<spool, torn, forgone>>
logVars == <<ingested, logged>>
gatewayVars == <<edgeVars, calls, todo, posting, fileVars, logVars>>

GatewayInit ==
    /\ minute = 0
    /\ attempts = [a \in Addresses |-> [t \in Minutes |-> 0]]
    /\ passed = [a \in Addresses |-> 0]
    /\ calls \in [ToolCalls ->
          {[stage |-> "idle", agency |-> g, effect |-> "none", result |-> "none",
            verdict |-> "none"] : g \in Agencies}]
    /\ todo = [c \in ToolCalls |-> {}]
    /\ posting = [c \in ToolCalls |-> NoFile]
    /\ spool = {} /\ torn = {} /\ forgone = {}
    /\ ingested = {}
    /\ logged = [e \in ToolCalls |-> <<>>]

-----------------------------------------------------------------------------
(* The edge.                                                               *)

\* Keys older than the last minute are dropped first.
Recent == [a \in Addresses |-> [t \in Minutes |-> IF t >= minute - 1 THEN attempts[a][t] ELSE 0]]

Keys(table) == {k \in Addresses \X Minutes : table[k[1]][k[2]] > 0}

Room(a) == Recent[a][minute] > 0 \/ Cardinality(Keys(Recent)) < MaxKeys

Counted(a) == [Recent EXCEPT ![a][minute] = @ + 1]

UnderWay == {c \in ToolCalls : calls[c].stage \in {"admitted", "sent", "reporting"}}

\* A request is let through, for a call whose token is still to be verified.
Admit(c, a) ==
    /\ calls[c].stage = "idle"
    /\ Cardinality(UnderWay) < MaxAtOnce
    /\ Room(a)
    /\ Counted(a)[a][minute] <= MaxAttempts
    /\ attempts' = Counted(a)
    /\ passed' = [passed EXCEPT ![a] = @ + 1]
    /\ calls' = [calls EXCEPT ![c].stage = "admitted"]
    /\ UNCHANGED <<minute, todo, posting, fileVars, logVars>>

\* A request too many is counted all the same, one of too many addresses is not.
TurnAway(c, a) ==
    /\ calls[c].stage = "idle"
    /\ Room(a) => Counted(a)[a][minute] > MaxAttempts
    /\ attempts' = IF Room(a) THEN Counted(a) ELSE Recent
    /\ calls' = [calls EXCEPT ![c].stage = "done", ![c].verdict = "refused"]
    /\ UNCHANGED <<minute, passed, todo, posting, fileVars, logVars>>

MinutePasses ==
    /\ minute < LastMinute /\ minute' = minute + 1
    /\ passed' = [a \in Addresses |-> 0]
    /\ UNCHANGED <<attempts, calls, todo, posting, fileVars, logVars>>

-----------------------------------------------------------------------------
(* The call.                                                               *)

\* The token is delegated and its scopes hold the tool's.
Send(c) ==
    /\ calls[c].stage = "admitted"
    /\ calls' = [calls EXCEPT ![c].stage = "sent", ![c].effect = "pending"]
    /\ UNCHANGED <<edgeVars, todo, posting, fileVars, logVars>>

\* The adapter is switched off, or the token or its scope is refused.
Unauthorized(c) ==
    /\ calls[c].stage = "admitted"
    /\ calls' = [calls EXCEPT ![c].stage = "done", ![c].verdict = "refused"]
    /\ UNCHANGED <<edgeVars, todo, posting, fileVars, logVars>>

\* The API commits the operation or refuses it, soon or long after the call has given up.
Perform(c) ==
    /\ calls[c].effect = "pending"
    /\ \E effect \in {"applied", "refused"} : calls' = [calls EXCEPT ![c].effect = effect]
    /\ UNCHANGED <<edgeVars, todo, posting, fileVars, logVars>>

\* The outcome is known: event() lists the spool.
Reports(c, result, verdict) ==
    /\ calls' = [calls EXCEPT ![c].stage = "reporting", ![c].result = result, ![c].verdict = verdict]
    /\ todo' = [todo EXCEPT ![c] = spool]
    /\ UNCHANGED <<edgeVars, posting, fileVars, logVars>>

Completed(c) ==
    /\ calls[c].stage = "sent" /\ calls[c].effect = "applied"
    /\ Reports(c, "completed", "completed")

\* An error of the API's vocabulary; it may have lost sight of its own commit.
Refused(c) ==
    /\ calls[c].stage = "sent" /\ calls[c].effect \in {"applied", "refused"}
    /\ Reports(c, "failed", IF calls[c].effect = "refused" THEN "refused" ELSE "indeterminate")

\* No answer within the time-out: a resolution, cancellation or deletion is said to be
\* indeterminate, anything else to be unavailable.
GivesUp(c) ==
    /\ calls[c].stage = "sent"
    /\ \E verdict \in {"indeterminate", "unavailable"} : Reports(c, "failed", verdict)

-----------------------------------------------------------------------------
(* Reports.                                                                *)

\* ingest_event: an event is inserted once, and logged if it was, as best it can.
Ingest(e, agency) ==
    /\ ingested' = ingested \cup {e}
    /\ IF e \in ingested THEN UNCHANGED logged
       ELSE \/ UNCHANGED logged
            \/ logged' = [logged EXCEPT ![e] =
                 Append(@, [agency |-> agency, result |-> calls[e].result])]

\* The API takes the report or not, and its answer comes or not.
Delivered(e, agency, answer) ==
    CASE answer = "accepted" -> Ingest(e, agency)
      [] answer = "refused"  -> UNCHANGED logVars
      [] answer = "lost"     -> Ingest(e, agency) \/ UNCHANGED logVars

\* Only reports of the same integration are delivered: the token is its own.
Addressed_Anyone(c, f) == TRUE
Addressed(c, f) == calls[f].agency = calls[c].agency

Looking(c, f) ==
    /\ calls[c].stage = "reporting" /\ posting[c] = NoFile
    /\ f \in todo[c]

\* The file is gone or unreadable: the others are left for another time.
LeaveSpool(c, f) ==
    /\ Looking(c, f) /\ f \notin spool \ torn
    /\ todo' = [todo EXCEPT ![c] = {}]
    /\ UNCHANGED <<edgeVars, calls, posting, fileVars, logVars>>

\* A file more than a day old is removed; any file may have grown as old.
Expire(c, f) ==
    /\ Looking(c, f) /\ f \in spool \ torn
    /\ spool' = spool \ {f}
    /\ forgone' = forgone \cup {f}
    /\ todo' = [todo EXCEPT ![c] = @ \ {f}]
    /\ UNCHANGED <<edgeVars, calls, posting, torn, logVars>>

PassOver(c, f) ==
    /\ Looking(c, f) /\ f \in spool \ torn
    /\ ~ Addressed(c, f)
    /\ todo' = [todo EXCEPT ![c] = @ \ {f}]
    /\ UNCHANGED <<edgeVars, calls, posting, fileVars, logVars>>

Post(c, f) ==
    /\ Looking(c, f) /\ f \in spool \ torn
    /\ Addressed(c, f)
    /\ posting' = [posting EXCEPT ![c] = f]
    /\ todo' = [todo EXCEPT ![c] = @ \ {f}]
    /\ UNCHANGED <<edgeVars, calls, fileVars, logVars>>

\* A file that was accepted is removed, unless another call has done so; then, and when no
\* answer comes, the others are left.
Posted(c, answer) ==
    /\ posting[c] # NoFile
    /\ Delivered(posting[c], calls[c].agency, answer)
    /\ posting' = [posting EXCEPT ![c] = NoFile]
    /\ spool' = IF answer = "accepted" THEN spool \ {posting[c]} ELSE spool
    /\ IF answer = "lost" \/ (answer = "accepted" /\ posting[c] \notin spool)
       THEN todo' = [todo EXCEPT ![c] = {}]
       ELSE UNCHANGED todo
    /\ UNCHANGED <<edgeVars, calls, torn, forgone>>

\* Its own report: accepted, or else spooled if there is room.
ReportOwn(c, answer) ==
    /\ calls[c].stage = "reporting" /\ posting[c] = NoFile /\ todo[c] = {}
    /\ Delivered(c, calls[c].agency, answer)
    /\ calls' = [calls EXCEPT ![c].stage = "done"]
    /\ IF answer = "accepted" THEN UNCHANGED <<spool, forgone>>
       ELSE IF Cardinality(spool) < SpoolLimit THEN spool' = spool \cup {c} /\ UNCHANGED forgone
       ELSE forgone' = forgone \cup {c} /\ UNCHANGED spool
    /\ UNCHANGED <<edgeVars, todo, posting, torn>>

\* The spool cannot be listed or written: the agent is told nothing of the outcome.
DiskFails(c) ==
    /\ calls[c].stage = "reporting" /\ posting[c] = NoFile
    /\ calls' = [calls EXCEPT ![c].stage = "done", ![c].verdict = "broken"]
    /\ todo' = [todo EXCEPT ![c] = {}]
    /\ forgone' = forgone \cup {c}
    /\ UNCHANGED <<edgeVars, posting, spool, torn, logVars>>

\* The process dies, perhaps while it writes a file, and starts again.
Restart ==
    LET dead == UnderWay
    IN  /\ dead # {}
        /\ calls' = [c \in ToolCalls |->
             IF c \in dead THEN [calls[c] EXCEPT !.stage = "done", !.verdict = "broken"]
             ELSE calls[c]]
        /\ \E half \in {{}} \cup {{c} : c \in {k \in dead : calls[k].stage = "reporting"}} :
             /\ half # {} => Cardinality(spool) < SpoolLimit
             /\ spool' = spool \cup half /\ torn' = torn \cup half
        /\ forgone' = forgone \cup dead
        /\ todo' = [c \in ToolCalls |-> {}]
        /\ posting' = [c \in ToolCalls |-> NoFile]
        /\ attempts' = [a \in Addresses |-> [t \in Minutes |-> 0]]
        /\ passed' = [a \in Addresses |-> 0]
        /\ UNCHANGED <<minute, logVars>>

-----------------------------------------------------------------------------
GatewayNext ==
    \/ \E c \in ToolCalls, a \in Addresses : Admit(c, a) \/ TurnAway(c, a)
    \/ MinutePasses
    \/ \E c \in ToolCalls :
         \/ Send(c) \/ Unauthorized(c) \/ Perform(c)
         \/ Completed(c) \/ Refused(c) \/ GivesUp(c)
         \/ \E f \in ToolCalls : LeaveSpool(c, f) \/ Expire(c, f) \/ PassOver(c, f) \/ Post(c, f)
         \/ \E answer \in {"accepted", "refused", "lost"} : Posted(c, answer) \/ ReportOwn(c, answer)
         \/ DiskFails(c)
    \/ Restart

GatewaySpec == GatewayInit /\ [][GatewayNext]_gatewayVars

-----------------------------------------------------------------------------
GatewayTypeOK ==
    /\ minute \in Minutes
    /\ attempts \in [Addresses -> [Minutes -> Nat]]
    /\ passed \in [Addresses -> Nat]
    /\ calls \in [ToolCalls -> GatewayCall]
    /\ todo \in [ToolCalls -> SUBSET ToolCalls]
    /\ posting \in [ToolCalls -> ToolCalls \cup {NoFile}]
    /\ spool \subseteq ToolCalls /\ torn \subseteq spool
    /\ forgone \subseteq ToolCalls /\ ingested \subseteq ToolCalls
    /\ logged \in [ToolCalls -> Seq([agency : Agencies, result : {"none", "completed", "failed"}])]

\* Whatever is delivered twice, spooled, lost or restarted, an outcome is logged at most
\* once, under the integration that made the call, and as it was; "completed" only if the
\* operation was committed (event, ingest_event).
LoggedOnce ==
    \A e \in ToolCalls :
        /\ Len(logged[e]) <= 1
        /\ \A i \in 1..Len(logged[e]) :
              logged[e][i] = [agency |-> calls[e].agency, result |-> calls[e].result]
        /\ calls[e].result = "completed" => calls[e].effect = "applied"

\* No report disappears: of a call that has ended it is at the API or in the spool, or it is
\* known to be forgone.
NothingUnaccounted ==
    \A c \in ToolCalls :
        calls[c].stage = "done" /\ calls[c].result # "none" => c \in ingested \cup (spool \ torn) \cup forgone

\* What the agent is told is so: a completed operation has been committed, a refused one has
\* not and will not be, however late the API is (call).
ToldTruly ==
    \A c \in ToolCalls :
        /\ calls[c].verdict = "completed" => calls[c].effect = "applied"
        /\ calls[c].verdict = "refused" => calls[c].effect \in {"none", "refused"}

\* One process lets no address make more requests in a minute than it may, remembers no more
\* keys and spools no more files, however calls overlap (LimitsMiddleware, event).
GatewayBounded ==
    /\ \A a \in Addresses : passed[a] <= MaxAttempts
    /\ Cardinality(Keys(attempts)) <= MaxKeys
    /\ Cardinality(spool) <= SpoolLimit

GatewayInvariant ==
    GatewayTypeOK /\ LoggedOnce /\ NothingUnaccounted /\ ToldTruly /\ GatewayBounded

=============================================================================
