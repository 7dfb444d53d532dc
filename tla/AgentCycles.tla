---------------------------- MODULE AgentCycles -----------------------------
(***************************************************************************)
(* The cycle of the official agents, which the daemon runs after its other *)
(* tasks: analysts comment open markets by way of a language model, then   *)
(* liquidity bots take positions next to humans.  A cycle is one           *)
(* transaction that reads the configuration once and whose every statement *)
(* sees what others have committed so far; calls to the model take minutes *)
(* while people comment, moderators hide and restore, the console switches *)
(* and reassigns agents and edits their limits, and markets close.         *)
(*                                                                         *)
(* The comments and positions of the current cycle are its own until it    *)
(* commits.  Ages stand for times: "new" is within the cooldown of a       *)
(* market, "day" within the 24 hours the quotas count, "old" beyond.       *)
(***************************************************************************)
EXTENDS Integers, FiniteSets

CONSTANTS
    Agents,
    FirstTraders,       \* those created as liquidity bots
    BotUsers,           \* bot accounts agents may use
    NoAgent,
    Squares,            \* markets
    NoSquare,
    MaxRemarks,         \* bound: comments
    Limits,             \* what the configuration may limit the agents to
    AgentLimits,        \* what an agent may be limited to
    Purse,              \* what a bot's wallet holds at first, in stakes
    MaxCycles,          \* bound: cycles that begin
    MaxTurns            \* bound: edits of the console, hours that pass

\* ai_max_comments_per_cycle, ai_max_comment_attempts_per_cycle,
\* ai_max_comments_per_day, ..._per_market_per_day, ..._per_market,
\* ai_max_predictions_per_cycle, ..._per_day; one of 0 counts as its default.
LimitRow ==
    [cycle : Nat \ {0}, attempts : Nat, day : Nat, squareDay : Nat, square : Nat,
     stakeCycle : Nat \ {0}, stakeDay : Nat]
\* max_comments_per_day, max_predictions_per_day and
\* max_comments_per_market_override, 0 where there is none.
AgentLimitRow == [day : Nat, stakeDay : Nat, square : Nat]

ASSUME CycleAssumption ==
    /\ Squares # {} /\ MaxRemarks \in Nat /\ Purse \in Nat
    /\ Limits \subseteq LimitRow /\ Limits # {}
    /\ AgentLimits \subseteq AgentLimitRow /\ AgentLimits # {}
    /\ \E f \in [Agents -> BotUsers] : \A a, b \in Agents : f[a] = f[b] => a = b

Kinds == {"analyst", "liquidity"}
Flags == {"agents", "comments", "predictions"}
Ages == {"new", "day", "old"}

VARIABLES
    squareOpen,         \* markets that are open
    crowd,              \* markets with a human's position
    heardLately,        \* markets with a recent visible comment of a human
    agentUser,          \* the bot account of an agent, unique
    agentType,          \* an analyst comments, a liquidity bot takes positions
    agentOn,            \* agents that are active
    agentLimits,        \* its limits
    flags,              \* what the configuration allows (a pause clears "agents")
    limits,             \* and the limits it sets
    remarks,            \* comments of agents and the action that created each
    stakes,             \* positions of bots and the action that created each
    purse,              \* stakes a bot's wallet can still pay
    cycle,              \* the running cycle
    kept,               \* history: the limits the last comment, position, comment in
                        \* a market and position of an agent were written under
    cycles, turns       \* bounded steps so far

cycleVars ==
    <<squareOpen, crowd, heardLately, agentUser, agentType, agentOn, agentLimits, flags, limits,
      remarks, stakes, purse, cycle, kept, cycles, turns>>
streetVars == <<squareOpen, crowd, heardLately>>
consoleVars == <<agentUser, agentType, agentOn, agentLimits, flags, limits>>
worldVars == <<streetVars, consoleVars>>

RemarkRow ==
    [id : 1 .. MaxRemarks, agent : Agents, author : BotUsers, on : Squares,
     visible : BOOLEAN, age : Ages]
StakeRow == [agent : Agents, user : BotUsers, on : Squares, age : Ages]
Steps == {"idle", "analysts", "squares", "asking", "traders", "placing", "signing", "ending"}

\* queue: the agents still to be visited, with the accounts and limits they
\* had when the list was read; own: the limits of the agent at work; todo: its
\* candidates.
Visits == [agent : Agents, user : BotUsers, own : AgentLimits]

NoCycle ==
    [at |-> "idle", flags |-> {}, limits |-> CHOOSE l \in Limits : TRUE, queue |-> {},
     agent |-> NoAgent, user |-> NoAgent, own |-> CHOOSE l \in AgentLimits : TRUE,
     todo |-> {}, on |-> NoSquare, attempts |-> 0, created |-> 0,
     remarks |-> {}, stakes |-> {}]

CycleInit ==
    /\ squareOpen = Squares
    /\ crowd = {CHOOSE s \in Squares : TRUE}
    /\ heardLately = {}
    /\ agentUser = CHOOSE f \in [Agents -> BotUsers] : \A a, b \in Agents : f[a] = f[b] => a = b
    /\ agentType = [a \in Agents |-> IF a \in FirstTraders THEN "liquidity" ELSE "analyst"]
    /\ agentOn = Agents
    /\ agentLimits \in [Agents -> AgentLimits]
    /\ flags = Flags
    /\ limits \in Limits
    /\ remarks = {}
    /\ stakes = {}
    /\ purse = [u \in BotUsers |-> Purse]
    /\ cycle = NoCycle
    /\ kept = [day |-> 0, stakes |-> 0, square |-> [s \in Squares |-> 0],
               own |-> [a \in Agents |-> 0]]
    /\ cycles = 0
    /\ turns = 0

-----------------------------------------------------------------------------
(* What a statement of the cycle sees: all that is committed and its own.  *)

SeenRemarks == remarks \cup cycle.remarks
SeenStakes == stakes \cup cycle.stakes

Today(rows) == {r \in rows : r.age # "old"}
TodayOf(rows, a) == {r \in Today(rows) : r.agent = a}
TodayOn(s) == {r \in Today(SeenRemarks) : r.on = s}

\* A limit an agent does not have is that of the configuration.
Own(n, general) == IF n = 0 THEN general ELSE n

\* An agent with a limit of its own counts its account's comments, the others
\* those of every bot.
Counted(v, s) ==
    {r \in SeenRemarks : r.on = s /\ r.visible /\ (v.own.square # 0 => r.author = v.user)}

Cooling(s) == \E r \in SeenRemarks : r.on = s /\ r.visible /\ r.age = "new"

Candidates(v) ==
    {s \in squareOpen :
        /\ Cardinality(Counted(v, s)) < Own(v.own.square, cycle.limits.square)
        /\ Cardinality(TodayOn(s)) < cycle.limits.squareDay
        /\ ~Cooling(s)
        /\ s \notin heardLately}

ActiveAgents(kind) ==
    {[agent |-> a, user |-> agentUser[a], own |-> agentLimits[a]] :
        a \in {b \in agentOn : agentType[b] = kind}}

-----------------------------------------------------------------------------
(* The comments.                                                           *)

\* The flags and the limits are read once.  A disabled or paused cycle only
\* leaves a line in the audit.
BeginCycle ==
    /\ cycle.at = "idle"
    /\ "agents" \in flags
    /\ cycles < MaxCycles
    /\ cycles' = cycles + 1
    /\ LET comments ==
               "comments" \in flags /\ Cardinality(Today(SeenRemarks)) < limits.day
       IN cycle' = [NoCycle EXCEPT
                       !.at = IF comments THEN "analysts" ELSE "traders",
                       !.flags = flags, !.limits = limits,
                       !.queue = IF comments THEN ActiveAgents("analyst") ELSE {}]
    /\ UNCHANGED <<worldVars, remarks, stakes, purse, kept, turns>>

\* An agent at its daily limit, or without a candidate, is skipped.  The list
\* of candidates is made once, before the first call.
VisitAnalyst(v) ==
    /\ cycle.at = "analysts"
    /\ v \in cycle.queue
    /\ cycle.created < cycle.limits.cycle
    /\ LET works == /\ Cardinality(TodayOf(SeenRemarks, v.agent)) < Own(v.own.day, cycle.limits.day)
                    /\ Candidates(v) # {}
       IN cycle' = [cycle EXCEPT !.queue = @ \ {v},
                                 !.agent = v.agent, !.user = v.user, !.own = v.own, !.attempts = 0,
                                 !.at = IF works THEN "squares" ELSE @,
                                 !.todo = IF works THEN Candidates(v) ELSE {}]
    /\ UNCHANGED <<worldVars, remarks, stakes, purse, kept, cycles, turns>>

\* The agent goes on to its next candidate, in whatever order the markets are
\* listed, while the limits allow another call.
MayAsk ==
    /\ cycle.created < cycle.limits.cycle
    /\ Cardinality(Today(SeenRemarks)) < cycle.limits.day
    /\ cycle.attempts < cycle.limits.attempts

AskModel(s) ==
    /\ cycle.at = "squares"
    /\ s \in cycle.todo
    /\ MayAsk
    /\ cycle' = [cycle EXCEPT !.at = "asking", !.on = s, !.todo = @ \ {s},
                              !.attempts = @ + 1]
    /\ UNCHANGED <<worldVars, remarks, stakes, purse, kept, cycles, turns>>

LeaveAnalyst ==
    /\ cycle.at = "squares"
    /\ cycle.todo = {} \/ ~MayAsk
    /\ cycle' = [cycle EXCEPT !.at = "analysts", !.todo = {}, !.on = NoSquare]
    /\ UNCHANGED <<worldVars, remarks, stakes, purse, kept, cycles, turns>>

\* The model answers with a fit text: the comment is written, whatever has
\* become of the market, the agent or the switches during the call.
Comment ==
    /\ cycle.at = "asking"
    /\ Cardinality(SeenRemarks) < MaxRemarks
    /\ cycle' = [cycle EXCEPT
                    !.at = "squares", !.created = @ + 1,
                    !.remarks = @ \cup {[id |-> Cardinality(SeenRemarks) + 1, agent |-> cycle.agent,
                                         author |-> cycle.user, on |-> cycle.on,
                                         visible |-> TRUE, age |-> "new"]}]
    /\ kept' = [kept EXCEPT !.day = cycle.limits.day, !.square[cycle.on] = cycle.limits.squareDay]
    /\ UNCHANGED <<worldVars, remarks, stakes, purse, cycles, turns>>

\* It advises against publishing or its text is unfit: the next candidate.
Decline ==
    /\ cycle.at = "asking"
    /\ cycle' = [cycle EXCEPT !.at = "squares"]
    /\ UNCHANGED <<worldVars, remarks, stakes, purse, kept, cycles, turns>>

\* It stays silent after its retries: no comments for the rest of the cycle.
ModelFails ==
    /\ cycle.at = "asking"
    /\ cycle' = [cycle EXCEPT !.at = "traders", !.queue = {}, !.todo = {}, !.created = 0]
    /\ UNCHANGED <<worldVars, remarks, stakes, purse, kept, cycles, turns>>

\* Its JSON is not an object: the whole cycle ends, and commits what it did.
ModelConfuses ==
    /\ cycle.at = "asking"
    /\ cycle' = [cycle EXCEPT !.at = "ending"]
    /\ UNCHANGED <<worldVars, remarks, stakes, purse, kept, cycles, turns>>

AnalystsDone ==
    /\ cycle.at = "analysts"
    /\ cycle.queue = {} \/ cycle.created >= cycle.limits.cycle
    /\ cycle' = [cycle EXCEPT !.at = "traders", !.queue = {}, !.created = 0]
    /\ UNCHANGED <<worldVars, remarks, stakes, purse, kept, cycles, turns>>

-----------------------------------------------------------------------------
(* The positions.                                                          *)

BeginTrading ==
    /\ cycle.at = "traders"
    /\ LET trades == /\ "predictions" \in cycle.flags
                     /\ Cardinality(Today(SeenStakes)) < cycle.limits.stakeDay
       IN cycle' = [cycle EXCEPT !.at = IF trades THEN "placing" ELSE "ending",
                                 !.queue = IF trades THEN ActiveAgents("liquidity") ELSE {},
                                 !.agent = NoAgent, !.user = NoAgent, !.on = NoSquare]
    /\ UNCHANGED <<worldVars, remarks, stakes, purse, kept, cycles, turns>>

Holds(user, s) == \E b \in SeenStakes : b.user = user /\ b.on = s

\* A bot joins an open market with a human in it where its account has none.
Joinable(user) == {s \in squareOpen \cap crowd : ~Holds(user, s)}

VisitTrader(v) ==
    /\ cycle.at = "placing"
    /\ v \in cycle.queue
    /\ cycle.created < cycle.limits.stakeCycle
    /\ LET limit == Own(v.own.stakeDay, cycle.limits.stakeDay) IN
       \/ /\ Cardinality(TodayOf(SeenStakes, v.agent)) >= limit \/ Joinable(v.user) = {}
          /\ cycle' = [cycle EXCEPT !.queue = @ \ {v}]
       \/ /\ Cardinality(TodayOf(SeenStakes, v.agent)) < limit
          /\ \E s \in Joinable(v.user) :
                cycle' = [cycle EXCEPT !.at = "signing", !.queue = @ \ {v}, !.agent = v.agent,
                                       !.user = v.user, !.own = v.own, !.on = s]
    /\ UNCHANGED <<worldVars, remarks, stakes, purse, kept, cycles, turns>>

Spent(user) == Cardinality({b \in cycle.stakes : b.user = user})

\* The wallet is locked and charged, the position written and signed.
Place ==
    /\ cycle.at = "signing"
    /\ purse[cycle.user] > Spent(cycle.user)
    /\ cycle' = [cycle EXCEPT
                    !.at = "placing", !.created = @ + 1,
                    !.stakes = @ \cup {[agent |-> cycle.agent, user |-> cycle.user,
                                        on |-> cycle.on, age |-> "new"]}]
    /\ kept' = [kept EXCEPT
                   !.stakes = cycle.limits.stakeDay + cycle.limits.stakeCycle - 1,
                   !.own[cycle.agent] = Own(cycle.own.stakeDay, cycle.limits.stakeDay)]
    /\ UNCHANGED <<worldVars, remarks, stakes, purse, cycles, turns>>

\* No money, or no signature: the savepoint takes back what was done for this
\* position only, and the next agent has its turn.
PlaceFails ==
    /\ cycle.at = "signing"
    /\ cycle' = [cycle EXCEPT !.at = "placing"]
    /\ UNCHANGED <<worldVars, remarks, stakes, purse, kept, cycles, turns>>

TradersDone ==
    /\ cycle.at = "placing"
    /\ cycle.queue = {} \/ cycle.created >= cycle.limits.stakeCycle
    /\ cycle' = [cycle EXCEPT !.at = "ending"]
    /\ UNCHANGED <<worldVars, remarks, stakes, purse, kept, cycles, turns>>

CommitCycle ==
    /\ cycle.at = "ending"
    /\ remarks' = SeenRemarks
    /\ stakes' = SeenStakes
    /\ purse' = [u \in BotUsers |-> purse[u] - Spent(u)]
    /\ cycle' = NoCycle
    /\ UNCHANGED <<worldVars, kept, cycles, turns>>

\* The daemon dies, or the database refuses a statement: nothing was done.
LoseCycle ==
    /\ cycle.at # "idle"
    /\ cycle' = NoCycle
    /\ UNCHANGED <<worldVars, remarks, stakes, purse, kept, cycles, turns>>

-----------------------------------------------------------------------------
(* Everyone else.                                                          *)

Turn == turns < MaxTurns /\ turns' = turns + 1

HumanJoins(s) ==
    /\ s \in squareOpen \ crowd
    /\ crowd' = crowd \cup {s}
    /\ Turn
    /\ UNCHANGED <<squareOpen, heardLately, consoleVars, remarks, stakes, purse, cycle, kept, cycles>>

HumanComments(s) ==
    /\ s \notin heardLately
    /\ heardLately' = heardLately \cup {s}
    /\ Turn
    /\ UNCHANGED <<squareOpen, crowd, consoleVars, remarks, stakes, purse, cycle, kept, cycles>>

SquareCloses(s) ==
    /\ s \in squareOpen
    /\ squareOpen' = squareOpen \ {s}
    /\ Turn
    /\ UNCHANGED <<crowd, heardLately, consoleVars, remarks, stakes, purse, cycle, kept, cycles>>

Moderate(r) ==
    /\ r \in remarks
    /\ Turn
    /\ remarks' = (remarks \ {r}) \cup {[r EXCEPT !.visible = ~@]}
    /\ UNCHANGED <<worldVars, stakes, purse, cycle, kept, cycles>>

\* The console saves an agent, of whatever type and limits, with an account no
\* other agent uses.
SaveAgent(a, user, kind, on, l) ==
    /\ \A b \in Agents \ {a} : agentUser[b] # user
    /\ Turn
    /\ agentUser' = [agentUser EXCEPT ![a] = user]
    /\ agentType' = [agentType EXCEPT ![a] = kind]
    /\ agentOn' = IF on THEN agentOn \cup {a} ELSE agentOn \ {a}
    /\ agentLimits' = [agentLimits EXCEPT ![a] = l]
    /\ UNCHANGED <<streetVars, flags, limits, remarks, stakes, purse, cycle, kept, cycles>>

\* It saves the configuration of the agents, with no regard to what they did.
SaveAgentConfig(on, l) ==
    /\ Turn
    /\ flags' = on
    /\ limits' = l
    /\ UNCHANGED <<streetVars, agentUser, agentType, agentOn, agentLimits, remarks, stakes, purse,
                   cycle, kept, cycles>>

\* Hours pass between cycles (a cycle's clock stands still): the cooldown ends
\* before the day does.
HoursPass(from, to) ==
    /\ cycle.at = "idle"
    /\ Turn
    /\ remarks' = {[r EXCEPT !.age = IF @ \in from THEN to ELSE @] : r \in remarks}
    /\ stakes' = {[b EXCEPT !.age = IF @ \in from THEN to ELSE @] : b \in stakes}
    /\ heardLately' = {}
    /\ UNCHANGED <<squareOpen, crowd, consoleVars, purse, cycle, kept, cycles>>

CycleNext ==
    \/ BeginCycle
    \/ \E v \in Visits : VisitAnalyst(v) \/ VisitTrader(v)
    \/ \E s \in Squares : AskModel(s) \/ HumanJoins(s) \/ HumanComments(s) \/ SquareCloses(s)
    \/ Comment \/ LeaveAnalyst \/ Decline \/ ModelFails \/ ModelConfuses \/ AnalystsDone
    \/ BeginTrading \/ Place \/ PlaceFails \/ TradersDone
    \/ CommitCycle \/ LoseCycle
    \/ \E r \in remarks : Moderate(r)
    \/ \E a \in Agents, user \in BotUsers, kind \in Kinds, on \in BOOLEAN, l \in AgentLimits :
          SaveAgent(a, user, kind, on, l)
    \/ \E on \in SUBSET Flags, l \in Limits : SaveAgentConfig(on, l)
    \/ HoursPass({"new"}, "day")
    \/ HoursPass({"new", "day"}, "old")

CycleSpec == CycleInit /\ [][CycleNext]_cycleVars

-----------------------------------------------------------------------------
(* Properties.                                                             *)

CycleTypeOK ==
    /\ remarks \cup cycle.remarks \subseteq RemarkRow
    /\ stakes \cup cycle.stakes \subseteq StakeRow
    /\ cycle.at \in Steps
    /\ crowd \cup heardLately \cup squareOpen \subseteq Squares

\* Over agents, cycles, failing models, lost cycles, moderation and edits of
\* the limits, what is there of today stays within the limits under which the
\* last was written, those read when its cycle began or the agents were listed:
\* of a day and of a market's day for comments, of a day and of an agent's day
\* for positions (_run_comment_cycle, _candidate_comment_markets,
\* _run_prediction_cycle).  Hiding a comment frees none of them; an edit takes
\* nothing back, so a lowered limit is only held once the day has passed.  The
\* day's quota of positions is looked at once per cycle, so a cycle may pass it.
QuotasHold ==
    /\ Cardinality(Today(SeenRemarks)) <= kept.day
    /\ Cardinality(Today(SeenStakes)) <= kept.stakes
    /\ \A s \in Squares : Cardinality(TodayOn(s)) <= kept.square[s]
    /\ \A a \in Agents : Cardinality(TodayOf(SeenStakes, a)) <= kept.own[a]

\* An account takes one position in a market however agents exchange their
\* accounts, only next to a human, and never more than its wallet held
\* (_candidate_prediction_market, _create_bot_prediction).
BotsFollowHumans ==
    /\ \A b \in SeenStakes : b.on \in crowd
    /\ \A b, c \in SeenStakes : b.user = c.user /\ b.on = c.on => b = c
    /\ \A u \in BotUsers :
          purse[u] + Cardinality({b \in stakes : b.user = u}) = Purse
          /\ Spent(u) <= purse[u]

CycleInvariant == CycleTypeOK /\ QuotasHold /\ BotsFollowHumans

=============================================================================
