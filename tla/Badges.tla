------------------------------- MODULE Badges -------------------------------
(***************************************************************************)
(* The badge engine.  A request that makes something count for a user (a   *)
(* comment, a resolution with its settled predictions) or that lists the   *)
(* user's badges evaluates rules inside its own transaction: it reads the  *)
(* live rules once per user, then for each rule, in order of badge code,   *)
(* the user's metric, the rule's requirements and their metrics, each in a *)
(* statement of its own that sees what others have committed by then.  An  *)
(* award another open transaction has inserted makes the insert wait.      *)
(* Metrics stand for the engine's rule types: "comments" for those that    *)
(* one user's event evaluates, "resolved" for those a resolution evaluates *)
(* for all its users.                                                      *)
(***************************************************************************)
EXTENDS Integers, FiniteSets

CONSTANTS
    Fans,               \* human users, by id
    BadgeCodes,         \* badges, in order of code
    BadgeWorkers,       \* API workers
    MaxBadgeCalls,           \* bound: requests and moderations
    MaxBadgeEdits       \* bound: badges created, edited or paused

ASSUME FansAssumption ==
    Fans \subseteq Nat /\ BadgeCodes \subseteq Nat /\ IsFiniteSet(BadgeWorkers)

Metrics == {"comments", "resolved"}
Thresholds == 1..2
Demand == [metric : Metrics, threshold : Thresholds]

\* What a request evaluates the rules of.
RuleTypes == [comment |-> {"comments"}, resolve |-> {"resolved"}, reconcile |-> Metrics]

VARIABLES
    tally,          \* committed value of each metric, per user
    concealed,      \* comments of each user that a moderator has hidden
    rule,           \* the rule of each badge
    requirement,    \* its additional requirements
    awards,         \* gotrendlabs_user_badge_awards: <<user, badge>>
    evaluation,     \* the request of each worker
    badgeCalls,     \* requests and moderations so far (bound)
    badgeEdits      \* edits so far (bound)

badgeVars == <<tally, concealed, rule, requirement, awards, evaluation, badgeCalls, badgeEdits>>

\* A rule that does not exist yet grants nothing.
RuleRow == [known : BOOLEAN, live : BOOLEAN, demand : Demand]

NoRule == [known |-> FALSE, live |-> FALSE, demand |-> [metric |-> "comments", threshold |-> 1]]

\* subjects: the users of the event; who: the one being
\* evaluated; turn: those that follow; due: rules read for it and not judged
\* yet; won: awards inserted; disturbed: has a fact of a subject or a rule changed since
\* the request began?  (history)
NoEvaluation == [op |-> "none", subjects |-> {}, who |-> 0, turn |-> {}, due |-> {}, won |-> {},
                 disturbed |-> FALSE]

BadgeInit ==
    /\ tally = [m \in Metrics |-> [u \in Fans |-> 0]]
    /\ concealed = [u \in Fans |-> 0]
    /\ rule = [b \in BadgeCodes |-> NoRule]
    /\ requirement = [b \in BadgeCodes |-> {}]
    /\ awards = {}
    /\ evaluation = [w \in BadgeWorkers |-> NoEvaluation]
    /\ badgeCalls = 0
    /\ badgeEdits = 0

Least(S) == CHOOSE x \in S : \A y \in S : x <= y

Evaluating == {w \in BadgeWorkers : evaluation[w].op # "none"}

\* The rules a request reads: those of live badges and of its types.
ActiveRules(op) ==
    {[badge |-> b, demand |-> rule[b].demand] :
        b \in {c \in BadgeCodes : rule[c].live /\ rule[c].demand.metric \in RuleTypes[op]}}

\* The request of w sees its own uncommitted event besides what is committed.
OwnFact(e, m, u) ==
    IF u \in e.subjects /\ (<<e.op, m>> \in {<<"comment", "comments">>, <<"resolve", "resolved">>})
    THEN 1 ELSE 0

MetricValue(e, m, u) == tally[m][u] + OwnFact(e, m, u)

RuleIsMet(e, demand, u) == MetricValue(e, demand.metric, u) >= demand.threshold

RequirementsAreMet(e, b, u) == \A q \in requirement[b] : RuleIsMet(e, q, u)

\* A commit that changes a fact of some users, or an edit of a rule, disturbs
\* the open requests it concerns.
Disturb(users) ==
    [w \in BadgeWorkers |->
        IF w \in Evaluating /\ evaluation[w].subjects \cap users # {}
        THEN [evaluation[w] EXCEPT !.disturbed = TRUE] ELSE evaluation[w]]

-----------------------------------------------------------------------------
(* Requests.                                                               *)

\* SELECT DISTINCT ... ORDER BY p.user_id: the user an event evaluates first.
FirstUsers(users) == {Least(users)}

BeginEvaluation(w, op, users) ==
    /\ w \notin Evaluating
    /\ users # {}
    /\ op # "resolve" => Cardinality(users) = 1
    /\ badgeCalls < MaxBadgeCalls
    /\ \E u \in FirstUsers(users) :
         evaluation' = [evaluation EXCEPT ![w] =
           [op |-> op, subjects |-> users, who |-> u, turn |-> users \ {u},
            due |-> ActiveRules(op), won |-> {}, disturbed |-> FALSE]]
    /\ badgeCalls' = badgeCalls + 1
    /\ UNCHANGED <<tally, concealed, rule, requirement, awards, badgeEdits>>

\* The rule a request judges next.
NextRule(e) == CHOOSE d \in e.due : d.badge = Least({c.badge : c \in e.due})

Deserves_SnapshotOnly(e, d, u) == RuleIsMet(e, d.demand, u)
Deserves(e, d, u) == RuleIsMet(e, d.demand, u) /\ RequirementsAreMet(e, d.badge, u)

\* The insertion waits for an open transaction that has inserted the same row.
WaitsFor(w, v) ==
    LET e == evaluation[w] IN
    /\ w # v
    /\ e.due # {}
    /\ Deserves(e, NextRule(e), e.who)
    /\ <<e.who, NextRule(e).badge>> \in evaluation[v].won

Judge(w) ==
    LET e == evaluation[w]
        d == NextRule(e)
        award == <<e.who, d.badge>> IN
    /\ e.due # {}
    /\ \A v \in BadgeWorkers : ~WaitsFor(w, v)
    /\ evaluation' = [evaluation EXCEPT
           ![w].due = e.due \ {d},
           ![w].won = IF Deserves(e, d, e.who) /\ award \notin awards
                      THEN e.won \cup {award} ELSE e.won]
    /\ UNCHANGED <<tally, concealed, rule, requirement, awards, badgeCalls, badgeEdits>>

\* A resolution goes on with its next user, and reads the rules again.
NextUser(w) ==
    LET e == evaluation[w] IN
    /\ w \in Evaluating
    /\ e.due = {}
    /\ e.turn # {}
    /\ \E u \in FirstUsers(e.turn) :
         evaluation' = [evaluation EXCEPT
             ![w].who = u, ![w].turn = e.turn \ {u}, ![w].due = ActiveRules(e.op)]
    /\ UNCHANGED <<tally, concealed, rule, requirement, awards, badgeCalls, badgeEdits>>

CommitEvaluation(w) ==
    LET e == evaluation[w] IN
    /\ w \in Evaluating
    /\ e.due = {}
    /\ e.turn = {}
    /\ tally' = [m \in Metrics |-> [u \in Fans |-> MetricValue(e, m, u)]]
    /\ awards' = awards \cup e.won
    /\ evaluation' = [Disturb(IF e.op = "reconcile" THEN {} ELSE e.subjects)
                         EXCEPT ![w] = NoEvaluation]
    /\ UNCHANGED <<concealed, rule, requirement, badgeCalls, badgeEdits>>

\* An error, a lost connection or a crash rolls the request back.
FailEvaluation(w) ==
    /\ w \in Evaluating
    /\ evaluation' = [evaluation EXCEPT ![w] = NoEvaluation]
    /\ UNCHANGED <<tally, concealed, rule, requirement, awards, badgeCalls, badgeEdits>>

-----------------------------------------------------------------------------
(* Operators.  Moderation evaluates nothing.                               *)

HideComment(u) ==
    /\ tally["comments"][u] > 0
    /\ badgeCalls < MaxBadgeCalls
    /\ tally' = [tally EXCEPT !["comments"][u] = @ - 1]
    /\ concealed' = [concealed EXCEPT ![u] = @ + 1]
    /\ evaluation' = Disturb({u})
    /\ badgeCalls' = badgeCalls + 1
    /\ UNCHANGED <<rule, requirement, awards, badgeEdits>>

RestoreComment(u) ==
    /\ concealed[u] > 0
    /\ tally' = [tally EXCEPT !["comments"][u] = @ + 1]
    /\ concealed' = [concealed EXCEPT ![u] = @ - 1]
    /\ evaluation' = Disturb({u})
    /\ UNCHANGED <<rule, requirement, awards, badgeCalls, badgeEdits>>

CreateBadge(b, demand, extra) ==
    /\ ~rule[b].known
    /\ badgeEdits < MaxBadgeEdits
    /\ rule' = [rule EXCEPT ![b] = [known |-> TRUE, live |-> TRUE, demand |-> demand]]
    /\ requirement' = [requirement EXCEPT ![b] = extra]
    /\ evaluation' = Disturb(Fans)
    /\ badgeEdits' = badgeEdits + 1
    /\ UNCHANGED <<tally, concealed, awards, badgeCalls>>

\* An edit replaces the rule and, when the form sends them, all requirements; a
\* form without the switch leaves a paused rule paused.
UpdateBadge(b, demand, extra) ==
    /\ rule[b].known
    /\ badgeEdits < MaxBadgeEdits
    /\ \E live \in {TRUE, rule[b].live} :
         rule' = [rule EXCEPT ![b].demand = demand, ![b].live = live]
    /\ requirement' \in {requirement, [requirement EXCEPT ![b] = extra]}
    /\ evaluation' = Disturb(Fans)
    /\ badgeEdits' = badgeEdits + 1
    /\ UNCHANGED <<tally, concealed, awards, badgeCalls>>

PauseBadge(b) ==
    /\ rule[b].live
    /\ badgeEdits < MaxBadgeEdits
    /\ rule' = [rule EXCEPT ![b].live = FALSE]
    /\ evaluation' = Disturb(Fans)
    /\ badgeEdits' = badgeEdits + 1
    /\ UNCHANGED <<tally, concealed, requirement, awards, badgeCalls>>

\* Bound: rules of resolutions need one prediction, and a requirement is tried
\* with the metric the rule itself does not use.
TriedDemands == {d \in Demand : d.metric = "comments" \/ d.threshold = 1}

Other(demand) ==
    [metric |-> CHOOSE m \in Metrics : m # demand.metric, threshold |-> 1]

BadgeNext ==
    \/ \E w \in BadgeWorkers :
         \/ \E op \in DOMAIN RuleTypes, users \in SUBSET Fans : BeginEvaluation(w, op, users)
         \/ Judge(w) \/ NextUser(w) \/ CommitEvaluation(w) \/ FailEvaluation(w)
    \/ \E u \in Fans : HideComment(u) \/ RestoreComment(u)
    \/ \E b \in BadgeCodes :
         \/ \E demand \in TriedDemands : \E extra \in {{}, {Other(demand)}} :
              CreateBadge(b, demand, extra) \/ UpdateBadge(b, demand, extra)
         \/ PauseBadge(b)

-----------------------------------------------------------------------------
(* Properties.                                                             *)

BadgeTypeOK ==
    /\ tally \in [Metrics -> [Fans -> Nat]]
    /\ concealed \in [Fans -> Nat]
    /\ rule \in [BadgeCodes -> RuleRow]
    /\ \A b \in BadgeCodes : requirement[b] \subseteq Demand
    /\ awards \subseteq Fans \X BadgeCodes
    /\ \A w \in Evaluating : evaluation[w].turn \subseteq evaluation[w].subjects

\* Two resolutions with common users wait for each other's awards only in one
\* direction: users and rules are taken in a fixed order (on_market_resolved,
\* _active_rules), so some open request can always go on.
SomeEvaluationProceeds ==
    Evaluating # {} => \E w \in Evaluating : \A v \in Evaluating : ~WaitsFor(w, v)

\* No two open requests hold an uncommitted award of the same badge to the
\* same user, nor one that is already committed.
AwardedOnce ==
    /\ \A v, w \in Evaluating : v # w => evaluation[v].won \cap evaluation[w].won = {}
    /\ \A w \in Evaluating : evaluation[w].won \cap awards = {}

BadgeInvariant == BadgeTypeOK /\ SomeEvaluationProceeds /\ AwardedOnce

\* The user satisfies the live rule of the badge and all its requirements.
Satisfies(u, b) ==
    /\ rule[b].live
    /\ \A q \in {rule[b].demand} \cup requirement[b] : tally[q.metric][u] >= q.threshold

\* An event, or a reconciliation, that no other change crosses leaves its users
\* with exactly the badges they have earned under the rules it evaluates: none
\* is missed, and none is given for requirements the user does not meet.
BadgesFollowFacts ==
    [][\A w \in BadgeWorkers :
         (CommitEvaluation(w) /\ ~evaluation[w].disturbed)
         => \A u \in evaluation[w].subjects, b \in BadgeCodes :
              /\ rule[b].demand.metric \in RuleTypes[evaluation[w].op] /\ Satisfies(u, b)'
                   => <<u, b>> \in awards'
              /\ <<u, b>> \in awards' \ awards => Satisfies(u, b)']_badgeVars

=============================================================================
