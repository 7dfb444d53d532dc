----------------------------- MODULE MCDelivery -----------------------------
(***************************************************************************)
(* The outboxes, the job queues, the community and its agents.  They       *)
(* share no variable, so interleaving them adds nothing to what each can   *)
(* do: a behaviour works on one of them, its focus, and the state space is *)
(* the sum of theirs.                                                      *)
(***************************************************************************)
EXTENDS EmailOutbox, PushDevices, PushDelivery, ThumbnailJobs, Badges, Conversation,
        AgentCycles

\* Limits of the images, and lower ones.
ImageQuotas == {[global |-> 2, item |-> 2], [global |-> 1, item |-> 1]}

\* Limits that leave more room for comments, or for positions; an agent's own
\* limits, or none.
SiteLimits ==
    {[cycle |-> 2, attempts |-> 2, day |-> 3, squareDay |-> 2, square |-> 2,
      stakeCycle |-> 1, stakeDay |-> 1],
     [cycle |-> 1, attempts |-> 1, day |-> 1, squareDay |-> 1, square |-> 1,
      stakeCycle |-> 2, stakeDay |-> 2]}
BotLimits == {[day |-> 0, stakeDay |-> 0, square |-> 0], [day |-> 2, stakeDay |-> 1, square |-> 1]}

VARIABLE focus

allVars == <<focus, emailVars, deviceVars, pushVars, imageVars, badgeVars, talkVars, cycleVars>>

\* Images are made and shown under one quota, or their quota is edited while
\* none is shown.
ImageFoci == {"images", "quotas"}

FirstQuota == [global |-> 2, item |-> 2]

\* The agents are switched and reassigned over two cycles under the same limits,
\* or their limits are edited over three and they stay as they are.
AgentFoci == {"agents", "limits"}

\* Badges are evaluated by three requests while one of them is created, or by
\* two while staff create and edit them.
BadgeFoci == {"badges", "rules"}

Init ==
    /\ focus \in {"email", "devices", "push", "talk"} \cup ImageFoci \cup BadgeFoci
             \cup AgentFoci
    /\ EmailInit /\ (focus = "email" \/ mailOn)
    /\ DeviceInit
    /\ PushInit /\ (focus = "push" \/ pushMode = "fcm")
    /\ ImageInit /\ (focus = "quotas" \/ quota = FirstQuota)
    /\ BadgeInit
    /\ TalkInit
    /\ CycleInit
    /\ limits.day = 3
    /\ \A a \in Agents : (agentLimits[a].day = 0) <=> (a \notin FirstTraders)

EmailSteps ==
    /\ focus = "email"
    /\ EmailNext
    /\ UNCHANGED <<focus, deviceVars, pushVars, imageVars, badgeVars, talkVars, cycleVars>>

DeviceSteps ==
    /\ focus = "devices"
    /\ DeviceNext
    /\ UNCHANGED <<focus, emailVars, pushVars, imageVars, badgeVars, talkVars, cycleVars>>

PushSteps ==
    /\ focus = "push"
    /\ PushNext
    /\ UNCHANGED <<focus, emailVars, deviceVars, imageVars, badgeVars, talkVars, cycleVars>>

ImageSteps ==
    /\ focus \in ImageFoci
    /\ ImageNext
    /\ IF focus = "images" THEN quota' = quota /\ quotaCut' = quotaCut
                          ELSE /\ imagesOn' = imagesOn /\ session' = session
                               /\ public' = public
    /\ UNCHANGED <<focus, emailVars, deviceVars, pushVars, badgeVars, talkVars, cycleVars>>

BadgeSteps ==
    /\ focus \in BadgeFoci
    /\ BadgeNext
    /\ IF focus = "badges" THEN badgeEdits' <= 1 ELSE badgeCalls' <= 2
    /\ UNCHANGED <<focus, emailVars, deviceVars, pushVars, imageVars, talkVars, cycleVars>>

TalkSteps ==
    /\ focus = "talk"
    /\ TalkNext
    /\ UNCHANGED <<focus, emailVars, deviceVars, pushVars, imageVars, badgeVars, cycleVars>>

AgentSteps ==
    /\ focus \in AgentFoci
    /\ CycleNext
    /\ IF focus = "agents"
         THEN /\ cycles' <= 2 /\ limits' = limits /\ agentLimits' = agentLimits
              /\ Cardinality((flags \ flags') \cup (flags' \ flags)) <= 1
         ELSE /\ flags' = flags /\ agentUser' = agentUser /\ agentType' = agentType
              /\ agentOn' = agentOn
    /\ UNCHANGED <<focus, emailVars, deviceVars, pushVars, imageVars, badgeVars, talkVars>>

Next ==
    \/ EmailSteps \/ DeviceSteps \/ PushSteps \/ ImageSteps
    \/ BadgeSteps \/ TalkSteps \/ AgentSteps

Spec == Init /\ [][Next]_allVars

\* What has come to its end stays there: sent mail, final pushes, lost jobs.
NothingReturns == SentIsFinal /\ FinalPushStays /\ LostJobsStayLost

\* A phone rings for the account that uses it, and each alert once: the
\* devices and the deliveries of push messages.
PhoneInvariant == DeviceInvariant /\ PushInvariant

\* What leaves the outboxes: e-mail and push messages.
MessageInvariant == IF focus = "email" THEN MailInvariant ELSE PhoneInvariant

\* What people earn and hear of each other, badges and notifications, and what
\* the official agents do among them, always and at every step.
CommunityInvariant ==
    IF focus \in AgentFoci THEN CycleInvariant ELSE BadgeInvariant /\ TalkInvariant
CommunityIsFair == []CommunityInvariant /\ BadgesFollowFacts

=============================================================================
