---------------------------- MODULE MCEditorial ----------------------------
(***************************************************************************)
(* An agent's authority, the drafts it and the operators work on, the      *)
(* catalogue, the confirmation of results, the settings of the platform    *)
(* with the gates that obey them, and the way of a request through the     *)
(* gates that bound how many there are, side by side.  They share no       *)
(* variable, and the rows they have in common are locked by each handler   *)
(* for the whole of its transaction, so a behaviour works on one of them,  *)
(* its focus, and the state space is the sum of theirs.                    *)
(***************************************************************************)
EXTENDS AgentAccess, MarketDrafts, Catalogue, Confirmations, SiteSettings, Admission

CONSTANTS w1, w2, w3, p1, p2, h1, h2    \* the callers

VARIABLE focus

allVars == <<focus, agentVars, draftVars, catalogueVars, confirmationVars, settingVars, flowVars>>

\* An agent's behaviours have all the exchanges in flight and one call under
\* one limit, or all the calls, one exchange and a limit that is edited.
AgentFoci == {"exchanges", "calls"}

\* Settings are saved by several editors while no telephone calls, or by one
\* while they do.
SettingFoci == {"settings", "gates"}

\* A market is edited, judged and republished at length, or two of them pass a
\* slug on to each other.
DraftFoci == {"drafts", "slugs"}

\* Enough callers for a queue at each gate, but never all of them.
Parties == {{w1, w2, w3}, {w1, p1, p2}, {p1, h1, h2}, {w1, p1, h1}}

FirstLimit == CHOOSE n \in CallLimits : TRUE
FirstEntry == CHOOSE e \in Entries : TRUE
FirstLabel == CHOOSE n \in Labels : TRUE

\* The others stay in one of their initial states.
Init ==
    /\ focus \in AgentFoci \cup DraftFoci \cup SettingFoci
             \cup {"requests", "catalogue", "confirmations"}
    /\ AgentInit
    /\ focus # "calls" => integration.concurrent = FirstLimit
    /\ DraftInit
    /\ CatalogueInit
    /\ focus # "catalogue" =>
         \A e \in Filed : e = FirstEntry /\ entry[e].name = FirstLabel
    /\ ConfirmationInit
    /\ SettingsInit
    /\ IF focus = "requests" THEN \E coming \in Parties : AdmissionInit(coming)
                              ELSE AdmissionInit({})

FirstCall == CHOOSE c \in Calls : TRUE
FirstExchange == CHOOSE x \in Exchanges : TRUE

AgentSteps ==
    /\ focus \in AgentFoci
    /\ AgentNext
    /\ focus = "exchanges" => /\ \A c \in Calls : c = FirstCall \/ call'[c] = call[c]
                              /\ integration'.concurrent = FirstLimit
    /\ focus = "calls" => \A x \in Exchanges : x = FirstExchange \/ exchange'[x] = exchange[x]
    /\ UNCHANGED <<focus, draftVars, catalogueVars, confirmationVars, settingVars, flowVars>>

DraftSteps ==
    /\ focus \in DraftFoci
    /\ DraftNext
    /\ IF focus = "drafts" THEN created' <= 1 ELSE draftEdits' <= 2
    /\ UNCHANGED <<focus, agentVars, catalogueVars, confirmationVars, settingVars, flowVars>>

CatalogueSteps ==
    /\ focus = "catalogue"
    /\ CatalogueNext
    /\ UNCHANGED <<focus, agentVars, draftVars, confirmationVars, settingVars, flowVars>>

ConfirmationSteps ==
    /\ focus = "confirmations"
    /\ ConfirmationNext
    /\ UNCHANGED <<focus, agentVars, draftVars, catalogueVars, settingVars, flowVars>>

FirstChief == CHOOSE e \in Chiefs : TRUE

SettingSteps ==
    /\ focus \in SettingFoci
    /\ SettingsNext
    /\ focus = "settings" => phone' = phone
    /\ focus = "gates" => /\ \A e \in Editors : e = FirstChief \/ posting'[e] = posting[e]
                          /\ settingEdits' <= 2
    /\ UNCHANGED <<focus, agentVars, draftVars, catalogueVars, confirmationVars, flowVars>>

RequestSteps ==
    /\ focus = "requests"
    /\ AdmissionNext
    /\ UNCHANGED <<focus, agentVars, draftVars, catalogueVars, confirmationVars, settingVars>>

Next == AgentSteps \/ DraftSteps \/ CatalogueSteps \/ ConfirmationSteps \/ SettingSteps
        \/ RequestSteps

Spec == Init /\ [][Next]_allVars

\* What the operators keep: drafts and the catalogue.
ContentInvariant == IF focus \in DraftFoci THEN DraftInvariant ELSE CatalogueInvariant

\* Settings and gates.
GateInvariant == IF focus = "requests" THEN AdmissionInvariant ELSE SettingsInvariant

\* What is revoked, signed or sealed stays so.
NothingIsRewritten == RevokedForGood /\ ScheduleHistoryGrows /\ SealedResultsStay

=============================================================================
