----------------------------- MODULE MCAccounts -----------------------------
(***************************************************************************)
(* How accounts come to exist, how they are signed in to, and the phone    *)
(* that is signed in, side by side: a behaviour works on one of the three, *)
(* its focus, so that the state space is the sum of theirs.  What the      *)
(* first two share, the row of a user, is settled within one transaction   *)
(* of either; the phone sees of the server only whether a session lives.   *)
(***************************************************************************)
EXTENDS AccountSecurity, Onboarding, MobileSession, TLC

VARIABLE focus

allVars == <<focus, securityVars, onboardingVars, sessionVars>>

FirstAddress == CHOOSE a \in Addresses : TRUE

\* The other two stay in one of their initial states.
Init ==
    /\ focus \in {"security", "onboarding", "phone"}
    /\ SecurityInit
    /\ OnboardingInit
    /\ PhoneInit /\ (focus = "phone" \/ stored = NoToken)
    /\ focus # "onboarding" => ~mustConfirm /\ \A p \in Seeded : member[p].email = FirstAddress

SecuritySteps ==
    /\ focus = "security"
    /\ SecurityNext
    /\ UNCHANGED <<focus, onboardingVars, sessionVars>>

OnboardingSteps ==
    /\ focus = "onboarding"
    /\ OnboardingNext
    /\ UNCHANGED <<focus, securityVars, sessionVars>>

PhoneSteps ==
    /\ focus = "phone"
    /\ PhoneNext
    /\ UNCHANGED <<focus, securityVars, onboardingVars>>

Next == SecuritySteps \/ OnboardingSteps \/ PhoneSteps

Spec == Init /\ [][Next]_allVars

\* What an account's sessions say of it, at the API and on a phone.
SessionInvariant == IF focus = "phone" THEN ScreenInvariant ELSE SecurityInvariant

\* Sessions, requests and logins are names only, which the phone shares.
Interchangeable == Permutations(SessionSlots) \cup Permutations(Requests)

=============================================================================
