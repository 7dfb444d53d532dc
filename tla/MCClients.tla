----------------------------- MODULE MCClients ------------------------------
(***************************************************************************)
(* What a person has open in a client, side by side: the app's prediction  *)
(* ticket, the browser's session and the console's forms.  They meet only  *)
(* in the API, which each of the modules models as far as it matters to    *)
(* it, so a behaviour works on one of them, its focus.                     *)
(***************************************************************************)
EXTENDS PredictionTicket, WebSession, ConsoleForms, TLC

VARIABLE focus

allVars == <<focus, ticketVars, webVars, formVars>>

AnyStake == CHOOSE s \in Stakes : TRUE

\* The others stay in one of their initial states.
Init ==
    /\ focus \in {"ticket", "web", "forms"}
    /\ TicketInit
    /\ focus = "ticket" \/ (server.option = NoOption /\ ticket.stake = AnyStake)
    /\ WebInit
    /\ FormsInit /\ (focus = "forms" \/ image = [k \in Kinds |-> NoPicture])

TicketSteps ==
    /\ focus = "ticket"
    /\ TicketNext
    /\ UNCHANGED <<focus, webVars, formVars>>

WebSteps ==
    /\ focus = "web"
    /\ WebNext
    /\ UNCHANGED <<focus, ticketVars, formVars>>

FormSteps ==
    /\ focus = "forms"
    /\ FormsNext
    /\ UNCHANGED <<focus, ticketVars, webVars>>

Next == TicketSteps \/ WebSteps \/ FormSteps

Spec == Init /\ [][Next]_allVars

\* What the website shows of its sessions and its saves is what happened.
WebsiteInvariant == IF focus = "web" THEN WebInvariant ELSE FormInvariant

\* Requests, logins, previews and the names of tokens and files are names only.
\* The components share their names, so that one permutation serves them all.
Interchangeable ==
    Permutations(Forms) \cup Permutations(Visits) \cup Permutations(Pictures)

=============================================================================
