----------------------------- MODULE MCLiveness -----------------------------
(***************************************************************************)
(* What must happen in the end: markets close and seal, mail, pushes and   *)
(* images settle, requests are answered.  A behaviour works on one of the  *)
(* five, its focus; the others stay in an initial state.  Where that is    *)
(* one in which a fair action waits to be taken, fairness is asked of the  *)
(* focus only.                                                             *)
(***************************************************************************)
EXTENDS MarketSettlement, EmailOutbox, PushDelivery, ThumbnailJobs, Admission

ImageQuotas == {[global |-> 2, item |-> 2]}

VARIABLE focus

liveVars == <<focus, vars, emailVars, pushVars, imageVars, flowVars>>

LiveInit ==
    /\ focus \in {"markets", "email", "push", "images", "requests"}
    /\ Init /\ (focus = "markets" \/ \A m \in Markets : mstatus[m] = "draft")
    /\ EmailInit /\ (focus = "email" \/ mailOn)
    /\ PushInit /\ (focus = "push" \/ pushMode = "fcm")
    /\ ImageInit
    /\ AdmissionInit(IF focus = "requests" THEN Callers ELSE {})

MarketSteps ==
    /\ focus = "markets"
    /\ Next
    /\ UNCHANGED <<focus, emailVars, pushVars, imageVars, flowVars>>

EmailSteps ==
    /\ focus = "email"
    /\ EmailNext
    /\ UNCHANGED <<focus, vars, pushVars, imageVars, flowVars>>

PushSteps ==
    /\ focus = "push"
    /\ PushNext
    /\ UNCHANGED <<focus, vars, emailVars, imageVars, flowVars>>

ImageSteps ==
    /\ focus = "images"
    /\ ImageNext
    /\ UNCHANGED <<focus, vars, emailVars, pushVars, flowVars>>

RequestSteps ==
    /\ focus = "requests"
    /\ AdmissionNext
    /\ UNCHANGED <<focus, vars, emailVars, pushVars, imageVars>>

LiveNext == MarketSteps \/ EmailSteps \/ PushSteps \/ ImageSteps \/ RequestSteps

LiveSpec ==
    /\ LiveInit /\ [][LiveNext]_liveVars
    /\ focus # "markets" \/ Fairness
    /\ EmailFairness /\ PushFairness /\ ImageFairness /\ AdmissionFairness

\* A market that is due stops being open, and a result is sealed unless it is
\* undone, as long as the daemon runs (close_due_auto_markets,
\* seal_due_markets).
MarketsReachTheirEnd == DueMarketsClose /\ ResultsAreSealed

\* Mail, pushes and image jobs settle, whatever workers die on them, and every
\* request is answered though its middlewares stop the event loop.
QueuesDrain == QueuedMailSettles /\ QueuedPushSettles /\ RequestsEnd /\ EveryoneIsTold

=============================================================================
