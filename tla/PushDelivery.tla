---------------------------- MODULE PushDelivery ----------------------------
(***************************************************************************)
(* Alerts and their push messages.  An alert is a row keyed by its         *)
(* recipient and its source; the insertion also queues a push for the      *)
(* recipient's phone.  Workers claim due pushes in a short transaction,    *)
(* send them with no lock held, and write each result on its own, from the *)
(* copy they made when they claimed the row.  A claim left without a       *)
(* result for PUSH_SENDING_STALE_AFTER is claimed again.                   *)
(*                                                                         *)
(* One recipient with one phone is modelled: pushes to different phones    *)
(* share nothing.                                                          *)
(***************************************************************************)
EXTENDS Integers, FiniteSets, FiniteSetsExt

CONSTANTS
    Alerts,             \* alerts of one recipient, by source_key
    DaemonPusher,       \* the daemon's push task
    TestPushers,        \* operators' test sends
    PushBatch,          \* largest claim
    MaxPushAttempts,    \* max_attempts
    MaxPushCrashes,     \* bound on workers that die
    MaxPushEdits        \* bound on changes of environment and preferences

Pushers == {DaemonPusher} \cup TestPushers

PushModes == {"disabled", "dry_run", "no_secret", "fcm"}
PushOutcomes == {"suppressed", "dry_run", "failed", "invalid_token", "sent", "unanswered"}
Final == {"suppressed", "dry_run", "invalid_token", "sent"}

\* A row of gotrendlabs_push_deliveries; "due" is next_attempt_at <= now,
\* "stale" is last_attempt_at older than fifteen minutes.
PushRow ==
    [status : {"absent", "queued", "sending", "failed"} \cup Final,
     attempts : 0..MaxPushAttempts, due : BOOLEAN, stale : BOOLEAN]

\* The recipient's row of gotrendlabs_push_devices (see PushDevices).
PhoneStates == {"none", "active", "revoked", "invalid"}

\* What a worker copied when it claimed its batch.
PushJob ==
    [rows : SUBSET Alerts, mode : PushModes,
     attempts : [Alerts -> 0..MaxPushAttempts], live : SUBSET Alerts,
     outcome : [Alerts -> PushOutcomes \cup {"none"}]]

ASSUME PushAssumption ==
    /\ DaemonPusher \notin TestPushers
    /\ {PushBatch, MaxPushAttempts} \subseteq Nat \ {0}
    /\ {MaxPushCrashes, MaxPushEdits} \subseteq Nat

VARIABLES
    phone,          \* the recipient's phone
    muted,          \* do the recipient's preferences refuse the push?
    alerted,        \* rows of the alerts table
    push,           \* the deliveries table
    pushJob,        \* workers between their claim and their last result
    pushMode,       \* push_runtime_config
    pushed,         \* times the provider took each push (history)
    late,           \* alerts of which a claim went stale (history)
    pushCrashes, pushEdits

pushVars == <<phone, muted, alerted, push, pushJob, pushMode, pushed, late,
              pushCrashes, pushEdits>>
workVars == <<push, pushJob, pushed, late, pushCrashes>>

AbsentPush == [status |-> "absent", attempts |-> 0, due |-> FALSE, stale |-> FALSE]
NewPush == [AbsentPush EXCEPT !.status = "queued", !.due = TRUE]
NoJob ==
    [rows |-> {}, mode |-> "fcm", attempts |-> [n \in Alerts |-> 0], live |-> {},
     outcome |-> [n \in Alerts |-> "none"]]

PushInit ==
    /\ phone = "none"
    /\ muted = FALSE
    /\ alerted = {}
    /\ push = [n \in Alerts |-> AbsentPush]
    /\ pushJob = [w \in Pushers |-> NoJob]
    /\ pushMode \in PushModes
    /\ pushed = [n \in Alerts |-> 0]
    /\ late = {}
    /\ pushCrashes = 0
    /\ pushEdits = 0

-----------------------------------------------------------------------------
(* The recipient's phone and preferences.                                  *)

\* A phone whose row was revoked is not reactivated by a registration.
RegisterPhone ==
    /\ phone' = IF phone = "revoked" THEN phone ELSE "active"
    /\ UNCHANGED <<muted, alerted, pushMode, pushEdits, workVars>>

RevokePhone ==
    /\ phone # "none"
    /\ phone' = "revoked"
    /\ UNCHANGED <<muted, alerted, pushMode, pushEdits, workVars>>

SetPreference ==
    /\ pushEdits < MaxPushEdits
    /\ pushEdits' = pushEdits + 1
    /\ muted' = ~muted
    /\ UNCHANGED <<phone, alerted, pushMode, workVars>>

\* The services restart with another environment.
SwitchPush(mode) ==
    /\ pushEdits < MaxPushEdits
    /\ pushEdits' = pushEdits + 1
    /\ mode # pushMode
    /\ pushMode' = mode
    /\ UNCHANGED <<phone, muted, alerted, workVars>>

-----------------------------------------------------------------------------
(* Alerts.                                                                 *)

\* ON CONFLICT (recipient, source_key) DO NOTHING RETURNING id
FirstAlert(n) == n \notin alerted

\* enqueue_push_for_notification: a delivery for an active device of a
\* recipient whose preferences allow it.
Pushable == pushMode # "disabled" /\ ~muted /\ phone = "active"

Notify(n) ==
    /\ FirstAlert(n)
    /\ alerted' = alerted \cup {n}
    /\ push' = IF Pushable THEN [push EXCEPT ![n] = NewPush] ELSE push
    /\ UNCHANGED <<phone, muted, pushJob, pushMode, pushed, late, pushCrashes, pushEdits>>

-----------------------------------------------------------------------------
(* Deliveries.                                                             *)

PushFallsDue(n) ==
    /\ push[n].status = "failed"
    /\ ~push[n].due
    /\ push' = [push EXCEPT ![n].due = TRUE]
    /\ UNCHANGED <<phone, muted, alerted, pushJob, pushMode, pushed, late,
                   pushCrashes, pushEdits>>

PushGoesStale(n) ==
    /\ push[n].status = "sending"
    /\ ~push[n].stale
    /\ push' = [push EXCEPT ![n].stale = TRUE]
    /\ late' = late \cup {n}
    /\ UNCHANGED <<phone, muted, alerted, pushJob, pushMode, pushed, pushCrashes, pushEdits>>

Abandoned(n) == push[n].status = "sending" /\ push[n].stale

Claimable ==
    {n \in Alerts :
        /\ (push[n].status \in {"queued", "failed"} /\ push[n].due) \/ Abandoned(n)
        /\ push[n].attempts < MaxPushAttempts}

\* The first rows by next_attempt_at; which they are is left open.
ClaimPushes(w) ==
    /\ pushJob[w].rows = {}
    /\ Claimable # {}
    /\ \E rows \in kSubset(IF Cardinality(Claimable) < PushBatch
                           THEN Cardinality(Claimable) ELSE PushBatch, Claimable) :
         /\ push' = [n \in Alerts |->
                       IF n \in rows
                       THEN [push[n] EXCEPT !.status = "sending", !.stale = FALSE]
                       ELSE push[n]]
         /\ pushJob' = [pushJob EXCEPT ![w] =
              [NoJob EXCEPT !.rows = rows, !.mode = pushMode,
                 !.attempts = [n \in Alerts |-> IF n \in rows THEN push[n].attempts ELSE 0],
                 !.live = IF phone = "active" THEN rows ELSE {}]]
    /\ UNCHANGED <<phone, muted, alerted, pushMode, pushed, late, pushCrashes, pushEdits>>

\* What may become of a claimed push, by the copies made at the claim.
PossibleOutcomes(job, n) ==
    CASE job.mode = "disabled" \/ n \notin job.live -> {"suppressed"}
      [] job.mode = "dry_run" -> {"dry_run"}
      [] job.mode = "no_secret" -> {"failed", "invalid_token"}
      [] OTHER -> {"sent", "failed", "unanswered", "invalid_token"}

\* One push at a time; an invalid token disables the device at once.
SendPush(w, n, outcome) ==
    /\ n \in pushJob[w].rows
    /\ \A k \in pushJob[w].rows : pushJob[w].outcome[k] = "none"
    /\ outcome \in PossibleOutcomes(pushJob[w], n)
    /\ pushJob' = [pushJob EXCEPT ![w].outcome[n] = outcome]
    /\ pushed' = [pushed EXCEPT ![n] = IF outcome \in {"sent", "unanswered"} THEN @ + 1 ELSE @]
    /\ phone' = IF outcome = "invalid_token" /\ phone = "active" THEN "invalid" ELSE phone
    /\ UNCHANGED <<muted, alerted, push, pushMode, late,
                   pushCrashes, pushEdits>>

\* _mark_delivery saves the whole row from the copy of the claim.
MarkPush(w, n) ==
    LET job == pushJob[w]
        result == job.outcome[n]
    IN  /\ n \in job.rows
        /\ result # "none"
        /\ push' = [push EXCEPT ![n] =
                      [status |-> IF result = "unanswered" THEN "failed" ELSE result,
                       attempts |-> job.attempts[n] + 1, due |-> FALSE, stale |-> FALSE]]
        /\ pushJob' = [pushJob EXCEPT ![w] =
                         IF job.rows = {n} THEN NoJob
                         ELSE [job EXCEPT !.rows = @ \ {n}, !.live = @ \ {n},
                                          !.outcome[n] = "none", !.attempts[n] = 0]]
        /\ UNCHANGED <<phone, muted, alerted, pushMode, pushed, late, pushCrashes, pushEdits>>

PusherDies(w) ==
    /\ pushCrashes < MaxPushCrashes
    /\ pushCrashes' = pushCrashes + 1
    /\ pushJob[w].rows # {}
    /\ pushJob' = [pushJob EXCEPT ![w] = NoJob]
    /\ UNCHANGED <<phone, muted, alerted, push, pushMode, pushed, late, pushEdits>>

-----------------------------------------------------------------------------
PushNext ==
    \/ RegisterPhone \/ RevokePhone \/ SetPreference
    \/ \E mode \in PushModes : SwitchPush(mode)
    \/ \E n \in Alerts : Notify(n) \/ PushFallsDue(n) \/ PushGoesStale(n)
    \/ \E w \in Pushers : ClaimPushes(w) \/ PusherDies(w)
    \/ \E w \in Pushers, n \in Alerts : MarkPush(w, n)
    \/ \E w \in Pushers, n \in Alerts, outcome \in PushOutcomes : SendPush(w, n, outcome)

\* The clock advances, the daemon claims at every cycle, and a worker that is
\* alive goes on.
PushFairness ==
    /\ \A n \in Alerts : WF_pushVars(PushFallsDue(n)) /\ WF_pushVars(PushGoesStale(n))
    /\ WF_pushVars(ClaimPushes(DaemonPusher))
    /\ \A w \in Pushers :
         /\ WF_pushVars(\E n \in Alerts : MarkPush(w, n))
         /\ WF_pushVars(\E n \in Alerts, outcome \in PushOutcomes : SendPush(w, n, outcome))

-----------------------------------------------------------------------------
(* Properties.                                                             *)

\* Tables and jobs keep their types; a push has its alert and a
\* registered phone.
PushTypeOK ==
    /\ phone \in PhoneStates
    /\ muted \in BOOLEAN
    /\ alerted \subseteq Alerts
    /\ push \in [Alerts -> PushRow]
    /\ \A n \in Alerts : push[n].status # "absent" => n \in alerted /\ phone # "none"
    /\ pushJob \in [Pushers -> PushJob]
    /\ pushMode \in PushModes
    /\ pushed \in [Alerts -> Nat]
    /\ late \subseteq Alerts

\* While every claim gets its result within fifteen minutes, the provider takes
\* a push at most once for each attempt on record, plus the one at work
\* (_claim_due_push_deliveries): overlapping workers do not repeat it.
PushedOncePerAttempt ==
    \A n \in Alerts \ late :
      pushed[n] <= push[n].attempts + (IF push[n].status = "sending" THEN 1 ELSE 0)

\* While every claim gets its result in time, a push with a final result is
\* never sent or queued again, however often its event is reported.
FinalPushStays ==
    [][\A n \in Alerts \ late' :
         push[n].status \in Final => push'[n] = push[n] /\ pushed'[n] = pushed[n]]_pushVars

\* Every queued push reaches a final result or uses up its attempts, whatever
\* workers died or were slow.
QueuedPushSettles ==
    \A n \in Alerts :
      push[n].status = "queued" ~>
        (push[n].status \in Final \/ push[n].attempts = MaxPushAttempts)

\* The queue of pushes is sound, and overlapping workers do not repeat one
\* (_claim_due_push_deliveries, _mark_delivery).
PushInvariant == PushTypeOK /\ PushedOncePerAttempt

=============================================================================
