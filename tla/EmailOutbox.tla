---------------------------- MODULE EmailOutbox ----------------------------
(***************************************************************************)
(* The e-mail outbox.  Handlers insert rows keyed by an idempotency key;   *)
(* the daemon, and an API worker right after it queued an authentication   *)
(* message, drain them.  A drain is ONE transaction: it locks a batch of   *)
(* due rows with SKIP LOCKED, sends them one after the other, and commits  *)
(* all results together.  Sending is not undone by a rollback, so a batch  *)
(* that dies takes the record of what it sent with it.                     *)
(***************************************************************************)
EXTENDS Integers, FiniteSets, FiniteSetsExt

CONSTANTS
    Emails,             \* idempotency keys
    AuthEmails,         \* messages of IMMEDIATE_AUTH_EMAIL_EVENTS
    DaemonMailer,       \* the daemon's e-mail task
    ApiMailers,         \* API workers that drain authentication messages
    DaemonBatch, ApiBatch,  \* largest batch of each
    MaxEmailAttempts,   \* max_attempts
    MaxLostBatches,     \* bound on batches that die
    MaxMailEdits        \* bound on edits of the settings and the templates

Mailers == {DaemonMailer} \cup ApiMailers

\* A row of gotrendlabs_email_deliveries; "due" is next_attempt_at <= now.
EmailRow ==
    [status : {"absent", "queued", "sent", "failed"},
     attempts : 0..MaxEmailAttempts, due : BOOLEAN]

\* What became of a row of a batch: "unanswered" was accepted by the server,
\* but the exchange ended in one of the exceptions the code expects.
EmailAnswers == {"none", "unconfigured", "sent", "refused", "unanswered"}

EmailBatch == [rows : SUBSET Emails, on : BOOLEAN, answer : [Emails -> EmailAnswers]]

ASSUME EmailAssumption ==
    /\ AuthEmails \subseteq Emails
    /\ DaemonMailer \notin ApiMailers
    /\ {DaemonBatch, ApiBatch, MaxEmailAttempts} \subseteq Nat \ {0}
    /\ {MaxLostBatches, MaxMailEdits} \subseteq Nat

VARIABLES
    mail,           \* the outbox
    batch,          \* the open transaction of each mailer; no rows: none
    mailOn,         \* does _email_settings_error find nothing?
    badTemplate,    \* messages whose template an operator has broken
    accepted,       \* times a mail server took the message (history)
    forgotten,      \* of these, the ones whose batch rolled back (history)
    lostBatches, mailEdits

emailVars ==
    <<mail, batch, mailOn, badTemplate, accepted, forgotten, lostBatches, mailEdits>>

NoBatch == [rows |-> {}, on |-> FALSE, answer |-> [m \in Emails |-> "none"]]
NewMail == [status |-> "queued", attempts |-> 0, due |-> TRUE]

EmailInit ==
    /\ mail = [m \in Emails |-> [status |-> "absent", attempts |-> 0, due |-> FALSE]]
    /\ batch = [w \in Mailers |-> NoBatch]
    /\ mailOn \in BOOLEAN
    /\ badTemplate = {}
    /\ accepted = [m \in Emails |-> 0]
    /\ forgotten = [m \in Emails |-> 0]
    /\ lostBatches = 0
    /\ mailEdits = 0

-----------------------------------------------------------------------------
(* Queuing.                                                                *)

\* ON CONFLICT (idempotency_key) DO NOTHING
Inserted(row) == IF row.status = "absent" THEN NewMail ELSE row

EnqueueEmail(m) ==
    /\ mail' = [mail EXCEPT ![m] = Inserted(@)]
    /\ UNCHANGED <<batch, mailOn, badTemplate, accepted, forgotten, lostBatches, mailEdits>>

\* The back-off of a failed row runs out.
EmailFallsDue(m) ==
    /\ mail[m].status = "failed"
    /\ ~mail[m].due
    /\ mail' = [mail EXCEPT ![m].due = TRUE]
    /\ UNCHANGED <<batch, mailOn, badTemplate, accepted, forgotten, lostBatches, mailEdits>>

\* An operator saves the site configuration or a template: no template's
\* syntax is checked.
SwitchMail ==
    /\ mailEdits < MaxMailEdits
    /\ mailEdits' = mailEdits + 1
    /\ mailOn' = ~mailOn
    /\ UNCHANGED <<mail, batch, badTemplate, accepted, forgotten, lostBatches>>

EditEmailTemplate(m) ==
    /\ mailEdits < MaxMailEdits
    /\ mailEdits' = mailEdits + 1
    /\ badTemplate' = IF m \in badTemplate THEN badTemplate \ {m} ELSE badTemplate \cup {m}
    /\ UNCHANGED <<mail, batch, mailOn, accepted, forgotten, lostBatches>>

-----------------------------------------------------------------------------
(* Draining.                                                               *)

HasAttemptsLeft(m) == mail[m].attempts < MaxEmailAttempts

LockedRows == UNION {batch[w].rows : w \in Mailers}

Drainable(w) ==
    {m \in IF w = DaemonMailer THEN Emails ELSE AuthEmails :
        /\ mail[m].status \in {"queued", "failed"}
        /\ mail[m].due
        /\ HasAttemptsLeft(m)
        /\ m \notin LockedRows}

\* The first rows by next_attempt_at; which they are is left open.
BatchesOf(w) ==
    LET limit == IF w = DaemonMailer THEN DaemonBatch ELSE ApiBatch
        size  == Cardinality(Drainable(w))
    IN  kSubset(IF size < limit THEN size ELSE limit, Drainable(w))

\* The settings are read once, before the batch; an API worker does not even
\* begin without them.
BeginDrain(w) ==
    /\ batch[w] = NoBatch
    /\ w \in ApiMailers => mailOn
    /\ Drainable(w) # {}
    /\ \E rows \in BatchesOf(w) :
         batch' = [batch EXCEPT ![w] = [NoBatch EXCEPT !.rows = rows, !.on = mailOn]]
    /\ UNCHANGED <<mail, mailOn, badTemplate, accepted, forgotten, lostBatches, mailEdits>>

Unanswered(w) == {m \in batch[w].rows : batch[w].answer[m] = "none"}

SendEmail(w, m, answer) ==
    /\ m \in Unanswered(w)
    /\ IF batch[w].on
       THEN m \notin badTemplate /\ answer \in {"sent", "refused", "unanswered"}
       ELSE answer = "unconfigured"
    /\ batch' = [batch EXCEPT ![w].answer[m] = answer]
    /\ accepted' = [accepted EXCEPT ![m] = IF answer \in {"sent", "unanswered"} THEN @ + 1 ELSE @]
    /\ UNCHANGED <<mail, mailOn, badTemplate, forgotten, lostBatches, mailEdits>>

\* What the batch writes on a row.
Recorded(row, answer) ==
    CASE answer = "unconfigured" -> [row EXCEPT !.status = "failed", !.due = FALSE]
      [] answer = "sent" -> [row EXCEPT !.status = "sent", !.attempts = @ + 1]
      [] OTHER -> [row EXCEPT !.status = "failed", !.attempts = @ + 1, !.due = FALSE]

CommitDrain(w) ==
    /\ batch[w].rows # {}
    /\ Unanswered(w) = {}
    /\ mail' = [m \in Emails |->
                  IF m \in batch[w].rows THEN Recorded(mail[m], batch[w].answer[m]) ELSE mail[m]]
    /\ batch' = [batch EXCEPT ![w] = NoBatch]
    /\ UNCHANGED <<mailOn, badTemplate, accepted, forgotten, lostBatches, mailEdits>>

InFlight(w) == {m \in batch[w].rows : batch[w].answer[m] \in {"sent", "unanswered"}}

\* The transaction rolls back: the rows keep what they were before the batch.
RollBackDrain(w) ==
    /\ lostBatches < MaxLostBatches
    /\ lostBatches' = lostBatches + 1
    /\ forgotten' = [m \in Emails |-> IF m \in InFlight(w) THEN forgotten[m] + 1 ELSE forgotten[m]]
    /\ batch' = [batch EXCEPT ![w] = NoBatch]
    /\ UNCHANGED <<mail, mailOn, badTemplate, accepted, mailEdits>>

\* A template that does not parse raises what the loop does not catch.
TemplateEscapes(w) ==
    /\ batch[w].on
    /\ Unanswered(w) \cap badTemplate # {}
    /\ RollBackDrain(w)

MailerDies(w) ==
    /\ batch[w] # NoBatch
    /\ RollBackDrain(w)

-----------------------------------------------------------------------------
EmailNext ==
    \/ \E m \in Emails : EnqueueEmail(m) \/ EmailFallsDue(m) \/ EditEmailTemplate(m)
    \/ SwitchMail
    \/ \E w \in Mailers : BeginDrain(w) \/ CommitDrain(w) \/ TemplateEscapes(w) \/ MailerDies(w)
    \/ \E w \in Mailers, m \in Emails, answer \in EmailAnswers \ {"none"} : SendEmail(w, m, answer)

\* The clock advances, the daemon drains at every cycle, and a drain that began
\* goes on: each send is bounded by a timeout.
EmailFairness ==
    /\ \A m \in Emails : WF_emailVars(EmailFallsDue(m))
    /\ WF_emailVars(BeginDrain(DaemonMailer))
    /\ \A w \in Mailers :
         /\ WF_emailVars(CommitDrain(w))
         /\ WF_emailVars(\E m \in Emails, answer \in EmailAnswers \ {"none"} :
                            SendEmail(w, m, answer))

-----------------------------------------------------------------------------
(* Properties.                                                             *)

\* Rows and batches keep their types; no row is attempted more than
\* max_attempts times.
EmailTypeOK ==
    /\ mail \in [Emails -> EmailRow]
    /\ batch \in [Mailers -> EmailBatch]
    /\ mailOn \in BOOLEAN
    /\ badTemplate \subseteq Emails
    /\ accepted \in [Emails -> Nat]
    /\ forgotten \in [Emails -> 0..MaxLostBatches]

\* A server took a message at most once for each attempt on record, for each
\* batch that died after sending it, and for the batch at work on it: two
\* mailers never send one message for the same attempt
\* (process_due_email_deliveries, FOR UPDATE SKIP LOCKED).
AcceptedIsAccountedFor ==
    \A m \in Emails :
      accepted[m] <= mail[m].attempts + forgotten[m]
                     + (IF \E w \in Mailers : m \in InFlight(w) THEN 1 ELSE 0)

\* A message recorded as sent is never queued or sent again, whatever handler
\* repeats its idempotency key and whichever mailer is late.
SentIsFinal ==
    [][\A m \in Emails : mail[m].status = "sent" =>
          mail'[m] = mail[m] /\ accepted'[m] = accepted[m]]_emailVars

\* While the settings and the templates are in order, every waiting message is
\* sent or uses up its attempts, whatever mailers died before.
InOrder == mailOn /\ badTemplate = {}
Waiting(m) == mail[m].status \in {"queued", "failed"} /\ mail[m].attempts < MaxEmailAttempts

QueuedMailSettles ==
    \A m \in Emails : (Waiting(m) /\ InOrder) ~> (~Waiting(m) \/ ~InOrder)

\* The outbox is sound, and no message is sent that its row, a lost batch or a
\* batch at work does not account for (process_due_email_deliveries).
MailInvariant == EmailTypeOK /\ AcceptedIsAccountedFor

=============================================================================
