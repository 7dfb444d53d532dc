--------------------------- MODULE DeliveryProofs ---------------------------
(***************************************************************************)
(* What the outboxes, the devices, the image jobs, the badges, the         *)
(* conversation and the official agents are checked for on a few rows and  *)
(* workers, for any number of them.  The components share no variable, so  *)
(* each has an inductive invariant of its own.                             *)
(***************************************************************************)
EXTENDS MCDelivery, SetSumsProofs, FiniteSetTheorems, TLAPS

-----------------------------------------------------------------------------
(* The e-mail outbox.                                                      *)

Held(m) == \E w \in Mailers : m \in InFlight(w)

\* A batch holds waiting rows that no other batch holds, and a message is sent
\* more often than its attempts on record only by batches that died.
MailInv ==
    /\ EmailTypeOK
    /\ lostBatches \in 0..MaxLostBatches
    /\ \A m \in Emails : forgotten[m] <= lostBatches
    /\ \A w \in Mailers : \A m \in batch[w].rows :
         mail[m].status \in {"queued", "failed"} /\ mail[m].attempts < MaxEmailAttempts
    /\ \A w, v \in Mailers : w # v => batch[w].rows \cap batch[v].rows = {}
    /\ \A m \in Emails : mail[m].status = "absent" => mail[m].attempts = 0
    /\ \A m \in Emails :
         /\ accepted[m] <= mail[m].attempts + forgotten[m] + 1
         /\ ~Held(m) => accepted[m] <= mail[m].attempts + forgotten[m]

LEMMA MailInvImplies == MailInv => MailInvariant
<1> SUFFICES ASSUME MailInv, NEW m \in Emails
             PROVE  accepted[m] <= mail[m].attempts + forgotten[m]
                                   + (IF \E w \in Mailers : m \in InFlight(w) THEN 1 ELSE 0)
  BY DEF MailInv, MailInvariant, AcceptedIsAccountedFor
<1>1. accepted[m] \in Nat /\ mail[m].attempts \in Nat /\ forgotten[m] \in Nat
  BY EmailAssumption DEF MailInv, EmailTypeOK, EmailRow, EmailAssumption
<1>2. CASE Held(m)
  <2>1. accepted[m] <= mail[m].attempts + forgotten[m] + 1
    BY DEF MailInv
  <2> QED BY <1>1, <1>2, <2>1 DEF Held
<1>3. CASE ~Held(m)
  <2>1. accepted[m] <= mail[m].attempts + forgotten[m]
    BY <1>3 DEF MailInv
  <2> QED BY <1>1, <1>3, <2>1 DEF Held
<1> QED BY <1>2, <1>3

LEMMA NoBatchFacts ==
  NoBatch \in EmailBatch /\ NoBatch.rows = {} /\ \A m \in Emails : NoBatch.answer[m] = "none"
BY DEF NoBatch, EmailBatch, EmailAnswers

LEMMA EmailConstants ==
  /\ MaxEmailAttempts \in Nat /\ MaxEmailAttempts > 0 /\ MaxLostBatches \in Nat
  /\ AuthEmails \subseteq Emails
BY EmailAssumption DEF EmailAssumption

LEMMA MailStart == EmailInit => MailInv
<1> SUFFICES ASSUME EmailInit PROVE MailInv
  OBVIOUS
<1>1. EmailTypeOK
  BY NoBatchFacts, EmailConstants DEF EmailInit, EmailTypeOK, EmailRow
<1>2. \A w \in Mailers : batch[w].rows = {}
  BY NoBatchFacts DEF EmailInit
<1>3. \A m \in Emails : accepted[m] = 0 /\ forgotten[m] = 0 /\ mail[m].attempts = 0
  BY DEF EmailInit
<1>4. lostBatches = 0
  BY DEF EmailInit
<1> QED BY <1>1, <1>2, <1>3, <1>4, EmailConstants DEF MailInv

\* What the types say of one row and one batch.
LEMMA MailTypes ==
  ASSUME MailInv
  PROVE  /\ \A m \in Emails :
              /\ mail[m] \in EmailRow /\ mail[m].attempts \in Nat
              /\ accepted[m] \in Nat /\ forgotten[m] \in Nat /\ forgotten[m] <= lostBatches
         /\ \A w \in Mailers :
              batch[w] \in EmailBatch /\ batch[w].rows \subseteq Emails
         /\ lostBatches \in Nat
BY EmailConstants DEF MailInv, EmailTypeOK, EmailRow, EmailBatch

\* Rows change while no batch does: attempts and the waiting state of what a
\* batch holds must stay.
LEMMA RowsChange ==
  ASSUME MailInv, UNCHANGED <<batch, accepted, forgotten, lostBatches>>,
         mailOn' \in BOOLEAN, badTemplate' \subseteq Emails,
         mail' \in [Emails -> EmailRow],
         \A m \in Emails :
           /\ mail'[m].attempts = mail[m].attempts
           /\ mail[m].status \in {"queued", "failed"} =>
                mail'[m].status \in {"queued", "failed"}
           /\ mail'[m].status = "absent" => mail[m].status = "absent"
  PROVE  MailInv'
<1>1. EmailTypeOK'
  BY DEF MailInv, EmailTypeOK
<1>2. \A m : Held(m)' <=> Held(m)
  BY DEF Held, InFlight
<1>3. \A w \in Mailers : batch[w].rows \subseteq Emails
  BY MailTypes
<1> QED BY <1>1, <1>2, <1>3 DEF MailInv

LEMMA QueueSteps ==
  ASSUME MailInv
  PROVE  /\ \A m \in Emails :
              EnqueueEmail(m) \/ EmailFallsDue(m) \/ EditEmailTemplate(m) => MailInv'
         /\ SwitchMail => MailInv'
<1>1. /\ mail \in [Emails -> EmailRow] /\ mailOn \in BOOLEAN /\ badTemplate \subseteq Emails
      /\ \A m \in Emails : mail[m].status = "absent" => mail[m].attempts = 0
  BY DEF MailInv, EmailTypeOK
<1>2. ASSUME NEW m \in Emails, EnqueueEmail(m) PROVE MailInv'
  <2>1. PICK row : row = Inserted(mail[m])
    OBVIOUS
  <2>2. /\ row \in EmailRow /\ row.attempts = mail[m].attempts
        /\ mail[m].status \in {"queued", "failed"} => row.status \in {"queued", "failed"}
        /\ row.status # "absent"
    BY <1>1, <2>1, EmailConstants DEF Inserted, NewMail, EmailRow
  <2>3. mail' = [mail EXCEPT ![m] = row]
    BY <1>2, <2>1 DEF EnqueueEmail
  <2>4. /\ mail' \in [Emails -> EmailRow] /\ mail'[m] = row
        /\ \A k \in Emails \ {m} : mail'[k] = mail[k]
    BY <1>1, <2>2, <2>3
  <2> QED BY <1>1, <1>2, <2>2, <2>4, RowsChange DEF EnqueueEmail
<1>3. ASSUME NEW m \in Emails, EmailFallsDue(m) PROVE MailInv'
  <2>1. /\ mail' \in [Emails -> EmailRow]
        /\ mail'[m].attempts = mail[m].attempts /\ mail'[m].status = mail[m].status
        /\ \A k \in Emails \ {m} : mail'[k] = mail[k]
    BY <1>1, <1>3 DEF EmailFallsDue, EmailRow
  <2> QED BY <1>1, <1>3, <2>1, RowsChange DEF EmailFallsDue
<1>4. ASSUME NEW m \in Emails, EditEmailTemplate(m) PROVE MailInv'
  BY <1>1, <1>4, RowsChange DEF EditEmailTemplate
<1>5. ASSUME SwitchMail PROVE MailInv'
  BY <1>1, <1>5, RowsChange DEF SwitchMail
<1> QED BY <1>2, <1>3, <1>4, <1>5

\* A drain begins: its rows are waiting, and no other batch holds them.
LEMMA DrainBegins ==
  ASSUME MailInv, NEW w \in Mailers, BeginDrain(w)
  PROVE  MailInv'
<1>1. PICK rows \in BatchesOf(w) :
        batch' = [batch EXCEPT ![w] = [NoBatch EXCEPT !.rows = rows, !.on = mailOn]]
  BY DEF BeginDrain
<1>2. rows \subseteq Drainable(w)
  BY DEF BatchesOf, kSubset
<1>3. \A m \in rows : /\ m \in Emails /\ mail[m].status \in {"queued", "failed"}
                      /\ mail[m].attempts < MaxEmailAttempts
                      /\ \A v \in Mailers : m \notin batch[v].rows
  BY <1>2, EmailConstants DEF Drainable, HasAttemptsLeft, LockedRows
<1> DEFINE new == [NoBatch EXCEPT !.rows = rows, !.on = mailOn]
<1>4. /\ new \in EmailBatch /\ new.rows = rows
      /\ \A m \in Emails : new.answer[m] = "none"
  BY <1>3 DEF NoBatch, EmailBatch, EmailAnswers, MailInv, EmailTypeOK
<1>5. batch' = [batch EXCEPT ![w] = new]
  BY <1>1
<1> HIDE DEF new
<1>6. /\ batch' \in [Mailers -> EmailBatch]
      /\ batch'[w] = new /\ \A v \in Mailers \ {w} : batch'[v] = batch[v]
  BY <1>4, <1>5 DEF MailInv, EmailTypeOK
<1>7. UNCHANGED <<mail, mailOn, badTemplate, accepted, forgotten, lostBatches>>
  BY DEF BeginDrain
<1>8. EmailTypeOK'
  BY <1>6, <1>7 DEF MailInv, EmailTypeOK
<1>9. \A m \in Emails : Held(m)' <=> Held(m)
  <2> SUFFICES ASSUME NEW m \in Emails PROVE Held(m)' <=> Held(m)
    OBVIOUS
  <2>1. batch[w].rows = {}
    BY NoBatchFacts DEF BeginDrain
  <2>2. m \notin InFlight(w) /\ m \notin InFlight(w)'
    BY <1>4, <1>6, <2>1 DEF InFlight
  <2>3. \A v \in Mailers \ {w} : m \in InFlight(v)' <=> m \in InFlight(v)
    BY <1>6 DEF InFlight
  <2> QED BY <2>2, <2>3 DEF Held
<1> QED BY <1>3, <1>4, <1>6, <1>7, <1>8, <1>9 DEF MailInv

\* One message is handed to the server.
LEMMA MessageGoes ==
  ASSUME MailInv, NEW w \in Mailers, NEW m \in Emails, NEW answer \in EmailAnswers,
         SendEmail(w, m, answer)
  PROVE  MailInv'
<1>1. m \in batch[w].rows /\ batch[w].answer[m] = "none"
  BY DEF SendEmail, Unanswered
<1>2. /\ batch' = [batch EXCEPT ![w].answer[m] = answer]
      /\ UNCHANGED <<mail, mailOn, badTemplate, forgotten, lostBatches>>
  BY DEF SendEmail
<1>3. /\ batch' \in [Mailers -> EmailBatch]
      /\ \A v \in Mailers : batch'[v].rows = batch[v].rows
      /\ \A v \in Mailers, k \in Emails :
           batch'[v].answer[k] = IF v = w /\ k = m THEN answer ELSE batch[v].answer[k]
  <2>1. batch \in [Mailers -> EmailBatch]
    BY DEF MailInv, EmailTypeOK
  <2> QED BY <1>2, <2>1 DEF EmailBatch
<1>4. PICK once \in {0, 1} : once = IF answer \in {"sent", "unanswered"} THEN 1 ELSE 0
  OBVIOUS
<1>5. accepted \in [Emails -> Nat] /\ accepted' = [accepted EXCEPT ![m] = accepted[m] + once]
  <2>1. accepted \in [Emails -> Nat]
    BY DEF MailInv, EmailTypeOK
  <2>2. CASE answer \in {"sent", "unanswered"}
    BY <1>4, <2>1, <2>2 DEF SendEmail
  <2>3. CASE answer \notin {"sent", "unanswered"}
    <3>1. accepted' = [accepted EXCEPT ![m] = accepted[m]]
      BY <2>3 DEF SendEmail
    <3>2. accepted[m] + once = accepted[m]
      BY <1>4, <2>1, <2>3
    <3> QED BY <2>1, <3>1, <3>2
  <2> QED BY <2>1, <2>2, <2>3
<1>6. EmailTypeOK'
  BY <1>2, <1>3, <1>5 DEF MailInv, EmailTypeOK
<1>7. ~Held(m) /\ (once = 1 => Held(m)')
  <2>1. \A v \in Mailers \ {w} : m \notin batch[v].rows
    BY <1>1 DEF MailInv
  <2>2. ~Held(m)
    BY <1>1, <2>1 DEF Held, InFlight
  <2>3. once = 1 => m \in InFlight(w)'
    BY <1>1, <1>3, <1>4 DEF InFlight
  <2> QED BY <2>2, <2>3 DEF Held
<1>8. \A k \in Emails \ {m} : Held(k)' <=> Held(k)
  BY <1>3 DEF Held, InFlight
<1>9. \A k \in Emails :
        /\ accepted'[k] <= mail[k].attempts + forgotten[k] + 1
        /\ ~Held(k)' => accepted'[k] <= mail[k].attempts + forgotten[k]
  <2> SUFFICES ASSUME NEW k \in Emails
               PROVE  /\ accepted'[k] <= mail[k].attempts + forgotten[k] + 1
                      /\ ~Held(k)' => accepted'[k] <= mail[k].attempts + forgotten[k]
    OBVIOUS
  <2>1. /\ accepted[k] <= mail[k].attempts + forgotten[k] + 1
        /\ ~Held(k) => accepted[k] <= mail[k].attempts + forgotten[k]
    BY DEF MailInv
  <2>2. CASE k = m
    <3>1. accepted'[k] = accepted[m] + once
      BY <1>5, <2>2
    <3>2. accepted[m] <= mail[m].attempts + forgotten[m]
      BY <1>7, <2>1, <2>2
    <3>3. accepted[m] \in Nat /\ mail[m].attempts \in Nat /\ forgotten[m] \in Nat
      BY MailTypes
    <3>4. accepted'[k] <= mail[m].attempts + forgotten[m] + 1
      BY <3>1, <3>2, <3>3
    <3>5. once = 0 => accepted'[k] <= mail[m].attempts + forgotten[m]
      BY <3>1, <3>2, <3>3
    <3> QED BY <1>4, <1>7, <2>2, <3>4, <3>5
  <2>3. CASE k # m
    <3>1. accepted'[k] = accepted[k]
      BY <1>5, <2>3
    <3> QED BY <1>8, <2>1, <2>3, <3>1
  <2> QED BY <2>2, <2>3
<1> QED BY <1>2, <1>3, <1>6, <1>9 DEF MailInv

\* A batch leaves: its rows are those of no other batch.
LEMMA BatchLeaves ==
  ASSUME MailInv, NEW w \in Mailers, batch' = [batch EXCEPT ![w] = NoBatch]
  PROVE  /\ batch' \in [Mailers -> EmailBatch]
         /\ batch'[w] = NoBatch /\ \A v \in Mailers \ {w} : batch'[v] = batch[v]
         /\ \A v \in Mailers : batch'[v].rows \subseteq batch[v].rows
         /\ \A v \in Mailers : batch'[v].rows \cap batch[w].rows = {}
         /\ \A m \in Emails : Held(m)' <=> Held(m) /\ m \notin InFlight(w)
<1>1. /\ batch' \in [Mailers -> EmailBatch]
      /\ batch'[w] = NoBatch /\ \A v \in Mailers \ {w} : batch'[v] = batch[v]
  BY NoBatchFacts DEF MailInv, EmailTypeOK
<1>2. \A v \in Mailers : batch'[v].rows \subseteq batch[v].rows
  BY <1>1, NoBatchFacts
<1>3. \A v \in Mailers : batch'[v].rows \cap batch[w].rows = {}
  BY <1>1, NoBatchFacts DEF MailInv
<1>4. \A m \in Emails : Held(m)' <=> Held(m) /\ m \notin InFlight(w)
  <2> SUFFICES ASSUME NEW m \in Emails PROVE Held(m)' <=> Held(m) /\ m \notin InFlight(w)
    OBVIOUS
  <2>1. m \notin InFlight(w)'
    BY <1>1, NoBatchFacts DEF InFlight
  <2>2. \A v \in Mailers \ {w} : m \in InFlight(v)' <=> m \in InFlight(v)
    BY <1>1 DEF InFlight
  <2>3. m \in InFlight(w) => \A v \in Mailers \ {w} : m \notin InFlight(v)
    BY DEF MailInv, InFlight
  <2> QED BY <2>1, <2>2, <2>3 DEF Held
<1> QED BY <1>1, <1>2, <1>3, <1>4

LEMMA RecordedRow ==
  ASSUME NEW row \in EmailRow, row.attempts < MaxEmailAttempts, NEW answer \in EmailAnswers
  PROVE  /\ Recorded(row, answer) \in EmailRow
         /\ Recorded(row, answer).status # "absent"
         /\ Recorded(row, answer).attempts \in {row.attempts, row.attempts + 1}
         /\ answer \in {"sent", "unanswered"} => Recorded(row, answer).attempts = row.attempts + 1
<1>1. row.attempts \in Nat /\ row.attempts + 1 \in 0..MaxEmailAttempts
  BY EmailConstants DEF EmailRow
<1>2. PICK n \in 0..MaxEmailAttempts : n = row.attempts + 1
  BY <1>1
<1>3. Recorded(row, answer) =
        IF answer = "unconfigured" THEN [row EXCEPT !.status = "failed", !.due = FALSE]
        ELSE IF answer = "sent" THEN [row EXCEPT !.status = "sent", !.attempts = n]
        ELSE [row EXCEPT !.status = "failed", !.attempts = n, !.due = FALSE]
  BY <1>2 DEF Recorded
<1>4. CASE answer = "unconfigured"
  BY <1>3, <1>4 DEF EmailRow
<1>5. CASE answer = "sent"
  BY <1>2, <1>3, <1>5 DEF EmailRow
<1>6. CASE answer \notin {"unconfigured", "sent"}
  BY <1>2, <1>3, <1>6 DEF EmailRow
<1> QED BY <1>4, <1>5, <1>6

\* The batch writes its results.
LEMMA DrainCommits ==
  ASSUME MailInv, NEW w \in Mailers, CommitDrain(w)
  PROVE  MailInv'
<1>1. /\ batch' = [batch EXCEPT ![w] = NoBatch]
      /\ UNCHANGED <<mailOn, badTemplate, accepted, forgotten, lostBatches>>
  BY DEF CommitDrain
<1>2. ASSUME NEW m \in Emails
      PROVE  /\ mail'[m] \in EmailRow /\ mail'[m].attempts \in {mail[m].attempts, mail[m].attempts + 1}
             /\ m \in InFlight(w) => mail'[m].attempts = mail[m].attempts + 1
             /\ m \notin batch[w].rows => mail'[m] = mail[m]
             /\ m \in batch[w].rows => mail'[m].status # "absent"
  <2>1. CASE m \in batch[w].rows
    <3>1. mail'[m] = Recorded(mail[m], batch[w].answer[m])
      BY <2>1 DEF CommitDrain
    <3>2. mail[m] \in EmailRow /\ mail[m].attempts < MaxEmailAttempts
      BY <2>1 DEF MailInv, EmailTypeOK
    <3>3. batch[w].answer[m] \in EmailAnswers
      BY MailTypes DEF EmailBatch
    <3> QED BY <2>1, <3>1, <3>2, <3>3, RecordedRow DEF InFlight
  <2>2. CASE m \notin batch[w].rows
    BY <2>2, MailTypes DEF CommitDrain, InFlight
  <2> QED BY <2>1, <2>2
<1>3. mail' \in [Emails -> EmailRow]
  BY <1>2 DEF CommitDrain
<1>4. EmailTypeOK'
  BY <1>1, <1>3, BatchLeaves DEF MailInv, EmailTypeOK
<1>5. \A v \in Mailers : \A m \in batch'[v].rows : m \in Emails /\ m \in batch[v].rows /\ mail'[m] = mail[m]
  BY <1>1, <1>2, BatchLeaves, MailTypes
<1>6. \A m \in Emails : mail'[m].status = "absent" => mail'[m].attempts = 0
  BY <1>2 DEF MailInv
<1>7. \A m \in Emails :
        /\ accepted[m] <= mail'[m].attempts + forgotten[m] + 1
        /\ ~Held(m)' => accepted[m] <= mail'[m].attempts + forgotten[m]
  <2> SUFFICES ASSUME NEW m \in Emails
               PROVE  /\ accepted[m] <= mail'[m].attempts + forgotten[m] + 1
                      /\ ~Held(m)' => accepted[m] <= mail'[m].attempts + forgotten[m]
    OBVIOUS
  <2>1. accepted[m] \in Nat /\ mail[m].attempts \in Nat /\ forgotten[m] \in Nat
    BY MailTypes
  <2>2. /\ accepted[m] <= mail[m].attempts + forgotten[m] + 1
        /\ ~Held(m) => accepted[m] <= mail[m].attempts + forgotten[m]
    BY DEF MailInv
  <2>3. mail'[m].attempts \in {mail[m].attempts, mail[m].attempts + 1}
    BY <1>2
  <2>4. ~Held(m)' => ~Held(m) \/ mail'[m].attempts = mail[m].attempts + 1
    BY <1>1, <1>2, BatchLeaves
  <2> QED BY <2>1, <2>2, <2>3, <2>4
<1>8. \A v, u \in Mailers : v # u => batch'[v].rows \cap batch'[u].rows = {}
  BY <1>1, BatchLeaves DEF MailInv
<1> QED BY <1>1, <1>4, <1>5, <1>6, <1>7, <1>8 DEF MailInv

\* The batch rolls back: what it sent is forgotten once.
LEMMA DrainRollsBack ==
  ASSUME MailInv, NEW w \in Mailers, RollBackDrain(w)
  PROVE  MailInv'
<1>1. /\ batch' = [batch EXCEPT ![w] = NoBatch]
      /\ UNCHANGED <<mail, mailOn, badTemplate, accepted>>
      /\ lostBatches' = lostBatches + 1 /\ lostBatches < MaxLostBatches
  BY DEF RollBackDrain
<1>2. lostBatches' \in 0..MaxLostBatches
  BY <1>1, EmailConstants DEF MailInv
<1>3. ASSUME NEW m \in Emails
      PROVE  /\ forgotten'[m] \in 0..MaxLostBatches /\ forgotten'[m] <= lostBatches'
             /\ forgotten'[m] \in {forgotten[m], forgotten[m] + 1}
             /\ m \in InFlight(w) => forgotten'[m] = forgotten[m] + 1
  <2>1. forgotten'[m] = IF m \in InFlight(w) THEN forgotten[m] + 1 ELSE forgotten[m]
    BY DEF RollBackDrain
  <2>2. forgotten[m] \in Nat /\ forgotten[m] <= lostBatches /\ lostBatches \in Nat
    BY MailTypes
  <2> QED BY <1>1, <2>1, <2>2, EmailConstants
<1>4. forgotten' \in [Emails -> 0..MaxLostBatches]
  BY <1>3 DEF RollBackDrain
<1>5. EmailTypeOK'
  BY <1>1, <1>4, BatchLeaves DEF MailInv, EmailTypeOK
<1>6. \A m \in Emails :
        /\ accepted[m] <= mail[m].attempts + forgotten'[m] + 1
        /\ ~Held(m)' => accepted[m] <= mail[m].attempts + forgotten'[m]
  <2> SUFFICES ASSUME NEW m \in Emails
               PROVE  /\ accepted[m] <= mail[m].attempts + forgotten'[m] + 1
                      /\ ~Held(m)' => accepted[m] <= mail[m].attempts + forgotten'[m]
    OBVIOUS
  <2>1. accepted[m] \in Nat /\ mail[m].attempts \in Nat /\ forgotten[m] \in Nat
    BY MailTypes
  <2>2. /\ accepted[m] <= mail[m].attempts + forgotten[m] + 1
        /\ ~Held(m) => accepted[m] <= mail[m].attempts + forgotten[m]
    BY DEF MailInv
  <2>3. ~Held(m)' => ~Held(m) \/ forgotten'[m] = forgotten[m] + 1
    BY <1>1, <1>3, BatchLeaves
  <2> QED BY <1>3, <2>1, <2>2, <2>3
<1>7. \A v \in Mailers : \A m \in batch'[v].rows : m \in batch[v].rows
  BY <1>1, BatchLeaves
<1>8. \A v, u \in Mailers : v # u => batch'[v].rows \cap batch'[u].rows = {}
  BY <1>1, BatchLeaves DEF MailInv
<1> QED BY <1>1, <1>2, <1>3, <1>5, <1>6, <1>7, <1>8 DEF MailInv

LEMMA MailStep == ASSUME MailInv, [EmailNext]_emailVars PROVE MailInv'
<1>1. ASSUME NEW m \in Emails, EnqueueEmail(m) \/ EmailFallsDue(m) \/ EditEmailTemplate(m)
      PROVE  MailInv'
  BY <1>1, QueueSteps
<1>2. ASSUME SwitchMail PROVE MailInv'
  BY <1>2, QueueSteps
<1>3. ASSUME NEW w \in Mailers, BeginDrain(w) PROVE MailInv'
  BY <1>3, DrainBegins
<1>4. ASSUME NEW w \in Mailers, CommitDrain(w) PROVE MailInv'
  BY <1>4, DrainCommits
<1>5. ASSUME NEW w \in Mailers, TemplateEscapes(w) \/ MailerDies(w) PROVE MailInv'
  BY <1>5, DrainRollsBack DEF TemplateEscapes, MailerDies
<1>6. ASSUME NEW w \in Mailers, NEW m \in Emails, NEW answer \in EmailAnswers \ {"none"},
             SendEmail(w, m, answer)
      PROVE  MailInv'
  BY <1>6, MessageGoes
<1>7. CASE UNCHANGED emailVars
  BY <1>7 DEF emailVars, MailInv, EmailTypeOK, Held, InFlight
<1> QED BY <1>1, <1>2, <1>3, <1>4, <1>5, <1>6, <1>7 DEF EmailNext

LEMMA MailPart == Next => [EmailNext]_emailVars
BY DEF Next, EmailSteps, DeviceSteps, PushSteps, ImageSteps, BadgeSteps, TalkSteps, AgentSteps

LEMMA MailAlways == Spec => []MailInv
<1>1. Init => MailInv
  BY MailStart DEF Init
<1>2. MailInv /\ [Next]_allVars => MailInv'
  BY MailStep, MailPart DEF allVars, emailVars
<1> QED BY <1>1, <1>2, PTL DEF Spec

\* A message recorded as sent is in no batch, so nothing sends it again.
LEMMA SentStays ==
  ASSUME MailInv, [EmailNext]_emailVars, NEW m \in Emails, mail[m].status = "sent"
  PROVE  mail'[m] = mail[m] /\ accepted'[m] = accepted[m]
<1>1. /\ mail \in [Emails -> EmailRow] /\ accepted \in [Emails -> Nat]
      /\ \A w \in Mailers : m \notin batch[w].rows
  BY DEF MailInv, EmailTypeOK
<1>2. ASSUME NEW k \in Emails, EnqueueEmail(k) \/ EmailFallsDue(k) \/ EditEmailTemplate(k)
      PROVE  mail'[m] = mail[m] /\ accepted'[m] = accepted[m]
  BY <1>1, <1>2 DEF EnqueueEmail, EmailFallsDue, EditEmailTemplate, Inserted
<1>3. ASSUME NEW w \in Mailers, CommitDrain(w)
      PROVE  mail'[m] = mail[m] /\ accepted'[m] = accepted[m]
  BY <1>1, <1>3 DEF CommitDrain
<1>4. ASSUME NEW w \in Mailers, NEW k \in Emails, NEW answer \in EmailAnswers \ {"none"},
             SendEmail(w, k, answer)
      PROVE  mail'[m] = mail[m] /\ accepted'[m] = accepted[m]
  <2>1. k # m
    BY <1>1, <1>4 DEF SendEmail, Unanswered
  <2> QED BY <1>1, <1>4, <2>1 DEF SendEmail
<1>5. ASSUME NEW w \in Mailers, BeginDrain(w) \/ TemplateEscapes(w) \/ MailerDies(w)
      PROVE  mail'[m] = mail[m] /\ accepted'[m] = accepted[m]
  BY <1>5 DEF BeginDrain, TemplateEscapes, MailerDies, RollBackDrain
<1>6. CASE SwitchMail \/ UNCHANGED emailVars
  BY <1>6 DEF SwitchMail, emailVars
<1> QED BY <1>2, <1>3, <1>4, <1>5, <1>6 DEF EmailNext

-----------------------------------------------------------------------------
(* The devices of a phone.                                                 *)

\* A revoked row is inactive; while no registrations overlap, one at most is
\* in flight, it has locked every other active row, and one row is active.
DeviceInv ==
    /\ DeviceTypeOK
    /\ \A u \in Owners :
         /\ device[u].revoked => ~device[u].active
         /\ ~registering[u].open => registering[u].others = {}
    /\ \A u \in forgone : device[u].known /\ device[u].revoked
    /\ ~overlapped =>
         /\ \A u, v \in ActiveOwners : u = v
         /\ \A u, v \in Owners : registering[u].open /\ registering[v].open => u = v
         /\ \A u \in Owners : registering[u].open => ActiveOwners \ {u} \subseteq registering[u].others

LEMMA DeviceInvImplies == DeviceInv => DeviceInvariant
<1> SUFFICES ASSUME DeviceInv PROVE DeviceInvariant
  OBVIOUS
<1>1. RevokedStaysOff
  BY DEF DeviceInv, RevokedStaysOff, DeviceTypeOK
<1>2. ASSUME ~overlapped PROVE Cardinality(ActiveOwners) <= 1
  <2>1. CASE ActiveOwners = {}
    BY <2>1, FS_EmptySet
  <2>2. CASE ActiveOwners # {}
    <3>1. PICK u \in ActiveOwners : ActiveOwners = {u}
      BY <1>2, <2>2 DEF DeviceInv
    <3> QED BY <3>1, FS_Singleton
  <2> QED BY <2>1, <2>2
<1> QED BY <1>1, <1>2 DEF DeviceInv, DeviceInvariant, OnePhoneOneAccount

LEMMA DeviceStart == DeviceInit => DeviceInv
<1> SUFFICES ASSUME DeviceInit PROVE DeviceInv
  OBVIOUS
<1>1. /\ device \in [Owners -> DeviceRow] /\ registering \in [Owners -> Registration]
      /\ ~overlapped /\ overlapped \in BOOLEAN /\ forgone = {}
      /\ \A u \in Owners : /\ ~device[u].known /\ ~device[u].active /\ ~device[u].revoked
                          /\ ~registering[u].open /\ registering[u].others = {}
  BY DEF DeviceInit, DeviceRow, Registration, Unregistered
<1> QED BY <1>1 DEF DeviceInv, DeviceTypeOK, ActiveOwners

LEMMA DeviceTypes ==
  ASSUME DeviceInv
  PROVE  /\ device \in [Owners -> DeviceRow] /\ registering \in [Owners -> Registration]
         /\ forgone \subseteq Owners
         /\ \A u \in Owners :
              /\ device[u] \in DeviceRow
              /\ device[u].known \in BOOLEAN /\ device[u].active \in BOOLEAN
              /\ device[u].revoked \in BOOLEAN
              /\ device[u].active => device[u].known
              /\ device[u].revoked => ~device[u].active
              /\ u \notin registering[u].others
              /\ registering[u].others \subseteq Owners
BY DEF DeviceInv, DeviceTypeOK, DeviceRow, Registration

LEMMA RegistrationBegins ==
  ASSUME DeviceInv, NEW u \in Owners, BeginRegister(u)
  PROVE  DeviceInv'
<1> DEFINE row == [open |-> TRUE, others |-> OthersActive(u)]
<1>1. /\ registering' = [registering EXCEPT ![u] = row]
      /\ ~registering[u].open
      /\ overlapped' = (overlapped \/ \E v \in Owners : registering[v].open)
      /\ device' = device /\ forgone' = forgone
  BY DEF BeginRegister
<1>2. row \in Registration /\ row.open /\ row.others = ActiveOwners \ {u}
  BY DEF Registration, OthersActive, ActiveOwners
<1> HIDE DEF row
<1>3. /\ registering' \in [Owners -> Registration]
      /\ registering'[u] = row /\ \A v \in Owners \ {u} : registering'[v] = registering[v]
  BY <1>1, <1>2, DeviceTypes
<1>4. ActiveOwners' = ActiveOwners
  BY <1>1 DEF ActiveOwners
<1>5. DeviceTypeOK'
  <2>1. \A v \in Owners : v \notin registering'[v].others
    BY <1>2, <1>3, DeviceTypes
  <2>2. overlapped' \in BOOLEAN
    BY <1>1 DEF DeviceInv, DeviceTypeOK
  <2> QED BY <1>1, <1>3, <2>1, <2>2 DEF DeviceInv, DeviceTypeOK
<1>6. ~overlapped' => ~overlapped /\ \A v \in Owners : ~registering[v].open
  BY <1>1
<1> QED BY <1>1, <1>2, <1>3, <1>4, <1>5, <1>6 DEF DeviceInv

LEMMA RegistrationCommits ==
  ASSUME DeviceInv, NEW u \in Owners, CommitRegister(u)
  PROVE  DeviceInv'
<1>1. /\ registering' = [registering EXCEPT ![u] = Unregistered]
      /\ registering[u].open
      /\ overlapped' = overlapped /\ forgone' = forgone
      /\ u \notin LockedDevices
  BY DEF CommitRegister
<1>2. /\ Unregistered \in Registration /\ ~Unregistered.open /\ Unregistered.others = {}
  BY DEF Unregistered, Registration
<1>3. /\ registering' \in [Owners -> Registration]
      /\ registering'[u] = Unregistered
      /\ \A v \in Owners \ {u} : registering'[v] = registering[v]
  BY <1>1, <1>2, DeviceTypes
<1>4. OwnRow(device[u]) \in DeviceRow /\ OwnRow(device[u]).known
      /\ (OwnRow(device[u]).revoked => ~OwnRow(device[u]).active)
      /\ (device[u].known /\ device[u].revoked => OwnRow(device[u]) = device[u])
  BY DeviceTypes DEF OwnRow, DeviceRow
<1>5. ASSUME NEW v \in Owners
      PROVE  /\ device'[v] \in DeviceRow
             /\ device'[v].active => device'[v].known
             /\ device'[v].revoked => ~device'[v].active
             /\ device[v].known /\ device[v].revoked => device'[v].known /\ device'[v].revoked
             /\ device'[v].active => v = u \/ (device[v].active /\ v \notin registering[u].others)
  <2>1. CASE v = u
    <3>1. device'[u] = OwnRow(device[u])
      BY <2>1, DeviceTypes DEF CommitRegister
    <3> QED BY <1>4, <2>1, <3>1
  <2>2. CASE v # u /\ v \in registering[u].others
    <3>1. device'[v] = [device[v] EXCEPT !.active = FALSE, !.revoked = TRUE]
      BY <2>2 DEF CommitRegister
    <3>2. device[v] \in DeviceRow
      BY DeviceTypes
    <3> QED BY <2>2, <3>1, <3>2 DEF DeviceRow
  <2>3. CASE v # u /\ v \notin registering[u].others
    <3>1. device'[v] = device[v]
      BY <2>3 DEF CommitRegister
    <3> QED BY <2>3, <3>1, DeviceTypes
  <2> QED BY <2>1, <2>2, <2>3
<1>6. DeviceTypeOK'
  <2>1. device' \in [Owners -> DeviceRow]
    BY <1>5 DEF CommitRegister
  <2>2. \A v \in Owners : v \notin registering'[v].others
    BY <1>2, <1>3, DeviceTypes
  <2> QED BY <1>1, <1>3, <1>5, <2>1, <2>2 DEF DeviceInv, DeviceTypeOK
<1>7. ~overlapped => ActiveOwners' \subseteq {u}
  BY <1>1, <1>5 DEF DeviceInv, ActiveOwners
<1>8. ~overlapped => \A v \in Owners : ~registering'[v].open
  BY <1>1, <1>2, <1>3 DEF DeviceInv
<1>9. \A v \in forgone : device'[v].known /\ device'[v].revoked
  BY <1>5, DeviceTypes DEF DeviceInv
<1> QED BY <1>1, <1>2, <1>3, <1>5, <1>6, <1>7, <1>8, <1>9 DEF DeviceInv

\* A row is turned off, or a registration is given up.
LEMMA DeviceShrinks ==
  ASSUME DeviceInv, NEW u \in Owners,
         AbortRegister(u) \/ RevokeDevice(u) \/ InvalidateDevice(u)
  PROVE  DeviceInv'
<1>1. CASE AbortRegister(u)
  <2>1. /\ registering' = [registering EXCEPT ![u] = Unregistered]
        /\ UNCHANGED <<device, overlapped, forgone>>
    BY <1>1 DEF AbortRegister
  <2>2. /\ registering' \in [Owners -> Registration]
        /\ registering'[u] = Unregistered
        /\ \A v \in Owners \ {u} : registering'[v] = registering[v]
        /\ ~Unregistered.open /\ Unregistered.others = {}
    BY <2>1, DeviceTypes DEF Unregistered, Registration
  <2>3. DeviceTypeOK'
    BY <2>1, <2>2 DEF DeviceInv, DeviceTypeOK
  <2> QED BY <2>1, <2>2, <2>3 DEF DeviceInv, ActiveOwners
<1>2. CASE RevokeDevice(u) \/ InvalidateDevice(u)
  <2>1. registering' = registering /\ overlapped' = overlapped /\ device[u].known
    BY <1>2 DEF RevokeDevice, InvalidateDevice
  <2>2. PICK gone \in BOOLEAN :
          /\ device' = [device EXCEPT ![u].active = FALSE, ![u].revoked = gone]
          /\ device[u].revoked => gone
          /\ forgone' = forgone \/ (forgone' = forgone \cup {u} /\ gone)
    <3>1. CASE RevokeDevice(u)
      BY <3>1 DEF RevokeDevice
    <3>2. CASE InvalidateDevice(u)
      <4>1. device' = [device EXCEPT ![u].active = FALSE, ![u].revoked = device[u].revoked]
        BY <3>2, DeviceTypes DEF InvalidateDevice, DeviceRow
      <4> QED BY <3>2, <4>1, DeviceTypes DEF InvalidateDevice
    <3> QED BY <1>2, <3>1, <3>2
  <2>3. /\ device' \in [Owners -> DeviceRow]
        /\ device'[u].known /\ ~device'[u].active /\ (device'[u].revoked <=> gone)
        /\ \A v \in Owners \ {u} : device'[v] = device[v]
    BY <2>1, <2>2, DeviceTypes DEF DeviceRow
  <2>4. ActiveOwners' \subseteq ActiveOwners
    BY <2>3 DEF ActiveOwners
  <2>5. DeviceTypeOK'
    BY <2>1, <2>2, <2>3 DEF DeviceInv, DeviceTypeOK
  <2>6. \A v \in forgone' : device'[v].known /\ device'[v].revoked
    BY <2>2, <2>3, DeviceTypes DEF DeviceInv
  <2>7. \A v \in Owners : device'[v].revoked => ~device'[v].active
    BY <2>3, DeviceTypes
  <2> QED BY <2>1, <2>4, <2>5, <2>6, <2>7 DEF DeviceInv
<1> QED BY <1>1, <1>2

LEMMA DeviceStep == ASSUME DeviceInv, [DeviceNext]_deviceVars PROVE DeviceInv'
<1>1. CASE UNCHANGED deviceVars
  BY <1>1 DEF deviceVars, DeviceInv, DeviceTypeOK, ActiveOwners
<1> QED BY <1>1, RegistrationBegins, RegistrationCommits, DeviceShrinks DEF DeviceNext

LEMMA DevicePart == Next => [DeviceNext]_deviceVars
BY DEF Next, EmailSteps, DeviceSteps, PushSteps, ImageSteps, BadgeSteps, TalkSteps, AgentSteps

LEMMA DeviceAlways == Spec => []DeviceInv
<1>1. Init => DeviceInv
  BY DeviceStart DEF Init
<1>2. DeviceInv /\ [Next]_allVars => DeviceInv'
  BY DeviceStep, DevicePart DEF allVars, deviceVars
<1> QED BY <1>1, <1>2, PTL DEF Spec

-----------------------------------------------------------------------------
(* Alerts and their push messages.                                         *)

Carries(w, n) == n \in pushJob[w].rows

\* While no claim of it went stale, one worker holds a push at most, with the
\* attempts on record, and the provider has not taken it since its claim
\* unless the worker says so.
InTime(n) ==
    /\ ~push[n].stale
    /\ \A w \in Pushers : Carries(w, n) =>
         /\ push[n].status = "sending"
         /\ pushJob[w].attempts[n] = push[n].attempts
         /\ pushJob[w].outcome[n] = "none" => pushed[n] <= push[n].attempts
    /\ \A w, v \in Pushers : Carries(w, n) /\ Carries(v, n) => w = v
    /\ pushed[n] <= push[n].attempts + 1
    /\ push[n].status # "sending" => pushed[n] <= push[n].attempts

PushInv ==
    /\ PushTypeOK
    /\ \A w \in Pushers : \A n \in pushJob[w].rows :
         push[n].status # "absent" /\ pushJob[w].attempts[n] < MaxPushAttempts
    /\ \A n \in Alerts : push[n].status = "absent" => push[n].attempts = 0
    /\ \A n \in Alerts \ late : InTime(n)

LEMMA PushConstants ==
  /\ MaxPushAttempts \in Nat /\ MaxPushAttempts > 0
  /\ 0 \in 0..MaxPushAttempts
BY PushAssumption DEF PushAssumption

LEMMA PushTypes ==
  ASSUME PushInv
  PROVE  /\ push \in [Alerts -> PushRow] /\ pushJob \in [Pushers -> PushJob]
         /\ pushed \in [Alerts -> Nat] /\ phone \in PhoneStates
         /\ \A n \in Alerts : push[n] \in PushRow /\ push[n].attempts \in Nat /\ pushed[n] \in Nat
         /\ \A w \in Pushers :
              /\ pushJob[w] \in PushJob /\ pushJob[w].rows \subseteq Alerts
              /\ pushJob[w].attempts \in [Alerts -> 0..MaxPushAttempts]
              /\ pushJob[w].outcome \in [Alerts -> PushOutcomes \cup {"none"}]
BY PushConstants DEF PushInv, PushTypeOK, PushRow, PushJob

LEMMA NoJobFacts ==
  /\ NoJob \in PushJob /\ NoJob.rows = {}
  /\ \A n \in Alerts : NoJob.outcome[n] = "none"
BY PushConstants DEF NoJob, PushJob, PushModes, PushOutcomes, Final

LEMMA NewPushFacts ==
  /\ AbsentPush \in PushRow /\ AbsentPush.status = "absent" /\ AbsentPush.attempts = 0
  /\ ~AbsentPush.stale
  /\ NewPush \in PushRow /\ NewPush.status = "queued" /\ NewPush.attempts = 0
  /\ ~NewPush.stale
BY PushConstants DEF AbsentPush, NewPush, PushRow, Final

LEMMA PushInvImplies == PushInv => PushInvariant
<1> SUFFICES ASSUME PushInv, NEW n \in Alerts \ late
             PROVE  pushed[n] <= push[n].attempts + (IF push[n].status = "sending" THEN 1 ELSE 0)
  BY DEF PushInv, PushInvariant, PushedOncePerAttempt
<1>1. InTime(n) /\ push[n].attempts \in Nat /\ pushed[n] \in Nat
  BY PushTypes DEF PushInv
<1>2. CASE push[n].status = "sending"
  BY <1>1, <1>2 DEF InTime
<1>3. CASE push[n].status # "sending"
  <2>1. pushed[n] <= push[n].attempts
    BY <1>1, <1>3 DEF InTime
  <2> QED BY <1>1, <1>3, <2>1
<1> QED BY <1>2, <1>3

LEMMA PushStart == PushInit => PushInv
<1> SUFFICES ASSUME PushInit PROVE PushInv
  OBVIOUS
<1>1. /\ \A n \in Alerts : push[n] = AbsentPush /\ pushed[n] = 0
      /\ \A w \in Pushers : pushJob[w] = NoJob
  BY DEF PushInit
<1>2. PushTypeOK
  BY <1>1, NoJobFacts, NewPushFacts DEF PushInit, PushTypeOK, PhoneStates
<1> QED BY <1>1, <1>2, NoJobFacts, NewPushFacts DEF PushInv, InTime, Carries

\* The phone, the preferences and the environment change under the queue.
LEMMA SurroundingsKeep ==
  ASSUME PushInv, UNCHANGED <<push, pushJob, pushed, late, alerted>>,
         phone' \in PhoneStates, phone # "none" => phone' # "none",
         muted' \in BOOLEAN, pushMode' \in PushModes
  PROVE  PushInv'
<1>1. PushTypeOK'
  BY DEF PushInv, PushTypeOK
<1> QED BY <1>1 DEF PushInv, InTime, Carries

LEMMA SurroundingSteps ==
  ASSUME PushInv,
         \/ RegisterPhone \/ RevokePhone \/ SetPreference
         \/ \E mode \in PushModes : SwitchPush(mode)
  PROVE  PushInv'
<1>1. /\ phone \in PhoneStates /\ muted \in BOOLEAN /\ pushMode \in PushModes
  BY DEF PushInv, PushTypeOK
<1>2. UNCHANGED <<push, pushJob, pushed, late, alerted>>
  BY DEF RegisterPhone, RevokePhone, SetPreference, SwitchPush, workVars
<1>3. phone' \in PhoneStates /\ (phone # "none" => phone' # "none")
  BY <1>1 DEF RegisterPhone, RevokePhone, SetPreference, SwitchPush, PhoneStates
<1>4. muted' \in BOOLEAN /\ pushMode' \in PushModes
  BY <1>1 DEF RegisterPhone, RevokePhone, SetPreference, SwitchPush
<1> QED BY <1>2, <1>3, <1>4, SurroundingsKeep

\* Rows of the table change and no worker does: what a worker holds keeps its
\* state and its attempts.
LEMMA RowsKeep ==
  ASSUME PushInv, UNCHANGED <<pushJob, pushed, phone, muted, pushMode>>,
         late \subseteq late', late' \subseteq Alerts,
         alerted \subseteq alerted', alerted' \subseteq Alerts,
         push' \in [Alerts -> PushRow],
         \A n \in Alerts :
           /\ push'[n].attempts = push[n].attempts
           /\ push[n].status # "absent" => push'[n].status = push[n].status
           /\ push'[n].status # "absent" => n \in alerted' /\ phone # "none"
           /\ push[n].status = "absent" => push'[n].status # "sending"
           /\ n \notin late' => ~push'[n].stale
  PROVE  PushInv'
<1>1. PushTypeOK'
  BY DEF PushInv, PushTypeOK
<1>2. \A w \in Pushers : \A n \in pushJob[w].rows : n \in Alerts
  BY PushTypes
<1>3. ASSUME NEW n \in Alerts \ late' PROVE InTime(n)'
  <2>1. InTime(n)
    BY <1>3 DEF PushInv
  <2>2. \A w \in Pushers : Carries(w, n) => push[n].status = "sending"
    BY <2>1 DEF InTime
  <2>3. push'[n].status # "sending" => push[n].status # "sending"
    OBVIOUS
  <2> QED BY <2>1, <2>2, <2>3 DEF InTime, Carries
<1> QED BY <1>1, <1>2, <1>3 DEF PushInv

LEMMA TableSteps ==
  ASSUME PushInv, NEW n \in Alerts, Notify(n) \/ PushFallsDue(n) \/ PushGoesStale(n)
  PROVE  PushInv'
<1>1. /\ push \in [Alerts -> PushRow] /\ alerted \subseteq Alerts /\ late \subseteq Alerts
      /\ \A k \in Alerts :
           /\ push[k].status # "absent" => k \in alerted /\ phone # "none"
           /\ k \notin late => ~push[k].stale
  BY DEF PushInv, PushTypeOK, InTime
<1>2. ASSUME Notify(n) PROVE PushInv'
  <2>1. UNCHANGED <<pushJob, pushed, phone, muted, pushMode, late>>
    BY <1>2 DEF Notify
  <2>2. push[n].status = "absent" /\ alerted' = alerted \cup {n}
    BY <1>1, <1>2 DEF Notify, FirstAlert
  <2>3. CASE Pushable
    <3>1. push' = [push EXCEPT ![n] = NewPush] /\ phone = "active"
      BY <1>2, <2>3 DEF Notify, Pushable
    <3>2. /\ push' \in [Alerts -> PushRow] /\ push'[n] = NewPush
          /\ \A k \in Alerts \ {n} : push'[k] = push[k]
      BY <1>1, <3>1, NewPushFacts
    <3>3. push[n].attempts = 0
      BY <2>2 DEF PushInv
    <3> QED BY <1>1, <2>1, <2>2, <3>1, <3>2, <3>3, NewPushFacts, RowsKeep
  <2>4. CASE ~Pushable
    <3>1. push' = push
      BY <1>2, <2>4 DEF Notify
    <3> QED BY <1>1, <2>1, <2>2, <3>1, RowsKeep
  <2> QED BY <2>3, <2>4
<1>3. ASSUME PushFallsDue(n) PROVE PushInv'
  <2>1. UNCHANGED <<pushJob, pushed, phone, muted, pushMode, late, alerted>>
    BY <1>3 DEF PushFallsDue
  <2>2. /\ push' \in [Alerts -> PushRow] /\ push'[n] = [push[n] EXCEPT !.due = TRUE]
        /\ \A k \in Alerts \ {n} : push'[k] = push[k]
    BY <1>1, <1>3 DEF PushFallsDue, PushRow
  <2>3. /\ push'[n].attempts = push[n].attempts /\ push'[n].status = push[n].status
        /\ (push'[n].stale <=> push[n].stale)
    BY <1>1, <2>2 DEF PushRow
  <2>4. push[n].status = "failed"
    BY <1>3 DEF PushFallsDue
  <2> QED BY <1>1, <2>1, <2>2, <2>3, <2>4, RowsKeep
<1>4. ASSUME PushGoesStale(n) PROVE PushInv'
  <2>1. UNCHANGED <<pushJob, pushed, phone, muted, pushMode, alerted>> /\ late' = late \cup {n}
    BY <1>4 DEF PushGoesStale
  <2>2. /\ push' \in [Alerts -> PushRow] /\ push'[n] = [push[n] EXCEPT !.stale = TRUE]
        /\ \A k \in Alerts \ {n} : push'[k] = push[k]
    BY <1>1, <1>4 DEF PushGoesStale, PushRow
  <2>3. /\ push'[n].attempts = push[n].attempts /\ push'[n].status = push[n].status
    BY <1>1, <2>2 DEF PushRow
  <2>4. push[n].status = "sending"
    BY <1>4 DEF PushGoesStale
  <2> QED BY <1>1, <2>1, <2>2, <2>3, <2>4, RowsKeep
<1> QED BY <1>2, <1>3, <1>4

\* A worker claims a batch: what is in time was queued or failed, and nobody
\* held it.
LEMMA ClaimKeeps ==
  ASSUME PushInv, NEW w \in Pushers, ClaimPushes(w)
  PROVE  PushInv'
<1>1. PICK rows \in SUBSET Claimable :
        /\ push' = [n \in Alerts |->
                      IF n \in rows
                      THEN [push[n] EXCEPT !.status = "sending", !.stale = FALSE]
                      ELSE push[n]]
        /\ pushJob' = [pushJob EXCEPT ![w] =
             [NoJob EXCEPT !.rows = rows, !.mode = pushMode,
                !.attempts = [n \in Alerts |-> IF n \in rows THEN push[n].attempts ELSE 0],
                !.live = IF phone = "active" THEN rows ELSE {}]]
  BY DEF ClaimPushes, kSubset
<1> DEFINE job == [NoJob EXCEPT !.rows = rows, !.mode = pushMode,
                     !.attempts = [n \in Alerts |-> IF n \in rows THEN push[n].attempts ELSE 0],
                     !.live = IF phone = "active" THEN rows ELSE {}]
<1>2. rows \subseteq Alerts
  BY DEF Claimable
<1>3. ASSUME NEW n \in rows
      PROVE  /\ n \in Alerts /\ push[n].attempts < MaxPushAttempts
             /\ push[n].status \in {"queued", "failed"} \/ Abandoned(n)
  BY <1>1, <1>2 DEF Claimable
<1>4. /\ job \in PushJob /\ job.rows = rows
      /\ \A n \in rows : job.attempts[n] = push[n].attempts
      /\ \A n \in Alerts : job.outcome[n] = "none"
  <2>1. [n \in Alerts |-> IF n \in rows THEN push[n].attempts ELSE 0]
          \in [Alerts -> 0..MaxPushAttempts]
    BY PushTypes, PushConstants DEF PushRow
  <2>2. pushMode \in PushModes
    BY DEF PushInv, PushTypeOK
  <2> QED BY <1>2, <2>1, <2>2 DEF NoJob, PushJob
<1>5. pushJob' = [pushJob EXCEPT ![w] = job]
  BY <1>1
<1> HIDE DEF job
<1>6. /\ pushJob' \in [Pushers -> PushJob] /\ pushJob'[w] = job
      /\ \A v \in Pushers \ {w} : pushJob'[v] = pushJob[v]
  BY <1>4, <1>5, PushTypes
<1>7. ASSUME NEW n \in Alerts
      PROVE  /\ push'[n] \in PushRow /\ push'[n].attempts = push[n].attempts
             /\ n \in rows => push'[n].status = "sending" /\ ~push'[n].stale
             /\ n \notin rows => push'[n] = push[n]
  <2>1. push[n] \in PushRow
    BY PushTypes
  <2> QED BY <1>1, <2>1 DEF PushRow
<1>8. push' \in [Alerts -> PushRow]
  BY <1>1, <1>7
<1>9. UNCHANGED <<phone, muted, alerted, pushMode, pushed, late, pushCrashes, pushEdits>>
  BY DEF ClaimPushes
<1>10. \A n \in rows : push[n].status # "absent"
  BY <1>3 DEF Abandoned
<1>11. PushTypeOK'
  BY <1>6, <1>7, <1>8, <1>9, <1>10 DEF PushInv, PushTypeOK
<1>12. \A v \in Pushers : \A n \in pushJob'[v].rows :
         push'[n].status # "absent" /\ pushJob'[v].attempts[n] < MaxPushAttempts
  <2> SUFFICES ASSUME NEW v \in Pushers, NEW n \in pushJob'[v].rows
               PROVE  push'[n].status # "absent" /\ pushJob'[v].attempts[n] < MaxPushAttempts
    OBVIOUS
  <2>1. CASE v = w
    BY <1>2, <1>3, <1>4, <1>6, <1>7, <2>1
  <2>2. CASE v # w
    BY <1>6, <1>7, <2>2, PushTypes DEF PushInv
  <2> QED BY <2>1, <2>2
<1>13. ASSUME NEW n \in Alerts \ late PROVE InTime(n)'
  <2>1. InTime(n)
    BY <1>13 DEF PushInv
  <2>2. CASE n \in rows
    <3>1. push[n].status \in {"queued", "failed"}
      BY <1>3, <2>1, <2>2 DEF Abandoned, InTime
    <3>2. \A v \in Pushers : ~Carries(v, n)
      BY <2>1, <3>1 DEF InTime
    <3>3. \A v \in Pushers \ {w} : ~Carries(v, n)'
      BY <1>6, <3>2 DEF Carries
    <3>4. pushed[n] <= push[n].attempts /\ pushed[n] <= push[n].attempts + 1
      BY <2>1, <3>1 DEF InTime
    <3>5. pushJob'[w].attempts[n] = push'[n].attempts /\ push'[n].status = "sending"
      BY <1>4, <1>6, <1>7, <2>2
    <3> QED BY <1>7, <1>9, <2>2, <3>3, <3>4, <3>5 DEF InTime
  <2>3. CASE n \notin rows
    <3>1. push'[n] = push[n]
      BY <1>7, <2>3
    <3>2. ~Carries(w, n)'
      BY <1>4, <1>6, <2>3 DEF Carries
    <3>3. \A v \in Pushers \ {w} : Carries(v, n)' <=> Carries(v, n)
      BY <1>6 DEF Carries
    <3> QED BY <1>6, <1>9, <2>1, <3>1, <3>2, <3>3 DEF InTime
  <2> QED BY <2>2, <2>3
<1>14. \A n \in Alerts : push'[n].status = "absent" => push'[n].attempts = 0
  BY <1>7 DEF PushInv
<1> QED BY <1>9, <1>11, <1>12, <1>13, <1>14 DEF PushInv

\* A worker dies: nobody holds its rows any more.
LEMMA DeathKeeps ==
  ASSUME PushInv, NEW w \in Pushers, PusherDies(w)
  PROVE  PushInv'
<1>1. /\ pushJob' = [pushJob EXCEPT ![w] = NoJob]
      /\ UNCHANGED <<phone, muted, alerted, push, pushMode, pushed, late>>
  BY DEF PusherDies
<1>2. /\ pushJob' \in [Pushers -> PushJob] /\ pushJob'[w].rows = {}
      /\ \A v \in Pushers \ {w} : pushJob'[v] = pushJob[v]
  BY <1>1, NoJobFacts, PushTypes
<1>3. PushTypeOK'
  BY <1>1, <1>2 DEF PushInv, PushTypeOK
<1> QED BY <1>1, <1>2, <1>3 DEF PushInv, InTime, Carries

\* A push is handed to the provider.
LEMMA SendingKeeps ==
  ASSUME PushInv, NEW w \in Pushers, NEW n \in Alerts, NEW outcome \in PushOutcomes,
         SendPush(w, n, outcome)
  PROVE  PushInv'
<1>1. /\ n \in pushJob[w].rows /\ pushJob[w].outcome[n] = "none"
      /\ pushJob' = [pushJob EXCEPT ![w].outcome[n] = outcome]
      /\ UNCHANGED <<muted, alerted, push, pushMode, late>>
  BY DEF SendPush
<1>2. PICK once \in {0, 1} : once = IF outcome \in {"sent", "unanswered"} THEN 1 ELSE 0
  OBVIOUS
<1>3. /\ pushed' = [pushed EXCEPT ![n] = pushed[n] + once]
      /\ pushed \in [Alerts -> Nat]
  <2>1. CASE outcome \in {"sent", "unanswered"}
    BY <1>2, <2>1, PushTypes DEF SendPush
  <2>2. CASE outcome \notin {"sent", "unanswered"}
    <3>1. pushed' = [pushed EXCEPT ![n] = pushed[n]]
      BY <2>2 DEF SendPush
    <3>2. pushed[n] + once = pushed[n]
      BY <1>2, <2>2, PushTypes
    <3> QED BY <3>1, <3>2, PushTypes
  <2> QED BY <2>1, <2>2
<1>4. /\ pushJob' \in [Pushers -> PushJob]
      /\ \A v \in Pushers : pushJob'[v].rows = pushJob[v].rows
                            /\ pushJob'[v].attempts = pushJob[v].attempts
      /\ pushJob'[w].outcome[n] = outcome
      /\ \A v \in Pushers, k \in Alerts : v # w \/ k # n => pushJob'[v].outcome[k] = pushJob[v].outcome[k]
  <2> DEFINE job == [pushJob[w] EXCEPT !.outcome = [pushJob[w].outcome EXCEPT ![n] = outcome]]
  <2>1. /\ job \in PushJob /\ job.rows = pushJob[w].rows /\ job.attempts = pushJob[w].attempts
        /\ job.outcome[n] = outcome
        /\ \A k \in Alerts \ {n} : job.outcome[k] = pushJob[w].outcome[k]
    BY PushTypes DEF PushJob
  <2>2. pushJob' = [pushJob EXCEPT ![w] = job]
    BY <1>1
  <2> HIDE DEF job
  <2>3. /\ pushJob' \in [Pushers -> PushJob] /\ pushJob'[w] = job
        /\ \A v \in Pushers \ {w} : pushJob'[v] = pushJob[v]
    BY <2>1, <2>2, PushTypes
  <2> QED BY <2>1, <2>3
<1>5. phone' \in PhoneStates /\ (phone # "none" => phone' # "none")
  <2>1. phone \in PhoneStates
    BY PushTypes
  <2> QED BY <2>1 DEF SendPush, PhoneStates
<1>6. outcome # "none"
  BY DEF PushOutcomes
<1>7. PushTypeOK'
  <2>1. pushed' \in [Alerts -> Nat]
    BY <1>3
  <2> QED BY <1>1, <1>4, <1>5, <2>1 DEF PushInv, PushTypeOK
<1>8. ASSUME NEW k \in Alerts \ late PROVE InTime(k)'
  <2>1. InTime(k)
    BY <1>8 DEF PushInv
  <2>2. \A v \in Pushers : Carries(v, k)' <=> Carries(v, k)
    BY <1>4 DEF Carries
  <2>3. CASE k = n
    <3>1. /\ Carries(w, n) /\ \A v \in Pushers : Carries(v, n) => v = w
          /\ push[n].status = "sending"
          /\ pushed[n] <= push[n].attempts
      BY <1>1, <2>1, <2>3 DEF InTime, Carries
    <3>2. pushed'[n] = pushed[n] + once
      BY <1>3
    <3>3. pushed'[n] <= push[n].attempts + 1
      BY <3>1, <3>2, PushTypes
    <3> QED BY <1>1, <1>4, <1>6, <2>1, <2>2, <2>3, <3>1, <3>3 DEF InTime
  <2>4. CASE k # n
    <3>1. pushed'[k] = pushed[k]
      BY <1>3, <2>4
    <3>2. \A v \in Pushers : pushJob'[v].outcome[k] = pushJob[v].outcome[k]
      BY <1>4, <2>4
    <3> QED BY <1>1, <1>4, <2>1, <2>2, <3>1, <3>2 DEF InTime
  <2> QED BY <2>3, <2>4
<1> QED BY <1>1, <1>4, <1>7, <1>8 DEF PushInv

\* A result is written from the copy of the claim.
LEMMA MarkKeeps ==
  ASSUME PushInv, NEW w \in Pushers, NEW n \in Alerts, MarkPush(w, n)
  PROVE  PushInv'
<1>1. PICK result \in PushOutcomes :
        /\ result = pushJob[w].outcome[n] /\ n \in pushJob[w].rows
  BY PushTypes DEF MarkPush
<1>2. PICK a \in Nat : a = pushJob[w].attempts[n]
  BY PushTypes, PushConstants
<1>3. a + 1 \in 0..MaxPushAttempts
  <2>1. a < MaxPushAttempts
    BY <1>1, <1>2 DEF PushInv
  <2> QED BY <2>1, PushConstants
<1> DEFINE row == [status |-> IF result = "unanswered" THEN "failed" ELSE result,
                   attempts |-> a + 1, due |-> FALSE, stale |-> FALSE]
<1>4. /\ row \in PushRow /\ row.attempts = a + 1 /\ ~row.stale
      /\ row.status \notin {"absent", "sending"}
  BY <1>3 DEF PushRow, PushOutcomes, Final
<1>5. push' = [push EXCEPT ![n] = row]
  BY <1>1, <1>2 DEF MarkPush
<1> HIDE DEF row
<1>6. /\ push' \in [Alerts -> PushRow] /\ push'[n] = row
      /\ \A k \in Alerts \ {n} : push'[k] = push[k]
  BY <1>4, <1>5, PushTypes
<1>7. PICK job \in PushJob :
        /\ pushJob' = [pushJob EXCEPT ![w] = job]
        /\ job.rows = pushJob[w].rows \ {n}
        /\ \A k \in job.rows : job.attempts[k] = pushJob[w].attempts[k]
                               /\ job.outcome[k] = pushJob[w].outcome[k]
  <2>1. CASE pushJob[w].rows = {n}
    <3>1. pushJob' = [pushJob EXCEPT ![w] = NoJob]
      BY <2>1 DEF MarkPush
    <3> QED BY <2>1, <3>1, NoJobFacts
  <2>2. CASE pushJob[w].rows # {n}
    <3> DEFINE job == [pushJob[w] EXCEPT !.rows = @ \ {n}, !.live = @ \ {n},
                                         !.outcome[n] = "none", !.attempts[n] = 0]
    <3>1. pushJob' = [pushJob EXCEPT ![w] = job]
      BY <2>2 DEF MarkPush
    <3>2. /\ job \in PushJob /\ job.rows = pushJob[w].rows \ {n}
          /\ \A k \in Alerts \ {n} : job.attempts[k] = pushJob[w].attempts[k]
                                     /\ job.outcome[k] = pushJob[w].outcome[k]
      BY PushTypes, PushConstants DEF PushJob
    <3>3. job.rows \subseteq Alerts \ {n}
      BY <3>2, PushTypes
    <3> QED BY <3>1, <3>2, <3>3
  <2> QED BY <2>1, <2>2
<1>8. /\ pushJob' \in [Pushers -> PushJob] /\ pushJob'[w] = job
      /\ \A v \in Pushers \ {w} : pushJob'[v] = pushJob[v]
  BY <1>7, PushTypes
<1>9. UNCHANGED <<phone, muted, alerted, pushMode, pushed, late>>
  BY DEF MarkPush
<1>10. push[n].status # "absent"
  BY <1>1 DEF PushInv
<1>11. PushTypeOK'
  BY <1>4, <1>6, <1>8, <1>9, <1>10 DEF PushInv, PushTypeOK
<1>12. \A v \in Pushers : \A k \in pushJob'[v].rows :
         push'[k].status # "absent" /\ pushJob'[v].attempts[k] < MaxPushAttempts
  <2> SUFFICES ASSUME NEW v \in Pushers, NEW k \in pushJob'[v].rows
               PROVE  push'[k].status # "absent" /\ pushJob'[v].attempts[k] < MaxPushAttempts
    OBVIOUS
  <2>1. k \in pushJob[v].rows /\ pushJob'[v].attempts[k] = pushJob[v].attempts[k] /\ k \in Alerts
    <3>1. CASE v = w
      BY <1>7, <1>8, <3>1, PushTypes
    <3>2. CASE v # w
      BY <1>8, <3>2, PushTypes
    <3> QED BY <3>1, <3>2
  <2>2. push[k].status # "absent" /\ pushJob[v].attempts[k] < MaxPushAttempts
    BY <2>1 DEF PushInv
  <2> QED BY <1>4, <1>6, <2>1, <2>2
<1>13. ASSUME NEW k \in Alerts \ late PROVE InTime(k)'
  <2>1. InTime(k)
    BY <1>13 DEF PushInv
  <2>2. CASE k = n
    <3>1. /\ \A v \in Pushers \ {w} : ~Carries(v, n)
          /\ a = push[n].attempts /\ pushed[n] <= push[n].attempts + 1
      BY <1>1, <1>2, <2>1, <2>2 DEF InTime, Carries
    <3>2. \A v \in Pushers : ~Carries(v, n)'
      BY <1>7, <1>8, <3>1 DEF Carries
    <3>3. pushed[n] <= row.attempts /\ pushed[n] <= row.attempts + 1
      BY <1>4, <3>1, PushTypes
    <3> QED BY <1>4, <1>6, <1>9, <2>2, <3>2, <3>3 DEF InTime
  <2>3. CASE k # n
    <3>1. \A v \in Pushers : Carries(v, k)' <=> Carries(v, k)
      BY <1>7, <1>8, <2>3 DEF Carries
    <3>2. \A v \in Pushers : Carries(v, k) =>
            /\ pushJob'[v].attempts[k] = pushJob[v].attempts[k]
            /\ pushJob'[v].outcome[k] = pushJob[v].outcome[k]
      BY <1>7, <1>8, <2>3 DEF Carries
    <3>3. push'[k] = push[k]
      BY <1>6, <2>3
    <3> QED BY <1>9, <2>1, <3>1, <3>2, <3>3 DEF InTime
  <2> QED BY <2>2, <2>3
<1>14. \A k \in Alerts : push'[k].status = "absent" => push'[k].attempts = 0
  BY <1>4, <1>6 DEF PushInv
<1> QED BY <1>9, <1>11, <1>12, <1>13, <1>14 DEF PushInv

LEMMA PushStep == ASSUME PushInv, [PushNext]_pushVars PROVE PushInv'
<1>1. CASE UNCHANGED pushVars
  BY <1>1 DEF pushVars, PushInv, PushTypeOK, InTime, Carries
<1>2. CASE RegisterPhone \/ RevokePhone \/ SetPreference \/ \E mode \in PushModes : SwitchPush(mode)
  BY <1>2, SurroundingSteps
<1>3. CASE \E n \in Alerts : Notify(n) \/ PushFallsDue(n) \/ PushGoesStale(n)
  BY <1>3, TableSteps
<1>4. CASE \E w \in Pushers : ClaimPushes(w) \/ PusherDies(w)
  BY <1>4, ClaimKeeps, DeathKeeps
<1>5. CASE \E w \in Pushers, n \in Alerts : MarkPush(w, n)
  BY <1>5, MarkKeeps
<1>6. CASE \E w \in Pushers, n \in Alerts, outcome \in PushOutcomes : SendPush(w, n, outcome)
  BY <1>6, SendingKeeps
<1> QED BY <1>1, <1>2, <1>3, <1>4, <1>5, <1>6 DEF PushNext

LEMMA PushPart == Next => [PushNext]_pushVars
BY DEF Next, EmailSteps, DeviceSteps, PushSteps, ImageSteps, BadgeSteps, TalkSteps, AgentSteps

LEMMA PushAlways == Spec => []PushInv
<1>1. Init => PushInv
  BY PushStart DEF Init
<1>2. PushInv /\ [Next]_allVars => PushInv'
  BY PushStep, PushPart DEF allVars, pushVars
<1> QED BY <1>1, <1>2, PTL DEF Spec

\* A push with a final result is held by no worker while its claims are in
\* time, and its alert is on record: nothing queues or sends it again.
LEMMA FinalStays ==
  ASSUME PushInv, [PushNext]_pushVars, NEW n \in Alerts \ late', push[n].status \in Final
  PROVE  push'[n] = push[n] /\ pushed'[n] = pushed[n]
<1>1. late \subseteq late'
  BY DEF PushNext, RegisterPhone, RevokePhone, SetPreference, SwitchPush, Notify, PushFallsDue,
         PushGoesStale, ClaimPushes, PusherDies, MarkPush, SendPush, pushVars, workVars
<1>2. /\ push \in [Alerts -> PushRow] /\ pushed \in [Alerts -> Nat]
      /\ n \in alerted /\ \A w \in Pushers : n \notin pushJob[w].rows
      /\ push[n].status \notin {"absent", "queued", "sending", "failed"}
  <2>1. InTime(n)
    BY <1>1 DEF PushInv
  <2>2. push[n].status \notin {"absent", "queued", "sending", "failed"}
    BY DEF Final
  <2> QED BY <2>1, <2>2 DEF PushInv, PushTypeOK, InTime, Carries
<1>3. CASE \E k \in Alerts : Notify(k) \/ PushFallsDue(k) \/ PushGoesStale(k)
  BY <1>2, <1>3 DEF Notify, FirstAlert, PushFallsDue, PushGoesStale
<1>4. ASSUME NEW w \in Pushers, ClaimPushes(w)
      PROVE  push'[n] = push[n] /\ pushed'[n] = pushed[n]
  <2>1. n \notin Claimable
    BY <1>2 DEF Claimable, Abandoned
  <2> QED BY <1>4, <2>1 DEF ClaimPushes, kSubset
<1>5. ASSUME NEW w \in Pushers, NEW k \in Alerts, MarkPush(w, k)
      PROVE  push'[n] = push[n] /\ pushed'[n] = pushed[n]
  <2>1. k # n
    BY <1>2, <1>5 DEF MarkPush
  <2> QED BY <1>2, <1>5, <2>1 DEF MarkPush
<1>6. ASSUME NEW w \in Pushers, NEW k \in Alerts, NEW outcome \in PushOutcomes,
             SendPush(w, k, outcome)
      PROVE  push'[n] = push[n] /\ pushed'[n] = pushed[n]
  <2>1. k # n
    BY <1>2, <1>6 DEF SendPush
  <2> QED BY <1>2, <1>6, <2>1 DEF SendPush
<1>7. CASE \/ RegisterPhone \/ RevokePhone \/ SetPreference
           \/ \E mode \in PushModes : SwitchPush(mode)
           \/ \E w \in Pushers : PusherDies(w)
           \/ UNCHANGED pushVars
  BY <1>7 DEF RegisterPhone, RevokePhone, SetPreference, SwitchPush, PusherDies, pushVars, workVars
<1> QED BY <1>3, <1>4, <1>5, <1>6, <1>7 DEF PushNext

\* MessageInvariant: a mail server takes a message at most once for each
\* attempt on record and each batch that died after sending it, whichever
\* mailers drain (process_due_email_deliveries); a phone rings for one account,
\* and never again for one that gave it up (register_my_push_device); and
\* overlapping workers do not repeat a push (_claim_due_push_deliveries).
THEOREM MessagesAreAccountedFor == Spec => []MessageInvariant
<1>1. MailInv /\ DeviceInv /\ PushInv => MessageInvariant
  BY MailInvImplies, DeviceInvImplies, PushInvImplies DEF MessageInvariant, PhoneInvariant
<1> QED BY <1>1, MailAlways, DeviceAlways, PushAlways, PTL

-----------------------------------------------------------------------------
(* Image jobs.                                                             *)

Requested == {j \in ImageJobs : imageJob[j].state # "absent"}

\* The jobs table: a kind has one active job, and the period's jobs fit the
\* quota.
JobsFine ==
    /\ imageJob \in [ImageJobs -> ImageJobRow]
    /\ IsFiniteSet(Requested)
    /\ \A i, j \in InState({"queued", "running"}) : imageJob[i].kind = imageJob[j].kind => i = j
    /\ quota \in Quotas /\ quotaCut \subseteq ImageKinds
    /\ QuotaHolds

\* A job has one worker in its life, which knows the calls made for it; a job
\* that was not claimed has none.
WorkersFine ==
    /\ imageWorker \in [ImageWorkers -> WorkerRow]
    /\ calls \in [ImageJobs -> 0..PaidCalls]
    /\ \A j \in InState({"absent", "queued"}) :
         calls[j] = 0 /\ \A w \in ImageWorkers : imageWorker[w].job # j
    /\ \A w \in ImageWorkers : imageWorker[w].job # NoImage =>
         calls[imageWorker[w].job] = imageWorker[w].made
    /\ \A w, v \in ImageWorkers :
         imageWorker[w].job # NoImage /\ imageWorker[w].job = imageWorker[v].job => w = v

FilesFine ==
    /\ private \subseteq ImageJobs
    /\ public \subseteq ImageJobs
    /\ shown \in [ImageKinds -> ImageJobs \cup {NoImage}]
    /\ {draft, session, imagesOn} \subseteq BOOLEAN
    /\ CandidateHasFile
    /\ ShownImageExists

ImageInv == JobsFine /\ WorkersFine /\ FilesFine

LEMMA ImageInvImplies == ImageInv => ImageInvariant
<1> SUFFICES ASSUME ImageInv PROVE ImageInvariant
  OBVIOUS
<1>1. ASSUME NEW k \in ImageKinds
      PROVE  Cardinality(OfKind(k) \cap InState({"queued", "running"})) <= 1
  <2> DEFINE S == OfKind(k) \cap InState({"queued", "running"})
  <2>1. CASE S = {}
    BY <2>1, FS_EmptySet
  <2>2. CASE S # {}
    <3>1. PICK j \in S : S = {j}
      BY <2>2 DEF ImageInv, JobsFine, OfKind
    <3>2. Cardinality({j}) = 1
      BY FS_Singleton
    <3> QED BY <3>1, <3>2
  <2> QED BY <2>1, <2>2
<1>2. calls \in [ImageJobs -> Nat] /\ JobPaidOnce
  BY DEF ImageInv, WorkersFine, JobPaidOnce, PaidCalls
<1>3. ImageTypeOK
  BY <1>1, <1>2 DEF ImageInv, JobsFine, WorkersFine, FilesFine, ImageTypeOK
<1> QED BY <1>2, <1>3 DEF ImageInv, JobsFine, FilesFine, ImageInvariant

LEMMA ImageRows ==
  /\ AbsentJob \in ImageJobRow /\ AbsentJob.state = "absent" /\ ~AbsentJob.recent
  /\ IdleWorker \in WorkerRow /\ IdleWorker.job = NoImage /\ IdleWorker.made = 0
BY DEF AbsentJob, ImageJobRow, ImageKinds, ImageStates, IdleWorker, WorkerRow, PaidCalls

LEMMA RecentJobs ==
  ASSUME JobsFine
  PROVE  \A k : /\ IsFiniteSet(Recent(OfKind(k)))
                /\ Cardinality(Recent(OfKind(k))) \in Nat
<1>1. \A k : Recent(OfKind(k)) \subseteq Requested
  BY DEF Recent, OfKind, Requested
<1> QED BY <1>1, FS_Subset, FS_CardinalityType DEF JobsFine

LEMMA QuotaNumbers == JobsFine => quota.global \in Nat /\ quota.item \in Nat
BY ThumbnailAssumption DEF JobsFine, ThumbnailAssumption

LEMMA ImageStart == ImageInit => ImageInv
<1> SUFFICES ASSUME ImageInit PROVE ImageInv
  OBVIOUS
<1>1. \A j \in ImageJobs : imageJob[j] = AbsentJob
  BY DEF ImageInit
<1>2. \A w \in ImageWorkers : imageWorker[w] = IdleWorker
  BY DEF ImageInit
<1>3. JobsFine
  <2>1. Requested = {} /\ InState({"queued", "running"}) = {}
    BY <1>1, ImageRows DEF Requested, InState
  <2>2. \A k : Recent(OfKind(k)) = {}
    BY <1>1, ImageRows DEF Recent, OfKind
  <2>3. Cardinality({}) = 0 /\ IsFiniteSet({})
    BY FS_EmptySet
  <2>4. QuotaHolds
    <3>1. UsedUnits = 0 + 2 * 0
      BY <2>2, <2>3 DEF UsedUnits
    <3>2. quota.global \in Nat /\ quota.item \in Nat
      BY ThumbnailAssumption DEF ImageInit, ThumbnailAssumption
    <3> QED BY <2>2, <2>3, <3>1, <3>2 DEF QuotaHolds
  <2>5. imageJob \in [ImageJobs -> ImageJobRow] /\ quota \in Quotas /\ quotaCut \subseteq ImageKinds
    BY ImageRows DEF ImageInit
  <2> QED BY <2>1, <2>3, <2>4, <2>5 DEF JobsFine
<1>4. WorkersFine
  <2>1. /\ imageWorker \in [ImageWorkers -> WorkerRow]
        /\ calls \in [ImageJobs -> 0..PaidCalls] /\ \A j \in ImageJobs : calls[j] = 0
    BY ImageRows DEF ImageInit, PaidCalls
  <2>2. \A j \in ImageJobs : j # NoImage
    BY ThumbnailAssumption DEF ThumbnailAssumption
  <2> QED BY <1>2, <2>1, <2>2, ImageRows DEF WorkersFine, InState
<1>5. FilesFine
  <2>1. InState({"succeeded"}) = {}
    BY <1>1, ImageRows DEF InState
  <2> QED BY <2>1 DEF ImageInit, FilesFine, CandidateHasFile, ShownImageExists
<1> QED BY <1>3, <1>4, <1>5 DEF ImageInv

-----------------------------------------------------------------------------
(* How the parts survive changes of the table, the workers and the files.  *)

\* Jobs keep their kind, grow old, and none becomes active.
LEMMA TableKeeps ==
  ASSUME JobsFine, imageJob' \in [ImageJobs -> ImageJobRow],
         UNCHANGED <<quota, quotaCut>>,
         \A j \in ImageJobs :
           /\ imageJob'[j].state # "absent" =>
                imageJob[j].state # "absent" /\ imageJob'[j].kind = imageJob[j].kind
           /\ imageJob'[j].recent => imageJob[j].recent
           /\ imageJob'[j].state \in {"queued", "running"} =>
                imageJob[j].state \in {"queued", "running"}
  PROVE  JobsFine'
<1>1. IsFiniteSet(Requested')
  <2>1. Requested' \subseteq Requested
    BY DEF Requested
  <2> QED BY <2>1, FS_Subset DEF JobsFine
<1>2. \A i, j \in InState({"queued", "running"})' : imageJob'[i].kind = imageJob'[j].kind => i = j
  <2> SUFFICES ASSUME NEW i \in InState({"queued", "running"})',
                      NEW j \in InState({"queued", "running"})',
                      imageJob'[i].kind = imageJob'[j].kind
               PROVE  i = j
    OBVIOUS
  <2>1. /\ i \in InState({"queued", "running"}) /\ imageJob'[i].kind = imageJob[i].kind
        /\ j \in InState({"queued", "running"}) /\ imageJob'[j].kind = imageJob[j].kind
    BY DEF InState
  <2> QED BY <2>1 DEF JobsFine
<1>3. QuotaHolds'
  <2>1. \A k : Recent(OfKind(k))' \subseteq Recent(OfKind(k))
    BY DEF Recent, OfKind
  <2>2. \A k : /\ Cardinality(Recent(OfKind(k))') <= Cardinality(Recent(OfKind(k)))
               /\ Cardinality(Recent(OfKind(k))') \in Nat
               /\ Cardinality(Recent(OfKind(k))) \in Nat
    BY <2>1, RecentJobs, FS_Subset, FS_CardinalityType
  <2>3. PICK a, b, c, d \in Nat :
          /\ a = Cardinality(Recent(OfKind("market"))) /\ b = Cardinality(Recent(OfKind("badge")))
          /\ c = Cardinality(Recent(OfKind("market"))') /\ d = Cardinality(Recent(OfKind("badge"))')
          /\ c <= a /\ d <= b
    BY <2>2
  <2>4. quota.global \in Nat /\ quota.item \in Nat
    BY QuotaNumbers
  <2>5. a + 2 * b <= quota.global => c + 2 * d <= quota.global
    BY <2>3, <2>4
  <2>6. UsedUnits' <= quota.global \/ quotaCut = ImageKinds
    BY <2>3, <2>5 DEF JobsFine, QuotaHolds, UsedUnits
  <2>7. ASSUME NEW k \in ImageKinds
        PROVE  Cardinality(Recent(OfKind(k))') <= quota.item \/ k \in quotaCut
    BY <2>2, <2>4 DEF JobsFine, QuotaHolds
  <2> QED BY <2>6, <2>7 DEF QuotaHolds
<1> QED BY <1>1, <1>2, <1>3 DEF JobsFine

\* Workers do nothing, and no job returns to the queue.
LEMMA WorkersWait ==
  ASSUME WorkersFine, UNCHANGED <<imageWorker, calls>>,
         \A j \in ImageJobs : imageJob'[j].state \in {"absent", "queued"} =>
                                imageJob[j].state \in {"absent", "queued"}
  PROVE  WorkersFine'
<1>1. InState({"absent", "queued"})' \subseteq InState({"absent", "queued"})
  BY DEF InState
<1> QED BY <1>1 DEF WorkersFine

\* One worker changes, with the same job and calls or none.
LEMMA WorkerChanges ==
  ASSUME WorkersFine, NEW w \in ImageWorkers, NEW row \in WorkerRow,
         imageWorker' = [imageWorker EXCEPT ![w] = row], calls' = calls,
         \/ row.job = NoImage
         \/ row.job = imageWorker[w].job /\ row.made = imageWorker[w].made,
         \A j \in ImageJobs : imageJob'[j].state \in {"absent", "queued"} =>
                                imageJob[j].state \in {"absent", "queued"}
  PROVE  WorkersFine'
<1>1. InState({"absent", "queued"})' \subseteq InState({"absent", "queued"})
  BY DEF InState
<1>2. /\ imageWorker' \in [ImageWorkers -> WorkerRow]
      /\ imageWorker'[w] = row
      /\ \A v \in ImageWorkers \ {w} : imageWorker'[v] = imageWorker[v]
  BY DEF WorkersFine
<1>3. \A j \in InState({"absent", "queued"})' : j # NoImage
  BY ThumbnailAssumption DEF ThumbnailAssumption, InState
<1> QED BY <1>1, <1>2, <1>3 DEF WorkersFine

\* Files and settings stay: what can be applied could be before.
LEMMA FilesWait ==
  ASSUME FilesFine, UNCHANGED <<public, shown>>,
         private \subseteq private', private' \subseteq ImageJobs,
         {draft', session', imagesOn'} \subseteq BOOLEAN,
         \A j \in ImageJobs : imageJob'[j].state = "succeeded" /\ ~imageJob'[j].expired =>
           j \in private' \/ (imageJob[j].state = "succeeded" /\ ~imageJob[j].expired)
  PROVE  FilesFine'
BY DEF FilesFine, CandidateHasFile, ShownImageExists, InState

LEMMA JobTypes ==
  ASSUME JobsFine
  PROVE  \A j \in ImageJobs :
           /\ imageJob[j] \in ImageJobRow
           /\ imageJob[j].state \in ImageStates /\ imageJob[j].kind \in ImageKinds
           /\ imageJob[j].leaseOver \in BOOLEAN /\ imageJob[j].expired \in BOOLEAN
           /\ imageJob[j].recent \in BOOLEAN /\ imageJob[j].applied \in BOOLEAN
BY DEF JobsFine, ImageJobRow

\* What giving up an abandoned job changes of its row.
LEMMA RecoveredRow ==
  ASSUME NEW row \in ImageJobRow
  PROVE  /\ Recovered(row) \in ImageJobRow
         /\ Recovered(row).kind = row.kind
         /\ Recovered(row).recent = row.recent
         /\ Recovered(row).expired = row.expired
         /\ Recovered(row).state = row.state
            \/ (row.state = "running" /\ Recovered(row).state = "uncertain")
         /\ row.state # "running" => Recovered(row) = row
BY DEF Recovered, ImageJobRow, ImageStates

-----------------------------------------------------------------------------
(* The steps of the image jobs.                                            *)

\* A request adds one job of a kind that has none active, within the quota.
LEMMA ReserveKeeps ==
  ASSUME ImageInv, NEW j \in ImageJobs, NEW k \in ImageKinds, Reserve(j, k)
  PROVE  ImageInv'
<1> DEFINE row == [AbsentJob EXCEPT !.kind = k, !.state = "queued", !.recent = TRUE]
<1>1. /\ row \in ImageJobRow /\ row.kind = k /\ row.state = "queued" /\ row.recent
  BY DEF AbsentJob, ImageJobRow, ImageStates, ImageKinds
<1>2. /\ imageJob' = [imageJob EXCEPT ![j] = row]
      /\ imageJob[j].state = "absent" /\ NoneActive(k) /\ FitsQuota(k)
      /\ quotaCut' = quotaCut \ {k}
      /\ UNCHANGED <<imageWorker, calls, private, public, shown, draft, session, imagesOn, quota>>
  BY DEF Reserve
<1> HIDE DEF row
<1>3. /\ imageJob' \in [ImageJobs -> ImageJobRow] /\ imageJob'[j] = row
      /\ \A i \in ImageJobs \ {j} : imageJob'[i] = imageJob[i]
  BY <1>1, <1>2 DEF ImageInv, JobsFine
<1>4. JobsFine'
  <2>1. IsFiniteSet(Requested')
    <3>1. Requested' = Requested \cup {j}
      BY <1>1, <1>3 DEF Requested
    <3> QED BY <3>1, FS_AddElement DEF ImageInv, JobsFine
  <2>2. \A a, b \in InState({"queued", "running"})' : imageJob'[a].kind = imageJob'[b].kind => a = b
    <3>1. \A a \in InState({"queued", "running"}) : imageJob[a].kind # k
      BY <1>2 DEF NoneActive, OfKind, InState
    <3>2. ASSUME NEW a \in InState({"queued", "running"})'
          PROVE  a = j \/ (a # j /\ a \in InState({"queued", "running"}) /\ imageJob'[a] = imageJob[a])
      BY <1>3 DEF InState
    <3>3. imageJob'[j].kind = k
      BY <1>1, <1>3
    <3> QED BY <3>1, <3>2, <3>3 DEF ImageInv, JobsFine
  <2>3. QuotaHolds'
    <3> DEFINE other == IF k = "market" THEN "badge" ELSE "market"
    <3>1. Recent(OfKind(k))' = Recent(OfKind(k)) \cup {j} /\ j \notin Recent(OfKind(k))
      BY <1>1, <1>2, <1>3 DEF Recent, OfKind
    <3>2. Recent(OfKind(other))' = Recent(OfKind(other))
      <4>1. other # k
        BY DEF ImageKinds
      <4> QED BY <1>1, <1>2, <1>3, <4>1 DEF Recent, OfKind
    <3>3. Cardinality(Recent(OfKind(k))') = Cardinality(Recent(OfKind(k))) + 1
      BY <3>1, RecentJobs, FS_AddElement DEF ImageInv
    <3>4. PICK a, b \in Nat :
            a = Cardinality(Recent(OfKind("market"))) /\ b = Cardinality(Recent(OfKind("badge")))
      BY RecentJobs DEF ImageInv
    <3>5. quota.global \in Nat /\ quota.item \in Nat
      BY QuotaNumbers DEF ImageInv
    <3>8. ASSUME NEW i \in ImageKinds
          PROVE  Cardinality(Recent(OfKind(i))') <= quota.item \/ i \in quotaCut \ {k}
      <4>1. CASE i = k
        <5>1. PICK n \in Nat : n = Cardinality(Recent(OfKind(k)))
          BY RecentJobs DEF ImageInv
        <5>2. n < quota.item
          BY <1>2, <5>1 DEF FitsQuota
        <5> QED BY <3>3, <3>5, <4>1, <5>1, <5>2
      <4>2. CASE i # k
        <5>1. Recent(OfKind(i))' = Recent(OfKind(i))
          BY <1>1, <1>2, <1>3, <4>2 DEF Recent, OfKind
        <5> QED BY <4>2, <5>1 DEF ImageInv, JobsFine, QuotaHolds
      <4> QED BY <4>1, <4>2
    <3>6. CASE k = "market"
      <4>1. UsedUnits' = (a + 1) + 2 * b
        BY <3>2, <3>3, <3>4, <3>6 DEF UsedUnits
      <4>2. a + 2 * b < quota.global
        BY <1>2, <3>4, <3>6 DEF FitsQuota, UsedUnits
      <4>3. (a + 1) + 2 * b <= quota.global
        BY <3>4, <3>5, <4>2
      <4> QED BY <1>2, <3>8, <4>1, <4>3 DEF QuotaHolds
    <3>7. CASE k = "badge"
      <4>1. UsedUnits' = a + 2 * (b + 1)
        BY <3>2, <3>3, <3>4, <3>7 DEF UsedUnits
      <4>2. a + 2 * b + 2 <= quota.global
        BY <1>2, <3>4, <3>7 DEF FitsQuota, UsedUnits
      <4>3. a + 2 * (b + 1) <= quota.global
        BY <3>4, <3>5, <4>2
      <4> QED BY <1>2, <3>8, <4>1, <4>3 DEF QuotaHolds
    <3> QED BY <3>6, <3>7 DEF ImageKinds
  <2>4. quota' \in Quotas /\ quotaCut' \subseteq ImageKinds
    BY <1>2 DEF ImageInv, JobsFine
  <2> QED BY <1>3, <2>1, <2>2, <2>3, <2>4 DEF JobsFine
<1>5. WorkersFine'
  BY <1>2, <1>3, WorkersWait DEF ImageInv
<1>6. FilesFine'
  BY <1>1, <1>2, <1>3, FilesWait DEF ImageInv, FilesFine
<1> QED BY <1>4, <1>5, <1>6 DEF ImageInv

\* One row changes and nothing else: a clock advances for it.
LEMMA RowOfImageJob ==
  ASSUME ImageInv, NEW j \in ImageJobs, NEW row \in ImageJobRow,
         imageJob' = [imageJob EXCEPT ![j] = row],
         UNCHANGED <<imageWorker, calls, private, public, shown, draft, session, imagesOn,
                 quota, quotaCut>>,
         row.state = imageJob[j].state, row.kind = imageJob[j].kind,
         row.recent => imageJob[j].recent,
         imageJob[j].expired => row.expired
  PROVE  ImageInv'
<1>1. /\ imageJob' \in [ImageJobs -> ImageJobRow] /\ imageJob'[j] = row
      /\ \A i \in ImageJobs \ {j} : imageJob'[i] = imageJob[i]
  BY DEF ImageInv, JobsFine
<1>2. JobsFine'
  BY <1>1, TableKeeps DEF ImageInv
<1>3. WorkersFine'
  BY <1>1, WorkersWait DEF ImageInv
<1>4. FilesFine'
  BY <1>1, FilesWait DEF ImageInv, FilesFine
<1> QED BY <1>2, <1>3, <1>4 DEF ImageInv

LEMMA ClocksKeep ==
  ASSUME ImageInv, NEW j \in ImageJobs, LeaseRunsOut(j) \/ JobExpires(j) \/ PeriodPasses(j)
  PROVE  ImageInv'
<1>1. imageJob[j] \in ImageJobRow
  BY DEF ImageInv, JobsFine
<1>2. UNCHANGED <<imageWorker, calls, private, public, shown, draft, session, imagesOn,
                 quota, quotaCut>>
  BY DEF LeaseRunsOut, JobExpires, PeriodPasses, settingVars
<1>3. CASE LeaseRunsOut(j)
  <2> DEFINE row == [imageJob[j] EXCEPT !.leaseOver = TRUE]
  <2>1. /\ row \in ImageJobRow /\ row.state = imageJob[j].state /\ row.kind = imageJob[j].kind
        /\ row.recent = imageJob[j].recent /\ row.expired = imageJob[j].expired
    BY <1>1 DEF ImageJobRow
  <2>2. imageJob' = [imageJob EXCEPT ![j] = row]
    BY <1>3 DEF LeaseRunsOut
  <2> HIDE DEF row
  <2> QED BY <1>2, <2>1, <2>2, RowOfImageJob
<1>4. CASE JobExpires(j)
  <2> DEFINE row == [imageJob[j] EXCEPT !.expired = TRUE]
  <2>1. /\ row \in ImageJobRow /\ row.state = imageJob[j].state /\ row.kind = imageJob[j].kind
        /\ row.recent = imageJob[j].recent /\ row.expired
    BY <1>1 DEF ImageJobRow
  <2>2. imageJob' = [imageJob EXCEPT ![j] = row]
    BY <1>4 DEF JobExpires
  <2> HIDE DEF row
  <2> QED BY <1>2, <2>1, <2>2, RowOfImageJob
<1>5. CASE PeriodPasses(j)
  <2> DEFINE row == [imageJob[j] EXCEPT !.recent = FALSE]
  <2>1. /\ row \in ImageJobRow /\ row.state = imageJob[j].state /\ row.kind = imageJob[j].kind
        /\ ~row.recent /\ row.expired = imageJob[j].expired
    BY <1>1 DEF ImageJobRow
  <2>2. imageJob' = [imageJob EXCEPT ![j] = row]
    BY <1>5 DEF PeriodPasses
  <2> HIDE DEF row
  <2> QED BY <1>2, <2>1, <2>2, RowOfImageJob
<1> QED BY <1>3, <1>4, <1>5

\* A claim takes a job nobody worked on, for which nothing was paid.
LEMMA RunOnceKeeps ==
  ASSUME ImageInv, NEW w \in ImageWorkers, RunOnce(w)
  PROVE  ImageInv'
<1>1. /\ imageJob \in [ImageJobs -> ImageJobRow] /\ imageWorker \in [ImageWorkers -> WorkerRow]
      /\ UNCHANGED <<calls, private, public, shown, draft, session, imagesOn,
                 quota, quotaCut>>
      /\ imageWorker[w] = IdleWorker
  BY DEF ImageInv, JobsFine, WorkersFine, RunOnce, settingVars
<1>2. /\ AllRecovered \in [ImageJobs -> ImageJobRow]
      /\ \A i \in ImageJobs : AllRecovered[i] = Recovered(imageJob[i])
  BY <1>1, RecoveredRow DEF AllRecovered
<1>3. CASE imageJob' = AllRecovered /\ UNCHANGED imageWorker
  <2>1. \A i \in ImageJobs :
          /\ imageJob'[i].kind = imageJob[i].kind /\ imageJob'[i].recent = imageJob[i].recent
          /\ imageJob'[i].expired = imageJob[i].expired
          /\ imageJob'[i].state = imageJob[i].state
             \/ (imageJob[i].state = "running" /\ imageJob'[i].state = "uncertain")
    BY <1>1, <1>2, <1>3, RecoveredRow
  <2>2. JobsFine'
    BY <1>1, <1>2, <1>3, <2>1, TableKeeps DEF ImageInv
  <2>3. WorkersFine'
    BY <1>1, <1>3, <2>1, WorkersWait DEF ImageInv
  <2>4. FilesFine'
    BY <1>1, <1>3, <2>1, FilesWait DEF ImageInv, FilesFine
  <2> QED BY <2>2, <2>3, <2>4 DEF ImageInv
<1>4. ASSUME NEW j \in InState({"queued"}),
             \/ /\ imageJob' = [AllRecovered EXCEPT ![j].state = "failed", ![j].expired = FALSE]
                /\ UNCHANGED imageWorker
             \/ /\ imageJob' = [AllRecovered EXCEPT ![j].state = "running"]
                /\ imageWorker' = [imageWorker EXCEPT ![w].job = j]
      PROVE  ImageInv'
  <2>1. /\ j \in ImageJobs /\ imageJob[j].state = "queued"
        /\ Recovered(imageJob[j]) = imageJob[j] /\ imageJob[j] \in ImageJobRow
        /\ AllRecovered[j] = imageJob[j]
    BY <1>1, <1>2, RecoveredRow DEF InState
  <2>2. PICK s \in {"failed", "running"} :
          /\ imageJob' \in [ImageJobs -> ImageJobRow]
          /\ imageJob'[j].state = s
          /\ imageJob'[j].kind = imageJob[j].kind /\ imageJob'[j].recent = imageJob[j].recent
          /\ \A i \in ImageJobs \ {j} : imageJob'[i] = Recovered(imageJob[i])
          /\ \/ UNCHANGED imageWorker
             \/ imageWorker' = [imageWorker EXCEPT ![w].job = j] /\ s = "running"
    <3>1. CASE /\ imageJob' = [AllRecovered EXCEPT ![j].state = "failed", ![j].expired = FALSE]
               /\ UNCHANGED imageWorker
      <4> DEFINE row == [imageJob[j] EXCEPT !.state = "failed", !.expired = FALSE]
      <4>1. row \in ImageJobRow /\ row.state = "failed" /\ row.kind = imageJob[j].kind
            /\ row.recent = imageJob[j].recent
        BY <2>1 DEF ImageJobRow, ImageStates
      <4>2. imageJob' = [AllRecovered EXCEPT ![j] = row]
        BY <1>2, <2>1, <3>1
      <4> HIDE DEF row
      <4>3. /\ imageJob' \in [ImageJobs -> ImageJobRow] /\ imageJob'[j] = row
            /\ \A i \in ImageJobs \ {j} : imageJob'[i] = Recovered(imageJob[i])
        BY <1>2, <2>1, <4>1, <4>2
      <4> QED BY <3>1, <4>1, <4>3
    <3>2. CASE /\ imageJob' = [AllRecovered EXCEPT ![j].state = "running"]
               /\ imageWorker' = [imageWorker EXCEPT ![w].job = j]
      <4> DEFINE row == [imageJob[j] EXCEPT !.state = "running"]
      <4>1. row \in ImageJobRow /\ row.state = "running" /\ row.kind = imageJob[j].kind
            /\ row.recent = imageJob[j].recent
        BY <2>1 DEF ImageJobRow, ImageStates
      <4>2. imageJob' = [AllRecovered EXCEPT ![j] = row]
        BY <1>2, <2>1, <3>2
      <4> HIDE DEF row
      <4>3. /\ imageJob' \in [ImageJobs -> ImageJobRow] /\ imageJob'[j] = row
            /\ \A i \in ImageJobs \ {j} : imageJob'[i] = Recovered(imageJob[i])
        BY <1>2, <2>1, <4>1, <4>2
      <4> QED BY <3>2, <4>1, <4>3
    <3> QED BY <1>4, <3>1, <3>2
  <2>3. \A i \in ImageJobs \ {j} :
          /\ imageJob'[i].kind = imageJob[i].kind /\ imageJob'[i].recent = imageJob[i].recent
          /\ imageJob'[i].expired = imageJob[i].expired
          /\ imageJob'[i].state = imageJob[i].state
             \/ (imageJob[i].state = "running" /\ imageJob'[i].state = "uncertain")
    BY <1>1, <2>2, RecoveredRow
  <2>4. JobsFine'
    BY <1>1, <2>1, <2>2, <2>3, TableKeeps DEF ImageInv
  <2>5. FilesFine'
    BY <1>1, <2>2, <2>3, FilesWait DEF ImageInv, FilesFine
  <2>6. \A i \in ImageJobs : imageJob'[i].state \in {"absent", "queued"} =>
          i # j /\ imageJob[i].state \in {"absent", "queued"}
    BY <2>2, <2>3
  <2>7. WorkersFine'
    <3>1. CASE UNCHANGED imageWorker
      BY <1>1, <2>6, <3>1, WorkersWait DEF ImageInv
    <3>2. CASE imageWorker' = [imageWorker EXCEPT ![w].job = j]
      <4> DEFINE row == [IdleWorker EXCEPT !.job = j]
      <4>1. row \in WorkerRow /\ row.job = j /\ row.made = 0
        BY <2>1, ImageRows DEF WorkerRow
      <4>2. imageWorker' = [imageWorker EXCEPT ![w] = row]
        BY <1>1, <3>2
      <4> HIDE DEF row
      <4>3. /\ imageWorker' \in [ImageWorkers -> WorkerRow] /\ imageWorker'[w] = row
            /\ \A v \in ImageWorkers \ {w} : imageWorker'[v] = imageWorker[v]
        BY <1>1, <4>1, <4>2
      <4>4. calls[j] = 0 /\ \A v \in ImageWorkers : imageWorker[v].job # j
        BY <2>1 DEF ImageInv, WorkersFine, InState
      <4>5. \A i \in InState({"absent", "queued"})' : i # j /\ i \in InState({"absent", "queued"})
        BY <2>6 DEF InState
      <4> QED BY <1>1, <4>1, <4>3, <4>4, <4>5 DEF ImageInv, WorkersFine
    <3> QED BY <2>2, <3>1, <3>2
  <2> QED BY <2>4, <2>5, <2>7 DEF ImageInv
<1> QED BY <1>3, <1>4 DEF RunOnce

\* The transaction before a call, and the call.
LEMMA WorkKeeps ==
  ASSUME ImageInv, NEW w \in ImageWorkers, NEW failure \in {"none", "failed", "uncertain"},
         Checkpoint(w) \/ CallProvider(w, failure)
  PROVE  ImageInv'
<1> DEFINE worker == imageWorker[w]
<1>1. /\ imageWorker \in [ImageWorkers -> WorkerRow] /\ worker \in WorkerRow
      /\ UNCHANGED <<imageJob, private, public, shown, draft, session, imagesOn,
                 quota, quotaCut>>
      /\ Working(w)
  BY DEF ImageInv, WorkersFine, Checkpoint, CallProvider, settingVars
<1>2. JobsFine'
  BY <1>1, TableKeeps DEF ImageInv, JobsFine
<1>3. FilesFine'
  BY <1>1, FilesWait DEF ImageInv, FilesFine
<1>4. CASE Checkpoint(w)
  <2>1. PICK row :
          /\ imageWorker' = [imageWorker EXCEPT ![w] = row]
          /\ row \in {[worker EXCEPT !.cleared = TRUE], [worker EXCEPT !.failure = "failed"],
                      IdleWorker, [worker EXCEPT !.failure = "uncertain"]}
    <3> DEFINE row == CASE Owns(w) /\ Eligible(worker.job) -> [worker EXCEPT !.cleared = TRUE]
               [] Owns(w) -> [worker EXCEPT !.failure = "failed"]
               [] OTHER -> IF imageJob[worker.job].kind = "badge" THEN IdleWorker
                           ELSE [worker EXCEPT !.failure = "uncertain"]
    <3>1. imageWorker' = [imageWorker EXCEPT ![w] = row]
      BY <1>4 DEF Checkpoint
    <3>2. row \in {[worker EXCEPT !.cleared = TRUE], [worker EXCEPT !.failure = "failed"],
                      IdleWorker, [worker EXCEPT !.failure = "uncertain"]}
      <4>1. CASE Owns(w)
        BY <4>1
      <4>2. CASE ~Owns(w)
        BY <4>2
      <4> QED BY <4>1, <4>2
    <3> QED BY <3>1, <3>2
  <2>2. row \in WorkerRow
        /\ (row.job = NoImage \/ (row.job = worker.job /\ row.made = worker.made))
    BY <1>1, <2>1, ImageRows DEF WorkerRow
  <2>3. calls' = calls
    BY <1>4 DEF Checkpoint
  <2>4. WorkersFine'
    BY <1>1, <2>1, <2>2, <2>3, WorkerChanges DEF ImageInv
  <2> QED BY <1>2, <1>3, <2>4 DEF ImageInv
<1>5. CASE CallProvider(w, failure)
  <2>1. PICK j \in ImageJobs, n \in 0..1 : j = worker.job /\ n = worker.made
    <3>1. worker.job \in ImageJobs \cup {NoImage} /\ worker.made \in 0..PaidCalls
      BY <1>1 DEF WorkerRow
    <3> QED BY <1>1, <3>1 DEF Working, PaidCalls
  <2>2. /\ calls[j] = n
        /\ \A v \in ImageWorkers \ {w} : imageWorker[v].job # j
        /\ imageJob[j].state \notin {"absent", "queued"}
    <3>1. j # NoImage
      BY ThumbnailAssumption DEF ThumbnailAssumption
    <3> QED BY <2>1, <3>1 DEF ImageInv, WorkersFine, InState
  <2> DEFINE row == [worker EXCEPT !.made = n + 1, !.cleared = FALSE, !.failure = failure]
  <2>3. row \in WorkerRow /\ row.job = j /\ row.made = n + 1
    <3>1. n + 1 \in 0..PaidCalls
      BY DEF PaidCalls
    <3> QED BY <1>1, <2>1, <3>1 DEF WorkerRow
  <2>4. imageWorker' = [imageWorker EXCEPT ![w] = row] /\ calls' = [calls EXCEPT ![j] = n + 1]
    <3>1. imageWorker' = [imageWorker EXCEPT ![w] =
             [worker EXCEPT !.made = worker.made + 1, !.cleared = FALSE, !.failure = failure]]
      BY <1>5 DEF CallProvider
    <3>2. calls' = [calls EXCEPT ![worker.job] = calls[worker.job] + 1]
      BY <1>5 DEF CallProvider
    <3> QED BY <2>1, <2>2, <3>1, <3>2
  <2> HIDE DEF row
  <2>5. /\ imageWorker' \in [ImageWorkers -> WorkerRow] /\ imageWorker'[w] = row
        /\ \A v \in ImageWorkers \ {w} : imageWorker'[v] = imageWorker[v]
    BY <1>1, <2>3, <2>4
  <2>6. /\ calls' \in [ImageJobs -> 0..PaidCalls] /\ calls'[j] = n + 1
        /\ \A i \in ImageJobs \ {j} : calls'[i] = calls[i]
    <3>1. n + 1 \in 0..PaidCalls
      BY DEF PaidCalls
    <3> QED BY <2>4, <3>1 DEF ImageInv, WorkersFine
  <2>7. \A v \in ImageWorkers : imageWorker'[v].job = imageWorker[v].job
    BY <2>1, <2>3, <2>5
  <2>8. \A v \in ImageWorkers : imageWorker'[v].job # NoImage =>
          calls'[imageWorker'[v].job] = imageWorker'[v].made
    <3> SUFFICES ASSUME NEW v \in ImageWorkers, imageWorker'[v].job # NoImage
                 PROVE  calls'[imageWorker'[v].job] = imageWorker'[v].made
      OBVIOUS
    <3>1. CASE v = w
      BY <2>3, <2>5, <2>6, <3>1
    <3>2. CASE v # w
      <4>1. imageWorker[v].job \in ImageJobs \ {j} /\ imageWorker'[v] = imageWorker[v]
        BY <1>1, <2>2, <2>5, <3>2 DEF WorkerRow
      <4> QED BY <2>6, <4>1 DEF ImageInv, WorkersFine
    <3> QED BY <3>1, <3>2
  <2>9. WorkersFine'
    <3>1. \A i \in InState({"absent", "queued"})' :
            /\ i \in ImageJobs \ {j} /\ i \in InState({"absent", "queued"})
      BY <1>1, <2>2 DEF InState
    <3>2. \A i \in InState({"absent", "queued"})' :
            calls'[i] = 0 /\ \A v \in ImageWorkers : imageWorker'[v].job # i
      BY <2>6, <2>7, <3>1 DEF ImageInv, WorkersFine
    <3>3. \A u, v \in ImageWorkers :
            imageWorker'[u].job # NoImage /\ imageWorker'[u].job = imageWorker'[v].job => u = v
      BY <2>7 DEF ImageInv, WorkersFine
    <3> QED BY <2>5, <2>6, <2>8, <3>2, <3>3 DEF WorkersFine
  <2> QED BY <1>2, <1>3, <2>9 DEF ImageInv
<1> QED BY <1>4, <1>5

\* The end of a worker's work on a job, by a result or by its death.
LEMMA WorkEnds ==
  ASSUME ImageInv, NEW w \in ImageWorkers, NEW stored \in BOOLEAN,
         FinishJob(w, stored) \/ WorkerDies(w)
  PROVE  ImageInv'
<1>1. /\ imageWorker' = [imageWorker EXCEPT ![w] = IdleWorker]
      /\ UNCHANGED <<calls, public, shown, draft, session, imagesOn,
                 quota, quotaCut>>
      /\ imageWorker[w].job \in ImageJobs
  <2>1. imageWorker[w].job \in ImageJobs \cup {NoImage}
    BY DEF ImageInv, WorkersFine, WorkerRow
  <2> QED BY <2>1 DEF FinishJob, WorkerDies, Done, settingVars
<1>2. PICK j \in ImageJobs : j = imageWorker[w].job
  BY <1>1
<1>3. CASE imageJob' = imageJob /\ (private' = private \/ private' = private \cup {j})
  <2>1. JobsFine'
    BY <1>1, <1>3, TableKeeps DEF ImageInv, JobsFine
  <2>2. WorkersFine'
    BY <1>1, <1>3, ImageRows, WorkerChanges DEF ImageInv
  <2>3. FilesFine'
    BY <1>1, <1>3, FilesWait DEF ImageInv, FilesFine
  <2> QED BY <2>1, <2>2, <2>3 DEF ImageInv
<1>4. CASE FinishJob(w, stored) /\ Fenced(j)
  <2>1. PICK verdict \in {"uncertain", "failed", "succeeded"} :
          /\ imageJob' = [imageJob EXCEPT ![j].state = verdict, ![j].leaseOver = FALSE]
          /\ private' = IF verdict = "succeeded" THEN private \cup {j} ELSE private
    <3> DEFINE worker == imageWorker[w]
               verdict == CASE imageJob[worker.job].leaseOver -> "uncertain"
                     [] worker.failure # "none" -> worker.failure
                     [] ~Eligible(worker.job) \/ ~stored -> "failed"
                     [] OTHER -> "succeeded"
    <3>1. /\ imageJob' = [imageJob EXCEPT ![j].state = verdict, ![j].leaseOver = FALSE]
          /\ private' = IF verdict = "succeeded" THEN private \cup {j} ELSE private
      BY <1>2, <1>4 DEF FinishJob
    <3>2. worker.failure \in {"none", "failed", "uncertain"}
      BY DEF ImageInv, WorkersFine, WorkerRow
    <3>3. verdict \in {"uncertain", "failed", "succeeded"}
      <4>1. \/ verdict = "uncertain" \/ verdict = "failed" \/ verdict = "succeeded"
            \/ (worker.failure # "none" /\ verdict = worker.failure)
        OBVIOUS
      <4> QED BY <3>2, <4>1
    <3> QED BY <3>1, <3>3
  <2> DEFINE row == [imageJob[j] EXCEPT !.state = verdict, !.leaseOver = FALSE]
  <2>2. /\ row \in ImageJobRow /\ row.state = verdict /\ row.kind = imageJob[j].kind
        /\ row.recent = imageJob[j].recent /\ row.expired = imageJob[j].expired
    BY DEF ImageInv, JobsFine, ImageJobRow, ImageStates
  <2>3. imageJob' = [imageJob EXCEPT ![j] = row]
    BY <2>1
  <2> HIDE DEF row
  <2>4. /\ imageJob' \in [ImageJobs -> ImageJobRow] /\ imageJob'[j] = row
        /\ \A i \in ImageJobs \ {j} : imageJob'[i] = imageJob[i]
    BY <2>2, <2>3 DEF ImageInv, JobsFine
  <2>5. imageJob[j].state = "running"
    BY <1>4 DEF Fenced
  <2>6. JobsFine'
    BY <1>1, <2>2, <2>4, <2>5, TableKeeps DEF ImageInv
  <2>7. WorkersFine'
    BY <1>1, <2>2, <2>4, <2>5, ImageRows, WorkerChanges DEF ImageInv
  <2>8. FilesFine'
    <3>1. private \subseteq private' /\ private' \subseteq ImageJobs
      BY <2>1 DEF ImageInv, FilesFine
    <3>2. \A i \in ImageJobs : imageJob'[i].state = "succeeded" /\ ~imageJob'[i].expired =>
             i \in private' \/ (imageJob[i].state = "succeeded" /\ ~imageJob[i].expired)
      BY <2>1, <2>2, <2>4
    <3> QED BY <1>1, <3>1, <3>2, FilesWait DEF ImageInv, FilesFine
  <2> QED BY <2>6, <2>7, <2>8 DEF ImageInv
<1>5. CASE FinishJob(w, stored) /\ ~Fenced(j)
  <2>1. imageJob' = imageJob /\ private' = private
    BY <1>2, <1>5 DEF FinishJob
  <2> QED BY <1>3, <2>1
<1>6. CASE WorkerDies(w)
  <2>1. imageJob' = imageJob /\ (private' = private \/ private' = private \cup {j})
    BY <1>2, <1>6 DEF WorkerDies
  <2> QED BY <1>3, <2>1
<1> QED BY <1>4, <1>5, <1>6

\* A candidate is applied: its file is copied before the row refers to it.
LEMMA PromoteKeeps ==
  ASSUME ImageInv, NEW j \in ImageJobs, NEW commits \in BOOLEAN, Promote(j, commits)
  PROVE  ImageInv'
<1>1. /\ public' = public \cup {j}
      /\ imageJob[j].state = "succeeded" /\ j \in private
      /\ UNCHANGED <<imageWorker, calls, private, draft, session, imagesOn,
                 quota, quotaCut>>
  BY DEF Promote, settingVars
<1>2. PICK row \in ImageJobRow :
        /\ imageJob' = [imageJob EXCEPT ![j] = row]
        /\ row.state = imageJob[j].state /\ row.kind = imageJob[j].kind
        /\ row.recent = imageJob[j].recent /\ row.expired = imageJob[j].expired
  <2>1. imageJob \in [ImageJobs -> ImageJobRow]
    BY DEF ImageInv, JobsFine
  <2>2. CASE commits
    <3> DEFINE row == [imageJob[j] EXCEPT !.applied = TRUE]
    <3>1. /\ row \in ImageJobRow /\ row.state = imageJob[j].state
          /\ row.kind = imageJob[j].kind
          /\ row.recent = imageJob[j].recent /\ row.expired = imageJob[j].expired
      BY <2>1 DEF ImageJobRow
    <3>2. imageJob' = [imageJob EXCEPT ![j] = row]
      BY <2>2 DEF Promote
    <3> QED BY <3>1, <3>2
  <2>3. CASE ~commits
    <3>1. imageJob' = [imageJob EXCEPT ![j] = imageJob[j]]
      BY <2>1, <2>3 DEF Promote
    <3> QED BY <2>1, <3>1
  <2> QED BY <2>2, <2>3
<1>3. /\ imageJob' \in [ImageJobs -> ImageJobRow] /\ imageJob'[j] = row
      /\ \A i \in ImageJobs \ {j} : imageJob'[i] = imageJob[i]
  BY <1>2 DEF ImageInv, JobsFine
<1>4. JobsFine'
  BY <1>1, <1>2, <1>3, TableKeeps DEF ImageInv
<1>5. WorkersFine'
  BY <1>1, <1>2, <1>3, WorkersWait DEF ImageInv
<1>6. /\ shown' \in [ImageKinds -> ImageJobs \cup {NoImage}]
      /\ \A k \in ImageKinds : shown'[k] = shown[k] \/ shown'[k] = j
  <2>1. shown \in [ImageKinds -> ImageJobs \cup {NoImage}] /\ imageJob[j].kind \in ImageKinds
    BY DEF ImageInv, JobsFine, FilesFine, ImageJobRow
  <2>2. shown' = shown \/ shown' = [shown EXCEPT ![imageJob[j].kind] = j]
    BY DEF Promote
  <2> QED BY <2>1, <2>2
<1>7. FilesFine'
  <2>1. CandidateHasFile'
    BY <1>1, <1>2, <1>3 DEF ImageInv, FilesFine, CandidateHasFile, InState
  <2>2. ShownImageExists'
    BY <1>1, <1>6 DEF ImageInv, FilesFine, ShownImageExists
  <2> QED BY <1>1, <1>6, <2>1, <2>2 DEF ImageInv, FilesFine
<1> QED BY <1>4, <1>5, <1>7 DEF ImageInv

LEMMA ReplaceKeeps ==
  ASSUME ImageInv, NEW k \in ImageKinds, ReplaceImage(k)
  PROVE  ImageInv'
<1>1. /\ shown' = [shown EXCEPT ![k] = NoImage]
      /\ UNCHANGED <<imageJob, imageWorker, calls, private, public, draft, session, imagesOn,
                 quota, quotaCut>>
  BY DEF ReplaceImage, settingVars
<1>2. JobsFine' /\ WorkersFine'
  BY <1>1, TableKeeps, WorkersWait DEF ImageInv, JobsFine
<1>3. FilesFine'
  <2>1. shown' \in [ImageKinds -> ImageJobs \cup {NoImage}]
        /\ \A i \in ImageKinds : shown'[i] = shown[i] \/ shown'[i] = NoImage
    BY <1>1 DEF ImageInv, FilesFine
  <2>2. CandidateHasFile'
    BY <1>1 DEF ImageInv, FilesFine, CandidateHasFile, InState
  <2>3. ShownImageExists'
    BY <1>1, <2>1 DEF ImageInv, FilesFine, ShownImageExists
  <2> QED BY <1>1, <2>1, <2>2, <2>3 DEF ImageInv, FilesFine
<1> QED BY <1>2, <1>3 DEF ImageInv

\* The cleanup removes only what nobody can apply or sees.
LEMMA PruneKeeps ==
  ASSUME ImageInv, PruneImages
  PROVE  ImageInv'
<1>1. /\ UNCHANGED <<imageWorker, calls, shown, draft, session, imagesOn,
                 quota, quotaCut>>
      /\ private' = {j \in private : ~Disposable(AllRecovered[j])}
      /\ public' = public \cap Referenced
      /\ imageJob' = [j \in ImageJobs |->
                          IF AllRecovered[j].state = "succeeded" /\ AllRecovered[j].expired
                          THEN [AllRecovered[j] EXCEPT !.state = "expired", !.expired = FALSE]
                          ELSE AllRecovered[j]]
  BY DEF PruneImages, settingVars
<1>2. ASSUME NEW j \in ImageJobs
      PROVE  /\ AllRecovered[j] \in ImageJobRow
             /\ AllRecovered[j].kind = imageJob[j].kind
             /\ AllRecovered[j].recent = imageJob[j].recent
             /\ AllRecovered[j].expired = imageJob[j].expired
             /\ AllRecovered[j].state = imageJob[j].state
                \/ (imageJob[j].state = "running" /\ AllRecovered[j].state = "uncertain")
  BY RecoveredRow DEF AllRecovered, ImageInv, JobsFine
<1>3. ASSUME NEW j \in ImageJobs
      PROVE  /\ imageJob'[j] \in ImageJobRow
             /\ imageJob'[j].kind = imageJob[j].kind
             /\ imageJob'[j].recent = imageJob[j].recent
             /\ \/ imageJob'[j].state = imageJob[j].state /\ imageJob'[j] = AllRecovered[j]
                \/ imageJob[j].state \in {"running", "succeeded"}
                   /\ imageJob'[j].state \in {"uncertain", "expired"}
  <2>1. imageJob'[j] = IF AllRecovered[j].state = "succeeded" /\ AllRecovered[j].expired
                       THEN [AllRecovered[j] EXCEPT !.state = "expired", !.expired = FALSE]
                       ELSE AllRecovered[j]
    BY <1>1
  <2>2. CASE AllRecovered[j].state = "succeeded" /\ AllRecovered[j].expired
    BY <1>2, <2>1, <2>2 DEF ImageJobRow, ImageStates
  <2>3. CASE ~(AllRecovered[j].state = "succeeded" /\ AllRecovered[j].expired)
    BY <1>2, <2>1, <2>3
  <2> QED BY <2>2, <2>3
<1>4. imageJob' \in [ImageJobs -> ImageJobRow]
  BY <1>1, <1>3
<1>5. JobsFine'
  BY <1>1, <1>3, <1>4, TableKeeps DEF ImageInv
<1>6. WorkersFine'
  BY <1>1, <1>3, WorkersWait DEF ImageInv
<1>7. CandidateHasFile'
  <2> SUFFICES ASSUME NEW j \in ImageJobs, imageJob'[j].state = "succeeded", ~imageJob'[j].expired
               PROVE  j \in private'
    BY DEF CandidateHasFile, InState
  <2>1. /\ imageJob[j].state = "succeeded" /\ imageJob'[j] = AllRecovered[j]
    BY <1>3
  <2>2. ~Disposable(AllRecovered[j])
    BY <2>1 DEF Disposable
  <2>3. ~imageJob[j].expired
    BY <1>2, <2>1
  <2>4. j \in private
    BY <2>1, <2>3 DEF ImageInv, FilesFine, CandidateHasFile, InState
  <2> QED BY <1>1, <2>2, <2>4
<1>8. ShownImageExists'
  BY <1>1 DEF ImageInv, FilesFine, ShownImageExists, Referenced
<1>9. FilesFine'
  BY <1>1, <1>7, <1>8 DEF ImageInv, FilesFine
<1> QED BY <1>5, <1>6, <1>9 DEF ImageInv

LEMMA DraftKeeps ==
  ASSUME ImageInv, DeleteDraft
  PROVE  ImageInv'
<1>1. /\ UNCHANGED <<imageWorker, calls, private, public, session, imagesOn,
                 quota, quotaCut>>
      /\ draft' = FALSE
      /\ shown' = [shown EXCEPT !["market"] = NoImage]
      /\ imageJob' = [j \in ImageJobs |->
                      IF j \in OfKind("market")
                      THEN [imageJob[j] EXCEPT !.state = "expired", !.expired = FALSE,
                                               !.leaseOver = FALSE]
                      ELSE imageJob[j]]
  BY DEF DeleteDraft
<1>2. ASSUME NEW j \in ImageJobs
      PROVE  /\ imageJob'[j] \in ImageJobRow
             /\ imageJob'[j].kind = imageJob[j].kind
             /\ imageJob'[j].recent = imageJob[j].recent
             /\ \/ imageJob'[j] = imageJob[j]
                \/ imageJob[j].state # "absent" /\ imageJob'[j].state = "expired"
  <2>1. imageJob[j] \in ImageJobRow
    BY DEF ImageInv, JobsFine
  <2>2. CASE j \in OfKind("market")
    BY <1>1, <2>1, <2>2 DEF ImageJobRow, ImageStates, OfKind
  <2>3. CASE j \notin OfKind("market")
    BY <1>1, <2>1, <2>3
  <2> QED BY <2>2, <2>3
<1>3. imageJob' \in [ImageJobs -> ImageJobRow]
  BY <1>1, <1>2
<1>4. JobsFine'
  BY <1>1, <1>2, <1>3, TableKeeps DEF ImageInv
<1>5. WorkersFine'
  BY <1>1, <1>2, WorkersWait DEF ImageInv
<1>6. CandidateHasFile'
  BY <1>1, <1>2 DEF ImageInv, FilesFine, CandidateHasFile, InState
<1>7. shown' \in [ImageKinds -> ImageJobs \cup {NoImage}]
      /\ \A i \in ImageKinds : shown'[i] = shown[i] \/ shown'[i] = NoImage
  BY <1>1 DEF ImageInv, FilesFine, ImageKinds
<1>8. ShownImageExists'
  BY <1>1, <1>7 DEF ImageInv, FilesFine, ShownImageExists
<1>9. FilesFine'
  BY <1>1, <1>6, <1>7, <1>8 DEF ImageInv, FilesFine
<1> QED BY <1>4, <1>5, <1>9 DEF ImageInv

\* The market is published or the session ends.
LEMMA EndsKeep ==
  ASSUME ImageInv, PublishDraft \/ EndSession
  PROVE  ImageInv'
<1>1. UNCHANGED <<imageJob, imageWorker, calls, private, public, shown, quota, quotaCut>>
  BY DEF PublishDraft, EndSession
<1>2. {draft', session', imagesOn'} \subseteq BOOLEAN
  BY DEF PublishDraft, EndSession, ImageInv, FilesFine
<1>3. JobsFine' /\ WorkersFine'
  BY <1>1, TableKeeps, WorkersWait DEF ImageInv, JobsFine
<1>4. FilesFine'
  BY <1>1, <1>2, FilesWait DEF ImageInv, FilesFine
<1> QED BY <1>3, <1>4 DEF ImageInv

\* Saved settings move jobs in or out of the period; what they take away from
\* the quota is noted in quotaCut.
LEMMA SettingsKeep ==
  ASSUME ImageInv, NEW on \in BOOLEAN, NEW q \in Quotas,
         NEW S \in SUBSET InState(ImageStates \ {"absent"}), SaveThumbnailSettings(on, q, S)
  PROVE  ImageInv'
<1> DEFINE before == Recent(ImageJobs)
           cut == q.global < quota.global \/ q.item < quota.item \/ ~(S \subseteq before)
<1>1. /\ UNCHANGED <<imageWorker, calls, private, public, shown, draft, session>>
      /\ imagesOn' = on /\ quota' = q
      /\ imageJob' = [j \in ImageJobs |-> [imageJob[j] EXCEPT !.recent = j \in S]]
      /\ quotaCut' = IF cut THEN ImageKinds ELSE quotaCut
  BY DEF SaveThumbnailSettings
<1> HIDE DEF cut, before
<1>2. ASSUME NEW j \in ImageJobs
      PROVE  /\ imageJob'[j] \in ImageJobRow
             /\ imageJob'[j].state = imageJob[j].state /\ imageJob'[j].kind = imageJob[j].kind
             /\ imageJob'[j].expired = imageJob[j].expired
             /\ imageJob'[j].recent <=> j \in S
  <2>1. imageJob[j] \in ImageJobRow /\ (j \in S) \in BOOLEAN
    BY DEF ImageInv, JobsFine
  <2> QED BY <1>1, <2>1 DEF ImageJobRow
<1>3. imageJob' \in [ImageJobs -> ImageJobRow]
  BY <1>1, <1>2
<1>4. Requested' = Requested
  BY <1>2 DEF Requested
<1>5. \A k : Recent(OfKind(k))' \subseteq Requested /\ OfKind(k)' = OfKind(k)
  BY <1>2 DEF Recent, OfKind, Requested
<1>6. \A k : Cardinality(Recent(OfKind(k))') \in Nat
  BY <1>5, FS_Subset, FS_CardinalityType DEF ImageInv, JobsFine
<1>7. QuotaHolds'
  <2>1. CASE cut
    BY <1>1, <2>1 DEF QuotaHolds
  <2>2. CASE ~cut
    <3>1. /\ quota.global <= q.global /\ quota.item <= q.item
          /\ q.global \in Nat /\ q.item \in Nat
          /\ quota.global \in Nat /\ quota.item \in Nat
      <4>1. q.global \in Nat /\ q.item \in Nat
        BY ThumbnailAssumption DEF ThumbnailAssumption
      <4>2. quota.global \in Nat /\ quota.item \in Nat
        BY QuotaNumbers DEF ImageInv
      <4> QED BY <2>2, <4>1, <4>2 DEF cut
    <3>2. \A k : Recent(OfKind(k))' \subseteq Recent(OfKind(k))
      BY <1>2, <1>5, <2>2 DEF cut, before, Recent, OfKind
    <3>3. \A k : /\ Cardinality(Recent(OfKind(k))') <= Cardinality(Recent(OfKind(k)))
                 /\ Cardinality(Recent(OfKind(k))) \in Nat
      BY <3>2, RecentJobs, FS_Subset DEF ImageInv
    <3>4. PICK a, b, c, d \in Nat :
            /\ a = Cardinality(Recent(OfKind("market"))) /\ b = Cardinality(Recent(OfKind("badge")))
            /\ c = Cardinality(Recent(OfKind("market"))') /\ d = Cardinality(Recent(OfKind("badge"))')
            /\ c <= a /\ d <= b
      BY <1>6, <3>3
    <3>5. a + 2 * b <= quota.global => c + 2 * d <= q.global
      BY <3>1, <3>4
    <3>6. UsedUnits' <= q.global \/ quotaCut = ImageKinds
      BY <3>4, <3>5 DEF ImageInv, JobsFine, QuotaHolds, UsedUnits
    <3>7. ASSUME NEW k \in ImageKinds
          PROVE  Cardinality(Recent(OfKind(k))') <= q.item \/ k \in quotaCut
      <4>1. Cardinality(Recent(OfKind(k))) <= quota.item \/ k \in quotaCut
        BY DEF ImageInv, JobsFine, QuotaHolds
      <4> QED BY <1>6, <3>1, <3>3, <4>1
    <3> QED BY <1>1, <2>2, <3>6, <3>7 DEF QuotaHolds
  <2> QED BY <2>1, <2>2
<1>8. JobsFine'
  <2>1. \A i, j \in InState({"queued", "running"})' : imageJob'[i].kind = imageJob'[j].kind => i = j
    BY <1>2 DEF ImageInv, JobsFine, InState
  <2>2. quota' \in Quotas /\ quotaCut' \subseteq ImageKinds
    BY <1>1 DEF ImageInv, JobsFine
  <2> QED BY <1>3, <1>4, <1>7, <2>1, <2>2 DEF ImageInv, JobsFine
<1>9. WorkersFine'
  BY <1>1, <1>2, WorkersWait DEF ImageInv
<1>10. FilesFine'
  BY <1>1, <1>2, FilesWait DEF ImageInv, FilesFine
<1> QED BY <1>8, <1>9, <1>10 DEF ImageInv

LEMMA ImageStep == ASSUME ImageInv, [ImageNext]_imageVars PROVE ImageInv'
<1>1. CASE \E j \in ImageJobs : RequestMarketImage(j) \/ RequestBadgeImage(j)
  BY <1>1, ReserveKeeps DEF RequestMarketImage, RequestBadgeImage, ImageKinds
<1>2. CASE \E j \in ImageJobs : LeaseRunsOut(j) \/ JobExpires(j) \/ PeriodPasses(j)
  BY <1>2, ClocksKeep
<1>3. CASE \E j \in ImageJobs, commits \in BOOLEAN :
             ApplyMarketImage(j, commits) \/ ApplyBadgeImage(j, commits)
  BY <1>3, PromoteKeeps DEF ApplyMarketImage, ApplyBadgeImage
<1>4. CASE \E k \in ImageKinds : ReplaceImage(k)
  BY <1>4, ReplaceKeeps
<1>5. CASE PruneImages \/ DeleteDraft \/ PublishDraft \/ EndSession
  BY <1>5, PruneKeeps, DraftKeeps, EndsKeep
<1>10. CASE \E on \in BOOLEAN, q \in Quotas, S \in SUBSET InState(ImageStates \ {"absent"}) :
              SaveThumbnailSettings(on, q, S)
  BY <1>10, SettingsKeep
<1>6. ASSUME NEW w \in ImageWorkers, RunOnce(w) \/ Checkpoint(w) \/ WorkerDies(w)
      PROVE  ImageInv'
  BY <1>6, RunOnceKeeps, WorkKeeps, WorkEnds
<1>7. CASE \E w \in ImageWorkers, failure \in {"none", "failed", "uncertain"} :
             CallProvider(w, failure)
  BY <1>7, WorkKeeps
<1>8. CASE \E w \in ImageWorkers, stored \in BOOLEAN : FinishJob(w, stored)
  BY <1>8, WorkEnds
<1>9. CASE UNCHANGED imageVars
  <2>1. UNCHANGED <<imageJob, imageWorker, calls, private, public, shown, draft, session, imagesOn,
                 quota, quotaCut>>
    BY <1>9 DEF imageVars
  <2>2. JobsFine' /\ WorkersFine'
    BY <2>1, TableKeeps, WorkersWait DEF ImageInv, JobsFine
  <2>3. FilesFine'
    BY <2>1, FilesWait DEF ImageInv, FilesFine
  <2> QED BY <2>2, <2>3 DEF ImageInv
<1> QED BY <1>1, <1>2, <1>3, <1>4, <1>5, <1>6, <1>7, <1>8, <1>9, <1>10 DEF ImageNext

LEMMA ImagePart == Next => [ImageNext]_imageVars
BY DEF Next, EmailSteps, DeviceSteps, PushSteps, ImageSteps, BadgeSteps, TalkSteps, AgentSteps

LEMMA ImageAlways == Spec => []ImageInv
<1>1. Init => ImageInv
  BY ImageStart DEF Init
<1>2. ImageInv /\ [Next]_allVars => ImageInv'
  BY ImageStep, ImagePart DEF allVars, imageVars, settingVars
<1> QED BY <1>1, <1>2, PTL DEF Spec

\* ImageInvariant: jobs of the period never take more than the quotas, whatever
\* mix of markets and badges is requested, unless staff took quota away and no
\* request has been accepted since; no crash, lease or late worker makes
\* the provider be paid for a job more than its two calls; and what can be
\* applied or is shown has its file (request_job, run_once, confirm, prune).
THEOREM ImagesAreSound == Spec => []ImageInvariant
BY ImageAlways, ImageInvImplies, PTL

\* A job that is over is not the job of any step that makes one active.
LEMMA LostStays ==
  ASSUME ImageInv, [ImageNext]_imageVars, NEW j \in ImageJobs,
         imageJob[j].state \in {"failed", "uncertain", "expired"}
  PROVE  imageJob'[j].state \notin {"queued", "running", "succeeded"}
<1>1. /\ imageJob \in [ImageJobs -> ImageJobRow]
      /\ Recovered(imageJob[j]) = imageJob[j] /\ AllRecovered[j] = imageJob[j]
      /\ AllRecovered \in [ImageJobs -> ImageJobRow]
  BY RecoveredRow DEF ImageInv, JobsFine, AllRecovered
<1>2. CASE \E i \in ImageJobs : RequestMarketImage(i) \/ RequestBadgeImage(i)
  BY <1>1, <1>2 DEF RequestMarketImage, RequestBadgeImage, Reserve
<1>3. CASE \E i \in ImageJobs : LeaseRunsOut(i) \/ JobExpires(i) \/ PeriodPasses(i)
  BY <1>1, <1>3 DEF LeaseRunsOut, JobExpires, PeriodPasses, ImageJobRow
<1>4. CASE \E i \in ImageJobs, commits \in BOOLEAN :
             ApplyMarketImage(i, commits) \/ ApplyBadgeImage(i, commits)
  BY <1>1, <1>4 DEF ApplyMarketImage, ApplyBadgeImage, Promote
<1>5. CASE PruneImages
  BY <1>1, <1>5 DEF PruneImages
<1>6. CASE DeleteDraft
  <2>1. imageJob[j] \in ImageJobRow
    BY <1>1
  <2> QED BY <1>6, <2>1 DEF DeleteDraft, ImageJobRow
<1>7. ASSUME NEW w \in ImageWorkers, RunOnce(w)
      PROVE  imageJob'[j].state \notin {"queued", "running", "succeeded"}
  <2>1. j \notin InState({"queued"})
    BY DEF InState
  <2> QED BY <1>1, <1>7, <2>1 DEF RunOnce, InState
<1>8. ASSUME NEW w \in ImageWorkers, NEW stored \in BOOLEAN, FinishJob(w, stored)
      PROVE  imageJob'[j].state \notin {"queued", "running", "succeeded"}
  <2>1. CASE Fenced(imageWorker[w].job)
    <3>1. PICK verdict, i : /\ imageJob' = [imageJob EXCEPT ![i].state = verdict, ![i].leaseOver = FALSE]
                            /\ i # j
      BY <1>8, <2>1 DEF FinishJob, Fenced
    <3> QED BY <1>1, <3>1
  <2>2. CASE ~Fenced(imageWorker[w].job)
    BY <1>8, <2>2 DEF FinishJob
  <2> QED BY <2>1, <2>2
<1>9. CASE \/ \E k \in ImageKinds : ReplaceImage(k)
           \/ PublishDraft \/ EndSession
           \/ \E w \in ImageWorkers : Checkpoint(w) \/ WorkerDies(w)
           \/ \E w \in ImageWorkers, failure \in {"none", "failed", "uncertain"} :
                CallProvider(w, failure)
           \/ UNCHANGED imageVars
  BY <1>9 DEF ReplaceImage, PublishDraft, EndSession, Checkpoint, WorkerDies,
              CallProvider, imageVars
<1>10. ASSUME NEW on \in BOOLEAN, NEW q \in Quotas,
              NEW S \in SUBSET InState(ImageStates \ {"absent"}), SaveThumbnailSettings(on, q, S)
       PROVE  imageJob'[j].state \notin {"queued", "running", "succeeded"}
  <2>1. imageJob[j] \in ImageJobRow
    BY <1>1
  <2> QED BY <1>10, <2>1 DEF SaveThumbnailSettings, ImageJobRow
<1> QED BY <1>2, <1>3, <1>4, <1>5, <1>6, <1>7, <1>8, <1>9, <1>10 DEF ImageNext

\* NothingReturns: a message recorded as sent is never queued or sent again; a
\* push with a final result stays, unless a claim of it went stale; and a job
\* that failed, became uncertain or expired never succeeds or runs again
\* (process_due_email_deliveries, _mark_delivery, the fence of record_result).
THEOREM NothingComesBack == Spec => NothingReturns
<1>1. MailInv /\ [Next]_allVars =>
        [\A m \in Emails : mail[m].status = "sent" =>
            mail'[m] = mail[m] /\ accepted'[m] = accepted[m]]_emailVars
  BY SentStays, MailPart DEF allVars, emailVars
<1>2. PushInv /\ [Next]_allVars =>
        [\A n \in Alerts \ late' :
           push[n].status \in Final => push'[n] = push[n] /\ pushed'[n] = pushed[n]]_pushVars
  BY FinalStays, PushPart DEF allVars, pushVars
<1>3. ImageInv /\ [Next]_allVars =>
        [\A j \in ImageJobs :
           imageJob[j].state \in {"failed", "uncertain", "expired"} =>
             imageJob'[j].state \notin {"queued", "running", "succeeded"}]_imageVars
  BY LostStays, ImagePart DEF allVars, imageVars
<1>4. Spec => SentIsFinal
  BY <1>1, MailAlways, PTL DEF Spec, SentIsFinal
<1>5. Spec => FinalPushStays
  BY <1>2, PushAlways, PTL DEF Spec, FinalPushStays
<1>6. Spec => LostJobsStayLost
  BY <1>3, ImageAlways, PTL DEF Spec, LostJobsStayLost
<1> QED BY <1>4, <1>5, <1>6, PTL DEF NothingReturns

-----------------------------------------------------------------------------
(* Badges: evaluations that cross.                                         *)

Due == [badge : BadgeCodes, demand : Demand]

EvaluationRow ==
    [op : DOMAIN RuleTypes \cup {"none"}, subjects : SUBSET Fans, who : Nat, turn : SUBSET Fans,
     due : SUBSET Due, won : SUBSET (Fans \X BadgeCodes), disturbed : BOOLEAN]

\* A request takes its users, and for each the rules, in ascending order; what it has awarded is
\* behind it.
Ascending(w) ==
    LET e == evaluation[w] IN
    /\ e.who \in e.subjects /\ e.turn \subseteq e.subjects
    /\ \A u \in e.turn : e.who < u
    /\ \A c, d \in e.due : c.badge = d.badge => c = d
    /\ \A a \in e.won : a[1] < e.who \/ (a[1] = e.who /\ \A d \in e.due : a[2] < d.badge)

Evaluates(e, b) == rule[b].live /\ rule[b].demand.metric \in RuleTypes[e.op]

Meets(e, b, u) == RuleIsMet(e, rule[b].demand, u) /\ RequirementsAreMet(e, b, u)

HasJudged(e, u, b) == u \in e.subjects \ e.turn /\ (u = e.who => \A d \in e.due : d.badge # b)

\* Unless something it depends on has changed, its judgements are right.
Judged(w) ==
    LET e == evaluation[w] IN
    /\ \A d \in e.due : Evaluates(e, d.badge) /\ d.demand = rule[d.badge].demand
    /\ \A u \in e.subjects, b \in BadgeCodes :
         HasJudged(e, u, b) /\ Evaluates(e, b) /\ Meets(e, b, u) => <<u, b>> \in awards \cup e.won
    /\ \A a \in e.won : a[1] \in e.subjects /\ Evaluates(e, a[2]) /\ Meets(e, a[2], a[1])

BadgeTypes ==
    /\ tally \in [Metrics -> [Fans -> Nat]]
    /\ concealed \in [Fans -> Nat]
    /\ rule \in [BadgeCodes -> RuleRow]
    /\ requirement \in [BadgeCodes -> SUBSET Demand]
    /\ awards \in SUBSET (Fans \X BadgeCodes)
    /\ evaluation \in [BadgeWorkers -> EvaluationRow]
    /\ \A w \in BadgeWorkers : evaluation[w].op = "none" => evaluation[w] = NoEvaluation

BadgeInv ==
    /\ BadgeTypes
    /\ \A w \in Evaluating : Ascending(w)
    /\ \A w \in Evaluating : ~evaluation[w].disturbed => Judged(w)
    /\ AwardedOnce

LEMMA NoEvaluationFacts ==
  /\ NoEvaluation \in EvaluationRow /\ NoEvaluation.op = "none" /\ NoEvaluation.won = {}
  /\ NoEvaluation.due = {} /\ "none" \notin DOMAIN RuleTypes
  /\ DOMAIN RuleTypes = {"comment", "resolve", "reconcile"}
<1>1. DOMAIN RuleTypes = {"comment", "resolve", "reconcile"}
  BY DEF RuleTypes
<1>. QED BY <1>1 DEF NoEvaluation, EvaluationRow

\* The rules a request reads are those it evaluates, one for each badge.
LEMMA ActiveRulesFacts ==
  ASSUME BadgeTypes, NEW op
  PROVE  /\ ActiveRules(op) \in SUBSET Due
         /\ \A c, d \in ActiveRules(op) : c.badge = d.badge => c = d
         /\ \A d \in ActiveRules(op) : d.demand = rule[d.badge].demand /\ rule[d.badge].live
                                       /\ rule[d.badge].demand.metric \in RuleTypes[op]
         /\ \A b \in BadgeCodes : rule[b].live /\ rule[b].demand.metric \in RuleTypes[op]
                                  => \E d \in ActiveRules(op) : d.badge = b
<1>1. \A b \in BadgeCodes : rule[b].demand \in Demand
  BY DEF BadgeTypes, RuleRow
<1>2. ASSUME NEW b \in BadgeCodes, rule[b].live, rule[b].demand.metric \in RuleTypes[op]
      PROVE  \E d \in ActiveRules(op) : d.badge = b
  <2>1. [badge |-> b, demand |-> rule[b].demand] \in ActiveRules(op)
    BY <1>2 DEF ActiveRules
  <2>. QED BY <2>1
<1>3. ASSUME NEW d \in ActiveRules(op)
      PROVE  /\ d = [badge |-> d.badge, demand |-> rule[d.badge].demand] /\ d.badge \in BadgeCodes
             /\ rule[d.badge].live /\ rule[d.badge].demand.metric \in RuleTypes[op]
  BY DEF ActiveRules
<1>4. ActiveRules(op) \in SUBSET Due
  BY <1>1, <1>3 DEF Due
<1>5. \A c, d \in ActiveRules(op) : c.badge = d.badge => c = d
  BY <1>3
<1>6. \A d \in ActiveRules(op) : d.demand = rule[d.badge].demand /\ rule[d.badge].live
                                 /\ rule[d.badge].demand.metric \in RuleTypes[op]
  BY <1>3
<1>. QED BY <1>2, <1>4, <1>5, <1>6

\* A step that leaves the request, its rules and the facts of its users alone, or adds awards.
LEMMA JudgedFrame ==
  ASSUME BadgeTypes, NEW w \in BadgeWorkers, Judged(w), evaluation'[w] = evaluation[w],
         rule' = rule, requirement' = requirement, awards \subseteq awards',
         \A m \in Metrics, u \in evaluation[w].subjects : tally'[m][u] = tally[m][u]
  PROVE  Judged(w)'
<1>. DEFINE e == evaluation[w]
<1>1. e \in EvaluationRow
  BY DEF BadgeTypes
<1>2. ASSUME NEW u \in e.subjects, NEW b \in BadgeCodes
      PROVE  Meets(evaluation[w], b, u)' <=> Meets(e, b, u)
  <2>1. rule[b].demand \in Demand /\ requirement[b] \in SUBSET Demand
    BY DEF BadgeTypes, RuleRow
  <2>2. \A q \in Demand : RuleIsMet(evaluation[w], q, u)' <=> RuleIsMet(e, q, u)
    BY DEF RuleIsMet, MetricValue, OwnFact, Demand
  <2>. QED BY <2>1, <2>2 DEF Meets, RequirementsAreMet
<1>3. \A b : Evaluates(evaluation[w], b)' <=> Evaluates(e, b)
  BY DEF Evaluates
<1>4. \A a \in e.won : a[2] \in BadgeCodes
  BY <1>1 DEF EvaluationRow
<1>. QED BY <1>2, <1>3, <1>4 DEF Judged, HasJudged

\* What a commit or an edit does to a request.
LEMMA Disturbed ==
  ASSUME BadgeTypes, NEW v \in BadgeWorkers, NEW users
  PROVE  LET d == Disturb(users)[v]
             e == evaluation[v]
         IN  /\ d \in EvaluationRow /\ (d.op = "none" => d = NoEvaluation)
             /\ d.op = e.op /\ d.subjects = e.subjects /\ d.who = e.who /\ d.turn = e.turn
             /\ d.due = e.due /\ d.won = e.won
             /\ d = e \/ d.disturbed
             /\ e.op # "none" /\ e.subjects \cap users # {} => d.disturbed
<1>. DEFINE e == evaluation[v]
<1>1. e \in EvaluationRow /\ (e.op = "none" => e = NoEvaluation)
  BY DEF BadgeTypes
<1>2. Disturb(users)[v] = IF e.op # "none" /\ e.subjects \cap users # {}
                          THEN [e EXCEPT !.disturbed = TRUE] ELSE e
  BY DEF Disturb, Evaluating
<1>. HIDE DEF e
<1>3. /\ [e EXCEPT !.disturbed = TRUE] \in EvaluationRow
      /\ [e EXCEPT !.disturbed = TRUE].op = e.op /\ [e EXCEPT !.disturbed = TRUE].subjects = e.subjects
      /\ [e EXCEPT !.disturbed = TRUE].who = e.who /\ [e EXCEPT !.disturbed = TRUE].turn = e.turn
      /\ [e EXCEPT !.disturbed = TRUE].due = e.due /\ [e EXCEPT !.disturbed = TRUE].won = e.won
      /\ [e EXCEPT !.disturbed = TRUE].disturbed
  BY <1>1 DEF EvaluationRow
<1>. QED BY <1>1, <1>2, <1>3 DEF e

\* A request stays as good as it was while others work, commit and edit.
LEMMA Crossed ==
  ASSUME BadgeInv, NEW v \in BadgeWorkers, NEW users \in SUBSET Fans,
         evaluation'[v] = Disturb(users)[v],
         users = Fans \/ (rule' = rule /\ requirement' = requirement), awards \subseteq awards',
         \A m \in Metrics, u \in Fans \ users : tally'[m][u] = tally[m][u]
  PROVE  /\ evaluation'[v] \in EvaluationRow
         /\ evaluation'[v].op = "none" => evaluation'[v] = NoEvaluation
         /\ evaluation'[v].op = evaluation[v].op /\ evaluation'[v].won = evaluation[v].won
         /\ evaluation'[v].op # "none" =>
              Ascending(v)' /\ (~evaluation'[v].disturbed => Judged(v)')
<1>. DEFINE e == evaluation[v]
<1>1. BadgeTypes
  BY DEF BadgeInv
<1>2. /\ evaluation'[v] \in EvaluationRow
      /\ evaluation'[v].op = "none" => evaluation'[v] = NoEvaluation
      /\ evaluation'[v].op = e.op /\ evaluation'[v].subjects = e.subjects
      /\ evaluation'[v].who = e.who /\ evaluation'[v].turn = e.turn
      /\ evaluation'[v].due = e.due /\ evaluation'[v].won = e.won
      /\ evaluation'[v] = e \/ evaluation'[v].disturbed
      /\ e.op # "none" /\ e.subjects \cap users # {} => evaluation'[v].disturbed
  BY <1>1, Disturbed
<1>3. ASSUME e.op # "none" PROVE Ascending(v)'
  <2>1. Ascending(v)
    BY <1>3 DEF BadgeInv, Evaluating
  <2>. QED BY <1>2, <2>1 DEF Ascending
<1>4. ASSUME e.op # "none", ~evaluation'[v].disturbed PROVE Judged(v)'
  <2>1. evaluation'[v] = e /\ e.subjects \cap users = {} /\ e.subjects \subseteq Fans
    BY <1>1, <1>2, <1>4 DEF BadgeTypes, EvaluationRow
  <2>2. Judged(v) /\ Ascending(v)
    BY <1>4, <2>1 DEF BadgeInv, Evaluating
  <2>3. users # Fans
    BY <2>1, <2>2 DEF Ascending
  <2>4. \A m \in Metrics, u \in e.subjects : tally'[m][u] = tally[m][u]
    BY <2>1
  <2>. QED BY <1>1, <2>1, <2>2, <2>3, <2>4, JudgedFrame
<1>. QED BY <1>2, <1>3, <1>4

LEMMA LeastIs ==
  ASSUME NEW S \in SUBSET Nat, S # {}
  PROVE  Least(S) \in S /\ \A y \in S : Least(S) <= y
BY LeastNumber DEF Least

\* The rule a request judges next has the lowest code of those left.
LEMMA NextRuleFacts ==
  ASSUME NEW e, e.due \in SUBSET Due, e.due # {}
  PROVE  NextRule(e) \in e.due /\ \A c \in e.due : NextRule(e).badge <= c.badge
<1>. DEFINE B == {c.badge : c \in e.due}
<1>1. \A c \in e.due : c.badge \in Nat
  BY FansAssumption DEF Due
<1>2. B \in SUBSET Nat /\ B # {}
  BY <1>1
<1>. HIDE DEF B
<1>3. Least(B) \in B /\ \A y \in B : Least(B) <= y
  BY <1>2, LeastIs
<1>4. PICK d \in e.due : d.badge = Least(B)
  BY <1>3 DEF B
<1>5. NextRule(e) \in e.due /\ NextRule(e).badge = Least(B)
  BY <1>4 DEF NextRule, B
<1>. QED BY <1>3, <1>5 DEF B

LEMMA FirstUserFacts ==
  ASSUME NEW users \in SUBSET Fans, users # {}, NEW u \in FirstUsers(users)
  PROVE  u \in users /\ u \in Nat /\ \A k \in users \ {u} : u < k
<1>1. users \in SUBSET Nat
  BY FansAssumption
<1>2. u = Least(users)
  BY DEF FirstUsers
<1>3. Least(users) \in users /\ \A y \in users : Least(users) <= y
  BY <1>1, LeastIs
<1>4. \A k \in users : k \in Nat
  BY <1>1
<1>. QED BY <1>2, <1>3, <1>4

\* A step of one request, which commits nothing.
LEMMA OwnKeeps ==
  ASSUME BadgeInv, NEW w \in BadgeWorkers, NEW e \in EvaluationRow, e.op = "none" => e = NoEvaluation,
         evaluation' = [evaluation EXCEPT ![w] = e],
         tally' = tally, concealed' = concealed, rule' = rule, requirement' = requirement,
         awards' = awards,
         e.op # "none" => Ascending(w)' /\ (~e.disturbed => Judged(w)'),
         e.won \cap awards = {},
         \A v \in BadgeWorkers \ {w} : e.won \cap evaluation[v].won = {}
  PROVE  BadgeInv'
<1>1. BadgeTypes
  BY DEF BadgeInv
<1>2. evaluation'[w] = e /\ \A v \in BadgeWorkers \ {w} : evaluation'[v] = evaluation[v]
  BY <1>1 DEF BadgeTypes
<1>3. BadgeTypes'
  <2>1. evaluation' \in [BadgeWorkers -> EvaluationRow]
    BY <1>1 DEF BadgeTypes
  <2>2. \A v \in BadgeWorkers : evaluation'[v].op = "none" => evaluation'[v] = NoEvaluation
    BY <1>1, <1>2 DEF BadgeTypes
  <2>. QED BY <1>1, <2>1, <2>2 DEF BadgeTypes
<1>4. ASSUME NEW v \in BadgeWorkers \ {w}, evaluation[v].op # "none"
      PROVE  Ascending(v)' /\ (~evaluation'[v].disturbed => Judged(v)')
  <2>1. evaluation'[v] = Disturb({})[v]
    BY <1>2 DEF Disturb
  <2>. QED BY <1>2, <1>4, <2>1, Crossed
<1>5. AwardedOnce'
  BY <1>2 DEF BadgeInv, AwardedOnce, Evaluating
<1>. QED BY <1>2, <1>3, <1>4, <1>5 DEF BadgeInv, Evaluating

LEMMA BeginKeeps ==
  ASSUME BadgeInv, NEW w \in BadgeWorkers, NEW op \in DOMAIN RuleTypes, NEW users \in SUBSET Fans,
         BeginEvaluation(w, op, users)
  PROVE  BadgeInv'
<1>1. PICK u \in FirstUsers(users) :
         evaluation' = [evaluation EXCEPT ![w] =
           [op |-> op, subjects |-> users, who |-> u, turn |-> users \ {u},
            due |-> ActiveRules(op), won |-> {}, disturbed |-> FALSE]]
  BY DEF BeginEvaluation
<1>. PICK e : e = [op |-> op, subjects |-> users, who |-> u, turn |-> users \ {u},
                   due |-> ActiveRules(op), won |-> {}, disturbed |-> FALSE]
  OBVIOUS
<1>2. /\ users # {} /\ tally' = tally /\ concealed' = concealed /\ rule' = rule
      /\ requirement' = requirement /\ awards' = awards
  BY DEF BeginEvaluation
<1>3. u \in users /\ u \in Nat /\ \A k \in users \ {u} : u < k
  BY <1>2, FirstUserFacts
<1>4. BadgeTypes
  BY DEF BadgeInv
<1>5. /\ ActiveRules(op) \in SUBSET Due
      /\ \A c, d \in ActiveRules(op) : c.badge = d.badge => c = d
      /\ \A d \in ActiveRules(op) : d.demand = rule[d.badge].demand /\ rule[d.badge].live
                                    /\ rule[d.badge].demand.metric \in RuleTypes[op]
      /\ \A b \in BadgeCodes : rule[b].live /\ rule[b].demand.metric \in RuleTypes[op]
                               => \E d \in ActiveRules(op) : d.badge = b
  BY <1>4, ActiveRulesFacts
<1>6. /\ e \in EvaluationRow /\ e.op = op /\ e.subjects = users /\ e.who = u /\ e.turn = users \ {u}
      /\ e.due = ActiveRules(op) /\ e.won = {} /\ e.disturbed = FALSE /\ e.op # "none"
  BY <1>3, <1>5, NoEvaluationFacts DEF EvaluationRow
<1>7. evaluation'[w] = e
  BY <1>1, <1>4 DEF BadgeTypes
<1>8. Ascending(w)'
  <2>1. e.who \in e.subjects /\ e.turn \subseteq e.subjects /\ \A k \in e.turn : e.who < k
    BY <1>3, <1>6
  <2>2. \A c, d \in e.due : c.badge = d.badge => c = d
    BY <1>5, <1>6
  <2>3. e.won = {}
    BY <1>6
  <2>. QED BY <1>7, <2>1, <2>2, <2>3 DEF Ascending
<1>9. Judged(w)'
  <2>1. \A k \in users, b \in BadgeCodes : HasJudged(e, k, b) /\ Evaluates(e, b)' => FALSE
    BY <1>2, <1>5, <1>6 DEF HasJudged, Evaluates
  <2>2. \A d \in e.due : Evaluates(e, d.badge)' /\ d.demand = rule'[d.badge].demand
    BY <1>2, <1>5, <1>6 DEF Evaluates
  <2>. QED BY <1>6, <1>7, <2>1, <2>2 DEF Judged, HasJudged, Evaluates
<1>. QED BY <1>1, <1>2, <1>6, <1>8, <1>9, OwnKeeps

LEMMA FailKeeps ==
  ASSUME BadgeInv, NEW w \in BadgeWorkers, FailEvaluation(w)
  PROVE  BadgeInv'
BY NoEvaluationFacts, OwnKeeps DEF FailEvaluation

LEMMA NextUserKeeps ==
  ASSUME BadgeInv, NEW w \in BadgeWorkers, NextUser(w)
  PROVE  BadgeInv'
<1>. PICK e : e = evaluation[w]
  OBVIOUS
<1>1. PICK u \in FirstUsers(e.turn) :
         evaluation' = [evaluation EXCEPT
             ![w].who = u, ![w].turn = e.turn \ {u}, ![w].due = ActiveRules(e.op)]
  BY DEF NextUser
<1>. PICK n : n = [e EXCEPT !.who = u, !.turn = e.turn \ {u}, !.due = ActiveRules(e.op)]
  OBVIOUS
<1>2. /\ e.op # "none" /\ e.due = {} /\ e.turn # {}
      /\ tally' = tally /\ concealed' = concealed /\ rule' = rule
      /\ requirement' = requirement /\ awards' = awards
  BY DEF NextUser, Evaluating
<1>3. BadgeTypes /\ e \in EvaluationRow
  BY DEF BadgeInv, BadgeTypes
<1>4. evaluation' = [evaluation EXCEPT ![w] = n]
  BY <1>1, <1>3 DEF BadgeTypes
<1>5. u \in e.turn /\ u \in Nat /\ \A k \in e.turn \ {u} : u < k
  BY <1>2, <1>3, FirstUserFacts DEF EvaluationRow
<1>6. /\ ActiveRules(e.op) \in SUBSET Due
      /\ \A c, d \in ActiveRules(e.op) : c.badge = d.badge => c = d
      /\ \A d \in ActiveRules(e.op) : d.demand = rule[d.badge].demand /\ rule[d.badge].live
                                      /\ rule[d.badge].demand.metric \in RuleTypes[e.op]
      /\ \A b \in BadgeCodes : rule[b].live /\ rule[b].demand.metric \in RuleTypes[e.op]
                               => \E d \in ActiveRules(e.op) : d.badge = b
  BY <1>3, ActiveRulesFacts
<1>7. /\ n \in EvaluationRow /\ n.op = e.op /\ n.subjects = e.subjects /\ n.who = u
      /\ n.turn = e.turn \ {u} /\ n.due = ActiveRules(e.op) /\ n.won = e.won
      /\ n.disturbed = e.disturbed
  <2>. DEFINE R == ActiveRules(e.op)
              T == e.turn \ {u}
  <2>1. R \in SUBSET Due /\ T \in SUBSET Fans /\ e \in EvaluationRow /\ u \in Nat
    BY <1>3, <1>5, <1>6 DEF EvaluationRow
  <2>2. n = [e EXCEPT !.who = u, !.turn = T, !.due = R]
    OBVIOUS
  <2>. HIDE DEF R, T
  <2>3. /\ n \in EvaluationRow /\ n.op = e.op /\ n.subjects = e.subjects /\ n.who = u
        /\ n.turn = T /\ n.due = R /\ n.won = e.won /\ n.disturbed = e.disturbed
    BY <2>1, <2>2 DEF EvaluationRow
  <2>. QED BY <2>3 DEF R, T
<1>8. evaluation'[w] = n
  BY <1>3, <1>4 DEF BadgeTypes
<1>9. Ascending(w)
  BY <1>2 DEF BadgeInv, Evaluating
<1>10. Ascending(w)'
  <2>1. \A a \in n.won : a[1] < u
    BY <1>3, <1>5, <1>7, <1>9, FansAssumption DEF Ascending, EvaluationRow
  <2>. QED BY <1>5, <1>6, <1>7, <1>8, <1>9, <2>1 DEF Ascending
<1>11. ASSUME ~n.disturbed PROVE Judged(w)'
  <2>1. Judged(w)
    BY <1>2, <1>7, <1>11 DEF BadgeInv, Evaluating
  <2>2. \A d \in n.due : Evaluates(n, d.badge)' /\ d.demand = rule'[d.badge].demand
    BY <1>2, <1>6, <1>7 DEF Evaluates
  <2>3. \A k, b : Meets(n, b, k)' <=> Meets(e, b, k)
    BY <1>2, <1>7 DEF Meets, RuleIsMet, RequirementsAreMet, MetricValue, OwnFact
  <2>4. \A b : Evaluates(n, b)' <=> Evaluates(e, b)
    BY <1>2, <1>7 DEF Evaluates
  <2>5. ASSUME NEW k \in n.subjects, NEW b \in BadgeCodes, HasJudged(n, k, b), Evaluates(n, b)', Meets(n, b, k)'
        PROVE  <<k, b>> \in awards' \cup n.won
    <3>1. k # u
      BY <1>2, <1>6, <1>7, <2>5 DEF HasJudged, Evaluates
    <3>2. HasJudged(e, k, b)
      BY <1>2, <1>7, <2>5, <3>1 DEF HasJudged
    <3>. QED BY <1>2, <1>7, <2>1, <2>3, <2>4, <2>5, <3>2 DEF Judged
  <2>6. \A a \in n.won : a[1] \in n.subjects /\ Evaluates(n, a[2])' /\ Meets(n, a[2], a[1])'
    BY <1>7, <2>1, <2>3, <2>4 DEF Judged
  <2>. QED BY <1>8, <2>2, <2>5, <2>6 DEF Judged, HasJudged, Evaluates, Meets, RuleIsMet, RequirementsAreMet,
              MetricValue, OwnFact
<1>12. /\ n.won \cap awards = {}
       /\ \A v \in BadgeWorkers \ {w} : n.won \cap evaluation[v].won = {}
  BY <1>2, <1>3, <1>7, NoEvaluationFacts DEF BadgeInv, BadgeTypes, AwardedOnce, Evaluating
<1>. QED BY <1>2, <1>4, <1>7, <1>10, <1>11, <1>12, OwnKeeps

LEMMA JudgeKeeps ==
  ASSUME BadgeInv, NEW w \in BadgeWorkers, Judge(w)
  PROVE  BadgeInv'
<1>. PICK e : e = evaluation[w]
  OBVIOUS
<1>. PICK d : d = NextRule(e)
  OBVIOUS
<1>. PICK award : award = <<e.who, d.badge>>
  OBVIOUS
<1>. PICK won : won = IF Deserves(e, d, e.who) /\ award \notin awards THEN e.won \cup {award} ELSE e.won
  OBVIOUS
<1>. PICK n : n = [e EXCEPT !.due = e.due \ {d}, !.won = won]
  OBVIOUS
<1>1. /\ e.due # {} /\ \A v \in BadgeWorkers : ~WaitsFor(w, v)
      /\ tally' = tally /\ concealed' = concealed /\ rule' = rule
      /\ requirement' = requirement /\ awards' = awards
  BY DEF Judge
<1>2. BadgeTypes /\ e \in EvaluationRow
  BY DEF BadgeInv, BadgeTypes
<1>3. evaluation' = [evaluation EXCEPT ![w] = n]
  BY <1>2 DEF Judge, BadgeTypes
<1>4. e.op # "none" /\ Ascending(w)
  <2>1. e.op # "none"
    BY <1>1, <1>2, NoEvaluationFacts DEF BadgeTypes
  <2>. QED BY <2>1 DEF BadgeInv, Evaluating
<1>5. /\ d \in e.due /\ d \in Due /\ d.badge \in BadgeCodes /\ d.badge \in Nat
      /\ \A c \in e.due \ {d} : d.badge < c.badge
  <2>1. e.due \in SUBSET Due
    BY <1>2 DEF EvaluationRow
  <2>2. d \in e.due /\ \A c \in e.due : d.badge <= c.badge
    BY <1>1, <2>1, NextRuleFacts
  <2>3. \A c \in e.due : c.badge \in BadgeCodes /\ c.badge \in Nat
    BY <2>1, FansAssumption DEF Due
  <2>. QED BY <1>4, <2>1, <2>2, <2>3 DEF Ascending
<1>6. /\ e.who \in e.subjects /\ e.subjects \in SUBSET Fans /\ e.won \in SUBSET (Fans \X BadgeCodes)
  BY <1>2, <1>4 DEF Ascending, EvaluationRow
<1>7. award \in Fans \X BadgeCodes /\ award[1] = e.who /\ award[2] = d.badge
  BY <1>5, <1>6
<1>8. won \in SUBSET (Fans \X BadgeCodes) /\ won \subseteq e.won \cup {award} /\ e.won \subseteq won
  BY <1>6, <1>7
<1>9. /\ n \in EvaluationRow /\ n.op = e.op /\ n.subjects = e.subjects /\ n.who = e.who
      /\ n.turn = e.turn /\ n.due = e.due \ {d} /\ n.won = won /\ n.disturbed = e.disturbed
  <2>. DEFINE D == e.due \ {d}
  <2>1. D \in SUBSET Due
    BY <1>2 DEF EvaluationRow
  <2>2. n = [e EXCEPT !.due = D, !.won = won]
    OBVIOUS
  <2>. HIDE DEF D
  <2>3. /\ n \in EvaluationRow /\ n.op = e.op /\ n.subjects = e.subjects /\ n.who = e.who
        /\ n.turn = e.turn /\ n.due = D /\ n.won = won /\ n.disturbed = e.disturbed
    BY <1>2, <1>8, <2>1, <2>2 DEF EvaluationRow
  <2>. QED BY <2>3 DEF D
<1>10. evaluation'[w] = n
  BY <1>2, <1>3 DEF BadgeTypes
<1>11. Ascending(w)'
  <2>1. \A a \in won : a[1] < e.who \/ (a[1] = e.who /\ \A c \in n.due : a[2] < c.badge)
    BY <1>4, <1>5, <1>7, <1>8, <1>9 DEF Ascending
  <2>2. /\ n.who \in n.subjects /\ n.turn \subseteq n.subjects /\ \A u \in n.turn : n.who < u
        /\ \A b, c \in n.due : b.badge = c.badge => b = c
    BY <1>4, <1>9 DEF Ascending
  <2>. QED BY <1>9, <1>10, <2>1, <2>2 DEF Ascending
<1>12. ASSUME ~n.disturbed PROVE Judged(w)'
  <2>1. Judged(w)
    BY <1>4, <1>9, <1>12 DEF BadgeInv, Evaluating
  <2>2. \A k, b : Meets(n, b, k)' <=> Meets(e, b, k)
    BY <1>1, <1>9 DEF Meets, RuleIsMet, RequirementsAreMet, MetricValue, OwnFact
  <2>3. \A b : Evaluates(n, b)' <=> Evaluates(e, b)
    BY <1>1, <1>9 DEF Evaluates
  <2>4. \A c \in n.due : Evaluates(n, c.badge)' /\ c.demand = rule'[c.badge].demand
    BY <1>1, <1>9, <2>1, <2>3 DEF Judged
  <2>5. Evaluates(e, d.badge) /\ (Deserves(e, d, e.who) <=> Meets(e, d.badge, e.who))
    BY <1>5, <2>1 DEF Judged, Deserves, Meets
  <2>6. ASSUME NEW k \in n.subjects, NEW b \in BadgeCodes, HasJudged(n, k, b), Evaluates(n, b)', Meets(n, b, k)'
        PROVE  <<k, b>> \in awards' \cup n.won
    <3>1. Evaluates(e, b) /\ Meets(e, b, k)
      BY <2>2, <2>3, <2>6
    <3>2. CASE k = e.who /\ b = d.badge
      BY <1>1, <1>9, <2>5, <3>1, <3>2
    <3>3. CASE ~ (k = e.who /\ b = d.badge)
      <4>1. HasJudged(e, k, b)
        BY <1>9, <2>6, <3>3 DEF HasJudged
      <4>. QED BY <1>1, <1>8, <1>9, <2>1, <2>6, <3>1, <4>1 DEF Judged
    <3>. QED BY <3>2, <3>3
  <2>7. ASSUME NEW a \in n.won
        PROVE  a[1] \in n.subjects /\ Evaluates(n, a[2])' /\ Meets(n, a[2], a[1])'
    <3>1. CASE a \in e.won
      BY <1>9, <2>1, <2>2, <2>3, <3>1 DEF Judged
    <3>2. CASE a \notin e.won
      <4>1. a = award /\ Deserves(e, d, e.who)
        BY <1>9, <3>2
      <4>. QED BY <1>6, <1>7, <1>9, <2>2, <2>3, <2>5, <4>1
    <3>. QED BY <3>1, <3>2
  <2>. QED BY <1>10, <2>4, <2>6, <2>7 DEF Judged, HasJudged, Evaluates, Meets, RuleIsMet, RequirementsAreMet,
              MetricValue, OwnFact
<1>13. n.won \cap awards = {}
  BY <1>4, <1>9 DEF BadgeInv, AwardedOnce, Evaluating
<1>14. ASSUME NEW v \in BadgeWorkers \ {w} PROVE n.won \cap evaluation[v].won = {}
  <2>1. e.won \cap evaluation[v].won = {}
    BY <1>2, <1>4, NoEvaluationFacts DEF BadgeInv, BadgeTypes, AwardedOnce, Evaluating
  <2>2. Deserves(e, d, e.who) => award \notin evaluation[v].won
    BY <1>1 DEF WaitsFor
  <2>. QED BY <1>9, <2>1, <2>2
<1>. QED BY <1>1, <1>3, <1>9, <1>4, <1>11, <1>12, <1>13, <1>14, OwnKeeps

\* A change of facts or rules, which disturbs the requests it concerns.
LEMMA EditKeeps ==
  ASSUME BadgeInv, NEW users \in SUBSET Fans, evaluation' = Disturb(users), awards' = awards,
         users = Fans \/ (rule' = rule /\ requirement' = requirement),
         \A m \in Metrics, u \in Fans \ users : tally'[m][u] = tally[m][u],
         tally' \in [Metrics -> [Fans -> Nat]], concealed' \in [Fans -> Nat],
         rule' \in [BadgeCodes -> RuleRow], requirement' \in [BadgeCodes -> SUBSET Demand]
  PROVE  BadgeInv'
<1>1. ASSUME NEW v \in BadgeWorkers
      PROVE  /\ evaluation'[v] \in EvaluationRow
             /\ evaluation'[v].op = "none" => evaluation'[v] = NoEvaluation
             /\ evaluation'[v].op = evaluation[v].op /\ evaluation'[v].won = evaluation[v].won
             /\ evaluation'[v].op # "none" =>
                  Ascending(v)' /\ (~evaluation'[v].disturbed => Judged(v)')
  BY Crossed
<1>2. evaluation' \in [BadgeWorkers -> EvaluationRow]
  BY <1>1 DEF Disturb
<1>3. BadgeTypes'
  BY <1>1, <1>2 DEF BadgeInv, BadgeTypes
<1>4. AwardedOnce'
  BY <1>1 DEF BadgeInv, AwardedOnce, Evaluating
<1>. QED BY <1>1, <1>3, <1>4 DEF BadgeInv, Evaluating

LEMMA ModerationKeeps ==
  ASSUME BadgeInv, NEW u \in Fans, HideComment(u) \/ RestoreComment(u)
  PROVE  BadgeInv'
<1>1. tally \in [Metrics -> [Fans -> Nat]] /\ concealed \in [Fans -> Nat] /\ "comments" \in Metrics
  BY DEF BadgeInv, BadgeTypes, Metrics
<1>2. tally["comments"][u] \in Nat /\ concealed[u] \in Nat
  BY <1>1
<1>3. \A m \in Metrics, k \in Fans \ {u} : tally'[m][k] = tally[m][k]
  BY <1>1 DEF HideComment, RestoreComment
<1>4. tally' \in [Metrics -> [Fans -> Nat]] /\ concealed' \in [Fans -> Nat]
  <2>1. CASE HideComment(u)
    <3>1. tally["comments"][u] - 1 \in Nat /\ concealed[u] + 1 \in Nat
      BY <1>2, <2>1 DEF HideComment
    <3>. QED BY <1>1, <2>1, <3>1 DEF HideComment
  <2>2. CASE RestoreComment(u)
    <3>1. tally["comments"][u] + 1 \in Nat /\ concealed[u] - 1 \in Nat
      BY <1>2, <2>2 DEF RestoreComment
    <3>. QED BY <1>1, <2>2, <3>1 DEF RestoreComment
  <2>. QED BY <2>1, <2>2
<1>5. /\ evaluation' = Disturb({u}) /\ awards' = awards /\ rule' = rule /\ requirement' = requirement
  BY DEF HideComment, RestoreComment
<1>6. rule' \in [BadgeCodes -> RuleRow] /\ requirement' \in [BadgeCodes -> SUBSET Demand]
  BY <1>5 DEF BadgeInv, BadgeTypes
<1>. QED BY <1>3, <1>4, <1>5, <1>6, EditKeeps

LEMMA BadgeEditKeeps ==
  ASSUME BadgeInv, NEW b \in BadgeCodes, NEW demand \in Demand, NEW extra \in SUBSET Demand,
         CreateBadge(b, demand, extra) \/ UpdateBadge(b, demand, extra) \/ PauseBadge(b)
  PROVE  BadgeInv'
<1>1. /\ rule \in [BadgeCodes -> RuleRow] /\ requirement \in [BadgeCodes -> SUBSET Demand]
      /\ tally \in [Metrics -> [Fans -> Nat]] /\ concealed \in [Fans -> Nat]
  BY DEF BadgeInv, BadgeTypes
<1>2. /\ evaluation' = Disturb(Fans) /\ awards' = awards /\ tally' = tally /\ concealed' = concealed
  BY DEF CreateBadge, UpdateBadge, PauseBadge
<1>3. requirement' \in [BadgeCodes -> SUBSET Demand]
  BY <1>1 DEF CreateBadge, UpdateBadge, PauseBadge
<1>4. rule' \in [BadgeCodes -> RuleRow]
  <2>1. CASE CreateBadge(b, demand, extra)
    <3>1. [known |-> TRUE, live |-> TRUE, demand |-> demand] \in RuleRow
      BY DEF RuleRow
    <3>. QED BY <1>1, <2>1, <3>1 DEF CreateBadge
  <2>2. CASE UpdateBadge(b, demand, extra)
    <3>1. PICK live \in {TRUE, rule[b].live} : rule' = [rule EXCEPT ![b].demand = demand, ![b].live = live]
      BY <2>2 DEF UpdateBadge
    <3>2. rule[b] \in RuleRow /\ live \in BOOLEAN
      BY <1>1 DEF RuleRow
    <3>3. [rule[b] EXCEPT !.demand = demand, !.live = live] \in RuleRow
      BY <3>2 DEF RuleRow
    <3>4. rule' = [rule EXCEPT ![b] = [rule[b] EXCEPT !.demand = demand, !.live = live]]
      BY <1>1, <3>1
    <3>. QED BY <1>1, <3>3, <3>4
  <2>3. CASE PauseBadge(b)
    <3>1. rule[b] \in RuleRow
      BY <1>1
    <3>2. [rule[b] EXCEPT !.live = FALSE] \in RuleRow
      BY <3>1 DEF RuleRow
    <3>. QED BY <1>1, <2>3, <3>2 DEF PauseBadge
  <2>. QED BY <2>1, <2>2, <2>3
<1>. QED BY <1>1, <1>2, <1>3, <1>4, EditKeeps

LEMMA CommitKeepsBadges ==
  ASSUME BadgeInv, NEW w \in BadgeWorkers, CommitEvaluation(w)
  PROVE  BadgeInv'
<1>. PICK e : e = evaluation[w]
  OBVIOUS
<1>. PICK users : users = IF e.op = "reconcile" THEN {} ELSE e.subjects
  OBVIOUS
<1>1. /\ e.op # "none" /\ concealed' = concealed /\ rule' = rule /\ requirement' = requirement
      /\ tally' = [m \in Metrics |-> [u \in Fans |-> MetricValue(e, m, u)]]
      /\ awards' = awards \cup e.won
      /\ evaluation' = [Disturb(users) EXCEPT ![w] = NoEvaluation]
  BY DEF CommitEvaluation, Evaluating
<1>2. BadgeTypes /\ e \in EvaluationRow
  BY DEF BadgeInv, BadgeTypes
<1>3. users \in SUBSET Fans
  BY <1>2 DEF EvaluationRow
<1>4. ASSUME NEW m \in Metrics, NEW u \in Fans
      PROVE  /\ tally'[m][u] = tally[m][u] + OwnFact(e, m, u) /\ OwnFact(e, m, u) \in {0, 1}
             /\ tally[m][u] \in Nat
             /\ u \notin users => OwnFact(e, m, u) = 0
  BY <1>1, <1>2 DEF MetricValue, OwnFact, BadgeTypes
<1>5. tally' \in [Metrics -> [Fans -> Nat]]
  BY <1>1, <1>4 DEF MetricValue
<1>6. \A m \in Metrics, u \in Fans \ users : tally'[m][u] = tally[m][u]
  BY <1>4
<1>7. evaluation'[w] = NoEvaluation /\ \A v \in BadgeWorkers \ {w} : evaluation'[v] = Disturb(users)[v]
  BY <1>1 DEF Disturb
<1>8. ASSUME NEW v \in BadgeWorkers \ {w}
      PROVE  /\ evaluation'[v] \in EvaluationRow
             /\ evaluation'[v].op = "none" => evaluation'[v] = NoEvaluation
             /\ evaluation'[v].op = evaluation[v].op /\ evaluation'[v].won = evaluation[v].won
             /\ evaluation'[v].op # "none" =>
                  Ascending(v)' /\ (~evaluation'[v].disturbed => Judged(v)')
  <2>1. awards \subseteq awards' /\ evaluation'[v] = Disturb(users)[v]
    BY <1>1, <1>7
  <2>. QED BY <1>1, <1>3, <1>6, <2>1, Crossed
<1>9. BadgeTypes'
  <2>1. evaluation' \in [BadgeWorkers -> EvaluationRow]
    BY <1>1, <1>7, <1>8, NoEvaluationFacts DEF Disturb
  <2>2. awards' \in SUBSET (Fans \X BadgeCodes)
    BY <1>1, <1>2 DEF BadgeTypes, EvaluationRow
  <2>3. \A v \in BadgeWorkers : evaluation'[v].op = "none" => evaluation'[v] = NoEvaluation
    BY <1>7, <1>8
  <2>. QED BY <1>1, <1>2, <1>5, <2>1, <2>2, <2>3 DEF BadgeTypes
<1>10. AwardedOnce'
  <2>1. ASSUME NEW v \in BadgeWorkers \ {w}, evaluation'[v].op # "none"
        PROVE  evaluation'[v].won \cap awards' = {}
    BY <1>1, <1>8, <2>1 DEF BadgeInv, AwardedOnce, Evaluating
  <2>2. ASSUME NEW v \in BadgeWorkers \ {w}, evaluation'[v].op # "none",
               NEW x \in BadgeWorkers \ {w}, evaluation'[x].op # "none", v # x
        PROVE  evaluation'[v].won \cap evaluation'[x].won = {}
    BY <1>8, <2>2 DEF BadgeInv, AwardedOnce, Evaluating
  <2>. QED BY <1>7, <2>1, <2>2, NoEvaluationFacts DEF AwardedOnce, Evaluating
<1>. QED BY <1>7, <1>8, <1>9, <1>10, NoEvaluationFacts DEF BadgeInv, Evaluating

LEMMA BadgeStart == BadgeInit => BadgeInv
<1>. SUFFICES ASSUME BadgeInit PROVE BadgeInv
  OBVIOUS
<1>1. \A w \in BadgeWorkers : evaluation[w] = NoEvaluation
  BY DEF BadgeInit
<1>2. NoRule \in RuleRow
  BY DEF NoRule, RuleRow, Demand, Metrics, Thresholds
<1>3. BadgeTypes
  BY <1>1, <1>2, NoEvaluationFacts DEF BadgeInit, BadgeTypes
<1>4. Evaluating = {}
  BY <1>1, NoEvaluationFacts DEF Evaluating
<1>. QED BY <1>3, <1>4 DEF BadgeInv, AwardedOnce

LEMMA BadgeStep == BadgeInv /\ [BadgeNext]_badgeVars => BadgeInv'
<1>. SUFFICES ASSUME BadgeInv, [BadgeNext]_badgeVars PROVE BadgeInv'
  OBVIOUS
<1>1. CASE UNCHANGED badgeVars
  <2>1. /\ tally' = tally /\ concealed' = concealed /\ rule' = rule /\ requirement' = requirement
        /\ awards' = awards /\ evaluation' = evaluation
    BY <1>1 DEF badgeVars
  <2>2. evaluation' = Disturb({})
    BY <2>1 DEF Disturb, BadgeInv, BadgeTypes
  <2>3. /\ tally' \in [Metrics -> [Fans -> Nat]] /\ concealed' \in [Fans -> Nat]
        /\ rule' \in [BadgeCodes -> RuleRow] /\ requirement' \in [BadgeCodes -> SUBSET Demand]
    BY <2>1 DEF BadgeInv, BadgeTypes
  <2>. QED BY <2>1, <2>2, <2>3, EditKeeps
<1>2. ASSUME NEW w \in BadgeWorkers, NEW op \in DOMAIN RuleTypes, NEW users \in SUBSET Fans,
             BeginEvaluation(w, op, users)
      PROVE  BadgeInv'
  BY <1>2, BeginKeeps
<1>3. ASSUME NEW w \in BadgeWorkers, Judge(w) \/ NextUser(w) \/ CommitEvaluation(w) \/ FailEvaluation(w)
      PROVE  BadgeInv'
  BY <1>3, JudgeKeeps, NextUserKeeps, CommitKeepsBadges, FailKeeps
<1>4. ASSUME NEW u \in Fans, HideComment(u) \/ RestoreComment(u) PROVE BadgeInv'
  BY <1>4, ModerationKeeps
<1>5. ASSUME NEW b \in BadgeCodes, NEW demand \in TriedDemands, NEW extra \in {{}, {Other(demand)}},
             CreateBadge(b, demand, extra) \/ UpdateBadge(b, demand, extra)
      PROVE  BadgeInv'
  <2>1. demand \in Demand /\ Other(demand) \in Demand
    <3>1. \E m \in Metrics : m # demand.metric
      BY DEF Metrics
    <3>2. (CHOOSE m \in Metrics : m # demand.metric) \in Metrics
      BY <3>1
    <3>. QED BY <3>2 DEF TriedDemands, Other, Demand, Thresholds
  <2>2. extra \in SUBSET Demand
    BY <2>1
  <2>. QED BY <1>5, <2>1, <2>2, BadgeEditKeeps
<1>6. ASSUME NEW b \in BadgeCodes, PauseBadge(b) PROVE BadgeInv'
  <2>1. rule[b].demand \in Demand
    BY DEF BadgeInv, BadgeTypes, RuleRow
  <2>. QED BY <1>6, <2>1, BadgeEditKeeps
<1>. QED BY <1>1, <1>2, <1>3, <1>4, <1>5, <1>6 DEF BadgeNext

\* Of finitely many requests the one that is furthest on waits for none: whoever inserted the award
\* it comes to would be further on.
LEMMA SomeoneProceeds == BadgeInv => SomeEvaluationProceeds
<1>. SUFFICES ASSUME BadgeInv, Evaluating # {}, \A w \in Evaluating : \E v \in Evaluating : WaitsFor(w, v)
              PROVE  FALSE
  BY DEF SomeEvaluationProceeds
<1>. DEFINE f == [w \in Evaluating |-> evaluation[w].who]
            g == [w \in Evaluating |-> NextRule(evaluation[w]).badge]
<1>1. IsFiniteSet(Evaluating) /\ Evaluating \subseteq BadgeWorkers
  BY FansAssumption, FS_Subset DEF Evaluating
<1>2. \A w \in Evaluating : evaluation[w] \in EvaluationRow /\ evaluation[w].due # {}
  BY <1>1 DEF BadgeInv, BadgeTypes, WaitsFor
<1>3. ASSUME NEW w \in Evaluating
      PROVE  /\ f[w] \in Nat /\ g[w] \in Nat
             /\ NextRule(evaluation[w]) \in evaluation[w].due
  <2>1. evaluation[w].due \in SUBSET Due /\ evaluation[w].who \in Nat
    BY <1>2 DEF EvaluationRow
  <2>2. NextRule(evaluation[w]) \in evaluation[w].due
    BY <1>2, <2>1, NextRuleFacts
  <2>3. \A d \in Due : d.badge \in Nat
    BY FansAssumption DEF Due
  <2>. QED BY <2>1, <2>2, <2>3
<1>4. ASSUME NEW w \in Evaluating, NEW v \in Evaluating, WaitsFor(w, v)
      PROVE  f[w] < f[v] \/ (f[w] = f[v] /\ g[w] < g[v])
  <2>1. <<evaluation[w].who, NextRule(evaluation[w]).badge>> \in evaluation[v].won
    BY <1>4 DEF WaitsFor
  <2>2. Ascending(v)
    BY DEF BadgeInv
  <2>. QED BY <1>3, <2>1, <2>2 DEF Ascending
<1>. HIDE DEF f, g
<1>5. PICK x \in Evaluating : \A v \in Evaluating : f[v] <= f[x]
  BY <1>1, <1>3, GreatestValue
<1>. DEFINE Last == {w \in Evaluating : f[w] = f[x]}
<1>6. IsFiniteSet(Last) /\ Last # {} /\ Last \subseteq Evaluating
  BY <1>1, FS_Subset
<1>7. PICK y \in Last : \A v \in Last : g[v] <= g[y]
  <2>1. \A v \in Last : g[v] \in Nat
    BY <1>3
  <2>. HIDE DEF Last
  <2>. QED BY <1>6, <2>1, GreatestValue
<1>8. PICK v \in Evaluating : WaitsFor(y, v)
  BY <1>6
<1>9. f[y] < f[v] \/ (f[y] = f[v] /\ g[y] < g[v])
  BY <1>4, <1>6, <1>8
<1>10. f[y] = f[x] /\ f[v] <= f[x] /\ f[v] \in Nat /\ f[x] \in Nat /\ g[v] \in Nat /\ g[y] \in Nat
  BY <1>3, <1>5, <1>6
<1>11. f[v] = f[x] /\ g[y] < g[v]
  BY <1>9, <1>10
<1>12. v \in Last
  BY <1>11
<1>. QED BY <1>7, <1>10, <1>11, <1>12

LEMMA BadgePromises == BadgeInv => BadgeInvariant
<1>. SUFFICES ASSUME BadgeInv PROVE BadgeTypeOK /\ SomeEvaluationProceeds /\ AwardedOnce
  BY DEF BadgeInvariant
<1>1. \A w \in Evaluating : evaluation[w].turn \subseteq evaluation[w].subjects
  BY DEF BadgeInv, Ascending
<1>2. BadgeTypeOK
  BY <1>1 DEF BadgeInv, BadgeTypes, BadgeTypeOK
<1>. QED BY <1>2, SomeoneProceeds DEF BadgeInv

\* What an undisturbed request commits are the badges its users have earned.
LEMMA CommitFollowsFacts ==
  ASSUME BadgeInv, NEW w \in BadgeWorkers, CommitEvaluation(w), ~evaluation[w].disturbed,
         NEW u \in evaluation[w].subjects, NEW b \in BadgeCodes
  PROVE  /\ rule[b].demand.metric \in RuleTypes[evaluation[w].op] /\ Satisfies(u, b)' => <<u, b>> \in awards'
         /\ <<u, b>> \in awards' \ awards => Satisfies(u, b)'
<1>. PICK e : e = evaluation[w]
  OBVIOUS
<1>1. /\ e.op # "none" /\ e.due = {} /\ e.turn = {} /\ rule' = rule /\ requirement' = requirement
      /\ tally' = [m \in Metrics |-> [k \in Fans |-> MetricValue(e, m, k)]]
      /\ awards' = awards \cup e.won
  BY DEF CommitEvaluation, Evaluating
<1>2. BadgeTypes /\ e \in EvaluationRow /\ Judged(w)
  BY <1>1 DEF BadgeInv, BadgeTypes, Evaluating
<1>3. u \in Fans
  BY <1>2 DEF EvaluationRow
<1>4. Satisfies(u, b)' <=> rule[b].live /\ Meets(e, b, u)
  <2>1. rule[b].demand \in Demand /\ requirement[b] \in SUBSET Demand
    BY <1>2 DEF BadgeTypes, RuleRow
  <2>2. \A q \in Demand : tally'[q.metric][u] >= q.threshold <=> RuleIsMet(e, q, u)
    BY <1>1, <1>3 DEF RuleIsMet, Demand
  <2>. QED BY <1>1, <2>1, <2>2 DEF Satisfies, Meets, RequirementsAreMet
<1>5. HasJudged(e, u, b)
  BY <1>1 DEF HasJudged
<1>6. rule[b].demand.metric \in RuleTypes[e.op] /\ rule[b].live /\ Meets(e, b, u) => <<u, b>> \in awards \cup e.won
  BY <1>2, <1>5 DEF Judged, Evaluates
<1>7. <<u, b>> \in e.won => rule[b].live /\ Meets(e, b, u)
  BY <1>2 DEF Judged, Evaluates
<1>. QED BY <1>1, <1>4, <1>6, <1>7

LEMMA BadgePart == Next => [BadgeNext]_badgeVars
BY DEF Next, EmailSteps, DeviceSteps, PushSteps, ImageSteps, BadgeSteps, TalkSteps, AgentSteps

LEMMA BadgeAlways == Spec => []BadgeInv
<1>1. Init => BadgeInv
  BY BadgeStart DEF Init
<1>2. BadgeInv /\ [Next]_allVars => BadgeInv'
  BY BadgeStep, BadgePart DEF allVars, badgeVars
<1> QED BY <1>1, <1>2, PTL DEF Spec

LEMMA BadgesDo == Spec => BadgesFollowFacts
<1>1. BadgeInv /\ [Next]_allVars =>
        [\A w \in BadgeWorkers :
           (CommitEvaluation(w) /\ ~evaluation[w].disturbed)
           => \A u \in evaluation[w].subjects, b \in BadgeCodes :
                /\ rule[b].demand.metric \in RuleTypes[evaluation[w].op] /\ Satisfies(u, b)'
                     => <<u, b>> \in awards'
                /\ <<u, b>> \in awards' \ awards => Satisfies(u, b)']_badgeVars
  BY CommitFollowsFacts
<1> QED BY <1>1, BadgeAlways, PTL DEF Spec, BadgesFollowFacts

-----------------------------------------------------------------------------
(* The conversation: who was told of what.                                 *)

\* A notice is of a deed that was done, by a person, to somebody else.
NoticeGood(n) ==
    \E r \in Readers :
      \/ \E c \in Posts : /\ n = <<r, PostKey(c)>> /\ post[c] # NoPost
                          /\ post[c].author \in Readers /\ r \in participants \ {post[c].author}
      \/ \E p \in Readers : n = <<r, LikeKey(p)>> /\ r \in participants \ {p}
      \/ \E c \in Posts, p \in Readers : /\ n = <<r, PostLikeKey(c, p)>> /\ post[c] # NoPost
                                         /\ post[c].author = r /\ p # r

TalkInv ==
    /\ TalkTypeOK
    /\ rung = [n \in notices |-> 1]
    /\ \A n \in notices : NoticeGood(n)

\* Telling people of something adds the rows that were not there, and rings for those.
LEMMA TellRings ==
  ASSUME NEW actor, NEW recipients, NEW key, rung = [n \in notices |-> 1], unread \subseteq notices,
         Tell(actor, recipients, key)
  PROVE  /\ rung' = [n \in notices' |-> 1] /\ unread' \subseteq notices'
         /\ \A n \in notices' : n \in notices
              \/ (actor \notin Bots /\ \E r \in (recipients \cap Readers) \ {actor} : n = <<r, key>>)
<1>. DEFINE rows == {<<r, key>> : r \in Heard(actor, recipients)}
<1>1. /\ notices' = notices \cup rows /\ unread' = unread \cup NewRows(rows)
      /\ rung' = [n \in DOMAIN rung \cup rows |->
                    (IF n \in DOMAIN rung THEN rung[n] ELSE 0)
                    + (IF n \in NewRows(rows) THEN 1 ELSE 0)]
  BY DEF Tell
<1>2. \A n \in rows : actor \notin Bots /\ \E r \in (recipients \cap Readers) \ {actor} : n = <<r, key>>
  BY DEF Heard
<1>. HIDE DEF rows
<1>3. DOMAIN rung = notices /\ \A n \in notices : rung[n] = 1
  OBVIOUS
<1>4. NewRows(rows) = rows \ notices
  BY DEF NewRows
<1>5. rung' = [n \in notices' |-> 1]
  <2>1. DOMAIN rung \cup rows = notices'
    BY <1>1, <1>3
  <2>2. ASSUME NEW n \in notices'
        PROVE  (IF n \in DOMAIN rung THEN rung[n] ELSE 0) + (IF n \in NewRows(rows) THEN 1 ELSE 0) = 1
    BY <1>1, <1>3, <1>4
  <2>. QED BY <1>1, <2>1, <2>2
<1>. QED BY <1>1, <1>2, <1>4, <1>5

\* A notice stays right while comments keep their authors and people keep taking part.
LEMMA NoticeFrame ==
  ASSUME TalkTypeOK, NEW n, NoticeGood(n), participants \subseteq participants',
         \A c \in Posts : post[c] # NoPost => post'[c] # NoPost /\ post'[c].author = post[c].author
  PROVE  NoticeGood(n)'
BY DEF NoticeGood, PostKey, LikeKey, PostLikeKey

\* A step that tells nobody anything.
LEMMA QuietStep ==
  ASSUME TalkInv, TalkTypeOK', notices' = notices, rung' = rung, participants \subseteq participants',
         \A c \in Posts : post[c] # NoPost => post'[c] # NoPost /\ post'[c].author = post[c].author
  PROVE  TalkInv'
BY NoticeFrame DEF TalkInv

\* One that tells somebody.
LEMMA ToldStep ==
  ASSUME TalkInv, NEW actor, NEW recipients, NEW key, Tell(actor, recipients, key),
         unread' \subseteq notices' => TalkTypeOK', participants \subseteq participants',
         \A c \in Posts : post[c] # NoPost => post'[c] # NoPost /\ post'[c].author = post[c].author,
         actor \notin Bots => \A r \in (recipients \cap Readers) \ {actor} : NoticeGood(<<r, key>>)'
  PROVE  TalkInv'
<1>1. /\ rung' = [n \in notices' |-> 1] /\ unread' \subseteq notices'
      /\ \A n \in notices' : n \in notices
           \/ (actor \notin Bots /\ \E r \in (recipients \cap Readers) \ {actor} : n = <<r, key>>)
  BY TellRings DEF TalkInv, TalkTypeOK
<1>2. \A n \in notices' : NoticeGood(n)'
  BY <1>1, NoticeFrame DEF TalkInv
<1>. QED BY <1>1, <1>2 DEF TalkInv

LEMMA TalkStart == TalkInit => TalkInv
BY DEF TalkInit, TalkInv, TalkTypeOK, Reactions

LEMMA TalkStep == TalkInv /\ [TalkNext]_talkVars => TalkInv'
<1>. SUFFICES ASSUME TalkInv, [TalkNext]_talkVars PROVE TalkInv'
  OBVIOUS
<1>1. /\ stage \in {"public", "canceled"}
      /\ participants \subseteq People /\ likes \subseteq People /\ favorites \subseteq People
      /\ post \in [Posts -> PostRow \cup {NoPost}]
      /\ reaction \in [Posts -> [People -> Reactions \cup {"none"}]]
      /\ unread \subseteq notices
  BY DEF TalkInv, TalkTypeOK
<1>2. CASE UNCHANGED talkVars
  <2>1. TalkTypeOK'
    BY <1>1, <1>2 DEF talkVars, TalkTypeOK
  <2>. QED BY <1>2, <2>1, QuietStep DEF talkVars
<1>3. CASE CancelMarket
  <2>1. TalkTypeOK'
    BY <1>1, <1>3 DEF CancelMarket, TalkTypeOK
  <2>. QED BY <1>3, <2>1, QuietStep DEF CancelMarket
<1>4. ASSUME NEW p \in People, Participate(p) \/ UnlikeMarket(p) \/ ReadAll(p) PROVE TalkInv'
  <2>1. TalkTypeOK'
    BY <1>1, <1>4 DEF Participate, UnlikeMarket, ReadAll, TalkTypeOK
  <2>. QED BY <1>4, <2>1, QuietStep DEF Participate, UnlikeMarket, ReadAll
<1>5. ASSUME NEW p \in People, NEW on \in BOOLEAN, Favorite(p, on) PROVE TalkInv'
  <2>1. TalkTypeOK'
    BY <1>1, <1>5 DEF Favorite, TalkTypeOK
  <2>. QED BY <1>5, <2>1, QuietStep DEF Favorite
<1>6. ASSUME NEW p \in People, NEW c \in Posts, NEW r \in Reactions, ClearReaction(p, c, r) PROVE TalkInv'
  <2>1. TalkTypeOK'
    BY <1>1, <1>6 DEF ClearReaction, TalkTypeOK
  <2>. QED BY <1>6, <2>1, QuietStep DEF ClearReaction
<1>7. ASSUME NEW c \in Posts, NEW visible \in BOOLEAN, ModerateComment(c, visible) PROVE TalkInv'
  <2>1. post[c] \in PostRow
    BY <1>1, <1>7 DEF ModerateComment
  <2>2. [post[c] EXCEPT !.visible = visible] \in PostRow
        /\ [post[c] EXCEPT !.visible = visible].author = post[c].author
    BY <2>1 DEF PostRow
  <2>3. post' = [post EXCEPT ![c] = [post[c] EXCEPT !.visible = visible]]
    BY <1>1, <1>7 DEF ModerateComment
  <2>4. TalkTypeOK'
    BY <1>1, <1>7, <2>2, <2>3 DEF ModerateComment, TalkTypeOK
  <2>5. \A k \in Posts : post[k] # NoPost => post'[k] # NoPost /\ post'[k].author = post[k].author
    BY <1>1, <2>2, <2>3, PostAssumption
  <2>. QED BY <1>7, <2>4, <2>5, QuietStep DEF ModerateComment
<1>8. ASSUME NEW p \in People, NEW c \in Posts, CreateComment(p, c) PROVE TalkInv'
  <2>1. /\ post[c] = NoPost /\ post' = [post EXCEPT ![c] = [author |-> p, visible |-> TRUE]]
        /\ Tell(p, participants, PostKey(c)) /\ participants' = participants /\ stage' = stage
        /\ reaction' = reaction /\ likes' = likes /\ favorites' = favorites
    BY <1>8 DEF CreateComment
  <2>2. [author |-> p, visible |-> TRUE] \in PostRow
    BY DEF PostRow
  <2>3. unread' \subseteq notices' => TalkTypeOK'
    BY <1>1, <2>1, <2>2 DEF TalkTypeOK
  <2>4. \A k \in Posts : post[k] # NoPost => post'[k] # NoPost /\ post'[k].author = post[k].author
    BY <1>1, <2>1
  <2>5. post'[c] # NoPost /\ post'[c].author = p
    BY <1>1, <2>1, <2>2, PostAssumption
  <2>6. ASSUME p \notin Bots, NEW r \in (participants \cap Readers) \ {p}
        PROVE  NoticeGood(<<r, PostKey(c)>>)'
    <3>1. p \in Readers
      BY <2>6 DEF People
    <3>. QED BY <2>1, <2>5, <2>6, <3>1 DEF NoticeGood, PostKey
  <2>. QED BY <2>1, <2>3, <2>4, <2>6, ToldStep
<1>9. ASSUME NEW p \in People, LikeMarket(p) PROVE TalkInv'
  <2>1. /\ Tell(p, participants, LikeKey(p)) /\ participants' = participants /\ stage' = stage
        /\ reaction' = reaction /\ likes' = likes \cup {p} /\ favorites' = favorites /\ post' = post
    BY <1>9 DEF LikeMarket
  <2>2. unread' \subseteq notices' => TalkTypeOK'
    BY <1>1, <2>1 DEF TalkTypeOK
  <2>3. ASSUME p \notin Bots, NEW r \in (participants \cap Readers) \ {p}
        PROVE  NoticeGood(<<r, LikeKey(p)>>)'
    <3>1. p \in Readers
      BY <2>3 DEF People
    <3>. QED BY <2>1, <2>3, <3>1 DEF NoticeGood, LikeKey
  <2>. QED BY <2>1, <2>2, <2>3, ToldStep
<1>10. ASSUME NEW p \in People, NEW c \in Posts, NEW r \in Reactions, SetReaction(p, c, r) PROVE TalkInv'
  <2>1. /\ post[c] # NoPost /\ participants' = participants /\ stage' = stage
        /\ reaction' = [reaction EXCEPT ![c][p] = r] /\ likes' = likes /\ favorites' = favorites
        /\ post' = post
    BY <1>10 DEF SetReaction, Visible
  <2>2. reaction' \in [Posts -> [People -> Reactions \cup {"none"}]]
    BY <1>1, <2>1
  <2>3. unread' \subseteq notices' => TalkTypeOK'
    BY <1>1, <2>1, <2>2 DEF TalkTypeOK
  <2>4. CASE r = "like"
    <3>1. Tell(p, {post[c].author}, PostLikeKey(c, p))
      BY <1>10, <2>4 DEF SetReaction
    <3>2. ASSUME p \notin Bots, NEW k \in ({post[c].author} \cap Readers) \ {p}
          PROVE  NoticeGood(<<k, PostLikeKey(c, p)>>)'
      <4>1. p \in Readers
        BY <3>2 DEF People
      <4>. QED BY <2>1, <3>2, <4>1 DEF NoticeGood, PostLikeKey
    <3>. QED BY <2>1, <2>3, <3>1, <3>2, ToldStep
  <2>5. CASE r # "like"
    <3>1. notices' = notices /\ unread' = unread /\ rung' = rung
      BY <1>10, <2>5 DEF SetReaction
    <3>. QED BY <1>1, <2>1, <2>3, <3>1, QuietStep
  <2>. QED BY <2>4, <2>5
<1>. QED BY <1>2, <1>3, <1>4, <1>5, <1>6, <1>7, <1>8, <1>9, <1>10 DEF TalkNext

LEMMA TalkPromises == TalkInv => TalkInvariant
<1>. SUFFICES ASSUME TalkInv PROVE TalkInvariant
  OBVIOUS
<1>1. TalkTypeOK /\ ToldOnce
  BY DEF TalkInv, ToldOnce
<1>2. ASSUME NEW n \in notices
      PROVE  LET who == n[1]  key == n[2] IN
             /\ who \in Readers
             /\ CASE key[1] = "market_comment" ->
                       who \in participants \ {post[key[2]].author} /\ post[key[2]].author \in Readers
                  [] key[1] = "market_like" -> who \in participants \ {key[2]} /\ key[2] \in Readers
                  [] OTHER -> who = post[key[2]].author /\ key[3] \in Readers \ {who}
  <2>1. NoticeGood(n)
    BY DEF TalkInv
  <2>. QED BY <2>1 DEF NoticeGood, PostKey, LikeKey, PostLikeKey
<1>. QED BY <1>1, <1>2 DEF TalkInvariant, ToldOfOthers

LEMMA TalkPart == Next => [TalkNext]_talkVars
BY DEF Next, EmailSteps, DeviceSteps, PushSteps, ImageSteps, BadgeSteps, TalkSteps, AgentSteps

LEMMA TalkAlways == Spec => []TalkInv
<1>1. Init => TalkInv
  BY TalkStart DEF Init
<1>2. TalkInv /\ [Next]_allVars => TalkInv'
  BY TalkStep, TalkPart DEF allVars, talkVars
<1> QED BY <1>1, <1>2, PTL DEF Spec

-----------------------------------------------------------------------------
(* The cycles of the agents.                                               *)

CycleRow ==
    [at : Steps, flags : SUBSET Flags, limits : Limits, queue : SUBSET Visits,
     agent : Agents \cup {NoAgent}, user : BotUsers \cup {NoAgent}, own : AgentLimits,
     todo : SUBSET Squares, on : Squares \cup {NoSquare}, attempts : Nat, created : Nat,
     remarks : SUBSET RemarkRow, stakes : SUBSET StakeRow]

KeptRow == [day : Nat, stakes : Nat, square : [Squares -> Nat], own : [Agents -> Nat]]

WorldFine ==
    /\ squareOpen \in SUBSET Squares /\ crowd \in SUBSET Squares /\ heardLately \in SUBSET Squares
    /\ agentUser \in [Agents -> BotUsers] /\ agentOn \in SUBSET Agents /\ flags \in SUBSET Flags
    /\ agentLimits \in [Agents -> AgentLimits] /\ limits \in Limits /\ kept \in KeptRow
    /\ remarks \in SUBSET RemarkRow /\ stakes \in SUBSET StakeRow
    /\ purse \in [BotUsers -> Nat] /\ cycle \in CycleRow
    /\ IsFiniteSet(SeenRemarks) /\ IsFiniteSet(SeenStakes)

\* Comments are numbered as they are written, those of the cycle after the others.
Numbered ==
    /\ \A q, r \in SeenRemarks : q.id = r.id => q = r
    /\ \A r \in remarks : r.id <= Cardinality(remarks)
    /\ \A r \in SeenRemarks : r.id <= Cardinality(SeenRemarks)
    /\ \A r \in cycle.remarks : r.id > Cardinality(remarks)

\* What there is of today stays within the limits the last was written under.
QuotasFine ==
    /\ Cardinality(Today(SeenRemarks)) <= kept.day
    /\ \A s \in Squares : Cardinality(TodayOn(s)) <= kept.square[s]
    /\ Cardinality(Today(SeenStakes)) <= kept.stakes
    /\ \A a \in Agents : Cardinality(TodayOf(SeenStakes, a)) <= kept.own[a]

TraderLimit == Own(cycle.own.stakeDay, cycle.limits.stakeDay)

\* What the cycle is about to do is within the limits it has looked at.
PhaseFine ==
    /\ cycle.at = "idle" => cycle.remarks = {} /\ cycle.stakes = {}
    /\ cycle.at \in {"squares", "asking"} =>
         /\ cycle.agent \in Agents /\ cycle.user \in BotUsers
         /\ \A s \in cycle.todo : Cardinality(TodayOn(s)) < cycle.limits.squareDay
    /\ cycle.at = "asking" =>
         /\ cycle.on \in Squares \ cycle.todo
         /\ Cardinality(TodayOn(cycle.on)) < cycle.limits.squareDay
         /\ Cardinality(Today(SeenRemarks)) < cycle.limits.day
    /\ cycle.at = "traders" => cycle.created = 0
    /\ cycle.at \in {"placing", "signing"} =>
         /\ cycle.created <= cycle.limits.stakeCycle
         /\ Cardinality(Today(SeenStakes)) <= cycle.limits.stakeDay - 1 + cycle.created
    /\ cycle.at = "signing" =>
         /\ cycle.agent \in Agents /\ cycle.user \in BotUsers /\ cycle.on \in crowd
         /\ ~Holds(cycle.user, cycle.on) /\ cycle.created < cycle.limits.stakeCycle
         /\ Cardinality(TodayOf(SeenStakes, cycle.agent)) < TraderLimit

StakesApart ==
    \A b \in stakes, c \in cycle.stakes : ~ (b.user = c.user /\ b.on = c.on)

CycleInv ==
    WorldFine /\ Numbered /\ QuotasFine /\ PhaseFine /\ StakesApart /\ BotsFollowHumans

LEMMA WithOne ==
  ASSUME NEW S, IsFiniteSet(S), NEW x
  PROVE  /\ IsFiniteSet(S \cup {x}) /\ Cardinality(S \cup {x}) \in Nat /\ Cardinality(S) \in Nat
         /\ Cardinality(S \cup {x}) <= Cardinality(S) + 1 /\ Cardinality(S) <= Cardinality(S \cup {x})
         /\ x \notin S => Cardinality(S \cup {x}) = Cardinality(S) + 1
<1>1. Cardinality(S) \in Nat
  BY FS_CardinalityType
<1>2. CASE x \in S
  <2>. PICK T : T = S \cup {x}
    OBVIOUS
  <2>1. T = S
    BY <1>2
  <2>2. IsFiniteSet(T) /\ Cardinality(T) = Cardinality(S)
    BY <2>1
  <2>3. Cardinality(T) \in Nat /\ Cardinality(T) <= Cardinality(S) + 1 /\ Cardinality(S) <= Cardinality(T)
    BY <1>1, <2>2
  <2>. QED BY <1>1, <1>2, <2>2, <2>3
<1>3. CASE x \notin S
  <2>1. IsFiniteSet(S \cup {x}) /\ Cardinality(S \cup {x}) = Cardinality(S) + 1
    BY <1>3, FS_AddElement
  <2>. QED BY <1>1, <1>3, <2>1
<1>. QED BY <1>2, <1>3

LEMMA LimitNumbers ==
  ASSUME NEW l \in Limits, NEW o \in AgentLimits
  PROVE  /\ l.day \in Nat /\ l.squareDay \in Nat /\ l.stakeDay \in Nat
         /\ l.stakeCycle \in Nat \ {0} /\ Own(o.stakeDay, l.stakeDay) \in Nat
<1>1. l \in LimitRow /\ o \in AgentLimitRow
  BY CycleAssumption
<1>. QED BY <1>1 DEF LimitRow, AgentLimitRow, Own

\* The limits of the running cycle and those kept are numbers.
LEMMA CycleNumbers ==
  ASSUME WorldFine
  PROVE  /\ cycle.limits.day \in Nat /\ cycle.limits.squareDay \in Nat
         /\ cycle.limits.stakeDay \in Nat /\ cycle.limits.stakeCycle \in Nat \ {0}
         /\ TraderLimit \in Nat
         /\ kept.day \in Nat /\ kept.stakes \in Nat
         /\ \A s \in Squares : kept.square[s] \in Nat
         /\ \A a \in Agents : kept.own[a] \in Nat
<1>1. cycle.limits \in Limits /\ cycle.own \in AgentLimits
  BY DEF WorldFine, CycleRow
<1>2. /\ kept.day \in Nat /\ kept.stakes \in Nat /\ kept.square \in [Squares -> Nat]
      /\ kept.own \in [Agents -> Nat]
  BY DEF WorldFine, KeptRow
<1>. QED BY <1>1, <1>2, LimitNumbers DEF TraderLimit

LEMMA SubsetSize ==
  ASSUME NEW S, IsFiniteSet(S), NEW T \in SUBSET S
  PROVE  IsFiniteSet(T) /\ Cardinality(T) \in Nat /\ Cardinality(S) \in Nat /\ Cardinality(T) <= Cardinality(S)
BY FS_Subset, FS_CardinalityType

\* What is seen by a statement of the cycle when rows stay as they are.
LEMMA SeenSame ==
  ASSUME remarks' = remarks, stakes' = stakes,
         cycle'.remarks = cycle.remarks, cycle'.stakes = cycle.stakes
  PROVE  /\ SeenRemarks' = SeenRemarks /\ SeenStakes' = SeenStakes
         /\ \A s : TodayOn(s)' = TodayOn(s)
         /\ \A u, s : Holds(u, s)' <=> Holds(u, s)
         /\ \A u : Spent(u)' = Spent(u)
BY DEF SeenRemarks, SeenStakes, TodayOn, Holds, Spent

\* A step that writes no row keeps whatever is said of rows.
LEMMA QuietCycle ==
  ASSUME CycleInv, remarks' = remarks, stakes' = stakes, purse' = purse, kept' = kept,
         cycle' \in CycleRow, cycle'.remarks = cycle.remarks, cycle'.stakes = cycle.stakes,
         crowd \subseteq crowd',
         squareOpen' \in SUBSET Squares, crowd' \in SUBSET Squares, heardLately' \in SUBSET Squares,
         agentUser' \in [Agents -> BotUsers], agentOn' \in SUBSET Agents, flags' \in SUBSET Flags,
         agentLimits' \in [Agents -> AgentLimits], limits' \in Limits, PhaseFine'
  PROVE  CycleInv'
<1>1. /\ SeenRemarks' = SeenRemarks /\ SeenStakes' = SeenStakes
      /\ \A s : TodayOn(s)' = TodayOn(s)
      /\ \A u : Spent(u)' = Spent(u)
  BY SeenSame
<1>2. WorldFine'
  BY <1>1 DEF CycleInv, WorldFine
<1>3. Numbered'
  BY <1>1 DEF CycleInv, Numbered
<1>4. QuotasFine'
  BY <1>1 DEF CycleInv, QuotasFine, Today, TodayOf
<1>5. StakesApart'
  BY DEF CycleInv, StakesApart
<1>6. BotsFollowHumans'
  BY <1>1 DEF CycleInv, BotsFollowHumans
<1>. QED BY <1>2, <1>3, <1>4, <1>5, <1>6 DEF CycleInv

LEMMA NoCycleFacts ==
  /\ NoCycle \in CycleRow /\ NoCycle.at = "idle" /\ NoCycle.remarks = {} /\ NoCycle.stakes = {}
  /\ NoCycle.created = 0 /\ NoCycle.todo = {}
BY CycleAssumption DEF NoCycle, CycleRow, Steps

LEMMA ActiveFacts == ASSUME WorldFine, NEW kind PROVE ActiveAgents(kind) \in SUBSET Visits
BY DEF WorldFine, ActiveAgents, Visits

LEMMA BeginCycleKeeps == ASSUME CycleInv, BeginCycle PROVE CycleInv'
<1>1. /\ cycle.at = "idle" /\ worldVars' = worldVars /\ remarks' = remarks /\ stakes' = stakes
      /\ purse' = purse /\ kept' = kept
  BY DEF BeginCycle
<1>2. PICK at, queue :
        /\ at \in {"analysts", "traders"} /\ queue \in {ActiveAgents("analyst"), {}}
        /\ cycle' = [NoCycle EXCEPT !.at = at, !.flags = flags, !.limits = limits, !.queue = queue]
  BY DEF BeginCycle
<1>3. WorldFine /\ PhaseFine
  BY DEF CycleInv
<1>4. queue \in SUBSET Visits /\ flags \in SUBSET Flags /\ limits \in Limits
  BY <1>2, <1>3, ActiveFacts DEF WorldFine
<1>5. /\ cycle' \in CycleRow /\ cycle'.at = at /\ cycle'.created = 0
      /\ cycle'.remarks = {} /\ cycle'.stakes = {}
  <2>1. at \in Steps
    BY <1>2 DEF Steps
  <2>. QED BY <1>2, <1>4, <2>1, NoCycleFacts DEF CycleRow
<1>6. cycle'.remarks = cycle.remarks /\ cycle'.stakes = cycle.stakes
  BY <1>1, <1>3, <1>5 DEF PhaseFine
<1>7. PhaseFine'
  BY <1>2, <1>5 DEF PhaseFine
<1>. QED BY <1>1, <1>3, <1>5, <1>6, <1>7, QuietCycle DEF worldVars, streetVars, consoleVars, WorldFine

LEMMA VisitAnalystKeeps ==
  ASSUME CycleInv, NEW v \in Visits, VisitAnalyst(v)
  PROVE  CycleInv'
<1>1. /\ cycle.at = "analysts" /\ worldVars' = worldVars /\ remarks' = remarks /\ stakes' = stakes
      /\ purse' = purse /\ kept' = kept
  BY DEF VisitAnalyst
<1>2. WorldFine /\ PhaseFine
  BY DEF CycleInv
<1>3. PICK at, todo :
        /\ \/ at = "squares" /\ todo = Candidates(v)
           \/ at = "analysts" /\ todo = {}
        /\ cycle' = [cycle EXCEPT !.queue = @ \ {v}, !.agent = v.agent, !.user = v.user, !.own = v.own,
                                  !.attempts = 0, !.at = at, !.todo = todo]
  <2>. PICK c : c = cycle
    OBVIOUS
  <2>1. c \in CycleRow /\ c.at = "analysts"
    BY <1>1, <1>2 DEF WorldFine
  <2>2. CASE /\ Cardinality(TodayOf(SeenRemarks, v.agent)) < Own(v.own.day, cycle.limits.day)
             /\ Candidates(v) # {}
    <3>1. cycle' = [cycle EXCEPT !.queue = @ \ {v}, !.agent = v.agent, !.user = v.user, !.own = v.own,
                                 !.attempts = 0, !.at = "squares", !.todo = Candidates(v)]
      BY <2>2 DEF VisitAnalyst
    <3>. QED BY <3>1
  <2>3. CASE ~ /\ Cardinality(TodayOf(SeenRemarks, v.agent)) < Own(v.own.day, cycle.limits.day)
               /\ Candidates(v) # {}
    <3>1. cycle' = [cycle EXCEPT !.queue = @ \ {v}, !.agent = v.agent, !.user = v.user, !.own = v.own,
                                 !.attempts = 0, !.at = @, !.todo = {}]
      BY <2>3 DEF VisitAnalyst
    <3>2. cycle' = [cycle EXCEPT !.queue = @ \ {v}, !.agent = v.agent, !.user = v.user, !.own = v.own,
                                 !.attempts = 0, !.at = "analysts", !.todo = {}]
      BY <1>1, <2>1, <3>1
    <3>. QED BY <3>2
  <2>. QED BY <2>2, <2>3
<1>4. Candidates(v) \in SUBSET Squares
      /\ \A s \in Candidates(v) : Cardinality(TodayOn(s)) < cycle.limits.squareDay
  BY <1>2 DEF Candidates, WorldFine
<1>5. /\ cycle' \in CycleRow /\ cycle'.at = at /\ cycle'.agent = v.agent /\ cycle'.user = v.user
      /\ cycle'.limits = cycle.limits /\ cycle'.todo = todo /\ cycle'.remarks = cycle.remarks /\ cycle'.stakes = cycle.stakes
  <2>. PICK c : c = cycle
    OBVIOUS
  <2>. PICK q : q = c.queue \ {v}
    OBVIOUS
  <2>1. /\ c \in CycleRow /\ q \in SUBSET Visits /\ at \in Steps /\ todo \in SUBSET Squares
        /\ v.agent \in Agents /\ v.user \in BotUsers /\ v.own \in AgentLimits
    BY <1>2, <1>3, <1>4 DEF WorldFine, CycleRow, Steps, Visits
  <2>2. cycle' = [c EXCEPT !.queue = q, !.agent = v.agent, !.user = v.user, !.own = v.own, !.attempts = 0, !.at = at, !.todo = todo]
    BY <1>3
  <2>. QED BY <2>1, <2>2 DEF CycleRow
<1>6. PhaseFine'
  <2>1. \A s : TodayOn(s)' = TodayOn(s)
    BY <1>1, <1>5, SeenSame
  <2>2. v.agent \in Agents /\ v.user \in BotUsers
    BY DEF Visits
  <2>. QED BY <1>3, <1>4, <1>5, <2>1, <2>2 DEF PhaseFine
<1>. QED BY <1>1, <1>2, <1>5, <1>6, QuietCycle DEF worldVars, streetVars, consoleVars, WorldFine

LEMMA AskModelKeeps == ASSUME CycleInv, NEW s \in Squares, AskModel(s) PROVE CycleInv'
<1>1. /\ cycle.at = "squares" /\ s \in cycle.todo /\ Cardinality(Today(SeenRemarks)) < cycle.limits.day
      /\ worldVars' = worldVars /\ remarks' = remarks /\ stakes' = stakes /\ purse' = purse
      /\ kept' = kept
      /\ cycle' = [cycle EXCEPT !.at = "asking", !.on = s, !.todo = @ \ {s}, !.attempts = @ + 1]
  BY DEF AskModel, MayAsk
<1>2. WorldFine /\ PhaseFine /\ cycle \in CycleRow
  BY DEF CycleInv, WorldFine
<1>3. /\ cycle' \in CycleRow /\ cycle'.at = "asking" /\ cycle'.on = s /\ cycle'.todo = cycle.todo \ {s}
      /\ cycle'.agent = cycle.agent /\ cycle'.user = cycle.user /\ cycle'.limits = cycle.limits
      /\ cycle'.remarks = cycle.remarks /\ cycle'.stakes = cycle.stakes
  <2>. PICK c : c = cycle
    OBVIOUS
  <2>. PICK todo, attempts : todo = c.todo \ {s} /\ attempts = c.attempts + 1
    OBVIOUS
  <2>1. c \in CycleRow /\ todo \in SUBSET Squares /\ attempts \in Nat /\ "asking" \in Steps
    BY <1>2 DEF CycleRow, Steps
  <2>2. cycle' = [c EXCEPT !.at = "asking", !.on = s, !.todo = todo, !.attempts = attempts]
    BY <1>1
  <2>3. cycle' \in CycleRow
    BY <2>1, <2>2 DEF CycleRow
  <2>. QED BY <2>1, <2>2, <2>3 DEF CycleRow
<1>4. PhaseFine'
  <2>1. SeenRemarks' = SeenRemarks /\ \A k : TodayOn(k)' = TodayOn(k)
    BY <1>1, <1>3, SeenSame
  <2>. QED BY <1>1, <1>2, <1>3, <2>1 DEF PhaseFine, Today
<1>. QED BY <1>1, <1>2, <1>3, <1>4, QuietCycle DEF worldVars, streetVars, consoleVars, WorldFine

LEMMA CommentsGoOn ==
  ASSUME CycleInv, LeaveAnalyst \/ Decline \/ ModelFails \/ ModelConfuses \/ AnalystsDone \/ TradersDone
                   \/ PlaceFails
  PROVE  CycleInv'
<1>1. /\ worldVars' = worldVars /\ remarks' = remarks /\ stakes' = stakes /\ purse' = purse
      /\ kept' = kept
  BY DEF LeaveAnalyst, Decline, ModelFails, ModelConfuses, AnalystsDone, TradersDone, PlaceFails
<1>2. WorldFine /\ PhaseFine /\ cycle \in CycleRow
  BY DEF CycleInv, WorldFine
<1>3. cycle' \in CycleRow /\ cycle'.remarks = cycle.remarks /\ cycle'.stakes = cycle.stakes
  <2>. PICK c : c = cycle
    OBVIOUS
  <2>1. c \in CycleRow /\ {"analysts", "squares", "traders", "ending", "placing"} \subseteq Steps
    BY <1>2 DEF Steps
  <2>2. CASE LeaveAnalyst
    <3>1. cycle' = [c EXCEPT !.at = "analysts", !.todo = {}, !.on = NoSquare]
      BY <2>2 DEF LeaveAnalyst
    <3>. QED BY <2>1, <3>1 DEF CycleRow
  <2>3. CASE Decline
    <3>1. cycle' = [c EXCEPT !.at = "squares"]
      BY <2>3 DEF Decline
    <3>. QED BY <2>1, <3>1 DEF CycleRow
  <2>4. CASE ModelFails
    <3>1. cycle' = [c EXCEPT !.at = "traders", !.queue = {}, !.todo = {}, !.created = 0]
      BY <2>4 DEF ModelFails
    <3>. QED BY <2>1, <3>1 DEF CycleRow
  <2>5. CASE ModelConfuses \/ TradersDone
    <3>1. cycle' = [c EXCEPT !.at = "ending"]
      BY <2>5 DEF ModelConfuses, TradersDone
    <3>. QED BY <2>1, <3>1 DEF CycleRow
  <2>6. CASE AnalystsDone
    <3>1. cycle' = [c EXCEPT !.at = "traders", !.queue = {}, !.created = 0]
      BY <2>6 DEF AnalystsDone
    <3>. QED BY <2>1, <3>1 DEF CycleRow
  <2>7. CASE PlaceFails
    <3>1. cycle' = [c EXCEPT !.at = "placing"]
      BY <2>7 DEF PlaceFails
    <3>. QED BY <2>1, <3>1 DEF CycleRow
  <2>. QED BY <2>2, <2>3, <2>4, <2>5, <2>6, <2>7
<1>4. /\ SeenRemarks' = SeenRemarks /\ SeenStakes' = SeenStakes /\ \A k : TodayOn(k)' = TodayOn(k)
  BY <1>1, <1>3, SeenSame
<1>5. PhaseFine'
  <2>1. CASE LeaveAnalyst
    <3>1. cycle'.at = "analysts"
      BY <1>2, <2>1 DEF LeaveAnalyst, CycleRow
    <3>. QED BY <3>1 DEF PhaseFine
  <2>2. CASE Decline
    <3>1. /\ cycle'.at = "squares" /\ cycle'.agent = cycle.agent /\ cycle'.user = cycle.user
          /\ cycle'.todo = cycle.todo /\ cycle'.limits = cycle.limits /\ cycle.at = "asking"
      BY <1>2, <2>2 DEF Decline, CycleRow
    <3>. QED BY <1>2, <1>4, <3>1 DEF PhaseFine
  <2>3. CASE ModelFails \/ AnalystsDone
    <3>1. cycle'.at = "traders" /\ cycle'.created = 0
      BY <1>2, <2>3 DEF ModelFails, AnalystsDone, CycleRow
    <3>. QED BY <3>1 DEF PhaseFine
  <2>4. CASE ModelConfuses \/ TradersDone
    <3>1. cycle'.at = "ending"
      BY <1>2, <2>4 DEF ModelConfuses, TradersDone, CycleRow
    <3>. QED BY <3>1 DEF PhaseFine
  <2>5. CASE PlaceFails
    <3>1. /\ cycle'.at = "placing" /\ cycle'.created = cycle.created /\ cycle.at = "signing"
          /\ cycle'.limits = cycle.limits
      BY <1>2, <2>5 DEF PlaceFails, CycleRow
    <3>. QED BY <1>2, <1>4, <3>1 DEF PhaseFine, Today
  <2>. QED BY <2>1, <2>2, <2>3, <2>4, <2>5
<1>. QED BY <1>1, <1>2, <1>3, <1>5, QuietCycle DEF worldVars, streetVars, consoleVars, WorldFine

LEMMA TradersKeep ==
  ASSUME CycleInv, BeginTrading \/ \E v \in Visits : VisitTrader(v)
  PROVE  CycleInv'
<1>1. /\ worldVars' = worldVars /\ remarks' = remarks /\ stakes' = stakes /\ purse' = purse
      /\ kept' = kept
  BY DEF BeginTrading, VisitTrader
<1>2. WorldFine /\ PhaseFine /\ cycle \in CycleRow
  BY DEF CycleInv, WorldFine
<1>3. CASE BeginTrading
  <2>. PICK c : c = cycle
    OBVIOUS
  <2>1. PICK at, queue :
          /\ queue \in {ActiveAgents("liquidity"), {}}
          /\ at = "ending" \/ (at = "placing" /\ Cardinality(Today(SeenStakes)) < cycle.limits.stakeDay)
          /\ cycle' = [c EXCEPT !.at = at, !.queue = queue, !.agent = NoAgent, !.user = NoAgent,
                                !.on = NoSquare]
    BY <1>3 DEF BeginTrading
  <2>2. c.at = "traders" /\ c.created = 0
    BY <1>2, <1>3 DEF BeginTrading, PhaseFine
  <2>3. queue \in SUBSET Visits /\ at \in Steps
    BY <1>2, <2>1, ActiveFacts DEF Steps
  <2>4. /\ cycle' \in CycleRow /\ cycle'.remarks = cycle.remarks /\ cycle'.stakes = cycle.stakes
        /\ cycle'.at = at /\ cycle'.created = 0 /\ cycle'.limits = cycle.limits
    BY <1>2, <2>1, <2>2, <2>3 DEF CycleRow
  <2>5. SeenStakes' = SeenStakes
    BY <1>1, <2>4, SeenSame
  <2>6. PhaseFine'
    <3>1. Cardinality(Today(SeenStakes)) \in Nat
      BY <1>2, SubsetSize DEF WorldFine, Today
    <3>2. cycle.limits.stakeDay \in Nat /\ cycle.limits.stakeCycle \in Nat
      BY <1>2, CycleNumbers
    <3>. QED BY <2>1, <2>4, <2>5, <3>1, <3>2 DEF PhaseFine, Today
  <2>. QED BY <1>1, <1>2, <2>4, <2>6, QuietCycle DEF worldVars, streetVars, consoleVars, WorldFine
<1>4. ASSUME NEW v \in Visits, VisitTrader(v) PROVE CycleInv'
  <2>. PICK c : c = cycle
    OBVIOUS
  <2>1. c.at = "placing" /\ c.created < c.limits.stakeCycle
    BY <1>4 DEF VisitTrader
  <2>2. CASE cycle' = [c EXCEPT !.queue = @ \ {v}]
    <3>1. /\ cycle' \in CycleRow /\ cycle'.remarks = cycle.remarks /\ cycle'.stakes = cycle.stakes
          /\ cycle'.at = "placing" /\ cycle'.created = cycle.created /\ cycle'.limits = cycle.limits
      BY <1>2, <2>1, <2>2 DEF CycleRow
    <3>2. SeenStakes' = SeenStakes
      BY <1>1, <3>1, SeenSame
    <3>3. PhaseFine'
      BY <1>2, <2>1, <3>1, <3>2 DEF PhaseFine, Today
    <3>. QED BY <1>1, <1>2, <3>1, <3>3, QuietCycle DEF worldVars, streetVars, consoleVars, WorldFine
  <2>3. ASSUME NEW s \in Joinable(v.user), Cardinality(TodayOf(SeenStakes, v.agent)) < Own(v.own.stakeDay, c.limits.stakeDay),
               cycle' = [c EXCEPT !.at = "signing", !.queue = @ \ {v}, !.agent = v.agent,
                                  !.user = v.user, !.own = v.own, !.on = s]
        PROVE  CycleInv'
    <3>1. s \in Squares /\ s \in crowd /\ ~Holds(v.user, s)
      BY <1>2, <2>3 DEF Joinable, WorldFine
    <3>2. /\ cycle' \in CycleRow /\ cycle'.remarks = cycle.remarks /\ cycle'.stakes = cycle.stakes
          /\ cycle'.at = "signing" /\ cycle'.created = cycle.created
          /\ cycle'.agent = v.agent /\ cycle'.user = v.user /\ cycle'.own = v.own
          /\ cycle'.limits = cycle.limits /\ cycle'.on = s
      <4>. PICK q : q = c.queue \ {v}
        OBVIOUS
      <4>1. /\ q \in SUBSET Visits /\ "signing" \in Steps /\ c \in CycleRow
            /\ v.agent \in Agents /\ v.user \in BotUsers /\ v.own \in AgentLimits
        BY <1>2 DEF CycleRow, Steps, Visits
      <4>2. cycle' = [c EXCEPT !.at = "signing", !.queue = q, !.agent = v.agent,
                                  !.user = v.user, !.own = v.own, !.on = s]
        BY <2>3
      <4>. QED BY <3>1, <4>1, <4>2 DEF CycleRow
    <3>3. SeenStakes' = SeenStakes /\ (Holds(v.user, s)' <=> Holds(v.user, s)) /\ crowd' = crowd
      BY <1>1, <3>2, SeenSame DEF worldVars, streetVars
    <3>4. PhaseFine'
      <4>1. ~Holds(cycle.user, cycle.on)'
        BY <3>1, <3>2, <3>3 DEF Holds
      <4>2. v.agent \in Agents /\ v.user \in BotUsers
        BY DEF Visits
      <4>. QED BY <1>2, <2>1, <2>3, <3>1, <3>2, <3>3, <4>1, <4>2
             DEF PhaseFine, Today, TodayOf, TraderLimit
    <3>. QED BY <1>1, <1>2, <3>2, <3>4, QuietCycle DEF worldVars, streetVars, consoleVars, WorldFine
  <2>. QED BY <1>4, <2>2, <2>3 DEF VisitTrader
<1>. QED BY <1>3, <1>4

\* The comment is one more of today, on a market below its limit and off the list.
LEMMA CommentKeeps == ASSUME CycleInv, Comment PROVE CycleInv'
<1>. PICK c : c = cycle
  OBVIOUS
<1>. PICK n : n = Cardinality(SeenRemarks)
  OBVIOUS
<1>. PICK x : x = [id |-> n + 1, agent |-> c.agent, author |-> c.user, on |-> c.on,
                   visible |-> TRUE, age |-> "new"]
  OBVIOUS
<1>1. WorldFine /\ Numbered /\ QuotasFine /\ PhaseFine /\ StakesApart /\ BotsFollowHumans /\ c \in CycleRow
  BY DEF CycleInv, WorldFine
<1>2. /\ c.at = "asking" /\ n < MaxRemarks /\ worldVars' = worldVars /\ remarks' = remarks
      /\ stakes' = stakes /\ purse' = purse
      /\ kept' = [kept EXCEPT !.day = c.limits.day, !.square[c.on] = c.limits.squareDay]
      /\ cycle' = [c EXCEPT !.at = "squares", !.created = @ + 1, !.remarks = @ \cup {x}]
  BY DEF Comment
<1>3. /\ c.agent \in Agents /\ c.user \in BotUsers /\ c.on \in Squares \ c.todo
      /\ \A s \in c.todo : Cardinality(TodayOn(s)) < c.limits.squareDay
      /\ Cardinality(TodayOn(c.on)) < c.limits.squareDay
      /\ Cardinality(Today(SeenRemarks)) < c.limits.day
  BY <1>1, <1>2 DEF PhaseFine
<1>4. n \in Nat /\ \A r \in SeenRemarks : r.id <= n
  BY <1>1, FS_CardinalityType DEF WorldFine, Numbered
<1>5. x \in RemarkRow /\ x \notin SeenRemarks /\ x.id = n + 1 /\ x.on = c.on /\ x.age = "new"
  BY <1>2, <1>3, <1>4, CycleAssumption DEF RemarkRow, Ages
<1>6. /\ cycle' \in CycleRow /\ cycle'.at = "squares" /\ cycle'.remarks = c.remarks \cup {x}
      /\ cycle'.stakes = c.stakes /\ cycle'.agent = c.agent /\ cycle'.user = c.user
      /\ cycle'.todo = c.todo /\ cycle'.limits = c.limits
  <2>. PICK created, rows : created = c.created + 1 /\ rows = c.remarks \cup {x}
    OBVIOUS
  <2>0. c.created \in Nat /\ c.remarks \in SUBSET RemarkRow /\ x \in RemarkRow
    BY <1>1, <1>5 DEF CycleRow
  <2>1. created \in Nat /\ rows \in SUBSET RemarkRow /\ "squares" \in Steps
    <3>1. rows \in SUBSET RemarkRow
      BY <2>0
    <3>2. created \in Nat
      BY <2>0
    <3>. QED BY <3>1, <3>2 DEF Steps
  <2>2. cycle' = [c EXCEPT !.at = "squares", !.created = created, !.remarks = rows]
    BY <1>2
  <2>3. cycle' \in CycleRow
    BY <1>1, <2>1, <2>2 DEF CycleRow
  <2>. QED BY <1>1, <2>2, <2>3 DEF CycleRow
<1>7. /\ SeenRemarks' = SeenRemarks \cup {x} /\ SeenStakes' = SeenStakes
      /\ \A u, s : Holds(u, s)' <=> Holds(u, s)
      /\ \A u : Spent(u)' = Spent(u)
  BY <1>2, <1>6 DEF SeenRemarks, SeenStakes, Holds, Spent
<1>. PICK day, onDay : day = c.limits.day /\ onDay = c.limits.squareDay
  OBVIOUS
<1>7a. day \in Nat /\ onDay \in Nat
  BY <1>1, CycleNumbers
<1>7b. /\ kept' \in KeptRow /\ kept'.day = day /\ kept'.square[c.on] = onDay
       /\ \A s \in Squares \ {c.on} : kept'.square[s] = kept.square[s]
       /\ kept'.stakes = kept.stakes /\ kept'.own = kept.own
  <2>1. kept' = [kept EXCEPT !.day = day, !.square = [@ EXCEPT ![c.on] = onDay]]
    BY <1>2
  <2>2. kept \in KeptRow /\ c.on \in Squares
    BY <1>1, <1>3 DEF WorldFine
  <2>. QED BY <1>7a, <2>1, <2>2 DEF KeptRow
<1>8. WorldFine'
  <2>1. IsFiniteSet(SeenRemarks') /\ IsFiniteSet(SeenStakes')
    BY <1>1, <1>7, WithOne DEF WorldFine
  <2>. QED BY <1>1, <1>2, <1>6, <1>7b, <2>1 DEF WorldFine, worldVars, streetVars, consoleVars
<1>9. Numbered'
  <2>1. Cardinality(SeenRemarks') = n + 1
    BY <1>1, <1>5, <1>7, WithOne DEF WorldFine
  <2>2. Cardinality(remarks) \in Nat /\ Cardinality(remarks) <= n
    BY <1>1, SubsetSize DEF WorldFine, SeenRemarks
  <2>3. \A q, r \in SeenRemarks' : q.id = r.id => q = r
    <3>1. ASSUME NEW r \in SeenRemarks PROVE r.id # n + 1
      <4>1. r.id <= n
        BY <1>4
      <4>2. r.id \in Int
        BY <1>1 DEF WorldFine, SeenRemarks, CycleRow, RemarkRow
      <4>. QED BY <1>4, <4>1, <4>2
    <3>2. \A q, r \in SeenRemarks : q.id = r.id => q = r
      BY <1>1 DEF Numbered
    <3>. SUFFICES ASSUME NEW q \in SeenRemarks', NEW r \in SeenRemarks', q.id = r.id PROVE q = r
      OBVIOUS
    <3>3. x.id = n + 1
      BY <1>5
    <3>4. (q \in SeenRemarks \/ q = x) /\ (r \in SeenRemarks \/ r = x)
      BY <1>7
    <3>5. CASE q \in SeenRemarks /\ r \in SeenRemarks
      BY <3>2, <3>5
    <3>6. CASE q \in SeenRemarks /\ r = x
      <4>1. q.id # n + 1 /\ q.id = n + 1
        BY <3>1, <3>3, <3>6
      <4>. QED BY <4>1
    <3>7. CASE q = x /\ r \in SeenRemarks
      <4>1. r.id # n + 1 /\ r.id = n + 1
        BY <3>1, <3>3, <3>7
      <4>. QED BY <4>1
    <3>. QED BY <3>4, <3>5, <3>6, <3>7
  <2>4. \A r \in SeenRemarks' : r.id <= n + 1
    <3>1. ASSUME NEW r \in SeenRemarks PROVE r.id <= n + 1
      <4>1. r.id \in Int
        BY <1>1 DEF WorldFine, SeenRemarks, CycleRow, RemarkRow
      <4>. QED BY <1>4, <4>1
    <3>. QED BY <1>4, <1>5, <1>7, <3>1
  <2>5. \A r \in cycle'.remarks : r.id > Cardinality(remarks)
    <3>1. \A r \in c.remarks : r.id > Cardinality(remarks)
      BY <1>1 DEF Numbered
    <3>2. x.id > Cardinality(remarks)
      BY <1>4, <1>5, <2>2
    <3>. QED BY <1>6, <3>1, <3>2
  <2>6. \A r \in remarks : r.id <= Cardinality(remarks)
    BY <1>1 DEF Numbered
  <2>. QED BY <1>2, <2>1, <2>3, <2>4, <2>5, <2>6 DEF Numbered
<1>10. /\ \A s \in Squares : IsFiniteSet(TodayOn(s)) /\ Cardinality(TodayOn(s)) \in Nat
       /\ IsFiniteSet(Today(SeenRemarks)) /\ Cardinality(Today(SeenRemarks)) \in Nat
  BY <1>1, SubsetSize DEF WorldFine, TodayOn, Today
<1>11. /\ TodayOn(c.on)' = TodayOn(c.on) \cup {x}
       /\ \A s \in Squares \ {c.on} : TodayOn(s)' = TodayOn(s)
       /\ Today(SeenRemarks)' = Today(SeenRemarks) \cup {x}
       /\ Today(SeenStakes)' = Today(SeenStakes)
       /\ \A a \in Agents : TodayOf(SeenStakes, a)' = TodayOf(SeenStakes, a)
  <2>1. Today(SeenRemarks)' = Today(SeenRemarks) \cup {x}
    BY <1>5, <1>7 DEF Today
  <2>2. TodayOn(c.on)' = TodayOn(c.on) \cup {x}
    BY <1>5, <2>1 DEF TodayOn
  <2>3. \A s \in Squares \ {c.on} : TodayOn(s)' = TodayOn(s)
    BY <1>5, <2>1 DEF TodayOn
  <2>. QED BY <1>7, <2>1, <2>2, <2>3 DEF Today, TodayOf
<1>12. QuotasFine'
  <2>1. Cardinality(TodayOn(c.on)') <= onDay
    <3>1. Cardinality(TodayOn(c.on)') <= Cardinality(TodayOn(c.on)) + 1 /\ Cardinality(TodayOn(c.on)') \in Nat
      BY <1>3, <1>10, <1>11, WithOne
    <3>. QED BY <1>3, <1>10, <1>7a, <3>1
  <2>2. Cardinality(Today(SeenRemarks)') <= day
    <3>1. Cardinality(Today(SeenRemarks)') <= Cardinality(Today(SeenRemarks)) + 1
          /\ Cardinality(Today(SeenRemarks)') \in Nat
      BY <1>10, <1>11, WithOne
    <3>. QED BY <1>3, <1>10, <1>7a, <3>1
  <2>3. \A s \in Squares : Cardinality(TodayOn(s)') <= kept'.square[s]
    BY <1>1, <1>11, <1>7b, <2>1 DEF QuotasFine
  <2>. QED BY <1>1, <1>11, <1>7b, <2>2, <2>3 DEF QuotasFine
<1>13. PhaseFine'
  <2>1. \A s \in c.todo : TodayOn(s)' = TodayOn(s)
    BY <1>1, <1>3, <1>11 DEF CycleRow
  <2>2. \A s \in cycle'.todo : Cardinality(TodayOn(s)') < c.limits.squareDay
    BY <1>3, <1>6, <2>1
  <2>. QED BY <1>3, <1>6, <2>2 DEF PhaseFine
<1>14. StakesApart' /\ BotsFollowHumans'
  BY <1>1, <1>2, <1>6, <1>7 DEF StakesApart, BotsFollowHumans, worldVars, streetVars
<1>. QED BY <1>8, <1>9, <1>12, <1>13, <1>14 DEF CycleInv

\* The position is one more of today, in a market where the account has none, and paid for.
LEMMA PlaceKeeps == ASSUME CycleInv, Place PROVE CycleInv'
<1>. PICK c : c = cycle
  OBVIOUS
<1>. PICK y : y = [agent |-> c.agent, user |-> c.user, on |-> c.on, age |-> "new"]
  OBVIOUS
<1>1. WorldFine /\ Numbered /\ QuotasFine /\ PhaseFine /\ StakesApart /\ BotsFollowHumans /\ c \in CycleRow
  BY DEF CycleInv, WorldFine
<1>2. /\ c.at = "signing" /\ purse[c.user] > Spent(c.user) /\ worldVars' = worldVars
      /\ remarks' = remarks /\ stakes' = stakes /\ purse' = purse
      /\ kept' = [kept EXCEPT !.stakes = c.limits.stakeDay + c.limits.stakeCycle - 1,
                              !.own[c.agent] = TraderLimit]
      /\ cycle' = [c EXCEPT !.at = "placing", !.created = @ + 1, !.stakes = @ \cup {y}]
  BY DEF Place, TraderLimit
<1>3. /\ c.agent \in Agents /\ c.user \in BotUsers /\ c.on \in crowd /\ ~Holds(c.user, c.on)
      /\ c.created < c.limits.stakeCycle
      /\ Cardinality(TodayOf(SeenStakes, c.agent)) < TraderLimit
      /\ Cardinality(Today(SeenStakes)) <= c.limits.stakeDay - 1 + c.created
  BY <1>1, <1>2 DEF PhaseFine
<1>4. c.created \in Nat /\ c.stakes \in SUBSET StakeRow /\ c.on \in Squares
  BY <1>1, <1>3 DEF CycleRow, WorldFine
<1>5. /\ y \in StakeRow /\ y \notin SeenStakes /\ y.user = c.user /\ y.on = c.on /\ y.age = "new"
      /\ y.agent = c.agent
  BY <1>3, <1>4 DEF StakeRow, Ages, Holds
<1>6. /\ cycle' \in CycleRow /\ cycle'.at = "placing" /\ cycle'.remarks = c.remarks
      /\ cycle'.stakes = c.stakes \cup {y} /\ cycle'.created = c.created + 1
      /\ cycle'.limits = c.limits
  <2>. PICK created, rows : created = c.created + 1 /\ rows = c.stakes \cup {y}
    OBVIOUS
  <2>1. rows \in SUBSET StakeRow
    BY <1>4, <1>5
  <2>2. created \in Nat /\ "placing" \in Steps
    BY <1>4 DEF Steps
  <2>3. cycle' = [c EXCEPT !.at = "placing", !.created = created, !.stakes = rows]
    BY <1>2
  <2>4. cycle' \in CycleRow
    BY <1>1, <2>1, <2>2, <2>3 DEF CycleRow
  <2>. QED BY <1>1, <2>3, <2>4 DEF CycleRow
<1>7. /\ SeenStakes' = SeenStakes \cup {y} /\ SeenRemarks' = SeenRemarks
      /\ \A s : TodayOn(s)' = TodayOn(s)
  BY <1>2, <1>6 DEF SeenRemarks, SeenStakes, TodayOn
<1>. PICK own, day, cap : own = TraderLimit /\ day = c.limits.stakeDay /\ cap = c.limits.stakeCycle
  OBVIOUS
<1>7a. own \in Nat /\ day \in Nat /\ cap \in Nat \ {0}
  BY <1>1, CycleNumbers
<1>7b. /\ kept' \in KeptRow /\ kept'.stakes = day + cap - 1 /\ kept'.own[c.agent] = own
       /\ \A a \in Agents \ {c.agent} : kept'.own[a] = kept.own[a]
       /\ kept'.day = kept.day /\ kept'.square = kept.square
  <2>. PICK most : most = day + cap - 1
    OBVIOUS
  <2>1. kept' = [kept EXCEPT !.stakes = most, !.own = [@ EXCEPT ![c.agent] = own]]
    BY <1>2
  <2>2. kept \in KeptRow /\ c.agent \in Agents /\ most \in Nat
    BY <1>1, <1>3, <1>7a DEF WorldFine
  <2>. QED BY <1>7a, <2>1, <2>2 DEF KeptRow
<1>8. WorldFine'
  <2>1. IsFiniteSet(SeenRemarks') /\ IsFiniteSet(SeenStakes')
    BY <1>1, <1>7, WithOne DEF WorldFine
  <2>. QED BY <1>1, <1>2, <1>6, <1>7b, <2>1 DEF WorldFine, worldVars, streetVars, consoleVars
<1>9. Numbered'
  BY <1>1, <1>2, <1>6, <1>7 DEF Numbered
<1>10. /\ \A a : IsFiniteSet(TodayOf(SeenStakes, a)) /\ Cardinality(TodayOf(SeenStakes, a)) \in Nat
       /\ IsFiniteSet(Today(SeenStakes)) /\ Cardinality(Today(SeenStakes)) \in Nat
  BY <1>1, SubsetSize DEF WorldFine, TodayOf, Today
<1>11. /\ Today(SeenStakes)' = Today(SeenStakes) \cup {y}
       /\ Today(SeenRemarks)' = Today(SeenRemarks)
       /\ TodayOf(SeenStakes, c.agent)' = TodayOf(SeenStakes, c.agent) \cup {y}
       /\ \A a \in Agents \ {c.agent} : TodayOf(SeenStakes, a)' = TodayOf(SeenStakes, a)
  <2>1. Today(SeenStakes)' = Today(SeenStakes) \cup {y}
    BY <1>5, <1>7 DEF Today
  <2>2. TodayOf(SeenStakes, c.agent)' = TodayOf(SeenStakes, c.agent) \cup {y}
    BY <1>5, <2>1 DEF TodayOf
  <2>3. \A a \in Agents \ {c.agent} : TodayOf(SeenStakes, a)' = TodayOf(SeenStakes, a)
    BY <1>5, <2>1 DEF TodayOf
  <2>. QED BY <1>7, <2>1, <2>2, <2>3 DEF Today
<1>12. Cardinality(Today(SeenStakes)') <= day - 1 + (c.created + 1)
  <2>1. Cardinality(Today(SeenStakes)') <= Cardinality(Today(SeenStakes)) + 1
        /\ Cardinality(Today(SeenStakes)') \in Nat
    BY <1>10, <1>11, WithOne
  <2>. QED BY <1>3, <1>4, <1>10, <1>7a, <2>1
<1>13. QuotasFine'
  <2>1. Cardinality(TodayOf(SeenStakes, c.agent)') <= own
    <3>1. /\ Cardinality(TodayOf(SeenStakes, c.agent)') <= Cardinality(TodayOf(SeenStakes, c.agent)) + 1
          /\ Cardinality(TodayOf(SeenStakes, c.agent)') \in Nat
      BY <1>10, <1>11, WithOne
    <3>. QED BY <1>3, <1>10, <1>7a, <3>1
  <2>2. Cardinality(Today(SeenStakes)') <= day + cap - 1
    <3>1. Cardinality(Today(SeenStakes)') \in Nat
      BY <1>10, <1>11, WithOne
    <3>. QED BY <1>3, <1>4, <1>12, <1>7a, <3>1
  <2>3. \A a \in Agents : Cardinality(TodayOf(SeenStakes, a)') <= kept'.own[a]
    BY <1>1, <1>11, <1>7b, <2>1 DEF QuotasFine
  <2>. QED BY <1>1, <1>7, <1>11, <1>7b, <2>2, <2>3 DEF QuotasFine
<1>14. PhaseFine'
  <2>1. c.created + 1 <= cap
    BY <1>3, <1>4, <1>7a
  <2>. QED BY <1>6, <1>12, <2>1 DEF PhaseFine
<1>15. StakesApart'
  <2>1. \A b \in stakes : ~ (b.user = y.user /\ b.on = y.on)
    BY <1>3, <1>5 DEF Holds, SeenStakes
  <2>. QED BY <1>1, <1>2, <1>6, <2>1 DEF StakesApart
<1>16. BotsFollowHumans'
  <2>1. \A b \in SeenStakes' : b.on \in crowd'
    BY <1>1, <1>2, <1>3, <1>5, <1>7 DEF BotsFollowHumans, worldVars, streetVars
  <2>2. \A b \in SeenStakes : ~ (b.user = y.user /\ b.on = y.on)
    BY <1>3, <1>5 DEF Holds
  <2>3. ASSUME NEW b \in SeenStakes', NEW k \in SeenStakes', b.user = k.user, b.on = k.on PROVE b = k
    <3>1. (b \in SeenStakes \/ b = y) /\ (k \in SeenStakes \/ k = y)
      BY <1>7
    <3>2. \A p, q \in SeenStakes : p.user = q.user /\ p.on = q.on => p = q
      BY <1>1 DEF BotsFollowHumans
    <3>. QED BY <2>2, <2>3, <3>1, <3>2
  <2>4. ASSUME NEW u \in BotUsers PROVE Spent(u)' <= purse[u]
    <3>. PICK T : T = {b \in c.stakes : b.user = u}
      OBVIOUS
    <3>1. IsFiniteSet(T) /\ Cardinality(T) \in Nat /\ Cardinality(T) = Spent(u)
      <4>1. T \in SUBSET SeenStakes
        BY DEF SeenStakes
      <4>. QED BY <1>1, <4>1, SubsetSize DEF WorldFine, Spent
    <3>2. Spent(u) <= purse[u] /\ purse[u] \in Nat
      BY <1>1 DEF BotsFollowHumans, WorldFine
    <3>3. Spent(u)' = Cardinality({b \in c.stakes \cup {y} : b.user = u})
      BY <1>6 DEF Spent
    <3>4. CASE u = c.user
      <4>1. {b \in c.stakes \cup {y} : b.user = u} = T \cup {y}
        BY <1>5, <3>4
      <4>2. Cardinality(T \cup {y}) <= Cardinality(T) + 1 /\ Cardinality(T \cup {y}) \in Nat
        BY <3>1, WithOne
      <4>3. Spent(u)' <= Spent(u) + 1 /\ Spent(u)' \in Nat /\ Spent(u) \in Nat
        BY <3>1, <3>3, <4>1, <4>2
      <4>4. Spent(u) < purse[u]
        BY <1>2, <3>4
      <4>. QED BY <3>2, <4>3, <4>4
    <3>5. CASE u # c.user
      <4>1. {b \in c.stakes \cup {y} : b.user = u} = T
        BY <1>5, <3>5
      <4>. QED BY <3>1, <3>2, <3>3, <4>1
    <3>. QED BY <3>4, <3>5
  <2>. QED BY <1>1, <1>2, <2>1, <2>3, <2>4 DEF BotsFollowHumans
<1>. QED BY <1>8, <1>9, <1>13, <1>14, <1>15, <1>16 DEF CycleInv

\* A cycle that commits hands over what it has been seen to do.
LEMMA CommitCycleKeeps == ASSUME CycleInv, CommitCycle PROVE CycleInv'
<1>1. WorldFine /\ Numbered /\ QuotasFine /\ PhaseFine /\ StakesApart /\ BotsFollowHumans /\ cycle \in CycleRow
  BY DEF CycleInv, WorldFine
<1>2. /\ worldVars' = worldVars /\ remarks' = SeenRemarks /\ stakes' = SeenStakes /\ cycle' = NoCycle
      /\ purse' = [u \in BotUsers |-> purse[u] - Spent(u)] /\ kept' = kept
  BY DEF CommitCycle
<1>3. /\ cycle' \in CycleRow /\ cycle'.at = "idle" /\ cycle'.remarks = {} /\ cycle'.stakes = {}
      /\ cycle'.created = 0 /\ cycle'.todo = {}
  BY <1>2, NoCycleFacts
<1>4. /\ SeenRemarks' = SeenRemarks /\ SeenStakes' = SeenStakes /\ \A s : TodayOn(s)' = TodayOn(s)
  BY <1>2, <1>3 DEF SeenRemarks, SeenStakes, TodayOn
<1>5. ASSUME NEW u \in BotUsers
      PROVE  /\ purse[u] - Spent(u) \in Nat /\ Spent(u)' = 0
             /\ purse[u] - Spent(u) + Cardinality({b \in SeenStakes : b.user = u}) = Purse
  <2>. PICK S, T : S = {b \in stakes : b.user = u} /\ T = {b \in cycle.stakes : b.user = u}
    OBVIOUS
  <2>1. S \in SUBSET SeenStakes /\ T \in SUBSET SeenStakes
    BY DEF SeenStakes
  <2>2. IsFiniteSet(S) /\ IsFiniteSet(T) /\ Cardinality(S) \in Nat /\ Cardinality(T) \in Nat
    BY <1>1, <2>1, SubsetSize DEF WorldFine
  <2>3. {b \in SeenStakes : b.user = u} = S \cup T
    BY DEF SeenStakes
  <2>4. S \cap T = {}
    BY <1>1 DEF StakesApart
  <2>5. Cardinality(S \cup T) = Cardinality(S) + Cardinality(T)
    <3>1. Cardinality(S \cup T) = Cardinality(S) + Cardinality(T) - Cardinality(S \cap T)
      BY <2>2, FS_Union
    <3>2. Cardinality(S \cap T) = 0
      BY <2>4, FS_EmptySet
    <3>. QED BY <2>2, <3>1, <3>2
  <2>6. /\ purse[u] \in Nat /\ purse[u] + Cardinality(S) = Purse /\ Spent(u) <= purse[u]
        /\ Spent(u) = Cardinality(T)
    BY <1>1 DEF BotsFollowHumans, WorldFine, Spent
  <2>7. Spent(u)' = 0
    <3>1. {b \in cycle'.stakes : b.user = u} = {}
      BY <1>3
    <3>. QED BY <3>1, FS_EmptySet DEF Spent
  <2>8. Cardinality({b \in SeenStakes : b.user = u}) = Cardinality(S) + Cardinality(T)
    BY <2>3, <2>5
  <2>9. purse[u] - Spent(u) \in Nat
    BY <2>2, <2>6
  <2>10. purse[u] - Spent(u) + (Cardinality(S) + Cardinality(T)) = Purse
    <3>. PICK s, k, p : s = Cardinality(S) /\ k = Cardinality(T) /\ p = purse[u]
      OBVIOUS
    <3>1. s \in Nat /\ k \in Nat /\ p \in Nat /\ p + s = Purse /\ Spent(u) = k
      BY <2>2, <2>6
    <3>. QED BY <3>1
  <2>. QED BY <2>7, <2>8, <2>9, <2>10
<1>6. WorldFine'
  <2>1. purse' \in [BotUsers -> Nat]
    BY <1>2, <1>5
  <2>2. remarks' \in SUBSET RemarkRow /\ stakes' \in SUBSET StakeRow
    BY <1>1, <1>2 DEF WorldFine, SeenRemarks, SeenStakes, CycleRow
  <2>. QED BY <1>1, <1>2, <1>3, <1>4, <2>1, <2>2 DEF WorldFine, worldVars, streetVars, consoleVars
<1>7. Numbered'
  BY <1>1, <1>2, <1>3, <1>4 DEF Numbered
<1>8. QuotasFine'
  BY <1>1, <1>2, <1>4 DEF QuotasFine, Today, TodayOf
<1>9. PhaseFine' /\ StakesApart'
  BY <1>3 DEF PhaseFine, StakesApart
<1>10. BotsFollowHumans'
  <2>1. \A b \in SeenStakes' : b.on \in crowd'
    BY <1>1, <1>2, <1>4 DEF BotsFollowHumans, worldVars, streetVars
  <2>2. \A b, k \in SeenStakes' : b.user = k.user /\ b.on = k.on => b = k
    BY <1>1, <1>4 DEF BotsFollowHumans
  <2>3. ASSUME NEW u \in BotUsers
        PROVE  purse'[u] + Cardinality({b \in stakes' : b.user = u}) = Purse /\ Spent(u)' <= purse'[u]
    <3>1. {b \in stakes' : b.user = u} = {b \in SeenStakes : b.user = u}
      BY <1>2
    <3>2. purse'[u] = purse[u] - Spent(u)
      BY <1>2
    <3>3. purse'[u] \in Nat /\ Spent(u)' = 0
      BY <1>5, <3>2
    <3>4. purse'[u] + Cardinality({b \in SeenStakes : b.user = u}) = Purse
      BY <1>5, <3>2
    <3>5. purse'[u] + Cardinality({b \in stakes' : b.user = u}) = Purse
      BY <3>1, <3>4, Zenon
    <3>6. Spent(u)' <= purse'[u]
      BY <3>3
    <3>. QED BY <3>5, <3>6
  <2>. QED BY <2>1, <2>2, <2>3 DEF BotsFollowHumans
<1>. QED BY <1>6, <1>7, <1>8, <1>9, <1>10 DEF CycleInv

\* One that is lost leaves less to be counted.
LEMMA LoseCycleKeeps == ASSUME CycleInv, LoseCycle PROVE CycleInv'
<1>1. WorldFine /\ Numbered /\ QuotasFine /\ PhaseFine /\ StakesApart /\ BotsFollowHumans
  BY DEF CycleInv
<1>2. /\ worldVars' = worldVars /\ remarks' = remarks /\ stakes' = stakes /\ cycle' = NoCycle
      /\ purse' = purse /\ kept' = kept
  BY DEF LoseCycle
<1>3. /\ cycle' \in CycleRow /\ cycle'.at = "idle" /\ cycle'.remarks = {} /\ cycle'.stakes = {}
  BY <1>2, NoCycleFacts
<1>4. /\ SeenRemarks' = remarks /\ SeenStakes' = stakes
      /\ remarks \in SUBSET SeenRemarks /\ stakes \in SUBSET SeenStakes
  BY <1>2, <1>3 DEF SeenRemarks, SeenStakes
<1>5. WorldFine'
  <2>1. IsFiniteSet(remarks) /\ IsFiniteSet(stakes)
    BY <1>1, <1>4, SubsetSize DEF WorldFine
  <2>. QED BY <1>1, <1>2, <1>3, <1>4, <2>1 DEF WorldFine, worldVars, streetVars, consoleVars
<1>6. Numbered'
  BY <1>1, <1>2, <1>3, <1>4 DEF Numbered
<1>7. QuotasFine'
  <2>1. Cardinality(Today(SeenRemarks)') <= kept'.day
    <3>1. Today(SeenRemarks)' \in SUBSET Today(SeenRemarks) /\ IsFiniteSet(Today(SeenRemarks))
      BY <1>1, <1>4, SubsetSize DEF Today, WorldFine
    <3>. QED BY <1>1, <1>2, <3>1, SubsetSize, CycleNumbers DEF QuotasFine
  <2>2. ASSUME NEW s \in Squares PROVE Cardinality(TodayOn(s)') <= kept'.square[s]
    <3>1. TodayOn(s)' \in SUBSET TodayOn(s) /\ IsFiniteSet(TodayOn(s))
      BY <1>1, <1>4, SubsetSize DEF Today, TodayOn, WorldFine
    <3>. QED BY <1>1, <1>2, <3>1, SubsetSize, CycleNumbers DEF QuotasFine
  <2>3. Cardinality(Today(SeenStakes)') <= kept'.stakes
    <3>1. Today(SeenStakes)' \in SUBSET Today(SeenStakes) /\ IsFiniteSet(Today(SeenStakes))
      BY <1>1, <1>4, SubsetSize DEF Today, WorldFine
    <3>. QED BY <1>1, <1>2, <3>1, SubsetSize, CycleNumbers DEF QuotasFine
  <2>4. ASSUME NEW a \in Agents PROVE Cardinality(TodayOf(SeenStakes, a)') <= kept'.own[a]
    <3>1. TodayOf(SeenStakes, a)' \in SUBSET TodayOf(SeenStakes, a) /\ IsFiniteSet(TodayOf(SeenStakes, a))
      BY <1>1, <1>4, SubsetSize DEF Today, TodayOf, WorldFine
    <3>. QED BY <1>1, <1>2, <3>1, SubsetSize, CycleNumbers DEF QuotasFine
  <2>. QED BY <2>1, <2>2, <2>3, <2>4 DEF QuotasFine
<1>8. PhaseFine' /\ StakesApart'
  BY <1>3 DEF PhaseFine, StakesApart
<1>9. BotsFollowHumans'
  <2>1. ASSUME NEW u \in BotUsers
        PROVE  purse'[u] + Cardinality({b \in stakes' : b.user = u}) = Purse /\ Spent(u)' <= purse'[u]
    <3>1. {b \in cycle'.stakes : b.user = u} = {}
      BY <1>3
    <3>2. Spent(u)' = 0 /\ purse[u] \in Nat
      BY <1>1, <3>1, FS_EmptySet DEF Spent, WorldFine
    <3>. QED BY <1>1, <1>2, <3>2 DEF BotsFollowHumans
  <2>. QED BY <1>1, <1>2, <1>4, <2>1 DEF BotsFollowHumans, worldVars, streetVars
<1>. QED BY <1>5, <1>6, <1>7, <1>8, <1>9 DEF CycleInv

\* What people and the console do outside the comments and the positions.
LEMMA OthersKeep ==
  ASSUME CycleInv,
         \/ \E s \in Squares : HumanJoins(s) \/ HumanComments(s) \/ SquareCloses(s)
         \/ \E a \in Agents, user \in BotUsers, kind \in Kinds, on \in BOOLEAN,
              l \in AgentLimits : SaveAgent(a, user, kind, on, l)
         \/ \E on \in SUBSET Flags, l \in Limits : SaveAgentConfig(on, l)
  PROVE  CycleInv'
<1>1. WorldFine /\ PhaseFine
  BY DEF CycleInv
<1>2. remarks' = remarks /\ stakes' = stakes /\ purse' = purse /\ cycle' = cycle /\ kept' = kept
  BY DEF HumanJoins, HumanComments, SquareCloses, SaveAgent, SaveAgentConfig
<1>3. /\ crowd \subseteq crowd' /\ squareOpen' \in SUBSET Squares /\ crowd' \in SUBSET Squares
      /\ heardLately' \in SUBSET Squares /\ agentUser' \in [Agents -> BotUsers]
      /\ agentOn' \in SUBSET Agents /\ flags' \in SUBSET Flags
      /\ agentLimits' \in [Agents -> AgentLimits] /\ limits' \in Limits
  BY <1>1 DEF WorldFine, HumanJoins, HumanComments, SquareCloses, SaveAgent, SaveAgentConfig,
             streetVars, consoleVars
<1>4. /\ SeenRemarks' = SeenRemarks /\ SeenStakes' = SeenStakes /\ \A s : TodayOn(s)' = TodayOn(s)
      /\ \A u, s : Holds(u, s)' <=> Holds(u, s)
  BY <1>2, SeenSame
<1>5. PhaseFine'
  BY <1>1, <1>2, <1>3, <1>4 DEF PhaseFine, Today, TodayOf, TraderLimit
<1>. QED BY <1>1, <1>2, <1>3, <1>5, QuietCycle DEF WorldFine

\* A set each of whose members is the image of one of S is no larger than S.
LEMMA ImageBound ==
  ASSUME NEW S, IsFiniteSet(S), NEW f, NEW T, \A y \in T : \E x \in S : f[x] = y
  PROVE  IsFiniteSet(T) /\ Cardinality(T) \in Nat /\ Cardinality(S) \in Nat /\ Cardinality(T) <= Cardinality(S)
<1>. PICK g : g = [x \in S |-> f[x]]
  OBVIOUS
<1>1. DOMAIN g = S /\ g = [x \in S |-> g[x]]
  OBVIOUS
<1>. PICK U : U = {g[x] : x \in S}
  OBVIOUS
<1>2. IsFiniteSet(U) /\ Cardinality(U) <= Cardinality(S)
  BY <1>1, ImageSize
<1>3. T \in SUBSET U
  OBVIOUS
<1>4. /\ IsFiniteSet(T) /\ Cardinality(T) \in Nat /\ Cardinality(U) \in Nat
      /\ Cardinality(T) <= Cardinality(U)
  BY <1>2, <1>3, SubsetSize
<1>5. Cardinality(S) \in Nat
  BY FS_CardinalityType
<1>. QED BY <1>2, <1>4, <1>5

\* It is as large when the images are all in it and differ.
LEMMA ImageExact ==
  ASSUME NEW S, IsFiniteSet(S), NEW f, NEW T, \A y \in T : \E x \in S : f[x] = y,
         \A x \in S : f[x] \in T, \A x, y \in S : f[x] = f[y] => x = y
  PROVE  IsFiniteSet(T) /\ Cardinality(T) = Cardinality(S)
<1>. PICK g : g = [x \in S |-> f[x]]
  OBVIOUS
<1>1. DOMAIN g = S /\ g = [x \in S |-> g[x]] /\ \A x, y \in S : g[x] = g[y] => x = y
  OBVIOUS
<1>. PICK U : U = {g[x] : x \in S}
  OBVIOUS
<1>2. IsFiniteSet(U) /\ Cardinality(U) = Cardinality(S)
  BY <1>1, ImageSize
<1>3. T = U
  OBVIOUS
<1>. QED BY <1>2, <1>3

\* Comments that are hidden, shown or grow old keep their numbers and their market.
Relabels(f) ==
    \A r \in SeenRemarks : /\ f[r].id = r.id /\ f[r].on = r.on
                           /\ f[r].age # "old" => r.age # "old"

LEMMA RemarksRelabelled ==
  ASSUME WorldFine, Numbered, QuotasFine, NEW f, Relabels(f), cycle' = cycle,
         \A y \in SeenRemarks' : \E r \in SeenRemarks : f[r] = y,
         \A r \in SeenRemarks : f[r] \in SeenRemarks',
         \A y \in remarks' : \E r \in remarks : f[r] = y,
         \A r \in remarks : f[r] \in remarks'
  PROVE  /\ IsFiniteSet(SeenRemarks') /\ Numbered'
         /\ Cardinality(Today(SeenRemarks)') <= Cardinality(Today(SeenRemarks))
         /\ Cardinality(Today(SeenRemarks)) \in Nat /\ Cardinality(Today(SeenRemarks)') \in Nat
         /\ \A s \in Squares : /\ Cardinality(TodayOn(s)') <= Cardinality(TodayOn(s))
                               /\ Cardinality(TodayOn(s)) \in Nat /\ Cardinality(TodayOn(s)') \in Nat
<1>1. \A q, r \in SeenRemarks : f[q] = f[r] => q = r
  BY DEF Relabels, Numbered
<1>2. IsFiniteSet(SeenRemarks') /\ Cardinality(SeenRemarks') = Cardinality(SeenRemarks)
  BY <1>1, ImageExact DEF WorldFine
<1>3. IsFiniteSet(remarks) /\ remarks \in SUBSET SeenRemarks
  BY SubsetSize DEF WorldFine, SeenRemarks
<1>4. Cardinality(remarks') = Cardinality(remarks)
  <2>1. \A q, r \in remarks : f[q] = f[r] => q = r
    BY <1>1, <1>3
  <2>. QED BY <1>3, <2>1, ImageExact
<1>5. Numbered'
  <2>1. \A q, r \in SeenRemarks' : q.id = r.id => q = r
    BY DEF Relabels, Numbered
  <2>2. \A r \in remarks' : r.id <= Cardinality(remarks')
    BY <1>3, <1>4 DEF Relabels, Numbered
  <2>3. \A r \in SeenRemarks' : r.id <= Cardinality(SeenRemarks')
    BY <1>2 DEF Relabels, Numbered
  <2>4. \A r \in cycle'.remarks : r.id > Cardinality(remarks')
    BY <1>4 DEF Numbered
  <2>. QED BY <2>1, <2>2, <2>3, <2>4 DEF Numbered
<1>6. /\ Cardinality(Today(SeenRemarks)') <= Cardinality(Today(SeenRemarks))
      /\ Cardinality(Today(SeenRemarks)) \in Nat /\ Cardinality(Today(SeenRemarks)') \in Nat
  <2>1. \A y \in Today(SeenRemarks)' : \E r \in Today(SeenRemarks) : f[r] = y
    BY DEF Relabels, Today
  <2>2. IsFiniteSet(Today(SeenRemarks))
    BY SubsetSize DEF WorldFine, Today
  <2>. QED BY <2>1, <2>2, ImageBound
<1>7. ASSUME NEW s \in Squares
      PROVE  /\ Cardinality(TodayOn(s)') <= Cardinality(TodayOn(s))
             /\ Cardinality(TodayOn(s)) \in Nat /\ Cardinality(TodayOn(s)') \in Nat
  <2>1. \A y \in TodayOn(s)' : \E r \in TodayOn(s) : f[r] = y
    BY DEF Relabels, Today, TodayOn
  <2>2. IsFiniteSet(TodayOn(s))
    BY SubsetSize DEF WorldFine, Today, TodayOn
  <2>. QED BY <2>1, <2>2, ImageBound
<1>. QED BY <1>2, <1>5, <1>6, <1>7

LEMMA ModerateKeeps == ASSUME CycleInv, NEW r \in remarks, Moderate(r) PROVE CycleInv'
<1>. PICK v : v = [r EXCEPT !.visible = ~@]
  OBVIOUS
<1>. PICK f : f = [q \in SeenRemarks |-> IF q = r THEN v ELSE q]
  OBVIOUS
<1>1. WorldFine /\ Numbered /\ QuotasFine /\ PhaseFine /\ StakesApart /\ BotsFollowHumans
  BY DEF CycleInv
<1>2. /\ remarks' = (remarks \ {r}) \cup {v} /\ worldVars' = worldVars /\ stakes' = stakes
      /\ purse' = purse /\ cycle' = cycle /\ kept' = kept
  BY DEF Moderate
<1>3. v \in RemarkRow /\ v.id = r.id /\ v.on = r.on /\ v.age = r.age
  <2>1. r \in RemarkRow
    BY <1>1 DEF WorldFine
  <2>. QED BY <2>1 DEF RemarkRow
<1>4. r \notin cycle.remarks
  <2>1. SUFFICES ASSUME r \in cycle.remarks PROVE FALSE
    OBVIOUS
  <2>2. r.id <= Cardinality(remarks) /\ r.id > Cardinality(remarks) /\ r.id \in Int
    BY <1>1, <2>1 DEF Numbered, WorldFine, RemarkRow
  <2>3. Cardinality(remarks) \in Nat
    BY <1>1, SubsetSize DEF WorldFine, SeenRemarks
  <2>. QED BY <2>2, <2>3
<1>5. SeenRemarks' = (SeenRemarks \ {r}) \cup {v}
  BY <1>2, <1>4 DEF SeenRemarks
<1>6. r \in SeenRemarks /\ \A q \in remarks : q \in SeenRemarks
  BY DEF SeenRemarks
<1>7. Relabels(f)
  BY <1>3 DEF Relabels
<1>8. /\ \A y \in SeenRemarks' : \E q \in SeenRemarks : f[q] = y
      /\ \A q \in SeenRemarks : f[q] \in SeenRemarks'
      /\ \A y \in remarks' : \E q \in remarks : f[q] = y
      /\ \A q \in remarks : f[q] \in remarks'
  <2>1. \A y \in SeenRemarks' : \E q \in SeenRemarks : f[q] = y
    BY <1>5, <1>6
  <2>2. \A q \in SeenRemarks : f[q] \in SeenRemarks'
    BY <1>5, <1>6
  <2>3. \A y \in remarks' : \E q \in remarks : f[q] = y
    BY <1>2, <1>6
  <2>4. \A q \in remarks : f[q] \in remarks'
    BY <1>2, <1>6
  <2>. QED BY <2>1, <2>2, <2>3, <2>4
<1>9. /\ IsFiniteSet(SeenRemarks') /\ Numbered'
      /\ Cardinality(Today(SeenRemarks)') <= Cardinality(Today(SeenRemarks))
      /\ Cardinality(Today(SeenRemarks)) \in Nat /\ Cardinality(Today(SeenRemarks)') \in Nat
      /\ \A s \in Squares : /\ Cardinality(TodayOn(s)') <= Cardinality(TodayOn(s))
                            /\ Cardinality(TodayOn(s)) \in Nat /\ Cardinality(TodayOn(s)') \in Nat
  BY <1>1, <1>2, <1>7, <1>8, RemarksRelabelled
<1>10. SeenStakes' = SeenStakes
  BY <1>2 DEF SeenStakes
<1>11. WorldFine'
  BY <1>1, <1>2, <1>3, <1>9, <1>10 DEF WorldFine, worldVars, streetVars, consoleVars
<1>11a. /\ cycle.limits.day \in Nat /\ cycle.limits.squareDay \in Nat
       /\ kept.day \in Nat /\ \A s \in Squares : kept.square[s] \in Nat
  BY <1>1, CycleNumbers
<1>12. QuotasFine'
  <2>1. Cardinality(Today(SeenRemarks)') <= kept.day
    BY <1>1, <1>9, <1>11a DEF QuotasFine
  <2>2. \A s \in Squares : Cardinality(TodayOn(s)') <= kept.square[s]
    BY <1>1, <1>9, <1>11a DEF QuotasFine
  <2>. QED BY <1>1, <1>2, <1>10, <2>1, <2>2 DEF QuotasFine, Today, TodayOf
<1>13. PhaseFine'
  <2>1. cycle.todo \in SUBSET Squares
    BY <1>1 DEF WorldFine, CycleRow
  <2>2. cycle.at \in {"squares", "asking"} => \A s \in cycle.todo : Cardinality(TodayOn(s)') < cycle.limits.squareDay
    BY <1>1, <1>9, <1>11a, <2>1 DEF PhaseFine
  <2>3. cycle.at = "asking" =>
          Cardinality(TodayOn(cycle.on)') < cycle.limits.squareDay /\ Cardinality(Today(SeenRemarks)') < cycle.limits.day
    <3>. SUFFICES ASSUME cycle.at = "asking"
                  PROVE  /\ Cardinality(TodayOn(cycle.on)') < cycle.limits.squareDay
                         /\ Cardinality(Today(SeenRemarks)') < cycle.limits.day
      OBVIOUS
    <3>. PICK s : s = cycle.on
      OBVIOUS
    <3>1. s \in Squares /\ Cardinality(TodayOn(s)) < cycle.limits.squareDay
      BY <1>1 DEF PhaseFine
    <3>2. Cardinality(TodayOn(s)') < cycle.limits.squareDay
      BY <1>9, <1>11a, <3>1
    <3>3. Cardinality(Today(SeenRemarks)') < cycle.limits.day
      BY <1>1, <1>9, <1>11a DEF PhaseFine
    <3>4. TodayOn(cycle.on)' = TodayOn(s)'
      BY <1>2
    <3>. QED BY <3>2, <3>3, <3>4
  <2>4. \A u, s : Holds(u, s)' <=> Holds(u, s)
    BY <1>10 DEF Holds
  <2>. QED BY <1>1, <1>2, <1>10, <2>2, <2>3, <2>4 DEF PhaseFine, worldVars, streetVars, Today, TodayOf, TraderLimit
<1>14. StakesApart' /\ BotsFollowHumans'
  BY <1>1, <1>2, <1>10 DEF StakesApart, BotsFollowHumans, Spent, worldVars, streetVars
<1>. QED BY <1>9, <1>11, <1>12, <1>13, <1>14 DEF CycleInv

\* A row that has grown older: the same one, of an age that is not younger.
LEMMA OlderRow ==
  ASSUME NEW from, "old" \notin from, NEW to \in Ages,
         NEW r \in RemarkRow, NEW q, q = [r EXCEPT !.age = IF @ \in from THEN to ELSE @]
  PROVE  q \in RemarkRow /\ q.id = r.id /\ q.on = r.on /\ (q.age # "old" => r.age # "old")
BY DEF RemarkRow

LEMMA OlderStake ==
  ASSUME NEW from, "old" \notin from, NEW to \in Ages,
         NEW b \in StakeRow, NEW q, q = [b EXCEPT !.age = IF @ \in from THEN to ELSE @]
  PROVE  /\ q \in StakeRow /\ q.agent = b.agent /\ q.user = b.user /\ q.on = b.on
         /\ (q.age # "old" => b.age # "old")
BY DEF StakeRow

LEMMA HoursPassKeep ==
  ASSUME CycleInv, NEW from, "old" \notin from, NEW to \in Ages, HoursPass(from, to)
  PROVE  CycleInv'
<1>1. WorldFine /\ Numbered /\ QuotasFine /\ PhaseFine /\ StakesApart /\ BotsFollowHumans
  BY DEF CycleInv
<1>2. /\ cycle.at = "idle" /\ cycle' = cycle /\ purse' = purse /\ squareOpen' = squareOpen
      /\ crowd' = crowd /\ agentUser' = agentUser /\ agentOn' = agentOn /\ flags' = flags
      /\ agentLimits' = agentLimits /\ limits' = limits /\ kept' = kept /\ heardLately' = {}
      /\ remarks' = {[r EXCEPT !.age = IF @ \in from THEN to ELSE @] : r \in remarks}
      /\ stakes' = {[b EXCEPT !.age = IF @ \in from THEN to ELSE @] : b \in stakes}
  BY DEF HoursPass, consoleVars
<1>3. PICK f : /\ remarks' = {f[r] : r \in remarks}
               /\ \A r \in remarks : /\ f[r] \in RemarkRow /\ f[r].id = r.id /\ f[r].on = r.on
                                     /\ f[r].age # "old" => r.age # "old"
  <2>. DEFINE f == [r \in remarks |-> [r EXCEPT !.age = IF @ \in from THEN to ELSE @]]
  <2>1. remarks' = {f[r] : r \in remarks}
    BY <1>2
  <2>2. ASSUME NEW r \in remarks
        PROVE  /\ f[r] \in RemarkRow /\ f[r].id = r.id /\ f[r].on = r.on
               /\ f[r].age # "old" => r.age # "old"
    <3>1. r \in RemarkRow /\ f[r] = [r EXCEPT !.age = IF @ \in from THEN to ELSE @]
      BY <1>1 DEF WorldFine
    <3>. HIDE DEF f
    <3>. QED BY <3>1, OlderRow
  <2>. HIDE DEF f
  <2>. QED BY <2>1, <2>2
<1>4. PICK g : /\ stakes' = {g[b] : b \in stakes}
               /\ \A b \in stakes : /\ g[b] \in StakeRow /\ g[b].agent = b.agent /\ g[b].user = b.user
                                    /\ g[b].on = b.on /\ (g[b].age # "old" => b.age # "old")
  <2>. DEFINE g == [b \in stakes |-> [b EXCEPT !.age = IF @ \in from THEN to ELSE @]]
  <2>1. stakes' = {g[b] : b \in stakes}
    BY <1>2
  <2>2. ASSUME NEW b \in stakes
        PROVE  /\ g[b] \in StakeRow /\ g[b].agent = b.agent /\ g[b].user = b.user
               /\ g[b].on = b.on /\ (g[b].age # "old" => b.age # "old")
    <3>1. b \in StakeRow /\ g[b] = [b EXCEPT !.age = IF @ \in from THEN to ELSE @]
      BY <1>1 DEF WorldFine
    <3>. HIDE DEF g
    <3>. QED BY <3>1, OlderStake
  <2>. HIDE DEF g
  <2>. QED BY <2>1, <2>2
<1>5. \A b \in stakes : /\ g[b] \in StakeRow /\ g[b].agent = b.agent /\ g[b].user = b.user
                        /\ g[b].on = b.on /\ (g[b].age # "old" => b.age # "old")
  BY <1>4
<1>6. cycle.remarks = {} /\ cycle.stakes = {}
  BY <1>1, <1>2 DEF PhaseFine
<1>7. SeenRemarks = remarks /\ SeenRemarks' = remarks' /\ SeenStakes = stakes /\ SeenStakes' = stakes'
  BY <1>2, <1>6 DEF SeenRemarks, SeenStakes
<1>8. /\ IsFiniteSet(SeenRemarks') /\ Numbered'
      /\ Cardinality(Today(SeenRemarks)') <= Cardinality(Today(SeenRemarks))
      /\ Cardinality(Today(SeenRemarks)) \in Nat /\ Cardinality(Today(SeenRemarks)') \in Nat
      /\ \A s \in Squares : /\ Cardinality(TodayOn(s)') <= Cardinality(TodayOn(s))
                            /\ Cardinality(TodayOn(s)) \in Nat /\ Cardinality(TodayOn(s)') \in Nat
  <2>1. Relabels(f)
    BY <1>3, <1>7 DEF Relabels
  <2>2. /\ \A y \in SeenRemarks' : \E q \in SeenRemarks : f[q] = y
        /\ \A q \in SeenRemarks : f[q] \in SeenRemarks'
        /\ \A y \in remarks' : \E q \in remarks : f[q] = y
        /\ \A q \in remarks : f[q] \in remarks'
    <3>1. (\A y \in remarks' : \E q \in remarks : f[q] = y) /\ \A q \in remarks : f[q] \in remarks'
      BY <1>3
    <3>. QED BY <1>7, <3>1
  <2>. QED BY <1>1, <1>2, <2>1, <2>2, RemarksRelabelled
<1>9. IsFiniteSet(stakes)
  BY <1>1, <1>7 DEF WorldFine
<1>10. \A y \in stakes' : \E b \in stakes : g[b] = y
  BY <1>4
<1>11. \A b, c \in stakes : b.user = c.user /\ b.on = c.on => b = c
  BY <1>1, <1>7 DEF BotsFollowHumans
<1>12. WorldFine'
  <2>1. IsFiniteSet(stakes')
    BY <1>9, <1>10, ImageBound
  <2>2. remarks' \in SUBSET RemarkRow
    BY <1>3
  <2>3. stakes' \in SUBSET StakeRow
    BY <1>4
  <2>. QED BY <1>1, <1>2, <1>7, <1>8, <2>1, <2>2, <2>3 DEF WorldFine
<1>13. Cardinality(Today(SeenStakes)') <= kept.stakes
  <2>1. \A y \in Today(SeenStakes)' : \E b \in Today(SeenStakes) : g[b] = y
    BY <1>5, <1>7, <1>10 DEF Today
  <2>2. IsFiniteSet(Today(SeenStakes))
    BY <1>1, SubsetSize DEF WorldFine, Today
  <2>3. /\ Cardinality(Today(SeenStakes)') \in Nat /\ Cardinality(Today(SeenStakes)) \in Nat
        /\ Cardinality(Today(SeenStakes)') <= Cardinality(Today(SeenStakes))
    BY <2>1, <2>2, ImageBound
  <2>. QED BY <1>1, <2>3, CycleNumbers DEF QuotasFine
<1>14. ASSUME NEW a \in Agents PROVE Cardinality(TodayOf(SeenStakes, a)') <= kept.own[a]
  <2>1. \A y \in TodayOf(SeenStakes, a)' : \E b \in TodayOf(SeenStakes, a) : g[b] = y
    BY <1>5, <1>7, <1>10 DEF Today, TodayOf
  <2>2. IsFiniteSet(TodayOf(SeenStakes, a))
    BY <1>1, SubsetSize DEF WorldFine, Today, TodayOf
  <2>3. /\ Cardinality(TodayOf(SeenStakes, a)') \in Nat /\ Cardinality(TodayOf(SeenStakes, a)) \in Nat
        /\ Cardinality(TodayOf(SeenStakes, a)') <= Cardinality(TodayOf(SeenStakes, a))
    BY <2>1, <2>2, ImageBound
  <2>. QED BY <1>1, <2>3, CycleNumbers DEF QuotasFine
<1>15. QuotasFine'
  <2>1. Cardinality(Today(SeenRemarks)') <= kept.day
    BY <1>1, <1>8, CycleNumbers DEF QuotasFine
  <2>2. \A s \in Squares : Cardinality(TodayOn(s)') <= kept.square[s]
    BY <1>1, <1>8, CycleNumbers DEF QuotasFine
  <2>. QED BY <1>2, <1>13, <1>14, <2>1, <2>2 DEF QuotasFine
<1>16. PhaseFine' /\ StakesApart'
  BY <1>2, <1>6 DEF PhaseFine, StakesApart
<1>17. BotsFollowHumans'
  <2>1. \A b \in SeenStakes' : b.on \in crowd'
    BY <1>1, <1>2, <1>5, <1>7, <1>10 DEF BotsFollowHumans
  <2>2. \A b, c \in SeenStakes' : b.user = c.user /\ b.on = c.on => b = c
    <3>1. \A b, c \in stakes : g[b].user = g[c].user /\ g[b].on = g[c].on => g[b] = g[c]
      BY <1>5, <1>11
    <3>. QED BY <1>7, <1>10, <3>1
  <2>3. ASSUME NEW u \in BotUsers
        PROVE  purse'[u] + Cardinality({b \in stakes' : b.user = u}) = Purse /\ Spent(u)' <= purse'[u]
    <3>. PICK S, T : S = {b \in stakes : b.user = u} /\ T = {b \in stakes' : b.user = u}
      OBVIOUS
    <3>1. IsFiniteSet(S)
      <4>1. S \in SUBSET stakes
        OBVIOUS
      <4>. QED BY <1>9, <4>1, SubsetSize
    <3>2. (\A y \in T : \E b \in S : g[b] = y) /\ (\A b \in S : g[b] \in T)
      BY <1>4, <1>10
    <3>3. \A b, c \in S : g[b] = g[c] => b = c
      BY <1>5, <1>11
    <3>4. Cardinality(T) = Cardinality(S)
      BY <3>1, <3>2, <3>3, ImageExact
    <3>5. Spent(u)' = Spent(u)
      BY <1>2 DEF Spent
    <3>6. purse[u] + Cardinality(S) = Purse /\ Spent(u) <= purse[u]
      BY <1>1 DEF BotsFollowHumans
    <3>. QED BY <1>2, <3>4, <3>5, <3>6
  <2>. QED BY <2>1, <2>2, <2>3 DEF BotsFollowHumans
<1>. QED BY <1>8, <1>12, <1>15, <1>16, <1>17 DEF CycleInv

LEMMA CycleStart == CycleInit => CycleInv
<1>. SUFFICES ASSUME CycleInit PROVE CycleInv
  OBVIOUS
<1>1. /\ cycle \in CycleRow /\ cycle.at = "idle" /\ cycle.remarks = {} /\ cycle.stakes = {}
  BY NoCycleFacts DEF CycleInit
<1>2. SeenRemarks = {} /\ SeenStakes = {} /\ remarks = {} /\ stakes = {}
  BY <1>1 DEF SeenRemarks, SeenStakes, CycleInit
<1>3. IsFiniteSet({}) /\ Cardinality({}) = 0
  BY FS_EmptySet
<1>4. WorldFine
  <2>1. crowd \in SUBSET Squares
    BY CycleAssumption DEF CycleInit
  <2>2. agentUser \in [Agents -> BotUsers]
    BY CycleAssumption DEF CycleInit
  <2>3. purse \in [BotUsers -> Nat]
    BY CycleAssumption DEF CycleInit
  <2>4. kept \in KeptRow
    BY DEF CycleInit, KeptRow
  <2>. QED BY <1>1, <1>2, <1>3, <2>1, <2>2, <2>3, <2>4 DEF WorldFine, CycleInit
<1>5. Numbered
  BY <1>1, <1>2 DEF Numbered
<1>6. QuotasFine
  <2>1. /\ Today(SeenRemarks) = {} /\ Today(SeenStakes) = {} /\ \A s : TodayOn(s) = {}
        /\ \A a : TodayOf(SeenStakes, a) = {}
    BY <1>2 DEF Today, TodayOn, TodayOf
  <2>2. /\ kept.day = 0 /\ kept.stakes = 0 /\ \A s \in Squares : kept.square[s] = 0
        /\ \A a \in Agents : kept.own[a] = 0
    BY DEF CycleInit
  <2>3. Cardinality(Today(SeenRemarks)) <= kept.day /\ \A s \in Squares : Cardinality(TodayOn(s)) <= kept.square[s]
    BY <1>3, <2>1, <2>2
  <2>4. /\ Cardinality(Today(SeenStakes)) <= kept.stakes
        /\ \A a \in Agents : Cardinality(TodayOf(SeenStakes, a)) <= kept.own[a]
    BY <1>3, <2>1, <2>2
  <2>. QED BY <2>3, <2>4 DEF QuotasFine
<1>7. PhaseFine /\ StakesApart
  BY <1>1 DEF PhaseFine, StakesApart
<1>8. BotsFollowHumans
  <2>1. ASSUME NEW u \in BotUsers
        PROVE  purse[u] + Cardinality({b \in stakes : b.user = u}) = Purse /\ Spent(u) <= purse[u]
    <3>1. {b \in stakes : b.user = u} = {} /\ {b \in cycle.stakes : b.user = u} = {}
      BY <1>1, <1>2
    <3>2. purse[u] = Purse /\ Purse \in Nat
      BY CycleAssumption DEF CycleInit
    <3>3. Spent(u) = 0 /\ Cardinality({b \in stakes : b.user = u}) = 0
      BY <1>3, <3>1 DEF Spent
    <3>. QED BY <3>2, <3>3
  <2>. QED BY <1>2, <2>1 DEF BotsFollowHumans
<1>. QED BY <1>4, <1>5, <1>6, <1>7, <1>8 DEF CycleInv

LEMMA CycleStep == CycleInv /\ [CycleNext]_cycleVars => CycleInv'
<1>. SUFFICES ASSUME CycleInv, [CycleNext]_cycleVars PROVE CycleInv'
  OBVIOUS
<1>1. CASE UNCHANGED cycleVars
  <2>1. WorldFine /\ PhaseFine /\ cycle' = cycle /\ remarks' = remarks /\ stakes' = stakes
        /\ purse' = purse /\ kept' = kept /\ worldVars' = worldVars
    BY <1>1 DEF CycleInv, cycleVars, worldVars, streetVars, consoleVars
  <2>2. /\ SeenRemarks' = SeenRemarks /\ SeenStakes' = SeenStakes /\ \A s : TodayOn(s)' = TodayOn(s)
        /\ \A u, s : Holds(u, s)' <=> Holds(u, s)
    BY <2>1, SeenSame
  <2>3. PhaseFine'
    BY <2>1, <2>2 DEF PhaseFine, Today, TodayOf, TraderLimit, worldVars, streetVars
  <2>. QED BY <2>1, <2>3, QuietCycle DEF worldVars, streetVars, consoleVars, WorldFine
<1>2. CASE BeginCycle
  BY <1>2, BeginCycleKeeps
<1>3. ASSUME NEW v \in Visits, VisitAnalyst(v) \/ VisitTrader(v) PROVE CycleInv'
  BY <1>3, VisitAnalystKeeps, TradersKeep
<1>4. ASSUME NEW s \in Squares, AskModel(s) \/ HumanJoins(s) \/ HumanComments(s) \/ SquareCloses(s)
      PROVE  CycleInv'
  BY <1>4, AskModelKeeps, OthersKeep
<1>5. CASE Comment \/ LeaveAnalyst \/ Decline \/ ModelFails \/ ModelConfuses \/ AnalystsDone
  BY <1>5, CommentKeeps, CommentsGoOn
<1>6. CASE BeginTrading \/ Place \/ PlaceFails \/ TradersDone
  BY <1>6, TradersKeep, PlaceKeeps, CommentsGoOn
<1>7. CASE CommitCycle \/ LoseCycle
  BY <1>7, CommitCycleKeeps, LoseCycleKeeps
<1>8. ASSUME NEW r \in remarks, Moderate(r) PROVE CycleInv'
  BY <1>8, ModerateKeeps
<1>9. ASSUME NEW a \in Agents, NEW user \in BotUsers, NEW kind \in Kinds, NEW on \in BOOLEAN,
             NEW l \in AgentLimits, SaveAgent(a, user, kind, on, l)
      PROVE  CycleInv'
  BY <1>9, OthersKeep
<1>10. ASSUME NEW on \in SUBSET Flags, NEW l \in Limits, SaveAgentConfig(on, l) PROVE CycleInv'
  BY <1>10, OthersKeep
<1>11. CASE HoursPass({"new"}, "day")
  BY <1>11, HoursPassKeep DEF Ages
<1>12. CASE HoursPass({"new", "day"}, "old")
  BY <1>12, HoursPassKeep DEF Ages
<1>. QED BY <1>1, <1>2, <1>3, <1>4, <1>5, <1>6, <1>7, <1>8, <1>9, <1>10, <1>11, <1>12 DEF CycleNext

LEMMA CyclePromises == CycleInv => CycleInvariant
<1>. SUFFICES ASSUME CycleInv PROVE CycleTypeOK /\ QuotasHold /\ BotsFollowHumans
  BY DEF CycleInvariant
<1>1. WorldFine /\ QuotasFine /\ BotsFollowHumans
  BY DEF CycleInv
<1>2. CycleTypeOK
  BY <1>1 DEF WorldFine, CycleRow, CycleTypeOK
<1>3. QuotasHold
  BY <1>1 DEF QuotasFine, QuotasHold, TodayOn
<1>. QED BY <1>1, <1>2, <1>3

LEMMA CyclePart == Next => [CycleNext]_cycleVars
BY DEF Next, EmailSteps, DeviceSteps, PushSteps, ImageSteps, BadgeSteps, TalkSteps, AgentSteps

LEMMA CycleAlways == Spec => []CycleInv
<1>1. Init => CycleInv
  BY CycleStart DEF Init
<1>2. CycleInv /\ [Next]_allVars => CycleInv'
  BY CycleStep, CyclePart DEF allVars, cycleVars
<1> QED BY <1>1, <1>2, PTL DEF Spec

-----------------------------------------------------------------------------
\* At every moment the request that evaluates badges owns each at most once and
\* some request proceeds, notices are of other people's deeds, and the agents
\* keep their purses, one position per market and, whatever limits are edited
\* to, no more of a day than the limits their cycle read when it wrote the last;
\* and what a request of badges commits follows from the facts it counted
\* (record_badge_activity, create_social_notification, _run_comment_cycle,
\* _run_prediction_cycle).
THEOREM CommunityKept == Spec => CommunityIsFair
<1>1. CycleInv /\ BadgeInv /\ TalkInv => CommunityInvariant
  BY BadgePromises, TalkPromises, CyclePromises DEF CommunityInvariant
<1> QED BY <1>1, BadgeAlways, TalkAlways, CycleAlways, BadgesDo, PTL DEF CommunityIsFair

=============================================================================
