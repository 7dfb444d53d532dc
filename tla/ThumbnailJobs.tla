---------------------------- MODULE ThumbnailJobs ----------------------------
(***************************************************************************)
(* Generation of market thumbnails and badge images.  A request reserves   *)
(* quota and inserts a job; workers claim jobs under a lease, call a paid  *)
(* provider twice (planner and image, or light and dark) with a checkpoint *)
(* before each call, and record the result if the job is still theirs.  A  *)
(* job whose lease ran out becomes uncertain and is never called again.    *)
(* Files are written outside the transaction that records them; a cleanup  *)
(* task removes the ones nobody refers to.                                 *)
(*                                                                         *)
(* One draft market, one badge and one operator are modelled, so the least *)
(* of the limits of all and of an operator, and of the environment's caps  *)
(* on them, is the global limit here.                                      *)
(***************************************************************************)
EXTENDS Integers, FiniteSets, FiniteSetsExt

CONSTANTS
    ImageJobs,          \* request identities (bound)
    ImageWorkers,
    NoImage,
    Quotas,             \* limits staff may set, of all jobs and of one market or badge
    MaxImageSwitches    \* bound on changes of the settings

ImageKinds == {"market", "badge"}
ImageStates == {"absent", "queued", "running", "succeeded", "failed", "uncertain", "expired"}
PaidCalls == 2

\* A row of gotrendlabs_thumbnail_jobs.  The two deadlines are kept only in
\* the states in which the code compares them with the clock.
ImageJobRow ==
    [kind : ImageKinds, state : ImageStates,
     leaseOver : BOOLEAN,   \* running: lease_until has passed
     expired : BOOLEAN,     \* queued, succeeded: expires_at has passed
     recent : BOOLEAN,      \* created_at is in the quota period
     applied : BOOLEAN]

\* What a worker holds: its job, the calls it has made and how they failed.
WorkerRow ==
    [job : ImageJobs \cup {NoImage}, made : 0..PaidCalls, cleared : BOOLEAN,
     failure : {"none", "failed", "uncertain"}]

ASSUME ThumbnailAssumption ==
    /\ NoImage \notin ImageJobs
    /\ Quotas \subseteq [global : Nat, item : Nat]
    /\ MaxImageSwitches \in Nat

VARIABLES
    imageJob,       \* the jobs table
    imageWorker,
    calls,          \* provider calls paid for each job (history)
    private,        \* jobs whose candidate is on disk
    public,         \* jobs whose image was copied to the public directory
    shown,          \* image_url of the market and of the badge
    draft,          \* is the market still an unpublished draft?
    session,        \* is the operator's session still valid?
    imagesOn,
    quota,          \* thumbnail_global_limit, thumbnail_market_limit
    quotaCut,       \* kinds that no request had accepted since staff last took
                    \* quota away (history)
    imageSwitches

imageVars == <<imageJob, imageWorker, calls, private, public, shown, draft,
               session, imagesOn, quota, quotaCut, imageSwitches>>
settingVars == <<draft, session, imagesOn, quota, quotaCut, imageSwitches>>

AbsentJob ==
    [kind |-> "market", state |-> "absent", leaseOver |-> FALSE, expired |-> FALSE,
     recent |-> FALSE, applied |-> FALSE]
IdleWorker == [job |-> NoImage, made |-> 0, cleared |-> FALSE, failure |-> "none"]

ImageInit ==
    /\ imageJob = [j \in ImageJobs |-> AbsentJob]
    /\ imageWorker = [w \in ImageWorkers |-> IdleWorker]
    /\ calls = [j \in ImageJobs |-> 0]
    /\ private = {}
    /\ public = {}
    /\ shown = [k \in ImageKinds |-> NoImage]
    /\ draft = TRUE
    /\ session = TRUE
    /\ imagesOn = TRUE
    /\ quota \in Quotas
    /\ quotaCut = {}
    /\ imageSwitches = 0

OfKind(k) == {j \in ImageJobs : imageJob[j].state # "absent" /\ imageJob[j].kind = k}
InState(states) == {j \in ImageJobs : imageJob[j].state \in states}
Eligible(j) == session /\ (imageJob[j].kind = "market" => draft)

-----------------------------------------------------------------------------
(* Requests.                                                               *)

Recent(S) == {j \in S : imageJob[j].recent}

\* A badge takes two units of the global quota, a market one.
UsedUnits == Cardinality(Recent(OfKind("market"))) + 2 * Cardinality(Recent(OfKind("badge")))

\* The badge's test leaves room for two units.
FitsQuota(k) ==
    /\ IF k = "badge" THEN UsedUnits + 2 <= quota.global ELSE UsedUnits < quota.global
    /\ Cardinality(Recent(OfKind(k))) < quota.item

NoneActive(k) == OfKind(k) \cap InState({"queued", "running"}) = {}

\* Requests run one at a time, behind an advisory lock; a repeated identity
\* returns its job.  The step is where a request reads the settings: they may
\* be saved before it commits, but not by another request.
Reserve(j, k) ==
    /\ imageJob[j].state = "absent"
    /\ imagesOn
    /\ session
    /\ NoneActive(k)
    /\ FitsQuota(k)
    /\ imageJob' = [imageJob EXCEPT ![j] =
                      [AbsentJob EXCEPT !.kind = k, !.state = "queued", !.recent = TRUE]]
    /\ quotaCut' = quotaCut \ {k}
    /\ UNCHANGED <<imageWorker, calls, private, public, shown, draft, session, imagesOn, quota,
                   imageSwitches>>

RequestMarketImage(j) == draft /\ Reserve(j, "market")
RequestBadgeImage(j) == Reserve(j, "badge")

-----------------------------------------------------------------------------
(* The worker.                                                             *)

\* An abandoned job is given up.
Recovered_Requeued(row) ==
    IF row.state = "running" /\ row.leaseOver
    THEN [row EXCEPT !.state = "queued", !.leaseOver = FALSE] ELSE row
Recovered_Never(row) == row
Recovered(row) ==
    IF row.state = "running" /\ row.leaseOver
    THEN [row EXCEPT !.state = "uncertain", !.leaseOver = FALSE] ELSE row

AllRecovered == [j \in ImageJobs |-> Recovered(imageJob[j])]

\* run_once up to its first commit: recover, and claim a queued job.
RunOnce(w) ==
    /\ imageWorker[w] = IdleWorker
    /\ IF imagesOn /\ InState({"queued"}) # {}
       THEN \E j \in InState({"queued"}) :
              IF imageJob[j].expired \/ ~Eligible(j)
              THEN /\ imageJob' = [AllRecovered EXCEPT ![j].state = "failed", ![j].expired = FALSE]
                   /\ UNCHANGED imageWorker
              ELSE /\ imageJob' = [AllRecovered EXCEPT ![j].state = "running"]
                   /\ imageWorker' = [imageWorker EXCEPT ![w].job = j]
       ELSE /\ imageJob' = AllRecovered
            /\ UNCHANGED imageWorker
    /\ UNCHANGED <<calls, private, public, shown, settingVars>>

Owns(w) ==
    LET row == imageJob[imageWorker[w].job] IN row.state = "running" /\ ~row.leaseOver

Working(w) ==
    /\ imageWorker[w].job # NoImage
    /\ imageWorker[w].made < PaidCalls
    /\ imageWorker[w].failure = "none"

\* The transaction before a call: a lost lease stops a badge at once and makes
\* a market's job uncertain.
Checkpoint(w) ==
    LET worker == imageWorker[w]
    IN  /\ Working(w)
        /\ ~worker.cleared
        /\ imageWorker' = [imageWorker EXCEPT ![w] =
             CASE Owns(w) /\ Eligible(worker.job) -> [worker EXCEPT !.cleared = TRUE]
               [] Owns(w) -> [worker EXCEPT !.failure = "failed"]
               [] OTHER -> IF imageJob[worker.job].kind = "badge" THEN IdleWorker
                           ELSE [worker EXCEPT !.failure = "uncertain"]]
        /\ UNCHANGED <<imageJob, calls, private, public, shown, settingVars>>

\* The paid call, with no transaction open.
CallProvider(w, failure) ==
    LET worker == imageWorker[w]
    IN  /\ Working(w)
        /\ worker.cleared
        /\ calls' = [calls EXCEPT ![worker.job] = @ + 1]
        /\ imageWorker' = [imageWorker EXCEPT ![w] =
             [worker EXCEPT !.made = @ + 1, !.cleared = FALSE, !.failure = failure]]
        /\ UNCHANGED <<imageJob, private, public, shown, settingVars>>

Done(w) ==
    /\ imageWorker[w].job # NoImage
    /\ imageWorker[w].made = PaidCalls \/ imageWorker[w].failure # "none"

Fenced_Late(j) == TRUE
Fenced(j) == imageJob[j].state = "running"

\* A result is recorded only if the job is still running; the file is written
\* before the transaction commits.
FinishJob(w, stored) ==
    LET worker == imageWorker[w]
        j == worker.job
        verdict == CASE imageJob[j].leaseOver -> "uncertain"
                     [] worker.failure # "none" -> worker.failure
                     [] ~Eligible(j) \/ ~stored -> "failed"
                     [] OTHER -> "succeeded"
    IN  /\ Done(w)
        /\ imageWorker' = [imageWorker EXCEPT ![w] = IdleWorker]
        /\ IF Fenced(j)
           THEN /\ imageJob' = [imageJob EXCEPT ![j].state = verdict, ![j].leaseOver = FALSE]
                /\ private' = IF verdict = "succeeded" THEN private \cup {j} ELSE private
           ELSE UNCHANGED <<imageJob, private>>
        /\ UNCHANGED <<calls, public, shown, settingVars>>

\* The process dies, possibly after it wrote the file of an open transaction.
WorkerDies(w) ==
    /\ imageWorker[w].job # NoImage
    /\ imageWorker' = [imageWorker EXCEPT ![w] = IdleWorker]
    /\ private' \in {private} \cup
         (IF Done(w) /\ imageWorker[w].failure = "none" /\ Fenced(imageWorker[w].job)
          THEN {private \cup {imageWorker[w].job}} ELSE {})
    /\ UNCHANGED <<imageJob, calls, public, shown, settingVars>>

-----------------------------------------------------------------------------
(* Applying and cleaning.                                                  *)

\* Saving the market or the badge with a candidate: the image is copied to a
\* new public file and the row refers to it.  The transaction may still fail.
Promote(j, commits) ==
    /\ imageJob[j].state = "succeeded"
    /\ ~imageJob[j].expired
    /\ session
    /\ j \in private
    /\ public' = public \cup {j}
    /\ IF commits
       THEN /\ imageJob' = [imageJob EXCEPT ![j].applied = TRUE]
            /\ shown' = [shown EXCEPT ![imageJob[j].kind] = j]
       ELSE UNCHANGED <<imageJob, shown>>
    /\ UNCHANGED <<imageWorker, calls, private, settingVars>>

ApplyMarketImage(j, commits) ==
    imageJob[j].kind = "market" /\ draft /\ Promote(j, commits)

\* A badge's pair is applied once.
ApplyBadgeImage(j, commits) ==
    imageJob[j].kind = "badge" /\ ~imageJob[j].applied /\ Promote(j, commits)

\* Saving with a hand-written address, or none.
ReplaceImage(k) ==
    /\ shown' = [shown EXCEPT ![k] = NoImage]
    /\ UNCHANGED <<imageJob, imageWorker, calls, private, public, settingVars>>

\* Candidates of settled jobs that expired, and files of jobs that are over
\* (the hour of grace is long for what a worker does).
Disposable(row) ==
    \/ row.state \notin {"queued", "running", "succeeded"}
    \/ row.state = "succeeded" /\ row.expired

Referenced == {shown[k] : k \in ImageKinds}

PruneImages ==
    LET recovered == AllRecovered
    IN  /\ imageJob' = [j \in ImageJobs |->
                          IF recovered[j].state = "succeeded" /\ recovered[j].expired
                          THEN [recovered[j] EXCEPT !.state = "expired", !.expired = FALSE]
                          ELSE recovered[j]]
        /\ private' = {j \in private : ~Disposable(recovered[j])}
        /\ public' = public \cap Referenced
        /\ UNCHANGED <<imageWorker, calls, shown, settingVars>>

\* Deleting the draft keeps the attempts for the quota and fences their results.
DeleteDraft ==
    /\ draft
    /\ draft' = FALSE
    /\ shown' = [shown EXCEPT !["market"] = NoImage]
    /\ imageJob' = [j \in ImageJobs |->
                      IF j \in OfKind("market")
                      THEN [imageJob[j] EXCEPT !.state = "expired", !.expired = FALSE,
                                               !.leaseOver = FALSE]
                      ELSE imageJob[j]]
    /\ UNCHANGED <<imageWorker, calls, private, public, session, imagesOn, quota, quotaCut,
                   imageSwitches>>

-----------------------------------------------------------------------------
(* The environment.                                                        *)

LeaseRunsOut(j) ==
    /\ imageJob[j].state = "running"
    /\ ~imageJob[j].leaseOver
    /\ imageJob' = [imageJob EXCEPT ![j].leaseOver = TRUE]
    /\ UNCHANGED <<imageWorker, calls, private, public, shown, settingVars>>

JobExpires(j) ==
    /\ imageJob[j].state \in {"queued", "succeeded"}
    /\ imageJob' = [imageJob EXCEPT ![j].expired = TRUE]
    /\ UNCHANGED <<imageWorker, calls, private, public, shown, settingVars>>

PeriodPasses(j) ==
    /\ imageJob[j].recent
    /\ imageJob' = [imageJob EXCEPT ![j].recent = FALSE]
    /\ UNCHANGED <<imageWorker, calls, private, public, shown, settingVars>>

\* The market is published, or the session ends.
PublishDraft ==
    /\ draft
    /\ draft' = FALSE
    /\ UNCHANGED <<imageJob, imageWorker, calls, private, public, shown, session,
                   imagesOn, quota, quotaCut, imageSwitches>>

EndSession ==
    /\ session
    /\ session' = FALSE
    /\ UNCHANGED <<imageJob, imageWorker, calls, private, public, shown, draft,
                   imagesOn, quota, quotaCut, imageSwitches>>

\* Staff save the settings: generation on or off, the limits, and a period in
\* which, among the jobs there are, those of S were created.
SaveThumbnailSettings(on, q, S) ==
    LET before == Recent(ImageJobs)
    IN  /\ imageSwitches < MaxImageSwitches
        /\ imageSwitches' = imageSwitches + 1
        /\ S \subseteq before \/ before \subseteq S
        /\ imagesOn' = on
        /\ quota' = q
        /\ imageJob' = [j \in ImageJobs |-> [imageJob[j] EXCEPT !.recent = j \in S]]
        /\ quotaCut' = IF q.global < quota.global \/ q.item < quota.item \/ ~(S \subseteq before)
                       THEN ImageKinds ELSE quotaCut
        /\ UNCHANGED <<imageWorker, calls, private, public, shown, draft, session>>

ImageNext ==
    \/ \E j \in ImageJobs : RequestMarketImage(j) \/ RequestBadgeImage(j)
    \/ \E j \in ImageJobs : LeaseRunsOut(j) \/ JobExpires(j) \/ PeriodPasses(j)
    \/ \E j \in ImageJobs, commits \in BOOLEAN :
         ApplyMarketImage(j, commits) \/ ApplyBadgeImage(j, commits)
    \/ \E k \in ImageKinds : ReplaceImage(k)
    \/ PruneImages \/ DeleteDraft \/ PublishDraft \/ EndSession
    \/ \E on \in BOOLEAN, q \in Quotas, S \in SUBSET InState(ImageStates \ {"absent"}) :
         SaveThumbnailSettings(on, q, S)
    \/ \E w \in ImageWorkers : RunOnce(w) \/ Checkpoint(w) \/ WorkerDies(w)
    \/ \E w \in ImageWorkers, failure \in {"none", "failed", "uncertain"} :
         CallProvider(w, failure)
    \/ \E w \in ImageWorkers, stored \in BOOLEAN : FinishJob(w, stored)

\* Workers loop, and clocks advance; a call is bounded by a timeout.
ImageFairness ==
    /\ \A j \in ImageJobs : WF_imageVars(LeaseRunsOut(j))
    /\ \A w \in ImageWorkers :
         /\ WF_imageVars(RunOnce(w))
         /\ WF_imageVars(Checkpoint(w))
         /\ WF_imageVars(\E failure \in {"none", "failed", "uncertain"} : CallProvider(w, failure))
         /\ WF_imageVars(\E stored \in BOOLEAN : FinishJob(w, stored))

-----------------------------------------------------------------------------
(* Properties.                                                             *)

\* Tables and workers keep their types; a kind has one active job.
ImageTypeOK ==
    /\ imageJob \in [ImageJobs -> ImageJobRow]
    /\ imageWorker \in [ImageWorkers -> WorkerRow]
    /\ calls \in [ImageJobs -> Nat]
    /\ private \subseteq ImageJobs
    /\ public \subseteq ImageJobs
    /\ shown \in [ImageKinds -> ImageJobs \cup {NoImage}]
    /\ {draft, session, imagesOn} \subseteq BOOLEAN
    /\ quota \in Quotas /\ quotaCut \subseteq ImageKinds
    /\ \A k \in ImageKinds : Cardinality(OfKind(k) \cap InState({"queued", "running"})) <= 1

\* Jobs of the period never take more than the global quota, whatever mix of
\* markets and badges is requested, nor those of a market or a badge more than
\* its own (request_job of both services).  Staff who lower a limit or lengthen
\* the period (thumbnail_settings.save) may leave too many: then no request is
\* accepted for anything, or for that market or badge, until they fit again.
QuotaHolds ==
    /\ UsedUnits <= quota.global \/ quotaCut = ImageKinds
    /\ \A k \in ImageKinds : Cardinality(Recent(OfKind(k))) <= quota.item \/ k \in quotaCut

\* No crash, lease or late worker makes the provider be paid for a job again:
\* a job costs at most its two calls.
JobPaidOnce == \A j \in ImageJobs : calls[j] <= PaidCalls

\* A job that failed, became uncertain or expired never succeeds or runs again:
\* a late result cannot restore it.
LostJobsStayLost ==
    [][\A j \in ImageJobs :
         imageJob[j].state \in {"failed", "uncertain", "expired"} =>
           imageJob'[j].state \notin {"queued", "running", "succeeded"}]_imageVars

\* A candidate that can still be applied has its file: no cleanup removes it.
CandidateHasFile ==
    \A j \in InState({"succeeded"}) : ~imageJob[j].expired => j \in private

\* The image a market or a badge shows is in the public directory, although
\* files are copied and removed outside the database.
ShownImageExists == \A k \in ImageKinds : shown[k] # NoImage => shown[k] \in public

\* While generation stays on, every request ends.
RequestsEnd ==
    \A j \in ImageJobs :
      (j \in InState({"queued", "running"}) /\ imagesOn)
        ~> (j \notin InState({"queued", "running"}) \/ ~imagesOn)

\* Jobs stay within the quota and are paid once, and what can be applied or is
\* shown has its file (request_job, run_once, confirm, prune).
ImageInvariant ==
    ImageTypeOK /\ QuotaHolds /\ JobPaidOnce /\ CandidateHasFile /\ ShownImageExists

=============================================================================
