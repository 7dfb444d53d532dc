---------------------------- MODULE ConsoleForms ----------------------------
(***************************************************************************)
(* The forms of the console that save a market or a badge with a picture   *)
(* (admin_ops/views.py): the file is stored first, by the website, the row *)
(* is written second, by the API, and the answer may be late or lost.      *)
(*                                                                         *)
(* A rejection that is certain takes the file back; an outcome that is not *)
(* known keeps it and is looked up.  Forms are filled from the row as it   *)
(* was when they were opened, the address of the picture included, while   *)
(* another operator or the pruning of pictures may change what it names.   *)
(***************************************************************************)
EXTENDS Integers, FiniteSets

CONSTANTS
    Forms,         \* forms open in some operator's browser
    Pictures,      \* names of picture files
    NoPicture,
    MaxRenders     \* pictures made by the image jobs (bound)

ASSUME PictureAssumption == NoPicture \notin Pictures

VARIABLES
    image,         \* row of the market, row of the badge |-> its image_url
    canceled,      \* the market was canceled
    disk,          \* files stored by the website or the image jobs
    generated,     \* those named by the image jobs, with a UUID
    form,          \* forms and the requests that post them
    renders,       \* bound
    (* history *)
    saved,         \* forms whose save was committed
    stale          \* the badge shows a picture that was pruned before it was posted back

formVars == <<image, canceled, disk, generated, form, renders, saved, stale>>

Kinds == {"market", "badge"}
Sayings == {"nothing", "saved", "saved unconfirmed", "saved, then failed", "not saved", "unknown", "try again"}

ClosedForm ==
    [kind |-> "market", web |-> "closed", api |-> "idle", picture |-> NoPicture,
     upload |-> NoPicture, then |-> FALSE, said |-> "nothing"]

FormsInit ==
    /\ image \in [Kinds -> {NoPicture} \cup Pictures]
    /\ image["badge"] = NoPicture \/ image["badge"] # image["market"]
    /\ canceled = FALSE
    /\ disk = {image[k] : k \in Kinds} \ {NoPicture}
    /\ generated = disk
    /\ form = [f \in Forms |-> ClosedForm]
    /\ renders = 0
    /\ saved = {} /\ stale = FALSE

Unused == Pictures \ (disk \cup {image[k] : k \in Kinds} \cup {form[f].picture : f \in Forms})

-----------------------------------------------------------------------------
(* The website.                                                            *)

\* market_form or badge_form is opened: its fields are those of the row.
OpenForm(f, k) ==
    /\ form[f].web = "closed" /\ form[f].api = "idle"
    /\ form' = [form EXCEPT ![f] = [ClosedForm EXCEPT !.kind = k, !.web = "open", !.picture = image[k]]]
    /\ saved' = saved \ {f}
    /\ UNCHANGED <<image, canceled, disk, generated, renders, stale>>

\* A form of the market may ask for its publication or its cancellation to
\* follow the save.
Posted(f, upload, then) ==
    /\ form[f].web = "open"
    /\ then => form[f].kind = "market"
    /\ form' = [form EXCEPT ![f].web = "waiting", ![f].api = "sent",
                            ![f].upload = upload, ![f].then = then]

\* The form is valid and posted with the picture it was opened with...
PostForm(f, then) ==
    /\ Posted(f, NoPicture, then)
    /\ UNCHANGED <<image, canceled, disk, generated, renders, saved, stale>>

\* ...or with a file, which is checked, converted and stored under a free name.
PostUpload(f, p, then) ==
    /\ p \in Unused
    /\ Posted(f, p, then)
    /\ disk' = disk \cup {p}
    /\ generated' = generated \ {p}
    /\ UNCHANGED <<image, canceled, renders, saved, stale>>

\* What is not a certain rejection: no answer in time, an answer of a proxy or
\* of a failure, or one that cannot be read.
ConfirmedRejection_AnyError(f, outcome) == outcome # "answered" \/ form[f].api = "refused"
ConfirmedRejection(f, outcome) == outcome = "answered" /\ form[f].api = "refused"

\* The save is answered, refused, or given up while it may still be under way.
SaveEnds(f, outcome) ==
    LET x == form[f]
        rejected == ConfirmedRejection(f, outcome)
        done == outcome = "answered" /\ x.api = "saved"
        linked == x.upload # NoPicture /\ image[x.kind] = x.upload IN
    /\ x.web = "waiting" /\ x.api \in {"sent", "saved", "refused"}
    /\ outcome = "answered" => x.api # "sent"
    /\ disk' = IF rejected THEN disk \ {x.upload} ELSE disk
    /\ \/ done /\ ~x.then /\ form' = [form EXCEPT ![f].web = "shown", ![f].api = "idle", ![f].said = "saved"]
       \/ done /\ x.then /\ form' = [form EXCEPT ![f].web = "following", ![f].api = "sent"]
       \/ rejected /\ form' = [form EXCEPT ![f].web = "shown", ![f].said = "not saved",
                                           ![f].api = IF x.api = "sent" THEN "sent" ELSE "idle"]
       \* the outcome is not known: the market is looked up, if that succeeds
       \/ /\ ~done /\ ~rejected
          /\ \E found \in BOOLEAN :
                form' = [form EXCEPT ![f].web = "shown",
                           ![f].api = IF x.api = "sent" THEN "sent" ELSE "idle",
                           ![f].said = CASE x.kind = "badge" -> "unknown"
                                         [] x.kind = "market" /\ x.upload = NoPicture -> "try again"
                                         [] OTHER -> IF found /\ linked THEN "saved unconfirmed"
                                                                        ELSE "unknown"]
    /\ UNCHANGED <<image, canceled, generated, renders, saved, stale>>

\* What follows the save: what fails or is lost is told the same way.
FollowUpEnds(f, outcome) ==
    /\ form[f].web = "following"
    /\ outcome = "answered" => form[f].api # "sent"
    /\ form' = [form EXCEPT ![f].web = "shown",
                  ![f].api = IF @ = "sent" THEN "sent" ELSE "idle",
                  ![f].said = IF outcome = "answered" /\ form[f].api = "saved" THEN "saved"
                                                                       ELSE "saved, then failed"]
    /\ UNCHANGED <<image, canceled, disk, generated, renders, saved, stale>>

\* The page is left, or the website's process dies with what it was doing.
CloseForm(f) ==
    /\ form[f].web # "closed"
    /\ form' = [form EXCEPT ![f].web = "closed", ![f].said = "nothing",
                            ![f].api = IF @ = "sent" THEN "sent" ELSE "idle"]
    /\ UNCHANGED <<image, canceled, disk, generated, renders, saved, stale>>

-----------------------------------------------------------------------------
(* The API.                                                                *)

\* A save in flight: the first call of a form that has not been followed up.
Saving(f) == form[f].api = "sent" /\ form[f].web # "following" /\ f \notin saved

Wanted(f) == IF form[f].upload # NoPicture THEN form[f].upload ELSE form[f].picture

\* admin_update_market takes a picture of the image jobs only from the row or
\* from a candidate; admin_update_badge takes any.
Acceptable(f) ==
    form[f].kind = "market" /\ Wanted(f) \in generated => Wanted(f) = image["market"]

ApiAnswers(f, answer) ==
    form' = [form EXCEPT ![f].api = IF form[f].web \in {"waiting", "following"} THEN answer ELSE "idle"]

CommitSave(f) ==
    /\ Saving(f) /\ Acceptable(f)
    /\ image' = [image EXCEPT ![form[f].kind] = Wanted(f)]
    /\ stale' = CASE form[f].kind = "market" -> stale
                  [] OTHER -> Wanted(f) \in generated \ disk
    /\ saved' = saved \cup {f}
    /\ ApiAnswers(f, "saved")
    /\ UNCHANGED <<canceled, disk, generated, renders>>

\* Refused by a revision, a taxonomy, a code in use..., or lost on its way.
RefuseSave(f) ==
    /\ Saving(f)
    /\ ApiAnswers(f, "refused")
    /\ UNCHANGED <<image, canceled, disk, generated, renders, saved, stale>>

\* The follow-up, which may have been given up by the website.
FollowUp(f) ==
    /\ form[f].api = "sent" /\ f \in saved
    /\ \/ ~canceled /\ canceled' \in BOOLEAN /\ ApiAnswers(f, "saved")   \* published, or canceled
       \/ UNCHANGED canceled /\ ApiAnswers(f, "refused")
    /\ UNCHANGED <<image, disk, generated, renders, saved, stale>>

-----------------------------------------------------------------------------
(* Another operator saves with a candidate, and the worker prunes pictures *)
(* of its own that no row shows (see ThumbnailJobs).                       *)

Render(k, p) ==
    /\ renders < MaxRenders /\ p \in Unused
    /\ renders' = renders + 1
    /\ disk' = disk \cup {p} /\ generated' = generated \cup {p}
    /\ image' = [image EXCEPT ![k] = p]
    /\ stale' = IF k = "badge" THEN FALSE ELSE stale
    /\ UNCHANGED <<canceled, form, saved>>

Prune ==
    /\ disk' = disk \ (generated \ {image[k] : k \in Kinds})
    /\ disk' # disk
    /\ UNCHANGED <<image, canceled, generated, form, renders, saved, stale>>

Outcomes3 == {"answered", "lost"}

FormsNext ==
    \/ \E f \in Forms :
        \/ \E k \in Kinds : OpenForm(f, k)
        \/ \E then \in BOOLEAN : PostForm(f, then) \/ \E p \in Pictures : PostUpload(f, p, then)
        \/ \E o \in Outcomes3 : SaveEnds(f, o) \/ FollowUpEnds(f, o)
        \/ CloseForm(f) \/ CommitSave(f) \/ RefuseSave(f) \/ FollowUp(f)
    \/ \E k \in Kinds, p \in Pictures : Render(k, p)
    \/ Prune

-----------------------------------------------------------------------------

FormTypes ==
    /\ image \in [Kinds -> Pictures \cup {NoPicture}]
    /\ disk \subseteq Pictures /\ generated \subseteq Pictures /\ saved \subseteq Forms
    /\ \A f \in Forms : /\ form[f].web \in {"closed", "open", "waiting", "following", "shown"}
                        /\ form[f].api \in {"idle", "sent", "saved", "refused"}
                        /\ form[f].said \in Sayings

\* A row names a picture that is stored, whatever answers were lost or came
\* late; a badge may name one that was pruned while a form still held it.
RowsShowStoredPictures ==
    \A k \in Kinds : image[k] \in disk \cup {NoPicture} \/ (k = "badge" /\ stale)

\* No operator is told that a save failed that was or will be made, nor that
\* one was made that was not.
ToldWhatHappened ==
    \A f \in Forms :
        /\ form[f].said = "not saved" => f \notin saved /\ form[f].api = "idle"
        /\ form[f].said \in {"saved", "saved unconfirmed", "saved, then failed"} => f \in saved

FormInvariant == FormTypes /\ RowsShowStoredPictures /\ ToldWhatHappened

FormsSpec == FormsInit /\ [][FormsNext]_formVars

=============================================================================
