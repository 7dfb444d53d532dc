---------------------------- MODULE SiteSettings ----------------------------
(***************************************************************************)
(* The settings of the platform and the two gates that obey them.          *)
(*                                                                         *)
(* The settings live in two places: a JSON file with the two maintenance   *)
(* switches, so that they work without a database, and the single row of   *)
(* gotrendlabs_site_config with everything else.  The Config page of the   *)
(* administration (admin_ops/views.py, config) saves both: it reads the    *)
(* row when the request starts, writes the file through a temporary file   *)
(* next to it, and then writes the row: every column, as it was read or as *)
(* it was posted, except those of the images, which the API owns.          *)
(*                                                                         *)
(* A telephone passes two middlewares with every call, each reading the    *)
(* file for itself: 503 while the app is in maintenance, 426 when its      *)
(* build is older than the row allows.  The app shows what it last heard.  *)
(***************************************************************************)
EXTENDS Integers, FiniteSets

CONSTANTS
    Editors,         \* operators who may open the Config page
    Chiefs,          \* those of them who are superusers
    Versions,        \* version codes of Android releases
    Phones,          \* installed apps
    OldBuild,        \* the build they run
    NoRelease,       \* no release is active
    MaxSettingEdits  \* bound: saves and publications

ASSUME SettingsAssumption ==
    /\ Chiefs \subseteq Editors
    /\ Versions \subseteq Nat \ {0}
    /\ OldBuild \in Nat
    /\ NoRelease \notin Versions

VARIABLES
    siteRow,      \* gotrendlabs_site_config: the groups of columns told apart
    configFile,   \* content of platform_config.json: the mobile switch, or torn
    tmpFile,      \* content of platform_config.json.tmp, absent when renamed
    release,      \* version code of the active MobileAppRelease
    posting,       \* editor |-> where its request on the Config page stands
    phone,        \* phone |-> what the app shows and the call it has out
    settingEdits,
    \* history
    everActive,   \* versions that have been the active release
    chiefPolicies,\* compatibility policies superusers have saved
    imageChoice,  \* the image settings last saved through the API
    overlapped    \* two saves have had the temporary file at once

settingVars == <<siteRow, configFile, tmpFile, release, posting, phone, settingEdits,
                 everActive, chiefPolicies, imageChoice, overlapped>>

Torn == "torn"
Absent == "absent"
Switch == {"on", "off"}

Builds == Versions \cup {0}
Policies == [min : Builds, recommended : Builds]
Choices == {0, 1}

\* What the file says to a reader; one that cannot be parsed says the defaults.
InMaintenance == configFile = "on"

SiteRow == [general : Choices, window : Choices, policy : Policies, images : Choices]

Idle == [step |-> "idle", handle |-> "none", maintenance |-> "off", general |-> 0,
         window |-> 0, policy |-> [min |-> 0, recommended |-> 0]]
Request == [step : {"idle", "open", "write", "rename", "row"},
            handle : {"none", "tmp", "file", "gone"},
            maintenance : Switch, general : Choices, window : Choices, policy : Policies]

\* "override" is the state a 426 puts the app in, over whatever the health
\* check said; "outside" and "inside" are a call before each middleware.
Phone == [screen : {"loading", "content", "maintenance", "update"}, override : BOOLEAN,
          call : {"none", "outside", "inside", "served"}, exempt : BOOLEAN, excused : BOOLEAN]

SettingsInit ==
    /\ siteRow = [general |-> 0, window |-> 0, images |-> 0,
                  policy |-> [min |-> 0, recommended |-> 0]]
    /\ configFile = "off"
    /\ tmpFile = Absent
    /\ release = NoRelease
    /\ posting = [e \in Editors |-> Idle]
    /\ phone = [p \in Phones |-> [screen |-> "loading", override |-> FALSE, call |-> "none",
                                  exempt |-> FALSE, excused |-> FALSE]]
    /\ settingEdits = 0
    /\ everActive = {}
    /\ chiefPolicies = {siteRow.policy}
    /\ imageChoice = 0
    /\ overlapped = FALSE

MoreSettings == settingEdits < MaxSettingEdits /\ settingEdits' = settingEdits + 1

-----------------------------------------------------------------------------
(* The Config page.                                                        *)

\* What the form accepts: nobody but a superuser changes the policy, and no
\* build is asked for that the active release does not reach.
Acceptable(e, policy) ==
    /\ policy # siteRow.policy => e \in Chiefs
    /\ (policy.min > 0 \/ policy.recommended > 0) => release # NoRelease
    /\ release # NoRelease => policy.min <= release /\ policy.recommended <= release
    /\ policy.min > 0 /\ policy.recommended > 0 => policy.min <= policy.recommended

\* The columns that the request did not post keep what it read on arrival.
PostConfig(e) ==
    /\ posting[e].step = "idle"
    /\ MoreSettings
    /\ \E maintenance \in Switch, general \in Choices, posted \in BOOLEAN,
          window \in Choices, policy \in Policies :
         /\ posted => Acceptable(e, policy)
         /\ ~posted => window = siteRow.window /\ policy = siteRow.policy
         /\ posting' = [posting EXCEPT ![e] =
              [step |-> "open", handle |-> "none", maintenance |-> maintenance,
               general |-> general, window |-> window, policy |-> policy]]
    /\ UNCHANGED <<siteRow, configFile, tmpFile, release, phone, everActive, chiefPolicies,
                   imageChoice, overlapped>>

\* Opening the temporary file for writing empties it, whoever else has it open.
OpenTmp(e) ==
    /\ posting[e].step = "open"
    /\ tmpFile' = Torn
    /\ posting' = [posting EXCEPT ![e] = [@ EXCEPT !.step = "write", !.handle = "tmp"]]
    /\ overlapped' = (overlapped \/ \E o \in Editors \ {e} : posting[o].step \in {"write", "rename"})
    /\ UNCHANGED <<siteRow, configFile, release, phone, settingEdits, everActive, chiefPolicies,
                   imageChoice>>

\* What a file holds after a second writer: its text, or its text and the end
\* of a longer one that was there.
Overwritten(old, text) == IF old \in {Torn, Absent} THEN {text} ELSE {text, Torn}

\* A call in flight is excused from the rules that changed under it.
Excused == [p \in Phones |-> [phone[p] EXCEPT !.excused = phone[p].call # "none"]]

WriteTmp(e) ==
    /\ posting[e].step = "write"
    /\ posting' = [posting EXCEPT ![e] = [@ EXCEPT !.step = "rename"]]
    /\ \/ /\ posting[e].handle = "tmp"
          /\ tmpFile' \in Overwritten(tmpFile, posting[e].maintenance)
          /\ UNCHANGED <<configFile, phone>>
       \/ /\ posting[e].handle = "file"
          /\ configFile' \in Overwritten(configFile, posting[e].maintenance)
          /\ phone' = Excused
          /\ UNCHANGED tmpFile
       \/ /\ posting[e].handle = "gone"
          /\ UNCHANGED <<tmpFile, configFile, phone>>
    /\ UNCHANGED <<siteRow, release, settingEdits, everActive, chiefPolicies,
                   imageChoice, overlapped>>

\* Whoever had the temporary file open has, from now on, the file itself.
AfterRename(handle) ==
    CASE handle = "tmp" -> "file" [] handle = "file" -> "gone" [] OTHER -> handle

RenameTmp(e) ==
    /\ posting[e].step = "rename"
    /\ tmpFile # Absent
    /\ configFile' = tmpFile
    /\ tmpFile' = Absent
    /\ posting' = [o \in Editors |->
                    IF o = e THEN [posting[e] EXCEPT !.step = "row", !.handle = "none"]
                             ELSE [posting[o] EXCEPT !.handle = AfterRename(posting[o].handle)]]
    /\ phone' = Excused
    /\ UNCHANGED <<siteRow, release, settingEdits, everActive, chiefPolicies, imageChoice, overlapped>>

\* The request fails: the other save has taken the temporary file away, the
\* disk or the database refuses, or the worker dies.
PostFails(e) ==
    /\ posting[e].step # "idle"
    /\ posting' = [posting EXCEPT ![e] = Idle]
    /\ UNCHANGED <<siteRow, configFile, tmpFile, release, phone, settingEdits, everActive,
                   chiefPolicies, imageChoice, overlapped>>

\* A mutation: the save writes every column.
SavedRow_Everything(old, read) ==
    [general |-> read.general, window |-> read.window, policy |-> read.policy, images |-> 0]
\* SiteConfig.save(update_fields=...): the columns of the images are left out.
SavedRow(old, read) ==
    [general |-> read.general, window |-> read.window, policy |-> read.policy, images |-> old.images]

SaveConfig(e) ==
    /\ posting[e].step = "row"
    /\ siteRow' = SavedRow(siteRow, posting[e])
    /\ posting' = [posting EXCEPT ![e] = Idle]
    /\ chiefPolicies' = chiefPolicies \cup (IF e \in Chiefs THEN {posting[e].policy} ELSE {})
    /\ phone' = Excused
    /\ UNCHANGED <<configFile, tmpFile, release, settingEdits, everActive, imageChoice, overlapped>>

\* PUT /admin/thumbnail-settings and /admin/badge-image-settings.
SaveImages ==
    /\ MoreSettings
    /\ \E c \in Choices \ {siteRow.images} :
         /\ siteRow' = [siteRow EXCEPT !.images = c]
         /\ imageChoice' = c
    /\ UNCHANGED <<configFile, tmpFile, release, posting, phone, everActive, chiefPolicies, overlapped>>

\* MobileAppRelease.save: an active release replaces the active one.
PublishRelease ==
    /\ MoreSettings
    /\ \E v \in Versions :
         /\ release' = v
         /\ everActive' = everActive \cup {v}
    /\ UNCHANGED <<siteRow, configFile, tmpFile, posting, phone, chiefPolicies, imageChoice, overlapped>>

-----------------------------------------------------------------------------
(* The telephone.                                                          *)

Outdated == siteRow.policy.min > 0 /\ OldBuild < siteRow.policy.min

\* GET /health, asked at the start, on resuming and on "try again"; a policy
\* that cannot be read is no policy, and an unhealthy answer shows maintenance.
Screens == IF InMaintenance THEN {"maintenance"}
           ELSE {"maintenance", "content"} \cup (IF Outdated THEN {"update"} ELSE {})

HealthAnswers(p) ==
    /\ phone[p].screen = "loading"
    /\ \E s \in Screens : phone' = [phone EXCEPT ![p] = [phone[p] EXCEPT !.screen = s]]
    /\ UNCHANGED <<siteRow, configFile, tmpFile, release, posting, settingEdits, everActive,
                   chiefPolicies, imageChoice, overlapped>>

\* Resuming asks again under the screen of a 426; "try again" also lifts it.
AskAgain(p) ==
    /\ phone[p].screen # "loading"
    /\ \E lift \in BOOLEAN :
         phone' = [phone EXCEPT ![p] = [phone[p] EXCEPT !.screen = "loading", !.override = @ /\ ~lift]]
    /\ UNCHANGED <<siteRow, configFile, tmpFile, release, posting, settingEdits, everActive,
                   chiefPolicies, imageChoice, overlapped>>

\* Only the app's content makes calls; a session is also restored and polled
\* from beneath the gate, which is why every screen may have one out.
StartCall(p) ==
    /\ phone[p].call \in {"none", "served"}
    /\ \E exempt \in BOOLEAN :
         phone' = [phone EXCEPT ![p] =
           [phone[p] EXCEPT !.call = "outside", !.exempt = exempt, !.excused = FALSE]]
    /\ UNCHANGED <<siteRow, configFile, tmpFile, release, posting, settingEdits, everActive,
                   chiefPolicies, imageChoice, overlapped>>

\* mobile_maintenance_middleware, the outer one: 503, but not for signing in.
PassMaintenance(p) ==
    /\ phone[p].call = "outside"
    /\ phone' = [phone EXCEPT ![p] =
         [phone[p] EXCEPT !.call = IF InMaintenance /\ ~phone[p].exempt THEN "none" ELSE "inside"]]
    /\ UNCHANGED <<siteRow, configFile, tmpFile, release, posting, settingEdits, everActive,
                   chiefPolicies, imageChoice, overlapped>>

\* mobile_compatibility_middleware, the inner one: no 426 while in maintenance.
RefusedBuild(p) == ~InMaintenance /\ Outdated

PassCompatibility(p) ==
    /\ phone[p].call = "inside"
    /\ phone' = [phone EXCEPT ![p] =
         [phone[p] EXCEPT !.call = IF RefusedBuild(p) THEN "none" ELSE "served",
                   !.override = @ \/ RefusedBuild(p),
                   !.excused = @ \/ (InMaintenance /\ phone[p].exempt)]]
    /\ UNCHANGED <<siteRow, configFile, tmpFile, release, posting, settingEdits, everActive,
                   chiefPolicies, imageChoice, overlapped>>

\* The policy cannot be read, and the call passes: the gate fails open.
PolicyUnreadable(p) ==
    /\ phone[p].call = "inside"
    /\ phone' = [phone EXCEPT ![p] = [phone[p] EXCEPT !.call = "served", !.excused = TRUE]]
    /\ UNCHANGED <<siteRow, configFile, tmpFile, release, posting, settingEdits, everActive,
                   chiefPolicies, imageChoice, overlapped>>

-----------------------------------------------------------------------------

SettingsNext ==
    \/ \E e \in Editors : \/ PostConfig(e) \/ OpenTmp(e) \/ WriteTmp(e) \/ RenameTmp(e)
                          \/ PostFails(e) \/ SaveConfig(e)
    \/ SaveImages
    \/ PublishRelease
    \/ \E p \in Phones : \/ HealthAnswers(p) \/ AskAgain(p) \/ StartCall(p)
                         \/ PassMaintenance(p) \/ PassCompatibility(p) \/ PolicyUnreadable(p)

-----------------------------------------------------------------------------

SettingsTypes ==
    /\ siteRow \in SiteRow
    /\ configFile \in Switch \cup {Torn}
    /\ tmpFile \in Switch \cup {Torn, Absent}
    /\ release \in Versions \cup {NoRelease}
    /\ posting \in [Editors -> Request]
    /\ phone \in [Phones -> Phone]

\* The image settings survive every save of the Config page, however old the
\* row was that the page read.
ImagesKept == siteRow.images = imageChoice

\* However saves overlap, the policy in force is one a superuser saved: an
\* operator's save may bring back an older one, never one of its own.
PolicyFromChiefs == siteRow.policy \in chiefPolicies

\* No app is asked to become a build that was never offered, though releases
\* are published and withdrawn while the form is open.
AskedBuildsExist ==
    \A b \in {siteRow.policy.min, siteRow.policy.recommended} \ {0} :
        \E v \in everActive : b <= v

\* A reader finds the file whole unless two saves have overlapped: no crash
\* and no reader in the middle of a save switches maintenance off.
TornOnlyByOverlap == configFile = Torn => overlapped

\* A call of an outdated app is served only while in maintenance and signing
\* in, when its policy could not be read, or when the rules changed under it.
OutdatedIsRefused ==
    \A p \in Phones : phone[p].call = "served" /\ Outdated => phone[p].excused

SettingsInvariant ==
    /\ SettingsTypes
    /\ ImagesKept
    /\ PolicyFromChiefs
    /\ AskedBuildsExist
    /\ TornOnlyByOverlap
    /\ OutdatedIsRefused

=============================================================================
