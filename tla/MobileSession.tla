--------------------------- MODULE MobileSession ---------------------------
(***************************************************************************)
(* Who is signed in on a phone: the session token in the secure store, the *)
(* one the API client sends, and the user the app shows                    *)
(* (features/auth/auth_controller.dart, core/api_client.dart).             *)
(*                                                                         *)
(* The app is one thread, so what lies between two awaits is one step; but *)
(* a restore, a login, a logout and a profile update are each several      *)
(* steps, and the person, who may close the login sheet at any time, acts  *)
(* between them.  A login carries the number of its attempt and its answer *)
(* is dropped when that is no longer the current one; a restore has none.  *)
(***************************************************************************)
EXTENDS Integers, FiniteSets

CONSTANTS
    Persons,       \* accounts that use this phone
    Guarded,       \* the ones that have a second factor
    Sessions,      \* sessions the server may issue
    Tries,         \* logins that may be in flight
    NoToken, NoPerson,
    MaxAppStarts, MaxAttempts   \* bounds

ASSUME SessionAssumption ==
    Guarded \subseteq Persons /\ NoToken \notin Sessions /\ NoPerson \notin Persons

VARIABLES
    holder,        \* server: session |-> its account, NoPerson before it is issued
    alive,         \* server: sessions neither revoked nor expired
    stored, bio,   \* secure store: the remembered token, the local protection
    active,        \* ApiClient._token
    screen,        \* AuthState
    attempt,       \* _authAttempt
    restore,       \* the restore in flight
    try,           \* the logins and verifications in flight
    logout,        \* the logout in flight
    update,        \* the person whose profile update is in flight
    starts,        \* bound
    (* history *)
    dropped,       \* sessions issued to an attempt that had been given up
    opened,        \* sessions this run of the app may use without asking again
    overtaken        \* something overtook a restore or a profile update

serverSide == <<holder, alive>>
store == <<stored, bio>>
history == <<dropped, opened, overtaken>>
sessionVars == <<serverSide, store, active, screen, attempt, restore, try, logout, update, starts, history>>

EmptyScreen ==
    [user |-> NoPerson, challenge |-> NoPerson, busy |-> FALSE, locked |-> FALSE, restoring |-> FALSE]
NoRestore == [step |-> "none", token |-> NoToken, forced |-> FALSE]
NoTry == [step |-> "none", person |-> NoPerson, number |-> 0, token |-> NoToken, remember |-> FALSE]

\* The app starts with whatever its store holds, protected or not.
PhoneInit ==
    /\ \E s \in Sessions, p \in Persons, b \in BOOLEAN :
        \/ holder = [x \in Sessions |-> NoPerson] /\ stored = NoToken /\ bio = FALSE
        \/ holder = [x \in Sessions |-> IF x = s THEN p ELSE NoPerson] /\ stored = s /\ bio = b
    /\ alive = {s \in Sessions : holder[s] # NoPerson}
    /\ active = NoToken
    /\ screen = [EmptyScreen EXCEPT !.restoring = TRUE]
    /\ attempt = 0
    /\ restore = [NoRestore EXCEPT !.step = "read"]
    /\ try = [t \in Tries |-> NoTry]
    /\ logout = "none" /\ update = NoPerson
    /\ starts = 0
    /\ dropped = {} /\ opened = {} /\ overtaken = FALSE

Trying == \E t \in Tries : try[t].step # "none"
Settling == \E t \in Tries : try[t].step \in {"storing", "protecting"}
Restoring == restore.step # "none"

-----------------------------------------------------------------------------
(* _restoreRememberedSession.                                              *)

\* The token is read; whoever is already signing in is left alone.
ReadStored ==
    /\ restore.step = "read"
    /\ LET left == (~restore.forced /\ screen.busy)
                     \/ screen.challenge # NoPerson \/ screen.user # NoPerson IN
       \/ left /\ restore' = NoRestore /\ UNCHANGED screen
       \/ ~left /\ stored = NoToken /\ restore' = NoRestore /\ screen' = EmptyScreen
       \/ /\ ~left /\ stored # NoToken
          /\ restore' = [restore EXCEPT !.step = "protection", !.token = stored]
          /\ UNCHANGED screen
    /\ UNCHANGED <<serverSide, store, active, attempt, try, logout, update, starts, history>>

ReadProtection ==
    /\ restore.step = "protection"
    /\ restore' = [restore EXCEPT !.step = IF restore.forced \/ bio THEN "prompt" ELSE "reread"]
    /\ opened' = IF restore.forced \/ bio THEN opened ELSE opened \cup {restore.token}
    /\ UNCHANGED <<serverSide, store, active, screen, attempt, try, logout, update, starts, dropped, overtaken>>

\* The device asks for a finger or its code, or cannot.
AskLocally ==
    /\ restore.step = "prompt"
    /\ \/ /\ restore' = [restore EXCEPT !.step = "reread"]
          /\ opened' = opened \cup {restore.token}
          /\ UNCHANGED screen
       \/ /\ restore' = NoRestore
          /\ \/ screen' = [EmptyScreen EXCEPT !.locked = TRUE]
             \/ screen' = [screen EXCEPT !.busy = FALSE, !.locked = bio]
          /\ UNCHANGED opened
    /\ UNCHANGED <<serverSide, store, active, attempt, try, logout, update, starts, dropped, overtaken>>

ActivateStored ==
    /\ restore.step = "reread"
    /\ LET left == (~restore.forced /\ (screen.busy \/ screen.challenge # NoPerson)) \/ stored # restore.token IN
       IF left THEN restore' = NoRestore /\ UNCHANGED active
               ELSE restore' = [restore EXCEPT !.step = "session"] /\ active' = restore.token
    /\ UNCHANGED <<serverSide, store, screen, attempt, try, logout, update, starts, history>>

\* GET /auth/session answers for the token it was asked with, or fails.
SessionAnswers ==
    /\ restore.step = "session"
    /\ \/ /\ restore.token \in alive
          /\ restore' = NoRestore
          /\ IF ~restore.forced /\ (screen.busy \/ screen.challenge # NoPerson)
             THEN UNCHANGED screen
             ELSE screen' = [EmptyScreen EXCEPT !.user = holder[restore.token]]
          /\ UNCHANGED <<store, active>>
       \/ /\ restore' = [restore EXCEPT !.step = "ending"]
          /\ active' = NoToken /\ stored' = NoToken /\ bio' = FALSE
          /\ UNCHANGED screen
    /\ UNCHANGED <<serverSide, attempt, try, logout, update, starts, history>>

RestoreEnds ==
    /\ restore.step = "ending"
    /\ restore' = NoRestore
    /\ screen' = EmptyScreen
    /\ UNCHANGED <<serverSide, store, active, attempt, try, logout, update, starts, history>>

\* unlockProtectedSession, from the sheet.
Unlock ==
    /\ ~Restoring /\ screen.user = NoPerson /\ ~screen.busy /\ screen.challenge = NoPerson
    /\ screen.locked \/ (stored # NoToken /\ bio)
    /\ screen' = [screen EXCEPT !.busy = TRUE]
    /\ restore' = [NoRestore EXCEPT !.step = "read", !.forced = TRUE]
    /\ overtaken' = (overtaken \/ Settling)
    /\ UNCHANGED <<serverSide, store, active, attempt, try, logout, update, starts, dropped, opened>>

\* forgetProtectedSession.
Forget ==
    /\ screen.locked /\ ~screen.busy
    /\ active' = NoToken /\ stored' = NoToken /\ bio' = FALSE
    /\ screen' = EmptyScreen
    /\ overtaken' = (overtaken \/ Restoring \/ Settling)
    /\ UNCHANGED <<serverSide, attempt, restore, try, logout, update, starts, dropped, opened>>

-----------------------------------------------------------------------------
(* _authenticate: login, register and verifyMfa.                           *)

\* The sheet's form, or the form of the second factor for its challenge.
StartTry(t, p, remember) ==
    /\ try[t].step = "none" /\ attempt < MaxAttempts
    /\ screen.user = NoPerson /\ ~screen.busy /\ screen.challenge \in {NoPerson, p}
    /\ screen' = [screen EXCEPT !.busy = TRUE]
    /\ attempt' = attempt + 1
    /\ try' = [try EXCEPT ![t] =
            [step |-> IF screen.challenge = p THEN "verifying" ELSE "calling", person |-> p,
             number |-> attempt + 1, token |-> NoToken, remember |-> remember]]
    /\ overtaken' = (overtaken \/ Restoring \/ Settling)
    /\ UNCHANGED <<serverSide, store, active, restore, logout, update, starts, dropped, opened>>

\* The server accepts the password; a session is issued unless a second factor
\* must come first.
ServerAccepts(t, s) ==
    /\ try[t].step \in {"calling", "verifying"} /\ try[t].token = NoToken
    /\ holder[s] = NoPerson
    /\ try[t].step = "calling" => try[t].person \notin Guarded
    /\ holder' = [holder EXCEPT ![s] = try[t].person]
    /\ alive' = alive \cup {s}
    /\ try' = [try EXCEPT ![t].token = s, ![t].step = "answered"]
    /\ UNCHANGED <<store, active, screen, attempt, restore, logout, update, starts, history>>

\* attempt == _authAttempt
Current(t) == try[t].number = attempt

\* The answer with the session arrives: setToken puts it to use.
TakeSession(t) ==
    /\ try[t].step = "answered"
    /\ IF Current(t)
       THEN /\ active' = try[t].token
            /\ opened' = opened \cup {try[t].token}
            /\ try' = [try EXCEPT ![t].step = "storing"]
       ELSE /\ try' = [try EXCEPT ![t] = NoTry]
            /\ UNCHANGED <<active, opened>>
    /\ dropped' = IF try[t].number = attempt THEN dropped ELSE dropped \cup {try[t].token}
    /\ UNCHANGED <<serverSide, store, screen, attempt, restore, logout, update, starts, overtaken>>

\* The answer is a challenge, or no.
TakeOther(t) ==
    /\ try[t].step \in {"calling", "verifying"}
    /\ try' = [try EXCEPT ![t] = NoTry]
    /\ IF ~Current(t) THEN UNCHANGED screen
       ELSE \/ screen' = [screen EXCEPT !.busy = FALSE]
            \/ /\ try[t].step = "calling" /\ try[t].person \in Guarded
               /\ screen' = [EmptyScreen EXCEPT !.challenge = try[t].person]
    /\ UNCHANGED <<serverSide, store, active, attempt, restore, logout, update, starts, history>>

StoreToken(t) ==
    /\ try[t].step = "storing"
    /\ stored' = IF try[t].remember THEN try[t].token ELSE NoToken
    /\ try' = [try EXCEPT ![t].step = "protecting"]
    /\ UNCHANGED <<serverSide, bio, active, screen, attempt, restore, logout, update, starts, history>>

\* _setBiometricPreference, and the user is shown.
ShowUser(t) ==
    /\ try[t].step = "protecting"
    /\ bio' \in {FALSE, try[t].remember}
    /\ screen' = [EmptyScreen EXCEPT !.user = try[t].person]
    /\ try' = [try EXCEPT ![t] = NoTry]
    /\ UNCHANGED <<serverSide, stored, active, attempt, restore, logout, update, starts, history>>

\* The sheet is closed, by whatever means and whatever it shows: cancelMfa.
CloseSheet ==
    /\ attempt < MaxAttempts
    /\ screen.user = NoPerson
    /\ attempt' = attempt + 1
    /\ screen' = EmptyScreen
    /\ overtaken' = (overtaken \/ Restoring \/ Settling)
    /\ UNCHANGED <<serverSide, store, active, restore, try, logout, update, starts, dropped, opened>>

-----------------------------------------------------------------------------
(* Signed in.                                                              *)

StartLogout ==
    /\ screen.user # NoPerson /\ logout = "none"
    /\ logout' = "calling"
    /\ screen' = [screen EXCEPT !.busy = TRUE]
    /\ overtaken' = (overtaken \/ Restoring \/ update # NoPerson)
    /\ UNCHANGED <<serverSide, store, active, attempt, restore, try, update, starts, dropped, opened>>

\* The server ends the session, or cannot be reached; the phone forgets it.
LogoutAnswered ==
    /\ logout = "calling"
    /\ alive' \in {alive, alive \ {active}}
    /\ active' = NoToken /\ stored' = NoToken /\ bio' = FALSE
    /\ logout' = "ending"
    /\ UNCHANGED <<holder, screen, attempt, restore, try, update, starts, history>>

LogoutEnds ==
    /\ logout = "ending"
    /\ logout' = "none"
    /\ screen' = EmptyScreen
    /\ UNCHANGED <<serverSide, store, active, attempt, restore, try, update, starts, history>>

\* setBiometricProtection, once the device has agreed.
Protect ==
    /\ screen.user # NoPerson /\ ~screen.busy
    /\ bio' \in {FALSE, stored # NoToken}
    /\ bio' # bio
    /\ UNCHANGED <<serverSide, stored, active, screen, attempt, restore, try, logout, update, starts, history>>

SaveProfile ==
    /\ screen.user # NoPerson /\ update = NoPerson /\ active \in alive
    /\ update' = holder[active]
    /\ overtaken' = (overtaken \/ logout # "none")
    /\ UNCHANGED <<serverSide, store, active, screen, attempt, restore, try, logout, starts, dropped, opened>>

\* syncProfileUser shows whoever the answer names.
ProfileSaved ==
    /\ update # NoPerson
    /\ update' = NoPerson
    /\ screen' = [screen EXCEPT !.user = update]
    /\ UNCHANGED <<serverSide, store, active, attempt, restore, try, logout, starts, history>>

-----------------------------------------------------------------------------
(* From outside.                                                           *)

Revoked(s) ==
    /\ s \in alive
    /\ alive' = alive \ {s}
    /\ UNCHANGED <<holder, store, active, screen, attempt, restore, try, logout, update, starts, history>>

\* The app is killed and started again.
AppStart ==
    /\ starts < MaxAppStarts
    /\ starts' = starts + 1
    /\ active' = NoToken
    /\ screen' = [EmptyScreen EXCEPT !.restoring = TRUE]
    /\ attempt' = 0
    /\ restore' = [NoRestore EXCEPT !.step = "read"]
    /\ try' = [t \in Tries |-> NoTry]
    /\ logout' = "none" /\ update' = NoPerson
    /\ opened' = {} /\ overtaken' = FALSE
    /\ UNCHANGED <<serverSide, store, dropped>>

PhoneNext ==
    \/ ReadStored \/ ReadProtection \/ AskLocally \/ ActivateStored
    \/ SessionAnswers \/ RestoreEnds \/ Unlock \/ Forget
    \/ \E t \in Tries, p \in Persons, remember \in BOOLEAN : StartTry(t, p, remember)
    \/ \E t \in Tries, s \in Sessions : ServerAccepts(t, s)
    \/ \E t \in Tries : TakeSession(t) \/ TakeOther(t) \/ StoreToken(t) \/ ShowUser(t)
    \/ CloseSheet
    \/ StartLogout \/ LogoutAnswered \/ LogoutEnds \/ Protect \/ SaveProfile \/ ProfileSaved
    \/ \E s \in Sessions : Revoked(s)
    \/ AppStart

-----------------------------------------------------------------------------

PhoneTypes ==
    /\ stored \in Sessions \cup {NoToken} /\ active \in Sessions \cup {NoToken}
    /\ screen.user \in Persons \cup {NoPerson} /\ screen.challenge \in Persons \cup {NoPerson}
    /\ screen.user = NoPerson \/ screen.challenge = NoPerson \/ overtaken

\* The session of a login that was given up before its answer came is neither
\* used nor kept.
GivenUpStaysUnused == active \notin dropped /\ stored \notin dropped

\* A protected session is not used before the device has let its owner in:
\* what the client sends was signed in to by this run of the app, unlocked, or
\* kept without protection.
UsedOnlyWhenOpened == active # NoToken => active \in opened

\* Unless something overtook a restore or a profile update, the user shown
\* owns the session in use, and a phone at rest that shows nobody uses none.
ScreenTellsTheTruth ==
    ~overtaken =>
        /\ screen.user # NoPerson /\ logout # "ending" =>
               active # NoToken /\ holder[active] = screen.user
        /\ screen.user = NoPerson /\ ~Restoring /\ ~Trying => active = NoToken

ScreenInvariant ==
    PhoneTypes /\ GivenUpStaysUnused /\ UsedOnlyWhenOpened /\ ScreenTellsTheTruth

=============================================================================
