-------------------------- MODULE AccountSecurity --------------------------
(***************************************************************************)
(* Accounts, their sessions, the second factor of the operators and the    *)
(* administration of both.  A handler is one transaction, and one step     *)
(* here where it works on locked rows; a login, a password reset and two   *)
(* of the administrative operations read rows they have not locked, and    *)
(* act on them in a second step, after whatever committed in between.      *)
(***************************************************************************)
EXTENDS Integers, FiniteSets

CONSTANTS
    Accounts, Roots,        \* accounts, and those that begin as superusers
    Requests,               \* requests in flight at once
    SessionSlots, ChallengeSlots, ResetLinks,   \* rows of the three tables
    NoAccount, NoLink,
    MaxTimestep,            \* bound on the timesteps of TOTP codes
    MaxAccountEdits         \* bound on operations that change an account

ASSUME AccountAssumption ==
    /\ Roots \subseteq Accounts /\ Roots # {}
    /\ NoAccount \notin Accounts /\ NoLink \notin ResetLinks
    /\ MaxTimestep \in Nat \ {0}
    /\ MaxAccountEdits \in Nat

Roles == {"user", "staff", "super"}

\* A row of gotrendlabs_users; pw counts the passwords the account has had.
AccountRow == [role : Roles, active : BOOLEAN, pw : 0..MaxAccountEdits]

\* A live row of gotrendlabs_auth_sessions, or a free slot.  pw, role and gen
\* are what its login saw of the account and of its factor; it is late, and the
\* first two do not matter, if the account had changed when it was opened.
SessionRow ==
    [user : Accounts \cup {NoAccount}, mfa : BOOLEAN, late : BOOLEAN,
     pw : 0..MaxAccountEdits, role : Roles, gen : 0..MaxAccountEdits]

\* An open row of gotrendlabs_mfa_challenges.
ChallengeRow ==
    [user : Accounts \cup {NoAccount}, purpose : {"enrollment", "verify"},
     pw : 0..MaxAccountEdits]

\* The factors and recovery codes of an account: a factor whose secret was
\* shown and not yet confirmed, the number of confirmed ones, the last
\* timestep the newest factor accepted, whether recovery codes are left, and
\* how often an administrator reset it all.
FactorRow ==
    [staged : BOOLEAN, confirmed : Nat, last : 0..MaxTimestep,
     codes : BOOLEAN, gen : 0..MaxAccountEdits]

LinkRow == [state : {"new", "open", "used"}, user : Accounts \cup {NoAccount}, uses : Nat]

\* What a request read before the step that acts on it.
RequestRow ==
    [op : {"idle", "login", "reset", "roles", "deactivate"},
     actor : Accounts \cup {NoAccount}, user : Accounts \cup {NoAccount},
     role : Roles, pw : 0..MaxAccountEdits, link : ResetLinks \cup {NoLink}]

VARIABLES
    account, session, challenge, factor, link, request,
    enrolledTwice,  \* accounts with two enrollments open at once (history)
    linkShared,     \* links that two requests held at once (history)
    accountEdits

securityVars ==
    <<account, session, challenge, factor, link, request, enrolledTwice, linkShared, accountEdits>>

NoSession ==
    [user |-> NoAccount, mfa |-> FALSE, late |-> FALSE, pw |-> 0, role |-> "user", gen |-> 0]
NoChallenge == [user |-> NoAccount, purpose |-> "verify", pw |-> 0]
NoFactor == [staged |-> FALSE, confirmed |-> 0, last |-> 0, codes |-> FALSE, gen |-> 0]
Idle ==
    [op |-> "idle", actor |-> NoAccount, user |-> NoAccount, role |-> "user", pw |-> 0,
     link |-> NoLink]

SecurityInit ==
    /\ account = [u \in Accounts |->
                    [role |-> IF u \in Roots THEN "super" ELSE "user", active |-> TRUE, pw |-> 0]]
    /\ session = [s \in SessionSlots |-> NoSession]
    /\ challenge = [c \in ChallengeSlots |-> NoChallenge]
    /\ factor = [u \in Accounts |-> NoFactor]
    /\ link = [l \in ResetLinks |-> [state |-> "new", user |-> NoAccount, uses |-> 0]]
    /\ request = [r \in Requests |-> Idle]
    /\ enrolledTwice = {}
    /\ linkShared = {}
    /\ accountEdits = 0

Edited == accountEdits < MaxAccountEdits /\ accountEdits' = accountEdits + 1

IsAdmin(u) == account[u].role # "user"
LiveSessions(u) == {s \in SessionSlots : session[s].user = u}

\* UPDATE ... SET revoked_at WHERE user_id = ... AND revoked_at IS NULL
WithoutSessions(u) ==
    [s \in SessionSlots |-> IF session[s].user = u THEN NoSession ELSE session[s]]

\* _current_user and _current_staff_user
SignedIn(u) == account[u].active /\ LiveSessions(u) # {}
StaffSession(s) ==
    LET u == session[s].user
    IN  u # NoAccount /\ account[u].active /\ IsAdmin(u) /\ session[s].mfa
Operator(u) == \E s \in LiveSessions(u) : StaffSession(s)
Superuser(u) == Operator(u) /\ account[u].role = "super"

-----------------------------------------------------------------------------
(* Login and the second factor.                                            *)

\* The password is checked on a row read without a lock.
BeginLogin(r, u) ==
    /\ request[r] = Idle
    /\ account[u].active
    /\ request' = [request EXCEPT ![r] = [Idle EXCEPT
                     !.op = "login", !.user = u, !.role = account[u].role, !.pw = account[u].pw]]
    /\ UNCHANGED <<account, session, challenge, factor, link, enrolledTwice, linkShared, accountEdits>>

OpenSession(s, u, pw, role, mfa) ==
    /\ session[s] = NoSession
    /\ session' = [session EXCEPT ![s] =
         IF [role |-> role, active |-> TRUE, pw |-> pw] # account[u]
         THEN [NoSession EXCEPT !.user = u, !.mfa = mfa, !.late = TRUE, !.gen = factor[u].gen]
         ELSE [user |-> u, mfa |-> mfa, late |-> FALSE, pw |-> pw, role |-> role,
               gen |-> factor[u].gen]]

\* An interrupted enrollment is given up; its secret was shown only once.
Unstaged(u) == [factor EXCEPT ![u].staged = FALSE]

Purpose(u) == IF factor[u].confirmed = 0 THEN "enrollment" ELSE "verify"

Enrolling(u) ==
    {c \in ChallengeSlots : challenge[c].user = u /\ challenge[c].purpose = "enrollment"}

IssueChallenge(c, u, pw) ==
    /\ challenge[c] = NoChallenge
    /\ challenge' = [challenge EXCEPT ![c] =
         [user |-> u, purpose |-> Purpose(u), pw |-> pw]]
    /\ factor' = Unstaged(u)
    /\ enrolledTwice' =
         IF factor[u].confirmed = 0 /\ Enrolling(u) # {} THEN enrolledTwice \cup {u} ELSE enrolledTwice

\* _mfa_login_or_challenge decides by the role the login read.
FinishLogin(r) ==
    LET q == request[r] IN
    /\ q.op = "login"
    /\ request' = [request EXCEPT ![r] = Idle]
    /\ \/ /\ q.role = "user"
          /\ \E s \in SessionSlots : OpenSession(s, q.user, q.pw, q.role, FALSE)
          /\ UNCHANGED <<challenge, factor, enrolledTwice>>
       \/ /\ q.role # "user"
          /\ \E c \in ChallengeSlots : IssueChallenge(c, q.user, q.pw)
          /\ UNCHANGED session
    /\ UNCHANGED <<account, link, linkShared, accountEdits>>

StagedFactor(f) == [f EXCEPT !.staged = TRUE, !.last = 0]

\* The statement locks the challenge and the user's row.
EnrollFactor(c) ==
    LET u == challenge[c].user IN
    /\ u # NoAccount
    /\ challenge[c].purpose = "enrollment"
    /\ IsAdmin(u)
    /\ ~factor[u].staged
    /\ factor' = [factor EXCEPT ![u] = StagedFactor(@)]
    /\ UNCHANGED <<account, session, challenge, link, request, enrolledTwice, linkShared, accountEdits>>

\* The newest factor that was not revoked: the staged one, if there is one.
HasFactor(u) == factor[u].staged \/ factor[u].confirmed > 0

\* A code confirms a staged factor; only a first confirmation makes codes.
AcceptedTotp(f, t) ==
    [f EXCEPT !.staged = FALSE, !.last = t, !.codes = @ \/ f.staged,
              !.confirmed = IF f.staged THEN @ + 1 ELSE @]

\* A recovery code leaves the factor as it is; if that one is not confirmed
\* the handler hands out new codes again.
AcceptedRecovery(f) == [f EXCEPT !.codes = f.staged]

\* A wrong code changes nothing: the refusal rolls back what it recorded.
VerifyMfa(c) ==
    LET u == challenge[c].user IN
    /\ u # NoAccount
    /\ HasFactor(u)
    /\ \/ \E t \in 1..MaxTimestep :
            t > factor[u].last /\ factor' = [factor EXCEPT ![u] = AcceptedTotp(@, t)]
       \/ factor[u].codes /\ factor' = [factor EXCEPT ![u] = AcceptedRecovery(@)]
    /\ \E s \in SessionSlots : OpenSession(s, u, challenge[c].pw, account[u].role, TRUE)
    /\ challenge' = [challenge EXCEPT ![c] = NoChallenge]
    /\ UNCHANGED <<account, link, request, enrolledTwice, linkShared, accountEdits>>

ChallengeExpires(c) ==
    /\ challenge[c] # NoChallenge
    /\ challenge' = [challenge EXCEPT ![c] = NoChallenge]
    /\ UNCHANGED <<account, session, factor, link, request, enrolledTwice, linkShared, accountEdits>>

\* Logout, or fourteen days.
SessionEnds(s) ==
    /\ session[s] # NoSession
    /\ session' = [session EXCEPT ![s] = NoSession]
    /\ UNCHANGED <<account, challenge, factor, link, request, enrolledTwice, linkShared, accountEdits>>

-----------------------------------------------------------------------------
(* Password resets.                                                        *)

Closed(row) == [row EXCEPT !.state = "used", !.user = NoAccount]

\* By the user, or for the user by an operator; the older links are closed.
ResetAllowed(u) ==
    account[u].active

IssueReset(u, l) ==
    /\ ResetAllowed(u)
    /\ link[l].state = "new"
    /\ link' = [k \in ResetLinks |->
                  CASE k = l -> [state |-> "open", user |-> u, uses |-> 0]
                    [] link[k].state = "open" /\ link[k].user = u -> Closed(link[k])
                    [] OTHER -> link[k]]
    /\ UNCHANGED <<account, session, challenge, factor, request, enrolledTwice, linkShared, accountEdits>>

\* The link is read without a lock.
BeginReset(r, l) ==
    /\ request[r] = Idle
    /\ link[l].state = "open"
    /\ account[link[l].user].active
    /\ request' = [request EXCEPT ![r] = [Idle EXCEPT
                     !.op = "reset", !.user = link[l].user, !.link = l]]
    /\ linkShared' = IF \E q \in Requests : request[q].link = l
                     THEN linkShared \cup {l} ELSE linkShared
    /\ UNCHANGED <<account, session, challenge, factor, link, enrolledTwice, accountEdits>>

LinkAfterUse(row) == [row EXCEPT !.state = "used", !.user = NoAccount, !.uses = @ + 1]

\* New password, all sessions revoked, the link used.  Open challenges stay.
FinishReset(r) ==
    LET q == request[r] IN
    /\ q.op = "reset"
    /\ Edited
    /\ account' = [account EXCEPT ![q.user].pw = @ + 1]
    /\ session' = WithoutSessions(q.user)
    /\ link' = [link EXCEPT ![q.link] = LinkAfterUse(@)]
    /\ request' = [request EXCEPT ![r] = Idle]
    /\ UNCHANGED <<challenge, factor, enrolledTwice, linkShared>>

LinkExpires(l) ==
    /\ link[l].state = "open"
    /\ link' = [link EXCEPT ![l] = Closed(@)]
    /\ UNCHANGED <<account, session, challenge, factor, request, enrolledTwice, linkShared, accountEdits>>

-----------------------------------------------------------------------------
(* The account itself and its administration.                              *)

\* Account deletion by its owner: nothing asks who else is a superuser.
DeleteAccount(u) ==
    /\ SignedIn(u)
    /\ Edited
    /\ account' = [account EXCEPT ![u].active = FALSE]
    /\ session' = WithoutSessions(u)
    /\ UNCHANGED <<challenge, factor, link, request, enrolledTwice, linkShared>>

\* _require_admin_target, on a row read without a lock.
BeginDeactivate(r, actor, u) ==
    /\ request[r] = Idle
    /\ Operator(actor)
    /\ u # actor
    /\ account[u].role # "super"
    /\ request' = [request EXCEPT ![r] = [Idle EXCEPT
                     !.op = "deactivate", !.actor = actor, !.user = u]]
    /\ UNCHANGED <<account, session, challenge, factor, link, enrolledTwice, linkShared, accountEdits>>

FinishDeactivate(r) ==
    LET u == request[r].user IN
    /\ request[r].op = "deactivate"
    /\ Edited
    /\ account' = [account EXCEPT ![u].active = FALSE]
    /\ session' = WithoutSessions(u)
    /\ request' = [request EXCEPT ![r] = Idle]
    /\ UNCHANGED <<challenge, factor, link, enrolledTwice, linkShared>>

Reactivate(actor, u) ==
    /\ Operator(actor)
    /\ u # actor
    /\ Edited
    /\ account' = [account EXCEPT ![u].active = TRUE]
    /\ UNCHANGED <<session, challenge, factor, link, request, enrolledTwice, linkShared>>

RevokeSessions(actor, u) ==
    /\ Operator(actor)
    /\ u # actor
    /\ session' = WithoutSessions(u)
    /\ UNCHANGED <<account, challenge, factor, link, request, enrolledTwice, linkShared, accountEdits>>

ActiveSupers == {u \in Accounts : account[u].role = "super" /\ account[u].active}

\* The last superuser is looked for among the other rows, unlocked too.
BeginRoles(r, actor, u, role) ==
    /\ request[r] = Idle
    /\ Superuser(actor)
    /\ u # actor
    /\ account[u].role = "super" /\ role # "super" => ActiveSupers \ {u} # {}
    /\ request' = [request EXCEPT ![r] = [Idle EXCEPT
                     !.op = "roles", !.actor = actor, !.user = u, !.role = role]]
    /\ UNCHANGED <<account, session, challenge, factor, link, enrolledTwice, linkShared, accountEdits>>

FinishRoles(r) ==
    LET q == request[r] IN
    /\ q.op = "roles"
    /\ Edited
    /\ account' = [account EXCEPT ![q.user].role = q.role]
    /\ session' = WithoutSessions(q.user)
    /\ request' = [request EXCEPT ![r] = Idle]
    /\ UNCHANGED <<challenge, factor, link, enrolledTwice, linkShared>>

AfterRecovery_KeepsSessions(u) == session
AfterRecovery(u) == WithoutSessions(u)

\* Factors, recovery codes, challenges and sessions go together.
RecoverMfa(actor, u) ==
    /\ Superuser(actor)
    /\ u # actor
    /\ IsAdmin(u)
    /\ Edited
    /\ factor' = [factor EXCEPT ![u] = [NoFactor EXCEPT !.gen = factor[u].gen + 1]]
    /\ challenge' = [c \in ChallengeSlots |->
                       IF challenge[c].user = u THEN NoChallenge ELSE challenge[c]]
    /\ session' = AfterRecovery(u)
    /\ UNCHANGED <<account, link, request, enrolledTwice, linkShared>>

\* The operator's command line sets a superuser's password.
BootstrapPassword(u) ==
    /\ u \in ActiveSupers
    /\ Edited
    /\ account' = [account EXCEPT ![u].pw = @ + 1]
    /\ session' = WithoutSessions(u)
    /\ UNCHANGED <<challenge, factor, link, request, enrolledTwice, linkShared>>

\* The request dies, or the database refuses it.
RequestFails(r) ==
    /\ request[r] # Idle
    /\ request' = [request EXCEPT ![r] = Idle]
    /\ UNCHANGED <<account, session, challenge, factor, link, enrolledTwice, linkShared, accountEdits>>

SecurityNext ==
    \/ \E r \in Requests, u \in Accounts : BeginLogin(r, u)
    \/ \E r \in Requests, l \in ResetLinks : BeginReset(r, l)
    \/ \E r \in Requests, a, u \in Accounts : BeginDeactivate(r, a, u)
    \/ \E r \in Requests, a, u \in Accounts, role \in Roles : BeginRoles(r, a, u, role)
    \/ \E r \in Requests :
         FinishLogin(r) \/ FinishReset(r) \/ FinishDeactivate(r) \/ FinishRoles(r) \/ RequestFails(r)
    \/ \E c \in ChallengeSlots :
         EnrollFactor(c) \/ VerifyMfa(c) \/ ChallengeExpires(c)
    \/ \E s \in SessionSlots : SessionEnds(s)
    \/ \E u \in Accounts, l \in ResetLinks : IssueReset(u, l)
    \/ \E l \in ResetLinks : LinkExpires(l)
    \/ \E u \in Accounts : DeleteAccount(u) \/ BootstrapPassword(u)
    \/ \E a, u \in Accounts : Reactivate(a, u) \/ RevokeSessions(a, u) \/ RecoverMfa(a, u)

-----------------------------------------------------------------------------
(* Properties.                                                             *)

\* Rows keep their types; recovery codes exist only after a confirmation.
SecurityTypeOK ==
    /\ account \in [Accounts -> AccountRow]
    /\ session \in [SessionSlots -> SessionRow]
    /\ challenge \in [ChallengeSlots -> ChallengeRow]
    /\ factor \in [Accounts -> FactorRow]
    /\ link \in [ResetLinks -> LinkRow]
    /\ request \in [Requests -> RequestRow]
    /\ enrolledTwice \subseteq Accounts
    /\ linkShared \subseteq ResetLinks
    /\ \A u \in Accounts : factor[u].codes => factor[u].confirmed > 0

\* A session was opened with the account's present password, role and state,
\* unless the account changed between its password check and its opening: no
\* reset, role change or deactivation leaves an older session behind.
SessionsMatchAccount ==
    \A s \in SessionSlots :
      LET row == session[s]
      IN  row.user # NoAccount /\ ~row.late =>
            account[row.user] = [role |-> row.role, active |-> TRUE, pw |-> row.pw]

\* Whatever logins and role changes cross each other, a session the
\* administration accepts proved a factor that no recovery has revoked since
\* (_current_staff_user, admin_recover_user_mfa).
StaffSessionsProved ==
    \A s \in SessionSlots :
      StaffSession(s) =>
        /\ session[s].gen = factor[session[s].user].gen
        /\ HasFactor(session[s].user)

\* An account has one confirmed factor, unless two of its logins had an
\* enrollment open at once.
OneFactor == \A u \in Accounts \ enrolledTwice : factor[u].confirmed <= 1

\* A reset link sets a password once, unless two requests held it at once.
LinkUsedOnce == \A l \in ResetLinks \ linkShared : link[l].uses <= 1

\* Sessions, factors and links are what the account they name stands for,
\* however logins, resets and administration overlap.
SecurityInvariant ==
    SecurityTypeOK /\ SessionsMatchAccount /\ StaffSessionsProved /\ OneFactor /\ LinkUsedOnce

=============================================================================
