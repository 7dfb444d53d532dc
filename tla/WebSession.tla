----------------------------- MODULE WebSession -----------------------------
(***************************************************************************)
(* Who is signed in on a browser: the session of the website, a row that   *)
(* holds the token of an API session and a copy of its user, a second      *)
(* factor or a social login half done and a referral code                  *)
(* (accounts/views.py, accounts/session.py, core/middleware.py).           *)
(*                                                                         *)
(* A request loads the row whole when it begins and, if it changed its     *)
(* copy, saves it whole when it ends.  In between it calls the API, so two *)
(* requests of one browser, two tabs or an image and a page, overlap and   *)
(* the later save takes the earlier one back.                              *)
(***************************************************************************)
EXTENDS Integers, FiniteSets

CONSTANTS
    Visitors,      \* accounts this browser signs in to
    Careful,       \* the ones that have a second factor
    Tokens,        \* API sessions that may be issued
    Visits,        \* requests in flight
    Rows,          \* rows of django_session
    NoWebToken, NoVisitor, NoRow,
    MaxVisits      \* requests in all (bound)

ASSUME VisitorAssumption ==
    Careful \subseteq Visitors /\ NoWebToken \notin Tokens /\ NoVisitor \notin Visitors /\ NoRow \notin Rows

VARIABLES
    owner,         \* API: token |-> its account, NoVisitor before it is issued
    living,        \* API: tokens neither revoked nor expired
    row,           \* django_session; unused rows are blank
    cookie,        \* the row the browser names
    visit,         \* requests in flight
    visits,        \* bound
    (* history *)
    left,          \* tokens that were not signed out of and that no row was to keep
    ended,         \* tokens ended by something else than this browser
    overlap        \* a save took back what another request had saved

webVars == <<owner, living, row, cookie, visit, visits, left, ended, overlap>>

\* challenge: the account whose second factor is awaited; pending: the account
\* whose social login awaits an e-mail address.
BlankRow ==
    [token |-> NoWebToken, user |-> NoVisitor, challenge |-> NoVisitor,
     social |-> FALSE, pending |-> NoVisitor]

\* "login" is the registration's view too; "account" a profile update, the
\* confirmation of an e-mail address and the refreshing of an operator's role;
\* "capture" a page that notes a referral code.
Ops == {"login", "social start", "social", "email", "enroll", "verify",
        "account", "logout", "delete", "consent", "capture"}

NoVisit ==
    [op |-> "none", row |-> NoRow, copy |-> BlankRow, who |-> NoVisitor, api |-> "idle",
     issued |-> NoWebToken, stale |-> FALSE]

WebInit ==
    /\ owner = [t \in Tokens |-> NoVisitor] /\ living = {}
    /\ row = [r \in Rows |-> BlankRow] /\ cookie = NoRow
    /\ visit = [v \in Visits |-> NoVisit] /\ visits = 0
    /\ left = {} /\ ended = {} /\ overlap = FALSE

Authenticated(c) == c.token # NoWebToken /\ c.user # NoVisitor

-----------------------------------------------------------------------------
(* A request begins: its copy of the row decides whether the view goes on. *)

\* Login and registration send home who is signed in; the second factor and
\* the return from a provider ask only for what was begun.
MaySignIn(c) == ~Authenticated(c)
Admitted(op, c, who) ==
    CASE op = "login" -> MaySignIn(c)
      [] op = "social" -> c.social
      [] op = "email" -> c.pending = who
      [] op \in {"enroll", "verify"} -> c.challenge = who
      [] op \in {"account", "delete", "consent"} -> Authenticated(c) /\ c.user = who
      [] OTHER -> TRUE

\* A referral code is noted, and nobody is signed out, without the API.
NeedsNoCall(op, c) == op = "capture" \/ (op = "logout" /\ c.token = NoWebToken)

BeginVisit(v, op, who) ==
    LET c == IF cookie = NoRow THEN BlankRow ELSE row[cookie] IN
    /\ visit[v].op = "none" /\ visits < MaxVisits /\ visits' = visits + 1
    /\ op \in {"social start", "logout", "capture"} => who = c.user
    /\ Admitted(op, c, who)
    /\ visit' = [visit EXCEPT ![v] =
            [NoVisit EXCEPT !.op = op, !.row = cookie, !.copy = c, !.who = who,
                            !.api = IF NeedsNoCall(op, c) THEN "answered" ELSE "calling"]]
    /\ UNCHANGED <<owner, living, row, cookie, left, ended, overlap>>

-----------------------------------------------------------------------------
(* The API.                                                                *)

Became(v, step) == visit' = [visit EXCEPT ![v].api = step]

\* A session is opened: at once, or after the second factor.
Opens(v) ==
    LET x == visit[v] IN
    \/ x.op = "verify"
    \/ x.op \in {"login", "social", "email"} /\ x.who \notin Careful

ApiOpens(v, t) ==
    /\ visit[v].api = "calling" /\ Opens(v) /\ owner[t] = NoVisitor
    /\ owner' = [owner EXCEPT ![t] = visit[v].who] /\ living' = living \cup {t}
    /\ visit' = [visit EXCEPT ![v].api = "answered", ![v].issued = t]
    /\ UNCHANGED <<visits, row, cookie, left, ended, overlap>>

\* A challenge is issued, a provider's page is named, a factor is enrolled, or an
\* e-mail address is asked for first.
ApiGoesOn(v) ==
    /\ visit[v].api = "calling"
    /\ \/ visit[v].op \in {"social start", "enroll"} /\ Became(v, "answered")
       \/ visit[v].op \in {"login", "social", "email"} /\ visit[v].who \in Careful /\ Became(v, "challenge")
       \/ visit[v].op = "social" /\ Became(v, "profile")
    /\ UNCHANGED <<visits, owner, living, row, cookie, left, ended, overlap>>

\* Who the token belongs to is read, or something of theirs is written.
Unauthorized(v) == visit[v].copy.token \notin living
ApiAnswersOwner(v) ==
    /\ visit[v].api = "calling" /\ visit[v].op \in {"account", "consent"}
    /\ Became(v, IF Unauthorized(v) THEN "unauthorized" ELSE "answered")
    /\ UNCHANGED <<visits, owner, living, row, cookie, left, ended, overlap>>

\* The token is revoked; a deleted account loses every session.
ApiEnds(v) ==
    LET t == visit[v].copy.token IN
    /\ visit[v].api = "calling" /\ visit[v].op \in {"logout", "delete"}
    /\ living' = IF visit[v].op = "logout" \/ t \notin living
                 THEN living \ {t} ELSE {s \in living : owner[s] # owner[t]}
    /\ Became(v, "answered")
    /\ ended' = ended \cup ((living \ living') \ {t})
    /\ UNCHANGED <<visits, owner, row, cookie, left, overlap>>

\* The call is refused, does not reach the API, or its answer does not come
\* back: the website knows no difference.
CallFails(v) ==
    LET x == visit[v] IN
    /\ x.api \notin {"idle", "failed"} /\ x.op # "capture"
    /\ visit' = [visit EXCEPT ![v].api = "failed", ![v].issued = NoWebToken]
    /\ left' = left \cup ({x.issued} \ {NoWebToken})
                    \cup (IF x.op \in {"logout", "delete"} THEN {x.copy.token} \ {NoWebToken} ELSE {})
    /\ UNCHANGED <<visits, owner, living, row, cookie, ended, overlap>>

\* Expiry, a password reset, another device.
EndedElsewhere(t) ==
    /\ t \in living
    /\ living' = living \ {t} /\ ended' = ended \cup {t}
    /\ UNCHANGED <<visits, owner, row, cookie, visit, left, overlap>>

-----------------------------------------------------------------------------
(* The request ends.                                                       *)

\* _start_mfa_if_required
Challenged(c, who) == [c EXCEPT !.challenge = who]
\* store_auth_session, clear_auth_session
SignedInAs(c, who, t) == [c EXCEPT !.token = t, !.user = who]
SignedOut(c) == [c EXCEPT !.token = NoWebToken, !.user = NoVisitor]

\* What the view makes of its copy.
Edited(v) ==
    LET x == visit[v]
        c == x.copy
        went == x.api # "failed" IN
    CASE x.op \in {"logout", "delete"} -> SignedOut(c)
      [] x.op = "consent" /\ x.api = "unauthorized" -> SignedOut(c)
      [] x.op = "social start" /\ went -> [c EXCEPT !.social = TRUE]
      [] x.op = "login" /\ x.api = "challenge" -> Challenged(c, x.who)
      [] x.op = "login" /\ x.api = "answered" -> SignedInAs(c, x.who, x.issued)
      [] x.op = "enroll" /\ ~went -> [c EXCEPT !.challenge = NoVisitor]
      [] x.op = "verify" /\ went ->
            SignedInAs([c EXCEPT !.challenge = NoVisitor], x.who, x.issued)
      [] x.op = "social" ->
            LET d == [c EXCEPT !.social = FALSE] IN
            CASE x.api = "profile" -> [d EXCEPT !.pending = x.who]
              [] x.api = "challenge" -> Challenged(d, x.who)
              [] x.api = "answered" -> SignedInAs(d, x.who, x.issued)
              [] OTHER -> d
      [] x.op = "email" /\ went ->
            LET d == [c EXCEPT !.pending = NoVisitor] IN
            IF x.api = "challenge" THEN Challenged(d, x.who) ELSE SignedInAs(d, x.who, x.issued)
      [] x.op = "account" /\ x.api = "answered" -> [c EXCEPT !.user = owner[c.token]]
      [] OTHER -> c

\* The session is marked as changed by an assignment, were it of the same value.
Writes(v) ==
    \/ Edited(v) # visit[v].copy
    \/ visit[v].op \in {"capture", "social", "social start", "enroll"}
         /\ visit[v].api \in {"answered", "challenge", "profile"}
    \/ visit[v].op = "account" /\ visit[v].api = "answered"

\* A sign-in over another one leaves the older token where it is.
Replaced(v) ==
    IF Edited(v).token # visit[v].copy.token /\ visit[v].op \in {"verify", "social", "email"}
    THEN {visit[v].copy.token} \ {NoWebToken} ELSE {}

\* A request without a cookie makes a row, and the browser learns its name
\* unless the answer is lost.
EndVisit(v, delivered) ==
    LET x == visit[v] IN
    /\ x.api \notin {"idle", "calling"}
    /\ IF ~Writes(v)
       THEN /\ delivered /\ visit' = [visit EXCEPT ![v] = NoVisit]
            /\ UNCHANGED <<row, cookie, left, overlap>>
       ELSE \E r \in Rows :
              /\ IF x.row = NoRow THEN row[r] = BlankRow /\ r # cookie
                                  ELSE r = x.row
              /\ x.row # NoRow => delivered
              /\ row' = [row EXCEPT ![r] = Edited(v)]
              /\ cookie' = IF delivered THEN r ELSE cookie
              /\ visit' = [w \in Visits |->
                    CASE w = v -> NoVisit
                      [] w # v /\ visit[w].row = x.row /\ visit[w].op # "none" ->
                           [visit[w] EXCEPT !.stale = TRUE]
                      [] OTHER -> visit[w]]
              /\ left' = left \cup Replaced(v)
                           \cup (IF delivered THEN {} ELSE {Edited(v).token} \ {NoWebToken})
              /\ overlap' = (overlap \/ x.stale)
    /\ UNCHANGED <<visits, owner, living, ended>>

\* The view ends in an error of the website: nothing is saved.
VisitCrashes(v) ==
    LET x == visit[v] IN
    /\ x.op # "none"
    /\ visit' = [visit EXCEPT ![v] = NoVisit]
    /\ left' = left \cup ({x.issued} \ {NoWebToken})
    /\ ended' = IF x.op \in {"logout", "delete"} THEN ended \cup ({x.copy.token} \ {NoWebToken}) ELSE ended
    /\ UNCHANGED <<visits, owner, living, row, cookie, overlap>>

WebNext ==
    \/ \E v \in Visits :
        \/ \E op \in Ops, who \in Visitors \cup {NoVisitor} :
               (who # NoVisitor \/ op \in {"social start", "logout", "capture"}) /\ BeginVisit(v, op, who)
        \/ \E t \in Tokens : ApiOpens(v, t)
        \/ ApiGoesOn(v) \/ ApiAnswersOwner(v) \/ ApiEnds(v) \/ CallFails(v)
        \/ \E d \in BOOLEAN : EndVisit(v, d)
        \/ VisitCrashes(v)
    \/ \E t \in Tokens : EndedElsewhere(t)

-----------------------------------------------------------------------------

WebTypes ==
    /\ living \subseteq Tokens /\ cookie \in Rows \cup {NoRow}
    /\ \A r \in Rows : /\ row[r].token \in Tokens \cup {NoWebToken}
                       /\ row[r].user \in Visitors \cup {NoVisitor}

\* The user shown in a browser owns the token its pages work with, however
\* requests overlap and whatever the API's answers were.
ShownUserOwnsToken ==
    \A r \in Rows : /\ row[r].token = NoWebToken <=> row[r].user = NoVisitor
                    /\ row[r].token # NoWebToken => owner[row[r].token] = row[r].user

InHand == {row[r].token : r \in Rows} \cup {visit[v].issued : v \in Visits}

\* A session that lives is the browser's, or one it gave up: no page loses
\* track of it unless a save took another one back.
LivingSessionsAreKept == ~overlap => living \subseteq InHand \cup left

\* A browser that shows someone signed in has a session that lives, unless it
\* was ended elsewhere, is being signed out of, or a save took one back.
ShownSessionLives ==
    ~overlap /\ cookie # NoRow /\ row[cookie].token # NoWebToken =>
        \/ row[cookie].token \in living \cup ended \cup left
        \/ \E v \in Visits : visit[v].op \in {"logout", "delete"}
                               /\ visit[v].copy.token = row[cookie].token

WebInvariant ==
    WebTypes /\ ShownUserOwnsToken /\ LivingSessionsAreKept /\ ShownSessionLives

WebSpec == WebInit /\ [][WebNext]_webVars

=============================================================================
