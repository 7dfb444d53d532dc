----------------------------- MODULE Onboarding -----------------------------
(***************************************************************************)
(* How an account comes to exist: registration by password or through a    *)
(* social provider, its initial grant and the bonus of who invited it, and *)
(* the confirmation of its address.                                        *)
(*                                                                         *)
(* Each handler looks for a row, without a lock, and writes later in the   *)
(* same transaction: a Begin... step reads, the Finish... step writes what *)
(* that reading led to.  What stands between two of them is only the       *)
(* UNIQUE constraints on users.email and on (provider, subject).           *)
(***************************************************************************)
EXTENDS Integers, FiniteSets

CONSTANTS
    Members, Seeded,        \* rows of the users table; those that exist at first
    Addresses, NoAddress,
    Identities, NoIdentity, \* (provider, subject) pairs
    Callers,                \* requests in flight at once
    Nobody,
    MaxMemberEdits          \* bound on changes of address, role and state

\* A row of the users table.  external is external_provider and _subject,
\* grants and bonus count ledger rows of the two kinds, proof is the address
\* that email_confirmed_at was set for, links are the open confirmation links,
\* each by the address it was sent to.
MemberRow ==
    [email : Addresses, confirmed : BOOLEAN, proof : Addresses \cup {NoAddress},
     links : SUBSET Addresses, active : BOOLEAN, operator : BOOLEAN,
     external : Identities \cup {NoIdentity}, grants : Nat, bonus : Nat,
     referrer : Members \cup {Nobody}]

ASSUME OnboardingAssumption ==
    /\ Seeded \subseteq Members /\ Nobody \notin Members /\ Nobody \notin MemberRow
    /\ NoAddress \notin Addresses /\ NoIdentity \notin Identities
    /\ MaxMemberEdits \in Nat

\* What a request read, and will act on.
HandlingRow ==
    [op : {"idle", "create", "link", "change", "confirm", "resend", "core"},
     member : Members \cup {Nobody}, address : Addresses \cup {NoAddress},
     identity : Identities \cup {NoIdentity}, trusted : BOOLEAN]

VARIABLES
    member,         \* the users table, and Nobody where there is no row
    identity,       \* gotrendlabs_external_identities: the account it signs in to
    handling,
    mustConfirm,    \* site_config.email_enabled
    crossed,        \* members whose address changed under a request (history)
    overlapped,     \* identities, and members, two requests served at once (history)
    memberEdits

onboardingVars == <<member, identity, handling, mustConfirm, crossed, overlapped, memberEdits>>

NotHandling ==
    [op |-> "idle", member |-> Nobody, address |-> NoAddress, identity |-> NoIdentity,
     trusted |-> FALSE]

Seed(a) ==
    [email |-> a, confirmed |-> TRUE, proof |-> a, links |-> {}, active |-> TRUE,
     operator |-> TRUE, external |-> NoIdentity, grants |-> 0, bonus |-> 0, referrer |-> Nobody]

OnboardingInit ==
    /\ \E f \in [Seeded -> Addresses] :
         /\ \A p, q \in Seeded : f[p] = f[q] => p = q
         /\ member = [p \in Members |-> IF p \in Seeded THEN Seed(f[p]) ELSE Nobody]
    /\ identity = [i \in Identities |-> Nobody]
    /\ handling = [c \in Callers |-> NotHandling]
    /\ mustConfirm \in BOOLEAN
    /\ crossed = {}
    /\ overlapped = {}
    /\ memberEdits = 0

Existing == {p \in Members : member[p] # Nobody}
Live(p) == p \in Existing /\ member[p].active

\* UNIQUE (email), which every INSERT and UPDATE of the table meets
AddressFree(a) == \A p \in Existing : member[p].email # a

InFlight(op, p) == \E c \in Callers : handling[c].op = op /\ handling[c].member = p

Begins(c, row) ==
    /\ handling[c] = NotHandling
    /\ handling' = [handling EXCEPT ![c] = row]
    /\ UNCHANGED <<member, identity, mustConfirm, crossed, memberEdits>>

Ends(c) == handling' = [handling EXCEPT ![c] = NotHandling]

EditsLeft == memberEdits < MaxMemberEdits /\ memberEdits' = memberEdits + 1

-----------------------------------------------------------------------------
(* New accounts.                                                           *)

\* register: refused here if the address is taken.
BeginRegister(c, a) ==
    /\ AddressFree(a)
    /\ Begins(c, [NotHandling EXCEPT !.op = "create", !.address = a])
    /\ UNCHANGED overlapped

\* _social_auth_response: a known identity signs in to its account, whatever
\* address it reports; a new one joins the account that has its address only if
\* the provider vouches for that...
Joined(i, a, vouched) ==
    IF identity[i] # Nobody THEN {identity[i]} ELSE {p \in Existing : member[p].email = a /\ vouched}

\* ...and otherwise makes an account (a pending token, good for as many
\* completions as its holder likes, first if the provider gave no address).
BeginSocial(c, i, a, vouched) ==
    /\ \/ \E p \in Joined(i, a, vouched) :
            /\ member[p].active
            /\ Begins(c, [op |-> "link", member |-> p, address |-> a, identity |-> i,
                          trusted |-> vouched])
       \/ /\ identity[i] = Nobody /\ AddressFree(a)
          /\ Begins(c, [op |-> "create", member |-> Nobody, address |-> a, identity |-> i,
                        trusted |-> vouched])
    /\ overlapped' = IF identity[i] = Nobody /\ \E d \in Callers : handling[d].identity = i
                     THEN overlapped \cup {i} ELSE overlapped

\* INSERT ... ON CONFLICT (provider, subject) DO UPDATE leaves user_id alone.
Linked_Moves(i, p) == [identity EXCEPT ![i] = p]
Linked(i, p) == [identity EXCEPT ![i] = IF @ = Nobody THEN p ELSE @]

\* _award_referral_bonus, with one row per invitee.
Referrers == {p \in Existing : member[p].active} \cup {Nobody}
WithBonus(rows, r) == IF r = Nobody THEN rows ELSE [rows EXCEPT ![r].bonus = @ + 1]

NewMember(q, r) ==
    LET known == IF q.identity = NoIdentity THEN ~mustConfirm ELSE q.trusted
    IN  [email |-> q.address, confirmed |-> known,
         proof |-> IF known THEN q.address ELSE NoAddress,
         links |-> IF mustConfirm /\ ~known THEN {q.address} ELSE {},
         active |-> TRUE, operator |-> FALSE, external |-> q.identity,
         grants |-> 1, bonus |-> 0, referrer |-> r]

\* The rest of register and _create_social_user, grant and bonus included.
FinishCreate(c, p) ==
    LET q == handling[c] IN
    /\ q.op = "create"
    /\ p \notin Existing
    /\ AddressFree(q.address)
    /\ \E r \in Referrers : member' = WithBonus([member EXCEPT ![p] = NewMember(q, r)], r)
    /\ identity' = IF q.identity = NoIdentity THEN identity ELSE Linked(q.identity, p)
    /\ Ends(c)
    /\ UNCHANGED <<mustConfirm, crossed, overlapped, memberEdits>>

FinishLink(c) ==
    LET q == handling[c] IN
    /\ q.op = "link"
    /\ member' = [member EXCEPT ![q.member].external = q.identity]
    /\ identity' = Linked(q.identity, q.member)
    /\ Ends(c)
    /\ UNCHANGED <<mustConfirm, crossed, overlapped, memberEdits>>

-----------------------------------------------------------------------------
(* The address and its confirmation.                                       *)

\* update_me
BeginChange(c, p, a) ==
    /\ Live(p)
    /\ AddressFree(a)
    /\ Begins(c, [NotHandling EXCEPT !.op = "change", !.member = p, !.address = a])
    /\ UNCHANGED overlapped

Readdressed_StillConfirmed(row, a) == [row EXCEPT !.email = a, !.links = {a}]
Readdressed(row, a) ==
    [row EXCEPT !.email = a, !.confirmed = FALSE, !.proof = NoAddress, !.links = {a}]

FinishChange(c) ==
    LET q == handling[c] IN
    /\ q.op = "change"
    /\ AddressFree(q.address)
    /\ EditsLeft
    /\ member' = [member EXCEPT ![q.member] = Readdressed(@, q.address)]
    /\ crossed' = IF InFlight("confirm", q.member) \/ InFlight("resend", q.member)
                  THEN crossed \cup {q.member} ELSE crossed
    /\ Ends(c)
    /\ UNCHANGED <<identity, mustConfirm, overlapped>>

BeginConfirm(c, p, a) ==
    /\ Live(p)
    /\ a \in member[p].links
    /\ Begins(c, [NotHandling EXCEPT !.op = "confirm", !.member = p, !.address = a])
    /\ UNCHANGED overlapped

\* email_confirmed_at is set for whatever address the account has by now.
Confirmed(row, a) ==
    [row EXCEPT !.proof = IF row.confirmed THEN @ ELSE a, !.confirmed = TRUE, !.links = @ \ {a}]

FinishConfirm(c) ==
    LET q == handling[c] IN
    /\ q.op = "confirm"
    /\ member' = [member EXCEPT ![q.member] = Confirmed(@, q.address)]
    /\ Ends(c)
    /\ UNCHANGED <<identity, mustConfirm, crossed, overlapped, memberEdits>>

BeginResend(c, p) ==
    /\ Live(p)
    /\ ~member[p].confirmed
    /\ Begins(c, [NotHandling EXCEPT !.op = "resend", !.member = p, !.address = member[p].email])
    /\ UNCHANGED overlapped

\* issue_email_confirmation closes the older links.
FinishResend(c) ==
    LET q == handling[c] IN
    /\ q.op = "resend"
    /\ member' = [member EXCEPT ![q.member].links = {q.address}]
    /\ Ends(c)
    /\ UNCHANGED <<identity, mustConfirm, crossed, overlapped, memberEdits>>

LinkLapses(p, a) ==
    /\ p \in Existing
    /\ a \in member[p].links
    /\ member' = [member EXCEPT ![p].links = @ \ {a}]
    /\ UNCHANGED <<identity, handling, mustConfirm, crossed, overlapped, memberEdits>>

-----------------------------------------------------------------------------
(* The wallet every request makes sure of, and what operators change.      *)

\* _ensure_user_core asks the ledger whether the grant was made.
GrantDue(p) == member[p].grants = 0

BeginCore(c, p) ==
    /\ Live(p)
    /\ ~member[p].operator
    /\ GrantDue(p)
    /\ Begins(c, [NotHandling EXCEPT !.op = "core", !.member = p])
    /\ overlapped' = IF InFlight("core", p) THEN overlapped \cup {p} ELSE overlapped

FinishCore(c) ==
    LET q == handling[c] IN
    /\ q.op = "core"
    /\ member' = [member EXCEPT ![q.member].grants = @ + 1]
    /\ Ends(c)
    /\ UNCHANGED <<identity, mustConfirm, crossed, overlapped, memberEdits>>

SwitchRole(p) ==
    /\ p \in Existing
    /\ EditsLeft
    /\ member' = [member EXCEPT ![p].operator = ~@]
    /\ UNCHANGED <<identity, handling, mustConfirm, crossed, overlapped>>

SwitchState(p) ==
    /\ p \in Existing
    /\ EditsLeft
    /\ member' = [member EXCEPT ![p].active = ~@]
    /\ UNCHANGED <<identity, handling, mustConfirm, crossed, overlapped>>

SwitchMail ==
    /\ EditsLeft
    /\ mustConfirm' = ~mustConfirm
    /\ UNCHANGED <<member, identity, handling, crossed, overlapped>>

\* A constraint refuses the write, or the request dies.
HandlingFails(c) ==
    /\ handling[c] # NotHandling
    /\ Ends(c)
    /\ UNCHANGED <<member, identity, mustConfirm, crossed, overlapped, memberEdits>>

OnboardingNext ==
    \/ \E c \in Callers, a \in Addresses : BeginRegister(c, a)
    \/ \E c \in Callers, i \in Identities, a \in Addresses, v \in BOOLEAN : BeginSocial(c, i, a, v)
    \/ \E c \in Callers, p \in Members : FinishCreate(c, p)
    \/ \E c \in Callers, p \in Members, a \in Addresses : BeginChange(c, p, a) \/ BeginConfirm(c, p, a)
    \/ \E c \in Callers, p \in Members : BeginResend(c, p) \/ BeginCore(c, p)
    \/ \E c \in Callers :
         FinishLink(c) \/ FinishChange(c) \/ FinishConfirm(c) \/ FinishResend(c) \/ FinishCore(c)
           \/ HandlingFails(c)
    \/ \E p \in Members, a \in Addresses : LinkLapses(p, a)
    \/ \E p \in Members : SwitchRole(p) \/ SwitchState(p)
    \/ SwitchMail

-----------------------------------------------------------------------------
(* Properties.                                                             *)

\* Rows keep their types, and no two of them have one address, however many
\* registrations, social logins and changes of address found it free
\* (the check of register and update_me, users.email).
OnboardingTypeOK ==
    /\ member \in [Members -> MemberRow \cup {Nobody}]
    /\ identity \in [Identities -> Existing \cup {Nobody}]
    /\ handling \in [Callers -> HandlingRow]
    /\ mustConfirm \in BOOLEAN
    /\ \A p, q \in Existing : member[p].email = member[q].email => p = q

\* A confirmed address is the one that was proved: by its link, by the
\* provider, or, with e-mail switched off, by nobody.  A change of address
\* under a running confirmation or resend is the exception
\* (confirm_email, resend_email_confirmation, update_me).
ProvedAddress ==
    \A p \in Existing \ crossed : member[p].confirmed => member[p].proof = member[p].email

\* The account that names an identity is the one the identity signs in to,
\* unless two first logins of the identity ran at once: the later one then
\* keeps an account no social login reaches (_touch_social_identity).
IdentityReachesItsAccount ==
    \A p \in Existing :
      LET i == member[p].external
      IN  i \notin overlapped \cup {NoIdentity} => identity[i] = p

\* Every account is granted its opening balance once, unless two requests of
\* a former operator made sure of it at once, and pays its referrer once
\* (_ensure_user_core, _award_referral_bonus).
CreditsHaveReasons ==
    \A p \in Existing :
      /\ p \notin overlapped => member[p].grants <= 1
      /\ member[p].bonus = Cardinality({q \in Existing : member[q].referrer = p})

\* An identity never moves to another account, whatever address its provider
\* reports later (_touch_social_identity).
IdentityNeverMoves ==
    [][\A i \in Identities : identity[i] # Nobody => identity'[i] = identity[i]]_onboardingVars

\* Accounts are what their registration, their provider and their links proved,
\* and are credited for it once.
OnboardingInvariant ==
    OnboardingTypeOK /\ ProvedAddress /\ IdentityReachesItsAccount /\ CreditsHaveReasons

=============================================================================
