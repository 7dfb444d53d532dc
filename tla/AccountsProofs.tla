--------------------------- MODULE AccountsProofs ---------------------------
(***************************************************************************)
(* What the accounts' composite checks on a few rows, for any number of    *)
(* them: how accounts come to exist and are credited, whom a session       *)
(* speaks for at the API, and whom a phone shows.  The three components    *)
(* share no variable, so each has an inductive invariant of its own.       *)
(***************************************************************************)
EXTENDS MCAccounts, FiniteSetTheorems, TLAPS

-----------------------------------------------------------------------------
(* How accounts come to exist.                                             *)

\* What holds of an account, unless its address changed under a request or two
\* requests overlapped on it.
MemberFine(p) ==
    /\ p \notin crossed => /\ member[p].confirmed => member[p].proof = member[p].email
                           /\ member[p].links \subseteq {member[p].email}
    /\ member[p].external \notin overlapped \cup {NoIdentity} => identity[member[p].external] = p
    /\ p \notin overlapped => member[p].grants <= 1
    /\ member[p].referrer \in Existing \cup {Nobody}

\* What a request in flight read is still so.
HandlingFine(q) ==
    /\ q.op \in {"link", "change", "confirm", "resend", "core"} => q.member \in Existing
    /\ q.op \in {"create", "link", "change", "confirm", "resend"} => q.address \in Addresses
    /\ q.op = "link" => q.identity \in Identities
    /\ q.identity # NoIdentity => q.op \in {"create", "link"}
    /\ q.identity \notin overlapped \cup {NoIdentity} =>
         \/ identity[q.identity] = Nobody
         \/ q.op = "link" /\ identity[q.identity] = q.member
    /\ q.op \in {"confirm", "resend"} /\ q.member \notin crossed =>
         q.address = member[q.member].email
    /\ q.op = "core" /\ q.member \notin overlapped => member[q.member].grants = 0

\* Two requests that act on the same thing are known to.
Apart(q, r) ==
    /\ q.identity = r.identity =>
         q.identity \in overlapped \cup {NoIdentity} \/ identity[q.identity] # Nobody
    /\ q.op = "core" /\ r.op = "core" /\ q.member = r.member => q.member \in overlapped

Invited == {q \in Existing : member[q].referrer # Nobody}
InvitedBy(p) == {q \in Existing : member[q].referrer = p}

OnboardingInv ==
    /\ OnboardingTypeOK
    /\ IsFiniteSet(Invited)
    /\ \A p \in Existing : MemberFine(p) /\ member[p].bonus = Cardinality(InvitedBy(p))
    /\ \A c \in Callers : HandlingFine(handling[c])
    /\ \A c, d \in Callers : c # d => Apart(handling[c], handling[d])

LEMMA OnboardingInvImplies == OnboardingInv => OnboardingInvariant
<1> SUFFICES ASSUME OnboardingInv PROVE OnboardingInvariant
  OBVIOUS
<1>1. ProvedAddress
  BY DEF OnboardingInv, ProvedAddress, MemberFine
<1>2. IdentityReachesItsAccount
  BY DEF OnboardingInv, IdentityReachesItsAccount, MemberFine
<1>3. CreditsHaveReasons
  BY DEF OnboardingInv, CreditsHaveReasons, MemberFine, InvitedBy
<1> QED BY <1>1, <1>2, <1>3 DEF OnboardingInv, OnboardingInvariant

LEMMA NotHandlingRow ==
  /\ NotHandling \in HandlingRow /\ HandlingFine(NotHandling)
  /\ \A q : Apart(NotHandling, q) /\ Apart(q, NotHandling)
  /\ HandlingFine(NotHandling)'
  /\ \A q : Apart(NotHandling, q)' /\ Apart(q, NotHandling)'
BY DEF NotHandling, HandlingRow, HandlingFine, Apart

LEMMA OnboardingStart == OnboardingInit => OnboardingInv
<1> SUFFICES ASSUME OnboardingInit PROVE OnboardingInv
  OBVIOUS
<1>1. PICK f \in [Seeded -> Addresses] :
        /\ \A p, q \in Seeded : f[p] = f[q] => p = q
        /\ member = [p \in Members |-> IF p \in Seeded THEN Seed(f[p]) ELSE Nobody]
  BY DEF OnboardingInit
<1>2. \A a \in Addresses : /\ Seed(a) \in MemberRow /\ Seed(a).email = a
                           /\ Seed(a).confirmed /\ Seed(a).proof = a /\ Seed(a).links = {}
                           /\ Seed(a).external = NoIdentity /\ Seed(a).grants = 0
                           /\ Seed(a).bonus = 0 /\ Seed(a).referrer = Nobody
  BY DEF Seed, MemberRow
<1>3. /\ \A p \in Seeded : p \in Members /\ member[p] = Seed(f[p]) /\ f[p] \in Addresses
      /\ Existing = Seeded
  BY <1>1, <1>2, OnboardingAssumption DEF Existing, OnboardingAssumption
<1>4. OnboardingTypeOK
  <2>1. member \in [Members -> MemberRow \cup {Nobody}]
    BY <1>1, <1>2
  <2>2. \A p, q \in Existing : member[p].email = member[q].email => p = q
    BY <1>1, <1>2, <1>3
  <2> QED BY <2>1, <2>2, NotHandlingRow DEF OnboardingInit, OnboardingTypeOK
<1>5. Invited = {} /\ \A p : InvitedBy(p) \subseteq {} \/ p = Nobody
  BY <1>2, <1>3 DEF Invited, InvitedBy
<1>6. \A p \in Existing : InvitedBy(p) = {}
  BY <1>3, <1>5, OnboardingAssumption DEF OnboardingAssumption
<1>7. \A p \in Existing : MemberFine(p) /\ member[p].bonus = Cardinality(InvitedBy(p))
  <2> SUFFICES ASSUME NEW p \in Existing
               PROVE  MemberFine(p) /\ member[p].bonus = Cardinality(InvitedBy(p))
    OBVIOUS
  <2>1. MemberFine(p)
    BY <1>2, <1>3 DEF MemberFine
  <2>2. member[p].bonus = Cardinality(InvitedBy(p))
    <3>1. InvitedBy(p) = {}
      BY <1>6
    <3>2. member[p].bonus = 0
      BY <1>2, <1>3
    <3>3. Cardinality({}) = 0
      BY FS_EmptySet
    <3> QED BY <3>1, <3>2, <3>3
  <2> QED BY <2>1, <2>2
<1>8. \A c, d \in Callers : handling[c] = NotHandling
  BY DEF OnboardingInit
<1> QED BY <1>4, <1>5, <1>7, <1>8, NotHandlingRow, FS_EmptySet DEF OnboardingInv

\* A request begins.
LEMMA BeginsKeeps ==
  ASSUME OnboardingInv, NEW c \in Callers, NEW row \in HandlingRow,
         Begins(c, row), overlapped \subseteq overlapped',
         HandlingFine(row)',
         \A d \in Callers \ {c} : Apart(row, handling[d])' /\ Apart(handling[d], row)'
  PROVE  OnboardingInv'
<1>1. /\ member' = member /\ identity' = identity /\ mustConfirm' = mustConfirm
      /\ crossed' = crossed /\ handling' = [handling EXCEPT ![c] = row]
  BY DEF Begins
<1>2. /\ handling \in [Callers -> HandlingRow]
      /\ handling'[c] = row /\ \A d \in Callers \ {c} : handling'[d] = handling[d]
  BY <1>1 DEF OnboardingInv, OnboardingTypeOK
<1>3. Existing' = Existing /\ Invited' = Invited /\ \A p : InvitedBy(p)' = InvitedBy(p)
  BY <1>1 DEF Existing, Invited, InvitedBy
<1>4. OnboardingTypeOK'
  BY <1>1, <1>2, <1>3 DEF OnboardingInv, OnboardingTypeOK
<1>5. \A p \in Existing : MemberFine(p)'
  BY <1>1, <1>3 DEF OnboardingInv, MemberFine
<1>6. \A d \in Callers : HandlingFine(handling[d])'
  <2> SUFFICES ASSUME NEW d \in Callers PROVE HandlingFine(handling[d])'
    OBVIOUS
  <2>1. CASE d = c
    <3>1. handling[d]' = row
      BY <1>2, <2>1
    <3> QED BY <3>1 DEF HandlingFine
  <2>2. CASE d # c
    <3>1. HandlingFine(handling[d]) /\ handling'[d] = handling[d]
      BY <1>2, <2>2 DEF OnboardingInv
    <3> QED BY <1>1, <1>3, <3>1 DEF HandlingFine
  <2> QED BY <2>1, <2>2
<1>7. \A d, e \in Callers : d # e => Apart(handling[d], handling[e])'
  <2> SUFFICES ASSUME NEW d \in Callers, NEW e \in Callers, d # e
               PROVE  Apart(handling[d], handling[e])'
    OBVIOUS
  <2>1. CASE d # c /\ e # c
    <3>1. /\ Apart(handling[d], handling[e])
          /\ handling'[d] = handling[d] /\ handling'[e] = handling[e]
      BY <1>2, <2>1 DEF OnboardingInv
    <3> QED BY <1>1, <3>1 DEF Apart
  <2>2. CASE d = c
    <3>1. handling[d]' = row /\ Apart(row, handling[e])'
      BY <1>2, <2>2
    <3> QED BY <3>1 DEF Apart
  <2>3. CASE e = c
    <3>1. handling[e]' = row /\ Apart(handling[d], row)'
      BY <1>2, <2>3
    <3> QED BY <3>1 DEF Apart
  <2> QED BY <2>1, <2>2, <2>3
<1> QED BY <1>1, <1>3, <1>4, <1>5, <1>6, <1>7 DEF OnboardingInv

LEMMA RequestsBegin ==
  ASSUME OnboardingInv, NEW c \in Callers
  PROVE  /\ \A a \in Addresses : BeginRegister(c, a) => OnboardingInv'
         /\ \A i \in Identities, a \in Addresses, v \in BOOLEAN :
              BeginSocial(c, i, a, v) => OnboardingInv'
         /\ \A p \in Members, a \in Addresses :
              BeginChange(c, p, a) \/ BeginConfirm(c, p, a) => OnboardingInv'
         /\ \A p \in Members : BeginResend(c, p) \/ BeginCore(c, p) => OnboardingInv'
<1>1. /\ \A d \in Callers : handling[d] \in HandlingRow
      /\ \A p \in Existing : member[p] \in MemberRow /\ p \in Members /\ MemberFine(p)
      /\ NotHandling \in HandlingRow
  BY NotHandlingRow DEF OnboardingInv, OnboardingTypeOK, Existing
<1>2. ASSUME NEW row \in HandlingRow, Begins(c, row)
      PROVE  /\ member' = member /\ identity' = identity /\ crossed' = crossed
             /\ Existing' = Existing
             /\ \A d \in Callers \ {c} : handling'[d] = handling[d]
  BY <1>2 DEF Begins, Existing, OnboardingInv, OnboardingTypeOK
<1>3. ASSUME NEW a \in Addresses, BeginRegister(c, a) PROVE OnboardingInv'
  <2> DEFINE row == [NotHandling EXCEPT !.op = "create", !.address = a]
  <2>1. row \in HandlingRow /\ row.op = "create" /\ row.address = a /\ row.identity = NoIdentity
    BY DEF NotHandling, HandlingRow
  <2>2. Begins(c, row) /\ overlapped' = overlapped
    BY <1>3 DEF BeginRegister
  <2> HIDE DEF row
  <2>3. HandlingFine(row)'
    BY <2>1 DEF HandlingFine
  <2>4. \A d \in Callers \ {c} : Apart(row, handling[d])' /\ Apart(handling[d], row)'
    BY <2>1 DEF Apart
  <2> QED BY <2>1, <2>2, <2>3, <2>4, BeginsKeeps
<1>4. ASSUME NEW i \in Identities, NEW a \in Addresses, NEW v \in BOOLEAN, BeginSocial(c, i, a, v)
      PROVE  OnboardingInv'
  <2>1. PICK row \in HandlingRow :
          /\ Begins(c, row) /\ row.identity = i /\ row.address = a
          /\ \/ row.op = "create" /\ identity[i] = Nobody
             \/ /\ row.op = "link" /\ row.member \in Existing
                /\ identity[i] \in {Nobody, row.member}
    <3>1. CASE \E p \in Joined(i, a, v) :
                 Begins(c, [op |-> "link", member |-> p, address |-> a, identity |-> i,
                            trusted |-> v])
      <4>1. PICK p \in Joined(i, a, v) :
              Begins(c, [op |-> "link", member |-> p, address |-> a, identity |-> i,
                         trusted |-> v])
        BY <3>1
      <4>2. p \in Existing /\ identity[i] \in {Nobody, p}
        BY <4>1 DEF Joined, OnboardingInv, OnboardingTypeOK
      <4> QED BY <1>1, <4>1, <4>2 DEF HandlingRow
    <3>2. CASE /\ identity[i] = Nobody
               /\ Begins(c, [op |-> "create", member |-> Nobody, address |-> a, identity |-> i,
                             trusted |-> v])
      BY <3>2 DEF HandlingRow
    <3> QED BY <1>4, <3>1, <3>2 DEF BeginSocial
  <2>2. /\ i # NoIdentity
        /\ overlapped \subseteq overlapped'
        /\ identity[i] = Nobody /\ (\E d \in Callers : handling[d].identity = i) => i \in overlapped'
    BY <1>4, OnboardingAssumption DEF BeginSocial, OnboardingAssumption
  <2>3. HandlingFine(row)'
    BY <1>2, <2>1, <2>2 DEF HandlingFine
  <2>4. \A d \in Callers \ {c} : Apart(row, handling[d])' /\ Apart(handling[d], row)'
    BY <1>2, <2>1, <2>2 DEF Apart
  <2> QED BY <2>1, <2>2, <2>3, <2>4, BeginsKeeps
<1>5. ASSUME NEW p \in Members, NEW a \in Addresses, BeginChange(c, p, a) PROVE OnboardingInv'
  <2> DEFINE row == [NotHandling EXCEPT !.op = "change", !.member = p, !.address = a]
  <2>1. /\ row \in HandlingRow /\ row.op = "change" /\ row.address = a
        /\ row.identity = NoIdentity /\ row.member = p
    BY DEF NotHandling, HandlingRow
  <2>2. Begins(c, row) /\ overlapped' = overlapped /\ p \in Existing
    BY <1>5 DEF BeginChange, Live
  <2> HIDE DEF row
  <2>3. HandlingFine(row)'
    BY <1>2, <2>1, <2>2 DEF HandlingFine
  <2>4. \A d \in Callers \ {c} : Apart(row, handling[d])' /\ Apart(handling[d], row)'
    BY <2>1 DEF Apart
  <2> QED BY <2>1, <2>2, <2>3, <2>4, BeginsKeeps
<1>6. ASSUME NEW p \in Members, NEW a \in Addresses, BeginConfirm(c, p, a) PROVE OnboardingInv'
  <2> DEFINE row == [NotHandling EXCEPT !.op = "confirm", !.member = p, !.address = a]
  <2>1. /\ row \in HandlingRow /\ row.op = "confirm" /\ row.address = a
        /\ row.identity = NoIdentity /\ row.member = p
    BY DEF NotHandling, HandlingRow
  <2>2. Begins(c, row) /\ overlapped' = overlapped /\ p \in Existing /\ a \in member[p].links
    BY <1>6 DEF BeginConfirm, Live
  <2> HIDE DEF row
  <2>3. p \notin crossed => a = member[p].email
    BY <1>1, <2>2 DEF MemberFine
  <2>4. HandlingFine(row)'
    BY <1>2, <2>1, <2>2, <2>3 DEF HandlingFine
  <2>5. \A d \in Callers \ {c} : Apart(row, handling[d])' /\ Apart(handling[d], row)'
    BY <2>1 DEF Apart
  <2> QED BY <2>1, <2>2, <2>4, <2>5, BeginsKeeps
<1>7. ASSUME NEW p \in Members, BeginResend(c, p) PROVE OnboardingInv'
  <2> DEFINE row == [NotHandling EXCEPT !.op = "resend", !.member = p, !.address = member[p].email]
  <2>1. p \in Existing /\ member[p].email \in Addresses
    BY <1>1, <1>7 DEF BeginResend, Live, MemberRow
  <2>2. /\ row \in HandlingRow /\ row.op = "resend" /\ row.address = member[p].email
        /\ row.identity = NoIdentity /\ row.member = p
    BY <2>1 DEF NotHandling, HandlingRow
  <2>3. Begins(c, row) /\ overlapped' = overlapped
    BY <1>7 DEF BeginResend
  <2>4. PICK r \in HandlingRow : r = row
    BY <2>2
  <2> HIDE DEF row
  <2>5. HandlingFine(r)'
    BY <1>2, <2>1, <2>2, <2>3, <2>4 DEF HandlingFine
  <2>6. \A d \in Callers \ {c} : Apart(r, handling[d])' /\ Apart(handling[d], r)'
    BY <2>2, <2>4 DEF Apart
  <2> QED BY <2>3, <2>4, <2>5, <2>6, BeginsKeeps
<1>8. ASSUME NEW p \in Members, BeginCore(c, p) PROVE OnboardingInv'
  <2> DEFINE row == [NotHandling EXCEPT !.op = "core", !.member = p]
  <2>1. /\ row \in HandlingRow /\ row.op = "core"
        /\ row.identity = NoIdentity /\ row.member = p
    BY DEF NotHandling, HandlingRow
  <2>2. /\ Begins(c, row) /\ overlapped \subseteq overlapped' /\ p \in Existing
        /\ member[p].grants = 0
        /\ InFlight("core", p) => p \in overlapped'
    BY <1>8 DEF BeginCore, Live, GrantDue
  <2> HIDE DEF row
  <2>3. HandlingFine(row)'
    BY <1>2, <2>1, <2>2 DEF HandlingFine
  <2>4. \A d \in Callers \ {c} : Apart(row, handling[d])' /\ Apart(handling[d], row)'
    BY <1>2, <2>1, <2>2 DEF Apart, InFlight
  <2> QED BY <2>1, <2>2, <2>3, <2>4, BeginsKeeps
<1> QED BY <1>3, <1>4, <1>5, <1>6, <1>7, <1>8

\* A row of the users table is written; who invited whom and what was paid for
\* it stay.
LEMMA RowWritten ==
  ASSUME OnboardingInv, NEW p \in Existing, NEW row \in MemberRow,
         member' = [member EXCEPT ![p] = row],
         row.referrer = member[p].referrer, row.bonus = member[p].bonus
  PROVE  /\ member' \in [Members -> MemberRow \cup {Nobody}]
         /\ member'[p] = row /\ \A q \in Members \ {p} : member'[q] = member[q]
         /\ Existing' = Existing /\ Invited' = Invited
         /\ \A q \in Existing : InvitedBy(q)' = InvitedBy(q)
         /\ \A q \in Existing : member'[q].bonus = Cardinality(InvitedBy(q)')
<1>1. /\ member \in [Members -> MemberRow \cup {Nobody}] /\ p \in Members /\ Nobody \notin MemberRow
  BY OnboardingAssumption DEF OnboardingInv, OnboardingTypeOK, Existing, OnboardingAssumption
<1>2. /\ member' \in [Members -> MemberRow \cup {Nobody}]
      /\ member'[p] = row /\ \A q \in Members \ {p} : member'[q] = member[q]
  BY <1>1
<1>3. Existing' = Existing
  BY <1>1, <1>2 DEF Existing
<1>4. \A q \in Members : member'[q].referrer = member[q].referrer /\ member'[q].bonus = member[q].bonus
  BY <1>2
<1>5. /\ Invited' = Invited
      /\ \A q \in Existing : InvitedBy(q)' = InvitedBy(q)
  BY <1>3, <1>4 DEF Invited, InvitedBy, Existing
<1>6. \A q \in Existing : q \in Members /\ member[q].bonus = Cardinality(InvitedBy(q))
  BY DEF OnboardingInv, Existing
<1> QED BY <1>2, <1>3, <1>4, <1>5, <1>6

\* A request that only writes a row: what the row says must stay fine, and so
\* must what the others read of it.
LEMMA RowKeeps ==
  ASSUME OnboardingInv, NEW p \in Existing, NEW row \in MemberRow,
         member' = [member EXCEPT ![p] = row],
         row.referrer = member[p].referrer, row.bonus = member[p].bonus,
         \A q \in Existing \ {p} : row.email # member[q].email,
         identity' \in [Identities -> Existing \cup {Nobody}],
         \A i \in Identities : identity[i] # Nobody => identity'[i] = identity[i],
         \A i \in Identities \ overlapped :
           identity'[i] = identity[i] \/ \A d \in Callers : handling'[d].identity # i,
         row.external \notin overlapped \cup {NoIdentity} => identity'[row.external] = p,
         mustConfirm' \in BOOLEAN, overlapped' = overlapped, crossed \subseteq crossed',
         handling' \in [Callers -> HandlingRow],
         \A d \in Callers : handling'[d] \in {NotHandling, handling[d]},
         p \notin crossed' => (row.confirmed => row.proof = row.email),
         p \notin crossed' => row.links \subseteq {row.email},
         p \notin crossed' /\ row.email # member[p].email =>
           \A d \in Callers : handling'[d].member = p => handling'[d].op \notin {"confirm", "resend"},
         p \notin overlapped => row.grants <= 1,
         p \notin overlapped /\ row.grants # member[p].grants =>
           \A d \in Callers : handling'[d].member = p => handling'[d].op # "core"
  PROVE  OnboardingInv'
<1>1. /\ member' \in [Members -> MemberRow \cup {Nobody}]
      /\ member'[p] = row /\ \A q \in Members \ {p} : member'[q] = member[q]
      /\ Existing' = Existing /\ Invited' = Invited
      /\ \A q \in Existing : member'[q].bonus = Cardinality(InvitedBy(q)')
  BY RowWritten
<1>2. Existing \subseteq Members
  BY DEF Existing
<1>3. OnboardingTypeOK'
  <2>1. \A a, b \in Existing : member'[a].email = member'[b].email => a = b
    BY <1>1, <1>2 DEF OnboardingInv, OnboardingTypeOK
  <2> QED BY <1>1, <2>1 DEF OnboardingInv, OnboardingTypeOK
<1>4. \A q \in Existing : MemberFine(q)'
  <2> SUFFICES ASSUME NEW q \in Existing PROVE MemberFine(q)'
    OBVIOUS
  <2>1. MemberFine(q) /\ member[q] \in MemberRow /\ q \in Members
    BY <1>2, OnboardingAssumption DEF OnboardingInv, OnboardingTypeOK, Existing
  <2>2. CASE q = p
    BY <1>1, <2>1, <2>2 DEF MemberFine
  <2>3. CASE q # p
    <3>1. member'[q] = member[q]
      BY <1>1, <2>1, <2>3
    <3>2. member[q].external \in Identities \cup {NoIdentity}
      BY <2>1 DEF MemberRow
    <3>3. member[q].external \notin overlapped \cup {NoIdentity} =>
            identity'[member[q].external] = q
      BY <2>1, <3>2, <2>3, <1>2, OnboardingAssumption
         DEF MemberFine, OnboardingAssumption
    <3> QED BY <1>1, <2>1, <3>1, <3>3 DEF MemberFine
  <2> QED BY <2>2, <2>3
<1>5. \A d \in Callers : HandlingFine(handling[d])'
  <2> SUFFICES ASSUME NEW d \in Callers PROVE HandlingFine(handling[d])'
    OBVIOUS
  <2>1. CASE handling'[d] = NotHandling
    BY <2>1 DEF HandlingFine, NotHandling
  <2>2. CASE handling'[d] = handling[d] /\ handling'[d] # NotHandling
    <3> DEFINE q == handling[d]
    <3>1. HandlingFine(q) /\ handling'[d] = q /\ q \in HandlingRow
      BY <2>2 DEF OnboardingInv, OnboardingTypeOK
    <3>2. q.identity \notin overlapped \cup {NoIdentity} =>
            \/ identity'[q.identity] = Nobody
            \/ q.op = "link" /\ identity'[q.identity] = q.member
      <4>1. q.identity \in Identities \cup {NoIdentity}
        BY <3>1 DEF HandlingRow
      <4> QED BY <2>2, <3>1, <4>1 DEF HandlingFine
    <3>3. q.op \in {"confirm", "resend"} /\ q.member \notin crossed' => q.address = member'[q.member].email
      <4>1. q.op \in {"confirm", "resend"} => q.member \in Existing
        BY <3>1 DEF HandlingFine
      <4>2. CASE q.member = p
        BY <3>1, <4>2, <1>1 DEF HandlingFine
      <4>3. CASE q.member # p
        BY <3>1, <4>1, <4>3, <1>1, <1>2 DEF HandlingFine
      <4> QED BY <4>2, <4>3
    <3>4. q.op = "core" /\ q.member \notin overlapped => member'[q.member].grants = 0
      <4>1. q.op = "core" => q.member \in Existing
        BY <3>1 DEF HandlingFine
      <4>2. CASE q.member = p
        BY <3>1, <4>2, <1>1 DEF HandlingFine
      <4>3. CASE q.member # p
        BY <3>1, <4>1, <4>3, <1>1, <1>2 DEF HandlingFine
      <4> QED BY <4>2, <4>3
    <3> QED BY <1>1, <3>1, <3>2, <3>3, <3>4 DEF HandlingFine
  <2> QED BY <2>1, <2>2
<1>6. \A d, e \in Callers : d # e => Apart(handling[d], handling[e])'
  <2> SUFFICES ASSUME NEW d \in Callers, NEW e \in Callers, d # e
               PROVE  Apart(handling[d], handling[e])'
    OBVIOUS
  <2>1. CASE handling'[d] = NotHandling \/ handling'[e] = NotHandling
    BY <2>1, NotHandlingRow DEF Apart
  <2>2. CASE handling'[d] = handling[d] /\ handling'[e] = handling[e]
    <3>1. Apart(handling[d], handling[e]) /\ handling[d].identity \in Identities \cup {NoIdentity}
      BY DEF OnboardingInv, OnboardingTypeOK, HandlingRow
    <3> QED BY <2>2, <3>1 DEF Apart
  <2> QED BY <2>1, <2>2
<1> QED BY <1>1, <1>3, <1>4, <1>5, <1>6 DEF OnboardingInv

LEMMA EndsKeeps ==
  ASSUME OnboardingInv, NEW c \in Callers, Ends(c)
  PROVE  /\ handling' \in [Callers -> HandlingRow] /\ handling'[c] = NotHandling
         /\ \A d \in Callers : handling'[d] \in {NotHandling, handling[d]}
BY NotHandlingRow DEF Ends, OnboardingInv, OnboardingTypeOK

\* The facts every written row starts from.
LEMMA RowFacts ==
  ASSUME OnboardingInv, NEW p \in Existing
  PROVE  /\ member[p] \in MemberRow /\ p \in Members /\ MemberFine(p)
         /\ \A q \in Existing \ {p} : member[p].email # member[q].email
         /\ member[p].external \in Identities \cup {NoIdentity}
         /\ identity \in [Identities -> Existing \cup {Nobody}]
         /\ handling \in [Callers -> HandlingRow]
<1>1. member[p] \in MemberRow /\ p \in Members
  BY DEF OnboardingInv, OnboardingTypeOK, Existing
<1>2. member[p].external \in Identities \cup {NoIdentity}
  BY <1>1 DEF MemberRow
<1> QED BY <1>1, <1>2 DEF OnboardingInv, OnboardingTypeOK

LEMMA LinkedOnce ==
  ASSUME identity \in [Identities -> Existing \cup {Nobody}], NEW i \in Identities, NEW p
  PROVE  /\ Linked(i, p) \in [Identities -> Existing \cup {Nobody, p}]
         /\ \A j \in Identities \ {i} : Linked(i, p)[j] = identity[j]
         /\ identity[i] = Nobody => Linked(i, p)[i] = p
         /\ identity[i] # Nobody => Linked(i, p)[i] = identity[i]
BY DEF Linked

LEMMA FinishLinkKeeps ==
  ASSUME OnboardingInv, NEW c \in Callers, FinishLink(c)
  PROVE  OnboardingInv'
<1>0. PICK q, p, i : q = handling[c] /\ p = q.member /\ i = q.identity
  OBVIOUS
<1> DEFINE row == [member[p] EXCEPT !.external = i]
<1>1. HandlingFine(q) /\ q.op = "link"
  BY <1>0 DEF FinishLink, OnboardingInv
<1>2. p \in Existing /\ i \in Identities /\ i # NoIdentity
  BY <1>0, <1>1, OnboardingAssumption DEF HandlingFine, OnboardingAssumption
<1>3. /\ member[p] \in MemberRow /\ p \in Members /\ MemberFine(p)
      /\ \A b \in Existing \ {p} : member[p].email # member[b].email
      /\ identity \in [Identities -> Existing \cup {Nobody}]
  BY <1>2, RowFacts
<1>4. /\ row \in MemberRow /\ row.external = i /\ row.referrer = member[p].referrer
      /\ row.bonus = member[p].bonus /\ row.email = member[p].email
      /\ row.confirmed = member[p].confirmed /\ row.proof = member[p].proof
      /\ row.links = member[p].links /\ row.grants = member[p].grants
  BY <1>2, <1>3 DEF MemberRow
<1>5. /\ member' = [member EXCEPT ![p] = row]
      /\ identity' = Linked(i, p) /\ Ends(c)
      /\ mustConfirm' = mustConfirm /\ crossed' = crossed /\ overlapped' = overlapped
  BY <1>0 DEF FinishLink
<1> HIDE DEF row
<1>6. /\ identity' \in [Identities -> Existing \cup {Nobody}]
      /\ \A j \in Identities : identity[j] # Nobody => identity'[j] = identity[j]
      /\ \A j \in Identities \ {i} : identity'[j] = identity[j]
      /\ identity[i] = Nobody => identity'[i] = p
  BY <1>2, <1>3, <1>5, LinkedOnce
<1>7. /\ handling' \in [Callers -> HandlingRow] /\ handling'[c] = NotHandling
      /\ \A d \in Callers : handling'[d] \in {NotHandling, handling[d]}
  BY <1>5, EndsKeeps
<1>8. i \notin overlapped /\ identity[i] = Nobody => \A d \in Callers : handling'[d].identity # i
  BY <1>0, <1>2, <1>7, OnboardingAssumption DEF OnboardingInv, Apart, NotHandling
<1>9. i \notin overlapped => identity'[i] = p
  BY <1>0, <1>1, <1>2, <1>6 DEF HandlingFine
<1>10. p \notin crossed' => (row.confirmed => row.proof = row.email) /\ row.links \subseteq {row.email}
  BY <1>3, <1>4, <1>5 DEF MemberFine
<1>11. p \notin overlapped => row.grants <= 1
  BY <1>3, <1>4 DEF MemberFine
<1>12. mustConfirm' \in BOOLEAN
  BY <1>5 DEF OnboardingInv, OnboardingTypeOK
<1>13. \A j \in Identities \ overlapped :
         identity'[j] = identity[j] \/ \A d \in Callers : handling'[d].identity # j
  BY <1>2, <1>3, <1>6, <1>8
<1>14. \A b \in Existing \ {p} : row.email # member[b].email
  BY <1>3, <1>4
<1>15. row.external \notin overlapped \cup {NoIdentity} => identity'[row.external] = p
  BY <1>4, <1>9
<1>18. crossed \subseteq crossed'
  BY <1>5
<1> QED BY <1>2, <1>4, <1>5, <1>6, <1>7, <1>12, <1>10, <1>11, <1>13, <1>14, <1>15, <1>18, RowKeeps

\* The same for what leaves the identities alone.
LEMMA RowOnlyKeeps ==
  ASSUME OnboardingInv, NEW p \in Existing, NEW row \in MemberRow,
         member' = [member EXCEPT ![p] = row],
         row.referrer = member[p].referrer, row.bonus = member[p].bonus,
         row.external = member[p].external,
         row.email # member[p].email => \A q \in Existing : row.email # member[q].email,
         identity' = identity, mustConfirm' = mustConfirm, overlapped' = overlapped,
         crossed \subseteq crossed',
         handling' = handling \/ \E c \in Callers : Ends(c),
         p \notin crossed' => (row.confirmed => row.proof = row.email),
         p \notin crossed' => row.links \subseteq {row.email},
         p \notin crossed' /\ row.email # member[p].email =>
           \A d \in Callers : handling'[d].member = p => handling'[d].op \notin {"confirm", "resend"},
         p \notin overlapped => row.grants <= 1,
         p \notin overlapped /\ row.grants # member[p].grants =>
           \A d \in Callers : handling'[d].member = p => handling'[d].op # "core"
  PROVE  OnboardingInv'
<1>1. /\ member[p] \in MemberRow /\ p \in Members /\ MemberFine(p)
      /\ \A q \in Existing \ {p} : member[p].email # member[q].email
      /\ identity \in [Identities -> Existing \cup {Nobody}]
      /\ handling \in [Callers -> HandlingRow]
  BY RowFacts
<1>2. /\ handling' \in [Callers -> HandlingRow]
      /\ \A d \in Callers : handling'[d] \in {NotHandling, handling[d]}
  BY <1>1, EndsKeeps
<1>3. \A q \in Existing \ {p} : row.email # member[q].email
  BY <1>1
<1>4. /\ identity' \in [Identities -> Existing \cup {Nobody}]
      /\ \A j \in Identities : identity[j] # Nobody => identity'[j] = identity[j]
      /\ \A j \in Identities \ overlapped :
           identity'[j] = identity[j] \/ \A d \in Callers : handling'[d].identity # j
  BY <1>1
<1>5. row.external \notin overlapped \cup {NoIdentity} => identity'[row.external] = p
  BY <1>1 DEF MemberFine
<1>6. mustConfirm' \in BOOLEAN
  BY DEF OnboardingInv, OnboardingTypeOK
<1> QED BY <1>2, <1>3, <1>4, <1>5, <1>6, RowKeeps

LEMMA FinishChangeKeeps ==
  ASSUME OnboardingInv, NEW c \in Callers, FinishChange(c)
  PROVE  OnboardingInv'
<1>1. PICK q, p, a : q = handling[c] /\ p = q.member /\ a = q.address
  OBVIOUS
<1>2. HandlingFine(q) /\ q.op = "change"
  BY <1>1 DEF FinishChange, OnboardingInv
<1>3. p \in Existing /\ a \in Addresses
  BY <1>1, <1>2 DEF HandlingFine
<1>4. /\ member[p] \in MemberRow /\ p \in Members /\ MemberFine(p)
      /\ handling \in [Callers -> HandlingRow]
  BY <1>3, RowFacts
<1> DEFINE row == Readdressed(member[p], a)
<1>5. /\ row \in MemberRow /\ row.external = member[p].external
      /\ row.referrer = member[p].referrer
      /\ row.bonus = member[p].bonus /\ row.email = a
      /\ ~row.confirmed /\ row.links = {a} /\ row.grants = member[p].grants
  BY <1>3, <1>4 DEF MemberRow, Readdressed
<1>6. /\ member' = [member EXCEPT ![p] = row]
      /\ AddressFree(a) /\ identity' = identity /\ Ends(c)
      /\ mustConfirm' = mustConfirm /\ overlapped' = overlapped
  BY <1>1 DEF FinishChange
<1> HIDE DEF row
<1>7. /\ crossed \subseteq crossed'
      /\ p \notin crossed' => ~InFlight("confirm", p) /\ ~InFlight("resend", p)
  BY <1>1 DEF FinishChange
<1>8. p \notin crossed' =>
        \A d \in Callers : handling'[d].member = p => handling'[d].op \notin {"confirm", "resend"}
  BY <1>7, <1>6, EndsKeeps DEF InFlight, NotHandling
<1>9. p \notin overlapped => row.grants <= 1
  BY <1>4, <1>5 DEF MemberFine
<1>10. \A b \in Existing : row.email # member[b].email
  BY <1>5, <1>6 DEF AddressFree
<1> QED BY <1>3, <1>5, <1>6, <1>7, <1>8, <1>9, <1>10, RowOnlyKeeps

LEMMA FinishConfirmKeeps ==
  ASSUME OnboardingInv, NEW c \in Callers, FinishConfirm(c)
  PROVE  OnboardingInv'
<1>1. PICK q, p, a : q = handling[c] /\ p = q.member /\ a = q.address
  OBVIOUS
<1>2. HandlingFine(q) /\ q.op = "confirm"
  BY <1>1 DEF FinishConfirm, OnboardingInv
<1>3. p \in Existing /\ a \in Addresses
  BY <1>1, <1>2 DEF HandlingFine
<1>4. member[p] \in MemberRow /\ p \in Members /\ MemberFine(p)
  BY <1>3, RowFacts
<1> DEFINE row == Confirmed(member[p], a)
<1>5. /\ row \in MemberRow /\ row.external = member[p].external
      /\ row.referrer = member[p].referrer
      /\ row.bonus = member[p].bonus /\ row.email = member[p].email
      /\ row.links \subseteq member[p].links /\ row.grants = member[p].grants
      /\ row.proof = IF member[p].confirmed THEN member[p].proof ELSE a
  BY <1>3, <1>4 DEF MemberRow, Confirmed
<1>6. /\ member' = [member EXCEPT ![p] = row]
      /\ identity' = identity /\ Ends(c)
      /\ mustConfirm' = mustConfirm /\ overlapped' = overlapped /\ crossed' = crossed
  BY <1>1 DEF FinishConfirm
<1> HIDE DEF row
<1>7. p \notin crossed => a = member[p].email
  BY <1>1, <1>2 DEF HandlingFine
<1>8. p \notin crossed' => (row.confirmed => row.proof = row.email)
  BY <1>4, <1>5, <1>6, <1>7 DEF MemberFine
<1>9. p \notin crossed' => row.links \subseteq {row.email}
  BY <1>4, <1>5, <1>6 DEF MemberFine
<1>10. p \notin overlapped => row.grants <= 1
  BY <1>4, <1>5 DEF MemberFine
<1> QED BY <1>3, <1>5, <1>6, <1>8, <1>9, <1>10, RowOnlyKeeps

LEMMA FinishResendKeeps ==
  ASSUME OnboardingInv, NEW c \in Callers, FinishResend(c)
  PROVE  OnboardingInv'
<1>1. PICK q, p, a : q = handling[c] /\ p = q.member /\ a = q.address
  OBVIOUS
<1>2. HandlingFine(q) /\ q.op = "resend"
  BY <1>1 DEF FinishResend, OnboardingInv
<1>3. p \in Existing /\ a \in Addresses
  BY <1>1, <1>2 DEF HandlingFine
<1>4. member[p] \in MemberRow /\ p \in Members /\ MemberFine(p)
  BY <1>3, RowFacts
<1> DEFINE row == [member[p] EXCEPT !.links = {a}]
<1>5. /\ row \in MemberRow /\ row.external = member[p].external
      /\ row.referrer = member[p].referrer
      /\ row.bonus = member[p].bonus /\ row.email = member[p].email
      /\ row.links = {a} /\ row.grants = member[p].grants
      /\ row.proof = member[p].proof /\ row.confirmed = member[p].confirmed
  BY <1>3, <1>4 DEF MemberRow
<1>6. /\ member' = [member EXCEPT ![p] = row]
      /\ identity' = identity /\ Ends(c)
      /\ mustConfirm' = mustConfirm /\ overlapped' = overlapped /\ crossed' = crossed
  BY <1>1 DEF FinishResend
<1> HIDE DEF row
<1>7. p \notin crossed => a = member[p].email
  BY <1>1, <1>2 DEF HandlingFine
<1>8. p \notin crossed' => (row.confirmed => row.proof = row.email)
  BY <1>4, <1>5, <1>6 DEF MemberFine
<1>9. p \notin crossed' => row.links \subseteq {row.email}
  BY <1>5, <1>6, <1>7
<1>10. p \notin overlapped => row.grants <= 1
  BY <1>4, <1>5 DEF MemberFine
<1> QED BY <1>3, <1>5, <1>6, <1>8, <1>9, <1>10, RowOnlyKeeps

LEMMA FinishCoreKeeps ==
  ASSUME OnboardingInv, NEW c \in Callers, FinishCore(c)
  PROVE  OnboardingInv'
<1>1. PICK q, p : q = handling[c] /\ p = q.member
  OBVIOUS
<1>2. HandlingFine(q) /\ q.op = "core"
  BY <1>1 DEF FinishCore, OnboardingInv
<1>3. p \in Existing
  BY <1>1, <1>2 DEF HandlingFine
<1>4. member[p] \in MemberRow /\ p \in Members /\ MemberFine(p) /\ member[p].grants \in Nat
  BY <1>3, RowFacts DEF MemberRow
<1> DEFINE row == [member[p] EXCEPT !.grants = @ + 1]
<1>5. /\ row \in MemberRow /\ row.external = member[p].external
      /\ row.referrer = member[p].referrer
      /\ row.bonus = member[p].bonus /\ row.email = member[p].email
      /\ row.links = member[p].links /\ row.grants = member[p].grants + 1
      /\ row.proof = member[p].proof /\ row.confirmed = member[p].confirmed
  BY <1>3, <1>4 DEF MemberRow
<1>6. /\ member' = [member EXCEPT ![p] = row]
      /\ identity' = identity /\ Ends(c)
      /\ mustConfirm' = mustConfirm /\ overlapped' = overlapped /\ crossed' = crossed
  BY <1>1 DEF FinishCore
<1> HIDE DEF row
<1>7. p \notin crossed' => (row.confirmed => row.proof = row.email)
  BY <1>4, <1>5, <1>6 DEF MemberFine
<1>8. p \notin crossed' => row.links \subseteq {row.email}
  BY <1>4, <1>5, <1>6 DEF MemberFine
<1>9. p \notin overlapped => row.grants <= 1
  BY <1>1, <1>2, <1>5 DEF HandlingFine
<1>10. p \notin overlapped =>
         \A d \in Callers : handling'[d].member = p => handling'[d].op # "core"
  BY <1>1, <1>2, <1>6, EndsKeeps DEF OnboardingInv, Apart, NotHandling
<1> QED BY <1>3, <1>5, <1>6, <1>7, <1>8, <1>9, <1>10, RowOnlyKeeps

LEMMA RowsEdited ==
  ASSUME OnboardingInv, NEW p \in Members
  PROVE  /\ \A a \in Addresses : LinkLapses(p, a) => OnboardingInv'
         /\ SwitchRole(p) => OnboardingInv'
         /\ SwitchState(p) => OnboardingInv'
<1>1. ASSUME NEW row \in MemberRow, p \in Existing,
             \E s \in SUBSET Addresses, o, b \in BOOLEAN :
               /\ row = [member[p] EXCEPT !.links = s, !.operator = o, !.active = b]
               /\ s \subseteq member[p].links,
             member' = [member EXCEPT ![p] = row],
             UNCHANGED <<identity, handling, mustConfirm, crossed, overlapped>>
      PROVE  OnboardingInv'
  <2>1. member[p] \in MemberRow /\ MemberFine(p)
    BY <1>1, RowFacts
  <2>2. /\ row.external = member[p].external
        /\ row.referrer = member[p].referrer
        /\ row.bonus = member[p].bonus /\ row.email = member[p].email
        /\ row.links \subseteq member[p].links /\ row.grants = member[p].grants
        /\ row.proof = member[p].proof /\ row.confirmed = member[p].confirmed
    BY <1>1, <2>1 DEF MemberRow
  <2>3. p \notin crossed' => (row.confirmed => row.proof = row.email)
    BY <1>1, <2>1, <2>2 DEF MemberFine
  <2>4. p \notin crossed' => row.links \subseteq {row.email}
    BY <1>1, <2>1, <2>2 DEF MemberFine
  <2>5. p \notin overlapped => row.grants <= 1
    BY <2>1, <2>2 DEF MemberFine
  <2>6. crossed \subseteq crossed'
    BY <1>1
  <2> QED BY <1>1, <2>2, <2>3, <2>4, <2>5, <2>6, RowOnlyKeeps
<1>2. p \in Existing => member[p] \in MemberRow
  BY RowFacts
<1>3. ASSUME NEW a \in Addresses, LinkLapses(p, a) PROVE OnboardingInv'
  <2> DEFINE row == [member[p] EXCEPT !.links = @ \ {a}]
  <2>1. p \in Existing /\ member' = [member EXCEPT ![p] = row]
    BY <1>3 DEF LinkLapses
  <2>2. /\ row \in MemberRow
        /\ row = [member[p] EXCEPT !.links = member[p].links \ {a},
                                   !.operator = member[p].operator, !.active = member[p].active]
        /\ member[p].links \in SUBSET Addresses /\ member[p].operator \in BOOLEAN
        /\ member[p].active \in BOOLEAN
    BY <1>2, <2>1 DEF MemberRow
  <2>3. PICK s \in SUBSET Addresses : s = member[p].links \ {a}
    BY <2>2
  <2>4. \E t \in SUBSET Addresses, o, b \in BOOLEAN :
          /\ row = [member[p] EXCEPT !.links = t, !.operator = o, !.active = b]
          /\ t \subseteq member[p].links
    <3>1. /\ row = [member[p] EXCEPT !.links = s, !.operator = member[p].operator,
                                     !.active = member[p].active]
          /\ s \subseteq member[p].links
      BY <2>2, <2>3
    <3> HIDE DEF row
    <3> QED BY <2>2, <3>1, Zenon
  <2> HIDE DEF row
  <2> QED BY <1>1, <1>3, <2>1, <2>2, <2>4 DEF LinkLapses
<1>4. ASSUME SwitchRole(p) PROVE OnboardingInv'
  <2> DEFINE row == [member[p] EXCEPT !.operator = ~@]
  <2>1. p \in Existing /\ member' = [member EXCEPT ![p] = row]
    BY <1>4 DEF SwitchRole
  <2>2. /\ row \in MemberRow
        /\ row = [member[p] EXCEPT !.links = member[p].links,
                                   !.operator = ~member[p].operator, !.active = member[p].active]
        /\ member[p].links \in SUBSET Addresses /\ member[p].operator \in BOOLEAN
        /\ member[p].active \in BOOLEAN
    BY <1>2, <2>1 DEF MemberRow
  <2> HIDE DEF row
  <2> QED BY <1>1, <1>4, <2>1, <2>2 DEF SwitchRole
<1>5. ASSUME SwitchState(p) PROVE OnboardingInv'
  <2> DEFINE row == [member[p] EXCEPT !.active = ~@]
  <2>1. p \in Existing /\ member' = [member EXCEPT ![p] = row]
    BY <1>5 DEF SwitchState
  <2>2. /\ row \in MemberRow
        /\ row = [member[p] EXCEPT !.links = member[p].links,
                                   !.operator = member[p].operator, !.active = ~member[p].active]
        /\ member[p].links \in SUBSET Addresses /\ member[p].operator \in BOOLEAN
        /\ member[p].active \in BOOLEAN
    BY <1>2, <2>1 DEF MemberRow
  <2> HIDE DEF row
  <2> QED BY <1>1, <1>5, <2>1, <2>2 DEF SwitchState
<1> QED BY <1>3, <1>4, <1>5

\* The account a request creates, and what becomes of the others.
LEMMA CreatedRows ==
  ASSUME OnboardingInv, NEW c \in Callers, NEW p \in Members, FinishCreate(c, p)
  PROVE  \E r \in Existing \cup {Nobody} :
           /\ member' \in [Members -> MemberRow \cup {Nobody}]
           /\ Existing' = Existing \cup {p}
           /\ member'[p] \in MemberRow
           /\ member'[p].email = handling[c].address
           /\ member'[p].confirmed => member'[p].proof = member'[p].email
           /\ member'[p].links \subseteq {member'[p].email}
           /\ member'[p].external = handling[c].identity
           /\ member'[p].grants = 1 /\ member'[p].bonus = 0 /\ member'[p].referrer = r
           /\ \A x \in Existing :
                /\ member'[x].email = member[x].email
                /\ member'[x].confirmed = member[x].confirmed
                /\ member'[x].proof = member[x].proof
                /\ member'[x].links = member[x].links
                /\ member'[x].external = member[x].external
                /\ member'[x].grants = member[x].grants
                /\ member'[x].referrer = member[x].referrer
                /\ x # r => member'[x].bonus = member[x].bonus
                /\ x = r => member'[x].bonus = member[x].bonus + 1
<1>1. PICK q : q = handling[c]
  OBVIOUS
<1>2. q \in HandlingRow /\ HandlingFine(q) /\ q.op = "create" /\ p \notin Existing
  BY <1>1 DEF OnboardingInv, OnboardingTypeOK, FinishCreate
<1>3. q.address \in Addresses /\ q.identity \in Identities \cup {NoIdentity} /\ q.trusted \in BOOLEAN
  BY <1>2 DEF HandlingFine, HandlingRow
<1>4. PICK r \in Referrers : member' = WithBonus([member EXCEPT ![p] = NewMember(q, r)], r)
  BY <1>1 DEF FinishCreate
<1>5. r \in Existing \cup {Nobody} /\ r # p /\ r \in Members \cup {Nobody}
  BY <1>2, <1>4, OnboardingAssumption DEF Referrers, Existing, OnboardingAssumption
<1>6. PICK new : new = NewMember(q, r)
  OBVIOUS
<1>7. /\ new \in MemberRow /\ new.email = q.address
      /\ new.confirmed => new.proof = new.email
      /\ new.links \subseteq {new.email} /\ new.external = q.identity
      /\ new.grants = 1 /\ new.bonus = 0 /\ new.referrer = r
  BY <1>3, <1>5, <1>6 DEF NewMember, MemberRow, OnboardingInv, OnboardingTypeOK
<1>8. /\ member \in [Members -> MemberRow \cup {Nobody}]
      /\ \A x \in Existing : x \in Members /\ x # p /\ member[x] \in MemberRow
      /\ Nobody \notin MemberRow
  BY <1>2, OnboardingAssumption DEF OnboardingInv, OnboardingTypeOK, Existing, OnboardingAssumption
<1>9. PICK rows : rows = [member EXCEPT ![p] = new]
  OBVIOUS
<1>10. /\ rows \in [Members -> MemberRow \cup {Nobody}] /\ rows[p] = new
       /\ \A x \in Members \ {p} : rows[x] = member[x]
  BY <1>7, <1>8, <1>9
<1>11. CASE r = Nobody
  <2>1. member' = rows
    BY <1>4, <1>6, <1>9, <1>11 DEF WithBonus
  <2>2. Existing' = Existing \cup {p}
    BY <1>7, <1>8, <1>10, <2>1 DEF Existing
  <2>3. \A x \in Existing : member'[x] = member[x] /\ x # r
    BY <1>8, <1>10, <1>11, <2>1, OnboardingAssumption DEF OnboardingAssumption
  <2> QED BY <1>1, <1>5, <1>7, <1>10, <2>1, <2>2, <2>3
<1>12. CASE r \in Existing
  <2>1. PICK paid : paid = [rows[r] EXCEPT !.bonus = @ + 1]
    OBVIOUS
  <2>2. rows[r] = member[r] /\ member[r] \in MemberRow /\ r \in Members /\ r # Nobody
    BY <1>5, <1>8, <1>10, <1>12, OnboardingAssumption DEF OnboardingAssumption
  <2>3. member[r].bonus \in Nat
    BY <2>2 DEF MemberRow
  <2>4. /\ paid \in MemberRow /\ paid.bonus = member[r].bonus + 1
        /\ paid.email = member[r].email /\ paid.confirmed = member[r].confirmed
        /\ paid.proof = member[r].proof /\ paid.links = member[r].links
        /\ paid.external = member[r].external /\ paid.grants = member[r].grants
        /\ paid.referrer = member[r].referrer
    BY <2>1, <2>2, <2>3 DEF MemberRow
  <2>5. member' = [rows EXCEPT ![r] = paid]
    BY <1>4, <1>6, <1>9, <2>1, <2>2 DEF WithBonus
  <2>6. /\ member' \in [Members -> MemberRow \cup {Nobody}] /\ member'[p] = new
        /\ member'[r] = paid
        /\ \A x \in Members \ {p, r} : member'[x] = member[x]
    BY <1>5, <1>10, <2>2, <2>4, <2>5
  <2>7. Existing' = Existing \cup {p}
    BY <1>7, <1>8, <1>12, <2>4, <2>6 DEF Existing
  <2>8. \A x \in Existing : x # r => member'[x] = member[x]
    BY <1>8, <2>6
  <2> QED BY <1>1, <1>5, <1>7, <2>4, <2>6, <2>7, <2>8
<1> QED BY <1>5, <1>11, <1>12

LEMMA FinishCreateKeeps ==
  ASSUME OnboardingInv, NEW c \in Callers, NEW p \in Members, FinishCreate(c, p)
  PROVE  OnboardingInv'
<1>1. PICK q, a, i : q = handling[c] /\ a = q.address /\ i = q.identity
  OBVIOUS
<1>2. /\ HandlingFine(q) /\ q.op = "create" /\ p \notin Existing /\ q \in HandlingRow
      /\ AddressFree(a) /\ Ends(c)
      /\ mustConfirm' = mustConfirm /\ crossed' = crossed /\ overlapped' = overlapped
      /\ identity' = IF i = NoIdentity THEN identity ELSE Linked(i, p)
  BY <1>1 DEF FinishCreate, OnboardingInv, OnboardingTypeOK
<1>3. a \in Addresses /\ i \in Identities \cup {NoIdentity} /\ NoIdentity \notin Identities
  BY <1>1, <1>2, OnboardingAssumption DEF HandlingFine, HandlingRow, OnboardingAssumption
<1>4. PICK r \in Existing \cup {Nobody} :
        /\ member' \in [Members -> MemberRow \cup {Nobody}]
        /\ Existing' = Existing \cup {p}
        /\ member'[p] \in MemberRow
        /\ member'[p].email = a
        /\ member'[p].confirmed => member'[p].proof = member'[p].email
        /\ member'[p].links \subseteq {member'[p].email}
        /\ member'[p].external = i
        /\ member'[p].grants = 1 /\ member'[p].bonus = 0 /\ member'[p].referrer = r
        /\ \A x \in Existing :
             /\ member'[x].email = member[x].email
             /\ member'[x].confirmed = member[x].confirmed
             /\ member'[x].proof = member[x].proof
             /\ member'[x].links = member[x].links
             /\ member'[x].external = member[x].external
             /\ member'[x].grants = member[x].grants
             /\ member'[x].referrer = member[x].referrer
             /\ x # r => member'[x].bonus = member[x].bonus
             /\ x = r => member'[x].bonus = member[x].bonus + 1
  BY <1>1, CreatedRows
<1>5. /\ handling' \in [Callers -> HandlingRow] /\ handling'[c] = NotHandling
      /\ \A d \in Callers : handling'[d] \in {NotHandling, handling[d]}
      /\ handling \in [Callers -> HandlingRow]
  BY <1>2, EndsKeeps DEF OnboardingInv, OnboardingTypeOK
<1>6. identity \in [Identities -> Existing \cup {Nobody}] /\ Nobody \notin Members
  BY OnboardingAssumption DEF OnboardingInv, OnboardingTypeOK, OnboardingAssumption
<1>7. /\ identity' \in [Identities -> Existing \cup {Nobody, p}]
      /\ \A j \in Identities : identity[j] # Nobody => identity'[j] = identity[j]
      /\ \A j \in Identities \ {i} : identity'[j] = identity[j]
      /\ i \in Identities /\ identity[i] = Nobody => identity'[i] = p
  BY <1>2, <1>3, <1>6, LinkedOnce
<1>8. OnboardingTypeOK'
  <2>1. identity' \in [Identities -> Existing' \cup {Nobody}]
    BY <1>4, <1>7
  <2>2. \A x, y \in Existing' : member'[x].email = member'[y].email => x = y
    BY <1>2, <1>4 DEF AddressFree, OnboardingInv, OnboardingTypeOK
  <2>3. mustConfirm' \in BOOLEAN
    BY <1>2 DEF OnboardingInv, OnboardingTypeOK
  <2> QED BY <1>4, <1>5, <2>1, <2>2, <2>3 DEF OnboardingTypeOK
<1>9. MemberFine(p)'
  <2>1. i \notin overlapped \cup {NoIdentity} => identity'[i] = p
    BY <1>1, <1>2, <1>3, <1>7 DEF HandlingFine
  <2> QED BY <1>2, <1>4, <2>1 DEF MemberFine
<1>10. ASSUME NEW x \in Existing PROVE MemberFine(x)'
  <2>1. MemberFine(x) /\ member[x] \in MemberRow /\ x # Nobody
    BY <1>6, RowFacts DEF Existing
  <2>2. member[x].external \in Identities \cup {NoIdentity}
    BY <2>1 DEF MemberRow
  <2>3. member[x].external \notin overlapped \cup {NoIdentity} =>
          identity'[member[x].external] = x
    BY <1>7, <2>1, <2>2 DEF MemberFine
  <2> QED BY <1>2, <1>4, <2>1, <2>3 DEF MemberFine
<1>11. /\ Invited' = IF r = Nobody THEN Invited ELSE Invited \cup {p}
       /\ \A x \in Existing : InvitedBy(x)' = IF x = r THEN InvitedBy(x) \cup {p} ELSE InvitedBy(x)
       /\ InvitedBy(p)' = {}
  <2>1. \A x \in Existing : member'[x].referrer = member[x].referrer /\ x # p /\ member[x].referrer # p
    BY <1>2, <1>4, <1>6 DEF OnboardingInv, MemberFine, Existing
  <2>2. member'[p].referrer = r /\ r # p /\ Existing' = Existing \cup {p}
    BY <1>2, <1>4, <1>6
  <2>3. Invited' = IF r = Nobody THEN Invited ELSE Invited \cup {p}
    BY <2>1, <2>2 DEF Invited
  <2>4. \A x \in Existing : InvitedBy(x)' = IF x = r THEN InvitedBy(x) \cup {p} ELSE InvitedBy(x)
    BY <2>1, <2>2 DEF InvitedBy
  <2>5. InvitedBy(p)' = {}
    BY <2>1, <2>2 DEF InvitedBy
  <2> QED BY <2>3, <2>4, <2>5
<1>12. IsFiniteSet(Invited')
  BY <1>11, FS_AddElement DEF OnboardingInv
<1>13. ASSUME NEW x \in Existing PROVE member'[x].bonus = Cardinality(InvitedBy(x)')
  <2>1. InvitedBy(x) \subseteq Invited /\ p \notin InvitedBy(x)
    BY <1>2, <1>6 DEF InvitedBy, Invited, Existing
  <2>2. IsFiniteSet(InvitedBy(x))
    BY <2>1, FS_Subset DEF OnboardingInv
  <2>3. Cardinality(InvitedBy(x) \cup {p}) = Cardinality(InvitedBy(x)) + 1
    BY <2>1, <2>2, FS_AddElement
  <2>4. member[x].bonus = Cardinality(InvitedBy(x))
    BY DEF OnboardingInv
  <2>5. CASE x = r
    <3>1. member'[x].bonus = member[x].bonus + 1
      BY <1>4, <2>5
    <3>2. InvitedBy(x)' = InvitedBy(x) \cup {p}
      BY <1>11, <2>5
    <3> QED BY <2>3, <2>4, <3>1, <3>2
  <2>6. CASE x # r
    BY <1>4, <1>11, <2>4, <2>6
  <2> QED BY <2>5, <2>6
<1>14. member'[p].bonus = Cardinality(InvitedBy(p)')
  BY <1>4, <1>11, FS_EmptySet
<1>15. \A d \in Callers : HandlingFine(handling[d])'
  <2> SUFFICES ASSUME NEW d \in Callers PROVE HandlingFine(handling[d])'
    OBVIOUS
  <2>1. CASE handling'[d] = NotHandling
    BY <2>1 DEF HandlingFine, NotHandling
  <2>2. CASE handling'[d] = handling[d] /\ d # c
    <3>1. PICK b : b = handling[d]
      OBVIOUS
    <3>2. HandlingFine(b) /\ handling'[d] = b /\ b \in HandlingRow /\ Apart(b, q)
      BY <1>1, <2>2, <3>1 DEF OnboardingInv, OnboardingTypeOK
    <3>3. b.identity \notin overlapped \cup {NoIdentity} =>
            \/ identity'[b.identity] = Nobody
            \/ b.op = "link" /\ identity'[b.identity] = b.member
      <4>1. b.identity \in Identities \cup {NoIdentity}
        BY <3>2 DEF HandlingRow
      <4>2. b.identity \notin overlapped \cup {NoIdentity} => b.identity # i
        BY <1>1, <1>2, <3>2 DEF Apart, HandlingFine
      <4> QED BY <1>7, <3>2, <4>1, <4>2 DEF HandlingFine
    <3>4. b.op \in {"confirm", "resend"} /\ b.member \notin crossed' => b.address = member'[b.member].email
      BY <1>2, <1>4, <3>2 DEF HandlingFine
    <3>5. b.op = "core" /\ b.member \notin overlapped => member'[b.member].grants = 0
      BY <1>4, <3>2 DEF HandlingFine
    <3> QED BY <1>2, <1>4, <3>2, <3>3, <3>4, <3>5 DEF HandlingFine
  <2> QED BY <1>5, <2>1, <2>2
<1>16. \A d, e \in Callers : d # e => Apart(handling[d], handling[e])'
  <2> SUFFICES ASSUME NEW d \in Callers, NEW e \in Callers, d # e
               PROVE  Apart(handling[d], handling[e])'
    OBVIOUS
  <2>1. CASE handling'[d] = NotHandling \/ handling'[e] = NotHandling
    BY <2>1, NotHandlingRow DEF Apart
  <2>2. CASE handling'[d] = handling[d] /\ handling'[e] = handling[e]
    <3>1. Apart(handling[d], handling[e]) /\ handling[d].identity \in Identities \cup {NoIdentity}
      BY DEF OnboardingInv, OnboardingTypeOK, HandlingRow
    <3> QED BY <1>2, <1>7, <2>2, <3>1 DEF Apart
  <2> QED BY <1>5, <2>1, <2>2
<1> QED BY <1>4, <1>8, <1>9, <1>10, <1>12, <1>13, <1>14, <1>15, <1>16 DEF OnboardingInv

LEMMA OnboardingStep ==
  ASSUME OnboardingInv, [OnboardingNext]_onboardingVars
  PROVE  OnboardingInv'
<1>1. ASSUME NEW c \in Callers
      PROVE  FinishLink(c) \/ FinishChange(c) \/ FinishConfirm(c) \/ FinishResend(c) \/ FinishCore(c)
               => OnboardingInv'
  BY FinishLinkKeeps, FinishChangeKeeps, FinishConfirmKeeps, FinishResendKeeps, FinishCoreKeeps
<1>2. ASSUME NEW c \in Callers, Ends(c), UNCHANGED <<member, identity, mustConfirm, crossed, overlapped>>
      PROVE  OnboardingInv'
  <2>1. /\ handling' \in [Callers -> HandlingRow]
        /\ \A d \in Callers : handling'[d] \in {NotHandling, handling[d]}
    BY <1>2, EndsKeeps
  <2>2. Existing' = Existing /\ Invited' = Invited /\ \A p : InvitedBy(p)' = InvitedBy(p)
    BY <1>2 DEF Existing, Invited, InvitedBy
  <2>3. OnboardingTypeOK'
    BY <1>2, <2>1, <2>2 DEF OnboardingInv, OnboardingTypeOK
  <2>4. \A p \in Existing : MemberFine(p)'
    BY <1>2, <2>2 DEF OnboardingInv, MemberFine
  <2>5. \A d \in Callers : HandlingFine(handling[d])'
    BY <1>2, <2>1, <2>2 DEF OnboardingInv, HandlingFine, NotHandling
  <2>6. \A d, e \in Callers : d # e => Apart(handling[d], handling[e])'
    BY <1>2, <2>1 DEF OnboardingInv, Apart, NotHandling
  <2> QED BY <1>2, <2>2, <2>3, <2>4, <2>5, <2>6 DEF OnboardingInv
<1>3. ASSUME UNCHANGED <<member, identity, handling, crossed, overlapped>>, mustConfirm' \in BOOLEAN
      PROVE  OnboardingInv'
  <2>1. Existing' = Existing /\ Invited' = Invited /\ \A p : InvitedBy(p)' = InvitedBy(p)
    BY <1>3 DEF Existing, Invited, InvitedBy
  <2>2. OnboardingTypeOK'
    BY <1>3, <2>1 DEF OnboardingInv, OnboardingTypeOK
  <2>3. \A p \in Existing : MemberFine(p)'
    BY <1>3, <2>1 DEF OnboardingInv, MemberFine
  <2>4. \A d \in Callers : HandlingFine(handling[d])'
    BY <1>3, <2>1 DEF OnboardingInv, HandlingFine
  <2>5. \A d, e \in Callers : d # e => Apart(handling[d], handling[e])'
    BY <1>3 DEF OnboardingInv, Apart
  <2> QED BY <1>3, <2>1, <2>2, <2>3, <2>4, <2>5 DEF OnboardingInv
<1>4. CASE OnboardingNext
  <2>1. CASE \E c \in Callers : HandlingFails(c)
    BY <1>2, <2>1 DEF HandlingFails
  <2>2. CASE SwitchMail
    BY <1>3, <2>2 DEF SwitchMail, OnboardingInv, OnboardingTypeOK
  <2> QED BY <1>1, <1>4, <2>1, <2>2, RequestsBegin, FinishCreateKeeps, RowsEdited DEF OnboardingNext
<1>5. CASE UNCHANGED onboardingVars
  BY <1>3, <1>5 DEF onboardingVars, OnboardingInv, OnboardingTypeOK
<1> QED BY <1>4, <1>5

LEMMA OnboardingPart ==
  ASSUME [Next]_allVars
  PROVE  [OnboardingNext]_onboardingVars
BY DEF Next, SecuritySteps, OnboardingSteps, PhoneSteps, allVars

LEMMA OnboardingAlways == Spec => []OnboardingInv
<1>1. Init => OnboardingInv
  BY OnboardingStart DEF Init
<1>2. OnboardingInv /\ [Next]_allVars => OnboardingInv'
  BY OnboardingStep, OnboardingPart
<1> QED BY <1>1, <1>2, PTL DEF Spec

\* Accounts are what their registration, their provider and their links proved,
\* and are credited for it once, however many requests read before they write
\* (register, social login, update_me, confirm_email, _ensure_user_core).
THEOREM AccountsAreProved == Spec => []OnboardingInvariant
BY OnboardingAlways, OnboardingInvImplies, PTL

\* No step moves an identity to another account
\* (the ON CONFLICT clause of _touch_social_identity).
THEOREM IdentitiesStay == Spec => IdentityNeverMoves
<1> DEFINE Stays == \A i \in Identities : identity[i] # Nobody => identity'[i] = identity[i]
<1>1. OnboardingInv /\ [Next]_allVars => [Stays]_onboardingVars
  <2> SUFFICES ASSUME OnboardingInv, OnboardingNext PROVE Stays
    BY OnboardingPart
  <2>1. ASSUME NEW j \in Identities, NEW p, identity' = Linked(j, p) PROVE Stays
    BY <2>1, LinkedOnce DEF OnboardingInv, OnboardingTypeOK
  <2>2. ASSUME NEW c \in Callers
        PROVE  /\ FinishLink(c) => Stays
               /\ \A p \in Members : FinishCreate(c, p) => Stays
    <3>1. HandlingFine(handling[c]) /\ handling[c] \in HandlingRow
      BY DEF OnboardingInv, OnboardingTypeOK
    <3>2. FinishLink(c) => Stays
      BY <2>1, <3>1 DEF FinishLink, HandlingFine
    <3>3. ASSUME NEW p \in Members, FinishCreate(c, p) PROVE Stays
      <4>1. handling[c].identity \in Identities \cup {NoIdentity}
        BY <3>1 DEF HandlingRow
      <4>2. CASE handling[c].identity = NoIdentity
        BY <3>3, <4>2 DEF FinishCreate
      <4>3. CASE handling[c].identity \in Identities /\ handling[c].identity # NoIdentity
        <5>1. identity' = Linked(handling[c].identity, p)
          BY <3>3, <4>3 DEF FinishCreate
        <5> QED BY <2>1, <4>3, <5>1
      <4> QED BY <4>1, <4>2, <4>3
    <3> QED BY <3>2, <3>3
  <2>3. UNCHANGED identity => Stays
    OBVIOUS
  <2> HIDE DEF Stays
  <2>4. ASSUME NEW c \in Callers
        PROVE  /\ \A a \in Addresses : BeginRegister(c, a) => Stays
               /\ \A i \in Identities, a \in Addresses, v \in BOOLEAN : BeginSocial(c, i, a, v) => Stays
               /\ \A p \in Members, a \in Addresses : BeginChange(c, p, a) \/ BeginConfirm(c, p, a) => Stays
               /\ \A p \in Members : BeginResend(c, p) \/ BeginCore(c, p) => Stays
               /\ FinishChange(c) \/ FinishConfirm(c) \/ FinishResend(c) \/ FinishCore(c)
                    \/ HandlingFails(c) => Stays
    BY <2>3 DEF BeginRegister, BeginSocial, BeginChange, BeginConfirm, BeginResend, BeginCore, Begins,
                FinishChange, FinishConfirm, FinishResend, FinishCore, HandlingFails
  <2>5. /\ \A p \in Members, a \in Addresses : LinkLapses(p, a) => Stays
        /\ \A p \in Members : SwitchRole(p) \/ SwitchState(p) => Stays
        /\ SwitchMail => Stays
    BY <2>3 DEF LinkLapses, SwitchRole, SwitchState, SwitchMail
  <2> QED BY <2>2, <2>4, <2>5 DEF OnboardingNext
<1> QED BY <1>1, OnboardingAlways, PTL DEF Spec, IdentityNeverMoves

-----------------------------------------------------------------------------
(* Sessions, second factors and links.                                     *)

\* Passwords and recoveries are counted by the edits.
EditsCount ==
    /\ accountEdits \in 0..MaxAccountEdits
    /\ \A u \in Accounts : account[u].pw <= accountEdits /\ factor[u].gen <= accountEdits

\* A session that proved a factor proved one that still stands.
SessionsProved ==
    \A s \in SessionSlots :
      session[s].user # NoAccount /\ session[s].mfa =>
        /\ session[s].gen = factor[session[s].user].gen
        /\ factor[session[s].user].confirmed > 0

\* Unless two enrollments overlapped, an account has one confirmed factor, or
\* one enrollment under way that leads to it.
FactorFine(u) ==
    u \notin enrolledTwice =>
      /\ factor[u].confirmed <= 1
      /\ factor[u].confirmed = 1 => ~factor[u].staged /\ Enrolling(u) = {}
      /\ \A c, d \in Enrolling(u) : c = d

ChallengesFine ==
    \A c \in ChallengeSlots :
      challenge[c].user # NoAccount /\ challenge[c].purpose = "verify" =>
        factor[challenge[c].user].confirmed > 0

LinksFine ==
    \A l \in ResetLinks :
      /\ link[l].state # "used" => link[l].uses = 0
      /\ link[l].state = "open" => link[l].user \in Accounts
      /\ l \notin linkShared => link[l].uses <= 1

\* A link that one request holds has not been used.
RequestFine(r) ==
    LET q == request[r] IN
    /\ q.op # "idle" => q.user \in Accounts
    /\ IF q.op = "reset" THEN q.link \in ResetLinks ELSE q.link = NoLink
    /\ q.link \notin linkShared \cup {NoLink} =>
         link[q.link].uses = 0 /\ \A p \in Requests \ {r} : request[p].link # q.link

RequestsFine == \A r \in Requests : RequestFine(r)

SecurityInv ==
    /\ SecurityTypeOK /\ EditsCount
    /\ SessionsMatchAccount /\ SessionsProved
    /\ \A u \in Accounts : FactorFine(u)
    /\ ChallengesFine /\ LinksFine /\ RequestsFine

LEMMA SecurityInvImplies == SecurityInv => SecurityInvariant
<1> SUFFICES ASSUME SecurityInv PROVE SecurityInvariant
  OBVIOUS
<1>1. StaffSessionsProved
  <2> SUFFICES ASSUME NEW s \in SessionSlots, StaffSession(s)
               PROVE  /\ session[s].gen = factor[session[s].user].gen
                      /\ HasFactor(session[s].user)
    BY DEF StaffSessionsProved
  <2>1. session[s].user # NoAccount /\ session[s].mfa
    BY DEF StaffSession
  <2> QED BY <2>1 DEF SecurityInv, SessionsProved, HasFactor
<1>2. OneFactor
  BY DEF SecurityInv, FactorFine, OneFactor
<1>3. LinkUsedOnce
  BY DEF SecurityInv, LinksFine, LinkUsedOnce
<1> QED BY <1>1, <1>2, <1>3 DEF SecurityInv, SecurityInvariant

LEMMA EmptyRows ==
  /\ NoSession \in SessionRow /\ NoSession.user = NoAccount
  /\ NoChallenge \in ChallengeRow /\ NoChallenge.user = NoAccount /\ NoChallenge.purpose = "verify"
  /\ NoFactor \in FactorRow /\ NoFactor.confirmed = 0 /\ ~NoFactor.staged /\ ~NoFactor.codes
  /\ NoFactor.gen = 0
  /\ Idle \in RequestRow /\ Idle.op = "idle" /\ Idle.link = NoLink
BY AccountAssumption DEF AccountAssumption, NoSession, SessionRow, NoChallenge, ChallengeRow,
   NoFactor, FactorRow, Idle, RequestRow, Roles

LEMMA SecurityStart == SecurityInit => SecurityInv
<1> SUFFICES ASSUME SecurityInit PROVE SecurityInv
  OBVIOUS
<1>1. SecurityTypeOK
  <2>1. account \in [Accounts -> AccountRow]
    BY AccountAssumption DEF SecurityInit, AccountRow, Roles, AccountAssumption
  <2>2. link \in [ResetLinks -> LinkRow]
    BY DEF SecurityInit, LinkRow
  <2> QED BY <2>1, <2>2, EmptyRows DEF SecurityInit, SecurityTypeOK
<1>2. EditsCount
  BY AccountAssumption, EmptyRows DEF SecurityInit, EditsCount, AccountAssumption
<1>3. SessionsMatchAccount /\ SessionsProved /\ ChallengesFine
  BY EmptyRows DEF SecurityInit, SessionsMatchAccount, SessionsProved, ChallengesFine
<1>4. \A u \in Accounts : FactorFine(u)
  <2>1. \A u \in Accounts : Enrolling(u) = {}
    BY EmptyRows DEF SecurityInit, Enrolling
  <2> QED BY <2>1, EmptyRows DEF SecurityInit, FactorFine
<1>5. LinksFine
  BY DEF SecurityInit, LinksFine
<1>6. RequestsFine
  BY EmptyRows DEF SecurityInit, RequestsFine, RequestFine
<1> QED BY <1>1, <1>2, <1>3, <1>4, <1>5, <1>6 DEF SecurityInv

\* What a step leaves alone stays fine.
LEMMA AccountPartsKept ==
  /\ ChallengesFine /\ UNCHANGED <<challenge, factor>> => ChallengesFine'
  /\ (\A u \in Accounts : FactorFine(u)) /\ UNCHANGED <<challenge, factor, enrolledTwice>> =>
       \A u \in Accounts : FactorFine(u)'
  /\ SessionsMatchAccount /\ UNCHANGED <<session, account>> => SessionsMatchAccount'
  /\ SessionsProved /\ UNCHANGED <<session, factor>> => SessionsProved'
  /\ LinksFine /\ UNCHANGED <<link, linkShared>> => LinksFine'
  /\ RequestsFine /\ UNCHANGED <<request, link, linkShared>> => RequestsFine'
  /\ EditsCount /\ UNCHANGED <<account, factor, accountEdits>> => EditsCount'
BY DEF ChallengesFine, FactorFine, Enrolling, SessionsMatchAccount, SessionsProved, LinksFine,
       RequestsFine, RequestFine, EditsCount

\* Sessions that end: those of the others stand for what they stood for.
LEMMA SessionsEnd ==
  ASSUME SecurityInv, NEW u,
         session' \in [SessionSlots -> SessionRow],
         \A s \in SessionSlots : session'[s] \in {NoSession, session[s]},
         \A s \in SessionSlots : session[s].user = u => session'[s].user # u,
         \A v \in Accounts \ {u} : account'[v] = account[v] /\ factor'[v] = factor[v]
  PROVE  SessionsMatchAccount' /\ SessionsProved'
<1>1. \A s \in SessionSlots : session'[s].user # NoAccount =>
        /\ session'[s] = session[s] /\ session[s].user \in Accounts \ {u}
  BY EmptyRows DEF SecurityInv, SecurityTypeOK, SessionRow
<1>2. SessionsMatchAccount'
  BY <1>1 DEF SecurityInv, SessionsMatchAccount
<1>3. SessionsProved'
  BY <1>1 DEF SecurityInv, SessionsProved
<1> QED BY <1>2, <1>3

LEMMA SessionsWithout ==
  ASSUME SecurityInv, NEW u \in Accounts, session' = WithoutSessions(u)
  PROVE  /\ session' \in [SessionSlots -> SessionRow]
         /\ \A s \in SessionSlots : session'[s] \in {NoSession, session[s]}
         /\ \A s \in SessionSlots : session[s].user = u => session'[s].user # u
<1>1. session \in [SessionSlots -> SessionRow] /\ u # NoAccount
  BY AccountAssumption DEF SecurityInv, SecurityTypeOK, AccountAssumption
<1> QED BY <1>1, EmptyRows DEF WithoutSessions

\* The row of an account is written, and its sessions are revoked.
LEMMA AccountWritten ==
  ASSUME SecurityInv, NEW u \in Accounts, NEW row \in AccountRow, Edited,
         row.pw <= accountEdits + 1, account' = [account EXCEPT ![u] = row],
         session' = WithoutSessions(u), UNCHANGED <<challenge, factor, enrolledTwice, linkShared>>,
         link' \in [ResetLinks -> LinkRow], request' \in [Requests -> RequestRow],
         LinksFine', RequestsFine'
  PROVE  SecurityInv'
<1>1. /\ account' \in [Accounts -> AccountRow] /\ account'[u] = row
      /\ \A v \in Accounts \ {u} : account'[v] = account[v]
  BY DEF SecurityInv, SecurityTypeOK
<1>2. /\ session' \in [SessionSlots -> SessionRow]
      /\ \A s \in SessionSlots : session'[s] \in {NoSession, session[s]}
      /\ \A s \in SessionSlots : session[s].user = u => session'[s].user # u
  BY SessionsWithout
<1>3. SessionsMatchAccount' /\ SessionsProved'
  BY <1>1, <1>2, SessionsEnd
<1>4. SecurityTypeOK'
  BY <1>1, <1>2 DEF SecurityInv, SecurityTypeOK
<1>5. EditsCount'
  <2>1. /\ accountEdits \in Nat /\ MaxAccountEdits \in Nat /\ accountEdits' = accountEdits + 1
        /\ accountEdits < MaxAccountEdits
    BY AccountAssumption DEF SecurityInv, EditsCount, Edited, AccountAssumption
  <2>2. \A v \in Accounts : account[v].pw \in Nat /\ factor[v].gen \in Nat
    BY DEF SecurityInv, SecurityTypeOK, AccountRow, FactorRow
  <2>3. \A v \in Accounts : account[v].pw <= accountEdits /\ factor[v].gen <= accountEdits
    BY DEF SecurityInv, EditsCount
  <2>4. \A v \in Accounts : factor'[v].gen <= accountEdits'
    BY <2>1, <2>2, <2>3
  <2>5. \A v \in Accounts : account'[v].pw <= accountEdits'
    <3> SUFFICES ASSUME NEW v \in Accounts PROVE account'[v].pw <= accountEdits'
      OBVIOUS
    <3>1. CASE v = u
      BY <1>1, <2>1, <3>1
    <3>2. CASE v # u
      <4>1. account'[v].pw = account[v].pw /\ account[v].pw <= accountEdits /\ account[v].pw \in Nat
        BY <1>1, <2>2, <2>3, <3>2
      <4> QED BY <2>1, <4>1
    <3> QED BY <3>1, <3>2
  <2> QED BY <2>1, <2>4, <2>5 DEF EditsCount
<1>6. ChallengesFine' /\ \A v \in Accounts : FactorFine(v)'
  BY AccountPartsKept DEF SecurityInv
<1> QED BY <1>3, <1>4, <1>5, <1>6 DEF SecurityInv

\* What an account may become by one edit.
LEMMA AccountRows ==
  ASSUME SecurityInv, NEW u \in Accounts, Edited
  PROVE  /\ [account[u] EXCEPT !.active = FALSE] \in AccountRow
         /\ [account[u] EXCEPT !.active = FALSE].pw <= accountEdits + 1
         /\ [account[u] EXCEPT !.active = TRUE] \in AccountRow
         /\ [account[u] EXCEPT !.active = TRUE].pw <= accountEdits + 1
         /\ [account[u] EXCEPT !.pw = @ + 1] \in AccountRow
         /\ [account[u] EXCEPT !.pw = @ + 1].pw <= accountEdits + 1
         /\ \A role \in Roles : /\ [account[u] EXCEPT !.role = role] \in AccountRow
                                /\ [account[u] EXCEPT !.role = role].pw <= accountEdits + 1
<1>1. account[u] \in AccountRow
  BY DEF SecurityInv, SecurityTypeOK
<1>2. /\ account[u].pw \in Nat /\ account[u].pw <= accountEdits
      /\ accountEdits \in Nat /\ MaxAccountEdits \in Nat /\ accountEdits < MaxAccountEdits
  BY <1>1, AccountAssumption DEF SecurityInv, EditsCount, Edited, AccountAssumption, AccountRow
<1>3. account[u].pw + 1 \in 0..MaxAccountEdits /\ account[u].pw + 1 <= accountEdits + 1
      /\ account[u].pw <= accountEdits + 1
  BY <1>2
<1> QED BY <1>1, <1>3 DEF AccountRow

LEMMA RequestDone ==
  ASSUME SecurityInv, NEW r \in Requests, request' = [request EXCEPT ![r] = Idle]
  PROVE  /\ request' \in [Requests -> RequestRow] /\ request'[r] = Idle
         /\ \A p \in Requests \ {r} : request'[p] = request[p]
         /\ UNCHANGED <<link, linkShared>> => RequestsFine'
<1>1. /\ request' \in [Requests -> RequestRow] /\ request'[r] = Idle
      /\ \A p \in Requests \ {r} : request'[p] = request[p]
  BY EmptyRows DEF SecurityInv, SecurityTypeOK
<1>2. ASSUME UNCHANGED <<link, linkShared>>, NEW p \in Requests PROVE RequestFine(p)'
  <2>1. CASE p = r
    BY <1>1, <2>1, EmptyRows DEF RequestFine
  <2>2. CASE p # r
    <3>1. /\ RequestFine(p) /\ request'[p] = request[p]
          /\ \A q \in Requests : request'[q].link \in {NoLink, request[q].link}
      BY <1>1, <2>2, EmptyRows DEF SecurityInv, RequestsFine
    <3> QED BY <1>2, <3>1 DEF RequestFine
  <2> QED BY <2>1, <2>2
<1> QED BY <1>1, <1>2 DEF RequestsFine

LEMMA FinishResetKeeps ==
  ASSUME SecurityInv, NEW r \in Requests, FinishReset(r)
  PROVE  SecurityInv'
<1>1. PICK q, u, l : q = request[r] /\ u = q.user /\ l = q.link
  OBVIOUS
<1>2. /\ RequestFine(r) /\ q.op = "reset" /\ Edited
      /\ account' = [account EXCEPT ![u].pw = @ + 1] /\ session' = WithoutSessions(u)
      /\ link' = [link EXCEPT ![l] = LinkAfterUse(@)]
      /\ request' = [request EXCEPT ![r] = Idle]
      /\ UNCHANGED <<challenge, factor, enrolledTwice, linkShared>>
  BY <1>1 DEF FinishReset, SecurityInv, RequestsFine
<1>3. u \in Accounts /\ l \in ResetLinks /\ l # NoLink
  BY <1>1, <1>2, AccountAssumption DEF RequestFine, AccountAssumption
<1>4. /\ link \in [ResetLinks -> LinkRow] /\ link[l] \in LinkRow /\ link[l].uses \in Nat
  BY <1>3 DEF SecurityInv, SecurityTypeOK, LinkRow
<1>5. /\ LinkAfterUse(link[l]) \in LinkRow /\ LinkAfterUse(link[l]).state = "used"
      /\ LinkAfterUse(link[l]).uses = link[l].uses + 1
  <2>1. PICK row \in LinkRow : row = link[l] /\ row.uses \in Nat /\ row.uses + 1 \in Nat
    BY <1>4
  <2>2. LinkAfterUse(row) = [row EXCEPT !.state = "used", !.user = NoAccount, !.uses = row.uses + 1]
    BY DEF LinkAfterUse
  <2>3. /\ LinkAfterUse(row) \in LinkRow /\ LinkAfterUse(row).state = "used"
        /\ LinkAfterUse(row).uses = row.uses + 1
    BY <2>1, <2>2 DEF LinkRow
  <2> QED BY <2>1, <2>3
<1>6. /\ link' \in [ResetLinks -> LinkRow] /\ link'[l] = LinkAfterUse(link[l])
      /\ \A k \in ResetLinks \ {l} : link'[k] = link[k]
  BY <1>2, <1>3, <1>4, <1>5
<1>7. /\ request' \in [Requests -> RequestRow] /\ request'[r] = Idle
      /\ \A p \in Requests \ {r} : request'[p] = request[p]
  BY <1>2, RequestDone
<1>8. l \notin linkShared => link[l].uses = 0 /\ \A p \in Requests \ {r} : request[p].link # l
  BY <1>1, <1>2, <1>3 DEF RequestFine
<1>9. LinksFine'
  <2> SUFFICES ASSUME NEW k \in ResetLinks
               PROVE  /\ link'[k].state # "used" => link'[k].uses = 0
                      /\ link'[k].state = "open" => link'[k].user \in Accounts
                      /\ k \notin linkShared => link'[k].uses <= 1
    BY <1>2 DEF LinksFine
  <2>1. CASE k = l
    <3>1. link'[k].state = "used" /\ link'[k].uses = link[l].uses + 1
      BY <1>5, <1>6, <2>1
    <3>2. k \notin linkShared => link'[k].uses <= 1
      BY <1>8, <2>1, <3>1
    <3> QED BY <3>1, <3>2
  <2>2. CASE k # l
    BY <1>6, <2>2 DEF SecurityInv, LinksFine
  <2> QED BY <2>1, <2>2
<1>10. RequestsFine'
  <2> SUFFICES ASSUME NEW p \in Requests PROVE RequestFine(p)'
    BY DEF RequestsFine
  <2>1. CASE p = r
    BY <1>7, <2>1, EmptyRows DEF RequestFine
  <2>2. CASE p # r
    <3>1. /\ RequestFine(p) /\ request'[p] = request[p]
          /\ request[p].link = l => l \in linkShared
          /\ \A b \in Requests : request'[b].link \in {NoLink, request[b].link}
      BY <1>7, <1>8, <2>2, EmptyRows DEF SecurityInv, RequestsFine
    <3>2. request[p].op = "reset" => request[p].link \in ResetLinks
      BY <3>1 DEF RequestFine
    <3>3. request[p].link \in ResetLinks \cup {NoLink}
      BY <3>1 DEF RequestFine
    <3> QED BY <1>2, <1>6, <3>1, <3>3 DEF RequestFine
  <2> QED BY <2>1, <2>2
<1>11. PICK row : row = [account[u] EXCEPT !.pw = @ + 1]
  OBVIOUS
<1>12. account' = [account EXCEPT ![u] = row] /\ row \in AccountRow /\ row.pw <= accountEdits + 1
  BY <1>2, <1>3, <1>11, AccountRows
<1> QED BY <1>2, <1>3, <1>6, <1>7, <1>9, <1>10, <1>12, AccountWritten

LEMMA AccountsEdited ==
  ASSUME SecurityInv
  PROVE  /\ \A r \in Requests : FinishDeactivate(r) \/ FinishRoles(r) => SecurityInv'
         /\ \A u \in Accounts : DeleteAccount(u) \/ BootstrapPassword(u) => SecurityInv'
<1>1. ASSUME NEW u \in Accounts, NEW row \in AccountRow, Edited, row.pw <= accountEdits + 1,
             account' = [account EXCEPT ![u] = row], session' = WithoutSessions(u),
             UNCHANGED <<challenge, factor, link, enrolledTwice, linkShared>>,
             request' = request \/ \E r \in Requests : request' = [request EXCEPT ![r] = Idle]
      PROVE  SecurityInv'
  <2>1. request' \in [Requests -> RequestRow] /\ RequestsFine'
    BY <1>1, RequestDone, AccountPartsKept DEF SecurityInv, SecurityTypeOK
  <2>2. link' \in [ResetLinks -> LinkRow] /\ LinksFine'
    BY <1>1, AccountPartsKept DEF SecurityInv, SecurityTypeOK
  <2> QED BY <1>1, <2>1, <2>2, AccountWritten
<1>2. ASSUME NEW r \in Requests, FinishDeactivate(r) PROVE SecurityInv'
  <2>1. PICK u, row : u = request[r].user /\ row = [account[u] EXCEPT !.active = FALSE]
    OBVIOUS
  <2>2. /\ request[r].op = "deactivate" /\ RequestFine(r) /\ Edited
        /\ account' = [account EXCEPT ![u] = row] /\ session' = WithoutSessions(u)
        /\ request' = [request EXCEPT ![r] = Idle]
        /\ UNCHANGED <<challenge, factor, link, enrolledTwice, linkShared>>
    BY <1>2, <2>1 DEF FinishDeactivate, SecurityInv, RequestsFine
  <2>3. u \in Accounts
    BY <2>1, <2>2 DEF RequestFine
  <2>4. row \in AccountRow /\ row.pw <= accountEdits + 1
    BY <2>1, <2>2, <2>3, AccountRows
  <2> QED BY <1>1, <2>2, <2>3, <2>4
<1>3. ASSUME NEW r \in Requests, FinishRoles(r) PROVE SecurityInv'
  <2>1. PICK u, role, row : /\ u = request[r].user /\ role = request[r].role
                            /\ row = [account[u] EXCEPT !.role = role]
    OBVIOUS
  <2>2. /\ request[r].op = "roles" /\ RequestFine(r) /\ Edited
        /\ account' = [account EXCEPT ![u] = row] /\ session' = WithoutSessions(u)
        /\ request' = [request EXCEPT ![r] = Idle]
        /\ UNCHANGED <<challenge, factor, link, enrolledTwice, linkShared>>
    BY <1>3, <2>1 DEF FinishRoles, SecurityInv, RequestsFine
  <2>3. u \in Accounts /\ role \in Roles
    BY <2>1, <2>2 DEF RequestFine, SecurityInv, SecurityTypeOK, RequestRow
  <2>4. row \in AccountRow /\ row.pw <= accountEdits + 1
    BY <2>1, <2>2, <2>3, AccountRows
  <2> QED BY <1>1, <2>2, <2>3, <2>4
<1>4. ASSUME NEW u \in Accounts, DeleteAccount(u) PROVE SecurityInv'
  <2>1. PICK row : row = [account[u] EXCEPT !.active = FALSE]
    OBVIOUS
  <2>2. /\ Edited /\ account' = [account EXCEPT ![u] = row] /\ session' = WithoutSessions(u)
        /\ UNCHANGED <<challenge, factor, link, request, enrolledTwice, linkShared>>
    BY <1>4, <2>1 DEF DeleteAccount
  <2>3. row \in AccountRow /\ row.pw <= accountEdits + 1
    BY <2>1, <2>2, AccountRows
  <2> QED BY <1>1, <2>2, <2>3
<1>5. ASSUME NEW u \in Accounts, BootstrapPassword(u) PROVE SecurityInv'
  <2>1. PICK row : row = [account[u] EXCEPT !.pw = @ + 1]
    OBVIOUS
  <2>2. /\ Edited /\ account' = [account EXCEPT ![u] = row] /\ session' = WithoutSessions(u)
        /\ UNCHANGED <<challenge, factor, link, request, enrolledTwice, linkShared>>
    BY <1>5, <2>1 DEF BootstrapPassword
  <2>3. row \in AccountRow /\ row.pw <= accountEdits + 1
    BY <2>1, <2>2, AccountRows
  <2> QED BY <1>1, <2>2, <2>3
<1> QED BY <1>2, <1>3, <1>4, <1>5

\* The one edit that revokes nothing: a session there is was opened with the
\* account active.
LEMMA ReactivateKeeps ==
  ASSUME SecurityInv, NEW actor \in Accounts, NEW u \in Accounts, Reactivate(actor, u)
  PROVE  SecurityInv'
<1>1. PICK row : row = [account[u] EXCEPT !.active = TRUE]
  OBVIOUS
<1>2. /\ Edited /\ account' = [account EXCEPT ![u] = row]
      /\ UNCHANGED <<session, challenge, factor, link, request, enrolledTwice, linkShared>>
  BY <1>1 DEF Reactivate
<1>3. row \in AccountRow /\ row.pw <= accountEdits + 1
  BY <1>1, <1>2, AccountRows
<1>4. /\ account' \in [Accounts -> AccountRow] /\ account'[u] = row
      /\ \A v \in Accounts \ {u} : account'[v] = account[v]
      /\ account[u] \in AccountRow
  BY <1>2, <1>3 DEF SecurityInv, SecurityTypeOK
<1>5. account[u].active => row = account[u]
  BY <1>1, <1>4 DEF AccountRow
<1>6. SessionsMatchAccount'
  <2> SUFFICES ASSUME NEW s \in SessionSlots, session[s].user # NoAccount, ~session[s].late
               PROVE  account'[session[s].user] =
                        [role |-> session[s].role, active |-> TRUE, pw |-> session[s].pw]
    BY <1>2 DEF SessionsMatchAccount
  <2>1. /\ account[session[s].user] =
             [role |-> session[s].role, active |-> TRUE, pw |-> session[s].pw]
        /\ session[s].user \in Accounts
    BY DEF SecurityInv, SessionsMatchAccount, SecurityTypeOK, SessionRow
  <2>2. account'[session[s].user] = account[session[s].user]
    BY <1>4, <1>5, <2>1
  <2> QED BY <2>1, <2>2
<1>7. EditsCount'
  <2>1. /\ accountEdits \in Nat /\ MaxAccountEdits \in Nat /\ accountEdits' = accountEdits + 1
        /\ accountEdits < MaxAccountEdits
    BY <1>2, AccountAssumption DEF SecurityInv, EditsCount, Edited, AccountAssumption
  <2>2. \A v \in Accounts : account[v].pw \in Nat /\ factor[v].gen \in Nat
    BY DEF SecurityInv, SecurityTypeOK, AccountRow, FactorRow
  <2>3. \A v \in Accounts : account[v].pw <= accountEdits /\ factor[v].gen <= accountEdits
    BY DEF SecurityInv, EditsCount
  <2>4. \A v \in Accounts : account'[v].pw = account[v].pw
    BY <1>1, <1>4 DEF AccountRow
  <2> QED BY <1>2, <2>1, <2>2, <2>3, <2>4 DEF EditsCount
<1>8. SessionsProved' /\ ChallengesFine' /\ LinksFine' /\ RequestsFine' /\ \A v \in Accounts : FactorFine(v)'
  BY <1>2, AccountPartsKept DEF SecurityInv
<1>9. SecurityTypeOK'
  BY <1>2, <1>4 DEF SecurityInv, SecurityTypeOK
<1> QED BY <1>6, <1>7, <1>8, <1>9 DEF SecurityInv

\* Steps that only end sessions.
LEMMA SessionsEndKeeps ==
  ASSUME SecurityInv
  PROVE  /\ \A s \in SessionSlots : SessionEnds(s) => SecurityInv'
         /\ \A a, u \in Accounts : RevokeSessions(a, u) => SecurityInv'
<1>1. ASSUME session' \in [SessionSlots -> SessionRow],
             \A s \in SessionSlots : session'[s] \in {NoSession, session[s]},
             UNCHANGED <<account, challenge, factor, link, request, enrolledTwice, linkShared, accountEdits>>
      PROVE  SecurityInv'
  <2>1. SessionsMatchAccount' /\ SessionsProved'
    <3>1. \A s \in SessionSlots : session'[s].user # NoAccount => session'[s] = session[s]
      BY <1>1, EmptyRows
    <3> QED BY <1>1, <3>1 DEF SecurityInv, SessionsMatchAccount, SessionsProved
  <2>2. ChallengesFine' /\ LinksFine' /\ RequestsFine' /\ EditsCount' /\ \A v \in Accounts : FactorFine(v)'
    BY <1>1, AccountPartsKept DEF SecurityInv
  <2>3. SecurityTypeOK'
    BY <1>1 DEF SecurityInv, SecurityTypeOK
  <2> QED BY <2>1, <2>2, <2>3 DEF SecurityInv
<1>2. ASSUME NEW s \in SessionSlots, SessionEnds(s) PROVE SecurityInv'
  BY <1>1, <1>2, EmptyRows DEF SessionEnds, SecurityInv, SecurityTypeOK
<1>3. ASSUME NEW a \in Accounts, NEW u \in Accounts, RevokeSessions(a, u) PROVE SecurityInv'
  BY <1>1, <1>3, SessionsWithout DEF RevokeSessions
<1> QED BY <1>2, <1>3

\* A request is noted, with what it read.
LEMMA RequestNoted ==
  ASSUME SecurityInv, NEW r \in Requests, NEW row \in RequestRow, request[r] = Idle,
         request' = [request EXCEPT ![r] = row], row.user \in Accounts,
         IF row.op = "reset" THEN row.link \in ResetLinks ELSE row.link = NoLink,
         linkShared \subseteq linkShared', linkShared' \subseteq ResetLinks,
         row.link \notin linkShared' \cup {NoLink} =>
           link[row.link].uses = 0 /\ \A p \in Requests : request[p].link # row.link,
         UNCHANGED <<account, session, challenge, factor, link, enrolledTwice, accountEdits>>
  PROVE  SecurityInv'
<1>1. /\ request' \in [Requests -> RequestRow] /\ request'[r] = row
      /\ \A p \in Requests \ {r} : request'[p] = request[p]
  BY DEF SecurityInv, SecurityTypeOK
<1>2. RequestsFine'
  <2> SUFFICES ASSUME NEW p \in Requests PROVE RequestFine(p)'
    BY DEF RequestsFine
  <2>1. CASE p = r
    BY <1>1, <2>1 DEF RequestFine
  <2>2. CASE p # r
    <3>1. RequestFine(p) /\ request'[p] = request[p] /\ request'[r] = row
      BY <1>1, <2>2 DEF SecurityInv, RequestsFine
    <3>2. request[p].link \notin linkShared' \cup {NoLink} => row.link # request[p].link
      OBVIOUS
    <3> QED BY <1>1, <3>1, <3>2 DEF RequestFine
  <2> QED BY <2>1, <2>2
<1>3. LinksFine'
  BY DEF SecurityInv, LinksFine
<1>4. /\ ChallengesFine' /\ EditsCount' /\ SessionsMatchAccount' /\ SessionsProved'
      /\ \A v \in Accounts : FactorFine(v)'
  BY AccountPartsKept DEF SecurityInv
<1>5. SecurityTypeOK'
  BY <1>1 DEF SecurityInv, SecurityTypeOK
<1> QED BY <1>2, <1>3, <1>4, <1>5 DEF SecurityInv

LEMMA RequestsNoted ==
  ASSUME SecurityInv, NEW r \in Requests
  PROVE  /\ \A u \in Accounts : BeginLogin(r, u) => SecurityInv'
         /\ \A l \in ResetLinks : BeginReset(r, l) => SecurityInv'
         /\ \A a, u \in Accounts : BeginDeactivate(r, a, u) => SecurityInv'
         /\ \A a, u \in Accounts, role \in Roles : BeginRoles(r, a, u, role) => SecurityInv'
         /\ RequestFails(r) => SecurityInv'
<1>1. linkShared \subseteq ResetLinks /\ \A u \in Accounts : account[u] \in AccountRow
  BY DEF SecurityInv, SecurityTypeOK
<1>2. ASSUME NEW u \in Accounts, BeginLogin(r, u) PROVE SecurityInv'
  <2>1. PICK ro \in Roles, pw \in 0..MaxAccountEdits : ro = account[u].role /\ pw = account[u].pw
    BY <1>1 DEF AccountRow
  <2> DEFINE row == [Idle EXCEPT !.op = "login", !.user = u, !.role = ro, !.pw = pw]
  <2>2. row \in RequestRow /\ row.user = u /\ row.op = "login" /\ row.link = NoLink
    BY DEF Idle, RequestRow
  <2>3. /\ request[r] = Idle /\ request' = [request EXCEPT ![r] = row]
        /\ UNCHANGED <<account, session, challenge, factor, link, enrolledTwice, linkShared, accountEdits>>
    BY <1>2, <2>1 DEF BeginLogin
  <2> HIDE DEF row
  <2> QED BY <1>1, <2>2, <2>3, RequestNoted
<1>3. ASSUME NEW l \in ResetLinks, BeginReset(r, l) PROVE SecurityInv'
  <2>1. PICK u \in Accounts : u = link[l].user
    BY <1>3 DEF BeginReset, SecurityInv, LinksFine
  <2> DEFINE row == [Idle EXCEPT !.op = "reset", !.user = u, !.link = l]
  <2>2. row \in RequestRow /\ row.user = u /\ row.op = "reset" /\ row.link = l
    BY EmptyRows DEF RequestRow
  <2>3. /\ request[r] = Idle /\ request' = [request EXCEPT ![r] = row]
        /\ UNCHANGED <<account, session, challenge, factor, link, enrolledTwice, accountEdits>>
        /\ link[l].state = "open"
        /\ linkShared \subseteq linkShared' /\ linkShared' \subseteq ResetLinks
        /\ (\E q \in Requests : request[q].link = l) => l \in linkShared'
    BY <1>1, <1>3, <2>1 DEF BeginReset
  <2>4. link[l].uses = 0
    BY <2>3 DEF SecurityInv, LinksFine
  <2> HIDE DEF row
  <2> QED BY <1>1, <2>2, <2>3, <2>4, RequestNoted
<1>4. ASSUME NEW a \in Accounts, NEW u \in Accounts, BeginDeactivate(r, a, u) PROVE SecurityInv'
  <2> DEFINE row == [Idle EXCEPT !.op = "deactivate", !.actor = a, !.user = u]
  <2>1. row \in RequestRow /\ row.user = u /\ row.op = "deactivate" /\ row.link = NoLink
    BY EmptyRows DEF RequestRow
  <2>2. /\ request[r] = Idle /\ request' = [request EXCEPT ![r] = row]
        /\ UNCHANGED <<account, session, challenge, factor, link, enrolledTwice, linkShared, accountEdits>>
    BY <1>4 DEF BeginDeactivate
  <2> HIDE DEF row
  <2> QED BY <1>1, <2>1, <2>2, RequestNoted
<1>5. ASSUME NEW a \in Accounts, NEW u \in Accounts, NEW ro \in Roles, BeginRoles(r, a, u, ro)
      PROVE  SecurityInv'
  <2> DEFINE row == [Idle EXCEPT !.op = "roles", !.actor = a, !.user = u, !.role = ro]
  <2>1. row \in RequestRow /\ row.user = u /\ row.op = "roles" /\ row.link = NoLink
    BY EmptyRows DEF RequestRow
  <2>2. /\ request[r] = Idle /\ request' = [request EXCEPT ![r] = row]
        /\ UNCHANGED <<account, session, challenge, factor, link, enrolledTwice, linkShared, accountEdits>>
    BY <1>5 DEF BeginRoles
  <2> HIDE DEF row
  <2> QED BY <1>1, <2>1, <2>2, RequestNoted
<1>6. ASSUME RequestFails(r) PROVE SecurityInv'
  <2>1. /\ request' = [request EXCEPT ![r] = Idle]
        /\ UNCHANGED <<account, session, challenge, factor, link, enrolledTwice, linkShared, accountEdits>>
    BY <1>6 DEF RequestFails
  <2>2. request' \in [Requests -> RequestRow] /\ RequestsFine'
    BY <2>1, RequestDone
  <2>3. /\ ChallengesFine' /\ EditsCount' /\ SessionsMatchAccount' /\ SessionsProved' /\ LinksFine'
        /\ \A v \in Accounts : FactorFine(v)'
    BY <2>1, AccountPartsKept DEF SecurityInv
  <2>4. SecurityTypeOK'
    BY <2>1, <2>2 DEF SecurityInv, SecurityTypeOK
  <2> QED BY <2>2, <2>3, <2>4 DEF SecurityInv
<1> QED BY <1>2, <1>3, <1>4, <1>5, <1>6

\* The row a new session begins with.
LEMMA SessionOpened ==
  ASSUME SecurityInv, NEW s \in SessionSlots, NEW u \in Accounts, NEW pw \in 0..MaxAccountEdits,
         NEW role \in Roles, NEW mfa \in BOOLEAN, OpenSession(s, u, pw, role, mfa)
  PROVE  /\ session' \in [SessionSlots -> SessionRow]
         /\ session'[s].user = u /\ session'[s].mfa = mfa /\ session'[s].gen = factor[u].gen
         /\ ~session'[s].late =>
              account[u] = [role |-> session'[s].role, active |-> TRUE, pw |-> session'[s].pw]
         /\ \A t \in SessionSlots \ {s} : session'[t] = session[t]
<1>1. PICK g \in 0..MaxAccountEdits : g = factor[u].gen
  BY DEF SecurityInv, SecurityTypeOK, FactorRow
<1>2. session \in [SessionSlots -> SessionRow]
  BY DEF SecurityInv, SecurityTypeOK
<1>3. CASE [role |-> role, active |-> TRUE, pw |-> pw] # account[u]
  <2> DEFINE row == [NoSession EXCEPT !.user = u, !.mfa = mfa, !.late = TRUE, !.gen = g]
  <2>1. /\ row \in SessionRow /\ row.user = u /\ row.mfa = mfa /\ row.late /\ row.gen = g
    BY EmptyRows DEF SessionRow
  <2>2. session' = [session EXCEPT ![s] = row]
    BY <1>1, <1>3 DEF OpenSession
  <2> HIDE DEF row
  <2> QED BY <1>1, <1>2, <2>1, <2>2
<1>4. CASE [role |-> role, active |-> TRUE, pw |-> pw] = account[u]
  <2> DEFINE row == [user |-> u, mfa |-> mfa, late |-> FALSE, pw |-> pw, role |-> role, gen |-> g]
  <2>1. /\ row \in SessionRow /\ row.user = u /\ row.mfa = mfa /\ ~row.late /\ row.gen = g
        /\ row.pw = pw /\ row.role = role
    BY DEF SessionRow
  <2>2. session' = [session EXCEPT ![s] = row]
    BY <1>1, <1>4 DEF OpenSession
  <2> HIDE DEF row
  <2> QED BY <1>1, <1>2, <1>4, <2>1, <2>2
<1> QED BY <1>3, <1>4

LEMMA FinishLoginKeeps ==
  ASSUME SecurityInv, NEW r \in Requests, FinishLogin(r)
  PROVE  SecurityInv'
<1>1. PICK u, pw, role : u = request[r].user /\ pw = request[r].pw /\ role = request[r].role
  OBVIOUS
<1>2. /\ request[r].op = "login" /\ RequestFine(r)
      /\ request' = [request EXCEPT ![r] = Idle]
      /\ UNCHANGED <<account, link, linkShared, accountEdits>>
  BY DEF FinishLogin, SecurityInv, RequestsFine
<1>3. u \in Accounts /\ pw \in 0..MaxAccountEdits /\ role \in Roles
  BY <1>1, <1>2 DEF RequestFine, SecurityInv, SecurityTypeOK, RequestRow
<1>4. request' \in [Requests -> RequestRow] /\ RequestsFine' /\ LinksFine'
  BY <1>2, RequestDone, AccountPartsKept DEF SecurityInv
<1>5. CASE /\ \E s \in SessionSlots : OpenSession(s, u, pw, role, FALSE)
           /\ UNCHANGED <<challenge, factor, enrolledTwice>>
  <2>1. PICK s \in SessionSlots : OpenSession(s, u, pw, role, FALSE)
    BY <1>5
  <2>2. /\ session' \in [SessionSlots -> SessionRow]
        /\ session'[s].user = u /\ ~session'[s].mfa
        /\ ~session'[s].late =>
             account[u] = [role |-> session'[s].role, active |-> TRUE, pw |-> session'[s].pw]
        /\ \A t \in SessionSlots \ {s} : session'[t] = session[t]
    BY <1>3, <2>1, SessionOpened
  <2>3. SessionsMatchAccount'
    BY <1>2, <2>2 DEF SecurityInv, SessionsMatchAccount
  <2>4. SessionsProved'
    BY <1>5, <2>2 DEF SecurityInv, SessionsProved
  <2>5. ChallengesFine' /\ EditsCount' /\ \A v \in Accounts : FactorFine(v)'
    BY <1>2, <1>5, AccountPartsKept DEF SecurityInv
  <2>6. SecurityTypeOK'
    BY <1>2, <1>4, <1>5, <2>2 DEF SecurityInv, SecurityTypeOK
  <2> QED BY <1>4, <2>3, <2>4, <2>5, <2>6 DEF SecurityInv
<1>6. CASE (\E c \in ChallengeSlots : IssueChallenge(c, u, pw)) /\ UNCHANGED session
  <2>1. PICK c \in ChallengeSlots : IssueChallenge(c, u, pw)
    BY <1>6
  <2>2. PICK f \in FactorRow : f = factor[u]
    BY <1>3 DEF SecurityInv, SecurityTypeOK
  <2> DEFINE new == [f EXCEPT !.staged = FALSE]
             row == [user |-> u, purpose |-> Purpose(u), pw |-> pw]
  <2>3. /\ new \in FactorRow /\ ~new.staged /\ new.confirmed = f.confirmed
        /\ new.gen = f.gen /\ new.codes = f.codes
    BY <2>2 DEF FactorRow
  <2>4. /\ row \in ChallengeRow /\ row.user = u
        /\ row.purpose = "enrollment" <=> f.confirmed = 0
        /\ row.purpose \in {"enrollment", "verify"}
    BY <1>3, <2>2 DEF ChallengeRow, Purpose
  <2>5. factor' = [factor EXCEPT ![u] = new] /\ challenge' = [challenge EXCEPT ![c] = row]
        /\ challenge[c] = NoChallenge
    BY <2>1, <2>2 DEF IssueChallenge, Unstaged
  <2>6. /\ enrolledTwice \subseteq enrolledTwice' /\ enrolledTwice' \subseteq Accounts
        /\ f.confirmed = 0 /\ Enrolling(u) # {} => u \in enrolledTwice'
    BY <1>3, <2>1, <2>2 DEF IssueChallenge, SecurityInv, SecurityTypeOK
  <2> HIDE DEF new, row
  <2>7. /\ factor' \in [Accounts -> FactorRow] /\ factor'[u] = new
        /\ \A v \in Accounts \ {u} : factor'[v] = factor[v]
        /\ challenge' \in [ChallengeSlots -> ChallengeRow] /\ challenge'[c] = row
        /\ \A d \in ChallengeSlots \ {c} : challenge'[d] = challenge[d]
    BY <1>3, <2>3, <2>4, <2>5 DEF SecurityInv, SecurityTypeOK
  <2>8. \A v \in Accounts : /\ factor'[v].confirmed = factor[v].confirmed
                            /\ factor'[v].gen = factor[v].gen
                            /\ factor'[v].codes = factor[v].codes
                            /\ factor[v].confirmed \in Nat
                            /\ factor'[v].staged => factor[v].staged
    BY <2>2, <2>3, <2>7 DEF SecurityInv, SecurityTypeOK, FactorRow
  <2>9. SecurityTypeOK'
    BY <1>2, <1>4, <1>6, <2>6, <2>7, <2>8 DEF SecurityInv, SecurityTypeOK
  <2>10. SessionsMatchAccount'
    BY <1>2, <1>6, AccountPartsKept DEF SecurityInv
  <2>11. SessionsProved'
    BY <1>6, <2>8 DEF SecurityInv, SessionsProved, SecurityTypeOK, SessionRow
  <2>12. ChallengesFine'
    <3> SUFFICES ASSUME NEW d \in ChallengeSlots, challenge'[d].user # NoAccount,
                        challenge'[d].purpose = "verify"
                 PROVE  factor'[challenge'[d].user].confirmed > 0
      BY DEF ChallengesFine
    <3>1. CASE d = c
      BY <1>3, <2>2, <2>4, <2>7, <2>8, <3>1
    <3>2. CASE d # c
      <4>1. challenge'[d] = challenge[d] /\ challenge[d].user \in Accounts
        BY <2>7, <3>2 DEF SecurityInv, SecurityTypeOK, ChallengeRow
      <4> QED BY <2>8, <4>1 DEF SecurityInv, ChallengesFine
    <3> QED BY <3>1, <3>2
  <2>13. EditsCount'
    BY <1>2, <2>8 DEF SecurityInv, EditsCount
  <2>14. \A v \in Accounts : FactorFine(v)'
    <3> SUFFICES ASSUME NEW v \in Accounts, v \notin enrolledTwice'
                 PROVE  /\ factor'[v].confirmed <= 1
                        /\ factor'[v].confirmed = 1 => ~factor'[v].staged /\ Enrolling(v)' = {}
                        /\ \A d, e \in Enrolling(v)' : d = e
      BY DEF FactorFine
    <3>1. /\ factor[v].confirmed <= 1
          /\ factor[v].confirmed = 1 => ~factor[v].staged /\ Enrolling(v) = {}
          /\ \A d, e \in Enrolling(v) : d = e
      BY <2>6 DEF SecurityInv, FactorFine
    <3>2. /\ v # u \/ row.purpose # "enrollment" => Enrolling(v)' \subseteq Enrolling(v)
          /\ Enrolling(v)' \subseteq Enrolling(v) \cup {c}
      BY <2>4, <2>7, EmptyRows DEF Enrolling
    <3>3. v = u /\ row.purpose = "enrollment" => Enrolling(v) = {} /\ factor[v].confirmed = 0
      BY <2>2, <2>4, <2>6
    <3> QED BY <2>8, <3>1, <3>2, <3>3
  <2> QED BY <1>4, <2>9, <2>10, <2>11, <2>12, <2>13, <2>14 DEF SecurityInv
<1> QED BY <1>1, <1>5, <1>6 DEF FinishLogin

LEMMA EnrollFactorKeeps ==
  ASSUME SecurityInv, NEW c \in ChallengeSlots, EnrollFactor(c)
  PROVE  SecurityInv'
<1>1. PICK u : u = challenge[c].user
  OBVIOUS
<1>2. /\ u \in Accounts /\ challenge[c].purpose = "enrollment" /\ ~factor[u].staged
      /\ factor' = [factor EXCEPT ![u] = StagedFactor(@)]
      /\ UNCHANGED <<account, session, challenge, link, request, enrolledTwice, linkShared, accountEdits>>
  BY <1>1 DEF EnrollFactor, SecurityInv, SecurityTypeOK, ChallengeRow
<1>3. PICK f \in FactorRow : f = factor[u]
  BY <1>2 DEF SecurityInv, SecurityTypeOK
<1>4. 0 \in 0..MaxTimestep
  BY AccountAssumption DEF AccountAssumption
<1> DEFINE new == StagedFactor(f)
<1>5. /\ new \in FactorRow /\ new.confirmed = f.confirmed /\ new.gen = f.gen /\ new.codes = f.codes
      /\ f.confirmed \in Nat
  BY <1>3, <1>4 DEF StagedFactor, FactorRow
<1>6. /\ factor' = [factor EXCEPT ![u] = new]
  BY <1>2, <1>3
<1> HIDE DEF new
<1>7. /\ factor' \in [Accounts -> FactorRow] /\ factor'[u] = new
      /\ \A v \in Accounts \ {u} : factor'[v] = factor[v]
  BY <1>2, <1>5, <1>6 DEF SecurityInv, SecurityTypeOK
<1>8. \A v \in Accounts : /\ factor'[v].confirmed = factor[v].confirmed
                          /\ factor'[v].gen = factor[v].gen
                          /\ factor'[v].codes = factor[v].codes
  BY <1>3, <1>5, <1>7
<1>9. SecurityTypeOK'
  BY <1>2, <1>7, <1>8 DEF SecurityInv, SecurityTypeOK
<1>10. SessionsProved' /\ ChallengesFine'
  BY <1>2, <1>8 DEF SecurityInv, SessionsProved, ChallengesFine, SecurityTypeOK, SessionRow, ChallengeRow
<1>11. EditsCount'
  BY <1>2, <1>8 DEF SecurityInv, EditsCount
<1>12. \A v \in Accounts : FactorFine(v)'
  <2> SUFFICES ASSUME NEW v \in Accounts PROVE FactorFine(v)'
    OBVIOUS
  <2>1. FactorFine(v) /\ Enrolling(v)' = Enrolling(v)
    BY <1>2 DEF SecurityInv, Enrolling
  <2>2. CASE v = u
    <3>1. c \in Enrolling(v)
      BY <1>1, <2>2, <1>2 DEF Enrolling
    <3> QED BY <1>2, <1>8, <2>1, <3>1 DEF FactorFine
  <2>3. CASE v # u
    BY <1>2, <1>7, <2>1, <2>3 DEF FactorFine
  <2> QED BY <2>2, <2>3
<1>13. SessionsMatchAccount' /\ LinksFine' /\ RequestsFine'
  BY <1>2, AccountPartsKept DEF SecurityInv
<1> QED BY <1>9, <1>10, <1>11, <1>12, <1>13 DEF SecurityInv

\* What a code makes of a factor.
LEMMA FactorAccepted ==
  ASSUME NEW f \in FactorRow, f.codes => f.confirmed > 0,
         NEW new,
         \/ \E t \in 1..MaxTimestep : new = AcceptedTotp(f, t) /\ (f.staged \/ f.confirmed > 0)
         \/ f.codes /\ new = AcceptedRecovery(f)
  PROVE  /\ new \in FactorRow /\ new.gen = f.gen /\ new.confirmed \in Nat /\ f.confirmed \in Nat
         /\ new.codes => new.confirmed > 0
         /\ new.confirmed >= f.confirmed /\ new.confirmed > 0
         /\ ~f.staged => new.confirmed = f.confirmed /\ ~new.staged
         /\ f.staged /\ f.confirmed = 0 => new.confirmed = 1 /\ ~new.staged
<1>1. f.confirmed \in Nat /\ f.staged \in BOOLEAN /\ f.codes \in BOOLEAN
  BY DEF FactorRow
<1>2. ASSUME NEW t \in 1..MaxTimestep, new = AcceptedTotp(f, t), f.staged \/ f.confirmed > 0
      PROVE  /\ new \in FactorRow /\ new.gen = f.gen /\ ~new.staged /\ new.codes = (f.codes \/ f.staged)
             /\ new.confirmed = IF f.staged THEN f.confirmed + 1 ELSE f.confirmed
  <2>1. t \in 0..MaxTimestep
    BY AccountAssumption DEF AccountAssumption
  <2>2. PICK n \in Nat, b \in BOOLEAN :
          /\ n = IF f.staged THEN f.confirmed + 1 ELSE f.confirmed
          /\ b = (f.codes \/ f.staged)
    BY <1>1
  <2>3. new = [f EXCEPT !.staged = FALSE, !.last = t, !.codes = b, !.confirmed = n]
    BY <1>2, <2>2 DEF AcceptedTotp
  <2>4. new \in FactorRow /\ new.gen = f.gen /\ ~new.staged /\ new.codes = b /\ new.confirmed = n
    BY <2>1, <2>3 DEF FactorRow
  <2> QED BY <2>2, <2>4
<1>3. ASSUME new = AcceptedRecovery(f)
      PROVE  /\ new \in FactorRow /\ new.gen = f.gen /\ new.staged = f.staged /\ new.codes = f.staged
             /\ new.confirmed = f.confirmed
  BY <1>3, <1>1 DEF AcceptedRecovery, FactorRow
<1>4. CASE \E t \in 1..MaxTimestep : new = AcceptedTotp(f, t) /\ (f.staged \/ f.confirmed > 0)
  <2>1. PICK t \in 1..MaxTimestep : new = AcceptedTotp(f, t) /\ (f.staged \/ f.confirmed > 0)
    BY <1>4
  <2>2. /\ new \in FactorRow /\ new.gen = f.gen /\ ~new.staged /\ new.codes = (f.codes \/ f.staged)
        /\ new.confirmed = IF f.staged THEN f.confirmed + 1 ELSE f.confirmed
    BY <1>2, <2>1
  <2>3. new.confirmed \in Nat /\ new.confirmed > 0 /\ new.confirmed >= f.confirmed
    BY <1>1, <2>1, <2>2
  <2> QED BY <1>1, <2>2, <2>3
<1>5. CASE f.codes /\ new = AcceptedRecovery(f)
  <2>1. /\ new \in FactorRow /\ new.gen = f.gen /\ new.staged = f.staged
        /\ new.confirmed = f.confirmed /\ f.confirmed > 0
    BY <1>3, <1>5
  <2> QED BY <1>1, <2>1
<1> QED BY <1>4, <1>5

LEMMA VerifyMfaKeeps ==
  ASSUME SecurityInv, NEW c \in ChallengeSlots, VerifyMfa(c)
  PROVE  SecurityInv'
<1>1. PICK u, pw, role : u = challenge[c].user /\ pw = challenge[c].pw /\ role = account[u].role
  OBVIOUS
<1>2. /\ u \in Accounts /\ pw \in 0..MaxAccountEdits /\ role \in Roles
      /\ challenge[c] \in ChallengeRow /\ u # NoAccount
      /\ challenge' = [challenge EXCEPT ![c] = NoChallenge]
      /\ UNCHANGED <<account, link, request, enrolledTwice, linkShared, accountEdits>>
  BY <1>1, AccountAssumption
     DEF VerifyMfa, SecurityInv, SecurityTypeOK, ChallengeRow, AccountRow, AccountAssumption
<1>3. PICK s \in SessionSlots : OpenSession(s, u, pw, role, TRUE)
  BY <1>1 DEF VerifyMfa
<1>4. PICK f \in FactorRow : f = factor[u] /\ (f.codes => f.confirmed > 0)
  BY <1>2 DEF SecurityInv, SecurityTypeOK
<1>5. PICK new : /\ factor' = [factor EXCEPT ![u] = new]
                 /\ \/ \E t \in 1..MaxTimestep : new = AcceptedTotp(f, t)
                                                /\ (f.staged \/ f.confirmed > 0)
                    \/ f.codes /\ new = AcceptedRecovery(f)
  <2>1. f.staged \/ f.confirmed > 0
    BY <1>1, <1>4 DEF VerifyMfa, HasFactor
  <2>2. CASE \E t \in 1..MaxTimestep :
               t > factor[u].last /\ factor' = [factor EXCEPT ![u] = AcceptedTotp(@, t)]
    BY <1>4, <2>1, <2>2
  <2>3. CASE factor[u].codes /\ factor' = [factor EXCEPT ![u] = AcceptedRecovery(@)]
    BY <1>4, <2>3
  <2> QED BY <1>1, <2>2, <2>3 DEF VerifyMfa
<1>6. /\ new \in FactorRow /\ new.gen = f.gen /\ new.confirmed \in Nat /\ f.confirmed \in Nat
      /\ new.codes => new.confirmed > 0
      /\ new.confirmed >= f.confirmed /\ new.confirmed > 0
      /\ ~f.staged => new.confirmed = f.confirmed /\ ~new.staged
      /\ f.staged /\ f.confirmed = 0 => new.confirmed = 1 /\ ~new.staged
  BY <1>4, <1>5, FactorAccepted
<1>7. /\ factor' \in [Accounts -> FactorRow] /\ factor'[u] = new
      /\ \A v \in Accounts \ {u} : factor'[v] = factor[v]
      /\ challenge' \in [ChallengeSlots -> ChallengeRow] /\ challenge'[c] = NoChallenge
      /\ \A d \in ChallengeSlots \ {c} : challenge'[d] = challenge[d]
  BY <1>2, <1>5, <1>6, EmptyRows DEF SecurityInv, SecurityTypeOK
<1>8. \A v \in Accounts : /\ factor'[v].gen = factor[v].gen
                          /\ factor[v].confirmed > 0 => factor'[v].confirmed > 0
                          /\ factor'[v].codes => factor'[v].confirmed > 0
  BY <1>4, <1>6, <1>7 DEF SecurityInv, SecurityTypeOK
<1>9. /\ session' \in [SessionSlots -> SessionRow]
      /\ session'[s].user = u /\ session'[s].mfa /\ session'[s].gen = factor[u].gen
      /\ ~session'[s].late =>
           account[u] = [role |-> session'[s].role, active |-> TRUE, pw |-> session'[s].pw]
      /\ \A t \in SessionSlots \ {s} : session'[t] = session[t]
  BY <1>2, <1>3, SessionOpened
<1>10. SecurityTypeOK'
  BY <1>2, <1>7, <1>8, <1>9 DEF SecurityInv, SecurityTypeOK
<1>11. SessionsMatchAccount'
  BY <1>2, <1>9 DEF SecurityInv, SessionsMatchAccount
<1>12. SessionsProved'
  <2> SUFFICES ASSUME NEW t \in SessionSlots, session'[t].user # NoAccount, session'[t].mfa
               PROVE  /\ session'[t].gen = factor'[session'[t].user].gen
                      /\ factor'[session'[t].user].confirmed > 0
    BY DEF SessionsProved
  <2>1. CASE t = s
    BY <1>2, <1>6, <1>7, <1>8, <1>9, <2>1
  <2>2. CASE t # s
    <3>1. session'[t] = session[t] /\ session[t].user \in Accounts
      BY <1>9, <2>2 DEF SecurityInv, SecurityTypeOK, SessionRow
    <3> QED BY <1>8, <3>1 DEF SecurityInv, SessionsProved
  <2> QED BY <2>1, <2>2
<1>13. ChallengesFine'
  <2> SUFFICES ASSUME NEW d \in ChallengeSlots, challenge'[d].user # NoAccount,
                      challenge'[d].purpose = "verify"
               PROVE  factor'[challenge'[d].user].confirmed > 0
    BY DEF ChallengesFine
  <2>1. challenge'[d] = challenge[d] /\ challenge[d].user \in Accounts
    BY <1>7, EmptyRows DEF SecurityInv, SecurityTypeOK, ChallengeRow
  <2> QED BY <1>8, <2>1 DEF SecurityInv, ChallengesFine
<1>14. EditsCount'
  BY <1>2, <1>8 DEF SecurityInv, EditsCount
<1>15. \A v \in Accounts : FactorFine(v)'
  <2> SUFFICES ASSUME NEW v \in Accounts, v \notin enrolledTwice
               PROVE  /\ factor'[v].confirmed <= 1
                      /\ factor'[v].confirmed = 1 => ~factor'[v].staged /\ Enrolling(v)' = {}
                      /\ \A d, e \in Enrolling(v)' : d = e
    BY <1>2 DEF FactorFine
  <2>1. /\ factor[v].confirmed <= 1
        /\ factor[v].confirmed = 1 => ~factor[v].staged /\ Enrolling(v) = {}
        /\ \A d, e \in Enrolling(v) : d = e
    BY DEF SecurityInv, FactorFine
  <2>2. Enrolling(v)' \subseteq Enrolling(v) /\ c \notin Enrolling(v)'
    BY <1>7, EmptyRows DEF Enrolling
  <2>3. CASE v # u
    BY <1>7, <2>1, <2>2, <2>3
  <2>4. CASE v = u /\ f.confirmed = 1
    BY <1>4, <1>6, <1>7, <2>1, <2>2, <2>4
  <2>5. CASE v = u /\ f.confirmed = 0
    <3>1. f.staged
      BY <1>6, <2>5
    <3>2. challenge[c].purpose # "verify"
      BY <1>1, <1>2, <1>4, <2>5 DEF SecurityInv, ChallengesFine
    <3>3. c \in Enrolling(v)
      BY <1>1, <1>2, <2>5, <3>2 DEF Enrolling, ChallengeRow
    <3>4. Enrolling(v)' = {}
      BY <2>1, <2>2, <3>3
    <3>5. new.confirmed = 1 /\ ~new.staged
      BY <1>6, <2>5, <3>1
    <3> QED BY <1>7, <2>5, <3>4, <3>5
  <2> QED BY <1>4, <1>6, <2>1, <2>3, <2>4, <2>5
<1>16. LinksFine' /\ RequestsFine'
  BY <1>2, AccountPartsKept DEF SecurityInv
<1> QED BY <1>10, <1>11, <1>12, <1>13, <1>14, <1>15, <1>16 DEF SecurityInv

LEMMA ChallengeExpiresKeeps ==
  ASSUME SecurityInv, NEW c \in ChallengeSlots, ChallengeExpires(c)
  PROVE  SecurityInv'
<1>1. /\ challenge' = [challenge EXCEPT ![c] = NoChallenge]
      /\ UNCHANGED <<account, session, factor, link, request, enrolledTwice, linkShared, accountEdits>>
  BY DEF ChallengeExpires
<1>2. /\ challenge' \in [ChallengeSlots -> ChallengeRow]
      /\ \A d \in ChallengeSlots : challenge'[d] \in {NoChallenge, challenge[d]}
  BY <1>1, EmptyRows DEF SecurityInv, SecurityTypeOK
<1>3. \A v \in Accounts : v # NoAccount => Enrolling(v)' \subseteq Enrolling(v)
  BY <1>2, EmptyRows DEF Enrolling
<1>4. ChallengesFine'
  BY <1>1, <1>2, EmptyRows DEF SecurityInv, ChallengesFine
<1>5. \A v \in Accounts : FactorFine(v)'
  BY <1>1, <1>3, AccountAssumption DEF SecurityInv, FactorFine, AccountAssumption
<1>6. SecurityTypeOK'
  BY <1>1, <1>2 DEF SecurityInv, SecurityTypeOK
<1>7. SessionsMatchAccount' /\ SessionsProved' /\ LinksFine' /\ RequestsFine' /\ EditsCount'
  BY <1>1, AccountPartsKept DEF SecurityInv
<1> QED BY <1>4, <1>5, <1>6, <1>7 DEF SecurityInv

\* Links are issued and close; what a request holds keeps its count.
LEMMA LinksChange ==
  ASSUME SecurityInv, link' \in [ResetLinks -> LinkRow], LinksFine',
         \A l \in ResetLinks : link'[l].uses = link[l].uses,
         UNCHANGED <<account, session, challenge, factor, request, enrolledTwice, linkShared, accountEdits>>
  PROVE  SecurityInv'
<1>1. RequestsFine'
  <2> SUFFICES ASSUME NEW r \in Requests PROVE RequestFine(r)'
    BY DEF RequestsFine
  <2>1. RequestFine(r) /\ request' = request
    BY DEF SecurityInv, RequestsFine
  <2>2. request[r].link \in ResetLinks \cup {NoLink}
    BY <2>1 DEF RequestFine
  <2> QED BY <2>1, <2>2 DEF RequestFine
<1>2. SecurityTypeOK'
  BY DEF SecurityInv, SecurityTypeOK
<1>3. /\ SessionsMatchAccount' /\ SessionsProved' /\ ChallengesFine' /\ EditsCount'
      /\ \A v \in Accounts : FactorFine(v)'
  BY AccountPartsKept DEF SecurityInv
<1> QED BY <1>1, <1>2, <1>3 DEF SecurityInv

LEMMA LinksKeep ==
  ASSUME SecurityInv, NEW l \in ResetLinks
  PROVE  /\ \A u \in Accounts : IssueReset(u, l) => SecurityInv'
         /\ LinkExpires(l) => SecurityInv'
<1>1. \A k \in ResetLinks :
        /\ link[k] \in LinkRow /\ Closed(link[k]) \in LinkRow
        /\ Closed(link[k]).state = "used" /\ Closed(link[k]).uses = link[k].uses
        /\ link[k].state # "used" => link[k].uses = 0
        /\ link[k].state = "open" => link[k].user \in Accounts
        /\ k \notin linkShared => link[k].uses <= 1
  BY DEF Closed, LinkRow, SecurityInv, SecurityTypeOK, LinksFine
<1>2. ASSUME NEW u \in Accounts, IssueReset(u, l) PROVE SecurityInv'
  <2> DEFINE row == [state |-> "open", user |-> u, uses |-> 0]
  <2>1. row \in LinkRow /\ row.state = "open" /\ row.user = u /\ row.uses = 0
    BY DEF LinkRow
  <2>2. /\ link[l].state = "new"
        /\ link' = [k \in ResetLinks |->
                      CASE k = l -> row
                        [] link[k].state = "open" /\ link[k].user = u -> Closed(link[k])
                        [] OTHER -> link[k]]
        /\ UNCHANGED <<account, session, challenge, factor, request, enrolledTwice, linkShared, accountEdits>>
    BY <1>2 DEF IssueReset
  <2> HIDE DEF row
  <2>3. link' = [k \in ResetLinks |->
                   IF k = l THEN row
                   ELSE IF link[k].state = "open" /\ link[k].user = u THEN Closed(link[k])
                   ELSE link[k]]
    BY <2>2
  <2>4. /\ link'[l] = row
        /\ \A k \in ResetLinks \ {l} : link'[k] \in {link[k], Closed(link[k])}
        /\ link' \in [ResetLinks -> LinkRow]
    BY <1>1, <2>1, <2>3
  <2>5. link[l].uses = 0
    BY <1>1, <2>2
  <2>6. \A k \in ResetLinks : link'[k].uses = link[k].uses
    BY <1>1, <2>1, <2>4, <2>5
  <2>7. LinksFine'
    <3>1. \A k \in ResetLinks : link'[k].state # "used" => link'[k].uses = 0
      BY <1>1, <2>1, <2>4
    <3>2. \A k \in ResetLinks : link'[k].state = "open" => link'[k].user \in Accounts
      BY <1>1, <2>1, <2>4
    <3>3. \A k \in ResetLinks \ linkShared : link'[k].uses <= 1
      BY <1>1, <2>6
    <3> QED BY <2>2, <3>1, <3>2, <3>3 DEF LinksFine
  <2> QED BY <2>2, <2>4, <2>6, <2>7, LinksChange
<1>3. ASSUME LinkExpires(l) PROVE SecurityInv'
  <2>1. /\ link' = [link EXCEPT ![l] = Closed(link[l])]
        /\ UNCHANGED <<account, session, challenge, factor, request, enrolledTwice, linkShared, accountEdits>>
    BY <1>3 DEF LinkExpires
  <2>2. /\ link' \in [ResetLinks -> LinkRow]
        /\ \A k \in ResetLinks : link'[k] \in {link[k], Closed(link[k])}
    BY <1>1, <2>1 DEF SecurityInv, SecurityTypeOK
  <2>3. LinksFine' /\ \A k \in ResetLinks : link'[k].uses = link[k].uses
    BY <1>1, <2>1, <2>2 DEF LinksFine
  <2> QED BY <2>1, <2>2, <2>3, LinksChange
<1> QED BY <1>2, <1>3

\* A recovery begins the second factor of an account anew.
LEMMA RecoverMfaKeeps ==
  ASSUME SecurityInv, NEW a \in Accounts, NEW u \in Accounts, RecoverMfa(a, u)
  PROVE  SecurityInv'
<1>1. /\ Edited /\ session' = WithoutSessions(u)
      /\ factor' = [factor EXCEPT ![u] = [NoFactor EXCEPT !.gen = factor[u].gen + 1]]
      /\ challenge' = [c \in ChallengeSlots |->
                         IF challenge[c].user = u THEN NoChallenge ELSE challenge[c]]
      /\ UNCHANGED <<account, link, request, enrolledTwice, linkShared>>
  BY DEF RecoverMfa, AfterRecovery
<1>2. /\ accountEdits \in Nat /\ MaxAccountEdits \in Nat /\ accountEdits' = accountEdits + 1
      /\ accountEdits < MaxAccountEdits
  BY <1>1, AccountAssumption DEF SecurityInv, EditsCount, Edited, AccountAssumption
<1>3. \A v \in Accounts : /\ account[v].pw \in Nat /\ factor[v].gen \in Nat
                          /\ account[v].pw <= accountEdits /\ factor[v].gen <= accountEdits
  BY DEF SecurityInv, SecurityTypeOK, AccountRow, FactorRow, EditsCount
<1>4. PICK g \in 0..MaxAccountEdits : g = factor[u].gen + 1 /\ g <= accountEdits'
  BY <1>2, <1>3
<1> DEFINE new == [NoFactor EXCEPT !.gen = g]
<1>5. /\ new \in FactorRow /\ new.gen = g /\ new.confirmed = 0 /\ ~new.staged /\ ~new.codes
  BY EmptyRows DEF FactorRow
<1>6. factor' = [factor EXCEPT ![u] = new]
  BY <1>1, <1>4
<1> HIDE DEF new
<1>7. /\ factor' \in [Accounts -> FactorRow] /\ factor'[u] = new
      /\ \A v \in Accounts \ {u} : factor'[v] = factor[v]
  BY <1>5, <1>6 DEF SecurityInv, SecurityTypeOK
<1>8. /\ challenge' \in [ChallengeSlots -> ChallengeRow]
      /\ \A c \in ChallengeSlots : /\ challenge'[c] \in {NoChallenge, challenge[c]}
                                   /\ challenge'[c].user # u
  BY <1>1, EmptyRows, AccountAssumption DEF SecurityInv, SecurityTypeOK, AccountAssumption
<1>9. /\ session' \in [SessionSlots -> SessionRow]
      /\ \A s \in SessionSlots : session'[s] \in {NoSession, session[s]}
      /\ \A s \in SessionSlots : session[s].user = u => session'[s].user # u
  BY <1>1, SessionsWithout
<1>10. SessionsMatchAccount' /\ SessionsProved'
  BY <1>1, <1>7, <1>9, SessionsEnd
<1>11. ChallengesFine'
  BY <1>7, <1>8, EmptyRows DEF SecurityInv, ChallengesFine, SecurityTypeOK, ChallengeRow
<1>12. \A v \in Accounts : FactorFine(v)'
  <2> SUFFICES ASSUME NEW v \in Accounts PROVE FactorFine(v)'
    OBVIOUS
  <2>1. FactorFine(v) /\ v # NoAccount
    BY AccountAssumption DEF SecurityInv, AccountAssumption
  <2>2. Enrolling(v)' \subseteq Enrolling(v) /\ (v = u => Enrolling(v)' = {})
    BY <1>8, <2>1, EmptyRows DEF Enrolling
  <2>3. CASE v = u
    <3>1. factor'[v].confirmed = 0 /\ Enrolling(v)' = {}
      BY <1>5, <1>7, <2>2, <2>3
    <3> QED BY <3>1 DEF FactorFine
  <2>4. CASE v # u
    <3>1. factor'[v] = factor[v]
      BY <1>7, <2>4
    <3> QED BY <1>1, <2>1, <2>2, <3>1 DEF FactorFine
  <2> QED BY <2>3, <2>4
<1>13. EditsCount'
  <2>1. \A v \in Accounts : account'[v].pw <= accountEdits'
    BY <1>1, <1>2, <1>3
  <2>2. \A v \in Accounts : factor'[v].gen <= accountEdits'
    <3> SUFFICES ASSUME NEW v \in Accounts PROVE factor'[v].gen <= accountEdits'
      OBVIOUS
    <3>1. CASE v = u
      BY <1>4, <1>5, <1>7, <3>1
    <3>2. CASE v # u
      <4>1. factor'[v].gen = factor[v].gen /\ factor[v].gen \in Nat /\ factor[v].gen <= accountEdits
        BY <1>3, <1>7, <3>2
      <4> QED BY <1>2, <4>1
    <3> QED BY <3>1, <3>2
  <2> QED BY <1>2, <2>1, <2>2 DEF EditsCount
<1>14. SecurityTypeOK'
  <2>1. \A v \in Accounts : factor'[v].codes => factor'[v].confirmed > 0
    BY <1>5, <1>7 DEF SecurityInv, SecurityTypeOK
  <2> QED BY <1>1, <1>7, <1>8, <1>9, <2>1 DEF SecurityInv, SecurityTypeOK
<1>15. LinksFine' /\ RequestsFine'
  BY <1>1, AccountPartsKept DEF SecurityInv
<1> QED BY <1>10, <1>11, <1>12, <1>13, <1>14, <1>15 DEF SecurityInv

LEMMA SecurityStep ==
  ASSUME SecurityInv, [SecurityNext]_securityVars
  PROVE  SecurityInv'
<1>1. CASE SecurityNext
  BY <1>1, RequestsNoted, FinishLoginKeeps, FinishResetKeeps, AccountsEdited, ReactivateKeeps,
     SessionsEndKeeps, EnrollFactorKeeps, VerifyMfaKeeps, ChallengeExpiresKeeps, LinksKeep,
     RecoverMfaKeeps DEF SecurityNext
<1>2. CASE UNCHANGED securityVars
  <2>1. SecurityTypeOK'
    BY <1>2 DEF securityVars, SecurityInv, SecurityTypeOK
  <2> QED BY <1>2, <2>1, AccountPartsKept DEF securityVars, SecurityInv
<1> QED BY <1>1, <1>2

LEMMA SecurityPart ==
  ASSUME [Next]_allVars
  PROVE  [SecurityNext]_securityVars
BY DEF Next, SecuritySteps, OnboardingSteps, PhoneSteps, allVars

LEMMA SecurityAlways == Spec => []SecurityInv
<1>1. Init => SecurityInv
  BY SecurityStart DEF Init
<1>2. SecurityInv /\ [Next]_allVars => SecurityInv'
  BY SecurityStep, SecurityPart
<1> QED BY <1>1, <1>2, PTL DEF Spec

-----------------------------------------------------------------------------
(* The phone.                                                              *)

ScreenRow ==
    [user : Persons \cup {NoPerson}, challenge : Persons \cup {NoPerson},
     busy : BOOLEAN, locked : BOOLEAN, restoring : BOOLEAN]
RestoreRow ==
    [step : {"none", "read", "protection", "prompt", "reread", "session", "ending"},
     token : Sessions \cup {NoToken}, forced : BOOLEAN]
TryRow ==
    [step : {"none", "calling", "verifying", "answered", "storing", "protecting"},
     person : Persons \cup {NoPerson}, number : Nat, token : Sessions \cup {NoToken},
     remember : BOOLEAN]

PhoneTypeOK ==
    /\ holder \in [Sessions -> Persons \cup {NoPerson}]
    /\ alive \subseteq Sessions /\ dropped \subseteq Sessions /\ opened \subseteq Sessions
    /\ stored \in Sessions \cup {NoToken} /\ active \in Sessions \cup {NoToken}
    /\ bio \in BOOLEAN /\ overtaken \in BOOLEAN
    /\ screen \in ScreenRow /\ restore \in RestoreRow /\ try \in [Tries -> TryRow]
    /\ attempt \in Nat
    /\ logout \in {"none", "calling", "ending"} /\ update \in Persons \cup {NoPerson}

\* Only sessions the server has issued are anywhere.
Issued == {s \in Sessions : holder[s] # NoPerson}
OnlyIssued ==
    /\ alive \cup dropped \cup opened \subseteq Issued
    /\ {stored, active, restore.token} \subseteq Issued \cup {NoToken}

\* A login in flight: its number, and the session it got.
TryFine(t) ==
    LET q == try[t] IN
    /\ q.step # "none" => q.person \in Persons /\ q.number \in 1..attempt
    /\ q.step \in {"none", "calling", "verifying"} => q.token = NoToken
    /\ q.step \in {"answered", "storing", "protecting"} =>
         q.token \in Issued /\ holder[q.token] = q.person /\ q.token \notin dropped
    /\ q.step = "answered" => q.token \notin {active, stored, restore.token} \cup opened

TriesApart ==
    \A t, u \in Tries : t # u /\ try[t].step # "none" /\ try[u].step # "none" =>
      /\ try[t].number # try[u].number
      /\ try[t].token = try[u].token => try[t].token = NoToken

\* What the client sends was opened, and what it dropped it does not send.
TokensFine ==
    /\ restore.step \in {"protection", "prompt", "reread", "session"} => restore.token # NoToken
    /\ restore.step \in {"reread", "session"} => restore.token \in opened
    /\ active # NoToken => active \in opened
    /\ active \notin dropped /\ stored \notin dropped

CurrentTry(t) == try[t].step # "none" /\ try[t].number = attempt

\* What the parts of a phone say of each other as long as nothing overtook a
\* restore or a profile update.
Calm ==
    /\ Restoring =>
         /\ screen.user = NoPerson /\ screen.challenge = NoPerson
         /\ screen.busy => restore.forced
         /\ \A t \in Tries : ~CurrentTry(t)
    /\ restore.step = "session" => active = restore.token
    /\ \A t \in Tries :
         /\ try[t].step \in {"storing", "protecting"} => CurrentTry(t) /\ active = try[t].token
         /\ CurrentTry(t) => screen.busy /\ screen.user = NoPerson
    /\ screen.user # NoPerson => ~screen.locked /\ screen.challenge = NoPerson
    /\ screen.user = NoPerson /\ active # NoToken => Settling \/ restore.step = "session"
    /\ logout # "none" => screen.user # NoPerson /\ update = NoPerson
    /\ logout = "ending" => active = NoToken
    /\ update # NoPerson => update = screen.user
    /\ screen.user # NoPerson /\ logout # "ending" => active # NoToken /\ holder[active] = screen.user

PhoneInv ==
    /\ PhoneTypeOK /\ OnlyIssued /\ \A t \in Tries : TryFine(t)
    /\ TriesApart /\ TokensFine
    /\ ~overtaken => Calm

LEMMA EmptyPhoneRows ==
  /\ EmptyScreen \in ScreenRow /\ EmptyScreen.user = NoPerson /\ EmptyScreen.challenge = NoPerson
  /\ ~EmptyScreen.busy /\ ~EmptyScreen.locked
  /\ NoRestore \in RestoreRow /\ NoRestore.step = "none" /\ NoRestore.token = NoToken
  /\ NoTry \in TryRow /\ NoTry.step = "none" /\ NoTry.token = NoToken
BY DEF EmptyScreen, ScreenRow, NoRestore, RestoreRow, NoTry, TryRow

LEMMA PhoneInvImplies == PhoneInv => ScreenInvariant
<1> SUFFICES ASSUME PhoneInv PROVE ScreenInvariant
  OBVIOUS
<1>1. PhoneTypes
  <2>1. screen.user \in Persons \cup {NoPerson} /\ screen.challenge \in Persons \cup {NoPerson}
    BY DEF PhoneInv, PhoneTypeOK, ScreenRow
  <2> QED BY <2>1 DEF PhoneInv, PhoneTypeOK, Calm, PhoneTypes
<1>2. GivenUpStaysUnused /\ UsedOnlyWhenOpened
  BY DEF PhoneInv, TokensFine, GivenUpStaysUnused, UsedOnlyWhenOpened
<1>3. ScreenTellsTheTruth
  BY DEF PhoneInv, Calm, ScreenTellsTheTruth, Settling, Trying, Restoring
<1> QED BY <1>1, <1>2, <1>3 DEF ScreenInvariant

LEMMA PhoneStart == PhoneInit => PhoneInv
<1> SUFFICES ASSUME PhoneInit PROVE PhoneInv
  OBVIOUS
<1> DEFINE here == [EmptyScreen EXCEPT !.restoring = TRUE]
           begun == [NoRestore EXCEPT !.step = "read"]
<1>1. /\ here \in ScreenRow /\ here.user = NoPerson /\ here.challenge = NoPerson
      /\ ~here.busy /\ ~here.locked
      /\ begun \in RestoreRow /\ begun.step = "read" /\ begun.token = NoToken
  BY DEF EmptyScreen, ScreenRow, NoRestore, RestoreRow
<1>2. /\ screen = here /\ restore = begun /\ active = NoToken /\ attempt = 0
      /\ try = [t \in Tries |-> NoTry] /\ logout = "none" /\ update = NoPerson
      /\ dropped = {} /\ opened = {} /\ overtaken = FALSE
      /\ alive = {s \in Sessions : holder[s] # NoPerson}
  BY DEF PhoneInit
<1> HIDE DEF here, begun
<1>3. /\ holder \in [Sessions -> Persons \cup {NoPerson}] /\ bio \in BOOLEAN
      /\ stored = NoToken \/ (stored \in Sessions /\ holder[stored] # NoPerson)
  BY SessionAssumption DEF PhoneInit, SessionAssumption
<1>4. PhoneTypeOK
  BY <1>1, <1>2, <1>3, EmptyPhoneRows DEF PhoneTypeOK
<1>5. OnlyIssued
  BY <1>1, <1>2, <1>3 DEF OnlyIssued, Issued
<1>6. (\A t \in Tries : TryFine(t)) /\ TriesApart
  BY <1>2, EmptyPhoneRows DEF TryFine, TriesApart
<1>7. TokensFine
  BY <1>1, <1>2, <1>3, SessionAssumption DEF TokensFine, SessionAssumption
<1>8. Calm
  BY <1>1, <1>2, EmptyPhoneRows DEF Calm, CurrentTry
<1> QED BY <1>4, <1>5, <1>6, <1>7, <1>8 DEF PhoneInv

LEMMA PhoneFacts ==
  ASSUME PhoneInv
  PROVE  /\ screen.user \in Persons \cup {NoPerson} /\ screen.challenge \in Persons \cup {NoPerson}
         /\ screen.busy \in BOOLEAN /\ screen.locked \in BOOLEAN /\ screen \in ScreenRow
         /\ restore \in RestoreRow /\ restore.token \in Sessions \cup {NoToken}
         /\ try \in [Tries -> TryRow] /\ attempt \in Nat
         /\ NoToken \notin Sessions /\ NoPerson \notin Persons
         /\ NoToken \notin opened /\ NoToken \notin dropped /\ NoToken \notin Issued
BY SessionAssumption
   DEF PhoneInv, PhoneTypeOK, ScreenRow, RestoreRow, SessionAssumption, Issued

\* A step that starts, answers and ends no login.
LEMMA LoginsKept ==
  ASSUME PhoneInv, UNCHANGED <<holder, try, dropped>>, attempt' \in {attempt, attempt + 1},
         alive' \subseteq alive, bio' \in BOOLEAN, overtaken' \in BOOLEAN,
         screen' \in ScreenRow, restore' \in RestoreRow,
         {stored', active', restore'.token} \subseteq {stored, active, restore.token, NoToken},
         opened \subseteq opened', opened' \subseteq opened \cup ({restore.token} \ {NoToken}),
         logout' \in {"none", "calling", "ending"}, update' \in Persons \cup {NoPerson},
         TokensFine', ~overtaken' => Calm'
  PROVE  PhoneInv'
<1>1. /\ restore.token \in Sessions \cup {NoToken} /\ attempt \in Nat
      /\ try \in [Tries -> TryRow] /\ NoToken \notin Sessions
  BY PhoneFacts
<1>2. PhoneTypeOK'
  BY <1>1 DEF PhoneInv, PhoneTypeOK
<1>3. OnlyIssued'
  BY <1>1 DEF PhoneInv, PhoneTypeOK, OnlyIssued, Issued
<1>4. \A t \in Tries : TryFine(t)'
  <2> SUFFICES ASSUME NEW t \in Tries PROVE TryFine(t)'
    OBVIOUS
  <2>1. TryFine(t) /\ Issued' = Issued /\ try[t].number \in Nat
    BY <1>1 DEF PhoneInv, Issued, TryRow
  <2>2. try[t].number \in 1..attempt => try[t].number \in 1..attempt'
    BY <1>1, <2>1
  <2>3. try[t].step = "answered" => try[t].token # NoToken
    BY <1>1, <2>1 DEF TryFine, Issued
  <2> QED BY <2>1, <2>2, <2>3 DEF TryFine
<1>5. TriesApart'
  BY DEF PhoneInv, TriesApart
<1> QED BY <1>2, <1>3, <1>4, <1>5 DEF PhoneInv

LEMMA ReadStoredKeeps ==
  ASSUME PhoneInv, ReadStored
  PROVE  PhoneInv'
<1>1. /\ restore.step = "read"
      /\ UNCHANGED <<serverSide, store, active, attempt, try, logout, update, starts, history>>
  BY DEF ReadStored
<1>2. \/ restore' = NoRestore /\ screen' \in {screen, EmptyScreen}
      \/ /\ restore' = [restore EXCEPT !.step = "protection", !.token = stored]
         /\ screen' = screen /\ stored # NoToken
  BY DEF ReadStored
<1>3. \/ restore' = NoRestore /\ screen' = screen
      \/ screen.user = NoPerson /\ screen.challenge = NoPerson
  BY DEF ReadStored
<1>4. /\ restore' \in RestoreRow /\ restore'.token \in {stored, NoToken}
      /\ \/ restore'.step = "none"
         \/ restore'.step = "protection" /\ restore'.forced = restore.forced /\ restore'.token # NoToken
      /\ screen' \in ScreenRow
  BY <1>2, PhoneFacts, EmptyPhoneRows DEF PhoneInv, PhoneTypeOK, RestoreRow
<1>5. TokensFine'
  BY <1>1, <1>4 DEF store, history, PhoneInv, TokensFine
<1>6. ~overtaken' => Calm'
  <2> SUFFICES ASSUME ~overtaken PROVE Calm'
    BY <1>1 DEF history
  <2>1. Calm
    BY DEF PhoneInv
  <2> QED BY <1>1, <1>2, <1>4, <2>1, EmptyPhoneRows
          DEF Calm, CurrentTry, Settling, Restoring, store, history, serverSide
<1> QED BY <1>1, <1>4, <1>5, <1>6, LoginsKept, PhoneFacts
        DEF store, history, serverSide, PhoneInv, PhoneTypeOK

LEMMA ReadProtectionKeeps ==
  ASSUME PhoneInv, ReadProtection
  PROVE  PhoneInv'
<1>1. /\ restore.step = "protection"
      /\ UNCHANGED <<serverSide, store, active, screen, attempt, try, logout, update, starts, dropped, overtaken>>
  BY DEF ReadProtection
<1>2. PICK to \in {"prompt", "reread"} :
        /\ restore' = [restore EXCEPT !.step = to]
        /\ opened' = IF to = "prompt" THEN opened ELSE opened \cup {restore.token}
  BY DEF ReadProtection
<1>3. /\ restore' \in RestoreRow /\ restore'.token = restore.token
      /\ restore'.step = to /\ restore'.forced = restore.forced
  BY <1>2, PhoneFacts DEF RestoreRow
<1>4. restore.token # NoToken
  BY <1>1 DEF PhoneInv, TokensFine
<1>5. opened \subseteq opened' /\ opened' \subseteq opened \cup ({restore.token} \ {NoToken})
  BY <1>2, <1>4
<1>6. TokensFine'
  BY <1>1, <1>2, <1>3, <1>4 DEF store, history, PhoneInv, TokensFine
<1>7. ~overtaken' => Calm'
  <2> SUFFICES ASSUME ~overtaken PROVE Calm'
    BY <1>1
  <2>1. Calm
    BY DEF PhoneInv
  <2> QED BY <1>1, <1>3, <2>1
          DEF Calm, CurrentTry, Settling, Restoring, store, serverSide
<1> QED BY <1>1, <1>3, <1>5, <1>6, <1>7, LoginsKept, PhoneFacts
        DEF store, serverSide, PhoneInv, PhoneTypeOK

LEMMA AskLocallyKeeps ==
  ASSUME PhoneInv, AskLocally
  PROVE  PhoneInv'
<1>1. /\ restore.step = "prompt"
      /\ UNCHANGED <<serverSide, store, active, attempt, try, logout, update, starts, dropped, overtaken>>
  BY DEF AskLocally
<1>2. restore.token # NoToken
  BY <1>1 DEF PhoneInv, TokensFine
<1>3. \/ /\ restore' = [restore EXCEPT !.step = "reread"]
         /\ opened' = opened \cup {restore.token} /\ screen' = screen
      \/ /\ restore' = NoRestore /\ opened' = opened
         /\ \/ screen' = [EmptyScreen EXCEPT !.locked = TRUE]
            \/ screen' = [screen EXCEPT !.busy = FALSE, !.locked = bio]
  BY DEF AskLocally
<1>4. /\ restore' \in RestoreRow /\ restore'.token \in {restore.token, NoToken}
      /\ \/ restore'.step = "none"
         \/ /\ restore'.step = "reread" /\ restore'.forced = restore.forced
            /\ restore'.token = restore.token /\ restore'.token \in opened' /\ screen' = screen
  BY <1>3, PhoneFacts, EmptyPhoneRows DEF RestoreRow
<1>5. /\ screen' \in ScreenRow
      /\ \/ screen' = screen
         \/ /\ screen'.user = NoPerson /\ screen'.challenge = NoPerson
            /\ ~screen'.busy
         \/ /\ screen'.user = screen.user /\ screen'.challenge = screen.challenge
            /\ ~screen'.busy
  BY <1>3, PhoneFacts, EmptyPhoneRows DEF ScreenRow, PhoneInv, PhoneTypeOK
<1>6. opened \subseteq opened' /\ opened' \subseteq opened \cup ({restore.token} \ {NoToken})
  BY <1>2, <1>3
<1>7. TokensFine'
  BY <1>1, <1>2, <1>4, <1>6 DEF store, PhoneInv, TokensFine
<1>8. ~overtaken' => Calm'
  <2> SUFFICES ASSUME ~overtaken PROVE Calm'
    BY <1>1
  <2>1. Calm /\ Restoring
    BY <1>1 DEF PhoneInv, Restoring
  <2> QED BY <1>1, <1>4, <1>5, <2>1
          DEF Calm, CurrentTry, Settling, Restoring, store, serverSide
<1> QED BY <1>1, <1>4, <1>5, <1>6, <1>7, <1>8, LoginsKept, PhoneFacts
        DEF store, serverSide, PhoneInv, PhoneTypeOK

LEMMA ActivateStoredKeeps ==
  ASSUME PhoneInv, ActivateStored
  PROVE  PhoneInv'
<1>1. /\ restore.step = "reread"
      /\ UNCHANGED <<serverSide, store, screen, attempt, try, logout, update, starts, history>>
  BY DEF ActivateStored
<1>2. \/ restore' = NoRestore /\ active' = active
      \/ /\ restore' = [restore EXCEPT !.step = "session"] /\ active' = restore.token
         /\ stored = restore.token
  BY DEF ActivateStored
<1>3. /\ restore' \in RestoreRow /\ restore'.token \in {restore.token, NoToken}
      /\ \/ restore'.step = "none" /\ active' = active
         \/ /\ restore'.step = "session" /\ restore'.forced = restore.forced
            /\ restore'.token = restore.token /\ active' = restore.token /\ stored = restore.token
  BY <1>2, PhoneFacts, EmptyPhoneRows DEF RestoreRow
<1>4. TokensFine'
  BY <1>1, <1>3 DEF store, history, PhoneInv, TokensFine
<1>5. ~overtaken' => Calm'
  <2> SUFFICES ASSUME ~overtaken PROVE Calm'
    BY <1>1 DEF history
  <2>1. Calm /\ Restoring
    BY <1>1 DEF PhoneInv, Restoring
  <2>2. ~Settling
    BY <2>1 DEF Calm, Settling
  <2> QED BY <1>1, <1>3, <2>1, <2>2
          DEF Calm, CurrentTry, Settling, Restoring, store, serverSide
<1> QED BY <1>1, <1>3, <1>4, <1>5, LoginsKept, PhoneFacts
        DEF store, serverSide, history, PhoneInv, PhoneTypeOK

LEMMA SessionAnswersKeeps ==
  ASSUME PhoneInv, SessionAnswers
  PROVE  PhoneInv'
<1>1. /\ restore.step = "session"
      /\ UNCHANGED <<serverSide, attempt, try, logout, update, starts, history>>
  BY DEF SessionAnswers
<1>2. CASE /\ restore.token \in alive
           /\ restore' = NoRestore
           /\ IF ~restore.forced /\ (screen.busy \/ screen.challenge # NoPerson)
              THEN UNCHANGED screen
              ELSE screen' = [EmptyScreen EXCEPT !.user = holder[restore.token]]
           /\ UNCHANGED <<store, active>>
  <2>1. holder[restore.token] \in Persons /\ restore.token \in Sessions
    BY <1>2 DEF PhoneInv, PhoneTypeOK, OnlyIssued, Issued
  <2>2. /\ screen' \in ScreenRow
        /\ \/ screen' = screen /\ ~restore.forced /\ (screen.busy \/ screen.challenge # NoPerson)
           \/ /\ screen'.user = holder[restore.token] /\ screen'.challenge = NoPerson
              /\ ~screen'.busy /\ ~screen'.locked
    BY <1>2, <2>1, PhoneFacts, EmptyPhoneRows DEF ScreenRow
  <2>3. TokensFine'
    BY <1>1, <1>2, EmptyPhoneRows DEF store, history, PhoneInv, TokensFine
  <2>4. ~overtaken' => Calm'
    <3> SUFFICES ASSUME ~overtaken PROVE Calm'
      BY <1>1 DEF history
    <3>1. Calm /\ Restoring
      BY <1>1 DEF PhoneInv, Restoring
    <3>2. ~Settling /\ \A t \in Tries : ~CurrentTry(t)
      BY <3>1 DEF Calm, Settling
    <3>3. /\ screen'.user = holder[restore.token] /\ screen'.challenge = NoPerson
          /\ ~screen'.locked
      BY <2>2, <3>1 DEF Calm
    <3>4. active = restore.token /\ active # NoToken /\ logout = "none" /\ update = NoPerson
      BY <1>1, <2>1, <3>1, SessionAssumption DEF Calm, SessionAssumption
    <3> QED BY <1>1, <1>2, <2>1, <3>2, <3>3, <3>4, EmptyPhoneRows, SessionAssumption
            DEF Calm, CurrentTry, Settling, Restoring, serverSide, SessionAssumption
  <2> QED BY <1>1, <1>2, <2>2, <2>3, <2>4, LoginsKept, PhoneFacts, EmptyPhoneRows
          DEF store, serverSide, history, PhoneInv, PhoneTypeOK
<1>3. CASE /\ restore' = [restore EXCEPT !.step = "ending"]
           /\ active' = NoToken /\ stored' = NoToken /\ bio' = FALSE
           /\ UNCHANGED screen
  <2>1. /\ restore' \in RestoreRow /\ restore'.token = restore.token
        /\ restore'.step = "ending" /\ restore'.forced = restore.forced
    BY <1>3, PhoneFacts DEF RestoreRow
  <2>2. TokensFine'
    BY <1>1, <1>3, <2>1, PhoneFacts DEF history, PhoneInv, TokensFine
  <2>3. ~overtaken' => Calm'
    <3> SUFFICES ASSUME ~overtaken PROVE Calm'
      BY <1>1 DEF history
    <3>1. Calm /\ Restoring
      BY <1>1 DEF PhoneInv, Restoring
    <3>2. ~Settling
      BY <3>1 DEF Calm, Settling
    <3> QED BY <1>1, <1>3, <2>1, <3>1, <3>2
            DEF Calm, CurrentTry, Settling, Restoring, serverSide
  <2> QED BY <1>1, <1>3, <2>1, <2>2, <2>3, LoginsKept, PhoneFacts
          DEF serverSide, history, PhoneInv, PhoneTypeOK
<1> QED BY <1>2, <1>3 DEF SessionAnswers

LEMMA RestoreEndsKeeps ==
  ASSUME PhoneInv, RestoreEnds
  PROVE  PhoneInv'
<1>1. /\ restore.step = "ending" /\ restore' = NoRestore /\ screen' = EmptyScreen
      /\ UNCHANGED <<serverSide, store, active, attempt, try, logout, update, starts, history>>
  BY DEF RestoreEnds
<1>2. TokensFine'
  BY <1>1, EmptyPhoneRows DEF store, history, PhoneInv, TokensFine
<1>3. ~overtaken' => Calm'
  <2> SUFFICES ASSUME ~overtaken PROVE Calm'
    BY <1>1 DEF history
  <2>1. Calm /\ Restoring
    BY <1>1 DEF PhoneInv, Restoring
  <2> QED BY <1>1, <2>1, EmptyPhoneRows
          DEF Calm, CurrentTry, Settling, Restoring, store, serverSide
<1> QED BY <1>1, <1>2, <1>3, LoginsKept, PhoneFacts, EmptyPhoneRows
        DEF store, serverSide, history, PhoneInv, PhoneTypeOK

LEMMA UnlockKeeps ==
  ASSUME PhoneInv, Unlock
  PROVE  PhoneInv'
<1> DEFINE begun == [NoRestore EXCEPT !.step = "read", !.forced = TRUE]
<1>1. /\ ~Restoring /\ screen.user = NoPerson /\ ~screen.busy /\ screen.challenge = NoPerson
      /\ screen' = [screen EXCEPT !.busy = TRUE]
      /\ restore' = begun
      /\ overtaken' = (overtaken \/ Settling)
      /\ UNCHANGED <<serverSide, store, active, attempt, try, logout, update, starts, dropped, opened>>
  BY DEF Unlock
<1>2. begun \in RestoreRow /\ begun.step = "read" /\ begun.forced /\ begun.token = NoToken
  BY DEF NoRestore, RestoreRow
<1> HIDE DEF begun
<1>3. /\ screen' \in ScreenRow /\ screen'.user = NoPerson /\ screen'.challenge = NoPerson
      /\ screen'.locked = screen.locked
  BY <1>1, PhoneFacts DEF ScreenRow
<1>4. TokensFine'
  BY <1>1, <1>2 DEF store, PhoneInv, TokensFine
<1>5. ~overtaken' => Calm'
  <2> SUFFICES ASSUME ~overtaken, ~Settling PROVE Calm'
    BY <1>1
  <2>1. Calm /\ restore.step = "none"
    BY <1>1 DEF PhoneInv, Restoring
  <2> QED BY <1>1, <1>2, <1>3, <2>1
          DEF Calm, CurrentTry, Settling, Restoring, store, serverSide
<1>6. overtaken' \in BOOLEAN
  BY <1>1 DEF Settling, PhoneInv, PhoneTypeOK
<1> QED BY <1>1, <1>2, <1>3, <1>4, <1>5, <1>6, LoginsKept, PhoneFacts
        DEF store, serverSide, PhoneInv, PhoneTypeOK

LEMMA ForgetKeeps ==
  ASSUME PhoneInv, Forget
  PROVE  PhoneInv'
<1>1. /\ screen.locked /\ ~screen.busy
      /\ active' = NoToken /\ stored' = NoToken /\ bio' = FALSE
      /\ screen' = EmptyScreen
      /\ overtaken' = (overtaken \/ Restoring \/ Settling)
      /\ UNCHANGED <<serverSide, attempt, restore, try, logout, update, starts, dropped, opened>>
  BY DEF Forget
<1>2. TokensFine'
  BY <1>1, PhoneFacts DEF PhoneInv, TokensFine
<1>3. ~overtaken' => Calm'
  <2> SUFFICES ASSUME ~overtaken, ~Settling, ~Restoring PROVE Calm'
    BY <1>1
  <2>1. Calm
    BY DEF PhoneInv
  <2> QED BY <1>1, <2>1, EmptyPhoneRows
          DEF Calm, CurrentTry, Settling, Restoring, serverSide
<1>4. overtaken' \in BOOLEAN
  BY <1>1 DEF Settling, Restoring, PhoneInv, PhoneTypeOK
<1> QED BY <1>1, <1>2, <1>3, <1>4, LoginsKept, PhoneFacts, EmptyPhoneRows
        DEF serverSide, PhoneInv, PhoneTypeOK

LEMMA CloseSheetKeeps ==
  ASSUME PhoneInv, CloseSheet
  PROVE  PhoneInv'
<1>1. /\ screen.user = NoPerson /\ attempt' = attempt + 1 /\ screen' = EmptyScreen
      /\ overtaken' = (overtaken \/ Restoring \/ Settling)
      /\ UNCHANGED <<serverSide, store, active, restore, try, logout, update, starts, dropped, opened>>
  BY DEF CloseSheet
<1>2. TokensFine'
  BY <1>1 DEF store, PhoneInv, TokensFine
<1>3. ~overtaken' => Calm'
  <2> SUFFICES ASSUME ~overtaken, ~Settling, ~Restoring PROVE Calm'
    BY <1>1
  <2>1. Calm
    BY DEF PhoneInv
  <2>2. \A t \in Tries : ~CurrentTry(t)'
    <3> SUFFICES ASSUME NEW t \in Tries, try[t].step # "none" PROVE try[t].number # attempt'
      BY <1>1 DEF CurrentTry
    <3>1. try[t].number \in 1..attempt /\ attempt \in Nat
      BY PhoneFacts DEF PhoneInv, TryFine
    <3> QED BY <1>1, <3>1
  <2>3. \A t \in Tries : try'[t].step \notin {"storing", "protecting"}
    BY <1>1 DEF Settling
  <2> QED BY <1>1, <2>1, <2>2, <2>3, EmptyPhoneRows
          DEF Calm, Settling, Restoring, serverSide, store
<1>4. overtaken' \in BOOLEAN
  BY <1>1 DEF Settling, Restoring, PhoneInv, PhoneTypeOK
<1> QED BY <1>1, <1>2, <1>3, <1>4, LoginsKept, PhoneFacts, EmptyPhoneRows
        DEF serverSide, store, PhoneInv, PhoneTypeOK

LEMMA StartLogoutKeeps ==
  ASSUME PhoneInv, StartLogout
  PROVE  PhoneInv'
<1>1. /\ screen.user # NoPerson /\ logout = "none" /\ logout' = "calling"
      /\ screen' = [screen EXCEPT !.busy = TRUE]
      /\ overtaken' = (overtaken \/ Restoring \/ update # NoPerson)
      /\ UNCHANGED <<serverSide, store, active, attempt, restore, try, update, starts, dropped, opened>>
  BY DEF StartLogout
<1>2. /\ screen' \in ScreenRow /\ screen'.user = screen.user /\ screen'.challenge = screen.challenge
      /\ screen'.locked = screen.locked /\ screen'.busy
  BY <1>1, PhoneFacts DEF ScreenRow
<1>3. TokensFine'
  BY <1>1 DEF store, PhoneInv, TokensFine
<1>4. ~overtaken' => Calm'
  <2> SUFFICES ASSUME ~overtaken, ~Restoring, update = NoPerson PROVE Calm'
    BY <1>1
  <2>1. Calm
    BY DEF PhoneInv
  <2> QED BY <1>1, <1>2, <2>1
          DEF Calm, CurrentTry, Settling, Restoring, serverSide, store
<1>5. overtaken' \in BOOLEAN
  BY <1>1 DEF Restoring, PhoneInv, PhoneTypeOK
<1> QED BY <1>1, <1>2, <1>3, <1>4, <1>5, LoginsKept, PhoneFacts
        DEF serverSide, store, PhoneInv, PhoneTypeOK

LEMMA LogoutAnsweredKeeps ==
  ASSUME PhoneInv, LogoutAnswered
  PROVE  PhoneInv'
<1>1. /\ logout = "calling" /\ alive' \in {alive, alive \ {active}}
      /\ active' = NoToken /\ stored' = NoToken /\ bio' = FALSE
      /\ logout' = "ending"
      /\ UNCHANGED <<holder, screen, attempt, restore, try, update, starts, history>>
  BY DEF LogoutAnswered
<1>2. TokensFine'
  BY <1>1, PhoneFacts DEF history, PhoneInv, TokensFine
<1>3. ~overtaken' => Calm'
  <2> SUFFICES ASSUME ~overtaken PROVE Calm'
    BY <1>1 DEF history
  <2>1. Calm
    BY DEF PhoneInv
  <2>2. screen.user # NoPerson /\ ~Restoring
    BY <1>1, <2>1 DEF Calm
  <2>3. \A t \in Tries : ~CurrentTry(t) /\ try[t].step \notin {"storing", "protecting"}
    BY <2>1, <2>2 DEF Calm
  <2> QED BY <1>1, <2>1, <2>2, <2>3
          DEF Calm, CurrentTry, Settling, Restoring
<1> QED BY <1>1, <1>2, <1>3, LoginsKept, PhoneFacts
        DEF history, PhoneInv, PhoneTypeOK

LEMMA LogoutEndsKeeps ==
  ASSUME PhoneInv, LogoutEnds
  PROVE  PhoneInv'
<1>1. /\ logout = "ending" /\ logout' = "none" /\ screen' = EmptyScreen
      /\ UNCHANGED <<serverSide, store, active, attempt, restore, try, update, starts, history>>
  BY DEF LogoutEnds
<1>2. TokensFine'
  BY <1>1 DEF store, history, PhoneInv, TokensFine
<1>3. ~overtaken' => Calm'
  <2> SUFFICES ASSUME ~overtaken PROVE Calm'
    BY <1>1 DEF history
  <2>1. Calm
    BY DEF PhoneInv
  <2>2. screen.user # NoPerson /\ ~Restoring /\ update = NoPerson /\ active = NoToken
    BY <1>1, <2>1 DEF Calm
  <2>3. \A t \in Tries : ~CurrentTry(t) /\ try[t].step \notin {"storing", "protecting"}
    BY <2>1, <2>2 DEF Calm
  <2> QED BY <1>1, <2>1, <2>2, <2>3, EmptyPhoneRows
          DEF Calm, CurrentTry, Settling, Restoring, serverSide, store
<1> QED BY <1>1, <1>2, <1>3, LoginsKept, PhoneFacts, EmptyPhoneRows
        DEF serverSide, store, history, PhoneInv, PhoneTypeOK

\* What changes nothing that Calm speaks of.
LEMMA AsideKeeps ==
  ASSUME PhoneInv, Protect \/ \E s \in Sessions : Revoked(s)
  PROVE  PhoneInv'
<1>1. /\ UNCHANGED <<holder, stored, active, screen, attempt, restore, try, logout, update, starts, history>>
      /\ alive' \subseteq alive /\ bio' \in BOOLEAN
  BY DEF Protect, Revoked, serverSide, store, PhoneInv, PhoneTypeOK
<1>2. TokensFine' /\ (~overtaken' => Calm')
  BY <1>1 DEF history, PhoneInv, TokensFine, Calm, CurrentTry, Settling, Restoring
<1> QED BY <1>1, <1>2, LoginsKept, PhoneFacts DEF history, PhoneInv, PhoneTypeOK

LEMMA SaveProfileKeeps ==
  ASSUME PhoneInv, SaveProfile
  PROVE  PhoneInv'
<1>1. /\ screen.user # NoPerson /\ active \in alive /\ update' = holder[active]
      /\ overtaken' = (overtaken \/ logout # "none")
      /\ UNCHANGED <<serverSide, store, active, screen, attempt, restore, try, logout, starts, dropped, opened>>
  BY DEF SaveProfile
<1>2. update' \in Persons /\ active \in Sessions
  BY <1>1 DEF PhoneInv, PhoneTypeOK, OnlyIssued, Issued
<1>3. TokensFine'
  BY <1>1 DEF store, PhoneInv, TokensFine
<1>4. ~overtaken' => Calm'
  <2> SUFFICES ASSUME ~overtaken, logout = "none" PROVE Calm'
    BY <1>1
  <2>1. Calm
    BY DEF PhoneInv
  <2> QED BY <1>1, <2>1 DEF Calm, CurrentTry, Settling, Restoring, serverSide, store
<1>5. overtaken' \in BOOLEAN
  BY <1>1 DEF PhoneInv, PhoneTypeOK
<1> QED BY <1>1, <1>2, <1>3, <1>4, <1>5, LoginsKept, PhoneFacts
        DEF serverSide, store, PhoneInv, PhoneTypeOK

LEMMA ProfileSavedKeeps ==
  ASSUME PhoneInv, ProfileSaved
  PROVE  PhoneInv'
<1>1. /\ update # NoPerson /\ update' = NoPerson /\ screen' = [screen EXCEPT !.user = update]
      /\ UNCHANGED <<serverSide, store, active, attempt, restore, try, logout, starts, history>>
  BY DEF ProfileSaved
<1>2. /\ screen' \in ScreenRow /\ screen'.user = update /\ screen'.challenge = screen.challenge
      /\ screen'.locked = screen.locked /\ screen'.busy = screen.busy
  BY <1>1, PhoneFacts DEF ScreenRow, PhoneInv, PhoneTypeOK
<1>3. TokensFine'
  BY <1>1 DEF store, history, PhoneInv, TokensFine
<1>4. ~overtaken' => Calm'
  <2> SUFFICES ASSUME ~overtaken PROVE Calm'
    BY <1>1 DEF history
  <2>1. Calm /\ update = screen.user
    BY <1>1 DEF PhoneInv, Calm
  <2> QED BY <1>1, <1>2, <2>1 DEF Calm, CurrentTry, Settling, Restoring, serverSide, store
<1> QED BY <1>1, <1>2, <1>3, <1>4, LoginsKept, PhoneFacts
        DEF serverSide, store, history, PhoneInv, PhoneTypeOK

\* One login moves to another row; the others stay as they are.
LEMMA TryMoves ==
  ASSUME PhoneInv, NEW t \in Tries, NEW row \in TryRow, try' = [try EXCEPT ![t] = row]
  PROVE  /\ try' \in [Tries -> TryRow] /\ try'[t] = row
         /\ \A u \in Tries \ {t} : try'[u] = try[u]
BY PhoneFacts

\* A login that ends leaves its session, at most, among those dropped.
LEMMA TryEnds ==
  ASSUME PhoneInv, NEW t \in Tries, try' = [try EXCEPT ![t] = NoTry],
         UNCHANGED <<holder, alive, attempt, restore, stored, active, opened>>,
         dropped' = dropped \/ (try[t].step = "answered" /\ dropped' = dropped \cup {try[t].token})
  PROVE  /\ try' \in [Tries -> TryRow] /\ dropped' \subseteq Sessions
         /\ try'[t] = NoTry /\ \A u \in Tries \ {t} : try'[u] = try[u]
         /\ OnlyIssued' /\ (\A u \in Tries : TryFine(u)') /\ TriesApart' /\ TokensFine'
<1>1. /\ try' \in [Tries -> TryRow] /\ try'[t] = NoTry
      /\ \A u \in Tries \ {t} : try'[u] = try[u]
  BY EmptyPhoneRows, TryMoves
<1>2. /\ \A u \in Tries : TryFine(u)
      /\ OnlyIssued /\ TokensFine /\ TriesApart /\ dropped \subseteq Sessions
  BY DEF PhoneInv, PhoneTypeOK
<1>3. try[t].step = "answered" =>
        try[t].token \in Issued /\ try[t].token \notin {active, stored, restore.token}
  BY <1>2 DEF TryFine
<1>4. OnlyIssued' /\ dropped' \subseteq Sessions
  BY <1>2, <1>3 DEF OnlyIssued, Issued
<1>5. TokensFine'
  BY <1>2, <1>3 DEF TokensFine
<1>6. TriesApart'
  BY <1>1, <1>2, EmptyPhoneRows DEF TriesApart
<1>7. ASSUME NEW u \in Tries PROVE TryFine(u)'
  <2>1. CASE u = t
    BY <1>1, <2>1, EmptyPhoneRows DEF TryFine
  <2>2. CASE u # t
    <3>1. TryFine(u) /\ try'[u] = try[u]
      BY <1>1, <1>2, <2>2
    <3>2. /\ try[u].step \in {"answered", "storing", "protecting"} => try[u].token # NoToken
          /\ try[t].step = "answered" => try[t].token # NoToken
      BY <1>2, PhoneFacts DEF TryFine
    <3>3. try[u].step \in {"answered", "storing", "protecting"} /\ try[t].step = "answered" =>
            try[u].token # try[t].token
      BY <1>2, <2>2, <3>2 DEF TriesApart
    <3>4. try[u].step \in {"answered", "storing", "protecting"} => try[u].token \notin dropped'
      BY <3>1, <3>3 DEF TryFine
    <3> QED BY <3>1, <3>4 DEF TryFine, Issued
  <2> QED BY <2>1, <2>2
<1> QED BY <1>1, <1>4, <1>5, <1>6, <1>7

LEMMA StartTryKeeps ==
  ASSUME PhoneInv, NEW t \in Tries, NEW p \in Persons, NEW remember \in BOOLEAN,
         StartTry(t, p, remember)
  PROVE  PhoneInv'
<1>1. PICK first \in {"verifying", "calling"} :
        try' = [try EXCEPT ![t] = [step |-> first, person |-> p, number |-> attempt + 1,
                                   token |-> NoToken, remember |-> remember]]
  BY DEF StartTry
<1>2. /\ try[t].step = "none" /\ screen.user = NoPerson /\ ~screen.busy
      /\ screen' = [screen EXCEPT !.busy = TRUE] /\ attempt' = attempt + 1
      /\ overtaken' = (overtaken \/ Restoring \/ Settling)
      /\ UNCHANGED <<serverSide, store, active, restore, logout, update, starts, dropped, opened>>
  BY DEF StartTry
<1> DEFINE row == [step |-> first, person |-> p, number |-> attempt + 1,
                   token |-> NoToken, remember |-> remember]
<1>3. /\ row \in TryRow /\ row.step = first /\ row.person = p /\ row.number = attempt + 1
      /\ row.token = NoToken
  BY PhoneFacts DEF TryRow
<1>4. try' = [try EXCEPT ![t] = row]
  BY <1>1
<1> HIDE DEF row
<1>5. /\ try' \in [Tries -> TryRow] /\ try'[t] = row
      /\ \A u \in Tries \ {t} : try'[u] = try[u]
  BY <1>3, <1>4, TryMoves
<1>6. /\ screen' \in ScreenRow /\ screen'.user = NoPerson /\ screen'.challenge = screen.challenge
      /\ screen'.locked = screen.locked /\ screen'.busy
  BY <1>2, PhoneFacts DEF ScreenRow
<1>7. attempt \in Nat /\ \A u \in Tries : try[u].step # "none" => try[u].number \in 1..attempt
  BY PhoneFacts DEF PhoneInv, TryFine
<1>8. overtaken' \in BOOLEAN
  BY <1>2 DEF Restoring, Settling, PhoneInv, PhoneTypeOK
<1>9. PhoneTypeOK'
  BY <1>2, <1>5, <1>6, <1>7, <1>8 DEF serverSide, store, PhoneInv, PhoneTypeOK
<1>10. OnlyIssued' /\ TokensFine'
  BY <1>2 DEF serverSide, store, PhoneInv, OnlyIssued, Issued, TokensFine
<1>11. ASSUME NEW u \in Tries PROVE TryFine(u)'
  <2>1. CASE u = t
    <3>1. row.number \in 1..attempt'
      BY <1>2, <1>3, <1>7
    <3> QED BY <1>3, <1>5, <2>1, <3>1 DEF TryFine
  <2>2. CASE u # t
    <3>1. TryFine(u) /\ try'[u] = try[u] /\ (try[u].step # "none" => try[u].number \in 1..attempt')
      BY <1>2, <1>5, <1>7, <2>2 DEF PhoneInv
    <3> QED BY <1>2, <3>1 DEF TryFine, Issued, serverSide, store
  <2> QED BY <2>1, <2>2
<1>12. \A u \in Tries \ {t} : try[u].step # "none" => try[u].number # attempt + 1
  BY <1>7
<1>13. TriesApart'
  BY <1>3, <1>5, <1>12 DEF PhoneInv, TriesApart
<1>14. ~overtaken' => Calm'
  <2> SUFFICES ASSUME ~overtaken, ~Settling, ~Restoring PROVE Calm'
    BY <1>2
  <2>1. Calm
    BY DEF PhoneInv
  <2>2. \A u \in Tries : try'[u].step \notin {"storing", "protecting"}
    BY <1>3, <1>5 DEF Settling
  <2> QED BY <1>2, <1>6, <2>1, <2>2
          DEF Calm, Settling, Restoring, serverSide, store
<1> QED BY <1>9, <1>10, <1>11, <1>13, <1>14 DEF PhoneInv

LEMMA ServerAcceptsKeeps ==
  ASSUME PhoneInv, NEW t \in Tries, NEW s \in Sessions, ServerAccepts(t, s)
  PROVE  PhoneInv'
<1>1. PICK q \in TryRow : q = try[t]
  BY PhoneFacts
<1>2. /\ q.step \in {"calling", "verifying"} /\ holder[s] = NoPerson
      /\ holder' = [holder EXCEPT ![s] = q.person] /\ alive' = alive \cup {s}
      /\ try' = [try EXCEPT ![t] = [q EXCEPT !.token = s, !.step = "answered"]]
      /\ UNCHANGED <<store, active, screen, attempt, restore, logout, update, starts, history>>
  BY <1>1, PhoneFacts DEF ServerAccepts
<1> DEFINE row == [q EXCEPT !.token = s, !.step = "answered"]
<1>3. /\ row \in TryRow /\ row.step = "answered" /\ row.person = q.person /\ row.number = q.number
      /\ row.token = s
  BY DEF TryRow
<1>4. try' = [try EXCEPT ![t] = row]
  BY <1>2
<1> HIDE DEF row
<1>5. /\ try' \in [Tries -> TryRow] /\ try'[t] = row
      /\ \A u \in Tries \ {t} : try'[u] = try[u]
  BY <1>3, <1>4, TryMoves
<1>6. q.person \in Persons /\ q.number \in 1..attempt
  BY <1>1, <1>2 DEF PhoneInv, TryFine
<1>7. /\ holder' \in [Sessions -> Persons \cup {NoPerson}] /\ holder'[s] = q.person
      /\ \A x \in Sessions \ {s} : holder'[x] = holder[x]
      /\ s \notin Issued /\ s # NoToken /\ q.person # NoPerson
  BY <1>2, <1>6, PhoneFacts DEF PhoneInv, PhoneTypeOK, Issued
<1>8. Issued' = Issued \cup {s} /\ \A x \in Issued : holder'[x] = holder[x]
  BY <1>7 DEF Issued
<1>9. PhoneTypeOK'
  BY <1>2, <1>5, <1>7 DEF store, history, PhoneInv, PhoneTypeOK
<1>10. OnlyIssued' /\ TokensFine'
  BY <1>2, <1>8 DEF store, history, PhoneInv, OnlyIssued, TokensFine
<1>11. /\ s \notin {active, stored, restore.token} \cup opened \cup dropped
       /\ \A u \in Tries : try[u].token # s
  <2>1. s \notin {active, stored, restore.token} \cup opened \cup dropped
    BY <1>7 DEF PhoneInv, OnlyIssued
  <2>2. ASSUME NEW u \in Tries PROVE try[u].token # s
    <3>1. TryFine(u) /\ try[u] \in TryRow
      BY PhoneFacts DEF PhoneInv
    <3>2. try[u].token = NoToken \/ try[u].token \in Issued
      BY <3>1 DEF TryFine, TryRow
    <3> QED BY <1>7, <3>2
  <2> QED BY <2>1, <2>2
<1>12. ASSUME NEW u \in Tries PROVE TryFine(u)'
  <2>1. CASE u = t
    BY <1>2, <1>3, <1>5, <1>6, <1>7, <1>8, <1>11, <2>1 DEF TryFine, store, history
  <2>2. CASE u # t
    <3>1. PICK b \in TryRow : b = try[u] /\ b = try'[u]
      BY <1>5, <2>2, PhoneFacts
    <3>2. /\ b.step # "none" => b.person \in Persons /\ b.number \in 1..attempt
          /\ b.step \in {"none", "calling", "verifying"} => b.token = NoToken
          /\ b.step \in {"answered", "storing", "protecting"} =>
               b.token \in Issued /\ holder[b.token] = b.person /\ b.token \notin dropped
          /\ b.step = "answered" => b.token \notin {active, stored, restore.token} \cup opened
      BY <3>1 DEF TryFine, PhoneInv
    <3>3. b.token \in Issued => b.token \in Issued' /\ holder'[b.token] = holder[b.token]
      BY <1>8
    <3>4. UNCHANGED <<active, stored, restore, attempt, opened, dropped>>
      BY <1>2 DEF store, history
    <3> QED BY <3>1, <3>2, <3>3, <3>4 DEF TryFine
  <2> QED BY <2>1, <2>2
<1>13. TriesApart'
  BY <1>1, <1>2, <1>3, <1>5, <1>11 DEF PhoneInv, TriesApart
<1>14. ~overtaken' => Calm'
  <2> SUFFICES ASSUME ~overtaken PROVE Calm'
    BY <1>2 DEF history
  <2>1. Calm
    BY DEF PhoneInv
  <2>2. /\ \A u \in Tries : CurrentTry(u)' <=> CurrentTry(u)
        /\ \A u \in Tries : try'[u].step \in {"storing", "protecting"} <=>
                              try[u].step \in {"storing", "protecting"}
        /\ \A u \in Tries : try[u].step \in {"storing", "protecting"} => try'[u] = try[u]
    BY <1>1, <1>2, <1>3, <1>5 DEF CurrentTry
  <2>3. Settling' <=> Settling
    BY <2>2 DEF Settling
  <2>4. active # NoToken => holder'[active] = holder[active]
    BY <1>8 DEF PhoneInv, OnlyIssued
  <2> HIDE DEF CurrentTry, Settling
  <2> QED BY <1>2, <2>1, <2>2, <2>3, <2>4 DEF Calm, Restoring, store
<1> QED BY <1>9, <1>10, <1>12, <1>13, <1>14 DEF PhoneInv

LEMMA TakeSessionKeeps ==
  ASSUME PhoneInv, NEW t \in Tries, TakeSession(t)
  PROVE  PhoneInv'
<1>1. PICK q \in TryRow : q = try[t]
  BY PhoneFacts
<1>2. /\ q.step = "answered"
      /\ UNCHANGED <<serverSide, store, screen, attempt, restore, logout, update, starts, overtaken>>
  BY <1>1 DEF TakeSession
<1>3. /\ TryFine(t) /\ q.token \in Issued /\ holder[q.token] = q.person /\ q.token \notin dropped
      /\ q.person \in Persons /\ q.number \in 1..attempt
      /\ q.token \notin {active, stored, restore.token} \cup opened
      /\ q.token \in Sessions /\ q.token # NoToken
  BY <1>1, <1>2, PhoneFacts DEF PhoneInv, TryFine, Issued
<1>4. CASE ~Current(t)
  <2>1. /\ try' = [try EXCEPT ![t] = NoTry] /\ UNCHANGED <<active, opened>>
        /\ dropped' = dropped \cup {q.token} /\ q.number # attempt
    BY <1>1, <1>4 DEF TakeSession, Current
  <2>2. /\ try' \in [Tries -> TryRow] /\ dropped' \subseteq Sessions
        /\ try'[t] = NoTry /\ \A u \in Tries \ {t} : try'[u] = try[u]
        /\ OnlyIssued' /\ (\A u \in Tries : TryFine(u)') /\ TriesApart' /\ TokensFine'
    BY <1>1, <1>2, <2>1, TryEnds DEF serverSide, store
  <2>3. PhoneTypeOK'
    BY <1>2, <2>1, <2>2 DEF serverSide, store, PhoneInv, PhoneTypeOK
  <2>4. ~overtaken' => Calm'
    <3> SUFFICES ASSUME ~overtaken PROVE Calm'
      BY <1>2
    <3>1. Calm
      BY DEF PhoneInv
    <3>2. /\ \A u \in Tries : CurrentTry(u)' => CurrentTry(u)
          /\ \A u \in Tries : try'[u].step \in {"storing", "protecting"} <=>
                                try[u].step \in {"storing", "protecting"}
          /\ \A u \in Tries : try[u].step \in {"storing", "protecting"} => try'[u] = try[u]
      BY <1>1, <1>2, <2>2, EmptyPhoneRows DEF CurrentTry
    <3>3. \A u \in Tries : try[u].step \in {"storing", "protecting"} => CurrentTry(u)'
      BY <1>2, <3>1, <3>2 DEF Calm, CurrentTry
    <3>4. Settling' <=> Settling
      BY <3>2 DEF Settling
    <3> HIDE DEF CurrentTry, Settling
    <3> QED BY <1>2, <2>1, <3>1, <3>2, <3>3, <3>4 DEF Calm, Restoring, serverSide
  <2> QED BY <2>2, <2>3, <2>4 DEF PhoneInv
<1>5. CASE Current(t)
  <2>1. /\ try' = [try EXCEPT ![t] = [q EXCEPT !.step = "storing"]] /\ active' = q.token
        /\ opened' = opened \cup {q.token}
        /\ dropped' = dropped /\ q.number = attempt
    BY <1>1, <1>5, PhoneFacts DEF TakeSession, Current
  <2> DEFINE row == [q EXCEPT !.step = "storing"]
  <2>2. /\ row \in TryRow /\ row.step = "storing" /\ row.person = q.person /\ row.number = q.number
        /\ row.token = q.token
    BY DEF TryRow
  <2>3. try' = [try EXCEPT ![t] = row]
    BY <2>1
  <2> HIDE DEF row
  <2>4. /\ try' \in [Tries -> TryRow] /\ try'[t] = row
        /\ \A u \in Tries \ {t} : try'[u] = try[u]
    BY <2>2, <2>3, TryMoves
  <2>5. PhoneTypeOK'
    BY <1>2, <1>3, <2>1, <2>4 DEF serverSide, store, PhoneInv, PhoneTypeOK
  <2>6. OnlyIssued' /\ Issued' = Issued
    BY <1>2, <1>3, <2>1 DEF serverSide, store, PhoneInv, OnlyIssued, Issued
  <2>7. TokensFine'
    BY <1>2, <1>3, <2>1 DEF store, PhoneInv, TokensFine
  <2>8. TriesApart'
    BY <1>1, <1>2, <2>2, <2>4 DEF PhoneInv, TriesApart
  <2>9. \A u \in Tries \ {t} : try[u].step # "none" =>
          try[u].number # attempt /\ try[u].token # q.token
    BY <1>1, <1>2, <1>3, <2>1 DEF PhoneInv, TriesApart
  <2>10. ASSUME NEW u \in Tries PROVE TryFine(u)'
    <3>1. CASE u = t
      BY <1>2, <1>3, <2>1, <2>2, <2>4, <2>6, <3>1 DEF TryFine, serverSide
    <3>2. CASE u # t
      <4>1. PICK b \in TryRow : b = try[u] /\ b = try'[u]
        BY <2>4, <3>2, PhoneFacts
      <4>2. /\ b.step # "none" => b.person \in Persons /\ b.number \in 1..attempt
            /\ b.step \in {"none", "calling", "verifying"} => b.token = NoToken
            /\ b.step \in {"answered", "storing", "protecting"} =>
                 b.token \in Issued /\ holder[b.token] = b.person /\ b.token \notin dropped
            /\ b.step = "answered" => b.token \notin {active, stored, restore.token} \cup opened
        BY <4>1 DEF TryFine, PhoneInv
      <4>3. b.step # "none" => b.token # q.token
        BY <2>9, <3>2, <4>1
      <4>4. b.step = "answered" => b.token \notin {active', stored, restore.token} \cup opened'
        BY <2>1, <4>2, <4>3
      <4>5. UNCHANGED <<holder, stored, restore, attempt, dropped>>
        BY <1>2, <2>1 DEF serverSide, store
      <4> QED BY <2>6, <4>1, <4>2, <4>4, <4>5 DEF TryFine
    <3> QED BY <3>1, <3>2
  <2>11. ~overtaken' => Calm'
    <3> SUFFICES ASSUME ~overtaken PROVE Calm'
      BY <1>2
    <3>1. Calm /\ CurrentTry(t)
      BY <1>1, <1>2, <2>1 DEF PhoneInv, CurrentTry
    <3>2. ~Restoring /\ screen.user = NoPerson /\ screen.busy
      BY <3>1 DEF Calm
    <3>3. \A u \in Tries \ {t} : try'[u].step \notin {"storing", "protecting"} /\ ~CurrentTry(u)'
      BY <1>2, <2>4, <2>9, <3>1 DEF Calm, CurrentTry
    <3>4. CurrentTry(t)' /\ Settling'
      BY <1>2, <2>1, <2>2, <2>4 DEF CurrentTry, Settling
    <3>5. \A u \in Tries : try'[u].step \in {"storing", "protecting"} =>
            CurrentTry(u)' /\ active' = try'[u].token
      BY <2>1, <2>2, <2>4, <3>3, <3>4
    <3> HIDE DEF CurrentTry, Settling
    <3> QED BY <1>2, <2>1, <3>1, <3>2, <3>4, <3>5 DEF Calm, Restoring
  <2> QED BY <2>5, <2>6, <2>7, <2>8, <2>10, <2>11 DEF PhoneInv
<1> QED BY <1>4, <1>5

LEMMA TakeOtherKeeps ==
  ASSUME PhoneInv, NEW t \in Tries, TakeOther(t)
  PROVE  PhoneInv'
<1>1. PICK q \in TryRow : q = try[t]
  BY PhoneFacts
<1>2. /\ q.step \in {"calling", "verifying"} /\ try' = [try EXCEPT ![t] = NoTry]
      /\ UNCHANGED <<serverSide, store, active, attempt, restore, logout, update, starts, history>>
  BY <1>1 DEF TakeOther
<1>3. /\ try' \in [Tries -> TryRow] /\ dropped' \subseteq Sessions
      /\ try'[t] = NoTry /\ \A u \in Tries \ {t} : try'[u] = try[u]
      /\ OnlyIssued' /\ (\A u \in Tries : TryFine(u)') /\ TriesApart' /\ TokensFine'
  BY <1>1, <1>2, TryEnds DEF serverSide, store, history
<1>4. q.person \in Persons
  BY <1>1, <1>2 DEF PhoneInv, TryFine
<1>5. /\ screen' \in ScreenRow
      /\ \/ screen' = screen /\ ~Current(t)
         \/ /\ Current(t) /\ ~screen'.busy /\ screen'.user = screen.user
            /\ screen'.challenge = screen.challenge
         \/ /\ Current(t) /\ ~screen'.busy /\ screen'.user = NoPerson
            /\ screen'.challenge = q.person
  <2>1. CASE ~Current(t)
    BY <2>1, PhoneFacts DEF TakeOther
  <2>2. CASE Current(t) /\ screen' = [screen EXCEPT !.busy = FALSE]
    BY <2>2, PhoneFacts DEF ScreenRow
  <2>3. CASE Current(t) /\ screen' = [EmptyScreen EXCEPT !.challenge = q.person]
    BY <1>4, <2>3, EmptyPhoneRows DEF ScreenRow
  <2> QED BY <1>1, <2>1, <2>2, <2>3 DEF TakeOther
<1>6. PhoneTypeOK'
  BY <1>2, <1>3, <1>5 DEF serverSide, store, history, PhoneInv, PhoneTypeOK
<1>7. ~overtaken' => Calm'
  <2> SUFFICES ASSUME ~overtaken PROVE Calm'
    BY <1>2 DEF history
  <2>1. Calm
    BY DEF PhoneInv
  <2>2. /\ \A u \in Tries : CurrentTry(u)' => CurrentTry(u) /\ u # t
        /\ \A u \in Tries : try'[u].step \in {"storing", "protecting"} <=>
                              try[u].step \in {"storing", "protecting"}
        /\ \A u \in Tries : try[u].step \in {"storing", "protecting"} =>
                              try'[u] = try[u] /\ (CurrentTry(u) => CurrentTry(u)')
    BY <1>1, <1>2, <1>3, EmptyPhoneRows DEF CurrentTry
  <2>3. Settling' <=> Settling
    BY <2>2 DEF Settling
  <2>4. CASE ~Current(t)
    <3>1. screen' = screen
      BY <1>5, <2>4
    <3> HIDE DEF CurrentTry, Settling
    <3> QED BY <1>2, <2>1, <2>2, <2>3, <3>1 DEF Calm, Restoring, serverSide
  <2>5. CASE Current(t)
    <3>1. CurrentTry(t) /\ attempt' = attempt
      BY <1>1, <1>2, <2>5 DEF CurrentTry, Current
    <3>2. ~Restoring /\ screen.user = NoPerson /\ logout = "none" /\ update = NoPerson
      BY <2>1, <3>1 DEF Calm
    <3>3. \A u \in Tries : ~CurrentTry(u)'
      <4> SUFFICES ASSUME NEW u \in Tries, CurrentTry(u)' PROVE FALSE
        OBVIOUS
      <4>1. CurrentTry(u) /\ u # t
        BY <2>2
      <4> QED BY <3>1, <4>1 DEF CurrentTry, PhoneInv, TriesApart
    <3>4. ~Settling
      BY <2>1, <2>2, <3>3 DEF Settling, Calm
    <3>5. screen'.user = NoPerson
      BY <1>5, <2>5, <3>2
    <3> HIDE DEF CurrentTry
    <3> QED BY <1>2, <2>1, <2>2, <2>3, <3>2, <3>3, <3>4, <3>5 DEF Calm, Restoring, Settling, serverSide
  <2> QED BY <2>4, <2>5
<1> QED BY <1>3, <1>6, <1>7 DEF PhoneInv

LEMMA StoreTokenKeeps ==
  ASSUME PhoneInv, NEW t \in Tries, StoreToken(t)
  PROVE  PhoneInv'
<1>1. PICK q \in TryRow : q = try[t]
  BY PhoneFacts
<1>2. /\ q.step = "storing" /\ stored' \in {q.token, NoToken}
      /\ try' = [try EXCEPT ![t] = [q EXCEPT !.step = "protecting"]]
      /\ UNCHANGED <<serverSide, bio, active, screen, attempt, restore, logout, update, starts, history>>
  BY <1>1, PhoneFacts DEF StoreToken
<1> DEFINE row == [q EXCEPT !.step = "protecting"]
<1>3. /\ row \in TryRow /\ row.step = "protecting" /\ row.person = q.person /\ row.number = q.number
      /\ row.token = q.token
  BY DEF TryRow
<1>4. try' = [try EXCEPT ![t] = row]
  BY <1>2
<1> HIDE DEF row
<1>5. /\ try' \in [Tries -> TryRow] /\ try'[t] = row
      /\ \A u \in Tries \ {t} : try'[u] = try[u]
  BY <1>3, <1>4, TryMoves
<1>6. /\ q.token \in Issued /\ holder[q.token] = q.person /\ q.token \notin dropped
      /\ q.person \in Persons /\ q.number \in 1..attempt /\ q.token \in Sessions
      /\ q.token # NoToken
  BY <1>1, <1>2, PhoneFacts DEF PhoneInv, TryFine, Issued
<1>7. PhoneTypeOK'
  BY <1>2, <1>5, <1>6 DEF serverSide, history, PhoneInv, PhoneTypeOK
<1>8. OnlyIssued' /\ TokensFine' /\ Issued' = Issued
  BY <1>2, <1>6, PhoneFacts DEF serverSide, history, PhoneInv, OnlyIssued, Issued, TokensFine
<1>9. TriesApart'
  BY <1>1, <1>2, <1>3, <1>5 DEF PhoneInv, TriesApart
<1>10. \A u \in Tries \ {t} : try[u].step # "none" => try[u].token # q.token
  BY <1>1, <1>2, <1>6 DEF PhoneInv, TriesApart
<1>11. ASSUME NEW u \in Tries PROVE TryFine(u)'
  <2>1. CASE u = t
    BY <1>2, <1>3, <1>5, <1>6, <1>8, <2>1 DEF TryFine, serverSide, history
  <2>2. CASE u # t
    <3>1. PICK b \in TryRow : b = try[u] /\ b = try'[u]
      BY <1>5, <2>2, PhoneFacts
    <3>2. /\ b.step # "none" => b.person \in Persons /\ b.number \in 1..attempt
          /\ b.step \in {"none", "calling", "verifying"} => b.token = NoToken
          /\ b.step \in {"answered", "storing", "protecting"} =>
               b.token \in Issued /\ holder[b.token] = b.person /\ b.token \notin dropped
          /\ b.step = "answered" => b.token \notin {active, stored, restore.token} \cup opened
      BY <3>1 DEF TryFine, PhoneInv
    <3>3. b.step = "answered" => b.token \notin {active, stored', restore.token} \cup opened
      BY <1>2, <1>10, <2>2, <3>1, <3>2, PhoneFacts
    <3>4. UNCHANGED <<holder, active, restore, attempt, opened, dropped>>
      BY <1>2 DEF serverSide, history
    <3> QED BY <1>8, <3>1, <3>2, <3>3, <3>4 DEF TryFine
  <2> QED BY <2>1, <2>2
<1>12. ~overtaken' => Calm'
  <2> SUFFICES ASSUME ~overtaken PROVE Calm'
    BY <1>2 DEF history
  <2>1. Calm
    BY DEF PhoneInv
  <2>2. /\ \A u \in Tries : CurrentTry(u)' <=> CurrentTry(u)
        /\ \A u \in Tries : try'[u].step \in {"storing", "protecting"} <=>
                              try[u].step \in {"storing", "protecting"}
        /\ \A u \in Tries : try'[u].token = try[u].token
    BY <1>1, <1>2, <1>3, <1>5 DEF CurrentTry
  <2>3. Settling' <=> Settling
    BY <2>2 DEF Settling
  <2> HIDE DEF CurrentTry, Settling
  <2> QED BY <1>2, <2>1, <2>2, <2>3 DEF Calm, Restoring, serverSide
<1> QED BY <1>7, <1>8, <1>9, <1>11, <1>12 DEF PhoneInv

LEMMA ShowUserKeeps ==
  ASSUME PhoneInv, NEW t \in Tries, ShowUser(t)
  PROVE  PhoneInv'
<1>1. PICK q \in TryRow : q = try[t]
  BY PhoneFacts
<1>2. /\ q.step = "protecting" /\ bio' \in BOOLEAN /\ try' = [try EXCEPT ![t] = NoTry]
      /\ screen' = [EmptyScreen EXCEPT !.user = q.person]
      /\ UNCHANGED <<serverSide, stored, active, attempt, restore, logout, update, starts, history>>
  BY <1>1 DEF ShowUser, TryRow
<1>3. /\ try' \in [Tries -> TryRow] /\ dropped' \subseteq Sessions
      /\ try'[t] = NoTry /\ \A u \in Tries \ {t} : try'[u] = try[u]
      /\ OnlyIssued' /\ (\A u \in Tries : TryFine(u)') /\ TriesApart' /\ TokensFine'
  BY <1>1, <1>2, TryEnds DEF serverSide, history
<1>4. q.person \in Persons /\ q.token # NoToken /\ holder[q.token] = q.person
  BY <1>1, <1>2, PhoneFacts DEF PhoneInv, TryFine
<1>5. /\ screen' \in ScreenRow /\ screen'.user = q.person /\ screen'.challenge = NoPerson
      /\ ~screen'.locked
  BY <1>2, <1>4, EmptyPhoneRows DEF ScreenRow
<1>6. PhoneTypeOK'
  BY <1>2, <1>3, <1>5 DEF serverSide, history, PhoneInv, PhoneTypeOK
<1>7. ~overtaken' => Calm'
  <2> SUFFICES ASSUME ~overtaken PROVE Calm'
    BY <1>2 DEF history
  <2>1. Calm
    BY DEF PhoneInv
  <2>2. CurrentTry(t) /\ active = q.token
    BY <1>1, <1>2, <2>1 DEF Calm
  <2>3. ~Restoring /\ screen.user = NoPerson /\ logout = "none" /\ update = NoPerson
    BY <2>1, <2>2 DEF Calm
  <2>4. \A u \in Tries : ~CurrentTry(u)' /\ try'[u].step \notin {"storing", "protecting"}
    <3> SUFFICES ASSUME NEW u \in Tries
                 PROVE  ~CurrentTry(u)' /\ try'[u].step \notin {"storing", "protecting"}
      OBVIOUS
    <3>1. CASE u = t
      BY <1>3, <3>1, EmptyPhoneRows DEF CurrentTry
    <3>2. CASE u # t
      <4>1. try'[u] = try[u] /\ ~CurrentTry(u)
        BY <1>3, <2>2, <3>2 DEF CurrentTry, PhoneInv, TriesApart
      <4>2. try[u].step \notin {"storing", "protecting"}
        BY <2>1, <4>1 DEF Calm
      <4> QED BY <1>2, <4>1, <4>2 DEF CurrentTry
    <3> QED BY <3>1, <3>2
  <2>5. /\ restore'.step = "none" /\ active' = q.token /\ logout' = "none" /\ update' = NoPerson
        /\ holder' = holder /\ q.person # NoPerson
    BY <1>2, <1>4, <2>2, <2>3, PhoneFacts DEF Restoring, serverSide
  <2> QED BY <1>4, <1>5, <2>4, <2>5 DEF Calm, Restoring
<1> QED BY <1>3, <1>6, <1>7 DEF PhoneInv

LEMMA AppStartKeeps ==
  ASSUME PhoneInv, AppStart
  PROVE  PhoneInv'
<1> DEFINE here == [EmptyScreen EXCEPT !.restoring = TRUE]
           begun == [NoRestore EXCEPT !.step = "read"]
<1>1. /\ here \in ScreenRow /\ here.user = NoPerson /\ here.challenge = NoPerson
      /\ ~here.busy /\ ~here.locked
      /\ begun \in RestoreRow /\ begun.step = "read" /\ begun.token = NoToken
  BY DEF EmptyScreen, ScreenRow, NoRestore, RestoreRow
<1>2. /\ screen' = here /\ restore' = begun /\ active' = NoToken /\ attempt' = 0
      /\ try' = [t \in Tries |-> NoTry] /\ logout' = "none" /\ update' = NoPerson
      /\ opened' = {} /\ overtaken' = FALSE
      /\ UNCHANGED <<serverSide, store, dropped>>
  BY DEF AppStart
<1> HIDE DEF here, begun
<1>3. PhoneTypeOK'
  BY <1>1, <1>2, EmptyPhoneRows DEF PhoneInv, PhoneTypeOK, serverSide, store
<1>4. OnlyIssued'
  BY <1>1, <1>2 DEF PhoneInv, OnlyIssued, Issued, serverSide, store
<1>5. (\A t \in Tries : TryFine(t)') /\ TriesApart'
  BY <1>2, EmptyPhoneRows DEF TryFine, TriesApart
<1>6. TokensFine'
  BY <1>1, <1>2, PhoneFacts DEF PhoneInv, TokensFine, store
<1>7. Calm'
  BY <1>1, <1>2, EmptyPhoneRows DEF Calm, CurrentTry, Restoring
<1> QED BY <1>3, <1>4, <1>5, <1>6, <1>7 DEF PhoneInv

LEMMA PhoneStep ==
  ASSUME PhoneInv, [PhoneNext]_sessionVars
  PROVE  PhoneInv'
<1>1. CASE PhoneNext
  BY <1>1, ReadStoredKeeps, ReadProtectionKeeps, AskLocallyKeeps, ActivateStoredKeeps,
     SessionAnswersKeeps, RestoreEndsKeeps, UnlockKeeps, ForgetKeeps, StartTryKeeps,
     ServerAcceptsKeeps, TakeSessionKeeps, TakeOtherKeeps, StoreTokenKeeps, ShowUserKeeps,
     CloseSheetKeeps, StartLogoutKeeps, LogoutAnsweredKeeps, LogoutEndsKeeps, AsideKeeps,
     SaveProfileKeeps, ProfileSavedKeeps, AppStartKeeps DEF PhoneNext
<1>2. CASE UNCHANGED sessionVars
  <2>1. UNCHANGED <<holder, alive, stored, bio, active, screen, attempt, restore, try, logout,
                    update, starts, dropped, opened, overtaken>>
    BY <1>2 DEF sessionVars, serverSide, store, history
  <2>2. PhoneTypeOK' /\ OnlyIssued' /\ (\A t \in Tries : TryFine(t)') /\ TriesApart' /\ TokensFine'
    BY <2>1 DEF PhoneInv, PhoneTypeOK, OnlyIssued, Issued, TryFine, TriesApart, TokensFine
  <2>3. ~overtaken' => Calm'
    BY <2>1 DEF PhoneInv, Calm, CurrentTry, Settling, Restoring
  <2> QED BY <2>2, <2>3 DEF PhoneInv
<1> QED BY <1>1, <1>2

LEMMA PhonePart ==
  ASSUME [Next]_allVars
  PROVE  [PhoneNext]_sessionVars
BY DEF Next, SecuritySteps, OnboardingSteps, PhoneSteps, allVars

LEMMA PhoneAlways == Spec => []PhoneInv
<1>1. Init => PhoneInv
  BY PhoneStart DEF Init
<1>2. PhoneInv /\ [Next]_allVars => PhoneInv'
  BY PhoneStep, PhonePart
<1> QED BY <1>1, <1>2, PTL DEF Spec

\* A session stands for its account as it is and for a second factor that still
\* stands, a link sets one password, and a phone sends no session it was not let
\* into and shows whom the one it sends belongs to, however logins, resets,
\* administration, restores and logouts cross each other (login, mfa_verify,
\* password_reset_confirm, admin_update_user_roles, auth_controller.dart).
THEOREM SessionsTellTheTruth == Spec => []SessionInvariant
<1>1. SecurityInv /\ PhoneInv => SessionInvariant
  BY SecurityInvImplies, PhoneInvImplies DEF SessionInvariant
<1> QED BY <1>1, SecurityAlways, PhoneAlways, PTL

=============================================================================
