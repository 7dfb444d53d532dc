----------------------------- MODULE PushDevices -----------------------------
(***************************************************************************)
(* The push devices of one phone: a row for each account that registered   *)
(* the phone's token.  A registration is a transaction of two statements:  *)
(* the first turns the token off for every other account, the second       *)
(* inserts the account's own row or refreshes it.  The first does not see  *)
(* what an open transaction has inserted.                                  *)
(***************************************************************************)
EXTENDS Integers, FiniteSets

CONSTANT Owners         \* accounts that use the phone

\* A row of gotrendlabs_push_devices; is_active and push_enabled go together.
DeviceRow == [known : BOOLEAN, active : BOOLEAN, revoked : BOOLEAN]

\* A registration between its two statements: the rows the first one locked.
Registration == [open : BOOLEAN, others : SUBSET Owners]

VARIABLES
    device,         \* the phone's rows
    registering,    \* registrations in flight
    overlapped,     \* have two registrations been in flight at once? (history)
    forgone         \* accounts that revoked the phone themselves (history)

deviceVars == <<device, registering, overlapped, forgone>>

Unregistered == [open |-> FALSE, others |-> {}]

DeviceInit ==
    /\ device = [u \in Owners |-> [known |-> FALSE, active |-> FALSE, revoked |-> FALSE]]
    /\ registering = [u \in Owners |-> Unregistered]
    /\ overlapped = FALSE
    /\ forgone = {}

ActiveOwners == {u \in Owners : device[u].active}
LockedDevices == UNION {registering[v].others : v \in Owners}

OthersActive_Kept(u) == {}
OthersActive(u) == ActiveOwners \ {u}

BeginRegister(u) ==
    /\ ~registering[u].open
    /\ OthersActive(u) \cap LockedDevices = {}
    /\ registering' = [registering EXCEPT ![u] = [open |-> TRUE, others |-> OthersActive(u)]]
    /\ overlapped' = (overlapped \/ \E v \in Owners : registering[v].open)
    /\ UNCHANGED <<device, forgone>>

\* A revoked row is refreshed but not reactivated.
OwnRow(row) ==
    IF row.known /\ row.revoked THEN row
    ELSE [known |-> TRUE, active |-> TRUE, revoked |-> FALSE]

CommitRegister(u) ==
    /\ registering[u].open
    /\ u \notin LockedDevices
    /\ device' = [v \in Owners |->
                    CASE v = u -> OwnRow(device[u])
                      [] v \in registering[u].others ->
                           [device[v] EXCEPT !.active = FALSE, !.revoked = TRUE]
                      [] OTHER -> device[v]]
    /\ registering' = [registering EXCEPT ![u] = Unregistered]
    /\ UNCHANGED <<overlapped, forgone>>

\* The database ends a deadlock, or the connection is lost.
AbortRegister(u) ==
    /\ registering[u].open
    /\ registering' = [registering EXCEPT ![u] = Unregistered]
    /\ UNCHANGED <<device, overlapped, forgone>>

RevokeDevice(u) ==
    /\ device[u].known
    /\ u \notin LockedDevices
    /\ device' = [device EXCEPT ![u].active = FALSE, ![u].revoked = TRUE]
    /\ forgone' = forgone \cup {u}
    /\ UNCHANGED <<registering, overlapped>>

\* A push worker learns that the provider refuses the token.
InvalidateDevice(u) ==
    /\ device[u].known
    /\ u \notin LockedDevices
    /\ device' = [device EXCEPT ![u].active = FALSE]
    /\ UNCHANGED <<registering, overlapped, forgone>>

DeviceNext ==
    \E u \in Owners :
      BeginRegister(u) \/ CommitRegister(u) \/ AbortRegister(u)
      \/ RevokeDevice(u) \/ InvalidateDevice(u)

-----------------------------------------------------------------------------
(* Properties.                                                             *)

\* Rows keep their types; a revoked row is inactive, and a registration never
\* turns its own row off.
DeviceTypeOK ==
    /\ device \in [Owners -> DeviceRow]
    /\ registering \in [Owners -> Registration]
    /\ overlapped \in BOOLEAN
    /\ forgone \subseteq Owners
    /\ \A u \in Owners :
         /\ device[u].active => device[u].known
         /\ u \notin registering[u].others

\* Unless two registrations overlapped, a phone receives the pushes of one
\* account only (register_my_push_device).
OnePhoneOneAccount == overlapped \/ Cardinality(ActiveOwners) <= 1

\* A phone that its user revoked never becomes active for that account again,
\* whatever registrations of it follow or were in flight.
RevokedStaysOff == \A u \in forgone : ~device[u].active

\* Unless its registrations overlap, a phone rings for one account, and never
\* again for one that gave it up (register_my_push_device).
DeviceInvariant == DeviceTypeOK /\ OnePhoneOneAccount /\ RevokedStaysOff

=============================================================================
