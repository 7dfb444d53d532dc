---------------------------- MODULE Observations ----------------------------
(***************************************************************************)
(* What the platform observes of its visitors: events that the clients     *)
(* send (analytics.py), the daily history they are consolidated into       *)
(* (analytics_history.py), the pruning of what the history preserves, the  *)
(* erasure of a member who closes the account, and the reports that read   *)
(* both (analytics_reports.py).                                            *)
(*                                                                         *)
(* A report adds the preserved counts of the consolidated days to the raw  *)
(* events of the others.  Nothing locks the raw events while they are      *)
(* moved: that each event is reported once rests on the window in which    *)
(* an event is accepted, the age at which a day is consolidated and the    *)
(* age at which its events are removed.                                    *)
(*                                                                         *)
(* A batch is one event, a count is the set of the events it counts, and   *)
(* an instant is its day.  Platforms, event names, markets and the events  *)
(* of staff and bots are left out: each report treats them alike.          *)
(***************************************************************************)
EXTENDS Integers, FiniteSetsExt

CONSTANTS
    Notes,         \* events, by the identifier the client gives them
    Browsers,      \* visitor identifiers of browsers and installations
    Sittings,      \* session identifiers
    Members,       \* accounts
    NoMember,      \* nobody is signed in
    Nothing,       \* there is no row, no plan, no listing
    LateDays,      \* how old an event may be when it arrives
    Mature,        \* the age at which a day is consolidated
    Retain,        \* the age at which consolidated events are removed
    LastDay,       \* the model's horizon
    MaxInFlight    \* requests that the API works on at once

Days == 0..LastDay + 1

\* The code's ages are 7, 9 and at least 30 days.
ASSUME ObservationAssumption ==
    /\ NoMember \notin Members
    /\ Browsers \cap Members = {}
    /\ {LateDays, Mature, Retain, LastDay, MaxInFlight} \subseteq Nat
    /\ LateDays + 1 < Mature
    /\ Nothing \notin Days
    /\ Nothing \notin
         [day : Days, browser : Browsers, sitting : Sittings]
           \cup [browser : Browsers, seen : Days]
           \cup [stale : SUBSET Days, next : Nat, through : Int]
           \cup [next : Nat, shown : SUBSET Notes]

Consolidators == {"daemon", "backfill"}

VARIABLES
    today,
    written,       \* event |-> its day, visitor and session, once a client has it
    requests,      \* batches the API works on: event, member and day of arrival
    raw,           \* gotrendlabs_analytics_events
    author,        \* event |-> the member it was received from
    sittings,      \* gotrendlabs_analytics_sessions
    visitors,      \* gotrendlabs_analytics_visitors: the day of first_seen_at
    consolidated,  \* gotrendlabs_analytics_history_days
    pruned,        \* its days with raw_pruned
    counted,       \* gotrendlabs_analytics_history_counts
    presence,      \* gotrendlabs_analytics_history_actors
    plans,         \* what each consolidator has still to do
    closed,        \* members whose account is closed
    kept,          \* the events accepted and not erased, whatever became of them
    nameless,      \* preserved events whose member has been erased since
    overtaken,     \* closed members of whom a request was under way
    listing        \* a report that is read page by page

clientVars == <<written, requests>>
rawVars == <<raw, author, sittings, visitors>>
historyVars == <<consolidated, pruned, counted, presence>>
erasureVars == <<closed, nameless, overtaken>>
observationVars ==
    <<today, clientVars, rawVars, historyVars, plans, erasureVars, kept, listing>>

ObservationInit ==
    /\ today = 0
    /\ written = [n \in Notes |-> Nothing]
    /\ requests = {}
    /\ raw = {}
    /\ author = [n \in Notes |-> NoMember]
    /\ sittings = [s \in Sittings |-> Nothing]
    /\ visitors = [b \in Browsers |-> Nothing]
    /\ consolidated = {} /\ pruned = {}
    /\ counted = [d \in Days |-> {}]
    /\ presence = {}
    /\ plans = [w \in Consolidators |-> Nothing]
    /\ closed = {} /\ nameless = {} /\ overtaken = {}
    /\ kept = {}
    /\ listing = Nothing

-----------------------------------------------------------------------------
(* The reports.                                                            *)

On(d, events) == {n \in events : written[n].day = d}

RawOn(d) == On(d, raw)

\* Events of days that have no checkpoint.
LiveOn(d) == IF d \in consolidated THEN {} ELSE RawOn(d)

ReportedOn(d) == counted[d] \cup LiveOn(d)

\* An event belongs to the account that sent it, or else to the visitor of its session.
ActorOf(n) == IF author[n] = NoMember THEN sittings[written[n].sitting].browser ELSE author[n]

ActorsOn(d) == {p.who : p \in {q \in presence : q.day = d}} \cup {ActorOf(n) : n \in LiveOn(d)}

\* The console's dashboard reads raw events only; it takes them by their arrival, the model
\* by the day that they are of.
DashboardOn(d) == RawOn(d)

\* Its retention, too: who was active on a day.
DashboardActorsOn(d) == {ActorOf(n) : n \in RawOn(d)}

\* Members joined before the first day; a visitor's cohort is its first day.
CohortOf(who) == IF who \in Browsers THEN visitors[who] ELSE 0

\* The days of which anything was observed.
ObservedDays == consolidated \cup {written[n].day : n \in raw}

-----------------------------------------------------------------------------
(* Clients and their batches.                                              *)

\* A client notes what it sees and keeps it until it has been sent; its clock may be
\* a little ahead.
WriteDown(n) ==
    /\ written[n] = Nothing
    /\ \E b \in Browsers, s \in Sittings, ahead \in 0..1 :
           written' = [written EXCEPT ![n] = [day |-> today + ahead, browser |-> b, sitting |-> s]]
    /\ UNCHANGED <<today, requests, rawVars, historyVars, plans, erasureVars, kept, listing>>

InWindow(d) == today - LateDays <= d /\ d <= today + 1

\* A batch arrives, for the first time or again: its times and its member are checked.
Arrives(n) ==
    /\ Cardinality(requests) < MaxInFlight
    /\ written[n] # Nothing
    /\ InWindow(written[n].day)
    /\ \E m \in (Members \ closed) \cup {NoMember} :
           requests' = requests \cup {[note |-> n, member |-> m, begun |-> today]}
    /\ UNCHANGED <<today, written, rawVars, historyVars, plans, erasureVars, kept, listing>>

\* A session belongs to the first visitor that used it.
BoundTo(s, b) == sittings[s] # Nothing => sittings[s].browser = b

\* A listing ends when its revision moves: with an event or a consolidated day.  The event
\* of a request that began before it, or an erasure, may leave the revision as it is and tear
\* the listing; the model follows it no further.
Revised(changed) == listing' = IF changed THEN Nothing ELSE listing

\* Its transaction: the visitor, the session, and the event unless it is known.
Ingest(r) ==
    /\ r \in requests /\ requests' = requests \ {r}
    /\ LET b == written[r.note].browser
           s == written[r.note].sitting
       IN  /\ BoundTo(s, b)
           /\ visitors' = [visitors EXCEPT ![b] = IF @ = Nothing THEN r.begun ELSE @]
           /\ sittings' = [sittings EXCEPT ![s] = [browser |-> b, seen |-> r.begun]]
    /\ raw' = raw \cup {r.note}
    /\ author' = IF r.note \in raw THEN author ELSE [author EXCEPT ![r.note] = r.member]
    /\ kept' = kept \cup {r.note}
    /\ Revised(r.note \notin raw)
    /\ UNCHANGED <<today, written, historyVars, plans, erasureVars>>

\* The session is another visitor's, or the request fails: nothing is written.
Rejected(r) ==
    /\ r \in requests /\ requests' = requests \ {r}
    /\ UNCHANGED <<today, written, rawVars, historyVars, plans, erasureVars, kept, listing>>

-----------------------------------------------------------------------------
(* Consolidation, by the daemon and by the backfill command.               *)

\* What the history holds of the days `days' once they are rebuilt from `events'.
CountsFrom(days, events) ==
    [d \in Days |-> IF d \in days THEN On(d, events) ELSE counted[d]]

PresenceFrom(days, events) ==
    {p \in presence : p.day \notin days}
      \cup {[day |-> written[n].day, who |-> ActorOf(n), cohort |-> CohortOf(ActorOf(n))] :
              n \in {k \in events : written[k].day \in days}}

Through == today - Mature

Stale == {d \in consolidated \ pruned : d <= Through /\ counted[d] # RawOn(d)}

FirstDay ==
    LET first == Min({written[n].day : n \in raw})
    IN  IF consolidated = {} THEN first ELSE Max({first, Max(consolidated) + 1})

\* A round is over when nothing is left of its plan.
AsPlan(plan) == IF plan.stale # {} \/ plan.next <= plan.through THEN plan ELSE Nothing

\* The work of a round, read in a transaction of its own.
BeginRound(w) ==
    /\ plans[w] = Nothing
    /\ raw # {}
    /\ plans' = [plans EXCEPT ![w] =
         AsPlan([stale |-> Stale, next |-> FirstDay, through |-> Through])]
    /\ UNCHANGED <<today, clientVars, rawVars, historyVars, erasureVars, kept, listing>>

\* First the days that changed since, then the ones that have no checkpoint.
NextDay(plan) == IF plan.stale # {} THEN Min(plan.stale) ELSE plan.next

Without(plan) ==
    IF plan.stale # {} THEN [plan EXCEPT !.stale = @ \ {NextDay(plan)}]
    ELSE [plan EXCEPT !.next = @ + 1]

\* One day in one transaction, under the advisory lock.
ConsolidateDay(w) ==
    /\ plans[w] # Nothing
    /\ LET plan == plans[w]
           day == NextDay(plan)
       IN  /\ day <= Through /\ day \notin pruned
           /\ consolidated' = consolidated \cup {day}
           /\ counted' = CountsFrom({day}, raw)
           /\ presence' = PresenceFrom({day}, raw)
           /\ plans' = [plans EXCEPT ![w] = AsPlan(Without(plan))]
    /\ Revised(TRUE)
    /\ UNCHANGED <<today, clientVars, rawVars, pruned, erasureVars, kept>>

\* The limit is reached, a day has been pruned meanwhile, or the process dies.
EndRound(w) ==
    /\ plans[w] # Nothing /\ plans' = [plans EXCEPT ![w] = Nothing]
    /\ UNCHANGED <<today, clientVars, rawVars, historyVars, erasureVars, kept, listing>>

-----------------------------------------------------------------------------
(* Removal of what is preserved.                                           *)

Cutoff == today - Retain

\* Days whose history agrees with the raw events.
Prunable == {d \in consolidated \ pruned : d < Cutoff /\ counted[d] = RawOn(d)}

\* A session goes once it is old and has no events, a visitor once it has no session and
\* no presence.
Prune ==
    LET removed == {n \in raw : written[n].day < Cutoff /\ written[n].day \in pruned \cup Prunable}
        quiet == {s \in Sittings :
                    /\ sittings[s] # Nothing /\ sittings[s].seen < Cutoff
                    /\ \A n \in raw \ removed : written[n].sitting # s}
        left == [s \in Sittings |-> IF s \in quiet THEN Nothing ELSE sittings[s]]
    IN  /\ plans["daemon"] = Nothing
        /\ pruned' = pruned \cup Prunable
        /\ raw' = raw \ removed
        /\ sittings' = left
        /\ visitors' = [b \in Browsers |->
             IF /\ \A s \in Sittings : left[s] # Nothing => left[s].browser # b
                /\ \A p \in presence : p.who # b
             THEN Nothing ELSE visitors[b]]
        /\ UNCHANGED <<today, clientVars, author, consolidated, counted, presence, plans,
                       erasureVars, kept, listing>>

-----------------------------------------------------------------------------
(* Erasure of a member, in the transaction that closes the account.        *)

Mine(m) == {n \in raw : author[n] = m}

Affected_None(m) == {}
\* The preserved days to build again without the member's events.
Affected(m) == {written[n].day : n \in Mine(m)} \cap (consolidated \ pruned)

CloseAccount(m) ==
    /\ m \in Members \ closed
    /\ closed' = closed \cup {m}
    /\ raw' = raw \ Mine(m)
    /\ kept' = kept \ Mine(m)
    /\ counted' = CountsFrom(Affected(m), raw')
    /\ presence' = {p \in PresenceFrom(Affected(m), raw') : p.who # m}
    /\ nameless' = nameless \cup {n \in UNION {counted[d] : d \in pruned} : author[n] = m}
    /\ overtaken' = IF \E r \in requests : r.member = m THEN overtaken \cup {m} ELSE overtaken
    /\ Revised(Mine(m) # {})
    /\ UNCHANGED <<today, clientVars, author, sittings, visitors, consolidated, pruned, plans>>

\* An operator opens the account again.
Reopen(m) ==
    /\ m \in closed
    /\ closed' = closed \ {m}
    /\ overtaken' = overtaken \ {m}
    /\ UNCHANGED <<today, clientVars, rawVars, historyVars, plans, nameless, kept, listing>>

-----------------------------------------------------------------------------
(* A report in pages, one day each, bound to the revision of its first.    *)

OpenListing ==
    /\ listing = Nothing
    /\ ObservedDays # {}
    /\ LET first == Min(ObservedDays)
       IN  listing' = [next |-> first, shown |-> {}]
    /\ UNCHANGED <<today, clientVars, rawVars, historyVars, plans, erasureVars, kept>>

\* A listing whose revision has moved is refused its next page: it is Nothing.
TurnPage ==
    /\ listing # Nothing
    /\ listing.next <= today
    /\ listing' = [listing EXCEPT !.next = @ + 1, !.shown = @ \cup ReportedOn(listing.next)]
    /\ UNCHANGED <<today, clientVars, rawVars, historyVars, plans, erasureVars, kept>>

CloseListing ==
    /\ listing # Nothing /\ listing' = Nothing
    /\ UNCHANGED <<today, clientVars, rawVars, historyVars, plans, erasureVars, kept>>

-----------------------------------------------------------------------------
\* A request lives through one midnight at most.
Midnight ==
    /\ today < LastDay /\ today' = today + 1
    /\ \A r \in requests : r.begun = today
    /\ UNCHANGED <<clientVars, rawVars, historyVars, plans, erasureVars, kept, listing>>

ObservationNext ==
    \/ \E n \in Notes : WriteDown(n) \/ Arrives(n)
    \/ \E r \in requests : Ingest(r) \/ Rejected(r)
    \/ \E w \in Consolidators : BeginRound(w) \/ ConsolidateDay(w) \/ EndRound(w)
    \/ Prune
    \/ \E m \in Members : CloseAccount(m) \/ Reopen(m)
    \/ OpenListing \/ TurnPage \/ CloseListing
    \/ Midnight

ObservationSpec == ObservationInit /\ [][ObservationNext]_observationVars

-----------------------------------------------------------------------------
ObservationTypeOK ==
    /\ today \in 0..LastDay
    /\ written \in [Notes -> [day : Days, browser : Browsers, sitting : Sittings] \cup {Nothing}]
    /\ requests \subseteq [note : Notes, member : Members \cup {NoMember}, begun : Days]
    /\ raw \subseteq Notes /\ kept \subseteq Notes /\ nameless \subseteq Notes
    /\ author \in [Notes -> Members \cup {NoMember}]
    /\ sittings \in [Sittings -> [browser : Browsers, seen : Days] \cup {Nothing}]
    /\ visitors \in [Browsers -> Days \cup {Nothing}]
    /\ consolidated \subseteq Days /\ pruned \subseteq consolidated
    /\ counted \in [Days -> SUBSET Notes]
    /\ presence \subseteq [day : Days, who : Browsers \cup Members, cohort : Days]
    /\ plans \in
         [Consolidators -> [stale : SUBSET Days, next : Nat, through : Int] \cup {Nothing}]
    /\ closed \subseteq Members /\ overtaken \subseteq closed
    /\ listing # Nothing => listing \in [next : 0..LastDay + 2, shown : SUBSET Notes]

\* An event that was accepted and not erased is reported on its day, once, whether it is
\* still raw or only preserved: by the counts (_observed_counts), by the actors (_actors)
\* and by the dashboard, which reads raw events only, as long as they are retained.
ReportsComplete ==
    \A d \in Days :
        /\ ReportedOn(d) = On(d, kept)
        /\ ActorsOn(d) = {IF author[n] = NoMember THEN written[n].browser ELSE author[n] :
                            n \in On(d, kept) \ nameless}
        /\ d >= Cutoff =>
              DashboardOn(d) = ReportedOn(d) /\ DashboardActorsOn(d) = ActorsOn(d)

\* A member who has closed the account is in no raw event and in no presence, unless a
\* request of theirs was under way at that moment (forget_actor).
ErasedForGood ==
    \A m \in closed \ overtaken :
        /\ Mine(m) = {}
        /\ \A p \in presence : p.who # m

\* A visitor that has been seen keeps the row that says when it came first, and all of its
\* days agree on it (prune, retention).
CohortsStable ==
    \A p \in presence : p.who \in Browsers =>
        visitors[p.who] # Nothing /\ p.cohort = visitors[p.who]

\* The pages of one listing together show every event of the days behind them, although days
\* are pruned meanwhile and events arrive again (_revision, period).
ListingConsistent ==
    listing # Nothing => listing.shown = {n \in kept : written[n].day < listing.next}

ObservationInvariant ==
    /\ ObservationTypeOK
    /\ ReportsComplete
    /\ ErasedForGood
    /\ CohortsStable
    /\ ListingConsistent

=============================================================================
