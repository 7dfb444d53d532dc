----------------------------- MODULE Catalogue -----------------------------
(***************************************************************************)
(* Where markets stand in the catalogue: the taxonomy entry each belongs   *)
(* to and the two places of the front page.                                *)
(*                                                                         *)
(* An operator's save of a market holds the market's row, but it reads the *)
(* entry first, the featured markets next, and commits later, and other    *)
(* saves and the taxonomy's own handlers come in between: BeginSave reads, *)
(* MakeRoom decides who leaves the front page, FinishSave commits.  A      *)
(* statement that waits for a row is one that comes later.                 *)
(*                                                                         *)
(* Events stand for the three levels of the taxonomy, which have the same  *)
(* handlers; the slug of a name is the name.                               *)
(***************************************************************************)
EXTENDS Integers, FiniteSets

CONSTANTS
    Entries, NoEntry,   \* rows of gotrendlabs_market_events, below one subcategory
    Labels,             \* names, and the slugs made of them
    Listings,           \* markets
    Savers, NotSaving,  \* operators' saves in flight at once
    NotApproved,
    MaxCatalogueEdits   \* bound on saves and taxonomy changes

EntryRow == [name : Labels, slug : Labels, blocked : BOOLEAN]

\* What a human approves of a market is, among the rest, its place.
Place == [entry : Entries, featured : BOOLEAN]
ListingRow ==
    [place : Place, approved : Place \cup {NotApproved}, named : Labels]

\* A save: the entry found by the name typed (NoEntry if there was none), the
\* markets it takes off the front page once it has made room there, and whether
\* the entry was changed since (history).
SaveRow ==
    [listing : Listings, name : Labels, entry : Entries \cup {NoEntry}, featured : BOOLEAN,
     ready : BOOLEAN, off : SUBSET Listings, crossed : BOOLEAN]

ASSUME CatalogueAssumption ==
    /\ NoEntry \notin Entries \cup EntryRow
    /\ NotApproved \notin ListingRow \cup Place /\ NotSaving \notin SaveRow
    /\ MaxCatalogueEdits \in Nat

VARIABLES
    entry, listing, saving,
    displaced,  \* approved listings that another's save took off the front page (history)
    moved,      \* listings whose entry was renamed, or blocked, under or after their save (history)
    raced,      \* did a save make room while another's was not committed? (history)
    catalogueEdits

catalogueVars == <<entry, listing, saving, displaced, moved, raced, catalogueEdits>>

CatalogueInit ==
    /\ \E e \in Entries, n \in Labels :
         entry = [f \in Entries |->
                    IF f = e THEN [name |-> n, slug |-> n, blocked |-> FALSE] ELSE NoEntry]
    /\ listing = [l \in Listings |-> NotApproved]
    /\ saving = [s \in Savers |-> NotSaving]
    /\ displaced = {}
    /\ moved = {}
    /\ raced = FALSE
    /\ catalogueEdits = 0

Filed == {e \in Entries : entry[e] # NoEntry}
Listed == {l \in Listings : listing[l] # NotApproved}
Featured == {l \in Listed : listing[l].place.featured}
Saving == {s \in Savers : saving[s] # NotSaving}
Held(l) == \E s \in Saving : l = saving[s].listing \/ l \in saving[s].off
OnEntry(e) == {l \in Listed : listing[l].place.entry = e}
\* The running saves, when entry e changes under them.
Crossed(e) ==
    [s \in Savers |->
       IF s \in Saving /\ saving[s].entry = e THEN [saving[s] EXCEPT !.crossed = TRUE]
       ELSE saving[s]]

CatalogueEdit == catalogueEdits < MaxCatalogueEdits /\ catalogueEdits' = catalogueEdits + 1

-----------------------------------------------------------------------------
(* Saves of a market.                                                      *)

\* _existing_taxonomy_by_name; two entries of one name refuse the save.
Named(n) == {e \in Filed : entry[e].name = n}

Available(n) ==
    /\ Cardinality(Named(n)) <= 1
    /\ \A e \in Named(n) : ~entry[e].blocked

BeginSave(s, l, n, featured) ==
    /\ s \notin Saving /\ ~Held(l)
    /\ CatalogueEdit
    /\ Available(n)
    /\ saving' = [saving EXCEPT ![s] =
         [listing |-> l, name |-> n,
          entry |-> IF Named(n) = {} THEN NoEntry ELSE CHOOSE e \in Named(n) : TRUE,
          featured |-> featured, ready |-> ~featured, off |-> {}, crossed |-> FALSE]]
    /\ UNCHANGED <<entry, listing, displaced, moved, raced>>

\* Of the other featured markets one keeps its place, the rest leave.
Leaving(l, kept) == Featured \ {l, kept}

\* _sync_featured_market, just before the market's own row is written
MakeRoom(s) ==
    LET q == saving[s] IN
    /\ s \in Saving /\ ~q.ready
    /\ \E kept \in IF Featured \subseteq {q.listing} THEN {q.listing} ELSE Featured \ {q.listing} :
         /\ \A l \in Leaving(q.listing, kept) : ~Held(l)
         /\ saving' = [saving EXCEPT ![s] =
              [q EXCEPT !.ready = TRUE, !.off = Leaving(q.listing, kept)]]
    /\ raced' = (raced \/ \E t \in Saving : saving[t].featured /\ saving[t].ready)
    /\ UNCHANGED <<entry, listing, displaced, moved, catalogueEdits>>

\* Without an entry of that name one is inserted; if its slug is taken, the
\* entry that has it gets the name (ON CONFLICT ... DO UPDATE).
Upserted(n) ==
    LET owner == {e \in Filed : entry[e].slug = n} IN
    IF owner # {}
    THEN {<<e, [entry EXCEPT ![e].name = n]>> : e \in owner}
    ELSE {<<e, [entry EXCEPT ![e] = [name |-> n, slug |-> n, blocked |-> FALSE]]>> :
            e \in Entries \ Filed}

\* The foreign key refuses an entry that is gone.
Placed(q) ==
    IF q.entry = NoEntry THEN Upserted(q.name)
    ELSE {<<q.entry, entry>> : e \in {q.entry} \cap Filed}

OffFrontPage(l) == [listing[l] EXCEPT !.place.featured = FALSE]

\* human_edit_done withdraws the approval of the market that is saved.
Saved(q, e) ==
    [place |-> [entry |-> e, featured |-> q.featured], named |-> q.name,
     approved |-> NotApproved]

FinishSave(s) ==
    LET q == saving[s] IN
    /\ s \in Saving /\ q.ready
    /\ \E p \in Placed(q) :
         /\ entry' = p[2]
         /\ q.entry = p[1] \/ ~p[2][p[1]].blocked
         /\ listing' = [l \in Listings |->
              CASE l = q.listing -> Saved(q, p[1])
                [] l \in q.off -> OffFrontPage(l)
                [] OTHER -> listing[l]]
         /\ LET also == IF p[2] = entry THEN moved ELSE moved \cup OnEntry(p[1])
            IN  moved' = IF q.crossed THEN also \cup {q.listing} ELSE also \ {q.listing}
         /\ saving' = [(IF p[2] = entry THEN saving ELSE Crossed(p[1])) EXCEPT ![s] = NotSaving]
    /\ displaced' = (displaced \ {q.listing})
                    \cup {l \in q.off : listing[l].approved # NotApproved}
    /\ UNCHANGED <<raced, catalogueEdits>>

SaveFails(s) ==
    /\ s \in Saving
    /\ saving' = [saving EXCEPT ![s] = NotSaving]
    /\ UNCHANGED <<entry, listing, displaced, moved, raced, catalogueEdits>>

\* The agent names the entry by id and share-locks it.
AgentSave(l, e) ==
    /\ l \in Listed /\ ~Held(l)
    /\ e \in Filed /\ ~entry[e].blocked
    /\ CatalogueEdit
    /\ listing' = [listing EXCEPT ![l] =
         [@ EXCEPT !.place.entry = e, !.named = entry[e].name, !.approved = NotApproved]]
    /\ displaced' = displaced \ {l}
    /\ moved' = moved \ {l}
    /\ UNCHANGED <<entry, saving, raced>>

\* A reviewer approves the market as it stands; approving it again is allowed.
Approve(l) ==
    /\ l \in Listed /\ ~Held(l)
    /\ listing' = [listing EXCEPT ![l] = [@ EXCEPT !.approved = listing[l].place]]
    /\ displaced' = displaced \ {l}
    /\ UNCHANGED <<entry, saving, moved, raced, catalogueEdits>>

\* cancel_market takes the market off the front page.
CancelListing(l) ==
    /\ l \in Featured /\ ~Held(l)
    /\ CatalogueEdit
    /\ listing' = [listing EXCEPT ![l] = [OffFrontPage(l) EXCEPT !.approved = NotApproved]]
    /\ displaced' = displaced \ {l}
    /\ UNCHANGED <<entry, saving, moved, raced>>

-----------------------------------------------------------------------------
(* The taxonomy's own handlers.                                            *)

Change(e, row) ==
    /\ CatalogueEdit
    /\ entry' = [entry EXCEPT ![e] = row]
    /\ moved' = moved \cup OnEntry(e)
    /\ saving' = Crossed(e)
    /\ UNCHANGED <<listing, displaced, raced>>

\* admin_create_...: with a slug of the operator's choice, and an upsert too.
CreateEntry(n, g) ==
    LET owner == {e \in Filed : entry[e].slug = g} IN
    \E e \in IF owner = {} THEN Entries \ Filed ELSE owner :
      Change(e, [name |-> n, slug |-> g, blocked |-> e \in owner /\ entry[e].blocked])

\* admin_update_...: the slug must be free
SlugTaken(e, g) == \E f \in Filed \ {e} : entry[f].slug = g

UpdateEntry(e, n, g) ==
    /\ e \in Filed
    /\ ~SlugTaken(e, g)
    /\ Change(e, [entry[e] EXCEPT !.name = n, !.slug = g])

\* admin_block_... and admin_unblock_...
SwitchEntry(e, blocked) ==
    /\ e \in Filed
    /\ Change(e, [entry[e] EXCEPT !.blocked = blocked])

\* admin_delete_event counts its markets first.
DeleteEntry(e) ==
    /\ e \in Filed
    /\ OnEntry(e) = {}
    /\ Change(e, NoEntry)

CatalogueNext ==
    \/ \E s \in Savers, l \in Listings, n \in Labels, f \in BOOLEAN : BeginSave(s, l, n, f)
    \/ \E s \in Savers : MakeRoom(s) \/ FinishSave(s) \/ SaveFails(s)
    \/ \E l \in Listings, e \in Entries : AgentSave(l, e)
    \/ \E l \in Listings : Approve(l) \/ CancelListing(l)
    \/ \E n, g \in Labels : CreateEntry(n, g)
    \/ \E e \in Entries, n, g \in Labels : UpdateEntry(e, n, g)
    \/ \E e \in Entries, b \in BOOLEAN : SwitchEntry(e, b)
    \/ \E e \in Entries : DeleteEntry(e)

-----------------------------------------------------------------------------
(* Properties.                                                             *)

\* Rows keep their types, and no two entries have one slug.
CatalogueTypeOK ==
    /\ entry \in [Entries -> EntryRow \cup {NoEntry}]
    /\ listing \in [Listings -> ListingRow \cup {NotApproved}]
    /\ saving \in [Savers -> SaveRow \cup {NotSaving}]
    /\ \A e, f \in Filed : entry[e].slug = entry[f].slug => e = f

\* The entry of a market exists, though events are deleted after a count that
\* a running save escapes.
MarketsKeepTheirEntry == \A l \in Listed : listing[l].place.entry \in Filed

\* A market stands where its editor put it, under a name he typed and open to
\* markets, until the entry is renamed or blocked; a save under which that
\* happened is the exception (_upsert_event, _ensure_taxonomy_available).
PlacedAsTyped ==
    \A l \in Listed \ moved :
      LET e == listing[l].place.entry
      IN  entry[e].name = listing[l].named /\ ~entry[e].blocked

\* The front page features two markets at most, unless a save made room for its
\* market before another that had done so was committed (_sync_featured_market).
FrontPageHasTwoPlaces == ~raced => Cardinality(Featured) <= 2

\* What was approved of a market's place is still true of it, except where a
\* save of another market took its place on the front page: that market
\* cannot be published before it is approved again.
ApprovedPlaceStands ==
    \A l \in Listed \ displaced :
      listing[l].approved # NotApproved => listing[l].approved = listing[l].place

\* Markets stand where they were put and approved, and at most two on the front
\* page, whatever saves and taxonomy changes cross each other.
CatalogueInvariant ==
    CatalogueTypeOK /\ MarketsKeepTheirEntry /\ PlacedAsTyped /\ FrontPageHasTwoPlaces
      /\ ApprovedPlaceStands

=============================================================================
