---------------------------- MODULE MarketDrafts ----------------------------
(***************************************************************************)
(* A market before and around its publication: drafts by operators and by  *)
(* an agent, revisions, the human verdict that publication requires, the   *)
(* registered definition and schedule, and deletion.                       *)
(*                                                                         *)
(* Every handler locks the market's row and works in one transaction, so   *)
(* it is one action.  What can go wrong lies between handlers: an operator *)
(* acts on a page read earlier, and finds the market by a slug that may    *)
(* name another one by now; an agent repeats a request whose answer was    *)
(* lost.                                                                   *)
(***************************************************************************)
EXTENDS Integers, Sequences

CONSTANTS
    MaxMarkets,         \* bound on the markets ever created
    Slugs, Texts, Dates,
    FirstTexts, FirstDates, \* those that drafts are created with
    NoMarket, NoText, NoPage, NoReceipt, Deleted,
    Readers,            \* whoever holds a page: operators, the agent
    Agent,              \* the reader that is the integration
    Keys,               \* idempotency keys of the agent's creations
    FormKinds,          \* "identified", and "legacy": without expected_market_id
    MaxDraftEdits,      \* bound on edits, submissions and verdicts
    MaxSchedules        \* bound on versions of a schedule

MarketIds == 1..MaxMarkets
Verdicts == {"approved", "returned", "rejected"}
Content == [text : Texts, date : Dates]
FirstContent == [text : FirstTexts, date : FirstDates]

\* gotrendlabs_markets, its editorial draft and its definition.  decided is
\* the revision the standing decision was taken on, 0 without one; registered
\* holds the dates of the signed schedule history.
MarketRow ==
    [slug : Slugs, content : Content, byAgent : BOOLEAN,
     status : {"draft", "open", "canceled"},
     revision : Nat \ {0}, state : {"preparation", "in_review"} \cup Verdicts,
     snapshot : Content, decided : Nat,
     definition : Texts \cup {NoText}, registered : Seq(Dates)]

\* What a reader was shown, and the forms it fills send back.
Page ==
    [market : MarketIds, slug : Slugs, revision : Nat, shown : Content,
     snapshot : Content, version : Nat]

ASSUME DraftAssumption ==
    /\ {MaxMarkets, MaxDraftEdits, MaxSchedules} \subseteq Nat \ {0}
    /\ Agent \in Readers
    /\ FormKinds \subseteq {"identified", "legacy"}
    /\ NoText \notin Texts
    /\ FirstTexts \subseteq Texts /\ FirstDates \subseteq Dates
    /\ NoMarket \notin MarketRow /\ NoPage \notin Page
    /\ {NoReceipt, Deleted} \cap MarketIds = {} /\ NoReceipt # Deleted

VARIABLES
    market,         \* rows by id
    created,        \* ids are given in order, and never twice
    receipt,        \* gotrendlabs_agent_idempotency, operation create
    page,
    deletedSlugs,   \* slugs with a market.delete event
    judged,         \* of each market, the texts a reviewer saw and approved (history)
    blind,          \* kinds of saves over something their reader was not shown (history)
    made,           \* markets created with each key (history)
    draftEdits

draftVars == <<market, created, receipt, page, deletedSlugs, judged, blind, made, draftEdits>>

DraftInit ==
    /\ market = [m \in MarketIds |-> NoMarket]
    /\ created = 0
    /\ receipt = [k \in Keys |-> NoReceipt]
    /\ page = [r \in Readers |-> NoPage]
    /\ deletedSlugs = {}
    /\ judged = [m \in MarketIds |-> {}]
    /\ blind = {}
    /\ made = [k \in Keys |-> 0]
    /\ draftEdits = 0

Known == {m \in MarketIds : market[m] # NoMarket}
SlugFree(s) == \A m \in Known : market[m].slug # s
Versioned(row) == Len(row.registered) > 0

NewDraft(s, content, byAgent) ==
    [slug |-> s, content |-> content, byAgent |-> byAgent, status |-> "draft",
     revision |-> 1, state |-> "preparation", snapshot |-> content, decided |-> 0,
     definition |-> NoText, registered |-> <<>>]

Creates(row) ==
    /\ created < MaxMarkets
    /\ created' = created + 1
    /\ market' = [market EXCEPT ![created + 1] = row]

-----------------------------------------------------------------------------
(* Creation and reading.                                                   *)

\* admin_create_market; the advisory lock on the slug makes the test sound.
HumanCreate(s, content) ==
    /\ SlugFree(s)
    /\ Creates(NewDraft(s, content, FALSE))
    /\ UNCHANGED <<receipt, page, deletedSlugs, judged, blind, made, draftEdits>>

\* mutate("create"): the slug is made unique; the receipt commits with the
\* market.  A repeated key finds its receipt and changes nothing.
AgentCreate(k, s, content) ==
    /\ receipt[k] = NoReceipt
    /\ SlugFree(s)
    /\ Creates(NewDraft(s, content, TRUE))
    /\ receipt' = [receipt EXCEPT ![k] = created + 1]
    /\ made' = [made EXCEPT ![k] = @ + 1]
    /\ UNCHANGED <<page, deletedSlugs, judged, blind, draftEdits>>

\* The agent is shown its own drafts only.
OpenDraft(r, m) ==
    /\ m \in Known
    /\ r = Agent => market[m].byAgent
    /\ page' = [page EXCEPT ![r] =
         [market |-> m, slug |-> market[m].slug, revision |-> market[m].revision,
          shown |-> market[m].content, snapshot |-> market[m].snapshot,
          version |-> Len(market[m].registered)]]
    /\ UNCHANGED <<market, created, receipt, deletedSlugs, judged, blind, made, draftEdits>>

\* The identity fence: the row is found by its slug, and must be the one the
\* form was made for; a form that does not say is refused where a market of
\* that slug was deleted.
Identified(p, m, kind) ==
    IF kind = "identified" THEN p.market = m ELSE p.slug \notin deletedSlugs

Targets(r, m, kind) ==
    /\ page[r] # NoPage
    /\ m \in Known
    /\ market[m].slug = page[r].slug
    /\ Identified(page[r], m, kind)

\* version(), on the revision that the page carries
Current(r, m) == page[r].revision = market[m].revision

Blinded(r, m, kind) ==
    IF page[r].market = m /\ page[r].shown.text = market[m].content.text
    THEN blind ELSE blind \cup {kind}

-----------------------------------------------------------------------------
(* Edits.                                                                  *)

DraftEdit == draftEdits < MaxDraftEdits /\ draftEdits' = draftEdits + 1

\* save_draft of the schedule: a registered one only changes by rescheduling.
ScheduleAllows(row, date) ==
    Versioned(row) \/ row.status # "draft" => date = row.content.date

Rewritten(row, content, state) ==
    [row EXCEPT !.content = content, !.snapshot = content, !.revision = @ + 1,
                !.state = state, !.decided = 0]

\* admin_update_market: an operator may also move the market to another slug,
\* but neither that nor the text of a market with a definition.
HumanEdit(r, m, kind, s, content) ==
    LET row == market[m] IN
    /\ r # Agent
    /\ Targets(r, m, kind) /\ Current(r, m) /\ DraftEdit
    /\ row.definition # NoText => s = row.slug /\ content.text = row.content.text
    /\ s = row.slug \/ SlugFree(s)
    /\ ScheduleAllows(row, content.date)
    /\ market' = [market EXCEPT ![m] = [Rewritten(row, content, "preparation") EXCEPT !.slug = s]]
    /\ blind' = Blinded(r, m, kind)
    /\ UNCHANGED <<created, receipt, page, deletedSlugs, judged, made>>

\* The agent names its draft by id.
AgentWrites(m) ==
    LET row == market[m] IN
    /\ page[Agent] # NoPage /\ page[Agent].market = m /\ m \in Known
    /\ row.byAgent
    /\ Current(Agent, m) /\ DraftEdit
    /\ row.status = "draft" /\ row.state \in {"preparation", "returned"}

AgentUpdate(m, content) ==
    /\ AgentWrites(m)
    /\ market' = [market EXCEPT ![m] = Rewritten(@, content, "preparation")]
    /\ blind' = Blinded(Agent, m, "identified")
    /\ UNCHANGED <<created, receipt, page, deletedSlugs, judged, made>>

AgentSubmit(m) ==
    /\ AgentWrites(m)
    /\ market' = [market EXCEPT ![m] = Rewritten(@, @.content, "in_review")]
    /\ UNCHANGED <<created, receipt, page, deletedSlugs, judged, blind, made>>

-----------------------------------------------------------------------------
(* The verdict, publication and what follows it.                           *)

\* The reviewer names the market by id, the revision and the snapshot's hash.
Reviewable_Latest(r, m) ==
    /\ r # Agent
    /\ page[r] # NoPage /\ page[r].market = m /\ m \in Known
    /\ market[m].status \in {"draft", "open"}
Reviewable(r, m) ==
    /\ r # Agent
    /\ page[r] # NoPage /\ page[r].market = m /\ m \in Known
    /\ Current(r, m)
    /\ page[r].snapshot = market[m].snapshot
    /\ market[m].status \in {"draft", "open"}

\* The decision is a revision of its own, and names the one it was taken on.
Decided(row, verdict) ==
    [row EXCEPT !.state = verdict, !.decided = row.revision, !.revision = @ + 1]

Judged(r, m, verdict) ==
    IF verdict = "approved"
    THEN [judged EXCEPT ![m] = @ \cup {page[r].shown.text}] ELSE judged

Decide(r, m, verdict) ==
    LET row == market[m] IN
    /\ Reviewable(r, m) /\ DraftEdit
    /\ row.state = "in_review"
    /\ market' = [market EXCEPT ![m] = Decided(@, verdict)]
    /\ judged' = Judged(r, m, verdict)
    /\ UNCHANGED <<created, receipt, page, deletedSlugs, blind, made>>

\* assess_human_record: the operator's record, its snapshot and the decision
\* in one transaction.
Assess(r, m, verdict) ==
    LET row == market[m] IN
    /\ Reviewable(r, m) /\ DraftEdit
    /\ market' = [market EXCEPT ![m] = Decided(Rewritten(@, @.content, "in_review"), verdict)]
    /\ judged' = Judged(r, m, verdict)
    /\ UNCHANGED <<created, receipt, page, deletedSlugs, blind, made>>

\* require_publication_approval
ApprovedNow(row) ==
    /\ row.state = "approved"
    /\ row.decided = row.revision - 1
    /\ row.snapshot = row.content

\* publish_market registers the definition and the schedule.
Publish(r, m, kind) ==
    LET row == market[m] IN
    /\ r # Agent
    /\ Targets(r, m, kind)
    /\ row.status = "draft" /\ ApprovedNow(row)
    /\ market' = [market EXCEPT ![m] =
         [row EXCEPT !.status = "open", !.definition = row.content.text,
                     !.registered = IF Versioned(row) THEN @ ELSE <<row.content.date>>]]
    /\ UNCHANGED <<created, receipt, page, deletedSlugs, judged, blind, made, draftEdits>>

Cancel(r, m, kind) ==
    /\ r # Agent
    /\ Targets(r, m, kind)
    /\ market[m].status \in {"draft", "open"}
    /\ market' = [market EXCEPT ![m].status = "canceled"]
    /\ UNCHANGED <<created, receipt, page, deletedSlugs, judged, blind, made, draftEdits>>

\* reschedule: the form must know the version, and the history is appended to.
Registered(row, date) == Append(row.registered, date)

Reschedule(r, m, date) ==
    LET row == market[m] IN
    /\ r # Agent
    /\ Targets(r, m, "identified")
    /\ page[r].version = Len(row.registered)
    /\ row.status = "open" /\ Len(row.registered) \in 1..(MaxSchedules - 1)
    /\ market' = [market EXCEPT ![m] =
         [row EXCEPT !.registered = Registered(row, date), !.content.date = date]]
    /\ UNCHANGED <<created, receipt, page, deletedSlugs, judged, blind, made, draftEdits>>

-----------------------------------------------------------------------------
(* Deletion.                                                               *)

\* Only what was never published or decided; the agent's receipts stay, and say
\* that their market is gone.
Deletable(r, m) ==
    /\ Current(r, m)
    /\ market[m].status = "draft" /\ market[m].state \in {"preparation", "in_review"}

AfterDeletion(m) == [k \in Keys |-> IF receipt[k] = m THEN Deleted ELSE receipt[k]]

DeleteMarket(r, m) ==
    /\ IF r = Agent
       THEN page[r] # NoPage /\ m \in Known /\ page[r].market = m /\ market[m].byAgent
       ELSE Targets(r, m, "identified")
    /\ Deletable(r, m)
    /\ market' = [market EXCEPT ![m] = NoMarket]
    /\ receipt' = AfterDeletion(m)
    /\ deletedSlugs' = deletedSlugs \cup {market[m].slug}
    /\ UNCHANGED <<created, page, judged, blind, made, draftEdits>>

-----------------------------------------------------------------------------
DraftNext ==
    \/ \E s \in Slugs, c \in FirstContent : HumanCreate(s, c)
    \/ \E k \in Keys, s \in Slugs, c \in FirstContent : AgentCreate(k, s, c)
    \/ \E r \in Readers, m \in MarketIds : OpenDraft(r, m) \/ DeleteMarket(r, m)
    \/ \E r \in Readers, m \in Known, kind \in FormKinds :
         \/ \E s \in Slugs, c \in Content : HumanEdit(r, m, kind, s, c)
         \/ Publish(r, m, kind)
         \/ Cancel(r, m, kind)
    \/ \E m \in Known : (\E c \in Content : AgentUpdate(m, c)) \/ AgentSubmit(m)
    \/ \E r \in Readers, m \in Known, verdict \in Verdicts : Decide(r, m, verdict) \/ Assess(r, m, verdict)
    \/ \E r \in Readers, m \in Known, date \in Dates : Reschedule(r, m, date)

-----------------------------------------------------------------------------
(* Properties.                                                             *)

\* Rows keep their types, and no two markets have one slug.
DraftTypeOK ==
    /\ created \in 0..MaxMarkets
    /\ market \in [MarketIds -> MarketRow \cup {NoMarket}]
    /\ receipt \in [Keys -> MarketIds \cup {NoReceipt, Deleted}]
    /\ page \in [Readers -> Page \cup {NoPage}]
    /\ \A m, n \in Known : market[m].slug = market[n].slug => m = n

\* The text signed as a market's definition is one a reviewer was shown and
\* approved, whoever edited before, between and after (decide,
\* assess_human_record, require_publication_approval).
PublishedAsApproved ==
    \A m \in Known : market[m].definition # NoText => market[m].definition \in judged[m]

\* An edit is made over what its author was shown, of the market he was shown,
\* unless his form does not say which market and the slug changed hands
\* without a deletion (human_edit_guard, validate_market_identity).
NoBlindSave == "identified" \notin blind

\* An approval that stands can be published: nothing rewrites an approved draft
\* without withdrawing the approval (human_edit_done, mutate).
ApprovalIsCurrent ==
    \A m \in Known :
      market[m].state = "approved" /\ market[m].status = "draft" => ApprovedNow(market[m])

\* One creation per key for good: a receipt names the market it made, or that
\* the market is gone, and a repeated request never makes it again
\* (mutate, delete_market).
OneMarketPerKey ==
    \A k \in Keys :
      /\ made[k] <= 1
      /\ receipt[k] \in MarketIds => market[receipt[k]] # NoMarket

\* The schedule shown is the last one of the signed history, and the first is
\* the one published, whatever stale forms bring (save_draft, reschedule).
ScheduleIsRegistered ==
    \A m \in Known :
      Versioned(market[m]) =>
        market[m].content.date = market[m].registered[Len(market[m].registered)]

\* The signed history of a schedule only grows.
ScheduleHistoryGrows ==
    [][\A m \in Known :
         /\ m \in Known'
         /\ Versioned(market[m])
         => SubSeq(market'[m].registered, 1, Len(market[m].registered)) = market[m].registered]_draftVars

\* What is published, saved, approved, created and scheduled is what its author
\* or reviewer saw.
DraftInvariant ==
    DraftTypeOK /\ PublishedAsApproved /\ NoBlindSave /\ ApprovalIsCurrent /\ OneMarketPerKey
      /\ ScheduleIsRegistered

=============================================================================
