-------------------------- MODULE PredictionTicket --------------------------
(***************************************************************************)
(* The prediction ticket of the app (prediction_ticket.dart): what a       *)
(* person selects, the preview the API computes for it, the confirmation   *)
(* sheet and what is submitted when it is confirmed.                       *)
(*                                                                         *)
(* The ticket is one thread, but a preview is asked for 300 ms after the   *)
(* last touch and answered later, the market is read again in the          *)
(* background and the position in it may have changed on another device,   *)
(* so answers meet a ticket that is no longer the one that asked.          *)
(***************************************************************************)
EXTENDS Integers, Sequences, SequencesExt

CONSTANTS
    Options,       \* options of the market
    Stakes,        \* credits the slider offers
    Wires,         \* previews that may be in flight
    Posts,         \* submissions that may be in flight
    NoOption,
    MaxRaises, MaxSwitches,   \* position_reinforcement_max_count, position_revision_max_count
    MaxTouches, MaxElsewhere, MaxSheets   \* bounds

ASSUME TicketAssumption ==
    NoOption \notin Options /\ Stakes \subseteq Nat \ {0} /\ MaxSheets \in Nat

VARIABLES
    server,        \* the viewer's position in the market, at the API
    seen,          \* widget.market: the market as last read
    refresh,       \* the reading of the market in flight
    ticket,        \* _PredictionTicketState
    wires,         \* previews in flight
    sheets,        \* confirmation sheets, the last one on top
    posts,         \* submissions in flight
    elsewhere      \* moves made on another device

ticketVars == <<server, seen, refresh, ticket, wires, sheets, posts, elsewhere>>

None == "none"
Deeds == {"reinforcement", "revision"}
NoPreview == [action |-> None, option |-> NoOption, stake |-> 0, allowed |-> FALSE]
NoWire == [kind |-> None, id |-> 0, action |-> None, option |-> NoOption, stake |-> 0]
NoPost == [step |-> None, action |-> None, option |-> NoOption, stake |-> 0]

-----------------------------------------------------------------------------
(* The API.                                                                *)

\* The window of revisions closes before the market does.
Phases == <<"open", "late", "closed", "settled">>
Accepting == server.phase \in {"open", "late"}

CanRaise == server.option # NoOption /\ Accepting /\ server.raises < MaxRaises
CanSwitch == server.option # NoOption /\ server.phase = "open" /\ server.switches < MaxSwitches

\* viewer_position of the market's detail.
ViewerPosition ==
    [option |-> server.option, open |-> Accepting, raise |-> CanRaise, switch |-> CanSwitch]

\* _validate_position_action and the checks of create_prediction.
Allowed(action, option) ==
    \/ action = "initial" /\ Accepting /\ server.option = NoOption
    \/ action = "reinforcement" /\ CanRaise /\ option = server.option
    \/ action = "revision" /\ CanSwitch /\ option # server.option

Moved(action, option) ==
    server' = [server EXCEPT !.option = option,
                             !.raises = @ + (IF action = "reinforcement" THEN 1 ELSE 0),
                             !.switches = @ + (IF action = "revision" THEN 1 ELSE 0)]

\* The same person acts on the website or on another device.
ActElsewhere(action, option) ==
    /\ elsewhere < MaxElsewhere /\ Allowed(action, option)
    /\ Moved(action, option)
    /\ elsewhere' = elsewhere + 1
    /\ UNCHANGED <<seen, refresh, ticket, wires, sheets, posts>>

\* Time passes; a settled market has no open position any more.
NextPhase ==
    /\ \E i \in 1..3 :
          /\ server.phase = Phases[i]
          /\ server' = [server EXCEPT !.phase = Phases[i + 1],
                                      !.option = IF i = 3 THEN NoOption ELSE @]
    /\ UNCHANGED <<seen, refresh, ticket, wires, sheets, posts, elsewhere>>

-----------------------------------------------------------------------------
(* What the ticket shows.                                                  *)

HasPosition == seen.option # NoOption

\* _selectedPositionOptionId, _positionStake and _isCurrentPositionActionAllowed.
Selected(t) == IF HasPosition /\ t.action = "reinforcement" THEN seen.option ELSE t.option
StakeOf(t) == IF HasPosition /\ t.action = "revision" THEN 0 ELSE t.stake
Offered(t) ==
    CASE ~HasPosition -> TRUE
      [] t.action = "reinforcement" -> seen.raise
      [] OTHER -> seen.switch

Matches(p, action, option, stake) == p.action = action /\ p.option = option /\ p.stake = stake
ValidPreview ==
    ticket.desk.allowed /\ Matches(ticket.desk, ticket.action, Selected(ticket), StakeOf(ticket))

\* _syncPositionDefaults: what a position offers first.
Defaults(t, view) ==
    IF view.option = NoOption THEN t
    ELSE LET first == IF ~view.raise /\ view.switch THEN "revision" ELSE "reinforcement" IN
         [t EXCEPT !.action = first, !.expanded = None,
                   !.option = IF first = "revision" THEN NoOption ELSE view.option]

BlankTicket(stake) ==
    [option |-> NoOption, stake |-> stake, action |-> "reinforcement", expanded |-> None,
     preview |-> NoPreview, desk |-> NoPreview, busy |-> FALSE, loading |-> FALSE,
     id |-> 0, timer |-> FALSE]

TicketInit ==
    /\ server \in [option : Options \cup {NoOption}, raises : {0}, switches : {0}, phase : {"open"}]
    /\ seen = ViewerPosition
    /\ refresh = <<>>
    /\ \E s \in Stakes : ticket = Defaults(BlankTicket(s), ViewerPosition)
    /\ wires = [w \in Wires |-> NoWire]
    /\ sheets = <<>>
    /\ posts = [p \in Posts |-> NoPost]
    /\ elsewhere = 0

-----------------------------------------------------------------------------
(* The market is read again.                                               *)

Ask == refresh' = <<"asked">>

ReadMarket ==
    /\ refresh = <<"asked">>
    /\ refresh' = <<"read", ViewerPosition>>
    /\ UNCHANGED <<server, seen, ticket, wires, sheets, posts, elsewhere>>

\* didUpdateWidget: a position that changed resets the ticket, but neither the
\* debounce nor the number of the preview; a position that is gone resets nothing.
Synced(view) ==
    IF /\ <<view.option, view.raise, view.switch>> # <<seen.option, seen.raise, seen.switch>>
       /\ view.option # NoOption
    THEN [Defaults(ticket, view) EXCEPT !.preview = NoPreview, !.desk = NoPreview, !.loading = FALSE]
    ELSE ticket

MarketShown ==
    /\ refresh # <<>> /\ refresh[1] = "read"
    /\ seen' = refresh[2] /\ ticket' = Synced(refresh[2])
    /\ sheets' = [i \in DOMAIN sheets |->
                    [sheets[i] EXCEPT !.overtaken = @ \/ refresh[2] # seen]]
    /\ refresh' = <<>>
    /\ UNCHANGED <<server, wires, posts, elsewhere>>

\* A like, a follow or a comment reads the market again (unchanged, it changes
\* nothing here).
ReadAgain ==
    /\ refresh = <<>> /\ sheets = <<>> /\ seen # ViewerPosition
    /\ Ask
    /\ UNCHANGED <<server, seen, ticket, wires, sheets, posts, elsewhere>>

\* The page is left and opened again: a new ticket over the market last read;
\* what was in flight finds its ticket gone.
Reopen ==
    /\ sheets = <<>> /\ ticket.id > 0
    /\ ticket' = Defaults([BlankTicket(ticket.stake) EXCEPT !.id = ticket.id], seen)
    /\ wires' = [w \in Wires |-> NoWire]
    /\ posts' = [p \in Posts |-> IF posts[p].step = "sent"
                                   THEN [posts[p] EXCEPT !.step = "left"] ELSE NoPost]
    /\ Ask
    /\ UNCHANGED <<server, seen, sheets, elsewhere>>

-----------------------------------------------------------------------------
(* The person touches the ticket; a sheet in front of it takes all touches. *)

\* _schedulePreview
Scheduled(t) ==
    LET wanted == /\ ~(HasPosition /\ t.expanded = None)
                  /\ Selected(t) # NoOption /\ Offered(t) IN
    [t EXCEPT !.id = @ + 1, !.timer = wanted, !.loading = wanted]

Touch(t) ==
    /\ sheets = <<>> /\ ticket.id < MaxTouches
    /\ ticket' = t
    /\ UNCHANGED <<server, seen, refresh, wires, sheets, posts, elsewhere>>

\* _selectInitialOption, _selectPositionOption
SelectOption(o) ==
    \/ /\ ~HasPosition /\ seen.open
       /\ Touch(Scheduled([ticket EXCEPT !.option = o, !.preview = NoPreview]))
    \/ /\ HasPosition /\ ticket.expanded = "revision" /\ seen.switch /\ o # seen.option
       /\ Touch(Scheduled([ticket EXCEPT !.option = o, !.desk = NoPreview]))

\* _setStake
SetStake(s) ==
    /\ IF HasPosition THEN ticket.expanded = "reinforcement" /\ seen.raise ELSE seen.open
    /\ Touch(Scheduled([ticket EXCEPT !.stake = s, !.preview = NoPreview, !.desk = NoPreview]))

\* _selectPositionAction: a panel opens and closes whether or not its action is
\* allowed.
SelectAction(a) ==
    /\ HasPosition
    /\ LET still == [ticket EXCEPT !.id = @ + 1, !.timer = FALSE, !.desk = NoPreview, !.loading = FALSE] IN
       Touch(IF ticket.expanded = a THEN [still EXCEPT !.expanded = None]
             ELSE [still EXCEPT !.expanded = a, !.action = a,
                                !.option = IF a = "reinforcement" THEN seen.option ELSE NoOption])

-----------------------------------------------------------------------------
(* Previews.                                                               *)

Sent(kind, action) ==
    \E w \in Wires :
        /\ wires[w] = NoWire
        /\ wires' = [wires EXCEPT ![w] =
             [kind |-> kind, id |-> ticket.id, action |-> action, option |-> Selected(ticket),
              stake |-> StakeOf(ticket)]]

FormAction == IF HasPosition THEN ticket.action ELSE "initial"

\* The debounce is over: _loadPreviewFromApi.
DebounceOver ==
    /\ ticket.timer
    /\ IF Selected(ticket) = NoOption
       THEN ticket' = [ticket EXCEPT !.timer = FALSE, !.loading = FALSE] /\ UNCHANGED wires
       ELSE ticket' = [ticket EXCEPT !.timer = FALSE] /\ Sent("panel", FormAction)
    /\ UNCHANGED <<server, seen, refresh, sheets, posts, elsewhere>>

\* What a sheet shows when it opens.
SheetOf(action, p) ==
    [action |-> action, option |-> Selected(ticket), stake |-> StakeOf(ticket), preview |-> p,
     overtaken |-> FALSE]
Open(sheet) == Len(sheets) < MaxSheets /\ sheets' = Append(sheets, sheet)

\* _handlePrediction and _handlePositionAction
Press ==
    /\ sheets = <<>> /\ ~ticket.busy /\ Selected(ticket) # NoOption
    /\ IF ~HasPosition
       THEN /\ seen.open /\ Sent("press", "initial")
            /\ ticket' = [ticket EXCEPT !.busy = TRUE] /\ UNCHANGED sheets
       ELSE /\ ticket.expanded = ticket.action /\ Offered(ticket)
            /\ IF ValidPreview THEN Open(SheetOf(ticket.action, ticket.desk)) /\ UNCHANGED wires
                               ELSE Sent("desk", ticket.action) /\ UNCHANGED sheets
            /\ UNCHANGED ticket
    /\ UNCHANGED <<server, seen, refresh, posts, elsewhere>>

\* _previewIsCurrent
PreviewIsCurrent_ByNumber(x) == x.id = ticket.id
PreviewIsCurrent(x) ==
    x.id = ticket.id /\ x.option = Selected(ticket) /\ x.stake = StakeOf(ticket)

\* A preview is computed, at whatever moment, and its answer arrives.
PreviewArrives(w, allowed) ==
    LET x == wires[w]
        p == [action |-> x.action, option |-> x.option, stake |-> x.stake, allowed |-> allowed] IN
    /\ x # NoWire /\ wires' = [wires EXCEPT ![w] = NoWire]
    /\ CASE x.kind = "press" ->
              /\ allowed
              /\ ticket' = [ticket EXCEPT !.preview = p, !.busy = FALSE]
              /\ Open([SheetOf("initial", p) EXCEPT !.option = ticket.option, !.stake = ticket.stake])
         [] x.kind # "press" /\ ~PreviewIsCurrent(x) -> UNCHANGED <<ticket, sheets>>
         [] x.kind # "press" /\ PreviewIsCurrent(x) /\ x.action = "initial" ->
              /\ allowed
              /\ ticket' = [ticket EXCEPT !.preview = p, !.loading = FALSE]
              /\ UNCHANGED sheets
         [] OTHER ->
              /\ ticket' = [ticket EXCEPT !.desk = p, !.loading = FALSE]
              /\ IF x.kind = "desk" /\ allowed THEN Open(SheetOf(ticket.action, p)) ELSE UNCHANGED sheets
    /\ UNCHANGED <<server, seen, refresh, posts, elsewhere>>

\* A preview refused or lost ends the ticket's waiting, a submission's included.
PreviewFails(w) ==
    LET x == wires[w] IN
    /\ x # NoWire /\ wires' = [wires EXCEPT ![w] = NoWire]
    /\ ticket' = CASE x.kind = "press" -> [ticket EXCEPT !.busy = FALSE]
                   [] x.kind # "press" /\ x.id = ticket.id ->
                        [ticket EXCEPT !.busy = FALSE, !.loading = FALSE]
                   [] OTHER -> ticket
    /\ UNCHANGED <<server, seen, refresh, sheets, posts, elsewhere>>

-----------------------------------------------------------------------------
(* Confirmation and submission.                                            *)

\* What confirming a sheet sends: the selection of now for a first prediction,
\* the option of the sheet and the action and stake of now for a position.
Submission(sheet) ==
    IF sheet.action = "initial"
    THEN [action |-> "initial", option |-> ticket.option, stake |-> ticket.stake]
    ELSE [action |-> ticket.action, option |-> sheet.option, stake |-> StakeOf(ticket)]

Confirm ==
    /\ sheets # <<>> /\ sheets' = Front(sheets)
    /\ LET send == Submission(Last(sheets)) IN
       IF send.option = NoOption THEN UNCHANGED <<ticket, posts>>
       ELSE /\ \E p \in Posts :
                 /\ posts[p] = NoPost
                 /\ posts' = [posts EXCEPT ![p] = [step |-> "sent", action |-> send.action,
                                                   option |-> send.option, stake |-> send.stake]]
            /\ ticket' = [ticket EXCEPT !.busy = TRUE]
    /\ UNCHANGED <<server, seen, refresh, wires, elsewhere>>

Dismiss ==
    /\ sheets # <<>> /\ sheets' = Front(sheets)
    /\ UNCHANGED <<server, seen, refresh, ticket, wires, posts, elsewhere>>

\* create_prediction, create_position_action
Accepted(p) ==
    /\ posts[p].step \in {"sent", "left"} /\ Allowed(posts[p].action, posts[p].option)
    /\ Moved(posts[p].action, posts[p].option)
    /\ posts' = [posts EXCEPT ![p] = IF @.step = "left" THEN NoPost ELSE [@ EXCEPT !.step = "accepted"]]
    /\ UNCHANGED <<seen, refresh, ticket, wires, sheets, elsewhere>>

\* The receipt: the market is read again.
Receipt(p) ==
    /\ posts[p].step = "accepted"
    /\ posts' = [posts EXCEPT ![p] = NoPost]
    /\ ticket' = [ticket EXCEPT !.busy = FALSE] /\ Ask
    /\ UNCHANGED <<server, seen, wires, sheets, elsewhere>>

\* The API refuses, the request never reached it, or its answer is lost.
SubmissionFails(p) ==
    /\ posts[p].step # None
    /\ posts' = [posts EXCEPT ![p] = NoPost]
    /\ ticket' = IF posts[p].step = "left" THEN ticket ELSE [ticket EXCEPT !.busy = FALSE]
    /\ UNCHANGED <<server, seen, refresh, wires, sheets, elsewhere>>

-----------------------------------------------------------------------------

TicketNext ==
    \/ \E a \in Deeds \cup {"initial"}, o \in Options : ActElsewhere(a, o)
    \/ NextPhase \/ ReadMarket \/ MarketShown \/ ReadAgain \/ Reopen
    \/ \E o \in Options : SelectOption(o)
    \/ \E s \in Stakes : SetStake(s)
    \/ \E a \in Deeds : SelectAction(a)
    \/ DebounceOver \/ Press
    \/ \E w \in Wires : PreviewFails(w) \/ \E b \in BOOLEAN : PreviewArrives(w, b)
    \/ Confirm \/ Dismiss
    \/ \E p \in Posts : Accepted(p) \/ Receipt(p) \/ SubmissionFails(p)

-----------------------------------------------------------------------------

TicketTypes ==
    /\ server.option \in Options \cup {NoOption} /\ seen.option \in Options \cup {NoOption}
    /\ ticket.option \in Options \cup {NoOption} /\ ticket.stake \in Stakes
    /\ ticket.expanded \in {None, ticket.action} /\ ticket.action \in Deeds
    /\ Len(sheets) <= MaxSheets

\* Confirming a sheet sends what it shows, unless the market was read again,
\* and had changed, under it.
SheetSendsWhatItShows ==
    \A i \in DOMAIN sheets :
        ~sheets[i].overtaken =>
            Submission(sheets[i]) = [action |-> sheets[i].action, option |-> sheets[i].option,
                                     stake |-> sheets[i].stake]

\* The cost and the return on a position's sheet are of the action, the option
\* and the credit it is about.  (A first prediction's may be of an earlier
\* selection: its chips and its slider stay alive while its preview is asked.)
FiguresOfTheSheet ==
    \A i \in DOMAIN sheets :
        sheets[i].action # "initial" =>
            Matches(sheets[i].preview, sheets[i].action, sheets[i].option, sheets[i].stake)

\* A preview that stays on the panel of a position is of what is selected there,
\* whatever the order in which answers and readings of the market arrive.
PanelOfTheSelection ==
    HasPosition /\ ticket.desk # NoPreview =>
        Matches(ticket.desk, ticket.action, Selected(ticket), StakeOf(ticket))

\* A ticket that says it is loading a preview has one coming.
LoadingEnds ==
    ticket.loading /\ seen.open =>
        ticket.timer \/ \E w \in Wires : wires[w] # NoWire /\ PreviewIsCurrent(wires[w])

\* A ticket whose button is off waits for an answer.
ButtonComesBack ==
    ticket.busy => \/ \E w \in Wires : wires[w].kind = "press"
                   \/ \E p \in Posts : posts[p].step \in {"sent", "accepted"}

TicketInvariant ==
    /\ TicketTypes /\ SheetSendsWhatItShows /\ FiguresOfTheSheet /\ PanelOfTheSelection
    /\ LoadingEnds /\ ButtonComesBack

TicketSpec == TicketInit /\ [][TicketNext]_ticketVars

=============================================================================
