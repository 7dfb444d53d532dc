--------------------------- MODULE ClientsProofs ----------------------------
(***************************************************************************)
(* What the console's forms, the browser's session and the app's ticket    *)
(* are checked for on a few requests, for any number of them.  They share  *)
(* no variable, so each has an inductive invariant of its own.             *)
(***************************************************************************)
EXTENDS MCClients, SequenceTheorems, TLAPS

-----------------------------------------------------------------------------
(* The console's forms.                                                    *)

FormRow ==
    [kind : Kinds, web : {"closed", "open", "waiting", "following", "shown"},
     api : {"idle", "sent", "saved", "refused"}, picture : Pictures \cup {NoPicture},
     upload : Pictures \cup {NoPicture}, then : BOOLEAN, said : Sayings]

FormsTyped ==
    /\ image \in [Kinds -> Pictures \cup {NoPicture}]
    /\ disk \subseteq Pictures /\ generated \subseteq Pictures /\ saved \subseteq Forms
    /\ form \in [Forms -> FormRow]

\* Where a form and its call can be together.
Stage(x, done) ==
    /\ x.web = "open" => x.api = "idle" /\ ~done
    /\ x.web = "waiting" => x.api \in {"sent", "saved", "refused"} /\ (x.api = "saved" <=> done)
    /\ x.web = "following" => done
    /\ x.web \in {"closed", "shown"} => x.api \in {"idle", "sent"}
    /\ x.web # "shown" => x.said = "nothing"
    /\ x.said = "not saved" => ~done /\ x.api = "idle"
    /\ x.said \in {"saved", "saved unconfirmed", "saved, then failed"} => done

\* A file that was stored for a save which is not committed.
HeldUpload(x, done) ==
    /\ ~done /\ x.upload # NoPicture
    /\ x.api = "sent" \/ (x.web = "waiting" /\ x.api = "refused")

Kept(p) == p \in disk \cup generated \cup {NoPicture}

UploadsApart ==
    \A f \in Forms : HeldUpload(form[f], f \in saved) =>
        /\ form[f].upload \in disk /\ form[f].upload \notin generated
        /\ \A k \in Kinds : image[k] # form[f].upload
        /\ \A g \in Forms : form[g].picture # form[f].upload
        /\ \A g \in Forms : g # f /\ HeldUpload(form[g], g \in saved) => form[g].upload # form[f].upload

FormsInv ==
    /\ FormsTyped
    /\ \A f \in Forms : Stage(form[f], f \in saved)
    /\ UploadsApart
    /\ \A k \in Kinds : Kept(image[k])
    /\ \A f \in Forms : Kept(form[f].picture)
    /\ RowsShowStoredPictures

-----------------------------------------------------------------------------
(* The browser's session.                                                  *)

WebRow ==
    [token : Tokens \cup {NoWebToken}, user : Visitors \cup {NoVisitor},
     challenge : Visitors \cup {NoVisitor}, social : BOOLEAN, pending : Visitors \cup {NoVisitor}]

VisitRow ==
    [op : Ops \cup {"none"}, row : Rows \cup {NoRow}, copy : WebRow, who : Visitors \cup {NoVisitor},
     api : {"idle", "calling", "answered", "challenge", "profile", "unauthorized", "failed"},
     issued : Tokens \cup {NoWebToken}, stale : BOOLEAN]

WebTyped ==
    /\ owner \in [Tokens -> Visitors \cup {NoVisitor}]
    /\ living \subseteq Tokens
    /\ row \in [Rows -> WebRow]
    /\ cookie \in Rows \cup {NoRow}
    /\ visit \in [Visits -> VisitRow]
    /\ overlap \in BOOLEAN

\* The user shown owns the token.
Owns(c) ==
    /\ c.token = NoWebToken <=> c.user = NoVisitor
    /\ c.token # NoWebToken => owner[c.token] = c.user

SignInOps == {"login", "verify", "social", "email"}

\* What a request can have been answered.
Answer(x) ==
    /\ x.op = "none" => x = NoVisit
    /\ x.op \in SignInOps => x.who \in Visitors /\ x.api # "unauthorized"
    /\ x.op \in SignInOps /\ x.api = "answered" => x.issued \in Tokens /\ owner[x.issued] = x.who
    /\ x.op \notin SignInOps \/ x.api # "answered" => x.issued = NoWebToken
    /\ x.op = "verify" => x.api \notin {"challenge", "profile"}
    /\ x.op \in {"login", "email"} => x.api # "profile"
    /\ x.op = "login" => ~Authenticated(x.copy)
    /\ x.op \in {"account", "consent", "delete"} => Authenticated(x.copy)
    /\ x.op \notin SignInOps => x.api \notin {"challenge", "profile"}
    /\ x.op \notin {"account", "consent"} => x.api # "unauthorized"
    /\ x.row = NoRow => x.copy = BlankRow

\* What became of the token a request was about to end.
Ending(x) ==
    /\ x.op \in {"logout", "delete"} /\ x.api = "answered" => x.copy.token \notin living
    /\ x.op \in {"logout", "delete"} /\ x.api = "failed" => x.copy.token \in left \cup {NoWebToken}
    /\ x.api = "unauthorized" => x.copy.token \notin living

\* A token just issued is nowhere but in the request that asked for it.
Fresh(v) ==
    LET t == visit[v].issued IN
    t # NoWebToken =>
        /\ \A r \in Rows : row[r].token # t
        /\ \A w \in Visits : visit[w].copy.token # t
        /\ \A w \in Visits : w # v => visit[w].issued # t
        /\ t \in living \cup ended \cup left

\* Requests that no save overtook work on the browser's row as it is.
Current(x) ==
    /\ cookie # NoRow /\ x.op # "none" /\ x.row = NoRow => x.stale
    /\ cookie = NoRow => x.row = NoRow
    /\ ~overlap /\ x.op # "none" /\ x.row # NoRow => x.row = cookie
    /\ ~overlap /\ x.op # "none" /\ x.row # NoRow /\ ~x.stale => row[x.row] = x.copy

WebInv ==
    /\ WebTyped
    /\ \A r \in Rows : Owns(row[r])
    /\ \A v \in Visits : Owns(visit[v].copy)
    /\ \A v \in Visits : Answer(visit[v])
    /\ \A v \in Visits : Ending(visit[v])
    /\ \A v \in Visits : Fresh(v)
    /\ \A v \in Visits : Current(visit[v])
    /\ LivingSessionsAreKept /\ ShownSessionLives

-----------------------------------------------------------------------------
(* The ticket.                                                             *)

ViewRow == [option : Options \cup {NoOption}, open : BOOLEAN, raise : BOOLEAN, switch : BOOLEAN]
AnyAction == Deeds \cup {"initial", None}
PreviewRow == [action : AnyAction, option : Options \cup {NoOption}, stake : Nat, allowed : BOOLEAN]
TicketRow ==
    [option : Options \cup {NoOption}, stake : Stakes, action : Deeds, expanded : Deeds \cup {None},
     preview : PreviewRow, desk : PreviewRow, busy : BOOLEAN, loading : BOOLEAN, id : Nat,
     timer : BOOLEAN]
WireRow ==
    [kind : {None, "press", "desk", "panel"}, id : Nat, action : AnyAction,
     option : Options \cup {NoOption}, stake : Nat]
SheetRow ==
    [action : Deeds \cup {"initial"}, option : Options \cup {NoOption}, stake : Nat,
     preview : PreviewRow, overtaken : BOOLEAN]
PostRow ==
    [step : {None, "sent", "accepted", "left"}, action : Deeds \cup {"initial", None},
     option : Options \cup {NoOption}, stake : Nat]
PlaceRow ==
    [option : Options \cup {NoOption}, raises : Nat, switches : Nat,
     phase : {"open", "late", "closed", "settled"}]

TicketTyped ==
    /\ server \in PlaceRow
    /\ seen \in ViewRow
    /\ refresh = <<>> \/ refresh = <<"asked">> \/ \E view \in ViewRow : refresh = <<"read", view>>
    /\ ticket \in TicketRow
    /\ wires \in [Wires -> WireRow]
    /\ sheets \in Seq(SheetRow)
    /\ posts \in [Posts -> PostRow]
    /\ ticket.expanded \in {None, ticket.action}
    /\ Len(sheets) <= MaxSheets

\* What a preview in flight can be about.
WireSound(x) ==
    x # NoWire =>
        /\ x.kind # None /\ x.id <= ticket.id /\ x.option # NoOption
        /\ x.kind = "press" => x.action = "initial"
        /\ x.kind = "desk" => x.action \in Deeds
        /\ x.kind = "panel" => x.action \in Deeds \cup {"initial"}
        /\ x.action \in Deeds => (x.action = "revision" <=> x.stake = 0)
        /\ x.action = "reinforcement" /\ x.id = ticket.id /\ ticket.action = "revision" =>
             ticket.option = NoOption

\* A reading of the market is never ahead of the API, nor a market opened again.
ViewSound(view) ==
    /\ view.option # NoOption => server.option # NoOption \/ server.phase = "settled"
    /\ ~view.open => ~Accepting
ReadingSound(view) ==
    /\ ViewSound(view)
    /\ ~seen.open => ~view.open
    /\ seen.option # NoOption /\ view.option = NoOption => ~view.open

PanelComing ==
    ticket.loading /\ seen.open =>
        ticket.timer \/ \E w \in Wires : wires[w].kind = "panel" /\ PreviewIsCurrent(wires[w])

TicketInv ==
    /\ TicketTyped
    /\ \A w \in Wires : WireSound(wires[w])
    /\ ViewSound(seen)
    /\ \A view \in ViewRow : refresh = <<"read", view>> => ReadingSound(view)
    /\ \A p \in Posts : posts[p].step \in {"sent", "left"} => posts[p].option # NoOption
    /\ PanelComing
    /\ SheetSendsWhatItShows /\ FiguresOfTheSheet /\ PanelOfTheSelection /\ ButtonComesBack

-----------------------------------------------------------------------------
(* The console's forms.                                                    *)

LEMMA FormsStart == FormsInit => FormsInv
<1> SUFFICES ASSUME FormsInit PROVE FormsInv
  OBVIOUS
<1>1. ClosedForm \in FormRow
  BY DEF ClosedForm, FormRow, Kinds, Sayings
<1>2. FormsTyped
  BY <1>1 DEF FormsInit, FormsTyped
<1>3. \A f \in Forms : Stage(form[f], f \in saved)
  BY DEF FormsInit, Stage, ClosedForm
<1>4. UploadsApart
  BY DEF FormsInit, UploadsApart, HeldUpload, ClosedForm
<1>5. \A k \in Kinds : Kept(image[k])
  BY DEF FormsInit, Kept
<1>6. \A f \in Forms : Kept(form[f].picture)
  BY DEF FormsInit, Kept, ClosedForm
<1>7. RowsShowStoredPictures
  BY DEF FormsInit, RowsShowStoredPictures
<1> QED BY <1>2, <1>3, <1>4, <1>5, <1>6, <1>7 DEF FormsInv

LEMMA FormsInvImplies == FormsInv => FormInvariant
BY DEF FormsInv, FormInvariant, FormTypes, FormsTyped, FormRow, ToldWhatHappened, Stage

\* A step of one form that stores no file and changes no row: the form still
\* holds the picture it had or takes a row's, and holds no other upload.
LEMMA FormMoves ==
  ASSUME FormsInv, NEW f \in Forms, NEW y \in FormRow,
         form' = [form EXCEPT ![f] = y], image' = image, disk' = disk, generated' = generated,
         stale' = stale, saved' \subseteq Forms, \A g \in Forms : g # f => (g \in saved' <=> g \in saved),
         Stage(y, f \in saved'),
         y.picture = form[f].picture \/ \E k \in Kinds : y.picture = image[k],
         HeldUpload(y, f \in saved') => HeldUpload(form[f], f \in saved) /\ y.upload = form[f].upload
  PROVE  FormsInv'
<1>1. form \in [Forms -> FormRow] /\ form' \in [Forms -> FormRow]
  BY DEF FormsInv, FormsTyped
<1>2. form'[f] = y /\ \A g \in Forms : g # f => form'[g] = form[g]
  BY <1>1
<1>3. FormsTyped'
  BY <1>1 DEF FormsInv, FormsTyped
<1>4. \A g \in Forms : Stage(form'[g], g \in saved')
  <2> TAKE g \in Forms
  <2>1. CASE g = f
    BY <1>2, <2>1
  <2>2. CASE g # f
    <3>1. Stage(form[g], g \in saved) /\ form'[g] = form[g] /\ (g \in saved' <=> g \in saved)
      BY <1>2, <2>2 DEF FormsInv
    <3> QED BY <3>1 DEF Stage
  <2> QED BY <2>1, <2>2
<1>5. \A g \in Forms : HeldUpload(form'[g], g \in saved') =>
        HeldUpload(form[g], g \in saved) /\ form'[g].upload = form[g].upload
  BY <1>2 DEF HeldUpload
<1>6. \A g \in Forms : form'[g].picture = form[g].picture \/ \E k \in Kinds : form'[g].picture = image[k]
  BY <1>2
<1>7. \A g, h \in Forms : HeldUpload(form'[g], g \in saved') => form'[h].picture # form'[g].upload
  BY <1>5, <1>6 DEF FormsInv, UploadsApart
<1>8. \A g, h \in Forms : h # g /\ HeldUpload(form'[g], g \in saved') /\ HeldUpload(form'[h], h \in saved') =>
        form'[h].upload # form'[g].upload
  BY <1>5 DEF FormsInv, UploadsApart
<1>9. UploadsApart'
  BY <1>5, <1>7, <1>8 DEF FormsInv, UploadsApart
<1>10. (\A k \in Kinds : Kept(image[k]))'
  BY DEF FormsInv, Kept
<1>11. (\A g \in Forms : Kept(form[g].picture))'
  BY <1>6 DEF FormsInv, Kept
<1>12. RowsShowStoredPictures'
  BY DEF FormsInv, RowsShowStoredPictures
<1> QED BY <1>3, <1>4, <1>9, <1>10, <1>11, <1>12 DEF FormsInv

LEMMA FormOpens ==
  ASSUME FormsInv, NEW f \in Forms, NEW k \in Kinds, OpenForm(f, k)
  PROVE  FormsInv'
<1> DEFINE y == [ClosedForm EXCEPT !.kind = k, !.web = "open", !.picture = image[k]]
<1>1. image[k] \in Pictures \cup {NoPicture}
  BY DEF FormsInv, FormsTyped
<1>2. y \in FormRow
  BY <1>1 DEF ClosedForm, FormRow, Sayings
<1>3. y.web = "open" /\ y.api = "idle" /\ y.said = "nothing" /\ y.picture = image[k]
  BY DEF ClosedForm
<1>4. form' = [form EXCEPT ![f] = y]
  BY DEF OpenForm
<1> HIDE DEF y
<1>5. Stage(y, f \in saved')
  BY <1>3 DEF Stage, OpenForm
<1>6. ~HeldUpload(y, f \in saved')
  BY <1>3 DEF HeldUpload
<1> QED BY <1>2, <1>3, <1>4, <1>5, <1>6, FormMoves DEF OpenForm, FormsInv, FormsTyped

\* The website's answer to the operator, and a call that ends without a write.
LEMMA FormEnds ==
  ASSUME FormsInv, NEW f \in Forms,
         \/ \E then \in BOOLEAN : PostForm(f, then)
         \/ \E o \in Outcomes3 : FollowUpEnds(f, o)
         \/ \E o \in Outcomes3 : SaveEnds(f, o) /\ ~ConfirmedRejection(f, o)
         \/ CloseForm(f) \/ RefuseSave(f) \/ FollowUp(f)
  PROVE  FormsInv'
<1>1. form \in [Forms -> FormRow] /\ form[f] \in FormRow /\ Stage(form[f], f \in saved)
  BY DEF FormsInv, FormsTyped
<1>2. ASSUME NEW then \in BOOLEAN, PostForm(f, then) PROVE FormsInv'
  <2> DEFINE y == [form[f] EXCEPT !.web = "waiting", !.api = "sent", !.upload = NoPicture, !.then = then]
  <2>1. form' = [form EXCEPT ![f] = y] /\ form[f].web = "open"
    BY <1>1, <1>2 DEF PostForm, Posted
  <2>2. y \in FormRow /\ y.web = "waiting" /\ y.api = "sent" /\ y.upload = NoPicture
        /\ y.picture = form[f].picture /\ y.said = form[f].said
    BY <1>1 DEF FormRow
  <2> HIDE DEF y
  <2>3. Stage(y, f \in saved')
    BY <1>1, <1>2, <2>1, <2>2 DEF Stage, PostForm
  <2>4. ~HeldUpload(y, f \in saved')
    BY <2>2 DEF HeldUpload
  <2> QED BY <1>2, <2>1, <2>2, <2>3, <2>4, FormMoves DEF PostForm, FormsInv, FormsTyped
<1>3. ASSUME NEW o \in Outcomes3, FollowUpEnds(f, o) PROVE FormsInv'
  <2> DEFINE y == [form[f] EXCEPT !.web = "shown", !.api = IF @ = "sent" THEN "sent" ELSE "idle",
                     !.said = IF o = "answered" /\ form[f].api = "saved" THEN "saved" ELSE "saved, then failed"]
  <2>1. form' = [form EXCEPT ![f] = y] /\ form[f].web = "following"
    BY <1>1, <1>3 DEF FollowUpEnds
  <2>2. /\ y \in FormRow /\ y.web = "shown" /\ y.api \in {"sent", "idle"} /\ y.upload = form[f].upload
        /\ y.picture = form[f].picture /\ y.said \in {"saved", "saved, then failed"}
    BY <1>1 DEF FormRow, Sayings
  <2> HIDE DEF y
  <2>3. Stage(y, f \in saved') /\ f \in saved'
    BY <1>1, <1>3, <2>1, <2>2 DEF Stage, FollowUpEnds
  <2>4. ~HeldUpload(y, f \in saved')
    BY <2>3 DEF HeldUpload
  <2> QED BY <1>3, <2>1, <2>2, <2>3, <2>4, FormMoves DEF FollowUpEnds, FormsInv, FormsTyped
<1>4. ASSUME CloseForm(f) PROVE FormsInv'
  <2> DEFINE y == [form[f] EXCEPT !.web = "closed", !.said = "nothing",
                                  !.api = IF @ = "sent" THEN "sent" ELSE "idle"]
  <2>1. form' = [form EXCEPT ![f] = y]
    BY <1>1, <1>4 DEF CloseForm
  <2>2. /\ y \in FormRow /\ y.web = "closed" /\ y.api \in {"sent", "idle"} /\ y.upload = form[f].upload
        /\ y.picture = form[f].picture /\ y.said = "nothing" /\ (y.api = "sent" => form[f].api = "sent")
    BY <1>1 DEF FormRow, Sayings
  <2> HIDE DEF y
  <2>3. Stage(y, f \in saved')
    BY <2>2 DEF Stage
  <2>4. HeldUpload(y, f \in saved') => HeldUpload(form[f], f \in saved) /\ y.upload = form[f].upload
    BY <1>4, <2>2 DEF HeldUpload, CloseForm
  <2> QED BY <1>4, <2>1, <2>2, <2>3, <2>4, FormMoves DEF CloseForm, FormsInv, FormsTyped
<1>5. ASSUME NEW answer \in {"saved", "refused"}, ApiAnswers(f, answer), form[f].api = "sent",
             saved' = saved, answer = "saved" => f \in saved,
             UNCHANGED <<image, disk, generated, stale>>
      PROVE  FormsInv'
  <2> DEFINE y == [form[f] EXCEPT !.api = IF form[f].web \in {"waiting", "following"} THEN answer ELSE "idle"]
  <2>1. form' = [form EXCEPT ![f] = y]
    BY <1>1, <1>5 DEF ApiAnswers
  <2>2. /\ y \in FormRow /\ y.web = form[f].web /\ y.upload = form[f].upload
        /\ y.picture = form[f].picture /\ y.said = form[f].said
        /\ y.api = IF form[f].web \in {"waiting", "following"} THEN answer ELSE "idle"
    BY <1>1, <1>5 DEF FormRow
  <2> HIDE DEF y
  <2>3. Stage(y, f \in saved')
    BY <1>1, <1>5, <2>2 DEF Stage
  <2>4. HeldUpload(y, f \in saved') => HeldUpload(form[f], f \in saved) /\ y.upload = form[f].upload
    BY <1>5, <2>2 DEF HeldUpload
  <2> QED BY <1>5, <2>1, <2>2, <2>3, <2>4, FormMoves DEF FormsInv, FormsTyped
<1>6. ASSUME RefuseSave(f) PROVE FormsInv'
  BY <1>5, <1>6 DEF RefuseSave, Saving
<1>7. ASSUME FollowUp(f) PROVE FormsInv'
  BY <1>5, <1>7 DEF FollowUp
<1>8. ASSUME NEW o \in Outcomes3, SaveEnds(f, o), ~ConfirmedRejection(f, o) PROVE FormsInv'
  <2>1. /\ disk' = disk /\ UNCHANGED <<image, canceled, generated, renders, saved, stale>>
        /\ form[f].web = "waiting" /\ form[f].api \in {"sent", "saved", "refused"}
    BY <1>8 DEF SaveEnds
  <2>2. PICK y \in FormRow :
          /\ form' = [form EXCEPT ![f] = y]
          /\ y.upload = form[f].upload /\ y.picture = form[f].picture
          /\ \/ y.web = "shown" /\ y.api = "idle" /\ y.said = "saved" /\ form[f].api = "saved"
             \/ y.web = "following" /\ y.api = "sent" /\ y.said = form[f].said /\ form[f].api = "saved"
             \/ /\ y.web = "shown" /\ y.api = (IF form[f].api = "sent" THEN "sent" ELSE "idle")
                /\ y.said \in {"unknown", "try again"}
             \/ /\ y.web = "shown" /\ y.api = (IF form[f].api = "sent" THEN "sent" ELSE "idle")
                /\ y.said = "saved unconfirmed" /\ form[f].upload # NoPicture
                /\ image[form[f].kind] = form[f].upload
    <3> DEFINE after(said) == [form[f] EXCEPT !.web = "shown",
                                 !.api = IF form[f].api = "sent" THEN "sent" ELSE "idle", !.said = said]
               shown == [form[f] EXCEPT !.web = "shown", !.api = "idle", !.said = "saved"]
               next == [form[f] EXCEPT !.web = "following", !.api = "sent"]
    <3>1. \/ form' = [form EXCEPT ![f] = shown] /\ form[f].api = "saved"
          \/ form' = [form EXCEPT ![f] = next] /\ form[f].api = "saved"
          \/ \E said \in {"unknown", "try again"} : form' = [form EXCEPT ![f] = after(said)]
          \/ /\ form' = [form EXCEPT ![f] = after("saved unconfirmed")]
             /\ form[f].upload # NoPicture /\ image[form[f].kind] = form[f].upload
      BY <1>1, <1>8 DEF SaveEnds, FormRow, Kinds
    <3>2. /\ shown \in FormRow /\ shown.web = "shown" /\ shown.api = "idle" /\ shown.said = "saved"
          /\ shown.upload = form[f].upload /\ shown.picture = form[f].picture
      BY <1>1 DEF FormRow, Sayings
    <3>3. /\ next \in FormRow /\ next.web = "following" /\ next.api = "sent" /\ next.said = form[f].said
          /\ next.upload = form[f].upload /\ next.picture = form[f].picture
      BY <1>1 DEF FormRow, Sayings
    <3>4. \A said \in Sayings :
            /\ after(said) \in FormRow /\ after(said).web = "shown" /\ after(said).said = said
            /\ after(said).api = (IF form[f].api = "sent" THEN "sent" ELSE "idle")
            /\ after(said).upload = form[f].upload /\ after(said).picture = form[f].picture
      BY <1>1 DEF FormRow
    <3>5. {"unknown", "try again", "saved unconfirmed"} \subseteq Sayings
      BY DEF Sayings
    <3> HIDE DEF after, shown, next
    <3> QED BY <3>1, <3>2, <3>3, <3>4, <3>5
  <2>3. HeldUpload(y, f \in saved') => HeldUpload(form[f], f \in saved) /\ y.upload = form[f].upload
    BY <1>1, <2>1, <2>2 DEF HeldUpload, Stage
  <2>4. y.said = "saved unconfirmed" /\ form[f].api # "saved" => f \in saved
    <3> SUFFICES ASSUME y.said = "saved unconfirmed", f \notin saved PROVE FALSE
      BY <1>1, <2>1 DEF Stage
    <3>1. form[f].upload # NoPicture /\ image[form[f].kind] = form[f].upload /\ form[f].kind \in Kinds
      BY <1>1, <2>1, <2>2 DEF Stage, FormRow
    <3>2. HeldUpload(form[f], f \in saved)
      BY <1>1, <2>1, <3>1 DEF HeldUpload, Stage
    <3> QED BY <3>1, <3>2 DEF FormsInv, UploadsApart
  <2>5. Stage(y, f \in saved')
    BY <1>1, <2>1, <2>2, <2>4 DEF Stage
  <2> QED BY <2>1, <2>2, <2>3, <2>5, FormMoves DEF FormsInv, FormsTyped
<1> QED BY <1>2, <1>3, <1>4, <1>6, <1>7, <1>8

\* A stored file is nobody's yet.
LEMMA UploadStored ==
  ASSUME FormsInv, NEW f \in Forms, NEW p \in Pictures, NEW then \in BOOLEAN, PostUpload(f, p, then)
  PROVE  FormsInv'
<1> DEFINE y == [form[f] EXCEPT !.web = "waiting", !.api = "sent", !.upload = p, !.then = then]
<1>1. form \in [Forms -> FormRow] /\ form[f] \in FormRow /\ Stage(form[f], f \in saved)
  BY DEF FormsInv, FormsTyped
<1>2. /\ form' = [form EXCEPT ![f] = y] /\ form[f].web = "open"
      /\ disk' = disk \cup {p} /\ generated' = generated \ {p}
      /\ image' = image /\ saved' = saved /\ stale' = stale
  BY <1>1 DEF PostUpload, Posted
<1>3. /\ y \in FormRow /\ y.web = "waiting" /\ y.api = "sent" /\ y.upload = p
      /\ y.picture = form[f].picture /\ y.said = form[f].said
  BY <1>1 DEF FormRow
<1> HIDE DEF y
<1>4. /\ p \notin disk /\ p # NoPicture /\ \A k \in Kinds : image[k] # p
      /\ \A g \in Forms : form[g].picture # p
  BY PictureAssumption DEF PostUpload, Unused, PictureAssumption
<1>5. form' \in [Forms -> FormRow] /\ form'[f] = y /\ \A g \in Forms : g # f => form'[g] = form[g]
  BY <1>1, <1>2, <1>3
<1>6. FormsTyped'
  BY <1>2, <1>5 DEF FormsInv, FormsTyped
<1>7. f \notin saved /\ Stage(y, f \in saved')
  BY <1>1, <1>2, <1>3 DEF Stage
<1>8. \A g \in Forms : Stage(form'[g], g \in saved')
  BY <1>2, <1>5, <1>7 DEF FormsInv
<1>9. \A g \in Forms : form'[g].picture = form[g].picture
  BY <1>3, <1>5
<1>10. \A g \in Forms : g # f /\ HeldUpload(form'[g], g \in saved') =>
         HeldUpload(form[g], g \in saved) /\ form'[g].upload = form[g].upload /\ form[g].upload # p
  BY <1>2, <1>4, <1>5 DEF FormsInv, UploadsApart, HeldUpload
<1>11. ASSUME NEW g \in Forms, HeldUpload(form'[g], g \in saved')
       PROVE  /\ form'[g].upload \in disk' /\ form'[g].upload \notin generated'
              /\ \A k \in Kinds : image'[k] # form'[g].upload
              /\ \A h \in Forms : form'[h].picture # form'[g].upload
              /\ \A h \in Forms : h # g /\ HeldUpload(form'[h], h \in saved') => form'[h].upload # form'[g].upload
  <2>1. CASE g = f
    <3>1. form'[g].upload = p
      BY <1>3, <1>5, <2>1
    <3> QED BY <1>2, <1>4, <1>9, <1>10, <2>1, <3>1
  <2>2. CASE g # f
    <3>1. HeldUpload(form[g], g \in saved) /\ form'[g].upload = form[g].upload /\ form[g].upload # p
      BY <1>10, <1>11, <2>2
    <3>2. ASSUME NEW h \in Forms, h # g, HeldUpload(form'[h], h \in saved')
          PROVE  form'[h].upload # form'[g].upload
      <4>1. CASE h = f
        BY <1>3, <1>5, <3>1, <4>1
      <4>2. CASE h # f
        BY <1>10, <3>1, <3>2, <4>2 DEF FormsInv, UploadsApart
      <4> QED BY <4>1, <4>2
    <3>3. /\ form[g].upload \in disk /\ form[g].upload \notin generated
          /\ \A k \in Kinds : image[k] # form[g].upload
          /\ \A h \in Forms : form[h].picture # form[g].upload
      BY <3>1 DEF FormsInv, UploadsApart
    <3> QED BY <1>2, <1>9, <3>1, <3>2, <3>3
  <2> QED BY <2>1, <2>2
<1>12. UploadsApart'
  BY <1>11 DEF UploadsApart
<1>13. (\A k \in Kinds : Kept(image[k]))'
  BY <1>2, <1>4 DEF FormsInv, Kept
<1>14. (\A g \in Forms : Kept(form[g].picture))'
  BY <1>2, <1>4, <1>9 DEF FormsInv, Kept
<1>15. RowsShowStoredPictures'
  BY <1>2 DEF FormsInv, RowsShowStoredPictures
<1> QED BY <1>6, <1>8, <1>12, <1>13, <1>14, <1>15 DEF FormsInv

\* A rejection takes back a file that no row, form or other save has.
LEMMA SaveRejected ==
  ASSUME FormsInv, NEW f \in Forms, NEW o \in Outcomes3, SaveEnds(f, o), ConfirmedRejection(f, o)
  PROVE  FormsInv'
<1> DEFINE y == [form[f] EXCEPT !.web = "shown", !.said = "not saved",
                                !.api = IF form[f].api = "sent" THEN "sent" ELSE "idle"]
           u == form[f].upload
<1>1. form \in [Forms -> FormRow] /\ form[f] \in FormRow /\ Stage(form[f], f \in saved)
  BY DEF FormsInv, FormsTyped
<1>2. /\ form' = [form EXCEPT ![f] = y] /\ disk' = disk \ {u} /\ image' = image /\ generated' = generated
      /\ saved' = saved /\ stale' = stale /\ form[f].web = "waiting" /\ form[f].api = "refused"
  BY <1>1 DEF SaveEnds, ConfirmedRejection
<1>3. /\ y \in FormRow /\ y.web = "shown" /\ y.api = "idle" /\ y.upload = u
      /\ y.picture = form[f].picture /\ y.said = "not saved"
  BY <1>1, <1>2 DEF FormRow, Sayings
<1> HIDE DEF y
<1>4. f \notin saved /\ Stage(y, f \in saved') /\ ~HeldUpload(y, f \in saved')
  BY <1>1, <1>2, <1>3 DEF Stage, HeldUpload
<1>5. u # NoPicture =>
        /\ \A k \in Kinds : image[k] # u
        /\ \A g \in Forms : form[g].picture # u
        /\ \A g \in Forms : g # f /\ HeldUpload(form[g], g \in saved) => form[g].upload # u
        /\ u \in disk
  <2>1. u # NoPicture => HeldUpload(form[f], f \in saved)
    BY <1>2, <1>4 DEF HeldUpload
  <2> QED BY <2>1 DEF FormsInv, UploadsApart
<1>6. u = NoPicture => disk' = disk
  BY <1>2, PictureAssumption DEF FormsInv, FormsTyped, PictureAssumption
<1>7. form' \in [Forms -> FormRow] /\ form'[f] = y /\ \A g \in Forms : g # f => form'[g] = form[g]
  BY <1>1, <1>2, <1>3
<1>8. FormsTyped'
  BY <1>2, <1>7 DEF FormsInv, FormsTyped
<1>9. \A g \in Forms : Stage(form'[g], g \in saved')
  BY <1>2, <1>4, <1>7 DEF FormsInv
<1>10. \A g \in Forms : form'[g].picture = form[g].picture
  BY <1>3, <1>7
<1>11. \A g \in Forms : HeldUpload(form'[g], g \in saved') =>
         g # f /\ HeldUpload(form[g], g \in saved) /\ form'[g].upload = form[g].upload
  BY <1>2, <1>4, <1>7 DEF HeldUpload
<1>12. \A g \in Forms : HeldUpload(form'[g], g \in saved') => form[g].upload \in disk'
  <2> SUFFICES ASSUME NEW g \in Forms, HeldUpload(form'[g], g \in saved') PROVE form[g].upload \in disk'
    OBVIOUS
  <2>1. form[g].upload \in disk /\ g # f /\ HeldUpload(form[g], g \in saved)
    BY <1>11 DEF FormsInv, UploadsApart
  <2> QED BY <1>2, <1>5, <1>6, <2>1
<1>13. UploadsApart'
  <2> SUFFICES ASSUME NEW g \in Forms, HeldUpload(form'[g], g \in saved')
               PROVE  /\ form'[g].upload \in disk' /\ form'[g].upload \notin generated'
                      /\ \A k \in Kinds : image'[k] # form'[g].upload
                      /\ \A h \in Forms : form'[h].picture # form'[g].upload
                      /\ \A h \in Forms : h # g /\ HeldUpload(form'[h], h \in saved') =>
                           form'[h].upload # form'[g].upload
    BY DEF UploadsApart
  <2>1. HeldUpload(form[g], g \in saved) /\ form'[g].upload = form[g].upload
    BY <1>11
  <2> QED BY <1>2, <1>10, <1>11, <1>12, <2>1 DEF FormsInv, UploadsApart
<1>14. \A p : Kept(p) /\ p # u => p \in disk' \cup generated' \cup {NoPicture}
  BY <1>2 DEF Kept
<1>15. (\A k \in Kinds : Kept(image[k]))'
  BY <1>2, <1>5, <1>6, <1>14 DEF FormsInv, Kept
<1>16. (\A g \in Forms : Kept(form[g].picture))'
  BY <1>2, <1>5, <1>6, <1>10, <1>14 DEF FormsInv, Kept
<1>17. RowsShowStoredPictures'
  BY <1>2, <1>5, <1>6 DEF FormsInv, RowsShowStoredPictures
<1> QED BY <1>8, <1>9, <1>13, <1>15, <1>16, <1>17 DEF FormsInv

\* A committed save shows its upload or the picture of its form, which may have
\* been pruned if it was the badge's.
LEMMA SaveCommitted ==
  ASSUME FormsInv, NEW f \in Forms, CommitSave(f)
  PROVE  FormsInv'
<1> DEFINE y == [form[f] EXCEPT !.api = IF form[f].web \in {"waiting", "following"} THEN "saved" ELSE "idle"]
           kind == form[f].kind
           want == Wanted(f)
<1>1. /\ form \in [Forms -> FormRow] /\ form[f] \in FormRow /\ Stage(form[f], f \in saved)
      /\ image \in [Kinds -> Pictures \cup {NoPicture}]
  BY DEF FormsInv, FormsTyped
<1>2. /\ form' = [form EXCEPT ![f] = y] /\ disk' = disk /\ generated' = generated
      /\ image' = [image EXCEPT ![kind] = want] /\ saved' = saved \cup {f}
      /\ stale' = (CASE kind = "market" -> stale [] OTHER -> want \in generated \ disk)
      /\ form[f].api = "sent" /\ form[f].web # "following" /\ f \notin saved
  BY <1>1 DEF CommitSave, ApiAnswers, Saving
<1>3. /\ y \in FormRow /\ y.web = form[f].web /\ y.upload = form[f].upload
      /\ y.picture = form[f].picture /\ y.said = form[f].said
      /\ y.api = IF form[f].web = "waiting" THEN "saved" ELSE "idle"
  BY <1>1, <1>2 DEF FormRow
<1> HIDE DEF y
<1>4. want \in Pictures \cup {NoPicture} /\ kind \in Kinds
  BY <1>1 DEF Wanted, FormRow
<1>5. form[f].upload # NoPicture => HeldUpload(form[f], f \in saved)
  BY <1>2 DEF HeldUpload
<1>6. Kept(want)
  BY <1>5 DEF Wanted, Kept, FormsInv, UploadsApart
<1>7. \A g \in Forms : g # f /\ HeldUpload(form[g], g \in saved) => form[g].upload # want
  BY <1>5 DEF Wanted, FormsInv, UploadsApart
<1>8. kind = "market" => want \in disk \cup {NoPicture}
  <2>1. kind = "market" /\ want \in generated => want = image["market"]
    BY DEF CommitSave, Acceptable
  <2>2. image["market"] \in disk \cup {NoPicture}
    BY DEF FormsInv, RowsShowStoredPictures, Kinds
  <2> QED BY <1>6, <2>1, <2>2 DEF Kept
<1>9. form' \in [Forms -> FormRow] /\ form'[f] = y /\ \A g \in Forms : g # f => form'[g] = form[g]
  BY <1>1, <1>2, <1>3
<1>10. image' \in [Kinds -> Pictures \cup {NoPicture}] /\ image'[kind] = want
       /\ \A k \in Kinds : k # kind => image'[k] = image[k]
  BY <1>1, <1>2, <1>4
<1>11. FormsTyped'
  BY <1>2, <1>9, <1>10 DEF FormsInv, FormsTyped
<1>12. Stage(y, TRUE)
  BY <1>1, <1>2, <1>3 DEF Stage
<1>13. \A g \in Forms : Stage(form'[g], g \in saved')
  BY <1>2, <1>9, <1>12 DEF FormsInv, Stage
<1>14. \A g \in Forms : form'[g].picture = form[g].picture
  BY <1>3, <1>9
<1>15. \A g \in Forms : HeldUpload(form'[g], g \in saved') =>
         g # f /\ HeldUpload(form[g], g \in saved) /\ form'[g].upload = form[g].upload
  BY <1>2, <1>9 DEF HeldUpload
<1>16. UploadsApart'
  <2> SUFFICES ASSUME NEW g \in Forms, HeldUpload(form'[g], g \in saved')
               PROVE  /\ form'[g].upload \in disk' /\ form'[g].upload \notin generated'
                      /\ \A k \in Kinds : image'[k] # form'[g].upload
                      /\ \A h \in Forms : form'[h].picture # form'[g].upload
                      /\ \A h \in Forms : h # g /\ HeldUpload(form'[h], h \in saved') =>
                           form'[h].upload # form'[g].upload
    BY DEF UploadsApart
  <2>1. g # f /\ HeldUpload(form[g], g \in saved) /\ form'[g].upload = form[g].upload
    BY <1>15
  <2>2. \A k \in Kinds : image'[k] # form[g].upload
    BY <1>7, <1>10, <2>1 DEF FormsInv, UploadsApart
  <2> QED BY <1>2, <1>14, <1>15, <2>1, <2>2 DEF FormsInv, UploadsApart
<1>17. (\A k \in Kinds : Kept(image[k]))'
  BY <1>2, <1>6, <1>10 DEF FormsInv, Kept
<1>18. (\A g \in Forms : Kept(form[g].picture))'
  BY <1>2, <1>14 DEF FormsInv, Kept
<1>19. RowsShowStoredPictures'
  <2> SUFFICES ASSUME NEW k \in Kinds
               PROVE  image'[k] \in disk' \cup {NoPicture} \/ (k = "badge" /\ stale')
    BY DEF RowsShowStoredPictures
  <2>1. CASE k = kind /\ k = "market"
    BY <1>2, <1>8, <1>10, <2>1
  <2>2. CASE k = kind /\ k # "market"
    BY <1>2, <1>6, <1>10, <2>2 DEF Kept, Kinds
  <2>3. CASE k # kind
    <3>1. image[k] \in disk \cup {NoPicture} \/ (k = "badge" /\ stale)
      BY DEF FormsInv, RowsShowStoredPictures
    <3> QED BY <1>2, <1>4, <1>10, <2>3, <3>1 DEF Kinds
  <2> QED BY <2>1, <2>2, <2>3
<1> QED BY <1>11, <1>13, <1>16, <1>17, <1>18, <1>19 DEF FormsInv

\* The worker's own files come and go without touching an upload.
LEMMA PicturesRendered ==
  ASSUME FormsInv, NEW k \in Kinds, NEW p \in Pictures, Render(k, p)
  PROVE  FormsInv'
<1>1. /\ p \notin disk /\ p # NoPicture /\ \A j \in Kinds : image[j] # p
      /\ \A g \in Forms : form[g].picture # p
  BY PictureAssumption DEF Render, Unused, PictureAssumption
<1>2. /\ form' = form /\ saved' = saved /\ disk' = disk \cup {p} /\ generated' = generated \cup {p}
      /\ image' = [image EXCEPT ![k] = p] /\ stale' = (IF k = "badge" THEN FALSE ELSE stale)
      /\ image \in [Kinds -> Pictures \cup {NoPicture}]
  BY DEF Render, FormsInv, FormsTyped
<1>3. FormsTyped'
  BY <1>2 DEF FormsInv, FormsTyped
<1>4. UploadsApart'
  BY <1>1, <1>2 DEF FormsInv, UploadsApart
<1>5. (\A j \in Kinds : Kept(image[j]))' /\ (\A g \in Forms : Kept(form[g].picture))'
  BY <1>2 DEF FormsInv, Kept
<1>6. RowsShowStoredPictures'
  BY <1>2 DEF FormsInv, RowsShowStoredPictures, Kinds
<1>7. (\A g \in Forms : Stage(form[g], g \in saved))'
  BY <1>2 DEF FormsInv
<1> QED BY <1>3, <1>4, <1>5, <1>6, <1>7 DEF FormsInv

LEMMA PicturesPruned == ASSUME FormsInv, Prune PROVE FormsInv'
<1>1. /\ form' = form /\ saved' = saved /\ generated' = generated /\ image' = image /\ stale' = stale
      /\ disk' = disk \ (generated \ {image[j] : j \in Kinds})
  BY DEF Prune
<1>2. FormsTyped'
  BY <1>1 DEF FormsInv, FormsTyped
<1>3. UploadsApart'
  BY <1>1 DEF FormsInv, UploadsApart
<1>4. (\A j \in Kinds : Kept(image[j]))' /\ (\A g \in Forms : Kept(form[g].picture))'
  BY <1>1 DEF FormsInv, Kept
<1>5. RowsShowStoredPictures'
  BY <1>1 DEF FormsInv, RowsShowStoredPictures
<1>6. (\A g \in Forms : Stage(form[g], g \in saved))'
  BY <1>1 DEF FormsInv
<1> QED BY <1>2, <1>3, <1>4, <1>5, <1>6 DEF FormsInv

LEMMA FormsStep == ASSUME FormsInv, [FormsNext]_formVars PROVE FormsInv'
<1>1. ASSUME NEW f \in Forms, NEW k \in Kinds, OpenForm(f, k) PROVE FormsInv'
  BY <1>1, FormOpens
<1>2. ASSUME NEW f \in Forms, NEW then \in BOOLEAN, PostForm(f, then) PROVE FormsInv'
  BY <1>2, FormEnds
<1>3. ASSUME NEW f \in Forms, NEW then \in BOOLEAN, NEW p \in Pictures, PostUpload(f, p, then) PROVE FormsInv'
  BY <1>3, UploadStored
<1>4. ASSUME NEW f \in Forms, NEW o \in Outcomes3, SaveEnds(f, o) PROVE FormsInv'
  BY <1>4, FormEnds, SaveRejected
<1>5. ASSUME NEW f \in Forms, NEW o \in Outcomes3, FollowUpEnds(f, o) PROVE FormsInv'
  BY <1>5, FormEnds
<1>6. ASSUME NEW f \in Forms, CloseForm(f) \/ RefuseSave(f) \/ FollowUp(f) PROVE FormsInv'
  BY <1>6, FormEnds
<1>7. ASSUME NEW f \in Forms, CommitSave(f) PROVE FormsInv'
  BY <1>7, SaveCommitted
<1>8. CASE UNCHANGED formVars
  BY <1>8 DEF formVars, FormsInv, FormsTyped, UploadsApart, Kept, RowsShowStoredPictures
<1> QED BY <1>1, <1>2, <1>3, <1>4, <1>5, <1>6, <1>7, <1>8, PicturesRendered, PicturesPruned DEF FormsNext

LEMMA FormsPart == Next => [FormsNext]_formVars
BY DEF Next, TicketSteps, WebSteps, FormSteps

LEMMA FormsAlways == Spec => []FormsInv
<1>1. Init => FormsInv
  BY FormsStart DEF Init
<1>2. FormsInv /\ [Next]_allVars => FormsInv'
  BY FormsStep, FormsPart DEF allVars, formVars
<1> QED BY <1>1, <1>2, PTL DEF Spec

-----------------------------------------------------------------------------
(* The browser's session.                                                  *)

LEMMA BlankFacts ==
  /\ BlankRow \in WebRow /\ BlankRow.token = NoWebToken /\ Owns(BlankRow)
  /\ NoVisit \in VisitRow /\ NoVisit.op = "none" /\ NoVisit.copy = BlankRow /\ NoVisit.row = NoRow
  /\ NoVisit.issued = NoWebToken /\ NoVisit.api = "idle" /\ ~NoVisit.stale /\ NoVisit.who = NoVisitor
BY DEF BlankRow, WebRow, NoVisit, VisitRow, Owns

LEMMA IdleVisitIsSound == Answer(NoVisit) /\ Ending(NoVisit) /\ Current(NoVisit) /\ Ending(NoVisit)' /\ Current(NoVisit)'
BY BlankFacts DEF Answer, Ending, Current, SignInOps

LEMMA WebConstants ==
  /\ NoWebToken \notin Tokens /\ NoVisitor \notin Visitors /\ NoRow \notin Rows
BY VisitorAssumption DEF VisitorAssumption

LEMMA WebStart == WebInit => WebInv
<1> SUFFICES ASSUME WebInit PROVE WebInv
  OBVIOUS
<1>1. WebTyped
  BY BlankFacts DEF WebInit, WebTyped
<1>2. \A r \in Rows : row[r] = BlankRow
  BY DEF WebInit
<1>3. \A v \in Visits : visit[v] = NoVisit
  BY DEF WebInit
<1>4. \A v \in Visits : Fresh(v)
  BY <1>3, BlankFacts DEF Fresh
<1>5. LivingSessionsAreKept /\ ShownSessionLives
  BY DEF WebInit, LivingSessionsAreKept, ShownSessionLives
<1> QED BY <1>1, <1>2, <1>3, <1>4, <1>5, BlankFacts, IdleVisitIsSound DEF WebInv

LEMMA WebInvImplies == WebInv => WebInvariant
<1> SUFFICES ASSUME WebInv PROVE WebInvariant
  OBVIOUS
<1>1. WebTypes
  BY DEF WebInv, WebTyped, WebTypes, WebRow
<1>2. ShownUserOwnsToken
  BY DEF WebInv, ShownUserOwnsToken, Owns
<1> QED BY <1>1, <1>2 DEF WebInv, WebInvariant

\* A step of one request that saves no row.  A token may stop living, when it
\* was ended or given up or its own request ends it.
LEMMA VisitMoves ==
  ASSUME WebInv, NEW v \in Visits, NEW y \in VisitRow,
         visit' = [visit EXCEPT ![v] = y],
         row' = row, cookie' = cookie, overlap' = overlap, owner' = owner,
         living' \subseteq living, left \subseteq left', ended \subseteq ended',
         \A t \in living : \/ t \in living' \cup ended' \cup left'
                           \/ /\ t = visit[v].copy.token
                              /\ y.op \in {"logout", "delete"} /\ y.copy = visit[v].copy,
         Owns(y.copy), Answer(y), Ending(y)', Current(y),
         y.issued \in {visit[v].issued, NoWebToken},
         visit[v].issued \in {y.issued, NoWebToken} \cup left',
         y.copy.token = NoWebToken \/ y.copy = visit[v].copy \/ \E r \in Rows : y.copy = row[r],
         visit[v].op \in {"logout", "delete"} =>
           \/ y.op \in {"logout", "delete"} /\ y.copy = visit[v].copy
           \/ visit[v].copy.token \in left' \cup ended' \cup {NoWebToken}
  PROVE  WebInv'
<1>1. visit \in [Visits -> VisitRow] /\ visit' \in [Visits -> VisitRow]
      /\ visit'[v] = y /\ \A w \in Visits : w # v => visit'[w] = visit[w]
  BY DEF WebInv, WebTyped
<1>2. WebTyped'
  BY <1>1 DEF WebInv, WebTyped
<1>3. (\A r \in Rows : Owns(row[r]))'
  BY DEF WebInv, Owns
<1>4. (\A w \in Visits : Owns(visit[w].copy))'
  BY <1>1 DEF WebInv, Owns
<1>5. (\A w \in Visits : Answer(visit[w]))'
  <2> SUFFICES ASSUME NEW w \in Visits PROVE Answer(visit[w])'
    OBVIOUS
  <2>1. Answer(visit'[w])
    BY <1>1 DEF WebInv
  <2> QED BY <2>1 DEF Answer
<1>6. (\A w \in Visits : Ending(visit[w]))'
  <2> SUFFICES ASSUME NEW w \in Visits PROVE Ending(visit[w])'
    OBVIOUS
  <2>1. CASE w = v
    BY <1>1, <2>1 DEF Ending
  <2>2. CASE w # v
    <3>1. Ending(visit[w]) /\ visit'[w] = visit[w]
      BY <1>1, <2>2 DEF WebInv
    <3> QED BY <3>1 DEF Ending
  <2> QED BY <2>1, <2>2
<1>7. (\A w \in Visits : Current(visit[w]))'
  <2> SUFFICES ASSUME NEW w \in Visits PROVE Current(visit[w])'
    OBVIOUS
  <2>1. Current(visit'[w])
    BY <1>1 DEF WebInv
  <2> QED BY <2>1 DEF Current
<1>8. \A w \in Visits : visit'[w].issued # NoWebToken => visit'[w].issued = visit[w].issued
  BY <1>1
<1>9. \A w \in Visits : \/ visit'[w].copy.token = NoWebToken \/ visit'[w].copy.token = visit[w].copy.token
                        \/ \E r \in Rows : visit'[w].copy.token = row[r].token
  BY <1>1
<1>10. (\A w \in Visits : Fresh(w))'
  <2> SUFFICES ASSUME NEW w \in Visits, visit'[w].issued # NoWebToken
               PROVE  /\ \A r \in Rows : row'[r].token # visit'[w].issued
                      /\ \A u \in Visits : visit'[u].copy.token # visit'[w].issued
                      /\ \A u \in Visits : u # w => visit'[u].issued # visit'[w].issued
                      /\ visit'[w].issued \in living' \cup ended' \cup left'
    BY DEF Fresh
  <2> DEFINE t == visit[w].issued
  <2>1. visit'[w].issued = t /\ t # NoWebToken
    BY <1>8
  <2>2. /\ \A r \in Rows : row[r].token # t
        /\ \A u \in Visits : visit[u].copy.token # t
        /\ \A u \in Visits : u # w => visit[u].issued # t
        /\ t \in living \cup ended \cup left
    BY <2>1 DEF WebInv, Fresh
  <2> HIDE DEF t
  <2>3. \A u \in Visits : visit'[u].copy.token # t
    BY <1>9, <2>1, <2>2
  <2>4. \A u \in Visits : u # w => visit'[u].issued # t
    BY <1>8, <2>1, <2>2
  <2>5. t \in living' \cup ended' \cup left'
    BY <2>2
  <2> QED BY <2>1, <2>2, <2>3, <2>4, <2>5
<1>11. LivingSessionsAreKept'
  <2> SUFFICES ASSUME ~overlap, NEW t \in living' PROVE t \in InHand' \cup left'
    BY DEF LivingSessionsAreKept
  <2>1. t \in InHand \cup left
    BY DEF WebInv, LivingSessionsAreKept
  <2>2. CASE t \in left
    BY <2>2
  <2>3. CASE \E r \in Rows : t = row[r].token
    BY <2>3 DEF InHand
  <2>4. CASE \E w \in Visits : t = visit[w].issued
    <3>1. PICK w \in Visits : t = visit[w].issued
      BY <2>4
    <3>2. t # NoWebToken
      BY WebConstants DEF WebInv, WebTyped
    <3>3. t = visit'[w].issued \/ t \in left'
      BY <1>1, <3>1, <3>2
    <3> QED BY <3>3 DEF InHand
  <2> QED BY <2>1, <2>2, <2>3, <2>4 DEF InHand
<1>12. ShownSessionLives'
  <2> SUFFICES ASSUME ~overlap, cookie # NoRow, row[cookie].token # NoWebToken
               PROVE  \/ row[cookie].token \in living' \cup ended' \cup left'
                      \/ \E w \in Visits : visit'[w].op \in {"logout", "delete"}
                                             /\ visit'[w].copy.token = row[cookie].token
    BY DEF ShownSessionLives
  <2> DEFINE t == row[cookie].token
  <2>1. \/ t \in living \cup ended \cup left
        \/ \E w \in Visits : visit[w].op \in {"logout", "delete"} /\ visit[w].copy.token = t
    BY DEF WebInv, ShownSessionLives
  <2> HIDE DEF t
  <2>2. CASE t \in living \cup ended \cup left
    BY <1>1, <2>2 DEF t
  <2>3. ASSUME NEW w \in Visits, visit[w].op \in {"logout", "delete"}, visit[w].copy.token = t
        PROVE  \/ t \in left' \cup ended'
               \/ \E u \in Visits : visit'[u].op \in {"logout", "delete"} /\ visit'[u].copy.token = t
    BY <1>1, <2>3 DEF t
  <2> QED BY <2>1, <2>2, <2>3 DEF t
<1> QED BY <1>2, <1>3, <1>4, <1>5, <1>6, <1>7, <1>10, <1>11, <1>12 DEF WebInv

LEMMA VisitTyped ==
  ASSUME WebInv, NEW v \in Visits
  PROVE  /\ visit[v] \in VisitRow /\ visit[v].copy \in WebRow
         /\ Owns(visit[v].copy) /\ Answer(visit[v]) /\ Ending(visit[v]) /\ Fresh(v) /\ Current(visit[v])
         /\ visit \in [Visits -> VisitRow] /\ row \in [Rows -> WebRow]
BY DEF WebInv, WebTyped, VisitRow

LEMMA VisitBegins ==
  ASSUME WebInv, NEW v \in Visits, NEW op \in Ops, NEW who \in Visitors \cup {NoVisitor},
         who # NoVisitor \/ op \in {"social start", "logout", "capture"}, BeginVisit(v, op, who)
  PROVE  WebInv'
<1> DEFINE c == IF cookie = NoRow THEN BlankRow ELSE row[cookie]
<1>1. c \in WebRow /\ Owns(c) /\ (c = BlankRow \/ \E r \in Rows : c = row[r])
      /\ (cookie = NoRow => c = BlankRow) /\ (cookie # NoRow => c = row[cookie])
  BY BlankFacts DEF WebInv, WebTyped
<1>2. /\ visit[v].op = "none" /\ Admitted(op, c, who)
      /\ visit' = [visit EXCEPT ![v] =
            [NoVisit EXCEPT !.op = op, !.row = cookie, !.copy = c, !.who = who,
                            !.api = IF NeedsNoCall(op, c) THEN "answered" ELSE "calling"]]
      /\ UNCHANGED <<owner, living, row, cookie, left, ended, overlap>>
  BY DEF BeginVisit
<1> HIDE DEF c
<1>3. PICK y : y = [NoVisit EXCEPT !.op = op, !.row = cookie, !.copy = c, !.who = who,
                            !.api = IF NeedsNoCall(op, c) THEN "answered" ELSE "calling"]
  OBVIOUS
<1>4. /\ y.op = op /\ y.row = cookie /\ y.copy = c /\ y.who = who /\ y.issued = NoWebToken /\ ~y.stale
      /\ y.api = IF NeedsNoCall(op, c) THEN "answered" ELSE "calling"
  BY <1>3 DEF NoVisit
<1>5. y \in VisitRow
  BY <1>1, <1>3 DEF NoVisit, VisitRow, WebInv, WebTyped
<1>6. visit' = [visit EXCEPT ![v] = y]
  BY <1>2, <1>3
<1>7. visit[v] = NoVisit
  BY <1>2, VisitTyped DEF Answer
<1>8. NeedsNoCall(op, c) => op \notin SignInOps \cup {"account", "consent", "delete"}
                            /\ (op = "logout" => c.token = NoWebToken)
  BY DEF NeedsNoCall, SignInOps
<1>9. op \in SignInOps => who \in Visitors
  BY DEF SignInOps
<1>10. (op = "login" => ~Authenticated(c)) /\ (op \in {"account", "consent", "delete"} => Authenticated(c))
  BY <1>2 DEF Admitted, MaySignIn
<1>11. Answer(y)
  <2>1. y.api \in {"answered", "calling"} /\ y.op # "none" /\ (y.op \in SignInOps => y.api = "calling")
    BY <1>4, <1>8 DEF Ops
  <2> QED BY <1>1, <1>4, <1>9, <1>10, <2>1 DEF Answer
<1>12. Ending(y)'
  BY <1>2, <1>4, <1>8, WebConstants DEF Ending, WebInv, WebTyped
<1>13. Current(y)
  BY <1>1, <1>4, WebConstants DEF Current, WebInv, WebTyped
<1>14. visit[v].issued = NoWebToken /\ visit[v].op = "none"
  BY <1>7, BlankFacts
<1> QED BY <1>1, <1>2, <1>4, <1>5, <1>6, <1>11, <1>12, <1>13, <1>14, BlankFacts, VisitMoves

\* A request whose call went on but opened and ended nothing.
LEMMA VisitGoesOn ==
  ASSUME WebInv, NEW v \in Visits, ApiGoesOn(v) \/ ApiAnswersOwner(v)
  PROVE  WebInv'
<1>1. PICK step \in {"answered", "challenge", "profile", "unauthorized"} :
        /\ visit[v].api = "calling" /\ Became(v, step)
        /\ UNCHANGED <<owner, living, row, cookie, left, ended, overlap>>
        /\ \/ visit[v].op \in {"social start", "enroll"} /\ step = "answered"
           \/ visit[v].op \in {"login", "social", "email"} /\ step = "challenge"
           \/ visit[v].op = "social" /\ step = "profile"
           \/ visit[v].op \in {"account", "consent"} /\ step = "unauthorized"
                /\ visit[v].copy.token \notin living
           \/ visit[v].op \in {"account", "consent"} /\ step = "answered"
  BY DEF ApiGoesOn, ApiAnswersOwner, Unauthorized
<1>2. PICK y : y = [visit[v] EXCEPT !.api = step]
  OBVIOUS
<1>3. visit' = [visit EXCEPT ![v] = y]
  BY <1>1, <1>2, VisitTyped DEF Became
<1>4. /\ y \in VisitRow /\ y.op = visit[v].op /\ y.row = visit[v].row /\ y.copy = visit[v].copy
      /\ y.who = visit[v].who /\ y.issued = visit[v].issued /\ y.stale = visit[v].stale /\ y.api = step
  BY <1>2, VisitTyped DEF VisitRow
<1>5. Answer(y)
  BY <1>1, <1>4, VisitTyped DEF Answer, SignInOps
<1>6. Ending(y)'
  BY <1>1, <1>4 DEF Ending
<1>7. Current(y)
  BY <1>4, VisitTyped DEF Current
<1>8. Owns(y.copy)
  BY <1>4, VisitTyped
<1> QED BY <1>1, <1>3, <1>4, <1>5, <1>6, <1>7, <1>8, VisitMoves

LEMMA SessionEnds ==
  ASSUME WebInv, NEW v \in Visits, ApiEnds(v)
  PROVE  WebInv'
<1> DEFINE t == visit[v].copy.token
<1>1. /\ visit[v].api = "calling" /\ visit[v].op \in {"logout", "delete"}
      /\ living' \subseteq living \ {t}
      /\ ended' = ended \cup ((living \ living') \ {t})
      /\ Became(v, "answered")
      /\ UNCHANGED <<owner, row, cookie, left, overlap>>
  BY DEF ApiEnds
<1> HIDE DEF t
<1>2. PICK y : y = [visit[v] EXCEPT !.api = "answered"]
  OBVIOUS
<1>3. visit' = [visit EXCEPT ![v] = y]
  BY <1>1, <1>2, VisitTyped DEF Became
<1>4. /\ y \in VisitRow /\ y.op = visit[v].op /\ y.row = visit[v].row /\ y.copy = visit[v].copy
      /\ y.who = visit[v].who /\ y.issued = visit[v].issued /\ y.stale = visit[v].stale /\ y.api = "answered"
  BY <1>2, VisitTyped DEF VisitRow
<1>5. Answer(y)
  BY <1>1, <1>4, VisitTyped DEF Answer, SignInOps
<1>6. Ending(y)'
  BY <1>1, <1>4 DEF Ending, t
<1>7. Current(y)
  BY <1>4, VisitTyped DEF Current
<1>8. Owns(y.copy)
  BY <1>4, VisitTyped
<1>9. \A s \in living : \/ s \in living' \cup ended' \cup left'
                        \/ /\ s = visit[v].copy.token
                           /\ y.op \in {"logout", "delete"} /\ y.copy = visit[v].copy
  BY <1>1, <1>4 DEF t
<1> QED BY <1>1, <1>3, <1>4, <1>5, <1>6, <1>7, <1>8, <1>9, VisitMoves

LEMMA VisitFails ==
  ASSUME WebInv, NEW v \in Visits, CallFails(v)
  PROVE  WebInv'
<1>1. /\ visit[v].api \notin {"idle", "failed"} /\ visit[v].op # "capture"
      /\ visit' = [visit EXCEPT ![v].api = "failed", ![v].issued = NoWebToken]
      /\ left' = left \cup ({visit[v].issued} \ {NoWebToken})
                      \cup (IF visit[v].op \in {"logout", "delete"} THEN {visit[v].copy.token} \ {NoWebToken} ELSE {})
      /\ UNCHANGED <<owner, living, row, cookie, ended, overlap>>
  BY DEF CallFails
<1>2. PICK y : y = [visit[v] EXCEPT !.api = "failed", !.issued = NoWebToken]
  OBVIOUS
<1>3. visit' = [visit EXCEPT ![v] = y]
  BY <1>1, <1>2, VisitTyped
<1>4. /\ y \in VisitRow /\ y.op = visit[v].op /\ y.row = visit[v].row /\ y.copy = visit[v].copy
      /\ y.who = visit[v].who /\ y.issued = NoWebToken /\ y.stale = visit[v].stale /\ y.api = "failed"
  BY <1>2, VisitTyped DEF VisitRow
<1>5. visit[v].op # "none"
  BY <1>1, VisitTyped, BlankFacts DEF Answer
<1>6. Answer(y)
  BY <1>1, <1>4, <1>5, VisitTyped DEF Answer, SignInOps
<1>7. Ending(y)'
  BY <1>1, <1>4 DEF Ending
<1>8. Current(y)
  BY <1>4, VisitTyped DEF Current
<1>9. Owns(y.copy)
  BY <1>4, VisitTyped
<1>10. left \subseteq left' /\ visit[v].issued \in {NoWebToken} \cup left'
  BY <1>1
<1> QED BY <1>1, <1>3, <1>4, <1>6, <1>7, <1>8, <1>9, <1>10, VisitMoves

\* A request that ends without a save, by a crash or because it changed nothing.
LEMMA VisitVanishes ==
  ASSUME WebInv, NEW v \in Visits, visit' = [visit EXCEPT ![v] = NoVisit],
         UNCHANGED <<owner, living, row, cookie, overlap>>, left \subseteq left', ended \subseteq ended',
         visit[v].issued \in {NoWebToken} \cup left',
         visit[v].op \in {"logout", "delete"} => visit[v].copy.token \in {NoWebToken} \cup left' \cup ended'
  PROVE  WebInv'
<1>1. PICK y \in VisitRow : y = NoVisit
  BY BlankFacts
<1>2. Owns(y.copy) /\ Answer(y) /\ Ending(y)' /\ Current(y) /\ y.issued = NoWebToken /\ y.copy.token = NoWebToken
  BY <1>1, BlankFacts, IdleVisitIsSound
<1> QED BY <1>1, <1>2, VisitMoves

LEMMA VisitDies ==
  ASSUME WebInv, NEW v \in Visits, VisitCrashes(v)
  PROVE  WebInv'
BY VisitVanishes DEF VisitCrashes

LEMMA SessionEndsElsewhere ==
  ASSUME WebInv, NEW t \in Tokens, EndedElsewhere(t)
  PROVE  WebInv'
<1>1. /\ living' = living \ {t} /\ ended' = ended \cup {t}
      /\ UNCHANGED <<owner, row, cookie, visit, left, overlap>>
  BY DEF EndedElsewhere
<1>2. WebTyped'
  BY <1>1 DEF WebInv, WebTyped
<1>3. (\A r \in Rows : Owns(row[r]))' /\ (\A v \in Visits : Owns(visit[v].copy))'
  BY <1>1 DEF WebInv, Owns
<1>4. (\A v \in Visits : Answer(visit[v]))'
  BY <1>1 DEF WebInv, Answer
<1>5. (\A v \in Visits : Ending(visit[v]))'
  BY <1>1 DEF WebInv, Ending
<1>6. (\A v \in Visits : Fresh(v))'
  BY <1>1 DEF WebInv, Fresh
<1>7. (\A v \in Visits : Current(visit[v]))'
  BY <1>1 DEF WebInv, Current
<1>8. LivingSessionsAreKept' /\ ShownSessionLives'
  BY <1>1 DEF WebInv, LivingSessionsAreKept, ShownSessionLives, InHand
<1> QED BY <1>2, <1>3, <1>4, <1>5, <1>6, <1>7, <1>8 DEF WebInv

\* A session is opened: its token was nobody's and is nowhere yet.
LEMMA SessionOpens ==
  ASSUME WebInv, NEW v \in Visits, NEW t \in Tokens, ApiOpens(v, t)
  PROVE  WebInv'
<1>1. /\ visit[v].api = "calling" /\ Opens(v) /\ owner[t] = NoVisitor
      /\ owner' = [owner EXCEPT ![t] = visit[v].who] /\ living' = living \cup {t}
      /\ visit' = [visit EXCEPT ![v].api = "answered", ![v].issued = t]
      /\ UNCHANGED <<row, cookie, left, ended, overlap>>
  BY DEF ApiOpens
<1>2. visit[v].op \in SignInOps
  BY <1>1 DEF Opens, SignInOps
<1>3. visit[v].who \in Visitors /\ visit[v].issued = NoWebToken
  BY <1>1, <1>2, VisitTyped DEF Answer
<1>4. PICK y : y = [visit[v] EXCEPT !.api = "answered", !.issued = t]
  OBVIOUS
<1>5. visit' = [visit EXCEPT ![v] = y]
  BY <1>1, <1>4, VisitTyped
<1>6. /\ y \in VisitRow /\ y.op = visit[v].op /\ y.row = visit[v].row /\ y.copy = visit[v].copy
      /\ y.who = visit[v].who /\ y.issued = t /\ y.stale = visit[v].stale /\ y.api = "answered"
  BY <1>4, VisitTyped DEF VisitRow
<1>7. visit' \in [Visits -> VisitRow] /\ visit'[v] = y /\ \A w \in Visits : w # v => visit'[w] = visit[w]
  BY <1>5, <1>6, VisitTyped
<1>8. owner \in [Tokens -> Visitors \cup {NoVisitor}] /\ owner'[t] = visit[v].who
      /\ \A s \in Tokens : s # t => owner'[s] = owner[s]
  BY <1>1 DEF WebInv, WebTyped
<1>9. \A c \in WebRow : Owns(c) => c.token # t /\ Owns(c)'
  <2> SUFFICES ASSUME NEW c \in WebRow, Owns(c) PROVE c.token # t /\ Owns(c)'
    OBVIOUS
  <2>1. c.token # t /\ c.token \in Tokens \cup {NoWebToken}
    BY <1>1, WebConstants DEF Owns, WebRow
  <2>2. c.token # NoWebToken => owner'[c.token] = owner[c.token]
    BY <1>8, <2>1
  <2> QED BY <2>1, <2>2 DEF Owns
<1>10. \A r \in Rows : row[r].token # t /\ Owns(row[r])'
  <2> SUFFICES ASSUME NEW r \in Rows PROVE row[r].token # t /\ Owns(row[r])'
    OBVIOUS
  <2>1. PICK c \in WebRow : c = row[r]
    BY DEF WebInv, WebTyped
  <2>2. row'[r] = c /\ c.token # t /\ Owns(c)'
    BY <1>1, <1>9, <2>1 DEF WebInv
  <2> QED BY <2>1, <2>2 DEF Owns
<1>11. \A w \in Visits : visit[w].copy.token # t /\ Owns(visit[w].copy)'
  <2> SUFFICES ASSUME NEW w \in Visits PROVE visit[w].copy.token # t /\ Owns(visit[w].copy)'
    OBVIOUS
  <2>1. PICK c \in WebRow : c = visit[w].copy
    BY VisitTyped
  <2>2. PICK d : d = visit'[w].copy
    OBVIOUS
  <2>3. d = c
    BY <1>6, <1>7, <2>1, <2>2
  <2>4. Owns(c) /\ c.token # t /\ Owns(c)'
    BY <1>9, <2>1, VisitTyped
  <2> QED BY <2>1, <2>2, <2>3, <2>4 DEF Owns
<1>12. \A w \in Visits : visit[w].issued # t
  <2> SUFFICES ASSUME NEW w \in Visits, visit[w].issued = t PROVE FALSE
    OBVIOUS
  <2>1. owner[t] = visit[w].who /\ visit[w].who \in Visitors
    BY VisitTyped, WebConstants DEF Answer
  <2> QED BY <1>1, <2>1, WebConstants
<1>13. WebTyped'
  BY <1>1, <1>3, <1>7 DEF WebInv, WebTyped
<1>14. (\A w \in Visits : Answer(visit[w]))'
  <2> SUFFICES ASSUME NEW w \in Visits PROVE Answer(visit[w])'
    OBVIOUS
  <2>1. CASE w = v
    <3>1. Answer(visit[v]) /\ visit'[w] = y
      BY <1>7, <2>1, VisitTyped
    <3> QED BY <1>1, <1>2, <1>3, <1>6, <1>8, <3>1 DEF Answer, SignInOps
  <2>2. CASE w # v
    <3>1. Answer(visit[w]) /\ visit'[w] = visit[w] /\ visit[w].issued # t /\ visit[w].issued \in Tokens \cup {NoWebToken}
      BY <1>7, <1>12, <2>2, VisitTyped DEF VisitRow
    <3> QED BY <1>8, <3>1 DEF Answer
  <2> QED BY <2>1, <2>2
<1>15. (\A w \in Visits : Ending(visit[w]))'
  <2> SUFFICES ASSUME NEW w \in Visits PROVE Ending(visit[w])'
    OBVIOUS
  <2>1. CASE w = v
    <3>1. visit'[w].op \in SignInOps /\ visit'[w].api = "answered"
      BY <1>2, <1>6, <1>7, <2>1
    <3> QED BY <3>1 DEF Ending, SignInOps
  <2>2. CASE w # v
    <3>1. Ending(visit[w]) /\ visit'[w] = visit[w] /\ visit[w].copy.token # t
      BY <1>7, <1>11, <2>2, VisitTyped
    <3>2. left' = left /\ \A s : s # t /\ s \notin living => s \notin living'
      BY <1>1
    <3> QED BY <3>1, <3>2 DEF Ending
  <2> QED BY <2>1, <2>2
<1>16. (\A w \in Visits : Current(visit[w]))'
  <2> SUFFICES ASSUME NEW w \in Visits PROVE Current(visit[w])'
    OBVIOUS
  <2>1. Current(visit[w]) /\ visit'[w].op = visit[w].op /\ visit'[w].row = visit[w].row
        /\ visit'[w].copy = visit[w].copy /\ visit'[w].stale = visit[w].stale
    BY <1>6, <1>7, VisitTyped
  <2> QED BY <1>1, <2>1 DEF Current
<1>17. \A w \in Visits : visit'[w].copy.token = visit[w].copy.token
  BY <1>6, <1>7
<1>18. (\A w \in Visits : Fresh(w))'
  <2> SUFFICES ASSUME NEW w \in Visits, visit'[w].issued # NoWebToken
               PROVE  /\ \A r \in Rows : row'[r].token # visit'[w].issued
                      /\ \A u \in Visits : visit'[u].copy.token # visit'[w].issued
                      /\ \A u \in Visits : u # w => visit'[u].issued # visit'[w].issued
                      /\ visit'[w].issued \in living' \cup ended' \cup left'
    BY DEF Fresh
  <2>1. CASE w = v
    <3>1. visit'[w].issued = t
      BY <1>6, <1>7, <2>1
    <3> QED BY <1>1, <1>7, <1>10, <1>11, <1>12, <1>17, <2>1, <3>1
  <2>2. CASE w # v
    <3>1. visit'[w] = visit[w] /\ visit[w].issued # t /\ Fresh(w)
      BY <1>7, <1>12, <2>2, VisitTyped
    <3>2. \A u \in Visits : u # w => visit'[u].issued # visit[w].issued
      BY <1>6, <1>7, <3>1 DEF Fresh
    <3>3. /\ \A r \in Rows : row[r].token # visit[w].issued
          /\ \A u \in Visits : visit[u].copy.token # visit[w].issued
          /\ visit[w].issued \in living \cup ended \cup left
      BY <3>1 DEF Fresh
    <3>4. PICK s : s = visit[w].issued
      OBVIOUS
    <3>5. visit'[w].issued = s /\ (\A u \in Visits : u # w => visit'[u].issued # s)
      BY <3>1, <3>2, <3>4
    <3>6. (\A r \in Rows : row'[r].token # s) /\ s \in living' \cup ended' \cup left'
      BY <1>1, <3>3, <3>4
    <3>7. \A u \in Visits : visit'[u].copy.token # s
      BY <1>17, <3>3, <3>4
    <3> QED BY <3>5, <3>6, <3>7
  <2> QED BY <2>1, <2>2
<1>19. LivingSessionsAreKept'
  <2> SUFFICES ASSUME ~overlap, NEW s \in living' PROVE s \in InHand' \cup left'
    BY <1>1 DEF LivingSessionsAreKept
  <2>1. CASE s = t
    BY <1>6, <1>7, <2>1 DEF InHand
  <2>2. CASE s # t
    <3>1. s \in InHand \cup left
      BY <1>1, <2>2 DEF WebInv, LivingSessionsAreKept
    <3>2. s # NoWebToken
      BY <1>1, <2>2, WebConstants DEF WebInv, WebTyped
    <3>3. ASSUME NEW w \in Visits, s = visit[w].issued PROVE s \in InHand'
      <4>1. w # v
        BY <1>3, <3>2, <3>3
      <4> QED BY <1>7, <3>3, <4>1 DEF InHand
    <3> QED BY <1>1, <3>1, <3>3 DEF InHand
  <2> QED BY <2>1, <2>2
<1>20. ShownSessionLives'
  BY <1>1, <1>6, <1>7 DEF WebInv, ShownSessionLives
<1> QED BY <1>10, <1>11, <1>13, <1>14, <1>15, <1>16, <1>18, <1>19, <1>20 DEF WebInv

\* What a view makes of its copy: the token it was given, the one it had, or
\* none; a token it drops was replaced, had ended, or was given up.
LEMMA EditedIsSound ==
  ASSUME WebInv, NEW v \in Visits, visit[v].api \notin {"idle", "calling"}
  PROVE  /\ Edited(v) \in WebRow /\ Owns(Edited(v))
         /\ Edited(v).token \in {visit[v].copy.token, visit[v].issued, NoWebToken}
         /\ visit[v].issued # NoWebToken => Edited(v).token = visit[v].issued
         /\ visit[v].op \in {"logout", "delete"} => Edited(v).token = NoWebToken
         /\ \/ Edited(v).token = visit[v].copy.token
            \/ visit[v].copy.token \notin living \/ visit[v].copy.token \in left
            \/ visit[v].op \in {"verify", "social", "email"}
<1> DEFINE x == visit[v]
           c == visit[v].copy
<1>1. /\ x \in VisitRow /\ c \in WebRow /\ Owns(c) /\ Answer(x) /\ Ending(x)
      /\ x.api \in {"answered", "challenge", "profile", "unauthorized", "failed"}
      /\ x.op # "none"
  BY VisitTyped, BlankFacts DEF VisitRow, Answer
<1>2. PICK z : z = Edited(v)
  OBVIOUS
<1>3. x.op \in SignInOps => x.who \in Visitors
  BY <1>1 DEF Answer
<1>4. x.op \in SignInOps /\ x.api = "answered" => x.issued \in Tokens /\ owner[x.issued] = x.who
  BY <1>1 DEF Answer
<1>5. x.op \notin SignInOps \/ x.api # "answered" => x.issued = NoWebToken
  BY <1>1 DEF Answer
<1>6. NoWebToken \notin living
  BY WebConstants DEF WebInv, WebTyped
<1>7. CASE x.op \in {"logout", "delete"}
  <2>1. z = SignedOut(c)
    BY <1>2, <1>7 DEF Edited
  <2>2. z \in WebRow /\ z.token = NoWebToken /\ z.user = NoVisitor
    BY <1>1, <2>1 DEF SignedOut, WebRow
  <2>3. x.api \in {"answered", "failed"} /\ x.issued = NoWebToken
    BY <1>1, <1>5, <1>7 DEF Answer, SignInOps
  <2>4. c.token = NoWebToken \/ c.token \notin living \/ c.token \in left
    BY <1>1, <1>7, <2>3 DEF Ending
  <2> QED BY <1>2, <1>6, <1>7, <2>2, <2>3, <2>4 DEF Owns
<1>8. CASE x.op = "consent"
  <2>1. x.issued = NoWebToken /\ x.op \notin {"verify", "social", "email"}
    BY <1>5, <1>8 DEF SignInOps
  <2>2. CASE x.api = "unauthorized"
    <3>1. z = SignedOut(c)
      BY <1>2, <1>8, <2>2 DEF Edited
    <3>2. z \in WebRow /\ z.token = NoWebToken /\ z.user = NoVisitor
      BY <1>1, <3>1 DEF SignedOut, WebRow
    <3>3. c.token \notin living
      BY <1>1, <2>2 DEF Ending
    <3> QED BY <1>2, <1>8, <2>1, <3>2, <3>3 DEF Owns
  <2>3. CASE x.api # "unauthorized"
    <3>1. z = c
      BY <1>2, <1>8, <2>3 DEF Edited
    <3> QED BY <1>1, <1>2, <1>8, <2>1, <3>1
  <2> QED BY <2>2, <2>3
<1>9. CASE x.op \in {"capture", "social start", "enroll"}
  <2>1. z = c \/ z = [c EXCEPT !.social = TRUE] \/ z = [c EXCEPT !.challenge = NoVisitor]
    BY <1>2, <1>9 DEF Edited
  <2>2. z \in WebRow /\ z.token = c.token /\ z.user = c.user
    BY <1>1, <2>1 DEF WebRow
  <2>3. x.issued = NoWebToken
    BY <1>5, <1>9 DEF SignInOps
  <2> QED BY <1>1, <1>2, <1>9, <2>2, <2>3 DEF Owns
<1>10. CASE x.op = "account"
  <2>1. x.issued = NoWebToken
    BY <1>5, <1>10 DEF SignInOps
  <2>2. c.token \in Tokens /\ owner[c.token] = c.user /\ c.user \in Visitors
    BY <1>1, <1>10 DEF Answer, Authenticated, Owns, WebRow
  <2>3. z = c \/ z = [c EXCEPT !.user = owner[c.token]]
    BY <1>2, <1>10 DEF Edited
  <2>4. z \in WebRow /\ z.token = c.token /\ z.user = c.user
    BY <1>1, <2>2, <2>3 DEF WebRow
  <2> QED BY <1>1, <1>2, <1>10, <2>1, <2>4 DEF Owns
<1>11. CASE x.op \in SignInOps /\ x.api = "answered"
  <2>1. z.token = x.issued /\ z.user = x.who /\ z \in WebRow
    <3>1. CASE x.op = "login"
      <4>1. z = SignedInAs(c, x.who, x.issued)
        BY <1>2, <1>11, <3>1 DEF Edited
      <4> QED BY <1>1, <1>3, <1>4, <1>11, <4>1 DEF SignedInAs, WebRow
    <3>2. CASE x.op = "verify"
      <4>1. z = SignedInAs([c EXCEPT !.challenge = NoVisitor], x.who, x.issued)
        BY <1>2, <1>11, <3>2 DEF Edited
      <4> QED BY <1>1, <1>3, <1>4, <1>11, <4>1 DEF SignedInAs, WebRow
    <3>3. CASE x.op = "social"
      <4>1. z = SignedInAs([c EXCEPT !.social = FALSE], x.who, x.issued)
        BY <1>2, <1>11, <3>3 DEF Edited
      <4> QED BY <1>1, <1>3, <1>4, <1>11, <4>1 DEF SignedInAs, WebRow
    <3>4. CASE x.op = "email"
      <4>1. z = SignedInAs([c EXCEPT !.pending = NoVisitor], x.who, x.issued)
        BY <1>2, <1>11, <3>4 DEF Edited
      <4> QED BY <1>1, <1>3, <1>4, <1>11, <4>1 DEF SignedInAs, WebRow
    <3> QED BY <1>11, <3>1, <3>2, <3>3, <3>4 DEF SignInOps
  <2>2. Owns(z)
    BY <1>3, <1>4, <1>11, <2>1, WebConstants DEF Owns
  <2>3. x.op = "login" => c.token = NoWebToken
    BY <1>1 DEF Answer, Authenticated, Owns
  <2>4. x.op \notin {"logout", "delete"}
    BY <1>11 DEF SignInOps
  <2> QED BY <1>2, <1>6, <1>11, <2>1, <2>2, <2>3, <2>4 DEF SignInOps
<1>12. CASE x.op \in SignInOps /\ x.api # "answered"
  <2>1. z \in WebRow /\ z.token = c.token /\ z.user = c.user
    <3>1. CASE x.op = "login"
      <4>1. z = c \/ z = Challenged(c, x.who)
        BY <1>1, <1>2, <1>12, <3>1 DEF Edited
      <4> QED BY <1>1, <1>3, <1>12, <4>1 DEF Challenged, WebRow
    <3>2. CASE x.op = "verify"
      <4>1. x.api = "failed"
        BY <1>1, <1>12, <3>2 DEF Answer, SignInOps
      <4>2. z = c
        BY <1>2, <3>2, <4>1 DEF Edited
      <4> QED BY <1>1, <4>2
    <3>3. CASE x.op = "social"
      <4> DEFINE d == [c EXCEPT !.social = FALSE]
      <4>1. z = d \/ z = [d EXCEPT !.pending = x.who] \/ z = Challenged(d, x.who)
        BY <1>1, <1>2, <1>12, <3>3 DEF Edited
      <4> QED BY <1>1, <1>3, <1>12, <4>1 DEF Challenged, WebRow
    <3>4. CASE x.op = "email"
      <4> DEFINE d == [c EXCEPT !.pending = NoVisitor]
      <4>1. x.api \in {"challenge", "failed"}
        BY <1>1, <1>12, <3>4 DEF Answer, SignInOps
      <4>2. z = c \/ z = Challenged(d, x.who)
        BY <1>2, <3>4, <4>1 DEF Edited
      <4> QED BY <1>1, <1>3, <1>12, <4>2 DEF Challenged, WebRow
    <3> QED BY <1>12, <3>1, <3>2, <3>3, <3>4 DEF SignInOps
  <2>2. x.issued = NoWebToken /\ x.op \notin {"logout", "delete"}
    BY <1>5, <1>12 DEF SignInOps
  <2> QED BY <1>1, <1>2, <2>1, <2>2 DEF Owns
<1>13. x.op \in {"logout", "delete", "consent", "capture", "social start", "enroll", "account"} \cup SignInOps
  BY <1>1 DEF VisitRow, Ops, SignInOps
<1> QED BY <1>7, <1>8, <1>9, <1>10, <1>11, <1>12, <1>13

\* A request that changed nothing drops nothing.
LEMMA VisitEndsQuietly ==
  ASSUME WebInv, NEW v \in Visits, NEW delivered \in BOOLEAN, EndVisit(v, delivered), ~Writes(v)
  PROVE  WebInv'
<1>1. /\ visit[v].api \notin {"idle", "calling"}
      /\ visit' = [visit EXCEPT ![v] = NoVisit]
      /\ UNCHANGED <<owner, living, row, cookie, left, ended, overlap>>
  BY DEF EndVisit
<1>2. Edited(v) = visit[v].copy
  BY DEF Writes
<1>3. visit[v].issued = NoWebToken
  BY <1>1, <1>2, EditedIsSound, VisitTyped DEF Fresh
<1>4. visit[v].op \in {"logout", "delete"} => visit[v].copy.token = NoWebToken
  BY <1>1, <1>2, EditedIsSound
<1> QED BY <1>1, <1>3, <1>4, VisitVanishes

LEMMA VisitSaves ==
  ASSUME WebInv, NEW v \in Visits, NEW delivered \in BOOLEAN, EndVisit(v, delivered), Writes(v)
  PROVE  WebInv'
<1> DEFINE x == visit[v]
           c == visit[v].copy
<1>1. x.api \notin {"idle", "calling"}
  BY DEF EndVisit
<1>2. PICK r \in Rows :
        /\ IF x.row = NoRow THEN row[r] = BlankRow /\ r # cookie ELSE r = x.row
        /\ x.row # NoRow => delivered
        /\ row' = [row EXCEPT ![r] = Edited(v)]
        /\ cookie' = IF delivered THEN r ELSE cookie
        /\ visit' = [w \in Visits |->
              CASE w = v -> NoVisit
                [] w # v /\ visit[w].row = x.row /\ visit[w].op # "none" -> [visit[w] EXCEPT !.stale = TRUE]
                [] OTHER -> visit[w]]
        /\ left' = left \cup Replaced(v) \cup (IF delivered THEN {} ELSE {Edited(v).token} \ {NoWebToken})
        /\ overlap' = (overlap \/ x.stale)
        /\ UNCHANGED <<owner, living, ended>>
  BY DEF EndVisit
<1>3. PICK z \in WebRow : z = Edited(v)
  BY <1>1, EditedIsSound
<1>4. /\ Owns(z) /\ z.token \in {c.token, x.issued, NoWebToken}
      /\ x.issued # NoWebToken => z.token = x.issued
      /\ x.op \in {"logout", "delete"} => z.token = NoWebToken
      /\ \/ z.token = c.token \/ c.token \notin living \/ c.token \in left
         \/ x.op \in {"verify", "social", "email"}
  BY <1>1, <1>3, EditedIsSound
<1>5. left \subseteq left' /\ (z.token = c.token \/ c.token \notin living \/ c.token \in left')
  <2>1. left \subseteq left' /\ Replaced(v) \subseteq left'
    BY <1>2
  <2>2. c.token \in living => c.token # NoWebToken
    BY WebConstants DEF WebInv, WebTyped
  <2> QED BY <1>3, <1>4, <2>1, <2>2 DEF Replaced
<1>6. x \in VisitRow /\ c \in WebRow /\ Owns(c) /\ Answer(x) /\ Fresh(v) /\ Current(x) /\ x.op # "none"
  BY <1>1, VisitTyped, BlankFacts DEF Answer
<1>7. /\ visit \in [Visits -> VisitRow] /\ row \in [Rows -> WebRow] /\ r # NoRow
      /\ row'[r] = z /\ \A q \in Rows : q # r => row'[q] = row[q]
  BY <1>2, <1>3, WebConstants, VisitTyped
<1>8. visit'[v] = NoVisit
  BY <1>2
<1>9. \A w \in Visits : w # v =>
        /\ visit'[w].op = visit[w].op /\ visit'[w].row = visit[w].row /\ visit'[w].copy = visit[w].copy
        /\ visit'[w].who = visit[w].who /\ visit'[w].api = visit[w].api /\ visit'[w].issued = visit[w].issued
        /\ visit'[w] \in VisitRow
        /\ visit[w].op = "none" => visit'[w] = visit[w]
        /\ visit[w].stale => visit'[w].stale
        /\ visit[w].row = x.row /\ visit[w].op # "none" => visit'[w].stale
  <2> SUFFICES ASSUME NEW w \in Visits, w # v
               PROVE  /\ visit'[w].op = visit[w].op /\ visit'[w].row = visit[w].row /\ visit'[w].copy = visit[w].copy
                      /\ visit'[w].who = visit[w].who /\ visit'[w].api = visit[w].api /\ visit'[w].issued = visit[w].issued
                      /\ visit'[w] \in VisitRow
                      /\ visit[w].op = "none" => visit'[w] = visit[w]
                      /\ visit[w].stale => visit'[w].stale
                      /\ visit[w].row = x.row /\ visit[w].op # "none" => visit'[w].stale
    OBVIOUS
  <2>1. visit[w] \in VisitRow
    BY <1>7
  <2>2. CASE visit[w].row = x.row /\ visit[w].op # "none"
    <3>1. visit'[w] = [visit[w] EXCEPT !.stale = TRUE]
      BY <1>2, <2>2
    <3> QED BY <2>1, <2>2, <3>1 DEF VisitRow
  <2>3. CASE ~(visit[w].row = x.row /\ visit[w].op # "none")
    <3>1. visit'[w] = visit[w]
      BY <1>2, <2>3
    <3> QED BY <2>1, <2>3, <3>1
  <2> QED BY <2>2, <2>3
<1>10. WebTyped'
  <2>1. visit' \in [Visits -> VisitRow]
    <3>1. visit' = [w \in Visits |-> visit'[w]]
      BY <1>2
    <3>2. \A w \in Visits : visit'[w] \in VisitRow
      BY <1>8, <1>9, BlankFacts
    <3> QED BY <3>1, <3>2
  <2>2. row' \in [Rows -> WebRow]
    BY <1>2, <1>3, <1>7
  <2>3. cookie' \in Rows \cup {NoRow}
    BY <1>2 DEF WebInv, WebTyped
  <2>4. overlap' \in BOOLEAN /\ owner' = owner /\ living' = living
    BY <1>2
  <2> QED BY <2>1, <2>2, <2>3, <2>4 DEF WebInv, WebTyped
<1>11. (\A q \in Rows : Owns(row[q]))'
  <2> SUFFICES ASSUME NEW q \in Rows PROVE Owns(row[q])'
    OBVIOUS
  <2>1. PICK d : d = row'[q]
    OBVIOUS
  <2>2. Owns(d)
    BY <1>4, <1>7, <2>1 DEF WebInv
  <2> QED BY <1>2, <2>1, <2>2 DEF Owns
<1>12. (\A w \in Visits : Owns(visit[w].copy))'
  <2> SUFFICES ASSUME NEW w \in Visits PROVE Owns(visit[w].copy)'
    OBVIOUS
  <2>1. PICK d : d = visit'[w].copy
    OBVIOUS
  <2>2. Owns(d)
    BY <1>8, <1>9, <2>1, BlankFacts, VisitTyped
  <2> QED BY <1>2, <2>1, <2>2 DEF Owns
<1>13. (\A w \in Visits : Answer(visit[w]))'
  <2> SUFFICES ASSUME NEW w \in Visits PROVE Answer(visit[w])'
    OBVIOUS
  <2>1. CASE w = v
    <3>1. Answer(NoVisit)
      BY IdleVisitIsSound
    <3> QED BY <1>2, <1>8, <2>1, <3>1 DEF Answer
  <2>2. CASE w # v
    <3>1. Answer(visit[w])
      BY VisitTyped
    <3> QED BY <1>2, <1>9, <2>2, <3>1 DEF Answer
  <2> QED BY <2>1, <2>2
<1>14. (\A w \in Visits : Ending(visit[w]))'
  <2> SUFFICES ASSUME NEW w \in Visits PROVE Ending(visit[w])'
    OBVIOUS
  <2>1. CASE w = v
    BY <1>8, <2>1, BlankFacts DEF Ending
  <2>2. CASE w # v
    <3>1. Ending(visit[w])
      BY VisitTyped
    <3> QED BY <1>2, <1>5, <1>9, <2>2, <3>1 DEF Ending
  <2> QED BY <2>1, <2>2
<1>15. \A w \in Visits : visit'[w].issued # NoWebToken => w # v /\ visit'[w].issued = visit[w].issued
  BY <1>8, <1>9, BlankFacts
<1>16. (\A w \in Visits : Fresh(w))'
  <2> SUFFICES ASSUME NEW w \in Visits, visit'[w].issued # NoWebToken
               PROVE  /\ \A q \in Rows : row'[q].token # visit'[w].issued
                      /\ \A u \in Visits : visit'[u].copy.token # visit'[w].issued
                      /\ \A u \in Visits : u # w => visit'[u].issued # visit'[w].issued
                      /\ visit'[w].issued \in living' \cup ended' \cup left'
    BY DEF Fresh
  <2>1. PICK t : t = visit[w].issued
    OBVIOUS
  <2>2. w # v /\ visit'[w].issued = t /\ t # NoWebToken
    BY <1>15, <2>1
  <2>3. /\ \A q \in Rows : row[q].token # t
        /\ \A u \in Visits : visit[u].copy.token # t
        /\ \A u \in Visits : u # w => visit[u].issued # t
        /\ t \in living \cup ended \cup left
    BY <2>1, <2>2, VisitTyped DEF Fresh
  <2>4. z.token # t
    BY <1>4, <2>2, <2>3
  <2>5. \A q \in Rows : row'[q].token # t
    BY <1>7, <2>3, <2>4
  <2>6. \A u \in Visits : visit'[u].copy.token # t
    BY <1>8, <1>9, <2>2, <2>3, BlankFacts
  <2>7. \A u \in Visits : u # w => visit'[u].issued # t
    BY <1>15, <2>2, <2>3
  <2>8. t \in living' \cup ended' \cup left'
    BY <1>2, <1>5, <2>3
  <2> QED BY <2>2, <2>5, <2>6, <2>7, <2>8
<1>17. ~overlap' => /\ ~overlap /\ ~x.stale
                    /\ x.row # NoRow => x.row = r /\ r = cookie /\ cookie' = r /\ row[r] = c
                    /\ x.row = NoRow => cookie = NoRow /\ c = BlankRow
  BY <1>2, <1>6 DEF Current, Answer
<1>18. (\A w \in Visits : Current(visit[w]))'
  <2> SUFFICES ASSUME NEW w \in Visits PROVE Current(visit[w])'
    OBVIOUS
  <2>1. CASE w = v
    BY <1>8, <2>1, BlankFacts DEF Current
  <2>2. CASE w # v
    <3>1. Current(visit[w])
      BY VisitTyped
    <3>2. cookie' # NoRow /\ visit[w].op # "none" /\ visit[w].row = NoRow => visit'[w].stale
      BY <1>2, <1>6, <1>9, <2>2, <3>1 DEF Current
    <3>3. cookie' = NoRow => visit[w].row = NoRow
      BY <1>2, <1>7, <3>1 DEF Current
    <3>4. ~overlap' /\ visit[w].op # "none" /\ visit[w].row # NoRow => visit[w].row = cookie' /\ visit'[w].stale
      BY <1>9, <1>17, <2>2, <3>1 DEF Current
    <3> QED BY <1>9, <2>2, <3>2, <3>3, <3>4 DEF Current
  <2> QED BY <2>1, <2>2
<1>19. LivingSessionsAreKept'
  <2> SUFFICES ASSUME ~overlap', NEW t \in living PROVE t \in InHand' \cup left'
    BY <1>2 DEF LivingSessionsAreKept
  <2>1. t \in InHand \cup left /\ t # NoWebToken
    BY <1>17, WebConstants DEF WebInv, WebTyped, LivingSessionsAreKept
  <2>2. ASSUME NEW q \in Rows, t = row[q].token PROVE t \in InHand' \cup left'
    <3>1. CASE q # r
      BY <1>7, <2>2, <3>1 DEF InHand
    <3>2. CASE q = r
      <4>1. t = c.token
        BY <1>2, <1>17, <2>1, <2>2, <3>2, BlankFacts
      <4>2. t = z.token \/ t \in left'
        BY <1>5, <4>1
      <4> QED BY <1>7, <4>2 DEF InHand
    <3> QED BY <3>1, <3>2
  <2>3. ASSUME NEW w \in Visits, t = visit[w].issued PROVE t \in InHand' \cup left'
    <3>1. CASE w = v
      <4>1. t = z.token
        BY <1>4, <2>1, <2>3, <3>1
      <4> QED BY <1>7, <4>1 DEF InHand
    <3>2. CASE w # v
      BY <1>9, <2>3, <3>2 DEF InHand
    <3> QED BY <3>1, <3>2
  <2> QED BY <1>5, <2>1, <2>2, <2>3 DEF InHand
<1>20. ShownSessionLives'
  <2> SUFFICES ASSUME ~overlap', cookie' # NoRow, row'[cookie'].token # NoWebToken
               PROVE  \/ row'[cookie'].token \in living' \cup ended' \cup left'
                      \/ \E w \in Visits : visit'[w].op \in {"logout", "delete"}
                                             /\ visit'[w].copy.token = row'[cookie'].token
    BY DEF ShownSessionLives
  <2>1. PICK t : t = row'[cookie'].token
    OBVIOUS
  <2>2. t \in living \cup ended \cup left => t \in living' \cup ended' \cup left'
    BY <1>2, <1>5
  <2>3. x.issued # NoWebToken => x.issued \in living \cup ended \cup left
    BY <1>6 DEF Fresh
  <2>4. CASE x.row # NoRow
    <3>1. cookie' = r /\ cookie = r /\ row[r] = c /\ t = z.token
      BY <1>7, <1>17, <2>1, <2>4
    <3>2. CASE t = x.issued
      BY <2>1, <2>2, <2>3, <3>2
    <3>3. CASE t = c.token
      <4>1. x.op \notin {"logout", "delete"}
        BY <1>4, <2>1, <3>1
      <4>2. \/ t \in living \cup ended \cup left
            \/ \E w \in Visits : visit[w].op \in {"logout", "delete"} /\ visit[w].copy.token = t
        BY <1>7, <1>17, <2>1, <3>1, <3>3 DEF WebInv, ShownSessionLives
      <4>3. ASSUME NEW w \in Visits, visit[w].op \in {"logout", "delete"}, visit[w].copy.token = t
            PROVE  visit'[w].op \in {"logout", "delete"} /\ visit'[w].copy.token = t
        BY <1>9, <4>1, <4>3
      <4> QED BY <2>1, <2>2, <4>2, <4>3
    <3> QED BY <1>4, <2>1, <3>1, <3>2, <3>3
  <2>5. CASE x.row = NoRow
    <3>1. cookie = NoRow /\ c.token = NoWebToken
      BY <1>17, <2>5, BlankFacts
    <3>2. cookie' = r /\ t = z.token
      BY <1>2, <1>7, <2>1, <3>1
    <3>3. t = x.issued
      BY <1>4, <2>1, <3>1, <3>2
    <3> QED BY <2>1, <2>2, <2>3, <3>3
  <2> QED BY <2>4, <2>5
<1> QED BY <1>10, <1>11, <1>12, <1>13, <1>14, <1>16, <1>18, <1>19, <1>20 DEF WebInv

LEMMA WebStep == ASSUME WebInv, [WebNext]_webVars PROVE WebInv'
<1>1. ASSUME NEW v \in Visits, NEW op \in Ops, NEW who \in Visitors \cup {NoVisitor},
             who # NoVisitor \/ op \in {"social start", "logout", "capture"}, BeginVisit(v, op, who)
      PROVE  WebInv'
  BY <1>1, VisitBegins
<1>2. ASSUME NEW v \in Visits, NEW t \in Tokens, ApiOpens(v, t) PROVE WebInv'
  BY <1>2, SessionOpens
<1>3. ASSUME NEW v \in Visits, ApiGoesOn(v) \/ ApiAnswersOwner(v) PROVE WebInv'
  BY <1>3, VisitGoesOn
<1>4. ASSUME NEW v \in Visits, ApiEnds(v) PROVE WebInv'
  BY <1>4, SessionEnds
<1>5. ASSUME NEW v \in Visits, CallFails(v) PROVE WebInv'
  BY <1>5, VisitFails
<1>6. ASSUME NEW v \in Visits, NEW d \in BOOLEAN, EndVisit(v, d) PROVE WebInv'
  BY <1>6, VisitEndsQuietly, VisitSaves
<1>7. ASSUME NEW v \in Visits, VisitCrashes(v) PROVE WebInv'
  BY <1>7, VisitDies
<1>8. ASSUME NEW t \in Tokens, EndedElsewhere(t) PROVE WebInv'
  BY <1>8, SessionEndsElsewhere
<1>9. CASE UNCHANGED webVars
  BY <1>9 DEF webVars, WebInv, WebTyped, Owns, Answer, Ending, Fresh, Current, LivingSessionsAreKept,
              ShownSessionLives, InHand
<1> QED BY <1>1, <1>2, <1>3, <1>4, <1>5, <1>6, <1>7, <1>8, <1>9 DEF WebNext

LEMMA WebPart == Next => [WebNext]_webVars
BY DEF Next, TicketSteps, WebSteps, FormSteps

LEMMA WebAlways == Spec => []WebInv
<1>1. Init => WebInv
  BY WebStart DEF Init
<1>2. WebInv /\ [Next]_allVars => WebInv'
  BY WebStep, WebPart DEF allVars, webVars
<1> QED BY <1>1, <1>2, PTL DEF Spec

\* What the website shows of its sessions, and tells of its saves, is what
\* happened: the user shown owns the token, no live session is lost track of
\* unless a save took another one back, and rows name stored pictures.
THEOREM WebsiteTellsTheTruth == Spec => []WebsiteInvariant
<1>1. WebInv /\ FormsInv => WebsiteInvariant
  BY WebInvImplies, FormsInvImplies DEF WebsiteInvariant
<1> QED BY <1>1, WebAlways, FormsAlways, PTL

-----------------------------------------------------------------------------
(* The ticket.                                                             *)

LEMMA TicketConstants ==
  /\ NoOption \notin Options /\ Stakes \subseteq Nat /\ 0 \notin Stakes /\ MaxSheets \in Nat
BY TicketAssumption DEF TicketAssumption

LEMMA BlankTicketParts ==
  /\ NoPreview \in PreviewRow /\ NoPreview.action = None
  /\ NoWire \in WireRow /\ NoWire.kind = None
  /\ NoPost \in PostRow /\ NoPost.step = None
BY DEF NoPreview, PreviewRow, AnyAction, NoWire, WireRow, NoPost, PostRow

LEMMA DefaultsFacts ==
  ASSUME NEW t \in TicketRow, NEW view \in ViewRow
  PROVE  /\ Defaults(t, view) \in TicketRow
         /\ view.option = NoOption => Defaults(t, view) = t
         /\ view.option # NoOption =>
              /\ Defaults(t, view).expanded = None
              /\ Defaults(t, view).action = "revision" => Defaults(t, view).option = NoOption
         /\ Defaults(t, view).id = t.id /\ Defaults(t, view).stake = t.stake
         /\ Defaults(t, view).preview = t.preview /\ Defaults(t, view).desk = t.desk
         /\ Defaults(t, view).busy = t.busy /\ Defaults(t, view).loading = t.loading
         /\ Defaults(t, view).timer = t.timer
<1>1. CASE view.option = NoOption
  BY <1>1 DEF Defaults
<1>2. CASE view.option # NoOption
  <2>1. PICK first \in Deeds : first = IF ~view.raise /\ view.switch THEN "revision" ELSE "reinforcement"
    BY DEF Deeds
  <2>2. Defaults(t, view) = [t EXCEPT !.action = first, !.expanded = None,
                                      !.option = IF first = "revision" THEN NoOption ELSE view.option]
    BY <1>2, <2>1 DEF Defaults
  <2>3. view.option \in Options \cup {NoOption}
    BY DEF ViewRow
  <2> QED BY <1>2, <2>1, <2>2, <2>3 DEF TicketRow
<1> QED BY <1>1, <1>2

LEMMA BlankTicketTyped ==
  ASSUME NEW s \in Stakes
  PROVE  /\ BlankTicket(s) \in TicketRow /\ BlankTicket(s).desk = NoPreview /\ ~BlankTicket(s).busy
         /\ ~BlankTicket(s).loading /\ BlankTicket(s).id = 0 /\ BlankTicket(s).expanded = None
         /\ BlankTicket(s).stake = s /\ BlankTicket(s).action = "reinforcement"
BY BlankTicketParts DEF BlankTicket, TicketRow, Deeds

LEMMA ViewTyped == ASSUME server \in PlaceRow PROVE ViewerPosition \in ViewRow
BY DEF PlaceRow, ViewerPosition, ViewRow, Accepting, CanRaise, CanSwitch

LEMMA ViewOfTheServer == ViewSound(ViewerPosition)
BY DEF ViewSound, ViewerPosition

LEMMA TicketTypedFacts ==
  ASSUME TicketInv
  PROVE  /\ TicketTyped /\ ticket \in TicketRow /\ ticket.action \in Deeds /\ ticket.id \in Nat
         /\ ticket.option \in Options \cup {NoOption} /\ ticket.stake \in Stakes
         /\ ticket.stake \in Nat /\ ticket.stake # 0 /\ seen \in ViewRow
         /\ seen.option \in Options \cup {NoOption}
         /\ wires \in [Wires -> WireRow] /\ posts \in [Posts -> PostRow] /\ sheets \in Seq(SheetRow)
         /\ Selected(ticket) \in Options \cup {NoOption} /\ StakeOf(ticket) \in Nat
         /\ (StakeOf(ticket) = 0 <=> HasPosition /\ ticket.action = "revision")
<1>1. TicketTyped /\ ticket \in TicketRow /\ seen \in ViewRow
  BY DEF TicketInv, TicketTyped
<1>2. ticket.stake \in Stakes /\ ticket.action \in Deeds /\ ticket.id \in Nat
      /\ ticket.option \in Options \cup {NoOption} /\ seen.option \in Options \cup {NoOption}
  BY <1>1 DEF TicketRow, ViewRow
<1>3. ticket.stake \in Nat /\ ticket.stake # 0
  BY <1>2, TicketConstants
<1> QED BY <1>1, <1>2, <1>3 DEF TicketTyped, Selected, StakeOf

LEMMA TicketStart == TicketInit => TicketInv
<1> SUFFICES ASSUME TicketInit PROVE TicketInv
  OBVIOUS
<1>1. server \in PlaceRow
  BY DEF TicketInit, PlaceRow
<1>2. seen = ViewerPosition /\ seen \in ViewRow
  BY <1>1, ViewTyped DEF TicketInit
<1>3. PICK s \in Stakes : ticket = Defaults(BlankTicket(s), seen)
  BY <1>2 DEF TicketInit
<1>4. /\ ticket \in TicketRow /\ ticket.desk = NoPreview /\ ~ticket.busy /\ ~ticket.loading
      /\ ticket.expanded = None
  BY <1>2, <1>3, DefaultsFacts, BlankTicketTyped
<1>5. refresh = <<>> /\ sheets = <<>> /\ wires = [w \in Wires |-> NoWire] /\ posts = [p \in Posts |-> NoPost]
  BY DEF TicketInit
<1>6. TicketTyped
  BY <1>1, <1>2, <1>4, <1>5, BlankTicketParts, TicketConstants DEF TicketTyped
<1>7. \A w \in Wires : WireSound(wires[w])
  BY <1>5 DEF WireSound
<1>8. ViewSound(seen)
  BY <1>2, ViewOfTheServer
<1>9. \A view \in ViewRow : refresh = <<"read", view>> => ReadingSound(view)
  BY <1>5
<1>10. \A p \in Posts : posts[p].step \in {"sent", "left"} => posts[p].option # NoOption
  BY <1>5, BlankTicketParts DEF None
<1>11. PanelComing /\ PanelOfTheSelection /\ ButtonComesBack
  BY <1>4 DEF PanelComing, PanelOfTheSelection, ButtonComesBack
<1>12. SheetSendsWhatItShows /\ FiguresOfTheSheet
  BY <1>5 DEF SheetSendsWhatItShows, FiguresOfTheSheet
<1> QED BY <1>6, <1>7, <1>8, <1>9, <1>10, <1>11, <1>12 DEF TicketInv

LEMMA TicketInvImplies == TicketInv => TicketInvariant
<1> SUFFICES ASSUME TicketInv PROVE TicketInvariant
  OBVIOUS
<1>1. TicketTypes
  BY DEF TicketInv, TicketTyped, TicketTypes, PlaceRow, ViewRow, TicketRow
<1>2. LoadingEnds
  BY BlankTicketParts DEF TicketInv, PanelComing, LoadingEnds, None
<1> QED BY <1>1, <1>2 DEF TicketInv, TicketInvariant

\* What a step leaves of what is in flight, when the ticket still selects the
\* same and neither preview nor reading of the market is new.
Steady ==
    /\ server' = server /\ seen' = seen
    /\ ticket'.option = ticket.option /\ ticket'.stake = ticket.stake /\ ticket'.action = ticket.action
    /\ ticket'.expanded = ticket.expanded /\ ticket'.id = ticket.id /\ ticket' \in TicketRow

LEMMA SteadySelection ==
  ASSUME Steady
  PROVE  /\ Selected(ticket)' = Selected(ticket) /\ StakeOf(ticket)' = StakeOf(ticket)
         /\ (HasPosition' <=> HasPosition)
         /\ \A x : PreviewIsCurrent(x)' <=> PreviewIsCurrent(x)
BY DEF Steady, Selected, StakeOf, HasPosition, PreviewIsCurrent

LEMMA FrontOfSheets ==
  ASSUME TicketInv, sheets # <<>>
  PROVE  /\ Front(sheets) \in Seq(SheetRow) /\ Len(Front(sheets)) <= MaxSheets
         /\ \A i \in DOMAIN Front(sheets) : i \in DOMAIN sheets /\ Front(sheets)[i] = sheets[i]
         /\ Last(sheets) \in SheetRow /\ Len(sheets) \in DOMAIN sheets
<1>1. sheets \in Seq(SheetRow) /\ Len(sheets) \in Nat /\ Len(sheets) # 0 /\ Len(sheets) <= MaxSheets
  BY TicketTypedFacts DEF TicketTyped
<1>2. Front(sheets) = SubSeq(sheets, 1, Len(sheets) - 1)
  BY DEF Front
<1>3. /\ Front(sheets) \in Seq(SheetRow) /\ Len(Front(sheets)) = Len(sheets) - 1
      /\ \A i \in 1..(Len(sheets) - 1) : Front(sheets)[i] = sheets[i]
  <2>1. PICK n \in Nat : Len(sheets) = n + 1
    BY <1>1
  <2>2. 1 \in 1..Len(sheets) + 1 /\ n \in 1 - 1..Len(sheets)
    BY <2>1
  <2>3. /\ SubSeq(sheets, 1, n) \in Seq(SheetRow) /\ Len(SubSeq(sheets, 1, n)) = IF 1 <= n THEN n - 1 + 1 ELSE 0
        /\ \A i \in 1..n - 1 + 1 : SubSeq(sheets, 1, n)[i] = sheets[1 + i - 1]
    BY <1>1, <2>2, SubSeqProperties
  <2>4. Front(sheets) = SubSeq(sheets, 1, n)
    BY <1>2, <2>1
  <2>5. \A i \in 1..n : Front(sheets)[i] = sheets[i]
    BY <2>3, <2>4
  <2> QED BY <2>1, <2>3, <2>4, <2>5
<1>4. DOMAIN Front(sheets) = 1..(Len(sheets) - 1) /\ DOMAIN sheets = 1..Len(sheets)
  BY <1>1, <1>3
<1> QED BY <1>1, <1>3, <1>4, TicketConstants DEF Last

LEMMA SheetsKept ==
  ASSUME TicketInv, Steady, sheets' = sheets \/ (sheets # <<>> /\ sheets' = Front(sheets))
  PROVE  /\ sheets' \in Seq(SheetRow) /\ Len(sheets') <= MaxSheets
         /\ SheetSendsWhatItShows' /\ FiguresOfTheSheet'
<1>1. sheets' \in Seq(SheetRow) /\ Len(sheets') <= MaxSheets
      /\ \A i \in DOMAIN sheets' : i \in DOMAIN sheets /\ sheets'[i] = sheets[i]
  BY FrontOfSheets DEF TicketInv, TicketTyped
<1>2. \A sheet : Submission(sheet)' = Submission(sheet)
  BY SteadySelection DEF Submission, Steady
<1>3. \A i \in DOMAIN sheets : ~sheets[i].overtaken =>
        Submission(sheets[i]) = [action |-> sheets[i].action, option |-> sheets[i].option,
                                 stake |-> sheets[i].stake]
  BY DEF TicketInv, SheetSendsWhatItShows
<1>4. SheetSendsWhatItShows'
  <2> SUFFICES ASSUME NEW i \in DOMAIN sheets', ~sheets'[i].overtaken
               PROVE  Submission(sheets[i])' = [action |-> sheets'[i].action, option |-> sheets'[i].option,
                                                stake |-> sheets'[i].stake]
    BY DEF SheetSendsWhatItShows
  <2>1. PICK sheet : sheet = sheets[i]
    OBVIOUS
  <2>2. sheets'[i] = sheet /\ Submission(sheet) = [action |-> sheet.action, option |-> sheet.option,
                                                   stake |-> sheet.stake]
    BY <1>1, <1>3, <2>1
  <2>3. Submission(sheet)' = Submission(sheet)
    BY <1>2
  <2> QED BY <2>2, <2>3 DEF Submission
<1>5. FiguresOfTheSheet'
  BY <1>1 DEF TicketInv, FiguresOfTheSheet
<1> QED BY <1>1, <1>4, <1>5

LEMMA PanelKept ==
  ASSUME TicketInv, Steady, ticket'.desk \in {ticket.desk, NoPreview}
  PROVE  PanelOfTheSelection'
BY SteadySelection DEF TicketInv, PanelOfTheSelection, Matches, Steady

LEMMA ComingKept ==
  ASSUME TicketInv, Steady, ticket'.loading => ticket.loading /\ ticket'.timer = ticket.timer,
         \A w \in Wires : wires[w].kind = "panel" /\ PreviewIsCurrent(wires[w]) /\ ticket'.loading =>
           wires'[w] = wires[w]
  PROVE  PanelComing'
<1> SUFFICES ASSUME ticket'.loading, seen'.open, ~ticket'.timer
             PROVE  \E w \in Wires : wires'[w].kind = "panel" /\ PreviewIsCurrent(wires[w])'
  BY DEF PanelComing
<1>1. PICK w \in Wires : wires[w].kind = "panel" /\ PreviewIsCurrent(wires[w])
  BY DEF TicketInv, PanelComing, Steady
<1>2. wires'[w] = wires[w]
  BY <1>1
<1>3. PreviewIsCurrent(wires[w])'
  BY <1>1, <1>2, SteadySelection DEF PreviewIsCurrent, Steady
<1> QED BY <1>1, <1>2, <1>3

LEMMA WiresKept ==
  ASSUME TicketInv, Steady, wires' = wires \/ \E w \in Wires : wires' = [wires EXCEPT ![w] = NoWire]
  PROVE  wires' \in [Wires -> WireRow] /\ (\A w \in Wires : WireSound(wires[w]))'
<1>1. wires' \in [Wires -> WireRow] /\ \A w \in Wires : wires'[w] \in {wires[w], NoWire}
  BY TicketTypedFacts, BlankTicketParts
<1>2. (\A w \in Wires : WireSound(wires[w]))'
  <2> SUFFICES ASSUME NEW w \in Wires PROVE WireSound(wires[w])'
    OBVIOUS
  <2>1. WireSound(wires[w])
    BY DEF TicketInv
  <2> QED BY <1>1, <2>1 DEF WireSound, Steady
<1> QED BY <1>1, <1>2

LEMMA ReadingKept ==
  ASSUME TicketInv, server' = server, seen' = seen, refresh' \in {refresh, <<>>, <<"asked">>}
  PROVE  ViewSound(seen)' /\ (\A view \in ViewRow : refresh = <<"read", view>> => ReadingSound(view))'
<1>1. \A view : (ViewSound(view)' <=> ViewSound(view)) /\ (ReadingSound(view)' <=> ReadingSound(view))
  BY DEF ViewSound, ReadingSound, Accepting
<1>2. \A view \in ViewRow : refresh' = <<"read", view>> => refresh = <<"read", view>>
  OBVIOUS
<1>3. ViewSound(seen)'
  BY DEF TicketInv, ViewSound, Accepting
<1> QED BY <1>1, <1>2, <1>3 DEF TicketInv

\* A step of the API: what was read stays behind it.
LEMMA ServerMoves ==
  ASSUME TicketInv, server' \in PlaceRow, UNCHANGED <<seen, refresh, ticket, wires, sheets>>,
         server.option # NoOption => server'.option # NoOption \/ server'.phase = "settled",
         server.phase = "settled" => server'.phase = "settled", Accepting' => Accepting,
         posts' \in [Posts -> PostRow],
         \A p \in Posts : posts'[p].step \in {"sent", "left"} => posts'[p].option # NoOption,
         \A p \in Posts : posts[p].step \in {"sent", "accepted"} => posts'[p].step \in {"sent", "accepted"}
  PROVE  TicketInv'
<1>1. TicketTyped'
  BY DEF TicketInv, TicketTyped
<1>2. (\A w \in Wires : WireSound(wires[w]))'
  BY DEF TicketInv, WireSound
<1>3. \A view : ViewSound(view) => ViewSound(view)'
  BY DEF ViewSound
<1>4. ViewSound(seen)'
  <2>1. PICK view : view = seen
    OBVIOUS
  <2>2. ViewSound(view)'
    BY <1>3, <2>1 DEF TicketInv
  <2> QED BY <2>1, <2>2 DEF ViewSound
<1>5. (\A view \in ViewRow : refresh = <<"read", view>> => ReadingSound(view))'
  BY <1>3 DEF TicketInv, ReadingSound
<1>6. PanelComing' /\ SheetSendsWhatItShows' /\ FiguresOfTheSheet' /\ PanelOfTheSelection'
  BY DEF TicketInv, PanelComing, SheetSendsWhatItShows, FiguresOfTheSheet, PanelOfTheSelection,
         PreviewIsCurrent, Submission, Selected, StakeOf, HasPosition
<1>7. ButtonComesBack'
  BY DEF TicketInv, ButtonComesBack
<1> QED BY <1>1, <1>2, <1>4, <1>5, <1>6, <1>7 DEF TicketInv

LEMMA MovedFacts ==
  ASSUME TicketInv, NEW action, NEW option \in Options, Moved(action, option)
  PROVE  server' \in PlaceRow /\ server'.option = option /\ server'.phase = server.phase
<1>1. server \in PlaceRow
  BY DEF TicketInv, TicketTyped
<1>2. PICK m \in Nat, n \in Nat : /\ m = server.raises + (IF action = "reinforcement" THEN 1 ELSE 0)
                                  /\ n = server.switches + (IF action = "revision" THEN 1 ELSE 0)
  BY <1>1 DEF PlaceRow
<1>3. server' = [server EXCEPT !.option = option, !.raises = m, !.switches = n]
  BY <1>2 DEF Moved
<1> QED BY <1>1, <1>3 DEF PlaceRow

LEMMA ApiSteps ==
  ASSUME TicketInv,
         \/ \E a \in Deeds \cup {"initial"}, o \in Options : ActElsewhere(a, o)
         \/ NextPhase \/ \E p \in Posts : Accepted(p)
  PROVE  TicketInv'
<1>1. server \in PlaceRow /\ posts \in [Posts -> PostRow]
      /\ \A p \in Posts : posts[p].step \in {"sent", "left"} => posts[p].option # NoOption
  BY DEF TicketInv, TicketTyped
<1>2. ASSUME NEW a \in Deeds \cup {"initial"}, NEW o \in Options, ActElsewhere(a, o) PROVE TicketInv'
  <2>1. Moved(a, o) /\ UNCHANGED <<seen, refresh, ticket, wires, sheets, posts>>
    BY <1>2 DEF ActElsewhere
  <2>2. server' \in PlaceRow /\ server'.option # NoOption /\ server'.phase = server.phase
    BY <2>1, MovedFacts, TicketConstants
  <2> QED BY <1>1, <2>1, <2>2, ServerMoves DEF Accepting
<1>3. ASSUME NextPhase PROVE TicketInv'
  <2>1. PICK i \in 1..3 : server.phase = Phases[i]
          /\ server' = [server EXCEPT !.phase = Phases[i + 1], !.option = IF i = 3 THEN NoOption ELSE @]
    BY <1>3 DEF NextPhase
  <2>2. \/ i = 1 /\ server.phase = "open" /\ Phases[i + 1] = "late"
        \/ i = 2 /\ server.phase = "late" /\ Phases[i + 1] = "closed"
        \/ i = 3 /\ server.phase = "closed" /\ Phases[i + 1] = "settled"
    BY <2>1 DEF Phases
  <2>3. /\ server' \in PlaceRow /\ server'.phase = Phases[i + 1]
        /\ server'.option = IF i = 3 THEN NoOption ELSE server.option
    BY <1>1, <2>1, <2>2 DEF PlaceRow
  <2>4. UNCHANGED <<seen, refresh, ticket, wires, sheets, posts>>
    BY <1>3 DEF NextPhase
  <2> QED BY <1>1, <2>2, <2>3, <2>4, ServerMoves DEF Accepting
<1>4. ASSUME NEW p \in Posts, Accepted(p) PROVE TicketInv'
  <2>1. /\ posts[p].step \in {"sent", "left"} /\ Moved(posts[p].action, posts[p].option)
        /\ posts' = [posts EXCEPT ![p] = IF posts[p].step = "left" THEN NoPost
                                                                  ELSE [posts[p] EXCEPT !.step = "accepted"]]
        /\ UNCHANGED <<seen, refresh, ticket, wires, sheets>>
    BY <1>1, <1>4 DEF Accepted
  <2>2. PICK y : y = IF posts[p].step = "left" THEN NoPost ELSE [posts[p] EXCEPT !.step = "accepted"]
    OBVIOUS
  <2>3. y \in PostRow /\ y.step \in {None, "accepted"} /\ (posts[p].step = "sent" => y.step = "accepted")
    BY <1>1, <2>2, BlankTicketParts DEF PostRow
  <2>4. posts' \in [Posts -> PostRow] /\ posts'[p] = y /\ \A q \in Posts : q # p => posts'[q] = posts[q]
    BY <1>1, <2>1, <2>2, <2>3
  <2>5. posts[p].option \in Options
    BY <1>1, <2>1 DEF PostRow
  <2>6. server' \in PlaceRow /\ server'.option # NoOption /\ server'.phase = server.phase
    BY <2>1, <2>5, MovedFacts, TicketConstants
  <2>7. \A q \in Posts : posts'[q].step \in {"sent", "left"} => posts'[q].option # NoOption
    BY <1>1, <2>3, <2>4 DEF None
  <2>8. \A q \in Posts : posts[q].step \in {"sent", "accepted"} => posts'[q].step \in {"sent", "accepted"}
    BY <2>1, <2>3, <2>4
  <2> QED BY <2>1, <2>4, <2>6, <2>7, <2>8, ServerMoves DEF Accepting
<1> QED BY <1>2, <1>3, <1>4

\* The market is asked for, read, and shown.
LEMMA MarketIsRead ==
  ASSUME TicketInv, ReadMarket \/ ReadAgain
  PROVE  TicketInv'
<1>1. UNCHANGED <<server, seen, ticket, wires, sheets, posts>>
  BY DEF ReadMarket, ReadAgain
<1>2. ViewerPosition \in ViewRow
  BY ViewTyped DEF TicketInv, TicketTyped
<1>3. refresh' = <<"asked">> \/ refresh' = <<"read", ViewerPosition>>
  BY DEF ReadMarket, ReadAgain, Ask
<1>4. TicketTyped'
  BY <1>1, <1>2, <1>3 DEF TicketInv, TicketTyped
<1>5. ReadingSound(ViewerPosition)
  BY ViewOfTheServer DEF ReadingSound, TicketInv, ViewSound, ViewerPosition, Accepting
<1>6. (\A view \in ViewRow : refresh = <<"read", view>> => ReadingSound(view))'
  <2> SUFFICES ASSUME NEW view \in ViewRow, refresh' = <<"read", view>> PROVE ReadingSound(view)'
    OBVIOUS
  <2>1. view = ViewerPosition
    BY <1>3
  <2>2. ReadingSound(view)
    BY <1>5, <2>1
  <2> QED BY <1>1, <2>2 DEF ReadingSound, ViewSound, Accepting
<1>7. /\ (\A w \in Wires : WireSound(wires[w]))' /\ ViewSound(seen)'
      /\ (\A p \in Posts : posts[p].step \in {"sent", "left"} => posts[p].option # NoOption)'
      /\ PanelComing' /\ SheetSendsWhatItShows' /\ FiguresOfTheSheet' /\ PanelOfTheSelection' /\ ButtonComesBack'
  BY <1>1 DEF TicketInv, WireSound, ViewSound, Accepting, PanelComing, SheetSendsWhatItShows, FiguresOfTheSheet,
         PanelOfTheSelection, ButtonComesBack, PreviewIsCurrent, Submission, Selected, StakeOf, HasPosition
<1> QED BY <1>4, <1>6, <1>7 DEF TicketInv

LEMMA SyncedFacts ==
  ASSUME TicketInv, NEW view \in ViewRow
  PROVE  /\ Synced(view) \in TicketRow
         /\ Synced(view).expanded \in {None, Synced(view).action}
         /\ Synced(view).id = ticket.id /\ Synced(view).busy = ticket.busy
         /\ \/ Synced(view) = ticket
                 /\ \/ view.option = NoOption
                    \/ view.option = seen.option /\ view.raise = seen.raise /\ view.switch = seen.switch
            \/ /\ Synced(view).desk = NoPreview /\ ~Synced(view).loading
               /\ Synced(view).action = "revision" => Synced(view).option = NoOption
               /\ view # seen
<1>1. ticket \in TicketRow /\ ticket.expanded \in {None, ticket.action}
  BY DEF TicketInv, TicketTyped
<1>2. PICK d \in TicketRow : d = Defaults(ticket, view)
  BY <1>1, DefaultsFacts
<1>3. CASE /\ <<view.option, view.raise, view.switch>> # <<seen.option, seen.raise, seen.switch>>
           /\ view.option # NoOption
  <2>1. Synced(view) = [d EXCEPT !.preview = NoPreview, !.desk = NoPreview, !.loading = FALSE]
    BY <1>2, <1>3 DEF Synced
  <2>2. d.expanded = None /\ d.id = ticket.id /\ d.busy = ticket.busy
        /\ (d.action = "revision" => d.option = NoOption)
    BY <1>1, <1>2, <1>3, DefaultsFacts
  <2> QED BY <1>2, <1>3, <2>1, <2>2, BlankTicketParts DEF TicketRow
<1>4. CASE ~(/\ <<view.option, view.raise, view.switch>> # <<seen.option, seen.raise, seen.switch>>
             /\ view.option # NoOption)
  <2>1. Synced(view) = ticket
    BY <1>4 DEF Synced
  <2> QED BY <1>1, <1>4, <2>1
<1> QED BY <1>3, <1>4

LEMMA MarketIsShown ==
  ASSUME TicketInv, MarketShown
  PROVE  TicketInv'
<1>1. PICK view \in ViewRow : refresh = <<"read", view>>
  BY DEF MarketShown, TicketInv, TicketTyped
<1>2. /\ seen' = view /\ ticket' = Synced(view) /\ refresh' = <<>>
      /\ sheets' = [i \in DOMAIN sheets |-> [sheets[i] EXCEPT !.overtaken = @ \/ view # seen]]
      /\ UNCHANGED <<server, wires, posts>>
  BY <1>1 DEF MarketShown
<1>3. ReadingSound(view)
  BY <1>1 DEF TicketInv
<1>4. /\ ticket' \in TicketRow /\ ticket'.expanded \in {None, ticket'.action}
      /\ ticket'.id = ticket.id /\ ticket'.busy = ticket.busy
      /\ \/ ticket' = ticket
              /\ \/ view.option = NoOption
                 \/ view.option = seen.option /\ view.raise = seen.raise /\ view.switch = seen.switch
         \/ /\ ticket'.desk = NoPreview /\ ~ticket'.loading
            /\ ticket'.action = "revision" => ticket'.option = NoOption
            /\ view # seen
  BY <1>2, SyncedFacts
<1>5. sheets \in Seq(SheetRow) /\ DOMAIN sheets = 1..Len(sheets) /\ Len(sheets) \in Nat
  BY TicketTypedFacts
<1>6. \A i \in DOMAIN sheets : /\ sheets'[i] \in SheetRow /\ sheets'[i].action = sheets[i].action
                               /\ sheets'[i].option = sheets[i].option /\ sheets'[i].stake = sheets[i].stake
                               /\ sheets'[i].preview = sheets[i].preview
                               /\ ~sheets'[i].overtaken => ~sheets[i].overtaken /\ view = seen
  <2> SUFFICES ASSUME NEW i \in DOMAIN sheets
               PROVE  /\ sheets'[i] \in SheetRow /\ sheets'[i].action = sheets[i].action
                      /\ sheets'[i].option = sheets[i].option /\ sheets'[i].stake = sheets[i].stake
                      /\ sheets'[i].preview = sheets[i].preview
                      /\ ~sheets'[i].overtaken => ~sheets[i].overtaken /\ view = seen
    OBVIOUS
  <2>1. sheets[i] \in SheetRow
    BY <1>5
  <2>2. PICK b \in BOOLEAN : b <=> (sheets[i].overtaken \/ view # seen)
    OBVIOUS
  <2>3. sheets'[i] = [sheets[i] EXCEPT !.overtaken = b]
    BY <1>2, <2>1, <2>2 DEF SheetRow
  <2> QED BY <2>1, <2>2, <2>3 DEF SheetRow
<1>7. sheets' \in Seq(SheetRow) /\ Len(sheets') = Len(sheets) /\ DOMAIN sheets' = DOMAIN sheets
  <2>1. sheets' = [i \in 1..Len(sheets) |-> sheets'[i]]
    BY <1>2, <1>5
  <2>2. \A i \in 1..Len(sheets) : sheets'[i] \in SheetRow
    BY <1>5, <1>6
  <2> QED BY <1>5, <2>1, <2>2
<1>8. TicketTyped'
  BY <1>2, <1>4, <1>7 DEF TicketInv, TicketTyped
<1>9. (\A w \in Wires : WireSound(wires[w]))'
  BY <1>2, <1>4 DEF TicketInv, WireSound
<1>10. ViewSound(seen)'
  BY <1>2, <1>3 DEF ReadingSound, ViewSound, Accepting
<1>11. (\A v \in ViewRow : refresh = <<"read", v>> => ReadingSound(v))'
  BY <1>2
<1>12. (\A p \in Posts : posts[p].step \in {"sent", "left"} => posts[p].option # NoOption)'
  BY <1>2 DEF TicketInv
<1>13. PanelComing'
  <2> SUFFICES ASSUME ticket'.loading, view.open
               PROVE  ticket'.timer \/ \E w \in Wires : wires'[w].kind = "panel" /\ PreviewIsCurrent(wires[w])'
    BY <1>2 DEF PanelComing
  <2>1. ticket' = ticket /\ seen.open /\ view.option = seen.option
    BY <1>3, <1>4 DEF ReadingSound
  <2>2. ticket.timer \/ \E w \in Wires : wires[w].kind = "panel" /\ PreviewIsCurrent(wires[w])
    BY <2>1 DEF TicketInv, PanelComing
  <2>3. \A w \in Wires : PreviewIsCurrent(wires[w]) => PreviewIsCurrent(wires[w])'
    BY <1>2, <2>1 DEF PreviewIsCurrent, Selected, StakeOf, HasPosition
  <2> QED BY <1>2, <2>1, <2>2, <2>3
<1>14. SheetSendsWhatItShows'
  <2> SUFFICES ASSUME NEW i \in DOMAIN sheets', ~sheets'[i].overtaken
               PROVE  Submission(sheets[i])' = [action |-> sheets'[i].action, option |-> sheets'[i].option,
                                                stake |-> sheets'[i].stake]
    BY DEF SheetSendsWhatItShows
  <2>1. i \in DOMAIN sheets /\ ~sheets[i].overtaken /\ view = seen
    BY <1>6, <1>7
  <2>2. seen' = seen /\ ticket' = ticket
    BY <1>2, <1>4, <2>1
  <2>3. Submission(sheets[i]) = [action |-> sheets[i].action, option |-> sheets[i].option,
                                 stake |-> sheets[i].stake]
    BY <2>1 DEF TicketInv, SheetSendsWhatItShows
  <2>4. Submission(sheets[i])' = Submission(sheets[i])
    BY <1>6, <2>1, <2>2 DEF Submission, StakeOf, HasPosition
  <2> QED BY <1>6, <2>1, <2>3, <2>4
<1>15. FiguresOfTheSheet'
  BY <1>6, <1>7 DEF TicketInv, FiguresOfTheSheet
<1>16. PanelOfTheSelection'
  <2> SUFFICES ASSUME view.option # NoOption, ticket'.desk # NoPreview
               PROVE  Matches(ticket.desk, ticket.action, Selected(ticket), StakeOf(ticket))'
    BY <1>2 DEF PanelOfTheSelection, HasPosition
  <2>1. ticket' = ticket /\ view.option = seen.option
    BY <1>4
  <2>2. Matches(ticket.desk, ticket.action, Selected(ticket), StakeOf(ticket))
    BY <2>1 DEF TicketInv, PanelOfTheSelection, HasPosition
  <2> QED BY <1>2, <2>1, <2>2 DEF Matches, Selected, StakeOf, HasPosition
<1>17. ButtonComesBack'
  BY <1>2, <1>4 DEF TicketInv, ButtonComesBack
<1> QED BY <1>8, <1>9, <1>10, <1>11, <1>12, <1>13, <1>14, <1>15, <1>16, <1>17 DEF TicketInv

LEMMA TicketReopens ==
  ASSUME TicketInv, Reopen
  PROVE  TicketInv'
<1>1. /\ sheets = <<>> /\ refresh' = <<"asked">> /\ UNCHANGED <<server, seen, sheets>>
      /\ wires' = [w \in Wires |-> NoWire]
      /\ posts' = [p \in Posts |-> IF posts[p].step = "sent" THEN [posts[p] EXCEPT !.step = "left"] ELSE NoPost]
  BY DEF Reopen, Ask
<1>2. PICK blank \in TicketRow :
        /\ blank = BlankTicket(ticket.stake) /\ blank.desk = NoPreview /\ ~blank.busy
        /\ ~blank.loading /\ blank.expanded = None
  <2>1. ticket.stake \in Stakes
    BY TicketTypedFacts
  <2> QED BY <2>1, BlankTicketTyped
<1>3. PICK b \in TicketRow : /\ b = [blank EXCEPT !.id = ticket.id]
        /\ b.desk = NoPreview /\ ~b.busy /\ ~b.loading /\ b.id = ticket.id /\ b.expanded = None
  <2>1. ticket.id \in Nat
    BY TicketTypedFacts
  <2>2. PICK b : b = [blank EXCEPT !.id = ticket.id]
    OBVIOUS
  <2>3. /\ b \in TicketRow /\ b.desk = NoPreview /\ ~b.busy /\ ~b.loading /\ b.id = ticket.id
        /\ b.expanded = None
    BY <1>2, <2>1, <2>2 DEF TicketRow
  <2> QED BY <2>2, <2>3
<1>4. ticket' = Defaults(b, seen)
  BY <1>2, <1>3 DEF Reopen
<1>5. /\ ticket' \in TicketRow /\ ticket'.desk = NoPreview /\ ~ticket'.busy /\ ~ticket'.loading
      /\ ticket'.expanded = None
  BY <1>3, <1>4, DefaultsFacts, TicketTypedFacts
<1>6. \A p \in Posts : posts'[p] \in PostRow
         /\ (posts'[p].step \in {"sent", "left"} => posts'[p].option # NoOption)
  <2> SUFFICES ASSUME NEW p \in Posts
               PROVE  posts'[p] \in PostRow /\ (posts'[p].step \in {"sent", "left"} => posts'[p].option # NoOption)
    OBVIOUS
  <2>1. posts[p] \in PostRow /\ (posts[p].step \in {"sent", "left"} => posts[p].option # NoOption)
    BY DEF TicketInv, TicketTyped
  <2>2. CASE posts[p].step = "sent"
    <3>1. posts'[p] = [posts[p] EXCEPT !.step = "left"]
      BY <1>1, <2>2
    <3> QED BY <2>1, <2>2, <3>1 DEF PostRow
  <2>3. CASE posts[p].step # "sent"
    <3>1. posts'[p] = NoPost
      BY <1>1, <2>3
    <3> QED BY <3>1, BlankTicketParts DEF None
  <2> QED BY <2>2, <2>3
<1>7. TicketTyped'
  <2>1. posts' \in [Posts -> PostRow]
    BY <1>1, <1>6
  <2> QED BY <1>1, <1>5, <2>1, BlankTicketParts DEF TicketInv, TicketTyped
<1>8. (\A w \in Wires : WireSound(wires[w]))'
  BY <1>1 DEF WireSound
<1>9. ViewSound(seen)' /\ (\A view \in ViewRow : refresh = <<"read", view>> => ReadingSound(view))'
  BY <1>1, ReadingKept
<1>10. PanelComing' /\ PanelOfTheSelection' /\ ButtonComesBack'
  BY <1>5 DEF PanelComing, PanelOfTheSelection, ButtonComesBack
<1>11. SheetSendsWhatItShows' /\ FiguresOfTheSheet'
  BY <1>1 DEF SheetSendsWhatItShows, FiguresOfTheSheet
<1> QED BY <1>6, <1>7, <1>8, <1>9, <1>10, <1>11 DEF TicketInv

\* The person's touches: a new preview number, and nothing on the panel of a
\* position.
LEMMA TicketTouched ==
  ASSUME TicketInv, sheets = <<>>, NEW t \in TicketRow, ticket' = t,
         UNCHANGED <<server, seen, refresh, wires, sheets, posts>>,
         t.id > ticket.id, t.expanded \in {None, t.action}, t.busy = ticket.busy, t.loading => t.timer,
         HasPosition => t.desk = NoPreview
  PROVE  TicketInv'
<1>1. TicketTyped'
  BY DEF TicketInv, TicketTyped
<1>2. ticket.id \in Nat /\ t.id \in Nat
  BY TicketTypedFacts DEF TicketRow
<1>3. (\A w \in Wires : WireSound(wires[w]))'
  <2> SUFFICES ASSUME NEW w \in Wires PROVE WireSound(wires[w])'
    OBVIOUS
  <2>1. WireSound(wires[w]) /\ wires[w].id \in Nat
    BY TicketTypedFacts DEF TicketInv, WireRow
  <2>2. wires[w] # NoWire => wires[w].id <= t.id /\ wires[w].id # t.id
    BY <1>2, <2>1 DEF WireSound
  <2> QED BY <2>1, <2>2 DEF WireSound
<1>4. ViewSound(seen)' /\ (\A view \in ViewRow : refresh = <<"read", view>> => ReadingSound(view))'
  BY ReadingKept
<1>5. (\A p \in Posts : posts[p].step \in {"sent", "left"} => posts[p].option # NoOption)'
  BY DEF TicketInv
<1>6. PanelComing' /\ PanelOfTheSelection'
  BY DEF PanelComing, PanelOfTheSelection, HasPosition
<1>7. SheetSendsWhatItShows' /\ FiguresOfTheSheet'
  BY DEF SheetSendsWhatItShows, FiguresOfTheSheet
<1>8. ButtonComesBack'
  BY DEF TicketInv, ButtonComesBack
<1> QED BY <1>1, <1>3, <1>4, <1>5, <1>6, <1>7, <1>8 DEF TicketInv

LEMMA ScheduledFacts ==
  ASSUME TicketInv, NEW t \in TicketRow
  PROVE  /\ Scheduled(t) \in TicketRow /\ Scheduled(t).id = t.id + 1
         /\ Scheduled(t).loading => Scheduled(t).timer
         /\ Scheduled(t).action = t.action /\ Scheduled(t).expanded = t.expanded
         /\ Scheduled(t).desk = t.desk /\ Scheduled(t).busy = t.busy
<1>1. PICK n \in Nat : n = t.id + 1
  BY DEF TicketRow
<1>2. PICK b \in BOOLEAN : Scheduled(t) = [t EXCEPT !.id = n, !.timer = b, !.loading = b]
  <2>1. seen.raise \in BOOLEAN /\ seen.switch \in BOOLEAN
    BY TicketTypedFacts DEF ViewRow
  <2>2. Offered(t) \in BOOLEAN
    BY <2>1 DEF Offered
  <2>3. PICK b \in BOOLEAN : b = (/\ ~(HasPosition /\ t.expanded = None) /\ Selected(t) # NoOption /\ Offered(t))
    BY <2>2
  <2>4. Scheduled(t) = [t EXCEPT !.id = n, !.timer = b, !.loading = b]
    BY <1>1, <2>3 DEF Scheduled
  <2> QED BY <2>4
<1> QED BY <1>1, <1>2 DEF TicketRow

LEMMA TouchSteps ==
  ASSUME TicketInv,
         \/ \E o \in Options : SelectOption(o)
         \/ \E s \in Stakes : SetStake(s)
         \/ \E a \in Deeds : SelectAction(a)
  PROVE  TicketInv'
<1>1. ticket \in TicketRow /\ ticket.expanded \in {None, ticket.action} /\ ticket.id \in Nat
      /\ seen.option \in Options \cup {NoOption}
  BY TicketTypedFacts DEF TicketTyped
<1>2. ASSUME NEW t \in TicketRow, t.id = ticket.id, t.expanded = ticket.expanded, t.action = ticket.action,
             t.busy = ticket.busy, HasPosition => t.desk = NoPreview, Touch(Scheduled(t))
      PROVE  TicketInv'
  <2>1. PICK u \in TicketRow : u = Scheduled(t)
    BY ScheduledFacts
  <2>2. /\ u.id > ticket.id /\ u.expanded \in {None, u.action} /\ u.busy = ticket.busy
        /\ u.loading => u.timer
        /\ HasPosition => u.desk = NoPreview
    BY <1>1, <1>2, <2>1, ScheduledFacts
  <2> QED BY <1>2, <2>1, <2>2, TicketTouched DEF Touch
<1>3. ASSUME NEW o \in Options, SelectOption(o) PROVE TicketInv'
  <2>1. CASE ~HasPosition /\ Touch(Scheduled([ticket EXCEPT !.option = o, !.preview = NoPreview]))
    <3>1. PICK t \in TicketRow : t = [ticket EXCEPT !.option = o, !.preview = NoPreview]
      BY <1>1, BlankTicketParts DEF TicketRow
    <3>2. t.id = ticket.id /\ t.expanded = ticket.expanded /\ t.action = ticket.action /\ t.busy = ticket.busy
      BY <1>1, <3>1 DEF TicketRow
    <3> QED BY <1>2, <2>1, <3>1, <3>2
  <2>2. CASE HasPosition /\ Touch(Scheduled([ticket EXCEPT !.option = o, !.desk = NoPreview]))
    <3>1. PICK t \in TicketRow : t = [ticket EXCEPT !.option = o, !.desk = NoPreview]
      BY <1>1, BlankTicketParts DEF TicketRow
    <3>2. t.id = ticket.id /\ t.expanded = ticket.expanded /\ t.action = ticket.action /\ t.busy = ticket.busy
          /\ t.desk = NoPreview
      BY <1>1, <3>1 DEF TicketRow
    <3> QED BY <1>2, <2>2, <3>1, <3>2
  <2> QED BY <1>3, <2>1, <2>2 DEF SelectOption
<1>4. ASSUME NEW s \in Stakes, SetStake(s) PROVE TicketInv'
  <2>1. Touch(Scheduled([ticket EXCEPT !.stake = s, !.preview = NoPreview, !.desk = NoPreview]))
    BY <1>4 DEF SetStake
  <2>2. PICK t \in TicketRow : t = [ticket EXCEPT !.stake = s, !.preview = NoPreview, !.desk = NoPreview]
    BY <1>1, BlankTicketParts DEF TicketRow
  <2>3. t.id = ticket.id /\ t.expanded = ticket.expanded /\ t.action = ticket.action /\ t.busy = ticket.busy
        /\ t.desk = NoPreview
    BY <1>1, <2>2 DEF TicketRow
  <2> QED BY <1>2, <2>1, <2>2, <2>3
<1>5. ASSUME NEW a \in Deeds, SelectAction(a) PROVE TicketInv'
  <2>1. PICK n \in Nat : n = ticket.id + 1 /\ n > ticket.id
    BY <1>1
  <2> DEFINE calm == [ticket EXCEPT !.id = n, !.timer = FALSE, !.desk = NoPreview, !.loading = FALSE]
  <2>1a. /\ calm \in TicketRow /\ calm.id = n /\ calm.desk = NoPreview /\ ~calm.loading
        /\ calm.busy = ticket.busy
    BY <1>1, <2>1, BlankTicketParts DEF TicketRow
  <2>2. PICK still \in TicketRow :
          /\ still = calm
          /\ still.id = n /\ still.desk = NoPreview /\ ~still.loading /\ still.busy = ticket.busy
    <3> HIDE DEF calm
    <3> QED BY <2>1a
  <2>3. PICK option \in Options \cup {NoOption} : option = IF a = "reinforcement" THEN seen.option ELSE NoOption
    BY <1>1
  <2>4. \/ Touch([still EXCEPT !.expanded = None])
        \/ Touch([still EXCEPT !.expanded = a, !.action = a, !.option = option])
    BY <1>5, <2>1, <2>2, <2>3 DEF SelectAction
  <2>5. PICK t \in TicketRow : /\ Touch(t) /\ t.expanded \in {None, t.action}
                               /\ t.id = n /\ t.desk = NoPreview /\ ~t.loading /\ t.busy = ticket.busy
    <3>1. CASE Touch([still EXCEPT !.expanded = None])
      <4>1. PICK t : t = [still EXCEPT !.expanded = None]
        OBVIOUS
      <4>2. /\ t \in TicketRow /\ t.expanded = None /\ t.id = n /\ t.desk = NoPreview /\ ~t.loading
            /\ t.busy = ticket.busy
        BY <2>2, <4>1 DEF TicketRow
      <4> QED BY <3>1, <4>1, <4>2
    <3>2. CASE Touch([still EXCEPT !.expanded = a, !.action = a, !.option = option])
      <4>1. PICK t : t = [still EXCEPT !.expanded = a, !.action = a, !.option = option]
        OBVIOUS
      <4>2. /\ t \in TicketRow /\ t.expanded = a /\ t.action = a
            /\ t.id = n /\ t.desk = NoPreview /\ ~t.loading /\ t.busy = ticket.busy
        BY <2>2, <2>3, <4>1 DEF TicketRow
      <4> QED BY <3>2, <4>1, <4>2
    <3> QED BY <2>4, <3>1, <3>2
  <2> QED BY <2>1, <2>5, TicketTouched DEF Touch
<1> QED BY <1>3, <1>4, <1>5

-----------------------------------------------------------------------------
(* The ticket: previews, sheets and submissions.                           *)

\* A preview that is sent is of the selection.
LEMMA SentIsSound ==
  ASSUME TicketInv, Steady, NEW kind \in {"press", "desk", "panel"}, NEW action,
         Sent(kind, action), Selected(ticket) # NoOption,
         kind = "press" => action = "initial",
         kind = "desk" => HasPosition /\ action = ticket.action,
         kind = "panel" => action = FormAction
  PROVE  /\ wires' \in [Wires -> WireRow] /\ (\A w \in Wires : WireSound(wires[w]))'
         /\ \A w \in Wires : wires[w] # NoWire => wires'[w] = wires[w]
         /\ \E w \in Wires : wires'[w].kind = kind /\ PreviewIsCurrent(wires[w])'
<1>1. PICK w \in Wires :
        /\ wires[w] = NoWire
        /\ wires' = [wires EXCEPT ![w] =
             [kind |-> kind, id |-> ticket.id, action |-> action, option |-> Selected(ticket),
              stake |-> StakeOf(ticket)]]
  BY DEF Sent
<1>2. PICK x : x = [kind |-> kind, id |-> ticket.id, action |-> action, option |-> Selected(ticket),
                    stake |-> StakeOf(ticket)]
  OBVIOUS
<1>3. /\ x.kind = kind /\ x.id = ticket.id /\ x.action = action /\ x.option = Selected(ticket)
      /\ x.stake = StakeOf(ticket)
  BY <1>2
<1>4. action \in Deeds \cup {"initial"} /\ (action \in Deeds => HasPosition /\ action = ticket.action)
  BY TicketTypedFacts DEF FormAction, Deeds
<1>5. x \in WireRow
  BY <1>2, <1>4, TicketTypedFacts DEF WireRow, AnyAction
<1>6. wires' \in [Wires -> WireRow] /\ wires'[w] = x /\ \A v \in Wires : v # w => wires'[v] = wires[v]
  BY <1>1, <1>2, <1>5, TicketTypedFacts
<1>7. kind # None /\ (kind = "desk" => action \in Deeds)
  BY <1>4, TicketTypedFacts DEF None
<1>8. action \in Deeds => (action = "revision" <=> StakeOf(ticket) = 0)
  BY <1>4, TicketTypedFacts
<1>9. action = "reinforcement" => ticket.action = "reinforcement"
  BY <1>4 DEF Deeds
<1>10. \A v \in Wires : WireSound(wires[v])'
  <2> SUFFICES ASSUME NEW v \in Wires PROVE WireSound(wires[v])'
    OBVIOUS
  <2>1. CASE v = w
    <3>1. ticket'.id = ticket.id /\ ticket'.action = ticket.action /\ ticket.id <= ticket.id
      BY TicketTypedFacts DEF Steady
    <3>2. wires'[v] = x
      BY <1>6, <2>1
    <3> QED BY <1>3, <1>4, <1>7, <1>8, <1>9, <3>1, <3>2 DEF WireSound
  <2>2. CASE v # w
    <3>1. WireSound(wires[v]) /\ wires'[v] = wires[v]
      BY <1>6, <2>2 DEF TicketInv
    <3> QED BY <3>1 DEF WireSound, Steady
  <2> QED BY <2>1, <2>2
<1>11. PreviewIsCurrent(wires[w])'
  BY <1>3, <1>6, SteadySelection DEF PreviewIsCurrent, Steady
<1>12. \A v \in Wires : wires[v] # NoWire => wires'[v] = wires[v]
  BY <1>1, <1>6
<1> QED BY <1>3, <1>6, <1>10, <1>11, <1>12

\* A sheet that opens shows what confirming it would send.
LEMMA SheetOpens ==
  ASSUME TicketInv, Steady, NEW s \in SheetRow, Open(s),
         Submission(s) = [action |-> s.action, option |-> s.option, stake |-> s.stake],
         s.action # "initial" => Matches(s.preview, s.action, s.option, s.stake)
  PROVE  /\ sheets' \in Seq(SheetRow) /\ Len(sheets') <= MaxSheets
         /\ SheetSendsWhatItShows' /\ FiguresOfTheSheet'
<1>1. sheets \in Seq(SheetRow) /\ Len(sheets) \in Nat /\ DOMAIN sheets = 1..Len(sheets)
  BY TicketTypedFacts
<1>2. sheets' = Append(sheets, s) /\ Len(sheets) < MaxSheets
  BY DEF Open
<1>3. /\ sheets' \in Seq(SheetRow) /\ Len(sheets') = Len(sheets) + 1 /\ DOMAIN sheets' = 1..Len(sheets')
      /\ \A i \in 1..Len(sheets) : sheets'[i] = sheets[i]
      /\ sheets'[Len(sheets) + 1] = s
  BY <1>1, <1>2
<1>4. \A i \in DOMAIN sheets' : sheets'[i] = s \/ (i \in DOMAIN sheets /\ sheets'[i] = sheets[i])
  BY <1>1, <1>3
<1>5. \A sheet : Submission(sheet)' = Submission(sheet)
  BY SteadySelection DEF Submission, Steady
<1>6. SheetSendsWhatItShows'
  <2> SUFFICES ASSUME NEW i \in DOMAIN sheets', ~sheets'[i].overtaken
               PROVE  Submission(sheets[i])' = [action |-> sheets'[i].action, option |-> sheets'[i].option,
                                                stake |-> sheets'[i].stake]
    BY DEF SheetSendsWhatItShows
  <2>1. PICK sheet : sheet = sheets'[i]
    OBVIOUS
  <2>2. Submission(sheet) = [action |-> sheet.action, option |-> sheet.option, stake |-> sheet.stake]
    BY <1>4, <2>1 DEF TicketInv, SheetSendsWhatItShows
  <2>3. Submission(sheet)' = Submission(sheet)
    BY <1>5
  <2> QED BY <2>1, <2>2, <2>3 DEF Submission
<1>7. FiguresOfTheSheet'
  BY <1>4 DEF TicketInv, FiguresOfTheSheet
<1> QED BY <1>1, <1>2, <1>3, <1>6, <1>7, TicketConstants

\* A preview that answers the ticket is of the action it shows.
LEMMA DeedOfNow ==
  ASSUME TicketInv, NEW w \in Wires, wires[w] # NoWire, PreviewIsCurrent(wires[w]), wires[w].action \in Deeds
  PROVE  wires[w].action = ticket.action
<1>1. WireSound(wires[w])
  BY DEF TicketInv
<1>2. wires[w].option = Selected(ticket) /\ wires[w].stake = StakeOf(ticket) /\ wires[w].id = ticket.id
  BY DEF PreviewIsCurrent
<1>3. wires[w].action = "revision" <=> HasPosition /\ ticket.action = "revision"
  BY <1>1, <1>2, TicketTypedFacts DEF WireSound
<1>4. CASE HasPosition
  BY <1>3, <1>4, TicketTypedFacts DEF Deeds
<1>5. CASE ~HasPosition
  <2>1. wires[w].action = "reinforcement"
    BY <1>3, <1>5 DEF Deeds
  <2>2. Selected(ticket) = ticket.option /\ Selected(ticket) # NoOption
    BY <1>1, <1>2, <1>5 DEF WireSound, Selected
  <2>3. ticket.action # "revision"
    BY <1>1, <1>2, <2>1, <2>2 DEF WireSound
  <2> QED BY <2>1, <2>3, TicketTypedFacts DEF Deeds
<1> QED BY <1>4, <1>5

\* A step that keeps the selection, part by part.
LEMMA SteadyJoins ==
  ASSUME TicketInv, Steady, refresh' \in {refresh, <<>>, <<"asked">>},
         wires' \in [Wires -> WireRow], (\A w \in Wires : WireSound(wires[w]))',
         posts' \in [Posts -> PostRow],
         (\A p \in Posts : posts[p].step \in {"sent", "left"} => posts[p].option # NoOption)',
         sheets' \in Seq(SheetRow), Len(sheets') <= MaxSheets, SheetSendsWhatItShows', FiguresOfTheSheet',
         PanelComing', PanelOfTheSelection', ButtonComesBack'
  PROVE  TicketInv'
<1>1. \/ refresh' = <<>> \/ refresh' = <<"asked">> \/ \E view \in ViewRow : refresh' = <<"read", view>>
  BY DEF TicketInv, TicketTyped
<1>2. server' \in PlaceRow /\ seen' \in ViewRow /\ ticket' \in TicketRow /\ ticket'.expanded \in {None, ticket'.action}
  BY DEF Steady, TicketInv, TicketTyped
<1>3. TicketTyped'
  BY <1>1, <1>2 DEF TicketTyped
<1>4. ViewSound(seen)' /\ (\A view \in ViewRow : refresh = <<"read", view>> => ReadingSound(view))'
  BY ReadingKept DEF Steady
<1> QED BY <1>3, <1>4 DEF TicketInv

LEMMA PostsKept ==
  ASSUME TicketInv, posts' = posts
  PROVE  /\ posts' \in [Posts -> PostRow]
         /\ (\A p \in Posts : posts[p].step \in {"sent", "left"} => posts[p].option # NoOption)'
BY DEF TicketInv, TicketTyped

LEMMA PreviewIsAsked ==
  ASSUME TicketInv, DebounceOver
  PROVE  TicketInv'
<1>1. /\ ticket.timer /\ UNCHANGED <<server, seen, refresh, sheets, posts>>
      /\ \/ /\ Selected(ticket) = NoOption /\ wires' = wires
            /\ ticket' = [ticket EXCEPT !.timer = FALSE, !.loading = FALSE]
         \/ /\ Selected(ticket) # NoOption /\ ticket' = [ticket EXCEPT !.timer = FALSE]
            /\ Sent("panel", FormAction)
  BY DEF DebounceOver
<1>2. Steady /\ ticket'.desk = ticket.desk /\ ticket'.busy = ticket.busy
  BY <1>1, TicketTypedFacts DEF Steady, TicketRow
<1>3. SheetSendsWhatItShows' /\ FiguresOfTheSheet' /\ sheets' \in Seq(SheetRow) /\ Len(sheets') <= MaxSheets
  BY <1>1, <1>2, SheetsKept
<1>4. PanelOfTheSelection'
  BY <1>2, PanelKept
<1>5. CASE Selected(ticket) = NoOption
  <2>1. wires' = wires /\ ~ticket'.loading
    BY <1>1, <1>5, TicketTypedFacts DEF TicketRow
  <2>2. PanelComing'
    BY <2>1 DEF PanelComing
  <2>3. ButtonComesBack'
    BY <1>1, <1>2, <2>1 DEF TicketInv, ButtonComesBack
  <2> QED BY <1>1, <1>2, <1>3, <1>4, <2>1, <2>2, <2>3, WiresKept, PostsKept, SteadyJoins
<1>6. CASE Selected(ticket) # NoOption
  <2>1. Sent("panel", FormAction)
    BY <1>1, <1>6
  <2>2. /\ wires' \in [Wires -> WireRow] /\ (\A w \in Wires : WireSound(wires[w]))'
        /\ \A w \in Wires : wires[w] # NoWire => wires'[w] = wires[w]
        /\ \E w \in Wires : wires'[w].kind = "panel" /\ PreviewIsCurrent(wires[w])'
    BY <1>2, <1>6, <2>1, SentIsSound
  <2>3. PanelComing'
    BY <2>2 DEF PanelComing
  <2>4. ButtonComesBack'
    <3>1. \A w \in Wires : wires[w].kind = "press" => wires'[w].kind = "press"
      BY <2>2, BlankTicketParts DEF None
    <3> QED BY <1>1, <1>2, <3>1 DEF TicketInv, ButtonComesBack
  <2> QED BY <1>1, <1>2, <1>3, <1>4, <2>2, <2>3, <2>4, PostsKept, SteadyJoins
<1> QED BY <1>5, <1>6

LEMMA ButtonIsPressed ==
  ASSUME TicketInv, Press
  PROVE  TicketInv'
<1>1. /\ sheets = <<>> /\ ~ticket.busy /\ Selected(ticket) # NoOption
      /\ UNCHANGED <<server, seen, refresh, posts>>
      /\ \/ /\ ~HasPosition /\ Sent("press", "initial") /\ sheets' = sheets
            /\ ticket' = [ticket EXCEPT !.busy = TRUE]
         \/ /\ HasPosition /\ ValidPreview /\ Open(SheetOf(ticket.action, ticket.desk))
            /\ wires' = wires /\ ticket' = ticket
         \/ /\ HasPosition /\ Sent("desk", ticket.action) /\ sheets' = sheets /\ ticket' = ticket
  BY DEF Press
<1>2. /\ Steady /\ ticket'.desk = ticket.desk /\ ticket'.loading = ticket.loading
      /\ ticket'.timer = ticket.timer
  BY <1>1, TicketTypedFacts DEF Steady, TicketRow
<1>3. PanelOfTheSelection'
  BY <1>2, PanelKept
<1>4. ASSUME NEW kind \in {"press", "desk"}, NEW action, Sent(kind, action), sheets' = sheets,
             kind = "press" => action = "initial",
             kind = "desk" => HasPosition /\ action = ticket.action /\ ticket' = ticket
      PROVE  TicketInv'
  <2>1. /\ wires' \in [Wires -> WireRow] /\ (\A w \in Wires : WireSound(wires[w]))'
        /\ \A w \in Wires : wires[w] # NoWire => wires'[w] = wires[w]
        /\ \E w \in Wires : wires'[w].kind = kind /\ PreviewIsCurrent(wires[w])'
    BY <1>1, <1>2, <1>4, SentIsSound
  <2>2. \A w \in Wires : wires[w].kind # None => wires'[w] = wires[w]
    BY <2>1, BlankTicketParts
  <2>3. PanelComing'
    BY <1>2, <2>2, ComingKept DEF None
  <2>4. ButtonComesBack'
    <3>1. CASE kind = "press"
      BY <2>1, <3>1 DEF ButtonComesBack
    <3>2. CASE kind = "desk"
      BY <1>1, <1>4, <3>2 DEF ButtonComesBack
    <3> QED BY <3>1, <3>2
  <2> QED BY <1>1, <1>2, <1>3, <1>4, <2>1, <2>3, <2>4, SheetsKept, PostsKept, SteadyJoins
<1>5. ASSUME HasPosition, ValidPreview, Open(SheetOf(ticket.action, ticket.desk)), wires' = wires, ticket' = ticket
      PROVE  TicketInv'
  <2>1. PICK s : s = SheetOf(ticket.action, ticket.desk)
    OBVIOUS
  <2>2. /\ s.action = ticket.action /\ s.option = Selected(ticket) /\ s.stake = StakeOf(ticket)
        /\ s.preview = ticket.desk /\ s.overtaken = FALSE
    BY <2>1 DEF SheetOf
  <2>3. s \in SheetRow
    <3>1. ticket.desk \in PreviewRow
      BY TicketTypedFacts DEF TicketRow
    <3> QED BY <2>1, <3>1, TicketTypedFacts DEF SheetOf, SheetRow
  <2>4. s.action # "initial"
    BY <2>2, TicketTypedFacts DEF Deeds
  <2>5. Submission(s) = [action |-> s.action, option |-> s.option, stake |-> s.stake]
    BY <2>2, <2>4 DEF Submission
  <2>6. Matches(s.preview, s.action, s.option, s.stake)
    BY <1>5, <2>2 DEF ValidPreview
  <2>7. /\ sheets' \in Seq(SheetRow) /\ Len(sheets') <= MaxSheets
        /\ SheetSendsWhatItShows' /\ FiguresOfTheSheet'
    BY <1>2, <1>5, <2>1, <2>3, <2>5, <2>6, SheetOpens
  <2>8. PanelComing'
    BY <1>2, <1>5, ComingKept
  <2>9. ButtonComesBack'
    BY <1>1, <1>5 DEF ButtonComesBack
  <2> QED BY <1>1, <1>2, <1>3, <1>5, <2>7, <2>8, <2>9, WiresKept, PostsKept, SteadyJoins
<1> QED BY <1>1, <1>4, <1>5

\* A preview's answer, or the loss of it.
LEMMA PreviewAnswered ==
  ASSUME TicketInv, NEW w \in Wires, NEW allowed \in BOOLEAN, PreviewArrives(w, allowed)
  PROVE  TicketInv'
<1> DEFINE x == wires[w]
<1>1. PICK p : p = [action |-> x.action, option |-> x.option, stake |-> x.stake, allowed |-> allowed]
  OBVIOUS
<1>2. /\ p.action = x.action /\ p.option = x.option /\ p.stake = x.stake
      /\ x # NoWire /\ wires' = [wires EXCEPT ![w] = NoWire] /\ UNCHANGED <<server, seen, refresh, posts>>
  BY <1>1 DEF PreviewArrives
<1>3. \/ /\ x.kind = "press" /\ ticket' = [ticket EXCEPT !.preview = p, !.busy = FALSE]
         /\ Open([SheetOf("initial", p) EXCEPT !.option = ticket.option, !.stake = ticket.stake])
      \/ x.kind # "press" /\ ~PreviewIsCurrent(x) /\ ticket' = ticket /\ sheets' = sheets
      \/ /\ x.kind # "press" /\ PreviewIsCurrent(x)
         /\ ticket' = [ticket EXCEPT !.preview = p, !.loading = FALSE] /\ sheets' = sheets
      \/ /\ x.kind # "press" /\ PreviewIsCurrent(x) /\ x.action # "initial"
         /\ ticket' = [ticket EXCEPT !.desk = p, !.loading = FALSE]
         /\ Open(SheetOf(ticket.action, p)) \/ sheets' = sheets
  BY <1>1 DEF PreviewArrives
<1>4. x \in WireRow /\ WireSound(x) /\ p \in PreviewRow
  <2>1. x \in WireRow /\ WireSound(x)
    BY TicketTypedFacts DEF TicketInv
  <2> QED BY <1>1, <2>1 DEF WireRow, PreviewRow
<1>5. /\ wires' \in [Wires -> WireRow] /\ wires'[w] = NoWire
      /\ \A v \in Wires : v # w => wires'[v] = wires[v]
  BY <1>2, TicketTypedFacts, BlankTicketParts
<1>6. CASE x.kind = "press"
  <2>1. ticket' = [ticket EXCEPT !.preview = p, !.busy = FALSE]
        /\ Open([SheetOf("initial", p) EXCEPT !.option = ticket.option, !.stake = ticket.stake])
    BY <1>3, <1>6
  <2>2. /\ Steady /\ ticket'.desk = ticket.desk /\ ticket'.loading = ticket.loading
        /\ ticket'.timer = ticket.timer /\ ~ticket'.busy
    BY <1>2, <1>4, <2>1, TicketTypedFacts DEF Steady, TicketRow
  <2>3. PICK s : s = [SheetOf("initial", p) EXCEPT !.option = ticket.option, !.stake = ticket.stake]
    OBVIOUS
  <2>4. /\ s.action = "initial" /\ s.option = ticket.option /\ s.stake = ticket.stake
        /\ s.preview = p /\ s.overtaken = FALSE
    BY <2>3 DEF SheetOf
  <2>5. s \in SheetRow
    BY <1>4, <2>3, TicketTypedFacts DEF SheetOf, SheetRow
  <2>6. Submission(s) = [action |-> s.action, option |-> s.option, stake |-> s.stake]
    BY <2>4 DEF Submission
  <2>7. /\ sheets' \in Seq(SheetRow) /\ Len(sheets') <= MaxSheets
        /\ SheetSendsWhatItShows' /\ FiguresOfTheSheet'
    BY <2>1, <2>2, <2>3, <2>4, <2>5, <2>6, SheetOpens
  <2>8. PanelComing'
    BY <1>5, <1>6, <2>2, ComingKept
  <2>9. PanelOfTheSelection' /\ ButtonComesBack'
    BY <2>2, PanelKept DEF ButtonComesBack
  <2> QED BY <1>2, <1>5, <2>2, <2>7, <2>8, <2>9, WiresKept, PostsKept, SteadyJoins
<1>7. CASE x.kind # "press"
  <2>1. \A v \in Wires : wires[v].kind = "press" => wires'[v].kind = "press"
    BY <1>5, <1>7
  <2>2. CASE ~PreviewIsCurrent(x) /\ ticket' = ticket /\ sheets' = sheets
    <3>1. Steady
      BY <1>2, <2>2, TicketTypedFacts DEF Steady
    <3>2. PanelComing'
      BY <1>5, <2>2, <3>1, ComingKept
    <3>3. PanelOfTheSelection' /\ ButtonComesBack'
      BY <1>2, <2>1, <2>2, <3>1, PanelKept DEF TicketInv, ButtonComesBack
    <3> QED BY <1>2, <1>5, <2>2, <3>1, <3>2, <3>3, WiresKept, SheetsKept, PostsKept, SteadyJoins
  <2>3. CASE /\ ticket' = [ticket EXCEPT !.preview = p, !.loading = FALSE] /\ sheets' = sheets
    <3>1. Steady /\ ticket'.desk = ticket.desk /\ ~ticket'.loading /\ ticket'.busy = ticket.busy
      BY <1>2, <1>4, <2>3, TicketTypedFacts DEF Steady, TicketRow
    <3>2. PanelComing' /\ PanelOfTheSelection'
      BY <3>1, PanelKept DEF PanelComing
    <3>3. ButtonComesBack'
      BY <1>2, <2>1, <3>1 DEF TicketInv, ButtonComesBack
    <3> QED BY <1>2, <1>5, <2>3, <3>1, <3>2, <3>3, WiresKept, SheetsKept, PostsKept, SteadyJoins
  <2>4. CASE /\ PreviewIsCurrent(x) /\ x.action # "initial"
             /\ ticket' = [ticket EXCEPT !.desk = p, !.loading = FALSE]
             /\ Open(SheetOf(ticket.action, p)) \/ sheets' = sheets
    <3>1. Steady /\ ticket'.desk = p /\ ~ticket'.loading /\ ticket'.busy = ticket.busy
      BY <1>2, <1>4, <2>4, TicketTypedFacts DEF Steady, TicketRow
    <3>2. x.action \in Deeds
      BY <1>2, <1>4, <1>7, <2>4 DEF WireSound, WireRow
    <3>3. x.action = ticket.action
      BY <1>2, <2>4, <3>2, DeedOfNow
    <3>4. Matches(p, ticket.action, Selected(ticket), StakeOf(ticket))
      BY <1>2, <2>4, <3>3 DEF PreviewIsCurrent, Matches
    <3>5. PanelOfTheSelection'
      BY <3>1, <3>4, SteadySelection DEF PanelOfTheSelection, Matches, Steady
    <3>6. PanelComing'
      BY <3>1 DEF PanelComing
    <3>7. ButtonComesBack'
      BY <1>2, <2>1, <3>1 DEF TicketInv, ButtonComesBack
    <3>8. CASE sheets' = sheets
      BY <1>2, <1>5, <3>1, <3>5, <3>6, <3>7, <3>8, WiresKept, SheetsKept, PostsKept, SteadyJoins
    <3>9. CASE Open(SheetOf(ticket.action, p))
      <4>1. PICK s : s = SheetOf(ticket.action, p)
        OBVIOUS
      <4>2. /\ s.action = ticket.action /\ s.option = Selected(ticket) /\ s.stake = StakeOf(ticket)
            /\ s.preview = p /\ s.overtaken = FALSE
        BY <4>1 DEF SheetOf
      <4>3. s \in SheetRow
        BY <1>4, <4>1, TicketTypedFacts DEF SheetOf, SheetRow
      <4>4. s.action # "initial"
        BY <4>2, TicketTypedFacts DEF Deeds
      <4>5. Submission(s) = [action |-> s.action, option |-> s.option, stake |-> s.stake]
        BY <4>2, <4>4 DEF Submission
      <4>6. Matches(s.preview, s.action, s.option, s.stake)
        BY <3>4, <4>2
      <4>7. /\ sheets' \in Seq(SheetRow) /\ Len(sheets') <= MaxSheets
            /\ SheetSendsWhatItShows' /\ FiguresOfTheSheet'
        BY <3>1, <3>9, <4>1, <4>3, <4>5, <4>6, SheetOpens
      <4> QED BY <1>2, <1>5, <3>1, <3>5, <3>6, <3>7, <4>7, WiresKept, PostsKept, SteadyJoins
    <3> QED BY <2>4, <3>8, <3>9
  <2> QED BY <1>3, <1>7, <2>2, <2>3, <2>4
<1> QED BY <1>6, <1>7

LEMMA PreviewLost ==
  ASSUME TicketInv, NEW w \in Wires, PreviewFails(w)
  PROVE  TicketInv'
<1> DEFINE x == wires[w]
<1>1. /\ x # NoWire /\ wires' = [wires EXCEPT ![w] = NoWire] /\ UNCHANGED <<server, seen, refresh, sheets, posts>>
      /\ \/ x.kind = "press" /\ ticket' = [ticket EXCEPT !.busy = FALSE]
         \/ x.kind # "press" /\ x.id = ticket.id /\ ticket' = [ticket EXCEPT !.busy = FALSE, !.loading = FALSE]
         \/ x.kind # "press" /\ x.id # ticket.id /\ ticket' = ticket
  BY DEF PreviewFails
<1>2. /\ Steady /\ ticket'.desk = ticket.desk /\ ticket'.timer = ticket.timer
      /\ ticket'.loading => ticket.loading
      /\ ticket'.busy => ticket.busy
  BY <1>1, TicketTypedFacts DEF Steady, TicketRow
<1>3. /\ wires' \in [Wires -> WireRow] /\ wires'[w] = NoWire
      /\ \A v \in Wires : v # w => wires'[v] = wires[v]
  BY <1>1, TicketTypedFacts, BlankTicketParts
<1>4. PanelComing'
  <2>1. ticket'.loading /\ x.kind = "panel" => ~PreviewIsCurrent(x)
    BY <1>1, TicketTypedFacts DEF PreviewIsCurrent, TicketRow
  <2> QED BY <1>2, <1>3, <2>1, ComingKept
<1>5. ButtonComesBack'
  <2>1. ticket'.busy => x.kind # "press"
    BY <1>1, TicketTypedFacts DEF TicketRow
  <2> QED BY <1>1, <1>2, <1>3, <2>1 DEF TicketInv, ButtonComesBack
<1>6. PanelOfTheSelection'
  BY <1>2, PanelKept
<1> QED BY <1>1, <1>2, <1>4, <1>5, <1>6, WiresKept, SheetsKept, PostsKept, SteadyJoins

\* The sheet is confirmed or dismissed, and the submission answered.
LEMMA SheetCloses ==
  ASSUME TicketInv, Confirm \/ Dismiss
  PROVE  TicketInv'
<1>1. sheets # <<>> /\ sheets' = Front(sheets) /\ UNCHANGED <<server, seen, refresh, wires>>
  BY DEF Confirm, Dismiss
<1>2. CASE ticket' = ticket /\ posts' = posts
  <2>1. Steady
    BY <1>1, <1>2, TicketTypedFacts DEF Steady
  <2>2. ButtonComesBack'
    BY <1>1, <1>2 DEF TicketInv, ButtonComesBack
  <2> QED BY <1>1, <1>2, <2>1, <2>2, WiresKept, SheetsKept, PostsKept, PanelKept, ComingKept, SteadyJoins
<1>3. CASE Confirm /\ Submission(Last(sheets)).option # NoOption
  <2>1. PICK send : send = Submission(Last(sheets))
    OBVIOUS
  <2>2. PICK p \in Posts : posts' = [posts EXCEPT ![p] = [step |-> "sent", action |-> send.action,
                                                           option |-> send.option, stake |-> send.stake]]
    BY <1>3, <2>1 DEF Confirm
  <2>3. ticket' = [ticket EXCEPT !.busy = TRUE] /\ send.option # NoOption
    BY <1>3, <2>1 DEF Confirm
  <2>4. send.action \in Deeds \cup {"initial"} /\ send.option \in Options \cup {NoOption} /\ send.stake \in Nat
    <3>1. Last(sheets).option \in Options \cup {NoOption}
      BY <1>1, FrontOfSheets DEF SheetRow
    <3> QED BY <2>1, <3>1, TicketTypedFacts DEF Submission
  <2>5. PICK y : y = [step |-> "sent", action |-> send.action, option |-> send.option, stake |-> send.stake]
    OBVIOUS
  <2>6. y \in PostRow /\ y.step = "sent" /\ y.option # NoOption
    BY <2>3, <2>4, <2>5 DEF PostRow
  <2>7. posts' \in [Posts -> PostRow] /\ posts'[p] = y /\ \A q \in Posts : q # p => posts'[q] = posts[q]
    BY <2>2, <2>5, <2>6, TicketTypedFacts
  <2>8. (\A q \in Posts : posts[q].step \in {"sent", "left"} => posts[q].option # NoOption)'
    BY <2>6, <2>7 DEF TicketInv
  <2>9. /\ Steady /\ ticket'.desk = ticket.desk /\ ticket'.timer = ticket.timer
        /\ ticket'.loading = ticket.loading
    BY <1>1, <2>3, TicketTypedFacts DEF Steady, TicketRow
  <2>10. ButtonComesBack'
    BY <2>6, <2>7 DEF ButtonComesBack
  <2>11. PanelComing' /\ PanelOfTheSelection'
    BY <1>1, <2>9, PanelKept, ComingKept
  <2> QED BY <1>1, <2>7, <2>8, <2>9, <2>10, <2>11, WiresKept, SheetsKept, SteadyJoins
<1> QED BY <1>2, <1>3 DEF Confirm, Dismiss

LEMMA SubmissionAnswered ==
  ASSUME TicketInv, NEW p \in Posts, Receipt(p) \/ SubmissionFails(p)
  PROVE  TicketInv'
<1>1. /\ posts' = [posts EXCEPT ![p] = NoPost] /\ UNCHANGED <<server, seen, wires, sheets>>
      /\ refresh' \in {refresh, <<"asked">>}
      /\ \/ ticket' = [ticket EXCEPT !.busy = FALSE]
         \/ ticket' = ticket /\ posts[p].step = "left"
  BY DEF Receipt, SubmissionFails, Ask
<1>2. /\ posts' \in [Posts -> PostRow] /\ posts'[p] = NoPost
      /\ \A q \in Posts : q # p => posts'[q] = posts[q]
  BY <1>1, TicketTypedFacts, BlankTicketParts
<1>3. (\A q \in Posts : posts[q].step \in {"sent", "left"} => posts[q].option # NoOption)'
  BY <1>2, BlankTicketParts DEF TicketInv, None
<1>4. /\ Steady /\ ticket'.desk = ticket.desk /\ ticket'.timer = ticket.timer
      /\ ticket'.loading = ticket.loading
      /\ ticket'.busy => ticket.busy /\ posts[p].step = "left"
  BY <1>1, TicketTypedFacts DEF Steady, TicketRow
<1>5. ButtonComesBack'
  BY <1>1, <1>2, <1>4 DEF TicketInv, ButtonComesBack
<1>6. PanelComing' /\ PanelOfTheSelection'
  BY <1>1, <1>4, PanelKept, ComingKept
<1> QED BY <1>1, <1>2, <1>3, <1>4, <1>5, <1>6, WiresKept, SheetsKept, SteadyJoins

LEMMA TicketStep == ASSUME TicketInv, [TicketNext]_ticketVars PROVE TicketInv'
<1>1. CASE \/ \E a \in Deeds \cup {"initial"}, o \in Options : ActElsewhere(a, o)
           \/ NextPhase \/ \E p \in Posts : Accepted(p)
  BY <1>1, ApiSteps
<1>2. CASE ReadMarket \/ ReadAgain \/ MarketShown \/ Reopen
  BY <1>2, MarketIsRead, MarketIsShown, TicketReopens
<1>3. CASE \/ \E o \in Options : SelectOption(o)
           \/ \E s \in Stakes : SetStake(s)
           \/ \E a \in Deeds : SelectAction(a)
  BY <1>3, TouchSteps
<1>4. CASE DebounceOver \/ Press
  BY <1>4, PreviewIsAsked, ButtonIsPressed
<1>5. ASSUME NEW w \in Wires, PreviewFails(w) \/ \E b \in BOOLEAN : PreviewArrives(w, b) PROVE TicketInv'
  BY <1>5, PreviewLost, PreviewAnswered
<1>6. CASE Confirm \/ Dismiss
  BY <1>6, SheetCloses
<1>7. ASSUME NEW p \in Posts, Receipt(p) \/ SubmissionFails(p) PROVE TicketInv'
  BY <1>7, SubmissionAnswered
<1>8. CASE UNCHANGED ticketVars
  <2>1. /\ server' = server /\ seen' = seen /\ refresh' = refresh /\ ticket' = ticket /\ wires' = wires
        /\ sheets' = sheets /\ posts' = posts
    BY <1>8 DEF ticketVars
  <2>2. Steady
    BY <2>1, TicketTypedFacts DEF Steady
  <2>3. ButtonComesBack'
    BY <2>1 DEF TicketInv, ButtonComesBack
  <2> QED BY <2>1, <2>2, <2>3, WiresKept, SheetsKept, PostsKept, PanelKept, ComingKept, SteadyJoins
<1> QED BY <1>1, <1>2, <1>3, <1>4, <1>5, <1>6, <1>7, <1>8 DEF TicketNext

LEMMA TicketPart == Next => [TicketNext]_ticketVars
BY DEF Next, TicketSteps, WebSteps, FormSteps

\* The ticket of the app, whatever answers, readings of the market and moves on
\* another device arrive in whatever order: a sheet sends what it shows, its
\* figures and the panel's are of the selection, and neither the panel nor the
\* button waits for an answer that does not come.
THEOREM TicketKeepsItsWord == Spec => []TicketInvariant
<1>1. Init => TicketInv
  BY TicketStart DEF Init
<1>2. TicketInv /\ [Next]_allVars => TicketInv'
  BY TicketStep, TicketPart DEF allVars, ticketVars
<1>3. Spec => []TicketInv
  BY <1>1, <1>2, PTL DEF Spec
<1> QED BY <1>3, TicketInvImplies, PTL

=============================================================================
