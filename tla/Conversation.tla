---------------------------- MODULE Conversation ----------------------------
(***************************************************************************)
(* The conversation around one market: comments and their moderation,      *)
(* reactions, likes and favorites, and the notifications they cause.  A    *)
(* notification is one row per recipient and source key, and only a new    *)
(* row makes a push.  Clients read the ten latest and mark all as read.    *)
(***************************************************************************)
EXTENDS Integers, FiniteSets

CONSTANTS
    Readers,            \* human users with a confirmed address
    Bots,               \* bot accounts
    Posts,              \* identifiers of comments
    NoPost,             \* a comment that was not written
    MaxTalk             \* bound: reactions and likes set or cleared

People == Readers \cup Bots
Reactions == {"like", "dislike"}

VARIABLES
    stage,              \* "draft", "public" or "canceled": what the market admits
    participants,       \* people with a prediction in the market
    post,               \* the comments: author and whether visible
    reaction,           \* gotrendlabs_comment_reactions: <<post, person>> to one reaction
    likes, favorites,   \* people who like, or keep, the market
    notices,            \* rows of gotrendlabs_user_notifications: <<recipient, key>>
    unread,             \* those not marked as read
    rung,             \* how often the phone rang for a row (history)
    talk                \* bounded steps so far

talkVars == <<stage, participants, post, reaction, likes, favorites, notices, unread, rung, talk>>

PostRow == [author : People, visible : BOOLEAN]

ASSUME PostAssumption == NoPost \notin PostRow

\* The source keys: what happened and who did it, never when.
PostKey(c) == <<"market_comment", c>>
LikeKey(p) == <<"market_like", p>>
PostLikeKey(c, p) == <<"comment_like", c, p>>

TalkInit ==
    /\ stage = "public"
    /\ participants = {}
    /\ post = [c \in Posts |-> NoPost]
    /\ reaction = [c \in Posts |-> [p \in People |-> "none"]]
    /\ likes = {}
    /\ favorites = {}
    /\ notices = {}
    /\ unread = {}
    /\ rung = [n \in {} |-> 0]
    /\ talk = 0

Visible(c) == post[c] # NoPost /\ post[c].visible

\* Nobody is told of what a bot or they themselves did, and bots are told
\* nothing.
Heard(actor, recipients) ==
    IF actor \in Bots THEN {} ELSE (recipients \cap Readers) \ {actor}

\* ON CONFLICT (recipient_id, source_key) DO NOTHING RETURNING id
NewRows(rows) == rows \ notices

Tell(actor, recipients, key) ==
    LET rows == {<<r, key>> : r \in Heard(actor, recipients)} IN
    /\ notices' = notices \cup rows
    /\ unread' = unread \cup NewRows(rows)
    /\ rung' = [n \in DOMAIN rung \cup rows |->
                    (IF n \in DOMAIN rung THEN rung[n] ELSE 0)
                    + (IF n \in NewRows(rows) THEN 1 ELSE 0)]

Spend == talk < MaxTalk /\ talk' = talk + 1

Participate(p) ==
    /\ stage = "public"
    /\ participants' = participants \cup {p}
    /\ UNCHANGED <<stage, post, reaction, likes, favorites, notices, unread, rung, talk>>

CancelMarket ==
    /\ stage = "public"
    /\ stage' = "canceled"
    /\ UNCHANGED <<participants, post, reaction, likes, favorites, notices, unread, rung, talk>>

CreateComment(p, c) ==
    /\ stage = "public"
    /\ post[c] = NoPost
    /\ post' = [post EXCEPT ![c] = [author |-> p, visible |-> TRUE]]
    /\ Tell(p, participants, PostKey(c))
    /\ UNCHANGED <<stage, participants, reaction, likes, favorites, talk>>

ModerateComment(c, visible) ==
    /\ post[c] # NoPost
    /\ Spend
    /\ post' = [post EXCEPT ![c].visible = visible]
    /\ UNCHANGED <<stage, participants, reaction, likes, favorites, notices, unread, rung>>

\* A reaction replaces the person's other one.  Reactions do not look at the
\* stage of the market.
SetReaction(p, c, r) ==
    /\ Visible(c)
    /\ Spend
    /\ reaction' = [reaction EXCEPT ![c][p] = r]
    /\ IF r = "like" THEN Tell(p, {post[c].author}, PostLikeKey(c, p))
       ELSE UNCHANGED <<notices, unread, rung>>
    /\ UNCHANGED <<stage, participants, post, likes, favorites>>

\* Clearing a like that was replaced by a dislike leaves the dislike.
ClearReaction(p, c, r) ==
    /\ Visible(c)
    /\ reaction[c][p] = r
    /\ reaction' = [reaction EXCEPT ![c][p] = "none"]
    /\ UNCHANGED <<stage, participants, post, likes, favorites, notices, unread, rung, talk>>

LikeMarket(p) ==
    /\ stage = "public"
    /\ p \notin likes
    /\ Spend
    /\ likes' = likes \cup {p}
    /\ Tell(p, participants, LikeKey(p))
    /\ UNCHANGED <<stage, participants, post, reaction, favorites>>

UnlikeMarket(p) ==
    /\ stage = "public"
    /\ likes' = likes \ {p}
    /\ UNCHANGED <<stage, participants, post, reaction, favorites, notices, unread, rung, talk>>

Favorite(p, kept) ==
    /\ stage = "public"
    /\ Spend
    /\ favorites' = IF kept THEN favorites \cup {p} ELSE favorites \ {p}
    /\ UNCHANGED <<stage, participants, post, reaction, likes, notices, unread, rung>>

ReadAll(p) ==
    /\ unread' = {n \in unread : n[1] # p}
    /\ UNCHANGED <<stage, participants, post, reaction, likes, favorites, notices, rung, talk>>

TalkNext ==
    \/ CancelMarket
    \/ \E p \in People :
         \/ Participate(p) \/ LikeMarket(p) \/ UnlikeMarket(p) \/ ReadAll(p)
         \/ \E kept \in BOOLEAN : Favorite(p, kept)
         \/ \E c \in Posts :
              \/ CreateComment(p, c)
              \/ \E r \in Reactions : SetReaction(p, c, r) \/ ClearReaction(p, c, r)
    \/ \E c \in Posts, visible \in BOOLEAN : ModerateComment(c, visible)

-----------------------------------------------------------------------------
(* Properties.                                                             *)

TalkTypeOK ==
    /\ stage \in {"public", "canceled"}
    /\ participants \cup likes \cup favorites \subseteq People
    /\ post \in [Posts -> PostRow \cup {NoPost}]
    /\ reaction \in [Posts -> [People -> Reactions \cup {"none"}]]
    /\ unread \subseteq notices

\* However often a like is taken back and given again, a comment hidden and
\* restored, or the list read, one deed makes one row and rings the phone once
\* (_create_notification).
ToldOnce == \A n \in notices : rung[n] = 1

\* Nobody hears of their own deed or of a bot's, and of a like only the author
\* of the comment or the participants of the market (_notify_comment_author).
ToldOfOthers ==
    \A n \in notices :
       LET who == n[1]  key == n[2] IN
       /\ who \in Readers
       /\ CASE key[1] = "market_comment" ->
                 who \in participants \ {post[key[2]].author} /\ post[key[2]].author \in Readers
            [] key[1] = "market_like" -> who \in participants \ {key[2]} /\ key[2] \in Readers
            [] OTHER -> who = post[key[2]].author /\ key[3] \in Readers \ {who}

TalkInvariant == TalkTypeOK /\ ToldOnce /\ ToldOfOthers

=============================================================================
