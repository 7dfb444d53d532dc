----------------------------- MODULE Admission -----------------------------
(***************************************************************************)
(* How many requests may be anywhere at once, and what a caller is told    *)
(* when there is no room for its own.                                      *)
(*                                                                         *)
(* A page of the website takes one of the Django worker's places           *)
(* (core/capacity.py) and calls the API from there; the app calls the API  *)
(* itself.  The API admits a bounded number of requests                    *)
(* (admission_middleware), health checks from a purse of their own, and    *)
(* every piece of work takes a connection of the process's pool (db.py):   *)
(* the handler in a thread, but the two middlewares that look the session  *)
(* and the compatibility policy up do it on the event loop, which nothing  *)
(* else can use meanwhile.  The technical log is written by one thread     *)
(* behind the response and takes a connection too.                         *)
(*                                                                         *)
(* A caller that is refused is told to try again or to check first: a      *)
(* write whose outcome is not known must not be reported as not done.      *)
(***************************************************************************)
EXTENDS Integers, FiniteSets

CONSTANTS
    WebCalls,        \* requests that come through the website
    AppCalls,        \* requests of the app
    HealthCalls,     \* health checks
    Writes,          \* the requests that change something
    WebPlaces, WebQueue,      \* GOTRENDLABS_WEB_CONCURRENCY and _WAITING
    ApiPlaces, HealthPlaces,  \* GOTRENDLABS_API_ and _HEALTH_CONCURRENCY
    PoolMax, PoolQueue        \* GOTRENDLABS_DB_POOL_MAX and _WAITING

Callers == WebCalls \cup AppCalls \cup HealthCalls

ASSUME AdmissionAssumption ==
    /\ WebCalls \cap AppCalls = {} /\ (WebCalls \cup AppCalls) \cap HealthCalls = {}
    /\ Writes \subseteq WebCalls \cup AppCalls
    /\ \A n \in {WebPlaces, WebQueue, ApiPlaces, HealthPlaces, PoolMax, PoolQueue} : n \in Nat \ {0}

VARIABLES
    at,          \* caller |-> where its request stands
    link,        \* caller |-> its dealings with the pool
    webFree, webWaiting, apiFree, healthFree, poolFree, poolWaiting,
    logger,      \* the one thread that writes the technical log
    done,        \* the writes that have been committed
    reply,       \* caller |-> what the API answered
    told         \* caller |-> what the person was told

web == <<webFree, webWaiting>>
api == <<apiFree, healthFree>>
pool == <<poolFree, poolWaiting>>
flowVars == <<at, link, web, api, pool, logger, done, reply, told>>

Steps == {"new", "lobby", "sent", "door", "session", "policy", "handler", "leaving",
          "answered", "gone"}
Links == {"none", "waiting", "has"}
Replies == {"none", "ok", "refused", "dependency_unavailable", "operation_indeterminate"}
Words == {"none", "ok", "refused", "try again", "check first", "no answer"}

\* Only some callers come.
AdmissionInit(coming) ==
    /\ at = [c \in Callers |-> IF c \in coming THEN "new" ELSE "gone"]
    /\ link = [c \in Callers |-> "none"]
    /\ webFree = WebPlaces /\ webWaiting = 0
    /\ apiFree = ApiPlaces /\ healthFree = HealthPlaces
    /\ poolFree = PoolMax /\ poolWaiting = 0
    /\ logger = "idle"
    /\ done = {}
    /\ reply = [c \in Callers |-> "none"]
    /\ told = [c \in Callers |-> "none"]

Move(c, from, to) == at[c] = from /\ at' = [at EXCEPT ![c] = to]
Say(c, words) == told' = [told EXCEPT ![c] = words]
Answer(c, code) == reply' = [reply EXCEPT ![c] = code]

-----------------------------------------------------------------------------
(* The website's worker.                                                   *)

Enter(c) ==
    /\ c \in WebCalls
    /\ \/ /\ webFree > 0
          /\ Move(c, "new", "sent")
          /\ webFree' = webFree - 1
          /\ UNCHANGED <<webWaiting, told>>
       \/ /\ webFree = 0 /\ webWaiting < WebQueue
          /\ Move(c, "new", "lobby")
          /\ webWaiting' = webWaiting + 1
          /\ UNCHANGED <<webFree, told>>
       \/ /\ webFree = 0 /\ webWaiting = WebQueue
          /\ Move(c, "new", "gone")
          /\ Say(c, "try again")
          /\ UNCHANGED web
    /\ UNCHANGED <<link, api, pool, logger, done, reply>>

\* A place becomes free, or the 750 ms are over.
LeaveLobby(c) ==
    /\ webWaiting' = webWaiting - 1
    /\ \/ /\ webFree > 0
          /\ Move(c, "lobby", "sent")
          /\ webFree' = webFree - 1
          /\ UNCHANGED told
       \/ /\ Move(c, "lobby", "gone")
          /\ Say(c, "try again")
          /\ UNCHANGED webFree
    /\ UNCHANGED <<link, api, pool, logger, done, reply>>

SendDirectly(c) ==
    /\ c \in AppCalls \cup HealthCalls
    /\ Move(c, "new", "sent")
    /\ UNCHANGED <<link, web, api, pool, logger, done, reply, told>>

-----------------------------------------------------------------------------
(* The API's door.  What it decides, it decides on the event loop, unless  *)
(* a middleware's lookup has it: /health reads its policy in its thread.   *)

OnLoop(c) == at[c] = "session" \/ (at[c] = "policy" /\ c \notin HealthCalls)
LoopFree == \A c \in Callers : OnLoop(c) => link[c] = "none"

Admit(c) ==
    /\ LoopFree
    /\ c \notin HealthCalls
    /\ \/ /\ apiFree > 0
          /\ at[c] \in {"sent", "door"}
          /\ at' = [at EXCEPT ![c] = "session"]
          /\ apiFree' = apiFree - 1
          /\ UNCHANGED reply
       \/ /\ apiFree = 0
          /\ Move(c, "sent", "door")
          /\ UNCHANGED <<apiFree, reply>>
       \/ /\ Move(c, "door", "answered")      \* the 200 ms are over
          /\ Answer(c, "dependency_unavailable")
          /\ UNCHANGED apiFree
    /\ UNCHANGED <<link, web, healthFree, pool, logger, done, told>>

AdmitHealth(c) ==
    /\ LoopFree
    /\ c \in HealthCalls
    /\ \/ /\ healthFree > 0
          /\ Move(c, "sent", "session")
          /\ healthFree' = healthFree - 1
          /\ UNCHANGED reply
       \/ /\ healthFree = 0
          /\ Move(c, "sent", "answered")
          /\ Answer(c, "dependency_unavailable")
          /\ UNCHANGED healthFree
    /\ UNCHANGED <<link, web, apiFree, pool, logger, done, told>>

-----------------------------------------------------------------------------
(* The pool: whoever finds no connection waits for a second at most, and   *)
(* not at all behind PoolQueue others.                                     *)

UsesPool == {"session", "policy", "handler"}

\* Where a request goes after a lookup: the policy is the app's business, and
\* the last thing a health check asks for.
AfterLookup(c) ==
    CASE at[c] = "session" -> IF c \in AppCalls THEN "policy" ELSE "handler"
      [] at[c] = "policy"  -> IF c \in HealthCalls THEN "leaving" ELSE "handler"

AskPool(c) ==
    /\ at[c] \in UsesPool /\ link[c] = "none"
    /\ OnLoop(c) => LoopFree
    /\ \/ /\ poolFree > 0
          /\ link' = [link EXCEPT ![c] = "has"]
          /\ poolFree' = poolFree - 1
          /\ UNCHANGED poolWaiting
       \/ /\ poolFree = 0 /\ poolWaiting < PoolQueue
          /\ link' = [link EXCEPT ![c] = "waiting"]
          /\ poolWaiting' = poolWaiting + 1
          /\ UNCHANGED poolFree
    /\ UNCHANGED <<at, web, api, logger, done, reply, told>>

GetConnection(c) ==
    /\ link[c] = "waiting" /\ poolFree > 0
    /\ link' = [link EXCEPT ![c] = "has"]
    /\ poolFree' = poolFree - 1 /\ poolWaiting' = poolWaiting - 1
    /\ UNCHANGED <<at, web, api, logger, done, reply, told>>

\* PoolTimeout or TooManyRequests.  The lookups go on without an answer; the
\* handler has run no SQL, and the health check reports a degraded service.
NoConnection(c) ==
    /\ \/ link[c] = "waiting"
       \/ /\ at[c] \in UsesPool /\ link[c] = "none" /\ poolFree = 0 /\ poolWaiting = PoolQueue
          /\ OnLoop(c) => LoopFree
    /\ link' = [link EXCEPT ![c] = "none"]
    /\ poolWaiting' = IF link[c] = "waiting" THEN poolWaiting - 1 ELSE poolWaiting
    /\ \/ /\ at[c] \in {"session", "policy"}
          /\ at' = [at EXCEPT ![c] = AfterLookup(c)]
          /\ UNCHANGED reply
       \/ /\ Move(c, "handler", IF c \in HealthCalls THEN "policy" ELSE "leaving")
          /\ Answer(c, "dependency_unavailable")
    /\ UNCHANGED <<web, api, poolFree, logger, done, told>>

ReturnConnection(c) ==
    /\ link' = [link EXCEPT ![c] = "none"]
    /\ poolFree' = poolFree + 1

\* A request that names no session has none to look up.
Anonymous(c) ==
    /\ at[c] = "session" /\ link[c] = "none" /\ LoopFree
    /\ at' = [at EXCEPT ![c] = AfterLookup(c)]
    /\ UNCHANGED <<link, web, api, pool, logger, done, reply, told>>

LookupDone(c) ==
    /\ link[c] = "has" /\ at[c] \in {"session", "policy"}
    /\ at' = [at EXCEPT ![c] = AfterLookup(c)]
    /\ ReturnConnection(c)
    /\ UNCHANGED <<web, api, poolWaiting, logger, done, reply, told>>

-----------------------------------------------------------------------------
(* The handler's transaction.                                              *)

\* _database_unavailable_response: a lost connection may have lost the answer
\* to a commit.
LostConnectionCode(c) ==
    IF c \in Writes THEN "operation_indeterminate" ELSE "dependency_unavailable"

HandlerEnds(c, code) ==
    /\ link[c] = "has"
    /\ Move(c, "handler", IF c \in HealthCalls THEN "policy" ELSE "leaving")
    /\ Answer(c, code)
    /\ ReturnConnection(c)
    /\ UNCHANGED <<web, api, poolWaiting, logger, told>>

Committed(c) ==
    /\ HandlerEnds(c, "ok")
    /\ done' = done \cup ({c} \cap Writes)

DomainRefuses(c) ==
    /\ c \notin HealthCalls
    /\ HandlerEnds(c, "refused")
    /\ UNCHANGED done

\* OperationalError: before the commit, or after it.
ConnectionLost(c) ==
    /\ HandlerEnds(c, LostConnectionCode(c))
    /\ done' \in {done, done \cup ({c} \cap Writes)}

\* The response passes the log middleware, which hands it to the log's thread
\* or drops it, and the place is given back.
Leave(c) ==
    /\ LoopFree
    /\ Move(c, "leaving", "answered")
    /\ apiFree' = IF c \in HealthCalls THEN apiFree ELSE apiFree + 1
    /\ healthFree' = IF c \in HealthCalls THEN healthFree + 1 ELSE healthFree
    /\ logger' = IF logger = "idle" THEN "asked" ELSE logger
    /\ UNCHANGED <<link, web, pool, done, reply, told>>

LogStep ==
    /\ \/ logger = "asked" /\ poolFree > 0 /\ logger' = "writing" /\ poolFree' = poolFree - 1
       \/ logger = "asked" /\ poolFree = 0 /\ logger' = "idle" /\ UNCHANGED poolFree
       \/ logger = "writing" /\ logger' = "idle" /\ poolFree' = poolFree + 1
    /\ UNCHANGED <<at, link, web, api, poolWaiting, done, reply, told>>

-----------------------------------------------------------------------------
(* What the person is told.                                                *)

\* ApiFailure.fromObject in the app; the website shows the API's own message,
\* which is the same for both codes.
WordsFor(c, code) ==
    CASE code = "dependency_unavailable" -> "try again"
      [] code = "operation_indeterminate" -> IF c \in WebCalls THEN "try again" ELSE "check first"
      [] OTHER -> code

WebDone(c) == webFree' = IF c \in WebCalls THEN webFree + 1 ELSE webFree

Tell(c) ==
    /\ Move(c, "answered", "gone")
    /\ \/ /\ told[c] = "none"
          /\ Say(c, WordsFor(c, reply[c]))
          /\ WebDone(c)
       \/ /\ told[c] # "none"
          /\ UNCHANGED <<told, webFree>>
    /\ UNCHANGED <<link, webWaiting, api, pool, logger, done, reply>>

\* The caller waits no longer, and the API does not notice: five seconds in
\* the website, which asks to try again, twelve in the app.
CallerGivesUp(c) ==
    /\ told[c] = "none"
    /\ at[c] \notin {"new", "lobby", "answered", "gone"}
    /\ Say(c, IF c \in WebCalls THEN "try again" ELSE "no answer")
    /\ WebDone(c)
    /\ UNCHANGED <<at, link, webWaiting, api, pool, logger, done, reply>>

-----------------------------------------------------------------------------

Progress(c) ==
    \/ Enter(c) \/ LeaveLobby(c) \/ SendDirectly(c)
    \/ Admit(c) \/ AdmitHealth(c)
    \/ AskPool(c) \/ GetConnection(c) \/ NoConnection(c)
    \/ Anonymous(c) \/ LookupDone(c)
    \/ Committed(c) \/ DomainRefuses(c) \/ ConnectionLost(c)
    \/ Leave(c) \/ Tell(c)

AdmissionNext == LogStep \/ \E c \in Callers : Progress(c) \/ CallerGivesUp(c)

\* Every wait has a limit and every thread is scheduled.
AdmissionFairness == WF_flowVars(LogStep) /\ \A c \in Callers : WF_flowVars(Progress(c))

-----------------------------------------------------------------------------

AdmissionTypes ==
    /\ at \in [Callers -> Steps]
    /\ link \in [Callers -> Links]
    /\ \A n \in {webFree, webWaiting, apiFree, healthFree, poolFree, poolWaiting} : n \in Nat
    /\ logger \in {"idle", "asked", "writing"}
    /\ done \subseteq Writes
    /\ reply \in [Callers -> Replies]
    /\ told \in [Callers -> Words]

Inside == {"session", "policy", "handler", "leaving"}
InApi(S) == {c \in S : at[c] \in Inside}

\* No path, of success, refusal or failure, keeps a place or a connection, and
\* none is given back twice.
PlacesAccounted ==
    /\ webFree + Cardinality({c \in WebCalls : at[c] \notin {"new", "lobby", "gone"} /\ told[c] = "none"})
         = WebPlaces
    /\ webWaiting = Cardinality({c \in WebCalls : at[c] = "lobby"})
    /\ apiFree + Cardinality(InApi(WebCalls \cup AppCalls)) = ApiPlaces
    /\ healthFree + Cardinality(InApi(HealthCalls)) = HealthPlaces
    /\ poolFree + Cardinality({c \in Callers : link[c] = "has"})
         + (IF logger = "writing" THEN 1 ELSE 0) = PoolMax
    /\ poolWaiting = Cardinality({c \in Callers : link[c] = "waiting"}) /\ poolWaiting <= PoolQueue

\* A request reported as never begun has changed nothing, and one reported as
\* done has: an app's user told to try again does nothing twice by doing so.
RefusalsAreHonest ==
    \A c \in Writes :
        /\ reply[c] = "dependency_unavailable" => c \notin done
        /\ reply[c] = "refused" => c \notin done
        /\ reply[c] = "ok" => c \in done
        /\ c \in AppCalls /\ told[c] = "try again" => c \notin done

AdmissionInvariant == AdmissionTypes /\ PlacesAccounted /\ RefusalsAreHonest

\* Everybody is told something and everything is given back, though lookups
\* stop the event loop while they wait for connections other requests hold.
EveryoneIsTold ==
    /\ \A c \in Callers : at[c] = "new" ~> at[c] = "gone"
    /\ <>(poolFree = PoolMax /\ apiFree = ApiPlaces /\ webFree = WebPlaces)

=============================================================================
