----------------------------- MODULE DmUpstream -----------------------------
(***************************************************************************)
(* The device model's requests to the cloud and what the user is told of   *)
(* them.  IOT_Linkkit_Report and IOT_Linkkit_TriggerEvent publish a        *)
(* request and then remember its identifier in the message cache           *)
(* (dm_message_cache.c); the reply of the cloud is looked up there, handed *)
(* to the dispatch queue (dm_ipc.c) and taken out of the cache; what stays *)
(* in the cache too long is handed to the queue as timed out.              *)
(*                                                                         *)
(* Three kinds of threads meet here.  Posters report, one at a time, for   *)
(* the linkkit mutex is held through the whole call.  Receivers read       *)
(* packets, one at a time, for the MQTT client's lock_yield is held while  *)
(* a reply is handled.  One receiver, the Dispatcher, runs                 *)
(* IOT_Linkkit_Yield: it reads packets, then looks for timed out requests, *)
(* then empties the queue into the user's callbacks.  The others read      *)
(* packets on their own account, as IOT_MQTT_Subscribe_Sync does.          *)
(*                                                                         *)
(* Each operation of the cache and of the queue is one critical section of *)
(* its mutex; the search for the timed out holds the cache's mutex from    *)
(* its first request to its last.                                          *)
(***************************************************************************)
EXTENDS Naturals, Sequences, FiniteSets

CONSTANTS
    Posters,        \* threads that report to the cloud
    Receivers,      \* threads that read packets
    Dispatcher,     \* the receiver that runs IOT_Linkkit_Yield
    NoThread,       \* nobody
    CONFIG_MSGCACHE_QUEUE_MAXLEN,   \* requests the cache remembers
    CONFIG_DISPATCH_QUEUE_MAXLEN,   \* events the queue holds
    MaxRequests,    \* bound: how many requests are reported
    MaxOthers       \* bound: how many other events reach the queue

ASSUME UpstreamAssumption ==
    /\ Dispatcher \in Receivers
    /\ NoThread \notin Posters \cup Receivers
    /\ CONFIG_MSGCACHE_QUEUE_MAXLEN \in Nat \ {0}
    /\ CONFIG_DISPATCH_QUEUE_MAXLEN \in Nat \ {0}
    /\ MaxRequests \in Nat
    /\ MaxOthers \in Nat

Requests == 1 .. MaxRequests    \* message identifiers
Other == 0                      \* an event that is no verdict on a request

VARIABLES
    mutex,      \* the thread that holds the linkkit mutex
    posting,    \* posting[p]: how far the report of p has come
    msgid,      \* msgid[p]: the identifier of that report
    next_id,    \* the next identifier, of iotx_report_id
    answers,    \* external: the replies of the cloud on their way
    dmc_list,   \* the requests in the message cache
    due,        \* those that are older than DM_MSG_CACHE_TIMEOUT_MS_DEFAULT
    receiver,   \* the thread that handles a reply
    handling,   \* how far it has come
    reply_id,   \* the identifier in the reply
    stage,      \* what the dispatcher does
    dispatched, \* how many events it has dispatched this time
    message_list,   \* the events in the queue: identifiers, or Other
    others,     \* how many other events came
    answered, timedOut, \* history: how often each verdict entered the queue
    told,       \* history: the requests the user was told a verdict on
    dropped,    \* history: those whose verdict found the queue full
    early,      \* history: those whose reply was handled before the insert
    foreign     \* history: those whose reply was found by another receiver

postVars == <<mutex, posting, msgid, next_id>>
replyVars == <<receiver, handling, reply_id>>
dispatchVars == <<stage, dispatched>>
queueVars == <<message_list, answered, timedOut, dropped>>
vars == <<postVars, answers, dmc_list, due, replyVars, dispatchVars,
          queueVars, others, told, early, foreign>>

Init ==
    /\ mutex = NoThread
    /\ posting = [p \in Posters |-> "out"]
    /\ msgid = [p \in Posters |-> 1]
    /\ next_id = 1
    /\ answers = {} /\ dmc_list = {} /\ due = {}
    /\ receiver = NoThread /\ handling = "idle" /\ reply_id = 1
    /\ stage = "yield" /\ dispatched = 0
    /\ message_list = <<>> /\ others = 0
    /\ answered = [r \in Requests |-> 0]
    /\ timedOut = [r \in Requests |-> 0]
    /\ told = {} /\ dropped = {} /\ early = {} /\ foreign = {}

-----------------------------------------------------------------------------
(* The two shared structures.                                              *)

\* The cache's mutex is free: it is held for longer than a step only by
\* dm_msg_cache_tick.
CacheUnlocked == stage # "tick"

QueueFull == Len(message_list) >= CONFIG_DISPATCH_QUEUE_MAXLEN

\* Mutant: a full queue makes room by losing its oldest event.
Offer_Ring(event) ==
    message_list' = Append(IF QueueFull THEN Tail(message_list) ELSE message_list,
                           event)

\* dm_ipc_msg_insert of an event: a full queue refuses it.
Offer(event) ==
    message_list' = IF QueueFull THEN message_list ELSE Append(message_list, event)

\* _dm_msg_send_to_user with a verdict on r that count counts; a verdict the
\* queue refuses is freed, and nobody tries again.
SendToUser(r, count) ==
    /\ Offer(r)
    /\ count' = IF QueueFull THEN count ELSE [count EXCEPT ![r] = @ + 1]
    /\ dropped' = IF QueueFull THEN dropped \cup {r} ELSE dropped

-----------------------------------------------------------------------------
(* A report: the request is sent first, then remembered.                   *)

\* Mutant: a report that does not wait for the linkkit mutex.
Enter_NoMutex(p) == posting[p] = "out" /\ mutex' = p

Enter(p) == posting[p] = "out" /\ mutex = NoThread /\ mutex' = p

Report(p) ==
    /\ next_id <= MaxRequests
    /\ Enter(p)
    /\ msgid' = [msgid EXCEPT ![p] = next_id]
    /\ posting' = [posting EXCEPT ![p] = "sent"]
    /\ next_id' = next_id + 1
    /\ UNCHANGED <<answers, dmc_list, due, replyVars, dispatchVars, queueVars,
                   others, told, early, foreign>>

Leave(p) ==
    /\ posting' = [posting EXCEPT ![p] = "out"]
    /\ mutex' = NoThread
    /\ UNCHANGED <<msgid, next_id>>

\* The request could not be published, or nobody asked for its reply
\* (dm_opt_get), or the cache is full, which is not reported to the caller.
NotRemembered(p) ==
    /\ posting[p] = "sent"
    /\ Leave(p)
    /\ UNCHANGED <<answers, dmc_list, due, replyVars, dispatchVars, queueVars,
                   others, told, early, foreign>>

\* The length is compared before the cache's mutex is taken.
CheckSize(p) ==
    /\ posting[p] = "sent"
    /\ Cardinality(dmc_list) < CONFIG_MSGCACHE_QUEUE_MAXLEN
    /\ posting' = [posting EXCEPT ![p] = "checked"]
    /\ UNCHANGED <<mutex, msgid, next_id, answers, dmc_list, due, replyVars,
                   dispatchVars, queueVars, others, told, early, foreign>>

Insert(p) ==
    /\ posting[p] = "checked"
    /\ CacheUnlocked
    /\ dmc_list' = dmc_list \cup {msgid[p]}
    /\ Leave(p)
    /\ UNCHANGED <<answers, due, replyVars, dispatchVars, queueVars, others,
                   told, early, foreign>>

-----------------------------------------------------------------------------
(* The replies of the cloud.                                               *)

\* The cloud answers a request it got, once or, when asked twice, again.
CloudAnswers(r) ==
    /\ r < next_id
    /\ answers' = answers \cup {r}
    /\ UNCHANGED <<postVars, dmc_list, due, replyVars, dispatchVars, queueVars,
                   others, told, early, foreign>>

\* t may read packets; the dispatcher does so before it dispatches.
MayRead(t) == receiver = NoThread /\ (t = Dispatcher => stage = "yield")

Search(t, r) ==
    /\ r \in answers
    /\ MayRead(t)
    /\ CacheUnlocked
    /\ answers' = answers \ {r}
    /\ receiver' = t
    /\ reply_id' = r

AnswerFound(t, r) ==
    /\ Search(t, r)
    /\ r \in dmc_list
    /\ handling' = "found"
    /\ foreign' = IF t = Dispatcher THEN foreign ELSE foreign \cup {r}
    /\ UNCHANGED <<postVars, dmc_list, due, dispatchVars, queueVars, others,
                   told, early>>

\* The reply is not passed on, but its identifier is removed all the same.
AnswerUnknown(t, r) ==
    /\ Search(t, r)
    /\ r \notin dmc_list
    /\ handling' = "told"
    /\ early' = IF \E p \in Posters : posting[p] # "out" /\ msgid[p] = r
                THEN early \cup {r} ELSE early
    /\ UNCHANGED <<postVars, dmc_list, due, dispatchVars, queueVars, others,
                   told, foreign>>

TellAnswer ==
    /\ handling = "found"
    /\ handling' = "told"
    /\ SendToUser(reply_id, answered)
    /\ UNCHANGED <<postVars, answers, dmc_list, due, receiver, reply_id,
                   dispatchVars, timedOut, others, told, early, foreign>>

\* Mutant: the reply's request stays in the cache.
Remaining_All == dmc_list

\* Mutant: all but the reply's request are removed.
Remaining_Others == dmc_list \cap {reply_id}

\* dm_msg_cache_remove
Remaining == dmc_list \ {reply_id}

Remove ==
    /\ handling = "told"
    /\ CacheUnlocked
    /\ dmc_list' = Remaining
    /\ due' = due \cap dmc_list'
    /\ handling' = "idle"
    /\ receiver' = NoThread
    /\ UNCHANGED <<postVars, answers, reply_id, dispatchVars, queueVars, others,
                   told, early, foreign>>

\* Any other message of the cloud for the user: a property to set, a service
\* to run.
ReceiveOther(t) ==
    /\ others < MaxOthers
    /\ MayRead(t)
    /\ others' = others + 1
    /\ Offer(Other)
    /\ UNCHANGED <<postVars, answers, dmc_list, due, replyVars, dispatchVars,
                   answered, timedOut, dropped, told, early, foreign>>

-----------------------------------------------------------------------------
(* The dispatcher, after it has read its packets: iotx_dm_dispatch.  The   *)
(* user's callback may report in its turn: that is a report of one of the  *)
(* posters, for the dispatcher holds no mutex while it calls.              *)

\* A request in the cache, older than the others, becomes too old; what the
\* clock says is read once, before the search begins.
GrowOld(r) ==
    /\ stage # "tick"
    /\ r \in dmc_list \ due
    /\ \A q \in dmc_list \ due : r <= q
    /\ due' = due \cup {r}
    /\ UNCHANGED <<postVars, answers, dmc_list, replyVars, dispatchVars,
                   queueVars, others, told, early, foreign>>

\* Mutant: the search for the timed out while a reply is being handled.
Tick_MidReply == stage = "yield"

Tick == stage = "yield" /\ receiver # Dispatcher

StartTick ==
    /\ Tick
    /\ stage' = "tick"
    /\ UNCHANGED <<postVars, answers, dmc_list, due, replyVars, dispatched,
                   queueVars, others, told, early, foreign>>

TimeOut(r) ==
    /\ stage = "tick"
    /\ r \in due
    /\ SendToUser(r, timedOut)
    /\ dmc_list' = dmc_list \ {r}
    /\ due' = due \ {r}
    /\ UNCHANGED <<postVars, answers, replyVars, dispatchVars, answered, others,
                   told, early, foreign>>

EndTick ==
    /\ stage = "tick"
    /\ due = {}
    /\ stage' = "dispatch"
    /\ UNCHANGED <<postVars, answers, dmc_list, due, replyVars, dispatched,
                   queueVars, others, told, early, foreign>>

\* Mutant: a dispatcher that never stops to read packets.
MoreToDispatch_Endless == message_list # <<>>

MoreToDispatch ==
    /\ message_list # <<>>
    /\ dispatched < CONFIG_DISPATCH_QUEUE_MAXLEN

\* dm_ipc_msg_next and the user's callback.
Dispatch ==
    /\ stage = "dispatch"
    /\ MoreToDispatch
    /\ message_list' = Tail(message_list)
    /\ told' = IF Head(message_list) = Other THEN told
               ELSE told \cup {Head(message_list)}
    /\ dispatched' = dispatched + 1
    /\ UNCHANGED <<postVars, answers, dmc_list, due, replyVars, stage, answered,
                   timedOut, dropped, others, early, foreign>>

EndDispatch ==
    /\ stage = "dispatch"
    /\ ~MoreToDispatch
    /\ stage' = "yield"
    /\ dispatched' = 0
    /\ UNCHANGED <<postVars, answers, dmc_list, due, replyVars, queueVars,
                   others, told, early, foreign>>

-----------------------------------------------------------------------------
Next ==
    \/ \E p \in Posters :
          Report(p) \/ NotRemembered(p) \/ CheckSize(p) \/ Insert(p)
    \/ \E r \in Requests : CloudAnswers(r) \/ GrowOld(r) \/ TimeOut(r)
    \/ \E t \in Receivers :
          \/ ReceiveOther(t)
          \/ \E r \in Requests : AnswerFound(t, r) \/ AnswerUnknown(t, r)
    \/ TellAnswer \/ Remove
    \/ StartTick \/ EndTick \/ Dispatch \/ EndDispatch

Spec == Init /\ [][Next]_vars

(* Every thread runs and time passes, whatever the dispatcher does in the  *)
(* meantime.  It takes the cache's mutex again and again, and a FreeRTOS   *)
(* mutex goes to a thread that waits for it.  Nothing is assumed of the    *)
(* posters, nor of the cloud; IOT_Linkkit_Yield stops reading packets when *)
(* its time is over, however many there are.                               *)
Fairness ==
    /\ \A r \in Requests : SF_vars(GrowOld(r)) /\ WF_vars(TimeOut(r))
    /\ WF_vars(TellAnswer) /\ SF_vars(Remove)
    /\ SF_vars(StartTick) /\ WF_vars(EndTick)
    /\ WF_vars(Dispatch) /\ WF_vars(EndDispatch)

FairSpec == Spec /\ Fairness

-----------------------------------------------------------------------------
(* The types of the variables.                                             *)
TypeOK ==
    /\ mutex \in Posters \cup {NoThread}
    /\ posting \in [Posters -> {"out", "sent", "checked"}]
    /\ msgid \in [Posters -> Nat]
    /\ next_id \in Nat \ {0}
    /\ answers \in SUBSET Requests
    /\ dmc_list \in SUBSET Requests
    /\ due \in SUBSET dmc_list
    /\ receiver \in Receivers \cup {NoThread}
    /\ handling \in {"idle", "found", "told"}
    /\ reply_id \in Nat
    /\ stage \in {"yield", "tick", "dispatch"}
    /\ dispatched \in 0 .. CONFIG_DISPATCH_QUEUE_MAXLEN
    /\ message_list \in Seq(Requests \cup {Other})
    /\ Len(message_list) <= CONFIG_DISPATCH_QUEUE_MAXLEN
    /\ others \in 0 .. MaxOthers
    /\ answered \in [Requests -> Nat]
    /\ timedOut \in [Requests -> Nat]
    /\ told \in SUBSET Requests /\ dropped \in SUBSET Requests
    /\ early \in SUBSET Requests /\ foreign \in SUBSET Requests

(* dm_msg_cache_insert compares the cache's length before it takes the     *)
(* cache's mutex, yet the cache never holds more than                      *)
(* CONFIG_MSGCACHE_QUEUE_MAXLEN requests: every caller holds the linkkit   *)
(* mutex.                                                                  *)
CacheBounded == Cardinality(dmc_list) <= CONFIG_MSGCACHE_QUEUE_MAXLEN

(* No reply is passed on twice and no request times out twice, however the *)
(* receivers, the search for the timed out and a second reply of the cloud *)
(* interleave.                                                             *)
ToldOnce == \A r \in Requests : answered[r] <= 1 /\ timedOut[r] <= 1

(* A request is not reported both answered and timed out, unless its reply *)
(* was handled by another thread than the dispatcher, which looks it up    *)
(* and passes it on in two critical sections with a search for the timed   *)
(* out in between.                                                         *)
OneVerdict ==
    \A r \in Requests : r \notin foreign => answered[r] + timedOut[r] <= 1

(* The node dm_msg_cache_search returned is used after the cache's mutex   *)
(* was given back; while the dispatcher uses it, it is still in the cache. *)
NodeStays ==
    handling = "found" /\ receiver = Dispatcher => reply_id \in dmc_list

(* A request that was remembered is not forgotten in silence: the user is  *)
(* told its reply or its timeout, unless the verdict found the queue full  *)
(* or the reply was there before the request was in the cache.             *)
Settled ==
    \A r \in Requests :
        r \in dmc_list ~> r \in told \cup dropped \cup early

-----------------------------------------------------------------------------
(* The requests with a verdict in the queue.                               *)
Queued == {message_list[i] : i \in DOMAIN message_list}

(* Where a request is, as RequestPromise sees it: a verdict in the queue   *)
(* counts more than the cache it was drawn from.                           *)
Place(r) ==
    IF r >= next_id THEN "new"
    ELSE IF \E p \in Posters : posting[p] # "out" /\ msgid[p] = r THEN "sent"
    ELSE IF r \in told THEN "told"
    ELSE IF r \in Queued THEN "passed"
    ELSE IF r \in dmc_list THEN "kept"
    ELSE IF r \in dropped THEN "lost"
    ELSE IF r \in early THEN "overtaken"
    ELSE "forgotten"

places == [r \in Requests |-> Place(r)]

Promise == INSTANCE RequestPromise WITH place <- places

(* The cache, the queue and their threads keep what RequestPromise         *)
(* promises: no remembered request is forgotten in silence, and a verdict  *)
(* in the queue can only go to the user, nothing takes it back.            *)
KeepsPromise == Promise!Spec

=============================================================================
