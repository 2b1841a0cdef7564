---------------------------- MODULE MqttSubSync ----------------------------
(***************************************************************************)
(* IOT_MQTT_Subscribe_Sync: threads that send a SUBSCRIBE, leave a node    *)
(* for its answer in list_sub_sync_ack, and yield until the node says what *)
(* the broker answered or their time is over (wrapper_mqtt_subscribe_sync  *)
(* and, for the SUBACK, iotx_mc_handle_recv_SUBACK with                    *)
(* _iotx_mqtt_event_handle_sub).                                           *)
(*                                                                         *)
(* lock_yield admits one thread at a time to the reading of packets.       *)
(* Besides the subscribers some Yielders call IOT_MQTT_Yield, which is how *)
(* a device is run.  A step is one critical section, or the call of the    *)
(* application's event handler, during which _in_yield_cb is set.          *)
(*                                                                         *)
(* The broker answers every SUBSCRIBE it gets, in any order and after any  *)
(* time; a SUBSCRIBE or a SUBACK may also be lost with its connection.     *)
(* The time of a call is over at any moment after its first scan.          *)
(***************************************************************************)
EXTENDS Naturals, Sequences, FiniteSets

CONSTANTS
    Subscribers,    \* the threads that subscribe synchronously
    Yielders,       \* the other threads that yield
    NoThread,       \* the holder of lock_yield when it is free
    MaxIds          \* how many packet identifiers are used

ASSUME SubSyncAssumption ==
    /\ Subscribers \cap Yielders = {}
    /\ NoThread \notin Subscribers \cup Yielders
    /\ MaxIds \in Nat

Threads == Subscribers \cup Yielders
Id == 1 .. MaxIds
NoId == 0                   \* a negative return value, or none yet

VARIABLES
    pc,                 \* pc[s]: where the call of subscriber s is
    ret,                \* ret[s]: what its last subscribe returned
    subed,              \* subed[s]: it has a node for that request
    packet_id,          \* the last packet identifier
    list_sub_sync_ack,  \* the nodes [packet_id, ack_type], oldest first
    lock_yield,         \* the thread that yields
    _in_yield_cb,       \* a callback of the event handler is running
    requests,           \* external: the SUBSCRIBEs the broker has to answer
    granted, refused,   \* external: how it has answered
    subacks,            \* the SUBACKs to be read
    seen                \* history: the requests whose SUBACK has been read

callVars   == <<pc, ret, subed>>
yieldVars  == <<lock_yield, _in_yield_cb>>
brokerVars == <<requests, granted, refused, subacks>>
vars == <<callVars, packet_id, list_sub_sync_ack, yieldVars, brokerVars, seen>>

AckType == {"UNDEF", "SUCCESS", "NACK"}
Node == [packet_id : Id, ack_type : AckType]

Init ==
    /\ pc = [s \in Subscribers |-> "idle"]
    /\ ret = [s \in Subscribers |-> NoId]
    /\ subed = [s \in Subscribers |-> FALSE]
    /\ packet_id = 0
    /\ list_sub_sync_ack = <<>>
    /\ lock_yield = NoThread
    /\ _in_yield_cb = FALSE
    /\ requests = {} /\ granted = {} /\ refused = {}
    /\ subacks = <<>>
    /\ seen = {}

-----------------------------------------------------------------------------
(* The loop of wrapper_mqtt_subscribe_sync.                                *)

Call(s) ==
    /\ pc[s] = "idle"
    /\ pc' = [pc EXCEPT ![s] = "subscribe"]
    /\ ret' = [ret EXCEPT ![s] = NoId]
    /\ subed' = [subed EXCEPT ![s] = FALSE]
    /\ UNCHANGED <<packet_id, list_sub_sync_ack, yieldVars, brokerVars, seen>>

(* ret < 0: subscribe (again).                                             *)
Subscribe(s) ==
    /\ pc[s] = "subscribe"
    /\ ret[s] = NoId
    /\ packet_id < MaxIds
    /\ packet_id' = packet_id + 1
    /\ ret' = [ret EXCEPT ![s] = packet_id']
    /\ requests' = requests \cup {packet_id'}
    /\ pc' = [pc EXCEPT ![s] = "sent"]
    /\ UNCHANGED <<subed, list_sub_sync_ack, yieldVars, granted, refused, subacks, seen>>

(* The client is not connected, or the write fails.                        *)
SubscribeFails(s) ==
    /\ pc[s] = "subscribe"
    /\ ret[s] = NoId
    /\ pc' = [pc EXCEPT ![s] = "sent"]
    /\ UNCHANGED <<ret, subed, packet_id, list_sub_sync_ack, yieldVars, brokerVars, seen>>

(* _is_in_yield_cb(): the call is taken for one from a callback, which may *)
(* not yield, and returns at once.                                         *)
ReturnFromCallback(s) ==
    /\ pc[s] = "sent"
    /\ _in_yield_cb
    /\ pc' = [pc EXCEPT ![s] = IF ret[s] = NoId THEN "failed" ELSE "unwaited"]
    /\ UNCHANGED <<ret, subed, packet_id, list_sub_sync_ack, yieldVars, brokerVars, seen>>

\* Mutant: a failed subscribe leaves a node, too.
AddNode_Always(s) ==
    /\ pc[s] = "register"
    /\ list_sub_sync_ack' = IF ~subed[s]
          THEN Append(list_sub_sync_ack, [packet_id |-> ret[s], ack_type |-> "UNDEF"])
          ELSE list_sub_sync_ack
    /\ subed' = [subed EXCEPT ![s] = @ \/ ret[s] # NoId]
    /\ pc' = [pc EXCEPT ![s] = "yield"]
    /\ UNCHANGED <<ret, packet_id, yieldVars, brokerVars, seen>>

(* Otherwise the node is added, under lock_generic.                        *)
AddNode(s) ==
    /\ pc[s] = "register"
    /\ list_sub_sync_ack' = IF ~subed[s] /\ ret[s] # NoId
          THEN Append(list_sub_sync_ack, [packet_id |-> ret[s], ack_type |-> "UNDEF"])
          ELSE list_sub_sync_ack
    /\ subed' = [subed EXCEPT ![s] = @ \/ ret[s] # NoId]
    /\ pc' = [pc EXCEPT ![s] = "yield"]
    /\ UNCHANGED <<ret, packet_id, yieldVars, brokerVars, seen>>

StayToWait(s) ==
    /\ pc[s] = "sent"
    /\ ~_in_yield_cb
    /\ pc' = [pc EXCEPT ![s] = "register"]
    /\ UNCHANGED <<ret, subed, packet_id, list_sub_sync_ack, yieldVars, brokerVars, seen>>

(* The scan after the yield, under lock_generic.  Only the first node of   *)
(* the list is looked at; an answer takes the node away.                   *)
Yielded(s) == pc[s] = "yielded" /\ lock_yield # s

Mine(s) == /\ list_sub_sync_ack # <<>>
           /\ Head(list_sub_sync_ack).packet_id = ret[s]

ScanSuccess(s) ==
    /\ Yielded(s)
    /\ Mine(s) /\ Head(list_sub_sync_ack).ack_type = "SUCCESS"
    /\ list_sub_sync_ack' = Tail(list_sub_sync_ack)
    /\ pc' = [pc EXCEPT ![s] = "succeeded"]
    /\ UNCHANGED <<ret, subed, packet_id, yieldVars, brokerVars, seen>>

ScanNack(s) ==
    /\ Yielded(s)
    /\ Mine(s) /\ Head(list_sub_sync_ack).ack_type = "NACK"
    /\ list_sub_sync_ack' = Tail(list_sub_sync_ack)
    /\ ret' = [ret EXCEPT ![s] = NoId]
    /\ subed' = [subed EXCEPT ![s] = FALSE]
    /\ pc' = [pc EXCEPT ![s] = "scanned"]
    /\ UNCHANGED <<packet_id, yieldVars, brokerVars, seen>>

ScanNothing(s) ==
    /\ Yielded(s)
    /\ ~ (Mine(s) /\ Head(list_sub_sync_ack).ack_type # "UNDEF")
    /\ pc' = [pc EXCEPT ![s] = "scanned"]
    /\ UNCHANGED <<ret, subed, packet_id, list_sub_sync_ack, yieldVars, brokerVars, seen>>

(* The time is not over: the loop goes round.                              *)
Again(s) ==
    /\ pc[s] = "scanned"
    /\ pc' = [pc EXCEPT ![s] = IF ret[s] = NoId THEN "subscribe" ELSE "register"]
    /\ UNCHANGED <<ret, subed, packet_id, list_sub_sync_ack, yieldVars, brokerVars, seen>>

(* The list without the node of a request; identifiers are not used twice, *)
(* so there is at most one.                                                *)
Without(list, id) ==
    IF \E i \in DOMAIN list : list[i].packet_id = id
    THEN LET i == CHOOSE i \in DOMAIN list : list[i].packet_id = id
         IN  SubSeq(list, 1, i - 1) \o SubSeq(list, i + 1, Len(list))
    ELSE list

\* Mutant: the node is left in the list.
Expire_NodeStays(s) ==
    /\ pc[s] = "scanned"
    /\ pc' = [pc EXCEPT ![s] = "failed"]
    /\ UNCHANGED <<ret, subed, packet_id, list_sub_sync_ack, yieldVars, brokerVars, seen>>

(* The time is over: the nodes of the request are taken away and the call  *)
(* returns -1.                                                             *)
Expire(s) ==
    /\ pc[s] = "scanned"
    /\ list_sub_sync_ack' = Without(list_sub_sync_ack, ret[s])
    /\ pc' = [pc EXCEPT ![s] = "failed"]
    /\ UNCHANGED <<ret, subed, packet_id, yieldVars, brokerVars, seen>>

-----------------------------------------------------------------------------
(* Yielding: in a stay under lock_yield one packet is read, or none.  A    *)
(* yield has at least one stay, and goes on until its own time is over.    *)

MayYield(t) == t \in Subscribers => pc[t] \in {"yield", "yielded"}

LockYield(t) ==
    /\ lock_yield = NoThread
    /\ MayYield(t)
    /\ lock_yield' = t
    /\ UNCHANGED <<callVars, packet_id, list_sub_sync_ack, _in_yield_cb, brokerVars, seen>>

\* Mutant: the oldest node is marked, whatever its identifier.
RecvSuback_Oldest ==
    /\ lock_yield # NoThread
    /\ ~_in_yield_cb
    /\ subacks # <<>>
    /\ list_sub_sync_ack' =
          [i \in DOMAIN list_sub_sync_ack |->
              IF i = 1 THEN [list_sub_sync_ack[i] EXCEPT !.ack_type = Head(subacks).ack_type]
              ELSE list_sub_sync_ack[i]]
    /\ subacks' = Tail(subacks)
    /\ seen' = seen \cup {Head(subacks).packet_id}
    /\ _in_yield_cb' = TRUE
    /\ UNCHANGED <<callVars, packet_id, lock_yield, requests, granted, refused>>

(* iotx_mc_handle_recv_SUBACK: the nodes of the request are marked, under  *)
(* lock_generic, and the event handler is called.                          *)
RecvSuback ==
    /\ lock_yield # NoThread
    /\ ~_in_yield_cb
    /\ subacks # <<>>
    /\ LET ack == Head(subacks) IN
       list_sub_sync_ack' =
          [i \in DOMAIN list_sub_sync_ack |->
              IF list_sub_sync_ack[i].packet_id = ack.packet_id
              THEN ack ELSE list_sub_sync_ack[i]]
    /\ subacks' = Tail(subacks)
    /\ seen' = seen \cup {Head(subacks).packet_id}
    /\ _in_yield_cb' = TRUE
    /\ UNCHANGED <<callVars, packet_id, lock_yield, requests, granted, refused>>

(* Any other packet that is handed to a callback.                          *)
RecvOther ==
    /\ lock_yield # NoThread
    /\ ~_in_yield_cb
    /\ _in_yield_cb' = TRUE
    /\ UNCHANGED <<callVars, packet_id, list_sub_sync_ack, lock_yield, brokerVars, seen>>

\* Mutant: lock_yield is not released after a callback.
EndStay_LockKept ==
    /\ lock_yield # NoThread
    /\ _in_yield_cb' = FALSE
    /\ lock_yield' = IF _in_yield_cb THEN lock_yield ELSE NoThread
    /\ pc' = [s \in Subscribers |->
                IF s = lock_yield /\ ~_in_yield_cb THEN "yielded" ELSE pc[s]]
    /\ UNCHANGED <<ret, subed, packet_id, list_sub_sync_ack, brokerVars, seen>>

(* The callback returns, or no packet was there, and the stay is over.     *)
EndStay ==
    /\ lock_yield # NoThread
    /\ _in_yield_cb' = FALSE
    /\ lock_yield' = NoThread
    /\ pc' = [s \in Subscribers |-> IF s = lock_yield THEN "yielded" ELSE pc[s]]
    /\ UNCHANGED <<ret, subed, packet_id, list_sub_sync_ack, brokerVars, seen>>

-----------------------------------------------------------------------------
(* External: the broker answers, or the connection takes packets with it.  *)

Grant(i) ==
    /\ i \in requests
    /\ requests' = requests \ {i}
    /\ granted' = granted \cup {i}
    /\ subacks' = Append(subacks, [packet_id |-> i, ack_type |-> "SUCCESS"])
    /\ UNCHANGED <<callVars, packet_id, list_sub_sync_ack, yieldVars, refused, seen>>

Refuse(i) ==
    /\ i \in requests
    /\ requests' = requests \ {i}
    /\ refused' = refused \cup {i}
    /\ subacks' = Append(subacks, [packet_id |-> i, ack_type |-> "NACK"])
    /\ UNCHANGED <<callVars, packet_id, list_sub_sync_ack, yieldVars, granted, seen>>

ConnectionLost ==
    /\ requests # {} \/ subacks # <<>>
    /\ requests' = {}
    /\ subacks' = <<>>
    /\ UNCHANGED <<callVars, packet_id, list_sub_sync_ack, yieldVars, granted, refused, seen>>

(* The code between two waits.                                             *)
CallStep(s) ==
    \/ Subscribe(s) \/ SubscribeFails(s)
    \/ ReturnFromCallback(s) \/ StayToWait(s) \/ AddNode(s)

Scan(s) == ScanSuccess(s) \/ ScanNack(s) \/ ScanNothing(s)

Next ==
    \/ \E s \in Subscribers :
          Call(s) \/ CallStep(s) \/ Scan(s) \/ Again(s) \/ Expire(s)
    \/ \E t \in Threads : LockYield(t)
    \/ RecvSuback \/ RecvOther \/ EndStay
    \/ \E i \in Id : Grant(i) \/ Refuse(i)
    \/ ConnectionLost

Spec == Init /\ [][Next]_vars

(* The threads run, every wait for lock_yield ends, and so does the time   *)
(* of a yield and of a call.                                               *)
Fairness ==
    /\ \A s \in Subscribers :
          /\ WF_vars(CallStep(s))
          /\ SF_vars(LockYield(s))
          /\ SF_vars(Scan(s))
          /\ SF_vars(Expire(s))
    /\ WF_vars(EndStay)

FairSpec == Spec /\ Fairness

-----------------------------------------------------------------------------
Waiting == {"register", "yield", "yielded", "scanned"}

(* The types of the variables.                                             *)
TypeOK ==
    /\ pc \in [Subscribers -> {"idle", "subscribe", "sent", "succeeded",
                               "failed", "unwaited"} \cup Waiting]
    /\ ret \in [Subscribers -> Id \cup {NoId}]
    /\ subed \in [Subscribers -> BOOLEAN]
    /\ packet_id \in 0 .. MaxIds
    /\ list_sub_sync_ack \in Seq(Node)
    /\ lock_yield \in Threads \cup {NoThread}
    /\ _in_yield_cb \in BOOLEAN
    /\ requests \in SUBSET Id /\ granted \in SUBSET Id /\ refused \in SUBSET Id
    /\ seen \in SUBSET Id
    /\ subacks \in Seq([packet_id : Id, ack_type : {"SUCCESS", "NACK"}])

(* A call that has waited and returns an identifier returns it for a       *)
(* subscription the broker granted: no answer to another request, or to an *)
(* earlier attempt of the same call, is taken for it.                      *)
SuccessIsGranted ==
    \A s \in Subscribers : pc[s] = "succeeded" => ret[s] \in granted \ refused

(* Every node of list_sub_sync_ack belongs to a call in progress and waits *)
(* for that call's last request, and no two do: none is left behind by a   *)
(* call that is over, whichever way it ended.                              *)
NodesAreOwned ==
    /\ \A i \in DOMAIN list_sub_sync_ack : \E s \in Subscribers :
          /\ pc[s] \in Waiting
          /\ subed[s]
          /\ ret[s] = list_sub_sync_ack[i].packet_id
    /\ \A i, j \in DOMAIN list_sub_sync_ack :
          list_sub_sync_ack[i].packet_id = list_sub_sync_ack[j].packet_id => i = j

(* A call returns: neither other yielding threads nor refused or lost      *)
(* requests keep it for ever.                                              *)
CallReturns ==
    \A s \in Subscribers :
        pc[s] = "subscribe" ~> pc[s] \in {"succeeded", "failed", "unwaited"}

(* "Subscribe MQTT topic and wait suback. ... @retval -1 : Subscribe       *)
(* failed" (mqtt_api.h:253-262): a call that waits for a SUBACK which has  *)
(* been read has the answer on its node, so that it does not wait until it *)
(* fails.                                                                  *)
AnswerIsFound ==
    \A s \in Subscribers :
        (pc[s] \in {"yield", "yielded", "scanned"} /\ ret[s] \in seen) =>
            \E i \in DOMAIN list_sub_sync_ack :
                /\ list_sub_sync_ack[i].packet_id = ret[s]
                /\ list_sub_sync_ack[i].ack_type # "UNDEF"

(* "Subscribe MQTT topic and wait suback" (mqtt_api.h:253): a call that    *)
(* returns an identifier has had the broker's answer to it.                *)
WaitsForSuback ==
    \A s \in Subscribers :
        pc[s] \in {"succeeded", "unwaited"} => ret[s] \in granted \cup refused
=============================================================================
