------------------------------ MODULE MqttLocks ------------------------------
(***************************************************************************)
(* The five mutexes of an MQTT client and the order in which its functions *)
(* take them.  They are not recursive (HAL_MutexCreate of wrapper_os.c).   *)
(*                                                                         *)
(* Of the code only its control flow between the calls of HAL_MutexLock,   *)
(* HAL_MutexUnlock and the application's callbacks is left: a graph whose  *)
(* nodes are points of the code and whose edges take a lock, give one back *)
(* or decide something.  What the decisions depend on is left out, so every*)
(* early return and every way round a loop is a path of the graph.         *)
(*                                                                         *)
(* A thread is at one point of wrapper_mqtt_yield.  Where this calls the   *)
(* application, and where the thread is not in wrapper_mqtt_yield at all,  *)
(* it may be inside another call of the API.  Subscribe_Sync is, from one  *)
(* of _handle_event's callbacks, a subscribe (it sees _in_yield_cb), and   *)
(* else a sequence of subscribe, sync_list and yield.                      *)
(***************************************************************************)
EXTENDS Naturals

CONSTANTS
    Threads,        \* the application's threads
    NoThread,       \* the holder of a free lock
    MaxRounds       \* how often the loops of one wrapper_mqtt_yield go round

ASSUME LocksAssumption == NoThread \notin Threads /\ MaxRounds \in Nat

Lock == {"lock_yield", "lock_read_buf", "lock_list_pub", "lock_write_buf", "lock_generic"}
NoLock == "none"

(* A point <<NoLock, p>> is the point p; <<l, p>> is the inside of a short *)
(* section of lock l that leads to p.                                      *)
At(p) == <<NoLock, p>>

Take(p, l, q)    == {[from |-> At(p), op |-> "lock", lock |-> l, to |-> At(q)]}
Give(p, l, q)    == {[from |-> At(p), op |-> "unlock", lock |-> l, to |-> At(q)]}
Go(p, q)         == {[from |-> At(p), op |-> "go", lock |-> NoLock, to |-> At(q)]}
Back(p, q)       == {[from |-> At(p), op |-> "back", lock |-> NoLock, to |-> At(q)]}
Section(p, l, q) == {[from |-> At(p), op |-> "lock", lock |-> l, to |-> <<l, q>>],
                     [from |-> <<l, q>>, op |-> "unlock", lock |-> l, to |-> At(q)]}

-----------------------------------------------------------------------------
(* wrapper_mqtt_yield.                                                     *)

(* iotx_mc_read_packet: from p to read, or to overflow, where the handler  *)
(* is told that the buffer is too short.                                   *)
ReadPacket(p, overflow, read) ==
    Section(p, "lock_read_buf", read)
    \cup Section(p, "lock_read_buf", overflow) \cup Go(overflow, read)

(* The first half: iotx_mc_keepalive with iotx_mc_keepalive_sub.           *)
PingCode ==
    Section("keepalive", "lock_generic", "ping_due")    \* connected?
    \cup Go("ping_due", "state")
    \cup Section("ping_due", "lock_write_buf", "pinged")
    \cup Go("pinged", "state")
    \cup Section("pinged", "lock_generic", "state")

KeepaliveCode ==
    Take("idle", "lock_yield", "keepalive")
    \cup PingCode
    \cup Section("state", "lock_generic", "kept_alive")
    \cup Section("state", "lock_generic", "disconnected")
    \cup Section("state", "lock_generic", "reconnecting")
    \cup Go("disconnected", "closed")                   \* DISCONNECT
    \cup Section("closed", "lock_generic", "kept_alive")
    \cup Section("reconnecting", "lock_generic", "reconnect_due")
    \cup Give("kept_alive", "lock_yield", "cycle_start")

(* iotx_mc_handle_reconnect, _mqtt_connect and iotx_mc_wait_CONNACK.       *)
ReconnectCode ==
    Go("reconnect_due", "kept_alive")
    \cup Go("reconnect_due", "connect")
    \cup Section("connect", "lock_write_buf", "kept_alive")
    \cup Section("connect", "lock_write_buf", "connack")
    \cup ReadPacket("connack", "connack_overflow", "connack_read")
    \cup Back("connack_read", "connack")
    \cup Section("connack_read", "lock_read_buf", "connack_wrong")
    \cup Back("connack_wrong", "connect")
    \cup Go("connack_wrong", "kept_alive")
    \cup Section("connack_read", "lock_read_buf", "connected")
    \cup Section("connected", "lock_generic", "reconnected")
    \cup Section("reconnected", "lock_generic", "told")
    \cup Go("told", "kept_alive")                       \* RECONNECT

(* The second half: _mqtt_cycle and iotx_mc_cycle.                         *)
CycleCode ==
    Take("cycle_start", "lock_yield", "cycle")
    \cup Section("cycle", "lock_generic", "cycled")     \* not connected
    \cup Section("cycle", "lock_generic", "probes")
    \cup Go("probes", "reading")
    \cup Section("probes", "lock_generic", "reading")
    \cup ReadPacket("reading", "overflow", "read")
    \cup Section("read", "lock_read_buf", "read_nothing")
    \cup Go("read_nothing", "pub_info")
    \cup Go("read_nothing", "cycled")
    \cup Section("read_nothing", "lock_generic", "cycled")
    \cup Section("read", "lock_generic", "packet")
    \cup Take("packet", "lock_read_buf", "handle")
    \cup Give("handled", "lock_read_buf", "pub_info")
    \cup Give("handled", "lock_read_buf", "cycled")
    \cup Give("cycled", "lock_yield", "slept")
    \cup Back("slept", "cycle_start")
    \cup Go("slept", "idle")

(* The handlers of the packets that need no more than an event: of PUBACK, *)
(* SUBACK and UNSUBACK; and nothing, for CONNACK and PINGRESP.             *)
AckCode ==
    Section("handle", "lock_list_pub", "event")
    \cup Section("handle", "lock_generic", "event")
    \cup Go("handle", "event")
    \cup Go("event", "handled")
    \cup Go("handle", "handled")

\* Mutant: the handlers are called with the list of handlers locked.
DeliverCode_LockKept ==
    Section("handle", "lock_generic", "unmatched")
    \cup Go("unmatched", "delivered")
    \cup Take("handle", "lock_generic", "deliver")
    \cup Go("deliver", "deliver_more")
    \cup Back("deliver_more", "deliver")
    \cup Give("deliver_more", "lock_generic", "delivered")
    \cup Go("delivered", "handled")
    \cup Section("delivered", "lock_write_buf", "handled")

(* iotx_mc_handle_recv_PUBLISH: iotx_mc_deliver_message lets lock_generic  *)
(* go around each handler's call, and MQTTPuback answers.                  *)
DeliverCode ==
    Section("handle", "lock_generic", "unmatched")
    \cup Go("unmatched", "delivered")
    \cup Section("handle", "lock_generic", "deliver")
    \cup Section("deliver", "lock_generic", "deliver_more")
    \cup Back("deliver_more", "deliver")
    \cup Go("deliver_more", "delivered")
    \cup Go("delivered", "handled")
    \cup Section("delivered", "lock_write_buf", "handled")

\* Mutant: the write buffer is locked before the list.
PubInfoCode_WriteFirst ==
    Take("pub_info", "lock_write_buf", "node_old")
    \cup Section("node_old", "lock_list_pub", "republished")
    \cup Section("republished", "lock_generic", "listed")
    \cup Go("republished", "listed")
    \cup Give("listed", "lock_write_buf", "cycled")

(* MQTTPubInfoProc and MQTTRePublish.                                      *)
PubInfoCode ==
    Take("pub_info", "lock_list_pub", "node")
    \cup Section("node", "lock_generic", "node_old")
    \cup Section("node_old", "lock_write_buf", "republished")
    \cup Section("republished", "lock_generic", "listed")
    \cup Go("republished", "node_done")
    \cup Go("node_old", "node_done")
    \cup Go("node", "node_done")
    \cup Back("node_done", "node")
    \cup Go("node_done", "listed")
    \cup Give("listed", "lock_list_pub", "cycled")

-----------------------------------------------------------------------------
(* The other calls of the API, each from its own point to "return".        *)

\* Mutant: a failure leaves the list locked.
PublishCode_ListKept ==
    Section("publish", "lock_generic", "publish_packet")
    \cup Take("publish_packet", "lock_list_pub", "publish_send")
    \cup Section("publish_send", "lock_write_buf", "publish_sent")
    \cup Section("publish_send", "lock_write_buf", "publish_end")
    \cup Give("publish_sent", "lock_list_pub", "publish_end")
    \cup Go("publish_end", "return")
    \cup Section("publish_end", "lock_generic", "return")

(* wrapper_mqtt_publish.                                                   *)
PublishCode ==
    Go("publish", "return")
    \cup Section("publish", "lock_generic", "publish_checked")
    \cup Go("publish_checked", "return")
    \cup Go("publish_checked", "publish_packet")        \* QoS 0
    \cup Section("publish_checked", "lock_generic", "publish_packet")
    \cup Take("publish_packet", "lock_list_pub", "publish_send")
    \cup Section("publish_send", "lock_write_buf", "publish_sent")
    \cup Give("publish_sent", "lock_list_pub", "publish_end")
    \cup Go("publish_end", "return")
    \cup Section("publish_end", "lock_generic", "return")

(* wrapper_mqtt_subscribe.                                                 *)
SubscribeCode ==
    Section("subscribe", "lock_generic", "subscribe_id")
    \cup Section("subscribe_id", "lock_generic", "subscribe_checked")
    \cup Go("subscribe_checked", "return")
    \cup Section("subscribe_checked", "lock_write_buf", "subscribe_sent")
    \cup Go("subscribe_sent", "return")
    \cup Section("subscribe_sent", "lock_generic", "return")

(* wrapper_mqtt_unsubscribe.                                               *)
UnsubscribeCode ==
    Section("unsubscribe", "lock_generic", "unsubscribe_id")
    \cup Section("unsubscribe_id", "lock_generic", "unsubscribe_checked")
    \cup Go("unsubscribe_checked", "return")
    \cup Take("unsubscribe_checked", "lock_write_buf", "unsubscribe_send")
    \cup Section("unsubscribe_send", "lock_generic", "unsubscribe_sent")
    \cup Give("unsubscribe_sent", "lock_write_buf", "return")
    \cup Give("unsubscribe_send", "lock_write_buf", "unsubscribe_failed")
    \cup Go("unsubscribe_failed", "return")
    \cup Section("unsubscribe_failed", "lock_generic", "return")

(* wrapper_mqtt_check_state, and what wrapper_mqtt_subscribe_sync does to  *)
(* list_sub_sync_ack.                                                      *)
StateCode == Section("check_state", "lock_generic", "return")
SyncListCode == Section("sync_list", "lock_generic", "return")

YieldCode == KeepaliveCode \cup ReconnectCode \cup CycleCode
             \cup AckCode \cup DeliverCode \cup PubInfoCode
CallCode  == PublishCode \cup SubscribeCode \cup UnsubscribeCode
             \cup StateCode \cup SyncListCode

Code == YieldCode \cup CallCode

YieldNames == {
    "idle", "keepalive", "ping_due", "pinged", "state", "kept_alive",
    "disconnected", "closed", "reconnecting", "reconnect_due", "connect", "connack",
    "connack_overflow", "connack_read", "connack_wrong", "connected", "reconnected",
    "told", "cycle_start", "cycle", "probes", "reading", "overflow", "read",
    "read_nothing", "packet", "handle", "event", "unmatched", "deliver",
    "deliver_more", "delivered", "handled", "pub_info", "node", "node_old",
    "republished", "node_done", "listed", "cycled", "slept"}

CallNames == {
    "publish", "publish_checked", "publish_packet", "publish_send", "publish_sent",
    "publish_end", "subscribe", "subscribe_id", "subscribe_checked", "subscribe_sent",
    "unsubscribe", "unsubscribe_id", "unsubscribe_checked", "unsubscribe_send",
    "unsubscribe_sent", "unsubscribe_failed", "check_state", "sync_list", "return"}

YieldPoints == (Lock \cup {NoLock}) \X YieldNames
CallPoints  == (Lock \cup {NoLock}) \X CallNames

EdgesFrom == [p \in YieldPoints \cup CallPoints |-> {e \in Code : e.from = p}]

(* Where wrapper_mqtt_yield calls the application.                         *)
Callbacks == {At(p) : p \in {"connack_overflow", "overflow", "event", "deliver",
                             "unmatched", "disconnected", "told"}}

Operations == {At(p) : p \in {"publish", "subscribe", "unsubscribe", "check_state",
                              "sync_list"}}

Idle == At("idle")          \* not in wrapper_mqtt_yield
Nowhere == At("return")     \* not in another call

-----------------------------------------------------------------------------
VARIABLES
    yielding,       \* yielding[t]: where in wrapper_mqtt_yield thread t is
    calling,        \* calling[t]: where in another call it is
    holder,         \* holder[l]: the thread that has lock l
    rounds          \* rounds[t]: how often loops went round in this yield

vars == <<yielding, calling, holder, rounds>>

Init ==
    /\ yielding = [t \in Threads |-> Idle]
    /\ calling = [t \in Threads |-> Nowhere]
    /\ holder = [l \in Lock |-> NoThread]
    /\ rounds = [t \in Threads |-> 0]

(* The point whose edges thread t can follow.                              *)
Point(t) == IF calling[t] # Nowhere THEN calling[t] ELSE yielding[t]

EdgesAt(t) == EdgesFrom[Point(t)]

MoveTo(t, p) ==
    IF calling[t] # Nowhere
    THEN calling' = [calling EXCEPT ![t] = p] /\ UNCHANGED yielding
    ELSE yielding' = [yielding EXCEPT ![t] = p] /\ UNCHANGED calling

(* The application, from its own code or from a callback, calls the API.   *)
Call(t, op) ==
    /\ calling[t] = Nowhere
    /\ yielding[t] = Idle \/ yielding[t] \in Callbacks
    /\ yielding[t] # Idle => rounds[t] < MaxRounds
    /\ rounds' = [rounds EXCEPT ![t] = IF yielding[t] = Idle THEN @ ELSE @ + 1]
    /\ calling' = [calling EXCEPT ![t] = op]
    /\ UNCHANGED <<yielding, holder>>

(* HAL_MutexLock.                                                          *)
Acquire(t, e) ==
    /\ e.op = "lock"
    /\ holder[e.lock] = NoThread
    /\ holder' = [holder EXCEPT ![e.lock] = t]
    /\ MoveTo(t, e.to)
    /\ UNCHANGED rounds

(* HAL_MutexUnlock.                                                        *)
Release(t, e) ==
    /\ e.op = "unlock"
    /\ holder' = [holder EXCEPT ![e.lock] = NoThread]
    /\ MoveTo(t, e.to)
    /\ UNCHANGED rounds

Decide(t, e) ==
    /\ e.op = "go"
    /\ MoveTo(t, e.to)
    /\ rounds' = [rounds EXCEPT ![t] = IF e.to = Idle THEN 0 ELSE @]
    /\ UNCHANGED holder

\* Mutant: the reads for a CONNACK are not counted.
GoRound_NoMax(t, e) ==
    /\ e.op = "back"
    /\ MoveTo(t, e.to)
    /\ rounds' = [rounds EXCEPT ![t] = @ + 1]
    /\ UNCHANGED holder

\* Mutant: a yield does not look at its time.
GoRound_Endless(t, e) ==
    /\ e.op = "back"
    /\ MoveTo(t, e.to)
    /\ UNCHANGED <<rounds, holder>>

(* The nodes of a list, the reads of a CONNACK and the cycles of a yield   *)
(* are finitely many.                                                      *)
GoRound(t, e) ==
    /\ e.op = "back"
    /\ rounds[t] < MaxRounds
    /\ MoveTo(t, e.to)
    /\ rounds' = [rounds EXCEPT ![t] = @ + 1]
    /\ UNCHANGED holder

Step(t) == \E e \in EdgesAt(t) :
    Acquire(t, e) \/ Release(t, e) \/ Decide(t, e) \/ GoRound(t, e)

Next == \E t \in Threads :
    \/ \E op \in Operations : Call(t, op)
    \/ Step(t)

Spec == Init /\ [][Next]_vars

(* A call goes on where it can, and a mutex is not given past a thread for *)
(* ever.  No thread has to begin to yield.                                 *)
Fairness == \A t \in Threads :
    /\ WF_vars(Point(t) # Idle /\ Step(t))
    /\ SF_vars(Point(t) # Idle /\ \E e \in EdgesAt(t) : Acquire(t, e))

FairSpec == Spec /\ Fairness

-----------------------------------------------------------------------------
(* The locks' order, outermost first.                                      *)
Rank(l) ==
    IF l = "lock_yield" THEN 1
    ELSE IF l = "lock_read_buf" THEN 2
    ELSE IF l = "lock_list_pub" THEN 3
    ELSE IF l = "lock_write_buf" THEN 4
    ELSE 5

Waiting(t) == \E e \in EdgesAt(t) : e.op = "lock" /\ holder[e.lock] # NoThread

(* The types of the variables.                                             *)
TypeOK ==
    /\ yielding \in [Threads -> YieldPoints]
    /\ calling \in [Threads -> CallPoints]
    /\ holder \in [Lock -> Threads \cup {NoThread}]
    /\ rounds \in [Threads -> 0 .. MaxRounds]

(* A thread asks only for locks after all those it has: on no path of any  *)
(* function, a callback that calls the API included, does it ask for one   *)
(* it has itself, or for two in the wrong order.                           *)
InOrder ==
    \A t \in Threads : \A e \in EdgesAt(t) :
        e.op = "lock" => \A l \in Lock : holder[l] = t => Rank(l) < Rank(e.lock)

(* A lock is given back by the thread that took it, on every return: a     *)
(* thread in no call of the client has none of its locks.                  *)
NothingKept ==
    \A t \in Threads :
        /\ \A e \in EdgesAt(t) : e.op = "unlock" => holder[e.lock] = t
        /\ Point(t) = Idle => \A l \in Lock : holder[l] # t

(* While locks are held, one of their holders waits for none, whatever it  *)
(* decides next: the threads never all wait for each other.                *)
HolderMoves ==
    (\E l \in Lock : holder[l] # NoThread) =>
        \E l \in Lock : holder[l] # NoThread /\ ~Waiting(holder[l])

(* Every call of the API ends, whatever the other threads call.            *)
CallsEnd == \A t \in Threads :
    Point(t) # Idle ~> Point(t) = Idle
=============================================================================
