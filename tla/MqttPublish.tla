---------------------------- MODULE MqttPublish ----------------------------
(***************************************************************************)
(* QoS 1 publishing by the MQTT client (mqtt/iotx_mqtt_client.c): the list *)
(* of publishes that wait for a PUBACK, the packet identifiers, the sweep  *)
(* that republishes or frees the nodes of the list, and the connection     *)
(* underneath, which fails and is re-established.                          *)
(*                                                                         *)
(* A message of Msgs stands for one call of wrapper_mqtt_publish with QoS  *)
(* 1; the calls run concurrently with each other and with the thread in    *)
(* wrapper_mqtt_yield (the mutex lock_yield lets one thread through).  The *)
(* list node of a message is named by the message.                         *)
(***************************************************************************)
EXTENDS Integers, Sequences, FiniteSets

CONSTANTS Msgs,           \* the QoS 1 publish calls, each made once
          REPUB_NUM_MAX,  \* IOTX_MC_REPUB_NUM_MAX, longest wait list
          PACKET_ID_MAX,  \* IOTX_MC_PACKET_ID_MAX, the largest identifier
          MaxAllocs,      \* bound: identifiers allocated in a behaviour
          MaxDrops,       \* bound: connection failures in a behaviour
          MaxCopies       \* bound: copies of a message or its ack in flight

ASSUME PublishAssumption ==
    /\ IsFiniteSet(Msgs)
    /\ REPUB_NUM_MAX \in Nat \ {0}
    /\ PACKET_ID_MAX \in Nat \ {0}
    /\ MaxAllocs \in Nat
    /\ MaxDrops \in Nat
    /\ MaxCopies \in Nat \ {0}

VARIABLES
    client_state,       \* iotx_mc_client_t.client_state
    packet_id,          \* iotx_mc_client_t.packet_id
    list_pub_wait_ack,  \* the messages that have a node in the list
    node_state,         \* iotx_mc_pub_info_t.node_state
    due,                \* nodes whose pub_start_time is too old
    pc,                 \* where each publish call is, and what it returned
    msg_id,             \* the identifier a publish call was given
    yield_pc,           \* where the yielding thread is
    todo,               \* nodes MQTTPubInfoProc has still to look at
    net,                \* the connection: up, broken (down), or closed
    c2b, b2c,           \* PUBLISH packets and PUBACKs in flight
    delivered,          \* messages the broker has received
    allocs, seq,        \* history: identifiers allocated; the count when a
                        \* message got its own
    drops               \* connection failures so far

clientVars == <<client_state, packet_id, list_pub_wait_ack, node_state, due>>
callVars == <<pc, msg_id>>
netVars == <<net, c2b, b2c, delivered, drops>>
histVars == <<allocs, seq>>
vars == <<clientVars, callVars, yield_pc, todo, netVars, histVars>>

States == {"CONNECTED", "DISCONNECTED", "DISCONNECTED_RECONNECTING"}
Calls == {"idle", "alloc", "send", "error", "accepted", "refused"}

Copies(m) == Cardinality({i \in DOMAIN c2b : c2b[i] = m})
           + Cardinality({i \in DOMAIN b2c : b2c[i] = msg_id[m]})

\* MQTTPubInfoProc holds lock_list_pub from its first node to its last.
ListLocked == yield_pc = "proc"

Init ==
    /\ client_state = "CONNECTED"
    /\ packet_id = 0
    /\ list_pub_wait_ack = {}
    /\ node_state = [m \in Msgs |-> "NORMAL"]
    /\ due = {}
    /\ pc = [m \in Msgs |-> "idle"]
    /\ msg_id = [m \in Msgs |-> 0]
    /\ yield_pc = "keepalive"
    /\ todo = {}
    /\ net = "up"
    /\ c2b = <<>>
    /\ b2c = <<>>
    /\ delivered = {}
    /\ allocs = 0
    /\ seq = [m \in Msgs |-> 0]
    /\ drops = 0

-----------------------------------------------------------------------------
(* The transport.  A write on a broken connection may still succeed and is *)
(* lost; a failed write leaves a truncated packet, so the stream is broken *)
(* from then on; a write on a closed one fails.                            *)

Written(m) ==
    /\ net # "closed"
    /\ c2b' = IF net = "up" THEN Append(c2b, m) ELSE c2b
    /\ UNCHANGED <<net, b2c, delivered, drops>>

Broken ==
    /\ net = "up"
    /\ drops < MaxDrops
    /\ net' = "down"
    /\ drops' = drops + 1
    /\ c2b' = <<>>
    /\ b2c' = <<>>
    /\ UNCHANGED delivered

WriteFails ==
    \/ Broken
    \/ /\ net # "up"
       /\ UNCHANGED netVars

Closed == /\ net' = "closed"
          /\ c2b' = <<>>
          /\ b2c' = <<>>
          /\ UNCHANGED <<delivered, drops>>

\* Mutants: the identifier goes on from 0, or stays at its largest value.
NextPacketId_FromZero == IF packet_id = PACKET_ID_MAX THEN 0 ELSE packet_id + 1
NextPacketId_Saturates ==
    IF packet_id = PACKET_ID_MAX THEN packet_id ELSE packet_id + 1

NextPacketId == IF packet_id = PACKET_ID_MAX THEN 1 ELSE packet_id + 1

-----------------------------------------------------------------------------
(* wrapper_mqtt_publish *)

\* The state is checked once, at the start of the call.
CheckState(m) ==
    /\ pc[m] = "idle"
    /\ pc' = [pc EXCEPT ![m] = IF client_state = "CONNECTED"
                                 THEN "alloc" ELSE "refused"]
    /\ UNCHANGED <<clientVars, msg_id, yield_pc, todo, netVars, histVars>>

Allocate ==
    /\ allocs < MaxAllocs
    /\ packet_id' = NextPacketId
    /\ allocs' = allocs + 1
    /\ UNCHANGED <<client_state, list_pub_wait_ack, node_state, due,
                   yield_pc, todo, netVars>>

GetPacketId(m) ==
    /\ pc[m] = "alloc"
    /\ Allocate
    /\ pc' = [pc EXCEPT ![m] = "send"]
    /\ msg_id' = [msg_id EXCEPT ![m] = NextPacketId]
    /\ seq' = [seq EXCEPT ![m] = allocs + 1]

\* Subscribe, unsubscribe and the refused QoS 2 publish also take an
\* identifier from the counter.
GetOtherPacketId ==
    /\ Allocate
    /\ UNCHANGED <<callVars, seq>>

\* MQTTPublish holds lock_list_pub and lock_write_buf throughout: a full list
\* refuses the call; a failed send takes the node out again.
PushRefused(m) ==
    /\ pc[m] = "send"
    /\ ~ListLocked
    /\ Cardinality(list_pub_wait_ack) >= REPUB_NUM_MAX
    /\ pc' = [pc EXCEPT ![m] = "refused"]
    /\ UNCHANGED <<clientVars, msg_id, yield_pc, todo, netVars, histVars>>

PushAndSend(m) ==
    /\ pc[m] = "send"
    /\ ~ListLocked
    /\ Cardinality(list_pub_wait_ack) < REPUB_NUM_MAX
    /\ Written(m)
    /\ list_pub_wait_ack' = list_pub_wait_ack \cup {m}
    /\ node_state' = [node_state EXCEPT ![m] = "NORMAL"]
    /\ due' = due \ {m}
    /\ pc' = [pc EXCEPT ![m] = "accepted"]
    /\ UNCHANGED <<client_state, packet_id, msg_id, yield_pc, todo, histVars>>

\* Mutant: the node stays in the list.
PushSendFails_NodeStays(m) ==
    /\ pc[m] = "send"
    /\ ~ListLocked
    /\ Cardinality(list_pub_wait_ack) < REPUB_NUM_MAX
    /\ WriteFails
    /\ list_pub_wait_ack' = list_pub_wait_ack \cup {m}
    /\ pc' = [pc EXCEPT ![m] = "error"]
    /\ UNCHANGED <<client_state, packet_id, node_state, due, msg_id, yield_pc,
                   todo, histVars>>

PushSendFails(m) ==
    /\ pc[m] = "send"
    /\ ~ListLocked
    /\ Cardinality(list_pub_wait_ack) < REPUB_NUM_MAX
    /\ WriteFails
    /\ pc' = [pc EXCEPT ![m] = "error"]
    /\ UNCHANGED <<clientVars, msg_id, yield_pc, todo, histVars>>

\* After the locks are released a network error marks the client
\* disconnected, whatever its state has become meanwhile.
SetDisconnected(m) ==
    /\ pc[m] = "error"
    /\ client_state' = "DISCONNECTED"
    /\ pc' = [pc EXCEPT ![m] = "refused"]
    /\ UNCHANGED <<packet_id, list_pub_wait_ack, node_state, due, msg_id,
                   yield_pc, todo, netVars, histVars>>

-----------------------------------------------------------------------------
(* The yielding thread: one iotx_mc_keepalive, then iotx_mc_cycle and, when *)
(* it succeeded, MQTTPubInfoProc.                                           *)

KeepaliveConnected ==
    /\ yield_pc = "keepalive"
    /\ client_state = "CONNECTED"
    /\ yield_pc' = "read"
    /\ UNCHANGED <<clientVars, callVars, todo, netVars, histVars>>

KeepaliveDisconnected ==
    /\ yield_pc = "keepalive"
    /\ client_state = "DISCONNECTED"
    /\ Closed
    /\ client_state' = "DISCONNECTED_RECONNECTING"
    /\ yield_pc' = "read"
    /\ UNCHANGED <<packet_id, list_pub_wait_ack, node_state, due, callVars,
                   todo, histVars>>

\* attempt_reconnect closes the old connection before it opens a new one.
KeepaliveReconnect ==
    /\ yield_pc = "keepalive"
    /\ client_state = "DISCONNECTED_RECONNECTING"
    /\ net' = "up"
    /\ c2b' = <<>>
    /\ b2c' = <<>>
    /\ client_state' = "CONNECTED"
    /\ yield_pc' = "read"
    /\ UNCHANGED <<packet_id, list_pub_wait_ack, node_state, due, callVars,
                   todo, delivered, drops, histVars>>

KeepaliveReconnectFails ==
    /\ yield_pc = "keepalive"
    /\ client_state = "DISCONNECTED_RECONNECTING"
    /\ Closed
    /\ yield_pc' = "read"
    /\ UNCHANGED <<clientVars, callVars, todo, histVars>>

CycleNotConnected ==
    /\ yield_pc = "read"
    /\ client_state # "CONNECTED"
    /\ yield_pc' = "keepalive"
    /\ UNCHANGED <<clientVars, callVars, todo, netVars, histVars>>

ToSweep == /\ yield_pc' = "proc"
           /\ todo' = list_pub_wait_ack

\* Mutant: a PUBACK acknowledges the earlier identifiers too.
MaskPubInfo_Cumulative(id) ==
    node_state' = [m \in Msgs |->
        IF m \in list_pub_wait_ack /\ msg_id[m] <= id
          THEN "INVALID" ELSE node_state[m]]

\* A PUBACK marks every node that has its identifier.
MaskPubInfo(id) ==
    node_state' = [m \in Msgs |->
        IF m \in list_pub_wait_ack /\ msg_id[m] = id
          THEN "INVALID" ELSE node_state[m]]

CyclePuback ==
    /\ yield_pc = "read"
    /\ client_state = "CONNECTED"
    /\ b2c # <<>>
    /\ MaskPubInfo(Head(b2c))
    /\ b2c' = Tail(b2c)
    /\ ToSweep
    /\ UNCHANGED <<client_state, packet_id, list_pub_wait_ack, due, callVars,
                   net, c2b, delivered, drops, histVars>>

\* Mutant: only a packet is followed by the sweep.
CycleIdle_NoSweep ==
    /\ yield_pc = "read"
    /\ client_state = "CONNECTED"
    /\ b2c = <<>>
    /\ yield_pc' = "keepalive"
    /\ UNCHANGED <<clientVars, callVars, todo, netVars, histVars>>

\* Nothing to read before the timeout is a success too.
CycleIdle ==
    /\ yield_pc = "read"
    /\ client_state = "CONNECTED"
    /\ b2c = <<>>
    /\ ToSweep
    /\ UNCHANGED <<clientVars, callVars, netVars, histVars>>

CycleReadError ==
    /\ yield_pc = "read"
    /\ client_state = "CONNECTED"
    /\ net # "up"
    /\ client_state' = "DISCONNECTED"
    /\ yield_pc' = "keepalive"
    /\ UNCHANGED <<packet_id, list_pub_wait_ack, node_state, due, callVars,
                   todo, netVars, histVars>>

\* MQTTPubInfoProc, one node of the list at a time.
FreeInvalid(m) ==
    /\ m \in todo
    /\ node_state[m] = "INVALID"
    /\ list_pub_wait_ack' = list_pub_wait_ack \ {m}
    /\ todo' = todo \ {m}
    /\ UNCHANGED <<client_state, packet_id, node_state, due, callVars,
                   yield_pc, netVars, histVars>>

SkipNode(m) ==
    /\ m \in todo
    /\ node_state[m] = "NORMAL"
    /\ client_state # "CONNECTED" \/ m \notin due
    /\ todo' = todo \ {m}
    /\ UNCHANGED <<clientVars, callVars, yield_pc, netVars, histVars>>

Overdue(m) ==
    /\ m \in todo
    /\ node_state[m] = "NORMAL"
    /\ client_state = "CONNECTED"
    /\ m \in due
    /\ due' = due \ {m}
    /\ UNCHANGED <<packet_id, list_pub_wait_ack, callVars, yield_pc, histVars>>

Republish(m) ==
    /\ Overdue(m)
    /\ Written(m)
    /\ todo' = todo \ {m}
    /\ UNCHANGED <<client_state, node_state>>

\* Mutant: the node is given up with the failed republish.
RepublishFails_NodeFreed(m) ==
    /\ Overdue(m)
    /\ WriteFails
    /\ client_state' = "DISCONNECTED"
    /\ node_state' = [node_state EXCEPT ![m] = "INVALID"]
    /\ todo' = {}

RepublishFails(m) ==
    /\ Overdue(m)
    /\ WriteFails
    /\ client_state' = "DISCONNECTED"
    /\ todo' = {}
    /\ UNCHANGED node_state

EndSweep ==
    /\ yield_pc = "proc"
    /\ todo = {}
    /\ yield_pc' = "keepalive"
    /\ UNCHANGED <<clientVars, callVars, todo, netVars, histVars>>

-----------------------------------------------------------------------------
(* Environment: the broker, the clock and the network. *)

BrokerReceives ==
    /\ net = "up"
    /\ c2b # <<>>
    /\ delivered' = delivered \cup {Head(c2b)}
    /\ c2b' = Tail(c2b)
    /\ b2c' = Append(b2c, msg_id[Head(c2b)])
    /\ UNCHANGED <<clientVars, callVars, yield_pc, todo, net, drops, histVars>>

\* Two request timeouts have gone by since the node was last sent.
TimePasses(m) ==
    /\ m \in list_pub_wait_ack \ due
    /\ Copies(m) < MaxCopies
    /\ due' = due \cup {m}
    /\ UNCHANGED <<client_state, packet_id, list_pub_wait_ack, node_state,
                   callVars, yield_pc, todo, netVars, histVars>>

ConnectionBreaks ==
    /\ Broken
    /\ UNCHANGED <<clientVars, callVars, yield_pc, todo, histVars>>

-----------------------------------------------------------------------------
Publishing(m) ==
    \/ CheckState(m) \/ GetPacketId(m)
    \/ PushRefused(m) \/ PushAndSend(m) \/ PushSendFails(m)
    \/ SetDisconnected(m)

Sweeping(m) ==
    FreeInvalid(m) \/ SkipNode(m) \/ Republish(m) \/ RepublishFails(m)

Yielding ==
    \/ KeepaliveConnected \/ KeepaliveDisconnected
    \/ KeepaliveReconnect \/ KeepaliveReconnectFails
    \/ CycleNotConnected \/ CyclePuback \/ CycleIdle \/ CycleReadError
    \/ \E m \in Msgs : Sweeping(m)
    \/ EndSweep

Environment ==
    BrokerReceives \/ ConnectionBreaks \/ \E m \in Msgs : TimePasses(m)

Next ==
    \/ \E m \in Msgs : Publishing(m)
    \/ GetOtherPacketId
    \/ Yielding
    \/ Environment

Spec == Init /\ [][Next]_vars

\* The application keeps calling IOT_MQTT_Yield, a pending publish call runs
\* on, time passes, the broker reads what reaches it; a reconnection that is
\* tried again and again succeeds in the end, and so does the detection of a
\* broken connection (a failing read, or the unanswered pings).
Fairness ==
    /\ WF_vars(Yielding)
    /\ WF_vars(BrokerReceives)
    /\ SF_vars(KeepaliveReconnect)
    /\ SF_vars(CycleReadError)
    /\ \A m \in Msgs : WF_vars(TimePasses(m))
    /\ \A m \in Msgs : WF_vars(SetDisconnected(m))

FairSpec == Spec /\ Fairness

-----------------------------------------------------------------------------
(* Properties *)

\* Every variable keeps its type; the wait list never exceeds
\* IOTX_MC_REPUB_NUM_MAX and an identifier is never 0 once allocated.
TypeOK ==
    /\ client_state \in States
    /\ packet_id \in 0..PACKET_ID_MAX
    /\ list_pub_wait_ack \in SUBSET Msgs
    /\ Cardinality(list_pub_wait_ack) <= REPUB_NUM_MAX
    /\ node_state \in [Msgs -> {"NORMAL", "INVALID"}]
    /\ due \in SUBSET Msgs
    /\ pc \in [Msgs -> Calls]
    /\ msg_id \in [Msgs -> 0..PACKET_ID_MAX]
    /\ \A m \in Msgs : pc[m] \in {"send", "accepted", "error"} => msg_id[m] # 0
    /\ yield_pc \in {"keepalive", "read", "proc"}
    /\ todo \in SUBSET list_pub_wait_ack
    /\ net \in {"up", "down", "closed"}
    /\ c2b \in Seq(Msgs)
    /\ b2c \in Seq(1..PACKET_ID_MAX)
    /\ delivered \in SUBSET Msgs
    /\ allocs \in 0..MaxAllocs
    /\ seq \in [Msgs -> 0..MaxAllocs]
    /\ drops \in 0..MaxDrops

Outstanding(m) == m \in list_pub_wait_ack /\ node_state[m] = "NORMAL"

\* Two unacknowledged publishes have the same packet identifier only when the
\* counter of iotx_mc_get_next_packetid has gone all the way round between
\* them: fewer than IOTX_MC_PACKET_ID_MAX allocations apart, a PUBACK marks one
\* node.
IdsDistinct ==
    \A m, n \in Msgs :
        /\ Outstanding(m) /\ Outstanding(n) /\ m # n
        /\ seq[m] - seq[n] \in -(PACKET_ID_MAX - 1) .. (PACKET_ID_MAX - 1)
        => msg_id[m] # msg_id[n]

\* As long as the counter has not wrapped, a message whose publish returned
\* success is with the broker, or its node is in the list and unmarked, to be
\* sent again: neither a disconnection nor a stray PUBACK loses it.
AcceptedIsKept ==
    allocs <= PACKET_ID_MAX =>
        \A m \in Msgs : pc[m] = "accepted" => m \in delivered \/ Outstanding(m)

\* The message of a publish that returned an error never reaches the broker,
\* at once or by a later republish: the application may safely retry.
RefusedIsNotSent ==
    \A m \in Msgs : pc[m] \in {"error", "refused"} => m \notin delivered

\* What the application may think of a publish: "settled" is a node marked by a
\* PUBACK or already freed.
StatusOf(m) ==
    CASE pc[m] \in {"idle", "alloc", "send"} -> "new"
      [] pc[m] \in {"error", "refused"} -> "refused"
      [] pc[m] = "accepted" -> IF Outstanding(m) THEN "pending" ELSE "settled"

appStatus == [m \in Msgs |-> StatusOf(m)]

Promise == INSTANCE AtLeastOnce WITH status <- appStatus

\* Until the counter wraps, the publish calls, the sweep and the PUBACKs of the
\* client implement at-least-once delivery.
KeepsPromise == Promise!Spec

\* Once the connection stops failing every accepted message is acknowledged
\* and its node is freed.
EventuallyAcked ==
    \A m \in Msgs : pc[m] = "accepted" ~> m \in delivered \ list_pub_wait_ack

=============================================================================
