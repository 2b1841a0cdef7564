---------------------------- MODULE MqttHandlers ----------------------------
(***************************************************************************)
(* The list of topic handlers of an MQTT client (list_sub_handle) under    *)
(* the three operations that share it: MQTTSubscribe appends to it,        *)
(* MQTTUnsubscribe removes from it, and iotx_mc_deliver_message walks it   *)
(* for an incoming PUBLISH, leaving lock_generic around every callback.    *)
(*                                                                         *)
(* One step is one critical section.  MQTTSubscribe has two: the packet is *)
(* sent under lock_write_buf and the handler is appended later, under      *)
(* lock_generic.  MQTTUnsubscribe holds lock_write_buf from the send to    *)
(* the removal.  Deliveries are made under lock_yield, so there is one     *)
(* walk at a time; a callback that subscribes or unsubscribes does so      *)
(* without any lock of this list and is one of the Callers here.           *)
(***************************************************************************)
EXTENDS MqttTopic, Functions

CONSTANTS
    Callers,        \* the contexts that call the subscription interface
    Filters,        \* the topic filters they use
    Names,          \* the topic names of incoming messages
    Funcs,          \* pairs of a callback and its context
    MaxNodes,       \* how many subscriptions are attempted
    MaxUnsubs       \* how many times an Unsubscribe is called

ASSUME HandlersAssumption ==
    /\ \A f \in Filters : f \in Seq(Char) /\ iotx_mc_check_topic(f, "TOPIC_FILTER_TYPE")
    /\ \A n \in Names : WellFormedName(n)
    /\ MaxNodes \in Nat /\ MaxUnsubs \in Nat

VARIABLES
    list_sub_handle,    \* the handlers: node (the allocation), filter and function
    calls,              \* calls[t]: what thread t's MQTTSubscribe still has to append
    nodes,              \* the allocations made so far
    unsubs,             \* the Unsubscribe calls made so far
    walk,               \* the delivery in progress, or the last one
    subscribed          \* history: the subscriptions the application was granted
                        \*   and has not cancelled

handlerVars == <<list_sub_handle, calls, nodes, unsubs, walk, subscribed>>

Handler == [node : 1 .. MaxNodes, filter : Filters, h_fp : Funcs]
NoCall == [node |-> 0]

Nodes == {list_sub_handle[i].node : i \in DOMAIN list_sub_handle}
PositionOf(node) == CHOOSE i \in DOMAIN list_sub_handle : list_sub_handle[i].node = node

HandlersInit ==
    /\ list_sub_handle = <<>>
    /\ calls = [t \in Callers |-> NoCall]
    /\ nodes = 0
    /\ unsubs = 0
    /\ walk = [state |-> "none"]
    /\ subscribed = {}

-----------------------------------------------------------------------------
\* Mutant: two subscriptions share an allocation.
SendSubscribe_Shared(t, f, g) ==
    /\ calls[t] = NoCall
    /\ nodes < MaxNodes
    /\ \E n \in {nodes, nodes + 1} :
          /\ nodes' = n
          /\ calls' = [calls EXCEPT ![t] =
                [node |-> nodes + 1, filter |-> f, h_fp |-> g]]
    /\ UNCHANGED <<list_sub_handle, unsubs, walk, subscribed>>

(* MQTTSubscribe: allocate the handler and send the packet.  A packet that *)
(* is not sent frees the handler, and nothing else has changed.            *)
SendSubscribe(t, f, g) ==
    /\ calls[t] = NoCall
    /\ nodes < MaxNodes
    /\ nodes' = nodes + 1
    /\ calls' = [calls EXCEPT ![t] = [node |-> nodes + 1, filter |-> f, h_fp |-> g]]
    /\ UNCHANGED <<list_sub_handle, unsubs, walk, subscribed>>

SendFails(t) ==
    /\ calls[t] = NoCall
    /\ nodes < MaxNodes
    /\ nodes' = nodes + 1
    /\ UNCHANGED <<list_sub_handle, calls, unsubs, walk, subscribed>>

(* iotx_mc_check_handle_is_identical: the topic, the function, the context *)
Identical(h, k) == h.filter = k.filter /\ h.h_fp = k.h_fp

\* Mutant: no test for an identical handler.
AppendHandler_Unchecked(t) ==
    /\ calls[t] # NoCall
    /\ list_sub_handle' = Append(list_sub_handle, calls[t])
    /\ subscribed' = subscribed \cup {<<calls[t].filter, calls[t].h_fp>>}
    /\ calls' = [calls EXCEPT ![t] = NoCall]
    /\ UNCHANGED <<nodes, unsubs, walk>>

(* ... and append the handler unless an identical one is in the list.      *)
AppendHandler(t) ==
    /\ calls[t] # NoCall
    /\ list_sub_handle' =
          IF \E i \in DOMAIN list_sub_handle : Identical(list_sub_handle[i], calls[t])
          THEN list_sub_handle
          ELSE Append(list_sub_handle, calls[t])
    /\ subscribed' = subscribed \cup {<<calls[t].filter, calls[t].h_fp>>}
    /\ calls' = [calls EXCEPT ![t] = NoCall]
    /\ UNCHANGED <<nodes, unsubs, walk>>

(* The handlers the walk of MQTTUnsubscribe over the list leaves in it.    *)
Remaining(list, f) ==
    LET rest[i \in 0 .. Len(list)] ==
            IF i = 0 THEN <<>>
            ELSE IF UnsubscribeRemoves(list[i].filter, f)
            THEN rest[i - 1]
            ELSE Append(rest[i - 1], list[i])
    IN  rest[Len(list)]

(* MQTTUnsubscribe: the packet is sent, and every handler the test finds   *)
(* is taken out of the list and freed.                                     *)
Unsubscribe(t, f) ==
    /\ calls[t] = NoCall
    /\ unsubs < MaxUnsubs
    /\ unsubs' = unsubs + 1
    /\ list_sub_handle' = Remaining(list_sub_handle, f)
    /\ subscribed' = {s \in subscribed : s[1] # f}
    /\ UNCHANGED <<calls, nodes, walk>>

-----------------------------------------------------------------------------
(* iotx_mc_deliver_message.  From position i on, under lock_generic, the   *)
(* walk goes to the next handler the topic matches and calls it without    *)
(* the lock; at the end of the list it is over.                            *)
\* Mutant: the walk goes on at the handler it stands on.
WalkFrom_Again(i, w) ==
    LET found == {k \in i - 1 .. Len(list_sub_handle) :
                     k > 0 /\ DeliversTo(list_sub_handle[k].filter, w.name)}
    IN  IF found = {} \/ Len(w.heard) = MaxNodes
        THEN [w EXCEPT !.state = "done"]
        ELSE LET cursor == list_sub_handle[Least(found)].node IN
             [w EXCEPT !.state = "callback",
                       !.cursor = cursor,
                       !.heard = Append(@, cursor)]

WalkFrom(i, w) ==
    LET found == {k \in i .. Len(list_sub_handle) :
                     DeliversTo(list_sub_handle[k].filter, w.name)}
    IN  IF found = {}
        THEN [w EXCEPT !.state = "done"]
        ELSE LET cursor == list_sub_handle[Least(found)].node IN
             [w EXCEPT !.state = "callback",
                       !.cursor = cursor,
                       !.heard = Append(@, cursor)]

\* Mutant: the walk ends with the first handler it has called.
Resume_FirstOnly ==
    /\ walk.state = "callback"
    /\ walk.cursor \in Nodes
    /\ walk' = [walk EXCEPT !.state = "done"]
    /\ UNCHANGED <<list_sub_handle, calls, nodes, unsubs, subscribed>>

Arrive(n) ==
    /\ walk.state # "callback"
    /\ walk' = WalkFrom(1, [state   |-> "callback",
                            name    |-> n,
                            cursor  |-> 0,
                            heard   |-> <<>>,
                            present |-> Nodes,
                            valid   |-> TRUE])
    /\ UNCHANGED <<list_sub_handle, calls, nodes, unsubs, subscribed>>

(* The callback returns, the lock is taken again, and the walk reads the   *)
(* successor in the node it stands on.                                     *)
Resume ==
    /\ walk.state = "callback"
    /\ walk.cursor \in Nodes
    /\ walk' = WalkFrom(PositionOf(walk.cursor) + 1, walk)
    /\ UNCHANGED <<list_sub_handle, calls, nodes, unsubs, subscribed>>

(* If that node has been freed meanwhile the read is undefined: the walk   *)
(* may go on at any handler, or stop.                                      *)
ResumeFromFreed ==
    /\ walk.state = "callback"
    /\ walk.cursor \notin Nodes
    /\ \E i \in 1 .. Len(list_sub_handle) + 1 :
          walk' = [WalkFrom(i, walk) EXCEPT !.valid = FALSE]
    /\ UNCHANGED <<list_sub_handle, calls, nodes, unsubs, subscribed>>

HandlersNext ==
    \/ \E t \in Callers, f \in Filters, g \in Funcs : SendSubscribe(t, f, g)
    \/ \E t \in Callers : SendFails(t) \/ AppendHandler(t)
    \/ \E t \in Callers, f \in Filters : Unsubscribe(t, f)
    \/ \E n \in Names : Arrive(n)
    \/ Resume
    \/ ResumeFromFreed

HandlersSpec == HandlersInit /\ [][HandlersNext]_handlerVars

-----------------------------------------------------------------------------
(* The handlers of the list are distinct allocations, in the order they    *)
(* were made by any one thread, and a walk stands on one of them, or on    *)
(* one that has been freed.                                                *)
HandlersTypeOK ==
    /\ list_sub_handle \in Seq(Handler)
    /\ \A i, j \in DOMAIN list_sub_handle :
          i # j => list_sub_handle[i].node # list_sub_handle[j].node
    /\ calls \in [Callers -> Handler \cup {NoCall}]
    /\ nodes \in 0 .. MaxNodes
    /\ unsubs \in 0 .. MaxUnsubs
    /\ subscribed \in SUBSET (Filters \X Funcs)
    /\ \/ walk.state = "none"
       \/ /\ walk.state \in {"callback", "done"}
          /\ walk.name \in Names
          /\ walk.heard \in Seq(1 .. nodes)
          /\ walk.present \in SUBSET (1 .. nodes)

(* Two subscriptions of the same topic, callback and context leave one     *)
(* handler, however their sends and appends interleave: a message is not   *)
(* delivered twice to the same callback (MQTTSubscribe's dup check).       *)
NoIdenticalHandlers ==
    \A i, j \in DOMAIN list_sub_handle :
        Identical(list_sub_handle[i], list_sub_handle[j]) => i = j

(* A walk that never stood on a freed handler has called no handler twice, *)
(* whatever was appended or removed during the callbacks                   *)
(* (iotx_mc_deliver_message releases lock_generic around each).            *)
HeardOnce ==
    (walk.state # "none" /\ walk.valid) => IsInjective(walk.heard)

(* ... and has called every matching handler that was in the list when the *)
(* message arrived and still is.                                           *)
HeardByAll ==
    (walk.state = "done" /\ walk.valid) =>
        \A i \in DOMAIN list_sub_handle :
            LET h == list_sub_handle[i] IN
            (h.node \in walk.present /\ DeliversTo(h.filter, walk.name)) =>
                h.node \in Range(walk.heard)

(* A filter that an Unsubscribe finds: its last character is a wildcard,   *)
(* and the only '#' it may have ("/#/+" passes iotx_mc_check_topic too, but *)
(* nothing that follows a '#' is ever matched).                            *)
EndsWild(f) == f[Len(f)] \in {"+", "#"} /\ \A i \in 1 .. Len(f) - 1 : f[i] # "#"

(* No Unsubscribe, of any filter, takes away a subscription whose filter   *)
(* does not end with a wildcard.                                           *)
LiteralsKept ==
    \A s \in subscribed :
        ~EndsWild(s[1]) => \E i \in DOMAIN list_sub_handle :
            s = <<list_sub_handle[i].filter, list_sub_handle[i].h_fp>>

(* A filter that ends with a wildcard has no handler once it is            *)
(* unsubscribed.  One of all CONFIG_MQTT_TOPIC_MAXLEN characters, whose    *)
(* last character the check does not see, is left out: "/+#" may pass      *)
(* there, and does not match itself.                                       *)
WildcardsCancelled ==
    \A i \in DOMAIN list_sub_handle :
        LET h == list_sub_handle[i] IN
        (EndsWild(h.filter) /\ Len(h.filter) < CONFIG_MQTT_TOPIC_MAXLEN) =>
            <<h.filter, h.h_fp>> \in subscribed

(* "Unsubscribe MQTT topic ... @retval >=0 : Unsubscribe successful"       *)
(* (mqtt_api.h:277-283): after a successful Unsubscribe no handler of the  *)
(* filter is left to be called.                                            *)
CancelledIsGone ==
    \A i \in DOMAIN list_sub_handle :
        <<list_sub_handle[i].filter, list_sub_handle[i].h_fp>> \in subscribed

(* "@param [in] topic_filter: specify the topic filter"                    *)
(* (mqtt_api.h:280): an Unsubscribe cancels the filter it is given, and    *)
(* every other subscription keeps its handler.                             *)
OthersKept ==
    \A s \in subscribed : \E i \in DOMAIN list_sub_handle :
        s = <<list_sub_handle[i].filter, list_sub_handle[i].h_fp>>

(* "we have to find the right message handler - indexed by topic"          *)
(* (iotx_mqtt_client.c:1239): a matching handler that stays in the list    *)
(* from the arrival to the end of the walk is called.                      *)
RightHandlerFound ==
    walk.state = "done" =>
        \A i \in DOMAIN list_sub_handle :
            LET h == list_sub_handle[i] IN
            (h.node \in walk.present /\ DeliversTo(h.filter, walk.name)) =>
                h.node \in Range(walk.heard)
=============================================================================
