------------------------------ MODULE CoapSend ------------------------------
(***************************************************************************)
(* The CoAP server of a device: the list of messages it may have to send   *)
(* again (ctx->sendlist), the observers of its resources (ctx->obsserver)  *)
(* and the threads that share them.  The server's thread runs the cycle    *)
(* read, retransmit, look for timeouts, and the callbacks of resources and *)
(* of messages inside it; the notifier threads broadcast a message they    *)
(* keep until they cancel it (awss_cmp_coap_send), and send notifications  *)
(* to the observers (awss_cmp_coap_ob_send).                               *)
(*                                                                         *)
(* One step is one critical section, or one write to the network.  A       *)
(* message is on the list if it is a broadcast ("kept"), the confirmable   *)
(* response to a request ("response"), or the confirmable notification of  *)
(* an observer ("notification"); it is known by its allocation n, and the  *)
(* list is in the order of n, which is given when it is appended.  Time is *)
(* the passing of each message's timeout.                                  *)
(***************************************************************************)
EXTENDS Integers, FiniteSets

CONSTANTS
    Notifiers,          \* threads with a message of their own to broadcast
    Peers,              \* the other ends, and
    PeerIds,            \*   the message ids of their requests
    SENDLIST_MAXCOUNT,  \* send_maxcount of CoAPServer_init
    COAP_MAX_RETRY_COUNT,
    COAP_MAX_MESSAGE_ID,
    MaxNodes,           \* bound on the messages that are listed
    MaxRequests         \* bound on the requests that are received

Server == "server"
Free   == "free"

ASSUME CoapAssumption ==
    /\ SENDLIST_MAXCOUNT \in Nat /\ COAP_MAX_RETRY_COUNT \in Nat
    /\ COAP_MAX_MESSAGE_ID \in Nat \ {0, 1}
    /\ MaxNodes \in Nat /\ MaxRequests \in Nat
    /\ PeerIds \subseteq 0 .. COAP_MAX_MESSAGE_ID
    /\ {Server, Free} \cap Notifiers = {}

VARIABLES
    sendlist,       \* the messages of the list
    count,          \* sendlist.count
    list_mutex,     \* the thread that holds sendlist.list_mutex across a step
    obs_mutex,      \* the thread that holds obsserver.list_mutex across a step
    obsserver,      \* obsserver[r]: the type of the observer at r, or "none"
    message_id,     \* ctx->message_id
    msgid,          \* msgid[a]: the id of a's last broadcast (g_notify_msg_id)
    server,         \* where the server's thread is
    notifier,       \* notifier[a]: where a is
    nodes,          \* the messages listed so far
    requests,       \* the requests received so far
    freed           \* freed[n]: how often the memory of message n was released

vars == <<sendlist, count, list_mutex, obs_mutex, obsserver, message_id, msgid,
          server, notifier, nodes, requests, freed>>

Ids == 0 .. COAP_MAX_MESSAGE_ID
Kinds == {"kept", "response", "notification"}
Message == [id : Ids, to : Peers \cup Notifiers, kind : Kinds]
Node == [n : 1 .. MaxNodes, id : Ids, to : Peers \cup Notifiers, kind : Kinds,
         retrans_count : 0 .. COAP_MAX_RETRY_COUNT, due : BOOLEAN, acked : BOOLEAN]

ServerState ==
    [at : {"read", "retransmit", "check"}]
        \cup [at : {"respond"}, n : 1 .. MaxNodes, kept : BOOLEAN]
        \cup [at : {"respond_add"}, good : BOOLEAN, m : Message]
        \cup [at : {"wait"}, id : Ids]
        \cup [at : {"expire", "told"}, node : Node]
NotifierState ==
    [at : {"idle", "write"}]
        \cup [at : {"add"}, m : Message]
        \cup [at : {"notify"}, todo : SUBSET Peers]
        \cup [at : {"notify_add"}, todo : SUBSET Peers, m : Message]

Init ==
    /\ sendlist = {}
    /\ count = 0
    /\ list_mutex = Free
    /\ obs_mutex = Free
    /\ obsserver = [r \in Peers |-> "none"]
    /\ message_id = 1
    /\ msgid = [a \in Notifiers |-> 0]
    /\ server = [at |-> "read"]
    /\ notifier = [a \in Notifiers |-> [at |-> "idle"]]
    /\ nodes = 0
    /\ requests = 0
    /\ freed = [n \in 1 .. MaxNodes |-> 0]

-----------------------------------------------------------------------------
(* CoAPMessageId_gen: the last id is skipped and the first is given twice. *)
GeneratedId == IF message_id = COAP_MAX_MESSAGE_ID THEN 1 ELSE message_id
NextId      == IF message_id = COAP_MAX_MESSAGE_ID THEN 1 ELSE message_id + 1

(* CoAPMessageList_add: the message is known to be sent; a full list       *)
(* refuses it, and so does a failed allocation (the bound MaxNodes).       *)
Listed(m) ==
    [n |-> nodes + 1, id |-> m.id, to |-> m.to, kind |-> m.kind, due |-> FALSE,
     acked |-> FALSE,
     retrans_count |-> IF m.kind = "kept" THEN 0 ELSE COAP_MAX_RETRY_COUNT]

CoAPMessageList_add(m) ==
    IF count >= SENDLIST_MAXCOUNT \/ nodes = MaxNodes
    THEN UNCHANGED <<sendlist, count, nodes>>
    ELSE /\ sendlist' = sendlist \cup {Listed(m)}
         /\ count' = count + 1
         /\ nodes' = nodes + 1

Release(S) == freed' = [n \in DOMAIN freed |-> IF n \in {d.n : d \in S} THEN freed[n] + 1 ELSE freed[n]]

\* Mutant: the counter goes down by one, however many messages are cancelled.
CoAPMessageId_cancel_Once(id) ==
    LET cancelled == {d \in sendlist : d.id = id} IN
    /\ list_mutex = Free
    /\ sendlist' = sendlist \ cancelled
    /\ count' = count - (IF cancelled = {} THEN 0 ELSE 1)
    /\ Release(cancelled)

\* Mutant: the kept messages are left on the list.
CoAPMessageId_cancel_NotKept(id) ==
    LET cancelled == {d \in sendlist : d.id = id /\ d.kind # "kept"} IN
    /\ list_mutex = Free
    /\ sendlist' = sendlist \ cancelled
    /\ count' = count - Cardinality(cancelled)
    /\ Release(cancelled)

(* CoAPMessageId_cancel: every message with the id leaves and is freed.    *)
CoAPMessageId_cancel(id) ==
    LET cancelled == {d \in sendlist : d.id = id} IN
    /\ list_mutex = Free
    /\ sendlist' = sendlist \ cancelled
    /\ count' = count - Cardinality(cancelled)
    /\ Release(cancelled)

-----------------------------------------------------------------------------
(* A notifier's broadcast (awss_cmp_coap_send): cancel the previous one,   *)
(* write the message, and put it on the list, each by itself.              *)
Broadcast(a) ==
    /\ notifier[a].at = "idle"
    /\ nodes < MaxNodes
    /\ CoAPMessageId_cancel(msgid[a])
    /\ notifier' = [notifier EXCEPT ![a] = [at |-> "write"]]
    /\ UNCHANGED <<list_mutex, obs_mutex, obsserver, message_id, msgid, server, nodes, requests>>

WriteBroadcast(a) ==
    /\ notifier[a].at = "write"
    /\ message_id' = NextId
    /\ msgid' = [msgid EXCEPT ![a] = GeneratedId]
    /\ \/ notifier' = [notifier EXCEPT ![a] =
              [at |-> "add", m |-> [id |-> GeneratedId, to |-> a, kind |-> "kept"]]]
       \/ notifier' = [notifier EXCEPT ![a] = [at |-> "idle"]]     \* the write fails
    /\ UNCHANGED <<sendlist, count, list_mutex, obs_mutex, obsserver, server, nodes,
                   requests, freed>>

ListBroadcast(a) ==
    /\ notifier[a].at = "add"
    /\ list_mutex = Free
    /\ CoAPMessageList_add(notifier[a].m)
    /\ notifier' = [notifier EXCEPT ![a] = [at |-> "idle"]]
    /\ UNCHANGED <<list_mutex, obs_mutex, obsserver, message_id, msgid, server, requests, freed>>

(* A notifier's broadcast is cancelled, by itself at the end of its round  *)
(* or by a thread that stops it: the mutex of the notification keeps that  *)
(* thread out of a broadcast in progress.                                  *)
CancelBroadcast(a) ==
    /\ notifier[a].at \notin {"write", "add"}
    /\ msgid[a] # 0
    /\ CoAPMessageId_cancel(msgid[a])
    /\ msgid' = [msgid EXCEPT ![a] = 0]
    /\ UNCHANGED <<list_mutex, obs_mutex, obsserver, message_id, server, notifier, nodes, requests>>

(* CoAPObsServer_notify holds the observers' mutex over all its sends; a   *)
(* notification to a confirmable observer goes on the list.                *)
Notify(a) ==
    /\ notifier[a].at = "idle"
    /\ nodes < MaxNodes
    /\ obs_mutex = Free
    /\ \E r \in Peers : obsserver[r] # "none"
    /\ obs_mutex' = a
    /\ notifier' = [notifier EXCEPT ![a] =
          [at |-> "notify", todo |-> {r \in Peers : obsserver[r] # "none"}]]
    /\ UNCHANGED <<sendlist, count, list_mutex, obsserver, message_id, msgid, server,
                   nodes, requests, freed>>

NotifyObserver(a) ==
    /\ notifier[a].at = "notify"
    /\ \E r \in notifier[a].todo :
          LET rest == notifier[a].todo \ {r} IN
          /\ message_id' = NextId
          /\ \/ notifier' = [notifier EXCEPT ![a].todo = rest]  \* not confirmable, or
                                                                \* the write fails
             \/ /\ obsserver[r] = "CON"
                /\ notifier' = [notifier EXCEPT ![a] =
                      [at |-> "notify_add", todo |-> rest,
                       m |-> [id |-> GeneratedId, to |-> r, kind |-> "notification"]]]
    /\ UNCHANGED <<sendlist, count, list_mutex, obs_mutex, obsserver, msgid, server,
                   nodes, requests, freed>>

ListNotification(a) ==
    /\ notifier[a].at = "notify_add"
    /\ list_mutex = Free
    /\ CoAPMessageList_add(notifier[a].m)
    /\ notifier' = [notifier EXCEPT ![a] = [at |-> "notify", todo |-> notifier[a].todo]]
    /\ UNCHANGED <<list_mutex, obs_mutex, obsserver, message_id, msgid, server, requests, freed>>

\* Mutant: the observers' mutex is not released.
EndNotify_Locked(a) ==
    /\ notifier[a].at = "notify"
    /\ notifier[a].todo = {}
    /\ notifier' = [notifier EXCEPT ![a] = [at |-> "idle"]]
    /\ UNCHANGED <<sendlist, count, list_mutex, obs_mutex, obsserver, message_id, msgid, server,
                   nodes, requests, freed>>

EndNotify(a) ==
    /\ notifier[a].at = "notify"
    /\ notifier[a].todo = {}
    /\ obs_mutex' = Free
    /\ notifier' = [notifier EXCEPT ![a] = [at |-> "idle"]]
    /\ UNCHANGED <<sendlist, count, list_mutex, obsserver, message_id, msgid, server,
                   nodes, requests, freed>>

-----------------------------------------------------------------------------
(* The server's thread.  What it reads while a callback runs stays unread. *)
First(S) == {d \in S : \A e \in S : d.n <= e.n}
Found(id) == {d \in sendlist : d.id = id}

(* CoAPAckMessage_handle: an ACK or a RST goes to the first message with   *)
(* the id, whoever sent it.  A response or notification leaves the list;   *)
(* the handler is called under the mutex.                                  *)
ReceiveAck(id) ==
    /\ server.at = "read"
    /\ list_mutex = Free
    /\ \E d \in First(Found(id)) :
          IF d.kind = "kept"
          THEN /\ sendlist' = (sendlist \ {d}) \cup {[d EXCEPT !.acked = TRUE]}
               /\ UNCHANGED <<count, freed>>
          ELSE /\ sendlist' = sendlist \ {d}
               /\ count' = count - 1
               /\ Release({d})
    /\ UNCHANGED <<list_mutex, obs_mutex, obsserver, message_id, msgid, server,
                   notifier, nodes, requests>>

(* CoAPRespMessage_handle: a response goes to a message with its token,    *)
(* whatever that is (the tokens are left open).  A broadcast stays on the  *)
(* list; a response or notification leaves it, and is the server's from    *)
(* then on.  The handler is called without the mutex.                      *)
Matched(d) == [at |-> "respond", n |-> d.n, kept |-> d.kind = "kept"]

\* Mutant: the message found by its token leaves the list and the counter stays.
ReceiveResponse_NoCount ==
    /\ server.at = "read"
    /\ list_mutex = Free
    /\ \E d \in sendlist :
          /\ server' = Matched(d)
          /\ sendlist' = IF d.kind = "kept" THEN sendlist ELSE sendlist \ {d}
    /\ UNCHANGED <<count, list_mutex, obs_mutex, obsserver, message_id, msgid, notifier,
                   nodes, requests, freed>>

\* Mutant: the message leaves the list when its handler has returned.
ReceiveResponse_Listed ==
    /\ server.at = "read"
    /\ list_mutex = Free
    /\ \E d \in sendlist : server' = Matched(d)
    /\ UNCHANGED <<sendlist, count, list_mutex, obs_mutex, obsserver, message_id, msgid,
                   notifier, nodes, requests, freed>>

ReceiveResponse ==
    /\ server.at = "read"
    /\ list_mutex = Free
    /\ \E d \in sendlist :
          /\ server' = Matched(d)
          /\ IF d.kind = "kept"
             THEN UNCHANGED <<sendlist, count>>
             ELSE sendlist' = sendlist \ {d} /\ count' = count - 1
    /\ UNCHANGED <<list_mutex, obs_mutex, obsserver, message_id, msgid, notifier, nodes,
                   requests, freed>>

(* After the handler, a message that left the list is freed.  For the      *)
(* others node->keep is read again: if the broadcast has been cancelled    *)
(* meanwhile, it is read from freed memory, and what it says decides       *)
(* whether the memory is freed once more.                                  *)
EndRespond ==
    /\ server.at = "respond"
    /\ server' = [at |-> "read"]
    /\ \/ /\ server.kept => ~ \E d \in sendlist : d.n = server.n
          /\ freed' = [freed EXCEPT ![server.n] = @ + 1]
       \/ server.kept /\ UNCHANGED freed
    /\ UNCHANGED <<sendlist, count, list_mutex, obs_mutex, obsserver, message_id, msgid,
                   notifier, nodes, requests>>

(* A request with the Observe option (CoAPServerResp_send,                 *)
(* CoAPObsServer_add): one observer per remote, whose type is that of the  *)
(* request that made it.  Memory may be short.                             *)
ReceiveObserve(r, type) ==
    /\ server.at = "read"
    /\ requests < MaxRequests
    /\ obs_mutex = Free
    /\ requests' = requests + 1
    /\ obsserver' \in {obsserver,
                       [obsserver EXCEPT ![r] = IF @ = "none" THEN type ELSE @]}
    /\ UNCHANGED <<sendlist, count, list_mutex, obs_mutex, message_id, msgid, server,
                   notifier, nodes, freed>>

(* A request to change the access point                                    *)
(* (wifimgr_process_dev_ap_switchap_request) is answered with a            *)
(* confirmable response that has the request's id.  When the request is    *)
(* good the callback waits, on this thread, and then cancels the response. *)
ReceiveSwitchap(r, id) ==
    /\ server.at = "read"
    /\ requests < MaxRequests
    /\ requests' = requests + 1
    /\ \E good \in BOOLEAN, written \in BOOLEAN :
          server' = IF written
                    THEN [at |-> "respond_add", good |-> good,
                          m |-> [id |-> id, to |-> r, kind |-> "response"]]
                    ELSE IF good THEN [at |-> "wait", id |-> id] ELSE [at |-> "read"]
    /\ UNCHANGED <<sendlist, count, list_mutex, obs_mutex, obsserver, message_id, msgid,
                   notifier, nodes, freed>>

ListResponse ==
    /\ server.at = "respond_add"
    /\ list_mutex = Free
    /\ CoAPMessageList_add(server.m)
    /\ server' = IF server.good THEN [at |-> "wait", id |-> server.m.id] ELSE [at |-> "read"]
    /\ UNCHANGED <<list_mutex, obs_mutex, obsserver, message_id, msgid, notifier, requests, freed>>

EndWait ==
    /\ server.at = "wait"
    /\ CoAPMessageId_cancel(server.id)
    /\ server' = [at |-> "read"]
    /\ UNCHANGED <<list_mutex, obs_mutex, obsserver, message_id, msgid, notifier, nodes, requests>>

(* CoAPMessage_process ends when nothing is left to read.                  *)
NothingToRead ==
    /\ server.at = "read"
    /\ server' = [at |-> "retransmit"]
    /\ UNCHANGED <<sendlist, count, list_mutex, obs_mutex, obsserver, message_id, msgid,
                   notifier, nodes, requests, freed>>

\* Mutant: the last retransmission does not count.
Retransmitted_Forever(d) ==
    IF d.due /\ d.retrans_count > 0
    THEN [d EXCEPT !.retrans_count = IF @ = 1 THEN 1 ELSE @ - 1, !.due = FALSE] ELSE d

(* Retansmit: a message that is due is written again unless it is acked,   *)
(* and given a new timeout, as long as retransmissions are left.           *)
Retransmitted(d) ==
    IF d.due /\ d.retrans_count > 0
    THEN [d EXCEPT !.retrans_count = @ - 1, !.due = FALSE] ELSE d

Retansmit ==
    /\ server.at = "retransmit"
    /\ list_mutex = Free
    /\ sendlist' = {Retransmitted(d) : d \in sendlist}
    /\ server' = [at |-> "check"]
    /\ UNCHANGED <<count, list_mutex, obs_mutex, obsserver, message_id, msgid,
                   notifier, nodes, requests, freed>>

Expired == {d \in sendlist : d.kind # "kept" /\ d.retrans_count = 0 /\ d.due}

(* Check_timeout takes the first expired message off the list, and keeps   *)
(* the mutex to delete the observers of its remote.                        *)
NoneExpired ==
    /\ server.at = "check"
    /\ list_mutex = Free
    /\ Expired = {}
    /\ server' = [at |-> "read"]
    /\ UNCHANGED <<sendlist, count, list_mutex, obs_mutex, obsserver, message_id, msgid,
                   notifier, nodes, requests, freed>>

\* Mutant: the expired message stays on the list until its handler returns.
TakeExpired_Listed ==
    /\ server.at = "check"
    /\ list_mutex = Free
    /\ \E d \in First(Expired) :
          /\ count' = count - 1
          /\ server' = [at |-> "expire", node |-> d]
    /\ list_mutex' = Server
    /\ UNCHANGED <<sendlist, obs_mutex, obsserver, message_id, msgid, notifier, nodes, requests, freed>>

TakeExpired ==
    /\ server.at = "check"
    /\ list_mutex = Free
    /\ \E d \in First(Expired) :
          /\ sendlist' = sendlist \ {d}
          /\ count' = count - 1
          /\ server' = [at |-> "expire", node |-> d]
    /\ list_mutex' = Server
    /\ UNCHANGED <<obs_mutex, obsserver, message_id, msgid, notifier, nodes, requests, freed>>

DeleteObservers ==
    /\ server.at = "expire"
    /\ obs_mutex = Free
    /\ obsserver' = [obsserver EXCEPT ![server.node.to] = "none"]
    /\ list_mutex' = Free
    /\ server' = [at |-> "told", node |-> server.node]
    /\ UNCHANGED <<sendlist, count, obs_mutex, message_id, msgid, notifier, nodes, requests, freed>>

(* The handler is told of the timeout and the message is freed.            *)
TellTimeout ==
    /\ server.at = "told"
    /\ Release({server.node})
    /\ server' = [at |-> "check"]
    /\ UNCHANGED <<sendlist, count, list_mutex, obs_mutex, obsserver, message_id, msgid,
                   notifier, nodes, requests>>

(* Time passes: the timeout of a message is over.                          *)
TimePasses(n) ==
    /\ \E d \in sendlist :
          /\ d.n = n /\ ~d.due
          /\ sendlist' = (sendlist \ {d}) \cup {[d EXCEPT !.due = TRUE]}
    /\ UNCHANGED <<count, list_mutex, obs_mutex, obsserver, message_id, msgid, server,
                   notifier, nodes, requests, freed>>

-----------------------------------------------------------------------------
NotifierStep(a) ==
    \/ WriteBroadcast(a) \/ ListBroadcast(a)
    \/ NotifyObserver(a) \/ ListNotification(a) \/ EndNotify(a)

ServerStep ==
    \/ EndRespond \/ ListResponse \/ EndWait
    \/ Retansmit \/ NoneExpired \/ TakeExpired \/ TellTimeout

Next ==
    \/ \E a \in Notifiers : Broadcast(a) \/ CancelBroadcast(a) \/ Notify(a) \/ NotifierStep(a)
    \/ \E id \in Ids : ReceiveAck(id)
    \/ ReceiveResponse
    \/ \E r \in Peers, type \in {"CON", "NON"} : ReceiveObserve(r, type)
    \/ \E r \in Peers, id \in PeerIds : ReceiveSwitchap(r, id)
    \/ NothingToRead
    \/ DeleteObservers
    \/ ServerStep
    \/ \E n \in 1 .. MaxNodes : TimePasses(n)

(* The threads run and time passes; a reader that looks again and again    *)
(* finds the socket empty now and then; and the server gets the mutex of   *)
(* the observers when it is released again and again.                      *)
Fairness ==
    /\ \A a \in Notifiers : WF_vars(NotifierStep(a))
    /\ WF_vars(ServerStep)
    /\ SF_vars(NothingToRead)
    /\ SF_vars(DeleteObservers)
    /\ \A n \in 1 .. MaxNodes : WF_vars(TimePasses(n))

Spec == Init /\ [][Next]_vars /\ Fairness

-----------------------------------------------------------------------------
(* The listed messages are distinct allocations made so far, and each      *)
(* mutex is held by the thread whose position says so (count is an integer *)
(* by CountIsLength).                                                      *)
TypeOK ==
    /\ sendlist \subseteq Node
    /\ \A d, e \in sendlist : d.n = e.n => d = e
    /\ \A d \in sendlist : d.n <= nodes
    /\ list_mutex = IF server.at = "expire" THEN Server ELSE Free
    /\ obs_mutex \in Notifiers \cup {Free}
    /\ \A a \in Notifiers : notifier[a].at \in {"notify", "notify_add"} <=> obs_mutex = a
    /\ obsserver \in [Peers -> {"none", "CON", "NON"}]
    /\ message_id \in 1 .. COAP_MAX_MESSAGE_ID
    /\ msgid \in [Notifiers -> Ids]
    /\ server \in ServerState
    /\ notifier \in [Notifiers -> NotifierState]
    /\ nodes \in 0 .. MaxNodes
    /\ requests \in 0 .. MaxRequests
    /\ freed \in [1 .. MaxNodes -> Nat]

(* The counter that bounds the list is its length, through every way a     *)
(* message joins or leaves it (add, acknowledgement, a response with its   *)
(* token, cancel by id, timeout): the limit of send_maxcount never refuses *)
(* a message for a place that is free, nor lets the list outgrow it.       *)
CountIsLength ==
    /\ count = Cardinality(sendlist)
    /\ count <= SENDLIST_MAXCOUNT

(* No message on the list, and none that the server has taken off it to    *)
(* call its handler (a timeout, or a response with its token), has been    *)
(* released, or is still where another thread can release it: whichever of *)
(* acknowledgement, response, timeout and cancellation come first, its     *)
(* memory is released once.  A broadcast stays listed while its handler    *)
(* runs and is left out: EndRespond may free one again.                    *)
InHand ==
    {n \in 1 .. MaxNodes :
        \/ server.at \in {"expire", "told"} /\ n = server.node.n
        \/ server.at = "respond" /\ ~server.kept /\ n = server.n}

FreedOnce ==
    /\ \A d \in sendlist : freed[d.n] = 0
    /\ \A n \in InHand : freed[n] = 0 /\ \A d \in sendlist : d.n # n

(* A notifier never has two broadcasts on the list: each is cancelled      *)
(* before the next is listed, so kept messages, which nothing else         *)
(* removes, cannot fill it (awss_cmp_coap_send).                           *)
OneBroadcastEach ==
    \A d, e \in sendlist : (d.kind = "kept" /\ e.kind = "kept" /\ d.to = e.to) => d = e

(* Check_timeout takes the two mutexes in one order and                    *)
(* CoAPObsServer_notify in the other.                                      *)
Interlocked ==
    \E a \in Notifiers :
        /\ server.at = "expire" /\ obs_mutex = a
        /\ notifier[a].at = "notify_add" /\ list_mutex = Server

(* A confirmable message is acknowledged, cancelled or timed out, and a    *)
(* notifier's call returns, unless the two threads have locked each other  *)
(* out: nothing else in the cycle or the list can hold them for ever.      *)
MessagesEnd ==
    \A n \in 1 .. MaxNodes :
        (\E d \in sendlist : d.n = n /\ d.kind # "kept")
            ~> (Interlocked \/ ~ \E d \in sendlist : d.n = n)
CallsReturn ==
    \A a \in Notifiers : (notifier[a].at # "idle") ~> (Interlocked \/ notifier[a].at = "idle")
=============================================================================
