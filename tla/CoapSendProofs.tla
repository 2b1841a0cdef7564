--------------------------- MODULE CoapSendProofs ---------------------------
(***************************************************************************)
(* Proofs about CoapSend, for any number of notifiers, peers and messages: *)
(* type correctness, the accounting of the list, the memory of its         *)
(* messages and the one broadcast of each notifier.                        *)
(***************************************************************************)
EXTENDS CoapSend, FiniteSetTheorems, TLAPS

USE DEF Server, Free

-----------------------------------------------------------------------------
(* What an addition to the list, and a cancellation, do to it.             *)
LEMMA AddIsTyped ==
    ASSUME TypeOK, NEW m \in Message, CoAPMessageList_add(m)
    PROVE  /\ sendlist' \subseteq Node
           /\ \A d, e \in sendlist' : d.n = e.n => d = e
           /\ \A d \in sendlist' : d.n <= nodes'
           /\ nodes' \in 0 .. MaxNodes
  <1>1. CASE count >= SENDLIST_MAXCOUNT \/ nodes = MaxNodes
    BY <1>1 DEF CoAPMessageList_add, TypeOK
  <1>2. CASE ~(count >= SENDLIST_MAXCOUNT \/ nodes = MaxNodes)
    <2>1. Listed(m) \in Node /\ Listed(m).n = nodes + 1
      BY <1>2, CoapAssumption DEF Listed, Node, Message, TypeOK, Kinds
    <2> HIDE DEF Listed
    <2>2. sendlist' = sendlist \cup {Listed(m)} /\ count' = count + 1 /\ nodes' = nodes + 1
      BY <1>2 DEF CoAPMessageList_add
    <2>3. \A d \in sendlist : d.n \in Nat /\ d.n < nodes + 1
      BY CoapAssumption DEF TypeOK, Node
    <2> QED BY <1>2, <2>1, <2>2, <2>3, CoapAssumption DEF TypeOK
  <1> QED BY <1>1, <1>2

LEMMA CancelIsTyped ==
    ASSUME TypeOK, NEW id, CoAPMessageId_cancel(id)
    PROVE  /\ sendlist' \subseteq sendlist
           /\ freed' \in [1 .. MaxNodes -> Nat]
           /\ list_mutex = Free
  BY DEF CoAPMessageId_cancel, Release, TypeOK

-----------------------------------------------------------------------------
(* Type correctness: what the list, the mutexes, the counters and the      *)
(* positions of the threads can be, for every number of threads, peers and *)
(* messages.                                                               *)
LEMMA NotifierKeepsType ==
    ASSUME TypeOK, NEW a \in Notifiers,
           Broadcast(a) \/ CancelBroadcast(a) \/ Notify(a) \/ NotifierStep(a)
    PROVE  TypeOK'
  <1>n. notifier[a] \in NotifierState /\ Server \notin Notifiers /\ Free \notin Notifiers
    BY CoapAssumption DEF TypeOK
  <1>1. CASE Broadcast(a)
    <2>1. [at |-> "write"] \in NotifierState
      BY DEF NotifierState
    <2> QED BY <1>1, <1>n, <2>1, CancelIsTyped DEF Broadcast, TypeOK
  <1>2. CASE CancelBroadcast(a)
    <2>1. 0 \in Ids
      BY CoapAssumption DEF Ids
    <2> QED BY <1>2, <2>1, CancelIsTyped DEF CancelBroadcast, TypeOK
  <1>3. CASE Notify(a)
    <2>1. [at |-> "notify", todo |-> {r \in Peers : obsserver[r] # "none"}] \in NotifierState
      BY DEF NotifierState
    <2> QED BY <1>3, <1>n, <2>1 DEF Notify, TypeOK
  <1>4. CASE WriteBroadcast(a)
    <2>1. GeneratedId \in Ids /\ NextId \in 1 .. COAP_MAX_MESSAGE_ID
      BY CoapAssumption DEF GeneratedId, NextId, Ids, TypeOK
    <2>2. /\ [at |-> "add", m |-> [id |-> GeneratedId, to |-> a, kind |-> "kept"]] \in NotifierState
          /\ [at |-> "idle"] \in NotifierState
      BY <2>1 DEF NotifierState, Message, Kinds
    <2> QED BY <1>4, <1>n, <2>1, <2>2 DEF WriteBroadcast, TypeOK
  <1>5. CASE ListBroadcast(a)
    <2>1. [at |-> "idle"] \in NotifierState /\ notifier[a].m \in Message
      BY <1>5, <1>n DEF NotifierState, ListBroadcast
    <2>2. CoAPMessageList_add(notifier[a].m)
      BY <1>5 DEF ListBroadcast
    <2> QED BY <1>5, <1>n, <2>1, <2>2, AddIsTyped DEF ListBroadcast, TypeOK
  <1>6. CASE NotifyObserver(a)
    <2>1. PICK r \in notifier[a].todo :
             LET rest == notifier[a].todo \ {r} IN
             /\ message_id' = NextId
             /\ \/ notifier' = [notifier EXCEPT ![a].todo = rest]
                \/ notifier' = [notifier EXCEPT ![a] =
                      [at |-> "notify_add", todo |-> rest,
                       m |-> [id |-> GeneratedId, to |-> r, kind |-> "notification"]]]
      BY <1>6 DEF NotifyObserver
    <2> DEFINE rest == notifier[a].todo \ {r}
               add  == [at |-> "notify_add", todo |-> rest,
                        m |-> [id |-> GeneratedId, to |-> r, kind |-> "notification"]]
    <2>2. GeneratedId \in Ids /\ NextId \in 1 .. COAP_MAX_MESSAGE_ID
      BY CoapAssumption DEF GeneratedId, NextId, Ids, TypeOK
    <2>3. notifier[a].todo \in SUBSET Peers /\ notifier[a].at = "notify"
      BY <1>6, <1>n DEF NotifyObserver, NotifierState
    <2>4. add \in NotifierState
      BY <2>2, <2>3 DEF NotifierState, Message, Kinds
    <2>5. /\ [notifier[a] EXCEPT !.todo = rest] \in NotifierState
          /\ [notifier[a] EXCEPT !.todo = rest].at = "notify"
      BY <1>n, <2>3 DEF NotifierState
    <2>6. /\ notifier' \in [Notifiers -> NotifierState]
          /\ notifier'[a].at \in {"notify", "notify_add"}
          /\ \A b \in Notifiers \ {a} : notifier'[b] = notifier[b]
      <3>1. CASE notifier' = [notifier EXCEPT ![a].todo = rest]
        <4>1. notifier'[a] = [notifier[a] EXCEPT !.todo = rest]
          BY <3>1 DEF TypeOK
        <4> HIDE DEF rest
        <4> QED BY <3>1, <4>1, <2>5 DEF TypeOK
      <3>2. CASE notifier' = [notifier EXCEPT ![a] = add]
        <4>1. add.at = "notify_add"
          OBVIOUS
        <4> HIDE DEF add
        <4> QED BY <3>2, <4>1, <2>4 DEF TypeOK
      <3> QED BY <2>1, <3>1, <3>2
    <2> QED BY <1>6, <2>1, <2>2, <2>3, <2>6 DEF NotifyObserver, TypeOK
  <1>7. CASE ListNotification(a)
    <2>1. /\ notifier[a].m \in Message
          /\ [at |-> "notify", todo |-> notifier[a].todo] \in NotifierState
      BY <1>7, <1>n DEF NotifierState, ListNotification
    <2>2. CoAPMessageList_add(notifier[a].m)
      BY <1>7 DEF ListNotification
    <2> QED BY <1>7, <1>n, <2>1, <2>2, AddIsTyped DEF ListNotification, TypeOK
  <1>8. CASE EndNotify(a)
    <2>1. [at |-> "idle"] \in NotifierState
      BY DEF NotifierState
    <2> QED BY <1>8, <1>n, <2>1 DEF EndNotify, TypeOK
  <1> QED BY <1>1, <1>2, <1>3, <1>4, <1>5, <1>6, <1>7, <1>8 DEF NotifierStep

LEMMA ServerKeepsType ==
    ASSUME TypeOK, ServerStep \/ NothingToRead \/ DeleteObservers
    PROVE  TypeOK'
  <1>r. /\ [at |-> "read"] \in ServerState
        /\ [at |-> "check"] \in ServerState
        /\ [at |-> "retransmit"] \in ServerState
    BY DEF ServerState
  <1>1. CASE EndRespond
    <2>1. server.n \in 1 .. MaxNodes
      BY <1>1 DEF EndRespond, TypeOK, ServerState
    <2> QED BY <1>1, <1>r, <2>1 DEF EndRespond, TypeOK
  <1>2. CASE ListResponse
    <2>1. server.m \in Message
      BY <1>2 DEF ListResponse, TypeOK, ServerState
    <2>2. [at |-> "wait", id |-> server.m.id] \in ServerState
      BY <2>1 DEF ServerState, Message
    <2>3. CoAPMessageList_add(server.m)
      BY <1>2 DEF ListResponse
    <2> QED BY <1>2, <1>r, <2>1, <2>2, <2>3, AddIsTyped DEF ListResponse, TypeOK
  <1>3. CASE EndWait
    BY <1>3, <1>r, CancelIsTyped DEF EndWait, TypeOK
  <1>4. CASE Retansmit
    <2>1. \A d \in sendlist : Retransmitted(d) \in Node /\ Retransmitted(d).n = d.n
      <3> SUFFICES ASSUME NEW d \in sendlist
                   PROVE  Retransmitted(d) \in Node /\ Retransmitted(d).n = d.n
        OBVIOUS
      <3>1. d \in Node
        BY DEF TypeOK
      <3>2. CASE d.due /\ d.retrans_count > 0
        <4>1. Retransmitted(d) = [d EXCEPT !.retrans_count = d.retrans_count - 1, !.due = FALSE]
          BY <3>2 DEF Retransmitted
        <4>2. d.retrans_count - 1 \in 0 .. COAP_MAX_RETRY_COUNT
          BY <3>1, <3>2, CoapAssumption DEF Node
        <4> QED BY <3>1, <4>1, <4>2 DEF Node
      <3>3. CASE ~(d.due /\ d.retrans_count > 0)
        BY <3>1, <3>3 DEF Retransmitted
      <3> QED BY <3>2, <3>3
    <2> HIDE DEF Retransmitted
    <2>2. sendlist' = {Retransmitted(d) : d \in sendlist}
      BY <1>4 DEF Retansmit
    <2>3. /\ sendlist' \subseteq Node
          /\ \A d, e \in sendlist' : d.n = e.n => d = e
          /\ \A d \in sendlist' : d.n <= nodes
      BY <2>1, <2>2 DEF TypeOK
    <2> QED BY <1>4, <1>r, <2>3 DEF Retansmit, TypeOK
  <1>5. CASE NoneExpired
    BY <1>5, <1>r DEF NoneExpired, TypeOK
  <1>6. CASE TakeExpired
    <2>1. PICK d \in sendlist : /\ sendlist' = sendlist \ {d}
                                /\ server' = [at |-> "expire", node |-> d]
      BY <1>6 DEF TakeExpired, First, Expired
    <2>2. [at |-> "expire", node |-> d] \in ServerState
      BY DEF ServerState, TypeOK
    <2> QED BY <1>6, <2>1, <2>2 DEF TakeExpired, TypeOK
  <1>7. CASE TellTimeout
    BY <1>7, <1>r DEF TellTimeout, Release, TypeOK
  <1>8. CASE NothingToRead
    BY <1>8, <1>r DEF NothingToRead, TypeOK
  <1>9. CASE DeleteObservers
    <2>1. [at |-> "told", node |-> server.node] \in ServerState
      BY <1>9 DEF DeleteObservers, TypeOK, ServerState
    <2> QED BY <1>9, <2>1 DEF DeleteObservers, TypeOK
  <1> QED BY <1>1, <1>2, <1>3, <1>4, <1>5, <1>6, <1>7, <1>8, <1>9 DEF ServerStep

LEMMA AckKeepsType ==
    ASSUME TypeOK, NEW id \in Ids, ReceiveAck(id)
    PROVE  TypeOK'
  <1>1. PICK d \in sendlist :
           \/ /\ sendlist' = (sendlist \ {d}) \cup {[d EXCEPT !.acked = TRUE]}
              /\ UNCHANGED freed
           \/ sendlist' = sendlist \ {d} /\ Release({d})
    BY DEF ReceiveAck, First, Found
  <1>2. [d EXCEPT !.acked = TRUE] \in Node /\ [d EXCEPT !.acked = TRUE].n = d.n
    BY DEF TypeOK, Node
  <1>3. freed' \in [1 .. MaxNodes -> Nat]
    BY <1>1 DEF Release, TypeOK
  <1> DEFINE answered == [d EXCEPT !.acked = TRUE]
  <1>4. answered \in Node /\ answered.n = d.n
    BY <1>2
  <1>5. sendlist' = (sendlist \ {d}) \cup {answered} \/ sendlist' = sendlist \ {d}
    BY <1>1
  <1> HIDE DEF answered
  <1>6. /\ sendlist' \subseteq Node
        /\ \A e, f \in sendlist' : e.n = f.n => e = f
        /\ \A e \in sendlist' : e.n <= nodes
    BY <1>4, <1>5 DEF TypeOK
  <1> QED BY <1>3, <1>6 DEF ReceiveAck, TypeOK

LEMMA ReceiverKeepsType ==
    ASSUME TypeOK,
           \/ ReceiveResponse
           \/ \E r \in Peers, type \in {"CON", "NON"} : ReceiveObserve(r, type)
           \/ \E r \in Peers, id \in PeerIds : ReceiveSwitchap(r, id)
           \/ \E n \in 1 .. MaxNodes : TimePasses(n)
    PROVE  TypeOK'
  <1>1. CASE ReceiveResponse
    <2>1. \A d \in sendlist : Matched(d) \in ServerState /\ Matched(d).at = "respond"
      BY DEF Matched, TypeOK, Node, ServerState
    <2>2. server' \in ServerState /\ server'.at = "respond" /\ sendlist' \subseteq sendlist
      BY <1>1, <2>1 DEF ReceiveResponse
    <2> QED BY <1>1, <2>2 DEF ReceiveResponse, TypeOK
  <1>2. ASSUME NEW r \in Peers, NEW type \in {"CON", "NON"}, ReceiveObserve(r, type)
        PROVE  TypeOK'
    BY <1>2, CoapAssumption DEF ReceiveObserve, TypeOK
  <1>3. ASSUME NEW r \in Peers, NEW id \in PeerIds, ReceiveSwitchap(r, id)
        PROVE  TypeOK'
    <2>1. id \in Ids
      BY CoapAssumption DEF Ids
    <2>2. \A good \in BOOLEAN :
             [at |-> "respond_add", good |-> good,
              m |-> [id |-> id, to |-> r, kind |-> "response"]] \in ServerState
      BY <2>1 DEF ServerState, Message, Kinds
    <2>3. [at |-> "wait", id |-> id] \in ServerState /\ [at |-> "read"] \in ServerState
      BY <2>1 DEF ServerState
    <2>4. server' \in ServerState /\ server'.at # "expire"
      BY <1>3, <2>2, <2>3 DEF ReceiveSwitchap
    <2> QED BY <1>3, <2>4, CoapAssumption DEF ReceiveSwitchap, TypeOK
  <1>4. ASSUME NEW n \in 1 .. MaxNodes, TimePasses(n)
        PROVE  TypeOK'
    <2>1. PICK d \in sendlist : sendlist' = (sendlist \ {d}) \cup {[d EXCEPT !.due = TRUE]}
      BY <1>4 DEF TimePasses
    <2>2. [d EXCEPT !.due = TRUE] \in Node /\ [d EXCEPT !.due = TRUE].n = d.n
      BY DEF TypeOK, Node
    <2> DEFINE later == [d EXCEPT !.due = TRUE]
    <2> HIDE DEF later
    <2>a. sendlist' = (sendlist \ {d}) \cup {later} /\ later \in Node /\ later.n = d.n
      BY ONLY <2>1, <2>2 DEF later
    <2>3. /\ sendlist' \subseteq Node
          /\ \A e, f \in sendlist' : e.n = f.n => e = f
          /\ \A e \in sendlist' : e.n <= nodes
      BY <2>a DEF TypeOK
    <2> QED BY <1>4, <2>3 DEF TimePasses, TypeOK
  <1> QED BY <1>1, <1>2, <1>3, <1>4

(* The state is well typed in every reachable state, and each mutex is     *)
(* held by the thread that has taken it.                                   *)
THEOREM TypeCorrect == Spec => []TypeOK
  <1>1. Init => TypeOK
    BY CoapAssumption DEF Init, TypeOK, Node, ServerState, NotifierState, Ids
  <1>2. TypeOK /\ [Next]_vars => TypeOK'
    <2> SUFFICES ASSUME TypeOK, Next PROVE TypeOK'
      BY DEF TypeOK, vars
    <2> QED BY NotifierKeepsType, ServerKeepsType, AckKeepsType, ReceiverKeepsType DEF Next
  <1> QED BY <1>1, <1>2, PTL DEF Spec

-----------------------------------------------------------------------------
(* The accounting of the list: it is finite, count is its length, and that *)
(* is within the limit.                                                    *)
Accounting == IsFiniteSet(sendlist) /\ CountIsLength

LEMMA AddIsCounted ==
    ASSUME TypeOK, Accounting, NEW m, CoAPMessageList_add(m)
    PROVE  Accounting'
  <1>1. CASE count >= SENDLIST_MAXCOUNT \/ nodes = MaxNodes
    BY <1>1 DEF CoAPMessageList_add, Accounting, CountIsLength
  <1>2. CASE ~(count >= SENDLIST_MAXCOUNT \/ nodes = MaxNodes)
    <2>1. Listed(m).n = nodes + 1
      BY DEF Listed
    <2>2. Listed(m) \notin sendlist
      BY <2>1, CoapAssumption DEF TypeOK, Node
    <2> HIDE DEF Listed
    <2>3. sendlist' = sendlist \cup {Listed(m)} /\ count' = count + 1
      BY <1>2 DEF CoAPMessageList_add
    <2>4. count \in Nat /\ count = Cardinality(sendlist)
      BY FS_CardinalityType DEF Accounting, CountIsLength
    <2>5. IsFiniteSet(sendlist') /\ Cardinality(sendlist') = Cardinality(sendlist) + 1
      BY <2>2, <2>3, FS_AddElement DEF Accounting
    <2> QED BY <1>2, <2>3, <2>4, <2>5, CoapAssumption DEF Accounting, CountIsLength
  <1> QED BY <1>1, <1>2

LEMMA CancelIsCounted ==
    ASSUME Accounting, NEW id, CoAPMessageId_cancel(id)
    PROVE  Accounting'
  <1> DEFINE C == {d \in sendlist : d.id = id}
  <1>1. sendlist' = sendlist \ C /\ count' = count - Cardinality(C)
    BY DEF CoAPMessageId_cancel
  <1>2. IsFiniteSet(C) /\ sendlist \cap C = C
    BY FS_Subset DEF Accounting
  <1>3. /\ IsFiniteSet(sendlist \ C)
        /\ Cardinality(sendlist \ C) = Cardinality(sendlist) - Cardinality(C)
    BY <1>2, FS_Difference DEF Accounting
  <1>4. Cardinality(C) \in Nat /\ Cardinality(sendlist) \in Nat
    BY <1>2, FS_CardinalityType DEF Accounting
  <1> HIDE DEF C
  <1> QED BY <1>1, <1>3, <1>4, CoapAssumption DEF Accounting, CountIsLength

LEMMA RemovalIsCounted ==
    ASSUME Accounting, NEW d \in sendlist, sendlist' = sendlist \ {d}, count' = count - 1
    PROVE  Accounting'
  <1>1. IsFiniteSet(sendlist') /\ Cardinality(sendlist') = Cardinality(sendlist) - 1
    BY FS_RemoveElement DEF Accounting
  <1>2. Cardinality(sendlist) \in Nat
    BY FS_CardinalityType DEF Accounting
  <1> QED BY <1>1, <1>2, CoapAssumption DEF Accounting, CountIsLength

LEMMA ReplacementIsCounted ==
    ASSUME TypeOK, Accounting, NEW d \in sendlist, NEW e, e.n = d.n,
           sendlist' = (sendlist \ {d}) \cup {e}, count' = count
    PROVE  Accounting'
  <1>1. /\ IsFiniteSet(sendlist \ {d})
        /\ Cardinality(sendlist \ {d}) = Cardinality(sendlist) - 1
    BY FS_RemoveElement DEF Accounting
  <1>2. e \notin sendlist \ {d}
    BY DEF TypeOK
  <1>3. /\ IsFiniteSet(sendlist')
        /\ Cardinality(sendlist') = Cardinality(sendlist \ {d}) + 1
    BY <1>1, <1>2, FS_AddElement
  <1>4. Cardinality(sendlist) \in Nat
    BY FS_CardinalityType DEF Accounting
  <1> QED BY <1>1, <1>3, <1>4 DEF Accounting, CountIsLength

LEMMA RetransmissionIsCounted ==
    ASSUME TypeOK, Accounting, Retansmit
    PROVE  Accounting'
  <1> DEFINE f == [d \in sendlist |-> Retransmitted(d)]
             T == {Retransmitted(d) : d \in sendlist}
  <1>1. \A d \in sendlist : Retransmitted(d).n = d.n
    BY DEF Retransmitted, TypeOK, Node
  <1> HIDE DEF Retransmitted
  <1>2. \A d, e \in sendlist : Retransmitted(d) = Retransmitted(e) => d = e
    BY <1>1 DEF TypeOK
  <1>3. f \in Bijection(sendlist, T)
    BY <1>2 DEF Bijection, Injection, Surjection, IsInjective
  <1>4. ExistsBijection(sendlist, T)
    BY <1>3 DEF ExistsBijection
  <1>5. sendlist' = T /\ count' = count
    BY DEF Retansmit
  <1> HIDE DEF T
  <1>6. IsFiniteSet(T) /\ Cardinality(T) = Cardinality(sendlist)
    BY <1>4, FS_Bijection DEF Accounting
  <1> QED BY <1>5, <1>6 DEF Accounting, CountIsLength

LEMMA StepIsCounted ==
    ASSUME TypeOK, Accounting, [Next]_vars
    PROVE  Accounting'
  <1>1. ASSUME NEW a \in Notifiers,
               Broadcast(a) \/ CancelBroadcast(a) \/ Notify(a) \/ NotifierStep(a)
        PROVE  Accounting'
    <2>1. CASE Broadcast(a)
      BY <2>1, CancelIsCounted DEF Broadcast
    <2>2. CASE CancelBroadcast(a)
      BY <2>2, CancelIsCounted DEF CancelBroadcast
    <2>3. CASE ListBroadcast(a)
      BY <2>3, AddIsCounted DEF ListBroadcast
    <2>4. CASE ListNotification(a)
      BY <2>4, AddIsCounted DEF ListNotification
    <2>5. CASE Notify(a) \/ WriteBroadcast(a) \/ NotifyObserver(a) \/ EndNotify(a)
      BY <2>5 DEF Notify, WriteBroadcast, NotifyObserver, EndNotify, Accounting, CountIsLength
    <2> QED BY <1>1, <2>1, <2>2, <2>3, <2>4, <2>5 DEF NotifierStep
  <1>2. ASSUME NEW id \in Ids, ReceiveAck(id)
        PROVE  Accounting'
    <2>1. PICK d \in sendlist :
             \/ /\ sendlist' = (sendlist \ {d}) \cup {[d EXCEPT !.acked = TRUE]}
                /\ UNCHANGED count
             \/ sendlist' = sendlist \ {d} /\ count' = count - 1
      BY <1>2 DEF ReceiveAck, First, Found
    <2>2. [d EXCEPT !.acked = TRUE].n = d.n
      BY DEF TypeOK, Node
    <2> QED BY <2>1, <2>2, ReplacementIsCounted, RemovalIsCounted
  <1>3. ASSUME NEW n \in 1 .. MaxNodes, TimePasses(n)
        PROVE  Accounting'
    <2>1. PICK d \in sendlist : sendlist' = (sendlist \ {d}) \cup {[d EXCEPT !.due = TRUE]}
      BY <1>3 DEF TimePasses
    <2>2. [d EXCEPT !.due = TRUE].n = d.n /\ count' = count
      BY <1>3 DEF TypeOK, Node, TimePasses
    <2> QED BY <2>1, <2>2, ReplacementIsCounted
  <1>4. CASE ServerStep
    <2>1. CASE ListResponse
      BY <2>1, AddIsCounted DEF ListResponse
    <2>2. CASE EndWait
      BY <2>2, CancelIsCounted DEF EndWait
    <2>3. CASE TakeExpired
      <3>1. PICK d \in sendlist : sendlist' = sendlist \ {d} /\ count' = count - 1
        BY <2>3 DEF TakeExpired, First, Expired
      <3> QED BY <3>1, RemovalIsCounted
    <2>4. CASE EndRespond \/ NoneExpired \/ TellTimeout
      BY <2>4 DEF EndRespond, NoneExpired, TellTimeout, Accounting, CountIsLength
    <2> QED BY <1>4, <2>1, <2>2, <2>3, <2>4, RetransmissionIsCounted DEF ServerStep
  <1>5. CASE ReceiveResponse
    <2>1. PICK d \in sendlist :
             \/ UNCHANGED <<sendlist, count>>
             \/ sendlist' = sendlist \ {d} /\ count' = count - 1
      BY <1>5 DEF ReceiveResponse
    <2>2. CASE UNCHANGED <<sendlist, count>>
      BY <2>2 DEF Accounting, CountIsLength
    <2> QED BY <2>1, <2>2, RemovalIsCounted
  <1>6. ASSUME \/ NothingToRead \/ DeleteObservers \/ UNCHANGED vars
               \/ \E r \in Peers, type \in {"CON", "NON"} : ReceiveObserve(r, type)
               \/ \E r \in Peers, id \in PeerIds : ReceiveSwitchap(r, id)
        PROVE  Accounting'
    BY <1>6 DEF NothingToRead, DeleteObservers, vars, ReceiveObserve,
                ReceiveSwitchap, Accounting, CountIsLength
  <1> QED BY <1>1, <1>2, <1>3, <1>4, <1>5, <1>6 DEF Next

(* sendlist.count is the number of listed messages, and within             *)
(* send_maxcount, after every addition, acknowledgement, cancellation,     *)
(* timeout and response with its token.                                    *)
THEOREM CountIsCorrect == Spec => []CountIsLength
  <1>1. Init => Accounting
    BY FS_EmptySet, CoapAssumption DEF Init, Accounting, CountIsLength
  <1>2. TypeOK /\ Accounting /\ [Next]_vars => Accounting'
    BY StepIsCounted
  <1>3. Accounting => CountIsLength
    BY DEF Accounting
  <1> QED BY <1>1, <1>2, <1>3, TypeCorrect, PTL DEF Spec

-----------------------------------------------------------------------------
(* The memory of the messages: what is listed or in the server's hands has *)
(* not been released, nor has what is still to be allocated; and the       *)
(* server's message is none of the listed ones.                            *)
Memory ==
    /\ FreedOnce
    /\ \A n \in 1 .. MaxNodes : n > nodes => freed[n] = 0
    /\ \A n \in InHand : n <= nodes
    /\ server.at = "respond" => server.n <= nodes

(* A server that stays where it is, or calls no handler, holds no more.    *)
LEMMA HandKept ==
    ASSUME server' = server \/ server'.at \notin {"expire", "told", "respond"}
    PROVE  /\ InHand' \subseteq InHand
           /\ server'.at = "respond" => server' = server
  BY DEF InHand

LEMMA HandTyped == InHand \subseteq 1 .. MaxNodes
  BY DEF InHand

LEMMA AddKeepsMemory ==
    ASSUME TypeOK, Memory, NEW m, CoAPMessageList_add(m), freed' = freed,
           server' = server \/ server'.at \notin {"expire", "told", "respond"}
    PROVE  Memory'
  <1>1. CASE count >= SENDLIST_MAXCOUNT \/ nodes = MaxNodes
    BY <1>1, HandKept DEF CoAPMessageList_add, Memory, FreedOnce
  <1>2. CASE ~(count >= SENDLIST_MAXCOUNT \/ nodes = MaxNodes)
    <2>1. Listed(m).n = nodes + 1 /\ nodes + 1 \in 1 .. MaxNodes
      BY <1>2, CoapAssumption DEF Listed, TypeOK
    <2> HIDE DEF Listed
    <2>2. sendlist' = sendlist \cup {Listed(m)} /\ nodes' = nodes + 1
      BY <1>2 DEF CoAPMessageList_add
    <2>3. freed[nodes + 1] = 0
      BY <2>1, CoapAssumption DEF Memory, TypeOK
    <2>4. \A d \in sendlist' : freed'[d.n] = 0
      BY <2>1, <2>2, <2>3 DEF Memory, FreedOnce
    <2>5. \A n \in 1 .. MaxNodes : n > nodes' => freed'[n] = 0
      BY <2>2, CoapAssumption DEF Memory, TypeOK
    <2>6. \A n \in InHand :
             /\ n \in Nat /\ n <= nodes
             /\ freed[n] = 0
             /\ \A d \in sendlist : d.n # n
      BY HandTyped DEF Memory, FreedOnce
    <2>7. \A n \in InHand : n <= nodes' /\ \A d \in sendlist' : d.n # n
      BY <2>1, <2>2, <2>6, CoapAssumption DEF TypeOK
    <2>8. server.at = "respond" => server.n <= nodes'
      BY <2>2, CoapAssumption DEF Memory, TypeOK, ServerState
    <2> QED BY <2>4, <2>5, <2>6, <2>7, <2>8, HandKept DEF Memory, FreedOnce
  <1> QED BY <1>1, <1>2

LEMMA ReleaseKeepsMemory ==
    ASSUME TypeOK, Memory, NEW S \in SUBSET sendlist, sendlist' = sendlist \ S,
           Release(S), nodes' = nodes,
           server' = server \/ server'.at \notin {"expire", "told", "respond"}
    PROVE  Memory'
  <1>1. \A d \in sendlist' : d.n \notin {e.n : e \in S}
    BY DEF TypeOK
  <1>2. \A n \in 1 .. MaxNodes : n \notin {e.n : e \in S} => freed'[n] = freed[n]
    BY DEF Release, TypeOK
  <1>3. \A e \in S : e.n <= nodes
    BY DEF TypeOK
  <1>4. \A d \in sendlist : d.n \in 1 .. MaxNodes
    BY DEF TypeOK, Node
  <1>5. \A d \in sendlist' : freed'[d.n] = 0
    BY <1>1, <1>2, <1>4 DEF Memory, FreedOnce
  <1>6. \A n \in 1 .. MaxNodes : n > nodes => freed'[n] = 0
    BY <1>2, <1>3, CoapAssumption DEF Memory, TypeOK
  <1>7. \A n \in InHand : n \in 1 .. MaxNodes /\ n \notin {e.n : e \in S}
    BY HandTyped DEF Memory, FreedOnce
  <1> QED BY <1>2, <1>5, <1>6, <1>7, HandKept DEF Memory, FreedOnce

LEMMA ReplacementKeepsMemory ==
    ASSUME TypeOK, Memory, UNCHANGED <<freed, nodes>>,
           \A e \in sendlist' : \E d \in sendlist : e.n = d.n,
           server' = server \/ server'.at \notin {"expire", "told", "respond"}
    PROVE  Memory'
  <1>1. \A n \in InHand' : freed[n] = 0 /\ n <= nodes /\ \A e \in sendlist' : e.n # n
    BY HandKept DEF Memory, FreedOnce
  <1>2. \A e \in sendlist' : freed[e.n] = 0
    BY DEF Memory, FreedOnce
  <1> QED BY <1>1, <1>2, HandKept DEF Memory, FreedOnce

(* The server takes the message d off the list, to call its handler.       *)
LEMMA TakingKeepsMemory ==
    ASSUME TypeOK, Memory, NEW d \in sendlist, sendlist' = sendlist \ {d},
           UNCHANGED <<freed, nodes>>, InHand' \subseteq {d.n},
           server'.at = "respond" => server'.n = d.n
    PROVE  Memory'
  <1>1. freed[d.n] = 0 /\ d.n <= nodes /\ \A e \in sendlist' : e.n # d.n
    BY DEF TypeOK, Memory, FreedOnce
  <1> QED BY <1>1 DEF Memory, FreedOnce

(* The server releases the message in its hands, n.                        *)
LEMMA DoneKeepsMemory ==
    ASSUME TypeOK, Memory, NEW n \in 1 .. MaxNodes, n <= nodes,
           \A d \in sendlist : d.n # n,
           \A k \in 1 .. MaxNodes : k # n => freed'[k] = freed[k],
           UNCHANGED <<sendlist, nodes>>, server'.at \in {"read", "check"}
    PROVE  Memory'
  <1>1. InHand' = {}
    BY DEF InHand
  <1>2. \A d \in sendlist : freed'[d.n] = 0
    BY DEF TypeOK, Node, Memory, FreedOnce
  <1>3. \A k \in 1 .. MaxNodes : k > nodes => freed'[k] = 0
    BY CoapAssumption DEF Memory, TypeOK
  <1> QED BY <1>1, <1>2, <1>3 DEF Memory, FreedOnce

LEMMA StepKeepsMemory ==
    ASSUME TypeOK, Memory, [Next]_vars
    PROVE  Memory'
  <1>1. ASSUME NEW a \in Notifiers,
               Broadcast(a) \/ CancelBroadcast(a) \/ Notify(a) \/ NotifierStep(a)
        PROVE  Memory'
    <2>1. CASE Broadcast(a)
      BY <2>1, ReleaseKeepsMemory DEF Broadcast, CoAPMessageId_cancel
    <2>2. CASE CancelBroadcast(a)
      BY <2>2, ReleaseKeepsMemory DEF CancelBroadcast, CoAPMessageId_cancel
    <2>3. CASE ListBroadcast(a)
      BY <2>3, AddKeepsMemory DEF ListBroadcast
    <2>4. CASE ListNotification(a)
      BY <2>4, AddKeepsMemory DEF ListNotification
    <2>5. CASE Notify(a) \/ WriteBroadcast(a) \/ NotifyObserver(a) \/ EndNotify(a)
      BY <2>5, ReplacementKeepsMemory DEF Notify, WriteBroadcast, NotifyObserver, EndNotify
    <2> QED BY <1>1, <2>1, <2>2, <2>3, <2>4, <2>5 DEF NotifierStep
  <1>2. ASSUME NEW id \in Ids, ReceiveAck(id)
        PROVE  Memory'
    <2>1. PICK d \in sendlist :
             \/ /\ sendlist' = (sendlist \ {d}) \cup {[d EXCEPT !.acked = TRUE]}
                /\ UNCHANGED freed
             \/ sendlist' = sendlist \ {d} /\ Release({d})
      BY <1>2 DEF ReceiveAck, First, Found
    <2>2. [d EXCEPT !.acked = TRUE].n = d.n
      BY DEF TypeOK, Node
    <2>3. server' = server /\ nodes' = nodes
      BY <1>2 DEF ReceiveAck
    <2> QED BY <2>1, <2>2, <2>3, ReplacementKeepsMemory, ReleaseKeepsMemory
  <1>3. ASSUME NEW n \in 1 .. MaxNodes, TimePasses(n)
        PROVE  Memory'
    <2>1. PICK d \in sendlist : sendlist' = (sendlist \ {d}) \cup {[d EXCEPT !.due = TRUE]}
      BY <1>3 DEF TimePasses
    <2>2. [d EXCEPT !.due = TRUE].n = d.n
      BY DEF TypeOK, Node
    <2> QED BY <1>3, <2>1, <2>2, ReplacementKeepsMemory DEF TimePasses
  <1>4. CASE ServerStep
    <2>1. CASE ListResponse
      BY <2>1, AddKeepsMemory DEF ListResponse
    <2>2. CASE EndWait
      BY <2>2, ReleaseKeepsMemory DEF EndWait, CoAPMessageId_cancel
    <2>3. CASE TakeExpired
      <3>1. PICK d \in sendlist : /\ sendlist' = sendlist \ {d}
                                  /\ server' = [at |-> "expire", node |-> d]
        BY <2>3 DEF TakeExpired, First, Expired
      <3>2. UNCHANGED <<freed, nodes>>
        BY <2>3 DEF TakeExpired
      <3>3. InHand' \subseteq {d.n}
        BY <3>1 DEF InHand
      <3> QED BY <3>1, <3>2, <3>3, TakingKeepsMemory
    <2>4. CASE Retansmit
      <3>1. \A d \in sendlist : Retransmitted(d).n = d.n
        BY DEF Retransmitted, TypeOK, Node
      <3> HIDE DEF Retransmitted
      <3> QED BY <2>4, <3>1, ReplacementKeepsMemory DEF Retansmit
    <2>5. CASE EndRespond
      <3>1. server.n \in 1 .. MaxNodes /\ server.n <= nodes
        BY <2>5 DEF EndRespond, Memory, TypeOK, ServerState
      <3>2. UNCHANGED <<sendlist, nodes>> /\ server'.at = "read"
        BY <2>5 DEF EndRespond
      <3>3. CASE UNCHANGED freed
        BY <3>2, <3>3, ReplacementKeepsMemory
      <3>4. CASE /\ server.kept => ~ \E d \in sendlist : d.n = server.n
                 /\ freed' = [freed EXCEPT ![server.n] = @ + 1]
        <4>1. \A d \in sendlist : d.n # server.n
          <5>1. CASE server.kept
            BY <5>1, <3>4
          <5>2. CASE ~server.kept
            <6>1. server.n \in InHand
              BY <2>5, <3>1, <5>2 DEF EndRespond, InHand
            <6> QED BY <6>1 DEF Memory, FreedOnce
          <5> QED BY <5>1, <5>2
        <4>2. \A k \in 1 .. MaxNodes : k # server.n => freed'[k] = freed[k]
          BY <3>4 DEF TypeOK
        <4> QED BY <3>1, <3>2, <4>1, <4>2, DoneKeepsMemory
      <3> QED BY <2>5, <3>3, <3>4 DEF EndRespond
    <2>6. CASE NoneExpired
      BY <2>6, ReplacementKeepsMemory DEF NoneExpired
    <2>7. CASE TellTimeout
      <3>1. server.node.n \in InHand
        BY <2>7 DEF TellTimeout, InHand, TypeOK, ServerState, Node
      <3>2. \A k \in 1 .. MaxNodes : k # server.node.n => freed'[k] = freed[k]
        BY <2>7 DEF TellTimeout, Release, TypeOK
      <3>3. /\ server.node.n \in 1 .. MaxNodes /\ server.node.n <= nodes
            /\ \A d \in sendlist : d.n # server.node.n
        BY <3>1, HandTyped DEF Memory, FreedOnce
      <3>4. UNCHANGED <<sendlist, nodes>> /\ server'.at = "check"
        BY <2>7 DEF TellTimeout
      <3> QED BY <3>2, <3>3, <3>4, DoneKeepsMemory
    <2> QED BY <1>4, <2>1, <2>2, <2>3, <2>4, <2>5, <2>6, <2>7 DEF ServerStep
  <1>5. CASE DeleteObservers
    <2>1. InHand' = InHand /\ server'.at = "told"
      BY <1>5 DEF DeleteObservers, InHand
    <2>2. UNCHANGED <<sendlist, nodes, freed>>
      BY <1>5 DEF DeleteObservers
    <2> QED BY <2>1, <2>2 DEF Memory, FreedOnce
  <1>r. CASE ReceiveResponse
    <2>1. PICK d \in sendlist :
             /\ server' = [at |-> "respond", n |-> d.n, kept |-> d.kind = "kept"]
             /\ sendlist' = IF d.kind = "kept" THEN sendlist ELSE sendlist \ {d}
      BY <1>r DEF ReceiveResponse, Matched
    <2>2. UNCHANGED <<freed, nodes>>
      BY <1>r DEF ReceiveResponse
    <2>3. CASE d.kind = "kept"
      <3>1. InHand' = {} /\ server'.n = d.n
        BY <2>1, <2>3 DEF InHand
      <3>2. d.n <= nodes
        BY DEF TypeOK
      <3> QED BY <2>1, <2>2, <2>3, <3>1, <3>2 DEF Memory, FreedOnce
    <2>4. CASE d.kind # "kept"
      <3>1. InHand' \subseteq {d.n} /\ server'.n = d.n
        BY <2>1 DEF InHand
      <3> QED BY <2>1, <2>2, <2>4, <3>1, TakingKeepsMemory
    <2> QED BY <2>3, <2>4
  <1>6. ASSUME \/ NothingToRead \/ UNCHANGED vars
               \/ \E r \in Peers, type \in {"CON", "NON"} : ReceiveObserve(r, type)
               \/ \E r \in Peers, id \in PeerIds : ReceiveSwitchap(r, id)
        PROVE  Memory'
    BY <1>6, ReplacementKeepsMemory DEF NothingToRead, vars, ReceiveObserve,
                ReceiveSwitchap
  <1> QED BY <1>1, <1>2, <1>3, <1>4, <1>5, <1>6, <1>r DEF Next

(* No message on the list or in the server's hands has been released:      *)
(* acknowledgement, cancellation, timeout and a response with its token    *)
(* free different messages.                                                *)
THEOREM MemoryIsSafe == Spec => []FreedOnce
  <1>1. Init => Memory
    BY DEF Init, Memory, FreedOnce, InHand
  <1>2. TypeOK /\ Memory /\ [Next]_vars => Memory'
    BY StepKeepsMemory
  <1>3. Memory => FreedOnce
    BY DEF Memory
  <1> QED BY <1>1, <1>2, <1>3, TypeCorrect, PTL DEF Spec

-----------------------------------------------------------------------------
(* The broadcasts: a listed one carries the id its notifier remembers, and *)
(* none is listed while its notifier sends the next.  What is being listed *)
(* is of the kind its sender lists.                                        *)
Broadcasts ==
    /\ OneBroadcastEach
    /\ \A d \in sendlist : d.kind = "kept" =>
          /\ d.to \in Notifiers
          /\ d.id = msgid[d.to]
          /\ notifier[d.to].at \notin {"write", "add"}
    /\ \A a \in Notifiers :
          /\ notifier[a].at = "add" => notifier[a].m.to = a /\ notifier[a].m.id = msgid[a]
          /\ notifier[a].at = "notify_add" => notifier[a].m.kind = "notification"
    /\ server.at = "respond_add" => server.m.kind = "response"

LEMMA ReplacementKeepsBroadcasts ==
    ASSUME Broadcasts, NEW d \in sendlist, NEW e,
           e.kind = d.kind, e.to = d.to, e.id = d.id,
           sendlist' = (sendlist \ {d}) \cup {e}, UNCHANGED <<msgid, notifier, server>>
    PROVE  Broadcasts'
  <1>1. OneBroadcastEach'
    BY DEF Broadcasts, OneBroadcastEach
  <1> QED BY <1>1 DEF Broadcasts

LEMMA StepKeepsBroadcasts ==
    ASSUME TypeOK, Broadcasts, [Next]_vars
    PROVE  Broadcasts'
  <1>add. ASSUME NEW m, CoAPMessageList_add(m), m.kind # "kept"
          PROVE  /\ \A e \in sendlist' : e.kind = "kept" => e \in sendlist
                 /\ \A e, f \in sendlist' :
                       (e.kind = "kept" /\ f.kind = "kept" /\ e.to = f.to) => e = f
    <2>1. Listed(m).kind # "kept"
      BY <1>add DEF Listed
    <2> HIDE DEF Listed
    <2>2. sendlist' \subseteq sendlist \cup {Listed(m)}
      BY <1>add DEF CoAPMessageList_add
    <2> QED BY <2>1, <2>2 DEF Broadcasts, OneBroadcastEach
  <1>t. \A a \in Notifiers : notifier[a] \in NotifierState
    BY DEF TypeOK
  <1>1. ASSUME NEW a \in Notifiers, Broadcast(a)
        PROVE  Broadcasts'
    <2>1. sendlist' = {d \in sendlist : d.id # msgid[a]}
      BY <1>1 DEF Broadcast, CoAPMessageId_cancel
    <2>2. /\ notifier' = [notifier EXCEPT ![a] = [at |-> "write"]]
          /\ UNCHANGED <<msgid, server>>
      BY <1>1 DEF Broadcast
    <2>3. \A d \in sendlist' : d.kind = "kept" => d \in sendlist /\ d.to # a
      BY <2>1 DEF Broadcasts
    <2> QED BY <2>2, <2>3 DEF Broadcasts, OneBroadcastEach, TypeOK
  <1>2. ASSUME NEW a \in Notifiers, CancelBroadcast(a)
        PROVE  Broadcasts'
    <2>1. sendlist' = {d \in sendlist : d.id # msgid[a]}
      BY <1>2 DEF CancelBroadcast, CoAPMessageId_cancel
    <2>2. /\ msgid' = [msgid EXCEPT ![a] = 0]
          /\ UNCHANGED <<notifier, server>> /\ notifier[a].at # "add"
      BY <1>2 DEF CancelBroadcast
    <2>3. \A d \in sendlist' : d.kind = "kept" => d \in sendlist /\ d.to # a
      BY <2>1 DEF Broadcasts
    <2> QED BY <2>2, <2>3 DEF Broadcasts, OneBroadcastEach, TypeOK
  <1>3. ASSUME NEW a \in Notifiers, WriteBroadcast(a)
        PROVE  Broadcasts'
    <2>1. \A d \in sendlist : d.kind = "kept" => d.to # a
      BY <1>3 DEF WriteBroadcast, Broadcasts
    <2>2. /\ msgid' = [msgid EXCEPT ![a] = GeneratedId]
          /\ UNCHANGED <<sendlist, server>>
          /\ \/ notifier' = [notifier EXCEPT ![a] =
                   [at |-> "add", m |-> [id |-> GeneratedId, to |-> a, kind |-> "kept"]]]
             \/ notifier' = [notifier EXCEPT ![a] = [at |-> "idle"]]
      BY <1>3 DEF WriteBroadcast
    <2> HIDE DEF GeneratedId
    <2> QED BY <2>1, <2>2 DEF Broadcasts, OneBroadcastEach, TypeOK
  <1>4. ASSUME NEW a \in Notifiers, ListBroadcast(a)
        PROVE  Broadcasts'
    <2> DEFINE m == notifier[a].m
    <2>1. \A d \in sendlist : d.kind = "kept" => d.to # a
      BY <1>4 DEF ListBroadcast, Broadcasts
    <2>2. m.to = a /\ m.id = msgid[a]
      BY <1>4 DEF ListBroadcast, Broadcasts
    <2>3. Listed(m).to = a /\ Listed(m).id = msgid[a]
      BY <2>2 DEF Listed
    <2>4. sendlist' \subseteq sendlist \cup {Listed(m)}
      BY <1>4 DEF ListBroadcast, CoAPMessageList_add
    <2>5. /\ notifier' = [notifier EXCEPT ![a] = [at |-> "idle"]]
          /\ UNCHANGED <<msgid, server>>
      BY <1>4 DEF ListBroadcast
    <2>6. notifier'[a].at = "idle" /\ \A b \in Notifiers \ {a} : notifier'[b] = notifier[b]
      BY <2>5 DEF TypeOK
    <2> HIDE DEF Listed, m
    <2>7. \A d \in sendlist' : d.kind = "kept" =>
             \/ d \in sendlist /\ d.to # a
             \/ d = Listed(m)
      BY <2>1, <2>4
    <2>8. OneBroadcastEach'
      BY <2>3, <2>7 DEF Broadcasts, OneBroadcastEach
    <2> QED BY <2>3, <2>5, <2>6, <2>7, <2>8 DEF Broadcasts
  <1>5. ASSUME NEW a \in Notifiers, ListNotification(a)
        PROVE  Broadcasts'
    <2>1. \A e \in sendlist' : e.kind = "kept" => e \in sendlist
      BY <1>5, <1>add DEF ListNotification, Broadcasts
    <2>2. OneBroadcastEach'
      BY <2>1 DEF Broadcasts, OneBroadcastEach
    <2>3. /\ notifier'[a].at = "notify"
          /\ \A b \in Notifiers \ {a} : notifier'[b] = notifier[b]
          /\ UNCHANGED <<msgid, server>>
      BY <1>5 DEF ListNotification, TypeOK
    <2>4. notifier[a].at = "notify_add"
      BY <1>5 DEF ListNotification
    <2> QED BY <2>1, <2>2, <2>3, <2>4 DEF Broadcasts
  <1>6. ASSUME NEW a \in Notifiers, Notify(a) \/ NotifyObserver(a) \/ EndNotify(a)
        PROVE  Broadcasts'
    <2>1. /\ notifier'[a].at \notin {"write", "add"}
          /\ notifier'[a].at = "notify_add" => notifier'[a].m.kind = "notification"
          /\ \A b \in Notifiers \ {a} : notifier'[b] = notifier[b]
      <3>1. CASE Notify(a) \/ EndNotify(a)
        BY <3>1 DEF Notify, EndNotify, TypeOK
      <3>2. CASE NotifyObserver(a)
        <4>1. PICK r \in notifier[a].todo :
                 \/ notifier' = [notifier EXCEPT ![a].todo = notifier[a].todo \ {r}]
                 \/ notifier' = [notifier EXCEPT ![a] =
                      [at |-> "notify_add", todo |-> notifier[a].todo \ {r},
                       m |-> [id |-> GeneratedId, to |-> r, kind |-> "notification"]]]
          BY <3>2 DEF NotifyObserver
        <4>2. notifier[a].at = "notify"
          BY <3>2 DEF NotifyObserver
        <4>3. CASE notifier' = [notifier EXCEPT ![a].todo = notifier[a].todo \ {r}]
          <5>1. notifier'[a] = [notifier[a] EXCEPT !.todo = notifier[a].todo \ {r}]
            BY <4>3 DEF TypeOK
          <5>2. notifier'[a].at = "notify"
            BY <5>1, <4>2, <1>t DEF NotifierState
          <5> QED BY <4>3, <5>2 DEF TypeOK
        <4>4. CASE notifier' = [notifier EXCEPT ![a] =
                      [at |-> "notify_add", todo |-> notifier[a].todo \ {r},
                       m |-> [id |-> GeneratedId, to |-> r, kind |-> "notification"]]]
          BY <4>4 DEF TypeOK
        <4> QED BY <4>1, <4>3, <4>4
      <3> QED BY <1>6, <3>1, <3>2
    <2>2. UNCHANGED <<sendlist, msgid, server>>
      BY <1>6 DEF Notify, NotifyObserver, EndNotify
    <2> QED BY <2>1, <2>2 DEF Broadcasts, OneBroadcastEach
  <1>7. ASSUME NEW id \in Ids, ReceiveAck(id)
        PROVE  Broadcasts'
    <2>1. PICK d \in sendlist :
             \/ sendlist' = (sendlist \ {d}) \cup {[d EXCEPT !.acked = TRUE]}
             \/ sendlist' = sendlist \ {d}
      BY <1>7 DEF ReceiveAck, First, Found
    <2> DEFINE e == [d EXCEPT !.acked = TRUE]
    <2>2. e.kind = d.kind /\ e.to = d.to /\ e.id = d.id
      BY DEF TypeOK, Node
    <2>3. UNCHANGED <<msgid, notifier, server>>
      BY <1>7 DEF ReceiveAck
    <2>4. CASE sendlist' = sendlist \ {d}
      BY <2>3, <2>4 DEF Broadcasts, OneBroadcastEach
    <2> QED BY <2>1, <2>2, <2>3, <2>4, ReplacementKeepsBroadcasts
  <1>8. ASSUME NEW n \in 1 .. MaxNodes, TimePasses(n)
        PROVE  Broadcasts'
    <2>1. PICK d \in sendlist : sendlist' = (sendlist \ {d}) \cup {[d EXCEPT !.due = TRUE]}
      BY <1>8 DEF TimePasses
    <2> DEFINE e == [d EXCEPT !.due = TRUE]
    <2>2. e.kind = d.kind /\ e.to = d.to /\ e.id = d.id
      BY DEF TypeOK, Node
    <2>3. UNCHANGED <<msgid, notifier, server>>
      BY <1>8 DEF TimePasses
    <2> QED BY <2>1, <2>2, <2>3, ReplacementKeepsBroadcasts
  <1>9. CASE ServerStep
    <2>1. CASE ListResponse
      <3>1. \A e \in sendlist' : e.kind = "kept" => e \in sendlist
        BY <2>1, <1>add DEF ListResponse, Broadcasts
      <3> QED BY <2>1, <3>1 DEF ListResponse, Broadcasts, OneBroadcastEach
    <2>2. CASE EndWait
      BY <2>2 DEF EndWait, CoAPMessageId_cancel, Broadcasts, OneBroadcastEach
    <2>3. CASE Retansmit
      <3>1. \A d \in sendlist : /\ Retransmitted(d).kind = d.kind
                                /\ Retransmitted(d).to = d.to
                                /\ Retransmitted(d).id = d.id
        BY DEF Retransmitted, TypeOK, Node
      <3> HIDE DEF Retransmitted
      <3>2. /\ sendlist' = {Retransmitted(d) : d \in sendlist}
            /\ UNCHANGED <<msgid, notifier>> /\ server'.at = "check"
        BY <2>3 DEF Retansmit
      <3> QED BY <3>1, <3>2 DEF Broadcasts, OneBroadcastEach
    <2>4. CASE TakeExpired
      BY <2>4 DEF TakeExpired, First, Expired, Broadcasts, OneBroadcastEach
    <2>5. CASE EndRespond \/ NoneExpired \/ TellTimeout
      BY <2>5 DEF EndRespond, NoneExpired, TellTimeout, Broadcasts, OneBroadcastEach
    <2> QED BY <1>9, <2>1, <2>2, <2>3, <2>4, <2>5 DEF ServerStep
  <1>10. ASSUME \/ NothingToRead \/ DeleteObservers \/ UNCHANGED vars
                \/ \E r \in Peers, type \in {"CON", "NON"} : ReceiveObserve(r, type)
                \/ \E r \in Peers, id \in PeerIds : ReceiveSwitchap(r, id)
         PROVE  Broadcasts'
    BY <1>10 DEF NothingToRead, DeleteObservers, vars, ReceiveObserve,
                 ReceiveSwitchap, Broadcasts, OneBroadcastEach
  <1>11. CASE ReceiveResponse
    <2>1. /\ sendlist' \subseteq sendlist /\ UNCHANGED <<msgid, notifier>>
          /\ server'.at = "respond"
      BY <1>11 DEF ReceiveResponse, Matched
    <2> QED BY <2>1 DEF Broadcasts, OneBroadcastEach
  <1> QED BY <1>1, <1>2, <1>3, <1>4, <1>5, <1>6, <1>7, <1>8, <1>9, <1>10, <1>11 DEF Next, NotifierStep

(* However its sends, cancellations and the server's cycle interleave, and *)
(* whatever ids collide, a notifier has at most one broadcast listed.      *)
THEOREM BroadcastsAreCancelled == Spec => []OneBroadcastEach
  <1>1. Init => Broadcasts
    BY DEF Init, Broadcasts, OneBroadcastEach
  <1>2. TypeOK /\ Broadcasts /\ [Next]_vars => Broadcasts'
    BY StepKeepsBroadcasts
  <1>3. Broadcasts => OneBroadcastEach
    BY DEF Broadcasts
  <1> QED BY <1>1, <1>2, <1>3, TypeCorrect, PTL DEF Spec
=============================================================================
