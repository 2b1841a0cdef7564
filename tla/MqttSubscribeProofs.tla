------------------------ MODULE MqttSubscribeProofs ------------------------
(***************************************************************************)
(* The subscriptions of an MQTT client: the synchronous calls              *)
(* (MqttSubSync), the topic filters (MqttTopic) and the list of handlers   *)
(* (MqttHandlers), for every set of callers, alphabet, filter and name.    *)
(*                                                                         *)
(* The topic algorithms and Remaining are recursive functions over         *)
(* positions.  What they compute is proved by the induction principle      *)
(* NatSetInduction, which is stated over a set instead of a predicate, and *)
(* that a function with the recursion's equation exists at all by          *)
(* TailRecursion and PrimitiveRecursion.                                   *)
(***************************************************************************)
EXTENDS MqttSubSync, MqttHandlers, MCMqttTopic,
        SequenceTheorems, FiniteSetTheorems, TLAPS


(* A set of numbers that is not empty has a least element: the intervals 1 *)
(* .. n for its members are finite, and inclusion is well founded on       *)
(* finite sets.                                                            *)
LEMMA LeastNat ==
    ASSUME NEW U \in SUBSET Nat, U # {}
    PROVE  \E m \in U : \A y \in U : m <= y
  <1> DEFINE R == StrictSubsetOrdering(Nat)
             T == {1 .. n : n \in U}
  <1>1. IsWellFoundedOn(R, FiniteSubsetsOf(Nat))
    BY FS_StrictSubsetOrderingWellFounded
  <1>2. T \subseteq FiniteSubsetsOf(Nat) /\ T # {}
    <2>1. \A n \in U : IsFiniteSet(1 .. n) /\ 1 .. n \subseteq Nat
      BY FS_Interval
    <2> QED BY <2>1 DEF FiniteSubsetsOf
  <1>3. PICK x \in T : \A y \in T : ~(<<y, x>> \in R)
    <2> HIDE DEF R, T
    <2> QED BY <1>1, <1>2, WFMin
  <1>4. PICK m \in U : x = 1 .. m
    OBVIOUS
  <1>5. ASSUME NEW y \in U, y < m PROVE FALSE
    <2>1. 1 .. y \in T
      BY <1>5
    <2>2. 1 .. y \subseteq 1 .. m /\ 1 .. y # 1 .. m
      <3>1. m \in 1 .. m /\ m \notin 1 .. y
        BY <1>5
      <3> QED BY <1>5, <3>1
    <2>3. <<1 .. y, 1 .. m>> \in R
      BY <2>2, <1>5 DEF StrictSubsetOrdering
    <2> QED BY <1>3, <1>4, <2>1, <2>3
  <1> QED
    BY <1>5

(* Induction over the numbers, for a set T that holds 0 and is closed      *)
(* under the successor.                                                    *)
LEMMA NatSetInduction ==
    ASSUME NEW T, 0 \in T, \A n \in Nat : n \in T => n + 1 \in T
    PROVE  Nat \subseteq T
  <1> SUFFICES ASSUME NEW x \in Nat, x \notin T PROVE FALSE
    OBVIOUS
  <1>1. PICK m \in Nat \ T : \A y \in Nat \ T : m <= y
    BY LeastNat
  <1>2. m # 0 /\ m - 1 \in Nat
    OBVIOUS
  <1>3. m - 1 \in T
    BY <1>1, <1>2
  <1>4. (m - 1) + 1 = m
    OBVIOUS
  <1> QED
    BY <1>1, <1>2, <1>3, <1>4

(* g has the equation of a search that goes from position to position by   *)
(* nxt: it succeeds where A does, and goes on only where B does.           *)
Recurs(g, S, A, B, nxt) == \A x \in S : g[x] = (A[x] \/ (B[x] /\ g[nxt[x]]))

(* Such a g exists, whatever A, B and nxt are: at x it says whether a path *)
(* along B reaches A.                                                      *)
LEMMA TailRecursion ==
    ASSUME NEW S, NEW A \in [S -> BOOLEAN], NEW B \in [S -> BOOLEAN], NEW nxt \in [S -> S]
    PROVE  \E g \in [S -> BOOLEAN] : Recurs(g, S, A, B, nxt)
  <1> DEFINE Path(x, k, p) == /\ p \in [Nat -> S] /\ p[0] = x /\ A[p[k]]
                              /\ \A j \in Nat : j < k => B[p[j]] /\ p[j + 1] = nxt[p[j]]
             Good(x) == \E k \in Nat : \E p \in [Nat -> S] : Path(x, k, p)
             g == [x \in S |-> Good(x)]
  <1>1. \A x \in S : Good(x) \in BOOLEAN
    OBVIOUS
  <1>2. ASSUME NEW x \in S, A[x] PROVE Good(x)
    <2> DEFINE p == [i \in Nat |-> x]
    <2>1. Path(x, 0, p)
      BY <1>2
    <2> QED BY <2>1
  <1>3. ASSUME NEW x \in S, B[x], Good(nxt[x]) PROVE Good(x)
    <2>1. PICK k \in Nat, p \in [Nat -> S] : Path(nxt[x], k, p)
      BY <1>3
    <2> DEFINE q == [i \in Nat |-> IF i = 0 THEN x ELSE p[i - 1]]
    <2>2. q \in [Nat -> S] /\ q[0] = x /\ q[k + 1] = p[k]
      OBVIOUS
    <2>3. ASSUME NEW j \in Nat, j < k + 1 PROVE B[q[j]] /\ q[j + 1] = nxt[q[j]]
      <3>1. q[j + 1] = p[j]
        OBVIOUS
      <3>2. CASE j = 0
        BY <3>1, <3>2, <1>3, <2>1, <2>2
      <3>3. CASE j # 0
        <4>1. j - 1 \in Nat /\ q[j] = p[j - 1] /\ (j - 1) + 1 = j /\ j - 1 < k
          BY <3>3, <2>3
        <4> QED BY <4>1, <3>1, <2>1
      <3> QED BY <3>2, <3>3
    <2>4. Path(x, k + 1, q)
      <3> HIDE DEF q
      <3> QED BY <2>1, <2>2, <2>3
    <2> HIDE DEF Path, q
    <2> QED BY <2>4, <2>2
  <1>4. ASSUME NEW x \in S, Good(x), ~A[x] PROVE B[x] /\ Good(nxt[x])
    <2>1. PICK k \in Nat, p \in [Nat -> S] : Path(x, k, p)
      BY <1>4
    <2>2. k # 0 /\ k - 1 \in Nat /\ (k - 1) + 1 = k
      BY <2>1, <1>4
    <2>3. B[x] /\ p[1] = nxt[x]
      BY <2>1, <2>2
    <2> DEFINE q == [i \in Nat |-> p[i + 1]]
    <2>4. q \in [Nat -> S] /\ q[0] = nxt[x] /\ q[k - 1] = p[k]
      BY <2>2, <2>3
    <2>5. ASSUME NEW j \in Nat, j < k - 1 PROVE B[q[j]] /\ q[j + 1] = nxt[q[j]]
      BY <2>1, <2>5, <2>2
    <2>6. Path(nxt[x], k - 1, q)
      <3> HIDE DEF q
      <3> QED BY <2>1, <2>4, <2>5
    <2> QED BY <2>2, <2>3, <2>4, <2>6
  <1>5. g \in [S -> BOOLEAN]
    BY <1>1
  <1>6. \A x \in S : g[x] = (A[x] \/ (B[x] /\ g[nxt[x]]))
    <2> TAKE x \in S
    <2>1. g[x] = Good(x) /\ g[nxt[x]] = Good(nxt[x]) /\ nxt[x] \in S
      BY <1>1
    <2> HIDE DEF Good, g
    <2> QED BY <2>1, <1>2, <1>3, <1>4, <1>1
  <1> QED
    <2> HIDE DEF g
    <2> QED BY <1>5, <1>6 DEF Recurs


-----------------------------------------------------------------------------
(* No two calls ever have the same request, and no identifier in use is    *)
(* beyond the last one that was given out.                                 *)
RequestsAreDistinct ==
    /\ \A s, t \in Subscribers : ret[s] = ret[t] /\ ret[s] # NoId => s = t
    /\ \A s \in Subscribers : ret[s] <= packet_id
    /\ \A i \in requests \cup granted \cup refused : i <= packet_id

(* A call has a node only for a request, and only while it waits for it.   *)
CallsFit ==
    \A s \in Subscribers :
        /\ subed[s] => ret[s] # NoId
        /\ pc[s] \in {"subscribe", "sent"} => ~subed[s]
        /\ pc[s] = "register" => lock_yield # s

(* The broker answers once, and what is on its way or on a node is what it *)
(* answered.                                                               *)
AnswersAgree ==
    /\ requests \cap (granted \cup refused) = {}
    /\ granted \cap refused = {}
    /\ \A i \in DOMAIN subacks :
          /\ subacks[i].ack_type = "SUCCESS" => subacks[i].packet_id \in granted
          /\ subacks[i].ack_type = "NACK" => subacks[i].packet_id \in refused
    /\ \A i \in DOMAIN list_sub_sync_ack :
          list_sub_sync_ack[i].ack_type = "SUCCESS" =>
              list_sub_sync_ack[i].packet_id \in granted

(* A stay under lock_yield is that of a thread that yields.                *)
StayFits ==
    \A s \in Subscribers : lock_yield = s => pc[s] \in {"yield", "yielded"}

(* The inductive invariant of the synchronous subscriptions.               *)
IInv ==
    /\ TypeOK
    /\ RequestsAreDistinct
    /\ CallsFit
    /\ StayFits
    /\ AnswersAgree
    /\ NodesAreOwned
    /\ SuccessIsGranted

-----------------------------------------------------------------------------
(* Without(list, id) keeps only elements of the list, at other places, in  *)
(* their order, and none that has the identifier if no two elements have   *)
(* the same.                                                               *)
LEMMA WithoutFacts ==
    ASSUME NEW list \in Seq(Node), NEW id \in Nat,
           \A i, j \in DOMAIN list : list[i].packet_id = list[j].packet_id => i = j
    PROVE  /\ Without(list, id) \in Seq(Node)
           /\ \A i \in DOMAIN Without(list, id) :
                 /\ Without(list, id)[i].packet_id # id
                 /\ \E k \in DOMAIN list : Without(list, id)[i] = list[k]
           /\ \A i, j \in DOMAIN Without(list, id) :
                 Without(list, id)[i].packet_id = Without(list, id)[j].packet_id => i = j
<1>1. CASE ~ \E i \in DOMAIN list : list[i].packet_id = id
  BY <1>1 DEF Without
<1>2. CASE \E i \in DOMAIN list : list[i].packet_id = id
  <2>1. PICK k \in DOMAIN list :
          /\ list[k].packet_id = id
          /\ Without(list, id) = SubSeq(list, 1, k - 1) \o SubSeq(list, k + 1, Len(list))
    BY <1>2 DEF Without
  <2> DEFINE a == SubSeq(list, 1, k - 1)
             b == SubSeq(list, k + 1, Len(list))
             w == a \o b
  <2>2. /\ k \in 1 .. Len(list)
        /\ a \in Seq(Node) /\ Len(a) = k - 1
        /\ \A i \in 1 .. k - 1 : a[i] = list[i]
    OBVIOUS
  <2>3. /\ b \in Seq(Node) /\ Len(b) = Len(list) - k
        /\ \A i \in 1 .. Len(list) - k : b[i] = list[k + i]
    OBVIOUS
  <2> HIDE DEF a, b
  <2>4. /\ w \in Seq(Node) /\ Len(w) = (k - 1) + (Len(list) - k)
        /\ \A i \in 1 .. Len(w) : w[i] = IF i <= k - 1 THEN a[i] ELSE b[i - (k - 1)]
    <3>1. /\ w \in Seq(Node) /\ Len(w) = Len(a) + Len(b)
          /\ \A i \in 1 .. Len(a) + Len(b) : w[i] = IF i <= Len(a) THEN a[i] ELSE b[i - Len(a)]
      BY ONLY <2>2, <2>3, ConcatProperties
    <3> HIDE DEF w
    <3> QED BY ONLY <2>2, <2>3, <3>1
  <2>5. Without(list, id) = w
    BY <2>1 DEF a, b
  <2> HIDE DEF w
  <2> DEFINE from(i) == IF i <= k - 1 THEN i ELSE i + 1
  <2>6. \A i \in 1 .. Len(w) : /\ from(i) \in 1 .. Len(list) /\ from(i) # k
                               /\ w[i] = list[from(i)]
    <3> SUFFICES ASSUME NEW i \in 1 .. Len(w)
                 PROVE  /\ from(i) \in 1 .. Len(list) /\ from(i) # k
                        /\ w[i] = list[from(i)]
      OBVIOUS
    <3>0. k \in 1 .. Len(list) /\ Len(list) \in Nat /\ Len(w) = Len(list) - 1
      BY <2>2, <2>4
    <3>1. CASE i <= k - 1
      BY <3>0, <3>1, <2>2, <2>4
    <3>2. CASE i > k - 1
      <4>1. i - (k - 1) \in 1 .. Len(list) - k /\ i + 1 \in 1 .. Len(list) /\ i + 1 # k
        BY <3>2, <3>0
      <4>2. w[i] = b[i - (k - 1)]
        BY <3>0, <3>2, <2>4
      <4>3. b[i - (k - 1)] = list[k + (i - (k - 1))]
        BY <4>1, <2>3
      <4>4. k + (i - (k - 1)) = i + 1
        BY <3>0
      <4>5. from(i) = i + 1
        BY <3>0, <3>2
      <4> QED BY <4>1, <4>2, <4>3, <4>4, <4>5
    <3> QED BY <3>0, <3>1, <3>2
  <2>7. \A i, j \in 1 .. Len(w) : from(i) = from(j) => i = j
    <3>1. Len(w) \in Nat /\ k \in Nat
      BY <2>2, <2>4
    <3> QED BY ONLY <3>1
  <2> HIDE DEF from
  <2>8. \A i, j \in 1 .. Len(w) : w[i].packet_id = w[j].packet_id => i = j
    BY <2>6, <2>7
  <2>8a. \A i \in 1 .. Len(w) : w[i].packet_id # id
    <3>1. \A j \in 1 .. Len(list) : j # k => list[j].packet_id # id
      BY <2>1, <2>2
    <3> QED BY <2>6, <3>1
  <2>9. DOMAIN w = 1 .. Len(w) /\ DOMAIN list = 1 .. Len(list)
    BY <2>4
  <2>10. QED
    BY <2>4, <2>5, <2>6, <2>8, <2>8a, <2>9
<1>3. QED
  BY <1>1, <1>2

-----------------------------------------------------------------------------
(* It holds before the first call ...                                      *)
LEMMA InitIInv == Init => IInv
<1> SUFFICES ASSUME Init PROVE IInv
  OBVIOUS
<1> USE SubSyncAssumption DEF Init, Threads, Id, NoId, Waiting, Node, AckType
<1>1. subed \in [Subscribers -> BOOLEAN]
  OBVIOUS
<1>2. TypeOK
  <2>1. /\ pc \in [Subscribers -> {"idle", "subscribe", "sent", "succeeded",
                                  "failed", "unwaited"} \cup Waiting]
        /\ ret \in [Subscribers -> Id \cup {NoId}]
    OBVIOUS
  <2>2. /\ list_sub_sync_ack \in Seq(Node)
        /\ subacks \in Seq([packet_id : Id, ack_type : {"SUCCESS", "NACK"}])
    OBVIOUS
  <2>3. _in_yield_cb \in BOOLEAN
    OBVIOUS
  <2> QED BY <1>1, <2>1, <2>2, <2>3 DEF TypeOK
<1>3. RequestsAreDistinct /\ CallsFit /\ StayFits
  BY DEF RequestsAreDistinct, CallsFit, StayFits
<1>4. AnswersAgree /\ NodesAreOwned /\ SuccessIsGranted
  BY DEF AnswersAgree, NodesAreOwned, SuccessIsGranted
<1> QED BY <1>2, <1>3, <1>4 DEF IInv

(* Every step of a call and of a yield, and every act of the broker,       *)
(* preserves the invariant.                                                *)
LEMMA NextIInv == IInv /\ [Next]_vars => IInv'
<1> SUFFICES ASSUME IInv, [Next]_vars PROVE IInv'
  OBVIOUS
<1> USE SubSyncAssumption DEF IInv, Threads, Id, NoId, Waiting
<1>1. ASSUME NEW s \in Subscribers, Call(s) PROVE IInv'
  <2> USE <1>1 DEF Call, callVars, yieldVars, brokerVars
  <2>1. subed' \in [Subscribers -> BOOLEAN] /\ _in_yield_cb' \in BOOLEAN
    BY DEF TypeOK
  <2>2. TypeOK'
    BY <2>1 DEF TypeOK, Node, AckType
  <2>3. RequestsAreDistinct'
    BY DEF TypeOK, RequestsAreDistinct
  <2>4. CallsFit' /\ StayFits'
    BY DEF TypeOK, CallsFit, StayFits
  <2>5. AnswersAgree'
    BY DEF TypeOK, AnswersAgree, RequestsAreDistinct, Node, AckType
  <2>6. NodesAreOwned'
    BY DEF TypeOK, NodesAreOwned, RequestsAreDistinct, CallsFit, StayFits, Node, AckType
  <2>7. SuccessIsGranted'
    BY DEF TypeOK, SuccessIsGranted, AnswersAgree, NodesAreOwned, Node, AckType
  <2> QED BY <2>2, <2>3, <2>4, <2>5, <2>6, <2>7
<1>2. ASSUME NEW s \in Subscribers, Subscribe(s) PROVE IInv'
  <2> USE <1>2 DEF Subscribe, callVars, yieldVars, brokerVars
  <2>1. subed' \in [Subscribers -> BOOLEAN] /\ _in_yield_cb' \in BOOLEAN
    BY DEF TypeOK
  <2>2. TypeOK'
    BY <2>1 DEF TypeOK, Node, AckType
  <2>3. RequestsAreDistinct'
    BY DEF TypeOK, RequestsAreDistinct
  <2>4. CallsFit' /\ StayFits'
    BY DEF TypeOK, CallsFit, StayFits
  <2>5. AnswersAgree'
    BY DEF TypeOK, AnswersAgree, RequestsAreDistinct, Node, AckType
  <2>6. NodesAreOwned'
    BY DEF TypeOK, NodesAreOwned, RequestsAreDistinct, CallsFit, StayFits, Node, AckType
  <2>7. SuccessIsGranted'
    BY DEF TypeOK, SuccessIsGranted, AnswersAgree, NodesAreOwned, Node, AckType
  <2> QED BY <2>2, <2>3, <2>4, <2>5, <2>6, <2>7
<1>3. ASSUME NEW s \in Subscribers, SubscribeFails(s) PROVE IInv'
  <2> USE <1>3 DEF SubscribeFails, callVars, yieldVars, brokerVars
  <2>1. subed' \in [Subscribers -> BOOLEAN] /\ _in_yield_cb' \in BOOLEAN
    BY DEF TypeOK
  <2>2. TypeOK'
    BY <2>1 DEF TypeOK, Node, AckType
  <2>3. RequestsAreDistinct'
    BY DEF TypeOK, RequestsAreDistinct
  <2>4. CallsFit' /\ StayFits'
    BY DEF TypeOK, CallsFit, StayFits
  <2>5. AnswersAgree'
    BY DEF TypeOK, AnswersAgree, RequestsAreDistinct, Node, AckType
  <2>6. NodesAreOwned'
    BY DEF TypeOK, NodesAreOwned, RequestsAreDistinct, CallsFit, StayFits, Node, AckType
  <2>7. SuccessIsGranted'
    BY DEF TypeOK, SuccessIsGranted, AnswersAgree, NodesAreOwned, Node, AckType
  <2> QED BY <2>2, <2>3, <2>4, <2>5, <2>6, <2>7
<1>4. ASSUME NEW s \in Subscribers, ReturnFromCallback(s) PROVE IInv'
  <2> USE <1>4 DEF ReturnFromCallback, callVars, yieldVars, brokerVars
  <2>1. subed' \in [Subscribers -> BOOLEAN] /\ _in_yield_cb' \in BOOLEAN
    BY DEF TypeOK
  <2>2. TypeOK'
    BY <2>1 DEF TypeOK, Node, AckType
  <2>3. RequestsAreDistinct'
    BY DEF TypeOK, RequestsAreDistinct
  <2>4. CallsFit' /\ StayFits'
    BY DEF TypeOK, CallsFit, StayFits
  <2>5. AnswersAgree'
    BY DEF TypeOK, AnswersAgree, RequestsAreDistinct, Node, AckType
  <2>6. NodesAreOwned'
    BY DEF TypeOK, NodesAreOwned, RequestsAreDistinct, CallsFit, StayFits, Node, AckType
  <2>7. SuccessIsGranted'
    BY DEF TypeOK, SuccessIsGranted, AnswersAgree, NodesAreOwned, Node, AckType
  <2> QED BY <2>2, <2>3, <2>4, <2>5, <2>6, <2>7
<1>5. ASSUME NEW s \in Subscribers, StayToWait(s) PROVE IInv'
  <2> USE <1>5 DEF StayToWait, callVars, yieldVars, brokerVars
  <2>1. subed' \in [Subscribers -> BOOLEAN] /\ _in_yield_cb' \in BOOLEAN
    BY DEF TypeOK
  <2>2. TypeOK'
    BY <2>1 DEF TypeOK, Node, AckType
  <2>3. RequestsAreDistinct'
    BY DEF TypeOK, RequestsAreDistinct
  <2>4. CallsFit' /\ StayFits'
    BY DEF TypeOK, CallsFit, StayFits
  <2>5. AnswersAgree'
    BY DEF TypeOK, AnswersAgree, RequestsAreDistinct, Node, AckType
  <2>6. NodesAreOwned'
    BY DEF TypeOK, NodesAreOwned, RequestsAreDistinct, CallsFit, StayFits, Node, AckType
  <2>7. SuccessIsGranted'
    BY DEF TypeOK, SuccessIsGranted, AnswersAgree, NodesAreOwned, Node, AckType
  <2> QED BY <2>2, <2>3, <2>4, <2>5, <2>6, <2>7
<1>6. ASSUME NEW s \in Subscribers, AddNode(s) PROVE IInv'
  <2> USE <1>6 DEF AddNode, callVars, yieldVars, brokerVars
  <2>1. subed' \in [Subscribers -> BOOLEAN] /\ _in_yield_cb' \in BOOLEAN
    BY DEF TypeOK
  <2>2. TypeOK'
    <3>1. list_sub_sync_ack' \in Seq(Node)
      <4>1. ret[s] # NoId => [packet_id |-> ret[s], ack_type |-> "UNDEF"] \in Node
        BY DEF TypeOK, Node, AckType
      <4> QED BY <4>1 DEF TypeOK
    <3> QED BY <2>1, <3>1 DEF TypeOK
  <2>3. RequestsAreDistinct'
    BY DEF TypeOK, RequestsAreDistinct
  <2>4. CallsFit' /\ StayFits'
    BY DEF TypeOK, CallsFit, StayFits
  <2>5. AnswersAgree'
    BY DEF TypeOK, AnswersAgree, RequestsAreDistinct, Node, AckType
  <2>6. NodesAreOwned'
    <3>1. CASE ~subed[s] /\ ret[s] # NoId
      <4> DEFINE n == [packet_id |-> ret[s], ack_type |-> "UNDEF"]
                 l == list_sub_sync_ack
      <4>1. l' = Append(l, n) /\ n.packet_id = ret[s]
        BY <3>1
      <4>2. \A i \in DOMAIN l : l[i].packet_id # ret[s]
        BY <3>1 DEF NodesAreOwned, RequestsAreDistinct
      <4>3. /\ DOMAIN l' = 1 .. Len(l) + 1 /\ DOMAIN l = 1 .. Len(l)
            /\ \A i \in 1 .. Len(l) : l'[i] = l[i]
            /\ l'[Len(l) + 1] = n
        BY <4>1 DEF TypeOK
      <4>4. subed'[s] /\ pc'[s] \in Waiting /\ ret'[s] = ret[s]
        BY <3>1 DEF TypeOK
      <4>5. \A t \in Subscribers : pc[t] \in Waiting /\ subed[t] =>
                pc'[t] \in Waiting /\ subed'[t] /\ ret'[t] = ret[t]
        BY DEF TypeOK
      <4> HIDE DEF n, l
      <4>6. \A i \in DOMAIN l' : \E t \in Subscribers :
                pc'[t] \in Waiting /\ subed'[t] /\ ret'[t] = l'[i].packet_id
        <5> SUFFICES ASSUME NEW i \in DOMAIN l'
                     PROVE  \E t \in Subscribers :
                              pc'[t] \in Waiting /\ subed'[t] /\ ret'[t] = l'[i].packet_id
          OBVIOUS
        <5>1. CASE i = Len(l) + 1
          BY <5>1, <4>1, <4>3, <4>4
        <5>2. CASE i \in 1 .. Len(l)
          BY <5>2, <4>3, <4>5 DEF NodesAreOwned, l
        <5> QED BY <5>1, <5>2, <4>3 DEF l, TypeOK
      <4>7. \A i, j \in DOMAIN l' : l'[i].packet_id = l'[j].packet_id => i = j
        <5>1. \A i, j \in 1 .. Len(l) : l[i].packet_id = l[j].packet_id => i = j
          BY <4>3 DEF NodesAreOwned, l
        <5> QED BY <5>1, <4>1, <4>2, <4>3
      <4> QED BY <4>6, <4>7 DEF NodesAreOwned, l
    <3>2. CASE ~(~subed[s] /\ ret[s] # NoId)
      <4>1. list_sub_sync_ack' = list_sub_sync_ack
        BY <3>2
      <4> QED BY <4>1 DEF TypeOK, NodesAreOwned
    <3> QED BY <3>1, <3>2
  <2>7. SuccessIsGranted'
    BY DEF TypeOK, SuccessIsGranted, AnswersAgree, NodesAreOwned, Node, AckType
  <2> QED BY <2>2, <2>3, <2>4, <2>5, <2>6, <2>7
<1>7. ASSUME NEW s \in Subscribers, ScanSuccess(s) PROVE IInv'
  <2> USE <1>7 DEF ScanSuccess, Mine, Yielded, callVars, yieldVars, brokerVars
  <2>1. subed' \in [Subscribers -> BOOLEAN] /\ _in_yield_cb' \in BOOLEAN
    BY DEF TypeOK
  <2>2. TypeOK'
    BY <2>1 DEF TypeOK, Node, AckType
  <2>3. RequestsAreDistinct'
    BY DEF TypeOK, RequestsAreDistinct
  <2>4. CallsFit' /\ StayFits'
    BY DEF TypeOK, CallsFit, StayFits
  <2>5. AnswersAgree'
    BY DEF TypeOK, AnswersAgree, RequestsAreDistinct, Node, AckType
  <2>6. NodesAreOwned'
    <3> DEFINE l == list_sub_sync_ack
    <3>1. /\ l \in Seq(Node) /\ l # <<>> /\ l' = Tail(l) /\ l[1].packet_id = ret[s]
      BY DEF TypeOK
    <3>2. /\ DOMAIN l = 1 .. Len(l) /\ DOMAIN l' = 1 .. Len(l) - 1 /\ Len(l) \in Nat
          /\ \A i \in 1 .. Len(l) - 1 : l'[i] = l[i + 1]
      BY <3>1
    <3>3. \A i \in 2 .. Len(l) : l[i].packet_id # ret[s]
      <4>1. \A i, j \in DOMAIN l : l[i].packet_id = l[j].packet_id => i = j
        BY ONLY IInv DEF IInv, NodesAreOwned
      <4>2. 1 \in DOMAIN l /\ \A i \in 2 .. Len(l) : i \in DOMAIN l /\ i # 1
        <5>1. Len(l) # 0
          BY ONLY <3>1
        <5> QED BY ONLY <3>2, <5>1
      <4> QED BY ONLY <3>1, <4>1, <4>2
    <3>4. \A t \in Subscribers \ {s} : pc'[t] = pc[t] /\ subed'[t] = subed[t] /\ ret'[t] = ret[t]
      BY DEF TypeOK
    <3>5. \A i, j \in 1 .. Len(l) : l[i].packet_id = l[j].packet_id => i = j
      BY ONLY IInv, <3>2 DEF IInv, NodesAreOwned
    <3>6. \A i \in 2 .. Len(l) : \E t \in Subscribers \ {s} :
              pc[t] \in Waiting /\ subed[t] /\ ret[t] = l[i].packet_id
      BY <3>2, <3>3 DEF NodesAreOwned
    <3> HIDE DEF l
    <3>7. \A i \in DOMAIN l' : i + 1 \in 2 .. Len(l)
      BY <3>2
    <3>8. \A i \in DOMAIN l' : \E t \in Subscribers :
              pc'[t] \in Waiting /\ subed'[t] /\ ret'[t] = l'[i].packet_id
      BY <3>2, <3>4, <3>6, <3>7
    <3>9. \A i, j \in DOMAIN l' : l'[i].packet_id = l'[j].packet_id => i = j
      <4> TAKE i \in DOMAIN l', j \in DOMAIN l'
      <4>1. /\ i \in 1 .. Len(l) - 1 /\ i + 1 \in 1 .. Len(l) /\ l'[i] = l[i + 1]
            /\ j \in 1 .. Len(l) - 1 /\ j + 1 \in 1 .. Len(l) /\ l'[j] = l[j + 1]
        BY ONLY <3>2
      <4>2. l[i + 1].packet_id = l[j + 1].packet_id => i + 1 = j + 1
        BY ONLY <4>1, <3>5
      <4> QED BY ONLY <4>1, <4>2
    <3> QED BY <3>8, <3>9 DEF NodesAreOwned, l
  <2>7. SuccessIsGranted'
    BY DEF TypeOK, SuccessIsGranted, AnswersAgree, NodesAreOwned, Node, AckType
  <2> QED BY <2>2, <2>3, <2>4, <2>5, <2>6, <2>7
<1>8. ASSUME NEW s \in Subscribers, ScanNack(s) PROVE IInv'
  <2> USE <1>8 DEF ScanNack, Mine, Yielded, callVars, yieldVars, brokerVars
  <2>1. subed' \in [Subscribers -> BOOLEAN] /\ _in_yield_cb' \in BOOLEAN
    BY DEF TypeOK
  <2>2. TypeOK'
    BY <2>1 DEF TypeOK, Node, AckType
  <2>3. RequestsAreDistinct'
    BY DEF TypeOK, RequestsAreDistinct
  <2>4. CallsFit' /\ StayFits'
    BY DEF TypeOK, CallsFit, StayFits
  <2>5. AnswersAgree'
    BY DEF TypeOK, AnswersAgree, RequestsAreDistinct, Node, AckType
  <2>6. NodesAreOwned'
    <3> DEFINE l == list_sub_sync_ack
    <3>1. /\ l \in Seq(Node) /\ l # <<>> /\ l' = Tail(l) /\ l[1].packet_id = ret[s]
      BY DEF TypeOK
    <3>2. /\ DOMAIN l = 1 .. Len(l) /\ DOMAIN l' = 1 .. Len(l) - 1 /\ Len(l) \in Nat
          /\ \A i \in 1 .. Len(l) - 1 : l'[i] = l[i + 1]
      BY <3>1
    <3>3. \A i \in 2 .. Len(l) : l[i].packet_id # ret[s]
      <4>1. \A i, j \in DOMAIN l : l[i].packet_id = l[j].packet_id => i = j
        BY ONLY IInv DEF IInv, NodesAreOwned
      <4>2. 1 \in DOMAIN l /\ \A i \in 2 .. Len(l) : i \in DOMAIN l /\ i # 1
        <5>1. Len(l) # 0
          BY ONLY <3>1
        <5> QED BY ONLY <3>2, <5>1
      <4> QED BY ONLY <3>1, <4>1, <4>2
    <3>4. \A t \in Subscribers \ {s} : pc'[t] = pc[t] /\ subed'[t] = subed[t] /\ ret'[t] = ret[t]
      BY DEF TypeOK
    <3>5. \A i, j \in 1 .. Len(l) : l[i].packet_id = l[j].packet_id => i = j
      BY ONLY IInv, <3>2 DEF IInv, NodesAreOwned
    <3>6. \A i \in 2 .. Len(l) : \E t \in Subscribers \ {s} :
              pc[t] \in Waiting /\ subed[t] /\ ret[t] = l[i].packet_id
      BY <3>2, <3>3 DEF NodesAreOwned
    <3> HIDE DEF l
    <3>7. \A i \in DOMAIN l' : i + 1 \in 2 .. Len(l)
      BY <3>2
    <3>8. \A i \in DOMAIN l' : \E t \in Subscribers :
              pc'[t] \in Waiting /\ subed'[t] /\ ret'[t] = l'[i].packet_id
      BY <3>2, <3>4, <3>6, <3>7
    <3>9. \A i, j \in DOMAIN l' : l'[i].packet_id = l'[j].packet_id => i = j
      <4> TAKE i \in DOMAIN l', j \in DOMAIN l'
      <4>1. /\ i \in 1 .. Len(l) - 1 /\ i + 1 \in 1 .. Len(l) /\ l'[i] = l[i + 1]
            /\ j \in 1 .. Len(l) - 1 /\ j + 1 \in 1 .. Len(l) /\ l'[j] = l[j + 1]
        BY ONLY <3>2
      <4>2. l[i + 1].packet_id = l[j + 1].packet_id => i + 1 = j + 1
        BY ONLY <4>1, <3>5
      <4> QED BY ONLY <4>1, <4>2
    <3> QED BY <3>8, <3>9 DEF NodesAreOwned, l
  <2>7. SuccessIsGranted'
    BY DEF TypeOK, SuccessIsGranted, AnswersAgree, NodesAreOwned, Node, AckType
  <2> QED BY <2>2, <2>3, <2>4, <2>5, <2>6, <2>7
<1>9. ASSUME NEW s \in Subscribers, ScanNothing(s) PROVE IInv'
  <2> USE <1>9 DEF ScanNothing, Mine, Yielded, callVars, yieldVars, brokerVars
  <2>1. subed' \in [Subscribers -> BOOLEAN] /\ _in_yield_cb' \in BOOLEAN
    BY DEF TypeOK
  <2>2. TypeOK'
    BY <2>1 DEF TypeOK, Node, AckType
  <2>3. RequestsAreDistinct'
    BY DEF TypeOK, RequestsAreDistinct
  <2>4. CallsFit' /\ StayFits'
    BY DEF TypeOK, CallsFit, StayFits
  <2>5. AnswersAgree'
    BY DEF TypeOK, AnswersAgree, RequestsAreDistinct, Node, AckType
  <2>6. NodesAreOwned'
    BY DEF TypeOK, NodesAreOwned, RequestsAreDistinct, CallsFit, StayFits, Node, AckType
  <2>7. SuccessIsGranted'
    BY DEF TypeOK, SuccessIsGranted, AnswersAgree, NodesAreOwned, Node, AckType
  <2> QED BY <2>2, <2>3, <2>4, <2>5, <2>6, <2>7
<1>10. ASSUME NEW s \in Subscribers, Again(s) PROVE IInv'
  <2> USE <1>10 DEF Again, callVars, yieldVars, brokerVars
  <2>1. subed' \in [Subscribers -> BOOLEAN] /\ _in_yield_cb' \in BOOLEAN
    BY DEF TypeOK
  <2>2. TypeOK'
    BY <2>1 DEF TypeOK, Node, AckType
  <2>3. RequestsAreDistinct'
    BY DEF TypeOK, RequestsAreDistinct
  <2>4. CallsFit' /\ StayFits'
    BY DEF TypeOK, CallsFit, StayFits
  <2>5. AnswersAgree'
    BY DEF TypeOK, AnswersAgree, RequestsAreDistinct, Node, AckType
  <2>6. NodesAreOwned'
    BY DEF TypeOK, NodesAreOwned, RequestsAreDistinct, CallsFit, StayFits, Node, AckType
  <2>7. SuccessIsGranted'
    BY DEF TypeOK, SuccessIsGranted, AnswersAgree, NodesAreOwned, Node, AckType
  <2> QED BY <2>2, <2>3, <2>4, <2>5, <2>6, <2>7
<1>11. ASSUME NEW s \in Subscribers, Expire(s) PROVE IInv'
  <2> USE <1>11 DEF Expire, callVars, yieldVars, brokerVars
  <2>0. /\ list_sub_sync_ack' \in Seq(Node)
        /\ \A i \in DOMAIN list_sub_sync_ack' :
              /\ list_sub_sync_ack'[i].packet_id # ret[s]
              /\ \E k \in DOMAIN list_sub_sync_ack :
                    list_sub_sync_ack'[i] = list_sub_sync_ack[k]
        /\ \A i, j \in DOMAIN list_sub_sync_ack' :
              list_sub_sync_ack'[i].packet_id = list_sub_sync_ack'[j].packet_id => i = j
    <3>1. list_sub_sync_ack \in Seq(Node) /\ ret[s] \in Nat
      BY DEF TypeOK
    <3>2. \A i, j \in DOMAIN list_sub_sync_ack :
              list_sub_sync_ack[i].packet_id = list_sub_sync_ack[j].packet_id => i = j
      BY DEF NodesAreOwned
    <3>3. list_sub_sync_ack' = Without(list_sub_sync_ack, ret[s])
      OBVIOUS
    <3> DEFINE list == list_sub_sync_ack
               id == ret[s]
    <3>4. /\ Without(list, id) \in Seq(Node)
          /\ \A i \in DOMAIN Without(list, id) :
                /\ Without(list, id)[i].packet_id # id
                /\ \E k \in DOMAIN list : Without(list, id)[i] = list[k]
          /\ \A i, j \in DOMAIN Without(list, id) :
                Without(list, id)[i].packet_id = Without(list, id)[j].packet_id => i = j
      <4> HIDE DEF list, id
      <4> QED BY ONLY <3>1, <3>2, WithoutFacts DEF list, id
    <3> QED BY <3>3, <3>4
  <2>1. subed' \in [Subscribers -> BOOLEAN] /\ _in_yield_cb' \in BOOLEAN
    BY DEF TypeOK
  <2>2. TypeOK'
    BY <2>0, <2>1 DEF TypeOK
  <2>3. RequestsAreDistinct'
    BY DEF TypeOK, RequestsAreDistinct
  <2>4. CallsFit' /\ StayFits'
    BY DEF TypeOK, CallsFit, StayFits
  <2>5. AnswersAgree'
    BY <2>0 DEF TypeOK, AnswersAgree
  <2>6. NodesAreOwned'
    <3>1. \A t \in Subscribers \ {s} : pc'[t] = pc[t] /\ subed'[t] = subed[t] /\ ret'[t] = ret[t]
      BY DEF TypeOK
    <3> QED BY <2>0, <3>1 DEF NodesAreOwned
  <2>7. SuccessIsGranted'
    BY DEF TypeOK, SuccessIsGranted, AnswersAgree, NodesAreOwned, Node, AckType
  <2> QED BY <2>2, <2>3, <2>4, <2>5, <2>6, <2>7
<1>12. ASSUME NEW t \in Threads, LockYield(t) PROVE IInv'
  <2> USE <1>12 DEF LockYield, MayYield, callVars, yieldVars, brokerVars
  <2>1. subed' \in [Subscribers -> BOOLEAN] /\ _in_yield_cb' \in BOOLEAN
    BY DEF TypeOK
  <2>2. TypeOK'
    BY <2>1 DEF TypeOK, Node, AckType
  <2>3. RequestsAreDistinct'
    BY DEF TypeOK, RequestsAreDistinct
  <2>4. CallsFit' /\ StayFits'
    BY DEF TypeOK, CallsFit, StayFits
  <2>5. AnswersAgree'
    BY DEF TypeOK, AnswersAgree, RequestsAreDistinct, Node, AckType
  <2>6. NodesAreOwned'
    <3>1. /\ DOMAIN list_sub_sync_ack' = DOMAIN list_sub_sync_ack
          /\ \A k \in DOMAIN list_sub_sync_ack :
                list_sub_sync_ack'[k].packet_id = list_sub_sync_ack[k].packet_id
      OBVIOUS
    <3>2. UNCHANGED <<pc, subed, ret>>
      OBVIOUS
    <3>3. NodesAreOwned
      OBVIOUS
    <3> QED BY ONLY <3>1, <3>2, <3>3 DEF NodesAreOwned
  <2>7. SuccessIsGranted'
    BY DEF TypeOK, SuccessIsGranted, AnswersAgree, NodesAreOwned, Node, AckType
  <2> QED BY <2>2, <2>3, <2>4, <2>5, <2>6, <2>7
<1>13. ASSUME RecvSuback PROVE IInv'
  <2> USE <1>13 DEF RecvSuback, callVars, yieldVars, brokerVars
  <2>1. subed' \in [Subscribers -> BOOLEAN] /\ _in_yield_cb' \in BOOLEAN
    BY DEF TypeOK
  <2>2. TypeOK'
    <3>0. Head(subacks) \in [packet_id : Id, ack_type : {"SUCCESS", "NACK"}]
      <4> DEFINE Ack == [packet_id : Id, ack_type : {"SUCCESS", "NACK"}]
      <4>1. subacks \in Seq(Ack) /\ subacks # <<>>
        BY DEF TypeOK
      <4> HIDE DEF Ack
      <4>2. Head(subacks) \in Ack
        BY ONLY <4>1
      <4> QED BY <4>2 DEF Ack
    <3>1. Head(subacks) \in Node /\ Head(subacks).packet_id \in Id
      BY <3>0 DEF Node, AckType
    <3>2. list_sub_sync_ack' \in Seq(Node)
      <4>0. list_sub_sync_ack \in Seq(Node)
        BY DEF TypeOK
      <4>1. /\ DOMAIN list_sub_sync_ack = 1 .. Len(list_sub_sync_ack)
            /\ Len(list_sub_sync_ack) \in Nat
            /\ \A i \in 1 .. Len(list_sub_sync_ack) : list_sub_sync_ack[i] \in Node
        BY ONLY <4>0
      <4>2. list_sub_sync_ack' \in [1 .. Len(list_sub_sync_ack) -> Node]
        BY <3>1, <4>1
      <4> QED BY <4>1, <4>2
    <3>3. subacks' \in Seq([packet_id : Id, ack_type : {"SUCCESS", "NACK"}])
      BY DEF TypeOK
    <3> QED BY <2>1, <3>1, <3>2, <3>3 DEF TypeOK
  <2>3. RequestsAreDistinct'
    BY DEF TypeOK, RequestsAreDistinct
  <2>4. CallsFit' /\ StayFits'
    BY DEF TypeOK, CallsFit, StayFits
  <2>5. AnswersAgree'
    BY DEF TypeOK, AnswersAgree, RequestsAreDistinct, Node, AckType
  <2>6. NodesAreOwned'
    <3>1. /\ DOMAIN list_sub_sync_ack' = DOMAIN list_sub_sync_ack
          /\ \A k \in DOMAIN list_sub_sync_ack :
                list_sub_sync_ack'[k].packet_id = list_sub_sync_ack[k].packet_id
      OBVIOUS
    <3>2. UNCHANGED <<pc, subed, ret>>
      OBVIOUS
    <3>3. NodesAreOwned
      OBVIOUS
    <3> QED BY ONLY <3>1, <3>2, <3>3 DEF NodesAreOwned
  <2>7. SuccessIsGranted'
    BY DEF TypeOK, SuccessIsGranted, AnswersAgree, NodesAreOwned, Node, AckType
  <2> QED BY <2>2, <2>3, <2>4, <2>5, <2>6, <2>7
<1>14. ASSUME RecvOther PROVE IInv'
  <2> USE <1>14 DEF RecvOther, callVars, yieldVars, brokerVars
  <2>1. subed' \in [Subscribers -> BOOLEAN] /\ _in_yield_cb' \in BOOLEAN
    BY DEF TypeOK
  <2>2. TypeOK'
    BY <2>1 DEF TypeOK, Node, AckType
  <2>3. RequestsAreDistinct'
    BY DEF TypeOK, RequestsAreDistinct
  <2>4. CallsFit' /\ StayFits'
    BY DEF TypeOK, CallsFit, StayFits
  <2>5. AnswersAgree'
    BY DEF TypeOK, AnswersAgree, RequestsAreDistinct, Node, AckType
  <2>6. NodesAreOwned'
    <3>1. /\ DOMAIN list_sub_sync_ack' = DOMAIN list_sub_sync_ack
          /\ \A k \in DOMAIN list_sub_sync_ack :
                list_sub_sync_ack'[k].packet_id = list_sub_sync_ack[k].packet_id
      OBVIOUS
    <3>2. UNCHANGED <<pc, subed, ret>>
      OBVIOUS
    <3>3. NodesAreOwned
      OBVIOUS
    <3> QED BY ONLY <3>1, <3>2, <3>3 DEF NodesAreOwned
  <2>7. SuccessIsGranted'
    BY DEF TypeOK, SuccessIsGranted, AnswersAgree, NodesAreOwned, Node, AckType
  <2> QED BY <2>2, <2>3, <2>4, <2>5, <2>6, <2>7
<1>15. ASSUME EndStay PROVE IInv'
  <2> USE <1>15 DEF EndStay, callVars, yieldVars, brokerVars
  <2>1. subed' \in [Subscribers -> BOOLEAN] /\ _in_yield_cb' \in BOOLEAN
    BY DEF TypeOK
  <2>2. TypeOK'
    BY <2>1 DEF TypeOK, Node, AckType
  <2>3. RequestsAreDistinct'
    BY DEF TypeOK, RequestsAreDistinct
  <2>4. CallsFit' /\ StayFits'
    BY DEF TypeOK, CallsFit, StayFits
  <2>5. AnswersAgree'
    BY DEF TypeOK, AnswersAgree, RequestsAreDistinct, Node, AckType
  <2>6. NodesAreOwned'
    BY DEF TypeOK, NodesAreOwned, RequestsAreDistinct, CallsFit, StayFits, Node, AckType
  <2>7. SuccessIsGranted'
    BY DEF TypeOK, SuccessIsGranted, AnswersAgree, NodesAreOwned, Node, AckType
  <2> QED BY <2>2, <2>3, <2>4, <2>5, <2>6, <2>7
<1>16. ASSUME NEW i \in Id, Grant(i) PROVE IInv'
  <2> USE <1>16 DEF Grant, callVars, yieldVars, brokerVars
  <2>1. subed' \in [Subscribers -> BOOLEAN] /\ _in_yield_cb' \in BOOLEAN
    BY DEF TypeOK
  <2>2. TypeOK'
    BY <2>1 DEF TypeOK, Node, AckType
  <2>3. RequestsAreDistinct'
    BY DEF TypeOK, RequestsAreDistinct
  <2>4. CallsFit' /\ StayFits'
    BY DEF TypeOK, CallsFit, StayFits
  <2>5. AnswersAgree'
    BY DEF TypeOK, AnswersAgree, RequestsAreDistinct, Node, AckType
  <2>6. NodesAreOwned'
    <3>1. /\ DOMAIN list_sub_sync_ack' = DOMAIN list_sub_sync_ack
          /\ \A k \in DOMAIN list_sub_sync_ack :
                list_sub_sync_ack'[k].packet_id = list_sub_sync_ack[k].packet_id
      OBVIOUS
    <3>2. UNCHANGED <<pc, subed, ret>>
      OBVIOUS
    <3>3. NodesAreOwned
      OBVIOUS
    <3> QED BY ONLY <3>1, <3>2, <3>3 DEF NodesAreOwned
  <2>7. SuccessIsGranted'
    BY DEF TypeOK, SuccessIsGranted, AnswersAgree, NodesAreOwned, Node, AckType
  <2> QED BY <2>2, <2>3, <2>4, <2>5, <2>6, <2>7
<1>17. ASSUME NEW i \in Id, Refuse(i) PROVE IInv'
  <2> USE <1>17 DEF Refuse, callVars, yieldVars, brokerVars
  <2>1. subed' \in [Subscribers -> BOOLEAN] /\ _in_yield_cb' \in BOOLEAN
    BY DEF TypeOK
  <2>2. TypeOK'
    BY <2>1 DEF TypeOK, Node, AckType
  <2>3. RequestsAreDistinct'
    BY DEF TypeOK, RequestsAreDistinct
  <2>4. CallsFit' /\ StayFits'
    BY DEF TypeOK, CallsFit, StayFits
  <2>5. AnswersAgree'
    BY DEF TypeOK, AnswersAgree, RequestsAreDistinct, Node, AckType
  <2>6. NodesAreOwned'
    <3>1. /\ DOMAIN list_sub_sync_ack' = DOMAIN list_sub_sync_ack
          /\ \A k \in DOMAIN list_sub_sync_ack :
                list_sub_sync_ack'[k].packet_id = list_sub_sync_ack[k].packet_id
      OBVIOUS
    <3>2. UNCHANGED <<pc, subed, ret>>
      OBVIOUS
    <3>3. NodesAreOwned
      OBVIOUS
    <3> QED BY ONLY <3>1, <3>2, <3>3 DEF NodesAreOwned
  <2>7. SuccessIsGranted'
    BY DEF TypeOK, SuccessIsGranted, AnswersAgree, NodesAreOwned, Node, AckType
  <2> QED BY <2>2, <2>3, <2>4, <2>5, <2>6, <2>7
<1>18. ASSUME ConnectionLost PROVE IInv'
  <2> USE <1>18 DEF ConnectionLost, callVars, yieldVars, brokerVars
  <2>1. subed' \in [Subscribers -> BOOLEAN] /\ _in_yield_cb' \in BOOLEAN
    BY DEF TypeOK
  <2>2. TypeOK'
    BY <2>1 DEF TypeOK, Node, AckType
  <2>3. RequestsAreDistinct'
    BY DEF TypeOK, RequestsAreDistinct
  <2>4. CallsFit' /\ StayFits'
    BY DEF TypeOK, CallsFit, StayFits
  <2>5. AnswersAgree'
    BY DEF TypeOK, AnswersAgree, RequestsAreDistinct, Node, AckType
  <2>6. NodesAreOwned'
    <3>1. /\ DOMAIN list_sub_sync_ack' = DOMAIN list_sub_sync_ack
          /\ \A k \in DOMAIN list_sub_sync_ack :
                list_sub_sync_ack'[k].packet_id = list_sub_sync_ack[k].packet_id
      OBVIOUS
    <3>2. UNCHANGED <<pc, subed, ret>>
      OBVIOUS
    <3>3. NodesAreOwned
      OBVIOUS
    <3> QED BY ONLY <3>1, <3>2, <3>3 DEF NodesAreOwned
  <2>7. SuccessIsGranted'
    BY DEF TypeOK, SuccessIsGranted, AnswersAgree, NodesAreOwned, Node, AckType
  <2> QED BY <2>2, <2>3, <2>4, <2>5, <2>6, <2>7
<1>19. CASE UNCHANGED vars
  BY <1>19 DEF vars, callVars, yieldVars, brokerVars, TypeOK, RequestsAreDistinct, CallsFit,
     StayFits, AnswersAgree, NodesAreOwned, SuccessIsGranted, Node, AckType
<1> QED
  BY <1>1, <1>2, <1>3, <1>4, <1>5, <1>6, <1>7, <1>8, <1>9, <1>10, <1>11, <1>12, <1>13, <1>14, <1>15, <1>16, <1>17, <1>18, <1>19 DEF Next, CallStep, Scan

-----------------------------------------------------------------------------
(* ... and so always.                                                      *)
LEMMA Inductive == Spec => []IInv
  BY InitIInv, NextIInv, PTL DEF Spec

(* The variables of the synchronous subscription keep their types.         *)
THEOREM TypeCorrect == Spec => []TypeOK
<1>1. IInv => TypeOK
  BY DEF IInv
<1> QED BY Inductive, <1>1, PTL

(* A call that has waited (wrapper_mqtt_subscribe_sync) returns an         *)
(* identifier only of a subscription the broker has granted.               *)
THEOREM SuccessSafe == Spec => []SuccessIsGranted
<1>1. IInv => SuccessIsGranted
  BY DEF IInv
<1> QED BY Inductive, <1>1, PTL

(* No node of list_sub_sync_ack outlives its call, and no two calls share  *)
(* one.                                                                    *)
THEOREM NodesSafe == Spec => []NodesAreOwned
<1>1. IInv => NodesAreOwned
  BY DEF IInv
<1> QED BY Inductive, <1>1, PTL

-----------------------------------------------------------------------------
(* Topic filters.  iotx_mc_is_topic_matched walks two pointers over a      *)
(* filter and a name; LevelStep says where one level of the filter leaves  *)
(* them, and WalkByLevels puts the levels together.  The tokens of         *)
(* iotx_mc_check_topic are followed one by one in RestAlone.               *)


(* Least is the least element of a set of numbers.                         *)
LEMMA LeastIsLeast ==
    ASSUME NEW U \in SUBSET Nat, U # {}
    PROVE  Least(U) \in U /\ \A y \in U : Least(U) <= y
  <1>1. \E m \in U : \A y \in U : m <= y
    BY LeastNat
  <1> QED
    BY <1>1 DEF Least

(* EndOfLevel is where the text of a level stops: before the next slash,   *)
(* or at the end of the name.                                              *)
LEMMA EndOfLevelFacts ==
    ASSUME NEW n, Len(n) \in Nat, NEW j \in 1 .. Len(n)
    PROVE  /\ EndOfLevel(n, j) \in j .. Len(n)
           /\ \A i \in j + 1 .. EndOfLevel(n, j) : n[i] # "/"
           /\ EndOfLevel(n, j) # Len(n) => n[EndOfLevel(n, j) + 1] = "/"
  <1>1. CASE NextSlash(n, j + 1) = {}
    BY <1>1 DEF EndOfLevel, NextSlash
  <1>2. CASE NextSlash(n, j + 1) # {}
    <2>1. NextSlash(n, j + 1) \in SUBSET Nat
      BY DEF NextSlash
    <2> DEFINE e == Least(NextSlash(n, j + 1))
    <2>2. e \in NextSlash(n, j + 1) /\ \A y \in NextSlash(n, j + 1) : e <= y
      BY <2>1, <1>2, LeastIsLeast
    <2>3. EndOfLevel(n, j) = e - 1
      BY <1>2 DEF EndOfLevel
    <2> HIDE DEF e
    <2>4. e \in j + 1 .. Len(n) /\ n[e] = "/" /\ \A y \in j + 1 .. Len(n) : n[y] = "/" => e <= y
      BY <2>2 DEF NextSlash
    <2> QED BY <2>3, <2>4
  <1> QED
    BY <1>1, <1>2

(* A character of the filter never moves the name backwards.               *)
LEMMA StandsUpToFacts ==
    ASSUME NEW f, NEW n, Len(n) \in Nat, NEW i, NEW j \in 1 .. Len(n)
    PROVE  StandsUpTo(f, i, n, j) \in j .. Len(n)
  BY EndOfLevelFacts DEF StandsUpTo

(* The equation of the walk of iotx_mc_is_topic_matched, at every pair of  *)
(* positions.                                                              *)
LEMMA MatchWalkStep ==
    ASSUME NEW f, NEW n, Len(f) \in Nat, Len(n) \in Nat,
           NEW i \in 1 .. Len(f) + 1, NEW j \in 1 .. Len(n) + 1
    PROVE  MatchWalk(f, n)[<<i, j>>] =
              IF i > Len(f) \/ j > Len(n)
              THEN i = Len(f) + 1 /\ j = Len(n) + 1
              ELSE Meets(f[i], n[j]) /\ MatchWalk(f, n)[<<i + 1, StandsUpTo(f, i, n, j) + 1>>]
  <1> DEFINE S == (1 .. Len(f) + 1) \X (1 .. Len(n) + 1)
             Over(x) == x[1] > Len(f) \/ x[2] > Len(n)
             Ends(x) == x[1] = Len(f) + 1 /\ x[2] = Len(n) + 1
             After(x) == <<x[1] + 1, StandsUpTo(f, x[1], n, x[2]) + 1>>
             A == [x \in S |-> Over(x) /\ Ends(x)]
             B == [x \in S |-> ~Over(x) /\ Meets(f[x[1]], n[x[2]])]
             nxt == [x \in S |-> IF Over(x) THEN x ELSE After(x)]
             W(g) == [x \in S |-> IF Over(x) THEN Ends(x)
                                  ELSE Meets(f[x[1]], n[x[2]]) /\ g[After(x)]]
  <1>1. PICK g \in [S -> BOOLEAN] : Recurs(g, S, A, B, nxt)
    <2>1. A \in [S -> BOOLEAN] /\ B \in [S -> BOOLEAN]
      BY DEF Meets
    <2>2. ASSUME NEW x \in S, ~Over(x) PROVE After(x) \in S
      <3>1. /\ x[1] \in 1 .. Len(f) + 1 /\ x[2] \in 1 .. Len(n) + 1
            /\ ~(x[1] > Len(f)) /\ ~(x[2] > Len(n))
        BY ONLY <2>2 DEF S, Over
      <3>2. x[1] + 1 \in 1 .. Len(f) + 1 /\ x[2] \in 1 .. Len(n)
        BY <3>1
      <3>3. StandsUpTo(f, x[1], n, x[2]) \in x[2] .. Len(n)
        BY <3>2, StandsUpToFacts
      <3>4. StandsUpTo(f, x[1], n, x[2]) + 1 \in 1 .. Len(n) + 1
        BY <3>2, <3>3
      <3> QED BY <3>2, <3>4
    <2>3. nxt \in [S -> S]
      <3> HIDE DEF After, Over, S
      <3> QED BY <2>2
    <2> HIDE DEF A, B, nxt, S, W, Over, Ends, After
    <2> QED BY <2>1, <2>3, TailRecursion
  <1>2. g = W(g)
    <2>1. ASSUME NEW x \in S PROVE g[x] = W(g)[x]
      <3> HIDE DEF After, S
      <3> QED BY <1>1, <2>1 DEF Recurs
    <2> HIDE DEF After, S, Over, Ends
    <2> QED BY <2>1
  <1>3. MatchWalk(f, n) = W(MatchWalk(f, n))
    <2>1. MatchWalk(f, n) = CHOOSE h : h = W(h)
      BY DEF MatchWalk
    <2> HIDE DEF W
    <2> QED BY <1>2, <2>1
  <1>4. MatchWalk(f, n)[<<i, j>>] =
            IF Over(<<i, j>>) THEN Ends(<<i, j>>)
            ELSE Meets(f[i], n[j]) /\ MatchWalk(f, n)[After(<<i, j>>)]
    <2>1. <<i, j>> \in S
      OBVIOUS
    <2> HIDE DEF After, Over, Ends, S
    <2> QED BY <1>3, <2>1
  <1> HIDE DEF W
  <1> QED
    BY <1>4

(* ... and inside both texts: one character is met, and the walk goes on.  *)
LEMMA MatchWalkOn ==
    ASSUME NEW f, NEW n, Len(f) \in Nat, Len(n) \in Nat,
           NEW i \in 1 .. Len(f), NEW j \in 1 .. Len(n)
    PROVE  MatchWalk(f, n)[<<i, j>>] =
              (Meets(f[i], n[j]) /\ MatchWalk(f, n)[<<i + 1, StandsUpTo(f, i, n, j) + 1>>])
  <1>1. i \in 1 .. Len(f) + 1 /\ j \in 1 .. Len(n) + 1 /\ ~(i > Len(f) \/ j > Len(n))
    OBVIOUS
  <1> QED
    BY <1>1, MatchWalkStep

(* The number of a slash among the slashes of a text.                      *)
Ord(s, k) == Cardinality(SlashesUpTo(s, k))

(* How many levels a text has.                                             *)
LevelCount(s) == Cardinality(Slashes(s))

(* Both counts are numbers.                                                *)
LEMMA SlashesFinite ==
    ASSUME NEW s, Len(s) \in Nat
    PROVE  /\ IsFiniteSet(Slashes(s)) /\ LevelCount(s) \in Nat
           /\ \A k \in 1 .. Len(s) : IsFiniteSet(SlashesUpTo(s, k)) /\ Ord(s, k) \in 0 .. LevelCount(s)
  <1>1. Slashes(s) \subseteq 1 .. Len(s)
    BY DEF Slashes, NextSlash
  <1>2. IsFiniteSet(1 .. Len(s))
    BY FS_Interval
  <1>3. IsFiniteSet(Slashes(s))
    BY <1>1, <1>2, FS_Subset
  <1>4. LevelCount(s) \in Nat
    BY <1>3, FS_CardinalityType DEF LevelCount
  <1>5. ASSUME NEW k \in 1 .. Len(s)
        PROVE  IsFiniteSet(SlashesUpTo(s, k)) /\ Ord(s, k) \in 0 .. LevelCount(s)
    <2>1. SlashesUpTo(s, k) \subseteq Slashes(s)
      BY DEF SlashesUpTo
    <2>2. /\ IsFiniteSet(SlashesUpTo(s, k))
          /\ Cardinality(SlashesUpTo(s, k)) <= Cardinality(Slashes(s))
      BY <1>3, <2>1, FS_Subset
    <2>3. Ord(s, k) \in Nat /\ Ord(s, k) <= LevelCount(s)
      BY <2>2, FS_CardinalityType DEF Ord, LevelCount
    <2> QED BY <1>4, <2>2, <2>3
  <1> QED
    BY <1>3, <1>4, <1>5

(* The next slash has the next number, ...                                 *)
LEMMA OrdNext ==
    ASSUME NEW s, Len(s) \in Nat, NEW k \in 1 .. Len(s), NEW l \in k + 1 .. Len(s),
           s[l] = "/", \A i \in k + 1 .. l - 1 : s[i] # "/"
    PROVE  Ord(s, l) = Ord(s, k) + 1
  <1>1. SlashesUpTo(s, l) = SlashesUpTo(s, k) \cup {l}
    <2>1. ASSUME NEW i \in SlashesUpTo(s, l) PROVE i \in SlashesUpTo(s, k) \cup {l}
      <3>1. i \in 1 .. Len(s) /\ s[i] = "/" /\ i <= l
        BY DEF SlashesUpTo, Slashes, NextSlash
      <3>2. i \notin k + 1 .. l - 1
        BY <3>1
      <3>3. i <= k \/ i = l
        BY <3>1, <3>2
      <3> QED BY <3>1, <3>3 DEF SlashesUpTo, Slashes, NextSlash
    <2>2. SlashesUpTo(s, k) \cup {l} \subseteq SlashesUpTo(s, l)
      BY DEF SlashesUpTo, Slashes, NextSlash
    <2> QED BY <2>1, <2>2
  <1>2. l \notin SlashesUpTo(s, k)
    BY DEF SlashesUpTo
  <1>3. IsFiniteSet(SlashesUpTo(s, k))
    BY SlashesFinite
  <1> QED
    BY <1>1, <1>2, <1>3, FS_AddElement DEF Ord

(* ... a later slash a greater one, ...                                    *)
LEMMA OrdGrows ==
    ASSUME NEW s, Len(s) \in Nat, NEW k \in 1 .. Len(s), NEW l \in k + 1 .. Len(s), s[l] = "/"
    PROVE  Ord(s, k) < Ord(s, l)
  <1>1. SlashesUpTo(s, k) \subseteq SlashesUpTo(s, l)
    BY DEF SlashesUpTo, Slashes, NextSlash
  <1>2. l \in SlashesUpTo(s, l) /\ l \notin SlashesUpTo(s, k)
    BY DEF SlashesUpTo, Slashes, NextSlash
  <1>3. /\ IsFiniteSet(SlashesUpTo(s, l)) /\ Ord(s, l) \in Nat /\ Ord(s, k) \in Nat
    <2>1. l \in 1 .. Len(s)
      OBVIOUS
    <2> QED BY <2>1, SlashesFinite
  <1>4. Ord(s, k) <= Ord(s, l)
    BY <1>1, <1>3, FS_Subset DEF Ord
  <1>5. Ord(s, l) # Ord(s, k)
    BY <1>1, <1>2, <1>3, FS_Subset DEF Ord
  <1> QED
    BY <1>3, <1>4, <1>5

(* ... and a text that begins with a slash begins with slash number one.   *)
LEMMA OrdFirst ==
    ASSUME NEW s, Len(s) \in Nat, Len(s) > 0, s[1] = "/"
    PROVE  Ord(s, 1) = 1
  <1>1. SlashesUpTo(s, 1) = {1}
    BY DEF SlashesUpTo, Slashes, NextSlash
  <1> QED
    BY <1>1, FS_Singleton DEF Ord

(* After the last slash there is none.                                     *)
LEMMA OrdLast ==
    ASSUME NEW s, Len(s) \in Nat, NEW k \in 1 .. Len(s)
    PROVE  Ord(s, k) = LevelCount(s) <=> \A i \in k + 1 .. Len(s) : s[i] # "/"
  <1>1. SlashesUpTo(s, k) \subseteq Slashes(s) /\ IsFiniteSet(Slashes(s))
    BY SlashesFinite DEF SlashesUpTo
  <1>2. Ord(s, k) = LevelCount(s) <=> Slashes(s) = SlashesUpTo(s, k)
    BY <1>1, FS_Subset DEF Ord, LevelCount
  <1>3. Slashes(s) = SlashesUpTo(s, k) <=> \A i \in Slashes(s) : i <= k
    BY DEF SlashesUpTo
  <1>4. (\A i \in Slashes(s) : i <= k) <=> \A i \in k + 1 .. Len(s) : s[i] # "/"
    BY DEF Slashes, NextSlash
  <1> QED
    BY <1>2, <1>3, <1>4

(* A level runs from its slash to the next one, or to the end.             *)
LEMMA LevelEndFacts ==
    ASSUME NEW s, Len(s) \in Nat, NEW k \in 1 .. Len(s)
    PROVE  /\ LevelEnd(s, k) \in k .. Len(s)
           /\ \A i \in k + 1 .. LevelEnd(s, k) : s[i] # "/"
           /\ LevelEnd(s, k) # Len(s) => s[LevelEnd(s, k) + 1] = "/"
  BY EndOfLevelFacts DEF LevelEnd

(* Every number up to LevelCount is that of a slash.                       *)
LEMMA OrdReached ==
    ASSUME NEW s, Len(s) \in Nat, Len(s) > 0, s[1] = "/", NEW c \in 1 .. LevelCount(s)
    PROVE  \E k \in Slashes(s) : Ord(s, k) = c
  <1> DEFINE T == {n \in Nat : n + 1 <= LevelCount(s) => \E k \in Slashes(s) : Ord(s, k) = n + 1}
  <1>0. LevelCount(s) \in Nat
    BY SlashesFinite
  <1>1. 0 \in T
    <2>1. 1 \in Slashes(s)
      BY DEF Slashes, NextSlash
    <2> QED BY <2>1, OrdFirst
  <1>2. ASSUME NEW n \in Nat, n \in T PROVE n + 1 \in T
    <2> SUFFICES ASSUME n + 2 <= LevelCount(s) PROVE \E k \in Slashes(s) : Ord(s, k) = n + 2
      OBVIOUS
    <2>1. PICK k \in Slashes(s) : Ord(s, k) = n + 1
      BY <1>2, <1>0
    <2>2. k \in 1 .. Len(s)
      BY DEF Slashes, NextSlash
    <2> DEFINE e == LevelEnd(s, k)
    <2>3. /\ e \in k .. Len(s) /\ \A i \in k + 1 .. e : s[i] # "/"
          /\ e # Len(s) => s[e + 1] = "/"
      BY <2>2, LevelEndFacts
    <2> HIDE DEF e
    <2>4. e # Len(s)
      <3>1. Ord(s, k) # LevelCount(s)
        BY <2>1, <1>0
      <3> QED BY <3>1, <2>2, <2>3, OrdLast
    <2>5. e + 1 \in k + 1 .. Len(s) /\ e + 1 \in Slashes(s) /\ (e + 1) - 1 = e
      BY <2>2, <2>3, <2>4 DEF Slashes, NextSlash
    <2>6. Ord(s, e + 1) = Ord(s, k) + 1
      BY <2>2, <2>3, <2>4, <2>5, OrdNext
    <2> QED BY <2>1, <2>5, <2>6
  <1>3. Nat \subseteq T
    <2> HIDE DEF T
    <2> QED BY <1>1, <1>2, NatSetInduction
  <1>4. c - 1 \in T /\ (c - 1) + 1 = c /\ c <= LevelCount(s)
    BY <1>0, <1>3
  <1> QED
    BY <1>4

(* SlashOf and Ord are inverse to each other.                              *)
LEMMA SlashOfFacts ==
    ASSUME NEW s, Len(s) \in Nat, Len(s) > 0, s[1] = "/"
    PROVE  /\ \A c \in 1 .. LevelCount(s) : SlashOf(s, c) \in Slashes(s) /\ Ord(s, SlashOf(s, c)) = c
           /\ \A k \in Slashes(s) : SlashOf(s, Ord(s, k)) = k /\ Ord(s, k) \in 1 .. LevelCount(s)
  <1>1. ASSUME NEW c \in 1 .. LevelCount(s)
        PROVE  SlashOf(s, c) \in Slashes(s) /\ Ord(s, SlashOf(s, c)) = c
    BY OrdReached DEF SlashOf, Ord
  <1>2. ASSUME NEW k \in Slashes(s)
        PROVE  SlashOf(s, Ord(s, k)) = k /\ Ord(s, k) \in 1 .. LevelCount(s)
    <2>1. k \in 1 .. Len(s) /\ s[k] = "/" /\ \A l \in Slashes(s) : l \in 1 .. Len(s) /\ s[l] = "/"
      BY DEF Slashes, NextSlash
    <2>2. ASSUME NEW l \in Slashes(s), Ord(s, l) = Ord(s, k) PROVE l = k
      <3>1. CASE l < k
        <4>1. k \in l + 1 .. Len(s) /\ Ord(s, l) \in Nat
          BY <2>1, <3>1, SlashesFinite
        <4> QED BY <4>1, <2>1, <2>2, OrdGrows
      <3>2. CASE k < l
        <4>1. l \in k + 1 .. Len(s) /\ Ord(s, k) \in Nat
          BY <2>1, <3>2, SlashesFinite
        <4> QED BY <4>1, <2>1, <2>2, OrdGrows
      <3> QED BY <3>1, <3>2, <2>1
    <2>3. SlashOf(s, Ord(s, k)) = CHOOSE l \in Slashes(s) : Ord(s, l) = Ord(s, k)
      BY DEF SlashOf, Ord
    <2>4. SlashOf(s, Ord(s, k)) = k
      BY <2>2, <2>3
    <2>5. Ord(s, k) \in 1 .. LevelCount(s)
      <3>1. k \in SlashesUpTo(s, k)
        BY <2>1 DEF SlashesUpTo
      <3>2. Ord(s, k) # 0
        BY <2>1, <3>1, SlashesFinite, FS_EmptySet DEF Ord
      <3> QED BY <2>1, <3>2, SlashesFinite
    <2> QED BY <2>4, <2>5
  <1> QED
    BY <1>1, <1>2

(* The level of number c: the text after the slash at k, up to e.          *)
IsLevel(s, c, k, e) ==
    /\ k \in 1 .. Len(s) /\ e \in k .. Len(s) /\ s[k] = "/"
    /\ \A i \in k + 1 .. e : s[i] # "/"
    /\ SlashOf(s, c) = k
    /\ Len(Levels(s)[c]) = e - k
    /\ \A d \in 1 .. e - k : Levels(s)[c][d] = s[k + d]
    /\ c = LevelCount(s) => e = Len(s)
    /\ c # LevelCount(s) => e < Len(s) /\ s[e + 1] = "/" /\ SlashOf(s, c + 1) = e + 1

(* The levels of a text are the stretches after its slashes, in order.     *)
LEMMA LevelsFacts ==
    ASSUME NEW C, NEW s \in Seq(C), Len(s) > 0, s[1] = "/"
    PROVE  /\ Len(Levels(s)) = LevelCount(s)
           /\ \A c \in 1 .. LevelCount(s) :
                 /\ Levels(s)[c] = Level(s, SlashOf(s, c))
                 /\ Levels(s)[c] \in Seq(C)
                 /\ Len(Levels(s)[c]) = LevelEnd(s, SlashOf(s, c)) - SlashOf(s, c)
                 /\ \A d \in 1 .. LevelEnd(s, SlashOf(s, c)) - SlashOf(s, c) :
                       Levels(s)[c][d] = s[SlashOf(s, c) + d]
  <1>0. Len(s) \in Nat /\ LevelCount(s) \in Nat
    BY SlashesFinite
  <1>1. ASSUME NEW k \in 1 .. Len(s)
        PROVE  /\ Level(s, k) \in Seq(C)
               /\ Len(Level(s, k)) = LevelEnd(s, k) - k
               /\ \A d \in 1 .. LevelEnd(s, k) - k : Level(s, k)[d] = s[k + d]
    <2> DEFINE e == LevelEnd(s, k)
    <2>1. e \in k .. Len(s)
      BY <1>0, LevelEndFacts
    <2> HIDE DEF e
    <2>2. k + 1 \in Int /\ e \in Int /\ \A i \in k + 1 .. e : s[i] \in C
      BY <2>1
    <2>3. /\ SubSeq(s, k + 1, e) \in Seq(C)
          /\ Len(SubSeq(s, k + 1, e)) = IF k + 1 <= e THEN e - (k + 1) + 1 ELSE 0
          /\ \A i \in 1 .. e - (k + 1) + 1 : SubSeq(s, k + 1, e)[i] = s[(k + 1) + i - 1]
      BY <2>2, SubSeqProperties
    <2>4. (IF k + 1 <= e THEN e - (k + 1) + 1 ELSE 0) = e - k /\ e - (k + 1) + 1 = e - k
      BY <2>1
    <2>5. \A d \in 1 .. e - k : (k + 1) + d - 1 = k + d
      BY <2>1
    <2> QED BY <2>3, <2>4, <2>5 DEF Level, e
  <1>2. \A c \in 1 .. LevelCount(s) : SlashOf(s, c) \in 1 .. Len(s)
    BY <1>0, SlashOfFacts DEF Slashes, NextSlash
  <1>3. Levels(s) = [c \in 1 .. LevelCount(s) |-> Level(s, SlashOf(s, c))]
    BY DEF Levels, LevelCount
  <1>4. Levels(s) \in [1 .. LevelCount(s) -> Seq(C)]
    BY <1>1, <1>2, <1>3
  <1>5. Levels(s) \in Seq(Seq(C)) /\ DOMAIN Levels(s) = 1 .. LevelCount(s)
    <2>1. LevelCount(s) \in Nat
      BY <1>0
    <2> QED BY ONLY <1>4, <2>1
  <1>6. Len(Levels(s)) = LevelCount(s)
    BY <1>0, <1>5
  <1>7. \A c \in 1 .. LevelCount(s) : Levels(s)[c] = Level(s, SlashOf(s, c))
    BY <1>3
  <1> QED
    BY <1>1, <1>2, <1>6, <1>7

(* So every level is at a definite place of the text.                      *)
LEMMA LevelAt ==
    ASSUME NEW C, NEW s \in Seq(C), Len(s) > 0, s[1] = "/", NEW c \in 1 .. LevelCount(s)
    PROVE  \E k, e \in 1 .. Len(s) : IsLevel(s, c, k, e)
  <1>0. Len(s) \in Nat /\ LevelCount(s) \in Nat
    BY SlashesFinite
  <1>1. PICK k \in 1 .. Len(s) : k = SlashOf(s, c) /\ s[k] = "/" /\ Ord(s, k) = c
    BY <1>0, SlashOfFacts DEF Slashes, NextSlash
  <1>2. PICK e \in k .. Len(s) : /\ e = LevelEnd(s, k)
                                 /\ \A i \in k + 1 .. e : s[i] # "/"
                                 /\ e # Len(s) => s[e + 1] = "/"
    BY <1>0, LevelEndFacts
  <1>3. Len(Levels(s)[c]) = e - k /\ \A d \in 1 .. e - k : Levels(s)[c][d] = s[k + d]
    BY <1>1, <1>2, LevelsFacts
  <1>4. ASSUME c = LevelCount(s) PROVE e = Len(s)
    <2>1. \A i \in k + 1 .. Len(s) : s[i] # "/"
      BY <1>0, <1>1, <1>4, OrdLast
    <2> QED BY <2>1, <1>2, <1>0
  <1>5. ASSUME c # LevelCount(s) PROVE e < Len(s) /\ s[e + 1] = "/" /\ SlashOf(s, c + 1) = e + 1
    <2>1. e # Len(s)
      BY <1>0, <1>1, <1>2, <1>5, OrdLast
    <2>2. e + 1 \in k + 1 .. Len(s) /\ s[e + 1] = "/" /\ (e + 1) - 1 = e
      BY <2>1, <1>2, <1>0
    <2>3. Ord(s, e + 1) = c + 1
      <3>1. \A i \in k + 1 .. e : s[i] # "/"
        BY <1>2
      <3>2. Ord(s, k) = c
        BY <1>1
      <3>3. e + 1 \in Slashes(s) /\ k \in Slashes(s)
        BY <2>2, <1>0, <1>1 DEF Slashes, NextSlash
      <3> QED BY <2>2, <1>0, <1>1, <3>1, <3>2, <3>3, OrdNext
    <2>4. e + 1 \in Slashes(s)
      BY <2>2 DEF Slashes, NextSlash
    <2>5. SlashOf(s, c + 1) = e + 1
      BY <2>3, <2>4, <1>0, SlashOfFacts
    <2> QED BY <2>1, <2>2, <2>5, <1>0
  <1>6. e \in 1 .. Len(s)
    BY <1>0
  <1>7. IsLevel(s, c, k, e)
    BY <1>1, <1>2, <1>3, <1>4, <1>5 DEF IsLevel
  <1> QED
    BY <1>6, <1>7

(* A level of a filter without wildcards is compared character by          *)
(* character.                                                              *)
LEMMA LiteralWalk ==
    ASSUME NEW f, NEW n, Len(f) \in Nat, Len(n) \in Nat,
           NEW k \in 1 .. Len(f), NEW e \in k .. Len(f),
           NEW m \in 1 .. Len(n), NEW g \in m .. Len(n),
           \A i \in k + 1 .. e : f[i] \notin {"/", "+", "#"},
           \A j \in m + 1 .. g : n[j] # "/",
           NEW d \in Nat, d <= e - k, d <= g - m
    PROVE  MatchWalk(f, n)[<<k + 1, m + 1>>] <=>
              /\ \A x \in 1 .. d : f[k + x] = n[m + x]
              /\ MatchWalk(f, n)[<<k + 1 + d, m + 1 + d>>]
  <1> DEFINE Same(y) == \A x \in 1 .. y : f[k + x] = n[m + x]
             Walks(y) == MatchWalk(f, n)[<<k + 1 + y, m + 1 + y>>]
             T == {y \in Nat : y <= d => (MatchWalk(f, n)[<<k + 1, m + 1>>] <=> Same(y) /\ Walks(y))}
  <1>1. 0 \in T
    <2>1. k + 1 + 0 = k + 1 /\ m + 1 + 0 = m + 1
      OBVIOUS
    <2>2. Walks(0) = MatchWalk(f, n)[<<k + 1, m + 1>>]
      BY <2>1
    <2>3. Same(0)
      OBVIOUS
    <2> HIDE DEF Walks, Same
    <2> QED BY <2>2, <2>3
  <1>2. ASSUME NEW y \in Nat, y \in T PROVE y + 1 \in T
    <2> SUFFICES ASSUME y + 1 <= d
                 PROVE  MatchWalk(f, n)[<<k + 1, m + 1>>] <=> Same(y + 1) /\ Walks(y + 1)
      <3> HIDE DEF Same, Walks
      <3> QED OBVIOUS
    <2>1. MatchWalk(f, n)[<<k + 1, m + 1>>] <=> Same(y) /\ Walks(y)
      BY <1>2
    <2>2. PICK i \in k + 1 .. e : i = k + 1 + y
      OBVIOUS
    <2>3. PICK j \in m + 1 .. g : j = m + 1 + y
      OBVIOUS
    <2>4. /\ i \in 1 .. Len(f) /\ j \in 1 .. Len(n)
          /\ i = k + (y + 1) /\ j = m + (y + 1)
          /\ i + 1 = k + 1 + (y + 1) /\ j + 1 = m + 1 + (y + 1)
      BY <2>2, <2>3
    <2>5. f[i] \notin {"/", "+", "#"} /\ n[j] # "/"
      OBVIOUS
    <2>6. StandsUpTo(f, i, n, j) = j
      BY <2>5 DEF StandsUpTo
    <2>7. MatchWalk(f, n)[<<i, j>>] = (Meets(f[i], n[j]) /\ MatchWalk(f, n)[<<i + 1, j + 1>>])
      BY <2>4, <2>6, MatchWalkOn
    <2>8. Meets(f[i], n[j]) <=> f[i] = n[j]
      BY <2>5 DEF Meets
    <2>9. Same(y + 1) <=> Same(y) /\ f[i] = n[j]
      <3>1. \A x \in 1 .. y + 1 : x \in 1 .. y \/ x = y + 1
        OBVIOUS
      <3>2. \A x \in 1 .. y : x \in 1 .. y + 1
        OBVIOUS
      <3>3. y + 1 \in 1 .. y + 1
        OBVIOUS
      <3> QED BY <3>1, <3>2, <3>3, <2>4
    <2> HIDE DEF Same
    <2> QED BY <2>1, <2>2, <2>3, <2>4, <2>7, <2>8, <2>9
  <1>3. Nat \subseteq T
    <2> HIDE DEF T
    <2> QED BY <1>1, <1>2, NatSetInduction
  <1>4. MatchWalk(f, n)[<<k + 1, m + 1>>] <=> Same(d) /\ Walks(d)
    <2> HIDE DEF T
    <2>1. d \in T
      BY <1>3
    <2> USE DEF T
    <2> HIDE DEF Same, Walks
    <2> QED BY ONLY <2>1
  <1> QED
    BY <1>4

(* The walk from the c-th slashes on succeeds; the c-th levels agree; what *)
(* is left after the c-th levels agrees.                                   *)
At(f, n, c) == MatchWalk(f, n)[<<SlashOf(f, c), SlashOf(n, c)>>]
FitsAt(f, n, c) == \/ Levels(f)[c] = Levels(n)[c]
                   \/ Levels(f)[c] = <<"+">> /\ Levels(n)[c] # <<>>
GoesOn(f, n, c) == \/ c = LevelCount(f) /\ c = LevelCount(n)
                   \/ c < LevelCount(f) /\ c < LevelCount(n) /\ At(f, n, c + 1)

(* At the end of both levels the walk is over, or stands on both next      *)
(* slashes.                                                                *)
LEMMA AfterLevel ==
    ASSUME NEW f, NEW n, Len(f) \in Nat, Len(n) \in Nat,
           NEW c \in 1 .. LevelCount(f), c \in 1 .. LevelCount(n),
           NEW k, NEW e, IsLevel(f, c, k, e), NEW m, NEW g, IsLevel(n, c, m, g)
    PROVE  MatchWalk(f, n)[<<e + 1, g + 1>>] <=> GoesOn(f, n, c)
  <1>0. /\ LevelCount(f) \in Nat /\ LevelCount(n) \in Nat /\ c \in Nat
        /\ k \in 1 .. Len(f) /\ e \in k .. Len(f)
        /\ m \in 1 .. Len(n) /\ g \in m .. Len(n)
        /\ c = LevelCount(f) => e = Len(f)
        /\ c # LevelCount(f) => e < Len(f) /\ SlashOf(f, c + 1) = e + 1
        /\ c = LevelCount(n) => g = Len(n)
        /\ c # LevelCount(n) => g < Len(n) /\ SlashOf(n, c + 1) = g + 1
    <2>1. LevelCount(f) \in Nat /\ LevelCount(n) \in Nat
      BY SlashesFinite
    <2>2. c \in Nat
      OBVIOUS
    <2> QED BY <2>1, <2>2 DEF IsLevel
  <1>1. e + 1 \in 1 .. Len(f) + 1 /\ g + 1 \in 1 .. Len(n) + 1
    BY <1>0
  <1>2. CASE c = LevelCount(f) \/ c = LevelCount(n)
    <2>1. e + 1 > Len(f) \/ g + 1 > Len(n)
      BY <1>0, <1>2
    <2>2. MatchWalk(f, n)[<<e + 1, g + 1>>] = (e + 1 = Len(f) + 1 /\ g + 1 = Len(n) + 1)
      <3>1. Len(f) \in Nat /\ Len(n) \in Nat
        OBVIOUS
      <3> QED BY ONLY <1>1, <2>1, <3>1, MatchWalkStep
    <2>3. (e + 1 = Len(f) + 1 /\ g + 1 = Len(n) + 1) <=> c = LevelCount(f) /\ c = LevelCount(n)
      BY <1>0
    <2>4. ~(c < LevelCount(f) /\ c < LevelCount(n))
      BY <1>0, <1>2
    <2> QED BY <2>2, <2>3, <2>4 DEF GoesOn
  <1>3. CASE c # LevelCount(f) /\ c # LevelCount(n)
    <2>1. c < LevelCount(f) /\ c < LevelCount(n)
      BY <1>0, <1>3
    <2> QED BY <1>0, <1>3, <2>1 DEF GoesOn, At
  <1> QED
    BY <1>2, <1>3

(* The levels of a well-formed filter.                                     *)
LEMMA LevelShape ==
    ASSUME NEW f \in Seq(Char), WellFormedFilter(f), NEW c \in 1 .. LevelCount(f),
           NEW k, NEW e, IsLevel(f, c, k, e)
    PROVE  \/ /\ \A i \in k + 1 .. e : f[i] \notin {"/", "+", "#"}
              /\ Levels(f)[c] # <<"+">> /\ Levels(f)[c] # <<"#">>
           \/ e = k + 1 /\ f[k + 1] = "+" /\ Levels(f)[c] = <<"+">>
           \/ e = k + 1 /\ f[k + 1] = "#" /\ Levels(f)[c] = <<"#">> /\ c = LevelCount(f)
  <1> DEFINE l == Levels(f)[c]
  <1>0. /\ k \in 1 .. Len(f) /\ e \in k .. Len(f) /\ Len(f) \in Nat
        /\ \A i \in k + 1 .. e : f[i] # "/"
        /\ Len(l) = e - k /\ \A d \in 1 .. e - k : l[d] = f[k + d]
    BY DEF IsLevel
  <1>1. Len(f) > 0 /\ f[1] = "/"
    <2>1. f # <<>> /\ f[1] = "/"
      BY DEF WellFormedFilter
    <2> QED BY <2>1
  <1>2. l \in Seq(Char) /\ Len(Levels(f)) = LevelCount(f)
    BY <1>1, LevelsFacts
  <1>3. Wild(l) => Len(l) = 1 /\ (l = <<"#">> => c = LevelCount(f))
    BY <1>2 DEF WellFormedFilter
  <1> HIDE DEF l
  <1>4. CASE Wild(l)
    <2>1. Len(l) = 1 /\ l[1] \in {"+", "#"}
      <3>1. Len(l) = 1
        BY <1>3, <1>4
      <3>2. PICK i \in 1 .. Len(l) : l[i] \in {"+", "#"}
        BY <1>4 DEF Wild
      <3>3. i = 1
        BY <3>1
      <3> QED BY <3>1, <3>2, <3>3
    <2>2. l = <<l[1]>>
      BY <1>2, <2>1
    <2>3. e = k + 1 /\ f[k + 1] = l[1]
      <3>1. e = k + 1 /\ 1 \in 1 .. e - k
        <4>1. k \in Int /\ e \in Int
          BY <1>0
        <4>2. e - k = 1
          <5>1. Len(l) = e - k
            BY <1>0
          <5> QED BY <2>1, <5>1
        <4> QED BY <4>1, <4>2
      <3> QED BY <3>1, <1>0
    <2> QED BY <1>3, <1>4, <2>1, <2>2, <2>3 DEF l
  <1>5. CASE ~Wild(l)
    <2>1. \A d \in 1 .. Len(l) : l[d] \notin {"+", "#"}
      BY <1>5 DEF Wild
    <2>2. l # <<"+">> /\ l # <<"#">>
      <3>1. \A x : Len(<<x>>) = 1 /\ <<x>>[1] = x
        OBVIOUS
      <3>2. 1 \in 1 .. 1
        OBVIOUS
      <3> QED BY <2>1, <3>1, <3>2
    <2>3. ASSUME NEW i \in k + 1 .. e PROVE f[i] \notin {"/", "+", "#"}
      <3>1. i - k \in 1 .. e - k /\ k + (i - k) = i
        BY <1>0
      <3>2. l[i - k] = f[i]
        BY <3>1, <1>0
      <3> QED BY <1>0, <2>1, <3>1, <3>2
    <2> QED BY <2>2, <2>3 DEF l
  <1> QED
    BY <1>4, <1>5

(* One level of the filter against the level of the same number.           *)
LEMMA LevelStep ==
    ASSUME NEW f \in Seq(Char), NEW n \in Seq(Char), WellFormedFilter(f), Len(n) > 0, n[1] = "/",
           NEW c \in 1 .. LevelCount(f), c \in 1 .. LevelCount(n)
    PROVE  At(f, n, c) <=> IF Levels(f)[c] = <<"#">>
                           THEN Levels(n)[c] # <<>>
                           ELSE FitsAt(f, n, c) /\ GoesOn(f, n, c)
  <1> DEFINE W(i, j) == MatchWalk(f, n)[<<i, j>>]
             lf == Levels(f)[c]
             ln == Levels(n)[c]
  <1>0. Len(f) \in Nat /\ Len(n) \in Nat /\ Len(f) > 0 /\ f[1] = "/"
    <2>1. f # <<>> /\ f[1] = "/"
      BY DEF WellFormedFilter
    <2> QED BY <2>1
  <1>1. PICK k, e \in 1 .. Len(f) : IsLevel(f, c, k, e)
    BY <1>0, LevelAt
  <1>2. PICK m, g \in 1 .. Len(n) : IsLevel(n, c, m, g)
    BY LevelAt
  <1>3. /\ e \in k .. Len(f) /\ f[k] = "/" /\ SlashOf(f, c) = k
        /\ e # Len(f) => f[e + 1] = "/"
        /\ Len(lf) = e - k /\ \A d \in 1 .. e - k : lf[d] = f[k + d]
    BY <1>1 DEF IsLevel
  <1>4. /\ g \in m .. Len(n) /\ n[m] = "/" /\ SlashOf(n, c) = m
        /\ g # Len(n) => n[g + 1] = "/"
        /\ \A j \in m + 1 .. g : n[j] # "/"
        /\ Len(ln) = g - m /\ \A d \in 1 .. g - m : ln[d] = n[m + d]
    BY <1>2 DEF IsLevel
  <1>5. lf \in Seq(Char) /\ ln \in Seq(Char)
    BY <1>0, LevelsFacts
  <1>6. At(f, n, c) <=> W(k + 1, m + 1)
    <2>1. At(f, n, c) = W(k, m)
      BY <1>3, <1>4 DEF At
    <2>2. StandsUpTo(f, k, n, m) = m
      BY <1>3 DEF StandsUpTo
    <2>3. Meets(f[k], n[m])
      BY <1>3, <1>4 DEF Meets
    <2>4. W(k, m) = (Meets(f[k], n[m]) /\ W(k + 1, m + 1))
      BY <1>0, <2>2, MatchWalkOn
    <2> HIDE DEF W
    <2> QED BY <2>1, <2>3, <2>4
  <1>7. W(e + 1, g + 1) <=> GoesOn(f, n, c)
    BY <1>0, <1>1, <1>2, AfterLevel
  <1>8. e + 1 \in 1 .. Len(f) + 1 /\ g + 1 \in 1 .. Len(n) + 1
    BY <1>0
  <1> HIDE DEF lf, ln
  <1>9. CASE /\ \A i \in k + 1 .. e : f[i] \notin {"/", "+", "#"}
             /\ lf # <<"+">> /\ lf # <<"#">>
    <2>1. ASSUME NEW d \in Nat, d <= e - k, d <= g - m
          PROVE  W(k + 1, m + 1) <=> (\A x \in 1 .. d : f[k + x] = n[m + x]) /\ W(k + 1 + d, m + 1 + d)
      <3>1. e \in k .. Len(f) /\ g \in m .. Len(n) /\ \A j \in m + 1 .. g : n[j] # "/"
        BY <1>3, <1>4
      <3>2. \A i \in k + 1 .. e : f[i] \notin {"/", "+", "#"}
        BY <1>9
      <3> QED BY ONLY <1>0, <2>1, <3>1, <3>2, k \in 1 .. Len(f), m \in 1 .. Len(n), d \in Nat, LiteralWalk
    <2>2. FitsAt(f, n, c) <=> lf = ln
      BY <1>9 DEF FitsAt, lf, ln
    <2>3. CASE e - k = g - m
      <3>1. e - k \in Nat /\ e - k <= g - m /\ k + 1 + (e - k) = e + 1 /\ m + 1 + (e - k) = g + 1
        BY <2>3, <1>3, <1>4
      <3>2. W(k + 1, m + 1) <=> (\A x \in 1 .. e - k : f[k + x] = n[m + x]) /\ W(e + 1, g + 1)
        <4> HIDE DEF W
        <4>1. W(k + 1, m + 1) <=> /\ \A x \in 1 .. e - k : f[k + x] = n[m + x]
                                  /\ W(k + 1 + (e - k), m + 1 + (e - k))
          <5>1. e - k <= e - k
            BY <3>1
          <5> QED BY <2>1, <3>1, <5>1
        <4> QED BY <4>1, <3>1
      <3>3. lf = ln <=> \A x \in 1 .. e - k : f[k + x] = n[m + x]
        <4>1. Len(lf) = e - k /\ Len(ln) = e - k
          BY <1>3, <1>4, <2>3
        <4>2. (\A x \in 1 .. e - k : lf[x] = ln[x]) => lf = ln
          BY <1>5, <4>1, SeqEqual
        <4>3. lf = ln => \A x \in 1 .. e - k : lf[x] = ln[x]
          OBVIOUS
        <4>4. \A x \in 1 .. e - k : lf[x] = f[k + x] /\ ln[x] = n[m + x]
          BY <1>3, <1>4, <2>3
        <4> QED BY <4>2, <4>3, <4>4
      <3> HIDE DEF W
      <3> QED BY <3>2, <3>3, <2>2, <1>6, <1>7, <1>9 DEF lf
    <2>4. CASE e - k < g - m
      <3>1. /\ e - k \in Nat /\ e - k <= g - m /\ e - k <= e - k
            /\ k + 1 + (e - k) = e + 1 /\ m + 1 + (e - k) \in m + 1 .. g
        BY <2>4, <1>3, <1>4
      <3>2. PICK j \in m + 1 .. g : j = m + 1 + (e - k)
        BY <3>1
      <3>3. W(k + 1, m + 1) => W(e + 1, j)
        BY <2>1, <3>1, <3>2
      <3>4. j \in 1 .. Len(n) /\ n[j] # "/" /\ j \in 1 .. Len(n) + 1 /\ j # Len(n) + 1
        BY <1>0, <1>4
      <3>5. ~W(e + 1, j)
        <4>1. CASE e = Len(f)
          <5>1. e + 1 > Len(f)
            BY <4>1, <1>0
          <5> QED BY <1>0, <1>8, <3>4, <5>1, MatchWalkStep
        <4>2. CASE e # Len(f)
          <5>1. f[e + 1] = "/" /\ e + 1 \in 1 .. Len(f)
            BY <4>2, <1>0, <1>3
          <5>2. ~Meets(f[e + 1], n[j])
            BY <5>1, <3>4 DEF Meets
          <5> QED BY <1>0, <3>4, <5>1, <5>2, MatchWalkOn
        <4> QED BY <4>1, <4>2
      <3>6. lf # ln
        BY <1>3, <1>4, <2>4
      <3> HIDE DEF W
      <3> QED BY <3>3, <3>5, <3>6, <2>2, <1>6, <1>9 DEF lf
    <2>5. CASE e - k > g - m
      <3>1. /\ g - m \in Nat /\ g - m <= e - k /\ g - m <= g - m
            /\ m + 1 + (g - m) = g + 1 /\ k + 1 + (g - m) \in k + 1 .. e
        BY <2>5, <1>3, <1>4
      <3>2. PICK i \in k + 1 .. e : i = k + 1 + (g - m)
        BY <3>1
      <3>3. W(k + 1, m + 1) => W(i, g + 1)
        BY <2>1, <3>1, <3>2
      <3>4. i \in 1 .. Len(f) /\ f[i] # "/" /\ i \in 1 .. Len(f) + 1 /\ i # Len(f) + 1
        BY <1>0, <1>3, <1>9
      <3>5. ~W(i, g + 1)
        <4>1. CASE g = Len(n)
          <5>1. g + 1 > Len(n)
            BY <4>1, <1>0
          <5> QED BY <1>0, <1>8, <3>4, <5>1, MatchWalkStep
        <4>2. CASE g # Len(n)
          <5>1. n[g + 1] = "/" /\ g + 1 \in 1 .. Len(n)
            BY <4>2, <1>0, <1>4
          <5>2. ~Meets(f[i], n[g + 1])
            BY <5>1, <3>4 DEF Meets
          <5> QED BY <1>0, <3>4, <5>1, <5>2, MatchWalkOn
        <4> QED BY <4>1, <4>2
      <3>6. lf # ln
        BY <1>3, <1>4, <2>5
      <3> HIDE DEF W
      <3> QED BY <3>3, <3>5, <3>6, <2>2, <1>6, <1>9 DEF lf
    <2>6. e - k \in Int /\ g - m \in Int
      BY <1>3, <1>4
    <2> QED BY <2>3, <2>4, <2>5, <2>6
  <1>10. ln = <<>> <=> g = m
    BY <1>4, <1>5
  <1>11. ASSUME e = k + 1, f[k + 1] \in {"+", "#"}, g = m
         PROVE  ~W(k + 1, m + 1)
    <2>1. k + 1 \in 1 .. Len(f) /\ k + 1 \in 1 .. Len(f) + 1 /\ k + 1 # Len(f) + 1
      BY <1>0, <1>3, <1>11
    <2>2. CASE m = Len(n)
      <3>1. m + 1 > Len(n) /\ m + 1 \in 1 .. Len(n) + 1
        BY <2>2, <1>0
      <3> QED BY <1>0, <2>1, <3>1, MatchWalkStep
    <2>3. CASE m # Len(n)
      <3>1. n[m + 1] = "/" /\ m + 1 \in 1 .. Len(n)
        BY <2>3, <1>0, <1>4, <1>11
      <3>2. ~Meets(f[k + 1], n[m + 1])
        BY <3>1, <1>11 DEF Meets
      <3> QED BY <1>0, <2>1, <3>1, <3>2, MatchWalkOn
    <2> QED BY <2>2, <2>3
  <1>12. ASSUME e = k + 1, f[k + 1] \in {"+", "#"}, g # m
         PROVE  W(k + 1, m + 1) <=> W(e + 1, IF f[k + 1] = "+" THEN g + 1 ELSE Len(n) + 1)
    <2>1. k + 1 \in 1 .. Len(f) /\ m + 1 \in 1 .. Len(n) /\ m + 1 \in m + 1 .. g
      BY <1>0, <1>3, <1>4, <1>12
    <2>2. n[m + 1] # "/"
      BY <2>1, <1>4
    <2>3. Meets(f[k + 1], n[m + 1])
      BY <2>2, <1>12 DEF Meets
    <2>4. f[k + 1] = "+" => StandsUpTo(f, k + 1, n, m + 1) = g
      <3> DEFINE x == EndOfLevel(n, m + 1)
      <3>1. /\ x \in m + 1 .. Len(n)
            /\ \A i \in m + 2 .. x : n[i] # "/"
            /\ x # Len(n) => n[x + 1] = "/"
        <4>1. (m + 1) + 1 = m + 2
          BY <1>0
        <4> QED BY <1>0, <2>1, <4>1, EndOfLevelFacts
      <3> HIDE DEF x
      <3>2. ~(x < g)
        <4>1. x < g => x # Len(n) /\ x + 1 \in m + 1 .. g
          BY <3>1, <1>0, <1>4
        <4> QED BY <4>1, <3>1, <1>4
      <3>3. ~(g < x)
        <4>1. g < x => g # Len(n) /\ g + 1 \in m + 2 .. x
          BY <3>1, <1>0, <1>4, <1>12
        <4> QED BY <4>1, <3>1, <1>4
      <3>4. x = g
        BY <3>1, <3>2, <3>3, <1>4
      <3> QED BY <3>4 DEF StandsUpTo, x
    <2>5. f[k + 1] = "#" => StandsUpTo(f, k + 1, n, m + 1) = Len(n)
      BY DEF StandsUpTo
    <2>6. W(k + 1, m + 1) <=> W((k + 1) + 1, StandsUpTo(f, k + 1, n, m + 1) + 1)
      BY <1>0, <2>1, <2>3, MatchWalkOn
    <2> HIDE DEF W
    <2> QED BY <2>4, <2>5, <2>6, <1>12
  <1>13. CASE e = k + 1 /\ f[k + 1] = "+" /\ lf = <<"+">>
    <2>1. FitsAt(f, n, c) <=> ln # <<>>
      <3>1. <<"+">> # <<>>
        OBVIOUS
      <3> QED BY <1>13, <3>1 DEF FitsAt, lf, ln
    <2>2. <<"+">> # <<"#">>
      OBVIOUS
    <2> HIDE DEF W
    <2> QED BY <1>6, <1>7, <1>10, <1>11, <1>12, <1>13, <2>1, <2>2 DEF lf
  <1>14. CASE e = k + 1 /\ f[k + 1] = "#" /\ lf = <<"#">> /\ c = LevelCount(f)
    <2>1. e = Len(f)
      BY <1>1, <1>14 DEF IsLevel
    <2>2. W(e + 1, Len(n) + 1)
      <3>1. Len(n) + 1 \in 1 .. Len(n) + 1 /\ Len(n) + 1 > Len(n)
        BY <1>0
      <3> QED BY <1>0, <1>8, <2>1, <3>1, MatchWalkStep
    <2> HIDE DEF W
    <2> QED BY <1>6, <1>10, <1>11, <1>12, <1>14, <2>2 DEF lf, ln
  <1> QED
    BY <1>0, <1>1, <1>9, <1>13, <1>14, LevelShape DEF lf

(* The whole walk, level by level.                                         *)
LEMMA WalkByLevels ==
    ASSUME NEW f \in Seq(Char), NEW n \in Seq(Char), WellFormedFilter(f), Len(n) > 0, n[1] = "/"
    PROVE  iotx_mc_is_topic_matched(f, n) <=> LevelsMatch(f, n)
  <1> DEFINE F == LevelCount(f)
             N == LevelCount(n)
             Before(c) == \A i \in 1 .. c - 1 : FitsAt(f, n, i)
             T == {x \in Nat : x + 1 <= F /\ x + 1 <= N =>
                        (At(f, n, 1) <=> Before(x + 1) /\ At(f, n, x + 1))}
  <1>0. Len(f) \in Nat /\ Len(n) \in Nat /\ Len(f) > 0 /\ f[1] = "/" /\ F \in Nat /\ N \in Nat
    <2>1. f # <<>> /\ f[1] = "/"
      BY DEF WellFormedFilter
    <2>2. Len(f) \in Nat /\ Len(f) > 0 /\ Len(n) \in Nat
      BY <2>1
    <2> QED BY <2>1, <2>2, SlashesFinite
  <1>1. /\ iotx_mc_is_topic_matched(f, n) = At(f, n, 1)
        /\ F > 0 /\ N > 0
    <2>1. SlashOf(f, 1) = 1 /\ 1 \in 1 .. F
      <3>1. 1 \in Slashes(f)
        BY <1>0 DEF Slashes, NextSlash
      <3> QED BY <1>0, <3>1, OrdFirst, SlashOfFacts
    <2>2. SlashOf(n, 1) = 1 /\ 1 \in 1 .. N
      <3>1. 1 \in Slashes(n)
        BY <1>0 DEF Slashes, NextSlash
      <3> QED BY <1>0, <3>1, OrdFirst, SlashOfFacts
    <2>3. iotx_mc_is_topic_matched(f, n) = At(f, n, 1)
      BY ONLY <2>1, <2>2 DEF iotx_mc_is_topic_matched, At
    <2>4. F > 0 /\ N > 0
      <3> HIDE DEF F, N
      <3> QED BY <2>1, <2>2, <1>0
    <2> QED BY <2>3, <2>4
  <1>2. \A c \in 1 .. F : Levels(f)[c] = <<"#">> => c = F
    <2> TAKE c \in 1 .. F
    <2>1. PICK k, e \in 1 .. Len(f) : IsLevel(f, c, k, e)
      BY <1>0, LevelAt
    <2>2. <<"+">> # <<"#">>
      OBVIOUS
    <2> QED BY <2>1, <2>2, LevelShape
  <1>3. \A c \in 1 .. F : c \in 1 .. N =>
           (At(f, n, c) <=> IF Levels(f)[c] = <<"#">>
                            THEN Levels(n)[c] # <<>>
                            ELSE FitsAt(f, n, c) /\ GoesOn(f, n, c))
    BY LevelStep
  <1> HIDE DEF F, N
  <1>4. 0 \in T
    <2>1. Before(1)
      OBVIOUS
    <2> HIDE DEF Before
    <2>2. 0 + 1 = 1
      OBVIOUS
    <2> QED BY <2>1, <2>2
  <1>5. ASSUME NEW x \in Nat, x \in T PROVE x + 1 \in T
    <2> DEFINE c == x + 1
    <2> SUFFICES ASSUME c + 1 <= F, c + 1 <= N
                 PROVE  At(f, n, 1) <=> Before(c + 1) /\ At(f, n, c + 1)
      OBVIOUS
    <2>1. /\ c \in 1 .. F /\ c \in 1 .. N /\ c \in Nat /\ c # F /\ c # N /\ c < F /\ c < N
          /\ x + 1 <= F /\ x + 1 <= N
      BY <1>0
    <2>2. At(f, n, 1) <=> Before(c) /\ At(f, n, c)
      BY <1>5, <2>1
    <2>3. Levels(f)[c] # <<"#">>
      BY <1>2, <2>1
    <2>4. At(f, n, c) <=> FitsAt(f, n, c) /\ GoesOn(f, n, c)
      BY <1>3, <2>1, <2>3
    <2>5. GoesOn(f, n, c) <=> At(f, n, c + 1)
      BY <2>1 DEF GoesOn, F, N
    <2>6. Before(c + 1) <=> Before(c) /\ FitsAt(f, n, c)
      <3>1. \A i \in 1 .. (c + 1) - 1 : i \in 1 .. c - 1 \/ i = c
        BY <2>1
      <3>2. c \in 1 .. (c + 1) - 1 /\ \A i \in 1 .. c - 1 : i \in 1 .. (c + 1) - 1
        BY <2>1
      <3> QED BY <3>1, <3>2
    <2> HIDE DEF c, Before
    <2> QED BY <2>2, <2>4, <2>5, <2>6
  <1>6. Nat \subseteq T
    <2> HIDE DEF T
    <2> QED BY <1>4, <1>5, NatSetInduction
  <1>7. ASSUME NEW c \in 1 .. F, c \in 1 .. N
        PROVE  At(f, n, 1) <=> Before(c) /\ At(f, n, c)
    <2>1. c - 1 \in Nat /\ (c - 1) + 1 = c /\ c <= F /\ c <= N
      BY <1>0, <1>7
    <2>2. c - 1 \in T
      <3> HIDE DEF T
      <3> QED BY <1>6, <2>1
    <2> HIDE DEF Before
    <2> QED BY <2>1, <2>2
  <1>8. LevelsMatch(f, n) <=>
           IF Levels(f)[F] = <<"#">>
           THEN N >= F /\ Levels(n)[F] # <<>> /\ Before(F)
           ELSE N = F /\ \A i \in 1 .. F : FitsAt(f, n, i)
    <2>1. Len(Levels(f)) = F /\ Len(Levels(n)) = N
      BY <1>0, LevelsFacts DEF F, N
    <2> QED BY <2>1 DEF LevelsMatch, FitsAt
  <1>9. (\A i \in 1 .. F : FitsAt(f, n, i)) <=> Before(F) /\ FitsAt(f, n, F)
    <2>1. F \in 1 .. F /\ (\A i \in 1 .. F - 1 : i \in 1 .. F) /\ \A i \in 1 .. F : i = F \/ i \in 1 .. F - 1
      BY <1>0, <1>1
    <2> QED BY <2>1
  <1>10. CASE F <= N
    <2>1. F \in 1 .. F /\ F \in 1 .. N
      BY <1>0, <1>1, <1>10
    <2>2. At(f, n, 1) <=> Before(F) /\ At(f, n, F)
      BY <1>7, <2>1
    <2>3. At(f, n, F) <=> IF Levels(f)[F] = <<"#">>
                          THEN Levels(n)[F] # <<>>
                          ELSE FitsAt(f, n, F) /\ GoesOn(f, n, F)
      BY <1>3, <2>1
    <2>4. GoesOn(f, n, F) <=> N = F
      BY <1>0 DEF GoesOn, F, N
    <2>5. N >= F
      BY <1>0, <1>10
    <2> HIDE DEF Before
    <2> QED BY <1>1, <1>8, <1>9, <2>2, <2>3, <2>4, <2>5
  <1>11. CASE N < F
    <2>1. N \in 1 .. F /\ N \in 1 .. N /\ N # F /\ ~(N >= F)
      BY <1>0, <1>1, <1>11
    <2>2. At(f, n, 1) => At(f, n, N)
      BY <1>7, <2>1
    <2>3. At(f, n, N) => GoesOn(f, n, N)
      BY <1>2, <1>3, <2>1
    <2>4. ~GoesOn(f, n, N)
      BY <1>0, <2>1 DEF GoesOn, F, N
    <2> HIDE DEF Before
    <2> QED BY <1>1, <1>8, <2>1, <2>2, <2>3, <2>4
  <1> QED
    BY <1>0, <1>10, <1>11

(* The walk decides what the levels say, from the first slashes on or by   *)
(* the comparison of whole texts that comes before it.                     *)
LEMMA MatchDecides ==
    ASSUME NEW f \in Seq(Char), NEW n \in Seq(Char), WellFormedFilter(f), WellFormedName(n)
    PROVE  DeliversTo(f, n) <=> LevelsMatch(f, n)
  <1>1. Len(n) \in Nat /\ Len(n) > 0 /\ n[1] = "/"
    <2>1. n # <<>> /\ n[1] = "/"
      BY DEF WellFormedName
    <2> QED BY <2>1
  <1>2. iotx_mc_is_topic_matched(f, n) <=> LevelsMatch(f, n)
    BY <1>1, WalkByLevels
  <1>3. ASSUME n = f PROVE LevelsMatch(f, n)
    <2>1. Len(Levels(n)) = LevelCount(n) /\ LevelCount(n) \in Nat /\ LevelCount(n) > 0
      <3>1. 1 \in Slashes(n)
        BY <1>1 DEF Slashes, NextSlash
      <3> QED BY <1>1, <3>1, LevelsFacts, SlashOfFacts, SlashesFinite
    <2> DEFINE l == Levels(n)[Len(Levels(n))]
    <2>2. l # <<"#">>
      <3>1. ~Wild(l)
        BY <2>1 DEF WellFormedName
      <3>2. Len(<<"#">>) = 1 /\ <<"#">>[1] = "#" /\ 1 \in 1 .. 1
        OBVIOUS
      <3> HIDE DEF l
      <3> QED BY <3>1, <3>2 DEF Wild
    <2> QED BY <1>3, <2>2 DEF LevelsMatch
  <1> QED
    BY <1>2, <1>3 DEF DeliversTo, MQTTPacket_equals

(* The strings that are tried are strings.                                 *)
TopicTypes == filter \in Seq(Char) /\ name \in Seq(Char)

(* The filter and the name that are grown stay sequences of characters.    *)
LEMMA TopicTypesCorrect == TopicSpec => []TopicTypes
  <1>1. TopicInit => TopicTypes
    BY DEF TopicInit, TopicTypes, Char
  <1>2. TopicTypes /\ [TopicNext]_topicVars => TopicTypes'
    <2> SUFFICES ASSUME TopicTypes, [TopicNext]_topicVars PROVE TopicTypes'
      OBVIOUS
    <2>1. \A s \in Seq(Char), c \in Char : Append(s, c) \in Seq(Char)
      OBVIOUS
    <2>2. CASE GrowFilter
      BY <2>1, <2>2 DEF TopicTypes, GrowFilter
    <2>3. CASE GrowName
      BY <2>1, <2>3 DEF TopicTypes, GrowName
    <2>4. CASE UNCHANGED topicVars
      BY <2>4 DEF TopicTypes, topicVars
    <2> QED BY <2>2, <2>3, <2>4 DEF TopicNext
  <1> QED
    BY <1>1, <1>2, PTL DEF TopicSpec

(* iotx_mc_is_topic_matched, for every alphabet and every length: on       *)
(* filters and names that are well formed its pointer walk, with the       *)
(* whole-text comparison of iotx_mc_deliver_message before it, accepts     *)
(* exactly the names whose levels match those of the filter.               *)
THEOREM MatchExact == TopicSpec => []MatchIsByLevels
  <1>1. TopicTypes => MatchIsByLevels
    BY MatchDecides DEF TopicTypes, MatchIsByLevels
  <1> QED
    BY <1>1, TopicTypesCorrect, PTL

(* What infra_strtok finds from position at: the text from first to last.  *)
IsToken(s, at, first, last) ==
    /\ first \in at .. Len(s) /\ last \in first .. Len(s)
    /\ infra_strtok(s, at).token = SubSeq(s, first, last)
    /\ \A i \in at .. first - 1 : s[i] = "/"
    /\ \A i \in first .. last : s[i] # "/"
    /\ last # Len(s) => s[last + 1] = "/"
    /\ infra_strtok(s, at).at = IF last + 1 < Len(s) THEN last + 2 ELSE last + 1

(* A stretch of a text, character by character.                            *)
LEMMA SubSeqFacts ==
    ASSUME NEW C, NEW s \in Seq(C), NEW a \in 1 .. Len(s), NEW b \in a .. Len(s)
    PROVE  /\ SubSeq(s, a, b) \in Seq(C)
           /\ Len(SubSeq(s, a, b)) = b - a + 1
           /\ SubSeq(s, a, b) # <<>>
           /\ \A d \in 1 .. b - a + 1 : SubSeq(s, a, b)[d] = s[a + d - 1]
  <1>1. a \in Int /\ b \in Int /\ a <= b /\ \A i \in a .. b : s[i] \in C
    OBVIOUS
  <1>2. /\ SubSeq(s, a, b) \in Seq(C)
        /\ Len(SubSeq(s, a, b)) = b - a + 1
        /\ \A i \in 1 .. b - a + 1 : SubSeq(s, a, b)[i] = s[a + i - 1]
    BY <1>1, SubSeqProperties
  <1>3. Len(<<>>) = 0 /\ b - a + 1 # 0
    OBVIOUS
  <1> QED
    BY <1>2, <1>3

(* The first character from k on that is no slash: infra_strtok begins a   *)
(* token there ...                                                         *)
LEMMA NextOtherFacts ==
    ASSUME NEW s, Len(s) \in Nat, NEW k \in Nat, NextOther(s, k) # {}
    PROVE  \E e \in k .. Len(s) : /\ e = Least(NextOther(s, k))
                                 /\ s[e] # "/"
                                 /\ \A i \in k .. e - 1 : s[i] = "/"
  <1>1. NextOther(s, k) \in SUBSET Nat
    BY DEF NextOther
  <1>2. PICK e \in NextOther(s, k) : e = Least(NextOther(s, k))
    BY <1>1, LeastIsLeast
  <1>3. \A y \in NextOther(s, k) : e <= y
    BY <1>1, <1>2, LeastIsLeast
  <1>4. e \in k .. Len(s) /\ s[e] # "/"
    BY DEF NextOther
  <1>5. ASSUME NEW i \in k .. e - 1 PROVE s[i] = "/"
    <2>1. i \notin NextOther(s, k)
      BY <1>3, <1>4
    <2>2. i \in k .. Len(s)
      BY <1>4
    <2> QED BY <2>1, <2>2 DEF NextOther
  <1> QED
    BY <1>2, <1>4, <1>5

(* ... and ends it before the first slash.                                 *)
LEMMA NextSlashFacts ==
    ASSUME NEW s, Len(s) \in Nat, NEW k \in Nat, NextSlash(s, k) # {}
    PROVE  \E e \in k .. Len(s) : /\ e = Least(NextSlash(s, k))
                                 /\ s[e] = "/"
                                 /\ \A i \in k .. e - 1 : s[i] # "/"
  <1>1. NextSlash(s, k) \in SUBSET Nat
    BY DEF NextSlash
  <1>2. PICK e \in NextSlash(s, k) : e = Least(NextSlash(s, k))
    BY <1>1, LeastIsLeast
  <1>3. \A y \in NextSlash(s, k) : e <= y
    BY <1>1, <1>2, LeastIsLeast
  <1>4. e \in k .. Len(s) /\ s[e] = "/"
    BY DEF NextSlash
  <1>5. ASSUME NEW i \in k .. e - 1 PROVE s[i] # "/"
    <2>1. i \notin NextSlash(s, k)
      BY <1>3, <1>4
    <2>2. i \in k .. Len(s)
      BY <1>4
    <2> QED BY <2>1, <2>2 DEF NextSlash
  <1> QED
    BY <1>2, <1>4, <1>5

(* What infra_strtok returns: a token, or none when only slashes, or one   *)
(* last character, are left.                                               *)
LEMMA TokenFacts ==
    ASSUME NEW s \in Seq(Char), NEW at \in 1 .. Len(s) + 1
    PROVE  \/ /\ infra_strtok(s, at).token = None
              /\ infra_strtok(s, at).at \in at .. Len(s) + 1
              /\ Len(s) < at + 1 \/ NextOther(s, at) = {}
              /\ \A i \in at .. Len(s) : i < Len(s) => s[i] = "/"
           \/ /\ infra_strtok(s, at).token # None
              /\ \E first, last \in 1 .. Len(s) : IsToken(s, at, first, last)
  <1> DEFINE t == infra_strtok(s, at)
  <1>0. Len(s) \in Nat /\ at \in Nat
    OBVIOUS
  <1>1. CASE Len(s) < at + 1
    <2>1. t = [token |-> None, at |-> at]
      BY <1>1 DEF infra_strtok
    <2> QED BY <2>1, <1>1, <1>0
  <1>2. CASE ~(Len(s) < at + 1) /\ NextOther(s, at) = {}
    <2>1. t = [token |-> None, at |-> Len(s)]
      BY <1>2 DEF infra_strtok
    <2> QED BY <2>1, <1>2, <1>0 DEF NextOther
  <1>3. CASE ~(Len(s) < at + 1) /\ NextOther(s, at) # {}
    <2>1. PICK first \in at .. Len(s) : /\ first = Least(NextOther(s, at))
                                         /\ s[first] # "/"
                                         /\ \A i \in at .. first - 1 : s[i] = "/"
      BY <1>0, <1>3, NextOtherFacts
    <2>2. first \in 1 .. Len(s) /\ first \in Nat
      BY <1>0
    <2>3. t = IF NextSlash(s, first) = {}
              THEN [token |-> SubSeq(s, first, Len(s)), at |-> Len(s) + 1]
              ELSE [token |-> SubSeq(s, first, Least(NextSlash(s, first)) - 1),
                    at |-> IF Least(NextSlash(s, first)) = Len(s)
                           THEN Least(NextSlash(s, first))
                           ELSE Least(NextSlash(s, first)) + 1]
      BY <1>3, <2>1 DEF infra_strtok
    <2>5. CASE NextSlash(s, first) = {}
      <3>1. t = [token |-> SubSeq(s, first, Len(s)), at |-> Len(s) + 1]
        BY <2>3, <2>5
      <3>2. \A i \in first .. Len(s) : s[i] # "/"
        BY <2>5 DEF NextSlash
      <3>3. IsToken(s, at, first, Len(s))
        <4> HIDE DEF t
        <4> QED BY <3>1, <3>2, <2>1, <2>2, <1>0, SMTT(30) DEF IsToken, t
      <3>4. SubSeq(s, first, Len(s)) # None
        <4>1. Len(s) \in first .. Len(s)
          BY <2>2, <1>0
        <4> QED BY <4>1, <2>2, SubSeqFacts DEF None
      <3> QED BY <3>1, <3>3, <3>4, <2>2, <1>0
    <2>6. CASE NextSlash(s, first) # {}
      <3>1. PICK end \in first .. Len(s) : /\ end = Least(NextSlash(s, first))
                                           /\ s[end] = "/"
                                           /\ \A i \in first .. end - 1 : s[i] # "/"
        BY <1>0, <2>2, <2>6, NextSlashFacts
      <3>2. t = [token |-> SubSeq(s, first, end - 1),
                 at |-> IF end = Len(s) THEN end ELSE end + 1]
        BY <2>3, <2>6, <3>1
      <3>3. end # first /\ end - 1 \in first .. Len(s)
        BY <3>1, <2>1, <2>2, <1>0
      <3>4. IsToken(s, at, first, end - 1)
        <4> DEFINE last == end - 1
        <4>1. last \in first .. Len(s) /\ s[last + 1] = "/" /\ end = last + 1
          BY <3>1, <3>3, <1>0, <2>2
        <4>2. t.token = SubSeq(s, first, last)
          BY <3>2
        <4>3. t.at = IF last + 1 < Len(s) THEN last + 2 ELSE last + 1
          BY <3>1, <3>2, <1>0, <2>2
        <4>4. \A i \in first .. last : s[i] # "/"
          BY <3>1
        <4> HIDE DEF last
        <4> QED BY <4>1, <4>2, <4>3, <4>4, <2>1 DEF IsToken
      <3>5. SubSeq(s, first, end - 1) # None
        BY <3>3, <2>2, SubSeqFacts DEF None
      <3> QED BY <3>2, <3>3, <3>4, <3>5, <2>2, <1>0
    <2> QED BY <2>5, <2>6
  <1> QED
    BY <1>1, <1>2, <1>3

(* The tokenizer goes forward with every token.                            *)
LEMMA TokenMoves ==
    ASSUME NEW s \in Seq(Char), NEW at \in 1 .. Len(s) + 1
    PROVE  /\ infra_strtok(s, at).at \in 1 .. Len(s) + 1
           /\ infra_strtok(s, at).token # None => infra_strtok(s, at).at > at
  <1>1. \A first, last \in 1 .. Len(s) : IsToken(s, at, first, last) =>
            infra_strtok(s, at).at \in at + 1 .. Len(s) + 1
    BY DEF IsToken
  <1> QED
    BY <1>1, TokenFacts

(* The equation of the loop of iotx_mc_check_topic over the tokens after   *)
(* the first.                                                              *)
LEMMA RestStep ==
    ASSUME NEW s \in Seq(Char), NEW type, NEW at \in 1 .. Len(s) + 1, NEW mask \in BOOLEAN
    PROVE  RestAccepted(s, type)[<<at, mask>>] =
              (\/ infra_strtok(s, at).token = None
               \/ /\ ~mask
                  /\ iotx_mc_check_rule(infra_strtok(s, at).token, type)
                  /\ RestAccepted(s, type)[<<infra_strtok(s, at).at,
                                             infra_strtok(s, at).token[1] = "#">>])
  <1> DEFINE S == (1 .. Len(s) + 1) \X BOOLEAN
             tok(x) == infra_strtok(s, x[1])
             A == [x \in S |-> tok(x).token = None]
             B == [x \in S |-> ~x[2] /\ iotx_mc_check_rule(tok(x).token, type)]
             nxt == [x \in S |-> <<tok(x).at, tok(x).token[1] = "#">>]
             W(g) == [x \in S |-> \/ tok(x).token = None
                                  \/ /\ ~x[2]
                                     /\ iotx_mc_check_rule(tok(x).token, type)
                                     /\ g[<<tok(x).at, tok(x).token[1] = "#">>]]
  <1>1. PICK g \in [S -> BOOLEAN] : Recurs(g, S, A, B, nxt)
    <2>1. A \in [S -> BOOLEAN] /\ B \in [S -> BOOLEAN]
      BY DEF iotx_mc_check_rule
    <2>2. nxt \in [S -> S]
      BY TokenMoves
    <2> HIDE DEF A, B, nxt, S
    <2> QED BY <2>1, <2>2, TailRecursion
  <1>2. g = W(g)
    <2>1. ASSUME NEW x \in S PROVE g[x] = W(g)[x]
      <3> HIDE DEF tok, S
      <3> QED BY <1>1, <2>1 DEF Recurs
    <2> HIDE DEF tok, S
    <2> QED BY <2>1
  <1>3. RestAccepted(s, type) = W(RestAccepted(s, type))
    <2>1. RestAccepted(s, type) = CHOOSE h : h = W(h)
      BY DEF RestAccepted
    <2> HIDE DEF W
    <2> QED BY <1>2, <2>1
  <1>4. <<at, mask>> \in S
    OBVIOUS
  <1>5. RestAccepted(s, type)[<<at, mask>>] = W(RestAccepted(s, type))[<<at, mask>>]
    <2> HIDE DEF W
    <2> QED BY <1>3
  <1> QED
    BY <1>4, <1>5

(* The wildcard characters.                                                *)
Wildcard(c) == c \in {"+", "#"}

(* A character that has a level for itself, and the same of every wildcard *)
(* from a position on.                                                     *)
Alone(s, i) == i > 1 /\ s[i - 1] = "/" /\ (i < Len(s) => s[i + 1] = "/")
AloneFrom(s, at) == \A i \in at .. Len(s) : Wildcard(s[i]) => Alone(s, i)
(* The last character, after a slash, and the same of every unprintable    *)
(* character from a position on: infra_strtok has no token for it.         *)
Unseen(s, i) == i = Len(s) /\ i > 1 /\ s[i - 1] = "/"
UnseenFrom(s, at) == \A i \in at .. Len(s) : s[i] \in Unprintable => Unseen(s, i)
(* Where a token may begin.                                                *)
Start(s, at) == (at <= Len(s) /\ s[at] # "/") => (at > 1 /\ s[at - 1] = "/")

(* iotx_mc_check_rule accepts a printable token without wildcards, and in  *)
(* a filter the token that is one wildcard.                                *)
LEMMA RuleFacts ==
    ASSUME NEW s \in Seq(Char), NEW at \in 1 .. Len(s) + 1, NEW type,
           NEW first \in 1 .. Len(s), NEW last \in 1 .. Len(s),
           IsToken(s, at, first, last)
    PROVE  iotx_mc_check_rule(infra_strtok(s, at).token, type) <=>
              \A i \in first .. last :
                  /\ Wildcard(s[i]) => type = "TOPIC_FILTER_TYPE" /\ first = last
                  /\ s[i] \notin Unprintable
  <1> DEFINE token == SubSeq(s, first, last)
  <1>0. Len(s) \in Nat /\ first <= last /\ infra_strtok(s, at).token = token /\ last \in first .. Len(s)
    BY DEF IsToken
  <1>1. /\ token # None
        /\ Len(token) = last - first + 1
        /\ \A d \in 1 .. last - first + 1 : token[d] = s[first + d - 1]
    BY <1>0, SubSeqFacts DEF None
  <1>2. \A i \in first .. last : i - first + 1 \in 1 .. last - first + 1 /\ s[i] = token[i - first + 1]
    <2> TAKE i \in first .. last
    <2> DEFINE d == i - first + 1
    <2>1. d \in 1 .. last - first + 1 /\ first + d - 1 = i
      BY <1>0
    <2> HIDE DEF d, token
    <2>2. s[i] = token[d]
      BY <1>1, <2>1
    <2> QED BY <2>1, <2>2 DEF d
  <1>3. \A d \in 1 .. last - first + 1 : first + d - 1 \in first .. last
    BY <1>0
  <1>4. Len(token) = 1 <=> first = last
    BY <1>0, <1>1
  <1> HIDE DEF token
  <1>5. iotx_mc_check_rule(token, type) <=>
            \A d \in 1 .. last - first + 1 :
                /\ Wildcard(token[d]) => type = "TOPIC_FILTER_TYPE" /\ first = last
                /\ token[d] \notin Unprintable
    BY <1>1, <1>4 DEF iotx_mc_check_rule, Wildcard
  <1>6. (\A d \in 1 .. last - first + 1 :
            /\ Wildcard(token[d]) => type = "TOPIC_FILTER_TYPE" /\ first = last
            /\ token[d] \notin Unprintable)
        <=> \A i \in first .. last :
                /\ Wildcard(s[i]) => type = "TOPIC_FILTER_TYPE" /\ first = last
                /\ s[i] \notin Unprintable
    BY <1>1, <1>2, <1>3
  <1> QED
    BY <1>0, <1>5, <1>6

(* A token that passes has its wildcards alone in their levels, and can be *)
(* printed.                                                                *)
LEMMA TokenAlone ==
    ASSUME NEW s \in Seq(Char), NEW at \in 1 .. Len(s) + 1, NEW type,
           infra_strtok(s, at).token # None,
           Start(s, at),
           iotx_mc_check_rule(infra_strtok(s, at).token, type)
    PROVE  /\ Start(s, infra_strtok(s, at).at)
           /\ AloneFrom(s, infra_strtok(s, at).at) => AloneFrom(s, at)
           /\ UnseenFrom(s, infra_strtok(s, at).at) => UnseenFrom(s, at)
  <1> DEFINE to == infra_strtok(s, at).at
  <1>0. Len(s) \in Nat /\ at \in Nat
    OBVIOUS
  <1>1. PICK first, last \in 1 .. Len(s) : IsToken(s, at, first, last)
    BY TokenFacts
  <1>2. /\ first \in at .. Len(s) /\ last \in first .. Len(s)
        /\ \A i \in at .. first - 1 : s[i] = "/"
        /\ last # Len(s) => s[last + 1] = "/"
        /\ to = IF last + 1 < Len(s) THEN last + 2 ELSE last + 1
    BY <1>1 DEF IsToken
  <1>3. \A i \in first .. last : (Wildcard(s[i]) => first = last) /\ s[i] \notin Unprintable
    BY <1>1, RuleFacts
  <1>3a. s[first] # "/"
    BY <1>1, <1>2 DEF IsToken
  <1>4. first > 1 /\ s[first - 1] = "/"
    BY <1>0, <1>2, <1>3a DEF Start
  <1> HIDE DEF to
  <1>5. Start(s, to)
    BY <1>0, <1>2 DEF Start
  <1>6. ASSUME AloneFrom(s, to), NEW i \in at .. Len(s), Wildcard(s[i])
        PROVE  Alone(s, i)
    <2>0. s[i] # "/" /\ i \in Nat
      BY <1>6, <1>0 DEF Wildcard
    <2>1. CASE i \in first .. last
      BY <2>1, <1>6, <1>3, <1>4, <1>2, <1>0 DEF Alone
    <2>2. CASE i > last
      <3>1. i \in to .. Len(s)
        BY <2>0, <2>2, <1>2, <1>0
      <3> QED BY <3>1, <1>6 DEF AloneFrom
    <2>3. CASE i < first
      BY <2>0, <2>3, <1>2, <1>0
    <2> QED BY <2>1, <2>2, <2>3, <1>2, <1>0
  <1>7. ASSUME UnseenFrom(s, to), NEW i \in at .. Len(s), s[i] \in Unprintable
        PROVE  Unseen(s, i)
    <2>0. s[i] # "/" /\ i \in Nat
      BY <1>7, <1>0, TopicAssumption
    <2>1. i \notin first .. last /\ ~(i < first)
      BY <2>0, <1>7, <1>3, <1>2, <1>0
    <2>2. i \in to .. Len(s)
      BY <2>0, <2>1, <1>2, <1>0
    <2> QED BY <2>2, <1>7 DEF UnseenFrom
  <1> QED
    BY <1>5, <1>6, <1>7 DEF AloneFrom, UnseenFrom, to

(* So have the tokens that the loop accepts, one after the other.          *)
LEMMA RestAlone ==
    ASSUME NEW s \in Seq(Char), NEW type
    PROVE  \A at \in 1 .. Len(s) + 1, mask \in BOOLEAN :
              Start(s, at) /\ RestAccepted(s, type)[<<at, mask>>] =>
                  AloneFrom(s, at) /\ UnseenFrom(s, at)
  <1> DEFINE P(at) == \A mask \in BOOLEAN :
                          Start(s, at) /\ RestAccepted(s, type)[<<at, mask>>] =>
                              AloneFrom(s, at) /\ UnseenFrom(s, at)
             T == {d \in Nat : \A at \in 1 .. Len(s) + 1 : Len(s) + 1 - at <= d => P(at)}
  <1>0. Len(s) \in Nat
    OBVIOUS
  <1>1. ASSUME NEW at \in 1 .. Len(s) + 1,
               \A to \in 1 .. Len(s) + 1 : to > at => P(to)
        PROVE  P(at)
    <2> SUFFICES ASSUME NEW mask \in BOOLEAN, Start(s, at), RestAccepted(s, type)[<<at, mask>>]
                 PROVE  AloneFrom(s, at) /\ UnseenFrom(s, at)
      OBVIOUS
    <2> DEFINE t == infra_strtok(s, at)
    <2>1. CASE t.token = None
      <3>1. \A i \in at .. Len(s) : i < Len(s) => s[i] = "/"
        BY <2>1, TokenFacts
      <3>2. AloneFrom(s, at)
        BY <3>1, <1>0 DEF AloneFrom, Alone, Wildcard, Start
      <3>3. "/" \notin Unprintable
        BY TopicAssumption
      <3>4. UnseenFrom(s, at)
        BY <3>1, <3>3, <1>0 DEF UnseenFrom, Unseen, Start
      <3> QED BY <3>2, <3>4
    <2>2. CASE t.token # None
      <3> DEFINE hash == t.token[1] = "#"
      <3>1. /\ iotx_mc_check_rule(t.token, type)
            /\ RestAccepted(s, type)[<<t.at, hash>>]
        BY <2>2, RestStep
      <3>2. t.at \in 1 .. Len(s) + 1 /\ t.at > at
        BY <2>2, TokenMoves
      <3>3. /\ Start(s, t.at)
            /\ AloneFrom(s, t.at) => AloneFrom(s, at)
            /\ UnseenFrom(s, t.at) => UnseenFrom(s, at)
        BY <2>2, <3>1, TokenAlone
      <3>4. hash \in BOOLEAN
        OBVIOUS
      <3>5. P(t.at)
        BY <1>1, <3>2
      <3> HIDE DEF t, hash
      <3> QED BY <3>1, <3>3, <3>4, <3>5
    <2> QED BY <2>1, <2>2
  <1> HIDE DEF P
  <1>2. 0 \in T
    BY <1>0, <1>1
  <1>3. ASSUME NEW d \in Nat, d \in T PROVE d + 1 \in T
    <2> SUFFICES ASSUME NEW at \in 1 .. Len(s) + 1, Len(s) + 1 - at <= d + 1
                 PROVE  P(at)
      OBVIOUS
    <2>1. \A to \in 1 .. Len(s) + 1 : to > at => Len(s) + 1 - to <= d
      BY <1>0
    <2> QED BY <1>1, <1>3, <2>1
  <1>4. Nat \subseteq T
    <2> HIDE DEF T
    <2> QED BY <1>2, <1>3, NatSetInduction
  <1>5. ASSUME NEW at \in 1 .. Len(s) + 1 PROVE P(at)
    <2> DEFINE d == Len(s) + 1 - at
    <2>1. d \in Nat /\ d <= d
      BY <1>0
    <2>2. d \in T
      BY <1>4, <2>1
    <2> QED BY <2>1, <2>2
  <1> QED
    BY <1>5 DEF P

(* A text whose tokens iotx_mc_check_topic accepts has its wildcards in    *)
(* levels of their own and nothing unprintable that was seen.              *)
LEMMA CheckedAlone ==
    ASSUME NEW s \in Seq(Char), NEW type, s # <<>>, s[1] = "/", TokensAccepted(s, type)
    PROVE  AloneFrom(s, 1) /\ UnseenFrom(s, 1)
  <1> DEFINE t == infra_strtok(s, 1)
  <1>1. /\ s # <<>> /\ s[1] = "/"
        /\ iotx_mc_check_rule(t.token, type)
        /\ RestAccepted(s, type)[<<t.at, FALSE>>]
    BY DEF TokensAccepted
  <1>2. Len(s) \in Nat /\ Len(s) > 0 /\ 1 \in 1 .. Len(s) + 1
    BY <1>1
  <1>3. t.token # None /\ Start(s, 1)
    BY <1>1 DEF iotx_mc_check_rule, Start
  <1>4. /\ Start(s, t.at)
        /\ AloneFrom(s, t.at) => AloneFrom(s, 1)
        /\ UnseenFrom(s, t.at) => UnseenFrom(s, 1)
    BY <1>1, <1>2, <1>3, TokenAlone
  <1>5. t.at \in 1 .. Len(s) + 1
    BY <1>2, TokenMoves
  <1> HIDE DEF t
  <1> QED
    BY <1>1, <1>2, <1>4, <1>5, RestAlone

(* The copy that iotx_mc_check_topic cuts into tokens is a text too, and   *)
(* begins as the topic does unless it has no room for a character.         *)
LEMMA CopyFacts ==
    ASSUME NEW s \in Seq(Char)
    PROVE  /\ topicString(s) \in Seq(Char)
           /\ topicString(s) # <<>> => s # <<>> /\ topicString(s)[1] = s[1]
           /\ Len(s) < CONFIG_MQTT_TOPIC_MAXLEN => topicString(s) = s
  <1> DEFINE last == CONFIG_MQTT_TOPIC_MAXLEN - 1
  <1>0. Len(s) \in Nat /\ last \in Nat
    BY TopicAssumption
  <1>1. CASE Len(s) < CONFIG_MQTT_TOPIC_MAXLEN
    BY <1>1 DEF topicString
  <1>2. CASE ~(Len(s) < CONFIG_MQTT_TOPIC_MAXLEN)
    <2>1. topicString(s) = SubSeq(s, 1, last)
      BY <1>2 DEF topicString
    <2>2. last <= Len(s)
      BY <1>0, <1>2, TopicAssumption
    <2> HIDE DEF last
    <2>3. SubSeq(s, 1, last) \in Seq(Char) /\ Len(SubSeq(s, 1, last)) = last
      BY <1>0, <2>2
    <2>4. last > 0 => SubSeq(s, 1, last)[1] = s[1] /\ s # <<>>
      BY <1>0, <2>2
    <2>5. last = 0 => SubSeq(s, 1, last) = <<>>
      BY <2>3
    <2> QED BY <1>0, <1>2, <2>1, <2>3, <2>4, <2>5
  <1> QED
    BY <1>1, <1>2

(* MQTTUnsubscribe takes a filter away that ends with a wildcard, its only *)
(* '#' if it is one.                                                       *)
LEMMA WildRemoved ==
    ASSUME NEW s \in Seq(Char), iotx_mc_check_topic(s, "TOPIC_FILTER_TYPE"),
           Len(s) < CONFIG_MQTT_TOPIC_MAXLEN,
           Wildcard(s[Len(s)]), \A i \in 1 .. Len(s) - 1 : s[i] # "#"
    PROVE  UnsubscribeRemoves(s, s)
  <1> DEFINE n == Append(s, NUL)
             P(i) == MatchWalk(s, n)[<<i, i>>]
  <1>0. /\ Len(s) \in Nat /\ Len(s) > 0 /\ AloneFrom(s, 1)
        /\ Len(n) = Len(s) + 1 /\ n[Len(s) + 1] = NUL
        /\ \A i \in 1 .. Len(s) : n[i] = s[i]
    <2>1. s # <<>> /\ s[1] = "/" /\ TokensAccepted(s, "TOPIC_FILTER_TYPE")
      BY CopyFacts DEF iotx_mc_check_topic
    <2>2. AloneFrom(s, 1)
      BY <2>1, CheckedAlone
    <2> QED BY <2>1, <2>2
  <1> HIDE DEF n
  <1>1. ASSUME NEW i \in 1 .. Len(s) PROVE Meets(s[i], n[i])
    BY <1>0 DEF Meets
  <1>2. P(Len(s))
    <2>1. StandsUpTo(s, Len(s), n, Len(s)) = Len(s) + 1
      <3>1. CASE s[Len(s)] = "#"
        BY <3>1, <1>0 DEF StandsUpTo
      <3>2. CASE s[Len(s)] = "+"
        <4>1. NextSlash(n, Len(s) + 1) = {}
          BY <1>0 DEF NextSlash, NUL
        <4> QED BY <3>2, <4>1, <1>0 DEF StandsUpTo, EndOfLevel
      <3> QED BY <3>1, <3>2 DEF Wildcard
    <2>2. MatchWalk(s, n)[<<Len(s) + 1, Len(n) + 1>>]
      <3>1. Len(n) \in Nat /\ Len(s) + 1 \in 1 .. Len(s) + 1 /\ Len(n) + 1 \in 1 .. Len(n) + 1 /\ Len(s) + 1 > Len(s)
        BY <1>0
      <3> QED BY <1>0, <3>1, MatchWalkStep
    <2>3. Len(n) \in Nat /\ Len(s) \in 1 .. Len(s) /\ Len(s) \in 1 .. Len(n)
      BY <1>0
    <2>4. MatchWalk(s, n)[<<Len(s), Len(s)>>] =
            (Meets(s[Len(s)], n[Len(s)]) /\ MatchWalk(s, n)[<<Len(s) + 1, Len(s) + 1 + 1>>])
      BY <1>0, <2>1, <2>3, MatchWalkOn
    <2> QED BY <1>0, <1>1, <2>2, <2>3, <2>4
  <1>3. ASSUME NEW i \in 1 .. Len(s) - 1, P(i + 1) PROVE P(i)
    <2>1. StandsUpTo(s, i, n, i) = i
      <3>1. CASE s[i] = "+"
        <4>1. s[i + 1] = "/" /\ n[i + 1] = "/" /\ i + 1 \in 1 .. Len(n)
          BY <3>1, <1>0 DEF AloneFrom, Alone, Wildcard
        <4>2. i + 1 \in NextSlash(n, i + 1) /\ NextSlash(n, i + 1) \in SUBSET Nat
              /\ \A y \in NextSlash(n, i + 1) : i + 1 <= y
          BY <4>1, <1>0 DEF NextSlash
        <4>3. Least(NextSlash(n, i + 1)) = i + 1
          BY <4>2 DEF Least
        <4> QED BY <3>1, <4>2, <4>3, <1>0 DEF StandsUpTo, EndOfLevel
      <3>2. CASE s[i] # "+"
        BY <3>2, <1>0 DEF StandsUpTo
      <3> QED BY <3>1, <3>2
    <2>2. Len(n) \in Nat /\ i \in 1 .. Len(s) /\ i \in 1 .. Len(n)
      BY <1>0
    <2>3. MatchWalk(s, n)[<<i, i>>] =
            (Meets(s[i], n[i]) /\ MatchWalk(s, n)[<<i + 1, StandsUpTo(s, i, n, i) + 1>>])
      BY ONLY <2>1, <2>2, <1>0, MatchWalkOn
    <2> QED BY <1>1, <1>3, <2>1, <2>2, <2>3
  <1> DEFINE T == {d \in Nat : d < Len(s) => P(Len(s) - d)}
  <1> HIDE DEF P
  <1>4. 0 \in T
    BY <1>0, <1>2
  <1>5. ASSUME NEW d \in Nat, d \in T PROVE d + 1 \in T
    <2> SUFFICES ASSUME d + 1 < Len(s) PROVE P(Len(s) - (d + 1))
      OBVIOUS
    <2> DEFINE i == Len(s) - (d + 1)
    <2>1. i \in 1 .. Len(s) - 1 /\ i + 1 = Len(s) - d /\ d < Len(s)
      BY <1>0
    <2>2. P(i + 1)
      BY <1>5, <2>1
    <2> HIDE DEF i
    <2>3. P(i)
      BY <1>3, <2>1, <2>2
    <2> QED BY <2>3 DEF i
  <1>6. Nat \subseteq T
    <2> HIDE DEF T
    <2> QED BY <1>4, <1>5, NatSetInduction
  <1>7. P(1)
    <2>1. Len(s) - 1 \in Nat /\ Len(s) - 1 < Len(s) /\ Len(s) - (Len(s) - 1) = 1
      BY <1>0
    <2> QED BY <1>6, <2>1
  <1> QED
    BY <1>7 DEF UnsubscribeRemoves, iotx_mc_is_topic_matched, P, n

(* Every character but a slash is in a level.                              *)
LEMMA InLevel ==
    ASSUME NEW C, NEW s \in Seq(C), Len(s) > 0, s[1] = "/", NEW i \in 1 .. Len(s), s[i] # "/"
    PROVE  \E c \in 1 .. LevelCount(s) : \E k, e \in 1 .. Len(s) :
              IsLevel(s, c, k, e) /\ i \in k + 1 .. e
  <1> DEFINE In(x) == \E c \in 1 .. LevelCount(s) : \E k, e \in 1 .. Len(s) :
                         IsLevel(s, c, k, e) /\ x \in k .. e
             T == {x \in Nat : x + 1 <= Len(s) => In(x + 1)}
  <1>0. Len(s) \in Nat /\ LevelCount(s) \in Nat
    BY SlashesFinite
  <1>1. 0 \in T
    <2>1. 1 \in Slashes(s)
      BY DEF Slashes, NextSlash
    <2>2. 1 \in 1 .. LevelCount(s) /\ SlashOf(s, 1) = 1
      BY <1>0, <2>1, OrdFirst, SlashOfFacts
    <2>3. PICK k, e \in 1 .. Len(s) : IsLevel(s, 1, k, e)
      BY <2>2, LevelAt
    <2>4. k = 1 /\ 1 \in k .. e
      BY <2>2, <2>3 DEF IsLevel
    <2>5. In(0 + 1)
      BY <2>2, <2>3, <2>4
    <2> HIDE DEF In
    <2> QED BY <2>5
  <1>2. ASSUME NEW x \in Nat, x \in T PROVE x + 1 \in T
    <2> SUFFICES ASSUME x + 2 <= Len(s) PROVE In(x + 2)
      <3> HIDE DEF In
      <3>1. (x + 1) + 1 = x + 2 /\ x + 1 \in Nat
        OBVIOUS
      <3> QED BY <3>1
    <2>1. In(x + 1)
      <3> HIDE DEF In
      <3> QED BY <1>0, <1>2
    <2>2. PICK c \in 1 .. LevelCount(s) : \E k, e \in 1 .. Len(s) :
                                             IsLevel(s, c, k, e) /\ x + 1 \in k .. e
      BY <2>1
    <2>3. PICK k, e \in 1 .. Len(s) : IsLevel(s, c, k, e) /\ x + 1 \in k .. e
      BY <2>2
    <2>4. CASE x + 2 <= e
      <3>1. x + 2 \in k .. e
        BY <2>3, <2>4
      <3> QED BY <2>3, <3>1
    <2>5. CASE ~(x + 2 <= e)
      <3>1. e = x + 1 /\ e # Len(s)
        BY <1>0, <2>3, <2>5
      <3>2. c # LevelCount(s)
        BY <2>3, <3>1 DEF IsLevel
      <3>3. c + 1 \in 1 .. LevelCount(s) /\ SlashOf(s, c + 1) = e + 1
        BY <1>0, <2>3, <3>2 DEF IsLevel
      <3>4. PICK l, g \in 1 .. Len(s) : IsLevel(s, c + 1, l, g)
        BY <3>3, LevelAt
      <3>5. l = x + 2 /\ g \in l .. Len(s)
        BY <3>1, <3>3, <3>4 DEF IsLevel
      <3>6. x + 2 \in l .. g
        BY <3>5
      <3> QED BY <3>3, <3>4, <3>6
    <2> QED BY <2>4, <2>5
  <1>3. Nat \subseteq T
    <2> HIDE DEF T
    <2> QED BY <1>1, <1>2, NatSetInduction
  <1>4. In(i)
    <2>1. i - 1 \in Nat /\ (i - 1) + 1 = i /\ i <= Len(s)
      BY <1>0
    <2>2. i - 1 \in T
      <3> HIDE DEF T
      <3> QED BY <1>3, <2>1
    <2> HIDE DEF In
    <2> QED BY <2>1, <2>2
  <1>5. PICK c \in 1 .. LevelCount(s) : \E k, e \in 1 .. Len(s) : IsLevel(s, c, k, e) /\ i \in k .. e
    BY <1>4
  <1>6. PICK k, e \in 1 .. Len(s) : IsLevel(s, c, k, e) /\ i \in k .. e
    BY <1>5
  <1>7. i # k
    BY <1>6 DEF IsLevel
  <1>8. i \in k + 1 .. e
    BY <1>6, <1>7
  <1> QED
    BY <1>6, <1>8

(* The wildcards of a well-formed filter, character by character.          *)
LEMMA WellFormedAlone ==
    ASSUME NEW s \in Seq(Char), WellFormedFilter(s)
    PROVE  AloneFrom(s, 1) /\ \A i \in 1 .. Len(s) : s[i] = "#" => i = Len(s)
  <1>0. Len(s) \in Nat /\ Len(s) > 0 /\ s[1] = "/"
    <2>1. s # <<>> /\ s[1] = "/"
      BY DEF WellFormedFilter
    <2> QED BY <2>1
  <1>1. ASSUME NEW i \in 1 .. Len(s), Wildcard(s[i])
        PROVE  Alone(s, i) /\ (s[i] = "#" => i = Len(s))
    <2>1. s[i] # "/"
      BY <1>1 DEF Wildcard
    <2>2. PICK c \in 1 .. LevelCount(s) : \E k, e \in 1 .. Len(s) :
                                             IsLevel(s, c, k, e) /\ i \in k + 1 .. e
      BY <1>0, <2>1, InLevel
    <2>3. PICK k, e \in 1 .. Len(s) : IsLevel(s, c, k, e) /\ i \in k + 1 .. e
      BY <2>2
    <2>4. e = k + 1 /\ (s[k + 1] = "#" => c = LevelCount(s))
      <3>1. s[i] \in {"/", "+", "#"}
        BY <1>1 DEF Wildcard
      <3>2. "+" # "#"
        OBVIOUS
      <3> QED BY <2>3, <3>1, <3>2, LevelShape
    <2>5. i = k + 1
      BY <2>3, <2>4
    <2>6. /\ k \in 1 .. Len(s) /\ s[k] = "/"
          /\ c = LevelCount(s) => e = Len(s)
          /\ c # LevelCount(s) => s[e + 1] = "/"
      BY <2>3 DEF IsLevel
    <2>7. i > 1 /\ i - 1 = k
      BY <2>5, <2>6
    <2> QED BY <2>4, <2>5, <2>6, <2>7 DEF Alone
  <1>2. AloneFrom(s, 1)
    BY <1>1 DEF AloneFrom
  <1> QED
    BY <1>1, <1>2 DEF Wildcard

(* Such a filter passes: no token of it breaks the rule, and what comes    *)
(* after a '#' is the end.                                                 *)
LEMMA WellFormedRule ==
    ASSUME NEW s \in Seq(Char), AloneFrom(s, 1), Printable(s), NEW at \in 1 .. Len(s) + 1,
           infra_strtok(s, at).token # None
    PROVE  iotx_mc_check_rule(infra_strtok(s, at).token, "TOPIC_FILTER_TYPE")
  <1>0. Len(s) \in Nat
    OBVIOUS
  <1>1. PICK first, last \in 1 .. Len(s) : IsToken(s, at, first, last)
    BY TokenFacts
  <1>2. /\ last \in first .. Len(s)
        /\ \A i \in first .. last : s[i] # "/"
    BY <1>1 DEF IsToken
  <1>3. ASSUME NEW i \in first .. last, Wildcard(s[i]) PROVE first = last
    <2>1. i \in 1 .. Len(s)
      BY <1>0, <1>2
    <2>2. i > 1 /\ s[i - 1] = "/" /\ (i < Len(s) => s[i + 1] = "/")
      BY <1>3, <2>1 DEF AloneFrom, Alone
    <2>3. i - 1 \notin first .. last
      BY <1>2, <2>2
    <2>4. i = first
      BY <2>3, <1>0
    <2>5. i < last => i < Len(s) /\ i + 1 \in first .. last
      BY <1>0, <1>2
    <2>6. ~(i < last)
      BY <2>2, <2>5, <1>2
    <2> QED BY <2>4, <2>6, <1>0
  <1>4. \A i \in first .. last :
           /\ Wildcard(s[i]) => "TOPIC_FILTER_TYPE" = "TOPIC_FILTER_TYPE" /\ first = last
           /\ s[i] \notin Unprintable
    BY <1>0, <1>2, <1>3 DEF Printable
  <1> QED
    BY <1>1, <1>4, RuleFacts

(* The loop accepts all tokens of a filter whose wildcards are alone, with *)
(* '#' only at the end.                                                    *)
LEMMA WellFormedRest ==
    ASSUME NEW s \in Seq(Char), AloneFrom(s, 1), Printable(s),
           \A i \in 1 .. Len(s) : s[i] = "#" => i = Len(s),
           NEW at \in 1 .. Len(s) + 1
    PROVE  RestAccepted(s, "TOPIC_FILTER_TYPE")[<<at, FALSE>>]
  <1> DEFINE type == "TOPIC_FILTER_TYPE"
             Ok(x, mask) == RestAccepted(s, type)[<<x, mask>>]
             Fine(x) == Ok(x, FALSE)
             T == {y \in Nat : \A x \in 1 .. Len(s) + 1 : Len(s) + 1 - x <= y => Fine(x)}
  <1>0. Len(s) \in Nat
    OBVIOUS
  <1>1. ASSUME NEW mask \in BOOLEAN PROVE Ok(Len(s) + 1, mask)
    <2>1. Len(s) + 1 \in 1 .. Len(s) + 1 /\ Len(s) < (Len(s) + 1) + 1
      BY <1>0
    <2>2. infra_strtok(s, Len(s) + 1).token = None
      BY <2>1 DEF infra_strtok
    <2> QED BY <2>1, <2>2, RestStep
  <1>2. ASSUME NEW x \in 1 .. Len(s) + 1,
               \A z \in 1 .. Len(s) + 1 : z > x => Fine(z)
        PROVE  Fine(x)
    <2> DEFINE t == infra_strtok(s, x)
    <2>1. CASE t.token = None
      BY <2>1, RestStep
    <2>2. CASE t.token # None
      <3>1. iotx_mc_check_rule(t.token, type)
        BY <2>2, WellFormedRule
      <3>2. t.at \in 1 .. Len(s) + 1 /\ t.at > x
        BY <2>2, TokenMoves
      <3>3. Ok(t.at, t.token[1] = "#")
        <4>1. CASE t.token[1] = "#"
          <5>1. PICK first, last \in 1 .. Len(s) : IsToken(s, x, first, last)
            BY <2>2, TokenFacts
          <5>2. t.token = SubSeq(s, first, last) /\ last \in first .. Len(s)
            BY <5>1 DEF IsToken
          <5>3. t.token[1] = s[first]
            <6>1. 1 \in 1 .. last - first + 1 /\ first + 1 - 1 = first
              BY <5>2
            <6> QED BY <5>2, <6>1, SubSeqFacts
          <5>4. first = Len(s) /\ last = Len(s)
            BY <4>1, <5>2, <5>3, <1>0
          <5>5. t.at = Len(s) + 1
            BY <5>1, <5>4, <1>0 DEF IsToken
          <5> HIDE DEF t, Ok
          <5> QED BY <4>1, <5>5, <1>1
        <4>2. CASE t.token[1] # "#"
          <5>1. (t.token[1] = "#") = FALSE
            BY <4>2
          <5> HIDE DEF t, Ok
          <5> QED BY <5>1, <1>2, <3>2
        <4> QED BY <4>1, <4>2
      <3>4. Ok(x, FALSE) = (\/ t.token = None
                            \/ /\ ~FALSE
                               /\ iotx_mc_check_rule(t.token, type)
                               /\ Ok(t.at, t.token[1] = "#"))
        BY RestStep
      <3> HIDE DEF Ok, t
      <3> QED BY <3>1, <3>3, <3>4
    <2> QED BY <2>1, <2>2
  <1>2a. Fine(Len(s) + 1)
    BY <1>1
  <1> HIDE DEF Ok, Fine
  <1>3. 0 \in T
    <2>1. \A x \in 1 .. Len(s) + 1 : Len(s) + 1 - x <= 0 => x = Len(s) + 1
      BY <1>0
    <2> QED BY <1>2a, <2>1
  <1>4. ASSUME NEW y \in Nat, y \in T PROVE y + 1 \in T
    <2> SUFFICES ASSUME NEW x \in 1 .. Len(s) + 1, Len(s) + 1 - x <= y + 1 PROVE Fine(x)
      OBVIOUS
    <2>1. \A z \in 1 .. Len(s) + 1 : z > x => Len(s) + 1 - z <= y
      BY <1>0
    <2> QED BY <1>2, <1>4, <2>1
  <1>5. Nat \subseteq T
    <2> HIDE DEF T
    <2> QED BY <1>3, <1>4, NatSetInduction
  <1>6. Len(s) + 1 - at \in Nat /\ Len(s) + 1 - at <= Len(s) + 1 - at
    BY <1>0
  <1> QED
    BY <1>5, <1>6 DEF Ok, Fine

(* ... and so does iotx_mc_check_topic, which wants one token at least.    *)
LEMMA WellFormedPasses ==
    ASSUME NEW s \in Seq(Char), WellFormedFilter(s), Printable(s),
           NEW c \in 1 .. Len(Levels(s)), Levels(s)[c] # <<>>
    PROVE  s # <<>> /\ s[1] = "/" /\ TokensAccepted(s, "TOPIC_FILTER_TYPE")
  <1>0. s # <<>> /\ Len(s) \in Nat /\ Len(s) > 0 /\ s[1] = "/" /\ 1 \in 1 .. Len(s) + 1
    <2>1. s # <<>> /\ s[1] = "/"
      BY DEF WellFormedFilter
    <2> QED BY <2>1
  <1>1. c \in 1 .. LevelCount(s) /\ Levels(s)[c] \in Seq(Char)
    BY <1>0, LevelsFacts
  <1>2. PICK k, e \in 1 .. Len(s) : IsLevel(s, c, k, e)
    BY <1>0, <1>1, LevelAt
  <1>3. k + 1 \in 1 .. Len(s) /\ s[k + 1] # "/" /\ Len(s) >= 2
    <2>1. Len(Levels(s)[c]) # 0
      BY <1>1
    <2>2. /\ Len(Levels(s)[c]) = e - k /\ e \in k .. Len(s)
          /\ \A i \in k + 1 .. e : s[i] # "/"
      BY <1>2 DEF IsLevel
    <2>3. k + 1 \in k + 1 .. e
      BY <2>1, <2>2
    <2> QED BY <1>0, <2>2, <2>3
  <1>4. infra_strtok(s, 1).token # None
    <2>1. NextOther(s, 1) # {} /\ ~(Len(s) < 1 + 1)
      BY <1>0, <1>3 DEF NextOther
    <2> QED BY <1>0, <2>1, TokenFacts
  <1>5. AloneFrom(s, 1) /\ \A i \in 1 .. Len(s) : s[i] = "#" => i = Len(s)
    BY WellFormedAlone
  <1>6. iotx_mc_check_rule(infra_strtok(s, 1).token, "TOPIC_FILTER_TYPE")
    BY <1>0, <1>4, <1>5, WellFormedRule
  <1>7. RestAccepted(s, "TOPIC_FILTER_TYPE")[<<infra_strtok(s, 1).at, FALSE>>]
    BY <1>0, <1>5, TokenMoves, WellFormedRest
  <1> QED
    BY <1>0, <1>6, <1>7 DEF TokensAccepted

(* ... and a text that it accepts has its wildcards alone in their levels. *)
LEMMA PassedAlone ==
    ASSUME NEW s \in Seq(Char), s # <<>>, s[1] = "/", AloneFrom(s, 1),
           NEW c \in 1 .. Len(Levels(s)), Wild(Levels(s)[c])
    PROVE  Len(Levels(s)[c]) = 1
  <1>0. Len(s) \in Nat /\ Len(s) > 0
    OBVIOUS
  <1>2. c \in 1 .. LevelCount(s)
    BY <1>0, LevelsFacts
  <1>3. PICK k, e \in 1 .. Len(s) : IsLevel(s, c, k, e)
    BY <1>0, <1>2, LevelAt
  <1>4. /\ e \in k .. Len(s) /\ Len(Levels(s)[c]) = e - k
        /\ \A i \in k + 1 .. e : s[i] # "/"
        /\ \A d \in 1 .. e - k : Levels(s)[c][d] = s[k + d]
    BY <1>3 DEF IsLevel
  <1>5. PICK d \in 1 .. e - k : Levels(s)[c][d] \in {"+", "#"}
    BY <1>4 DEF Wild
  <1>6. PICK i \in k + 1 .. e : i = k + d
    OBVIOUS
  <1>7. Wildcard(s[i]) /\ i \in 1 .. Len(s)
    BY <1>4, <1>5, <1>6 DEF Wildcard
  <1>8. s[i - 1] = "/" /\ (i < Len(s) => s[i + 1] = "/")
    BY <1>7 DEF AloneFrom, Alone
  <1>9. i - 1 \notin k + 1 .. e
    BY <1>4, <1>8
  <1>10. i = k + 1
    BY <1>9
  <1>11. i < e => i < Len(s) /\ i + 1 \in k + 1 .. e
    BY <1>4, <1>0
  <1>12. e = i
    BY <1>4, <1>8, <1>11
  <1> QED
    BY <1>4, <1>10, <1>12

(* ... and cannot hold an unprintable character but as a last level of one *)
(* character.                                                              *)
LEMMA PassedPrintable ==
    ASSUME NEW s \in Seq(Char), s # <<>>, s[1] = "/", UnseenFrom(s, 1),
           NEW c \in 1 .. Len(Levels(s)), ~Printable(Levels(s)[c])
    PROVE  c = Len(Levels(s)) /\ Len(Levels(s)[c]) = 1
  <1>0. Len(s) \in Nat /\ Len(s) > 0
    OBVIOUS
  <1>2. Len(Levels(s)) = LevelCount(s) /\ c \in 1 .. LevelCount(s)
    BY <1>0, LevelsFacts
  <1>3. PICK k, e \in 1 .. Len(s) : IsLevel(s, c, k, e)
    BY <1>0, <1>2, LevelAt
  <1>4. /\ e \in k .. Len(s) /\ Len(Levels(s)[c]) = e - k
        /\ \A i \in k + 1 .. e : s[i] # "/"
        /\ \A d \in 1 .. e - k : Levels(s)[c][d] = s[k + d]
        /\ c # LevelCount(s) => e < Len(s)
    BY <1>3 DEF IsLevel
  <1>5. PICK d \in 1 .. e - k : Levels(s)[c][d] \in Unprintable
    BY <1>4 DEF Printable
  <1>6. PICK i \in k + 1 .. e : i = k + d
    OBVIOUS
  <1>7. s[i] \in Unprintable /\ i \in 1 .. Len(s)
    BY <1>4, <1>5, <1>6
  <1>8. i = Len(s) /\ s[i - 1] = "/"
    BY <1>7 DEF UnseenFrom, Unseen
  <1>9. i - 1 \notin k + 1 .. e
    BY <1>4, <1>8
  <1>10. i = k + 1 /\ e = Len(s)
    BY <1>4, <1>8, <1>9
  <1>11. c = LevelCount(s)
    BY <1>0, <1>4, <1>10
  <1>12. e - k = 1
    BY <1>0, <1>3, <1>8, <1>10
  <1> QED
    BY <1>2, <1>4, <1>11, <1>12

(* What iotx_mc_check_topic lets through, for every alphabet and every     *)
(* limit of the length: as far as its copy goes, it refuses no filter that *)
(* is well formed, can be printed and has some text, and what passes keeps *)
(* its wildcards in levels of their own and nothing unprintable but a last *)
(* level of one character.                                                 *)
THEOREM FiltersPass == TopicSpec => []ValidFiltersPass
  <1>1. TopicTypes => ValidFiltersPass
    <2> SUFFICES ASSUME TopicTypes PROVE ValidFiltersPass
      OBVIOUS
    <2> DEFINE copy == topicString(filter)
               L == Levels(copy)
               fits == Len(filter) <= CONFIG_MQTT_TOPIC_MAXLEN
               passes == iotx_mc_check_topic(filter, "TOPIC_FILTER_TYPE")
    <2>0. filter \in Seq(Char) /\ copy \in Seq(Char)
      BY CopyFacts DEF TopicTypes
    <2>1. ASSUME fits, WellFormedFilter(copy), \E i \in 1 .. Len(L) : L[i] # <<>>, Printable(copy)
          PROVE  passes
      <3>1. copy # <<>> /\ copy[1] = "/" /\ TokensAccepted(copy, "TOPIC_FILTER_TYPE")
        <4> HIDE DEF copy
        <4> QED BY <2>0, <2>1, WellFormedPasses
      <3>2. filter # <<>> /\ filter[1] = copy[1]
        BY <2>0, <3>1, CopyFacts
      <3> QED BY <2>1, <3>1, <3>2 DEF iotx_mc_check_topic
    <2>2. ASSUME passes, NEW i \in 1 .. Len(L)
          PROVE  /\ Wild(L[i]) => Len(L[i]) = 1
                 /\ ~Printable(L[i]) => i = Len(L) /\ Len(L[i]) = 1
      <3>1. TokensAccepted(copy, "TOPIC_FILTER_TYPE") /\ filter[1] = "/"
        BY <2>2 DEF iotx_mc_check_topic
      <3>2. copy # <<>>
        <4>1. infra_strtok(<<>>, 1).token = None
          BY DEF infra_strtok
        <4> HIDE DEF copy
        <4> QED BY <3>1, <4>1 DEF TokensAccepted, iotx_mc_check_rule
      <3>3. copy[1] = "/"
        BY <2>0, <3>1, <3>2, CopyFacts
      <3> HIDE DEF copy
      <3>4. AloneFrom(copy, 1) /\ UnseenFrom(copy, 1)
        BY <2>0, <3>1, <3>2, <3>3, CheckedAlone
      <3> QED BY <2>0, <2>2, <3>2, <3>3, <3>4, PassedAlone, PassedPrintable
    <2>3. passes => fits
      BY DEF iotx_mc_check_topic
    <2> HIDE DEF passes, fits
    <2> QED BY <2>1, <2>2, <2>3 DEF ValidFiltersPass, passes, fits
  <1> QED
    BY <1>1, TopicTypesCorrect, PTL

-----------------------------------------------------------------------------
(* The list of handlers.  HandlersIInv is the inductive invariant, and     *)
(* there is one lemma for what each action keeps of it.                    *)


(* A delivery that has begun.                                              *)
WalkRecord == [state : {"callback", "done"}, name : Names, cursor : 0 .. MaxNodes,
               heard : Seq(1 .. MaxNodes), present : SUBSET (1 .. MaxNodes), valid : BOOLEAN]

(* The types of the state.                                                 *)
Types ==
    /\ list_sub_handle \in Seq(Handler)
    /\ calls \in [Callers -> Handler \cup {NoCall}]
    /\ nodes \in 0 .. MaxNodes
    /\ unsubs \in 0 .. MaxUnsubs
    /\ subscribed \in SUBSET (Filters \X Funcs)
    /\ walk \in WalkRecord \/ walk = [state |-> "none"]

(* An allocation is in one place: in the list once, or with the one thread *)
(* that is about to append it.                                             *)
NodesFit ==
    /\ \A i, j \in DOMAIN list_sub_handle :
          list_sub_handle[i].node = list_sub_handle[j].node => i = j
    /\ \A i \in DOMAIN list_sub_handle : list_sub_handle[i].node <= nodes
    /\ \A t \in Callers : calls[t].node <= nodes
    /\ \A t, u \in Callers : calls[t] # NoCall /\ calls[t].node = calls[u].node => t = u
    /\ \A t \in Callers, i \in DOMAIN list_sub_handle :
          calls[t].node # list_sub_handle[i].node

(* What a walk has seen was allocated, and is not about to be appended: a  *)
(* handler that was removed does not come back.                            *)
Known(w) ==
    /\ \A d \in DOMAIN w.heard : w.heard[d] <= nodes
    /\ \A x \in w.present : x <= nodes
    /\ \A t \in Callers : calls[t].node \notin w.present
    /\ \A t \in Callers, d \in DOMAIN w.heard : calls[t].node # w.heard[d]

(* ... of the walk there is.                                               *)
WalkFits == walk.state # "none" => Known(walk)

(* Of the handlers up to position p those the walk has to call were        *)
(* called, and none after it.                                              *)
HeardUpTo(w, p) ==
    /\ \A i \in DOMAIN list_sub_handle, d \in DOMAIN w.heard :
          i > p => w.heard[d] # list_sub_handle[i].node
    /\ \A i \in DOMAIN list_sub_handle :
          (/\ i <= p
           /\ list_sub_handle[i].node \in w.present
           /\ DeliversTo(list_sub_handle[i].filter, w.name)) =>
              \E d \in DOMAIN w.heard : w.heard[d] = list_sub_handle[i].node

(* A walk that stands on a handler has called it, and every one before it  *)
(* that it had to call.                                                    *)
Standing ==
    walk.state = "callback" /\ walk.valid =>
        /\ \E d \in DOMAIN walk.heard : walk.heard[d] = walk.cursor
        /\ \A p \in DOMAIN list_sub_handle :
              list_sub_handle[p].node = walk.cursor => HeardUpTo(walk, p)

(* The inductive invariant of the list of handlers.                        *)
HandlersIInv == Types /\ NodesFit /\ NoIdenticalHandlers /\ WalkFits /\ HeardOnce /\ Standing
                /\ HeardByAll /\ WildcardsCancelled

(* A function defined by recursion on 0 .. N exists.                       *)
Unfolds(g, N, a, step) ==
    /\ g[0] = a
    /\ \A i \in 1 .. N : g[i] = step[<<i, g[i - 1]>>]

(* A function with this equation exists for every step function.           *)
LEMMA PrimitiveRecursion ==
    ASSUME NEW V, NEW a \in V, NEW N \in Nat, NEW step \in [(1 .. N) \X V -> V]
    PROVE  \E g \in [0 .. N -> V] : Unfolds(g, N, a, step)
  <1> DEFINE T == {n \in Nat : n <= N => \E g \in [0 .. n -> V] : Unfolds(g, n, a, step)}
  <1>1. 0 \in T
    <2>1. [i \in 0 .. 0 |-> a] \in [0 .. 0 -> V] /\ Unfolds([i \in 0 .. 0 |-> a], 0, a, step)
      BY DEF Unfolds
    <2> QED BY <2>1
  <1>2. ASSUME NEW n \in Nat, n \in T PROVE n + 1 \in T
    <2> SUFFICES ASSUME n + 1 <= N
                 PROVE  \E g \in [0 .. n + 1 -> V] : Unfolds(g, n + 1, a, step)
      OBVIOUS
    <2>1. PICK g \in [0 .. n -> V] : Unfolds(g, n, a, step)
      BY <1>2
    <2>2. g[n] \in V /\ n + 1 \in 1 .. N
      OBVIOUS
    <2> DEFINE h == [i \in 0 .. n + 1 |-> IF i = n + 1 THEN step[<<n + 1, g[n]>>] ELSE g[i]]
    <2>3. h \in [0 .. n + 1 -> V]
      BY <2>2
    <2>4. /\ 0 \in 0 .. n + 1 /\ 0 # n + 1
          /\ n \in 0 .. n + 1 /\ n # n + 1 /\ n + 1 \in 0 .. n + 1
      OBVIOUS
    <2>5. h[0] = g[0] /\ h[n] = g[n] /\ h[n + 1] = step[<<n + 1, g[n]>>]
      BY <2>4
    <2>6. ASSUME NEW i \in 1 .. n + 1 PROVE h[i] = step[<<i, h[i - 1]>>]
      <3>1. CASE i = n + 1
        <4>1. i - 1 = n
          BY <3>1
        <4> HIDE DEF h
        <4> QED BY <3>1, <4>1, <2>5
      <3>2. CASE i # n + 1
        <4>1. i \in 1 .. n /\ i \in 0 .. n + 1 /\ i - 1 \in 0 .. n + 1 /\ i - 1 # n + 1
          BY <3>2
        <4>2. h[i] = g[i] /\ h[i - 1] = g[i - 1]
          BY <4>1, <3>2
        <4> QED BY <4>1, <4>2, <2>1 DEF Unfolds
      <3> QED BY <3>1, <3>2
    <2> HIDE DEF h
    <2>7. Unfolds(h, n + 1, a, step)
      BY <2>1, <2>5, <2>6 DEF Unfolds
    <2> QED BY <2>3, <2>7
  <1>3. Nat \subseteq T
    <2> HIDE DEF T
    <2> QED BY <1>1, <1>2, NatSetInduction
  <1> QED
    BY <1>3

(* rest is what the first i handlers of the list leave: m says where each  *)
(* of its elements was.                                                    *)
Keeps(list, f, i, rest, m) ==
    /\ m \in [1 .. Len(rest) -> 1 .. i]
    /\ \A k, l \in 1 .. Len(rest) : k < l => m[k] < m[l]
    /\ \A k \in 1 .. Len(rest) : /\ rest[k] = list[m[k]]
                                 /\ ~UnsubscribeRemoves(list[m[k]].filter, f)
    /\ \A j \in 1 .. i : ~UnsubscribeRemoves(list[j].filter, f) =>
          \E k \in 1 .. Len(rest) : m[k] = j

(* One handler of the list more.                                           *)
LEMMA KeepsOne ==
    ASSUME NEW C, NEW list \in Seq(C), NEW f, NEW i \in 1 .. Len(list), NEW rest \in Seq(C),
           NEW m, Keeps(list, f, i - 1, rest, m)
    PROVE  \E q : Keeps(list, f, i, IF UnsubscribeRemoves(list[i].filter, f)
                                    THEN rest ELSE Append(rest, list[i]), q)
  <1>0. Len(rest) \in Nat /\ i \in Nat /\ Len(list) \in Nat /\ list[i] \in C
    OBVIOUS
  <1>1. /\ m \in [1 .. Len(rest) -> 1 .. i - 1]
        /\ \A k, l \in 1 .. Len(rest) : k < l => m[k] < m[l]
        /\ \A k \in 1 .. Len(rest) : /\ rest[k] = list[m[k]]
                                     /\ ~UnsubscribeRemoves(list[m[k]].filter, f)
        /\ \A j \in 1 .. i - 1 : ~UnsubscribeRemoves(list[j].filter, f) =>
              \E k \in 1 .. Len(rest) : m[k] = j
    BY DEF Keeps
  <1>2. CASE UnsubscribeRemoves(list[i].filter, f)
    <2>1. m \in [1 .. Len(rest) -> 1 .. i]
      BY <1>0, <1>1
    <2>2. \A j \in 1 .. i : j = i \/ j \in 1 .. i - 1
      BY <1>0
    <2>3. Keeps(list, f, i, rest, m)
      BY <1>1, <1>2, <2>1, <2>2 DEF Keeps
    <2> QED BY <1>2, <2>3
  <1>3. CASE ~UnsubscribeRemoves(list[i].filter, f)
    <2> DEFINE s == Append(rest, list[i])
               q == [k \in 1 .. Len(rest) + 1 |-> IF k = Len(rest) + 1 THEN i ELSE m[k]]
    <2>1. /\ Len(s) = Len(rest) + 1 /\ s[Len(rest) + 1] = list[i]
          /\ \A k \in 1 .. Len(rest) : s[k] = rest[k]
      BY <1>0
    <2>2. /\ q[Len(rest) + 1] = i
          /\ \A k \in 1 .. Len(rest) : q[k] = m[k] /\ q[k] \in 1 .. i - 1
      BY <1>0, <1>1
    <2>3. q \in [1 .. Len(s) -> 1 .. i]
      BY <1>0, <1>1, <2>1
    <2> HIDE DEF s, q
    <2>4. \A k \in 1 .. Len(s) : k = Len(rest) + 1 \/ k \in 1 .. Len(rest)
      BY <1>0, <2>1
    <2>5. ASSUME NEW k \in 1 .. Len(s), NEW l \in 1 .. Len(s), k < l PROVE q[k] < q[l]
      <3>1. k \in 1 .. Len(rest)
        BY <2>1, <2>5, <1>0
      <3>2. CASE l = Len(rest) + 1
        BY <3>1, <3>2, <2>2, <1>0
      <3>3. CASE l \in 1 .. Len(rest)
        BY <3>1, <3>3, <2>5, <2>2, <1>1
      <3> QED BY <2>4, <3>2, <3>3
    <2>6. ASSUME NEW k \in 1 .. Len(s)
          PROVE  s[k] = list[q[k]] /\ ~UnsubscribeRemoves(list[q[k]].filter, f)
      <3>1. CASE k = Len(rest) + 1
        BY <3>1, <2>1, <2>2, <1>3
      <3>2. CASE k \in 1 .. Len(rest)
        BY <3>2, <2>1, <2>2, <1>1
      <3> QED BY <2>4, <3>1, <3>2
    <2>7. ASSUME NEW j \in 1 .. i, ~UnsubscribeRemoves(list[j].filter, f)
          PROVE  \E k \in 1 .. Len(s) : q[k] = j
      <3>1. CASE j = i
        <4>1. Len(rest) + 1 \in 1 .. Len(s)
          BY <2>1, <1>0
        <4> QED BY <3>1, <4>1, <2>2
      <3>2. CASE j # i
        <4>1. j \in 1 .. i - 1
          BY <3>2, <1>0
        <4>2. PICK k \in 1 .. Len(rest) : m[k] = j
          BY <4>1, <2>7, <1>1
        <4>3. k \in 1 .. Len(s)
          BY <2>1, <1>0
        <4> QED BY <4>2, <4>3, <2>2
      <3> QED BY <3>1, <3>2
    <2>8. Keeps(list, f, i, s, q)
      BY <2>3, <2>5, <2>6, <2>7 DEF Keeps
    <2> QED BY <1>3, <2>8 DEF s
  <1> QED
    BY <1>2, <1>3

(* Remaining keeps the handlers the test does not find, in their order.    *)
LEMMA RemainingKeeps ==
    ASSUME NEW C, NEW list \in Seq(C), NEW f
    PROVE  /\ Remaining(list, f) \in Seq(C)
           /\ \E m : Keeps(list, f, Len(list), Remaining(list, f), m)
  <1> DEFINE N == Len(list)
             Goes(i, r) == IF UnsubscribeRemoves(list[i].filter, f) THEN r ELSE Append(r, list[i])
             step == [x \in (1 .. N) \X Seq(C) |-> Goes(x[1], x[2])]
             W(g) == [i \in 0 .. N |-> IF i = 0 THEN <<>> ELSE Goes(i, g[i - 1])]
             R == CHOOSE g : g = W(g)
  <1>0. N \in Nat /\ <<>> \in Seq(C) /\ \A i \in 1 .. N : list[i] \in C
    OBVIOUS
  <1>1. ASSUME NEW i \in 1 .. N, NEW r \in Seq(C) PROVE Goes(i, r) \in Seq(C)
    BY <1>0
  <1>2. step \in [(1 .. N) \X Seq(C) -> Seq(C)]
    BY <1>1
  <1>3. PICK g \in [0 .. N -> Seq(C)] : Unfolds(g, N, <<>>, step)
    <2> HIDE DEF step, N
    <2> QED BY <1>0, <1>2, PrimitiveRecursion
  <1>4. \A i \in 1 .. N : i - 1 \in 0 .. N /\ i # 0 /\ g[i] = Goes(i, g[i - 1])
    <2> TAKE i \in 1 .. N
    <2>1. i - 1 \in 0 .. N /\ i # 0 /\ g[i - 1] \in Seq(C)
      BY <1>0
    <2>2. g[i] = step[<<i, g[i - 1]>>]
      <3> HIDE DEF step
      <3> QED BY <1>3 DEF Unfolds
    <2> QED BY <2>1, <2>2
  <1>5. g = W(g)
    <2>1. g[0] = <<>>
      BY <1>3 DEF Unfolds
    <2>2. ASSUME NEW i \in 0 .. N PROVE g[i] = W(g)[i]
      <3> HIDE DEF Goes
      <3>1. CASE i = 0
        BY <3>1, <2>1
      <3>2. CASE i # 0
        BY <3>2, <1>4, <1>0
      <3> QED BY <3>1, <3>2
    <2> HIDE DEF Goes
    <2> QED BY <2>2
  <1>6. R = W(R)
    <2> HIDE DEF W
    <2> QED BY <1>5
  <1>7. Remaining(list, f) = R[N]
    BY DEF Remaining
  <1> HIDE DEF R
  <1>8. R[0] = <<>> /\ \A i \in 1 .. N : R[i] = Goes(i, R[i - 1])
    <2> HIDE DEF Goes
    <2>1. R[0] = <<>>
      BY <1>6, <1>0
    <2>2. ASSUME NEW i \in 1 .. N PROVE R[i] = Goes(i, R[i - 1])
      <3>1. i \in 0 .. N /\ i # 0
        BY <1>0
      <3> QED BY <3>1, <1>6
    <2> QED BY <2>1, <2>2
  <1> HIDE DEF W, step
  <1> DEFINE T == {i \in Nat : i <= N => R[i] \in Seq(C) /\ \E m : Keeps(list, f, i, R[i], m)}
  <1>9. 0 \in T
    <2>1. R[0] \in Seq(C) /\ Len(R[0]) = 0
      BY <1>8, <1>0
    <2> DEFINE m == [k \in 1 .. 0 |-> 0]
    <2>2. m \in [1 .. 0 -> 1 .. 0]
      OBVIOUS
    <2> HIDE DEF m
    <2>3. Keeps(list, f, 0, R[0], m)
      BY <2>1, <2>2 DEF Keeps
    <2> QED BY <2>1, <2>3
  <1>10. ASSUME NEW i \in Nat, i \in T PROVE i + 1 \in T
    <2> SUFFICES ASSUME i + 1 <= N
                 PROVE  R[i + 1] \in Seq(C) /\ \E m : Keeps(list, f, i + 1, R[i + 1], m)
      OBVIOUS
    <2>1. i <= N /\ i + 1 \in 1 .. N /\ (i + 1) - 1 = i
      BY <1>0
    <2>2. PICK m : R[i] \in Seq(C) /\ Keeps(list, f, i, R[i], m)
      BY <1>10, <2>1
    <2>3. R[i + 1] = IF UnsubscribeRemoves(list[i + 1].filter, f)
                     THEN R[i] ELSE Append(R[i], list[i + 1])
      BY <1>8, <2>1
    <2>4. R[i + 1] \in Seq(C)
      BY <2>2, <2>3, <1>0, <2>1
    <2> HIDE DEF Goes
    <2>5. \E q : Keeps(list, f, i + 1, R[i + 1], q)
      <3>1. i + 1 \in 1 .. Len(list) /\ (i + 1) - 1 = i
        BY <2>1, <1>0
      <3>2. R[i] \in Seq(C) /\ Keeps(list, f, (i + 1) - 1, R[i], m)
        BY ONLY <2>2, <3>1
      <3>3. \E q : Keeps(list, f, i + 1, IF UnsubscribeRemoves(list[i + 1].filter, f)
                                       THEN R[i] ELSE Append(R[i], list[i + 1]), q)
        BY ONLY list \in Seq(C), <3>1, <3>2, KeepsOne
      <3> QED BY ONLY <2>3, <3>3
    <2> QED BY <2>4, <2>5
  <1>11. Nat \subseteq T
    <2> HIDE DEF T
    <2> QED BY <1>9, <1>10, NatSetInduction
  <1> QED
    BY <1>7, <1>11, <1>0

(* The fields of a handler in the list.                                    *)
LEMMA HandlerAt ==
    ASSUME Types, NEW k \in DOMAIN list_sub_handle
    PROVE  /\ list_sub_handle[k] \in Handler
           /\ list_sub_handle[k].node \in 1 .. MaxNodes
           /\ list_sub_handle[k].filter \in Filters
           /\ list_sub_handle[k].h_fp \in Funcs
  <1>1. list_sub_handle[k] \in Handler
    BY DEF Types
  <1> QED
    BY <1>1 DEF Handler


(* Where WalkFrom leaves a walk that has been everywhere before i.         *)
LEMMA WalkFromFacts ==
    ASSUME Types, NEW i \in 1 .. Len(list_sub_handle) + 1, NEW w \in WalkRecord
    PROVE  LET v == WalkFrom(i, w) IN
           /\ v \in WalkRecord
           /\ v.name = w.name /\ v.present = w.present /\ v.valid = w.valid
           /\ \/ /\ v.state = "done" /\ v.heard = w.heard
                 /\ \A k \in i .. Len(list_sub_handle) :
                       ~DeliversTo(list_sub_handle[k].filter, w.name)
              \/ \E q \in i .. Len(list_sub_handle) :
                    /\ v.state = "callback"
                    /\ v.cursor = list_sub_handle[q].node
                    /\ v.heard = Append(w.heard, list_sub_handle[q].node)
                    /\ \A k \in i .. q - 1 : ~DeliversTo(list_sub_handle[k].filter, w.name)
  <1> DEFINE found == {k \in i .. Len(list_sub_handle) :
                          DeliversTo(list_sub_handle[k].filter, w.name)}
             v == WalkFrom(i, w)
  <1>0. Len(list_sub_handle) \in Nat /\ i \in Nat
    BY DEF Types
  <1>1. CASE found = {}
    <2>1. v = [w EXCEPT !.state = "done"]
      BY <1>1 DEF WalkFrom
    <2>2. v \in WalkRecord
      BY <2>1 DEF WalkRecord
    <2>3. /\ v.name = w.name /\ v.present = w.present /\ v.valid = w.valid
          /\ v.state = "done" /\ v.heard = w.heard
      BY <2>1 DEF WalkRecord
    <2>4. \A k \in i .. Len(list_sub_handle) : ~DeliversTo(list_sub_handle[k].filter, w.name)
      BY <1>1
    <2> HIDE DEF v
    <2> QED BY <2>2, <2>3, <2>4 DEF v
  <1>2. CASE found # {}
    <2>1. found \in SUBSET Nat
      BY <1>0
    <2>2. PICK q \in found : q = Least(found)
      <3> HIDE DEF found
      <3> QED BY <1>2, <2>1, LeastIsLeast
    <2>3. \A y \in found : q <= y
      <3> HIDE DEF found
      <3> QED BY <1>2, <2>1, <2>2, LeastIsLeast
    <2>4. q \in i .. Len(list_sub_handle) /\ \A k \in i .. q - 1 : k \notin found
      BY <2>3, <1>0
    <2>5. \A k \in i .. q - 1 : ~DeliversTo(list_sub_handle[k].filter, w.name)
      BY <2>4, <1>0
    <2> DEFINE c == list_sub_handle[q].node
    <2>6. v = [w EXCEPT !.state = "callback", !.cursor = c, !.heard = Append(@, c)]
      BY <1>2, <2>2 DEF WalkFrom
    <2>7. c \in 1 .. MaxNodes
      <3>1. list_sub_handle[q] \in Handler
        <4> HIDE DEF found
        <4> QED BY <2>4, <1>0 DEF Types
      <3> QED BY <3>1 DEF Handler
    <2> HIDE DEF c, v, found
    <2>8. Append(w.heard, c) \in Seq(1 .. MaxNodes)
      BY <2>7 DEF WalkRecord
    <2>9. v \in WalkRecord
      <3>1. c \in 0 .. MaxNodes
        BY <2>7
      <3>2. v = [state |-> "callback", name |-> w.name, cursor |-> c,
                 heard |-> Append(w.heard, c), present |-> w.present, valid |-> w.valid]
        BY <2>6 DEF WalkRecord
      <3>3. w.name \in Names /\ w.present \in SUBSET (1 .. MaxNodes) /\ w.valid \in BOOLEAN
        BY DEF WalkRecord
      <3> QED BY <3>1, <3>2, <3>3, <2>8 DEF WalkRecord
    <2>10. /\ v.name = w.name /\ v.present = w.present /\ v.valid = w.valid
           /\ v.state = "callback" /\ v.cursor = c /\ v.heard = Append(w.heard, c)
      BY <2>6 DEF WalkRecord
    <2> QED BY <2>4, <2>5, <2>9, <2>10 DEF v, c
  <1> QED
    BY <1>1, <1>2

(* So a walk that has heard every handler before i, each once, stays one   *)
(* that has heard every handler up to where it stands.                     *)
LEMMA WalkFromHears ==
    ASSUME Types, NodesFit, NEW i \in 1 .. Len(list_sub_handle) + 1, NEW w \in WalkRecord,
           HeardUpTo(w, i - 1), IsInjective(w.heard),
           NEW v, v = WalkFrom(i, w)
    PROVE  /\ IsInjective(v.heard)
           /\ v.state = "done" =>
                 \A k \in DOMAIN list_sub_handle :
                    (/\ list_sub_handle[k].node \in v.present
                     /\ DeliversTo(list_sub_handle[k].filter, v.name)) =>
                        list_sub_handle[k].node \in Range(v.heard)
           /\ v.state = "callback" =>
                 /\ \E d \in DOMAIN v.heard : v.heard[d] = v.cursor
                 /\ \A p \in DOMAIN list_sub_handle :
                       list_sub_handle[p].node = v.cursor => HeardUpTo(v, p)
  <1>0. /\ Len(list_sub_handle) \in Nat /\ i \in Nat
        /\ DOMAIN list_sub_handle = 1 .. Len(list_sub_handle)
        /\ w.heard \in Seq(1 .. MaxNodes) /\ DOMAIN w.heard = 1 .. Len(w.heard) /\ Len(w.heard) \in Nat
    BY DEF Types, WalkRecord
  <1>1. v.name = w.name /\ v.present = w.present
    BY WalkFromFacts
  <1>2. CASE /\ v.state = "done" /\ v.heard = w.heard
             /\ \A k \in i .. Len(list_sub_handle) : ~DeliversTo(list_sub_handle[k].filter, w.name)
    <2>1. ASSUME NEW k \in DOMAIN list_sub_handle,
                 list_sub_handle[k].node \in v.present,
                 DeliversTo(list_sub_handle[k].filter, v.name)
          PROVE  list_sub_handle[k].node \in Range(v.heard)
      <3>1. k <= i - 1
        BY <1>0, <1>1, <1>2, <2>1
      <3>2. \E d \in DOMAIN w.heard : w.heard[d] = list_sub_handle[k].node
        BY <3>1, <1>1, <2>1 DEF HeardUpTo
      <3> QED BY <3>2, <1>2 DEF Range
    <2> QED BY <2>1, <1>2
  <1>3. ASSUME NEW q \in i .. Len(list_sub_handle),
               v.state = "callback",
               v.cursor = list_sub_handle[q].node,
               v.heard = Append(w.heard, list_sub_handle[q].node),
               \A k \in i .. q - 1 : ~DeliversTo(list_sub_handle[k].filter, w.name)
        PROVE  /\ IsInjective(v.heard)
               /\ \E d \in DOMAIN v.heard : v.heard[d] = v.cursor
               /\ \A p \in DOMAIN list_sub_handle :
                     list_sub_handle[p].node = v.cursor => HeardUpTo(v, p)
    <2> DEFINE c == list_sub_handle[q].node
               n == Len(w.heard) + 1
    <2>0. q \in DOMAIN list_sub_handle /\ c \in 1 .. MaxNodes /\ q \in Nat /\ q >= i
      <3>1. q \in DOMAIN list_sub_handle /\ q \in Nat /\ q >= i
        BY <1>0
      <3> QED BY <3>1, HandlerAt
    <2>1. /\ DOMAIN v.heard = 1 .. n /\ v.heard[n] = c
          /\ \A d \in DOMAIN w.heard : v.heard[d] = w.heard[d] /\ d \in 1 .. n
      BY <1>0, <1>3, <2>0
    <2>2. \A d \in 1 .. n : d = n \/ d \in DOMAIN w.heard
      BY <1>0
    <2>3. n \in DOMAIN v.heard
      BY <1>0, <2>1
    <2>4. \A d \in DOMAIN w.heard : w.heard[d] # c
      BY <2>0, <1>0 DEF HeardUpTo
    <2> HIDE DEF c, n
    <2>5. IsInjective(v.heard)
      BY <2>1, <2>2, <2>4 DEF IsInjective
    <2>6. ASSUME NEW p \in DOMAIN list_sub_handle, list_sub_handle[p].node = v.cursor
          PROVE  HeardUpTo(v, p)
      <3>1. p = q
        BY <2>0, <2>6, <1>3 DEF NodesFit
      <3>2. ASSUME NEW k \in DOMAIN list_sub_handle, NEW d \in DOMAIN v.heard, k > q
            PROVE  v.heard[d] # list_sub_handle[k].node
        <4>1. CASE d = n
          <5>1. k # q
            BY <3>2, <2>0, <1>0
          <5> QED BY <4>1, <5>1, <2>0, <2>1 DEF NodesFit, c
        <4>2. CASE d \in DOMAIN w.heard
          <5>1. k > i - 1
            BY <3>2, <2>0, <1>0
          <5> QED BY <4>2, <5>1, <2>1 DEF HeardUpTo
        <4> QED BY <4>1, <4>2, <2>1, <2>2
      <3>3. ASSUME NEW k \in DOMAIN list_sub_handle, k <= q,
                   list_sub_handle[k].node \in v.present,
                   DeliversTo(list_sub_handle[k].filter, v.name)
            PROVE  \E d \in DOMAIN v.heard : v.heard[d] = list_sub_handle[k].node
        <4>1. CASE k = q
          BY <4>1, <2>1, <2>3 DEF c
        <4>2. CASE k # q
          <5>1. k <= i - 1
            <6>1. k \notin i .. q - 1
              BY <1>1, <1>3, <3>3
            <6> QED BY <6>1, <4>2, <3>3, <2>0, <1>0
          <5>2. \E d \in DOMAIN w.heard : w.heard[d] = list_sub_handle[k].node
            BY <5>1, <1>1, <3>3 DEF HeardUpTo
          <5> QED BY <5>2, <2>1
        <4> QED BY <4>1, <4>2
      <3> QED BY <3>1, <3>2, <3>3 DEF HeardUpTo
    <2>7. \E d \in DOMAIN v.heard : v.heard[d] = v.cursor
      BY <2>1, <2>3, <1>3 DEF c
    <2> QED BY <2>5, <2>6, <2>7
  <1>4. \/ /\ v.state = "done" /\ v.heard = w.heard
           /\ \A k \in i .. Len(list_sub_handle) : ~DeliversTo(list_sub_handle[k].filter, w.name)
        \/ \E q \in i .. Len(list_sub_handle) :
              /\ v.state = "callback"
              /\ v.cursor = list_sub_handle[q].node
              /\ v.heard = Append(w.heard, list_sub_handle[q].node)
              /\ \A k \in i .. q - 1 : ~DeliversTo(list_sub_handle[k].filter, w.name)
    BY WalkFromFacts
  <1>5. CASE v.state = "done"
    <2>1. v.state # "callback"
      BY <1>5
    <2> QED BY <1>2, <1>4, <2>1
  <1>6. CASE v.state # "done"
    BY <1>3, <1>4, <1>6
  <1> QED
    BY <1>5, <1>6

(* Where a walk stands and whom it has heard does not depend on calls.     *)
LEMMA ListSame ==
    ASSUME HandlersIInv, UNCHANGED <<list_sub_handle, walk>>
    PROVE  HeardOnce' /\ HeardByAll' /\ Standing' /\ NoIdenticalHandlers'
  BY DEF HandlersIInv, HeardOnce, HeardByAll, Standing, NoIdenticalHandlers, HeardUpTo

(* The allocation that is made is a new one.                               *)
LEMMA NewNode ==
    ASSUME HandlersIInv, nodes < MaxNodes, nodes' = nodes + 1
    PROVE  /\ nodes' \in 0 .. MaxNodes /\ nodes' \in 1 .. MaxNodes
           /\ \A x \in 0 .. MaxNodes : x <= nodes => x <= nodes' /\ x # nodes'
  BY HandlersAssumption DEF HandlersIInv, Types

(* What a thread has still to append.                                      *)
LEMMA SentCalls ==
    ASSUME HandlersIInv, NEW t \in Callers
    PROVE  /\ calls[t] \in Handler \cup {NoCall}
           /\ calls[t].node \in 0 .. MaxNodes
           /\ calls[t] # NoCall => calls[t] \in Handler /\ calls[t].node \in 1 .. MaxNodes
  <1>1. calls[t] \in Handler \cup {NoCall}
    BY DEF HandlersIInv, Types
  <1>2. CASE calls[t] = NoCall
    BY <1>2, HandlersAssumption DEF NoCall
  <1>3. CASE calls[t] \in Handler
    BY <1>3 DEF Handler
  <1> QED
    BY <1>1, <1>2, <1>3

(* What a walk holds, spelled out.                                         *)
LEMMA WalkTypes ==
    ASSUME Types, walk.state # "none"
    PROVE  /\ walk \in WalkRecord
           /\ walk.heard \in Seq(1 .. MaxNodes)
           /\ \A d \in DOMAIN walk.heard : walk.heard[d] \in 1 .. MaxNodes
           /\ \A x \in walk.present : x \in 1 .. MaxNodes
  <1>1. walk # [state |-> "none"]
    OBVIOUS
  <1>2. walk \in WalkRecord
    BY <1>1 DEF Types
  <1>3. walk.heard \in Seq(1 .. MaxNodes) /\ walk.present \in SUBSET (1 .. MaxNodes)
    BY <1>2 DEF WalkRecord
  <1>4. \A d \in DOMAIN walk.heard : walk.heard[d] \in 1 .. MaxNodes
    <2>1. DOMAIN walk.heard = 1 .. Len(walk.heard)
      BY <1>3
    <2> QED BY <1>3, <2>1, ElementOfSeq
  <1>5. \A x \in walk.present : x \in 1 .. MaxNodes
    BY <1>3
  <1> QED
    BY <1>2, <1>3, <1>4, <1>5

(* MQTTSubscribe has sent its packet: a new allocation, in nobody's way.   *)
LEMMA SendSubscribeKeeps ==
    ASSUME HandlersIInv, NEW t \in Callers, NEW f \in Filters, NEW g \in Funcs,
           SendSubscribe(t, f, g)
    PROVE  HandlersIInv'
  <1> DEFINE h == [node |-> nodes', filter |-> f, h_fp |-> g]
  <1>0. /\ nodes' = nodes + 1 /\ nodes < MaxNodes
        /\ calls' = [calls EXCEPT ![t] = h] /\ calls[t] = NoCall
        /\ UNCHANGED <<list_sub_handle, unsubs, walk, subscribed>>
    BY DEF SendSubscribe
  <1>1. /\ nodes' \in 0 .. MaxNodes /\ nodes' \in 1 .. MaxNodes
        /\ \A x \in 0 .. MaxNodes : x <= nodes => x <= nodes' /\ x # nodes'
    BY <1>0, NewNode
  <1>2. h \in Handler /\ h.node = nodes' /\ h # NoCall
    <2>1. h \in Handler /\ h.node = nodes'
      BY <1>1 DEF Handler
    <2>2. NoCall.node = 0 /\ nodes' # 0
      BY <1>1 DEF NoCall
    <2> HIDE DEF h
    <2> QED BY <2>1, <2>2
  <1>3. calls' \in [Callers -> Handler \cup {NoCall}]
    <2> HIDE DEF h
    <2> QED BY <1>0, <1>2 DEF HandlersIInv, Types
  <1>4. calls'[t] = h /\ \A u \in Callers : u # t => calls'[u] = calls[u]
    <2> HIDE DEF h
    <2> QED BY <1>0 DEF HandlersIInv, Types
  <1> HIDE DEF h
  <1>5. Types'
    BY <1>0, <1>1, <1>3 DEF HandlersIInv, Types
  <1>6. \A u \in Callers : u # t => calls[u].node <= nodes' /\ calls[u].node # nodes'
    BY <1>1, SentCalls DEF HandlersIInv, NodesFit
  <1>7. \A i \in DOMAIN list_sub_handle : list_sub_handle[i].node \in 0 .. MaxNodes
    <2>1. 1 .. MaxNodes \subseteq 0 .. MaxNodes
      BY HandlersAssumption
    <2> QED BY <2>1, HandlerAt DEF HandlersIInv
  <1>8. \A i \in DOMAIN list_sub_handle :
           list_sub_handle[i].node <= nodes' /\ list_sub_handle[i].node # nodes'
    BY <1>1, <1>7 DEF HandlersIInv, NodesFit
  <1>9. NodesFit'
    <2>1. \A u \in Callers : calls'[u].node <= nodes'
      BY <1>1, <1>2, <1>4, <1>6
    <2>2. ASSUME NEW u \in Callers, NEW v \in Callers,
                 calls'[u] # NoCall, calls'[u].node = calls'[v].node
          PROVE  u = v
      BY <2>2, <1>2, <1>4, <1>6 DEF HandlersIInv, NodesFit
    <2>3. \A u \in Callers, i \in DOMAIN list_sub_handle :
             calls'[u].node # list_sub_handle[i].node
      BY <1>2, <1>4, <1>8 DEF HandlersIInv, NodesFit
    <2> QED BY <1>0, <1>8, <2>1, <2>2, <2>3 DEF HandlersIInv, NodesFit
  <1>10. WalkFits'
    <2> SUFFICES ASSUME walk.state # "none" PROVE WalkFits'
      BY <1>0 DEF WalkFits
    <2>1. /\ \A d \in DOMAIN walk.heard : walk.heard[d] \in 0 .. MaxNodes
          /\ \A x \in walk.present : x \in 0 .. MaxNodes
      <3>1. 1 .. MaxNodes \subseteq 0 .. MaxNodes
        BY HandlersAssumption
      <3> QED BY <3>1, WalkTypes DEF HandlersIInv
    <2>2. /\ \A d \in DOMAIN walk.heard : walk.heard[d] <= nodes' /\ walk.heard[d] # nodes'
          /\ \A x \in walk.present : x <= nodes' /\ x # nodes'
      BY <1>1, <2>1 DEF HandlersIInv, WalkFits, Known
    <2> QED BY <1>0, <1>2, <1>4, <2>2 DEF HandlersIInv, WalkFits, Known
  <1> QED
    BY <1>0, <1>5, <1>9, <1>10, ListSame DEF HandlersIInv, WildcardsCancelled

(* MQTTSubscribe could not send it.                                        *)
LEMMA SendFailsKeeps ==
    ASSUME HandlersIInv, NEW t \in Callers, SendFails(t)
    PROVE  HandlersIInv'
  <1>0. /\ nodes' = nodes + 1 /\ nodes < MaxNodes
        /\ UNCHANGED <<list_sub_handle, calls, unsubs, walk, subscribed>>
    BY DEF SendFails
  <1>1. /\ nodes' \in 0 .. MaxNodes /\ nodes' \in 1 .. MaxNodes
        /\ \A x \in 0 .. MaxNodes : x <= nodes => x <= nodes' /\ x # nodes'
    BY <1>0, NewNode
  <1>2. 1 .. MaxNodes \subseteq 0 .. MaxNodes
    BY HandlersAssumption
  <1>3. Types'
    BY <1>0, <1>1 DEF HandlersIInv, Types
  <1>4. NodesFit'
    <2>1. \A i \in DOMAIN list_sub_handle : list_sub_handle[i].node <= nodes'
      BY <1>1, <1>2, HandlerAt DEF HandlersIInv, NodesFit
    <2>2. \A u \in Callers : calls[u].node <= nodes'
      BY <1>1, SentCalls DEF HandlersIInv, NodesFit
    <2> QED BY <1>0, <2>1, <2>2 DEF HandlersIInv, NodesFit
  <1>5. WalkFits'
    <2> SUFFICES ASSUME walk.state # "none" PROVE WalkFits'
      BY <1>0 DEF WalkFits
    <2>1. /\ \A d \in DOMAIN walk.heard : walk.heard[d] \in 0 .. MaxNodes
          /\ \A x \in walk.present : x \in 0 .. MaxNodes
      BY <1>2, WalkTypes DEF HandlersIInv
    <2>2. /\ \A d \in DOMAIN walk.heard : walk.heard[d] <= nodes'
          /\ \A x \in walk.present : x <= nodes'
      BY <1>1, <2>1 DEF HandlersIInv, WalkFits, Known
    <2> QED BY <1>0, <2>2 DEF HandlersIInv, WalkFits, Known
  <1> QED
    BY <1>0, <1>3, <1>4, <1>5, ListSame DEF HandlersIInv, WildcardsCancelled

(* MQTTSubscribe appends its handler, behind every walk, or finds an       *)
(* identical one and appends nothing.                                      *)
LEMMA AppendHandlerKeeps ==
    ASSUME HandlersIInv, NEW t \in Callers, AppendHandler(t)
    PROVE  HandlersIInv'
  <1> DEFINE h == calls[t]
             n == Len(list_sub_handle) + 1
  <1>0. /\ h # NoCall /\ h \in Handler /\ h.node \in 1 .. MaxNodes
        /\ h.filter \in Filters /\ h.h_fp \in Funcs
        /\ list_sub_handle \in Seq(Handler)
        /\ DOMAIN list_sub_handle = 1 .. Len(list_sub_handle)
        /\ Len(list_sub_handle) \in Nat
    <2>1. h # NoCall
      BY DEF AppendHandler
    <2>2. h \in Handler /\ h.node \in 1 .. MaxNodes
      BY <2>1, SentCalls
    <2>3. h.filter \in Filters /\ h.h_fp \in Funcs
      BY <2>2 DEF Handler
    <2> QED BY <2>1, <2>2, <2>3 DEF HandlersIInv, Types
  <1>1. /\ calls' = [calls EXCEPT ![t] = NoCall]
        /\ subscribed' = subscribed \cup {<<h.filter, h.h_fp>>}
        /\ UNCHANGED <<nodes, unsubs, walk>>
    BY DEF AppendHandler
  <1>2. calls'[t] = NoCall /\ \A u \in Callers : u # t => calls'[u] = calls[u]
    BY <1>1 DEF HandlersIInv, Types
  <1>3. NoCall.node = 0 /\ 0 \notin 1 .. MaxNodes
    BY DEF NoCall
  <1>4. calls' \in [Callers -> Handler \cup {NoCall}]
    BY <1>1 DEF HandlersIInv, Types
  <1>5. subscribed' \in SUBSET (Filters \X Funcs)
    BY <1>0, <1>1 DEF HandlersIInv, Types
  <1>6. \A u \in Callers : calls'[u].node <= nodes
    <2>1. 0 <= nodes
      BY HandlersAssumption DEF HandlersIInv, Types
    <2> QED BY <1>2, <1>3, <2>1 DEF HandlersIInv, NodesFit
  <1>7. \A u, v \in Callers : calls'[u] # NoCall /\ calls'[u].node = calls'[v].node => u = v
    <2> SUFFICES ASSUME NEW u \in Callers, NEW v \in Callers,
                        calls'[u] # NoCall, calls'[u].node = calls'[v].node
                 PROVE  u = v
      OBVIOUS
    <2>1. u # t /\ calls'[u] = calls[u]
      BY <1>2
    <2>2. calls[u].node \in 1 .. MaxNodes
      BY <2>1, SentCalls
    <2>3. v # t /\ calls'[v] = calls[v]
      BY <1>2, <1>3, <2>1, <2>2
    <2> QED BY <2>1, <2>3 DEF HandlersIInv, NodesFit
  <1>8. \A u \in Callers, i \in DOMAIN list_sub_handle :
           calls'[u].node # list_sub_handle[i].node
    <2> TAKE u \in Callers, i \in DOMAIN list_sub_handle
    <2>1. list_sub_handle[i].node \in 1 .. MaxNodes
      BY HandlerAt DEF HandlersIInv
    <2> QED BY <1>2, <1>3, <2>1 DEF HandlersIInv, NodesFit
  <1>9. WalkFits'
    <2> SUFFICES ASSUME walk.state # "none" PROVE Known(walk)'
      BY <1>1 DEF WalkFits
    <2>1. /\ \A x \in walk.present : x # 0
          /\ \A d \in DOMAIN walk.heard : walk.heard[d] # 0
      BY <1>3, WalkTypes DEF HandlersIInv
    <2> QED BY <1>1, <1>2, <1>3, <2>1 DEF HandlersIInv, WalkFits, Known
  <1>10. CASE list_sub_handle' = list_sub_handle
    <2>1. Types' /\ NodesFit'
      BY <1>1, <1>4, <1>5, <1>6, <1>7, <1>8, <1>10 DEF HandlersIInv, Types, NodesFit
    <2>2. WildcardsCancelled'
      BY <1>1, <1>10 DEF HandlersIInv, WildcardsCancelled
    <2> QED BY <1>1, <1>9, <1>10, <2>1, <2>2, ListSame DEF HandlersIInv
  <1>11. CASE /\ list_sub_handle' = Append(list_sub_handle, h)
              /\ \A i \in DOMAIN list_sub_handle : ~Identical(list_sub_handle[i], h)
    <2>1. /\ list_sub_handle' \in Seq(Handler)
          /\ DOMAIN list_sub_handle' = 1 .. n
          /\ list_sub_handle'[n] = h
          /\ \A i \in DOMAIN list_sub_handle : list_sub_handle'[i] = list_sub_handle[i]
      BY <1>0, <1>11
    <2>2. \A i \in 1 .. n : i \in DOMAIN list_sub_handle \/ i = n
      BY <1>0
    <2>3. \A i \in DOMAIN list_sub_handle : n > i /\ ~(n <= i) /\ i # n
      BY <1>0
    <2> HIDE DEF n, h
    <2>4. Types'
      BY <1>1, <1>4, <1>5, <2>1 DEF HandlersIInv, Types
    <2>5. \A i \in DOMAIN list_sub_handle : list_sub_handle[i].node # h.node
      BY DEF HandlersIInv, NodesFit, h
    <2>6. NodesFit'
      <3>1. \A i, j \in DOMAIN list_sub_handle' :
               list_sub_handle'[i].node = list_sub_handle'[j].node => i = j
        BY <2>1, <2>2, <2>5 DEF HandlersIInv, NodesFit
      <3>2. \A i \in DOMAIN list_sub_handle' : list_sub_handle'[i].node <= nodes
        BY <2>1, <2>2 DEF HandlersIInv, NodesFit, h
      <3>3. \A u \in Callers : calls'[u].node # h.node
        <4> TAKE u \in Callers
        <4>1. CASE u = t
          BY <4>1, <1>0, <1>2, <1>3
        <4>2. CASE u # t
          BY <4>2, <1>0, <1>2 DEF HandlersIInv, NodesFit, h
        <4> QED BY <4>1, <4>2
      <3>4. \A u \in Callers, i \in DOMAIN list_sub_handle' :
               calls'[u].node # list_sub_handle'[i].node
        BY <1>8, <2>1, <2>2, <3>3
      <3> QED BY <1>1, <1>6, <1>7, <3>1, <3>2, <3>4 DEF NodesFit
    <2>7. NoIdenticalHandlers'
      <3> SUFFICES ASSUME NEW i \in 1 .. n, NEW j \in 1 .. n,
                          Identical(list_sub_handle'[i], list_sub_handle'[j])
                   PROVE  i = j
        BY <2>1 DEF NoIdenticalHandlers, Identical
      <3> QED BY <1>11, <2>1, <2>2 DEF HandlersIInv, NoIdenticalHandlers, Identical
    <2>8. HeardOnce'
      BY <1>1 DEF HandlersIInv, HeardOnce
    <2>9. Standing'
      <3> SUFFICES ASSUME walk.state = "callback", walk.valid
                   PROVE  /\ \E d \in DOMAIN walk.heard : walk.heard[d] = walk.cursor
                          /\ \A p \in DOMAIN list_sub_handle' :
                                list_sub_handle'[p].node = walk.cursor => HeardUpTo(walk, p)'
        BY <1>1 DEF Standing, HeardUpTo
      <3>1. PICK d \in DOMAIN walk.heard : walk.heard[d] = walk.cursor
        BY DEF HandlersIInv, Standing
      <3>2. walk.state # "none"
        OBVIOUS
      <3>3. \A e \in DOMAIN walk.heard : h.node # walk.heard[e]
        BY <3>2 DEF HandlersIInv, WalkFits, Known, h
      <3>4. ASSUME NEW p \in DOMAIN list_sub_handle', list_sub_handle'[p].node = walk.cursor
            PROVE  HeardUpTo(walk, p)'
        <4>1. p \in DOMAIN list_sub_handle /\ list_sub_handle[p].node = walk.cursor
          BY <3>1, <3>3, <3>4, <2>1, <2>2
        <4>2. HeardUpTo(walk, p)
          BY <4>1 DEF HandlersIInv, Standing
        <4>3. \A i \in DOMAIN list_sub_handle', e \in DOMAIN walk.heard :
                 i > p => walk.heard[e] # list_sub_handle'[i].node
          BY <4>2, <2>1, <2>2, <3>3 DEF HeardUpTo
        <4>4. \A i \in DOMAIN list_sub_handle' :
                 (/\ i <= p
                  /\ list_sub_handle'[i].node \in walk.present
                  /\ DeliversTo(list_sub_handle'[i].filter, walk.name)) =>
                     \E e \in DOMAIN walk.heard : walk.heard[e] = list_sub_handle'[i].node
          BY <4>1, <4>2, <2>1, <2>2, <2>3 DEF HeardUpTo
        <4> QED BY <4>3, <4>4, <1>1 DEF HeardUpTo
      <3> QED BY <3>1, <3>4
    <2>10. HeardByAll'
      <3> SUFFICES ASSUME walk.state = "done", walk.valid,
                          NEW i \in DOMAIN list_sub_handle',
                          list_sub_handle'[i].node \in walk.present,
                          DeliversTo(list_sub_handle'[i].filter, walk.name)
                   PROVE  list_sub_handle'[i].node \in Range(walk.heard)
        BY <1>1 DEF HeardByAll
      <3>1. walk.state # "none"
        OBVIOUS
      <3>2. h.node \notin walk.present
        BY <3>1 DEF HandlersIInv, WalkFits, Known, h
      <3>3. i \in DOMAIN list_sub_handle /\ list_sub_handle'[i] = list_sub_handle[i]
        BY <3>2, <2>1, <2>2
      <3> QED BY <3>3 DEF HandlersIInv, HeardByAll
    <2>11. WildcardsCancelled'
      BY <1>1, <2>1, <2>2 DEF HandlersIInv, WildcardsCancelled
    <2> QED BY <1>9, <2>4, <2>6, <2>7, <2>8, <2>9, <2>10, <2>11 DEF HandlersIInv
  <1> QED
    BY <1>10, <1>11 DEF AppendHandler

(* MQTTUnsubscribe: the handlers that stay keep their order, so that a     *)
(* walk that stands on one of them has still heard those before it.        *)
LEMMA UnsubscribeKeeps ==
    ASSUME HandlersIInv, NEW t \in Callers, NEW f \in Filters, Unsubscribe(t, f)
    PROVE  HandlersIInv'
  <1> DEFINE N == Len(list_sub_handle)
             M == Len(list_sub_handle')
  <1>0. /\ list_sub_handle' = Remaining(list_sub_handle, f)
        /\ subscribed' = {s \in subscribed : s[1] # f}
        /\ UNCHANGED <<calls, nodes, walk>>
        /\ unsubs < MaxUnsubs /\ unsubs' = unsubs + 1
    BY DEF Unsubscribe
  <1>1. /\ list_sub_handle \in Seq(Handler) /\ N \in Nat
        /\ DOMAIN list_sub_handle = 1 .. N
    BY DEF HandlersIInv, Types
  <1>2. list_sub_handle' \in Seq(Handler)
    BY <1>0, <1>1, RemainingKeeps
  <1>3. PICK m : Keeps(list_sub_handle, f, N, list_sub_handle', m)
    BY <1>0, <1>1, RemainingKeeps
  <1>4. M \in Nat /\ DOMAIN list_sub_handle' = 1 .. M
    BY <1>2
  <1> HIDE DEF M, N
  <1>5. \A k \in 1 .. M : /\ m[k] \in 1 .. N
                          /\ list_sub_handle'[k] = list_sub_handle[m[k]]
                          /\ ~UnsubscribeRemoves(list_sub_handle'[k].filter, f)
    BY <1>3 DEF Keeps, M
  <1>6. \A k, l \in 1 .. M : k < l => m[k] < m[l]
    BY <1>3 DEF Keeps, M
  <1>7. \A k, l \in 1 .. M : /\ m[k] = m[l] => k = l
                             /\ k > l => m[k] > m[l]
                             /\ k <= l => m[k] <= m[l]
    <2> TAKE k, l \in 1 .. M
    <2>1. k \in Int /\ l \in Int /\ m[k] \in Int /\ m[l] \in Int
      BY <1>4, <1>5, <1>1
    <2> QED BY <2>1, <1>6
  <1>8. Types'
    BY <1>0, <1>2, HandlersAssumption DEF HandlersIInv, Types
  <1>9. NodesFit'
    <2>1. \A i, j \in DOMAIN list_sub_handle' :
             list_sub_handle'[i].node = list_sub_handle'[j].node => i = j
      BY <1>1, <1>4, <1>5, <1>7 DEF HandlersIInv, NodesFit
    <2>2. /\ \A i \in DOMAIN list_sub_handle' : list_sub_handle'[i].node <= nodes
          /\ \A u \in Callers, i \in DOMAIN list_sub_handle' :
                calls[u].node # list_sub_handle'[i].node
      BY <1>1, <1>4, <1>5 DEF HandlersIInv, NodesFit
    <2> QED BY <1>0, <2>1, <2>2 DEF HandlersIInv, NodesFit
  <1>10. NoIdenticalHandlers'
    <2> SUFFICES ASSUME NEW i \in 1 .. M, NEW j \in 1 .. M,
                        Identical(list_sub_handle'[i], list_sub_handle'[j])
                 PROVE  i = j
      BY <1>4 DEF NoIdenticalHandlers, Identical
    <2>1. m[i] = m[j]
      BY <1>1, <1>5 DEF HandlersIInv, NoIdenticalHandlers, Identical
    <2> QED BY <2>1, <1>7
  <1>11. WalkFits' /\ HeardOnce'
    BY <1>0 DEF HandlersIInv, WalkFits, Known, HeardOnce
  <1>12. Standing'
    <2> SUFFICES ASSUME walk.state = "callback", walk.valid
                 PROVE  /\ \E d \in DOMAIN walk.heard : walk.heard[d] = walk.cursor
                        /\ \A p \in DOMAIN list_sub_handle' :
                              list_sub_handle'[p].node = walk.cursor => HeardUpTo(walk, p)'
      BY <1>0 DEF Standing, HeardUpTo
    <2>1. \E d \in DOMAIN walk.heard : walk.heard[d] = walk.cursor
      BY DEF HandlersIInv, Standing
    <2>2. ASSUME NEW p \in DOMAIN list_sub_handle', list_sub_handle'[p].node = walk.cursor
          PROVE  HeardUpTo(walk, p)'
      <3>1. HeardUpTo(walk, m[p])
        BY <2>2, <1>1, <1>4, <1>5 DEF HandlersIInv, Standing
      <3>2. \A i \in DOMAIN list_sub_handle', e \in DOMAIN walk.heard :
               i > p => walk.heard[e] # list_sub_handle'[i].node
        BY <3>1, <1>1, <1>4, <1>5, <1>7 DEF HeardUpTo
      <3>3. \A i \in DOMAIN list_sub_handle' :
               (/\ i <= p
                /\ list_sub_handle'[i].node \in walk.present
                /\ DeliversTo(list_sub_handle'[i].filter, walk.name)) =>
                   \E e \in DOMAIN walk.heard : walk.heard[e] = list_sub_handle'[i].node
        <4>1. p \in 1 .. M
          BY <2>2, <1>4
        <4>2. ASSUME NEW i \in 1 .. M, i <= p
              PROVE  /\ m[i] \in DOMAIN list_sub_handle /\ m[i] <= m[p]
                     /\ list_sub_handle'[i] = list_sub_handle[m[i]]
          BY ONLY <4>1, <4>2, <1>1, <1>5, <1>7
        <4> QED BY ONLY <3>1, <4>2, <1>4 DEF HeardUpTo
      <3>4. UNCHANGED walk
        BY <1>0
      <3> QED BY ONLY <3>2, <3>3, <3>4 DEF HeardUpTo
    <2> QED BY <2>1, <2>2
  <1>13. HeardByAll'
    BY <1>0, <1>1, <1>4, <1>5 DEF HandlersIInv, HeardByAll
  <1>14. WildcardsCancelled'
    <2> SUFFICES ASSUME NEW k \in 1 .. M, EndsWild(list_sub_handle'[k].filter),
                        Len(list_sub_handle'[k].filter) < CONFIG_MQTT_TOPIC_MAXLEN
                 PROVE  <<list_sub_handle'[k].filter, list_sub_handle'[k].h_fp>> \in subscribed'
      BY <1>4 DEF WildcardsCancelled
    <2> DEFINE g == list_sub_handle'[k].filter
    <2>1. g \in Seq(Char) /\ iotx_mc_check_topic(g, "TOPIC_FILTER_TYPE")
      <3>1. g \in Filters
        BY <1>1, <1>5, HandlerAt DEF HandlersIInv
      <3> HIDE DEF g
      <3> QED BY <3>1, HandlersAssumption
    <2>2. g # f
      <3>1. UnsubscribeRemoves(g, g)
        BY <2>1, WildRemoved DEF EndsWild, Wildcard
      <3> QED BY <3>1, <1>5
    <2>3. <<g, list_sub_handle'[k].h_fp>> \in subscribed
      BY <1>1, <1>5 DEF HandlersIInv, WildcardsCancelled
    <2> QED BY <1>0, <2>2, <2>3
  <1> QED
    BY <1>8, <1>9, <1>10, <1>11, <1>12, <1>13, <1>14 DEF HandlersIInv

(* A walk that goes on from i knows what it knew, and the handler it stops *)
(* at, which is in the list.                                               *)
LEMMA WalkFromKnows ==
    ASSUME Types, NodesFit, NEW i \in 1 .. Len(list_sub_handle) + 1, NEW w \in WalkRecord,
           Known(w), NEW v, v = WalkFrom(i, w)
    PROVE  Known(v)
  <1>1. v.present = w.present
    BY WalkFromFacts
  <1>2. CASE v.heard = w.heard
    BY <1>1, <1>2 DEF Known
  <1>3. ASSUME NEW q \in i .. Len(list_sub_handle),
               v.heard = Append(w.heard, list_sub_handle[q].node)
        PROVE  Known(v)
    <2>1. q \in DOMAIN list_sub_handle
      BY DEF Types
    <2>2. \A d \in DOMAIN v.heard :
             v.heard[d] = list_sub_handle[q].node \/ (d \in DOMAIN w.heard /\ v.heard[d] = w.heard[d])
      <3> DEFINE c == list_sub_handle[q].node
      <3>1. c \in 1 .. MaxNodes
        BY <2>1, HandlerAt
      <3>2. w.heard \in Seq(1 .. MaxNodes)
        BY DEF WalkRecord
      <3> HIDE DEF c
      <3>3. v.heard = Append(w.heard, c)
        BY <1>3 DEF c
      <3>4. \A d \in DOMAIN v.heard : v.heard[d] = c \/ (d \in DOMAIN w.heard /\ v.heard[d] = w.heard[d])
        BY <3>1, <3>2, <3>3
      <3> QED BY <3>4 DEF c
    <2> QED BY <1>1, <2>1, <2>2 DEF Known, NodesFit
  <1>4. v.heard = w.heard \/ \E q \in i .. Len(list_sub_handle) :
                                v.heard = Append(w.heard, list_sub_handle[q].node)
    BY WalkFromFacts
  <1> QED
    BY <1>2, <1>3, <1>4

(* A walk that starts has heard nobody.                                    *)
LEMMA ArriveKeeps ==
    ASSUME HandlersIInv, NEW n \in Names, Arrive(n)
    PROVE  HandlersIInv'
  <1> DEFINE w == [state |-> "callback", name |-> n, cursor |-> 0, heard |-> <<>>,
                   present |-> Nodes, valid |-> TRUE]
  <1>0. walk' = WalkFrom(1, w) /\ UNCHANGED <<list_sub_handle, calls, nodes, unsubs, subscribed>>
    BY DEF Arrive
  <1>1. w \in WalkRecord
    <2>1. Nodes \subseteq 1 .. MaxNodes
      BY HandlerAt DEF HandlersIInv, Nodes
    <2>2. 0 \in 0 .. MaxNodes /\ <<>> \in Seq(1 .. MaxNodes)
      BY HandlersAssumption
    <2> QED BY <2>1, <2>2 DEF WalkRecord
  <1>2. 1 \in 1 .. Len(list_sub_handle) + 1 /\ 1 - 1 = 0
    BY DEF HandlersIInv, Types
  <1>3. w.heard = <<>> /\ DOMAIN w.heard = {} /\ w.present = Nodes /\ w.valid
    OBVIOUS
  <1> HIDE DEF w
  <1>4. HeardUpTo(w, 0)
    <2>1. \A i \in DOMAIN list_sub_handle : ~(i <= 0)
      BY DEF HandlersIInv, Types
    <2> QED BY <1>3, <2>1 DEF HeardUpTo
  <1>5. IsInjective(w.heard)
    BY <1>3 DEF IsInjective
  <1>6. Known(w)
    BY <1>3 DEF HandlersIInv, NodesFit, Known, Nodes
  <1>7. walk' \in WalkRecord /\ walk'.valid /\ Known(walk')
    BY <1>0, <1>1, <1>2, <1>3, <1>6, WalkFromFacts, WalkFromKnows DEF HandlersIInv
  <1>8. /\ IsInjective(walk'.heard)
        /\ walk'.state = "done" =>
              \A k \in DOMAIN list_sub_handle :
                 (/\ list_sub_handle[k].node \in walk'.present
                  /\ DeliversTo(list_sub_handle[k].filter, walk'.name)) =>
                     list_sub_handle[k].node \in Range(walk'.heard)
        /\ walk'.state = "callback" =>
              /\ \E d \in DOMAIN walk'.heard : walk'.heard[d] = walk'.cursor
              /\ \A p \in DOMAIN list_sub_handle :
                    list_sub_handle[p].node = walk'.cursor => HeardUpTo(walk', p)
    BY <1>0, <1>1, <1>2, <1>4, <1>5, WalkFromHears DEF HandlersIInv
  <1>9. Types' /\ NodesFit' /\ NoIdenticalHandlers' /\ WildcardsCancelled'
    BY <1>0, <1>7 DEF HandlersIInv, Types, NodesFit, NoIdenticalHandlers, WildcardsCancelled
  <1>10. WalkFits' /\ HeardOnce'
    BY <1>0, <1>7, <1>8 DEF WalkFits, Known, HeardOnce
  <1>11. Standing'
    BY <1>0, <1>8 DEF Standing, HeardUpTo
  <1>12. HeardByAll'
    BY <1>0, <1>8 DEF HeardByAll
  <1> QED
    BY <1>9, <1>10, <1>11, <1>12 DEF HandlersIInv

(* A walk that finds its handler in the list goes on after it; one that    *)
(* has stood on a freed handler is not held to anything any more.          *)
LEMMA ResumeKeeps ==
    ASSUME HandlersIInv, Resume
    PROVE  HandlersIInv'
  <1> DEFINE p == PositionOf(walk.cursor)
  <1>0. /\ walk.state = "callback" /\ walk.cursor \in Nodes
        /\ walk' = WalkFrom(p + 1, walk)
        /\ UNCHANGED <<list_sub_handle, calls, nodes, unsubs, subscribed>>
    BY DEF Resume
  <1>1. p \in DOMAIN list_sub_handle /\ list_sub_handle[p].node = walk.cursor
    BY <1>0 DEF PositionOf, Nodes
  <1> HIDE DEF p
  <1>2. p + 1 \in 1 .. Len(list_sub_handle) + 1 /\ (p + 1) - 1 = p
    BY <1>1 DEF HandlersIInv, Types
  <1>3. walk \in WalkRecord /\ Known(walk)
    BY <1>0, WalkTypes DEF HandlersIInv, WalkFits
  <1>4. walk' \in WalkRecord /\ walk'.valid = walk.valid /\ Known(walk')
    BY <1>0, <1>2, <1>3, WalkFromFacts, WalkFromKnows DEF HandlersIInv
  <1>5. ASSUME walk.valid
        PROVE  /\ IsInjective(walk'.heard)
               /\ walk'.state = "done" =>
                     \A k \in DOMAIN list_sub_handle :
                        (/\ list_sub_handle[k].node \in walk'.present
                         /\ DeliversTo(list_sub_handle[k].filter, walk'.name)) =>
                            list_sub_handle[k].node \in Range(walk'.heard)
               /\ walk'.state = "callback" =>
                     /\ \E d \in DOMAIN walk'.heard : walk'.heard[d] = walk'.cursor
                     /\ \A k \in DOMAIN list_sub_handle :
                           list_sub_handle[k].node = walk'.cursor => HeardUpTo(walk', k)
    <2>1. HeardUpTo(walk, p)
      BY <1>0, <1>1, <1>5 DEF HandlersIInv, Standing
    <2>2. IsInjective(walk.heard)
      BY <1>0, <1>5 DEF HandlersIInv, HeardOnce
    <2> QED BY <1>0, <1>2, <1>3, <2>1, <2>2, WalkFromHears DEF HandlersIInv
  <1>6. Types' /\ NodesFit' /\ NoIdenticalHandlers' /\ WildcardsCancelled'
    BY <1>0, <1>4 DEF HandlersIInv, Types, NodesFit, NoIdenticalHandlers, WildcardsCancelled
  <1>7. WalkFits' /\ HeardOnce'
    BY <1>0, <1>4, <1>5 DEF WalkFits, Known, HeardOnce
  <1>8. Standing'
    BY <1>0, <1>4, <1>5 DEF Standing, HeardUpTo
  <1>9. HeardByAll'
    BY <1>0, <1>4, <1>5 DEF HeardByAll
  <1> QED
    BY <1>6, <1>7, <1>8, <1>9 DEF HandlersIInv

(* A walk that went through a freed handler promises nothing.              *)
LEMMA ResumeFromFreedKeeps ==
    ASSUME HandlersIInv, ResumeFromFreed
    PROVE  HandlersIInv'
  <1>1. PICK i \in 1 .. Len(list_sub_handle) + 1 : walk' = [WalkFrom(i, walk) EXCEPT !.valid = FALSE]
    BY DEF ResumeFromFreed
  <1>2. /\ walk.state = "callback"
        /\ UNCHANGED <<list_sub_handle, calls, nodes, unsubs, subscribed>>
    BY DEF ResumeFromFreed
  <1>3. walk \in WalkRecord /\ Known(walk)
    BY <1>2, WalkTypes DEF HandlersIInv, WalkFits
  <1>4. PICK v \in WalkRecord : v = WalkFrom(i, walk)
    BY <1>3, WalkFromFacts DEF HandlersIInv
  <1>5. Known(v)
    BY <1>3, <1>4, WalkFromKnows DEF HandlersIInv
  <1>6. /\ walk' \in WalkRecord /\ ~walk'.valid
        /\ walk'.heard = v.heard /\ walk'.present = v.present
    BY <1>1, <1>4 DEF WalkRecord
  <1>7. Types' /\ NodesFit' /\ NoIdenticalHandlers' /\ WildcardsCancelled'
    BY <1>2, <1>6 DEF HandlersIInv, Types, NodesFit, NoIdenticalHandlers, WildcardsCancelled
  <1>8. WalkFits'
    BY <1>2, <1>5, <1>6 DEF WalkFits, Known
  <1> QED
    BY <1>6, <1>7, <1>8 DEF HandlersIInv, HeardOnce, Standing, HeardByAll

(* An empty list, and no walk.                                             *)
LEMMA HandlersInitial ==
    HandlersInit => HandlersIInv
  <1> SUFFICES ASSUME HandlersInit PROVE HandlersIInv
    OBVIOUS
  <1>1. /\ list_sub_handle = <<>> /\ DOMAIN list_sub_handle = {}
        /\ calls = [t \in Callers |-> NoCall] /\ nodes = 0 /\ unsubs = 0
        /\ walk = [state |-> "none"] /\ walk.state = "none" /\ subscribed = {}
    BY DEF HandlersInit
  <1>2. Types
    BY <1>1, HandlersAssumption DEF Types
  <1>3. NodesFit
    BY <1>1 DEF NodesFit, NoCall
  <1>4. walk.state # "callback" /\ walk.state # "done"
    BY <1>1
  <1> QED
    BY <1>1, <1>2, <1>3, <1>4
    DEF HandlersIInv, NoIdenticalHandlers, WalkFits, HeardOnce, Standing, HeardByAll, WildcardsCancelled

(* Every reachable state of the list, of the calls that share it and of    *)
(* the walk over it satisfies HandlersIInv.                                *)
LEMMA HandlersInvariant == HandlersSpec => []HandlersIInv
  <1>1. HandlersIInv /\ [HandlersNext]_handlerVars => HandlersIInv'
    <2> SUFFICES ASSUME HandlersIInv, [HandlersNext]_handlerVars PROVE HandlersIInv'
      OBVIOUS
    <2>1. CASE UNCHANGED handlerVars
      BY <2>1 DEF handlerVars, HandlersIInv, Types, NodesFit, NoIdenticalHandlers, WalkFits, Known,
         HeardOnce, Standing, HeardUpTo, HeardByAll, WildcardsCancelled
    <2>2. CASE \E t \in Callers, f \in Filters, g \in Funcs : SendSubscribe(t, f, g)
      BY <2>2, SendSubscribeKeeps
    <2>3. CASE \E t \in Callers : SendFails(t) \/ AppendHandler(t)
      BY <2>3, SendFailsKeeps, AppendHandlerKeeps
    <2>4. CASE \E t \in Callers, f \in Filters : Unsubscribe(t, f)
      BY <2>4, UnsubscribeKeeps
    <2>5. CASE \E n \in Names : Arrive(n)
      BY <2>5, ArriveKeeps
    <2>6. CASE Resume
      BY <2>6, ResumeKeeps
    <2>7. CASE ResumeFromFreed
      BY <2>7, ResumeFromFreedKeeps
    <2> QED BY <2>1, <2>2, <2>3, <2>4, <2>5, <2>6, <2>7 DEF HandlersNext
  <1> QED
    BY HandlersInitial, <1>1, PTL DEF HandlersSpec

(* The list of handlers keeps its type: distinct allocations in it, and a  *)
(* walk over allocations that were made.                                   *)
THEOREM HandlersTypeCorrect == HandlersSpec => []HandlersTypeOK
  <1>1. HandlersIInv => HandlersTypeOK
    <2> SUFFICES ASSUME HandlersIInv PROVE HandlersTypeOK
      OBVIOUS
    <2>1. CASE walk.state = "none"
      BY <2>1 DEF HandlersIInv, Types, NodesFit, HandlersTypeOK
    <2>2. CASE walk.state # "none"
      <3>1. /\ walk.state \in {"callback", "done"} /\ walk.name \in Names
            /\ walk.heard \in Seq(1 .. MaxNodes) /\ walk.present \in SUBSET (1 .. MaxNodes)
        BY <2>2, WalkTypes DEF HandlersIInv, WalkRecord
      <3>2. nodes \in Nat
        BY HandlersAssumption DEF HandlersIInv, Types
      <3>3. \A x \in 1 .. MaxNodes : x <= nodes => x \in 1 .. nodes
        BY <3>2
      <3>4. \A x \in walk.present : x \in 1 .. nodes
        BY <2>2, <3>1, <3>3 DEF HandlersIInv, WalkFits, Known
      <3>5. walk.heard \in Seq(1 .. nodes)
        <4>1. \A d \in 1 .. Len(walk.heard) : walk.heard[d] \in 1 .. nodes
          <5>1. DOMAIN walk.heard = 1 .. Len(walk.heard)
            BY <3>1
          <5> QED BY <2>2, <3>3, <5>1, WalkTypes DEF HandlersIInv, WalkFits, Known
        <4>2. /\ walk.heard = [d \in 1 .. Len(walk.heard) |-> walk.heard[d]]
              /\ Len(walk.heard) \in Nat
          BY <3>1
        <4>3. walk.heard \in [1 .. Len(walk.heard) -> 1 .. nodes]
          BY <4>1, <4>2
        <4> QED BY <4>2, <4>3, SeqDef
      <3> QED BY <3>1, <3>4, <3>5 DEF HandlersIInv, Types, NodesFit, HandlersTypeOK
    <2> QED BY <2>1, <2>2
  <1> QED
    BY <1>1, HandlersInvariant, PTL

(* MQTTSubscribe's test for a handler with the same topic, function and    *)
(* context, under lock_generic, keeps identical handlers out of the list,  *)
(* for any number of threads that subscribe at the same time.              *)
THEOREM NoHandlerTwice == HandlersSpec => []NoIdenticalHandlers
  <1>1. HandlersIInv => NoIdenticalHandlers
    BY DEF HandlersIInv
  <1> QED
    BY <1>1, HandlersInvariant, PTL

(* iotx_mc_deliver_message calls no handler twice for one message,         *)
(* although other calls append to the list and remove from it while        *)
(* lock_generic is released around every callback, as long as the handler  *)
(* it stands on is not freed.                                              *)
THEOREM CalledOnce == HandlersSpec => []HeardOnce
  <1>1. HandlersIInv => HeardOnce
    BY DEF HandlersIInv
  <1> QED
    BY <1>1, HandlersInvariant, PTL

(* ... and it calls every matching handler that was in the list when the   *)
(* message came in and is still there at the end.                          *)
THEOREM CalledAll == HandlersSpec => []HeardByAll
  <1>1. HandlersIInv => HeardByAll
    BY DEF HandlersIInv
  <1> QED
    BY <1>1, HandlersInvariant, PTL

(* MQTTUnsubscribe, which matches the given filter as if it were a name,   *)
(* does remove the handlers of a filter that ends with a wildcard: none is *)
(* left of a subscription that was cancelled.                              *)
THEOREM WildcardsGo == HandlersSpec => []WildcardsCancelled
  <1>1. HandlersIInv => WildcardsCancelled
    BY DEF HandlersIInv
  <1> QED
    BY <1>1, HandlersInvariant, PTL

(* MQTTUnsubscribe takes nothing else away: the terminator it appends is   *)
(* only met by a wildcard at the end.                                      *)
LEMMA OnlyWildRemoved ==
    ASSUME NEW s \in Seq(Char), s # <<>>, NEW f \in Seq(Char), UnsubscribeRemoves(s, f)
    PROVE  EndsWild(s)
  <1> DEFINE n == Append(f, NUL)
             W(i, j) == MatchWalk(s, n)[<<i, j>>]
             Ends(i) == s[Len(s)] \in {"+", "#"} /\ \A x \in i .. Len(s) - 1 : s[x] # "#"
             P(i) == \A j \in 1 .. Len(n) : W(i, j) => Ends(i)
             T == {d \in Nat : \A i \in 1 .. Len(s) : Len(s) - i <= d => P(i)}
  <1>0. /\ Len(s) \in Nat /\ Len(s) > 0 /\ Len(f) \in Nat
        /\ Len(n) \in Nat /\ Len(n) > 0 /\ n[Len(n)] = NUL
    OBVIOUS
  <1>1. NUL \notin Char /\ \A i \in 1 .. Len(s) : s[i] \in Char
    BY TopicAssumption DEF Char, NUL
  <1> HIDE DEF n
  <1>2. ASSUME NEW i \in 1 .. Len(s), \A k \in 1 .. Len(s) : k > i => P(k)
        PROVE  P(i)
    <2> SUFFICES ASSUME NEW j \in 1 .. Len(n), W(i, j) PROVE Ends(i)
      OBVIOUS
    <2> DEFINE e == StandsUpTo(s, i, n, j)
    <2>1. e \in j .. Len(n)
      BY <1>0, StandsUpToFacts
    <2>2. Meets(s[i], n[j]) /\ W(i + 1, e + 1)
      BY <1>0, MatchWalkOn
    <2>3. s[i] \notin {"+", "#"} => e = j
      BY DEF StandsUpTo
    <2>4. s[i] = "#" => e = Len(n)
      BY DEF StandsUpTo
    <2> HIDE DEF e
    <2>5. i + 1 \in 1 .. Len(s) + 1 /\ e + 1 \in 1 .. Len(n) + 1
      BY <1>0, <2>1
    <2>6. CASE i = Len(s)
      <3>1. e = Len(n)
        <4>1. i + 1 > Len(s)
          BY <2>6, <1>0
        <4>2. W(i + 1, e + 1) = (i + 1 = Len(s) + 1 /\ e + 1 = Len(n) + 1)
          BY <1>0, <2>5, <4>1, MatchWalkStep
        <4>3. e + 1 = Len(n) + 1
          <5> HIDE DEF W
          <5> QED BY <2>2, <4>2
        <4> QED BY <2>1, <4>3, <1>0
      <3>2. s[i] \in {"+", "#"}
        <4>1. CASE s[i] \notin {"+", "#"}
          <5>1. n[j] = NUL
            BY <2>3, <3>1, <4>1, <1>0
          <5>2. s[i] = NUL
            BY <2>2, <4>1, <5>1 DEF Meets
          <5> QED BY <5>2, <1>1
        <4> QED BY <4>1
      <3> QED BY <2>6, <3>2, <1>0
    <2>7. CASE i # Len(s)
      <3>1. i + 1 \in 1 .. Len(s) /\ i + 1 > i
        BY <2>7, <1>0
      <3>2. e # Len(n)
        <4>1. e = Len(n) => e + 1 > Len(n) /\ i + 1 # Len(s) + 1
          BY <2>7, <1>0
        <4>2. e = Len(n) => ~W(i + 1, e + 1)
          BY <1>0, <2>5, <4>1, MatchWalkStep
        <4> HIDE DEF W
        <4> QED BY <2>2, <4>2
      <3>3. e + 1 \in 1 .. Len(n)
        BY <2>1, <3>2, <1>0
      <3>4. Ends(i + 1)
        <4>1. P(i + 1)
          <5> HIDE DEF P
          <5> QED BY <1>2, <3>1
        <4> HIDE DEF W, Ends
        <4> QED BY <4>1, <3>3, <2>2
      <3>5. s[i] # "#"
        BY <2>4, <3>2
      <3>6. \A x \in i .. Len(s) - 1 : x = i \/ x \in i + 1 .. Len(s) - 1
        BY <1>0
      <3> QED BY <3>4, <3>5, <3>6
    <2> QED BY <2>6, <2>7
  <1>3. ~MQTTPacket_equals(n, s)
    <2>1. Len(n) \in 1 .. Len(n)
      BY <1>0
    <2> QED BY <2>1, <1>0, <1>1 DEF MQTTPacket_equals
  <1>4. W(1, 1)
    BY <1>3 DEF UnsubscribeRemoves, iotx_mc_is_topic_matched, n
  <1>5. P(1)
    <2> HIDE DEF P
    <2>1. 0 \in T
      <3>1. \A i \in 1 .. Len(s) : Len(s) - i <= 0 => \A k \in 1 .. Len(s) : ~(k > i)
        BY <1>0
      <3> QED BY <3>1, <1>2
    <2>2. ASSUME NEW d \in Nat, d \in T PROVE d + 1 \in T
      <3> SUFFICES ASSUME NEW i \in 1 .. Len(s), Len(s) - i <= d + 1 PROVE P(i)
        OBVIOUS
      <3>1. \A k \in 1 .. Len(s) : k > i => Len(s) - k <= d
        BY <1>0
      <3> QED BY <1>2, <2>2, <3>1
    <2>3. Nat \subseteq T
      <3> HIDE DEF T
      <3> QED BY <2>1, <2>2, NatSetInduction
    <2>4. 1 \in 1 .. Len(s) /\ Len(s) - 1 \in Nat /\ Len(s) - 1 <= Len(s) - 1
      BY <1>0
    <2> QED BY <2>3, <2>4
  <1>6. 1 \in 1 .. Len(n)
    BY <1>0
  <1>7. Ends(1)
    <2> HIDE DEF W, Ends
    <2> QED BY <1>4, <1>5, <1>6
  <1> QED
    BY <1>7 DEF EndsWild

(* The filters in use are texts with at least one character.               *)
LEMMA FilterText ==
    ASSUME NEW f \in Filters
    PROVE  f \in Seq(Char) /\ f # <<>>
  BY HandlersAssumption DEF iotx_mc_check_topic

(* No MQTTUnsubscribe takes the handler of a subscription whose filter     *)
(* does not end with a wildcard, its own filter included: the subscription *)
(* is in the list as long as the application has not cancelled it.         *)
THEOREM LiteralsStay == HandlersSpec => []LiteralsKept
  <1> DEFINE Held(s) == \E i \in DOMAIN list_sub_handle :
                           s = <<list_sub_handle[i].filter, list_sub_handle[i].h_fp>>
  <1>1. HandlersInit => LiteralsKept
    BY DEF HandlersInit, LiteralsKept
  <1>2. HandlersIInv /\ LiteralsKept /\ [HandlersNext]_handlerVars => LiteralsKept'
    <2> SUFFICES ASSUME HandlersIInv, LiteralsKept, [HandlersNext]_handlerVars
                 PROVE  LiteralsKept'
      OBVIOUS
    <2>0. list_sub_handle \in Seq(Handler) /\ DOMAIN list_sub_handle = 1 .. Len(list_sub_handle)
      BY DEF HandlersIInv, Types
    <2>1. CASE UNCHANGED <<list_sub_handle, subscribed>>
      BY <2>1 DEF LiteralsKept
    <2>2. ASSUME NEW t \in Callers, AppendHandler(t) PROVE LiteralsKept'
      <3> DEFINE h == calls[t]
                 N == Len(list_sub_handle)
      <3>0. h \in Handler
        <4>1. h # NoCall
          BY <2>2 DEF AppendHandler
        <4> QED BY <4>1, SentCalls
      <3>1. subscribed' = subscribed \cup {<<h.filter, h.h_fp>>}
        BY <2>2 DEF AppendHandler
      <3>2. CASE list_sub_handle' = list_sub_handle
                 /\ \E i \in DOMAIN list_sub_handle : Identical(list_sub_handle[i], h)
        <4>1. <<h.filter, h.h_fp>> \in
                  {<<list_sub_handle[i].filter, list_sub_handle[i].h_fp>> :
                       i \in DOMAIN list_sub_handle}
          <5> HIDE DEF h
          <5> QED BY ONLY <3>2 DEF Identical
        <4>2. \A s \in subscribed' : s \in subscribed \/ s = <<h.filter, h.h_fp>>
          BY ONLY <3>1
        <4>3. LiteralsKept
          OBVIOUS
        <4> HIDE DEF h
        <4> QED BY ONLY <3>2, <4>1, <4>2, <4>3 DEF LiteralsKept
      <3>3. CASE list_sub_handle' = Append(list_sub_handle, h)
        <4> HIDE DEF h
        <4>1. /\ DOMAIN list_sub_handle' = 1 .. N + 1 /\ list_sub_handle'[N + 1] = h
              /\ N + 1 \in 1 .. N + 1
              /\ \A i \in DOMAIN list_sub_handle :
                    i \in 1 .. N + 1 /\ list_sub_handle'[i] = list_sub_handle[i]
          BY <2>0, <3>0, <3>3
        <4>2. \A s \in subscribed' : s \in subscribed \/ s = <<h.filter, h.h_fp>>
          BY ONLY <3>1
        <4>3. LiteralsKept
          OBVIOUS
        <4> HIDE DEF N
        <4> SUFFICES ASSUME NEW s \in subscribed', ~EndsWild(s[1])
                     PROVE  \E i \in DOMAIN list_sub_handle' :
                               s = <<list_sub_handle'[i].filter, list_sub_handle'[i].h_fp>>
          BY DEF LiteralsKept
        <4>4. CASE s \in subscribed
          BY ONLY <4>1, <4>3, <4>4, ~EndsWild(s[1]) DEF LiteralsKept
        <4>5. CASE s = <<h.filter, h.h_fp>>
          BY ONLY <4>1, <4>5
        <4> QED BY <4>2, <4>4, <4>5
      <3> QED BY <2>2, <3>2, <3>3 DEF AppendHandler
    <2>3. ASSUME NEW t \in Callers, NEW f \in Filters, Unsubscribe(t, f) PROVE LiteralsKept'
      <3> DEFINE N == Len(list_sub_handle)
                 rest == list_sub_handle'
      <3>1. /\ rest = Remaining(list_sub_handle, f)
            /\ subscribed' = {s \in subscribed : s[1] # f}
        BY <2>3 DEF Unsubscribe
      <3>2. PICK m : Keeps(list_sub_handle, f, N, rest, m)
        BY <2>0, <3>1, RemainingKeeps
      <3>3. rest \in Seq(Handler) /\ DOMAIN rest = 1 .. Len(rest)
        BY <2>0, <3>1, RemainingKeeps
      <3> SUFFICES ASSUME NEW s \in subscribed', ~EndsWild(s[1])
                   PROVE  \E k \in DOMAIN list_sub_handle' :
                             s = <<list_sub_handle'[k].filter, list_sub_handle'[k].h_fp>>
        BY DEF LiteralsKept
      <3>0. s \in subscribed
        BY <3>1
      <3>4. PICK i \in DOMAIN list_sub_handle :
                s = <<list_sub_handle[i].filter, list_sub_handle[i].h_fp>>
        BY <3>0 DEF LiteralsKept
      <3>5. ~UnsubscribeRemoves(list_sub_handle[i].filter, f)
        <4> DEFINE g == list_sub_handle[i].filter
        <4>1. g \in Filters /\ ~EndsWild(g)
          BY <3>4, HandlerAt DEF HandlersIInv
        <4> HIDE DEF g
        <4>2. ~UnsubscribeRemoves(g, f)
          BY <4>1, FilterText, OnlyWildRemoved
        <4> QED BY <4>2 DEF g
      <3>6. PICK k \in 1 .. Len(rest) : m[k] = i /\ rest[k] = list_sub_handle[m[k]]
        BY <2>0, <3>2, <3>5 DEF Keeps
      <3> QED BY <3>3, <3>4, <3>6
    <2>4. CASE UNCHANGED handlerVars
      BY <2>1, <2>4 DEF handlerVars
    <2> QED
      BY <2>1, <2>2, <2>3, <2>4
      DEF HandlersNext, SendSubscribe, SendFails, Arrive, Resume, ResumeFromFreed
  <1> QED
    BY <1>1, <1>2, HandlersInvariant, PTL DEF HandlersSpec
=============================================================================
