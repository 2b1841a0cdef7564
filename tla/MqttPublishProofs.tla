------------------------- MODULE MqttPublishProofs -------------------------
(***************************************************************************)
(* Proofs about MqttPublish: its type invariant, and that no accepted      *)
(* message is lost and no refused one delivered, for every set of publish  *)
(* calls and every value of the limits.                                    *)
(***************************************************************************)
EXTENDS MqttPublish, FiniteSetTheorems, TLAPS

-----------------------------------------------------------------------------
(* Type correctness *)

\* The packet identifier that is handed out is never 0 and never too large.
LEMMA NextPacketIdRange ==
    ASSUME packet_id \in 0..PACKET_ID_MAX
    PROVE  NextPacketId \in 1..PACKET_ID_MAX
  BY PublishAssumption DEF PublishAssumption, NextPacketId

\* A list below its limit may take one more node.
LEMMA RoomForOne ==
    ASSUME list_pub_wait_ack \in SUBSET Msgs,
           Cardinality(list_pub_wait_ack) < REPUB_NUM_MAX,
           NEW m \in Msgs
    PROVE  Cardinality(list_pub_wait_ack \cup {m}) <= REPUB_NUM_MAX
  <1>1. IsFiniteSet(list_pub_wait_ack)
    BY FS_Subset, PublishAssumption DEF PublishAssumption
  <1>2. Cardinality(list_pub_wait_ack) \in Nat
    BY <1>1, FS_CardinalityType
  <1>3. Cardinality(list_pub_wait_ack \cup {m}) \in
            {Cardinality(list_pub_wait_ack), Cardinality(list_pub_wait_ack) + 1}
    BY <1>1, FS_AddElement
  <1> QED BY <1>2, <1>3, PublishAssumption DEF PublishAssumption

\* Taking a node out keeps the list within its limit.
LEMMA OneFewer ==
    ASSUME list_pub_wait_ack \in SUBSET Msgs,
           Cardinality(list_pub_wait_ack) <= REPUB_NUM_MAX,
           NEW m \in Msgs
    PROVE  Cardinality(list_pub_wait_ack \ {m}) <= REPUB_NUM_MAX
  <1>1. IsFiniteSet(list_pub_wait_ack)
    BY FS_Subset, PublishAssumption DEF PublishAssumption
  <1>2. /\ Cardinality(list_pub_wait_ack) \in Nat
        /\ Cardinality(list_pub_wait_ack \ {m}) \in Nat
        /\ Cardinality(list_pub_wait_ack \ {m}) <= Cardinality(list_pub_wait_ack)
    BY <1>1, FS_Subset, FS_CardinalityType, list_pub_wait_ack \ {m} \subseteq list_pub_wait_ack
  <1> QED BY <1>2, PublishAssumption DEF PublishAssumption

LEMMA TypeInit == Init => TypeOK
  <1> SUFFICES ASSUME Init PROVE TypeOK OBVIOUS
  <1>1. Cardinality(list_pub_wait_ack) <= REPUB_NUM_MAX
    BY FS_EmptySet, PublishAssumption DEF Init, PublishAssumption
  <1>2. c2b \in Seq(Msgs) /\ b2c \in Seq(1..PACKET_ID_MAX)
    BY DEF Init
  <1> QED BY <1>1, <1>2, PublishAssumption
          DEF Init, TypeOK, PublishAssumption, States, Calls

\* The part of TypeOK that is about the transport.
NetType ==
    /\ net \in {"up", "down", "closed"}
    /\ c2b \in Seq(Msgs)
    /\ b2c \in Seq(1..PACKET_ID_MAX)
    /\ delivered \in SUBSET Msgs
    /\ drops \in 0..MaxDrops

LEMMA NetTypeKept ==
    ASSUME TypeOK, Broken \/ Closed \/ UNCHANGED netVars
    PROVE  NetType'
  <1> USE PublishAssumption DEF PublishAssumption, TypeOK, NetType, netVars
  <1>1. CASE Broken
    BY <1>1 DEF Broken
  <1>2. CASE Closed
    BY <1>2 DEF Closed
  <1>3. CASE UNCHANGED netVars
    BY <1>3
  <1> QED BY <1>1, <1>2, <1>3

LEMMA NetTypeWritten ==
    ASSUME TypeOK, NEW m \in Msgs, Written(m)
    PROVE  NetType'
  <1>1. c2b' \in Seq(Msgs)
    BY DEF TypeOK, Written
  <1> QED BY <1>1 DEF TypeOK, NetType, Written

LEMMA TypePublishing ==
    ASSUME TypeOK, NEW m \in Msgs, Publishing(m)
    PROVE  TypeOK'
  <1> USE PublishAssumption DEF PublishAssumption, States, Calls, histVars,
          callVars, clientVars, netVars
  <1>1. CASE CheckState(m)
    BY <1>1 DEF TypeOK, CheckState
  <1>2. CASE GetPacketId(m)
    <2>1. NextPacketId \in 1..PACKET_ID_MAX
      BY NextPacketIdRange DEF TypeOK
    <2> QED BY <1>2, <2>1 DEF TypeOK, GetPacketId, Allocate
  <1>3. CASE PushRefused(m)
    BY <1>3 DEF TypeOK, PushRefused
  <1>4. CASE PushAndSend(m)
    <2>1. Cardinality(list_pub_wait_ack') <= REPUB_NUM_MAX
      BY <1>4, RoomForOne DEF TypeOK, PushAndSend
    <2>2. c2b' \in Seq(Msgs)
      BY <1>4 DEF TypeOK, PushAndSend, Written
    <2> QED BY <1>4, <2>1, <2>2 DEF TypeOK, PushAndSend, Written
  <1>5. CASE PushSendFails(m)
    <2>1. NetType'
      BY <1>5, NetTypeKept DEF PushSendFails, WriteFails
    <2> QED BY <1>5, <2>1 DEF TypeOK, NetType, PushSendFails
  <1>6. CASE SetDisconnected(m)
    BY <1>6 DEF TypeOK, SetDisconnected
  <1> QED BY <1>1, <1>2, <1>3, <1>4, <1>5, <1>6 DEF Publishing

LEMMA TypeSweeping ==
    ASSUME TypeOK, NEW m \in Msgs, Sweeping(m)
    PROVE  TypeOK'
  <1> USE PublishAssumption DEF PublishAssumption, States, Calls, histVars,
          callVars, clientVars, netVars
  <1>1. CASE FreeInvalid(m)
    <2>1. Cardinality(list_pub_wait_ack') <= REPUB_NUM_MAX
      BY <1>1, OneFewer DEF TypeOK, FreeInvalid
    <2> QED BY <1>1, <2>1 DEF TypeOK, FreeInvalid
  <1>2. CASE SkipNode(m)
    BY <1>2 DEF TypeOK, SkipNode
  <1>3. CASE Republish(m)
    <2>1. NetType'
      BY <1>3, NetTypeWritten DEF Republish
    <2> QED BY <1>3, <2>1 DEF TypeOK, NetType, Republish, Overdue
  <1>4. CASE RepublishFails(m)
    <2>1. NetType'
      BY <1>4, NetTypeKept DEF RepublishFails, WriteFails
    <2> QED BY <1>4, <2>1 DEF TypeOK, NetType, RepublishFails, Overdue
  <1> QED BY <1>1, <1>2, <1>3, <1>4 DEF Sweeping

LEMMA TypeYielding ==
    ASSUME TypeOK, Yielding
    PROVE  TypeOK'
  <1> USE PublishAssumption DEF PublishAssumption, States, Calls, histVars,
          callVars, clientVars, netVars
  <1>1. CASE KeepaliveConnected
    BY <1>1 DEF TypeOK, KeepaliveConnected
  <1>2. CASE KeepaliveDisconnected
    <2>1. NetType'
      BY <1>2, NetTypeKept DEF KeepaliveDisconnected
    <2> QED BY <1>2, <2>1 DEF TypeOK, NetType, KeepaliveDisconnected
  <1>3. CASE KeepaliveReconnect
    BY <1>3 DEF TypeOK, KeepaliveReconnect
  <1>4. CASE KeepaliveReconnectFails
    <2>1. NetType'
      BY <1>4, NetTypeKept DEF KeepaliveReconnectFails
    <2> QED BY <1>4, <2>1 DEF TypeOK, NetType, KeepaliveReconnectFails
  <1>5. CASE CycleNotConnected
    BY <1>5 DEF TypeOK, CycleNotConnected
  <1>6. CASE CyclePuback
    <2>1. b2c' \in Seq(1..PACKET_ID_MAX)
      BY <1>6 DEF TypeOK, CyclePuback
    <2>2. node_state' \in [Msgs -> {"NORMAL", "INVALID"}]
      BY <1>6 DEF TypeOK, CyclePuback, MaskPubInfo
    <2> QED BY <1>6, <2>1, <2>2 DEF TypeOK, CyclePuback, ToSweep
  <1>7. CASE CycleIdle
    BY <1>7 DEF TypeOK, CycleIdle, ToSweep
  <1>8. CASE CycleReadError
    BY <1>8 DEF TypeOK, CycleReadError
  <1>9. CASE \E m \in Msgs : Sweeping(m)
    BY <1>9, TypeSweeping
  <1>10. CASE EndSweep
    BY <1>10 DEF TypeOK, EndSweep
  <1> QED BY <1>1, <1>2, <1>3, <1>4, <1>5, <1>6, <1>7, <1>8, <1>9, <1>10
          DEF Yielding

\* What the network holds: packets of accepted messages, and the PUBACKs of
\* delivered ones; and every delivered message was accepted.
Where ==
    /\ \A m \in list_pub_wait_ack : pc[m] = "accepted"
    /\ \A i \in 1..Len(c2b) : pc[c2b[i]] = "accepted"
    /\ \A m \in delivered : pc[m] = "accepted"
    /\ \A i \in 1..Len(b2c) : \E m \in delivered : msg_id[m] = b2c[i]

LEMMA TypeEnvironment ==
    ASSUME TypeOK, Where, Environment
    PROVE  TypeOK'
  <1> USE PublishAssumption DEF PublishAssumption, States, Calls, histVars,
          callVars, clientVars, netVars
  <1>1. CASE BrokerReceives
    <2>1. 1 \in 1..Len(c2b) /\ Head(c2b) = c2b[1] /\ Head(c2b) \in Msgs
      BY <1>1 DEF TypeOK, BrokerReceives
    <2>2. msg_id[Head(c2b)] \in 1..PACKET_ID_MAX
      BY <2>1 DEF TypeOK, Where
    <2>3. c2b' \in Seq(Msgs) /\ b2c' \in Seq(1..PACKET_ID_MAX)
      BY <1>1, <2>1, <2>2 DEF TypeOK, BrokerReceives
    <2> QED BY <1>1, <2>1, <2>3 DEF TypeOK, BrokerReceives
  <1>2. CASE ConnectionBreaks
    <2>1. NetType'
      BY <1>2, NetTypeKept DEF ConnectionBreaks
    <2> QED BY <1>2, <2>1 DEF TypeOK, NetType, ConnectionBreaks
  <1>3. CASE \E m \in Msgs : TimePasses(m)
    BY <1>3 DEF TypeOK, TimePasses
  <1> QED BY <1>1, <1>2, <1>3 DEF Environment
-----------------------------------------------------------------------------
(* Where a message can be *)

\* A write adds at most the packet of the message written.
LEMMA WrittenWhere ==
    ASSUME TypeOK, Where, NEW m \in Msgs, Written(m), pc' \in [Msgs -> Calls],
           pc'[m] = "accepted", \A n \in Msgs : pc[n] = "accepted" => pc'[n] = "accepted"
    PROVE  \A i \in 1..Len(c2b') : pc'[c2b'[i]] = "accepted"
  <1>1. CASE net = "up"
    <2>1. c2b' = Append(c2b, m)
      BY <1>1 DEF Written
    <2>2. Len(c2b') = Len(c2b) + 1 /\ c2b'[Len(c2b) + 1] = m
          /\ \A i \in 1..Len(c2b) : c2b'[i] = c2b[i] /\ c2b[i] \in Msgs
      BY <2>1 DEF TypeOK
    <2>3. Len(c2b) \in Nat
      BY DEF TypeOK
    <2> QED BY <2>2, <2>3 DEF Where
  <1>2. CASE net # "up"
    <2>1. c2b' = c2b /\ \A i \in 1..Len(c2b) : c2b[i] \in Msgs
      BY <1>2 DEF Written, TypeOK
    <2> QED BY <2>1 DEF Where
  <1> QED BY <1>1, <1>2

\* A failure of the connection only takes packets away.
LEMMA LessInFlight ==
    ASSUME Broken \/ Closed \/ UNCHANGED netVars
    PROVE  /\ delivered' = delivered
           /\ c2b' = c2b \/ c2b' = <<>>
           /\ b2c' = b2c \/ b2c' = <<>>
  BY DEF Broken, Closed, netVars

LEMMA WherePublishing ==
    ASSUME TypeOK, Where, NEW m \in Msgs, Publishing(m), TypeOK'
    PROVE  Where'
  <1> USE DEF histVars, callVars, clientVars, netVars
  <1>a. \A i \in 1..Len(c2b) : c2b[i] \in Msgs
    BY DEF TypeOK
  <1>b. pc \in [Msgs -> Calls] /\ msg_id \in [Msgs -> 0..PACKET_ID_MAX]
        /\ delivered \subseteq Msgs /\ list_pub_wait_ack \subseteq Msgs
    BY DEF TypeOK
  <1>1. CASE CheckState(m)
    BY <1>1, <1>a, <1>b DEF Where, CheckState
  <1>2. CASE GetPacketId(m)
    BY <1>2, <1>a, <1>b DEF Where, GetPacketId, Allocate
  <1>3. CASE PushRefused(m)
    BY <1>3, <1>a, <1>b DEF Where, PushRefused
  <1>4. CASE PushAndSend(m)
    <2>1. \A i \in 1..Len(c2b') : pc'[c2b'[i]] = "accepted"
      BY <1>4, <1>b, WrittenWhere DEF PushAndSend, TypeOK
    <2>2. \A n \in list_pub_wait_ack' \cup delivered' : pc'[n] = "accepted"
      BY <1>4, <1>b DEF PushAndSend, Where, Written
    <2>3. UNCHANGED <<b2c, delivered, msg_id>>
      BY <1>4 DEF PushAndSend, Written
    <2> QED BY <2>1, <2>2, <2>3 DEF Where
  <1>5. CASE PushSendFails(m)
    <2>1. /\ delivered' = delivered
          /\ c2b' = c2b \/ c2b' = <<>>
          /\ b2c' = b2c \/ b2c' = <<>>
      BY <1>5, LessInFlight DEF PushSendFails, WriteFails
    <2>2. UNCHANGED <<list_pub_wait_ack, msg_id>>
          /\ pc[m] = "send" /\ pc' = [pc EXCEPT ![m] = "error"]
      BY <1>5 DEF PushSendFails
    <2> QED BY <2>1, <2>2, <1>a, <1>b DEF Where
  <1>6. CASE SetDisconnected(m)
    BY <1>6, <1>a, <1>b DEF Where, SetDisconnected
  <1> QED BY <1>1, <1>2, <1>3, <1>4, <1>5, <1>6 DEF Publishing

LEMMA WhereSweeping ==
    ASSUME TypeOK, Where, NEW m \in Msgs, Sweeping(m), TypeOK'
    PROVE  Where'
  <1> USE DEF histVars, callVars, clientVars, netVars
  <1>1. CASE FreeInvalid(m)
    BY <1>1 DEF Where, FreeInvalid
  <1>2. CASE SkipNode(m)
    BY <1>2 DEF Where, SkipNode
  <1>3. CASE Republish(m)
    <2>1. UNCHANGED <<list_pub_wait_ack, msg_id, pc, delivered, b2c>>
      BY <1>3 DEF Republish, Overdue, Written
    <2>2. pc[m] = "accepted"
      BY <1>3 DEF Republish, Overdue, Where, TypeOK
    <2>3. \A i \in 1..Len(c2b') : pc'[c2b'[i]] = "accepted"
      BY <1>3, <2>1, <2>2, WrittenWhere DEF Republish, TypeOK
    <2> QED BY <2>1, <2>3 DEF Where
  <1>4. CASE RepublishFails(m)
    <2>1. UNCHANGED <<list_pub_wait_ack, msg_id, pc>>
      BY <1>4 DEF RepublishFails, Overdue
    <2>2. /\ delivered' = delivered
          /\ c2b' = c2b \/ c2b' = <<>>
          /\ b2c' = b2c \/ b2c' = <<>>
      BY <1>4, LessInFlight DEF RepublishFails, WriteFails
    <2> QED BY <2>1, <2>2 DEF Where
  <1> QED BY <1>1, <1>2, <1>3, <1>4 DEF Sweeping

LEMMA WhereYielding ==
    ASSUME TypeOK, Where, Yielding, TypeOK'
    PROVE  Where'
  <1> USE DEF histVars, callVars, clientVars, netVars
  <1>1. CASE KeepaliveConnected \/ CycleNotConnected \/ CycleIdle
             \/ CycleReadError \/ EndSweep
    BY <1>1 DEF Where, KeepaliveConnected, CycleNotConnected, CycleIdle,
                CycleReadError, EndSweep
  <1>2. CASE KeepaliveDisconnected \/ KeepaliveReconnect
             \/ KeepaliveReconnectFails
    BY <1>2 DEF Where, KeepaliveDisconnected, KeepaliveReconnect,
                KeepaliveReconnectFails, Closed
  <1>3. CASE CyclePuback
    <2>1. UNCHANGED <<list_pub_wait_ack, msg_id, pc, delivered, c2b>>
          /\ b2c # <<>> /\ b2c' = Tail(b2c)
      BY <1>3 DEF CyclePuback
    <2>2. Len(b2c') = Len(b2c) - 1 /\ Len(b2c) \in Nat
          /\ \A i \in 1..Len(b2c') : b2c'[i] = b2c[i + 1]
      BY <2>1 DEF TypeOK
    <2> QED BY <2>1, <2>2 DEF Where
  <1>4. CASE \E m \in Msgs : Sweeping(m)
    BY <1>4, WhereSweeping
  <1> QED BY <1>1, <1>2, <1>3, <1>4 DEF Yielding

LEMMA WhereEnvironment ==
    ASSUME TypeOK, Where, Environment, TypeOK'
    PROVE  Where'
  <1> USE DEF histVars, callVars, clientVars, netVars
  <1>1. CASE BrokerReceives
    <2> DEFINE h == Head(c2b)
    <2>1. Len(c2b) \in Nat /\ Len(c2b') = Len(c2b) - 1 /\ Len(c2b) > 0 /\ h = c2b[1]
          /\ \A i \in 1..Len(c2b') : c2b'[i] = c2b[i + 1]
      BY <1>1 DEF BrokerReceives, TypeOK
    <2>2. pc[h] = "accepted"
      BY <2>1 DEF Where
    <2>3. Len(b2c) \in Nat /\ Len(b2c') = Len(b2c) + 1
          /\ b2c'[Len(b2c) + 1] = msg_id[h]
          /\ \A i \in 1..Len(b2c) : b2c'[i] = b2c[i]
      BY <1>1 DEF BrokerReceives, TypeOK
    <2>4. UNCHANGED <<list_pub_wait_ack, msg_id, pc>>
          /\ delivered' = delivered \cup {h}
      BY <1>1 DEF BrokerReceives
    <2>5. \A i \in 1..Len(c2b') : pc'[c2b'[i]] = "accepted"
      BY <2>1, <2>4 DEF Where
    <2>6. \A i \in 1..Len(b2c') : \E m \in delivered' : msg_id'[m] = b2c'[i]
      BY <2>3, <2>4 DEF Where
    <2> QED BY <2>2, <2>4, <2>5, <2>6 DEF Where
  <1>2. CASE ConnectionBreaks
    BY <1>2 DEF Where, ConnectionBreaks, Broken
  <1>3. CASE \E m \in Msgs : TimePasses(m)
    BY <1>3 DEF Where, TimePasses
  <1> QED BY <1>1, <1>2, <1>3 DEF Environment
-----------------------------------------------------------------------------
(* Packet identifiers *)

\* The k-th identifier allocated is id: k and id agree modulo PACKET_ID_MAX.
Lap(k, id) == \E w \in Nat : k = w * PACKET_ID_MAX + id

LEMMA NextLap ==
    ASSUME NEW k \in Nat, packet_id \in 0..PACKET_ID_MAX, Lap(k, packet_id)
    PROVE  Lap(k + 1, NextPacketId)
  <1> USE PublishAssumption DEF PublishAssumption
  <1>1. PICK w \in Nat : k = w * PACKET_ID_MAX + packet_id
    BY DEF Lap
  <1>2. CASE packet_id = PACKET_ID_MAX
    <2>1. k + 1 = (w + 1) * PACKET_ID_MAX + 1
      BY <1>1, <1>2
    <2> QED BY <1>2, <2>1 DEF Lap, NextPacketId
  <1>3. CASE packet_id # PACKET_ID_MAX
    <2>1. k + 1 = w * PACKET_ID_MAX + (packet_id + 1)
      BY <1>1
    <2> QED BY <1>3, <2>1 DEF Lap, NextPacketId
  <1> QED BY <1>2, <1>3

\* Allocations that give the same identifier are whole laps apart.
LEMMA LapsApart ==
    ASSUME NEW j \in Nat, NEW k \in Nat, NEW id \in 0..PACKET_ID_MAX,
           Lap(j, id), Lap(k, id), j < k
    PROVE  k - j >= PACKET_ID_MAX
  <1> USE PublishAssumption DEF PublishAssumption
  <1>1. PICK v \in Nat : j = v * PACKET_ID_MAX + id
    BY DEF Lap
  <1>2. PICK w \in Nat : k = w * PACKET_ID_MAX + id
    BY DEF Lap
  <1>3. k - j = (w - v) * PACKET_ID_MAX
    BY <1>1, <1>2
  <1>4. w - v >= 1
    BY <1>3
  <1> QED BY <1>3, <1>4

\* In the first lap the identifier is the number of the allocation.
LEMMA FirstLap ==
    ASSUME NEW k \in 1..PACKET_ID_MAX, NEW id \in 1..PACKET_ID_MAX, Lap(k, id)
    PROVE  k = id
  <1> USE PublishAssumption DEF PublishAssumption
  <1>1. PICK w \in Nat : k = w * PACKET_ID_MAX + id
    BY DEF Lap
  <1>2. w < 1
    BY <1>1
  <1> QED BY <1>1, <1>2

Ids ==
    /\ Lap(allocs, packet_id)
    /\ \A m \in Msgs :
          /\ seq[m] <= allocs
          /\ pc[m] \in {"send", "accepted"} => seq[m] # 0
          /\ seq[m] # 0 => msg_id[m] # 0 /\ Lap(seq[m], msg_id[m])
    /\ \A m, n \in Msgs : m # n /\ seq[m] = seq[n] => seq[m] = 0

LEMMA IdsInit == Init => Ids
  <1> SUFFICES ASSUME Init PROVE Ids OBVIOUS
  <1>1. Lap(allocs, packet_id)
    <2>1. allocs = 0 * PACKET_ID_MAX + packet_id
      BY PublishAssumption DEF Init, PublishAssumption
    <2> QED BY <2>1 DEF Lap
  <1> QED BY <1>1 DEF Init, Ids

LEMMA IdsAllocate ==
    ASSUME TypeOK, Ids, Allocate
    PROVE  Lap(allocs', packet_id') /\ allocs' = allocs + 1 /\ allocs \in Nat
           /\ packet_id' = NextPacketId /\ NextPacketId \in 1..PACKET_ID_MAX
  <1>1. allocs \in Nat
    BY PublishAssumption DEF TypeOK, PublishAssumption
  <1>2. allocs' = allocs + 1 /\ packet_id' = NextPacketId
    BY DEF Allocate
  <1> QED BY <1>1, <1>2, NextLap, NextPacketIdRange DEF TypeOK, Ids

LEMMA IdsGetPacketId ==
    ASSUME TypeOK, Ids, NEW m \in Msgs, GetPacketId(m)
    PROVE  Ids'
  <1>1. /\ Lap(allocs', packet_id') /\ allocs' = allocs + 1 /\ allocs \in Nat
        /\ packet_id' = NextPacketId /\ NextPacketId \in 1..PACKET_ID_MAX
    BY IdsAllocate DEF GetPacketId
  <1>2. seq \in [Msgs -> Nat]
    BY PublishAssumption DEF TypeOK, PublishAssumption
  <1>3. /\ seq' = [seq EXCEPT ![m] = allocs + 1]
        /\ msg_id' = [msg_id EXCEPT ![m] = NextPacketId]
        /\ pc' = [pc EXCEPT ![m] = "send"]
    BY DEF GetPacketId
  <1>4. seq'[m] = allocs' /\ msg_id'[m] = packet_id' /\ msg_id'[m] # 0
    BY <1>1, <1>2, <1>3, PublishAssumption DEF TypeOK, PublishAssumption
  <1>5. \A n \in Msgs \ {m} :
          seq'[n] = seq[n] /\ msg_id'[n] = msg_id[n] /\ pc'[n] = pc[n]
    BY <1>2, <1>3 DEF TypeOK
  <1>6. \A n \in Msgs : seq[n] \in Nat /\ seq[n] <= allocs
    BY <1>2 DEF Ids
  <1>7. \A n \in Msgs \ {m} : seq'[n] < seq'[m] /\ seq'[m] # 0
    BY <1>1, <1>4, <1>5, <1>6
  <1>8. \A n \in Msgs \ {m} :
          seq'[n] # 0 => msg_id'[n] # 0 /\ Lap(seq'[n], msg_id'[n])
    BY <1>5 DEF Ids
  <1>9. \A n, k \in Msgs : n # k /\ seq'[n] = seq'[k] => seq'[n] = 0
    BY <1>5, <1>6, <1>7 DEF Ids
  <1>10. seq'[m] # 0 /\ Lap(seq'[m], msg_id'[m]) /\ seq'[m] <= allocs'
    BY <1>1, <1>4
  <1>11. \A n \in Msgs \ {m} :
          seq'[n] <= allocs' /\ (pc'[n] \in {"send", "accepted"} => seq'[n] # 0)
    BY <1>1, <1>5, <1>6 DEF Ids
  <1> QED BY <1>1, <1>4, <1>8, <1>9, <1>10, <1>11 DEF Ids, Lap

\* The other steps allocate nothing, and an accepted call was about to send.
LEMMA IdsFrame ==
    ASSUME TypeOK, Ids, UNCHANGED <<allocs, packet_id, msg_id, seq>>,
           \A m \in Msgs : pc'[m] \in {"send", "accepted"} =>
                              pc[m] \in {"send", "accepted"}
    PROVE  Ids'
  BY DEF Ids, Lap

LEMMA IdsNext ==
    ASSUME TypeOK, Ids, Next
    PROVE  Ids'
  <1> USE DEF histVars, callVars, clientVars, netVars
  <1>1. ASSUME NEW m \in Msgs, Publishing(m) PROVE Ids'
    <2>1. CASE GetPacketId(m)
      BY <2>1, IdsGetPacketId
    <2>2. CASE CheckState(m)
      BY <2>2, IdsFrame DEF CheckState, TypeOK
    <2>3. CASE PushRefused(m)
      BY <2>3, IdsFrame DEF PushRefused, TypeOK
    <2>4. CASE PushAndSend(m)
      BY <2>4, IdsFrame DEF PushAndSend, TypeOK
    <2>5. CASE PushSendFails(m)
      BY <2>5, IdsFrame DEF PushSendFails, TypeOK
    <2>6. CASE SetDisconnected(m)
      BY <2>6, IdsFrame DEF SetDisconnected, TypeOK
    <2> QED BY <1>1, <2>1, <2>2, <2>3, <2>4, <2>5, <2>6 DEF Publishing
  <1>2. CASE GetOtherPacketId
    <2>1. /\ Lap(allocs', packet_id') /\ allocs' = allocs + 1 /\ allocs \in Nat
      BY <1>2, IdsAllocate DEF GetOtherPacketId
    <2>2. UNCHANGED <<seq, msg_id, pc>> /\ seq \in [Msgs -> Nat]
      BY <1>2, PublishAssumption DEF GetOtherPacketId, TypeOK, PublishAssumption
    <2> QED BY <2>1, <2>2 DEF Ids, Lap
  <1>3. CASE Yielding \/ Environment
    <2>1. UNCHANGED <<allocs, packet_id, msg_id, seq, pc>>
      BY <1>3 DEF Yielding, Environment, KeepaliveConnected,
         KeepaliveDisconnected, KeepaliveReconnect, KeepaliveReconnectFails,
         CycleNotConnected, CyclePuback, CycleIdle, CycleReadError, Sweeping,
         FreeInvalid, SkipNode, Republish, RepublishFails, Overdue, EndSweep,
         BrokerReceives, ConnectionBreaks, TimePasses
    <2> QED BY <2>1, IdsFrame
  <1> QED BY <1>1, <1>2, <1>3 DEF Next

\* Messages with the same identifier are the same message, in the first lap.
LEMMA SameMessage ==
    ASSUME TypeOK, Ids, allocs <= PACKET_ID_MAX, NEW m \in Msgs, NEW n \in Msgs,
           pc[m] = "accepted", pc[n] = "accepted", msg_id[m] = msg_id[n]
    PROVE  m = n
  <1> USE PublishAssumption DEF PublishAssumption, TypeOK
  <1>1. seq[m] \in 1..PACKET_ID_MAX /\ seq[n] \in 1..PACKET_ID_MAX
    BY DEF Ids
  <1>2. msg_id[m] \in 1..PACKET_ID_MAX /\ msg_id[n] \in 1..PACKET_ID_MAX
    BY <1>1 DEF Ids
  <1>3. Lap(seq[m], msg_id[m]) /\ Lap(seq[n], msg_id[n])
    BY <1>1 DEF Ids
  <1>4. seq[m] = msg_id[m] /\ seq[n] = msg_id[n]
    BY <1>1, <1>2, <1>3, FirstLap
  <1> QED BY <1>1, <1>4 DEF Ids
-----------------------------------------------------------------------------
(* No accepted message is lost *)

\* What a step may do to the list and to the broker's messages without losing
\* an accepted message.
LEMMA KeptFrame ==
    ASSUME TypeOK, TypeOK', AcceptedIsKept, allocs \in Nat, allocs' \in Nat,
           allocs <= allocs', delivered \subseteq delivered',
           \A m \in Msgs : pc'[m] = "accepted" /\ pc[m] # "accepted" =>
                              Outstanding(m)',
           \A m \in Msgs : pc[m] = "accepted" /\ Outstanding(m) =>
                              Outstanding(m)'
    PROVE  AcceptedIsKept'
  BY PublishAssumption DEF AcceptedIsKept, PublishAssumption

LEMMA KeptPublishing ==
    ASSUME TypeOK, TypeOK', Where, AcceptedIsKept, NEW m \in Msgs, Publishing(m)
    PROVE  AcceptedIsKept'
  <1> USE DEF histVars, callVars, clientVars, netVars
  <1>a. allocs \in Nat /\ allocs' \in Nat
    BY PublishAssumption DEF TypeOK, PublishAssumption
  <1>b. pc \in [Msgs -> Calls] /\ node_state \in [Msgs -> {"NORMAL", "INVALID"}]
    BY DEF TypeOK
  <1>1. CASE CheckState(m)
    BY <1>1, <1>a, <1>b, KeptFrame DEF CheckState, Outstanding
  <1>2. CASE GetPacketId(m)
    BY <1>2, <1>a, <1>b, KeptFrame DEF GetPacketId, Allocate, Outstanding
  <1>3. CASE PushRefused(m)
    BY <1>3, <1>a, <1>b, KeptFrame DEF PushRefused, Outstanding
  <1>4. CASE PushAndSend(m)
    <2>1. Outstanding(m)' /\ UNCHANGED <<allocs, delivered>>
      BY <1>4, <1>b DEF PushAndSend, Written, Outstanding
    <2>2. \A n \in Msgs \ {m} : pc'[n] = pc[n] /\ (Outstanding(n) => Outstanding(n)')
      BY <1>4, <1>b DEF PushAndSend, Outstanding
    <2> QED BY <1>a, <2>1, <2>2, KeptFrame
  <1>5. CASE PushSendFails(m)
    <2>1. UNCHANGED <<allocs, list_pub_wait_ack, node_state>>
          /\ pc' = [pc EXCEPT ![m] = "error"]
      BY <1>5 DEF PushSendFails
    <2>2. delivered' = delivered
      BY <1>5, LessInFlight DEF PushSendFails, WriteFails
    <2> QED BY <1>a, <1>b, <2>1, <2>2, KeptFrame DEF Outstanding
  <1>6. CASE SetDisconnected(m)
    BY <1>6, <1>a, <1>b, KeptFrame DEF SetDisconnected, Outstanding
  <1> QED BY <1>1, <1>2, <1>3, <1>4, <1>5, <1>6 DEF Publishing

\* A PUBACK marks the node of a delivered message only: its identifier was
\* put into it by the broker for a message it received, and no other accepted
\* message has that identifier.
LEMMA KeptPuback ==
    ASSUME TypeOK, Where, Ids, AcceptedIsKept, CyclePuback
    PROVE  AcceptedIsKept'
  <1> SUFFICES ASSUME allocs' <= PACKET_ID_MAX, NEW m \in Msgs,
                      pc'[m] = "accepted", m \notin delivered'
               PROVE  Outstanding(m)'
    BY DEF AcceptedIsKept
  <1>1. UNCHANGED <<allocs, pc, msg_id, delivered, list_pub_wait_ack>>
    BY DEF CyclePuback, histVars, callVars
  <1>2. Outstanding(m)
    BY <1>1 DEF AcceptedIsKept
  <1>3. 1 \in 1..Len(b2c) /\ Head(b2c) = b2c[1]
    BY DEF CyclePuback, TypeOK
  <1>4. PICK n \in delivered : msg_id[n] = Head(b2c)
    BY <1>3 DEF Where
  <1>5. n \in Msgs /\ pc[n] = "accepted"
    BY <1>4 DEF Where, TypeOK
  <1>6. msg_id[m] # Head(b2c)
    BY <1>1, <1>4, <1>5, SameMessage
  <1>7. node_state'[m] = node_state[m]
    BY <1>6 DEF CyclePuback, MaskPubInfo
  <1> QED BY <1>1, <1>2, <1>7 DEF Outstanding

LEMMA KeptYielding ==
    ASSUME TypeOK, TypeOK', Where, Ids, AcceptedIsKept, Yielding
    PROVE  AcceptedIsKept'
  <1> USE DEF histVars, callVars, clientVars, netVars
  <1>a. allocs \in Nat /\ allocs' \in Nat
    BY PublishAssumption DEF TypeOK, PublishAssumption
  <1>1. CASE CyclePuback
    BY <1>1, KeptPuback
  <1>2. ASSUME NEW m \in Msgs, FreeInvalid(m) PROVE AcceptedIsKept'
    <2>1. UNCHANGED <<allocs, delivered, pc, node_state>> /\ ~Outstanding(m)
          /\ list_pub_wait_ack' = list_pub_wait_ack \ {m}
      BY <1>2 DEF FreeInvalid, Outstanding
    <2> QED BY <1>a, <2>1, KeptFrame DEF Outstanding
  <1>3. CASE ~CyclePuback /\ ~\E m \in Msgs : FreeInvalid(m)
    <2>1. UNCHANGED <<allocs, delivered, pc, node_state, list_pub_wait_ack>>
      BY <1>3, LessInFlight DEF Yielding, KeepaliveConnected,
         KeepaliveDisconnected, KeepaliveReconnect, KeepaliveReconnectFails,
         CycleNotConnected, CycleIdle, CycleReadError, Sweeping, SkipNode,
         Republish, RepublishFails, Overdue, EndSweep, Written, WriteFails
    <2> QED BY <1>a, <2>1, KeptFrame DEF Outstanding
  <1> QED BY <1>1, <1>2, <1>3

LEMMA KeptNext ==
    ASSUME TypeOK, TypeOK', Where, Ids, AcceptedIsKept, Next
    PROVE  AcceptedIsKept'
  <1> USE DEF histVars, callVars, clientVars, netVars
  <1>a. allocs \in Nat /\ allocs' \in Nat
    BY PublishAssumption DEF TypeOK, PublishAssumption
  <1>1. CASE GetOtherPacketId
    BY <1>1, <1>a, KeptFrame DEF GetOtherPacketId, Allocate, Outstanding
  <1>2. CASE Environment
    <2>1. UNCHANGED <<allocs, pc, node_state, list_pub_wait_ack>>
          /\ delivered \subseteq delivered'
      BY <1>2 DEF Environment, BrokerReceives, ConnectionBreaks, Broken,
                  TimePasses
    <2> QED BY <1>a, <2>1, KeptFrame DEF Outstanding
  <1> QED BY <1>1, <1>2, KeptPublishing, KeptYielding DEF Next

-----------------------------------------------------------------------------
(* The theorems *)

Inv == TypeOK /\ Where /\ Ids /\ AcceptedIsKept

LEMMA InvInit == Init => Inv
  <1> SUFFICES ASSUME Init PROVE Inv OBVIOUS
  <1>1. Where /\ AcceptedIsKept
    BY DEF Init, Where, AcceptedIsKept
  <1> QED BY <1>1, TypeInit, IdsInit DEF Inv

LEMMA InvNext == Inv /\ [Next]_vars => Inv'
  <1> SUFFICES ASSUME Inv, [Next]_vars PROVE Inv' OBVIOUS
  <1> USE DEF Inv
  <1>1. CASE UNCHANGED vars
    BY <1>1 DEF vars, histVars, callVars, clientVars, netVars, TypeOK, Where,
                Ids, Lap, AcceptedIsKept, Outstanding
  <1>2. CASE Next
    <2>1. TypeOK'
      <3>1. CASE GetOtherPacketId
        <4>1. NextPacketId \in 1..PACKET_ID_MAX
          BY NextPacketIdRange DEF TypeOK
        <4> QED BY <3>1, <4>1, PublishAssumption DEF PublishAssumption, TypeOK,
                    GetOtherPacketId, Allocate, callVars, netVars
      <3> QED BY <1>2, <3>1, TypePublishing, TypeYielding, TypeEnvironment
              DEF Next
    <2>2. Where'
      <3>1. CASE GetOtherPacketId
        BY <3>1 DEF GetOtherPacketId, Allocate, Where, callVars, netVars
      <3> QED BY <1>2, <2>1, <3>1, WherePublishing, WhereYielding,
                 WhereEnvironment DEF Next
    <2> QED BY <1>2, <2>1, <2>2, IdsNext, KeptNext
  <1> QED BY <1>1, <1>2

LEMMA InvAlways == Spec => []Inv
  BY InvInit, InvNext, PTL DEF Spec

\* The variables keep their types: in particular the wait list stays within
\* IOTX_MC_REPUB_NUM_MAX and no publish is given the identifier 0.
THEOREM TypeCorrect == Spec => []TypeOK
  BY InvAlways, PTL DEF Inv

\* A publish that returned an error is never delivered, whatever the
\* interleaving with the sweep and the reconnections.
THEOREM RefusedSafe == Spec => []RefusedIsNotSent
  <1>1. Inv => RefusedIsNotSent
    BY DEF Inv, TypeOK, Where, RefusedIsNotSent
  <1> QED BY <1>1, InvAlways, PTL

\* Until the packet identifiers wrap, a message whose publish succeeded stays
\* in the wait list until the broker has it.
THEOREM AcceptedSafe == Spec => []AcceptedIsKept
  BY InvAlways, PTL DEF Inv

\* Identifiers of unacknowledged publishes collide only a whole lap apart.
THEOREM IdsSafe == Spec => []IdsDistinct
  <1>1. Inv => IdsDistinct
    <2> SUFFICES ASSUME Inv, NEW m \in Msgs, NEW n \in Msgs, m # n,
                        Outstanding(m), Outstanding(n), msg_id[m] = msg_id[n]
                 PROVE  seq[m] - seq[n] \notin
                            -(PACKET_ID_MAX - 1) .. (PACKET_ID_MAX - 1)
      BY DEF IdsDistinct
    <2> USE PublishAssumption DEF PublishAssumption, TypeOK
    <2>1. seq[m] \in Nat /\ seq[n] \in Nat /\ msg_id[m] \in 0..PACKET_ID_MAX
      BY DEF Inv
    <2>2. seq[m] # 0 /\ seq[n] # 0
      BY DEF Inv, Where, Ids, Outstanding
    <2>3. Lap(seq[m], msg_id[m]) /\ Lap(seq[n], msg_id[m]) /\ seq[m] # seq[n]
      BY <2>2 DEF Inv, Ids
    <2>4. seq[m] < seq[n] => seq[n] - seq[m] >= PACKET_ID_MAX
      BY <2>1, <2>3, LapsApart
    <2>5. seq[n] < seq[m] => seq[m] - seq[n] >= PACKET_ID_MAX
      BY <2>1, <2>3, LapsApart
    <2> QED BY <2>1, <2>3, <2>4, <2>5
  <1> QED BY <1>1, InvAlways, PTL
-----------------------------------------------------------------------------
(* The wait list implements at-least-once delivery *)

\* The status of one message depends on its call and its node only.
LEMMA StatusSame ==
    ASSUME NEW m \in Msgs, pc'[m] = pc[m], Outstanding(m)' = Outstanding(m)
    PROVE  StatusOf(m)' = StatusOf(m)
  BY DEF StatusOf

LEMMA StatusUpdate ==
    ASSUME NEW m \in Msgs, NEW v, StatusOf(m)' = v,
           \A n \in Msgs \ {m} : pc'[n] = pc[n] /\ Outstanding(n)' = Outstanding(n)
    PROVE  appStatus' = [appStatus EXCEPT ![m] = v]
  <1>1. \A n \in Msgs \ {m} : StatusOf(n)' = StatusOf(n)
    BY StatusSame
  <1> QED BY <1>1 DEF appStatus

LEMMA StatusStutter ==
    ASSUME \A n \in Msgs : StatusOf(n)' = StatusOf(n)
    PROVE  appStatus' = appStatus
  BY DEF appStatus

LEMMA PromisePublishing ==
    ASSUME Inv, NEW m \in Msgs, Publishing(m)
    PROVE  [Promise!Next]_<<appStatus, delivered>>
  <1> USE DEF histVars, callVars, clientVars, netVars
  <1>b. pc \in [Msgs -> Calls] /\ node_state \in [Msgs -> {"NORMAL", "INVALID"}]
    BY DEF Inv, TypeOK
  <1>c. appStatus[m] = StatusOf(m)
    BY DEF appStatus
  <1>1. CASE pc[m] \in {"idle", "alloc", "send"} /\ pc'[m] \in {"error", "refused"}
    <2>1. \A n \in Msgs \ {m} : pc'[n] = pc[n] /\ Outstanding(n)' = Outstanding(n)
      BY <1>1, <1>b DEF Publishing, CheckState, GetPacketId, Allocate,
         PushRefused, PushAndSend, PushSendFails, SetDisconnected, Outstanding
    <2>2. delivered' = delivered
      BY <1>1, LessInFlight DEF Publishing, CheckState, GetPacketId, Allocate,
         PushRefused, PushAndSend, PushSendFails, SetDisconnected, Written,
         WriteFails
    <2>3. appStatus' = [appStatus EXCEPT ![m] = "refused"]
      <3>1. StatusOf(m)' = "refused"
        BY <1>1 DEF StatusOf
      <3> QED BY <2>1, <3>1, StatusUpdate
    <2>4. appStatus[m] = "new"
      BY <1>1, <1>c DEF StatusOf
    <2> QED BY <2>2, <2>3, <2>4 DEF Promise!Next, Promise!Refuse, Promise!Decide
  <1>2. CASE PushAndSend(m)
    <2>1. \A n \in Msgs \ {m} : pc'[n] = pc[n] /\ Outstanding(n)' = Outstanding(n)
      BY <1>2, <1>b DEF PushAndSend, Outstanding
    <2>2. delivered' = delivered /\ appStatus[m] = "new" /\ Outstanding(m)'
          /\ pc'[m] = "accepted"
      BY <1>2, <1>b, <1>c DEF PushAndSend, Written, StatusOf, Outstanding
    <2>3. appStatus' = [appStatus EXCEPT ![m] = "pending"]
      <3>1. StatusOf(m)' = "pending"
        BY <2>2 DEF StatusOf
      <3> QED BY <2>1, <3>1, StatusUpdate
    <2> QED BY <2>2, <2>3 DEF Promise!Next, Promise!Accept, Promise!Decide
  <1>3. CASE GetPacketId(m) \/ SetDisconnected(m)
             \/ (CheckState(m) /\ pc'[m] = "alloc")
    <2>1. \A n \in Msgs : Outstanding(n)' = Outstanding(n)
      BY <1>3 DEF CheckState, GetPacketId, Allocate, SetDisconnected, Outstanding
    <2>2. delivered' = delivered
          /\ \A n \in Msgs \ {m} : pc'[n] = pc[n]
      BY <1>3, <1>b DEF CheckState, GetPacketId, Allocate, SetDisconnected
    <2>3. StatusOf(m)' = StatusOf(m)
      <3>1. \/ pc[m] \in {"idle", "alloc"} /\ pc'[m] \in {"alloc", "send"}
            \/ pc[m] = "error" /\ pc'[m] = "refused"
        BY <1>3, <1>b DEF CheckState, GetPacketId, SetDisconnected
      <3> QED BY <3>1 DEF StatusOf
    <2>4. appStatus' = appStatus
      BY <2>1, <2>2, <2>3, StatusSame, StatusStutter
    <2> QED BY <2>2, <2>4
  <1>4. \/ pc[m] \in {"idle", "alloc", "send"} /\ pc'[m] \in {"error", "refused"}
        \/ PushAndSend(m) \/ GetPacketId(m) \/ SetDisconnected(m)
        \/ (CheckState(m) /\ pc'[m] = "alloc")
    BY <1>b DEF Publishing, CheckState, PushRefused, PushSendFails
  <1> QED BY <1>1, <1>2, <1>3, <1>4

LEMMA PromisePuback ==
    ASSUME Inv, CyclePuback, allocs <= PACKET_ID_MAX
    PROVE  [Promise!Next]_<<appStatus, delivered>>
  <1> DEFINE hit(n) == Outstanding(n) /\ msg_id[n] = Head(b2c)
  <1>1. UNCHANGED <<pc, delivered, list_pub_wait_ack>>
        /\ \A n \in Msgs : Outstanding(n)' <=> Outstanding(n) /\ ~hit(n)
    BY DEF CyclePuback, MaskPubInfo, Outstanding, callVars, Inv, TypeOK
  <1>2. CASE \E m \in Msgs : hit(m)
    <2>1. PICK m \in Msgs : hit(m)
      BY <1>2
    <2>2. pc[m] = "accepted"
      BY <2>1 DEF Inv, Where, Outstanding
    <2>3. \A n \in Msgs \ {m} : ~hit(n)
      BY <2>1, <2>2, SameMessage DEF Inv, Where, Outstanding
    <2>4. m \in delivered
      <3>1. 1 \in 1..Len(b2c) /\ Head(b2c) = b2c[1]
        BY DEF CyclePuback, Inv, TypeOK
      <3>2. PICK n \in delivered : msg_id[n] = Head(b2c)
        BY <3>1 DEF Inv, Where
      <3>3. n \in Msgs /\ pc[n] = "accepted"
        BY DEF Inv, Where, TypeOK
      <3> QED BY <2>1, <2>2, <3>2, <3>3, SameMessage DEF Inv
    <2>5. appStatus[m] = "pending" /\ StatusOf(m)' = "settled"
      BY <1>1, <2>1, <2>2 DEF appStatus, StatusOf
    <2>6. \A n \in Msgs \ {m} : pc'[n] = pc[n] /\ Outstanding(n)' = Outstanding(n)
      BY <1>1, <2>3 DEF Outstanding
    <2>7. appStatus' = [appStatus EXCEPT ![m] = "settled"]
      BY <2>5, <2>6, StatusUpdate
    <2> QED BY <1>1, <2>4, <2>5, <2>7 DEF Promise!Next, Promise!Settle
  <1>3. CASE \A m \in Msgs : ~hit(m)
    <2>1. appStatus' = appStatus
      <3>1. \A n \in Msgs : pc'[n] = pc[n] /\ Outstanding(n)' = Outstanding(n)
        BY <1>1, <1>3 DEF Outstanding
      <3> QED BY <3>1, StatusSame, StatusStutter
    <2> QED BY <1>1, <2>1
  <1> QED BY <1>2, <1>3

LEMMA PromiseReceives ==
    ASSUME Inv, BrokerReceives
    PROVE  [Promise!Next]_<<appStatus, delivered>>
  <1> DEFINE h == Head(c2b)
  <1>1. h \in Msgs /\ 1 \in 1..Len(c2b) /\ h = c2b[1]
    BY DEF BrokerReceives, Inv, TypeOK
  <1>2. pc[h] = "accepted"
    BY <1>1 DEF Inv, Where
  <1>3. appStatus[h] \in {"pending", "settled"}
    BY <1>1, <1>2 DEF appStatus, StatusOf
  <1>4. \A n \in Msgs : pc'[n] = pc[n] /\ Outstanding(n)' = Outstanding(n)
    BY DEF BrokerReceives, Outstanding, callVars, clientVars
  <1>5. appStatus' = appStatus
    BY <1>4, StatusSame, StatusStutter
  <1> QED BY <1>1, <1>3, <1>5
          DEF Promise!Next, Promise!Deliver, BrokerReceives

LEMMA PromiseOther ==
    ASSUME Inv, [Next]_vars, ~\E m \in Msgs : Publishing(m), ~CyclePuback,
           ~BrokerReceives
    PROVE  UNCHANGED <<appStatus, delivered>>
  <1> USE DEF histVars, callVars, clientVars, netVars
  <1>1. CASE \E m \in Msgs : FreeInvalid(m)
    <2>1. UNCHANGED <<pc, delivered>>
          /\ \A n \in Msgs : Outstanding(n)' = Outstanding(n)
      BY <1>1 DEF FreeInvalid, Outstanding, Inv, TypeOK
    <2> QED BY <2>1, StatusSame, StatusStutter
  <1>2. CASE ~\E m \in Msgs : FreeInvalid(m)
    <2>1. UNCHANGED <<delivered, pc, node_state, list_pub_wait_ack>>
      BY <1>2, LessInFlight DEF Next, vars, Yielding, KeepaliveConnected,
         KeepaliveDisconnected, KeepaliveReconnect, KeepaliveReconnectFails,
         CycleNotConnected, CycleIdle, CycleReadError, Sweeping, SkipNode,
         Republish, RepublishFails, Overdue, EndSweep, Written, WriteFails,
         Environment, ConnectionBreaks, TimePasses, GetOtherPacketId, Allocate
    <2> QED BY <2>1, StatusSame, StatusStutter DEF Outstanding
  <1> QED BY <1>1, <1>2

\* For as many allocations as there are packet identifiers the client keeps
\* the promise of AtLeastOnce: every step of it is a step of AtLeastOnce or
\* changes nothing the application sees.
THEOREM PublishKeepsPromise ==
    ASSUME MaxAllocs <= PACKET_ID_MAX
    PROVE  Spec => KeepsPromise
  <1>1. Init => Promise!Init
    <2> SUFFICES ASSUME Init PROVE Promise!Init OBVIOUS
    <2>1. \A m \in Msgs : StatusOf(m) = "new"
      BY DEF Init, StatusOf
    <2> QED BY <2>1 DEF Init, appStatus, Promise!Init
  <1>2. Inv /\ [Next]_vars => [Promise!Next]_Promise!vars
    <2> SUFFICES ASSUME Inv, [Next]_vars PROVE [Promise!Next]_Promise!vars
      OBVIOUS
    <2>1. allocs <= PACKET_ID_MAX
      BY PublishAssumption DEF Inv, TypeOK, PublishAssumption
    <2> QED BY <2>1, PromisePublishing, PromisePuback, PromiseReceives,
               PromiseOther DEF Promise!vars
  <1> QED BY <1>1, <1>2, InvAlways, PTL DEF Spec, KeepsPromise, Promise!Spec
=============================================================================
