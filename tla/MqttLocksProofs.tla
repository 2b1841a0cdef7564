--------------------------- MODULE MqttLocksProofs ---------------------------
(***************************************************************************)
(* Proofs about the mutexes of an MQTT client, for any number of threads.  *)
(* Each point of the code lies in a zone, where certain locks are held;    *)
(* that the threads hold these is the inductive invariant.  What an edge   *)
(* of the graph has to respect (Good) is shown for each function in turn.  *)
(***************************************************************************)
EXTENDS MqttLocks, TLAPS

(* The points inside each longer section; the other points of a yield are  *)
(* inside lock_yield alone, those of the other calls inside no section.    *)
Zone(n) ==
    IF n \in {"idle", "cycle_start", "slept"} THEN "free"
    ELSE IF n \in {"handle", "event", "unmatched", "deliver", "deliver_more",
                   "delivered", "handled"} THEN "read"
    ELSE IF n \in {"node", "node_old", "republished", "node_done", "listed"}
         THEN "republish"
    ELSE IF n \in {"publish_send", "publish_sent"} THEN "publish"
    ELSE IF n \in {"unsubscribe_send", "unsubscribe_sent"} THEN "unsubscribe"
    ELSE IF n \in YieldNames THEN "yield" ELSE "free"

(* Lock l is held throughout zone z; and by a thread at point p.           *)
Within(l, z) ==
    \/ l = "lock_yield" /\ z \in {"yield", "read", "republish"}
    \/ l = "lock_read_buf" /\ z = "read"
    \/ l = "lock_list_pub" /\ z \in {"republish", "publish"}
    \/ l = "lock_write_buf" /\ z = "unsubscribe"

Holds(l, p) == l = p[1] \/ Within(l, Zone(p[2]))

(* The highest rank of a zone's locks.                                     *)
Top(z) ==
    IF z = "yield" THEN 1
    ELSE IF z = "read" THEN 2
    ELSE IF z \in {"republish", "publish"} THEN 3
    ELSE IF z = "unsubscribe" THEN 4
    ELSE 0

(* Taking lock k leads from zone y to zone z.                              *)
Leads(y, k, z) ==
    \/ k = "lock_yield" /\ y = "free" /\ z = "yield"
    \/ k = "lock_read_buf" /\ y = "yield" /\ z = "read"
    \/ k = "lock_list_pub" /\ y = "yield" /\ z = "republish"
    \/ k = "lock_list_pub" /\ y = "free" /\ z = "publish"
    \/ k = "lock_write_buf" /\ y = "free" /\ z = "unsubscribe"

Edge(names, locks) ==
    [from : (Lock \cup {NoLock}) \X names, op : {"lock", "unlock", "go", "back"},
     lock : locks \cup {NoLock}, to : (Lock \cup {NoLock}) \X names]

(* What an edge has to do with the locks of its two points.                *)
Good(e) ==
    /\ e.op = "lock" =>
          /\ e.lock \in Lock
          /\ \A l \in Lock : Holds(l, e.from) => Rank(l) < Rank(e.lock)
          /\ \A l \in Lock : Holds(l, e.to) <=> Holds(l, e.from) \/ l = e.lock
    /\ e.op = "unlock" =>
          /\ e.lock \in Lock
          /\ Holds(e.lock, e.from)
          /\ \A l \in Lock : Holds(l, e.to) <=> Holds(l, e.from) /\ l # e.lock
    /\ e.op \in {"go", "back"} =>
          \A l \in Lock : Holds(l, e.to) <=> Holds(l, e.from)

AllGood(code, names, locks) == \A e \in code : e \in Edge(names, locks) /\ Good(e)

CallLocks == Lock \ {"lock_yield", "lock_read_buf"}

YieldGood(code) == AllGood(code, YieldNames, Lock)
CallGood(code)  == AllGood(code, CallNames, CallLocks)

-----------------------------------------------------------------------------
(* When each kind of edge is good.                                         *)

LEMMA TakeGood ==
    ASSUME NEW names, NEW locks \in SUBSET Lock,
           NEW p \in names, NEW q \in names, NEW k \in locks,
           Leads(Zone(p), k, Zone(q))
    PROVE  AllGood(Take(p, k, q), names, locks)
<1>1. /\ NoLock \notin Lock
      /\ \A l \in Lock : Within(l, Zone(p)) => Rank(l) < Rank(k)
      /\ \A l \in Lock : Within(l, Zone(q)) <=> Within(l, Zone(p)) \/ l = k
  BY DEF NoLock, Lock, Leads, Within, Rank
<1>. QED
  BY <1>1 DEF AllGood, Take, Good, Holds, At, Edge

LEMMA GiveGood ==
    ASSUME NEW names, NEW locks \in SUBSET Lock,
           NEW p \in names, NEW q \in names, NEW k \in locks,
           Leads(Zone(q), k, Zone(p))
    PROVE  AllGood(Give(p, k, q), names, locks)
<1>1. /\ NoLock \notin Lock
      /\ Within(k, Zone(p))
      /\ \A l \in Lock : Within(l, Zone(q)) <=> Within(l, Zone(p)) /\ l # k
  BY DEF NoLock, Lock, Leads, Within
<1>. QED
  BY <1>1 DEF AllGood, Give, Good, Holds, At, Edge

LEMMA GoGood ==
    ASSUME NEW names, NEW locks, NEW p \in names, NEW q \in names, Zone(q) = Zone(p)
    PROVE  AllGood(Go(p, q), names, locks) /\ AllGood(Back(p, q), names, locks)
  BY DEF AllGood, Go, Back, Good, Holds, At, Edge

LEMMA SectionGood ==
    ASSUME NEW names, NEW locks \in SUBSET Lock,
           NEW p \in names, NEW q \in names, NEW k \in locks,
           Zone(q) = Zone(p), Top(Zone(p)) < Rank(k)
    PROVE  AllGood(Section(p, k, q), names, locks)
<1>1. /\ NoLock \notin Lock
      /\ \A l \in Lock : Within(l, Zone(p)) => Rank(l) < Rank(k)
  BY DEF NoLock, Lock, Within, Rank, Top
<1>2. ~ Within(k, Zone(p))
  BY <1>1 DEF Rank
<1>. QED
  BY <1>1, <1>2 DEF AllGood, Section, Good, Holds, At, Edge

LEMMA LocksAndRanks ==
    /\ Lock = {"lock_yield", "lock_read_buf", "lock_list_pub", "lock_write_buf",
               "lock_generic"}
    /\ CallLocks = {"lock_list_pub", "lock_write_buf", "lock_generic"}
    /\ CallLocks \in SUBSET Lock
    /\ Rank("lock_yield") = 1 /\ Rank("lock_read_buf") = 2 /\ Rank("lock_list_pub") = 3
    /\ Rank("lock_write_buf") = 4 /\ Rank("lock_generic") = 5
    /\ Top("free") = 0 /\ Top("yield") = 1 /\ Top("read") = 2
    /\ Top("republish") = 3 /\ Top("publish") = 3 /\ Top("unsubscribe") = 4
  BY DEF Lock, Rank, Top, CallLocks

-----------------------------------------------------------------------------
(* The functions, one by one: first the zones of their points.             *)

LEMMA PingGood == YieldGood(PingCode)
<1>1. /\ \A n \in {"keepalive", "ping_due", "state", "pinged"} :
            n \in YieldNames /\ Zone(n) = "yield"
  BY DEF YieldNames, CallNames, Zone
<1>2. /\ YieldGood(Go("ping_due", "state"))
      /\ YieldGood(Go("pinged", "state"))
  BY <1>1, LocksAndRanks, GoGood DEF YieldGood
<1>3. /\ YieldGood(Section("keepalive", "lock_generic", "ping_due"))
      /\ YieldGood(Section("ping_due", "lock_write_buf", "pinged"))
      /\ YieldGood(Section("pinged", "lock_generic", "state"))
  BY <1>1, LocksAndRanks, SectionGood DEF YieldGood
<1>. QED
  BY <1>2, <1>3 DEF PingCode, YieldGood, AllGood

LEMMA KeepaliveGood == YieldGood(KeepaliveCode)
<1>1. /\ \A n \in {"idle", "cycle_start"} :
            n \in YieldNames /\ Zone(n) = "free"
      /\ \A n \in {"keepalive", "state", "kept_alive", "disconnected",
                   "reconnecting", "closed", "reconnect_due"} :
            n \in YieldNames /\ Zone(n) = "yield"
  BY DEF YieldNames, CallNames, Zone
<1>2. /\ YieldGood(Take("idle", "lock_yield", "keepalive"))
  BY <1>1, LocksAndRanks, TakeGood DEF Leads, YieldGood
<1>3. /\ YieldGood(Give("kept_alive", "lock_yield", "cycle_start"))
  BY <1>1, LocksAndRanks, GiveGood DEF Leads, YieldGood
<1>4. /\ YieldGood(Go("disconnected", "closed"))
  BY <1>1, LocksAndRanks, GoGood DEF YieldGood
<1>5. /\ YieldGood(Section("state", "lock_generic", "kept_alive"))
      /\ YieldGood(Section("state", "lock_generic", "disconnected"))
      /\ YieldGood(Section("state", "lock_generic", "reconnecting"))
      /\ YieldGood(Section("closed", "lock_generic", "kept_alive"))
      /\ YieldGood(Section("reconnecting", "lock_generic", "reconnect_due"))
  BY <1>1, LocksAndRanks, SectionGood DEF YieldGood
<1>. QED
  BY <1>2, <1>3, <1>4, <1>5, PingGood DEF KeepaliveCode, YieldGood, AllGood

LEMMA ReconnectGood == YieldGood(ReconnectCode)
<1>1. /\ \A n \in {"reconnect_due", "kept_alive", "connect", "connack",
                   "connack_overflow", "connack_read", "connack_wrong",
                   "connected", "reconnected", "told"} :
            n \in YieldNames /\ Zone(n) = "yield"
  BY DEF YieldNames, CallNames, Zone
<1>2. /\ YieldGood(Go("reconnect_due", "kept_alive"))
      /\ YieldGood(Go("reconnect_due", "connect"))
      /\ YieldGood(Go("connack_overflow", "connack_read"))
      /\ YieldGood(Go("connack_wrong", "kept_alive"))
      /\ YieldGood(Go("told", "kept_alive"))
      /\ YieldGood(Back("connack_read", "connack"))
      /\ YieldGood(Back("connack_wrong", "connect"))
  BY <1>1, LocksAndRanks, GoGood DEF YieldGood
<1>3. /\ YieldGood(Section("connect", "lock_write_buf", "kept_alive"))
      /\ YieldGood(Section("connect", "lock_write_buf", "connack"))
      /\ YieldGood(Section("connack", "lock_read_buf", "connack_read"))
      /\ YieldGood(Section("connack", "lock_read_buf", "connack_overflow"))
      /\ YieldGood(Section("connack_read", "lock_read_buf", "connack_wrong"))
      /\ YieldGood(Section("connack_read", "lock_read_buf", "connected"))
      /\ YieldGood(Section("connected", "lock_generic", "reconnected"))
      /\ YieldGood(Section("reconnected", "lock_generic", "told"))
  BY <1>1, LocksAndRanks, SectionGood DEF YieldGood
<1>. QED
  BY <1>2, <1>3 DEF ReconnectCode, YieldGood, AllGood, ReadPacket

LEMMA CycleGood == YieldGood(CycleCode)
<1>1. /\ \A n \in {"cycle_start", "slept", "idle"} :
            n \in YieldNames /\ Zone(n) = "free"
      /\ \A n \in {"cycle", "cycled", "probes", "reading", "overflow",
                   "read", "read_nothing", "pub_info", "packet"} :
            n \in YieldNames /\ Zone(n) = "yield"
      /\ \A n \in {"handle", "handled"} :
            n \in YieldNames /\ Zone(n) = "read"
  BY DEF YieldNames, CallNames, Zone
<1>2. /\ YieldGood(Take("cycle_start", "lock_yield", "cycle"))
      /\ YieldGood(Take("packet", "lock_read_buf", "handle"))
  BY <1>1, LocksAndRanks, TakeGood DEF Leads, YieldGood
<1>3. /\ YieldGood(Give("handled", "lock_read_buf", "pub_info"))
      /\ YieldGood(Give("handled", "lock_read_buf", "cycled"))
      /\ YieldGood(Give("cycled", "lock_yield", "slept"))
  BY <1>1, LocksAndRanks, GiveGood DEF Leads, YieldGood
<1>4. /\ YieldGood(Go("probes", "reading"))
      /\ YieldGood(Go("overflow", "read"))
      /\ YieldGood(Go("read_nothing", "pub_info"))
      /\ YieldGood(Go("read_nothing", "cycled"))
      /\ YieldGood(Go("slept", "idle"))
      /\ YieldGood(Back("slept", "cycle_start"))
  BY <1>1, LocksAndRanks, GoGood DEF YieldGood
<1>5. /\ YieldGood(Section("cycle", "lock_generic", "cycled"))
      /\ YieldGood(Section("cycle", "lock_generic", "probes"))
      /\ YieldGood(Section("probes", "lock_generic", "reading"))
      /\ YieldGood(Section("reading", "lock_read_buf", "read"))
      /\ YieldGood(Section("reading", "lock_read_buf", "overflow"))
      /\ YieldGood(Section("read", "lock_read_buf", "read_nothing"))
      /\ YieldGood(Section("read_nothing", "lock_generic", "cycled"))
      /\ YieldGood(Section("read", "lock_generic", "packet"))
  BY <1>1, LocksAndRanks, SectionGood DEF YieldGood
<1>. QED
  BY <1>2, <1>3, <1>4, <1>5 DEF CycleCode, YieldGood, AllGood, ReadPacket

LEMMA AckGood == YieldGood(AckCode)
<1>1. /\ \A n \in {"handle", "event", "handled"} :
            n \in YieldNames /\ Zone(n) = "read"
  BY DEF YieldNames, CallNames, Zone
<1>2. /\ YieldGood(Go("handle", "event"))
      /\ YieldGood(Go("event", "handled"))
      /\ YieldGood(Go("handle", "handled"))
  BY <1>1, LocksAndRanks, GoGood DEF YieldGood
<1>3. /\ YieldGood(Section("handle", "lock_list_pub", "event"))
      /\ YieldGood(Section("handle", "lock_generic", "event"))
  BY <1>1, LocksAndRanks, SectionGood DEF YieldGood
<1>. QED
  BY <1>2, <1>3 DEF AckCode, YieldGood, AllGood

LEMMA DeliverGood == YieldGood(DeliverCode)
<1>1. /\ \A n \in {"handle", "unmatched", "delivered", "deliver",
                   "deliver_more", "handled"} :
            n \in YieldNames /\ Zone(n) = "read"
  BY DEF YieldNames, CallNames, Zone
<1>2. /\ YieldGood(Go("unmatched", "delivered"))
      /\ YieldGood(Go("deliver_more", "delivered"))
      /\ YieldGood(Go("delivered", "handled"))
      /\ YieldGood(Back("deliver_more", "deliver"))
  BY <1>1, LocksAndRanks, GoGood DEF YieldGood
<1>3. /\ YieldGood(Section("handle", "lock_generic", "unmatched"))
      /\ YieldGood(Section("handle", "lock_generic", "deliver"))
      /\ YieldGood(Section("deliver", "lock_generic", "deliver_more"))
      /\ YieldGood(Section("delivered", "lock_write_buf", "handled"))
  BY <1>1, LocksAndRanks, SectionGood DEF YieldGood
<1>. QED
  BY <1>2, <1>3 DEF DeliverCode, YieldGood, AllGood

LEMMA PubInfoGood == YieldGood(PubInfoCode)
<1>1. /\ \A n \in {"pub_info", "cycled"} :
            n \in YieldNames /\ Zone(n) = "yield"
      /\ \A n \in {"node", "node_old", "republished", "listed", "node_done"} :
            n \in YieldNames /\ Zone(n) = "republish"
  BY DEF YieldNames, CallNames, Zone
<1>2. /\ YieldGood(Take("pub_info", "lock_list_pub", "node"))
  BY <1>1, LocksAndRanks, TakeGood DEF Leads, YieldGood
<1>3. /\ YieldGood(Give("listed", "lock_list_pub", "cycled"))
  BY <1>1, LocksAndRanks, GiveGood DEF Leads, YieldGood
<1>4. /\ YieldGood(Go("republished", "node_done"))
      /\ YieldGood(Go("node_old", "node_done"))
      /\ YieldGood(Go("node", "node_done"))
      /\ YieldGood(Go("node_done", "listed"))
      /\ YieldGood(Back("node_done", "node"))
  BY <1>1, LocksAndRanks, GoGood DEF YieldGood
<1>5. /\ YieldGood(Section("node", "lock_generic", "node_old"))
      /\ YieldGood(Section("node_old", "lock_write_buf", "republished"))
      /\ YieldGood(Section("republished", "lock_generic", "listed"))
  BY <1>1, LocksAndRanks, SectionGood DEF YieldGood
<1>. QED
  BY <1>2, <1>3, <1>4, <1>5 DEF PubInfoCode, YieldGood, AllGood

LEMMA PublishGood == CallGood(PublishCode)
<1>1. /\ \A n \in {"publish", "return", "publish_checked",
                   "publish_packet", "publish_end"} :
            n \in CallNames /\ Zone(n) = "free"
      /\ \A n \in {"publish_send", "publish_sent"} :
            n \in CallNames /\ Zone(n) = "publish"
  BY DEF YieldNames, CallNames, Zone
<1>2. /\ CallGood(Take("publish_packet", "lock_list_pub", "publish_send"))
  BY <1>1, LocksAndRanks, TakeGood DEF Leads, CallGood
<1>3. /\ CallGood(Give("publish_sent", "lock_list_pub", "publish_end"))
  BY <1>1, LocksAndRanks, GiveGood DEF Leads, CallGood
<1>4. /\ CallGood(Go("publish", "return"))
      /\ CallGood(Go("publish_checked", "return"))
      /\ CallGood(Go("publish_checked", "publish_packet"))
      /\ CallGood(Go("publish_end", "return"))
  BY <1>1, LocksAndRanks, GoGood DEF CallGood
<1>5. /\ CallGood(Section("publish", "lock_generic", "publish_checked"))
      /\ CallGood(Section("publish_checked", "lock_generic", "publish_packet"))
      /\ CallGood(Section("publish_send", "lock_write_buf", "publish_sent"))
      /\ CallGood(Section("publish_end", "lock_generic", "return"))
  BY <1>1, LocksAndRanks, SectionGood DEF CallGood
<1>. QED
  BY <1>2, <1>3, <1>4, <1>5 DEF PublishCode, CallGood, AllGood

LEMMA SubscribeGood == CallGood(SubscribeCode)
<1>1. /\ \A n \in {"subscribe", "subscribe_id", "subscribe_checked",
                   "return", "subscribe_sent"} :
            n \in CallNames /\ Zone(n) = "free"
  BY DEF YieldNames, CallNames, Zone
<1>2. /\ CallGood(Go("subscribe_checked", "return"))
      /\ CallGood(Go("subscribe_sent", "return"))
  BY <1>1, LocksAndRanks, GoGood DEF CallGood
<1>3. /\ CallGood(Section("subscribe", "lock_generic", "subscribe_id"))
      /\ CallGood(Section("subscribe_id", "lock_generic", "subscribe_checked"))
      /\ CallGood(Section("subscribe_checked", "lock_write_buf", "subscribe_sent"))
      /\ CallGood(Section("subscribe_sent", "lock_generic", "return"))
  BY <1>1, LocksAndRanks, SectionGood DEF CallGood
<1>. QED
  BY <1>2, <1>3 DEF SubscribeCode, CallGood, AllGood

LEMMA UnsubscribeGood == CallGood(UnsubscribeCode)
<1>1. /\ \A n \in {"unsubscribe", "unsubscribe_id", "unsubscribe_checked",
                   "return", "unsubscribe_failed"} :
            n \in CallNames /\ Zone(n) = "free"
      /\ \A n \in {"unsubscribe_send", "unsubscribe_sent"} :
            n \in CallNames /\ Zone(n) = "unsubscribe"
  BY DEF YieldNames, CallNames, Zone
<1>2. /\ CallGood(Take("unsubscribe_checked", "lock_write_buf", "unsubscribe_send"))
  BY <1>1, LocksAndRanks, TakeGood DEF Leads, CallGood
<1>3. /\ CallGood(Give("unsubscribe_sent", "lock_write_buf", "return"))
      /\ CallGood(Give("unsubscribe_send", "lock_write_buf", "unsubscribe_failed"))
  BY <1>1, LocksAndRanks, GiveGood DEF Leads, CallGood
<1>4. /\ CallGood(Go("unsubscribe_checked", "return"))
      /\ CallGood(Go("unsubscribe_failed", "return"))
  BY <1>1, LocksAndRanks, GoGood DEF CallGood
<1>5. /\ CallGood(Section("unsubscribe", "lock_generic", "unsubscribe_id"))
      /\ CallGood(Section("unsubscribe_id", "lock_generic", "unsubscribe_checked"))
      /\ CallGood(Section("unsubscribe_send", "lock_generic", "unsubscribe_sent"))
      /\ CallGood(Section("unsubscribe_failed", "lock_generic", "return"))
  BY <1>1, LocksAndRanks, SectionGood DEF CallGood
<1>. QED
  BY <1>2, <1>3, <1>4, <1>5 DEF UnsubscribeCode, CallGood, AllGood

LEMMA StateGood == CallGood(StateCode)
<1>1. /\ \A n \in {"check_state", "return", "sync_list"} :
            n \in CallNames /\ Zone(n) = "free"
  BY DEF YieldNames, CallNames, Zone
<1>2. /\ CallGood(Section("check_state", "lock_generic", "return"))
      /\ CallGood(Section("sync_list", "lock_generic", "return"))
  BY <1>1, LocksAndRanks, SectionGood DEF CallGood
<1>. QED
  BY <1>2 DEF StateCode, CallGood, AllGood

LEMMA SyncListGood == CallGood(SyncListCode)
<1>1. /\ \A n \in {"sync_list", "return"} :
            n \in CallNames /\ Zone(n) = "free"
  BY DEF YieldNames, CallNames, Zone
<1>2. /\ CallGood(Section("sync_list", "lock_generic", "return"))
  BY <1>1, LocksAndRanks, SectionGood DEF CallGood
<1>. QED
  BY <1>2 DEF SyncListCode, CallGood, AllGood

LEMMA CodeGood == YieldGood(YieldCode) /\ CallGood(CallCode)
<1>1. YieldGood(YieldCode)
  BY KeepaliveGood, ReconnectGood, CycleGood, AckGood, DeliverGood, PubInfoGood
  DEF YieldCode, YieldGood, AllGood
<1>2. CallGood(CallCode)
  BY PublishGood, SubscribeGood, UnsubscribeGood, StateGood, SyncListGood
  DEF CallCode, CallGood, AllGood
<1>. QED
  BY <1>1, <1>2

-----------------------------------------------------------------------------
(* The inductive invariant: a thread has the locks of its two points, and  *)
(* those of the inner call come after those of the yield around it.        *)

Placed ==
    \A t \in Threads : \A l \in Lock :
        holder[l] = t <=> Holds(l, yielding[t]) \/ Holds(l, calling[t])

Nested ==
    \A t \in Threads :
        /\ calling[t] # Nowhere => yielding[t] \in Callbacks \cup {Idle}
        /\ \A l \in Lock : Holds(l, calling[t]) => l \in CallLocks

IInv == TypeOK /\ Placed /\ Nested

(* Which locks are held at the points where the application is.            *)
LEMMA OutsidePoints ==
    /\ Idle \in YieldPoints /\ Nowhere \in CallPoints
    /\ \A l \in Lock : ~Holds(l, Idle) /\ ~Holds(l, Nowhere)
    /\ \A p \in Operations : p \in CallPoints /\ \A l \in Lock : ~Holds(l, p)
    /\ \A p \in Callbacks : \A l \in CallLocks : ~Holds(l, p)
<1>1. /\ Zone("idle") = "free" /\ Zone("return") = "free"
      /\ \A n \in {"publish", "subscribe", "unsubscribe", "check_state", "sync_list"} :
            Zone(n) = "free"
      /\ \A n \in {"connack_overflow", "overflow", "event", "deliver", "unmatched",
                   "disconnected", "told"} : Zone(n) \in {"yield", "read"}
  BY DEF Zone, YieldNames
<1>2. Idle \in YieldPoints /\ Nowhere \in CallPoints
  BY DEF Idle, Nowhere, At, YieldPoints, CallPoints, YieldNames, CallNames
<1>3. \A l \in Lock : ~Holds(l, Idle) /\ ~Holds(l, Nowhere)
  BY <1>1 DEF Idle, Nowhere, At, Holds, Within, Lock, NoLock
<1>4. \A p \in Operations : p \in CallPoints
  BY DEF Operations, At, CallPoints, CallNames
<1>5. \A p \in Operations : \A l \in Lock : ~Holds(l, p)
  BY <1>1 DEF Operations, At, Holds, Within, Lock, NoLock
<1>6. \A p \in Callbacks : \A l \in CallLocks : ~Holds(l, p)
  BY <1>1 DEF Callbacks, At, Holds, Within, Lock, NoLock, CallLocks
<1>. QED
  BY <1>2, <1>3, <1>4, <1>5, <1>6

(* The edges a thread can follow belong to the call it is in.              *)
LEMMA EdgesOfPoint ==
    ASSUME TypeOK, NEW t \in Threads, NEW e \in EdgesAt(t)
    PROVE  /\ e.from = Point(t)
           /\ Good(e)
           /\ calling[t] # Nowhere =>
                 e \in Edge(CallNames, CallLocks) /\ e.from = calling[t]
           /\ calling[t] = Nowhere =>
                 e \in Edge(YieldNames, Lock) /\ e.from = yielding[t]
<1>1. Point(t) \in YieldPoints \cup CallPoints
  BY DEF TypeOK, Point
<1>2. e \in Code /\ e.from = Point(t)
  BY <1>1 DEF EdgesAt, EdgesFrom
<1>3. \/ e \in YieldCode /\ e \in Edge(YieldNames, Lock) /\ Good(e)
      \/ e \in CallCode /\ e \in Edge(CallNames, CallLocks) /\ Good(e)
  BY <1>2, CodeGood DEF Code, YieldGood, CallGood, AllGood
<1>4. YieldNames \cap CallNames = {}
  BY DEF YieldNames, CallNames
<1>5. CASE calling[t] # Nowhere
  <2>1. e.from \in CallPoints
    BY <1>2, <1>5 DEF Point, TypeOK
  <2>2. e \notin Edge(YieldNames, Lock)
    BY <2>1, <1>4 DEF Edge, CallPoints
  <2>. QED
    BY <1>2, <1>3, <1>5, <2>2 DEF Point
<1>6. CASE calling[t] = Nowhere
  <2>1. e.from \in YieldPoints
    BY <1>2, <1>6 DEF Point, TypeOK
  <2>2. e \notin Edge(CallNames, CallLocks)
    BY <2>1, <1>4 DEF Edge, YieldPoints
  <2>. QED
    BY <1>2, <1>3, <1>6, <2>2 DEF Point
<1>. QED
  BY <1>5, <1>6

LEMMA InitInv == ASSUME LocksAssumption, Init PROVE IInv
<1>1. TypeOK
  BY OutsidePoints DEF Init, TypeOK, LocksAssumption
<1>2. Placed
  BY OutsidePoints DEF Init, Placed, LocksAssumption
<1>3. Nested
  BY OutsidePoints DEF Init, Nested
<1>. QED
  BY <1>1, <1>2, <1>3 DEF IInv

Has(t, l) == Holds(l, yielding[t]) \/ Holds(l, calling[t])

(* What following an edge does to the points and to the locks a thread     *)
(* should have.                                                            *)
LEMMA AfterMove ==
    ASSUME IInv, NEW t \in Threads, NEW e \in EdgesAt(t), MoveTo(t, e.to)
    PROVE  /\ yielding' \in [Threads -> YieldPoints]
           /\ calling' \in [Threads -> CallPoints]
           /\ \A u \in Threads : u # t =>
                 yielding'[u] = yielding[u] /\ calling'[u] = calling[u]
           /\ Nested'
           /\ e.op = "lock" => \A l \in Lock : Has(t, l)' <=> Has(t, l) \/ l = e.lock
           /\ e.op = "unlock" => \A l \in Lock : Has(t, l)' <=> Has(t, l) /\ l # e.lock
           /\ e.op \in {"go", "back"} => \A l \in Lock : Has(t, l)' <=> Has(t, l)
<1>. USE DEF IInv
<1>1. CASE calling[t] # Nowhere
  <2>1. calling' = [calling EXCEPT ![t] = e.to] /\ yielding' = yielding
    BY <1>1 DEF MoveTo
  <2>2. Good(e) /\ e \in Edge(CallNames, CallLocks) /\ e.from = calling[t]
    BY <1>1, EdgesOfPoint
  <2>3. e.to \in CallPoints /\ e.lock \in CallLocks \cup {NoLock}
    BY <2>2 DEF Edge, CallPoints
  <2>4. /\ yielding' \in [Threads -> YieldPoints]
        /\ calling' \in [Threads -> CallPoints]
        /\ calling'[t] = e.to
        /\ \A u \in Threads : yielding'[u] = yielding[u]
        /\ \A u \in Threads : u # t => calling'[u] = calling[u]
    BY <2>1, <2>3 DEF TypeOK
  <2>5. \A l \in Lock : Holds(l, e.to) => l \in CallLocks
    <3>1. \A l \in Lock : Holds(l, e.from) => l \in CallLocks
      BY <2>2 DEF Nested
    <3>. QED
      BY <2>2, <2>3, <3>1, LocksAndRanks DEF Good, Edge, NoLock
  <2>6. Nested'
    BY <1>1, <2>4, <2>5 DEF Nested
  <2>7. \A l \in CallLocks : ~Holds(l, yielding[t])
    BY <1>1, OutsidePoints, LocksAndRanks DEF Nested
  <2>8. e.op = "unlock" => ~Holds(e.lock, yielding[t])
    BY <2>2, <2>3, <2>7, LocksAndRanks DEF Good, NoLock
  <2>. QED
    BY <2>2, <2>4, <2>6, <2>8 DEF Good, Has
<1>2. CASE calling[t] = Nowhere
  <2>1. yielding' = [yielding EXCEPT ![t] = e.to] /\ calling' = calling
    BY <1>2 DEF MoveTo
  <2>2. Good(e) /\ e \in Edge(YieldNames, Lock) /\ e.from = yielding[t]
    BY <1>2, EdgesOfPoint
  <2>3. e.to \in YieldPoints
    BY <2>2 DEF Edge, YieldPoints
  <2>4. /\ yielding' \in [Threads -> YieldPoints]
        /\ calling' \in [Threads -> CallPoints]
        /\ yielding'[t] = e.to
        /\ \A u \in Threads : calling'[u] = calling[u]
        /\ \A u \in Threads : u # t => yielding'[u] = yielding[u]
    BY <2>1, <2>3 DEF TypeOK
  <2>5. Nested'
    BY <1>2, <2>4 DEF Nested
  <2>6. \A l \in Lock : ~Holds(l, calling[t])
    BY <1>2, OutsidePoints
  <2>. QED
    BY <2>2, <2>4, <2>5, <2>6 DEF Good, Has
<1>. QED
  BY <1>1, <1>2

LEMMA CallInv ==
    ASSUME IInv, NEW t \in Threads, NEW op \in Operations, Call(t, op)
    PROVE  IInv'
<1>. USE DEF IInv, Call
<1>1. /\ calling' \in [Threads -> CallPoints]
      /\ calling'[t] = op
      /\ \A u \in Threads : u # t => calling'[u] = calling[u]
  BY OutsidePoints DEF TypeOK
<1>2. rounds' \in [Threads -> 0 .. MaxRounds]
  <2>1. yielding[t] # Idle => rounds[t] + 1 \in 0 .. MaxRounds
    BY LocksAssumption DEF TypeOK, LocksAssumption
  <2>. QED
    BY <2>1 DEF TypeOK
<1>3. TypeOK'
  BY <1>1, <1>2 DEF TypeOK
<1>4. \A l \in Lock : ~Holds(l, op) /\ ~Holds(l, calling[t])
  BY OutsidePoints
<1>5. Placed'
  BY <1>1, <1>4 DEF Placed
<1>6. Nested'
  BY <1>1, <1>4 DEF Nested
<1>. QED
  BY <1>3, <1>5, <1>6

LEMMA StepInv ==
    ASSUME LocksAssumption, IInv, NEW t \in Threads, Step(t)
    PROVE  IInv'
<1>1. PICK e \in EdgesAt(t) :
         Acquire(t, e) \/ Release(t, e) \/ Decide(t, e) \/ GoRound(t, e)
  BY DEF Step
<1>2. MoveTo(t, e.to) /\ Good(e)
  BY <1>1, EdgesOfPoint DEF IInv, Acquire, Release, Decide, GoRound
<1>3. /\ yielding' \in [Threads -> YieldPoints]
      /\ calling' \in [Threads -> CallPoints]
      /\ \A u \in Threads : u # t => \A l \in Lock : Has(u, l)' <=> Has(u, l)
      /\ Nested'
      /\ e.op = "lock" => \A l \in Lock : Has(t, l)' <=> Has(t, l) \/ l = e.lock
      /\ e.op = "unlock" => \A l \in Lock : Has(t, l)' <=> Has(t, l) /\ l # e.lock
      /\ e.op \in {"go", "back"} => \A l \in Lock : Has(t, l)' <=> Has(t, l)
  BY <1>2, AfterMove DEF Has
<1>4. \A u \in Threads : \A l \in Lock : holder[l] = u <=> Has(u, l)
  BY DEF IInv, Placed, Has
<1>5. SUFFICES /\ holder' \in [Lock -> Threads \cup {NoThread}]
               /\ rounds' \in [Threads -> 0 .. MaxRounds]
               /\ \A u \in Threads : \A l \in Lock : holder'[l] = u <=> Has(u, l)'
  BY <1>3 DEF IInv, TypeOK, Placed, Has
<1>6. /\ holder \in [Lock -> Threads \cup {NoThread}]
      /\ rounds \in [Threads -> 0 .. MaxRounds]
  BY DEF IInv, TypeOK
<1>7. CASE Acquire(t, e)
  <2>1. e.lock \in Lock /\ holder[e.lock] = NoThread
    BY <1>2, <1>7 DEF Acquire, Good
  <2>. QED
    BY <1>3, <1>4, <1>6, <1>7, <2>1 DEF Acquire, LocksAssumption
<1>8. CASE Release(t, e)
  <2>1. e.lock \in Lock /\ Has(t, e.lock)
    BY <1>2, <1>8, EdgesOfPoint DEF Release, Good, Has, IInv
  <2>. QED
    BY <1>3, <1>4, <1>6, <1>8, <2>1 DEF Release, LocksAssumption
<1>9. CASE Decide(t, e)
  BY <1>3, <1>4, <1>6, <1>9 DEF Decide, LocksAssumption
<1>10. CASE GoRound(t, e)
  BY <1>3, <1>4, <1>6, <1>10 DEF GoRound, LocksAssumption
<1>. QED
  BY <1>1, <1>7, <1>8, <1>9, <1>10

LEMMA NextInv == ASSUME LocksAssumption, IInv, [Next]_vars PROVE IInv'
<1>1. CASE Next
  BY <1>1, CallInv, StepInv DEF Next
<1>2. CASE UNCHANGED vars
  BY <1>2 DEF vars, IInv, TypeOK, Placed, Nested
<1>. QED
  BY <1>1, <1>2

THEOREM Invariance == Spec => []IInv
  BY InitInv, NextInv, LocksAssumption, PTL DEF Spec

-----------------------------------------------------------------------------
(* The types of the variables are kept: no thread leaves its graph.        *)
THEOREM TypeCorrect == Spec => []TypeOK
<1>1. IInv => TypeOK
  BY DEF IInv
<1>. QED
  BY <1>1, Invariance, PTL

LEMMA Ordered == ASSUME IInv PROVE InOrder
<1>. SUFFICES ASSUME NEW t \in Threads, NEW e \in EdgesAt(t), e.op = "lock",
                     NEW l \in Lock, holder[l] = t
              PROVE  Rank(l) < Rank(e.lock)
  BY DEF InOrder
<1>1. Good(e) /\ (Holds(l, yielding[t]) \/ Holds(l, calling[t]))
  BY EdgesOfPoint DEF IInv, Placed
<1>2. CASE calling[t] = Nowhere
  BY <1>1, <1>2, EdgesOfPoint, OutsidePoints DEF IInv, Good
<1>3. CASE calling[t] # Nowhere /\ Holds(l, calling[t])
  BY <1>1, <1>3, EdgesOfPoint DEF IInv, Good
<1>4. CASE calling[t] # Nowhere /\ Holds(l, yielding[t])
  <2>1. l \notin CallLocks
    BY <1>4, OutsidePoints DEF IInv, Nested
  <2>2. e.lock \in CallLocks
    BY <1>1, <1>4, EdgesOfPoint DEF IInv, Good, Edge, NoLock, Lock
  <2>. QED
    BY <2>1, <2>2, LocksAndRanks
<1>. QED
  BY <1>1, <1>2, <1>3, <1>4

(* On no path of the code, through callbacks and the calls made from them, *)
(* is a lock asked for that does not come after all those already held.    *)
THEOREM LocksInOrder == Spec => []InOrder
  BY Ordered, Invariance, PTL

(* Every lock is given back by the thread that took it, and none is kept   *)
(* outside the calls.                                                      *)
THEOREM LocksGivenBack == Spec => []NothingKept
<1>1. ASSUME IInv PROVE NothingKept
  <2>1. ASSUME NEW t \in Threads, NEW e \in EdgesAt(t), e.op = "unlock"
        PROVE  holder[e.lock] = t
    BY <2>1, <1>1, EdgesOfPoint DEF IInv, Placed, Good
  <2>2. ASSUME NEW t \in Threads, Point(t) = Idle, NEW l \in Lock
        PROVE  holder[l] # t
    <3>1. Idle \notin CallPoints
      BY DEF Idle, At, CallPoints, CallNames
    <3>2. calling[t] = Nowhere /\ yielding[t] = Idle
      BY <1>1, <2>2, <3>1 DEF IInv, TypeOK, Point
    <3>. QED
      BY <1>1, <3>2, OutsidePoints DEF IInv, Placed
  <2>. QED
    BY <2>1, <2>2 DEF NothingKept
<1>. QED
  BY <1>1, Invariance, PTL

(* Whenever locks are held, the holder of the last of them in the order    *)
(* waits for none, whichever way it goes: there is no deadlock.            *)
THEOREM NoDeadlock == Spec => []HolderMoves
<1>1. ASSUME IInv PROVE HolderMoves
  <2>. SUFFICES ASSUME NEW k \in Lock, holder[k] # NoThread
                PROVE  \E l \in Lock : holder[l] # NoThread /\ ~Waiting(holder[l])
    BY DEF HolderMoves
  <2>1. PICK l \in Lock :
           /\ holder[l] # NoThread
           /\ \A m \in Lock : holder[m] # NoThread => Rank(m) <= Rank(l)
    BY LocksAndRanks
  <2>2. holder[l] \in Threads
    BY <1>1, <2>1 DEF IInv, TypeOK
  <2>3. ASSUME NEW e \in EdgesAt(holder[l]), e.op = "lock"
        PROVE  holder[e.lock] = NoThread
    <3>1. e.lock \in Lock /\ Rank(l) < Rank(e.lock)
      BY <1>1, <2>2, <2>3, EdgesOfPoint, Ordered DEF IInv, InOrder, Good
    <3>. QED
      BY <2>1, <3>1 DEF Rank
  <2>. QED
    BY <2>1, <2>3 DEF Waiting
<1>. QED
  BY <1>1, Invariance, PTL
=============================================================================
