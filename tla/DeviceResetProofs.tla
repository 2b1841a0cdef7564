------------------------- MODULE DeviceResetProofs -------------------------
(***************************************************************************)
(* Proofs about DeviceReset: a restore is begun only when it was asked     *)
(* for, its mark outlives everything until the cloud knows, and the SSID   *)
(* and the password in flash belong together unless once only one of them  *)
(* was written or erased.                                                  *)
(*                                                                         *)
(* The count in flash stays below the number of boots because the timer    *)
(* clears both, as long as it can; the mark outlives because nothing is on its way between    *)
(* device and cloud while the device boots, which is when marks are made;  *)
(* the pair matches because what the driver runs with is either the pair   *)
(* in flash or replaces a pair that is erased.                             *)
(***************************************************************************)
EXTENDS DeviceReset, TLAPS

\* The types the arguments below need.
Typed ==
    /\ q_rt \in Nat /\ boots \in Nat
    /\ reports \in Nat /\ replies \in Nat
    /\ ssid \in Networks \cup {NoNet}
    /\ main = "done" => wifi.ssid \in Networks
    /\ at \in [Threads -> {"idle", "check", "report", "create", "arm", "subscribe",
                            "publish", "unmark", "delete"}]

\* The count in flash, and the boot that is yet to be counted.
Counted ==
    ~kept =>
        /\ main = "count" => quick /\ q_rt + 1 <= boots
        /\ main # "count" => q_rt <= boots
        /\ ~quick => q_rt = 0

\* Until the connection manager has started nothing but app_main runs.
Booting ==
    main # "done" =>
        /\ link = "down" /\ event = "idle" /\ ~online /\ ~connected
        /\ timer = "none" /\ at = [t \in Threads |-> "idle"]
        /\ reports = 0 /\ replies = 0

\* A reply is an answer to a report of this restore.
Answered ==
    /\ MarkOutlives
    /\ replies > 0 => ~due
    /\ at["yield"] = "unmark" => ~due

\* The pair in flash and the pair the driver runs with.
Paired ==
    ~half =>
        /\ ~Writing => password = IF ssid = NoNet THEN NoKey ELSE Key(ssid)
        /\ main = "password" /\ ssid # NoNet => password = Key(ssid)
        /\ event = "password" => ssid = wifi.ssid /\ wifi.password # NoKey
        /\ main = "done" =>
               /\ wifi.ssid \in Networks /\ wifi.password = Key(wifi.ssid)
               /\ ssid \in {NoNet, wifi.ssid}

IInv == Typed /\ Counted /\ Booting /\ Answered /\ Paired

(* What is counted stays a number.                                         *)
LEMMA Counting ==
    /\ 1 \in Nat
    /\ \A n \in Nat : n + 1 \in Nat
    /\ \A n \in Nat : n > 0 => n - 1 \in Nat
    /\ ~(0 > 0)
  OBVIOUS

(* The invariant holds before the first boot.                              *)
LEMMA InitIInv == Init => IInv
  <1> SUFFICES ASSUME Init PROVE IInv
    OBVIOUS
  <1>1. PICK n \in Networks \cup {NoNet} :
            ssid = n /\ password = IF n = NoNet THEN NoKey ELSE Key(n)
    BY DEF Init
  <1>2. Typed
    BY <1>1 DEF Init, Typed, Threads
  <1>3. Counted
    <2>1. main = "count" /\ quick = TRUE /\ q_rt = 0 /\ boots = 1
      BY DEF Init
    <2>q. QED
      BY <2>1, 0 + 1 <= 1 DEF Counted
  <1>5. Booting
    BY DEF Init, Booting, Threads
  <1>6. Answered
    <2>1. ~due /\ replies = 0 /\ at["yield"] = "idle"
      BY DEF Init, Threads
    <2>q. QED
      BY <2>1, ~(0 > 0) DEF Answered, MarkOutlives
  <1>4. Paired
    BY <1>1 DEF Init, Paired, Writing
  <1>q. QED
    BY <1>2, <1>3, <1>4, <1>5, <1>6 DEF IInv

(* Each step keeps the types.                                              *)
LEMMA TypedStep == IInv /\ [Next]_vars => Typed'
  <1> SUFFICES ASSUME IInv, [Next]_vars PROVE Typed'
    OBVIOUS
  <1> USE ResetAssumption DEF IInv, Typed, Threads,
              flash, station, reporting, network, counts, Succeeds, Fails, EraseCount
  <1>1. CASE Count
    <2>1. q_rt' \in {q_rt, q_rt + 1}
      BY <1>1 DEF Count
    <2>2. q_rt' \in Nat
      BY <2>1, Counting DEF Typed
    <2>q. QED
      BY <1>1, <2>2 DEF Count, Goes
  <1>2. CASE Mark
    BY <1>2 DEF Mark
  <1>3. CASE Uncount
    <2>1. q_rt' \in {0, q_rt} /\ boots' = 0
      BY <1>3 DEF Uncount
    <2>2. q_rt' \in Nat /\ boots' \in Nat
      <3>1. q_rt \in Nat /\ 0 \in Nat
        BY DEF Typed
      <3>q. QED
        BY ONLY <2>1, <3>1
    <2>3. UNCHANGED <<reports, replies, ssid, at, wifi>> /\ (main' = "done" => main = "done")
      BY <1>3 DEF Uncount
    <2>q. QED
      BY <2>2, <2>3
  <1>4. CASE DelSsid
    BY <1>4 DEF DelSsid
  <1>5. CASE DelPassword
    BY <1>5 DEF DelPassword
  <1>6. CASE Connect
    BY <1>6 DEF Connect
  <1>7. CASE \E n \in Networks : Provision(n)
    <2>1. PICK n \in Networks : Provision(n)
      BY <1>7
    <2>2. wifi'.ssid \in Networks
      BY <2>1 DEF Provision
    <2>q. QED
      BY <2>1, <2>2 DEF Provision
  <1>8. CASE QuickTimeout
    <2>1. q_rt' \in {0, q_rt} /\ boots' = 0
      BY <1>8 DEF QuickTimeout
    <2>2. q_rt' \in Nat /\ boots' \in Nat
      <3>1. q_rt \in Nat /\ 0 \in Nat
        BY DEF Typed
      <3>q. QED
        BY ONLY <2>1, <3>1
    <2>3. UNCHANGED <<reports, replies, ssid, at, wifi>> /\ (main' = "done" => main = "done")
      BY <1>8 DEF QuickTimeout
    <2>q. QED
      BY <2>2, <2>3
  <1>9. CASE GotIp
    BY <1>9 DEF GotIp
  <1>10. CASE SaveSsid
    <2>1. ssid' \in Networks \cup {NoNet}
      BY <1>10 DEF SaveSsid, Booting, Typed
    <2>q. QED
      BY <1>10, <2>1 DEF SaveSsid
  <1>11. CASE SavePassword
    BY <1>11 DEF SavePassword
  <1>12. CASE StartLinkkit
    BY <1>12 DEF StartLinkkit
  <1>13. CASE Disconnected
    BY <1>13 DEF Disconnected
  <1>14. CASE MqttUp
    BY <1>14 DEF MqttUp, Goes
  <1>15. CASE CheckReset
    BY <1>15 DEF CheckReset, Goes
  <1>16. CASE Reply
    <2>1. replies > 0 /\ replies' = replies - 1
      BY <1>16 DEF Reply
    <2>2. replies' \in Nat
      BY <2>1, Counting DEF Typed
    <2>q. QED
      BY <1>16, <2>2 DEF Reply, Goes
  <1>17. CASE Unmark
    BY <1>17 DEF Unmark, Goes
  <1>18. CASE DeleteTimer
    BY <1>18 DEF DeleteTimer, Goes
  <1>19. CASE Fire
    BY <1>19 DEF Fire, Goes
  <1>20. CASE \E t \in Threads : Report(t)
    <2> SUFFICES ASSUME NEW t \in Threads, Report(t) PROVE Typed'
      BY <1>20
    <2>1. CASE ReportUnlessDone(t)
      BY <2>1 DEF ReportUnlessDone, Goes
    <2>2. CASE CreateTimer(t)
      BY <2>2 DEF CreateTimer, Goes
    <2>3. CASE ArmTimer(t)
      BY <2>3 DEF ArmTimer, Goes
    <2>4. CASE Subscribe(t)
      BY <2>4 DEF Subscribe, Goes
    <2>5. CASE SubscribeFails(t)
      BY <2>5 DEF SubscribeFails, Goes
    <2>6. CASE Publish(t)
      <3>1. reports' = reports + 1 \/ reports' = reports
        BY <2>6 DEF Publish
      <3>2. reports' \in Nat
        BY <3>1, Counting DEF Typed
      <3>q. QED
        BY <2>6, <3>2 DEF Publish, Goes
    <2>q. QED
      BY <2>1, <2>2, <2>3, <2>4, <2>5, <2>6 DEF Report
  <1>21. CASE MqttDown
    BY <1>21 DEF MqttDown, Lost
  <1>22. CASE CloudReplies
    <2>1. reports > 0 /\ reports' = reports - 1 /\ replies' = replies + 1
      BY <1>22 DEF CloudReplies
    <2>2. reports' \in Nat /\ replies' \in Nat
      BY <2>1, Counting DEF Typed
    <2>q. QED
      BY <1>22, <2>2 DEF CloudReplies, Goes
  <1>23. CASE Restart
    <2>1. boots' = boots + 1 \/ boots' = 1
      BY <1>23 DEF Restart
    <2>2. boots' \in Nat
      BY <2>1, Counting DEF Typed
    <2>q. QED
      BY <1>23, <2>2 DEF Restart, Lost
  <1>24. CASE UNCHANGED vars
    BY <1>24 DEF vars
  <1>25. QED
    BY <1>1, <1>2, <1>3, <1>4, <1>5, <1>6, <1>7, <1>8, <1>9, <1>10, <1>11, <1>12, <1>13,
       <1>14, <1>15, <1>16, <1>17, <1>18, <1>19, <1>20, <1>21, <1>22, <1>23, <1>24
       DEF Next, App, Event, Yield

(* The count and the boots go up and are cleared together.                 *)
LEMMA CountedStep == IInv /\ [Next]_vars => Counted'
  <1> SUFFICES ASSUME IInv, [Next]_vars PROVE Counted'
    OBVIOUS
  <1> USE ResetAssumption DEF IInv, Typed, Counted,
              flash, station, reporting, network, counts, Succeeds, Fails, EraseCount
  <1>1. CASE Count
    <2>1. main = "count" /\ main' # "count" /\ q_rt' \in {q_rt, q_rt + 1}
          /\ UNCHANGED <<quick, boots, kept>>
      BY <1>1 DEF Count
    <2>2. ~kept => quick /\ q_rt + 1 <= boots
      BY <2>1 DEF Counted
    <2>q. QED
      BY <2>1, <2>2 DEF Counted, Typed
  <1>2. CASE Mark
    BY <1>2 DEF Mark
  <1>3. CASE Uncount
    BY <1>3 DEF Uncount
  <1>4. CASE DelSsid
    BY <1>4 DEF DelSsid
  <1>5. CASE DelPassword
    BY <1>5 DEF DelPassword
  <1>6. CASE Connect
    BY <1>6 DEF Connect
  <1>7. CASE \E n \in Networks : Provision(n)
    BY <1>7 DEF Provision
  <1>8. CASE QuickTimeout
    BY <1>8 DEF QuickTimeout
  <1>9. CASE GotIp
    BY <1>9 DEF GotIp
  <1>10. CASE SaveSsid
    BY <1>10 DEF SaveSsid
  <1>11. CASE SavePassword
    BY <1>11 DEF SavePassword
  <1>12. CASE StartLinkkit
    BY <1>12 DEF StartLinkkit
  <1>13. CASE Disconnected
    BY <1>13 DEF Disconnected
  <1>14. CASE MqttUp
    BY <1>14 DEF MqttUp, Goes
  <1>15. CASE CheckReset
    BY <1>15 DEF CheckReset, Goes
  <1>16. CASE Reply
    BY <1>16 DEF Reply, Goes
  <1>17. CASE Unmark
    BY <1>17 DEF Unmark, Goes
  <1>18. CASE DeleteTimer
    BY <1>18 DEF DeleteTimer, Goes
  <1>19. CASE Fire
    BY <1>19 DEF Fire, Goes
  <1>20. CASE \E t \in Threads : Report(t)
    BY <1>20 DEF Report, ReportUnlessDone, CreateTimer, ArmTimer,
               Subscribe, SubscribeFails, Publish, Goes
  <1>21. CASE MqttDown
    BY <1>21 DEF MqttDown, Lost
  <1>22. CASE CloudReplies
    BY <1>22 DEF CloudReplies
  <1>23. CASE Restart
    BY <1>23 DEF Restart, Lost
  <1>24. CASE UNCHANGED vars
    BY <1>24 DEF vars
  <1>25. QED
    BY <1>1, <1>2, <1>3, <1>4, <1>5, <1>6, <1>7, <1>8, <1>9, <1>10, <1>11, <1>12, <1>13,
       <1>14, <1>15, <1>16, <1>17, <1>18, <1>19, <1>20, <1>21, <1>22, <1>23, <1>24
       DEF Next, App, Event, Yield

(* Only the task that starts the connection manager ends the boot.         *)
LEMMA BootingStep == IInv /\ [Next]_vars => Booting'
  <1> SUFFICES ASSUME IInv, [Next]_vars PROVE Booting'
    OBVIOUS
  <1> USE ResetAssumption DEF IInv, Typed, Booting, Threads,
              flash, station, reporting, network, counts, Succeeds, Fails, EraseCount
  <1>1. CASE Count
    BY <1>1 DEF Count
  <1>2. CASE Mark
    BY <1>2 DEF Mark
  <1>3. CASE Uncount
    BY <1>3 DEF Uncount
  <1>4. CASE DelSsid
    BY <1>4 DEF DelSsid
  <1>5. CASE DelPassword
    BY <1>5 DEF DelPassword
  <1>6. CASE Connect
    BY <1>6 DEF Connect
  <1>7. CASE \E n \in Networks : Provision(n)
    BY <1>7 DEF Provision
  <1>8. CASE QuickTimeout
    BY <1>8 DEF QuickTimeout
  <1>9. CASE GotIp
    BY <1>9 DEF GotIp
  <1>10. CASE SaveSsid
    BY <1>10 DEF SaveSsid
  <1>11. CASE SavePassword
    BY <1>11 DEF SavePassword
  <1>12. CASE StartLinkkit
    BY <1>12 DEF StartLinkkit
  <1>13. CASE Disconnected
    BY <1>13 DEF Disconnected
  <1>14. CASE MqttUp
    BY <1>14 DEF MqttUp, Goes
  <1>15. CASE CheckReset
    BY <1>15 DEF CheckReset, Goes
  <1>16. CASE Reply
    BY <1>16 DEF Reply, Goes
  <1>17. CASE Unmark
    BY <1>17 DEF Unmark, Goes
  <1>18. CASE DeleteTimer
    BY <1>18 DEF DeleteTimer, Goes
  <1>19. CASE Fire
    BY <1>19 DEF Fire, Goes
  <1>20. CASE \E t \in Threads : Report(t)
    BY <1>20 DEF Report, ReportUnlessDone, CreateTimer, ArmTimer,
               Subscribe, SubscribeFails, Publish, Goes
  <1>21. CASE MqttDown
    BY <1>21 DEF MqttDown, Lost
  <1>22. CASE CloudReplies
    <2>1. main = "done"
      BY <1>22, Counting DEF CloudReplies
    <2>q. QED
      BY <1>22, <2>1 DEF CloudReplies
  <1>23. CASE Restart
    BY <1>23 DEF Restart, Lost
  <1>24. CASE UNCHANGED vars
    BY <1>24 DEF vars
  <1>25. QED
    BY <1>1, <1>2, <1>3, <1>4, <1>5, <1>6, <1>7, <1>8, <1>9, <1>10, <1>11, <1>12, <1>13,
       <1>14, <1>15, <1>16, <1>17, <1>18, <1>19, <1>20, <1>21, <1>22, <1>23, <1>24
       DEF Next, App, Event, Yield

(* A mark is made when no reply is on its way, and cleared only by one.    *)
LEMMA AnsweredStep == IInv /\ [Next]_vars => Answered'
  <1> SUFFICES ASSUME IInv, [Next]_vars PROVE Answered'
    OBVIOUS
  <1> USE ResetAssumption DEF IInv, Typed, Booting, Answered, MarkOutlives, Threads,
              flash, station, reporting, network, counts, Succeeds, Fails, EraseCount
  <1>1. CASE Count
    BY <1>1 DEF Count
  <1>2. CASE Mark
    <2>1. replies' = 0 /\ at'["yield"] = "idle"
      BY <1>2 DEF Mark
    <2>2. due' => rst'
      BY <1>2 DEF Mark
    <2>3. ~(replies' > 0)
      BY <2>1, Counting
    <2>q. QED
      BY <2>1, <2>2, <2>3
  <1>3. CASE Uncount
    BY <1>3 DEF Uncount
  <1>4. CASE DelSsid
    BY <1>4 DEF DelSsid
  <1>5. CASE DelPassword
    BY <1>5 DEF DelPassword
  <1>6. CASE Connect
    BY <1>6 DEF Connect
  <1>7. CASE \E n \in Networks : Provision(n)
    <2>1. UNCHANGED <<rst, due, replies, at>>
      BY <1>7 DEF Provision
    <2>q. QED
      BY <2>1
  <1>8. CASE QuickTimeout
    BY <1>8 DEF QuickTimeout
  <1>9. CASE GotIp
    BY <1>9 DEF GotIp
  <1>10. CASE SaveSsid
    BY <1>10 DEF SaveSsid
  <1>11. CASE SavePassword
    BY <1>11 DEF SavePassword
  <1>12. CASE StartLinkkit
    BY <1>12 DEF StartLinkkit
  <1>13. CASE Disconnected
    BY <1>13 DEF Disconnected
  <1>14. CASE MqttUp
    BY <1>14 DEF MqttUp, Goes
  <1>15. CASE CheckReset
    BY <1>15 DEF CheckReset, Goes
  <1>16. CASE Reply
    BY <1>16 DEF Reply, Goes
  <1>17. CASE Unmark
    BY <1>17 DEF Unmark, Goes
  <1>18. CASE DeleteTimer
    BY <1>18 DEF DeleteTimer, Goes
  <1>19. CASE Fire
    BY <1>19 DEF Fire, Goes
  <1>20. CASE \E t \in Threads : Report(t)
    <2> SUFFICES ASSUME NEW t \in Threads, Report(t) PROVE Answered'
      BY <1>20
    <2>1. CASE ReportUnlessDone(t)
      BY <2>1 DEF ReportUnlessDone, Goes
    <2>2. CASE CreateTimer(t)
      BY <2>2 DEF CreateTimer, Goes
    <2>3. CASE ArmTimer(t)
      BY <2>3 DEF ArmTimer, Goes
    <2>4. CASE Subscribe(t)
      BY <2>4 DEF Subscribe, Goes
    <2>5. CASE SubscribeFails(t)
      BY <2>5 DEF SubscribeFails, Goes
    <2>6. CASE Publish(t)
      BY <2>6 DEF Publish, Goes
    <2>q. QED
      BY <2>1, <2>2, <2>3, <2>4, <2>5, <2>6 DEF Report
  <1>21. CASE MqttDown
    <2>1. replies' = 0 /\ (due' = due \/ due' = FALSE) /\ UNCHANGED <<rst, at>>
      BY <1>21 DEF MqttDown, Lost
    <2>2. ~(replies' > 0)
      BY <2>1, Counting
    <2>3. due' => rst'
      BY <2>1
    <2>4. at'["yield"] = "unmark" => ~due'
      BY <2>1
    <2>q. QED
      BY <2>2, <2>3, <2>4
  <1>22. CASE CloudReplies
    BY <1>22 DEF CloudReplies
  <1>23. CASE Restart
    <2>1. replies' = 0 /\ (due' = due \/ due' = FALSE) /\ UNCHANGED rst /\ at'["yield"] = "idle"
      BY <1>23 DEF Restart, Lost
    <2>2. ~(replies' > 0)
      BY <2>1, Counting
    <2>3. due' => rst'
      BY <2>1
    <2>4. at'["yield"] = "unmark" => ~due'
      BY <2>1
    <2>q. QED
      BY <2>2, <2>3, <2>4
  <1>24. CASE UNCHANGED vars
    BY <1>24 DEF vars
  <1>25. QED
    BY <1>1, <1>2, <1>3, <1>4, <1>5, <1>6, <1>7, <1>8, <1>9, <1>10, <1>11, <1>12, <1>13,
       <1>14, <1>15, <1>16, <1>17, <1>18, <1>19, <1>20, <1>21, <1>22, <1>23, <1>24
       DEF Next, App, Event, Yield

(* Each step keeps the pairs, unless only one of two writes is made.       *)
LEMMA PairedStep == IInv /\ [Next]_vars => Paired'
  <1> SUFFICES ASSUME IInv, [Next]_vars PROVE Paired'
    OBVIOUS
  <1> USE ResetAssumption DEF IInv, Typed, Booting, Paired, Writing, NoConfig,
              flash, station, reporting, network, counts, Succeeds, Fails, EraseCount
  <1>1. CASE Count
    BY <1>1 DEF Count
  <1>2. CASE Mark
    BY <1>2 DEF Mark
  <1>3. CASE Uncount
    BY <1>3 DEF Uncount
  <1>4. CASE DelSsid
    BY <1>4 DEF DelSsid
  <1>5. CASE DelPassword
    BY <1>5 DEF DelPassword
  <1>6. CASE Connect
    BY <1>6 DEF Connect
  <1>7. CASE \E n \in Networks : Provision(n)
    BY <1>7 DEF Provision
  <1>8. CASE QuickTimeout
    BY <1>8 DEF QuickTimeout
  <1>9. CASE GotIp
    BY <1>9 DEF GotIp
  <1>10. CASE SaveSsid
    BY <1>10 DEF SaveSsid
  <1>11. CASE SavePassword
    BY <1>11 DEF SavePassword
  <1>12. CASE StartLinkkit
    BY <1>12 DEF StartLinkkit
  <1>13. CASE Disconnected
    BY <1>13 DEF Disconnected
  <1>14. CASE MqttUp
    BY <1>14 DEF MqttUp, Goes
  <1>15. CASE CheckReset
    BY <1>15 DEF CheckReset, Goes
  <1>16. CASE Reply
    BY <1>16 DEF Reply, Goes
  <1>17. CASE Unmark
    BY <1>17 DEF Unmark, Goes
  <1>18. CASE DeleteTimer
    BY <1>18 DEF DeleteTimer, Goes
  <1>19. CASE Fire
    BY <1>19 DEF Fire, Goes
  <1>20. CASE \E t \in Threads : Report(t)
    BY <1>20 DEF Report, ReportUnlessDone, CreateTimer, ArmTimer,
               Subscribe, SubscribeFails, Publish, Goes
  <1>21. CASE MqttDown
    BY <1>21 DEF MqttDown, Lost
  <1>22. CASE CloudReplies
    BY <1>22 DEF CloudReplies
  <1>23. CASE Restart
    BY <1>23 DEF Restart, Lost
  <1>24. CASE UNCHANGED vars
    BY <1>24 DEF vars
  <1>25. QED
    BY <1>1, <1>2, <1>3, <1>4, <1>5, <1>6, <1>7, <1>8, <1>9, <1>10, <1>11, <1>12, <1>13,
       <1>14, <1>15, <1>16, <1>17, <1>18, <1>19, <1>20, <1>21, <1>22, <1>23, <1>24
       DEF Next, App, Event, Yield

(* The invariant is inductive.                                             *)
LEMMA Inductive == IInv /\ [Next]_vars => IInv'
  BY TypedStep, CountedStep, BootingStep, AnsweredStep, PairedStep DEF IInv

(* The invariant holds in every reachable state.                           *)
LEMMA Invariant == Spec => []IInv
  BY InitIInv, Inductive, PTL DEF Spec

-----------------------------------------------------------------------------
(* The mark of a restore is in flash as long as the cloud has not been     *)
(* told, whatever is cut, lost or repeated (awss_report_reset_reply,       *)
(* awss_check_reset).                                                      *)
THEOREM MarkKept == Spec => []MarkOutlives
  <1>1. IInv => MarkOutlives
    BY DEF IInv, Answered
  <1>q. QED
    BY <1>1, Invariant, PTL

(* SSID and password in flash belong together unless the power was cut or  *)
(* the flash failed between their writes (conn_mgr_save_wifi_config,       *)
(* conn_mgr_reset_wifi_config).                                            *)
THEOREM PairKept == Spec => []CredentialsMatch
  <1>1. IInv => CredentialsMatch
    BY DEF IInv, Paired, CredentialsMatch
  <1>q. QED
    BY <1>1, Invariant, PTL

(* A restore takes MAX_TIMES quick boots in a row, as long as the count    *)
(* can be erased (factory_restore_handle, factory_restore_timer_handler).  *)
THEOREM RestoreAsked == Spec => RestoreIsAsked
  <1>1. IInv /\ [Next]_vars => [~kept /\ main # "mark" /\ main' = "mark" => boots >= MAX_TIMES]_main
    <2> SUFFICES ASSUME IInv, [Next]_vars, ~kept, main # "mark", main' = "mark"
                 PROVE  boots >= MAX_TIMES
      OBVIOUS
    <2>1. CASE Count
      BY <2>1, ResetAssumption DEF Count, IInv, Typed, Counted
    <2>2. CASE ~Count
      BY <2>2 DEF Next, App, Mark, Uncount, DelSsid, DelPassword, Connect, Provision,
         QuickTimeout, Event, GotIp, SaveSsid, SavePassword, StartLinkkit, Disconnected,
         Yield, MqttUp, CheckReset, Reply, Unmark, DeleteTimer, Fire, Report,
         ReportUnlessDone, CreateTimer, ArmTimer, Subscribe, SubscribeFails, Publish,
         MqttDown, CloudReplies, Restart, vars
    <2>q. QED
      BY <2>1, <2>2
  <1>q. QED
    BY <1>1, Invariant, PTL DEF Spec, RestoreIsAsked
=============================================================================
