---------------------------- MODULE DeviceReset ----------------------------
(***************************************************************************)
(* Factory restore of a device without a button, as the smart light does   *)
(* it, across power cycles: the boots are counted in flash                 *)
(* (factory_restore), the MAX_TIMES-th quick one in a row marks the reset  *)
(* and forgets the network (conn_mgr), the device is provisioned anew, and *)
(* the mark is reported to the cloud until the cloud replies               *)
(* (awss_dev_reset).                                                       *)
(*                                                                         *)
(* The flash is what HAL_Kv_Set and HAL_Kv_Del have written; each is one   *)
(* step that may fail and write nothing, and the power can go before and   *)
(* after any of them.  Four threads run: app_main with the task that       *)
(* starts the connection manager, the event loop of the Wi-Fi, the timer   *)
(* task and the thread that yields the MQTT client, where connections are  *)
(* told of and replies arrive.                                             *)
(***************************************************************************)
EXTENDS Integers

CONSTANTS
    Networks,           \* the access points,
    OpenNetworks,       \*   those without a password,
    Unsaved,            \*   those the device never stores: HOTSPOT_AP, ROUTER_AP
    MAX_TIMES,          \* CONFIG_FACTORY_QUICK_REBOOT_MAX_TIMES
    MaxRestarts,        \* bound on the power cycles,
    MaxFailures,        \*   on the accesses to the flash that fail,
    MaxDrops,           \*   on the MQTT connections that are lost,
    MaxFlight           \*   and on the reports and replies on their way

NoNet == "none"
NoKey == "no key"

ASSUME ResetAssumption ==
    /\ OpenNetworks \subseteq Networks /\ Unsaved \subseteq Networks
    /\ NoNet \notin Networks /\ NoKey \notin Networks
    /\ MAX_TIMES \in Nat \ {0} /\ MaxRestarts \in Nat
    /\ MaxFailures \in Nat /\ MaxDrops \in Nat /\ MaxFlight \in Nat \ {0}

VARIABLES
    q_rt, rst, ssid, password,  \* the flash: the quick boots, the mark, the network
    main,           \* where app_main and start_conn_mgr are
    quick,          \* the timer of factory_restore runs
    wifi,           \* the configuration of the Wi-Fi driver, in memory
    link,           \* the station: "down", "joining" or "up"
    event,          \* where the handler of GOT_IP is
    online,         \* linkkit_started
    connected,      \* the MQTT connection
    suc,            \* awss_report_reset_suc
    timer,          \* report_reset_timer
    at,             \* where the yielding thread and the timer task are
    reports,        \* reports on their way to the cloud
    replies,        \* replies on their way to the device
    due,            \* a restore was marked that the cloud has not been told of
    boots,          \* quick boots in a row, as one would count them
    kept,           \* the count was to be erased, and that failed
    half,           \* of two writes of a network only one was made
    restarts, failures, drops

flash == <<q_rt, rst, ssid, password>>
station == <<wifi, link, event, online>>
reporting == <<suc, timer, at>>
network == <<connected, reports, replies, drops>>
counts == <<boots, kept, half, restarts, failures>>
vars == <<flash, main, quick, station, reporting, network, due, counts>>

Threads == {"yield", "timer task"}
Key(n) == IF n \in OpenNetworks THEN NoKey ELSE n
NoConfig == [ssid |-> NoNet, password |-> NoKey]

\* A device that was provisioned, or one that never was.
Init ==
    /\ \E n \in (Networks \ Unsaved) \cup {NoNet} :
           ssid = n /\ password = IF n = NoNet THEN NoKey ELSE Key(n)
    /\ q_rt = 0 /\ rst = FALSE /\ due = FALSE
    /\ main = "count" /\ quick = TRUE
    /\ wifi = NoConfig /\ link = "down" /\ event = "idle" /\ online = FALSE
    /\ connected = FALSE /\ suc = FALSE /\ timer = "none"
    /\ at = [t \in Threads |-> "idle"]
    /\ reports = 0 /\ replies = 0
    /\ boots = 1 /\ kept = FALSE /\ half = FALSE
    /\ restarts = 0 /\ failures = 0 /\ drops = 0

\* What was on its way is lost, or the cloud has just read it.
Lost == reports' = 0 /\ replies' = 0 /\ (due' = due \/ (reports > 0 /\ due' = FALSE))

\* HAL_Kv_Set and HAL_Kv_Del did what they were asked to, or nothing.
Succeeds == UNCHANGED failures
Fails == failures < MaxFailures /\ failures' = failures + 1

-----------------------------------------------------------------------------
(* app_main: factory_restore_handle, then conn_mgr_start.                  *)

\* The boot is counted in memory, and in flash if that can be written.
Count ==
    /\ main = "count"
    /\ \/ Succeeds /\ q_rt' = q_rt + 1
       \/ Fails /\ UNCHANGED q_rt
    /\ main' = IF q_rt + 1 >= MAX_TIMES THEN "mark" ELSE "start"
    /\ UNCHANGED <<rst, ssid, password, quick, station, reporting, network, due, boots,
                   kept, half, restarts>>

\* Without the mark the restore goes on, and nobody will report it.
Mark ==
    /\ main = "mark"
    /\ \/ Succeeds /\ rst' = TRUE /\ due' = TRUE
       \/ Fails /\ UNCHANGED <<rst, due>>
    /\ main' = "uncount"
    /\ UNCHANGED <<q_rt, ssid, password, quick, station, reporting, network, boots, kept,
                   half, restarts>>

EraseCount ==
    /\ boots' = 0
    /\ \/ Succeeds /\ q_rt' = 0 /\ UNCHANGED kept
       \/ Fails /\ UNCHANGED q_rt /\ kept' = TRUE

Uncount ==
    /\ main = "uncount"
    /\ EraseCount /\ main' = "ssid"
    /\ UNCHANGED <<rst, ssid, password, quick, station, reporting, network, due, half,
                   restarts>>

\* conn_mgr_reset_wifi_config, which looks at neither result.
DelSsid ==
    /\ main = "ssid"
    /\ \/ Succeeds /\ ssid' = NoNet
       \/ Fails /\ UNCHANGED ssid
    /\ main' = "password"
    /\ UNCHANGED <<q_rt, rst, password, quick, station, reporting, network, due, boots,
                   kept, half, restarts>>

\* Mutant: only the SSID is forgotten.
DelPassword_Kept ==
    /\ main = "password"
    /\ main' = "start"
    /\ UNCHANGED <<flash, quick, station, reporting, network, due, counts>>

DelPassword ==
    /\ main = "password"
    /\ \/ Succeeds /\ password' = NoKey /\ half' = (half \/ ssid # NoNet)
       \/ Fails /\ UNCHANGED password /\ half' = (half \/ ssid = NoNet)
    /\ main' = "start"
    /\ UNCHANGED <<q_rt, rst, ssid, quick, station, reporting, network, due, boots, kept,
                   restarts>>

\* conn_mgr_start: the stored network, if there is one,
Connect ==
    /\ main = "start" /\ ssid # NoNet
    /\ wifi' = [ssid |-> ssid, password |-> password]
    /\ link' = "joining" /\ main' = "done"
    /\ UNCHANGED <<flash, quick, event, online, reporting, network, due, counts>>

\* or else the one the user gives (awss_start, HAL_Awss_Connect_Ap).
Provision(n) ==
    /\ main = "start" /\ ssid = NoNet
    /\ wifi' = [ssid |-> n, password |-> Key(n)]
    /\ link' = "joining" /\ main' = "done"
    /\ UNCHANGED <<flash, quick, event, online, reporting, network, due, counts>>

\* Mutant: the count is not erased when the quick boots end.
QuickTimeout_Kept ==
    /\ quick /\ main # "count"
    /\ quick' = FALSE /\ boots' = 0
    /\ UNCHANGED <<flash, main, station, reporting, network, due, kept, half, restarts,
                   failures>>

\* factory_restore_timer_handler, seconds after the boots have been counted.
QuickTimeout ==
    /\ quick /\ main # "count"
    /\ quick' = FALSE /\ EraseCount
    /\ UNCHANGED <<rst, ssid, password, main, station, reporting, network, due, half,
                   restarts>>

-----------------------------------------------------------------------------
(* The event loop of the Wi-Fi: conn_mgr_wifi_event_loop_handler.          *)

(* An access point takes a station with its password; an open one may take *)
(* any.                                                                    *)
GotIp ==
    /\ link = "joining" /\ event = "idle"
    /\ wifi.ssid \in OpenNetworks \/ wifi.password = Key(wifi.ssid)
    /\ link' = "up" /\ event' = "ssid"
    /\ UNCHANGED <<flash, main, quick, wifi, online, reporting, network, due, counts>>

(* conn_mgr_save_wifi_config: a password is saved only if there is one,    *)
(* and only after the SSID; nothing undoes the SSID if the password cannot *)
(* be written.  Whatever becomes of the two, the handler goes on.          *)
SaveSsid ==
    /\ event = "ssid"
    /\ \/ /\ wifi.ssid \notin Unsaved /\ Succeeds
          /\ ssid' = wifi.ssid
          /\ event' = IF wifi.password # NoKey THEN "password" ELSE "started"
       \/ /\ IF wifi.ssid \in Unsaved THEN Succeeds ELSE Fails
          /\ UNCHANGED ssid /\ event' = "started"
    /\ UNCHANGED <<q_rt, rst, password, main, quick, wifi, link, online, reporting, network,
                   due, boots, kept, half, restarts>>

SavePassword ==
    /\ event = "password"
    /\ \/ Succeeds /\ password' = wifi.password /\ UNCHANGED half
       \/ Fails /\ UNCHANGED password /\ half' = TRUE
    /\ event' = "started"
    /\ UNCHANGED <<q_rt, rst, ssid, main, quick, wifi, link, online, reporting, network, due,
                   boots, kept, restarts>>

\* wifi_event_handle starts linkkit with the first address.
StartLinkkit ==
    /\ event = "started"
    /\ online' = TRUE /\ event' = "idle"
    /\ UNCHANGED <<flash, main, quick, wifi, link, reporting, network, due, counts>>

\* SYSTEM_EVENT_STA_DISCONNECTED: the station joins again.
Disconnected ==
    /\ link = "up" /\ event = "idle" /\ drops < MaxDrops
    /\ link' = "joining" /\ drops' = drops + 1
    /\ UNCHANGED <<flash, main, quick, wifi, event, online, reporting, connected, reports,
                   replies, due, counts>>

-----------------------------------------------------------------------------
(* The report: awss_check_reset, awss_report_reset_to_cloud and its reply. *)

Goes(t, step) == at' = [at EXCEPT ![t] = step]

\* CLOUD_CONNECTED, told by the yielding thread: awss_report_cloud.
MqttUp ==
    /\ online /\ link = "up" /\ ~connected /\ at["yield"] = "idle"
    /\ connected' = TRUE /\ Goes("yield", "check")
    /\ UNCHANGED <<flash, main, quick, station, suc, timer, reports, replies, drops, due,
                   counts>>

MqttDown ==
    /\ connected /\ drops < MaxDrops
    /\ connected' = FALSE /\ drops' = drops + 1 /\ Lost
    /\ UNCHANGED <<flash, main, quick, station, reporting, counts>>

CheckReset ==
    /\ at["yield"] = "check"
    /\ IF rst THEN suc' = FALSE /\ Goes("yield", "report")
              ELSE UNCHANGED suc /\ Goes("yield", "idle")
    /\ UNCHANGED <<flash, main, quick, station, timer, network, due, counts>>

\* The timer task calls awss_report_reset_to_cloud.
Fire ==
    /\ timer = "armed" /\ at["timer task"] = "idle"
    /\ timer' = "stopped" /\ Goes("timer task", "report")
    /\ UNCHANGED <<flash, main, quick, station, suc, network, due, counts>>

ReportUnlessDone(t) ==
    /\ at[t] = "report"
    /\ Goes(t, IF suc THEN "idle" ELSE "create")
    /\ UNCHANGED <<flash, main, quick, station, suc, timer, network, due, counts>>

CreateTimer(t) ==
    /\ at[t] = "create"
    /\ timer' = IF timer = "none" THEN "stopped" ELSE timer
    /\ Goes(t, "arm")
    /\ UNCHANGED <<flash, main, quick, station, suc, network, due, counts>>

\* Mutant: the timer that repeats the report is not started.
ArmTimer_Never(t) ==
    /\ at[t] = "arm"
    /\ UNCHANGED timer /\ Goes(t, "subscribe")
    /\ UNCHANGED <<flash, main, quick, station, suc, network, due, counts>>

\* The reply may have deleted it meanwhile.
ArmTimer(t) ==
    /\ at[t] = "arm"
    /\ timer' = IF timer = "none" THEN "none" ELSE "armed"
    /\ Goes(t, "subscribe")
    /\ UNCHANGED <<flash, main, quick, station, suc, network, due, counts>>

\* IOT_MQTT_Subscribe_Sync to the reply, which may fail, or time out.
Subscribe(t) ==
    /\ at[t] = "subscribe" /\ connected
    /\ Goes(t, "publish")
    /\ UNCHANGED <<flash, main, quick, station, suc, timer, network, due, counts>>

SubscribeFails(t) ==
    /\ at[t] = "subscribe"
    /\ Goes(t, "idle")
    /\ UNCHANGED <<flash, main, quick, station, suc, timer, network, due, counts>>

\* Mutant: the mark is cleared when the report has been sent.
Publish_ClearsMark(t) ==
    /\ at[t] = "publish"
    /\ reports' = IF connected /\ reports < MaxFlight THEN reports + 1 ELSE reports
    /\ rst' = FALSE
    /\ Goes(t, "idle")
    /\ UNCHANGED <<q_rt, ssid, password, main, quick, station, suc, timer, connected,
                   replies, drops, due, counts>>

\* IOT_MQTT_Publish_Simple with QoS 0.
Publish(t) ==
    /\ at[t] = "publish"
    /\ reports' = IF connected /\ reports < MaxFlight THEN reports + 1 ELSE reports
    /\ Goes(t, "idle")
    /\ UNCHANGED <<flash, main, quick, station, suc, timer, connected, replies, drops, due,
                   counts>>

\* The cloud unbinds the device and replies, as often as it is told.
CloudReplies ==
    /\ reports > 0 /\ replies < MaxFlight
    /\ reports' = reports - 1 /\ replies' = replies + 1 /\ due' = FALSE
    /\ UNCHANGED <<flash, main, quick, station, reporting, connected, drops, counts>>

\* awss_report_reset_reply, in the yielding thread.
Reply ==
    /\ replies > 0 /\ connected /\ at["yield"] = "idle"
    /\ replies' = replies - 1
    /\ suc' = TRUE /\ Goes("yield", "unmark")
    /\ UNCHANGED <<flash, main, quick, station, timer, connected, reports, drops, due,
                   counts>>

Unmark ==
    /\ at["yield"] = "unmark"
    /\ \/ Succeeds /\ rst' = FALSE
       \/ Fails /\ UNCHANGED rst
    /\ Goes("yield", "delete")
    /\ UNCHANGED <<q_rt, ssid, password, main, quick, station, suc, timer, network, due,
                   boots, kept, half, restarts>>

DeleteTimer ==
    /\ at["yield"] = "delete"
    /\ timer' = "none" /\ Goes("yield", "idle")
    /\ UNCHANGED <<flash, main, quick, station, suc, network, due, counts>>

-----------------------------------------------------------------------------
(* The power goes and comes back; the flash keeps what was written.        *)
Restart ==
    /\ restarts < MaxRestarts
    /\ restarts' = restarts + 1
    /\ boots' = IF quick THEN boots + 1 ELSE 1
    /\ half' = (half \/ (main = "password" /\ ssid = NoNet) \/ event = "password")
    /\ main' = "count" /\ quick' = TRUE
    /\ wifi' = NoConfig /\ link' = "down" /\ event' = "idle" /\ online' = FALSE
    /\ connected' = FALSE /\ suc' = FALSE /\ timer' = "none"
    /\ at' = [t \in Threads |-> "idle"]
    /\ Lost
    /\ UNCHANGED <<flash, kept, failures, drops>>

App == Count \/ Mark \/ Uncount \/ DelSsid \/ DelPassword \/ Connect
Event == GotIp \/ SaveSsid \/ SavePassword \/ StartLinkkit
Report(t) ==
    ReportUnlessDone(t) \/ CreateTimer(t) \/ ArmTimer(t) \/ Subscribe(t)
        \/ SubscribeFails(t) \/ Publish(t)
Yield == MqttUp \/ CheckReset \/ Reply \/ Unmark \/ DeleteTimer

Next ==
    \/ App \/ \E n \in Networks : Provision(n)
    \/ QuickTimeout \/ Event \/ Disconnected
    \/ Yield \/ Fire \/ \E t \in Threads : Report(t)
    \/ MqttDown \/ CloudReplies
    \/ Restart

Spec == Init /\ [][Next]_vars

(* The threads are scheduled and timers fire; the user provisions a device *)
(* that is not; a subscription that is tried again and again succeeds, and *)
(* the cloud reads what it is sent and replies.                            *)
Fairness ==
    /\ WF_vars(App) /\ WF_vars(Event) /\ WF_vars(Fire) /\ WF_vars(CloudReplies)
    /\ WF_vars(\E n \in Networks : Provision(n))
    /\ WF_vars(Yield)
    /\ \A t \in Threads : WF_vars(Report(t)) /\ SF_vars(Subscribe(t))
FairSpec == Spec /\ Fairness

-----------------------------------------------------------------------------
(* A restore is begun only after MAX_TIMES boots in a row, each cut off    *)
(* before the timer of the one before it: wherever the power goes, and     *)
(* whichever boots are not counted, the count in flash never runs ahead of *)
(* the boots, unless it could not be erased once.                          *)
RestoreIsAsked ==
    [][~kept /\ main # "mark" /\ main' = "mark" => boots >= MAX_TIMES]_main

(* While the cloud has not been told of a restore that was marked, the     *)
(* mark is in flash: neither a power cycle nor a late or a second reply    *)
(* can make the device forget that it owes the report.                     *)
MarkOutlives == due => rst

(* The password in flash is the one of the SSID in flash, except while the *)
(* two are written, unless once only one of them was: because the power    *)
(* went, or the flash failed, between the two, which no transaction        *)
(* protects and after which nothing is undone.  A network that cannot be   *)
(* saved at all, or is not to be, a restore that erases neither, and every *)
(* address the device gets later leave a pair.                             *)
Writing == main = "password" \/ event = "password"
CredentialsMatch ==
    (~half /\ ssid # NoNet /\ ~Writing) => password = Key(ssid)

(* A restore that was marked is reported to the cloud in the end, whatever *)
(* power cycles, lost connections and failed writes there are, unless one  *)
(* of them left an SSID without its password: with such a pair the device  *)
(* neither joins nor is provisioned, until it is restored again.           *)
HalfSaved == ssid # NoNet /\ password # Key(ssid)
ReportedInTheEnd == due ~> (~due \/ HalfSaved)
=============================================================================
