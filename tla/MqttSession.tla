---------------------------- MODULE MqttSession ----------------------------
(***************************************************************************)
(* The connection of the MQTT client (mqtt/iotx_mqtt_client.c): keep-alive *)
(* pings, the detection of a dead connection, the reconnection with its    *)
(* growing interval, and the events the application is told of.            *)
(*                                                                         *)
(* Several threads may be in wrapper_mqtt_yield; lock_yield is held for    *)
(* one iotx_mc_keepalive and for each iotx_mc_cycle, and released between. *)
(* Other threads publish: they look at the state, write, and when the      *)
(* write failed set the state, without lock_yield.                         *)
(***************************************************************************)
EXTENDS Integers, FiniteSets

CONSTANTS Yielders,             \* threads that call wrapper_mqtt_yield
          Writers,              \* threads that publish, subscribe...
          NoThread,             \* the owner of a free mutex
          KEEPALIVE_PROBE_MAX,  \* IOTX_MC_KEEPALIVE_PROBE_MAX
          INTERVAL_MIN,         \* IOTX_MC_RECONNECT_INTERVAL_MIN_MS
          INTERVAL_MAX,         \* IOTX_MC_RECONNECT_INTERVAL_MAX_MS
          MaxBreaks,            \* bound: connections that break
          MaxFailures           \* bound: consecutive reconnections that fail

ASSUME SessionAssumption ==
    /\ Yielders \cap Writers = {}
    /\ Yielders # {}
    /\ NoThread \notin Yielders \cup Writers
    /\ KEEPALIVE_PROBE_MAX \in Nat
    /\ INTERVAL_MIN \in Nat \ {0}
    /\ INTERVAL_MAX \in Nat
    /\ INTERVAL_MIN <= INTERVAL_MAX
    /\ MaxBreaks \in Nat
    /\ MaxFailures \in Nat

VARIABLES
    client_state,   \* iotx_mc_client_t.client_state
    probes,         \* keepalive_probes, a uint8_t
    ping_due,       \* next_ping_time has expired
    interval,       \* reconnect_param.reconnect_time_interval_ms
    wait,           \* what reconnect_next_time was last set to
    retry_due,      \* reconnect_next_time has expired
    transport,      \* ipstack: open, dead (the peer is gone), closed
    lock_yield,     \* the owner of the mutex
    ypc,            \* where each yielding thread is
    wpc,            \* where each writing thread is
    event,          \* history: the last connection event told to the application
    before,         \* history: the event told before that one
    late,           \* history: a write of the lost connection failed so late
                    \* that the client was already DISCONNECTED_RECONNECTING
    pings,          \* history: pings on this connection since it last spoke,
                    \* counted up to KEEPALIVE_PROBE_MAX + 1
    failures,       \* history: failed reconnections since the last disconnect
    breaks          \* connections broken so far

aliveVars == <<probes, ping_due, pings>>
eventVars == <<event, before, late>>
retryVars == <<interval, wait, retry_due, failures>>
vars == <<client_state, aliveVars, retryVars, transport, lock_yield, ypc, wpc,
          eventVars, breaks>>

States == {"CONNECTED", "DISCONNECTED", "DISCONNECTED_RECONNECTING"}

\* The places where a yielding thread holds lock_yield.
Keepalive == {"ping", "state", "reconnect", "connecting", "established",
              "reconnected", "disconnect", "close", "closed"}
Cycle == {"probes", "read"}

Init ==
    /\ client_state = "CONNECTED"
    /\ probes = 0
    /\ ping_due = FALSE
    /\ interval = INTERVAL_MIN
    /\ wait = INTERVAL_MIN
    /\ retry_due = FALSE
    /\ transport = "open"
    /\ lock_yield = NoThread
    /\ ypc = [y \in Yielders |-> "idle"]
    /\ wpc = [w \in Writers |-> "idle"]
    /\ event = "none"
    /\ before = "none"
    /\ late = FALSE
    /\ pings = 0
    /\ failures = 0
    /\ breaks = 0

-----------------------------------------------------------------------------
(* The transport *)

WriteSucceeds == transport # "closed" /\ UNCHANGED <<transport, breaks>>

Break == /\ transport = "open"
         /\ breaks < MaxBreaks
         /\ transport' = "dead"
         /\ breaks' = breaks + 1

WriteFails ==
    \/ Break
    \/ transport # "open" /\ UNCHANGED <<transport, breaks>>

ReadFails == WriteFails

-----------------------------------------------------------------------------
(* wrapper_mqtt_yield: iotx_mc_keepalive under lock_yield *)

At(y, here, there) == ypc[y] = here /\ ypc' = [ypc EXCEPT ![y] = there]

Unlock == lock_yield' = NoThread

\* Mutant: lock_yield is not taken.
EnterKeepalive_NoLock(y) ==
    /\ At(y, "idle", "ping")
    /\ UNCHANGED <<client_state, aliveVars, retryVars, transport, lock_yield,
                   wpc, eventVars, breaks>>

EnterKeepalive(y) ==
    /\ At(y, "idle", "ping")
    /\ lock_yield = NoThread
    /\ lock_yield' = y
    /\ UNCHANGED <<client_state, aliveVars, retryVars, transport, wpc, eventVars,
                   breaks>>

\* iotx_mc_keepalive_sub
PingNotDue(y) ==
    /\ At(y, "ping", "state")
    /\ client_state # "CONNECTED" \/ ~ping_due
    /\ UNCHANGED <<client_state, aliveVars, retryVars, transport, lock_yield,
                   wpc, eventVars, breaks>>

PingSent(y) ==
    /\ At(y, "ping", "state")
    /\ client_state = "CONNECTED" /\ ping_due
    /\ WriteSucceeds
    /\ ping_due' = FALSE
    /\ probes' = (probes + 1) % 256
    /\ pings' = IF pings > KEEPALIVE_PROBE_MAX THEN pings ELSE pings + 1
    /\ UNCHANGED <<client_state, retryVars, lock_yield, wpc, eventVars>>

PingFails(y) ==
    /\ At(y, "ping", "state")
    /\ client_state = "CONNECTED" /\ ping_due
    /\ WriteFails
    /\ ping_due' = FALSE
    /\ client_state' = "DISCONNECTED"
    /\ UNCHANGED <<probes, pings, retryVars, lock_yield, wpc, eventVars>>

\* The state is read once and decides what this call does.
NothingToDo(y) ==
    /\ At(y, "state", "cycle")
    /\ client_state = "CONNECTED"
    /\ Unlock
    /\ UNCHANGED <<client_state, aliveVars, retryVars, transport, wpc, eventVars,
                   breaks>>

SeesReconnecting(y) ==
    /\ At(y, "state", "reconnect")
    /\ client_state = "DISCONNECTED_RECONNECTING"
    /\ UNCHANGED <<client_state, aliveVars, retryVars, transport, lock_yield,
                   wpc, eventVars, breaks>>

\* Mutant: the disconnection is not told.
SeesDisconnected_Silent(y) ==
    /\ At(y, "state", "close")
    /\ client_state = "DISCONNECTED"
    /\ UNCHANGED <<client_state, aliveVars, retryVars, transport, lock_yield,
                   wpc, eventVars, breaks>>

SeesDisconnected(y) ==
    /\ At(y, "state", "disconnect")
    /\ client_state = "DISCONNECTED"
    /\ UNCHANGED <<client_state, aliveVars, retryVars, transport, lock_yield,
                   wpc, eventVars, breaks>>

RetryNotDue(y) ==
    /\ At(y, "reconnect", "cycle")
    /\ ~retry_due
    /\ Unlock
    /\ UNCHANGED <<client_state, aliveVars, retryVars, transport, wpc, eventVars,
                   breaks>>

\* iotx_mc_attempt_reconnect closes what is left of the old connection.
AttemptReconnect(y) ==
    /\ At(y, "reconnect", "connecting")
    /\ retry_due
    /\ transport' = "closed"
    /\ UNCHANGED <<client_state, aliveVars, retryVars, lock_yield, wpc, eventVars,
                   breaks>>

\* CONNACK received, in _mqtt_connect: the ping timer restarts,
\* keepalive_probes is left alone.
ConnectSucceeds(y) ==
    /\ At(y, "connecting", "established")
    /\ transport' = "open"
    /\ client_state' = "CONNECTED"
    /\ ping_due' = FALSE
    /\ pings' = 0
    /\ UNCHANGED <<probes, retryVars, lock_yield, wpc, eventVars, breaks>>

\* Back in iotx_mc_handle_reconnect the state is set once more, whatever a
\* writer that found the connection broken made of it since.
SetConnected(y) ==
    /\ At(y, "established", "reconnected")
    /\ client_state' = "CONNECTED"
    /\ UNCHANGED <<aliveVars, retryVars, transport, lock_yield, wpc, eventVars,
                   breaks>>

\* Mutant: the largest interval is followed by the smallest.
NextInterval_StartsAgain ==
    IF INTERVAL_MAX > interval THEN interval * 2 ELSE INTERVAL_MIN

NextInterval ==
    IF INTERVAL_MAX > interval THEN interval * 2 ELSE INTERVAL_MAX

ConnectFails(y) ==
    /\ At(y, "connecting", "cycle")
    /\ failures < MaxFailures
    /\ interval' = NextInterval
    /\ wait' = IF INTERVAL_MAX < NextInterval THEN INTERVAL_MAX ELSE NextInterval
    /\ retry_due' = FALSE
    /\ failures' = failures + 1
    /\ Unlock
    /\ UNCHANGED <<client_state, aliveVars, transport, wpc, eventVars, breaks>>

TellReconnected(y) ==
    /\ At(y, "reconnected", "cycle")
    /\ before' = event
    /\ event' = "RECONNECT"
    /\ late' = FALSE
    /\ interval' = INTERVAL_MIN
    /\ Unlock
    /\ UNCHANGED <<client_state, aliveVars, wait, retry_due, failures,
                   transport, wpc, breaks>>

TellDisconnected(y) ==
    /\ At(y, "disconnect", "close")
    /\ before' = event
    /\ event' = "DISCONNECT"
    /\ late' = late
    /\ UNCHANGED <<client_state, aliveVars, retryVars, transport, lock_yield,
                   wpc, breaks>>

CloseTransport(y) ==
    /\ At(y, "close", "closed")
    /\ interval' = INTERVAL_MIN
    /\ wait' = INTERVAL_MIN
    /\ retry_due' = FALSE
    /\ failures' = 0
    /\ transport' = "closed"
    /\ UNCHANGED <<client_state, aliveVars, lock_yield, wpc, eventVars, breaks>>

\* Mutant: the state stays DISCONNECTED.
SetReconnecting_Not(y) ==
    /\ At(y, "closed", "cycle")
    /\ Unlock
    /\ UNCHANGED <<client_state, aliveVars, retryVars, transport, wpc, eventVars,
                   breaks>>

SetReconnecting(y) ==
    /\ At(y, "closed", "cycle")
    /\ client_state' = "DISCONNECTED_RECONNECTING"
    /\ Unlock
    /\ UNCHANGED <<aliveVars, retryVars, transport, wpc, eventVars, breaks>>

-----------------------------------------------------------------------------
(* wrapper_mqtt_yield: _mqtt_cycle, each iotx_mc_cycle under lock_yield *)

\* Mutant: the mutex is taken from its owner.
EnterCycle_NoWait(y) ==
    /\ At(y, "cycle", "probes")
    /\ lock_yield' = y
    /\ UNCHANGED <<client_state, aliveVars, retryVars, transport, wpc, eventVars,
                   breaks>>

EnterCycle(y) ==
    /\ At(y, "cycle", "probes")
    /\ lock_yield = NoThread
    /\ lock_yield' = y
    /\ UNCHANGED <<client_state, aliveVars, retryVars, transport, wpc, eventVars,
                   breaks>>

CycleNotConnected(y) ==
    /\ At(y, "probes", "leave")
    /\ client_state # "CONNECTED"
    /\ Unlock
    /\ UNCHANGED <<client_state, aliveVars, retryVars, transport, wpc, eventVars,
                   breaks>>

ProbesAnswered(y) ==
    /\ At(y, "probes", "read")
    /\ client_state = "CONNECTED"
    /\ probes <= KEEPALIVE_PROBE_MAX
    /\ UNCHANGED <<client_state, aliveVars, retryVars, transport, lock_yield,
                   wpc, eventVars, breaks>>

\* Too many pings without an answer; the packet read comes nonetheless.
ProbesExceeded(y) ==
    /\ At(y, "probes", "read")
    /\ client_state = "CONNECTED"
    /\ probes > KEEPALIVE_PROBE_MAX
    /\ client_state' = "DISCONNECTED"
    /\ probes' = 0
    /\ UNCHANGED <<ping_due, pings, retryVars, transport, lock_yield, wpc,
                   eventVars, breaks>>

ReadPacket(y) ==
    /\ At(y, "read", "leave")
    /\ transport = "open"
    /\ probes' = 0
    /\ pings' = 0
    /\ Unlock
    /\ UNCHANGED <<client_state, ping_due, retryVars, transport, wpc, eventVars,
                   breaks>>

\* Mutant: a read that times out counts as a sign of life.
ReadTimeout_ClearsProbes(y) ==
    /\ At(y, "read", "leave")
    /\ transport # "closed"
    /\ probes' = 0
    /\ Unlock
    /\ UNCHANGED <<client_state, ping_due, pings, retryVars, transport, wpc,
                   eventVars, breaks>>

ReadTimeout(y) ==
    /\ At(y, "read", "leave")
    /\ transport # "closed"
    /\ Unlock
    /\ UNCHANGED <<client_state, aliveVars, retryVars, transport, wpc, eventVars,
                   breaks>>

ReadError(y) ==
    /\ At(y, "read", "leave")
    /\ ReadFails
    /\ client_state' = "DISCONNECTED"
    /\ Unlock
    /\ UNCHANGED <<aliveVars, retryVars, wpc, eventVars>>

\* _mqtt_cycle goes round until its time is up.
CycleAgain(y) ==
    /\ At(y, "leave", "cycle")
    /\ UNCHANGED <<client_state, aliveVars, retryVars, transport, lock_yield,
                   wpc, eventVars, breaks>>

YieldReturns(y) ==
    /\ At(y, "leave", "idle")
    /\ UNCHANGED <<client_state, aliveVars, retryVars, transport, lock_yield,
                   wpc, eventVars, breaks>>

-----------------------------------------------------------------------------
(* wrapper_mqtt_publish (subscribe and unsubscribe behave alike) *)

WAt(w, here, there) == wpc[w] = here /\ wpc' = [wpc EXCEPT ![w] = there]

CheckState(w) ==
    /\ WAt(w, "idle", "write")
    /\ client_state = "CONNECTED"
    /\ UNCHANGED <<client_state, aliveVars, retryVars, transport, lock_yield,
                   ypc, eventVars, breaks>>

WriteOk(w) ==
    /\ WAt(w, "write", "idle")
    /\ WriteSucceeds
    /\ UNCHANGED <<client_state, aliveVars, retryVars, lock_yield, ypc, eventVars>>

WriteError(w) ==
    /\ WAt(w, "write", "failed")
    /\ WriteFails
    /\ UNCHANGED <<client_state, aliveVars, retryVars, lock_yield, ypc, eventVars>>

\* The connection the write failed on may be gone and replaced by now.
SetDisconnected(w) ==
    /\ WAt(w, "failed", "idle")
    /\ client_state' = "DISCONNECTED"
    /\ late' = (late \/ client_state = "DISCONNECTED_RECONNECTING")
    /\ UNCHANGED <<aliveVars, retryVars, transport, lock_yield, ypc, event,
                   before, breaks>>

-----------------------------------------------------------------------------
(* Environment *)

ConnectionBreaks ==
    /\ Break
    /\ UNCHANGED <<client_state, aliveVars, retryVars, lock_yield, ypc, wpc,
                   eventVars>>

PingTimer ==
    /\ ~ping_due
    /\ ping_due' = TRUE
    /\ UNCHANGED <<client_state, probes, pings, retryVars, transport,
                   lock_yield, ypc, wpc, eventVars, breaks>>

RetryTimer ==
    /\ ~retry_due
    /\ retry_due' = TRUE
    /\ UNCHANGED <<client_state, aliveVars, interval, wait, failures,
                   transport, lock_yield, ypc, wpc, eventVars, breaks>>

-----------------------------------------------------------------------------
KeepaliveStep(y) ==
    \/ EnterKeepalive(y)
    \/ PingNotDue(y) \/ PingSent(y) \/ PingFails(y)
    \/ NothingToDo(y) \/ SeesReconnecting(y) \/ SeesDisconnected(y)
    \/ RetryNotDue(y) \/ AttemptReconnect(y)
    \/ ConnectSucceeds(y) \/ SetConnected(y) \/ ConnectFails(y)
    \/ TellReconnected(y)
    \/ TellDisconnected(y) \/ CloseTransport(y) \/ SetReconnecting(y)

CycleStep(y) ==
    \/ EnterCycle(y) \/ CycleNotConnected(y)
    \/ ProbesAnswered(y) \/ ProbesExceeded(y)
    \/ ReadPacket(y) \/ ReadTimeout(y) \/ ReadError(y)
    \/ CycleAgain(y) \/ YieldReturns(y)

WriterStep(w) ==
    CheckState(w) \/ WriteOk(w) \/ WriteError(w) \/ SetDisconnected(w)

Next ==
    \/ \E y \in Yielders : KeepaliveStep(y) \/ CycleStep(y)
    \/ \E w \in Writers : WriterStep(w)
    \/ ConnectionBreaks \/ PingTimer \/ RetryTimer

Spec == Init /\ [][Next]_vars

\* Every yielding thread keeps calling IOT_MQTT_Yield and gets the mutex in
\* its turn, a cycle ends when its time is up, and the timers expire.
Fairness ==
    /\ WF_vars(PingTimer)
    /\ WF_vars(RetryTimer)
    /\ \A y \in Yielders :
         /\ WF_vars(KeepaliveStep(y) \/ CycleStep(y))
         /\ SF_vars(EnterKeepalive(y))
         /\ SF_vars(EnterCycle(y))
         /\ SF_vars(YieldReturns(y))
    /\ \A w \in Writers : WF_vars(SetDisconnected(w))

FairSpec == Spec /\ Fairness

-----------------------------------------------------------------------------
(* Properties *)

\* Every variable keeps its type, and lock_yield belongs to the one thread
\* that is inside iotx_mc_keepalive or iotx_mc_cycle.
TypeOK ==
    /\ client_state \in States
    /\ probes \in 0..255
    /\ ping_due \in BOOLEAN
    /\ interval \in Nat
    /\ wait \in INTERVAL_MIN..INTERVAL_MAX
    /\ retry_due \in BOOLEAN
    /\ transport \in {"open", "dead", "closed"}
    /\ lock_yield \in Yielders \cup {NoThread}
    /\ ypc \in [Yielders -> {"idle", "cycle", "leave"} \cup Keepalive \cup Cycle]
    /\ \A y \in Yielders : lock_yield = y <=> ypc[y] \in Keepalive \cup Cycle
    /\ wpc \in [Writers -> {"idle", "write", "failed"}]
    /\ {event, before} \subseteq {"none", "DISCONNECT", "RECONNECT"}
    /\ late \in BOOLEAN
    /\ pings \in 0..KEEPALIVE_PROBE_MAX + 1
    /\ failures \in Nat
    /\ breaks \in 0..MaxBreaks

\* The client never takes a closed transport for a connected one: whatever the
\* writers do to client_state, and with several threads yielding, only a
\* completed handshake makes it CONNECTED and the transport is closed only in
\* another state.
ConnectedIsOpen == client_state = "CONNECTED" => transport # "closed"

\* The application is told of a loss before the client starts to reconnect, and
\* of the reconnection before the next loss: outside the callbacks, a
\* reconnecting client was last heard to be disconnected and a connected one
\* was not.
ApplicationKnows ==
    /\ client_state = "DISCONNECTED_RECONNECTING" => event = "DISCONNECT"
    /\ client_state = "CONNECTED" /\ event = "DISCONNECT" =>
           \E y \in Yielders : ypc[y] \in {"established", "reconnected"}

\* The events told, one by one: every RECONNECT follows a DISCONNECT, never
\* another RECONNECT, and two DISCONNECTs follow each other only if, since the
\* last RECONNECT, a write of the old connection failed after the client had
\* started to reconnect (its iotx_mc_set_client_state then undoes that state).
ReconnectAnswersDisconnect ==
    /\ event = "RECONNECT" => before = "DISCONNECT"
    /\ event = "DISCONNECT" /\ before = "DISCONNECT" => late

\* While it keeps failing to reconnect the client waits twice as long each
\* time, up to the largest interval, and a disconnection starts with the
\* smallest: the interval it doubles is the one it has waited for, although the
\* two are set at different places.
BackoffDoubles ==
    [][wait' # wait \/ failures' # failures =>
           \/ failures' = 0 /\ wait' = INTERVAL_MIN
           \/ /\ failures' = failures + 1
              /\ wait' = IF 2 * wait > INTERVAL_MAX THEN INTERVAL_MAX ELSE 2 * wait]_vars

\* A connection is given up for want of an answer only after more than
\* IOTX_MC_KEEPALIVE_PROBE_MAX pings were sent on it.
GivenUpAfterProbes ==
    [][\A y \in Yielders : ProbesExceeded(y) => pings > KEEPALIVE_PROBE_MAX]_vars

\* A connection whose peer is gone is noticed, even if no read or write ever
\* fails.
DeadIsNoticed == transport = "dead" ~> transport # "dead"

\* Whatever made the client disconnected, a stale write error included, it
\* connects again as soon as a reconnection can succeed.
Reconnects == client_state = "DISCONNECTED" ~> client_state = "CONNECTED"

=============================================================================
