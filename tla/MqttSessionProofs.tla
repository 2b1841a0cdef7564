------------------------- MODULE MqttSessionProofs -------------------------
(***************************************************************************)
(* Proofs about MqttSession, for any number of yielding and writing        *)
(* threads: mutual exclusion, and the agreement between the state, the     *)
(* transport and the events told to the application.                       *)
(***************************************************************************)
EXTENDS MqttSession, TLAPS

Inside(y) == ypc[y] \in Keepalive \cup Cycle

\* What the owner of lock_yield may rely on: only a writer can change the state
\* under it, and only to DISCONNECTED.
OwnerKnows ==
    \A y \in Yielders :
        /\ ypc[y] \in {"disconnect", "close", "closed"} =>
               client_state = "DISCONNECTED"
        /\ ypc[y] \in {"reconnect", "connecting"} => client_state # "CONNECTED"
        /\ ypc[y] = "read" => client_state # "DISCONNECTED_RECONNECTING"
        /\ ypc[y] \in {"established", "reconnected"} =>
               client_state # "DISCONNECTED_RECONNECTING" /\ transport # "closed"
        /\ ypc[y] \in {"close", "closed", "reconnect", "connecting",
                       "established", "reconnected"} => event = "DISCONNECT"

Inv ==
    /\ TypeOK
    /\ interval >= INTERVAL_MIN
    /\ OwnerKnows
    /\ ConnectedIsOpen
    /\ ApplicationKnows

LEMMA InvInit == Init => Inv
  <1> SUFFICES ASSUME Init PROVE Inv OBVIOUS
  <1> USE SessionAssumption DEF SessionAssumption, Init
  <1>1. \A y \in Yielders : ypc[y] = "idle" /\ lock_yield # y
    OBVIOUS
  <1>2. {ping_due, retry_due, late} \subseteq BOOLEAN
    BY Zenon
  <1>3. TypeOK
    BY <1>1, <1>2 DEF TypeOK, States, Keepalive, Cycle
  <1>4. OwnerKnows
    BY <1>1 DEF OwnerKnows
  <1> QED BY <1>3, <1>4 DEF Inv, ConnectedIsOpen, ApplicationKnows

\* Two threads are never both inside.
LEMMA Exclusion ==
    ASSUME TypeOK, NEW y \in Yielders, NEW z \in Yielders, Inside(y), Inside(z)
    PROVE  y = z
  BY DEF TypeOK, Inside

\* The pc of the thread that moves, and of the others.
LEMMA PcMoves ==
    ASSUME TypeOK, NEW y \in Yielders, NEW here, NEW there, At(y, here, there)
    PROVE  /\ ypc[y] = here /\ ypc'[y] = there
           /\ \A z \in Yielders \ {y} : ypc'[z] = ypc[z]
           /\ DOMAIN ypc' = Yielders
           /\ ypc' = [ypc EXCEPT ![y] = there]
  BY DEF At, TypeOK

\* The timers stay flags.
LEMMA TimersKept ==
    ASSUME TypeOK, Next
    PROVE  ping_due' \in BOOLEAN /\ retry_due' \in BOOLEAN
  <1>1. ping_due \in BOOLEAN /\ retry_due \in BOOLEAN
    BY DEF TypeOK
  <1>2. ping_due' \in {ping_due, TRUE, FALSE} /\ retry_due' \in {retry_due, TRUE, FALSE}
    BY DEF Next, KeepaliveStep, CycleStep, WriterStep, EnterKeepalive,
       PingNotDue, PingSent, PingFails, NothingToDo, SeesReconnecting,
       SeesDisconnected, RetryNotDue, AttemptReconnect, ConnectSucceeds, SetConnected,
       ConnectFails, TellReconnected, TellDisconnected, CloseTransport,
       SetReconnecting, EnterCycle, CycleNotConnected, ProbesAnswered,
       ProbesExceeded, ReadPacket, ReadTimeout, ReadError, CycleAgain,
       YieldReturns, CheckState, WriteOk, WriteError, SetDisconnected,
       ConnectionBreaks, PingTimer, RetryTimer, aliveVars, retryVars, eventVars
  <1> QED BY <1>1, <1>2, Zenon

LEMMA KeepaliveInv ==
    ASSUME Inv, NEW y \in Yielders, KeepaliveStep(y)
    PROVE  Inv'
  <1> USE SessionAssumption DEF SessionAssumption, Inv, TypeOK, States, Keepalive,
          Cycle, aliveVars, retryVars, eventVars, At, Unlock
  <1>t. ping_due' \in BOOLEAN /\ retry_due' \in BOOLEAN
    BY TimersKept DEF Next
  <1>1. CASE EnterKeepalive(y)
    BY <1>1 DEF EnterKeepalive, OwnerKnows, ConnectedIsOpen, ApplicationKnows
  <1>2. CASE PingNotDue(y)
    BY <1>2 DEF PingNotDue, OwnerKnows, ConnectedIsOpen, ApplicationKnows
  <1>3. CASE PingSent(y)
    BY <1>3, <1>t DEF PingSent, WriteSucceeds, OwnerKnows, ConnectedIsOpen,
                ApplicationKnows
  <1>4. CASE PingFails(y)
    BY <1>4, <1>t DEF PingFails, WriteFails, Break, OwnerKnows, ConnectedIsOpen,
                ApplicationKnows
  <1>5. CASE NothingToDo(y)
    BY <1>5 DEF NothingToDo, OwnerKnows, ConnectedIsOpen, ApplicationKnows
  <1>6. CASE SeesReconnecting(y)
    BY <1>6 DEF SeesReconnecting, OwnerKnows, ConnectedIsOpen, ApplicationKnows
  <1>7. CASE SeesDisconnected(y)
    BY <1>7 DEF SeesDisconnected, OwnerKnows, ConnectedIsOpen, ApplicationKnows
  <1>8. CASE RetryNotDue(y)
    BY <1>8 DEF RetryNotDue, OwnerKnows, ConnectedIsOpen, ApplicationKnows
  <1>9. CASE AttemptReconnect(y)
    BY <1>9 DEF AttemptReconnect, OwnerKnows, ConnectedIsOpen, ApplicationKnows
  <1>10. CASE ConnectSucceeds(y)
    BY <1>10, <1>t DEF ConnectSucceeds, OwnerKnows, ConnectedIsOpen, ApplicationKnows
  <1>11. CASE ConnectFails(y)
    BY <1>11, <1>t DEF ConnectFails, NextInterval, OwnerKnows, ConnectedIsOpen,
                ApplicationKnows
  <1>12. CASE TellReconnected(y)
    <2>1. TypeOK'
      BY <1>12, <1>t DEF TellReconnected
    <2>2. \A z \in Yielders \ {y} : ypc'[z] = ypc[z] /\ ~Inside(z)
      BY <1>12 DEF TellReconnected, Inside
    <2>3. OwnerKnows' /\ ApplicationKnows'
      BY <1>12, <2>2 DEF TellReconnected, OwnerKnows, ApplicationKnows, Inside
    <2> QED BY <1>12, <2>1, <2>3 DEF TellReconnected, ConnectedIsOpen
  <1>13. CASE TellDisconnected(y)
    BY <1>13 DEF TellDisconnected, OwnerKnows, ConnectedIsOpen, ApplicationKnows
  <1>14. CASE CloseTransport(y)
    BY <1>14, <1>t DEF CloseTransport, OwnerKnows, ConnectedIsOpen, ApplicationKnows
  <1>15. CASE SetReconnecting(y)
    BY <1>15 DEF SetReconnecting, OwnerKnows, ConnectedIsOpen, ApplicationKnows
  <1>16. CASE SetConnected(y)
    BY <1>16 DEF SetConnected, OwnerKnows, ConnectedIsOpen, ApplicationKnows
  <1> QED BY <1>1, <1>2, <1>3, <1>4, <1>5, <1>6, <1>7, <1>8, <1>9, <1>10, <1>11,
             <1>12, <1>13, <1>14, <1>15, <1>16 DEF KeepaliveStep

LEMMA CycleInv ==
    ASSUME Inv, NEW y \in Yielders, CycleStep(y)
    PROVE  Inv'
  <1> USE SessionAssumption DEF SessionAssumption, Inv, TypeOK, States, Keepalive,
          Cycle, aliveVars, retryVars, eventVars, At, Unlock
  <1>1. CASE EnterCycle(y)
    BY <1>1 DEF EnterCycle, OwnerKnows, ConnectedIsOpen, ApplicationKnows
  <1>2. CASE CycleNotConnected(y)
    BY <1>2 DEF CycleNotConnected, OwnerKnows, ConnectedIsOpen, ApplicationKnows
  <1>3. CASE ProbesAnswered(y)
    BY <1>3 DEF ProbesAnswered, OwnerKnows, ConnectedIsOpen, ApplicationKnows
  <1>4. CASE ProbesExceeded(y)
    BY <1>4 DEF ProbesExceeded, OwnerKnows, ConnectedIsOpen, ApplicationKnows
  <1>5. CASE ReadPacket(y)
    BY <1>5 DEF ReadPacket, OwnerKnows, ConnectedIsOpen, ApplicationKnows
  <1>6. CASE ReadTimeout(y)
    BY <1>6 DEF ReadTimeout, OwnerKnows, ConnectedIsOpen, ApplicationKnows
  <1>7. CASE ReadError(y)
    BY <1>7 DEF ReadError, ReadFails, WriteFails, Break, OwnerKnows,
                ConnectedIsOpen, ApplicationKnows
  <1>8. CASE CycleAgain(y)
    BY <1>8 DEF CycleAgain, OwnerKnows, ConnectedIsOpen, ApplicationKnows
  <1>9. CASE YieldReturns(y)
    BY <1>9 DEF YieldReturns, OwnerKnows, ConnectedIsOpen, ApplicationKnows
  <1> QED BY <1>1, <1>2, <1>3, <1>4, <1>5, <1>6, <1>7, <1>8, <1>9 DEF CycleStep

LEMMA WriterInv ==
    ASSUME Inv, NEW w \in Writers, WriterStep(w)
    PROVE  Inv'
  <1> USE SessionAssumption DEF SessionAssumption, Inv, TypeOK, States, Keepalive,
          Cycle, aliveVars, retryVars, eventVars, WAt
  <1>1. CASE CheckState(w)
    BY <1>1 DEF CheckState, OwnerKnows, ConnectedIsOpen, ApplicationKnows
  <1>2. CASE WriteOk(w)
    BY <1>2 DEF WriteOk, WriteSucceeds, OwnerKnows, ConnectedIsOpen,
                ApplicationKnows
  <1>3. CASE WriteError(w)
    BY <1>3 DEF WriteError, WriteFails, Break, OwnerKnows, ConnectedIsOpen,
                ApplicationKnows
  <1>4. CASE SetDisconnected(w)
    BY <1>4 DEF SetDisconnected, OwnerKnows, ConnectedIsOpen, ApplicationKnows
  <1> QED BY <1>1, <1>2, <1>3, <1>4 DEF WriterStep

LEMMA InvNext == Inv /\ [Next]_vars => Inv'
  <1> SUFFICES ASSUME Inv, [Next]_vars PROVE Inv' OBVIOUS
  <1> USE DEF Inv, TypeOK, States, Keepalive, Cycle, aliveVars, retryVars, eventVars
  <1>1. CASE ConnectionBreaks
    BY <1>1, SessionAssumption DEF SessionAssumption, ConnectionBreaks, Break,
       OwnerKnows, ConnectedIsOpen, ApplicationKnows
  <1>2. CASE PingTimer
    BY <1>2 DEF PingTimer, OwnerKnows, ConnectedIsOpen, ApplicationKnows
  <1>3. CASE RetryTimer
    BY <1>3 DEF RetryTimer, OwnerKnows, ConnectedIsOpen, ApplicationKnows
  <1>4. CASE UNCHANGED vars
    BY <1>4 DEF vars, OwnerKnows, ConnectedIsOpen, ApplicationKnows
  <1> QED BY <1>1, <1>2, <1>3, <1>4, KeepaliveInv, CycleInv, WriterInv DEF Next

LEMMA InvAlways == Spec => []Inv
  BY InvInit, InvNext, PTL DEF Spec

\* The variables keep their types and one thread at a time is inside
\* iotx_mc_keepalive or iotx_mc_cycle.
THEOREM TypeCorrect == Spec => []TypeOK
  BY InvAlways, PTL DEF Inv

\* The client is never CONNECTED over a transport it has closed.
THEOREM OpenSafe == Spec => []ConnectedIsOpen
  BY InvAlways, PTL DEF Inv

\* A reconnecting client has told the application of the disconnection, and a
\* connected one of the reconnection.
THEOREM KnowsSafe == Spec => []ApplicationKnows
  BY InvAlways, PTL DEF Inv

-----------------------------------------------------------------------------
\* The threads that have just told the disconnection, or reconnected since.
Telling(y) == ypc[y] \in {"close", "closed", "established", "reconnected"}

\* A client that is DISCONNECTED after a DISCONNECT event is on its way through
\* iotx_mc_keepalive, or was made so by a write that failed late.
Untold ==
    event = "DISCONNECT" /\ client_state = "DISCONNECTED" /\ ~late =>
        \E y \in Yielders : Telling(y)

\* A step that tells nothing, and disconnects only a client that is connected
\* or disconnected already.
LEMMA UntoldStill ==
    ASSUME Inv, Untold, UNCHANGED eventVars,
           client_state' = "DISCONNECTED" => client_state # "DISCONNECTED_RECONNECTING",
           \A z \in Yielders : Telling(z) => Telling(z)'
    PROVE  Untold'
  <1> SUFFICES ASSUME event' = "DISCONNECT", client_state' = "DISCONNECTED", ~late'
               PROVE  \E z \in Yielders : Telling(z)'
    BY DEF Untold
  <1>1. event = "DISCONNECT" /\ ~late
    BY DEF eventVars
  <1>2. client_state \in {"CONNECTED", "DISCONNECTED"}
    BY DEF Inv, TypeOK, States
  <1>3. PICK z \in Yielders : Telling(z)
    BY <1>1, <1>2 DEF Untold, Inv, ApplicationKnows, Telling
  <1> QED BY <1>3

\* The move of one thread takes none of the others from its place.
LEMMA TellingMoves ==
    ASSUME TypeOK, NEW y \in Yielders, NEW here, NEW there, At(y, here, there),
           here \in {"close", "closed", "established", "reconnected"} =>
               there \in {"close", "closed", "established", "reconnected"}
    PROVE  \A z \in Yielders : Telling(z) => Telling(z)'
  BY PcMoves DEF Telling

\* The thread that comes to tell the disconnection, or the reconnection.
LEMMA Tells ==
    ASSUME Inv, Untold, ReconnectAnswersDisconnect, NEW y \in Yielders,
           TellDisconnected(y) \/ TellReconnected(y)
    PROVE  Untold' /\ ReconnectAnswersDisconnect'
  <1>0. TypeOK
    BY DEF Inv
  <1>1. CASE TellDisconnected(y)
    <2>1. ypc[y] = "disconnect" /\ ypc'[y] = "close"
      BY <1>0, <1>1, PcMoves DEF TellDisconnected
    <2>2. \A z \in Yielders : Telling(z) => z = y
      BY <1>0, <2>1, Exclusion DEF Telling, Inside, Keepalive
    <2>3. \A z \in Yielders : ~Telling(z)
      BY <2>1, <2>2 DEF Telling
    <2>4. client_state = "DISCONNECTED"
      BY <2>1 DEF Inv, OwnerKnows
    <2>5. event = "DISCONNECT" => late
      BY <2>3, <2>4 DEF Untold
    <2>6. event' = "DISCONNECT" /\ before' = event /\ late' = late
      BY <1>1 DEF TellDisconnected
    <2> QED BY <2>1, <2>5, <2>6 DEF Untold, Telling, ReconnectAnswersDisconnect
  <1>2. CASE TellReconnected(y)
    <2>1. event = "DISCONNECT"
      BY <1>2 DEF TellReconnected, At, Inv, OwnerKnows
    <2>2. event' = "RECONNECT" /\ before' = event
      BY <1>2 DEF TellReconnected
    <2> QED BY <2>1, <2>2 DEF Untold, ReconnectAnswersDisconnect
  <1> QED BY <1>1, <1>2

LEMMA KeepaliveTold ==
    ASSUME Inv, Untold, ReconnectAnswersDisconnect, NEW y \in Yielders,
           KeepaliveStep(y)
    PROVE  Untold' /\ ReconnectAnswersDisconnect'
  <1>0. TypeOK
    BY DEF Inv
  <1>1. ASSUME UNCHANGED eventVars PROVE ReconnectAnswersDisconnect'
    BY <1>1 DEF eventVars, ReconnectAnswersDisconnect
  <1>2. CASE TellDisconnected(y) \/ TellReconnected(y)
    BY <1>2, Tells
  <1>3. CASE SetReconnecting(y)
    BY <1>1, <1>3 DEF SetReconnecting, Untold
  <1>4. ASSUME NEW here, NEW there, At(y, here, there), UNCHANGED eventVars,
               client_state' = "DISCONNECTED" => client_state # "DISCONNECTED_RECONNECTING",
               here \in {"close", "closed", "established", "reconnected"} =>
                   there \in {"close", "closed", "established", "reconnected"}
        PROVE  Untold' /\ ReconnectAnswersDisconnect'
    BY <1>0, <1>1, <1>4, TellingMoves, UntoldStill
  <1>5. CASE EnterKeepalive(y) \/ PingNotDue(y) \/ PingSent(y)
    BY <1>4, <1>5 DEF EnterKeepalive, PingNotDue, PingSent
  <1>6. CASE PingFails(y)
    BY <1>4, <1>6 DEF PingFails
  <1>7. CASE NothingToDo(y) \/ SeesReconnecting(y) \/ SeesDisconnected(y)
    BY <1>4, <1>7 DEF NothingToDo, SeesReconnecting, SeesDisconnected
  <1>8. CASE RetryNotDue(y) \/ AttemptReconnect(y) \/ ConnectFails(y)
    BY <1>4, <1>8 DEF RetryNotDue, AttemptReconnect, ConnectFails
  <1>9. CASE ConnectSucceeds(y) \/ SetConnected(y)
    BY <1>4, <1>9 DEF ConnectSucceeds, SetConnected
  <1>10. CASE CloseTransport(y)
    BY <1>4, <1>10 DEF CloseTransport
  <1> QED BY <1>2, <1>3, <1>5, <1>6, <1>7, <1>8, <1>9, <1>10 DEF KeepaliveStep

LEMMA CycleTold ==
    ASSUME Inv, Untold, ReconnectAnswersDisconnect, NEW y \in Yielders,
           CycleStep(y)
    PROVE  Untold' /\ ReconnectAnswersDisconnect'
  <1>0. TypeOK
    BY DEF Inv
  <1>1. \E here, there \in {"cycle", "probes", "read", "leave", "idle"} : At(y, here, there)
    BY DEF CycleStep, EnterCycle, CycleNotConnected, ProbesAnswered, ProbesExceeded,
           ReadPacket, ReadTimeout, ReadError, CycleAgain, YieldReturns
  <1>2. UNCHANGED eventVars
    BY DEF CycleStep, EnterCycle, CycleNotConnected, ProbesAnswered, ProbesExceeded,
           ReadPacket, ReadTimeout, ReadError, CycleAgain, YieldReturns
  <1>3. client_state' = "DISCONNECTED" => client_state # "DISCONNECTED_RECONNECTING"
    BY DEF CycleStep, EnterCycle, CycleNotConnected, ProbesAnswered, ProbesExceeded,
           ReadPacket, ReadTimeout, ReadError, CycleAgain, YieldReturns, At, Inv,
           OwnerKnows
  <1>4. Untold'
    BY <1>0, <1>1, <1>2, <1>3, TellingMoves, UntoldStill
  <1> QED BY <1>2, <1>4 DEF eventVars, ReconnectAnswersDisconnect

LEMMA WriterTold ==
    ASSUME Inv, Untold, ReconnectAnswersDisconnect, NEW w \in Writers,
           WriterStep(w)
    PROVE  Untold' /\ ReconnectAnswersDisconnect'
  <1>1. CASE CheckState(w) \/ WriteOk(w) \/ WriteError(w)
    BY <1>1 DEF CheckState, WriteOk, WriteError, eventVars, Untold, Telling,
                ReconnectAnswersDisconnect
  <1>2. CASE SetDisconnected(w)
    <2>1. UNCHANGED <<event, before, ypc>>
          /\ late' = (late \/ client_state = "DISCONNECTED_RECONNECTING")
      BY <1>2 DEF SetDisconnected
    <2>2. ReconnectAnswersDisconnect'
      BY <2>1 DEF ReconnectAnswersDisconnect
    <2>3. SUFFICES ASSUME event' = "DISCONNECT", ~late'
                   PROVE  \E z \in Yielders : Telling(z)'
      BY <2>2 DEF Untold
    <2>4. event = "DISCONNECT" /\ ~late /\ client_state # "DISCONNECTED_RECONNECTING"
      BY <2>1, <2>3
    <2>5. client_state \in {"CONNECTED", "DISCONNECTED"}
      BY <2>4 DEF Inv, TypeOK, States
    <2>6. PICK z \in Yielders : Telling(z)
      BY <2>4, <2>5 DEF Untold, Inv, ApplicationKnows, Telling
    <2> QED BY <2>1, <2>6 DEF Telling
  <1> QED BY <1>1, <1>2 DEF WriterStep

\* The events come in turn: no RECONNECT that does not follow a DISCONNECT, and
\* no second DISCONNECT unless a write failed late.
THEOREM EventsAlternate == Spec => []ReconnectAnswersDisconnect
  <1>1. Init => Untold /\ ReconnectAnswersDisconnect
    BY DEF Init, Untold, ReconnectAnswersDisconnect
  <1>2. Inv /\ Untold /\ ReconnectAnswersDisconnect /\ [Next]_vars
            => Untold' /\ ReconnectAnswersDisconnect'
    <2> SUFFICES ASSUME Inv, Untold, ReconnectAnswersDisconnect, [Next]_vars
                 PROVE  Untold' /\ ReconnectAnswersDisconnect'
      OBVIOUS
    <2>1. ASSUME UNCHANGED <<client_state, ypc, eventVars>>
          PROVE  Untold' /\ ReconnectAnswersDisconnect'
      BY <2>1 DEF eventVars, Untold, Telling, ReconnectAnswersDisconnect
    <2>2. CASE ConnectionBreaks \/ PingTimer \/ RetryTimer
      BY <2>1, <2>2 DEF ConnectionBreaks, PingTimer, RetryTimer
    <2>3. CASE UNCHANGED vars
      BY <2>1, <2>3 DEF vars
    <2> QED BY <2>2, <2>3, KeepaliveTold, CycleTold, WriterTold DEF Next
  <1> QED BY <1>1, <1>2, InvAlways, PTL DEF Spec

-----------------------------------------------------------------------------
\* Where a reconnection is on its way, the interval the next one doubles is
\* the one that was waited for.  It is not once the client is connected:
\* iotx_mc_keepalive then resets the interval and leaves the time to wait.
Backing ==
    \/ client_state = "DISCONNECTED_RECONNECTING"
    \/ \E y \in Yielders : ypc[y] \in {"closed", "reconnect", "connecting"}

WaitFits ==
    Backing => wait = IF INTERVAL_MAX < interval THEN INTERVAL_MAX ELSE interval

\* A step that changes neither of the two, nor sends anybody to reconnect.
LEMMA FitsStill ==
    ASSUME WaitFits, UNCHANGED <<interval, wait>>, Backing' => Backing
    PROVE  WaitFits'
  BY DEF WaitFits

\* The thread that moves comes from a place inside, or to one outside.
LEMMA BackingMoves ==
    ASSUME TypeOK, NEW y \in Yielders, NEW here, NEW there, At(y, here, there),
           client_state' = "DISCONNECTED_RECONNECTING" => Backing,
           there \in {"closed", "reconnect", "connecting"} => Backing
    PROVE  Backing' => Backing
  <1>1. \A z \in Yielders \ {y} : ypc'[z] = ypc[z]
    BY PcMoves
  <1>2. ypc'[y] = there
    BY PcMoves
  <1> QED BY <1>1, <1>2 DEF Backing

LEMMA KeepaliveFits ==
    ASSUME Inv, WaitFits, NEW y \in Yielders, KeepaliveStep(y)
    PROVE  WaitFits'
  <1> USE DEF retryVars
  <1>0. TypeOK
    BY DEF Inv
  <1>1. ASSUME NEW here, NEW there, At(y, here, there), UNCHANGED <<interval, wait>>,
               client_state' = client_state \/ client_state' # "DISCONNECTED_RECONNECTING",
               there \in {"closed", "reconnect", "connecting"} => Backing
        PROVE  WaitFits'
    <2>1. client_state' = "DISCONNECTED_RECONNECTING" => Backing
      BY <1>1 DEF Backing
    <2> QED BY <1>0, <1>1, <2>1, BackingMoves, FitsStill
  <1>2. CASE EnterKeepalive(y)
    BY <1>1, <1>2 DEF EnterKeepalive
  <1>3. CASE PingNotDue(y) \/ PingSent(y)
    BY <1>1, <1>3 DEF PingNotDue, PingSent
  <1>4. CASE PingFails(y)
    BY <1>1, <1>4 DEF PingFails
  <1>5. CASE NothingToDo(y) \/ SeesDisconnected(y)
    BY <1>1, <1>5 DEF NothingToDo, SeesDisconnected
  <1>6. CASE SeesReconnecting(y)
    BY <1>1, <1>6 DEF SeesReconnecting, Backing
  <1>7. CASE RetryNotDue(y)
    BY <1>1, <1>7 DEF RetryNotDue
  <1>8. CASE AttemptReconnect(y)
    <2>1. Backing
      BY <1>8 DEF AttemptReconnect, At, Backing
    <2> QED BY <1>1, <1>8, <2>1 DEF AttemptReconnect
  <1>9. CASE ConnectSucceeds(y) \/ SetConnected(y)
    BY <1>1, <1>9 DEF ConnectSucceeds, SetConnected
  <1>10. CASE ConnectFails(y)
    BY <1>10 DEF ConnectFails, WaitFits
  <1>11. CASE TellReconnected(y)
    \* It resets the interval, and nobody is reconnecting.
    <2>1. ypc[y] = "reconnected" /\ ypc'[y] = "cycle"
          /\ \A z \in Yielders \ {y} : ypc'[z] = ypc[z]
      BY <1>0, <1>11, PcMoves DEF TellReconnected
    <2>2. \A z \in Yielders : Inside(z) => z = y
      BY <1>0, <2>1, Exclusion DEF Inside, Keepalive
    <2>3. client_state' # "DISCONNECTED_RECONNECTING"
      BY <1>11, <2>1 DEF TellReconnected, Inv, OwnerKnows
    <2>4. ~Backing'
      BY <2>1, <2>2, <2>3 DEF Backing, Inside, Keepalive
    <2> QED BY <2>4 DEF WaitFits
  <1>12. CASE TellDisconnected(y)
    BY <1>1, <1>12 DEF TellDisconnected
  <1>13. CASE CloseTransport(y)
    BY <1>13, SessionAssumption DEF CloseTransport, WaitFits, SessionAssumption
  <1>14. CASE SetReconnecting(y)
    <2>1. Backing
      BY <1>14 DEF SetReconnecting, At, Backing
    <2>2. UNCHANGED <<interval, wait>>
      BY <1>14 DEF SetReconnecting
    <2> QED BY <2>1, <2>2, FitsStill
  <1> QED
    BY <1>2, <1>3, <1>4, <1>5, <1>6, <1>7, <1>8, <1>9, <1>10, <1>11, <1>12, <1>13,
       <1>14 DEF KeepaliveStep

LEMMA CycleFits ==
    ASSUME Inv, WaitFits, NEW y \in Yielders, CycleStep(y)
    PROVE  WaitFits'
  <1>1. \E here, there \in {"cycle", "probes", "read", "leave", "idle"} : At(y, here, there)
    BY DEF CycleStep, EnterCycle, CycleNotConnected, ProbesAnswered, ProbesExceeded,
           ReadPacket, ReadTimeout, ReadError, CycleAgain, YieldReturns
  <1>2. UNCHANGED <<interval, wait>>
    BY DEF CycleStep, EnterCycle, CycleNotConnected, ProbesAnswered, ProbesExceeded,
           ReadPacket, ReadTimeout, ReadError, CycleAgain, YieldReturns, retryVars
  <1>3. client_state' \in {client_state, "DISCONNECTED"}
    BY DEF CycleStep, EnterCycle, CycleNotConnected, ProbesAnswered, ProbesExceeded,
           ReadPacket, ReadTimeout, ReadError, CycleAgain, YieldReturns
  <1>4. client_state' = "DISCONNECTED_RECONNECTING" => Backing
    BY <1>3 DEF Backing
  <1> QED BY <1>1, <1>2, <1>4, BackingMoves, FitsStill DEF Inv

LEMMA FitsNext == Inv /\ WaitFits /\ [Next]_vars => WaitFits'
  <1> SUFFICES ASSUME Inv, WaitFits, [Next]_vars PROVE WaitFits'
    OBVIOUS
  <1>1. ASSUME UNCHANGED <<interval, wait, ypc>>, client_state' \in {client_state, "DISCONNECTED"}
        PROVE  WaitFits'
    BY <1>1, FitsStill DEF Backing
  <1>2. CASE \E w \in Writers : WriterStep(w)
    BY <1>1, <1>2 DEF WriterStep, CheckState, WriteOk, WriteError, SetDisconnected, retryVars
  <1>3. CASE ConnectionBreaks \/ PingTimer \/ RetryTimer
    BY <1>1, <1>3 DEF ConnectionBreaks, PingTimer, RetryTimer, retryVars
  <1>4. CASE UNCHANGED vars
    BY <1>1, <1>4 DEF vars, retryVars, eventVars
  <1> QED BY <1>2, <1>3, <1>4, KeepaliveFits, CycleFits DEF Next

LEMMA FitsAlways == Spec => []WaitFits
  <1>1. Init => WaitFits
    BY SessionAssumption DEF Init, WaitFits, SessionAssumption
  <1> QED BY <1>1, FitsNext, InvAlways, PTL DEF Spec

\* iotx_mc_handle_reconnect sets the time to wait to twice the one before, up
\* to the largest, with every failure; only the disconnection, which starts
\* with the smallest, sets it elsewhere.
THEOREM BackoffExact == Spec => BackoffDoubles
  <1> DEFINE Doubled == IF 2 * wait > INTERVAL_MAX THEN INTERVAL_MAX ELSE 2 * wait
             Doubles == wait' # wait \/ failures' # failures =>
                            \/ failures' = 0 /\ wait' = INTERVAL_MIN
                            \/ failures' = failures + 1 /\ wait' = Doubled
  <1>1. ASSUME Inv, WaitFits, NEW y \in Yielders, ConnectFails(y)
        PROVE  failures' = failures + 1 /\ wait' = Doubled
    <2>1. Backing
      BY <1>1 DEF ConnectFails, At, Backing
    <2>2. interval \in Nat /\ interval >= INTERVAL_MIN
      BY <1>1 DEF Inv, TypeOK
    <2>3. INTERVAL_MIN \in Nat \ {0} /\ INTERVAL_MAX \in Nat
      BY SessionAssumption DEF SessionAssumption
    <2> QED BY <1>1, <2>1, <2>2, <2>3 DEF ConnectFails, NextInterval, WaitFits
  <1>2. Inv /\ WaitFits /\ [Next]_vars => [Doubles]_vars
    <2> SUFFICES ASSUME Inv, WaitFits, [Next]_vars, wait' # wait \/ failures' # failures
                 PROVE  \/ failures' = 0 /\ wait' = INTERVAL_MIN
                        \/ failures' = failures + 1 /\ wait' = Doubled
      OBVIOUS
    <2>1. \E y \in Yielders : ConnectFails(y) \/ CloseTransport(y)
      BY DEF Next, vars, retryVars, KeepaliveStep, CycleStep, WriterStep,
         EnterKeepalive, PingNotDue, PingSent, PingFails, NothingToDo,
         SeesReconnecting, SeesDisconnected, RetryNotDue, AttemptReconnect,
         ConnectSucceeds, SetConnected, TellReconnected, TellDisconnected, SetReconnecting,
         EnterCycle, CycleNotConnected, ProbesAnswered, ProbesExceeded,
         ReadPacket, ReadTimeout, ReadError, CycleAgain, YieldReturns,
         CheckState, WriteOk, WriteError, SetDisconnected, ConnectionBreaks,
         PingTimer, RetryTimer
    <2> QED BY <2>1, <1>1 DEF CloseTransport
  <1> QED BY <1>2, InvAlways, FitsAlways, PTL DEF Spec, BackoffDoubles
=============================================================================
