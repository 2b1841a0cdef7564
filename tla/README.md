# TLA+ models of esp-aliyun

Models of the parts of `esp-aliyun` whose correctness depends on the order in
which threads, packets, timers and failures meet. Each module is a translation
of C functions; `PROJECT.json` ("map") gives the lines every definition stands
for. TLC checks small instances, the TLA+ proof system (TLAPS) proves the main
safety properties for all values of the constants.

    tlc -workers 2 -config MqttPublish_safety.cfg MCMqttPublish
    tlapm MqttPublishProofs.tla

Line numbers without a file are those of
`src/iotkit-embedded/mqtt/iotx_mqtt_client.c`.

## 1. The system

A device runs the iotkit SDK on FreeRTOS. The application calls a C API from
any of its tasks; the SDK has almost no task of its own (the CoAP server has
one) and works while somebody calls `IOT_MQTT_Yield` or `IOT_Linkkit_Yield`. So
one function, the yield, reads packets, keeps the connection alive, retransmits
and calls the application back, while other tasks publish, subscribe and report.

| component | state it keeps | operations | talks to |
|---|---|---|---|
| MQTT client (`mqtt/iotx_mqtt_client.c`) | client state, packet identifier, list of publishes that wait (`list_pub_wait_ack`), list of handlers (`list_sub_handle`), list of awaited SUBACKs (`list_sub_sync_ack`), ping and reconnect timers, five mutexes | publish, subscribe, subscribe_sync, unsubscribe, yield, check_state, connect, release | transport (wrappers), application callbacks |
| MQTT API (`mqtt/mqtt_api.c`) | the one client `g_mqtt_client`, list of offline subscriptions | construct, destroy, the calls above with a default handle | MQTT client |
| device model (`dev_model`) | message cache, dispatch queue, table of things and subscriptions, table of connections (`iotx_cm`), flags opened and connected | open, connect, yield, report, trigger event, close | MQTT client, CoAP server, OTA, user callbacks |
| OTA (`ota`) | state of a download, digests, URL, progress | init, announcement callback, fetch, ioctl, report | MQTT client, HTTP, flash |
| CoAP server (`coap_server`) | list of confirmable messages, observers, resources, a thread | send, receive, retransmit, observe, notify | UDP, device binding |
| device binding (`dev_bind`, `dev_reset`) | bind token and its report timer, notifications in progress | report token, reply, notify, reset | MQTT client, CoAP server, timers |
| Wi-Fi provisioning (`wifi_provision`) | channel being scanned, frames received | start, stop, frame callback | radio, device binding |
| infrastructure (`infra`, `dev_sign`, `dynamic_register`) | message identifier, region, signatures | helpers | all |
| wrappers, connection manager (`src/wrappers`, `src/conn_mgr`) | sockets, TLS sessions, mutexes, stored Wi-Fi credentials | HAL_* , Wi-Fi events | ESP-IDF |

What is hard, and what makes each part correct:

* **Publishing.** A QoS 1 publish is stored before it is sent. Its write may
  fail, its PUBACK may be lost, come twice, or race the retransmission; the
  identifier wraps; the list is bounded. Correct: an accepted message is kept
  until the broker has it, a refused one is never sent, every accepted message
  is acknowledged once the connection holds.
* **Session.** Several tasks yield, publishers write late errors into the
  state, timers and events interleave. Correct: state, transport and the events
  the application saw agree; a dead peer is noticed; a lost session comes back;
  the reconnect delay doubles.
* **Topics and handlers.** Pointer arithmetic over filters, a list walked with
  its lock given back around callbacks. Correct: the match is the one of the
  levels; every matching handler is called once; a cancelled one is gone.
* **Synchronous subscription.** An answer read by any task must reach the call
  that waits for it. Correct: success means granted, no node stays behind, every
  call returns.
* **Locks.** Five non-recursive mutexes, taken across callbacks that call the
  API again. Correct: one order, all given back, nobody waits for ever.
* **Device model.** A request is sent, then remembered; the reply, the timeout
  and the dispatcher meet in the cache. Correct: the user is told one verdict on
  every remembered request, and the cache and queue stay bounded.
* **CoAP server.** Its own thread retransmits and gives up messages that other
  threads add and cancel; two mutexes, taken in two orders. Correct: the counter
  is the length of the list, memory is freed once, messages and calls end.
* **Over-the-air update.** An announcement replaces the digests, the URL and the
  signature without a lock, while a download may be between two fetches.
  Correct: the digest that is verified is the one of what was fetched, and what
  was fetched is what was written.
* **Reset and credentials.** Single writes to flash, the power may go between
  any two; the report of the reset races its reply and its timer. Correct: the
  mark lasts until the cloud knows, the password is the one of the SSID.
* **Device binding.** Three threads share the token and its flags without a
  lock. Correct: an app is only given a token the cloud has been told.
* **Not modelled:** offline subscriptions against construction; opening and
  closing of the device model against its yield; the connection table.

`PROJECT.json` lists every component with its status, and every hazard with its
line and the properties that cover it.

## 2. Modules

| module | models |
|---|---|
| `AtLeastOnce` | what QoS 1 promises: accepted and delivered at least once, or refused and never delivered |
| `MqttPublish`, `MCMqttPublish`, `MqttPublishProofs` | identifiers, wait list, retransmission, PUBACK, connection |
| `MqttSession`, `MCMqttSession`, `MqttSessionProofs` | state machine, keepalive, reconnection, events |
| `MqttTopic`, `MCMqttTopic` | topic check, match and comparison, as operators |
| `MqttHandlers`, `MCMqttHandlers` | handler list under subscribe, unsubscribe, delivery; extends `MqttTopic` |
| `MqttSubSync`, `MCMqttSubSync` | synchronous subscriptions |
| `MqttSubscribeProofs` | proofs about the three modules above |
| `MqttLocks`, `MCMqttLocks`, `MqttLocksProofs` | lock order of the whole client |
| `RequestPromise` | what a report promises: a verdict for each remembered request, with the exceptions told apart |
| `DmUpstream`, `MCDmUpstream`, `DmUpstreamProofs` | reports, replies, timeouts and dispatch of the device model |
| `CoapSend`, `MCCoapSend`, `CoapSendProofs` | list of messages, observers and mutexes of the CoAP server |
| `Ota`, `MCOta`, `OtaProofs` | handle, announcements, downloads and flash of an over-the-air update |
| `DeviceReset`, `MCDeviceReset`, `DeviceResetProofs` | factory restore, stored credentials and report of the reset, across power cycles |
| `AwssBind`, `MCAwssBind` | the bind token: report, reply, renewal, broadcast, request of the app |

The client is cut along its data: each module keeps the state its properties
relate and treats the rest as environment. `MqttLocks` justifies the cut: what
one critical section of the code does is one action of the other modules,
because the mutexes are taken in one order, given back on every return, and
never waited for in a circle.

### Correspondence with the code

**MqttPublish.** A member of `Msgs` is one call of `wrapper_mqtt_publish` with
QoS 1. The call takes an identifier (`iotx_mc_get_next_packetid`, 2217), puts a
node into the list and writes the packet under `lock_list_pub` and
`lock_write_buf` (`MQTTPublish`, 2489-2586); a failed write removes the node and
may set DISCONNECTED after the locks are released (3084-3131). The yielding
thread runs the keepalive handler, a cycle that reads one packet, and
`MQTTPubInfoProc` (943-1020), which frees invalid nodes and writes old ones
again, one node a step, for `lock_list_pub` is held but the state may change
under it. A PUBACK masks the nodes with its identifier (897-924). The transport
is up, broken or closed, with packets in flight in both directions. `allocs` and
`seq` are history variables that count identifiers.

**MqttSession.** `ypc[y]` is where thread `y` is between `iotx_mc_keepalive` and
`iotx_mc_cycle` (1477-1868, 2786-2818), each of which holds `lock_yield`;
`wpc[w]` is a publisher that has checked the state, written, and perhaps not
yet stored DISCONNECTED (3124). Timers expire at any time. A peer may go
silently ("dead") or with an error ("closed" is what the client does itself).
A reconnection sets CONNECTED twice, in `wrapper_mqtt_connect` (817) and again,
whatever a publisher has stored in between, in `iotx_mc_attempt_reconnect`
(1759). The history variables `event`, `before` and `late` hold the last two
events told to the application, and whether a write to the old connection failed
after the client had begun to reconnect: `iotx_mc_set_client_state` then undoes
that beginning, and DISCONNECT is told twice.

**MqttTopic.** A C string is a sequence of characters; tokens, pointers and
lengths are those of `iotx_mc_check_topic` (2267-2316), `infra_strtok`,
`iotx_mc_is_topic_matched` (1159-1196) and `MQTTPacket_equals`. The check refuses
what is longer than `CONFIG_MQTT_TOPIC_MAXLEN`, copies at most one character less
(`topicString`, 2283), and refuses `Unprintable` characters in the copy's tokens.
So a topic of exactly the limit is checked without its last character, as is, at
any length, a last level of one character.

**MqttHandlers.** One step is one critical section of `lock_generic`; a walk
(1198-1349) remembers its cursor while a callback runs. The history variable
`subscribed` is what the application believes it is subscribed to.

**MqttSubSync.** A call (2883-3047) sends a SUBSCRIBE, adds its node, and yields
until the node is answered, refused, or its time is over. A SUBACK is handled by
whoever holds `lock_yield` (1051-1142).

**MqttLocks.** A control-flow graph of lock, unlock and callback points of all
operations; what decides a branch is left open, so every return is a path. The
callbacks of a yield may call publish, subscribe, unsubscribe, the state check
and the list synchronisation, but not the yield itself.
`MaxRounds` bounds how often loops go round in one call. The application's
callbacks may call any operation of the API that takes no mutex the callback
already runs under; from the disconnect and reconnect callbacks
(`iotx_mc_reconnect_callback`, 1789-1816) it is assumed not to yield.

**DmUpstream.** A report (`IOT_Linkkit_Report` down to
`dm_mgr_upstream_thing_property_post`) holds the linkkit mutex, sends, compares
the length of the cache and inserts. A reply is searched, passed on and removed
in three steps (`dm_msg_proc_thing_event_post_reply`). `iotx_dm_dispatch` runs
the timeouts with the cache's mutex held, then empties the queue. Besides the
dispatcher another thread may read packets, since `IOT_MQTT_Subscribe_Sync`
yields. A request's age is abstracted to whether it is `due`. Memory is never
exhausted. `early`, `foreign`, `dropped` and `told` are history variables.
`RequestPromise` sees of each request only its place on the way from the report
to the user; `Place` computes it from posters, queue, cache and history, a
verdict in the queue before the cache it was drawn from.

**CoapSend.** `CoAPServer_yield`'s cycle (read, retransmit, look for timeouts;
`CoAPMessage.c`, `CoAPExport.c`) is the server's position; a notifier
broadcasts (`awss_cmp_coap_send`: cancel the message before, send, list) or
notifies the observers (`CoAPObsServer_notify`). A step is one critical section
or one write. Broadcasts are listed with `keep` set and only a cancellation
removes them; identifiers are those of the counter, which wraps, and those of
the peers, which a response reuses, so that one may name two messages.
A response found by its token (`CoAPRespMessage_handle`, which may be any message
of the list) leaves a broadcast there and takes anything else off, count first,
handler next, memory last. `freed` counts how often the memory of a message was
released.

**Ota.** `ota_callback` (`iotx_ota.c:114`) is the receiver's sequence of
parameters, digests, channel, type and state; the download is the loop of
`dm_fota_perform_sync` and `dm_cota_perform_sync` over `IOT_OTA_FetchYield`, in
the callback of the event or in a task. The digest is the sequence of the
chunks that were added to it, the partition that of the chunks written to it
(`wrapper_ota.c`). A fetch or a write may fail, an image may not match its
signature, and its body (`Length`) may be shorter than the announced `Chunks`:
then the connection is closed at its end (`infra_httpc.c:568`) and every further
fetch asks again and counts nothing (`FetchEmpty`).

**DeviceReset.** The flash is four keys, each written in a step of its own:
quick boots and mark (`factory_restore.c`, `awss_dev_reset.c`), SSID and
password (`conn_mgr.c`). Each access may fail and write nothing, and the code
goes on as it does: the SSID that fails skips the password (96), the password
that fails leaves the SSID (103), an erased key that fails is not noticed
(199). The hotspot and router of the provisioning (`Unsaved`) are not stored
(88). `Restart` may come before any step and clears everything else.
`awss_report_cloud` reports a mark it finds, the timer task repeats the report
every three seconds, the reply erases the mark (`awss_dev_reset.c:45`). `boots`
counts the quick boots as a person would, `kept` remembers that the count once
could not be erased, and `half` that of SSID and password only one was written
or erased, for the power went or the flash failed.

**AwssBind.** One callback is one step: connection and reply (the thread that
yields), request and response of an app (the CoAP server), three one-shot
timers. Only the reply has two steps, for it stores its success before it
deletes the timer that another thread may just have started. A token is a
number; `reported` are those the cloud has read, `shared` those an app was given.
Finer steps, of which there are more in C, could only add behaviours, so the
violation found is one of the program.

## 3. Runs

| run | question | bounds | result |
|---|---|---|---|
| `publish_safety` | are accepted messages kept and refused ones not sent, when identifiers wrap | 3 publishes, list of 2, 3 identifiers and 4 allocations so that one wraps, 1 failure, 2 copies in flight | holds |
| `publish_promise` | does the list implement `AtLeastOnce`; is every accepted message acknowledged | 2 publishes, list of 1, 2 failures, no wrap | holds |
| `session` | do state, transport and events agree; is death noticed; does the session come back | 2 yielding threads, 1 publisher, 1 break, 3 failed reconnections, delay 1 to 3 | holds |
| `topic_match` | is the match the one of the levels; what does the check let through | all filters and names of up to 5 characters; filters of 6 alone, limit of 5 | holds |
| `handlers_safety` | duplicates, deliveries and cancellations | 2 threads, 2 callbacks, 4 subscriptions, 2 cancellations | holds |
| `subsync` | answers, nodes, return of the call | 2 subscribers, 1 yielding thread, 2 identifiers | holds |
| `locks` | order, release, no circle, every call ends | 2 threads, 2 rounds of each loop | holds |
| `coap` | counter, memory, broadcasts; do messages and calls end | 1 notifier, 1 peer, list of 2, 1 retry, 3 identifiers, 3 messages, 2 requests | holds |
| `ota` | is what is verified what was fetched, and written; does a download end that gets its bytes | 3 images announced with 2 chunks, one bad, one of 1, 3 announcements, queue of 1 | holds |
| `reset` | does the mark outlive everything until it is reported; do SSID and password match; is a restore asked for | 3 networks, one open, one that is not saved, 2 quick boots, 3 power cycles, 1 failed access to the flash, 1 lost connection, 1 report in flight | holds |
| `bind` | is a token given to an app known to the cloud | 4 tokens, 4 reports, 2 connections, 2 broadcasts | violated |
| `upstream` | bounded cache, one verdict, everything settled; do cache and queue implement `RequestPromise` | 2 posters, 2 receivers, cache of 1, queue of 1, 2 requests, 1 other event | holds |

Why the bounds are enough to show the cases that matter. In `publish_safety` a
third publish finds the list of two full, and the fourth allocation has the
identifier of the first. In `publish_promise` a message is sent, lost, sent
again and lost again; the refinement holds only without a wrap, which
`IdsDistinct` isolates: two outstanding publishes share an identifier only a
whole lap apart, which with 65535 identifiers and 20 nodes takes other packets
to use up the lap. The code's delays, 1000 and 16000 ms, reach the maximum
exactly; the maximal delay of 3 in the run is no power of two times the
smallest, so that doubling overshoots it and the clamp (1779) matters. Filters
of five characters contain every combination of two separators with three
levels, empty and one-character levels among them; with a limit of five they
are checked whole, short of the last character, or, at six, not at all. Two
threads and one other are enough for every race between a call, a second call
of the same kind, and the reader. With a cache and queue of one both are full
in most behaviours. Three CoAP messages fill the list of two and let one fail,
and the third takes the first's identifier; one notifier and the server are the
two sides of every race there. Three announcements are one before, one during
and one after a download of two chunks, one fetch before and one after the
change. Two quick boots and three power cycles allow a restore and a cut inside
it or while its report is out; one failed access separates any two writes.

`CHECK_DEADLOCK FALSE` stands where all calls of the bounded instance may have
been made (`MqttHandlers`, `MqttSubSync`, `AwssBind`), where the two mutexes of
the CoAP server can lock each other out (`CoapSend`), where a device whose report
is confirmed has nothing left to do (`DeviceReset`), or where the behaviour is
one evaluation (`MqttTopic`).

Every property of a passing run has a mutant in `PROJECT.json`: a change of one
definition, such as a plausible slip in the C code, that makes the property
fail. They stand in the modules next to what they replace, with the comment
"Mutant".

### Finding

* `bind`: a reply to the report of the old token that is read after
  `awss_update_token` passes the comparison of identifiers (`awss_report.c:102`),
  for the renewal reports nothing and advances nothing. It sets
  `awss_report_token_suc` for the new token and stops the timer that would have
  reported it; a request of the app that waits is answered with a token the
  cloud was never told, although the code means to "wait for token is sent to
  cloud and rx reply from cloud" (`awss_notify.c:377`, of the broadcast; what
  holds back the response to a request is the same flag, at line 239).

### Stated but not run

These stand in the modules as the precise form of what the code does not give,
or of what another property already carries. They are not among the runs;
"fails" means TLC finds them violated in the instance of the run named.

| property | run | |
|---|---|---|
| `HashOnlyLast` (`MCMqttTopic`) | `topic_match` | fails: `/#/a` passes, the first token never sets the mask (2310), although the message says "The character '#' is not in the last" (2299) |
| `CancelledIsGone` (`MqttHandlers`) | `handlers_safety` | fails: the length counts the terminator (2452), so a filter without a wildcard at its end stays |
| `NamesHaveNoWildcard` (`MCMqttTopic`) | `topic_match` | fails: `/a/+` passes for a name, as `infra_strtok` gives no token for a single last character; the message says "has character # and + is error" (2253) |
| `OthersKept` (`MqttHandlers`) | `handlers_safety` | fails: unsubscribing removes what the filter matches as a name |
| `LiteralsKept` | `handlers_safety` | holds, and is proved: the part of `OthersKept` for filters that do not end with a wildcard |
| `RightHandlerFound` | `handlers_safety` | fails: a walk whose cursor was freed |
| `AnswerIsFound` (`MqttSubSync`) | `subsync` | fails: the SUBSCRIBE is sent (2936) before its node exists (2965) |
| `WaitsForSuback` | `subsync` | fails: a call made while another thread runs a callback does not wait |
| `GivenUpAfterProbes` (`MqttSession`) | `session`, with 2 breaks | fails: nothing clears `keepalive_probes` on reconnection (1493, 1838) |
| `BackoffDoubles` | `session` | holds, and is proved |
| `TypeOK` (`MqttPublish`) | `publish_safety` | holds, and is proved; part of it is the bound on the wait list |
| `ToldOnce` (`DmUpstream`) | `upstream` | holds, and is proved with `OneVerdict` |
| `FlashClosed` (`Ota`) | `ota` | holds, and is proved |
| `VerifiedIsFlashed` | `ota` | fails: a download in a task may flash A and then B, and verify B |
| `DownloadEnds` | `ota` | fails: a body shorter than announced that fits one fetch is fetched for ever with 0 bytes, under the mutex of linkkit (`ota_fetch.c:61`, `:74`); `PerformEnds` says that nothing else keeps a download |
| `AnnouncedIsFetched` | `ota` | fails: `Query` refuses while not connected, or a failed fetch resets the type after a new announcement set it (`iotx_ota.c:742`); the state stays FETCHING and every later announcement is refused |

## 4. Fairness

* `MqttPublish`: the application keeps yielding (weak), time passes (weak), the
  broker reads what reaches it (weak); a reconnection that is tried again and
  again succeeds in the end, and a broken connection is noticed (strong): that
  is what an application that calls `IOT_MQTT_Yield` in its loop and a network
  that comes back give.
* `MqttSession`: every yielding thread goes on (weak) and gets `lock_yield` in
  its turn (strong: a FreeRTOS mutex is given to a waiting task of the highest
  priority; the threads that yield are taken to have one); timers expire.
  Reconnections fail at most `MaxFailures` times in a row, without which nothing
  would come back.
* `MqttSubSync`, `MqttLocks`: threads that are inside a call run (weak), waits
  for mutexes end (strong), a call's time is over some day (strong, since the
  yielding in between may disable it for a moment). Nobody has to begin a call.
* `DmUpstream`: the dispatcher keeps yielding; time passes and its yield ends at
  its timeout although packets keep coming (strong); replies are removed
  although the dispatcher takes the cache's mutex again and again (strong). No
  fairness of the cloud or of the posters is assumed.
* `CoapSend`: threads run and time passes (weak); the socket is empty now and
  then and the server gets the observers' mutex some day (strong).
* `Ota`: the thread that yields and the one that downloads go on (weak), and an
  announcement that has begun ends. Nobody has to announce anything.
* `DeviceReset`: threads and timers run, the user provisions a device that is
  not provisioned, the cloud replies (weak); a subscription tried again and
  again succeeds (strong). Power cycles and lost connections are bounded, not
  fair.
* `AwssBind`: none, its property is a safety property.

## 5. Proofs

All theorems assume only the named assumption on the constants of their module
(finite sets, positive limits, distinct threads and characters; filters
`iotx_mc_check_topic` has accepted, names without wildcards). None bounds the
number of threads, messages or rounds.

* **MqttPublishProofs.** `TypeCorrect`; `RefusedSafe`, `AcceptedSafe` and
  `IdsSafe`. A message in the list, or a PUBACK for it in flight, says nothing by
  itself: the invariant adds where every call stands, that only a message that
  was written is on the wire, that a node is marked invalid only after the
  broker has a message with its identifier, and the distance between the
  allocation counts of two messages with one identifier.
  `PublishKeepsPromise`: each step is a step of `AtLeastOnce` or a stutter, as
  long as identifiers do not wrap (`MaxAllocs <= PACKET_ID_MAX`).
* **MqttSessionProofs.** `TypeCorrect` (with mutual exclusion on `lock_yield`),
  `OpenSafe`, `KnowsSafe`, `EventsAlternate`, `BackoffExact`. The invariant
  `OwnerKnows` says what the owner of `lock_yield` may rely on at each of its
  points although a publisher may store DISCONNECTED under it. `BackoffExact`
  needs more: the interval that is doubled is not the time that was waited, and
  after a reconnection the two differ; `WaitFits` says that they agree wherever a
  reconnection is on its way, which rests on mutual exclusion. `EventsAlternate`
  is about the sequence of events: `Untold` says that a client which is
  DISCONNECTED after it told so is still on its way through the keepalive, or was
  made so by a write that failed late.
* **MqttSubscribeProofs**, synchronous calls: `TypeCorrect`, `SuccessSafe`,
  `NodesSafe`. The invariant: identifiers of calls are distinct, nodes belong to
  them, an answer on the wire or on a node is what the broker answered.
* **MqttSubscribeProofs**, topics: `MatchExact` and `FiltersPass`, the two
  properties of the run `topic_match` for texts of every length over every
  alphabet, and for every limit of the length. The algorithms recur over
  positions, and the library's induction theorems are of no use here (they take
  an operator as a parameter). So the module derives what it needs: `LeastNat`,
  from the well-foundedness of inclusion on finite sets; `NatSetInduction`,
  induction with a set for the predicate; `TailRecursion` and
  `PrimitiveRecursion`, which build the functions that have the equations of
  the recursions, for `CHOOSE` says nothing before one is known to exist. On
  these, `LevelAt` puts every level at its place in the text, `LevelStep`
  follows the walk of `iotx_mc_is_topic_matched` through one level (literal,
  `+`, `#`), and `WalkByLevels` goes up from the last level. For
  `iotx_mc_check_topic`, `TokenFacts` says what `infra_strtok` returns, the
  loss of a single last character included; `RestAlone` and `WellFormedRest` go
  through the tokens from the end, `CopyFacts` comes back from the bounded
  copy.
* **MqttSubscribeProofs**, handlers: `HandlersTypeCorrect`, `NoHandlerTwice`,
  `CalledOnce`, `CalledAll`, `WildcardsGo`, `LiteralsStay`. The invariant
  `HandlersIInv`: an allocation is in the list once or with the one call that
  will append it (`NodesFit`); what a walk has seen is not about to be appended,
  so a handler that was removed does not come back (`WalkFits`); and a walk that
  stands on a handler has called it, nobody behind it, and everybody before it
  whom it had to call (`Standing`). An unsubscription keeps all that because the
  handlers that stay keep their order (`RemainingKeeps`). `WildcardsGo` and
  `LiteralsStay` rest on what the comparison of `MQTTUnsubscribe`, with its
  length one too great, finds: the given filter when it ends with its only `#`
  or with `+` (`WildRemoved`), and nothing that does not end so
  (`OnlyWildRemoved`). The first failed as it was first written, for filters in
  general: `/#/+` passes `iotx_mc_check_topic` and is never removed, which
  `EndsWild` excludes. So does a filter of exactly the limit that ends with `/+#`;
  `WildcardsCancelled` asks for a shorter one.
* **MqttLocksProofs.** `TypeCorrect`, `LocksInOrder`, `LocksGivenBack`,
  `NoDeadlock`. Every point of the graph lies in a zone that determines the
  locks held there; each edge is checked against the zones of its two ends
  (`Good`), one function at a time; then the holders are exactly those the zones
  say. `NoDeadlock` picks the highest lock that is held: its holder can only
  wait for a higher one, which nobody holds.
* **DmUpstreamProofs.** `TypeCorrect`, `CacheStaysBounded`, `UserToldOnce`,
  `FoundNodeStays`. The invariant: the owner of the linkkit mutex is the only
  one who posts (so the compared length still holds at the insert), a request
  that has not been inserted has no verdict, one in the cache has not timed out
  and is answered only while its reply is being removed, and a reply that was
  found belongs to the dispatcher or is marked `foreign`.
  `UpstreamKeepsPromise`: each step is a step of `RequestPromise` or a stutter.
  The invariant of the bounds does not see where a verdict is, so `Follows` is
  added: no verdict is out before the insert, what is in the cache has none out
  but that of the reply being handled, and a request whose reply is being handled
  leaves the cache only with a verdict or because the reply came too soon. Then
  each action moves at most one request (`OneMoves`), the one it names.
* **CoapSendProofs.** `TypeCorrect`, `CountIsCorrect`, `MemoryIsSafe`,
  `BroadcastsAreCancelled`. The list is a set of messages known by their
  allocation, so the counter is a cardinality and each way in or out changes
  both by one; a message the server has taken off, for its timeout or with its
  response, is not on the list and not yet freed (`InHand`); a notifier that is
  about to list a broadcast has none there.
* **OtaProofs.** `TypeCorrect`, `DigestsAreOfTheChannel`, `PartitionIsClosed`,
  `VerifiedInCallback`. The invariant: an announcement that is being read found
  the handle not fetching, and what it has replaced stays as it left it
  (`Replaced`); a chunk is only added to the digests while the state says
  fetching (`Adding`); the receiver waits for the download of its callback
  (`Waits`), so in that download flash and digests go step by step (`Same`); an
  empty fetch moves neither.
* **DeviceResetProofs.** `MarkKept`, `PairKept`, `RestoreAsked`. The invariant:
  until the connection manager has started nothing but `app_main` runs, and
  that is when marks are made (`Booting`); so a reply in flight, or one being
  handled, answers the restore that is marked (`Answered`); the count in flash
  is at most the boots made, unless it was `kept` (`Counted`); what the Wi-Fi
  driver runs with is the pair in flash, or replaces one that was erased
  (`Paired`).

Only model-checked: all liveness (`EventuallyAcked`, `DeadIsNoticed`,
`Reconnects`, `CallReturns`, `CallsEnd`, `Settled`, `MessagesEnd`, `CallsReturn`,
`PerformEnds`, `ReportedInTheEnd`), which the prover cannot do under fairness.
Every safety property of a passing run is proved.

## 6. Not modelled

* Bytes: serialisation, JSON, digests, TLS, decoding of Wi-Fi frames. Partial
  reads and oversized packets of the MQTT reader belong here; the hazards they
  carry are listed.
* Exhausted memory and failed creation of mutexes.
* Release of a client while it is in use; the API leaves this to the caller.
* Code the makefiles leave out (HTTP, HTTP/2, CoAP cloud, ALCS, sub-devices).
* Update: progress and version reports. The models show or the reading did
  that the boot partition is set even after a digest did not verify
  (`dm_fota.c:148`, `wrapper_ota.c:111`), that writes which failed do not make
  the result a failure (`dm_fota.c:119`), and that the percentage divides by a
  size the cloud gives (`dm_fota.c:130`); no property is about these.
* Reset: the wake from deep sleep, `conn_mgr_set_wifi_config_ext`, and
  `awss_report_reset`, which the console example calls: it stores the mark as 0
  (`awss_dev_reset.c:146`), so a restart loses the report, against
  `dev_bind_api.h:19`. A cut between the erased count and the erased SSID
  (`factory_restore.c:61-64`) leaves a marked device on its old network; no
  property excludes it.
* Binding: `awss_bind_deinit`; the notification's mutex, created and destroyed
  around its use; a request whose timer another one deletes between
  `awss_notify.c:298` and 299. After three reports without reply the device gives
  up, and a request that waits then keeps later ones out until the next
  connection (`awss_notify.c:334`); no property is about it.
* CoAP: registration of resources and observers, start and stop of the server;
  the field `keep` of a node read after its unlock (`CoAPMessage.c:416`).
* dev_reset, authentication, Wi-Fi provisioning, shadow and TSL: sequential
  code, computations or bit-level decoding.
* What the plan below has left.

## 7. Plan

Done: publishing, session, topics, handlers, synchronous subscription, locks,
reports of the device model, CoAP server, update, reset with credentials, bind
token. Left, in this order:

1. `MqttOffline`: `IOT_MQTT_Construct` against subscriptions before there is a
   client, and the first use of the offline list by two tasks; safety: every
   subscription that was accepted is made once.
2. `LinkkitLife`: open, connect, report, yield and close of the device model;
   safety: nothing is used after it is destroyed, given what the callers
   promise; `CmConnect`: connection table and its retries until a timeout.

