-------------------------- MODULE DmUpstreamProofs --------------------------
(***************************************************************************)
(* What holds of DmUpstream for all sets of threads, lengths of the cache  *)
(* and of the queue, and numbers of requests.                              *)
(***************************************************************************)
EXTENDS DmUpstream, FiniteSetTheorems, TLAPS

\* A request that has not been inserted in the cache yet and may still be.
Unborn(r) == r >= next_id \/ \E p \in Posters : posting[p] # "out" /\ msgid[p] = r

\* The linkkit mutex covers a report from its first step to its last, and the
\* length that was compared is still that of the cache.
OnePoster ==
    \A p \in Posters : posting[p] # "out" =>
        /\ mutex = p
        /\ msgid[p] \in Requests /\ msgid[p] < next_id
        /\ posting[p] = "checked" =>
              Cardinality(dmc_list) < CONFIG_MSGCACHE_QUEUE_MAXLEN

Clean ==
    \A r \in Requests : Unborn(r) =>
        /\ r \notin dmc_list
        /\ answered[r] = 0 /\ timedOut[r] = 0
        /\ handling = "found" => reply_id # r

OneReceiver ==
    /\ receiver = NoThread <=> handling = "idle"
    /\ receiver = Dispatcher => stage = "yield"
    /\ handling # "idle" => reply_id \in Requests

\* What a verdict says of a request and of the cache.
Verdicts ==
    /\ \A r \in dmc_list : timedOut[r] = 0
    /\ \A r \in dmc_list :
          answered[r] = 0 \/ (handling = "told" /\ reply_id = r)
    /\ handling = "found" =>
          /\ answered[reply_id] = 0
          /\ receiver = Dispatcher \/ reply_id \in foreign
    /\ handling = "told" /\ reply_id \in dmc_list /\ answered[reply_id] # 0 =>
          receiver = Dispatcher \/ reply_id \in foreign

Inv ==
    /\ TypeOK /\ CacheBounded
    /\ OnePoster /\ Clean /\ OneReceiver /\ Verdicts
    /\ ToldOnce /\ OneVerdict /\ NodeStays
-----------------------------------------------------------------------------
(* The cache is a finite set, and its size changes as sizes do.            *)
LEMMA CacheSize ==
    ASSUME UpstreamAssumption, dmc_list \in SUBSET Requests
    PROVE  /\ IsFiniteSet(dmc_list) /\ Cardinality(dmc_list) \in Nat
           /\ \A r : /\ Cardinality(dmc_list \cup {r}) \in Nat
                    /\ Cardinality(dmc_list \cup {r}) <= Cardinality(dmc_list) + 1
           /\ \A s \in SUBSET dmc_list : /\ Cardinality(s) \in Nat
                                        /\ Cardinality(s) <= Cardinality(dmc_list)
<1>1. IsFiniteSet(Requests)
  BY FS_Interval DEF UpstreamAssumption, Requests
<1>2. IsFiniteSet(dmc_list) /\ Cardinality(dmc_list) \in Nat
  BY <1>1, FS_Subset, FS_CardinalityType
<1>3. \A r : /\ Cardinality(dmc_list \cup {r}) \in Nat
             /\ Cardinality(dmc_list \cup {r}) <= Cardinality(dmc_list) + 1
  <2>1. ASSUME NEW r
        PROVE  Cardinality(dmc_list \cup {r})
               = IF r \in dmc_list THEN Cardinality(dmc_list) ELSE Cardinality(dmc_list) + 1
    BY <1>2, FS_AddElement
  <2> QED
    BY <1>2, <2>1
<1>4. \A s \in SUBSET dmc_list : /\ Cardinality(s) \in Nat
                                /\ Cardinality(s) <= Cardinality(dmc_list)
  BY <1>2, FS_Subset, FS_CardinalityType
<1> QED
  BY <1>2, <1>3, <1>4

(* The queue stays a sequence of events no longer than it may be.          *)
LEMMA QueueFits ==
    ASSUME UpstreamAssumption, TypeOK, NEW e \in Requests \cup {Other}, Offer(e)
    PROVE  /\ message_list' \in Seq(Requests \cup {Other})
           /\ Len(message_list') <= CONFIG_DISPATCH_QUEUE_MAXLEN
<1>1. CASE QueueFull
  BY <1>1 DEF Offer, TypeOK
<1>2. CASE ~QueueFull
  <2>1. Len(Append(message_list, e)) = Len(message_list) + 1
    BY DEF TypeOK
  <2>2. Len(message_list) \in Nat /\ CONFIG_DISPATCH_QUEUE_MAXLEN \in Nat
    BY DEF TypeOK, UpstreamAssumption
  <2> QED
    BY <1>2, <2>1, <2>2 DEF Offer, TypeOK, QueueFull
<1> QED
  BY <1>1, <1>2

-----------------------------------------------------------------------------
(* Every action keeps the types.                                           *)
LEMMA StepKeepsTypes ==
    ASSUME UpstreamAssumption, Inv, [Next]_vars
    PROVE  TypeOK'
<1> USE DEF Inv, TypeOK, postVars, replyVars, dispatchVars, queueVars
<1>1. ASSUME NEW p \in Posters,
             Report(p) \/ NotRemembered(p) \/ CheckSize(p) \/ Insert(p)
      PROVE  TypeOK'
  <2>1. CASE Report(p)
    BY <2>1 DEF Report, Enter
  <2>2. CASE NotRemembered(p)
    BY <2>2 DEF NotRemembered, Leave
  <2>3. CASE CheckSize(p)
    BY <2>3 DEF CheckSize
  <2>4. CASE Insert(p)
    BY <2>4 DEF Insert, Leave, OnePoster
  <2> QED
    BY <1>1, <2>1, <2>2, <2>3, <2>4
<1>2. ASSUME NEW r \in Requests, CloudAnswers(r) \/ GrowOld(r) \/ TimeOut(r)
      PROVE  TypeOK'
  <2>1. CASE CloudAnswers(r) \/ GrowOld(r)
    BY <2>1 DEF CloudAnswers, GrowOld
  <2>2. CASE TimeOut(r)
    <3>1. /\ message_list' \in Seq(Requests \cup {Other})
          /\ Len(message_list') <= CONFIG_DISPATCH_QUEUE_MAXLEN
      BY <2>2, QueueFits DEF TimeOut, SendToUser
    <3> QED
      BY <2>2, <3>1 DEF TimeOut, SendToUser
  <2> QED
    BY <1>2, <2>1, <2>2
<1>3. ASSUME NEW t \in Receivers, ReceiveOther(t)
      PROVE  TypeOK'
  <2>1. /\ message_list' \in Seq(Requests \cup {Other})
        /\ Len(message_list') <= CONFIG_DISPATCH_QUEUE_MAXLEN
    BY <1>3, QueueFits DEF ReceiveOther
  <2> QED
    BY <1>3, <2>1 DEF ReceiveOther, UpstreamAssumption
<1>4. ASSUME NEW t \in Receivers, NEW r \in Requests,
             AnswerFound(t, r) \/ AnswerUnknown(t, r)
      PROVE  TypeOK'
  <2>1. r \in Nat
    BY DEF Requests, UpstreamAssumption
  <2>2. CASE AnswerFound(t, r)
    BY <2>1, <2>2 DEF AnswerFound, Search
  <2>3. CASE AnswerUnknown(t, r)
    BY <2>1, <2>3 DEF AnswerUnknown, Search
  <2> QED
    BY <1>4, <2>2, <2>3
<1>5. CASE TellAnswer
  <2>1. reply_id \in Requests
    BY <1>5 DEF TellAnswer, OneReceiver
  <2>2. /\ message_list' \in Seq(Requests \cup {Other})
        /\ Len(message_list') <= CONFIG_DISPATCH_QUEUE_MAXLEN
    BY <1>5, <2>1, QueueFits DEF TellAnswer, SendToUser
  <2>3. answered' \in [Requests -> Nat] /\ dropped' \in SUBSET Requests
    BY <1>5, <2>1 DEF TellAnswer, SendToUser
  <2> QED
    BY <1>5, <2>2, <2>3 DEF TellAnswer, SendToUser
<1>6. CASE Remove
  BY <1>6 DEF Remove, Remaining
<1>7. CASE StartTick \/ EndTick
  BY <1>7 DEF StartTick, EndTick, Tick
<1>8. CASE Dispatch
  <2>1. message_list # <<>> /\ message_list' = Tail(message_list)
    BY <1>8 DEF Dispatch, MoreToDispatch
  <2>2. /\ Head(message_list) \in Requests \cup {Other}
        /\ message_list' \in Seq(Requests \cup {Other})
        /\ Len(message_list') = Len(message_list) - 1
    BY <2>1
  <2>3. told' \in SUBSET Requests
    BY <1>8, <2>2 DEF Dispatch
  <2>4. dispatched' \in 0 .. CONFIG_DISPATCH_QUEUE_MAXLEN
    BY <1>8 DEF Dispatch, MoreToDispatch, UpstreamAssumption
  <2> QED
    BY <1>8, <2>2, <2>3, <2>4 DEF Dispatch, UpstreamAssumption
<1>9. CASE EndDispatch
  BY <1>9 DEF EndDispatch, UpstreamAssumption
<1>10. CASE UNCHANGED vars
  BY <1>10 DEF vars
<1> QED
  BY <1>1, <1>2, <1>3, <1>4, <1>5, <1>6, <1>7, <1>8, <1>9, <1>10 DEF Next

(* The length that was compared outside of the cache's mutex is still      *)
(* right when the request is inserted, for the linkkit mutex is held.      *)
LEMMA StepKeepsOnePoster ==
    ASSUME UpstreamAssumption, Inv, [Next]_vars
    PROVE  OnePoster' /\ CacheBounded'
<1> USE DEF Inv, OnePoster, CacheBounded, postVars
<1> DEFINE Size == Cardinality(dmc_list)
<1>1. /\ IsFiniteSet(dmc_list) /\ Size \in Nat
      /\ \A r : /\ Cardinality(dmc_list \cup {r}) \in Nat
               /\ Cardinality(dmc_list \cup {r}) <= Size + 1
      /\ \A s \in SUBSET dmc_list : Cardinality(s) \in Nat /\ Cardinality(s) <= Size
  BY CacheSize DEF TypeOK
<1>2. CONFIG_MSGCACHE_QUEUE_MAXLEN \in Nat /\ MaxRequests \in Nat /\ next_id \in Nat \ {0}
  BY DEF UpstreamAssumption, TypeOK
<1>3. ASSUME NEW p \in Posters, Report(p)
      PROVE  OnePoster' /\ CacheBounded'
  <2>1. \A q \in Posters : posting[q] = "out"
    BY <1>3 DEF Report, Enter, UpstreamAssumption, TypeOK
  <2>2. next_id \in Requests
    BY <1>2, <1>3 DEF Report, Requests
  <2>3. /\ mutex' = p /\ dmc_list' = dmc_list /\ next_id' = next_id + 1
        /\ posting' = [posting EXCEPT ![p] = "sent"]
        /\ msgid' = [msgid EXCEPT ![p] = next_id]
    BY <1>3 DEF Report, Enter
  <2> QED
    BY <1>2, <2>1, <2>2, <2>3 DEF TypeOK
<1>4. ASSUME NEW p \in Posters, posting[p] # "out", Leave(p),
             Cardinality(dmc_list') <= CONFIG_MSGCACHE_QUEUE_MAXLEN
      PROVE  OnePoster' /\ CacheBounded'
  <2>1. \A q \in Posters : posting'[q] = "out"
    BY <1>4 DEF Leave, TypeOK
  <2> QED
    BY <1>4, <2>1
<1>5. ASSUME NEW p \in Posters, NotRemembered(p)
      PROVE  OnePoster' /\ CacheBounded'
  BY <1>4, <1>5 DEF NotRemembered
<1>6. ASSUME NEW p \in Posters, CheckSize(p)
      PROVE  OnePoster' /\ CacheBounded'
  BY <1>6 DEF CheckSize, TypeOK
<1>7. ASSUME NEW p \in Posters, Insert(p)
      PROVE  OnePoster' /\ CacheBounded'
  <2>1. posting[p] = "checked" /\ dmc_list' = dmc_list \cup {msgid[p]} /\ Leave(p)
    BY <1>7 DEF Insert
  <2>2. Size < CONFIG_MSGCACHE_QUEUE_MAXLEN
    BY <2>1
  <2>3. /\ Cardinality(dmc_list \cup {msgid[p]}) \in Nat
        /\ Cardinality(dmc_list \cup {msgid[p]}) <= Size + 1
    BY ONLY <1>1
  <2>4. Cardinality(dmc_list \cup {msgid[p]}) <= CONFIG_MSGCACHE_QUEUE_MAXLEN
    BY <1>1, <1>2, <2>2, <2>3
  <2> QED
    BY <1>4, <2>1, <2>4
<1>8. ASSUME dmc_list' \in SUBSET dmc_list, UNCHANGED postVars
      PROVE  OnePoster' /\ CacheBounded'
  <2>1. Cardinality(dmc_list') \in Nat /\ Cardinality(dmc_list') <= Size
    BY <1>1, <1>8
  <2> QED
    BY <1>1, <1>2, <1>8, <2>1
<1>9. ASSUME NEW r \in Requests, CloudAnswers(r) \/ GrowOld(r) \/ TimeOut(r)
      PROVE  OnePoster' /\ CacheBounded'
  BY <1>8, <1>9 DEF CloudAnswers, GrowOld, TimeOut
<1>10. ASSUME NEW t \in Receivers, NEW r \in Requests,
              AnswerFound(t, r) \/ AnswerUnknown(t, r)
       PROVE  OnePoster' /\ CacheBounded'
  BY <1>8, <1>10 DEF AnswerFound, AnswerUnknown
<1>11. CASE TellAnswer \/ Remove \/ \E t \in Receivers : ReceiveOther(t)
  BY <1>8, <1>11 DEF TellAnswer, Remove, Remaining, ReceiveOther
<1>12. CASE StartTick \/ EndTick \/ Dispatch \/ EndDispatch
  BY <1>8, <1>12 DEF StartTick, EndTick, Dispatch, EndDispatch
<1>13. CASE UNCHANGED vars
  BY <1>8, <1>13 DEF vars
<1> QED
  BY <1>3, <1>5, <1>6, <1>7, <1>9, <1>10, <1>11, <1>12, <1>13 DEF Next

-----------------------------------------------------------------------------
(* One receiver handles a reply at a time, and the dispatcher does not     *)
(* dispatch while it does.                                                 *)
LEMMA StepKeepsOneReceiver ==
    ASSUME UpstreamAssumption, Inv, [Next]_vars
    PROVE  OneReceiver'
<1> USE DEF Inv, OneReceiver, replyVars, dispatchVars
<1>1. ASSUME NEW p \in Posters,
             Report(p) \/ NotRemembered(p) \/ CheckSize(p) \/ Insert(p)
      PROVE  OneReceiver'
  BY <1>1 DEF Report, NotRemembered, CheckSize, Insert
<1>2. ASSUME NEW r \in Requests, CloudAnswers(r) \/ GrowOld(r) \/ TimeOut(r)
      PROVE  OneReceiver'
  BY <1>2 DEF CloudAnswers, GrowOld, TimeOut
<1>3. ASSUME NEW t \in Receivers, ReceiveOther(t)
      PROVE  OneReceiver'
  BY <1>3 DEF ReceiveOther
<1>4. ASSUME NEW t \in Receivers, NEW r \in Requests,
             AnswerFound(t, r) \/ AnswerUnknown(t, r)
      PROVE  OneReceiver'
  BY <1>4 DEF AnswerFound, AnswerUnknown, Search, MayRead, UpstreamAssumption
<1>5. CASE TellAnswer \/ Remove
  BY <1>5 DEF TellAnswer, Remove, UpstreamAssumption
<1>6. CASE StartTick \/ EndTick \/ Dispatch \/ EndDispatch
  BY <1>6 DEF StartTick, Tick, EndTick, Dispatch, EndDispatch
<1>7. CASE UNCHANGED vars
  BY <1>7 DEF vars
<1> QED
  BY <1>1, <1>2, <1>3, <1>4, <1>5, <1>6, <1>7 DEF Next

-----------------------------------------------------------------------------
(* A request that is not in the cache yet has had no verdict.              *)
LEMMA StepKeepsClean ==
    ASSUME UpstreamAssumption, Inv, [Next]_vars
    PROVE  Clean'
<1> USE DEF Inv, Clean, Unborn, postVars, replyVars, queueVars, TypeOK
<1>1. next_id \in Nat \ {0} /\ Requests \subseteq Nat
  BY DEF Requests
<1>2. ASSUME NEW p \in Posters, Report(p)
      PROVE  Clean'
  <2>1. /\ next_id' = next_id + 1
        /\ posting' = [posting EXCEPT ![p] = "sent"]
        /\ msgid' = [msgid EXCEPT ![p] = next_id]
        /\ UNCHANGED <<dmc_list, answered, timedOut, handling, reply_id>>
    BY <1>2 DEF Report
  <2>2. ASSUME NEW r \in Requests, Unborn(r)' PROVE Unborn(r)
    BY <1>1, <2>1, <2>2
  <2> QED
    BY <2>1, <2>2
<1>3. ASSUME NEW p \in Posters, Leave(p), posting[p] # "out",
             dmc_list' \subseteq dmc_list \cup {msgid[p]},
             UNCHANGED <<answered, timedOut, handling, reply_id>>
      PROVE  Clean'
  <2>1. \A q \in Posters : posting'[q] = "out" /\ msgid[p] < next_id
    BY <1>3 DEF Leave, OnePoster
  <2>2. ASSUME NEW r \in Requests, Unborn(r)' PROVE Unborn(r) /\ r # msgid[p]
    BY <1>1, <1>3, <2>1, <2>2 DEF Leave
  <2> QED
    BY <1>3, <2>2
<1>4. ASSUME NEW p \in Posters, NotRemembered(p) \/ Insert(p)
      PROVE  Clean'
  BY <1>3, <1>4 DEF NotRemembered, Insert
<1>5. ASSUME NEW p \in Posters, CheckSize(p)
      PROVE  Clean'
  BY <1>5 DEF CheckSize
<1>6. ASSUME UNCHANGED postVars, dmc_list' \subseteq dmc_list,
             \A r \in Requests \ dmc_list :
                Unborn(r) => /\ answered'[r] = answered[r]
                             /\ timedOut'[r] = timedOut[r]
                             /\ handling' = "found" => reply_id' # r
      PROVE  Clean'
  BY <1>6
<1>7. ASSUME NEW r \in Requests, CloudAnswers(r) \/ GrowOld(r)
      PROVE  Clean'
  BY <1>6, <1>7 DEF CloudAnswers, GrowOld
<1>8. ASSUME NEW r \in Requests, TimeOut(r)
      PROVE  Clean'
  <2>1. r \in dmc_list
    BY <1>8 DEF TimeOut
  <2> QED
    BY <1>6, <1>8, <2>1 DEF TimeOut, SendToUser
<1>9. ASSUME NEW t \in Receivers, NEW r \in Requests,
             AnswerFound(t, r) \/ AnswerUnknown(t, r)
      PROVE  Clean'
  BY <1>6, <1>9 DEF AnswerFound, AnswerUnknown, Search
<1>10. CASE TellAnswer
  BY <1>6, <1>10 DEF TellAnswer, SendToUser
<1>11. CASE Remove \/ \E t \in Receivers : ReceiveOther(t)
  BY <1>6, <1>11 DEF Remove, Remaining, ReceiveOther
<1>12. CASE StartTick \/ EndTick \/ Dispatch \/ EndDispatch
  BY <1>6, <1>12 DEF StartTick, EndTick, Dispatch, EndDispatch
<1>13. CASE UNCHANGED vars
  BY <1>6, <1>13 DEF vars
<1> QED
  BY <1>2, <1>4, <1>5, <1>7, <1>8, <1>9, <1>10, <1>11, <1>12, <1>13 DEF Next

-----------------------------------------------------------------------------
(* What was said of a request agrees with its place in the cache, and no   *)
(* second verdict follows the first.                                       *)
LEMMA StepKeepsVerdicts ==
    ASSUME UpstreamAssumption, Inv, [Next]_vars
    PROVE  Verdicts' /\ ToldOnce' /\ OneVerdict' /\ NodeStays'
<1> DEFINE Goal == Verdicts' /\ ToldOnce' /\ OneVerdict' /\ NodeStays'
<1> USE DEF Inv, Verdicts, ToldOnce, OneVerdict, NodeStays, replyVars, queueVars
<1>1. ASSUME NEW p \in Posters, Report(p) \/ NotRemembered(p) \/ CheckSize(p)
      PROVE  Goal
  BY <1>1 DEF Report, NotRemembered, CheckSize
<1>2. ASSUME NEW p \in Posters, Insert(p)
      PROVE  Goal
  <2>1. answered[msgid[p]] = 0 /\ timedOut[msgid[p]] = 0
    BY <1>2 DEF Insert, OnePoster, Clean, Unborn
  <2> QED
    BY <1>2, <2>1 DEF Insert
<1>3. ASSUME NEW r \in Requests, CloudAnswers(r) \/ GrowOld(r)
      PROVE  Goal
  BY <1>3 DEF CloudAnswers, GrowOld
<1>4. ASSUME NEW r \in Requests, TimeOut(r)
      PROVE  Goal
  <2>1. r \in dmc_list /\ stage = "tick" /\ receiver # Dispatcher
    BY <1>4 DEF TimeOut, TypeOK, OneReceiver
  <2>2. /\ dmc_list' = dmc_list \ {r}
        /\ UNCHANGED <<answered, handling, reply_id, receiver, foreign>>
        /\ timedOut' = timedOut \/ timedOut' = [timedOut EXCEPT ![r] = @ + 1]
    BY <1>4 DEF TimeOut, SendToUser
  <2>3. timedOut[r] = 0
    BY <2>1
  <2>4. r \notin foreign => answered[r] = 0
    BY <2>1
  <2>5. /\ \A q \in Requests : q # r => timedOut'[q] = timedOut[q]
        /\ timedOut'[r] \in {0, 1}
    BY <2>2, <2>3 DEF TypeOK
  <2>6. Verdicts' /\ NodeStays'
    BY <2>1, <2>2, <2>5 DEF TypeOK
  <2>7. ASSUME NEW q \in Requests
        PROVE  /\ answered'[q] <= 1 /\ timedOut'[q] <= 1
               /\ q \notin foreign' => answered'[q] + timedOut'[q] <= 1
    <3>1. answered'[q] = answered[q] /\ foreign' = foreign
      BY <2>2
    <3>2. answered[q] \in Nat /\ timedOut[q] \in Nat
      BY DEF TypeOK
    <3>3. /\ answered[q] <= 1 /\ timedOut[q] <= 1
          /\ q \notin foreign => answered[q] + timedOut[q] <= 1
      OBVIOUS
    <3> QED
      BY ONLY <2>4, <2>5, <3>1, <3>2, <3>3
  <2> QED
    BY <2>6, <2>7 DEF ToldOnce, OneVerdict
<1>5. ASSUME NEW t \in Receivers, NEW r \in Requests, AnswerFound(t, r)
      PROVE  Goal
  <2>1. /\ r \in dmc_list /\ handling' = "found" /\ reply_id' = r /\ receiver' = t
        /\ handling = "idle"
        /\ foreign' = IF t = Dispatcher THEN foreign ELSE foreign \cup {r}
        /\ UNCHANGED <<dmc_list, answered, timedOut>>
    BY <1>5 DEF AnswerFound, Search, MayRead, OneReceiver
  <2> QED
    BY <2>1
<1>6. ASSUME NEW t \in Receivers, NEW r \in Requests, AnswerUnknown(t, r)
      PROVE  Goal
  <2>1. /\ r \notin dmc_list /\ handling' = "told" /\ reply_id' = r
        /\ handling = "idle"
        /\ UNCHANGED <<dmc_list, answered, timedOut, foreign>>
    BY <1>6 DEF AnswerUnknown, Search, MayRead, OneReceiver
  <2> QED
    BY <2>1
<1>7. CASE TellAnswer
  <2>1. /\ handling = "found" /\ handling' = "told" /\ reply_id \in Requests
        /\ answered' = answered \/ answered' = [answered EXCEPT ![reply_id] = @ + 1]
        /\ UNCHANGED <<dmc_list, timedOut, reply_id, receiver, foreign>>
    BY <1>7 DEF TellAnswer, SendToUser, OneReceiver
  <2>2. reply_id \notin foreign => timedOut[reply_id] = 0
    BY <2>1
  <2> QED
    BY <2>1, <2>2 DEF TypeOK
<1>8. CASE Remove
  BY <1>8 DEF Remove, Remaining
<1>9. CASE \E t \in Receivers : ReceiveOther(t)
  BY <1>9 DEF ReceiveOther
<1>10. CASE StartTick \/ EndTick \/ Dispatch \/ EndDispatch
  BY <1>10 DEF StartTick, EndTick, Dispatch, EndDispatch
<1>11. CASE UNCHANGED vars
  BY <1>11 DEF vars
<1> QED
  BY <1>1, <1>2, <1>3, <1>4, <1>5, <1>6, <1>7, <1>8, <1>9, <1>10, <1>11 DEF Next

-----------------------------------------------------------------------------
LEMMA InitIsInv == UpstreamAssumption /\ Init => Inv
<1> SUFFICES ASSUME UpstreamAssumption, Init PROVE Inv
  OBVIOUS
<1>1. TypeOK
  BY DEF Init, TypeOK, UpstreamAssumption
<1>2. CacheBounded
  BY FS_EmptySet DEF Init, CacheBounded, UpstreamAssumption
<1>3. OnePoster /\ Clean /\ OneReceiver
  BY DEF Init, OnePoster, Clean, OneReceiver, UpstreamAssumption
<1>4. Verdicts /\ ToldOnce /\ OneVerdict /\ NodeStays
  BY DEF Init, Verdicts, ToldOnce, OneVerdict, NodeStays
<1> QED
  BY <1>1, <1>2, <1>3, <1>4 DEF Inv

LEMMA Invariance == ASSUME UpstreamAssumption PROVE Spec => []Inv
<1>1. Init => Inv
  BY InitIsInv
<1>2. Inv /\ [Next]_vars => Inv'
  BY StepKeepsTypes, StepKeepsOnePoster, StepKeepsClean, StepKeepsOneReceiver,
     StepKeepsVerdicts DEF Inv
<1> QED
  BY <1>1, <1>2, PTL DEF Spec

(* Every variable keeps its type.                                          *)
THEOREM TypeCorrect == ASSUME UpstreamAssumption PROVE Spec => []TypeOK
<1>1. Inv => TypeOK
  BY DEF Inv
<1> QED
  BY <1>1, Invariance, PTL

(* The message cache never holds more than CONFIG_MSGCACHE_QUEUE_MAXLEN    *)
(* requests, though dm_msg_cache_insert compares outside of its mutex: the *)
(* linkkit mutex makes up for it, for any number of threads.               *)
THEOREM CacheStaysBounded == ASSUME UpstreamAssumption PROVE Spec => []CacheBounded
<1>1. Inv => CacheBounded
  BY DEF Inv
<1> QED
  BY <1>1, Invariance, PTL

(* No reply and no timeout is passed on to the user twice, and one of each *)
(* only if another thread than the dispatcher handled the reply.           *)
THEOREM UserToldOnce ==
    ASSUME UpstreamAssumption PROVE Spec => [](ToldOnce /\ OneVerdict)
<1>1. Inv => ToldOnce /\ OneVerdict
  BY DEF Inv
<1> QED
  BY <1>1, Invariance, PTL

(* The node the dispatcher found stays in the cache while it is used.      *)
THEOREM FoundNodeStays == ASSUME UpstreamAssumption PROVE Spec => []NodeStays
<1>1. Inv => NodeStays
  BY DEF Inv
<1> QED
  BY <1>1, Invariance, PTL

-----------------------------------------------------------------------------
(* The cache and the queue keep what RequestPromise promises.              *)

Posting(r) == \E p \in Posters : posting[p] # "out" /\ msgid[p] = r
Heard == told \cup (Queued \cap Requests)

(* How the verdicts follow the requests: none before the request is in the *)
(* cache but a reply that came too early, and none is out while the        *)
(* request is in the cache but that of the reply which is being handled.   *)
Follows ==
    /\ \A r \in answers : r < next_id
    /\ \A r \in Requests : Unborn(r) => r \notin Heard \cup dropped
    /\ handling = "told" /\ Unborn(reply_id) => reply_id \in early
    /\ handling = "told" /\ reply_id \in dmc_list =>
          reply_id \in Heard \cup dropped \cup early
    /\ handling = "found" /\ reply_id \notin dmc_list => reply_id \in Heard \cup dropped
    /\ \A r \in dmc_list \cap Heard : handling = "told" /\ reply_id = r

(* What an offer adds to the queue, and the dispatcher takes out of it.    *)
LEMMA OfferQueued ==
    ASSUME TypeOK, NEW e, Offer(e)
    PROVE  Queued' = IF QueueFull THEN Queued ELSE Queued \cup {e}
<1>1. CASE QueueFull
  BY <1>1 DEF Offer, Queued
<1>2. CASE ~QueueFull
  <2>1. message_list' = Append(message_list, e) /\ Len(message_list) \in Nat
    BY <1>2 DEF Offer, TypeOK
  <2>2. /\ DOMAIN message_list' = 1 .. Len(message_list) + 1
        /\ DOMAIN message_list = 1 .. Len(message_list)
        /\ \A i \in 1 .. Len(message_list) : message_list'[i] = message_list[i]
        /\ message_list'[Len(message_list) + 1] = e
    BY <2>1 DEF TypeOK
  <2>3. \A i \in 1 .. Len(message_list) + 1 :
           i \in 1 .. Len(message_list) \/ i = Len(message_list) + 1
    BY <2>1
  <2>4. /\ \A i \in 1 .. Len(message_list) : i \in 1 .. Len(message_list) + 1
        /\ Len(message_list) + 1 \in 1 .. Len(message_list) + 1
    BY <2>1
  <2> QED
    BY <1>2, <2>2, <2>3, <2>4 DEF Queued
<1> QED
  BY <1>1, <1>2

LEMMA TailQueued ==
    ASSUME TypeOK, message_list # <<>>, message_list' = Tail(message_list)
    PROVE  Queued = Queued' \cup {Head(message_list)}
<1>1. /\ Len(message_list) \in Nat \ {0} /\ Len(message_list) - 1 \in Nat
      /\ DOMAIN message_list = 1 .. Len(message_list)
      /\ DOMAIN message_list' = 1 .. Len(message_list) - 1
      /\ \A i \in 1 .. Len(message_list) - 1 : message_list'[i] = message_list[i + 1]
      /\ Head(message_list) = message_list[1]
  BY DEF TypeOK
<1>2. ASSUME NEW i \in 1 .. Len(message_list)
      PROVE  i = 1 \/ (i - 1 \in 1 .. Len(message_list) - 1 /\ (i - 1) + 1 = i)
  BY <1>1
<1>3. Queued \subseteq Queued' \cup {Head(message_list)}
  <2> SUFFICES ASSUME NEW i \in 1 .. Len(message_list), i # 1
               PROVE  message_list[i] \in Queued'
    BY <1>1 DEF Queued
  <2> DEFINE j == i - 1
  <2>1. j \in 1 .. Len(message_list) - 1 /\ j + 1 = i
    BY <1>2
  <2>2. message_list[i] = message_list'[j]
    BY <1>1, <2>1
  <2> HIDE DEF j
  <2> QED
    BY <1>1, <2>1, <2>2 DEF Queued
<1>4. \A i \in 1 .. Len(message_list) - 1 : i + 1 \in 1 .. Len(message_list)
  BY <1>1
<1>5. Head(message_list) \in Queued
  BY <1>1 DEF Queued
<1>6. Queued' \subseteq Queued
  <2> SUFFICES ASSUME NEW i \in 1 .. Len(message_list) - 1
               PROVE  message_list'[i] \in Queued
    BY <1>1 DEF Queued
  <2>1. message_list'[i] = message_list[i + 1] /\ i + 1 \in DOMAIN message_list
    BY <1>1, <1>4
  <2> QED
    BY <2>1 DEF Queued
<1> QED
  BY <1>3, <1>5, <1>6

(* A report only turns requests from unborn to born.                       *)
LEMMA BornStays ==
    ASSUME UpstreamAssumption, Inv, [Next]_vars, NEW r \in Requests, Unborn(r)'
    PROVE  Unborn(r)
<1> USE DEF Inv, Unborn, postVars, TypeOK
<1>1. next_id \in Nat \ {0} /\ r \in Nat
  BY DEF Requests
<1>2. ASSUME NEW p \in Posters, Report(p)
      PROVE  Unborn(r)
  <2>1. /\ next_id' = next_id + 1
        /\ posting' = [posting EXCEPT ![p] = "sent"]
        /\ msgid' = [msgid EXCEPT ![p] = next_id]
    BY <1>2 DEF Report
  <2> QED
    BY <1>1, <2>1
<1>3. ASSUME NEW p \in Posters, NotRemembered(p) \/ Insert(p)
      PROVE  Unborn(r)
  <2>1. Leave(p)
    BY <1>3 DEF NotRemembered, Insert
  <2> QED
    BY <2>1 DEF Leave
<1>4. ASSUME NEW p \in Posters, CheckSize(p)
      PROVE  Unborn(r)
  BY <1>4 DEF CheckSize
<1>5. CASE UNCHANGED <<posting, msgid, next_id>>
  BY <1>5
<1>6. ASSUME NEW q \in Requests, CloudAnswers(q) \/ GrowOld(q) \/ TimeOut(q)
      PROVE  Unborn(r)
  BY <1>5, <1>6 DEF CloudAnswers, GrowOld, TimeOut
<1>7. ASSUME NEW t \in Receivers,
             \/ ReceiveOther(t)
             \/ \E q \in Requests : AnswerFound(t, q) \/ AnswerUnknown(t, q)
      PROVE  Unborn(r)
  BY <1>5, <1>7 DEF ReceiveOther, AnswerFound, AnswerUnknown
<1>8. CASE TellAnswer \/ Remove
  BY <1>5, <1>8 DEF TellAnswer, Remove
<1>9. CASE StartTick \/ EndTick \/ Dispatch \/ EndDispatch
  BY <1>5, <1>9 DEF StartTick, EndTick, Dispatch, EndDispatch
<1>10. CASE UNCHANGED vars
  BY <1>5, <1>10 DEF vars
<1> QED
  BY <1>2, <1>3, <1>4, <1>6, <1>7, <1>8, <1>9, <1>10 DEF Next

LEMMA StepFollows ==
    ASSUME UpstreamAssumption, Inv, Follows, [Next]_vars
    PROVE  Follows'
<1> USE DEF postVars, replyVars, queueVars, dispatchVars
<1>0. \A r \in Requests : Unborn(r)' => Unborn(r)
  BY BornStays
<1>1. TypeOK /\ Clean /\ OneReceiver /\ (handling # "idle" => reply_id \in Requests)
  BY DEF Inv, OneReceiver
<1>2. ASSUME Heard' = Heard, UNCHANGED <<dropped, handling, reply_id, early, dmc_list>>,
             \A r \in answers' : r < next_id'
      PROVE  Follows'
  BY <1>0, <1>1, <1>2 DEF Follows
<1>3. ASSUME UNCHANGED <<told, message_list>>
      PROVE  Heard' = Heard
  BY <1>3 DEF Heard, Queued
<1>4. ASSUME NEW p \in Posters, Report(p)
      PROVE  Follows'
  <2>1. \A r \in answers' : r < next_id'
    <3>1. answers' = answers /\ next_id' = next_id + 1 /\ next_id \in Nat
      BY <1>1, <1>4 DEF Report, TypeOK
    <3>2. \A r \in answers : r \in Nat /\ r < next_id
      BY <1>1 DEF Follows, TypeOK, Requests
    <3> QED
      BY <3>1, <3>2
  <2> QED
    BY <1>2, <1>3, <1>4, <2>1 DEF Report
<1>5. ASSUME NEW p \in Posters, NotRemembered(p) \/ CheckSize(p)
      PROVE  Follows'
  BY <1>2, <1>3, <1>5 DEF NotRemembered, CheckSize, Leave, Follows
<1>6. ASSUME NEW p \in Posters, Insert(p)
      PROVE  Follows'
  <2>1. /\ dmc_list' = dmc_list \cup {msgid[p]} /\ next_id' = next_id
        /\ UNCHANGED <<answers, told, message_list, dropped, handling, reply_id, early>>
    BY <1>6 DEF Insert, Leave
  <2>2. msgid[p] \in Requests /\ Unborn(msgid[p])
    BY <1>6 DEF Insert, Inv, OnePoster, Unborn
  <2>3. Heard' = Heard
    BY <1>3, <2>1
  <2> QED
    BY <1>0, <1>1, <2>1, <2>2, <2>3 DEF Follows
<1>7. ASSUME NEW r \in Requests, CloudAnswers(r) \/ GrowOld(r)
      PROVE  Follows'
  BY <1>2, <1>3, <1>7 DEF CloudAnswers, GrowOld, Follows
<1>8. ASSUME NEW r \in Requests, TimeOut(r)
      PROVE  Follows'
  <2>1. /\ r \in dmc_list /\ dmc_list' = dmc_list \ {r}
        /\ Offer(r)
        /\ dropped' = IF QueueFull THEN dropped \cup {r} ELSE dropped
        /\ UNCHANGED <<answers, next_id, told, handling, reply_id, early>>
    BY <1>1, <1>8 DEF TimeOut, SendToUser, TypeOK
  <2>2. ~Unborn(r)
    BY <1>1, <2>1 DEF Clean
  <2>3. Heard' = IF QueueFull THEN Heard ELSE Heard \cup {r}
    BY <1>1, <2>1, OfferQueued DEF Heard
  <2> QED
    BY <1>0, <1>1, <2>1, <2>2, <2>3 DEF Follows
<1>9. ASSUME NEW t \in Receivers, ReceiveOther(t)
      PROVE  Follows'
  <2>1. Offer(Other) /\ told' = told
    BY <1>9 DEF ReceiveOther
  <2>2. Other \notin Requests
    BY DEF Other, Requests
  <2>3. Heard' = Heard
    BY <1>1, <2>1, <2>2, OfferQueued DEF Heard
  <2> QED
    BY <1>2, <1>9, <2>3 DEF ReceiveOther, Follows
<1>10. ASSUME NEW t \in Receivers, NEW r \in Requests, AnswerFound(t, r)
       PROVE  Follows'
  <2>1. /\ handling = "idle" /\ handling' = "found" /\ reply_id' = r /\ r \in dmc_list
        /\ answers' \subseteq answers
        /\ UNCHANGED <<dmc_list, next_id, told, message_list, dropped, early>>
    BY <1>1, <1>10 DEF AnswerFound, Search, MayRead, OneReceiver
  <2>2. Heard' = Heard
    BY <1>3, <2>1
  <2> QED
    BY <1>0, <1>1, <2>1, <2>2 DEF Follows
<1>11. ASSUME NEW t \in Receivers, NEW r \in Requests, AnswerUnknown(t, r)
       PROVE  Follows'
  <2>1. /\ handling = "idle" /\ handling' = "told" /\ reply_id' = r /\ r \notin dmc_list
        /\ answers' \subseteq answers /\ r \in answers
        /\ early' = IF Posting(r) THEN early \cup {r} ELSE early
        /\ UNCHANGED <<dmc_list, next_id, posting, msgid, told, message_list, dropped>>
    BY <1>1, <1>11 DEF AnswerUnknown, Search, MayRead, OneReceiver, Posting
  <2>2. Heard' = Heard
    BY <1>3, <2>1
  <2>3. Unborn(r) => Posting(r)
    <3>1. r < next_id /\ r \in Nat /\ next_id \in Nat
      BY <1>1, <2>1 DEF Follows, TypeOK, Requests
    <3> QED
      BY <3>1 DEF Unborn, Posting
  <2> QED
    BY <1>0, <1>1, <2>1, <2>2, <2>3 DEF Follows
<1>12. CASE TellAnswer
  <2>1. /\ handling = "found" /\ handling' = "told" /\ reply_id \in Requests
        /\ Offer(reply_id)
        /\ dropped' = IF QueueFull THEN dropped \cup {reply_id} ELSE dropped
        /\ UNCHANGED <<answers, next_id, dmc_list, told, reply_id, early>>
    BY <1>1, <1>12 DEF TellAnswer, SendToUser
  <2>2. ~Unborn(reply_id)
    BY <1>1, <2>1 DEF Clean
  <2>3. Heard' = IF QueueFull THEN Heard ELSE Heard \cup {reply_id}
    BY <1>1, <2>1, OfferQueued DEF Heard
  <2> QED
    BY <1>0, <1>1, <2>1, <2>2, <2>3 DEF Follows
<1>13. CASE Remove
  <2>1. /\ handling = "told" /\ handling' = "idle" /\ dmc_list' = dmc_list \ {reply_id}
        /\ UNCHANGED <<answers, next_id, told, message_list, dropped, early>>
    BY <1>13 DEF Remove, Remaining
  <2>2. Heard' = Heard
    BY <1>3, <2>1
  <2> QED
    BY <1>0, <1>1, <2>1, <2>2 DEF Follows
<1>14. CASE StartTick \/ EndTick \/ EndDispatch
  BY <1>2, <1>3, <1>14 DEF StartTick, EndTick, EndDispatch, Follows
<1>15. CASE Dispatch
  <2>1. /\ message_list # <<>> /\ message_list' = Tail(message_list)
        /\ told' = IF Head(message_list) = Other THEN told
                   ELSE told \cup {Head(message_list)}
    BY <1>15 DEF Dispatch, MoreToDispatch
  <2>2. Queued = Queued' \cup {Head(message_list)}
    BY <1>1, <2>1, TailQueued
  <2>3. Head(message_list) \in Requests \cup {Other} /\ Other \notin Requests
    BY <1>1, <2>1 DEF TypeOK, Other, Requests
  <2>4. Heard' = Heard
    BY <2>1, <2>2, <2>3 DEF Heard
  <2> QED
    BY <1>2, <1>15, <2>4 DEF Dispatch, Follows
<1>16. CASE UNCHANGED vars
  BY <1>2, <1>3, <1>16 DEF vars, Follows
<1> QED
  BY <1>4, <1>5, <1>6, <1>7, <1>8, <1>9, <1>10, <1>11, <1>12, <1>13, <1>14, <1>15, <1>16
  DEF Next


(* Where a request is that has been born.                                  *)
LEMMA PlaceBorn ==
    ASSUME NEW r, ~Unborn(r)
    PROVE  Place(r) = IF r \in told THEN "told"
                      ELSE IF r \in Queued THEN "passed"
                      ELSE IF r \in dmc_list THEN "kept"
                      ELSE IF r \in dropped THEN "lost"
                      ELSE IF r \in early THEN "overtaken"
                      ELSE "forgotten"
BY DEF Place, Unborn

(* A request that nothing happens to stays where it is.                    *)
LEMMA PlaceStays ==
    ASSUME NEW r,
           (r >= next_id)' <=> r >= next_id, Posting(r)' <=> Posting(r),
           (r \in told)' <=> r \in told, (r \in Queued)' <=> r \in Queued,
           (r \in dmc_list)' <=> r \in dmc_list, (r \in dropped)' <=> r \in dropped,
           (r \in early)' <=> r \in early
    PROVE  Place(r)' = Place(r)
BY DEF Place, Posting

(* Either no request changes its place, or one does.                       *)
LEMMA NoneMoves ==
    ASSUME \A r \in Requests : Place(r)' = Place(r), UNCHANGED <<early, foreign>>
    PROVE  UNCHANGED Promise!vars
BY DEF Promise!vars, places

LEMMA OneMoves ==
    ASSUME NEW r \in Requests, NEW from, NEW to, Place(r) = from, Place(r)' = to,
           \A q \in Requests \ {r} : Place(q)' = Place(q), UNCHANGED <<early, foreign>>
    PROVE  Promise!Move(r, from, to)
BY DEF Promise!Move, places

(* Every step is one of RequestPromise, or none.                           *)
LEMMA PosterPromises ==
    ASSUME UpstreamAssumption, Inv, Follows, NEW p \in Posters,
           Report(p) \/ NotRemembered(p) \/ CheckSize(p) \/ Insert(p)
    PROVE  [Promise!Next]_Promise!vars
<1> USE DEF postVars, replyVars, queueVars, dispatchVars
<1>0. TypeOK /\ OnePoster /\ Clean
  BY DEF Inv
<1>1. CASE Report(p)
  <2>0. PICK r \in Requests : r = next_id
    BY <1>0, <1>1 DEF Report, TypeOK, Requests, UpstreamAssumption
  <2>1. /\ next_id' = next_id + 1 /\ next_id \in Nat
        /\ posting' = [posting EXCEPT ![p] = "sent"]
        /\ msgid' = [msgid EXCEPT ![p] = r]
        /\ UNCHANGED <<told, message_list, dmc_list, dropped, early, foreign>>
    BY <1>0, <1>1, <2>0 DEF Report, TypeOK
  <2>2. \A q \in Posters : posting[q] = "out"
    BY <1>0, <1>1 DEF Report, Enter, OnePoster, UpstreamAssumption
  <2>3. posting'[p] = "sent" /\ msgid'[p] = r
    BY <1>0, <2>1 DEF TypeOK
  <2>4. \A q \in Posters \ {p} : posting'[q] = "out"
    BY <1>0, <2>1, <2>2 DEF TypeOK
  <2>5. Place(r) = "new" /\ Place(r)' = "sent"
    BY <2>0, <2>1, <2>3 DEF Place
  <2>6. ASSUME NEW q \in Requests \ {r} PROVE Place(q)' = Place(q)
    <3>1. (q >= next_id)' <=> q >= next_id
      BY <2>0, <2>1 DEF Requests
    <3>2. ~Posting(q) /\ ~Posting(q)'
      BY <2>2, <2>3, <2>4 DEF Posting
    <3>3. Queued' = Queued
      BY <2>1 DEF Queued
    <3> QED
      BY <2>1, <3>1, <3>2, <3>3, PlaceStays
  <2>7. Promise!Send(r)
    BY <2>1, <2>5, <2>6, OneMoves DEF Promise!Send
  <2> QED
    BY <2>1, <2>7 DEF Promise!Next
<1>2. ASSUME NotRemembered(p) \/ Insert(p)
      PROVE  [Promise!Next]_Promise!vars
  <2>0. PICK r \in Requests : r = msgid[p] /\ posting[p] # "out"
    BY <1>0, <1>2 DEF NotRemembered, Insert, OnePoster
  <2>1. /\ Leave(p) /\ posting[p] # "out" /\ next_id' = next_id
        /\ UNCHANGED <<told, message_list, dropped, early, foreign>>
        /\ dmc_list' = dmc_list \/ (Insert(p) /\ dmc_list' = dmc_list \cup {r})
    BY <1>2, <2>0 DEF NotRemembered, Insert, Leave
  <2>2. /\ r < next_id /\ r \in Nat /\ next_id \in Nat
        /\ \A q \in Posters : posting[q] # "out" => q = p
    BY <1>0, <2>0, <2>1 DEF OnePoster, TypeOK, Requests
  <2>3. Posting(r) /\ Unborn(r)
    BY <2>0 DEF Posting, Unborn
  <2>4. \A q \in Posters : posting'[q] = "out"
    BY <1>0, <2>1, <2>2 DEF Leave, TypeOK
  <2>5. Queued' = Queued
    BY <2>1 DEF Queued
  <2>6. Place(r) = "sent"
    BY <2>2, <2>3 DEF Place, Posting
  <2>7. ASSUME NEW q \in Requests \ {r} PROVE Place(q)' = Place(q)
    <3>1. ~Posting(q) /\ ~Posting(q)'
      BY <2>0, <2>2, <2>4 DEF Posting
    <3> QED
      BY <2>0, <2>1, <2>5, <3>1, PlaceStays
  <2>8. r \notin told' /\ r \notin Queued' /\ r \notin dmc_list /\ r \notin dropped'
    BY <1>0, <2>1, <2>2, <2>3, <2>5 DEF Follows, Heard, Clean
  <2>9. ~Unborn(r)'
    BY <2>1, <2>2, <2>4 DEF Unborn
  <2>10. ASSUME NEW to, Place(r)' = to PROVE Promise!Move(r, "sent", to)
    BY <2>1, <2>2, <2>6, <2>7, <2>10, OneMoves
  <2>11. Place(r)' = IF r \in dmc_list' THEN "kept"
                     ELSE IF r \in early THEN "overtaken" ELSE "forgotten"
    BY <2>1, <2>2, <2>4, <2>8 DEF Place
  <2>12. \/ Promise!Keep(r) \/ Promise!Forget(r) \/ Promise!Overtake(r)
    BY <2>1, <2>10, <2>11 DEF Promise!Keep, Promise!Forget, Promise!Overtake
  <2> QED
    BY <2>12 DEF Promise!Next
<1>3. CASE CheckSize(p)
  <2>1. /\ posting' = [posting EXCEPT ![p] = "checked"] /\ posting[p] # "out"
        /\ UNCHANGED <<msgid, next_id, told, message_list, dmc_list, dropped, early, foreign>>
    BY <1>3 DEF CheckSize
  <2>2. \A q \in Posters : posting'[q] # "out" <=> posting[q] # "out"
    BY <1>0, <2>1 DEF TypeOK
  <2>3. \A q \in Requests : Posting(q)' <=> Posting(q)
    BY <2>1, <2>2 DEF Posting
  <2>4. Queued' = Queued
    BY <2>1 DEF Queued
  <2> QED
    BY <2>1, <2>3, <2>4, PlaceStays, NoneMoves
<1> QED
  BY <1>1, <1>2, <1>3

LEMMA ReplyPromises ==
    ASSUME UpstreamAssumption, Inv, Follows, NEW t \in Receivers, NEW r \in Requests,
           AnswerFound(t, r) \/ AnswerUnknown(t, r)
    PROVE  [Promise!Next]_Promise!vars
<1> USE DEF postVars, replyVars, queueVars, dispatchVars
<1>0. TypeOK /\ Clean /\ OneReceiver
  BY DEF Inv
<1>1. /\ handling = "idle" /\ r \in answers
      /\ UNCHANGED <<next_id, posting, msgid, told, message_list, dmc_list, dropped>>
  BY <1>0 DEF AnswerFound, AnswerUnknown, Search, MayRead, OneReceiver
<1>2. ASSUME NEW q \in Requests, (q \in early)' <=> q \in early
      PROVE  Place(q)' = Place(q)
  BY <1>1, <1>2, PlaceStays DEF Posting, Queued
<1>3. CASE AnswerFound(t, r)
  <2>1. r \in dmc_list /\ early' = early /\ foreign' \in {foreign, foreign \cup {r}}
    BY <1>3 DEF AnswerFound
  <2>2. ~Unborn(r)
    BY <1>0, <2>1 DEF Clean
  <2>3. r \notin told /\ r \notin Queued
    BY <1>1, <2>1 DEF Follows, Heard
  <2>4. Place(r) = "kept"
    BY <2>1, <2>2, <2>3, PlaceBorn
  <2>5. places' = places /\ places[r] = "kept"
    BY <1>2, <2>1, <2>4 DEF places
  <2>6. CASE foreign' = foreign
    BY <2>1, <2>5, <2>6 DEF Promise!vars
  <2>7. CASE foreign' = foreign \cup {r}
    BY <2>1, <2>5, <2>7 DEF Promise!Next, Promise!ReadElsewhere
  <2> QED
    BY <2>1, <2>6, <2>7
<1>4. CASE AnswerUnknown(t, r)
  <2>1. /\ foreign' = foreign
        /\ early' = IF Posting(r) THEN early \cup {r} ELSE early
    BY <1>4 DEF AnswerUnknown, Posting
  <2>2. CASE Posting(r)
    <3>1. r < next_id /\ r \in Nat /\ next_id \in Nat
      BY <1>0, <1>1 DEF Follows, TypeOK, Requests
    <3>2. Place(r) = "sent" /\ Place(r)' = "sent"
      BY <1>1, <2>2, <3>1 DEF Place, Posting
    <3>3. \A q \in Requests \ {r} : (q \in early)' <=> q \in early
      BY <2>1
    <3>4. \A q \in Requests : Place(q)' = Place(q)
      BY <1>2, <3>2, <3>3
    <3>5. places' = places /\ places[r] = "sent"
      BY <3>2, <3>4 DEF places
    <3> QED
      BY <2>1, <2>2, <3>5 DEF Promise!Next, Promise!AnswerTooSoon
  <2>3. CASE ~Posting(r)
    BY <1>2, <2>1, <2>3, NoneMoves
  <2> QED
    BY <2>2, <2>3
<1> QED
  BY <1>3, <1>4

(* A verdict on a request: TellAnswer and TimeOut alike.                   *)
LEMMA VerdictPromises ==
    ASSUME Inv, NEW r \in Requests, ~Unborn(r), Offer(r),
           dropped' = IF QueueFull THEN dropped \cup {r} ELSE dropped,
           dmc_list' \in {dmc_list, dmc_list \ {r}},
           dmc_list' # dmc_list => r \in dmc_list,
           UNCHANGED <<next_id, posting, msgid, told, early, foreign>>,
           r \notin dmc_list => r \in told \cup Queued \/ (r \in dropped /\ r \in foreign),
           r \in dmc_list /\ dmc_list' = dmc_list => r \notin told \cup Queued
    PROVE  [Promise!Next]_Promise!vars
<1>1. Queued' = IF QueueFull THEN Queued ELSE Queued \cup {r}
  BY OfferQueued DEF Inv
<1>2. \A q \in Requests : Posting(q)' <=> Posting(q)
  BY DEF Posting
<1>3. ASSUME NEW q \in Requests \ {r} PROVE Place(q)' = Place(q)
  BY <1>1, <1>2, PlaceStays
<1>4. ~Unborn(r)'
  BY DEF Unborn
<1>5. Place(r) = IF r \in told THEN "told"
                 ELSE IF r \in Queued THEN "passed"
                 ELSE IF r \in dmc_list THEN "kept"
                 ELSE "lost"
  BY PlaceBorn
<1>6. Place(r)' = IF r \in told THEN "told"
                  ELSE IF r \in Queued' THEN "passed"
                  ELSE IF r \in dmc_list' THEN "kept"
                  ELSE IF r \in dropped' THEN "lost"
                  ELSE IF r \in early THEN "overtaken"
                  ELSE "forgotten"
  BY <1>4, PlaceBorn DEF Place, Unborn
<1>7. CASE Place(r)' = Place(r)
  BY <1>3, <1>7, NoneMoves
<1>8. CASE Place(r)' # Place(r)
  <2>1. \/ Place(r) = "kept" /\ Place(r)' = "passed"
        \/ Place(r) = "kept" /\ Place(r)' = "lost"
        \/ r \in foreign /\ Place(r) = "lost" /\ Place(r)' = "passed"
    BY <1>1, <1>5, <1>6, <1>8
  <2>2. \/ Promise!Move(r, "kept", "passed")
        \/ Promise!Move(r, "kept", "lost")
        \/ r \in foreign /\ Promise!Move(r, "lost", "passed")
    BY <1>3, <2>1, OneMoves
  <2> QED
    BY <2>2 DEF Promise!Next, Promise!Pass, Promise!Lose
<1> QED
  BY <1>7, <1>8

LEMMA CachePromises ==
    ASSUME UpstreamAssumption, Inv, Follows,
           \/ TellAnswer \/ Remove \/ Dispatch
           \/ \E r \in Requests : TimeOut(r)
           \/ \E t \in Receivers : ReceiveOther(t)
    PROVE  [Promise!Next]_Promise!vars
<1> USE DEF postVars, replyVars, queueVars, dispatchVars
<1>0. TypeOK /\ Clean /\ OneReceiver /\ Verdicts /\ NodeStays
  BY DEF Inv
<1>1. CASE TellAnswer
  <2>1. /\ handling = "found" /\ reply_id \in Requests /\ Offer(reply_id)
        /\ dropped' = IF QueueFull THEN dropped \cup {reply_id} ELSE dropped
        /\ UNCHANGED <<next_id, posting, msgid, dmc_list, told, early, foreign>>
    BY <1>0, <1>1 DEF TellAnswer, SendToUser, OneReceiver
  <2>2. ~Unborn(reply_id)
    BY <1>0, <2>1 DEF Clean
  <2>3. reply_id \notin dmc_list => reply_id \in Heard \cup dropped /\ reply_id \in foreign
    BY <1>0, <2>1 DEF Follows, Verdicts, NodeStays
  <2>4. reply_id \in dmc_list => reply_id \notin Heard
    BY <2>1 DEF Follows
  <2> QED
    BY <2>1, <2>2, <2>3, <2>4, VerdictPromises DEF Heard
<1>2. ASSUME NEW r \in Requests, TimeOut(r)
      PROVE  [Promise!Next]_Promise!vars
  <2>1. /\ r \in dmc_list /\ dmc_list' = dmc_list \ {r} /\ Offer(r)
        /\ dropped' = IF QueueFull THEN dropped \cup {r} ELSE dropped
        /\ UNCHANGED <<next_id, posting, msgid, told, early, foreign>>
    BY <1>0, <1>2 DEF TimeOut, SendToUser, TypeOK
  <2>2. ~Unborn(r)
    BY <1>0, <2>1 DEF Clean
  <2>3. dmc_list' # dmc_list
    BY <2>1
  <2> QED
    BY <2>1, <2>2, <2>3, VerdictPromises
<1>3. CASE Remove
  <2>1. /\ handling = "told" /\ dmc_list' = dmc_list \ {reply_id} /\ reply_id \in Requests
        /\ UNCHANGED <<next_id, posting, msgid, told, message_list, dropped, early, foreign>>
    BY <1>0, <1>3 DEF Remove, Remaining, OneReceiver
  <2>2. Queued' = Queued /\ \A q \in Requests : Posting(q)' <=> Posting(q)
    BY <2>1 DEF Queued, Posting
  <2>3. PICK r \in Requests : r = reply_id
    BY <2>1
  <2>4. ASSUME NEW q \in Requests \ {r} PROVE Place(q)' = Place(q)
    BY <2>1, <2>2, <2>3, PlaceStays
  <2>5. CASE r \notin dmc_list
    <3>1. dmc_list' = dmc_list
      BY <2>1, <2>3, <2>5
    <3>2. \A q \in Requests : Place(q)' = Place(q)
      BY <2>1, <2>2, <3>1, PlaceStays
    <3> QED
      BY <2>1, <3>2, NoneMoves
  <2>6. CASE r \in dmc_list
    <3>1. ~Unborn(r) /\ ~Unborn(r)'
      BY <1>0, <2>1, <2>6 DEF Clean, Unborn
    <3>2. r \in Heard \cup dropped \cup early
      BY <2>1, <2>3, <2>6 DEF Follows
    <3>3. Place(r) = IF r \in told THEN "told"
                     ELSE IF r \in Queued THEN "passed" ELSE "kept"
      BY <2>6, <3>1, PlaceBorn
    <3>4. Place(r)' = IF r \in told THEN "told"
                      ELSE IF r \in Queued THEN "passed"
                      ELSE IF r \in dropped THEN "lost" ELSE "overtaken"
      BY <2>1, <2>2, <2>3, <3>1, <3>2 DEF Place, Unborn, Heard
    <3>5. CASE r \in told \cup Queued
      BY <2>1, <2>4, <3>3, <3>4, <3>5, NoneMoves
    <3>6. CASE r \notin told \cup Queued
      <4>1. /\ Place(r) = "kept"
            /\ Place(r)' = "lost" \/ (r \in early /\ Place(r)' = "overtaken")
        BY <3>2, <3>3, <3>4, <3>6 DEF Heard
      <4>2. \/ Promise!Move(r, "kept", "lost")
            \/ r \in early /\ Promise!Move(r, "kept", "overtaken")
        BY <2>1, <2>4, <4>1, OneMoves
      <4> QED
        BY <4>2 DEF Promise!Next, Promise!Lose, Promise!Overtake
    <3> QED
      BY <3>5, <3>6
  <2> QED
    BY <2>5, <2>6
<1>4. CASE Dispatch
  <2>1. /\ message_list # <<>> /\ message_list' = Tail(message_list)
        /\ told' = IF Head(message_list) = Other THEN told
                   ELSE told \cup {Head(message_list)}
        /\ UNCHANGED <<next_id, posting, msgid, dmc_list, dropped, early, foreign>>
    BY <1>4 DEF Dispatch, MoreToDispatch
  <2>2. Queued = Queued' \cup {Head(message_list)}
    BY <1>0, <2>1, TailQueued
  <2>3. PICK h \in Requests \cup {Other} : h = Head(message_list)
    BY <1>0, <2>1 DEF TypeOK
  <2>4. \A q \in Requests : Posting(q)' <=> Posting(q)
    BY <2>1 DEF Posting
  <2>5. ASSUME NEW q \in Requests \ {h} PROVE Place(q)' = Place(q)
    BY <2>1, <2>2, <2>3, <2>4, PlaceStays
  <2>6. CASE h \notin Requests
    BY <2>1, <2>5, <2>6, NoneMoves
  <2>7. CASE h \in Requests
    <3>1. h # Other
      BY <2>7 DEF Other, Requests
    <3>2. h \in Queued /\ told' = told \cup {h}
      BY <2>1, <2>2, <2>3, <3>1
    <3>3. ~Unborn(h) /\ ~Unborn(h)'
      BY <2>1, <2>7, <3>2 DEF Follows, Heard, Unborn
    <3>4. Place(h) = IF h \in told THEN "told" ELSE "passed"
      BY <3>2, <3>3, PlaceBorn
    <3>5. Place(h)' = "told"
      BY <3>2, <3>3 DEF Place, Unborn
    <3>6. CASE Place(h) = "told"
      BY <2>1, <2>5, <3>5, <3>6, NoneMoves
    <3>7. CASE Place(h) = "passed"
      BY <2>1, <2>5, <2>7, <3>5, <3>7, OneMoves DEF Promise!Next, Promise!Hear
    <3> QED
      BY <3>4, <3>6, <3>7
  <2> QED
    BY <2>6, <2>7
<1>5. ASSUME NEW t \in Receivers, ReceiveOther(t)
      PROVE  [Promise!Next]_Promise!vars
  <2>1. /\ Offer(Other)
        /\ UNCHANGED <<next_id, posting, msgid, dmc_list, told, dropped, early, foreign>>
    BY <1>5 DEF ReceiveOther
  <2>2. \A q \in Requests : (q \in Queued)' <=> q \in Queued
    BY <1>0, <2>1, OfferQueued DEF Other, Requests
  <2>3. \A q \in Requests : Posting(q)' <=> Posting(q)
    BY <2>1 DEF Posting
  <2> QED
    BY <2>1, <2>2, <2>3, PlaceStays, NoneMoves
<1> QED
  BY <1>1, <1>2, <1>3, <1>4, <1>5

LEMMA StepPromises ==
    ASSUME UpstreamAssumption, Inv, Follows, [Next]_vars
    PROVE  [Promise!Next]_Promise!vars
<1>1. ASSUME UNCHANGED <<next_id, posting, msgid, dmc_list, told, message_list,
                         dropped, early, foreign>>
      PROVE  [Promise!Next]_Promise!vars
  BY <1>1, PlaceStays, NoneMoves DEF Posting, Queued
<1>2. ASSUME NEW r \in Requests, CloudAnswers(r) \/ GrowOld(r)
      PROVE  [Promise!Next]_Promise!vars
  BY <1>1, <1>2 DEF CloudAnswers, GrowOld, postVars, queueVars
<1>3. CASE StartTick \/ EndTick \/ EndDispatch
  BY <1>1, <1>3 DEF StartTick, EndTick, EndDispatch, postVars, queueVars
<1>4. CASE UNCHANGED vars
  BY <1>1, <1>4 DEF vars, postVars, queueVars
<1> QED
  BY <1>2, <1>3, <1>4, PosterPromises, ReplyPromises, CachePromises DEF Next

(* No request that dm_msg_cache_insert has remembered is forgotten in      *)
(* silence: whatever posters, receivers and the dispatcher do, it leaves   *)
(* the cache with a verdict in the queue or one the full queue refused, or *)
(* overtaken by its own reply, and a verdict in the queue can only go to   *)
(* the user's callback: a full queue refuses the next, it does not take    *)
(* this one back.                                                          *)
THEOREM UpstreamKeepsPromise ==
    ASSUME UpstreamAssumption PROVE Spec => KeepsPromise
<1>1. Init => Follows
  BY DEF Init, Follows, Heard, Queued
<1>2. Init => Promise!Init
  <2> SUFFICES ASSUME Init PROVE Promise!Init
    OBVIOUS
  <2>1. \A r \in Requests : Place(r) = "new"
    BY DEF Init, Place, Requests, UpstreamAssumption
  <2> QED
    BY <2>1 DEF Init, Promise!Init, places
<1>3. Inv /\ Follows /\ [Next]_vars => Follows' /\ [Promise!Next]_Promise!vars
  BY StepFollows, StepPromises
<1> QED
  BY <1>1, <1>2, <1>3, Invariance, PTL DEF Spec, KeepsPromise, Promise!Spec

=============================================================================
