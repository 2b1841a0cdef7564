------------------------------ MODULE AwssBind ------------------------------
(***************************************************************************)
(* The bind token of a device (awss_report, awss_notify).  The device      *)
(* draws a random token, reports it to the cloud over MQTT until the cloud *)
(* replies, and then gives it to the app in the local network: in          *)
(* broadcasts, and in answer to a request.  A token given away is renewed. *)
(*                                                                         *)
(* Three threads run this code: the one that yields the MQTT client        *)
(* (connection, reply), the one of the CoAP server (request of the app,    *)
(* response to a broadcast) and the timer task.  They share the variables  *)
(* without a lock.  One callback is one step here, except the reply, which *)
(* stores its success before it deletes the timer: finer steps would only  *)
(* add behaviours.                                                         *)
(***************************************************************************)
EXTENDS Integers

CONSTANTS
    MATCH_REPORT_CNT_MAX,   \* a token is reported once more than this,
    AWSS_NOTIFY_CNT_MAX,    \* and broadcast this often
    MaxTokens,              \* bounds on the tokens drawn,
    MaxReports,             \*   the reports sent
    MaxConnects             \*   and the connections made

VARIABLES
    aes_random,         \* the token, 0 when there is none
    drawn,              \* the number of tokens drawn so far
    time,               \* awss_report_token_time: "zero", "valid" or "expired"
    cnt, suc,           \* awss_report_token_cnt, awss_report_token_suc
    report_id,          \* awss_report_id, the one of the next report
    report_timer, get_timer, notify_timer,  \* "none", "stopped" or "started"
    replying,           \* a reply is between its success and its timer
    request,            \* coap_session_ctx: a request of the app waits
    resp,               \* awss_notify_resp: the app has answered a broadcast
    notify_cnt,         \* dev_bind_cnt
    broadcast,          \* a broadcast that apps may still answer
    reports, replies,   \* on their way to and from the cloud
    reported,           \* the tokens the cloud has been told,
    shared,             \*   and those an app has been told
    connects

tokens == <<aes_random, drawn>>
reporting == <<time, cnt, suc, report_id, report_timer>>
getting == <<get_timer, request>>
notifying == <<notify_timer, resp, notify_cnt, broadcast>>
wire == <<reports, replies, reported>>
vars == <<tokens, reporting, getting, notifying, wire, replying, shared, connects>>

\* awss_report_id wraps at the width of a char; the reports are too few for that.
Init ==
    /\ aes_random = 0 /\ drawn = 0
    /\ time = "zero" /\ cnt = 0 /\ suc = FALSE /\ report_id = 0 /\ report_timer = "none"
    /\ get_timer = "none" /\ request = FALSE
    /\ notify_timer = "none" /\ resp = FALSE /\ notify_cnt = 0 /\ broadcast = FALSE
    /\ reports = {} /\ replies = {} /\ reported = {} /\ shared = {}
    /\ replying = FALSE /\ connects = 0

token_timeout == time # "valid"

-----------------------------------------------------------------------------
(* awss_report.c                                                           *)

\* produce_random.
Draw ==
    /\ drawn < MaxTokens
    /\ drawn' = drawn + 1 /\ aes_random' = drawn'

update_token ==
    /\ Draw
    /\ time' = "zero" /\ cnt' = 0 /\ suc' = FALSE /\ report_timer' = "started"
    /\ UNCHANGED report_id

\* awss_report_token_to_cloud after `tried' attempts, of the token as it is
\* after the step.
SendReport(tried) ==
    /\ report_id < MaxReports
    /\ suc' = FALSE /\ cnt' = tried + 1 /\ time' = "valid"
    /\ report_id' = report_id + 1 /\ report_timer' = "started"
    /\ reports' = reports \cup {[id |-> report_id, token |-> aes_random']}
    /\ UNCHANGED <<replies, reported>>

\* The timer after a success.
ReportedAlready ==
    /\ report_timer = "started" /\ suc
    /\ report_timer' = "stopped"
    /\ UNCHANGED <<tokens, time, cnt, suc, report_id, getting, notifying, wire, replying,
                   shared, connects>>

GiveUp ==
    /\ report_timer = "started" /\ ~suc /\ cnt > MATCH_REPORT_CNT_MAX
    /\ cnt' = cnt + 1 /\ report_timer' = "none"
    /\ UNCHANGED <<tokens, time, suc, report_id, getting, notifying, wire, replying,
                   shared, connects>>

ReportAgain ==
    /\ report_timer = "started" /\ ~suc /\ cnt <= MATCH_REPORT_CNT_MAX
    /\ UNCHANGED tokens /\ SendReport(cnt)
    /\ UNCHANGED <<getting, notifying, replying, shared, connects>>

\* awss_report_token_reply: a reply to an earlier report than the last is
\* dropped,
OldReply(r) ==
    /\ ~replying /\ r \in replies
    /\ r.id + 1 < report_id
    /\ replies' = replies \ {r}
    /\ UNCHANGED <<tokens, reporting, getting, notifying, reports, reported, replying,
                   shared, connects>>

\* any other is taken for a reply to the report of the present token.
Reply(r) ==
    /\ ~replying /\ r \in replies
    /\ r.id + 1 >= report_id
    /\ replies' = replies \ {r}
    /\ suc' = TRUE /\ replying' = TRUE
    /\ UNCHANGED <<tokens, time, cnt, report_id, report_timer, getting, notifying, reports,
                   reported, shared, connects>>

ReplyDone ==
    /\ replying
    /\ replying' = FALSE /\ report_timer' = "none"
    /\ UNCHANGED <<tokens, time, cnt, suc, report_id, getting, notifying, wire, shared,
                   connects>>

-----------------------------------------------------------------------------
(* awss_bind.c, awss_notify.c                                              *)

\* awss_report_cloud: report_token, then the notification from its beginning.
CloudConnected ==
    /\ ~replying /\ connects < MaxConnects
    /\ connects' = connects + 1
    /\ IF aes_random = 0 THEN Draw ELSE UNCHANGED tokens
    /\ SendReport(0)
    /\ resp' = FALSE /\ notify_cnt' = 0 /\ broadcast' = FALSE /\ notify_timer' = "started"
    /\ UNCHANGED <<getting, replying, shared>>

\* __awss_dev_bind_notify on its timer; while suc is 0 it only starts it again.
NotifyAgain ==
    /\ notify_timer = "started" /\ suc /\ ~resp
    /\ IF token_timeout
       THEN UNCHANGED <<shared, notify_cnt, broadcast>>
       ELSE /\ shared' = shared \cup {aes_random}
            /\ notify_cnt' = notify_cnt + 1 /\ broadcast' = TRUE
    /\ notify_cnt' < AWSS_NOTIFY_CNT_MAX
    /\ UNCHANGED <<tokens, reporting, getting, notify_timer, resp, wire, replying, connects>>

\* The last broadcast, or the app has answered one: the message is taken back.
NotifyEnds ==
    /\ notify_timer = "started" /\ suc
    /\ IF resp \/ token_timeout THEN UNCHANGED shared
       ELSE shared' = shared \cup {aes_random}
    /\ \/ resp
       \/ notify_cnt + (IF token_timeout THEN 0 ELSE 1) >= AWSS_NOTIFY_CNT_MAX
    /\ resp' = FALSE /\ notify_cnt' = 0 /\ broadcast' = FALSE /\ notify_timer' = "none"
    /\ UNCHANGED <<tokens, reporting, getting, wire, replying, connects>>

\* awss_dev_bind_notify_resp, called by the CoAP server, which keeps the
\* broadcast for the responses of other apps.
NotifyResp ==
    /\ broadcast
    /\ resp' = TRUE
    /\ update_token
    /\ UNCHANGED <<getting, notify_timer, notify_cnt, broadcast, wire, replying, shared, connects>>

\* online_get_device_info: the token is renewed and reported first when it has
\* expired.
GetRequest ==
    /\ cnt # 0 /\ ~request
    /\ request' = TRUE /\ get_timer' = "started"
    /\ IF token_timeout
       THEN Draw /\ SendReport(0)
       ELSE UNCHANGED <<tokens, reporting, wire>>
    /\ UNCHANGED <<notifying, replying, shared, connects>>

\* awss_process_get_devinfo on its timer; while suc is 0 it only starts it again.
GetResponse ==
    /\ get_timer = "started" /\ suc /\ request
    /\ shared' = shared \cup {aes_random}
    /\ update_token
    /\ request' = FALSE /\ get_timer' = "none"
    /\ UNCHANGED <<notifying, wire, replying, connects>>

-----------------------------------------------------------------------------
(* Time and the cloud.                                                     *)

Expire ==
    /\ time = "valid"
    /\ time' = "expired"
    /\ UNCHANGED <<tokens, cnt, suc, report_id, report_timer, getting, notifying, wire,
                   replying, shared, connects>>

\* The cloud replies once to each report it reads, in any order.
Cloud(r) ==
    /\ r \in reports
    /\ reports' = reports \ {r} /\ replies' = replies \cup {r}
    /\ reported' = reported \cup {r.token}
    /\ UNCHANGED <<tokens, reporting, getting, notifying, replying, shared, connects>>

Next ==
    \/ ReportedAlready \/ GiveUp \/ ReportAgain \/ ReplyDone
    \/ \E r \in replies : OldReply(r) \/ Reply(r)
    \/ CloudConnected \/ NotifyAgain \/ NotifyEnds \/ NotifyResp
    \/ GetRequest \/ GetResponse
    \/ Expire
    \/ \E r \in reports : Cloud(r)

Spec == Init /\ [][Next]_vars

-----------------------------------------------------------------------------
\* "wait for token is sent to cloud and rx reply from cloud" (awss_notify.c:377):
\* a token that an app has been given is one the cloud had been told, or the app
\* could not bind with it.  The code asks awss_report_token_suc, which a reply
\* to the report of an earlier token sets as well.
SharedTokenIsReported == shared \subseteq reported
=============================================================================
