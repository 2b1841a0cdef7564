-------------------------------- MODULE Ota --------------------------------
(***************************************************************************)
(* Over-the-air update: the handle of the ota module (OTA_Struct_t), the   *)
(* two downloads of the device model (dm_fota, dm_cota) and the partition  *)
(* the platform writes (wrapper_ota).                                      *)
(*                                                                         *)
(* Two threads share the handle, without a lock of its own.  The receiver  *)
(* is the thread of IOT_Linkkit_Yield: it reads the announcements of the   *)
(* cloud (ota_callback) and dispatches the events that tell the            *)
(* application of them.  The application downloads with IOT_Linkkit_Query, *)
(* which holds the mutex of linkkit to its end: inside the callback of the *)
(* event, as the examples do, where the receiver waits for it, or in a     *)
(* task of its own, where announcements go on arriving.  One step is one   *)
(* access to what the two share.                                           *)
(*                                                                         *)
(* An image is announced with a size of Chunks chunks, what one fetch      *)
(* returns; the body the server sends for it may be shorter.  Its digest   *)
(* is the sequence of the chunks that were added to it.                    *)
(***************************************************************************)
EXTENDS Integers, Sequences

CONSTANTS
    Images,             \* what the cloud may announce, and
    BadImages,          \*   those whose bytes do not match their signature
    Chunks,             \* the fetches the announced size takes, and
    Length,             \*   those the body of each image takes, as far as they are read
    QUEUE_MAX,          \* CONFIG_DISPATCH_QUEUE_MAXLEN, less what others have queued
    MaxAnnouncements    \* bound on the announcements that are read

Kinds == {"fota", "cota"}
Drivers == {"callback", "task"}
NoImage == "none"

ASSUME OtaAssumption ==
    /\ BadImages \subseteq Images /\ NoImage \notin Images
    /\ Chunks \in Nat \ {0} /\ Length \in [Images -> 0 .. Chunks] /\ QUEUE_MAX \in Nat /\ MaxAnnouncements \in Nat

VARIABLES
    state,          \* h_ota->state
    type,           \* h_ota->type
    sign,           \* the image h_ota->sign belongs to
    size_fetched,   \* h_ota->size_fetched, in chunks
    digest,         \* what h_ota->md5 and h_ota->sha256 have been given
    ch_fetch,       \* h_ota->ch_fetch: the image and the chunks read of it
    told,           \* is_report_new_config of dm_fota and dm_cota
    queue,          \* the events for the application
    asked,          \* the downloads the application's task has been told of
    receiver,       \* where the receiver is
    download,       \* where the download is, whose it is and of what
    flash,          \* s_ota_handle, the chunks written and whether one failed
    announced       \* the announcements read so far

vars == <<state, type, sign, size_fetched, digest, ch_fetch, told, queue, asked,
          receiver, download, flash, announced>>

Whole(i) == [k \in 1 .. Chunks |-> <<i, k>>]
Idle == [at |-> "idle", by |-> "task", kind |-> "fota", sum |-> <<>>]

Init ==
    /\ state = "inited" /\ type = "none" /\ sign = NoImage
    /\ size_fetched = 0 /\ digest = <<>>
    /\ ch_fetch = [image |-> NoImage, read |-> 0]
    /\ told = [k \in Kinds |-> FALSE]
    /\ queue = <<>> /\ asked = {}
    /\ receiver = [at |-> "yield"]
    /\ download = Idle
    /\ flash = [open |-> FALSE, content |-> <<>>, failed |-> FALSE]
    /\ announced = 0

-----------------------------------------------------------------------------
(* The receiver: ota_callback.                                             *)

\* The announcement is read unless an image is being fetched.
Accept(i, k) ==
    /\ state # "fetching"
    /\ receiver' = [at |-> "params", image |-> i, kind |-> k]

Announcement(i, k) ==
    /\ receiver.at = "yield" /\ announced < MaxAnnouncements
    /\ announced' = announced + 1
    /\ Accept(i, k)
    /\ UNCHANGED <<state, type, sign, size_fetched, digest, ch_fetch, told, queue,
                   asked, download, flash>>

(* otalib_GetFotaParams, otalib_GetConfigParams: the parameters are        *)
(* replaced one after the other; if a later one is missing, the            *)
(* announcement ends here.                                                 *)
GetParams ==
    /\ receiver.at = "params"
    /\ sign' = receiver.image
    /\ receiver' \in {[receiver EXCEPT !.at = "digests"], [at |-> "yield"]}
    /\ UNCHANGED <<state, type, size_fetched, digest, ch_fetch, told, queue, asked,
                   download, flash, announced>>

\* Mutant: the digests of the last image are kept.
RenewDigests_Kept ==
    /\ receiver.at = "digests"
    /\ size_fetched' = 0 /\ receiver' = [receiver EXCEPT !.at = "channel"]
    /\ UNCHANGED <<state, type, sign, digest, ch_fetch, told, queue, asked, download,
                   flash, announced>>

RenewDigests ==
    /\ receiver.at = "digests"
    /\ size_fetched' = 0 /\ digest' = <<>>
    /\ receiver' = [receiver EXCEPT !.at = "channel"]
    /\ UNCHANGED <<state, type, sign, ch_fetch, told, queue, asked, download, flash,
                   announced>>

\* ofc_Init; where it fails the channel is lost and the state stays.
OpenChannel ==
    /\ receiver.at = "channel"
    /\ \/ /\ ch_fetch' = [image |-> receiver.image, read |-> 0]
          /\ receiver' = [receiver EXCEPT !.at = "type"]
       \/ /\ ch_fetch' = [image |-> NoImage, read |-> 0]
          /\ receiver' = [at |-> "yield"]
    /\ UNCHANGED <<state, type, sign, size_fetched, digest, told, queue, asked, download,
                   flash, announced>>

SetType ==
    /\ receiver.at = "type"
    /\ type' = receiver.kind /\ receiver' = [receiver EXCEPT !.at = "state"]
    /\ UNCHANGED <<state, sign, size_fetched, digest, ch_fetch, told, queue, asked,
                   download, flash, announced>>

SetState ==
    /\ receiver.at = "state"
    /\ state' = "fetching" /\ receiver' = [at |-> "yield"]
    /\ UNCHANGED <<type, sign, size_fetched, digest, ch_fetch, told, queue, asked,
                   download, flash, announced>>

-----------------------------------------------------------------------------
(* The receiver: iotx_dm_dispatch.                                         *)

(* dm_cota_status_check, dm_fota_status_check: the application is told of  *)
(* an image once; a full queue, or one that cannot be allocated, is tried  *)
(* again in the next cycle.                                                *)
StatusCheck ==
    /\ receiver.at = "yield"
    /\ receiver' = [at |-> "dispatch"]
    /\ \/ /\ state = "fetching" /\ type \in Kinds /\ ~told[type]
          /\ Len(queue) < QUEUE_MAX
          /\ queue' = Append(queue, type) /\ told' = [told EXCEPT ![type] = TRUE]
       \/ UNCHANGED <<queue, told>>
    /\ UNCHANGED <<state, type, sign, size_fetched, digest, ch_fetch, asked, download,
                   flash, announced>>

\* The callback of the event downloads, or leaves it to its task.
Dispatch ==
    /\ receiver.at = "dispatch" /\ queue # <<>>
    /\ queue' = Tail(queue)
    /\ \/ receiver' = [at |-> "callback", kind |-> Head(queue)] /\ UNCHANGED asked
       \/ asked' = asked \cup {Head(queue)} /\ UNCHANGED receiver
    /\ UNCHANGED <<state, type, sign, size_fetched, digest, ch_fetch, told, download,
                   flash, announced>>

DispatchEnds ==
    /\ receiver.at = "dispatch" /\ queue = <<>>
    /\ receiver' = [at |-> "yield"]
    /\ UNCHANGED <<state, type, sign, size_fetched, digest, ch_fetch, told, queue, asked,
                   download, flash, announced>>
-----------------------------------------------------------------------------
(* The download: dm_fota_perform_sync and dm_cota_perform_sync.            *)

\* The caller goes on: the receiver, out of the callback, or the task.
CallerLeaves(by, k) ==
    IF by = "callback" THEN receiver' = [at |-> "dispatch"] /\ UNCHANGED asked
                       ELSE asked' = asked \ {k} /\ UNCHANGED receiver

Wants(by, k) ==
    IF by = "callback" THEN receiver.at = "callback" /\ receiver.kind = k
                       ELSE k \in asked

(* IOT_Linkkit_Query takes the mutex of linkkit; the download begins if an *)
(* image of its kind was announced last.  Query refuses it at once while   *)
(* the device is not connected (is_connected), which may be at any time.   *)
Begin(by, k) ==
    /\ download = Idle /\ Wants(by, k)
    /\ \/ /\ state # "inited" /\ type = k
          /\ download' = [at |-> "start", by |-> by, kind |-> k, sum |-> <<>>]
          /\ UNCHANGED <<receiver, asked>>
       \/ /\ CallerLeaves(by, k) /\ UNCHANGED download
    /\ UNCHANGED <<state, type, sign, size_fetched, digest, ch_fetch, told, queue, flash,
                   announced>>

\* Mutant: the partition is not written from its beginning.
Start_Appends ==
    /\ download.at = "start"
    /\ size_fetched' = 0
    /\ flash' \in {[flash EXCEPT !.open = ok, !.failed = FALSE] : ok \in BOOLEAN}
    /\ download' = [download EXCEPT !.at = "fetch"]
    /\ UNCHANGED <<state, type, sign, digest, ch_fetch, told, queue, asked, receiver,
                   announced>>

\* HAL_Firmware_Persistence_Start; the partition or the memory may be missing.
Start ==
    /\ download.at = "start"
    /\ size_fetched' = 0
    /\ flash' \in {[open |-> ok, content |-> <<>>, failed |-> FALSE] : ok \in BOOLEAN}
    /\ download' = [download EXCEPT !.at = "fetch"]
    /\ UNCHANGED <<state, type, sign, digest, ch_fetch, told, queue, asked, receiver,
                   announced>>

\* IOT_OTA_FetchYield: not in the state to fetch.
FetchRefused ==
    /\ download.at = "fetch" /\ state # "fetching"
    /\ download' = [download EXCEPT !.at = "failed"]
    /\ UNCHANGED <<state, type, sign, size_fetched, digest, ch_fetch, told, queue, asked,
                   receiver, flash, announced>>

\* ofc_Fetch returns the next chunk of the body.
FetchReads ==
    /\ download.at = "fetch" /\ state = "fetching"
    /\ ch_fetch.read < Length[ch_fetch.image]
    /\ ch_fetch' = [ch_fetch EXCEPT !.read = @ + 1]
    /\ download' = [download EXCEPT !.at = "update"]
    /\ UNCHANGED <<state, type, sign, size_fetched, digest, told, queue, asked, receiver,
                   flash, announced>>

(* The body ended before the announced size.  httpclient_common has closed *)
(* the connection at its end, so ofc_Fetch sends the request again and     *)
(* returns what it got of the new answer less the whole of the last one:   *)
(* nothing, each time, if the body fits one fetch, and less than nothing,  *)
(* which is a failure, if it does not.  Nothing is added to the digests,   *)
(* nothing is written, although that may fail too, and the loop goes on.   *)
FetchEmpty ==
    /\ download.at = "fetch" /\ state = "fetching"
    /\ ch_fetch.read = Length[ch_fetch.image] /\ ch_fetch.read \in 0 .. 1
    /\ flash' \in {flash, [flash EXCEPT !.failed = TRUE]}
    /\ download' = [download EXCEPT !.at = "finished"]
    /\ UNCHANGED <<state, type, sign, size_fetched, digest, ch_fetch, told, queue, asked,
                   receiver, announced>>

\* ofc_Fetch fails: the state is left before the type and the size are reset.
FetchFails ==
    /\ download.at = "fetch" /\ state = "fetching"
    /\ state' = "fetched"
    /\ download' = [download EXCEPT !.at = "reset"]
    /\ UNCHANGED <<type, sign, size_fetched, digest, ch_fetch, told, queue, asked, receiver,
                   flash, announced>>

FetchFailed ==
    /\ download.at = "reset"
    /\ type' = "none" /\ size_fetched' = 0
    /\ download' = [download EXCEPT !.at = "failed"]
    /\ UNCHANGED <<state, sign, digest, ch_fetch, told, queue, asked, receiver, flash,
                   announced>>

\* The chunk is added to the digests; with the last one the image is fetched.
Update ==
    /\ download.at = "update"
    /\ digest' = Append(digest, <<ch_fetch.image, ch_fetch.read>>)
    /\ size_fetched' = size_fetched + 1
    /\ IF size_fetched' >= Chunks THEN type' = "none" /\ state' = "fetched"
                                  ELSE UNCHANGED <<type, state>>
    /\ download' = [download EXCEPT !.at = "write"]
    /\ UNCHANGED <<sign, ch_fetch, told, queue, asked, receiver, flash, announced>>

\* HAL_Firmware_Persistence_Write; the download goes on whatever it returns.
Write ==
    /\ download.at = "write"
    /\ \/ /\ flash.open
          /\ flash' = [flash EXCEPT !.content = Append(@, <<ch_fetch.image, ch_fetch.read>>)]
       \/ flash' = [flash EXCEPT !.failed = TRUE]
    /\ download' = [download EXCEPT !.at = "finished"]
    /\ UNCHANGED <<state, type, sign, size_fetched, digest, ch_fetch, told, queue, asked,
                   receiver, announced>>

\* Mutant: the loop asks again whether the image is fetched, without fetching.
IsFetchFinish_Polls ==
    /\ download.at = "finished"
    /\ download' = [download EXCEPT !.at = IF state = "fetched" THEN "check" ELSE "finished"]
    /\ UNCHANGED <<state, type, sign, size_fetched, digest, ch_fetch, told, queue, asked,
                   receiver, flash, announced>>

\* IOT_OTA_IsFetchFinish.
IsFetchFinish ==
    /\ download.at = "finished"
    /\ download' = [download EXCEPT !.at = IF state = "fetched" THEN "check" ELSE "fetch"]
    /\ UNCHANGED <<state, type, sign, size_fetched, digest, ch_fetch, told, queue, asked,
                   receiver, flash, announced>>

\* IOT_OTAG_CHECK_CONFIG: the digest, if an image has been fetched,
CheckConfig ==
    /\ download.at = "check"
    /\ download' = IF state = "fetched"
                   THEN [download EXCEPT !.at = "compare", !.sum = digest]
                   ELSE [download EXCEPT !.at = "failed"]
    /\ UNCHANGED <<state, type, sign, size_fetched, digest, ch_fetch, told, queue, asked,
                   receiver, flash, announced>>

\* and its comparison with the signature that was announced.
Compare ==
    /\ download.at = "compare"
    /\ download' = [download EXCEPT !.at =
            IF download.sum = Whole(sign) /\ sign \notin BadImages THEN "verified" ELSE "failed"]
    /\ UNCHANGED <<state, type, sign, size_fetched, digest, ch_fetch, told, queue, asked,
                   receiver, flash, announced>>

\* HAL_Firmware_Persistence_Stop, and the return to the caller.
End ==
    /\ download.at \in {"failed", "verified"}
    /\ flash' = [flash EXCEPT !.open = FALSE]
    /\ told' = [told EXCEPT ![download.kind] = FALSE]
    /\ CallerLeaves(download.by, download.kind)
    /\ download' = Idle
    /\ UNCHANGED <<state, type, sign, size_fetched, digest, ch_fetch, queue, announced>>

-----------------------------------------------------------------------------
Receive ==
    \/ \E i \in Images, k \in Kinds : Announcement(i, k)
    \/ GetParams \/ RenewDigests \/ OpenChannel \/ SetType \/ SetState
Yield == StatusCheck \/ Dispatch \/ DispatchEnds
Perform ==
    \/ Start \/ FetchRefused \/ FetchReads \/ FetchEmpty \/ FetchFails
    \/ FetchFailed \/ Update \/ Write \/ IsFetchFinish \/ CheckConfig \/ Compare \/ End
Download == Perform \/ \E by \in Drivers, k \in Kinds : Begin(by, k)

Next == Receive \/ Yield \/ Download

Spec == Init /\ [][Next]_vars

(* Both threads are scheduled; nothing says that the cloud announces       *)
(* anything, so an announcement owes its end but not its beginning.        *)
Fairness ==
    /\ WF_vars(Perform)
    /\ \A by \in Drivers, k \in Kinds : WF_vars(Begin(by, k))
    /\ WF_vars(GetParams \/ RenewDigests \/ OpenChannel \/ SetType \/ SetState)
    /\ WF_vars(Yield)
FairSpec == Spec /\ Fairness

-----------------------------------------------------------------------------
(* Type invariant.                                                         *)
Announcing == {"params", "digests", "channel", "type", "state"}
Steps == {"idle", "start", "fetch", "update", "reset", "write", "finished", "check",
          "compare", "failed", "verified"}
Data == Seq((Images \cup {NoImage}) \X Nat)

TypeOK ==
    /\ state \in {"inited", "fetching", "fetched"}
    /\ type \in Kinds \cup {"none"}
    /\ sign \in Images \cup {NoImage}
    /\ size_fetched \in Nat /\ digest \in Data
    /\ ch_fetch \in [image : Images \cup {NoImage}, read : Nat]
    /\ told \in [Kinds -> BOOLEAN]
    /\ queue \in Seq(Kinds) /\ asked \subseteq Kinds
    /\ receiver \in [at : {"yield", "dispatch"}] \cup [at : {"callback"}, kind : Kinds]
                        \cup [at : Announcing, image : Images, kind : Kinds]
    /\ download \in [at : Steps, by : Drivers, kind : Kinds, sum : Data]
    /\ flash \in [open : BOOLEAN, content : Data, failed : BOOLEAN]
    /\ announced \in Nat

Fetched == [k \in 1 .. size_fetched |-> <<sign, k>>]

(* While an image is being fetched, the handle is about that one image:    *)
(* the channel reads the image whose signature is kept, and the digests    *)
(* have been given its first chunks, those and no others, as far as the    *)
(* channel has been read (less the chunk that is being added).  The        *)
(* announcement replaces the four one by one and without a lock while the  *)
(* download may be anywhere between two fetches (iotx_ota.c:114).          *)
DigestFollowsChannel ==
    state = "fetching" =>
        /\ ch_fetch.image = sign
        /\ digest = Fetched
        /\ ch_fetch.read = size_fetched + (IF download.at = "update" THEN 1 ELSE 0)

(* The partition is open only while a download runs: each way a download   *)
(* can fail, the announcements that overtake it included, ends the write   *)
(* that HAL_Firmware_Persistence_Start began; the next Start would lose    *)
(* its handle.                                                             *)
FlashClosed == flash.open => download.at \notin {"idle", "start"}

(* An image verified by a download inside the callback of its event is     *)
(* what the partition holds, if it could be opened and every write         *)
(* succeeded: the digest follows the fetches and the partition the writes, *)
(* and nothing compares the two.                                           *)
CallbackVerifiedIsFlashed ==
    (/\ download.at = "verified" /\ download.by = "callback"
     /\ flash.open /\ ~flash.failed) => flash.content = Whole(sign)

(* Not run, because it does not hold: the same of a download in a task of  *)
(* the application.  An announcement between the last fetch of A and       *)
(* IOT_OTA_IsFetchFinish makes the loop go on with B: B's digest verifies  *)
(* and the partition holds A and B, one after the other.                   *)
VerifiedIsFlashed ==
    (download.at = "verified" /\ flash.open /\ ~flash.failed) => flash.content = Whole(sign)

\* The download has read all of a body that is shorter than what was
\* announced, and fits one fetch: every further fetch is empty.
Starving ==
    /\ download.at \in {"fetch", "finished"} /\ state = "fetching"
    /\ ch_fetch.read = Length[ch_fetch.image]
    /\ ch_fetch.read < Chunks /\ ch_fetch.read \in 0 .. 1

(* A download ends, and lets the mutex of linkkit go, whatever the cloud   *)
(* announces meanwhile, unless it is starving: a failed write, an image    *)
(* that does not verify or one that replaces another in the middle of the  *)
(* loop of dm_fota_perform_sync never leaves it there.                     *)
PerformEnds == download # Idle ~> (download = Idle \/ Starving)

(* Not run, because it does not hold: the same without exception.  If the  *)
(* announced size is above the Content-Length of a body that fits one      *)
(* fetch, infra_httpc.c:568-572 closes the connection, each fetch returns  *)
(* 0 (ota_fetch.c:61,74), and the loop, with the mutex of linkkit, goes on *)
(* for as long as the server answers.                                      *)
DownloadEnds == download # Idle ~> download = Idle

(* Not run, because it does not hold: an image that is announced is        *)
(* fetched or given up.  If Query refuses because the device is not        *)
(* connected, or a failed fetch resets the type after a new announcement   *)
(* has set it (iotx_ota.c:742-743), the state stays FETCHING: every later  *)
(* announcement is refused and nobody fetches, until a restart.            *)
AnnouncedIsFetched == state = "fetching" ~> state # "fetching"
=============================================================================
