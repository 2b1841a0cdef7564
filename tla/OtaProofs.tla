----------------------------- MODULE OtaProofs -----------------------------
(***************************************************************************)
(* Proofs about Ota: the handle is about one image while that is fetched,  *)
(* the partition is closed when no download runs, and what a download      *)
(* inside the callback verified is what the partition holds.               *)
(*                                                                         *)
(* The three rest on what an announcement has replaced so far at each of   *)
(* its steps, on the state it found, and on what the partition and the     *)
(* digests have in common at each step of a download.                      *)
(***************************************************************************)
EXTENDS Ota, TLAPS

\* An announcement that is being read found the handle not fetching, and
\* what it has replaced stays as it left it.
Replaced ==
    /\ receiver.at \in Announcing => state # "fetching"
    /\ receiver.at \in Announcing \ {"params"} => sign = receiver.image
    /\ receiver.at \in {"channel", "type", "state"} => size_fetched = 0 /\ digest = <<>>
    /\ receiver.at \in {"type", "state"} =>
            ch_fetch.image = receiver.image /\ ch_fetch.read = 0

\* Out of the loop of a download nothing has been read of the image to fetch.
Unread ==
    (/\ state = "fetching"
     /\ download.at \in {"idle", "start", "reset", "failed", "check", "compare", "verified"})
        => ch_fetch.read = 0

\* A chunk is added to the digests of an image that is being fetched.
Adding == download.at = "update" => state = "fetching"

\* The receiver waits for the download of its callback.
Waits == (download.at # "idle" /\ download.by = "callback") => receiver.at = "callback"

\* What the partition and the digests of that download have in common.
Same ==
    (download.by = "callback" /\ flash.open /\ ~flash.failed) =>
        /\ (download.at = "fetch" /\ state = "fetching") => flash.content = digest
        /\ download.at \in {"update", "finished", "check", "compare"} => flash.content = digest
        /\ download.at = "write" =>
                Append(flash.content, <<ch_fetch.image, ch_fetch.read>>) = digest
        /\ download.at = "compare" => download.sum = digest
        /\ download.at = "verified" => flash.content = Whole(sign)

IInv ==
    /\ TypeOK /\ DigestFollowsChannel /\ FlashClosed
    /\ Replaced /\ Unread /\ Adding /\ Waits /\ Same

(* The chunks 1 .. n of an image and the next one are the chunks           *)
(* 1 .. n + 1: what FetchYield does to the digests.                        *)
LEMMA NextChunk ==
    ASSUME NEW i, NEW n \in Nat
    PROVE  Append([k \in 1 .. n |-> <<i, k>>], <<i, n + 1>>) = [k \in 1 .. n + 1 |-> <<i, k>>]
  <1> DEFINE s == [k \in 1 .. n |-> <<i, k>>]
  <1>1. s \in Seq({i} \X Nat) /\ Len(s) = n
    OBVIOUS
  <1>2. Append(s, <<i, n + 1>>) \in Seq({i} \X Nat) /\ Len(Append(s, <<i, n + 1>>)) = n + 1
    BY <1>1
  <1>3. ASSUME NEW k \in 1 .. n + 1
        PROVE  Append(s, <<i, n + 1>>)[k] = <<i, k>>
    <2>1. CASE k = n + 1
      BY <1>1, <2>1
    <2>2. CASE k # n + 1
      BY <1>1, <2>2
    <2>q. QED BY <2>1, <2>2
  <1>4. DOMAIN Append(s, <<i, n + 1>>) = 1 .. n + 1
    BY <1>2
  <1>q. QED
    BY <1>2, <1>3, <1>4

(* No chunk has been added to the digests of an image of which none was.   *)
LEMMA NoChunk ==
    ASSUME NEW i, NEW n \in Nat, n = 0
    PROVE  [k \in 1 .. n |-> <<i, k>>] = <<>>
  OBVIOUS

(* The invariant holds initially.                                          *)
LEMMA InitIInv == Init => IInv
  <1> SUFFICES ASSUME Init PROVE IInv
    OBVIOUS
  <1>1. TypeOK
    BY DEF Init, TypeOK, Idle, Data, Kinds, Steps, Drivers
  <1>2. DigestFollowsChannel /\ FlashClosed /\ Replaced /\ Unread /\ Adding /\ Waits /\ Same
    BY DEF Init, Idle, DigestFollowsChannel, FlashClosed, Replaced, Unread, Adding, Waits, Same,
           Announcing
  <1>q. QED BY <1>1, <1>2 DEF IInv
(* What TypeOK says of the receiver and of the download, when one of them   *)
(* moves on.                                                               *)
LEMMA ReceiverMoves ==
    ASSUME TypeOK, receiver.at \in Announcing, NEW a \in Announcing
    PROVE  [receiver EXCEPT !.at = a] \in [at : Announcing, image : Images, kind : Kinds]
  <1>1. receiver \in [at : Announcing, image : Images, kind : Kinds]
    BY DEF TypeOK, Announcing
  <1>q. QED BY <1>1

LEMMA DownloadMoves ==
    ASSUME TypeOK, NEW a \in Steps
    PROVE  [download EXCEPT !.at = a] \in [at : Steps, by : Drivers, kind : Kinds, sum : Data]
  BY DEF TypeOK

(* Each step keeps the types.                                              *)
LEMMA TypeOKStep == IInv /\ [Next]_vars => TypeOK'
  <1> SUFFICES ASSUME IInv, [Next]_vars PROVE TypeOK'
    OBVIOUS
  <1> USE DEF IInv
  <1>1. CASE \E i \in Images, k \in Kinds : Announcement(i, k)
    BY <1>1 DEF Announcement, Accept, TypeOK, Announcing
  <1>2. CASE GetParams
    <2>1. receiver' \in [at : {"yield", "dispatch"}] \cup [at : Announcing, image : Images, kind : Kinds]
      <3>1. receiver' \in {[receiver EXCEPT !.at = "digests"], [at |-> "yield"]}
        BY <1>2 DEF GetParams
      <3>2. [receiver EXCEPT !.at = "digests"] \in [at : Announcing, image : Images, kind : Kinds]
        <4>1. TypeOK /\ receiver.at \in Announcing /\ "digests" \in Announcing
          BY <1>2 DEF GetParams, Announcing
        <4> QED BY ONLY <4>1, ReceiverMoves
      <3>3. [at |-> "yield"] \in [at : {"yield", "dispatch"}]
        OBVIOUS
      <3> QED BY ONLY <3>1, <3>2, <3>3
    <2>2. sign' \in Images
      BY <1>2 DEF GetParams, TypeOK, Announcing
    <2>q. QED
      BY <1>2, <2>1, <2>2 DEF GetParams, TypeOK
  <1>3. CASE RenewDigests
    <2>1. receiver' \in [at : {"yield", "dispatch"}] \cup [at : Announcing, image : Images, kind : Kinds]
      BY <1>3, ReceiverMoves DEF RenewDigests, TypeOK, Announcing
    <2>2. digest' \in Data
      BY <1>3 DEF RenewDigests, Data
    <2>q. QED
      BY <1>3, <2>1, <2>2 DEF RenewDigests, TypeOK
  <1>4. CASE OpenChannel
    <2>1. receiver' \in [at : {"yield", "dispatch"}] \cup [at : Announcing, image : Images, kind : Kinds]
      <3>1. receiver' \in {[receiver EXCEPT !.at = "type"], [at |-> "yield"]}
        BY <1>4 DEF OpenChannel
      <3>2. [receiver EXCEPT !.at = "type"] \in [at : Announcing, image : Images, kind : Kinds]
        <4>1. TypeOK /\ receiver.at \in Announcing /\ "type" \in Announcing
          BY <1>4 DEF OpenChannel, Announcing
        <4> QED BY ONLY <4>1, ReceiverMoves
      <3>3. [at |-> "yield"] \in [at : {"yield", "dispatch"}]
        OBVIOUS
      <3> QED BY ONLY <3>1, <3>2, <3>3
    <2>2. ch_fetch' \in [image : Images \cup {NoImage}, read : Nat]
      BY <1>4 DEF OpenChannel, TypeOK, Announcing
    <2>q. QED
      BY <1>4, <2>1, <2>2 DEF OpenChannel, TypeOK
  <1>5. CASE SetType
    <2>1. receiver' \in [at : {"yield", "dispatch"}] \cup [at : Announcing, image : Images, kind : Kinds]
      BY <1>5, ReceiverMoves DEF SetType, TypeOK, Announcing
    <2>2. type' \in Kinds \cup {"none"}
      BY <1>5 DEF SetType, TypeOK, Announcing
    <2>q. QED
      BY <1>5, <2>1, <2>2 DEF SetType, TypeOK
  <1>6. CASE SetState
    <2>1. receiver' \in [at : {"yield", "dispatch"}] \cup [at : Announcing, image : Images, kind : Kinds]
      BY <1>6, ReceiverMoves DEF SetState, TypeOK, Announcing
    <2>2. type' \in Kinds \cup {"none"}
      BY <1>6 DEF SetState, TypeOK, Announcing
    <2>q. QED
      BY <1>6, <2>1, <2>2 DEF SetState, TypeOK
  <1>7. CASE StatusCheck
    <2>1. CASE state = "fetching" /\ type \in Kinds /\ queue' = Append(queue, type)
               /\ told' = [told EXCEPT ![type] = TRUE]
      <3>1. queue' \in Seq(Kinds) /\ told' \in [Kinds -> BOOLEAN]
        BY <2>1 DEF TypeOK
      <3>q. QED
        BY <1>7, <3>1 DEF StatusCheck, TypeOK
    <2>2. CASE UNCHANGED <<queue, told>>
      BY <1>7, <2>2 DEF StatusCheck, TypeOK
    <2>q. QED BY <1>7, <2>1, <2>2 DEF StatusCheck
  <1>8. CASE Dispatch
    <2>1. queue' \in Seq(Kinds) /\ Head(queue) \in Kinds
      BY <1>8 DEF Dispatch, TypeOK
    <2>2. receiver' \in [at : {"callback"}, kind : Kinds] \/ receiver' = receiver
      BY <1>8, <2>1 DEF Dispatch
    <2>3. asked' \subseteq Kinds
      BY <1>8, <2>1 DEF Dispatch, TypeOK
    <2>q. QED
      BY <1>8, <2>1, <2>2, <2>3 DEF Dispatch, TypeOK
  <1>9. CASE DispatchEnds
    BY <1>9 DEF DispatchEnds, TypeOK
  <1>10. CASE Start
    <2>1. PICK ok \in BOOLEAN : flash' = [open |-> ok, content |-> <<>>, failed |-> FALSE]
      BY <1>10 DEF Start
    <2>2. flash' \in [open : BOOLEAN, content : Data, failed : BOOLEAN]
      BY <2>1 DEF Data
    <2>3. download' \in [at : Steps, by : Drivers, kind : Kinds, sum : Data]
      BY <1>10, DownloadMoves DEF Start, Steps
    <2>q. QED
      BY <1>10, <2>2, <2>3 DEF Start, TypeOK
  <1>11. CASE FetchRefused
    <2>1. download' \in [at : Steps, by : Drivers, kind : Kinds, sum : Data]
      BY <1>11, DownloadMoves DEF FetchRefused, Steps
    <2>q. QED
      BY <1>11, <2>1 DEF FetchRefused, TypeOK
  <1>12. CASE FetchReads
    <2>1. download' \in [at : Steps, by : Drivers, kind : Kinds, sum : Data]
      BY <1>12, DownloadMoves DEF FetchReads, Steps
    <2>2. ch_fetch' \in [image : Images \cup {NoImage}, read : Nat]
      BY <1>12 DEF FetchReads, TypeOK
    <2>q. QED
      BY <1>12, <2>1, <2>2 DEF FetchReads, TypeOK
  <1>13. CASE FetchEmpty
    <2>1. download' \in [at : Steps, by : Drivers, kind : Kinds, sum : Data]
      BY <1>13, DownloadMoves DEF FetchEmpty, Steps
    <2>2. flash' \in [open : BOOLEAN, content : Data, failed : BOOLEAN]
      BY <1>13 DEF FetchEmpty, TypeOK
    <2>q. QED
      BY <1>13, <2>1, <2>2 DEF FetchEmpty, TypeOK
  <1>14. CASE FetchFails
    <2>1. download' \in [at : Steps, by : Drivers, kind : Kinds, sum : Data]
      BY <1>14, DownloadMoves DEF FetchFails, Steps
    <2>q. QED
      BY <1>14, <2>1 DEF FetchFails, TypeOK
  <1>15. CASE FetchFailed
    <2>1. download' \in [at : Steps, by : Drivers, kind : Kinds, sum : Data]
      BY <1>15, DownloadMoves DEF FetchFailed, Steps
    <2>q. QED
      BY <1>15, <2>1 DEF FetchFailed, TypeOK
  <1>16. CASE Update
    <2>1. download' \in [at : Steps, by : Drivers, kind : Kinds, sum : Data]
      BY <1>16, DownloadMoves DEF Update, Steps
    <2>2. <<ch_fetch.image, ch_fetch.read>> \in (Images \cup {NoImage}) \X Nat
      BY <1>16 DEF TypeOK
    <2>3. digest' \in Data
      BY <1>16, <2>2 DEF Update, TypeOK, Data
    <2>4. size_fetched' \in Nat
      BY <1>16 DEF Update, TypeOK
    <2>q. QED
      BY <1>16, <2>1, <2>2, <2>3, <2>4 DEF Update, TypeOK
  <1>17. CASE Write
    <2>1. download' \in [at : Steps, by : Drivers, kind : Kinds, sum : Data]
      BY <1>17, DownloadMoves DEF Write, Steps
    <2>2. CASE flash' = [flash EXCEPT !.failed = TRUE]
      BY <1>17, <2>1, <2>2 DEF Write, TypeOK
    <2>3. CASE flash' = [flash EXCEPT !.content = Append(@, <<ch_fetch.image, ch_fetch.read>>)]
      <3>1. <<ch_fetch.image, ch_fetch.read>> \in (Images \cup {NoImage}) \X Nat
        BY DEF TypeOK
      <3>2. Append(flash.content, <<ch_fetch.image, ch_fetch.read>>) \in Data
        BY <3>1 DEF TypeOK, Data
      <3>3. flash' \in [open : BOOLEAN, content : Data, failed : BOOLEAN]
        BY <2>3, <3>2 DEF TypeOK
      <3>q. QED BY <1>17, <2>1, <3>3 DEF Write, TypeOK
    <2>q. QED BY <1>17, <2>2, <2>3 DEF Write
  <1>18. CASE IsFetchFinish
    <2>1. download' \in [at : Steps, by : Drivers, kind : Kinds, sum : Data]
      BY <1>18, DownloadMoves DEF IsFetchFinish, Steps
    <2>q. QED
      BY <1>18, <2>1 DEF IsFetchFinish, TypeOK
  <1>19. CASE CheckConfig
    <2>1. CASE state = "fetched"
      <3>1. download' = [download EXCEPT !.at = "compare", !.sum = digest]
        BY <1>19, <2>1 DEF CheckConfig
      <3>2. download' \in [at : Steps, by : Drivers, kind : Kinds, sum : Data]
        BY <3>1 DEF TypeOK, Steps
      <3>q. QED
        BY <1>19, <3>2 DEF CheckConfig, TypeOK
    <2>2. CASE state # "fetched"
      <3>1. download' \in [at : Steps, by : Drivers, kind : Kinds, sum : Data]
        BY <1>19, <2>2, DownloadMoves DEF CheckConfig, Steps
      <3>q. QED
        BY <1>19, <3>1 DEF CheckConfig, TypeOK
    <2>q. QED BY <2>1, <2>2
  <1>20. CASE Compare
    <2>1. download' \in [at : Steps, by : Drivers, kind : Kinds, sum : Data]
      BY <1>20, DownloadMoves DEF Compare, Steps
    <2>q. QED
      BY <1>20, <2>1 DEF Compare, TypeOK
  <1>21. CASE End
    <2>1. download' \in [at : Steps, by : Drivers, kind : Kinds, sum : Data]
      BY <1>21 DEF End, Idle, TypeOK, Steps, Drivers, Kinds, Data
    <2>2. flash' \in [open : BOOLEAN, content : Data, failed : BOOLEAN] /\ told' \in [Kinds -> BOOLEAN]
      BY <1>21 DEF End, TypeOK
    <2>3. asked' \subseteq Kinds /\ (receiver' = receiver \/ receiver' \in [at : {"yield", "dispatch"}])
      BY <1>21 DEF End, CallerLeaves, TypeOK
    <2>q. QED
      BY <1>21, <2>1, <2>2, <2>3 DEF End, TypeOK
  <1>22. CASE \E by \in Drivers, k \in Kinds : Begin(by, k)
    <2> SUFFICES ASSUME NEW by \in Drivers, NEW k \in Kinds, Begin(by, k) PROVE TypeOK'
      BY <1>22
    <2>0. <<>> \in Data
      BY DEF Data
    <2>1. CASE download' = [at |-> "start", by |-> by, kind |-> k, sum |-> <<>>] /\ UNCHANGED <<receiver, asked>>
      BY <2>0, <2>1 DEF Begin, TypeOK, Steps
    <2>2. CASE CallerLeaves(by, k) /\ UNCHANGED download
      <3>1. asked' \subseteq Kinds /\ (receiver' = receiver \/ receiver' \in [at : {"yield", "dispatch"}])
        BY <2>2 DEF CallerLeaves, TypeOK
      <3>q. QED
        BY <2>2, <3>1 DEF Begin, TypeOK
    <2>q. QED BY <2>1, <2>2 DEF Begin
  <1>23. CASE UNCHANGED vars
    BY <1>23 DEF vars, TypeOK
  <1>24. QED
    BY <1>1, <1>2, <1>3, <1>4, <1>5, <1>6, <1>7, <1>8, <1>9, <1>10, <1>11, <1>12,
       <1>13, <1>14, <1>15, <1>16, <1>17, <1>18, <1>19, <1>20, <1>21, <1>22, <1>23
       DEF Next, Receive, Yield, Perform, Download

(* The partition is opened by Start and closed by the End of its download. *)
LEMMA FlashClosedStep == IInv /\ [Next]_vars => FlashClosed'
  <1> SUFFICES ASSUME IInv, [Next]_vars PROVE FlashClosed'
    OBVIOUS
  <1> USE DEF IInv, TypeOK, FlashClosed, Steps, Idle
  <1>1. CASE \E i \in Images, k \in Kinds : Announcement(i, k)
    BY <1>1 DEF Announcement, Accept
  <1>2. CASE GetParams
    BY <1>2 DEF GetParams
  <1>3. CASE RenewDigests
    BY <1>3 DEF RenewDigests
  <1>4. CASE OpenChannel
    BY <1>4 DEF OpenChannel
  <1>5. CASE SetType
    BY <1>5 DEF SetType
  <1>6. CASE SetState
    BY <1>6 DEF SetState
  <1>7. CASE StatusCheck
    BY <1>7 DEF StatusCheck
  <1>8. CASE Dispatch
    BY <1>8 DEF Dispatch
  <1>9. CASE DispatchEnds
    BY <1>9 DEF DispatchEnds
  <1>10. CASE Start
    BY <1>10 DEF Start
  <1>11. CASE FetchRefused
    BY <1>11 DEF FetchRefused
  <1>12. CASE FetchReads
    BY <1>12 DEF FetchReads
  <1>13. CASE FetchEmpty
    BY <1>13 DEF FetchEmpty
  <1>14. CASE FetchFails
    BY <1>14 DEF FetchFails
  <1>15. CASE FetchFailed
    BY <1>15 DEF FetchFailed
  <1>16. CASE Update
    BY <1>16 DEF Update
  <1>17. CASE Write
    BY <1>17 DEF Write
  <1>18. CASE IsFetchFinish
    BY <1>18 DEF IsFetchFinish
  <1>19. CASE CheckConfig
    BY <1>19 DEF CheckConfig
  <1>20. CASE Compare
    BY <1>20 DEF Compare
  <1>21. CASE End
    BY <1>21 DEF End, CallerLeaves
  <1>22. CASE \E by \in Drivers, k \in Kinds : Begin(by, k)
    BY <1>22 DEF Begin, Wants, CallerLeaves
  <1>23. CASE UNCHANGED vars
    BY <1>23 DEF vars
  <1>24. QED
    BY <1>1, <1>2, <1>3, <1>4, <1>5, <1>6, <1>7, <1>8, <1>9, <1>10, <1>11, <1>12,
       <1>13, <1>14, <1>15, <1>16, <1>17, <1>18, <1>19, <1>20, <1>21, <1>22, <1>23
       DEF Next, Receive, Yield, Perform, Download

(* A chunk is added where it was fetched: no announcement comes between.   *)
LEMMA AddingStep == IInv /\ [Next]_vars => Adding'
  <1> SUFFICES ASSUME IInv, [Next]_vars PROVE Adding'
    OBVIOUS
  <1> USE DEF IInv, TypeOK, Adding, Steps, Idle, Replaced, Announcing
  <1>1. CASE \E i \in Images, k \in Kinds : Announcement(i, k)
    BY <1>1 DEF Announcement, Accept
  <1>2. CASE GetParams
    BY <1>2 DEF GetParams
  <1>3. CASE RenewDigests
    BY <1>3 DEF RenewDigests
  <1>4. CASE OpenChannel
    BY <1>4 DEF OpenChannel
  <1>5. CASE SetType
    BY <1>5 DEF SetType
  <1>6. CASE SetState
    BY <1>6 DEF SetState
  <1>7. CASE StatusCheck
    BY <1>7 DEF StatusCheck
  <1>8. CASE Dispatch
    BY <1>8 DEF Dispatch
  <1>9. CASE DispatchEnds
    BY <1>9 DEF DispatchEnds
  <1>10. CASE Start
    BY <1>10 DEF Start
  <1>11. CASE FetchRefused
    BY <1>11 DEF FetchRefused
  <1>12. CASE FetchReads
    BY <1>12 DEF FetchReads
  <1>13. CASE FetchEmpty
    BY <1>13 DEF FetchEmpty
  <1>14. CASE FetchFails
    BY <1>14 DEF FetchFails
  <1>15. CASE FetchFailed
    BY <1>15 DEF FetchFailed
  <1>16. CASE Update
    BY <1>16 DEF Update
  <1>17. CASE Write
    BY <1>17 DEF Write
  <1>18. CASE IsFetchFinish
    BY <1>18 DEF IsFetchFinish
  <1>19. CASE CheckConfig
    BY <1>19 DEF CheckConfig
  <1>20. CASE Compare
    BY <1>20 DEF Compare
  <1>21. CASE End
    BY <1>21 DEF End, CallerLeaves
  <1>22. CASE \E by \in Drivers, k \in Kinds : Begin(by, k)
    BY <1>22 DEF Begin, Wants, CallerLeaves
  <1>23. CASE UNCHANGED vars
    BY <1>23 DEF vars
  <1>24. QED
    BY <1>1, <1>2, <1>3, <1>4, <1>5, <1>6, <1>7, <1>8, <1>9, <1>10, <1>11, <1>12,
       <1>13, <1>14, <1>15, <1>16, <1>17, <1>18, <1>19, <1>20, <1>21, <1>22, <1>23
       DEF Next, Receive, Yield, Perform, Download

(* The receiver leaves its callback only with the End of its download.     *)
LEMMA WaitsStep == IInv /\ [Next]_vars => Waits'
  <1> SUFFICES ASSUME IInv, [Next]_vars PROVE Waits'
    OBVIOUS
  <1> USE DEF IInv, TypeOK, Announcing, Steps, Kinds, Drivers, Idle, Waits
  <1>1. CASE \E i \in Images, k \in Kinds : Announcement(i, k)
    BY <1>1 DEF Announcement, Accept
  <1>2. CASE GetParams
    BY <1>2 DEF GetParams
  <1>3. CASE RenewDigests
    BY <1>3 DEF RenewDigests
  <1>4. CASE OpenChannel
    BY <1>4 DEF OpenChannel
  <1>5. CASE SetType
    BY <1>5 DEF SetType
  <1>6. CASE SetState
    BY <1>6 DEF SetState
  <1>7. CASE StatusCheck
    BY <1>7 DEF StatusCheck
  <1>8. CASE Dispatch
    BY <1>8 DEF Dispatch
  <1>9. CASE DispatchEnds
    BY <1>9 DEF DispatchEnds
  <1>10. CASE Start
    BY <1>10 DEF Start
  <1>11. CASE FetchRefused
    BY <1>11 DEF FetchRefused
  <1>12. CASE FetchReads
    BY <1>12 DEF FetchReads
  <1>13. CASE FetchEmpty
    BY <1>13 DEF FetchEmpty
  <1>14. CASE FetchFails
    BY <1>14 DEF FetchFails
  <1>15. CASE FetchFailed
    BY <1>15 DEF FetchFailed
  <1>16. CASE Update
    BY <1>16 DEF Update
  <1>17. CASE Write
    BY <1>17 DEF Write
  <1>18. CASE IsFetchFinish
    BY <1>18 DEF IsFetchFinish
  <1>19. CASE CheckConfig
    BY <1>19 DEF CheckConfig
  <1>20. CASE Compare
    BY <1>20 DEF Compare
  <1>21. CASE End
    BY <1>21 DEF End, CallerLeaves
  <1>22. CASE \E by \in Drivers, k \in Kinds : Begin(by, k)
    BY <1>22 DEF Begin, Wants, CallerLeaves
  <1>23. CASE UNCHANGED vars
    BY <1>23 DEF vars
  <1>24. QED
    BY <1>1, <1>2, <1>3, <1>4, <1>5, <1>6, <1>7, <1>8, <1>9, <1>10, <1>11, <1>12,
       <1>13, <1>14, <1>15, <1>16, <1>17, <1>18, <1>19, <1>20, <1>21, <1>22, <1>23
       DEF Next, Receive, Yield, Perform, Download

(* No download touches what an announcement has replaced.                  *)
LEMMA ReplacedStep == IInv /\ [Next]_vars => Replaced'
  <1> SUFFICES ASSUME IInv, [Next]_vars PROVE Replaced'
    OBVIOUS
  <1> USE DEF IInv, TypeOK, Announcing, Steps, Kinds, Drivers, Idle, Replaced, Adding
  <1>1. CASE \E i \in Images, k \in Kinds : Announcement(i, k)
    BY <1>1 DEF Announcement, Accept
  <1>2. CASE GetParams
    BY <1>2 DEF GetParams
  <1>3. CASE RenewDigests
    BY <1>3 DEF RenewDigests
  <1>4. CASE OpenChannel
    BY <1>4 DEF OpenChannel
  <1>5. CASE SetType
    BY <1>5 DEF SetType
  <1>6. CASE SetState
    BY <1>6 DEF SetState
  <1>7. CASE StatusCheck
    BY <1>7 DEF StatusCheck
  <1>8. CASE Dispatch
    BY <1>8 DEF Dispatch
  <1>9. CASE DispatchEnds
    BY <1>9 DEF DispatchEnds
  <1>10. CASE Start
    BY <1>10 DEF Start
  <1>11. CASE FetchRefused
    BY <1>11 DEF FetchRefused
  <1>12. CASE FetchReads
    BY <1>12 DEF FetchReads
  <1>13. CASE FetchEmpty
    BY <1>13 DEF FetchEmpty
  <1>14. CASE FetchFails
    BY <1>14 DEF FetchFails
  <1>15. CASE FetchFailed
    BY <1>15 DEF FetchFailed
  <1>16. CASE Update
    BY <1>16 DEF Update
  <1>17. CASE Write
    BY <1>17 DEF Write
  <1>18. CASE IsFetchFinish
    BY <1>18 DEF IsFetchFinish
  <1>19. CASE CheckConfig
    BY <1>19 DEF CheckConfig
  <1>20. CASE Compare
    BY <1>20 DEF Compare
  <1>21. CASE End
    BY <1>21 DEF End, CallerLeaves
  <1>22. CASE \E by \in Drivers, k \in Kinds : Begin(by, k)
    BY <1>22 DEF Begin, Wants, CallerLeaves
  <1>23. CASE UNCHANGED vars
    BY <1>23 DEF vars
  <1>24. QED
    BY <1>1, <1>2, <1>3, <1>4, <1>5, <1>6, <1>7, <1>8, <1>9, <1>10, <1>11, <1>12,
       <1>13, <1>14, <1>15, <1>16, <1>17, <1>18, <1>19, <1>20, <1>21, <1>22, <1>23
       DEF Next, Receive, Yield, Perform, Download

(* An image is read only inside the loop of a download.                    *)
LEMMA UnreadStep == IInv /\ [Next]_vars => Unread'
  <1> SUFFICES ASSUME IInv, [Next]_vars PROVE Unread'
    OBVIOUS
  <1> USE DEF IInv, TypeOK, Announcing, Steps, Kinds, Drivers, Idle, Replaced, Unread
  <1>1. CASE \E i \in Images, k \in Kinds : Announcement(i, k)
    BY <1>1 DEF Announcement, Accept
  <1>2. CASE GetParams
    BY <1>2 DEF GetParams
  <1>3. CASE RenewDigests
    BY <1>3 DEF RenewDigests
  <1>4. CASE OpenChannel
    BY <1>4 DEF OpenChannel
  <1>5. CASE SetType
    BY <1>5 DEF SetType
  <1>6. CASE SetState
    BY <1>6 DEF SetState
  <1>7. CASE StatusCheck
    BY <1>7 DEF StatusCheck
  <1>8. CASE Dispatch
    BY <1>8 DEF Dispatch
  <1>9. CASE DispatchEnds
    BY <1>9 DEF DispatchEnds
  <1>10. CASE Start
    BY <1>10 DEF Start
  <1>11. CASE FetchRefused
    BY <1>11 DEF FetchRefused
  <1>12. CASE FetchReads
    BY <1>12 DEF FetchReads
  <1>13. CASE FetchEmpty
    BY <1>13 DEF FetchEmpty
  <1>14. CASE FetchFails
    BY <1>14 DEF FetchFails
  <1>15. CASE FetchFailed
    BY <1>15 DEF FetchFailed
  <1>16. CASE Update
    BY <1>16 DEF Update
  <1>17. CASE Write
    BY <1>17 DEF Write
  <1>18. CASE IsFetchFinish
    BY <1>18 DEF IsFetchFinish
  <1>19. CASE CheckConfig
    BY <1>19 DEF CheckConfig
  <1>20. CASE Compare
    BY <1>20 DEF Compare
  <1>21. CASE End
    BY <1>21 DEF End, CallerLeaves
  <1>22. CASE \E by \in Drivers, k \in Kinds : Begin(by, k)
    BY <1>22 DEF Begin, Wants, CallerLeaves
  <1>23. CASE UNCHANGED vars
    BY <1>23 DEF vars
  <1>24. QED
    BY <1>1, <1>2, <1>3, <1>4, <1>5, <1>6, <1>7, <1>8, <1>9, <1>10, <1>11, <1>12,
       <1>13, <1>14, <1>15, <1>16, <1>17, <1>18, <1>19, <1>20, <1>21, <1>22, <1>23
       DEF Next, Receive, Yield, Perform, Download

(* Each step keeps the handle about one image.                             *)
LEMMA DigestFollowsChannelStep == IInv /\ [Next]_vars => DigestFollowsChannel'
  <1> SUFFICES ASSUME IInv, [Next]_vars PROVE DigestFollowsChannel'
    OBVIOUS
  <1> USE DEF IInv, TypeOK, Announcing, Steps, Kinds, Drivers, Idle, Replaced, Unread, Adding, DigestFollowsChannel, Fetched
  <1>1. CASE \E i \in Images, k \in Kinds : Announcement(i, k)
    BY <1>1 DEF Announcement, Accept
  <1>2. CASE GetParams
    BY <1>2 DEF GetParams
  <1>3. CASE RenewDigests
    BY <1>3 DEF RenewDigests
  <1>4. CASE OpenChannel
    BY <1>4 DEF OpenChannel
  <1>5. CASE SetType
    BY <1>5 DEF SetType
  <1>6. CASE SetState
    BY <1>6 DEF SetState
  <1>7. CASE StatusCheck
    BY <1>7 DEF StatusCheck
  <1>8. CASE Dispatch
    BY <1>8 DEF Dispatch
  <1>9. CASE DispatchEnds
    BY <1>9 DEF DispatchEnds
  <1>10. CASE Start
    BY <1>10 DEF Start
  <1>11. CASE FetchRefused
    BY <1>11 DEF FetchRefused
  <1>12. CASE FetchReads
    BY <1>12 DEF FetchReads
  <1>13. CASE FetchEmpty
    BY <1>13 DEF FetchEmpty
  <1>14. CASE FetchFails
    BY <1>14 DEF FetchFails
  <1>15. CASE FetchFailed
    BY <1>15 DEF FetchFailed
  <1>16. CASE Update
    <2>1. ch_fetch.image = sign /\ digest = Fetched /\ ch_fetch.read = size_fetched + 1
      BY <1>16 DEF Update
    <2>2. digest' = [k \in 1 .. size_fetched + 1 |-> <<sign, k>>]
      BY <1>16, <2>1, NextChunk DEF Update
    <2>3. size_fetched' = size_fetched + 1 /\ UNCHANGED <<sign, ch_fetch>>
      BY <1>16 DEF Update
    <2>4. digest' = Fetched'
      BY <2>2, <2>3
    <2>5. download'.at = "write"
      BY <1>16 DEF Update
    <2>q. QED
      BY <2>1, <2>3, <2>4, <2>5
  <1>17. CASE Write
    BY <1>17 DEF Write
  <1>18. CASE IsFetchFinish
    BY <1>18 DEF IsFetchFinish
  <1>19. CASE CheckConfig
    BY <1>19 DEF CheckConfig
  <1>20. CASE Compare
    BY <1>20 DEF Compare
  <1>21. CASE End
    BY <1>21 DEF End, CallerLeaves
  <1>22. CASE \E by \in Drivers, k \in Kinds : Begin(by, k)
    BY <1>22 DEF Begin, Wants, CallerLeaves
  <1>23. CASE UNCHANGED vars
    BY <1>23 DEF vars
  <1>24. QED
    BY <1>1, <1>2, <1>3, <1>4, <1>5, <1>6, <1>7, <1>8, <1>9, <1>10, <1>11, <1>12,
       <1>13, <1>14, <1>15, <1>16, <1>17, <1>18, <1>19, <1>20, <1>21, <1>22, <1>23
       DEF Next, Receive, Yield, Perform, Download

(* Each step keeps what the partition and the digests have in common.      *)
LEMMA SameStep == IInv /\ [Next]_vars => Same'
  <1> SUFFICES ASSUME IInv, [Next]_vars PROVE Same'
    OBVIOUS
  <1> USE DEF IInv, TypeOK, Announcing, Steps, Kinds, Drivers, Idle, Waits, Unread, DigestFollowsChannel, Fetched, Adding, Same, Data
  <1>1. CASE \E i \in Images, k \in Kinds : Announcement(i, k)
    BY <1>1 DEF Announcement, Accept
  <1>2. CASE GetParams
    BY <1>2 DEF GetParams
  <1>3. CASE RenewDigests
    BY <1>3 DEF RenewDigests
  <1>4. CASE OpenChannel
    BY <1>4 DEF OpenChannel
  <1>5. CASE SetType
    BY <1>5 DEF SetType
  <1>6. CASE SetState
    BY <1>6 DEF SetState
  <1>7. CASE StatusCheck
    BY <1>7 DEF StatusCheck
  <1>8. CASE Dispatch
    BY <1>8 DEF Dispatch
  <1>9. CASE DispatchEnds
    BY <1>9 DEF DispatchEnds
  <1>10. CASE Start
    BY <1>10 DEF Start
  <1>11. CASE FetchRefused
    BY <1>11 DEF FetchRefused
  <1>12. CASE FetchReads
    BY <1>12 DEF FetchReads
  <1>13. CASE FetchEmpty
    BY <1>13 DEF FetchEmpty
  <1>14. CASE FetchFails
    BY <1>14 DEF FetchFails
  <1>15. CASE FetchFailed
    BY <1>15 DEF FetchFailed
  <1>16. CASE Update
    BY <1>16 DEF Update
  <1>17. CASE Write
    BY <1>17 DEF Write
  <1>18. CASE IsFetchFinish
    BY <1>18 DEF IsFetchFinish
  <1>19. CASE CheckConfig
    BY <1>19 DEF CheckConfig
  <1>20. CASE Compare
    BY <1>20 DEF Compare
  <1>21. CASE End
    BY <1>21 DEF End, CallerLeaves
  <1>22. CASE \E by \in Drivers, k \in Kinds : Begin(by, k)
    BY <1>22 DEF Begin, Wants, CallerLeaves
  <1>23. CASE UNCHANGED vars
    BY <1>23 DEF vars
  <1>24. QED
    BY <1>1, <1>2, <1>3, <1>4, <1>5, <1>6, <1>7, <1>8, <1>9, <1>10, <1>11, <1>12,
       <1>13, <1>14, <1>15, <1>16, <1>17, <1>18, <1>19, <1>20, <1>21, <1>22, <1>23
       DEF Next, Receive, Yield, Perform, Download

(* The invariant is inductive.                                             *)
LEMMA Inductive == IInv /\ [Next]_vars => IInv'
  BY TypeOKStep, FlashClosedStep, AddingStep, WaitsStep, ReplacedStep, UnreadStep,
     DigestFollowsChannelStep, SameStep DEF IInv

(* The invariant holds in every reachable state.                           *)
LEMMA Invariant == Spec => []IInv
  BY InitIInv, Inductive, PTL DEF Spec

-----------------------------------------------------------------------------
(* Every variable of the update keeps its type.                            *)
THEOREM TypeCorrect == Spec => []TypeOK
  <1>1. IInv => TypeOK
    BY DEF IInv
  <1>q. QED
    BY <1>1, Invariant, PTL

(* While an image is fetched, the channel, the signature and the digests   *)
(* of the handle are those of that image, whatever is announced meanwhile  *)
(* (ota_callback, IOT_OTA_FetchYield).                                     *)
THEOREM DigestsAreOfTheChannel == Spec => []DigestFollowsChannel
  <1>1. IInv => DigestFollowsChannel
    BY DEF IInv
  <1>q. QED
    BY <1>1, Invariant, PTL

(* No path of a download leaves the partition open                         *)
(* (dm_fota_perform_sync, dm_cota_perform_sync).                           *)
THEOREM PartitionIsClosed == Spec => []FlashClosed
  <1>1. IInv => FlashClosed
    BY DEF IInv
  <1>q. QED
    BY <1>1, Invariant, PTL

(* What a download inside the callback of its event verified is what it    *)
(* wrote (dm_fota_perform_sync, HAL_Firmware_Persistence_Write).           *)
THEOREM VerifiedInCallback == Spec => []CallbackVerifiedIsFlashed
  <1>1. IInv => CallbackVerifiedIsFlashed
    BY DEF IInv, Same, CallbackVerifiedIsFlashed
  <1>q. QED
    BY <1>1, Invariant, PTL
=============================================================================
