--------------------------- MODULE RequestPromise ---------------------------
(***************************************************************************)
(* What the device model promises of a request it reports to the cloud.    *)
(* Once it remembers the request, the user is told a verdict on it (its    *)
(* reply, or its timeout), with three exceptions that are told apart here: *)
(* the verdict found no place in the queue; the reply came before the      *)
(* request was remembered; and, when another thread than the dispatcher    *)
(* reads the reply, a second verdict may follow a lost one.                *)
(***************************************************************************)
CONSTANT Requests

VARIABLES
    place,      \* place[r]: where the request is on its way
    early,      \* those whose reply came before they were remembered
    foreign     \* those whose reply was read by another thread

vars == <<place, early, foreign>>

Init ==
    /\ place = [r \in Requests |-> "new"]
    /\ early = {}
    /\ foreign = {}

Move(r, from, to) ==
    /\ place[r] = from
    /\ place' = [place EXCEPT ![r] = to]
    /\ UNCHANGED <<early, foreign>>

Send(r) == Move(r, "new", "sent")

\* Not published, not asked for, or the memory of requests is full.
Forget(r) == Move(r, "sent", "forgotten")

Keep(r) == Move(r, "sent", "kept")

AnswerTooSoon(r) ==
    /\ place[r] = "sent"
    /\ early' = early \cup {r}
    /\ UNCHANGED <<place, foreign>>

ReadElsewhere(r) ==
    /\ place[r] = "kept"
    /\ foreign' = foreign \cup {r}
    /\ UNCHANGED <<place, early>>

\* A verdict goes to the user, or is lost because too many are on their way.
Pass(r) == Move(r, "kept", "passed") \/ (r \in foreign /\ Move(r, "lost", "passed"))

Lose(r) == Move(r, "kept", "lost")

\* The reply that came too soon takes the request away.
Overtake(r) ==
    /\ r \in early
    /\ Move(r, "sent", "overtaken") \/ Move(r, "kept", "overtaken")

Hear(r) == Move(r, "passed", "told")

Next ==
    \E r \in Requests :
        \/ Send(r) \/ Forget(r) \/ Keep(r) \/ AnswerTooSoon(r) \/ ReadElsewhere(r)
        \/ Pass(r) \/ Lose(r) \/ Overtake(r) \/ Hear(r)

Spec == Init /\ [][Next]_vars
=============================================================================
