------------------------------ MODULE Channel ------------------------------
(***************************************************************************)
(* What a consumer relies on when it calls SendFinding of a notification   *)
(* channel (notifiler.FindingSender): no error means that the finding was  *)
(* posted, once, or was not meant for the channel; an error means that it  *)
(* was not posted, or that the answer was lost. QuorumConsumer and         *)
(* DirectConsumer make these steps in their action SendFinding.            *)
(***************************************************************************)
EXTENDS Naturals

VARIABLES
    meant,       \* the channel posts findings of this severity
    outcome,     \* where the current call is, or how it ended
    posts        \* notifications the channel has taken

vars == <<meant, outcome, posts>>

Init ==
    /\ meant \in BOOLEAN
    /\ outcome = "request"
    /\ posts = 0

Return(o) ==
    /\ outcome = "request"
    /\ outcome' = o
    /\ UNCHANGED meant

Post       == meant /\ Return("sent") /\ posts' = posts + 1
Fail       == Return("failed") /\ UNCHANGED posts
LoseAnswer == meant /\ Return("failed") /\ posts' = posts + 1
Skip       == ~meant /\ Return("skipped") /\ UNCHANGED posts

\* The consumer puts the message back and calls again when it is redelivered.
Retry ==
    /\ outcome = "failed"
    /\ outcome' = "request"
    /\ UNCHANGED <<meant, posts>>

Next == Post \/ Fail \/ LoseAnswer \/ Skip \/ Retry

Spec == Init /\ [][Next]_vars
=============================================================================
