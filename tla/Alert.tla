------------------------------- MODULE Alert -------------------------------
(***************************************************************************)
(* What the forwarder instances promise together, whatever they tell each  *)
(* other through Redis: a finding is posted once, after QuorumSize of them *)
(* have seen it, and none lets go of its copy unless the text is out. The  *)
(* exception is a finding whose count Redis has forgotten.                 *)
(*                                                                         *)
(* QuorumConsumer implements this as long as Redis runs the commands, the  *)
(* processes live and the channels answer.                                 *)
(***************************************************************************)
EXTENDS Naturals, FiniteSets

CONSTANTS Instances, Findings, Wanted, Body, QuorumSize

VARIABLES
    seen,        \* instances that have seen a finding
    posts,       \* its notifications, each an instance and a number
    settled,     \* instances that have let go of their copy
    forgotten    \* findings whose count was forgotten

vars == <<seen, posts, settled, forgotten>>

Init ==
    /\ seen = [f \in Findings |-> {}]
    /\ posts = [f \in Findings |-> {}]
    /\ settled = [f \in Findings |-> {}]
    /\ forgotten = {}

See(i, f) ==
    /\ f \in Wanted
    /\ seen' = [seen EXCEPT ![f] = @ \cup {i}]
    /\ UNCHANGED <<posts, settled, forgotten>>

Post(i, f) ==
    /\ i \in seen[f] /\ Cardinality(seen[f]) >= QuorumSize
    /\ posts[f] = {}
    /\ posts' = [posts EXCEPT ![f] = {<<i, 1>>}]
    /\ UNCHANGED <<seen, settled, forgotten>>

TextIsOut(f) == \E g \in Findings : Body[g] = Body[f] /\ posts[g] # {}

Settle(i, f) ==
    /\ f \in Wanted => f \in forgotten \/ TextIsOut(f)
    /\ settled' = [settled EXCEPT ![f] = @ \cup {i}]
    /\ UNCHANGED <<seen, posts, forgotten>>

\* The server has not heard of it and delivers the copy again.
Redeliver(i, f) ==
    /\ settled' = [settled EXCEPT ![f] = @ \ {i}]
    /\ UNCHANGED <<seen, posts, forgotten>>

Forget(f) ==
    /\ forgotten' = forgotten \cup {f}
    /\ UNCHANGED <<seen, posts, settled>>

Next ==
    \/ \E i \in Instances, f \in Findings :
          See(i, f) \/ Post(i, f) \/ Settle(i, f) \/ Redeliver(i, f)
    \/ \E f \in Findings : Forget(f)

Spec == Init /\ [][Next]_vars
=============================================================================
