---------------------------- MODULE FeederProofs ----------------------------
(***************************************************************************)
(* Proofs about the feeder, for every length of the chain, size of a chunk *)
(* and number of faults: the types, that every gap has one of two causes,  *)
(* that only blocks at the tip go out without their receipts, and what it  *)
(* takes for a feeder without any gap.                                     *)
(***************************************************************************)
EXTENDS Feeder, TLAPS

Recovering == pc \in {"chunk", "publishChunk"}

\* What the loop knows between its steps: a recovery starts from a published block
\* and works on blocks of the chain, from the one after it on; a chunk stays between
\* its borders.
Placed ==
    /\ pc = "recover" => prev # -1
    /\ Recovering => prev # -1 /\ from >= 1 /\ from <= target /\ target <= head
    /\ pc = "publishChunk" => /\ batch # {} /\ batch \subseteq from..ChunkEnd
                              /\ lastInChunk # -1 => lastInChunk \in from..ChunkEnd

TypeInv == TypeOK /\ Placed

\* Blocks that are in the stream or have a reason not to be.
Excused == published \cup Oversized \cup lost \cup leftOut

\* A block is fetched only when the one before it is excused; in a recovery every
\* chunk before this one is, and recovered does not reach into this one.
GapsInv ==
    /\ prev # -1 => base..prev \subseteq Excused
    /\ pc \in {"receipts", "publish"} /\ prev # -1 => block = prev + 1
    /\ Recovering => base..(from - 1) \subseteq Excused /\ recovered < from

\* The node that is furthest behind bounds what a call can miss.
TipInv ==
    /\ head - Lag <= slow
    /\ pc = "publish" => block \in receipts
    /\ pc = "publishChunk" => \A b \in batch \ receipts : b > target - Lag

-----------------------------------------------------------------------------
(* The types *)

\* What Store leaves of the history, whether the stream stores the block or the
\* publish is lost, has its type.
LEMMA StoreType ==
    ASSUME TypeOK, NEW b \in Blocks, Store(b)
    PROVE  /\ published' \subseteq Blocks /\ bare' \subseteq published'
           /\ lost' \subseteq Blocks /\ faults' \in 0..MaxFaults
BY FeederAssumption DEF TypeOK, Store, NoFault, Fault

\* A chunk lies between its first block and the target of the recovery.
LEMMA ChunkBorders ==
    ASSUME TypeInv, Recovering
    PROVE  /\ ChunkEnd \in Blocks /\ from \in Blocks
           /\ from <= ChunkEnd /\ ChunkEnd <= target /\ ChunkEnd < from + ChunkSize
           /\ from + ChunkSize <= target => ChunkEnd = from + ChunkSize - 1
BY FeederAssumption DEF TypeInv, TypeOK, Placed, Recovering, ChunkEnd, Lower, Blocks

\* A chunk of which nothing was published ends the recovery, in the types.
LEMMA ChunkFailsType ==
    ASSUME TypeInv, Recovering, ChunkFails, UNCHANGED <<chain, published, bare, lost>>,
           faults' \in 0..MaxFaults
    PROVE  TypeInv'
BY DEF TypeInv, TypeOK, Placed, Recovering, ChunkFails, EndRecovery, EndChunk, Disarm,
       chain

\* A chunk that ends after some of its blocks were published leads to the next chunk
\* or ends the recovery, in the types.
LEMMA ChunkEndsType ==
    ASSUME TypeInv, pc = "publishChunk", NEW last \in from..ChunkEnd, ChunkEnds(last),
           UNCHANGED chain,
           published' \subseteq Blocks, bare' \subseteq published', lost' \subseteq Blocks,
           faults' \in 0..MaxFaults
    PROVE  TypeInv'
<1> Recovering
    BY DEF Recovering
<1>1. last \in Blocks /\ from..last \subseteq Blocks /\ from..ChunkEnd \subseteq Blocks
    BY ChunkBorders, FeederAssumption DEF Blocks
<1>2. leftOut' \subseteq Blocks
    BY <1>1 DEF ChunkEnds, TypeInv, TypeOK
<1>3. CASE from + ChunkSize > target /\ EndRecovery(last)
    BY <1>1, <1>2, <1>3
    DEF ChunkEnds, TypeInv, TypeOK, Placed, Recovering, EndRecovery, EndChunk, Disarm, chain
<1>4. CASE /\ from + ChunkSize <= target
           /\ pc' = "chunk" /\ recovered' = last /\ from' = from + ChunkSize
           /\ UNCHANGED <<prev, window, block, target, base>>
    BY <1>1, <1>2, <1>4, FeederAssumption
    DEF ChunkEnds, TypeInv, TypeOK, Placed, Recovering, EndChunk, chain
<1> QED
    BY <1>3, <1>4 DEF ChunkEnds

LEMMA TypeInit ==
    Init => TypeInv
BY FeederAssumption DEF Init, TypeInv, TypeOK, Placed, Recovering, Blocks

\* Every step of the loop and of its environment keeps the types and the place of the
\* loop.
LEMMA TypeStep ==
    ASSUME TypeInv, [Next]_vars
    PROVE  TypeInv'
<1> USE FeederAssumption DEF TypeInv
<1>1. CASE FetchLatest
    BY <1>1
    DEF FetchLatest, Views, RpcFails, NoFault, Fault, chain, recovery, chunk, history, stored,
        TypeOK, Placed, Recovering, Blocks
<1>2. CASE FetchNext
    BY <1>2
    DEF FetchNext, Views, Knows, RpcFails, NoFault, Fault, Arm, Disarm, chain, recovery, chunk,
        history, stored, TypeOK, Placed, Recovering, Blocks
<1>3. CASE FetchReceipts
    BY <1>3
    DEF FetchReceipts, Views, Knows, RpcFails, NoFault, Fault, chain, recovery, chunk, history,
        stored, TypeOK, Placed, Recovering
<1>4. CASE Publish
    <2>1. /\ published' \subseteq Blocks /\ bare' \subseteq published'
          /\ lost' \subseteq Blocks /\ faults' \in 0..MaxFaults
        BY <1>4, StoreType
        DEF Publish, Unpublishable, NoFault, Fault, stored, TypeOK
    <2>2. /\ prev' \in Blocks \cup {-1} /\ base' \in Blocks
          /\ window' \in {"zero", "armed", "elapsed"}
        BY <1>4 DEF Publish, MoveTo, Arm, TypeOK
    <2> QED
        BY <1>4, <2>1, <2>2
        DEF Publish, chain, recovery, chunk, TypeOK, Placed, Recovering
<1>5. CASE StartRecovery
    <2>1. faults' \in 0..MaxFaults
        BY <1>5 DEF StartRecovery, RpcFails, NoFault, Fault, TypeOK
    <2>2. CASE EndRecovery(-1)
        BY <1>5, <2>1, <2>2
        DEF StartRecovery, EndRecovery, Disarm, chain, chunk, stored, TypeOK, Placed, Recovering
    <2>3. ASSUME NEW view \in Views, view > prev,
                 pc' = "chunk", from' = prev + 1, target' = view, recovered' = -1,
                 UNCHANGED <<prev, window, block, base>>
          PROVE  TypeInv'
        BY <1>5, <2>1, <2>3
        DEF StartRecovery, Views, chain, chunk, stored, TypeOK, Placed, Recovering, Blocks
    <2> QED
        BY <1>5, <2>2, <2>3 DEF StartRecovery
<1>6. CASE FetchChunk
    <2>1. Recovering /\ faults' \in 0..MaxFaults
        BY <1>6 DEF FetchChunk, RpcFails, NoFault, Fault, TypeOK, Recovering
    <2>2. CASE ChunkFails
        BY <1>6, <2>1, <2>2, ChunkFailsType DEF FetchChunk, stored
    <2>3. ASSUME NEW view \in Views, batch' = BlocksInRange(from, ChunkEnd, view),
                 batch' # {},
                 \E other \in Views : receipts' = ReceiptsOf(batch', other),
                 inOrder' \in BOOLEAN, pc' = "publishChunk", lastInChunk' = -1,
                 UNCHANGED <<prev, window, block, from, target, recovered, base, leftOut>>
          PROVE  TypeInv'
        <3>1. /\ batch' \subseteq from..ChunkEnd /\ batch' \subseteq Blocks
              /\ receipts' \subseteq Blocks
            BY <2>1, <2>3, ChunkBorders
            DEF BlocksInRange, ReceiptsOf, Lower, Views, TypeOK, Blocks
        <3> QED
            BY <1>6, <2>1, <2>3, <3>1
            DEF FetchChunk, chain, stored, TypeOK, Placed, Recovering, ChunkEnd
    <2> QED
        BY <1>6, <2>2, <2>3 DEF FetchChunk
<1>7. CASE PublishRecovered
    <2>1. PICK b \in batch :
             \/ /\ Store(b)
                /\ \/ batch = {b} /\ ChunkEnds(b)
                   \/ /\ batch # {b}
                      /\ batch' = batch \ {b} /\ lastInChunk' = b
                      /\ UNCHANGED <<loop, from, target, recovered, inOrder, leftOut, base>>
             \/ /\ Unpublishable(b) \/ Fault("recoveryPublishError")
                /\ UNCHANGED stored
                /\ IF lastInChunk = -1 THEN ChunkFails ELSE ChunkEnds(lastInChunk)
        BY <1>7 DEF PublishRecovered
    <2>2. /\ pc = "publishChunk" /\ Recovering /\ b \in from..ChunkEnd /\ b \in Blocks
          /\ UNCHANGED chain
        BY <1>7 DEF PublishRecovered, Recovering, Placed, TypeOK
    <2>3. /\ published' \subseteq Blocks /\ bare' \subseteq published'
          /\ lost' \subseteq Blocks /\ faults' \in 0..MaxFaults
        <3>1. CASE Store(b)
            BY <2>2, <3>1, StoreType
        <3>2. CASE (Unpublishable(b) \/ Fault("recoveryPublishError")) /\ UNCHANGED stored
            BY <3>2 DEF Unpublishable, NoFault, Fault, stored, TypeOK
        <3> QED
            BY <2>1, <3>1, <3>2
    <2>4. CASE ChunkEnds(b)
        BY <2>2, <2>3, <2>4, ChunkEndsType
    <2>5. CASE /\ batch # {b}
               /\ batch' = batch \ {b} /\ lastInChunk' = b
               /\ UNCHANGED <<loop, from, target, recovered, inOrder, leftOut, base>>
        BY <2>2, <2>3, <2>5 DEF loop, chain, TypeOK, Placed, Recovering, ChunkEnd
    <2>6. CASE UNCHANGED stored /\ lastInChunk = -1 /\ ChunkFails
        BY <2>2, <2>3, <2>6, ChunkFailsType DEF stored
    <2>7. CASE lastInChunk # -1 /\ ChunkEnds(lastInChunk)
        BY <2>2, <2>3, <2>7, ChunkEndsType DEF Placed
    <2> QED
        BY <2>1, <2>4, <2>5, <2>6, <2>7
<1>8. CASE NewBlock
    BY <1>8 DEF NewBlock, loop, recovery, chunk, history, stored, TypeOK, Placed, Recovering,
                ChunkEnd, Blocks
<1>9. CASE NodeCatchesUp
    BY <1>9 DEF NodeCatchesUp, loop, recovery, chunk, history, stored, TypeOK, Placed,
                Recovering, ChunkEnd, Blocks
<1>10. CASE TwoMinutesPass
    BY <1>10 DEF TwoMinutesPass, chain, recovery, chunk, history, stored, TypeOK, Placed,
                 Recovering, ChunkEnd
<1>11. CASE Restart
    BY <1>11 DEF Restart, Fault, Disarm, EndChunk, chain, history, stored, TypeOK, Placed,
                 Recovering
<1>12. CASE UNCHANGED vars
    BY <1>12 DEF vars, chain, loop, recovery, chunk, history, stored, TypeOK, Placed,
                 Recovering, ChunkEnd
<1> QED
    BY <1>1, <1>2, <1>3, <1>4, <1>5, <1>6, <1>7, <1>8, <1>9, <1>10, <1>11, <1>12
    DEF Next, Tick

LEMMA TypeInvariant ==
    Spec => []TypeInv
BY TypeInit, TypeStep, PTL DEF Spec

\* Every variable of the feeder keeps its type; in particular no block number leaves
\* the chain, whatever fails between the chunks of a recovery.
THEOREM TypeCorrect ==
    Spec => []TypeOK
<1>1. TypeInv => TypeOK
    BY DEF TypeInv
<1> QED
    BY <1>1, TypeInvariant, PTL

-----------------------------------------------------------------------------
(* The gaps *)

\* What ends a chunk excuses every block of it up to the one the loop or the next chunk
\* resumes after.
LEMMA ChunkEndsExcuses ==
    ASSUME TypeInv, pc = "publishChunk", NEW last \in from..ChunkEnd, ChunkEnds(last)
    PROVE  /\ pc' \in {"tick", "chunk"}
           /\ pc' = "tick"  => prev' = last /\ from..last \subseteq Excused'
           /\ pc' = "chunk" => /\ prev' = prev /\ recovered' = last
                               /\ from' = ChunkEnd + 1
                               /\ from..ChunkEnd \subseteq Excused'
<1> Recovering
    BY DEF Recovering
<1>1. CASE /\ from + ChunkSize > target
           /\ EndRecovery(last)
           /\ leftOut' = leftOut \cup ((from..last) \ (published' \cup lost'))
    BY <1>1 DEF EndRecovery, Excused
<1>2. CASE /\ from + ChunkSize <= target
           /\ pc' = "chunk" /\ recovered' = last /\ from' = from + ChunkSize
           /\ leftOut' = leftOut \cup ((from..ChunkEnd) \ (published' \cup lost'))
           /\ UNCHANGED <<prev, window, block, target, base>>
    <2>1. from' = ChunkEnd + 1
        BY <1>2, ChunkBorders, FeederAssumption DEF Blocks
    <2> QED
        BY <1>2, <2>1 DEF Excused
<1> QED
    BY <1>1, <1>2 DEF ChunkEnds

\* The stream forgets no block and no step takes back why a block is not in it.
LEMMA ExcusedGrows ==
    ASSUME TypeInv, [Next]_vars
    PROVE  Excused \subseteq Excused'
<1> SUFFICES published \subseteq published' /\ lost \subseteq lost' /\ leftOut \subseteq leftOut'
    BY DEF Excused
<1>1. CASE Publish
    BY <1>1 DEF Publish, Store, stored
<1>2. CASE StartRecovery
    BY <1>2 DEF StartRecovery, stored
<1>3. CASE FetchChunk
    BY <1>3 DEF FetchChunk, ChunkFails, stored
<1>4. CASE PublishRecovered
    BY <1>4 DEF PublishRecovered, Store, ChunkFails, ChunkEnds, stored
<1>5. CASE UNCHANGED stored /\ UNCHANGED leftOut
    BY <1>5 DEF stored
<1> QED
    BY <1>1, <1>2, <1>3, <1>4, <1>5
    DEF Next, Tick, FetchLatest, FetchNext, FetchReceipts, NewBlock, NodeCatchesUp,
        TwoMinutesPass, Restart, vars, history

LEMMA GapsInit ==
    Init => GapsInv
BY DEF Init, GapsInv, Recovering

\* Every step keeps the gaps excused: moving on by one block, resuming after a recovery
\* and crossing from one chunk to the next.
LEMMA GapsStep ==
    ASSUME TypeInv, TypeInv', GapsInv, [Next]_vars
    PROVE  GapsInv'
<1> USE DEF GapsInv
<1>0. Excused \subseteq Excused'
    BY ExcusedGrows
<1>1. CASE FetchLatest
    BY <1>0, <1>1 DEF FetchLatest, recovery, history, Recovering
<1>2. CASE FetchNext
    BY <1>0, <1>2 DEF FetchNext, recovery, history, Recovering
<1>3. CASE FetchReceipts
    BY <1>0, <1>3 DEF FetchReceipts, recovery, history, Recovering
<1>4. CASE Publish
    <2>1. ASSUME MoveTo(block), block \in Excused'
          PROVE  prev' = block /\ base'..prev' \subseteq Excused'
        <3>1. prev' = block /\ block \in Nat /\ prev \in Int /\ base \in Nat
            BY <2>1 DEF MoveTo, TypeInv, TypeOK, Blocks
        <3>2. CASE prev = -1
            BY <2>1, <3>1, <3>2 DEF MoveTo
        <3>3. CASE prev # -1
            <4>1. base' = base /\ block = prev + 1
                BY <1>4, <2>1, <3>3 DEF MoveTo, Publish
            <4>2. base..(prev + 1) \subseteq base..prev \cup {prev + 1}
                BY <3>1
            <4> QED
                BY <1>0, <2>1, <3>1, <3>3, <4>1, <4>2
        <3> QED
            BY <3>2, <3>3
    <2>2. CASE Unpublishable(block) /\ MoveTo(block)
        BY <1>4, <2>1, <2>2 DEF Unpublishable, Excused, Publish, Recovering
    <2>3. CASE Store(block) /\ MoveTo(block)
        BY <1>4, <2>1, <2>3 DEF Store, Excused, Publish, Recovering
    <2>4. CASE UNCHANGED <<prev, base>>
        BY <1>0, <1>4, <2>4 DEF Publish, Recovering
    <2> QED
        BY <1>4, <2>2, <2>3, <2>4 DEF Publish
<1>5. CASE StartRecovery
    <2>1. CASE EndRecovery(-1)
        BY <2>1 DEF EndRecovery, Recovering
    <2>2. ASSUME pc' = "chunk", from' = prev + 1, recovered' = -1, UNCHANGED <<prev, base>>
          PROVE  GapsInv'
        BY <1>0, <1>5, <2>2 DEF StartRecovery, Recovering, TypeInv, TypeOK, Placed, Blocks
    <2> QED
        BY <1>5, <2>1, <2>2 DEF StartRecovery
<1>6. ASSUME Recovering, ChunkFails
      PROVE  GapsInv'
    BY <1>0, <1>6 DEF ChunkFails, EndRecovery, Recovering, TypeInv, TypeOK, Blocks
<1>7. ASSUME pc = "publishChunk", NEW last \in from..ChunkEnd, ChunkEnds(last)
      PROVE  GapsInv'
    <2>1. Recovering /\ base' = base
        BY <1>7 DEF Recovering, ChunkEnds, EndRecovery
    <2>2. /\ base..last \subseteq base..(from - 1) \cup from..last
          /\ base..ChunkEnd \subseteq base..(from - 1) \cup from..ChunkEnd
          /\ last < ChunkEnd + 1
        BY <2>1, ChunkBorders DEF TypeInv, TypeOK, Blocks
    <2>3. CASE pc' = "tick"
        BY <1>0, <1>7, <2>1, <2>2, <2>3, ChunkEndsExcuses DEF Recovering
    <2>4. CASE pc' = "chunk"
        <3>1. from' - 1 = ChunkEnd
            BY <1>7, <2>1, <2>4, ChunkEndsExcuses, ChunkBorders DEF Blocks
        <3> QED
            BY <1>0, <1>7, <2>1, <2>2, <2>4, <3>1, ChunkEndsExcuses DEF Recovering
    <2> QED
        BY <1>7, <2>3, <2>4, ChunkEndsExcuses
<1>8. CASE FetchChunk
    <2>1. CASE ChunkFails
        BY <1>6, <1>8, <2>1 DEF FetchChunk, Recovering
    <2>2. CASE pc' = "publishChunk" /\ UNCHANGED <<prev, from, recovered, base>>
        BY <1>0, <1>8, <2>2 DEF FetchChunk, Recovering
    <2> QED
        BY <1>8, <2>1, <2>2 DEF FetchChunk
<1>9. CASE PublishRecovered
    <2>1. pc = "publishChunk" /\ Recovering /\ batch \subseteq from..ChunkEnd
        BY <1>9 DEF PublishRecovered, Recovering, TypeInv, Placed
    <2>2. CASE \E b \in batch : ChunkEnds(b)
        BY <1>7, <2>1, <2>2
    <2>3. CASE ChunkFails
        BY <1>6, <2>1, <2>3
    <2>4. CASE lastInChunk # -1 /\ ChunkEnds(lastInChunk)
        BY <1>7, <2>1, <2>4 DEF TypeInv, Placed
    <2>5. CASE UNCHANGED <<loop, from, target, recovered, base>>
        BY <1>0, <2>5 DEF loop, Recovering
    <2> QED
        BY <1>9, <2>2, <2>3, <2>4, <2>5 DEF PublishRecovered
<1>10. CASE NewBlock \/ NodeCatchesUp \/ TwoMinutesPass \/ UNCHANGED vars
    BY <1>0, <1>10
    DEF NewBlock, NodeCatchesUp, TwoMinutesPass, vars, loop, recovery, history, Recovering
<1>11. CASE Restart
    BY <1>11 DEF Restart, Recovering
<1> QED
    BY <1>1, <1>2, <1>3, <1>4, <1>5, <1>8, <1>9, <1>10, <1>11 DEF Next, Tick

\* Whatever fails, in whatever order a batch is answered and wherever the process is
\* restarted: a block between the first and the last that the feeder moved past is
\* missing only because a publish failed unnoticed or its chunk was not published whole.
THEOREM GapsHaveCauses ==
    Spec => []GapsAreExplained
<1>1. TypeInv /\ GapsInv /\ TypeInv' /\ [Next]_vars => GapsInv'
    BY GapsStep
<1>2. GapsInv => GapsAreExplained
    BY DEF GapsInv, GapsAreExplained, Excused
<1> QED
    BY <1>1, <1>2, GapsInit, TypeInvariant, PTL DEF Spec

-----------------------------------------------------------------------------
(* The blocks without receipts *)

LEMMA TipInit ==
    Init => TipInv
BY FeederAssumption DEF Init, TipInv

\* No step lets a node fall more than Lag blocks behind, and a chunk's receipts miss
\* only what the node that answered did not know.
LEMMA TipStep ==
    ASSUME TypeInv, TipInv, [Next]_vars
    PROVE  TipInv'
<1> USE FeederAssumption DEF TipInv
<1>1. CASE FetchLatest
    BY <1>1 DEF FetchLatest, chain, recovery, chunk
<1>2. CASE FetchNext
    BY <1>2 DEF FetchNext, chain, recovery, chunk
<1>3. CASE FetchReceipts
    BY <1>3 DEF FetchReceipts, chain, recovery, chunk
<1>4. CASE Publish
    BY <1>4 DEF Publish, chain
<1>5. CASE StartRecovery
    BY <1>5 DEF StartRecovery, EndRecovery, chain
<1>6. CASE FetchChunk
    <2>1. CASE ChunkFails
        BY <1>6, <2>1 DEF FetchChunk, ChunkFails, EndRecovery, chain
    <2>2. ASSUME NEW view \in Views, receipts' = ReceiptsOf(batch', view),
                 batch' \subseteq Blocks, pc' = "publishChunk", target' = target
          PROVE  TipInv'
        <3>1. Recovering
            BY <1>6 DEF FetchChunk, Recovering
        <3>2. target <= head /\ view >= slow /\ view \in Nat /\ target \in Nat /\ slow \in Nat
              /\ head \in Nat
            BY <3>1 DEF TypeInv, TypeOK, Placed, Views, Blocks
        <3> SUFFICES ASSUME NEW b \in batch' \ receipts'
                     PROVE  b > target - Lag
            BY <1>6, <2>2 DEF FetchChunk, chain
        <3>3. b > view
            BY <2>2, <3>2 DEF ReceiptsOf, Knows, Blocks
        <3> QED
            BY <2>2, <3>2, <3>3 DEF Blocks
    <2>3. ASSUME NEW view \in Views, batch' = BlocksInRange(from, ChunkEnd, view)
          PROVE  batch' \subseteq Blocks
        BY <1>6, <2>3, ChunkBorders
        DEF FetchChunk, Recovering, BlocksInRange, Lower, Views, TypeInv, TypeOK, Blocks
    <2> QED
        BY <1>6, <2>1, <2>2, <2>3 DEF FetchChunk
<1>7. CASE PublishRecovered
    <2>1. CASE \E last : ChunkEnds(last)
        BY <1>7, <2>1 DEF PublishRecovered, ChunkEnds, EndRecovery, chain
    <2>2. CASE ChunkFails
        BY <1>7, <2>2 DEF PublishRecovered, ChunkFails, EndRecovery, chain
    <2>3. CASE \E b \in batch : batch' = batch \ {b} /\ UNCHANGED <<loop, target>>
        BY <1>7, <2>3 DEF PublishRecovered, loop, chain
    <2> QED
        BY <1>7, <2>1, <2>2, <2>3 DEF PublishRecovered
<1>8. CASE NewBlock
    BY <1>8 DEF NewBlock, loop, recovery, chunk, TypeInv, TypeOK, Blocks
<1>9. CASE NodeCatchesUp
    BY <1>9 DEF NodeCatchesUp, loop, recovery, chunk, TypeInv, TypeOK, Blocks
<1>10. CASE TwoMinutesPass \/ UNCHANGED vars
    BY <1>10 DEF TwoMinutesPass, vars, chain, loop, recovery, chunk
<1>11. CASE Restart
    BY <1>11 DEF Restart, chain
<1> QED
    BY <1>1, <1>2, <1>3, <1>4, <1>5, <1>6, <1>7, <1>8, <1>9, <1>10, <1>11 DEF Next, Tick

\* Only a recovery sends a block without its receipts, and only a block that is among
\* the last of the gap: the loop's own blocks always carry them.
LEMMA BareStep ==
    ASSUME TypeInv, TipInv, [Next]_vars
    PROVE  \A b \in bare' \ bare : pc = "publishChunk" /\ b > target - Lag
<1>1. CASE Publish
    <2>1. bare' \subseteq bare
        BY <1>1 DEF Publish, Store, stored, TipInv
    <2> QED
        BY <2>1
<1>2. CASE PublishRecovered
    BY <1>2 DEF PublishRecovered, Store, stored, TipInv
<1>3. CASE UNCHANGED bare
    BY <1>3
<1> QED
    BY <1>1, <1>2, <1>3
    DEF Next, Tick, FetchLatest, FetchNext, FetchReceipts, StartRecovery, FetchChunk, NewBlock,
        NodeCatchesUp, TwoMinutesPass, Restart, vars, history, stored

\* For any lag of the nodes and any faults: bots get the transactions of every block
\* except, after a recovery, of those among its last Lag ones.
THEOREM BareOnlyAtTheTip ==
    Spec => BareAtTheTipOnly
<1>1. TypeInv /\ TipInv /\ [Next]_vars => TipInv'
    BY TipStep
<1>2. TypeInv /\ TipInv /\ [Next]_vars
          => [\A b \in bare' \ bare : pc = "publishChunk" /\ b > target - Lag]_vars
    BY BareStep
<1> QED
    BY <1>1, <1>2, TipInit, TypeInvariant, PTL DEF Spec, BareAtTheTipOnly

-----------------------------------------------------------------------------
(* No gap at all *)

\* No publish of a recovery fails and none is lost, every block fits, and no node is more
\* than one block late.
Benign ==
    /\ Faults \cap {"recoveryPublishError", "asyncLoss"} = {}
    /\ Oversized = {} /\ Lag <= 1

\* What is not in the batch any more is stored; what never was is the target, and then
\* nothing after it is published.
WholeInv ==
    /\ lost = {} /\ leftOut \subseteq published
    /\ pc = "publishChunk" => (from..ChunkEnd) \ batch \subseteq published \cup {target}

\* A chunk that was fetched lacks at most the target.
LEMMA ChunkNearlyWhole ==
    ASSUME Benign, TypeInv, TipInv, pc = "chunk", NEW view \in Views,
           batch' = BlocksInRange(from, ChunkEnd, view)
    PROVE  (from..ChunkEnd) \ batch' \subseteq {target}
<1>1. Recovering
    BY DEF Recovering
<1>2. /\ view \in Nat /\ target \in Nat /\ from \in Nat /\ ChunkEnd \in Nat
      /\ view >= target - 1 /\ ChunkEnd <= target
    BY <1>1, ChunkBorders, FeederAssumption
    DEF Benign, TypeInv, TypeOK, Placed, TipInv, Views, Blocks
<1> QED
    BY <1>2 DEF BlocksInRange, Lower

\* A chunk whose last block has been stored leaves nothing out.
LEMMA ChunkEndsWhole ==
    ASSUME TypeInv, WholeInv, pc = "publishChunk", NEW b, batch = {b}, ChunkEnds(b),
           published' = published \cup {b}, lost' = {}
    PROVE  WholeInv'
<1>1. Recovering /\ b \in from..ChunkEnd
    BY DEF Recovering, TypeInv, Placed
<1>2. (from..ChunkEnd) \ {b} \subseteq published \cup {target}
    BY DEF WholeInv
<1>3. CASE leftOut' = leftOut \cup ((from..b) \ (published' \cup lost'))
    <2>1. \A c \in from..b : c \in published \/ c = b
        BY <1>1, <1>2, ChunkBorders DEF Blocks
    <2> QED
        BY <1>3, <2>1 DEF WholeInv, ChunkEnds, EndRecovery
<1>4. CASE /\ from + ChunkSize <= target
           /\ leftOut' = leftOut \cup ((from..ChunkEnd) \ (published' \cup lost'))
    <2>1. \A c \in from..ChunkEnd : c \in published \/ c = b
        BY <1>1, <1>2, <1>4, ChunkBorders, FeederAssumption DEF Blocks
    <2> QED
        BY <1>4, <2>1 DEF WholeInv, ChunkEnds, EndRecovery
<1> QED
    BY <1>3, <1>4 DEF ChunkEnds

\* Under these conditions every step leaves the recovered chunks whole.
LEMMA WholeStep ==
    ASSUME Benign, TypeInv, TipInv, WholeInv, [Next]_vars
    PROVE  WholeInv'
<1>1. ASSUME NEW b, Store(b)
      PROVE  published' = published \cup {b} /\ lost' = {}
    BY <1>1 DEF Store, Fault, Benign, WholeInv
<1>2. CASE FetchLatest \/ FetchNext \/ FetchReceipts
    BY <1>2
    DEF FetchLatest, FetchNext, FetchReceipts, history, stored, recovery, chunk, WholeInv, ChunkEnd
<1>3. CASE Publish
    BY <1>1, <1>3 DEF Publish, Unpublishable, stored, Benign, WholeInv
<1>4. CASE StartRecovery
    BY <1>4 DEF StartRecovery, EndRecovery, stored, WholeInv
<1>5. CASE FetchChunk
    <2>1. CASE ChunkFails
        BY <1>5, <2>1 DEF FetchChunk, ChunkFails, EndRecovery, stored, WholeInv
    <2>2. ASSUME NEW view \in Views, batch' = BlocksInRange(from, ChunkEnd, view),
                 UNCHANGED <<from, target, leftOut>>
          PROVE  WholeInv'
        <3>1. (from..ChunkEnd) \ batch' \subseteq {target}
            BY <1>5, <2>2, ChunkNearlyWhole DEF FetchChunk
        <3> QED
            BY <1>5, <2>2, <3>1 DEF FetchChunk, stored, WholeInv, ChunkEnd
    <2> QED
        BY <1>5, <2>1, <2>2 DEF FetchChunk
<1>6. CASE PublishRecovered
    <2>1. PICK b \in batch :
             /\ Store(b)
             /\ \/ batch = {b} /\ ChunkEnds(b)
                \/ /\ batch' = batch \ {b}
                   /\ UNCHANGED <<loop, from, target, leftOut>>
        BY <1>6 DEF PublishRecovered, Unpublishable, Fault, Benign
    <2>2. CASE batch = {b} /\ ChunkEnds(b)
        BY <1>1, <1>6, <2>1, <2>2, ChunkEndsWhole DEF PublishRecovered
    <2>3. CASE batch' = batch \ {b} /\ UNCHANGED <<loop, from, target, leftOut>>
        BY <1>1, <2>1, <2>3 DEF WholeInv, loop, ChunkEnd
    <2> QED
        BY <2>1, <2>2, <2>3
<1>7. CASE NewBlock \/ NodeCatchesUp \/ TwoMinutesPass
    BY <1>7
    DEF NewBlock, NodeCatchesUp, TwoMinutesPass, loop, history, stored, recovery, chunk,
        WholeInv, ChunkEnd
<1>8. CASE Restart
    BY <1>8 DEF Restart, history, stored, WholeInv
<1>9. CASE UNCHANGED vars
    BY <1>9 DEF vars, loop, history, stored, recovery, chunk, WholeInv, ChunkEnd
<1> QED
    BY <1>2, <1>3, <1>4, <1>5, <1>6, <1>7, <1>8, <1>9 DEF Next, Tick

\* What it takes for bots to see every block between two that they see: that every block
\* fits, that no publish of a recovery fails and none is lost after PublishAsync, and
\* that nodes are one block late at most. Failing calls and publishes of the loop itself,
\* a batch answered in any order and restarts leave no gap.
THEOREM NoGapWhenBenign ==
    ASSUME Benign
    PROVE  Spec => []NoGapSinceStart
<1>1. Init => WholeInv
    BY DEF Init, WholeInv
<1>2. TypeInv /\ TipInv /\ WholeInv /\ [Next]_vars => WholeInv'
    BY WholeStep
<1>3. GapsInv /\ WholeInv => NoGapSinceStart
    BY DEF GapsInv, WholeInv, NoGapSinceStart, Excused
<1>4. TypeInv /\ TipInv /\ [Next]_vars => TipInv'
    BY TipStep
<1>5. TypeInv /\ GapsInv /\ TypeInv' /\ [Next]_vars => GapsInv'
    BY GapsStep
<1> QED
    BY <1>1, <1>2, <1>3, <1>4, <1>5, TipInit, GapsInit, TypeInvariant, PTL DEF Spec
=============================================================================
