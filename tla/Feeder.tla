------------------------------- MODULE Feeder -------------------------------
(***************************************************************************)
(* The feeder's loop (internal/app/feeder): on every tick it fetches the   *)
(* block after the last published one and publishes it; when a block could *)
(* not be fetched for two minutes it recovers the missed ones in chunks.   *)
(*                                                                         *)
(* Blocks are their numbers; the chain only grows. The calls go to a URL    *)
(* behind which several nodes answer, some of them a few blocks late. An   *)
(* RPC call that the client has retried in vain, a publish that fails, and *)
(* an answer to a batch in another order than the requests are faults.     *)
(***************************************************************************)
EXTENDS Integers

CONSTANTS
    MaxBlock,    \* the chain stops growing here
    Oversized,   \* blocks whose message exceeds the payload limit of NATS
    ChunkSize,   \* RecoverChunkSize
    Lag,         \* how many blocks a node behind the RPC URL may be late
    Faults,      \* the faults of the environment that may happen
    MaxFaults    \* how many of them may happen in one behaviour

Blocks == 1..MaxBlock

FaultNames == {"rpcError", "publishError", "recoveryPublishError", "asyncLoss",
               "shuffled", "restart"}

ASSUME FeederAssumption ==
    /\ MaxBlock \in Nat \ {0} /\ ChunkSize \in Nat \ {0}
    /\ Oversized \subseteq Blocks
    /\ Lag \in Nat /\ MaxFaults \in Nat
    /\ Faults \subseteq FaultNames

VARIABLES
    head,        \* the newest block of the chain
    slow,        \* the newest block of the node that is furthest behind
    prev,        \* prevBlockNumber, -1 when there is none
    window,      \* fetchStartTime: zero, set, or set more than 2 minutes ago
    pc,          \* what the loop does next
    block,       \* the block it is working on
    receipts,    \* blocks it has fetched the receipts of
    from,        \* recovery: first block of the chunk
    target,      \* recovery: latestNumber
    recovered,   \* recovery: latestPubBlock of the chunks before, -1 when there is none
    batch,       \* recovery: blocks of the chunk still to be published
    inOrder,     \* recovery: the answer lists them in the order of their numbers
    lastInChunk, \* recovery: latestPubBlock of this chunk, -1 when there is none
    published,   \* history: blocks the stream has stored
    bare,        \* history: those it has stored without their receipts
    lost,        \* history: blocks whose asynchronous publish failed unnoticed
    leftOut,     \* history: blocks of a recovered chunk that was not published whole
    base,        \* history: first block after prev was last unset
    faults       \* number of faults so far

chain == <<head, slow>>
loop == <<prev, window, pc, block, receipts>>
chunk == <<batch, inOrder, lastInChunk>>
recovery == <<from, target, recovered, chunk>>
stored == <<published, bare, lost>>
history == <<stored, leftOut, base>>
vars == <<chain, loop, recovery, history, faults>>

TypeOK ==
    /\ head \in Blocks /\ slow \in 1..head
    /\ prev \in Blocks \cup {-1}
    /\ window \in {"zero", "armed", "elapsed"}
    /\ pc \in {"tick", "receipts", "publish", "recover", "chunk", "publishChunk"}
    /\ block \in Blocks /\ receipts \subseteq Blocks
    /\ from \in Nat /\ target \in Blocks
    /\ recovered \in Blocks \cup {-1}
    /\ batch \subseteq Blocks /\ inOrder \in BOOLEAN
    /\ lastInChunk \in Blocks \cup {-1}
    /\ published \subseteq Blocks /\ bare \subseteq published
    /\ lost \subseteq Blocks /\ leftOut \subseteq Blocks
    /\ base \in Blocks
    /\ faults \in 0..MaxFaults

Init ==
    /\ head = 1 /\ slow = 1
    /\ prev = -1
    /\ window = "zero"
    /\ pc = "tick"
    /\ block = 1 /\ receipts = {}
    /\ from = 1 /\ target = 1 /\ recovered = -1
    /\ batch = {} /\ inOrder = TRUE /\ lastInChunk = -1
    /\ published = {} /\ bare = {} /\ lost = {} /\ leftOut = {}
    /\ base = 1
    /\ faults = 0

NoFault == UNCHANGED faults

Fault(kind) ==
    /\ kind \in Faults
    /\ faults < MaxFaults
    /\ faults' = faults + 1

-----------------------------------------------------------------------------
(* The RPC client (internal/pkg/chain) *)

\* The newest block that the node knows which answers a call.
Views == slow..head

\* A call for one block. Its result is null (ErrEmptyResponse, which is not tried
\* again) when the node does not know the block; any other error is tried six times.
Knows(view, b) == b <= view
RpcFails == Fault("rpcError")

Lower(m, n) == IF m < n THEN m ELSE n

\* The two batches of calls: a null result, of a block the node does not know, is
\* left out, and one error fails the whole batch.
BlocksInRange(first, last, view) == first..Lower(last, view)
ReceiptsOf(blocks, view) == {b \in blocks : Knows(view, b)}

-----------------------------------------------------------------------------
(* The recovery window *)

\* fetchStartTime is set unless it is set already.
Arm    == window' = IF window = "zero" THEN "armed" ELSE window
Disarm == window' = "zero"

-----------------------------------------------------------------------------
(* publishBlock *)

\* A block that is too large never leaves the client; its error is permanent.
Unpublishable(b) == b \in Oversized /\ NoFault

\* The message is made of the block and those receipts of it that were fetched.
\* PublishAsync returns before the stream has stored it, and nobody looks at what
\* becomes of it. The stream drops a second copy: the hash is the message id.
Store(b) ==
    /\ b \notin Oversized
    /\ \/ /\ NoFault
          /\ published' = published \cup {b}
          /\ bare' = bare \cup ({b} \ (receipts \cup published))
          /\ UNCHANGED lost
       \/ Fault("asyncLoss") /\ lost' = lost \cup {b} /\ UNCHANGED <<published, bare>>

-----------------------------------------------------------------------------
(* One block per tick *)

\* GetLatestBlock, at the start and after a recovery that failed. An error is
\* retried on the next tick; fetchStartTime is not touched.
FetchLatest ==
    /\ pc = "tick" /\ prev = -1
    /\ \/ NoFault /\ block' \in Views /\ pc' = "receipts"
       \/ RpcFails /\ UNCHANGED <<block, pc>>
    /\ UNCHANGED <<chain, prev, window, receipts, recovery, history>>

\* Mutant: a null result is taken for the block.
FetchNext_TakesNull ==
    /\ pc = "tick" /\ prev # -1
    /\ block' = prev + 1 /\ pc' = "receipts" /\ Disarm
    /\ UNCHANGED <<chain, prev, receipts, recovery, history, faults>>

\* FetchBlockByNumber(prev + 1). ErrEmptyResponse means that the block is not
\* there yet: it sets fetchStartTime but never starts a recovery.
FetchNext ==
    /\ pc = "tick" /\ prev # -1
    /\ \/ /\ NoFault
          /\ \E view \in Views :
             \/ /\ Knows(view, prev + 1)
                /\ block' = prev + 1 /\ pc' = "receipts" /\ Disarm
             \/ /\ ~Knows(view, prev + 1)
                /\ Arm /\ UNCHANGED <<block, pc>>
       \/ /\ RpcFails
          /\ Arm
          /\ pc' = IF window = "elapsed" THEN "recover" ELSE "tick"
          /\ UNCHANGED block
    /\ UNCHANGED <<chain, prev, receipts, recovery, history>>

\* Mutant: no receipts are taken for a block without transactions.
FetchReceipts_TakesNull ==
    /\ pc = "receipts"
    /\ \E view \in Views : receipts' = ReceiptsOf({block}, view)
    /\ pc' = "publish"
    /\ UNCHANGED <<chain, prev, window, block, recovery, history, faults>>

\* GetBlockReceipts. A node that does not know the block yet answers null, which
\* is an error too. An error leaves prev alone: the block is fetched again.
FetchReceipts ==
    /\ pc = "receipts"
    /\ \/ /\ NoFault
          /\ \E view \in Views :
             \/ Knows(view, block) /\ receipts' = {block} /\ pc' = "publish"
             \/ ~Knows(view, block) /\ pc' = "tick" /\ UNCHANGED receipts
       \/ RpcFails /\ pc' = "tick" /\ UNCHANGED receipts
    /\ UNCHANGED <<chain, prev, window, block, recovery, history>>

MoveTo(b) ==
    /\ prev' = b
    /\ base' = IF prev = -1 THEN b ELSE base

\* Mutant: a block that will never fit is retried like any other.
Publish_RetriesOversized ==
    /\ pc = "publish"
    /\ \/ (Unpublishable(block) \/ Fault("publishError"))
             /\ Arm /\ UNCHANGED <<prev, base, stored>>
       \/ Store(block) /\ MoveTo(block) /\ UNCHANGED window
    /\ pc' = "tick" /\ receipts' = {}
    /\ UNCHANGED <<chain, block, recovery, leftOut>>

\* An oversized block is skipped; a publish that fails sets fetchStartTime and
\* leaves prev alone.
Publish ==
    /\ pc = "publish"
    /\ \/ Unpublishable(block) /\ MoveTo(block) /\ UNCHANGED <<stored, window>>
       \/ Store(block) /\ MoveTo(block) /\ UNCHANGED window
       \/ Fault("publishError") /\ Arm /\ UNCHANGED <<prev, base, stored>>
    /\ pc' = "tick" /\ receipts' = {}
    /\ UNCHANGED <<chain, block, recovery, leftOut>>

-----------------------------------------------------------------------------
(* recoverMissedBlocks *)

\* Run resumes after block b, or from the latest block when there is none.
EndRecovery(b) ==
    /\ prev' = b
    /\ pc' = "tick"
    /\ Disarm
    /\ UNCHANGED <<block, from, target, recovered, base>>

StartRecovery ==
    /\ pc = "recover"
    /\ \/ /\ NoFault
          /\ \E view \in Views :
             \/ view <= prev /\ EndRecovery(-1)
             \/ /\ view > prev
                /\ pc' = "chunk"
                /\ from' = prev + 1 /\ target' = view /\ recovered' = -1
                /\ UNCHANGED <<prev, window, block, base>>
       \/ RpcFails /\ EndRecovery(-1)
    /\ UNCHANGED <<chain, receipts, chunk, stored, leftOut>>

ChunkEnd == Lower(from + ChunkSize - 1, target)

EndChunk == batch' = {} /\ inOrder' = TRUE /\ lastInChunk' = -1 /\ receipts' = {}

\* The chunk published nothing: what earlier chunks published counts, if any.
ChunkFails == EndRecovery(recovered) /\ EndChunk /\ UNCHANGED leftOut

\* Mutant: the next chunk starts one block late.
ChunkEnds_OffByOne(last) ==
    /\ EndChunk
    /\ \/ from + ChunkSize > target /\ EndRecovery(last) /\ UNCHANGED leftOut
       \/ /\ from + ChunkSize <= target
          /\ pc' = "chunk" /\ recovered' = last /\ from' = from + ChunkSize + 1
          /\ leftOut' = leftOut \cup ((from..ChunkEnd) \ (published' \cup lost'))
          /\ UNCHANGED <<prev, window, block, target, base>>

\* The chunk published blocks, the last of them last; whether that is all of it or
\* not, the next chunk follows.
ChunkEnds(last) ==
    /\ EndChunk
    /\ \/ /\ from + ChunkSize > target
          /\ EndRecovery(last)
          /\ leftOut' = leftOut \cup ((from..last) \ (published' \cup lost'))
       \/ /\ from + ChunkSize <= target
          /\ pc' = "chunk" /\ recovered' = last /\ from' = from + ChunkSize
          /\ leftOut' = leftOut \cup ((from..ChunkEnd) \ (published' \cup lost'))
          /\ UNCHANGED <<prev, window, block, target, base>>

\* recoverBlockRange: the blocks of the chunk that one node knows and those of
\* their receipts that another knows.
FetchChunk ==
    /\ pc = "chunk"
    /\ \/ /\ \E view \in Views : batch' = BlocksInRange(from, ChunkEnd, view)
          /\ batch' # {}
          /\ \E view \in Views : receipts' = ReceiptsOf(batch', view)
          /\ \/ NoFault /\ inOrder' = TRUE
             \/ Fault("shuffled") /\ inOrder' = FALSE
          /\ pc' = "publishChunk" /\ lastInChunk' = -1
          /\ UNCHANGED <<prev, window, block, from, target, recovered, base, leftOut>>
       \/ /\ \E view \in Views : BlocksInRange(from, ChunkEnd, view) = {}
          /\ NoFault /\ ChunkFails
       \/ RpcFails /\ ChunkFails
    /\ UNCHANGED <<chain, stored>>

\* The blocks are published in the order of the answer, up to the first that
\* cannot be: an oversized block is not skipped here.
PublishRecovered ==
    /\ pc = "publishChunk"
    /\ \E b \in batch :
       /\ inOrder => \A other \in batch : b <= other
       /\ \/ /\ Store(b)
             /\ \/ batch = {b} /\ ChunkEnds(b)
                \/ /\ batch # {b}
                   /\ batch' = batch \ {b} /\ lastInChunk' = b
                   /\ UNCHANGED <<loop, from, target, recovered, inOrder, leftOut, base>>
          \/ /\ Unpublishable(b) \/ Fault("recoveryPublishError")
             /\ UNCHANGED stored
             /\ IF lastInChunk = -1 THEN ChunkFails ELSE ChunkEnds(lastInChunk)
    /\ UNCHANGED chain

-----------------------------------------------------------------------------
(* Environment *)

\* No node is ever more than Lag blocks late.
NewBlock ==
    /\ head < MaxBlock
    /\ head' = head + 1
    /\ slow' = IF slow < head' - Lag THEN head' - Lag ELSE slow
    /\ UNCHANGED <<loop, recovery, history, faults>>

NodeCatchesUp ==
    /\ slow < head
    /\ slow' = slow + 1
    /\ UNCHANGED <<head, loop, recovery, history, faults>>

TwoMinutesPass ==
    /\ window = "armed"
    /\ window' = "elapsed"
    /\ UNCHANGED <<chain, prev, pc, block, receipts, recovery, history, faults>>

\* The process is restarted: all it knows lives in memory.
Restart ==
    /\ Fault("restart")
    /\ prev' = -1 /\ Disarm /\ pc' = "tick"
    /\ EndChunk
    /\ UNCHANGED <<chain, block, from, target, recovered, history>>

Tick == FetchLatest \/ FetchNext \/ FetchReceipts \/ Publish
            \/ StartRecovery \/ FetchChunk \/ PublishRecovered

Next == Tick \/ NewBlock \/ NodeCatchesUp \/ TwoMinutesPass \/ Restart

Spec == Init /\ [][Next]_vars

\* The timer is reset on every path through the loop, the chain grows and every node
\* follows it.
FairSpec == Spec /\ WF_vars(Tick) /\ WF_vars(NewBlock) /\ WF_vars(NodeCatchesUp)

-----------------------------------------------------------------------------
(* Properties *)

\* Since the feeder last started from the latest block, no block up to prev is
\* missing from the stream except those that cannot be published. Bots see every
\* block between.
NoGapSinceStart ==
    prev # -1 => \A b \in base..prev : b \in published \cup Oversized

\* Whatever fails, and in whatever order a batch is answered, two things only can
\* leave a gap: an asynchronous publish nobody waits for, and a recovered chunk that
\* was not published whole. Moving on, resuming and the borders of chunks do not.
GapsAreExplained ==
    prev # -1 => \A b \in base..prev : b \in published \cup Oversized \cup lost \cup leftOut

\* A block goes out without its receipts only in a recovery, and only if it is among
\* the last of the gap, which some node did not know yet: bots see the transactions
\* of every other block.
BareAtTheTipOnly ==
    [][\A b \in bare' \ bare : pc = "publishChunk" /\ b > target - Lag]_vars

\* The feeder gets to the end of the chain whatever failed on the way: it is never
\* stuck on a block.
CatchesUp == <>[](prev = MaxBlock)
=============================================================================
