--------------------------- MODULE QuorumConsumer ---------------------------
(***************************************************************************)
(* The quorum path of the forwarder (internal/pkg/consumer): every cell    *)
(* runs one forwarder instance with its own NATS stream; the instances     *)
(* share one Redis, count there how many of them have seen a finding, and  *)
(* elect the one that posts it to a notification channel.                  *)
(*                                                                         *)
(* One step of a handler is one call it makes to the outside (Redis, NATS  *)
(* or the channel) together with the local code up to the next call, so    *)
(* handlers of different instances interleave between any two calls.       *)
(* Within an instance the callbacks of a consumer run one after another.   *)
(***************************************************************************)
EXTENDS Integers, FiniteSets

CONSTANTS
    Instances,   \* the forwarder instances (one per cell)
    Findings,    \* unique keys of the findings the bots publish
    Wanted,      \* the findings that pass severitySet and findingFilterMap
    Body,        \* Findings -> what the cool-down key hashes: bot, alert, text
    QuorumSize,  \* QUORUM_SIZE
    MaxDeliver,  \* ConsumerConfig.MaxDeliver; 0 is no limit
    Faults,      \* the faults of the environment that may happen
    MaxFaults    \* how many of them may happen in one behaviour

FaultNames == {"crash", "redisError", "lostReply", "sendError", "sendLost",
               "ackLost", "countExpiry", "statusExpiry", "cacheExpiry", "evict"}

ASSUME InstancesAssumption == IsFiniteSet(Instances)
ASSUME FindingsAssumption == Findings # {} /\ Wanted \subseteq Findings
ASSUME QuorumAssumption == QuorumSize \in Nat \ {0}
ASSUME BoundsAssumption == MaxDeliver \in Nat /\ MaxFaults \in Nat
ASSUME FaultsAssumption == Faults \subseteq FaultNames

VARIABLES
    count,       \* Redis: value of the count key (0 when there is none)
    stored,      \* Redis: findings whose count key exists
    mortal,      \* Redis: findings whose count key has a TTL
    status,      \* Redis: value of the status key ("not_send" when there is none)
    cooldown,    \* Redis: bodies whose cool-down key exists
    msg,         \* NATS: state of the message of a finding at an instance
    deliveries,  \* NATS: how often it was delivered, where there is a limit
    inbox,       \* copies the client of an instance has buffered
    cache,       \* the LRU of an instance: findings it has counted
    pc,          \* the call the handler of an instance makes next
    cur,         \* the finding it handles
    sighted,     \* history: instances whose handler has taken up a finding
    sent,        \* history: notifications an instance posted for a finding
    forgotten,   \* history: findings whose count key is gone though nobody took its
                 \* confirmation back: it expired, or was deleted for want of a TTL
    faults       \* number of faults so far

redis   == <<count, stored, mortal, status, cooldown>>
nats    == <<msg, deliveries, inbox>>
handler == <<cache, pc, cur>>
history == <<sighted, sent, forgotten>>
vars    == <<redis, nats, handler, history, faults>>

Statuses  == {"not_send", "sending", "sent"}
MsgStates == {"unpublished", "ready", "outstanding", "settled"}

\* The handler holds the claim on the send, or has yet to give it up.
Sending == {"send", "ack", "markSent", "decr", "dropCount", "release"}

\* The handler acts on the status it has read.
PastStatus == {"cooldown", "claim", "setCool"} \cup Sending

PCs == {"idle", "incr", "expire", "undo", "get", "status", "shorten"}
           \cup PastStatus

RedisTypeOK ==
    /\ count \in [Findings -> Int]
    /\ stored \subseteq Findings
    /\ mortal \subseteq stored
    /\ status \in [Findings -> Statuses]
    /\ cooldown \subseteq {Body[f] : f \in Findings}

NatsTypeOK ==
    /\ msg \in [Instances -> [Findings -> MsgStates]]
    /\ deliveries \in [Instances -> [Findings -> Nat]]
    /\ inbox \in [Instances -> SUBSET Findings]

HandlerTypeOK ==
    /\ cache \in [Instances -> SUBSET Findings]
    /\ pc \in [Instances -> PCs]
    /\ cur \in [Instances -> Findings]

HistoryTypeOK ==
    /\ sighted \in [Findings -> SUBSET Instances]
    /\ sent \in [Instances -> [Findings -> Nat]]
    /\ forgotten \subseteq Findings
    /\ faults \in 0..MaxFaults

TypeOK == RedisTypeOK /\ NatsTypeOK /\ HandlerTypeOK /\ HistoryTypeOK

Init ==
    /\ count = [f \in Findings |-> 0]
    /\ stored = {}
    /\ mortal = {}
    /\ status = [f \in Findings |-> "not_send"]
    /\ cooldown = {}
    /\ msg = [i \in Instances |-> [f \in Findings |-> "unpublished"]]
    /\ deliveries = [i \in Instances |-> [f \in Findings |-> 0]]
    /\ inbox = [i \in Instances |-> {}]
    /\ cache = [i \in Instances |-> {}]
    /\ pc = [i \in Instances |-> "idle"]
    /\ cur = [i \in Instances |-> CHOOSE f \in Findings : TRUE]
    /\ sighted = [f \in Findings |-> {}]
    /\ sent = [i \in Instances |-> [f \in Findings |-> 0]]
    /\ forgotten = {}
    /\ faults = 0

-----------------------------------------------------------------------------
(* Redis commands: what each does to the keys of finding f. *)

IncrCount(f) ==
    /\ count' = [count EXCEPT ![f] = @ + 1]
    /\ stored' = stored \cup {f}
    /\ UNCHANGED <<mortal, status, cooldown>>

DecrCount(f) ==
    /\ count' = [count EXCEPT ![f] = @ - 1]
    /\ stored' = stored \cup {f}
    /\ UNCHANGED <<mortal, status, cooldown>>

DelCount(f) ==
    /\ count' = [count EXCEPT ![f] = 0]
    /\ stored' = stored \ {f}
    /\ mortal' = mortal \ {f}
    /\ UNCHANGED <<status, cooldown>>

\* Mutant: EXPIRE taken to put a TTL on a key that is not there.
ExpireCountKey_Missing(f) ==
    /\ mortal' = mortal \cup {f}
    /\ UNCHANGED <<count, stored, status, cooldown>>

ExpireCountKey(f) ==
    /\ mortal' = mortal \cup ({f} \cap stored)
    /\ UNCHANGED <<count, stored, status, cooldown>>

SetStatus(f, s) ==
    /\ status' = [status EXCEPT ![f] = s]
    /\ UNCHANGED <<count, stored, mortal, cooldown>>

\* Mutant: the cool-down is never stored.
SetCoolDown_Forgotten(f) == UNCHANGED redis

SetCoolDown(f) ==
    /\ cooldown' = cooldown \cup {Body[f]}
    /\ UNCHANGED <<count, stored, mortal, status>>

\* Mutant: the script does not look at the status.
Claimable_AnyStatus(f) == f \in stored /\ count[f] >= QuorumSize

\* The test of the SetSendingStatus script, which Redis runs atomically.
Claimable(f) ==
    /\ f \in stored
    /\ count[f] >= QuorumSize
    /\ status[f] = "not_send"

SetSendingStatus(f) ==
    IF Claimable(f) THEN SetStatus(f, "sending") ELSE UNCHANGED redis

-----------------------------------------------------------------------------
(* Settling a message and moving the handler on. *)

Goto(i, p) == pc' = [pc EXCEPT ![i] = p]

Ack(i) == msg' = [msg EXCEPT ![i][cur[i]] = "settled"]

\* A nak of a copy whose message is already acknowledged is ignored.
Nak(i) == msg' = [msg EXCEPT ![i][cur[i]] = IF @ = "settled" THEN @ ELSE "ready"]

AckAndReturn(i) == Ack(i) /\ Goto(i, "idle")
NakAndReturn(i) == Nak(i) /\ Goto(i, "idle")

\* Mutant: the LRU is not told of the first sighting.
CacheAdd_Forgotten(i) == UNCHANGED cache

CacheAdd(i)    == cache' = [cache EXCEPT ![i] = @ \cup {cur[i]}]
CacheRemove(i) == cache' = [cache EXCEPT ![i] = @ \ {cur[i]}]

NoFault == UNCHANGED faults

Fault(kind) ==
    /\ kind \in Faults
    /\ faults < MaxFaults
    /\ faults' = faults + 1

\* The command did not reach Redis: the client returns an error.
RedisError == Fault("redisError") /\ UNCHANGED redis

\* What a handler step leaves alone besides what it says.
LocalStep == UNCHANGED <<deliveries, inbox, cur>>

-----------------------------------------------------------------------------
(* NATS: one stream and one durable consumer per instance. *)

\* The cell's own bot finds f and publishes it.
Publish(i, f) ==
    /\ msg[i][f] = "unpublished"
    /\ msg' = [msg EXCEPT ![i][f] = "ready"]
    /\ UNCHANGED <<redis, deliveries, inbox, handler, history, faults>>

\* The client buffers at most one copy of a message besides the one in hand.
Deliver(i, f) ==
    /\ msg[i][f] = "ready"
    /\ f \notin inbox[i]
    /\ msg' = [msg EXCEPT ![i][f] = "outstanding"]
    /\ \/ MaxDeliver = 0 /\ UNCHANGED deliveries
       \/ /\ deliveries[i][f] < MaxDeliver
          /\ deliveries' = [deliveries EXCEPT ![i][f] = @ + 1]
    /\ inbox' = [inbox EXCEPT ![i] = @ \cup {f}]
    /\ UNCHANGED <<redis, handler, history, faults>>

\* AckWait (with BackOff: 1s for the first delivery) may run out while the
\* copy is still buffered or in the hands of the handler.
AckTimeout(i, f) ==
    /\ msg[i][f] = "outstanding"
    /\ msg' = [msg EXCEPT ![i][f] = "ready"]
    /\ UNCHANGED <<redis, deliveries, inbox, handler, history, faults>>

-----------------------------------------------------------------------------
(* GetConsumeHandler *)

\* Broken messages are terminated and unwanted ones acknowledged; a wanted one
\* goes to INCR or, when the LRU says it was counted before, to GET.
Receive(i, f) ==
    /\ pc[i] = "idle"
    /\ f \in inbox[i]
    /\ inbox' = [inbox EXCEPT ![i] = @ \ {f}]
    /\ cur' = [cur EXCEPT ![i] = f]
    /\ \/ /\ f \notin Wanted
          /\ msg' = [msg EXCEPT ![i][f] = "settled"]
          /\ UNCHANGED <<pc, sighted>>
       \/ /\ f \in Wanted
          /\ Goto(i, IF f \in cache[i] THEN "get" ELSE "incr")
          /\ sighted' = [sighted EXCEPT ![f] = @ \cup {i}]
          /\ UNCHANGED msg
    /\ UNCHANGED <<redis, deliveries, cache, sent, forgotten, faults>>

\* The reply is read as an unsigned number: a negative one is a huge count.
UnsignedQuorum(n) == n < 0 \/ n >= QuorumSize

\* First sighting. A count of 1 always goes back to the stream.
Incr(i) ==
    /\ pc[i] = "incr"
    /\ \/ /\ IncrCount(cur[i]) /\ NoFault
          /\ CacheAdd(i)
          /\ LET n == count'[cur[i]] IN
             \/ n = 1 /\ Goto(i, "expire") /\ UNCHANGED msg
             \/ n # 1 /\ UnsignedQuorum(n) /\ Goto(i, "status") /\ UNCHANGED msg
             \/ n # 1 /\ ~UnsignedQuorum(n) /\ NakAndReturn(i)
       \/ RedisError /\ NakAndReturn(i) /\ UNCHANGED cache
    /\ LocalStep /\ UNCHANGED history

Expire(i) ==
    /\ pc[i] = "expire"
    /\ \/ ExpireCountKey(cur[i]) /\ NoFault /\ NakAndReturn(i) /\ UNCHANGED cache
       \/ RedisError /\ CacheRemove(i) /\ Goto(i, "undo") /\ UNCHANGED msg
    /\ LocalStep /\ UNCHANGED history

Forget(f) == forgotten' = forgotten \cup {f}

\* EXPIRE failed: the count key is deleted; if that fails too it is only logged.
UndoCount(i) ==
    /\ pc[i] = "undo"
    /\ \/ DelCount(cur[i]) /\ NoFault /\ Forget(cur[i])
       \/ RedisError /\ UNCHANGED forgotten
    /\ NakAndReturn(i)
    /\ LocalStep /\ UNCHANGED <<cache, sighted, sent>>

\* Later sightings. No count key: the message is dropped.
GetCount(i) ==
    /\ pc[i] = "get"
    /\ \/ /\ NoFault /\ UNCHANGED redis
          /\ \/ cur[i] \notin stored /\ CacheRemove(i) /\ AckAndReturn(i)
             \/ /\ cur[i] \in stored
                /\ UNCHANGED cache
                /\ \/ count[cur[i]] >= QuorumSize /\ Goto(i, "status") /\ UNCHANGED msg
                   \/ count[cur[i]] < QuorumSize /\ NakAndReturn(i)
       \/ RedisError /\ NakAndReturn(i) /\ UNCHANGED cache
    /\ LocalStep /\ UNCHANGED history

\* Mutant: a message somebody else is sending is acknowledged.
GetStatus_AcksSending(i) ==
    /\ pc[i] = "status"
    /\ UNCHANGED <<redis, faults>>
    /\ \/ status[cur[i]] = "sending" /\ AckAndReturn(i) /\ UNCHANGED cache
       \/ status[cur[i]] = "sent" /\ Ack(i) /\ CacheRemove(i) /\ Goto(i, "shorten")
       \/ status[cur[i]] = "not_send" /\ Goto(i, "cooldown") /\ UNCHANGED <<msg, cache>>
    /\ LocalStep /\ UNCHANGED history

GetStatus(i) ==
    /\ pc[i] = "status"
    /\ \/ /\ NoFault /\ UNCHANGED redis
          /\ \/ status[cur[i]] = "sending" /\ NakAndReturn(i) /\ UNCHANGED cache
             \/ status[cur[i]] = "sent" /\ Ack(i) /\ CacheRemove(i) /\ Goto(i, "shorten")
             \/ status[cur[i]] = "not_send" /\ Goto(i, "cooldown") /\ UNCHANGED <<msg, cache>>
       \/ RedisError /\ NakAndReturn(i) /\ UNCHANGED cache
    /\ LocalStep /\ UNCHANGED history

\* Both keys of a sent finding get a TTL of a minute. The status key has a TTL
\* already, so only the one of the count key shows.
ShortenKeys(i) ==
    /\ pc[i] = "shorten"
    /\ (ExpireCountKey(cur[i]) /\ NoFault) \/ RedisError
    /\ Goto(i, "idle")
    /\ LocalStep /\ UNCHANGED <<msg, cache, history>>

\* An unreadable cool-down counts as inactive.
GetCoolDown(i) ==
    /\ pc[i] = "cooldown"
    /\ \/ /\ NoFault /\ UNCHANGED redis
          /\ \/ Body[cur[i]] \in cooldown /\ AckAndReturn(i)
             \/ Body[cur[i]] \notin cooldown /\ Goto(i, "claim") /\ UNCHANGED msg
       \/ RedisError /\ Goto(i, "claim") /\ UNCHANGED msg
    /\ LocalStep /\ UNCHANGED <<cache, history>>

Claim(i) ==
    /\ pc[i] = "claim"
    /\ \/ /\ SetSendingStatus(cur[i]) /\ NoFault
          /\ \/ Claimable(cur[i]) /\ Goto(i, "send") /\ UNCHANGED msg
             \/ ~Claimable(cur[i]) /\ NakAndReturn(i)
       \/ RedisError /\ NakAndReturn(i)
    /\ LocalStep /\ UNCHANGED <<cache, history>>

Posted(i) == sent' = [sent EXCEPT ![i][cur[i]] = @ + 1]

\* Mutant: the error of the channel is not looked at.
SendFinding_IgnoresError(i) ==
    /\ pc[i] = "send"
    /\ \/ NoFault /\ Posted(i)
       \/ Fault("sendError") /\ UNCHANGED sent
    /\ Goto(i, "ack")
    /\ LocalStep /\ UNCHANGED <<redis, msg, cache, sighted, forgotten>>

\* The channel takes the notification, refuses it, or takes it and the answer
\* is lost on the way back.
SendFinding(i) ==
    /\ pc[i] = "send"
    /\ \/ NoFault /\ Posted(i) /\ Goto(i, "ack")
       \/ Fault("sendError") /\ UNCHANGED sent /\ Goto(i, "decr")
       \/ Fault("sendLost") /\ Posted(i) /\ Goto(i, "decr")
    /\ LocalStep /\ UNCHANGED <<redis, msg, cache, sighted, forgotten>>

AckSent(i) ==
    /\ pc[i] = "ack"
    /\ Ack(i) /\ Goto(i, "markSent")
    /\ LocalStep /\ UNCHANGED <<redis, cache, history, faults>>

MarkSent(i) ==
    /\ pc[i] = "markSent"
    /\ (SetStatus(cur[i], "sent") /\ NoFault) \/ RedisError
    /\ Goto(i, "setCool")
    /\ LocalStep /\ UNCHANGED <<msg, cache, history>>

StartCoolDown(i) ==
    /\ pc[i] = "setCool"
    /\ (SetCoolDown(cur[i]) /\ NoFault) \/ RedisError
    /\ Goto(i, "idle")
    /\ LocalStep /\ UNCHANGED <<msg, cache, history>>

\* Mutant: a counter that reached 0 is left in Redis.
Decr_KeepsZero(i) ==
    /\ pc[i] = "decr"
    /\ DecrCount(cur[i]) /\ NoFault
    /\ Goto(i, "release")
    /\ LocalStep /\ UNCHANGED <<msg, cache, history>>

\* The send failed: the instance takes its confirmation back ...
Decr(i) ==
    /\ pc[i] = "decr"
    /\ \/ /\ DecrCount(cur[i]) /\ NoFault
          /\ Goto(i, IF count'[cur[i]] <= 0 THEN "dropCount" ELSE "release")
       \/ RedisError /\ Goto(i, "release")
    /\ LocalStep /\ UNCHANGED <<msg, cache, history>>

DropCount(i) ==
    /\ pc[i] = "dropCount"
    /\ (DelCount(cur[i]) /\ NoFault) \/ RedisError
    /\ Goto(i, "release")
    /\ LocalStep /\ UNCHANGED <<msg, cache, history>>

\* Mutant: the status key survives a failed send.
Release_KeepsStatus(i) ==
    /\ pc[i] = "release"
    /\ CacheRemove(i)
    /\ NakAndReturn(i)
    /\ LocalStep /\ UNCHANGED <<redis, history, faults>>

\* ... and gives up the claim.
Release(i) ==
    /\ pc[i] = "release"
    /\ (SetStatus(cur[i], "not_send") /\ NoFault) \/ RedisError
    /\ CacheRemove(i)
    /\ NakAndReturn(i)
    /\ LocalStep /\ UNCHANGED history

Handle(i) ==
    \/ Incr(i) \/ Expire(i) \/ UndoCount(i) \/ GetCount(i)
    \/ GetStatus(i) \/ ShortenKeys(i) \/ GetCoolDown(i) \/ Claim(i)
    \/ SendFinding(i) \/ AckSent(i) \/ MarkSent(i) \/ StartCoolDown(i)
    \/ Decr(i) \/ DropCount(i) \/ Release(i)

-----------------------------------------------------------------------------
(* Faults and timers *)

\* Redis ran the command but the reply was lost: the client retries it
\* (MaxRetries), so the handler stays where it is. The lost reply to a command
\* that only reads changes nothing.
LostReply(i) ==
    /\ Fault("lostReply")
    /\ \/ pc[i] = "incr" /\ IncrCount(cur[i])
       \/ pc[i] \in {"expire", "shorten"} /\ ExpireCountKey(cur[i])
       \/ pc[i] \in {"undo", "dropCount"} /\ DelCount(cur[i])
       \/ pc[i] = "claim" /\ SetSendingStatus(cur[i])
       \/ pc[i] = "markSent" /\ SetStatus(cur[i], "sent")
       \/ pc[i] = "setCool" /\ SetCoolDown(cur[i])
       \/ pc[i] = "decr" /\ DecrCount(cur[i])
       \/ pc[i] = "release" /\ SetStatus(cur[i], "not_send")
    /\ IF pc[i] = "undo" THEN Forget(cur[i]) ELSE UNCHANGED forgotten
    /\ UNCHANGED <<nats, handler, sighted, sent>>

\* The acknowledgement never reached the server.
AckLost(i, f) ==
    /\ Fault("ackLost")
    /\ msg[i][f] = "settled"
    /\ msg' = [msg EXCEPT ![i][f] = "outstanding"]
    /\ UNCHANGED <<redis, deliveries, inbox, handler, history>>

\* The process dies and is restarted: its memory is gone, the durable consumer
\* and the shared keys are not.
Crash(i) ==
    /\ Fault("crash")
    /\ Goto(i, "idle")
    /\ cache' = [cache EXCEPT ![i] = {}]
    /\ inbox' = [inbox EXCEPT ![i] = {}]
    /\ UNCHANGED <<redis, msg, deliveries, cur, history>>

\* TTL of the count key (10 minutes, or 1 once the finding is sent).
CountExpires(f) ==
    /\ Fault("countExpiry")
    /\ f \in mortal
    /\ DelCount(f) /\ Forget(f)
    /\ UNCHANGED <<nats, handler, sighted, sent>>

\* TTL of the status key (12 minutes sending, 10 sent, then 1): longer than a
\* handler takes from its reading of the status to its return.
StatusExpires(f) ==
    /\ Fault("statusExpiry")
    /\ \A i \in Instances : ~(cur[i] = f /\ pc[i] \in PastStatus)
    /\ status[f] # "not_send"
    /\ SetStatus(f, "not_send")
    /\ UNCHANGED <<nats, handler, history>>

\* TTL of an LRU entry (10 minutes, renewed on every sighting): it outlives a
\* count key that has its own, and every run of a handler.
CacheExpires(i, f) ==
    /\ Fault("cacheExpiry")
    /\ f \in cache[i] /\ f \notin mortal
    /\ \A j \in Instances : ~(cur[j] = f /\ pc[j] # "idle")
    /\ cache' = [cache EXCEPT ![i] = @ \ {f}]
    /\ UNCHANGED <<redis, nats, pc, cur, history>>

\* The LRU (125 entries) is full of other findings.
Evict(i, f) ==
    /\ Fault("evict")
    /\ f \in cache[i]
    /\ cache' = [cache EXCEPT ![i] = @ \ {f}]
    /\ UNCHANGED <<redis, nats, pc, cur, history>>

Next ==
    \/ \E i \in Instances : Handle(i) \/ LostReply(i) \/ Crash(i)
    \/ \E i \in Instances, f \in Findings :
          \/ Publish(i, f) \/ Deliver(i, f) \/ AckTimeout(i, f)
          \/ Receive(i, f) \/ AckLost(i, f) \/ CacheExpires(i, f) \/ Evict(i, f)
    \/ \E f \in Findings : CountExpires(f) \/ StatusExpires(f)

Spec == Init /\ [][Next]_vars

\* The server redelivers, the client hands over what it buffered, and a handler
\* that has begun goes on: every call it makes has a timeout.
Fairness ==
    \A i \in Instances :
        /\ WF_vars(Handle(i))
        /\ \A f \in Findings :
              WF_vars(Deliver(i, f)) /\ WF_vars(Receive(i, f)) /\ WF_vars(AckTimeout(i, f))

FairSpec == Spec /\ Fairness

\* Ten deliveries, a second apart while somebody else is sending, and the ten minutes
\* the stream keeps a message are over before the twelve of a claim.
UsedUp(i, f) ==
    /\ msg[i][f] = "ready" /\ MaxDeliver # 0 /\ deliveries[i][f] = MaxDeliver
    /\ f \notin inbox[i] /\ ~(cur[i] = f /\ pc[i] # "idle")

\* TTL of a claim whose holder is dead. It always comes, but after every copy there
\* was has been settled or used up.
ClaimExpires(f) ==
    /\ status[f] = "sending"
    /\ \A i \in Instances :
          /\ ~(cur[i] = f /\ pc[i] \in PastStatus)
          /\ msg[i][f] \in {"unpublished", "settled"} \/ UsedUp(i, f)
    /\ SetStatus(f, "not_send")
    /\ UNCHANGED <<nats, handler, history, faults>>

TimedSpec ==
    /\ Init /\ [][Next \/ \E f \in Findings : ClaimExpires(f)]_vars
    /\ Fairness /\ \A f \in Findings : WF_vars(ClaimExpires(f))

-----------------------------------------------------------------------------
(* Properties *)

Holds(i, f) == cur[i] = f /\ pc[i] \in Sending

Delivered(f) == \E i \in Instances : sent[i][f] > 0

\* What Redis says of a finding is true: it is marked sent, and its body put on
\* cool-down, only after a notification went out. Other instances drop their
\* copies on the strength of these marks (consumer.go GetStatus and GetCoolDown
\* branches), so a premature mark loses the alert. Under every fault.
SentIsTruthful ==
    /\ \A f \in Findings : status[f] = "sent" => Delivered(f)
    /\ \A b \in cooldown : \E f \in Findings : Body[f] = b /\ Delivered(f)

\* At most one instance is between claiming the send of a finding and giving
\* the claim up (SetSendingStatus to SeStatusSent or Del): "only one instance
\* will proceed once the quorum condition is satisfied".
OneSender ==
    \A f \in Findings : \A i, j \in Instances :
        Holds(i, f) /\ Holds(j, f) => i = j

\* A notification goes out only for a finding that QuorumSize instances have
\* taken up themselves: retries after failed sends, expired keys and repeated
\* deliveries do not let an instance confirm a finding twice.
QuorumBeforeSend ==
    \A f \in Findings : Delivered(f) => Cardinality(sighted[f]) >= QuorumSize

\* A count key without a TTL is about to get one or to be deleted by the handler
\* that left it so: none stays in Redis forever.
CountKeyExpires ==
    \A f \in stored \ mortal : \E i \in Instances :
        cur[i] = f /\ pc[i] \in {"expire", "undo", "dropCount"}

\* A finding is posted once, by one instance.
DeliveredAtMostOnce ==
    \A f \in Findings : \A i, j \in Instances :
        /\ sent[i][f] <= 1
        /\ sent[i][f] > 0 /\ sent[j][f] > 0 => i = j

\* Nothing is dropped unposted: a wanted message leaves the stream only when
\* its finding, or one with the same body, has been posted.
SettledMeansNotified ==
    \A i \in Instances, f \in Wanted :
        msg[i][f] = "settled" =>
            \E g \in Findings : Body[g] = Body[f] /\ Delivered(g)

\* The same where keys expire and commands fail, of every finding that Redis was not
\* made to forget: crashes, failed sends and commands, evictions and repeated
\* deliveries do not drop a finding.
NothingDropped ==
    \A i \in Instances, f \in Wanted \ forgotten :
        msg[i][f] = "settled" =>
            \E g \in Findings : Body[g] = Body[f] /\ Delivered(g)

\* The instances keep the promise of Alert: Redis, the ten calls of a handler and the
\* redeliveries come down to seeing, posting once and letting go.
Promise == INSTANCE Alert WITH
    seen    <- sighted,
    posts   <- [f \in Findings |-> UNION {{i} \X (1..sent[i][f]) : i \in Instances}],
    settled <- [f \in Findings |-> {i \in Instances : msg[i][f] = "settled"}]

ImplementsAlert == Promise!Spec

\* The cool-down keeps an instance from posting the same body twice, however
\* many findings carry it.
CoolDownSilences ==
    \A i \in Instances : \A f, g \in Findings :
        Body[f] = Body[g] /\ sent[i][f] > 0 /\ sent[i][g] > 0 => f = g

\* A finding that QuorumSize instances have taken up is posted in the end: the
\* instances never settle their copies, or wait for each other, while nobody
\* has posted it. (With a delivery limit it may run out first.)
QuorumIsNotified ==
    \A f \in Wanted : Cardinality(sighted[f]) >= QuorumSize ~> Delivered(f)

\* A finding claimed by an instance that then died is picked up again, which is what
\* the TTL of the status key is for.
ClaimIsPickedUp ==
    \A f \in Wanted :
        status[f] = "sending" /\ ~(\E i \in Instances : Holds(i, f)) ~> Delivered(f)
=============================================================================
