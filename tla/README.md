# Verification of onchain-mon (feeder and forwarder)

Bots watch the chain and publish *findings* to NATS. Several operators run the
same bots; each has a **cell** of its own (NATS, bots, a feeder and a
forwarder), and the forwarders share one Redis. The **feeder** reads blocks
from an Ethereum node and publishes them to the bots. The **forwarder** takes
findings from the stream of its cell, waits until `QUORUM_SIZE` instances have
seen the same finding, and lets one instance post it to Telegram, Discord,
Slack or OpsGenie. A consumer configured with `by_quorum: false` posts at once.

This directory holds TLA+ models of these parts, the TLC runs that check them
on small instances, and TLAPS proofs for every size. `PROJECT.json` lists the
components, the runs, the source lines behind every definition, the hazards and
the theorems.

## 1. Inventory

| Component (source) | State | Operations | Talks to | Hard behaviour |
|---|---|---|---|---|
| Quorum path (`internal/pkg/consumer/consumer.go`, `repo.go`) | Redis: count, status and cool-down keys with TTLs; memory: LRU of counted findings | `GetConsumeHandler`, `collectQuorumCount`, `SetSendingStatus`, `SeStatusSent`, `SetCoolDown` | Redis, NATS, a channel | several instances interleave between any two Redis calls; each call may fail; keys expire; messages come again; the process dies |
| Consumers without quorum (`handleWithoutQuorum`) | Redis: a dedup key | `SETNX`, send, undo | Redis, NATS, a channel | the key is set before the send; redelivery; a lost reply |
| JetStream consumers (`internal/app/forwarder`) | durable consumer: filter, ack pending, delivery count | `CreateOrUpdateConsumer`, `Consume`, `Stop` | NATS | ack timeouts, `BackOff`, `MaxDeliver`, `MaxAge`; handlers running when the consumers are stopped |
| Notification channels (`internal/pkg/notifiler`) | none | `SendFinding`, `TruncateMessageWithAlertID` | HTTP APIs | rate limits, lost answers, Telegram's second request |
| Feeder loop (`internal/app/feeder`) | last published number, `fetchStartTime`; all in memory | `Run`, `recoverMissedBlocks`, `recoverBlockRange`, `publishBlock` | RPC node, NATS | outages, recovery in chunks, oversized blocks, nodes that lag, asynchronous publishes, restarts |
| Chain RPC client (`internal/pkg/chain`) | none | single calls and batches, six attempts | RPC node | null results, partial batches, answers in another order |
| Redis and NATS connectors | a cached client under a mutex | `NewRedisClient`, `New` | Redis, NATS | a failed connection must not be cached; the client retries commands |
| Notification config (`internal/env`) | none | `ReadNotificationConfig`, `ValidateConfig`, `CollectNatsSubjects`, `NewConsumers` | – | what passes validation should start, but JetStream has rules of its own; durable names are glued together |
| Start-up and shutdown (`cmd/`) | errgroup, contexts, connections, exit code | `run`, `g.Wait`, deferred closes | all | signals in the middle of the start, a goroutine that fails, order of the closes |
| HTTP server (`internal/app/server`) | – | `RunHTTPServer` | errgroup | graceful shutdown against the errors of the group |
| Metrics, environment, logging, DTOs | counters | – | – | pure I/O |

What makes each part correct:

- **Quorum path.** One notification per finding; never without a quorum; none
  lost while the instances and Redis work; no claim and no key left behind; a
  finding with a quorum is posted in the end; repeated texts are silenced.
- **Without quorum.** A copy is dropped only when its finding was posted;
  redelivery does not repeat the notification; every finding is posted in the end,
  or its deliveries went into failed sends.
- **Channels.** No error means posted, exactly once; an error means not posted,
  or that the answer was lost; the text fits the limit of the channel.
- **Feeder.** No gap in the blocks the bots see, and none without its receipts;
  never stuck on a block.
- **Config.** A valid file that JetStream can take starts, and every subject in it is
  consumed.
- **Lifecycle.** Whatever fails, and any signal, ends the process; consumers stop
  before their connections close; the exit code tells how it went.

## 2. Modules

| Module | Models | Extends / uses |
|---|---|---|
| `QuorumConsumer` | quorum path: several instances, one Redis, a stream per instance; implements `Alert` | `Alert` by INSTANCE |
| `MCQuorumConsumer` | constants for TLC, symmetry of the instances | `QuorumConsumer` |
| `Alert` | abstract: what the instances promise together | – |
| `QuorumConsumerProofs` | type correctness, exclusive claim, truthful marks | `QuorumConsumer` |
| `QuorumCountProofs` | count keys: their TTL, nothing dropped, no send before the quorum | `QuorumConsumerProofs` |
| `QuorumPromiseProofs` | one notification per finding and text; the implementation of `Alert` | `QuorumCountProofs` |
| `DirectConsumer`, `MCDirectConsumer` | a consumer without quorum | – |
| `DirectConsumerProofs` | types, posted once, nothing unposted dropped, given up only after failed sends | `DirectConsumer` |
| `Channel` | abstract: what a consumer relies on when it calls `SendFinding` | – |
| `Notifier`, `MCNotifier` | `SendFinding` of the four channels; implements `Channel` | `Channel` by INSTANCE |
| `NotifierProofs` | the implementation of `Channel`; the cut text fits | `Notifier` |
| `Feeder`, `MCFeeder` | the feeder's loop, its recovery and the answers of the RPC client | – |
| `FeederProofs` | types, the causes of gaps, what it takes to have none, where receipts may be missing | `Feeder` |
| `NotifyConfig` | the rules of `notification.yaml` and what is built from it; no state | – |
| `Lifecycle`, `MCLifecycle` | `run()` of both programs, the errgroup, signals, the durable consumers | `NotifyConfig` |
| `LifecycleProofs` | types, order of the stop, exit code; which files start, every subject is served | `Lifecycle` |

The parts meet in three places. The consumers' action `SendFinding` (posted,
refused, or posted with the answer lost) makes exactly the steps of `Channel`,
which `Notifier` is shown to implement. Blocks go from the feeder to the bots
and findings from the bots to the forwarder through NATS; the bots are not in
this repository, so `Publish` is an action of the environment. `Lifecycle`
composes the config with the start: `NotifyConfig` says which files pass and
what they build, and `Lifecycle` runs the programs on every one of them.

### QuorumConsumer

One step is one call to Redis, NATS or the channel together with the local code
up to the next call, so `pc[i]` names the call instance `i` makes next. The
callbacks of one consumer run one after another (the client calls them from one
goroutine); handlers of different instances interleave freely.

| Variable | Code |
|---|---|
| `count`, `stored`, `mortal` | the count key: value, existence, whether it has a TTL |
| `status` | the status key; no key is `not_send`, as in `GetStatus` |
| `cooldown` | bodies with a cool-down key |
| `msg`, `deliveries`, `inbox` | a message of the durable consumer, its delivery count, copies in the client |
| `cache` | the LRU (`expirable.LRU`) |
| `sighted`, `sent` | history: who took the finding up, who posted it |
| `forgotten` | history: findings whose count key expired, or was deleted for want of a TTL |

`Incr`, `Expire`, `UndoCount`, `GetCount` are `collectQuorumCount`; `GetStatus`
to `Release` follow `GetConsumeHandler`, one action per call. Every call has its
error branch (`RedisError`, or a failed send), and `LostReply` runs the command
without telling the client, which then repeats it (go-redis `MaxRetries`).
`INCR` is read as unsigned (`UnsignedQuorum`): a counter made negative by DECRs
after an expiry looks like a huge one, as in the code.

Timing assumptions, as guards of the timers: a status key (12 or 10 minutes)
outlives the rest of a handler that has read it (`StatusExpires`); an LRU entry
(10 minutes, renewed on each sighting) outlives a count key that has its TTL and
a running handler (`CacheExpires`). Count keys may expire at any moment. The
cool-down (30 minutes) does not expire: `CoolDownSilences` speaks of its lifetime.

`Spec` lets the status key expire only as a counted fault. `TimedSpec` adds what
the numbers in the code say of a claim whose holder is dead: it does expire
(`ClaimExpires`), but only when every copy there was is settled or used up, since
a copy lasts ten deliveries a second apart and ten minutes at most, the claim twelve.

`Alert` forgets how the instances agree: a finding has the set of instances that
have seen it, the set of its posts, those that let go of their copy, and whether
its count was forgotten. `Promise` reads these off the histories and the messages.

### DirectConsumer

One instance suffices: `SOURCE` is part of the dedup key and unique per forwarder. The
dedup key's TTL (15 minutes) exceeds the stream's `MaxAge` (10), so it does not expire
while its message exists. `MaxAckPending` is 1. A message is delivered `MaxDeliver`
times at most (`deliveries`; the code says 10) and leaves the stream at the age of ten
minutes (`MaxAge`): a handler never holds one that long, so the age is a fault, as
behind a long queue or a rate limit. `sent` and `failed` record what became of the
sends. The history `kinds` says which faults have struck; the properties name the ones
under which the code gives a finding up.

### Notifier and Channel

A text is its length; a finding is a length, the length of the part that begins
with the last `Alert Id:` (0 when there is none), a severity and whether
Telegram can parse it. `Truncated` is `TruncateMessageWithAlertID`; `Request`
and `PlainRequest` are the one or two requests of a call; `TelegramResult` and
its siblings are what `send` makes of status and body (Telegram's own `error_code`
included, which may tell of a rate limit when the status does not). Rate limits end
a call like any other error; only the delay of the redelivery differs, and time is not
modelled.

### Feeder

A tick is split where the code calls the node or NATS. `prev` is
`prevBlockNumber`, `window` the state of `fetchStartTime` (zero, set, set more
than two minutes ago), `from`/`target`/`recovered` the locals of
`recoverMissedBlocks`. A call is answered by a node whose newest block is up to
`Lag` behind the head, each call by another (`slow` is the newest block of the
one furthest behind). A block and its receipts are separate calls, and so are
the two batches of a chunk, of which null results are left out; an answer may
come in another order than the requests (fault `shuffled`), and then a chunk is
published in that order. `published`, `bare` (without receipts), `lost` (an
asynchronous publish failed unnoticed), `leftOut` (of a chunk not published
whole) and `base` are history; `base` is the first block after the feeder last
began from the latest one.

### NotifyConfig and Lifecycle

`NotifyConfig` is pure: `ValidateConfig` with the conjuncts of the code's
functions, and `CollectNatsSubjects`, `Buildable` and `NewConsumers` as the
forwarder uses the same file afterwards. A name is the sequence of its pieces
between underscores, so that `<team>_<consumer>_<bot>` can collide as in the code.
`Illegal` and `Blank` are the pieces with characters that JetStream refuses in a
durable name and in a subject.
The slice that `NewConsumers` returns is the set of its elements, each with its place
in the file; `ConsumeNext` takes the first by `Before`, so they start in that order.

`Lifecycle` is `run()`. `stage` is the call `run` makes next; an error takes it
to the deferred closes (NATS before Redis) and the exit code. `task` holds the
goroutines of the errgroup: the worker (the forwarder's stop hook, the feeder's
loop), the listener and the one that shuts the server down. `signalled` is the
context of `NotifyContext`; `GCancelled` that of the group. `durables` and
`stream` are what JetStream has been told, `consuming` whose messages reach a handler.

JetStream's own rules are not in the repository; `StreamTaken` and `Accepted` follow
the documented ones of the server (2.10 in `docker-compose.yml`): no wildcard,
dot, slash or white space in a durable name; no empty part or white space in a
subject, `>` only at its end, no first part that reaches into the server's own
subjects, no two subjects of the stream that one message could match. Lengths are
left out. The error that the name of the stream is in use is let pass by `run`
(`main.go:130`) although the call returns no stream then: `CreateStream` goes on
without one, and the first consumer ends the process, in the code by a panic, which
the model counts as exit code 1.

## 3. Runs

All exhaustive. Faults are bounded by `MaxFaults` in total; the kinds are given
by `Faults`.

| Run | Instance | Shows |
|---|---|---|
| `quorum_all_faults` | 2 instances, 1 finding, quorum 2, at most 4 deliveries, any 3 of all 10 faults (2.5 M states) | types; a finding is marked sent, or its text silenced, only after a post |
| `quorum_failures` | 3 instances, quorum 2, any 2 of crash, Redis error, failed send, lost ack, count and LRU expiry, eviction (1.5 M) | one instance between claim and release; one notification per finding; none dropped unposted unless Redis forgot it |
| `quorum_expiries` | 3 instances, any 3 of failed send, lost ack, every expiry (1.5 M) | nobody confirms twice; every count key gets a TTL or goes; the refinement of `Alert` |
| `quorum_cooldown` | 2 instances, 2 findings with one text, any 1 of retried command, failed send, count and status expiry (2.1 M) | an instance posts a text once |
| `quorum_live` | 2 instances, a wanted and an unwanted finding, 1 failed or unanswered send or lost ack (318 k) | a message is settled only when its finding was posted; a finding with a quorum is posted in the end |
| `quorum_undo_loss` | 2 instances, 1 Redis error | **violated**: see findings |
| `quorum_orphan` | 2 instances, 10 deliveries as in the code, 1 crash (348 k) | **violated**: see findings |
| `direct_faults` | 2 findings, 3 deliveries, any 3 of all 7 faults (224 k) | dropped only when posted, posted once, deliveries used up only by failed sends, posted in the end, each up to the faults it names |
| `feeder_faults` | 6 blocks (1 and 5 oversized), chunks of 3, lag 2, any 3 of all 6 faults (799 k) | a gap has one of two causes; only the tip goes out without receipts; the end of the chain is reached |
| `feeder_partial_chunk` | 6 blocks, 2 faults | **violated**: see findings |
| `notifier` | 4 channels, all findings up to length 18, limit 16, warning 3, suffix 2, any 2 of 8 bad answers (66 k) | the contract of `Channel`; the text fits; what can be posted is posted |
| `start_stop` | both programs, 1,107 files, any 2 of 8 failing calls, a signal at any time (28 k) | exactly the valid files that are plain start; a durable consumer per subject; every failure and signal ends the process; order of the closes; exit code |

Why the bounds suffice. Three instances with a quorum of two give a first
counter, a second that reaches the quorum and a bystander that may race either;
more instances only add bystanders. One finding is enough where keys of
different findings do not meet; the cool-down is where they do, and has two.
Two or three faults allow a fault during the recovery from another. Six blocks
in chunks of three make recoveries of one and two chunks, whole and short, with
an oversized block first in the chain and inside a chunk; a lag of two lets a node
miss most of a chunk. Three deliveries and three faults let every delivery of a
finding fail, as ten of each would. The files of `start_stop` are one consumer with
every name and list of subjects (empty, glued, illegal, blank, with wildcards, too
short, with more parts) or with every type, channel and severities, and every pair
that may share a name, a subject or a durable name or have subjects that overlap.
A limit of 16 with a warning of 3 reaches every branch of the cut,
with room, without room and at equality.

A fault is missing from a run when the code does not keep the property under it;
the hazards in `PROJECT.json` say where and why:

- `OneSender`, `DeliveredAtMostOnce`, `ImplementsAlert` without `lostReply`: a
  repeated DEL of the status key (`consumer.go:446`) removes the claim another
  instance took since. `DeliveredAtMostOnce` and `ImplementsAlert` without
  `sendLost`: a channel cannot be asked whether it took the notification.
  Without `statusExpiry` together with `crash`.
- `QuorumBeforeSend`, `ImplementsAlert` without crashes and evictions: the LRU is
  the only memory of having counted, so a restarted instance counts again.
- `CountKeyExpires` without crashes: INCR and EXPIRE are two calls.
- `SettledMeansNotified` without `redisError` (see findings) and `countExpiry`
  (a finding whose quorum never came is dropped by design). `NothingDropped` is
  the same under both, of every finding that is not in `forgotten`.
- `QuorumIsNotified` without crashes and without a delivery limit: a claim of a
  dead instance blocks the others for good (see findings).
- `NoGapSinceStart` is not claimed at all: a publish error inside a recovery (see
  findings), nodes that lag by two and asynchronous publishes break it.
  `GapsAreExplained` is what holds under every fault.
- `StoppedBeforeClose` of a forwarder that had started: one that fails while it
  starts its consumers closes NATS under those it has.
- `ValidConfigStarts` of plain files: what else the validation lets through, JetStream
  refuses (see findings).
- `PublishedIsPosted`, `SettledMeansPosted` and `GivenUpMeansFailed` of `DirectConsumer`
  name the faults that lose a finding (`Lossy`) in the formula. `PublishedIsPosted` also
  excepts a finding that grew too old and one whose deliveries all ended in failed
  sends: ten failed sends lose it, and only a log and a metric say so.

### Fairness

- `QuorumConsumer`, `DirectConsumer`: weak fairness of the handler (every call
  has a timeout, so a handler that began goes on), of delivery, hand-over and
  ack timeouts (the server redelivers, the client calls back). `DirectConsumer`
  has strong fairness of delivery and hand-over because two messages take turns;
  the stream serves them in order, so each comes round. A message that has used up
  `MaxDeliver` is not delivered again, whatever is fair.
- `Feeder`: weak fairness of the loop (the timer is reset on every path through
  it), of the growth of the chain, and of the nodes, which catch up: one that
  stayed behind for good would hold the feeder back. Nothing is assumed of the two
  minutes.
- `TimedSpec` of `QuorumConsumer`: also that a claim expires, as Redis sees to.
- `Lifecycle`: weak fairness of `run` (every call has a timeout) and of each
  goroutine whose context is done. The server need not fail and no signal need
  come; `Stops` speaks of what follows one.
- `Notifier`: weak fairness of the call (the HTTP client has a timeout) and of
  the redelivery.

Faults are never fair, and their number is bounded, so the liveness runs say
what happens once the trouble is over.

### Findings

- **`quorum_undo_loss`.** When EXPIRE fails after the first INCR, the handler
  deletes the count key. If another instance has incremented it in between, that
  confirmation goes too; the other instance, whose LRU says counted, then reads
  no key and acknowledges its copy (`consumer.go:284`). `forwarder.md:88`
  promises that notifications are not lost.
- **`quorum_orphan`.** An instance claims a finding and dies before it posts. Its
  status key says `sending` for 12 minutes (`repo.go:52`); the other instance
  reads it, naks its copy with a delay of a second (`consumer.go:374`) and has
  used up its ten deliveries (`forwarder.go:69`) long before. The restarted
  instance fares alike. `Changelog.md` item 21 says that the TTL lets such a finding
  be picked up again; `forwarder.md:135` that the others resend it.
- **`feeder_partial_chunk`.** When a publish fails inside a chunk,
  `recoverBlockRange` returns the last published block without an error "so the
  caller can resume from there" (`feeder.go:288`). `recoverMissedBlocks` takes
  the chunk for complete and goes on with the next one: the rest is never
  published. An oversized block inside a chunk has the same effect.

Met while reading, and not the subject of a run: a crash between SETNX and the send
loses the finding of a consumer without quorum, as does a failed DEL or a retried
SETNX (`Lossy` in `DirectConsumer`); a failed publish is said to arm the recovery
window (`feeder.go:171`) but the next fetch of the same block clears it
(`feeder.go:128`); recovered blocks are published without receipts when the node
answers null (`chain.go:183`, the blocks `BareAtTheTipOnly` allows); a feeder that is
told to stop exits with 1, since its loop returns `ctx.Err()` (`feeder.go:78`), though
`Changelog.md` item 26 has the exit code tell a crash from a clean stop
(`ExitCodeTells` claims it of the forwarder only); a message that was cut and does not
parse as markdown can never be posted by Telegram as plain text, since the suffix
exceeds the limit again; with `QUORUM_SIZE=1` (the value of `sample.env` and of the
README's table) and two instances, a send that fails can cost the other instance its
copy (see `NoneDropped` below); a consumer without quorum loses a finding after ten
failed sends (`forwarder.go:69`; ten naks of three seconds, or a few rate limits and
the `MaxAge`); `ValidateConfig` looks at the first three parts of a subject and only
for being empty, so a `consumerName` with a space, a dot or a slash, a bot `>` or `*`,
a subject that ends in a dot and two subjects that overlap pass it, and JetStream then
refuses the stream or the consumer: such a forwarder never starts (`Plain` in
`Lifecycle` has the whole list); `FormatAlert` no longer writes the `Alert Id:` that
`TruncateMessageWithAlertID` looks for, so a long message loses its footer.

## 4. Proofs

Proved by TLAPS for all values of the constants, from the assumptions named in
the modules (finite set of instances, `Wanted \subseteq Findings`, a positive
quorum, natural bounds; a warning shorter than the limit).

A theorem about some of the faults has them as a hypothesis on the constant
`Faults`; the run of the same property leaves out the same ones or more, for the
reasons given in section 3. Every inductive invariant was first checked by TLC.

### Quorum path

- **`TypeCorrect`**: `Spec => []TypeOK`. `HandleShape` first shows that every
  handler step is one Redis command on the handled finding, at most one change
  of its message, of the LRU and of the history; each kind keeps its part of the
  type. `mortal \subseteq stored` (a TTL only on an existing key) is the part
  that is not just a type.
- **`ClaimExclusive`**: `Spec => []OneSender` when `lostReply` is not among the
  faults. `OneSender` is not inductive: nothing in it says why a second claim
  fails. `ClaimInv` adds `ClaimBacked`: while an instance is between claim and
  release, the status key says `sending`. A step leaves the status alone, takes
  a free claim (so nobody held it), or gives up its own (so nobody else held it,
  by `OneSender`). `StatusExpires` keeps `ClaimBacked` by its timing guard. With
  `lostReply` the theorem is false.
- **`MarksTruthful`**: `Spec => []SentIsTruthful` under every fault. `MarkInv`
  adds `MarkerPosted`: whoever is about to ack, mark or silence has posted.
- **`NoCountKeyForever`**: `Spec => []CountKeyExpires` without crashes, Redis errors
  and retried commands. `ExpiryInv` adds `Absent`: a key that is not stored counts
  zero, so the INCR that creates it is the one followed by EXPIRE.
- **`NoneDropped`**: `Spec => []NothingDropped` without retried commands, for a
  quorum of two or more. A message is settled when the handler finds no count key,
  when Redis says that the finding is sent or its text silenced, or after the post.
  The first is the hard one: `KeepInv` adds that the key stands while an instance
  that has counted waits for it (`WaitersCounted`) and that the holder of the claim
  still has the quorum, so that its DECR never reaches zero and it never deletes the
  key (`QuorumHeld`). That is where the quorum of two is needed. With a quorum of
  one the holder's DECR does reach zero after a failed send (`consumer.go:436`);
  another instance counts in between; the DEL (`consumer.go:440`) takes that count
  too, and the other instance acknowledges its copy unposted (`consumer.go:284`).
  Two instances and one failed send suffice. The first instance still has its own
  copy, so the finding is not lost while that one lives.
- **`SettledIsNotified`**: `Spec => []SettledMeansNotified` for a quorum of two or more,
  when neither an expiry nor a Redis error makes Redis forget a count and no command
  is retried. From `NoneDropped` and `Remembered`:
  `forgotten` stays empty.
- **`QuorumComesFirst`**: `Spec => []QuorumBeforeSend` without crashes, Redis errors,
  retried commands and evictions. `QuorumInv` says what backs a count
  (`CountBacked`): until the finding is posted it is at most the number of instances
  whose LRU holds the finding and that have not taken it back. INCR and the LRU
  entry come together, DECR and the way to its removal too; an LRU entry expires only
  after the key. `CountersFresh` says that nobody who is in the LRU counts again.
  The argument is about cardinalities, so the set of instances is assumed finite.
- **`DeliveredOnce`**: `Spec => []DeliveredAtMostOnce` without retried commands and
  unanswered sends, when the status key does not expire or nobody crashes and no
  Redis call fails. `OnceInv` adds that whoever is at the claim of a posted finding
  is blocked by its status (`ClaimersBlocked`) and that whoever still has to post or
  undo has not posted (`UndoersUnposted`). Two different facts keep it: where the
  status key stays, it says so of every posted finding (`StatusStays`); where it may
  expire, the cool-down was started before (`CoolersMarked`), and a handler that
  passes the cool-down and finds no status cannot meet a posted finding.
- **`TextOncePerInstance`**: `Spec => []CoolDownSilences` without crashes, Redis errors
  and unanswered sends, for any number of findings with the same text. `SilenceInv`
  adds that a posted text is cooling down or its poster is on the way to it.
- **`PromiseKept`**: `Spec => ImplementsAlert`, the refinement of `Alert`, under the
  hypotheses of the theorems above together. `PostsMap` and `SettledMap` are the
  refinement mapping. A step that posts is `Alert`'s post: the quorum has seen the
  finding by `QuorumInv`, and nobody has posted it by `OnceInv`; one that settles a
  wanted message is `Alert`'s letting go by `KeepInv`; an expiry of a count is its
  forgetting; all others stutter.

### Consumers without quorum

- **`TypeCorrect`**, **`PostedOnce`**, **`NothingUnpostedIsDropped`**,
  **`GivenUpAfterFailures`**: `Spec => []TypeOK`, `[]PostedAtMostOnce`,
  `[]SettledMeansPosted`, `[]GivenUpMeansFailed`, with no hypothesis on the faults:
  the properties themselves say which of them give a finding up. `OnceInv` adds that
  nothing is posted without its dedup key and that a handler which will delete the key
  has not posted; `DropInv` that a key stands for a post or is in the hands of its
  handler, so that a copy which finds one may be dropped. `LimitInv` counts: of an
  unposted finding every delivery is a failed send or a copy that is still to be
  tried.

### Feeder

- **`TypeCorrect`**: `Spec => []TypeOK`. `TypeInv` adds `Placed`: a recovery begins
  after a published block, lies between `prev` and the head, and a chunk between its
  own borders. Without it block numbers are not known to be on the chain.
- **`GapsHaveCauses`**: `Spec => []GapsAreExplained` under every fault. `GapsInv`
  adds that the block in hand is the one after `prev`, that every chunk before the
  present one is excused, and that `recovered` does not reach into it. So whichever
  way a recovery ends, after `recovered`, after the last block of a chunk or at the
  latest block, nothing before that is unexcused (`ChunkEndsExcuses`), and nothing
  is taken back (`ExcusedGrows`).
- **`BareOnlyAtTheTip`**: `Spec => BareAtTheTipOnly`, an action property. `TipInv`
  keeps every node within `Lag` of the head and the blocks of a chunk that lack
  receipts above what the node that answered knew.

- **`NoGapWhenBenign`**: `Spec => []NoGapSinceStart`, the promise that
  `feeder_partial_chunk` refutes, under what it takes to keep it: every block fits,
  no publish of a recovery fails and none is lost after `PublishAsync`, and nodes are
  at most one block late. `WholeInv` says that a chunk is then published whole but
  for the target of the recovery, with which it resumes. None of the four conditions
  can be dropped: TLC finds a gap without any one of them.

### Channels

- **`ContractKept`**: `Spec => KeepsContract`, the refinement of `Channel` by
  `Notifier`. The core are two lemmas on the answers: one taken for success
  comes with a post (`SuccessIsPosted`), one taken for a complaint about the
  markdown comes without (`ComplaintIsNotPosted`), so the second request cannot
  post twice. `CallInv` adds that only Telegram makes a second request.
- **`CutTextFits`**: `Spec => []TruncatedFits`, by arithmetic on the parts.

### Config and lifecycle

The files are any set of `NotificationConfig`, the type the code unmarshals into.

- **`ConsumersStopFirst`**, **`ExitCodeTruthful`**: `Spec => []StoppedBeforeClose`
  and `Spec => []ExitCodeTells` from one inductive invariant, `LifeInv`. What the
  two lack is the group: `GroupInv` says that nothing runs in it before `Serve` and
  after `Wait`, and that a worker which is done was told to stop; `FaultInv` that
  before the start a fault has ended `run`, or left it without a stream and with
  consumers to start (`Streamless`, which no start survives), and while it waits the
  group of the forwarder has an error exactly if a call has failed.
- **`EverySubjectIsServed`**: `Spec => []EverySubjectServed`. `FileInv` and `SetUpInv`
  follow the file through the start: it is valid once it is read, the stream has its
  subjects once it exists, and every consumer of the file is either started, with a
  durable of that name and filter, or still in `consumers`. The step that could break
  it is the next consumer taking over the durable of another; `DurablesOfFileDiffer`
  says that a valid file has no two of one name.
- **`ValidFileStarts`**: `Spec => []ValidConfigStarts`, an equivalence. By
  `ValidIsBuildable` what `ValidateConfig` accepts `NewConsumers` does not refuse;
  by `PlainIsTaken` and `PlainIsAccepted` JetStream refuses neither the stream nor a
  consumer of a valid file that is plain; and by `TakenIsPlain` a file of which it has
  taken everything is plain. `Plain` states the rules for an author of the file,
  part by part; the work is in the durable names, whose pieces are those of
  team, consumer and bot (`GluedPieces`), and in the overlaps, of which those between
  different teams or bots cannot occur. What `Plain` means rests on JetStream's rules as
  `Lifecycle` has them. **`NewConsumersSucceeds`** is the first lemma alone.
- **`TypeCorrect`**: `Spec => []TypeOK`, from `SetUpInv` as well: a consumer is asked
  for only with a subject of the stream.

### Only model-checked

All liveness: `QuorumIsNotified`, `PublishedIsPosted`, `CatchesUp`, `Stops` and that
of `Notifier`, since fairness and ENABLED are out of the prover's reach. The three
violations are counterexamples of TLC. Nothing is proved of the faults a theorem
excludes: there the property is false, or, as the hazards say, not claimed.

## 5. Not modelled

The wording of notifications (formatting, Slack links), compression and the
fields of the block DTO, reorganisations (the code does not compare parent
hashes), real time (TTLs and delays are nondeterministic timers under the guards
above; the stream's `MaxAge` shows in `UsedUp` and as a fault of `DirectConsumer`),
the subjects JetStream allows below its own `$JS` and `$SYS`, the limits on the
lengths of names, the connectors' mutex and
cached client (each program asks once), the handlers of the HTTP server,
metrics and logs. Durable consumers left by an earlier configuration are not in
`Lifecycle`, which begins with an empty JetStream; neither are messages, so a
finding published between the creation of the stream and of its consumer is not.
The generated DTOs and the bots are outside.

## 6. Plan

1. *Done*: `QuorumConsumer` with its runs and first proofs, `DirectConsumer`,
   `Feeder`, `Channel` and `Notifier` with its refinement.
2. *Done*: `Alert` and its refinement; claims against delivery limits
   (`TimedSpec`); receipts, lagging nodes and batch order in `Feeder`;
   `NotifyConfig` and `Lifecycle`.
   `ExitCodeTells` and `StoppedBeforeClose` proved.
3. *Done*: every safety property of the passing runs proved, with both refinements.
4. Prove: under which conditions the promises hold that the other two violations
   refute, as `NoGapWhenBenign` does for the feeder; that `DirectConsumer` makes the
   steps of `Channel` when it sends; the safety half of the liveness arguments (which
   step each phase leads to), as far as it needs no ENABLED.
