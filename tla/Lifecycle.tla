----------------------------- MODULE Lifecycle -----------------------------
(***************************************************************************)
(* Start and stop of the two programs (cmd/forwarder, cmd/feeder): run()   *)
(* connects, sets JetStream up and starts three goroutines in an errgroup, *)
(* which end when a signal arrives or one of them fails: the worker, the   *)
(* HTTP server, and the one that shuts the server down. What the worker of *)
(* the feeder does until then is in Feeder, what the handlers of the       *)
(* forwarder do is in QuorumConsumer and DirectConsumer.                   *)
(*                                                                         *)
(* A signal may come at any time. The faults are what may go wrong at each *)
(* call; JetStream itself is what the server does with the stream and the  *)
(* durable consumers it is asked for.                                      *)
(***************************************************************************)
EXTENDS NotifyConfig, Integers

CONSTANTS
    Configs,     \* contents of notification.yaml
    Faults,      \* the calls that may fail
    MaxFaults    \* how many of them may fail in one behaviour

FaultNames == {"setup", "config", "redis", "nats", "stream", "consumer", "listen", "drain"}

ASSUME LifecycleAssumption ==
    /\ Configs \subseteq NotificationConfig
    /\ Faults \subseteq FaultNames /\ MaxFaults \in Nat

VARIABLES
    program,     \* which of the two
    cfg,         \* its notification.yaml, which the feeder does not read
    stage,       \* what run() does next
    consumers,   \* what ConsumeFindings has yet to start
    signalled,   \* SIGINT or SIGTERM has arrived
    task,        \* where each goroutine of the group is
    groupErr,    \* one of them has returned an error
    conns,       \* open connections
    stream,      \* JetStream: subjects of the stream, {} while there is none
    durables,    \* JetStream: filter subject of each durable consumer
    consuming,   \* durables whose messages reach a handler of this process
    served,      \* history: run() got as far as g.Wait
    exit,        \* exit code of the process, -1 while it runs
    faults       \* number of faults so far

input == <<program, cfg, signalled>>
main  == <<stage, consumers, served, exit>>
group == <<task, groupErr>>
nats  == <<stream, durables, consuming>>
vars  == <<input, main, group, conns, nats, faults>>

Programs == {"forwarder", "feeder"}
Stages == {"setup", "config", "redis", "nats", "stream", "build", "consume", "serve",
           "wait", "close", "exited"}
Tasks == {"worker", "listen", "shutdown"}

TypeOK ==
    /\ program \in Programs
    /\ stage \in Stages
    /\ \A c \in consumers : c.subject \in stream \/ stream = {}
    /\ signalled \in BOOLEAN /\ groupErr \in BOOLEAN /\ served \in BOOLEAN
    /\ task \in [Tasks -> {"none", "running", "draining", "done"}]
    /\ conns \subseteq {"redis", "nats"}
    /\ stream \subseteq CollectNatsSubjects(cfg)
    /\ \A d \in DOMAIN durables : durables[d] \in stream
    /\ consuming \subseteq DOMAIN durables
    /\ exit \in {-1, 0, 1} /\ (exit = -1 <=> stage \notin {"close", "exited"})
    /\ faults \in 0..MaxFaults

Init ==
    /\ program \in Programs /\ cfg \in Configs
    /\ program = "feeder" => cfg = CHOOSE c \in Configs : TRUE
    /\ stage = "setup" /\ consumers = {}
    /\ signalled = FALSE
    /\ task = [t \in Tasks |-> "none"] /\ groupErr = FALSE
    /\ conns = {}
    /\ stream = {} /\ durables = <<>> /\ consuming = {}
    /\ served = FALSE /\ exit = -1
    /\ faults = 0

NoFault == UNCHANGED faults

Fault(call) ==
    /\ call \in Faults
    /\ faults < MaxFaults
    /\ faults' = faults + 1

\* ctx and gCtx, the context of the group.
Cancelled  == signalled
GCancelled == signalled \/ groupErr

-----------------------------------------------------------------------------
(* JetStream: the streams and the consumers it takes *)

\* The wildcards: "*" stands for one part, ">" for the remaining ones, at least one.
AnyPart == <<"*">>
Rest    == <<">">>

\* First parts that are, or reach into, subjects JetStream keeps for itself (the few it
\* lets a stream have below $JS and $SYS are left out).
Reserved == {AnyPart, Rest, <<"$JS">>, <<"$JSC">>, <<"$NRG">>, <<"$SYS">>}

ValidSubject(s) ==
    /\ s[1] \notin Reserved
    /\ \A n \in DOMAIN s :
          /\ s[n] # EmptyPart /\ ToSet(s[n]) \cap Blank = {}
          /\ s[n] = Rest => n = Len(s)

\* A message can match both.
Overlap(s, t) ==
    \E n \in DOMAIN s \cap DOMAIN t :
        /\ \A m \in 1..n : s[m] = t[m] \/ {s[m], t[m]} \cap {AnyPart, Rest} # {}
        /\ Rest \in {s[n], t[n]} \/ (n = Len(s) /\ n = Len(t))

StreamTaken(subjects) ==
    /\ \A s \in subjects : ValidSubject(s)
    /\ \A s, t \in subjects : Overlap(s, t) => s = t

\* A durable name is one token without separators of paths (its length is left out); a
\* filter has to be a subject of the stream.
Accepted(c) == ToSet(c.name) \cap Illegal = {} /\ c.subject \in stream

\* CreateOrUpdateConsumer: a durable of the same name gets the new filter.
CreateOrUpdateConsumer(c) ==
    durables' = [d \in DOMAIN durables \cup {c.name} |->
                    IF d = c.name THEN c.subject ELSE durables[d]]

-----------------------------------------------------------------------------
(* run() *)

Forwarder(s) == program = "forwarder" /\ stage = s

Goto(s) == stage' = s /\ UNCHANGED exit

\* run returns; its deferred calls are next.
Return(code) == stage' = "close" /\ exit' = code

\* The environment, the logger and, for the forwarder, SOURCE.
Setup ==
    /\ stage = "setup"
    /\ \/ NoFault /\ Goto(IF program = "forwarder" THEN "config" ELSE "nats")
       \/ Fault("setup") /\ Return(1)
    /\ UNCHANGED <<input, consumers, served, conns, group, nats>>

\* ReadNotificationConfig: the file may be missing, unreadable or invalid.
LoadConfig ==
    /\ Forwarder("config")
    /\ \/ NoFault /\ ValidateConfig(cfg) /\ Goto("redis")
       \/ NoFault /\ ~ValidateConfig(cfg) /\ Return(1)
       \/ Fault("config") /\ Return(1)
    /\ UNCHANGED <<input, consumers, served, conns, group, nats>>

\* A client that does not answer the ping is closed and forgotten.
ConnectRedis ==
    /\ Forwarder("redis")
    /\ \/ NoFault /\ conns' = conns \cup {"redis"} /\ Goto("nats")
       \/ Fault("redis") /\ Return(1) /\ UNCHANGED conns
    /\ UNCHANGED <<input, consumers, served, group, nats>>

ConnectNats ==
    /\ stage = "nats"
    /\ \/ /\ NoFault /\ conns' = conns \cup {"nats"}
          /\ Goto(IF program = "forwarder" THEN "stream" ELSE "serve")
       \/ Fault("nats") /\ Return(1) /\ UNCHANGED conns
    /\ UNCHANGED <<input, consumers, served, group, nats>>

\* CreateOrUpdateStream. A call whose context is cancelled fails. That the name of the
\* stream is in use is let pass, though the call then returns no stream.
CreateStream ==
    /\ Forwarder("stream")
    /\ LET subjects == CollectNatsSubjects(cfg) IN
       \/ /\ NoFault /\ ~Cancelled /\ StreamTaken(subjects)
          /\ stream' = subjects /\ Goto("build")
       \/ /\ \/ NoFault /\ (Cancelled \/ ~StreamTaken(subjects)) /\ Return(1)
             \/ Fault("stream") /\ (Return(1) \/ Goto("build"))
          /\ UNCHANGED stream
    /\ UNCHANGED <<input, consumers, served, conns, group, durables, consuming>>

\* NewConsumers has its own checks; ValidConfigStarts says that they never fail.
BuildConsumers ==
    /\ Forwarder("build")
    /\ IF Buildable(cfg)
       THEN consumers' = NewConsumers(cfg) /\ Goto("consume")
       ELSE UNCHANGED consumers /\ Return(1)
    /\ UNCHANGED <<input, served, conns, group, nats, faults>>

\* ConsumeFindings, one consumer at a time. After an error the ones started before
\* run on until the connection is closed. Without a stream the first one panics, which
\* ends the process with a failure like any error.
ConsumeNext ==
    /\ Forwarder("consume")
    /\ \E c \in consumers :
       /\ \A d \in consumers \ {c} : Before(c, d)
       /\ \/ /\ NoFault /\ ~GCancelled /\ Accepted(c)
             /\ CreateOrUpdateConsumer(c)
             /\ consuming' = consuming \cup {c.name}
             /\ consumers' = consumers \ {c} /\ UNCHANGED <<stage, exit>>
          \/ /\ \/ NoFault /\ (GCancelled \/ ~Accepted(c))
                \/ Fault("consumer")
             /\ Return(1) /\ UNCHANGED <<consumers, durables, consuming>>
    /\ UNCHANGED <<input, served, conns, group, stream>>

ConsumersStarted ==
    /\ Forwarder("consume") /\ consumers = {}
    /\ Goto("serve")
    /\ UNCHANGED <<input, consumers, served, conns, group, nats, faults>>

\* The goroutines start; run waits for all of them.
Serve ==
    /\ stage = "serve"
    /\ task' = [t \in Tasks |-> "running"]
    /\ served' = TRUE
    /\ Goto("wait")
    /\ UNCHANGED <<input, consumers, groupErr, conns, nats, faults>>

\* Mutant: the goroutine that stops the consumers is not in the group.
Wait_ForServerOnly ==
    /\ stage = "wait"
    /\ \A t \in {"listen", "shutdown"} : task[t] = "done"
    /\ Return(IF groupErr THEN 1 ELSE 0)
    /\ UNCHANGED <<input, consumers, served, conns, group, nats, faults>>

\* g.Wait: the first error of the group, if any.
Wait ==
    /\ stage = "wait"
    /\ \A t \in Tasks : task[t] = "done"
    /\ Return(IF groupErr THEN 1 ELSE 0)
    /\ UNCHANGED <<input, consumers, served, conns, group, nats, faults>>

\* The deferred calls: NATS is closed before Redis, and nothing is consumed any more.
Close ==
    /\ stage = "close"
    /\ \/ /\ "nats" \in conns
          /\ conns' = conns \ {"nats"} /\ consuming' = {}
          /\ UNCHANGED <<stage, exit>>
       \/ /\ "nats" \notin conns
          /\ conns' = {} /\ Goto("exited") /\ UNCHANGED consuming
    /\ UNCHANGED <<input, consumers, served, group, stream, durables, faults>>

-----------------------------------------------------------------------------
(* The goroutines *)

Finish(t, err) ==
    /\ task' = [task EXCEPT ![t] = "done"]
    /\ groupErr' = (groupErr \/ err)

\* The forwarder stops its consumers. The loop of the feeder returns ctx.Err(),
\* which the group takes for a failure.
StopWorker ==
    /\ task["worker"] = "running" /\ GCancelled
    /\ Finish("worker", program = "feeder")
    /\ consuming' = {}
    /\ UNCHANGED <<input, conns, main, stream, durables, faults>>

\* Mutant: ErrServerClosed is reported like any other error.
Listen_ReportsClosed ==
    /\ task["listen"] = "running" /\ task["shutdown"] \in {"draining", "done"}
    /\ Finish("listen", TRUE)
    /\ UNCHANGED <<input, conns, main, nats, faults>>

\* ListenAndServe returns when Shutdown has been called, even before it listens ...
Listen ==
    /\ task["listen"] = "running" /\ task["shutdown"] \in {"draining", "done"}
    /\ Finish("listen", FALSE)
    /\ UNCHANGED <<input, conns, main, nats, faults>>

\* ... or with an error: the port is taken, or it cannot accept any more.
ListenFails ==
    /\ task["listen"] = "running"
    /\ Fault("listen") /\ Finish("listen", TRUE)
    /\ UNCHANGED <<input, conns, main, nats>>

\* Mutant: the server is shut down on a signal only.
BeginShutdown_OnSignal ==
    /\ task["shutdown"] = "running" /\ signalled
    /\ task' = [task EXCEPT !["shutdown"] = "draining"]
    /\ UNCHANGED <<input, groupErr, conns, main, nats, faults>>

BeginShutdown ==
    /\ task["shutdown"] = "running" /\ GCancelled
    /\ task' = [task EXCEPT !["shutdown"] = "draining"]
    /\ UNCHANGED <<input, groupErr, conns, main, nats, faults>>

\* The live connections end within ten seconds, or Shutdown returns an error.
EndShutdown ==
    /\ task["shutdown"] = "draining"
    /\ \/ NoFault /\ Finish("shutdown", FALSE)
       \/ Fault("drain") /\ Finish("shutdown", TRUE)
    /\ UNCHANGED <<input, conns, main, nats>>

-----------------------------------------------------------------------------

Signal ==
    /\ ~signalled /\ stage # "exited"
    /\ signalled' = TRUE
    /\ UNCHANGED <<program, cfg, main, group, conns, nats, faults>>

Run == Setup \/ LoadConfig \/ ConnectRedis \/ ConnectNats \/ CreateStream \/ BuildConsumers
           \/ ConsumeNext \/ ConsumersStarted \/ Serve \/ Wait \/ Close

Shutdown == BeginShutdown \/ EndShutdown

Next == Run \/ StopWorker \/ Listen \/ ListenFails \/ Shutdown \/ Signal

Spec == Init /\ [][Next]_vars

\* Every call has a timeout and a goroutine whose context is done notices it. The
\* server need not fail, and no signal need come.
Fairness == WF_vars(Run) /\ WF_vars(StopWorker) /\ WF_vars(Listen) /\ WF_vars(Shutdown)

FairSpec == Spec /\ Fairness

-----------------------------------------------------------------------------
(* Properties *)

\* A signal, or anything that fails before or after the start, ends the process:
\* no goroutine waits for an event that only another failure would bring.
Stops == (signalled \/ faults > 0) ~> stage = "exited"

\* The exit code tells an orchestrator how the forwarder ended: 0 if and only if it
\* had started, nothing failed and it was told to stop. No program that fails to
\* start exits with 0.
ExitCodeTells ==
    stage = "exited" =>
        /\ program = "forwarder" => (exit = 0 <=> served /\ signalled /\ faults = 0)
        /\ ~served => exit = 1

\* What JetStream asks of the file, lengths aside, and ValidateConfig does not look at:
\* the characters of consumers, teams and bots, the first part and those behind the bot, and whether
\* two subjects overlap, which only subjects of one team and bot can.
Plain(c) ==
    /\ \A e \in Entries(c) :
          LET s == Subject(c, e) IN
          /\ \A part \in {Consumer(c, e).name, s[2], s[3]} : ToSet(part) \cap Illegal = {}
          /\ s[1] \notin Reserved /\ ToSet(s[1]) \cap Blank = {}
          /\ \A n \in SubjectParts + 1 .. Len(s) :
                /\ s[n] # EmptyPart /\ ToSet(s[n]) \cap Blank = {}
                /\ s[n] = Rest => n = Len(s)
    /\ \A d, e \in Entries(c) :
          LET s == Subject(c, d)
              t == Subject(c, e)
          IN  s[2] = t[2] /\ s[3] = t[3] /\ Overlap(s, t) => s = t

\* The forwarder starts with exactly the files that pass the validation and are
\* plain, unless a call fails or it is told to stop first. So NewConsumers refuses
\* nothing that ValidateConfig let through, and Plain is the whole of what JetStream
\* may still refuse: a file that is not plain passes the validation and never starts.
ValidConfigStarts ==
    program = "forwarder" =>
        /\ served => ValidateConfig(cfg) /\ Plain(cfg)
        /\ exit = 1 /\ ~served /\ ValidateConfig(cfg) /\ Plain(cfg) => signalled \/ faults > 0

\* Once the forwarder serves, every subject of every consumer in the file has a
\* durable consumer of its own, filtered by that subject and consumed until the stop:
\* no two consumers share one and miss each other's findings.
EverySubjectServed ==
    program = "forwarder" /\ stage = "wait" =>
        /\ consuming # {} \/ GCancelled
        /\ \A e \in Entries(cfg) :
              LET name == Durable(Consumer(cfg, e), Subject(cfg, e)) IN
              /\ name \in DOMAIN durables /\ durables[name] = Subject(cfg, e)
              /\ name \in consuming \/ GCancelled

\* A forwarder that has started closes its connections only after it has stopped
\* all consumers. (One that fails while it starts them closes NATS under them.)
StoppedBeforeClose == served /\ stage = "close" => consuming = {}
=============================================================================
