-------------------------- MODULE LifecycleProofs --------------------------
(***************************************************************************)
(* For every notification.yaml and number of failing calls: the types;     *)
(* that the consumers have stopped before a forwarder that had started     *)
(* closes its connections; that the exit code tells how the process ended; *)
(* that the forwarder starts with exactly the files that the validation    *)
(* and JetStream's own rules let through, and that every subject of them   *)
(* is served by a durable consumer of its own.                             *)
(***************************************************************************)
EXTENDS Lifecycle, TLAPS

-----------------------------------------------------------------------------
(* The configuration *)

\* What ValidateConfig accepts, NewConsumers does not refuse: every subject has three
\* parts and every channel exists (validateSubjects, validateChannelRefs).
LEMMA ValidIsBuildable ==
    ASSUME NEW c, ValidateConfig(c)
    PROVE  Buildable(c)
<1> SUFFICES ASSUME NEW e \in Entries(c)
             PROVE  /\ Len(Subject(c, e)) >= 3
                    /\ <<Consumer(c, e).type, Consumer(c, e).channel>> \in NotificationChannels(c)
  BY DEF Buildable
<1>1. e[1] \in DOMAIN c.consumers BY DEF Entries
<1>2. Len(Subject(c, e)) >= 3
  BY DEF ValidateConfig, Subjects, WellFormed, SubjectParts
<1>3. <<Consumer(c, e).type, Consumer(c, e).channel>> \in c.channels
  BY <1>1 DEF ValidateConfig, ChannelRefs, Consumer
<1> QED BY <1>2, <1>3 DEF NotificationChannels

\* What a consumer of the file is, and that it is one of the subjects of the stream.
LEMMA ConsumerOfFile ==
    ASSUME NEW c, NEW k \in NewConsumers(c)
    PROVE  /\ k.at \in Entries(c) /\ k.subject = Subject(c, k.at)
           /\ k.name = Durable(Consumer(c, k.at), Subject(c, k.at))
           /\ k.subject \in CollectNatsSubjects(c)
BY DEF NewConsumers, CollectNatsSubjects

\* No two consumers of a valid file share a durable (validateSubjects).
LEMMA DurablesOfFileDiffer ==
    ASSUME NEW c, ValidateConfig(c),
           NEW k \in NewConsumers(c), NEW l \in NewConsumers(c), k.name = l.name
    PROVE  k = l
<1>1. k.at = l.at
    BY ConsumerOfFile DEF ValidateConfig, Subjects, DurablesDiffer
<1> QED
    BY <1>1 DEF NewConsumers

\* The entries of a file are typed.
LEMMA EntryType ==
    ASSUME NEW c \in NotificationConfig, NEW e \in Entries(c)
    PROVE  Consumer(c, e).name \in Part /\ Subject(c, e) \in Seq(Part)
<1>1. /\ c.consumers \in Seq(ConsumerConfig)
      /\ e[1] \in DOMAIN c.consumers /\ e[2] \in DOMAIN c.consumers[e[1]].subjects
    BY DEF NotificationConfig, Entries
<1>2. c.consumers[e[1]] \in ConsumerConfig
    BY <1>1
<1>3. c.consumers[e[1]].name \in Part /\ c.consumers[e[1]].subjects \in Seq(Seq(Part))
    BY <1>2 DEF ConsumerConfig
<1> QED
    BY <1>1, <1>3 DEF Consumer, Subject

\* A valid file has a consumer with a subject.
LEMMA ValidHasEntry ==
    ASSUME NEW c \in NotificationConfig, ValidateConfig(c)
    PROVE  Entries(c) # {}
<1>1. ASSUME NEW S, NEW s \in Seq(S), s # <<>>
      PROVE  1 \in DOMAIN s
    BY <1>1
<1>2. c.consumers \in Seq(ConsumerConfig) /\ c.consumers # <<>>
    BY DEF ValidateConfig, NotificationConfig
<1>3. 1 \in DOMAIN c.consumers
    BY <1>1, <1>2
<1>4. c.consumers[1] \in ConsumerConfig
    BY <1>2, <1>3
<1>5. c.consumers[1].subjects \in Seq(Seq(Part)) /\ c.consumers[1].subjects # <<>>
    BY <1>3, <1>4 DEF ValidateConfig, Subjects, ConsumerConfig
<1>6. 1 \in DOMAIN c.consumers[1].subjects
    BY <1>1, <1>5
<1>7. \A k \in DOMAIN c.consumers :
          \A n \in DOMAIN c.consumers[k].subjects : <<k, n>> \in Entries(c)
    BY DEF Entries
<1> QED
    BY <1>3, <1>6, <1>7

\* The pieces of what is glued together are those of the parts.
LEMMA GluedPieces ==
    ASSUME NEW a \in Part, NEW b \in Part, NEW c \in Part
    PROVE  ToSet(a \o b \o c) = ToSet(a) \cup ToSet(b) \cup ToSet(c)
<1>1. ASSUME NEW s \in Seq(STRING), NEW t \in Seq(STRING)
      PROVE  s \o t \in Seq(STRING) /\ ToSet(s \o t) = ToSet(s) \cup ToSet(t)
    <2>1. s \o t \in Seq(STRING) OBVIOUS
    <2>2. ToSet(s \o t) \subseteq ToSet(s) \cup ToSet(t)
        BY DEF ToSet
    <2>3. ToSet(s) \subseteq ToSet(s \o t)
        <3> SUFFICES ASSUME NEW n \in DOMAIN s PROVE s[n] \in ToSet(s \o t)
            BY DEF ToSet
        <3>1. n \in DOMAIN (s \o t) /\ (s \o t)[n] = s[n]
            OBVIOUS
        <3> QED
            BY <3>1 DEF ToSet
    <2>4. ToSet(t) \subseteq ToSet(s \o t)
        <3> SUFFICES ASSUME NEW n \in DOMAIN t PROVE t[n] \in ToSet(s \o t)
            BY DEF ToSet
        <3>1. Len(s) + n \in DOMAIN (s \o t) /\ (s \o t)[Len(s) + n] = t[n]
            OBVIOUS
        <3> QED
            BY <3>1 DEF ToSet
    <2> QED
        BY <2>1, <2>2, <2>3, <2>4
<1>2. a \o b \in Seq(STRING) /\ ToSet(a \o b) = ToSet(a) \cup ToSet(b)
    BY <1>1 DEF Part
<1>3. ToSet((a \o b) \o c) = ToSet(a \o b) \cup ToSet(c)
    BY <1>1, <1>2 DEF Part
<1> QED
    BY <1>2, <1>3

\* The parts of a subject in a valid file that the durable name is glued from.
LEMMA NameOfFile ==
    ASSUME NEW c \in NotificationConfig, ValidateConfig(c), NEW e \in Entries(c)
    PROVE  LET s == Subject(c, e)
               name == Durable(Consumer(c, e), s)
           IN  /\ s \in Seq(Part) /\ Len(s) >= 3
               /\ s[1] \in Part /\ s[2] \in Part /\ s[3] \in Part
               /\ \A n \in 1..3 : s[n] # EmptyPart
               /\ ToSet(name) = ToSet(s[2]) \cup ToSet(Consumer(c, e).name) \cup ToSet(s[3])
<1> DEFINE s == Subject(c, e)
<1>1. Consumer(c, e).name \in Part /\ s \in Seq(Part)
    BY EntryType
<1>2. Len(s) >= 3 /\ \A n \in 1..3 : s[n] # EmptyPart
    BY DEF ValidateConfig, Subjects, WellFormed, SubjectParts
<1>3. s[1] \in Part /\ s[2] \in Part /\ s[3] \in Part
    BY <1>1, <1>2
<1> QED
    BY <1>1, <1>2, <1>3, GluedPieces DEF Durable

\* A part with a wildcard in it has an illegal piece.
LEMMA WildcardIsIllegal ==
    /\ ToSet(AnyPart) \cap Illegal # {} /\ ToSet(Rest) \cap Illegal # {}
    /\ Blank \subseteq Illegal
<1>1. "*" \in ToSet(AnyPart) /\ ">" \in ToSet(Rest)
    BY DEF ToSet, AnyPart, Rest
<1> QED
    BY <1>1, PiecesAssumption

\* JetStream takes the subjects of every valid file that is plain.
LEMMA PlainIsTaken ==
    ASSUME NEW c \in NotificationConfig, ValidateConfig(c), Plain(c)
    PROVE  StreamTaken(CollectNatsSubjects(c))
<1> DEFINE Literal(part) == ToSet(part) \cap Illegal = {}
<1>1. ASSUME NEW e \in Entries(c)
      PROVE  LET s == Subject(c, e) IN
             /\ s \in Seq(Part) /\ Len(s) >= 3 /\ Literal(s[2]) /\ Literal(s[3])
             /\ s[2] \notin {AnyPart, Rest} /\ s[3] \notin {AnyPart, Rest} /\ s[1] # Rest
    <2>1. Subject(c, e) \in Seq(Part) /\ Len(Subject(c, e)) >= 3
        BY NameOfFile
    <2>2. Literal(Subject(c, e)[2]) /\ Literal(Subject(c, e)[3]) /\ Subject(c, e)[1] # Rest
        BY DEF Plain, Reserved
    <2> QED
        BY <2>1, <2>2, WildcardIsIllegal
<1>2. ASSUME NEW e \in Entries(c)
      PROVE  ValidSubject(Subject(c, e))
    <2> DEFINE s == Subject(c, e)
    <2>1. s[1] \notin Reserved /\ ToSet(s[1]) \cap Blank = {}
        BY DEF Plain
    <2>2. ASSUME NEW n \in DOMAIN s
          PROVE  s[n] # EmptyPart /\ ToSet(s[n]) \cap Blank = {} /\ (s[n] = Rest => n = Len(s))
        <3>1. s \in Seq(Part) /\ n \in 1..Len(s) /\ Len(s) \in Nat
            BY <1>1
        <3>2. CASE n \in 1..3
            <4>1. s[n] # EmptyPart
                BY <3>2, NameOfFile
            <4>2. n = 1 \/ n = 2 \/ n = 3
                BY <3>2
            <4> QED
                BY <1>1, <2>1, <4>1, <4>2, WildcardIsIllegal
        <3>3. CASE n \in SubjectParts + 1 .. Len(s)
            BY <3>3 DEF Plain
        <3> QED
            BY <3>1, <3>2, <3>3 DEF SubjectParts
    <2> QED
        BY <2>1, <2>2 DEF ValidSubject
<1>3. ASSUME NEW d \in Entries(c), NEW e \in Entries(c), Overlap(Subject(c, d), Subject(c, e))
      PROVE  Subject(c, d) = Subject(c, e)
    <2> DEFINE s == Subject(c, d)
               t == Subject(c, e)
    <2>1. PICK n \in DOMAIN s \cap DOMAIN t :
             /\ \A m \in 1..n : s[m] = t[m] \/ {s[m], t[m]} \cap {AnyPart, Rest} # {}
             /\ Rest \in {s[n], t[n]} \/ (n = Len(s) /\ n = Len(t))
        BY <1>3 DEF Overlap
    <2>2. n \in Nat \ {0} /\ n # 1 /\ n # 2
        BY <1>1, <2>1
    <2>3. 2 \in 1..n /\ 3 \in 1..n
        BY <2>2
    <2>4. s[2] = t[2] /\ s[3] = t[3]
        BY <1>1, <2>1, <2>3
    <2> QED
        BY <1>3, <2>4 DEF Plain
<1> QED
    BY <1>2, <1>3 DEF StreamTaken, CollectNatsSubjects

\* JetStream takes every consumer of a valid file that is plain.
LEMMA PlainIsAccepted ==
    ASSUME NEW c \in NotificationConfig, ValidateConfig(c), Plain(c),
           NEW k \in NewConsumers(c), stream = CollectNatsSubjects(c)
    PROVE  Accepted(k)
<1> DEFINE e == k.at
           s == Subject(c, e)
<1>1. e \in Entries(c) /\ k.name = Durable(Consumer(c, e), s) /\ k.subject \in stream
    BY ConsumerOfFile
<1>2. ToSet(k.name) = ToSet(s[2]) \cup ToSet(Consumer(c, e).name) \cup ToSet(s[3])
    BY <1>1, NameOfFile
<1>3. \A part \in {Consumer(c, e).name, s[2], s[3]} : ToSet(part) \cap Illegal = {}
    BY <1>1 DEF Plain
<1> QED
    BY <1>1, <1>2, <1>3 DEF Accepted

\* And a valid file of which JetStream has taken all is plain.
LEMMA TakenIsPlain ==
    ASSUME NEW c \in NotificationConfig, ValidateConfig(c),
           StreamTaken(CollectNatsSubjects(c)),
           \A k \in NewConsumers(c) : ToSet(k.name) \cap Illegal = {}
    PROVE  Plain(c)
<1>1. ASSUME NEW e \in Entries(c)
      PROVE  LET s == Subject(c, e) IN
             /\ \A part \in {Consumer(c, e).name, s[2], s[3]} : ToSet(part) \cap Illegal = {}
             /\ s[1] \notin Reserved /\ ToSet(s[1]) \cap Blank = {}
             /\ \A n \in SubjectParts + 1 .. Len(s) :
                   /\ s[n] # EmptyPart /\ ToSet(s[n]) \cap Blank = {}
                   /\ s[n] = Rest => n = Len(s)
    <2> DEFINE s == Subject(c, e)
               k == [at |-> e, name |-> Durable(Consumer(c, e), s), subject |-> s]
    <2>1. k \in NewConsumers(c)
        BY DEF NewConsumers
    <2>2. ToSet(Durable(Consumer(c, e), s)) \cap Illegal = {}
        BY <2>1
    <2>3. s \in Seq(Part) /\ Len(s) >= 3
          /\ ToSet(Durable(Consumer(c, e), s))
                = ToSet(s[2]) \cup ToSet(Consumer(c, e).name) \cup ToSet(s[3])
        BY NameOfFile
    <2>4. ValidSubject(s)
        BY DEF StreamTaken, CollectNatsSubjects
    <2>5. 1 \in DOMAIN s /\ SubjectParts + 1 .. Len(s) \subseteq DOMAIN s
        BY <2>3 DEF SubjectParts
    <2> QED
        BY <2>2, <2>3, <2>4, <2>5 DEF ValidSubject
<1>2. ASSUME NEW d \in Entries(c), NEW e \in Entries(c), Overlap(Subject(c, d), Subject(c, e))
      PROVE  Subject(c, d) = Subject(c, e)
    BY <1>2 DEF StreamTaken, CollectNatsSubjects
<1> QED
    BY <1>1, <1>2 DEF Plain

-----------------------------------------------------------------------------
(* The file *)

Configured == program = "forwarder" /\ stage \in Stages \ {"setup", "config", "close", "exited"}

\* A forwarder that has read its file has a valid one.
FileInv ==
    /\ cfg \in NotificationConfig
    /\ Configured => ValidateConfig(cfg)

LEMMA FileInvariant ==
    Spec => []FileInv
<1> USE DEF FileInv, Configured, Stages, input, main
<1>1. Init => FileInv
    BY LifecycleAssumption DEF Init
<1>2. FileInv /\ [Next]_vars => FileInv'
    <2> SUFFICES ASSUME FileInv, [Next]_vars PROVE FileInv' OBVIOUS
    <2>1. CASE Setup \/ LoadConfig
        BY <2>1 DEF Setup, LoadConfig, Forwarder, Goto, Return
    <2>2. CASE ConnectRedis \/ ConnectNats \/ CreateStream
        BY <2>2 DEF ConnectRedis, ConnectNats, CreateStream, Forwarder, Goto, Return
    <2>3. CASE BuildConsumers \/ ConsumeNext \/ ConsumersStarted
        BY <2>3 DEF BuildConsumers, ConsumeNext, ConsumersStarted, Forwarder, Goto, Return
    <2>4. CASE Serve \/ Wait \/ Close
        BY <2>4 DEF Serve, Wait, Close, Goto, Return
    <2>5. CASE StopWorker \/ Listen \/ ListenFails \/ Shutdown
        BY <2>5 DEF StopWorker, Listen, ListenFails, Shutdown, BeginShutdown, EndShutdown
    <2>6. CASE Signal \/ UNCHANGED vars
        BY <2>6 DEF Signal, vars
    <2> QED
        BY <2>1, <2>2, <2>3, <2>4, <2>5, <2>6 DEF Next, Run
<1> QED
    BY <1>1, <1>2, PTL DEF Spec

-----------------------------------------------------------------------------
(* The course of run() and of the group *)

Over == stage \in {"close", "exited"}

\* How far run() is and what has been recorded of it.
StageInv ==
    /\ stage \in Stages /\ served \in BOOLEAN
    /\ served => stage = "wait" \/ Over
    /\ stage = "wait" => served
    /\ Over <=> exit # -1
    /\ exit \in {-1, 0, 1}

\* The group exists while run() waits for it, and has ended when run() returns.
GroupInv ==
    /\ task \in [Tasks -> {"none", "running", "draining", "done"}]
    /\ groupErr \in BOOLEAN /\ signalled \in BOOLEAN
    /\ stage # "wait" => \A t \in Tasks : task[t] \in {"none", "done"}
    /\ task["worker"] = "done" => GCancelled

\* The name of the stream was in use: the consumers have yet to find that there is none.
Streamless ==
    /\ program = "forwarder" /\ stage \in {"build", "consume"} /\ stream = {}
    /\ stage = "consume" => consumers # {}

\* A failing call before the start ends it, at once or for want of a stream; one after
\* the start is an error of the group; only the group of the feeder has errors that are
\* none.
FaultInv ==
    /\ faults \in Nat
    /\ stage \in {"setup", "config", "redis", "nats", "stream"} => stream = {} /\ consumers = {}
    /\ stage # "wait" /\ ~Over => groupErr = FALSE /\ (faults = 0 \/ Streamless)
    /\ program = "forwarder" /\ stage = "wait" => (groupErr <=> faults > 0)

\* What run() returned when it had not started, and when it had.
ExitInv ==
    /\ Over /\ ~served => exit = 1
    /\ Over /\ served /\ program = "forwarder" =>
          (exit = 0 => signalled /\ faults = 0) /\ (exit = 1 => faults > 0)

\* The messages of a durable consumer reach no handler once the worker has stopped.
StopInv ==
    /\ stage = "wait" /\ task["worker"] = "done" => consuming = {}
    /\ Over /\ served => consuming = {}

LifeInv == StageInv /\ GroupInv /\ FaultInv /\ ExitInv /\ StopInv

LEMMA LifeInit == Init => LifeInv
<1> SUFFICES ASSUME Init PROVE LifeInv OBVIOUS
<1>1. /\ stage = "setup" /\ served = FALSE /\ exit = -1 /\ faults = 0
      /\ task = [t \in Tasks |-> "none"] /\ groupErr = FALSE /\ signalled = FALSE
      /\ stream = {} /\ consumers = {}
  BY DEF Init
<1>2. StageInv BY <1>1 DEF StageInv, Over, Stages
<1>3. GroupInv BY <1>1 DEF GroupInv, Tasks
<1>4. FaultInv /\ ExitInv /\ StopInv BY <1>1 DEF FaultInv, ExitInv, StopInv, Over
<1> QED BY <1>2, <1>3, <1>4 DEF LifeInv

\* A step of run() before the group exists goes on without a fault, goes on without
\* a stream, or returns 1.
LEMMA StartStep ==
    ASSUME LifeInv, FileInv,
           Setup \/ LoadConfig \/ ConnectRedis \/ ConnectNats \/ CreateStream
               \/ BuildConsumers \/ ConsumeNext \/ ConsumersStarted
    PROVE  LifeInv'
<1> DEFINE First == {"setup", "config", "redis", "nats", "stream"}
           Early == First \cup {"build", "consume"}
           Next1 == /\ stage' \in Early \cup {"serve"} /\ exit' = exit
                    /\ stage' \in First => stream' = {} /\ consumers' = {}
                    /\ faults' = 0 \/ (Streamless' /\ faults' \in Nat)
           Last1 == stage' = "close" /\ exit' = 1 /\ faults' \in Nat
<1>1. stage \in Early
  BY DEF Setup, LoadConfig, ConnectRedis, ConnectNats, CreateStream, BuildConsumers,
         ConsumeNext, ConsumersStarted, Forwarder
<1>2. /\ ~served /\ exit = -1 /\ groupErr = FALSE /\ faults \in Nat
      /\ faults = 0 \/ Streamless
      /\ stage \in First => stream = {} /\ consumers = {} /\ faults = 0
  BY <1>1 DEF LifeInv, StageInv, FaultInv, Over, Stages, Streamless
<1>3. /\ UNCHANGED <<program, signalled, task, groupErr, served>>
      /\ Next1 \/ Last1
  <2>1. CASE Setup
    BY <1>2, <2>1 DEF Setup, Goto, Return, NoFault, Fault, input, group, nats
  <2>2. CASE LoadConfig
    BY <1>2, <2>2 DEF LoadConfig, Forwarder, Goto, Return, NoFault, Fault, input, group, nats
  <2>3. CASE ConnectRedis
    BY <1>2, <2>3 DEF ConnectRedis, Forwarder, Goto, Return, NoFault, Fault, input, group, nats
  <2>4. CASE ConnectNats
    BY <1>2, <2>4 DEF ConnectNats, Goto, Return, NoFault, Fault, input, group, nats
  <2>5. CASE CreateStream
    BY <1>2, <2>5
    DEF CreateStream, Forwarder, Goto, Return, NoFault, Fault, input, group, Streamless
  <2>6. CASE BuildConsumers
    <3>1. NewConsumers(cfg) # {}
      BY <2>6, ValidHasEntry
      DEF BuildConsumers, Forwarder, FileInv, Configured, Stages, NewConsumers
    <3> QED
      BY <1>2, <2>6, <3>1
      DEF BuildConsumers, Forwarder, Goto, Return, input, group, nats, Streamless
  <2>7. CASE ConsumeNext
    <3>1. Streamless => \A c \in consumers : ~Accepted(c)
      BY DEF Streamless, Accepted
    <3> QED
      BY <1>2, <2>7, <3>1
      DEF ConsumeNext, Forwarder, Return, NoFault, Fault, input, group
  <2>8. CASE ConsumersStarted
    BY <1>2, <2>8 DEF ConsumersStarted, Forwarder, Goto, input, group, nats, Streamless
  <2> QED BY <2>1, <2>2, <2>3, <2>4, <2>5, <2>6, <2>7, <2>8
<1>4. stage' \in Stages /\ stage' # "wait" /\ ~served' /\ groupErr' = FALSE
  BY <1>2, <1>3 DEF Stages
<1>5. \/ exit' = -1 /\ ~Over'
      \/ exit' = 1 /\ Over' /\ stage' \notin First
  BY <1>2, <1>3 DEF Over
<1>6. StageInv'
  <2>1. served' \in BOOLEAN BY <1>3 DEF LifeInv, StageInv
  <2> QED BY <2>1, <1>4, <1>5 DEF StageInv
<1>7. GroupInv'
  <2>1. stage # "wait" BY <1>1
  <2> QED BY <2>1, <1>3, <1>4 DEF LifeInv, GroupInv, GCancelled
<1>8. FaultInv' BY <1>3, <1>4, <1>5 DEF FaultInv, Over
<1>9. ExitInv' /\ StopInv' BY <1>4, <1>5 DEF ExitInv, StopInv
<1> QED BY <1>6, <1>7, <1>8, <1>9 DEF LifeInv

\* run() starts the group, waits for it and closes the connections.
LEMMA GroupStep ==
    ASSUME LifeInv, Serve \/ Wait \/ Close
    PROVE  LifeInv'
<1>1. CASE Serve
  <2>1. /\ stage = "serve" /\ stage' = "wait" /\ served' = TRUE /\ exit' = exit
        /\ task' = [t \in Tasks |-> "running"]
        /\ UNCHANGED <<program, signalled, groupErr, faults>>
    BY <1>1 DEF Serve, Goto, input
  <2>2. exit = -1 /\ faults = 0 /\ groupErr = FALSE /\ signalled \in BOOLEAN
    BY <2>1 DEF LifeInv, StageInv, FaultInv, GroupInv, Over, Streamless
  <2>3. task'["worker"] = "running" BY <2>1 DEF Tasks
  <2> QED
    BY <2>1, <2>2, <2>3
    DEF LifeInv, StageInv, GroupInv, FaultInv, ExitInv, StopInv, Over, Stages, Tasks
<1>2. CASE Wait
  <2>1. /\ stage = "wait" /\ stage' = "close"
        /\ \A t \in Tasks : task[t] = "done"
        /\ exit' = IF groupErr THEN 1 ELSE 0
        /\ UNCHANGED <<program, signalled, served, task, groupErr, consuming, faults>>
    BY <1>2 DEF Wait, Return, input, group, nats
  <2>2. task["worker"] = "done" BY <2>1 DEF Tasks
  <2>3. served /\ GCancelled /\ consuming = {} /\ faults \in Nat
    BY <2>1, <2>2 DEF LifeInv, StageInv, GroupInv, FaultInv, StopInv
  <2>4. program = "forwarder" => (groupErr <=> faults > 0)
    BY <2>1 DEF LifeInv, FaultInv
  <2>5. groupErr = FALSE => signalled BY <2>3 DEF GCancelled, LifeInv, GroupInv
  <2>6. StageInv' BY <2>1, <2>3 DEF StageInv, Over, Stages
  <2>7. GroupInv' BY <2>1, <2>3 DEF LifeInv, GroupInv, GCancelled
  <2>8. FaultInv' /\ StopInv' BY <2>1, <2>3 DEF FaultInv, StopInv, Over
  <2>9. ExitInv'
    BY <2>1, <2>3, <2>4, <2>5 DEF ExitInv, LifeInv, GroupInv
  <2> QED BY <2>6, <2>7, <2>8, <2>9 DEF LifeInv
<1>3. CASE Close
  <2>1. /\ stage = "close" /\ stage' \in {"close", "exited"} /\ exit' = exit
        /\ consuming' \in {consuming, {}}
        /\ UNCHANGED <<program, signalled, served, task, groupErr, faults>>
    BY <1>3 DEF Close, Goto, input, group
  <2> QED
    BY <2>1
    DEF LifeInv, StageInv, GroupInv, FaultInv, ExitInv, StopInv, Over, Stages, GCancelled
<1> QED BY <1>1, <1>2, <1>3

\* A goroutine ends with an error only on a fault, the loop of the feeder aside.
LEMMA TaskStep ==
    ASSUME LifeInv, StopWorker \/ Listen \/ ListenFails \/ Shutdown
    PROVE  LifeInv'
<1>1. /\ UNCHANGED <<program, signalled, stage, served, exit>>
      /\ \E t \in Tasks, s \in {"draining", "done"} :
            /\ task[t] \in {"running", "draining"}
            /\ task' = [task EXCEPT ![t] = s]
            /\ t = "worker" => s = "done" /\ GCancelled /\ consuming' = {}
            /\ t # "worker" => consuming' = consuming
      /\ \/ faults' = faults + 1 /\ groupErr' = TRUE
         \/ faults' = faults /\ groupErr' = groupErr
         \/ faults' = faults /\ program = "feeder" /\ groupErr' = TRUE
  <2>1. CASE StopWorker
    BY <2>1 DEF StopWorker, Finish, input, main, Tasks, LifeInv, GroupInv
  <2>2. CASE Listen
    BY <2>2 DEF Listen, Finish, input, main, nats, Tasks, LifeInv, GroupInv
  <2>3. CASE ListenFails
    BY <2>3 DEF ListenFails, Fault, Finish, input, main, nats, Tasks
  <2>4. CASE BeginShutdown
    BY <2>4 DEF BeginShutdown, input, main, nats, Tasks
  <2>5. CASE EndShutdown
    BY <2>5 DEF EndShutdown, NoFault, Fault, Finish, input, main, nats, Tasks, LifeInv, GroupInv
  <2> QED BY <2>1, <2>2, <2>3, <2>4, <2>5 DEF Shutdown
<1>2. PICK t \in Tasks, s \in {"draining", "done"} :
          /\ task[t] \in {"running", "draining"}
          /\ task' = [task EXCEPT ![t] = s]
          /\ t = "worker" => s = "done" /\ GCancelled /\ consuming' = {}
          /\ t # "worker" => consuming' = consuming
  BY <1>1
<1>3. stage = "wait" BY <1>2 DEF LifeInv, GroupInv
<1>4. StageInv' BY <1>1 DEF LifeInv, StageInv, Over
<1>5. GCancelled => GCancelled' BY <1>1 DEF GCancelled, LifeInv, GroupInv
<1>6. GroupInv'
  <2>1. task' \in [Tasks -> {"none", "running", "draining", "done"}]
    BY <1>2 DEF LifeInv, GroupInv
  <2>2. groupErr' \in BOOLEAN /\ signalled' \in BOOLEAN BY <1>1 DEF LifeInv, GroupInv
  <2>3. task'["worker"] = "done" => GCancelled'
    BY <1>2, <1>5 DEF LifeInv, GroupInv, Tasks
  <2> QED BY <2>1, <2>2, <2>3, <1>1, <1>3 DEF GroupInv
<1>7. FaultInv'
  BY <1>1, <1>3 DEF LifeInv, FaultInv, GroupInv, Over
<1>8. ExitInv' BY <1>1, <1>3 DEF ExitInv, Over
<1>9. StopInv'
  BY <1>1, <1>2, <1>3 DEF LifeInv, GroupInv, StopInv, Over, Tasks
<1> QED BY <1>4, <1>6, <1>7, <1>8, <1>9 DEF LifeInv

LEMMA SignalStep ==
    ASSUME LifeInv, Signal
    PROVE  LifeInv'
<1>1. /\ signalled' = TRUE
      /\ UNCHANGED <<program, stage, served, exit, task, groupErr, consuming, faults>>
      /\ UNCHANGED <<consumers, stream>>
  BY DEF Signal, main, group, nats
<1> QED
  BY <1>1
  DEF LifeInv, StageInv, GroupInv, FaultInv, ExitInv, StopInv, Over, GCancelled, Streamless

THEOREM LifeInvariant == Spec => []LifeInv
<1>1. LifeInv /\ FileInv /\ [Next]_vars => LifeInv'
  <2> SUFFICES ASSUME LifeInv, FileInv, [Next]_vars PROVE LifeInv' OBVIOUS
  <2>1. CASE Run BY <2>1, StartStep, GroupStep DEF Run
  <2>2. CASE StopWorker \/ Listen \/ ListenFails \/ Shutdown BY <2>2, TaskStep
  <2>3. CASE Signal BY <2>3, SignalStep
  <2>4. CASE UNCHANGED vars
    BY <2>4 DEF vars, input, main, group, nats, LifeInv, StageInv, GroupInv, FaultInv,
                ExitInv, StopInv, Over, GCancelled, Streamless
  <2> QED BY <2>1, <2>2, <2>3, <2>4 DEF Next
<1> QED BY <1>1, LifeInit, FileInvariant, PTL DEF Spec

\* A forwarder that has started stops all consumers before it closes a connection
\* (the order of the errgroup and the deferred closes in run).
THEOREM ConsumersStopFirst == Spec => []StoppedBeforeClose
<1>1. LifeInv => StoppedBeforeClose
  BY DEF LifeInv, StopInv, StoppedBeforeClose, Over
<1> QED BY <1>1, LifeInvariant, PTL

\* The exit code of the forwarder is 0 exactly when it had started, nothing failed
\* and a signal stopped it; no program that fails to start exits with 0.
THEOREM ExitCodeTruthful == Spec => []ExitCodeTells
<1>1. LifeInv => ExitCodeTells
  BY DEF LifeInv, StageInv, FaultInv, ExitInv, ExitCodeTells, Over
<1> QED BY <1>1, LifeInvariant, PTL

-----------------------------------------------------------------------------
(* The consumers of the forwarder *)

\* The consumer is JetStream's, and its messages reach the handler until the stop.
Started(c) ==
    /\ c.name \in DOMAIN durables /\ durables[c.name] = c.subject
    /\ c.name \in consuming \/ GCancelled

\* JetStream has taken the subjects of the file, or none because the name of the stream
\* was in use, which no consumer outlives; and every consumer of the file is either
\* started, under a name JetStream has taken, or still to be started.
SetUpInv ==
    /\ Configured /\ stage \notin {"redis", "nats", "stream"} =>
          \/ stream = CollectNatsSubjects(cfg) /\ StreamTaken(stream)
          \/ Streamless /\ faults > 0
    /\ Configured /\ stage \in {"consume", "serve", "wait"} =>
          /\ consumers \subseteq NewConsumers(cfg)
          /\ \A c \in NewConsumers(cfg) \ consumers :
                Started(c) /\ ToSet(c.name) \cap Illegal = {}
          /\ stage # "consume" => consumers = {}

\* Until there are consumers, a step of run() sets up what the file asks for.
LEMMA ConnectStep ==
    ASSUME LifeInv, SetUpInv, Setup \/ LoadConfig \/ ConnectRedis \/ ConnectNats \/ CreateStream
    PROVE  SetUpInv'
<1> USE DEF SetUpInv, Configured, Stages
<1>1. CASE Setup
    BY <1>1 DEF Setup, Goto, Return, input
<1>2. CASE LoadConfig
    BY <1>2 DEF LoadConfig, Forwarder, Goto, Return, input
<1>3. CASE ConnectRedis
    BY <1>3 DEF ConnectRedis, Forwarder, Goto, Return, input
<1>4. CASE ConnectNats
    BY <1>4 DEF ConnectNats, Forwarder, Goto, Return, input
<1>5. CASE CreateStream
    <2>1. /\ Forwarder("stream") /\ UNCHANGED <<program, cfg, consumers>>
          /\ \/ stream' = CollectNatsSubjects(cfg) /\ StreamTaken(stream') /\ stage' = "build"
             \/ stream' = stream /\ stage' = "close"
             \/ stream' = stream /\ stage' = "build" /\ Fault("stream")
        BY <1>5 DEF CreateStream, Goto, Return, input
    <2>2. stream = {} /\ faults \in Nat
        BY <2>1 DEF Forwarder, LifeInv, FaultInv
    <2>3. Fault("stream") => faults' > 0
        BY <2>2 DEF Fault
    <2> QED
        BY <2>1, <2>2, <2>3 DEF Forwarder, Streamless
<1> QED
    BY <1>1, <1>2, <1>3, <1>4, <1>5

\* A consumer that is started gets a durable of its own and takes it from no other.
LEMMA ConsumeStep ==
    ASSUME LifeInv, FileInv, SetUpInv, BuildConsumers \/ ConsumeNext \/ ConsumersStarted
    PROVE  SetUpInv'
<1> USE DEF SetUpInv, Configured, Stages
<1>1. CASE BuildConsumers
    <2>1. NewConsumers(cfg) # {}
        BY <1>1, ValidHasEntry DEF BuildConsumers, Forwarder, FileInv, NewConsumers
    <2> QED
        BY <1>1, <2>1 DEF BuildConsumers, Forwarder, Goto, Return, input, nats, Streamless
<1>2. CASE ConsumeNext
    <2>1. CASE stage' = "close"
        BY <1>2, <2>1 DEF ConsumeNext, input
    <2>2. ASSUME NEW c \in consumers, CreateOrUpdateConsumer(c), Accepted(c),
                 consuming' = consuming \cup {c.name}, consumers' = consumers \ {c},
                 stage' = stage
          PROVE  SetUpInv'
        <3>1. /\ Forwarder("consume") /\ ValidateConfig(cfg)
              /\ consumers \subseteq NewConsumers(cfg)
              /\ UNCHANGED <<program, cfg, signalled, groupErr, stream>>
            BY <1>2 DEF ConsumeNext, Forwarder, FileInv, input, group
        <3>2. /\ DOMAIN durables' = DOMAIN durables \cup {c.name}
              /\ durables'[c.name] = c.subject
              /\ \A d \in DOMAIN durables \ {c.name} : durables'[d] = durables[d]
            BY <2>2 DEF CreateOrUpdateConsumer
        <3>3. ASSUME NEW d \in NewConsumers(cfg) \ consumers'
              PROVE  Started(d)' /\ ToSet(d.name) \cap Illegal = {}
            <4>1. CASE d = c
                BY <2>2, <3>2, <4>1 DEF Started, Accepted
            <4>2. CASE d # c
                <5>1. Started(d) /\ ToSet(d.name) \cap Illegal = {} /\ d.name # c.name
                    BY <2>2, <3>1, <3>3, <4>2, DurablesOfFileDiffer DEF Forwarder
                <5> QED
                    BY <2>2, <3>1, <3>2, <5>1 DEF Started, GCancelled
            <4> QED
                BY <4>1, <4>2
        <3>4. stream = CollectNatsSubjects(cfg) /\ StreamTaken(stream)
            BY <2>2, <3>1 DEF Forwarder, Streamless, Accepted
        <3>5. stream' = CollectNatsSubjects(cfg') /\ StreamTaken(stream')
            BY <3>1, <3>4
        <3> QED
            BY <2>2, <3>1, <3>3, <3>5 DEF Forwarder
    <2> QED
        BY <1>2, <2>1, <2>2 DEF ConsumeNext, Return
<1>3. CASE ConsumersStarted
    <2>1. ~Streamless
        BY <1>3 DEF ConsumersStarted, Forwarder, Streamless
    <2> QED
        BY <1>3, <2>1
        DEF ConsumersStarted, Forwarder, Goto, input, group, nats, Started, GCancelled
<1> QED
    BY <1>1, <1>2, <1>3

\* From then on the consumers stay, until the worker stops them.
LEMMA ServeStep ==
    ASSUME LifeInv, SetUpInv,
           Serve \/ Wait \/ Close \/ StopWorker \/ Listen \/ ListenFails \/ Shutdown \/ Signal
               \/ UNCHANGED vars
    PROVE  SetUpInv'
<1> USE DEF SetUpInv, Configured, Stages
<1>1. CASE Serve
    BY <1>1 DEF Serve, Goto, input, nats, Started, GCancelled, Streamless
<1>2. CASE Wait \/ Close
    BY <1>2 DEF Wait, Close, Return, Goto, input
<1>3. CASE StopWorker
    <2>1. GCancelled' /\ stage = "wait"
        BY <1>3 DEF StopWorker, Finish, input, GCancelled, LifeInv, GroupInv, Tasks
    <2> QED
        BY <1>3, <2>1 DEF StopWorker, input, main, Started, Streamless
<1>4. CASE Listen \/ ListenFails \/ Shutdown
    <2>1. UNCHANGED <<program, cfg, signalled, stage, consumers, stream, durables, consuming>>
        BY <1>4 DEF Listen, ListenFails, Shutdown, BeginShutdown, EndShutdown, input, main, nats
    <2>2. groupErr => groupErr'
        BY <1>4 DEF Listen, ListenFails, Shutdown, BeginShutdown, EndShutdown, Finish
    <2>3. stage = "wait"
        BY <1>4
        DEF Listen, ListenFails, Shutdown, BeginShutdown, EndShutdown, LifeInv, GroupInv, Tasks
    <2> QED
        BY <2>1, <2>2, <2>3 DEF Started, GCancelled, Streamless
<1>5. CASE Signal
    BY <1>5 DEF Signal, main, group, nats, Started, GCancelled, Streamless
<1>6. CASE UNCHANGED vars
    BY <1>6 DEF vars, input, main, group, nats, Started, GCancelled, Streamless
<1> QED
    BY <1>1, <1>2, <1>3, <1>4, <1>5, <1>6

LEMMA SetUpInvariant ==
    Spec => []SetUpInv
<1>1. Init => SetUpInv
    BY DEF Init, SetUpInv, Configured, Stages
<1>2. LifeInv /\ FileInv /\ SetUpInv /\ [Next]_vars => SetUpInv'
    BY ConnectStep, ConsumeStep, ServeStep DEF Next, Run
<1> QED
    BY <1>1, <1>2, LifeInvariant, FileInvariant, PTL DEF Spec

\* NewConsumers never fails in a running forwarder, whatever is in the file: its
\* rules ask for nothing that ValidateConfig has not made sure of.
THEOREM NewConsumersSucceeds ==
    Spec => [](Forwarder("build") => Buildable(cfg))
<1>1. FileInv => (Forwarder("build") => Buildable(cfg))
    BY ValidIsBuildable DEF FileInv, Configured, Stages, Forwarder
<1> QED
    BY <1>1, FileInvariant, PTL

\* Whatever is in the file and whatever has failed: a forwarder that serves has a durable
\* for every subject of the file, with that subject as its filter, and consumes it until
\* it is stopped; no two consumers share one (NewConsumers, ConsumeFindings).
THEOREM EverySubjectIsServed ==
    Spec => []EverySubjectServed
<1>1. FileInv /\ SetUpInv => EverySubjectServed
    <2> SUFFICES ASSUME FileInv, SetUpInv, program = "forwarder", stage = "wait"
                 PROVE  EverySubjectServed
        BY DEF EverySubjectServed
    <2>1. ValidateConfig(cfg) /\ cfg \in NotificationConfig
          /\ \A c \in NewConsumers(cfg) : Started(c)
        BY DEF FileInv, SetUpInv, Configured, Stages
    <2>2. ASSUME NEW e \in Entries(cfg)
          PROVE  LET name == Durable(Consumer(cfg, e), Subject(cfg, e)) IN
                 /\ name \in DOMAIN durables /\ durables[name] = Subject(cfg, e)
                 /\ name \in consuming \/ GCancelled
        <3> DEFINE c == [at |-> e, name |-> Durable(Consumer(cfg, e), Subject(cfg, e)),
                         subject |-> Subject(cfg, e)]
        <3>1. c \in NewConsumers(cfg)
            BY DEF NewConsumers
        <3>2. Started(c)
            BY <2>1, <3>1
        <3> QED
            BY <3>2 DEF Started
    <2>3. Entries(cfg) # {}
        BY <2>1, ValidHasEntry
    <2> QED
        BY <2>2, <2>3 DEF EverySubjectServed
<1> QED
    BY <1>1, FileInvariant, SetUpInvariant, PTL

\* What no step takes back: the file, the signal, the faults and the start.
LEMMA StepFrame ==
    ASSUME [Next]_vars
    PROVE  /\ UNCHANGED <<program, cfg>>
           /\ signalled => signalled'
           /\ served => served'
           /\ faults' = faults \/ (faults < MaxFaults /\ faults' = faults + 1)
<1> USE DEF input, main, NoFault, Fault
<1>1. CASE Setup \/ LoadConfig \/ ConnectRedis
    BY <1>1 DEF Setup, LoadConfig, ConnectRedis
<1>2. CASE ConnectNats \/ CreateStream \/ BuildConsumers
    BY <1>2 DEF ConnectNats, CreateStream, BuildConsumers
<1>3. CASE ConsumeNext \/ ConsumersStarted
    BY <1>3 DEF ConsumeNext, ConsumersStarted
<1>4. CASE Serve \/ Wait \/ Close
    BY <1>4 DEF Serve, Wait, Close
<1>5. CASE StopWorker \/ Listen \/ ListenFails \/ Shutdown
    BY <1>5 DEF StopWorker, Listen, ListenFails, Shutdown, BeginShutdown, EndShutdown, Finish
<1>6. CASE Signal
    BY <1>6 DEF Signal
<1>7. CASE UNCHANGED vars
    BY <1>7 DEF vars
<1> QED
    BY <1>1, <1>2, <1>3, <1>4, <1>5, <1>6, <1>7 DEF Next, Run

\* A forwarder gets to the group with a plain file only, and what ends the start of one
\* with such a file is a signal or a failing call.
LEMMA StartKeeps ==
    ASSUME LifeInv, FileInv, SetUpInv, ValidConfigStarts, [Next]_vars
    PROVE  ValidConfigStarts'
<1> SUFFICES ASSUME program' = "forwarder"
             PROVE  /\ served' => ValidateConfig(cfg') /\ Plain(cfg')
                    /\ exit' = 1 /\ ~served' /\ ValidateConfig(cfg') /\ Plain(cfg') =>
                          signalled' \/ faults' > 0
    BY DEF ValidConfigStarts
<1>1. /\ UNCHANGED <<program, cfg>> /\ (signalled => signalled')
      /\ faults \in Nat /\ faults' \in {faults, faults + 1} /\ (served => served')
    BY StepFrame DEF LifeInv, FaultInv
<1>2. ASSUME served'
      PROVE  ValidateConfig(cfg') /\ Plain(cfg')
    <2>1. CASE served
        BY <1>1, <2>1 DEF ValidConfigStarts
    <2>2. CASE Serve
        <3>1. Configured /\ stage = "serve"
            BY <1>1, <2>2 DEF Serve, Configured, Stages
        <3>2. cfg \in NotificationConfig /\ ValidateConfig(cfg)
            BY <3>1 DEF FileInv
        <3>3. StreamTaken(CollectNatsSubjects(cfg))
            BY <3>1 DEF SetUpInv, Streamless
        <3>4. \A k \in NewConsumers(cfg) : ToSet(k.name) \cap Illegal = {}
            BY <3>1 DEF SetUpInv
        <3> QED
            BY <1>1, <3>2, <3>3, <3>4, TakenIsPlain
    <2>3. CASE ~served /\ ~Serve
        <3>1. served' = served
            BY <2>3
            DEF Next, Run, vars, main, Setup, LoadConfig, ConnectRedis, ConnectNats, CreateStream,
                BuildConsumers, ConsumeNext, ConsumersStarted, Wait, Close, StopWorker, Listen,
                ListenFails, Shutdown, BeginShutdown, EndShutdown, Signal
        <3> QED
            BY <1>2, <2>3, <3>1
    <2> QED
        BY <2>1, <2>2, <2>3
<1>3. ASSUME exit' = 1, ~served', ValidateConfig(cfg'), Plain(cfg')
      PROVE  signalled' \/ faults' > 0
    <2>1. CASE exit = 1
        BY <1>1, <1>3, <2>1 DEF ValidConfigStarts
    <2>2. CASE exit # 1 /\ BuildConsumers
        BY <1>1, <1>3, <2>2, ValidIsBuildable DEF BuildConsumers, Goto
    <2>3. CASE exit # 1 /\ ConsumeNext
        <3>1. PICK c \in consumers :
                 (NoFault /\ (GCancelled \/ ~Accepted(c))) \/ Fault("consumer")
            BY <1>3, <2>3 DEF ConsumeNext
        <3>2. Configured /\ stage = "consume"
            BY <1>1, <2>3 DEF ConsumeNext, Forwarder, Configured, Stages
        <3>3. CASE stream = CollectNatsSubjects(cfg)
            <4>1. c \in NewConsumers(cfg) /\ cfg \in NotificationConfig
                BY <3>1, <3>2 DEF SetUpInv, FileInv
            <4>2. Accepted(c)
                BY <1>1, <1>3, <3>3, <4>1, PlainIsAccepted
            <4>3. groupErr = FALSE
                BY <3>2 DEF LifeInv, FaultInv, Over
            <4> QED
                BY <1>1, <3>1, <4>2, <4>3 DEF GCancelled, Fault
        <3>4. CASE faults > 0
            BY <1>1, <3>4
        <3> QED
            BY <3>2, <3>3, <3>4 DEF SetUpInv
    <2>4. CASE exit # 1 /\ CreateStream
        <3>1. StreamTaken(CollectNatsSubjects(cfg))
            BY <1>1, <1>3, PlainIsTaken DEF FileInv
        <3> QED
            BY <1>1, <1>3, <2>4, <3>1 DEF CreateStream, Goto, Return, Fault, Cancelled
    <2>5. CASE Wait
        BY <1>3, <2>5 DEF Wait, LifeInv, StageInv
    <2>6. CASE exit # 1 /\ (Setup \/ LoadConfig \/ ConnectRedis \/ ConnectNats)
        BY <1>1, <1>3, <2>6
        DEF Setup, LoadConfig, ConnectRedis, ConnectNats, Goto, Return, Fault
    <2> QED
        BY <1>3, <2>1, <2>2, <2>3, <2>4, <2>5, <2>6
        DEF Next, Run, vars, main, Goto, ConsumersStarted, Serve, Close, StopWorker, Listen,
            ListenFails, Shutdown, BeginShutdown, EndShutdown, Signal
<1> QED
    BY <1>2, <1>3

\* The forwarder starts with exactly the files that the validation lets through and
\* that are plain: NewConsumers refuses no valid file, JetStream refuses no plain one
\* and takes no other; what else can end the start is a signal or a failing call.
THEOREM ValidFileStarts ==
    Spec => []ValidConfigStarts
<1>1. Init => ValidConfigStarts
    BY DEF Init, ValidConfigStarts
<1>2. LifeInv /\ FileInv /\ SetUpInv /\ ValidConfigStarts /\ [Next]_vars => ValidConfigStarts'
    BY StartKeeps
<1> QED
    BY <1>1, <1>2, LifeInvariant, FileInvariant, SetUpInvariant, PTL DEF Spec

-----------------------------------------------------------------------------
(* The types *)

\* What the steps do to the connections, to JetStream and to the consumers keeps the types.
LEMMA TypeStep ==
    ASSUME LifeInv, SetUpInv, TypeOK, [Next]_vars
    PROVE  /\ program' \in Programs /\ faults' \in 0..MaxFaults
           /\ conns' \subseteq {"redis", "nats"}
           /\ stream' \subseteq CollectNatsSubjects(cfg')
           /\ \A c \in consumers' : c.subject \in stream' \/ stream' = {}
           /\ \A d \in DOMAIN durables' : durables'[d] \in stream'
           /\ consuming' \subseteq DOMAIN durables'
<1> USE DEF TypeOK
<1>1. program' = program /\ cfg' = cfg /\ faults' \in 0..MaxFaults
    BY StepFrame, LifecycleAssumption
<1>2. CASE Setup \/ LoadConfig \/ ConsumersStarted \/ Serve \/ Wait
    BY <1>1, <1>2 DEF Setup, LoadConfig, ConsumersStarted, Serve, Wait, nats
<1>3. CASE ConnectRedis \/ ConnectNats \/ Close
    BY <1>1, <1>3 DEF ConnectRedis, ConnectNats, Close, nats
<1>4. CASE CreateStream
    <2>1. stream = {} /\ consumers = {}
        BY <1>4 DEF CreateStream, Forwarder, LifeInv, FaultInv
    <2> QED
        BY <1>1, <1>4, <2>1 DEF CreateStream
<1>5. CASE BuildConsumers
    <2>1. stream = CollectNatsSubjects(cfg) \/ stream = {}
        BY <1>5 DEF BuildConsumers, Forwarder, SetUpInv, Configured, Stages, Streamless
    <2> QED
        BY <1>1, <1>5, <2>1, ConsumerOfFile DEF BuildConsumers, nats
<1>6. CASE ConsumeNext
    BY <1>1, <1>6 DEF ConsumeNext, CreateOrUpdateConsumer, Accepted
<1>7. CASE StopWorker \/ Listen \/ ListenFails \/ Shutdown \/ Signal
    BY <1>1, <1>7
    DEF StopWorker, Listen, ListenFails, Shutdown, BeginShutdown, EndShutdown, Signal, main, nats
<1>8. CASE UNCHANGED vars
    BY <1>1, <1>8 DEF vars, main, nats
<1> QED
    BY <1>2, <1>3, <1>4, <1>5, <1>6, <1>7, <1>8 DEF Next, Run

\* Every variable of the two programs keeps its type; in particular a consumer is only
\* ever asked for, and a durable only ever filtered, by a subject of the stream.
THEOREM TypeCorrect ==
    Spec => []TypeOK
<1>1. Init => TypeOK
    <2> SUFFICES ASSUME Init PROVE TypeOK OBVIOUS
    <2>1. task \in [Tasks -> {"none", "running", "draining", "done"}]
        BY DEF Init
    <2>2. DOMAIN durables = {} /\ consumers = {} /\ stream = {} /\ consuming = {}
        BY DEF Init
    <2>3. /\ program \in Programs /\ stage \in Stages /\ conns = {}
          /\ signalled = FALSE /\ groupErr = FALSE /\ served = FALSE
          /\ exit = -1 /\ stage = "setup" /\ faults \in 0..MaxFaults
        BY LifecycleAssumption DEF Init, Stages
    <2> QED
        BY <2>1, <2>2, <2>3 DEF TypeOK
<1>2. LifeInv /\ LifeInv' /\ SetUpInv /\ TypeOK /\ [Next]_vars => TypeOK'
    <2> SUFFICES ASSUME LifeInv, LifeInv', SetUpInv, TypeOK, [Next]_vars
                 PROVE  TypeOK'
        OBVIOUS
    <2>1. signalled' \in BOOLEAN /\ stage' \in Stages /\ (Over' <=> exit' # -1)
          /\ exit' \in {-1, 0, 1} /\ served' \in BOOLEAN /\ groupErr' \in BOOLEAN
          /\ task' \in [Tasks -> {"none", "running", "draining", "done"}]
        BY DEF LifeInv, StageInv, GroupInv
    <2> QED
        BY <2>1, TypeStep DEF TypeOK, Over
<1> QED
    BY <1>1, <1>2, LifeInvariant, SetUpInvariant, PTL DEF Spec
=============================================================================
