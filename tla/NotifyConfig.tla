---------------------------- MODULE NotifyConfig ----------------------------
(***************************************************************************)
(* notification.yaml (internal/env): what ValidateConfig demands of it,    *)
(* and what NewConsumers and the stream are built from. The two read the   *)
(* file independently, so the rules of the one have to foresee the other.  *)
(*                                                                         *)
(* A name or a part of a subject is the sequence of its pieces between     *)
(* "_", because durable names are glued together with "_"; a subject is    *)
(* the sequence of its parts between ".". A piece is not taken apart any   *)
(* further; the constants say which hold characters that matter.           *)
(***************************************************************************)
EXTENDS Naturals, SequencesExt

CONSTANTS
    Illegal,     \* pieces with a character that no durable name may have: one of
                 \* > * . / \ or white space
    Blank        \* those with white space, which no subject may have either

ASSUME PiecesAssumption == {"*", ">"} \cup Blank \subseteq Illegal

Part == Seq(STRING)

\* What the file is unmarshalled into; a channel is its type and id.
ConsumerConfig ==
    [name : Part, type : STRING, channel : STRING, severities : SUBSET STRING,
     subjects : Seq(Seq(Part))]

NotificationConfig ==
    [levels : SUBSET STRING, channels : SUBSET (STRING \X STRING), consumers : Seq(ConsumerConfig)]

EmptyPart == <<"">>

ChannelTypes == {"Telegram", "Discord", "OpsGenie", "Slack"}

SubjectParts == 3

\* <team>_<consumerName>_<bot>, built alike by the validation and by NewConsumers.
Durable(consumer, subject) == subject[2] \o consumer.name \o subject[3]

\* Every subject of every consumer, as positions in the file.
Entries(cfg) ==
    UNION {{<<k, n>> : n \in DOMAIN cfg.consumers[k].subjects} : k \in DOMAIN cfg.consumers}

Consumer(cfg, e) == cfg.consumers[e[1]]
Subject(cfg, e)  == cfg.consumers[e[1]].subjects[e[2]]

-----------------------------------------------------------------------------
(* ValidateConfig *)

UniqueConsumerNames(cfg) ==
    \A k \in DOMAIN cfg.consumers :
        /\ cfg.consumers[k].name # EmptyPart
        /\ \A l \in DOMAIN cfg.consumers :
              cfg.consumers[k].name = cfg.consumers[l].name => k = l

\* Mutant: one table of ids for the channels of every type.
ChannelRefs_AnyType(cfg) ==
    \A k \in DOMAIN cfg.consumers :
        /\ cfg.consumers[k].type \in ChannelTypes
        /\ \E type \in ChannelTypes : <<type, cfg.consumers[k].channel>> \in cfg.channels

ChannelRefs(cfg) ==
    \A k \in DOMAIN cfg.consumers :
        /\ cfg.consumers[k].type \in ChannelTypes
        /\ <<cfg.consumers[k].type, cfg.consumers[k].channel>> \in cfg.channels

Severities(cfg) ==
    \A k \in DOMAIN cfg.consumers :
        /\ cfg.consumers[k].severities # {}
        /\ cfg.consumers[k].severities \subseteq cfg.levels

WellFormed(subject) ==
    /\ Len(subject) >= SubjectParts
    /\ \A n \in 1..SubjectParts : subject[n] # EmptyPart

\* Mutant: team, consumer and bot are compared instead of the name they make up.
DurablesDiffer_ByParts(cfg) ==
    \A d, e \in Entries(cfg) :
        /\ Consumer(cfg, d).name = Consumer(cfg, e).name
        /\ SubSeq(Subject(cfg, d), 2, 3) = SubSeq(Subject(cfg, e), 2, 3)
        => d = e

DurablesDiffer(cfg) ==
    \A d, e \in Entries(cfg) :
        Durable(Consumer(cfg, d), Subject(cfg, d)) = Durable(Consumer(cfg, e), Subject(cfg, e))
            => d = e

Subjects(cfg) ==
    /\ \A k \in DOMAIN cfg.consumers : cfg.consumers[k].subjects # <<>>
    /\ \A e \in Entries(cfg) : WellFormed(Subject(cfg, e))
    /\ DurablesDiffer(cfg)

ValidateConfig(cfg) ==
    /\ cfg.consumers # <<>>
    /\ cfg.levels # {}
    /\ UniqueConsumerNames(cfg)
    /\ ChannelRefs(cfg)
    /\ Severities(cfg)
    /\ Subjects(cfg)

-----------------------------------------------------------------------------
(* What the forwarder builds *)

\* Mutant: the stream takes the first subject of each consumer only.
CollectNatsSubjects_FirstOnly(cfg) == {Subject(cfg, e) : e \in {d \in Entries(cfg) : d[2] = 1}}

CollectNatsSubjects(cfg) == {Subject(cfg, e) : e \in Entries(cfg)}

\* The channels that exist are those of the file, found by type and id.
NotificationChannels(cfg) == cfg.channels

\* NewConsumers splits every subject once more and looks every channel up.
Buildable(cfg) ==
    \A e \in Entries(cfg) :
        /\ Len(Subject(cfg, e)) >= 3
        /\ <<Consumer(cfg, e).type, Consumer(cfg, e).channel>> \in NotificationChannels(cfg)

\* One consumer per subject, at the place of the subject in the file.
NewConsumers(cfg) ==
    {[at |-> e, name |-> Durable(Consumer(cfg, e), Subject(cfg, e)), subject |-> Subject(cfg, e)] :
        e \in Entries(cfg)}

\* The slice of consumers has the order of the file.
Before(c, d) == c.at[1] < d.at[1] \/ (c.at[1] = d.at[1] /\ c.at[2] < d.at[2])
=============================================================================
