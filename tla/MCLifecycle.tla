---------------------------- MODULE MCLifecycle ----------------------------
(* Lifecycle for TLC: small notification.yaml files, good and bad. *)
EXTENDS Lifecycle

\* Names and parts of subjects: "a_b" and "a" are glued to the same durable name as
\* "a" and "b_a".
Plain1 == <<"a">>
Plain2 == <<"b">>
Glued  == <<"a", "b">>
Glued2 == <<"b", "a">>
Dotted == <<"a.b">>
Spaced == <<"a b">>

IllegalPieces == {"*", ">", "a.b", "a b"}
BlankPieces   == {"a b"}

\* Lists of subjects behind "findings".
Tails ==
    {<<>>,
     <<<<Plain1>>>>,
     <<<<EmptyPart, Plain1>>>>,
     <<<<Plain1, AnyPart>>>>,
     <<<<Plain1, Rest>>>>,
     <<<<Plain1, Plain1>>>>,
     <<<<Plain1, Plain2, Plain1>>>>,
     <<<<Plain1, Plain2, AnyPart, Plain1>>>>,
     <<<<Plain1, Plain2, Rest>>>>,
     <<<<Plain1, Plain2, Rest, Plain1>>>>,
     <<<<Plain1, Plain2, EmptyPart>>>>,
     <<<<Plain1, Plain2, Spaced>>>>,
     <<<<Glued, Plain1>>>>,
     <<<<Plain1, Plain1>>, <<Plain1, Plain2>>>>,
     <<<<Plain1, Plain1>>, <<Plain1, Plain1>>>>}

SubjectLists ==
    {[n \in DOMAIN tails |-> <<<<"findings">>>> \o tails[n]] : tails \in Tails}
        \cup {<<<<AnyPart, Plain1, Plain2>>>>}

ConsumersOf(names, types, channels, severities, subjects) ==
    [name : names, type : types, channel : channels, severities : severities,
     subjects : subjects]

Channels == {<<"Telegram", "c1">>, <<"Slack", "c2">>}

One(consumer) == [levels |-> {"High"}, channels |-> Channels, consumers |-> <<consumer>>]

\* One consumer with every name and list of subjects, or with every type, channel and
\* severities; none; and two consumers whose names and subjects may collide.
SmallConfigs ==
    {One(c) : c \in ConsumersOf({EmptyPart, Plain1, Dotted, Spaced}, {"Telegram"}, {"c1"},
                                {{"High"}}, SubjectLists)}
    \cup
    {One(c) : c \in ConsumersOf({Plain1}, {"Telegram", "Slack", "Email"}, {"c1", "c3"},
                                {{}, {"High"}, {"Hihg"}}, {<<<<<<"findings">>, Plain1, Plain1>>>>})}
    \cup
    {[levels |-> l, channels |-> Channels, consumers |-> <<>>] : l \in {{}, {"High"}}}
    \cup
    {[levels |-> {"High"}, channels |-> Channels, consumers |-> <<c, d>>] :
        c \in ConsumersOf({Plain1, Glued2}, {"Telegram"}, {"c1"}, {{"High"}}, SubjectLists),
        d \in ConsumersOf({Plain1, Glued2}, {"Slack"}, {"c2"}, {{"High"}}, SubjectLists)}
=============================================================================
