------------------------------ MODULE Notifier ------------------------------
(***************************************************************************)
(* SendFinding of the four notification channels (internal/pkg/notifiler): *)
(* a finding is cut to the channel's limit and posted by one HTTP request, *)
(* or by two when Telegram does not accept the markdown of the first. The  *)
(* status of the answer decides whether the consumer takes the finding for *)
(* posted; otherwise the message is put back and SendFinding called again. *)
(*                                                                         *)
(* A text is its length; whether Telegram can parse it as markdown is a    *)
(* property of the finding. Telegram counts the text after parsing, so the *)
(* backslashes of escapeMarkdownV1 do not count.                           *)
(***************************************************************************)
EXTENDS Integers

CONSTANTS
    Channels,        \* the channels looked at
    Limit,           \* longest text: 4096, 2000 and 3000 in the code
    Warning,         \* length of the warning that a text was cut
    FallbackSuffix,  \* length of what the plain text of Telegram adds
    MaxLength,       \* longest message before it is cut
    Faults,          \* the answers that may come though the request is fine
    MaxFaults        \* how many of them may come in one behaviour

ChannelNames == {"telegram", "discord", "slack", "opsgenie"}
FaultNames   == {"limited", "limitedBody", "client", "server", "refused", "cutOff",
                 "unsent", "unanswered"}

ASSUME NotifierAssumption ==
    /\ Channels \subseteq ChannelNames
    /\ Limit \in Nat /\ Warning \in Nat /\ FallbackSuffix \in Nat /\ MaxLength \in Nat
    /\ Warning < Limit
    /\ Faults \subseteq FaultNames /\ MaxFaults \in Nat

VARIABLES
    channel,         \* the channel of the consumer
    finding,         \* the finding in the hands of the consumer
    pc,              \* the request made next, or how the call ended
    posts,           \* notifications the channel has taken
    faults           \* number of faults so far

vars == <<channel, finding, pc, posts, faults>>

\* "tail" is the length of the part that begins with the last "Alert Id:".
Findings ==
    {f \in [length: 1..MaxLength, tail: 0..MaxLength, parses: BOOLEAN,
            severity: {"high", "low", "unknown"}] : f.tail <= f.length}

Init ==
    /\ channel \in Channels
    /\ finding \in Findings
    /\ pc = "request"
    /\ posts = 0
    /\ faults = 0

-----------------------------------------------------------------------------
(* The text *)

\* What the format of a cut message adds to its three parts.
SpecialChars == 9

\* Mutant: one of them is forgotten.
Truncated_OffByOne(f) ==
    IF f.length <= Limit THEN f.length
    ELSE IF f.tail = 0 THEN Limit
    ELSE LET kept == Limit - Warning - f.tail - SpecialChars + 1
         IN  IF kept > 0 /\ f.length - f.tail > kept
             THEN kept + Warning + f.tail + SpecialChars
             ELSE Warning + 1 + f.tail

\* TruncateMessageWithAlertID: the head is shortened, the tail is kept.
Truncated(f) ==
    IF f.length <= Limit THEN f.length
    ELSE IF f.tail = 0 THEN Limit
    ELSE LET kept == Limit - Warning - f.tail - SpecialChars
         IN  IF kept > 0 /\ f.length - f.tail > kept
             THEN kept + Warning + f.tail + SpecialChars
             ELSE Warning + 1 + f.tail

\* OpsGenie sends only P1 and P2 alerts and has no limit of its own here.
Meant(ch, f) == ch = "opsgenie" => f.severity = "high"

Markdown(ch, f) == ch = "telegram" /\ f.severity # "unknown"

-----------------------------------------------------------------------------
(* The channel's answers *)

SuccessStatus == [telegram |-> 200, discord |-> 204, slack |-> 200, opsgenie |-> 202]

\* Whether the channel accepts a text of length n.
Acceptable(n, markdown) ==
    /\ channel # "opsgenie" => n <= Limit
    /\ markdown => finding.parses

\* "code" and "ok" are error_code and ok of the body, as far as they can be read.
Reply(status, code, ok, posted) ==
    [status |-> status, code |-> code, ok |-> ok, posted |-> posted]

Posted    == Reply(SuccessStatus[channel], 0, TRUE, TRUE)
Complaint == Reply(400, 400, FALSE, FALSE)

Trouble ==
    [limited     |-> Reply(429, 429, FALSE, FALSE),
     limitedBody |-> Reply(400, 429, FALSE, FALSE),
     client      |-> Reply(403, 403, FALSE, FALSE),
     server      |-> Reply(502, 0, FALSE, FALSE),
     refused     |-> Reply(200, 400, FALSE, FALSE),
     cutOff      |-> Reply(SuccessStatus[channel], 0, FALSE, TRUE),
     unsent      |-> Reply(0, 0, FALSE, FALSE),
     unanswered  |-> Reply(0, 0, FALSE, TRUE)]

\* A body that disagrees with the status is a thing of Telegram.
Answer(acceptable, a) ==
    \/ /\ a = IF acceptable THEN Posted ELSE Complaint
       /\ UNCHANGED faults
    \/ /\ faults < MaxFaults /\ faults' = faults + 1
       /\ \E kind \in Faults :
             /\ a = Trouble[kind]
             /\ a.posted => acceptable
             /\ kind \in {"refused", "limitedBody"} => channel = "telegram"

-----------------------------------------------------------------------------
(* What send makes of an answer *)

RateLimited(a) == a.status = 429 \/ a.code = 429

\* Mutant: the field ok is not looked at.
TelegramResult_StatusOnly(a) ==
    IF RateLimited(a) THEN "error"
    ELSE IF a.status \in 400..499 THEN "markdown"
    ELSE IF a.status = 200 THEN "nil" ELSE "error"

\* A rate limit is told by the status or by the body; every other 4xx is taken for a
\* complaint about the markdown.
TelegramResult(a) ==
    IF RateLimited(a) THEN "error"
    ELSE IF a.status \in 400..499 THEN "markdown"
    ELSE IF a.status = 200 /\ a.ok THEN "nil" ELSE "error"

StatusResult(a, success) == IF a.status = success THEN "nil" ELSE "error"

DiscordResult(a)  == StatusResult(a, 204)
SlackResult(a)    == StatusResult(a, 200)
OpsGenieResult(a) == StatusResult(a, 202)

Result(a) ==
    CASE channel = "telegram" -> TelegramResult(a)
      [] channel = "discord"  -> DiscordResult(a)
      [] channel = "slack"    -> SlackResult(a)
      [] channel = "opsgenie" -> OpsGenieResult(a)

-----------------------------------------------------------------------------
(* SendFinding *)

Skip ==
    /\ pc = "request" /\ ~Meant(channel, finding)
    /\ pc' = "skipped"
    /\ UNCHANGED <<channel, finding, posts, faults>>

Count(a) == posts' = IF a.posted THEN posts + 1 ELSE posts

\* Mutant: the text that was not parsed is not sent again.
Request_NoFallback ==
    /\ pc = "request" /\ Meant(channel, finding)
    /\ \E a \in {Posted, Complaint} \cup {Trouble[k] : k \in Faults} :
          /\ Answer(Acceptable(Truncated(finding), Markdown(channel, finding)), a)
          /\ Count(a)
          /\ pc' = IF Result(a) = "nil" THEN "sent" ELSE "failed"
    /\ UNCHANGED <<channel, finding>>

\* The first request; a rate limit and every other error end the call.
Request ==
    /\ pc = "request" /\ Meant(channel, finding)
    /\ \E a \in {Posted, Complaint} \cup {Trouble[k] : k \in Faults} :
          /\ Answer(Acceptable(Truncated(finding), Markdown(channel, finding)), a)
          /\ Count(a)
          /\ \/ Result(a) = "nil" /\ pc' = "sent"
             \/ Result(a) = "markdown" /\ Markdown(channel, finding) /\ pc' = "plain"
             \/ Result(a) = "markdown" /\ ~Markdown(channel, finding) /\ pc' = "failed"
             \/ Result(a) = "error" /\ pc' = "failed"
    /\ UNCHANGED <<channel, finding>>

\* Telegram again, as plain text that says so at its end.
PlainRequest ==
    /\ pc = "plain"
    /\ \E a \in {Posted, Complaint} \cup {Trouble[k] : k \in Faults} :
          /\ Answer(Acceptable(Truncated(finding) + FallbackSuffix, FALSE), a)
          /\ Count(a)
          /\ pc' = IF Result(a) = "nil" THEN "sent" ELSE "failed"
    /\ UNCHANGED <<channel, finding>>

\* The consumer puts the message back, after the time of a rate limit if there is
\* one, and the stream delivers it again.
Redeliver ==
    /\ pc = "failed"
    /\ pc' = "request"
    /\ UNCHANGED <<channel, finding, posts, faults>>

Next == Skip \/ Request \/ PlainRequest \/ Redeliver

Spec == Init /\ [][Next]_vars

\* The HTTP client has a timeout, so every call returns; the stream redelivers.
FairSpec == Spec /\ WF_vars(Next)

-----------------------------------------------------------------------------
(* Properties *)

\* SendFinding of every channel keeps the contract the consumers rely on: no error
\* without a post, and never two posts in one call, not even when Telegram is
\* asked twice.
Contract == INSTANCE Channel WITH
    meant   <- Meant(channel, finding),
    outcome <- IF pc = "plain" THEN "request" ELSE pc

KeepsContract == Contract!Spec

\* A message that is cut is within the limit of the channel, unless its tail alone
\* is not (TruncateMessageWithAlertID).
TruncatedFits ==
    finding.tail + Warning < Limit => Truncated(finding) <= Limit

\* The finding can be posted at all: what Telegram will not parse has to leave
\* room for the suffix of the plain text, and a cut message does not.
Postable ==
    /\ Meant(channel, finding)
    /\ \/ Acceptable(Truncated(finding), Markdown(channel, finding))
       \/ Markdown(channel, finding) /\ Acceptable(Truncated(finding) + FallbackSuffix, FALSE)

\* A finding that can be posted is posted in the end.
PostedInTheEnd == Postable ~> posts > 0
=============================================================================
