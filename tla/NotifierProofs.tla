--------------------------- MODULE NotifierProofs ---------------------------
(***************************************************************************)
(* For every limit, every set of channels and every number of faults:      *)
(* SendFinding keeps the contract of Channel, and a cut text fits.         *)
(***************************************************************************)
EXTENDS Notifier, TLAPS

Calls == {"request", "plain", "sent", "failed", "skipped"}

\* Only Telegram is asked twice.
CallInv ==
    /\ channel \in ChannelNames
    /\ finding \in Findings
    /\ pc \in Calls
    /\ posts \in Nat
    /\ pc = "plain" => channel = "telegram"

-----------------------------------------------------------------------------
(* What an answer says *)

\* An answer is one of two or a fault's.
LEMMA AnswerCases ==
    ASSUME NEW acceptable \in BOOLEAN, NEW a, Answer(acceptable, a)
    PROVE  \/ a = Posted
           \/ a = Complaint
           \/ \E kind \in FaultNames :
                 a = Trouble[kind] /\ (kind \in {"refused", "limitedBody"} => channel = "telegram")
BY NotifierAssumption DEF Answer

\* Whatever the channel, an answer taken for success comes with a post
\* (telegram.go, discord.go, slack.go, opsgenie.go: send).
LEMMA SuccessIsPosted ==
    ASSUME CallInv, NEW acceptable \in BOOLEAN, NEW a,
           Answer(acceptable, a), Result(a) = "nil"
    PROVE  a.posted = TRUE
<1>1. \/ a = Posted
      \/ a = Complaint
      \/ \E kind \in FaultNames :
            a = Trouble[kind] /\ (kind \in {"refused", "limitedBody"} => channel = "telegram")
  BY AnswerCases
<1>2. channel \in {"telegram", "discord", "slack", "opsgenie"}
  BY DEF CallInv, ChannelNames
<1>3. CASE a = Posted
  BY <1>3 DEF Posted, Reply
<1>4. CASE a = Complaint
  BY <1>2, <1>4
  DEF Complaint, Reply, Result, TelegramResult, RateLimited, DiscordResult, SlackResult,
                    OpsGenieResult, StatusResult
<1>5. ASSUME NEW kind \in FaultNames, a = Trouble[kind],
             kind \in {"refused", "limitedBody"} => channel = "telegram"
      PROVE  a.posted = TRUE
  <2>1. CASE kind = "cutOff" \/ kind = "unanswered"
    BY <1>5, <2>1 DEF Trouble, Reply
  <2>2. CASE kind = "limited" \/ kind = "limitedBody"
    BY <1>2, <1>5, <2>2 DEF Trouble, Reply, Result, TelegramResult, RateLimited, DiscordResult,
                            SlackResult, OpsGenieResult, StatusResult
  <2>3. CASE kind = "client"
    BY <1>2, <1>5, <2>3 DEF Trouble, Reply, Result, TelegramResult, RateLimited, DiscordResult,
                            SlackResult, OpsGenieResult, StatusResult
  <2>4. CASE kind = "server"
    BY <1>2, <1>5, <2>4 DEF Trouble, Reply, Result, TelegramResult, RateLimited, DiscordResult,
                            SlackResult, OpsGenieResult, StatusResult
  <2>5. CASE kind = "refused"
    BY <1>2, <1>5, <2>5 DEF Trouble, Reply, Result, TelegramResult, RateLimited
  <2>6. CASE kind = "unsent"
    BY <1>2, <1>5, <2>6 DEF Trouble, Reply, Result, TelegramResult, RateLimited, DiscordResult,
                            SlackResult, OpsGenieResult, StatusResult
  <2> QED
    BY <2>1, <2>2, <2>3, <2>4, <2>5, <2>6 DEF FaultNames
<1> QED
  BY <1>1, <1>3, <1>4, <1>5

\* An answer taken for a complaint about the markdown comes without a post, so
\* that the second request of Telegram does not post twice (telegram.go SendFinding).
LEMMA ComplaintIsNotPosted ==
    ASSUME CallInv, NEW acceptable \in BOOLEAN, NEW a,
           Answer(acceptable, a), Result(a) = "markdown"
    PROVE  a.posted = FALSE
<1>1. \/ a = Posted
      \/ a = Complaint
      \/ \E kind \in FaultNames :
            a = Trouble[kind] /\ (kind \in {"refused", "limitedBody"} => channel = "telegram")
  BY AnswerCases
<1>2. channel \in {"telegram", "discord", "slack", "opsgenie"}
  BY DEF CallInv, ChannelNames
<1>3. /\ channel = "telegram"
      /\ a.status \in 400..499
  BY <1>2 DEF Result, TelegramResult, RateLimited, DiscordResult, SlackResult, OpsGenieResult,
              StatusResult
<1>4. CASE a = Posted
  BY <1>3, <1>4 DEF Posted, Reply, SuccessStatus
<1>5. CASE a = Complaint
  BY <1>5 DEF Complaint, Reply
<1>6. ASSUME NEW kind \in FaultNames, a = Trouble[kind]
      PROVE  a.posted = FALSE
  BY <1>3, <1>6 DEF FaultNames, Trouble, Reply, SuccessStatus
<1> QED
  BY <1>1, <1>4, <1>5, <1>6

-----------------------------------------------------------------------------
(* CallInv is inductive *)

\* posts is counted up by at most one.
LEMMA CountIsNat ==
    ASSUME posts \in Nat, NEW a, Count(a)
    PROVE  posts' \in Nat
BY DEF Count

\* Every action keeps CallInv.
LEMMA CallInvStep == CallInv /\ [Next]_vars => CallInv'
<1> SUFFICES ASSUME CallInv, [Next]_vars PROVE CallInv'
  OBVIOUS
<1>1. CASE Skip
  BY <1>1 DEF Skip, CallInv, Calls
<1>2. CASE Request
  <2>1. /\ channel' = channel /\ finding' = finding
        /\ pc' \in Calls
        /\ pc' = "plain" => channel = "telegram"
    BY <1>2 DEF Request, Markdown, Calls
  <2>2. posts' \in Nat
    BY <1>2, CountIsNat DEF Request, CallInv
  <2> QED
    BY <2>1, <2>2 DEF CallInv
<1>3. CASE PlainRequest
  <2>1. /\ channel' = channel /\ finding' = finding
        /\ pc' \in {"sent", "failed"}
    BY <1>3 DEF PlainRequest
  <2>2. posts' \in Nat
    BY <1>3, CountIsNat DEF PlainRequest, CallInv
  <2> QED
    BY <2>1, <2>2 DEF CallInv, Calls
<1>4. CASE Redeliver
  BY <1>4 DEF Redeliver, CallInv, Calls
<1>5. CASE UNCHANGED vars
  BY <1>5 DEF vars, CallInv
<1> QED
  BY <1>1, <1>2, <1>3, <1>4, <1>5 DEF Next

\* CallInv holds in every reachable state.
LEMMA CallInvariant == Spec => []CallInv
<1>1. Init => CallInv
  BY NotifierAssumption DEF Init, CallInv, Calls
<1> QED
  BY <1>1, CallInvStep, PTL DEF Spec

-----------------------------------------------------------------------------
(* The refinement *)

Outcome == IF pc = "plain" THEN "request" ELSE pc

\* A request that ends the call, posted or not, is a step of the contract.
LEMMA RequestEnds ==
    ASSUME CallInv, Meant(channel, finding), pc \in {"request", "plain"},
           NEW acceptable \in BOOLEAN, NEW a, Answer(acceptable, a), Count(a),
           UNCHANGED <<channel, finding>>,
           \/ Result(a) = "nil" /\ pc' = "sent"
           \/ Result(a) # "nil" /\ pc' = "failed"
    PROVE  Contract!Next
<1>1. Outcome = "request" /\ Outcome' = pc'
  BY DEF Outcome
<1>2. Meant(channel, finding)' = Meant(channel, finding)
  BY DEF Meant
<1>3. CASE Result(a) = "nil"
  <2>1. posts' = posts + 1
    BY <1>3, SuccessIsPosted DEF Count
  <2> QED
    BY <1>1, <1>2, <1>3, <2>1 DEF Outcome, Contract!Next, Contract!Post, Contract!Return
<1>4. CASE Result(a) # "nil" /\ a.posted
  <2>1. posts' = posts + 1
    BY <1>4 DEF Count
  <2> QED
    BY <1>1, <1>2, <1>4, <2>1 DEF Outcome, Contract!Next, Contract!LoseAnswer,
                                  Contract!Return
<1>5. CASE Result(a) # "nil" /\ ~a.posted
  <2>1. posts' = posts
    BY <1>5 DEF Count
  <2> QED
    BY <1>1, <1>2, <1>5, <2>1 DEF Outcome, Contract!Next, Contract!Fail, Contract!Return
<1> QED
  BY <1>3, <1>4, <1>5

\* Every step is a step of the contract or changes nothing the contract speaks of.
LEMMA ContractStep ==
    CallInv /\ [Next]_vars => [Contract!Next]_(Contract!vars)
<1> SUFFICES ASSUME CallInv, [Next]_vars
             PROVE  [Contract!Next]_(Contract!vars)
  OBVIOUS
<1>1. CASE Skip
  BY <1>1 DEF Skip, Meant, Contract!Next, Contract!Skip, Contract!Return
<1>2. CASE Request
  <2>1. PICK a : /\ Answer(Acceptable(Truncated(finding), Markdown(channel, finding)), a)
                 /\ Count(a)
                 /\ \/ Result(a) = "nil" /\ pc' = "sent"
                    \/ Result(a) = "markdown" /\ Markdown(channel, finding) /\ pc' = "plain"
                    \/ Result(a) = "markdown" /\ ~Markdown(channel, finding) /\ pc' = "failed"
                    \/ Result(a) = "error" /\ pc' = "failed"
    BY <1>2 DEF Request
  <2>2. /\ pc = "request" /\ Meant(channel, finding)
        /\ UNCHANGED <<channel, finding>>
    BY <1>2 DEF Request
  <2>3. Acceptable(Truncated(finding), Markdown(channel, finding)) \in BOOLEAN
    BY DEF Acceptable
  <2>4. CASE pc' = "plain"
    <3>1. Result(a) = "markdown"
      BY <2>1, <2>4
    <3>2. posts' = posts
      BY <2>1, <2>3, <3>1, ComplaintIsNotPosted DEF Count
    <3> QED
      BY <2>2, <2>4, <3>2 DEF Contract!vars, Meant
  <2>5. CASE pc' # "plain"
    <3>1. \/ Result(a) = "nil" /\ pc' = "sent"
          \/ Result(a) # "nil" /\ pc' = "failed"
      BY <2>1, <2>5
    <3> QED
      BY <2>1, <2>2, <2>3, <3>1, RequestEnds
  <2> QED
    BY <2>4, <2>5
<1>3. CASE PlainRequest
  <2>1. PICK a : /\ Answer(Acceptable(Truncated(finding) + FallbackSuffix, FALSE), a)
                 /\ Count(a)
                 /\ pc' = IF Result(a) = "nil" THEN "sent" ELSE "failed"
    BY <1>3 DEF PlainRequest
  <2>2. pc = "plain" /\ UNCHANGED <<channel, finding>>
    BY <1>3 DEF PlainRequest
  <2>3. Acceptable(Truncated(finding) + FallbackSuffix, FALSE) \in BOOLEAN
    BY DEF Acceptable
  <2>4. Meant(channel, finding)
    BY <2>2 DEF CallInv, Meant
  <2> QED
    BY <2>1, <2>2, <2>3, <2>4, RequestEnds
<1>4. CASE Redeliver
  BY <1>4 DEF Redeliver, Meant, Contract!Next, Contract!Retry
<1>5. CASE UNCHANGED vars
  BY <1>5 DEF vars, Contract!vars, Meant
<1> QED
  BY <1>1, <1>2, <1>3, <1>4, <1>5 DEF Next

\* SendFinding of every channel keeps the contract QuorumConsumer and
\* DirectConsumer rely on: no error without a post, one post per call.
THEOREM ContractKept == Spec => KeepsContract
<1>1. Init => Contract!Init
  BY DEF Init, Meant, Contract!Init
<1> QED
  BY <1>1, CallInvariant, ContractStep, PTL DEF Spec, KeepsContract, Contract!Spec

-----------------------------------------------------------------------------
(* The text *)

\* TruncateMessageWithAlertID keeps to the limit whatever the limit, the warning
\* and the message, unless the tail alone leaves no room.
THEOREM CutTextFits == Spec => []TruncatedFits
<1>1. CallInv => TruncatedFits
  <2> SUFFICES ASSUME CallInv, finding.tail + Warning < Limit
               PROVE  Truncated(finding) <= Limit
    BY DEF TruncatedFits
  <2>1. finding.length \in Int /\ finding.tail \in Int
    BY NotifierAssumption DEF CallInv, Findings
  <2>2. Limit \in Int /\ Warning \in Int
    BY NotifierAssumption
  <2> QED
    BY <2>1, <2>2 DEF Truncated, SpecialChars
<1> QED
  BY <1>1, CallInvariant, PTL
=============================================================================
