------------------------------- MODULE Delivery -------------------------------
(***************************************************************************)
(* How the output of a run becomes calls to a platform's API:              *)
(* normalize_agent_output (normalizer.rs) makes a plan of messages and     *)
(* actions, dispatch_plan checks it, and the send_plan of the adapter of   *)
(* the platform (platforms/qq.rs, platforms/wechatpadpro.rs) compiles and  *)
(* sends it piece by piece.  Each call can fail in a way of its own, and   *)
(* what was sent before cannot be taken back.                              *)
(*                                                                         *)
(* An output is a sequence of segments: texts and dogbot-action blocks.    *)
(* Of a text only its name counts, of a block what was parsed out of it.   *)
(***************************************************************************)
EXTENDS Naturals, Selection

CONSTANTS
    Words,        \* names of texts, each with something left when it is trimmed
    Ids,          \* message and user ids, of any platform
    BlankIds,     \* those with nothing in them but blanks and a platform's prefix
    QqTargets,    \* those that normalize_qq_target_id accepts
    Outputs       \* what the agent may have printed

VARIABLES
    platform,     \* the adapter that delivers
    group,        \* the conversation is a group chat
    output,       \* what the agent printed
    plan,         \* the OutboundPlan that was made of it
    next,         \* the first action or message that is not yet compiled
    requests,     \* what was compiled and not yet sent
    calls,        \* the calls made, each with what came of it
    result        \* how deliver_run_response ended

planVars == <<platform, group, output>>
vars == <<planVars, plan, next, requests, calls, result>>

Platforms == {"qq", "wechatpadpro"}
Results == {"pending", "completed", "failed"}

-----------------------------------------------------------------------------
(* Segments of an output, and the items of a block. *)

Text(t) == [kind |-> "text", text |-> t]

\* A block that parses, an envelope or a single item.  reply is its reply_to
\* directive: "default" when it has none, "none" for null, or a target.
Block(reply, mentions, items) ==
    [kind |-> "block", reply |-> reply, mentions |-> mentions, items |-> items]

\* A closed block that does not parse; one that is never closed.
Broken == [kind |-> "broken"]
Unclosed == [kind |-> "unclosed"]

Reaction(type, target) == [type |-> type, target |-> target]
ReactionTypes == {"reaction_add", "reaction_remove"}

\* source is what the code tells apart of where the file is.  A path that begins with
\* /workspace/ may stay below it, leave it again by way of "..", or end in ".." and
\* so have no file name; a path may begin elsewhere; a handle is no path.
Media(source, caption, reply) ==
    [type |-> "media", source |-> source, caption |-> caption, reply |-> reply]

\* An item of an unknown type or without a field that its type needs.
Incomplete == [type |-> "incomplete"]

\* A blank reply_to counts as a missing one.
Replies == {"default", "none"} \cup (Ids \ BlankIds)
Sources == {"workspace", "leaving", "nameless", "elsewhere", "handle"}

ReactionItems == [type : ReactionTypes, target : Ids]
MediaItems == [type : {"media"}, source : Sources, caption : Seq(Words), reply : Replies]
Item == ReactionItems \cup MediaItems \cup {Incomplete}

\* An unclosed block is the last segment: what follows belongs to it.
Texts == [kind : {"text"}, text : Words]
Blocks == [kind : {"block"}, reply : Replies, mentions : Seq(Ids), items : Seq(Item)]
ClosedSegment == Texts \cup Blocks \cup {Broken}
Segment == ClosedSegment \cup {Unclosed}

ASSUME IdsAssumption == BlankIds \subseteq Ids \ QqTargets

ASSUME OutputsAssumption ==
    /\ Outputs \subseteq Seq(Segment)
    /\ \A o \in Outputs : \A i \in 1..(Len(o) - 1) : o[i] # Unclosed

-----------------------------------------------------------------------------
(* normalize_agent_output *)

\* What is left of an unclosed block, as text.
Remainder == "remainder"

NoAsset == "no asset"

Message(texts, mentions, asset, reply) ==
    [texts |-> texts, mentions |-> mentions, asset |-> asset, reply |-> reply]

MediaMessage(item) == Message(item.caption, << >>, item.source, item.reply)

\* append_action_items; the items that say too little are left out.
Reactions(items) == Those(items, {x \in ToSet(items) : x.type \in ReactionTypes})

MediaMessages(items) ==
    LET media == Those(items, {x \in ToSet(items) : x.type = "media"})
    IN [i \in DOMAIN media |-> MediaMessage(media[i])]

\* since holds the texts after the last closed block.
NothingParsed ==
    [texts |-> << >>, since |-> << >>, mentions |-> << >>, reply |-> "default",
     messages |-> << >>, actions |-> << >>]

\* One turn of the loop.  Before an unclosed block the loop has already taken the
\* text in front of it, and what remains after the loop still holds that text.
Parse(acc, segment) ==
    CASE segment.kind = "text" ->
           [acc EXCEPT !.texts = Append(@, segment.text), !.since = Append(@, segment.text)]
      [] segment.kind = "block" ->
           [acc EXCEPT !.since = << >>,
                       !.mentions = @ \o segment.mentions,
                       !.reply = IF segment.reply = "default" THEN @ ELSE segment.reply,
                       !.messages = @ \o MediaMessages(segment.items),
                       !.actions = @ \o Reactions(segment.items)]
      [] segment.kind = "broken" -> [acc EXCEPT !.since = << >>]
      [] segment.kind = "unclosed" ->
           [acc EXCEPT !.texts = @ \o acc.since \o <<Remainder>>]

Parsed(o) == FoldLeft(Parse, NothingParsed, o)

\* Mutants: the text comes after the media; it is a message also when it is empty.
PutsTextLast(o) ==
    LET parsed == Parsed(o)
        body == IF parsed.texts = << >> /\ parsed.mentions = << >> THEN << >>
                ELSE <<Message(parsed.texts, parsed.mentions, NoAsset, parsed.reply)>>
    IN [messages |-> parsed.messages \o body, actions |-> parsed.actions]

PutsEmptyText(o) ==
    LET parsed == Parsed(o)
        body == <<Message(parsed.texts, parsed.mentions, NoAsset, parsed.reply)>>
    IN [messages |-> body \o parsed.messages, actions |-> parsed.actions]

\* The text, if there is any, is the first message, before the media.
normalize_agent_output(o) ==
    LET parsed == Parsed(o)
        body == IF parsed.texts = << >> /\ parsed.mentions = << >> THEN << >>
                ELSE <<Message(parsed.texts, parsed.mentions, NoAsset, parsed.reply)>>
    IN [messages |-> body \o parsed.messages, actions |-> parsed.actions]

-----------------------------------------------------------------------------
(* dispatch_plan and the compilers of the adapters *)

\* Mutant: only the first message is looked at.
ChecksFirstMessage(p) == p.messages # << >> => p.messages[1].asset # "elsewhere"

\* Only how a path begins is looked at: one that leaves /workspace again passes.
dispatch_plan(p) == \A i \in DOMAIN p.messages : p.messages[i].asset # "elsewhere"

\* The trigger message, which a QQ message replies to by default, and no message.
Trigger == "trigger"
NoReply == "no reply"

\* A call: the endpoint, the position in the plan of what it is for, the message it
\* replies to, and whether the adapter adds a mention of the one who asked.  Mentions
\* the agent wrote itself, in an envelope or as @ and digits in a text, do not count.
Call(endpoint, item, reply, adds) ==
    [endpoint |-> endpoint, item |-> item, reply |-> reply, adds_mention |-> adds]

\* A compiler may refuse what it is given.
Invalid == [valid |-> FALSE, calls |-> << >>]
Compiled(cs) == [valid |-> TRUE, calls |-> cs]

\* effective_reply_to: by default only the first message is a reply.
effective_reply_to(m, first) ==
    CASE m.reply = "none" -> NoReply
      [] m.reply = "default" -> IF first THEN Trigger ELSE NoReply
      [] OTHER -> m.reply

\* qq.rs: reactions, then messages; to the first one a mention of who asked is added
\* in a group, whatever it mentions of its own.
QqAction(action, item) ==
    IF action.type = "reaction_remove" THEN Compiled(<< >>)
    ELSE IF action.target \notin QqTargets THEN Invalid
    ELSE Compiled(<<Call("set_msg_emoji_like", item, NoReply, FALSE)>>)

QqMessage(m, first, item) ==
    LET reply == effective_reply_to(m, first)
        named == ToSet(m.mentions) \cup ({reply} \ {NoReply, Trigger})
    IN IF named \subseteq QqTargets
       THEN Compiled(<<Call("send_msg", item, reply, first /\ group)>>)
       ELSE Invalid

\* Mutant: a mention is added to every message.
MentionsAlways(m, first, item) ==
    LET named == ToSet(m.mentions) \ BlankIds
        file == IF m.asset = NoAsset THEN << >>
                ELSE <<Call("sendFile", item, NoReply, FALSE)>>
        text == IF m.texts = << >> /\ named = {} THEN << >>
                ELSE <<Call("SendTextMessage", item, NoReply, group /\ named = {})>>
    IN IF m.asset \in {"nameless", "handle"} \/ file \o text = << >>
       THEN Invalid ELSE Compiled(file \o text)

\* wechatpadpro.rs: a file and a text of their own, no native replies, and only files
\* with a path and a name.  A blank mention is skipped, and a message of nothing else
\* refused.  The first message has a mention added if it mentions nobody.
WeChatMessage(m, first, item) ==
    LET named == ToSet(m.mentions) \ BlankIds
        file == IF m.asset = NoAsset THEN << >>
                ELSE <<Call("sendFile", item, NoReply, FALSE)>>
        text == IF m.texts = << >> /\ named = {} THEN << >>
                ELSE <<Call("SendTextMessage", item, NoReply, first /\ group /\ named = {})>>
    IN IF m.asset \in {"nameless", "handle"} \/ file \o text = << >>
       THEN Invalid ELSE Compiled(file \o text)

Actions(p) == Len(p.actions)
Items(p) == Actions(p) + Len(p.messages)

\* The items of a plan are its actions, then its messages; WeChat has no reactions.
Compile(p, i) ==
    IF i <= Actions(p)
    THEN IF platform = "qq" THEN QqAction(p.actions[i], i) ELSE Compiled(<< >>)
    ELSE LET m == p.messages[i - Actions(p)]
             first == i = Actions(p) + 1
         IN IF platform = "qq" THEN QqMessage(m, first, i) ELSE WeChatMessage(m, first, i)

-----------------------------------------------------------------------------
(* deliver_run_response and send_plan *)

NoPlan == [messages |-> << >>, actions |-> << >>]

\* The output of the run is there.  An empty one is not even normalized, and nothing
\* is sent of a plan that dispatch_plan refuses or of one for an adapter without a key.
TakeOutput ==
    /\ result = "pending" /\ next = 0
    /\ next' = 1
    /\ \/ output = << >> /\ plan' = NoPlan /\ result' = "completed"
       \/ /\ output # << >>
          /\ plan' = normalize_agent_output(output)
          /\ \/ result' = IF dispatch_plan(plan') THEN "pending" ELSE "failed"
             \/ platform = "wechatpadpro" /\ result' = "failed"
    /\ UNCHANGED <<planVars, requests, calls>>

Sending == result = "pending" /\ next > 0

\* Each item is compiled when the ones before it have been sent.
CompileNext ==
    /\ Sending /\ requests = << >> /\ next <= Items(plan)
    /\ IF Compile(plan, next).valid
       THEN /\ requests' = Compile(plan, next).calls
            /\ next' = next + 1
            /\ UNCHANGED result
       ELSE result' = "failed" /\ UNCHANGED <<requests, next>>
    /\ UNCHANGED <<planVars, plan, calls>>

Made(outcome) == calls' = Append(calls, [call |-> Head(requests), outcome |-> outcome])

\* The API did what it was asked, and said so.
CallSucceeds ==
    /\ Sending /\ requests # << >>
    /\ Made("done")
    /\ requests' = Tail(requests)
    /\ UNCHANGED <<planVars, plan, next, result>>

\* NapCat did not do it and says so in the body of an HTTP 200: nothing in the body
\* is read for a message, and only data.result and data.errMsg for a reaction.
CallFailsUnnoticed ==
    /\ Sending /\ requests # << >>
    /\ platform = "qq"
    /\ Made("unnoticed")
    /\ requests' = Tail(requests)
    /\ UNCHANGED <<planVars, plan, next, result>>

\* Mutant: a failed reaction is logged and the rest of the plan is sent.
ReactionsMayFail ==
    /\ Sending /\ requests # << >>
    /\ \E outcome \in {"refused", "unanswered"} : Made(outcome)
    /\ IF Head(requests).endpoint = "set_msg_emoji_like"
       THEN requests' = Tail(requests) /\ UNCHANGED result
       ELSE requests' = << >> /\ result' = "failed"
    /\ UNCHANGED <<planVars, plan, next>>

\* The call is refused, does not arrive, or arrives and its answer does not: the
\* rest of the plan is given up.
CallFails ==
    /\ Sending /\ requests # << >>
    /\ \E outcome \in {"refused", "unanswered"} : Made(outcome)
    /\ requests' = << >>
    /\ result' = "failed"
    /\ UNCHANGED <<planVars, plan, next>>

AllSent ==
    /\ Sending /\ requests = << >> /\ next = Items(plan) + 1
    /\ result' = "completed"
    /\ UNCHANGED <<planVars, plan, next, requests, calls>>

DeliveryInit ==
    /\ platform \in Platforms
    /\ group \in BOOLEAN
    /\ output \in Outputs
    /\ plan = NoPlan
    /\ next = 0
    /\ requests = << >>
    /\ calls = << >>
    /\ result = "pending"

DeliveryNext ==
    \/ TakeOutput
    \/ CompileNext
    \/ CallSucceeds \/ CallFailsUnnoticed \/ CallFails
    \/ AllSent

DeliverySpec == DeliveryInit /\ [][DeliveryNext]_vars
-----------------------------------------------------------------------------
PlanMessages == [texts : Seq(Words \cup {Remainder}), mentions : Seq(Ids),
                 asset : Sources \cup {NoAsset}, reply : Replies]
Plans == [messages : Seq(PlanMessages), actions : Seq(ReactionItems)]

Endpoints == {"set_msg_emoji_like", "send_msg", "sendFile", "SendTextMessage"}
Calls == [endpoint : Endpoints, item : Nat, reply : Ids \cup {NoReply, Trigger},
          adds_mention : BOOLEAN]
Outcomes == {"done", "unnoticed", "refused", "unanswered"}

\* Every variable has its type, and a plan has no message without any part.
DeliveryTypeOK ==
    /\ platform \in Platforms /\ group \in BOOLEAN /\ output \in Outputs
    /\ plan \in Plans
    /\ next \in 0..(Items(plan) + 1)
    /\ requests \in Seq(Calls)
    /\ calls \in Seq([call : Calls, outcome : Outcomes])
    /\ result \in Results
    /\ \A i \in DOMAIN plan.messages :
         LET m == plan.messages[i]
         IN m.texts # << >> \/ m.mentions # << >> \/ m.asset # NoAsset

TextsOf(o) == LET ts == Those(o, {x \in ToSet(o) : x.kind = "text"})
              IN [i \in DOMAIN ts |-> ts[i].text]

ItemsOf(o) == LET bs == Those(o, {x \in ToSet(o) : x.kind = "block"})
              IN FlattenSeq([i \in DOMAIN bs |-> bs[i].items])

IsClosed(o) == \A i \in DOMAIN o : o[i] # Unclosed

PlannedTexts ==
    IF plan.messages # << >> /\ plan.messages[1].asset = NoAsset
    THEN plan.messages[1].texts ELSE << >>

\* Whatever blocks stand between them, and whichever of these are broken, all the
\* texts come in their order as the first message, and every complete item of a
\* block that parses becomes one action or one later message, in their order.
NothingLost ==
    next > 0 =>
        /\ IF IsClosed(output) THEN PlannedTexts = TextsOf(output)
                               ELSE IsPrefix(TextsOf(output), PlannedTexts)
        /\ plan.actions = Reactions(ItemsOf(output))
        /\ Those(plan.messages, {m \in ToSet(plan.messages) : m.asset # NoAsset}) =
               MediaMessages(ItemsOf(output))

\* A plan with a file whose path does not begin with /workspace/ is refused as a
\* whole, before anything of it is sent, wherever in the plan the file is.
ElsewhereFilesSendNothing ==
    (\E i \in DOMAIN plan.messages : plan.messages[i].asset = "elsewhere") =>
        calls = << >> /\ result # "completed"

AllCalls == FlattenSeq([i \in 1..Items(plan) |-> Compile(plan, i).calls])
CallsMade == [i \in DOMAIN calls |-> calls[i].call]

\* The platform gets the calls of the plan in their order, each once, and nothing
\* after the first one that failed; a run counts as completed only when all of
\* its plan could be compiled and every call was made, none with an error.
SentInOrder ==
    /\ next > 0 => IsPrefix(CallsMade, AllCalls)
    /\ \A i \in DOMAIN calls :
         calls[i].outcome \in {"refused", "unanswered"} =>
             i = Len(calls) /\ result = "failed"
    /\ result = "completed" =>
         /\ \A i \in 1..Items(plan) : Compile(plan, i).valid
         /\ CallsMade = AllCalls

\* An adapter adds its mention of the one who asked in a group only, to one call of a
\* run, with nothing of the answer before that but reactions and files; and over QQ the
\* answer to a group is not completed without it, whichever item its first message was.
MentionAddedOnce ==
    LET adding == {i \in DOMAIN calls : calls[i].call.adds_mention}
    IN /\ \A i \in adding :
            /\ group
            /\ \A j \in 1..(i - 1) :
                 calls[j].call.endpoint \in {"set_msg_emoji_like", "sendFile"}
            /\ \A j \in (i + 1)..Len(calls) : j \notin adding
       /\ result = "completed" /\ group /\ platform = "qq" /\ plan.messages # << >> =>
            adding # {}

\* The error model of the unified protocol has "a special action fails, but the
\* plain-text body can still be sent"; the scheduler design, "Reaction failure: log
\* warning, continue."  So a run with an answer should not end at a reaction that failed.
AnswerSurvivesReaction ==
    result = "failed" /\ plan.messages # << >> /\ calls # << >> =>
        LET last == calls[Len(calls)]
        IN ~ /\ last.call.endpoint = "set_msg_emoji_like"
             /\ last.outcome \in {"refused", "unanswered"}
=============================================================================
