-------------------------------- MODULE Ingress --------------------------------
(***************************************************************************)
(* How a message of a chat becomes a run: the adapter of its platform      *)
(* decodes the webhook (platforms/qq.rs, platforms/wechatpadpro.rs),       *)
(* trigger_resolver.rs decides what it asks for, and                       *)
(* handle_canonical_event (server.rs) stores it and answers.               *)
(*                                                                         *)
(* The platforms present one message in several shapes.  A text is a       *)
(* sequence of tokens, each standing for what the code tells apart:        *)
(* words; the status command; a character that NapCat escapes; white       *)
(* space; a mention, which is a segment or code in QQ and the bot's name   *)
(* in WeChat; a picture or a quote, which only QQ puts into a text; and    *)
(* a name with a colon on a line of its own, written as that name.         *)
(***************************************************************************)
EXTENDS Naturals, Selection

CONSTANTS
    Users,      \* ids of users on either platform
    Rooms,      \* ids of groups
    Headings,   \* words in front of a text that look like the id of a user
    Payloads    \* the webhooks that can arrive: a message, its shape, its kind

Platforms == {"qq", "wechatpadpro"}
Scopes == {"group", "private"}
Others == {"at_other", "at_third"}
Mentions == {"at_bot"} \cup Others
Written == {"words", "command", "special"}
Literals == Written \cup Mentions
              \cup {"blank", "bot_name", "picture", "quote",
                    "special_escaped", "picture_code", "quote_code"}
Tokens == Literals \cup Headings \cup Users

QqTokens == Written \cup Mentions \cup {"blank", "picture", "quote"}
WeChatTokens == Written \cup Headings \cup {"blank", "bot_name"}

Absent == "absent"

\* No token is taken for another, and the id of a room (...@chatroom) is not a user's.
ASSUME NamesAssumption ==
    /\ (Users \cup Headings) \cap Literals = {}
    /\ Users \cap Rooms = {}
    /\ Absent \notin Users \cup Rooms

QqShapes == {"array", "string", "array_without_mentions"}
GroupShapes == {"room_sender", "room_from", "transport"}
PrivateShapes == {"sender", "from"}

\* WeChat does not send a message without any text.  What a message quotes is in its
\* text in QQ, beside it in WeChat.
SolidTexts == {s \in Seq(WeChatTokens) : \E i \in DOMAIN s : s[i] # "blank"}

Message ==
    [platform : {"qq"}, scope : Scopes, room : Rooms, author : Users, text : Seq(QqTokens)]
      \cup [platform : {"wechatpadpro"}, scope : Scopes, room : Rooms, author : Users,
            text : SolidTexts, quotes : BOOLEAN]

\* The shapes in which a platform may present a message.
ShapesOf(m) ==
    IF m.platform = "qq" THEN QqShapes
    ELSE IF m.scope = "group" THEN GroupShapes ELSE PrivateShapes

\* Some payloads are no JSON or no message, have no message id, or do not say what
\* they are, with a text or without one.
Kinds == {"message", "garbage", "notice", "unidentified", "untyped", "contentless"}

ASSUME PayloadsAssumption ==
    /\ Payloads \subseteq [message : Message, kind : Kinds,
                           shape : QqShapes \cup GroupShapes \cup PrivateShapes]
    /\ \A p \in Payloads : p.shape \in ShapesOf(p.message)

VARIABLES
    payload,   \* the webhook in hand
    event,     \* what it was decoded to
    history,   \* what came of storing it
    request,   \* the run that was submitted for it
    context,   \* where what is said about it goes
    answer     \* what the platform's call returns

vars == <<payload, event, history, request, context, answer>>

None == [none |-> TRUE]

-----------------------------------------------------------------------------
(* Texts *)

Solid(s) == {i \in DOMAIN s : s[i] # "blank"}

\* str::trim.
Trim(s) == IF Solid(s) = {} THEN << >> ELSE SubSeq(s, Min(Solid(s)), Max(Solid(s)))

TokensOf(s) == ToSet(s)
Without(s, tokens) == Those(s, ToSet(s) \ tokens)

-----------------------------------------------------------------------------
(* QQ *)

\* How NapCat writes a token in raw_message.
RawToken(k) ==
    CASE k = "special" -> "special_escaped"
      [] k = "picture" -> "picture_code"
      [] k = "quote" -> "quote_code"
      [] OTHER -> k

raw_message(p) == [i \in DOMAIN p.message.text |-> RawToken(p.message.text[i])]

\* The segments of the field message, none when it is a string.
segments(p) ==
    CASE p.shape = "array" -> p.message.text
      [] p.shape = "array_without_mentions" -> Without(p.message.text, Mentions)
      [] p.shape = "string" -> << >>

\* Parts are the tokens of the texts and the mentions among them.
parse_message_parts(p) == Without(segments(p), {"picture", "quote"})

\* The text before a mention is taken as it is; reply codes are stripped only
\* from what follows the last mention.
parse_raw_message_parts(p) ==
    LET raw == raw_message(p)
        ats == {i \in DOMAIN raw : raw[i] \in Mentions}
        last == IF ats = {} THEN 0 ELSE Max(ats)
    IN SubSeq(raw, 1, last) \o Without(SubSeq(raw, last + 1, Len(raw)), {"quote_code"})

\* Mutant: what is in raw_message is not looked at when there are segments.
PartsFromSegments(p) ==
    IF parse_message_parts(p) # << >> THEN parse_message_parts(p)
    ELSE parse_raw_message_parts(p)

\* The segments count when they mention somebody; otherwise raw_message does, if
\* there is anything in it.
qq_parts(p) ==
    LET parsed == parse_message_parts(p)
        fallback == parse_raw_message_parts(p)
    IN IF TokensOf(parsed) \cap Mentions = {} /\ fallback # << >> THEN fallback ELSE parsed

\* parse_reply_to: from the segments, or else from raw_message.
qq_reply_to(p) ==
    "quote" \in TokensOf(segments(p)) \/ "quote_code" \in TokensOf(raw_message(p))

decode_napcat_event(p) ==
    IF p.kind # "message" THEN None
    ELSE LET m == p.message IN
         [conversation |-> <<"qq", m.scope, IF m.scope = "group" THEN m.room ELSE m.author>>,
          actor |-> m.author,
          parts |-> qq_parts(p),
          mentions |-> TokensOf(qq_parts(p)) \cap Mentions,
          reply_to |-> qq_reply_to(p)]

-----------------------------------------------------------------------------
(* WeChat *)

\* What WeChatPadPro sends: the sender or the room in fields of their own, or the
\* room as the one it comes from and the sender in front of the content.
Native(p) ==
    LET m == p.message
        plain == [id |-> p.kind # "unidentified",
                  msgType |-> IF p.kind \in {"untyped", "contentless"} THEN Absent
                              ELSE IF p.kind = "notice" THEN "other" ELSE "text",
                  sender |-> Absent, room |-> Absent, from |-> Absent,
                  content |-> IF p.kind = "contentless" THEN << >>
                              ELSE IF p.shape = "transport" THEN <<m.author>> \o m.text
                              ELSE m.text,
                  replyTo |-> m.quotes]
    IN CASE p.shape = "room_sender" -> [plain EXCEPT !.room = m.room, !.sender = m.author]
         [] p.shape = "room_from" -> [plain EXCEPT !.room = m.room, !.from = m.author]
         [] p.shape = "transport" -> [plain EXCEPT !.from = m.room]
         [] p.shape = "sender" -> [plain EXCEPT !.sender = m.author]
         [] p.shape = "from" -> [plain EXCEPT !.from = m.author]

Webhook(p) ==
    CASE p.shape = "transport" -> [data |-> [message |-> Native(p)]]
      [] p.shape = "room_from" -> [data |-> Native(p)]
      [] p.shape = "from" -> Native(p)
      [] OTHER -> [message |-> Native(p)]

\* The event is in message, in data.message, in data, or it is the payload.
unwrap_event(w) ==
    IF "message" \in DOMAIN w THEN w.message
    ELSE IF "data" \notin DOMAIN w THEN w
    ELSE IF "message" \in DOMAIN w.data THEN w.data.message ELSE w.data

extract_raw_content(e) == Trim(e.content)

\* Mutant: no prefix is looked for.
ParsesNoPrefix(e) == [sender |-> Absent, body |-> extract_raw_content(e)]

\* A name and a colon on the first line are taken for the sender, wherever the
\* message comes from.
parse_transport_prefixed_content(e) ==
    LET raw == extract_raw_content(e) IN
    IF Len(raw) > 1 /\ Head(raw) \in Users \cup Headings
    THEN [sender |-> Head(raw), body |-> Trim(Tail(raw))]
    ELSE [sender |-> Absent, body |-> raw]

extract_content(e) == parse_transport_prefixed_content(e).body

extract_sender(e) ==
    IF e.sender # Absent THEN e.sender
    ELSE IF parse_transport_prefixed_content(e).sender # Absent
         THEN parse_transport_prefixed_content(e).sender
    ELSE IF e.from \notin Rooms THEN e.from ELSE Absent

\* The id of a room ends in @chatroom, also where the one it comes from is expected.
extract_group_id(e) ==
    IF e.room # Absent THEN e.room ELSE IF e.from \in Rooms THEN e.from ELSE Absent

\* An event that does not say what it is counts as a text when it has one.
is_text_event(e) ==
    IF e.msgType # Absent THEN e.msgType = "text" ELSE extract_content(e) # << >>

\* The first word has to be one of the bot's names.
strip_leading_mention(content) ==
    IF /\ content # << >> /\ Head(content) = "bot_name"
       /\ Len(content) > 1 => content[2] = "blank"
    THEN Trim(Tail(content)) ELSE content

decode_webhook_event(p) ==
    LET e == unwrap_event(Webhook(p))
        normalized == strip_leading_mention(extract_content(e))
        room == extract_group_id(e)
    IN IF ~is_text_event(e) \/ ~e.id THEN None
       ELSE [conversation |-> IF room # Absent THEN <<"wechatpadpro", "group", room>>
                              ELSE <<"wechatpadpro", "private", extract_sender(e)>>,
             actor |-> extract_sender(e),
             parts |-> normalized,
             mentions |-> IF normalized # extract_content(e) THEN {"at_bot"} ELSE {},
             reply_to |-> e.replyTo]

decode_event(p) ==
    IF p.message.platform = "qq" THEN decode_napcat_event(p) ELSE decode_webhook_event(p)

-----------------------------------------------------------------------------
(* TriggerResolver *)

conversation_scope(e) == e.conversation[2]

\* The text without the mentions of the bot in front of it, or all of it when
\* there is nothing else.
canonical_trigger_text(parts) ==
    LET rest == {i \in DOMAIN parts : parts[i] \notin {"blank", "at_bot"}} IN
    IF rest = {} THEN Trim(parts) ELSE Trim(SubSeq(parts, Min(rest), Len(parts)))

\* Mutant: a group message triggers when it mentions anybody.
ResolvesAnyMention(e) ==
    LET normalized == canonical_trigger_text(e.parts) IN
    IF \/ conversation_scope(e) = "private" /\ normalized = << >>
       \/ conversation_scope(e) = "group" /\ e.mentions = {}
    THEN "ignore"
    ELSE IF normalized = <<"command">> THEN "status" ELSE "run"

resolve(e) ==
    LET normalized == canonical_trigger_text(e.parts) IN
    IF \/ conversation_scope(e) = "private" /\ normalized = << >>
       \/ conversation_scope(e) = "group" /\ "at_bot" \notin e.mentions
    THEN "ignore"
    ELSE IF normalized = <<"command">> THEN "status" ELSE "run"

-----------------------------------------------------------------------------
(* handle_platform_event and handle_canonical_event *)

\* Answers go to the conversation, in a group to the one who wrote.
delivery_context_from_event(e) ==
    [scope |-> conversation_scope(e), target |-> e.conversation[3],
     mention |-> IF conversation_scope(e) = "group" THEN e.actor ELSE Absent]

\* Mutant: the references count the bot as well.
CountsBot(parts) ==
    [i \in DOMAIN parts |->
        [token |-> parts[i],
         ref |-> IF parts[i] \in Others
                 THEN Cardinality({j \in 1..i : parts[j] \in Mentions}) ELSE 0]]

\* Each mention of somebody else in the summary carries the number of its reference.
trigger_summary(parts) ==
    [i \in DOMAIN parts |->
        [token |-> parts[i],
         ref |-> IF parts[i] \in Others
                 THEN Cardinality({j \in 1..i : parts[j] \in Others}) ELSE 0]]

mention_refs(parts) == Those(parts, Others)

build_run_request_from_event(e) ==
    [conversation_id |-> e.conversation, user_id |-> e.actor,
     chat_type |-> conversation_scope(e),
     prompt |-> Trim(e.parts),
     trigger_summary |-> trigger_summary(e.parts), mention_refs |-> mention_refs(e.parts),
     reply_to |-> e.reply_to]

\* What insert_canonical_event stores: the texts without the mentions between them.
storage_plain_text(parts) == Trim(Without(parts, Mentions))

Row(e) == [conversation_id |-> e.conversation, actor_id |-> e.actor,
           plain_text |-> storage_plain_text(e.parts), reply_to |-> e.reply_to]

\* invalid_json, or no event.
RejectPayload ==
    /\ answer = "pending" /\ event = None
    /\ payload.kind = "garbage"
    /\ answer' = "invalid_json"
    /\ UNCHANGED <<payload, event, history, request, context>>

IgnorePayload ==
    /\ answer = "pending" /\ event = None
    /\ payload.kind # "garbage" /\ decode_event(payload) = None
    /\ answer' = "ignored"
    /\ UNCHANGED <<payload, event, history, request, context>>

DecodePayload ==
    /\ answer = "pending" /\ event = None
    /\ payload.kind # "garbage" /\ decode_event(payload) # None
    /\ event' = decode_event(payload)
    /\ UNCHANGED <<payload, history, request, context, answer>>

\* Mutant: what is said to the bot is no part of the history.
MirrorsOnlyTalk ==
    /\ event # None /\ history.state = "pending"
    /\ history' = IF storage_plain_text(event.parts) = << >> \/ "at_bot" \in event.mentions
                  THEN [state |-> "textless"]
                  ELSE [state |-> "stored", row |-> Row(event)]
    /\ UNCHANGED <<payload, event, request, context, answer>>

\* Whatever the decision, a message is stored first, if it has a text;
MirrorEvent ==
    /\ event # None /\ history.state = "pending"
    /\ history' = IF storage_plain_text(event.parts) = << >> THEN [state |-> "textless"]
                  ELSE [state |-> "stored", row |-> Row(event)]
    /\ UNCHANGED <<payload, event, request, context, answer>>

\* the handler goes on when that fails.
MirrorFails ==
    /\ event # None /\ history.state = "pending"
    /\ history' = [state |-> "failed"]
    /\ UNCHANGED <<payload, event, request, context, answer>>

Decided(decision) ==
    /\ event # None /\ history.state # "pending" /\ answer = "pending"
    /\ resolve(event) = decision

IgnoreEvent ==
    /\ Decided("ignore")
    /\ answer' = "ignored"
    /\ UNCHANGED <<payload, event, history, request, context>>

\* The status goes to the chat; the call returns 502 when that fails.
AnswerStatus ==
    /\ Decided("status")
    /\ context' = delivery_context_from_event(event)
    /\ answer' \in {"ok", "delivery_failed"}
    /\ UNCHANGED <<payload, event, history, request>>

\* What submit and the notices do with it is in RunScheduler.  A request made here
\* always validates: its working directory is the fixed /workspace.
SubmitRun ==
    /\ Decided("run")
    /\ request' = build_run_request_from_event(event)
    /\ context' = delivery_context_from_event(event)
    /\ answer' \in {"accepted", "queued", "queue_full"}
    /\ UNCHANGED <<payload, event, history>>

-----------------------------------------------------------------------------
IngressInit ==
    /\ payload \in Payloads
    /\ event = None
    /\ history = [state |-> "pending"]
    /\ request = None
    /\ context = None
    /\ answer = "pending"

IngressNext ==
    \/ RejectPayload \/ IgnorePayload \/ DecodePayload
    \/ MirrorEvent \/ MirrorFails
    \/ IgnoreEvent \/ AnswerStatus \/ SubmitRun

IngressSpec == IngressInit /\ [][IngressNext]_vars
-----------------------------------------------------------------------------
message == payload.message
ChatOf(m) == IF m.scope = "group" THEN m.room ELSE m.author

\* A message that begins with a line that looks like the name of a sender: the
\* adapter takes it for one where WeChatPadPro did not put one in front of it.
Headed(m) == LET text == Trim(m.text) IN Len(text) > 1 /\ Head(text) \in Headings
TakenForSender(p) == Headed(p.message) /\ p.shape \in {"from", "room_from"}

\* What is said about a message goes to the chat that it came from and names the
\* one who wrote it, and its run is one of that chat's session, whatever shape
\* the platform gave it (README.md: one conversation, one session).
AnswersReachTheAuthor ==
    event # None /\ ~TakenForSender(payload) =>
        /\ event.conversation = <<message.platform, message.scope, ChatOf(message)>>
        /\ event.actor = message.author
        /\ context # None =>
             /\ context.scope = message.scope /\ context.target = ChatOf(message)
             /\ context.mention = IF message.scope = "group" THEN message.author ELSE Absent

\* The session design says: "one private chat maps to one session".  A heading in
\* the first line of a private WeChat message gives it another.
OneSessionPerPrivateChat ==
    request # None /\ message.scope = "private" =>
        request.conversation_id = <<message.platform, "private", message.author>>

\* The bot is named in front of a WeChat text, with nothing or white space behind.
BotInFront(text) == Head(text) = "bot_name" /\ (Len(text) > 1 => text[2] = "blank")

\* Whether a message is ignored can be told from what its author wrote, in whatever
\* shape it came: in QQ a private one is not when it has more than white space and
\* quotes, one in a group when it mentions the bot anywhere; in WeChat a private one
\* is not when it has more than the bot's name, one in a group when that is in front.
\* The status command alone, or behind the bot's name, never starts a run.
TriggersFitTheMessage ==
    answer # "pending" /\ event # None /\ ~Headed(message) =>
        LET tokens == TokensOf(message.text)
            text == Trim(message.text)
            asked == CASE message.platform = "qq" /\ message.scope = "private" ->
                            ~(tokens \subseteq {"blank", "quote"})
                       [] message.platform = "qq" /\ message.scope = "group" ->
                            "at_bot" \in tokens
                       [] message.platform # "qq" /\ message.scope = "private" ->
                            text # <<"bot_name">>
                       [] OTHER -> BotInFront(text)
        IN /\ answer # "ignored" <=> asked
           /\ text \in {<<"command">>, <<"at_bot", "command">>,
                       <<"bot_name", "blank", "command">>} => request = None

\* Whether an author quoted something with a message.
Quotes(m) == IF m.platform = "qq" THEN "quote" \in TokensOf(m.text) ELSE m.quotes

\* The shape in which a platform presents a message makes no difference to
\* whether it asks for something, who wrote it where, and what it quotes; to what it asks for
\* only when there is a picture or a quote, which raw_message shows as text.
ShapeMakesNoDifference ==
    event # None /\ ~Headed(message) =>
        \A s \in ShapesOf(message) :
            LET other == decode_event([payload EXCEPT !.shape = s]) IN
            /\ other.conversation = event.conversation /\ other.actor = event.actor
            /\ other.reply_to = Quotes(message)
            /\ resolve(other) = "ignore" <=> resolve(event) = "ignore"
            /\ TokensOf(message.text) \cap {"picture", "quote"} = {}
                 => resolve(other) = resolve(event)

Unescaped(s) == [i \in DOMAIN s |-> IF s[i] = "special_escaped" THEN "special" ELSE s[i]]
WrittenIn(s) == Those(Unescaped(s), Written)

\* The words that were written reach the agent, in order, whatever stands between
\* them, and so does every mention of somebody else with a reference that stands
\* for that somebody.  (A heading can be lost, see OneSessionPerPrivateChat.)
NothingWrittenIsLost ==
    request # None =>
        /\ WrittenIn(request.prompt) = WrittenIn(message.text)
        /\ request.mention_refs = Those(message.text, Others)
        /\ \A i \in DOMAIN request.trigger_summary :
             LET item == request.trigger_summary[i] IN
             item.token \in Others => /\ item.ref \in DOMAIN request.mention_refs
                                      /\ request.mention_refs[item.ref] = item.token

\* The history that a run may read has the message that asked for it, with the
\* text of the prompt but for mentions and with what it quotes, as the run is told,
\* unless it has no text or storing failed.
RunFindsItsMessage ==
    request # None /\ history.state # "failed" =>
        /\ request.reply_to = Quotes(message)
        /\ \/ history.state = "textless" /\ WrittenIn(request.prompt) = << >>
           \/ /\ history.state = "stored"
              /\ history.row.conversation_id = request.conversation_id
              /\ history.row.actor_id = request.user_id
              /\ history.row.reply_to = request.reply_to
              /\ WrittenIn(history.row.plain_text) = WrittenIn(request.prompt)
=============================================================================
