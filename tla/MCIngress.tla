------------------------------- MODULE MCIngress -------------------------------
(***************************************************************************)
(* Constants for model checking Ingress.                                   *)
(***************************************************************************)
EXTENDS Ingress

CONSTANTS u1, u2, r1, heading

\* Up to MaxTokens tokens.  A QQ message may mention anybody anywhere, in a group;
\* a WeChat message may have a heading in it.
MaxTokens == 4

QqTexts(scope) ==
    BoundedSeq({"words", "command", "special", "blank", "picture", "quote"}
                 \cup IF scope = "group" THEN Mentions ELSE {}, MaxTokens)

WeChatTexts ==
    BoundedSeq({"words", "command", "blank", "bot_name", heading}, MaxTokens) \cap SolidTexts

Texts(platform, scope) == IF platform = "qq" THEN QqTexts(scope) ELSE WeChatTexts

\* Every text is written by one user, in WeChat with and without a quote; one text by
\* the other.
Messages(author, texts(_, _)) ==
    UNION {[platform : {"qq"}, scope : {s}, room : {r1}, author : {author},
            text : texts("qq", s)]
             \cup [platform : {"wechatpadpro"}, scope : {s}, room : {r1}, author : {author},
                   text : texts("wechatpadpro", s), quotes : BOOLEAN] : s \in Scopes}

OneText(platform, scope) == {<<"words">>}

Written1 == Messages(u1, Texts)
Written2 == Messages(u2, OneText)

PayloadsOf(m, kinds) == [message : {m}, kind : kinds, shape : ShapesOf(m)]

MCPayloads ==
    UNION {PayloadsOf(m, {"message"}) : m \in Written1}
      \cup UNION {PayloadsOf(m, Kinds) : m \in Written2}
=============================================================================
