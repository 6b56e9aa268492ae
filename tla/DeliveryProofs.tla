---------------------------- MODULE DeliveryProofs ----------------------------
(***************************************************************************)
(* Proofs about the plan of an output and the sending of it, for any       *)
(* output of an agent.                                                     *)
(*                                                                         *)
(* What the loop of normalize_agent_output makes of an output, and which   *)
(* calls the items of a plan are compiled to, are inductions over the      *)
(* segments and the items, on the lemmas of SequenceFacts.  PlanInv says   *)
(* what the plan has of the output; SentInv what has been sent of it and   *)
(* what is about to be; SendInv how the calls end; OrderInv which call     *)
(* comes before which.                                                     *)
(***************************************************************************)
EXTENDS Delivery, SequenceFacts, TLAPS

-----------------------------------------------------------------------------
(* Items and their messages *)

\* Of the items, the records tell apart reactions and media.
LEMMA ItemTypes ==
    ASSUME NEW x \in Item
    PROVE  /\ x.type \in ReactionTypes <=> x \in ReactionItems
           /\ x.type = "media" <=> x \in MediaItems
<1>1. CASE x \in ReactionItems
  BY <1>1 DEF ReactionItems, MediaItems, ReactionTypes
<1>2. CASE x \in MediaItems
  BY <1>2 DEF ReactionItems, MediaItems, ReactionTypes
<1>3. CASE x = Incomplete
  BY <1>3 DEF ReactionItems, MediaItems, ReactionTypes, Incomplete
<1>. QED  BY <1>1, <1>2, <1>3 DEF Item

MediaOf(items) == Those(items, MediaItems)

MessagesOf(media) == [i \in DOMAIN media |-> MediaMessage(media[i])]

\* The reactions and the messages of items are those of the sets.
LEMMA ItemsSelected ==
    ASSUME NEW items \in Seq(Item)
    PROVE  /\ Reactions(items) = Those(items, ReactionItems)
           /\ MediaMessages(items) = MessagesOf(MediaOf(items))
<1>1. ToSet(items) \subseteq Item
  BY OwnElements
<1>2. {x \in ToSet(items) : x.type \in ReactionTypes} = ToSet(items) \cap ReactionItems
  BY <1>1, ItemTypes
<1>3. {x \in ToSet(items) : x.type = "media"} = ToSet(items) \cap MediaItems
  BY <1>1, ItemTypes
<1>4. /\ Those(items, ToSet(items) \cap ReactionItems) = Those(items, ReactionItems)
      /\ Those(items, ToSet(items) \cap MediaItems) = Those(items, MediaItems)
  BY ThoseOfElements
<1>. QED  BY <1>2, <1>3, <1>4 DEF Reactions, MediaMessages, MessagesOf, MediaOf

\* A message of an item with a file has that file.
LEMMA MediaMessageType ==
    ASSUME NEW x \in MediaItems
    PROVE  MediaMessage(x) \in PlanMessages /\ MediaMessage(x).asset \in Sources
<1>1. /\ x.caption \in Seq(Words) /\ x.source \in Sources /\ x.reply \in Replies
  BY DEF MediaItems
<1>2. x.caption \in Seq(Words \cup {Remainder}) /\ << >> \in Seq(Ids)
  BY <1>1, SeqMonotonic, EmptySeq
<1>. QED  BY <1>1, <1>2 DEF MediaMessage, Message, PlanMessages

\* Messages of no media, of some, of some and then others.
LEMMA MessagesOfMedia ==
    ASSUME NEW a \in Seq(MediaItems), NEW b \in Seq(MediaItems)
    PROVE  /\ MessagesOf(a) \in Seq(PlanMessages)
           /\ Len(MessagesOf(a)) = Len(a)
           /\ \A i \in 1..Len(a) : MessagesOf(a)[i].asset \in Sources
           /\ MessagesOf(a \o b) = MessagesOf(a) \o MessagesOf(b)
<1>1. ASSUME NEW s \in Seq(MediaItems)
      PROVE  /\ MessagesOf(s) \in Seq(PlanMessages) /\ Len(MessagesOf(s)) = Len(s)
             /\ \A i \in 1..Len(s) : MessagesOf(s)[i] = MediaMessage(s[i])
             /\ Len(s) \in Nat
  <2>1. DOMAIN s = 1..Len(s) /\ Len(s) \in Nat /\ \A i \in 1..Len(s) : s[i] \in MediaItems
    BY LenProperties, ElementOfSeq
  <2>2. MessagesOf(s) = [i \in 1..Len(s) |-> MediaMessage(s[i])]
    BY <2>1 DEF MessagesOf
  <2>3. MessagesOf(s) \in [1..Len(s) -> PlanMessages]
    BY <2>1, <2>2, MediaMessageType
  <2>4. MessagesOf(s) \in Seq(PlanMessages)
    BY <2>1, <2>3, SeqDef
  <2>5. Len(MessagesOf(s)) \in Nat /\ DOMAIN MessagesOf(s) = 1..Len(MessagesOf(s))
    BY <2>4, LenProperties
  <2>6. DOMAIN MessagesOf(s) = 1..Len(s)
    BY <2>2
  <2>7. Len(MessagesOf(s)) = Len(s)
    <3>1. 1..Len(MessagesOf(s)) = 1..Len(s)
      BY <2>5, <2>6
    <3>. QED  BY <2>1, <2>5, <3>1, SameInterval
  <2>. QED  BY <2>1, <2>2, <2>4, <2>7
<1>2. ASSUME NEW i \in 1..Len(a) PROVE MessagesOf(a)[i].asset \in Sources
  BY <1>1, ElementOfSeq, MediaMessageType
<1>3. MessagesOf(a \o b) = MessagesOf(a) \o MessagesOf(b)
  <2> DEFINE ab == a \o b
             p == MessagesOf(a)
             q == MessagesOf(b)
             r == MessagesOf(ab)
  <2>1. /\ ab \in Seq(MediaItems) /\ Len(ab) = Len(a) + Len(b)
        /\ \A i \in 1..(Len(a) + Len(b)) : ab[i] = IF i <= Len(a) THEN a[i] ELSE b[i - Len(a)]
    BY ConcatProperties
  <2>. HIDE DEF ab
  <2>2. /\ p \in Seq(PlanMessages) /\ q \in Seq(PlanMessages) /\ r \in Seq(PlanMessages)
        /\ Len(p) = Len(a) /\ Len(q) = Len(b) /\ Len(r) = Len(a) + Len(b)
        /\ Len(a) \in Nat /\ Len(b) \in Nat
    BY <1>1, <2>1
  <2>3. /\ \A i \in 1..Len(a) : p[i] = MediaMessage(a[i])
        /\ \A i \in 1..Len(b) : q[i] = MediaMessage(b[i])
        /\ \A i \in 1..(Len(a) + Len(b)) : r[i] = MediaMessage(ab[i])
    BY <1>1, <2>1
  <2>. HIDE DEF p, q, r
  <2>4. /\ p \o q \in Seq(PlanMessages) /\ Len(p \o q) = Len(a) + Len(b)
        /\ \A i \in 1..(Len(a) + Len(b)) : (p \o q)[i] = IF i <= Len(a) THEN p[i] ELSE q[i - Len(a)]
    BY <2>2, ConcatProperties
  <2>5. ASSUME NEW i \in 1..(Len(a) + Len(b)) PROVE r[i] = (p \o q)[i]
    <3>1. CASE i <= Len(a)
      <4>1. i \in 1..Len(a)
        BY <2>2, <3>1
      <4>. QED  BY <2>1, <2>3, <2>4, <3>1, <4>1
    <3>2. CASE ~(i <= Len(a))
      <4>1. i - Len(a) \in 1..Len(b)
        BY <2>2, <3>2
      <4>. QED  BY <2>1, <2>3, <2>4, <3>2, <4>1
    <3>. QED  BY <3>1, <3>2
  <2>6. r = p \o q
    BY <2>2, <2>4, <2>5, SeqEqual
  <2>. QED  BY <2>6 DEF ab, p, q, r
<1>. QED  BY <1>1, <1>2, <1>3

\* What becomes of items, and of items and then others.
LEMMA ItemsNormalized ==
    ASSUME NEW a \in Seq(Item), NEW b \in Seq(Item)
    PROVE  /\ Reactions(a) \in Seq(ReactionItems) /\ MediaMessages(a) \in Seq(PlanMessages)
           /\ \A i \in 1..Len(MediaMessages(a)) : MediaMessages(a)[i].asset \in Sources
           /\ Reactions(a \o b) = Reactions(a) \o Reactions(b)
           /\ MediaMessages(a \o b) = MediaMessages(a) \o MediaMessages(b)
<1>1. a \o b \in Seq(Item)
  BY ConcatProperties
<1>2. ASSUME NEW T, NEW s \in Seq(Item) PROVE Those(s, T) \in Seq(T)
  <2>1. Those(s, T) \in Seq(Item \cap T)
    BY ThoseAreBoth
  <2>. QED  BY <2>1, SeqMonotonic
<1>3. Reactions(a) \in Seq(ReactionItems) /\ Reactions(a \o b) = Reactions(a) \o Reactions(b)
  <2>1. Reactions(a) = Those(a, ReactionItems) /\ Reactions(b) = Those(b, ReactionItems)
    BY ItemsSelected
  <2>2. Reactions(a \o b) = Those(a \o b, ReactionItems)
    BY <1>1, ItemsSelected
  <2>3. Those(a \o b, ReactionItems) = Those(a, ReactionItems) \o Those(b, ReactionItems)
    BY ThoseOfConcat
  <2>. QED  BY <1>2, <2>1, <2>2, <2>3
<1>4. MediaOf(a) \in Seq(MediaItems) /\ MediaOf(b) \in Seq(MediaItems)
  BY <1>2 DEF MediaOf
<1>5. MediaOf(a \o b) = MediaOf(a) \o MediaOf(b)
  BY ThoseOfConcat DEF MediaOf
<1>6. /\ MediaMessages(a) = MessagesOf(MediaOf(a)) /\ MediaMessages(b) = MessagesOf(MediaOf(b))
      /\ MediaMessages(a \o b) = MessagesOf(MediaOf(a \o b))
  BY <1>1, ItemsSelected
<1>. QED  BY <1>3, <1>4, <1>5, <1>6, MessagesOfMedia

\* Nothing becomes of no items.
LEMMA NoItems == Reactions(<< >>) = << >> /\ MediaMessages(<< >>) = << >>
<1> DEFINE e == << >>
<1>1. e \in Seq(Item) /\ e \in Seq(MediaItems) /\ Len(e) = 0
  BY EmptySeq
<1>2. \A T : Those(e, T) = e
  BY ThoseOfNone
<1>. HIDE DEF e
<1>3. Reactions(e) = e /\ MediaMessages(e) = MessagesOf(e)
  BY <1>1, <1>2, ItemsSelected DEF MediaOf
<1>4. MessagesOf(e) \in Seq(PlanMessages) /\ Len(MessagesOf(e)) = 0
  BY <1>1, MessagesOfMedia
<1>5. MessagesOf(e) = << >>
  BY <1>4, EmptySeq
<1>. QED  BY <1>3, <1>5 DEF e

-----------------------------------------------------------------------------
(* The loop over the segments *)

Accs == [texts : Seq(Words \cup {Remainder}), since : Seq(Words), mentions : Seq(Ids),
         reply : Replies, messages : Seq(PlanMessages), actions : Seq(ReactionItems)]

\* The kinds of segments, by what they have.
LEMMA SegmentKinds ==
    ASSUME NEW x \in Segment
    PROVE  \/ x.kind = "text" /\ x.text \in Words /\ x # Unclosed
           \/ /\ x.kind = "block" /\ x.reply \in Replies /\ x.mentions \in Seq(Ids)
              /\ x.items \in Seq(Item) /\ x # Unclosed
           \/ x.kind = "broken" /\ x # Unclosed
           \/ x.kind = "unclosed" /\ x = Unclosed
  BY DEF Segment, ClosedSegment, Texts, Blocks, Broken, Unclosed

\* What the loop has gathered keeps its type with every segment.
LEMMA ParseKeepsType ==
    /\ NothingParsed \in Accs
    /\ \A acc \in Accs, x \in Segment : Parse(acc, x) \in Accs
<1>1. NothingParsed \in Accs
  BY EmptySeq DEF NothingParsed, Accs, Replies
<1>2. ASSUME NEW acc \in Accs, NEW x \in Segment PROVE Parse(acc, x) \in Accs
  <2>1. /\ acc.texts \in Seq(Words \cup {Remainder}) /\ acc.since \in Seq(Words)
        /\ acc.mentions \in Seq(Ids) /\ acc.reply \in Replies
        /\ acc.messages \in Seq(PlanMessages) /\ acc.actions \in Seq(ReactionItems)
    BY DEF Accs
  <2>2. << >> \in Seq(Words)
    BY EmptySeq
  <2>3. CASE x.kind = "text" /\ x.text \in Words
    <3>1. /\ Append(acc.texts, x.text) \in Seq(Words \cup {Remainder})
          /\ Append(acc.since, x.text) \in Seq(Words)
      BY <2>1, <2>3, AppendProperties
    <3>2. Parse(acc, x) =
             [acc EXCEPT !.texts = Append(@, x.text), !.since = Append(@, x.text)]
      BY <2>3 DEF Parse
    <3>. QED  BY <3>1, <3>2 DEF Accs
  <2>4. CASE /\ x.kind = "block" /\ x.reply \in Replies /\ x.mentions \in Seq(Ids)
             /\ x.items \in Seq(Item)
    <3>1. /\ acc.mentions \o x.mentions \in Seq(Ids)
          /\ acc.messages \o MediaMessages(x.items) \in Seq(PlanMessages)
          /\ acc.actions \o Reactions(x.items) \in Seq(ReactionItems)
      BY <2>1, <2>4, ItemsNormalized, ConcatProperties
    <3>2. Parse(acc, x) =
             [acc EXCEPT !.since = << >>,
                         !.mentions = @ \o x.mentions,
                         !.reply = IF x.reply = "default" THEN @ ELSE x.reply,
                         !.messages = @ \o MediaMessages(x.items),
                         !.actions = @ \o Reactions(x.items)]
      BY <2>4 DEF Parse
    <3>. QED  BY <2>2, <2>4, <3>1, <3>2 DEF Accs
  <2>5. CASE x.kind = "broken"
    <3>1. Parse(acc, x) = [acc EXCEPT !.since = << >>]
      BY <2>5 DEF Parse
    <3>. QED  BY <2>2, <3>1 DEF Accs
  <2>6. CASE x.kind = "unclosed"
    <3>1. Parse(acc, x) = [acc EXCEPT !.texts = @ \o acc.since \o <<Remainder>>]
      BY <2>6 DEF Parse
    <3>2. acc.since \in Seq(Words \cup {Remainder})
      BY <2>1, SeqMonotonic
    <3>3. <<Remainder>> \in Seq(Words \cup {Remainder})
      OBVIOUS
    <3>4. acc.texts \o acc.since \o <<Remainder>> \in Seq(Words \cup {Remainder})
      BY <2>1, <3>2, <3>3, ConcatProperties
    <3>. QED  BY <3>1, <3>4 DEF Accs
  <2>. QED  BY <2>3, <2>4, <2>5, <2>6, SegmentKinds
<1>. QED  BY <1>1, <1>2

\* The values that Parsed goes through.
LEMMA ParsedSteps ==
    ASSUME NEW o \in Seq(Segment)
    PROVE  \E acc : /\ acc[0] = NothingParsed
                    /\ \A n \in 1..Len(o) : acc[n] = Parse(acc[n - 1], o[n])
                    /\ Parsed(o) = acc[Len(o)]
<1> DEFINE step == [an \in Accs \X (1..Len(o)) |-> Parse(an[1], o[an[2]])]
<1>1. /\ Len(o) \in Nat /\ DOMAIN o = 1..Len(o) /\ NothingParsed \in Accs
      /\ \A n \in 1..Len(o) : o[n] \in Segment
  BY LenProperties, ElementOfSeq, ParseKeepsType
<1>2. IsStep(step, Accs, Len(o))
  BY <1>1, ParseKeepsType DEF IsStep
<1>3. PICK f : f \in [SUBSET (1..Len(o)) -> Accs] /\ IsFold(f, Len(o), NothingParsed, step)
  <2>. HIDE DEF step
  <2>. QED  BY <1>1, <1>2, FoldExists
<1>4. f = [u \in SUBSET DOMAIN o |->
             IF u = {} THEN NothingParsed ELSE Parse(f[u \ {Max(u)}], o[Max(u)])]
  <2>1. ASSUME NEW u \in SUBSET (1..Len(o)), u # {}
        PROVE  step[<<f[u \ {Max(u)}], Max(u)>>] = Parse(f[u \ {Max(u)}], o[Max(u)])
    <3>1. Max(u) \in u
      BY <1>1, <2>1, MaxOfSome
    <3>2. Max(u) \in 1..Len(o) /\ f[u \ {Max(u)}] \in Accs
      BY <1>3, <3>1
    <3>. QED  BY <3>2
  <2>. HIDE DEF step
  <2>2. \A u \in SUBSET (1..Len(o)) :
           (IF u = {} THEN NothingParsed ELSE step[<<f[u \ {Max(u)}], Max(u)>>])
             = IF u = {} THEN NothingParsed ELSE Parse(f[u \ {Max(u)}], o[Max(u)])
    BY <2>1
  <2>. QED  BY <1>1, <1>3, <2>2, Zenon DEF IsFold
<1>5. PICK it :
        /\ Parsed(o) = it[DOMAIN o]
        /\ it = [u \in SUBSET DOMAIN o |->
                   IF u = {} THEN NothingParsed ELSE Parse(it[u \ {Max(u)}], o[Max(u)])]
  BY <1>4, Zenon DEF Parsed, FoldLeft, MapThenFoldSet
<1> DEFINE acc == [n \in 0..Len(o) |-> it[1..n]]
<1>6. acc[0] = NothingParsed
  <2>1. 1..0 = {} /\ {} \in SUBSET DOMAIN o /\ acc[0] = it[1..0]
    BY <1>1
  <2>2. it[{}] = NothingParsed
    BY <1>5, <2>1, Zenon
  <2>. HIDE DEF acc
  <2>. QED  BY <2>1, <2>2
<1>7. ASSUME NEW n \in 1..Len(o) PROVE acc[n] = Parse(acc[n - 1], o[n])
  <2>1. /\ 1..n \in SUBSET DOMAIN o /\ 1..n # {}
        /\ Max(1..n) = n /\ (1..n) \ {n} = 1..(n - 1)
    BY <1>1, FoldGoesUp
  <2>2. it[1..n] = Parse(it[(1..n) \ {Max(1..n)}], o[Max(1..n)])
    BY <1>5, <2>1, Zenon
  <2>3. it[1..n] = Parse(it[1..(n - 1)], o[n])
    BY <2>1, <2>2
  <2>4. acc[n] = it[1..n] /\ acc[n - 1] = it[1..(n - 1)]
    BY <1>1
  <2>. HIDE DEF acc
  <2>. QED  BY <2>3, <2>4
<1>8. Parsed(o) = acc[Len(o)]
  BY <1>1, <1>5
<1>. HIDE DEF acc
<1>. QED  BY <1>6, <1>7, <1>8

\* Of no segment.
LEMMA ParsedOfNone == Parsed(<< >>) = NothingParsed
<1> DEFINE e == << >>
<1>1. e \in Seq(Segment) /\ Len(e) = 0
  BY EmptySeq
<1>. HIDE DEF e
<1>2. PICK a : /\ a[0] = NothingParsed
               /\ \A n \in 1..Len(e) : a[n] = Parse(a[n - 1], e[n])
               /\ Parsed(e) = a[Len(e)]
  BY <1>1, ParsedSteps
<1>3. Parsed(e) = NothingParsed
  BY <1>1, <1>2
<1>. QED  BY <1>3 DEF e

\* Of one segment more.
LEMMA ParsedOfOneMore ==
    ASSUME NEW o \in Seq(Segment), NEW x \in Segment
    PROVE  Parsed(Append(o, x)) = Parse(Parsed(o), x)
<1> DEFINE r == Append(o, x)
<1>1. /\ r \in Seq(Segment) /\ Len(r) = Len(o) + 1 /\ Len(o) \in Nat
      /\ \A i \in 1..Len(o) : r[i] = o[i]
      /\ r[Len(o) + 1] = x
  BY AppendProperties, LenProperties
<1>. HIDE DEF r
<1>2. PICK a : /\ a[0] = NothingParsed
               /\ \A n \in 1..Len(o) : a[n] = Parse(a[n - 1], o[n])
               /\ Parsed(o) = a[Len(o)]
  BY ParsedSteps
<1>3. PICK b : /\ b[0] = NothingParsed
               /\ \A n \in 1..Len(r) : b[n] = Parse(b[n - 1], r[n])
               /\ Parsed(r) = b[Len(r)]
  BY <1>1, ParsedSteps
<1> DEFINE N == {n \in Nat : n <= Len(o) => a[n] = b[n]}
<1>4. 0 \in N
  BY <1>2, <1>3
<1>5. ASSUME NEW n \in Nat, n \in N PROVE n + 1 \in N
  <2>1. SUFFICES ASSUME n + 1 <= Len(o) PROVE a[n + 1] = b[n + 1]
    OBVIOUS
  <2>2. /\ n + 1 \in 1..Len(o) /\ n + 1 \in 1..Len(r) /\ n + 1 - 1 = n
        /\ a[n] = b[n] /\ r[n + 1] = o[n + 1]
    BY <1>1, <1>5, <2>1
  <2>. QED  BY <1>2, <1>3, <2>2
<1>. HIDE DEF N
<1>6. Nat \subseteq N
  BY <1>4, <1>5, InductionOnNat
<1>7. a[Len(o)] = b[Len(o)]
  BY <1>1, <1>6 DEF N
<1>8. Len(r) \in 1..Len(r) /\ Len(r) - 1 = Len(o) /\ r[Len(r)] = x
  BY <1>1
<1>9. Parsed(r) = Parse(Parsed(o), x)
  BY <1>2, <1>3, <1>7, <1>8
<1>. QED  BY <1>9 DEF r

\* It has the type of an accumulator.
LEMMA ParsedType ==
    ASSUME NEW o \in Seq(Segment)
    PROVE  Parsed(o) \in Accs
<1> DEFINE G == {r \in Seq(Segment) : Parsed(r) \in Accs}
<1>1. << >> \in G
  BY ParsedOfNone, ParseKeepsType, EmptySeq
<1>2. ASSUME NEW r \in Seq(Segment), NEW x \in Segment, r \in G PROVE Append(r, x) \in G
  <2>1. Parsed(Append(r, x)) = Parse(Parsed(r), x) /\ Append(r, x) \in Seq(Segment)
    BY ParsedOfOneMore, AppendProperties
  <2>. QED  BY <1>2, <2>1, ParseKeepsType
<1>. HIDE DEF G
<1>3. Seq(Segment) \subseteq G
  BY <1>1, <1>2, InductionOnSeq
<1>. QED  BY <1>3 DEF G

-----------------------------------------------------------------------------
(* The texts and the items of an output *)

\* Of the segments, the records tell apart texts and blocks.
LEMMA SegmentTypes ==
    ASSUME NEW x \in Segment
    PROVE  /\ x.kind = "text" <=> x \in Texts
           /\ x.kind = "block" <=> x \in Blocks
<1>1. CASE x \in Texts
  BY <1>1 DEF Texts, Blocks
<1>2. CASE x \in Blocks
  BY <1>2 DEF Texts, Blocks
<1>3. CASE x \in {Broken, Unclosed}
  BY <1>3 DEF Texts, Blocks, Broken, Unclosed
<1>. QED  BY <1>1, <1>2, <1>3 DEF Segment, ClosedSegment

textOf == [x \in Texts |-> x.text]
itemsOf == [x \in Blocks |-> x.items]

\* Both are functions to words and to sequences of items.
LEMMA PartsOfSegments == IsMap(textOf, Texts, Words) /\ IsMap(itemsOf, Blocks, Seq(Item))
<1>1. \A x \in Texts : x.text \in Words
  BY DEF Texts
<1>2. \A x \in Blocks : x.items \in Seq(Item)
  BY DEF Blocks
<1>. QED  BY <1>1, <1>2 DEF textOf, itemsOf, IsMap

\* The texts of an output, and its items, by the sets of its segments.
LEMMA PartsSelected ==
    ASSUME NEW o \in Seq(Segment)
    PROVE  /\ TextsOf(o) = Mapped(Those(o, Texts), textOf)
           /\ ItemsOf(o) = FlattenSeq(Mapped(Those(o, Blocks), itemsOf))
           /\ Those(o, Texts) \in Seq(Texts) /\ Those(o, Blocks) \in Seq(Blocks)
<1>1. ToSet(o) \subseteq Segment
  BY OwnElements
<1>2. /\ {x \in ToSet(o) : x.kind = "text"} = ToSet(o) \cap Texts
      /\ {x \in ToSet(o) : x.kind = "block"} = ToSet(o) \cap Blocks
  BY <1>1, SegmentTypes
<1>3. /\ Those(o, ToSet(o) \cap Texts) = Those(o, Texts)
      /\ Those(o, ToSet(o) \cap Blocks) = Those(o, Blocks)
  BY ThoseOfElements
<1>4. ASSUME NEW T PROVE Those(o, T) \in Seq(T)
  <2>1. Those(o, T) \in Seq(Segment \cap T)
    BY ThoseAreBoth
  <2>. QED  BY <2>1, SeqMonotonic
<1> DEFINE ts == Those(o, Texts)
           bs == Those(o, Blocks)
<1>5. ts \in Seq(Texts) /\ bs \in Seq(Blocks)
  BY <1>4
<1>6. TextsOf(o) = [i \in DOMAIN ts |-> ts[i].text]
  BY <1>2, <1>3 DEF TextsOf
<1>7. ItemsOf(o) = FlattenSeq([i \in DOMAIN bs |-> bs[i].items])
  BY <1>2, <1>3 DEF ItemsOf
<1>. HIDE DEF ts, bs
<1>8. /\ DOMAIN ts = 1..Len(ts) /\ \A i \in 1..Len(ts) : ts[i] \in Texts
      /\ DOMAIN bs = 1..Len(bs) /\ \A i \in 1..Len(bs) : bs[i] \in Blocks
  BY <1>5, LenProperties, ElementOfSeq
<1>9. /\ [i \in DOMAIN ts |-> ts[i].text] = Mapped(ts, textOf)
      /\ [i \in DOMAIN bs |-> bs[i].items] = Mapped(bs, itemsOf)
  BY <1>8 DEF Mapped, textOf, itemsOf
<1>. QED  BY <1>5, <1>6, <1>7, <1>9 DEF ts, bs

\* Their types, and of one segment more.
LEMMA TextsOfSegments ==
    ASSUME NEW o \in Seq(Segment)
    PROVE  /\ TextsOf(o) \in Seq(Words)
           /\ \A x \in Segment :
                TextsOf(Append(o, x)) =
                    IF x.kind = "text" THEN Append(TextsOf(o), x.text) ELSE TextsOf(o)
<1> DEFINE ts == Those(o, Texts)
<1>1. TextsOf(o) = Mapped(ts, textOf) /\ ts \in Seq(Texts)
  BY PartsSelected
<1>2. Mapped(ts, textOf) \in Seq(Words)
  BY <1>1, PartsOfSegments, MappedIsSeq
<1>3. ASSUME NEW x \in Segment
      PROVE  TextsOf(Append(o, x)) =
                 IF x.kind = "text" THEN Append(TextsOf(o), x.text) ELSE TextsOf(o)
  <2>1. Append(o, x) \in Seq(Segment)
    BY AppendProperties
  <2>2. TextsOf(Append(o, x)) = Mapped(Those(Append(o, x), Texts), textOf)
    BY <2>1, PartsSelected
  <2>3. Those(Append(o, x), Texts) = IF x \in Texts THEN Append(ts, x) ELSE ts
    BY ThoseOfOneMore
  <2>. HIDE DEF ts
  <2>4. CASE x \in Texts
    <3>1. Mapped(Append(ts, x), textOf) = Append(Mapped(ts, textOf), textOf[x])
      BY <1>1, <2>4, PartsOfSegments, MappedOfOneMore
    <3>2. textOf[x] = x.text
      BY <2>4 DEF textOf
    <3>. QED  BY <1>1, <2>2, <2>3, <2>4, <3>1, <3>2, SegmentTypes
  <2>5. CASE x \notin Texts
    BY <1>1, <2>2, <2>3, <2>5, SegmentTypes
  <2>. QED  BY <2>4, <2>5
<1>. QED  BY <1>1, <1>2, <1>3

\* One block more adds its items to those of an output, any other segment nothing.
LEMMA ItemsOfSegments ==
    ASSUME NEW o \in Seq(Segment)
    PROVE  /\ ItemsOf(o) \in Seq(Item)
           /\ \A x \in Segment :
                ItemsOf(Append(o, x)) =
                    IF x.kind = "block" THEN ItemsOf(o) \o x.items ELSE ItemsOf(o)
<1> DEFINE bs == Those(o, Blocks)
           ms == Mapped(bs, itemsOf)
<1>1. ItemsOf(o) = FlattenSeq(ms) /\ bs \in Seq(Blocks)
  BY PartsSelected
<1>2. ms \in Seq(Seq(Item))
  BY <1>1, PartsOfSegments, MappedIsSeq
<1>. HIDE DEF ms
<1>3. FlattenSeq(ms) \in Seq(Item)
  BY <1>2, FlattenIsSeq
<1>4. ASSUME NEW x \in Segment
      PROVE  ItemsOf(Append(o, x)) =
                 IF x.kind = "block" THEN ItemsOf(o) \o x.items ELSE ItemsOf(o)
  <2>1. Append(o, x) \in Seq(Segment)
    BY AppendProperties
  <2>2. ItemsOf(Append(o, x)) = FlattenSeq(Mapped(Those(Append(o, x), Blocks), itemsOf))
    BY <2>1, PartsSelected
  <2>3. Those(Append(o, x), Blocks) = IF x \in Blocks THEN Append(bs, x) ELSE bs
    BY ThoseOfOneMore
  <2>. HIDE DEF bs
  <2>4. CASE x \in Blocks
    <3>1. Mapped(Append(bs, x), itemsOf) = Append(ms, itemsOf[x])
      BY <1>1, <2>4, PartsOfSegments, MappedOfOneMore DEF ms
    <3>2. itemsOf[x] = x.items /\ x.items \in Seq(Item)
      BY <2>4 DEF itemsOf, Blocks
    <3>3. FlattenSeq(Append(ms, x.items)) = FlattenSeq(ms) \o x.items
      BY <1>2, <3>2, FlattenOfOneMore
    <3>. QED  BY <1>1, <2>2, <2>3, <2>4, <3>1, <3>2, <3>3, SegmentTypes
  <2>5. CASE x \notin Blocks
    BY <1>1, <2>2, <2>3, <2>5, SegmentTypes DEF ms
  <2>. QED  BY <2>4, <2>5
<1>. QED  BY <1>1, <1>3, <1>4

\* Nothing is in no segment.
LEMMA PartsOfNone == TextsOf(<< >>) = << >> /\ ItemsOf(<< >>) = << >>
<1> DEFINE e == << >>
<1>1. e \in Seq(Segment)
  BY EmptySeq
<1>2. (\A T : Those(e, T) = e) /\ (\A f : Mapped(e, f) = e) /\ FlattenSeq(e) = e
  BY ThoseOfNone, MappedOfNone, FlattenOfNone
<1>. HIDE DEF e
<1>3. TextsOf(e) = e /\ ItemsOf(e) = e
  BY <1>1, <1>2, PartsSelected
<1>. QED  BY <1>3 DEF e

\* What the loop has of closed segments: their texts and their items.
LEMMA ClosedIsParsed ==
    ASSUME NEW o \in Seq(ClosedSegment)
    PROVE  /\ Parsed(o).texts = TextsOf(o)
           /\ Parsed(o).actions = Reactions(ItemsOf(o))
           /\ Parsed(o).messages = MediaMessages(ItemsOf(o))
<1> DEFINE Whole(r) == /\ Parsed(r).texts = TextsOf(r)
                       /\ Parsed(r).actions = Reactions(ItemsOf(r))
                       /\ Parsed(r).messages = MediaMessages(ItemsOf(r))
           G == {r \in Seq(ClosedSegment) : Whole(r)}
<1>1. << >> \in G
  <2> DEFINE e == << >>
  <2>1. /\ e \in Seq(ClosedSegment) /\ Parsed(e) = NothingParsed
        /\ TextsOf(e) = e /\ ItemsOf(e) = e
        /\ Reactions(e) = e /\ MediaMessages(e) = e
    BY EmptySeq, ParsedOfNone, PartsOfNone, NoItems
  <2>2. NothingParsed.texts = e /\ NothingParsed.actions = e /\ NothingParsed.messages = e
    BY DEF NothingParsed
  <2>. HIDE DEF e
  <2>3. e \in G
    BY <2>1, <2>2
  <2>. QED  BY <2>3 DEF e
<1>2. ASSUME NEW r \in Seq(ClosedSegment), NEW x \in ClosedSegment, r \in G
      PROVE  Append(r, x) \in G
  <2> DEFINE rx == Append(r, x)
             acc == Parsed(r)
             items == ItemsOf(r)
  <2>1. /\ r \in Seq(Segment) /\ x \in Segment /\ rx \in Seq(ClosedSegment)
        /\ x # Unclosed
    <3>1. ClosedSegment \subseteq Segment
      BY DEF Segment
    <3>2. x # Unclosed
      BY DEF ClosedSegment, Texts, Blocks, Broken, Unclosed
    <3>. QED  BY <3>1, <3>2, SeqMonotonic, AppendProperties
  <2>2. /\ Parsed(rx) = Parse(acc, x)
        /\ TextsOf(rx) = IF x.kind = "text" THEN Append(TextsOf(r), x.text) ELSE TextsOf(r)
        /\ ItemsOf(rx) = IF x.kind = "block" THEN items \o x.items ELSE items
        /\ items \in Seq(Item) /\ acc \in Accs
    BY <2>1, ParsedOfOneMore, TextsOfSegments, ItemsOfSegments, ParsedType
  <2>3. /\ acc.texts = TextsOf(r) /\ acc.actions = Reactions(items)
        /\ acc.messages = MediaMessages(items)
    BY <1>2
  <2>. HIDE DEF rx, acc, items
  <2>4. CASE x.kind = "text"
    <3>1. Parse(acc, x) =
             [acc EXCEPT !.texts = Append(@, x.text), !.since = Append(@, x.text)]
      BY <2>4 DEF Parse
    <3>2. Whole(rx)
      BY <2>2, <2>3, <2>4, <3>1 DEF Accs
    <3>. QED  BY <2>1, <3>2 DEF rx
  <2>5. CASE x.kind = "block" /\ x.items \in Seq(Item)
    <3>1. Parse(acc, x) =
             [acc EXCEPT !.since = << >>,
                         !.mentions = @ \o x.mentions,
                         !.reply = IF x.reply = "default" THEN @ ELSE x.reply,
                         !.messages = @ \o MediaMessages(x.items),
                         !.actions = @ \o Reactions(x.items)]
      BY <2>5 DEF Parse
    <3>2. /\ Reactions(items \o x.items) = Reactions(items) \o Reactions(x.items)
          /\ MediaMessages(items \o x.items) = MediaMessages(items) \o MediaMessages(x.items)
      BY <2>2, <2>5, ItemsNormalized
    <3>3. ItemsOf(rx) = items \o x.items /\ TextsOf(rx) = TextsOf(r)
      BY <2>2, <2>5
    <3>4. /\ Parsed(rx).texts = acc.texts
          /\ Parsed(rx).actions = acc.actions \o Reactions(x.items)
          /\ Parsed(rx).messages = acc.messages \o MediaMessages(x.items)
      BY <2>2, <3>1 DEF Accs
    <3>5. Whole(rx)
      BY <2>3, <3>2, <3>3, <3>4
    <3>. QED  BY <2>1, <3>5 DEF rx
  <2>6. CASE x.kind = "broken"
    <3>1. Parse(acc, x) = [acc EXCEPT !.since = << >>]
      BY <2>6 DEF Parse
    <3>2. Whole(rx)
      BY <2>2, <2>3, <2>6, <3>1 DEF Accs
    <3>. QED  BY <2>1, <3>2 DEF rx
  <2>. QED  BY <2>1, <2>4, <2>5, <2>6, SegmentKinds
<1>. HIDE DEF G
<1>3. Seq(ClosedSegment) \subseteq G
  BY <1>1, <1>2, InductionOnSeq
<1>. QED  BY <1>3 DEF G

\* An output is closed, or is closed but for its last segment.
LEMMA OutputsEnd ==
    ASSUME NEW o \in Outputs
    PROVE  /\ o \in Seq(Segment)
           /\ \/ o \in Seq(ClosedSegment) /\ IsClosed(o)
              \/ (\E c \in Seq(ClosedSegment) : o = Append(c, Unclosed)) /\ ~IsClosed(o)
<1>1. /\ o \in Seq(Segment) /\ Len(o) \in Nat /\ DOMAIN o = 1..Len(o)
      /\ \A i \in 1..Len(o) : o[i] \in Segment
      /\ \A i \in 1..(Len(o) - 1) : o[i] # Unclosed
  BY OutputsAssumption, LenProperties, ElementOfSeq
<1>2. ASSUME NEW s, NEW n \in Nat, s \in [1..n -> ClosedSegment] PROVE s \in Seq(ClosedSegment)
  BY <1>2, SeqDef
<1>3. CASE IsClosed(o)
  <2>1. \A i \in 1..Len(o) : o[i] \in ClosedSegment
    BY <1>1, <1>3 DEF IsClosed, Segment
  <2>2. o \in [1..Len(o) -> ClosedSegment]
    BY <1>1, <2>1, LenProperties
  <2>. QED  BY <1>1, <1>2, <1>3, <2>2
<1>4. CASE ~IsClosed(o)
  <2>1. PICK k \in 1..Len(o) : o[k] = Unclosed
    BY <1>1, <1>4 DEF IsClosed
  <2>2. k = Len(o) /\ Len(o) - 1 \in Nat
    <3>1. k \notin 1..(Len(o) - 1)
      BY <1>1, <2>1
    <3>2. Len(o) \in Nat /\ k \in 1..Len(o)
      BY <1>1
    <3>. QED  BY <3>1, <3>2
  <2>3. o # << >>
    BY <2>2, EmptySeq
  <2>4. PICK c \in Seq(Segment), x \in Segment : o = Append(c, x)
    BY <1>1, <2>3, SequenceEmptyOrAppend
  <2>5. /\ Len(o) = Len(c) + 1 /\ Len(c) \in Nat /\ DOMAIN c = 1..Len(c)
        /\ \A i \in 1..Len(c) : o[i] = c[i]
        /\ o[Len(c) + 1] = x
    BY <2>4, AppendProperties, LenProperties
  <2>6. x = Unclosed
    BY <2>1, <2>2, <2>5
  <2>7. \A i \in 1..Len(c) : c[i] \in ClosedSegment
    <3>1. ASSUME NEW i \in 1..Len(c) PROVE c[i] \in ClosedSegment
      <4>1. i \in 1..(Len(o) - 1) /\ i \in 1..Len(o)
        BY <2>5
      <4>2. c[i] \in Segment /\ c[i] # Unclosed
        BY <1>1, <2>5, <4>1
      <4>. QED  BY <4>2 DEF Segment
    <3>. QED  BY <3>1
  <2>8. c \in [1..Len(c) -> ClosedSegment]
    BY <2>4, <2>7, LenProperties
  <2>. QED  BY <1>1, <1>2, <1>4, <2>4, <2>5, <2>6, <2>8
<1>. QED  BY <1>3, <1>4

\* What the loop has of an output; what an unclosed block leaves comes after the texts.
LEMMA OutputIsParsed ==
    ASSUME NEW o \in Outputs
    PROVE  /\ Parsed(o) \in Accs
           /\ Parsed(o).actions = Reactions(ItemsOf(o))
           /\ Parsed(o).messages = MediaMessages(ItemsOf(o))
           /\ IF IsClosed(o) THEN Parsed(o).texts = TextsOf(o)
                             ELSE IsPrefix(TextsOf(o), Parsed(o).texts)
           /\ ItemsOf(o) \in Seq(Item) /\ TextsOf(o) \in Seq(Words)
<1>1. o \in Seq(Segment)
  BY OutputsEnd
<1>2. Parsed(o) \in Accs /\ ItemsOf(o) \in Seq(Item) /\ TextsOf(o) \in Seq(Words)
  BY <1>1, ParsedType, ItemsOfSegments, TextsOfSegments
<1>3. CASE o \in Seq(ClosedSegment) /\ IsClosed(o)
  BY <1>2, <1>3, ClosedIsParsed
<1>4. ASSUME NEW c \in Seq(ClosedSegment), o = Append(c, Unclosed), ~IsClosed(o)
      PROVE  /\ Parsed(o).actions = Reactions(ItemsOf(o))
             /\ Parsed(o).messages = MediaMessages(ItemsOf(o))
             /\ IsPrefix(TextsOf(o), Parsed(o).texts)
  <2> DEFINE acc == Parsed(c)
             rest == <<Remainder>>
             W == Words \cup {Remainder}
  <2>1. c \in Seq(Segment) /\ Unclosed \in Segment
    <3>1. ClosedSegment \subseteq Segment /\ Unclosed \in Segment
      BY DEF Segment
    <3>. QED  BY <3>1, SeqMonotonic
  <2>2. Unclosed.kind = "unclosed"
    BY DEF Unclosed
  <2>3. /\ Parsed(o) = Parse(acc, Unclosed) /\ acc \in Accs
        /\ TextsOf(o) = TextsOf(c) /\ ItemsOf(o) = ItemsOf(c)
    BY <1>4, <2>1, <2>2, ParsedOfOneMore, ParsedType, TextsOfSegments, ItemsOfSegments
  <2>4. /\ acc.texts = TextsOf(c) /\ acc.actions = Reactions(ItemsOf(c))
        /\ acc.messages = MediaMessages(ItemsOf(c))
    BY ClosedIsParsed
  <2>5. Parse(acc, Unclosed) = [acc EXCEPT !.texts = @ \o acc.since \o <<Remainder>>]
    BY <2>2 DEF Parse
  <2>. HIDE DEF acc
  <2>6. /\ Parsed(o).actions = acc.actions /\ Parsed(o).messages = acc.messages
        /\ Parsed(o).texts = acc.texts \o acc.since \o rest
    BY <2>3, <2>5 DEF Accs
  <2>7. /\ acc.texts \in Seq(W) /\ acc.since \in Seq(W) /\ rest \in Seq(W)
    <3>1. acc.texts \in Seq(W) /\ acc.since \in Seq(Words)
      BY <2>3 DEF Accs
    <3>. QED  BY <3>1, SeqMonotonic
  <2> DEFINE texts == acc.texts
             since == acc.since
  <2>. HIDE DEF W, rest, texts, since
  <2>8. texts \in Seq(W) /\ since \in Seq(W)
    BY <2>7 DEF texts, since
  <2>9. texts \o since \o rest = texts \o (since \o rest) /\ since \o rest \in Seq(W)
    BY <2>7, <2>8, ConcatAssociative, ConcatProperties
  <2>10. IsPrefix(texts, texts \o since \o rest)
    BY <2>8, <2>9, PrefixOfConcat
  <2>. QED  BY <2>3, <2>4, <2>6, <2>10 DEF texts, since
<1>. QED  BY <1>2, <1>3, <1>4, OutputsEnd

-----------------------------------------------------------------------------
(* The plan *)

IsEmpty(m) == m.texts = << >> /\ m.mentions = << >> /\ m.asset = NoAsset

\* A plan has what was asked for: the texts, and then the files, and the reactions.
Fulfils(p, texts, messages, actions) ==
    /\ p \in Plans
    /\ \A i \in 1..Len(p.messages) : ~IsEmpty(p.messages[i])
    /\ (IF p.messages # << >> /\ p.messages[1].asset = NoAsset
        THEN p.messages[1].texts ELSE << >>) = texts
    /\ p.actions = actions
    /\ Those(p.messages, {m \in ToSet(p.messages) : m.asset # NoAsset}) = messages

WithAsset == {m \in PlanMessages : m.asset # NoAsset}

\* The messages with a file, by their set.
LEMMA AssetsSelected ==
    ASSUME NEW ms \in Seq(PlanMessages)
    PROVE  Those(ms, {m \in ToSet(ms) : m.asset # NoAsset}) = Those(ms, WithAsset)
<1>1. ToSet(ms) \subseteq PlanMessages
  BY OwnElements
<1>2. {m \in ToSet(ms) : m.asset # NoAsset} = ToSet(ms) \cap WithAsset
  BY <1>1 DEF WithAsset
<1>. QED  BY <1>2, ThoseOfElements

\* No output, no plan.
LEMMA NoPlanOfNone == Fulfils(NoPlan, << >>, << >>, << >>)
<1> DEFINE e == << >>
<1>1. e \in Seq(PlanMessages) /\ e \in Seq(ReactionItems) /\ Len(e) = 0 /\ \A T : Those(e, T) = e
  BY EmptySeq, ThoseOfNone
<1>2. NoPlan.messages = e /\ NoPlan.actions = e /\ NoPlan = [messages |-> e, actions |-> e]
  BY DEF NoPlan
<1>. HIDE DEF e
<1>3. Fulfils(NoPlan, e, e, e)
  <2>1. e = << >> /\ 1..Len(e) = {}
    BY <1>1, EmptySeq
  <2>. QED  BY <1>1, <1>2, <2>1 DEF Fulfils, Plans
<1>. QED  BY <1>3 DEF e

\* normalize_agent_output makes such a plan of what it parsed.
LEMMA PlanOfParsed ==
    ASSUME NEW o \in Outputs
    PROVE  LET parsed == Parsed(o)
           IN Fulfils(normalize_agent_output(o), parsed.texts, parsed.messages, parsed.actions)
<1> DEFINE parsed == Parsed(o)
           media == parsed.messages
           m == Message(parsed.texts, parsed.mentions, NoAsset, parsed.reply)
           none == << >>
           body == IF parsed.texts = << >> /\ parsed.mentions = << >> THEN none ELSE <<m>>
           ms == body \o media
           p == normalize_agent_output(o)
<1>1. /\ parsed \in Accs /\ media = MediaMessages(ItemsOf(o)) /\ ItemsOf(o) \in Seq(Item)
  BY OutputIsParsed
<1>2. /\ parsed.texts \in Seq(Words \cup {Remainder}) /\ parsed.mentions \in Seq(Ids)
      /\ parsed.reply \in Replies /\ media \in Seq(PlanMessages)
      /\ parsed.actions \in Seq(ReactionItems)
  BY <1>1 DEF Accs
<1>3. /\ Len(media) \in Nat /\ DOMAIN media = 1..Len(media)
      /\ \A i \in 1..Len(media) : media[i].asset \in Sources /\ media[i] \in PlanMessages
  BY <1>1, <1>2, ItemsNormalized, LenProperties, ElementOfSeq
<1>4. NoAsset \notin Sources
  BY DEF NoAsset, Sources
<1>5. /\ m \in PlanMessages /\ m.texts = parsed.texts /\ m.mentions = parsed.mentions
      /\ m.asset = NoAsset
  BY <1>2 DEF Message, PlanMessages
<1>6. p = [messages |-> ms, actions |-> parsed.actions]
  BY Zenon DEF normalize_agent_output
<1>7. none \in Seq(PlanMessages) /\ Len(none) = 0 /\ none = << >>
  BY EmptySeq
<1>. HIDE DEF parsed, m, p, none
<1>8. \A i \in 1..Len(media) : media[i] \in WithAsset
  BY <1>3, <1>4 DEF WithAsset
<1>9. Those(media, WithAsset) = media
  BY <1>2, <1>8, ThoseAreBoth
<1>10. CASE parsed.texts = << >> /\ parsed.mentions = << >>
  <2>1. ms = media
    BY <1>2, <1>7, <1>10, ConcatEmptySeq
  <2>2. Those(ms, {x \in ToSet(ms) : x.asset # NoAsset}) = media
    BY <1>2, <1>9, <2>1, AssetsSelected
  <2>3. media # << >> => 1 \in 1..Len(media)
    BY <1>2, <1>3, EmptySeq
  <2>. HIDE DEF media, ms
  <2>4. Fulfils(p, parsed.texts, media, parsed.actions)
    BY <1>2, <1>3, <1>4, <1>6, <1>10, <2>1, <2>2, <2>3 DEF Fulfils, Plans, IsEmpty
  <2>. QED  BY <2>4 DEF p, parsed, media
<1>11. CASE ~(parsed.texts = << >> /\ parsed.mentions = << >>)
  <2>1. body = <<m>> /\ <<m>> \in Seq(PlanMessages) /\ Len(<<m>>) = 1 /\ <<m>>[1] = m
    BY <1>5, <1>11
  <2>. HIDE DEF body
  <2>2. /\ ms \in Seq(PlanMessages) /\ Len(ms) = Len(media) + 1
        /\ \A i \in 1..Len(ms) : ms[i] = IF i <= 1 THEN m ELSE media[i - 1]
    <3>1. /\ ms \in Seq(PlanMessages) /\ Len(ms) = Len(body) + Len(media)
          /\ \A i \in 1..(Len(body) + Len(media)) :
               ms[i] = IF i <= Len(body) THEN body[i] ELSE media[i - Len(body)]
      BY <1>2, <2>1, ConcatProperties
    <3>. HIDE DEF ms
    <3>2. ASSUME NEW i \in 1..Len(ms) PROVE ms[i] = IF i <= 1 THEN m ELSE media[i - 1]
      BY <1>3, <2>1, <3>1
    <3>. QED  BY <1>3, <2>1, <3>1, <3>2
  <2>3. Those(ms, WithAsset) = media
    <3>1. Those(<<m>>, WithAsset) = << >>
      <4>1. \A i \in 1..Len(<<m>>) : <<m>>[i] \notin WithAsset
        BY <1>5, <2>1 DEF WithAsset
      <4>. QED  BY <2>1, <4>1, ThoseAreBoth
    <3>2. Those(ms, WithAsset) = Those(<<m>>, WithAsset) \o Those(media, WithAsset)
      BY <1>2, <2>1, ThoseOfConcat
    <3>. QED  BY <1>2, <1>9, <3>1, <3>2, ConcatEmptySeq
  <2>4. Those(ms, {x \in ToSet(ms) : x.asset # NoAsset}) = media
    BY <2>2, <2>3, AssetsSelected
  <2>. HIDE DEF ms
  <2>5. 1 \in 1..Len(ms) /\ ms # << >> /\ ms[1] = m
    BY <1>3, <2>2, EmptySeq
  <2>6. ASSUME NEW i \in 1..Len(ms) PROVE ~IsEmpty(ms[i])
    <3>1. CASE i <= 1
      BY <1>5, <1>11, <2>2, <3>1 DEF IsEmpty
    <3>2. CASE ~(i <= 1)
      <4>1. i - 1 \in 1..Len(media)
        BY <1>3, <2>2, <3>2
      <4>. QED  BY <1>3, <1>4, <2>2, <3>2, <4>1 DEF IsEmpty
    <3>. QED  BY <3>1, <3>2
  <2>. HIDE DEF media
  <2>7. Fulfils(p, parsed.texts, media, parsed.actions)
    BY <1>2, <1>5, <1>6, <2>2, <2>4, <2>5, <2>6 DEF Fulfils, Plans
  <2>. QED  BY <2>7 DEF p, parsed, media
<1>. QED  BY <1>10, <1>11 DEF p, parsed

-----------------------------------------------------------------------------
(* The types *)

\* A call of these is a call.
LEMMA CallTypes ==
    ASSUME NEW endpoint \in Endpoints, NEW i \in Nat,
           NEW reply \in Ids \cup {NoReply, Trigger}, NEW adds \in BOOLEAN
    PROVE  LET c == Call(endpoint, i, reply, adds)
           IN /\ c \in Calls /\ c.endpoint = endpoint /\ c.item = i /\ c.reply = reply
              /\ c.adds_mention = adds
  BY DEF Call, Calls

\* The numbers of items of a plan.
LEMMA PlanItems ==
    ASSUME NEW p \in Plans
    PROVE  /\ Actions(p) \in Nat /\ Items(p) \in Nat
           /\ \A i \in 1..Items(p) : ~(i <= Actions(p)) =>
                p.messages[i - Actions(p)] \in PlanMessages
<1>1. p.messages \in Seq(PlanMessages) /\ p.actions \in Seq(ReactionItems)
  BY DEF Plans
<1> DEFINE a == Actions(p)
           b == Len(p.messages)
<1>2. a \in Nat /\ b \in Nat /\ Items(p) = a + b
  BY <1>1, LenProperties DEF Items, Actions
<1>. HIDE DEF a
<1>3. ASSUME NEW i \in 1..Items(p), ~(i <= a) PROVE p.messages[i - a] \in PlanMessages
  <2>. HIDE DEF b
  <2>1. i - a \in 1..b
    BY <1>2, <1>3
  <2>. QED  BY <1>1, <2>1, ElementOfSeq DEF b
<1>4. Items(p) \in Nat
  <2>. HIDE DEF b
  <2>. QED  BY <1>2
<1>. QED  BY <1>2, <1>3, <1>4 DEF a

\* What an item of a plan is compiled to are calls.
LEMMA CompileType ==
    ASSUME plan \in Plans, group \in BOOLEAN, NEW i \in 1..Items(plan)
    PROVE  Compile(plan, i).calls \in Seq(Calls)
<1> DEFINE m == plan.messages[i - Actions(plan)]
           first == i = Actions(plan) + 1
           none == << >>
<1>1. none \in Seq(Calls) /\ \A c \in Calls, d \in Calls :
         <<c>> \in Seq(Calls) /\ <<d>> \in Seq(Calls)
  BY EmptySeq
<1>2. Invalid.calls = none /\ \A cs : Compiled(cs).calls = cs
  BY DEF Invalid, Compiled
<1>3. /\ Actions(plan) \in Nat /\ i \in Nat /\ first \in BOOLEAN
      /\ ~(i <= Actions(plan)) => m \in PlanMessages
  BY PlanItems
<1>. HIDE DEF m, first
<1>4. CASE i <= Actions(plan)
  <2> DEFINE c == Call("set_msg_emoji_like", i, NoReply, FALSE)
  <2>1. c \in Calls
    BY <1>3, CallTypes DEF Endpoints
  <2>2. Compile(plan, i).calls \in {none, <<c>>}
    BY <1>2, <1>4 DEF Compile, QqAction
  <2>. HIDE DEF c, none
  <2>. QED  BY <1>1, <2>1, <2>2
<1>5. CASE ~(i <= Actions(plan)) /\ platform = "qq"
  <2> DEFINE reply == effective_reply_to(m, first)
             adds == first /\ group
             c == Call("send_msg", i, reply, adds)
  <2>1. reply \in Ids \cup {NoReply, Trigger} /\ adds \in BOOLEAN
    <3>1. m.reply \in Replies
      BY <1>3, <1>5 DEF PlanMessages
    <3>2. reply \in {NoReply, Trigger} \/ (reply = m.reply /\ m.reply # "none" /\ m.reply # "default")
      BY Zenon DEF effective_reply_to
    <3>. HIDE DEF reply
    <3>. QED  BY <3>1, <3>2 DEF Replies
  <2>2. Compile(plan, i) = QqMessage(m, first, i)
    BY <1>5 DEF Compile, m, first
  <2>3. QqMessage(m, first, i) = Invalid \/ QqMessage(m, first, i) = Compiled(<<c>>)
    BY Zenon DEF QqMessage
  <2>. HIDE DEF reply, adds
  <2>4. c \in Calls
    BY <1>3, <2>1, CallTypes DEF Endpoints
  <2>. HIDE DEF c, none
  <2>. QED  BY <1>1, <1>2, <2>2, <2>3, <2>4
<1>6. CASE ~(i <= Actions(plan)) /\ platform # "qq"
  <2> DEFINE named == ToSet(m.mentions) \ BlankIds
             adds == first /\ group /\ named = {}
             f == Call("sendFile", i, NoReply, FALSE)
             t == Call("SendTextMessage", i, NoReply, adds)
             file == IF m.asset = NoAsset THEN << >> ELSE <<f>>
             text == IF m.texts = << >> /\ named = {} THEN << >> ELSE <<t>>
  <2>1. Compile(plan, i) = WeChatMessage(m, first, i)
    BY <1>6 DEF Compile, m, first
  <2>2. \/ WeChatMessage(m, first, i) = Invalid
        \/ WeChatMessage(m, first, i) = Compiled(file \o text)
    BY Zenon DEF WeChatMessage
  <2>3. adds \in BOOLEAN
    OBVIOUS
  <2>4. file \in {none, <<f>>} /\ text \in {none, <<t>>}
    BY Zenon
  <2>. HIDE DEF adds
  <2>5. f \in Calls /\ t \in Calls
    BY <1>3, <2>3, CallTypes DEF Endpoints
  <2>. HIDE DEF f, t, file, text, none
  <2>6. file \o text \in Seq(Calls)
    BY <1>1, <2>4, <2>5, ConcatProperties
  <2>. QED  BY <1>1, <1>2, <2>1, <2>2, <2>6
<1>. QED  BY <1>4, <1>5, <1>6

PlanInv ==
    /\ next = 0 => plan = NoPlan
    /\ next > 0 => LET parsed == Parsed(output)
                   IN Fulfils(plan, parsed.texts, parsed.messages, parsed.actions)

\* What TakeOutput takes is a plan of the output.
LEMMA TakesPlan ==
    ASSUME output \in Outputs, TakeOutput
    PROVE  LET parsed == Parsed(output)
           IN Fulfils(plan', parsed.texts, parsed.messages, parsed.actions)
<1>1. CASE output = << >> /\ plan' = NoPlan
  <2>1. Parsed(output) = NothingParsed
    BY <1>1, ParsedOfNone
  <2>2. /\ NothingParsed.texts = << >> /\ NothingParsed.messages = << >>
        /\ NothingParsed.actions = << >>
    BY DEF NothingParsed
  <2>. QED  BY <1>1, <2>1, <2>2, NoPlanOfNone
<1>2. CASE plan' = normalize_agent_output(output)
  BY <1>2, PlanOfParsed
<1>. QED  BY <1>1, <1>2 DEF TakeOutput

\* No plan is one.
LEMMA NoPlanType == NoPlan \in Plans /\ Items(NoPlan) = 0 /\ DOMAIN NoPlan.messages = {}
<1> DEFINE e == << >>
<1>1. e \in Seq(PlanMessages) /\ e \in Seq(ReactionItems) /\ Len(e) = 0 /\ DOMAIN e = {}
  BY EmptySeq
<1>2. NoPlan = [messages |-> e, actions |-> e]
  BY DEF NoPlan
<1>. HIDE DEF e
<1>. QED  BY <1>1, <1>2 DEF Plans, Items, Actions

\* Of a sequence that is not empty, the first element and the rest.
LEMMA FirstAndRest ==
    ASSUME NEW S, NEW t \in Seq(S), t # << >>
    PROVE  /\ Head(t) \in S /\ Tail(t) \in Seq(S)
           /\ \A a \in Seq(S) : a \o t = Append(a, Head(t)) \o Tail(t)
<1> DEFINE h == Head(t)
           r == Tail(t)
           one == <<h>>
<1>1. h \in S /\ r \in Seq(S) /\ one \in Seq(S) /\ t = one \o r
  BY HeadTailProperties, SequenceEmptyOrAppend, ConcatProperties
<1>. HIDE DEF h, r
<1>2. ASSUME NEW a \in Seq(S) PROVE a \o t = Append(a, h) \o r
  <2>1. Append(a, h) = a \o one
    BY <1>1, AppendIsConcat
  <2>. HIDE DEF one
  <2>. QED  BY <1>1, <2>1, ConcatAssociative
<1>. QED  BY <1>1, <1>2 DEF h, r

CallRecords == [call : Calls, outcome : Outcomes]

\* A call is made.
LEMMA CallTaken ==
    ASSUME requests \in Seq(Calls), CallSucceeds \/ CallFailsUnnoticed \/ CallFails
    PROVE  /\ requests # << >> /\ result = "pending" /\ next > 0
           /\ Head(requests) \in Calls /\ Tail(requests) \in Seq(Calls)
           /\ \E outcome \in Outcomes :
                /\ calls' = Append(calls, [call |-> Head(requests), outcome |-> outcome])
                /\ \/ outcome \notin {"refused", "unanswered"} /\ requests' = Tail(requests)
                      /\ UNCHANGED result
                   \/ requests' = << >> /\ result' = "failed"
           /\ UNCHANGED <<planVars, plan, next>>
<1>1. /\ requests # << >> /\ result = "pending" /\ next > 0
      /\ UNCHANGED <<planVars, plan, next>>
  BY DEF CallSucceeds, CallFailsUnnoticed, CallFails, Sending
<1>2. \E outcome \in Outcomes :
         /\ calls' = Append(calls, [call |-> Head(requests), outcome |-> outcome])
         /\ \/ outcome \notin {"refused", "unanswered"} /\ requests' = Tail(requests)
               /\ UNCHANGED result
            \/ requests' = << >> /\ result' = "failed"
  BY DEF CallSucceeds, CallFailsUnnoticed, CallFails, Made, Outcomes
<1>. QED  BY <1>1, <1>2, FirstAndRest

\* Every step keeps the types, and the plan of the output.
LEMMA NextType == DeliveryTypeOK /\ PlanInv /\ [DeliveryNext]_vars => DeliveryTypeOK' /\ PlanInv'
<1> SUFFICES ASSUME DeliveryTypeOK, PlanInv, [DeliveryNext]_vars
             PROVE  DeliveryTypeOK' /\ PlanInv'
  OBVIOUS
<1>1. /\ platform \in Platforms /\ group \in BOOLEAN /\ output \in Outputs
      /\ plan \in Plans /\ next \in 0..(Items(plan) + 1) /\ requests \in Seq(Calls)
      /\ calls \in Seq(CallRecords) /\ result \in Results
      /\ Items(plan) \in Nat
  BY PlanItems DEF DeliveryTypeOK, CallRecords
<1>2. CASE TakeOutput
  <2>1. /\ next' = 1 /\ UNCHANGED <<platform, group, output, requests, calls>>
        /\ result' \in Results
    BY <1>2 DEF TakeOutput, planVars, Results
  <2>2. LET parsed == Parsed(output)
        IN Fulfils(plan', parsed.texts, parsed.messages, parsed.actions)
    BY <1>1, <1>2, TakesPlan
  <2>3. /\ plan' \in Plans /\ \A i \in 1..Len(plan'.messages) : ~IsEmpty(plan'.messages[i])
    BY <2>2, Zenon DEF Fulfils
  <2>4. DOMAIN plan'.messages = 1..Len(plan'.messages) /\ Items(plan') \in Nat
    <3>1. plan'.messages \in Seq(PlanMessages)
      BY <2>3 DEF Plans
    <3>. QED  BY <2>3, <3>1, LenProperties, PlanItems
  <2>5. PlanInv'
    BY <2>1, <2>2 DEF PlanInv
  <2>6. next' \in 0..(Items(plan') + 1)
    BY <2>1, <2>4
  <2>. QED  BY <1>1, <2>1, <2>3, <2>4, <2>5, <2>6 DEF DeliveryTypeOK, CallRecords, IsEmpty
<1>3. CASE CompileNext
  <2>1. /\ UNCHANGED <<platform, group, output, plan, calls>> /\ next > 0
        /\ next \in 1..Items(plan)
    BY <1>1, <1>3 DEF CompileNext, Sending, planVars
  <2>2. Compile(plan, next).calls \in Seq(Calls)
    BY <1>1, <2>1, CompileType
  <2>3. /\ requests' \in {requests, Compile(plan, next).calls}
        /\ next' \in {next, next + 1} /\ result' \in {result, "failed"}
    BY <1>3 DEF CompileNext
  <2>4. requests' \in Seq(Calls) /\ next' \in 0..(Items(plan) + 1) /\ next' > 0
    BY <1>1, <2>1, <2>2, <2>3
  <2>5. result' \in Results
    BY <1>1, <2>3 DEF Results
  <2>. QED  BY <1>1, <2>1, <2>4, <2>5 DEF DeliveryTypeOK, PlanInv
<1>4. CASE CallSucceeds \/ CallFailsUnnoticed \/ CallFails
  <2>1. PICK outcome \in Outcomes :
          /\ calls' = Append(calls, [call |-> Head(requests), outcome |-> outcome])
          /\ requests' = Tail(requests) \/ requests' = << >>
          /\ result' \in {result, "failed"}
    BY <1>1, <1>4, CallTaken
  <2>2. /\ Head(requests) \in Calls /\ Tail(requests) \in Seq(Calls)
        /\ UNCHANGED <<planVars, plan, next>>
    BY <1>1, <1>4, CallTaken
  <2>3. calls' \in Seq(CallRecords)
    <3> DEFINE c == [call |-> Head(requests), outcome |-> outcome]
    <3>1. c \in CallRecords
      BY <2>2 DEF CallRecords
    <3>. HIDE DEF c
    <3>2. Append(calls, c) \in Seq(CallRecords)
      BY <1>1, <3>1, AppendProperties
    <3>. QED  BY <2>1, <3>2 DEF c
  <2>4. requests' \in Seq(Calls) /\ result' \in Results
    BY <1>1, <2>1, <2>2, EmptySeq DEF Results
  <2>. QED  BY <2>2, <2>3, <2>4 DEF DeliveryTypeOK, PlanInv, planVars, CallRecords
<1>5. CASE AllSent
  BY <1>5 DEF AllSent, DeliveryTypeOK, PlanInv, planVars, Results
<1>6. CASE UNCHANGED vars
  BY <1>6 DEF vars, DeliveryTypeOK, PlanInv, planVars
<1>. QED  BY <1>2, <1>3, <1>4, <1>5, <1>6 DEF DeliveryNext

\* Both hold at the start, and in every state.
LEMMA PlanHolds == DeliverySpec => [](DeliveryTypeOK /\ PlanInv)
<1>1. DeliveryInit => DeliveryTypeOK /\ PlanInv
  BY NoPlanType, EmptySeq DEF DeliveryInit, DeliveryTypeOK, PlanInv, Results
<1>. QED  BY <1>1, NextType, PTL DEF DeliverySpec

\* Every variable has its type, and a plan has no empty message: with what an agent
\* prints, normalize_agent_output makes a plan that the adapters can compile.
THEOREM TypeCorrect == DeliverySpec => []DeliveryTypeOK
  BY PlanHolds, PTL

\* All the texts come first and in their order, and every complete item of a block that
\* parses becomes one action or one later message, for every output of an agent.
THEOREM NothingIsLost == DeliverySpec => []NothingLost
<1>1. DeliveryTypeOK /\ PlanInv => NothingLost
  <2> SUFFICES ASSUME DeliveryTypeOK, PlanInv, next > 0
               PROVE  /\ IF IsClosed(output) THEN PlannedTexts = TextsOf(output)
                                             ELSE IsPrefix(TextsOf(output), PlannedTexts)
                      /\ plan.actions = Reactions(ItemsOf(output))
                      /\ Those(plan.messages, {m \in ToSet(plan.messages) : m.asset # NoAsset})
                           = MediaMessages(ItemsOf(output))
    BY DEF NothingLost
  <2> DEFINE parsed == Parsed(output)
  <2>1. Fulfils(plan, parsed.texts, parsed.messages, parsed.actions)
    BY DEF PlanInv
  <2>2. /\ parsed.actions = Reactions(ItemsOf(output))
        /\ parsed.messages = MediaMessages(ItemsOf(output))
        /\ IF IsClosed(output) THEN parsed.texts = TextsOf(output)
                               ELSE IsPrefix(TextsOf(output), parsed.texts)
    BY OutputIsParsed DEF DeliveryTypeOK
  <2>. HIDE DEF parsed
  <2>3. /\ PlannedTexts = parsed.texts /\ plan.actions = parsed.actions
        /\ Those(plan.messages, {m \in ToSet(plan.messages) : m.asset # NoAsset})
             = parsed.messages
    BY <2>1, Zenon DEF Fulfils, PlannedTexts
  <2>. QED  BY <2>2, <2>3
<1>. QED  BY <1>1, PlanHolds, PTL

-----------------------------------------------------------------------------
(* All the calls of a plan, and those of its first items *)

CallsUpTo(n) == FlattenSeq([i \in 1..n |-> Compile(plan, i).calls])

\* No items have no calls.
LEMMA NoCallsYet == CallsUpTo(0) = << >>
<1> DEFINE f == [i \in 1..0 |-> Compile(plan, i).calls]
<1>1. f \in Seq({}) /\ Len(f) = 0
  <2>1. 1..0 = {}
    OBVIOUS
  <2>2. f \in [1..0 -> {}]
    BY <2>1, Zenon
  <2>. QED  BY <2>2, SeqDef, LenProperties
<1>2. f = << >>
  <2>. HIDE DEF f
  <2>. QED  BY <1>1, EmptySeq
<1>3. CallsUpTo(0) = FlattenSeq(f)
  BY Zenon DEF CallsUpTo
<1>. QED  BY <1>2, <1>3, FlattenOfNone

\* The calls of the first items are calls; one item more adds its own.
LEMMA CallsGoUp ==
    ASSUME plan \in Plans, group \in BOOLEAN
    PROVE  /\ CallsUpTo(0) = << >>
           /\ \A n \in 0..Items(plan) : CallsUpTo(n) \in Seq(Calls)
           /\ \A n \in 1..Items(plan) : CallsUpTo(n) = CallsUpTo(n - 1) \o Compile(plan, n).calls
<1> DEFINE F(n) == [i \in 1..n |-> Compile(plan, i).calls]
<1>1. /\ Items(plan) \in Nat
      /\ \A i \in 1..Items(plan) : Compile(plan, i).calls \in Seq(Calls)
  BY PlanItems, CompileType
<1>2. ASSUME NEW n \in 0..Items(plan)
      PROVE  F(n) \in Seq(Seq(Calls)) /\ Len(F(n)) = n /\ \A i \in 1..n : F(n)[i] = Compile(plan, i).calls
  <2>1. n \in Nat /\ \A i \in 1..n : i \in 1..Items(plan)
    BY <1>1
  <2>2. F(n) \in [1..n -> Seq(Calls)]
    BY <1>1, <2>1
  <2>3. F(n) \in Seq(Seq(Calls))
    BY <2>1, <2>2, SeqDef
  <2>4. 1..Len(F(n)) = 1..n /\ Len(F(n)) \in Nat
    BY <2>2, <2>3, LenProperties
  <2>. QED  BY <2>1, <2>3, <2>4, SameInterval
<1>3. CallsUpTo(0) = << >>
  <2>1. 0 \in 0..Items(plan)
    BY <1>1
  <2>2. F(0) \in Seq(Seq(Calls)) /\ Len(F(0)) = 0
    BY <1>2, <2>1
  <2>3. F(0) = << >>
    <3>. HIDE DEF F
    <3>. QED  BY <2>2, EmptySeq
  <2>. QED  BY <2>3, FlattenOfNone, Zenon DEF CallsUpTo
<1>4. ASSUME NEW n \in 0..Items(plan) PROVE CallsUpTo(n) \in Seq(Calls)
  <2>1. F(n) \in Seq(Seq(Calls))
    BY <1>2
  <2>. HIDE DEF F
  <2>2. FlattenSeq(F(n)) \in Seq(Calls)
    BY <2>1, FlattenIsSeq
  <2>. QED  BY <2>2, Zenon DEF CallsUpTo, F
<1>5. ASSUME NEW n \in 1..Items(plan)
      PROVE  CallsUpTo(n) = CallsUpTo(n - 1) \o Compile(plan, n).calls
  <2> DEFINE f == F(n)
             g == F(n - 1)
             c == Compile(plan, n).calls
             h == Append(g, c)
  <2>1. n \in 0..Items(plan) /\ n - 1 \in 0..Items(plan) /\ n \in 1..n /\ n - 1 \in Nat
    BY <1>1
  <2>2. /\ f \in Seq(Seq(Calls)) /\ Len(f) = n /\ \A i \in 1..n : f[i] = Compile(plan, i).calls
        /\ g \in Seq(Seq(Calls)) /\ Len(g) = n - 1
        /\ \A i \in 1..(n - 1) : g[i] = Compile(plan, i).calls
        /\ c \in Seq(Calls)
    BY <1>1, <1>2, <2>1
  <2>. HIDE DEF f, g, c
  <2>3. /\ h \in Seq(Seq(Calls)) /\ Len(h) = n /\ h[n] = c
        /\ \A i \in 1..(n - 1) : h[i] = g[i]
    <3>1. /\ h \in Seq(Seq(Calls)) /\ Len(h) = Len(g) + 1 /\ h[Len(g) + 1] = c
          /\ \A i \in 1..Len(g) : h[i] = g[i]
      BY <2>2, AppendProperties
    <3>2. Len(g) + 1 = n
      BY <2>1, <2>2
    <3>. HIDE DEF h
    <3>. QED  BY <2>2, <3>1, <3>2
  <2>. HIDE DEF h
  <2>4. ASSUME NEW i \in 1..n PROVE f[i] = h[i]
    <3>1. CASE i = n
      BY <2>2, <2>3, <3>1 DEF c
    <3>2. CASE i \in 1..(n - 1)
      BY <2>2, <2>3, <3>2
    <3>. QED  BY <2>1, <3>1, <3>2
  <2>5. f = h
    BY <2>2, <2>3, <2>4, SeqEqual
  <2>6. FlattenSeq(h) = FlattenSeq(g) \o c
    BY <2>2, FlattenOfOneMore DEF h
  <2>7. CallsUpTo(n) = FlattenSeq(f) /\ CallsUpTo(n - 1) = FlattenSeq(g)
    BY Zenon DEF CallsUpTo, f, g
  <2>. QED  BY <2>5, <2>6, <2>7 DEF c
<1>. QED  BY <1>3, <1>4, <1>5

\* The calls of the first items stand at the start of all.
LEMMA CallsOfFirst ==
    ASSUME plan \in Plans, group \in BOOLEAN, NEW k \in 0..Items(plan)
    PROVE  \E more \in Seq(Calls) : AllCalls = CallsUpTo(k) \o more
<1> DEFINE Starts(n) == \E more \in Seq(Calls) : CallsUpTo(n) = CallsUpTo(k) \o more
           N == {n \in Nat : k + n <= Items(plan) => Starts(k + n)}
<1>1. Items(plan) \in Nat /\ k \in Nat
  BY PlanItems
<1>2. 0 \in N
  <2>1. CallsUpTo(k) \in Seq(Calls) /\ k + 0 = k
    BY <1>1, CallsGoUp
  <2>2. << >> \in Seq(Calls) /\ CallsUpTo(k) = CallsUpTo(k) \o << >>
    BY <2>1, ConcatEmptySeq, EmptySeq
  <2>3. Starts(k)
    BY <2>2
  <2>. HIDE DEF Starts
  <2>. QED  BY <2>1, <2>3
<1>3. ASSUME NEW n \in Nat, n \in N PROVE n + 1 \in N
  <2> DEFINE m == k + n + 1
  <2>1. k + (n + 1) = m /\ m - 1 = k + n /\ m \in Nat
    BY <1>1
  <2>2. ASSUME m <= Items(plan) PROVE Starts(m)
    <3>1. m \in 1..Items(plan) /\ k + n <= Items(plan)
      BY <1>1, <2>1, <2>2
    <3>2. Starts(k + n)
      <4>. HIDE DEF Starts
      <4>. QED  BY <1>3, <3>1
    <3>3. PICK more \in Seq(Calls) : CallsUpTo(m - 1) = CallsUpTo(k) \o more
      BY <2>1, <3>2
    <3>. HIDE DEF m
    <3> DEFINE c == Compile(plan, m).calls
               first == CallsUpTo(k)
    <3>4. c \in Seq(Calls) /\ first \in Seq(Calls)
      BY <3>1, CompileType, CallsGoUp
    <3>5. CallsUpTo(m) = CallsUpTo(m - 1) \o c
      BY <3>1, CallsGoUp
    <3>. HIDE DEF c
    <3>6. CallsUpTo(m) = (first \o more) \o c
      BY <3>3, <3>5
    <3>. HIDE DEF first
    <3>7. CallsUpTo(m) = first \o (more \o c) /\ more \o c \in Seq(Calls)
      BY <3>3, <3>4, <3>6, ConcatAssociative, ConcatProperties
    <3>. QED  BY <3>7 DEF first
  <2>. HIDE DEF m, Starts
  <2>. QED  BY <2>1, <2>2
<1>. HIDE DEF N
<1>4. Nat \subseteq N
  BY <1>2, <1>3, InductionOnNat
<1>5. Items(plan) - k \in Nat /\ k + (Items(plan) - k) = Items(plan)
  BY <1>1
<1>6. Starts(Items(plan))
  <2>. HIDE DEF Starts
  <2>. QED  BY <1>1, <1>4, <1>5 DEF N
<1>7. AllCalls = CallsUpTo(Items(plan))
  BY Zenon DEF AllCalls, CallsUpTo
<1>. QED  BY <1>6, <1>7

-----------------------------------------------------------------------------
(* What was sent *)

callOf == [x \in CallRecords |-> x.call]

\* The calls of a sequence of calls with their outcomes are a sequence of calls.
LEMMA CallsMadeType ==
    ASSUME NEW cs \in Seq(CallRecords)
    PROVE  /\ [i \in DOMAIN cs |-> cs[i].call] = Mapped(cs, callOf)
           /\ Mapped(cs, callOf) \in Seq(Calls)
           /\ IsMap(callOf, CallRecords, Calls)
<1>1. IsMap(callOf, CallRecords, Calls)
  BY DEF IsMap, callOf, CallRecords
<1>2. \A i \in DOMAIN cs : cs[i] \in CallRecords
  BY LenProperties, ElementOfSeq
<1>3. \A i \in DOMAIN cs : callOf[cs[i]] = cs[i].call
  BY <1>2, Zenon DEF callOf
<1>4. Mapped(cs, callOf) = [i \in DOMAIN cs |-> cs[i].call]
  BY ONLY <1>3, Zenon DEF Mapped
<1>5. Mapped(cs, callOf) \in Seq(Calls)
  BY ONLY <1>1, cs \in Seq(CallRecords), MappedIsSeq
<1>. QED  BY <1>1, <1>4, <1>5

Failures == {"refused", "unanswered"}

IsValid(i) == Compile(plan, i).valid

\* The calls made and the requests, which are dropped when a call fails, are the calls
\* of the first items.
MadeOf(n) ==
    /\ \E rest \in Seq(Calls) : CallsMade \o rest = CallsUpTo(n)
    /\ result # "failed" => CallsMade \o requests = CallsUpTo(n)

SentInv ==
    /\ next = 0 => requests = << >> /\ calls = << >> /\ result = "pending"
    /\ \A n \in Nat : next = n + 1 => MadeOf(n)
    /\ \A i \in Nat : 0 < i /\ i < next => IsValid(i)
    /\ \A i \in 1..Len(calls) : calls[i].outcome \in Failures =>
           i = Len(calls) /\ result = "failed"
    /\ result = "completed" => next = Items(plan) + 1 /\ requests = << >>

\* Every step keeps it.
LEMMA NextSent ==
    DeliveryTypeOK /\ PlanInv /\ SentInv /\ [DeliveryNext]_vars => SentInv'
<1> SUFFICES ASSUME DeliveryTypeOK, PlanInv, SentInv, [DeliveryNext]_vars PROVE SentInv'
  OBVIOUS
<1>1. /\ plan \in Plans /\ group \in BOOLEAN /\ next \in 0..(Items(plan) + 1)
      /\ requests \in Seq(Calls) /\ calls \in Seq(CallRecords)
      /\ Items(plan) \in Nat /\ next \in Nat /\ Len(calls) \in Nat
  BY PlanItems, LenProperties DEF DeliveryTypeOK, CallRecords
<1>2. ASSUME UNCHANGED <<platform, group, plan>>
      PROVE  /\ \A n : CallsUpTo(n)' = CallsUpTo(n)
             /\ \A i : IsValid(i)' <=> IsValid(i)
  BY <1>2 DEF CallsUpTo, IsValid, Compile, QqMessage, WeChatMessage
<1>3. CASE TakeOutput
  <2>1. /\ next = 0 /\ next' = 1 /\ UNCHANGED <<requests, calls, output>>
        /\ requests = << >> /\ calls = << >>
        /\ result' = "completed" => plan' = NoPlan
    <3>1. result' = "completed" => plan' = NoPlan
      BY <1>3 DEF TakeOutput
    <3>. QED  BY <1>3, <3>1 DEF TakeOutput, SentInv, planVars
  <2>2. (CallsUpTo(0) = << >>)'
    BY NoCallsYet, PTL
  <2>3. CallsMade' = << >>
    BY <2>1, EmptySeq DEF CallsMade
  <2>4. Len(calls') = 0 /\ << >> \in Seq(Calls) /\ << >> \o << >> = << >>
    BY <2>1, EmptySeq, ConcatEmptySeq
  <2>5. MadeOf(0)'
    BY <2>1, <2>2, <2>3, <2>4 DEF MadeOf
  <2>6. ASSUME NEW n \in Nat, next' = n + 1 PROVE MadeOf(n)'
    <3>1. n = 0
      BY <2>1, <2>6
    <3>. QED  BY <2>5, <3>1
  <2>7. \A i \in Nat : ~(0 < i /\ i < next')
    BY <2>1
  <2>8. result' = "completed" => next' = Items(plan') + 1 /\ requests' = << >>
    BY <2>1, NoPlanType
  <2>. QED  BY <2>1, <2>4, <2>5, <2>6, <2>7, <2>8 DEF SentInv
<1>4. CASE CompileNext
  <2>1. /\ UNCHANGED <<platform, group, plan, calls>>
        /\ result = "pending" /\ next \in 1..Items(plan) /\ requests = << >>
        /\ next > 0 /\ next - 1 \in Nat /\ next = (next - 1) + 1
    BY <1>1, <1>4 DEF CompileNext, Sending, planVars
  <2>2. CallsMade \o requests = CallsUpTo(next - 1)
    <3> DEFINE n == next - 1
    <3>1. n \in Nat /\ next = n + 1 /\ result # "failed"
      BY <2>1
    <3>. HIDE DEF n
    <3>2. MadeOf(n)
      BY <3>1 DEF SentInv
    <3>3. CallsMade \o requests = CallsUpTo(n)
      BY <3>1, <3>2 DEF MadeOf
    <3>. QED  BY <3>3 DEF n
  <2>3. CallsMade' = CallsMade
    BY <2>1 DEF CallsMade
  <2>4. CASE UNCHANGED <<requests, next>> /\ result' = "failed"
    <3>1. ASSUME NEW n \in Nat, MadeOf(n) PROVE MadeOf(n)'
      BY <1>2, <2>1, <2>3, <2>4, <3>1 DEF MadeOf
    <3>. QED  BY <1>2, <2>1, <2>4, <3>1 DEF SentInv
  <2>5. CASE /\ Compile(plan, next).valid /\ requests' = Compile(plan, next).calls
             /\ next' = next + 1 /\ UNCHANGED result
    <3> DEFINE made == CallsMade
               new == Compile(plan, next).calls
    <3>1. made \in Seq(Calls) /\ made = CallsUpTo(next - 1)
      <4>1. made \in Seq(Calls)
        BY <1>1, CallsMadeType DEF CallsMade
      <4>2. made \o << >> = CallsUpTo(next - 1)
        BY <2>1, <2>2
      <4>. HIDE DEF made
      <4>. QED  BY <4>1, <4>2, ConcatEmptySeq
    <3>2. CallsUpTo(next) = CallsUpTo(next - 1) \o new /\ new \in Seq(Calls)
      BY <1>1, <2>1, CallsGoUp, CompileType
    <3>. HIDE DEF made, new
    <3>3. ASSUME NEW n \in Nat, next' = n + 1
          PROVE  MadeOf(n)'
      <4>1. n = next
        BY <1>1, <2>5, <3>3
      <4>2. CallsUpTo(n)' = CallsUpTo(n)
        BY <1>2, <2>1
      <4>3. requests' = new /\ CallsMade' = made
        BY <2>3, <2>5 DEF made, new
      <4>4. CallsMade' \o requests' = CallsUpTo(n)'
        BY <3>1, <3>2, <4>1, <4>2, <4>3
      <4>. QED  BY <3>2, <4>3, <4>4 DEF MadeOf
    <3>4. ASSUME NEW i \in Nat, 0 < i, i < next' PROVE IsValid(i)'
      <4>1. i = next \/ i < next
        BY <1>1, <2>5, <3>4
      <4>2. IsValid(i)
        BY <2>5, <3>4, <4>1 DEF SentInv, IsValid
      <4>. QED  BY <1>2, <2>1, <4>2
    <3>5. next' # 0 /\ result' = "pending" /\ UNCHANGED calls
      BY <1>1, <2>1, <2>5
    <3>6. \A i \in 1..Len(calls') : calls'[i].outcome \notin Failures
      BY <2>1, <3>5 DEF SentInv
    <3>. QED  BY <3>3, <3>4, <3>5, <3>6 DEF SentInv
  <2>. QED  BY <1>4, <2>4, <2>5 DEF CompileNext
<1>5. CASE CallSucceeds \/ CallFailsUnnoticed \/ CallFails
  <2>1. PICK outcome \in Outcomes :
          /\ calls' = Append(calls, [call |-> Head(requests), outcome |-> outcome])
          /\ \/ outcome \notin Failures /\ requests' = Tail(requests) /\ UNCHANGED result
             \/ requests' = << >> /\ result' = "failed"
    BY <1>1, <1>5, CallTaken DEF Failures
  <2>2. /\ requests # << >> /\ result = "pending" /\ next > 0
        /\ Head(requests) \in Calls /\ Tail(requests) \in Seq(Calls)
        /\ UNCHANGED <<platform, group, plan, next>>
    BY <1>1, <1>5, CallTaken DEF planVars
  <2> DEFINE c == [call |-> Head(requests), outcome |-> outcome]
             made == CallsMade
  <2>3. c \in CallRecords /\ c.call = Head(requests) /\ c.outcome = outcome
    BY <2>2 DEF CallRecords
  <2>. HIDE DEF c
  <2>4. /\ calls' \in Seq(CallRecords) /\ Len(calls') = Len(calls) + 1
        /\ \A i \in 1..Len(calls) : calls'[i] = calls[i]
        /\ calls'[Len(calls) + 1] = c
    BY <1>1, <2>1, <2>3, AppendProperties DEF c
  <2>5. CallsMade' = Append(made, Head(requests)) /\ made \in Seq(Calls)
    <3>1. /\ CallsMade = Mapped(calls, callOf) /\ CallsMade' = Mapped(calls', callOf)
          /\ IsMap(callOf, CallRecords, Calls) /\ CallsMade \in Seq(Calls)
      BY <1>1, <2>4, CallsMadeType DEF CallsMade
    <3>2. calls' = Append(calls, c)
      BY <2>1 DEF c
    <3>3. Mapped(Append(calls, c), callOf) = Append(Mapped(calls, callOf), callOf[c])
      BY <1>1, <2>3, <3>1, MappedOfOneMore
    <3>4. callOf[c] = Head(requests)
      BY <2>3 DEF callOf
    <3>. QED  BY <3>1, <3>2, <3>3, <3>4
  <2>. HIDE DEF made
  <2>6. made \o requests = Append(made, Head(requests)) \o Tail(requests)
    BY <1>1, <2>2, <2>5, FirstAndRest
  <2>7. ASSUME NEW n \in Nat, next' = n + 1
        PROVE  MadeOf(n)'
    <3>1. next = n + 1 /\ CallsUpTo(n)' = CallsUpTo(n)
      BY <1>2, <2>2, <2>7
    <3>2. made \o requests = CallsUpTo(n)
      <4>1. MadeOf(n)
        BY <3>1 DEF SentInv
      <4>. QED  BY <2>2, <4>1 DEF MadeOf, made
    <3>3. CallsMade' \o Tail(requests) = CallsUpTo(n)'
      BY <2>5, <2>6, <3>1, <3>2
    <3>. QED  BY <2>1, <2>2, <3>3 DEF MadeOf
  <2>8. \A i \in Nat : 0 < i /\ i < next' => IsValid(i)'
    BY <1>2, <2>2 DEF SentInv
  <2>9. ASSUME NEW i \in 1..Len(calls'), calls'[i].outcome \in Failures
        PROVE  i = Len(calls') /\ result' = "failed"
    <3>1. i \in 1..Len(calls) \/ i = Len(calls) + 1
      BY <1>1, <2>4
    <3>2. i \notin 1..Len(calls)
      BY <2>2, <2>4, <2>9 DEF SentInv
    <3>3. i = Len(calls) + 1
      BY <3>1, <3>2
    <3>. QED  BY <2>1, <2>3, <2>4, <2>9, <3>3
  <2>10. next' > 0 /\ result' # "completed"
    BY <2>1, <2>2
  <2>. QED  BY <2>7, <2>8, <2>9, <2>10 DEF SentInv
<1>6. CASE AllSent
  <2>1. /\ UNCHANGED <<platform, group, plan, next, requests, calls>> /\ result = "pending"
        /\ requests = << >> /\ next = Items(plan) + 1 /\ next > 0 /\ result' = "completed"
    BY <1>6 DEF AllSent, Sending, planVars
  <2>2. CallsMade' = CallsMade
    BY <2>1 DEF CallsMade
  <2>3. ASSUME NEW n \in Nat, MadeOf(n) PROVE MadeOf(n)'
    BY <1>2, <2>1, <2>2, <2>3 DEF MadeOf
  <2>4. \A i \in 1..Len(calls') : calls'[i].outcome \notin Failures
    BY <2>1 DEF SentInv
  <2>5. next' # 0 /\ next' = Items(plan') + 1 /\ requests' = << >>
    BY <1>1, <2>1
  <2>6. \A i \in Nat : 0 < i /\ i < next' => IsValid(i)'
    BY <1>2, <2>1 DEF SentInv
  <2>7. ASSUME NEW n \in Nat, next' = n + 1 PROVE MadeOf(n)'
    BY <2>1, <2>3, <2>7 DEF SentInv
  <2>. QED  BY <2>4, <2>5, <2>6, <2>7 DEF SentInv
<1>7. CASE UNCHANGED vars
  <2>1. UNCHANGED <<platform, group, plan, next, requests, calls, result>>
    BY <1>7 DEF vars, planVars
  <2>2. CallsMade' = CallsMade
    BY <2>1 DEF CallsMade
  <2>3. ASSUME NEW n \in Nat, MadeOf(n) PROVE MadeOf(n)'
    BY <1>2, <2>1, <2>2, <2>3 DEF MadeOf
  <2>. QED  BY <1>2, <2>1, <2>3 DEF SentInv, Items, Actions
<1>. QED  BY <1>3, <1>4, <1>5, <1>6, <1>7 DEF DeliveryNext

\* The platform gets the calls of the plan in their order and each once, nothing comes
\* after the first that failed, and only a run whose every call was made is completed.
THEOREM CallsAreSentInOrder == DeliverySpec => []SentInOrder
<1>1. DeliveryInit => SentInv
  <2> SUFFICES ASSUME DeliveryInit PROVE SentInv
    OBVIOUS
  <2>. QED  BY EmptySeq DEF DeliveryInit, SentInv
<1>2. DeliveryTypeOK /\ SentInv => SentInOrder
  <2> SUFFICES ASSUME DeliveryTypeOK, SentInv PROVE SentInOrder
    OBVIOUS
  <2>1. /\ plan \in Plans /\ group \in BOOLEAN /\ next \in 0..(Items(plan) + 1)
        /\ requests \in Seq(Calls) /\ calls \in Seq(CallRecords)
        /\ Items(plan) \in Nat /\ next \in Nat
    BY PlanItems DEF DeliveryTypeOK, CallRecords
  <2>2. DOMAIN calls = 1..Len(calls) /\ CallsMade \in Seq(Calls)
    BY <2>1, LenProperties, CallsMadeType DEF CallsMade
  <2> DEFINE made == CallsMade
             k == next - 1
  <2>3. ASSUME next > 0
        PROVE  /\ k \in 0..Items(plan)
               /\ \E rest \in Seq(Calls) : made \o rest = CallsUpTo(k)
               /\ result # "failed" => made \o requests = CallsUpTo(k)
    <3>1. k \in Nat /\ next = k + 1 /\ k \in 0..Items(plan)
      BY <2>1, <2>3
    <3>. HIDE DEF k
    <3>2. MadeOf(k)
      BY <3>1 DEF SentInv
    <3>. QED  BY <3>1, <3>2 DEF MadeOf
  <2>. HIDE DEF made, k
  <2>4. ASSUME next > 0 PROVE IsPrefix(made, AllCalls)
    <3>1. PICK rest \in Seq(Calls) : made \o rest = CallsUpTo(k)
      BY <2>3, <2>4
    <3>2. PICK more \in Seq(Calls) : AllCalls = CallsUpTo(k) \o more
      BY <2>1, <2>3, <2>4, CallsOfFirst
    <3>3. AllCalls = made \o (rest \o more) /\ rest \o more \in Seq(Calls)
      <4>1. AllCalls = (made \o rest) \o more
        BY <3>1, <3>2
      <4>. QED  BY <2>2, <4>1, ConcatAssociative, ConcatProperties DEF made
    <3>. QED  BY <2>2, <3>3, PrefixOfConcat DEF made
  <2>5. ASSUME result = "completed"
        PROVE  made = AllCalls /\ \A i \in 1..Items(plan) : Compile(plan, i).valid
    <3>1. next = Items(plan) + 1 /\ requests = << >>
      BY <2>5 DEF SentInv
    <3>8. next > 0 /\ k = Items(plan)
      BY <2>1, <3>1 DEF k
    <3>2. made \o << >> = CallsUpTo(Items(plan))
      BY <2>3, <2>5, <3>1, <3>8
    <3>3. made = CallsUpTo(Items(plan))
      BY <2>2, <3>2, ConcatEmptySeq DEF made
    <3>4. AllCalls = CallsUpTo(Items(plan))
      BY Zenon DEF AllCalls, CallsUpTo
    <3>5. \A i \in 1..Items(plan) : IsValid(i)
      BY <2>1, <3>1 DEF SentInv
    <3>. QED  BY <3>3, <3>4, <3>5 DEF IsValid
  <2>6. \A i \in 1..Len(calls) : calls[i].outcome \in Failures =>
           i = Len(calls) /\ result = "failed"
    BY DEF SentInv
  <2>. QED  BY <2>2, <2>4, <2>5, <2>6 DEF SentInOrder, made, Failures
<1>. QED  BY <1>1, <1>2, NextSent, PlanHolds, PTL DEF DeliverySpec

-----------------------------------------------------------------------------
(* How the calls of an item are ordered *)

IsSeq(s) == \E S : s \in Seq(S)

-----------------------------------------------------------------------------
(* Sequences of any elements *)

\* The empty sequence, and those of one element.
LEMMA ShortSeqs ==
    /\ IsSeq(<< >>) /\ Len(<< >>) = 0
    /\ \A x : IsSeq(<<x>>) /\ Len(<<x>>) = 1 /\ <<x>>[1] = x
<1>1. IsSeq(<< >>) /\ Len(<< >>) = 0
  <2>1. << >> \in Seq({})
    OBVIOUS
  <2>. QED  BY <2>1, EmptySeq DEF IsSeq
<1>2. ASSUME NEW x PROVE IsSeq(<<x>>) /\ Len(<<x>>) = 1 /\ <<x>>[1] = x
  <2>1. <<x>> \in Seq({x})
    OBVIOUS
  <2>. QED  BY <2>1 DEF IsSeq
<1>. QED  BY <1>1, <1>2

\* An element more at the end.
LEMMA OneMore ==
    ASSUME NEW s, IsSeq(s), NEW x
    PROVE  /\ IsSeq(Append(s, x))
           /\ Len(s) \in Nat /\ Len(Append(s, x)) = Len(s) + 1
           /\ DOMAIN s = 1..Len(s) /\ DOMAIN Append(s, x) = 1..(Len(s) + 1)
           /\ \A i \in 1..Len(s) : Append(s, x)[i] = s[i]
           /\ Append(s, x)[Len(s) + 1] = x
<1>1. PICK S : s \in Seq(S)
  BY DEF IsSeq
<1>2. s \in Seq(S \cup {x})
  BY <1>1
<1>3. Append(s, x) \in Seq(S \cup {x})
  BY <1>2, AppendProperties
<1>. QED  BY <1>2, <1>3, AppendProperties, LenProperties DEF IsSeq

\* An element less at the front.
LEMMA OneLess ==
    ASSUME NEW s, IsSeq(s), s # << >>
    PROVE  /\ IsSeq(Tail(s)) /\ Head(s) = s[1] /\ 1 \in 1..Len(s)
           /\ Len(s) \in Nat /\ Len(Tail(s)) = Len(s) - 1
           /\ \A i \in 1..Len(Tail(s)) : Tail(s)[i] = s[i + 1] /\ i + 1 \in 1..Len(s)
<1>1. PICK S : s \in Seq(S)
  BY DEF IsSeq
<1>2. Len(s) \in Nat \ {0}
  BY <1>1, EmptySeq, LenProperties
<1>. QED  BY <1>1, <1>2, HeadTailProperties DEF IsSeq

-----------------------------------------------------------------------------
(* What an item is compiled to *)

\* Reactions come before messages, and only to the first message is a mention added.
Fits(c) ==
    /\ c.item \in Nat
    /\ c.adds_mention => group /\ c.item = Actions(plan) + 1
    /\ c.item <= Actions(plan) => c.endpoint = "set_msg_emoji_like"

\* Two calls in this order: for items in their order, or a file and its text.
Before(c, d) ==
    \/ c.item < d.item
    \/ c.item = d.item /\ c.endpoint = "sendFile" /\ ~c.adds_mention

\* Calls for an item, in order.
CallsFor(i, cs) ==
    /\ IsSeq(cs)
    /\ \A j \in 1..Len(cs) : cs[j].item = i /\ Fits(cs[j])
    /\ \A j, k \in 1..Len(cs) : j < k => Before(cs[j], cs[k])

\* No call, one, and a file with its text, are calls for an item in order.
LEMMA FewCalls ==
    ASSUME NEW i
    PROVE  /\ CallsFor(i, << >>)
           /\ \A c : c.item = i /\ Fits(c) => CallsFor(i, <<c>>)
           /\ \A c, d : /\ c.item = i /\ Fits(c) /\ d.item = i /\ Fits(d)
                        /\ c.endpoint = "sendFile" /\ ~c.adds_mention
                        => CallsFor(i, <<c>> \o <<d>>)
<1>1. CallsFor(i, << >>)
  BY ShortSeqs DEF CallsFor
<1>2. ASSUME NEW c, c.item = i, Fits(c) PROVE CallsFor(i, <<c>>)
  BY <1>2, ShortSeqs DEF CallsFor
<1>3. ASSUME NEW c, NEW d, c.item = i, Fits(c), d.item = i, Fits(d),
             c.endpoint = "sendFile", ~c.adds_mention
      PROVE  CallsFor(i, <<c>> \o <<d>>)
  <2> DEFINE cs == Append(<<c>>, d)
  <2>1. <<c>> \o <<d>> = cs
    OBVIOUS
  <2>2. IsSeq(cs) /\ Len(cs) = 2 /\ cs[1] = c /\ cs[2] = d
    BY ShortSeqs, OneMore
  <2>3. Before(c, d)
    BY <1>3 DEF Before
  <2>. HIDE DEF cs
  <2>4. \A j \in 1..Len(cs) : j = 1 \/ j = 2
    BY <2>2
  <2>5. CallsFor(i, cs)
    BY <1>3, <2>2, <2>3, <2>4 DEF CallsFor
  <2>. QED  BY <2>1, <2>5
<1>. QED  BY <1>1, <1>2, <1>3

\* The fields of a call.
LEMMA CallFields ==
    ASSUME NEW endpoint, NEW item, NEW reply, NEW adds
    PROVE  LET c == Call(endpoint, item, reply, adds)
           IN c.endpoint = endpoint /\ c.item = item /\ c.adds_mention = adds
  BY DEF Call

\* A call for a message fits: a mention is added to the first one only.
LEMMA MessageFits ==
    ASSUME NEW i \in Nat, Actions(plan) \in Nat, ~(i <= Actions(plan)),
           NEW endpoint, NEW reply, NEW adds, adds => i = Actions(plan) + 1 /\ group
    PROVE  Fits(Call(endpoint, i, reply, adds))
<1> DEFINE c == Call(endpoint, i, reply, adds)
<1>1. c.item = i /\ c.adds_mention = adds
  BY CallFields
<1>. HIDE DEF c
<1>2. Fits(c)
  BY <1>1 DEF Fits
<1>. QED  BY <1>2 DEF c

\* What an item of a plan is compiled to are calls for it, in order.
LEMMA CallsOfItem ==
    ASSUME NEW i \in Nat, Actions(plan) \in Nat
    PROVE  CallsFor(i, Compile(plan, i).calls)
<1> DEFINE m == plan.messages[i - Actions(plan)]
           first == i = Actions(plan) + 1
<1>1. Invalid.calls = << >> /\ \A cs : Compiled(cs).calls = cs
  BY DEF Invalid, Compiled
<1>2. CASE i <= Actions(plan)
  <2> DEFINE c == Call("set_msg_emoji_like", i, NoReply, FALSE)
  <2>1. c.endpoint = "set_msg_emoji_like" /\ c.item = i /\ ~c.adds_mention
    BY DEF Call
  <2>2. Compile(plan, i).calls \in {<< >>, <<c>>}
    BY <1>1, <1>2 DEF Compile, QqAction
  <2>. HIDE DEF c
  <2>3. Fits(c)
    BY <2>1, <1>2 DEF Fits
  <2>. QED  BY <2>1, <2>2, <2>3, FewCalls
<1>3. CASE ~(i <= Actions(plan)) /\ platform = "qq"
  <2> DEFINE reply == effective_reply_to(m, first)
             adds == first /\ group
             c == Call("send_msg", i, reply, adds)
  <2>1. Compile(plan, i) = QqMessage(m, first, i)
    BY <1>3 DEF Compile
  <2>2. QqMessage(m, first, i) = Invalid \/ QqMessage(m, first, i) = Compiled(<<c>>)
    BY Zenon DEF QqMessage
  <2>3. c.item = i
    BY CallFields
  <2>4. Fits(c)
    BY <1>3, MessageFits, Zenon
  <2>. HIDE DEF c
  <2>5. CallsFor(i, << >>) /\ CallsFor(i, <<c>>)
    BY <2>3, <2>4, FewCalls
  <2>. HIDE DEF reply, adds
  <2>. QED  BY <1>1, <2>1, <2>2, <2>5
<1>4. CASE ~(i <= Actions(plan)) /\ platform # "qq"
  <2> DEFINE named == ToSet(m.mentions) \ BlankIds
             adds == first /\ group /\ named = {}
             f == Call("sendFile", i, NoReply, FALSE)
             t == Call("SendTextMessage", i, NoReply, adds)
             file == IF m.asset = NoAsset THEN << >> ELSE <<f>>
             text == IF m.texts = << >> /\ named = {} THEN << >> ELSE <<t>>
  <2>1. Compile(plan, i) = WeChatMessage(m, first, i)
    BY <1>4 DEF Compile
  <2>2. \/ WeChatMessage(m, first, i) = Invalid
        \/ WeChatMessage(m, first, i) = Compiled(file \o text)
    BY Zenon DEF WeChatMessage
  <2>3. f.endpoint = "sendFile" /\ f.item = i /\ ~f.adds_mention
    BY DEF Call
  <2>4. t.item = i
    <3>. HIDE DEF adds
    <3>. QED  BY CallFields
  <2>5. Fits(f)
    BY <1>4, MessageFits
  <2>6. Fits(t)
    BY <1>4, MessageFits, Zenon
  <2>7. file \in {<< >>, <<f>>} /\ text \in {<< >>, <<t>>}
    BY Zenon
  <2>. HIDE DEF f, t, file, text
  <2>8. /\ << >> \o << >> = << >> /\ <<f>> \o << >> = <<f>> /\ << >> \o <<t>> = <<t>>
    <3>1. << >> \in Seq({}) /\ <<f>> \in Seq({f}) /\ <<t>> \in Seq({t})
      OBVIOUS
    <3>. QED  BY <3>1, ConcatEmptySeq
  <2>9. CallsFor(i, file \o text)
    BY <2>3, <2>4, <2>5, <2>6, <2>7, <2>8, FewCalls
  <2>. QED  BY <1>1, <2>1, <2>2, <2>9, FewCalls
<1>. QED  BY <1>2, <1>3, <1>4

-----------------------------------------------------------------------------
(* How the calls end *)

SendInv ==
    /\ IsSeq(requests) /\ IsSeq(calls)
    /\ next = 0 => plan = NoPlan /\ requests = << >> /\ calls = << >>
    /\ ~dispatch_plan(plan) => requests = << >> /\ calls = << >> /\ result = "failed"

TypeInv ==
    /\ platform \in Platforms /\ group \in BOOLEAN /\ output \in Outputs
    /\ next \in Nat /\ Actions(plan) \in Nat

\* Of the types this much is needed here.
LEMMA TypesNeeded == DeliveryTypeOK => TypeInv
  BY PlanItems DEF DeliveryTypeOK, TypeInv

\* A call is made: it is the last one then, and the requests that are left come later
\* than it did.
LEMMA CallMade ==
    ASSUME SendInv, CallSucceeds \/ CallFailsUnnoticed \/ CallFails
    PROVE  /\ 1 \in 1..Len(requests) /\ Len(calls) \in Nat
           /\ IsSeq(calls') /\ Len(calls') = Len(calls) + 1
           /\ \A i \in 1..Len(calls) : calls'[i] = calls[i]
           /\ calls'[Len(calls) + 1].call = requests[1]
           /\ IsSeq(requests')
           /\ \A j \in 1..Len(requests') :
                j + 1 \in 1..Len(requests) /\ requests'[j] = requests[j + 1]
           /\ Len(requests') \in Nat /\ Len(requests') < Len(requests) /\ Len(requests) \in Nat
           /\ result = "pending"
           /\ UNCHANGED <<planVars, plan, next>>
<1>1. requests # << >> /\ result = "pending" /\ UNCHANGED <<planVars, plan, next>>
  BY DEF CallSucceeds, CallFailsUnnoticed, CallFails, Sending
<1>2. PICK outcome : calls' = Append(calls, [call |-> Head(requests), outcome |-> outcome])
  BY DEF CallSucceeds, CallFailsUnnoticed, CallFails, Made
<1>3. IsSeq(calls) /\ IsSeq(requests)
  BY DEF SendInv
<1>4. /\ Head(requests) = requests[1] /\ 1 \in 1..Len(requests)
      /\ IsSeq(Tail(requests)) /\ Len(requests) \in Nat
      /\ Len(Tail(requests)) = Len(requests) - 1
      /\ \A j \in 1..Len(Tail(requests)) :
           Tail(requests)[j] = requests[j + 1] /\ j + 1 \in 1..Len(requests)
  BY <1>1, <1>3, OneLess
<1>5. requests' = Tail(requests) \/ requests' = << >>
  BY DEF CallSucceeds, CallFailsUnnoticed, CallFails
<1>6. /\ IsSeq(requests')
      /\ \A j \in 1..Len(requests') :
           j + 1 \in 1..Len(requests) /\ requests'[j] = requests[j + 1]
      /\ Len(requests') \in Nat /\ Len(requests') < Len(requests)
  <2>1. CASE requests' = Tail(requests)
    BY <1>4, <2>1
  <2>2. CASE requests' = << >>
    <3>1. IsSeq(requests') /\ Len(requests') = 0
      BY <2>2, ShortSeqs
    <3>. QED  BY <1>4, <3>1
  <2>. QED  BY <1>5, <2>1, <2>2
<1>7. /\ IsSeq(calls') /\ Len(calls) \in Nat /\ Len(calls') = Len(calls) + 1
      /\ \A i \in 1..Len(calls) : calls'[i] = calls[i]
      /\ calls'[Len(calls) + 1] = [call |-> Head(requests), outcome |-> outcome]
  BY <1>2, <1>3, OneMore
<1>. QED  BY <1>1, <1>2, <1>4, <1>6, <1>7

\* Every step keeps what the calls came to.
LEMMA NextSend == TypeInv /\ SendInv /\ [DeliveryNext]_vars => SendInv'
<1> SUFFICES ASSUME TypeInv, SendInv, [DeliveryNext]_vars PROVE SendInv'
  OBVIOUS
<1>1. CASE TakeOutput
  <2>1. /\ requests = << >> /\ calls = << >> /\ next' = 1
        /\ UNCHANGED <<platform, requests, calls>>
    BY <1>1 DEF TakeOutput, SendInv, planVars
  <2>2. dispatch_plan(NoPlan)
    BY DEF dispatch_plan, NoPlan
  <2>3. ~dispatch_plan(plan)' => result' = "failed"
    BY <1>1, <2>2 DEF TakeOutput
  <2>. QED  BY <2>1, <2>3, ShortSeqs DEF SendInv
<1>2. CASE CompileNext
  <2>1. CallsFor(next, Compile(plan, next).calls)
    BY CallsOfItem DEF TypeInv
  <2>2. /\ result = "pending" /\ next' > 0 /\ UNCHANGED <<platform, plan, calls>>
        /\ requests' \in {requests, Compile(plan, next).calls}
    BY <1>2 DEF CompileNext, Sending, planVars, TypeInv
  <2>3. dispatch_plan(plan)
    BY <2>2 DEF SendInv
  <2>. QED  BY <2>1, <2>2, <2>3 DEF SendInv, CallsFor
<1>3. CASE CallSucceeds \/ CallFailsUnnoticed \/ CallFails
  <2>1. dispatch_plan(plan) /\ UNCHANGED plan /\ next' > 0 /\ UNCHANGED platform
    BY <1>3, CallMade DEF SendInv, CallSucceeds, CallFailsUnnoticed, CallFails, Sending, planVars
  <2>. QED  BY <1>3, <2>1, CallMade DEF SendInv
<1>4. CASE AllSent
  BY <1>4 DEF AllSent, Sending, SendInv, planVars
<1>5. CASE UNCHANGED vars
  BY <1>5 DEF vars, planVars, SendInv
<1>. QED  BY <1>1, <1>2, <1>3, <1>4, <1>5 DEF DeliveryNext

\* The types and what the calls came to hold at the start, and in every state.
LEMMA SendHolds == DeliverySpec => [](TypeInv /\ SendInv)
<1>1. DeliveryInit => SendInv
  <2> SUFFICES ASSUME DeliveryInit PROVE SendInv
    OBVIOUS
  <2>1. dispatch_plan(plan)
    BY DEF DeliveryInit, NoPlan, dispatch_plan
  <2>. QED  BY <2>1, ShortSeqs DEF DeliveryInit, SendInv
<1>. QED  BY <1>1, TypeCorrect, TypesNeeded, NextSend, PTL DEF DeliverySpec

\* Nothing is sent of a plan with a file whose path begins elsewhere than /workspace/,
\* and its run is not completed: dispatch_plan comes before the first call.
THEOREM ElsewhereFilesAreRefused == DeliverySpec => []ElsewhereFilesSendNothing
<1>1. SendInv => ElsewhereFilesSendNothing
  BY DEF SendInv, dispatch_plan, ElsewhereFilesSendNothing
<1>. QED  BY <1>1, SendHolds, PTL

-----------------------------------------------------------------------------
(* The order of the calls *)

OrderInv ==
    /\ next = 0 => requests = << >> /\ calls = << >>
    /\ \A i \in 1..Len(calls) : Fits(calls[i].call) /\ calls[i].call.item < next
    /\ \A i \in 1..Len(requests) : Fits(requests[i]) /\ requests[i].item < next
    /\ \A i, j \in 1..Len(calls) : i < j => Before(calls[i].call, calls[j].call)
    /\ \A i, j \in 1..Len(requests) : i < j => Before(requests[i], requests[j])
    /\ \A i \in 1..Len(calls) : \A j \in 1..Len(requests) :
         Before(calls[i].call, requests[j])

\* Every step keeps the order of what was sent and what is about to be.
LEMMA NextOrder == TypeInv /\ SendInv /\ OrderInv /\ [DeliveryNext]_vars => OrderInv'
<1> SUFFICES ASSUME TypeInv, SendInv, OrderInv, [DeliveryNext]_vars PROVE OrderInv'
  OBVIOUS
<1>1. CASE TakeOutput
  <2>1. requests' = << >> /\ calls' = << >> /\ next' = 1
    BY <1>1 DEF TakeOutput, OrderInv
  <2>2. Len(requests') = 0 /\ Len(calls') = 0
    BY <2>1, ShortSeqs
  <2>. QED  BY <2>1, <2>2 DEF OrderInv
<1>2. CASE CompileNext
  <2>1. UNCHANGED <<plan, group, calls>> /\ next \in Nat /\ requests = << >>
    BY <1>2 DEF CompileNext, planVars, TypeInv
  <2>2. \A c : Fits(c)' <=> Fits(c)
    BY <2>1 DEF Fits, Actions
  <2>3. CASE UNCHANGED <<requests, next>>
    BY <2>1, <2>2, <2>3 DEF OrderInv
  <2>4. CASE requests' = Compile(plan, next).calls /\ next' = next + 1
    <3>1. CallsFor(next, requests')
      BY <2>4, CallsOfItem DEF TypeInv
    <3>2. \A j \in 1..Len(requests') : requests'[j].item = next /\ Fits(requests'[j])
      BY <3>1 DEF CallsFor
    <3>3. \A i \in 1..Len(calls) : \A j \in 1..Len(requests') :
             Before(calls[i].call, requests'[j])
      BY <3>2 DEF OrderInv, Before
    <3>4. \A i \in 1..Len(calls) : Fits(calls[i].call) /\ calls[i].call.item < next + 1
      <4>1. ASSUME NEW i \in 1..Len(calls) PROVE calls[i].call.item < next + 1
        <5>1. calls[i].call.item < next /\ calls[i].call.item \in Nat
          BY DEF OrderInv, Fits
        <5>. QED  BY <5>1, <2>1
      <4>. QED  BY <4>1 DEF OrderInv
    <3>5. /\ next' # 0
          /\ \A i \in 1..Len(calls') : Fits(calls'[i].call) /\ calls'[i].call.item < next'
          /\ \A i \in 1..Len(requests') : Fits(requests'[i]) /\ requests'[i].item < next'
      BY <2>1, <2>2, <2>4, <3>2, <3>4
    <3>6. \A i, j \in 1..Len(requests') : i < j => Before(requests'[i], requests'[j])
      BY <3>1 DEF CallsFor
    <3>7. \A i, j \in 1..Len(calls') : i < j => Before(calls'[i].call, calls'[j].call)
      BY <2>1 DEF OrderInv
    <3>. QED  BY <2>1, <2>2, <3>3, <3>5, <3>6, <3>7 DEF OrderInv
  <2>. QED  BY <1>2, <2>3, <2>4 DEF CompileNext
<1>3. CASE CallSucceeds \/ CallFailsUnnoticed \/ CallFails
  <2> DEFINE n == Len(calls)
  <2>1. \A c : Fits(c)' <=> Fits(c)
    BY <1>3, CallMade DEF Fits, Actions, planVars
  <2>2. /\ n \in Nat /\ Len(calls') = n + 1 /\ 1 \in 1..Len(requests)
        /\ \A i \in 1..n : calls'[i] = calls[i]
        /\ calls'[n + 1].call = requests[1]
        /\ \A j \in 1..Len(requests') :
             j + 1 \in 1..Len(requests) /\ requests'[j] = requests[j + 1]
        /\ UNCHANGED next
    BY <1>3, CallMade
  <2>. HIDE DEF n
  <2>3. next' # 0
    <3>1. Len(requests) # 0
      BY <2>2
    <3>. QED  BY <3>1, <2>2, ShortSeqs DEF OrderInv
  <2>4. \A i \in 1..Len(calls') :
           i \in 1..n \/ (i = n + 1 /\ calls'[i].call = requests[1])
    BY <2>2
  <2>5. \A i \in 1..Len(calls') : Fits(calls'[i].call) /\ calls'[i].call.item < next'
    BY <2>2, <2>4 DEF OrderInv, n
  <2>6. \A i \in 1..Len(requests') : Fits(requests'[i]) /\ requests'[i].item < next'
    BY <2>2 DEF OrderInv
  <2>7. ASSUME NEW i \in 1..Len(calls'), NEW j \in 1..Len(calls'), i < j
        PROVE  Before(calls'[i].call, calls'[j].call)
    <3>1. i \in 1..n
      BY <2>2, <2>7
    <3>2. CASE j \in 1..n
      BY <2>2, <2>7, <3>1, <3>2 DEF OrderInv, n
    <3>3. CASE j = n + 1
      BY <2>2, <3>1, <3>3 DEF OrderInv, n
    <3>. QED  BY <2>4, <3>2, <3>3
  <2>8. ASSUME NEW i \in 1..Len(requests'), NEW j \in 1..Len(requests'), i < j
        PROVE  Before(requests'[i], requests'[j])
    BY <2>2, <2>8 DEF OrderInv
  <2>9. ASSUME NEW i \in 1..Len(calls'), NEW j \in 1..Len(requests')
        PROVE  Before(calls'[i].call, requests'[j])
    <3>1. j + 1 \in 1..Len(requests) /\ 1 < j + 1 /\ requests'[j] = requests[j + 1]
      BY <2>2
    <3>2. CASE i \in 1..n
      BY <2>2, <3>1, <3>2 DEF OrderInv, n
    <3>3. CASE i = n + 1
      BY <2>2, <3>1, <3>3 DEF OrderInv
    <3>. QED  BY <2>4, <3>2, <3>3
  <2>. QED  BY <2>1, <2>3, <2>5, <2>6, <2>7, <2>8, <2>9 DEF OrderInv
<1>4. CASE AllSent \/ UNCHANGED vars
  <2>1. UNCHANGED <<plan, group, next, requests, calls>>
    BY <1>4 DEF AllSent, vars, planVars
  <2>2. \A c : Fits(c)' <=> Fits(c)
    BY <2>1 DEF Fits, Actions
  <2>. QED  BY <2>1, <2>2 DEF OrderInv
<1>. QED  BY <1>1, <1>2, <1>3, <1>4 DEF DeliveryNext

-----------------------------------------------------------------------------
(* That the mention is added *)

\* To one of these, in the record of the calls made or among those still to make.
Added == \E i \in 1..Len(calls) : calls[i].call.adds_mention
ToAdd == \E i \in 1..Len(requests) : requests[i].adds_mention

\* Over QQ the first message to a group has been sent with a mention, or is about to be.
MentionInv ==
    /\ result = "completed" => Items(plan) < next /\ requests = << >>
    /\ platform = "qq" /\ group /\ Actions(plan) + 1 < next /\ result # "failed" =>
           Added \/ ToAdd

\* The call for the first message of a plan, over QQ and in a group, adds a mention.
LEMMA FirstMessageMentions ==
    ASSUME TypeInv, platform = "qq", group, next = Actions(plan) + 1, Compile(plan, next).valid
    PROVE  LET cs == Compile(plan, next).calls IN 1 \in 1..Len(cs) /\ cs[1].adds_mention
<1> DEFINE m == plan.messages[next - Actions(plan)]
           first == next = Actions(plan) + 1
           c == Call("send_msg", next, effective_reply_to(m, first), first /\ group)
<1>1. Compile(plan, next) = QqMessage(m, first, next)
  <2>1. ~(next <= Actions(plan))
    BY DEF TypeInv
  <2>. QED  BY <2>1 DEF Compile
<1>2. QqMessage(m, first, next) = Invalid \/ QqMessage(m, first, next) = Compiled(<<c>>)
  BY Zenon DEF QqMessage
<1>3. ~Invalid.valid /\ Compiled(<<c>>).calls = <<c>>
  BY DEF Invalid, Compiled
<1>4. c.adds_mention
  <2>1. c.adds_mention = (first /\ group)
    BY CallFields
  <2>. QED  BY <2>1, Zenon
<1> DEFINE cs == Compile(plan, next).calls
<1>. HIDE DEF c, m
<1>5. cs = <<c>>
  BY <1>1, <1>2, <1>3
<1>6. Len(<<c>>) = 1 /\ <<c>>[1] = c
  BY ShortSeqs
<1>. HIDE DEF cs
<1>7. 1 \in 1..Len(cs) /\ cs[1].adds_mention
  BY <1>4, <1>5, <1>6
<1>. QED  BY <1>7 DEF cs

\* Every step keeps the mention.
LEMMA NextMention ==
    DeliveryTypeOK /\ TypeInv /\ SendInv /\ MentionInv /\ [DeliveryNext]_vars => MentionInv'
<1> SUFFICES ASSUME DeliveryTypeOK, TypeInv, SendInv, MentionInv, [DeliveryNext]_vars PROVE MentionInv'
  OBVIOUS
<1>1. CASE TakeOutput
  <2>1. next' = 1 /\ requests' = << >>
    BY <1>1 DEF TakeOutput, SendInv
  <2>2. result' = "completed" => plan' = NoPlan
    BY <1>1 DEF TakeOutput
  <2>3. Items(NoPlan) = 0
    BY NoPlanType
  <2>4. ~(Actions(plan') + 1 < next')
    <3>1. plan' = NoPlan \/ \E o \in Outputs : plan' = normalize_agent_output(o)
      BY <1>1 DEF TakeOutput, TypeInv
    <3>2. plan' \in Plans
      <4>1. NoPlan \in Plans
        BY NoPlanType
      <4>2. \A o \in Outputs : normalize_agent_output(o) \in Plans
        BY PlanOfParsed DEF Fulfils
      <4>. QED  BY <3>1, <4>1, <4>2
    <3>3. Actions(plan') \in Nat
      BY <3>2, PlanItems
    <3>. QED  BY <2>1, <3>3
  <2>5. result' = "completed" => Items(plan') < next'
    BY <2>1, <2>2, <2>3
  <2>. QED  BY <2>1, <2>4, <2>5 DEF MentionInv
<1>2. CASE CompileNext
  <2>1. /\ UNCHANGED <<platform, group, plan, calls>> /\ next \in Nat /\ requests = << >>
        /\ result = "pending" /\ Actions(plan) \in Nat
    BY <1>2 DEF CompileNext, Sending, planVars, TypeInv
  <2>2. UNCHANGED <<Added, Actions(plan)>>
    BY <2>1 DEF Added, Actions
  <2>3. CASE result' = "failed"
    BY <2>3 DEF MentionInv
  <2>4. CASE /\ Compile(plan, next).valid /\ requests' = Compile(plan, next).calls
             /\ next' = next + 1 /\ UNCHANGED result
    <3>1. result' # "completed"
      BY <2>1, <2>4
    <3>2. ~ToAdd
      BY <2>1, ShortSeqs DEF ToAdd
    <3>3. CASE Actions(plan) + 1 < next
      BY <2>1, <2>2, <3>1, <3>2, <3>3 DEF MentionInv
    <3>4. CASE next = Actions(plan) + 1
      <4>1. platform = "qq" /\ group => ToAdd'
        BY <2>4, <3>4, FirstMessageMentions DEF ToAdd
      <4>. QED  BY <2>1, <3>1, <4>1 DEF MentionInv
    <3>5. CASE next < Actions(plan) + 1
      <4>1. ~(Actions(plan') + 1 < next')
        BY <2>1, <2>2, <2>4, <3>5
      <4>. QED  BY <3>1, <4>1 DEF MentionInv
    <3>. QED  BY <2>1, <3>3, <3>4, <3>5
  <2>. QED  BY <1>2, <2>3, <2>4 DEF CompileNext
<1>3. CASE CallSucceeds \/ CallFailsUnnoticed
  <2>1. result' = "pending" /\ requests # << >> /\ requests' = Tail(requests)
    BY <1>3 DEF CallSucceeds, CallFailsUnnoticed, Sending
  <2>2. /\ UNCHANGED <<platform, group, plan, next>> /\ Len(calls) \in Nat
        /\ Len(calls') = Len(calls) + 1
        /\ \A i \in 1..Len(calls) : calls'[i] = calls[i]
        /\ calls'[Len(calls) + 1].call = requests[1]
    BY <1>3, CallMade DEF planVars
  <2>3. /\ Len(requests) \in Nat /\ Len(requests') = Len(requests) - 1
        /\ \A j \in 1..Len(requests') : requests'[j] = requests[j + 1]
    BY <2>1, OneLess DEF SendInv
  <2>4. Added => Added'
    <3>1. ASSUME NEW i \in 1..Len(calls), calls[i].call.adds_mention PROVE Added'
      <4>1. i \in 1..Len(calls') /\ calls'[i].call.adds_mention
        BY <2>2, <3>1
      <4>. QED  BY <4>1 DEF Added
    <3>. QED  BY <3>1 DEF Added
  <2>5. ToAdd => Added' \/ ToAdd'
    <3>1. ASSUME NEW i \in 1..Len(requests), requests[i].adds_mention PROVE Added' \/ ToAdd'
      <4>1. CASE i = 1
        <5>1. Len(calls) + 1 \in 1..Len(calls') /\ calls'[Len(calls) + 1].call.adds_mention
          BY <2>2, <3>1, <4>1
        <5>. QED  BY <5>1 DEF Added
      <4>2. CASE i # 1
        <5>1. i - 1 \in 1..Len(requests') /\ requests'[i - 1] = requests[i]
          BY <2>3, <4>2
        <5>. QED  BY <3>1, <5>1 DEF ToAdd
      <4>. QED  BY <4>1, <4>2
    <3>. QED  BY <3>1 DEF ToAdd
  <2>6. Actions(plan') = Actions(plan)
    BY <2>2
  <2>. QED  BY <2>1, <2>2, <2>4, <2>5, <2>6, <1>3 DEF MentionInv, CallSucceeds,
               CallFailsUnnoticed, Sending
<1>4. CASE CallFails
  BY <1>4 DEF CallFails, MentionInv
<1>5. CASE AllSent
  <2>1. /\ UNCHANGED <<platform, group, plan, next, requests, calls>> /\ result = "pending"
        /\ requests = << >> /\ next = Items(plan) + 1
    BY <1>5 DEF AllSent, Sending, planVars
  <2>2. Items(plan) < next
    <3> DEFINE k == Items(plan)
    <3>1. k \in Nat
      BY PlanItems DEF DeliveryTypeOK
    <3>. HIDE DEF k
    <3>. QED  BY <2>1, <3>1 DEF k
  <2>3. UNCHANGED <<Added, ToAdd, Actions(plan), Items(plan)>>
    BY <2>1 DEF Added, ToAdd
  <2>. QED  BY <2>1, <2>2, <2>3 DEF MentionInv
<1>6. CASE UNCHANGED vars
  <2>1. UNCHANGED <<platform, group, plan, next, requests, calls, result>>
    BY <1>6 DEF vars, planVars
  <2>. QED  BY <2>1 DEF MentionInv, Added, ToAdd, Actions, Items
<1>. QED  BY <1>1, <1>2, <1>3, <1>4, <1>5, <1>6 DEF DeliveryNext

\* An adapter adds its mention of the one who asked in a group only, once in a run and
\* before any of the answer but files, whatever is refused and wherever the sending
\* stops; and no answer to a QQ group is completed without it.
THEOREM MentionIsAddedOnce == DeliverySpec => []MentionAddedOnce
<1>1. DeliveryInit => OrderInv /\ MentionInv
  <2> SUFFICES ASSUME DeliveryInit PROVE OrderInv /\ MentionInv
    OBVIOUS
  <2>1. Actions(plan) = 0 /\ next = 0 /\ result = "pending"
    BY EmptySeq DEF DeliveryInit, NoPlan, Actions
  <2>. QED  BY <2>1, ShortSeqs DEF DeliveryInit, OrderInv, MentionInv
<1>2. DeliveryTypeOK /\ TypeInv /\ SendInv /\ OrderInv /\ MentionInv => MentionAddedOnce
  <2> SUFFICES ASSUME DeliveryTypeOK, TypeInv, SendInv, OrderInv, MentionInv
               PROVE  MentionAddedOnce
    OBVIOUS
  <2> DEFINE adding == {i \in DOMAIN calls : calls[i].call.adds_mention}
  <2>1. DOMAIN calls = 1..Len(calls) /\ Len(calls) \in Nat /\ Actions(plan) \in Nat
    BY OneMore DEF SendInv, TypeInv
  <2>2. ASSUME NEW i \in adding PROVE group /\ calls[i].call.item = Actions(plan) + 1
    BY <2>1 DEF OrderInv, Fits
  <2>3. ASSUME NEW i \in adding, NEW j \in 1..(i - 1)
        PROVE  calls[j].call.endpoint \in {"set_msg_emoji_like", "sendFile"}
    <3>1. j \in 1..Len(calls) /\ i \in 1..Len(calls) /\ j < i
      BY <2>1
    <3>2. Before(calls[j].call, calls[i].call) /\ Fits(calls[j].call)
      BY <3>1 DEF OrderInv
    <3>3. CASE calls[j].call.endpoint = "sendFile"
      BY <3>3
    <3>4. CASE calls[j].call.item < Actions(plan) + 1
      BY <2>1, <3>2, <3>4 DEF Fits
    <3>. QED  BY <2>2, <3>2, <3>3, <3>4 DEF Before
  <2>4. ASSUME NEW i \in adding, NEW j \in (i + 1)..Len(calls) PROVE j \notin adding
    <3>1. j \in 1..Len(calls) /\ i \in 1..Len(calls) /\ i < j
      BY <2>1
    <3>2. Before(calls[i].call, calls[j].call) /\ Fits(calls[j].call)
      BY <3>1 DEF OrderInv
    <3>3. calls[i].call.adds_mention
      OBVIOUS
    <3>4. Actions(plan) + 1 < calls[j].call.item
      BY <2>2, <3>2, <3>3 DEF Before
    <3>. QED  BY <2>1, <3>2, <3>4 DEF Fits
  <2>5. ASSUME result = "completed", group, platform = "qq", plan.messages # << >>
        PROVE  adding # {}
    <3>1. /\ plan \in Plans /\ plan.messages \in Seq(PlanMessages)
          /\ Items(plan) < next /\ requests = << >>
      BY <2>5 DEF DeliveryTypeOK, Plans, MentionInv
    <3>2. Len(plan.messages) \in Nat \ {0} /\ Items(plan) = Actions(plan) + Len(plan.messages)
      BY <2>5, <3>1, EmptySeq, LenProperties DEF Items
    <3>3. Actions(plan) + 1 < next
      <4> DEFINE l == Len(plan.messages)
      <4>1. l \in Nat \ {0} /\ Actions(plan) + l < next
        BY <3>1, <3>2
      <4>. HIDE DEF l
      <4>. QED  BY <2>1, <4>1 DEF TypeInv
    <3>4. ~ToAdd
      BY <3>1, ShortSeqs DEF ToAdd
    <3>5. Added
      BY <2>5, <3>3, <3>4 DEF MentionInv
    <3>. QED  BY <2>1, <3>5 DEF Added
  <2>. HIDE DEF adding
  <2>6. /\ \A i \in adding :
             /\ group
             /\ \A j \in 1..(i - 1) :
                  calls[j].call.endpoint \in {"set_msg_emoji_like", "sendFile"}
             /\ \A j \in (i + 1)..Len(calls) : j \notin adding
        /\ result = "completed" /\ group /\ platform = "qq" /\ plan.messages # << >> =>
             adding # {}
    BY <2>2, <2>3, <2>4, <2>5
  <2>. QED  BY <2>6 DEF MentionAddedOnce, adding
<1>. QED  BY <1>1, <1>2, NextOrder, NextMention, SendHolds, TypeCorrect, PTL DEF DeliverySpec
=============================================================================
