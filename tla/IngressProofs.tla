----------------------------- MODULE IngressProofs -----------------------------
(***************************************************************************)
(* What Ingress promises, for texts of any length and any ids.             *)
(*                                                                         *)
(* The invariant says only what each part of the state was made from; what *)
(* is made of a text is in the lemmas.  Most of them are about selecting:  *)
(* two texts say the same when the same of their tokens are selected.      *)
(***************************************************************************)
EXTENDS Ingress, SequenceFacts, TLAPS

-----------------------------------------------------------------------------
(* Trimmed texts *)

Blanks == {"blank"}

\* A text that begins and ends with something.
IsSolid(t) == t # << >> /\ t[1] # "blank" /\ t[Len(t)] # "blank"

\* Where a text begins and ends does not depend on the white space around it.
LEMMA TrimOfPadded ==
    ASSUME NEW S, NEW a \in Seq(Blanks), NEW t \in Seq(S), NEW c \in Seq(Blanks), IsSolid(t)
    PROVE  Trim(a \o t \o c) = t
<1> DEFINE V == S \cup Blanks
           k == Len(a)
           n == Len(t)
           l == Len(c)
           u == a \o t
           s == u \o c
<1>1. a \in Seq(V) /\ t \in Seq(V) /\ c \in Seq(V)
  BY SeqMonotonic
<1>2. /\ k \in Nat /\ n \in Nat /\ l \in Nat /\ n # 0
      /\ (\A i \in 1..k : a[i] = "blank") /\ (\A i \in 1..l : c[i] = "blank")
  <2>1. (\A i \in 1..k : a[i] \in Blanks) /\ (\A i \in 1..l : c[i] \in Blanks)
    BY ElementOfSeq
  <2>. QED  BY <2>1, LenProperties, EmptySeq DEF Blanks, IsSolid
<1>3. /\ u \in Seq(V) /\ Len(u) = k + n
      /\ \A i \in 1..(k + n) : u[i] = IF i <= k THEN a[i] ELSE t[i - k]
  BY <1>1, ConcatProperties
<1>. HIDE DEF u
<1>4. /\ s \in Seq(V) /\ Len(s) = k + n + l
      /\ \A i \in 1..(k + n + l) : s[i] = IF i <= k + n THEN u[i] ELSE c[i - (k + n)]
  BY <1>1, <1>3, ConcatProperties
<1>5. DOMAIN s = 1..Len(s)
  BY <1>4, LenProperties
<1>. HIDE DEF s, k, n, l, V
<1>6. \A i \in 1..k : s[i] = "blank"
  <2>1. ASSUME NEW i \in 1..k PROVE s[i] = "blank"
    <3>1. i \in 1..(k + n) /\ i \in 1..(k + n + l) /\ i <= k /\ i <= k + n
      BY <1>2
    <3>. QED  BY <1>2, <1>3, <1>4, <3>1
  <2>. QED  BY <2>1
<1>7. \A i \in 1..n : k + i \in 1..(k + n + l) /\ s[k + i] = t[i]
  <2>1. ASSUME NEW i \in 1..n PROVE k + i \in 1..(k + n + l) /\ s[k + i] = t[i]
    <3> DEFINE j == k + i
    <3>1. /\ j \in 1..(k + n) /\ j \in 1..(k + n + l) /\ ~(j <= k)
          /\ j <= k + n /\ j - k = i
      BY <1>2
    <3>. HIDE DEF j
    <3>2. s[j] = u[j] /\ u[j] = t[j - k]
      BY <1>3, <1>4, <3>1
    <3>3. s[j] = t[i]
      BY <3>1, <3>2
    <3>. QED  BY <3>1, <3>3 DEF j
  <2>. QED  BY <2>1
<1>8. \A i \in 1..(k + n + l) : i > k + n => s[i] = "blank"
  <2>1. ASSUME NEW i \in 1..(k + n + l), i > k + n PROVE s[i] = "blank"
    <3>1. ~(i <= k + n) /\ i - (k + n) \in 1..l
      BY <1>2, <2>1
    <3>. QED  BY <1>2, <1>4, <3>1
  <2>. QED  BY <2>1
<1> DEFINE solid == Solid(s)
<1>9. /\ solid \in SUBSET (1..(k + n + l))
      /\ \A i \in 1..(k + n + l) : i \in solid <=> s[i] # "blank"
  BY <1>4, <1>5 DEF Solid
<1>10. k + 1 \in solid /\ k + n \in solid
  <2>1. 1 \in 1..n /\ n \in 1..n
    BY <1>2
  <2>2. s[k + 1] = t[1] /\ s[k + n] = t[n] /\ k + 1 \in 1..(k + n + l) /\ k + n \in 1..(k + n + l)
    BY <1>7, <2>1
  <2>. QED  BY <1>9, <2>2 DEF IsSolid, n
<1>. HIDE DEF solid
<1>11. k + n + l \in Nat
  BY <1>2
<1>12. /\ Min(solid) \in solid /\ Max(solid) \in solid
       /\ \A x \in solid : Min(solid) <= x /\ x <= Max(solid)
  BY <1>9, <1>10, <1>11, MinOfSome, MaxOfSome
<1>13. \A x \in solid : k + 1 <= x /\ x <= k + n
  <2>1. ASSUME NEW x \in solid PROVE k + 1 <= x /\ x <= k + n
    <3>1. x \in 1..(k + n + l) /\ s[x] # "blank"
      BY <1>9
    <3>2. x \notin 1..k /\ ~(x > k + n)
      BY <1>6, <1>8, <3>1
    <3>. QED  BY <1>2, <3>1, <3>2
  <2>. QED  BY <2>1
<1>14. Min(solid) = k + 1 /\ Max(solid) = k + n
  <2>1. /\ k + 1 <= Min(solid) /\ Min(solid) <= k + 1
        /\ Max(solid) <= k + n /\ k + n <= Max(solid)
    BY <1>10, <1>12, <1>13
  <2>2. Min(solid) \in 1..(k + n + l) /\ Max(solid) \in 1..(k + n + l)
    BY <1>9, <1>12
  <2>3. Min(solid) \in Nat /\ Max(solid) \in Nat
    BY <1>11, <2>2
  <2>. QED  BY <1>2, <2>1, <2>3
<1> DEFINE r == SubSeq(s, k + 1, k + n)
<1>15. r = t
  <2>1. \A i \in (k + 1)..(k + n) : s[i] \in V
    <3>1. \A i \in (k + 1)..(k + n) : i \in 1..Len(s)
      BY <1>2, <1>4
    <3>. QED  BY <1>4, <3>1, ElementOfSeq
  <2>2. /\ r \in Seq(V) /\ Len(r) = IF k + 1 <= k + n THEN k + n - (k + 1) + 1 ELSE 0
        /\ \A i \in 1..(k + n - (k + 1) + 1) : r[i] = s[k + 1 + i - 1]
    BY <1>2, <2>1, SubSeqProperties
  <2>. HIDE DEF r
  <2>3. k + n - (k + 1) + 1 = n /\ k + 1 <= k + n
    BY <1>2
  <2>4. \A i \in 1..n : k + 1 + i - 1 = k + i
    BY <1>2
  <2>5. \A i \in 1..n : r[i] = t[i]
    BY <1>7, <2>2, <2>3, <2>4
  <2>6. Len(r) = n
    BY <2>2, <2>3
  <2>. QED  BY <1>1, <2>2, <2>5, <2>6, SeqEqual DEF n
<1>16. Trim(s) = SubSeq(s, Min(solid), Max(solid))
  BY <1>10 DEF Trim, solid
<1>17. Trim(s) = t
  BY <1>14, <1>15, <1>16
<1>. QED  BY <1>17 DEF s, u

\* A text of white space only.
LEMMA TrimOfBlanks ==
    ASSUME NEW S, NEW s \in Seq(S), \A i \in 1..Len(s) : s[i] = "blank"
    PROVE  Trim(s) = << >>
<1>1. Solid(s) = {}
  BY LenProperties DEF Solid
<1>. QED  BY <1>1 DEF Trim

\* A text is what trimming leaves of it, with white space around.
LEMMA TrimmedText ==
    ASSUME NEW S, NEW s \in Seq(S), \E i \in 1..Len(s) : s[i] # "blank"
    PROVE  /\ Trim(s) \in Seq(S) /\ IsSolid(Trim(s))
           /\ \E a, c \in Seq(Blanks) :
                s = a \o Trim(s) \o c /\ a \in Seq(S) /\ c \in Seq(S)
<1> DEFINE u == Solid(s)
           m == Min(u)
           n == Max(u)
           l == Len(s)
           a == SubSeq(s, 1, m - 1)
           t == SubSeq(s, m, n)
           c == SubSeq(s, n + 1, l)
<1>1. l \in Nat /\ DOMAIN s = 1..l /\ \A i \in 1..l : s[i] \in S
  BY LenProperties, ElementOfSeq
<1>2. u \in SUBSET (1..l) /\ u # {} /\ \A i \in 1..l : i \in u <=> s[i] # "blank"
  BY <1>1 DEF Solid
<1>3. Trim(s) = t
  BY <1>2 DEF Trim
<1>. HIDE DEF u, l
<1>4. /\ m \in u /\ n \in u /\ \A x \in u : m <= x /\ x <= n
  BY <1>1, <1>2, MinOfSome, MaxOfSome
<1>5. m \in 1..l /\ n \in 1..l /\ m <= n /\ s[m] # "blank" /\ s[n] # "blank"
  BY <1>2, <1>4
<1>. HIDE DEF m, n
<1>6. a \in Seq(Blanks) /\ a \in Seq(S)
  <2>1. ASSUME NEW i \in 1..(m - 1) PROVE s[i] \in Blanks /\ s[i] \in S
    <3>1. i \in 1..l /\ ~(m <= i)
      BY <1>1, <1>5
    <3>. QED  BY <1>1, <1>2, <1>4, <3>1 DEF Blanks
  <2>2. m - 1 \in Int /\ 1 \in Int
    BY <1>1, <1>5
  <2>. QED  BY <2>1, <2>2, SubSeqProperties
<1>7. c \in Seq(Blanks) /\ c \in Seq(S)
  <2>1. ASSUME NEW i \in (n + 1)..l PROVE s[i] \in Blanks /\ s[i] \in S
    <3>1. i \in 1..l /\ ~(i <= n)
      BY <1>1, <1>5
    <3>. QED  BY <1>1, <1>2, <1>4, <3>1 DEF Blanks
  <2>2. n + 1 \in Int /\ l \in Int
    BY <1>1, <1>5
  <2>. QED  BY <2>1, <2>2, SubSeqProperties
<1>8. /\ t \in Seq(S) /\ IsSolid(t)
  <2>1. ASSUME NEW i \in m..n PROVE s[i] \in S
    <3>1. i \in 1..l
      BY <1>1, <1>5
    <3>. QED  BY <1>1, <3>1
  <2>2. m \in Int /\ n \in Int
    BY <1>1, <1>5
  <2>3. /\ t \in Seq(S) /\ Len(t) = IF m <= n THEN n - m + 1 ELSE 0
        /\ \A i \in 1..(n - m + 1) : t[i] = s[m + i - 1]
    BY <2>1, <2>2, SubSeqProperties
  <2>. HIDE DEF t
  <2>4. /\ 1 \in 1..(n - m + 1) /\ n - m + 1 \in 1..(n - m + 1) /\ Len(t) = n - m + 1
        /\ m + 1 - 1 = m /\ m + (n - m + 1) - 1 = n
    BY <1>1, <1>5, <2>3
  <2>5. t[1] = s[m] /\ t[Len(t)] = s[n] /\ Len(t) # 0
    BY <2>3, <2>4
  <2>. QED  BY <1>5, <2>3, <2>5, EmptySeq DEF IsSolid
<1>9. s = a \o t \o c
  <2> DEFINE one == 1
             k == m - 1
  <2>1. /\ one \in 1..(Len(s) + 1) /\ k \in (one - 1)..Len(s) /\ n \in k..Len(s) /\ k + 1 = m
        /\ n \in (one - 1)..Len(s) /\ l \in n..Len(s) /\ l = Len(s)
    BY <1>1, <1>5 DEF l
  <2>2. SubSeq(s, 1, l) = s
    BY <2>1, SubSeqFull
  <2>. HIDE DEF one, k
  <2>3. SubSeq(s, one, k) \o SubSeq(s, k + 1, n) = SubSeq(s, one, n)
    BY <2>1, ConcatAdjacentSubSeq
  <2>4. SubSeq(s, one, n) \o SubSeq(s, n + 1, l) = SubSeq(s, one, l)
    BY <2>1, ConcatAdjacentSubSeq
  <2>5. SubSeq(s, one, k) = a /\ SubSeq(s, k + 1, n) = t
    BY <2>1 DEF one, k
  <2>. QED  BY <2>2, <2>3, <2>4, <2>5 DEF one
<1>. HIDE DEF a, t, c
<1>. QED  BY <1>3, <1>6, <1>7, <1>8, <1>9

\* What trimming leaves, of any text.
LEMMA TrimType ==
    ASSUME NEW S, NEW s \in Seq(S)
    PROVE  /\ Trim(s) \in Seq(S)
           /\ Trim(s) = << >> <=> \A i \in 1..Len(s) : s[i] = "blank"
<1>1. CASE \A i \in 1..Len(s) : s[i] = "blank"
  BY <1>1, TrimOfBlanks, EmptySeq
<1>2. CASE \E i \in 1..Len(s) : s[i] # "blank"
  BY <1>2, TrimmedText DEF IsSolid
<1>. QED  BY <1>1, <1>2

-----------------------------------------------------------------------------
(* The text that triggers *)

Skipped == {"blank", "at_bot"}

\* The mentions of the bot in front do not matter.
LEMMA TriggerTextOfPadded ==
    ASSUME NEW S, NEW a \in Seq(Skipped), NEW t \in Seq(S), t # << >>, t[1] \notin Skipped
    PROVE  canonical_trigger_text(a \o t) = Trim(t)
<1> DEFINE V == S \cup Skipped
           k == Len(a)
           n == Len(t)
           s == a \o t
           rest == {i \in DOMAIN s : s[i] \notin {"blank", "at_bot"}}
           r == SubSeq(s, k + 1, k + n)
<1>1. a \in Seq(V) /\ t \in Seq(V)
  BY SeqMonotonic
<1>2. /\ k \in Nat /\ n \in Nat /\ n # 0 /\ \A i \in 1..k : a[i] \in Skipped
  BY ElementOfSeq, LenProperties, EmptySeq
<1>3. /\ s \in Seq(V) /\ Len(s) = k + n
      /\ \A i \in 1..(k + n) : s[i] = IF i <= k THEN a[i] ELSE t[i - k]
  BY <1>1, ConcatProperties
<1>4. DOMAIN s = 1..(k + n)
  BY <1>3, LenProperties
<1>. HIDE DEF s, k, n, V
<1>5. \A i \in 1..n : k + i \in 1..(k + n) /\ s[k + i] = t[i]
  <2>1. ASSUME NEW i \in 1..n PROVE k + i \in 1..(k + n) /\ s[k + i] = t[i]
    <3> DEFINE j == k + i
    <3>1. j \in 1..(k + n) /\ ~(j <= k) /\ j - k = i
      BY <1>2
    <3>. HIDE DEF j
    <3>2. s[j] = t[j - k]
      BY <1>3, <3>1
    <3>3. s[j] = t[i]
      BY <3>1, <3>2
    <3>. QED  BY <3>1, <3>3 DEF j
  <2>. QED  BY <2>1
<1>6. \A i \in 1..k : s[i] \in Skipped
  <2>1. ASSUME NEW i \in 1..k PROVE s[i] \in Skipped
    <3>1. i \in 1..(k + n) /\ i <= k
      BY <1>2
    <3>. QED  BY <1>2, <1>3, <3>1
  <2>. QED  BY <2>1
<1>7. /\ rest \in SUBSET (1..(k + n)) /\ k + n \in Nat
      /\ \A i \in 1..(k + n) : i \in rest <=> s[i] \notin Skipped
  BY <1>2, <1>4 DEF Skipped
<1>8. k + 1 \in rest
  <2>1. 1 \in 1..n
    BY <1>2
  <2>. QED  BY <1>5, <1>7, <2>1
<1>. HIDE DEF rest
<1>9. Min(rest) = k + 1
  <2>1. Min(rest) \in rest /\ \A x \in rest : Min(rest) <= x
    BY <1>7, <1>8, MinOfSome
  <2>2. Min(rest) \in 1..(k + n) /\ Min(rest) \notin 1..k /\ Min(rest) <= k + 1
    BY <1>6, <1>7, <1>8, <2>1
  <2>. QED  BY <1>2, <2>2
<1>10. r = t
  <2>1. \A i \in (k + 1)..(k + n) : s[i] \in V
    <3>1. \A i \in (k + 1)..(k + n) : i \in 1..Len(s)
      BY <1>2, <1>3
    <3>. QED  BY <1>3, <3>1, ElementOfSeq
  <2>2. /\ r \in Seq(V) /\ Len(r) = IF k + 1 <= k + n THEN k + n - (k + 1) + 1 ELSE 0
        /\ \A i \in 1..(k + n - (k + 1) + 1) : r[i] = s[k + 1 + i - 1]
    BY <1>2, <2>1, SubSeqProperties
  <2>. HIDE DEF r
  <2>3. k + n - (k + 1) + 1 = n /\ k + 1 <= k + n /\ \A i \in 1..n : k + 1 + i - 1 = k + i
    BY <1>2
  <2>4. Len(r) = n /\ \A i \in 1..n : r[i] = t[i]
    BY <1>5, <2>2, <2>3
  <2>. QED  BY <1>1, <2>2, <2>4, SeqEqual DEF n
<1>11. canonical_trigger_text(s) = Trim(SubSeq(s, Min(rest), Len(s)))
  BY <1>8 DEF canonical_trigger_text, rest
<1>12. canonical_trigger_text(s) = Trim(t)
  BY <1>3, <1>9, <1>10, <1>11
<1>. QED  BY <1>12 DEF s

\* Either there is something else in a text, or trimming is all that is done.
LEMMA TriggerTextParts ==
    ASSUME NEW S, NEW s \in Seq(S)
    PROVE  \/ (\A i \in 1..Len(s) : s[i] \in Skipped) /\ canonical_trigger_text(s) = Trim(s)
           \/ \E a \in Seq(Skipped), t \in Seq(S) :
                /\ s = a \o t /\ t # << >> /\ t[1] \notin Skipped /\ a \in Seq(S)
                /\ canonical_trigger_text(s) = Trim(t)
<1> DEFINE out == {i \in DOMAIN s : s[i] \notin Skipped}
<1>1. DOMAIN s = 1..Len(s)
  BY LenProperties
<1>2. CASE out = {}
  <2>1. canonical_trigger_text(s) = Trim(s)
    BY <1>2 DEF canonical_trigger_text, Skipped
  <2>. QED  BY <1>1, <1>2, <2>1
<1>3. CASE out # {}
  <2>. HIDE DEF out
  <2>1. PICK a \in Seq(Skipped), t \in Seq(S) :
          s = a \o t /\ t # << >> /\ t[1] \notin Skipped /\ a \in Seq(S)
    BY <1>3, FirstOutside DEF out
  <2>2. canonical_trigger_text(a \o t) = Trim(t)
    BY <2>1, TriggerTextOfPadded
  <2>. QED  BY <2>1, <2>2
<1>. QED  BY <1>2, <1>3

\* There is no text when there is only white space.
LEMMA NoTriggerText ==
    ASSUME NEW S, NEW s \in Seq(S)
    PROVE  canonical_trigger_text(s) = << >> <=> \A i \in 1..Len(s) : s[i] = "blank"
<1>1. CASE canonical_trigger_text(s) = Trim(s)
  BY <1>1, TrimType
<1>2. ASSUME NEW a \in Seq(Skipped), NEW t \in Seq(S), s = a \o t, t # << >>,
             t[1] \notin Skipped, a \in Seq(S), canonical_trigger_text(s) = Trim(t)
      PROVE  canonical_trigger_text(s) # << >> /\ \E i \in 1..Len(s) : s[i] # "blank"
  <2>1. Len(t) \in Nat /\ Len(t) # 0 /\ Len(a) \in Nat
    BY <1>2, EmptySeq, LenProperties
  <2>2. 1 \in 1..Len(t) /\ t[1] # "blank"
    BY <1>2, <2>1 DEF Skipped
  <2>3. Trim(t) # << >>
    BY <2>2, TrimType
  <2> DEFINE j == Len(a) + 1
             u == a \o t
  <2>4. /\ u \in Seq(S) /\ Len(u) = Len(a) + Len(t)
        /\ \A i \in 1..(Len(a) + Len(t)) : u[i] = IF i <= Len(a) THEN a[i] ELSE t[i - Len(a)]
    BY <1>2, ConcatProperties
  <2>. HIDE DEF u
  <2>5. j \in 1..(Len(a) + Len(t)) /\ ~(j <= Len(a)) /\ j - Len(a) = 1
    BY <2>1
  <2>. HIDE DEF j
  <2>6. u[j] = t[1]
    <3>1. u[j] = t[j - Len(a)]
      BY <2>4, <2>5
    <3>. QED  BY <2>5, <3>1
  <2>. QED  BY <1>2, <2>2, <2>3, <2>4, <2>5, <2>6 DEF u
<1>. QED  BY <1>1, <1>2, TriggerTextParts

\* A function that neither makes nor takes white space and mentions of the bot.
IsKeeping(f, S) ==
    \A x \in S : (f[x] = "blank" <=> x = "blank") /\ (f[x] = "at_bot" <=> x = "at_bot")

\* Such a function can be applied before trimming or after it.
LEMMA TrimOfMapped ==
    ASSUME NEW S, NEW V, NEW f, IsMap(f, S, V), IsKeeping(f, S), NEW s \in Seq(S)
    PROVE  Trim(Mapped(s, f)) = Mapped(Trim(s), f)
<1> DEFINE m == Mapped(s, f)
<1>1. /\ m \in Seq(V) /\ Len(m) = Len(s) /\ \A i \in 1..Len(s) : m[i] = f[s[i]]
  BY MappedIsSeq
<1>. HIDE DEF m
<1>2. \A i \in 1..Len(s) : s[i] \in S
  BY ElementOfSeq
<1>3. CASE \A i \in 1..Len(s) : s[i] = "blank"
  <2>1. \A i \in 1..Len(m) : m[i] = "blank"
    BY <1>1, <1>2, <1>3 DEF IsKeeping
  <2>2. Trim(m) = << >> /\ Trim(s) = << >>
    BY <1>1, <1>3, <2>1, TrimOfBlanks
  <2>. QED  BY <2>2, MappedOfNone DEF m
<1>4. CASE \E i \in 1..Len(s) : s[i] # "blank"
  <2> DEFINE t == Trim(s)
             mt == Mapped(t, f)
  <2>1. t \in Seq(S) /\ IsSolid(t)
    BY <1>4, TrimmedText
  <2>2. PICK a \in Seq(Blanks), c \in Seq(Blanks) :
          s = a \o t \o c /\ a \in Seq(S) /\ c \in Seq(S)
    BY <1>4, TrimmedText
  <2>. HIDE DEF t
  <2>3. ASSUME NEW b \in Seq(Blanks), b \in Seq(S) PROVE Mapped(b, f) = b
    <3>1. ASSUME NEW i \in 1..Len(b) PROVE f[b[i]] = b[i]
      <4>1. b[i] \in Blanks /\ b[i] \in S
        BY <2>3, ElementOfSeq
      <4>. QED  BY <4>1 DEF Blanks, IsKeeping
    <3>. QED  BY <2>3, <3>1, MappedSame
  <2>4. Mapped(a \o t, f) = a \o mt /\ a \o t \in Seq(S)
    <3>1. Mapped(a \o t, f) = Mapped(a, f) \o Mapped(t, f)
      <4>1. a \in Seq(S) /\ t \in Seq(S)
        BY <2>1, <2>2
      <4>. QED  BY ONLY <4>1, IsMap(f, S, V), MappedOfConcat
    <3>2. Mapped(a, f) = a
      BY <2>2, <2>3
    <3>. QED  BY <2>1, <2>2, <3>1, <3>2, ConcatProperties
  <2>5. m = (a \o mt) \o c
    <3> DEFINE at == a \o t
    <3>1. at \in Seq(S) /\ Mapped(at, f) = a \o mt
      BY <2>4
    <3>2. s = at \o c
      BY <2>2
    <3>. HIDE DEF at
    <3>3. Mapped(at \o c, f) = Mapped(at, f) \o Mapped(c, f)
      <4>1. at \in Seq(S) /\ c \in Seq(S)
        BY <2>2, <3>1
      <4>. QED  BY ONLY <4>1, IsMap(f, S, V), MappedOfConcat
    <3>4. Mapped(c, f) = c
      BY <2>2, <2>3
    <3>. QED  BY <3>1, <3>2, <3>3, <3>4 DEF m
  <2>6. mt \in Seq(V) /\ IsSolid(mt)
    <3>1. /\ mt \in Seq(V) /\ Len(mt) = Len(t) /\ \A i \in 1..Len(t) : mt[i] = f[t[i]]
      BY <2>1, MappedIsSeq
    <3>. HIDE DEF mt
    <3>2. Len(t) \in Nat /\ Len(t) # 0
      BY <2>1, LenProperties, EmptySeq DEF IsSolid
    <3>3. 1 \in 1..Len(t) /\ Len(t) \in 1..Len(t)
      BY <3>2
    <3>4. t[1] \in S /\ t[Len(t)] \in S
      BY <2>1, <3>3, ElementOfSeq
    <3>5. t[1] # "blank" /\ t[Len(t)] # "blank"
      BY <2>1 DEF IsSolid
    <3>6. \A x \in S : f[x] = "blank" <=> x = "blank"
      BY DEF IsKeeping
    <3>7. mt[1] = f[t[1]] /\ mt[Len(mt)] = f[t[Len(t)]]
      BY <3>1, <3>3
    <3>8. mt[1] # "blank" /\ mt[Len(mt)] # "blank"
      BY <3>4, <3>5, <3>6, <3>7
    <3>. QED  BY <3>1, <3>2, <3>8, EmptySeq DEF IsSolid
  <2>. HIDE DEF mt
  <2>7. Trim((a \o mt) \o c) = mt
    BY <2>2, <2>6, TrimOfPadded
  <2>8. Trim(m) = mt
    BY <2>5, <2>7
  <2>. QED  BY <2>8 DEF m, mt, t
<1>. QED  BY <1>3, <1>4

\* The text that triggers is the same after such a function, but for what it makes of it.
LEMMA TriggerTextOfMapped ==
    ASSUME NEW S, NEW V, NEW f, IsMap(f, S, V), IsKeeping(f, S), NEW s \in Seq(S)
    PROVE  canonical_trigger_text(Mapped(s, f)) = Mapped(canonical_trigger_text(s), f)
<1>1. CASE (\A i \in 1..Len(s) : s[i] \in Skipped) /\ canonical_trigger_text(s) = Trim(s)
  <2> DEFINE m == Mapped(s, f)
  <2>1. m \in Seq(V) /\ Len(m) = Len(s) /\ \A i \in 1..Len(s) : m[i] = f[s[i]]
    BY MappedIsSeq
  <2>2. Trim(m) = Mapped(Trim(s), f)
    BY TrimOfMapped
  <2>. HIDE DEF m
  <2>3. \A i \in 1..Len(m) : m[i] \in Skipped
    <3>1. ASSUME NEW i \in 1..Len(s) PROVE m[i] \in Skipped
      <4>1. s[i] \in S /\ s[i] \in Skipped /\ m[i] = f[s[i]]
        BY <1>1, <2>1, ElementOfSeq
      <4>. QED  BY <4>1 DEF Skipped, IsKeeping
    <3>. QED  BY <2>1, <3>1
  <2>4. canonical_trigger_text(m) = Trim(m)
    <3>1. DOMAIN m = 1..Len(m)
      BY <2>1, LenProperties
    <3>2. {i \in DOMAIN m : m[i] \notin {"blank", "at_bot"}} = {}
      BY <2>3, <3>1 DEF Skipped
    <3>. QED  BY <3>2, Zenon DEF canonical_trigger_text
  <2>. QED  BY <1>1, <2>2, <2>4 DEF m
<1>2. ASSUME NEW a \in Seq(Skipped), NEW t \in Seq(S), s = a \o t, t # << >>,
             t[1] \notin Skipped, a \in Seq(S), canonical_trigger_text(s) = Trim(t)
      PROVE  canonical_trigger_text(Mapped(s, f)) = Mapped(canonical_trigger_text(s), f)
  <2> DEFINE mt == Mapped(t, f)
  <2>1. Mapped(a, f) = a
    <3>1. ASSUME NEW i \in 1..Len(a) PROVE f[a[i]] = a[i]
      <4>1. a[i] \in Skipped /\ a[i] \in S
        BY <1>2, ElementOfSeq
      <4>. QED  BY <4>1 DEF Skipped, IsKeeping
    <3>. QED  BY <1>2, <3>1, MappedSame
  <2>2. Mapped(a \o t, f) = a \o mt
    <3>1. Mapped(a \o t, f) = Mapped(a, f) \o Mapped(t, f)
      <4>1. a \in Seq(S) /\ t \in Seq(S)
        BY <1>2
      <4>. QED  BY ONLY <4>1, IsMap(f, S, V), MappedOfConcat
    <3>. QED  BY <2>1, <3>1
  <2>3. /\ mt \in Seq(V) /\ Len(mt) = Len(t) /\ \A i \in 1..Len(t) : mt[i] = f[t[i]]
    BY MappedIsSeq
  <2>4. Trim(mt) = Mapped(Trim(t), f)
    BY TrimOfMapped
  <2>. HIDE DEF mt
  <2>5. Len(t) \in Nat /\ Len(t) # 0 /\ 1 \in 1..Len(t)
    <3>1. Len(t) \in Nat /\ Len(t) # 0
      BY <1>2, LenProperties, EmptySeq
    <3>. QED  BY <3>1
  <2>6. mt # << >> /\ mt[1] \notin Skipped
    <3>1. t[1] \in S /\ mt[1] = f[t[1]]
      BY <2>3, <2>5, ElementOfSeq
    <3>2. mt[1] \notin Skipped
      BY <1>2, <3>1 DEF Skipped, IsKeeping
    <3>. QED  BY <2>3, <2>5, <3>2, EmptySeq
  <2>7. canonical_trigger_text(a \o mt) = Trim(mt)
    BY <1>2, <2>3, <2>6, TriggerTextOfPadded
  <2>. QED  BY <1>2, <2>2, <2>4, <2>7
<1>. QED  BY <1>1, <1>2, TriggerTextParts

-----------------------------------------------------------------------------
(* What is written in a text *)

Words == Written \cup {"special_escaped"}

rawToken == [k \in QqTokens |-> RawToken(k)]
unescaped == [k \in Tokens |-> IF k = "special_escaped" THEN "special" ELSE k]

\* The tokens of each platform are tokens, and no mention is a word.
LEMMA TokenSets ==
    /\ QqTokens \subseteq Tokens /\ WeChatTokens \subseteq Tokens /\ Words \subseteq Tokens
    /\ Mentions \subseteq Tokens /\ Others \subseteq Mentions
    /\ Written \subseteq Words /\ Mentions \cap Words = {}
BY DEF QqTokens, WeChatTokens, Tokens, Literals, Words, Written, Mentions, Others

\* Taking back what NapCat escaped makes words of words, and of nothing else.
LEMMA UnescapedIsMap ==
    /\ IsMap(unescaped, Tokens, Tokens)
    /\ \A x \in Tokens : unescaped[x] \in Written <=> x \in Words
    /\ \A x \in Words : x \in Tokens
<1>1. "special" \in Tokens
  BY DEF Tokens, Literals, Written
<1>2. \A x \in Tokens : unescaped[x] = IF x = "special_escaped" THEN "special" ELSE x
  BY DEF unescaped
<1>3. IsMap(unescaped, Tokens, Tokens)
  BY <1>1 DEF IsMap, unescaped
<1>4. \A x \in Tokens : unescaped[x] \in Written <=> x \in Words
  BY <1>2 DEF Written, Words
<1>. QED  BY <1>3, <1>4, TokenSets

\* It is applied to each token.
LEMMA UnescapedText ==
    ASSUME NEW s \in Seq(Tokens)
    PROVE  WrittenIn(s) = Those(Mapped(s, unescaped), Written)
<1>1. \A i \in DOMAIN s : s[i] \in Tokens
  BY LenProperties, ElementOfSeq
<1>2. Unescaped(s) = Mapped(s, unescaped)
  BY <1>1 DEF Unescaped, Mapped, unescaped
<1>. QED  BY <1>2 DEF WrittenIn

\* What is written in two texts is written in the one that they make.
LEMMA WrittenOfConcat ==
    ASSUME NEW a \in Seq(Tokens), NEW b \in Seq(Tokens)
    PROVE  a \o b \in Seq(Tokens) /\ WrittenIn(a \o b) = WrittenIn(a) \o WrittenIn(b)
<1> DEFINE m == Mapped(a, unescaped)
           n == Mapped(b, unescaped)
<1>1. m \in Seq(Tokens) /\ n \in Seq(Tokens)
  BY UnescapedIsMap, MappedIsSeq
<1>2. Mapped(a \o b, unescaped) = m \o n
  BY UnescapedIsMap, MappedOfConcat
<1>3. a \o b \in Seq(Tokens)
  BY ConcatProperties
<1>4. /\ WrittenIn(a \o b) = Those(Mapped(a \o b, unescaped), Written)
      /\ WrittenIn(a) = Those(m, Written) /\ WrittenIn(b) = Those(n, Written)
  BY <1>3, UnescapedText
<1>. HIDE DEF m, n
<1>5. Those(m \o n, Written) = Those(m, Written) \o Those(n, Written)
  BY <1>1, ThoseOfConcat
<1>. QED  BY <1>2, <1>3, <1>4, <1>5

\* Selecting all of the words loses nothing that is written.
LEMMA WrittenOfThose ==
    ASSUME NEW s \in Seq(Tokens), NEW T, Words \subseteq T
    PROVE  Those(s, T) \in Seq(Tokens) /\ WrittenIn(Those(s, T)) = WrittenIn(s)
<1>1. Those(s, T) \in Seq(Tokens)
  BY ThoseAreSeq
<1>2. \A x \in Tokens : unescaped[x] \in Written => x \in T
  BY UnescapedIsMap
<1>3. IsMap(unescaped, Tokens, Tokens)
  BY UnescapedIsMap
<1>4. Those(Mapped(Those(s, T), unescaped), Written) = Those(Mapped(s, unescaped), Written)
  BY ONLY <1>2, <1>3, s \in Seq(Tokens), ThoseOfMappedThose
<1>5. /\ WrittenIn(s) = Those(Mapped(s, unescaped), Written)
      /\ WrittenIn(Those(s, T)) = Those(Mapped(Those(s, T), unescaped), Written)
  BY <1>1, UnescapedText
<1>. QED  BY <1>1, <1>4, <1>5

\* Nothing is written where there is no word.
LEMMA NothingWritten ==
    ASSUME NEW s \in Seq(Tokens)
    PROVE  WrittenIn(s) = << >> <=> \A i \in 1..Len(s) : s[i] \notin Words
<1> DEFINE m == Mapped(s, unescaped)
<1>1. /\ m \in Seq(Tokens) /\ Len(m) = Len(s)
      /\ \A i \in 1..Len(s) : m[i] = unescaped[s[i]]
  BY UnescapedIsMap, MappedIsSeq
<1>2. WrittenIn(s) = Those(m, Written)
  BY UnescapedText
<1>. HIDE DEF m
<1>3. Those(m, Written) = << >> <=> \A i \in 1..Len(m) : m[i] \notin Written
  BY <1>1, ThoseAreBoth
<1>4. \A i \in 1..Len(s) : s[i] \in Tokens
  BY ElementOfSeq
<1>. QED  BY <1>1, <1>2, <1>3, <1>4, UnescapedIsMap

\* Trimming loses nothing that is written.
LEMMA WrittenOfTrim ==
    ASSUME NEW s \in Seq(Tokens)
    PROVE  Trim(s) \in Seq(Tokens) /\ WrittenIn(Trim(s)) = WrittenIn(s)
<1>1. Trim(s) \in Seq(Tokens)
  BY TrimType
<1>2. "blank" \notin Words
  BY DEF Words, Written
<1>3. CASE \A i \in 1..Len(s) : s[i] = "blank"
  <2> DEFINE e == << >>
  <2>1. e \in Seq(Tokens) /\ Len(e) = 0 /\ Trim(s) = e
    BY <1>3, EmptySeq, TrimOfBlanks
  <2>. HIDE DEF e
  <2>2. WrittenIn(e) = << >>
    <3>1. \A i \in 1..Len(e) : e[i] \notin Words
      BY <2>1
    <3>. QED  BY <2>1, <3>1, NothingWritten
  <2>3. WrittenIn(s) = << >>
    <3>1. \A i \in 1..Len(s) : s[i] \notin Words
      BY <1>2, <1>3
    <3>. QED  BY <3>1, NothingWritten
  <2>. QED  BY <1>1, <2>1, <2>2, <2>3
<1>4. CASE \E i \in 1..Len(s) : s[i] # "blank"
  <2> DEFINE t == Trim(s)
  <2>1. PICK a \in Seq(Blanks), c \in Seq(Blanks) :
          s = a \o t \o c /\ a \in Seq(Tokens) /\ c \in Seq(Tokens)
    BY <1>4, TrimmedText
  <2>2. t \in Seq(Tokens)
    BY <1>1
  <2>. HIDE DEF t
  <2>3. ASSUME NEW b \in Seq(Blanks), b \in Seq(Tokens) PROVE WrittenIn(b) = << >>
    <3>1. \A i \in 1..Len(b) : b[i] = "blank"
      BY ElementOfSeq DEF Blanks
    <3>. QED  BY <1>2, <2>3, <3>1, NothingWritten
  <2>4. WrittenIn(a) = << >> /\ WrittenIn(c) = << >>
    BY <2>1, <2>3
  <2>5. a \o t \in Seq(Tokens) /\ WrittenIn(a \o t) = << >> \o WrittenIn(t)
    <3>1. a \o t \in Seq(Tokens) /\ WrittenIn(a \o t) = WrittenIn(a) \o WrittenIn(t)
      <4>1. a \in Seq(Tokens) /\ t \in Seq(Tokens)
        BY <2>1, <2>2
      <4>. QED  BY ONLY <4>1, WrittenOfConcat
    <3>. QED  BY <2>4, <3>1
  <2> DEFINE u == a \o t
  <2>6. WrittenIn(u \o c) = WrittenIn(u) \o << >>
    <3>1. u \in Seq(Tokens)
      BY <2>5
    <3>. HIDE DEF u
    <3>. QED  BY <2>1, <2>4, <3>1, WrittenOfConcat
  <2>7. WrittenIn(t) \in Seq(Tokens)
    <3>1. Mapped(t, unescaped) \in Seq(Tokens)
      BY <2>2, UnescapedIsMap, MappedIsSeq
    <3>. QED  BY <2>2, <3>1, UnescapedText, ThoseAreSeq
  <2>8. << >> \o WrittenIn(t) = WrittenIn(t) /\ WrittenIn(t) \o << >> = WrittenIn(t)
    BY <2>7, ConcatEmptySeq
  <2>. QED  BY <1>1, <2>1, <2>5, <2>6, <2>8 DEF t
<1>. QED  BY <1>3, <1>4

\* Leaving something out is selecting the rest.
LEMMA WithoutIsThose ==
    ASSUME NEW S, NEW s \in Seq(S), NEW X
    PROVE  Without(s, X) = Those(s, S \ X)
<1>1. ToSet(s) \subseteq S
  BY OwnElements
<1>2. ToSet(s) \ X = ToSet(s) \cap (S \ X)
  BY <1>1
<1>3. Those(s, ToSet(s) \cap (S \ X)) = Those(s, S \ X)
  BY ThoseOfElements
<1>. QED  BY <1>2, <1>3 DEF Without

\* Nor does leaving out what is no word.
LEMMA WrittenOfWithout ==
    ASSUME NEW s \in Seq(Tokens), NEW X, X \cap Words = {}
    PROVE  Without(s, X) \in Seq(Tokens) /\ WrittenIn(Without(s, X)) = WrittenIn(s)
<1>1. Words \subseteq Tokens \ X
  BY TokenSets
<1>2. Without(s, X) = Those(s, Tokens \ X)
  BY WithoutIsThose
<1>. QED  BY <1>1, <1>2, WrittenOfThose

-----------------------------------------------------------------------------
(* The parts of a QQ message *)

Has(s, T) == \E i \in 1..Len(s) : s[i] \in T

\* A text has a token when it is selected.
LEMMA HasThose ==
    ASSUME NEW S, NEW s \in Seq(S), NEW T
    PROVE  /\ Has(s, T) <=> Those(s, T) # << >>
           /\ Has(s, T) <=> ToSet(s) \cap T # {}
<1>1. Those(s, T) = << >> <=> \A i \in 1..Len(s) : s[i] \notin T
  BY ThoseAreBoth
<1>2. Has(s, T) <=> Those(s, T) # << >>
  BY <1>1 DEF Has
<1>. QED  BY <1>2, MembersAreThose

\* Two texts have what one of them has.
LEMMA HasConcat ==
    ASSUME NEW S, NEW a \in Seq(S), NEW b \in Seq(S), NEW T
    PROVE  Has(a \o b, T) <=> Has(a, T) \/ Has(b, T)
<1> DEFINE x == Those(a, T)
           y == Those(b, T)
<1>1. a \o b \in Seq(S) /\ Those(a \o b, T) = x \o y /\ x \in Seq(S) /\ y \in Seq(S)
  BY ConcatProperties, ThoseOfConcat, ThoseAreSeq
<1>2. (Has(a, T) <=> x # << >>) /\ (Has(b, T) <=> y # << >>)
  BY HasThose
<1>3. Has(a \o b, T) <=> Those(a \o b, T) # << >>
  BY <1>1, HasThose
<1>. HIDE DEF x, y
<1>4. x \o y # << >> <=> x # << >> \/ y # << >>
  BY <1>1, EmptySeq, ConcatProperties, LenProperties
<1>. QED  BY <1>1, <1>2, <1>3, <1>4

\* What raw_message makes of each token.
LEMMA RawTokens ==
    /\ IsMap(rawToken, QqTokens, Tokens)
    /\ IsKeeping(rawToken, QqTokens)
    /\ \A x \in QqTokens :
         /\ rawToken[x] \in Mentions <=> x \in Mentions
         /\ x \in Mentions => rawToken[x] = x
         /\ rawToken[x] = "command" <=> x = "command"
         /\ rawToken[x] = "blank" <=> x = "blank"
         /\ rawToken[x] = "quote_code" <=> x = "quote"
         /\ x \notin {"picture", "quote", "special"} => rawToken[x] = x
         /\ rawToken[x] = "special_escaped" <=> x = "special"
         /\ rawToken[x] \in Written => x \in Written /\ rawToken[x] = x
<1>1. \A x \in QqTokens : rawToken[x] = RawToken(x)
  BY DEF rawToken
<1>2. \A x \in QqTokens :
        x \in {"words", "command", "special", "at_bot", "at_other", "at_third", "blank",
               "picture", "quote"}
  BY DEF QqTokens, Written, Mentions, Others
<1>3. \A x \in QqTokens :
        /\ x = "special" => rawToken[x] = "special_escaped"
        /\ x = "picture" => rawToken[x] = "picture_code"
        /\ x = "quote" => rawToken[x] = "quote_code"
        /\ x \notin {"picture", "quote", "special"} => rawToken[x] = x
  BY <1>1 DEF RawToken
<1>4. \A x \in QqTokens : rawToken[x] \in Tokens
  BY <1>2, <1>3, TokenSets DEF Tokens, Literals
<1>5. IsMap(rawToken, QqTokens, Tokens)
  BY <1>4 DEF IsMap, rawToken
<1>6. IsKeeping(rawToken, QqTokens)
  BY <1>2, <1>3 DEF IsKeeping
<1>7. \A x \in QqTokens :
         /\ rawToken[x] \in Mentions <=> x \in Mentions
         /\ x \in Mentions => rawToken[x] = x
         /\ rawToken[x] = "command" <=> x = "command"
         /\ rawToken[x] = "blank" <=> x = "blank"
         /\ rawToken[x] = "quote_code" <=> x = "quote"
         /\ rawToken[x] = "special_escaped" <=> x = "special"
         /\ rawToken[x] \in Written => x \in Written /\ rawToken[x] = x
  BY <1>2, <1>3 DEF Mentions, Others, Written
<1>. QED  BY <1>3, <1>5, <1>6, <1>7

\* What a QQ message says is in raw_message too.
LEMMA RawText ==
    ASSUME NEW p, p.message.text \in Seq(QqTokens)
    PROVE  LET text == p.message.text
               raw == raw_message(p)
           IN /\ raw = Mapped(text, rawToken) /\ raw \in Seq(Tokens)
              /\ Len(raw) = Len(text)
              /\ \A i \in 1..Len(text) : text[i] \in QqTokens /\ raw[i] = rawToken[text[i]]
              /\ \A U \in SUBSET Mentions : Those(raw, U) = Those(text, U)
              /\ WrittenIn(raw) = WrittenIn(text)
              /\ text \in Seq(Tokens)
<1> DEFINE text == p.message.text
           raw == raw_message(p)
           both == [k \in QqTokens |-> unescaped[rawToken[k]]]
<1>1. DOMAIN text = 1..Len(text) /\ \A i \in 1..Len(text) : text[i] \in QqTokens
  BY LenProperties, ElementOfSeq
<1>2. raw = Mapped(text, rawToken)
  BY <1>1 DEF raw_message, Mapped, rawToken
<1>. HIDE DEF raw
<1>3. /\ raw \in Seq(Tokens) /\ Len(raw) = Len(text)
      /\ \A i \in 1..Len(text) : raw[i] = rawToken[text[i]]
  BY <1>2, RawTokens, MappedIsSeq
<1>4. ASSUME NEW U \in SUBSET Mentions PROVE Those(raw, U) = Those(text, U)
  <2>1. \A x \in QqTokens : (rawToken[x] \in U <=> x \in U) /\ (x \in U => rawToken[x] = x)
    BY RawTokens
  <2>2. IsMap(rawToken, QqTokens, Tokens)
    BY RawTokens
  <2>3. Those(Mapped(text, rawToken), U) = Those(text, U)
    <3>1. text \in Seq(QqTokens)
      OBVIOUS
    <3>. HIDE DEF text
    <3>. QED  BY ONLY <2>1, <2>2, <3>1, ThoseOfMapped
  <2>. QED  BY <1>2, <2>3
<1>5. text \in Seq(Tokens)
  BY SeqMonotonic, TokenSets
<1>6. WrittenIn(raw) = WrittenIn(text)
  <2>1. \A x \in QqTokens : x \in Tokens /\ x # "special_escaped"
    BY TokenSets DEF QqTokens, Written, Mentions, Others
  <2>2. \A x \in QqTokens : unescaped[x] = x
    BY <2>1 DEF unescaped
  <2>3. \A x \in QqTokens : both[x] \in Written <=> x \in Written
    <3>1. ASSUME NEW x \in QqTokens PROVE both[x] \in Written <=> x \in Written
      <4>1. both[x] = unescaped[rawToken[x]] /\ rawToken[x] \in Tokens
        BY RawTokens DEF IsMap
      <4>2. unescaped[rawToken[x]] \in Written <=> rawToken[x] \in Words
        BY <4>1, UnescapedIsMap
      <4>3. rawToken[x] \in Words <=> x \in Written
        BY RawTokens DEF Words, Written
      <4>. QED  BY <4>1, <4>2, <4>3
    <3>. QED  BY <3>1
  <2>4. \A x \in QqTokens : x \in Written => both[x] = x
    <3>1. ASSUME NEW x \in QqTokens, x \in Written PROVE both[x] = x
      <4>1. both[x] = unescaped[rawToken[x]] /\ rawToken[x] \in Tokens
        BY RawTokens DEF IsMap
      <4>2. CASE x = "special"
        BY <4>1, <4>2, RawTokens DEF unescaped
      <4>3. CASE x # "special"
        <5>1. rawToken[x] = x
          BY <3>1, <4>3, RawTokens DEF Written
        <5>. QED  BY <4>1, <5>1, <2>2
      <4>. QED  BY <4>2, <4>3
    <3>. QED  BY <3>1
  <2>5. \A x \in QqTokens : both[x] \in Tokens
    BY RawTokens, UnescapedIsMap DEF IsMap
  <2>6. IsMap(both, QqTokens, Tokens)
    BY <2>5 DEF IsMap
  <2>7. \A x \in QqTokens : both[x] = unescaped[rawToken[x]]
    OBVIOUS
  <2> DEFINE m == Mapped(raw, unescaped)
             n == Mapped(text, both)
             o == Mapped(text, unescaped)
  <2>8. /\ m \in Seq(Tokens) /\ Len(m) = Len(raw)
        /\ \A i \in 1..Len(raw) : m[i] = unescaped[raw[i]]
    BY <1>3, UnescapedIsMap, MappedIsSeq
  <2>9. /\ n \in Seq(Tokens) /\ Len(n) = Len(text)
        /\ \A i \in 1..Len(text) : n[i] = both[text[i]]
    BY <2>6, MappedIsSeq
  <2>10. /\ o \in Seq(Tokens) /\ Len(o) = Len(text)
         /\ \A i \in 1..Len(text) : o[i] = unescaped[text[i]]
    BY <1>5, UnescapedIsMap, MappedIsSeq
  <2>11. WrittenIn(raw) = Those(m, Written) /\ WrittenIn(text) = Those(o, Written)
    BY <1>3, <1>5, UnescapedText
  <2>12. Those(n, Written) = Those(text, Written)
    <3>1. text \in Seq(QqTokens)
      OBVIOUS
    <3>. HIDE DEF text, both
    <3>2. \A x \in QqTokens : (both[x] \in Written <=> x \in Written) /\ (x \in Written => both[x] = x)
      BY <2>3, <2>4
    <3>. QED  BY ONLY <2>6, <3>1, <3>2, ThoseOfMapped
  <2>. HIDE DEF m, n, o, both
  <2>13. m = n
    <3>1. \A i \in 1..Len(m) : m[i] = n[i]
      BY <1>1, <1>3, <2>7, <2>8, <2>9
    <3>. QED  BY <1>3, <2>8, <2>9, <3>1, SeqEqual
  <2>14. o = text
    <3>1. \A i \in 1..Len(o) : o[i] = text[i]
      BY <1>1, <2>2, <2>10
    <3>. QED  BY <1>5, <2>10, <3>1, SeqEqual
  <2>. QED  BY <2>11, <2>12, <2>13, <2>14
<1>. QED  BY <1>1, <1>2, <1>3, <1>4, <1>5, <1>6 DEF raw

\* The parts of raw_message: up to the last mention, and the rest without reply codes.
LEMMA RawParts ==
    ASSUME NEW p, p.message.text \in Seq(QqTokens)
    PROVE  \E x \in Seq(Tokens), y \in Seq(Tokens) :
             /\ raw_message(p) = x \o y /\ (x # << >> => Has(x, Mentions))
             /\ parse_raw_message_parts(p) = x \o Those(y, Tokens \ {"quote_code"})
<1> DEFINE raw == raw_message(p)
           ats == {i \in DOMAIN raw : raw[i] \in Mentions}
           last == IF ats = {} THEN 0 ELSE Max(ats)
           x == SubSeq(raw, 1, last)
           y == SubSeq(raw, last + 1, Len(raw))
<1>1. raw \in Seq(Tokens)
  BY RawText
<1>2. parse_raw_message_parts(p) = x \o Without(y, {"quote_code"})
  BY Zenon DEF parse_raw_message_parts
<1>. HIDE DEF raw
<1>3. Len(raw) \in Nat /\ ats \in SUBSET (1..Len(raw))
  BY <1>1, LenProperties
<1>4. ats # {} => last \in ats
  <2>. HIDE DEF ats
  <2>. QED  BY <1>3, MaxOfSome
<1>5. last \in 0..Len(raw)
  BY <1>3, <1>4
<1>6. ats = {} => last = 0
  OBVIOUS
<1>7. last # 0 => raw[last] \in Mentions /\ last \in 1..last
  BY <1>4, <1>5, <1>6
<1>. HIDE DEF last
<1>8. /\ x \in Seq(Tokens) /\ Len(x) = last /\ (\A i \in 1..last : x[i] = raw[i])
      /\ y \in Seq(Tokens) /\ raw = x \o y
  BY <1>1, <1>5, CutSeq
<1>. HIDE DEF x, y
<1>9. x # << >> => Has(x, Mentions)
  BY <1>5, <1>7, <1>8, EmptySeq DEF Has
<1>10. Without(y, {"quote_code"}) = Those(y, Tokens \ {"quote_code"})
  BY <1>8, WithoutIsThose
<1>. QED  BY <1>2, <1>8, <1>9, <1>10 DEF raw

\* They say what the text says.
LEMMA Fallback ==
    ASSUME NEW p, p.message.text \in Seq(QqTokens)
    PROVE  LET text == p.message.text
               parts == parse_raw_message_parts(p)
           IN /\ parts \in Seq(Tokens)
              /\ \A U \in SUBSET Mentions : Those(parts, U) = Those(text, U)
              /\ WrittenIn(parts) = WrittenIn(text)
              /\ Has(parts, Tokens \ {"blank"}) <=> Has(text, Tokens \ {"blank", "quote"})
              /\ parts = << >> => \A i \in 1..Len(text) : text[i] = "quote"
              /\ (\A i \in 1..Len(text) : text[i] # "quote") => parts = raw_message(p)
<1> DEFINE text == p.message.text
           raw == raw_message(p)
           parts == parse_raw_message_parts(p)
           T == Tokens \ {"quote_code"}
<1>1. /\ raw \in Seq(Tokens) /\ Len(raw) = Len(text)
      /\ \A i \in 1..Len(text) : text[i] \in QqTokens /\ raw[i] = rawToken[text[i]]
      /\ \A U \in SUBSET Mentions : Those(raw, U) = Those(text, U)
      /\ WrittenIn(raw) = WrittenIn(text)
      /\ text \in Seq(Tokens)
  BY RawText
<1>2. PICK x \in Seq(Tokens), y \in Seq(Tokens) :
        raw = x \o y /\ (x # << >> => Has(x, Mentions)) /\ parts = x \o Those(y, T)
  BY RawParts
<1> DEFINE z == Those(y, T)
<1>3. z \in Seq(Tokens) /\ z \in Seq(Tokens \cap T)
  BY ThoseAreSeq, ThoseAreBoth
<1>. HIDE DEF text, raw, parts, T
<1>4. ASSUME NEW U, \A k \in Tokens : k \in U => k \in T PROVE Those(z, U) = Those(y, U)
  BY ONLY <1>4, <1>2, ThoseOfThose
<1>. HIDE DEF z
<1>5. parts = x \o z /\ parts \in Seq(Tokens)
  BY <1>2, <1>3, ConcatProperties DEF z
<1>6. ASSUME NEW U, \A k \in Tokens : k \in U => k \in T PROVE Those(parts, U) = Those(raw, U)
  <2>1. Those(z, U) = Those(y, U)
    BY <1>4, <1>6
  <2>2. /\ Those(x \o z, U) = Those(x, U) \o Those(z, U)
        /\ Those(x \o y, U) = Those(x, U) \o Those(y, U)
    BY <1>3, ThoseOfConcat
  <2>. QED  BY <1>2, <1>5, <2>1, <2>2
<1>7. ASSUME NEW U \in SUBSET Mentions PROVE Those(parts, U) = Those(text, U)
  <2>1. \A k \in Tokens : k \in U => k \in T
    BY DEF T, Mentions, Others
  <2>. QED  BY <1>1, <1>6, <2>1
<1>8. WrittenIn(parts) = WrittenIn(text)
  <2>1. Words \subseteq T
    BY TokenSets DEF T, Words, Written
  <2>2. WrittenIn(z) = WrittenIn(y)
    BY <2>1, WrittenOfThose DEF z
  <2>3. /\ WrittenIn(x \o z) = WrittenIn(x) \o WrittenIn(z)
        /\ WrittenIn(x \o y) = WrittenIn(x) \o WrittenIn(y)
    BY <1>3, WrittenOfConcat
  <2>. QED  BY <1>1, <1>2, <1>5, <2>2, <2>3
<1>9. Has(parts, Tokens \ {"blank", "quote_code"}) <=> Has(text, Tokens \ {"blank", "quote"})
  <2> DEFINE U == Tokens \ {"blank", "quote_code"}
  <2>1. Those(parts, U) = Those(raw, U)
    BY <1>6 DEF T
  <2>2. (Has(parts, U) <=> Those(parts, U) # << >>) /\ (Has(raw, U) <=> Those(raw, U) # << >>)
    BY <1>1, <1>5, HasThose
  <2>3. ASSUME NEW i \in 1..Len(text)
        PROVE  raw[i] \in U <=> text[i] \in Tokens \ {"blank", "quote"}
    <3>1. text[i] \in QqTokens /\ raw[i] = rawToken[text[i]] /\ text[i] \in Tokens
      BY <1>1, TokenSets
    <3>2. raw[i] \in Tokens
      BY <3>1, RawTokens DEF IsMap
    <3>. QED  BY <3>1, <3>2, RawTokens
  <2>4. Has(raw, U) <=> Has(text, Tokens \ {"blank", "quote"})
    BY <1>1, <2>3 DEF Has
  <2>. QED  BY <2>1, <2>2, <2>4
<1>10. Has(parts, Tokens \ {"blank"}) <=> Has(parts, Tokens \ {"blank", "quote_code"})
  <2>1. ASSUME Has(parts, Tokens \ {"blank"}) PROVE Has(parts, Tokens \ {"blank", "quote_code"})
    <3>1. Has(x, Tokens \ {"blank"}) \/ Has(z, Tokens \ {"blank"})
      BY <1>3, <1>5, <2>1, HasConcat
    <3>2. CASE Has(z, Tokens \ {"blank"})
      <4>1. \A i \in 1..Len(z) : z[i] \in Tokens \cap T
        BY <1>3, ElementOfSeq
      <4>2. Has(z, Tokens \ {"blank", "quote_code"})
        BY <3>2, <4>1 DEF Has, T
      <4>. QED  BY <1>3, <1>5, <4>2, HasConcat
    <3>3. CASE Has(x, Tokens \ {"blank"})
      <4>1. Len(x) # 0
        BY <3>3, LenProperties DEF Has
      <4>2. Has(x, Mentions)
        BY <1>2, <4>1, EmptySeq
      <4>3. \A k \in Mentions : k \in Tokens \ {"blank", "quote_code"}
        BY TokenSets DEF Mentions, Others
      <4>4. Has(x, Tokens \ {"blank", "quote_code"})
        BY <4>2, <4>3 DEF Has
      <4>. QED  BY <1>3, <1>5, <4>4, HasConcat
    <3>. QED  BY <3>1, <3>2, <3>3
  <2>2. ASSUME Has(parts, Tokens \ {"blank", "quote_code"}) PROVE Has(parts, Tokens \ {"blank"})
    BY <2>2 DEF Has
  <2>. QED  BY <2>1, <2>2
<1>11. ASSUME parts = << >> PROVE \A i \in 1..Len(text) : text[i] = "quote"
  <2>1. x = << >> /\ z = << >>
    <3>1. Len(x \o z) = Len(x) + Len(z) /\ Len(x) \in Nat /\ Len(z) \in Nat
      BY <1>3, ConcatProperties, LenProperties
    <3>2. Len(x \o z) = 0
      BY <1>5, <1>11, EmptySeq
    <3>3. Len(x) = 0 /\ Len(z) = 0
      BY <3>1, <3>2
    <3>. QED  BY <1>3, <3>3, EmptySeq
  <2>2. raw = y
    BY <1>2, <2>1, ConcatEmptySeq
  <2>3. \A i \in 1..Len(y) : y[i] \notin T
    BY <2>1, ThoseAreBoth DEF z
  <2>4. ASSUME NEW i \in 1..Len(text) PROVE text[i] = "quote"
    <3>1. text[i] \in QqTokens /\ raw[i] = rawToken[text[i]] /\ raw[i] \notin T
      BY <1>1, <2>2, <2>3
    <3>2. raw[i] \in Tokens
      BY <3>1, RawTokens DEF IsMap
    <3>. QED  BY <3>1, <3>2, RawTokens DEF T
  <2>. QED  BY <2>4
<1>12. ASSUME \A i \in 1..Len(text) : text[i] # "quote" PROVE parts = raw
  <2>1. ~Has(raw, {"quote_code"})
    BY <1>1, <1>12, RawTokens DEF Has
  <2>2. ~Has(y, {"quote_code"})
    BY <1>2, <2>1, HasConcat
  <2>3. \A i \in 1..Len(y) : y[i] \in T
    BY <2>2, ElementOfSeq DEF Has, T
  <2>4. z = y
    BY <2>3, ThoseAreBoth DEF z
  <2>. QED  BY <1>2, <1>5, <2>4
<1>. QED  BY <1>5, <1>7, <1>8, <1>9, <1>10, <1>11, <1>12 DEF parts, text, raw

QqPayload(p) == p.message.text \in Seq(QqTokens) /\ p.shape \in QqShapes

\* What the segments say besides pictures and quotes.
LEMMA ParsedParts ==
    ASSUME NEW p, QqPayload(p)
    PROVE  LET text == p.message.text
               parsed == parse_message_parts(p)
           IN /\ parsed \in Seq(Tokens)
              /\ p.shape = "array" => parsed = Those(text, Tokens \ {"picture", "quote"})
              /\ p.shape # "array" => ~Has(parsed, Mentions)
              /\ (\A i \in 1..Len(text) : text[i] = "quote") => parsed = << >>
<1> DEFINE text == p.message.text
           segs == segments(p)
           parsed == parse_message_parts(p)
           M == Tokens \ Mentions
           T == Tokens \ {"picture", "quote"}
<1>1. text \in Seq(Tokens)
  BY RawText DEF QqPayload
<1>2. parsed = Without(segs, {"picture", "quote"})
  BY DEF parse_message_parts
<1>3. /\ p.shape = "array" => segs = text
      /\ p.shape = "array_without_mentions" => segs = Without(text, Mentions)
      /\ p.shape = "string" => segs = << >>
  BY DEF segments
<1>4. Without(text, Mentions) = Those(text, M)
  BY <1>1, WithoutIsThose
<1>5. Those(text, M) \in Seq(Tokens) /\ Those(text, M) \in Seq(Tokens \cap M) /\ << >> \in Seq(Tokens)
  <2>. HIDE DEF M, text
  <2>. QED  BY <1>1, ThoseAreSeq, ThoseAreBoth, EmptySeq
<1>6. segs \in Seq(Tokens)
  BY <1>1, <1>3, <1>4, <1>5 DEF QqPayload, QqShapes
<1>. HIDE DEF segs, parsed
<1>7. parsed = Those(segs, T)
  BY <1>2, <1>6, WithoutIsThose
<1>8. parsed \in Seq(Tokens)
  BY <1>6, <1>7, ThoseAreSeq
<1>9. ASSUME p.shape # "array" PROVE ~Has(parsed, Mentions)
  <2>1. CASE segs = << >>
    <3>1. parsed = << >>
      BY <1>7, <2>1, ThoseOfNone
    <3>. QED  BY <1>8, <3>1, EmptySeq DEF Has
  <2>2. CASE segs = Those(text, M)
    <3>1. segs \in Seq(Tokens \cap M)
      BY <1>5, <2>2
    <3>2. parsed \in Seq(Tokens \cap M)
      BY <1>7, <3>1, ThoseAreSeq
    <3>3. \A i \in 1..Len(parsed) : parsed[i] \in Tokens \cap M
      BY <3>2, ElementOfSeq
    <3>. QED  BY <3>3 DEF Has
  <2>. QED  BY <1>3, <1>4, <1>9, <2>1, <2>2 DEF QqPayload, QqShapes
<1>10. ASSUME \A i \in 1..Len(text) : text[i] = "quote" PROVE parsed = << >>
  <2>1. \A i \in 1..Len(text) : text[i] \in {"quote"}
    BY <1>10
  <2>2. \A i \in 1..Len(segs) : segs[i] \in {"quote"}
    <3>1. CASE segs = << >>
      BY <1>6, <3>1, EmptySeq
    <3>2. CASE segs = text
      BY <2>1, <3>2
    <3>3. CASE segs = Those(text, M)
      <4>1. text \in Seq({"quote"})
        BY <1>1, <2>1, IsASeq
      <4>2. segs \in Seq({"quote"})
        BY <3>3, <4>1, ThoseAreSeq
      <4>. QED  BY <4>2, ElementOfSeq
    <3>. QED  BY <1>3, <1>4, <3>1, <3>2, <3>3 DEF QqPayload, QqShapes
  <2>3. \A i \in 1..Len(segs) : segs[i] \notin T
    BY <2>2
  <2>. HIDE DEF T
  <2>. QED  BY <1>6, <1>7, <2>3, ThoseAreBoth
<1>. QED  BY <1>3, <1>7, <1>8, <1>9, <1>10 DEF parsed

\* Where the segments mention nobody they count for nothing.
LEMMA QqPartsAre ==
    ASSUME NEW p, QqPayload(p)
    PROVE  LET text == p.message.text IN
           \/ qq_parts(p) = parse_raw_message_parts(p)
           \/ Has(text, Mentions) /\ qq_parts(p) = Those(text, Tokens \ {"picture", "quote"})
<1> DEFINE text == p.message.text
           parsed == parse_message_parts(p)
           fallback == parse_raw_message_parts(p)
           parts == qq_parts(p)
<1>1. /\ parsed \in Seq(Tokens)
      /\ p.shape = "array" => parsed = Those(text, Tokens \ {"picture", "quote"})
      /\ p.shape # "array" => ~Has(parsed, Mentions)
      /\ (\A i \in 1..Len(text) : text[i] = "quote") => parsed = << >>
  BY ParsedParts
<1>2. fallback = << >> => \A i \in 1..Len(text) : text[i] = "quote"
  BY Fallback DEF QqPayload
<1>3. parts = IF TokensOf(parsed) \cap Mentions = {} /\ fallback # << >> THEN fallback ELSE parsed
  BY Zenon DEF qq_parts
<1>4. text \in Seq(Tokens)
  BY RawText DEF QqPayload
<1>. HIDE DEF parsed, fallback, parts, text
<1>5. TokensOf(parsed) \cap Mentions = {} <=> ~Has(parsed, Mentions)
  BY <1>1, HasThose DEF TokensOf
<1>6. CASE ~Has(parsed, Mentions)
  BY <1>1, <1>2, <1>3, <1>5, <1>6 DEF fallback, parts
<1>7. CASE Has(parsed, Mentions)
  <2>1. parsed = Those(text, Tokens \ {"picture", "quote"})
    BY <1>1, <1>7
  <2>2. \A x \in Tokens : x \in Mentions => x \in Tokens \ {"picture", "quote"}
    BY DEF Mentions, Others
  <2>3. Those(parsed, Mentions) = Those(text, Mentions)
    BY <1>4, <2>1, <2>2, ThoseOfThose
  <2>4. Has(text, Mentions)
    BY <1>1, <1>4, <1>7, <2>3, HasThose
  <2>. QED  BY <1>3, <1>5, <1>7, <2>1, <2>4 DEF parts, text
<1>. QED  BY <1>6, <1>7 DEF fallback, parts, text

\* The parts of a message say what its text says, whatever its shape.
LEMMA QqPartsSay ==
    ASSUME NEW p, QqPayload(p)
    PROVE  LET text == p.message.text
               parts == qq_parts(p)
           IN /\ parts \in Seq(Tokens) /\ text \in Seq(Tokens)
              /\ \A U \in SUBSET Mentions : Those(parts, U) = Those(text, U)
              /\ WrittenIn(parts) = WrittenIn(text)
              /\ Has(parts, Tokens \ {"blank"}) <=> Has(text, Tokens \ {"blank", "quote"})
              /\ ~Has(text, {"picture", "quote"}) => parts \in {text, raw_message(p)}
<1> DEFINE text == p.message.text
           parts == qq_parts(p)
           fallback == parse_raw_message_parts(p)
           T == Tokens \ {"picture", "quote"}
<1>1. text \in Seq(Tokens)
  BY RawText DEF QqPayload
<1>2. ~Has(text, {"picture", "quote"}) => \A i \in 1..Len(text) : text[i] \notin {"picture", "quote"}
  BY DEF Has
<1>3. CASE parts = fallback
  <2>1. /\ fallback \in Seq(Tokens)
        /\ \A U \in SUBSET Mentions : Those(fallback, U) = Those(text, U)
        /\ WrittenIn(fallback) = WrittenIn(text)
        /\ Has(fallback, Tokens \ {"blank"}) <=> Has(text, Tokens \ {"blank", "quote"})
        /\ (\A i \in 1..Len(text) : text[i] # "quote") => fallback = raw_message(p)
    BY Fallback DEF QqPayload
  <2>. HIDE DEF text, parts, fallback
  <2>. QED  BY <1>1, <1>2, <1>3, <2>1 DEF text, parts
<1>4. CASE Has(text, Mentions) /\ parts = Those(text, T)
  <2>. HIDE DEF text, parts, fallback, T
  <2>1. parts \in Seq(Tokens)
    BY <1>1, <1>4, ThoseAreSeq
  <2>2. ASSUME NEW U \in SUBSET Mentions PROVE Those(parts, U) = Those(text, U)
    <3>1. \A x \in Tokens : x \in U => x \in T
      BY DEF T, Mentions, Others
    <3>. QED  BY <1>1, <1>4, <3>1, ThoseOfThose
  <2>3. WrittenIn(parts) = WrittenIn(text)
    <3>1. Words \subseteq T
      BY TokenSets DEF T, Words, Written
    <3>. QED  BY <1>1, <1>4, <3>1, WrittenOfThose
  <2>4. Has(text, Tokens \ {"blank", "quote"}) /\ Has(parts, Tokens \ {"blank"})
    <3>1. Those(parts, Mentions) = Those(text, Mentions)
      BY <2>2
    <3>2. Has(parts, Mentions)
      BY <1>1, <1>4, <2>1, <3>1, HasThose
    <3>3. \A x \in Mentions : x \in Tokens \ {"blank", "quote"}
      BY TokenSets DEF Mentions, Others
    <3>. QED  BY <1>4, <3>2, <3>3 DEF Has
  <2>5. ASSUME ~Has(text, {"picture", "quote"}) PROVE parts = text
    <3>1. \A i \in 1..Len(text) : text[i] \in T
      BY <1>1, <2>5, ElementOfSeq DEF Has, T
    <3>. QED  BY <1>1, <1>4, <3>1, ThoseAreBoth
  <2>. QED  BY <1>1, <2>1, <2>2, <2>3, <2>4, <2>5 DEF text, parts
<1>. QED  BY <1>3, <1>4, QqPartsAre

\* What quotes is in raw_message as well.
LEMMA QqReplies ==
    ASSUME NEW p, QqPayload(p)
    PROVE  qq_reply_to(p) <=> Has(p.message.text, {"quote"})
<1> DEFINE text == p.message.text
           raw == raw_message(p)
           segs == segments(p)
<1>1. /\ text \in Seq(Tokens) /\ raw \in Seq(Tokens) /\ Len(raw) = Len(text)
      /\ \A i \in 1..Len(text) : text[i] \in QqTokens /\ raw[i] = rawToken[text[i]]
  BY RawText DEF QqPayload
<1>2. segs = text \/ segs = Without(text, Mentions) \/ segs = << >>
  BY DEF segments, QqPayload, QqShapes
<1>3. qq_reply_to(p) = ("quote" \in ToSet(segs) \/ "quote_code" \in ToSet(raw))
  BY DEF qq_reply_to, TokensOf
<1>. HIDE DEF text, raw, segs
<1>4. "quote_code" \in ToSet(raw) <=> Has(text, {"quote"})
  <2>1. ToSet(raw) \cap {"quote_code"} # {} <=> Has(raw, {"quote_code"})
    BY <1>1, HasThose
  <2>2. Has(raw, {"quote_code"}) <=> Has(text, {"quote"})
    BY <1>1, RawTokens DEF Has
  <2>. QED  BY <2>1, <2>2
<1>5. ASSUME "quote" \in ToSet(segs) PROVE Has(text, {"quote"})
  <2>1. Without(text, Mentions) = Those(text, Tokens \ Mentions)
    BY <1>1, WithoutIsThose
  <2>2. << >> \in Seq(Tokens) /\ Those(text, Tokens \ Mentions) \in Seq(Tokens)
    BY <1>1, EmptySeq, ThoseAreSeq
  <2>3. segs \in Seq(Tokens)
    BY <1>1, <1>2, <2>1, <2>2
  <2>4. Has(segs, {"quote"})
    <3>1. ToSet(segs) \cap {"quote"} # {}
      BY <1>5
    <3>. QED  BY <2>3, <3>1, HasThose
  <2>5. CASE segs = << >>
    BY <2>3, <2>4, <2>5, EmptySeq DEF Has
  <2>6. CASE segs = Those(text, Tokens \ Mentions)
    <3>1. \A x \in Tokens : x \in {"quote"} => x \in Tokens \ Mentions
      BY DEF Mentions, Others
    <3>2. Those(segs, {"quote"}) = Those(text, {"quote"})
      BY <1>1, <2>6, <3>1, ThoseOfThose
    <3>. QED  BY <1>1, <2>3, <2>4, <3>2, HasThose
  <2>. QED  BY <1>2, <2>1, <2>4, <2>5, <2>6
<1>. QED  BY <1>3, <1>4, <1>5 DEF text

\* The command is found between white space, and after a mention of the bot.
LEMMA CommandBehind ==
    ASSUME NEW a \in Seq(Skipped), NEW c \in Seq(Blanks)
    PROVE  canonical_trigger_text(a \o (<<"command">> \o c)) = <<"command">>
<1> DEFINE t == <<"command">>
           e == << >>
           S == {"command", "blank"}
           u == t \o c
<1>1. t \in Seq(S) /\ Len(t) = 1 /\ t[1] = "command" /\ IsSolid(t) /\ t # << >>
  BY DEF IsSolid
<1>2. e \in Seq(Blanks) /\ e \o t = t
  BY EmptySeq
<1>. HIDE DEF t, e
<1>3. c \in Seq(S) /\ \A x \in S : x = "command" \/ x = "blank"
  BY SeqMonotonic DEF Blanks
<1>. HIDE DEF S
<1>4. u \in Seq(S) /\ Len(u) = 1 + Len(c) /\ u[1] = "command"
  <2>1. Len(c) \in Nat
    BY LenProperties
  <2>2. /\ u \in Seq(S) /\ Len(u) = Len(t) + Len(c)
        /\ \A i \in 1..(Len(t) + Len(c)) : u[i] = IF i <= Len(t) THEN t[i] ELSE c[i - Len(t)]
    BY <1>1, <1>3, ConcatProperties
  <2>3. 1 \in 1..(Len(t) + Len(c)) /\ 1 <= Len(t)
    BY <1>1, <2>1
  <2>. HIDE DEF u
  <2>. QED  BY <1>1, <2>2, <2>3
<1>5. Trim(e \o t \o c) = t
  BY <1>1, <1>2, TrimOfPadded
<1>6. Trim(u) = t
  BY <1>2, <1>5
<1>. HIDE DEF u
<1>7. u # << >> /\ u[1] \notin Skipped
  <2>1. Len(u) # 0
    BY <1>4, LenProperties
  <2>. QED  BY <1>4, <2>1, EmptySeq DEF Skipped
<1>8. canonical_trigger_text(a \o u) = Trim(u)
  BY <1>4, <1>7, TriggerTextOfPadded
<1>. QED  BY <1>6, <1>8 DEF u, t

\* Nor does it matter for the command what trimming takes away.
LEMMA CommandText ==
    ASSUME NEW S, NEW s \in Seq(S), Trim(s) \in {<<"command">>, <<"at_bot", "command">>}
    PROVE  /\ canonical_trigger_text(s) = <<"command">>
           /\ \A i \in 1..Len(s) : s[i] \in {"blank", "at_bot", "command"}
<1>1. \E i \in 1..Len(s) : s[i] # "blank"
  <2>1. <<"command">> # << >> /\ <<"at_bot", "command">> # << >>
    OBVIOUS
  <2>. QED  BY <2>1, TrimType
<1> DEFINE t == Trim(s)
           V == {"blank", "at_bot", "command"}
<1>2. PICK a \in Seq(Blanks), c \in Seq(Blanks) : s = a \o t \o c
  BY <1>1, TrimmedText
<1>3. t \in {<<"command">>, <<"at_bot", "command">>}
  OBVIOUS
<1>. HIDE DEF t
<1>4. a \in Seq(V) /\ c \in Seq(V) /\ a \in Seq(Skipped)
  <2>1. Blanks \subseteq V /\ Blanks \subseteq Skipped
    BY DEF Blanks, Skipped
  <2>. QED  BY <2>1, SeqMonotonic
<1>5. t \in Seq(V)
  <2>1. <<"command">> \in Seq(V) /\ <<"at_bot", "command">> \in Seq(V)
    OBVIOUS
  <2>. QED  BY <1>3, <2>1
<1>6. s \in Seq(V)
  BY <1>2, <1>4, <1>5, ConcatProperties
<1>7. CASE t = <<"command">>
  <2>1. s = a \o (t \o c)
    BY <1>2, <1>4, <1>5, ConcatAssociative
  <2>. QED  BY <1>4, <1>6, <1>7, <2>1, CommandBehind, ElementOfSeq
<1>8. CASE t = <<"at_bot", "command">>
  <2> DEFINE m == <<"at_bot">>
             d == <<"command">>
             am == a \o m
             dc == d \o c
  <2>1. t = m \o d /\ m \in Seq(V) /\ d \in Seq(V) /\ m \in Seq(Skipped)
    BY <1>8 DEF Skipped
  <2>. HIDE DEF m, d
  <2>2. am \in Seq(V) /\ dc \in Seq(V) /\ am \in Seq(Skipped) /\ a \o t \in Seq(V)
    BY <1>4, <1>5, <2>1, ConcatProperties
  <2>3. a \o (m \o d) = (a \o m) \o d
    <3>1. a \in Seq(V) /\ m \in Seq(V) /\ d \in Seq(V)
      BY <1>4, <2>1
    <3>. HIDE DEF V
    <3>. QED  BY ONLY <3>1, ConcatAssociative
  <2>4. (am \o d) \o c = am \o dc
    <3>1. am \in Seq(V) /\ d \in Seq(V) /\ c \in Seq(V)
      BY <1>4, <2>1, <2>2
    <3>. HIDE DEF am, V
    <3>. QED  BY ONLY <3>1, ConcatAssociative
  <2>5. s = am \o dc
    BY <1>2, <2>1, <2>3, <2>4
  <2>6. canonical_trigger_text(am \o (<<"command">> \o c)) = <<"command">>
    <3>1. am \in Seq(Skipped)
      BY <2>2
    <3>. HIDE DEF am
    <3>. QED  BY <3>1, CommandBehind
  <2>. QED  BY <1>6, <2>5, <2>6, ElementOfSeq DEF d
<1>. QED  BY <1>3, <1>7, <1>8

\* What a QQ message asks for.
LEMMA QqTriggers ==
    ASSUME NEW p, QqPayload(p)
    PROVE  LET text == p.message.text
               trigger == canonical_trigger_text(qq_parts(p))
           IN /\ trigger = << >> <=> ~Has(text, Tokens \ {"blank", "quote"})
              /\ ~Has(text, {"picture", "quote"}) =>
                    (trigger = <<"command">> <=> canonical_trigger_text(text) = <<"command">>)
              /\ Trim(text) \in {<<"command">>, <<"at_bot", "command">>} => trigger = <<"command">>
<1> DEFINE text == p.message.text
           parts == qq_parts(p)
           raw == raw_message(p)
           trigger == canonical_trigger_text(parts)
           asked == canonical_trigger_text(text)
<1>1. /\ parts \in Seq(Tokens) /\ text \in Seq(Tokens)
      /\ Has(parts, Tokens \ {"blank"}) <=> Has(text, Tokens \ {"blank", "quote"})
      /\ ~Has(text, {"picture", "quote"}) => parts \in {text, raw}
  BY QqPartsSay
<1>2. text \in Seq(QqTokens) /\ raw = Mapped(text, rawToken)
  BY RawText DEF QqPayload
<1>. HIDE DEF text, parts, raw
<1>3. trigger = << >> <=> ~Has(text, Tokens \ {"blank", "quote"})
  <2>1. trigger = << >> <=> \A i \in 1..Len(parts) : parts[i] = "blank"
    BY <1>1, NoTriggerText
  <2>2. \A i \in 1..Len(parts) : parts[i] \in Tokens
    BY <1>1, ElementOfSeq
  <2>. QED  BY <1>1, <2>1, <2>2 DEF Has
<1>4. ASSUME ~Has(text, {"picture", "quote"})
      PROVE  trigger = <<"command">> <=> asked = <<"command">>
  <2>1. CASE parts = text
    BY <2>1
  <2>2. CASE parts = raw
    <3> DEFINE m == Mapped(asked, rawToken)
    <3>1. trigger = m
      <4>1. /\ IsMap(rawToken, QqTokens, Tokens) /\ IsKeeping(rawToken, QqTokens)
            /\ text \in Seq(QqTokens)
        BY <1>2, RawTokens
      <4>2. canonical_trigger_text(Mapped(text, rawToken))
              = Mapped(canonical_trigger_text(text), rawToken)
        BY ONLY <4>1, TriggerTextOfMapped
      <4>. QED  BY <1>2, <2>2, <4>2
    <3>2. asked \in Seq(QqTokens)
      <4>1. \/ asked = Trim(text)
            \/ \E t \in Seq(QqTokens) : asked = Trim(t)
        BY <1>2, TriggerTextParts
      <4>. QED  BY <1>2, <4>1, TrimType
    <3>. HIDE DEF asked, trigger
    <3>3. Len(m) = Len(asked) /\ \A i \in 1..Len(asked) : m[i] = rawToken[asked[i]]
      BY <3>2, RawTokens, MappedIsSeq
    <3>4. m \in Seq(Tokens) /\ \A i \in 1..Len(asked) : asked[i] \in QqTokens
      BY <3>2, RawTokens, MappedIsSeq, ElementOfSeq
    <3>. HIDE DEF m
    <3> DEFINE d == <<"command">>
    <3>5. d \in Seq(Tokens) /\ Len(d) = 1 /\ d[1] = "command" /\ d \in Seq(QqTokens)
      BY DEF Tokens, Literals, QqTokens, Written
    <3>. HIDE DEF d
    <3>6. ASSUME m = d PROVE asked = d
      <4>1. Len(asked) = 1 /\ asked[1] = "command"
        <5>1. Len(asked) = 1 /\ m[1] = "command"
          BY <3>3, <3>5, <3>6
        <5>2. asked[1] \in QqTokens /\ rawToken[asked[1]] = "command"
          BY <3>3, <3>4, <5>1
        <5>. QED  BY <5>1, <5>2, RawTokens
      <4>. QED  BY <3>2, <3>5, <4>1, SeqEqual
    <3>7. ASSUME asked = d PROVE m = d
      <4>1. Len(m) = 1 /\ m[1] = "command"
        BY <3>3, <3>4, <3>5, <3>7, RawTokens
      <4>. QED  BY <3>4, <3>5, <4>1, SeqEqual
    <3>. QED  BY <3>1, <3>6, <3>7 DEF d
  <2>. QED  BY <1>1, <1>4, <2>1, <2>2
<1>5. ASSUME Trim(text) \in {<<"command">>, <<"at_bot", "command">>} PROVE trigger = <<"command">>
  <2>1. /\ asked = <<"command">>
        /\ \A i \in 1..Len(text) : text[i] \in {"blank", "at_bot", "command"}
    BY <1>1, <1>5, CommandText
  <2>2. ~Has(text, {"picture", "quote"})
    BY <2>1 DEF Has
  <2>. QED  BY <1>4, <2>1, <2>2
<1>. QED  BY <1>3, <1>4, <1>5 DEF text, parts

-----------------------------------------------------------------------------
(* The parts of a WeChat message *)

\* The first token does not matter for what is written when it is no word.
LEMMA WrittenOfTail ==
    ASSUME NEW s \in Seq(Tokens), s # << >>, s[1] \notin Words
    PROVE  WrittenIn(Tail(s)) = WrittenIn(s)
<1> DEFINE h == <<s[1]>>
           t == Tail(s)
<1>1. s[1] \in Tokens /\ t \in Seq(Tokens) /\ s = h \o t
  BY HeadAndTail
<1>2. h \in Seq(Tokens) /\ Len(h) = 1 /\ h[1] = s[1]
  BY <1>1
<1>. HIDE DEF h, t
<1>3. WrittenIn(h) = << >>
  BY <1>2, NothingWritten
<1>4. WrittenIn(h \o t) = WrittenIn(h) \o WrittenIn(t)
  BY <1>1, <1>2, WrittenOfConcat
<1>5. WrittenIn(t) \in Seq(Tokens)
  <2>1. Mapped(t, unescaped) \in Seq(Tokens)
    BY <1>1, UnescapedIsMap, MappedIsSeq
  <2>. QED  BY <1>1, <2>1, UnescapedText, ThoseAreSeq
<1>. QED  BY <1>1, <1>3, <1>4, <1>5, ConcatEmptySeq DEF t

\* Trimming makes no text longer.
LEMMA TrimIsNotLonger ==
    ASSUME NEW S, NEW s \in Seq(S)
    PROVE  Len(Trim(s)) <= Len(s)
<1>1. Len(s) \in Nat
  BY LenProperties
<1>2. CASE \A i \in 1..Len(s) : s[i] = "blank"
  <2>1. Len(Trim(s)) = 0
    BY <1>2, TrimOfBlanks, EmptySeq
  <2>. QED  BY <1>1, <2>1
<1>3. CASE \E i \in 1..Len(s) : s[i] # "blank"
  <2> DEFINE t == Trim(s)
  <2>1. PICK a \in Seq(Blanks), c \in Seq(Blanks) :
          s = (a \o t) \o c /\ a \in Seq(S) /\ c \in Seq(S)
    BY <1>3, TrimmedText
  <2>2. t \in Seq(S)
    BY TrimType
  <2>. HIDE DEF t
  <2> DEFINE u == a \o t
  <2>3. u \in Seq(S) /\ Len(u) = Len(a) + Len(t)
    BY <2>1, <2>2, ConcatProperties
  <2>. HIDE DEF u
  <2>4. Len(u \o c) = Len(u) + Len(c)
    BY <2>1, <2>3, ConcatProperties
  <2>5. Len(a) \in Nat /\ Len(t) \in Nat /\ Len(c) \in Nat
    BY <2>1, <2>2, LenProperties
  <2>. QED  BY <2>1, <2>3, <2>4, <2>5 DEF t, u
<1>. QED  BY <1>2, <1>3

\* What stripping the bot's name leaves.
LEMMA StrippedParts ==
    ASSUME NEW S, NEW s \in Seq(S)
    PROVE  LET t == strip_leading_mention(s)
               named == /\ s # << >> /\ s[1] = "bot_name"
                        /\ Len(s) > 1 => s[2] = "blank"
           IN /\ t \in Seq(S)
              /\ t # s <=> named
              /\ named => t = Trim(Tail(s))
<1> DEFINE t == strip_leading_mention(s)
           named == s # << >> /\ s[1] = "bot_name" /\ (Len(s) > 1 => s[2] = "blank")
<1>1. s # << >> => Head(s) = s[1] /\ Tail(s) \in Seq(S) /\ Len(Tail(s)) = Len(s) - 1
  BY HeadAndTail
<1>2. t = IF named THEN Trim(Tail(s)) ELSE s
  BY <1>1, Zenon DEF strip_leading_mention
<1>. HIDE DEF t
<1>3. ASSUME named PROVE t \in Seq(S) /\ t # s /\ t = Trim(Tail(s))
  <2> DEFINE r == Tail(s)
  <2>1. r \in Seq(S) /\ Len(r) = Len(s) - 1 /\ Len(s) \in Nat
    BY <1>1, <1>3, LenProperties
  <2>. HIDE DEF r
  <2>2. Trim(r) \in Seq(S) /\ Len(Trim(r)) <= Len(r) /\ Len(Trim(r)) \in Nat
    BY <2>1, TrimType, TrimIsNotLonger, LenProperties
  <2>3. t = Trim(r)
    BY <1>2, <1>3 DEF r
  <2>4. Len(t) # Len(s)
    BY <2>1, <2>2, <2>3
  <2>. QED  BY <2>2, <2>3, <2>4 DEF r
<1>. QED  BY <1>2, <1>3 DEF t

\* Stripping the bot's name loses nothing that is written.
LEMMA WrittenOfStripped ==
    ASSUME NEW s \in Seq(Tokens)
    PROVE  WrittenIn(strip_leading_mention(s)) = WrittenIn(s)
<1>1. CASE strip_leading_mention(s) = s
  BY <1>1
<1>2. CASE strip_leading_mention(s) # s
  <2>1. s # << >> /\ s[1] = "bot_name" /\ strip_leading_mention(s) = Trim(Tail(s))
    BY <1>2, StrippedParts
  <2>2. s[1] \notin Words
    BY <2>1 DEF Words, Written
  <2>3. Tail(s) \in Seq(Tokens) /\ WrittenIn(Tail(s)) = WrittenIn(s)
    BY <2>1, <2>2, HeadAndTail, WrittenOfTail
  <2>. QED  BY <2>1, <2>3, WrittenOfTrim
<1>. QED  BY <1>1, <1>2

WeChatPayload(p) ==
    /\ p.message.text \in SolidTexts
    /\ p.message.scope \in Scopes /\ p.message.room \in Rooms /\ p.message.author \in Users
    /\ p.message.platform = "wechatpadpro" /\ p.shape \in ShapesOf(p.message)
    /\ p.message.quotes \in BOOLEAN

\* The fields of the event in a webhook.
LEMMA EventFields ==
    ASSUME NEW p, p.shape \in GroupShapes \cup PrivateShapes
    PROVE  LET e == unwrap_event(Webhook(p))
               m == p.message
           IN /\ e.id = (p.kind # "unidentified")
              /\ e.msgType = IF p.kind \in {"untyped", "contentless"} THEN Absent
                             ELSE IF p.kind = "notice" THEN "other" ELSE "text"
              /\ e.sender = IF p.shape \in {"room_sender", "sender"} THEN m.author ELSE Absent
              /\ e.room = IF p.shape \in {"room_sender", "room_from"} THEN m.room ELSE Absent
              /\ e.from = IF p.shape \in {"room_from", "from"} THEN m.author
                          ELSE IF p.shape = "transport" THEN m.room ELSE Absent
              /\ e.content = IF p.kind = "contentless" THEN << >>
                             ELSE IF p.shape = "transport" THEN <<m.author>> \o m.text
                             ELSE m.text
              /\ e.replyTo = m.quotes
<1> DEFINE m == p.message
           n == Native(p)
           w == Webhook(p)
<1>1. n = [id |-> p.kind # "unidentified",
           msgType |-> IF p.kind \in {"untyped", "contentless"} THEN Absent
                       ELSE IF p.kind = "notice" THEN "other" ELSE "text",
           sender |-> IF p.shape \in {"room_sender", "sender"} THEN m.author ELSE Absent,
           room |-> IF p.shape \in {"room_sender", "room_from"} THEN m.room ELSE Absent,
           from |-> IF p.shape \in {"room_from", "from"} THEN m.author
                    ELSE IF p.shape = "transport" THEN m.room ELSE Absent,
           content |-> IF p.kind = "contentless" THEN << >>
                       ELSE IF p.shape = "transport" THEN <<m.author>> \o m.text ELSE m.text,
           replyTo |-> m.quotes]
  <2>1. CASE p.shape = "room_sender"
    BY <2>1 DEF Native
  <2>2. CASE p.shape = "room_from"
    BY <2>2 DEF Native
  <2>3. CASE p.shape = "transport"
    BY <2>3 DEF Native
  <2>4. CASE p.shape = "sender"
    BY <2>4 DEF Native
  <2>5. CASE p.shape = "from"
    BY <2>5 DEF Native
  <2>. QED  BY <2>1, <2>2, <2>3, <2>4, <2>5 DEF GroupShapes, PrivateShapes
<1>2. unwrap_event(w) = n
  <2>1. "message" \notin DOMAIN n /\ "data" \notin DOMAIN n
    BY <1>1
  <2>. HIDE DEF n
  <2>2. CASE p.shape = "transport"
    <3>1. w = [data |-> [message |-> n]]
      BY <2>2 DEF Webhook, n
    <3>. HIDE DEF w
    <3>. QED  BY <3>1 DEF unwrap_event
  <2>3. CASE p.shape = "room_from"
    <3>1. w = [data |-> n]
      BY <2>3 DEF Webhook, n
    <3>. HIDE DEF w
    <3>. QED  BY <2>1, <3>1 DEF unwrap_event
  <2>4. CASE p.shape = "from"
    <3>1. w = n
      BY <2>4 DEF Webhook, n
    <3>. HIDE DEF w
    <3>. QED  BY <2>1, <3>1 DEF unwrap_event
  <2>5. CASE p.shape \in {"room_sender", "sender"}
    <3>1. w = [message |-> n]
      BY <2>5 DEF Webhook, n
    <3>. HIDE DEF w
    <3>. QED  BY <3>1 DEF unwrap_event
  <2>. QED  BY <2>2, <2>3, <2>4, <2>5 DEF GroupShapes, PrivateShapes
<1>. HIDE DEF n
<1>. QED  BY <1>1, <1>2

\* A solid text: what is left when it is trimmed.
LEMMA SolidText ==
    ASSUME NEW p, WeChatPayload(p)
    PROVE  LET text == p.message.text
               t == Trim(text)
           IN /\ text \in Seq(WeChatTokens) /\ Has(text, WeChatTokens \ {"blank"})
              /\ t \in Seq(WeChatTokens) /\ IsSolid(t)
              /\ \E a, c \in Seq(Blanks) :
                   text = a \o t \o c /\ a \in Seq(WeChatTokens) /\ c \in Seq(WeChatTokens)
<1> DEFINE text == p.message.text
           S == WeChatTokens
<1>1. text \in Seq(S) /\ \E i \in DOMAIN text : text[i] # "blank"
  BY DEF WeChatPayload, SolidTexts
<1>. HIDE DEF text, S
<1>2. DOMAIN text = 1..Len(text) /\ \A i \in 1..Len(text) : text[i] \in S
  BY <1>1, LenProperties, ElementOfSeq
<1>3. \E i \in 1..Len(text) : text[i] # "blank"
  BY <1>1, <1>2
<1>4. Has(text, S \ {"blank"})
  BY <1>2, <1>3 DEF Has
<1>. QED  BY <1>1, <1>3, <1>4, TrimmedText DEF text, S

\* The content of an event: who wrote it, when it says so itself, and what.
LEMMA EventContent ==
    ASSUME NamesAssumption, NEW p, WeChatPayload(p), p.kind # "contentless"
    PROVE  LET e == unwrap_event(Webhook(p))
               t == Trim(p.message.text)
               parsed == parse_transport_prefixed_content(e)
           IN /\ p.shape = "transport" => parsed = [sender |-> p.message.author, body |-> t]
              /\ p.shape # "transport" /\ ~Headed(p.message)
                   => parsed = [sender |-> Absent, body |-> t]
              /\ p.shape # "transport" /\ Headed(p.message)
                   => parsed = [sender |-> t[1], body |-> Trim(Tail(t))]
<1> DEFINE m == p.message
           text == m.text
           t == Trim(text)
           e == unwrap_event(Webhook(p))
           raw == Trim(e.content)
           parsed == parse_transport_prefixed_content(e)
<1>1. p.shape \in GroupShapes \cup PrivateShapes
  BY DEF WeChatPayload, ShapesOf
<1>2. e.content = IF p.shape = "transport" THEN <<m.author>> \o text ELSE text
  BY <1>1, EventFields
<1>3. parsed = IF Len(raw) > 1 /\ Head(raw) \in Users \cup Headings
               THEN [sender |-> Head(raw), body |-> Trim(Tail(raw))]
               ELSE [sender |-> Absent, body |-> raw]
  BY DEF parse_transport_prefixed_content, extract_raw_content
<1>4. text \in Seq(WeChatTokens) /\ t \in Seq(WeChatTokens) /\ IsSolid(t)
  BY SolidText
<1>5. PICK a \in Seq(Blanks), c \in Seq(Blanks) :
        text = a \o t \o c /\ a \in Seq(WeChatTokens) /\ c \in Seq(WeChatTokens)
  BY SolidText
<1>6. m.author \in Users
  BY DEF WeChatPayload
<1>7. Headed(m) <=> Len(t) > 1 /\ Head(t) \in Headings
  BY Zenon DEF Headed
<1>. HIDE DEF parsed, e, t
<1>8. t # << >> /\ Len(t) \in Nat /\ Len(t) # 0
  BY <1>4, LenProperties, EmptySeq DEF IsSolid
<1>9. Head(t) = t[1] /\ t[1] \in WeChatTokens
  BY <1>4, <1>8, HeadAndTail
<1>10. CASE p.shape = "transport"
  <2> DEFINE V == WeChatTokens \cup Users
             h == <<m.author>>
             r == Tail(h \o (a \o t))
             b == << >>
             u == a \o t
             v == h \o u
  <2>1. h \in Seq(V) /\ Len(h) = 1 /\ h[1] = m.author /\ b \in Seq(Blanks)
    BY <1>6
  <2>2. WeChatTokens \subseteq V /\ m.author # "blank"
    BY <1>6 DEF NamesAssumption, Literals
  <2>. HIDE DEF h, V
  <2>3. a \in Seq(V) /\ t \in Seq(V) /\ c \in Seq(V)
    BY <1>4, <1>5, <2>2, SeqMonotonic
  <2>4. /\ u \in Seq(V) /\ Len(u) = Len(a) + Len(t)
        /\ \A i \in 1..(Len(a) + Len(t)) : u[i] = IF i <= Len(a) THEN a[i] ELSE t[i - Len(a)]
    BY <2>3, ConcatProperties
  <2>5. u \in Seq(WeChatTokens) /\ Len(a) \in Nat
    BY <1>4, <1>5, ConcatProperties, LenProperties
  <2>. HIDE DEF u
  <2>6. /\ v \in Seq(V) /\ Len(v) = 1 + Len(u)
        /\ \A i \in 1..(1 + Len(u)) : v[i] = IF i <= 1 THEN h[i] ELSE u[i - 1]
    <3>1. /\ v \in Seq(V) /\ Len(v) = Len(h) + Len(u)
          /\ \A i \in 1..(Len(h) + Len(u)) : v[i] = IF i <= Len(h) THEN h[i] ELSE u[i - Len(h)]
      <4>1. h \in Seq(V) /\ u \in Seq(V)
        BY <2>1, <2>4
      <4>. QED  BY ONLY <4>1, ConcatProperties
    <3>. HIDE DEF v
    <3>. QED  BY <2>1, <3>1
  <2>7. u[Len(u)] = t[Len(t)]
    <3> DEFINE j == Len(a) + Len(t)
    <3>1. j \in 1..(Len(a) + Len(t)) /\ ~(j <= Len(a)) /\ j - Len(a) = Len(t)
      BY <1>8, <2>5
    <3>2. Len(u) = j
      BY <2>4
    <3>. HIDE DEF j
    <3>3. u[j] = t[j - Len(a)]
      BY <2>4, <3>1
    <3>. QED  BY <3>1, <3>2, <3>3
  <2>8. Len(u) \in Nat /\ Len(u) # 0
    BY <1>8, <2>4, <2>5
  <2>9. v[1] = m.author /\ v[Len(v)] = u[Len(u)]
    <3> DEFINE j == 1 + Len(u)
               one == 1
    <3>1. /\ one \in 1..(1 + Len(u)) /\ one <= 1
          /\ j \in 1..(1 + Len(u)) /\ ~(j <= 1) /\ j - 1 = Len(u)
      BY <2>8
    <3>2. Len(v) = j
      BY <2>6
    <3>. HIDE DEF j, v, one
    <3>3. v[j] = u[j - 1] /\ v[one] = h[one]
      BY <2>6, <3>1
    <3>. QED  BY <2>1, <3>1, <3>2, <3>3 DEF one
  <2>10. Len(v) > 1 /\ v # << >>
    <3>1. Len(v) > 1
      BY <2>6, <2>8
    <3>. HIDE DEF v
    <3>. QED  BY <2>6, <3>1, EmptySeq
  <2>11. IsSolid(v)
    BY <1>4, <2>2, <2>7, <2>9, <2>10 DEF IsSolid
  <2>12. e.content = v \o c
    <3>1. (h \o u) \o c = h \o (u \o c)
      <4>1. h \in Seq(V) /\ u \in Seq(V) /\ c \in Seq(V)
        BY <2>1, <2>3, <2>4
      <4>. QED  BY ONLY <4>1, ConcatAssociative
    <3>2. text = u \o c /\ e.content = h \o text
      BY <1>2, <1>5, <1>10 DEF h, u
    <3>. QED  BY <3>1, <3>2
  <2>. HIDE DEF v
  <2>13. raw = v
    <3>. HIDE DEF b
    <3>1. Trim(b \o v \o c) = v
      BY <2>1, <2>6, <2>11, TrimOfPadded
    <3>2. b \o v = v
      BY <2>6, ConcatEmptySeq DEF b
    <3>. QED  BY <2>12, <3>1, <3>2
  <2>14. Head(v) = m.author /\ Tail(v) \in Seq(V)
    BY <2>6, <2>9, <2>10, HeadAndTail
  <2>15. Tail(v) = u
    <3> DEFINE w == Tail(v)
    <3>1. w \in Seq(V) /\ Len(w) = Len(v) - 1 /\ \A i \in 1..Len(w) : w[i] = v[i + 1]
      BY <2>6, <2>10, HeadAndTail
    <3>. HIDE DEF w
    <3>2. Len(w) = Len(u)
      BY <2>6, <2>8, <3>1
    <3>3. ASSUME NEW i \in 1..Len(w) PROVE w[i] = u[i]
      <4> DEFINE j == i + 1
      <4>1. j \in 1..(1 + Len(u)) /\ ~(j <= 1) /\ j - 1 = i
        BY <2>8, <3>2
      <4>2. w[i] = v[j]
        BY <3>1
      <4>. HIDE DEF j
      <4>3. v[j] = u[j - 1]
        BY <2>6, <4>1
      <4>. QED  BY <4>1, <4>2, <4>3
    <3>4. w = u
      BY <2>4, <3>1, <3>2, <3>3, SeqEqual
    <3>. QED  BY <3>4 DEF w
  <2>16. Trim(u) = t
    <3>. HIDE DEF b
    <3>1. Trim(a \o t \o b) = t
      BY <1>4, <1>5, <2>1, TrimOfPadded
    <3>2. u \o b = u
      BY <2>4, ConcatEmptySeq DEF b
    <3>. QED  BY <3>1, <3>2 DEF u
  <2>17. parsed = [sender |-> m.author, body |-> t]
    BY <1>3, <1>6, <2>10, <2>13, <2>14, <2>15, <2>16
  <2>. QED  BY <1>10, <2>17 DEF parsed, e, t
<1>11. CASE p.shape # "transport"
  <2>1. raw = t
    BY <1>2, <1>11 DEF t
  <2>2. Head(t) \in Users \cup Headings <=> Head(t) \in Headings
    <3>1. \A x \in WeChatTokens : x \in Headings \/ x \in Literals
      BY DEF WeChatTokens, Literals
    <3>2. Head(t) \notin Literals \/ Head(t) \notin Users
      BY DEF NamesAssumption
    <3>. QED  BY <1>9, <3>1, <3>2
  <2>3. parsed = IF Headed(m) THEN [sender |-> t[1], body |-> Trim(Tail(t))]
                 ELSE [sender |-> Absent, body |-> t]
    BY <1>3, <1>7, <1>9, <2>1, <2>2
  <2>. QED  BY <1>11, <2>3 DEF parsed, e, t
<1>. QED  BY <1>10, <1>11

\* The payloads that an adapter makes an event of.
Decoded(p) == p.kind \in {"message", "garbage", "untyped"}

\* An event that has a message has a text.
LEMMA EventText ==
    ASSUME NamesAssumption, NEW p, WeChatPayload(p), Decoded(p)
    PROVE  extract_content(unwrap_event(Webhook(p))) # << >>
<1> DEFINE m == p.message
           t == Trim(m.text)
           r == Tail(t)
           n == Len(r)
           body == extract_content(unwrap_event(Webhook(p)))
<1>1. body = t \/ (Headed(m) /\ body = Trim(r))
  BY EventContent DEF Decoded, extract_content
<1>2. t \in Seq(WeChatTokens) /\ IsSolid(t)
  BY SolidText
<1>3. Headed(m) => Len(t) > 1
  BY Zenon DEF Headed
<1>. HIDE DEF t, body
<1>4. t # << >> /\ t[Len(t)] # "blank" /\ Len(t) \in Nat
  BY <1>2, LenProperties DEF IsSolid
<1>5. r \in Seq(WeChatTokens) /\ n = Len(t) - 1 /\ \A i \in 1..n : r[i] = t[i + 1]
  BY <1>2, <1>4, HeadAndTail
<1>. HIDE DEF r, n
<1>6. ASSUME Headed(m) PROVE Trim(r) # << >>
  <2>1. n \in 1..n /\ n + 1 = Len(t) /\ n = Len(r)
    BY <1>3, <1>4, <1>5, <1>6 DEF n
  <2>2. r[n] = t[n + 1]
    BY <1>5, <2>1
  <2>3. r[n] # "blank"
    BY <1>4, <2>1, <2>2
  <2>. QED  BY <1>5, <2>1, <2>3, TrimType
<1>. QED  BY <1>1, <1>4, <1>6 DEF body

\* An event without one is none.
LEMMA ContentlessEvent ==
    ASSUME NEW p, WeChatPayload(p), p.kind = "contentless"
    PROVE  decode_webhook_event(p) = None
<1> DEFINE e == unwrap_event(Webhook(p))
           none == << >>
           raw == extract_raw_content(e)
<1>1. p.shape \in GroupShapes \cup PrivateShapes
  BY DEF WeChatPayload, ShapesOf
<1>2. e.content = none /\ e.msgType = Absent
  BY <1>1, EventFields
<1>. HIDE DEF e
<1>3. none \in Seq({}) /\ Len(none) = 0
  BY EmptySeq
<1>. HIDE DEF none
<1>4. raw = << >>
  <2>1. \A i \in 1..Len(none) : none[i] = "blank"
    BY <1>3
  <2>2. Trim(none) = << >>
    BY <1>3, <2>1, TrimOfBlanks
  <2>. QED  BY <1>2, <2>2 DEF extract_raw_content
<1>5. ~(Len(raw) > 1)
  BY <1>3, <1>4 DEF none
<1>. HIDE DEF raw
<1>6. parse_transport_prefixed_content(e) = [sender |-> Absent, body |-> raw]
  BY <1>5, Zenon DEF parse_transport_prefixed_content, raw
<1>7. extract_content(e) = << >>
  BY <1>4, <1>6 DEF extract_content
<1>8. ~is_text_event(e)
  BY <1>2, <1>7 DEF is_text_event
<1>. QED  BY <1>8, Zenon DEF decode_webhook_event, e

\* What a WeChat message is decoded to.
LEMMA WeChatEvent ==
    ASSUME NamesAssumption, NEW p, WeChatPayload(p), Decoded(p)
    PROVE  LET m == p.message
               t == Trim(m.text)
               ev == decode_webhook_event(p)
               body == extract_content(unwrap_event(Webhook(p)))
           IN /\ ev.conversation[1] = "wechatpadpro" /\ conversation_scope(ev) = m.scope
              /\ ~TakenForSender(p) => /\ ev.actor = m.author
                                       /\ ev.conversation = <<"wechatpadpro", m.scope, ChatOf(m)>>
              /\ ev.parts = strip_leading_mention(body)
              /\ ev.mentions = IF ev.parts # body THEN {"at_bot"} ELSE {}
              /\ ev.reply_to = m.quotes
              /\ body = t \/ (Headed(m) /\ body = Trim(Tail(t)))
<1> DEFINE m == p.message
           t == Trim(m.text)
           e == unwrap_event(Webhook(p))
           ev == decode_webhook_event(p)
           body == extract_content(e)
           room == extract_group_id(e)
           prefix == parse_transport_prefixed_content(e).sender
<1>1. p.shape \in GroupShapes \cup PrivateShapes
  BY DEF WeChatPayload, ShapesOf
<1>2. ev = [conversation |-> IF room # Absent THEN <<"wechatpadpro", "group", room>>
                             ELSE <<"wechatpadpro", "private", extract_sender(e)>>,
            actor |-> extract_sender(e),
            parts |-> strip_leading_mention(body),
            mentions |-> IF strip_leading_mention(body) # body THEN {"at_bot"} ELSE {},
            reply_to |-> e.replyTo]
  <2>1. e.id /\ is_text_event(e)
    <3>1. /\ e.id = (p.kind # "unidentified")
          /\ e.msgType = IF p.kind \in {"untyped", "contentless"} THEN Absent
                         ELSE IF p.kind = "notice" THEN "other" ELSE "text"
      BY <1>1, EventFields
    <3>2. body # << >>
      BY EventText
    <3>. HIDE DEF e, body
    <3>3. is_text_event(e)
      BY <3>1, <3>2 DEF Decoded, is_text_event, body
    <3>. QED  BY <3>1, <3>3 DEF Decoded
  <2>. QED  BY <2>1, Zenon DEF decode_webhook_event
<1>3. body = parse_transport_prefixed_content(e).body
  BY DEF extract_content
<1>4. /\ p.shape = "transport" => prefix = m.author /\ body = t
      /\ p.shape # "transport" /\ ~Headed(m) => prefix = Absent /\ body = t
      /\ p.shape # "transport" /\ Headed(m) => body = Trim(Tail(t))
  BY <1>3, EventContent DEF Decoded
<1>5. /\ e.sender = IF p.shape \in {"room_sender", "sender"} THEN m.author ELSE Absent
      /\ e.room = IF p.shape \in {"room_sender", "room_from"} THEN m.room ELSE Absent
      /\ e.from = IF p.shape \in {"room_from", "from"} THEN m.author
                  ELSE IF p.shape = "transport" THEN m.room ELSE Absent
      /\ e.replyTo = m.quotes
  BY <1>1, EventFields
<1>6. room = IF e.room # Absent THEN e.room ELSE IF e.from \in Rooms THEN e.from ELSE Absent
  BY DEF extract_group_id
<1>7. extract_sender(e) = IF e.sender # Absent THEN e.sender
                          ELSE IF prefix # Absent THEN prefix
                          ELSE IF e.from \notin Rooms THEN e.from ELSE Absent
  BY DEF extract_sender
<1>. HIDE DEF e, ev, body, room, prefix
<1>8. /\ m.author \in Users /\ m.author # Absent /\ m.author \notin Rooms
      /\ m.room \in Rooms /\ m.room # Absent /\ Absent \notin Rooms
      /\ m.scope \in {"group", "private"}
      /\ m.scope = "group" <=> p.shape \in GroupShapes
  BY DEF WeChatPayload, NamesAssumption, Scopes, ShapesOf, GroupShapes, PrivateShapes
<1>9. room = IF m.scope = "group" THEN m.room ELSE Absent
  BY <1>1, <1>5, <1>6, <1>8 DEF GroupShapes, PrivateShapes
<1>10. ev.conversation = IF m.scope = "group" THEN <<"wechatpadpro", "group", m.room>>
                         ELSE <<"wechatpadpro", "private", extract_sender(e)>>
  BY <1>2, <1>8, <1>9
<1>11. ev.conversation[1] = "wechatpadpro" /\ ev.conversation[2] = m.scope
  BY <1>8, <1>10
<1>12. ASSUME ~TakenForSender(p) PROVE extract_sender(e) = m.author
  <2>1. Headed(m) => p.shape \notin {"from", "room_from"}
    BY <1>12 DEF TakenForSender
  <2>. QED  BY <1>1, <1>4, <1>5, <1>7, <1>8, <2>1 DEF GroupShapes, PrivateShapes
<1>13. ASSUME ~TakenForSender(p)
       PROVE  ev.actor = m.author /\ ev.conversation = <<"wechatpadpro", m.scope, ChatOf(m)>>
  <2>1. ev.actor = m.author
    BY <1>2, <1>12, <1>13
  <2>2. ChatOf(m) = IF m.scope = "group" THEN m.room ELSE m.author
    BY DEF ChatOf
  <2>. QED  BY <1>8, <1>10, <1>12, <1>13, <2>1, <2>2
<1>14. /\ ev.parts = strip_leading_mention(body) /\ ev.reply_to = m.quotes
       /\ ev.mentions = IF ev.parts # body THEN {"at_bot"} ELSE {}
  BY <1>2, <1>5
<1>15. body = t \/ (Headed(m) /\ body = Trim(Tail(t)))
  BY <1>4
<1>. QED  BY <1>11, <1>13, <1>14, <1>15 DEF ev, body, e, conversation_scope

NamedAtFront(s) == s # << >> /\ s[1] = "bot_name" /\ (Len(s) > 1 => s[2] = "blank")

\* What a WeChat message says, and when it is taken to mention the bot.
LEMMA WeChatPartsSay ==
    ASSUME NamesAssumption, NEW p, WeChatPayload(p), Decoded(p)
    PROVE  LET text == p.message.text
               ev == decode_webhook_event(p)
           IN /\ ev.parts \in Seq(WeChatTokens) /\ text \in Seq(WeChatTokens)
              /\ WrittenIn(ev.parts) = WrittenIn(text)
              /\ ~Headed(p.message) =>
                    /\ ev.parts = strip_leading_mention(Trim(text))
                    /\ "at_bot" \in ev.mentions <=> NamedAtFront(Trim(text))
<1> DEFINE m == p.message
           text == m.text
           t == Trim(text)
           ev == decode_webhook_event(p)
           body == extract_content(unwrap_event(Webhook(p)))
           T == WeChatTokens
           S == ToSet(text)
<1>1. /\ ev.parts = strip_leading_mention(body)
      /\ ev.mentions = IF ev.parts # body THEN {"at_bot"} ELSE {}
      /\ body = t \/ (Headed(m) /\ body = Trim(Tail(t)))
  BY WeChatEvent
<1>2. text \in Seq(T) /\ t \in Seq(T) /\ IsSolid(t)
  BY SolidText
<1>3. Headed(m) <=> Len(t) > 1 /\ Head(t) \in Headings
  BY Zenon DEF Headed
<1>. HIDE DEF text, ev, body, T
<1>4. text \in Seq(S)
  BY <1>2, OwnElements
<1>5. t \in Seq(S)
  BY <1>4, TrimType
<1>. HIDE DEF S
<1>6. t # << >> /\ Head(t) = t[1]
  <2>. HIDE DEF t
  <2>1. t # << >>
    BY <1>2 DEF IsSolid
  <2>. QED  BY <1>2, <2>1, HeadAndTail
<1>. HIDE DEF t
<1>7. Tail(t) \in Seq(T) /\ Tail(t) \in Seq(S)
  BY <1>2, <1>5, <1>6, HeadAndTail
<1>8. body \in Seq(T) /\ body \in Seq(S)
  BY <1>1, <1>2, <1>5, <1>7, TrimType
<1>9. T \subseteq Tokens
  BY TokenSets DEF T
<1>10. /\ text \in Seq(Tokens) /\ t \in Seq(Tokens) /\ body \in Seq(Tokens)
       /\ Tail(t) \in Seq(Tokens)
  BY <1>2, <1>7, <1>8, <1>9, SeqMonotonic
<1>11. WrittenIn(t) = WrittenIn(text)
  BY <1>10, WrittenOfTrim DEF t
<1>12. WrittenIn(body) = WrittenIn(t)
  <2>1. ASSUME Headed(m) PROVE WrittenIn(Trim(Tail(t))) = WrittenIn(t)
    <3>1. t[1] \in Headings
      BY <1>3, <1>6, <2>1
    <3>2. t[1] \notin Words
      BY <3>1 DEF NamesAssumption, Words, Literals, Written
    <3>3. WrittenIn(Tail(t)) = WrittenIn(t)
      BY <1>6, <1>10, <3>2, WrittenOfTail
    <3>. QED  BY <1>10, <3>3, WrittenOfTrim
  <2>. QED  BY <1>1, <2>1
<1>13. WrittenIn(ev.parts) = WrittenIn(text) /\ ev.parts \in Seq(T)
  BY <1>1, <1>8, <1>10, <1>11, <1>12, WrittenOfStripped, StrippedParts
<1>14. ev.parts # body <=> NamedAtFront(body)
  BY <1>1, <1>8, StrippedParts DEF NamedAtFront
<1>15. ASSUME ~Headed(m)
       PROVE  ev.parts = strip_leading_mention(t) /\ ("at_bot" \in ev.mentions <=> NamedAtFront(t))
  <2>1. body = t
    BY <1>1, <1>15
  <2>. QED  BY <1>1, <1>14, <2>1
<1>. QED  BY <1>2, <1>13, <1>15 DEF t, text, ev, T

\* Nothing is left to trigger when there is the bot's name alone.
LEMMA StrippedTrigger ==
    ASSUME NEW S, NEW t \in Seq(S), IsSolid(t)
    PROVE  canonical_trigger_text(strip_leading_mention(t)) = << >> <=> t = <<"bot_name">>
<1> DEFINE n == Len(t)
           r == Tail(t)
           k == Len(r)
           parts == strip_leading_mention(t)
           name == <<"bot_name">>
<1>1. n \in Nat /\ n # 0 /\ t # << >> /\ t[n] # "blank"
  BY LenProperties, EmptySeq DEF IsSolid
<1>2. r \in Seq(S) /\ k = n - 1 /\ \A i \in 1..k : r[i] = t[i + 1]
  BY <1>1, HeadAndTail
<1>3. /\ parts \in Seq(S)
      /\ parts # t <=> NamedAtFront(t)
      /\ NamedAtFront(t) => parts = Trim(r)
  BY StrippedParts DEF NamedAtFront
<1>4. canonical_trigger_text(parts) = << >> <=> \A i \in 1..Len(parts) : parts[i] = "blank"
  <2>1. parts \in Seq(S)
    BY <1>3
  <2>. HIDE DEF parts
  <2>. QED  BY <2>1, NoTriggerText
<1>5. name \in Seq({"bot_name"}) /\ Len(name) = 1 /\ name[1] = "bot_name" /\ name # << >>
  OBVIOUS
<1>. HIDE DEF n, r, k, parts, name
<1>6. CASE ~NamedAtFront(t)
  <2>1. n \in 1..Len(parts) /\ parts[n] # "blank"
    <3>1. parts = t
      BY <1>3, <1>6, Zenon
    <3>2. n \in 1..n /\ n = Len(t)
      BY <1>1 DEF n
    <3>. QED  BY <1>1, <3>1, <3>2
  <2>2. t # name
    <3>1. name # << >> /\ ~(Len(name) > 1)
      BY <1>5
    <3>. QED  BY <1>5, <1>6, <3>1 DEF NamedAtFront
  <2>. QED  BY <1>4, <2>1, <2>2 DEF parts, name
<1>7. CASE NamedAtFront(t) /\ n = 1
  <2>1. \A i \in 1..Len(r) : r[i] = "blank"
    BY <1>2, <1>7 DEF k
  <2>2. parts = << >>
    BY <1>2, <1>3, <1>7, <2>1, TrimOfBlanks
  <2>3. canonical_trigger_text(parts) = << >>
    BY <1>4, <2>2
  <2>4. t = name
    <3>1. t[1] = "bot_name" /\ Len(t) = 1
      BY <1>7 DEF NamedAtFront, n
    <3>2. \A i \in 1..1 : t[i] = name[i]
      BY <1>5, <3>1
    <3>. QED  BY <1>5, <3>1, <3>2, SeqEqual
  <2>. QED  BY <2>3, <2>4 DEF parts, name
<1>8. CASE NamedAtFront(t) /\ n # 1
  <2>1. k \in 1..k /\ k + 1 = n /\ k = Len(r)
    BY <1>1, <1>2, <1>8 DEF k
  <2>2. r[k] # "blank"
    BY <1>1, <1>2, <2>1
  <2>3. parts = Trim(r) /\ IsSolid(parts)
    BY <1>2, <1>3, <1>8, <2>1, <2>2, TrimmedText
  <2>4. parts[Len(parts)] # "blank" /\ Len(parts) \in Nat /\ Len(parts) # 0
    BY <1>3, <2>3, LenProperties, EmptySeq DEF IsSolid
  <2>5. Len(parts) \in 1..Len(parts)
    BY <2>4
  <2>6. t # name
    BY <1>5, <1>8 DEF n
  <2>. QED  BY <1>4, <2>4, <2>5, <2>6 DEF parts, name
<1>. QED  BY <1>6, <1>7, <1>8

\* The command is one, also behind the bot's name.
LEMMA WeChatCommand ==
    ASSUME NamesAssumption, NEW p, WeChatPayload(p), Decoded(p),
           Trim(p.message.text) \in {<<"command">>, <<"bot_name", "blank", "command">>}
    PROVE  canonical_trigger_text(decode_webhook_event(p).parts) = <<"command">>
<1> DEFINE m == p.message
           text == m.text
           t == Trim(text)
           parts == decode_webhook_event(p).parts
           body == extract_content(unwrap_event(Webhook(p)))
           d == <<"command">>
           e == << >>
           b == <<"blank">>
           V == {"bot_name", "blank", "command"}
           all == <<"bot_name", "blank", "command">>
<1>1. parts = strip_leading_mention(body) /\ (body = t \/ Headed(m))
  BY WeChatEvent
<1>2. Headed(m) <=> Len(t) > 1 /\ Head(t) \in Headings
  BY Zenon DEF Headed
<1>3. t = d \/ t = all
  OBVIOUS
<1>4. "bot_name" \notin Headings
  BY DEF NamesAssumption, Literals
<1>5. d \in Seq(V) /\ Len(d) = 1 /\ d[1] = "command" /\ d # << >> /\ IsSolid(d) /\ ~(Len(d) > 1)
  BY DEF IsSolid
<1>6. /\ all \in Seq(V) /\ Len(all) = 3 /\ all[1] = "bot_name" /\ all[2] = "blank" /\ all # << >>
      /\ Head(all) = "bot_name" /\ Tail(all) = b \o d /\ IsSolid(all)
  BY DEF IsSolid
<1>7. e \in Seq(Blanks) /\ b \in Seq(Blanks) /\ e \in Seq(Skipped)
  BY EmptySeq DEF Blanks
<1>. HIDE DEF e, b, V, parts, body, t, text
<1>8. canonical_trigger_text(d) = d
  <2>1. canonical_trigger_text(e \o (<<"command">> \o e)) = <<"command">>
    BY <1>7, CommandBehind
  <2>. HIDE DEF d
  <2>2. d \o e = d /\ e \o d = d
    BY <1>5, ConcatEmptySeq DEF e
  <2>3. canonical_trigger_text(e \o (d \o e)) = d
    BY <2>1 DEF d
  <2>. QED  BY <2>2, <2>3
<1>. HIDE DEF d, all
<1>9. ASSUME t = d PROVE parts = d
  <2>1. body = d
    <3>1. ~(Len(t) > 1)
      BY <1>5, <1>9, Zenon
    <3>2. ~Headed(m)
      BY <1>2, <3>1
    <3>. QED  BY <1>1, <1>9, <3>2
  <2>2. strip_leading_mention(d) = d
    BY <1>5, StrippedParts
  <2>. QED  BY <1>1, <2>1, <2>2
<1>10. ASSUME t = all PROVE parts = d
  <2>1. body = all
    BY <1>1, <1>2, <1>4, <1>6, <1>10
  <2>2. strip_leading_mention(all) = Trim(b \o d)
    BY <1>6, StrippedParts
  <2>3. Trim(b \o d) = d
    <3>1. Trim(b \o d \o e) = d
      BY <1>5, <1>7, TrimOfPadded
    <3>2. b \in Seq(V) /\ b \o d \in Seq(V)
      <4>1. b \in Seq(V)
        BY <1>7 DEF b, V
      <4>. QED  BY <1>5, <4>1, ConcatProperties
    <3>3. (b \o d) \o e = b \o d
      BY <3>2, ConcatEmptySeq DEF e
    <3>. QED  BY <3>1, <3>3
  <2>. QED  BY <1>1, <2>1, <2>2, <2>3
<1>11. parts = d
  BY <1>3, <1>9, <1>10
<1>. QED  BY <1>8, <1>11 DEF d, parts

-----------------------------------------------------------------------------
(* The invariant: what each part of the state was made from *)

\* The event is what the webhook is decoded to, and without one nothing has happened.
DecodedInv ==
    /\ payload \in Payloads
    /\ event # None => event = decode_event(payload)
    /\ event = None => history.state = "pending" /\ request = None /\ context = None

\* What came of storing it depends on the event alone, unless it failed.
StoredInv ==
    /\ history.state = "textless" => storage_plain_text(event.parts) = << >>
    /\ history.state = "stored" => history.row = Row(event)
    /\ history.state \in {"pending", "failed", "textless", "stored"}

\* So do the run, where answers go, and whether there is one.
AnsweredInv ==
    /\ request # None => /\ history.state # "pending" /\ resolve(event) = "run"
                         /\ request = build_run_request_from_event(event)
    /\ context # None => context = delivery_context_from_event(event)
    /\ event # None /\ answer # "pending" => (answer = "ignored" <=> resolve(event) = "ignore")

IngressInv == DecodedInv /\ StoredInv /\ AnsweredInv

\* At first nothing has been made.
LEMMA InitIngress == IngressInit => IngressInv
BY DEF IngressInit, IngressInv, DecodedInv, StoredInv, AnsweredInv

\* Each step makes what it makes from the event, and only once.
LEMMA NextIngress == IngressInv /\ [IngressNext]_vars => IngressInv'
<1>. SUFFICES ASSUME IngressInv, [IngressNext]_vars PROVE IngressInv'
  OBVIOUS
<1>. USE DEF IngressInv, DecodedInv, StoredInv, AnsweredInv
<1>1. CASE RejectPayload
  BY <1>1 DEF RejectPayload
<1>2. CASE IgnorePayload
  BY <1>2 DEF IgnorePayload
<1>3. CASE DecodePayload
  BY <1>3 DEF DecodePayload
<1>4. CASE MirrorEvent
  BY <1>4 DEF MirrorEvent
<1>5. CASE MirrorFails
  BY <1>5 DEF MirrorFails
<1>6. CASE IgnoreEvent
  BY <1>6 DEF IgnoreEvent, Decided
<1>7. CASE AnswerStatus
  BY <1>7 DEF AnswerStatus, Decided
<1>8. CASE SubmitRun
  BY <1>8 DEF SubmitRun, Decided
<1>9. CASE UNCHANGED vars
  BY <1>9 DEF vars
<1>. QED  BY <1>1, <1>2, <1>3, <1>4, <1>5, <1>6, <1>7, <1>8, <1>9 DEF IngressNext

\* The invariant holds in every state.
LEMMA AlwaysIngress == IngressSpec => []IngressInv
BY InitIngress, NextIngress, PTL DEF IngressSpec

-----------------------------------------------------------------------------
(* Events *)

\* A webhook is of one platform, and its message may come in another shape.
LEMMA PayloadKinds ==
    ASSUME PayloadsAssumption, NEW p \in Payloads
    PROVE  /\ p.message.scope \in Scopes /\ p.message.room \in Rooms /\ p.message.author \in Users
           /\ \/ p.message.platform = "qq" /\ QqPayload(p)
              \/ p.message.platform = "wechatpadpro" /\ WeChatPayload(p)
           /\ \A s \in ShapesOf(p.message) :
                LET q == [p EXCEPT !.shape = s] IN
                /\ q.message = p.message /\ q.kind = p.kind /\ q.shape = s
                /\ QqPayload(p) /\ p.message.platform = "qq" => QqPayload(q)
                /\ WeChatPayload(p) => WeChatPayload(q)
<1>1. p \in [message : Message, kind : Kinds, shape : QqShapes \cup GroupShapes \cup PrivateShapes]
      /\ p.shape \in ShapesOf(p.message)
  BY DEF PayloadsAssumption
<1>2. p.message \in Message
  BY <1>1
<1>3. CASE p.message \in [platform : {"qq"}, scope : Scopes, room : Rooms, author : Users,
                          text : Seq(QqTokens)]
  <2>1. /\ p.message.scope \in Scopes /\ p.message.room \in Rooms /\ p.message.author \in Users
        /\ p.message.platform = "qq" /\ p.message.text \in Seq(QqTokens)
    BY <1>3
  <2>2. ShapesOf(p.message) = QqShapes
    BY <2>1 DEF ShapesOf
  <2>3. ASSUME NEW s \in QqShapes
        PROVE  LET q == [p EXCEPT !.shape = s] IN
               q.message = p.message /\ q.kind = p.kind /\ q.shape = s
    BY <1>1
  <2>. QED  BY <1>1, <2>1, <2>2, <2>3 DEF QqPayload, WeChatPayload
<1>4. CASE p.message \in [platform : {"wechatpadpro"}, scope : Scopes, room : Rooms,
                          author : Users, text : SolidTexts, quotes : BOOLEAN]
  <2>1. /\ p.message.scope \in Scopes /\ p.message.room \in Rooms /\ p.message.author \in Users
        /\ p.message.platform = "wechatpadpro" /\ p.message.text \in SolidTexts
        /\ p.message.quotes \in BOOLEAN
    BY <1>4
  <2>2. ASSUME NEW s
        PROVE  LET q == [p EXCEPT !.shape = s] IN
               q.message = p.message /\ q.kind = p.kind /\ q.shape = s
    BY <1>1
  <2>. QED  BY <1>1, <2>1, <2>2 DEF WeChatPayload
<1>. QED  BY <1>2, <1>3, <1>4 DEF Message

\* What a QQ message is decoded to, and what is decided about it.
LEMMA QqEvent ==
    ASSUME NEW p, QqPayload(p), p.message.scope \in Scopes, p.kind = "message"
    PROVE  LET m == p.message
               text == m.text
               ev == decode_napcat_event(p)
               ignored == \/ m.scope = "private" /\ ~Has(text, Tokens \ {"blank", "quote"})
                          \/ m.scope = "group" /\ ~Has(text, {"at_bot"})
           IN /\ ev.parts = qq_parts(p)
              /\ ev.actor = m.author /\ ev.conversation = <<"qq", m.scope, ChatOf(m)>>
              /\ ev.reply_to = Has(text, {"quote"})
              /\ resolve(ev) = "ignore" <=> ignored
              /\ ~Has(text, {"picture", "quote"}) =>
                    resolve(ev) = IF ignored THEN "ignore"
                                  ELSE IF canonical_trigger_text(text) = <<"command">> THEN "status"
                                  ELSE "run"
              /\ Trim(text) \in {<<"command">>, <<"at_bot", "command">>} => resolve(ev) # "run"
<1> DEFINE m == p.message
           text == m.text
           ev == decode_napcat_event(p)
           parts == qq_parts(p)
           trigger == canonical_trigger_text(parts)
           ignored == \/ m.scope = "private" /\ ~Has(text, Tokens \ {"blank", "quote"})
                      \/ m.scope = "group" /\ ~Has(text, {"at_bot"})
<1>1. ev = [conversation |-> <<"qq", m.scope, IF m.scope = "group" THEN m.room ELSE m.author>>,
            actor |-> m.author, parts |-> parts,
            mentions |-> TokensOf(parts) \cap Mentions, reply_to |-> qq_reply_to(p)]
  BY Zenon DEF decode_napcat_event
<1>2. /\ parts \in Seq(Tokens) /\ text \in Seq(Tokens)
      /\ \A U \in SUBSET Mentions : Those(parts, U) = Those(text, U)
  BY QqPartsSay
<1>3. /\ trigger = << >> <=> ~Has(text, Tokens \ {"blank", "quote"})
      /\ ~Has(text, {"picture", "quote"}) =>
            (trigger = <<"command">> <=> canonical_trigger_text(text) = <<"command">>)
      /\ Trim(text) \in {<<"command">>, <<"at_bot", "command">>} => trigger = <<"command">>
  BY QqTriggers
<1>4. qq_reply_to(p) = Has(text, {"quote"})
  <2>1. qq_reply_to(p) \in BOOLEAN /\ Has(text, {"quote"}) \in BOOLEAN
    BY DEF qq_reply_to, Has
  <2>2. qq_reply_to(p) <=> Has(text, {"quote"})
    BY QqReplies
  <2>. QED  BY <2>1, <2>2
<1>. HIDE DEF text, ev, parts, trigger
<1>5. "at_bot" \in TokensOf(parts) \cap Mentions <=> Has(text, {"at_bot"})
  <2>1. {"at_bot"} \in SUBSET Mentions
    BY DEF Mentions
  <2>2. Those(parts, {"at_bot"}) = Those(text, {"at_bot"})
    BY <1>2, <2>1
  <2>3. /\ Has(parts, {"at_bot"}) <=> Those(parts, {"at_bot"}) # << >>
        /\ Has(text, {"at_bot"}) <=> Those(text, {"at_bot"}) # << >>
        /\ Has(parts, {"at_bot"}) <=> ToSet(parts) \cap {"at_bot"} # {}
    BY <1>2, HasThose
  <2>4. "at_bot" \in ToSet(parts) <=> ToSet(parts) \cap {"at_bot"} # {}
    OBVIOUS
  <2>. QED  BY <2>1, <2>2, <2>3, <2>4 DEF TokensOf
<1>6. /\ ev.parts = parts /\ ev.actor = m.author /\ ev.reply_to = qq_reply_to(p)
      /\ ev.mentions = TokensOf(parts) \cap Mentions
      /\ ev.conversation = <<"qq", m.scope, ChatOf(m)>> /\ conversation_scope(ev) = m.scope
  BY <1>1 DEF ChatOf, conversation_scope
<1>7. resolve(ev) = IF \/ m.scope = "private" /\ trigger = << >>
                       \/ m.scope = "group" /\ "at_bot" \notin TokensOf(parts) \cap Mentions
                    THEN "ignore"
                    ELSE IF trigger = <<"command">> THEN "status" ELSE "run"
  BY <1>6 DEF resolve, trigger
<1>8. resolve(ev) = IF ignored THEN "ignore"
                    ELSE IF trigger = <<"command">> THEN "status" ELSE "run"
  BY <1>3, <1>5, <1>7
<1>9. resolve(ev) = "ignore" <=> ignored
  BY <1>8
<1>10. ASSUME ~Has(text, {"picture", "quote"})
       PROVE  resolve(ev) = IF ignored THEN "ignore"
                            ELSE IF canonical_trigger_text(text) = <<"command">> THEN "status"
                            ELSE "run"
  <2>1. trigger = <<"command">> <=> canonical_trigger_text(text) = <<"command">>
    BY <1>3, <1>10
  <2>. QED  BY <1>8, <2>1, Zenon
<1>11. Trim(text) \in {<<"command">>, <<"at_bot", "command">>} => resolve(ev) # "run"
  BY <1>3, <1>8
<1>. QED  BY <1>4, <1>6, <1>9, <1>10, <1>11 DEF text, ev, parts

\* What a WeChat message is decoded to, and what is decided about it.
LEMMA WeChatDecision ==
    ASSUME NamesAssumption, NEW p, WeChatPayload(p), Decoded(p)
    PROVE  LET m == p.message
               text == m.text
               ev == decode_webhook_event(p)
           IN /\ ~Headed(m) /\ m.scope = "private"
                    => (resolve(ev) # "ignore" <=> Trim(text) # <<"bot_name">>)
              /\ ~Headed(m) /\ m.scope = "group"
                    => (resolve(ev) # "ignore" <=> NamedAtFront(Trim(text)))
              /\ Trim(text) \in {<<"command">>, <<"bot_name", "blank", "command">>}
                    => resolve(ev) # "run"
<1> DEFINE m == p.message
           text == m.text
           ev == decode_webhook_event(p)
           trigger == canonical_trigger_text(ev.parts)
<1>1. conversation_scope(ev) = m.scope
  BY WeChatEvent
<1>2. resolve(ev) = IF \/ m.scope = "private" /\ trigger = << >>
                       \/ m.scope = "group" /\ "at_bot" \notin ev.mentions
                    THEN "ignore"
                    ELSE IF trigger = <<"command">> THEN "status" ELSE "run"
  BY <1>1 DEF resolve
<1>3. ~Headed(m) => /\ ev.parts = strip_leading_mention(Trim(text))
                    /\ "at_bot" \in ev.mentions <=> NamedAtFront(Trim(text))
  BY WeChatPartsSay
<1>4. Trim(text) \in {<<"command">>, <<"bot_name", "blank", "command">>}
         => trigger = <<"command">>
  BY WeChatCommand
<1>5. canonical_trigger_text(strip_leading_mention(Trim(text))) = << >>
        <=> Trim(text) = <<"bot_name">>
  BY SolidText, StrippedTrigger
<1>. HIDE DEF ev, text, trigger
<1>6. ~Headed(m) => (trigger = << >> <=> Trim(text) = <<"bot_name">>)
  BY <1>3, <1>5 DEF trigger
<1>7. ~Headed(m) /\ m.scope = "private"
         => (resolve(ev) # "ignore" <=> Trim(text) # <<"bot_name">>)
  BY <1>2, <1>6
<1>8. ~Headed(m) /\ m.scope = "group"
         => (resolve(ev) # "ignore" <=> NamedAtFront(Trim(text)))
  BY <1>2, <1>3
<1>9. Trim(text) \in {<<"command">>, <<"bot_name", "blank", "command">>}
         => resolve(ev) # "run"
  BY <1>2, <1>4
<1>. QED  BY <1>7, <1>8, <1>9 DEF ev, text

-----------------------------------------------------------------------------
(* The properties *)

\* The event and its payload, as a property of a state has them.
LEMMA EventInHand ==
    ASSUME NamesAssumption, PayloadsAssumption, IngressInv, event # None
    PROVE  /\ payload \in Payloads /\ event = decode_event(payload)
           /\ \/ /\ message.platform = "qq" /\ QqPayload(payload)
                 /\ event = decode_napcat_event(payload) /\ payload.kind = "message"
              \/ /\ message.platform = "wechatpadpro" /\ WeChatPayload(payload)
                 /\ event = decode_webhook_event(payload) /\ Decoded(payload)
           /\ message.scope \in Scopes
           /\ conversation_scope(event) = message.scope
<1>1. payload \in Payloads /\ event = decode_event(payload)
  BY DEF IngressInv, DecodedInv
<1>2. /\ message.scope \in Scopes
      /\ \/ message.platform = "qq" /\ QqPayload(payload)
         \/ message.platform = "wechatpadpro" /\ WeChatPayload(payload)
  BY <1>1, PayloadKinds DEF message
<1>3. CASE message.platform = "qq" /\ QqPayload(payload)
  <2>1. event = decode_napcat_event(payload)
    BY <1>1, <1>3 DEF decode_event, message
  <2>2. payload.kind = "message"
    BY <2>1 DEF decode_napcat_event
  <2>3. event.conversation = <<"qq", message.scope, ChatOf(message)>>
    BY <1>2, <1>3, <2>1, <2>2, QqEvent DEF message
  <2>. QED  BY <1>1, <1>2, <1>3, <2>1, <2>2, <2>3 DEF conversation_scope
<1>4. CASE message.platform = "wechatpadpro" /\ WeChatPayload(payload)
  <2>1. event = decode_webhook_event(payload)
    BY <1>1, <1>4 DEF decode_event, message
  <2>2. Decoded(payload)
    <3> DEFINE e == unwrap_event(Webhook(payload))
    <3>1. payload.shape \in GroupShapes \cup PrivateShapes /\ payload.kind \in Kinds
      BY <1>1, <1>4 DEF WeChatPayload, ShapesOf, PayloadsAssumption
    <3>2. /\ e.id = (payload.kind # "unidentified")
          /\ payload.kind = "notice" => e.msgType = "other"
      BY <3>1, EventFields
    <3>. HIDE DEF e
    <3>3. is_text_event(e) /\ e.id
      BY <2>1, Zenon DEF decode_webhook_event, e
    <3>4. payload.kind # "contentless"
      BY <1>4, <2>1, ContentlessEvent
    <3>5. payload.kind # "notice"
      BY <3>2, <3>3 DEF is_text_event, Absent
    <3>. QED  BY <3>1, <3>2, <3>3, <3>4, <3>5 DEF Decoded, Kinds
  <2>3. conversation_scope(event) = message.scope
    BY <1>4, <2>1, <2>2, WeChatEvent DEF message
  <2>. QED  BY <1>1, <1>2, <1>4, <2>1, <2>2, <2>3
<1>. QED  BY <1>2, <1>3, <1>4

\* The adapters find the chat and the author; the context is made of them.
LEMMA AuthorsAreReached ==
    ASSUME NamesAssumption, PayloadsAssumption, IngressInv
    PROVE  AnswersReachTheAuthor
<1>. SUFFICES ASSUME event # None, ~TakenForSender(payload)
              PROVE  /\ event.conversation = <<message.platform, message.scope, ChatOf(message)>>
                     /\ event.actor = message.author
                     /\ context # None =>
                          /\ context.scope = message.scope /\ context.target = ChatOf(message)
                          /\ context.mention = IF message.scope = "group" THEN message.author
                                               ELSE Absent
  BY DEF AnswersReachTheAuthor
<1>1. /\ event.conversation = <<message.platform, message.scope, ChatOf(message)>>
      /\ event.actor = message.author
  <2>1. CASE /\ message.platform = "qq" /\ QqPayload(payload)
             /\ event = decode_napcat_event(payload) /\ payload.kind = "message"
    BY <2>1, EventInHand, QqEvent DEF message
  <2>2. CASE /\ message.platform = "wechatpadpro" /\ WeChatPayload(payload)
             /\ event = decode_webhook_event(payload) /\ Decoded(payload)
    BY <2>2, WeChatEvent DEF message
  <2>. QED  BY <2>1, <2>2, EventInHand
<1>2. conversation_scope(event) = message.scope
  BY EventInHand
<1>3. event.conversation[3] = ChatOf(message)
  BY <1>1
<1>4. ASSUME context # None
      PROVE  /\ context.scope = message.scope /\ context.target = ChatOf(message)
             /\ context.mention = IF message.scope = "group" THEN message.author ELSE Absent
  <2>1. context = [scope |-> conversation_scope(event), target |-> event.conversation[3],
                   mention |-> IF conversation_scope(event) = "group" THEN event.actor ELSE Absent]
    BY <1>4 DEF IngressInv, AnsweredInv, delivery_context_from_event
  <2>. QED  BY <1>1, <1>2, <1>3, <2>1
<1>. QED  BY <1>1, <1>4

\* What is decided about the parts is what the text says.
LEMMA TriggersAre ==
    ASSUME NamesAssumption, PayloadsAssumption, IngressInv
    PROVE  TriggersFitTheMessage
<1> DEFINE tokens == TokensOf(message.text)
           text == Trim(message.text)
           commands == {<<"command">>, <<"at_bot", "command">>, <<"bot_name", "blank", "command">>}
           asked == CASE message.platform = "qq" /\ message.scope = "private" ->
                            ~(tokens \subseteq {"blank", "quote"})
                      [] message.platform = "qq" /\ message.scope = "group" -> "at_bot" \in tokens
                      [] message.platform # "qq" /\ message.scope = "private" ->
                            text # <<"bot_name">>
                      [] OTHER -> BotInFront(text)
<1>. SUFFICES ASSUME answer # "pending", event # None, ~Headed(message)
              PROVE  /\ answer # "ignored" <=> asked
                     /\ text \in commands => request = None
  BY Zenon DEF TriggersFitTheMessage
<1>1. /\ answer # "ignored" <=> resolve(event) # "ignore"
      /\ resolve(event) # "run" => request = None
  BY DEF IngressInv, AnsweredInv
<1>2. message.scope \in {"group", "private"}
  BY EventInHand DEF Scopes
<1>3. CASE /\ message.platform = "qq" /\ QqPayload(payload)
           /\ event = decode_napcat_event(payload) /\ payload.kind = "message"
  <2> DEFINE s == message.text
  <2>1. /\ s \in Seq(Tokens) /\ s \in Seq(QqTokens)
        /\ resolve(event) = "ignore" <=>
             \/ message.scope = "private" /\ ~Has(s, Tokens \ {"blank", "quote"})
             \/ message.scope = "group" /\ ~Has(s, {"at_bot"})
        /\ text \in {<<"command">>, <<"at_bot", "command">>} => resolve(event) # "run"
    BY <1>3, EventInHand, QqEvent, QqPartsSay DEF message, QqPayload
  <2>2. \A T : Has(s, T) <=> tokens \cap T # {}
    BY <2>1, HasThose DEF TokensOf
  <2>3. tokens \subseteq Tokens
    BY <2>1, OwnElements DEF TokensOf
  <2>4. text # <<"bot_name", "blank", "command">>
    <3>1. text \in Seq(QqTokens)
      BY <2>1, TrimType
    <3>2. "bot_name" \notin QqTokens
      BY DEF QqTokens, Written, Mentions, Others
    <3>. HIDE DEF text
    <3>3. text # << >> => text[1] # "bot_name"
      BY <3>1, <3>2, HeadAndTail
    <3>. QED  BY <3>3
  <2>. HIDE DEF s, tokens, text
  <2>5. asked <=> IF message.scope = "private" THEN ~(tokens \subseteq {"blank", "quote"})
                  ELSE "at_bot" \in tokens
    BY <1>2, <1>3
  <2>. HIDE DEF asked
  <2>7. Has(s, {"at_bot"}) <=> "at_bot" \in tokens
    BY <2>2
  <2>8. Has(s, Tokens \ {"blank", "quote"}) <=> ~(tokens \subseteq {"blank", "quote"})
    BY <2>2, <2>3
  <2>9. resolve(event) # "ignore" <=> asked
    BY <1>2, <2>1, <2>5, <2>7, <2>8
  <2>. QED  BY <1>1, <2>1, <2>4, <2>9
<1>4. CASE /\ message.platform = "wechatpadpro" /\ WeChatPayload(payload)
           /\ event = decode_webhook_event(payload) /\ Decoded(payload)
  <2>1. /\ message.scope = "private"
             => (resolve(event) # "ignore" <=> text # <<"bot_name">>)
        /\ message.scope = "group" => (resolve(event) # "ignore" <=> NamedAtFront(text))
        /\ text \in {<<"command">>, <<"bot_name", "blank", "command">>} => resolve(event) # "run"
    BY <1>4, WeChatDecision DEF message
  <2>2. text \in Seq(WeChatTokens) /\ IsSolid(text)
    BY <1>4, SolidText DEF message
  <2>. HIDE DEF text
  <2>3. text # << >> /\ Head(text) = text[1] /\ text[1] \in WeChatTokens
    BY <2>2, HeadAndTail DEF IsSolid
  <2>4. BotInFront(text) <=> NamedAtFront(text)
    BY <2>3 DEF BotInFront, NamedAtFront
  <2>5. text # <<"at_bot", "command">>
    <3>1. "at_bot" \notin WeChatTokens
      BY DEF WeChatTokens, Written, NamesAssumption, Literals, Mentions
    <3>. QED  BY <2>3, <3>1
  <2>6. asked <=> IF message.scope = "private" THEN text # <<"bot_name">> ELSE BotInFront(text)
    BY <1>2, <1>4
  <2>. HIDE DEF asked
  <2>7. resolve(event) # "ignore" <=> asked
    BY <1>2, <2>1, <2>4, <2>6
  <2>. QED  BY <1>1, <2>1, <2>5, <2>7
<1>. QED  BY <1>3, <1>4, EventInHand

\* What the parts of an event say.
LEMMA EventSays ==
    ASSUME NamesAssumption, PayloadsAssumption, IngressInv, event # None
    PROVE  /\ event.parts \in Seq(Tokens) /\ WrittenIn(event.parts) = WrittenIn(message.text)
           /\ Those(event.parts, Others) = Those(message.text, Others)
<1>1. CASE /\ message.platform = "qq" /\ QqPayload(payload)
           /\ event = decode_napcat_event(payload) /\ payload.kind = "message"
  <2>1. event.parts = qq_parts(payload)
    BY <1>1, EventInHand, QqEvent DEF message
  <2>2. /\ qq_parts(payload) \in Seq(Tokens)
        /\ WrittenIn(qq_parts(payload)) = WrittenIn(message.text)
        /\ \A U \in SUBSET Mentions : Those(qq_parts(payload), U) = Those(message.text, U)
    BY <1>1, QqPartsSay DEF message
  <2>. QED  BY <2>1, <2>2, TokenSets
<1>2. CASE /\ message.platform = "wechatpadpro" /\ WeChatPayload(payload)
           /\ event = decode_webhook_event(payload) /\ Decoded(payload)
  <2>1. /\ event.parts \in Seq(WeChatTokens) /\ message.text \in Seq(WeChatTokens)
        /\ WrittenIn(event.parts) = WrittenIn(message.text)
    BY <1>2, WeChatPartsSay DEF message
  <2>2. \A x \in WeChatTokens : x \notin Others
    BY DEF WeChatTokens, Written, Others, NamesAssumption, Literals, Mentions
  <2>3. ASSUME NEW s \in Seq(WeChatTokens) PROVE Those(s, Others) = << >>
    <3>1. \A i \in 1..Len(s) : s[i] \notin Others
      BY <2>2, ElementOfSeq
    <3>. QED  BY <3>1, ThoseAreBoth
  <2>4. event.parts \in Seq(Tokens)
    BY <2>1, SeqMonotonic, TokenSets
  <2>. QED  BY <2>1, <2>3, <2>4
<1>. QED  BY <1>1, <1>2, EventInHand

\* What an event says was quoted.
LEMMA EventQuotes ==
    ASSUME NamesAssumption, PayloadsAssumption, IngressInv, event # None
    PROVE  event.reply_to = Quotes(message)
<1>1. CASE /\ message.platform = "qq" /\ QqPayload(payload)
           /\ event = decode_napcat_event(payload) /\ payload.kind = "message"
  <2>1. event.reply_to = Has(message.text, {"quote"}) /\ message.text \in Seq(Tokens)
    BY <1>1, EventInHand, QqEvent, QqPartsSay DEF message
  <2>2. Has(message.text, {"quote"}) <=> "quote" \in TokensOf(message.text)
    BY <2>1, HasThose DEF TokensOf
  <2>3. Quotes(message) = ("quote" \in TokensOf(message.text))
    BY <1>1, Zenon DEF Quotes
  <2>4. Has(message.text, {"quote"}) \in BOOLEAN
    BY DEF Has
  <2>. QED  BY <2>1, <2>2, <2>3, <2>4
<1>2. CASE /\ message.platform = "wechatpadpro" /\ WeChatPayload(payload)
           /\ event = decode_webhook_event(payload) /\ Decoded(payload)
  BY <1>2, WeChatEvent DEF Quotes, message
<1>. QED  BY <1>1, <1>2, EventInHand

\* Without a heading the event depends on the message alone.
LEMMA PlainEvent ==
    ASSUME NamesAssumption, NEW p, WeChatPayload(p), Decoded(p), ~Headed(p.message)
    PROVE  LET m == p.message
               t == Trim(m.text)
               ev == decode_webhook_event(p)
           IN /\ ev.actor = m.author /\ ev.conversation = <<"wechatpadpro", m.scope, ChatOf(m)>>
              /\ ev.parts = strip_leading_mention(t) /\ ev.reply_to = m.quotes
              /\ ev.mentions = IF strip_leading_mention(t) # t THEN {"at_bot"} ELSE {}
<1> DEFINE m == p.message
           t == Trim(m.text)
           ev == decode_webhook_event(p)
           body == extract_content(unwrap_event(Webhook(p)))
<1>1. ~TakenForSender(p)
  BY DEF TakenForSender
<1>2. /\ ev.actor = m.author /\ ev.conversation = <<"wechatpadpro", m.scope, ChatOf(m)>>
      /\ ev.parts = strip_leading_mention(body) /\ ev.reply_to = m.quotes
      /\ ev.mentions = IF ev.parts # body THEN {"at_bot"} ELSE {}
      /\ body = t
  BY <1>1, WeChatEvent
<1>. HIDE DEF t, ev, body
<1>. QED  BY <1>2 DEF t, ev

\* The decision depends on what is selected from the text, and that is the same.
LEMMA ShapesAreAlike ==
    ASSUME NamesAssumption, PayloadsAssumption, IngressInv
    PROVE  ShapeMakesNoDifference
<1>. SUFFICES ASSUME event # None, ~Headed(message), NEW s \in ShapesOf(message)
              PROVE  LET other == decode_event([payload EXCEPT !.shape = s]) IN
                     /\ other.conversation = event.conversation /\ other.actor = event.actor
                     /\ other.reply_to = Quotes(message)
                     /\ resolve(other) = "ignore" <=> resolve(event) = "ignore"
                     /\ TokensOf(message.text) \cap {"picture", "quote"} = {}
                          => resolve(other) = resolve(event)
  BY Zenon DEF ShapeMakesNoDifference
<1> DEFINE q == [payload EXCEPT !.shape = s]
           other == decode_event(q)
<1>1. /\ q.message = message /\ q.kind = payload.kind /\ q.shape = s
      /\ QqPayload(payload) /\ message.platform = "qq" => QqPayload(q)
      /\ WeChatPayload(payload) => WeChatPayload(q)
      /\ payload.message = message
  BY EventInHand, PayloadKinds DEF message
<1>. HIDE DEF q
<1>2. CASE /\ message.platform = "qq" /\ QqPayload(payload)
           /\ event = decode_napcat_event(payload) /\ payload.kind = "message"
  <2> DEFINE text == message.text
             ignored == \/ message.scope = "private" /\ ~Has(text, Tokens \ {"blank", "quote"})
                        \/ message.scope = "group" /\ ~Has(text, {"at_bot"})
             decision == IF ignored THEN "ignore"
                         ELSE IF canonical_trigger_text(text) = <<"command">> THEN "status"
                         ELSE "run"
  <2>1. other = decode_napcat_event(q)
    BY <1>1, <1>2 DEF decode_event
  <2>2. message.scope \in Scopes
    BY EventInHand
  <2>3. /\ event.actor = message.author
        /\ event.conversation = <<"qq", message.scope, ChatOf(message)>>
        /\ event.reply_to = Has(text, {"quote"})
        /\ resolve(event) = "ignore" <=> ignored
        /\ ~Has(text, {"picture", "quote"}) => resolve(event) = decision
    BY <1>1, <1>2, <2>2, QqEvent
  <2>4. /\ other.actor = message.author
        /\ other.conversation = <<"qq", message.scope, ChatOf(message)>>
        /\ other.reply_to = Has(text, {"quote"})
        /\ resolve(other) = "ignore" <=> ignored
        /\ ~Has(text, {"picture", "quote"}) => resolve(other) = decision
    BY <1>1, <1>2, <2>1, <2>2, QqEvent
  <2>5. text \in Seq(Tokens)
    BY <1>1, <1>2, QqPartsSay
  <2>. HIDE DEF text, ignored, decision, other
  <2>6. TokensOf(text) \cap {"picture", "quote"} = {} => ~Has(text, {"picture", "quote"})
    BY <2>5, HasThose DEF TokensOf
  <2>7. Has(text, {"quote"}) = Quotes(message)
    <3>1. Has(text, {"quote"}) <=> "quote" \in TokensOf(text)
      BY <2>5, HasThose DEF TokensOf
    <3>2. Quotes(message) = ("quote" \in TokensOf(text))
      BY <1>2, Zenon DEF Quotes, text
    <3>3. Has(text, {"quote"}) \in BOOLEAN
      BY DEF Has
    <3>. QED  BY <3>1, <3>2, <3>3
  <2>. QED  BY <2>3, <2>4, <2>6, <2>7 DEF text, other, q
<1>3. CASE /\ message.platform = "wechatpadpro" /\ WeChatPayload(payload)
           /\ event = decode_webhook_event(payload) /\ Decoded(payload)
  <2> DEFINE t == Trim(message.text)
             parts == strip_leading_mention(t)
  <2>1. other = decode_webhook_event(q) /\ Decoded(q) /\ WeChatPayload(q)
    BY <1>1, <1>3 DEF decode_event, Decoded
  <2>2. ~Headed(payload.message) /\ ~Headed(q.message)
    BY <1>1
  <2>3. /\ event.actor = message.author
        /\ event.conversation = <<"wechatpadpro", message.scope, ChatOf(message)>>
        /\ event.parts = parts /\ event.mentions = IF parts # t THEN {"at_bot"} ELSE {}
    BY <1>1, <1>3, <2>2, PlainEvent
  <2>4. /\ other.actor = message.author
        /\ other.conversation = <<"wechatpadpro", message.scope, ChatOf(message)>>
        /\ other.parts = parts /\ other.mentions = IF parts # t THEN {"at_bot"} ELSE {}
        /\ other.reply_to = Quotes(message)
    BY <1>1, <1>3, <2>1, <2>2, PlainEvent DEF Quotes
  <2>. HIDE DEF other, parts, t
  <2>5. resolve(other) = resolve(event)
    <3>1. /\ other.parts = event.parts /\ other.mentions = event.mentions
          /\ conversation_scope(other) = conversation_scope(event)
      BY <2>3, <2>4 DEF conversation_scope
    <3>. QED  BY <3>1, Zenon DEF resolve
  <2>. QED  BY <2>3, <2>4, <2>5 DEF other, q
<1>. QED  BY <1>2, <1>3, EventInHand

\* The prompt is trimmed and the summary counts; neither loses anything.
LEMMA WritingIsKept ==
    ASSUME NamesAssumption, PayloadsAssumption, IngressInv
    PROVE  NothingWrittenIsLost
<1> DEFINE parts == event.parts
           summary == trigger_summary(parts)
           refs == Those(parts, Others)
<1>. SUFFICES ASSUME request # None
              PROVE  /\ WrittenIn(request.prompt) = WrittenIn(message.text)
                     /\ request.mention_refs = Those(message.text, Others)
                     /\ \A i \in DOMAIN request.trigger_summary :
                          LET item == request.trigger_summary[i] IN
                          item.token \in Others =>
                             /\ item.ref \in DOMAIN request.mention_refs
                             /\ request.mention_refs[item.ref] = item.token
  BY Zenon DEF NothingWrittenIsLost
<1>1. event # None /\ request = build_run_request_from_event(event)
  BY DEF IngressInv, DecodedInv, AnsweredInv
<1>2. /\ request.prompt = Trim(parts) /\ request.trigger_summary = summary
      /\ request.mention_refs = refs
  BY <1>1 DEF build_run_request_from_event, mention_refs
<1>3. /\ parts \in Seq(Tokens) /\ WrittenIn(parts) = WrittenIn(message.text)
      /\ refs = Those(message.text, Others)
  BY <1>1, EventSays
<1>4. DOMAIN parts = 1..Len(parts)
  BY <1>3, LenProperties
<1>. HIDE DEF parts
<1>5. WrittenIn(Trim(parts)) = WrittenIn(parts)
  BY <1>3, WrittenOfTrim
<1>6. refs \in Seq(Tokens) /\ DOMAIN refs = 1..Len(refs)
  <2>1. refs \in Seq(Tokens)
    BY <1>3, ThoseAreSeq
  <2>. HIDE DEF refs
  <2>. QED  BY <2>1, LenProperties
<1>7. ASSUME NEW i \in DOMAIN summary, summary[i].token \in Others
      PROVE  summary[i].ref \in DOMAIN refs /\ refs[summary[i].ref] = summary[i].token
  <2>1. i \in 1..Len(parts) /\ summary[i].token = parts[i]
    BY <1>4 DEF trigger_summary
  <2>2. summary[i].ref = Count(parts, Others, i)
    BY <1>4, <1>7, <2>1 DEF trigger_summary, Count
  <2>3. /\ Count(parts, Others, i) \in 1..Len(refs)
        /\ refs[Count(parts, Others, i)] = parts[i]
    BY <1>3, <1>7, <2>1, CountsThose
  <2>. QED  BY <1>6, <2>1, <2>2, <2>3
<1>. HIDE DEF summary, refs
<1>. QED  BY <1>2, <1>3, <1>5, <1>7 DEF refs

\* What is stored leaves out mentions, and nothing that is written.
LEMMA MessageIsFound ==
    ASSUME NamesAssumption, PayloadsAssumption, IngressInv
    PROVE  RunFindsItsMessage
<1>. SUFFICES ASSUME request # None, history.state # "failed"
              PROVE  /\ request.reply_to = Quotes(message)
                     /\ \/ history.state = "textless" /\ WrittenIn(request.prompt) = << >>
                        \/ /\ history.state = "stored"
                           /\ history.row.conversation_id = request.conversation_id
                           /\ history.row.actor_id = request.user_id
                           /\ history.row.reply_to = request.reply_to
                           /\ WrittenIn(history.row.plain_text) = WrittenIn(request.prompt)
  BY DEF RunFindsItsMessage
<1> DEFINE parts == event.parts
<1>1. /\ event # None /\ request = build_run_request_from_event(event)
      /\ history.state \in {"textless", "stored"}
      /\ history.state = "textless" => storage_plain_text(parts) = << >>
      /\ history.state = "stored" => history.row = Row(event)
  BY DEF IngressInv, DecodedInv, StoredInv, AnsweredInv
<1>2. parts \in Seq(Tokens)
  BY <1>1, EventSays
<1>3. /\ request.prompt = Trim(parts) /\ request.conversation_id = event.conversation
      /\ request.user_id = event.actor /\ request.reply_to = event.reply_to
  BY <1>1 DEF build_run_request_from_event
<1>4. /\ Row(event).conversation_id = event.conversation /\ Row(event).actor_id = event.actor
      /\ Row(event).reply_to = event.reply_to
      /\ Row(event).plain_text = storage_plain_text(parts)
  BY DEF Row
<1>. HIDE DEF parts
<1>5. WrittenIn(storage_plain_text(parts)) = WrittenIn(Trim(parts))
  <2> DEFINE w == Without(parts, Mentions)
  <2>1. w \in Seq(Tokens) /\ WrittenIn(w) = WrittenIn(parts)
    BY <1>2, TokenSets, WrittenOfWithout
  <2>. HIDE DEF w
  <2>2. WrittenIn(Trim(w)) = WrittenIn(w) /\ WrittenIn(Trim(parts)) = WrittenIn(parts)
    BY <1>2, <2>1, WrittenOfTrim
  <2>. QED  BY <2>1, <2>2 DEF storage_plain_text, w
<1>6. WrittenIn(<< >>) = << >>
  <2> DEFINE e == << >>
  <2>1. e \in Seq(Tokens) /\ Len(e) = 0
    BY EmptySeq
  <2>. HIDE DEF e
  <2>2. \A i \in 1..Len(e) : e[i] \notin Words
    BY <2>1
  <2>3. WrittenIn(e) = << >>
    BY <2>1, <2>2, NothingWritten
  <2>. QED  BY <2>3 DEF e
<1>7. request.reply_to = Quotes(message)
  BY <1>1, <1>3, EventQuotes
<1>. QED  BY <1>1, <1>3, <1>4, <1>5, <1>6, <1>7

-----------------------------------------------------------------------------
(* The theorems *)

\* Answers reach the one who wrote, and the run is one of that chat's session, in every
\* shape and for every text, unless a heading is taken for the sender.
THEOREM AuthorsAreAnswered == IngressSpec => []AnswersReachTheAuthor
<1>1. IngressInv => AnswersReachTheAuthor
  BY NamesAssumption, PayloadsAssumption, AuthorsAreReached
<1>. QED  BY <1>1, AlwaysIngress, PTL

\* For a text of any length, in any shape: what is ignored can be told from what was
\* written, and the status command starts no run.
THEOREM TriggersFit == IngressSpec => []TriggersFitTheMessage
<1>1. IngressInv => TriggersFitTheMessage
  BY NamesAssumption, PayloadsAssumption, TriggersAre
<1>. QED  BY <1>1, AlwaysIngress, PTL

\* Every shape of a message leads to the same decision.
THEOREM ShapesMakeNoDifference == IngressSpec => []ShapeMakesNoDifference
<1>1. IngressInv => ShapeMakesNoDifference
  BY NamesAssumption, PayloadsAssumption, ShapesAreAlike
<1>. QED  BY <1>1, AlwaysIngress, PTL

\* Whatever is written in a text of any length reaches the agent, in order.
THEOREM WritingReachesTheAgent == IngressSpec => []NothingWrittenIsLost
<1>1. IngressInv => NothingWrittenIsLost
  BY NamesAssumption, PayloadsAssumption, WritingIsKept
<1>. QED  BY <1>1, AlwaysIngress, PTL

\* A run can read the message that asked for it.
THEOREM RunsFindTheirMessages == IngressSpec => []RunFindsItsMessage
<1>1. IngressInv => RunFindsItsMessage
  BY NamesAssumption, PayloadsAssumption, MessageIsFound
<1>. QED  BY <1>1, AlwaysIngress, PTL
==============================================================================
