----------------------------- MODULE ByteLemmas -----------------------------
(***************************************************************************)
(* Facts about sequences of bytes, on which the proofs of other modules    *)
(* rest: prefixes and concatenation, for the tunnels; and fix_utils.hpp,   *)
(* for all fields and all bytes: how a message is built, which texts are   *)
(* accepted, and what is read of one.                                      *)
(***************************************************************************)
EXTENDS FixMessage, FiniteSetTheorems, SequenceTheorems, NaturalsInduction, TLAPS

-----------------------------------------------------------------------------
(***************************************************************************)
(* Prefixes and concatenation.                                             *)
(***************************************************************************)
\* Type and length of a concatenation.
LEMMA ConcatLength ==
    ASSUME NEW S, NEW s \in Seq(S), NEW t \in Seq(S)
    PROVE  s \o t \in Seq(S) /\ Len(s \o t) = Len(s) + Len(t)
BY ConcatProperties

\* The first factor of a concatenation is a prefix of it.
LEMMA ConcatHasPrefix ==
    ASSUME NEW S, NEW s \in Seq(S), NEW r \in Seq(S)
    PROVE  IsPrefix(s, s \o r)
<1>1. Len(s) <= Len(s \o r)
  BY ConcatProperties, LenProperties
<1>2. SubSeq(s \o r, 1, Len(s)) = SubSeq(s, 1, Len(s))
  <2>1. CASE s = <<>>
    BY <2>1, SubSeqEmpty, EmptySeq
  <2>2. CASE s # <<>>
    BY <2>2, SubSeqOfConcat1, EmptySeq, LenProperties
  <2> QED BY <2>1, <2>2
<1> QED BY <1>1, <1>2 DEF IsPrefix

\* A prefix can be completed.
LEMMA PrefixHasRest ==
    ASSUME NEW S, NEW s \in Seq(S), NEW t \in Seq(S), IsPrefix(s, t)
    PROVE  \E r \in Seq(S) : t = s \o r
<1> DEFINE r == SubSeq(t, Len(s) + 1, Len(t))
<1>1. Len(s) <= Len(t) /\ Len(s) \in Nat /\ Len(t) \in Nat
  BY LenProperties DEF IsPrefix
<1>2. SubSeq(t, 1, Len(s)) = s
  BY SubSeqFull DEF IsPrefix
<1>3. r \in Seq(S)
  BY <1>1, SubSeqProperties, ElementOfSeq
<1>4. SubSeq(t, 1, Len(s)) \o r = SubSeq(t, 1, Len(t))
  <2>1. /\ 1 \in 1 .. Len(t) + 1
        /\ Len(s) \in 1 - 1 .. Len(t)
        /\ Len(t) \in Len(s) .. Len(t)
    BY <1>1
  <2> QED BY <2>1, ConcatAdjacentSubSeq, Zenon
<1> QED BY <1>2, <1>3, <1>4, SubSeqFull

\* Being a prefix is transitive.
LEMMA PrefixTransitive ==
    ASSUME NEW S, NEW s \in Seq(S), NEW t \in Seq(S), NEW u \in Seq(S),
           IsPrefix(s, t), IsPrefix(t, u)
    PROVE  IsPrefix(s, u)
<1>1. PICK q \in Seq(S) : t = s \o q
  BY PrefixHasRest
<1>2. PICK r \in Seq(S) : u = t \o r
  BY PrefixHasRest
<1>3. u = s \o (q \o r)
  BY <1>1, <1>2, ConcatAssociative
<1> QED BY <1>3, ConcatProperties, ConcatHasPrefix

\* A sequence is a prefix of itself.
LEMMA PrefixReflexive ==
    ASSUME NEW S, NEW s \in Seq(S)
    PROVE  IsPrefix(s, s)
<1>1. s \o <<>> = s /\ <<>> \in Seq(S)
  BY ConcatEmptySeq, EmptySeq
<1>2. IsPrefix(s, s \o <<>>)
  BY <1>1, ConcatHasPrefix
<1> QED BY <1>1, <1>2

\* What is a prefix stays one when something is appended.
LEMMA PrefixOfAppend ==
    ASSUME NEW S, NEW s \in Seq(S), NEW t \in Seq(S), NEW e \in S, IsPrefix(s, t)
    PROVE  IsPrefix(s, Append(t, e))
<1>1. Append(t, e) = t \o <<e>> /\ <<e>> \in Seq(S)
  BY AppendIsConcat
<1>2. IsPrefix(t, Append(t, e))
  BY <1>1, ConcatHasPrefix
<1>3. Append(t, e) \in Seq(S)
  BY AppendProperties
<1> QED BY <1>2, <1>3, PrefixTransitive

\* A prefix is preserved when the same sequence is put before both.
LEMMA PrefixUnderConcat ==
    ASSUME NEW S, NEW p \in Seq(S), NEW s \in Seq(S), NEW t \in Seq(S), IsPrefix(s, t)
    PROVE  IsPrefix(p \o s, p \o t)
<1>1. PICK r \in Seq(S) : t = s \o r
  BY PrefixHasRest
<1>2. (p \o s) \o r = p \o (s \o r)
  BY ConcatAssociative
<1>3. IsPrefix(p \o s, (p \o s) \o r)
  BY ConcatProperties, ConcatHasPrefix
<1> QED BY <1>1, <1>2, <1>3

\* Cutting a sequence in two and putting it together again changes nothing.
LEMMA CutAndJoin ==
    ASSUME NEW S, NEW s \in Seq(S), NEW n \in 0 .. Len(s)
    PROVE  /\ SubSeq(s, 1, n) \in Seq(S)
           /\ SubSeq(s, n + 1, Len(s)) \in Seq(S)
           /\ SubSeq(s, 1, n) \o SubSeq(s, n + 1, Len(s)) = s
           /\ IsPrefix(SubSeq(s, 1, n), s)
           /\ Len(SubSeq(s, 1, n)) = n
           /\ Len(SubSeq(s, n + 1, Len(s))) = Len(s) - n
<1>0. Len(s) \in Nat
  BY LenProperties
<1>1. SubSeq(s, 1, n) \in Seq(S) /\ Len(SubSeq(s, 1, n)) = n
  BY <1>0, SubSeqProperties, ElementOfSeq
<1>2. /\ SubSeq(s, n + 1, Len(s)) \in Seq(S)
      /\ Len(SubSeq(s, n + 1, Len(s))) = Len(s) - n
  BY <1>0, SubSeqProperties, ElementOfSeq
<1>3. SubSeq(s, 1, n) \o SubSeq(s, n + 1, Len(s)) = s
  <2>1. /\ 1 \in 1 .. Len(s) + 1
        /\ n \in 1 - 1 .. Len(s)
        /\ Len(s) \in n .. Len(s)
    BY <1>0
  <2>2. SubSeq(s, 1, n) \o SubSeq(s, n + 1, Len(s)) = SubSeq(s, 1, Len(s))
    BY <2>1, ConcatAdjacentSubSeq, Zenon
  <2> QED BY <2>2, SubSeqFull
<1>4. IsPrefix(SubSeq(s, 1, n), s)
  BY <1>1, <1>2, <1>3, ConcatHasPrefix
<1> QED BY <1>1, <1>2, <1>3, <1>4

\* Moving the head of one sequence to the end of the one before it.
LEMMA MoveHead ==
    ASSUME NEW S, NEW g \in Seq(S), NEW q \in Seq(S), q # <<>>
    PROVE  Append(g, Head(q)) \o Tail(q) = g \o q
<1>1. /\ Head(q) \in S /\ Tail(q) \in Seq(S)
      /\ q = <<Head(q)>> \o Tail(q)
  BY HeadTailProperties, SubSeqRecursiveFirst, SubSeqFull, TailIsSubSeq, EmptySeq
<1>2. <<Head(q)>> \in Seq(S)
  BY <1>1
<1>3. Append(g, Head(q)) = g \o <<Head(q)>>
  BY <1>1, AppendIsConcat
<1> QED BY <1>1, <1>2, <1>3, ConcatAssociative

\* The head of a sequence is the head of what it begins.
LEMMA HeadOfConcat ==
    ASSUME NEW S, NEW q \in Seq(S), NEW r \in Seq(S), q # <<>>
    PROVE  q \o r # <<>> /\ Head(q \o r) = Head(q) /\ Tail(q \o r) = Tail(q) \o r
<1>1. /\ Head(q) \in S /\ Tail(q) \in Seq(S)
      /\ q = <<Head(q)>> \o Tail(q)
  BY HeadTailProperties, SubSeqRecursiveFirst, SubSeqFull, TailIsSubSeq, EmptySeq
<1>2. <<Head(q)>> \in Seq(S) /\ Tail(q) \o r \in Seq(S)
  BY <1>1, ConcatLength
<1>3. q \o r = <<Head(q)>> \o (Tail(q) \o r)
  BY <1>1, <1>2, ConcatAssociative
<1>4. \A h \in S, t \in Seq(S) : /\ <<h>> \o t # <<>>
                                 /\ Head(<<h>> \o t) = h /\ Tail(<<h>> \o t) = t
  OBVIOUS
<1> QED BY <1>1, <1>2, <1>3, <1>4

-----------------------------------------------------------------------------
(***************************************************************************)
(* Five sequences in a row, as on the way of a direction of the TLS tunnel *)
(* (three queues, two buffers), the first one nearest to the sink, and     *)
(* what the steps of the tunnel do to them.                                *)
(***************************************************************************)
Five(a, b, c, d, e) == (((a \o b) \o c) \o d) \o e

\* The types of such sequences and of what precedes them: hidden in one operator,
\* for the provers to see only the ones a step needs.
AreSeqs(S, u, v, w, x, y, z) == {u, v, w, x, y, z} \subseteq Seq(S)

\* The types of the parts of what they join to.
LEMMA FiveParts ==
    ASSUME NEW S, NEW g, NEW a, NEW b, NEW c, NEW d, NEW e, AreSeqs(S, g, a, b, c, d, e)
    PROVE  /\ g \in Seq(S) /\ a \in Seq(S) /\ b \in Seq(S) /\ c \in Seq(S) /\ d \in Seq(S)
           /\ e \in Seq(S)
           /\ a \o b \in Seq(S) /\ (a \o b) \o c \in Seq(S) /\ ((a \o b) \o c) \o d \in Seq(S)
<1> DEFINE x1 == a \o b   x2 == x1 \o c   x3 == x2 \o d
<1>1. /\ g \in Seq(S) /\ a \in Seq(S) /\ b \in Seq(S) /\ c \in Seq(S) /\ d \in Seq(S)
      /\ e \in Seq(S)
  BY DEF AreSeqs
<1>2. x1 \in Seq(S)
  BY <1>1, ConcatLength
<1> HIDE DEF x1
<1>3. x2 \in Seq(S)
  BY <1>1, <1>2, ConcatLength
<1> HIDE DEF x2
<1>4. x3 \in Seq(S)
  BY <1>1, <1>3, ConcatLength
<1> HIDE DEF x3
<1> QED BY <1>1, <1>2, <1>3, <1>4, Zenon DEF x1, x2, x3

\* And the type of all of it.
LEMMA FiveType ==
    ASSUME NEW S, NEW g, NEW a, NEW b, NEW c, NEW d, NEW e, AreSeqs(S, g, a, b, c, d, e)
    PROVE  Five(a, b, c, d, e) \in Seq(S)
<1> DEFINE l == ((a \o b) \o c) \o d
<1>1. l \in Seq(S) /\ e \in Seq(S)
  BY FiveParts
<1> HIDE DEF l
<1>2. l \o e \in Seq(S)
  BY <1>1, ConcatLength
<1> QED BY <1>2, Zenon DEF Five, l

\* The head of one sequence moves into the empty one before it.
LEMMA HeadMoves ==
    ASSUME NEW S, NEW l \in Seq(S), NEW r \in Seq(S), r # <<>>
    PROVE  (l \o <<Head(r)>>) \o Tail(r) = (l \o <<>>) \o r
<1>1. /\ Head(r) \in S /\ Tail(r) \in Seq(S)
      /\ r = <<Head(r)>> \o Tail(r)
  BY HeadTailProperties, SubSeqRecursiveFirst, SubSeqFull, TailIsSubSeq, EmptySeq
<1>2. <<Head(r)>> \in Seq(S)
  BY <1>1
<1>3. (l \o <<Head(r)>>) \o Tail(r) = l \o (<<Head(r)>> \o Tail(r))
  BY <1>1, <1>2, ConcatAssociative
<1> QED BY <1>1, <1>3, ConcatEmptySeq

\* A sequence moves to the end of the one before it.
LEMMA AllMoves ==
    ASSUME NEW S, NEW l \in Seq(S), NEW a \in Seq(S), NEW b \in Seq(S)
    PROVE  (l \o (a \o b)) \o <<>> = (l \o a) \o b
<1>1. l \o (a \o b) = (l \o a) \o b /\ l \o (a \o b) \in Seq(S)
  BY ConcatAssociative, ConcatLength
<1> QED BY <1>1, ConcatEmptySeq

\* What is before the first of two sequences is before both.
LEMMA JoinAfter ==
    ASSUME NEW S, NEW h \in Seq(S), NEW x \in Seq(S), NEW y \in Seq(S), NEW z, z = h \o x
    PROVE  x \o y \in Seq(S) /\ z \o y = h \o (x \o y)
<1>1. x \o y \in Seq(S)
  BY ConcatLength
<1>2. (h \o x) \o y = h \o (x \o y)
  BY ConcatAssociative
<1> QED BY <1>1, <1>2

\* What is before the first of five sequences is before all of them.
LEMMA FiveAfter ==
    ASSUME NEW S, NEW h, NEW a, NEW b, NEW c, NEW d, NEW e,
           AreSeqs(S, h, a, b, c, d, e)
    PROVE  Five(h \o a, b, c, d, e) = h \o Five(a, b, c, d, e)
<1> DEFINE x1 == a \o b          y1 == (h \o a) \o b
           x2 == x1 \o c         y2 == y1 \o c
           x3 == x2 \o d         y3 == y2 \o d
<1>h. h \in Seq(S)
  BY DEF AreSeqs
<1>1. x1 \in Seq(S) /\ y1 = h \o x1
  <2>1. a \in Seq(S) /\ b \in Seq(S)
    BY DEF AreSeqs
  <2>2. \A z : z = h \o a => z \o b = h \o (a \o b)
    BY <1>h, <2>1, JoinAfter
  <2> QED BY <2>1, <2>2, ConcatLength
<1> HIDE DEF x1, y1
<1>2. x2 \in Seq(S) /\ y2 = h \o x2
  <2>1. c \in Seq(S)
    BY DEF AreSeqs
  <2> QED BY <1>h, <1>1, <2>1, JoinAfter
<1> HIDE DEF x2, y2
<1>3. x3 \in Seq(S) /\ y3 = h \o x3
  <2>1. d \in Seq(S)
    BY DEF AreSeqs
  <2> QED BY <1>h, <1>2, <2>1, JoinAfter
<1> HIDE DEF x3, y3
<1>4. y3 \o e = h \o (x3 \o e)
  <2>1. e \in Seq(S)
    BY DEF AreSeqs
  <2> QED BY <1>h, <1>3, <2>1, JoinAfter
<1> QED BY <1>4, Zenon DEF Five, x1, x2, x3, y1, y2, y3

\* What is received leaves the way at its end.
FiveGot(g, a, b, c, d, e) ==
    Append(g, Head(a)) \o Five(Tail(a), b, c, d, e) = g \o Five(a, b, c, d, e)

\* Nothing is lost when it does.
LEMMA FiveGets ==
    ASSUME NEW S, NEW g, NEW a, NEW b, NEW c, NEW d, NEW e,
           AreSeqs(S, g, a, b, c, d, e), a # <<>>
    PROVE  FiveGot(g, a, b, c, d, e)
<1>1. PICK h, t : /\ h \in Seq(S) /\ t \in Seq(S) /\ t = Tail(a) /\ a = h \o t
                  /\ Append(g, Head(a)) = g \o h
  <2>0. g \in Seq(S) /\ a \in Seq(S)
    BY DEF AreSeqs
  <2>1. /\ Head(a) \in S /\ Tail(a) \in Seq(S)
        /\ a = <<Head(a)>> \o Tail(a)
    BY <2>0, HeadTailProperties, SubSeqRecursiveFirst, SubSeqFull, TailIsSubSeq, EmptySeq
  <2>2. <<Head(a)>> \in Seq(S) /\ Append(g, Head(a)) = g \o <<Head(a)>>
    BY <2>0, <2>1, AppendIsConcat
  <2> QED BY <2>1, <2>2
<1>2. Five(a, b, c, d, e) = h \o Five(t, b, c, d, e)
  <2>1. AreSeqs(S, h, t, b, c, d, e)
    BY <1>1 DEF AreSeqs
  <2>2. Five(h \o t, b, c, d, e) = h \o Five(t, b, c, d, e)
    BY <2>1, FiveAfter
  <2> QED BY <1>1, <2>2
<1>3. Five(t, b, c, d, e) \in Seq(S) /\ g \in Seq(S)
  <2>1. AreSeqs(S, h, t, b, c, d, e) /\ g \in Seq(S)
    BY <1>1 DEF AreSeqs
  <2> QED BY <2>1, FiveType
<1>4. (g \o h) \o Five(t, b, c, d, e) = g \o (h \o Five(t, b, c, d, e))
  <2>1. \A f \in Seq(S) : (g \o h) \o f = g \o (h \o f)
    <3>1. h \in Seq(S) /\ g \in Seq(S)
      BY <1>1, <1>3
    <3> QED BY <3>1, ConcatAssociative
  <2> QED BY <1>3, <2>1
<1> QED BY <1>1, <1>2, <1>4, Zenon DEF FiveGot

\* A thread reads the first unit of the sequence behind its empty buffer.
LEMMA FiveReads ==
    ASSUME NEW S, NEW g, NEW a, NEW c, NEW d, NEW e, AreSeqs(S, g, a, <<>>, c, d, e), c # <<>>
    PROVE  Five(a, <<Head(c)>>, Tail(c), d, e) = Five(a, <<>>, c, d, e)
<1>1. a \in Seq(S) /\ c \in Seq(S)
  BY FiveParts
<1>2. (a \o <<Head(c)>>) \o Tail(c) = (a \o <<>>) \o c
  BY <1>1, HeadMoves
<1> QED BY <1>2, Zenon DEF Five

\* The same of the thread that reads from the sender.
LEMMA FiveReadsFirst ==
    ASSUME NEW S, NEW g, NEW a, NEW b, NEW c, NEW e, AreSeqs(S, g, a, b, c, <<>>, e), e # <<>>
    PROVE  Five(a, b, c, <<Head(e)>>, Tail(e)) = Five(a, b, c, <<>>, e)
<1> DEFINE l == (a \o b) \o c
<1>1. l \in Seq(S) /\ e \in Seq(S)
  BY FiveParts
<1> HIDE DEF l
<1>2. (l \o <<Head(e)>>) \o Tail(e) = (l \o <<>>) \o e
  BY <1>1, HeadMoves
<1> QED BY <1>2, Zenon DEF Five, l

\* A thread writes its buffer to the end of the sequence before it.
LEMMA FiveWrites ==
    ASSUME NEW S, NEW g, NEW a, NEW b, NEW c, NEW d, NEW e, AreSeqs(S, g, a, b, c, d, e)
    PROVE  /\ Five(a \o b, <<>>, c, d, e) = Five(a, b, c, d, e)
           /\ Five(a, b, c \o d, <<>>, e) = Five(a, b, c, d, e)
<1>1. Five(a \o b, <<>>, c, d, e) = Five(a, b, c, d, e)
  <2> DEFINE l == a \o b
  <2>1. l \in Seq(S)
    BY FiveParts
  <2> HIDE DEF l
  <2>2. l \o <<>> = l
    BY <2>1, ConcatEmptySeq
  <2> QED BY <2>2, Zenon DEF Five, l
<1>2. Five(a, b, c \o d, <<>>, e) = Five(a, b, c, d, e)
  <2> DEFINE l == a \o b
  <2>1. l \in Seq(S) /\ c \in Seq(S) /\ d \in Seq(S)
    BY FiveParts
  <2> HIDE DEF l
  <2>2. (l \o (c \o d)) \o <<>> = (l \o c) \o d
    BY <2>1, AllMoves
  <2> QED BY <2>2, Zenon DEF Five, l
<1> QED BY <1>1, <1>2

\* What is sent enters the way at its beginning.
LEMMA FiveSends ==
    ASSUME NEW S, NEW g, NEW a, NEW b, NEW c, NEW d, NEW e, AreSeqs(S, g, a, b, c, d, e),
           NEW f, f \in Seq(S)
    PROVE  Five(a, b, c, d, e \o f) = Five(a, b, c, d, e) \o f
<1> DEFINE l == ((a \o b) \o c) \o d
<1>1. l \in Seq(S) /\ e \in Seq(S)
  BY FiveParts
<1> HIDE DEF l
<1>2. l \o (e \o f) = (l \o e) \o f
  BY <1>1, ConcatAssociative
<1>3. \A y : Five(a, b, c, d, y) = l \o y
  BY Zenon DEF Five, l
<1> QED BY <1>2, <1>3, Zenon

\* A reset cuts the way at its beginning.
LEMMA FiveCut ==
    ASSUME NEW S, NEW g, NEW a, NEW b, NEW c, NEW d, NEW e, AreSeqs(S, g, a, b, c, d, e),
           NEW f, f \in Seq(S), IsPrefix(f, e)
    PROVE  IsPrefix(g \o Five(a, b, c, d, f), g \o Five(a, b, c, d, e))
<1> DEFINE l == ((a \o b) \o c) \o d
<1>1. l \in Seq(S) /\ e \in Seq(S) /\ g \in Seq(S)
  BY FiveParts
<1> HIDE DEF l
<1>2. IsPrefix(l \o f, l \o e)
  BY <1>1, PrefixUnderConcat
<1>3. l \o f \in Seq(S) /\ l \o e \in Seq(S)
  BY <1>1, ConcatLength
<1>4. IsPrefix(g \o (l \o f), g \o (l \o e))
  BY <1>1, <1>2, <1>3, PrefixUnderConcat
<1>5. Five(a, b, c, d, f) = l \o f /\ Five(a, b, c, d, e) = l \o e
  BY Zenon DEF Five, l
<1> QED BY <1>4, <1>5, Zenon

\* The two parts nearest to the sink begin the way.
LEMMA FiveBegins ==
    ASSUME NEW S, NEW g, NEW a, NEW b, NEW c, NEW d, NEW e, AreSeqs(S, g, a, b, c, d, e)
    PROVE  IsPrefix(g \o (a \o b), g \o Five(a, b, c, d, e))
<1> DEFINE x1 == a \o b   x2 == x1 \o c   x3 == x2 \o d   x4 == x3 \o e
<1>1. /\ g \in Seq(S) /\ c \in Seq(S) /\ d \in Seq(S) /\ e \in Seq(S)
      /\ x1 \in Seq(S) /\ x2 \in Seq(S) /\ x3 \in Seq(S)
  BY FiveParts
<1>2. x4 \in Seq(S)
  BY FiveType DEF Five
<1> HIDE DEF x1
<1>3. IsPrefix(x1, x2)
  BY <1>1, ConcatHasPrefix
<1> HIDE DEF x2
<1>4. IsPrefix(x2, x3)
  BY <1>1, ConcatHasPrefix
<1> HIDE DEF x3
<1>5. IsPrefix(x3, x4)
  BY <1>1, ConcatHasPrefix
<1> HIDE DEF x4
<1>6. IsPrefix(x1, x4)
  <2>1. IsPrefix(x1, x3)
    BY <1>1, <1>3, <1>4, PrefixTransitive
  <2> QED BY <1>1, <1>2, <1>5, <2>1, PrefixTransitive
<1>7. IsPrefix(g \o x1, g \o x4)
  BY <1>1, <1>2, <1>6, PrefixUnderConcat
<1> QED BY <1>7, Zenon DEF Five, x1, x2, x3, x4

-----------------------------------------------------------------------------
(***************************************************************************)
(* Recursion over bytes: the sum of bytes is the one the recursion defines. *)
(***************************************************************************)
\* A nonempty set of naturals has a least element.
LEMMA LeastIn ==
    ASSUME NEW S, S \subseteq Nat, S # {}
    PROVE  \E m \in S : \A n \in S : m <= n
<1>1. PICK m \in S : \A n \in S : ~ (<<n, m>> \in OpToRel(<, Nat))
    BY NatLessThanWellFounded, WFMin
<1>2. \A n \in S : ~ (n < m)
    BY <1>1 DEF OpToRel
<1> QED
    BY <1>2, SMT

\* f is what the recursion makes of the first value and the steps.
Recursion(f, V, n, first, step) ==
    /\ f \in [0..n -> V]
    /\ f[0] = first /\ \A i \in 1..n : f[i] = step[i][f[i - 1]]

\*
LEMMA RecursionExists ==
    ASSUME NEW V, NEW n \in Nat, NEW first \in V, NEW step \in [1..n -> [V -> V]]
    PROVE  \E f : Recursion(f, V, n, first, step)
<1> DEFINE Eq(k, f) == f[0] = first /\ \A i \in 1..k : f[i] = step[i][f[i - 1]]
           Bad == {k \in 0..n : ~ \E f \in [0..k -> V] : Eq(k, f)}
<1>1. Bad = {}
  <2> SUFFICES ASSUME Bad # {} PROVE FALSE
    OBVIOUS
  <2>1. PICK k \in Bad : \A j \in Bad : k <= j
    <3>1. Bad \subseteq Nat  OBVIOUS
    <3> HIDE DEF Bad
    <3> QED  BY <3>1, LeastIn
  <2>2. CASE k = 0
    <3> DEFINE f == [i \in 0..k |-> first]
    <3>1. f \in [0..k -> V]
      OBVIOUS
    <3>2. Eq(k, f)
      BY <2>2
    <3> QED
      BY <3>1, <3>2
  <2>3. CASE k # 0
    <3>0. k \in 0..n
      OBVIOUS
    <3>1. k - 1 \in 0..n /\ k - 1 \notin Bad
      <4> HIDE DEF Bad
      <4> QED BY <3>0, <2>1, <2>3
    <3>2. PICK f \in [0..k - 1 -> V] : Eq(k - 1, f)
      BY <3>1
    <3> DEFINE g == [i \in 0..k |-> IF i = k THEN step[k][f[k - 1]] ELSE f[i]]
    <3>3. k \in 1..n /\ k - 1 \in 0..k - 1
      BY <2>3
    <3>4. step[k][f[k - 1]] \in V
      BY <3>3
    <3>5. g \in [0..k -> V]
      <4>1. \A i \in 0..k : i # k => i \in 0..k - 1
        OBVIOUS
      <4> QED BY <3>2, <3>4, <4>1
    <3>6. g[0] = first
      BY <3>2, <2>3
    <3>7. \A i \in 1..k : g[i] = step[i][g[i - 1]]
      <4> TAKE i \in 1..k
      <4>1. g[i - 1] = f[i - 1]  OBVIOUS
      <4>2. CASE i = k
        BY <4>1, <4>2, <3>3
      <4>3. CASE i # k
        <5>1. i \in 1..k - 1 BY <4>3
        <5>2. f[i] = step[i][f[i - 1]]  BY <5>1, <3>2
        <5> QED  BY <4>1, <4>3, <5>1, <5>2
      <4> QED  BY <4>2, <4>3
    <3> QED
      BY <3>5, <3>6, <3>7
  <2> QED
    BY <2>2, <2>3
<1>2. n \in 0..n
  OBVIOUS
<1> QED
  BY <1>1, <1>2, SMTT(40) DEF Recursion

\*
LEMMA ByteSumIs ==
    ASSUME NEW bytes \in Seq(0..255)
    PROVE  \E sum \in [0..Len(bytes) -> 0..255] :
              /\ sum[0] = 0
              /\ \A i \in 1..Len(bytes) : sum[i] = (sum[i - 1] + bytes[i]) % 256
              /\ ByteSum(bytes) = sum[Len(bytes)]
<1> PICK n \in Nat : n = Len(bytes)  OBVIOUS
<1> DEFINE step == [i \in 1..n |-> [x \in 0..255 |-> (x + bytes[i]) % 256]]
           Eq(f) == f = [i \in 0..n |-> IF i = 0 THEN 0 ELSE (f[i - 1] + bytes[i]) % 256]
<1>0. \A i \in 1..n : bytes[i] \in 0..255
  OBVIOUS
<1>1. step \in [1..n -> [0..255 -> 0..255]]
  <2>1. \A i \in 1..n, x \in 0..255 : (x + bytes[i]) % 256 \in 0..255
    <3> TAKE i \in 1..n, x \in 0..255
    <3>1. PICK b \in 0..255 : b = bytes[i]  BY <1>0
    <3>2. (x + b) % 256 \in 0..255  OBVIOUS
    <3> QED BY <3>1, <3>2
  <2> QED BY <2>1, ZenonT(40)
<1>2. PICK f \in [0..n -> 0..255] : f[0] = 0 /\ \A i \in 1..n : f[i] = step[i][f[i - 1]]
  <2> HIDE DEF step
  <2>1. 0 \in 0..255
    OBVIOUS
  <2>2. \E f : Recursion(f, 0..255, n, 0, step)
    BY <1>1, <2>1, RecursionExists
  <2> QED BY <2>2 DEF Recursion
<1>3. \A i \in 1..n : f[i] = (f[i - 1] + bytes[i]) % 256
  <2> TAKE i \in 1..n
  <2>1. i - 1 \in 0..n  OBVIOUS
  <2>2. f[i - 1] \in 0..255  BY <2>1
  <2>3. step[i] = [x \in 0..255 |-> (x + bytes[i]) % 256]  OBVIOUS
  <2> HIDE DEF step
  <2> QED BY <1>2, <2>2, <2>3, ZenonT(40)
<1> HIDE DEF step
<1>4. Eq(f)
  BY <1>2, <1>3
<1> DEFINE sum == CHOOSE g : Eq(g)
<1>5. Eq(sum)
  BY <1>4, ZenonT(40)
<1>6. ByteSum(bytes) = sum[n]  BY DEF ByteSum
<1> HIDE DEF sum
<1>7. sum[0] = 0 /\ \A i \in 1..n : sum[i] = (sum[i - 1] + bytes[i]) % 256
  BY <1>5
<1>8. sum = f
 <2> DEFINE Bad == {i \in 0..n : sum[i] # f[i]}
 <2>1. Bad = {}
  <3> SUFFICES ASSUME Bad # {} PROVE FALSE
    OBVIOUS
  <3>1. PICK m \in Bad : \A i \in Bad : m <= i
    <4>1. Bad \subseteq Nat  OBVIOUS
    <4> HIDE DEF Bad
    <4> QED  BY <4>1, LeastIn
  <3>2. m # 0
    BY <1>2, <1>7
  <3>3. m \in 1..n /\ m - 1 \in 0..n /\ m - 1 \notin Bad
    BY <3>1, <3>2
  <3>4. sum[m - 1] = f[m - 1]
    BY <3>3
  <3> QED BY <3>3, <3>4, <1>7, <1>3
 <2>2. sum = [i \in 0..n |-> sum[i]]
   BY <1>5
 <2> QED BY <2>1, <2>2
<1> QED BY <1>8, <1>2, <1>3, <1>6

-----------------------------------------------------------------------------
(***************************************************************************)
(* Decimal: how a number is written.                                       *)
(***************************************************************************)
\* How a number is written, from how a smaller one is.
DecStep(f, n) == IF n < 10 THEN <<48 + n>> ELSE Append(f[n \div 10], 48 + (n % 10))

\* f is right up to m.
DecUpTo(f, m) ==
    /\ f \in [0..m -> Seq(Digits)]
    /\ \A n \in 0..m : f[n] = DecStep(f, n)

\* One step of the recursion gives digits.
LEMMA DecStepType ==
    ASSUME NEW n \in Nat, NEW f, n >= 10 => f[n \div 10] \in Seq(Digits)
    PROVE  DecStep(f, n) \in Seq(Digits)
<1>1. CASE n < 10
  <2>1. 48 + n \in Digits  BY <1>1 DEF Digits
  <2> QED  BY <1>1, <2>1 DEF DecStep
<1>2. CASE n >= 10
  <2>1. PICK r \in 0..9 : r = n % 10  OBVIOUS
  <2>2. 48 + r \in Digits  BY DEF Digits
  <2> QED  BY <1>2, <2>1, <2>2, AppendProperties DEF DecStep
<1> QED  BY <1>1, <1>2

\* Such a function, up to any number.
LEMMA DecExists == \A m \in Nat : \E f : DecUpTo(f, m)
<1> DEFINE Bad == {m \in Nat : ~ \E f : DecUpTo(f, m)}
<1> SUFFICES ASSUME Bad # {} PROVE FALSE
  OBVIOUS
<1>1. PICK m \in Bad : \A k \in Bad : m <= k
  <2>1. Bad \subseteq Nat  OBVIOUS
  <2> HIDE DEF Bad
  <2> QED  BY <2>1, LeastIn
<1>2. m \in Nat /\ ~ \E f : DecUpTo(f, m)
  OBVIOUS
<1>3. \A k \in Nat : k < m => \E f : DecUpTo(f, k)
  <2> TAKE k \in Nat
  <2> HAVE k < m
  <2>1. k \notin Bad
    <3> HIDE DEF Bad
    <3> QED BY <1>1, <1>2
  <2> QED BY <2>1
<1> HIDE DEF Bad
<1>4. CASE m = 0
  <2> DEFINE f == [n \in 0..m |-> <<48>>]
  <2>1. <<48>> \in Seq(Digits)  BY DEF Digits
  <2>2. f \in [0..m -> Seq(Digits)]  BY <2>1
  <2>3. \A n \in 0..m : f[n] = DecStep(f, n)  BY <1>4 DEF DecStep
  <2>4. DecUpTo(f, m)  BY <2>2, <2>3 DEF DecUpTo
  <2> QED  BY <2>4, <1>2
<1>5. CASE m # 0
  <2>1. m - 1 \in Nat /\ m - 1 < m  BY <1>2, <1>5
  <2>2. PICK f : DecUpTo(f, m - 1)  BY <2>1, <1>3
  <2>3. f \in [0..m - 1 -> Seq(Digits)] /\ \A n \in 0..m - 1 : f[n] = DecStep(f, n)
    BY <2>2 DEF DecUpTo
  <2> DEFINE g == [n \in 0..m |-> IF n = m THEN DecStep(f, m) ELSE f[n]]
  <2>4. \A n \in 0..m : n >= 10 => n \div 10 \in 0..m - 1
    BY <1>2
  <2>5. DecStep(f, m) \in Seq(Digits)
    <3>1. m >= 10 => f[m \div 10] \in Seq(Digits)  BY <1>2, <2>3, <2>4
    <3> QED  BY <1>2, <3>1, DecStepType
  <2>6. g \in [0..m -> Seq(Digits)]
    <3>1. \A n \in 0..m : n # m => n \in 0..m - 1  BY <1>2
    <3> QED BY <2>3, <2>5, <3>1
  <2>7. \A n \in 0..m : g[n] = DecStep(g, n)
    <3> TAKE n \in 0..m
    <3>1. DecStep(g, n) = DecStep(f, n)
      <4>1. n >= 10 => g[n \div 10] = f[n \div 10]  BY <2>4, <1>2
      <4>2. n \in Nat  BY <1>2
      <4> HIDE DEF g
      <4> QED BY <4>1, <4>2 DEF DecStep
    <3>2. CASE n = m  BY <3>1, <3>2
    <3>3. CASE n # m
      <4>1. n \in 0..m - 1  BY <1>2, <3>3
      <4> QED BY <3>1, <3>3, <4>1, <2>3
    <3> QED BY <3>2, <3>3
  <2>8. DecUpTo(g, m)  BY <2>6, <2>7 DEF DecUpTo
  <2> QED  BY <2>8, <1>2
<1> QED  BY <1>4, <1>5

\* Two functions that are right agree where both are.
LEMMA DecUnique ==
    ASSUME NEW f, NEW m \in Nat, DecUpTo(f, m), NEW g, NEW k \in Nat, DecUpTo(g, k), NEW n \in Nat,
           n <= m, n <= k
    PROVE  f[n] = g[n]
<1> DEFINE Bad == {i \in 0..n : f[i] # g[i]}
<1> SUFFICES ASSUME Bad # {} PROVE FALSE
  OBVIOUS
<1>1. PICK i \in Bad : \A j \in Bad : i <= j
  <2>1. Bad \subseteq Nat  OBVIOUS
  <2> HIDE DEF Bad
  <2> QED  BY <2>1, LeastIn
<1>2. i \in 0..n /\ f[i] # g[i]
  OBVIOUS
<1>3. \A j \in 0..n : j < i => f[j] = g[j]
  <2> TAKE j \in 0..n
  <2> HAVE j < i
  <2>1. j \notin Bad
    <3> HIDE DEF Bad
    <3> QED BY <1>1, <1>2
  <2> QED BY <2>1
<1> HIDE DEF Bad
<1>4. i >= 10 => i \div 10 \in 0..n /\ i \div 10 < i
  BY <1>2
<1>5. DecStep(f, i) = DecStep(g, i)
  BY <1>2, <1>3, <1>4 DEF DecStep
<1>6. f[i] = DecStep(f, i) /\ g[i] = DecStep(g, i)
  BY <1>2 DEF DecUpTo
<1> QED BY <1>2, <1>5, <1>6

\* What std::to_string makes of a number.
LEMMA DecimalIs ==
    /\ Decimal \in [Nat -> Seq(Digits)]
    /\ \A n \in Nat : Decimal[n] = IF n < 10 THEN <<48 + n>>
                                   ELSE Append(Decimal[n \div 10], 48 + (n % 10))
<1> DEFINE F == [n \in Nat |-> (CHOOSE f : DecUpTo(f, n))[n]]
<1>1. \A n \in Nat : DecUpTo(CHOOSE f : DecUpTo(f, n), n)
  BY DecExists
<1>2. \A n \in Nat : F[n] = DecStep(F, n)
  <2> TAKE n \in Nat
  <2>1. PICK f : f = CHOOSE g : DecUpTo(g, n)  OBVIOUS
  <2>2. DecUpTo(f, n) /\ F[n] = f[n]  BY <2>1, <1>1
  <2>3. n \in 0..n  OBVIOUS
  <2>4. f[n] = DecStep(f, n)  BY <2>2, <2>3 DEF DecUpTo
  <2>5. n >= 10 => F[n \div 10] = f[n \div 10]
    <3> HAVE n >= 10
    <3>1. PICK k \in Nat : k = n \div 10 /\ k <= n  OBVIOUS
    <3>2. PICK g : g = CHOOSE h : DecUpTo(h, k)  OBVIOUS
    <3>3. DecUpTo(g, k) /\ F[k] = g[k]  BY <3>2, <1>1
    <3> HIDE DEF F
    <3>4. g[k] = f[k]  BY <3>1, <3>3, <2>2, DecUnique
    <3> QED BY <3>1, <3>3, <3>4
  <2> HIDE DEF F
  <2>6. DecStep(F, n) = DecStep(f, n)  BY <2>5 DEF DecStep
  <2> QED BY <2>2, <2>4, <2>6
<1>3. \A n \in Nat : F[n] \in Seq(Digits)
  <2> TAKE n \in Nat
  <2>1. PICK f : f = CHOOSE g : DecUpTo(g, n)  OBVIOUS
  <2>2. DecUpTo(f, n) /\ F[n] = f[n]  BY <2>1, <1>1
  <2>3. n \in 0..n  OBVIOUS
  <2> HIDE DEF F
  <2> QED BY <2>2, <2>3 DEF DecUpTo
<1>4. F = [n \in Nat |-> IF n < 10 THEN <<48 + n>> ELSE Append(F[n \div 10], 48 + (n % 10))]
  <2>1. F = [n \in Nat |-> F[n]]  OBVIOUS
  <2> HIDE DEF F
  <2>2. \A n \in Nat : F[n] = IF n < 10 THEN <<48 + n>> ELSE Append(F[n \div 10], 48 + (n % 10))
    BY <1>2 DEF DecStep
  <2> QED BY <2>1, <2>2, Zenon
<1> HIDE DEF F
<1>5. Decimal = [n \in Nat |-> IF n < 10 THEN <<48 + n>>
                               ELSE Append(Decimal[n \div 10], 48 + (n % 10))]
  BY <1>4, Zenon DEF Decimal
<1>6. \A n \in Nat : Decimal[n] = IF n < 10 THEN <<48 + n>>
                                   ELSE Append(Decimal[n \div 10], 48 + (n % 10))
  BY <1>5, Zenon
<1>7. \A n \in Nat : Decimal[n] \in Seq(Digits)
  <2> DEFINE Bad == {i \in Nat : Decimal[i] \notin Seq(Digits)}
  <2> SUFFICES ASSUME Bad # {} PROVE FALSE
    OBVIOUS
  <2>1. PICK i \in Bad : \A j \in Bad : i <= j
    <3>1. Bad \subseteq Nat  OBVIOUS
    <3> HIDE DEF Bad
    <3> QED  BY <3>1, LeastIn
  <2>2. i \in Nat /\ Decimal[i] \notin Seq(Digits)
    OBVIOUS
  <2>3. i >= 10 => i \div 10 \in Nat /\ i \div 10 < i
    BY <2>2
  <2>4. i >= 10 => i \div 10 \notin Bad
    <3> HIDE DEF Bad
    <3> QED BY <2>1, <2>2, <2>3
  <2>5. i >= 10 => Decimal[i \div 10] \in Seq(Digits)
    BY <2>3, <2>4
  <2> HIDE DEF Bad
  <2>6. DecStep(Decimal, i) \in Seq(Digits)
    BY <2>2, <2>5, DecStepType
  <2>7. Decimal[i] = DecStep(Decimal, i)
    BY <2>2, <1>6, Zenon DEF DecStep
  <2> QED BY <2>2, <2>6, <2>7
<1> QED BY <1>5, <1>6, <1>7, Zenon

-----------------------------------------------------------------------------
(***************************************************************************)
(* Tags and bytes, and where they are found.                               *)
(***************************************************************************)
\* What a text is made of.
Byte == 0..255

\* A tuple, byte by byte.
LEMMA AppendToTuple ==
    ASSUME NEW a \in Int, NEW b \in Int, NEW c \in Int
    PROVE  Append(<<a>>, b) = <<a, b>> /\ Append(<<a, b>>, c) = <<a, b, c>>
<1>1. <<a>> \in Seq(Int) /\ <<a, b>> \in Seq(Int) /\ <<a, b, c>> \in Seq(Int)
  OBVIOUS
<1>2. PICK s \in Seq(Int) : s = Append(<<a>>, b)  BY <1>1, AppendProperties
<1>3. Len(s) = 2 /\ s[1] = a /\ s[2] = b
  <2>1. Len(<<a>>) = 1 /\ <<a>>[1] = a  OBVIOUS
  <2> QED  BY <1>1, <1>2, <2>1, AppendProperties
<1>4. PICK t \in Seq(Int) : t = <<a, b>>  BY <1>1
<1>5. Len(t) = 2 /\ t[1] = a /\ t[2] = b  BY <1>4
<1>6. s = t
  <2>1. \A i \in 1..2 : i = 1 \/ i = 2  OBVIOUS
  <2>2. Len(s) = Len(t) /\ \A i \in 1..Len(s) : s[i] = t[i]  BY <1>3, <1>5, <2>1
  <2> QED  BY <2>2, SeqEqual
<1>7. PICK u \in Seq(Int) : u = Append(t, c)  BY AppendProperties
<1>8. Len(u) = 3 /\ u[1] = a /\ u[2] = b /\ u[3] = c
  <2>1. Len(u) = Len(t) + 1 /\ u[Len(t) + 1] = c /\ \A i \in 1..Len(t) : u[i] = t[i]
    BY <1>7, AppendProperties
  <2> QED  BY <1>5, <2>1
<1>9. PICK w \in Seq(Int) : w = <<a, b, c>>  BY <1>1
<1>10. Len(w) = 3 /\ w[1] = a /\ w[2] = b /\ w[3] = c  BY <1>9
<1>11. u = w
  <2>1. \A i \in 1..3 : i = 1 \/ i = 2 \/ i = 3  OBVIOUS
  <2> QED  BY <1>8, <1>10, <2>1, SeqEqual
<1> QED  BY <1>2, <1>4, <1>6, <1>7, <1>9, <1>11

\* The bytes that the program's own constants are made of.
LEMMA DecimalParts ==
    ASSUME NEW n \in Nat
    PROVE  /\ Decimal[n] \in Seq(Digits) /\ Decimal[n] \in Seq(Byte)
           /\ Len(Decimal[n]) \in Nat /\ Len(Decimal[n]) >= 1
           /\ n < 10 => Decimal[n] = <<48 + n>>
           /\ n >= 10 => /\ Len(Decimal[n]) = Len(Decimal[n \div 10]) + 1
                         /\ Decimal[n][Len(Decimal[n])] = 48 + (n % 10)
                         /\ \A i \in 1..Len(Decimal[n \div 10]) : Decimal[n][i] = Decimal[n \div 10][i]
<1>1. Decimal[n] \in Seq(Digits)  BY DecimalIs
<1>2. n < 10 => Decimal[n] = <<48 + n>>  BY DecimalIs
<1>3. n >= 10 => Decimal[n] = Append(Decimal[n \div 10], 48 + (n % 10))
  <2> HAVE n >= 10
  <2>1. ~ n < 10  OBVIOUS
  <2> QED  BY <2>1, DecimalIs, Zenon
<1>4. n \div 10 \in Nat  OBVIOUS
<1>5. Decimal[n \div 10] \in Seq(Digits)  BY <1>4, DecimalIs
<1>6. PICK b \in Digits : b = 48 + (n % 10)
  <2>1. PICK r \in 0..9 : r = n % 10  OBVIOUS
  <2>2. 48 + r \in Digits  BY DEF Digits
  <2> QED  BY <2>1, <2>2
<1>7. PICK d \in Seq(Digits) : d = Decimal[n \div 10]  BY <1>5
<1>8. ASSUME n >= 10
      PROVE  /\ Len(Decimal[n]) = Len(d) + 1 /\ Decimal[n][Len(Decimal[n])] = b
             /\ \A i \in 1..Len(d) : Decimal[n][i] = d[i]
  <2>1. Decimal[n] = Append(d, b)  BY <1>3, <1>6, <1>7, <1>8
  <2> QED  BY <2>1, AppendProperties
<1>9. Len(Decimal[n]) >= 1
  <2>1. CASE n < 10
    <3>1. PICK c : c = 48 + n  OBVIOUS
    <3>2. Decimal[n] = <<c>>  BY <1>2, <2>1, <3>1
    <3> QED  BY <3>2
  <2>2. CASE n >= 10
    <3>1. Len(d) \in Nat  OBVIOUS
    <3> QED  BY <1>8, <2>2, <3>1
  <2> QED  BY <2>1, <2>2
<1>10. Decimal[n] \in Seq(Byte)
  <2>1. Digits \subseteq Byte  BY DEF Digits, Byte
  <2> QED  BY <1>1, <2>1
<1>11. Len(Decimal[n]) \in Nat  BY <1>1
<1> QED  BY <1>1, <1>2, <1>6, <1>7, <1>8, <1>9, <1>10, <1>11

\* The tags looked for are written with two digits.
LEMMA TwoDigits ==
    ASSUME NEW n \in 10..99
    PROVE  Decimal[n] = <<48 + (n \div 10), 48 + (n % 10)>>
<1>1. PICK d \in 1..9 : d = n \div 10  OBVIOUS
<1>2. d \in Nat /\ d < 10 /\ n \in Nat /\ n >= 10  OBVIOUS
<1>3. Decimal[d] = <<48 + d>>  BY <1>2, DecimalIs
<1>4. Decimal[n] = Append(Decimal[d], 48 + (n % 10))
  <2>1. ~ n < 10  BY <1>2
  <2> QED  BY <1>1, <1>2, <2>1, DecimalIs, Zenon
<1>5. PICK a \in Int, b \in Int : a = 48 + d /\ b = 48 + (n % 10)  OBVIOUS
<1>6. Append(<<a>>, b) = <<a, b>>  BY AppendToTuple
<1> QED  BY <1>1, <1>3, <1>4, <1>5, <1>6

\* "10=" and "9=".
LEMMA TenAndNine ==
    /\ Prefix(10) = <<49, 48, 61>>
    /\ Prefix(9) = <<57, 61>>
<1>1. Decimal[10] = <<49, 48>>
  <2>1. 10 \in 10..99 /\ 10 \div 10 = 1 /\ 10 % 10 = 0  OBVIOUS
  <2>2. Decimal[10] = <<48 + (10 \div 10), 48 + (10 % 10)>>  BY <2>1, TwoDigits
  <2> QED  BY <2>1, <2>2
<1>2. Decimal[9] = <<57>>
  <2>1. PICK k \in Nat : k = 9  OBVIOUS
  <2>2. k < 10 /\ 48 + k = 57  BY <2>1
  <2>3. Decimal[k] = <<48 + k>>  BY <2>2, DecimalIs
  <2> QED  BY <2>1, <2>2, <2>3
<1>3. Append(<<49, 48>>, 61) = <<49, 48, 61>> /\ Append(<<57>>, 61) = <<57, 61>>
  <2>1. PICK a \in Int, b \in Int, c \in Int, d \in Int : a = 49 /\ b = 48 /\ c = 61 /\ d = 57  OBVIOUS
  <2>2. Append(<<a, b>>, c) = <<a, b, c>> /\ Append(<<d>>, c) = <<d, c>>  BY AppendToTuple
  <2> QED  BY <2>1, <2>2
<1> QED  BY <1>1, <1>2, <1>3 DEF Prefix, EQ

\* A prefix: digits and an equals sign.
LEMMA PrefixParts ==
    ASSUME NEW tag \in Nat
    PROVE  /\ Prefix(tag) \in Seq(Byte)
           /\ Len(Prefix(tag)) = Len(Decimal[tag]) + 1
           /\ Len(Decimal[tag]) \in Nat /\ Len(Decimal[tag]) >= 1
           /\ Prefix(tag)[Len(Decimal[tag]) + 1] = EQ
           /\ \A i \in 1..Len(Decimal[tag]) :
                Prefix(tag)[i] = Decimal[tag][i] /\ Prefix(tag)[i] \in Digits
<1>1. PICK d \in Seq(Digits) : d = Decimal[tag]  BY DecimalParts
<1>2. Len(d) >= 1  BY <1>1, DecimalParts
<1>3. PICK s \in Seq(Byte) : s = d
  <2>1. d \in Seq(Byte)  BY <1>1, DecimalParts
  <2> QED  BY <2>1
<1>4. EQ \in Byte  BY DEF EQ, Byte
<1>5. Prefix(tag) = Append(s, EQ)  BY <1>1, <1>3 DEF Prefix
<1>6. Append(s, EQ) \in Seq(Byte) /\ Len(Append(s, EQ)) = Len(s) + 1
      /\ Append(s, EQ)[Len(s) + 1] = EQ /\ \A i \in 1..Len(s) : Append(s, EQ)[i] = s[i]
  BY <1>4, AppendProperties
<1>7. \A i \in 1..Len(d) : d[i] \in Digits  OBVIOUS
<1> QED  BY <1>1, <1>2, <1>3, <1>5, <1>6, <1>7

\* std::string::find gives the first place of the pattern.
LEMMA FindIs ==
    ASSUME NEW pattern, Len(pattern) \in Nat, NEW text, Len(text) \in Nat, NEW from \in Nat \ {0}
    PROVE  /\ Find(pattern, text, from) \in Nat
           /\ Find(pattern, text, from) = 0 <=> Found(pattern, text, from) = {}
           /\ Find(pattern, text, from) # 0 =>
                /\ Find(pattern, text, from) \in Found(pattern, text, from)
                /\ \A i \in Found(pattern, text, from) : Find(pattern, text, from) <= i
<1> DEFINE I == Found(pattern, text, from)
<1>1. I \subseteq Nat \ {0}
  BY DEF Found
<1>2. Find(pattern, text, from) = IF I = {} THEN 0 ELSE Min(I)
  BY DEF Find
<1> HIDE DEF I
<1>3. I # {} => \E m \in I : \A n \in I : m <= n
  <2>1. I \subseteq Nat  BY <1>1
  <2> QED BY <2>1, LeastIn
<1>4. I # {} => Min(I) \in I /\ \A n \in I : Min(I) <= n
    BY <1>3 DEF Min
<1> QED
    BY <1>1, <1>2, <1>4 DEF I

\* The places of "9=".
LEMMA FoundNine ==
    ASSUME NEW text, Len(text) \in Nat, NEW from \in Nat
    PROVE  \A i : i \in Found(Prefix(9), text, from) <=>
                    i \in from..Len(text) - 1 /\ text[i] = 57 /\ text[i + 1] = 61
<1>1. PICK p : p = <<57, 61>>  OBVIOUS
<1>2. Len(p) = 2 /\ p[1] = 57 /\ p[2] = 61 /\ Prefix(9) = p  BY <1>1, TenAndNine
<1>3. \A j : j \in 1..2 <=> j \in {1, 2}  OBVIOUS
<1> TAKE i
<1>4. i \in Found(p, text, from) <=>
        i \in from..(Len(text) - 2 + 1) /\ \A j \in 1..2 : text[i + j - 1] = p[j]
  BY <1>2 DEF Found
<1>5. i \in from..(Len(text) - 2 + 1) <=> i \in from..Len(text) - 1  OBVIOUS
<1>6. ASSUME i \in Int
      PROVE  (\A j \in 1..2 : text[i + j - 1] = p[j]) <=>
             text[i] = 57 /\ text[i + 1] = 61
  <2>1. i + 1 - 1 = i /\ i + 2 - 1 = i + 1  BY <1>6
  <2> QED  BY <2>1, <1>2, <1>3
<1>7. i \in from..Len(text) - 1 => i \in Int  OBVIOUS
<1> QED  BY <1>2, <1>4, <1>5, <1>6, <1>7

\* The places of a byte.
LEMMA FoundByte ==
    ASSUME NEW text, Len(text) \in Nat, NEW from \in Nat, NEW byte
    PROVE  \A i : i \in Found(<<byte>>, text, from) <=> i \in from..Len(text) /\ text[i] = byte
<1>1. PICK p : p = <<byte>>  OBVIOUS
<1>2. Len(p) = 1 /\ p[1] = byte  BY <1>1
<1>3. \A j : j \in 1..1 <=> j = 1  OBVIOUS
<1> TAKE i
<1>4. i \in Found(p, text, from) <=>
        i \in from..(Len(text) - 1 + 1) /\ \A j \in 1..1 : text[i + j - 1] = p[j]
  BY <1>2 DEF Found
<1>5. i \in from..(Len(text) - 1 + 1) <=> i \in from..Len(text)  OBVIOUS
<1>6. ASSUME i \in Int
      PROVE  (\A j \in 1..1 : text[i + j - 1] = p[j]) <=> text[i] = byte
  <2>1. i + 1 - 1 = i  BY <1>6
  <2> QED  BY <2>1, <1>2, <1>3
<1>7. i \in from..Len(text) => i \in Int  OBVIOUS
<1> QED  BY <1>1, <1>4, <1>5, <1>6, <1>7

\* f is the first place of the byte, or 0 if it has none.
FirstAt(f, byte, text, from) ==
    /\ f \in Nat
    /\ f = 0 <=> \A i \in from..Len(text) : text[i] # byte
    /\ f # 0 => /\ f \in from..Len(text) /\ text[f] = byte
                /\ \A i \in from..f - 1 : text[i] # byte

\* Both in one: find, for a byte.
LEMMA FindByte ==
    ASSUME NEW text, Len(text) \in Nat, NEW from \in Nat \ {0}, NEW byte
    PROVE  FirstAt(Find(<<byte>>, text, from), byte, text, from)
<1>1. Len(<<byte>>) \in Nat  OBVIOUS
<1>2. PICK at : at = Find(<<byte>>, text, from)  OBVIOUS
<1>3. PICK I : I = Found(<<byte>>, text, from)  OBVIOUS
<1>4. \A i : i \in I <=> i \in from..Len(text) /\ text[i] = byte
  BY <1>3, FoundByte
<1>5. at \in Nat /\ (at = 0 <=> I = {}) /\ (at # 0 => at \in I /\ \A i \in I : at <= i)
  BY <1>1, <1>2, <1>3, FindIs
<1>6. at = 0 <=> \A i \in from..Len(text) : text[i] # byte
  BY <1>4, <1>5
<1>7. at # 0 => at \in from..Len(text) /\ text[at] = byte
  BY <1>4, <1>5
<1>8. at # 0 => \A i \in from..at - 1 : text[i] # byte
  BY <1>4, <1>5
<1> QED  BY <1>2, <1>5, <1>6, <1>7, <1>8 DEF FirstAt

-----------------------------------------------------------------------------
(***************************************************************************)
(* Concatenation and parts, byte by byte.                                  *)
(***************************************************************************)
\* A concatenation, byte by byte.
LEMMA ConcatParts ==
    ASSUME NEW S, NEW s \in Seq(S), NEW t \in Seq(S)
    PROVE  /\ s \o t \in Seq(S) /\ Len(s \o t) = Len(s) + Len(t)
           /\ \A i \in 1..Len(s) : (s \o t)[i] = s[i]
           /\ \A i \in 1..Len(t) : (s \o t)[Len(s) + i] = t[i]
<1>1. s \o t \in Seq(S) /\ Len(s \o t) = Len(s) + Len(t)
      /\ \A i \in 1..Len(s) + Len(t) : (s \o t)[i] = IF i <= Len(s) THEN s[i] ELSE t[i - Len(s)]
  BY ConcatProperties
<1>2. PICK m \in Nat, n \in Nat : m = Len(s) /\ n = Len(t)
  OBVIOUS
<1>3. \A i \in 1..m : (s \o t)[i] = s[i]
  BY <1>1, <1>2
<1>4. \A i \in 1..n : (s \o t)[m + i] = t[i]
  <2> TAKE i \in 1..n
  <2>1. m + i \in 1..m + n /\ ~ m + i <= m /\ m + i - m = i  OBVIOUS
  <2> QED  BY <1>1, <1>2, <2>1
<1> QED  BY <1>1, <1>2, <1>3, <1>4

\* A piece of a text.
LEMMA SubParts ==
    ASSUME NEW S, NEW s \in Seq(S), NEW a \in Nat \ {0}, NEW b \in Nat, b <= Len(s), a <= b + 1
    PROVE  /\ SubSeq(s, a, b) \in Seq(S) /\ Len(SubSeq(s, a, b)) = b - a + 1
           /\ \A i \in 1..b - a + 1 : SubSeq(s, a, b)[i] = s[a + i - 1]
<1>1. \A i \in a..b : s[i] \in S
  <2>1. \A i \in a..b : i \in 1..Len(s)  OBVIOUS
  <2> QED  BY <2>1, ElementOfSeq
<1>2. SubSeq(s, a, b) \in Seq(S)
  BY <1>1, SubSeqProperties
<1>3. Len(SubSeq(s, a, b)) = b - a + 1
  <2>1. CASE a <= b  BY <1>1, <2>1, SubSeqProperties
  <2>2. CASE a = b + 1
    <3>1. SubSeq(s, a, b) = <<>>  BY <2>2, SubSeqEmpty
    <3> QED  BY <2>2, <3>1
  <2> QED  BY <2>1, <2>2
<1>4. \A i \in 1..b - a + 1 : SubSeq(s, a, b)[i] = s[a + i - 1]
  BY <1>1, SubSeqProperties
<1> QED  BY <1>2, <1>3, <1>4

\* What is summed: the bytes before the first "10=".
LEMMA SummedIs ==
    ASSUME NEW text \in Seq(Byte)
    PROVE  /\ Summed(text) \in Seq(Byte)
           /\ Found(Prefix(10), text, 1) = {} => Summed(text) = text
           /\ \A at \in Found(Prefix(10), text, 1) :
                (\A i \in Found(Prefix(10), text, 1) : at <= i) => Summed(text) = SubSeq(text, 1, at - 1)
<1>1. PICK p : p = Prefix(10)  OBVIOUS
<1>2. Len(p) = 3  BY <1>1, TenAndNine
<1>3. PICK I : I = Found(p, text, 1)  OBVIOUS
<1>4. PICK end \in Nat : /\ end = Find(p, text, 1) /\ (end = 0 <=> I = {})
                         /\ (end # 0 => end \in I /\ \A i \in I : end <= i)
  <2>1. Len(p) \in Nat /\ Len(text) \in Nat /\ 1 \in Nat \ {0}  BY <1>2
  <2> QED  BY <1>3, <2>1, FindIs
<1>5. Summed(text) = IF end = 0 THEN text ELSE SubSeq(text, 1, end - 1)
  BY <1>1, <1>4 DEF Summed
<1>6. \A i \in I : i \in Nat /\ i >= 1 /\ i <= Len(text)
  BY <1>2, <1>3 DEF Found
<1>7. end # 0 => SubSeq(text, 1, end - 1) \in Seq(Byte)
  <2> HAVE end # 0
  <2>1. end \in I  BY <1>4
  <2>2. end - 1 \in Nat /\ end - 1 <= Len(text) /\ 1 <= end - 1 + 1 /\ 1 \in Nat \ {0}  BY <2>1, <1>6
  <2> QED  BY <2>2, SubParts
<1>8. Summed(text) \in Seq(Byte)
  BY <1>5, <1>7
<1>9. ASSUME NEW at \in I, \A i \in I : at <= i
      PROVE  Summed(text) = SubSeq(text, 1, at - 1)
  <2>1. end # 0 /\ at <= end /\ end <= at  BY <1>4, <1>9
  <2>2. at = end  BY <2>1, <1>6
  <2> QED  BY <2>1, <2>2, <1>5
<1>10. I = {} => Summed(text) = text
  BY <1>4, <1>5
<1> QED  BY <1>1, <1>3, <1>8, <1>9, <1>10

\* The three digits of a checksum tell what it was made of, modulo 256.
LEMMA ChecksumIs ==
    ASSUME NEW text \in Seq(Byte)
    PROVE  \E s \in Byte :
              /\ s = ByteSum(Summed(text))
              /\ CalculateChecksum(text) = <<48 + (s \div 100), 48 + ((s \div 10) % 10), 48 + (s % 10)>>
              /\ CalculateChecksum(text) \in Seq(Byte) /\ Len(CalculateChecksum(text)) = 3
              /\ CalculateChecksum(text) \in Seq(Digits)
<1>1. PICK b \in Seq(Byte) : b = Summed(text)  BY SummedIs
<1>2. PICK s \in Byte : s = ByteSum(b)
  <2>1. PICK n \in Nat : n = Len(b)  OBVIOUS
  <2>2. PICK sum \in [0..n -> Byte] : ByteSum(b) = sum[n]
    BY <2>1, ByteSumIs DEF Byte
  <2>3. n \in 0..n  OBVIOUS
  <2> QED  BY <2>2, <2>3
<1>3. CalculateChecksum(text) = <<48 + (s \div 100), 48 + ((s \div 10) % 10), 48 + (s % 10)>>
  BY <1>1, <1>2 DEF CalculateChecksum
<1>4. /\ 48 + (s \div 100) \in Digits /\ 48 + ((s \div 10) % 10) \in Digits /\ 48 + (s % 10) \in Digits
  BY DEF Digits, Byte
<1>5. PICK x \in Digits, y \in Digits, z \in Digits :
        x = 48 + (s \div 100) /\ y = 48 + ((s \div 10) % 10) /\ z = 48 + (s % 10)
  BY <1>4
<1>6. PICK c : c = <<x, y, z>>  OBVIOUS
<1>7. c \in Seq(Digits) /\ Len(c) = 3  BY <1>6
<1>8. c \in Seq(Byte)
  <2>1. Digits \subseteq Byte  BY DEF Digits, Byte
  <2> QED  BY <1>7, <2>1
<1> QED  BY <1>1, <1>2, <1>3, <1>5, <1>6, <1>7, <1>8

\* Two sums with the same three digits are the same.
LEMMA DigitsTell ==
    ASSUME NEW s \in Byte, NEW t \in Byte,
           48 + (s \div 100) = 48 + (t \div 100),
           48 + ((s \div 10) % 10) = 48 + ((t \div 10) % 10), 48 + (s % 10) = 48 + (t % 10)
    PROVE  s = t
<1>1. s = 10 * (s \div 10) + (s % 10) /\ t = 10 * (t \div 10) + (t % 10)
  BY DEF Byte
<1>2. PICK a \in 0..25, b \in 0..25 : a = s \div 10 /\ b = t \div 10
  BY DEF Byte
<1>3. s \div 100 = a \div 10 /\ t \div 100 = b \div 10
  BY <1>2 DEF Byte
<1>4. a \div 10 = b \div 10 /\ a % 10 = b % 10
  BY <1>2, <1>3 DEF Byte
<1>5. a = b  BY <1>4
<1> QED  BY <1>1, <1>2, <1>5 DEF Byte

-----------------------------------------------------------------------------
(***************************************************************************)
(* The shape of a message: the BeginString, 9= and the BodyLength, the     *)
(* body, 10= and three digits.                                             *)
(***************************************************************************)
\* Where the BodyLength field of a built message ends, and where its "10=" is.
Ending(n) == 13 + Len(Decimal[n])
\* Where the trailer begins, behind a body of n bytes.
Trailer(n) == Ending(n) + n + 1

\* How every message begins that announces n bytes.
Opens(text, n) ==
    /\ text \in Seq(Byte) /\ Len(text) >= Ending(n)
    /\ \A i \in 1..10 : text[i] = BeginString(4)[i]
    /\ text[11] = 57 /\ text[12] = EQ
    /\ \A i \in 1..Len(Decimal[n]) : text[12 + i] = Decimal[n][i]
    /\ text[Ending(n)] = SOH

\* What every built message of n bytes between the two looks like.
Shape(text, n) ==
    /\ Opens(text, n) /\ Len(text) = Trailer(n) + 6
    /\ text[Trailer(n)] = 49 /\ text[Trailer(n) + 1] = 48 /\ text[Trailer(n) + 2] = EQ
    /\ text[Trailer(n) + 6] = SOH

\* s is the beginning of t.
Begins(s, t) == Len(s) <= Len(t) /\ \A i \in 1..Len(s) : t[i] = s[i]

\* The bytes of a concatenation.
IsConcat(w, s, t) ==
    /\ Len(s) \in Nat /\ Len(t) \in Nat /\ Len(w) = Len(s) + Len(t)
    /\ \A i \in 1..Len(s) : w[i] = s[i]
    /\ \A i \in 1..Len(t) : w[Len(s) + i] = t[i]

\* A concatenation is one.
LEMMA ConcatIs ==
    ASSUME NEW S, NEW s \in Seq(S), NEW t \in Seq(S)
    PROVE  s \o t \in Seq(S) /\ IsConcat(s \o t, s, t)
<1>1. Len(s) \in Nat /\ Len(t) \in Nat  OBVIOUS
<1> QED  BY <1>1, ConcatParts DEF IsConcat

\* Both parts of a concatenation, seen from a text that begins with it.
LEMMA BeginsConcat ==
    ASSUME NEW s, NEW t, NEW w, IsConcat(w, s, t), NEW u, Begins(w, u), Len(u) \in Nat
    PROVE  Len(w) = Len(s) + Len(t) /\ Begins(s, u) /\ \A i \in 1..Len(t) : u[Len(s) + i] = t[i]
<1>1. PICK m \in Nat, n \in Nat, l \in Nat : m = Len(s) /\ n = Len(t) /\ l = Len(u)
  BY DEF IsConcat
<1>2. /\ Len(w) = m + n
      /\ \A i \in 1..m : w[i] = s[i]
      /\ \A i \in 1..n : w[m + i] = t[i]
  BY <1>1 DEF IsConcat
<1>3. m + n <= l /\ \A i \in 1..m + n : u[i] = w[i]
  BY <1>1, <1>2 DEF Begins
<1>4. m <= l /\ (\A i \in 1..m : i \in 1..m + n) /\ \A i \in 1..n : m + i \in 1..m + n
  BY <1>3
<1>5. \A i \in 1..m : u[i] = s[i]  BY <1>2, <1>3, <1>4
<1>6. \A i \in 1..n : u[m + i] = t[i]  BY <1>2, <1>3, <1>4
<1>7. Begins(s, u)  BY <1>1, <1>4, <1>5 DEF Begins
<1> QED  BY <1>1, <1>2, <1>6, <1>7

\* The BeginString.
LEMMA BeginStringIs ==
    ASSUME NEW v \in 0..9
    PROVE  /\ BeginString(v) \in Seq(Byte) /\ Len(BeginString(v)) = 10
           /\ BeginString(v)[1] = 56 /\ BeginString(v)[2] = EQ /\ BeginString(v)[3] = 70
           /\ BeginString(v)[4] = 73 /\ BeginString(v)[5] = 88 /\ BeginString(v)[6] = 46
           /\ BeginString(v)[7] = 52 /\ BeginString(v)[8] = 46 /\ BeginString(v)[9] = 48 + v
           /\ BeginString(v)[10] = SOH
BY DEF BeginString, Byte, EQ, SOH

\* The one that is sent, in numbers.
LEMMA BegunIs ==
    /\ BeginString(4)[1] = 56 /\ BeginString(4)[2] = 61 /\ BeginString(4)[3] = 70
    /\ BeginString(4)[4] = 73 /\ BeginString(4)[5] = 88 /\ BeginString(4)[6] = 46
    /\ BeginString(4)[7] = 52 /\ BeginString(4)[8] = 46 /\ BeginString(4)[9] = 52
    /\ BeginString(4)[10] = 1
<1>1. 4 \in 0..9 /\ 48 + 4 = 52  OBVIOUS
<1>2. PICK v : v = BeginString(4)  OBVIOUS
<1>3. /\ v[1] = 56 /\ v[2] = 61 /\ v[3] = 70 /\ v[4] = 73 /\ v[5] = 88 /\ v[6] = 46
      /\ v[7] = 52 /\ v[8] = 46 /\ v[9] = 52 /\ v[10] = 1
  BY <1>1, <1>2, BeginStringIs DEF EQ, SOH
<1> QED  BY <1>2, <1>3, Zenon

(***************************************************************************)
(* build_message (fix_utils.hpp:56-72): the shape of what it builds, with  *)
(* the body in its place and the checksum of all that comes before.        *)
(***************************************************************************)
LEMMA BuiltShape ==
    ASSUME NEW fields, Body(fields) \in Seq(Byte)
    PROVE  LET n == Len(Body(fields))
               m == BuildMessage(fields)
           IN  /\ Shape(m, n)
               /\ \A i \in 1..n : m[Ending(n) + i] = Body(fields)[i]
               /\ \A i \in 1..3 : m[Trailer(n) + 2 + i] = CalculateChecksum(SubSeq(m, 1, Trailer(n) - 1))[i]
<1>1. PICK b \in Seq(Byte) : b = Body(fields)  OBVIOUS
<1>2. PICK n \in Nat : n = Len(b)  OBVIOUS
<1>3. PICK d \in Seq(Byte) : d = Decimal[n] /\ Len(d) >= 1  BY DecimalParts
<1>4. PICK v \in Seq(Byte) : v = BeginString(4) /\ Len(v) = 10
  <2>1. 4 \in 0..9  OBVIOUS
  <2> QED  BY <2>1, BeginStringIs
<1>5. PICK nine \in Seq(Byte), ten \in Seq(Byte), soh \in Seq(Byte) :
        /\ nine = Prefix(9) /\ ten = Prefix(10) /\ soh = <<SOH>>
        /\ Len(nine) = 2 /\ nine[1] = 57 /\ nine[2] = 61
        /\ Len(ten) = 3 /\ ten[1] = 49 /\ ten[2] = 48 /\ ten[3] = 61
        /\ Len(soh) = 1 /\ soh[1] = SOH
  <2>1. <<49, 48, 61>> \in Seq(Byte) /\ <<57, 61>> \in Seq(Byte) /\ <<SOH>> \in Seq(Byte)
    BY DEF Byte, SOH
  <2> QED  BY <2>1, TenAndNine
<1>6. PICK x1 \in Seq(Byte) : x1 = v \o nine /\ IsConcat(x1, v, nine)  BY ConcatIs
<1>7. PICK x2 \in Seq(Byte) : x2 = x1 \o d /\ IsConcat(x2, x1, d)  BY ConcatIs
<1>8. PICK x3 \in Seq(Byte) : x3 = x2 \o soh /\ IsConcat(x3, x2, soh)  BY ConcatIs
<1>9. PICK x \in Seq(Byte) : x = x3 \o b /\ IsConcat(x, x3, b)  BY ConcatIs
<1>10. PICK c \in Seq(Byte) : c = CalculateChecksum(x) /\ Len(c) = 3  BY ChecksumIs
<1>11. PICK y1 \in Seq(Byte) : y1 = x \o ten /\ IsConcat(y1, x, ten)  BY ConcatIs
<1>12. PICK y2 \in Seq(Byte) : y2 = y1 \o c /\ IsConcat(y2, y1, c)  BY ConcatIs
<1>13. PICK m \in Seq(Byte) : m = y2 \o soh /\ IsConcat(m, y2, soh)  BY ConcatIs
<1>14. m = BuildMessage(fields)
  <2>1. x = BeginString(4) \o Prefix(9) \o BodyLength(Body(fields)) \o <<SOH>> \o Body(fields)
    BY <1>1, <1>2, <1>3, <1>4, <1>5, <1>6, <1>7, <1>8, <1>9, Zenon DEF BodyLength
  <2>2. m = x \o Prefix(10) \o CalculateChecksum(x) \o <<SOH>>
    BY <1>5, <1>10, <1>11, <1>12, <1>13, Zenon
  <2> QED  BY <2>1, <2>2, Zenon DEF BuildMessage
<1>20. Begins(m, m)
  <2>1. Len(m) \in Nat  OBVIOUS
  <2> QED  BY <2>1 DEF Begins
<1>16. Len(m) \in Nat  OBVIOUS
<1>21. Len(m) = Len(y2) + Len(soh) /\ Begins(y2, m) /\ \A i \in 1..Len(soh) : m[Len(y2) + i] = soh[i]
  <2>1. IsConcat(m, y2, soh)  BY <1>13
  <2> QED  BY ONLY <2>1, <1>20, <1>16, BeginsConcat, SMT
<1>22. Len(y2) = Len(y1) + Len(c) /\ Begins(y1, m) /\ \A i \in 1..Len(c) : m[Len(y1) + i] = c[i]
  <2>1. IsConcat(y2, y1, c)  BY <1>12
  <2>2. Begins(y2, m)  BY <1>21
  <2> QED  BY ONLY <2>1, <2>2, <1>16, BeginsConcat, SMT
<1>23. Len(y1) = Len(x) + Len(ten) /\ Begins(x, m) /\ \A i \in 1..Len(ten) : m[Len(x) + i] = ten[i]
  BY <1>11, <1>22, <1>16, BeginsConcat
<1>24. Len(x) = Len(x3) + Len(b) /\ Begins(x3, m) /\ \A i \in 1..Len(b) : m[Len(x3) + i] = b[i]
  BY <1>9, <1>23, <1>16, BeginsConcat
<1>25. Len(x3) = Len(x2) + Len(soh) /\ Begins(x2, m) /\ \A i \in 1..Len(soh) : m[Len(x2) + i] = soh[i]
  BY <1>8, <1>24, <1>16, BeginsConcat
<1>26. Len(x2) = Len(x1) + Len(d) /\ Begins(x1, m) /\ \A i \in 1..Len(d) : m[Len(x1) + i] = d[i]
  BY <1>7, <1>25, <1>16, BeginsConcat
<1>27. Len(x1) = Len(v) + Len(nine) /\ Begins(v, m) /\ \A i \in 1..Len(nine) : m[Len(v) + i] = nine[i]
  BY <1>6, <1>26, <1>16, BeginsConcat
<1>28. PICK l \in Nat, e \in Nat, t \in Nat :
         l = Len(d) /\ e = Ending(n) /\ e = 13 + l /\ t = Trailer(n) /\ t = e + n + 1
  <2>1. PICK l \in Nat : l = Len(d)  OBVIOUS
  <2>2. Ending(n) = 13 + l /\ Trailer(n) = 13 + l + n + 1  BY <2>1, <1>3 DEF Ending, Trailer
  <2> QED  BY <2>1, <2>2
<1>29. /\ Len(x1) = 12 /\ Len(x2) = e - 1 /\ Len(x3) = e /\ Len(x) = t - 1
       /\ Len(y1) = t + 2 /\ Len(y2) = t + 5 /\ Len(m) = t + 6
  <2>1. Len(x1) = 12  BY <1>4, <1>5, <1>27
  <2>2. Len(x2) = e - 1  BY <2>1, <1>26, <1>28
  <2>3. Len(x3) = e  BY <2>2, <1>5, <1>25, <1>28
  <2>4. Len(x) = t - 1  BY <2>3, <1>2, <1>24, <1>28
  <2>5. Len(y1) = t + 2  BY <2>4, <1>5, <1>23, <1>28
  <2>6. Len(y2) = t + 5  BY <2>5, <1>10, <1>22, <1>28
  <2>7. Len(m) = t + 6  BY <2>6, <1>5, <1>21, <1>28
  <2> QED  BY <2>1, <2>2, <2>3, <2>4, <2>5, <2>6, <2>7
<1>30. Shape(m, n)
  <2>1. \A i \in 1..10 : m[i] = BeginString(4)[i]
    <3>1. \A i \in 1..10 : m[i] = v[i]  BY <1>4, <1>27 DEF Begins
    <3> QED  BY <3>1, <1>4, Zenon
  <2>2. m[11] = 57 /\ m[12] = EQ
    <3>1. 1 \in 1..2 /\ 2 \in 1..2 /\ 10 + 1 = 11 /\ 10 + 2 = 12  OBVIOUS
    <3>2. \A i \in 1..2 : m[10 + i] = nine[i]  BY <1>4, <1>5, <1>27, ZenonT(40)
    <3>3. m[10 + 1] = nine[1] /\ m[10 + 2] = nine[2]  BY <3>1, <3>2
    <3> QED  BY <3>1, <3>3, <1>5 DEF EQ
  <2>3. \A i \in 1..Len(d) : m[12 + i] = d[i]
    BY <1>26, <1>29
  <2>4. m[e] = SOH
    <3>1. 1 \in 1..1 /\ e - 1 + 1 = e  BY <1>28
    <3> QED  BY <3>1, <1>5, <1>25, <1>29
  <2>5. m[t] = 49 /\ m[t + 1] = 48 /\ m[t + 2] = EQ
    <3>1. 1 \in 1..3 /\ 2 \in 1..3 /\ 3 \in 1..3 /\ t - 1 + 1 = t /\ t - 1 + 2 = t + 1 /\ t - 1 + 3 = t + 2
      BY <1>28
    <3>2. \A i \in 1..3 : m[t - 1 + i] = ten[i]  BY <1>5, <1>23, <1>29
    <3>3. m[t - 1 + 1] = ten[1] /\ m[t - 1 + 2] = ten[2] /\ m[t - 1 + 3] = ten[3]
      BY <3>1, <3>2, Zenon
    <3> QED  BY <3>1, <3>3, <1>5 DEF EQ
  <2>6. m[t + 6] = SOH
    <3>1. 1 \in 1..1 /\ t + 5 + 1 = t + 6  BY <1>28
    <3> QED  BY <3>1, <1>5, <1>21, <1>29
  <2>7. Len(m) = t + 6 /\ m \in Seq(Byte)  BY <1>29
  <2>8. Len(m) >= e  BY <1>28, <1>29
  <2>9. e = Ending(n) /\ t = Trailer(n) /\ d = Decimal[n]  BY <1>3, <1>28, Zenon
  <2>10. Opens(m, n)
    <3>1. Len(m) >= Ending(n) /\ m[Ending(n)] = SOH  BY ONLY <2>4, <2>8, <2>9, Zenon
    <3>2. \A i \in 1..Len(Decimal[n]) : m[12 + i] = Decimal[n][i]  BY ONLY <2>3, <2>9, Zenon
    <3>3. m \in Seq(Byte)  BY ONLY <2>7, Zenon
    <3> QED  BY ONLY <2>1, <2>2, <3>1, <3>2, <3>3, Zenon DEF Opens
  <2>11. Len(m) = Trailer(n) + 6 /\ m[Trailer(n) + 6] = SOH  BY ONLY <2>6, <2>7, <2>9, Zenon
  <2>12. m[Trailer(n)] = 49 /\ m[Trailer(n) + 1] = 48 /\ m[Trailer(n) + 2] = EQ
    BY ONLY <2>5, <2>9, Zenon
  <2> QED  BY ONLY <2>10, <2>11, <2>12, Zenon DEF Shape
<1>31. \A i \in 1..n : m[e + i] = b[i]
  BY <1>2, <1>24, <1>29
<1>32. SubSeq(m, 1, t - 1) = x
  <2>1. Len(x) <= Len(m) /\ \A i \in 1..Len(x) : m[i] = x[i]  BY <1>23 DEF Begins
  <2>2. t - 1 \in Nat /\ t - 1 <= Len(m) /\ 1 <= t - 1 + 1 /\ t - 1 - 1 + 1 = t - 1 /\ 1 \in Nat \ {0}
    <3>1. t - 1 \in Nat /\ 1 <= t - 1 + 1 /\ t - 1 - 1 + 1 = t - 1 /\ 1 \in Nat \ {0}  BY <1>28, SMTT(40)
    <3>2. t - 1 <= Len(m)  BY <1>29
    <3> QED  BY <3>1, <3>2
  <2>3. PICK z \in Seq(Byte) : z = SubSeq(m, 1, t - 1)  BY <2>2, SubParts
  <2>4. Len(z) = t - 1 /\ \A i \in 1..t - 1 : z[i] = m[1 + i - 1]  BY <2>2, <2>3, SubParts
  <2>5. \A i \in 1..t - 1 : z[i] = m[i]
    <3>1. \A i \in 1..t - 1 : 1 + i - 1 = i  BY <1>28
    <3> QED  BY <3>1, <2>4
  <2>6. Len(z) = Len(x) /\ \A i \in 1..Len(z) : z[i] = x[i]
    BY <2>1, <2>4, <2>5, <1>29
  <2> QED  BY <2>3, <2>6, SeqEqual
<1>33. \A i \in 1..3 : m[t + 2 + i] = CalculateChecksum(SubSeq(m, 1, t - 1))[i]
  BY <1>10, <1>22, <1>29, <1>32
<1> QED  BY <1>1, <1>2, <1>14, <1>28, <1>30, <1>31, <1>33

-----------------------------------------------------------------------------
(***************************************************************************)
(* Where the tags of a message are found.                                  *)
(***************************************************************************)
\* A tag of two digits and an equals sign stand here.
TagAt(text, i, t) ==
    text[i] = 48 + (t \div 10) /\ text[i + 1] = 48 + (t % 10) /\ text[i + 2] = EQ

\* The prefix of a field with a tag of two digits.
LEMMA PrefixOfTwo ==
    ASSUME NEW t \in 10..99
    PROVE  /\ Len(Prefix(t)) = 3 /\ Prefix(t)[1] = 48 + (t \div 10)
           /\ Prefix(t)[2] = 48 + (t % 10) /\ Prefix(t)[3] = EQ
<1>1. PICK a \in Int, b \in Int : a = 48 + (t \div 10) /\ b = 48 + (t % 10)  OBVIOUS
<1>2. Decimal[t] = <<a, b>>  BY <1>1, TwoDigits
<1>3. Append(<<a, b>>, EQ) = <<a, b, EQ>>
  <2>1. EQ \in Int  BY DEF EQ
  <2> QED  BY <2>1, AppendToTuple
<1>4. Prefix(t) = <<a, b, EQ>>  BY <1>2, <1>3, Zenon DEF Prefix
<1> QED  BY <1>1, <1>4

\* The places of such a prefix.
LEMMA FoundTag ==
    ASSUME NEW text, Len(text) \in Nat, NEW from \in Nat, NEW t \in 10..99
    PROVE  \A i : i \in Found(Prefix(t), text, from) <=> i \in from..Len(text) - 2 /\ TagAt(text, i, t)
<1>1. PICK p : p = Prefix(t)  OBVIOUS
<1>2. Len(p) = 3 /\ p[1] = 48 + (t \div 10) /\ p[2] = 48 + (t % 10) /\ p[3] = EQ
  BY <1>1, PrefixOfTwo
<1>3. \A j : j \in 1..3 <=> j \in {1, 2, 3}  OBVIOUS
<1> TAKE i
<1>4. i \in Found(p, text, from) <=>
        i \in from..(Len(text) - 3 + 1) /\ \A j \in 1..3 : text[i + j - 1] = p[j]
  BY <1>2 DEF Found
<1>5. i \in from..(Len(text) - 3 + 1) <=> i \in from..Len(text) - 2  OBVIOUS
<1>6. ASSUME i \in Int
      PROVE  (\A j \in 1..3 : text[i + j - 1] = p[j]) <=>
             text[i] = p[1] /\ text[i + 1] = p[2] /\ text[i + 2] = p[3]
  <2>1. i + 1 - 1 = i /\ i + 2 - 1 = i + 1 /\ i + 3 - 1 = i + 2  BY <1>6
  <2> QED  BY <2>1, <1>3
<1>7. i \in from..Len(text) - 2 => i \in Int  OBVIOUS
<1>8. TagAt(text, i, t) <=> text[i] = p[1] /\ text[i + 1] = p[2] /\ text[i + 2] = p[3]
  BY <1>2 DEF TagAt
<1> QED  BY <1>1, <1>4, <1>5, <1>6, <1>7, <1>8

\* Where the first one stands, if any.
FirstTag(at, text, from, t) ==
    /\ at \in Nat
    /\ at = 0 <=> \A i \in from..Len(text) - 2 : ~ TagAt(text, i, t)
    /\ at # 0 => /\ at \in from..Len(text) - 2 /\ TagAt(text, at, t)
                 /\ \A i \in from..at - 1 : ~ TagAt(text, i, t)

\* A search for a tag finds the first one.
LEMMA FindTag ==
    ASSUME NEW text, Len(text) \in Nat, NEW from \in Nat \ {0}, NEW t \in 10..99
    PROVE  FirstTag(Find(Prefix(t), text, from), text, from, t)
<1>1. Len(Prefix(t)) \in Nat  BY PrefixOfTwo
<1>2. PICK at : at = Find(Prefix(t), text, from)  OBVIOUS
<1>3. PICK I : I = Found(Prefix(t), text, from)  OBVIOUS
<1>4. \A i : i \in I <=> i \in from..Len(text) - 2 /\ TagAt(text, i, t)
  BY <1>3, FoundTag
<1>5. at \in Nat /\ (at = 0 <=> I = {}) /\ (at # 0 => at \in I /\ \A i \in I : at <= i)
  BY <1>1, <1>2, <1>3, FindIs
<1>6. at = 0 <=> \A i \in from..Len(text) - 2 : ~ TagAt(text, i, t)
  BY <1>4, <1>5
<1>7. at # 0 => at \in from..Len(text) - 2 /\ TagAt(text, at, t)
  BY <1>4, <1>5
<1>8. at # 0 => \A i \in from..at - 1 : ~ TagAt(text, i, t)
  BY <1>4, <1>5
<1> QED  BY <1>2, <1>5, <1>6, <1>7, <1>8 DEF FirstTag

\* Numbers of a shape.
LEMMA ShapeNumbers ==
    ASSUME NEW n \in Nat
    PROVE  \E l \in Nat : /\ l = Len(Decimal[n]) /\ l >= 1
                          /\ Ending(n) = 13 + l /\ Trailer(n) = 14 + l + n
                          /\ Ending(n) \in Nat /\ Trailer(n) \in Nat
<1>1. PICK l \in Nat : l = Len(Decimal[n]) /\ l >= 1  BY DecimalParts
<1> QED  BY <1>1 DEF Ending, Trailer

\* Before the body of a built message: two equals signs and no more than one SOH.
LEMMA HeadBytes ==
    ASSUME NEW n \in Nat, NEW text, Opens(text, n)
    PROVE  /\ \A i \in 1..Ending(n) : text[i] = EQ <=> i \in {2, 12}
           /\ \A i \in 13..Ending(n) - 1 : text[i] \in Digits
           /\ text[1] = 56 /\ text[10] = SOH /\ text[11] = 57
           /\ \A i \in 1..12 : text[i] # 49
<1>1. PICK l \in Nat : l = Len(Decimal[n]) /\ Ending(n) = 13 + l  BY ShapeNumbers
<1>2. PICK v : v = BeginString(4)  OBVIOUS
<1>3. /\ v[1] = 56 /\ v[2] = 61 /\ v[3] = 70 /\ v[4] = 73 /\ v[5] = 88 /\ v[6] = 46
      /\ v[7] = 52 /\ v[8] = 46 /\ v[9] = 52 /\ v[10] = 1
  <2>1. 4 \in 0..9 /\ 48 + 4 = 52  OBVIOUS
  <2> QED  BY <1>2, <2>1, BeginStringIs DEF EQ, SOH
<1>4. \A i \in 1..10 : text[i] = v[i]  BY <1>2 DEF Opens
<1>5. /\ text[1] = 56 /\ text[2] = 61 /\ text[3] = 70 /\ text[4] = 73 /\ text[5] = 88 /\ text[6] = 46
      /\ text[7] = 52 /\ text[8] = 46 /\ text[9] = 52 /\ text[10] = 1
  BY <1>3, <1>4
<1>6. text[11] = 57 /\ text[12] = 61 /\ text[13 + l] = 1
  BY <1>1 DEF Opens, SOH, EQ
<1>7. \A i \in 13..12 + l : text[i] \in Digits
  <2>1. \A j \in 1..l : text[12 + j] = Decimal[n][j]  BY <1>1 DEF Opens
  <2>2. \A j \in 1..l : Decimal[n][j] \in Digits
    <3>1. Decimal[n] \in Seq(Digits)  BY DecimalParts
    <3> QED  BY <3>1, <1>1
  <2> TAKE i \in 13..12 + l
  <2>3. PICK j \in 1..l : i = 12 + j
    <3>1. i - 12 \in 1..l /\ i = 12 + (i - 12)  OBVIOUS
    <3> QED  BY <3>1
  <2> QED  BY <2>1, <2>2, <2>3
<1>8. \A i \in 1..13 + l : i \in 1..12 \/ i \in 13..12 + l \/ i = 13 + l
  OBVIOUS
<1>9. \A i \in 1..12 : text[i] = 61 <=> i \in {2, 12}
  BY <1>5, <1>6
<1>10. \A i \in 13..12 + l : text[i] # 61  BY <1>7 DEF Digits
<1>11. \A i \in 1..13 + l : text[i] = 61 <=> i \in {2, 12}
  BY <1>6, <1>8, <1>9, <1>10
<1>12. \A i \in 1..12 : text[i] # 49
  BY <1>5, <1>6
<1> QED  BY <1>1, <1>5, <1>6, <1>7, <1>11, <1>12 DEF EQ, SOH

\* There is no other tag before the body, nor across its beginning.
LEMMA HeadHasNoTag ==
    ASSUME NEW n \in Nat, NEW text, Opens(text, n), NEW t \in 10..99
    PROVE  \A i \in 1..Ending(n) : ~ TagAt(text, i, t)
<1>1. PICK e \in Nat : e = Ending(n) /\ e >= 14  BY ShapeNumbers
<1>2. text[e] = 1  BY <1>1 DEF Opens, SOH
<1> SUFFICES ASSUME NEW i \in 1..e, TagAt(text, i, t) PROVE FALSE
  BY <1>1
<1>3. text[i] \in Digits /\ text[i + 1] \in Digits /\ text[i + 2] = EQ
  <2>1. 48 + (t \div 10) \in Digits /\ 48 + (t % 10) \in Digits  BY DEF Digits
  <2> QED  BY <2>1 DEF TagAt
<1>4. i # e /\ i + 1 # e  BY <1>2, <1>3 DEF Digits
<1>5. i + 2 \in 1..e  BY <1>1, <1>4
<1>6. i + 2 \in {2, 12}  BY <1>1, <1>3, <1>5, HeadBytes
<1>7. i = 10  BY <1>6
<1>8. text[10] = 1  BY HeadBytes DEF SOH
<1> QED  BY <1>3, <1>7, <1>8 DEF Digits

\* The first "9=" is the BodyLength, and where it ends.
LEMMA NineIs ==
    ASSUME NEW n \in Nat, NEW text, Opens(text, n)
    PROVE  Find(Prefix(9), text, 1) = 11 /\ EndAt(SOH, text, 13) = Ending(n) - 1
<1>1. PICK e \in Nat, k \in Nat : e = Ending(n) /\ e >= 14 /\ k = Len(text) /\ k >= e
  <2>1. Ending(n) \in Nat /\ Ending(n) >= 14  BY ShapeNumbers
  <2>2. Len(text) \in Nat /\ Len(text) >= Ending(n)  BY DEF Opens
  <2> QED  BY <2>1, <2>2
<1>2. PICK at : at = Find(Prefix(9), text, 1)  OBVIOUS
<1>3. PICK I : I = Found(Prefix(9), text, 1)  OBVIOUS
<1>4. \A i : i \in I <=> i \in 1..k - 1 /\ text[i] = 57 /\ text[i + 1] = 61
  <2>1. Len(text) = k /\ Len(text) \in Nat  BY <1>1, Zenon
  <2>2. 1 \in Nat  OBVIOUS
  <2>3. \A i : i \in I <=> i \in 1..Len(text) - 1 /\ text[i] = 57 /\ text[i + 1] = 61
    <3>1. \A i : i \in Found(Prefix(9), text, 1) <=>
                    i \in 1..Len(text) - 1 /\ text[i] = 57 /\ text[i + 1] = 61
      BY <2>1, <2>2, FoundNine
    <3> QED  BY <1>3, <3>1, Zenon
  <2> QED  BY <2>1, <2>3, Zenon
<1>5. 11 \in I
  <2>1. text[11] = 57 /\ text[11 + 1] = 61
    <3>1. 11 + 1 = 12  OBVIOUS
    <3> QED  BY <3>1 DEF Opens, EQ
  <2>2. 11 \in 1..k - 1  BY <1>1
  <2> QED  BY <2>1, <2>2, <1>4
<1>6. \A i \in I : 11 <= i
  <2> SUFFICES ASSUME NEW i \in I, i < 11 PROVE FALSE
    BY <1>4
  <2>1. i \in 1..10 /\ text[i] = 57 /\ text[i + 1] = 61  BY <1>4
  <2>2. i + 1 \in 1..e  BY <1>1, <2>1
  <2>3. i + 1 \in {2, 12}  BY <1>1, <2>1, <2>2, HeadBytes DEF EQ
  <2>4. i = 1  BY <2>1, <2>3
  <2> QED  BY <2>1, <2>4, HeadBytes
<1>7. at \in Nat /\ (at = 0 <=> I = {}) /\ (at # 0 => at \in I /\ \A i \in I : at <= i)
  <2>1. Len(Prefix(9)) \in Nat
    <3>1. 9 \in Nat  OBVIOUS
    <3> QED  BY <3>1, PrefixParts
  <2>2. Len(text) \in Nat /\ 1 \in Nat \ {0}  BY <1>1
  <2> QED  BY <1>2, <1>3, <2>1, <2>2, FindIs
<1>8. at = 11  BY <1>5, <1>6, <1>7
<1>9. Find(<<SOH>>, text, 13) = e
  <2>1. PICK f : f = Find(<<SOH>>, text, 13)  OBVIOUS
  <2>2. /\ f \in Nat
        /\ f = 0 <=> \A i \in 13..k : text[i] # SOH
        /\ f # 0 => f \in 13..k /\ text[f] = SOH /\ \A i \in 13..f - 1 : text[i] # SOH
    <3>1. Len(text) = k /\ Len(text) \in Nat  BY <1>1, Zenon
    <3>2. 13 \in Nat \ {0}  OBVIOUS
    <3>3. FirstAt(f, SOH, text, 13)  BY <2>1, <3>1, <3>2, FindByte
    <3> QED  BY <3>1, <3>3, Zenon DEF FirstAt
  <2>3. e \in 13..k /\ text[e] = SOH  BY <1>1 DEF Opens
  <2>4. \A i \in 13..e - 1 : text[i] # SOH  
    <3>1. \A i \in 13..e - 1 : text[i] \in Digits  BY <1>1, HeadBytes
    <3> QED  BY <3>1 DEF SOH, Digits
  <2>5. f # 0  BY <2>2, <2>3
  <2>6. f <= e /\ e <= f  BY <2>2, <2>3, <2>4, <2>5
  <2> QED  BY <1>1, <2>1, <2>2, <2>6
<1> QED  BY <1>1, <1>2, <1>8, <1>9 DEF EndAt

-----------------------------------------------------------------------------
(***************************************************************************)
(* Reading a number back.                                                  *)
(***************************************************************************)
\* So many digits does the text begin with.
Leads(k, text) ==
    /\ k \in Nat /\ k <= Len(text) /\ \A i \in 1..k : text[i] \in Digits
    /\ k < Len(text) => text[k + 1] \notin Digits

\* The length of the leading digits, and that there is only one such length.
LEMMA LeadingIs ==
    ASSUME NEW text \in Seq(Byte)
    PROVE  /\ Leads(LeadingDigits(text), text)
           /\ \A k : Leads(k, text) => k = LeadingDigits(text)
<1>1. PICK n \in Nat : n = Len(text)  OBVIOUS
<1> DEFINE S == {k \in 0..n : \A i \in 1..k : text[i] \in Digits}
           D == {n - k : k \in S}
<1>2. 0 \in S  OBVIOUS
<1>3. D \subseteq Nat /\ D # {}  BY <1>2
<1>4. PICK k \in S : \A j \in S : j <= k
  <2>1. PICK d \in D : \A c \in D : d <= c
    <3> HIDE DEF D
    <3> QED  BY <1>3, LeastIn
  <2>2. PICK k \in S : d = n - k  OBVIOUS
  <2>3. \A j \in S : n - j \in D /\ j \in Int  OBVIOUS
  <2>4. k \in Int  OBVIOUS
  <2> HIDE DEF D, S
  <2> QED  BY <1>1, <2>1, <2>2, <2>3, <2>4
<1>5. \A j \in S : j \in Int  OBVIOUS
<1>6. LeadingDigits(text) = Max(S)  BY <1>1 DEF LeadingDigits
<1>7. Max(S) \in S /\ \A j \in S : j <= Max(S)
  <2> HIDE DEF S
  <2>1. k \in S /\ \A j \in S : k >= j  BY <1>4, <1>5
  <2>2. \E m \in S : \A j \in S : m >= j  BY <2>1
  <2>3. Max(S) \in S /\ \A j \in S : Max(S) >= j  BY <2>2 DEF Max
  <2> QED  BY <2>3, <1>5
<1>8. PICK m : m = LeadingDigits(text)  OBVIOUS
<1>9. m \in 0..n /\ (\A i \in 1..m : text[i] \in Digits) /\ \A j \in S : j <= m
  BY <1>6, <1>7, <1>8
<1>10. m < n => text[m + 1] \notin Digits
  <2> SUFFICES ASSUME m < n, text[m + 1] \in Digits PROVE FALSE
    OBVIOUS
  <2>1. m + 1 \in 0..n /\ ~ m + 1 <= m  BY <1>9
  <2>2. \A i \in 1..m + 1 : text[i] \in Digits
    <3>1. \A i \in 1..m + 1 : i \in 1..m \/ i = m + 1  BY <1>9
    <3> QED  BY <3>1, <1>9
  <2>3. m + 1 \in S  BY <2>1, <2>2
  <2> QED  BY <1>9, <2>1, <2>3
<1>11. Leads(m, text)  BY <1>1, <1>9, <1>10 DEF Leads
<1>12. ASSUME NEW j, Leads(j, text) PROVE j = m
  <2>1. j \in Nat /\ j <= n /\ (\A i \in 1..j : text[i] \in Digits) /\ (j < n => text[j + 1] \notin Digits)
    BY <1>1, <1>12 DEF Leads
  <2>2. j \in S  BY <2>1
  <2>3. j <= m  BY <1>9, <2>2
  <2>4. ~ j < m
    <3> SUFFICES ASSUME j < m PROVE FALSE  OBVIOUS
    <3>1. j + 1 \in 1..m /\ j < n  BY <1>9, <2>1
    <3> QED  BY <3>1, <1>9, <2>1
  <2> QED  BY <1>9, <2>1, <2>3, <2>4
<1> QED  BY <1>8, <1>11, <1>12

\* The numbers that a text begins with.
ReadsAs(text, f) ==
    /\ f \in [0..Len(text) -> Int] /\ f[0] = 0
    /\ \A i \in 1..Len(text) : f[i] = 10 * f[i - 1] + text[i] - 48
    /\ Stoi(text) = f[LeadingDigits(text)]

\* std::stoi reads digit after digit.
LEMMA StoiIs ==
    ASSUME NEW text \in Seq(Byte)
    PROVE  \E f : ReadsAs(text, f)
<1> PICK n \in Nat : n = Len(text)  OBVIOUS
<1>0. \A i \in 1..n : text[i] \in Int
  <2>1. \A i \in 1..Len(text) : text[i] \in Byte  BY ElementOfSeq
  <2>2. \A b \in Byte : b \in Int  BY DEF Byte
  <2> QED  BY <2>1, <2>2
<1> DEFINE step == [i \in 1..n |-> [x \in Int |-> 10 * x + text[i] - 48]]
           Eq(f) == f = [k \in 0..n |-> IF k = 0 THEN 0 ELSE 10 * f[k - 1] + text[k] - 48]
<1>1. step \in [1..n -> [Int -> Int]]
  <2>1. \A i \in 1..n, x \in Int : 10 * x + text[i] - 48 \in Int
    <3> TAKE i \in 1..n, x \in Int
    <3>1. PICK b \in Int : b = text[i]  BY <1>0
    <3>2. 10 * x + b - 48 \in Int  OBVIOUS
    <3> QED BY <3>1, <3>2
  <2> QED BY <2>1, Zenon
<1>2. PICK f \in [0..n -> Int] : f[0] = 0 /\ \A i \in 1..n : f[i] = step[i][f[i - 1]]
  <2> HIDE DEF step
  <2>1. 0 \in Int
    OBVIOUS
  <2>2. \E f : Recursion(f, Int, n, 0, step)
    BY <1>1, <2>1, RecursionExists
  <2> QED BY <2>2 DEF Recursion
<1>3. \A i \in 1..n : f[i] = 10 * f[i - 1] + text[i] - 48
  <2> TAKE i \in 1..n
  <2>1. i - 1 \in 0..n  OBVIOUS
  <2>2. f[i - 1] \in Int  BY <2>1
  <2>3. step[i] = [x \in Int |-> 10 * x + text[i] - 48]  OBVIOUS
  <2> HIDE DEF step
  <2> QED BY <1>2, <2>2, <2>3
<1> HIDE DEF step
<1>4. Eq(f)
  BY <1>2, <1>3
<1> DEFINE number == CHOOSE g : Eq(g)
<1>5. Eq(number)
  BY <1>4
<1>6. Stoi(text) = number[LeadingDigits(text)]  BY DEF Stoi
<1> HIDE DEF number
<1>7. number[0] = 0 /\ \A i \in 1..n : number[i] = 10 * number[i - 1] + text[i] - 48
  BY <1>5
<1>8. number = f
 <2> DEFINE Bad == {i \in 0..n : number[i] # f[i]}
 <2>1. Bad = {}
  <3> SUFFICES ASSUME Bad # {} PROVE FALSE
    OBVIOUS
  <3>1. PICK m \in Bad : \A i \in Bad : m <= i
    <4>1. Bad \subseteq Nat  OBVIOUS
    <4> HIDE DEF Bad
    <4> QED  BY <4>1, LeastIn
  <3>2. m # 0
    BY <1>2, <1>7
  <3>3. m \in 1..n /\ m - 1 \in 0..n /\ m - 1 \notin Bad
    BY <3>1, <3>2
  <3>4. number[m - 1] = f[m - 1]
    BY <3>3
  <3> QED BY <3>3, <3>4, <1>7, <1>3
 <2>2. number = [i \in 0..n |-> number[i]]
   BY <1>5
 <2> QED BY <2>1, <2>2
<1> QED BY <1>8, <1>2, <1>3, <1>6 DEF ReadsAs

\* Further digits make the number no smaller.
LEMMA NumberGrows ==
    ASSUME NEW text \in Seq(Byte), NEW f, ReadsAs(text, f),
           NEW k \in Nat, k <= Len(text), \A i \in 1..k : text[i] \in Digits
    PROVE  \A j \in 0..k : f[j] \in Nat /\ f[j] <= f[k]
<1>1. PICK n \in Nat : n = Len(text)  OBVIOUS
<1>2. f \in [0..n -> Int] /\ f[0] = 0 /\ \A i \in 1..n : f[i] = 10 * f[i - 1] + text[i] - 48
  BY <1>1 DEF ReadsAs
<1> DEFINE Wrong(m) == f[m] \notin Nat \/ \E j \in 0..m : ~ f[j] <= f[m]
           Bad == {m \in 0..k : Wrong(m)}
<1>3. Bad = {}
  <2> SUFFICES ASSUME Bad # {} PROVE FALSE
    OBVIOUS
  <2>1. PICK m \in Bad : \A i \in Bad : m <= i
    <3>1. Bad \subseteq Nat  OBVIOUS
    <3> HIDE DEF Bad
    <3> QED  BY <3>1, LeastIn
  <2>2. m \in 0..k /\ Wrong(m)  OBVIOUS
  <2>3. m # 0
    <3> SUFFICES ASSUME m = 0 PROVE FALSE  OBVIOUS
    <3>1. \A j \in 0..0 : j = 0  OBVIOUS
    <3> QED  BY <2>2, <3>1, <1>2
  <2>4. m - 1 \in 0..k /\ m - 1 \notin Bad
    <3> HIDE DEF Bad
    <3> QED  BY <2>1, <2>2, <2>3
  <2>5. f[m - 1] \in Nat /\ \A j \in 0..m - 1 : f[j] <= f[m - 1]
    BY <2>4
  <2>6. PICK d \in 48..57 : d = text[m]
    <3>1. m \in 1..k  BY <2>2, <2>3
    <3> QED  BY <3>1 DEF Digits
  <2>7. f[m] = 10 * f[m - 1] + d - 48
    <3>1. m \in 1..n  BY <1>1, <2>2, <2>3
    <3> QED  BY <3>1, <1>2, <2>6
  <2>8. PICK x \in Nat : x = f[m - 1]  BY <2>5
  <2>9. f[m] \in Nat /\ x <= f[m]  BY <2>7, <2>8, SMTT(40)
  <2>10. \A j \in 0..m : f[j] <= f[m]
    <3> TAKE j \in 0..m
    <3>1. CASE j = m  BY <2>9, <3>1
    <3>2. CASE j # m
      <4>1. j \in 0..m - 1 /\ j \in 0..n  BY <1>1, <2>2, <3>2
      <4>2. f[j] <= x /\ f[j] \in Int  BY <2>5, <2>8, <4>1, <1>2
      <4> QED  BY <2>9, <4>2
    <3> QED  BY <3>1, <3>2
  <2> QED  BY <2>2, <2>9, <2>10
<1>4. \A m \in 0..k : ~ Wrong(m)  BY <1>3
<1>5. k \in 0..k /\ \A j \in 0..k : j \in 0..k  OBVIOUS
<1> QED  BY <1>4, <1>5

\* A text that begins with the digits of a number is read as it, and as less before.
LEMMA DecimalReads ==
    ASSUME NEW text \in Seq(Byte), NEW f, ReadsAs(text, f)
    PROVE  \A n \in Nat : Begins(Decimal[n], text) => f[Len(Decimal[n])] = n
<1>1. PICK k \in Nat : k = Len(text)  OBVIOUS
<1>2. f \in [0..k -> Int] /\ f[0] = 0 /\ \A i \in 1..k : f[i] = 10 * f[i - 1] + text[i] - 48
  BY <1>1 DEF ReadsAs
<1> DEFINE Wrong(n) == Begins(Decimal[n], text) /\ f[Len(Decimal[n])] # n
           Bad == {n \in Nat : Wrong(n)}
<1> SUFFICES ASSUME Bad # {} PROVE FALSE
  OBVIOUS
<1>3. PICK n \in Bad : \A m \in Bad : n <= m
  <2>1. Bad \subseteq Nat  OBVIOUS
  <2> HIDE DEF Bad
  <2> QED  BY <2>1, LeastIn
<1>4. n \in Nat /\ Wrong(n)  OBVIOUS
<1>5. PICK l \in Nat : l = Len(Decimal[n]) /\ l >= 1  BY DecimalParts
<1>6. l <= k /\ \A i \in 1..l : text[i] = Decimal[n][i]
  BY <1>1, <1>4, <1>5 DEF Begins
<1>7. CASE n < 10
  <2>1. PICK b : b = 48 + n  OBVIOUS
  <2>2. Decimal[n] = <<b>>  BY <1>7, <2>1, DecimalParts
  <2>3. l = 1 /\ text[1] = b  BY <1>5, <1>6, <2>2
  <2>4. f[1] = 10 * f[1 - 1] + text[1] - 48  BY <1>2, <1>6, <2>3
  <2>5. 1 - 1 = 0  OBVIOUS
  <2>6. f[1] = n  BY <1>2, <2>1, <2>3, <2>4, <2>5
  <2> QED  BY <1>4, <1>5, <2>3, <2>6
<1>8. CASE n >= 10
  <2>1. PICK q \in Nat, r \in 0..9 : q = n \div 10 /\ r = n % 10 /\ n = 10 * q + r /\ q < n
    <3>1. n \div 10 \in Nat /\ n % 10 \in 0..9 /\ n = 10 * (n \div 10) + (n % 10)  OBVIOUS
    <3>2. n \div 10 < n  BY <1>8, <3>1
    <3> QED  BY <3>1, <3>2
  <2>2. /\ Len(Decimal[n]) = Len(Decimal[q]) + 1 /\ Decimal[n][Len(Decimal[n])] = 48 + r
        /\ \A i \in 1..Len(Decimal[q]) : Decimal[n][i] = Decimal[q][i]
    BY <1>8, <2>1, DecimalParts
  <2>3. PICK j \in Nat : j = Len(Decimal[q])  BY DecimalParts
  <2>4. l = j + 1 /\ text[l] = 48 + r /\ \A i \in 1..j : text[i] = Decimal[q][i]
    <3>1. l = j + 1  BY <1>5, <2>2, <2>3
    <3>2. text[l] = Decimal[n][l]  BY <1>5, <1>6
    <3>3. \A i \in 1..j : text[i] = Decimal[n][i]  BY <1>6, <3>1
    <3> QED  BY <3>1, <3>2, <3>3, <2>2, <2>3, <1>5
  <2>5. Begins(Decimal[q], text)
    <3>1. j <= Len(text)  BY <1>1, <1>6, <2>4
    <3> QED  BY <3>1, <2>3, <2>4 DEF Begins
  <2>6. q \notin Bad
    <3> HIDE DEF Bad
    <3> QED  BY <1>3, <1>4, <2>1
  <2>7. f[j] = q
    <3>1. ~ Wrong(q)  BY <2>6
    <3> QED  BY <3>1, <2>3, <2>5
  <2>8. l \in 1..k /\ l - 1 = j  BY <1>5, <1>6, <2>4
  <2>9. f[l] = 10 * f[l - 1] + text[l] - 48  BY <1>2, <2>8
  <2>10. f[l] = 10 * q + (48 + r) - 48  BY <2>4, <2>7, <2>8, <2>9
  <2>11. f[l] = n  BY <2>1, <2>10
  <2> QED  BY <1>4, <1>5, <2>11
<1> QED  BY <1>4, <1>7, <1>8

-----------------------------------------------------------------------------
(***************************************************************************)
(* What the validation reads of a message.                                 *)
(***************************************************************************)
\* The BodyLength is read as it was written.
LEMMA HeadNumber ==
    ASSUME NEW n \in Nat, NEW text, Opens(text, n)
    PROVE  /\ IsInt(SubSeq(text, 13, Ending(n) - 1))
           /\ Stoi(SubSeq(text, 13, Ending(n) - 1)) = n
<1>1. PICK l \in Nat : l = Len(Decimal[n]) /\ l >= 1 /\ Ending(n) = 13 + l  BY ShapeNumbers
<1>2. text \in Seq(Byte) /\ Len(text) >= 13 + l /\ \A i \in 1..l : text[12 + i] = Decimal[n][i]
  BY <1>1 DEF Opens
<1>3. PICK d \in Seq(Byte) : /\ d = SubSeq(text, 13, 12 + l) /\ Len(d) = l
                             /\ \A i \in 1..l : d[i] = text[12 + i]
  <2>1. 13 \in Nat \ {0} /\ 12 + l \in Nat /\ 12 + l <= Len(text) /\ 13 <= 12 + l + 1
        /\ 12 + l - 13 + 1 = l /\ \A i \in 1..l : 13 + i - 1 = 12 + i
    <3>1. Len(text) \in Nat  BY <1>2
    <3> QED  BY <3>1, <1>2
  <2>2. PICK d : d = SubSeq(text, 13, 12 + l)  OBVIOUS
  <2>3. d \in Seq(Byte) /\ Len(d) = 12 + l - 13 + 1
        /\ \A i \in 1..(12 + l - 13 + 1) : d[i] = text[13 + i - 1]
    BY <1>2, <2>1, <2>2, SubParts
  <2>4. \A i \in 1..l : d[i] = text[13 + i - 1]  BY <2>1, <2>3
  <2>5. \A i \in 1..l : d[i] = text[12 + i]  BY <2>1, <2>4
  <2> QED  BY <2>1, <2>2, <2>3, <2>5
<1>4. \A i \in 1..l : d[i] = Decimal[n][i]  BY <1>2, <1>3
<1>5. Begins(Decimal[n], d)
  <2>1. l <= Len(d)  BY <1>3
  <2> QED  BY <2>1, <1>1, <1>4 DEF Begins
<1>6. \A i \in 1..l : d[i] \in Digits
  <2>1. Decimal[n] \in Seq(Digits)  BY DecimalParts
  <2>2. \A i \in 1..l : Decimal[n][i] \in Digits  BY <1>1, <2>1
  <2> QED  BY <2>2, <1>4
<1>7. Leads(l, d)
  <2>1. l \in Nat /\ l <= Len(d) /\ ~ l < Len(d)  BY <1>3
  <2> QED  BY <2>1, <1>6 DEF Leads
<1>8. l = LeadingDigits(d)  BY <1>7, LeadingIs
<1>9. Stoi(d) = n
  <2>1. PICK f : ReadsAs(d, f)  BY StoiIs
  <2>2. f[l] = n  BY <2>1, <1>1, <1>5, DecimalReads
  <2> QED  BY <2>1, <2>2, <1>8 DEF ReadsAs
<1>10. IsInt(d)  BY <1>1, <1>8 DEF IsInt
<1>11. 12 + l = Ending(n) - 1  BY <1>1
<1> QED  BY <1>3, <1>9, <1>10, <1>11

\* No '|' in it.
NoBar(text) == \A i \in 1..Len(text) : text[i] # BAR

\* validate_message, of such a text.
Accepts(text, length, end, check) ==
    /\ Len(text) >= 25
    /\ SubSeq(text, 1, 10) \in {BeginString(4), BeginString(2)}
    /\ length > 2 /\ end >= 0
    /\ IsInt(SubSeq(text, length, end))
    /\ check > 0
    /\ check - (end + 2) = Stoi(SubSeq(text, length, end))
    /\ Received(text, check + 3) = CalculateChecksum(text)

\* Of a text without '|', the validation is the tests of Accepts.
LEMMA ValidateIs ==
    ASSUME NEW text \in Seq(Byte), NoBar(text), NEW length, length = Find(Prefix(9), text, 1) + 2,
           NEW end, end = EndAt(SOH, text, length)
    PROVE  ValidateMessage(text) <=> Accepts(text, length, end, Find(Prefix(10), text, end + 2))
<1>1. ~ (BAR \in ToSet(text) /\ SOH \notin ToSet(text))
  BY DEF NoBar, ToSet
<1> DEFINE t == IF BAR \in ToSet(text) /\ SOH \notin ToSet(text) THEN ToSoh(text) ELSE text
<1>2. t = text  BY <1>1
<1> HIDE DEF t
<1>3. ValidateMessage(text) <=>
        Accepts(t, Find(Prefix(9), t, 1) + 2, EndAt(SOH, t, Find(Prefix(9), t, 1) + 2),
                Find(Prefix(10), t, EndAt(SOH, t, Find(Prefix(9), t, 1) + 2) + 2))
  BY Zenon DEF ValidateMessage, Accepts, t
<1> QED  BY <1>2, <1>3, Zenon

\* A text with a whole head is accepted by where "10=" is and what follows.
LEMMA HeadAccepted ==
    ASSUME NEW n \in Nat, NEW text, Opens(text, n), NoBar(text), Len(text) >= 25
    PROVE  ValidateMessage(text) <=>
             /\ Find(Prefix(10), text, Ending(n) + 1) = Trailer(n)
             /\ Received(text, Trailer(n) + 3) = CalculateChecksum(text)
<1>1. PICK e \in Nat, t \in Nat : e = Ending(n) /\ t = Trailer(n) /\ t = e + n + 1 /\ e >= 14
  BY ShapeNumbers DEF Trailer
<1>2. text \in Seq(Byte) /\ Len(text) \in Nat
  <2>1. text \in Seq(Byte)  BY DEF Opens
  <2> QED  BY <2>1
<1>3. Find(Prefix(9), text, 1) = 11 /\ EndAt(SOH, text, 13) = e - 1
  BY <1>1, NineIs
<1>4. PICK check : check = Find(Prefix(10), text, e + 1)  OBVIOUS
<1>5. ValidateMessage(text) <=> Accepts(text, 13, e - 1, check)
  <2>1. PICK length, end : length = 13 /\ end = e - 1  OBVIOUS
  <2>2. length = Find(Prefix(9), text, 1) + 2  BY <1>3, <2>1
  <2>3. end = EndAt(SOH, text, length)  BY <1>3, <2>1, Zenon
  <2>4. ValidateMessage(text) <=> Accepts(text, length, end, Find(Prefix(10), text, end + 2))
    BY <1>2, <2>2, <2>3, ValidateIs, Zenon
  <2>5. end + 2 = e + 1  BY <1>1, <2>1
  <2> QED  BY <1>4, <2>1, <2>4, <2>5, Zenon
<1>6. SubSeq(text, 1, 10) = BeginString(4)
  <2>1. PICK v \in Seq(Byte) : v = BeginString(4) /\ Len(v) = 10
    <3>1. 4 \in 0..9  OBVIOUS
    <3> QED  BY <3>1, BeginStringIs
  <2>2. 1 \in Nat \ {0} /\ 10 \in Nat /\ 10 <= Len(text) /\ 1 <= 10 + 1  BY <1>2
  <2>3. PICK s \in Seq(Byte) : s = SubSeq(text, 1, 10)  BY <1>2, <2>2, SubParts
  <2>4. Len(s) = 10 - 1 + 1 /\ \A i \in 1..(10 - 1 + 1) : s[i] = text[1 + i - 1]
    BY <1>2, <2>2, <2>3, SubParts
  <2>5. Len(s) = 10 /\ \A i \in 1..10 : s[i] = text[i]
    <3>1. 10 - 1 + 1 = 10 /\ \A i \in 1..10 : 1 + i - 1 = i  OBVIOUS
    <3> QED  BY <2>4, <3>1
  <2>6. \A i \in 1..10 : text[i] = v[i]  BY <2>1 DEF Opens
  <2>7. Len(s) = Len(v) /\ \A i \in 1..Len(s) : s[i] = v[i]  BY <2>1, <2>5, <2>6
  <2>8. s = v  BY <2>7, SeqEqual
  <2> QED  BY <2>1, <2>3, <2>8
<1>7. IsInt(SubSeq(text, 13, e - 1)) /\ Stoi(SubSeq(text, 13, e - 1)) = n
  BY <1>1, HeadNumber
<1>8. check \in Nat
  <2>1. 10 \in 10..99 /\ e + 1 \in Nat \ {0}  BY <1>1
  <2> QED  BY <1>2, <1>4, <2>1, FindTag DEF FirstTag
<1>9. 13 > 2 /\ e - 1 >= 0 /\ (check > 0 /\ check - (e - 1 + 2) = n <=> check = t)
  BY <1>1, <1>8
<1>10. Accepts(text, 13, e - 1, check) <=> check = t /\ Received(text, check + 3) = CalculateChecksum(text)
  BY <1>6, <1>7, <1>9, Zenon DEF Accepts
<1> QED  BY <1>1, <1>4, <1>5, <1>10, Zenon

-----------------------------------------------------------------------------
(***************************************************************************)
(* The checksum, and SOH for '|'.                                          *)
(***************************************************************************)
\* What to_soh does to a text, byte by byte.
LEMMA ToSohIs ==
    ASSUME NEW text \in Seq(Byte)
    PROVE  /\ ToSoh(text) \in Seq(Byte) /\ Len(ToSoh(text)) = Len(text) /\ NoBar(ToSoh(text))
           /\ \A i \in 1..Len(text) : ToSoh(text)[i] = IF text[i] = BAR THEN SOH ELSE text[i]
<1>1. PICK n \in Nat : n = Len(text)  OBVIOUS
<1>2. \A i \in 1..n : text[i] \in Byte
  BY <1>1, ElementOfSeq
<1>3. DOMAIN text = 1..n  BY <1>1
<1> DEFINE s == [i \in 1..n |-> IF text[i] = BAR THEN SOH ELSE text[i]]
<1>4. ToSoh(text) = s  BY <1>3 DEF ToSoh
<1>5. SOH \in Byte /\ SOH # BAR  BY DEF SOH, BAR, Byte
<1>6. \A i \in 1..n : (IF text[i] = BAR THEN SOH ELSE text[i]) \in Byte  BY <1>2, <1>5
<1>7. s \in Seq(Byte) /\ Len(s) = n
  <2>1. s \in [1..n -> Byte]  BY <1>6, Zenon
  <2> HIDE DEF s
  <2> QED  BY <2>1, IsASeq, LenProperties
<1>8. \A i \in 1..n : s[i] = (IF text[i] = BAR THEN SOH ELSE text[i])
  BY Zenon
<1>9. \A i \in 1..n : s[i] # BAR  BY <1>5, <1>8
<1> HIDE DEF s
<1>10. NoBar(s)  BY <1>7, <1>9 DEF NoBar
<1> QED  BY <1>1, <1>4, <1>7, <1>8, <1>10

\* It changes nothing of the frame of a message, and neither makes nor breaks a tag.
LEMMA ToSohKeeps ==
    ASSUME NEW text \in Seq(Byte)
    PROVE  /\ \A n \in Nat : Opens(text, n) => Opens(ToSoh(text), n)
           /\ \A n \in Nat : Shape(text, n) => Shape(ToSoh(text), n)
           /\ \A t \in 10..99, i \in 1..Len(text) - 2 : TagAt(ToSoh(text), i, t) <=> TagAt(text, i, t)
           /\ \A i \in 1..Len(text) : text[i] # BAR => ToSoh(text)[i] = text[i]
<1>1. PICK s \in Seq(Byte) : /\ s = ToSoh(text) /\ Len(s) = Len(text)
                             /\ \A i \in 1..Len(text) : s[i] = IF text[i] = BAR THEN SOH ELSE text[i]
  BY ToSohIs
<1>2. PICK k \in Nat : k = Len(text) /\ k = Len(s)  BY <1>1
<1>3. \A i \in 1..k : text[i] # BAR => s[i] = text[i]  BY <1>1, <1>2
<1>4. \A i \in 1..k : text[i] = BAR => s[i] = SOH  BY <1>1, <1>2
<1>5. ASSUME NEW n \in Nat, Opens(text, n) PROVE Opens(s, n)
  <2>1. PICK l \in Nat : l = Len(Decimal[n]) /\ l >= 1 /\ Ending(n) = 13 + l  BY ShapeNumbers
  <2>2. k >= 13 + l  BY <1>2, <1>5, <2>1 DEF Opens
  <2>3. \A i \in 1..10 : s[i] = BeginString(4)[i]
    <3>1. \A i \in 1..10 : text[i] = BeginString(4)[i]  BY <1>5 DEF Opens
    <3>2. \A i \in 1..10 : BeginString(4)[i] # BAR
      <4>2. PICK v : v = BeginString(4)  OBVIOUS
      <4>3. /\ v[1] = 56 /\ v[2] = 61 /\ v[3] = 70 /\ v[4] = 73 /\ v[5] = 88 /\ v[6] = 46
            /\ v[7] = 52 /\ v[8] = 46 /\ v[9] = 52 /\ v[10] = 1
        BY <4>2, BegunIs, Zenon
      <4>4. \A i \in 1..10 : v[i] # BAR
        <5>1. \A i \in 1..10 : i \in {1, 2, 3, 4, 5, 6, 7, 8, 9, 10}  OBVIOUS
        <5>2. /\ v[1] # BAR /\ v[2] # BAR /\ v[3] # BAR /\ v[4] # BAR /\ v[5] # BAR /\ v[6] # BAR
              /\ v[7] # BAR /\ v[8] # BAR /\ v[9] # BAR /\ v[10] # BAR
          BY <4>3 DEF BAR
        <5> QED  BY <5>1, <5>2
      <4> QED  BY <4>2, <4>4
    <3>3. \A i \in 1..10 : i \in 1..k  BY <2>2
    <3> QED  BY <1>3, <3>1, <3>2, <3>3
  <2>4. s[11] = 57 /\ s[12] = EQ /\ s[13 + l] = SOH
    <3>1. text[11] = 57 /\ text[12] = EQ /\ text[13 + l] = SOH  BY <1>5, <2>1 DEF Opens
    <3>2. 11 \in 1..k /\ 12 \in 1..k /\ 13 + l \in 1..k  BY <2>2
    <3> QED  BY <1>3, <3>1, <3>2, SMTT(40) DEF BAR, EQ, SOH
  <2>5. \A i \in 1..l : s[12 + i] = Decimal[n][i]
    <3>1. \A i \in 1..l : text[12 + i] = Decimal[n][i]  BY <1>5, <2>1 DEF Opens
    <3>2. \A i \in 1..l : Decimal[n][i] \in Digits
      <4>1. Decimal[n] \in Seq(Digits)  BY DecimalParts
      <4> QED  BY <2>1, <4>1
    <3>3. \A i \in 1..l : text[12 + i] # BAR
      <4>1. \A d \in Digits : d # BAR  BY DEF Digits, BAR
      <4> QED  BY <3>1, <3>2, <4>1, Zenon
    <3>4. \A i \in 1..l : 12 + i \in 1..k  BY <2>2
    <3> QED  BY <1>3, <3>1, <3>3, <3>4
  <2>6. Len(s) >= Ending(n)  BY <1>2, <2>1, <2>2
  <2>7. \A i \in 1..Len(Decimal[n]) : s[12 + i] = Decimal[n][i]  BY <2>1, <2>5, Zenon
  <2>8. s[Ending(n)] = SOH  BY <2>1, <2>4, Zenon
  <2>9. s \in Seq(Byte)  OBVIOUS
  <2> QED  BY <2>3, <2>4, <2>6, <2>7, <2>8, <2>9 DEF Opens
<1>6. ASSUME NEW n \in Nat, Shape(text, n) PROVE Shape(s, n)
  <2>1. PICK t \in Nat : t = Trailer(n) /\ t >= 1
    <3>1. PICK l \in Nat : Trailer(n) = 14 + l + n  BY ShapeNumbers
    <3> QED  BY <3>1
  <2>2. /\ Opens(text, n) /\ k = t + 6 /\ text[t] = 49 /\ text[t + 1] = 48 /\ text[t + 2] = EQ
        /\ text[t + 6] = SOH
    BY <1>2, <1>6, <2>1 DEF Shape
  <2>3. t \in 1..k /\ t + 1 \in 1..k /\ t + 2 \in 1..k /\ t + 6 \in 1..k  BY <2>1, <2>2
  <2>4. s[t] = 49 /\ s[t + 1] = 48 /\ s[t + 2] = EQ /\ s[t + 6] = SOH
    <3>1. text[t] # BAR /\ text[t + 1] # BAR /\ text[t + 2] # BAR /\ text[t + 6] # BAR
      BY <2>2 DEF BAR, EQ, SOH
    <3> QED  BY <1>3, <2>2, <2>3, <3>1, Zenon
  <2>5. Opens(s, n) /\ Len(s) = t + 6  BY <1>2, <1>5, <2>2
  <2> QED  BY <2>1, <2>4, <2>5 DEF Shape
<1>7. ASSUME NEW t \in 10..99, NEW i \in 1..k - 2
      PROVE  TagAt(s, i, t) <=> TagAt(text, i, t)
  <2>1. i \in 1..k /\ i + 1 \in 1..k /\ i + 2 \in 1..k  OBVIOUS
  <2>2. PICK a \in Digits, b \in Digits : a = 48 + (t \div 10) /\ b = 48 + (t % 10)
    <3>1. 48 + (t \div 10) \in Digits /\ 48 + (t % 10) \in Digits  BY DEF Digits
    <3> QED  BY <3>1
  <2>3. \A j \in 1..k : /\ s[j] = a <=> text[j] = a
                        /\ s[j] = b <=> text[j] = b
                        /\ s[j] = EQ <=> text[j] = EQ
    BY <1>3, <1>4 DEF Digits, BAR, SOH, EQ
  <2> QED  BY <2>1, <2>2, <2>3 DEF TagAt
<1> QED  BY <1>1, <1>2, <1>3, <1>5, <1>6, <1>7

\* A number as three digits.
Three(s) == <<48 + (s \div 100), 48 + ((s \div 10) % 10), 48 + (s % 10)>>

\* A checksum is three digits, and tells sums apart.
LEMMA ThreeIs ==
    ASSUME NEW s \in Byte
    PROVE  /\ Three(s) \in Seq(Byte) /\ Len(Three(s)) = 3
           /\ \A i \in 1..3 : Three(s)[i] \in Digits
           /\ \A t \in Byte : (\A i \in 1..3 : Three(s)[i] = Three(t)[i]) => s = t
<1>1. \A t \in Byte : /\ 48 + (t \div 100) \in Digits /\ 48 + ((t \div 10) % 10) \in Digits
                      /\ 48 + (t % 10) \in Digits
  BY DEF Digits, Byte
<1>2. PICK x \in Digits, y \in Digits, z \in Digits :
        x = 48 + (s \div 100) /\ y = 48 + ((s \div 10) % 10) /\ z = 48 + (s % 10)
  BY <1>1
<1>3. Three(s) = <<x, y, z>>  BY <1>2 DEF Three
<1>4. Digits \subseteq Byte  BY DEF Digits, Byte
<1>5. <<x, y, z>> \in Seq(Byte) /\ Len(<<x, y, z>>) = 3 /\ \A i \in 1..3 : <<x, y, z>>[i] \in Digits
  BY <1>4
<1>6. ASSUME NEW t \in Byte, \A i \in 1..3 : Three(s)[i] = Three(t)[i] PROVE s = t
  <2>1. PICK u \in Digits, v \in Digits, w \in Digits :
          u = 48 + (t \div 100) /\ v = 48 + ((t \div 10) % 10) /\ w = 48 + (t % 10)
    BY <1>1
  <2>2. Three(t) = <<u, v, w>>  BY <2>1 DEF Three
  <2>3. \A i \in 1..3 : <<x, y, z>>[i] = <<u, v, w>>[i]  BY <1>3, <1>6, <2>2
  <2>4. x = u /\ y = v /\ z = w
    <3>1. 1 \in 1..3 /\ 2 \in 1..3 /\ 3 \in 1..3  OBVIOUS
    <3> QED  BY <2>3, <3>1
  <2> QED  BY <1>2, <2>1, <2>4, DigitsTell
<1> QED  BY <1>3, <1>5, <1>6

\* A checksum is three digits of a sum.
LEMMA SumIs ==
    ASSUME NEW bytes \in Seq(Byte)
    PROVE  ByteSum(bytes) \in Byte
<1>1. PICK n \in Nat : n = Len(bytes)  OBVIOUS
<1>2. PICK sum \in [0..n -> Byte] : ByteSum(bytes) = sum[n]
  BY <1>1, ByteSumIs DEF Byte
<1>3. n \in 0..n  OBVIOUS
<1> QED  BY <1>2, <1>3

\* The checksum is of the bytes in front of the first "10=".
LEMMA ChecksumBefore ==
    ASSUME NEW text \in Seq(Byte), NEW t \in Nat, FirstTag(t, text, 1, 10), t # 0
    PROVE  CalculateChecksum(text) = Three(ByteSum(SubSeq(text, 1, t - 1)))
<1>1. PICK k \in Nat : k = Len(text)  OBVIOUS
<1>2. PICK I : I = Found(Prefix(10), text, 1)  OBVIOUS
<1>3. \A i : i \in I <=> i \in 1..k - 2 /\ TagAt(text, i, 10)
  <2>1. 1 \in Nat /\ 10 \in 10..99 /\ Len(text) \in Nat  OBVIOUS
  <2> QED  BY <1>1, <1>2, <2>1, FoundTag
<1>4. t \in I
  BY <1>1, <1>3 DEF FirstTag
<1>5. \A i \in I : t <= i
  BY <1>1, <1>3 DEF FirstTag
<1>6. Summed(text) = SubSeq(text, 1, t - 1)
  BY <1>2, <1>4, <1>5, SummedIs
<1> QED  BY <1>6 DEF CalculateChecksum, Three

(***************************************************************************)
(* A message of n bytes is whole: its "10=" is where the BodyLength says,  *)
(* is the first, and the three digits after it are those of the sum.       *)
(***************************************************************************)
Entire(text, n) ==
    /\ Len(text) >= Trailer(n) + 5
    /\ TagAt(text, Trailer(n), 10)
    /\ \A i \in Ending(n) + 1..Trailer(n) - 1 : ~ TagAt(text, i, 10)
    /\ \A j \in 1..3 : text[Trailer(n) + 2 + j] = Three(ByteSum(SubSeq(text, 1, Trailer(n) - 1)))[j]

\* What is received as the checksum.
LEMMA ReceivedIs ==
    ASSUME NEW text \in Seq(Byte), NEW at \in Nat \ {0}, at <= Len(text) + 1
    PROVE  /\ Len(text) >= at + 2 =>
                /\ Received(text, at) \in Seq(Byte) /\ Len(Received(text, at)) = 3
                /\ \A j \in 1..3 : Received(text, at)[j] = text[at - 1 + j]
           /\ Len(text) < at + 2 => Len(Received(text, at)) < 3
<1>1. PICK k \in Nat : k = Len(text)  OBVIOUS
<1>2. PICK last \in Nat : /\ Received(text, at) = SubSeq(text, at, last)
                          /\ k >= at + 2 => last = at + 2
                          /\ k < at + 2 => last = k
  <2> DEFINE S == {at + 2, k}
  <2>1. \E m \in S : \A j \in S : m <= j  BY <1>1
  <2>2. PICK last : last = Min(S)  OBVIOUS
  <2>3. last \in S /\ \A j \in S : last <= j  BY <2>1, <2>2 DEF Min
  <2>4. last \in Nat /\ (k >= at + 2 => last = at + 2) /\ (k < at + 2 => last = k)  BY <1>1, <2>3
  <2> QED  BY <1>1, <2>2, <2>4 DEF Received
<1>3. PICK r : r = SubSeq(text, at, last)  OBVIOUS
<1>4. last <= Len(text) /\ at <= last + 1  BY <1>1, <1>2
<1>5. r \in Seq(Byte) /\ Len(r) = last - at + 1 /\ \A i \in 1..(last - at + 1) : r[i] = text[at + i - 1]
  BY <1>2, <1>3, <1>4, SubParts
<1>6. k >= at + 2 => Len(r) = 3 /\ \A j \in 1..3 : r[j] = text[at - 1 + j]
  <2> HAVE k >= at + 2
  <2>1. last - at + 1 = 3  BY <1>2
  <2>2. \A j \in 1..3 : at + j - 1 = at - 1 + j  OBVIOUS
  <2> QED  BY <1>5, <2>1, <2>2
<1>7. k < at + 2 => Len(r) < 3
  BY <1>1, <1>2, <1>5
<1> QED  BY <1>1, <1>2, <1>3, <1>5, <1>6, <1>7

\* A text with a whole head is accepted exactly when the message is whole.
LEMMA HeadEntire ==
    ASSUME NEW n \in Nat, NEW text, Opens(text, n), NoBar(text), Len(text) >= 25
    PROVE  ValidateMessage(text) <=> Entire(text, n)
<1>1. PICK e \in Nat, t \in Nat : e = Ending(n) /\ t = Trailer(n) /\ t = e + n + 1 /\ e >= 14
  BY ShapeNumbers DEF Trailer
<1>2. PICK k \in Nat : k = Len(text) /\ text \in Seq(Byte)
  <2>1. text \in Seq(Byte)  BY DEF Opens
  <2> QED  BY <2>1
<1>3. PICK check : check = Find(Prefix(10), text, e + 1)  OBVIOUS
<1>4. ValidateMessage(text) <=> check = t /\ Received(text, t + 3) = CalculateChecksum(text)
  BY <1>1, <1>3, HeadAccepted
<1>5. FirstTag(check, text, e + 1, 10)
  <2>1. 10 \in 10..99 /\ e + 1 \in Nat \ {0} /\ Len(text) \in Nat  BY <1>2
  <2> QED  BY <1>3, <2>1, FindTag
<1>6. check = t <=> /\ k >= t + 2 /\ TagAt(text, t, 10)
                    /\ \A i \in e + 1..t - 1 : ~ TagAt(text, i, 10)
  <2>1. check \in Nat /\ (check = 0 <=> \A i \in e + 1..k - 2 : ~ TagAt(text, i, 10))
        /\ (check # 0 => /\ check \in e + 1..k - 2 /\ TagAt(text, check, 10)
                         /\ \A i \in e + 1..check - 1 : ~ TagAt(text, i, 10))
    BY <1>2, <1>5 DEF FirstTag
  <2>2. check = t => /\ k >= t + 2 /\ TagAt(text, t, 10)
                     /\ \A i \in e + 1..t - 1 : ~ TagAt(text, i, 10)
    BY <1>1, <2>1
  <2>3. ASSUME k >= t + 2, TagAt(text, t, 10), \A i \in e + 1..t - 1 : ~ TagAt(text, i, 10)
        PROVE  check = t
    <3>1. t \in e + 1..k - 2  BY <1>1, <1>2, <2>3
    <3>2. check # 0  BY <2>1, <2>3, <3>1
    <3>3. check \in e + 1..k - 2 /\ ~ check < t /\ ~ t < check
      <4>1. check \in e + 1..k - 2  BY <2>1, <3>2
      <4>2. ~ check < t
        <5> SUFFICES ASSUME check < t PROVE FALSE  OBVIOUS
        <5>1. check \in e + 1..t - 1  BY <4>1, <1>1
        <5> QED  BY <5>1, <2>1, <2>3, <3>2
      <4>3. ~ t < check
        <5> SUFFICES ASSUME t < check PROVE FALSE  OBVIOUS
        <5>1. t \in e + 1..check - 1  BY <4>1, <1>1
        <5> QED  BY <5>1, <2>1, <2>3, <3>2
      <4> QED  BY <4>1, <4>2, <4>3
    <3> QED  BY <1>1, <2>1, <3>3
  <2> QED  BY <2>2, <2>3
<1>7. ASSUME check = t
      PROVE  /\ CalculateChecksum(text) = Three(ByteSum(SubSeq(text, 1, t - 1)))
             /\ SubSeq(text, 1, t - 1) \in Seq(Byte)
  <2>1. k >= t + 2 /\ TagAt(text, t, 10) /\ \A i \in e + 1..t - 1 : ~ TagAt(text, i, 10)
    BY <1>6, <1>7
  <2>2. \A i \in 1..e : ~ TagAt(text, i, 10)
    <3>1. 10 \in 10..99  OBVIOUS
    <3> QED  BY <1>1, <3>1, HeadHasNoTag
  <2>3. \A i \in 1..t - 1 : ~ TagAt(text, i, 10)
    <3>1. \A i \in 1..t - 1 : i \in 1..e \/ i \in e + 1..t - 1  BY <1>1
    <3> QED  BY <2>1, <2>2, <3>1
  <2>4. t \in 1..k - 2 /\ t # 0  BY <1>1, <1>2, <2>1
  <2>5. FirstTag(t, text, 1, 10)
    BY <1>2, <2>1, <2>3, <2>4 DEF FirstTag
  <2>6. CalculateChecksum(text) = Three(ByteSum(SubSeq(text, 1, t - 1)))
    BY <1>2, <2>4, <2>5, ChecksumBefore
  <2>7. 1 \in Nat \ {0} /\ t - 1 \in Nat /\ t - 1 <= Len(text) /\ 1 <= t - 1 + 1
    <3>1. t - 1 <= k  BY <2>4
    <3> QED  BY <1>1, <1>2, <3>1
  <2>8. SubSeq(text, 1, t - 1) \in Seq(Byte)  BY <1>2, <2>7, SubParts
  <2> QED  BY <2>6, <2>8
<1>8. ASSUME check = t
      PROVE  Received(text, t + 3) = CalculateChecksum(text) <=>
               /\ k >= t + 5
               /\ \A j \in 1..3 : text[t + 2 + j] = Three(ByteSum(SubSeq(text, 1, t - 1)))[j]
  <2>1. PICK c \in Seq(Byte) : c = Three(ByteSum(SubSeq(text, 1, t - 1))) /\ Len(c) = 3
    BY <1>7, <1>8, SumIs, ThreeIs
  <2>2. CalculateChecksum(text) = c  BY <1>7, <1>8, <2>1
  <2>3. PICK r : r = Received(text, t + 3)  OBVIOUS
  <2>4. t + 3 \in Nat \ {0} /\ t + 3 <= Len(text) + 1 /\ t + 3 + 2 = t + 5 /\ t + 3 - 1 = t + 2
    <3>1. k >= t + 2  BY <1>6, <1>8
    <3>2. t + 3 <= k + 1  BY <1>1, <3>1
    <3>3. t + 3 <= Len(text) + 1  BY <1>2, <3>2, Zenon
    <3>4. t + 3 \in Nat \ {0} /\ t + 3 + 2 = t + 5 /\ t + 3 - 1 = t + 2  OBVIOUS
    <3> QED  BY <3>3, <3>4, Zenon
  <2>5. /\ k >= t + 3 + 2 => r \in Seq(Byte) /\ Len(r) = 3 /\ \A j \in 1..3 : r[j] = text[t + 3 - 1 + j]
        /\ k < t + 3 + 2 => Len(r) < 3
    <3>1. PICK a \in Nat \ {0} : a = t + 3 /\ a <= Len(text) + 1  BY <2>4
    <3>2. /\ Len(text) >= a + 2 =>
               /\ Received(text, a) \in Seq(Byte) /\ Len(Received(text, a)) = 3
               /\ \A j \in 1..3 : Received(text, a)[j] = text[a - 1 + j]
          /\ Len(text) < a + 2 => Len(Received(text, a)) < 3
      BY <1>2, <3>1, ReceivedIs
    <3>3. (Len(text) >= a + 2 <=> k >= a + 2) /\ (Len(text) < a + 2 <=> k < a + 2)
      BY <1>2, Zenon
    <3>4. Received(text, a) = r  BY <2>3, <3>1, Zenon
    <3>5. /\ k >= a + 2 => r \in Seq(Byte) /\ Len(r) = 3 /\ \A j \in 1..3 : r[j] = text[a - 1 + j]
          /\ k < a + 2 => Len(r) < 3
      BY <3>2, <3>3, <3>4, Zenon
    <3> QED  BY <3>1, <3>5
  <2>6. ASSUME k >= t + 5
        PROVE  r = c <=> \A j \in 1..3 : text[t + 2 + j] = c[j]
    <3>1. r \in Seq(Byte) /\ Len(r) = 3 /\ \A j \in 1..3 : r[j] = text[t + 2 + j]  BY <2>4, <2>5, <2>6
    <3>2. (\A j \in 1..3 : r[j] = c[j]) => r = c
      <4> HAVE \A j \in 1..3 : r[j] = c[j]
      <4>1. Len(r) = Len(c) /\ \A j \in 1..Len(r) : r[j] = c[j]  BY <2>1, <3>1
      <4> QED  BY <3>1, <4>1, SeqEqual
    <3> QED  BY <3>1, <3>2
  <2>7. ASSUME ~ k >= t + 5 PROVE r # c
    <3>1. k < t + 3 + 2  BY <2>7
    <3>2. Len(r) < 3  BY <2>5, <3>1
    <3> SUFFICES ASSUME r = c PROVE FALSE  OBVIOUS
    <3>3. Len(r) = 3  BY <2>1, Zenon
    <3> QED  BY <3>2, <3>3
  <2> QED  BY <2>1, <2>2, <2>3, <2>6, <2>7, Zenon
<1>9. k >= t + 5 => k >= t + 2  BY <1>1, <1>2
<1>10. Entire(text, n) <=>
         /\ k >= t + 5 /\ TagAt(text, t, 10) /\ \A i \in e + 1..t - 1 : ~ TagAt(text, i, 10)
         /\ \A j \in 1..3 : text[t + 2 + j] = Three(ByteSum(SubSeq(text, 1, t - 1)))[j]
  BY <1>1, <1>2 DEF Entire
<1> QED  BY <1>4, <1>6, <1>8, <1>9, <1>10, Zenon

-----------------------------------------------------------------------------
(***************************************************************************)
(* Sums of bytes: one altered byte changes them, a '|' less makes them 123 *)
(* smaller.                                                                *)
(***************************************************************************)
\* f adds up the bytes.
Sums(f, bytes) ==
    /\ f \in [0..Len(bytes) -> Byte] /\ f[0] = 0
    /\ \A i \in 1..Len(bytes) : f[i] = (f[i - 1] + bytes[i]) % 256
    /\ ByteSum(bytes) = f[Len(bytes)]

\* There is such a function.
LEMMA SumExists ==
    ASSUME NEW bytes \in Seq(Byte)
    PROVE  \E f : Sums(f, bytes)
<1>1. PICK sum \in [0..Len(bytes) -> 0..255] :
              /\ sum[0] = 0
              /\ \A i \in 1..Len(bytes) : sum[i] = (sum[i - 1] + bytes[i]) % 256
              /\ ByteSum(bytes) = sum[Len(bytes)]
  BY ByteSumIs DEF Byte
<1>2. Sums(sum, bytes)  BY <1>1 DEF Sums, Byte
<1> QED  BY <1>2

\* Addition modulo 256 tells the terms.
Plus(x, a) == (x + a) % 256

\* Two bytes stay different whatever is added to both.
LEMMA PlusTells ==
    ASSUME NEW x \in Byte, NEW a \in Byte, NEW b \in Byte, a # b
    PROVE  Plus(x, a) # Plus(x, b) /\ Plus(a, x) # Plus(b, x)
<1>0. x \in 0..255 /\ a \in 0..255 /\ b \in 0..255  BY DEF Byte
<1>1. \A z \in 0..510 : z % 256 = IF z < 256 THEN z ELSE z - 256
  <2> TAKE z \in 0..510
  <2>1. CASE z < 256  BY <2>1
  <2>2. CASE z >= 256  BY <2>2
  <2> QED  BY <2>1, <2>2
<1>2. PICK u \in 0..510, v \in 0..510 : u = x + a /\ v = x + b
  <2>1. x + a \in 0..510 /\ x + b \in 0..510  BY <1>0
  <2> QED  BY <2>1
<1>3. /\ Plus(x, a) = u % 256 /\ Plus(x, b) = v % 256
      /\ Plus(a, x) = u % 256 /\ Plus(b, x) = v % 256
  <2>1. a + x = u /\ b + x = v  BY <1>0, <1>2
  <2> QED  BY <1>2, <2>1 DEF Plus
<1>4. u % 256 = IF u < 256 THEN u ELSE u - 256  BY <1>1
<1>5. v % 256 = IF v < 256 THEN v ELSE v - 256  BY <1>1
<1>6. u # v /\ u - v < 256 /\ v - u < 256  BY <1>0, <1>2
<1>7. u % 256 # v % 256  BY <1>4, <1>5, <1>6
<1> QED  BY <1>3, <1>7

\* Two texts that differ in one byte have different sums.
LEMMA SumDiffers ==
    ASSUME NEW s \in Seq(Byte), NEW t \in Seq(Byte), Len(s) = Len(t),
           NEW i \in 1..Len(s), s[i] # t[i], \A j \in 1..Len(s) : j # i => s[j] = t[j]
    PROVE  ByteSum(s) # ByteSum(t)
<1>1. PICK n \in Nat : n = Len(s) /\ n = Len(t)  OBVIOUS
<1>2. PICK f : Sums(f, s)  BY SumExists
<1>3. PICK g : Sums(g, t)  BY SumExists
<1>4. /\ f \in [0..n -> Byte] /\ f[0] = 0 /\ (\A j \in 1..n : f[j] = Plus(f[j - 1], s[j]))
      /\ ByteSum(s) = f[n]
  BY <1>1, <1>2 DEF Sums, Plus
<1>5. /\ g \in [0..n -> Byte] /\ g[0] = 0 /\ (\A j \in 1..n : g[j] = Plus(g[j - 1], t[j]))
      /\ ByteSum(t) = g[n]
  BY <1>1, <1>3 DEF Sums, Plus
<1>6. \A j \in 1..n : s[j] \in Byte /\ t[j] \in Byte
  <2>1. \A j \in 1..n : s[j] \in Byte  BY <1>1, ElementOfSeq
  <2>2. \A j \in 1..n : t[j] \in Byte  BY <1>1, ElementOfSeq
  <2> QED  BY <2>1, <2>2
<1> DEFINE Right(k) == (k < i => f[k] = g[k]) /\ (k >= i => f[k] # g[k])
           Bad == {k \in 0..n : ~Right(k)}
<1>9. Bad = {}
  <2> SUFFICES ASSUME Bad # {} PROVE FALSE
    OBVIOUS
  <2>1. PICK k \in Bad : \A j \in Bad : k <= j
    <3>1. Bad \subseteq Nat  OBVIOUS
    <3> HIDE DEF Bad
    <3> QED  BY <3>1, LeastIn
  <2>2. k \in 0..n /\ ~((k < i => f[k] = g[k]) /\ (k >= i => f[k] # g[k]))  OBVIOUS
  <2>3. k # 0  BY <2>2, <1>4, <1>5
  <2>4. k \in 1..n /\ k - 1 \in 0..n /\ k - 1 \notin Bad
    <3> HIDE DEF Bad
    <3> QED  BY <2>1, <2>2, <2>3
  <2>5. (k - 1 < i => f[k - 1] = g[k - 1]) /\ (k - 1 >= i => f[k - 1] # g[k - 1])
    <3>1. Right(k - 1)  BY <2>4, Zenon
    <3> QED  BY <3>1
  <2>6. f[k] = Plus(f[k - 1], s[k]) /\ g[k] = Plus(g[k - 1], t[k])
    BY <2>4, <1>4, <1>5
  <2>7. PICK x \in Byte, y \in Byte, a \in Byte, b \in Byte :
          x = f[k - 1] /\ y = g[k - 1] /\ a = s[k] /\ b = t[k]
    BY <2>4, <1>4, <1>5, <1>6
  <2>8. f[k] = Plus(x, a) /\ g[k] = Plus(y, b)  BY <2>6, <2>7
  <2>9. CASE k < i
    <3>1. k - 1 < i /\ a = b  BY <2>4, <2>7, <2>9, <1>1
    <3>2. x = y  BY <2>5, <2>7, <3>1
    <3>3. f[k] = g[k]  BY <2>8, <3>1, <3>2
    <3> QED  BY <2>2, <2>9, <3>3
  <2>10. CASE k = i
    <3>1. k - 1 < i /\ a # b  BY <2>4, <2>7, <2>10
    <3>2. x = y  BY <2>5, <2>7, <3>1
    <3>3. f[k] # g[k]  BY PlusTells, <2>8, <3>1, <3>2
    <3> QED  BY <2>2, <2>10, <3>3
  <2>11. CASE k > i
    <3>1. k - 1 >= i /\ a = b  BY <2>4, <2>7, <2>11, <1>1
    <3>2. x # y  BY <2>5, <2>7, <3>1
    <3>3. f[k] # g[k]  BY PlusTells, <2>8, <3>1, <3>2
    <3> QED  BY <2>2, <2>11, <3>3
  <2> QED  BY <2>2, <2>9, <2>10, <2>11
<1>10. n \in 0..n /\ n >= i  BY <1>1
<1>11. f[n] # g[n]  BY <1>9, <1>10
<1> QED  BY <1>4, <1>5, <1>11

\* How many '|' are among the first k bytes, and in a whole text.
BarsUpTo(text, k) == Cardinality({i \in 1..k : text[i] = BAR})

\* One byte more is one '|' more or none.
LEMMA BarsStep ==
    ASSUME NEW text, NEW k \in Nat
    PROVE  /\ BarsUpTo(text, k) \in Nat
           /\ k = 0 => BarsUpTo(text, k) = 0
           /\ text[k + 1] = BAR => BarsUpTo(text, k + 1) = BarsUpTo(text, k) + 1
           /\ text[k + 1] # BAR => BarsUpTo(text, k + 1) = BarsUpTo(text, k)
<1> DEFINE S == {i \in 1..k : text[i] = BAR}
           T == {i \in 1..k + 1 : text[i] = BAR}
<1>1. IsFiniteSet(S)
  <2>1. 1 \in Int /\ k \in Int  OBVIOUS
  <2>2. IsFiniteSet(1..k)  BY <2>1, FS_Interval
  <2>3. S \in SUBSET (1..k)  OBVIOUS
  <2> HIDE DEF S
  <2> QED  BY <2>2, <2>3, FS_Subset
<1>2. Cardinality(S) \in Nat  BY <1>1, FS_CardinalityType
<1>3. \A i : i \in 1..k + 1 <=> i \in 1..k \/ i = k + 1  OBVIOUS
<1>4. k + 1 \notin S  OBVIOUS
<1>5. text[k + 1] = BAR => T = S \cup {k + 1}  BY <1>3
<1>6. text[k + 1] # BAR => T = S  BY <1>3
<1>7. k = 0 => S = {}  OBVIOUS
<1>8. BarsUpTo(text, k) = Cardinality(S) /\ BarsUpTo(text, k + 1) = Cardinality(T)
  BY DEF BarsUpTo
<1> HIDE DEF S, T
<1>9. Cardinality(S \cup {k + 1}) = Cardinality(S) + 1  BY <1>1, <1>4, FS_AddElement
<1>10. k = 0 => Cardinality(S) = 0  BY <1>7, FS_EmptySet
<1> QED  BY <1>2, <1>5, <1>6, <1>8, <1>9, <1>10

\* to_soh makes the sum of a text larger by 133, modulo 256, for every '|'.
LEMMA SumOfSoh ==
    ASSUME NEW text \in Seq(Byte)
    PROVE  ByteSum(ToSoh(text)) = (ByteSum(text) + 133 * BarsUpTo(text, Len(text))) % 256
<1>1. PICK n \in Nat : n = Len(text)  OBVIOUS
<1>2. PICK s \in Seq(Byte) : /\ s = ToSoh(text) /\ Len(s) = n
                             /\ \A i \in 1..n : s[i] = IF text[i] = BAR THEN SOH ELSE text[i]
  BY <1>1, ToSohIs
<1>3. PICK f : Sums(f, text)  BY SumExists
<1>4. PICK g : Sums(g, s)  BY SumExists
<1>5. /\ f \in [0..n -> Byte] /\ f[0] = 0 /\ (\A j \in 1..n : f[j] = (f[j - 1] + text[j]) % 256)
      /\ ByteSum(text) = f[n]
  BY <1>1, <1>3 DEF Sums
<1>6. /\ g \in [0..n -> Byte] /\ g[0] = 0 /\ (\A j \in 1..n : g[j] = (g[j - 1] + s[j]) % 256)
      /\ ByteSum(s) = g[n]
  BY <1>2, <1>4 DEF Sums
<1>7. \A j \in 1..n : text[j] \in Byte  BY <1>1, ElementOfSeq
<1>8. \A x \in Byte, y \in Byte, b \in Nat, a \in Byte :
        y = (x + 133 * b) % 256 => (y + a) % 256 = (((x + a) % 256) + 133 * b) % 256
  BY DEF Byte
<1>9. \A x \in Byte, y \in Byte, b \in Nat :
        y = (x + 133 * b) % 256 => (y + 1) % 256 = (((x + 124) % 256) + 133 * (b + 1)) % 256
  BY DEF Byte
<1> DEFINE Bad == {k \in 0..n : g[k] # (f[k] + 133 * BarsUpTo(text, k)) % 256}
<1>10. Bad = {}
  <2> SUFFICES ASSUME Bad # {} PROVE FALSE
    OBVIOUS
  <2>1. PICK k \in Bad : \A j \in Bad : k <= j
    <3>1. Bad \subseteq Nat  OBVIOUS
    <3> HIDE DEF Bad
    <3> QED  BY <3>1, LeastIn
  <2>2. k \in 0..n /\ g[k] # (f[k] + 133 * BarsUpTo(text, k)) % 256  OBVIOUS
  <2>3. k # 0
    <3> SUFFICES ASSUME k = 0 PROVE FALSE  OBVIOUS
    <3>1. BarsUpTo(text, k) = 0
      <4>1. k \in Nat  OBVIOUS
      <4> QED  BY <4>1, BarsStep
    <3>2. (0 + 133 * 0) % 256 = 0  OBVIOUS
    <3> QED  BY <2>2, <3>1, <3>2, <1>5, <1>6
  <2>4. k \in 1..n /\ k - 1 \in 0..n /\ k - 1 \notin Bad
    <3> HIDE DEF Bad
    <3> QED  BY <2>1, <2>2, <2>3
  <2>5. g[k - 1] = (f[k - 1] + 133 * BarsUpTo(text, k - 1)) % 256
    BY <2>4
  <2>6. f[k] = (f[k - 1] + text[k]) % 256 /\ g[k] = (g[k - 1] + s[k]) % 256
    BY <2>4, <1>5, <1>6
  <2>7. PICK x \in Byte, y \in Byte, a \in Byte : x = f[k - 1] /\ y = g[k - 1] /\ a = text[k]
    BY <2>4, <1>5, <1>6, <1>7
  <2>8. PICK b \in Nat : /\ b = BarsUpTo(text, k - 1)
                         /\ a = BAR => BarsUpTo(text, k) = b + 1
                         /\ a # BAR => BarsUpTo(text, k) = b
    <3>1. k - 1 \in Nat /\ k - 1 + 1 = k  BY <2>4
    <3> QED  BY <3>1, <2>7, BarsStep
  <2>9. y = (x + 133 * b) % 256  BY <2>5, <2>7, <2>8
  <2>10. CASE a = BAR
    <3>1. s[k] = 1 /\ a = 124  
      <4>1. s[k] = SOH  BY <2>4, <2>7, <2>10, <1>2, ZenonT(40)
      <4> QED  BY <2>10, <4>1 DEF SOH, BAR
    <3>2. (y + 1) % 256 = (((x + 124) % 256) + 133 * (b + 1)) % 256  BY <2>9, <1>9
    <3> QED  BY <2>2, <2>6, <2>7, <2>8, <2>10, <3>1, <3>2
  <2>11. CASE a # BAR
    <3>1. s[k] = a  BY <2>4, <2>7, <2>11, <1>2
    <3>2. (y + a) % 256 = (((x + a) % 256) + 133 * b) % 256  BY <2>9, <1>8
    <3> QED  BY <2>2, <2>6, <2>7, <2>8, <2>11, <3>1, <3>2
  <2> QED  BY <2>10, <2>11
<1>11. n \in 0..n  OBVIOUS
<1>12. g[n] = (f[n] + 133 * BarsUpTo(text, n)) % 256  BY <1>10, <1>11
<1> QED  BY <1>1, <1>2, <1>5, <1>6, <1>12

\* So it keeps the sum exactly when their number is a multiple of 256.
LEMMA SohKeepsSum ==
    ASSUME NEW text \in Seq(Byte)
    PROVE  ByteSum(ToSoh(text)) = ByteSum(text) <=> BarsUpTo(text, Len(text)) % 256 = 0
<1>1. PICK b \in Nat : b = BarsUpTo(text, Len(text))
  <2>1. Len(text) \in Nat  OBVIOUS
  <2> QED  BY <2>1, BarsStep
<1>2. PICK x \in 0..255 : x = ByteSum(text)  BY SumIs DEF Byte
<1>3. ByteSum(ToSoh(text)) = (x + 133 * b) % 256  BY <1>1, <1>2, SumOfSoh
<1>4. b % 256 = 0 => (x + 133 * b) % 256 = x
  <2> HAVE b % 256 = 0
  <2>1. PICK p \in Nat : b = 256 * p
    <3>1. b = 256 * (b \div 256) /\ b \div 256 \in Nat  OBVIOUS
    <3> QED  BY <3>1
  <2>2. x + 133 * b = x + 256 * (133 * p)  BY <2>1
  <2>3. PICK q \in Nat : q = 133 * p  OBVIOUS
  <2>4. (x + 256 * q) % 256 = x  OBVIOUS
  <2> QED  BY <2>2, <2>3, <2>4
<1>5. (x + 133 * b) % 256 = x => b % 256 = 0
  <2> HAVE (x + 133 * b) % 256 = x
  <2>1. PICK q \in Nat : x + 133 * b = 256 * q + x
    <3>1. PICK y \in Nat : y = x + 133 * b  OBVIOUS
    <3>2. y = 256 * (y \div 256) + (y % 256) /\ y \div 256 \in Nat  OBVIOUS
    <3> QED  BY <3>1, <3>2
  <2>2. 133 * b = 256 * q  BY <2>1
  <2>3. b = 256 * (77 * q - 40 * b)  BY <2>2
  <2>4. PICK p \in Int : p = 77 * q - 40 * b
    <3>1. 77 * q - 40 * b \in Int  OBVIOUS
    <3> QED  BY <3>1, Zenon
  <2>5. (256 * p) % 256 = 0  OBVIOUS
  <2>6. b = 256 * p  BY <2>3, <2>4
  <2> QED  BY <2>5, <2>6
<1> QED  BY <1>1, <1>2, <1>3, <1>4, <1>5

-----------------------------------------------------------------------------
(***************************************************************************)
(* When a message that was built is accepted.                              *)
(***************************************************************************)
\* The tag stands somewhere in the text.
HasTag(text, t) == \E i \in 1..Len(text) - 2 : TagAt(text, i, t)

\* The '|' of a piece add to those before it.
LEMMA BarsAfter ==
    ASSUME NEW text, NEW base \in Nat, NEW piece, NEW len \in Nat,
           \A i \in 1..len : text[base + i] = piece[i]
    PROVE  BarsUpTo(text, base + len) = BarsUpTo(text, base) + BarsUpTo(piece, len)
<1> DEFINE Right(k) == BarsUpTo(text, base + k) = BarsUpTo(text, base) + BarsUpTo(piece, k)
           Bad == {k \in 0..len : ~Right(k)}
<1>1. Bad = {}
  <2> SUFFICES ASSUME Bad # {} PROVE FALSE
    OBVIOUS
  <2>1. PICK k \in Bad : \A j \in Bad : k <= j
    <3>1. Bad \subseteq Nat  OBVIOUS
    <3> HIDE DEF Bad
    <3> QED  BY <3>1, LeastIn
  <2>2. k \in 0..len /\ ~Right(k)  OBVIOUS
  <2> HIDE DEF Right
  <2>3. k # 0
    <3>1. Right(0)
      <4>1. BarsUpTo(piece, 0) = 0 /\ BarsUpTo(text, base) \in Nat  BY BarsStep
      <4>2. base + 0 = base  OBVIOUS
      <4> QED  BY <4>1, <4>2 DEF Right
    <3> QED  BY <2>2, <3>1
  <2>4. PICK j \in 0..len : k = j + 1 /\ j \notin Bad
    <3>1. k - 1 \in 0..len /\ k = (k - 1) + 1 /\ ~ k <= k - 1  BY <2>2, <2>3
    <3> HIDE DEF Bad
    <3> QED  BY <2>1, <3>1
  <2>5. Right(j)  BY <2>4
  <2>6. k \in 1..len /\ base + k = (base + j) + 1 /\ base + j \in Nat /\ j \in Nat
    BY <2>2, <2>4
  <2>7. PICK x \in Nat, y \in Nat, z \in Nat :
          x = BarsUpTo(text, base) /\ y = BarsUpTo(piece, j) /\ z = BarsUpTo(text, base + j)
    BY <2>6, BarsStep
  <2>8. z = x + y  BY <2>5, <2>7 DEF Right
  <2>9. text[(base + j) + 1] = piece[j + 1]
    <3>1. text[base + k] = piece[k]  BY <2>6
    <3> QED  BY <2>4, <2>6, <3>1
  <2>10. CASE piece[j + 1] = BAR
    <3>1. BarsUpTo(piece, j + 1) = y + 1  BY <2>6, <2>7, <2>10, BarsStep
    <3>2. BarsUpTo(text, (base + j) + 1) = z + 1
      BY <2>6, <2>7, <2>9, <2>10, BarsStep
    <3>3. BarsUpTo(text, base + k) = x + BarsUpTo(piece, k)
      BY <2>4, <2>6, <2>8, <3>1, <3>2
    <3> QED  BY <2>2, <2>7, <3>3 DEF Right
  <2>11. CASE piece[j + 1] # BAR
    <3>1. BarsUpTo(piece, j + 1) = y  BY <2>6, <2>7, <2>11, BarsStep
    <3>2. BarsUpTo(text, (base + j) + 1) = z
      BY <2>6, <2>7, <2>9, <2>11, BarsStep
    <3>3. BarsUpTo(text, base + k) = x + BarsUpTo(piece, k)
      BY <2>4, <2>6, <2>8, <3>1, <3>2
    <3> QED  BY <2>2, <2>7, <3>3 DEF Right
  <2> QED  BY <2>10, <2>11
<1>2. len \in 0..len  OBVIOUS
<1>3. Right(len)  BY <1>1, <1>2
<1> QED  BY <1>3

\* A text without '|' has none among its first bytes.
LEMMA NoBars ==
    ASSUME NEW text, NEW k \in Nat, \A i \in 1..k : text[i] # BAR
    PROVE  BarsUpTo(text, k) = 0
<1>1. {i \in 1..k : text[i] = BAR} = {}  OBVIOUS
<1> QED  BY <1>1, FS_EmptySet DEF BarsUpTo

\* The frame of a message in numbers.
LEMMA FrameIs ==
    ASSUME NEW n \in Nat
    PROVE  \E e \in Nat, t \in Nat :
              e = Ending(n) /\ t = Trailer(n) /\ t = e + n + 1 /\ e >= 14
<1>1. PICK l \in Nat : l = Len(Decimal[n]) /\ l >= 1 /\ Ending(n) = 13 + l
  BY ShapeNumbers
<1>2. PICK e \in Nat : e = 13 + l /\ e >= 14  BY <1>1
<1>3. PICK t \in Nat : t = e + n + 1  BY <1>2
<1>4. Trailer(n) = t  BY <1>1, <1>2, <1>3 DEF Trailer
<1> QED  BY <1>1, <1>2, <1>3, <1>4

\* The first bytes of a text.
LEMMA FrontParts ==
    ASSUME NEW S, NEW s \in Seq(S), NEW k \in Nat, k <= Len(s)
    PROVE  /\ SubSeq(s, 1, k) \in Seq(S) /\ Len(SubSeq(s, 1, k)) = k
           /\ \A i \in 1..k : SubSeq(s, 1, k)[i] = s[i]
<1>1. 1 \in Nat \ {0} /\ 1 <= k + 1 /\ k - 1 + 1 = k  OBVIOUS
<1>2. SubSeq(s, 1, k) \in Seq(S) /\ Len(SubSeq(s, 1, k)) = k - 1 + 1  BY <1>1, SubParts
<1>3. \A i \in 1..k - 1 + 1 : SubSeq(s, 1, k)[i] = s[1 + i - 1]  BY <1>1, SubParts
<1>4. \A i \in 1..k : 1 + i - 1 = i  OBVIOUS
<1> QED  BY <1>1, <1>2, <1>3, <1>4

\* The places of the body from which two more follow in it.
LEMMA InBody ==
    ASSUME NEW e \in Nat, NEW n \in Nat, NEW t \in Nat, t = e + n + 1,
           NEW i \in e + 1..t - 1, i + 1 # t, i + 2 # t
    PROVE  \E j \in 1..n - 2 : i = e + j
<1>1. i - e \in 1..n - 2 /\ i = e + (i - e)  OBVIOUS
<1> QED  BY <1>1

\* Before a built message's trailer there are the '|' of its body.
LEMMA BarsOfBuilt ==
    ASSUME NEW n \in Nat, NEW m, Opens(m, n), NEW body,
           \A i \in 1..n : m[Ending(n) + i] = body[i]
    PROVE  BarsUpTo(m, Trailer(n) - 1) = BarsUpTo(body, n)
<1>2. PICK e \in Nat, t \in Nat : e = Ending(n) /\ t = Trailer(n) /\ t = e + n + 1 /\ e >= 14
  BY FrameIs
<1>3. \A i \in 1..e : m[i] # BAR
  <2>1. /\ \A i \in 1..10 : m[i] = BeginString(4)[i]
        /\ m[11] = 57 /\ m[12] = EQ /\ m[e] = SOH
    BY <1>2 DEF Opens
  <2>2. \A i \in 1..12 : m[i] # BAR  BY <2>1, BegunIs DEF BAR, EQ
  <2>3. m[e] # BAR  BY <2>1 DEF SOH, BAR
  <2>4. \A i \in 13..e - 1 : m[i] \in Digits  BY <1>2, HeadBytes
  <2>5. \A d \in Digits : d # BAR  BY DEF Digits, BAR
  <2>6. \A i \in 13..e - 1 : m[i] # BAR  BY <2>4, <2>5
  <2>7. \A i \in 1..e : i \in 1..12 \/ i = e \/ i \in 13..e - 1  OBVIOUS
  <2> QED  BY <2>2, <2>3, <2>6, <2>7
<1>4. BarsUpTo(m, e) = 0  BY <1>2, <1>3, NoBars
<1>5. BarsUpTo(m, e + n) = 0 + BarsUpTo(body, n)  BY <1>2, <1>4, BarsAfter
<1>6. BarsUpTo(body, n) \in Nat  BY BarsStep
<1>7. t - 1 = e + n  BY <1>2
<1>8. Trailer(n) - 1 = t - 1  BY <1>2
<1> QED  BY <1>5, <1>6, <1>7, <1>8

\* The tags among the places of the body are the body's own.
LEMMA TagsOfBuilt ==
    ASSUME NEW n \in Nat, NEW m, Shape(m, n), NEW body, Len(body) = n, n > 0 => body[n] = SOH,
           \A i \in 1..n : m[Ending(n) + i] = body[i]
    PROVE  (\A i \in Ending(n) + 1..Trailer(n) - 1 : ~ TagAt(m, i, 10)) <=> ~ HasTag(body, 10)
<1>1. PICK e \in Nat, t \in Nat : e = Ending(n) /\ t = Trailer(n) /\ t = e + n + 1 /\ e >= 14
  BY FrameIs
<1>0. \A j \in 1..n : m[e + j] = body[j]  BY <1>1, Zenon
<1>5. t = e + n + 1  BY <1>1
<1>2. m[t] = 49  BY <1>1 DEF Shape
<1>3. ASSUME NEW i \in e + 1..t - 1, TagAt(m, i, 10) PROVE HasTag(body, 10)
  <2>1. m[i] = 49 /\ m[i + 1] = 48 /\ m[i + 2] = 61  BY <1>3 DEF TagAt, EQ
  <2>2. i + 1 # t  BY <1>2, <2>1
  <2>3. i + 2 # t  BY <1>2, <2>1
  <2>4. PICK j \in 1..n - 2 : i = e + j  BY <1>5, <2>2, <2>3, InBody
  <2>5. j \in 1..n /\ j + 1 \in 1..n /\ j + 2 \in 1..n
        /\ i + 1 = e + (j + 1) /\ i + 2 = e + (j + 2)
    BY <1>1, <2>4
  <2>6. body[j] = 49 /\ body[j + 1] = 48 /\ body[j + 2] = 61
    BY <1>0, <2>1, <2>4, <2>5
  <2>7. TagAt(body, j, 10)  BY <2>6 DEF TagAt, EQ
  <2> QED  BY <2>4, <2>7 DEF HasTag
<1>4. ASSUME NEW j \in 1..n - 2, TagAt(body, j, 10)
      PROVE  e + j \in e + 1..t - 1 /\ TagAt(m, e + j, 10)
  <2>1. body[j] = 49 /\ body[j + 1] = 48 /\ body[j + 2] = 61  BY <1>4 DEF TagAt, EQ
  <2>2. /\ j \in 1..n /\ j + 1 \in 1..n /\ j + 2 \in 1..n
        /\ (e + j) + 1 = e + (j + 1) /\ (e + j) + 2 = e + (j + 2)
        /\ e + j \in e + 1..t - 1
    BY <1>1
  <2>3. m[e + j] = 49 /\ m[e + (j + 1)] = 48 /\ m[e + (j + 2)] = 61
    BY <1>0, <2>1, <2>2
  <2> QED  BY <2>2, <2>3 DEF TagAt, EQ
<1> QED  BY <1>1, <1>3, <1>4 DEF HasTag

\* What build_message makes is accepted exactly when no "10=" is in its body,
\* and when what to_soh changes in the body leaves the sum as it was.
THEOREM BuiltIsAccepted ==
    ASSUME NEW fields, Body(fields) \in Seq(Byte), Len(Body(fields)) >= 4,
           Body(fields)[Len(Body(fields))] = SOH
    PROVE  ValidateMessage(ToSoh(BuildMessage(fields))) <=>
             /\ ~ HasTag(Body(fields), 10)
             /\ BarsUpTo(Body(fields), Len(Body(fields))) % 256 = 0
<1>1. PICK body \in Seq(Byte), n \in Nat :
        body = Body(fields) /\ n = Len(body) /\ n >= 4 /\ body[n] = SOH
  OBVIOUS
<1>2. PICK m : m = BuildMessage(fields)  OBVIOUS
<1>3. /\ Shape(m, n) /\ \A i \in 1..n : m[Ending(n) + i] = body[i]
      /\ \A i \in 1..3 : m[Trailer(n) + 2 + i] = CalculateChecksum(SubSeq(m, 1, Trailer(n) - 1))[i]
  BY <1>1, <1>2, BuiltShape
<1>4. PICK e \in Nat, t \in Nat : /\ e = Ending(n) /\ t = Trailer(n) /\ t = e + n + 1 /\ e >= 14
  BY FrameIs
<1>14. t = e + n + 1 /\ e >= 14  BY <1>4
<1>15. e = Ending(n) /\ t = Trailer(n) BY <1>4
<1>5. m \in Seq(Byte) /\ Len(m) = t + 6 /\ Opens(m, n)  BY <1>3, <1>4 DEF Shape, Opens
<1>6. PICK s \in Seq(Byte) : s = ToSoh(m) /\ Len(s) = t + 6 /\ NoBar(s)
  BY <1>5, ToSohIs
<1>7. Shape(s, n) /\ Opens(s, n)  BY <1>3, <1>5, <1>6, ToSohKeeps
<1>8. ValidateMessage(s) <=> Entire(s, n)
  <2>1. Len(s) >= 25  BY <1>1, <1>4, <1>6
  <2> QED  BY <1>6, <1>7, <2>1, HeadEntire
<1>9. Len(s) >= t + 5 /\ TagAt(s, t, 10)
  <2>1. s[t] = 49 /\ s[t + 1] = 48 /\ s[t + 2] = 61  BY <1>4, <1>7 DEF Shape, EQ
  <2> QED  BY <1>6, <2>1 DEF TagAt, EQ
<1>10. \A i \in e + 1..t - 1 : TagAt(s, i, 10) <=> TagAt(m, i, 10)
  <2> TAKE i \in e + 1..t - 1
  <2>1. i \in 1..Len(m) - 2 /\ 10 \in 10..99  BY <1>5
  <2> QED  BY <1>5, <1>6, <2>1, ToSohKeeps
<1>11. (\A i \in e + 1..t - 1 : ~ TagAt(s, i, 10)) <=> ~ HasTag(body, 10)
  <2>1. n > 0 => body[n] = SOH  BY <1>1
  <2>2. (\A i \in Ending(n) + 1..Trailer(n) - 1 : ~ TagAt(m, i, 10)) <=> ~ HasTag(body, 10)
    BY <1>1, <1>3, <2>1, TagsOfBuilt
  <2>3. (\A i \in e + 1..t - 1 : ~ TagAt(m, i, 10)) <=> ~ HasTag(body, 10)
    BY <1>15, <2>2, Zenon
  <2> QED  BY <1>10, <2>3, Zenon
<1>12. ASSUME ~ HasTag(body, 10)
       PROVE  (\A j \in 1..3 : s[t + 2 + j] = Three(ByteSum(SubSeq(s, 1, t - 1)))[j])
                <=> BarsUpTo(body, n) % 256 = 0
  <2>1. PICK p \in Seq(Byte) : /\ p = SubSeq(m, 1, t - 1) /\ Len(p) = t - 1
                               /\ \A i \in 1..t - 1 : p[i] = m[i]
    <3>1. PICK k \in Nat : k = t - 1 /\ k <= Len(m)
      <4>1. t - 1 \in Nat /\ t - 1 <= Len(m)  BY <1>5, <1>14
      <4> QED  BY <4>1
    <3>2. /\ SubSeq(m, 1, k) \in Seq(Byte) /\ Len(SubSeq(m, 1, k)) = k
          /\ \A i \in 1..k : SubSeq(m, 1, k)[i] = m[i]
      BY <1>5, <3>1, FrontParts
    <3> QED  BY <3>1, <3>2, Zenon
  <2>2. SubSeq(s, 1, t - 1) = ToSoh(p)
    <3>1. PICK k \in Nat : k = t - 1 /\ k <= Len(s)
      <4>1. t - 1 \in Nat /\ t - 1 <= Len(s)  BY <1>6, <1>14
      <4> QED  BY <4>1
    <3>6. /\ SubSeq(s, 1, k) \in Seq(Byte) /\ Len(SubSeq(s, 1, k)) = k
          /\ \A i \in 1..k : SubSeq(s, 1, k)[i] = s[i]
      BY <1>6, <3>1, FrontParts
    <3>2. PICK q \in Seq(Byte) : /\ q = SubSeq(s, 1, t - 1) /\ Len(q) = t - 1
                                 /\ \A i \in 1..t - 1 : q[i] = s[i]
      BY <3>1, <3>6, Zenon
    <3>3. \A i \in 1..t - 1 : q[i] = IF m[i] = BAR THEN SOH ELSE m[i]
      <4> TAKE i \in 1..t - 1
      <4>1. 1 + i - 1 = i /\ i \in 1..Len(m)  BY <1>5
      <4>2. s[i] = IF m[i] = BAR THEN SOH ELSE m[i]  BY <1>5, <1>6, <4>1, ToSohIs
      <4> QED  BY <3>2, <4>1, <4>2
    <3>4. /\ ToSoh(p) \in Seq(Byte) /\ Len(ToSoh(p)) = t - 1
          /\ \A i \in 1..t - 1 : ToSoh(p)[i] = IF p[i] = BAR THEN SOH ELSE p[i]
      BY <2>1, ToSohIs
    <3>5. \A i \in 1..t - 1 : q[i] = ToSoh(p)[i]  BY <2>1, <3>3, <3>4
    <3>7. q = ToSoh(p)  BY <3>2, <3>4, <3>5, SeqEqual
    <3> QED  BY <3>2, <3>7
  <2>3. PICK x \in Byte, y \in Byte : x = ByteSum(p) /\ y = ByteSum(ToSoh(p))
    BY <2>1, SumIs, ToSohIs
  <2>4. y = x <=> BarsUpTo(p, t - 1) % 256 = 0  BY <2>1, <2>3, SohKeepsSum
  <2>5. BarsUpTo(p, t - 1) = BarsUpTo(body, n)
    <3>1. BarsUpTo(m, t - 1) = BarsUpTo(body, n)
      <4>1. BarsUpTo(m, Trailer(n) - 1) = BarsUpTo(body, n)  BY <1>3, <1>5, BarsOfBuilt
      <4> QED  BY <1>15, <4>1, Zenon
    <3>2. {i \in 1..t - 1 : p[i] = BAR} = {i \in 1..t - 1 : m[i] = BAR}  BY <2>1
    <3>3. BarsUpTo(p, t - 1) = BarsUpTo(m, t - 1)  BY <3>2 DEF BarsUpTo
    <3> QED  BY <3>1, <3>3
  <2>6. CalculateChecksum(p) = Three(x)
    <3>1. \A i \in 1..Len(p) - 2 : ~ TagAt(p, i, 10)
      <4> SUFFICES ASSUME NEW i \in 1..Len(p) - 2, TagAt(p, i, 10) PROVE FALSE
        OBVIOUS
      <4>1. i \in 1..t - 1 /\ i + 1 \in 1..t - 1 /\ i + 2 \in 1..t - 1  BY <2>1
      <4>2. TagAt(m, i, 10)  BY <2>1, <4>1 DEF TagAt
      <4>3. i \in 1..e \/ i \in e + 1..t - 1  BY <4>1
      <4>4. 10 \in 10..99  OBVIOUS
      <4>5. i \notin 1..e  BY <1>4, <1>5, <4>2, <4>4, HeadHasNoTag
      <4>6. TagAt(s, i, 10)  BY <1>10, <4>2, <4>3, <4>5
      <4> QED  BY <1>11, <1>12, <4>3, <4>5, <4>6
    <3>2. Found(Prefix(10), p, 1) = {}
      <4>1. Len(p) \in Nat /\ 1 \in Nat /\ 10 \in 10..99  BY <2>1
      <4> QED  BY <3>1, <4>1, FoundTag
    <3>3. Summed(p) = p  BY <2>1, <3>2, SummedIs
    <3>4. PICK z \in Byte :
            /\ z = ByteSum(Summed(p))
            /\ CalculateChecksum(p) = <<48 + (z \div 100), 48 + ((z \div 10) % 10), 48 + (z % 10)>>
      BY <2>1, ChecksumIs
    <3>5. z = x  BY <2>3, <3>3, <3>4
    <3>6. CalculateChecksum(p) = Three(z)  BY <3>4 DEF Three
    <3> QED  BY <3>5, <3>6
  <2>7. \A j \in 1..3 : m[t + 2 + j] = Three(x)[j]
    BY <1>3, <1>4, <2>1, <2>6
  <2>8. \A j \in 1..3 : s[t + 2 + j] = Three(x)[j]
    <3> TAKE j \in 1..3
    <3>1. t + 2 + j \in 1..Len(m)  BY <1>5
    <3>2. Three(x)[j] \in Digits  BY ThreeIs
    <3>3. \A d \in Digits : d # BAR  BY DEF Digits, BAR
    <3>4. m[t + 2 + j] = Three(x)[j] /\ m[t + 2 + j] # BAR  BY <2>7, <3>2, <3>3
    <3> QED  BY <1>5, <1>6, <3>1, <3>4, ToSohKeeps
  <2>9. (\A j \in 1..3 : s[t + 2 + j] = Three(y)[j]) <=> x = y
    <3>1. ASSUME \A j \in 1..3 : s[t + 2 + j] = Three(y)[j] PROVE x = y
      <4>1. \A j \in 1..3 : Three(x)[j] = Three(y)[j]  BY <2>8, <3>1
      <4> QED  BY <4>1, ThreeIs
    <3> QED  BY <2>8, <3>1
  <2> QED  BY <2>2, <2>3, <2>4, <2>5, <2>9
<1>13. Entire(s, n) <=> ~ HasTag(body, 10) /\ BarsUpTo(body, n) % 256 = 0
  <2>1. Entire(s, n) <=> /\ ~ HasTag(body, 10)
                        /\ \A j \in 1..3 : s[t + 2 + j] = Three(ByteSum(SubSeq(s, 1, t - 1)))[j]
    BY <1>15, <1>9, <1>11, Zenon DEF Entire
  <2> QED  BY <1>12, <2>1
<1> QED  BY <1>1, <1>2, <1>6, <1>8, <1>13

-----------------------------------------------------------------------------
(***************************************************************************)
(* FlattenSeq: pieces, one behind the other.                               *)
(***************************************************************************)
\* The pieces lie one behind the other in the text, the i-th up to off[i].
Flat(text, seqs, n, off) ==
    /\ off \in [0..n -> Nat] /\ off[0] = 0 /\ Len(text) = off[n]
    /\ \A i \in 1..n : off[i] = off[i - 1] + Len(seqs[i])
    /\ \A i \in 1..n : \A j \in 1..Len(seqs[i]) : text[off[i - 1] + j] = seqs[i][j]

\* f joins the pieces.
Joins(f, seqs, n) ==
    /\ f \in [0..n -> Seq(Byte)] /\ f[0] = <<>>
    /\ \A i \in 1..n : f[i] = f[i - 1] \o seqs[i]

\* Where the pieces are that were joined.
LEMMA JoinedIsFlat ==
    ASSUME NEW n \in Nat, NEW seqs \in [1..n -> Seq(Byte)], NEW f, Joins(f, seqs, n)
    PROVE  \E off : Flat(f[n], seqs, n, off)
<1>0. /\ f \in [0..n -> Seq(Byte)] /\ f[0] = <<>>
      /\ \A i \in 1..n : f[i] = f[i - 1] \o seqs[i]
  BY DEF Joins
<1>1. \A i \in 0..n : f[i] \in Seq(Byte) /\ Len(f[i]) \in Nat
  BY <1>0
<1>2. \A i \in 1..n : i - 1 \in 0..n  OBVIOUS
<1>3. \A i \in 1..n : IsConcat(f[i], f[i - 1], seqs[i])
  <2> TAKE i \in 1..n
  <2>1. f[i - 1] \in Seq(Byte) /\ seqs[i] \in Seq(Byte)  BY <1>1, <1>2
  <2> QED  BY <1>0, <2>1, ConcatIs
<1> DEFINE off == [i \in 0..n |-> Len(f[i])]
           Right(k) == \A i \in 1..k : \A j \in 1..Len(seqs[i]) :
                         /\ Len(f[i - 1]) + j <= Len(f[k])
                         /\ f[k][Len(f[i - 1]) + j] = seqs[i][j]
           Bad == {k \in 0..n : ~Right(k)}
<1>4. Bad = {}
  <2> SUFFICES ASSUME Bad # {} PROVE FALSE
    OBVIOUS
  <2>1. PICK k \in Bad : \A j \in Bad : k <= j
    <3>1. Bad \subseteq Nat  OBVIOUS
    <3> HIDE DEF Bad
    <3> QED  BY <3>1, LeastIn
  <2>2. k \in 0..n /\ ~Right(k)  OBVIOUS
  <2>3. k # 0  BY <2>2
  <2> HIDE DEF Right
  <2>4. k \in 1..n /\ k - 1 \in 0..n /\ Right(k - 1)
    <3>1. k \in 1..n /\ k - 1 \in 0..n /\ ~ k <= k - 1  BY <2>2, <2>3
    <3>2. k - 1 \notin Bad
      <4> HIDE DEF Bad
      <4> QED  BY <2>1, <3>1
    <3> QED  BY <3>1, <3>2
  <2>5. /\ Len(f[k]) = Len(f[k - 1]) + Len(seqs[k])
        /\ \A i \in 1..Len(f[k - 1]) : f[k][i] = f[k - 1][i]
        /\ \A i \in 1..Len(seqs[k]) : f[k][Len(f[k - 1]) + i] = seqs[k][i]
    BY <1>3, <2>4 DEF IsConcat
  <2>6. ASSUME NEW i \in 1..k, NEW j \in 1..Len(seqs[i])
        PROVE  /\ Len(f[i - 1]) + j <= Len(f[k])
               /\ f[k][Len(f[i - 1]) + j] = seqs[i][j]
    <3>1. CASE i = k
      <4>1. Len(seqs[k]) \in Nat /\ Len(f[k - 1]) \in Nat  BY <1>1, <2>4
      <4> QED  BY <2>5, <3>1, <4>1
    <3>2. CASE i # k
      <4>1. i \in 1..k - 1  BY <2>4, <3>2
      <4>2. /\ Len(f[i - 1]) + j <= Len(f[k - 1])
            /\ f[k - 1][Len(f[i - 1]) + j] = seqs[i][j]
        BY <2>4, <4>1 DEF Right
      <4>3. i \in 1..n /\ i - 1 \in 0..n  BY <2>4
      <4>4. PICK a \in Nat : a = Len(f[i - 1])  BY <1>1, <4>3
      <4>5. PICK b \in Nat, c \in Nat : b = Len(f[k - 1]) /\ c = Len(seqs[k])  BY <1>1, <2>4
      <4>6. Len(seqs[i]) \in Nat  BY <4>3
      <4>7. a + j \in 1..b  BY <4>2, <4>4, <4>5, <4>6
      <4>8. f[k][a + j] = f[k - 1][a + j]  BY <2>5, <4>5, <4>7
      <4>9. a + j <= b + c
        <5>1. PICK x \in Nat : x = a + j /\ x <= b  BY <4>6, <4>7
        <5> QED  BY <5>1
      <4> QED  BY <2>5, <4>2, <4>4, <4>5, <4>8, <4>9
    <3> QED  BY <3>1, <3>2
  <2>7. Right(k)  BY <2>6 DEF Right
  <2> QED  BY <2>2, <2>7
<1>5. n \in 0..n  OBVIOUS
<1>6. Right(n)  BY <1>4, <1>5
<1> HIDE DEF Bad, Right
<1>7. off \in [0..n -> Nat]  BY <1>1
<1>8. off[0] = 0
  <2>1. 0 \in 0..n  OBVIOUS
  <2>2. Len(f[0]) = 0  BY <1>0
  <2> QED  BY <2>1, <2>2
<1>9. \A i \in 1..n : off[i] = off[i - 1] + Len(seqs[i])
  <2> TAKE i \in 1..n
  <2>1. Len(f[i]) = Len(f[i - 1]) + Len(seqs[i])  BY <1>3 DEF IsConcat
  <2>2. i \in 0..n /\ i - 1 \in 0..n  OBVIOUS
  <2> QED  BY <2>1, <2>2
<1>10. \A i \in 1..n : \A j \in 1..Len(seqs[i]) : f[n][off[i - 1] + j] = seqs[i][j]
  <2> TAKE i \in 1..n
  <2> TAKE j \in 1..Len(seqs[i])
  <2>1. f[n][Len(f[i - 1]) + j] = seqs[i][j]  BY <1>6 DEF Right
  <2>2. off[i - 1] = Len(f[i - 1])  BY <1>2
  <2> QED  BY <2>1, <2>2
<1>11. Len(f[n]) = off[n]  BY <1>5
<1> HIDE DEF off
<1>12. Flat(f[n], seqs, n, off)  BY <1>7, <1>8, <1>9, <1>10, <1>11 DEF Flat
<1> QED  BY <1>12

\* FlattenSeq joins the pieces.
LEMMA FlattenIs ==
    ASSUME NEW n \in Nat \ {0}, NEW seqs \in [1..n -> Seq(Byte)]
    PROVE  \E f : Joins(f, seqs, n) /\ FlattenSeq(seqs) = f[n]
<1>0. Len(seqs) = n  OBVIOUS
<1>00. \A i \in 1..n : seqs[i] \in Seq(Byte)  OBVIOUS
<1> DEFINE step == [i \in 1..n |-> [x \in Seq(Byte) |-> x \o seqs[i]]]
           Eq(f) == f = [i \in 1..n |-> IF i = 1 THEN seqs[i] ELSE f[i - 1] \o seqs[i]]
<1>1. step \in [1..n -> [Seq(Byte) -> Seq(Byte)]]
  <2>1. \A i \in 1..n, x \in Seq(Byte) : x \o seqs[i] \in Seq(Byte)
    BY <1>00, ConcatIs
  <2> QED  BY <2>1, Zenon
<1>2. PICK f \in [0..n -> Seq(Byte)] : f[0] = <<>> /\ \A i \in 1..n : f[i] = step[i][f[i - 1]]
  <2> HIDE DEF step
  <2>1. <<>> \in Seq(Byte)  OBVIOUS
  <2>2. \E f : Recursion(f, Seq(Byte), n, <<>>, step)
    BY <1>1, <2>1, RecursionExists
  <2> QED  BY <2>2 DEF Recursion
<1>3. \A i \in 1..n : f[i] = f[i - 1] \o seqs[i]
  <2> TAKE i \in 1..n
  <2>1. i - 1 \in 0..n  OBVIOUS
  <2>2. f[i - 1] \in Seq(Byte)  BY <2>1
  <2>3. step[i] = [x \in Seq(Byte) |-> x \o seqs[i]]  OBVIOUS
  <2>4. step[i][f[i - 1]] = f[i - 1] \o seqs[i]  BY <2>2, <2>3, Zenon
  <2> HIDE DEF step
  <2> QED  BY <1>2, <2>4
<1> HIDE DEF step
<1>4. Joins(f, seqs, n)  BY <1>2, <1>3 DEF Joins
<1> DEFINE g == [i \in 1..n |-> f[i]]
<1>5. Eq(g)
  <2>1. \A i \in 1..n : f[i] = IF i = 1 THEN seqs[i] ELSE g[i - 1] \o seqs[i]
    <3> TAKE i \in 1..n
    <3>1. CASE i = 1
      <4>1. f[1] = <<>> \o seqs[1]
        <5>1. f[i] = f[i - 1] \o seqs[i] /\ i - 1 = 0  BY <1>3, <3>1
        <5> QED  BY <1>2, <3>1, <5>1
      <4>2. <<>> \o seqs[1] = seqs[1]
        <5>1. seqs[1] \in Seq(Byte)  BY <1>00, <3>1
        <5> QED  BY <5>1
      <4> QED  BY <3>1, <4>1, <4>2
    <3>2. CASE i # 1
      <4>1. g[i - 1] = f[i - 1]
        <5>1. i - 1 \in 1..n  BY <3>2
        <5> QED  BY <5>1
      <4> QED  BY <1>3, <3>2, <4>1
    <3> QED  BY <3>1, <3>2
  <2> QED  BY <2>1, Zenon
<1> HIDE DEF g
<1> DEFINE flatten == CHOOSE h : Eq(h)
<1>6. Eq(flatten)  BY <1>5, Zenon
<1>7. FlattenSeq(seqs) = flatten[n]
  <2>1. n # 0  OBVIOUS
  <2> QED  BY <1>0, <2>1 DEF FlattenSeq
<1> HIDE DEF flatten
<1>8. \A i \in 1..n : flatten[i] = IF i = 1 THEN seqs[i] ELSE flatten[i - 1] \o seqs[i]
  BY <1>6
<1>9. \A i \in 1..n : g[i] = IF i = 1 THEN seqs[i] ELSE g[i - 1] \o seqs[i]
  BY <1>5
<1>10. \A i \in 1..n : flatten[i] = g[i]
  <2> DEFINE Bad == {i \in 1..n : flatten[i] # g[i]}
  <2>1. Bad = {}
    <3> SUFFICES ASSUME Bad # {} PROVE FALSE
      OBVIOUS
    <3>1. PICK m \in Bad : \A i \in Bad : m <= i
      <4>1. Bad \subseteq Nat  OBVIOUS
      <4> HIDE DEF Bad
      <4> QED  BY <4>1, LeastIn
    <3>2. m \in 1..n /\ flatten[m] # g[m]  OBVIOUS
    <3>3. m # 1  BY <3>2, <1>8, <1>9
    <3>4. m - 1 \in 1..n /\ m - 1 \notin Bad
      <4> HIDE DEF Bad
      <4> QED  BY <3>1, <3>2, <3>3
    <3>5. flatten[m - 1] = g[m - 1]  BY <3>4
    <3> HIDE DEF Bad
    <3>6. flatten[m] = flatten[m - 1] \o seqs[m]  BY <1>8, <3>2, <3>3, Zenon
    <3>7. g[m] = g[m - 1] \o seqs[m]  BY <1>9, <3>2, <3>3, Zenon
    <3> QED  BY <3>2, <3>5, <3>6, <3>7, Zenon
  <2> QED  BY <2>1
<1>11. flatten[n] = f[n]
  <2>1. n \in 1..n  OBVIOUS
  <2>2. g[n] = f[n]  BY <2>1 DEF g
  <2> QED  BY <1>10, <2>1, <2>2
<1> QED  BY <1>4, <1>7, <1>11

-----------------------------------------------------------------------------
(***************************************************************************)
(* A field of a body, byte by byte.                                        *)
(***************************************************************************)
\* What a field becomes.
Piece(field) == Prefix(field.tag) \o field.value \o <<SOH>>
\* A field with a tag other than 8, 9 and 10, and bytes for its value.
GoodField(field) == field.tag \in 11..999 /\ field.value \in Seq(Byte)

\* A piece of a tag of d digits and a value of v bytes.
PieceParts(p, tag, value, d, v) ==
    /\ p \in Seq(Byte) /\ d \in {2, 3} /\ v \in Nat /\ v = Len(value) /\ Len(p) = d + v + 2
    /\ \A i \in 1..d : p[i] \in Digits
    /\ p[d + 1] = EQ
    /\ \A i \in 1..v : p[d + 1 + i] = value[i]
    /\ p[d + v + 2] = SOH
    /\ p[d - 1] = 48 + ((tag \div 10) % 10) /\ p[d] = 48 + (tag % 10)

\* The last two digits of a tag.
LEMMA LastDigits ==
    ASSUME NEW n \in 11..999
    PROVE  /\ Len(Decimal[n]) \in {2, 3}
           /\ Decimal[n][Len(Decimal[n]) - 1] = 48 + ((n \div 10) % 10)
           /\ Decimal[n][Len(Decimal[n])] = 48 + (n % 10)
<1>1. CASE n \in 11..99
  <2>1. Decimal[n] = <<48 + (n \div 10), 48 + (n % 10)>>
    <3>1. n \in 10..99  BY <1>1
    <3> QED  BY <3>1, TwoDigits
  <2>2. (n \div 10) % 10 = n \div 10  BY <1>1
  <2>3. PICK a \in Int, b \in Int : a = 48 + (n \div 10) /\ b = 48 + (n % 10)  OBVIOUS
  <2>4. Len(<<a, b>>) = 2 /\ <<a, b>>[1] = a /\ <<a, b>>[2] = b  OBVIOUS
  <2>5. Len(Decimal[n]) = 2 /\ Decimal[n][1] = a /\ Decimal[n][2] = b
    BY <2>1, <2>3, <2>4, Zenon
  <2> QED  BY <2>2, <2>3, <2>5
<1>2. CASE n \in 100..999
  <2>1. PICK m \in 10..99 : m = n \div 10
    <3>1. n \div 10 \in 10..99  BY <1>2
    <3> QED  BY <3>1
  <2>2. Decimal[m] = <<48 + (m \div 10), 48 + (m % 10)>>  BY TwoDigits
  <2>3. PICK a \in Int, b \in Int : a = 48 + (m \div 10) /\ b = 48 + (m % 10)  OBVIOUS
  <2>4. Len(<<a, b>>) = 2 /\ <<a, b>>[1] = a /\ <<a, b>>[2] = b  OBVIOUS
  <2>5. Len(Decimal[m]) = 2 /\ Decimal[m][2] = b
    BY <2>2, <2>3, <2>4, Zenon
  <2>6. n \in Nat /\ n >= 10  BY <1>2
  <2>7. /\ Len(Decimal[n]) = Len(Decimal[n \div 10]) + 1
        /\ Decimal[n][Len(Decimal[n])] = 48 + (n % 10)
        /\ \A i \in 1..Len(Decimal[n \div 10]) : Decimal[n][i] = Decimal[n \div 10][i]
    BY <2>6, DecimalParts
  <2>8. /\ Len(Decimal[n]) = Len(Decimal[m]) + 1
        /\ \A i \in 1..Len(Decimal[m]) : Decimal[n][i] = Decimal[m][i]
    BY <2>1, <2>7, Zenon
  <2>9. Len(Decimal[n]) = 3 /\ Decimal[n][2] = b
    <3>1. 2 \in 1..2  OBVIOUS
    <3> QED  BY <2>5, <2>8, <3>1
  <2>10. b = 48 + ((n \div 10) % 10)  BY <2>1, <2>3
  <2>11. Decimal[n][Len(Decimal[n]) - 1] = b
    <3>1. Len(Decimal[n]) - 1 = 2  BY <2>9
    <3> QED  BY <2>9, <3>1
  <2>12. Len(Decimal[n]) \in {2, 3}  BY <2>9
  <2> QED  BY <2>7, <2>10, <2>11, <2>12
<1> QED  BY <1>1, <1>2

\* A field is such a piece.
LEMMA PieceIs ==
    ASSUME NEW field, GoodField(field)
    PROVE  /\ Piece(field) \in Seq(Byte)
           /\ \E d, v : PieceParts(Piece(field), field.tag, field.value, d, v)
<1>1. PICK tag \in 11..999, value \in Seq(Byte) : tag = field.tag /\ value = field.value
  BY DEF GoodField
<1>2. PICK d \in {2, 3} : d = Len(Decimal[tag])  BY LastDigits
<1>3. PICK v \in Nat : v = Len(value)  OBVIOUS
<1>4. tag \in Nat  OBVIOUS
<1>5. PICK x \in Seq(Byte) : /\ x = Prefix(tag) /\ Len(x) = d + 1 /\ x[d + 1] = EQ
                             /\ \A i \in 1..d : x[i] = Decimal[tag][i] /\ x[i] \in Digits
  BY <1>2, <1>4, PrefixParts
<1>6. PICK y \in Seq(Byte) : /\ y = x \o value /\ Len(y) = d + 1 + v
                             /\ \A i \in 1..d + 1 : y[i] = x[i]
                             /\ \A i \in 1..v : y[d + 1 + i] = value[i]
  <2>1. x \o value \in Seq(Byte) /\ IsConcat(x \o value, x, value)  BY ConcatIs
  <2>2. d + 1 \in Nat /\ Len(x) = d + 1  BY <1>5
  <2>3. PICK c \in Nat : c = d + 1 /\ c = Len(x)  BY <2>2
  <2>4. /\ Len(x \o value) = c + v /\ (\A i \in 1..c : (x \o value)[i] = x[i])
        /\ \A i \in 1..v : (x \o value)[c + i] = value[i]
    BY <1>3, <2>1, <2>3 DEF IsConcat
  <2> QED  BY <2>1, <2>3, <2>4, ZenonT(40)
<1>7. PICK s \in Seq(Byte) : s = <<SOH>> /\ Len(s) = 1 /\ s[1] = SOH
  <2>1. SOH \in Byte  BY DEF SOH, Byte
  <2>2. <<SOH>> \in Seq(Byte)  BY <2>1
  <2> QED  BY <2>2
<1>8. PICK z \in Seq(Byte) : /\ z = y \o s /\ Len(z) = d + 1 + v + 1
                             /\ \A i \in 1..d + 1 + v : z[i] = y[i]
                             /\ z[d + 1 + v + 1] = SOH
  <2>1. y \o s \in Seq(Byte) /\ IsConcat(y \o s, y, s)  BY ConcatIs
  <2>2. 1 \in 1..1  OBVIOUS
  <2>3. PICK c \in Nat : c = d + 1 + v /\ c = Len(y)  BY <1>6
  <2>4. /\ Len(y \o s) = c + 1 /\ (\A i \in 1..c : (y \o s)[i] = y[i])
        /\ (y \o s)[c + 1] = SOH
    BY <1>7, <2>1, <2>2, <2>3 DEF IsConcat
  <2> QED  BY <2>1, <2>3, <2>4, Zenon
<1>9. Piece(field) = z  BY <1>1, <1>5, <1>6, <1>7, <1>8 DEF Piece
<1>10. \A i \in 1..d + 1 : i \in 1..d + 1 + v  OBVIOUS
<1>11. \A i \in 1..d : i \in 1..d + 1  OBVIOUS
<1>12. \A i \in 1..d : z[i] = Decimal[tag][i] /\ z[i] \in Digits
  BY <1>5, <1>6, <1>8, <1>10, <1>11
<1>13. z[d + 1] = EQ
  <2>1. d + 1 \in 1..d + 1  OBVIOUS
  <2> QED  BY <1>5, <1>6, <1>8, <1>10, <2>1
<1>14. \A i \in 1..v : z[d + 1 + i] = value[i]
  <2>1. \A i \in 1..v : d + 1 + i \in 1..d + 1 + v  OBVIOUS
  <2> QED  BY <1>6, <1>8, <2>1
<1>15. z[d - 1] = 48 + ((tag \div 10) % 10) /\ z[d] = 48 + (tag % 10)
  <2>1. d \in 1..d /\ d - 1 \in 1..d  OBVIOUS
  <2> QED  BY <1>2, <1>12, <2>1, LastDigits
<1>16. d + 1 + v + 1 = d + v + 2  OBVIOUS
<1>17. PieceParts(z, tag, value, d, v)
  BY <1>3, <1>8, <1>12, <1>13, <1>14, <1>15, <1>16 DEF PieceParts
<1> QED  BY <1>1, <1>9, <1>17

\* The last two digits of a number tell it, modulo 100.
EndsIn(n, a, b) == a = 48 + ((n \div 10) % 10) /\ b = 48 + (n % 10)

\* Of two digits, they tell it.
LEMMA SameLastDigits ==
    ASSUME NEW n \in 11..999, NEW t \in 10..99, NEW a, NEW b, EndsIn(n, a, b), EndsIn(t, a, b)
    PROVE  n % 100 = t
<1>1. PICK h \in 0..9, x \in 0..9, y \in 0..9 : n = 100 * h + 10 * x + y
  <2>1. n = 100 * (n \div 100) + 10 * ((n \div 10) % 10) + (n % 10)  OBVIOUS
  <2>2. n \div 100 \in 0..9 /\ (n \div 10) % 10 \in 0..9 /\ n % 10 \in 0..9  OBVIOUS
  <2> QED  BY <2>1, <2>2
<1>2. PICK u \in 1..9, w \in 0..9 : t = 10 * u + w
  <2>1. t = 10 * (t \div 10) + (t % 10) /\ t \div 10 \in 1..9 /\ t % 10 \in 0..9  OBVIOUS
  <2> QED  BY <2>1
<1>3. (t \div 10) % 10 = u /\ t % 10 = w  BY <1>2
<1>4. n \div 10 = 10 * h + x /\ n % 10 = y  BY <1>1
<1>5. (10 * h + x) % 10 = x  OBVIOUS
<1>8. /\ a = 48 + ((t \div 10) % 10) /\ a = 48 + ((n \div 10) % 10)
      /\ b = 48 + (t % 10) /\ b = 48 + (n % 10)
  BY DEF EndsIn
<1>6. u = x /\ w = y  BY <1>3, <1>4, <1>5, <1>8
<1>7. n = 100 * h + t /\ t \in 0..99  BY <1>1, <1>2, <1>6
<1> QED  BY <1>7

\* What TagAt looks for are they.
LEMMA TagDigits ==
    ASSUME NEW t \in 10..99
    PROVE  /\ EndsIn(t, 48 + (t \div 10), 48 + (t % 10))
           /\ 48 + (t \div 10) \in Digits /\ 48 + (t % 10) \in Digits
<1>1. (t \div 10) % 10 = t \div 10  OBVIOUS
<1>2. 48 + (t \div 10) \in 48..57 /\ 48 + (t % 10) \in 48..57  OBVIOUS
<1> QED  BY <1>1, <1>2 DEF EndsIn, Digits

\* Such a piece stands in the text behind the place o.
PieceAt(text, o, p, tag, value, d, v) ==
    /\ o \in Nat /\ tag \in 11..999 /\ value \in Seq(Byte)
    /\ PieceParts(p, tag, value, d, v)
    /\ \A j \in 1..Len(p) : text[o + j] = p[j]

\* A field with another tag, as far as the last two digits tell.
OtherTag(tag, t) == tag % 100 # t

\* The j-th byte of a piece begins a tag in its value.
InValue(j, value, d, v, t) == \E w \in 1..v - 2 : j = d + 1 + w /\ TagAt(value, w, t)

\* A tag that stands in a piece is its own, or stands in its value.
LEMMA PieceTag ==
    ASSUME NEW text, NEW o, NEW p, NEW tag, NEW value, NEW d, NEW v,
           PieceAt(text, o, p, tag, value, d, v), NEW t \in 10..99, OtherTag(tag, t),
           NEW j \in 1..Len(p), NEW x, x = o + j, TagAt(text, x, t)
    PROVE  InValue(j, value, d, v, t)
<1>25. /\ o \in Nat /\ tag \in 11..999 /\ PieceParts(p, tag, value, d, v)
       /\ \A i \in 1..Len(p) : text[o + i] = p[i]
  BY DEF PieceAt
<1>26. o \in Nat /\ tag \in 11..999  BY <1>25
<1>1. /\ d \in {2, 3} /\ v \in Nat /\ v = Len(value) /\ Len(p) = d + v + 2
      /\ (\A i \in 1..d : p[i] \in Digits) /\ p[d + 1] = EQ
      /\ (\A i \in 1..v : p[d + 1 + i] = value[i]) /\ p[d + v + 2] = SOH
      /\ p[d - 1] = 48 + ((tag \div 10) % 10) /\ p[d] = 48 + (tag % 10)
  BY <1>25 DEF PieceParts
<1>2. PICK n \in Nat : n = d + v + 2 /\ n = Len(p) /\ p[n] = 1  BY <1>1 DEF SOH
<1>0. j \in 1..n  BY <1>2
<1>3. \A i \in 1..n : text[o + i] = p[i]  BY <1>2, <1>25
<1>4. PICK a \in Digits, b \in Digits :
        a = 48 + (t \div 10) /\ b = 48 + (t % 10) /\ EndsIn(t, a, b)
  BY TagDigits, Zenon
<1>5. text[o + j] = a /\ text[o + j + 1] = b /\ text[o + j + 2] = 61
  BY <1>4 DEF TagAt, EQ
<1>6. o + j + 1 = o + (j + 1) /\ o + j + 2 = o + (j + 2)  BY <1>0, <1>26
<1>7. \A y \in Digits : y # 1 /\ y # 61  BY DEF Digits
<1>8. j # n  BY <1>2, <1>3, <1>4, <1>5, <1>7
<1>9. j + 1 \in 1..n /\ p[j] = a /\ p[j + 1] = b
  <2>1. j + 1 \in 1..n  BY <1>0, <1>8
  <2> QED  BY <1>0, <1>3, <1>5, <1>6, <2>1
<1>10. j + 1 # n  BY <1>2, <1>4, <1>7, <1>9
<1>11. j + 2 \in 1..n /\ p[j + 2] = 61
  <2>1. j + 2 \in 1..n  BY <1>0, <1>9, <1>10
  <2> QED  BY <1>3, <1>5, <1>6, <2>1
<1>12. j + 2 # n  BY <1>2, <1>11
<1>13. p[d + 1] = 61  BY <1>1 DEF EQ
<1>14. j # d + 1 /\ j + 1 # d + 1  BY <1>4, <1>7, <1>9, <1>13
<1>15. j + 2 \notin 1..d  BY <1>1, <1>7, <1>11
<1>16. j + 2 # d + 1
  <2> SUFFICES ASSUME j + 2 = d + 1 PROVE FALSE
    OBVIOUS
  <2>1. j = d - 1 /\ j + 1 = d  BY <1>1
  <2>2. EndsIn(tag, a, b)  BY <1>1, <1>9, <2>1 DEF EndsIn
  <2>4. EndsIn(t, a, b)  BY <1>4
  <2>5. PICK m \in 11..999 : m = tag  BY <1>26
  <2>6. EndsIn(m, a, b)  BY <2>2, <2>5
  <2>7. m % 100 = t  BY <2>4, <2>6, SameLastDigits
  <2>3. tag % 100 = t  BY <2>5, <2>7
  <2> QED  BY <2>3, Zenon DEF OtherTag
<1>17. PICK w \in 1..v - 2 : j = d + 1 + w
  <2>1. j >= d + 2 /\ j <= d + v - 1
    BY <1>0, <1>1, <1>2, <1>9, <1>11, <1>12, <1>14, <1>15, <1>16
  <2>2. j - d - 1 \in 1..v - 2 /\ j = d + 1 + (j - d - 1)  BY <1>1, <2>1
  <2> QED  BY <2>2
<1>18. w \in 1..v /\ w + 1 \in 1..v /\ w + 2 \in 1..v  BY <1>1
<1>19. j + 1 = d + 1 + (w + 1) /\ j + 2 = d + 1 + (w + 2)  BY <1>1, <1>17
<1>20. value[w] = a /\ value[w + 1] = b /\ value[w + 2] = 61
  BY <1>1, <1>9, <1>11, <1>17, <1>18, <1>19
<1>21. TagAt(value, w, t)  BY <1>4, <1>20 DEF TagAt, EQ
<1> QED  BY <1>17, <1>21 DEF InValue

\* And a tag in the value stands in the piece.
LEMMA ValueTag ==
    ASSUME NEW text, NEW o \in Nat, NEW p, NEW tag, NEW value, NEW d, NEW v,
           PieceParts(p, tag, value, d, v), \A j \in 1..Len(p) : text[o + j] = p[j],
           NEW t \in 10..99, NEW w \in 1..v - 2, TagAt(value, w, t)
    PROVE  TagAt(text, o + (d + 1 + w), t)
<1>1. /\ d \in {2, 3} /\ v \in Nat /\ v = Len(value) /\ Len(p) = d + v + 2
      /\ (\A i \in 1..v : p[d + 1 + i] = value[i])
  BY DEF PieceParts
<1>2. w \in 1..v /\ w + 1 \in 1..v /\ w + 2 \in 1..v  BY <1>1
<1>3. /\ d + 1 + w \in 1..d + v + 2 /\ d + 1 + (w + 1) \in 1..d + v + 2
      /\ d + 1 + (w + 2) \in 1..d + v + 2
  BY <1>1, <1>2
<1>4. /\ o + (d + 1 + w) + 1 = o + (d + 1 + (w + 1))
      /\ o + (d + 1 + w) + 2 = o + (d + 1 + (w + 2))
  BY <1>1
<1>5. /\ text[o + (d + 1 + w)] = value[w] /\ text[o + (d + 1 + (w + 1))] = value[w + 1]
      /\ text[o + (d + 1 + (w + 2))] = value[w + 2]
  BY <1>1, <1>2, <1>3
<1> QED  BY <1>4, <1>5 DEF TagAt

-----------------------------------------------------------------------------
(***************************************************************************)
(* The fields of a body, one behind the other.                             *)
(***************************************************************************)
\* The first k fields stand in the text behind the base, the i-th up to off[i].
Laid(text, base, fields, off, k) ==
    /\ off[0] = base /\ off[k] <= Len(text)
    /\ \A i \in 0..k : off[i] \in Nat
    /\ \A i \in 1..k : off[i] = off[i - 1] + Len(Piece(fields[i]))
    /\ \A i \in 1..k : \A j \in 1..Len(Piece(fields[i])) :
         text[off[i - 1] + j] = Piece(fields[i])[j]

\* So are the first k.
AllGood(fields, k) == \A i \in 1..k : GoodField(fields[i])

\* The place is one of the q-th piece.
InPiece(x, q, fields, off) == \E j \in 1..Len(Piece(fields[q])) : x = off[q - 1] + j

\* Piece after piece.
LEMMA LaidGrows ==
    ASSUME NEW text, NEW base, NEW fields, NEW off, NEW k \in Nat,
           Laid(text, base, fields, off, k), AllGood(fields, k)
    PROVE  \A i \in 0..k : base <= off[i] /\ off[i] <= off[k]
<1>0. /\ off[0] = base /\ \A i \in 0..k : off[i] \in Nat
      /\ \A i \in 1..k : off[i] = off[i - 1] + Len(Piece(fields[i]))
  BY DEF Laid
<1>1. \A i \in 1..k : Len(Piece(fields[i])) \in Nat
  <2> TAKE i \in 1..k
  <2>1. Piece(fields[i]) \in Seq(Byte)  BY PieceIs DEF AllGood
  <2> QED  BY <2>1
<1>2. \A i \in 1..k : off[i - 1] \in Nat /\ off[i] \in Nat /\ off[i - 1] <= off[i]
  <2> TAKE i \in 1..k
  <2>1. i \in 0..k /\ i - 1 \in 0..k  OBVIOUS
  <2>2. PICK x \in Nat, y \in Nat, z \in Nat :
          x = off[i - 1] /\ y = off[i] /\ z = Len(Piece(fields[i]))
    BY <1>0, <1>1, <2>1
  <2>3. y = x + z  BY <1>0, <2>2
  <2> QED  BY <2>2, <2>3
<1> DEFINE Right(m) == \A i \in 0..m : base <= off[i] /\ off[i] <= off[m]
           Bad == {m \in 0..k : ~Right(m)}
<1>3. Bad = {}
  <2> SUFFICES ASSUME Bad # {} PROVE FALSE
    OBVIOUS
  <2>1. PICK m \in Bad : \A j \in Bad : m <= j
    <3>1. Bad \subseteq Nat  OBVIOUS
    <3> HIDE DEF Bad
    <3> QED  BY <3>1, LeastIn
  <2>2. m \in 0..k /\ ~Right(m)  OBVIOUS
  <2> HIDE DEF Right
  <2>3. m # 0
    <3>1. Right(0)
      <4>1. \A i \in 0..0 : i = 0  OBVIOUS
      <4>2. 0 \in 0..k  OBVIOUS
      <4>3. base \in Nat  BY <1>0, <4>2
      <4> QED  BY <1>0, <4>1, <4>3 DEF Right
    <3> QED  BY <2>2, <3>1
  <2>4. m \in 1..k /\ m - 1 \in 0..k /\ Right(m - 1)
    <3>1. m \in 1..k /\ m - 1 \in 0..k /\ ~ m <= m - 1  BY <2>2, <2>3
    <3>2. m - 1 \notin Bad
      <4> HIDE DEF Bad
      <4> QED  BY <2>1, <3>1
    <3> QED  BY <3>1, <3>2
  <2>5. ASSUME NEW i \in 0..m PROVE base <= off[i] /\ off[i] <= off[m]
    <3>1. base \in Nat
      <4>1. 0 \in 0..k  OBVIOUS
      <4> QED  BY <1>0, <4>1
    <3>2. PICK x \in Nat, y \in Nat : x = off[m - 1] /\ y = off[m] /\ x <= y  BY <1>2, <2>4
    <3>3. m - 1 \in 0..m - 1  BY <2>4
    <3>4. base <= x  BY <2>4, <3>2, <3>3 DEF Right
    <3>5. CASE i = m  BY <3>1, <3>2, <3>4, <3>5
    <3>6. CASE i # m
      <4>1. i \in 0..m - 1 /\ i \in 0..k  BY <2>4, <3>6
      <4>2. PICK z \in Nat : z = off[i]  BY <1>0, <4>1
      <4>3. base <= z /\ z <= x  BY <2>4, <3>2, <4>1, <4>2 DEF Right
      <4> QED  BY <3>2, <4>2, <4>3
    <3> QED  BY <3>5, <3>6
  <2> QED  BY <2>2, <2>5 DEF Right
<1>4. k \in 0..k  OBVIOUS
<1>5. Right(k)  BY <1>3, <1>4
<1> QED  BY <1>5

\* Every place behind the base lies in a piece.
LEMMA LaidPlaces ==
    ASSUME NEW text, NEW base \in Nat, NEW fields, NEW off, NEW k \in Nat,
           Laid(text, base, fields, off, k), AllGood(fields, k),
           NEW x \in Nat, base < x, x <= off[k]
    PROVE  \E q \in 1..k : InPiece(x, q, fields, off)
<1>0. /\ off[0] = base /\ \A i \in 0..k : off[i] \in Nat
      /\ \A i \in 1..k : off[i] = off[i - 1] + Len(Piece(fields[i]))
  BY DEF Laid
<1> DEFINE S == {i \in 0..k : x <= off[i]}
<1>1. k \in S  OBVIOUS
<1>2. PICK q \in S : \A i \in S : q <= i
  <2>1. S \subseteq Nat  OBVIOUS
  <2> HIDE DEF S
  <2> QED  BY <1>1, <2>1, LeastIn
<1>3. q \in 0..k /\ x <= off[q]  OBVIOUS
<1>4. q # 0  BY <1>0, <1>3
<1>5. q \in 1..k /\ q - 1 \in 0..k /\ ~ q <= q - 1  BY <1>3, <1>4
<1>6. q - 1 \notin S
  <2> HIDE DEF S
  <2> QED  BY <1>2, <1>5
<1>7. ~ x <= off[q - 1]  BY <1>5, <1>6
<1>8. PICK a \in Nat, b \in Nat, l \in Nat :
        a = off[q - 1] /\ b = off[q] /\ l = Len(Piece(fields[q]))
  <2>1. off[q - 1] \in Nat /\ off[q] \in Nat  BY <1>0, <1>3, <1>5
  <2>2. Piece(fields[q]) \in Seq(Byte)  BY <1>5, PieceIs DEF AllGood
  <2> QED  BY <2>1, <2>2
<1>9. b = a + l  BY <1>0, <1>5, <1>8
<1>10. x <= b /\ ~ x <= a  BY <1>3, <1>7, <1>8
<1>11. x - a \in 1..l /\ x = a + (x - a)  BY <1>9, <1>10
<1> QED  BY <1>5, <1>8, <1>11 DEF InPiece

\* A piece seen in the text.
LEMMA LaidPiece ==
    ASSUME NEW text, NEW base \in Nat, NEW fields, NEW off, NEW k \in Nat,
           Laid(text, base, fields, off, k), AllGood(fields, k),
           NEW q \in 1..k
    PROVE  /\ \E d, v : PieceAt(text, off[q - 1], Piece(fields[q]), fields[q].tag, fields[q].value, d, v)
           /\ off[q] = off[q - 1] + Len(Piece(fields[q]))
<1>1. GoodField(fields[q])  BY DEF AllGood
<1>2. PICK tag \in 11..999, value \in Seq(Byte) :
        tag = fields[q].tag /\ value = fields[q].value
  BY <1>1 DEF GoodField
<1>3. PICK d, v : PieceParts(Piece(fields[q]), fields[q].tag, fields[q].value, d, v)
  BY <1>1, PieceIs
<1>4. q - 1 \in 0..k  OBVIOUS
<1>5. off[q - 1] \in Nat  BY <1>4 DEF Laid
<1>6. \A j \in 1..Len(Piece(fields[q])) : text[off[q - 1] + j] = Piece(fields[q])[j]
  BY DEF Laid
<1>7. off[q] = off[q - 1] + Len(Piece(fields[q]))  BY DEF Laid
<1>8. PieceAt(text, off[q - 1], Piece(fields[q]), fields[q].tag, fields[q].value, d, v)
  BY <1>2, <1>3, <1>5, <1>6, Zenon DEF PieceAt
<1> QED  BY <1>7, <1>8

\* A tag stands in the q-th value, and this is the byte before it.
HeldAt(before, fields, q, t) ==
    \E w \in 1..Len(fields[q].value) - 2 :
        /\ TagAt(fields[q].value, w, t)
        /\ before = IF w = 1 THEN EQ ELSE fields[q].value[w - 1]

\* A tag among the pieces of other tags stands in a value.
LEMMA TagInLaid ==
    ASSUME NEW text, NEW base \in Nat, NEW fields, NEW off, NEW k \in Nat,
           Laid(text, base, fields, off, k), AllGood(fields, k),
           NEW t \in 10..99, \A i \in 1..k : OtherTag(fields[i].tag, t),
           NEW x \in Nat, base < x, x <= off[k], TagAt(text, x, t)
    PROVE  \E q \in 1..k : HeldAt(text[x - 1], fields, q, t)
<1>1. PICK q \in 1..k : InPiece(x, q, fields, off)  BY LaidPlaces
<1>20. PICK d, v :
          PieceAt(text, off[q - 1], Piece(fields[q]), fields[q].tag, fields[q].value, d, v)
  BY LaidPiece
<1>21. PICK o, p, tag, value :
          /\ o = off[q - 1] /\ p = Piece(fields[q])
          /\ tag = fields[q].tag /\ value = fields[q].value
  OBVIOUS
<1>2. /\ o \in Nat /\ tag \in 11..999 /\ value \in Seq(Byte)
      /\ PieceParts(p, tag, value, d, v)
      /\ \A j \in 1..Len(p) : text[o + j] = p[j]
  BY <1>20, <1>21, Zenon DEF PieceAt
<1>3. PICK j \in 1..Len(p) : x = o + j  BY <1>1, <1>21, Zenon DEF InPiece
<1>4. OtherTag(tag, t) /\ TagAt(text, x, t)  BY <1>21, <1>3, Zenon
<1>5. PICK w \in 1..v - 2 : j = d + 1 + w /\ TagAt(value, w, t)
  <2>0. PieceAt(text, o, p, tag, value, d, v)  BY <1>20, <1>21, Zenon
  <2>1. InValue(j, value, d, v, t)  BY <2>0, <1>3, <1>4, PieceTag
  <2> QED  BY <2>1 DEF InValue
<1>6. /\ d \in {2, 3} /\ v \in Nat /\ v = Len(value) /\ Len(p) = d + v + 2
      /\ p[d + 1] = EQ /\ \A i \in 1..v : p[d + 1 + i] = value[i]
  BY <1>2 DEF PieceParts
<1>22. o \in Nat  BY <1>2
<1>7. x - 1 = o + (d + w) /\ d + w \in 1..d + v + 2
  <2>1. x = o + j /\ j = d + 1 + w /\ d \in Nat /\ v \in Nat  BY <1>3, <1>5, <1>6
  <2> QED  BY <1>22, <2>1
<1>8. text[x - 1] = p[d + w]  BY <1>2, <1>6, <1>7
<1>9. text[x - 1] = IF w = 1 THEN EQ ELSE value[w - 1]
  <2>1. CASE w = 1  BY <1>6, <1>8, <2>1
  <2>2. CASE w # 1
    <3>1. w - 1 \in 1..v /\ d + w = d + 1 + (w - 1)  BY <1>6, <2>2
    <3> QED  BY <1>6, <1>8, <2>2, <3>1
  <2> QED  BY <2>1, <2>2
<1>10. w \in 1..Len(fields[q].value) - 2  BY <1>6, <1>21
<1> QED  BY <1>5, <1>9, <1>10, <1>21, Zenon DEF HeldAt

\* And a tag in a value stands among them.
LEMMA ValueInLaid ==
    ASSUME NEW text, NEW base \in Nat, NEW fields, NEW off, NEW k \in Nat,
           Laid(text, base, fields, off, k), AllGood(fields, k),
           NEW t \in 10..99, NEW q \in 1..k, HasTag(fields[q].value, t)
    PROVE  \E x \in Nat : base < x /\ x + 2 <= off[k] /\ TagAt(text, x, t)
<1>20. PICK d, v :
          PieceAt(text, off[q - 1], Piece(fields[q]), fields[q].tag, fields[q].value, d, v)
  BY LaidPiece
<1>21. PICK o, p, tag, value :
          /\ o = off[q - 1] /\ p = Piece(fields[q])
          /\ tag = fields[q].tag /\ value = fields[q].value
  OBVIOUS
<1>2. /\ o \in Nat /\ tag \in 11..999 /\ value \in Seq(Byte)
      /\ PieceParts(p, tag, value, d, v)
      /\ \A j \in 1..Len(p) : text[o + j] = p[j]
  BY <1>20, <1>21, Zenon DEF PieceAt
<1>3. d \in {2, 3} /\ v \in Nat /\ v = Len(value) /\ Len(p) = d + v + 2
  BY <1>2 DEF PieceParts
<1>4. PICK w \in 1..v - 2 : TagAt(value, w, t)
  <2>1. HasTag(value, t)  BY <1>21
  <2> QED  BY <1>3, <2>1 DEF HasTag
<1>5. TagAt(text, o + (d + 1 + w), t)  BY <1>2, <1>4, ValueTag, Zenon
<1>6. \A i \in 0..k : base <= off[i] /\ off[i] <= off[k]  BY LaidGrows
<1>7. q \in 0..k /\ q - 1 \in 0..k /\ k \in 0..k  OBVIOUS
<1>8. base <= o /\ off[q] <= off[k]
  <2>1. base <= off[q - 1] /\ off[q] <= off[k]  BY <1>6, <1>7
  <2> QED  BY <1>21, <2>1, Zenon
<1>9. PICK e \in Nat : e = off[k]  BY <1>7 DEF Laid
<1>22. o \in Nat  BY <1>2
<1>10. PICK c \in Nat : off[q] = o + c /\ c = d + v + 2
  <2>1. off[q] = off[q - 1] + Len(Piece(fields[q]))  BY LaidPiece
  <2>2. PICK c \in Nat : c = d + v + 2 /\ c = Len(p)  BY <1>3
  <2>3. off[q] = o + c  BY <1>21, <2>1, <2>2, Zenon
  <2> QED  BY <2>2, <2>3
<1>11. PICK x \in Nat : x = o + (d + 1 + w)  BY <1>3, <1>22
<1>12. base < x /\ x + 2 <= e
  <2>1. base <= o /\ o + c <= e  BY <1>8, <1>9, <1>10
  <2> QED  BY <1>3, <1>10, <1>11, <1>22, <2>1
<1> QED  BY <1>5, <1>9, <1>11, <1>12

-----------------------------------------------------------------------------
(***************************************************************************)
(* What GetField reads of such fields.                                     *)
(***************************************************************************)
\* A piece of n bytes from the middle of a text.
LEMMA MiddleParts ==
    ASSUME NEW S, NEW s \in Seq(S), NEW a \in Nat \ {0}, NEW b \in Nat, b <= Len(s),
           NEW n \in Nat, a + n = b + 1
    PROVE  /\ SubSeq(s, a, b) \in Seq(S) /\ Len(SubSeq(s, a, b)) = n
           /\ \A i \in 1..n : SubSeq(s, a, b)[i] = s[a + i - 1]
<1>1. a <= b + 1 /\ b - a + 1 = n  OBVIOUS
<1>2. SubSeq(s, a, b) \in Seq(S) /\ Len(SubSeq(s, a, b)) = b - a + 1  BY <1>1, SubParts
<1>3. \A i \in 1..b - a + 1 : SubSeq(s, a, b)[i] = s[a + i - 1]  BY <1>1, SubParts
<1> QED  BY <1>1, <1>2, <1>3

\* Where the value of a field ends that starts here.
EndOfField(text, start) ==
    IF Find(<<SOH>>, text, start) > 0 THEN EndAt(SOH, text, start)
    ELSE IF Find(<<BAR>>, text, start) > 0 THEN EndAt(BAR, text, start)
    ELSE Len(text)

\* There is only one first place.
LEMMA FirstTagIs ==
    ASSUME NEW text, Len(text) \in Nat, NEW t \in 10..99, NEW at, FirstTag(at, text, 1, t)
    PROVE  Find(Prefix(t), text, 1) = at
<1>1. PICK f \in Nat : f = Find(Prefix(t), text, 1) /\ FirstTag(f, text, 1, t)
  <2>1. 1 \in Nat \ {0}  OBVIOUS
  <2>2. FirstTag(Find(Prefix(t), text, 1), text, 1, t)  BY <2>1, FindTag
  <2> QED  BY <2>2 DEF FirstTag
<1>2. /\ at \in Nat /\ at = 0 <=> \A i \in 1..Len(text) - 2 : ~ TagAt(text, i, t)
      /\ at # 0 => /\ at \in 1..Len(text) - 2 /\ TagAt(text, at, t)
                   /\ \A i \in 1..at - 1 : ~ TagAt(text, i, t)
  BY DEF FirstTag
<1>3. /\ f = 0 <=> \A i \in 1..Len(text) - 2 : ~ TagAt(text, i, t)
      /\ f # 0 => /\ f \in 1..Len(text) - 2 /\ TagAt(text, f, t)
                  /\ \A i \in 1..f - 1 : ~ TagAt(text, i, t)
  BY <1>1 DEF FirstTag
<1>4. CASE at = 0  BY <1>1, <1>2, <1>3, <1>4
<1>5. CASE at # 0
  <2>1. f # 0  BY <1>2, <1>3, <1>5
  <2>2. f \notin 1..at - 1 /\ at \notin 1..f - 1  BY <1>2, <1>3, <1>5, <2>1
  <2>3. f = at  BY <1>1, <1>2, <1>5, <2>1, <2>2
  <2> QED  BY <1>1, <2>3
<1> QED  BY <1>4, <1>5

\* get_field, by the first place of the tag.
LEMMA GetFieldIs ==
    ASSUME NEW text, Len(text) \in Nat, NEW t \in 10..99, NEW at, FirstTag(at, text, 1, t)
    PROVE  GetField(text, t) = IF at = 0 \/ ~ BeginsField(text, at) THEN <<>>
                               ELSE SubSeq(text, at + 3, EndOfField(text, at + 3))
<1>1. Find(Prefix(t), text, 1) = at  BY FirstTagIs
<1>2. Len(Prefix(t)) = 3  BY PrefixOfTwo
<1> QED  BY <1>1, <1>2, Zenon DEF GetField, EndOfField

\* What it finds is a text again.
LEMMA GetFieldType ==
    ASSUME NEW text \in Seq(Byte), NEW t \in 10..99
    PROVE  GetField(text, t) \in Seq(Byte)
<1>1. PICK n \in Nat : n = Len(text)  OBVIOUS
<1>2. PICK at \in Nat : FirstTag(at, text, 1, t)
  <2>1. 1 \in Nat \ {0} /\ Len(text) \in Nat  OBVIOUS
  <2>2. FirstTag(Find(Prefix(t), text, 1), text, 1, t)  BY <2>1, FindTag
  <2> QED  BY <2>2 DEF FirstTag
<1>3. Len(text) \in Nat  OBVIOUS
<1>4. CASE at = 0 \/ ~ BeginsField(text, at)
  <2>1. GetField(text, t) = <<>>  BY <1>2, <1>3, <1>4, GetFieldIs
  <2> QED  BY <2>1
<1>5. CASE at # 0 /\ BeginsField(text, at)
  <2>1. at \in 1..n - 2  BY <1>1, <1>2, <1>5 DEF FirstTag
  <2>2. PICK s \in Nat \ {0} : s = at + 3 /\ s <= n + 1  BY <2>1
  <2>3. PICK e \in Nat : e = EndOfField(text, s) /\ e <= n /\ s <= e + 1
    <3>1. PICK f \in Nat : f = Find(<<SOH>>, text, s) /\ FirstAt(f, SOH, text, s)
      <4>1. FirstAt(Find(<<SOH>>, text, s), SOH, text, s)  BY <1>3, <2>2, FindByte
      <4> QED  BY <4>1 DEF FirstAt
    <3>2. PICK g \in Nat : g = Find(<<BAR>>, text, s) /\ FirstAt(g, BAR, text, s)
      <4>1. FirstAt(Find(<<BAR>>, text, s), BAR, text, s)  BY <1>3, <2>2, FindByte
      <4> QED  BY <4>1 DEF FirstAt
    <3>3. CASE f > 0
      <4>1. EndOfField(text, s) = f - 1  BY <3>1, <3>3 DEF EndOfField, EndAt
      <4>2. f \in s..n  BY <1>1, <3>1, <3>3 DEF FirstAt
      <4>3. f - 1 \in Nat /\ f - 1 <= n /\ s <= (f - 1) + 1  BY <2>2, <4>2
      <4> QED  BY <4>1, <4>3
    <3>4. CASE ~ f > 0 /\ g > 0
      <4>1. EndOfField(text, s) = g - 1  BY <3>1, <3>2, <3>4 DEF EndOfField, EndAt
      <4>2. g \in s..n  BY <1>1, <3>2, <3>4 DEF FirstAt
      <4>3. g - 1 \in Nat /\ g - 1 <= n /\ s <= (g - 1) + 1  BY <2>2, <4>2
      <4> QED  BY <4>1, <4>3
    <3>5. CASE ~ f > 0 /\ ~ g > 0
      <4>1. EndOfField(text, s) = n  BY <1>1, <3>1, <3>2, <3>5 DEF EndOfField
      <4> QED  BY <2>2, <4>1
    <3> QED  BY <3>3, <3>4, <3>5
  <2>4. GetField(text, t) = SubSeq(text, s, e)
    <3>1. GetField(text, t) = SubSeq(text, at + 3, EndOfField(text, at + 3))
      BY <1>2, <1>3, <1>5, GetFieldIs
    <3> QED  BY <2>2, <2>3, <3>1, Zenon
  <2>5. e <= Len(text)  BY <1>1, <2>3
  <2>6. SubSeq(text, s, e) \in Seq(Byte)  BY <2>2, <2>3, <2>5, SubParts
  <2> QED  BY <2>4, <2>6
<1> QED  BY <1>4, <1>5

\* A value that a separator does not end.
NoSeparator(value) == \A j \in 1..Len(value) : value[j] # SOH /\ value[j] # BAR

\* None of the first k values has one, and none of the first k tags ends like this.
AllPlain(fields, k) == \A i \in 1..k : NoSeparator(fields[i].value)
\* None of the first k tags ends like this one.
AllOther(fields, k, t) == \A i \in 1..k : OtherTag(fields[i].tag, t)

\* The tag does not stand at one of the first places.
NotBefore(text, base, t) == \A i \in 1..base : ~ TagAt(text, i, t)

\* One of the first k values has the tag in it.
InsideEarlier(fields, k, t) == \E i \in 1..k : HasTag(fields[i].value, t)

\* The h-th field, with the tag t, is to be found behind the base.
Readable(text, base, fields, off, k, h, t) ==
    /\ text \in Seq(Byte) /\ base \in Nat \ {0} /\ k \in Nat /\ h = k + 1
    /\ Laid(text, base, fields, off, h) /\ AllGood(fields, h) /\ AllPlain(fields, h)
    /\ t \in 11..99 /\ fields[h].tag = t /\ AllOther(fields, k, t)
    /\ text[base] = SOH /\ NotBefore(text, base, t)

\* What get_field gives of a field that was built: nothing when an earlier value
\* holds its tag, and the value otherwise.
LEMMA ReadsField ==
    ASSUME NEW text, NEW base, NEW fields, NEW off, NEW k, NEW h, NEW t,
           Readable(text, base, fields, off, k, h, t)
    PROVE  GetField(text, t) = IF InsideEarlier(fields, k, t) THEN <<>> ELSE fields[h].value
<1> USE DEF Readable
<1> SUFFICES ASSUME text \in Seq(Byte), base \in Nat \ {0}, k \in Nat, t \in 11..99,
                    Laid(text, base, fields, off, k + 1), AllGood(fields, k + 1),
                    AllPlain(fields, k + 1), fields[k + 1].tag = t, AllOther(fields, k, t),
                    text[base] = SOH, NotBefore(text, base, t)
             PROVE  GetField(text, t) = IF InsideEarlier(fields, k, t) THEN <<>>
                                        ELSE fields[k + 1].value
  OBVIOUS
<1> HIDE DEF Readable
<1>0. t \in 10..99  OBVIOUS
<1>10. /\ \A i \in 1..k + 1 : NoSeparator(fields[i].value)
       /\ \A i \in 1..k : OtherTag(fields[i].tag, t)
       /\ \A i \in 1..base : ~ TagAt(text, i, t)
  BY DEF AllPlain, AllOther, NotBefore
<1>1. PICK n \in Nat : n = Len(text)  OBVIOUS
<1>2. PICK at \in Nat : FirstTag(at, text, 1, t)
  <2>1. 1 \in Nat \ {0} /\ Len(text) \in Nat  OBVIOUS
  <2>2. FirstTag(Find(Prefix(t), text, 1), text, 1, t)  BY <1>0, <2>1, FindTag
  <2> QED  BY <2>2 DEF FirstTag
<1>3. /\ at = 0 <=> \A i \in 1..n - 2 : ~ TagAt(text, i, t)
      /\ at # 0 => /\ at \in 1..n - 2 /\ TagAt(text, at, t)
                   /\ \A i \in 1..at - 1 : ~ TagAt(text, i, t)
  BY <1>1, <1>2 DEF FirstTag
<1>4. GetField(text, t) = IF at = 0 \/ ~ BeginsField(text, at) THEN <<>>
                          ELSE SubSeq(text, at + 3, EndOfField(text, at + 3))
  <2>1. Len(text) \in Nat  OBVIOUS
  <2> QED  BY <1>0, <1>2, <2>1, GetFieldIs
<1>5. \A i \in 0..k + 1 : base <= off[i] /\ off[i] <= off[k + 1]
  <2>1. k + 1 \in Nat  OBVIOUS
  <2> QED  BY <2>1, LaidGrows
<1>6. PICK b \in Nat, e \in Nat :
        b = off[k] /\ e = off[k + 1] /\ base <= b /\ b <= e /\ e <= n
  <2>1. k \in 0..k + 1 /\ k + 1 \in 0..k + 1  OBVIOUS
  <2>2. off[k] \in Nat /\ off[k + 1] \in Nat /\ off[k + 1] <= Len(text)  BY <2>1 DEF Laid
  <2> QED  BY <1>1, <1>5, <2>1, <2>2
<1>7. Laid(text, base, fields, off, k) /\ AllGood(fields, k)
  <2>1. \A i \in 1..k : i \in 1..k + 1  OBVIOUS
  <2>2. \A i \in 0..k : i \in 0..k + 1  OBVIOUS
  <2>3. off[k] <= Len(text)  BY <1>1, <1>6
  <2>4. /\ off[0] = base /\ (\A i \in 0..k : off[i] \in Nat)
        /\ \A i \in 1..k : off[i] = off[i - 1] + Len(Piece(fields[i]))
    BY <2>1, <2>2 DEF Laid
  <2>5. \A i \in 1..k : \A j \in 1..Len(Piece(fields[i])) :
          text[off[i - 1] + j] = Piece(fields[i])[j]
    BY <2>1 DEF Laid
  <2>6. AllGood(fields, k)  BY <2>1 DEF AllGood
  <2> QED  BY <2>3, <2>4, <2>5, <2>6 DEF Laid
<1>8. ASSUME InsideEarlier(fields, k, t) PROVE GetField(text, t) = <<>>
  <2>1. PICK q \in 1..k : HasTag(fields[q].value, t)  BY <1>8 DEF InsideEarlier
  <2>2. PICK x \in Nat : base < x /\ x + 2 <= off[k] /\ TagAt(text, x, t)
    BY <1>0, <1>7, <2>1, ValueInLaid
  <2>3. x \in 1..n - 2 /\ x <= b  BY <1>6, <2>2
  <2>4. at # 0  BY <1>3, <2>2, <2>3
  <2>5. at <= x
    <3>1. x \notin 1..at - 1  BY <1>3, <2>2, <2>4
    <3> QED  BY <2>3, <3>1
  <2>6. base < at /\ at <= off[k]
    <3>1. at \notin 1..base  BY <1>3, <1>10, <2>4
    <3> QED  BY <1>6, <2>3, <2>4, <2>5, <3>1
  <2>11. TagAt(text, at, t)  BY <1>3, <2>4
  <2>7. PICK p \in 1..k : HeldAt(text[at - 1], fields, p, t)
    BY <1>0, <1>7, <1>10, <2>6, <2>11, TagInLaid
  <2>8. PICK w \in 1..Len(fields[p].value) - 2 :
             text[at - 1] = IF w = 1 THEN EQ ELSE fields[p].value[w - 1]
    BY <2>7 DEF HeldAt
  <2>9. text[at - 1] # SOH /\ text[at - 1] # BAR
    <3>1. CASE w = 1  BY <2>8, <3>1 DEF EQ, SOH, BAR
    <3>2. CASE w # 1
      <4>1. p \in 1..k + 1  OBVIOUS
      <4>2. PICK v \in Nat : v = Len(fields[p].value)  
        <5>1. fields[p].value \in Seq(Byte)  BY <4>1 DEF AllGood, GoodField
        <5> QED  BY <5>1
      <4>3. w - 1 \in 1..v  BY <3>2, <4>2
      <4>4. NoSeparator(fields[p].value)  BY <1>10, <4>1
      <4>5. text[at - 1] = fields[p].value[w - 1]  BY <2>8, <3>2
      <4> QED  BY <4>2, <4>3, <4>4, <4>5 DEF NoSeparator
    <3> QED  BY <3>1, <3>2
  <2>10. ~ BeginsField(text, at)
    <3>1. at # 1  BY <2>6
    <3> QED  BY <2>9, <3>1 DEF BeginsField
  <2> QED  BY <1>4, <2>10
<1>9. ASSUME ~ InsideEarlier(fields, k, t) PROVE GetField(text, t) = fields[k + 1].value
  <2>1. k + 1 \in 1..k + 1 /\ (k + 1) - 1 = k /\ k + 1 \in Nat  OBVIOUS
  <2>2. PICK d, v : PieceAt(text, off[(k + 1) - 1], Piece(fields[k + 1]),
                            fields[k + 1].tag, fields[k + 1].value, d, v)
    BY <2>1, LaidPiece
  <2>3. PICK p, value : p = Piece(fields[k + 1]) /\ value = fields[k + 1].value  OBVIOUS
  <2>4. PieceAt(text, b, p, t, value, d, v)  BY <1>6, <2>1, <2>2, <2>3, Zenon
  <2>5. /\ value \in Seq(Byte) /\ PieceParts(p, t, value, d, v)
        /\ \A j \in 1..Len(p) : text[b + j] = p[j]
    BY <2>4, Zenon DEF PieceAt
  <2>6. /\ d \in {2, 3} /\ v \in Nat /\ v = Len(value) /\ Len(p) = d + v + 2
        /\ p[d + 1] = EQ /\ (\A i \in 1..v : p[d + 1 + i] = value[i]) /\ p[d + v + 2] = SOH
        /\ p[d - 1] = 48 + ((t \div 10) % 10) /\ p[d] = 48 + (t % 10)
    BY <2>5, Zenon DEF PieceParts
  <2>7. d = 2
    <3>1. Len(Prefix(t)) = 3  BY <1>0, PrefixOfTwo
    <3>2. p \in Seq(Byte)  BY <2>5 DEF PieceParts
    <3>3. PICK x \in Seq(Byte) : x = Prefix(t) /\ Len(x) = 3
      <4>1. t \in Nat  OBVIOUS
      <4> QED  BY <3>1, <4>1, PrefixParts
    <3>4. PICK s \in Seq(Byte) : s = <<SOH>> /\ Len(s) = 1
      <4>1. <<SOH>> \in Seq(Byte)  BY DEF SOH, Byte
      <4> QED  BY <4>1
    <3>5. PICK y \in Seq(Byte) : y = x \o value /\ Len(y) = 3 + v
      <4>1. x \o value \in Seq(Byte) /\ Len(x \o value) = Len(x) + Len(value)
        BY <2>5, ConcatParts
      <4> QED  BY <2>6, <3>3, <4>1
    <3>6. Len(y \o s) = (3 + v) + 1
      <4>1. Len(y \o s) = Len(y) + Len(s)  BY ConcatParts
      <4> QED  BY <3>4, <3>5, <4>1
    <3>7. p = y \o s  BY <2>3, <3>3, <3>4, <3>5 DEF Piece
    <3> QED  BY <2>6, <3>6, <3>7
  <2>8. Len(p) = v + 4 /\ p[3] = EQ /\ (\A i \in 1..v : p[3 + i] = value[i]) /\ p[v + 4] = SOH
    BY <2>6, <2>7
  <2>9. e = b + (v + 4)
    <3>0. \A i \in 1..k + 1 : off[i] = off[i - 1] + Len(Piece(fields[i]))  BY DEF Laid
    <3>1. off[k + 1] = off[(k + 1) - 1] + Len(Piece(fields[k + 1]))  BY <2>1, <3>0, Zenon
    <3>2. e = b + Len(p)  BY <1>6, <2>1, <2>3, <3>1, Zenon
    <3>3. PICK c \in Nat : c = v + 4 /\ c = Len(p)  BY <2>6, <2>8
    <3> QED  BY <3>2, <3>3
  <2>10. p[1] = 48 + (t \div 10) /\ p[2] = 48 + (t % 10)
    <3>1. (t \div 10) % 10 = t \div 10  OBVIOUS
    <3>2. 2 - 1 = 1  OBVIOUS
    <3> QED  BY <2>6, <2>7, <3>1, <3>2
  <2>11. TagAt(text, b + 1, t)
    <3>1. 1 \in 1..Len(p) /\ 2 \in 1..Len(p) /\ 3 \in 1..Len(p)  BY <2>6, <2>8
    <3>2. text[b + 1] = p[1] /\ text[b + 2] = p[2] /\ text[b + 3] = p[3]  BY <2>5, <3>1
    <3>3. b + 1 + 1 = b + 2 /\ b + 1 + 2 = b + 3  OBVIOUS
    <3> QED  BY <2>8, <2>10, <3>2, <3>3 DEF TagAt
  <2>12. ASSUME NEW x \in 1..b PROVE ~ TagAt(text, x, t)
    <3>1. CASE x <= base  BY <1>10, <3>1
    <3>2. CASE ~ x <= base
      <4> SUFFICES ASSUME TagAt(text, x, t) PROVE FALSE
        OBVIOUS
      <4>1. x \in Nat /\ base < x /\ x <= off[k]  BY <1>6, <3>2
      <4>2. PICK q \in 1..k : HeldAt(text[x - 1], fields, q, t)
        BY <1>0, <1>7, <1>10, <4>1, TagInLaid
      <4> QED  BY <1>9, <4>2 DEF InsideEarlier, HasTag, HeldAt
    <3> QED  BY <3>1, <3>2
  <2>13. at = b + 1
    <3>0. e <= n /\ v \in Nat  BY <1>6, <2>6
    <3>1. b + 1 \in 1..n - 2  BY <2>9, <3>0
    <3>2. at # 0  BY <1>3, <2>11, <3>1
    <3>3. at \notin 1..b  BY <1>3, <2>12, <3>2
    <3>4. b + 1 \notin 1..at - 1  BY <1>3, <2>11, <3>2
    <3> QED  BY <3>1, <3>2, <3>3, <3>4
  <2>14. BeginsField(text, at)
    <3>1. text[b] = SOH
      <4>1. CASE k = 0
        <5>1. off[0] = base  BY DEF Laid
        <5> QED  BY <1>6, <4>1, <5>1
      <4>2. CASE k # 0
        <5>1. k \in 1..k /\ k \in Nat  BY <4>2
        <5>2. PICK dd, vv : PieceAt(text, off[k - 1], Piece(fields[k]),
                                    fields[k].tag, fields[k].value, dd, vv)
          BY <1>7, <5>1, LaidPiece
        <5>0. \A i \in 1..k : off[i] = off[i - 1] + Len(Piece(fields[i]))  BY <1>7 DEF Laid
        <5>3. off[k] = off[k - 1] + Len(Piece(fields[k]))  BY <5>0, <5>1, Zenon
        <5>4. PICK oo, pp, tt, va : /\ oo = off[k - 1] /\ pp = Piece(fields[k])
                                    /\ tt = fields[k].tag /\ va = fields[k].value
          OBVIOUS
        <5>5. PieceAt(text, oo, pp, tt, va, dd, vv) /\ b = oo + Len(pp)
          BY <1>6, <5>2, <5>3, <5>4, Zenon
        <5>6. oo \in Nat /\ PieceParts(pp, tt, va, dd, vv)
              /\ \A j \in 1..Len(pp) : text[oo + j] = pp[j]
          BY <5>5, Zenon DEF PieceAt
        <5>7. dd \in {2, 3} /\ vv \in Nat /\ Len(pp) = dd + vv + 2 /\ pp[dd + vv + 2] = SOH
          BY <5>6, Zenon DEF PieceParts
        <5>8. PICK c \in Nat : c = dd + vv + 2 /\ c >= 1  BY <5>7
        <5>9. c \in 1..c /\ Len(pp) = c /\ pp[c] = SOH  BY <5>7, <5>8
        <5> QED  BY <5>5, <5>6, <5>9
      <4> QED  BY <4>1, <4>2
    <3>2. at - 1 = b  BY <2>13
    <3> QED  BY <3>1, <3>2 DEF BeginsField
  <2>15. PICK s \in Nat \ {0} : s = at + 3 /\ s = b + 4  BY <2>13
  <2>16. \A i \in 1..v : text[b + (3 + i)] = value[i]
    <3> TAKE i \in 1..v
    <3>1. 3 + i \in 1..Len(p)  BY <2>6, <2>8
    <3> QED  BY <2>5, <2>8, <3>1
  <2>17. Find(<<SOH>>, text, s) = e
    <3>1. PICK f \in Nat : f = Find(<<SOH>>, text, s) /\ FirstAt(f, SOH, text, s)
      <4>0. Len(text) \in Nat  OBVIOUS
      <4>1. FirstAt(Find(<<SOH>>, text, s), SOH, text, s)  BY <4>0, FindByte
      <4> QED  BY <4>1 DEF FirstAt
    <3>2. /\ f = 0 <=> \A i \in s..n : text[i] # SOH
          /\ f # 0 => /\ f \in s..n /\ text[f] = SOH
                      /\ \A i \in s..f - 1 : text[i] # SOH
      BY <1>1, <3>1 DEF FirstAt
    <3>3. text[e] = SOH
      <4>1. PICK c \in Nat : c = v + 4 /\ c = Len(p) /\ p[c] = SOH /\ c >= 1  BY <2>6, <2>8
      <4>2. c \in 1..Len(p) /\ e = b + c  BY <2>9, <4>1
      <4>3. \A j \in 1..Len(p) : text[b + j] = p[j]  BY <2>5
      <4>4. text[b + c] = p[c]  BY <4>2, <4>3
      <4>5. e = b + c /\ p[c] = SOH  BY <4>1, <4>2
      <4>6. text[e] = p[c]  BY <4>4, <4>5, Zenon
      <4> QED  BY <4>5, <4>6, Zenon
    <3>4. e \in s..n
      <4>1. e <= n /\ v \in Nat /\ s = b + 4  BY <1>6, <2>6, <2>15
      <4> QED  BY <2>9, <4>1
    <3>5. f # 0  BY <3>2, <3>3, <3>4
    <3>6. ~ e \in s..f - 1  BY <3>2, <3>3, <3>5
    <3>7. ~ f \in s..e - 1
      <4> SUFFICES ASSUME f \in s..e - 1 PROVE FALSE  OBVIOUS
      <4>1. PICK i \in 1..v : f = b + (3 + i)
        <5>1. f - b - 3 \in 1..v /\ f = b + (3 + (f - b - 3))  BY <2>6, <2>9, <2>15
        <5> QED  BY <5>1
      <4>2. NoSeparator(value)  BY <1>10, <2>1, <2>3
      <4>3. value[i] # SOH  BY <2>6, <4>2 DEF NoSeparator
      <4> QED  BY <2>16, <3>2, <3>5, <4>1, <4>3
    <3>8. f = e  BY <3>2, <3>4, <3>5, <3>6, <3>7
    <3> QED  BY <3>1, <3>8
  <2>18. PICK z \in Nat : z = EndOfField(text, s) /\ z = e - 1
    <3>0. v \in Nat  BY <2>6
    <3>1. e > 0 /\ e - 1 \in Nat  BY <2>9, <3>0
    <3> QED  BY <2>17, <3>1 DEF EndOfField, EndAt
  <2>19. GetField(text, t) = SubSeq(text, s, z)
    <3>1. at # 0  BY <2>13
    <3>2. GetField(text, t) = SubSeq(text, at + 3, EndOfField(text, at + 3))
      BY <1>4, <2>14, <3>1, Zenon
    <3>3. s = at + 3 /\ z = EndOfField(text, s)  BY <2>15, <2>18
    <3>4. s = at + 3  BY <3>3
    <3>5. GetField(text, t) = SubSeq(text, s, EndOfField(text, s))  BY <3>2, <3>4
    <3>6. z = EndOfField(text, s)  BY <2>18
    <3> QED  BY <3>5, <3>6, Zenon
  <2>20. SubSeq(text, s, z) = value
    <3>0. e <= n /\ v \in Nat /\ s = b + 4 /\ z = e - 1  BY <1>6, <2>6, <2>15, <2>18
    <3>1. z <= Len(text) /\ s + v = z + 1  BY <1>1, <2>9, <3>0
    <3>2. PICK l \in Nat : l = v  BY <2>6
    <3>7. s + l = z + 1  BY <3>1, <3>2
    <3>3. PICK y \in Seq(Byte) : /\ y = SubSeq(text, s, z) /\ Len(y) = v
                                 /\ \A i \in 1..v : y[i] = text[s + i - 1]
      <4>1. /\ SubSeq(text, s, z) \in Seq(Byte) /\ Len(SubSeq(text, s, z)) = l
            /\ \A i \in 1..l : SubSeq(text, s, z)[i] = text[s + i - 1]
        BY <3>1, <3>7, MiddleParts
      <4> QED  BY <3>2, <4>1, Zenon
    <3>4. \A i \in 1..v : s + i - 1 = b + (3 + i)  BY <2>15
    <3>5. \A i \in 1..v : y[i] = value[i]  BY <2>16, <3>3, <3>4
    <3>6. y = value  BY <2>5, <2>6, <3>3, <3>5, SeqEqual
    <3> QED  BY <3>3, <3>6
  <2> QED  BY <2>3, <2>19, <2>20
<1> QED  BY <1>8, <1>9

-----------------------------------------------------------------------------
(***************************************************************************)
(* The body of a message.                                                  *)
(***************************************************************************)
\* The bytes of a piece that has no '|' in its value.
LEMMA PieceHasNoBar ==
    ASSUME NEW p, NEW tag, NEW value, NEW d, NEW v, PieceParts(p, tag, value, d, v),
           NoSeparator(value)
    PROVE  \A j \in 1..Len(p) : p[j] # BAR
<1>1. /\ d \in {2, 3} /\ v \in Nat /\ v = Len(value) /\ Len(p) = d + v + 2
      /\ (\A i \in 1..d : p[i] \in Digits) /\ p[d + 1] = EQ
      /\ (\A i \in 1..v : p[d + 1 + i] = value[i]) /\ p[d + v + 2] = SOH
  BY DEF PieceParts
<1>2. \A x \in Digits : x # BAR  BY DEF Digits, BAR
<1>3. EQ # BAR /\ SOH # BAR  BY DEF EQ, SOH, BAR
<1>4. \A i \in 1..v : value[i] # BAR  BY <1>1 DEF NoSeparator
<1>5. SUFFICES ASSUME NEW j \in 1..Len(p) PROVE p[j] # BAR
  OBVIOUS
<1>6. j \in 1..d \/ j = d + 1 \/ j = d + v + 2 \/ j \in d + 2..d + v + 1  BY <1>1
<1>7. CASE j \in 1..d  BY <1>1, <1>2, <1>7
<1>8. CASE j = d + 1  BY <1>1, <1>3, <1>8
<1>9. CASE j = d + v + 2  BY <1>1, <1>3, <1>9
<1>10. CASE j \in d + 2..d + v + 1
  <2>1. PICK i \in 1..v : j = d + 1 + i
    <3>1. j - d - 1 \in 1..v /\ j = d + 1 + (j - d - 1)  BY <1>1, <1>10
    <3> QED  BY <3>1
  <2> QED  BY <1>1, <1>4, <2>1
<1> QED  BY <1>6, <1>7, <1>8, <1>9, <1>10

\* The body of a message is its fields, one behind the other.
LEMMA BodyIs ==
    ASSUME NEW n \in Nat \ {0}, NEW fields, DOMAIN fields = 1..n, AllGood(fields, n)
    PROVE  \E off : /\ Laid(Body(fields), 0, fields, off, n)
                    /\ Body(fields) \in Seq(Byte) /\ off[n] = Len(Body(fields))
<1> DEFINE seqs == [i \in 1..n |-> Piece(fields[i])]
<1>1. \A i \in 1..n : Piece(fields[i]) \in Seq(Byte) /\ fields[i].tag \notin {8, 9, 10}
  <2> TAKE i \in 1..n
  <2>1. GoodField(fields[i])  BY DEF AllGood
  <2>2. Piece(fields[i]) \in Seq(Byte)  BY <2>1, PieceIs
  <2>3. fields[i].tag \in 11..999  BY <2>1 DEF GoodField
  <2>4. \A x \in 11..999 : x \notin {8, 9, 10}  OBVIOUS
  <2> QED  BY <2>2, <2>3, <2>4
<1>2. seqs \in [1..n -> Seq(Byte)]  BY <1>1
<1>3. Body(fields) = FlattenSeq(seqs)
  <2>1. [i \in DOMAIN fields |->
           IF fields[i].tag \in {8, 9, 10} THEN <<>>
           ELSE Prefix(fields[i].tag) \o fields[i].value \o <<SOH>>] = seqs
    BY <1>1, Zenon DEF Piece
  <2> HIDE DEF seqs
  <2> QED  BY <2>1, Zenon DEF Body
<1>4. \A i \in 1..n : seqs[i] = Piece(fields[i])  OBVIOUS
<1> HIDE DEF seqs
<1>5. PICK f : Joins(f, seqs, n) /\ FlattenSeq(seqs) = f[n]  BY <1>2, FlattenIs
<1>6. PICK off : Flat(f[n], seqs, n, off)
  <2>1. n \in Nat  OBVIOUS
  <2> QED  BY <1>2, <1>5, <2>1, JoinedIsFlat
<1>7. f[n] \in Seq(Byte)
  <2>1. n \in 0..n  OBVIOUS
  <2> QED  BY <1>5, <2>1 DEF Joins
<1>8. /\ off \in [0..n -> Nat] /\ off[0] = 0 /\ Len(f[n]) = off[n]
      /\ \A i \in 1..n : off[i] = off[i - 1] + Len(seqs[i])
      /\ \A i \in 1..n : \A j \in 1..Len(seqs[i]) : f[n][off[i - 1] + j] = seqs[i][j]
  BY <1>6 DEF Flat
<1>9. \A i \in 0..n : off[i] \in Nat  BY <1>8
<1>10. \A i \in 1..n : off[i] = off[i - 1] + Len(Piece(fields[i]))  BY <1>4, <1>8
<1>11. \A i \in 1..n : \A j \in 1..Len(Piece(fields[i])) :
         f[n][off[i - 1] + j] = Piece(fields[i])[j]
  BY <1>4, <1>8, ZenonT(40)
<1>12. n \in 0..n  OBVIOUS
<1>13. off[n] <= Len(f[n])  BY <1>8, <1>9, <1>12
<1>14. Laid(f[n], 0, fields, off, n)  BY <1>8, <1>9, <1>10, <1>11, <1>13 DEF Laid
<1> QED  BY <1>3, <1>5, <1>7, <1>8, <1>14

\* It ends with a SOH, and is not too short for a message.
LEMMA BodyEnds ==
    ASSUME NEW n \in Nat \ {0}, NEW fields, DOMAIN fields = 1..n, AllGood(fields, n)
    PROVE  /\ Body(fields) \in Seq(Byte) /\ Len(Body(fields)) >= 4
           /\ Body(fields)[Len(Body(fields))] = SOH
<1>1. PICK off : /\ Laid(Body(fields), 0, fields, off, n)
                 /\ Body(fields) \in Seq(Byte) /\ off[n] = Len(Body(fields))
  BY BodyIs
<1>2. n \in 1..n /\ n \in Nat /\ n - 1 \in 0..n  OBVIOUS
<1>3. PICK d, v : PieceAt(Body(fields), off[n - 1], Piece(fields[n]), fields[n].tag,
                          fields[n].value, d, v)
  BY <1>1, <1>2, LaidPiece
<1>4. PICK o, p, tag, value, body : /\ o = off[n - 1] /\ p = Piece(fields[n])
                                    /\ tag = fields[n].tag /\ value = fields[n].value
                                    /\ body = Body(fields)
  OBVIOUS
<1>5. \A i \in 1..n : off[i] = off[i - 1] + Len(Piece(fields[i]))  BY <1>1 DEF Laid
<1>6. off[n] = off[n - 1] + Len(Piece(fields[n]))  BY <1>2, <1>5, Zenon
<1>7. PieceAt(body, o, p, tag, value, d, v) /\ Len(body) = o + Len(p)
  BY <1>1, <1>3, <1>4, <1>6, Zenon
<1>8. /\ o \in Nat /\ PieceParts(p, tag, value, d, v)
      /\ \A j \in 1..Len(p) : body[o + j] = p[j]
  BY <1>7, Zenon DEF PieceAt
<1>9. d \in {2, 3} /\ v \in Nat /\ Len(p) = d + v + 2 /\ p[d + v + 2] = SOH
  BY <1>8, Zenon DEF PieceParts
<1>10. PICK c \in Nat : c = d + v + 2 /\ c >= 4  BY <1>9
<1>11. Len(p) = c /\ p[c] = SOH /\ c \in 1..c /\ o \in Nat  BY <1>8, <1>9, <1>10
<1>12. body[o + c] = SOH /\ Len(body) = o + c  BY <1>7, <1>8, <1>11
<1>13. Len(body) >= 4 /\ body[Len(body)] = SOH  BY <1>10, <1>11, <1>12
<1> QED  BY <1>1, <1>4, <1>13

\* The tags in the body are those in the values.
LEMMA TagsOfBody ==
    ASSUME NEW n \in Nat \ {0}, NEW fields, DOMAIN fields = 1..n, AllGood(fields, n),
           NEW t \in 10..99, \A i \in 1..n : OtherTag(fields[i].tag, t)
    PROVE  HasTag(Body(fields), t) <=> InsideEarlier(fields, n, t)
<1>1. PICK off : /\ Laid(Body(fields), 0, fields, off, n)
                 /\ Body(fields) \in Seq(Byte) /\ off[n] = Len(Body(fields))
  BY BodyIs
<1>2. n \in Nat /\ 0 \in Nat  OBVIOUS
<1>3. PICK l \in Nat : l = Len(Body(fields)) /\ l = off[n]  BY <1>1
<1>4. ASSUME HasTag(Body(fields), t) PROVE InsideEarlier(fields, n, t)
  <2>1. PICK x \in 1..l - 2 : TagAt(Body(fields), x, t)  BY <1>3, <1>4 DEF HasTag
  <2>2. x \in Nat /\ 0 < x /\ x <= off[n]  BY <1>3
  <2>3. PICK q \in 1..n : HeldAt(Body(fields)[x - 1], fields, q, t)
    BY <1>1, <1>2, <2>1, <2>2, TagInLaid
  <2> QED  BY <2>3 DEF HeldAt, InsideEarlier, HasTag
<1>5. ASSUME InsideEarlier(fields, n, t) PROVE HasTag(Body(fields), t)
  <2>1. PICK q \in 1..n : HasTag(fields[q].value, t)  BY <1>5 DEF InsideEarlier
  <2>2. PICK x \in Nat : 0 < x /\ x + 2 <= off[n] /\ TagAt(Body(fields), x, t)
    BY <1>1, <1>2, <2>1, ValueInLaid
  <2>3. x \in 1..l - 2  BY <1>3, <2>2
  <2> QED  BY <1>3, <2>2, <2>3 DEF HasTag
<1> QED  BY <1>4, <1>5

\* The '|' of a piece are those of its value.
LEMMA BarsOfPiece ==
    ASSUME NEW n \in Nat, NEW text, NEW fields, NEW off, Laid(text, 0, fields, off, n),
           AllGood(fields, n), NEW i \in 1..n
    PROVE  /\ BarsUpTo(text, off[0]) = 0
           /\ BarsUpTo(text, off[i]) = BarsUpTo(text, off[i - 1])
                                         + BarsUpTo(fields[i].value, Len(fields[i].value))
<1>0. BarsUpTo(text, off[0]) = 0
  <2>1. off[0] = 0  BY DEF Laid
  <2>2. BarsUpTo(text, 0) = 0  BY BarsStep
  <2> QED  BY <2>1, <2>2
<1>1. 0 \in Nat  OBVIOUS
<1>2. PICK d, v : PieceAt(text, off[i - 1], Piece(fields[i]), fields[i].tag, fields[i].value, d, v)
  BY <1>1, LaidPiece
<1>3. PICK o, p, tag, value : /\ o = off[i - 1] /\ p = Piece(fields[i])
                              /\ tag = fields[i].tag /\ value = fields[i].value
  OBVIOUS
<1>4. \A j \in 1..n : off[j] = off[j - 1] + Len(Piece(fields[j]))  BY DEF Laid
<1>5. off[i] = off[i - 1] + Len(Piece(fields[i]))  BY <1>4, Zenon
<1>6. PieceAt(text, o, p, tag, value, d, v) /\ off[i] = o + Len(p)
  BY <1>2, <1>3, <1>5, Zenon
<1>7. /\ o \in Nat /\ PieceParts(p, tag, value, d, v)
      /\ \A j \in 1..Len(p) : text[o + j] = p[j]
  BY <1>6, Zenon DEF PieceAt
<1>8. /\ d \in {2, 3} /\ v \in Nat /\ v = Len(value) /\ Len(p) = d + v + 2
      /\ (\A j \in 1..d : p[j] \in Digits) /\ p[d + 1] = EQ
      /\ (\A j \in 1..v : p[d + 1 + j] = value[j]) /\ p[d + v + 2] = SOH
  BY <1>7, Zenon DEF PieceParts
<1>9. d \in Nat /\ v \in Nat /\ d + 1 \in Nat /\ d + 1 + v \in Nat  BY <1>8
<1>10. BarsUpTo(p, d + 1) = 0
  <2>1. \A x \in Digits : x # BAR  BY DEF Digits, BAR
  <2>2. \A j \in 1..d : p[j] # BAR  BY <1>8, <2>1
  <2>3. p[d + 1] # BAR  BY <1>8 DEF EQ, BAR
  <2>4. \A j \in 1..d + 1 : j \in 1..d \/ j = d + 1  BY <1>9
  <2>5. \A j \in 1..d + 1 : p[j] # BAR  BY <2>2, <2>3, <2>4
  <2> QED  BY <1>9, <2>5, NoBars
<1>11. PICK c \in Nat : c = BarsUpTo(value, v)  BY <1>9, BarsStep
<1>12. BarsUpTo(p, d + 1 + v) = c
  <2>1. BarsUpTo(p, d + 1 + v) = BarsUpTo(p, d + 1) + BarsUpTo(value, v)
    <3>1. PICK e \in Nat : e = d + 1  BY <1>9
    <3>2. \A j \in 1..v : p[e + j] = value[j]  BY <1>8, <3>1
    <3>3. BarsUpTo(p, e + v) = BarsUpTo(p, e) + BarsUpTo(value, v)
      BY <1>9, <3>2, BarsAfter
    <3> QED  BY <3>1, <3>3, Zenon
  <2> QED  BY <1>10, <1>11, <2>1
<1>13. BarsUpTo(p, d + v + 2) = c
  <2>1. d + v + 2 = (d + 1 + v) + 1  BY <1>9
  <2>2. p[(d + 1 + v) + 1] # BAR
    <3>1. p[d + v + 2] # BAR  BY <1>8 DEF SOH, BAR
    <3> QED  BY <2>1, <3>1
  <2>3. PICK e \in Nat : e = d + 1 + v  BY <1>9
  <2>4. p[e + 1] # BAR => BarsUpTo(p, e + 1) = BarsUpTo(p, e)  BY BarsStep
  <2>5. BarsUpTo(p, e + 1) = c  BY <1>12, <2>2, <2>3, <2>4
  <2>6. d + v + 2 = e + 1  BY <2>1, <2>3
  <2> QED  BY <2>5, <2>6
<1>14. PICK l \in Nat : l = d + v + 2 /\ l = Len(p)  BY <1>8
<1>15. BarsUpTo(text, o + l) = BarsUpTo(text, o) + BarsUpTo(p, l)
  <2>1. \A j \in 1..l : text[o + j] = p[j]  BY <1>7, <1>14
  <2>2. o \in Nat  BY <1>7
  <2> QED  BY <2>1, <2>2, BarsAfter
<1>16. BarsUpTo(p, l) = BarsUpTo(value, Len(value))  BY <1>8, <1>11, <1>13, <1>14, Zenon
<1>17. BarsUpTo(text, off[i]) = BarsUpTo(text, o) + BarsUpTo(value, Len(value))
  BY <1>6, <1>14, <1>15, <1>16, Zenon
<1> QED  BY <1>0, <1>3, <1>17, Zenon

-----------------------------------------------------------------------------
(***************************************************************************)
(* Reading a field of a message that was built.                            *)
(***************************************************************************)
\* No '|' in the head of a message.
LEMMA HeadNoBar ==
    ASSUME NEW n \in Nat, NEW m, Opens(m, n)
    PROVE  \A i \in 1..Ending(n) : m[i] # BAR
<1>1. PICK e \in Nat, t \in Nat : e = Ending(n) /\ t = Trailer(n) /\ t = e + n + 1 /\ e >= 14
  BY FrameIs
<1>2. /\ \A i \in 1..10 : m[i] = BeginString(4)[i]
      /\ m[11] = 57 /\ m[12] = EQ /\ m[e] = SOH
  BY <1>1 DEF Opens
<1>3. \A i \in 1..12 : m[i] # BAR  BY <1>2, BegunIs DEF BAR, EQ
<1>4. m[e] # BAR  BY <1>2 DEF SOH, BAR
<1>5. \A i \in 13..e - 1 : m[i] \in Digits  BY <1>1, HeadBytes
<1>6. \A d \in Digits : d # BAR  BY DEF Digits, BAR
<1>7. \A i \in 13..e - 1 : m[i] # BAR  BY <1>5, <1>6
<1>8. \A i \in 1..e : i \in 1..12 \/ i = e \/ i \in 13..e - 1  OBVIOUS
<1>9. \A i \in 1..e : m[i] # BAR  BY <1>3, <1>4, <1>7, <1>8
<1> QED  BY <1>1, <1>9

\* A text with the same head opens the same way.
LEMMA OpensKept ==
    ASSUME NEW n \in Nat, NEW m, Opens(m, n), NEW u \in Seq(Byte), Len(u) >= Ending(n),
           \A i \in 1..Ending(n) : u[i] = m[i]
    PROVE  Opens(u, n)
<1>1. PICK l \in Nat : l = Len(Decimal[n]) /\ l >= 1 /\ Ending(n) = 13 + l
  BY ShapeNumbers
<1>2. /\ \A i \in 1..10 : m[i] = BeginString(4)[i]
      /\ m[11] = 57 /\ m[12] = EQ
      /\ \A i \in 1..l : m[12 + i] = Decimal[n][i]
      /\ m[13 + l] = SOH
  BY <1>1 DEF Opens
<1>3. \A i \in 1..13 + l : u[i] = m[i]  BY <1>1
<1>4. \A i \in 1..10 : u[i] = BeginString(4)[i]
  <2> TAKE i \in 1..10
  <2>1. i \in 1..13 + l  BY <1>1
  <2> QED  BY <1>2, <1>3, <2>1
<1>5. u[11] = 57 /\ u[12] = EQ /\ u[13 + l] = SOH  BY <1>2, <1>3
<1>6. \A i \in 1..l : u[12 + i] = Decimal[n][i]
  <2> TAKE i \in 1..l
  <2>1. 12 + i \in 1..13 + l  OBVIOUS
  <2> QED  BY <1>2, <1>3, <2>1
<1> QED  BY <1>1, <1>4, <1>5, <1>6 DEF Opens

\* The text begins with the message, but for its '|'.
Carries(u, m) ==
    Len(u) >= Len(m) /\ \A i \in 1..Len(m) : m[i] # BAR => u[i] = m[i]

\* In such a text the fields without '|' are where they were in the message.
LEMMA BuiltLaid ==
    ASSUME NEW n \in Nat \ {0}, NEW fields, DOMAIN fields = 1..n, AllGood(fields, n),
           NEW k \in 0..n, AllPlain(fields, k),
           NEW u \in Seq(Byte), Carries(u, BuildMessage(fields))
    PROVE  /\ Opens(u, Len(Body(fields)))
           /\ \E off : Laid(u, Ending(Len(Body(fields))), fields, off, k)
<1>1. PICK body \in Seq(Byte), l \in Nat : body = Body(fields) /\ l = Len(body)
  <2>1. Body(fields) \in Seq(Byte)  BY BodyIs
  <2> QED  BY <2>1
<1>2. PICK at : Laid(body, 0, fields, at, n) /\ at[n] = l
  BY <1>1, BodyIs
<1>3. PICK m : m = BuildMessage(fields)  OBVIOUS
<1>4. PICK e \in Nat, t \in Nat : e = Ending(l) /\ t = Trailer(l) /\ t = e + l + 1 /\ e >= 14
  BY FrameIs
<1>5. Shape(m, l) /\ \A i \in 1..l : m[Ending(l) + i] = body[i]
  BY <1>1, <1>3, BuiltShape
<1>6. Opens(m, l) /\ Len(m) = t + 6 /\ \A i \in 1..l : m[e + i] = body[i]
  BY <1>4, <1>5 DEF Shape
<1>7. Len(u) >= t + 6 /\ \A i \in 1..t + 6 : m[i] # BAR => u[i] = m[i]
  BY <1>3, <1>6 DEF Carries
<1>8. Opens(u, l)
  <2>1. \A i \in 1..Ending(l) : m[i] # BAR  BY <1>6, HeadNoBar
  <2>2. \A i \in 1..e : i \in 1..t + 6  BY <1>4
  <2>3. \A i \in 1..Ending(l) : u[i] = m[i]  BY <1>4, <1>7, <2>1, <2>2
  <2>4. Len(u) >= Ending(l)
    <3>1. PICK c \in Nat : c = Len(u)  OBVIOUS
    <3>2. c >= t + 6 /\ t = e + l + 1  BY <1>4, <1>7, <3>1
    <3> QED  BY <1>4, <3>1, <3>2
  <2> QED  BY <1>6, <2>3, <2>4, OpensKept
<1>9. /\ at[0] = 0 /\ (\A i \in 0..n : at[i] \in Nat)
      /\ \A i \in 1..n : at[i] = at[i - 1] + Len(Piece(fields[i]))
      /\ \A i \in 1..n : \A j \in 1..Len(Piece(fields[i])) :
           body[at[i - 1] + j] = Piece(fields[i])[j]
  BY <1>2 DEF Laid
<1>10. \A i \in 0..n : at[i] <= l
  <2>1. 0 \in Nat /\ n \in Nat  OBVIOUS
  <2>2. \A i \in 0..n : 0 <= at[i] /\ at[i] <= at[n]  BY <1>2, <2>1, LaidGrows
  <2> QED  BY <1>2, <2>2
<1> DEFINE off == [i \in 0..k |-> e + at[i]]
<1>11. \A i \in 0..k : i \in 0..n /\ off[i] = e + at[i] /\ off[i] \in Nat
  BY <1>9
<1>12. \A i \in 1..k : i \in 1..n /\ i \in 0..k /\ i - 1 \in 0..k  OBVIOUS
<1> HIDE DEF off
<1>13. off[0] = e
  <2>1. 0 \in 0..k  OBVIOUS
  <2>2. off[0] = e + 0  BY <1>9, <1>11, <2>1
  <2> QED  BY <2>2
<1>14. off[k] <= Len(u)
  <2>1. k \in 0..k  OBVIOUS
  <2>2. PICK a \in Nat : a = at[k] /\ a <= l /\ off[k] = e + a  BY <1>9, <1>10, <1>11, <2>1
  <2>3. PICK c \in Nat : c = Len(u) /\ c >= t + 6  BY <1>7
  <2>4. t = e + l + 1  BY <1>4
  <2> QED  BY <2>2, <2>3, <2>4
<1>15. \A i \in 1..k : off[i] = off[i - 1] + Len(Piece(fields[i]))
  <2> TAKE i \in 1..k
  <2>1. GoodField(fields[i])  BY <1>12 DEF AllGood
  <2>2. PICK z \in Nat : z = Len(Piece(fields[i]))
    <3>1. Piece(fields[i]) \in Seq(Byte)  BY <2>1, PieceIs
    <3> QED  BY <3>1
  <2>3. PICK a \in Nat : a = at[i - 1] /\ off[i - 1] = e + a  BY <1>9, <1>11, <1>12
  <2>4. at[i] = a + z  BY <1>9, <1>12, <2>2, <2>3
  <2>5. off[i] = e + at[i]  BY <1>11, <1>12
  <2>6. off[i] = (e + a) + z  BY <2>4, <2>5
  <2> QED  BY <2>2, <2>3, <2>6
<1>16. \A i \in 1..k : \A j \in 1..Len(Piece(fields[i])) :
         u[off[i - 1] + j] = Piece(fields[i])[j]
  <2> TAKE i \in 1..k
  <2> TAKE j \in 1..Len(Piece(fields[i]))
  <2>1. GoodField(fields[i])  BY <1>12 DEF AllGood
  <2>2. PICK z \in Nat : z = Len(Piece(fields[i]))
    <3>1. Piece(fields[i]) \in Seq(Byte)  BY <2>1, PieceIs
    <3> QED  BY <3>1
  <2>3. PICK a \in Nat : a = at[i - 1] /\ off[i - 1] = e + a  BY <1>9, <1>11, <1>12
  <2>4. at[i] = a + z /\ at[i] <= l  BY <1>9, <1>10, <1>11, <1>12, <2>2, <2>3
  <2>5. a + j \in 1..l  BY <2>2, <2>4
  <2>6. body[a + j] = Piece(fields[i])[j]  BY <1>9, <1>12, <2>3
  <2>7. Piece(fields[i])[j] # BAR
    <3>1. PICK d, v : PieceParts(Piece(fields[i]), fields[i].tag, fields[i].value, d, v)
      BY <2>1, PieceIs
    <3>2. NoSeparator(fields[i].value)  BY DEF AllPlain
    <3> QED  BY <3>1, <3>2, PieceHasNoBar
  <2>8. PICK x \in Nat : x = a + j /\ x \in 1..l  BY <2>5
  <2>9. m[e + x] = body[x] /\ body[x] # BAR  BY <1>6, <2>6, <2>7, <2>8
  <2>10. e + x \in 1..t + 6
    <3>1. t = e + l + 1  BY <1>4
    <3> QED  BY <2>8, <3>1
  <2>11. u[e + x] = body[x]  BY <1>7, <2>9, <2>10
  <2>12. (e + a) + j = e + x  BY <2>2, <2>8
  <2> QED  BY <2>3, <2>6, <2>8, <2>11, <2>12
<1>17. \A i \in 0..k : off[i] \in Nat  BY <1>11
<1>18. Laid(u, e, fields, off, k)  BY <1>13, <1>14, <1>15, <1>16, <1>17 DEF Laid
<1> QED  BY <1>1, <1>4, <1>8, <1>18

\* The h-th field of n can be read of a text that carries what was built.
CanRead(u, fields, n, k, h, t) ==
    /\ n \in Nat \ {0} /\ DOMAIN fields = 1..n /\ AllGood(fields, n)
    /\ k \in Nat /\ h \in 1..n /\ h = k + 1 /\ AllPlain(fields, h)
    /\ t \in 11..99 /\ fields[h].tag = t /\ AllOther(fields, k, t)
    /\ u \in Seq(Byte) /\ Carries(u, BuildMessage(fields))

\* What get_field reads, as a relation of what was built.
Reads(u, fields, k, h, t) ==
    GetField(u, t) = IF InsideEarlier(fields, k, t) THEN <<>> ELSE fields[h].value

\* What get_field reads of a message that build_message made, whether or not to_soh
\* changed it, and whatever follows it in the same read.
THEOREM BuiltIsRead ==
    ASSUME NEW u, NEW fields, NEW n, NEW k, NEW h, NEW t, CanRead(u, fields, n, k, h, t)
    PROVE  Reads(u, fields, k, h, t)
<1> SUFFICES ASSUME n \in Nat \ {0}, DOMAIN fields = 1..n, AllGood(fields, n),
                    k \in Nat, h \in 1..n, h = k + 1, AllPlain(fields, h),
                    t \in 11..99, fields[h].tag = t, AllOther(fields, k, t),
                    u \in Seq(Byte), Carries(u, BuildMessage(fields))
             PROVE  GetField(u, t) = IF InsideEarlier(fields, k, t) THEN <<>> ELSE fields[h].value
  BY DEF CanRead, Reads
<1>1. PICK l \in Nat : l = Len(Body(fields))
  <2>1. Body(fields) \in Seq(Byte)  BY BodyIs
  <2> QED  BY <2>1
<1>2. PICK e \in Nat \ {0} : e = Ending(l)
  <2>1. \E x \in Nat, y \in Nat : x = Ending(l) /\ y = Trailer(l) /\ y = x + l + 1 /\ x >= 14
    BY FrameIs
  <2> QED  BY <2>1
<1>3. Opens(u, l) /\ \E off : Laid(u, e, fields, off, h)
  <2>1. h \in 0..n  OBVIOUS
  <2> QED  BY <1>1, <1>2, <2>1, BuiltLaid
<1>4. PICK off : Laid(u, e, fields, off, h)  BY <1>3
<1>5. AllGood(fields, h) /\ h \in Nat
  <2>1. \A i \in 1..h : i \in 1..n  OBVIOUS
  <2> QED  BY <2>1 DEF AllGood
<1>6. u[e] = SOH  BY <1>2, <1>3 DEF Opens
<1>7. NotBefore(u, e, t)
  <2>1. t \in 10..99  OBVIOUS
  <2>2. \A i \in 1..Ending(l) : ~ TagAt(u, i, t)  BY <1>3, <2>1, HeadHasNoTag
  <2> QED  BY <1>2, <2>2 DEF NotBefore
<1>8. Readable(u, e, fields, off, k, h, t)  BY <1>4, <1>5, <1>6, <1>7 DEF Readable
<1> QED  BY <1>8, ReadsField

-----------------------------------------------------------------------------
(***************************************************************************)
(* What begins with an accepted message is accepted.                       *)
(***************************************************************************)
\* A message that is accepted as it was built; no tag begins with '0'.
Sound(m, n) ==
    /\ n \in Nat /\ n >= 5
    /\ Shape(m, n) /\ NoBar(m) /\ Entire(m, n)
    /\ m[Ending(n) + 1] \notin {48, EQ}

\* Its parts, with the sum that its checksum is of.
Parts(m, n, e, t, c) ==
    /\ e \in Nat /\ e = Ending(n) /\ e >= 14
    /\ t \in Nat /\ t = Trailer(n) /\ t = e + n + 1
    /\ m \in Seq(Byte) /\ Len(m) = t + 6 /\ Opens(m, n)
    /\ TagAt(m, t, 10) /\ \A i \in 1..t - 1 : ~ TagAt(m, i, 10)
    /\ SubSeq(m, 1, t - 1) \in Seq(Byte) /\ c = ByteSum(SubSeq(m, 1, t - 1)) /\ c \in Byte
    /\ \A j \in 1..3 : m[t + 2 + j] = Three(c)[j] /\ m[t + 2 + j] \in Digits
    /\ m[t + 6] = SOH

\* Its parts, by name.
LEMMA SoundParts ==
    ASSUME NEW n, NEW m, Sound(m, n)
    PROVE  \E e, t, c : Parts(m, n, e, t, c)
<1>1. n \in Nat /\ Shape(m, n) /\ Entire(m, n)  BY DEF Sound
<1>2. PICK e \in Nat, t \in Nat : e = Ending(n) /\ t = Trailer(n) /\ t = e + n + 1 /\ e >= 14
  BY <1>1, FrameIs
<1>3. Opens(m, n) /\ Len(m) = t + 6 /\ m[t + 6] = SOH  BY <1>1, <1>2 DEF Shape
<1>4. m \in Seq(Byte)  BY <1>3 DEF Opens
<1>5. /\ TagAt(m, t, 10) /\ \A i \in e + 1..t - 1 : ~ TagAt(m, i, 10)
      /\ \A j \in 1..3 : m[t + 2 + j] = Three(ByteSum(SubSeq(m, 1, t - 1)))[j]
  BY <1>1, <1>2 DEF Entire
<1>6. \A i \in 1..t - 1 : ~ TagAt(m, i, 10)
  <2>1. \A i \in 1..e : ~ TagAt(m, i, 10)
    <3>1. 10 \in 10..99  OBVIOUS
    <3> QED  BY <1>1, <1>2, <1>3, <3>1, HeadHasNoTag
  <2>2. \A i \in 1..t - 1 : i \in 1..e \/ i \in e + 1..t - 1  BY <1>2
  <2> QED  BY <1>5, <2>1, <2>2
<1>7. SubSeq(m, 1, t - 1) \in Seq(Byte)
  <2>1. t - 1 \in Nat /\ t - 1 <= Len(m)  BY <1>1, <1>2, <1>3
  <2> QED  BY <1>4, <2>1, FrontParts
<1>8. PICK c \in Byte : c = ByteSum(SubSeq(m, 1, t - 1))  BY <1>7, SumIs
<1>9. \A j \in 1..3 : m[t + 2 + j] = Three(c)[j] /\ m[t + 2 + j] \in Digits
  BY <1>5, <1>8, ThreeIs
<1> QED  BY <1>2, <1>3, <1>4, <1>5, <1>6, <1>7, <1>8, <1>9 DEF Parts

\* Two texts that begin alike, cut at the same place.
LEMMA SameFront ==
    ASSUME NEW s \in Seq(Byte), NEW u \in Seq(Byte), NEW k \in Nat, k <= Len(s), k <= Len(u),
           \A i \in 1..k : s[i] = u[i]
    PROVE  SubSeq(s, 1, k) = SubSeq(u, 1, k)
<1>1. /\ SubSeq(s, 1, k) \in Seq(Byte) /\ Len(SubSeq(s, 1, k)) = k
      /\ \A i \in 1..k : SubSeq(s, 1, k)[i] = s[i]
  BY FrontParts
<1>2. /\ SubSeq(u, 1, k) \in Seq(Byte) /\ Len(SubSeq(u, 1, k)) = k
      /\ \A i \in 1..k : SubSeq(u, 1, k)[i] = u[i]
  BY FrontParts
<1>3. PICK a, b : a = SubSeq(s, 1, k) /\ b = SubSeq(u, 1, k)  OBVIOUS
<1>4. a \in Seq(Byte) /\ Len(a) = k /\ \A i \in 1..k : a[i] = s[i]  BY <1>1, <1>3, Zenon
<1>5. b \in Seq(Byte) /\ Len(b) = k /\ \A i \in 1..k : b[i] = u[i]  BY <1>2, <1>3, Zenon
<1>6. Len(a) = Len(b) /\ \A i \in 1..Len(a) : a[i] = b[i]  BY <1>4, <1>5
<1>7. a = b  BY <1>4, <1>5, <1>6, SeqEqual
<1> QED  BY <1>3, <1>7

\* All of the message, but for its last byte.
AllBut(u, m) == Len(u) >= Len(m) - 1 /\ \A i \in 1..Len(m) - 1 : u[i] = m[i]

\* What begins with such a message is accepted, whatever its last byte.
LEMMA WholeAccepted ==
    ASSUME NEW n, NEW m, Sound(m, n), NEW u \in Seq(Byte), NoBar(u), AllBut(u, m)
    PROVE  ValidateMessage(u)
<1>1. n \in Nat /\ n >= 5  BY DEF Sound
<1>2. PICK e, t, c : Parts(m, n, e, t, c)  BY SoundParts
<1>3. e \in Nat /\ e >= 14 /\ t \in Nat /\ t = e + n + 1  BY <1>2 DEF Parts
<1>11. e = Ending(n) /\ t = Trailer(n)  BY <1>2 DEF Parts
<1>12. m \in Seq(Byte) /\ Len(m) = t + 6  BY <1>2 DEF Parts
<1>13. Opens(m, n) /\ c = ByteSum(SubSeq(m, 1, t - 1))  BY <1>2 DEF Parts
<1>14. TagAt(m, t, 10) /\ \A i \in 1..t - 1 : ~ TagAt(m, i, 10)  BY <1>2 DEF Parts
<1>15. \A j \in 1..3 : m[t + 2 + j] = Three(c)[j]  BY <1>2, Zenon DEF Parts
<1>4. PICK k \in Nat : k = Len(u) /\ k >= t + 5
  <2>1. Len(m) - 1 = t + 5  BY <1>3, <1>12
  <2> QED  BY <2>1 DEF AllBut
<1>5. \A i \in 1..t + 5 : u[i] = m[i]
  <2>1. Len(m) - 1 = t + 5  BY <1>3, <1>12
  <2>2. \A i \in 1..Len(m) - 1 : u[i] = m[i]  BY Zenon DEF AllBut
  <2> QED  BY <2>1, <2>2, Zenon
<1>6. Opens(u, n)
  <2>1. k >= e /\ \A i \in 1..e : i \in 1..t + 5  BY <1>1, <1>3, <1>4
  <2>2. Len(u) >= Ending(n) /\ \A i \in 1..Ending(n) : u[i] = m[i]
    BY <1>4, <1>5, <1>11, <2>1, Zenon
  <2> QED  BY <1>1, <1>13, <2>2, OpensKept
<1>7. \A i \in 1..t : TagAt(u, i, 10) <=> TagAt(m, i, 10)
  <2> TAKE i \in 1..t
  <2>1. i \in 1..t + 5 /\ i + 1 \in 1..t + 5 /\ i + 2 \in 1..t + 5  BY <1>3
  <2>2. u[i] = m[i] /\ u[i + 1] = m[i + 1] /\ u[i + 2] = m[i + 2]  BY <1>5, <2>1
  <2> QED  BY <2>2, Zenon DEF TagAt
<1>8. SubSeq(u, 1, t - 1) = SubSeq(m, 1, t - 1)
  <2>1. t - 1 \in Nat /\ t - 1 <= t + 6 /\ t - 1 <= k /\ \A i \in 1..t - 1 : i \in 1..t + 5
    BY <1>1, <1>3, <1>4
  <2>2. t - 1 <= Len(m) /\ t - 1 <= Len(u) /\ \A i \in 1..t - 1 : u[i] = m[i]
    BY <1>4, <1>5, <1>12, <2>1, Zenon
  <2>3. PICK h \in Nat : h = t - 1  BY <2>1
  <2>4. h <= Len(m) /\ h <= Len(u) /\ \A i \in 1..h : u[i] = m[i]  BY <2>2, <2>3, Zenon
  <2>5. SubSeq(u, 1, h) = SubSeq(m, 1, h)  BY <1>12, <2>4, SameFront
  <2> QED  BY <2>3, <2>5, Zenon
<1>9. Entire(u, n)
  <2>1. Len(u) >= Trailer(n) + 5  BY <1>4, <1>11, Zenon
  <2>2. TagAt(u, Trailer(n), 10)
    <3>1. t \in 1..t  BY <1>1, <1>3
    <3> QED  BY <1>7, <1>11, <1>14, <3>1, Zenon
  <2>3. \A i \in Ending(n) + 1..Trailer(n) - 1 : ~ TagAt(u, i, 10)
    <3>1. \A i \in e + 1..t - 1 : i \in 1..t - 1 /\ i \in 1..t  BY <1>3
    <3>2. \A i \in e + 1..t - 1 : ~ TagAt(u, i, 10)  BY <1>7, <1>14, <3>1, Zenon
    <3> QED  BY <1>11, <3>2, Zenon
  <2>4. \A j \in 1..3 : u[t + 2 + j] = Three(ByteSum(SubSeq(u, 1, t - 1)))[j]
    <3> TAKE j \in 1..3
    <3>1. t + 2 + j \in 1..t + 5  BY <1>3
    <3>2. u[t + 2 + j] = m[t + 2 + j]  BY <1>5, <3>1, Zenon
    <3>3. m[t + 2 + j] = Three(c)[j]  BY <1>15, Zenon
    <3>4. ByteSum(SubSeq(u, 1, t - 1)) = c  BY <1>8, <1>13, Zenon
    <3> QED  BY <3>2, <3>3, <3>4, Zenon
  <2> QED  BY <1>11, <2>1, <2>2, <2>3, <2>4, Zenon DEF Entire
<1>10. Len(u) >= 25  BY <1>1, <1>3, <1>4
<1> QED  BY <1>1, <1>6, <1>9, <1>10, HeadEntire

-----------------------------------------------------------------------------
(***************************************************************************)
(* A message that was cut is refused.                                      *)
(***************************************************************************)
\* "8=FIX.4.4" and "9=" begin the text.
Headed(text) ==
    /\ text \in Seq(Byte) /\ Len(text) >= 12
    /\ \A i \in 1..10 : text[i] = BeginString(4)[i]
    /\ text[11] = 57 /\ text[12] = EQ

\* The first "9=" is that one.
LEMMA NineFirst ==
    ASSUME NEW text, Headed(text)
    PROVE  Find(Prefix(9), text, 1) = 11
<1>1. PICK k \in Nat : k = Len(text) /\ k >= 12  BY DEF Headed
<1>2. PICK at, I : at = Find(Prefix(9), text, 1) /\ I = Found(Prefix(9), text, 1)  OBVIOUS
<1>3. \A i : i \in I <=> i \in 1..k - 1 /\ text[i] = 57 /\ text[i + 1] = 61
  <2>1. Len(text) = k /\ Len(text) \in Nat /\ 1 \in Nat  BY <1>1
  <2>2. \A i : i \in Found(Prefix(9), text, 1) <=> i \in 1..Len(text) - 1 /\ text[i] = 57 /\ text[i + 1] = 61
    BY <2>1, FoundNine
  <2> QED  BY <1>2, <2>1, <2>2, Zenon
<1>4. 11 \in I
  <2>1. 11 \in 1..k - 1 /\ 11 + 1 = 12  BY <1>1
  <2>2. text[11] = 57 /\ text[12] = 61  BY DEF Headed, EQ
  <2> QED  BY <1>3, <2>1, <2>2, ZenonT(40)
<1>5. \A i \in I : 11 <= i
  <2> SUFFICES ASSUME NEW i \in I, i < 11 PROVE FALSE
    BY <1>3
  <2>1. i \in 1..10 /\ text[i] = 57  BY <1>3
  <2>2. BeginString(4)[i] = 57
    <3>1. \A j \in 1..10 : text[j] = BeginString(4)[j]  BY Zenon DEF Headed
    <3> QED  BY <2>1, <3>1, Zenon
  <2>3. i = 1 \/ i = 2 \/ i = 3 \/ i = 4 \/ i = 5 \/ i = 6 \/ i = 7 \/ i = 8 \/ i = 9 \/ i = 10
    BY <2>1
  <2>4. \A b \in {56, 61, 70, 73, 88, 46, 52, 1} : b # 57  OBVIOUS
  <2>5. BeginString(4)[i] \in {56, 61, 70, 73, 88, 46, 52, 1}
    <3>1. PICK w : w = BeginString(4)  OBVIOUS
    <3>2. /\ w[1] = 56 /\ w[2] = 61 /\ w[3] = 70 /\ w[4] = 73 /\ w[5] = 88 /\ w[6] = 46
          /\ w[7] = 52 /\ w[8] = 46 /\ w[9] = 52 /\ w[10] = 1
      BY <3>1, BegunIs, Zenon
    <3>3. w[i] \in {56, 61, 70, 73, 88, 46, 52, 1}  BY <2>3, <3>2
    <3> QED  BY <3>1, <3>3, Zenon
  <2> QED  BY <2>2, <2>4, <2>5, Zenon
<1>6. at \in Nat /\ (at = 0 <=> I = {}) /\ (at # 0 => at \in I /\ \A i \in I : at <= i)
  <2>1. Len(Prefix(9)) \in Nat
    <3>1. 9 \in Nat  OBVIOUS
    <3> QED  BY <3>1, PrefixParts
  <2>2. Len(text) \in Nat /\ 1 \in Nat \ {0}  BY <1>1
  <2> QED  BY <1>2, <2>1, <2>2, FindIs
<1> QED  BY <1>2, <1>4, <1>5, <1>6

\* Then the BodyLength is read from there to the next SOH.
LEMMA HeadedIs ==
    ASSUME NEW text, Headed(text), NoBar(text), NEW end, end = EndAt(SOH, text, 13)
    PROVE  /\ FirstAt(end + 1, SOH, text, 13) /\ end \in Int
           /\ ValidateMessage(text) <=> Accepts(text, 13, end, Find(Prefix(10), text, end + 2))
<1>1. text \in Seq(Byte) /\ Len(text) \in Nat
  <2>1. text \in Seq(Byte)  BY DEF Headed
  <2> QED  BY <2>1
<1>2. PICK f : f = Find(<<SOH>>, text, 13)  OBVIOUS
<1>3. FirstAt(f, SOH, text, 13)
  <2>1. 13 \in Nat \ {0}  OBVIOUS
  <2> QED  BY <1>1, <1>2, <2>1, FindByte
<1>4. end = f - 1  BY <1>2 DEF EndAt
<1>5. f \in Nat  BY <1>3 DEF FirstAt
<1>6. end \in Int /\ end + 1 = f  BY <1>4, <1>5
<1>7. PICK length : length = 13  OBVIOUS
<1>8. length = Find(Prefix(9), text, 1) + 2  BY <1>7, NineFirst
<1>9. end = EndAt(SOH, text, length)  BY <1>7, Zenon
<1>10. ValidateMessage(text) <=> Accepts(text, length, end, Find(Prefix(10), text, end + 2))
  BY <1>1, <1>8, <1>9, ValidateIs, Zenon
<1> QED  BY <1>3, <1>6, <1>7, <1>10, Zenon

\* Messages begin like this, and so does what has the same first bytes.
LEMMA HeadedKept ==
    ASSUME NEW n \in Nat, NEW m, Opens(m, n), NEW u \in Seq(Byte), Len(u) >= 12,
           \A i \in 1..12 : u[i] = m[i]
    PROVE  Headed(u)
<1>1. m[11] = 57 /\ m[12] = EQ /\ \A i \in 1..10 : m[i] = BeginString(4)[i]  BY Zenon DEF Opens
<1>2. 11 \in 1..12 /\ 12 \in 1..12 /\ \A i \in 1..10 : i \in 1..12  OBVIOUS
<1>3. u[11] = 57 /\ u[12] = EQ /\ \A i \in 1..10 : u[i] = BeginString(4)[i]  BY <1>1, <1>2, Zenon
<1> QED  BY <1>3, Zenon DEF Headed

\* A message that is cut, by more than its last byte, is refused.
LEMMA CutRefused ==
    ASSUME NEW n, NEW m, Sound(m, n), NEW k \in Nat, k <= Len(m) - 2,
           NEW u \in Seq(Byte), NoBar(u), Len(u) = k, \A i \in 1..k : u[i] = m[i]
    PROVE  ~ ValidateMessage(u)
<1>1. n \in Nat /\ n >= 5  BY DEF Sound
<1>2. PICK e, t, c : Parts(m, n, e, t, c)  BY SoundParts
<1>3. e \in Nat /\ e >= 14 /\ t \in Nat /\ t = e + n + 1  BY <1>2 DEF Parts
<1>4. e = Ending(n) /\ t = Trailer(n)  BY <1>2 DEF Parts
<1>5. Opens(m, n) /\ Len(m) = t + 6  BY <1>2 DEF Parts
<1>6. k < t + 5  BY <1>3, <1>5
<1>7. CASE k < 25
  <2>1. PICK length, end : length = Find(Prefix(9), u, 1) + 2 /\ end = EndAt(SOH, u, length)  OBVIOUS
  <2>2. ValidateMessage(u) <=> Accepts(u, length, end, Find(Prefix(10), u, end + 2))
    BY <2>1, ValidateIs
  <2>3. ~ Len(u) >= 25  BY <1>7
  <2> QED  BY <2>2, <2>3 DEF Accepts
<1>8. CASE k >= 25 /\ k >= e
  <2>1. \A i \in 1..e : i \in 1..k  BY <1>3, <1>8
  <2>2. Len(u) >= Ending(n) /\ \A i \in 1..Ending(n) : u[i] = m[i]  BY <1>4, <1>8, <2>1, Zenon
  <2>3. Opens(u, n)  BY <1>1, <1>5, <2>2, OpensKept
  <2>4. ~ Len(u) >= Trailer(n) + 5  BY <1>3, <1>4, <1>6
  <2>5. ~ Entire(u, n)  BY <2>4 DEF Entire
  <2>6. Len(u) >= 25  BY <1>8
  <2> QED  BY <1>1, <2>3, <2>5, <2>6, HeadEntire
<1>9. CASE k >= 25 /\ k < e
  <2>1. \A i \in 1..12 : i \in 1..k  BY <1>9
  <2>2. \A i \in 1..12 : u[i] = m[i]  BY <2>1, Zenon
  <2>3. Headed(u)
    <3>1. Len(u) >= 12  BY <1>9
    <3> QED  BY <1>1, <1>5, <2>2, <3>1, HeadedKept
  <2>4. PICK end : end = EndAt(SOH, u, 13)  OBVIOUS
  <2>5. FirstAt(end + 1, SOH, u, 13) /\ end \in Int
        /\ (ValidateMessage(u) <=> Accepts(u, 13, end, Find(Prefix(10), u, end + 2)))
    BY <2>3, <2>4, HeadedIs
  <2>6. \A i \in 13..Len(u) : u[i] # SOH
    <3> TAKE i \in 13..Len(u)
    <3>1. i \in 1..k /\ i \in 13..e - 1  BY <1>3, <1>9
    <3>2. m[i] \in Digits  BY <1>1, <1>4, <1>5, <3>1, HeadBytes
    <3>3. u[i] = m[i]  BY <3>1, Zenon
    <3> QED  BY <3>2, <3>3 DEF Digits, SOH
  <2>7. end + 1 = 0  BY <2>5, <2>6, Zenon DEF FirstAt
  <2>8. ~ end >= 0  BY <2>5, <2>7
  <2> QED  BY <2>5, <2>8, Zenon DEF Accepts
<1> QED  BY <1>3, <1>7, <1>8, <1>9

-----------------------------------------------------------------------------
(***************************************************************************)
(* One altered byte, in the body or in the trailer.                        *)
(***************************************************************************)
\* One byte of the message, and not the last, is another.
Altered(u, m, i) ==
    /\ u \in Seq(Byte) /\ NoBar(u) /\ Len(u) = Len(m)
    /\ i \in 1..Len(m) - 1 /\ u[i] # m[i]
    /\ \A j \in 1..Len(m) : j # i => u[j] = m[j]

\* Before the trailer, the sum is another.
LEMMA FrontDiffers ==
    ASSUME NEW n \in Nat, NEW m, NEW e, NEW t, NEW c, Parts(m, n, e, t, c),
           NEW u, NEW i, Altered(u, m, i), i < t
    PROVE  \E s \in Byte : s = ByteSum(SubSeq(u, 1, t - 1)) /\ s # c
<1>1. e \in Nat /\ e >= 14 /\ t \in Nat /\ t = e + n + 1  BY DEF Parts
<1>2. m \in Seq(Byte) /\ Len(m) = t + 6 /\ c = ByteSum(SubSeq(m, 1, t - 1))  BY DEF Parts
<1>3. u \in Seq(Byte) /\ Len(u) = t + 6 /\ i \in 1..t - 1 /\ u[i] # m[i]
  <2>1. u \in Seq(Byte) /\ Len(u) = Len(m) /\ i \in 1..Len(m) - 1 /\ u[i] # m[i]  BY Zenon DEF Altered
  <2> QED  BY <1>1, <1>2, <2>1
<1>4. \A j \in 1..t - 1 : j # i => u[j] = m[j]
  <2>1. \A j \in 1..Len(m) : j # i => u[j] = m[j]  BY Zenon DEF Altered
  <2>2. \A j \in 1..t - 1 : j \in 1..Len(m)  BY <1>1, <1>2
  <2> QED  BY <2>1, <2>2, Zenon
<1>5. PICK h \in Nat : h = t - 1 /\ h <= Len(m) /\ h <= Len(u)
  <2>1. t - 1 \in Nat  BY <1>1
  <2> QED  BY <1>1, <1>2, <1>3, <2>1
<1>6. /\ SubSeq(m, 1, h) \in Seq(Byte) /\ Len(SubSeq(m, 1, h)) = h
      /\ \A j \in 1..h : SubSeq(m, 1, h)[j] = m[j]
  BY <1>2, <1>5, FrontParts
<1>7. /\ SubSeq(u, 1, h) \in Seq(Byte) /\ Len(SubSeq(u, 1, h)) = h
      /\ \A j \in 1..h : SubSeq(u, 1, h)[j] = u[j]
  BY <1>3, <1>5, FrontParts
<1>8. PICK a, b : a = SubSeq(u, 1, h) /\ b = SubSeq(m, 1, h)  OBVIOUS
<1>9. a \in Seq(Byte) /\ Len(a) = h /\ \A j \in 1..h : a[j] = u[j]  BY <1>7, <1>8, Zenon
<1>10. b \in Seq(Byte) /\ Len(b) = h /\ \A j \in 1..h : b[j] = m[j]  BY <1>6, <1>8, Zenon
<1>11. i \in 1..Len(a) /\ a[i] # b[i]  BY <1>3, <1>5, <1>9, <1>10
<1>12. \A j \in 1..Len(a) : j # i => a[j] = b[j]  BY <1>4, <1>5, <1>9, <1>10
<1>13. ByteSum(a) # ByteSum(b)
  <2>1. Len(a) = Len(b)  BY <1>9, <1>10
  <2> QED  BY <1>9, <1>10, <1>11, <1>12, <2>1, SumDiffers
<1>14. ByteSum(a) \in Byte  BY <1>9, SumIs
<1>15. a = SubSeq(u, 1, t - 1) /\ ByteSum(b) = c  BY <1>2, <1>5, <1>8, Zenon
<1> QED  BY <1>13, <1>14, <1>15, Zenon

\* Two sums with the same three digits are the same.
LEMMA DigitsAgree ==
    ASSUME NEW s \in Byte, NEW c \in Byte, NEW d, NEW x,
           \A j \in 1..3 : d[x + j] = Three(s)[j], \A j \in 1..3 : d[x + j] = Three(c)[j]
    PROVE  s = c
<1>1. \A j \in 1..3 : Three(s)[j] = Three(c)[j]  BY Zenon
<1> QED  BY <1>1, ThreeIs

\* A byte behind the head that is altered is found out.
LEMMA AlteredLater ==
    ASSUME NEW n, NEW m, Sound(m, n), NEW u, NEW i, Altered(u, m, i), i > Ending(n)
    PROVE  ~ ValidateMessage(u)
<1>1. n \in Nat /\ n >= 5  BY DEF Sound
<1>2. PICK e, t, c : Parts(m, n, e, t, c)  BY SoundParts
<1>3. e \in Nat /\ e >= 14 /\ t \in Nat /\ t = e + n + 1  BY <1>2 DEF Parts
<1>4. e = Ending(n) /\ t = Trailer(n)  BY <1>2 DEF Parts
<1>5. Opens(m, n) /\ Len(m) = t + 6 /\ TagAt(m, t, 10)  BY <1>2 DEF Parts
<1>6. \A j \in 1..3 : m[t + 2 + j] = Three(c)[j]  BY <1>2, Zenon DEF Parts
<1>7. c \in Byte /\ c = ByteSum(SubSeq(m, 1, t - 1))  BY <1>2 DEF Parts
<1>8. u \in Seq(Byte) /\ NoBar(u) /\ Len(u) = t + 6  BY <1>5, Zenon DEF Altered
<1>9. i \in e + 1..t + 5
  <2>1. i \in 1..Len(m) - 1  BY Zenon DEF Altered
  <2>2. Len(m) = t + 6  BY <1>5
  <2> QED  BY <1>3, <1>4, <2>1, <2>2
<1>19. u[i] # m[i]  BY Zenon DEF Altered
<1>10. \A j \in 1..t + 6 : j # i => u[j] = m[j]  BY <1>5, Zenon DEF Altered
<1>11. Opens(u, n)
  <2>1. \A j \in 1..e : j \in 1..t + 6 /\ j # i  BY <1>3, <1>9
  <2>2. \A j \in 1..e : u[j] = m[j]  BY <1>10, <2>1, Zenon
  <2>3. Len(u) >= e  BY <1>1, <1>3, <1>8
  <2> QED  BY <1>1, <1>4, <1>5, <1>8, <2>2, <2>3, OpensKept
<1>12. ValidateMessage(u) <=> Entire(u, n)
  <2>1. Len(u) >= 25  BY <1>1, <1>3, <1>8
  <2> QED  BY <1>1, <1>8, <1>11, <2>1, HeadEntire
<1> SUFFICES ASSUME Entire(u, n) PROVE FALSE
  BY <1>12
<1>13. TagAt(u, t, 10) /\ \A j \in 1..3 : u[t + 2 + j] = Three(ByteSum(SubSeq(u, 1, t - 1)))[j]
  BY <1>4, Zenon DEF Entire
<1>14. CASE i < t
  <2>1. PICK s \in Byte : s = ByteSum(SubSeq(u, 1, t - 1)) /\ s # c
    BY <1>1, <1>2, <1>14, FrontDiffers
  <2>2. \A j \in 1..3 : u[t + 2 + j] = m[t + 2 + j]
    <3>1. \A j \in 1..3 : t + 2 + j \in 1..t + 6 /\ t + 2 + j # i  BY <1>3, <1>9, <1>14
    <3> QED  BY <1>10, <3>1, Zenon
  <2>3. \A j \in 1..3 : u[t + 2 + j] = Three(s)[j]  BY <1>13, <2>1, Zenon
  <2>4. \A j \in 1..3 : u[t + 2 + j] = Three(c)[j]  BY <1>6, <2>2, Zenon
  <2>5. s = c  BY ONLY <1>7, <2>3, <2>4, s \in Byte, DigitsAgree
  <2> QED  BY <2>1, <2>5
<1>15. CASE i \in t..t + 2
  <2>1. i = t \/ i = t + 1 \/ i = t + 2  BY <1>15, <1>3
  <2>2. u[t] = m[t] /\ u[t + 1] = m[t + 1] /\ u[t + 2] = m[t + 2]  BY <1>5, <1>13 DEF TagAt
  <2> QED  BY <1>19, <2>1, <2>2, Zenon
<1>16. CASE i \in t + 3..t + 5
  <2>1. PICK j \in 1..3 : i = t + 2 + j
    <3>1. i - t - 2 \in 1..3 /\ i = t + 2 + (i - t - 2)  BY <1>3, <1>9, <1>16
    <3> QED  BY <3>1
  <2>2. SubSeq(u, 1, t - 1) = SubSeq(m, 1, t - 1)
    <3>1. PICK h \in Nat : h = t - 1
      <4>1. t - 1 \in Nat  BY <1>1, <1>3
      <4> QED  BY <4>1
    <3>2. h <= Len(m) /\ h <= Len(u) /\ \A x \in 1..h : x \in 1..t + 6 /\ x # i
      BY <1>3, <1>5, <1>8, <1>16, <3>1, SMTT(40)
    <3>3. \A x \in 1..h : u[x] = m[x]  BY <1>10, <3>2, Zenon
    <3>4. m \in Seq(Byte)  BY <1>5 DEF Opens
    <3>5. SubSeq(u, 1, h) = SubSeq(m, 1, h)  BY <1>8, <3>2, <3>3, <3>4, SameFront
    <3> QED  BY <3>1, <3>5, Zenon
  <2>3. u[t + 2 + j] = Three(c)[j]  BY <1>7, <1>13, <2>2, Zenon
  <2>4. m[t + 2 + j] = Three(c)[j]  BY <1>6, Zenon
  <2> QED  BY <1>19, <2>1, <2>3, <2>4, Zenon
<1>17. i < t \/ i \in t..t + 2 \/ i \in t + 3..t + 5  BY <1>3, <1>9
<1> QED  BY <1>14, <1>15, <1>16, <1>17

-----------------------------------------------------------------------------
(***************************************************************************)
(* One altered byte in the head: which numbers and tags there can be.      *)
(***************************************************************************)
\* Texts that begin with the same digits are read the same so far.
LEMMA ReadAlike ==
    ASSUME NEW a \in Seq(Byte), NEW b \in Seq(Byte), NEW f, NEW g, ReadsAs(a, f), ReadsAs(b, g),
           NEW k \in Nat, k <= Len(a), k <= Len(b), \A i \in 1..k : a[i] = b[i]
    PROVE  f[k] = g[k]
<1>1. f[0] = 0 /\ \A i \in 1..k : f[i] = 10 * f[i - 1] + a[i] - 48
  <2>1. f[0] = 0 /\ \A i \in 1..Len(a) : f[i] = 10 * f[i - 1] + a[i] - 48  BY DEF ReadsAs
  <2>2. \A i \in 1..k : i \in 1..Len(a)
    <3>1. Len(a) \in Nat  OBVIOUS
    <3> QED  BY <3>1
  <2> QED  BY <2>1, <2>2
<1>2. g[0] = 0 /\ \A i \in 1..k : g[i] = 10 * g[i - 1] + b[i] - 48
  <2>1. g[0] = 0 /\ \A i \in 1..Len(b) : g[i] = 10 * g[i - 1] + b[i] - 48  BY DEF ReadsAs
  <2>2. \A i \in 1..k : i \in 1..Len(b)
    <3>1. Len(b) \in Nat  OBVIOUS
    <3> QED  BY <3>1
  <2> QED  BY <2>1, <2>2
<1> DEFINE Bad == {i \in 0..k : f[i] # g[i]}
<1>3. Bad = {}
  <2> SUFFICES ASSUME Bad # {} PROVE FALSE
    OBVIOUS
  <2>1. PICK h \in Bad : \A i \in Bad : h <= i
    <3>1. Bad \subseteq Nat  OBVIOUS
    <3> HIDE DEF Bad
    <3> QED  BY <3>1, LeastIn
  <2>2. h \in 0..k /\ f[h] # g[h] /\ h # 0  BY <1>1, <1>2
  <2>3. h \in 1..k /\ h - 1 \in 0..k /\ h - 1 \notin Bad
    <3> HIDE DEF Bad
    <3> QED  BY <2>1, <2>2
  <2>4. f[h - 1] = g[h - 1]  BY <2>3
  <2> QED  BY <1>1, <1>2, <2>2, <2>3, <2>4
<1> QED  BY <1>3

\* The first digits of a number, not all of them, are less.
LEMMA FirstDigitsLess ==
    ASSUME NEW n \in Nat \ {0}, NEW h, ReadsAs(Decimal[n], h), NEW p \in Nat, p < Len(Decimal[n])
    PROVE  h[p] # n
<1>1. PICK d \in Seq(Byte), l \in Nat : d = Decimal[n] /\ l = Len(d) /\ \A i \in 1..l : d[i] \in Digits
  <2>1. Decimal[n] \in Seq(Byte) /\ Decimal[n] \in Seq(Digits)  BY DecimalParts
  <2>2. \A i \in 1..Len(Decimal[n]) : Decimal[n][i] \in Digits  BY <2>1, ElementOfSeq
  <2> QED  BY <2>1, <2>2
<1>2. ReadsAs(d, h) /\ p < l  BY <1>1
<1>3. h[l] = n
  <2>1. Begins(Decimal[n], d)  BY <1>1 DEF Begins
  <2> QED  BY <1>1, <1>2, <2>1, DecimalReads
<1>4. \A j \in 0..l : h[j] \in Nat /\ h[j] <= h[l]
  <2>1. l <= Len(d)  BY <1>1
  <2> QED  BY <1>1, <1>2, <2>1, NumberGrows
<1>5. p + 1 \in 1..l /\ p \in 0..l /\ p + 1 \in 0..l /\ p + 1 - 1 = p  BY <1>2
<1>6. PICK c \in 48..57 : c = d[p + 1]  BY <1>1, <1>5 DEF Digits
<1>7. h[p + 1] = 10 * h[p] + c - 48
  <2>1. \A i \in 1..l : h[i] = 10 * h[i - 1] + d[i] - 48  BY <1>1, <1>2, Zenon DEF ReadsAs
  <2> QED  BY <1>5, <1>6, <2>1
<1>8. PICK x \in Nat, y \in Nat : x = h[p] /\ y = h[p + 1] /\ y <= n  BY <1>3, <1>4, <1>5
<1>9. y = 10 * x + c - 48  BY <1>7, <1>8
<1>10. x # n
  <2>1. y <= n  BY <1>8
  <2> QED  BY ONLY <1>9, <2>1, n \in Nat \ {0}, x \in Nat, y \in Nat, c \in 48..57
<1> QED  BY <1>8, <1>10

\* If a byte of the head is another, a "10=" before the trailer takes that byte for its '='.
LEMMA TenOnly ==
    ASSUME NEW n, NEW m, Sound(m, n), NEW e, NEW t, NEW c, Parts(m, n, e, t, c),
           NEW u, NEW i, Altered(u, m, i), i <= e, NEW x \in 1..t - 1, TagAt(u, x, 10)
    PROVE  i = x + 2 /\ x >= 13 /\ u[i] = EQ
<1>1. n \in Nat /\ n >= 5  BY DEF Sound
<1>2. e \in Nat /\ e >= 14 /\ t \in Nat /\ t = e + n + 1  BY DEF Parts
<1>3. e = Ending(n) /\ Opens(m, n)  BY DEF Parts
<1>4. Len(m) = t + 6  BY DEF Parts
<1>5. i \in 1..e
  <2>1. i \in 1..Len(m) - 1  BY Zenon DEF Altered
  <2> QED  BY <1>2, <1>4, <2>1
<1>6. \A j \in 1..t + 6 : j # i => u[j] = m[j]  BY <1>4, Zenon DEF Altered
<1>7. u[x] = 49 /\ u[x + 1] = 48 /\ u[x + 2] = 61
  <2>1. 48 + (10 \div 10) = 49 /\ 48 + (10 % 10) = 48  OBVIOUS
  <2> QED  BY <2>1 DEF TagAt, EQ
<1>8. x \in 1..t + 6 /\ x + 1 \in 1..t + 6 /\ x + 2 \in 1..t + 6  BY <1>2
<1>9. x # i => m[x] = 49  BY <1>6, <1>7, <1>8
<1>10. x + 1 # i => m[x + 1] = 48  BY <1>6, <1>7, <1>8
<1>11. x + 2 # i => m[x + 2] = 61  BY <1>6, <1>7, <1>8
<1>12. m[10] = 1 /\ m[11] = 57 /\ m[e] = 1 /\ m[e + 1] # 48 /\ m[e + 1] # 61
  <2>1. m[10] = 1 /\ m[11] = 57  BY <1>1, <1>3, HeadBytes DEF SOH
  <2>2. m[e] = 1  BY <1>3, Zenon DEF Opens, SOH
  <2>3. m[e + 1] \notin {48, 61}  BY <1>3, Zenon DEF Sound, EQ
  <2> QED  BY <2>1, <2>2, <2>3
<1>13. \A j \in 1..12 : m[j] # 49  BY <1>1, <1>3, HeadBytes
<1>14. \A j \in 1..e : m[j] = 61 => j \in {2, 12}  BY <1>1, <1>3, HeadBytes DEF EQ
<1>15. i = x \/ i = x + 1 \/ i = x + 2
  <2> SUFFICES ASSUME i # x, i # x + 1, i # x + 2 PROVE FALSE
    OBVIOUS
  <2>1. m[x] = u[x] /\ m[x + 1] = u[x + 1] /\ m[x + 2] = u[x + 2]  BY <1>6, <1>8
  <2>2. TagAt(m, x, 10)  BY <2>1 DEF TagAt
  <2>3. ~ TagAt(m, x, 10)  BY DEF Parts
  <2> QED  BY <2>2, <2>3
<1>16. i # x
  <2> SUFFICES ASSUME i = x PROVE FALSE
    OBVIOUS
  <2>1. m[x + 1] = 48 /\ m[x + 2] = 61
    <3>1. x + 1 # i /\ x + 2 # i  OBVIOUS
    <3> QED  BY <1>10, <1>11, <3>1
  <2>2. CASE x + 2 <= e
    <3>1. x + 2 \in 1..e  BY <1>2, <2>2
    <3>2. x + 2 \in {2, 12}  BY <1>14, <2>1, <3>1
    <3>3. x + 1 = 11  BY <3>2
    <3> QED  BY <1>12, <2>1, <3>3
  <2>3. CASE ~ x + 2 <= e
    <3>1. x = e \/ x + 1 = e  BY <1>2, <1>5, <2>3
    <3> QED  BY <1>12, <2>1, <3>1
  <2> QED  BY <2>2, <2>3
<1>17. i # x + 1
  <2> SUFFICES ASSUME i = x + 1 PROVE FALSE
    OBVIOUS
  <2>1. m[x] = 49 /\ m[x + 2] = 61
    <3>1. x # i /\ x + 2 # i  OBVIOUS
    <3> QED  BY <1>9, <1>11, <3>1
  <2>2. CASE x + 2 <= e
    <3>1. x + 2 \in 1..e  BY <1>2, <2>2
    <3>2. x + 2 \in {2, 12}  BY <1>14, <2>1, <3>1
    <3>3. x = 10  BY <3>2
    <3> QED  BY <1>12, <2>1, <3>3
  <2>3. CASE ~ x + 2 <= e
    <3>1. x + 2 = e + 1  BY <1>2, <1>5, <2>3
    <3> QED  BY <1>12, <2>1, <3>1
  <2> QED  BY <2>2, <2>3
<1>18. i = x + 2  BY <1>15, <1>16, <1>17
<1>19. x >= 13
  <2>1. m[x] = 49
    <3>1. x # i  BY <1>18
    <3> QED  BY <1>9, <3>1
  <2>2. x \notin 1..12  BY <1>13, <2>1
  <2> QED  BY <2>2
<1> QED  BY <1>7, <1>18, <1>19 DEF EQ

\* The trailer's own "10=" stays, and there is none behind it.
LEMMA TrailerStays ==
    ASSUME NEW n, NEW m, Sound(m, n), NEW e, NEW t, NEW c, Parts(m, n, e, t, c),
           NEW u, NEW i, Altered(u, m, i), i <= e
    PROVE  /\ TagAt(u, t, 10) /\ Len(u) = t + 6
           /\ \A x \in 1..Len(u) - 2 : TagAt(u, x, 10) => x <= t
           /\ \A j \in 1..3 : u[t + 2 + j] = Three(c)[j]
<1>1. n \in Nat /\ n >= 5  BY DEF Sound
<1>2. e \in Nat /\ e >= 14 /\ t \in Nat /\ t = e + n + 1  BY DEF Parts
<1>3. Len(m) = t + 6 /\ Len(u) = t + 6  BY DEF Parts, Altered
<1>4. \A j \in t..t + 6 : u[j] = m[j]
  <2>1. \A j \in 1..t + 6 : j # i => u[j] = m[j]  BY <1>3, Zenon DEF Altered
  <2>2. i \in 1..Len(m) - 1  BY Zenon DEF Altered
  <2>3. \A j \in t..t + 6 : j \in 1..t + 6 /\ j # i  BY <1>1, <1>2, <1>3, <2>2
  <2> QED  BY <2>1, <2>3, Zenon
<1>5. TagAt(u, t, 10)
  <2>1. t \in t..t + 6 /\ t + 1 \in t..t + 6 /\ t + 2 \in t..t + 6  BY <1>2
  <2>2. u[t] = m[t] /\ u[t + 1] = m[t + 1] /\ u[t + 2] = m[t + 2]  BY <1>4, <2>1, Zenon
  <2>3. TagAt(m, t, 10)  BY DEF Parts
  <2> QED  BY <2>2, <2>3, Zenon DEF TagAt
<1>6. \A j \in 1..3 : m[t + 2 + j] = Three(c)[j] /\ m[t + 2 + j] \in Digits  BY Zenon DEF Parts
<1>7. \A j \in 1..3 : t + 2 + j \in t..t + 6  BY <1>2
<1>8. ASSUME NEW x \in 1..Len(u) - 2, TagAt(u, x, 10), x > t
      PROVE  FALSE
  <2>1. u[x + 2] = 61  BY <1>8 DEF TagAt, EQ
  <2>2. x + 2 = t + 6 \/ \E j \in 1..3 : x + 2 = t + 2 + j
    <3>1. x \in t + 1..t + 4  BY <1>2, <1>3, <1>8
    <3>2. CASE x = t + 4  BY <1>2, <3>2
    <3>3. CASE x # t + 4
      <4>1. x - t \in 1..3 /\ x + 2 = t + 2 + (x - t)  BY <1>2, <3>1, <3>3
      <4> QED  BY <4>1
    <3> QED  BY <3>2, <3>3
  <2>3. x + 2 \in t..t + 6  BY <1>2, <1>3, <1>8
  <2>4. m[x + 2] = 61  BY <1>4, <2>1, <2>3
  <2>5. m[t + 6] = 1  BY DEF Parts, SOH
  <2>6. \A d \in Digits : d # 61  BY DEF Digits
  <2> QED  BY <1>6, <2>2, <2>4, <2>5, <2>6
<1>9. \A x \in 1..Len(u) - 2 : TagAt(u, x, 10) => x <= t  BY <1>2, <1>3, <1>8
<1>10. \A j \in 1..3 : u[t + 2 + j] = Three(c)[j]  BY <1>4, <1>6, <1>7, Zenon
<1> QED  BY <1>3, <1>5, <1>9, <1>10

-----------------------------------------------------------------------------
(***************************************************************************)
(* One altered byte in the head, and no "10=" by it: the sum is wrong.     *)
(***************************************************************************)
\* Accepted, so a "10=" is found where the BodyLength says, and the checksum follows it.
LEMMA AcceptsIs ==
    ASSUME NEW u \in Seq(Byte), NoBar(u), ValidateMessage(u)
    PROVE  \E at \in 1..Len(u) - 2 :
              TagAt(u, at, 10) /\ Received(u, at + 3) = CalculateChecksum(u)
<1>1. PICK k \in Nat : k = Len(u)  OBVIOUS
<1>2. PICK length : length = Find(Prefix(9), u, 1) + 2  OBVIOUS
<1>3. length \in Nat \ {0}
  <2>1. Find(Prefix(9), u, 1) \in Nat
    <3>1. Len(Prefix(9)) \in Nat
      <4>1. 9 \in Nat  OBVIOUS
      <4> QED  BY <4>1, PrefixParts
    <3>2. 1 \in Nat \ {0}  OBVIOUS
    <3> QED  BY <1>1, <3>1, <3>2, FindIs
  <2> QED  BY <1>2, <2>1
<1>4. PICK end : end = EndAt(SOH, u, length)  OBVIOUS
<1>5. end \in Int
  <2>1. Find(<<SOH>>, u, length) \in Nat
    <3>1. FirstAt(Find(<<SOH>>, u, length), SOH, u, length)  BY <1>1, <1>3, FindByte
    <3> QED  BY <3>1 DEF FirstAt
  <2> QED  BY <1>4, <2>1 DEF EndAt
<1>6. PICK check : check = Find(Prefix(10), u, end + 2)  OBVIOUS
<1>7. Accepts(u, length, end, check)
  <2>1. ValidateMessage(u) <=> Accepts(u, length, end, Find(Prefix(10), u, end + 2))
    BY <1>2, <1>4, ValidateIs
  <2> QED  BY <1>6, <2>1, Zenon
<1>8. end >= 0 /\ check > 0 /\ Received(u, check + 3) = CalculateChecksum(u)
  BY <1>7 DEF Accepts
<1>9. FirstTag(check, u, end + 2, 10)
  <2>1. end + 2 \in Nat \ {0} /\ 10 \in 10..99 /\ Len(u) \in Nat  BY <1>1, <1>5, <1>8
  <2> QED  BY <1>6, <2>1, FindTag
<1>10. check \in end + 2..Len(u) - 2 /\ TagAt(u, check, 10)
  BY <1>8, <1>9 DEF FirstTag
<1>11. check \in 1..Len(u) - 2  BY <1>1, <1>5, <1>8, <1>10
<1> QED  BY <1>8, <1>10, <1>11

\* The same, of a text that begins with "8=FIX.4.4" and "9=".
LEMMA HeadedAccepts ==
    ASSUME NEW u, Headed(u), NoBar(u), ValidateMessage(u)
    PROVE  \E end \in Nat, at \in 1..Len(u) - 2 :
              /\ FirstAt(end + 1, SOH, u, 13)
              /\ TagAt(u, at, 10) /\ at >= end + 2
              /\ at - (end + 2) = Stoi(SubSeq(u, 13, end))
<1>1. u \in Seq(Byte) /\ Len(u) \in Nat
  <2>1. u \in Seq(Byte)  BY DEF Headed
  <2> QED  BY <2>1
<1>2. PICK end : end = EndAt(SOH, u, 13)  OBVIOUS
<1>3. PICK check : check = Find(Prefix(10), u, end + 2)  OBVIOUS
<1>4. FirstAt(end + 1, SOH, u, 13) /\ end \in Int /\ Accepts(u, 13, end, check)
  <2>1. FirstAt(end + 1, SOH, u, 13) /\ end \in Int
        /\ (ValidateMessage(u) <=> Accepts(u, 13, end, Find(Prefix(10), u, end + 2)))
    BY <1>2, HeadedIs
  <2> QED  BY <1>3, <2>1, Zenon
<1>5. end >= 0 /\ check > 0 /\ check - (end + 2) = Stoi(SubSeq(u, 13, end))
  BY <1>4 DEF Accepts
<1>6. FirstTag(check, u, end + 2, 10)
  <2>1. end + 2 \in Nat \ {0} /\ 10 \in 10..99  BY <1>4, <1>5
  <2> QED  BY <1>1, <1>3, <2>1, FindTag
<1>7. check \in end + 2..Len(u) - 2 /\ TagAt(u, check, 10)
  BY <1>5, <1>6 DEF FirstTag
<1>8. end \in Nat /\ check \in 1..Len(u) - 2 /\ check >= end + 2  BY <1>1, <1>4, <1>5, <1>7
<1> QED  BY <1>4, <1>5, <1>7, <1>8

\* With no other "10=", the checksum is of the altered bytes, and another.
LEMMA AlteredSum ==
    ASSUME NEW n, NEW m, Sound(m, n), NEW e, NEW t, NEW c, Parts(m, n, e, t, c),
           NEW u, NEW i, Altered(u, m, i), i <= e, \A x \in 1..t - 1 : ~ TagAt(u, x, 10)
    PROVE  ~ ValidateMessage(u)
<1>1. n \in Nat /\ n >= 5  BY DEF Sound
<1>2. e \in Nat /\ e >= 14 /\ t \in Nat /\ t = e + n + 1  BY DEF Parts
<1>3. u \in Seq(Byte) /\ NoBar(u)  BY Zenon DEF Altered
<1>18. /\ TagAt(u, t, 10) /\ Len(u) = t + 6
       /\ \A x \in 1..Len(u) - 2 : TagAt(u, x, 10) => x <= t
       /\ \A j \in 1..3 : u[t + 2 + j] = Three(c)[j]
  BY TrailerStays
<1>4. TagAt(u, t, 10) /\ Len(u) = t + 6  BY <1>18, Zenon
<1>5. \A x \in 1..Len(u) - 2 : TagAt(u, x, 10) => x <= t  BY <1>18, Zenon
<1>6. \A j \in 1..3 : u[t + 2 + j] = Three(c)[j]  BY <1>18, Zenon
<1>7. c \in Byte  BY DEF Parts
<1>8. i < t
  <2>1. i \in 1..Len(m) - 1 /\ Len(m) = t + 6  BY Zenon DEF Altered, Parts
  <2> QED  BY <1>1, <1>2, <2>1
<1>9. PICK s \in Byte : s = ByteSum(SubSeq(u, 1, t - 1)) /\ s # c  BY <1>1, <1>8, FrontDiffers
<1>10. CalculateChecksum(u) = Three(s)
  <2>1. t \in 1..Len(u) - 2 /\ t # 0  BY <1>1, <1>2, <1>4
  <2>2. FirstTag(t, u, 1, 10)  BY <1>2, <1>4, <2>1 DEF FirstTag
  <2>3. CalculateChecksum(u) = Three(ByteSum(SubSeq(u, 1, t - 1)))  BY <1>2, <1>3, <2>1, <2>2, ChecksumBefore
  <2> QED  BY <1>9, <2>3, Zenon
<1> SUFFICES ASSUME ValidateMessage(u) PROVE FALSE
  OBVIOUS
<1>11. PICK at \in 1..Len(u) - 2 : TagAt(u, at, 10) /\ Received(u, at + 3) = CalculateChecksum(u)
  BY <1>3, AcceptsIs
<1>12. at = t
  <2>1. at <= t  BY <1>5, <1>11
  <2>2. ~ at < t
    <3> SUFFICES ASSUME at < t PROVE FALSE  OBVIOUS
    <3>1. at \in 1..t - 1  BY <1>2, <1>4
    <3> QED  BY <1>11, <3>1
  <2> QED  BY <1>2, <1>4, <2>1, <2>2
<1>13. PICK r : r = Received(u, t + 3)  OBVIOUS
<1>14. \A j \in 1..3 : r[j] = u[t + 2 + j]
  <2>0. PICK a : a = t + 3  OBVIOUS
  <2>1. a \in Nat \ {0} /\ a <= Len(u) + 1 /\ Len(u) >= a + 2 /\ a - 1 = t + 2
    BY <1>2, <1>4, <2>0, SMTT(40)
  <2>2. \A j \in 1..3 : Received(u, a)[j] = u[a - 1 + j]  BY <1>3, <2>1, ReceivedIs
  <2> QED  BY <1>13, <2>0, <2>1, <2>2, Zenon
<1>15. r = Three(s)  BY <1>10, <1>11, <1>12, <1>13, Zenon
<1>16. \A j \in 1..3 : u[t + 2 + j] = Three(s)[j]  BY <1>14, <1>15, Zenon
<1>17. s = c  BY ONLY <1>6, <1>7, <1>16, s \in Byte, DigitsAgree
<1> QED  BY <1>9, <1>17

-----------------------------------------------------------------------------
(***************************************************************************)
(* One altered byte, anywhere.                                             *)
(***************************************************************************)
\* Cut short by a '=', the BodyLength is another, or is followed by fewer bytes.
LEMMA AlteredLength ==
    ASSUME NEW n, NEW m, Sound(m, n), NEW e, NEW t, NEW c, Parts(m, n, e, t, c),
           NEW u, NEW i, Altered(u, m, i), i \in 15..e, u[i] = EQ
    PROVE  ~ ValidateMessage(u)
<1>1. n \in Nat /\ n >= 5  BY DEF Sound
<1>2. e \in Nat /\ e >= 14 /\ t \in Nat /\ t = e + n + 1  BY DEF Parts
<1>3. e = Ending(n) /\ Opens(m, n) /\ Len(m) = t + 6  BY DEF Parts
<1>4. u \in Seq(Byte) /\ NoBar(u)  BY Zenon DEF Altered
<1>5. \A j \in 1..t + 6 : j # i => u[j] = m[j]  BY <1>3, Zenon DEF Altered
<1>6. Len(u) = t + 6 /\ \A x \in 1..Len(u) - 2 : TagAt(u, x, 10) => x <= t
  BY TrailerStays
<1>7. Headed(u)
  <2>1. \A j \in 1..12 : j \in 1..t + 6 /\ j # i  BY <1>2, <1>1
  <2>2. \A j \in 1..12 : u[j] = m[j]  BY <1>5, <2>1, Zenon
  <2>3. Len(u) >= 12  BY <1>1, <1>2, <1>6
  <2> QED  BY <1>1, <1>3, <1>4, <2>2, <2>3, HeadedKept
<1> SUFFICES ASSUME ValidateMessage(u) PROVE FALSE
  OBVIOUS
<1>8. PICK end \in Nat, at \in 1..Len(u) - 2 :
        /\ FirstAt(end + 1, SOH, u, 13)
        /\ TagAt(u, at, 10) /\ at >= end + 2
        /\ at - (end + 2) = Stoi(SubSeq(u, 13, end))
  BY <1>4, <1>7, HeadedAccepts
<1>9. PICK s \in Nat : s = end + 1 /\ s \in 13..t + 6 /\ u[s] = SOH /\ \A j \in 13..s - 1 : u[j] # SOH
  <2>1. end + 1 \in Nat /\ end + 1 # 0  OBVIOUS
  <2>2. end + 1 \in 13..Len(u) /\ u[end + 1] = SOH /\ \A j \in 13..end + 1 - 1 : u[j] # SOH
    BY <1>8, <2>1 DEF FirstAt
  <2> QED  BY <1>6, <2>1, <2>2
<1>10. \A j \in 13..e - 1 : m[j] \in Digits  BY <1>1, <1>3, HeadBytes
<1>11. m[e] = SOH  BY <1>3 DEF Opens
<1>12. s >= e /\ (i < e => s = e) /\ (i = e => s > e)
  <2>1. ~ s < e
    <3> SUFFICES ASSUME s < e PROVE FALSE  OBVIOUS
    <3>1. s \in 13..e - 1  BY <1>2, <1>9
    <3>2. u[s] = EQ \/ u[s] \in Digits
      <4>1. s \in 1..t + 6  BY <1>9
      <4>2. s # i => u[s] = m[s]  BY <1>5, <4>1, Zenon
      <4> QED  BY <1>10, <3>1, <4>2
    <3> QED  BY <1>9, <3>2 DEF EQ, SOH, Digits
  <2>2. i < e => ~ s > e
    <3> SUFFICES ASSUME i < e, s > e PROVE FALSE  OBVIOUS
    <3>1. e \in 13..s - 1 /\ e \in 1..t + 6 /\ e # i  BY <1>1, <1>2, <1>9
    <3>2. u[e] = SOH  BY <1>5, <1>11, <3>1
    <3> QED  BY <1>9, <3>1, <3>2
  <2>3. i = e => s # e  BY <1>9 DEF EQ, SOH
  <2> QED  BY <1>2, <1>9, <2>1, <2>2, <2>3
<1>13. at = t
  <2>1. at <= t  BY <1>6, <1>8
  <2>2. ~ at < t
    <3> SUFFICES ASSUME at < t PROVE FALSE  OBVIOUS
    <3>1. at \in 1..t - 1  BY <1>2, <1>6
    <3>2. i <= e  OBVIOUS
    <3>3. i = at + 2  BY <1>8, <3>1, <3>2, TenOnly
    <3> QED  BY <1>2, <1>8, <1>9, <1>12, <3>3
  <2> QED  BY <1>2, <1>6, <2>1, <2>2
<1>14. PICK d : d = SubSeq(u, 13, end)  OBVIOUS
<1>15. d \in Seq(Byte) /\ Len(d) = s - 13 /\ \A j \in 1..s - 13 : d[j] = u[12 + j]
  <2>1. 13 \in Nat \ {0} /\ end <= Len(u) /\ s - 13 \in Nat /\ 13 + (s - 13) = end + 1
    BY <1>6, <1>9
  <2>2. PICK l \in Nat : l = s - 13 /\ 13 + l = end + 1  BY <2>1
  <2>3. d \in Seq(Byte) /\ Len(d) = l /\ \A j \in 1..l : d[j] = u[13 + j - 1]
    BY <1>4, <1>14, <2>1, <2>2, MiddleParts
  <2>4. \A j \in 1..l : 13 + j - 1 = 12 + j  OBVIOUS
  <2> QED  BY <2>2, <2>3, <2>4, Zenon
<1>16. PICK p \in Nat, l \in Nat : p = i - 13 /\ l = e - 13 /\ l = Len(Decimal[n]) /\ p <= l
  <2>1. Ending(n) = 13 + Len(Decimal[n]) /\ Len(Decimal[n]) \in Nat  BY <1>1, DecimalParts DEF Ending
  <2>2. i - 13 \in Nat /\ e - 13 \in Nat /\ i - 13 <= e - 13 /\ e - 13 = Len(Decimal[n])
    BY <1>2, <1>3, <2>1
  <2> QED  BY <2>2
<1>17. \A j \in 1..p : d[j] = Decimal[n][j] /\ d[j] \in Digits
  <2> TAKE j \in 1..p
  <2>1. /\ j \in 1..s - 13 /\ 12 + j \in 1..t + 6 /\ 12 + j # i /\ 12 + j \in 13..e - 1
        /\ j \in 1..Len(Decimal[n])
    BY <1>1, <1>2, <1>9, <1>12, <1>16
  <2>2. d[j] = u[12 + j] /\ u[12 + j] = m[12 + j]  BY <1>5, <1>15, <2>1, Zenon
  <2>3. m[12 + j] = Decimal[n][j]  BY <1>3, <2>1, Zenon DEF Opens
  <2>4. m[12 + j] \in Digits  BY <1>10, <2>1
  <2> QED  BY <2>2, <2>3, <2>4, Zenon
<1>18. p = LeadingDigits(d)
  <2>1. p <= Len(d)  BY <1>2, <1>9, <1>12, <1>15, <1>16
  <2>2. p < Len(d) => d[p + 1] \notin Digits
    <3> SUFFICES ASSUME p < Len(d) PROVE d[p + 1] \notin Digits  OBVIOUS
    <3>1. p + 1 \in 1..s - 13 /\ 12 + (p + 1) = i  BY <1>9, <1>15, <1>16
    <3>2. d[p + 1] = EQ  BY <1>15, <3>1, Zenon
    <3> QED  BY <3>2 DEF EQ, Digits
  <2>3. Leads(p, d)  BY <1>17, <2>1, <2>2 DEF Leads
  <2> QED  BY <1>15, <2>3, LeadingIs
<1>19. PICK f : ReadsAs(d, f)  BY <1>15, StoiIs
<1>20. Decimal[n] \in Seq(Byte)  BY <1>1, DecimalParts
<1>21. PICK h : ReadsAs(Decimal[n], h)  BY <1>20, StoiIs
<1>22. f[p] = h[p]
  <2>1. p <= Len(d) /\ p <= Len(Decimal[n])  BY <1>2, <1>9, <1>12, <1>15, <1>16, SMTT(40)
  <2>2. \A j \in 1..p : d[j] = Decimal[n][j]  BY <1>17, Zenon
  <2>3. PICK b : b = Decimal[n]  OBVIOUS
  <2>4. b \in Seq(Byte) /\ ReadsAs(b, h) /\ p <= Len(b) /\ \A j \in 1..p : d[j] = b[j]
    BY <1>20, <1>21, <2>1, <2>2, <2>3, Zenon
  <2>5. d \in Seq(Byte)  BY <1>15, Zenon
  <2> QED  BY <1>19, <2>1, <2>4, <2>5, ReadAlike
<1>23. t - (end + 2) = h[p]
  <2>1. Stoi(d) = f[p]  BY <1>18, <1>19 DEF ReadsAs
  <2> QED  BY <1>8, <1>13, <1>14, <1>22, <2>1
<1>24. CASE i < e
  <2>1. t - (end + 2) = n
    <3>1. s = end + 1  BY <1>9
    <3>2. s = e  BY <1>12, <1>24
    <3> QED  BY <1>1, <1>2, <3>1, <3>2
  <2>2. p < Len(Decimal[n])  BY <1>16, <1>24, <1>2
  <2>3. h[p] # n  BY <1>1, <1>21, <2>2, FirstDigitsLess
  <2> QED  BY <1>23, <2>1, <2>3
<1>25. CASE i = e
  <2>1. h[l] = n
    <3>1. Begins(Decimal[n], Decimal[n])  BY <1>16, <1>20 DEF Begins
    <3> QED  BY <1>1, <1>16, <1>20, <1>21, <3>1, DecimalReads
  <2>2. p = l  BY <1>16, <1>25
  <2>3. t - (end + 2) < n
    <3>1. s = end + 1  BY <1>9
    <3>2. s > e  BY <1>12, <1>25
    <3> QED  BY <1>1, <1>2, <3>1, <3>2
  <2>4. t - (end + 2) = n  BY <1>23, <2>1, <2>2, Zenon
  <2> QED  BY <1>1, <2>3, <2>4
<1> QED  BY <1>2, <1>24, <1>25

\* One altered byte, wherever it is but at the end, is found out.
LEMMA AlteredRefused ==
    ASSUME NEW n, NEW m, Sound(m, n), NEW u, NEW i, Altered(u, m, i)
    PROVE  ~ ValidateMessage(u)
<1>1. PICK e, t, c : Parts(m, n, e, t, c)  BY SoundParts
<1>2. e \in Nat /\ e = Ending(n) /\ e >= 14 /\ t \in Nat  BY <1>1 DEF Parts
<1>3. i \in 1..Len(m) - 1 /\ Len(m) = t + 6  BY <1>1, Zenon DEF Altered, Parts
<1>4. CASE i > e  BY <1>2, <1>4, AlteredLater
<1>5. CASE i <= e /\ \A x \in 1..t - 1 : ~ TagAt(u, x, 10)  BY <1>1, <1>5, AlteredSum
<1>6. ASSUME i <= e, NEW x \in 1..t - 1, TagAt(u, x, 10) PROVE ~ ValidateMessage(u)
  <2>1. i = x + 2 /\ x >= 13 /\ u[i] = EQ  BY <1>1, <1>6, TenOnly
  <2>2. i \in 15..e  BY <1>2, <1>6, <2>1
  <2> QED  BY <1>1, <2>1, <2>2, AlteredLength
<1> QED  BY <1>2, <1>3, <1>4, <1>5, <1>6

-----------------------------------------------------------------------------
(***************************************************************************)
(* What lies in front of a message.                                        *)
(***************************************************************************)
\* The text begins with the BeginString of this version.
BegunWith(u, v) == \A j \in 1..10 : u[j] = BeginString(v)[j]

\* What is accepted begins with one of the two BeginStrings.
LEMMA AcceptedBegins ==
    ASSUME NEW u \in Seq(Byte), NoBar(u), ValidateMessage(u)
    PROVE  Len(u) >= 25 /\ \E v \in {2, 4} : BegunWith(u, v)
<1>1. PICK length, end : length = Find(Prefix(9), u, 1) + 2 /\ end = EndAt(SOH, u, length)  OBVIOUS
<1>2. Accepts(u, length, end, Find(Prefix(10), u, end + 2))  BY <1>1, ValidateIs
<1>3. Len(u) >= 25 /\ SubSeq(u, 1, 10) \in {BeginString(4), BeginString(2)}  BY <1>2, Zenon DEF Accepts
<1>4. PICK v \in {2, 4} : SubSeq(u, 1, 10) = BeginString(v)  BY <1>3, Zenon
<1>5. \A j \in 1..10 : SubSeq(u, 1, 10)[j] = u[j]
  <2>1. 10 \in Nat /\ 10 <= Len(u)  BY <1>3
  <2> QED  BY <2>1, FrontParts
<1>6. BegunWith(u, v)  BY <1>4, <1>5, Zenon DEF BegunWith
<1> QED  BY <1>3, <1>6

\* A message that begins at another of the first ten places covers part of the
\* BeginString, with another byte than stands there.
LEMMA ShiftedBegins ==
    ASSUME NEW n \in Nat, NEW m, Opens(m, n), NEW u, NEW q \in 2..10, u[q] = m[1],
           NEW v \in {2, 4}
    PROVE  ~ BegunWith(u, v)
<1>1. u[q] = 56  BY HeadBytes
<1>2. PICK w : w = BeginString(v)  OBVIOUS
<1>3. /\ w[2] = 61 /\ w[3] = 70 /\ w[4] = 73 /\ w[5] = 88 /\ w[6] = 46
      /\ w[7] = 52 /\ w[8] = 46 /\ w[9] = 48 + v /\ w[10] = 1
  <2>1. v \in 0..9  OBVIOUS
  <2> QED  BY <1>2, <2>1, BeginStringIs DEF EQ, SOH
<1>4. q = 2 \/ q = 3 \/ q = 4 \/ q = 5 \/ q = 6 \/ q = 7 \/ q = 8 \/ q = 9 \/ q = 10  OBVIOUS
<1>5. 48 + v # 56  OBVIOUS
<1>6. w[q] # 56  BY <1>3, <1>4, <1>5
<1>7. q \in 1..10  OBVIOUS
<1> QED  BY <1>1, <1>2, <1>6, <1>7, Zenon DEF BegunWith

\* To begin with all of a text but its last byte.
LEMMA FrontIs ==
    ASSUME NEW m \in Seq(Byte), Len(m) >= 1, NEW u \in Seq(Byte)
    PROVE  IsPrefix(Front(m), u) <=> AllBut(u, m)
<1>1. PICK k \in Nat : k = Len(m) - 1  OBVIOUS
<1>2. PICK f : f = Front(m)  OBVIOUS
<1>3. f \in Seq(Byte) /\ Len(f) = k /\ \A i \in 1..k : f[i] = m[i]
  <2>1. f = SubSeq(m, 1, k)  BY <1>1, <1>2 DEF Front
  <2>2. k <= Len(m)  BY <1>1
  <2> QED  BY <2>1, <2>2, FrontParts
<1>4. IsPrefix(f, u) <=> k <= Len(u) /\ SubSeq(f, 1, k) = SubSeq(u, 1, k)
  BY <1>3, Zenon DEF IsPrefix
<1>5. k <= Len(u) => (SubSeq(f, 1, k) = SubSeq(u, 1, k) <=> \A i \in 1..k : f[i] = u[i])
  <2> SUFFICES ASSUME k <= Len(u)
               PROVE  SubSeq(f, 1, k) = SubSeq(u, 1, k) <=> \A i \in 1..k : f[i] = u[i]
    OBVIOUS
  <2>0. k <= Len(f)  BY <1>3
  <2>1. \A i \in 1..k : SubSeq(f, 1, k)[i] = f[i] /\ SubSeq(u, 1, k)[i] = u[i]
    BY <1>3, <2>0, FrontParts
  <2>2. (\A i \in 1..k : f[i] = u[i]) => SubSeq(f, 1, k) = SubSeq(u, 1, k)
    BY <1>3, <2>0, SameFront
  <2> QED  BY <2>1, <2>2, Zenon
<1>6. AllBut(u, m) <=> Len(u) >= k /\ \A i \in 1..k : u[i] = m[i]  BY <1>1 DEF AllBut
<1>7. Len(u) >= k <=> k <= Len(u)  BY <1>1
<1>8. (\A i \in 1..k : f[i] = u[i]) <=> \A i \in 1..k : u[i] = m[i]  BY <1>3, Zenon
<1> QED  BY <1>2, <1>4, <1>5, <1>6, <1>7, <1>8, Zenon

=============================================================================
