--------------------------- MODULE Streams_proofs ---------------------------
(***************************************************************************)
(* Proofs about BufferedIo, MemFile and InputBuffer: buffered input comes  *)
(* out once and in order, for any input, any cuts of it and any lengths    *)
(* asked for; the string of a file in memory stands while it is open and   *)
(* nothing that was printed is lost, for any files, limits and sizes of    *)
(* the pipe; the input buffer gives every character of its contexts once   *)
(* and in order, with its position, however they are read and put back.    *)
(***************************************************************************)
EXTENDS BufferedIo, MemFile, InputBuffer, Integers, SequenceTheorems, FiniteSetTheorems,
        WellFoundedInduction, TLAPS

(* A set of natural numbers has a least element.                           *)
LEMMA LeastNatural ==
  ASSUME NEW T, T \subseteq Nat, T # {}
  PROVE  \E x \in T : \A y \in T : x <= y
<1>1. PICK x \in T : \A y \in T : ~(<<y, x>> \in OpToRel(<, Nat))
  BY NatLessThanWellFounded, WFMin
<1>2. \A y \in T : ~(y < x)
  BY <1>1 DEF OpToRel
<1> QED
  BY <1>2

(* Induction without an operator: a set of natural numbers that has 0 and  *)
(* with every number below n its successor, has all numbers up to n.       *)
LEMMA Upwards ==
  ASSUME NEW N \in Nat, NEW S,
         0 \in S, \A n \in 0 .. N - 1 : n \in S => n + 1 \in S
  PROVE  0 .. N \subseteq S
<1> DEFINE T == (0 .. N) \ S
<1> SUFFICES ASSUME T # {} PROVE FALSE
  OBVIOUS
<1>1. PICK x \in T : \A y \in T : x <= y
  <2>1. T \subseteq Nat
    OBVIOUS
  <2> QED BY <2>1, LeastNatural
<1>2. x # 0 /\ x - 1 \in 0 .. N - 1
  OBVIOUS
<1>3. x - 1 \notin T
  BY <1>1, <1>2
<1> QED
  BY <1>2, <1>3

(* What a recursive function over 0..N does: every value but the first is  *)
(* made from the one before. Obeys says it of the values up to k.          *)
Obeys(f, a, G, k) == f[0] = a /\ \A n \in 1 .. k : f[n] = G[<<n, f[n - 1]>>]

LEMMA ObeysLonger ==
  ASSUME NEW N \in Nat, NEW S, NEW a \in S, NEW G \in [(1 .. N) \X S -> S],
         NEW k \in 0 .. N - 1, NEW f \in [0 .. N -> S], Obeys(f, a, G, k)
  PROVE  \E g \in [0 .. N -> S] : Obeys(g, a, G, k + 1)
<1> DEFINE v == G[<<k + 1, f[k]>>]
           g == [f EXCEPT ![k + 1] = v]
<1>1. v \in S
  <2>1. <<k + 1, f[k]>> \in (1 .. N) \X S
    OBVIOUS
  <2> QED BY <2>1
<1> HIDE DEF v
<1>2. g \in [0 .. N -> S]
  BY <1>1
<1>3. /\ k + 1 \in 0 .. N /\ k \in 0 .. N
      /\ g[k + 1] = v
      /\ \A n \in 0 .. k : n \in 0 .. N /\ g[n] = f[n]
  OBVIOUS
<1>4. g[0] = a
  BY <1>3 DEF Obeys
<1> HIDE DEF g
<1>5. \A n \in 1 .. k + 1 : g[n] = G[<<n, g[n - 1]>>]
  <2> SUFFICES ASSUME NEW n \in 1 .. k + 1 PROVE g[n] = G[<<n, g[n - 1]>>]
    OBVIOUS
  <2>1. CASE n = k + 1
    <3>1. n - 1 = k
      BY <2>1
    <3> QED BY <2>1, <3>1, <1>3 DEF v
  <2>2. CASE n \in 1 .. k
    <3>1. n - 1 \in 0 .. k /\ n \in 0 .. k
      BY <2>2
    <3> QED BY <2>2, <3>1, <1>3 DEF Obeys
  <2> QED BY <2>1, <2>2
<1>6. Obeys(g, a, G, k + 1)
  BY <1>4, <1>5 DEF Obeys
<1> QED
  BY <1>2, <1>6

LEMMA RecursionExists ==
  ASSUME NEW N \in Nat, NEW S, NEW a \in S, NEW G \in [(1 .. N) \X S -> S]
  PROVE  \E f \in [0 .. N -> S] : Obeys(f, a, G, N)
<1> DEFINE Ks == {k \in 0 .. N : \E f \in [0 .. N -> S] : Obeys(f, a, G, k)}
<1>1. 0 \in Ks
  <2>1. [n \in 0 .. N |-> a] \in [0 .. N -> S]
    OBVIOUS
  <2>2. Obeys([n \in 0 .. N |-> a], a, G, 0)
    BY DEF Obeys
  <2> QED BY <2>1, <2>2
<1>2. \A k \in 0 .. N - 1 : k \in Ks => k + 1 \in Ks
  <2> SUFFICES ASSUME NEW k \in 0 .. N - 1, k \in Ks PROVE k + 1 \in Ks
    OBVIOUS
  <2>1. PICK f \in [0 .. N -> S] : Obeys(f, a, G, k)
    OBVIOUS
  <2>2. \E g \in [0 .. N -> S] : Obeys(g, a, G, k + 1)
    BY <2>1, ObeysLonger
  <2> QED BY <2>2
<1>3. N \in 0 .. N /\ 0 .. N \subseteq Ks
  <2> HIDE DEF Ks
  <2> QED BY <1>1, <1>2, Upwards
<1> QED
  BY <1>3
-----------------------------------------------------------------------------
(* Texts.                                                                  *)

(* What is behind the first n characters of a text.                        *)
LEMMA BehindText ==
  ASSUME NEW S, NEW s \in Seq(S), NEW n \in 0 .. Len(s)
  PROVE  /\ After(s, n) \in Seq(S) /\ Len(After(s, n)) = Len(s) - n
         /\ \A i \in 1 .. Len(s) - n : After(s, n)[i] = s[n + i]
<1>1. n \in Int /\ n + 1 \in Int /\ Len(s) \in Int /\ 0 <= n /\ n <= Len(s)
  OBVIOUS
<1>2. \A i \in n + 1 .. Len(s) : s[i] \in S
  BY <1>1
<1>3. /\ After(s, n) \in Seq(S)
      /\ Len(After(s, n)) = IF n + 1 <= Len(s) THEN Len(s) - (n + 1) + 1 ELSE 0
      /\ \A i \in 1 .. Len(s) - (n + 1) + 1 : After(s, n)[i] = s[(n + 1) + i - 1]
  BY <1>1, <1>2, SubSeqProperties DEF After
<1> QED
  BY <1>1, <1>3

(* A text cut after n characters is its two parts.                         *)
LEMMA CutText ==
  ASSUME NEW S, NEW s \in Seq(S), NEW n \in 0 .. Len(s)
  PROVE  /\ First(s, n) \in Seq(S) /\ Len(First(s, n)) = n
         /\ After(s, n) \in Seq(S) /\ Len(After(s, n)) = Len(s) - n
         /\ \A i \in 1 .. n : First(s, n)[i] = s[i]
         /\ First(s, n) \o After(s, n) = s
<1>1. n \in Int /\ 1 \in Int /\ n + 1 \in Int /\ Len(s) \in Int /\ 0 <= n /\ n <= Len(s)
  OBVIOUS
<1>2. (\A i \in 1 .. n : s[i] \in S) /\ \A i \in n + 1 .. Len(s) : s[i] \in S
  BY <1>1
<1>3. /\ First(s, n) \in Seq(S)
      /\ Len(First(s, n)) = IF 1 <= n THEN n - 1 + 1 ELSE 0
      /\ \A i \in 1 .. n - 1 + 1 : First(s, n)[i] = s[1 + i - 1]
  BY <1>1, <1>2, SubSeqProperties DEF First
<1>4. /\ After(s, n) \in Seq(S)
      /\ Len(After(s, n)) = IF n + 1 <= Len(s) THEN Len(s) - (n + 1) + 1 ELSE 0
      /\ \A i \in 1 .. Len(s) - (n + 1) + 1 : After(s, n)[i] = s[(n + 1) + i - 1]
  BY <1>1, <1>2, SubSeqProperties DEF After
<1>5. Len(First(s, n)) = n /\ Len(After(s, n)) = Len(s) - n
  BY <1>1, <1>3, <1>4
<1>6. /\ \A i \in 1 .. n : First(s, n)[i] = s[i]
      /\ \A i \in 1 .. Len(s) - n : After(s, n)[i] = s[n + i]
  BY <1>1, <1>3, <1>4
<1> DEFINE c == First(s, n) \o After(s, n)
<1>7. /\ c \in Seq(S) /\ Len(c) = n + (Len(s) - n)
      /\ \A i \in 1 .. n + (Len(s) - n) :
           c[i] = IF i <= n THEN First(s, n)[i] ELSE After(s, n)[i - n]
  <2> DEFINE f == First(s, n)
             a == After(s, n)
  <2>1. f \in Seq(S) /\ a \in Seq(S) /\ Len(f) = n /\ Len(a) = Len(s) - n
    BY <1>3, <1>4, <1>5
  <2> HIDE DEF f, a
  <2>2. /\ f \o a \in Seq(S) /\ Len(f \o a) = Len(f) + Len(a)
        /\ \A i \in 1 .. Len(f) + Len(a) : (f \o a)[i] = IF i <= Len(f) THEN f[i] ELSE a[i - Len(f)]
    BY <2>1, ConcatProperties
  <2>3. c = f \o a
    BY DEF f, a
  <2> HIDE DEF c
  <2>4. /\ c \in Seq(S) /\ Len(c) = n + (Len(s) - n)
        /\ \A i \in 1 .. n + (Len(s) - n) : c[i] = IF i <= n THEN f[i] ELSE a[i - n]
    BY <2>1, <2>2, <2>3
  <2> QED BY <2>4 DEF f, a
<1> HIDE DEF c
<1>8. Len(c) = Len(s) /\ \A i \in 1 .. Len(s) : c[i] = s[i]
  <2>1. n + (Len(s) - n) = Len(s)
    BY <1>1
  <2>2. ASSUME NEW i \in 1 .. Len(s) PROVE c[i] = s[i]
    <3>1. CASE i <= n
      BY <1>1, <1>6, <1>7, <2>1, <3>1
    <3>2. CASE i > n
      <4>1. i - n \in 1 .. Len(s) - n /\ n + (i - n) = i /\ ~(i <= n)
        BY <1>1, <3>2
      <4> QED BY <1>6, <1>7, <2>1, <4>1
    <3> QED BY <1>1, <3>1, <3>2
  <2> QED BY <1>7, <2>1, <2>2
<1>9. c = s
  BY <1>7, <1>8, SeqEqual
<1> QED
  BY <1>3, <1>4, <1>5, <1>6, <1>9 DEF c

Of(S, s) == s \in Seq(S)

LEMMA TextCut ==
  ASSUME NEW S, NEW s, Of(S, s), NEW n \in 0 .. Len(s)
  PROVE  /\ Of(S, First(s, n)) /\ Len(First(s, n)) = n /\ Of(S, After(s, n))
         /\ \A i \in 1 .. n : First(s, n)[i] = s[i]
         /\ First(s, n) \o After(s, n) = s
BY CutText DEF Of

LEMMA TextsJoined ==
  ASSUME NEW S, NEW a, NEW b, Of(S, a), Of(S, b)
  PROVE  Of(S, a \o b) /\ Len(a \o b) = Len(a) + Len(b)
BY ConcatProperties DEF Of

Join(a, b) == a \o b

LEMMA JoinedInTurn ==
  ASSUME NEW S, NEW a, NEW b, NEW c, Of(S, a), Of(S, b), Of(S, c)
  PROVE  (a \o b) \o c = a \o (b \o c)
BY ConcatAssociative DEF Of

LEMMA JoinedTwice ==
  \A S, a, b, c, d : Of(S, a) /\ Of(S, b) /\ Of(S, c) /\ Join(b, c) = d
                    => Join(Join(a, b), c) = Join(a, d)
<1> SUFFICES ASSUME NEW S, NEW a, NEW b, NEW c, Of(S, a), Of(S, b), Of(S, c)
             PROVE  Join(Join(a, b), c) = Join(a, Join(b, c))
  OBVIOUS
<1>1. (a \o b) \o c = a \o (b \o c)
  BY ONLY JoinedInTurn, Of(S, a), Of(S, b), Of(S, c)
<1> QED
  BY <1>1 DEF Join

LEMMA JoinedToNone ==
  ASSUME NEW S, NEW a, Of(S, a)
  PROVE  a \o <<>> = a /\ <<>> \o a = a
BY ConcatEmptySeq DEF Of

LEMMA EmptyText == (\A S : Of(S, <<>>)) /\ Len(<<>>) = 0
BY EmptySeq DEF Of

-----------------------------------------------------------------------------
(* Buffered input.                                                         *)

Chars == {BISource[i] : i \in DOMAIN BISource}

(* The parts, one after the other, are the input behind its first from     *)
(* characters.                                                             *)
InOrder(from, out, kept, chunk, input) == out \o kept \o chunk \o input = After(BISource, from)

(* Characters that move from one part to the part before it.               *)
LEMMA Refilled ==
  ASSUME NEW from, NEW out, NEW kept, NEW input, Of(Chars, out), Of(Chars, kept), Of(Chars, input),
         NEW n \in 0 .. Len(input)
  PROVE  InOrder(from, out, kept, First(input, n), After(input, n))
           <=> InOrder(from, out, kept, <<>>, input)
<1>1. Of(Chars, First(input, n)) /\ Of(Chars, After(input, n)) /\ First(input, n) \o After(input, n) = input
  BY TextCut
<1>2. Of(Chars, out \o kept)
  BY TextsJoined
<1>3. ((out \o kept) \o First(input, n)) \o After(input, n) = (out \o kept) \o input
  <2>1. Join(First(input, n), After(input, n)) = input
    BY <1>1 DEF Join
  <2>2. Join(Join(out \o kept, First(input, n)), After(input, n)) = Join(out \o kept, input)
    BY <1>1, <1>2, <2>1, JoinedTwice
  <2> QED BY <2>2 DEF Join
<1>4. (out \o kept) \o <<>> = out \o kept
  BY <1>2, JoinedToNone
<1> QED
  BY <1>3, <1>4 DEF InOrder

LEMMA ChunkTaken ==
  ASSUME NEW from, NEW out, NEW kept, NEW chunk, NEW input, Of(Chars, out), Of(Chars, kept), Of(Chars, chunk),
         NEW n \in 0 .. Len(chunk)
  PROVE  InOrder(from, out, kept \o First(chunk, n), After(chunk, n), input)
           <=> InOrder(from, out, kept, chunk, input)
<1>1. Of(Chars, First(chunk, n)) /\ Of(Chars, After(chunk, n)) /\ First(chunk, n) \o After(chunk, n) = chunk
  BY TextCut
<1>2. Of(Chars, out \o kept)
  BY TextsJoined
<1>3. (out \o kept) \o First(chunk, n) = out \o (kept \o First(chunk, n))
  <2>1. Join(Join(out, kept), First(chunk, n)) = Join(out, Join(kept, First(chunk, n)))
    BY <1>1, JoinedTwice
  <2> QED BY <2>1 DEF Join
<1>4. ((out \o kept) \o First(chunk, n)) \o After(chunk, n) = (out \o kept) \o chunk
  <2>1. Join(First(chunk, n), After(chunk, n)) = chunk
    BY <1>1 DEF Join
  <2>2. Join(Join(out \o kept, First(chunk, n)), After(chunk, n)) = Join(out \o kept, chunk)
    BY <1>1, <1>2, <2>1, JoinedTwice
  <2> QED BY <2>2 DEF Join
<1> QED
  BY <1>3, <1>4 DEF InOrder

LEMMA KeptTaken ==
  ASSUME NEW from, NEW out, NEW kept, NEW chunk, NEW input, Of(Chars, out), Of(Chars, kept),
         NEW n \in 0 .. Len(kept)
  PROVE  InOrder(from, out \o First(kept, n), After(kept, n), chunk, input)
           <=> InOrder(from, out, kept, chunk, input)
<1>1. Of(Chars, First(kept, n)) /\ Of(Chars, After(kept, n)) /\ First(kept, n) \o After(kept, n) = kept
  BY TextCut
<1>2. (out \o First(kept, n)) \o After(kept, n) = out \o kept
  <2>1. Join(First(kept, n), After(kept, n)) = kept
    BY <1>1 DEF Join
  <2>2. Join(Join(out, First(kept, n)), After(kept, n)) = Join(out, kept)
    BY <1>1, <2>1, JoinedTwice
  <2> QED BY <2>2 DEF Join
<1> QED
  BY <1>2 DEF InOrder

LEMMA KeptOut ==
  ASSUME NEW from, NEW out, NEW kept, NEW chunk, NEW input, Of(Chars, out), Of(Chars, kept)
  PROVE  InOrder(from, out \o kept, <<>>, chunk, input) <=> InOrder(from, out, kept, chunk, input)
<1>1. Of(Chars, out \o kept)
  BY TextsJoined
<1>2. (out \o kept) \o <<>> = out \o kept
  BY <1>1, JoinedToNone
<1> QED
  BY <1>2 DEF InOrder

(* Both at once: what the buffer keeps and the chunk's beginning go out.   *)
LEMMA ChunkOut ==
  ASSUME NEW from, NEW out, NEW kept, NEW chunk, NEW input, Of(Chars, out), Of(Chars, kept), Of(Chars, chunk),
         NEW n \in 0 .. Len(chunk)
  PROVE  /\ InOrder(from, out \o (kept \o First(chunk, n)), <<>>, After(chunk, n), input)
              <=> InOrder(from, out, kept, chunk, input)
         /\ Of(Chars, out \o (kept \o First(chunk, n))) /\ Of(Chars, After(chunk, n))
<1>1. Of(Chars, First(chunk, n)) /\ Of(Chars, After(chunk, n))
  BY TextCut
<1>2. Of(Chars, kept \o First(chunk, n))
  BY <1>1, TextsJoined
<1>3. Of(Chars, out \o (kept \o First(chunk, n)))
  BY <1>2, TextsJoined
<1>4. InOrder(from, out \o (kept \o First(chunk, n)), <<>>, After(chunk, n), input)
        <=> InOrder(from, out, kept \o First(chunk, n), After(chunk, n), input)
  BY <1>2, KeptOut
<1>5. InOrder(from, out, kept \o First(chunk, n), After(chunk, n), input)
        <=> InOrder(from, out, kept, chunk, input)
  BY ChunkTaken
<1> QED
  BY <1>1, <1>3, <1>4, <1>5

(* What was handed out and what is kept are the beginning of the text: the *)
(* chunk and the input are what is behind them.                            *)
LEMMA TextBehind ==
  \A S, a, b, s : \A m \in 0 .. Len(s) :
     Of(S, a) /\ Of(S, b) /\ Of(S, s) /\ Join(a, b) = After(s, m)
       => m + Len(a) \in 0 .. Len(s) /\ b = After(s, m + Len(a))
<1> SUFFICES ASSUME NEW S, NEW a, NEW b, NEW s, Of(S, a), Of(S, b), Of(S, s),
                    NEW m \in 0 .. Len(s), Join(a, b) = After(s, m)
             PROVE  m + Len(a) \in 0 .. Len(s) /\ b = After(s, m + Len(a))
  OBVIOUS
<1> DEFINE t == After(s, m)
           u == After(s, m + Len(a))
<1>1. Len(a) \in Nat /\ Len(b) \in Nat /\ Len(s) \in Nat /\ m \in Nat /\ m <= Len(s)
  BY DEF Of
<1>2. /\ t \in Seq(S) /\ Len(t) = Len(s) - m
      /\ \A i \in 1 .. Len(s) - m : t[i] = s[m + i]
  BY <1>1, BehindText DEF Of
<1>3. /\ Len(a \o b) = Len(a) + Len(b)
      /\ \A i \in 1 .. Len(a) + Len(b) : (a \o b)[i] = IF i <= Len(a) THEN a[i] ELSE b[i - Len(a)]
  BY ConcatProperties DEF Of
<1>4. a \o b = t
  BY DEF Join
<1> HIDE DEF t
<1>5. Len(a) + Len(b) = Len(s) - m
  BY <1>2, <1>3, <1>4
<1>6. m + Len(a) \in 0 .. Len(s)
  BY <1>1, <1>5
<1>7. /\ u \in Seq(S) /\ Len(u) = Len(s) - (m + Len(a))
      /\ \A i \in 1 .. Len(s) - (m + Len(a)) : u[i] = s[(m + Len(a)) + i]
  BY <1>6, BehindText DEF Of
<1> HIDE DEF u
<1>8. Len(u) = Len(b)
  BY <1>1, <1>5, <1>7
<1>9. ASSUME NEW i \in 1 .. Len(b) PROVE b[i] = u[i]
  <2>1. Len(a) + i \in 1 .. Len(a) + Len(b) /\ ~(Len(a) + i <= Len(a)) /\ (Len(a) + i) - Len(a) = i
    BY <1>1
  <2>2. b[i] = t[Len(a) + i]
    BY <1>3, <1>4, <2>1
  <2>3. t[Len(a) + i] = s[m + (Len(a) + i)]
    BY <1>2, <1>5, <2>1
  <2>4. u[i] = s[(m + Len(a)) + i]
    BY <1>7, <1>8
  <2>5. m + (Len(a) + i) = (m + Len(a)) + i
    BY <1>1
  <2> QED BY <2>2, <2>3, <2>4, <2>5
<1>10. b = u
  <2>1. b \in Seq(S)
    BY DEF Of
  <2> QED BY <1>7, <1>8, <1>9, <2>1, SeqEqual
<1> QED
  BY <1>6, <1>10 DEF u

(* What is kept is dropped: the order goes on behind it.                   *)
LEMMA KeptDropped ==
  ASSUME NEW from \in 0 .. Len(BISource), NEW out, NEW kept, NEW chunk, NEW input,
         Of(Chars, out), Of(Chars, kept), Of(Chars, chunk), Of(Chars, input),
         InOrder(from, out, kept, chunk, input)
  PROVE  /\ from + Len(out) + Len(kept) \in 0 .. Len(BISource)
         /\ InOrder(from + Len(out) + Len(kept), <<>>, <<>>, chunk, input)
<1> DEFINE a == out \o kept
           b == chunk \o input
<1>1. Of(Chars, a) /\ Len(a) = Len(out) + Len(kept) /\ Of(Chars, b)
  BY TextsJoined
<1>2. Join(a, b) = After(BISource, from)
  <2>1. Join(Join(out \o kept, chunk), input) = Join(out \o kept, Join(chunk, input))
    BY <1>1, JoinedTwice
  <2> QED BY <2>1 DEF InOrder, Join
<1>3. Of(Chars, BISource)
  BY BufferedIoAssumption DEF Chars, Of
<1> HIDE DEF a, b
<1>4. from + Len(a) \in 0 .. Len(BISource) /\ b = After(BISource, from + Len(a))
  BY <1>1, <1>2, <1>3, TextBehind
<1>5. from + Len(a) = from + Len(out) + Len(kept)
  BY <1>1, <1>3 DEF Of
<1>6. (<<>> \o <<>>) \o chunk = chunk
  BY JoinedToNone, EmptyText
<1> QED
  BY <1>4, <1>5, <1>6 DEF InOrder, b

-----------------------------------------------------------------------------
(* Lines.                                                                  *)

NoNewline(s) == \A i \in DOMAIN s : s[i] # "nl"
NoNewlines(lines) == \A line \in lines : NoNewline(line)

LEMMA NoNewlineJoined ==
  ASSUME NEW a, NEW b, Of(Chars, a), Of(Chars, b), NoNewline(a), NoNewline(b)
  PROVE  NoNewline(a \o b)
<1>1. /\ a \o b \in Seq(Chars) /\ Len(a \o b) = Len(a) + Len(b)
      /\ \A i \in 1 .. Len(a) + Len(b) :
           (a \o b)[i] = IF i <= Len(a) THEN a[i] ELSE b[i - Len(a)]
  BY ConcatProperties DEF Of
<1>2. Len(a) \in Nat /\ DOMAIN a = 1 .. Len(a) /\ Len(b) \in Nat /\ DOMAIN b = 1 .. Len(b)
  BY DEF Of
<1>3. DOMAIN (a \o b) = 1 .. Len(a) + Len(b)
  BY <1>1
<1>4. ASSUME NEW i \in 1 .. Len(a) + Len(b) PROVE (a \o b)[i] # "nl"
  <2>1. CASE i <= Len(a)
    <3>1. i \in DOMAIN a
      BY <1>2, <2>1
    <3> QED BY <1>1, <2>1, <3>1 DEF NoNewline
  <2>2. CASE ~(i <= Len(a))
    <3>1. i - Len(a) \in DOMAIN b
      BY <1>2, <2>2
    <3> QED BY <1>1, <2>2, <3>1 DEF NoNewline
  <2> QED BY <2>1, <2>2
<1> QED
  BY <1>3, <1>4 DEF NoNewline

LEMMA NewlineFirst ==
  ASSUME Of(Chars, bi_chunk)
  PROVE  /\ Newline \in 0 .. Len(bi_chunk)
         /\ \A j \in 1 .. Newline - 1 : bi_chunk[j] # "nl"
         /\ Newline = 0 => NoNewline(bi_chunk)
<1> DEFINE T == {i \in DOMAIN bi_chunk : bi_chunk[i] = "nl"}
<1>1. DOMAIN bi_chunk = 1 .. Len(bi_chunk) /\ Len(bi_chunk) \in Nat
  BY DEF Of
<1>2. CASE T = {}
  <2>1. Newline = 0
    BY <1>2 DEF Newline
  <2>2. NoNewline(bi_chunk)
    BY <1>2 DEF NoNewline
  <2> QED BY <1>1, <2>1, <2>2
<1>3. CASE T # {}
  <2>1. T \subseteq Nat
    BY <1>1
  <2>2. PICK x \in T : \A y \in T : x <= y
    <3> HIDE DEF T
    <3> QED BY <1>3, <2>1, LeastNatural
  <2>3. \A j \in 1 .. x - 1 : bi_chunk[j] # "nl"
    <3> SUFFICES ASSUME NEW j \in 1 .. x - 1, bi_chunk[j] = "nl" PROVE FALSE
      OBVIOUS
    <3>1. x \in 1 .. Len(bi_chunk)
      BY <1>1
    <3>2. j \in T
      BY <1>1, <3>1
    <3> QED BY <2>2, <3>1, <3>2
  <2>4. /\ Newline \in DOMAIN bi_chunk
        /\ \A j \in 1 .. Newline - 1 : bi_chunk[j] # "nl"
    BY <2>2, <2>3 DEF Newline
  <2> QED BY <1>1, <2>4
<1> QED
  BY <1>2, <1>3

-----------------------------------------------------------------------------
(* Buffered input.                                                         *)

IsCall(call) == call \in [op : {"none", "line", "string", "dead"}, n : Nat]

(* A line under way has taken no newline, a string not more than it asks.  *)
Fits(call, kept) ==
  /\ call.op = "line" => NoNewline(kept)
  /\ call.op = "string" => Len(kept) <= call.n

BI_Inv ==
  /\ Of(Chars, bi_input) /\ Of(Chars, bi_chunk) /\ Of(Chars, bi_kept) /\ Of(Chars, bi_out)
  /\ IsCall(bi_call) /\ Fits(bi_call, bi_kept)
  /\ bi_from \in 0 .. Len(BISource)
  /\ InOrder(bi_from, bi_out, bi_kept, bi_chunk, bi_input)
  /\ NoNewlines(bi_lines)

LEMMA NoCallFits == IsCall(NoCall) /\ NoCall.op = "none" /\ \A kept : Fits(NoCall, kept)
BY DEF IsCall, NoCall, Fits

LEMMA BI_CallsKeep == ASSUME BI_Inv, BI_GetLine \/ BI_Fails PROVE BI_Inv'
<1>1. CASE BI_GetLine
  <2>1. /\ bi_kept = <<>> /\ bi_call' = [op |-> "line", n |-> 0]
        /\ UNCHANGED <<bi_input, bi_chunk, bi_kept, bi_out, bi_lines, bi_from>>
    BY <1>1 DEF BI_GetLine
  <2>2. Fits(bi_call', bi_kept) /\ IsCall(bi_call')
    BY <2>1 DEF NoNewline, Fits, IsCall
  <2> QED BY <2>1, <2>2 DEF BI_Inv
<1>2. CASE BI_Fails
  <2>1. /\ bi_call' = NoCall
        /\ UNCHANGED <<bi_input, bi_chunk, bi_kept, bi_out, bi_lines, bi_from>>
    BY <1>2 DEF BI_Fails
  <2> QED BY <2>1, NoCallFits DEF BI_Inv
<1> QED
  BY <1>1, <1>2

LEMMA BI_RefillKeeps == ASSUME BI_Inv, BI_Refill PROVE BI_Inv'
<1>1. PICK k \in 1 .. Len(bi_input) :
        bi_chunk' = First(bi_input, k) /\ bi_input' = After(bi_input, k)
  BY DEF BI_Refill
<1>2. /\ bi_chunk = <<>>
      /\ UNCHANGED <<bi_kept, bi_call, bi_out, bi_lines, bi_from>>
  BY DEF BI_Refill
<1>3. Of(Chars, bi_input) /\ Of(Chars, bi_kept) /\ Of(Chars, bi_out)
  BY DEF BI_Inv
<1>4. k \in 0 .. Len(bi_input)
  BY <1>3 DEF Of
<1>5. Of(Chars, bi_chunk') /\ Of(Chars, bi_input')
  BY <1>1, <1>3, <1>4, TextCut
<1>6. InOrder(bi_from, bi_out, bi_kept, bi_chunk', bi_input') <=> InOrder(bi_from, bi_out, bi_kept, bi_chunk, bi_input)
  BY <1>1, <1>2, <1>3, <1>4, Refilled
<1> QED
  BY <1>2, <1>5, <1>6 DEF BI_Inv

LEMMA BI_GetStringKeeps == ASSUME BI_Inv, BI_GetString PROVE BI_Inv'
<1>1. PICK n \in BILengths :
       \/ /\ Len(bi_kept) > n
          /\ HandOut(First(bi_kept, n))
          /\ bi_kept' = After(bi_kept, n)
          /\ UNCHANGED <<bi_call, bi_from>>
       \/ /\ Len(bi_kept) = n
          /\ bi_kept' = <<>>
          /\ bi_call' = [op |-> "string", n |-> n]
          /\ bi_from' = IF n = 0 THEN bi_from ELSE bi_from + Len(bi_out) + n
          /\ bi_out' = IF n = 0 THEN bi_out ELSE <<>>
       \/ /\ Len(bi_kept) < n
          /\ bi_call' = [op |-> "string", n |-> n]
          /\ UNCHANGED <<bi_kept, bi_out, bi_from>>
  BY DEF BI_GetString
<1>2. bi_call = NoCall /\ UNCHANGED <<bi_input, bi_chunk, bi_lines>>
  BY DEF BI_GetString
<1>3. n \in Nat /\ Len(bi_kept) \in Nat /\ Of(Chars, bi_kept) /\ Of(Chars, bi_out)
  BY BufferedIoAssumption DEF BI_Inv, Of
<1>4. CASE /\ Len(bi_kept) > n
           /\ HandOut(First(bi_kept, n))
           /\ bi_kept' = After(bi_kept, n)
           /\ UNCHANGED <<bi_call, bi_from>>
  <2>1. n \in 0 .. Len(bi_kept)
    BY <1>3, <1>4
  <2>2. bi_out' = bi_out \o First(bi_kept, n)
    BY <1>4 DEF HandOut
  <2>3. Of(Chars, First(bi_kept, n)) /\ Of(Chars, bi_kept')
    BY <1>3, <1>4, <2>1, TextCut
  <2>4. Of(Chars, bi_out')
    BY <1>3, <2>2, <2>3, TextsJoined
  <2>5. InOrder(bi_from, bi_out', bi_kept', bi_chunk, bi_input) <=> InOrder(bi_from, bi_out, bi_kept, bi_chunk, bi_input)
    BY <1>3, <1>4, <2>1, <2>2, KeptTaken
  <2> QED BY <1>2, <1>4, <2>3, <2>4, <2>5, NoCallFits DEF BI_Inv
<1>5. CASE /\ Len(bi_kept) = n
           /\ bi_kept' = <<>>
           /\ bi_call' = [op |-> "string", n |-> n]
           /\ bi_from' = IF n = 0 THEN bi_from ELSE bi_from + Len(bi_out) + n
           /\ bi_out' = IF n = 0 THEN bi_out ELSE <<>>
  <2>1. IsCall(bi_call') /\ Fits(bi_call', bi_kept') /\ Of(Chars, bi_kept')
    <3>1. IsCall([op |-> "string", n |-> n])
      BY <1>3 DEF IsCall
    <3>2. Fits([op |-> "string", n |-> n], <<>>)
      BY <1>3, EmptyText DEF Fits
    <3> QED BY <1>5, <3>1, <3>2, EmptyText
  <2>2. CASE n = 0
    <3>1. bi_kept = <<>>
      BY <1>3, <1>5, <2>2 DEF Of
    <3> QED BY <1>2, <1>5, <2>1, <2>2, <3>1 DEF BI_Inv
  <2>3. CASE n # 0
    <3>1. bi_from' = bi_from + Len(bi_out) + Len(bi_kept) /\ bi_out' = <<>>
      BY <1>5, <2>3
    <3>2. /\ bi_from \in 0 .. Len(BISource)
          /\ InOrder(bi_from, bi_out, bi_kept, bi_chunk, bi_input)
          /\ Of(Chars, bi_chunk) /\ Of(Chars, bi_input)
      BY DEF BI_Inv
    <3>3. /\ bi_from' \in 0 .. Len(BISource)
          /\ InOrder(bi_from', <<>>, <<>>, bi_chunk, bi_input)
      BY <1>3, <3>1, <3>2, KeptDropped
    <3> QED BY <1>2, <1>5, <2>1, <3>1, <3>3, EmptyText DEF BI_Inv
  <2> QED BY <2>2, <2>3
<1>6. CASE /\ Len(bi_kept) < n
           /\ bi_call' = [op |-> "string", n |-> n]
           /\ UNCHANGED <<bi_kept, bi_out, bi_from>>
  <2>1. IsCall([op |-> "string", n |-> n]) /\ Fits([op |-> "string", n |-> n], bi_kept)
    BY <1>3, <1>6 DEF IsCall, Fits
  <2> QED BY <1>2, <1>6, <2>1 DEF BI_Inv
<1> QED
  BY <1>1, <1>4, <1>5, <1>6

LEMMA BI_LastLineKeeps == ASSUME BI_Inv, BI_LastLine PROVE BI_Inv'
<1>1. /\ bi_out' = bi_out \o bi_kept /\ bi_kept' = <<>>
      /\ bi_lines' = bi_lines \cup {bi_kept} /\ bi_call' = NoCall
      /\ bi_call.op = "line" /\ UNCHANGED <<bi_input, bi_chunk, bi_from>>
  BY DEF BI_LastLine, HandOut
<1>2. Of(Chars, bi_kept) /\ Of(Chars, bi_out) /\ NoNewline(bi_kept) /\ NoNewlines(bi_lines)
  BY <1>1 DEF BI_Inv, Fits
<1>3. Of(Chars, bi_out')
  BY <1>1, <1>2, TextsJoined
<1>4. InOrder(bi_from, bi_out', bi_kept', bi_chunk, bi_input) <=> InOrder(bi_from, bi_out, bi_kept, bi_chunk, bi_input)
  BY <1>1, <1>2, KeptOut
<1>5. NoNewlines(bi_lines')
  BY <1>1, <1>2 DEF NoNewlines
<1> QED
  BY <1>1, <1>3, <1>4, <1>5, NoCallFits, EmptyText DEF BI_Inv

(* The line and the rest of its end are the beginning of the chunk.        *)
LEMMA LineAndEnd ==
  ASSUME NEW chunk, Of(Chars, chunk), NEW end \in 0 .. Len(chunk), NEW length \in 0 .. end
  PROVE  /\ Of(Chars, SubSeq(chunk, length + 1, end))
         /\ First(chunk, length) \o SubSeq(chunk, length + 1, end) = First(chunk, end)
<1> DEFINE f == First(chunk, end)
           rest == SubSeq(chunk, length + 1, end)
<1>1. /\ Of(Chars, f) /\ Len(f) = end /\ \A i \in 1 .. end : f[i] = chunk[i]
  BY TextCut
<1>2. Len(chunk) \in Nat /\ end \in Nat /\ length \in 0 .. Len(chunk)
  BY DEF Of
<1>3. /\ Of(Chars, First(chunk, length)) /\ Len(First(chunk, length)) = length
      /\ \A i \in 1 .. length : First(chunk, length)[i] = chunk[i]
  BY <1>2, TextCut
<1>4. /\ Of(Chars, First(f, length)) /\ Len(First(f, length)) = length
      /\ \A i \in 1 .. length : First(f, length)[i] = f[i]
      /\ First(f, length) \o After(f, length) = f
  <2> HIDE DEF f
  <2>1. length \in 0 .. Len(f)
    BY <1>1, <1>2
  <2> QED BY <1>1, <2>1, TextCut
<1> HIDE DEF f
<1>5. First(f, length) = First(chunk, length)
  <2>1. First(f, length) \in Seq(Chars) /\ First(chunk, length) \in Seq(Chars)
    BY <1>3, <1>4 DEF Of
  <2>2. \A i \in 1 .. length : First(f, length)[i] = First(chunk, length)[i]
    BY <1>1, <1>2, <1>3, <1>4
  <2> QED BY <1>3, <1>4, <2>1, <2>2, SeqEqual
<1>6. /\ length + 1 \in Int /\ end \in Int
      /\ \A i \in length + 1 .. end : chunk[i] \in Chars /\ f[i] \in Chars /\ f[i] = chunk[i]
  BY <1>1, <1>2 DEF Of
<1>7. /\ rest \in Seq(Chars)
      /\ Len(rest) = IF length + 1 <= end THEN end - (length + 1) + 1 ELSE 0
      /\ \A i \in 1 .. end - (length + 1) + 1 : rest[i] = chunk[(length + 1) + i - 1]
  BY <1>6, SubSeqProperties
<1>8. /\ SubSeq(f, length + 1, end) \in Seq(Chars)
      /\ Len(SubSeq(f, length + 1, end)) = IF length + 1 <= end THEN end - (length + 1) + 1 ELSE 0
      /\ \A i \in 1 .. end - (length + 1) + 1 : SubSeq(f, length + 1, end)[i] = f[(length + 1) + i - 1]
  BY <1>6, SubSeqProperties
<1> HIDE DEF rest
<1>9. SubSeq(f, length + 1, end) = rest
  <2>1. \A i \in 1 .. end - (length + 1) + 1 : (length + 1) + i - 1 \in length + 1 .. end
    BY <1>2
  <2>2. \A i \in 1 .. end - (length + 1) + 1 : rest[i] = SubSeq(f, length + 1, end)[i]
    BY <1>6, <1>7, <1>8, <2>1
  <2>3. Len(rest) = end - (length + 1) + 1 /\ Len(SubSeq(f, length + 1, end)) = end - (length + 1) + 1
    BY <1>2, <1>7, <1>8
  <2> QED BY <1>7, <1>8, <2>2, <2>3, SeqEqual
<1>10. After(f, length) = rest
  BY <1>1, <1>9 DEF After
<1> QED
  BY <1>4, <1>5, <1>7, <1>10 DEF Of, f, rest

LEMMA BI_LineEndsKeeps == ASSUME BI_Inv, BI_LineEnds PROVE BI_Inv'
<1> DEFINE previous == IF Newline = 1 THEN bi_before ELSE bi_chunk[Newline - 1]
           length == IF previous = "cr" /\ Newline > 1 THEN Newline - 2 ELSE Newline - 1
           line == bi_kept \o First(bi_chunk, length)
           rest == SubSeq(bi_chunk, length + 1, Newline)
<1>1. /\ bi_call.op = "line" /\ Newline > 0
      /\ UNCHANGED <<bi_input, bi_from>>
      /\ IF Newline = 1 /\ previous = "cr" /\ bi_kept = <<>>
         THEN /\ bi_call' = [op |-> "dead", n |-> 0]
              /\ UNCHANGED <<bi_chunk, bi_before, bi_kept, bi_out, bi_lines>>
         ELSE /\ HandOut(line \o rest)
              /\ bi_lines' = bi_lines \cup {line}
              /\ bi_kept' = <<>>
              /\ Advance(Newline)
              /\ bi_call' = NoCall
  BY DEF BI_LineEnds
<1>2. /\ Of(Chars, bi_kept) /\ Of(Chars, bi_out) /\ Of(Chars, bi_chunk)
      /\ NoNewline(bi_kept) /\ NoNewlines(bi_lines)
  BY <1>1 DEF BI_Inv, Fits
<1>3. CASE Newline = 1 /\ previous = "cr" /\ bi_kept = <<>>
  <2>1. /\ bi_call' = [op |-> "dead", n |-> 0]
        /\ UNCHANGED <<bi_chunk, bi_before, bi_kept, bi_out, bi_lines>>
    BY <1>1, <1>3
  <2>2. IsCall([op |-> "dead", n |-> 0]) /\ Fits([op |-> "dead", n |-> 0], bi_kept)
    BY DEF IsCall, Fits
  <2> QED BY <1>1, <2>1, <2>2 DEF BI_Inv
<1>4. CASE ~(Newline = 1 /\ previous = "cr" /\ bi_kept = <<>>)
  <2>1. /\ bi_out' = bi_out \o (line \o rest)
        /\ bi_lines' = bi_lines \cup {line} /\ bi_kept' = <<>>
        /\ bi_chunk' = After(bi_chunk, Newline) /\ bi_call' = NoCall
    BY <1>1, <1>4 DEF HandOut, Advance
  <2>2. /\ Newline \in 0 .. Len(bi_chunk) /\ Newline \in Nat \ {0}
        /\ \A j \in 1 .. Newline - 1 : bi_chunk[j] # "nl"
    BY <1>1, <1>2, NewlineFirst
  <2>3. length \in 0 .. Newline - 1 /\ length \in 0 .. Newline /\ length \in 0 .. Len(bi_chunk)
    BY <2>2
  <2> HIDE DEF previous, length
  <2>4. /\ Of(Chars, First(bi_chunk, length)) /\ Len(First(bi_chunk, length)) = length
        /\ \A i \in 1 .. length : First(bi_chunk, length)[i] = bi_chunk[i]
    BY <1>2, <2>3, TextCut
  <2>5. Of(Chars, rest) /\ First(bi_chunk, length) \o rest = First(bi_chunk, Newline)
    BY <1>2, <2>2, <2>3, LineAndEnd
  <2>6. NoNewline(First(bi_chunk, length))
    <3>1. DOMAIN First(bi_chunk, length) = 1 .. length
      BY <2>4 DEF Of
    <3>2. \A i \in 1 .. length : i \in 1 .. Newline - 1
      BY <2>2, <2>3
    <3> QED BY <2>2, <2>4, <3>1, <3>2 DEF NoNewline
  <2>7. NoNewline(line)
    BY <1>2, <2>4, <2>6, NoNewlineJoined
  <2>8. line \o rest = bi_kept \o First(bi_chunk, Newline)
    <3>1. Join(First(bi_chunk, length), rest) = First(bi_chunk, Newline)
      BY <2>5 DEF Join
    <3>2. Join(Join(bi_kept, First(bi_chunk, length)), rest) = Join(bi_kept, First(bi_chunk, Newline))
      BY <1>2, <2>4, <2>5, <3>1, JoinedTwice
    <3> QED BY <3>2 DEF Join
  <2> HIDE DEF line, rest
  <2>9. /\ InOrder(bi_from, bi_out', bi_kept', bi_chunk', bi_input)
             <=> InOrder(bi_from, bi_out, bi_kept, bi_chunk, bi_input)
        /\ Of(Chars, bi_out') /\ Of(Chars, bi_chunk')
    BY <1>2, <2>1, <2>2, <2>8, ChunkOut
  <2>10. NoNewlines(bi_lines')
    BY <1>2, <2>1, <2>7 DEF NoNewlines
  <2> QED BY <1>1, <2>1, <2>9, <2>10, NoCallFits, EmptyText DEF BI_Inv
<1> QED
  BY <1>3, <1>4

LEMMA BI_GoesOnKeeps == ASSUME BI_Inv, BI_GoesOn PROVE BI_Inv'
<1>1. /\ \/ bi_call.op = "line" /\ Newline = 0
         \/ bi_call.op = "string" /\ Len(bi_kept) + Len(bi_chunk) < bi_call.n
      /\ bi_kept' = bi_kept \o bi_chunk
      /\ bi_chunk' = After(bi_chunk, Len(bi_chunk))
      /\ UNCHANGED <<bi_input, bi_call, bi_out, bi_lines, bi_from>>
  BY DEF BI_GoesOn, Advance
<1>2. /\ Of(Chars, bi_kept) /\ Of(Chars, bi_out) /\ Of(Chars, bi_chunk)
      /\ IsCall(bi_call) /\ Fits(bi_call, bi_kept)
  BY DEF BI_Inv
<1>3. Len(bi_chunk) \in 0 .. Len(bi_chunk) /\ Len(bi_chunk) \in Nat /\ Len(bi_kept) \in Nat
  BY <1>2 DEF Of
<1>4. Of(Chars, bi_kept') /\ Len(bi_kept') = Len(bi_kept) + Len(bi_chunk)
  BY <1>1, <1>2, TextsJoined
<1>5. /\ Of(Chars, First(bi_chunk, Len(bi_chunk))) /\ Of(Chars, bi_chunk')
      /\ Len(First(bi_chunk, Len(bi_chunk))) = Len(bi_chunk)
      /\ \A i \in 1 .. Len(bi_chunk) : First(bi_chunk, Len(bi_chunk))[i] = bi_chunk[i]
  BY <1>1, <1>2, <1>3, TextCut
<1>6. First(bi_chunk, Len(bi_chunk)) = bi_chunk
  <2> DEFINE f == First(bi_chunk, Len(bi_chunk))
  <2> HIDE DEF f
  <2>1. f \in Seq(Chars) /\ bi_chunk \in Seq(Chars) /\ Len(f) = Len(bi_chunk)
        /\ \A i \in 1 .. Len(f) : f[i] = bi_chunk[i]
    BY <1>2, <1>5 DEF Of, f
  <2>2. f = bi_chunk
    BY <2>1, SeqEqual
  <2> QED BY <2>2 DEF f
<1>7. InOrder(bi_from, bi_out, bi_kept', bi_chunk', bi_input) <=> InOrder(bi_from, bi_out, bi_kept, bi_chunk, bi_input)
  BY <1>1, <1>2, <1>3, <1>6, ChunkTaken
<1>8. Fits(bi_call, bi_kept')
  <2>1. CASE bi_call.op = "line" /\ Newline = 0
    <3>1. NoNewline(bi_kept) /\ NoNewline(bi_chunk)
      BY <1>2, <2>1, NewlineFirst DEF Fits
    <3>2. NoNewline(bi_kept')
      BY <1>1, <1>2, <3>1, NoNewlineJoined
    <3> QED BY <2>1, <3>2 DEF Fits
  <2>2. CASE bi_call.op = "string" /\ Len(bi_kept) + Len(bi_chunk) < bi_call.n
    <3>1. Len(bi_kept') <= bi_call.n
      BY <1>2, <1>3, <1>4, <2>2 DEF IsCall
    <3> QED BY <2>2, <3>1 DEF Fits
  <2> QED BY <1>1, <2>1, <2>2
<1> QED
  BY <1>1, <1>4, <1>5, <1>7, <1>8 DEF BI_Inv

LEMMA BI_StringEndsKeeps == ASSUME BI_Inv, BI_StringEnds PROVE BI_Inv'
<1> DEFINE m == bi_call.n - Len(bi_kept)
<1>1. /\ bi_call.op = "string" /\ Len(bi_kept) + Len(bi_chunk) >= bi_call.n
      /\ bi_out' = bi_out \o (bi_kept \o First(bi_chunk, m))
      /\ bi_chunk' = After(bi_chunk, m) /\ bi_kept' = <<>> /\ bi_call' = NoCall
      /\ UNCHANGED <<bi_input, bi_lines, bi_from>>
  BY DEF BI_StringEnds, HandOut, Advance
<1>2. Of(Chars, bi_kept) /\ Of(Chars, bi_out) /\ Of(Chars, bi_chunk)
  BY DEF BI_Inv
<1>3. m \in 0 .. Len(bi_chunk)
  BY <1>1, <1>2 DEF BI_Inv, Fits, IsCall, Of
<1> HIDE DEF m
<1>4. /\ InOrder(bi_from, bi_out', bi_kept', bi_chunk', bi_input)
           <=> InOrder(bi_from, bi_out, bi_kept, bi_chunk, bi_input)
      /\ Of(Chars, bi_out') /\ Of(Chars, bi_chunk')
  BY <1>1, <1>2, <1>3, ChunkOut
<1> QED
  BY <1>1, <1>4, NoCallFits, EmptyText DEF BI_Inv

(* What a call takes is never more than there is.                          *)
LEMMA LeastInside ==
  ASSUME NEW n \in Nat, NEW text, Of(Chars, text)
  PROVE  Least(n, text) \in 0 .. Len(text)
BY DEF Least, Of

LEMMA BI_ReadKeeps == ASSUME BI_Inv, BI_Read PROVE BI_Inv'
<1>1. PICK n \in BILengths :
       \/ /\ bi_kept # <<>>
          /\ HandOut(bi_kept)
          /\ bi_kept' = <<>>
          /\ UNCHANGED <<bi_input, bi_chunk, bi_before>>
       \/ /\ bi_kept = <<>> /\ bi_chunk # <<>>
          /\ HandOut(First(bi_chunk, Least(n, bi_chunk)))
          /\ Advance(Least(n, bi_chunk))
          /\ UNCHANGED <<bi_input, bi_kept>>
       \/ /\ bi_kept = <<>> /\ bi_chunk = <<>>
          /\ \E k \in 1 .. Len(bi_input) :
               LET chunk == First(bi_input, k)  taken == Least(n, chunk) IN
               /\ HandOut(First(chunk, taken))
               /\ bi_chunk' = After(chunk, taken)
               /\ bi_before' = chunk[taken]
               /\ bi_input' = After(bi_input, k)
          /\ UNCHANGED bi_kept
  BY DEF BI_Read
<1>2. /\ bi_call = NoCall /\ UNCHANGED <<bi_call, bi_lines, bi_from>>
      /\ n \in Nat
      /\ Of(Chars, bi_kept) /\ Of(Chars, bi_out) /\ Of(Chars, bi_chunk) /\ Of(Chars, bi_input)
  BY BufferedIoAssumption DEF BI_Read, BI_Inv
<1>3. CASE bi_kept # <<>> /\ HandOut(bi_kept) /\ bi_kept' = <<>>
           /\ UNCHANGED <<bi_input, bi_chunk, bi_before>>
  <2>1. bi_out' = bi_out \o bi_kept
    BY <1>3 DEF HandOut
  <2>2. Of(Chars, bi_out')
    BY <1>2, <2>1, TextsJoined
  <2>3. InOrder(bi_from, bi_out', bi_kept', bi_chunk, bi_input) <=> InOrder(bi_from, bi_out, bi_kept, bi_chunk, bi_input)
    BY <1>2, <1>3, <2>1, KeptOut
  <2> QED BY <1>2, <1>3, <2>2, <2>3, NoCallFits, EmptyText DEF BI_Inv
<1>4. CASE /\ bi_kept = <<>> /\ bi_chunk # <<>>
           /\ HandOut(First(bi_chunk, Least(n, bi_chunk)))
           /\ Advance(Least(n, bi_chunk))
           /\ UNCHANGED <<bi_input, bi_kept>>
  <2> DEFINE m == Least(n, bi_chunk)
  <2>1. m \in 0 .. Len(bi_chunk)
    BY <1>2, LeastInside
  <2>2. bi_out' = bi_out \o First(bi_chunk, m) /\ bi_chunk' = After(bi_chunk, m)
    BY <1>4 DEF HandOut, Advance
  <2> HIDE DEF m
  <2>3. Of(Chars, First(bi_chunk, m)) /\ <<>> \o First(bi_chunk, m) = First(bi_chunk, m)
    <3>1. Of(Chars, First(bi_chunk, m))
      BY <1>2, <2>1, TextCut
    <3> QED BY <3>1, JoinedToNone
  <2>4. /\ InOrder(bi_from, bi_out', bi_kept', bi_chunk', bi_input)
             <=> InOrder(bi_from, bi_out, bi_kept, bi_chunk, bi_input)
        /\ Of(Chars, bi_out') /\ Of(Chars, bi_chunk')
    BY <1>2, <1>4, <2>1, <2>2, <2>3, ChunkOut
  <2> QED BY <1>2, <1>4, <2>4, NoCallFits DEF BI_Inv
<1>5. CASE /\ bi_kept = <<>> /\ bi_chunk = <<>>
           /\ \E k \in 1 .. Len(bi_input) :
                LET chunk == First(bi_input, k)  taken == Least(n, chunk) IN
                /\ HandOut(First(chunk, taken))
                /\ bi_chunk' = After(chunk, taken)
                /\ bi_before' = chunk[taken]
                /\ bi_input' = After(bi_input, k)
           /\ UNCHANGED bi_kept
  <2>1. PICK k \in 1 .. Len(bi_input) :
          /\ bi_out' = bi_out \o First(First(bi_input, k), Least(n, First(bi_input, k)))
          /\ bi_chunk' = After(First(bi_input, k), Least(n, First(bi_input, k)))
          /\ bi_input' = After(bi_input, k)
    BY <1>5 DEF HandOut
  <2> DEFINE c == First(bi_input, k)
             m == Least(n, c)
  <2>2. k \in 0 .. Len(bi_input)
    BY <1>2 DEF Of
  <2>3. Of(Chars, c) /\ Of(Chars, bi_input')
    BY <1>2, <2>1, <2>2, TextCut
  <2>4. InOrder(bi_from, bi_out, bi_kept, c, bi_input') <=> InOrder(bi_from, bi_out, bi_kept, bi_chunk, bi_input)
    BY <1>2, <1>5, <2>1, <2>2, Refilled
  <2>5. bi_out' = bi_out \o First(c, m) /\ bi_chunk' = After(c, m)
    BY <2>1
  <2> HIDE DEF c
  <2>6. m \in 0 .. Len(c)
    BY <1>2, <2>3, LeastInside
  <2> HIDE DEF m
  <2>7. <<>> \o First(c, m) = First(c, m)
    <3>1. Of(Chars, First(c, m))
      BY <2>3, <2>6, TextCut
    <3> QED BY <3>1, JoinedToNone
  <2>8. /\ InOrder(bi_from, bi_out', bi_kept', bi_chunk', bi_input') <=> InOrder(bi_from, bi_out, bi_kept, c, bi_input')
        /\ Of(Chars, bi_out') /\ Of(Chars, bi_chunk')
    BY <1>2, <1>5, <2>3, <2>5, <2>6, <2>7, ChunkOut
  <2> QED BY <1>2, <1>5, <2>3, <2>4, <2>8, NoCallFits DEF BI_Inv
<1> QED
  BY <1>1, <1>3, <1>4, <1>5

(* However the raw reads cut the input and whichever calls fail, buffered  *)
(* input comes out once and in order behind the last string that was       *)
(* dropped, and no line holds a newline.                                   *)
THEOREM InputInOrder == BI_Spec => []BI_InOrder
<1>1. BI_Init => BI_Inv
  <2> SUFFICES ASSUME BI_Init PROVE BI_Inv
    OBVIOUS
  <2>1. /\ bi_input = BISource /\ bi_chunk = <<>> /\ bi_kept = <<>> /\ bi_out = <<>>
        /\ bi_call = NoCall /\ bi_lines = {} /\ bi_from = 0
    BY DEF BI_Init
  <2>2. Of(Chars, BISource)
    BY BufferedIoAssumption DEF Chars, Of
  <2>3. InOrder(0, <<>>, <<>>, <<>>, BISource) /\ 0 \in 0 .. Len(BISource)
    <3>1. 0 \in 0 .. Len(BISource)
      BY <2>2 DEF Of
    <3>2. /\ Of(Chars, After(BISource, 0)) /\ Of(Chars, First(BISource, 0))
          /\ Len(First(BISource, 0)) = 0 /\ First(BISource, 0) \o After(BISource, 0) = BISource
      BY <2>2, <3>1, TextCut
    <3>3. First(BISource, 0) = <<>>
      BY <3>2 DEF Of
    <3>4. After(BISource, 0) = BISource
      BY <3>2, <3>3, JoinedToNone
    <3> QED BY <2>2, <3>1, <3>4, JoinedToNone, EmptyText DEF InOrder
  <2>4. NoNewlines(bi_lines)
    BY <2>1 DEF NoNewlines
  <2> QED BY <2>1, <2>2, <2>3, <2>4, NoCallFits, EmptyText DEF BI_Inv
<1>2. BI_Inv /\ [BI_Next]_bi_vars => BI_Inv'
  <2> SUFFICES ASSUME BI_Inv, [BI_Next]_bi_vars PROVE BI_Inv'
    OBVIOUS
  <2>1. CASE UNCHANGED bi_vars
    BY <2>1 DEF bi_vars, BI_Inv
  <2>2. CASE BI_Next
    BY <2>2, BI_CallsKeep, BI_GetStringKeeps, BI_RefillKeeps, BI_LastLineKeeps,
       BI_LineEndsKeeps, BI_GoesOnKeeps, BI_StringEndsKeeps, BI_ReadKeeps
    DEF BI_Next
  <2> QED BY <2>1, <2>2
<1>3. BI_Inv => BI_InOrder
  BY DEF BI_Inv, BI_InOrder, InOrder, NoNewlines, NoNewline
<1> QED
  BY <1>1, <1>2, <1>3, PTL DEF BI_Spec

-----------------------------------------------------------------------------
(* Files in memory.                                                        *)

(* What was printed to a file: in the buffer, the pipe, the write of the   *)
(* stream and the stream, or its beginning in a buffer that is full.       *)
AllThere(limit, buffer, pipe, writing, stdio, printed) ==
  IF limit = 0 \/ Len(buffer) < limit
  THEN buffer \o pipe \o writing \o stdio = Counted(printed)
  ELSE buffer = Counted(limit)

LEMMA CountedText ==
  ASSUME NEW n \in Nat
  PROVE  /\ Of(Nat, Counted(n)) /\ Len(Counted(n)) = n
         /\ \A i \in 1 .. n : Counted(n)[i] = i
<1>1. Counted(n) \in [1 .. n -> Nat]
  BY DEF Counted
<1>2. Counted(n) \in Seq(Nat) /\ Len(Counted(n)) = n
  BY <1>1
<1> QED
  BY <1>2 DEF Of, Counted

LEMMA CountedOn ==
  ASSUME NEW n \in Nat
  PROVE  Join(Counted(n), <<n + 1>>) = Counted(n + 1)
<1> DEFINE c == Counted(n)  d == Counted(n + 1)  l == <<n + 1>>  j == c \o l
<1>1. /\ c \in Seq(Nat) /\ Len(c) = n /\ \A i \in 1 .. n : c[i] = i
      /\ d \in Seq(Nat) /\ Len(d) = n + 1 /\ \A i \in 1 .. n + 1 : d[i] = i
  BY CountedText, n + 1 \in Nat DEF Of
<1>2. l \in Seq(Nat) /\ Len(l) = 1 /\ l[1] = n + 1
  OBVIOUS
<1> HIDE DEF c, d, l
<1>3. /\ j \in Seq(Nat) /\ Len(j) = Len(c) + Len(l)
      /\ \A i \in 1 .. Len(c) + Len(l) : j[i] = IF i <= Len(c) THEN c[i] ELSE l[i - Len(c)]
  <2>1. c \in Seq(Nat) /\ l \in Seq(Nat)
    BY <1>1, <1>2
  <2> QED BY ONLY <2>1, ConcatProperties DEF j
<1> HIDE DEF j
<1>4. Len(j) = n + 1 /\ \A i \in 1 .. n + 1 : j[i] = IF i <= n THEN c[i] ELSE l[i - n]
  BY <1>1, <1>2, <1>3
<1>5. \A i \in 1 .. n + 1 : j[i] = i
  <2> SUFFICES ASSUME NEW i \in 1 .. n + 1 PROVE j[i] = i
    OBVIOUS
  <2>1. CASE i <= n
    BY <1>1, <1>4, <2>1
  <2>2. CASE i = n + 1
    BY <1>2, <1>4, <2>2
  <2> QED BY <2>1, <2>2
<1>6. j = d
  BY <1>1, <1>3, <1>4, <1>5, SeqEqual
<1> QED
  BY <1>6 DEF c, d, l, j, Join

(* A text that is the beginning of what was printed is a smaller count.    *)
LEMMA CountedBegins ==
  ASSUME NEW a, NEW b, NEW n \in Nat, Of(Nat, a), Of(Nat, b), Join(a, b) = Counted(n)
  PROVE  a = Counted(Len(a))
<1> DEFINE c == Counted(n)  d == Counted(Len(a))
<1>1. a \in Seq(Nat) /\ b \in Seq(Nat) /\ Len(a) \in Nat /\ Len(b) \in Nat
  BY DEF Of
<1>2. /\ Len(a \o b) = Len(a) + Len(b)
      /\ \A i \in 1 .. Len(a) + Len(b) : (a \o b)[i] = IF i <= Len(a) THEN a[i] ELSE b[i - Len(a)]
  BY <1>1, ConcatProperties
<1>3. a \o b = c
  BY DEF Join
<1>4. /\ Len(c) = n /\ \A i \in 1 .. n : c[i] = i
      /\ d \in Seq(Nat) /\ Len(d) = Len(a) /\ \A i \in 1 .. Len(a) : d[i] = i
  BY <1>1, CountedText DEF Of
<1> HIDE DEF c, d
<1>5. Len(a) <= n /\ \A i \in 1 .. Len(a) : c[i] = a[i]
  BY <1>1, <1>2, <1>3, <1>4
<1>6. \A i \in 1 .. Len(a) : a[i] = d[i]
  BY <1>1, <1>4, <1>5
<1>7. a = d
  BY <1>1, <1>4, <1>6, SeqEqual
<1> QED
  BY <1>7 DEF d

LEMMA CountedCut ==
  ASSUME NEW n \in Nat, NEW m \in 0 .. n
  PROVE  SubSeq(Counted(n), 1, m) = Counted(m)
<1> DEFINE f == First(Counted(n), m)
<1>1. Of(Nat, Counted(n)) /\ Len(Counted(n)) = n /\ m \in Nat
  BY CountedText
<1>2. Of(Nat, f) /\ Of(Nat, After(Counted(n), m)) /\ Len(f) = m
      /\ f \o After(Counted(n), m) = Counted(n)
  BY <1>1, TextCut
<1> HIDE DEF f
<1>3. Join(f, After(Counted(n), m)) = Counted(n)
  BY <1>2 DEF Join
<1>4. f = Counted(Len(f))
  BY <1>2, <1>3, CountedBegins
<1> QED
  BY <1>2, <1>4 DEF f, First

(* Characters that move on.                                                *)
LEMMA PrintedOn ==
  ASSUME NEW text, NEW rest, NEW n \in Nat, Of(Nat, text), Of(Nat, rest),
         Join(text, rest) = Counted(n)
  PROVE  /\ Of(Nat, Append(rest, n + 1))
         /\ Join(text, Append(rest, n + 1)) = Counted(n + 1)
<1>1. rest \in Seq(Nat) /\ n + 1 \in Nat
  BY DEF Of
<1>2. Append(rest, n + 1) \in Seq(Nat) /\ Append(rest, n + 1) = rest \o <<n + 1>>
  BY <1>1, AppendProperties, AppendIsConcat
<1>3. Of(Nat, <<n + 1>>)
  BY <1>1 DEF Of
<1>4. Join(Join(text, rest), <<n + 1>>) = Join(text, Append(rest, n + 1))
  <2>1. Join(rest, <<n + 1>>) = Append(rest, n + 1)
    BY <1>2 DEF Join
  <2> DEFINE one == <<n + 1>>
             more == Append(rest, n + 1)
  <2>2. Of(Nat, text) /\ Of(Nat, rest) /\ Of(Nat, one) /\ Join(rest, one) = more
    BY <1>3, <2>1
  <2> HIDE DEF one, more
  <2>3. Join(Join(text, rest), one) = Join(text, more)
    BY ONLY <2>2, JoinedTwice
  <2> QED BY <2>3 DEF one, more
<1> QED
  BY <1>2, <1>4, CountedOn DEF Of

LEMMA PutOn ==
  ASSUME NEW writing, NEW pipe, Of(Nat, writing), Of(Nat, pipe), writing # <<>>
  PROVE  /\ Of(Nat, Append(pipe, Head(writing))) /\ Of(Nat, Tail(writing))
         /\ Join(Append(pipe, Head(writing)), Tail(writing)) = Join(pipe, writing)
<1> DEFINE h == Head(writing)  t == Tail(writing)  s == <<h>>
<1>1. writing \in Seq(Nat) /\ pipe \in Seq(Nat)
  BY DEF Of
<1>2. h \in Nat /\ t \in Seq(Nat) /\ Len(t) = Len(writing) - 1
      /\ \A i \in 1 .. Len(t) : t[i] = writing[i + 1]
  BY <1>1, HeadTailProperties
<1>3. h = writing[1] /\ Len(writing) \in Nat \ {0}
  BY <1>1
<1>4. s \in Seq(Nat) /\ Len(s) = 1 /\ s[1] = h
  BY <1>2
<1> HIDE DEF h, t, s
<1>5. /\ s \o t \in Seq(Nat) /\ Len(s \o t) = Len(s) + Len(t)
      /\ \A i \in 1 .. Len(s) + Len(t) : (s \o t)[i] = IF i <= Len(s) THEN s[i] ELSE t[i - Len(s)]
  <2>1. s \in Seq(Nat) /\ t \in Seq(Nat)
    BY <1>2, <1>4
  <2> QED BY ONLY <2>1, ConcatProperties
<1>6. s \o t = writing
  <2> DEFINE w == s \o t
  <2>1. /\ w \in Seq(Nat) /\ Len(w) = Len(writing)
        /\ \A i \in 1 .. Len(writing) : w[i] = IF i <= 1 THEN s[i] ELSE t[i - 1]
    BY <1>2, <1>3, <1>4, <1>5
  <2> HIDE DEF w
  <2>2. \A i \in 1 .. Len(writing) : w[i] = writing[i]
    <3> SUFFICES ASSUME NEW i \in 1 .. Len(writing) PROVE w[i] = writing[i]
      OBVIOUS
    <3>1. CASE i = 1
      BY <1>3, <1>4, <2>1, <3>1
    <3>2. CASE i # 1
      <4>1. i - 1 \in 1 .. Len(t) /\ ~(i <= 1) /\ i - 1 + 1 = i
        BY <1>2, <1>3, <3>2
      <4> QED BY <1>2, <2>1, <4>1
    <3> QED BY <3>1, <3>2
  <2>3. w = writing
    BY <1>1, <2>1, <2>2, SeqEqual
  <2> QED BY <2>3 DEF w
<1>7. Append(pipe, h) \in Seq(Nat) /\ Append(pipe, h) = pipe \o s
  BY <1>1, <1>2, AppendProperties, AppendIsConcat DEF s
<1>8. Join(s, t) = writing
  BY <1>6 DEF Join
<1>9. Join(Join(pipe, s), t) = Join(pipe, writing)
  BY <1>2, <1>4, <1>8, JoinedTwice DEF Of
<1> QED
  BY <1>2, <1>7, <1>9 DEF h, t, Join, Of

(* What a stream, a pipe and a buffer hold stays whole in each step.       *)
Texts == Seq(Nat)

LEMMA NumbersAreTexts == \A s : s \in Texts <=> Of(Nat, s)
BY DEF Texts, Of

LEMMA BeginsWith ==
  ASSUME NEW a, NEW b, Of(Nat, a), Of(Nat, b)
  PROVE  SubSeq(Join(a, b), 1, Len(a)) = a
<1> DEFINE j == Join(a, b)  f == First(j, Len(a))
<1>1. a \in Seq(Nat) /\ Len(a) \in Nat /\ Len(b) \in Nat /\ b \in Seq(Nat)
  BY DEF Of
<1>2. /\ a \o b \in Seq(Nat) /\ Len(a \o b) = Len(a) + Len(b)
      /\ \A i \in 1 .. Len(a) + Len(b) : (a \o b)[i] = IF i <= Len(a) THEN a[i] ELSE b[i - Len(a)]
  BY <1>1, ConcatProperties
<1>3. /\ Of(Nat, j) /\ Len(j) = Len(a) + Len(b) /\ \A i \in 1 .. Len(a) : j[i] = a[i]
  BY <1>1, <1>2 DEF Join, Of
<1> HIDE DEF j
<1>4. Len(a) \in 0 .. Len(j)
  BY <1>1, <1>3
<1>5. /\ Of(Nat, f) /\ Len(f) = Len(a) /\ \A i \in 1 .. Len(a) : f[i] = j[i]
  BY <1>3, <1>4, TextCut
<1> HIDE DEF f
<1>6. f \in Seq(Nat) /\ \A i \in 1 .. Len(a) : f[i] = a[i]
  BY <1>3, <1>5 DEF Of
<1>7. f = a
  BY <1>1, <1>5, <1>6, SeqEqual
<1> QED
  BY <1>7 DEF f, j, First

LEMMA AllThereJoined ==
  \A limit, buffer, pipe, writing, stdio, printed :
    AllThere(limit, buffer, pipe, writing, stdio, printed)
      = IF limit = 0 \/ Len(buffer) < limit
        THEN Join(Join(Join(buffer, pipe), writing), stdio) = Counted(printed)
        ELSE buffer = Counted(limit)
BY DEF AllThere, Join

LEMMA JoinIsText == \A a, b : a \in Texts /\ b \in Texts => Join(a, b) \in Texts
BY TextsJoined, NumbersAreTexts DEF Join

LEMMA JoinToNone == \A a : a \in Texts => Join(a, <<>>) = a
BY JoinedToNone, NumbersAreTexts DEF Join

LEMMA JoinAgain ==
  \A a, b, c : a \in Texts /\ b \in Texts /\ c \in Texts
                 => Join(Join(a, b), c) = Join(a, Join(b, c))
BY JoinedTwice, NumbersAreTexts

LEMMA PrintKeepsAll ==
  ASSUME NEW limit, NEW buffer \in Texts, NEW pipe \in Texts, NEW writing \in Texts,
         NEW stdio \in Texts, NEW n \in Nat,
         AllThere(limit, buffer, pipe, writing, stdio, n)
  PROVE  /\ AllThere(limit, buffer, pipe, writing, Append(stdio, n + 1), n + 1)
         /\ writing = <<>> => AllThere(limit, buffer, pipe, Append(stdio, n + 1), <<>>, n + 1)
         /\ Append(stdio, n + 1) \in Texts
<1> DEFINE more == Append(stdio, n + 1)
           text == Join(Join(buffer, pipe), writing)
<1>1. more \in Texts
  BY AppendProperties, n + 1 \in Nat DEF Texts
<1>2. text \in Texts /\ Join(buffer, pipe) \in Texts
  BY JoinIsText
<1>3. CASE limit = 0 \/ Len(buffer) < limit
  <2>1. Join(text, stdio) = Counted(n)
    BY <1>3, AllThereJoined
  <2>2. Join(text, more) = Counted(n + 1)
    <3> HIDE DEF text
    <3>1. Of(Nat, text) /\ Of(Nat, stdio)
      BY <1>2, NumbersAreTexts
    <3> QED BY <2>1, <3>1, PrintedOn
  <2> HIDE DEF more
  <2>3. writing = <<>> => Join(Join(Join(buffer, pipe), more), <<>>) = Counted(n + 1)
    <3> SUFFICES ASSUME writing = <<>>
                 PROVE  Join(Join(Join(buffer, pipe), more), <<>>) = Counted(n + 1)
      OBVIOUS
    <3>1. text = Join(buffer, pipe)
      BY <1>2, JoinToNone
    <3>2. Join(Join(buffer, pipe), more) \in Texts
      BY <1>1, <1>2, JoinIsText
    <3> QED BY <2>2, <3>1, <3>2, JoinToNone
  <2> QED BY <1>1, <1>3, <2>2, <2>3, AllThereJoined DEF more
<1>4. CASE ~(limit = 0 \/ Len(buffer) < limit)
  <2>1. buffer = Counted(limit)
    BY <1>4, AllThereJoined
  <2> QED BY <1>1, <1>4, <2>1, AllThereJoined
<1> QED
  BY <1>3, <1>4

LEMMA PutKeepsAll ==
  ASSUME NEW limit, NEW buffer \in Texts, NEW pipe \in Texts, NEW writing \in Texts,
         NEW stdio \in Texts, NEW n \in Nat, writing # <<>>,
         AllThere(limit, buffer, pipe, writing, stdio, n)
  PROVE  /\ AllThere(limit, buffer, Append(pipe, Head(writing)), Tail(writing), stdio, n)
         /\ Append(pipe, Head(writing)) \in Texts /\ Tail(writing) \in Texts
<1> DEFINE p == Append(pipe, Head(writing))
           w == Tail(writing)
<1>1. p \in Texts /\ w \in Texts /\ Join(p, w) = Join(pipe, writing)
  BY PutOn, NumbersAreTexts
<1> HIDE DEF p, w
<1>2. Join(Join(buffer, p), w) = Join(Join(buffer, pipe), writing)
  BY <1>1, JoinAgain
<1>3. AllThere(limit, buffer, p, w, stdio, n)
  BY <1>2, AllThereJoined
<1> QED
  BY <1>1, <1>3 DEF p, w

Within(limit, text) ==
  IF limit > 0 /\ Len(text) > limit THEN SubSeq(text, 1, limit) ELSE text

LEMMA HandlerKeepsAll ==
  ASSUME NEW limit \in Nat, NEW buffer \in Texts, NEW pipe \in Texts, NEW writing \in Texts,
         NEW stdio \in Texts, NEW n \in Nat,
         AllThere(limit, buffer, pipe, writing, stdio, n)
  PROVE  /\ AllThere(limit, Within(limit, Join(buffer, pipe)), <<>>, writing, stdio, n)
         /\ Within(limit, Join(buffer, pipe)) \in Texts
<1> DEFINE text == Join(buffer, pipe)
           kept == Within(limit, text)
<1>0. kept = IF limit > 0 /\ Len(text) > limit THEN SubSeq(text, 1, limit) ELSE text
  BY DEF Within
<1> HIDE DEF kept
<1>1. text \in Texts /\ Join(text, <<>>) = text /\ Of(Nat, text) /\ Len(text) \in Nat
      /\ Len(buffer) \in Nat /\ Len(pipe) \in Nat /\ Len(text) = Len(buffer) + Len(pipe)
  <2>1. text \in Texts /\ Of(Nat, text) /\ Of(Nat, buffer) /\ Of(Nat, pipe)
    BY JoinIsText, NumbersAreTexts
  <2>2. Len(text) = Len(buffer) + Len(pipe)
    BY <2>1, TextsJoined DEF Join
  <2>3. Len(buffer) \in Nat /\ Len(pipe) \in Nat
    BY <2>1 DEF Of
  <2> QED BY <2>1, <2>2, <2>3, JoinToNone
<1>2. Join(Join(text, writing), stdio) = Join(text, Join(writing, stdio))
      /\ Join(writing, stdio) \in Texts
  BY <1>1, JoinAgain, JoinIsText
<1>3. limit > 0 /\ Len(text) >= limit => kept = Counted(limit) /\ Len(kept) = limit
  <2> SUFFICES ASSUME limit > 0, Len(text) >= limit
               PROVE  kept = Counted(limit) /\ Len(kept) = limit
    OBVIOUS
  <2>1. kept = SubSeq(text, 1, limit)
    <3>1. CASE Len(text) > limit
      BY <1>0, <3>1
    <3>2. CASE Len(text) = limit
      <4>1. SubSeq(Join(text, <<>>), 1, Len(text)) = text
        BY <1>1, EmptyText, BeginsWith
      <4> QED BY <1>0, <1>1, <3>2, <4>1
    <3> QED BY <1>1, <3>1, <3>2
  <2>2. CASE Len(buffer) < limit
    <3>1. Join(text, Join(writing, stdio)) = Counted(n)
      BY <1>2, <2>2, AllThereJoined
    <3>2. text = Counted(Len(text))
      <4> HIDE DEF text
      <4> QED BY <1>1, <1>2, <3>1, CountedBegins, NumbersAreTexts
    <3>3. limit \in 0 .. Len(text)
      BY <1>1
    <3>4. SubSeq(text, 1, limit) = Counted(limit)
      <4> HIDE DEF text
      <4> QED BY <1>1, <3>2, <3>3, CountedCut
    <3> QED BY <2>1, <3>4, CountedText
  <2>3. CASE ~(Len(buffer) < limit)
    <3>1. buffer = Counted(limit) /\ Len(buffer) = limit
      <4>1. ~(limit = 0 \/ Len(buffer) < limit)
        BY <2>3
      <4>2. buffer = Counted(limit)
        BY <4>1, AllThereJoined
      <4> QED BY <4>2, CountedText
    <3>2. SubSeq(text, 1, Len(buffer)) = buffer
      BY BeginsWith, NumbersAreTexts
    <3> QED BY <2>1, <3>1, <3>2
  <2> QED BY <2>2, <2>3
<1>4. limit = 0 \/ Len(text) < limit => kept = text
  BY <1>0, <1>1
<1>5. kept \in Texts
  <2>1. limit > 0 /\ Len(text) >= limit => Counted(limit) \in Texts
    BY CountedText, NumbersAreTexts
  <2>2. CASE limit > 0 /\ Len(text) >= limit
    BY <1>3, <2>1, <2>2
  <2>3. CASE limit = 0 \/ Len(text) < limit
    BY <1>1, <1>4, <2>3
  <2> QED BY <1>1, <2>2, <2>3
<1>6. AllThere(limit, kept, <<>>, writing, stdio, n)
  <2>1. CASE limit > 0 /\ Len(text) >= limit
    <3>1. kept = Counted(limit) /\ Len(kept) = limit
      BY <1>3, <2>1
    <3>2. ~(limit = 0 \/ Len(kept) < limit)
      BY <2>1, <3>1
    <3> QED BY <3>1, <3>2, AllThereJoined
  <2>2. CASE limit = 0 \/ Len(text) < limit
    <3>1. limit = 0 \/ Len(buffer) < limit
      BY <1>1, <2>2
    <3>2. Join(Join(text, writing), stdio) = Counted(n)
      BY <3>1, AllThereJoined
    <3>3. Join(Join(Join(kept, <<>>), writing), stdio) = Counted(n)
      BY <1>1, <1>4, <2>2, <3>2
    <3> QED BY <1>4, <2>2, <3>3, AllThereJoined
  <2> QED BY <1>1, <2>1, <2>2
<1> QED
  BY <1>5, <1>6 DEF kept

(* The parts of MF_StringStands for one file, and what the variables hold. *)
MF_Types ==
  /\ mf_stdio \in [MFFiles -> Texts] /\ mf_writing \in [MFFiles -> Texts]
  /\ mf_pipe \in [MFFiles -> Texts] /\ mf_buffer \in [MFFiles -> Texts]
  /\ mf_string \in [MFFiles -> Texts]
  /\ mf_saved \in [MFFiles -> {"none", "open", "blocked"}]
  /\ mf_opens \in [MFFiles -> Nat] /\ mf_printed \in [MFFiles -> Nat]

WholeText(f) ==
  AllThere(MFLimit[f], mf_buffer[f], mf_pipe[f], mf_writing[f], mf_stdio[f], mf_printed[f])

StringHeld(f) ==
  (mf_opens[f] > 0 /\ f \notin mf_crossed) => (mf_buffer[f] = mf_string[f] /\ mf_masked)

MF_Inv ==
  /\ MF_Types
  /\ \A f \in MFFiles :
       /\ WholeText(f) /\ StringHeld(f)
       /\ mf_pipe[f] # <<>> => mf_pending
       /\ mf_saved[f] = "none" <=> mf_opens[f] = 0

LEMMA MF_PrintKeeps ==
  ASSUME MF_Inv, NEW f \in MFFiles, MF_Print(f)
  PROVE  MF_Inv'
<1> DEFINE more == Append(mf_stdio[f], mf_printed[f] + 1)
<1>1. /\ UNCHANGED <<mf_pipe, mf_buffer, mf_saved, mf_opens, mf_masked, mf_pending,
                     mf_string, mf_crossed>>
      /\ mf_printed' = [mf_printed EXCEPT ![f] = @ + 1]
      /\ mf_writing[f] = <<>>
  BY DEF MF_Print, InWrite
<1>2. /\ mf_printed[f] \in Nat /\ mf_printed' \in [MFFiles -> Nat]
      /\ mf_printed'[f] = mf_printed[f] + 1
      /\ \A g \in MFFiles \ {f} : mf_printed'[g] = mf_printed[g]
  BY <1>1 DEF MF_Inv, MF_Types
<1>3. \/ /\ mf_stdio' = [mf_stdio EXCEPT ![f] = more]
         /\ UNCHANGED mf_writing
      \/ /\ mf_writing' = [mf_writing EXCEPT ![f] = more]
         /\ mf_stdio' = [mf_stdio EXCEPT ![f] = <<>>]
  BY <1>2 DEF MF_Print
<1>4. /\ more \in Texts
      /\ AllThere(MFLimit[f], mf_buffer[f], mf_pipe[f], mf_writing[f], more, mf_printed[f] + 1)
      /\ AllThere(MFLimit[f], mf_buffer[f], mf_pipe[f], more, <<>>, mf_printed[f] + 1)
  BY <1>1, <1>2, PrintKeepsAll DEF MF_Inv, MF_Types, WholeText
<1> HIDE DEF more
<1>5. MF_Types'
  <2>1. MF_Types /\ <<>> \in Texts
    BY EmptyText, NumbersAreTexts DEF MF_Inv
  <2>2. mf_stdio' \in [MFFiles -> Texts] /\ mf_writing' \in [MFFiles -> Texts]
    BY <1>3, <1>4, <2>1 DEF MF_Types
  <2> QED BY <1>1, <1>2, <2>1, <2>2 DEF MF_Types
<1>6. ASSUME NEW g \in MFFiles PROVE WholeText(g)'
  <2>1. mf_stdio \in [MFFiles -> Texts] /\ mf_writing \in [MFFiles -> Texts] /\ WholeText(g)
    BY DEF MF_Inv, MF_Types
  <2>2. CASE g = f
    BY <1>1, <1>2, <1>3, <1>4, <2>1, <2>2 DEF WholeText
  <2>3. CASE g # f
    BY <1>1, <1>2, <1>3, <2>1, <2>3 DEF WholeText
  <2> QED BY <2>2, <2>3
<1> QED
  BY <1>1, <1>5, <1>6 DEF MF_Inv, StringHeld

LEMMA MF_PutKeeps ==
  ASSUME MF_Inv, NEW f \in MFFiles, MF_Put(f)
  PROVE  MF_Inv'
<1> DEFINE p == Append(mf_pipe[f], Head(mf_writing[f]))
           w == Tail(mf_writing[f])
<1>1. /\ mf_pipe' = [mf_pipe EXCEPT ![f] = p] /\ mf_writing' = [mf_writing EXCEPT ![f] = w]
      /\ mf_pending' = TRUE /\ mf_writing[f] # <<>>
      /\ UNCHANGED <<mf_stdio, mf_buffer, mf_saved, mf_opens, mf_masked,
                     mf_printed, mf_string, mf_crossed>>
  BY DEF MF_Put
<1>2. /\ p \in Texts /\ w \in Texts
      /\ AllThere(MFLimit[f], mf_buffer[f], p, w, mf_stdio[f], mf_printed[f])
  BY <1>1, PutKeepsAll DEF MF_Inv, MF_Types, WholeText
<1> HIDE DEF p, w
<1>3. MF_Types'
  BY <1>1, <1>2 DEF MF_Inv, MF_Types
<1>4. ASSUME NEW g \in MFFiles PROVE WholeText(g)'
  <2>1. mf_pipe \in [MFFiles -> Texts] /\ mf_writing \in [MFFiles -> Texts] /\ WholeText(g)
    BY DEF MF_Inv, MF_Types
  <2>2. CASE g = f
    BY <1>1, <1>2, <2>1, <2>2 DEF WholeText
  <2>3. CASE g # f
    BY <1>1, <2>1, <2>3 DEF WholeText
  <2> QED BY <2>2, <2>3
<1> QED
  BY <1>1, <1>3, <1>4 DEF MF_Inv, StringHeld

LEMMA MF_HandlerKeeps == ASSUME MF_Inv, MF_Handler PROVE MF_Inv'
<1>1. /\ ~mf_masked /\ mf_pending' = FALSE /\ mf_pipe' = MF_Empty
      /\ mf_buffer' = [f \in MFFiles |-> Limited(f, mf_buffer[f] \o mf_pipe[f])]
      /\ UNCHANGED <<mf_stdio, mf_writing, mf_saved, mf_opens, mf_masked, mf_printed,
                     mf_string, mf_crossed>>
  BY DEF MF_Handler
<1>2. ASSUME NEW f \in MFFiles
      PROVE  /\ mf_buffer'[f] \in Texts /\ mf_pipe'[f] = <<>> /\ WholeText(f)'
             /\ ~(mf_opens[f] > 0 /\ f \notin mf_crossed)
  <2> DEFINE kept == Within(MFLimit[f], Join(mf_buffer[f], mf_pipe[f]))
  <2>1. /\ MFLimit[f] \in Nat /\ mf_buffer[f] \in Texts /\ mf_pipe[f] \in Texts
        /\ mf_writing[f] \in Texts /\ mf_stdio[f] \in Texts /\ mf_printed[f] \in Nat
        /\ WholeText(f) /\ StringHeld(f)
    BY MemFileAssumption DEF MF_Inv, MF_Types
  <2>3. mf_buffer'[f] = kept /\ mf_pipe'[f] = <<>>
    BY <1>1 DEF MF_Empty, Limited, Within, Join
  <2> HIDE DEF kept
  <2>4. /\ AllThere(MFLimit[f], kept, <<>>, mf_writing[f], mf_stdio[f], mf_printed[f])
        /\ kept \in Texts
    BY <2>1, HandlerKeepsAll DEF WholeText, kept
  <2> QED BY <1>1, <2>1, <2>3, <2>4 DEF WholeText, StringHeld
<1>3. MF_Types'
  <2>1. mf_pipe' \in [MFFiles -> Texts]
    BY <1>1, EmptyText, NumbersAreTexts DEF MF_Empty
  <2>2. mf_buffer' \in [MFFiles -> Texts]
    BY <1>1, <1>2
  <2> QED BY <1>1, <2>1, <2>2 DEF MF_Inv, MF_Types
<1> QED
  BY <1>1, <1>2, <1>3 DEF MF_Inv, StringHeld

LEMMA MF_OpenStringKeeps ==
  ASSUME MF_Inv, NEW f \in MFFiles, MF_OpenString(f)
  PROVE  MF_Inv'
<1>1. /\ mf_saved' = [mf_saved EXCEPT ![f] =
           IF @ # "none" THEN @ ELSE IF mf_masked THEN "blocked" ELSE "open"]
      /\ mf_masked' = (mf_masked \/ mf_saved[f] = "none")
      /\ mf_opens' = [mf_opens EXCEPT ![f] = @ + 1]
      /\ mf_string' = [mf_string EXCEPT ![f] = IF mf_opens[f] = 0 THEN mf_buffer[f] ELSE @]
      /\ UNCHANGED <<mf_stdio, mf_writing, mf_pipe, mf_buffer, mf_pending, mf_printed,
                     mf_crossed>>
  BY DEF MF_OpenString
<1>2. /\ MF_Types
      /\ \A g \in MFFiles : /\ WholeText(g) /\ StringHeld(g)
                            /\ mf_pipe[g] # <<>> => mf_pending
                            /\ mf_saved[g] = "none" <=> mf_opens[g] = 0
  BY DEF MF_Inv
<1>3. MF_Types'
  <2>1. mf_saved' \in [MFFiles -> {"none", "open", "blocked"}] /\ mf_opens' \in [MFFiles -> Nat]
    BY <1>1, <1>2 DEF MF_Types
  <2>2. mf_string' \in [MFFiles -> Texts]
    BY <1>1, <1>2 DEF MF_Types
  <2> QED BY <1>1, <1>2, <2>1, <2>2 DEF MF_Types
<1>4. ASSUME NEW g \in MFFiles
      PROVE  StringHeld(g)' /\ (mf_saved'[g] = "none" <=> mf_opens'[g] = 0)
  <2>1. CASE g = f
    <3>1. mf_opens[f] \in Nat /\ mf_opens'[f] = mf_opens[f] + 1 /\ mf_saved'[f] # "none"
      BY <1>1, <1>2 DEF MF_Types
    <3>2. mf_string'[f] = IF mf_opens[f] = 0 THEN mf_buffer[f] ELSE mf_string[f]
      BY <1>1, <1>2 DEF MF_Types
    <3>3. CASE mf_opens[f] = 0
      <4>1. mf_masked' /\ mf_buffer'[f] = mf_string'[f]
        BY <1>1, <1>2, <3>2, <3>3
      <4> QED BY <2>1, <3>1, <4>1 DEF StringHeld
    <3>4. CASE mf_opens[f] # 0
      <4>1. /\ mf_opens[f] > 0 /\ mf_crossed' = mf_crossed
            /\ mf_buffer'[f] = mf_buffer[f] /\ mf_string'[f] = mf_string[f]
        BY <1>1, <3>1, <3>2, <3>4
      <4>3. mf_masked => mf_masked'
        BY <1>1, Zenon
      <4>2. StringHeld(f)
        BY <1>2
      <4> QED BY <2>1, <3>1, <4>1, <4>2, <4>3 DEF StringHeld
    <3> QED BY <3>3, <3>4
  <2>2. CASE g # f
    <3>1. mf_saved'[g] = mf_saved[g] /\ mf_opens'[g] = mf_opens[g] /\ mf_string'[g] = mf_string[g]
      BY <1>1, <1>2, <2>2 DEF MF_Types
    <3> QED BY <1>1, <1>2, <3>1 DEF StringHeld
  <2> QED BY <2>1, <2>2
<1>5. \A g \in MFFiles : WholeText(g)'
  BY <1>1, <1>2 DEF WholeText
<1> QED
  BY <1>1, <1>2, <1>3, <1>4, <1>5 DEF MF_Inv

LEMMA MF_CloseStringKeeps ==
  ASSUME MF_Inv, NEW f \in MFFiles, MF_CloseString(f)
  PROVE  MF_Inv'
<1>1. /\ mf_opens[f] > 0 /\ mf_opens' = [mf_opens EXCEPT ![f] = @ - 1]
      /\ IF mf_opens'[f] = 0 /\ mf_saved[f] # "none"
         THEN /\ mf_masked' = (mf_saved[f] = "blocked")
              /\ mf_saved' = [mf_saved EXCEPT ![f] = "none"]
              /\ mf_crossed' =
                   {g \in MFFiles \ {f} :
                      g \in mf_crossed \/ (mf_saved[f] = "open" /\ mf_opens[g] > 0)}
         ELSE UNCHANGED <<mf_masked, mf_saved, mf_crossed>>
      /\ UNCHANGED <<mf_stdio, mf_writing, mf_pipe, mf_buffer, mf_pending, mf_printed,
                     mf_string>>
  BY DEF MF_CloseString
<1>2. /\ MF_Types
      /\ \A g \in MFFiles : /\ WholeText(g) /\ StringHeld(g)
                            /\ mf_pipe[g] # <<>> => mf_pending
                            /\ mf_saved[g] = "none" <=> mf_opens[g] = 0
  BY DEF MF_Inv
<1>3. /\ mf_opens' \in [MFFiles -> Nat] /\ mf_opens'[f] = mf_opens[f] - 1 /\ mf_opens[f] \in Nat
      /\ \A g \in MFFiles \ {f} : mf_opens'[g] = mf_opens[g]
  BY <1>1, <1>2 DEF MF_Types
<1>4. mf_saved[f] \in {"open", "blocked"}
  BY <1>1, <1>2, <1>3 DEF MF_Types
<1>5. CASE mf_opens'[f] = 0
  <2>1. /\ mf_masked' = (mf_saved[f] = "blocked")
        /\ mf_saved' = [mf_saved EXCEPT ![f] = "none"]
        /\ mf_crossed' =
             {g \in MFFiles \ {f} :
                g \in mf_crossed \/ (mf_saved[f] = "open" /\ mf_opens[g] > 0)}
    BY <1>1, <1>4, <1>5
  <2>2. MF_Types'
    BY <1>1, <1>2, <1>3, <2>1 DEF MF_Types
  <2>3. ASSUME NEW g \in MFFiles
        PROVE  StringHeld(g)' /\ (mf_saved'[g] = "none" <=> mf_opens'[g] = 0)
    <3>1. CASE g = f
      BY <1>2, <1>5, <2>1, <3>1 DEF StringHeld, MF_Types
    <3>2. CASE g # f
      <4>1. mf_saved'[g] = mf_saved[g] /\ mf_opens'[g] = mf_opens[g]
        BY <1>2, <1>3, <2>1, <3>2 DEF MF_Types
      <4>2. (mf_opens[g] > 0 /\ g \notin mf_crossed') => g \notin mf_crossed /\ mf_saved[f] = "blocked"
        BY <1>4, <2>1, <3>2
      <4> QED BY <1>1, <1>2, <2>1, <4>1, <4>2 DEF StringHeld
    <3> QED BY <3>1, <3>2
  <2>4. \A g \in MFFiles : WholeText(g)'
    BY <1>1, <1>2 DEF WholeText
  <2> QED BY <1>1, <1>2, <2>2, <2>3, <2>4 DEF MF_Inv
<1>6. CASE mf_opens'[f] # 0
  <2>1. UNCHANGED <<mf_masked, mf_saved, mf_crossed>>
    BY <1>1, <1>6
  <2>2. MF_Types'
    BY <1>1, <1>2, <1>3, <2>1 DEF MF_Types
  <2>3. \A g \in MFFiles : mf_opens'[g] > 0 => mf_opens[g] > 0
    BY <1>1, <1>3
  <2>4. \A g \in MFFiles : mf_opens'[g] = 0 <=> mf_opens[g] = 0
    BY <1>1, <1>3, <1>6
  <2>5. \A g \in MFFiles : StringHeld(g)' /\ WholeText(g)'
    BY <1>1, <1>2, <2>1, <2>3 DEF StringHeld, WholeText
  <2> QED BY <1>1, <1>2, <2>1, <2>2, <2>4, <2>5 DEF MF_Inv
<1> QED
  BY <1>5, <1>6

(* The string of a file in memory stands as long as it is open, unless the *)
(* file that blocked SIGIO first closes its own before; what was printed   *)
(* is all there, once and in order, whatever the signals do.               *)
THEOREM StringStands == MF_Spec => []MF_StringStands
<1>1. MF_Init => MF_Inv
  <2> SUFFICES ASSUME MF_Init PROVE MF_Inv
    OBVIOUS
  <2>1. MF_Empty \in [MFFiles -> Texts]
    BY EmptyText, NumbersAreTexts DEF MF_Empty
  <2>2. MF_Types
    BY <2>1 DEF MF_Init, MF_Types
  <2>3. AllThere(0, <<>>, <<>>, <<>>, <<>>, 0) /\ Counted(0) = <<>> /\ Len(<<>>) = 0
    <3>1. Counted(0) = <<>>
      BY DEF Counted
    <3>2. <<>> \in Texts
      BY EmptyText, NumbersAreTexts
    <3>3. Join(Join(Join(<<>>, <<>>), <<>>), <<>>) = <<>>
      BY <3>2, JoinToNone
    <3> QED BY <3>1, <3>3, AllThereJoined, EmptyText
  <2>4. ASSUME NEW f \in MFFiles PROVE WholeText(f)
    <3>1. Join(Join(Join(<<>>, <<>>), <<>>), <<>>) = Counted(0)
      BY <2>3, AllThereJoined
    <3>2. MFLimit[f] \in Nat
      BY MemFileAssumption
    <3>3. AllThere(MFLimit[f], <<>>, <<>>, <<>>, <<>>, 0)
      BY <2>3, <3>1, <3>2, AllThereJoined
    <3> QED BY <3>3 DEF WholeText, MF_Init, MF_Empty
  <2> QED BY <2>2, <2>4 DEF MF_Inv, MF_Init, MF_Empty, StringHeld
<1>2. MF_Inv /\ [MF_Next]_mf_vars => MF_Inv'
  <2> SUFFICES ASSUME MF_Inv, [MF_Next]_mf_vars PROVE MF_Inv'
    OBVIOUS
  <2>1. CASE UNCHANGED mf_vars
    BY <2>1 DEF mf_vars, MF_Inv, MF_Types, WholeText, StringHeld
  <2>2. CASE MF_Next
    BY <2>2, MF_HandlerKeeps, MF_PrintKeeps, MF_PutKeeps, MF_OpenStringKeeps,
       MF_CloseStringKeeps DEF MF_Next
  <2> QED BY <2>1, <2>2
<1>3. MF_Inv => MF_StringStands
  BY DEF MF_Inv, MF_StringStands, WholeText, AllThere, StringHeld
<1> QED
  BY <1>1, <1>2, <1>3, PTL DEF MF_Spec

-----------------------------------------------------------------------------
(* Counting newlines, and the column behind a text.                        *)

Characters == STRING \cup {EOF, NL, CR, HT}

LEMMA SpecialCharacters ==
  /\ EOF \in Characters /\ NL \in Characters /\ CR \in Characters /\ HT \in Characters
  /\ EOF # NL /\ CR # NL /\ HT # NL
<1>1. "eof" # "nl" /\ "cr" # "nl" /\ "tab" # "nl"
  OBVIOUS
<1> QED
  BY <1>1, Zenon DEF Characters, EOF, NL, CR, HT

LEMMA GivenTexts == IB_Texts \subseteq Seq(Characters)
BY InputBufferAssumption DEF Characters

(* A text's first character is a newline more than the rest has, or not.   *)
LEMMA NewlinesFirst ==
  ASSUME NEW s \in Seq(Characters), s # <<>>
  PROVE  /\ Newlines(s) \in Nat /\ Newlines(Tail(s)) \in Nat
         /\ Newlines(s) = Newlines(Tail(s)) + IF Head(s) = NL THEN 1 ELSE 0
<1> DEFINE t == Tail(s)
           S == {i \in 1 .. Len(s) : s[i] = NL}
           T == {i \in 1 .. Len(t) : t[i] = NL}
           U == S \ {1}
           f == [i \in T |-> i + 1]
<1>1. /\ Len(s) \in Nat \ {0} /\ Len(t) = Len(s) - 1 /\ Head(s) = s[1]
      /\ \A i \in 1 .. Len(t) : t[i] = s[i + 1]
  OBVIOUS
<1>2. IsFiniteSet(1 .. Len(s)) /\ IsFiniteSet(1 .. Len(t))
  BY <1>1, FS_Interval
<1>3. IsFiniteSet(S) /\ IsFiniteSet(T) /\ IsFiniteSet(U)
  BY <1>2, FS_Subset
<1>4. Cardinality(S) \in Nat /\ Cardinality(T) \in Nat
  BY <1>3, FS_CardinalityType
<1>5. f \in Bijection(T, U)
  <2>1. f \in [T -> U]
    BY <1>1
  <2>2. \A a, b \in T : f[a] = f[b] => a = b
    BY <1>1
  <2>3. \A u \in U : u - 1 \in T /\ f[u - 1] = u
    BY <1>1
  <2> HIDE DEF f, T, U
  <2> QED BY <2>1, <2>2, <2>3 DEF Bijection, Injection, Surjection, IsInjective
<1>6. Cardinality(U) = Cardinality(T)
  <2> HIDE DEF f, T, U
  <2> QED BY <1>3, <1>5, FS_Bijection DEF ExistsBijection
<1>7. Cardinality(U) = IF 1 \in S THEN Cardinality(S) - 1 ELSE Cardinality(S)
  BY <1>3, FS_RemoveElement
<1>8. 1 \in S <=> Head(s) = NL
  BY <1>1
<1>9. Newlines(s) = Cardinality(S) /\ Newlines(Tail(s)) = Cardinality(T)
  BY DEF Newlines
<1> HIDE DEF S, T, U, t
<1> QED
  BY <1>4, <1>6, <1>7, <1>8, <1>9

LEMMA NewlinesCounted == \A s \in Seq(Characters) : Newlines(s) \in Nat
<1> SUFFICES ASSUME NEW s \in Seq(Characters) PROVE Newlines(s) \in Nat
  OBVIOUS
<1>1. IsFiniteSet(1 .. Len(s))
  BY FS_Interval
<1>2. IsFiniteSet({i \in 1 .. Len(s) : s[i] = NL})
  BY <1>1, FS_Subset
<1> QED
  BY <1>2, FS_CardinalityType DEF Newlines

(* A character put before a text.                                          *)
LEMMA NewlinesPut ==
  ASSUME NEW s \in Seq(Characters), NEW c \in Characters
  PROVE  /\ Newlines(s) \in Nat
         /\ Newlines(<<c>> \o s) = Newlines(s) + IF c = NL THEN 1 ELSE 0
<1> DEFINE t == <<c>> \o s
<1>1. /\ t \in Seq(Characters) /\ Len(t) = Len(s) + 1 /\ Len(s) \in Nat /\ t[1] = c
      /\ \A i \in 1 .. Len(s) : t[i + 1] = s[i]
  OBVIOUS
<1> HIDE DEF t
<1>2. t # <<>> /\ Head(t) = c
  BY <1>1
<1>3. Tail(t) = s
  <2>1. Tail(t) \in Seq(Characters) /\ Len(Tail(t)) = Len(s)
    BY <1>1, <1>2
  <2>2. \A i \in 1 .. Len(s) : Tail(t)[i] = s[i]
    BY <1>1, <1>2
  <2> QED BY <2>1, <2>2, SeqEqual
<1>4. /\ Newlines(t) \in Nat /\ Newlines(Tail(t)) \in Nat
      /\ Newlines(t) = Newlines(Tail(t)) + IF Head(t) = NL THEN 1 ELSE 0
  BY <1>1, <1>2, NewlinesFirst
<1> QED
  BY <1>2, <1>3, <1>4 DEF t

(* What a column becomes.                                                  *)
NextColumn(column, c) ==
  CASE c = NL -> 1
    [] c = HT -> column + 1 + ToTabStop(column + 1)
    [] OTHER -> column + 1

LEMMA ToTabStopNatural == \A column \in Nat : ToTabStop(column) \in Nat
<1>1. \A a \in Nat, b \in Nat \ {0} : a % b \in 0 .. b - 1
  OBVIOUS
<1> QED
  BY <1>1, InputBufferAssumption DEF ToTabStop

LEMMA NextColumnNatural ==
  \A column \in Nat \ {0} : \A c : NextColumn(column, c) \in Nat \ {0}
BY ToTabStopNatural DEF NextColumn

Columns(s, col) ==
  col = [i \in 0 .. Len(s) |-> IF i = 0 THEN 1 ELSE NextColumn(col[i - 1], s[i])]

ColumnsOf(s) == CHOOSE col : Columns(s, col)

LEMMA ColumnsExist ==
  ASSUME NEW s \in Seq(Characters)
  PROVE  /\ ColumnsOf(s) \in [0 .. Len(s) -> Nat \ {0}]
         /\ ColumnsOf(s)[0] = 1
         /\ \A i \in 1 .. Len(s) : ColumnsOf(s)[i] = NextColumn(ColumnsOf(s)[i - 1], s[i])
<1> DEFINE N == Len(s)
           S == Nat \ {0}
           G == [x \in (1 .. N) \X S |-> NextColumn(x[2], s[x[1]])]
<1>1. N \in Nat /\ 1 \in S
  OBVIOUS
<1>2. G \in [(1 .. N) \X S -> S]
  BY NextColumnNatural
<1>3. \A i \in 1 .. N : \A v \in S : G[<<i, v>>] = NextColumn(v, s[i])
  OBVIOUS
<1> HIDE DEF G, S, N
<1>4. PICK f \in [0 .. N -> S] : Obeys(f, 1, G, N)
  BY <1>1, <1>2, RecursionExists
<1>5. \A i \in 0 .. N : f[i] = IF i = 0 THEN 1 ELSE NextColumn(f[i - 1], s[i])
  <2> SUFFICES ASSUME NEW i \in 0 .. N, i # 0 PROVE f[i] = NextColumn(f[i - 1], s[i])
    BY <1>4 DEF Obeys
  <2>1. i \in 1 .. N /\ i - 1 \in 0 .. N
    BY <1>1
  <2> QED BY <1>3, <1>4, <2>1 DEF Obeys
<1>6. Columns(s, f)
  BY <1>4, <1>5 DEF Columns, N
<1>7. Columns(s, ColumnsOf(s))
  BY <1>6 DEF ColumnsOf
<1>8. /\ DOMAIN ColumnsOf(s) = 0 .. N
      /\ \A i \in 0 .. N : ColumnsOf(s)[i] =
           IF i = 0 THEN 1 ELSE NextColumn(ColumnsOf(s)[i - 1], s[i])
  BY <1>7 DEF Columns, N
<1> DEFINE P == {i \in 0 .. N : ColumnsOf(s)[i] \in S}
<1>9. 0 .. N \subseteq P
  <2>1. 0 \in P
    BY <1>1, <1>8
  <2>2. \A i \in 0 .. N - 1 : i \in P => i + 1 \in P
    <3> SUFFICES ASSUME NEW i \in 0 .. N - 1, ColumnsOf(s)[i] \in S
                 PROVE  i + 1 \in 0 .. N /\ ColumnsOf(s)[i + 1] \in S
      OBVIOUS
    <3>1. i + 1 \in 0 .. N /\ i + 1 # 0 /\ (i + 1) - 1 = i
      BY <1>1
    <3>2. ColumnsOf(s)[i + 1] = NextColumn(ColumnsOf(s)[i], s[i + 1])
      BY <1>8, <3>1
    <3> QED BY <3>1, <3>2, NextColumnNatural DEF S
  <2> HIDE DEF P
  <2> QED BY <1>1, <2>1, <2>2, Upwards
<1>10. ColumnsOf(s) = [i \in 0 .. N |-> ColumnsOf(s)[i]]
  BY <1>7 DEF Columns, N
<1>11. ColumnsOf(s) \in [0 .. N -> S]
  BY <1>9, <1>10
<1>12. \A i \in 1 .. N : ColumnsOf(s)[i] = NextColumn(ColumnsOf(s)[i - 1], s[i])
  BY <1>1, <1>8
<1> QED
  BY <1>1, <1>8, <1>11, <1>12 DEF N, S

LEMMA ColumnIs == \A s : ColumnAfter(s) = ColumnsOf(s)[Len(s)]
BY DEF ColumnAfter, ColumnsOf, Columns, NextColumn

(* The column behind a text and one more character.                        *)
LEMMA ColumnOn ==
  ASSUME NEW s \in Seq(Characters), NEW c \in Characters
  PROVE  /\ ColumnAfter(s) \in Nat \ {0}
         /\ ColumnAfter(Append(s, c)) = NextColumn(ColumnAfter(s), c)
<1> DEFINE t == Append(s, c)
           N == Len(s)
           f == ColumnsOf(s)
           g == ColumnsOf(t)
           P == {i \in 0 .. N : g[i] = f[i]}
<1>1. /\ N \in Nat /\ t \in Seq(Characters) /\ Len(t) = N + 1 /\ t[N + 1] = c
      /\ \A i \in 1 .. N : t[i] = s[i]
  BY AppendProperties
<1> HIDE DEF t
<1>2. /\ f \in [0 .. N -> Nat \ {0}] /\ f[0] = 1
      /\ \A i \in 1 .. N : f[i] = NextColumn(f[i - 1], s[i])
  BY ColumnsExist
<1>3. /\ g[0] = 1
      /\ \A i \in 1 .. N + 1 : g[i] = NextColumn(g[i - 1], t[i])
  BY <1>1, ColumnsExist
<1>4. ColumnAfter(s) = f[N] /\ ColumnAfter(t) = g[N + 1]
  BY <1>1, ColumnIs
<1> HIDE DEF f, g, N
<1>5. 0 .. N \subseteq P
  <2>1. 0 \in P
    BY <1>1, <1>2, <1>3
  <2>2. \A i \in 0 .. N - 1 : i \in P => i + 1 \in P
    <3> SUFFICES ASSUME NEW i \in 0 .. N - 1, g[i] = f[i]
                 PROVE  i + 1 \in 0 .. N /\ g[i + 1] = f[i + 1]
      OBVIOUS
    <3>1. i + 1 \in 1 .. N /\ i + 1 \in 1 .. N + 1 /\ (i + 1) - 1 = i
      BY <1>1
    <3> QED BY <1>1, <1>2, <1>3, <3>1
  <2> HIDE DEF P
  <2> QED BY <1>1, <2>1, <2>2, Upwards
<1>6. g[N] = f[N] /\ N + 1 \in 1 .. N + 1 /\ (N + 1) - 1 = N /\ N \in 0 .. N
  BY <1>1, <1>5
<1> QED
  BY <1>1, <1>2, <1>3, <1>4, <1>6 DEF t

LEMMA ColumnBegins == ColumnAfter(<<>>) = 1
<1>1. <<>> \in Seq(Characters) /\ Len(<<>>) = 0
  OBVIOUS
<1> QED
  BY <1>1, ColumnIs, ColumnsExist
-----------------------------------------------------------------------------
(* What is picked of a text.                                               *)

Kept(type, text) ==
  {i \in 1 .. Len(text) :
     ~(type = "file" /\ text[i] = CR /\ i < Len(text) /\ text[i + 1] = NL)}

PicksFrom(type, text, pick) ==
  pick = [i \in 0 .. Len(text) |->
            IF i = 0 THEN <<>>
            ELSE IF i \in Kept(type, text) THEN Append(pick[i - 1], text[i]) ELSE pick[i - 1]]

LEMMA PickedIs == \A type, text : Picked(type, text) = CHOOSE pick : PicksFrom(type, text, pick)
BY DEF Picked, PicksFrom, Kept

LEMMA PickedExists ==
  ASSUME NEW type, NEW text \in Seq(Characters)
  PROVE  /\ Picked(type, text) \in [0 .. Len(text) -> Seq(Characters)]
         /\ Picked(type, text)[0] = <<>>
         /\ \A i \in 1 .. Len(text) :
              Picked(type, text)[i] =
                IF i \in Kept(type, text) THEN Append(Picked(type, text)[i - 1], text[i])
                ELSE Picked(type, text)[i - 1]
<1> DEFINE N == Len(text)
           K == Kept(type, text)
           S == Seq(Characters)
           next(v, i) == IF i \in K THEN Append(v, text[i]) ELSE v
           G == [x \in (1 .. N) \X S |-> next(x[2], x[1])]
           p == Picked(type, text)
<1>1. N \in Nat /\ <<>> \in S /\ \A i \in 1 .. N : text[i] \in Characters
  OBVIOUS
<1>2. \A v \in S : \A i \in 1 .. N : next(v, i) \in S
  <2> HIDE DEF K, N
  <2> QED BY <1>1, AppendProperties
<1> HIDE DEF next, S, N, K, p
<1>3. G \in [(1 .. N) \X S -> S]
  BY <1>2
<1>4. \A i \in 1 .. N : \A v \in S : G[<<i, v>>] = next(v, i)
  OBVIOUS
<1> HIDE DEF G
<1>5. PICK f \in [0 .. N -> S] : Obeys(f, <<>>, G, N)
  BY <1>1, <1>3, RecursionExists
<1>6. \A i \in 0 .. N : f[i] = IF i = 0 THEN <<>> ELSE next(f[i - 1], i)
  <2> SUFFICES ASSUME NEW i \in 0 .. N, i # 0 PROVE f[i] = next(f[i - 1], i)
    BY <1>5 DEF Obeys
  <2>1. i \in 1 .. N /\ i - 1 \in 0 .. N
    BY <1>1
  <2> QED BY <1>4, <1>5, <2>1 DEF Obeys
<1>7. PicksFrom(type, text, f)
  BY <1>5, <1>6 DEF PicksFrom, N, K, next
<1>8. PicksFrom(type, text, p)
  BY <1>7, PickedIs DEF p
<1>9. /\ p = [i \in 0 .. N |-> p[i]]
      /\ \A i \in 0 .. N : p[i] = IF i = 0 THEN <<>> ELSE next(p[i - 1], i)
  BY <1>8 DEF PicksFrom, N, K, next
<1> DEFINE P == {i \in 0 .. N : p[i] \in S}
<1>10. 0 .. N \subseteq P
  <2>1. 0 \in P
    BY <1>1, <1>9
  <2>2. \A i \in 0 .. N - 1 : i \in P => i + 1 \in P
    <3> SUFFICES ASSUME NEW i \in 0 .. N - 1, p[i] \in S
                 PROVE  i + 1 \in 0 .. N /\ p[i + 1] \in S
      OBVIOUS
    <3>1. i + 1 \in 0 .. N /\ i + 1 \in 1 .. N /\ i + 1 # 0 /\ (i + 1) - 1 = i
      BY <1>1
    <3> QED BY <1>2, <1>9, <3>1
  <2> HIDE DEF P
  <2> QED BY <1>1, <2>1, <2>2, Upwards
<1>11. p \in [0 .. N -> S]
  BY <1>9, <1>10
<1>12. p[0] = <<>> /\ \A i \in 1 .. N : p[i] = next(p[i - 1], i)
  <2>1. 0 \in 0 .. N /\ \A i \in 1 .. N : i \in 0 .. N /\ i # 0
    BY <1>1
  <2>2. \A i \in 0 .. N : p[i] = IF i = 0 THEN <<>> ELSE next(p[i - 1], i)
    BY <1>9
  <2>3. p[0] = <<>>
    BY <2>1, <2>2
  <2>4. \A i \in 1 .. N : p[i] = next(p[i - 1], i)
    BY <2>1, <2>2
  <2> QED BY <2>3, <2>4
<1> QED
  BY <1>11, <1>12 DEF p, N, K, S, next

(* What is picked of a prefix is a prefix of the whole.                    *)
LEMMA PickedPrefix ==
  ASSUME NEW type, NEW text \in Seq(Characters), NEW i \in 0 .. Len(text)
  PROVE  /\ SeenText(type, text) \in Seq(Characters)
         /\ Len(Picked(type, text)[i]) <= Len(SeenText(type, text))
         /\ \A k \in 1 .. Len(Picked(type, text)[i]) :
              Picked(type, text)[i][k] = SeenText(type, text)[k]
<1> DEFINE N == Len(text)
           p == Picked(type, text)
           Begins(s, t) == Len(s) <= Len(t) /\ \A k \in 1 .. Len(s) : s[k] = t[k]
           P == {j \in 0 .. N : i <= j => Begins(p[i], p[j])}
<1>1. N \in Nat /\ i \in 0 .. N /\ \A j \in 1 .. N : text[j] \in Characters
  OBVIOUS
<1>2. /\ \A j \in 0 .. N : p[j] \in Seq(Characters)
      /\ \A j \in 1 .. N : p[j] = IF j \in Kept(type, text) THEN Append(p[j - 1], text[j])
                               ELSE p[j - 1]
  BY PickedExists
<1>3. SeenText(type, text) = p[N]
  BY DEF SeenText
<1>4. \A s, t \in Seq(Characters) : \A c \in Characters :
        /\ Begins(s, s)
        /\ Begins(s, t) => Begins(s, Append(t, c))
  <2> SUFFICES ASSUME NEW s \in Seq(Characters), NEW t \in Seq(Characters), NEW c \in Characters
               PROVE  Begins(s, s) /\ (Begins(s, t) => Begins(s, Append(t, c)))
    OBVIOUS
  <2>1. /\ Len(s) \in Nat /\ Len(t) \in Nat /\ Len(Append(t, c)) = Len(t) + 1
        /\ \A k \in 1 .. Len(t) : Append(t, c)[k] = t[k]
    BY AppendProperties
  <2> QED BY <2>1
<1> HIDE DEF Begins, p, N
<1>5. 0 .. N \subseteq P
  <2>1. 0 \in P
    <3>1. i <= 0 => i = 0
      BY <1>1
    <3>2. \E c : c \in Characters
      BY SpecialCharacters
    <3> QED BY <1>1, <1>2, <1>4, <3>1, <3>2
  <2>2. \A j \in 0 .. N - 1 : j \in P => j + 1 \in P
    <3> SUFFICES ASSUME NEW j \in 0 .. N - 1, i <= j => Begins(p[i], p[j])
                 PROVE  j + 1 \in 0 .. N /\ (i <= j + 1 => Begins(p[i], p[j + 1]))
      OBVIOUS
    <3>1. j + 1 \in 0 .. N /\ j + 1 \in 1 .. N /\ j \in 0 .. N /\ (j + 1) - 1 = j
      BY <1>1
    <3>2. p[j + 1] \in {Append(p[j], text[j + 1]), p[j]}
      BY <1>2, <3>1
    <3>3. text[j + 1] \in Characters /\ p[i] \in Seq(Characters) /\ p[j] \in Seq(Characters)
          /\ p[j + 1] \in Seq(Characters)
      BY <1>1, <1>2, <3>1
    <3>4. CASE i <= j
      BY <1>4, <3>1, <3>2, <3>3, <3>4
    <3>5. CASE i = j + 1
      BY <1>4, <3>1, <3>3, <3>5
    <3>6. i <= j + 1 => i <= j \/ i = j + 1
      BY <1>1, <3>1
    <3> QED BY <3>1, <3>4, <3>5, <3>6
  <2> HIDE DEF P
  <2> QED BY <1>1, <2>1, <2>2, Upwards
<1>6. N \in P
  BY <1>1, <1>5
<1>7. Begins(p[i], p[N]) /\ p[N] \in Seq(Characters)
  BY <1>1, <1>2, <1>6
<1> QED
  BY <1>3, <1>7 DEF Begins, p
-----------------------------------------------------------------------------
(* What is ahead of a context: what was put back to it, the last first,    *)
(* and then its text behind the first n characters.                        *)

IsAhead(ahead, unread, whole, n) ==
  /\ n \in 0 .. Len(whole)
  /\ Len(ahead) = Len(unread) + (Len(whole) - n)
  /\ \A k \in 1 .. Len(ahead) :
       ahead[k] = IF k <= Len(unread) THEN unread[Len(unread) + 1 - k]
                  ELSE whole[n + (k - Len(unread))]

LEMMA TailProperties ==
  ASSUME NEW S, NEW s \in Seq(S), s # <<>>
  PROVE  /\ Len(s) \in Nat \ {0} /\ Head(s) = s[1] /\ Head(s) \in S
         /\ Tail(s) \in Seq(S) /\ Len(Tail(s)) = Len(s) - 1
         /\ \A k \in 1 .. Len(s) - 1 : Tail(s)[k] = s[k + 1]
OBVIOUS

LEMMA PutProperties ==
  ASSUME NEW S, NEW s \in Seq(S), NEW c \in S
  PROVE  /\ <<c>> \o s \in Seq(S) /\ Len(<<c>> \o s) = Len(s) + 1 /\ (<<c>> \o s)[1] = c
         /\ \A k \in 1 .. Len(s) + 1 : k # 1 => (<<c>> \o s)[k] = s[k - 1]
OBVIOUS

LEMMA FrontProperties ==
  ASSUME NEW S, NEW s \in Seq(S), s # <<>>
  PROVE  /\ s[Len(s)] \in S
         /\ SubSeq(s, 1, Len(s) - 1) \in Seq(S) /\ Len(SubSeq(s, 1, Len(s) - 1)) = Len(s) - 1
         /\ \A k \in 1 .. Len(s) - 1 : SubSeq(s, 1, Len(s) - 1)[k] = s[k]
<1> DEFINE n == Len(s) - 1
           f == SubSeq(s, 1, n)
<1>1. /\ Len(s) \in Nat \ {0} /\ n \in Nat /\ Len(s) \in 1 .. Len(s)
      /\ \A k \in 1 .. Len(s) : s[k] \in S
  OBVIOUS
<1>2. 1 \in Int /\ n \in Int /\ \A k \in 1 .. n : k \in 1 .. Len(s) /\ s[k] \in S
  BY <1>1
<1> HIDE DEF n
<1>3. /\ f \in Seq(S) /\ Len(f) = IF 1 <= n THEN n - 1 + 1 ELSE 0
      /\ \A k \in 1 .. n - 1 + 1 : f[k] = s[1 + k - 1]
  BY <1>2, SubSeqProperties
<1> HIDE DEF f
<1>4. Len(f) = n /\ \A k \in 1 .. n : f[k] = s[k]
  BY <1>1, <1>3
<1> QED
  BY <1>1, <1>3, <1>4 DEF f, n

LEMMA AheadOfUnread ==
  ASSUME NEW ahead \in Seq(Characters), NEW unread \in Seq(Characters),
         NEW whole \in Seq(Characters), NEW n, IsAhead(ahead, unread, whole, n), unread # <<>>
  PROVE  /\ ahead # <<>> /\ Head(ahead) = unread[Len(unread)]
         /\ IsAhead(Tail(ahead), SubSeq(unread, 1, Len(unread) - 1), whole, n)
<1> DEFINE a == Tail(ahead)
           u == SubSeq(unread, 1, Len(unread) - 1)
<1>1. /\ Len(unread) \in Nat \ {0} /\ Len(whole) \in Nat /\ Len(ahead) \in Nat
      /\ n \in 0 .. Len(whole)
  BY DEF IsAhead
<1>2. ahead # <<>> /\ Len(ahead) = Len(unread) + (Len(whole) - n)
  BY <1>1 DEF IsAhead
<1>3. /\ Head(ahead) = ahead[1] /\ Len(a) = Len(ahead) - 1
      /\ \A k \in 1 .. Len(ahead) - 1 : a[k] = ahead[k + 1]
  BY <1>2, TailProperties
<1>4. Len(u) = Len(unread) - 1 /\ \A k \in 1 .. Len(unread) - 1 : u[k] = unread[k]
  BY FrontProperties
<1>5. \A k \in 1 .. Len(ahead) :
        ahead[k] = IF k <= Len(unread) THEN unread[Len(unread) + 1 - k]
                   ELSE whole[n + (k - Len(unread))]
  BY DEF IsAhead
<1> HIDE DEF a, u
<1>6. Head(ahead) = unread[Len(unread)]
  BY <1>1, <1>2, <1>3, <1>5
<1>7. Len(a) = Len(u) + (Len(whole) - n)
  BY <1>1, <1>2, <1>3, <1>4
<1>8. \A k \in 1 .. Len(a) :
        a[k] = IF k <= Len(u) THEN u[Len(u) + 1 - k] ELSE whole[n + (k - Len(u))]
  <2> SUFFICES ASSUME NEW k \in 1 .. Len(a)
               PROVE  a[k] = IF k <= Len(u) THEN u[Len(u) + 1 - k] ELSE whole[n + (k - Len(u))]
    OBVIOUS
  <2>1. /\ k \in 1 .. Len(ahead) - 1 /\ k + 1 \in 1 .. Len(ahead) /\ k \in Nat
        /\ Len(unread) + 1 - (k + 1) = Len(u) + 1 - k
        /\ n + ((k + 1) - Len(unread)) = n + (k - Len(u))
        /\ (k + 1 <= Len(unread) <=> k <= Len(u))
        /\ (k <= Len(u) => Len(u) + 1 - k \in 1 .. Len(unread) - 1)
    BY <1>1, <1>2, <1>3, <1>4
  <2>2. a[k] = IF k + 1 <= Len(unread) THEN unread[Len(unread) + 1 - (k + 1)]
               ELSE whole[n + ((k + 1) - Len(unread))]
    BY <1>3, <1>5, <2>1
  <2> QED BY <1>4, <2>1, <2>2
<1> QED
  BY <1>1, <1>2, <1>6, <1>7, <1>8 DEF IsAhead, a, u

LEMMA AheadOfText ==
  ASSUME NEW ahead \in Seq(Characters), NEW unread, unread = <<>>,
         NEW whole \in Seq(Characters), NEW n, IsAhead(ahead, unread, whole, n)
  PROVE  /\ n = Len(whole) => ahead = <<>>
         /\ n < Len(whole) =>
              /\ ahead # <<>> /\ Head(ahead) = whole[n + 1]
              /\ IsAhead(Tail(ahead), unread, whole, n + 1)
<1> DEFINE a == Tail(ahead)
<1>1. /\ Len(unread) = 0 /\ Len(whole) \in Nat /\ Len(ahead) \in Nat /\ n \in 0 .. Len(whole)
      /\ Len(ahead) = Len(whole) - n
  BY DEF IsAhead
<1>2. n = Len(whole) => ahead = <<>>
  BY <1>1
<1>3. \A k \in 1 .. Len(ahead) : ahead[k] = whole[n + k]
  BY <1>1 DEF IsAhead
<1>4. ASSUME n < Len(whole)
      PROVE  /\ ahead # <<>> /\ Head(ahead) = whole[n + 1]
             /\ IsAhead(Tail(ahead), unread, whole, n + 1)
  <2>1. ahead # <<>> /\ 1 \in 1 .. Len(ahead) /\ n + 1 \in 0 .. Len(whole)
    BY <1>1, <1>4
  <2>2. /\ Head(ahead) = ahead[1] /\ Len(a) = Len(ahead) - 1
        /\ \A k \in 1 .. Len(ahead) - 1 : a[k] = ahead[k + 1]
    BY <2>1, TailProperties
  <2> HIDE DEF a
  <2>3. Head(ahead) = whole[n + 1]
    BY <1>3, <2>1, <2>2
  <2>4. Len(a) = Len(unread) + (Len(whole) - (n + 1))
    BY <1>1, <2>2
  <2>5. \A k \in 1 .. Len(a) : ~(k <= Len(unread)) /\ a[k] = whole[(n + 1) + (k - Len(unread))]
    <3> SUFFICES ASSUME NEW k \in 1 .. Len(a)
                 PROVE  ~(k <= Len(unread)) /\ a[k] = whole[(n + 1) + (k - Len(unread))]
      OBVIOUS
    <3>1. /\ k \in 1 .. Len(ahead) - 1 /\ k + 1 \in 1 .. Len(ahead)
          /\ n + (k + 1) = (n + 1) + (k - Len(unread)) /\ ~(k <= Len(unread))
      BY <1>1, <2>2
    <3> QED BY <1>3, <2>2, <3>1
  <2> QED BY <2>1, <2>3, <2>4, <2>5 DEF IsAhead, a
<1> QED
  BY <1>2, <1>4

(* Where a character goes when one is put before a text.                   *)
LEMMA PutPlaces ==
  ASSUME NEW k \in Int, NEW n \in Int, NEW a \in Int, NEW u \in Int, NEW v \in Int,
         0 <= u, v = u + 1, 1 <= k, k <= a + 1, k # 1
  PROVE  /\ k \in 1 .. a + 1 /\ k - 1 \in 1 .. a
         /\ (k - 1 <= u <=> k <= v)
         /\ u + 1 - (k - 1) = v + 1 - k
         /\ n + ((k - 1) - u) = n + (k - v)
         /\ (k <= v => v + 1 - k \in 1 .. u)
OBVIOUS

LEMMA AheadPut ==
  ASSUME NEW ahead \in Seq(Characters), NEW unread \in Seq(Characters), NEW c \in Characters,
         NEW whole \in Seq(Characters), NEW n, IsAhead(ahead, unread, whole, n)
  PROVE  IsAhead(<<c>> \o ahead, Append(unread, c), whole, n)
<1> DEFINE a == <<c>> \o ahead
           u == Append(unread, c)
<1>1. /\ Len(unread) \in Nat /\ Len(whole) \in Nat /\ Len(ahead) \in Nat /\ n \in 0 .. Len(whole)
      /\ Len(ahead) = Len(unread) + (Len(whole) - n)
  BY DEF IsAhead
<1>2. /\ Len(a) = Len(ahead) + 1 /\ a[1] = c
      /\ \A k \in 1 .. Len(ahead) + 1 : k # 1 => a[k] = ahead[k - 1]
  BY PutProperties
<1>3. /\ Len(u) = Len(unread) + 1 /\ u[Len(unread) + 1] = c
      /\ \A k \in 1 .. Len(unread) : u[k] = unread[k]
  BY AppendProperties
<1>4. \A k \in 1 .. Len(ahead) :
        ahead[k] = IF k <= Len(unread) THEN unread[Len(unread) + 1 - k]
                   ELSE whole[n + (k - Len(unread))]
  BY DEF IsAhead
<1> HIDE DEF a, u
<1>5. \A k \in 1 .. Len(a) :
        a[k] = IF k <= Len(u) THEN u[Len(u) + 1 - k] ELSE whole[n + (k - Len(u))]
  <2> SUFFICES ASSUME NEW k \in 1 .. Len(a)
               PROVE  a[k] = IF k <= Len(u) THEN u[Len(u) + 1 - k] ELSE whole[n + (k - Len(u))]
    OBVIOUS
  <2>1. CASE k = 1
    <3>1. k <= Len(u) /\ Len(u) + 1 - k = Len(unread) + 1
      BY <1>1, <1>3, <2>1
    <3> QED BY <1>2, <1>3, <2>1, <3>1
  <2>2. CASE k # 1
    <3>1. /\ k \in 1 .. Len(ahead) + 1 /\ k - 1 \in 1 .. Len(ahead)
          /\ (k - 1 <= Len(unread) <=> k <= Len(u))
          /\ Len(unread) + 1 - (k - 1) = Len(u) + 1 - k
          /\ n + ((k - 1) - Len(unread)) = n + (k - Len(u))
          /\ (k <= Len(u) => Len(u) + 1 - k \in 1 .. Len(unread))
      <4>1. /\ n \in Int /\ Len(ahead) \in Int /\ Len(unread) \in Int /\ 0 <= Len(unread)
        BY <1>1
      <4>2. /\ Len(u) \in Int /\ Len(u) = Len(unread) + 1
        BY <1>3, <4>1
      <4>3. k \in Int /\ 1 <= k /\ k <= Len(ahead) + 1
        BY <1>2, <4>1
      <4> QED BY ONLY <2>2, <4>1, <4>2, <4>3, PutPlaces
    <3>2. a[k] = IF k - 1 <= Len(unread) THEN unread[Len(unread) + 1 - (k - 1)]
                 ELSE whole[n + ((k - 1) - Len(unread))]
      BY <1>2, <1>4, <2>2, <3>1
    <3> QED BY <1>3, <3>1, <3>2
  <2> QED BY <2>1, <2>2
<1>6. Len(a) = Len(u) + (Len(whole) - n)
  BY <1>1, <1>2, <1>3
<1> QED
  BY <1>1, <1>5, <1>6 DEF IsAhead, a, u

(* The next character of a text, and where the one behind it is.           *)
LineEnd(type, text, i) ==
  type = "file" /\ text[i] = CR /\ i < Len(text) /\ text[i + 1] = NL

Taken(type, text, i, c, j) ==
  /\ c = IF LineEnd(type, text, i) THEN NL ELSE text[i]
  /\ j = i + (IF text[i] = c THEN 1 ELSE 2)

LEMMA TextTaken ==
  ASSUME NEW type, NEW text \in Seq(Characters), NEW i \in 1 .. Len(text), NEW c, NEW j,
         Taken(type, text, i, c, j)
  PROVE  /\ c \in Characters /\ j \in 1 .. Len(text) + 1
         /\ Len(Picked(type, text)[i - 1]) < Len(SeenText(type, text))
         /\ SeenText(type, text)[Len(Picked(type, text)[i - 1]) + 1] = c
         /\ Len(Picked(type, text)[j - 1]) = Len(Picked(type, text)[i - 1]) + 1
<1> DEFINE p == Picked(type, text)
           w == SeenText(type, text)
           N == Len(text)
<1>1. N \in Nat /\ i \in 1 .. N /\ \A k \in 1 .. N : text[k] \in Characters
  OBVIOUS
<1>2. /\ \A k \in 0 .. N : p[k] \in Seq(Characters)
      /\ \A k \in 1 .. N : p[k] = IF LineEnd(type, text, k) THEN p[k - 1]
                               ELSE Append(p[k - 1], text[k])
  <2>1. \A k \in 1 .. N : k \in Kept(type, text) <=> ~LineEnd(type, text, k)
    BY DEF Kept, LineEnd
  <2>2. /\ p \in [0 .. N -> Seq(Characters)]
        /\ \A k \in 1 .. N : p[k] = IF k \in Kept(type, text) THEN Append(p[k - 1], text[k])
                                 ELSE p[k - 1]
    BY PickedExists
  <2> HIDE DEF p, N
  <2> QED BY <2>1, <2>2
<1>3. \A k \in 0 .. N : /\ w \in Seq(Characters)
                        /\ Len(p[k]) <= Len(w)
                        /\ \A m \in 1 .. Len(p[k]) : p[k][m] = w[m]
  BY PickedPrefix
<1> DEFINE s == p[i - 1]
<1> HIDE DEF p, w, N
<1>4. i - 1 \in 0 .. N /\ s \in Seq(Characters) /\ Len(s) \in Nat
  <2>1. i - 1 \in 0 .. N
    BY <1>1
  <2>2. s \in Seq(Characters)
    BY <1>2, <2>1
  <2> HIDE DEF s
  <2> QED BY <2>1, <2>2
<1>5. /\ c \in Characters /\ j - 1 \in 1 .. N /\ p[j - 1] = Append(s, c)
  <2>1. CASE LineEnd(type, text, i)
    <3>1. /\ c = NL /\ text[i] # c /\ i + 1 \in 1 .. N /\ text[i + 1] = NL
          /\ (i + 1) - 1 = i
      BY <1>1, <2>1, SpecialCharacters DEF LineEnd, N, Taken
    <3>2. ~LineEnd(type, text, i + 1)
      BY <3>1, SpecialCharacters DEF LineEnd
    <3>3. p[i] = s /\ p[i + 1] = Append(p[i], text[i + 1])
      BY <1>1, <1>2, <2>1, <3>1, <3>2
    <3>4. j - 1 = i + 1
      BY <1>1, <3>1 DEF Taken
    <3> QED BY <3>1, <3>3, <3>4, SpecialCharacters
  <2>2. CASE ~LineEnd(type, text, i)
    <3>1. c = text[i] /\ j - 1 = i
      BY <1>1, <2>2 DEF Taken
    <3> QED BY <1>1, <1>2, <2>2, <3>1
  <2> QED BY <2>1, <2>2
<1>6. /\ Len(p[j - 1]) = Len(s) + 1 /\ p[j - 1][Len(s) + 1] = c
  BY <1>4, <1>5, AppendProperties
<1>7. /\ Len(p[j - 1]) <= Len(w) /\ Len(w) \in Nat
      /\ \A m \in 1 .. Len(p[j - 1]) : p[j - 1][m] = w[m]
  <2>1. w \in Seq(Characters)
    BY <1>3, <1>4
  <2>2. j - 1 \in 0 .. N
    BY <1>1, <1>5
  <2>3. Len(w) \in Nat
    BY <2>1
  <2> QED BY <1>3, <2>2, <2>3
<1>8. Len(s) < Len(w) /\ w[Len(s) + 1] = c
  BY <1>4, <1>6, <1>7
<1>9. j \in 1 .. N + 1
  <2>1. j \in Int
    BY <1>1 DEF Taken
  <2> QED BY <1>1, <1>5, <2>1
<1> QED
  BY <1>5, <1>6, <1>8, <1>9 DEF p, w, N, s
-----------------------------------------------------------------------------
(* Column and offset of what is read of a text.                            *)

LEMMA PrefixOn ==
  ASSUME NEW S, NEW w \in Seq(S), NEW n \in 0 .. Len(w), n < Len(w)
  PROVE  /\ SubSeq(w, 1, n) \in Seq(S) /\ w[n + 1] \in S
         /\ SubSeq(w, 1, n + 1) = Append(SubSeq(w, 1, n), w[n + 1])
<1> DEFINE f == SubSeq(w, 1, n)
           g == SubSeq(w, 1, n + 1)
<1>1. /\ Len(w) \in Nat /\ n \in Nat /\ n + 1 \in 1 .. Len(w)
      /\ \A k \in 1 .. Len(w) : w[k] \in S
  OBVIOUS
<1>2. /\ 1 \in Int /\ n \in Int /\ n + 1 \in Int
      /\ \A k \in 1 .. n : k \in 1 .. n + 1
      /\ \A k \in 1 .. n + 1 : k \in 1 .. Len(w)
  BY <1>1
<1>3. (\A k \in 1 .. n : w[k] \in S) /\ \A k \in 1 .. n + 1 : w[k] \in S
  BY <1>1, <1>2
<1>4. /\ f \in Seq(S) /\ Len(f) = IF 1 <= n THEN n - 1 + 1 ELSE 0
      /\ \A k \in 1 .. n - 1 + 1 : f[k] = w[1 + k - 1]
  BY <1>2, <1>3, SubSeqProperties
<1>5. /\ g \in Seq(S) /\ Len(g) = IF 1 <= n + 1 THEN (n + 1) - 1 + 1 ELSE 0
      /\ \A k \in 1 .. (n + 1) - 1 + 1 : g[k] = w[1 + k - 1]
  BY <1>2, <1>3, SubSeqProperties
<1> HIDE DEF f, g
<1>6. /\ Len(f) = n /\ Len(g) = n + 1
      /\ (\A k \in 1 .. n : f[k] = w[k]) /\ \A k \in 1 .. n + 1 : g[k] = w[k]
  BY <1>1, <1>4, <1>5
<1>7. w[n + 1] \in S
  BY <1>1
<1>8. /\ Append(f, w[n + 1]) \in Seq(S) /\ Len(Append(f, w[n + 1])) = n + 1
      /\ Append(f, w[n + 1])[n + 1] = w[n + 1]
      /\ \A k \in 1 .. n : Append(f, w[n + 1])[k] = f[k]
  BY <1>4, <1>6, <1>7, AppendProperties
<1>9. g = Append(f, w[n + 1])
  <2> DEFINE h == Append(f, w[n + 1])
  <2>1. /\ h \in Seq(S) /\ Len(h) = n + 1 /\ h[n + 1] = w[n + 1]
        /\ \A k \in 1 .. n : h[k] = f[k]
    BY <1>8
  <2> HIDE DEF h
  <2>2. \A k \in 1 .. Len(g) : g[k] = h[k]
    <3> SUFFICES ASSUME NEW k \in 1 .. n + 1 PROVE g[k] = h[k]
      BY <1>6
    <3>1. CASE k = n + 1
      BY <1>6, <2>1, <3>1
    <3>2. CASE k # n + 1
      <4>1. k \in 1 .. n
        BY <1>1, <3>2
      <4> QED BY <1>6, <2>1, <4>1
    <3> QED BY <3>1, <3>2
  <2>3. g = h
    BY <1>5, <1>6, <2>1, <2>2, SeqEqual
  <2> QED BY <2>3 DEF h
<1> QED
  BY <1>4, <1>7, <1>9 DEF f, g

ExactPlace(ahead, whole, column, offset) ==
  /\ Len(ahead) <= Len(whole)
  /\ \A k \in 1 .. Len(ahead) : ahead[k] = whole[(Len(whole) - Len(ahead)) + k]
  /\ column = ColumnAfter(SubSeq(whole, 1, Len(whole) - Len(ahead)))
  /\ offset = Len(whole) - Len(ahead)

LEMMA ExactTaken ==
  ASSUME NEW ahead \in Seq(Characters), NEW whole \in Seq(Characters), NEW column, NEW offset,
         ExactPlace(ahead, whole, column, offset), ahead # <<>>
  PROVE  /\ column \in Nat \ {0}
         /\ ExactPlace(Tail(ahead), whole, NextColumn(column, Head(ahead)), offset + 1)
<1> DEFINE a == Tail(ahead)
           n == Len(whole) - Len(ahead)
<1>1. /\ Len(whole) \in Nat /\ Len(ahead) \in Nat /\ Len(ahead) # 0
      /\ Len(ahead) <= Len(whole)
  BY DEF ExactPlace
<1>2. /\ Head(ahead) = ahead[1] /\ Len(a) = Len(ahead) - 1
      /\ \A k \in 1 .. Len(ahead) - 1 : a[k] = ahead[k + 1]
  BY TailProperties
<1>3. /\ \A k \in 1 .. Len(ahead) : ahead[k] = whole[n + k]
      /\ column = ColumnAfter(SubSeq(whole, 1, n)) /\ offset = n
  BY DEF ExactPlace
<1> HIDE DEF a, n
<1>4. n \in 0 .. Len(whole) /\ n < Len(whole) /\ 1 \in 1 .. Len(ahead) /\ Len(whole) - Len(a) = n + 1
  BY <1>1, <1>2 DEF n
<1>5. Head(ahead) = whole[n + 1]
  BY <1>2, <1>3, <1>4
<1>6. /\ SubSeq(whole, 1, n) \in Seq(Characters) /\ whole[n + 1] \in Characters
      /\ SubSeq(whole, 1, n + 1) = Append(SubSeq(whole, 1, n), whole[n + 1])
  BY <1>4, PrefixOn
<1>7. /\ ColumnAfter(SubSeq(whole, 1, n)) \in Nat \ {0}
      /\ ColumnAfter(SubSeq(whole, 1, n + 1)) = NextColumn(column, Head(ahead))
  BY <1>3, <1>5, <1>6, ColumnOn
<1>8. \A k \in 1 .. Len(a) : a[k] = whole[(n + 1) + k]
  <2> SUFFICES ASSUME NEW k \in 1 .. Len(a) PROVE a[k] = whole[(n + 1) + k]
    OBVIOUS
  <2>1. k \in 1 .. Len(ahead) - 1 /\ k + 1 \in 1 .. Len(ahead) /\ n + (k + 1) = (n + 1) + k
    BY <1>1, <1>2, <1>4
  <2> QED BY <1>2, <1>3, <2>1
<1>9. Len(a) <= Len(whole)
  BY <1>1, <1>2
<1> QED
  BY <1>3, <1>4, <1>7, <1>8, <1>9 DEF ExactPlace, a

LEMMA ExactPut ==
  ASSUME NEW ahead \in Seq(Characters), NEW whole \in Seq(Characters), NEW column, NEW offset,
         NEW c \in Characters, c \notin {HT, NL}, ExactPlace(ahead, whole, column, offset),
         Len(ahead) < Len(whole), c = whole[Len(whole) - Len(ahead)]
  PROVE  /\ column \in Nat /\ column # 0 /\ offset \in Nat /\ offset # 0
         /\ ExactPlace(<<c>> \o ahead, whole, column - 1, offset - 1)
<1> DEFINE a == <<c>> \o ahead
           n == (Len(whole) - Len(ahead)) - 1
<1>1. Len(whole) \in Nat /\ Len(ahead) \in Nat
  OBVIOUS
<1>2. /\ n \in 0 .. Len(whole) /\ n < Len(whole) /\ Len(whole) - Len(ahead) = n + 1
      /\ Len(a) = Len(ahead) + 1 /\ a[1] = c
      /\ \A k \in 1 .. Len(ahead) + 1 : k # 1 => a[k] = ahead[k - 1]
  BY <1>1, PutProperties
<1>3. /\ \A k \in 1 .. Len(ahead) : ahead[k] = whole[(n + 1) + k]
      /\ column = ColumnAfter(SubSeq(whole, 1, n + 1)) /\ offset = n + 1
      /\ c = whole[n + 1]
  BY <1>2 DEF ExactPlace
<1> HIDE DEF a, n
<1>4. /\ SubSeq(whole, 1, n) \in Seq(Characters)
      /\ SubSeq(whole, 1, n + 1) = Append(SubSeq(whole, 1, n), c)
  BY <1>2, <1>3, PrefixOn
<1>5. /\ ColumnAfter(SubSeq(whole, 1, n)) \in Nat \ {0}
      /\ column = ColumnAfter(SubSeq(whole, 1, n)) + 1
  <2>1. \A x : NextColumn(x, c) = x + 1
    BY DEF NextColumn
  <2>2. /\ ColumnAfter(SubSeq(whole, 1, n)) \in Nat \ {0}
        /\ ColumnAfter(SubSeq(whole, 1, n + 1)) = NextColumn(ColumnAfter(SubSeq(whole, 1, n)), c)
    BY <1>4, ColumnOn
  <2> QED BY <1>3, <2>1, <2>2
<1>6. Len(whole) - Len(a) = n /\ Len(a) <= Len(whole)
  BY <1>1, <1>2
<1>7. \A k \in 1 .. Len(a) : a[k] = whole[n + k]
  <2> SUFFICES ASSUME NEW k \in 1 .. Len(a) PROVE a[k] = whole[n + k]
    OBVIOUS
  <2>1. CASE k = 1
    BY <1>2, <1>3, <2>1
  <2>2. CASE k # 1
    <3>1. k \in 1 .. Len(ahead) + 1 /\ k - 1 \in 1 .. Len(ahead) /\ (n + 1) + (k - 1) = n + k
      BY <1>1, <1>2, <2>2
    <3> QED BY <1>2, <1>3, <2>2, <3>1
  <2> QED BY <2>1, <2>2
<1>8. column \in Nat /\ column # 0 /\ column - 1 = ColumnAfter(SubSeq(whole, 1, n))
  BY <1>5
<1>9. offset \in Nat /\ offset # 0 /\ offset - 1 = n
  BY <1>1, <1>2, <1>3
<1> QED
  BY <1>6, <1>7, <1>8, <1>9 DEF ExactPlace, a

LEMMA ExactBegins ==
  ASSUME NEW whole \in Seq(Characters)
  PROVE  ExactPlace(whole, whole, 1, 0)
<1>1. Len(whole) \in Nat /\ Len(whole) - Len(whole) = 0 /\ SubSeq(whole, 1, 0) = <<>>
  <2>1. Len(whole) \in Nat
    OBVIOUS
  <2>2. SubSeq(whole, 1, 0) = <<>>
    BY SubSeqEmpty
  <2> QED BY <2>1, <2>2
<1>2. 1 = ColumnAfter(SubSeq(whole, 1, Len(whole) - Len(whole)))
  BY <1>1, ColumnBegins
<1>3. \A k \in 1 .. Len(whole) : whole[k] = whole[(Len(whole) - Len(whole)) + k]
  <2>1. \A k \in 1 .. Len(whole) : (Len(whole) - Len(whole)) + k = k
    BY <1>1
  <2> QED BY <2>1
<1>4. Len(whole) <= Len(whole) /\ 0 = Len(whole) - Len(whole)
  BY <1>1
<1> QED
  BY <1>2, <1>3, <1>4 DEF ExactPlace
-----------------------------------------------------------------------------
(* Contexts.                                                               *)

Contexts ==
  [type : {"file", "string"}, src : Seq(Characters), index : Nat, unread : Seq(Characters),
   line : Int, column : Nat, offset : Nat, last_columns : Nat, saw_new_line : BOOLEAN,
   transparent : BOOLEAN, whole : Seq(Characters), ahead : Seq(Characters), first : Int,
   exact : BOOLEAN]

(* Where a context is: what is ahead of it, its line, and its column and   *)
(* offset when they can be known.                                          *)
Placed(ctx) ==
  /\ ctx.index \in 1 .. Len(ctx.src) + 1
  /\ ctx.whole = SeenText(ctx.type, ctx.src)
  /\ IsAhead(ctx.ahead, ctx.unread, ctx.whole, Len(Picked(ctx.type, ctx.src)[ctx.index - 1]))
  /\ ctx.line = ctx.first + (Newlines(ctx.whole) - Newlines(ctx.ahead))
  /\ ctx.exact => ExactPlace(ctx.ahead, ctx.whole, ctx.column, ctx.offset)

PlacedContexts == {ctx \in Contexts : Placed(ctx)}

(* Nothing to read is nothing ahead, and what is read is what is ahead.    *)
LEMMA NextIsAhead ==
  ASSUME NEW ctx \in PlacedContexts
  PROVE  /\ NextChar(ctx) \in Characters
         /\ Exhausted(ctx) <=> ctx.ahead = <<>>
         /\ NextChar(ctx) = IF ctx.ahead = <<>> THEN EOF ELSE Head(ctx.ahead)
         /\ Consumed(ctx) \in Contexts
         /\ Consumed(ctx).index \in 1 .. Len(ctx.src) + 1
         /\ ctx.ahead # <<>> =>
              IsAhead(Tail(ctx.ahead), Consumed(ctx).unread, ctx.whole,
                      Len(Picked(ctx.type, ctx.src)[Consumed(ctx).index - 1]))
         /\ ctx.ahead = <<>> => Consumed(ctx) = ctx
         /\ \E u, i : Consumed(ctx) = [ctx EXCEPT !.unread = u, !.index = i]
<1>1. ctx \in Contexts /\ Placed(ctx)
  BY DEF PlacedContexts
<1>2. /\ ctx.src \in Seq(Characters) /\ ctx.index \in Nat /\ ctx.unread \in Seq(Characters)
      /\ ctx.ahead \in Seq(Characters) /\ ctx.whole \in Seq(Characters)
  BY <1>1 DEF Contexts
<1> DEFINE n == Len(Picked(ctx.type, ctx.src)[ctx.index - 1])
<1>3. /\ ctx.index \in 1 .. Len(ctx.src) + 1 /\ ctx.whole = SeenText(ctx.type, ctx.src)
      /\ IsAhead(ctx.ahead, ctx.unread, ctx.whole, n)
  BY <1>1 DEF Placed
<1>4. CASE ctx.unread # <<>>
  <2> DEFINE u == SubSeq(ctx.unread, 1, Len(ctx.unread) - 1)
             d == [ctx EXCEPT !.unread = u]
  <2>1. /\ NextChar(ctx) = ctx.unread[Len(ctx.unread)] /\ ~Exhausted(ctx)
        /\ Consumed(ctx) = d
    BY <1>4 DEF NextChar, Exhausted, Consumed
  <2>2. /\ ctx.ahead # <<>> /\ Head(ctx.ahead) = ctx.unread[Len(ctx.unread)]
        /\ IsAhead(Tail(ctx.ahead), u, ctx.whole, n)
    BY <1>2, <1>3, <1>4, AheadOfUnread
  <2>3. u \in Seq(Characters) /\ ctx.unread[Len(ctx.unread)] \in Characters
    BY <1>2, <1>4, FrontProperties
  <2> HIDE DEF u
  <2>4. d \in Contexts /\ d.index = ctx.index /\ d.unread = u
    BY <1>1, <2>3 DEF Contexts
  <2>5. d = [ctx EXCEPT !.unread = u, !.index = ctx.index]
    BY <1>1 DEF Contexts
  <2> HIDE DEF d
  <2> QED BY <1>3, <2>1, <2>2, <2>3, <2>4, <2>5
<1>5. CASE ctx.unread = <<>> /\ ctx.index > Len(ctx.src)
  <2>1. /\ Exhausted(ctx) /\ NextChar(ctx) = EOF /\ Consumed(ctx) = ctx
    BY <1>5 DEF NextChar, Exhausted, Consumed
  <2>2. ctx.index - 1 = Len(ctx.src)
    BY <1>2, <1>3, <1>5
  <2>3. n = Len(ctx.whole)
    BY <1>3, <2>2 DEF SeenText
  <2>4. ctx.ahead = <<>>
    BY <1>2, <1>3, <1>5, <2>3, AheadOfText
  <2>5. ctx = [ctx EXCEPT !.unread = ctx.unread, !.index = ctx.index]
    BY <1>1 DEF Contexts
  <2> QED BY <1>1, <1>3, <2>1, <2>4, <2>5, SpecialCharacters
<1>6. CASE ctx.unread = <<>> /\ ~(ctx.index > Len(ctx.src))
  <2> DEFINE c == IF LineEnd(ctx.type, ctx.src, ctx.index) THEN NL ELSE ctx.src[ctx.index]
             j == ctx.index + (IF ctx.src[ctx.index] = c THEN 1 ELSE 2)
             d == [ctx EXCEPT !.index = j]
  <2>1. ~Exhausted(ctx) /\ ctx.index \in 1 .. Len(ctx.src)
    BY <1>2, <1>3, <1>6 DEF Exhausted
  <2>2. NextChar(ctx) = c
    BY <1>6, <2>1 DEF NextChar, LineEnd
  <2>3. Consumed(ctx) = [ctx EXCEPT !.index = @ + (IF ctx.src[ctx.index] = c THEN 1 ELSE 2)]
    BY <1>6, <2>1, <2>2 DEF Consumed
  <2>4. Consumed(ctx) = d
    BY <2>3
  <2> HIDE DEF c, j, d
  <2>5. /\ c \in Characters /\ j \in 1 .. Len(ctx.src) + 1
        /\ n < Len(ctx.whole) /\ ctx.whole[n + 1] = c
        /\ Len(Picked(ctx.type, ctx.src)[j - 1]) = n + 1
    <3>1. Taken(ctx.type, ctx.src, ctx.index, c, j)
      BY DEF c, j, Taken
    <3>2. /\ c \in Characters /\ j \in 1 .. Len(ctx.src) + 1
          /\ n < Len(SeenText(ctx.type, ctx.src)) /\ SeenText(ctx.type, ctx.src)[n + 1] = c
          /\ Len(Picked(ctx.type, ctx.src)[j - 1]) = n + 1
      <4> DEFINE type == ctx.type
                 text == ctx.src
                 i == ctx.index
                 p == Picked(type, text)
      <4>1. text \in Seq(Characters) /\ i \in 1 .. Len(text)
        BY <1>2, <2>1
      <4>2. Taken(type, text, i, c, j)
        BY <3>1
      <4> HIDE DEF type, text, i
      <4>3. /\ c \in Characters /\ j \in 1 .. Len(text) + 1
            /\ Len(p[i - 1]) < Len(SeenText(type, text))
            /\ SeenText(type, text)[Len(p[i - 1]) + 1] = c
            /\ Len(p[j - 1]) = Len(p[i - 1]) + 1
        BY <4>1, <4>2, TextTaken
      <4> QED BY <4>3 DEF type, text, i
    <3> QED BY <1>3, <3>2
  <2>6. /\ ctx.ahead # <<>> /\ Head(ctx.ahead) = c
        /\ IsAhead(Tail(ctx.ahead), ctx.unread, ctx.whole, n + 1)
    BY <1>2, <1>3, <1>6, <2>5, AheadOfText
  <2>7. j \in Nat
    BY <1>2, <2>5
  <2>8. d \in Contexts /\ d.index = j /\ d.unread = ctx.unread
    BY <1>1, <2>7 DEF Contexts, d
  <2>9. d = [ctx EXCEPT !.unread = ctx.unread, !.index = j]
    BY <1>1 DEF Contexts, d
  <2> QED BY <2>1, <2>2, <2>4, <2>5, <2>6, <2>8, <2>9
<1> QED
  BY <1>4, <1>5, <1>6

(* The line, when what is ahead has m newlines less.                       *)
LEMMA LineOn ==
  ASSUME NEW line \in Int, NEW first \in Int, NEW w \in Int, NEW a \in Int, NEW b \in Int,
         NEW m \in Int, line = first + (w - a), a = b + m
  PROVE  line + m = first + (w - b)
OBVIOUS

(* A character is read.                                                    *)
LEMMA AdvancedPlaced ==
  ASSUME NEW ctx \in PlacedContexts
  PROVE  Advanced(Consumed(ctx), NextChar(ctx)) \in PlacedContexts
<1> DEFINE d == Consumed(ctx)
           c == NextChar(ctx)
           y == Advanced(d, c)
           column == IF d.column # 0 THEN d.column + 1 ELSE 0
           n == Len(Picked(ctx.type, ctx.src)[d.index - 1])
<1>1. ctx \in Contexts /\ Placed(ctx)
  BY DEF PlacedContexts
<1>2. /\ c \in Characters /\ d \in Contexts
      /\ c = IF ctx.ahead = <<>> THEN EOF ELSE Head(ctx.ahead)
      /\ d.index \in 1 .. Len(ctx.src) + 1
      /\ ctx.ahead # <<>> => IsAhead(Tail(ctx.ahead), d.unread, ctx.whole, n)
      /\ ctx.ahead = <<>> => d = ctx
      /\ \E u, i : d = [ctx EXCEPT !.unread = u, !.index = i]
  BY NextIsAhead
<1> HIDE DEF d, c
<1>3. /\ d.type = ctx.type /\ d.src = ctx.src /\ d.line = ctx.line /\ d.column = ctx.column
      /\ d.offset = ctx.offset /\ d.whole = ctx.whole /\ d.ahead = ctx.ahead
      /\ d.first = ctx.first /\ d.exact = ctx.exact
  BY <1>1, <1>2 DEF Contexts
<1>4. /\ d.line \in Int /\ d.first \in Int /\ d.column \in Nat /\ d.offset \in Nat
      /\ d.last_columns \in Nat /\ d.ahead \in Seq(Characters) /\ d.whole \in Seq(Characters)
      /\ d.exact \in BOOLEAN /\ d.saw_new_line \in BOOLEAN
  BY <1>2 DEF Contexts
<1>5. column \in Nat /\ column + ToTabStop(column) \in Nat
  <2>1. column \in Nat
    BY <1>4
  <2> HIDE DEF column
  <2>2. ToTabStop(column) \in Nat
    BY <2>1, ToTabStopNatural
  <2> QED BY <2>1, <2>2
<1> DEFINE line == IF c = NL THEN d.line + 1 ELSE d.line
           last == IF c = NL THEN column ELSE d.last_columns
           col == CASE c = NL -> 1
                    [] c = HT -> column + ToTabStop(column)
                    [] OTHER -> column
           saw == IF c # NL THEN FALSE ELSE d.saw_new_line
           ahead == IF d.ahead = <<>> THEN d.ahead ELSE Tail(d.ahead)
           exact == d.exact /\ c # EOF
<1>6. y = [d EXCEPT !.offset = d.offset + 1, !.line = line, !.last_columns = last,
                    !.column = col, !.saw_new_line = saw, !.ahead = ahead, !.exact = exact]
  BY DEF Advanced
<1>7. /\ line \in Int /\ last \in Nat /\ col \in Nat /\ saw \in BOOLEAN /\ exact \in BOOLEAN
      /\ ahead \in Seq(Characters) /\ d.offset + 1 \in Nat
  <2>1. ahead \in Seq(Characters)
    BY <1>4, TailProperties
  <2>2. line \in Int /\ last \in Nat /\ d.offset + 1 \in Nat
    BY <1>4, <1>5
  <2>3. col \in Nat
    BY <1>5
  <2>4. saw \in BOOLEAN /\ exact \in BOOLEAN
    BY <1>4
  <2> QED BY <2>1, <2>2, <2>3, <2>4
<1> HIDE DEF y, line, last, col, saw, ahead, exact
<1>8. y \in Contexts
  BY <1>2, <1>6, <1>7 DEF Contexts
<1>9. /\ y.type = ctx.type /\ y.src = ctx.src /\ y.index = d.index /\ y.unread = d.unread
      /\ y.whole = ctx.whole /\ y.first = ctx.first
      /\ y.line = line /\ y.column = col /\ y.offset = d.offset + 1 /\ y.ahead = ahead
      /\ y.exact = exact
  BY <1>2, <1>3, <1>6 DEF Contexts
<1>10. /\ ctx.index \in 1 .. Len(ctx.src) + 1 /\ ctx.whole = SeenText(ctx.type, ctx.src)
       /\ IsAhead(ctx.ahead, ctx.unread, ctx.whole, Len(Picked(ctx.type, ctx.src)[ctx.index - 1]))
       /\ ctx.line = ctx.first + (Newlines(ctx.whole) - Newlines(ctx.ahead))
       /\ ctx.exact => ExactPlace(ctx.ahead, ctx.whole, ctx.column, ctx.offset)
  BY <1>1 DEF Placed
<1>11. /\ IsAhead(ahead, d.unread, ctx.whole, n)
       /\ line = ctx.first + (Newlines(ctx.whole) - Newlines(ahead))
       /\ exact => ExactPlace(ahead, ctx.whole, col, d.offset + 1)
  <2>1. CASE ctx.ahead = <<>>
    <3>1. c = EOF /\ c # NL /\ d = ctx /\ ahead = ctx.ahead /\ line = ctx.line /\ ~exact
      BY <1>2, <1>3, <2>1, SpecialCharacters DEF ahead, line, exact
    <3> QED BY <1>10, <3>1
  <2>2. CASE ctx.ahead # <<>>
    <3>1. c = Head(ctx.ahead) /\ ahead = Tail(ctx.ahead)
      BY <1>2, <1>3, <2>2 DEF ahead
    <3>2. IsAhead(ahead, d.unread, ctx.whole, n)
      BY <1>2, <2>2, <3>1
    <3>3. /\ Newlines(ctx.ahead) \in Nat /\ Newlines(ahead) \in Nat /\ Newlines(ctx.whole) \in Nat
          /\ Newlines(ctx.ahead) = Newlines(ahead) + IF c = NL THEN 1 ELSE 0
      BY <1>3, <1>4, <2>2, <3>1, NewlinesFirst, NewlinesCounted
    <3>4. line = ctx.first + (Newlines(ctx.whole) - Newlines(ahead))
      <4> DEFINE m == IF c = NL THEN 1 ELSE 0
      <4>1. m \in Int /\ ctx.line \in Int /\ ctx.first \in Int
        BY <1>3, <1>4
      <4>2. line = ctx.line + m
        BY <1>3, <4>1 DEF line
      <4>3. Newlines(ctx.ahead) = Newlines(ahead) + m
        BY <3>3
      <4> HIDE DEF m
      <4>4. ctx.line + m = ctx.first + (Newlines(ctx.whole) - Newlines(ahead))
        BY <1>10, <3>3, <4>1, <4>3, LineOn
      <4> QED BY <4>2, <4>4
    <3>5. ASSUME exact PROVE ExactPlace(ahead, ctx.whole, col, d.offset + 1)
      <4>1. ExactPlace(ctx.ahead, ctx.whole, ctx.column, ctx.offset)
        BY <1>3, <1>10, <3>5 DEF exact
      <4>2. /\ ctx.column \in Nat \ {0}
            /\ ExactPlace(ahead, ctx.whole, NextColumn(ctx.column, c), ctx.offset + 1)
        BY <1>3, <1>4, <2>2, <3>1, <4>1, ExactTaken
      <4>3. column = ctx.column + 1
        BY <1>3, <4>2
      <4>4. col = NextColumn(ctx.column, c)
        BY <4>3 DEF col, NextColumn
      <4> QED BY <1>3, <4>2, <4>4
    <3> QED BY <3>2, <3>4, <3>5
  <2> QED BY <2>1, <2>2
<1>12. Placed(y)
  BY <1>2, <1>9, <1>10, <1>11 DEF Placed
<1> QED
  BY <1>8, <1>12 DEF PlacedContexts, y, d, c

(* A character is put back.                                                *)
PutTo(ctx, c) ==
  [ctx EXCEPT
     !.unread = Append(@, c),
     !.column = IF c = NL THEN ctx.last_columns ELSE IF @ # 0 THEN @ - 1 ELSE @,
     !.offset = IF @ # 0 THEN @ - 1 ELSE @,
     !.line = IF c = NL THEN @ - 1 ELSE @,
     !.last_columns = IF c = NL THEN 0 ELSE @,
     !.saw_new_line = IF c = NL THEN TRUE ELSE @,
     !.ahead = <<c>> \o @,
     !.exact = /\ @ /\ c \notin {HT, NL}
               /\ Len(ctx.ahead) < Len(ctx.whole)
               /\ c = ctx.whole[Len(ctx.whole) - Len(ctx.ahead)]]

LEMMA PutPlaced ==
  ASSUME NEW ctx \in PlacedContexts, NEW c \in Characters
  PROVE  PutTo(ctx, c) \in PlacedContexts
<1> DEFINE y == PutTo(ctx, c)
           unread == Append(ctx.unread, c)
           col == IF c = NL THEN ctx.last_columns ELSE IF ctx.column # 0 THEN ctx.column - 1
                  ELSE ctx.column
           offset == IF ctx.offset # 0 THEN ctx.offset - 1 ELSE ctx.offset
           line == IF c = NL THEN ctx.line - 1 ELSE ctx.line
           last == IF c = NL THEN 0 ELSE ctx.last_columns
           saw == IF c = NL THEN TRUE ELSE ctx.saw_new_line
           ahead == <<c>> \o ctx.ahead
           exact == /\ ctx.exact /\ c \notin {HT, NL}
                    /\ Len(ctx.ahead) < Len(ctx.whole)
                    /\ c = ctx.whole[Len(ctx.whole) - Len(ctx.ahead)]
           n == Len(Picked(ctx.type, ctx.src)[ctx.index - 1])
<1>1. ctx \in Contexts /\ Placed(ctx)
  BY DEF PlacedContexts
<1>2. /\ ctx.line \in Int /\ ctx.first \in Int /\ ctx.column \in Nat /\ ctx.offset \in Nat
      /\ ctx.last_columns \in Nat /\ ctx.ahead \in Seq(Characters) /\ ctx.whole \in Seq(Characters)
      /\ ctx.exact \in BOOLEAN /\ ctx.saw_new_line \in BOOLEAN /\ ctx.unread \in Seq(Characters)
  BY <1>1 DEF Contexts
<1>3. y = [ctx EXCEPT !.unread = unread, !.column = col, !.offset = offset, !.line = line,
                      !.last_columns = last, !.saw_new_line = saw, !.ahead = ahead, !.exact = exact]
  BY DEF PutTo
<1>4. /\ line \in Int /\ last \in Nat /\ col \in Nat /\ offset \in Nat /\ saw \in BOOLEAN
      /\ exact \in BOOLEAN /\ ahead \in Seq(Characters) /\ unread \in Seq(Characters)
  <2>1. ahead \in Seq(Characters) /\ unread \in Seq(Characters)
    BY <1>2, PutProperties, AppendProperties
  <2>2. line \in Int /\ last \in Nat /\ col \in Nat /\ offset \in Nat
    BY <1>2
  <2>3. saw \in BOOLEAN /\ exact \in BOOLEAN
    BY <1>2
  <2> QED BY <2>1, <2>2, <2>3
<1> HIDE DEF y, unread, col, offset, line, last, saw, ahead, exact
<1>5. y \in Contexts
  BY <1>1, <1>3, <1>4 DEF Contexts
<1>6. /\ y.type = ctx.type /\ y.src = ctx.src /\ y.index = ctx.index /\ y.unread = unread
      /\ y.whole = ctx.whole /\ y.first = ctx.first
      /\ y.line = line /\ y.column = col /\ y.offset = offset /\ y.ahead = ahead
      /\ y.exact = exact
  BY <1>1, <1>3 DEF Contexts
<1>7. /\ ctx.index \in 1 .. Len(ctx.src) + 1 /\ ctx.whole = SeenText(ctx.type, ctx.src)
      /\ IsAhead(ctx.ahead, ctx.unread, ctx.whole, n)
      /\ ctx.line = ctx.first + (Newlines(ctx.whole) - Newlines(ctx.ahead))
      /\ ctx.exact => ExactPlace(ctx.ahead, ctx.whole, ctx.column, ctx.offset)
  BY <1>1 DEF Placed
<1>8. IsAhead(ahead, unread, ctx.whole, n)
  BY <1>2, <1>7, AheadPut DEF ahead, unread
<1>9. line = ctx.first + (Newlines(ctx.whole) - Newlines(ahead))
  <2>1. /\ Newlines(ctx.ahead) \in Nat /\ Newlines(ctx.whole) \in Nat
        /\ Newlines(ahead) = Newlines(ctx.ahead) + IF c = NL THEN 1 ELSE 0
    BY <1>2, NewlinesPut, NewlinesCounted DEF ahead
  <2> DEFINE m == IF c = NL THEN -1 ELSE 0
  <2>2. m \in Int
    OBVIOUS
  <2>3. line = ctx.line + m
    BY <1>2 DEF line
  <2>4. Newlines(ahead) \in Nat /\ Newlines(ctx.ahead) = Newlines(ahead) + m
    BY <2>1
  <2> HIDE DEF m
  <2>5. ctx.line \in Int /\ ctx.first \in Int
    BY <1>2
  <2>6. ctx.line = ctx.first + (Newlines(ctx.whole) - Newlines(ctx.ahead))
    BY <1>7
  <2>7. ctx.line + m = ctx.first + (Newlines(ctx.whole) - Newlines(ahead))
    BY ONLY <2>1, <2>2, <2>4, <2>5, <2>6, LineOn
  <2> QED BY <2>3, <2>7
<1>10. ASSUME exact PROVE ExactPlace(ahead, ctx.whole, col, offset)
  <2>1. /\ ExactPlace(ctx.ahead, ctx.whole, ctx.column, ctx.offset)
        /\ c \notin {HT, NL} /\ Len(ctx.ahead) < Len(ctx.whole)
        /\ c = ctx.whole[Len(ctx.whole) - Len(ctx.ahead)]
    BY <1>7, <1>10 DEF exact
  <2>2. /\ ctx.column # 0 /\ ctx.offset # 0
        /\ ExactPlace(ahead, ctx.whole, ctx.column - 1, ctx.offset - 1)
    BY <1>2, <2>1, ExactPut DEF ahead
  <2>3. col = ctx.column - 1 /\ offset = ctx.offset - 1
    BY <2>1, <2>2 DEF col, offset
  <2> QED BY <2>2, <2>3
<1>11. Placed(y)
  BY <1>6, <1>7, <1>8, <1>9, <1>10 DEF Placed
<1> QED
  BY <1>5, <1>11 DEF PlacedContexts, y

(* A context is opened, with nothing put back to it.                       *)
LEMMA NewPlaced ==
  ASSUME NEW stack \in Seq(PlacedContexts), NEW type \in {"file", "string"}, NEW named \in BOOLEAN,
         NEW text \in Seq(Characters), NEW transparent \in BOOLEAN
  PROVE  NewContext(stack, type, named, text, transparent) \in PlacedContexts
<1> DEFINE inherits == ~named /\ stack # <<>>
           line == IF inherits THEN Current(stack).line ELSE 1
           column == IF inherits THEN Current(stack).column ELSE 1
           whole == SeenText(type, text)
           y == NewContext(stack, type, named, text, transparent)
<1>1. stack # <<>> => Current(stack) \in Contexts
  <2> SUFFICES ASSUME stack # <<>> PROVE Current(stack) \in Contexts
    OBVIOUS
  <2>1. Current(stack) \in PlacedContexts
    BY FrontProperties DEF Current
  <2> QED BY <2>1 DEF PlacedContexts
<1>2. line \in Int /\ column \in Nat /\ inherits \in BOOLEAN
  BY <1>1 DEF Contexts
<1>3. whole \in Seq(Characters) /\ Picked(type, text)[0] = <<>> /\ Len(text) \in Nat
  <2>1. Len(text) \in Nat /\ 0 \in 0 .. Len(text)
    OBVIOUS
  <2>2. SeenText(type, text) \in Seq(Characters)
    BY <2>1, PickedPrefix
  <2> QED BY <2>1, <2>2, PickedExists
<1>4. y = [type |-> type, src |-> text, index |-> 1, unread |-> <<>>, line |-> line,
           column |-> column, offset |-> 0, last_columns |-> 0, saw_new_line |-> ~inherits,
           transparent |-> transparent, whole |-> whole, ahead |-> whole, first |-> line,
           exact |-> ~inherits]
  BY DEF NewContext
<1>5. ~inherits => column = 1
  OBVIOUS
<1> HIDE DEF inherits, line, column, whole, y
<1>6. <<>> \in Seq(Characters)
  OBVIOUS
<1>7. y \in Contexts
  BY <1>2, <1>3, <1>4, <1>6 DEF Contexts
<1>8. /\ y.type = type /\ y.src = text /\ y.index = 1 /\ y.unread = <<>> /\ y.line = line
      /\ y.column = column /\ y.offset = 0 /\ y.whole = whole /\ y.ahead = whole
      /\ y.first = line /\ y.exact = ~inherits
  BY <1>4
<1>9. IsAhead(whole, <<>>, whole, 0)
  <2>1. Len(whole) \in Nat /\ Len(<<>>) = 0
    BY <1>3
  <2>2. \A k \in 1 .. Len(whole) : ~(k <= 0) /\ 0 + (k - 0) = k
    BY <2>1
  <2> QED BY <2>1, <2>2 DEF IsAhead
<1>10. /\ 1 \in 1 .. Len(text) + 1
       /\ Len(Picked(type, text)[1 - 1]) = 0
  <2>1. 1 - 1 = 0 /\ Len(<<>>) = 0
    OBVIOUS
  <2> QED BY <1>3, <2>1
<1>11. line = line + (Newlines(whole) - Newlines(whole))
  BY <1>2, <1>3, NewlinesCounted
<1>12. ~inherits => ExactPlace(whole, whole, column, 0)
  BY <1>3, <1>5, ExactBegins
<1>13. Placed(y)
  BY <1>8, <1>9, <1>10, <1>11, <1>12 DEF Placed, whole
<1> QED
  BY <1>7, <1>13 DEF PlacedContexts, y

-----------------------------------------------------------------------------
(* Stacks of contexts, and what is read from them.                         *)

Stacks == Seq(PlacedContexts)

LEMMA CurrentOf ==
  ASSUME NEW stack \in Stacks, stack # <<>>
  PROVE  Current(stack) \in PlacedContexts
BY FrontProperties DEF Current, Stacks

LEMMA CurrentSet ==
  ASSUME NEW stack \in Stacks, NEW ctx \in PlacedContexts
  PROVE  SetCurrent(stack, ctx) \in Stacks
<1> DEFINE s == [stack EXCEPT ![Len(stack)] = ctx]
<1>1. /\ Len(stack) \in Nat /\ stack \in Seq(PlacedContexts)
      /\ \A k \in 1 .. Len(stack) : stack[k] \in PlacedContexts
      /\ DOMAIN stack = 1 .. Len(stack)
  BY DEF Stacks
<1>2. s \in [1 .. Len(stack) -> PlacedContexts]
  BY <1>1
<1> HIDE DEF s
<1>3. s \in Seq(PlacedContexts)
  BY <1>1, <1>2
<1> QED
  BY <1>3 DEF SetCurrent, Stacks, s

LEMMA Below ==
  ASSUME NEW stack \in Stacks, NEW n \in 0 .. Len(stack)
  PROVE  SubSeq(stack, 1, n) \in Stacks
<1>1. 1 \in Int /\ n \in Int /\ \A k \in 1 .. n : k \in 1 .. Len(stack)
  BY DEF Stacks
<1>2. \A k \in 1 .. n : stack[k] \in PlacedContexts
  BY <1>1 DEF Stacks
<1> QED
  BY <1>1, <1>2, SubSeqProperties DEF Stacks

LEMMA OpenedStack == ASSUME NEW stack \in Stacks PROVE Opened(stack) \in Stacks
<1> DEFINE stay == {d \in 1 .. Len(stack) : ~(Exhausted(stack[d]) /\ stack[d].transparent)}
<1>1. CASE stay = {}
  BY <1>1 DEF Opened, Stacks
<1>2. CASE stay # {}
  <2> DEFINE m == CHOOSE d \in stay : \A e \in stay : e <= d
  <2>1. \E d \in stay : \A e \in stay : e <= d
    <3> DEFINE T == {Len(stack) - d : d \in stay}
    <3>1. Len(stack) \in Nat
      BY DEF Stacks
    <3>2. T \subseteq Nat /\ T # {}
      BY <1>2, <3>1
    <3>3. \A d \in stay : d \in Int /\ Len(stack) - d \in T
      BY <3>1
    <3>4. PICK x \in T : \A z \in T : x <= z
      <4> HIDE DEF T
      <4> QED BY <3>2, LeastNatural
    <3>5. PICK d \in stay : x = Len(stack) - d
      BY <3>4
    <3> HIDE DEF T, stay
    <3>6. \A e \in stay : e <= d
      BY <3>1, <3>3, <3>4, <3>5
    <3> QED BY <3>5, <3>6
  <2>2. m \in stay
    <3> HIDE DEF stay
    <3> QED BY <2>1
  <2>3. m \in 0 .. Len(stack)
    <3> HIDE DEF m
    <3> QED BY <2>2 DEF Stacks
  <2>4. Opened(stack) = SubSeq(stack, 1, m)
    BY <1>2 DEF Opened
  <2> HIDE DEF m
  <2> QED BY <2>3, <2>4, Below
<1> QED
  BY <1>1, <1>2

(* A character read is the one that is ahead.                              *)
LEMMA GetcGives ==
  ASSUME NEW stack \in Stacks
  PROVE  /\ Getc(stack).stack \in Stacks /\ Getc(stack).c \in Characters
         /\ Getc(stack).due = Getc(stack).c
<1> DEFINE s == Opened(stack)
           ctx == Current(s)
<1>1. s \in Stacks
  BY OpenedStack
<1> HIDE DEF s
<1>2. CASE s = <<>>
  <2>1. Getc(stack) = [stack |-> s, c |-> EOF, due |-> EOF]
    BY <1>2 DEF Getc, s
  <2> QED BY <1>1, <2>1, SpecialCharacters
<1>3. CASE s # <<>>
  <2> DEFINE y == Advanced(Consumed(ctx), NextChar(ctx))
             t == SetCurrent(s, y)
             due == IF ctx.ahead = <<>> THEN EOF ELSE Head(ctx.ahead)
  <2>1. ctx \in PlacedContexts
    BY <1>1, <1>3, CurrentOf
  <2>2. Getc(stack) = [stack |-> t, c |-> NextChar(ctx), due |-> due]
    BY <1>3 DEF Getc, s
  <2> HIDE DEF ctx
  <2>3. y \in PlacedContexts
    BY <2>1, AdvancedPlaced
  <2>4. NextChar(ctx) \in Characters /\ NextChar(ctx) = due
    BY <2>1, NextIsAhead
  <2> HIDE DEF y, due
  <2>5. t \in Stacks
    BY <1>1, <2>3, CurrentSet
  <2> HIDE DEF t
  <2> QED BY <2>2, <2>4, <2>5
<1> QED
  BY <1>2, <1>3

LEMMA UngetcKeeps ==
  ASSUME NEW stack \in Stacks, NEW c \in Characters
  PROVE  Ungetc(stack, c) \in Stacks
<1>1. CASE stack = <<>>
  BY <1>1 DEF Ungetc
<1>2. CASE stack # <<>>
  <2>1. Ungetc(stack, c) = SetCurrent(stack, PutTo(Current(stack), c))
    BY <1>2 DEF Ungetc, PutTo
  <2>2. PutTo(Current(stack), c) \in PlacedContexts
    BY <1>2, CurrentOf, PutPlaced
  <2> QED BY <2>1, <2>2, CurrentSet
<1> QED
  BY <1>1, <1>2

(* A text read is what was ahead, character by character.                  *)
Readings ==
  {r \in [stack : Stacks, c : Characters, due : Characters, text : Seq(Characters),
          dues : Seq(Characters), more : BOOLEAN] : r.text = r.dues}

ReadOn(r, ends) ==
  IF ~r.more THEN r
  ELSE LET got == Getc(r.stack)
       IN [stack |-> got.stack, c |-> got.c, due |-> got.due,
           text |-> IF got.c = EOF THEN r.text ELSE Append(r.text, got.c),
           dues |-> IF got.due = EOF THEN r.dues ELSE Append(r.dues, got.due),
           more |-> got.c # EOF /\ got.c \notin ends]

ReadBegins(stack) ==
  [stack |-> stack, c |-> EOF, due |-> EOF, text |-> <<>>, dues |-> <<>>, more |-> TRUE]

ReadsFrom(stack, ends, read) ==
  read = [i \in 0 .. IB_Length - 1 |->
            IF i = 0 THEN ReadBegins(stack) ELSE ReadOn(read[i - 1], ends)]

LEMMA ReadOnReads == ASSUME NEW r \in Readings, NEW ends PROVE ReadOn(r, ends) \in Readings
<1> DEFINE got == Getc(r.stack)
           text == IF got.c = EOF THEN r.text ELSE Append(r.text, got.c)
           dues == IF got.due = EOF THEN r.dues ELSE Append(r.dues, got.due)
           more == got.c # EOF /\ got.c \notin ends
<1>1. /\ r.stack \in Stacks /\ r.text \in Seq(Characters) /\ r.text = r.dues
      /\ r.more \in BOOLEAN
  BY DEF Readings
<1>2. got.stack \in Stacks /\ got.c \in Characters /\ got.due = got.c
  BY <1>1, GetcGives
<1>3. ~r.more => ReadOn(r, ends) = r
  BY DEF ReadOn
<1>4. r.more => ReadOn(r, ends) = [stack |-> got.stack, c |-> got.c, due |-> got.due,
                                   text |-> text, dues |-> dues, more |-> more]
  BY DEF ReadOn
<1> HIDE DEF got
<1>5. text \in Seq(Characters) /\ text = dues /\ more \in BOOLEAN
  BY <1>1, <1>2, AppendProperties
<1> HIDE DEF text, dues, more
<1> QED
  BY <1>1, <1>2, <1>3, <1>4, <1>5 DEF Readings

LEMMA GetTextGives ==
  ASSUME NEW stack \in Stacks, NEW ends
  PROVE  GetText(stack, ends) \in Readings
<1> DEFINE N == IB_Length - 1
           G == [x \in (1 .. N) \X Readings |-> ReadOn(x[2], ends)]
           start == ReadBegins(stack)
           read == CHOOSE f : ReadsFrom(stack, ends, f)
           P == {i \in 0 .. N : read[i] \in Readings}
<1>1. N \in Nat
  BY InputBufferAssumption
<1>2. start \in Readings
  <2>1. <<>> \in Seq(Characters)
    OBVIOUS
  <2> QED BY <2>1, SpecialCharacters DEF Readings, ReadBegins
<1>3. /\ G \in [(1 .. N) \X Readings -> Readings]
      /\ \A i \in 1 .. N : \A r \in Readings : G[<<i, r>>] = ReadOn(r, ends)
  BY ReadOnReads
<1> HIDE DEF G, N, start
<1>4. PICK f \in [0 .. N -> Readings] : Obeys(f, start, G, N)
  BY <1>1, <1>2, <1>3, RecursionExists
<1>5. \A i \in 0 .. N : f[i] = IF i = 0 THEN start ELSE ReadOn(f[i - 1], ends)
  <2> SUFFICES ASSUME NEW i \in 0 .. N, i # 0 PROVE f[i] = ReadOn(f[i - 1], ends)
    BY <1>4 DEF Obeys
  <2>1. i \in 1 .. N /\ i - 1 \in 0 .. N
    BY <1>1
  <2> QED BY <1>3, <1>4, <2>1 DEF Obeys
<1>6. ReadsFrom(stack, ends, f)
  BY <1>4, <1>5 DEF ReadsFrom, N, start
<1>7. ReadsFrom(stack, ends, read)
  BY <1>6
<1> HIDE DEF read
<1>8. \A i \in 0 .. N : read[i] = IF i = 0 THEN start ELSE ReadOn(read[i - 1], ends)
  BY <1>7 DEF ReadsFrom, N, start
<1>9. 0 .. N \subseteq P
  <2>1. 0 \in P
    BY <1>1, <1>2, <1>8
  <2>2. \A i \in 0 .. N - 1 : i \in P => i + 1 \in P
    <3> SUFFICES ASSUME NEW i \in 0 .. N - 1, read[i] \in Readings
                 PROVE  i + 1 \in 0 .. N /\ read[i + 1] \in Readings
      OBVIOUS
    <3>1. i + 1 \in 0 .. N /\ i + 1 # 0 /\ (i + 1) - 1 = i
      BY <1>1
    <3> QED BY <1>8, <3>1, ReadOnReads
  <2> HIDE DEF P
  <2> QED BY <1>1, <2>1, <2>2, Upwards
<1>10. read[N] \in Readings
  BY <1>1, <1>9
<1>11. GetText(stack, ends) = read[N]
  BY DEF GetText, read, ReadsFrom, ReadOn, ReadBegins, N
<1> QED
  BY <1>10, <1>11

(* A string is put back.                                                   *)
PutsFrom(stack, string, put) ==
  put = [i \in 0 .. Len(string) |->
           IF i = 0 THEN stack ELSE Ungetc(put[i - 1], string[Len(string) - i + 1])]

LEMMA UngetstringKeeps ==
  ASSUME NEW stack \in Stacks, NEW string \in Seq(Characters)
  PROVE  Ungetstring(stack, string) \in Stacks
<1> DEFINE N == Len(string)
           G == [x \in (1 .. N) \X Stacks |-> Ungetc(x[2], string[N - x[1] + 1])]
           put == CHOOSE f : PutsFrom(stack, string, f)
           P == {i \in 0 .. N : put[i] \in Stacks}
<1>1. N \in Nat /\ \A i \in 1 .. N : string[N - i + 1] \in Characters
  <2>1. N \in Nat /\ \A i \in 1 .. N : N - i + 1 \in 1 .. N
    OBVIOUS
  <2> QED BY <2>1
<1> HIDE DEF N
<1>2. /\ G \in [(1 .. N) \X Stacks -> Stacks]
      /\ \A i \in 1 .. N : \A s \in Stacks : G[<<i, s>>] = Ungetc(s, string[N - i + 1])
  BY <1>1, UngetcKeeps
<1> HIDE DEF G
<1>3. PICK f \in [0 .. N -> Stacks] : Obeys(f, stack, G, N)
  BY <1>1, <1>2, RecursionExists
<1>4. \A i \in 0 .. N : f[i] = IF i = 0 THEN stack ELSE Ungetc(f[i - 1], string[N - i + 1])
  <2> SUFFICES ASSUME NEW i \in 0 .. N, i # 0 PROVE f[i] = Ungetc(f[i - 1], string[N - i + 1])
    BY <1>3 DEF Obeys
  <2>1. i \in 1 .. N /\ i - 1 \in 0 .. N
    BY <1>1
  <2> QED BY <1>2, <1>3, <2>1 DEF Obeys
<1>5. PutsFrom(stack, string, f)
  BY <1>3, <1>4 DEF PutsFrom, N
<1>6. PutsFrom(stack, string, put)
  BY <1>5
<1> HIDE DEF put
<1>7. \A i \in 0 .. N : put[i] = IF i = 0 THEN stack ELSE Ungetc(put[i - 1], string[N - i + 1])
  BY <1>6 DEF PutsFrom, N
<1>8. 0 .. N \subseteq P
  <2>1. 0 \in P
    BY <1>1, <1>7
  <2>2. \A i \in 0 .. N - 1 : i \in P => i + 1 \in P
    <3> SUFFICES ASSUME NEW i \in 0 .. N - 1, put[i] \in Stacks
                 PROVE  i + 1 \in 0 .. N /\ put[i + 1] \in Stacks
      OBVIOUS
    <3>1. i + 1 \in 0 .. N /\ i + 1 \in 1 .. N /\ i + 1 # 0 /\ (i + 1) - 1 = i
      BY <1>1
    <3>2. string[N - (i + 1) + 1] \in Characters
      BY <1>1, <3>1
    <3> QED BY <1>7, <3>1, <3>2, UngetcKeeps
  <2> HIDE DEF P
  <2> QED BY <1>1, <2>1, <2>2, Upwards
<1>9. put[N] \in Stacks
  BY <1>1, <1>8
<1>10. Ungetstring(stack, string) = put[N]
  BY DEF Ungetstring, put, PutsFrom, N
<1> QED
  BY <1>9, <1>10

-----------------------------------------------------------------------------
(* The input buffer.                                                       *)

IB_Inv ==
  /\ ib_stack \in Stacks /\ ib_read \in Seq(Characters)
  /\ ib_given = TRUE

LEMMA IB_InitInv == IB_Init => IB_Inv
<1>1. <<>> \in Stacks /\ <<>> \in Seq(Characters)
  BY DEF Stacks
<1> QED
  BY <1>1 DEF IB_Init, IB_Inv

LEMMA IB_OpenContextKeeps == ASSUME IB_Inv, IB_OpenContext PROVE IB_Inv'
<1>1. PICK type \in {"file", "string"}, named \in BOOLEAN, transparent \in BOOLEAN, text \in IB_Texts :
        ib_stack' = Append(ib_stack, NewContext(ib_stack, type, named, text, transparent))
  BY DEF IB_OpenContext
<1> DEFINE ctx == NewContext(ib_stack, type, named, text, transparent)
<1>2. ib_stack \in Stacks /\ text \in Seq(Characters)
  BY GivenTexts DEF IB_Inv
<1>3. ctx \in PlacedContexts
  BY <1>2, NewPlaced DEF Stacks
<1>4. ib_stack' = Append(ib_stack, ctx)
  BY <1>1
<1> HIDE DEF ctx
<1>5. ib_stack' \in Stacks
  BY <1>2, <1>3, <1>4, AppendProperties DEF Stacks
<1>6. ib_read' = <<>> /\ ib_given' = ib_given /\ <<>> \in Seq(Characters)
  BY DEF IB_OpenContext
<1> QED
  BY <1>5, <1>6 DEF IB_Inv

LEMMA IB_CloseCurrentContextKeeps == ASSUME IB_Inv, IB_CloseCurrentContext PROVE IB_Inv'
<1>1. /\ ib_stack # <<>> /\ ib_stack' = SubSeq(ib_stack, 1, Len(ib_stack) - 1)
      /\ ib_read' = <<>> /\ ib_given' = ib_given /\ <<>> \in Seq(Characters)
  BY DEF IB_CloseCurrentContext, UndoContext
<1>2. ib_stack \in Stacks /\ Len(ib_stack) - 1 \in 0 .. Len(ib_stack)
  BY <1>1 DEF IB_Inv, Stacks
<1>3. ib_stack' \in Stacks
  BY <1>1, <1>2, Below
<1> QED
  BY <1>1, <1>3 DEF IB_Inv

LEMMA IB_InputBufferResetKeeps == ASSUME IB_Inv, IB_InputBufferReset PROVE IB_Inv'
BY DEF IB_Inv, IB_InputBufferReset, Stacks

LEMMA IB_getcKeeps == ASSUME IB_Inv, IB_getc PROVE IB_Inv'
<1> DEFINE got == Getc(ib_stack)
<1>1. got.stack \in Stacks /\ got.c \in Characters /\ got.due = got.c
  BY GetcGives DEF IB_Inv
<1>2. /\ ib_stack' = got.stack /\ ib_given' = (ib_given /\ got.c = got.due)
      /\ ib_read' = IF got.c = EOF THEN <<>> ELSE Append(ib_read, got.c)
  BY DEF IB_getc
<1> HIDE DEF got
<1>3. ib_read' \in Seq(Characters)
  <2>1. <<>> \in Seq(Characters) /\ ib_read \in Seq(Characters)
    BY DEF IB_Inv
  <2> QED BY <1>1, <1>2, <2>1, AppendProperties
<1> QED
  BY <1>1, <1>2, <1>3 DEF IB_Inv

LEMMA IB_gettextKeeps == ASSUME IB_Inv, NEW ends, IB_gettext(ends) PROVE IB_Inv'
<1> DEFINE got == GetText(ib_stack, ends)
<1>1. got \in Readings
  BY GetTextGives DEF IB_Inv
<1>2. /\ ib_stack' = got.stack /\ ib_given' = (ib_given /\ got.text = got.dues)
      /\ ib_read' = IF got.c = EOF THEN <<>> ELSE ib_read \o got.text
  BY DEF IB_gettext
<1> HIDE DEF got
<1>3. got.stack \in Stacks /\ got.text \in Seq(Characters) /\ got.text = got.dues
  BY <1>1 DEF Readings
<1>4. ib_read' \in Seq(Characters)
  <2>1. <<>> \in Seq(Characters) /\ ib_read \in Seq(Characters)
    BY DEF IB_Inv
  <2> QED BY <1>2, <1>3, <2>1, ConcatProperties
<1> QED
  BY <1>2, <1>3, <1>4 DEF IB_Inv

LEMMA IB_ungetcKeeps == ASSUME IB_Inv, IB_ungetc PROVE IB_Inv'
<1> DEFINE c == ib_read[Len(ib_read)]
<1>1. /\ ib_read # <<>> /\ ib_stack' = Ungetc(ib_stack, c)
      /\ ib_read' = SubSeq(ib_read, 1, Len(ib_read) - 1) /\ ib_given' = ib_given
  BY DEF IB_ungetc
<1>2. ib_read \in Seq(Characters) /\ ib_stack \in Stacks
  BY DEF IB_Inv
<1>3. c \in Characters /\ ib_read' \in Seq(Characters)
  BY <1>1, <1>2, FrontProperties
<1> HIDE DEF c
<1>4. ib_stack' \in Stacks
  BY <1>1, <1>2, <1>3, UngetcKeeps
<1> QED
  BY <1>1, <1>3, <1>4 DEF IB_Inv

LEMMA PartProperties ==
  ASSUME NEW S, NEW s \in Seq(S), NEW m \in 1 .. Len(s), NEW n \in 0 .. Len(s)
  PROVE  SubSeq(s, m, n) \in Seq(S)
<1>1. m \in Int /\ n \in Int /\ \A k \in m .. n : k \in 1 .. Len(s)
  OBVIOUS
<1>2. \A k \in m .. n : s[k] \in S
  BY <1>1
<1> QED
  BY <1>1, <1>2, SubSeqProperties

LEMMA IB_ungetstringKeeps == ASSUME IB_Inv, IB_ungetstring PROVE IB_Inv'
<1>1. PICK from \in 1 .. Len(ib_read) - 1 :
        /\ ib_stack' = Ungetstring(ib_stack, SubSeq(ib_read, from, Len(ib_read)))
        /\ ib_read' = SubSeq(ib_read, 1, from - 1)
  BY DEF IB_ungetstring
<1>2. ib_read \in Seq(Characters) /\ ib_stack \in Stacks /\ ib_given' = ib_given
  BY DEF IB_Inv, IB_ungetstring
<1>3. /\ from \in 1 .. Len(ib_read) /\ Len(ib_read) \in 0 .. Len(ib_read)
      /\ 1 \in 1 .. Len(ib_read) /\ from - 1 \in 0 .. Len(ib_read)
  BY <1>2
<1>4. /\ SubSeq(ib_read, from, Len(ib_read)) \in Seq(Characters)
      /\ SubSeq(ib_read, 1, from - 1) \in Seq(Characters)
  BY <1>2, <1>3, PartProperties
<1>5. ib_stack' \in Stacks
  BY <1>1, <1>2, <1>4, UngetstringKeeps
<1> QED
  BY <1>1, <1>2, <1>4, <1>5 DEF IB_Inv

LEMMA IB_InvHolds == IB_Inv => IB_PositionTrue
<1> SUFFICES ASSUME IB_Inv, NEW d \in 1 .. Len(ib_stack)
             PROVE  LET ctx == ib_stack[d]
                    IN /\ ctx.line = ctx.first + Newlines(ctx.whole) - Newlines(ctx.ahead)
                       /\ ctx.exact => /\ ctx.column = ColumnAfter(ConsumedText(ctx))
                                       /\ ctx.offset = Len(ConsumedText(ctx))
  BY DEF IB_PositionTrue, IB_Inv
<1> DEFINE ctx == ib_stack[d]
<1>1. ctx \in PlacedContexts
  BY DEF IB_Inv, Stacks
<1> HIDE DEF ctx
<1>2. /\ ctx.first \in Int /\ ctx.whole \in Seq(Characters) /\ ctx.ahead \in Seq(Characters)
      /\ ctx.line = ctx.first + (Newlines(ctx.whole) - Newlines(ctx.ahead))
      /\ ctx.exact => ExactPlace(ctx.ahead, ctx.whole, ctx.column, ctx.offset)
  BY <1>1 DEF PlacedContexts, Contexts, Placed
<1>3. ctx.line = ctx.first + Newlines(ctx.whole) - Newlines(ctx.ahead)
  BY <1>2, NewlinesCounted
<1>4. ASSUME ctx.exact
      PROVE  /\ ctx.column = ColumnAfter(ConsumedText(ctx))
             /\ ctx.offset = Len(ConsumedText(ctx))
  <2> DEFINE n == Len(ctx.whole) - Len(ctx.ahead)
  <2>1. Len(ctx.ahead) <= Len(ctx.whole) /\ Len(ctx.ahead) \in Nat /\ Len(ctx.whole) \in Nat
    BY <1>2, <1>4 DEF ExactPlace
  <2>2. ctx.column = ColumnAfter(SubSeq(ctx.whole, 1, n)) /\ ctx.offset = n
    BY <1>2, <1>4 DEF ExactPlace
  <2>3. n \in Nat /\ n \in Int /\ 1 \in Int /\ \A k \in 1 .. n : k \in 1 .. Len(ctx.whole)
    BY <2>1
  <2>4. \A k \in 1 .. n : ctx.whole[k] \in Characters
    BY <1>2, <2>3
  <2>5. ConsumedText(ctx) = SubSeq(ctx.whole, 1, n)
    BY DEF ConsumedText
  <2> HIDE DEF n
  <2>6. Len(SubSeq(ctx.whole, 1, n)) = n
    <3>1. Len(SubSeq(ctx.whole, 1, n)) = IF 1 <= n THEN n - 1 + 1 ELSE 0
      BY <2>3, <2>4, SubSeqProperties
    <3> QED BY <2>3, <3>1
  <2> QED BY <2>2, <2>5, <2>6
<1> QED
  BY <1>3, <1>4 DEF ctx

(* However a client of jr_IB_getc, jr_IB_gets and jr_IB_getword reads and  *)
(* puts back (inputbuf.c), over the end of contexts that close, for any    *)
(* texts, lengths, tabulators and any number of contexts: it is given      *)
(* every character once and in order, the line number is that of the       *)
(* place, and so are column and offset unless they were lost.              *)
THEOREM PositionTrue == IB_Spec => []IB_PositionTrue
<1>1. IB_Inv /\ [IB_Next]_ib_vars => IB_Inv'
  <2> SUFFICES ASSUME IB_Inv, [IB_Next]_ib_vars PROVE IB_Inv'
    OBVIOUS
  <2>1. CASE IB_OpenContext
    BY <2>1, IB_OpenContextKeeps
  <2>2. CASE IB_CloseCurrentContext
    BY <2>2, IB_CloseCurrentContextKeeps
  <2>3. CASE IB_InputBufferReset
    BY <2>3, IB_InputBufferResetKeeps
  <2>4. CASE IB_getc
    BY <2>4, IB_getcKeeps
  <2>5. CASE IB_gets
    BY <2>5, IB_gettextKeeps DEF IB_gets
  <2>6. CASE IB_getword
    BY <2>6, IB_gettextKeeps DEF IB_getword
  <2>7. CASE IB_ungetc
    BY <2>7, IB_ungetcKeeps
  <2>8. CASE IB_ungetstring
    BY <2>8, IB_ungetstringKeeps
  <2>9. CASE UNCHANGED ib_vars
    BY <2>9 DEF IB_Inv, ib_vars
  <2> QED
    BY <2>1, <2>2, <2>3, <2>4, <2>5, <2>6, <2>7, <2>8, <2>9 DEF IB_Next
<1> QED
  BY <1>1, IB_InitInv, IB_InvHolds, PTL DEF IB_Spec
=============================================================================
