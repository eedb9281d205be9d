---------------------------- MODULE HTable_proofs ----------------------------
(***************************************************************************)
(* Proofs about HTable: its lists stay linked, and it implements KeyTable, *)
(* for every set of keys, hash function and first number of buckets.       *)
(*                                                                         *)
(* The model walks lists and fills buckets with recursive functions. What  *)
(* they are is proved from three lemmas: a set of numbers that is closed   *)
(* upwards holds all of them, a recursive function over 0..N exists, and a *)
(* list is an injective sequence of the indices in it. The invariant says  *)
(* which set of indices each list has; walks, lengths and what is found by *)
(* key follow from the sets.                                               *)
(***************************************************************************)
EXTENDS HTable, FiniteSetTheorems, WellFoundedInduction, TLAPS

(* A set of natural numbers has a least element.                           *)
LEMMA LeastNatural ==
  ASSUME NEW T, T \subseteq Nat, T # {}
  PROVE  \E x \in T : \A y \in T : x <= y
<1>1. PICK x \in T : \A y \in T : ~(<<y, x>> \in OpToRel(<, Nat))
  BY NatLessThanWellFounded, WFMin
<1>2. \A y \in T : ~(y < x)
  BY <1>1 DEF OpToRel
<1> QED
  BY <1>2

(* Induction without an operator: a set of natural numbers that has 0 and  *)
(* with every number below n its successor, has all numbers up to n.       *)
LEMMA Upwards ==
  ASSUME NEW N \in Nat, NEW S,
         0 \in S, \A n \in 0 .. N - 1 : n \in S => n + 1 \in S
  PROVE  0 .. N \subseteq S
<1> DEFINE T == (0 .. N) \ S
<1> SUFFICES ASSUME T # {} PROVE FALSE
  OBVIOUS
<1>1. PICK x \in T : \A y \in T : x <= y
  <2>1. T \subseteq Nat
    OBVIOUS
  <2> QED BY <2>1, LeastNatural
<1>2. x # 0 /\ x - 1 \in 0 .. N - 1
  OBVIOUS
<1>3. x - 1 \notin T
  BY <1>1, <1>2
<1> QED
  BY <1>2, <1>3

(* What a recursive function over 0..N does: every value but the first is  *)
(* made from the one before. Obeys says it of the values up to k.          *)
Obeys(f, a, G, k) == f[0] = a /\ \A n \in 1 .. k : f[n] = G[<<n, f[n - 1]>>]

LEMMA ObeysLonger ==
  ASSUME NEW N \in Nat, NEW S, NEW a \in S, NEW G \in [(1 .. N) \X S -> S],
         NEW k \in 0 .. N - 1, NEW f \in [0 .. N -> S], Obeys(f, a, G, k)
  PROVE  \E g \in [0 .. N -> S] : Obeys(g, a, G, k + 1)
<1> DEFINE v == G[<<k + 1, f[k]>>]
           g == [f EXCEPT ![k + 1] = v]
<1>1. v \in S
  <2>1. <<k + 1, f[k]>> \in (1 .. N) \X S
    OBVIOUS
  <2> QED BY <2>1
<1> HIDE DEF v
<1>2. g \in [0 .. N -> S]
  BY <1>1
<1>3. /\ k + 1 \in 0 .. N /\ k \in 0 .. N
      /\ g[k + 1] = v
      /\ \A n \in 0 .. k : n \in 0 .. N /\ g[n] = f[n]
  OBVIOUS
<1>4. g[0] = a
  BY <1>3 DEF Obeys
<1> HIDE DEF g
<1>5. \A n \in 1 .. k + 1 : g[n] = G[<<n, g[n - 1]>>]
  <2> SUFFICES ASSUME NEW n \in 1 .. k + 1 PROVE g[n] = G[<<n, g[n - 1]>>]
    OBVIOUS
  <2>1. CASE n = k + 1
    <3>1. n - 1 = k
      BY <2>1
    <3> QED BY <2>1, <3>1, <1>3 DEF v
  <2>2. CASE n \in 1 .. k
    <3>1. n - 1 \in 0 .. k /\ n \in 0 .. k
      BY <2>2
    <3> QED BY <2>2, <3>1, <1>3 DEF Obeys
  <2> QED BY <2>1, <2>2
<1>6. Obeys(g, a, G, k + 1)
  BY <1>4, <1>5 DEF Obeys
<1> QED
  BY <1>2, <1>6

LEMMA RecursionExists ==
  ASSUME NEW N \in Nat, NEW S, NEW a \in S, NEW G \in [(1 .. N) \X S -> S]
  PROVE  \E f \in [0 .. N -> S] : Obeys(f, a, G, N)
<1> DEFINE Ks == {k \in 0 .. N : \E f \in [0 .. N -> S] : Obeys(f, a, G, k)}
<1>1. 0 \in Ks
  <2>1. [n \in 0 .. N |-> a] \in [0 .. N -> S]
    OBVIOUS
  <2>2. Obeys([n \in 0 .. N |-> a], a, G, 0)
    BY DEF Obeys
  <2> QED BY <2>1, <2>2
<1>2. \A k \in 0 .. N - 1 : k \in Ks => k + 1 \in Ks
  <2> SUFFICES ASSUME NEW k \in 0 .. N - 1, k \in Ks PROVE k + 1 \in Ks
    OBVIOUS
  <2>1. PICK f \in [0 .. N -> S] : Obeys(f, a, G, k)
    OBVIOUS
  <2>2. \E g \in [0 .. N -> S] : Obeys(g, a, G, k + 1)
    BY <2>1, ObeysLonger
  <2> QED BY <2>2
<1>3. N \in 0 .. N /\ 0 .. N \subseteq Ks
  <2> HIDE DEF Ks
  <2> QED BY <1>1, <1>2, Upwards
<1> QED
  BY <1>3
-----------------------------------------------------------------------------
(* Lists of entries, chained through next.                                 *)

(* The list from start on has the members c[1], ..., c[L], each once, and  *)
(* these are the set M.                                                    *)
IsList(e, start, M, L, c) ==
  /\ L \in Nat /\ c \in [1 .. L -> M]
  /\ \A m, n \in 1 .. L : c[m] = c[n] => m = n
  /\ \A i \in M : \E n \in 1 .. L : c[n] = i
  /\ start = IF L = 0 THEN End ELSE c[1]
  /\ \A n \in 1 .. L : EntryOf(e, c[n]).next = IF n = L THEN End ELSE c[n + 1]

Chained(e, start, M) == \E L, c : IsList(e, start, M, L, c)

(* The empty list.                                                         *)
LEMMA NothingChained == \A e : Chained(e, End, {})
<1> SUFFICES ASSUME NEW e PROVE Chained(e, End, {})
  OBVIOUS
<1>1. [n \in 1 .. 0 |-> 0] \in [1 .. 0 -> {}]
  OBVIOUS
<1>2. IsList(e, End, {}, 0, [n \in 1 .. 0 |-> 0])
  BY <1>1 DEF IsList
<1> QED
  BY <1>1, <1>2 DEF Chained

(* A list stays when the entries in it keep their links.                   *)
LEMMA ListKept ==
  ASSUME NEW e, NEW f, NEW start, NEW M, Chained(e, start, M),
         \A i \in M : EntryOf(f, i).next = EntryOf(e, i).next
  PROVE  Chained(f, start, M)
<1>1. PICK L, c : IsList(e, start, M, L, c)
  BY DEF Chained
<1>2. \A n \in 1 .. L : c[n] \in M
  BY <1>1 DEF IsList
<1>3. IsList(f, start, M, L, c)
  BY <1>1, <1>2 DEF IsList
<1> QED
  BY <1>3 DEF Chained

(* An entry put in front of a list.                                        *)
LEMMA ListPushed ==
  ASSUME NEW e, NEW f, NEW start, NEW M, Chained(e, start, M), NEW i, i \notin M,
         EntryOf(f, i).next = start,
         \A j \in M : EntryOf(f, j).next = EntryOf(e, j).next
  PROVE  Chained(f, i, M \cup {i})
<1>1. PICK L, c : IsList(e, start, M, L, c)
  BY DEF Chained
<1>0. L \in Nat /\ c \in [1 .. L -> M]
  BY <1>1 DEF IsList
<1> DEFINE d == [n \in 1 .. L + 1 |-> IF n = 1 THEN i ELSE c[n - 1]]
<1>2. /\ L + 1 \in Nat /\ 1 \in 1 .. L + 1
      /\ d[1] = i
      /\ \A n \in 2 .. L + 1 : n \in 1 .. L + 1 /\ n - 1 \in 1 .. L /\ d[n] = c[n - 1] /\ c[n - 1] \in M
  BY <1>0
<1>3. d \in [1 .. L + 1 -> M \cup {i}]
  BY <1>0
<1> HIDE DEF d
<1>4. \A n \in 1 .. L + 1 : n = 1 \/ n \in 2 .. L + 1
  BY <1>0
<1>5. \A m, n \in 1 .. L + 1 : d[m] = d[n] => m = n
  <2> SUFFICES ASSUME NEW m \in 1 .. L + 1, NEW n \in 1 .. L + 1, d[m] = d[n] PROVE m = n
    OBVIOUS
  <2>1. CASE m = 1 /\ n \in 2 .. L + 1
    BY <1>2, <2>1
  <2>2. CASE n = 1 /\ m \in 2 .. L + 1
    BY <1>2, <2>2
  <2>3. CASE m \in 2 .. L + 1 /\ n \in 2 .. L + 1
    <3>1. m - 1 = n - 1
      BY <1>1, <1>2, <2>3 DEF IsList
    <3> QED BY <1>0, <3>1
  <2> QED BY <1>4, <2>1, <2>2, <2>3
<1>6. \A j \in M \cup {i} : \E n \in 1 .. L + 1 : d[n] = j
  <2> SUFFICES ASSUME NEW j \in M PROVE \E n \in 1 .. L + 1 : d[n] = j
    BY <1>2
  <2>1. PICK n \in 1 .. L : c[n] = j
    BY <1>1 DEF IsList
  <2>2. n + 1 \in 2 .. L + 1 /\ (n + 1) - 1 = n
    BY <1>0
  <2> QED BY <1>2, <2>1, <2>2
<1>7. \A n \in 1 .. L + 1 : EntryOf(f, d[n]).next = IF n = L + 1 THEN End ELSE d[n + 1]
  <2> SUFFICES ASSUME NEW n \in 1 .. L + 1
               PROVE  EntryOf(f, d[n]).next = IF n = L + 1 THEN End ELSE d[n + 1]
    OBVIOUS
  <2>1. CASE n = 1
    <3>1. EntryOf(f, d[n]).next = start
      BY <1>2, <2>1
    <3>2. CASE L = 0
      BY <1>1, <2>1, <3>1, <3>2 DEF IsList
    <3>3. CASE L # 0
      <4>1. 2 \in 2 .. L + 1 /\ n + 1 = 2 /\ 2 - 1 = 1
        BY <1>0, <2>1, <3>3
      <4>2. d[2] = c[1]
        BY <1>2, <4>1
      <4> QED BY <1>1, <2>1, <3>1, <3>3, <4>1, <4>2 DEF IsList
    <3> QED BY <3>2, <3>3
  <2>2. CASE n \in 2 .. L + 1
    <3>1. d[n] = c[n - 1] /\ c[n - 1] \in M /\ n - 1 \in 1 .. L
      BY <1>2, <2>2
    <3>2. EntryOf(f, d[n]).next = IF n - 1 = L THEN End ELSE c[(n - 1) + 1]
      BY <1>1, <3>1 DEF IsList
    <3>3. n # L + 1 => n + 1 \in 2 .. L + 1 /\ (n + 1) - 1 = (n - 1) + 1
      BY <1>0, <2>2
    <3>4. n # L + 1 => d[n + 1] = c[(n - 1) + 1]
      BY <1>2, <3>3
    <3>5. n - 1 = L <=> n = L + 1
      BY <1>0
    <3> QED BY <3>2, <3>4, <3>5
  <2> QED BY <1>4, <2>1, <2>2
<1>8. IsList(f, i, M \cup {i}, L + 1, d)
  BY <1>2, <1>3, <1>5, <1>6, <1>7 DEF IsList
<1> QED
  BY <1>2, <1>3, <1>8 DEF Chained

(* The first entry taken from a list, and any other one.                   *)
LEMMA FirstPulled ==
  ASSUME NEW e, NEW start, NEW M, Chained(e, start, M), start # End
  PROVE  start \in M /\ Chained(e, EntryOf(e, start).next, M \ {start})
<1>1. PICK L, c : IsList(e, start, M, L, c)
  BY DEF Chained
<1>2. /\ L \in Nat /\ L # 0 /\ c \in [1 .. L -> M] /\ start = c[1]
      /\ \A m, n \in 1 .. L : c[m] = c[n] => m = n
      /\ \A i \in M : \E n \in 1 .. L : c[n] = i
      /\ \A n \in 1 .. L : EntryOf(e, c[n]).next = IF n = L THEN End ELSE c[n + 1]
  BY <1>1 DEF IsList
<1> DEFINE d == [n \in 1 .. L - 1 |-> c[n + 1]]
<1>3. /\ L - 1 \in Nat /\ 1 \in 1 .. L
      /\ \A n \in 1 .. L - 1 : n + 1 \in 1 .. L /\ n + 1 # 1 /\ d[n] = c[n + 1]
  BY <1>2
<1>4. d \in [1 .. L - 1 -> M \ {start}]
  BY <1>2, <1>3
<1> HIDE DEF d
<1>5. \A m, n \in 1 .. L - 1 : d[m] = d[n] => m = n
  <2> SUFFICES ASSUME NEW m \in 1 .. L - 1, NEW n \in 1 .. L - 1, d[m] = d[n] PROVE m = n
    OBVIOUS
  <2>1. m + 1 = n + 1
    BY <1>2, <1>3
  <2> QED BY <2>1, <1>2
<1>6. \A i \in M \ {start} : \E n \in 1 .. L - 1 : d[n] = i
  <2> SUFFICES ASSUME NEW i \in M \ {start} PROVE \E n \in 1 .. L - 1 : d[n] = i
    OBVIOUS
  <2>1. PICK n \in 1 .. L : c[n] = i
    BY <1>2
  <2>2. n # 1
    BY <1>2, <2>1
  <2>3. n - 1 \in 1 .. L - 1 /\ (n - 1) + 1 = n
    BY <1>2, <2>2
  <2> QED BY <1>3, <2>1, <2>3
<1>7. EntryOf(e, start).next = IF L - 1 = 0 THEN End ELSE d[1]
  <2>1. EntryOf(e, start).next = IF 1 = L THEN End ELSE c[1 + 1]
    BY <1>2, <1>3
  <2>2. L # 1 => 1 \in 1 .. L - 1
    BY <1>2
  <2>3. L - 1 = 0 <=> 1 = L
    BY <1>2
  <2> QED BY <1>3, <2>1, <2>2, <2>3
<1>8. \A n \in 1 .. L - 1 : EntryOf(e, d[n]).next = IF n = L - 1 THEN End ELSE d[n + 1]
  <2> SUFFICES ASSUME NEW n \in 1 .. L - 1
               PROVE  EntryOf(e, d[n]).next = IF n = L - 1 THEN End ELSE d[n + 1]
    OBVIOUS
  <2>1. EntryOf(e, d[n]).next = IF n + 1 = L THEN End ELSE c[(n + 1) + 1]
    BY <1>2, <1>3
  <2>2. n # L - 1 => n + 1 \in 1 .. L - 1
    BY <1>2
  <2>3. n + 1 = L <=> n = L - 1
    BY <1>2
  <2> QED BY <1>3, <2>1, <2>2, <2>3
<1>9. IsList(e, EntryOf(e, start).next, M \ {start}, L - 1, d)
  BY <1>3, <1>4, <1>5, <1>6, <1>7, <1>8 DEF IsList
<1>10. start \in M
  BY <1>2, <1>3
<1> QED
  BY <1>9, <1>10 DEF Chained

LEMMA LaterPulled ==
  ASSUME NEW e, NEW f, NEW start, NEW M, NEW L, NEW c, IsList(e, start, M, L, c),
         NEW p \in 2 .. L,
         EntryOf(f, c[p - 1]).next = EntryOf(e, c[p]).next,
         \A j \in M \ {c[p - 1], c[p]} : EntryOf(f, j).next = EntryOf(e, j).next
  PROVE  Chained(f, start, M \ {c[p]})
<1>2. /\ L \in Nat /\ L # 0 /\ c \in [1 .. L -> M] /\ start = c[1]
      /\ \A m, n \in 1 .. L : c[m] = c[n] => m = n
      /\ \A i \in M : \E n \in 1 .. L : c[n] = i
      /\ \A n \in 1 .. L : EntryOf(e, c[n]).next = IF n = L THEN End ELSE c[n + 1]
  BY DEF IsList
<1> DEFINE q(n) == IF n < p THEN n ELSE n + 1
           d == [n \in 1 .. L - 1 |-> c[q(n)]]
<1>3. /\ L - 1 \in Nat /\ 1 \in 1 .. L - 1 /\ p \in 1 .. L /\ p - 1 \in 1 .. L
      /\ \A n \in 1 .. L - 1 : q(n) \in 1 .. L /\ q(n) # p /\ d[n] = c[q(n)]
      /\ q(1) = 1
      /\ \A m, n \in 1 .. L - 1 : q(m) = q(n) => m = n
      /\ \A n \in 1 .. L : n # p => \E m \in 1 .. L - 1 : q(m) = n
  <2>1. \A n \in 1 .. L : n # p => \E m \in 1 .. L - 1 : q(m) = n
    <3> SUFFICES ASSUME NEW n \in 1 .. L, n # p PROVE \E m \in 1 .. L - 1 : q(m) = n
      OBVIOUS
    <3>1. CASE n < p
      <4>1. n \in 1 .. L - 1 /\ q(n) = n
        BY <1>2, <3>1
      <4> QED BY <4>1
    <3>2. CASE n > p
      <4>1. n - 1 \in 1 .. L - 1 /\ q(n - 1) = n
        BY <1>2, <3>2
      <4> QED BY <4>1
    <3> QED BY <3>1, <3>2, <1>2
  <2> QED BY <1>2, <2>1
<1>4. d \in [1 .. L - 1 -> M \ {c[p]}]
  <2>1. \A n \in 1 .. L - 1 : c[q(n)] \in M /\ c[q(n)] # c[p]
    BY <1>2, <1>3
  <2> QED BY <2>1
<1>5. \A n \in 1 .. L - 1 : EntryOf(f, d[n]).next = IF n = L - 1 THEN End ELSE d[n + 1]
  <2> SUFFICES ASSUME NEW n \in 1 .. L - 1
               PROVE  EntryOf(f, d[n]).next = IF n = L - 1 THEN End ELSE d[n + 1]
    OBVIOUS
  <2>1. CASE n = p - 1
    <3>1. q(n) = p - 1 /\ d[n] = c[p - 1]
      BY <1>2, <2>1
    <3>2. EntryOf(f, d[n]).next = IF p = L THEN End ELSE c[p + 1]
      BY <1>2, <1>3, <3>1
    <3>3. n # L - 1 => n + 1 \in 1 .. L - 1 /\ q(n + 1) = p + 1
      BY <1>2, <2>1
    <3>4. n = L - 1 <=> p = L
      BY <1>2, <2>1
    <3> QED BY <1>3, <3>2, <3>3, <3>4
  <2>2. CASE n # p - 1
    <3>1. q(n) \in 1 .. L /\ q(n) # p /\ q(n) # p - 1 /\ d[n] = c[q(n)]
      BY <1>2, <1>3, <2>2
    <3>2. c[q(n)] \in M \ {c[p - 1], c[p]}
      BY <1>2, <1>3, <3>1
    <3>3. EntryOf(f, d[n]).next = IF q(n) = L THEN End ELSE c[q(n) + 1]
      BY <1>2, <3>1, <3>2
    <3>4. q(n) = L <=> n = L - 1
      BY <1>2, <2>2
    <3>5. n # L - 1 => n + 1 \in 1 .. L - 1 /\ q(n + 1) = q(n) + 1
      BY <1>2, <2>2
    <3> QED BY <1>3, <3>3, <3>4, <3>5
  <2> QED BY <2>1, <2>2
<1> HIDE DEF d, q
<1>6. \A m, n \in 1 .. L - 1 : d[m] = d[n] => m = n
  BY <1>2, <1>3
<1>7. \A i \in M \ {c[p]} : \E n \in 1 .. L - 1 : d[n] = i
  <2> SUFFICES ASSUME NEW i \in M \ {c[p]} PROVE \E n \in 1 .. L - 1 : d[n] = i
    OBVIOUS
  <2>1. PICK n \in 1 .. L : c[n] = i
    BY <1>2
  <2>2. PICK m \in 1 .. L - 1 : q(m) = n
    BY <1>3, <2>1
  <2> QED BY <1>3, <2>1, <2>2
<1>8. start = IF L - 1 = 0 THEN End ELSE d[1]
  BY <1>2, <1>3
<1>9. IsList(f, start, M \ {c[p]}, L - 1, d)
  BY <1>3, <1>4, <1>5, <1>6, <1>7, <1>8 DEF IsList
<1> QED
  BY <1>9 DEF Chained

(* What the walk along a list of a table finds.                            *)
Idx(t) == 0 .. Len(t.entries) - 1

Walks(t, start, w) ==
  w = [n \in 0 .. Len(t.entries) |->
         IF n = 0 THEN start
         ELSE LET at == w[n - 1]
              IN IF at = End THEN End ELSE EntryOf(t.entries, at).next]

LEMMA WalkExists ==
  ASSUME NEW t, Len(t.entries) \in Nat, NEW start, NEW M, Chained(t.entries, start, M)
  PROVE  Walks(t, start, List(t, start))
<1>1. PICK L, c : IsList(t.entries, start, M, L, c)
  BY DEF Chained
<1> DEFINE N == Len(t.entries)
           S == M \cup {End}
           G == [x \in (1 .. N) \X S |-> IF x[2] = End THEN End ELSE EntryOf(t.entries, x[2]).next]
<1>2. start \in S
  BY <1>1 DEF IsList
<1>3. \A i \in M : EntryOf(t.entries, i).next \in S
  BY <1>1 DEF IsList
<1>4. G \in [(1 .. N) \X S -> S]
  BY <1>3
<1>5. \A n \in 1 .. N : \A s \in S :
        G[<<n, s>>] = IF s = End THEN End ELSE EntryOf(t.entries, s).next
  OBVIOUS
<1>6. N \in Nat
  OBVIOUS
<1> HIDE DEF G, S, N
<1>7. PICK w \in [0 .. N -> S] : Obeys(w, start, G, N)
  BY <1>2, <1>4, <1>6, RecursionExists
<1>8. \A n \in 0 .. N : w[n] = IF n = 0 THEN start
                              ELSE IF w[n - 1] = End THEN End ELSE EntryOf(t.entries, w[n - 1]).next
  <2> SUFFICES ASSUME NEW n \in 0 .. N, n # 0
               PROVE  w[n] = IF w[n - 1] = End THEN End ELSE EntryOf(t.entries, w[n - 1]).next
    BY <1>7 DEF Obeys
  <2>1. n \in 1 .. N /\ n - 1 \in 0 .. N
    BY <1>6
  <2>2. w[n] = G[<<n, w[n - 1]>>] /\ w[n - 1] \in S
    BY <1>7, <2>1 DEF Obeys
  <2> QED BY <1>5, <2>1, <2>2
<1>9. Walks(t, start, w)
  BY <1>7, <1>8 DEF Walks, N
<1>10. List(t, start) = CHOOSE v : Walks(t, start, v)
  BY DEF List, Walks
<1> QED
  BY <1>9, <1>10

LEMMA ListValues ==
  ASSUME NEW t, Len(t.entries) \in Nat, NEW start, NEW M, M \subseteq Idx(t), NEW L, NEW c,
         IsList(t.entries, start, M, L, c)
  PROVE  \A n \in 0 .. Len(t.entries) : List(t, start)[n] = IF n < L THEN c[n + 1] ELSE End
<1> DEFINE N == Len(t.entries)
           w == List(t, start)
           P == {n \in 0 .. N : w[n] = IF n < L THEN c[n + 1] ELSE End}
<1>1. Walks(t, start, w)
  BY WalkExists DEF Chained
<1>2. \A n \in 0 .. N : w[n] = IF n = 0 THEN start
                              ELSE IF w[n - 1] = End THEN End ELSE EntryOf(t.entries, w[n - 1]).next
  BY <1>1 DEF Walks
<1>3. N \in Nat /\ L \in Nat /\ c \in [1 .. L -> M]
  BY DEF IsList
<1>4. \A n \in 1 .. L : c[n] # End
  BY <1>3 DEF Idx, End
<1> HIDE DEF w, N
<1>5. 0 \in P
  BY <1>2, <1>3 DEF IsList
<1>6. \A n \in 0 .. N - 1 : n \in P => n + 1 \in P
  <2> SUFFICES ASSUME NEW n \in 0 .. N - 1, w[n] = IF n < L THEN c[n + 1] ELSE End
               PROVE  w[n + 1] = IF n + 1 < L THEN c[(n + 1) + 1] ELSE End
    BY <1>3
  <2>1. n \in 0 .. N /\ n + 1 \in 0 .. N /\ n + 1 # 0 /\ (n + 1) - 1 = n
    BY <1>3
  <2>2. w[n + 1] = IF w[n] = End THEN End ELSE EntryOf(t.entries, w[n]).next
    BY <1>2, <2>1
  <2>3. CASE n < L
    <3>1. n + 1 \in 1 .. L /\ w[n] = c[n + 1]
      BY <1>3, <2>3
    <3>2. w[n + 1] = IF n + 1 = L THEN End ELSE c[(n + 1) + 1]
      BY <1>4, <2>2, <3>1 DEF IsList
    <3> QED BY <1>3, <2>3, <3>2
  <2>4. CASE ~(n < L)
    BY <1>3, <2>2, <2>4
  <2> QED BY <2>3, <2>4
<1>7. 0 .. N \subseteq P
  <2> HIDE DEF P
  <2> QED BY <1>3, <1>5, <1>6, Upwards
<1> QED
  BY <1>7 DEF w, N

(* A list has as many steps as members, not more than there are entries;   *)
(* the walk reaches its end, and its members are those of the list.        *)
LEMMA ListLength ==
  ASSUME NEW e, NEW start, NEW M, IsFiniteSet(M), NEW L, NEW c, IsList(e, start, M, L, c)
  PROVE  L = Cardinality(M)
<1>1. c \in Bijection(1 .. L, M)
  BY DEF IsList, Bijection, Injection, Surjection, IsInjective
<1>2. L \in Nat /\ IsFiniteSet(1 .. L) /\ Cardinality(1 .. L) = L
  BY FS_Interval DEF IsList
<1>3. Cardinality(M) = Cardinality(1 .. L)
  BY <1>1, <1>2, FS_Bijection DEF ExistsBijection
<1> QED
  BY <1>2, <1>3

LEMMA ListFits ==
  ASSUME NEW t, Len(t.entries) \in Nat, NEW start, NEW M, M \subseteq Idx(t), NEW L, NEW c,
         IsList(t.entries, start, M, L, c)
  PROVE  L <= Len(t.entries)
<1> DEFINE N == Len(t.entries)
<1>1. 0 \in Int /\ N - 1 \in Int
  OBVIOUS
<1>2. /\ IsFiniteSet(0 .. N - 1)
      /\ Cardinality(0 .. N - 1) = IF 0 > N - 1 THEN 0 ELSE (N - 1) - 0 + 1
  BY ONLY <1>1, FS_Interval, Zenon
<1>3. Idx(t) = 0 .. N - 1 /\ Cardinality(Idx(t)) = N
  BY <1>1, <1>2 DEF Idx
<1>4. IsFiniteSet(M) /\ Cardinality(M) <= N
  <2> HIDE DEF N
  <2> QED BY <1>2, <1>3, FS_Subset
<1> QED
  BY <1>4, ListLength

LEMMA ListMembers ==
  ASSUME NEW t, Len(t.entries) \in Nat, NEW start, NEW M, M \subseteq Idx(t),
         Chained(t.entries, start, M)
  PROVE  /\ List(t, start)[Len(t.entries)] = End
         /\ Members(t, start) = M
<1> DEFINE N == Len(t.entries)
           w == List(t, start)
<1>1. PICK L, c : IsList(t.entries, start, M, L, c)
  BY DEF Chained
<1>2. N \in Nat /\ L \in Nat /\ c \in [1 .. L -> M]
  BY <1>1 DEF IsList
<1>3. \A n \in 0 .. N : w[n] = IF n < L THEN c[n + 1] ELSE End
  BY <1>1, ListValues
<1>4. L <= N
  BY <1>1, ListFits
<1>5. w[N] = End
  BY <1>2, <1>3, <1>4
<1>6. \A n \in 1 .. L : c[n] \in M /\ c[n] # End
  BY <1>2 DEF Idx, End
<1>7. Members(t, start) \subseteq M
  BY <1>2, <1>3, <1>6 DEF Members
<1>8. M \subseteq Members(t, start)
  <2> SUFFICES ASSUME NEW i \in M PROVE i \in Members(t, start)
    OBVIOUS
  <2>1. PICK n \in 1 .. L : c[n] = i
    BY <1>1 DEF IsList
  <2>2. n - 1 \in 0 .. N /\ n - 1 < L /\ (n - 1) + 1 = n
    BY <1>2, <1>4
  <2>3. w[n - 1] = i /\ i # End
    BY <1>3, <1>6, <2>1, <2>2
  <2> QED BY <2>2, <2>3 DEF Members
<1> QED
  BY <1>5, <1>7, <1>8

-----------------------------------------------------------------------------
(* Tables.                                                                 *)

Entry == [key : Keys, hash : Nat \cup {End}, next : Int]

IsTable(t) ==
  t \in [entries : Seq(Entry), buckets : Seq(Int), delete_list : Int, num_deletes : Nat]

KeyAt(t, i) == EntryOf(t.entries, i).key
HashAt(t, i) == EntryOf(t.entries, i).hash
NextAt(t, i) == EntryOf(t.entries, i).next

Live(t) == {i \in Idx(t) : HashAt(t, i) # End}
Deleted(t) == {i \in Idx(t) : HashAt(t, i) = End}
InBucket(t, b) == {i \in Live(t) : BucketOf(t, HashAt(t, i)) + 1 = b}

(* What a table is whatever its buckets are.                               *)
Sound(t) ==
  /\ IsTable(t)
  /\ \A i \in Live(t) : HashAt(t, i) = HashValue(KeyAt(t, i))
  /\ \A i, j \in Live(t) : KeyAt(t, i) = KeyAt(t, j) => i = j
  /\ Chained(t.entries, t.delete_list, Deleted(t))
  /\ t.num_deletes = Cardinality(Deleted(t))

(* The entries of P are in the lists of their buckets.                     *)
BucketsLinked(t, P) ==
  \A b \in 1 .. NumBuckets(t) : Chained(t.entries, t.buckets[b], InBucket(t, b) \cap P)

(* The tables differ in buckets and links only.                            *)
SameEntries(t, u) ==
  /\ Len(u.entries) = Len(t.entries)
  /\ \A i \in Idx(t) : KeyAt(u, i) = KeyAt(t, i) /\ HashAt(u, i) = HashAt(t, i)
  /\ \A i \in Deleted(t) : NextAt(u, i) = NextAt(t, i)
  /\ u.delete_list = t.delete_list /\ u.num_deletes = t.num_deletes

LEMMA TableFacts ==
  ASSUME NEW t, IsTable(t)
  PROVE  /\ Len(t.entries) \in Nat /\ NumBuckets(t) \in Nat
         /\ \A i \in Idx(t) : /\ i + 1 \in DOMAIN t.entries
                              /\ EntryOf(t.entries, i) \in Entry
                              /\ KeyAt(t, i) \in Keys /\ HashAt(t, i) \in Nat \cup {End}
                              /\ NextAt(t, i) \in Int
         /\ \A i \in Live(t) : HashAt(t, i) \in Nat
         /\ \A b \in 1 .. NumBuckets(t) : t.buckets[b] \in Int
         /\ IsFiniteSet(Deleted(t))
<1>1. /\ t.entries \in Seq(Entry) /\ Len(t.entries) \in Nat
      /\ t.buckets \in Seq(Int) /\ NumBuckets(t) \in Nat
  BY DEF IsTable, NumBuckets
<1>2. \A i \in Idx(t) : i + 1 \in DOMAIN t.entries /\ EntryOf(t.entries, i) \in Entry
  BY <1>1 DEF Idx, EntryOf
<1>3. \A i \in Idx(t) : /\ KeyAt(t, i) \in Keys /\ HashAt(t, i) \in Nat \cup {End}
                        /\ NextAt(t, i) \in Int
  BY <1>2 DEF Entry, KeyAt, HashAt, NextAt
<1>4. \A b \in 1 .. NumBuckets(t) : t.buckets[b] \in Int
  BY <1>1 DEF NumBuckets
<1>5. IsFiniteSet(Deleted(t))
  <2>1. IsFiniteSet(0 .. Len(t.entries) - 1)
    <3>1. 0 \in Int /\ Len(t.entries) - 1 \in Int
      BY <1>1
    <3> QED BY ONLY <3>1, FS_Interval, Zenon
  <2>2. Deleted(t) \in SUBSET (0 .. Len(t.entries) - 1)
    BY DEF Deleted, Idx
  <2> QED BY ONLY <2>1, <2>2, FS_Subset, Zenon
<1> QED
  BY <1>1, <1>2, <1>3, <1>4, <1>5 DEF Live

LEMMA BucketInRange ==
  \A h \in Nat : \A n \in Nat : n > 0 => h % n \in 0 .. n - 1
  OBVIOUS

(* Sound depends on the entries and the list of deleted ones.              *)
LEMMA SameSets ==
  ASSUME NEW t, NEW u, SameEntries(t, u)
  PROVE  Idx(u) = Idx(t) /\ Live(u) = Live(t) /\ Deleted(u) = Deleted(t)
  BY DEF SameEntries, Idx, Live, Deleted

LEMMA SoundKept ==
  ASSUME NEW t, NEW u, Sound(t), IsTable(u), SameEntries(t, u)
  PROVE  Sound(u)
<1>1. Idx(u) = Idx(t) /\ Live(u) = Live(t) /\ Deleted(u) = Deleted(t)
  BY SameSets
<1>2. \A i \in Live(t) : KeyAt(u, i) = KeyAt(t, i) /\ HashAt(u, i) = HashAt(t, i)
  BY DEF SameEntries, Live
<1>3. Chained(u.entries, u.delete_list, Deleted(u))
  <2>1. \A i \in Deleted(t) : EntryOf(u.entries, i).next = EntryOf(t.entries, i).next
    BY DEF SameEntries, NextAt
  <2>2. Chained(t.entries, t.delete_list, Deleted(t))
    BY DEF Sound
  <2>3. Chained(u.entries, t.delete_list, Deleted(t))
    BY <2>1, <2>2, ListKept
  <2> QED BY <1>1, <2>3 DEF SameEntries
<1> QED
  BY <1>1, <1>2, <1>3 DEF Sound, SameEntries

(* jr_HTableAddToBucketList.                                               *)
LEMMA FrontOfBucket ==
  ASSUME NEW t, Sound(t), NumBuckets(t) # 0, NEW i \in Live(t)
  PROVE  LET u == AddToBucketList(t, i)
             b == BucketOf(t, HashAt(t, i)) + 1 IN
         /\ b \in 1 .. NumBuckets(t)
         /\ IsTable(u) /\ SameEntries(t, u) /\ NumBuckets(u) = NumBuckets(t)
         /\ NextAt(u, i) = t.buckets[b] /\ u.buckets[b] = i
         /\ \A j \in Idx(t) \ {i} : NextAt(u, j) = NextAt(t, j)
         /\ \A c \in 1 .. NumBuckets(t) : c # b => u.buckets[c] = t.buckets[c]
<1> DEFINE b == BucketOf(t, HashAt(t, i)) + 1
           u == AddToBucketList(t, i)
           e == [t.entries EXCEPT ![i + 1] = [@ EXCEPT !.next = t.buckets[b]]]
           bs == [t.buckets EXCEPT ![b] = i]
<1>1. /\ IsTable(t) /\ t.entries \in Seq(Entry) /\ t.buckets \in Seq(Int)
      /\ NumBuckets(t) \in Nat /\ NumBuckets(t) = Len(t.buckets) /\ Len(t.entries) \in Nat
  BY TableFacts DEF Sound, IsTable, NumBuckets
<1>2. i \in Idx(t) /\ i + 1 \in DOMAIN t.entries /\ HashAt(t, i) \in Nat /\ i \in Int
  BY <1>1, TableFacts DEF Live, Idx
<1>3. b \in 1 .. NumBuckets(t)
  BY <1>1, <1>2, BucketInRange DEF BucketOf
<1>4. u = [t EXCEPT !.entries = e, !.buckets = bs]
  BY DEF AddToBucketList, HashAt
<1>5. t.buckets[b] \in Int
  BY <1>1, <1>3
<1> HIDE DEF b
<1>6. e \in Seq(Entry) /\ Len(e) = Len(t.entries)
  <2>1. EntryOf(t.entries, i) = t.entries[i + 1] /\ t.entries[i + 1] \in Entry
    BY <1>1, <1>2 DEF EntryOf
  <2>2. [t.entries[i + 1] EXCEPT !.next = t.buckets[b]] \in Entry
    BY <1>5, <2>1 DEF Entry
  <2> QED BY <1>1, <1>2, <2>2
<1>7. bs \in Seq(Int) /\ Len(bs) = Len(t.buckets)
  BY <1>1, <1>2, <1>3
<1>8. u.entries = e /\ u.buckets = bs /\ u.delete_list = t.delete_list /\ u.num_deletes = t.num_deletes
  BY <1>1, <1>4 DEF IsTable
<1>9. IsTable(u)
  BY <1>1, <1>4, <1>6, <1>7 DEF IsTable
<1>10. \A j \in Idx(t) : e[j + 1] = IF j = i THEN [t.entries[j + 1] EXCEPT !.next = t.buckets[b]]
                                             ELSE t.entries[j + 1]
  <2>1. \A j \in Idx(t) : j + 1 \in DOMAIN t.entries /\ (j + 1 = i + 1 => j = i)
    BY <1>1, <1>2 DEF Idx
  <2> QED BY <2>1
<1>11. \A j \in Idx(t) : t.entries[j + 1] \in Entry
  BY <1>1 DEF Idx
<1>12. /\ \A j \in Idx(t) : KeyAt(u, j) = KeyAt(t, j) /\ HashAt(u, j) = HashAt(t, j)
       /\ NextAt(u, i) = t.buckets[b]
       /\ \A j \in Idx(t) \ {i} : NextAt(u, j) = NextAt(t, j)
  <2> HIDE DEF u, e
  <2> QED BY <1>2, <1>8, <1>10, <1>11 DEF KeyAt, HashAt, NextAt, EntryOf, Entry
<1>13. i \notin Deleted(t) /\ Deleted(t) \subseteq Idx(t)
  BY DEF Deleted, Live
<1>14. SameEntries(t, u)
  <2> HIDE DEF u, e
  <2> QED BY <1>6, <1>8, <1>12, <1>13 DEF SameEntries
<1>15. /\ u.buckets[b] = i
       /\ \A c \in 1 .. NumBuckets(t) : c # b => u.buckets[c] = t.buckets[c]
  <2> HIDE DEF u
  <2> QED BY <1>1, <1>3, <1>8
<1>16. NumBuckets(u) = NumBuckets(t)
  BY <1>1, <1>7, <1>8 DEF NumBuckets
<1> QED
  BY <1>3, <1>9, <1>12, <1>14, <1>15, <1>16 DEF b

LEMMA FrontLinked ==
  ASSUME NEW t, Sound(t), NumBuckets(t) # 0, NEW P, NEW i \in Live(t), i \notin P,
         BucketsLinked(t, P)
  PROVE  BucketsLinked(AddToBucketList(t, i), P \cup {i})
<1> DEFINE b == BucketOf(t, HashAt(t, i)) + 1
           u == AddToBucketList(t, i)
<1>1. /\ b \in 1 .. NumBuckets(t)
      /\ IsTable(u) /\ SameEntries(t, u) /\ NumBuckets(u) = NumBuckets(t)
      /\ NextAt(u, i) = t.buckets[b] /\ u.buckets[b] = i
      /\ \A j \in Idx(t) \ {i} : NextAt(u, j) = NextAt(t, j)
      /\ \A c \in 1 .. NumBuckets(t) : c # b => u.buckets[c] = t.buckets[c]
  BY FrontOfBucket
<1>2. \A c : InBucket(u, c) = InBucket(t, c)
  <2>1. Live(u) = Live(t) /\ \A j \in Live(t) : HashAt(u, j) = HashAt(t, j)
    BY <1>1, SameSets DEF SameEntries, Live
  <2> QED BY <1>1, <2>1 DEF InBucket, BucketOf
<1>3. i \in InBucket(t, b)
  BY DEF InBucket
<1>4. \A c : InBucket(t, c) \subseteq Idx(t)
  BY DEF InBucket, Live
<1> SUFFICES ASSUME NEW c \in 1 .. NumBuckets(t)
             PROVE  Chained(u.entries, u.buckets[c], InBucket(t, c) \cap (P \cup {i}))
  BY <1>1, <1>2 DEF BucketsLinked
<1>5. Chained(t.entries, t.buckets[c], InBucket(t, c) \cap P)
  BY DEF BucketsLinked
<1>6. \A j \in InBucket(t, c) \cap P : EntryOf(u.entries, j).next = EntryOf(t.entries, j).next
  BY <1>1, <1>4 DEF NextAt
<1> HIDE DEF u
<1>7. CASE c = b
  <2>1. InBucket(t, c) \cap (P \cup {i}) = (InBucket(t, c) \cap P) \cup {i}
    BY <1>3, <1>7
  <2>2. EntryOf(u.entries, i).next = t.buckets[c]
    BY <1>1, <1>7 DEF NextAt
  <2>3. Chained(u.entries, i, (InBucket(t, c) \cap P) \cup {i})
    <3> HIDE DEF b
    <3>1. i \notin InBucket(t, c) \cap P
      OBVIOUS
    <3> QED BY ONLY <1>5, <1>6, <2>2, <3>1, ListPushed, Zenon
  <2> QED BY <1>1, <1>7, <2>1, <2>3
<1>8. CASE c # b
  <2>1. i \notin InBucket(t, c)
    BY <1>8 DEF InBucket
  <2>2. InBucket(t, c) \cap (P \cup {i}) = InBucket(t, c) \cap P
    BY <2>1
  <2>3. Chained(u.entries, t.buckets[c], InBucket(t, c) \cap P)
    BY ONLY <1>5, <1>6, ListKept, Zenon
  <2> QED BY <1>1, <1>8, <2>2, <2>3
<1> QED
  BY <1>7, <1>8

(* The number of buckets jr_HTableIncreaseNumBuckets arrives at: at least  *)
(* two. It is doubled upwards, so what is known of a number follows from   *)
(* what is known of larger ones.                                           *)
Grown(n) == IF n = 0 THEN FirstBuckets ELSE 2 * (n - 1) + 1

Doubles(L, f) == f = [n \in Nat |-> IF n >= L THEN n ELSE f[Grown(n)]]

LEMMA DoublingFrom ==
  ASSUME NEW L \in Nat, NEW k \in Nat
  PROVE  \E f \in [Nat -> Nat \ {0, 1}] :
           \A n \in Nat : n >= 2 /\ n + k >= L => f[n] = IF n >= L THEN n ELSE f[Grown(n)]
<1> DEFINE From(m) == \E f \in [Nat -> Nat \ {0, 1}] :
             \A n \in Nat : n >= 2 /\ n + m >= L => f[n] = IF n >= L THEN n ELSE f[Grown(n)]
           Ks == {m \in 0 .. k : From(m)}
<1>1. 0 \in Ks
  <2> DEFINE f == [n \in Nat |-> IF n < 2 THEN 2 ELSE n]
  <2>1. f \in [Nat -> Nat \ {0, 1}]
    OBVIOUS
  <2>2. \A n \in Nat : n >= 2 /\ n + 0 >= L => f[n] = IF n >= L THEN n ELSE f[Grown(n)]
    OBVIOUS
  <2> HIDE DEF f
  <2> QED BY <2>1, <2>2
<1>2. \A m \in 0 .. k - 1 : m \in Ks => m + 1 \in Ks
  <2> SUFFICES ASSUME NEW m \in 0 .. k - 1, m \in Ks PROVE m + 1 \in Ks
    OBVIOUS
  <2>1. PICK f \in [Nat -> Nat \ {0, 1}] :
          \A n \in Nat : n >= 2 /\ n + m >= L => f[n] = IF n >= L THEN n ELSE f[Grown(n)]
    OBVIOUS
  <2> DEFINE g == [n \in Nat |-> IF n + m + 1 = L /\ n >= 2 THEN f[Grown(n)] ELSE f[n]]
  <2>2. \A n \in Nat : n >= 2 => Grown(n) \in Nat /\ Grown(n) > n
    BY DEF Grown
  <2>3. g \in [Nat -> Nat \ {0, 1}]
    BY <2>2
  <2>4. \A n \in Nat : g[n] = IF n + m + 1 = L /\ n >= 2 THEN f[Grown(n)] ELSE f[n]
    OBVIOUS
  <2> HIDE DEF g
  <2>5. ASSUME NEW n \in Nat, n >= 2, n + (m + 1) >= L
        PROVE  g[n] = IF n >= L THEN n ELSE g[Grown(n)]
    <3>1. CASE n + m + 1 = L
      <4>1. ~(Grown(n) + m + 1 = L) /\ Grown(n) \in Nat /\ n < L
        BY <2>2, <2>5, <3>1
      <4>2. g[Grown(n)] = f[Grown(n)] /\ g[n] = f[Grown(n)]
        BY <2>4, <2>5, <3>1, <4>1
      <4> QED BY <4>1, <4>2
    <3>2. CASE n + m + 1 # L
      <4>1. n + m >= L /\ g[n] = f[n]
        BY <2>4, <2>5, <3>2
      <4>2. Grown(n) \in Nat /\ ~(Grown(n) + m + 1 = L)
        BY <2>2, <2>5, <4>1
      <4>3. g[Grown(n)] = f[Grown(n)]
        BY <2>4, <4>2
      <4> QED BY <2>1, <2>5, <4>1, <4>3
    <3> QED BY <3>1, <3>2
  <2>6. From(m + 1)
    BY <2>3, <2>5
  <2>7. m + 1 \in 0 .. k
    OBVIOUS
  <2> HIDE DEF From
  <2> QED BY <2>6, <2>7
<1>3. k \in 0 .. k /\ 0 .. k \subseteq Ks
  <2> HIDE DEF Ks
  <2> QED BY <1>1, <1>2, Upwards
<1> QED
  BY <1>3

LEMMA DoublingExists == \A L \in Nat : \E f : Doubles(L, f)
<1> SUFFICES ASSUME NEW L \in Nat PROVE \E f : Doubles(L, f)
  OBVIOUS
<1>1. PICK f \in [Nat -> Nat \ {0, 1}] :
        \A n \in Nat : n >= 2 /\ n + L >= L => f[n] = IF n >= L THEN n ELSE f[Grown(n)]
  BY DoublingFrom
<1> DEFINE g == [n \in Nat |-> IF n >= L THEN n
                               ELSE IF n = 0 THEN IF FirstBuckets >= L THEN FirstBuckets
                                                  ELSE f[FirstBuckets]
                               ELSE f[n]]
<1>2. FirstBuckets \in Nat /\ FirstBuckets >= 2
  BY HTableAssumption
<1>3. \A n \in Nat : n >= 2 => g[n] = f[n]
  BY <1>1
<1>4. \A n \in Nat : n >= 2 => Grown(n) \in Nat /\ Grown(n) >= 2
  BY DEF Grown
<1>5. g = [n \in Nat |-> g[n]]
  OBVIOUS
<1>6. \A n \in Nat : g[n] = IF n >= L THEN n ELSE g[Grown(n)]
  <2> SUFFICES ASSUME NEW n \in Nat, n < L PROVE g[n] = g[Grown(n)]
    OBVIOUS
  <2>1. CASE n = 0
    BY <1>2, <2>1 DEF Grown
  <2>2. CASE n = 1
    <3>1. Grown(1) = 1
      BY DEF Grown
    <3> QED BY <2>2, <3>1
  <2>3. CASE n >= 2
    <3>1. g[n] = f[n] /\ g[Grown(n)] = f[Grown(n)]
      BY <1>3, <1>4, <2>3
    <3> QED BY <1>1, <2>3, <3>1
  <2> QED BY <2>1, <2>2, <2>3
<1> HIDE DEF g
<1>7. g = [n \in Nat |-> IF n >= L THEN n ELSE g[Grown(n)]]
  BY <1>5, <1>6
<1> QED
  BY <1>7 DEF Doubles

LEMMA DoubledEnough ==
  ASSUME NEW L \in Nat, NEW f, Doubles(L, f), NEW n \in Nat, n # 1
  PROVE  n < L => f[n] \in Nat \ {0, 1}
<1> DEFINE Good(m) == f[m] \in Nat \ {0, 1}
           AllGood(k) == \A m \in Nat : m >= 2 /\ m + k >= L => Good(m)
           Ks == {k \in 0 .. L : AllGood(k)}
<1>1. \A m \in Nat : f[m] = IF m >= L THEN m ELSE f[Grown(m)]
  BY DEF Doubles
<1>2. \A m \in Nat : m >= 2 => Grown(m) \in Nat /\ Grown(m) > m
  BY DEF Grown
<1>3. 0 \in Ks
  BY <1>1
<1>4. \A k \in 0 .. L - 1 : k \in Ks => k + 1 \in Ks
  <2> SUFFICES ASSUME NEW k \in 0 .. L - 1, k \in Ks PROVE k + 1 \in Ks
    OBVIOUS
  <2>1. AllGood(k)
    OBVIOUS
  <2>2. ASSUME NEW m \in Nat, m >= 2, m + (k + 1) >= L PROVE Good(m)
    <3>1. CASE m + k >= L
      BY <2>1, <2>2, <3>1
    <3>2. CASE ~(m + k >= L)
      <4>1. Grown(m) + k >= L /\ Grown(m) >= 2 /\ Grown(m) \in Nat
        BY <1>2, <2>2, <3>2
      <4>2. Good(Grown(m))
        BY <2>1, <4>1
      <4>3. m >= L \/ f[m] = f[Grown(m)]
        BY <1>1
      <4> QED BY <1>1, <2>2, <4>2, <4>3
    <3> QED BY <3>1, <3>2
  <2>3. AllGood(k + 1)
    BY <2>2
  <2>4. k + 1 \in 0 .. L
    OBVIOUS
  <2> HIDE DEF AllGood
  <2> QED BY <2>3, <2>4
<1>5. L \in 0 .. L /\ 0 .. L \subseteq Ks
  <2> HIDE DEF Ks
  <2> QED BY <1>3, <1>4, Upwards
<1>6. \A m \in Nat : m >= 2 => Good(m)
  <2>1. L \in Ks
    BY <1>5
  <2>2. AllGood(L)
    BY <2>1
  <2> QED BY <2>2
<1>7. FirstBuckets \in Nat /\ FirstBuckets >= 2
  BY HTableAssumption
<1>8. CASE n = 0
  <2>1. n < L => f[n] = f[FirstBuckets]
    BY <1>1, <1>8 DEF Grown
  <2> QED BY <1>6, <1>7, <2>1
<1>9. CASE n >= 2
  BY <1>6, <1>9
<1> QED
  BY <1>8, <1>9

LEMMA SameEntriesTransitive ==
  ASSUME NEW t, NEW u, NEW v, SameEntries(t, u), SameEntries(u, v)
  PROVE  SameEntries(t, v)
<1>1. Idx(u) = Idx(t) /\ Deleted(u) = Deleted(t)
  BY SameSets
<1>2. Deleted(t) \subseteq Idx(t)
  BY DEF Deleted
<1> QED
  BY <1>1, <1>2 DEF SameEntries

(* jr_HTableIncreaseNumBuckets: the new buckets, and the entries put into  *)
(* them one after the other.                                               *)
Double(L) == CHOOSE f : Doubles(L, f)

Emptied(t) == [t EXCEPT !.buckets = [b \in 1 .. Double(Len(t.entries))[NumBuckets(t)] |-> End]]

Fills(t, f) ==
  f = [i \in 0 .. Len(t.entries) |->
         IF i = 0 THEN Emptied(t)
         ELSE LET before == f[i - 1]
              IN IF EntryOf(t.entries, i - 1).hash = End THEN before
                 ELSE AddToBucketList(before, i - 1)]

LEMMA IncreaseForm ==
  \A t : IncreaseNumBuckets(t) = IF NumBuckets(t) >= Len(t.entries) THEN t
                                 ELSE (CHOOSE f : Fills(t, f))[Len(t.entries)]
  BY DEF IncreaseNumBuckets, Fills, Emptied, Double, Doubles, Grown

LEMMA EmptiedBuckets ==
  ASSUME NEW t, Sound(t), NumBuckets(t) # 1, NumBuckets(t) < Len(t.entries)
  PROVE  LET u == Emptied(t) IN
         /\ Sound(u) /\ SameEntries(t, u)
         /\ NumBuckets(u) \in Nat \ {0, 1}
         /\ BucketsLinked(u, {})
<1> DEFINE n == Double(Len(t.entries))[NumBuckets(t)]
           bs == [b \in 1 .. n |-> End]
           u == Emptied(t)
<1>1. IsTable(t) /\ Len(t.entries) \in Nat /\ NumBuckets(t) \in Nat
  BY TableFacts DEF Sound
<1>2. Doubles(Len(t.entries), Double(Len(t.entries)))
  BY <1>1, DoublingExists DEF Double
<1>3. n \in Nat \ {0, 1}
  BY <1>1, <1>2, DoubledEnough
<1>4. u = [t EXCEPT !.buckets = bs]
  BY DEF Emptied
<1> HIDE DEF n, u
<1>5. bs \in Seq(Int) /\ Len(bs) = n /\ \A b \in 1 .. n : bs[b] = End
  BY <1>3 DEF End
<1> HIDE DEF bs
<1>6. /\ u.entries = t.entries /\ u.buckets = bs
      /\ u.delete_list = t.delete_list /\ u.num_deletes = t.num_deletes
      /\ IsTable(u)
  BY <1>1, <1>4, <1>5 DEF IsTable
<1>7. SameEntries(t, u)
  BY <1>6 DEF SameEntries, KeyAt, HashAt, NextAt
<1>8. Sound(u)
  BY <1>6, <1>7, SoundKept
<1>9. NumBuckets(u) = n
  BY <1>5, <1>6 DEF NumBuckets
<1>10. BucketsLinked(u, {})
  <2> SUFFICES ASSUME NEW b \in 1 .. NumBuckets(u)
               PROVE  Chained(u.entries, u.buckets[b], InBucket(u, b) \cap {})
    BY DEF BucketsLinked
  <2>1. u.buckets[b] = End /\ InBucket(u, b) \cap {} = {}
    BY <1>5, <1>6, <1>9
  <2> QED BY <2>1, NothingChained
<1> QED
  BY <1>3, <1>7, <1>8, <1>9, <1>10 DEF u

(* The steps of the filling, as a function from tables to tables: what they *)
(* start with and keep.                                                    *)
Fillable(t, n, u) == Sound(u) /\ SameEntries(t, u) /\ NumBuckets(u) = n

LEMMA FillStep ==
  ASSUME NEW t, NEW n \in Nat \ {0}, NEW u, Fillable(t, n, u),
         NEW i \in Idx(t), HashAt(t, i) # End
  PROVE  /\ Fillable(t, n, AddToBucketList(u, i))
         /\ HashAt(u, i) # End
         /\ \A P : i \notin P /\ BucketsLinked(u, P)
                     => BucketsLinked(AddToBucketList(u, i), P \cup {i})
<1>1. Sound(u) /\ SameEntries(t, u) /\ NumBuckets(u) = n
  BY DEF Fillable
<1>2. i \in Live(u) /\ HashAt(u, i) # End
  <2>1. Live(u) = Live(t) /\ i \in Live(t)
    BY <1>1, SameSets DEF Live
  <2> QED BY <2>1 DEF Live
<1>3. LET v == AddToBucketList(u, i) IN
      IsTable(v) /\ SameEntries(u, v) /\ NumBuckets(v) = NumBuckets(u)
  BY <1>1, <1>2, FrontOfBucket
<1>4. Fillable(t, n, AddToBucketList(u, i))
  BY <1>1, <1>3, SoundKept, SameEntriesTransitive DEF Fillable
<1>5. \A P : i \notin P /\ BucketsLinked(u, P)
               => BucketsLinked(AddToBucketList(u, i), P \cup {i})
  BY <1>1, <1>2, FrontLinked
<1> QED
  BY <1>2, <1>4, <1>5

LEMMA FillsExists ==
  ASSUME NEW t, Sound(t), NumBuckets(t) # 1, NumBuckets(t) < Len(t.entries)
  PROVE  \E f : Fills(t, f)
<1> DEFINE N == Len(t.entries)
           n == NumBuckets(Emptied(t))
           S == {u \in [entries : Seq(Entry), buckets : Seq(Int), delete_list : Int, num_deletes : Nat] :
                   Fillable(t, n, u)}
           G == [x \in (1 .. N) \X S |->
                   IF HashAt(t, x[1] - 1) = End THEN x[2] ELSE AddToBucketList(x[2], x[1] - 1)]
<1>1. N \in Nat
  BY TableFacts DEF Sound
<1>2. Fillable(t, n, Emptied(t)) /\ n \in Nat \ {0}
  BY EmptiedBuckets DEF Fillable
<1>3. \A u : u \in S <=> Fillable(t, n, u)
  BY DEF Fillable, Sound, IsTable
<1> HIDE DEF S, N, n
<1>4. G \in [(1 .. N) \X S -> S]
  <2> SUFFICES ASSUME NEW i \in 1 .. N, NEW u \in S, HashAt(t, i - 1) # End
               PROVE  AddToBucketList(u, i - 1) \in S
    OBVIOUS
  <2>1. i - 1 \in Idx(t)
    BY <1>1 DEF Idx, N
  <2> QED BY <1>2, <1>3, <2>1, FillStep
<1>5. \A i \in 1 .. N : \A u \in S :
        G[<<i, u>>] = IF HashAt(t, i - 1) = End THEN u ELSE AddToBucketList(u, i - 1)
  OBVIOUS
<1>6. Emptied(t) \in S
  BY <1>2, <1>3
<1> HIDE DEF G
<1>7. PICK f \in [0 .. N -> S] : Obeys(f, Emptied(t), G, N)
  BY <1>1, <1>4, <1>6, RecursionExists
<1>8. ASSUME NEW i \in 0 .. N
      PROVE  f[i] = IF i = 0 THEN Emptied(t)
                    ELSE IF HashAt(t, i - 1) = End THEN f[i - 1]
                         ELSE AddToBucketList(f[i - 1], i - 1)
  <2>1. CASE i = 0
    BY <1>7, <2>1 DEF Obeys
  <2>2. CASE i # 0
    <3>1. i \in 1 .. N /\ i - 1 \in 0 .. N
      BY <1>1, <2>2
    <3>2. f[i] = G[<<i, f[i - 1]>>] /\ f[i - 1] \in S
      BY <1>7, <3>1 DEF Obeys
    <3> QED BY <1>5, <2>2, <3>1, <3>2
  <2> QED BY <2>1, <2>2
<1>9. Fills(t, f)
  <2>1. f = [i \in 0 .. N |-> f[i]]
    BY <1>7
  <2> QED BY <1>8, <2>1 DEF Fills, HashAt, N
<1> QED
  BY <1>9

LEMMA BucketsIncreased ==
  ASSUME NEW t, Sound(t), NumBuckets(t) # 1, BucketsLinked(t, Live(t))
  PROVE  LET u == IncreaseNumBuckets(t) IN
         /\ Sound(u) /\ SameEntries(t, u) /\ BucketsLinked(u, Live(u))
         /\ NumBuckets(u) # 1
         /\ Len(t.entries) # 0 => NumBuckets(u) # 0
<1> DEFINE N == Len(t.entries)
           u == IncreaseNumBuckets(t)
<1>1. N \in Nat /\ NumBuckets(t) \in Nat
  BY TableFacts DEF Sound
<1>2. CASE NumBuckets(t) >= N
  <2>1. u = t
    BY <1>2, IncreaseForm
  <2>2. SameEntries(t, t)
    BY DEF SameEntries
  <2> HIDE DEF u
  <2> QED BY <1>1, <1>2, <2>1, <2>2 DEF u
<1>3. CASE NumBuckets(t) < N
  <2> DEFINE n == NumBuckets(Emptied(t))
             f == CHOOSE g : Fills(t, g)
             P == {i \in 0 .. N : /\ Fillable(t, n, f[i])
                                  /\ BucketsLinked(f[i], Live(t) \cap (0 .. i - 1))}
  <2>1. u = f[N]
    BY <1>1, <1>3, IncreaseForm
  <2>2. Fills(t, f)
    BY <1>3, FillsExists
  <2> HIDE DEF f, u
  <2>3. f[0] = Emptied(t) /\ \A i \in 0 .. N - 1 :
          f[i + 1] = IF HashAt(t, i) = End THEN f[i] ELSE AddToBucketList(f[i], i)
    <3> SUFFICES ASSUME NEW i \in 0 .. N - 1
                 PROVE  /\ f[0] = Emptied(t)
                        /\ f[i + 1] = IF HashAt(t, i) = End THEN f[i]
                                      ELSE AddToBucketList(f[i], i)
      BY <1>1, <1>3
    <3>1. 0 \in 0 .. N /\ i + 1 \in 0 .. N /\ i + 1 # 0 /\ (i + 1) - 1 = i
      BY <1>1
    <3> QED BY <2>2, <3>1 DEF Fills, HashAt
  <2>4. /\ Fillable(t, n, Emptied(t)) /\ n \in Nat \ {0, 1}
        /\ BucketsLinked(Emptied(t), {})
    BY <1>3, EmptiedBuckets DEF Fillable
  <2> HIDE DEF n
  <2>5. 0 \in P
    <3>1. Live(t) \cap (0 .. 0 - 1) = {}
      OBVIOUS
    <3> QED BY <1>1, <2>3, <2>4, <3>1
  <2>6. \A i \in 0 .. N - 1 : i \in P => i + 1 \in P
    <3> SUFFICES ASSUME NEW i \in 0 .. N - 1, i \in P PROVE i + 1 \in P
      OBVIOUS
    <3>1. /\ Fillable(t, n, f[i]) /\ BucketsLinked(f[i], Live(t) \cap (0 .. i - 1))
          /\ i + 1 \in 0 .. N /\ (i + 1) - 1 = i /\ i \in Idx(t)
      BY <1>1 DEF Idx
    <3>2. CASE HashAt(t, i) = End
      <4>1. Live(t) \cap (0 .. i) = Live(t) \cap (0 .. i - 1)
        BY <3>2 DEF Live
      <4> QED BY <2>3, <3>1, <3>2, <4>1
    <3>3. CASE HashAt(t, i) # End
      <4>1. Live(t) \cap (0 .. i) = (Live(t) \cap (0 .. i - 1)) \cup {i}
        BY <3>1, <3>3 DEF Live
      <4>2. i \notin Live(t) \cap (0 .. i - 1)
        OBVIOUS
      <4>3. /\ Fillable(t, n, AddToBucketList(f[i], i))
            /\ BucketsLinked(AddToBucketList(f[i], i), (Live(t) \cap (0 .. i - 1)) \cup {i})
        BY <2>4, <3>1, <3>3, <4>2, FillStep
      <4> QED BY <2>3, <3>1, <3>3, <4>1, <4>3
    <3> QED BY <3>2, <3>3
  <2>7. N \in P
    <3> HIDE DEF P
    <3>1. 0 .. N \subseteq P
      BY <1>1, <2>5, <2>6, Upwards
    <3> QED BY <1>1, <3>1
  <2>8. Live(t) \cap (0 .. N - 1) = Live(t)
    BY DEF Live, Idx
  <2>9. Fillable(t, n, u) /\ BucketsLinked(u, Live(t))
    BY <2>1, <2>7, <2>8
  <2>10. Live(u) = Live(t)
    BY <2>9, SameSets DEF Fillable
  <2> QED BY <2>4, <2>9, <2>10 DEF Fillable, u
<1> QED
  BY <1>1, <1>2, <1>3

-----------------------------------------------------------------------------
(* The invariant.                                                          *)

TableOk(t) ==
  /\ Sound(t)
  /\ BucketsLinked(t, Live(t))
  /\ NumBuckets(t) # 1
  /\ Len(t.entries) # 0 => NumBuckets(t) # 0

LEMMA MinIsLeast ==
  ASSUME NEW T, T \subseteq Nat, T # {}
  PROVE  Min(T) \in T /\ \A y \in T : Min(T) <= y
<1>1. \E x \in T : \A y \in T : x <= y
  BY LeastNatural
<1> QED
  BY <1>1 DEF Min

LEMMA HashValueNat == \A k \in Keys : HashValue(k) \in Nat
  BY HTableAssumption DEF HashValue

(* The list of a bucket, and its members.                                  *)
LEMMA BucketList ==
  ASSUME NEW t, Sound(t), BucketsLinked(t, Live(t)), NEW b \in 1 .. NumBuckets(t)
  PROVE  /\ Chained(t.entries, t.buckets[b], InBucket(t, b))
         /\ List(t, t.buckets[b])[Len(t.entries)] = End
         /\ Members(t, t.buckets[b]) = InBucket(t, b)
<1>1. InBucket(t, b) \cap Live(t) = InBucket(t, b) /\ InBucket(t, b) \subseteq Idx(t)
  BY DEF InBucket, Live
<1>2. Chained(t.entries, t.buckets[b], InBucket(t, b))
  BY <1>1 DEF BucketsLinked
<1>3. Len(t.entries) \in Nat
  BY TableFacts DEF Sound
<1> QED
  BY <1>1, <1>2, <1>3, ListMembers

(* jr_HTableFindIndex finds the live entry of a key when there is one, and *)
(* nothing else.                                                           *)
LEMMA FindIndexFinds ==
  ASSUME NEW t, TableOk(t), NEW k \in Keys
  PROVE  /\ FindIndex(t, k) # End
              => FindIndex(t, k) \in Live(t) /\ KeyAt(t, FindIndex(t, k)) = k
         /\ \A i \in Live(t) : KeyAt(t, i) = k => FindIndex(t, k) = i
<1>1. Sound(t) /\ IsTable(t) /\ BucketsLinked(t, Live(t)) /\ NumBuckets(t) \in Nat
  BY TableFacts DEF TableOk, Sound
<1>2. CASE NumBuckets(t) = 0
  <2>1. Live(t) = {}
    BY <1>2 DEF TableOk, Live, Idx
  <2> QED BY <1>2, <2>1 DEF FindIndex
<1>3. CASE NumBuckets(t) # 0
  <2> DEFINE b == BucketOf(t, HashValue(k)) + 1
             list == List(t, t.buckets[b])
             hits == {n \in 0 .. Len(t.entries) :
                        list[n] # End /\ EntryOf(t.entries, list[n]).key = k}
  <2>1. b \in 1 .. NumBuckets(t)
    BY <1>1, <1>3, HashValueNat, BucketInRange DEF BucketOf
  <2>2. Members(t, t.buckets[b]) = InBucket(t, b)
    BY <1>1, <2>1, BucketList
  <2>3. FindIndex(t, k) = IF hits = {} THEN End ELSE list[Min(hits)]
    BY <1>3 DEF FindIndex
  <2>4. \A i : i \in InBucket(t, b) <=> i # End /\ \E n \in 0 .. Len(t.entries) : list[n] = i
    BY <2>2 DEF Members
  <2>5. hits # {} => Min(hits) \in hits
    <3>1. hits \subseteq Nat
      OBVIOUS
    <3> HIDE DEF hits
    <3> QED BY <3>1, MinIsLeast
  <2>6. \A n \in hits : list[n] \in Live(t) /\ KeyAt(t, list[n]) = k
    BY <2>4 DEF InBucket, KeyAt
  <2>7. ASSUME NEW i \in Live(t), KeyAt(t, i) = k
        PROVE  hits # {} /\ \A n \in hits : list[n] = i
    <3>1. HashAt(t, i) = HashValue(k)
      BY <1>1, <2>7 DEF Sound
    <3>2. i \in InBucket(t, b)
      BY <3>1 DEF InBucket
    <3>3. PICK n \in 0 .. Len(t.entries) : list[n] = i /\ i # End
      BY <2>4, <3>2
    <3>4. n \in hits
      BY <2>7, <3>3 DEF KeyAt
    <3> HIDE DEF list, hits
    <3> QED BY <1>1, <2>6, <2>7, <3>4 DEF Sound
  <2> HIDE DEF list, hits
  <2> QED BY <2>3, <2>5, <2>6, <2>7
<1> QED
  BY <1>2, <1>3

-----------------------------------------------------------------------------
(* A new entry, at an index that is not in use.                            *)
IsNewEntry(t, u, i, k) ==
  /\ i \in Idx(u) /\ i \notin Live(t)
  /\ Live(u) = Live(t) \cup {i} /\ KeyAt(u, i) = k
  /\ \A j \in Live(t) : KeyAt(u, j) = KeyAt(t, j)

LEMMA EntryAdded ==
  ASSUME NEW t, Sound(t), BucketsLinked(t, Live(t)),
         NEW k \in Keys, \A j \in Live(t) : KeyAt(t, j) # k,
         NEW u, IsTable(u), NEW i, i \notin Live(t), Idx(u) = Idx(t) \cup {i},
         EntryOf(u.entries, i) = [key |-> k, hash |-> HashValue(k), next |-> End],
         \A j \in Idx(t) \ {i} : EntryOf(u.entries, j) = EntryOf(t.entries, j),
         u.buckets = t.buckets,
         Chained(t.entries, u.delete_list, Deleted(t) \ {i}),
         u.num_deletes = Cardinality(Deleted(t) \ {i})
  PROVE  Sound(u) /\ IsNewEntry(t, u, i, k) /\ BucketsLinked(u, Live(t))
<1>1. KeyAt(u, i) = k /\ HashAt(u, i) = HashValue(k) /\ HashAt(u, i) # End
  BY HashValueNat DEF KeyAt, HashAt, End
<1>2. \A j \in Idx(t) \ {i} : KeyAt(u, j) = KeyAt(t, j) /\ HashAt(u, j) = HashAt(t, j)
  BY DEF KeyAt, HashAt
<1>3. Live(u) = Live(t) \cup {i} /\ Deleted(u) = Deleted(t) \ {i}
  BY <1>1, <1>2 DEF Live, Deleted
<1>4. \A j \in Live(t) : j \in Idx(t) \ {i}
  BY DEF Live
<1>5. IsNewEntry(t, u, i, k)
  BY <1>1, <1>2, <1>3, <1>4 DEF IsNewEntry
<1>6. Chained(u.entries, u.delete_list, Deleted(u))
  <2>1. \A j \in Deleted(t) \ {i} : EntryOf(u.entries, j).next = EntryOf(t.entries, j).next
    BY DEF Deleted
  <2> QED BY <1>3, <2>1, ListKept
<1>7. /\ \A j \in Live(u) : HashAt(u, j) = HashValue(KeyAt(u, j))
      /\ \A j, m \in Live(u) : KeyAt(u, j) = KeyAt(u, m) => j = m
  BY <1>1, <1>2, <1>3, <1>4 DEF Sound
<1>8. Sound(u)
  BY <1>3, <1>6, <1>7 DEF Sound
<1>9. BucketsLinked(u, Live(t))
  <2> SUFFICES ASSUME NEW b \in 1 .. NumBuckets(t)
               PROVE  Chained(u.entries, t.buckets[b], InBucket(u, b) \cap Live(t))
    BY DEF BucketsLinked, NumBuckets
  <2>1. InBucket(u, b) \cap Live(t) = InBucket(t, b) /\ InBucket(t, b) \subseteq Live(t)
    BY <1>2, <1>3, <1>4 DEF InBucket, BucketOf, NumBuckets
  <2>2. Chained(t.entries, t.buckets[b], InBucket(t, b))
    BY BucketList
  <2>3. \A j \in InBucket(t, b) : EntryOf(u.entries, j).next = EntryOf(t.entries, j).next
    BY <1>4, <2>1
  <2> QED BY <2>1, <2>2, <2>3, ListKept
<1> QED
  BY <1>5, <1>8, <1>9

LEMMA ListNotEmpty ==
  ASSUME NEW e, NEW start, NEW M, Chained(e, start, M), M # {}, End \notin M
  PROVE  start \in M
<1>1. PICK L, c : IsList(e, start, M, L, c)
  BY DEF Chained
<1>2. L # 0 /\ 1 \in 1 .. L
  BY <1>1 DEF IsList
<1> QED
  BY <1>1, <1>2 DEF IsList

LEMMA IndexAllocated ==
  ASSUME NEW t, TableOk(t), NEW k \in Keys, \A j \in Live(t) : KeyAt(t, j) # k
  PROVE  LET new == AllocateNewIndex(t, k) IN
         /\ Sound(new.table) /\ IsNewEntry(t, new.table, new.index, k)
         /\ BucketsLinked(new.table, Live(t))
         /\ NumBuckets(new.table) = NumBuckets(t)
         /\ Len(new.table.entries) # 0
<1> DEFINE entry == [key |-> k, hash |-> HashValue(k), next |-> End]
           new == AllocateNewIndex(t, k)
           u == new.table
           i == new.index
<1>1. /\ Sound(t) /\ IsTable(t) /\ BucketsLinked(t, Live(t))
      /\ t.entries \in Seq(Entry) /\ Len(t.entries) \in Nat
      /\ IsFiniteSet(Deleted(t)) /\ t.num_deletes = Cardinality(Deleted(t))
      /\ Chained(t.entries, t.delete_list, Deleted(t))
  BY TableFacts DEF TableOk, Sound, IsTable
<1>2. entry \in Entry
  BY HashValueNat DEF Entry, End
<1> HIDE DEF entry
<1>3. CASE t.num_deletes # 0
  <2> DEFINE d == t.delete_list
             e == [t.entries EXCEPT ![d + 1] = entry]
  <2>1. d \in Deleted(t) /\ d \in Idx(t) /\ d # End
    <3>1. Deleted(t) # {}
      BY <1>1, <1>3, FS_EmptySet
    <3>2. End \notin Deleted(t)
      BY DEF Deleted, Idx, End
    <3>3. d \in Deleted(t)
      BY <1>1, <3>1, <3>2, ListNotEmpty
    <3> QED BY <3>2, <3>3 DEF Deleted
  <2>2. Chained(t.entries, NextAt(t, d), Deleted(t) \ {d})
    BY <1>1, <2>1, FirstPulled DEF NextAt
  <2>3. NextAt(t, d) \in Int
    BY <1>1, <2>1, TableFacts
  <2>4. Cardinality(Deleted(t) \ {d}) = t.num_deletes - 1 /\ t.num_deletes - 1 \in Nat
    <3>1. Cardinality(Deleted(t) \ {d}) = t.num_deletes - 1
      BY <1>1, <2>1, FS_RemoveElement
    <3>2. t.num_deletes \in Nat
      BY <1>1 DEF IsTable
    <3> QED BY <1>3, <3>1, <3>2
  <2>5. /\ i = d
        /\ u = [t EXCEPT !.delete_list = NextAt(t, d), !.num_deletes = @ - 1, !.entries = e]
    BY <1>3 DEF AllocateNewIndex, NextAt, entry
  <2>6. e \in Seq(Entry) /\ Len(e) = Len(t.entries)
    <3>1. d + 1 \in DOMAIN t.entries
      BY <1>1, <2>1 DEF Idx
    <3> HIDE DEF d
    <3> QED BY <1>1, <1>2, <3>1
  <2>7. \A j \in Idx(t) : EntryOf(e, j) = IF j = d THEN entry ELSE EntryOf(t.entries, j)
    BY <1>1, <2>1 DEF EntryOf, Idx
  <2> HIDE DEF e, u, i
  <2>8. /\ u.entries = e /\ u.buckets = t.buckets /\ u.delete_list = NextAt(t, d)
        /\ u.num_deletes = t.num_deletes - 1 /\ IsTable(u)
    BY <1>1, <2>3, <2>4, <2>5, <2>6 DEF IsTable
  <2>9. i \notin Live(t) /\ Idx(u) = Idx(t) \cup {i} /\ EntryOf(u.entries, i) = entry
    BY <2>1, <2>5, <2>6, <2>7, <2>8 DEF Live, Deleted, Idx
  <2>10. \A j \in Idx(t) \ {i} : EntryOf(u.entries, j) = EntryOf(t.entries, j)
    BY <2>5, <2>7, <2>8
  <2>11. Sound(u) /\ IsNewEntry(t, u, i, k) /\ BucketsLinked(u, Live(t))
    BY <1>1, <2>2, <2>4, <2>5, <2>8, <2>9, <2>10, EntryAdded DEF entry
  <2>12. NumBuckets(u) = NumBuckets(t) /\ Len(u.entries) # 0
    BY <1>1, <2>1, <2>6, <2>8 DEF NumBuckets, Idx
  <2> QED BY <2>11, <2>12 DEF u, i
<1>4. CASE t.num_deletes = 0
  <2> DEFINE e == Append(t.entries, entry)
  <2>1. i = Len(t.entries) /\ u = [t EXCEPT !.entries = e]
    BY <1>4 DEF AllocateNewIndex, entry
  <2>2. e \in Seq(Entry) /\ Len(e) = Len(t.entries) + 1
    BY <1>1, <1>2
  <2>3. /\ \A j \in Idx(t) : EntryOf(e, j) = EntryOf(t.entries, j)
        /\ EntryOf(e, Len(t.entries)) = entry
    BY <1>1, <1>2 DEF EntryOf, Idx
  <2> HIDE DEF e, u, i
  <2>4. /\ u.entries = e /\ u.buckets = t.buckets /\ u.delete_list = t.delete_list
        /\ u.num_deletes = t.num_deletes /\ IsTable(u)
    BY <1>1, <2>1, <2>2 DEF IsTable
  <2>5. i \notin Live(t) /\ Idx(u) = Idx(t) \cup {i} /\ EntryOf(u.entries, i) = entry
    BY <1>1, <2>1, <2>2, <2>3, <2>4 DEF Live, Idx
  <2>6. Deleted(t) \ {i} = Deleted(t)
    BY <1>1, <2>1 DEF Deleted, Idx
  <2>7. \A j \in Idx(t) \ {i} : EntryOf(u.entries, j) = EntryOf(t.entries, j)
    BY <2>3, <2>4
  <2>8. Sound(u) /\ IsNewEntry(t, u, i, k) /\ BucketsLinked(u, Live(t))
    BY <1>1, <2>4, <2>5, <2>6, <2>7, EntryAdded DEF entry
  <2>9. NumBuckets(u) = NumBuckets(t) /\ Len(u.entries) # 0
    BY <1>1, <2>2, <2>4 DEF NumBuckets
  <2> QED BY <2>8, <2>9 DEF u, i
<1> QED
  BY <1>3, <1>4

LEMMA ElementSet ==
  ASSUME NEW t, TableOk(t), NEW k \in Keys, \A j \in Live(t) : KeyAt(t, j) # k
  PROVE  LET new == AllocateNewIndex(t, k)
             u   == IncreaseNumBuckets(AddToBucketList(new.table, new.index)) IN
         TableOk(u) /\ IsNewEntry(t, u, new.index, k)
<1> DEFINE new == AllocateNewIndex(t, k)
           a == new.table
           i == new.index
           v == AddToBucketList(a, i)
           u == IncreaseNumBuckets(v)
<1>1. /\ Sound(a) /\ IsNewEntry(t, a, i, k) /\ BucketsLinked(a, Live(t))
      /\ NumBuckets(a) = NumBuckets(t) /\ Len(a.entries) # 0
  BY IndexAllocated
<1>2. i \in Live(a) /\ i \notin Live(t) /\ Live(a) = Live(t) \cup {i}
  BY <1>1 DEF IsNewEntry
<1> HIDE DEF a, i
<1>3. /\ Sound(v) /\ SameEntries(a, v) /\ BucketsLinked(v, Live(v)) /\ NumBuckets(v) = NumBuckets(a)
  <2>1. CASE NumBuckets(a) = 0
    <3>1. v = a
      BY <2>1 DEF AddToBucketList
    <3>2. SameEntries(a, a) /\ BucketsLinked(a, Live(a))
      BY <2>1 DEF SameEntries, BucketsLinked
    <3> HIDE DEF v
    <3> QED BY <1>1, <3>1, <3>2
  <2>2. CASE NumBuckets(a) # 0
    <3>1. IsTable(v) /\ SameEntries(a, v) /\ NumBuckets(v) = NumBuckets(a)
      BY <1>1, <1>2, <2>2, FrontOfBucket
    <3>2. BucketsLinked(v, Live(a))
      BY <1>1, <1>2, <2>2, FrontLinked
    <3> HIDE DEF v
    <3> QED BY <1>1, <3>1, <3>2, SoundKept, SameSets
  <2> QED BY <2>1, <2>2
<1> HIDE DEF v
<1>4. /\ Sound(u) /\ SameEntries(v, u) /\ BucketsLinked(u, Live(u)) /\ NumBuckets(u) # 1
      /\ Len(v.entries) # 0 => NumBuckets(u) # 0
  BY <1>1, <1>3, BucketsIncreased DEF TableOk
<1> HIDE DEF u
<1>5. SameEntries(a, u)
  BY <1>3, <1>4, SameEntriesTransitive
<1>6. Len(v.entries) # 0
  BY <1>1, <1>3 DEF SameEntries
<1>7. TableOk(u)
  BY <1>4, <1>6 DEF TableOk
<1>8. IsNewEntry(t, u, i, k)
  <2>1. Idx(u) = Idx(a) /\ Live(u) = Live(a)
    BY <1>5, SameSets
  <2>2. \A j \in Idx(a) : KeyAt(u, j) = KeyAt(a, j)
    BY <1>5 DEF SameEntries
  <2>3. Live(a) \subseteq Idx(a)
    BY DEF Live
  <2> QED BY <1>1, <2>1, <2>2, <2>3 DEF IsNewEntry
<1> QED
  BY <1>7, <1>8 DEF u, v, a, i

-----------------------------------------------------------------------------
(* jr_HTableDeleteFromBucketList: the entry is left out of the list of its *)
(* bucket, and its own link is not touched.                                *)
LEMMA BucketLeft ==
  ASSUME NEW t, TableOk(t), NEW i \in Live(t)
  PROVE  LET v == DeleteFromBucketList(t, i) IN
         /\ IsTable(v) /\ SameEntries(t, v) /\ NumBuckets(v) = NumBuckets(t)
         /\ BucketsLinked(v, Live(t) \ {i})
<1> DEFINE b == BucketOf(t, HashAt(t, i)) + 1
           list == List(t, t.buckets[b])
           hits == {n \in 0 .. Len(t.entries) : list[n] = i}
           v == DeleteFromBucketList(t, i)
           B == InBucket(t, b)
           next == NextAt(t, i)
<1>1. /\ Sound(t) /\ IsTable(t) /\ BucketsLinked(t, Live(t))
      /\ t.entries \in Seq(Entry) /\ Len(t.entries) \in Nat
      /\ t.buckets \in Seq(Int) /\ NumBuckets(t) = Len(t.buckets) /\ NumBuckets(t) \in Nat
  BY TableFacts DEF TableOk, Sound, IsTable, NumBuckets
<1>2. i \in Idx(t) /\ HashAt(t, i) \in Nat /\ next \in Int /\ i # End
  BY <1>1, TableFacts DEF Live, Idx, End
<1>3. NumBuckets(t) # 0
  BY <1>1, <1>2 DEF TableOk, Idx
<1>4. b \in 1 .. NumBuckets(t)
  BY <1>1, <1>2, <1>3, BucketInRange DEF BucketOf
<1>5. i \in B /\ B \subseteq Idx(t) /\ B \subseteq Live(t)
  BY DEF InBucket, Live
<1>6. Chained(t.entries, t.buckets[b], B)
  BY <1>1, <1>4, BucketList
<1>7. v = IF Min(hits) = 0 THEN [t EXCEPT !.buckets[b] = next]
          ELSE [t EXCEPT !.entries[list[Min(hits) - 1] + 1].next = next]
  BY <1>3 DEF DeleteFromBucketList, HashAt, NextAt
<1> HIDE DEF b, v, list, next
<1>8. PICK L, c : IsList(t.entries, t.buckets[b], B, L, c)
  BY <1>6 DEF Chained
<1>9. L \in Nat /\ c \in [1 .. L -> B] /\ L <= Len(t.entries)
  <2>1. L \in Nat /\ c \in [1 .. L -> B]
    BY <1>8 DEF IsList
  <2> HIDE DEF B
  <2>2. L <= Len(t.entries)
    BY ONLY <1>1, <1>5, <1>8, ListFits, Zenon
  <2> QED BY <2>1, <2>2
<1>10. PICK p \in 1 .. L : c[p] = i
  BY <1>5, <1>8 DEF IsList
<1>11. \A n \in 0 .. Len(t.entries) : list[n] = IF n < L THEN c[n + 1] ELSE End
  BY <1>1, <1>5, <1>8, ListValues DEF list
<1>12. hits = {p - 1} /\ Min(hits) = p - 1
  <2>1. p - 1 \in hits
    BY <1>1, <1>9, <1>10, <1>11
  <2>2. \A n \in hits : n = p - 1
    <3> SUFFICES ASSUME NEW n \in hits PROVE n = p - 1
      OBVIOUS
    <3>1. n < L /\ c[n + 1] = i /\ n + 1 \in 1 .. L
      BY <1>2, <1>9, <1>11
    <3>2. n + 1 = p
      BY <1>8, <1>10, <3>1 DEF IsList
    <3> QED BY <3>2
  <2>3. hits \subseteq Nat /\ hits # {}
    BY <2>1
  <2> HIDE DEF hits
  <2>4. Min(hits) \in hits
    BY <2>3, MinIsLeast
  <2> QED BY <2>1, <2>2, <2>4
<1> HIDE DEF hits
(* The lists of the other buckets do not hold the entry.                   *)
<1>13. \A d : d # b => InBucket(t, d) \cap (Live(t) \ {i}) = InBucket(t, d)
  <2>1. \A d : d # b => i \notin InBucket(t, d)
    BY DEF InBucket, b
  <2>2. \A d : InBucket(t, d) \subseteq Live(t)
    BY DEF InBucket
  <2> QED BY <2>1, <2>2
<1>14. B \cap (Live(t) \ {i}) = B \ {i}
  BY <1>5
<1>15. \A d \in 1 .. NumBuckets(t) : Chained(t.entries, t.buckets[d], InBucket(t, d))
  BY <1>1, BucketList
<1>16. CASE p = 1
  <2> DEFINE bs == [t.buckets EXCEPT ![b] = next]
  <2>1. v = [t EXCEPT !.buckets = bs]
    BY <1>7, <1>12, <1>16
  <2>2. bs \in Seq(Int) /\ Len(bs) = Len(t.buckets)
    BY <1>1, <1>2, <1>4
  <2>3. \A d \in 1 .. NumBuckets(t) : bs[d] = IF d = b THEN next ELSE t.buckets[d]
    BY <1>1, <1>4
  <2> HIDE DEF bs
  <2>4. /\ v.entries = t.entries /\ v.buckets = bs /\ v.delete_list = t.delete_list
        /\ v.num_deletes = t.num_deletes /\ IsTable(v)
    BY <1>1, <2>1, <2>2 DEF IsTable
  <2>5. SameEntries(t, v) /\ NumBuckets(v) = NumBuckets(t)
    BY <1>1, <2>2, <2>4 DEF SameEntries, KeyAt, HashAt, NextAt, NumBuckets
  <2>6. \A d : InBucket(v, d) = InBucket(t, d)
    BY <2>4, <2>5, SameSets DEF InBucket, BucketOf, HashAt
  <2>7. t.buckets[b] = i
    BY <1>8, <1>9, <1>10, <1>16 DEF IsList
  <2>8. Chained(t.entries, next, B \ {i})
    BY <1>2, <1>6, <2>7, FirstPulled DEF next, NextAt
  <2>9. ASSUME NEW d \in 1 .. NumBuckets(t)
        PROVE  Chained(v.entries, v.buckets[d], InBucket(v, d) \cap (Live(t) \ {i}))
    <3>1. CASE d = b
      BY <1>14, <2>3, <2>4, <2>6, <2>8, <2>9, <3>1
    <3>2. CASE d # b
      BY <1>13, <1>15, <2>3, <2>4, <2>6, <2>9, <3>2
    <3> QED BY <3>1, <3>2
  <2> QED BY <2>4, <2>5, <2>9 DEF BucketsLinked, v
<1>17. CASE p # 1
  <2> DEFINE q == c[p - 1]
             e == [t.entries EXCEPT ![q + 1] = [@ EXCEPT !.next = next]]
  <2>1. p \in 2 .. L /\ q \in B /\ q \in Idx(t) /\ q \in Live(t) /\ p - 1 \in 1 .. L
    BY <1>5, <1>9, <1>10, <1>17
  <2>2. list[Min(hits) - 1] = q
    <3>1. (p - 1) - 1 \in 0 .. Len(t.entries) /\ (p - 1) - 1 < L /\ ((p - 1) - 1) + 1 = p - 1
      BY <1>9, <2>1
    <3> QED BY <1>11, <1>12, <3>1
  <2>3. v = [t EXCEPT !.entries = e]
    <3>1. Min(hits) # 0
      BY <1>9, <1>12, <1>17
    <3> HIDE DEF q
    <3> QED BY <1>7, <2>2, <3>1
  <2> HIDE DEF q
  <2>4. e \in Seq(Entry) /\ Len(e) = Len(t.entries)
    <3>1. q + 1 \in DOMAIN t.entries /\ t.entries[q + 1] \in Entry
      BY <1>1, <2>1 DEF Idx
    <3>2. [t.entries[q + 1] EXCEPT !.next = next] \in Entry
      BY <1>2, <3>1 DEF Entry
    <3> QED BY <1>1, <3>1, <3>2
  <2>5. \A j \in Idx(t) : EntryOf(e, j) = IF j = q THEN [EntryOf(t.entries, j) EXCEPT !.next = next]
                                          ELSE EntryOf(t.entries, j)
    <3>1. \A j \in Idx(t) : j + 1 \in DOMAIN t.entries /\ (j + 1 = q + 1 => j = q)
      BY <1>1, <2>1 DEF Idx
    <3> QED BY <3>1 DEF EntryOf
  <2> HIDE DEF e
  <2>6. /\ v.entries = e /\ v.buckets = t.buckets /\ v.delete_list = t.delete_list
        /\ v.num_deletes = t.num_deletes /\ IsTable(v)
    BY <1>1, <2>3, <2>4 DEF IsTable
  <2>7. \A j \in Idx(t) : EntryOf(t.entries, j) \in Entry
    BY <1>1, TableFacts
  <2>8. /\ \A j \in Idx(t) : KeyAt(v, j) = KeyAt(t, j) /\ HashAt(v, j) = HashAt(t, j)
        /\ EntryOf(e, q).next = next
        /\ \A j \in Idx(t) \ {q} : EntryOf(e, j).next = EntryOf(t.entries, j).next
    BY <2>1, <2>5, <2>6, <2>7 DEF KeyAt, HashAt, Entry
  <2>9. \A j \in Deleted(t) : j \in Idx(t) \ {q}
    BY <2>1 DEF Deleted, Live
  <2>10. SameEntries(t, v) /\ NumBuckets(v) = NumBuckets(t)
    BY <2>4, <2>6, <2>8, <2>9 DEF SameEntries, NextAt, NumBuckets
  <2>11. \A d : InBucket(v, d) = InBucket(t, d)
    <3>1. Live(v) = Live(t) /\ \A j \in Live(t) : HashAt(v, j) = HashAt(t, j)
      BY <2>8, <2>10, SameSets DEF Live
    <3> QED BY <2>10, <3>1 DEF InBucket, BucketOf
  <2>12. Chained(e, t.buckets[b], B \ {i})
    <3>1. EntryOf(e, c[p - 1]).next = EntryOf(t.entries, c[p]).next
      BY <1>10, <2>8 DEF q, next, NextAt
    <3>2. \A j \in B \ {c[p - 1], c[p]} : EntryOf(e, j).next = EntryOf(t.entries, j).next
      BY <1>5, <2>8 DEF q
    <3>3. Chained(e, t.buckets[b], B \ {c[p]})
      BY ONLY <1>8, <2>1, <3>1, <3>2, LaterPulled, Zenon
    <3> QED BY <1>10, <3>3
  <2>13. ASSUME NEW d \in 1 .. NumBuckets(t)
         PROVE  Chained(v.entries, v.buckets[d], InBucket(v, d) \cap (Live(t) \ {i}))
    <3>1. CASE d = b
      BY <1>14, <2>6, <2>11, <2>12, <3>1
    <3>2. CASE d # b
      <4>1. \A j \in InBucket(t, d) : j \in Idx(t) \ {q}
        BY <2>1, <3>2 DEF InBucket, Live
      <4>2. Chained(e, t.buckets[d], InBucket(t, d))
        BY <1>15, <2>8, <2>13, <4>1, ListKept
      <4> QED BY <1>13, <2>6, <2>11, <3>2, <4>2
    <3> QED BY <3>1, <3>2
  <2> QED BY <2>6, <2>10, <2>13 DEF BucketsLinked, v
<1> QED
  BY <1>16, <1>17

(* jr_HTableDeleteIndex: the entry goes from its bucket to the front of    *)
(* the list of deleted entries.                                            *)
LEMMA IndexDeleted ==
  ASSUME NEW t, TableOk(t), NEW i \in Live(t)
  PROVE  LET u == [AddToDeleteList(DeleteFromBucketList(t, i), i) EXCEPT !.entries[i + 1].hash = End] IN
         /\ TableOk(u) /\ Live(u) = Live(t) \ {i}
         /\ \A j \in Live(u) : KeyAt(u, j) = KeyAt(t, j)
<1> DEFINE v == DeleteFromBucketList(t, i)
           w == AddToDeleteList(v, i)
           u == [w EXCEPT !.entries[i + 1].hash = End]
           e == [v.entries EXCEPT ![i + 1] = [@ EXCEPT !.next = v.delete_list, !.hash = End]]
<1>1. /\ IsTable(v) /\ SameEntries(t, v) /\ NumBuckets(v) = NumBuckets(t)
      /\ BucketsLinked(v, Live(t) \ {i})
  BY BucketLeft
<1>2. Idx(v) = Idx(t) /\ Live(v) = Live(t) /\ Deleted(v) = Deleted(t)
  BY <1>1, SameSets
<1>3. Sound(v)
  BY <1>1, SoundKept DEF TableOk
<1>4. /\ v.entries \in Seq(Entry) /\ Len(v.entries) \in Nat /\ v.delete_list \in Int
      /\ v.num_deletes \in Nat /\ NumBuckets(v) \in Nat
      /\ i \in Idx(v) /\ i \in Int /\ i \notin Deleted(v) /\ IsFiniteSet(Deleted(v))
  <2>1. /\ Len(v.entries) \in Nat /\ NumBuckets(v) \in Nat /\ IsFiniteSet(Deleted(v))
    BY <1>1, TableFacts
  <2>2. i \in Idx(v) /\ i \notin Deleted(v) /\ i \in Int
    BY <1>2 DEF Live, Deleted, Idx
  <2> HIDE DEF v
  <2>3. /\ v.entries \in Seq(Entry) /\ v.delete_list \in Int /\ v.num_deletes \in Nat
    BY <1>1 DEF IsTable
  <2> QED BY <2>1, <2>2, <2>3
<1> HIDE DEF v
<1>5. i + 1 \in DOMAIN v.entries /\ v.entries[i + 1] \in Entry
  BY <1>4 DEF Idx
<1>6. e \in Seq(Entry) /\ Len(e) = Len(v.entries)
  <2>1. [v.entries[i + 1] EXCEPT !.next = v.delete_list, !.hash = End] \in Entry
    BY <1>4, <1>5 DEF Entry
  <2> QED BY <1>4, <1>5, <2>1
<1>7. u = [v EXCEPT !.entries = e, !.delete_list = i, !.num_deletes = @ + 1]
  <2>1. w = [v EXCEPT !.entries = [v.entries EXCEPT ![i + 1] = [@ EXCEPT !.next = v.delete_list]],
                      !.delete_list = i, !.num_deletes = @ + 1]
    BY DEF AddToDeleteList
  <2>2. w.entries = [v.entries EXCEPT ![i + 1] = [@ EXCEPT !.next = v.delete_list]]
    BY <1>1, <2>1 DEF IsTable
  <2>3. [w.entries EXCEPT ![i + 1] = [@ EXCEPT !.hash = End]] = e
    BY <1>4, <1>5, <2>2
  <2> HIDE DEF w, e
  <2>4. u = [w EXCEPT !.entries = e]
    BY <2>3
  <2> QED BY <1>1, <2>1, <2>4 DEF IsTable
<1>8. \A j \in Idx(v) : EntryOf(e, j) =
        IF j = i THEN [EntryOf(v.entries, j) EXCEPT !.next = v.delete_list, !.hash = End]
        ELSE EntryOf(v.entries, j)
  <2>1. \A j \in Idx(v) : j + 1 \in DOMAIN v.entries /\ (j + 1 = i + 1 => j = i)
    BY <1>4 DEF Idx
  <2> QED BY <2>1 DEF EntryOf
<1> HIDE DEF e, u
<1>9. /\ u.entries = e /\ u.buckets = v.buckets /\ u.delete_list = i
      /\ u.num_deletes = v.num_deletes + 1 /\ IsTable(u)
  <2>1. v.num_deletes + 1 \in Nat
    BY <1>4
  <2>2. u = [v EXCEPT !.entries = e, !.delete_list = i, !.num_deletes = v.num_deletes + 1]
    BY <1>7
  <2> QED BY <1>1, <1>4, <1>6, <2>1, <2>2 DEF IsTable
<1>10. \A j \in Idx(v) : EntryOf(v.entries, j) \in Entry
  BY <1>1, TableFacts
<1>11. /\ HashAt(u, i) = End /\ NextAt(u, i) = v.delete_list /\ KeyAt(u, i) = KeyAt(v, i)
       /\ \A j \in Idx(v) \ {i} : EntryOf(u.entries, j) = EntryOf(v.entries, j)
  BY <1>4, <1>8, <1>9, <1>10 DEF KeyAt, HashAt, NextAt, Entry
<1>12. Idx(u) = Idx(v)
  BY <1>6, <1>9 DEF Idx
<1>13. Live(u) = Live(v) \ {i} /\ Deleted(u) = Deleted(v) \cup {i}
  <2>1. \A j \in Idx(v) \ {i} : HashAt(u, j) = HashAt(v, j)
    BY <1>11 DEF HashAt
  <2> QED BY <1>4, <1>11, <1>12, <2>1 DEF Live, Deleted
<1>14. \A j \in Live(u) : j \in Idx(v) \ {i}
  BY <1>12, <1>13 DEF Live
<1>15. Chained(u.entries, u.delete_list, Deleted(u))
  <2>1. Chained(v.entries, v.delete_list, Deleted(v))
    BY <1>3 DEF Sound
  <2>2. EntryOf(u.entries, i).next = v.delete_list
    BY <1>11 DEF NextAt
  <2>3. \A j \in Deleted(v) : EntryOf(u.entries, j).next = EntryOf(v.entries, j).next
    BY <1>4, <1>11 DEF Deleted
  <2>4. i \notin Deleted(v)
    BY <1>4
  <2>5. Chained(u.entries, i, Deleted(v) \cup {i})
    BY ONLY <2>1, <2>2, <2>3, <2>4, ListPushed, Zenon
  <2> QED BY <1>9, <1>13, <2>5
<1>16. u.num_deletes = Cardinality(Deleted(u))
  <2>1. v.num_deletes = Cardinality(Deleted(v))
    BY <1>3 DEF Sound
  <2>2. IsFiniteSet(Deleted(v)) /\ i \notin Deleted(v)
    BY <1>4
  <2>3. Cardinality(Deleted(v) \cup {i}) = Cardinality(Deleted(v)) + 1
    BY <2>2, FS_AddElement
  <2> QED BY <1>9, <1>13, <2>1, <2>3
<1>17. /\ \A j \in Live(u) : KeyAt(u, j) = KeyAt(v, j) /\ HashAt(u, j) = HashAt(v, j)
       /\ Live(u) \subseteq Live(v)
  BY <1>11, <1>13, <1>14 DEF KeyAt, HashAt
<1>18. Sound(u)
  BY <1>3, <1>9, <1>15, <1>16, <1>17 DEF Sound
<1>19. BucketsLinked(u, Live(u))
  <2> SUFFICES ASSUME NEW b \in 1 .. NumBuckets(v)
               PROVE  Chained(u.entries, v.buckets[b], InBucket(u, b) \cap Live(u))
    BY <1>9 DEF BucketsLinked, NumBuckets
  <2>1. InBucket(u, b) \cap Live(u) = InBucket(v, b) \cap (Live(t) \ {i})
    BY <1>2, <1>9, <1>13, <1>17 DEF InBucket, BucketOf, NumBuckets
  <2>2. Chained(v.entries, v.buckets[b], InBucket(v, b) \cap (Live(t) \ {i}))
    BY <1>1 DEF BucketsLinked
  <2>3. \A j \in InBucket(v, b) \cap (Live(t) \ {i}) :
          EntryOf(u.entries, j).next = EntryOf(v.entries, j).next
    BY <1>2, <1>11, <1>13, <1>14
  <2> QED BY <2>1, <2>2, <2>3, ListKept
<1>20. NumBuckets(u) = NumBuckets(t) /\ Len(u.entries) = Len(t.entries)
  BY <1>1, <1>6, <1>9 DEF NumBuckets, SameEntries
<1>21. TableOk(u)
  BY <1>18, <1>19, <1>20 DEF TableOk
<1>22. \A j \in Live(u) : KeyAt(u, j) = KeyAt(t, j)
  BY <1>1, <1>2, <1>14, <1>17 DEF SameEntries
<1> QED
  BY <1>2, <1>13, <1>21, <1>22 DEF u, v

-----------------------------------------------------------------------------
(* The steps.                                                              *)

IInv == TableOk(Table)

LEMMA TableBecomes ==
  ASSUME NEW u, IsTable(u), Become(u)
  PROVE  Table' = u
  BY DEF Become, Table, IsTable

LEMMA EmptyOk ==
  ASSUME NEW t, IsTable(t), t.entries = << >>, t.delete_list = End, t.num_deletes = 0,
         NumBuckets(t) # 1, \A b \in 1 .. NumBuckets(t) : t.buckets[b] = End
  PROVE  TableOk(t) /\ Live(t) = {}
<1>1. Len(t.entries) = 0
  OBVIOUS
<1>2. Idx(t) = {}
  BY <1>1 DEF Idx
<1>3. Live(t) = {} /\ Deleted(t) = {}
  BY <1>2 DEF Live, Deleted
<1>4. Cardinality(Deleted(t)) = 0
  BY <1>3, FS_EmptySet
<1>5. Chained(t.entries, t.delete_list, Deleted(t))
  BY <1>3, NothingChained
<1>6. Sound(t)
  BY <1>3, <1>4, <1>5 DEF Sound
<1>7. BucketsLinked(t, Live(t))
  <2>1. \A b \in 1 .. NumBuckets(t) : InBucket(t, b) \cap Live(t) = {}
    BY <1>3
  <2> QED BY <2>1, NothingChained DEF BucketsLinked
<1> QED
  BY <1>1, <1>3, <1>6, <1>7 DEF TableOk

LEMMA InitOk == Init => IInv
<1> SUFFICES ASSUME Init PROVE IInv
  OBVIOUS
<1>1. IsTable(Table)
  BY DEF Init, Table, IsTable, End
<1>2. NumBuckets(Table) = 0
  BY DEF Init, Table, NumBuckets
<1>3. Table.entries = << >> /\ Table.delete_list = End /\ Table.num_deletes = 0
  BY DEF Init, Table
<1> QED
  BY <1>1, <1>2, <1>3, EmptyOk DEF IInv

(* What each operation does to the live entries.                           *)
LEMMA SetStep ==
  ASSUME IInv, NEW k \in Keys, SetNewElement(k)
  PROVE  /\ TableOk(Table')
         /\ \E i : IsNewEntry(Table, Table', i, k)
         /\ \A j \in Live(Table) : KeyAt(Table, j) # k
<1> DEFINE new == AllocateNewIndex(Table, k)
           u   == IncreaseNumBuckets(AddToBucketList(new.table, new.index))
<1>1. FindIndex(Table, k) = End /\ Become(u)
  BY DEF SetNewElement
<1>2. \A j \in Live(Table) : KeyAt(Table, j) # k
  <2>1. \A j \in Live(Table) : j # End
    BY DEF Live, Idx, End
  <2> QED BY <1>1, <2>1, FindIndexFinds DEF IInv
<1>3. TableOk(u) /\ IsNewEntry(Table, u, new.index, k)
  BY <1>2, ElementSet DEF IInv
<1> HIDE DEF u
<1>4. Table' = u
  BY <1>1, <1>3, TableBecomes DEF TableOk, Sound
<1> QED
  BY <1>2, <1>3, <1>4

LEMMA DeleteStep ==
  ASSUME IInv, NEW i \in Indices, DeleteIndex(i)
  PROVE  /\ TableOk(Table') /\ i \in Live(Table) /\ Live(Table') = Live(Table) \ {i}
         /\ \A j \in Live(Table') : KeyAt(Table', j) = KeyAt(Table, j)
<1> DEFINE u == [AddToDeleteList(DeleteFromBucketList(Table, i), i) EXCEPT !.entries[i + 1].hash = End]
<1>1. i \in Live(Table) /\ Become(u)
  BY DEF DeleteIndex, Live, Idx, Indices, HashAt, Table
<1>2. /\ TableOk(u) /\ Live(u) = Live(Table) \ {i}
      /\ \A j \in Live(u) : KeyAt(u, j) = KeyAt(Table, j)
  BY <1>1, IndexDeleted DEF IInv
<1> HIDE DEF u
<1>3. Table' = u
  BY <1>1, <1>2, TableBecomes DEF TableOk, Sound
<1> QED
  BY <1>1, <1>2, <1>3

LEMMA EmptyStep ==
  ASSUME IInv, Empty
  PROVE  TableOk(Table') /\ Live(Table') = {}
<1>1. /\ IsTable(Table) /\ buckets \in Seq(Int) /\ NumBuckets(Table) # 1
      /\ NumBuckets(Table) = Len(buckets)
  BY DEF IInv, TableOk, Sound, IsTable, Table, NumBuckets
<1>2. buckets' \in Seq(Int) /\ Len(buckets') = Len(buckets)
      /\ \A b \in 1 .. Len(buckets) : buckets'[b] = End
  <2>1. DOMAIN buckets = 1 .. Len(buckets) /\ Len(buckets) \in Nat
    BY <1>1
  <2>2. buckets' = [b \in 1 .. Len(buckets) |-> End]
    BY <2>1 DEF Empty
  <2> QED BY <2>1, <2>2 DEF End
<1>3. /\ Table'.entries = << >> /\ Table'.delete_list = End /\ Table'.num_deletes = 0
      /\ Table'.buckets = buckets'
  BY DEF Empty, Table
<1>4. IsTable(Table')
  BY <1>2 DEF Empty, Table, IsTable, End
<1>5. NumBuckets(Table') = Len(buckets)
  BY <1>2, <1>3 DEF NumBuckets
<1> QED
  BY <1>1, <1>2, <1>3, <1>4, <1>5, EmptyOk

LEMMA FoundIsIndex ==
  ASSUME IInv, NEW k \in Keys, FindIndex(Table, k) # End
  PROVE  FindIndex(Table, k) \in Indices
  BY FindIndexFinds DEF IInv, Live, Idx, Indices, Table

LEMMA NextOk == IInv /\ [Next]_vars => IInv'
<1> SUFFICES ASSUME IInv, [Next]_vars PROVE TableOk(Table')
  BY DEF IInv
<1>1. ASSUME NEW k \in Keys, SetNewElement(k) PROVE TableOk(Table')
  BY <1>1, SetStep
<1>2. ASSUME NEW k \in Keys, DeleteElement(k) PROVE TableOk(Table')
  BY <1>2, FoundIsIndex, DeleteStep DEF DeleteElement
<1>3. ASSUME NEW i \in Indices, DeleteIndex(i) PROVE TableOk(Table')
  BY <1>3, DeleteStep
<1>4. CASE Empty
  BY <1>4, EmptyStep
<1>5. CASE UNCHANGED vars
  <2>1. Table' = Table
    BY <1>5 DEF vars, Table
  <2> QED BY <2>1 DEF IInv
<1> QED
  BY <1>1, <1>2, <1>3, <1>4, <1>5 DEF Next

(* Every entry is in exactly one list, and every list ends.                *)
LEMMA LinkedWell == IInv => WellLinked
<1> SUFFICES ASSUME IInv PROVE WellLinked
  OBVIOUS
<1> DEFINE t == Table
<1>1. /\ Sound(t) /\ BucketsLinked(t, Live(t)) /\ IsTable(t)
      /\ Len(t.entries) \in Nat /\ Deleted(t) \subseteq Idx(t)
      /\ Chained(t.entries, t.delete_list, Deleted(t))
      /\ t.num_deletes = Cardinality(Deleted(t))
  BY TableFacts DEF IInv, TableOk, Sound, Deleted
<1>2. /\ t.entries = entries /\ t.buckets = buckets /\ t.delete_list = delete_list
      /\ t.num_deletes = num_deletes
  BY DEF Table
<1>3. /\ List(t, delete_list)[Len(entries)] = End
      /\ Members(t, delete_list) = Deleted(t)
  BY <1>1, <1>2, ListMembers
<1>4. DOMAIN buckets = 1 .. NumBuckets(t)
  BY <1>1, <1>2 DEF IsTable, NumBuckets
<1>5. \A b \in DOMAIN buckets : /\ List(t, buckets[b])[Len(entries)] = End
                                /\ Members(t, buckets[b]) = InBucket(t, b)
  BY <1>1, <1>2, <1>4, BucketList
<1>6. Idx(t) = Indices
  BY <1>2 DEF Idx, Indices
<1>7. ASSUME NEW i \in Indices
      PROVE  /\ EntryOf(entries, i).hash = End <=> i \in Deleted(t)
             /\ \A b \in DOMAIN buckets :
                  i \in InBucket(t, b) <=> /\ EntryOf(entries, i).hash # End
                                           /\ b = BucketOf(t, EntryOf(entries, i).hash) + 1
  <2>1. HashAt(t, i) = EntryOf(entries, i).hash
    BY <1>2 DEF HashAt
  <2> QED BY <1>6, <1>7, <2>1 DEF Deleted, InBucket, Live
<1> HIDE DEF t
<1> QED
  BY <1>1, <1>2, <1>3, <1>5, <1>7 DEF WellLinked, t

(* jr_HTable chains an entry, live or deleted, through one field: every    *)
(* entry of the array is in exactly one list, the one it belongs to, the   *)
(* deleted ones are num_deletes, and no list runs in circles, for every    *)
(* set of keys, hash function and first number of buckets.                 *)
THEOREM ListsStayLinked == Spec => []WellLinked
<1> QED
  BY InitOk, NextOk, LinkedWell, PTL DEF Spec
-----------------------------------------------------------------------------
(* The refinement of the table of keys.                                    *)

KeysOf(t) == {KeyAt(t, i) : i \in Live(t)}

LEMMA FoundKeys ==
  ASSUME NEW t, TableOk(t)
  PROVE  /\ {k \in Keys : FindIndex(t, k) # End} = KeysOf(t)
         /\ \A i \in Live(t) : FindIndex(t, KeyAt(t, i)) = i
<1>1. \A i \in Live(t) : KeyAt(t, i) \in Keys /\ i # End
  BY TableFacts DEF TableOk, Sound, Live, Idx, End
<1>2. \A i \in Live(t) : FindIndex(t, KeyAt(t, i)) = i
  BY <1>1, FindIndexFinds
<1>3. KeysOf(t) \subseteq {k \in Keys : FindIndex(t, k) # End}
  BY <1>1, <1>2 DEF KeysOf
<1>4. {k \in Keys : FindIndex(t, k) # End} \subseteq KeysOf(t)
  BY FindIndexFinds DEF KeysOf
<1> QED
  BY <1>2, <1>3, <1>4

FoundIn(t) == [k \in {k \in Keys : FindIndex(t, k) # End} |-> FindIndex(t, k)]

LEMMA FoundTable == Found = FoundIn(Table) /\ Found' = FoundIn(Table')
  BY DEF Found, FoundIn

(* A new entry is a key added, an entry less a key deleted.                *)
LEMMA KeyAdded ==
  ASSUME NEW t, TableOk(t), NEW u, TableOk(u), NEW k \in Keys, NEW i, IsNewEntry(t, u, i, k),
         \A j \in Live(t) : KeyAt(t, j) # k
  PROVE  Promise!Added(FoundIn(t), FoundIn(u), k)
<1> DEFINE f == FoundIn(t)
           g == FoundIn(u)
<1>1. /\ DOMAIN f = KeysOf(t) /\ DOMAIN g = KeysOf(u)
      /\ \A j \in Live(t) : f[KeyAt(t, j)] = j
      /\ \A j \in Live(u) : g[KeyAt(u, j)] = j
  BY FoundKeys DEF FoundIn, KeysOf
<1>2. f = [x \in DOMAIN f |-> f[x]]
  BY DEF FoundIn
<1> HIDE DEF f, g
<1>3. KeysOf(u) = KeysOf(t) \cup {k} /\ k \notin KeysOf(t)
  BY DEF IsNewEntry, KeysOf
<1>4. g[k] = i
  BY <1>1 DEF IsNewEntry
<1>5. \A x \in DOMAIN f : f[x] = g[x] /\ f[x] \in Live(t)
  BY <1>1 DEF IsNewEntry, KeysOf
<1>6. i \in Nat /\ i \notin Range(f)
  BY <1>5 DEF IsNewEntry, Idx, Range, Promise!Range
<1>7. f = Promise!Restrict(g, DOMAIN f)
  BY <1>2, <1>5 DEF Promise!Restrict
<1> QED
  BY <1>1, <1>3, <1>4, <1>6, <1>7 DEF Promise!Added, Promise!Range, Range, f, g

LEMMA KeyDeleted ==
  ASSUME NEW t, TableOk(t), NEW u, TableOk(u), NEW i \in Live(t), Live(u) = Live(t) \ {i},
         \A j \in Live(u) : KeyAt(u, j) = KeyAt(t, j)
  PROVE  Promise!Deleted(FoundIn(t), FoundIn(u), KeyAt(t, i))
<1> DEFINE f == FoundIn(t)
           g == FoundIn(u)
           k == KeyAt(t, i)
<1>1. /\ DOMAIN f = KeysOf(t) /\ DOMAIN g = KeysOf(u)
      /\ \A j \in Live(t) : f[KeyAt(t, j)] = j
      /\ \A j \in Live(u) : g[KeyAt(u, j)] = j
  BY FoundKeys DEF FoundIn, KeysOf
<1>2. g = [x \in DOMAIN g |-> g[x]]
  BY DEF FoundIn
<1> HIDE DEF f, g
<1>3. \A j \in Live(t) : KeyAt(t, j) = k => j = i
  BY DEF TableOk, Sound
<1>4. KeysOf(u) = KeysOf(t) \ {k} /\ k \in KeysOf(t)
  BY <1>3 DEF KeysOf
<1>5. \A x \in DOMAIN g : g[x] = f[x]
  BY <1>1 DEF KeysOf
<1>6. g = Promise!Restrict(f, DOMAIN f \ {k})
  BY <1>1, <1>2, <1>4, <1>5 DEF Promise!Restrict
<1> QED
  BY <1>1, <1>4, <1>6 DEF Promise!Deleted, f, g

LEMMA StepsPromised == IInv /\ [Next]_vars => [Promise!Next]_Found
<1> SUFFICES ASSUME IInv, [Next]_vars PROVE [Promise!Next]_Found
  OBVIOUS
<1>0. Found = FoundIn(Table) /\ Found' = FoundIn(Table') /\ TableOk(Table)
  BY FoundTable DEF IInv
<1>1. ASSUME NEW k \in Keys, SetNewElement(k) PROVE Promise!Next
  BY <1>0, <1>1, SetStep, KeyAdded DEF Promise!Next
<1>2. ASSUME NEW i \in Indices, DeleteIndex(i) PROVE Promise!Next
  <2>1. KeyAt(Table, i) \in Keys
    BY <1>0, <1>2, DeleteStep, TableFacts DEF TableOk, Sound, Live
  <2>2. Promise!Deleted(FoundIn(Table), FoundIn(Table'), KeyAt(Table, i))
    BY <1>0, <1>2, DeleteStep, KeyDeleted
  <2> QED BY <1>0, <2>1, <2>2 DEF Promise!Next
<1>3. ASSUME NEW k \in Keys, DeleteElement(k) PROVE Promise!Next
  BY <1>2, <1>3, FoundIsIndex DEF DeleteElement
<1>4. CASE Empty
  <2>1. KeysOf(Table') = {} /\ TableOk(Table')
    BY <1>4, EmptyStep DEF KeysOf
  <2>2. DOMAIN FoundIn(Table') = {}
    BY <2>1, FoundKeys DEF FoundIn
  <2> QED BY <1>0, <2>2 DEF Promise!Next
<1>5. CASE UNCHANGED vars
  <2>1. Table' = Table
    BY <1>5 DEF vars, Table
  <2> QED BY <1>0, <2>1
<1> QED
  BY <1>1, <1>2, <1>3, <1>4, <1>5 DEF Next

LEMMA InitPromised == Init => Promise!Init
<1> SUFFICES ASSUME Init PROVE DOMAIN Found = {}
  BY DEF Promise!Init
<1>1. NumBuckets(Table) = 0
  BY DEF Init, Table, NumBuckets
<1>2. \A k \in Keys : FindIndex(Table, k) = End
  BY <1>1 DEF FindIndex
<1> QED
  BY <1>2 DEF Found

(* What callers of jr_HTable see is a table of keys with stable indices:   *)
(* a step of the table adds one key with an index no other key has,        *)
(* deletes one, empties it, or changes nothing that can be found.          *)
THEOREM TableImplementsKeys == Spec => ImplementsKeyTable
<1> QED
  BY InitOk, NextOk, InitPromised, StepsPromised, PTL DEF Spec, ImplementsKeyTable, Promise!Spec
=============================================================================
