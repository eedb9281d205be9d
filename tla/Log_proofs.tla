----------------------------- MODULE Log_proofs -----------------------------
(***************************************************************************)
(* Proofs about the transaction log.                                       *)
(*                                                                         *)
(* What it promises, for every set of values and every bound on the length *)
(* of the log: the conjunction of the four invariants of LogSpec is        *)
(* inductive; none of them is without the others.                          *)
(*                                                                         *)
(* And its format on file, for every length of a header and every size of  *)
(* a block: what is written at the end of a log is read there, what was    *)
(* written before is read as before, so the log is read as it was written. *)
(***************************************************************************)
EXTENDS LogFormat, LogSpec, SequenceTheorems, WellFoundedInduction, TLAPS

----------------------------------------------------------------------------
(* The promise.                                                            *)

IInv == TypeOK /\ DurableIsWhole /\ Bracketed /\ MarksMatch

----------------------------------------------------------------------------
(* What the operators on items and marks do.                               *)

\* An item that may be added has the form of an item.
LEMMA NewItemType ==
  ASSUME TypeOK, NEW v \in Addable
  PROVE  NewItem(v) \in ItemSet
<1>1. Len(marks) \in Nat /\ (marks # << >> => Len(marks) # 0)
  BY DEF TypeOK
<1>2. CASE v = "commit"
  BY <1>1, <1>2, LogSpecAssumption DEF Addable, NewItem, Item, ItemSet
<1>3. CASE v # "commit"
  BY <1>1, <1>3 DEF Addable, NewItem, Item, ItemSet
<1> QED
  BY <1>2, <1>3

\* The first n elements of a sequence.
LEMMA Prefix ==
  ASSUME NEW S, NEW s \in Seq(S), NEW n \in 0..Len(s)
  PROVE  /\ SubSeq(s, 1, n) \in Seq(S)
         /\ Len(SubSeq(s, 1, n)) = n
         /\ \A i \in 1..n : SubSeq(s, 1, n)[i] = s[i]
  OBVIOUS

\* Keeping the first n items keeps each of them.
LEMMA KeepItems ==
  ASSUME TypeOK, NEW n \in 0..Len(items)
  PROVE  /\ Keep(n) \in Seq(ItemSet)
         /\ Len(Keep(n)) = n
         /\ \A i \in 1..n : Keep(n)[i] = items[i]
  BY Prefix DEF TypeOK, Keep

\* The same for the transactions around the innermost one.
LEMMA OuterMarks ==
  ASSUME TypeOK, marks # << >>
  PROVE  /\ Outer \in Seq(Nat)
         /\ Len(Outer) = Len(marks) - 1
         /\ \A i \in 1..Len(marks) - 1 : Outer[i] = marks[i]
         /\ Len(marks) \in DOMAIN marks
<1>1. Len(marks) \in Nat \ {0} /\ marks \in Seq(Nat)
  BY DEF TypeOK
<1>2. Len(marks) - 1 \in 0..Len(marks)
  BY <1>1
<1>3. Len(marks) \in DOMAIN marks
  BY <1>1
<1> QED
  BY <1>1, <1>2, <1>3, Prefix DEF Outer

\* Adding an item leaves the others where they are.
LEMMA AppendItem ==
  ASSUME TypeOK, NEW x \in ItemSet
  PROVE  /\ Append(items, x) \in Seq(ItemSet)
         /\ Len(Append(items, x)) = Len(items) + 1
         /\ \A i \in 1..Len(items) : Append(items, x)[i] = items[i]
         /\ Append(items, x)[Len(items) + 1] = x
  BY DEF TypeOK

\* An item added to a log in use leaves the nesting of the log as it is, and
\* opens or closes one transaction at most.
LEMMA GrowBracketed ==
  ASSUME IInv, state = "up", NEW v \in Addable, items' = Append(items, NewItem(v))
  PROVE  /\ items' \in Seq(ItemSet)
         /\ Len(items') = Len(items) + 1
         /\ \A i \in 1..Len(items) : items'[i] = items[i]
         /\ \A n \in 0..Len(items) : DepthAt(n)' = DepthAt(n)
         /\ DepthAt(Len(items))' = NewItem(v).depth
         /\ Bracketed'
<1> USE DEF IInv
<1>1. NewItem(v) \in ItemSet
  BY NewItemType
<1>2. /\ items' \in Seq(ItemSet)
      /\ Len(items') = Len(items) + 1
      /\ \A i \in 1..Len(items) : items'[i] = items[i]
      /\ items'[Len(items) + 1] = NewItem(v)
  BY <1>1, AppendItem
<1>3. Len(items) \in Nat
  BY DEF TypeOK
<1>4. \A n \in 0..Len(items) : DepthAt(n)' = DepthAt(n)
  BY <1>2, <1>3 DEF DepthAt
<1>5. DepthAt(Len(items))' = NewItem(v).depth
  BY <1>2, <1>3 DEF DepthAt
<1>6. ASSUME NEW i \in DOMAIN items'
      PROVE  items'[i].depth = CASE items'[i].val = "begin"  -> DepthAt(i - 1)' + 1
                                 [] items'[i].val = "commit" -> DepthAt(i - 1)' - 1
                                 [] OTHER                    -> DepthAt(i - 1)'
  <2>1. i \in 1..Len(items) + 1 /\ i - 1 \in 0..Len(items)
    BY <1>2, <1>3
  <2>2. CASE i <= Len(items)
    BY <2>1, <2>2, <1>2, <1>3, <1>4 DEF Bracketed, TypeOK
  <2>3. CASE i = Len(items) + 1
    <3>1. DepthAt(i - 1)' = Len(marks)
      BY <2>1, <2>3, <1>3, <1>4 DEF MarksMatch
    <3>2. items'[i].val = v
      BY <2>3, <1>2, LogSpecAssumption DEF NewItem, Item
    <3>3. QED
      BY <2>3, <3>1, <3>2, <1>2 DEF NewItem, Item
  <2>4. QED
    BY <2>1, <2>2, <2>3, <1>3
<1>7. Bracketed'
  BY <1>6 DEF Bracketed
<1> QED
  BY <1>2, <1>4, <1>5, <1>7

\* Cutting the log leaves the nesting of what remains as it is.
LEMMA CutBracketed ==
  ASSUME IInv, NEW n \in 0..Len(items), items' = Keep(n)
  PROVE  /\ items' \in Seq(ItemSet)
         /\ Len(items') = n
         /\ \A i \in 1..n : items'[i] = items[i]
         /\ \A m \in 0..n : DepthAt(m)' = DepthAt(m)
         /\ Bracketed'
<1> USE DEF IInv
<1>1. /\ items' \in Seq(ItemSet)
      /\ Len(items') = n
      /\ \A i \in 1..n : items'[i] = items[i]
  BY KeepItems
<1>2. Len(items) \in Nat /\ n \in Nat
  BY DEF TypeOK
<1>3. \A m \in 0..n : DepthAt(m)' = DepthAt(m)
  BY <1>1, <1>2 DEF DepthAt
<1>4. ASSUME NEW i \in DOMAIN items'
      PROVE  /\ i \in DOMAIN items
             /\ items'[i] = items[i]
             /\ DepthAt(i - 1)' = DepthAt(i - 1)
  <2>1. i \in 1..n /\ i - 1 \in 0..n
    BY <1>1, <1>2
  <2> QED
    BY <2>1, <1>1, <1>2, <1>3 DEF TypeOK
<1>5. Bracketed'
  BY <1>4 DEF Bracketed
<1> QED
  BY <1>1, <1>3, <1>5
----------------------------------------------------------------------------
(* The inductive invariant.                                                *)

\* The invariant, spelled out over the positions of items and marks.
LEMMA Positions ==
  ASSUME IInv
  PROVE  /\ Len(items) \in Nat /\ DOMAIN items = 1..Len(items)
         /\ Len(marks) \in Nat /\ DOMAIN marks = 1..Len(marks)
         /\ durable \in 0..Len(items)
         /\ \A i \in 1..Len(marks) :
              /\ marks[i] \in 0..Len(items) /\ marks[i] < Len(items)
              /\ durable <= marks[i]
              /\ DepthAt(marks[i]) = i - 1
         /\ \A i, j \in 1..Len(marks) : i < j => marks[i] < marks[j]
<1>1. /\ Len(items) \in Nat /\ DOMAIN items = 1..Len(items)
      /\ Len(marks) \in Nat /\ DOMAIN marks = 1..Len(marks)
      /\ durable \in Nat
      /\ \A i \in 1..Len(marks) : marks[i] \in Nat
  BY DEF IInv, TypeOK
<1>2. durable \in 0..Len(items)
  BY <1>1 DEF IInv, DurableIsWhole
<1>3. ASSUME NEW i \in 1..Len(marks)
      PROVE  /\ marks[i] \in 0..Len(items) /\ marks[i] < Len(items)
             /\ durable <= marks[i]
             /\ DepthAt(marks[i]) = i - 1
  BY <1>1 DEF IInv, DurableIsWhole, MarksMatch
<1>4. \A i, j \in 1..Len(marks) : i < j => marks[i] < marks[j]
  BY <1>1 DEF IInv, MarksMatch
<1> QED
  BY <1>1, <1>2, <1>3, <1>4

\* Leaving the innermost transaction keeps the marks of the others.
LEMMA OuterPositions ==
  ASSUME IInv, marks # << >>, marks' = Outer
  PROVE  /\ marks' \in Seq(Nat)
         /\ Len(marks') = Len(marks) - 1
         /\ \A i \in DOMAIN marks' :
              /\ i \in 1..Len(marks) /\ i < Len(marks)
              /\ marks'[i] = marks[i]
              /\ durable <= marks'[i]
         /\ \A i, j \in DOMAIN marks' : i < j => marks'[i] < marks'[j]
<1>1. Len(marks) \in Nat \ {0}
  BY Positions, OuterMarks DEF IInv
<1>2. marks' \in Seq(Nat) /\ Len(marks') = Len(marks) - 1
  BY OuterMarks DEF IInv
<1>3. DOMAIN marks' = 1..Len(marks) - 1
  BY <1>1, <1>2
<1>4. ASSUME NEW i \in DOMAIN marks'
      PROVE  /\ i \in 1..Len(marks) /\ i < Len(marks)
             /\ marks'[i] = marks[i]
             /\ durable <= marks'[i]
  <2>1. i \in 1..Len(marks) /\ i < Len(marks) /\ i \in 1..Len(marks) - 1
    BY <1>1, <1>3
  <2>2. marks'[i] = marks[i]
    BY <2>1, OuterMarks DEF IInv
  <2> QED
    BY <2>1, <2>2, Positions
<1>5. ASSUME NEW i \in DOMAIN marks', NEW j \in DOMAIN marks', i < j
      PROVE  marks'[i] < marks'[j]
  BY <1>4, <1>5, Positions
<1> QED
  BY <1>2, <1>4, <1>5

LEMMA InitIInv == Init => IInv
  BY LogSpecAssumption
  DEF Init, IInv, TypeOK, DurableIsWhole, Bracketed, MarksMatch, ClosedAt, DepthAt

\* Adding an entry outside of a transaction may move the durable prefix to the
\* end of the log.
LEMMA AddIInv ==
  ASSUME IInv, NEW v \in Values, Add(v)
  PROVE  IInv'
<1> USE DEF IInv
<1>1. v \in Addable
  BY DEF Addable
<1>2. Len(items) \in Nat /\ Len(marks) \in Nat
  BY DEF TypeOK
<1>3. /\ items' \in Seq(ItemSet)
      /\ Len(items') = Len(items) + 1
      /\ \A n \in 0..Len(items) : DepthAt(n)' = DepthAt(n)
      /\ DepthAt(Len(items))' = NewItem(v).depth
      /\ Bracketed'
  BY <1>1, GrowBracketed DEF Add
<1>4. NewItem(v).depth = Len(marks)
  BY LogSpecAssumption DEF NewItem, Item
<1>5. TypeOK'
  BY <1>2, <1>3 DEF TypeOK, Add
<1>6. DurableIsWhole'
  <2>1. CASE durable' = durable
    BY <2>1, <1>2, <1>3 DEF DurableIsWhole, ClosedAt, Add, TypeOK
  <2>2. CASE marks = << >> /\ durable' = Len(items')
    <3>1. DepthAt(durable)' = 0
      BY <2>2, <1>3, <1>4
    <3>2. DOMAIN marks' = {}
      BY <2>2 DEF Add
    <3> QED
      BY <2>2, <3>1, <3>2, <1>2, <1>3 DEF DurableIsWhole, ClosedAt
  <2> QED
    BY <2>1, <2>2, <1>3 DEF Add
<1>7. MarksMatch'
  BY <1>2, <1>3, <1>4 DEF MarksMatch, Add, TypeOK
<1> QED
  BY <1>3, <1>5, <1>6, <1>7

\* A new transaction starts where the log ends, after everything durable.
LEMMA BeginIInv ==
  ASSUME IInv, Begin
  PROVE  IInv'
<1> USE DEF IInv
<1>1. "begin" \in Addable
  BY DEF Addable
<1>2. Len(items) \in Nat /\ Len(marks) \in Nat
  BY Positions
<1>3. /\ items' \in Seq(ItemSet)
      /\ Len(items') = Len(items) + 1
      /\ \A n \in 0..Len(items) : DepthAt(n)' = DepthAt(n)
      /\ DepthAt(Len(items))' = NewItem("begin").depth
      /\ Bracketed'
  BY <1>1, GrowBracketed DEF Begin
<1>4. NewItem("begin").depth = Len(marks) + 1
  BY DEF NewItem, Item
<1>5. /\ marks' \in Seq(Nat)
      /\ Len(marks') = Len(marks) + 1
      /\ \A i \in 1..Len(marks) : marks'[i] = marks[i]
      /\ marks'[Len(marks) + 1] = Len(items)
      /\ DOMAIN marks' = 1..Len(marks) + 1
  BY <1>2 DEF Begin, TypeOK
<1>6. TypeOK'
  BY <1>3, <1>5 DEF TypeOK, Begin
<1>7. DurableIsWhole'
  <2>1. ASSUME NEW i \in DOMAIN marks' PROVE durable <= marks'[i]
    BY <1>2, <1>5, Positions, SMTT(30)
  <2>2. durable' <= Len(items') /\ DepthAt(durable)' = 0
    BY <1>2, <1>3 DEF DurableIsWhole, ClosedAt, TypeOK, Begin
  <2> QED
    BY <2>1, <2>2 DEF DurableIsWhole, ClosedAt, Begin
<1>8. MarksMatch'
  <2>1. ASSUME NEW i \in DOMAIN marks'
        PROVE  marks'[i] < Len(items') /\ DepthAt(marks[i])' = i - 1
    <3>1. CASE i \in 1..Len(marks)
      BY <3>1, <1>2, <1>3, <1>5, Positions
    <3>2. CASE i = Len(marks) + 1
      BY <3>2, <1>2, <1>3, <1>5 DEF MarksMatch, TypeOK, Begin
    <3> QED
      BY <3>1, <3>2, <1>2, <1>5
  <2>2. \A i, j \in DOMAIN marks' : i < j => marks'[i] < marks'[j]
    BY <1>2, <1>5, Positions, SMTT(30)
  <2>3. DepthAt(Len(items))' = Len(marks')
    BY <1>3, <1>4, <1>5
  <2> QED
    BY <2>1, <2>2, <2>3 DEF MarksMatch, Begin
<1> QED
  BY <1>3, <1>6, <1>7, <1>8
\* Committing the outermost transaction may move the durable prefix to the end.
LEMMA CommitIInv ==
  ASSUME IInv, Commit
  PROVE  IInv'
<1> USE DEF IInv
<1>1. "commit" \in Addable
  BY DEF Addable, Commit
<1>2. Len(items) \in Nat /\ Len(marks) \in Nat
  BY Positions
<1>3. /\ items' \in Seq(ItemSet)
      /\ Len(items') = Len(items) + 1
      /\ \A n \in 0..Len(items) : DepthAt(n)' = DepthAt(n)
      /\ DepthAt(Len(items))' = NewItem("commit").depth
      /\ Bracketed'
  BY <1>1, GrowBracketed DEF Commit
<1>4. NewItem("commit").depth = Len(marks) - 1
  BY DEF NewItem, Item
<1>5. /\ marks' \in Seq(Nat)
      /\ Len(marks') = Len(marks) - 1
  BY OuterPositions DEF Commit
<1>6. TypeOK'
  BY <1>2, <1>3, <1>5 DEF TypeOK, Commit
<1>7. DurableIsWhole'
  <2>1. CASE durable' = durable
    <3>1. durable' <= Len(items') /\ DepthAt(durable)' = 0
      BY <2>1, <1>2, <1>3, Positions DEF DurableIsWhole, ClosedAt
    <3>2. ASSUME NEW i \in DOMAIN marks' PROVE durable' <= marks'[i]
      BY <2>1, OuterPositions DEF Commit
    <3> QED
      BY <3>1, <3>2 DEF DurableIsWhole, ClosedAt
  <2>2. CASE Len(marks) = 1 /\ durable' = Len(items')
    <3>1. DepthAt(durable)' = 0
      BY <2>2, <1>3, <1>4
    <3>2. DOMAIN marks' = {}
      BY <2>2, <1>5
    <3> QED
      BY <2>2, <3>1, <3>2, <1>2, <1>3 DEF DurableIsWhole, ClosedAt
  <2> QED
    BY <2>1, <2>2, <1>3 DEF Commit
<1>8. MarksMatch'
  <2>1. ASSUME NEW i \in DOMAIN marks'
        PROVE  marks'[i] < Len(items') /\ DepthAt(marks[i])' = i - 1
    <3>1. i \in 1..Len(marks) /\ marks'[i] = marks[i]
      BY OuterPositions DEF Commit
    <3> QED
      BY <3>1, <1>2, <1>3, Positions
  <2>2. \A i, j \in DOMAIN marks' : i < j => marks'[i] < marks'[j]
    BY OuterPositions DEF Commit
  <2>3. DepthAt(Len(items))' = Len(marks')
    BY <1>3, <1>4, <1>5
  <2> QED
    BY <2>1, <2>2, <2>3 DEF MarksMatch, Commit
<1> QED
  BY <1>3, <1>6, <1>7, <1>8

\* Aborting cuts the log where the innermost transaction began.
LEMMA AbortIInv ==
  ASSUME IInv, Abort
  PROVE  IInv'
<1> USE DEF IInv
<1> DEFINE k == Len(marks)
<1>1. k \in 1..Len(marks) /\ marks[k] \in 0..Len(items)
  BY OuterMarks, Positions DEF Abort
<1>2. /\ items' \in Seq(ItemSet)
      /\ Len(items') = marks[k]
      /\ \A m \in 0..marks[k] : DepthAt(m)' = DepthAt(m)
      /\ Bracketed'
  BY <1>1, CutBracketed DEF Abort
<1>3. /\ marks' \in Seq(Nat)
      /\ Len(marks') = k - 1
  BY OuterPositions DEF Abort
<1>4. TypeOK'
  BY <1>2, <1>3 DEF TypeOK, Abort
<1>5. DurableIsWhole'
  <2>1. durable' <= Len(items') /\ DepthAt(durable)' = 0
    BY <1>1, <1>2, Positions DEF DurableIsWhole, ClosedAt, Abort
  <2>2. ASSUME NEW i \in DOMAIN marks' PROVE durable' <= marks'[i]
    BY OuterPositions DEF Abort
  <2> QED
    BY <2>1, <2>2 DEF DurableIsWhole, ClosedAt
<1>6. MarksMatch'
  <2>1. ASSUME NEW i \in DOMAIN marks'
        PROVE  marks'[i] < Len(items') /\ DepthAt(marks[i])' = i - 1
    <3>1. i \in 1..k /\ i < k /\ marks'[i] = marks[i]
      BY OuterPositions DEF Abort
    <3>2. marks[i] < marks[k] /\ marks[i] \in 0..marks[k] /\ DepthAt(marks[i]) = i - 1
      BY <3>1, <1>1, Positions
    <3> QED
      BY <3>1, <3>2, <1>2
  <2>2. \A i, j \in DOMAIN marks' : i < j => marks'[i] < marks'[j]
    BY OuterPositions DEF Abort
  <2>3. DepthAt(Len(items))' = Len(marks')
    BY <1>1, <1>2, <1>3, Positions
  <2> QED
    BY <2>1, <2>2, <2>3 DEF MarksMatch, Abort
<1> QED
  BY <1>2, <1>4, <1>5, <1>6
\* What a failed operation leaves can still be aborted.
LEMMA FailedOpIInv ==
  ASSUME IInv, FailedOp
  PROVE  IInv'
<1> USE DEF IInv
<1>1. Len(items) \in Nat /\ Len(marks) \in Nat
  BY Positions
<1>2. /\ items' \in Seq(ItemSet)
      /\ Len(items') \in Nat /\ Len(items) <= Len(items')
      /\ \A n \in 0..Len(items) : DepthAt(n)' = DepthAt(n)
      /\ Bracketed'
  <2>1. CASE UNCHANGED items
    BY <2>1, <1>1 DEF TypeOK, Bracketed, DepthAt
  <2>2. CASE state = "up" /\ \E v \in Addable : items' = Append(items, NewItem(v))
    <3>1. PICK v \in Addable : items' = Append(items, NewItem(v))
      BY <2>2
    <3>2. /\ items' \in Seq(ItemSet)
          /\ Len(items') = Len(items) + 1
          /\ \A n \in 0..Len(items) : DepthAt(n)' = DepthAt(n)
          /\ Bracketed'
      BY <2>2, <3>1, GrowBracketed
    <3> QED
      BY <3>2, <1>1
  <2> QED
    BY <2>1, <2>2 DEF FailedOp
<1>3. /\ marks' \in Seq(Nat)
      /\ \A i \in DOMAIN marks' :
           i \in 1..Len(marks) /\ marks'[i] = marks[i] /\ durable <= marks'[i]
      /\ \A i, j \in DOMAIN marks' : i < j => marks'[i] < marks'[j]
  <2>1. CASE marks' = marks
    BY <2>1, Positions DEF TypeOK
  <2>2. CASE marks # << >> /\ marks' = Outer
    BY <2>2, OuterPositions
  <2> QED
    BY <2>1, <2>2 DEF FailedOp
<1>4. TypeOK'
  BY <1>2, <1>3 DEF TypeOK, FailedOp
<1>5. DurableIsWhole'
  <2>1. durable' <= Len(items') /\ DepthAt(durable)' = 0
    BY <1>1, <1>2, Positions DEF DurableIsWhole, ClosedAt, FailedOp
  <2> QED
    BY <2>1, <1>3 DEF DurableIsWhole, ClosedAt, FailedOp
<1>6. MarksMatch'
  <2>1. ASSUME NEW i \in DOMAIN marks'
        PROVE  marks'[i] < Len(items') /\ DepthAt(marks[i])' = i - 1
    <3>1. i \in 1..Len(marks) /\ marks'[i] = marks[i]
      BY <1>3
    <3> QED
      BY <3>1, <1>1, <1>2, Positions
  <2> QED
    BY <2>1, <1>3 DEF MarksMatch, FailedOp
<1> QED
  BY <1>2, <1>4, <1>5, <1>6

\* A stop may lose everything that is not durable, and nothing else.
LEMMA StopIInv ==
  ASSUME IInv, Stop
  PROVE  IInv'
<1> USE DEF IInv
<1>1. Len(items) \in Nat /\ durable \in 0..Len(items)
  BY Positions
<1>2. /\ items' \in Seq(ItemSet)
      /\ durable <= Len(items')
      /\ DepthAt(durable)' = DepthAt(durable)
      /\ Bracketed'
  <2>1. CASE \E n \in durable..Len(items) : items' = Keep(n)
    <3>1. PICK n \in durable..Len(items) : items' = Keep(n)
      BY <2>1
    <3>2. n \in 0..Len(items) /\ durable \in 0..n
      BY <1>1
    <3>3. /\ items' \in Seq(ItemSet) /\ Len(items') = n
          /\ \A m \in 0..n : DepthAt(m)' = DepthAt(m)
          /\ Bracketed'
      BY <3>1, <3>2, CutBracketed
    <3> QED
      BY <3>2, <3>3, <1>1 DEF Stop
  <2>2. CASE state = "up" /\ \E v \in Addable : items' = Append(items, NewItem(v))
    <3>1. PICK v \in Addable : items' = Append(items, NewItem(v))
      BY <2>2
    <3>2. /\ items' \in Seq(ItemSet) /\ Len(items') = Len(items) + 1
          /\ \A n \in 0..Len(items) : DepthAt(n)' = DepthAt(n)
          /\ Bracketed'
      BY <2>2, <3>1, GrowBracketed
    <3> QED
      BY <3>2, <1>1 DEF Stop
  <2> QED
    BY <2>1, <2>2 DEF Stop
<1>3. marks' = << >> /\ marks' \in Seq(Nat) /\ DOMAIN marks' = {}
  BY DEF Stop
<1>4. TypeOK'
  BY <1>2, <1>3 DEF TypeOK, Stop
<1>5. DurableIsWhole'
  BY <1>2, <1>3 DEF DurableIsWhole, ClosedAt, Stop
<1>6. MarksMatch'
  BY <1>3 DEF MarksMatch, Stop
<1> QED
  BY <1>2, <1>4, <1>5, <1>6

\* Recovery cuts the log behind the last point where no transaction was open:
\* the end of the durable prefix is such a point, so it is never before it.
LEMMA RecoverIInv ==
  ASSUME IInv, Recover
  PROVE  IInv'
<1> USE DEF IInv
<1>1. Len(items) \in Nat /\ durable \in 0..Len(items)
  BY Positions
<1>2. PICK n \in 0..Len(items) : IsClosedLength(n) /\ items' = Keep(n)
  BY DEF Recover
<1>3. durable <= n
  <2>1. SUFFICES ASSUME n < durable PROVE FALSE
    BY <1>1
  <2>2. durable \in n + 1..Len(items)
    BY <2>1, <1>1
  <2> QED
    BY <2>2, <1>2 DEF IsClosedLength, DurableIsWhole
<1>4. /\ items' \in Seq(ItemSet) /\ Len(items') = n
      /\ \A m \in 0..n : DepthAt(m)' = DepthAt(m)
      /\ Bracketed'
  BY <1>2, CutBracketed
<1>5. durable \in 0..n /\ n \in 0..n
  BY <1>1, <1>3
<1>6. marks' = << >> /\ DOMAIN marks' = {} /\ Len(marks') = 0
  BY DEF Recover, MarksMatch
<1>7. TypeOK'
  BY <1>4, <1>6 DEF TypeOK, Recover
<1>8. DurableIsWhole'
  BY <1>3, <1>4, <1>5, <1>6 DEF DurableIsWhole, ClosedAt, Recover
<1>9. MarksMatch'
  <2>1. DepthAt(Len(items))' = 0
    BY <1>2, <1>4, <1>5 DEF IsClosedLength, ClosedAt
  <2> QED
    BY <2>1, <1>6 DEF MarksMatch, Recover
<1> QED
  BY <1>4, <1>7, <1>8, <1>9

\* A wiped log is empty.
LEMMA WipeIInv ==
  ASSUME IInv, Wipe
  PROVE  IInv'
<1>1. items' = << >> /\ marks' = << >> /\ durable' = 0
  BY DEF Wipe, IInv, MarksMatch
<1> QED
  BY <1>1 DEF Wipe, IInv, TypeOK, DurableIsWhole, Bracketed, MarksMatch, ClosedAt, DepthAt
\* The last elements of a sequence.
LEMMA Suffix ==
  ASSUME NEW S, NEW s \in Seq(S), NEW n \in 0..Len(s)
  PROVE  /\ SubSeq(s, n + 1, Len(s)) \in Seq(S)
         /\ Len(SubSeq(s, n + 1, Len(s))) = Len(s) - n
         /\ \A i \in 1..Len(s) - n : SubSeq(s, n + 1, Len(s))[i] = s[n + i]
  OBVIOUS

\* A reset drops whole transactions.
LEMMA ResetIInv ==
  ASSUME IInv, NEW n \in Nat, Reset(n)
  PROVE  IInv'
<1> USE DEF IInv
<1>1. /\ Len(items) \in Nat /\ DOMAIN items = 1..Len(items) /\ durable \in 0..Len(items)
      /\ items \in Seq(ItemSet) /\ n \in 0..Len(items)
  BY Positions DEF Reset, TypeOK
<1>2. /\ items' \in Seq(ItemSet)
      /\ Len(items') = Len(items) - n
      /\ \A i \in 1..Len(items) - n : items'[i] = items[n + i]
  BY <1>1, Suffix DEF Reset
<1>3. ASSUME NEW m \in 0..Len(items) - n
      PROVE  DepthAt(m)' = DepthAt(n + m)
  <2>1. CASE m = 0
    BY <2>1, <1>1 DEF DepthAt, Reset, ClosedAt
  <2>2. CASE m \in 1..Len(items) - n
    <3>1. items'[m] = items[n + m] /\ n + m # 0 /\ m # 0
      BY <2>2, <1>1, <1>2
    <3> QED
      BY <3>1 DEF DepthAt
  <2> QED
    BY <2>1, <2>2, <1>1
<1>4. marks' = << >> /\ DOMAIN marks' = {} /\ Len(marks') = 0
  BY DEF Reset
<1>5. durable' \in Nat /\ (durable' = 0 \/ (n <= durable /\ durable' = durable - n))
  BY <1>1 DEF Reset
<1>6. TypeOK'
  BY <1>2, <1>4, <1>5 DEF TypeOK, Reset
<1>7. Bracketed'
  <2>1. ASSUME NEW i \in DOMAIN items'
        PROVE  /\ n + i \in DOMAIN items
               /\ items'[i] = items[n + i]
               /\ DepthAt(i - 1)' = DepthAt((n + i) - 1)
    <3>1. i \in 1..Len(items) - n /\ i - 1 \in 0..Len(items) - n
      BY <1>1, <1>2
    <3>2. DepthAt(i - 1)' = DepthAt(n + (i - 1))
      BY <3>1, <1>3
    <3> QED
      BY <3>1, <3>2, <1>1, <1>2
  <2> QED
    BY <2>1 DEF Bracketed
<1>8. DurableIsWhole'
  <2>1. DepthAt(durable)' = 0
    <3>1. CASE durable' = 0
      BY <3>1 DEF DepthAt
    <3>2. CASE n <= durable /\ durable' = durable - n
      <4>1. durable - n \in 0..Len(items) - n /\ n + (durable - n) = durable
        BY <3>2, <1>1
      <4>2. DepthAt(durable) = 0
        BY DEF DurableIsWhole, ClosedAt
      <4>3. ASSUME NEW m \in 0..Len(items) - n, m = durable'
            PROVE  DepthAt(durable)' = DepthAt(m)'
        BY <4>3 DEF DepthAt
      <4> QED
        BY <3>2, <4>1, <4>2, <4>3, <1>3
    <3> QED
      BY <3>1, <3>2, <1>5
  <2>2. durable' <= Len(items')
    BY <1>1, <1>2, <1>5
  <2> QED
    BY <2>1, <2>2, <1>4 DEF DurableIsWhole, ClosedAt
<1>9. MarksMatch'
  <2>1. DepthAt(Len(items)) = 0
    BY DEF MarksMatch, Reset
  <2>2. Len(items) - n \in 0..Len(items) - n /\ n + (Len(items) - n) = Len(items)
    BY <1>1
  <2>3. DepthAt(Len(items))' = 0
    <3>1. ASSUME NEW m \in 0..Len(items) - n, m = Len(items')
          PROVE  DepthAt(Len(items))' = DepthAt(m)'
      BY <3>1 DEF DepthAt
    <3> QED
      BY <2>1, <2>2, <3>1, <1>2, <1>3
  <2> QED
    BY <2>3, <1>4 DEF MarksMatch, Reset
<1> QED
  BY <1>6, <1>7, <1>8, <1>9

LEMMA StepIInv == IInv /\ [Next]_vars => IInv'
<1> SUFFICES ASSUME IInv, [Next]_vars
             PROVE  IInv'
  OBVIOUS
<1>1. ASSUME NEW v \in Values, Add(v) PROVE IInv'
  BY <1>1, AddIInv
<1>2. CASE Begin
  BY <1>2, BeginIInv
<1>3. CASE Commit
  BY <1>3, CommitIInv
<1>4. CASE Abort
  BY <1>4, AbortIInv
<1>5. CASE FailedOp
  BY <1>5, FailedOpIInv
<1>6. CASE Stop
  BY <1>6, StopIInv
<1>7. CASE Recover
  BY <1>7, RecoverIInv
<1>8. CASE Wipe
  BY <1>8, WipeIInv
<1>9. ASSUME NEW n \in 0..MaxItems, Reset(n) PROVE IInv'
  <2>1. n \in Nat
    BY LogSpecAssumption
  <2> QED
    BY <1>9, <2>1, ResetIInv
<1>10. CASE UNCHANGED vars
  BY <1>10 DEF vars, IInv, TypeOK, DurableIsWhole, Bracketed, MarksMatch, ClosedAt, DepthAt
<1> QED
  BY <1>1, <1>2, <1>3, <1>4, <1>5, <1>6, <1>7, <1>8, <1>9, <1>10 DEF Next

----------------------------------------------------------------------------
(* The theorems.                                                           *)

\* The inductive invariant holds in every reachable state.
THEOREM Inductive == Spec => []IInv
<1>1. Init => IInv
  BY InitIInv
<1>2. IInv /\ [Next]_vars => IInv'
  BY StepIInv
<1> QED
  BY <1>1, <1>2, PTL DEF Spec

\* The log is always a sequence of items, with a mark per open transaction.
THEOREM TypeCorrect == Spec => []TypeOK
  BY Inductive, PTL DEF IInv

\* What jr_LogAddEntry and jr_LogTransactionCommit promised to keep is in the
\* log and is never part of a transaction that an abort or a recovery removes.
THEOREM DurableWhole == Spec => []DurableIsWhole
  BY Inductive, PTL DEF IInv

\* Transactions nest in the log whatever was aborted, lost, recovered or reset.
THEOREM Nesting == Spec => []Bracketed
  BY Inductive, PTL DEF IInv

\* jr_LogTransactionAbort finds the begin of exactly the transaction it aborts.
THEOREM AbortsFindTheirBegin == Spec => []MarksMatch
  BY Inductive, PTL DEF IInv

\* Until a wipe or a reset, no abort, failure, crash or recovery changes what is
\* durable.
THEOREM DurableForever == Spec => DurablePrefixKept
<1> DEFINE Kept == /\ Len(items') >= durable
                   /\ \A i \in 1..durable : items'[i] = items[i]
<1>1. ASSUME IInv, [Next]_vars, durable <= durable'
      PROVE  Kept
  <2> USE <1>1
  <2>1. Len(items) \in Nat /\ durable \in 0..Len(items) /\ items \in Seq(ItemSet)
    BY Positions DEF IInv, TypeOK
  <2>2. ASSUME state = "up", NEW v \in Addable, items' = Append(items, NewItem(v))
        PROVE  Kept
    <3>1. /\ Len(items') = Len(items) + 1
          /\ \A i \in 1..Len(items) : items'[i] = items[i]
      BY <2>2, GrowBracketed
    <3> QED
      BY <3>1, <2>1
  <2>3. ASSUME NEW n \in 0..Len(items), durable <= n, items' = Keep(n)
        PROVE  Kept
    <3>1. Len(items') = n /\ \A i \in 1..n : items'[i] = items[i]
      BY <2>3, KeepItems DEF IInv
    <3> QED
      BY <3>1, <2>1, <2>3
  <2>4. CASE \E v \in Values : Add(v)
    BY <2>2, <2>4 DEF Add, Addable
  <2>5. CASE Begin
    BY <2>2, <2>5 DEF Begin, Addable
  <2>6. CASE Commit
    BY <2>2, <2>6 DEF Commit, Addable
  <2>7. CASE Abort
    <3>1. /\ Len(marks) \in 1..Len(marks)
          /\ marks[Len(marks)] \in 0..Len(items)
          /\ durable <= marks[Len(marks)]
      BY <2>7, OuterMarks, Positions DEF Abort, IInv
    <3> QED
      BY <3>1, <2>3, <2>7 DEF Abort
  <2>8. CASE FailedOp
    BY <2>1, <2>2, <2>8 DEF FailedOp
  <2>9. CASE Stop
    <3>1. CASE \E n \in durable..Len(items) : items' = Keep(n)
      <4>1. PICK n \in durable..Len(items) : items' = Keep(n)
        BY <3>1
      <4>2. n \in 0..Len(items) /\ durable <= n
        BY <2>1
      <4> QED
        BY <4>1, <4>2, <2>3
    <3> QED
      BY <3>1, <2>2, <2>9 DEF Stop
  <2>10. CASE Recover
    <3>1. PICK n \in 0..Len(items) : IsClosedLength(n) /\ items' = Keep(n)
      BY <2>10 DEF Recover
    <3>2. durable <= n
      <4>1. n < durable => durable \in n + 1..Len(items)
        BY <2>1
      <4> QED
        BY <4>1, <3>1, <2>1 DEF IsClosedLength, IInv, DurableIsWhole
    <3> QED
      BY <3>1, <3>2, <2>3
  <2>11. CASE Wipe
    BY <2>1, <2>11 DEF Wipe
  <2>12. ASSUME NEW n \in 0..MaxItems, Reset(n) PROVE Kept
    <3>1. n \in 0..Len(items) /\ (durable = 0 \/ n = 0)
      BY <2>1, <2>12 DEF Reset
    <3>2. /\ Len(items') = Len(items) - n
          /\ \A i \in 1..Len(items) - n : items'[i] = items[n + i]
      BY <2>1, <2>12, <3>1, Suffix DEF Reset
    <3> QED
      BY <2>1, <3>1, <3>2
  <2>13. CASE UNCHANGED vars
    BY <2>1, <2>13 DEF vars
  <2> QED
    BY <2>4, <2>5, <2>6, <2>7, <2>8, <2>9, <2>10, <2>11, <2>12, <2>13 DEF Next
<1>2. IInv /\ [Next]_vars => [durable <= durable' => Kept]_vars
  BY <1>1
<1> QED
  BY <1>2, Inductive, PTL DEF Spec, DurablePrefixKept

----------------------------------------------------------------------------
(* The block arithmetic, for every header length and every block size: the *)
(* writer never splits an entry that fits into a block, and the reader     *)
(* goes where the writer went.                                             *)

\* The rest of a block leads to the next boundary.
LEMMA NextBoundary ==
  ASSUME NEW o \in Nat, NEW b \in Nat \ {0}
  PROVE  /\ o % b \in 0..b - 1
         /\ (o + (b - (o % b))) % b = 0
<1>1. o % b \in 0..b - 1 /\ o \div b \in Nat
  OBVIOUS
<1>2. o = b * (o \div b) + (o % b)
  OBVIOUS
<1>3. o + (b - (o % b)) = b * ((o \div b) + 1)
  BY <1>1, <1>2
<1>4. \A k \in Nat : (b * k) % b = 0
  OBVIOUS
<1>5. (b * ((o \div b) + 1)) % b = 0
  BY <1>1, <1>4
<1> QED
  BY <1>1, <1>3, <1>5, Zenon

\* jr_AvoidLogBlockBoundary: an entry that is not longer than a block is
\* written without a block boundary inside of it, and never before the end of
\* the log.
THEOREM EntryStaysInBlock ==
  ASSUME NEW offset \in Nat, NEW len \in Nat, len <= BlockSize
  PROVE  /\ NextLogEntryOffset(offset, len) >= offset
         /\ (NextLogEntryOffset(offset, len) % BlockSize) + len <= BlockSize
<1>1. BlockSize \in Nat \ {0} /\ offset % BlockSize \in 0..BlockSize - 1
  BY FormatAssumption
<1>2. CASE offset % BlockSize # 0 /\ SpaceInBlock(offset) < len
  <2>1. NextLogEntryOffset(offset, len) = offset + (BlockSize - (offset % BlockSize))
    BY <1>2 DEF NextLogEntryOffset, SpaceInBlock
  <2>2. (offset + (BlockSize - (offset % BlockSize))) % BlockSize = 0
    BY <1>1, NextBoundary
  <2> QED
    BY <1>1, <2>1, <2>2
<1>3. CASE ~(offset % BlockSize # 0 /\ SpaceInBlock(offset) < len)
  BY <1>1, <1>3 DEF NextLogEntryOffset, SpaceInBlock
<1> QED
  BY <1>2, <1>3

\* jr_LogEntryInitFromFilePtr finds what jr_LogEntryAddToFilePtr wrote at the
\* end of the log: it looks for a header where the entry is, or, when the writer
\* left a pad entry, where the pad is, and the pad leads to the entry.
THEOREM ReaderFollowsWriter ==
  ASSUME NEW offset \in Nat, NEW len \in Nat, HdrLen <= len
  PROVE  \/ /\ PadCells(offset, len) = << >>
            /\ HeaderOffset(offset) = NextLogEntryOffset(offset, len)
         \/ /\ PadCells(offset, len) = Cells(PadEntry(SpaceInBlock(offset)))
            /\ HeaderOffset(offset) = offset
            /\ offset + PadEntry(SpaceInBlock(offset)).time = NextLogEntryOffset(offset, len)
<1>1. /\ BlockSize \in Nat \ {0} /\ HdrLen \in Nat /\ HdrLen <= BlockSize
      /\ offset % BlockSize \in 0..BlockSize - 1
      /\ SpaceInBlock(offset) \in 1..BlockSize
      /\ offset % BlockSize = 0 => SpaceInBlock(offset) = BlockSize
  BY FormatAssumption DEF SpaceInBlock
<1>2. CASE SpaceInBlock(offset) < HdrLen
  <2>1. NextLogEntryOffset(offset, len) = offset + SpaceInBlock(offset)
    BY <1>1, <1>2 DEF NextLogEntryOffset
  <2>2. ~(HdrLen <= SpaceInBlock(offset))
    BY <1>1, <1>2
  <2> QED
    BY <2>1, <2>2, <1>2 DEF HeaderOffset, PadCells
<1>3. CASE HdrLen <= SpaceInBlock(offset)
  <2>1. HeaderOffset(offset) = offset
    BY <1>1, <1>3 DEF HeaderOffset
  <2>2. CASE NextLogEntryOffset(offset, len) = offset
    BY <2>1, <2>2 DEF PadCells
  <2>3. CASE NextLogEntryOffset(offset, len) # offset
    <3>1. PadCells(offset, len) = Cells(PadEntry(SpaceInBlock(offset)))
      BY <1>3, <2>3 DEF PadCells
    <3>2. NextLogEntryOffset(offset, len) = offset + SpaceInBlock(offset)
      BY <2>3 DEF NextLogEntryOffset
    <3>3. PadEntry(SpaceInBlock(offset)).time = SpaceInBlock(offset)
      BY DEF PadEntry, Entry
    <3> QED
      BY <2>1, <3>1, <3>2, <3>3
  <2> QED
    BY <2>2, <2>3
<1> QED
  BY <1>1, <1>2, <1>3

----------------------------------------------------------------------------
(* The reader, unrolled. Its recursion follows pad entries, which lead     *)
(* forward in every image that was written by the log.                     *)

\* Header cells of an image lead forward: to the next boundary, or to the next
\* entry.
Forward(f) ==
  \A i \in 1..Len(f) : f[i].k = 0 =>
    /\ f[i].len \in Nat \ {0}
    /\ f[i].type = "pad" => f[i].time \in Nat \ {0}

\* What ReadEntry does at offset p, given what it does behind it.
ReadAt(f, p, read) ==
  LET q == HeaderOffset(p)
  IN CASE q >= Len(f)             -> ReadFailed("eof")
       [] q < Len(f) /\ q + HdrLen > Len(f) -> ReadFailed("short")
       [] OTHER ->
            LET h == f[q + 1]
            IN IF ~IsHeaderAt(f, q) THEN ReadFailed("magic")
               ELSE IF h.type = "pad"
                    THEN IF q + h.time >= Len(f) THEN ReadFailed("eof") ELSE read[q + h.time]
               ELSE IF q + h.len > Len(f) THEN ReadFailed("short")
               ELSE [status |-> "ok", type |-> h.type, len |-> h.len,
                     time |-> h.time, val |-> BodyValue(f, q, h.len),
                     offset |-> q, next |-> q + h.len]

Reading(f, read) == read = [p \in 0..Len(f) |-> ReadAt(f, p, read)]

\* Where the reader looks is not before where it is asked to look.
LEMMA HeaderOffsetForward ==
  ASSUME NEW p \in Nat PROVE HeaderOffset(p) \in Nat /\ HeaderOffset(p) >= p
<1>1. BlockSize \in Nat \ {0} /\ p % BlockSize \in 0..BlockSize - 1 BY FormatAssumption
<1>2. SpaceInBlock(p) \in Nat BY <1>1 DEF SpaceInBlock
<1> QED BY <1>2 DEF HeaderOffset

\* A header at q, with the fields of its first cell.
LEMMA HeaderLeads ==
  ASSUME NEW S, NEW f \in Seq(S), Forward(f), NEW q \in Nat, q + HdrLen <= Len(f), IsHeaderAt(f, q)
  PROVE  /\ f[q + 1].len \in Nat \ {0}
         /\ f[q + 1].type = "pad" => f[q + 1].time \in Nat \ {0}
<1>1. HdrLen \in Nat \ {0} BY FormatAssumption
<1>2. 0 \in 0..HdrLen - 1 /\ q + 0 + 1 = q + 1 /\ q + 1 \in 1..Len(f) BY <1>1
<1>3. f[q + 1].k = 0 BY <1>2 DEF IsHeaderAt
<1> QED BY <1>2, <1>3 DEF Forward

\* What is read at p depends on what is read behind p.
LEMMA ReadAtSame ==
  ASSUME NEW S, NEW f \in Seq(S), Forward(f), NEW p \in 0..Len(f), NEW u, NEW v,
         \A m \in p + 1..Len(f) : u[m] = v[m]
  PROVE  ReadAt(f, p, u) = ReadAt(f, p, v)
<1> DEFINE q == HeaderOffset(p)
<1>1. q \in Nat /\ q >= p BY HeaderOffsetForward
<1>2. HdrLen \in Nat \ {0} BY FormatAssumption
<1> HIDE DEF q
<1>3. CASE q + HdrLen <= Len(f) /\ IsHeaderAt(f, q) /\ f[q + 1].type = "pad" /\ ~(q + f[q + 1].time >= Len(f))
  <2>1. f[q + 1].time \in Nat \ {0} BY <1>1, <1>3, HeaderLeads
  <2>2. q + f[q + 1].time \in p + 1..Len(f) BY <1>1, <1>3, <2>1
  <2>3. u[q + f[q + 1].time] = v[q + f[q + 1].time] BY <2>2
  <2> QED BY <2>3 DEF ReadAt, q
<1>4. CASE ~(q + HdrLen <= Len(f))
  <2>1. q >= Len(f) \/ (q < Len(f) /\ q + HdrLen > Len(f)) BY <1>1, <1>2, <1>4
  <2> QED BY <2>1 DEF ReadAt, q
<1>5. CASE q + HdrLen <= Len(f) /\ ~(IsHeaderAt(f, q) /\ f[q + 1].type = "pad" /\ ~(q + f[q + 1].time >= Len(f)))
  BY <1>5 DEF ReadAt, q
<1> QED BY <1>3, <1>4, <1>5


\* Induction backwards through the offsets of an image: what holds at its end
\* and is handed on to the offset before holds at every offset.
LEMMA Backwards ==
  ASSUME NEW N \in Nat, NEW P, N \in P, \A n \in 1..N : n \in P => n - 1 \in P
  PROVE  0..N \subseteq P
<1> DEFINE T == {N - n : n \in (0..N) \ P}
<1> SUFFICES ASSUME T # {} PROVE FALSE
  BY Zenon
<1>1. T \subseteq Nat
  OBVIOUS
<1>2. PICK x \in T : \A y \in T : ~(y < x)
  <2>1. PICK x \in T : \A y \in T : ~(<<y, x>> \in OpToRel(<, Nat))
    BY <1>1, NatLessThanWellFounded, WFMin
  <2> QED BY <1>1, <2>1 DEF OpToRel
<1>3. PICK n \in (0..N) \ P : x = N - n
  OBVIOUS
<1>4. n # N /\ n + 1 \in 1..N /\ (n + 1) - 1 = n
  OBVIOUS
<1>5. n + 1 \notin P
  BY <1>4
<1>6. N - (n + 1) \in T /\ N - (n + 1) < x
  BY <1>3, <1>4, <1>5
<1> QED
  BY <1>2, <1>6

LEMMA AtTheEnd ==
  ASSUME NEW S, NEW f \in Seq(S), NEW p \in Nat, p >= Len(f), NEW read
  PROVE  ReadAt(f, p, read) = ReadFailed("eof")
<1>1. HeaderOffset(p) \in Nat /\ HeaderOffset(p) >= Len(f) BY HeaderOffsetForward
<1> QED BY <1>1 DEF ReadAt

\* The recursion of ReadEntry has a solution.
LEMMA ReadingExists ==
  ASSUME NEW S, NEW f \in Seq(S), Forward(f)
  PROVE  \E read : Reading(f, read)
<1> DEFINE N == Len(f)
           P == {k \in 0..N : \E g : \A p \in k..N : g[p] = ReadAt(f, p, g)}
<1>1. N \in Nat OBVIOUS
<1>2. N \in P
  <2> DEFINE g == [p \in {N} |-> ReadFailed("eof")]
  <2>1. \A p \in N..N : g[p] = ReadFailed("eof") /\ p >= N /\ p \in Nat BY <1>1
  <2> HIDE DEF g
  <2>2. \A p \in N..N : g[p] = ReadAt(f, p, g) BY <2>1, AtTheEnd
  <2> QED BY <1>1, <2>2
<1>3. ASSUME NEW n \in 1..N, n \in P PROVE n - 1 \in P
  <2>1. PICK g : \A p \in n..N : g[p] = ReadAt(f, p, g) BY <1>3
  <2> DEFINE h == [p \in 0..N |-> IF p = n - 1 THEN ReadAt(f, n - 1, g) ELSE g[p]]
  <2>2. n - 1 \in 0..N /\ h[n - 1] = ReadAt(f, n - 1, g) /\ \A m \in n..N : h[m] = g[m] BY <1>1
  <2> HIDE DEF h
  <2>3. ASSUME NEW p \in n - 1..N PROVE h[p] = ReadAt(f, p, h)
    <3>1. p \in 0..N /\ \A m \in p + 1..N : m \in n..N BY <1>1
    <3>2. \A m \in p + 1..Len(f) : g[m] = h[m] BY <2>2, <3>1
    <3>3. ReadAt(f, p, g) = ReadAt(f, p, h) BY <3>1, <3>2, ReadAtSame
    <3>4. p = n - 1 \/ p \in n..N OBVIOUS
    <3> QED BY <2>1, <2>2, <3>3, <3>4
  <2> QED BY <2>2, <2>3
<1>4. 0..N \subseteq P
  <2> HIDE DEF P, N
  <2> QED BY <1>1, <1>2, <1>3, Backwards
<1>5. 0 \in 0..N BY <1>1
<1>6. PICK g : \A p \in 0..N : g[p] = ReadAt(f, p, g) BY <1>4, <1>5
<1> DEFINE read == [p \in 0..N |-> g[p]]
<1>7. \A p \in 0..N : read[p] = g[p] /\ \A m \in p + 1..N : g[m] = read[m] BY <1>1
<1>8. \A p \in 0..N : read[p] = ReadAt(f, p, read)
  <2> SUFFICES ASSUME NEW p \in 0..N PROVE read[p] = ReadAt(f, p, read) OBVIOUS
  <2> HIDE DEF read
  <2>1. ReadAt(f, p, g) = ReadAt(f, p, read) BY <1>7, ReadAtSame
  <2> QED BY <1>6, <1>7, <2>1
<1>9. read = [p \in 0..N |-> ReadAt(f, p, read)]
  <2>1. read = [p \in 0..N |-> read[p]] OBVIOUS
  <2> HIDE DEF read
  <2>2. [p \in 0..N |-> read[p]] = [p \in 0..N |-> ReadAt(f, p, read)] BY <1>8
  <2> QED BY <2>1, <2>2
<1> QED BY <1>9 DEF Reading

LEMMA ReadUnrolled ==
  ASSUME NEW S, NEW f \in Seq(S), Forward(f), NEW p \in 0..Len(f), NEW read,
         \A m \in 0..Len(f) : read[m] = ReadEntry(f, m)
  PROVE  ReadEntry(f, p) = ReadAt(f, p, read)
<1> DEFINE R == CHOOSE r : Reading(f, r)
<1>1. Reading(f, R) BY ReadingExists
<1>2. \A m : ReadEntry(f, m) = IF m >= Len(f) THEN ReadFailed("eof") ELSE R[m]
  <2> SUFFICES ASSUME NEW m PROVE ReadEntry(f, m) = IF m >= Len(f) THEN ReadFailed("eof") ELSE R[m] OBVIOUS
  <2>1. CASE m >= Len(f) BY <2>1 DEF ReadEntry
  <2>2. CASE ~(m >= Len(f))
    <3>1. ReadEntry(f, m) = R[m] BY <2>2, Zenon DEF ReadEntry, Reading, ReadAt
    <3> QED BY <2>2, <3>1
  <2> QED BY <2>1, <2>2
<1> HIDE DEF R
<1>3. \A m \in 0..Len(f) : R[m] = ReadAt(f, m, R) BY <1>1 DEF Reading
<1>4. \A m \in 0..Len(f) : ReadEntry(f, m) = R[m]
  <2> SUFFICES ASSUME NEW m \in 0..Len(f) PROVE ReadEntry(f, m) = R[m] OBVIOUS
  <2>1. CASE m >= Len(f)
    <3>1. ReadAt(f, m, R) = ReadFailed("eof") BY <2>1, AtTheEnd
    <3> QED BY <1>2, <1>3, <2>1, <3>1
  <2>2. CASE ~(m >= Len(f)) BY <1>2, <2>2
  <2> QED BY <2>1, <2>2
<1>5. \A m \in p + 1..Len(f) : R[m] = read[m] BY <1>4
<1>6. ReadAt(f, p, R) = ReadAt(f, p, read) BY <1>5, ReadAtSame
<1> QED BY <1>3, <1>4, <1>6

----------------------------------------------------------------------------
(* The writer.                                                             *)

\* The image f after jr_LogEntryAddToFilePtr has added e at its end: the pad
\* entry is written where the log ends, the entry where the pad leads.
WithEntry(f, e) ==
  Overlay(Overlay(f, Len(f), PadCells(Len(f), e.len)), NextLogEntryOffset(Len(f), e.len), Cells(e))

\* What is added to a log: no pad entry, and not less than a header.
IsEntry(e) ==
  /\ e = Entry(e.type, e.len, e.time, e.val)
  /\ e.len \in Nat /\ e.len >= HdrLen /\ e.type # "pad"

\* The entry as the reader gives it back, found at offset q.
ReadBack(e, q) ==
  [status |-> "ok", type |-> e.type, len |-> e.len, time |-> e.time,
   val |-> IF e.len = HdrLen THEN Nothing ELSE e.val, offset |-> q, next |-> q + e.len]

\* The cells of x are at q.
WrittenAt(g, q, x) == \A i \in 1..x.len : g[q + i] = Cell(x, i - 1)

LEMMA CellsOf ==
  ASSUME NEW x, x.len \in Nat, NEW T, \A k \in Nat : Cell(x, k) \in T
  PROVE  Cells(x) \in Seq(T) /\ Len(Cells(x)) = x.len /\ \A i \in 1..x.len : Cells(x)[i] = Cell(x, i - 1)
<1>1. \A i \in 1..x.len : i - 1 \in Nat OBVIOUS
<1> QED BY <1>1 DEF Cells

\* The padding, and where the entry goes.
LEMMA Padding ==
  ASSUME NEW p \in Nat, NEW len \in Nat, len >= HdrLen
  PROVE  LET q == NextLogEntryOffset(p, len)  s == SpaceInBlock(p) IN
         /\ q \in Nat /\ q >= p /\ s \in Nat \ {0} /\ HeaderOffset(q) = q
         /\ \/ PadCells(p, len) = << >> /\ HeaderOffset(p) = q
            \/ /\ PadCells(p, len) = Cells(PadEntry(s)) /\ HeaderOffset(p) = p
               /\ q = p + s /\ HdrLen <= s
<1>1. /\ BlockSize \in Nat \ {0} /\ HdrLen \in Nat \ {0} /\ HdrLen <= BlockSize
      /\ p % BlockSize \in 0..BlockSize - 1
  BY FormatAssumption
<1>2. SpaceInBlock(p) \in Nat \ {0} BY <1>1 DEF SpaceInBlock
<1>3. NextLogEntryOffset(p, len) \in {p, p + SpaceInBlock(p)} BY DEF NextLogEntryOffset
<1> DEFINE q == NextLogEntryOffset(p, len)
<1>4. q \in Nat /\ q >= p BY <1>2, <1>3
<1>5. HeaderOffset(q) = q
  <2>1. CASE p % BlockSize # 0 /\ SpaceInBlock(p) < len
    <3>1. q = p + (BlockSize - (p % BlockSize)) BY <2>1 DEF NextLogEntryOffset, SpaceInBlock
    <3>2. q % BlockSize = 0 BY <1>1, <3>1, NextBoundary
    <3>3. SpaceInBlock(q) = BlockSize BY <1>1, <3>2 DEF SpaceInBlock
    <3> QED BY <1>1, <3>3 DEF HeaderOffset
  <2>2. CASE ~(p % BlockSize # 0 /\ SpaceInBlock(p) < len)
    <3>1. q = p BY <2>2 DEF NextLogEntryOffset
    <3>2. ~(SpaceInBlock(p) < HdrLen) BY <1>1, <2>2 DEF SpaceInBlock
    <3> QED BY <3>1, <3>2 DEF HeaderOffset
  <2> QED BY <2>1, <2>2
<1>6. \/ PadCells(p, len) = << >> /\ HeaderOffset(p) = q
      \/ /\ PadCells(p, len) = Cells(PadEntry(SpaceInBlock(p))) /\ HeaderOffset(p) = p
         /\ p + PadEntry(SpaceInBlock(p)).time = q
  BY ReaderFollowsWriter
<1>7. PadEntry(SpaceInBlock(p)).time = SpaceInBlock(p) BY DEF PadEntry, Entry
<1>8. PadCells(p, len) = << >> \/ HdrLen <= SpaceInBlock(p) BY DEF PadCells
<1>9. CASE PadCells(p, len) # << >> BY <1>2, <1>4, <1>5, <1>6, <1>7, <1>8, <1>9
<1>10. CASE PadCells(p, len) = << >>
  <2>1. CASE HeaderOffset(p) = q BY <1>2, <1>4, <1>5, <1>10, <2>1
  <2>2. CASE HeaderOffset(p) # q
    <3>1. PadCells(p, len) = Cells(PadEntry(SpaceInBlock(p))) BY <1>6, <2>2
    <3>2. PadEntry(SpaceInBlock(p)).len = HdrLen BY DEF PadEntry, Entry
    <3>3. Len(Cells(PadEntry(SpaceInBlock(p)))) = HdrLen
      <4> DEFINE T == {Cell(PadEntry(SpaceInBlock(p)), k) : k \in Nat}
      <4>1. \A k \in Nat : Cell(PadEntry(SpaceInBlock(p)), k) \in T OBVIOUS
      <4> QED BY <1>1, <3>2, <4>1, CellsOf
    <3> QED BY <1>1, <1>10, <3>1, <3>3
  <2> QED BY <2>1, <2>2
<1> QED BY <1>9, <1>10

\* The image g is f with cells written at offset o, behind its end.
Behind(g, T, f, o, cells) ==
  /\ g \in Seq(T) /\ Len(g) = o + Len(cells)
  /\ \A i \in 1..Len(f) : g[i] = f[i]
  /\ \A i \in Len(f) + 1..o : g[i] = Zero
  /\ \A i \in 1..Len(cells) : g[o + i] = cells[i]

LEMMA OverlayCells ==
  ASSUME NEW T, Zero \in T, NEW f \in Seq(T), NEW cells \in Seq(T), cells # << >>,
         NEW o \in Nat, o >= Len(f)
  PROVE  Behind(Overlay(f, o, cells), T, f, o, cells)
<1> DEFINE z == ZeroFilled(f, o)
           a == SubSeq(z, 1, o)
           b == a \o cells
           c == SubSeq(f, o + Len(cells) + 1, Len(f))
           g == b \o c
<1>1. Len(f) \in Nat /\ Len(cells) \in Nat /\ Len(cells) # 0 OBVIOUS
<1>2. /\ z \in Seq(T) /\ Len(z) = o
      /\ \A i \in 1..Len(f) : z[i] = f[i]
      /\ \A i \in Len(f) + 1..o : z[i] = Zero
  <2>1. CASE o = Len(f) BY <1>1, <2>1 DEF ZeroFilled
  <2>2. CASE o # Len(f)
    <3> DEFINE y == [i \in 1..o - Len(f) |-> Zero]
    <3>1. y \in Seq(T) /\ Len(y) = o - Len(f) /\ \A i \in 1..o - Len(f) : y[i] = Zero BY <1>1
    <3>2. z = f \o y BY <1>1, <2>2 DEF ZeroFilled
    <3> HIDE DEF y, z
    <3>3. /\ f \o y \in Seq(T) /\ Len(f \o y) = Len(f) + Len(y)
          /\ \A i \in 1..Len(f) : (f \o y)[i] = f[i]
          /\ \A i \in 1..Len(y) : (f \o y)[Len(f) + i] = y[i]
      <4>1. f \in Seq(T) OBVIOUS
      <4> QED BY ONLY <3>1, <4>1, SMT
    <3>4. ASSUME NEW i \in Len(f) + 1..o PROVE z[i] = Zero
      <4> DEFINE j == i - Len(f)
      <4>1. j \in 1..Len(y) /\ Len(f) + j = i BY <1>1, <3>1
      <4> HIDE DEF j
      <4> QED BY <3>1, <3>2, <3>3, <4>1
    <3> QED BY <1>1, <3>1, <3>2, <3>3, <3>4
  <2> QED BY <2>1, <2>2
<1> HIDE DEF z
<1>3. a \in Seq(T) /\ Len(a) = o /\ \A i \in 1..o : a[i] = z[i] BY <1>2
<1>4. c = << >> BY <1>1
<1> HIDE DEF a, c
<1>5. /\ b \in Seq(T) /\ Len(b) = o + Len(cells)
      /\ \A i \in 1..o : b[i] = a[i]
      /\ \A i \in 1..Len(cells) : b[o + i] = cells[i]
  BY <1>1, <1>3, SMTT(30)
<1> HIDE DEF b
<1>6. g = b BY <1>4, <1>5
<1>7. g = Overlay(f, o, cells) BY Zenon DEF Overlay, z, a, b, c
<1> HIDE DEF g
<1>8. \A i \in 1..o : g[i] = z[i] BY <1>3, <1>5, <1>6
<1>9. 1..Len(f) \subseteq 1..o /\ Len(f) + 1..o \subseteq 1..o BY <1>1
<1>10. Behind(g, T, f, o, cells) BY <1>2, <1>5, <1>6, <1>8, <1>9 DEF Behind
<1> QED BY <1>7, <1>10

\* The image with the entry, cell by cell.
LEMMA WithEntryCells ==
  ASSUME NEW S, NEW f \in Seq(S), NEW e, IsEntry(e)
  PROVE  LET g == WithEntry(f, e)
             p == Len(f)
             q == NextLogEntryOffset(p, e.len)
             s == SpaceInBlock(p)
         IN /\ \E T : g \in Seq(T)
            /\ Len(g) = q + e.len
            /\ \A i \in 1..p : g[i] = f[i]
            /\ WrittenAt(g, q, e)
            /\ PadCells(p, e.len) = << >> => \A i \in p + 1..q : g[i] = Zero
            /\ PadCells(p, e.len) # << >> =>
                 /\ WrittenAt(g, p, PadEntry(s))
                 /\ \A i \in p + HdrLen + 1..q : g[i] = Zero
<1> DEFINE p == Len(f)
           q == NextLogEntryOffset(p, e.len)
           s == SpaceInBlock(p)
           pads == PadCells(p, e.len)
           T == S \cup {Zero} \cup {Cell(e, k) : k \in Nat} \cup {Cell(PadEntry(s), k) : k \in Nat}
<1>1. e.len \in Nat /\ e.len >= HdrLen /\ HdrLen \in Nat \ {0} BY FormatAssumption DEF IsEntry
<1>2. p \in Nat OBVIOUS
<1>3. /\ q \in Nat /\ q >= p
      /\ pads = << >> \/ (pads = Cells(PadEntry(s)) /\ q = p + s /\ s \in Nat /\ HdrLen <= s)
  BY <1>1, <1>2, Padding
<1>4. Cells(e) \in Seq(T) /\ Len(Cells(e)) = e.len /\ \A i \in 1..e.len : Cells(e)[i] = Cell(e, i - 1)
  <2>1. \A k \in Nat : Cell(e, k) \in T OBVIOUS
  <2> HIDE DEF T
  <2> QED BY <1>1, <2>1, CellsOf
<1>5. PadEntry(s).len = HdrLen BY DEF PadEntry, Entry
<1>6. /\ pads \in Seq(T) /\ Len(pads) \in Nat /\ p + Len(pads) <= q
      /\ pads # << >> => Len(pads) = HdrLen /\ \A i \in 1..HdrLen : pads[i] = Cell(PadEntry(s), i - 1)
  <2>1. CASE pads = << >> BY <1>2, <1>3, <2>1
  <2>2. CASE pads # << >>
    <3>1. pads \in Seq(T) /\ Len(pads) = HdrLen /\ \A i \in 1..HdrLen : pads[i] = Cell(PadEntry(s), i - 1)
      <4>1. \A k \in Nat : Cell(PadEntry(s), k) \in T OBVIOUS
      <4>2. PadEntry(s).len \in Nat /\ pads = Cells(PadEntry(s)) BY <1>1, <1>3, <1>5, <2>2
      <4> HIDE DEF T, pads, s
      <4> QED BY <1>5, <4>1, <4>2, CellsOf
    <3> QED BY <1>1, <1>2, <1>3, <2>2, <3>1
  <2> QED BY <2>1, <2>2
<1>7. f \in Seq(T) /\ Zero \in T OBVIOUS
<1> DEFINE a == Overlay(f, p, pads)
           g == Overlay(a, q, Cells(e))
<1>8. g = WithEntry(f, e) BY DEF WithEntry
<1>9. p = Len(f) BY DEF p
<1> HIDE DEF p, q, s, pads, T
<1>10. Cells(e) # << >> BY <1>1, <1>4
<1>11. /\ a \in Seq(T) /\ Len(a) = p + Len(pads)
       /\ \A i \in 1..p : a[i] = f[i]
       /\ \A i \in 1..Len(pads) : a[p + i] = pads[i]
  <2>1. CASE pads = << >>
    <3>1. a = f BY <2>1 DEF Overlay
    <3> QED BY <1>2, <1>7, <1>9, <2>1, <3>1
  <2>2. CASE pads # << >>
    <3>1. p >= Len(f) BY <1>2, <1>9
    <3>2. pads \in Seq(T) BY <1>6
    <3>3. Behind(a, T, f, p, pads) BY <1>2, <1>7, <2>2, <3>1, <3>2, OverlayCells
    <3> QED BY <1>9, <3>3, Zenon DEF Behind
  <2> QED BY <2>1, <2>2
<1> HIDE DEF a
<1>12. /\ g \in Seq(T) /\ Len(g) = q + Len(Cells(e))
       /\ \A i \in 1..Len(a) : g[i] = a[i]
       /\ \A i \in Len(a) + 1..q : g[i] = Zero
       /\ \A i \in 1..Len(Cells(e)) : g[q + i] = Cells(e)[i]
  <2>1. q >= Len(a) /\ q \in Nat BY <1>2, <1>3, <1>6, <1>11
  <2>2. Cells(e) \in Seq(T) BY <1>4
  <2>3. Behind(g, T, a, q, Cells(e)) BY <1>7, <1>10, <1>11, <2>1, <2>2, OverlayCells
  <2> QED BY <2>3, Zenon DEF Behind
<1> HIDE DEF g
<1>13. Len(g) = q + e.len BY <1>4, <1>12
<1>14. \A i \in 1..p : i \in 1..Len(a) BY <1>2, <1>6, <1>11
<1>15. \A i \in 1..p : g[i] = f[i] BY <1>11, <1>12, <1>14
<1>16. WrittenAt(g, q, e) BY <1>4, <1>12 DEF WrittenAt
<1>17. \A i \in p + Len(pads) + 1..q : g[i] = Zero BY <1>11, <1>12
<1>18. pads # << >> => WrittenAt(g, p, PadEntry(s)) /\ \A i \in p + HdrLen + 1..q : g[i] = Zero
  <2> SUFFICES ASSUME pads # << >> PROVE WrittenAt(g, p, PadEntry(s)) /\ \A i \in p + HdrLen + 1..q : g[i] = Zero
    OBVIOUS
  <2>1. Len(pads) = HdrLen BY <1>6
  <2>2. ASSUME NEW i \in 1..HdrLen PROVE g[p + i] = Cell(PadEntry(s), i - 1)
    <3>1. p + i \in 1..Len(a) /\ i \in 1..Len(pads) BY <1>1, <1>2, <1>6, <1>11, <2>1
    <3> QED BY <1>6, <1>11, <1>12, <3>1
  <2> QED BY <1>5, <1>17, <2>1, <2>2 DEF WrittenAt
<1>19. pads = << >> => \A i \in p + 1..q : g[i] = Zero
  <2> SUFFICES ASSUME pads = << >> PROVE \A i \in p + 1..q : g[i] = Zero OBVIOUS
  <2>1. Len(pads) = 0 /\ p + Len(pads) + 1 = p + 1 BY <1>2
  <2> QED BY <1>17, <2>1
<1> QED BY <1>8, <1>12, <1>13, <1>15, <1>16, <1>18, <1>19 DEF p, q, s, pads


LEMMA ForwardStays ==
  ASSUME NEW S, NEW f \in Seq(S), Forward(f), NEW e, IsEntry(e)
  PROVE  Forward(WithEntry(f, e))
<1> DEFINE g == WithEntry(f, e)
           p == Len(f)
           q == NextLogEntryOffset(p, e.len)
           s == SpaceInBlock(p)
<1>1. e.len \in Nat /\ e.len >= HdrLen /\ HdrLen \in Nat \ {0} /\ e.type # "pad" /\ p \in Nat
  BY FormatAssumption DEF IsEntry
<1>2. q \in Nat /\ q >= p /\ s \in Nat \ {0} BY <1>1, Padding
<1>3. /\ Len(g) = q + e.len
      /\ \A i \in 1..p : g[i] = f[i]
      /\ WrittenAt(g, q, e)
      /\ PadCells(p, e.len) = << >> => \A i \in p + 1..q : g[i] = Zero
      /\ PadCells(p, e.len) # << >> =>
           /\ WrittenAt(g, p, PadEntry(s))
           /\ \A i \in p + HdrLen + 1..q : g[i] = Zero
  BY WithEntryCells
<1> HIDE DEF g, p, q, s
<1>4. \A x, k : k \in Nat => /\ Cell(x, k).k = k
                             /\ k = 0 => Cell(x, k).len = x.len /\ Cell(x, k).type = x.type /\ Cell(x, k).time = x.time
  BY <1>1 DEF Cell
<1>5. PadEntry(s).len = HdrLen /\ PadEntry(s).time = s BY DEF PadEntry, Entry
<1>6. Zero.k # 0 BY DEF Zero
<1>7. ASSUME NEW i \in 1..Len(g), g[i].k = 0
      PROVE  g[i].len \in Nat \ {0} /\ (g[i].type = "pad" => g[i].time \in Nat \ {0})
  <2>1. CASE i \in 1..p
    <3>1. g[i] = f[i] /\ i \in 1..Len(f) BY <1>3, <2>1 DEF p
    <3> QED BY <1>7, <3>1 DEF Forward
  <2>2. CASE i \in q + 1..q + e.len
    <3>1. PICK j \in 1..e.len : i = q + j
      <4>1. i - q \in 1..e.len /\ i = q + (i - q) BY <1>1, <1>2, <2>2
      <4> QED BY <4>1
    <3>2. g[i] = Cell(e, j - 1) /\ j - 1 \in Nat BY <1>3, <3>1 DEF WrittenAt
    <3>3. j - 1 = 0 BY <1>4, <1>7, <3>2
    <3> QED BY <1>1, <1>4, <3>2, <3>3
  <2>3. CASE i \in p + 1..q
    <3>1. PadCells(p, e.len) # << >> /\ ~(i \in p + HdrLen + 1..q) BY <1>3, <1>6, <1>7, <2>3
    <3>2. PICK j \in 1..HdrLen : i = p + j
      <4>1. i - p \in 1..HdrLen /\ i = p + (i - p) BY <1>1, <1>2, <2>3, <3>1
      <4> QED BY <4>1
    <3>3. g[i] = Cell(PadEntry(s), j - 1) /\ j - 1 \in Nat BY <1>3, <1>5, <3>1, <3>2 DEF WrittenAt
    <3>4. j - 1 = 0 BY <1>4, <1>7, <3>3
    <3> QED BY <1>1, <1>2, <1>4, <1>5, <3>3, <3>4
  <2> QED BY <1>1, <1>2, <1>3, <2>1, <2>2, <2>3
<1> QED BY <1>7 DEF Forward, g

\* An entry that was written whole is a header and a body to the reader.
HeaderRead(g, q, x) ==
  /\ IsHeaderAt(g, q)
  /\ g[q + 1].type = x.type /\ g[q + 1].len = x.len /\ g[q + 1].time = x.time

LEMMA WrittenHeader ==
  ASSUME NEW g, NEW q \in Nat, NEW x, x.len \in Nat, x.len >= HdrLen, WrittenAt(g, q, x)
  PROVE  HeaderRead(g, q, x)
<1>1. HdrLen \in Nat \ {0} BY FormatAssumption
<1>2. ASSUME NEW k \in 0..HdrLen - 1
      PROVE  g[q + k + 1] = [k |-> k, type |-> x.type, len |-> x.len, time |-> x.time, val |-> Nothing]
  <2>1. k + 1 \in 1..x.len /\ q + (k + 1) = q + k + 1 /\ (k + 1) - 1 = k BY <1>1
  <2>2. g[q + (k + 1)] = Cell(x, (k + 1) - 1) BY <2>1 DEF WrittenAt
  <2>3. k < HdrLen BY <1>1
  <2> QED BY <2>1, <2>2, <2>3 DEF Cell
<1>3. 0 \in 0..HdrLen - 1 /\ q + 0 + 1 = q + 1 BY <1>1
<1>4. g[q + 1] = [k |-> 0, type |-> x.type, len |-> x.len, time |-> x.time, val |-> Nothing]
  BY <1>2, <1>3
<1>5. IsHeaderAt(g, q) BY <1>2, <1>4 DEF IsHeaderAt
<1>6. g[q + 1].type = x.type /\ g[q + 1].len = x.len /\ g[q + 1].time = x.time
  <2>1. PICK c : c = g[q + 1] OBVIOUS
  <2>2. c = [k |-> 0, type |-> x.type, len |-> x.len, time |-> x.time, val |-> Nothing] BY <1>4, <2>1, Zenon
  <2>3. c.type = x.type /\ c.len = x.len /\ c.time = x.time BY ONLY <2>2
  <2> QED BY <2>1, <2>3, Zenon
<1> QED BY <1>5, <1>6, Zenon DEF HeaderRead

LEMMA WrittenBody ==
  ASSUME NEW g, NEW q \in Nat, NEW x, x.len \in Nat, x.len >= HdrLen, WrittenAt(g, q, x)
  PROVE  BodyValue(g, q, x.len) = IF x.len = HdrLen THEN Nothing ELSE x.val
<1>1. HdrLen \in Nat \ {0} BY FormatAssumption
<1>2. CASE x.len = HdrLen BY <1>2 DEF BodyValue
<1>3. CASE x.len # HdrLen
  <2>1. ASSUME NEW k \in HdrLen..x.len - 1
        PROVE  /\ g[q + k + 1] = Cell(Entry("body", x.len, 0, x.val), k)
               /\ g[q + k + 1].val = x.val
    <3>1. k + 1 \in 1..x.len /\ q + (k + 1) = q + k + 1 /\ (k + 1) - 1 = k /\ ~(k < HdrLen) BY <1>1
    <3>2. g[q + k + 1] = Cell(x, k) BY <3>1 DEF WrittenAt
    <3> QED BY <3>1, <3>2 DEF Cell, Entry
  <2>2. x.len - 1 \in HdrLen..x.len - 1 /\ q + (x.len - 1) + 1 = q + x.len BY <1>1, <1>3
  <2>3. g[q + x.len].val = x.val BY <2>1, <2>2
  <2> DEFINE body == {g[q + k + 1] : k \in HdrLen..x.len - 1}
  <2>4. g[q + (x.len - 1) + 1] \in body BY <2>2
  <2>5. x.val \in {c.val : c \in body} BY <2>1, <2>2, <2>4
  <2>6. \E v \in {c.val : c \in body} :
          \A k \in HdrLen..x.len - 1 : g[q + k + 1] = Cell(Entry("body", x.len, 0, v), k)
    BY <2>1, <2>5
  <2>7. BodyValue(g, q, x.len) = g[q + x.len].val BY <1>3, <2>6 DEF BodyValue
  <2> QED BY <1>3, <2>3, <2>7
<1> QED BY <1>2, <1>3

\* Read where it was written.
LEMMA ReadHere ==
  ASSUME NEW S, NEW g \in Seq(S), NEW q \in Nat, NEW x, IsEntry(x), WrittenAt(g, q, x),
         q + x.len <= Len(g), NEW p \in Nat, HeaderOffset(p) = q, NEW read
  PROVE  ReadAt(g, p, read) = ReadBack(x, q)
<1>1. x.len \in Nat /\ x.len >= HdrLen /\ HdrLen \in Nat \ {0} /\ x.type # "pad"
  BY FormatAssumption DEF IsEntry
<1>2. /\ IsHeaderAt(g, q)
      /\ g[q + 1].type = x.type /\ g[q + 1].len = x.len /\ g[q + 1].time = x.time
  <2>1. HeaderRead(g, q, x) BY <1>1, WrittenHeader
  <2> QED BY <2>1, Zenon DEF HeaderRead
<1>3. BodyValue(g, q, x.len) = IF x.len = HdrLen THEN Nothing ELSE x.val BY <1>1, WrittenBody
<1>4. q < Len(g) /\ q + HdrLen <= Len(g) /\ ~(q + x.len > Len(g)) BY <1>1
<1>5. ~(q >= Len(g)) /\ ~(q < Len(g) /\ q + HdrLen > Len(g)) BY <1>1, <1>4
<1>6. ReadAt(g, p, read) = [status |-> "ok", type |-> g[q + 1].type, len |-> g[q + 1].len,
                            time |-> g[q + 1].time, val |-> BodyValue(g, q, g[q + 1].len),
                            offset |-> q, next |-> q + g[q + 1].len]
  BY <1>1, <1>2, <1>4, <1>5 DEF ReadAt
<1> QED BY <1>2, <1>3, <1>6 DEF ReadBack

\* What jr_LogEntryAddToFilePtr adds at the end of a log is what
\* jr_LogEntryInitFromFilePtr reads there: type, length, time and data, whatever
\* the block size, the header length and where in its block the log ends.
THEOREM EntryIsReadBack ==
  ASSUME NEW S, NEW f \in Seq(S), Forward(f), NEW e, IsEntry(e)
  PROVE  ReadEntry(WithEntry(f, e), Len(f)) = ReadBack(e, NextLogEntryOffset(Len(f), e.len))
<1> DEFINE g == WithEntry(f, e)
           p == Len(f)
           q == NextLogEntryOffset(p, e.len)
           s == SpaceInBlock(p)
<1>1. e.len \in Nat /\ e.len >= HdrLen /\ HdrLen \in Nat \ {0} /\ e.type # "pad" /\ p \in Nat
  BY FormatAssumption DEF IsEntry
<1>2. /\ q \in Nat /\ q >= p /\ s \in Nat \ {0} /\ HeaderOffset(q) = q
      /\ \/ PadCells(p, e.len) = << >> /\ HeaderOffset(p) = q
         \/ /\ PadCells(p, e.len) = Cells(PadEntry(s)) /\ HeaderOffset(p) = p
            /\ q = p + s /\ HdrLen <= s
  BY <1>1, Padding
<1>3. PICK T : g \in Seq(T) BY WithEntryCells
<1>4. /\ Len(g) = q + e.len
      /\ WrittenAt(g, q, e)
      /\ PadCells(p, e.len) # << >> => WrittenAt(g, p, PadEntry(s))
  BY WithEntryCells
<1>5. Forward(g) BY ForwardStays
<1> HIDE DEF g, p, q, s
<1>6. p \in 0..Len(g) /\ q \in 0..Len(g) /\ q < Len(g) BY <1>1, <1>2, <1>4
<1> DEFINE read == [m \in 0..Len(g) |-> ReadEntry(g, m)]
<1>7. \A m \in 0..Len(g) : read[m] = ReadEntry(g, m) OBVIOUS
<1> HIDE DEF read
<1>8. ReadEntry(g, p) = ReadAt(g, p, read) /\ ReadEntry(g, q) = ReadAt(g, q, read)
  BY <1>3, <1>5, <1>6, <1>7, ReadUnrolled
<1>9. q + e.len <= Len(g) BY <1>1, <1>2, <1>4
<1>10. CASE HeaderOffset(p) = q
  <2>1. ReadAt(g, p, read) = ReadBack(e, q) BY <1>1, <1>2, <1>3, <1>4, <1>9, <1>10, ReadHere
  <2> QED BY <1>8, <2>1 DEF g, p, q
<1>11. CASE HeaderOffset(p) # q
  <2>1. /\ PadCells(p, e.len) = Cells(PadEntry(s)) /\ HeaderOffset(p) = p
        /\ q = p + s /\ HdrLen <= s
    BY <1>2, <1>11
  <2>2. PadEntry(s).len = HdrLen /\ PadEntry(s).time = s /\ PadEntry(s).type = "pad" BY DEF PadEntry, Entry
  <2>3. PadCells(p, e.len) # << >>
    <3>1. \A k \in Nat : Cell(PadEntry(s), k) \in {Cell(PadEntry(s), n) : n \in Nat} OBVIOUS
    <3>2. Len(Cells(PadEntry(s))) = HdrLen BY <1>1, <2>2, <3>1, CellsOf
    <3> QED BY <1>1, <2>1, <3>2
  <2>4. IsHeaderAt(g, p) /\ g[p + 1].type = "pad" /\ g[p + 1].time = s
    <3>1. PICK x : x = PadEntry(s) OBVIOUS
    <3>2. x.len \in Nat /\ x.len >= HdrLen /\ WrittenAt(g, p, x) /\ x.type = "pad" /\ x.time = s
      <4>1. x.len = HdrLen /\ x.type = "pad" /\ x.time = s BY <2>2, <3>1, Zenon
      <4>2. WrittenAt(g, p, x) BY <1>4, <2>3, <3>1, Zenon
      <4> QED BY <1>1, <4>1, <4>2
    <3>3. HeaderRead(g, p, x) BY <1>1, <3>2, WrittenHeader
    <3> QED BY <3>2, <3>3, Zenon DEF HeaderRead
  <2>5. ~(p >= Len(g)) /\ ~(p + HdrLen > Len(g)) /\ ~(p + s >= Len(g)) BY <1>1, <1>2, <1>4, <2>1
  <2>6. ReadAt(g, p, read) = read[q] BY <2>1, <2>4, <2>5 DEF ReadAt
  <2>7. ReadAt(g, q, read) = ReadBack(e, q) BY <1>1, <1>2, <1>3, <1>4, <1>9, ReadHere
  <2> QED BY <1>6, <1>7, <1>8, <2>6, <2>7 DEF g, p, q
<1> QED BY <1>10, <1>11

----------------------------------------------------------------------------
(* What was read before is read again after more has been added.           *)

\* The image g begins with the image f.
Extended(g, f) == Len(f) <= Len(g) /\ \A i \in 1..Len(f) : g[i] = f[i]

LEMMA SameBody ==
  ASSUME NEW S, NEW f \in Seq(S), NEW T, NEW g \in Seq(T), Extended(g, f),
         NEW q \in Nat, NEW len \in Nat \ {0}, q + len <= Len(f)
  PROVE  BodyValue(g, q, len) = BodyValue(f, q, len)
<1>1. HdrLen \in Nat \ {0} BY FormatAssumption
<1>2. \A k \in HdrLen..len - 1 : g[q + k + 1] = f[q + k + 1]
  <2> SUFFICES ASSUME NEW k \in HdrLen..len - 1 PROVE g[q + k + 1] = f[q + k + 1] OBVIOUS
  <2>1. q + k + 1 \in 1..Len(f) BY <1>1
  <2> QED BY <2>1 DEF Extended
<1>3. g[q + len] = f[q + len]
  <2>1. q + len \in 1..Len(f) OBVIOUS
  <2> QED BY <2>1 DEF Extended
<1> DEFINE Body(i) == {i[q + k + 1] : k \in HdrLen..len - 1}
           Whole(i) == \E v \in {c.val : c \in Body(i)} :
                         \A k \in HdrLen..len - 1 : i[q + k + 1] = Cell(Entry("body", len, 0, v), k)
<1>4. Body(g) = Body(f) BY <1>2
<1>5. Whole(g) <=> Whole(f)
  <2> HIDE DEF Body
  <2> QED BY <1>2, <1>4
<1>6. \A i : BodyValue(i, q, len) = IF len = HdrLen THEN Nothing ELSE IF Whole(i) THEN i[q + len].val ELSE Garbage
  BY Zenon DEF BodyValue
<1> HIDE DEF Whole
<1> QED BY <1>3, <1>5, <1>6

LEMMA SameHeader ==
  ASSUME NEW S, NEW f \in Seq(S), NEW T, NEW g \in Seq(T), Extended(g, f),
         NEW q \in Nat, q + HdrLen <= Len(f)
  PROVE  /\ IsHeaderAt(g, q) <=> IsHeaderAt(f, q)
         /\ g[q + 1] = f[q + 1]
<1>1. HdrLen \in Nat \ {0} BY FormatAssumption
<1>2. \A k \in 0..HdrLen - 1 : g[q + k + 1] = f[q + k + 1]
  <2> SUFFICES ASSUME NEW k \in 0..HdrLen - 1 PROVE g[q + k + 1] = f[q + k + 1] OBVIOUS
  <2>1. q + k + 1 \in 1..Len(f) BY <1>1
  <2> QED BY <2>1 DEF Extended
<1>3. g[q + 1] = f[q + 1]
  <2>1. q + 1 \in 1..Len(f) BY <1>1
  <2> QED BY <2>1 DEF Extended
<1>4. IsHeaderAt(g, q) <=> IsHeaderAt(f, q) BY <1>2, <1>3 DEF IsHeaderAt
<1> QED BY <1>3, <1>4

\* An entry read at p is read again, and lies inside of the image.
ReadAgain(f, g, p) ==
  ReadEntry(f, p).status = "ok" =>
    /\ ReadEntry(g, p) = ReadEntry(f, p)
    /\ ReadEntry(f, p).next \in p + 1..Len(f)

LEMMA ReadAgainAt ==
  ASSUME NEW S, NEW f \in Seq(S), NEW T, NEW g \in Seq(T), Extended(g, f), Forward(f), Forward(g),
         NEW p \in 0..Len(f), \A m \in p + 1..Len(f) : ReadAgain(f, g, m)
  PROVE  ReadAgain(f, g, p)
<1> SUFFICES ASSUME ReadEntry(f, p).status = "ok"
             PROVE  /\ ReadEntry(g, p) = ReadEntry(f, p)
                    /\ ReadEntry(f, p).next \in p + 1..Len(f)
  BY DEF ReadAgain
<1> DEFINE q == HeaderOffset(p)
           u == [m \in 0..Len(f) |-> ReadEntry(f, m)]
           v == [m \in 0..Len(g) |-> ReadEntry(g, m)]
<1>1. q \in Nat /\ q >= p BY HeaderOffsetForward
<1>2. HdrLen \in Nat \ {0} BY FormatAssumption
<1>3. Len(f) \in Nat /\ Len(g) \in Nat /\ Len(f) <= Len(g) BY DEF Extended
<1>4. (\A m \in 0..Len(f) : u[m] = ReadEntry(f, m)) /\ (\A m \in 0..Len(g) : v[m] = ReadEntry(g, m))
  OBVIOUS
<1> HIDE DEF q, u, v
<1>5. ReadEntry(f, p) = ReadAt(f, p, u) BY <1>4, ReadUnrolled
<1>6. ReadEntry(g, p) = ReadAt(g, p, v)
  <2>1. p \in 0..Len(g) BY <1>3
  <2> QED BY <1>4, <2>1, ReadUnrolled
<1>7. ReadFailed("eof").status # "ok" /\ ReadFailed("short").status # "ok" /\ ReadFailed("magic").status # "ok"
  BY DEF ReadFailed
<1>8. q + HdrLen <= Len(f)
  <2> SUFFICES ASSUME ~(q + HdrLen <= Len(f)) PROVE FALSE OBVIOUS
  <2>1. q >= Len(f) \/ (q < Len(f) /\ q + HdrLen > Len(f)) BY <1>1, <1>2, <1>3
  <2> QED BY <1>5, <1>7, <2>1 DEF ReadAt, q
<1>9. ~(q >= Len(f)) /\ ~(q + HdrLen > Len(f)) /\ ~(q >= Len(g)) /\ ~(q + HdrLen > Len(g))
  BY <1>1, <1>2, <1>3, <1>8
<1>10. IsHeaderAt(f, q) BY <1>5, <1>7, <1>9 DEF ReadAt, q
<1>11. IsHeaderAt(g, q) /\ g[q + 1] = f[q + 1] BY <1>1, <1>8, <1>10, SameHeader
<1>12. f[q + 1].len \in Nat \ {0} /\ (f[q + 1].type = "pad" => f[q + 1].time \in Nat \ {0})
  BY <1>1, <1>8, <1>10, HeaderLeads
<1>13. CASE f[q + 1].type = "pad"
  <2> DEFINE n == q + f[q + 1].time
  <2>1. ~(n >= Len(f)) BY <1>5, <1>7, <1>9, <1>10, <1>13 DEF ReadAt, q
  <2>2. n \in p + 1..Len(f) /\ n \in 0..Len(f) /\ n \in 0..Len(g) /\ ~(n >= Len(g))
    BY <1>1, <1>3, <1>12, <1>13, <2>1
  <2>3. ReadAt(f, p, u) = u[n] BY <1>9, <1>10, <1>13, <2>1 DEF ReadAt, q
  <2>4. ReadAt(g, p, v) = v[n] BY <1>9, <1>11, <1>13, <2>2 DEF ReadAt, q
  <2>5. ReadEntry(f, p) = ReadEntry(f, n) /\ ReadEntry(g, p) = ReadEntry(g, n)
    BY <1>4, <1>5, <1>6, <2>2, <2>3, <2>4
  <2> HIDE DEF n
  <2>6. ReadAgain(f, g, n) BY <2>2
  <2>7. ReadEntry(g, n) = ReadEntry(f, n) /\ ReadEntry(f, n).next \in n + 1..Len(f)
    BY <2>5, <2>6, Zenon DEF ReadAgain
  <2>8. n + 1..Len(f) \subseteq p + 1..Len(f) BY <1>3, <2>2
  <2> QED BY <2>5, <2>7, <2>8, Zenon
<1>14. CASE f[q + 1].type # "pad"
  <2> DEFINE n == f[q + 1].len
  <2>1. ~(q + n > Len(f)) BY <1>5, <1>7, <1>9, <1>10, <1>14 DEF ReadAt, q
  <2>2. q + n <= Len(f) /\ ~(q + n > Len(g)) /\ q + n \in p + 1..Len(f) BY <1>1, <1>3, <1>12, <2>1
  <2>3. ReadAt(f, p, u) = [status |-> "ok", type |-> f[q + 1].type, len |-> n, time |-> f[q + 1].time,
                           val |-> BodyValue(f, q, n), offset |-> q, next |-> q + n]
    BY <1>9, <1>10, <1>14, <2>1 DEF ReadAt, q
  <2>4. ReadAt(g, p, v) = [status |-> "ok", type |-> g[q + 1].type, len |-> g[q + 1].len, time |-> g[q + 1].time,
                           val |-> BodyValue(g, q, g[q + 1].len), offset |-> q, next |-> q + g[q + 1].len]
    BY <1>9, <1>11, <1>14, <2>2 DEF ReadAt, q
  <2>5. BodyValue(g, q, n) = BodyValue(f, q, n) BY <1>1, <1>12, <2>2, SameBody
  <2>6. ReadAt(g, p, v) = ReadAt(f, p, u) BY <1>11, <2>3, <2>4, <2>5, Zenon
  <2>7. ReadAt(f, p, u).next = q + n BY <2>3
  <2> QED BY <1>5, <1>6, <2>2, <2>6, <2>7
<1> QED BY <1>13, <1>14

LEMMA ReadsStay ==
  ASSUME NEW S, NEW f \in Seq(S), NEW T, NEW g \in Seq(T), Extended(g, f), Forward(f), Forward(g)
  PROVE  \A p \in 0..Len(f) : ReadAgain(f, g, p)
<1> DEFINE N == Len(f)
           P == {k \in 0..N : \A m \in k..N : ReadAgain(f, g, m)}
<1>1. N \in Nat OBVIOUS
<1>2. N \in P
  <2>1. \A m \in N + 1..N : ReadAgain(f, g, m) BY <1>1
  <2>2. N \in 0..N BY <1>1
  <2>3. ReadAgain(f, g, N) BY <2>1, <2>2, ReadAgainAt
  <2>4. \A m \in N..N : m = N BY <1>1
  <2> QED BY <2>2, <2>3, <2>4
<1>3. ASSUME NEW n \in 1..N, n \in P PROVE n - 1 \in P
  <2>1. n - 1 \in 0..N /\ (n - 1) + 1..N = n..N BY <1>1
  <2>2. \A m \in (n - 1) + 1..N : ReadAgain(f, g, m) BY <1>3, <2>1
  <2>3. ReadAgain(f, g, n - 1) BY <2>1, <2>2, ReadAgainAt
  <2>4. \A m \in n - 1..N : m = n - 1 \/ m \in n..N BY <1>1
  <2> QED BY <1>3, <2>1, <2>3, <2>4
<1>4. 0..N \subseteq P
  <2> HIDE DEF P, N
  <2> QED BY <1>1, <1>2, <1>3, Backwards
<1>5. 0 \in P BY <1>1, <1>4
<1> QED BY <1>5

----------------------------------------------------------------------------
(* The whole log: the entries are read in the order in which they were     *)
(* added, and behind the last one the end of the file.                     *)

\* What ReadAll gives at offset p, given what it gives behind it.
ListAt(f, p, all) ==
  LET e == ReadEntry(f, p) IN IF e.status = "ok" THEN <<e>> \o all[e.next] ELSE <<e>>

Listing(f, all) == all = [p \in 0..Len(f) |-> ListAt(f, p, all)]

LEMMA NextForward ==
  ASSUME NEW S, NEW f \in Seq(S), Forward(f), NEW p \in 0..Len(f), ReadEntry(f, p).status = "ok"
  PROVE  ReadEntry(f, p).next \in p + 1..Len(f)
<1>1. Extended(f, f) BY DEF Extended
<1>2. ReadAgain(f, f, p) BY <1>1, ReadsStay
<1> QED BY <1>2 DEF ReadAgain

LEMMA ListAtSame ==
  ASSUME NEW S, NEW f \in Seq(S), Forward(f), NEW p \in 0..Len(f), NEW u, NEW v,
         \A m \in p + 1..Len(f) : u[m] = v[m]
  PROVE  ListAt(f, p, u) = ListAt(f, p, v)
<1>1. CASE ReadEntry(f, p).status = "ok"
  <2>1. ReadEntry(f, p).next \in p + 1..Len(f) BY <1>1, NextForward
  <2>2. u[ReadEntry(f, p).next] = v[ReadEntry(f, p).next] BY <2>1
  <2> QED BY <2>2 DEF ListAt
<1>2. CASE ReadEntry(f, p).status # "ok" BY <1>2 DEF ListAt
<1> QED BY <1>1, <1>2

LEMMA ListingExists ==
  ASSUME NEW S, NEW f \in Seq(S), Forward(f)
  PROVE  \E all : Listing(f, all)
<1> DEFINE N == Len(f)
           P == {k \in 0..N : \E g : \A p \in k..N : g[p] = ListAt(f, p, g)}
<1>1. N \in Nat OBVIOUS
<1>2. N \in P
  <2> DEFINE e == [p \in {N} |-> ListAt(f, N, << >>)]
  <2>1. \A p \in N..N : p = N /\ p \in 0..N BY <1>1
  <2>2. \A m \in N + 1..N : e[m] = << >>[m] BY <1>1
  <2>3. e[N] = ListAt(f, N, << >>) OBVIOUS
  <2> HIDE DEF e
  <2>4. N \in 0..N BY <1>1
  <2>5. ListAt(f, N, e) = ListAt(f, N, << >>) BY <2>2, <2>4, ListAtSame
  <2>6. \A p \in N..N : e[p] = ListAt(f, p, e) BY <2>1, <2>3, <2>5
  <2> QED BY <2>4, <2>6
<1>3. ASSUME NEW n \in 1..N, n \in P PROVE n - 1 \in P
  <2>1. PICK g : \A p \in n..N : g[p] = ListAt(f, p, g) BY <1>3
  <2> DEFINE h == [p \in 0..N |-> IF p = n - 1 THEN ListAt(f, n - 1, g) ELSE g[p]]
  <2>2. n - 1 \in 0..N /\ h[n - 1] = ListAt(f, n - 1, g) /\ \A m \in n..N : h[m] = g[m] BY <1>1
  <2> HIDE DEF h
  <2>3. ASSUME NEW p \in n - 1..N PROVE h[p] = ListAt(f, p, h)
    <3>1. p \in 0..N /\ \A m \in p + 1..N : m \in n..N BY <1>1
    <3>2. \A m \in p + 1..Len(f) : g[m] = h[m] BY <2>2, <3>1
    <3>3. ListAt(f, p, g) = ListAt(f, p, h) BY <3>1, <3>2, ListAtSame
    <3>4. p = n - 1 \/ p \in n..N OBVIOUS
    <3> QED BY <2>1, <2>2, <3>3, <3>4
  <2> QED BY <2>2, <2>3
<1>4. 0..N \subseteq P
  <2> HIDE DEF P, N
  <2> QED BY <1>1, <1>2, <1>3, Backwards
<1>5. 0 \in 0..N BY <1>1
<1>6. PICK g : \A p \in 0..N : g[p] = ListAt(f, p, g) BY <1>4, <1>5
<1> DEFINE all == [p \in 0..N |-> g[p]]
<1>7. \A p \in 0..N : all[p] = g[p] /\ \A m \in p + 1..N : g[m] = all[m] BY <1>1
<1>8. \A p \in 0..N : all[p] = ListAt(f, p, all)
  <2> SUFFICES ASSUME NEW p \in 0..N PROVE all[p] = ListAt(f, p, all) OBVIOUS
  <2> HIDE DEF all
  <2>1. ListAt(f, p, g) = ListAt(f, p, all) BY <1>7, ListAtSame
  <2> QED BY <1>6, <1>7, <2>1
<1>9. all = [p \in 0..N |-> ListAt(f, p, all)]
  <2>1. all = [p \in 0..N |-> all[p]] OBVIOUS
  <2> HIDE DEF all
  <2>2. [p \in 0..N |-> all[p]] = [p \in 0..N |-> ListAt(f, p, all)] BY <1>8
  <2> QED BY <2>1, <2>2
<1> QED BY <1>9 DEF Listing

LEMMA ReadAllUnrolled ==
  ASSUME NEW S, NEW f \in Seq(S), Forward(f), NEW p \in 0..Len(f)
  PROVE  ReadAll(f, p) = IF ReadEntry(f, p).status = "ok"
                         THEN <<ReadEntry(f, p)>> \o ReadAll(f, ReadEntry(f, p).next)
                         ELSE <<ReadEntry(f, p)>>
<1> DEFINE R == CHOOSE r : Listing(f, r)
<1>1. Listing(f, R) BY ListingExists
<1>2. \A m : ReadAll(f, m) = IF m >= Len(f) THEN <<ReadFailed("eof")>> ELSE R[m]
  <2> SUFFICES ASSUME NEW m PROVE ReadAll(f, m) = IF m >= Len(f) THEN <<ReadFailed("eof")>> ELSE R[m] OBVIOUS
  <2>1. CASE m >= Len(f) BY <2>1 DEF ReadAll
  <2>2. CASE ~(m >= Len(f))
    <3>1. ReadAll(f, m) = R[m] BY <2>2, Zenon DEF ReadAll, Listing, ListAt
    <3> QED BY <2>2, <3>1
  <2> QED BY <2>1, <2>2
<1> HIDE DEF R
<1>3. \A m \in 0..Len(f) : R[m] = ListAt(f, m, R) BY <1>1 DEF Listing
<1>4. \A m \in 0..Len(f) : ReadAll(f, m) = R[m]
  <2> SUFFICES ASSUME NEW m \in 0..Len(f) PROVE ReadAll(f, m) = R[m] OBVIOUS
  <2>1. CASE m >= Len(f)
    <3>1. ReadEntry(f, m) = ReadFailed("eof") BY <2>1 DEF ReadEntry
    <3>2. ReadFailed("eof").status # "ok" BY DEF ReadFailed
    <3>3. ListAt(f, m, R) = <<ReadFailed("eof")>> BY <3>1, <3>2 DEF ListAt
    <3> QED BY <1>2, <1>3, <2>1, <3>3
  <2>2. CASE ~(m >= Len(f)) BY <1>2, <2>2
  <2> QED BY <2>1, <2>2
<1>5. CASE ReadEntry(f, p).status = "ok"
  <2>1. ReadEntry(f, p).next \in 0..Len(f)
    <3>1. ReadEntry(f, p).next \in p + 1..Len(f) BY <1>5, NextForward
    <3> QED BY <3>1
  <2> QED BY <1>3, <1>4, <1>5, <2>1 DEF ListAt
<1>6. CASE ReadEntry(f, p).status # "ok" BY <1>3, <1>4, <1>6 DEF ListAt
<1> QED BY <1>5, <1>6


\* The reads rs follow each other from the start of image f to its end.
Start(rs, i) == IF i = 1 THEN 0 ELSE rs[i - 1].next

ReadInOrder(f, rs) ==
  /\ \A i \in 1..Len(rs) : /\ Start(rs, i) \in 0..Len(f)
                           /\ rs[i].status = "ok"
                           /\ rs[i] = ReadEntry(f, Start(rs, i))
  /\ Start(rs, Len(rs) + 1) = Len(f)

\* One entry more is one read more.
LEMMA OneMore ==
  ASSUME NEW S, NEW f \in Seq(S), Forward(f), NEW R, NEW rs \in Seq(R), ReadInOrder(f, rs),
         NEW e, IsEntry(e), NEW r, r = ReadBack(e, NextLogEntryOffset(Len(f), e.len))
  PROVE  ReadInOrder(WithEntry(f, e), Append(rs, r))
<1> DEFINE g == WithEntry(f, e)
           q == NextLogEntryOffset(Len(f), e.len)
           n == Len(rs)
           ss == Append(rs, r)
<1>1. PICK T : g \in Seq(T) BY WithEntryCells
<1>2. Len(g) = q + e.len /\ \A i \in 1..Len(f) : g[i] = f[i] BY WithEntryCells
<1>3. Forward(g) BY ForwardStays
<1>4. ReadEntry(g, Len(f)) = r BY EntryIsReadBack
<1>5. e.len \in Nat /\ e.len >= HdrLen /\ HdrLen \in Nat \ {0} BY FormatAssumption DEF IsEntry
<1>6. Len(f) \in Nat /\ n \in Nat OBVIOUS
<1>7. q \in Nat /\ q >= Len(f) BY <1>5, <1>6, Padding
<1>8. r.status = "ok" /\ r.next = q + e.len BY DEF ReadBack
<1>9. Len(ss) = n + 1 /\ ss[n + 1] = r /\ \A i \in 1..n : ss[i] = rs[i]
  <2>1. rs \in Seq(R \cup {r}) /\ r \in R \cup {r} OBVIOUS
  <2> QED BY ONLY <1>6, <2>1, SMT
<1> HIDE DEF g, q, ss
<1>10. Extended(g, f) BY <1>2, <1>5, <1>6, <1>7 DEF Extended
<1>11. \A i \in 1..n + 1 : Start(ss, i) = Start(rs, i)
  <2> SUFFICES ASSUME NEW i \in 1..n + 1 PROVE Start(ss, i) = Start(rs, i) OBVIOUS
  <2>1. i = 1 \/ i - 1 \in 1..n BY <1>6
  <2> QED BY <1>9, <2>1 DEF Start
<1>12. ASSUME NEW i \in 1..n
       PROVE  /\ Start(ss, i) \in 0..Len(g)
              /\ ss[i].status = "ok"
              /\ ss[i] = ReadEntry(g, Start(ss, i))
  <2>1. /\ Start(rs, i) \in 0..Len(f) /\ rs[i].status = "ok" /\ rs[i] = ReadEntry(f, Start(rs, i))
        /\ ss[i] = rs[i] /\ Start(ss, i) = Start(rs, i)
    <3>1. i \in 1..n + 1 BY <1>6
    <3> QED BY <1>9, <1>11, <3>1 DEF ReadInOrder
  <2>2. ReadAgain(f, g, Start(rs, i)) BY <1>1, <1>3, <1>10, <2>1, ReadsStay
  <2>3. ReadEntry(g, Start(rs, i)) = rs[i] BY <2>1, <2>2 DEF ReadAgain
  <2>4. Start(rs, i) \in 0..Len(g) BY <1>6, <1>10, <2>1 DEF Extended
  <2> QED BY <2>1, <2>3, <2>4, Zenon
<1>13. /\ Start(ss, n + 1) \in 0..Len(g)
       /\ ss[n + 1].status = "ok"
       /\ ss[n + 1] = ReadEntry(g, Start(ss, n + 1))
  <2>1. Start(ss, n + 1) = Len(f)
    <3>1. n + 1 \in 1..n + 1 BY <1>6
    <3> QED BY <1>11, <3>1 DEF ReadInOrder
  <2>2. Len(f) \in 0..Len(g) BY <1>2, <1>5, <1>6, <1>7
  <2> QED BY <1>4, <1>8, <1>9, <2>1, <2>2
<1>14. Start(ss, Len(ss) + 1) = Len(g)
  <2>1. Start(ss, n + 2) = ss[n + 1].next BY <1>6 DEF Start
  <2>2. Len(ss) + 1 = n + 2 BY <1>6, <1>9
  <2> QED BY <1>2, <1>8, <1>9, <2>1, <2>2
<1>15. \A i \in 1..Len(ss) : i \in 1..n \/ i = n + 1 BY <1>6, <1>9
<1>16. ReadInOrder(g, ss) BY <1>12, <1>13, <1>14, <1>15 DEF ReadInOrder
<1> QED BY <1>16 DEF g, ss

\* ReadAll gives the reads one after the other, and then the end of the file.
LEMMA AllInOrder ==
  ASSUME NEW S, NEW f \in Seq(S), Forward(f), NEW R, NEW rs \in Seq(R), ReadInOrder(f, rs)
  PROVE  ReadAll(f, 0) = [i \in 1..Len(rs) + 1 |-> IF i <= Len(rs) THEN rs[i] ELSE ReadFailed("eof")]
<1> DEFINE n == Len(rs)
           U == R \cup {ReadFailed("eof")}
           Rest(k) == [i \in 1..n - k + 1 |-> IF i <= n - k THEN rs[k + i] ELSE ReadFailed("eof")]
           P == {k \in 0..n : ReadAll(f, Start(rs, k + 1)) = Rest(k)}
<1>1. n \in Nat OBVIOUS
<1>2. \A k \in 0..n : /\ Rest(k) \in Seq(U) /\ Len(Rest(k)) = n - k + 1
                      /\ \A i \in 1..n - k : Rest(k)[i] = rs[k + i]
                      /\ Rest(k)[n - k + 1] = ReadFailed("eof")
  <2> SUFFICES ASSUME NEW k \in 0..n
               PROVE  /\ Rest(k) \in Seq(U) /\ Len(Rest(k)) = n - k + 1
                      /\ \A i \in 1..n - k : Rest(k)[i] = rs[k + i]
                      /\ Rest(k)[n - k + 1] = ReadFailed("eof")
    OBVIOUS
  <2>1. n - k \in Nat /\ \A i \in 1..n - k : k + i \in 1..n BY <1>1
  <2>2. \A i \in 1..n : rs[i] \in R OBVIOUS
  <2> QED BY <1>1, <2>1, <2>2
<1> HIDE DEF Rest, U
<1>3. n \in P
  <2>1. Start(rs, n + 1) = Len(f) BY DEF ReadInOrder
  <2>2. ReadAll(f, Len(f)) = <<ReadFailed("eof")>> BY DEF ReadAll
  <2>3. Rest(n) \in Seq(U) /\ Len(Rest(n)) = 1 /\ Rest(n)[1] = ReadFailed("eof")
    <3>1. n \in 0..n /\ n - n + 1 = 1 BY <1>1
    <3> QED BY <1>2, <3>1
  <2>4. Rest(n) = <<ReadFailed("eof")>> BY <2>3
  <2> QED BY <1>1, <2>1, <2>2, <2>4
<1>4. ASSUME NEW k \in 1..n, k \in P PROVE k - 1 \in P
  <2>1. /\ Start(rs, k) \in 0..Len(f) /\ rs[k].status = "ok" /\ rs[k] = ReadEntry(f, Start(rs, k))
    BY DEF ReadInOrder
  <2>2. Start(rs, k + 1) = rs[k].next BY <1>1 DEF Start
  <2>3. ReadAll(f, Start(rs, k)) = <<rs[k]>> \o ReadAll(f, Start(rs, k + 1))
    BY <2>1, <2>2, ReadAllUnrolled
  <2>4. ReadAll(f, Start(rs, k + 1)) = Rest(k) BY <1>4
  <2> DEFINE v == Rest(k)
             w == Rest(k - 1)
  <2>5. /\ v \in Seq(U) /\ Len(v) = n - k + 1
        /\ \A i \in 1..n - k : v[i] = rs[k + i]
        /\ v[n - k + 1] = ReadFailed("eof")
    <3>1. k \in 0..n OBVIOUS
    <3> QED BY <1>2, <3>1
  <2>6. /\ w \in Seq(U) /\ Len(w) = n - k + 2
        /\ \A i \in 1..n - k + 1 : w[i] = rs[k - 1 + i]
        /\ w[n - k + 2] = ReadFailed("eof")
    <3>1. k - 1 \in 0..n /\ n - (k - 1) + 1 = n - k + 2 /\ n - (k - 1) = n - k + 1 BY <1>1
    <3> QED BY <1>2, <3>1
  <2> HIDE DEF v, w
  <2>7. rs[k] \in U BY DEF U
  <2> DEFINE x == <<rs[k]>> \o v
  <2>8. /\ x \in Seq(U) /\ Len(x) = n - k + 2 /\ x[1] = rs[k]
        /\ \A i \in 2..n - k + 2 : x[i] = v[i - 1]
    <3> DEFINE y == <<rs[k]>>
    <3>1. y \in Seq(U) /\ Len(y) = 1 /\ y[1] = rs[k] BY <2>7
    <3>2. x = y \o v OBVIOUS
    <3> HIDE DEF x, y
    <3>3. /\ y \o v \in Seq(U) /\ Len(y \o v) = Len(y) + Len(v)
          /\ \A i \in 1..Len(y) : (y \o v)[i] = y[i]
          /\ \A i \in 1..Len(v) : (y \o v)[Len(y) + i] = v[i]
      <4>1. y \in Seq(U) /\ v \in Seq(U) BY <2>5, <3>1
      <4> QED BY ONLY <4>1, SMT
    <3>4. ASSUME NEW i \in 2..n - k + 2 PROVE x[i] = v[i - 1]
      <4>1. i - 1 \in 1..Len(v) /\ Len(y) + (i - 1) = i BY <1>1, <2>5, <3>1
      <4> QED BY <3>2, <3>3, <4>1
    <3> QED BY <1>1, <2>5, <3>1, <3>2, <3>3, <3>4
  <2> HIDE DEF x
  <2>9. ASSUME NEW i \in 1..n - k + 2 PROVE x[i] = w[i]
    <3>1. CASE i = 1
      <4>1. 1 \in 1..n - k + 1 /\ k - 1 + 1 = k BY <1>1
      <4> QED BY <2>6, <2>8, <3>1, <4>1
    <3>2. CASE i = n - k + 2
      <4>1. n - k + 2 \in 2..n - k + 2 /\ n - k + 2 - 1 = n - k + 1 BY <1>1
      <4> QED BY <2>5, <2>6, <2>8, <3>2, <4>1, SMTT(30)
    <3>3. CASE i \in 2..n - k + 1
      <4>1. /\ i \in 2..n - k + 2 /\ i - 1 \in 1..n - k /\ i \in 1..n - k + 1
            /\ k + (i - 1) = k - 1 + i
        BY <1>1, <3>3
      <4> QED BY <2>5, <2>6, <2>8, <4>1
    <3> QED BY <1>1, <3>1, <3>2, <3>3
  <2>10. x = w
    <3>1. Len(x) = Len(w) /\ \A i \in 1..Len(x) : x[i] = w[i] BY <2>6, <2>8, <2>9
    <3> QED BY <2>6, <2>8, <3>1, SeqEqual
  <2>11. k - 1 \in 0..n /\ (k - 1) + 1 = k BY <1>1
  <2> QED BY <2>3, <2>4, <2>10, <2>11 DEF v, w, x
<1>5. 0..n \subseteq P
  <2> HIDE DEF P, n
  <2> QED BY <1>1, <1>3, <1>4, Backwards
<1>6. 0 \in 0..n BY <1>1
<1>7. ReadAll(f, Start(rs, 0 + 1)) = Rest(0) BY <1>5, <1>6
<1>8. Start(rs, 0 + 1) = 0 BY DEF Start
<1>9. Rest(0) = [i \in 1..n + 1 |-> IF i <= n THEN rs[i] ELSE ReadFailed("eof")]
  BY <1>1 DEF Rest
<1> QED BY <1>7, <1>8, <1>9

\* Induction upwards, for the entries of a log.
LEMMA Upwards ==
  ASSUME NEW N \in Nat, NEW P, 0 \in P, \A n \in 1..N : n - 1 \in P => n \in P
  PROVE  N \in P
<1> DEFINE Q == {n \in 0..N : N - n \in P}
<1>1. N \in Q BY DEF Q
<1>2. ASSUME NEW n \in 1..N, n \in Q PROVE n - 1 \in Q
  <2>1. N - n + 1 \in 1..N /\ (N - n + 1) - 1 = N - n /\ N - (n - 1) = N - n + 1 /\ n - 1 \in 0..N
    OBVIOUS
  <2>2. N - n \in P BY <1>2
  <2> QED BY <2>1, <2>2
<1>3. 0..N \subseteq Q
  <2> HIDE DEF Q
  <2> QED BY <1>1, <1>2, Backwards
<1>4. 0 \in Q BY <1>3
<1> QED BY <1>4

\* The images of a new log to which the entries es are added one by one, and
\* what is expected to be read of the last one.
Added(fs, es) ==
  /\ fs[0] = << >>
  /\ \A i \in 1..Len(es) : IsEntry(es[i]) /\ fs[i] = WithEntry(fs[i - 1], es[i])

ReadsOf(fs, es) ==
  [i \in 1..Len(es) + 1 |->
     IF i <= Len(es) THEN ReadBack(es[i], NextLogEntryOffset(Len(fs[i - 1]), es[i].len))
                     ELSE ReadFailed("eof")]

\* A log of any number of entries is read as they were added: every one of them,
\* in their order, none of the pads between them, and then the end of the file.
THEOREM LogIsReadBack ==
  ASSUME NEW E, NEW es \in Seq(E), NEW fs, Added(fs, es)
  PROVE  ReadAll(fs[Len(es)], 0) = ReadsOf(fs, es)
<1> DEFINE N == Len(es)
           back(i) == ReadBack(es[i], NextLogEntryOffset(Len(fs[i - 1]), es[i].len))
           V == {back(i) : i \in 1..N}
           Rs(n) == [i \in 1..n |-> back(i)]
           P == {n \in 0..N : /\ \E S : fs[n] \in Seq(S)
                              /\ Forward(fs[n])
                              /\ ReadInOrder(fs[n], Rs(n))}
<1>1. N \in Nat OBVIOUS
<1>11. \A i \in 1..N : back(i) \in V OBVIOUS
<1> HIDE DEF back, V
<1>2. \A n \in 0..N : Rs(n) \in Seq(V) /\ Len(Rs(n)) = n /\ \A i \in 1..n : Rs(n)[i] = back(i)
  <2> SUFFICES ASSUME NEW n \in 0..N
               PROVE  Rs(n) \in Seq(V) /\ Len(Rs(n)) = n /\ \A i \in 1..n : Rs(n)[i] = back(i)
    OBVIOUS
  <2>1. n \in Nat /\ \A i \in 1..n : i \in 1..N BY <1>1
  <2>2. \A i \in 1..n : back(i) \in V BY <1>11, <2>1
  <2> QED BY <2>1, <2>2
<1>3. 0 \in P
  <2>1. fs[0] = << >> /\ fs[0] \in Seq({}) /\ Len(fs[0]) = 0 BY DEF Added
  <2>2. Forward(fs[0]) BY <2>1 DEF Forward
  <2>3. 0 \in 0..N /\ Len(Rs(0)) = 0 BY <1>1, <1>2
  <2> HIDE DEF Rs
  <2>4. ReadInOrder(fs[0], Rs(0)) BY <2>1, <2>3 DEF ReadInOrder, Start
  <2> QED BY <2>1, <2>2, <2>3, <2>4
<1>4. ASSUME NEW n \in 1..N, n - 1 \in P PROVE n \in P
  <2>1. IsEntry(es[n]) /\ fs[n] = WithEntry(fs[n - 1], es[n]) BY DEF Added
  <2>2. PICK S : fs[n - 1] \in Seq(S) BY <1>4
  <2>3. Forward(fs[n - 1]) /\ ReadInOrder(fs[n - 1], Rs(n - 1)) BY <1>4
  <2>4. n - 1 \in 0..N /\ n \in 0..N BY <1>1
  <2>5. \E T : fs[n] \in Seq(T) BY <2>1, <2>2, WithEntryCells
  <2>6. Forward(fs[n]) BY <2>1, <2>2, <2>3, ForwardStays
  <2> DEFINE rs == Rs(n - 1)
             ss == Append(rs, back(n))
  <2>7. rs \in Seq(V) /\ Len(rs) = n - 1 /\ \A i \in 1..n - 1 : rs[i] = back(i) BY <1>2, <2>4
  <2>8. Rs(n) \in Seq(V) /\ Len(Rs(n)) = n /\ \A i \in 1..n : Rs(n)[i] = back(i) BY <1>2, <2>4
  <2>9. back(n) \in V BY DEF V
  <2> HIDE DEF Rs, rs
  <2>10. ss \in Seq(V) /\ Len(ss) = n /\ \A i \in 1..n : ss[i] = back(i)
    <3>1. n - 1 \in Nat /\ (n - 1) + 1 = n OBVIOUS
    <3> QED BY <2>7, <2>9, <3>1
  <2> HIDE DEF ss
  <2>11. ss = Rs(n) BY <2>8, <2>10
  <2>12. back(n) = ReadBack(es[n], NextLogEntryOffset(Len(fs[n - 1]), es[n].len)) BY DEF back
  <2>13. ReadInOrder(fs[n], ss)
    <3>1. ReadInOrder(fs[n - 1], rs) BY <2>3 DEF rs
    <3>2. ReadInOrder(WithEntry(fs[n - 1], es[n]), Append(rs, back(n)))
      BY <2>1, <2>2, <2>3, <2>7, <2>12, <3>1, OneMore
    <3> QED BY <2>1, <3>2 DEF ss
  <2> QED BY <2>4, <2>5, <2>6, <2>11, <2>13
<1>5. N \in P
  <2> HIDE DEF P, N
  <2> QED BY <1>1, <1>3, <1>4, Upwards
<1>6. PICK S : fs[N] \in Seq(S) BY <1>5
<1>7. Forward(fs[N]) /\ ReadInOrder(fs[N], Rs(N)) BY <1>5
<1>8. Rs(N) \in Seq(V) /\ Len(Rs(N)) = N /\ \A i \in 1..N : Rs(N)[i] = back(i)
  <2>1. N \in 0..N BY <1>1
  <2> QED BY <1>2, <2>1
<1> HIDE DEF Rs
<1>9. ReadAll(fs[N], 0) = [i \in 1..N + 1 |-> IF i <= N THEN Rs(N)[i] ELSE ReadFailed("eof")]
  <2> HIDE DEF N
  <2> QED BY <1>6, <1>7, <1>8, AllInOrder
<1>10. [i \in 1..N + 1 |-> IF i <= N THEN Rs(N)[i] ELSE ReadFailed("eof")] = ReadsOf(fs, es)
  <2>1. ReadsOf(fs, es) = [i \in 1..N + 1 |-> IF i <= N THEN back(i) ELSE ReadFailed("eof")]
    BY DEF ReadsOf, back
  <2>2. \A i \in 1..N + 1 : i <= N => Rs(N)[i] = back(i) BY <1>1, <1>8
  <2> QED BY <2>1, <2>2
<1> QED BY <1>9, <1>10
=============================================================================
