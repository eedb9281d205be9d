------------------------------ MODULE AVLTree ------------------------------
(***************************************************************************)
(* The balanced tree of libjr/avl_tree, by key (avl_ins.c, avl_del.c,      *)
(* avl_find.c, avl_path.c) and by index (avl_indx.c).  An element is its   *)
(* key.  Each function is written once for both sides of the tree.  Sizes  *)
(* are maintained in every tree; one used by key alone may leave them out. *)
(***************************************************************************)
EXTENDS Integers, Sequences, FiniteSets, SequencesExt, FiniteSetsExt

CONSTANTS Nodes,         (* the elements of a tree used by key              *)
          IndexedNodes   (* those of a tree used by index                   *)

ASSUME AVLTreeAssumption == Nodes \subseteq Nat \ {0} /\ IndexedNodes \subseteq Nodes

VARIABLES root, child, height, size,
          keyed,       (* cmpfn is not jr_AVL_TreeIndexedCmp                *)
          extracted    (* history: an element was extracted since the tree
                          was empty                                         *)

tree_vars == <<root, child, height, size, keyed, extracted>>

Null == 0

\* jr_AVL_TreeBalanceElement writes its steps once for each side.
Other(s) == IF s = "left" THEN "right" ELSE "left"

\* A tree as a value, for the functions that work on one in steps.
Tree == [root |-> root, child |-> child, height |-> height, size |-> size]

BecomeTree(tree) ==
  /\ \E t \in {tree} :
       root' = t.root /\ child' = t.child /\ height' = t.height /\ size' = t.size
  /\ UNCHANGED keyed

HeightOf(t, n) == IF n = Null THEN -1 ELSE t.height[n]

SizeOf(t, n) == IF n = Null THEN 0 ELSE t.size[n]

\* An element outside of the tree: jr_AVL_TreeMakeNullElement; its size is not kept.
NullElement(t, n) ==
  [t EXCEPT !.child["left"][n] = Null, !.child["right"][n] = Null,
            !.height[n] = -1, !.size[n] = 0]

----------------------------------------------------------------------------
(* Paths from the root, which the code keeps in arrays of                  *)
(* jr_AVL_TREE_MAX_HEIGHT elements.                                        *)

\* Down from element n, always to side s.
FarPath(t, n, s) ==
  LET down[m \in Nodes \cup {Null}] ==
        IF m = Null THEN << >> ELSE <<m>> \o down[t.child[s][m]]
  IN down[n]

\* jr_AVL_TreeFillSearchPath: to the element with key k, or to the one below
\* which it would be.
SearchPath(t, k) ==
  LET down[n \in Nodes \cup {Null}] ==
        IF n = Null THEN << >>
        ELSE IF n = k THEN <<n>>
        ELSE <<n>> \o down[t.child[IF k < n THEN "left" ELSE "right"][n]]
  IN down[t.root]

\* The same by index; i is relative to the first index below n.
IndexPath(t, index) ==
  LET down[n \in Nodes \cup {Null}, i \in Int] ==
        IF n = Null THEN << >>
        ELSE LET before == SizeOf(t, t.child["left"][n])
             IN <<n>> \o (IF i = before THEN << >>
                          ELSE IF i < before THEN down[t.child["left"][n], i]
                          ELSE down[t.child["right"][n], i - before - 1])
  IN down[t.root, index]

----------------------------------------------------------------------------
(* Balancing.                                                              *)

\* new takes the place of old below parent.
ReplaceChild(t, parent, old, new) ==
  IF parent = Null THEN [t EXCEPT !.root = new]
  ELSE LET s == IF t.child["right"][parent] = old THEN "right" ELSE "left"
       IN [t EXCEPT !.child[s][parent] = new]

UpdateTreeSize(tree, n) ==
  LET t == tree
  IN [t EXCEPT !.size[n] = 1 + SizeOf(t, t.child["left"][n]) + SizeOf(t, t.child["right"][n])]

\* The child on side s takes the place of curr.
SingleRotation(t, s, curr, parent) ==
  LET o       == Other(s)
      top     == t.child[s][curr]
      rotated == [ReplaceChild(t, parent, curr, top) EXCEPT
                    !.child[o][top]  = curr,
                    !.child[s][curr] = t.child[o][top],
                    !.height[curr]   = HeightOf(t, t.child[o][curr]) + 1,
                    !.height[top]    = HeightOf(t, t.child[s][top]) + 1]
  IN UpdateTreeSize(UpdateTreeSize(rotated, curr), top)

\* The inner grandchild on side s takes the place of curr.
DoubleRotation(t, s, curr, parent) ==
  LET o       == Other(s)
      low     == t.child[s][curr]
      top     == t.child[o][low]
      rotated == [ReplaceChild(t, parent, curr, top) EXCEPT
                    !.child[s][curr] = t.child[o][top],
                    !.child[o][low]  = t.child[s][top],
                    !.child[o][top]  = curr,
                    !.child[s][top]  = low,
                    !.height[curr]   = HeightOf(t, t.child[o][curr]) + 1,
                    !.height[low]    = HeightOf(t, t.child[s][low]) + 1,
                    !.height[top]    = HeightOf(t, t.child[o][curr]) + 2]
  IN UpdateTreeSize(UpdateTreeSize(UpdateTreeSize(rotated, curr), low), top)

BalanceElement(t, curr, parent) ==
  LET Child(s) == t.child[s][curr]
      s   == IF HeightOf(t, Child("right")) > HeightOf(t, Child("left")) THEN "right" ELSE "left"
      low == Child(s)
  IN IF HeightOf(t, t.child[s][low]) > HeightOf(t, t.child[Other(s)][low])
     THEN SingleRotation(t, s, curr, parent)
     ELSE DoubleRotation(t, s, curr, parent)

\* One element of the path, from the end: [tree, done].
BalanceStep(t, path, i) ==
  LET n    == path[i]
      hs   == {HeightOf(t, t.child["left"][n]), HeightOf(t, t.child["right"][n])}
      high == Max(hs)
  IN IF high - Min(hs) = 2
     THEN [tree |-> BalanceElement(t, n, IF i = 1 THEN Null ELSE path[i - 1]), done |-> TRUE]
     ELSE [tree |-> [t EXCEPT !.height[n] = high + 1], done |-> t.height[n] = high + 1]

\* Mutant: the elements of the path are only measured.
BalancePathFlat(t, path) ==
  FoldRight(LAMBDA i, u : [u EXCEPT !.height[path[i]] =
                1 + Max({HeightOf(u, u.child[s][path[i]]) : s \in {"left", "right"}})],
            [i \in 1..Len(path) |-> i], t)

BalancePath(t, path) ==
  FoldRight(LAMBDA i, acc : IF acc.done THEN acc ELSE BalanceStep(acc.tree, path, i),
            [i \in 1..Len(path) |-> i],
            [tree |-> t, done |-> FALSE]).tree

\* Every element of path counts d elements more.
CountOnPath(t, path, d) ==
  [t EXCEPT !.size = [n \in Nodes |-> IF n \in ToSet(path) THEN @[n] + d ELSE @[n]]]

----------------------------------------------------------------------------
(* Operations.                                                             *)

AppendToPath(t, path, s, new) ==
  LET linked == IF path = << >> THEN [t EXCEPT !.root = new]
                ELSE [t EXCEPT !.child[s][Last(path)] = new]
  IN BalancePath(CountOnPath([linked EXCEPT !.height[new] = 0, !.size[new] = 1], path, 1), path)

\* Mutant: the child of the replacement is lost when the replacement is not a
\* child of the deleted element.
TakeOutLosesChild(t, deleted, above, s, new) ==
  IF above = deleted THEN [t EXCEPT !.child[s][deleted] = t.child[s][new]]
  ELSE [t EXCEPT !.child[Other(s)][above] = Null]

\* The replacement new is taken out below above.
TakeOut(t, deleted, above, s, new) ==
  IF above = deleted THEN [t EXCEPT !.child[s][deleted] = t.child[s][new]]
  ELSE [t EXCEPT !.child[Other(s)][above] = t.child[s][new]]

\* The element at the end of the path is replaced by the one next to it in its
\* higher subtree, if it has any, and balancing starts above the place that one
\* was taken from.
ExtractPathEnd(t, path) ==
  LET deleted == Last(path)
      at      == Len(path)
      parent  == IF at = 1 THEN Null ELSE path[at - 1]
      Sub(s)  == t.child[s][deleted]
      s       == IF HeightOf(t, Sub("left")) > HeightOf(t, Sub("right")) THEN "left" ELSE "right"
      low     == IF Sub(s) = Null THEN << >>
                 ELSE <<Sub(s)>> \o FarPath(t, t.child[Other(s)][Sub(s)], Other(s))
      new     == IF low = << >> THEN Null ELSE Last(low)
      above   == (path \o low)[at + Len(low) - 1]
      taken   == TakeOut(t, deleted, above, s, new)
      moved   == IF new = Null THEN t
                 ELSE [taken EXCEPT !.child["left"][new]  = taken.child["left"][deleted],
                                    !.child["right"][new] = taken.child["right"][deleted],
                                    !.height[new]         = taken.height[deleted],
                                    !.size[new]           = taken.size[deleted]]
      changed == Front([path EXCEPT ![at] = new] \o low)
  IN NullElement(BalancePath(CountOnPath(ReplaceChild(moved, parent, deleted, new), changed, -1),
                             changed),
                 deleted)

\* jr_AVL_TreeInsertElementUsingKey: an element with the key is refused.
InsertElementUsingKey(n) ==
  LET path == SearchPath(Tree, n)
  IN /\ n \notin ToSet(path)
     /\ UNCHANGED extracted
     /\ BecomeTree(AppendToPath(Tree, path,
                            IF path # << >> /\ n < Last(path) THEN "left" ELSE "right", n))

ExtractElementUsingKey(n) ==
  LET path == SearchPath(Tree, n)
  IN /\ n \in ToSet(path)
     /\ extracted' = TRUE
     /\ BecomeTree(ExtractPathEnd(Tree, path))

\* Mutant: the element at the index stays in front of the new one.
InsertPathBehind(t, index) ==
  LET path == IndexPath(t, index)
  IN IF index = SizeOf(t, t.root) \/ t.child["right"][Last(path)] = Null
     THEN [path |-> path, side |-> "right"]
     ELSE [path |-> path \o FarPath(t, t.child["right"][Last(path)], "left"), side |-> "left"]

\* Where the new element goes: below the element that has the index, or, when
\* that one has a left child, behind the last element before it.
InsertPath(t, index) ==
  LET path == IndexPath(t, index)
      left == FarPath(t, t.child["left"][Last(path)], "right")
  IN IF index = SizeOf(t, t.root) THEN [path |-> path, side |-> "right"]
     ELSE IF left = << >> THEN [path |-> path, side |-> "left"]
     ELSE [path |-> path \o left, side |-> "right"]

InsertElementUsingIndex(n, index) ==
  LET p == InsertPath(Tree, index)
  IN /\ UNCHANGED extracted
     /\ BecomeTree(AppendToPath(Tree, p.path, p.side, n))

\* Extracting beyond the last index is an assertion failure.
ExtractElementUsingIndex(index) ==
  /\ extracted' = TRUE
  /\ BecomeTree(ExtractPathEnd(Tree, IndexPath(Tree, index)))

AppendLastIndexedElement(n) ==
  /\ UNCHANGED extracted
  /\ BecomeTree(AppendToPath(Tree, FarPath(Tree, root, "right"), "right", n))

EmptyTree == [root |-> Null, child |-> [s \in {"left", "right"} |-> [n \in Nodes |-> Null]],
              height |-> [n \in Nodes |-> -1], size |-> [n \in Nodes |-> 0]]

TreeEmpty == BecomeTree(EmptyTree) /\ extracted' = FALSE

----------------------------------------------------------------------------
(* Lookups.                                                                *)

\* jr_AVL_TreeTraverseInOrder.
InOrder(t) ==
  LET visit[n \in Nodes \cup {Null}] ==
        IF n = Null THEN << >>
        ELSE visit[t.child["left"][n]] \o <<n>> \o visit[t.child["right"][n]]
  IN visit[t.root]

FindUsingKey(t, k) ==
  LET path == SearchPath(t, k) IN IF path # << >> /\ Last(path) = k THEN k ELSE Null

FindUsingIndex(t, i) ==
  LET path == IndexPath(t, i)
  IN IF i \in 0..SizeOf(t, t.root) - 1 THEN Last(path) ELSE Null

\* The element at the end of the tree: jr_AVL_TreeSmallestElementPtr,
\* jr_AVL_TreeGreatestElementPtr.
Extreme(t, s) == IF t.root = Null THEN Null ELSE Last(FarPath(t, t.root, s))

\* Mutant: the search goes up to the parent only.
NeighbourFromPathParent(t, path, s) ==
  LET below == t.child[s][Last(path)]
  IN IF below # Null THEN Last(FarPath(t, below, Other(s)))
     ELSE IF Len(path) = 1 THEN Null ELSE path[Len(path) - 1]

\* jr_AVL_TreeGetPrevPtrFromPath (s is left), jr_AVL_TreeGetNextPtrFromPath.
NeighbourFromPath(t, path, s) ==
  LET below == t.child[s][Last(path)]
      turns == {i \in 2..Len(path) : t.child[s][path[i - 1]] # path[i]}
  IN IF below # Null THEN Last(FarPath(t, below, Other(s)))
     ELSE IF turns = {} THEN Null ELSE path[Max(turns) - 1]

\* jr_AVL_TreePrevElementPtr, jr_AVL_TreeNextElementPtr; k need not be in the tree.
Neighbour(t, k, s) ==
  LET path == SearchPath(t, k)
      last == Last(path)
  IN IF path = << >> THEN Null
     ELSE IF (s = "left" /\ k > last) \/ (s = "right" /\ k < last) THEN last
     ELSE NeighbourFromPath(t, path, s)

----------------------------------------------------------------------------
TreeInit ==
  /\ root = Null
  /\ child = EmptyTree.child
  /\ height = EmptyTree.height
  /\ size = EmptyTree.size
  /\ keyed \in BOOLEAN
  /\ extracted = FALSE

InTree == ToSet(InOrder(Tree))

ByKey == keyed /\ \E n \in Nodes : InsertElementUsingKey(n) \/ ExtractElementUsingKey(n)

ByIndex ==
  /\ ~keyed
  /\ \/ \E n \in IndexedNodes \ InTree :
          \/ \E i \in 0..SizeOf(Tree, root) : InsertElementUsingIndex(n, i)
          \/ AppendLastIndexedElement(n)
     \/ \E i \in 0..SizeOf(Tree, root) - 1 : ExtractElementUsingIndex(i)

TreeNext == ByKey \/ ByIndex \/ TreeEmpty

TreeSpec == TreeInit /\ [][TreeNext]_tree_vars

----------------------------------------------------------------------------
(* Properties.                                                             *)

OrderPromise == INSTANCE OrderedTable WITH order <- InOrder(Tree), sorted <- keyed

\* Rotations, replacements and rebalancing keep the order of the elements: every
\* operation inserts or extracts its one element (jr_AVL_TreeAppendToPath,
\* jr_AVL_TreeExtractPathEnd).
ImplementsOrderedTable == OrderPromise!Spec

\* Every insertion by index puts the element at the index it was given, and every
\* extraction takes the element at its index (jr_AVL_TreeInsertElementUsingIndex,
\* jr_AVL_TreeExtractElementUsingIndex).
PositionsKept ==
  [][~keyed =>
       \A i \in 0..SizeOf(Tree, root) :
         /\ \A n \in IndexedNodes \ InTree :
              InsertElementUsingIndex(n, i) => InOrder(Tree)' = InsertAt(InOrder(Tree), i + 1, n)
         /\ i < SizeOf(Tree, root) /\ ExtractElementUsingIndex(i)
              => InOrder(Tree)' = RemoveAt(InOrder(Tree), i + 1)]_tree_vars

\* Depth of the subtree below n, in elements.
Depth(t, n) ==
  LET depth[m \in Nodes \cup {Null}] ==
        IF m = Null THEN 0 ELSE 1 + Max({depth[t.child["left"][m]], depth[t.child["right"][m]]})
  IN depth[n]

\* Part of LookupsAgree: a tree that is only inserted into, by key or by index, is
\* an AVL tree: recorded heights are right, and those of two siblings differ by one
\* at most (jr_AVL_TreeBalancePath).
Balanced ==
  ~extracted => \A n \in InTree :
    LET hs == {Depth(Tree, child[s][n]) : s \in {"left", "right"}}
    IN /\ height[n] = Depth(Tree, n) - 1
       /\ Max(hs) - Min(hs) <= 1

\* All lookups agree with the order of the elements, by key, by neighbour, by end
\* and by index, so every recorded size is right; and as long as nothing was
\* extracted the recorded heights are right and the tree is balanced.
LookupsAgree ==
  LET order == InOrder(Tree)
      Least(S)    == IF S = {} THEN Null ELSE Min(S)
      Greatest(S) == IF S = {} THEN Null ELSE Max(S)
  IN /\ Extreme(Tree, "left")  = IF order = << >> THEN Null ELSE Head(order)
     /\ Extreme(Tree, "right") = IF order = << >> THEN Null ELSE Last(order)
     /\ SizeOf(Tree, root) = Len(order)
     /\ Balanced
     /\ \A i \in 0..Len(order) :
          FindUsingIndex(Tree, i) = IF i = Len(order) THEN Null ELSE order[i + 1]
     /\ keyed => \A k \in Nodes :
          /\ FindUsingKey(Tree, k) = IF k \in InTree THEN k ELSE Null
          /\ Neighbour(Tree, k, "left")  = Greatest({n \in InTree : n < k})
          /\ Neighbour(Tree, k, "right") = Least({n \in InTree : n > k})

\* Elements of the sparsest AVL tree of depth d.
Sparsest(d) ==
  LET least[n \in Nat] == IF n < 2 THEN n ELSE 1 + least[n - 1] + least[n - 2] IN least[d]

\* Statement of avl_tree.h that does not hold when elements are extracted, "AVL
\* height < 1.44 * log2(n)": a tree is not deeper than an AVL tree of its size,
\* which is what the length of the search paths on the stack relies on.
HeightBound == Len(InOrder(Tree)) >= Sparsest(Depth(Tree, root))
=============================================================================
