--------------------------- MODULE NodeTreeProofs ---------------------------
(* The nodes form a forest in which a path names one node, and the validators of *)
(* a node are found, for any set of nodes, slugs and requests.                   *)
EXTENDS NodeStaking, TLAPS, FiniteSetTheorems

\* The holder of the table lock, and nobody else, is between its check and its write.
HolderMoves ==
    \A e \in Editors : edit[e].at \in {"locked", "checked"} =>
        lock = e /\ edit[e].node \in Nodes /\ edit[e].under \in Nodes

\* What was checked is still true when the move is written.
CheckHolds ==
    \A e \in Editors : edit[e].at = "checked" =>
        /\ edit[e].under \in live /\ edit[e].under # edit[e].node
        /\ edit[e].node \in live => ~InSubtree(edit[e].under, edit[e].node)

\* Siblings have different slugs, and so have roots.
SiblingsDiffer == \A m, n \in live : parent[m] = parent[n] /\ slug[m] = slug[n] => m = n

TreeInv ==
    /\ TreeTypeOK
    /\ IsFiniteSet(live)
    /\ HolderMoves
    /\ CheckHolds
    /\ NodesFormForest
    /\ SiblingsDiffer

rowVars == <<live, born, parent, slug>>

-----------------------------------------------------------------------------
LEMMA InitStep == ASSUME TreeInit PROVE TreeInv
<1>1. NoEdit \in EditType /\ NoEdit.at = "idle"
  BY TreeAssumption DEF NoEdit, EditType
<1>2. TreeTypeOK
  BY <1>1, TreeAssumption DEF TreeInit, TreeTypeOK, NoEdit
<1>3. IsFiniteSet(live)
  BY FS_EmptySet DEF TreeInit
<1>4. HolderMoves /\ CheckHolds
  BY <1>1 DEF TreeInit, HolderMoves, CheckHolds
<1>5. NodesFormForest /\ SiblingsDiffer
  BY DEF TreeInit, NodesFormForest, SiblingsDiffer
<1> QED BY <1>2, <1>3, <1>4, <1>5 DEF TreeInv

\* The tree as it was is still the tree.
LEMMA SameTree ==
    ASSUME UNCHANGED rowVars
    PROVE  /\ NodesFormForest' = NodesFormForest
           /\ SiblingsDiffer' = SiblingsDiffer
           /\ \A m, n : InSubtree(m, n)' = InSubtree(m, n)
<1>1. live' = live /\ parent' = parent /\ slug' = slug
  BY DEF rowVars
<1> QED BY <1>1 DEF NodesFormForest, SiblingsDiffer, InSubtree, ClosedBelow

\* While nobody holds the lock nothing has been checked.
LEMMA NothingChecked ==
    ASSUME TreeInv, Unlocked
    PROVE  \A e \in Editors : edit[e].at \notin {"locked", "checked"}
BY TreeAssumption DEF TreeInv, HolderMoves, Unlocked

-----------------------------------------------------------------------------
(* Requests, as long as they leave the tree alone                          *)

LEMMA FindParentStep ==
    ASSUME TreeInv, NEW e \in Editors, NEW p \in Nodes \cup {NoNode}, NEW s \in Slugs,
           FindParent(e, p, s)
    PROVE  TreeInv'
<1>1. UNCHANGED rowVars /\ UNCHANGED lock
  BY DEF FindParent, rowVars
<1>2. TreeTypeOK'
  BY DEF FindParent, TreeInv, TreeTypeOK, EditType
<1>3. \A d \in Editors : (edit'[d].at = edit[d].at /\ edit'[d] = edit[d]) \/ edit'[d].at = "insert"
  BY DEF FindParent, TreeInv, TreeTypeOK
<1>4. HolderMoves'
  BY <1>1, <1>3 DEF TreeInv, HolderMoves
<1>5. CheckHolds'
  BY <1>1, <1>3, SameTree DEF TreeInv, CheckHolds, rowVars
<1> QED BY <1>1, <1>2, <1>4, <1>5, SameTree DEF TreeInv, rowVars

LEMMA LockStep ==
    ASSUME TreeInv, NEW e \in Editors, NEW n \in Nodes, NEW p \in Nodes, NEW s \in Slugs,
           LockTable(e, n, p, s)
    PROVE  TreeInv'
<1>1. UNCHANGED rowVars /\ lock' = e
  BY DEF LockTable, rowVars
<1>2. TreeTypeOK'
  BY DEF LockTable, TreeInv, TreeTypeOK, EditType
<1>3. /\ \A d \in Editors \ {e} : edit'[d] = edit[d] /\ edit[d].at \notin {"locked", "checked"}
      /\ edit'[e].at = "locked" /\ edit'[e].node \in Nodes /\ edit'[e].under \in Nodes
  BY NothingChecked DEF LockTable, TreeInv, TreeTypeOK
<1>4. HolderMoves' /\ CheckHolds'
  BY <1>1, <1>3 DEF HolderMoves, CheckHolds
<1> QED BY <1>1, <1>2, <1>4, SameTree DEF TreeInv, rowVars

LEMMA CheckStep == ASSUME TreeInv, NEW e \in Editors, CheckMove(e) PROVE TreeInv'
<1>1. UNCHANGED rowVars /\ UNCHANGED lock
  BY DEF CheckMove, rowVars
<1>2. TreeTypeOK'
  BY DEF CheckMove, TreeInv, TreeTypeOK, EditType
<1>3. /\ \A d \in Editors \ {e} : edit'[d] = edit[d]
      /\ edit[e].at = "locked" /\ edit'[e].at = "checked"
      /\ edit'[e].node = edit[e].node /\ edit'[e].under = edit[e].under
  BY DEF CheckMove, TreeInv, TreeTypeOK, EditType
<1>4. HolderMoves'
  BY <1>1, <1>3 DEF TreeInv, HolderMoves
<1>5. /\ edit[e].under \in live /\ edit[e].under # edit[e].node
      /\ edit[e].node \in live => ~InSubtree(edit[e].under, edit[e].node)
  BY DEF CheckMove
<1>6. live' = live /\ \A m, n : InSubtree(m, n)' = InSubtree(m, n)
  BY <1>1, SameTree DEF rowVars
<1>7. CheckHolds'
  <2>1. SUFFICES ASSUME NEW d \in Editors, edit'[d].at = "checked"
                 PROVE  /\ edit'[d].under \in live /\ edit'[d].under # edit'[d].node
                        /\ edit'[d].node \in live => ~InSubtree(edit'[d].under, edit'[d].node)
    BY <1>6 DEF CheckHolds
  <2>2. CASE d = e
    BY <1>3, <1>5, <2>2
  <2>3. CASE d # e
    BY <1>3, <2>1, <2>3 DEF TreeInv, CheckHolds
  <2> QED BY <2>2, <2>3
<1> QED BY <1>1, <1>2, <1>4, <1>7, SameTree DEF TreeInv, rowVars

LEMMA AbortStep == ASSUME TreeInv, NEW e \in Editors, Abort(e) PROVE TreeInv'
<1>1. UNCHANGED rowVars
  BY DEF Abort, rowVars
<1>2. TreeTypeOK'
  BY TreeAssumption DEF Abort, TreeInv, TreeTypeOK, EditType, NoEdit
<1>3. /\ \A d \in Editors \ {e} : edit'[d] = edit[d]
      /\ edit'[e].at = "idle"
  BY DEF Abort, TreeInv, TreeTypeOK, NoEdit
<1>4. \A d \in Editors \ {e} : lock = d => lock' = d
  BY DEF Abort
<1>5. HolderMoves'
  BY <1>3, <1>4 DEF TreeInv, HolderMoves
<1>6. CheckHolds'
  BY <1>1, <1>3, SameTree DEF TreeInv, CheckHolds, rowVars
<1> QED BY <1>1, <1>2, <1>5, <1>6, SameTree DEF TreeInv, rowVars

-----------------------------------------------------------------------------
(* Changes of the tree                                                     *)

LEMMA SpawnStep == ASSUME TreeInv, NEW e \in Editors, NEW n \in Nodes, Spawn(e, n) PROVE TreeInv'
<1> DEFINE p == edit[e].under
<1>1. /\ n \notin live /\ p \in live \cup {NoNode} /\ n # NoNode
      /\ live' = live \cup {n} /\ parent' = [parent EXCEPT ![n] = p]
      /\ slug' = [slug EXCEPT ![n] = edit[e].name]
      /\ edit' = [edit EXCEPT ![e] = NoEdit] /\ UNCHANGED lock
      /\ Unlocked /\ SlugFree(n, p, edit[e].name)
  BY TreeAssumption DEF Spawn, ParentExists, TreeInv, TreeTypeOK
<1>2. TreeTypeOK'
  BY TreeAssumption DEF Spawn, ParentExists, TreeInv, TreeTypeOK, EditType, NoEdit
<1>3. IsFiniteSet(live')
  BY <1>1, FS_AddElement DEF TreeInv
<1>4. \A d \in Editors : edit'[d].at \notin {"locked", "checked"}
  BY <1>1, NothingChecked DEF TreeInv, TreeTypeOK, NoEdit
<1>5. HolderMoves' /\ CheckHolds'
  BY <1>4 DEF HolderMoves, CheckHolds
<1>6. /\ \A m \in live : parent'[m] = parent[m] /\ slug'[m] = slug[m]
      /\ parent'[n] = p /\ slug'[n] = edit[e].name
  BY <1>1 DEF TreeInv, TreeTypeOK
<1>7. NodesFormForest'
  <2>1. \A m \in live' : parent'[m] \in live' \cup {NoNode}
    BY <1>1, <1>6 DEF TreeInv, NodesFormForest
  <2>2. ASSUME NEW S \in SUBSET live', S # {}
        PROVE  \E m \in S : parent'[m] \notin S
    <3>1. CASE n \notin S
      BY <1>1, <1>6, <2>2, <3>1 DEF TreeInv, NodesFormForest
    <3>2. CASE S = {n}
      BY <1>1, <1>6, <3>2
    <3>3. CASE n \in S /\ S # {n}
      <4>1. PICK m \in S \ {n} : parent[m] \notin S \ {n}
        BY <1>1, <3>3 DEF TreeInv, NodesFormForest
      <4>2. parent[m] # n
        BY <1>1, <4>1 DEF TreeInv, NodesFormForest
      <4> QED BY <1>1, <1>6, <4>1, <4>2
    <3> QED BY <3>1, <3>2, <3>3
  <2> QED BY <2>1, <2>2 DEF NodesFormForest
<1>8. SiblingsDiffer'
  BY <1>1, <1>6 DEF TreeInv, SiblingsDiffer, SlugFree
<1> QED BY <1>2, <1>3, <1>5, <1>7, <1>8 DEF TreeInv

LEMMA MoveStep == ASSUME TreeInv, NEW e \in Editors, Move(e) PROVE TreeInv'
<1> DEFINE n == edit[e].node
           p == edit[e].under
<1>1. /\ n \in live /\ p \in live /\ n # p /\ ~InSubtree(p, n) /\ lock = e
      /\ parent' = [parent EXCEPT ![n] = p] /\ slug' = [slug EXCEPT ![n] = edit[e].name]
      /\ live' = live /\ SlugFree(n, p, edit[e].name)
      /\ lock' = NoNode /\ edit' = [edit EXCEPT ![e] = NoEdit]
  BY DEF Move, TreeInv, CheckHolds, HolderMoves
<1>2. TreeTypeOK'
  BY <1>1, TreeAssumption DEF Move, TreeInv, TreeTypeOK, EditType, NoEdit
<1>3. \A d \in Editors : edit'[d].at \notin {"locked", "checked"}
  BY <1>1 DEF TreeInv, TreeTypeOK, NoEdit, HolderMoves
<1>4. HolderMoves' /\ CheckHolds'
  BY <1>3 DEF HolderMoves, CheckHolds
<1>5. /\ \A m \in live \ {n} : parent'[m] = parent[m] /\ slug'[m] = slug[m]
      /\ parent'[n] = p /\ slug'[n] = edit[e].name
  BY <1>1 DEF TreeInv, TreeTypeOK
<1>6. PICK D \in SUBSET live : n \in D /\ ClosedBelow(D) /\ p \notin D
  BY <1>1 DEF InSubtree
<1>7. NodesFormForest'
  <2>1. \A m \in live' : parent'[m] \in live' \cup {NoNode}
    BY <1>1, <1>5 DEF TreeInv, NodesFormForest
  <2>2. ASSUME NEW S \in SUBSET live', S # {}
        PROVE  \E m \in S : parent'[m] \notin S
    <3>1. CASE S \subseteq D /\ n \in S
      BY <1>5, <1>6, <3>1
    <3>2. CASE n \notin S
      BY <1>1, <1>5, <2>2, <3>2 DEF TreeInv, NodesFormForest
    <3>3. CASE ~(S \subseteq D)
      <4>1. PICK m \in S \ D : parent[m] \notin S \ D
        BY <1>1, <3>3 DEF TreeInv, NodesFormForest
      <4>2. parent[m] \notin S
        BY <1>1, <1>6, <4>1 DEF ClosedBelow
      <4> QED BY <1>1, <1>5, <1>6, <4>1, <4>2
    <3> QED BY <3>1, <3>2, <3>3
  <2> QED BY <2>1, <2>2 DEF NodesFormForest
<1>8. SiblingsDiffer'
  BY <1>1, <1>5 DEF TreeInv, SiblingsDiffer, SlugFree
<1> QED BY <1>1, <1>2, <1>4, <1>7, <1>8 DEF TreeInv

LEMMA UpdateStep ==
    ASSUME TreeInv, NEW n \in Nodes, NEW p \in Nodes \cup {NoNode}, NEW s \in Slugs,
           Update(n, p, s)
    PROVE  TreeInv'
<1>1. /\ n \in live /\ p \in {parent[n], NoNode} /\ SlugFree(n, p, s) /\ Unlocked
      /\ parent' = [parent EXCEPT ![n] = p] /\ slug' = [slug EXCEPT ![n] = s]
      /\ live' = live /\ UNCHANGED <<born, lock, edit>>
  BY DEF Update
<1>2. TreeTypeOK'
  BY <1>1 DEF TreeInv, TreeTypeOK
<1>3. HolderMoves' /\ CheckHolds'
  BY <1>1, NothingChecked DEF HolderMoves, CheckHolds
<1>4. /\ \A m \in live \ {n} : parent'[m] = parent[m] /\ slug'[m] = slug[m]
      /\ parent'[n] = p /\ slug'[n] = s
  BY <1>1 DEF TreeInv, TreeTypeOK
<1>5. NodesFormForest'
  <2>1. \A m \in live' : parent'[m] \in live' \cup {NoNode}
    BY <1>1, <1>4 DEF TreeInv, NodesFormForest
  <2>2. ASSUME NEW S \in SUBSET live', S # {}
        PROVE  \E m \in S : parent'[m] \notin S
    <3>1. CASE n \in S /\ p = NoNode
      BY <1>1, <1>4, <2>2, <3>1, TreeAssumption DEF TreeInv, TreeTypeOK
    <3>2. CASE n \notin S \/ p = parent[n]
      BY <1>1, <1>4, <2>2, <3>2 DEF TreeInv, NodesFormForest
    <3> QED BY <1>1, <3>1, <3>2
  <2> QED BY <2>1, <2>2 DEF NodesFormForest
<1>6. SiblingsDiffer'
  BY <1>1, <1>4 DEF TreeInv, SiblingsDiffer, SlugFree
<1> QED BY <1>1, <1>2, <1>3, <1>5, <1>6 DEF TreeInv

LEMMA DeleteStep == ASSUME TreeInv, NEW gone \in SUBSET live, Delete(gone) PROVE TreeInv'
<1>1. /\ live' = live \ gone /\ parent' = Orphaned(gone) /\ RootsStayApart(gone) /\ Unlocked
      /\ slug' = [n \in Nodes |-> IF n \in gone THEN NoEdit.name ELSE slug[n]]
      /\ UNCHANGED <<born, lock, edit>>
  BY DEF Delete
<1>2. TreeTypeOK'
  BY <1>1, TreeAssumption DEF TreeInv, TreeTypeOK, Orphaned, NoEdit
<1>3. IsFiniteSet(live')
  BY <1>1, FS_Subset DEF TreeInv
<1>4. HolderMoves' /\ CheckHolds'
  BY <1>1, NothingChecked DEF HolderMoves, CheckHolds
<1>5. live' \subseteq Nodes /\ \A m \in live' : slug'[m] = slug[m]
        /\ parent'[m] = IF parent[m] \in gone THEN NoNode ELSE parent[m]
  BY <1>1 DEF TreeInv, TreeTypeOK, Orphaned
<1>6. NodesFormForest'
  <2>1. \A m \in live' : parent'[m] \in live' \cup {NoNode}
    BY <1>1, <1>5 DEF TreeInv, NodesFormForest
  <2>2. ASSUME NEW S \in SUBSET live', S # {}
        PROVE  \E m \in S : parent'[m] \notin S
    <3>1. PICK m \in S : parent[m] \notin S
      BY <1>1, <2>2 DEF TreeInv, NodesFormForest
    <3> QED BY <1>5, <3>1, TreeAssumption
  <2> QED BY <2>1, <2>2 DEF NodesFormForest
<1>7. SiblingsDiffer'
  <2>1. SUFFICES ASSUME NEW m \in live', NEW n \in live',
                        parent'[m] = parent'[n], slug'[m] = slug'[n]
                 PROVE  m = n
    BY DEF SiblingsDiffer
  <2>2. slug[m] = slug[n]
    BY <1>5, <2>1
  <2>3. CASE parent'[m] = NoNode
    BY <1>1, <2>1, <2>2, <2>3 DEF RootsStayApart
  <2>4. CASE parent'[m] # NoNode
    BY <1>1, <1>5, <2>1, <2>2, <2>4 DEF TreeInv, SiblingsDiffer
  <2> QED BY <2>3, <2>4
<1> QED BY <1>2, <1>3, <1>4, <1>6, <1>7 DEF TreeInv

LEMMA Invariance == ASSUME TreeInv, [TreeNext]_treeVars PROVE TreeInv'
<1>1. CASE UNCHANGED treeVars
  <2>1. UNCHANGED rowVars /\ UNCHANGED <<lock, edit>>
    BY <1>1 DEF treeVars, rowVars
  <2>2. CheckHolds'
    BY <2>1, SameTree DEF TreeInv, CheckHolds, rowVars
  <2> QED BY <2>1, <2>2, SameTree DEF TreeInv, TreeTypeOK, HolderMoves, rowVars
<1>2. CASE TreeNext
  BY <1>2, FindParentStep, LockStep, CheckStep, AbortStep, SpawnStep, MoveStep, UpdateStep,
     DeleteStep DEF TreeNext
<1> QED BY <1>1, <1>2

\* A slug alone is answered by one node, or by none.
LEMMA OneAnswer == ASSUME TreeInv, NEW s \in Slugs PROVE Cardinality(Answers(s)) = 1
<1> DEFINE matches == {n \in live : slug[n] = s}
<1>1. IsFiniteSet(matches)
  BY FS_Subset DEF TreeInv
<1>2. CASE matches \cap Roots # {}
  <2>1. PICK n : matches \cap Roots = {n}
    BY <1>2 DEF TreeInv, SiblingsDiffer, Roots
  <2>2. Answers(s) = {n}
    BY <1>2, <2>1 DEF Answers
  <2> QED BY <2>2, FS_Singleton
<1>3. CASE matches \cap Roots = {} /\ (matches = {} \/ Cardinality(matches) > 1)
  <2>1. Answers(s) = {NoNode}
    BY <1>3 DEF Answers
  <2> QED BY <2>1, FS_Singleton
<1>4. CASE matches \cap Roots = {} /\ matches # {} /\ ~(Cardinality(matches) > 1)
  <2>1. Answers(s) = matches
    BY <1>4 DEF Answers
  <2>2. Cardinality(matches) \in Nat /\ Cardinality(matches) # 0
    BY <1>1, <1>4, FS_CardinalityType, FS_EmptySet
  <2> QED BY <1>4, <2>1, <2>2
<1> QED BY <1>2, <1>3, <1>4

-----------------------------------------------------------------------------
(* Being below                                                             *)

LEMMA Reflexive == ASSUME NEW n PROVE InSubtree(n, n)
BY DEF InSubtree

LEMMA Transitive ==
    ASSUME NEW a, NEW b, NEW c, InSubtree(a, b), InSubtree(b, c)
    PROVE  InSubtree(a, c)
BY DEF InSubtree

LEMMA BelowParent == ASSUME NEW n \in live PROVE InSubtree(n, parent[n])
BY DEF InSubtree, ClosedBelow

\* What is strictly below a node has its parent below it.
LEMMA ParentBelow ==
    ASSUME NEW n \in live, NEW m \in live, n # m, InSubtree(n, m)
    PROVE  parent[n] \in live /\ InSubtree(parent[n], m)
<1>1. ASSUME NEW S \in SUBSET live, m \in S, ClosedBelow(S)
      PROVE  parent[n] \in S
  <2>1. SUFFICES ASSUME parent[n] \notin S PROVE FALSE
    OBVIOUS
  <2>2. ClosedBelow(S \ {n})
    BY <1>1, <2>1 DEF ClosedBelow
  <2>3. n \in S \ {n}
    BY <1>1, <2>2 DEF InSubtree
  <2> QED BY <2>3
<1>2. ClosedBelow(live)
  BY DEF ClosedBelow
<1> QED BY <1>1, <1>2 DEF InSubtree

\* Two nodes are not below each other.
LEMMA Antisymmetric ==
    ASSUME NodesFormForest, NEW a \in live, NEW b \in live, InSubtree(a, b), InSubtree(b, a)
    PROVE  a = b
<1>1. SUFFICES ASSUME a # b PROVE FALSE
  OBVIOUS
<1> DEFINE S == {n \in live : InSubtree(n, a) /\ InSubtree(a, n)}
<1>2. PICK n \in S : parent[n] \notin S
  BY Reflexive DEF NodesFormForest
<1>3. InSubtree(n, parent[n]) /\ InSubtree(a, parent[n])
  BY <1>2, BelowParent, Transitive
<1>4. parent[n] \in live /\ InSubtree(parent[n], a)
  <2>1. CASE n = a
    <3>1. parent[a] \in live /\ InSubtree(parent[a], b)
      BY <1>1, ParentBelow
    <3> QED BY <2>1, <3>1, Transitive
  <2>2. CASE n # a
    BY <1>2, <2>2, ParentBelow
  <2> QED BY <2>1, <2>2
<1> QED BY <1>2, <1>3, <1>4

\* Those of some nodes that have all of them above.
Closest(S) == {m \in S : S \subseteq Ancestors(m)}

\* Of some ancestors of a node that are not itself one is the nearest.
LEMMA OneCloser ==
    ASSUME NodesFormForest, NEW n \in live, NEW S \in SUBSET Ancestors(n), n \notin S, S # {}
    PROVE  \E m \in S : Closest(S) = {m}
<1> DEFINE T == {x \in Ancestors(n) : x \notin S /\ S \subseteq Ancestors(x)}
<1>1. n \in T
  BY Reflexive DEF Ancestors
<1>2. PICK x \in T : parent[x] \notin T
  BY <1>1 DEF NodesFormForest, Ancestors
<1>3. x \in live /\ InSubtree(n, x)
  BY <1>2 DEF Ancestors
<1>4. ASSUME NEW k \in S PROVE parent[x] \in live /\ InSubtree(parent[x], k)
  BY <1>2, <1>3, <1>4, ParentBelow DEF Ancestors
<1>5. parent[x] \in live /\ InSubtree(n, parent[x])
  BY <1>3, <1>4, BelowParent, Transitive
<1>6. S \subseteq Ancestors(parent[x])
  BY <1>4, <1>5 DEF Ancestors
<1>7. parent[x] \in S
  BY <1>2, <1>5, <1>6 DEF Ancestors
<1>8. ASSUME NEW m \in Closest(S) PROVE m = parent[x]
  BY <1>5, <1>6, <1>7, <1>8, Antisymmetric DEF Closest, Ancestors
<1> QED BY <1>6, <1>7, <1>8 DEF Closest

\* Of any nodes above a node, itself perhaps among them, one goes first.
LEMMA OneNearest ==
    ASSUME NodesFormForest, NEW n \in live, NEW S \in SUBSET Ancestors(n), S # {}
    PROVE  \E m \in S : Nearest(S, Line(n)) = {m}
<1>1. Nearest(S, Line(n)) = Closest(S)
  BY DEF Nearest, Closest, Line
<1>2. CASE n \notin S
  BY <1>1, <1>2, OneCloser
<1>3. CASE n \in S
  <2>1. n \in Closest(S)
    BY <1>3 DEF Closest
  <2>2. ASSUME NEW m \in Closest(S) PROVE m = n
    BY <1>3, <2>2, Antisymmetric DEF Closest, Ancestors
  <2> QED BY <1>1, <1>3, <2>1, <2>2
<1> QED BY <1>2, <1>3

-----------------------------------------------------------------------------
\* The inductive invariant: what a move has checked holds until it is written.
THEOREM TreeInvariant == TreeSpec => []TreeInv
<1>1. TreeInit => TreeInv
  BY InitStep
<1>2. TreeInv /\ [TreeNext]_treeVars => TreeInv'
  BY Invariance
<1> QED BY <1>1, <1>2, PTL DEF TreeSpec

\* Type correctness, for any set of nodes, slugs and requests.
THEOREM TreeTypeCorrect == TreeSpec => []TreeTypeOK
<1>1. TreeInv => TreeTypeOK
  BY DEF TreeInv
<1> QED BY <1>1, TreeInvariant, PTL

\* No cycle ever comes into being, whatever moves, spawns and deletions meet.
THEOREM ForestForever == TreeSpec => []NodesFormForest
<1>1. TreeInv => NodesFormForest
  BY DEF TreeInv
<1> QED BY <1>1, TreeInvariant, PTL

\* A path names one node, and a slug alone is answered definitely.
THEOREM SlugsAlwaysResolve == TreeSpec => []SlugsResolve
<1>1. TreeInv => SlugsResolve
  BY OneAnswer DEF TreeInv, SlugsResolve, SiblingsDiffer
<1> QED BY <1>1, TreeInvariant, PTL

-----------------------------------------------------------------------------
(* The list and the resolution                                             *)

\* What is kept is still where it was, and what can be staked for was noticed.
Kept ==
    \A n \in {resolve.node} :
        /\ resolve.keptBelow \subseteq hosts \cap Descendants(n)
        /\ resolve.keptAbove \subseteq hosts \cap Ancestors(n)
        /\ n \in Stakeable => resolve.listed = TRUE

\* What was read below is all there is, and all there was, as far as nothing changed.
BelowKnown ==
    \A n \in {resolve.node} :
        /\ resolve.keptBelow \subseteq resolve.below
        /\ resolve.sameTree = TRUE => resolve.below = Descendants(n)
        /\ resolve.sameHosts = TRUE /\ resolve.below \cap hosts # {} => resolve.listed = TRUE

InLine == {m \in Nodes : <<m, m>> \in resolve.line}

\* So is what was read above; and it is in a definite order.
LineKnown ==
    \A n \in {resolve.node} :
        /\ resolve.keptAbove \subseteq InLine
        /\ resolve.sameTree = TRUE => InLine = Ancestors(n)
        /\ resolve.sameHosts = TRUE /\ InLine \cap hosts # {} => resolve.listed = TRUE
        /\ \A S \in SUBSET InLine : S # {} => \E m \in S : Nearest(S, resolve.line) = {m}

LookInv ==
    /\ LookTypeOK
    /\ Resolving => Kept
    /\ At("own") => BelowKnown
    /\ At("above") \/ At("inherited") => resolve.keptBelow = {}
    /\ At("inherited") => LineKnown
    /\ ListedResolves

lookAll == <<treeVars, lookVars>>

LEMMA UnaskedIs == Unasked \in LookType /\ Unasked.at = "idle"
BY DEF Unasked, LookType

LEMMA LookIdle == ASSUME hosts \subseteq live, resolve = Unasked PROVE LookInv
BY UnaskedIs DEF LookInv, LookTypeOK, Resolving, At, ListedResolves

\* A tree that does not change has the same nodes above and below, and whoever has
\* validators below or above can be staked for.
LEMMA Unmoved ==
    ASSUME live' = live, parent' = parent
    PROVE  /\ \A n : Descendants(n)' = Descendants(n) /\ Ancestors(n)' = Ancestors(n)
           /\ hosts' = hosts => Stakeable' = Stakeable
<1>1. \A m, n : InSubtree(m, n)' = InSubtree(m, n)
  BY DEF InSubtree, ClosedBelow
<1>2. \A n : Descendants(n)' = Descendants(n) /\ Ancestors(n)' = Ancestors(n)
  BY <1>1 DEF Descendants, Ancestors
<1> QED BY <1>2 DEF Stakeable

LEMMA Related ==
    ASSUME NEW n
    PROVE  /\ Descendants(n) \cap hosts # {} => n \in Stakeable
           /\ Ancestors(n) \cap hosts # {} => n \in Stakeable
           /\ Descendants(n) \subseteq live /\ Ancestors(n) \subseteq live
BY DEF Stakeable, Descendants, Ancestors

\* The tree or the validators change beside a resolution.
LEMMA RearrangedStep ==
    ASSUME LookInv, hosts' \subseteq live', Rearranged
    PROVE  LookInv'
<1>1. CASE ~Resolving /\ UNCHANGED resolve
  BY <1>1 DEF LookInv, LookTypeOK, LookType, Resolving, At, ListedResolves
<1>2. CASE Resolving
  <2> DEFINE x == resolve
             y == resolve'
  <2>1. PICK n \in {resolve.node} :
            y = [x EXCEPT
                 !.keptBelow = @ \cap hosts' \cap Descendants(n)',
                 !.keptAbove = @ \cap hosts' \cap Ancestors(n)',
                 !.listed = @ \/ (n \in Stakeable)',
                 !.sameTree = @ /\ live' = live /\ parent' = parent,
                 !.sameHosts = @ /\ hosts' = hosts]
    BY <1>2 DEF Rearranged
  <2> DEFINE l == x.listed \/ (n \in Stakeable)'
             t == x.sameTree /\ live' = live /\ parent' = parent
             h == x.sameHosts /\ hosts' = hosts
             b == x.keptBelow \cap hosts' \cap Descendants(n)'
             a == x.keptAbove \cap hosts' \cap Ancestors(n)'
  <2>2. /\ l \in BOOLEAN /\ t \in BOOLEAN /\ h \in BOOLEAN
        /\ b \subseteq x.keptBelow /\ a \subseteq x.keptAbove
        /\ b \subseteq hosts' \cap Descendants(n)' /\ a \subseteq hosts' \cap Ancestors(n)'
    OBVIOUS
  <2>3. x \in LookType /\ x.node = n
    BY <2>1 DEF LookInv, LookTypeOK
  <2>4. /\ x.listed = TRUE => l = TRUE
        /\ (n \in Stakeable)' => l = TRUE
        /\ t = TRUE => x.sameTree = TRUE /\ live' = live /\ parent' = parent
        /\ h = TRUE => x.sameHosts = TRUE /\ hosts' = hosts
    BY <2>3 DEF LookType
  <2>5. y = [x EXCEPT !.keptBelow = b, !.keptAbove = a, !.listed = l, !.sameTree = t,
                      !.sameHosts = h]
    BY <2>1
  <2> HIDE DEF l, t, h, a, b
  <2>6. /\ y \in LookType /\ y.at = x.at /\ y.node = n /\ y.below = x.below
        /\ y.line = x.line /\ y.source = x.source /\ y.keptBelow = b /\ y.keptAbove = a
        /\ y.listed = l /\ y.sameTree = t /\ y.sameHosts = h
    BY <2>2, <2>3, <2>5 DEF LookType
  <2> HIDE DEF x, y
  <2>7. /\ resolve = x /\ resolve' = y
        /\ x.at # "answered" /\ x.at # "idle"
    BY <1>2 DEF x, y, Resolving, At
  <2>8. LookTypeOK'
    BY <2>6, <2>7 DEF LookTypeOK
  <2>9. Kept'
    BY <2>2, <2>4, <2>6, <2>7 DEF Kept
  <2>10. x.at = "own" => BelowKnown'
    <3> SUFFICES ASSUME x.at = "own" PROVE BelowKnown'
      OBVIOUS
    <3>1. BelowKnown
      BY <2>7 DEF LookInv, At
    <3>2. t = TRUE => x.below = Descendants(n)'
      BY <2>3, <2>4, <2>7, <3>1, Unmoved DEF BelowKnown
    <3>3. h = TRUE /\ x.below \cap hosts' # {} => l = TRUE
      BY <2>4, <2>7, <3>1 DEF BelowKnown
    <3>4. b \subseteq x.below
      BY <2>2, <2>7, <3>1 DEF BelowKnown
    <3> QED BY <2>6, <2>7, <3>2, <3>3, <3>4 DEF BelowKnown
  <2>11. x.at \in {"above", "inherited"} => y.keptBelow = {}
    BY <2>2, <2>6, <2>7 DEF LookInv, At
  <2>12. x.at = "inherited" => LineKnown'
    <3> SUFFICES ASSUME x.at = "inherited" PROVE LineKnown'
      OBVIOUS
    <3>1. LineKnown /\ InLine' = InLine
      BY <2>6, <2>7 DEF LookInv, At, InLine
    <3>2. t = TRUE => InLine = Ancestors(n)'
      BY <2>3, <2>4, <2>7, <3>1, Unmoved DEF LineKnown
    <3>3. h = TRUE /\ InLine \cap hosts' # {} => l = TRUE
      BY <2>4, <2>7, <3>1 DEF LineKnown
    <3>4. a \subseteq InLine
      BY <2>2, <2>7, <3>1 DEF LineKnown
    <3>5. \A S \in SUBSET InLine : S # {} => \E m \in S : Nearest(S, x.line) = {m}
      BY <2>7, <3>1 DEF LineKnown
    <3> QED BY <2>6, <2>7, <3>1, <3>2, <3>3, <3>4, <3>5 DEF LineKnown, Nearest
  <2> QED BY <2>6, <2>7, <2>8, <2>9, <2>10, <2>11, <2>12 DEF LookInv, At, ListedResolves
<1> QED BY <1>1, <1>2 DEF Rearranged

\* The resolution reads, and the tree and the validators stay as they are meanwhile.
LEMMA StillKept ==
    ASSUME LookInv, Resolving, UNCHANGED treeVars, UNCHANGED hosts,
           resolve'.node = resolve.node, resolve'.keptBelow = resolve.keptBelow,
           resolve'.keptAbove = resolve.keptAbove, resolve'.listed = resolve.listed
    PROVE  Kept'
BY Unmoved DEF LookInv, Kept, treeVars

LEMMA LookUpStep ==
    ASSUME TreeInv, LookInv, NEW n \in Nodes, LookUp(n), UNCHANGED treeVars, UNCHANGED hosts
    PROVE  LookInv'
<1> DEFINE b == hosts \cap Descendants(n)
           a == hosts \cap Ancestors(n)
           l == n \in Stakeable
<1>1. resolve' = [Unasked EXCEPT !.at = "find", !.node = n, !.keptBelow = b, !.keptAbove = a,
                                 !.listed = l, !.sameTree = TRUE, !.sameHosts = TRUE]
  BY DEF LookUp
<1>2. hosts \subseteq live /\ live \subseteq Nodes
  BY DEF LookInv, LookTypeOK, TreeInv, TreeTypeOK
<1>3. b \subseteq hosts \cap Descendants(n) /\ a \subseteq hosts \cap Ancestors(n)
  OBVIOUS
<1>4. l \in BOOLEAN /\ (n \in Stakeable => l = TRUE)
  OBVIOUS
<1> HIDE DEF a, b, l
<1>5. /\ resolve' \in LookType /\ resolve'.at = "find" /\ resolve'.node = n
      /\ resolve'.keptBelow = b /\ resolve'.keptAbove = a /\ resolve'.listed = l
  BY <1>1, <1>2, <1>3, <1>4, UnaskedIs DEF LookType
<1>6. Kept'
  BY <1>3, <1>4, <1>5, Unmoved DEF Kept, treeVars
<1>7. LookTypeOK'
  BY <1>2, <1>5 DEF LookTypeOK, treeVars
<1> QED BY <1>5, <1>6, <1>7 DEF LookInv, At, ListedResolves

LEMMA FindStep ==
    ASSUME LookInv, FindNode, UNCHANGED treeVars, UNCHANGED hosts
    PROVE  LookInv'
<1>1. /\ resolve \in LookType /\ resolve' = [resolve EXCEPT !.at = "below"] /\ Resolving
      /\ hosts' \subseteq live'
  BY DEF LookInv, LookTypeOK, FindNode, Resolving, At, treeVars
<1>2. /\ resolve' \in LookType /\ resolve'.at = "below" /\ resolve'.node = resolve.node
      /\ resolve'.keptBelow = resolve.keptBelow /\ resolve'.keptAbove = resolve.keptAbove
      /\ resolve'.listed = resolve.listed
  BY <1>1 DEF LookType
<1>3. Kept'
  BY <1>1, <1>2, StillKept
<1> QED BY <1>1, <1>2, <1>3 DEF LookInv, LookTypeOK, At, ListedResolves

LEMMA BelowStep ==
    ASSUME TreeInv, LookInv, ReadBelow, UNCHANGED treeVars, UNCHANGED hosts
    PROVE  LookInv'
<1> DEFINE n == resolve.node
           d == Descendants(n)
<1>1. /\ resolve \in LookType /\ resolve' = [resolve EXCEPT !.at = "own", !.below = d]
      /\ Resolving /\ hosts' \subseteq live'
  BY DEF LookInv, LookTypeOK, ReadBelow, Resolving, At, treeVars
<1>2. d \subseteq Nodes
  BY Related DEF TreeInv, TreeTypeOK
<1>3. /\ resolve.keptBelow \subseteq d
      /\ d \cap hosts # {} => resolve.listed = TRUE
  BY <1>1, Related DEF LookInv, Kept
<1>4. \A k : Descendants(k)' = Descendants(k)
  BY Unmoved DEF treeVars
<1> HIDE DEF d
<1>5. /\ resolve' \in LookType /\ resolve'.at = "own" /\ resolve'.node = resolve.node
      /\ resolve'.keptBelow = resolve.keptBelow /\ resolve'.keptAbove = resolve.keptAbove
      /\ resolve'.listed = resolve.listed /\ resolve'.below = d
  BY <1>1, <1>2 DEF LookType
<1>6. Kept'
  BY <1>1, <1>5, StillKept
<1>7. BelowKnown'
  BY <1>3, <1>4, <1>5 DEF BelowKnown, d
<1> QED BY <1>1, <1>5, <1>6, <1>7 DEF LookInv, LookTypeOK, At, ListedResolves

\* While the tree is the one that was read, whoever is found below can be staked for.
LEMMA OwnStep ==
    ASSUME TreeInv, LookInv, ReadOwn, UNCHANGED treeVars, UNCHANGED hosts
    PROVE  LookInv'
<1> DEFINE n == resolve.node
           own == resolve.below \cap hosts
           source == SourcesBelow(n, own)
<1>1. /\ resolve \in LookType /\ Resolving /\ hosts' \subseteq live' /\ BelowKnown /\ Kept
      /\ IF own # {} THEN Found(source) ELSE resolve' = [resolve EXCEPT !.at = "above"]
  BY DEF LookInv, LookTypeOK, ReadOwn, Resolving, At, treeVars
<1>2. CASE own # {}
  <2>1. source \subseteq resolve.below /\ source # {} /\ source \subseteq Nodes
    BY <1>1, <1>2 DEF SourcesBelow, LookType
  <2>2. resolve.sameTree = TRUE \/ resolve.sameHosts = TRUE => resolve.listed = TRUE
    BY <1>1, <1>2, Related DEF BelowKnown, Kept
  <2>3. resolve' = [resolve EXCEPT !.at = "answered", !.source = source]
    BY <1>1, <1>2 DEF Found
  <2> HIDE DEF source
  <2>4. /\ resolve' \in LookType /\ resolve'.at = "answered" /\ resolve'.source = source
        /\ resolve'.below = resolve.below /\ resolve'.listed = resolve.listed
        /\ resolve'.sameTree = resolve.sameTree /\ resolve'.sameHosts = resolve.sameHosts
        /\ resolve.sameTree \in BOOLEAN /\ resolve.sameHosts \in BOOLEAN
    BY <1>1, <2>1, <2>3 DEF LookType
  <2>5. ListedResolves'
    BY <2>1, <2>2, <2>4 DEF ListedResolves, At
  <2> QED BY <1>1, <2>4, <2>5 DEF LookInv, LookTypeOK, At, Resolving
<1>3. CASE own = {}
  <2>1. resolve' = [resolve EXCEPT !.at = "above"]
    BY <1>1, <1>3
  <2>2. /\ resolve' \in LookType /\ resolve'.at = "above" /\ resolve'.node = resolve.node
        /\ resolve'.keptBelow = resolve.keptBelow /\ resolve'.keptAbove = resolve.keptAbove
        /\ resolve'.listed = resolve.listed
    BY <1>1, <2>1 DEF LookType
  <2>3. resolve.keptBelow = {}
    BY <1>1, <1>3 DEF BelowKnown, Kept
  <2>4. Kept'
    BY <1>1, <2>2, StillKept
  <2> QED BY <1>1, <2>2, <2>3, <2>4 DEF LookInv, LookTypeOK, At, ListedResolves
<1> QED BY <1>2, <1>3

LEMMA LineStep ==
    ASSUME TreeInv, LookInv, ReadLine, UNCHANGED treeVars, UNCHANGED hosts
    PROVE  LookInv'
<1> DEFINE n == resolve.node
           line == Line(n)
<1>1. /\ resolve \in LookType /\ Resolving /\ hosts' \subseteq live' /\ Kept
      /\ resolve' = [resolve EXCEPT !.at = "inherited", !.line = line]
      /\ resolve.keptBelow = {}
  BY DEF LookInv, LookTypeOK, ReadLine, Resolving, At, treeVars
<1>2. Ancestors(n) \subseteq live /\ live \subseteq Nodes
  BY Related DEF TreeInv, TreeTypeOK
<1>3. line \subseteq Nodes \X Nodes
  BY <1>2 DEF Line
<1>4. {m \in Nodes : <<m, m>> \in line} = Ancestors(n)
  <2>1. \A m \in Ancestors(n) : m \in Ancestors(m)
    BY <1>2, Reflexive DEF Ancestors
  <2> QED BY <1>2, <2>1 DEF Line
<1>5. \A S \in SUBSET Ancestors(n) : S # {} => \E m \in S : Nearest(S, line) = {m}
  <2>1. \A S \in SUBSET Ancestors(n) : S # {} => n \in live
    BY DEF Ancestors
  <2> QED BY <2>1, OneNearest DEF TreeInv
<1>6. \A k : Ancestors(k)' = Ancestors(k)
  BY Unmoved DEF treeVars
<1>7. /\ resolve.keptAbove \subseteq Ancestors(n)
      /\ Ancestors(n) \cap hosts # {} => resolve.listed = TRUE
  BY <1>1, Related DEF Kept
<1> HIDE DEF line
<1>8. /\ resolve' \in LookType /\ resolve'.at = "inherited" /\ resolve'.node = resolve.node
      /\ resolve'.keptBelow = resolve.keptBelow /\ resolve'.keptAbove = resolve.keptAbove
      /\ resolve'.listed = resolve.listed /\ resolve'.line = line
  BY <1>1, <1>3 DEF LookType
<1>9. InLine' = Ancestors(n)
  BY <1>4, <1>8 DEF InLine
<1>10. LineKnown'
  <2>1. hosts' = hosts /\ Ancestors(n)' = Ancestors(n)
    BY <1>6, <1>8
  <2>2. \A S \in SUBSET InLine' : S # {} => \E m \in S : Nearest(S, resolve'.line) = {m}
    <3>1. resolve'.line = line
      BY <1>8
    <3> QED BY <1>5, <1>9, <3>1
  <2>3. /\ resolve'.keptAbove \subseteq InLine'
        /\ InLine' \cap hosts' # {} => resolve'.listed = TRUE
    BY <1>7, <1>8, <1>9, <2>1
  <2> QED BY <1>9, <2>1, <2>2, <2>3 DEF LineKnown, Nearest
<1>11. Kept'
  BY <1>1, <1>8, StillKept
<1> QED BY <1>1, <1>8, <1>10, <1>11 DEF LookInv, LookTypeOK, At, ListedResolves

LEMMA InheritStep ==
    ASSUME TreeInv, LookInv, ReadInherited, UNCHANGED treeVars, UNCHANGED hosts
    PROVE  LookInv'
<1> DEFINE S == {m \in hosts : <<m, m>> \in resolve.line}
           source == Nearest(S, resolve.line)
<1>1. /\ resolve \in LookType /\ Resolving /\ hosts' \subseteq live' /\ Kept /\ LineKnown
      /\ resolve' = [resolve EXCEPT !.at = "answered", !.source = source]
      /\ resolve.keptBelow = {}
  BY DEF LookInv, LookTypeOK, ReadInherited, Found, Resolving, At, treeVars
<1>2. S = InLine \cap hosts
  BY DEF InLine, LookInv, LookTypeOK, TreeInv, TreeTypeOK
<1>3. S = {} => source = {}
  BY DEF Nearest
<1>4. S # {} => \E m \in S : source = {m}
  BY <1>1, <1>2 DEF LineKnown
<1>5. S \subseteq Nodes
  BY <1>2 DEF InLine
<1>6. resolve.keptAbove \subseteq S
  BY <1>1, <1>2 DEF Kept, LineKnown
<1>7. (resolve.sameTree = TRUE \/ resolve.sameHosts = TRUE) /\ S # {} => resolve.listed = TRUE
  BY <1>1, <1>2, Related DEF LineKnown, Kept
<1> HIDE DEF S, source
<1>8. source \subseteq Nodes
  BY <1>3, <1>4, <1>5
<1>9. /\ resolve' \in LookType /\ resolve'.at = "answered" /\ resolve'.source = source
      /\ resolve'.keptBelow = {} /\ resolve'.keptAbove = resolve.keptAbove
      /\ resolve'.listed = resolve.listed
      /\ resolve'.sameTree = resolve.sameTree /\ resolve'.sameHosts = resolve.sameHosts
      /\ resolve.sameTree \in BOOLEAN /\ resolve.sameHosts \in BOOLEAN
  BY <1>1, <1>8 DEF LookType
<1>10. ListedResolves'
  <2>1. source # {} => S # {}
    BY <1>3
  <2>2. source \subseteq resolve'.below \/ \E m \in Nodes : source = {m}
    BY <1>3, <1>4, <1>5
  <2> QED BY <1>4, <1>6, <1>7, <1>9, <2>1, <2>2 DEF ListedResolves, At
<1> QED BY <1>1, <1>9, <1>10 DEF LookInv, LookTypeOK, At, Resolving

LEMMA LookStart == LookInit => LookInv
BY LookIdle DEF LookInit

\* Whatever is rearranged, and whatever the resolution reads.
LEMMA LookInvariance ==
    TreeInv /\ LookInv /\ [LookNext]_lookAll => TreeInv' /\ LookInv'
<1> SUFFICES ASSUME TreeInv, LookInv, [LookNext]_lookAll PROVE TreeInv' /\ LookInv'
  OBVIOUS
<1>1. CASE Rearrange
  <2>1. hosts' \subseteq live'
    BY <1>1 DEF Rearrange
  <2> QED BY <1>1, <2>1, Invariance, RearrangedStep DEF Rearrange
<1>2. ASSUME NEW n \in Nodes, ChangeHosts(n) PROVE TreeInv' /\ LookInv'
  <2>1. hosts' \subseteq live' /\ UNCHANGED treeVars
    BY <1>2 DEF ChangeHosts, LookInv, LookTypeOK, treeVars
  <2> QED BY <1>2, <2>1, Invariance, RearrangedStep DEF ChangeHosts
<1>3. CASE Resolve /\ UNCHANGED <<treeVars, hosts>>
  <2>1. UNCHANGED treeVars /\ UNCHANGED hosts
    BY <1>3
  <2>2. TreeInv'
    BY <2>1, Invariance
  <2>3. ASSUME Leave PROVE LookInv'
    <3>1. resolve' = Unasked /\ hosts' \subseteq live'
      BY <2>1, <2>3 DEF Leave, LookInv, LookTypeOK, treeVars
    <3> QED BY <3>1, UnaskedIs DEF LookInv, LookTypeOK, Resolving, At, ListedResolves
  <2> QED BY <1>3, <2>1, <2>2, <2>3, LookUpStep, FindStep, BelowStep, OwnStep, LineStep,
             InheritStep DEF Resolve
<1>4. CASE UNCHANGED lookAll
  <2>1. UNCHANGED treeVars /\ hosts' = hosts /\ resolve' = resolve
    BY <1>4 DEF lookAll, lookVars
  <2>2. TreeInv'
    BY <2>1, Invariance
  <2>3. \A n : Descendants(n)' = Descendants(n) /\ Ancestors(n)' = Ancestors(n)
    BY <2>1, Unmoved DEF treeVars
  <2>4. Stakeable' = Stakeable /\ live' = live
    BY <2>1, Unmoved DEF treeVars
  <2>5. Kept => Kept'
    BY <2>1, <2>3, <2>4 DEF Kept
  <2>6. BelowKnown => BelowKnown'
    BY <2>1, <2>3 DEF BelowKnown
  <2>7. LineKnown => LineKnown'
    <3>1. resolve'.node = resolve.node /\ InLine' = InLine
      BY <2>1 DEF InLine
    <3>2. Ancestors(resolve.node)' = Ancestors(resolve.node)
      BY <2>3, <3>1
    <3> QED BY <2>1, <3>1, <3>2 DEF LineKnown, Nearest
  <2>8. LookTypeOK' /\ ListedResolves'
    BY <2>1, <2>4 DEF LookInv, LookTypeOK, ListedResolves, At
  <2> QED BY <2>1, <2>2, <2>5, <2>6, <2>7, <2>8 DEF LookInv, Resolving, At
<1> QED BY <1>1, <1>2, <1>3, <1>4 DEF LookNext

\* The inductive invariant of a look: what was read is all there is and was, as far
\* as nothing has changed, and what is kept is where it was.
THEOREM LookInvariant == LookSpec => [](TreeInv /\ LookInv)
<1>1. TreeInit /\ LookInit => TreeInv /\ LookInv
  BY InitStep, LookStart
<1> QED BY <1>1, LookInvariance, PTL DEF LookSpec, lookAll

(***************************************************************************)
(* The list of stakeable nodes and the resolution agree as far as queries  *)
(* over a moving tree can: for any tree, any validators and any number of  *)
(* changes between the queries.                                            *)
(***************************************************************************)
THEOREM ListedAlwaysResolves == LookSpec => []ListedResolves
<1>1. LookInv => ListedResolves
  BY DEF LookInv
<1> QED BY <1>1, LookInvariant, PTL
=============================================================================
