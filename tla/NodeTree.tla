------------------------------ MODULE NodeTree ------------------------------
(***************************************************************************)
(* The tree of nodes in the API's database.                                *)
(*                                                                         *)
(* A node is moved in a transaction that locks the table, looks for the    *)
(* new parent below the node, and writes.  Everything else is a single     *)
(* statement; it waits for such a lock, as it locks the table itself in a  *)
(* mode that conflicts.  What the foreign keys and the partial unique      *)
(* indexes do is part of the statements.                                   *)
(***************************************************************************)
EXTENDS Naturals, FiniteSets

CONSTANTS
    Nodes,      \* ids of nodes; an id is never used again
    Slugs,      \* names in the path of a node
    Editors,    \* requests that spawn or move
    NoNode      \* no parent

ASSUME TreeAssumption ==
    /\ NoNode \notin Nodes \cup Editors
    /\ Slugs # {}

VARIABLES
    live,       \* the rows there are
    born,       \* the ids ever used
    parent,     \* parent_id of each row
    slug,       \* slug of each row
    lock,       \* who holds the table lock
    edit        \* edit[e]: the request under way

treeVars == <<live, born, parent, slug, lock, edit>>

-----------------------------------------------------------------------------
NoEdit == [at |-> "idle", node |-> NoNode, under |-> NoNode, name |-> CHOOSE s \in Slugs : TRUE]

TreeInit ==
    /\ live = {}
    /\ born = {}
    /\ parent = [n \in Nodes |-> NoNode]
    /\ slug = [n \in Nodes |-> NoEdit.name]
    /\ lock = NoNode
    /\ edit = [e \in Editors |-> NoEdit]

Roots == {n \in live : parent[n] = NoNode}
Siblings(n) == {m \in live : parent[m] = parent[n]}

\* The partial unique indexes (parent, slug) and, for roots, (slug).
SlugFree(n, p, s) == \A m \in live \ {n} : parent[m] = p => slug[m] # s

\* A set of rows that has the children of all its members.
ClosedBelow(S) == \A c \in live : parent[c] \in S => c \in S

\* Mutant: the query does not recurse.
IsChild(m, n) == m = n \/ parent[m] = n

\* The recursive query of the descendants of n, n among them, finds m.
InSubtree(m, n) ==
    \A S \in SUBSET live : n \in S /\ ClosedBelow(S) => m \in S

\* Nobody holds the table.
Unlocked == lock = NoNode

-----------------------------------------------------------------------------
(* Spawning: the parent is looked for, then the row inserted               *)

FindParent(e, p, s) ==
    /\ edit[e].at = "idle"
    /\ p \in live \cup {NoNode}
    /\ edit' = [edit EXCEPT ![e] = [at |-> "insert", node |-> NoNode, under |-> p, name |-> s]]
    /\ UNCHANGED <<live, born, parent, slug, lock>>

\* The foreign key refuses a parent that is gone by now.
ParentExists(p) == p \in live \cup {NoNode}

Spawn(e, n) ==
    LET p == edit[e].under
        s == edit[e].name
    IN  /\ edit[e].at = "insert"
        /\ Unlocked
        /\ n \in Nodes \ born
        /\ ParentExists(p)
        /\ SlugFree(n, p, s)
        /\ live' = live \cup {n}
        /\ born' = born \cup {n}
        /\ parent' = [parent EXCEPT ![n] = p]
        /\ slug' = [slug EXCEPT ![n] = s]
        /\ edit' = [edit EXCEPT ![e] = NoEdit]
        /\ UNCHANGED lock

-----------------------------------------------------------------------------
(* Moving under another node                                               *)

LockTable(e, n, p, s) ==
    /\ edit[e].at = "idle"
    /\ Unlocked
    /\ n \in born /\ p \in born
    /\ lock' = e
    /\ edit' = [edit EXCEPT ![e] = [at |-> "locked", node |-> n, under |-> p, name |-> s]]
    /\ UNCHANGED <<live, born, parent, slug>>

CheckMove(e) ==
    LET n == edit[e].node
        p == edit[e].under
    IN  /\ edit[e].at = "locked"
        /\ p # n /\ p \in live
        /\ n \in live => ~InSubtree(p, n)
        /\ edit' = [edit EXCEPT ![e].at = "checked"]
        /\ UNCHANGED <<live, born, parent, slug, lock>>

\* The UPDATE and the commit, which releases the lock.
Move(e) ==
    LET n == edit[e].node
        p == edit[e].under
        s == edit[e].name
    IN  /\ edit[e].at = "checked"
        /\ n \in live
        /\ SlugFree(n, p, s)
        /\ parent' = [parent EXCEPT ![n] = p]
        /\ slug' = [slug EXCEPT ![n] = s]
        /\ lock' = NoNode
        /\ edit' = [edit EXCEPT ![e] = NoEdit]
        /\ UNCHANGED <<live, born>>

\* A request is refused, or fails; its transaction is rolled back.
Abort(e) ==
    /\ edit[e].at # "idle"
    /\ edit' = [edit EXCEPT ![e] = NoEdit]
    /\ lock' = IF lock = e THEN NoNode ELSE lock
    /\ UNCHANGED <<live, born, parent, slug>>

-----------------------------------------------------------------------------
(* Single statements                                                       *)

\* A new slug, and with it perhaps the move to the roots, takes no table lock.
Update(n, p, s) ==
    /\ Unlocked
    /\ n \in live
    /\ p \in {parent[n], NoNode}
    /\ SlugFree(n, p, s)
    /\ parent' = [parent EXCEPT ![n] = p]
    /\ slug' = [slug EXCEPT ![n] = s]
    /\ UNCHANGED <<live, born, lock, edit>>

\* What a deletion leaves: children of what is deleted become roots.
Orphaned(gone) == [n \in Nodes |-> IF parent[n] \in gone \/ n \in gone THEN NoNode ELSE parent[n]]

\* Mutant: only siblings under a parent are kept apart.
RootsMayClash(gone) == TRUE

\* The index of root slugs has to hold of what a deletion leaves.
RootsStayApart(gone) ==
    \A m, n \in {k \in live \ gone : Orphaned(gone)[k] = NoNode} : slug[m] = slug[n] => m = n

\* A node is deleted, or with a tenant all its nodes.
Delete(gone) ==
    /\ Unlocked
    /\ gone # {}
    /\ RootsStayApart(gone)
    /\ live' = live \ gone
    /\ parent' = Orphaned(gone)
    /\ slug' = [n \in Nodes |-> IF n \in gone THEN NoEdit.name ELSE slug[n]]
    /\ UNCHANGED <<born, lock, edit>>

TreeNext ==
    \/ \E e \in Editors :
          \/ \E p \in Nodes \cup {NoNode}, s \in Slugs : FindParent(e, p, s)
          \/ \E n \in Nodes : Spawn(e, n)
          \/ \E n, p \in Nodes, s \in Slugs : LockTable(e, n, p, s)
          \/ CheckMove(e) \/ Move(e) \/ Abort(e)
    \/ \E n \in Nodes, p \in Nodes \cup {NoNode}, s \in Slugs : Update(n, p, s)
    \/ \E gone \in SUBSET live : Delete(gone)

TreeSpec == TreeInit /\ [][TreeNext]_treeVars

-----------------------------------------------------------------------------
\* resolveBySlug without a parent reads two matching rows at most, roots first:
\* the nodes it may answer with, none of them (NoNode) included.
Answers(s) ==
    LET matches == {n \in live : slug[n] = s}
    IN  IF matches = {} THEN {NoNode}
        ELSE IF matches \cap Roots # {} THEN matches \cap Roots
        ELSE IF Cardinality(matches) > 1 THEN {NoNode} ELSE matches

-----------------------------------------------------------------------------
EditType == [at : {"idle", "insert", "locked", "checked"}, node : Nodes \cup {NoNode},
             under : Nodes \cup {NoNode}, name : Slugs]

\* Every variable has its type, and what is not a row has no parent.
TreeTypeOK ==
    /\ live \subseteq born /\ born \subseteq Nodes
    /\ parent \in [Nodes -> Nodes \cup {NoNode}]
    /\ slug \in [Nodes -> Slugs]
    /\ lock \in Editors \cup {NoNode}
    /\ edit \in [Editors -> EditType]

\* The parent of a node exists, and nodes form no cycle: in every set of them
\* one has its parent elsewhere, however two moves, a deletion or a spawn meet.
NodesFormForest ==
    /\ \A n \in live : parent[n] \in live \cup {NoNode}
    /\ \A S \in SUBSET live : S # {} => \E n \in S : parent[n] \notin S

\* A path names one node: siblings, and roots, have different slugs also when
\* a deletion makes children roots; and a slug alone is answered definitely, by
\* the root that has it or by the only node that has it.
SlugsResolve ==
    /\ \A m, n \in live : parent[m] = parent[n] /\ slug[m] = slug[n] => m = n
    /\ \A s \in Slugs : Cardinality(Answers(s)) = 1
=============================================================================
