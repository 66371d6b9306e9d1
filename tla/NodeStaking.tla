---------------------------- MODULE NodeStaking ----------------------------
(***************************************************************************)
(* Through whose validators one may stake for a node: the node's and those *)
(* of what is below it, and if there are none those of its ancestors.      *)
(*                                                                         *)
(* A member finds the node in a list of the nodes that can be staked for,  *)
(* which one query makes over the whole line of each node, and then asks   *)
(* for its validators.  That is answered by several queries, outside of a  *)
(* transaction, while the tree is rearranged and validators come and go.   *)
(***************************************************************************)
EXTENDS NodeTree

VARIABLES
    hosts,      \* the nodes that have validators
    resolve     \* one member's look at the list and the resolution that follows

lookVars == <<hosts, resolve>>

-----------------------------------------------------------------------------
(* The queries                                                             *)

\* What is below a node, and what is above it; neither of a node that is gone.
Descendants(n) == {m \in live : n \in live /\ InSubtree(m, n)}

Ancestors(n) == {m \in live : n \in live /\ InSubtree(n, m)}

\* Mutant: the query does not recurse.
LineToParent(n) ==
    LET near == {m \in Ancestors(n) : m \in {n, parent[n]}}
    IN  {pair \in near \X near : pair[2] \in Ancestors(pair[1])}

\* The ancestors in their order: the pairs of one and another that is not nearer.
Line(n) == {pair \in Ancestors(n) \X Ancestors(n) : pair[2] \in Ancestors(pair[1])}

\* The query behind the list of nodes that can be staked for.
Stakeable == {n \in live : (Descendants(n) \cup Ancestors(n)) \cap hosts # {}}

\* Whose validators go first of those here or below: the node's own; below it any
\* may (a default validator goes first, wherever it is).
SourcesBelow(n, own) == IF n \in own THEN {n} ELSE own

\* The nearest ancestor's validators are sorted first.
Nearest(above, line) == {m \in above : \A k \in above : <<m, k>> \in line}

-----------------------------------------------------------------------------
(* keptBelow and keptAbove are the nodes that have been below or above the *)
(* node, with validators, ever since it was looked up; listed says whether *)
(* it could be staked for at some moment since (history).                  *)

Unasked == [at |-> "idle", node |-> NoNode, below |-> {}, line |-> {}, source |-> {},
            keptBelow |-> {}, keptAbove |-> {},
            listed |-> FALSE, sameTree |-> FALSE, sameHosts |-> FALSE]

LookInit == hosts = {} /\ resolve = Unasked

At(step) == resolve.at = step
Resolving == ~At("idle") /\ ~At("answered")
Found(sources) == resolve' = [resolve EXCEPT !.at = "answered", !.source = sources]

\* The list is read, and its reader goes to a node, whether listed or not.
LookUp(n) ==
    /\ At("idle")
    /\ n \in live
    /\ resolve' = [Unasked EXCEPT
           !.at = "find", !.node = n,
           !.keptBelow = hosts \cap Descendants(n), !.keptAbove = hosts \cap Ancestors(n),
           !.listed = n \in Stakeable, !.sameTree = TRUE, !.sameHosts = TRUE]

FindNode ==
    /\ At("find")
    /\ resolve.node \in live
    /\ resolve' = [resolve EXCEPT !.at = "below"]

ReadBelow ==
    /\ At("below")
    /\ resolve' = [resolve EXCEPT !.at = "own", !.below = Descendants(resolve.node)]

\* Validators here or below are all there is to tell, if there are any.
ReadOwn ==
    LET own == resolve.below \cap hosts
    IN  /\ At("own")
        /\ IF own # {} THEN Found(SourcesBelow(resolve.node, own))
           ELSE resolve' = [resolve EXCEPT !.at = "above"]

ReadLine ==
    /\ At("above")
    /\ resolve' = [resolve EXCEPT !.at = "inherited", !.line = Line(resolve.node)]

ReadInherited ==
    /\ At("inherited")
    /\ Found(Nearest({m \in hosts : <<m, m>> \in resolve.line}, resolve.line))

\* The answer is given, or there is none: the node is gone, or a query fails.
Leave ==
    /\ ~At("idle")
    /\ resolve' = Unasked

Resolve == \/ \E n \in Nodes : LookUp(n)
           \/ FindNode \/ ReadBelow \/ ReadOwn \/ ReadLine \/ ReadInherited \/ Leave

-----------------------------------------------------------------------------
(* Meanwhile                                                               *)

\* What a rearrangement leaves of what was so when the node was looked up.
Rearranged ==
    \/ ~Resolving /\ UNCHANGED resolve
    \/ /\ Resolving
       /\ \E n \in {resolve.node} :
             resolve' = [resolve EXCEPT
                 !.keptBelow = @ \cap hosts' \cap Descendants(n)',
                 !.keptAbove = @ \cap hosts' \cap Ancestors(n)',
                 !.listed = @ \/ (n \in Stakeable)',
                 !.sameTree = @ /\ live' = live /\ parent' = parent,
                 !.sameHosts = @ /\ hosts' = hosts]

\* The tree is changed; the validators of a deleted node go with it.
Rearrange ==
    /\ TreeNext
    /\ hosts' = hosts \cap live'
    /\ Rearranged

\* The first validator of a node is created, or its last one deleted.
ChangeHosts(n) ==
    /\ n \in live
    /\ hosts' = IF n \in hosts THEN hosts \ {n} ELSE hosts \cup {n}
    /\ UNCHANGED treeVars
    /\ Rearranged

LookNext ==
    \/ Rearrange
    \/ \E n \in Nodes : ChangeHosts(n)
    \/ Resolve /\ UNCHANGED <<treeVars, hosts>>

LookSpec == TreeInit /\ LookInit /\ [][LookNext]_<<treeVars, lookVars>>

-----------------------------------------------------------------------------
LookType == [at : {"idle", "find", "below", "own", "above", "inherited", "answered"},
             node : Nodes \cup {NoNode}, below : SUBSET Nodes, line : SUBSET (Nodes \X Nodes),
             source : SUBSET Nodes, keptBelow : SUBSET Nodes, keptAbove : SUBSET Nodes,
             listed : BOOLEAN, sameTree : BOOLEAN, sameHosts : BOOLEAN]

\* Every variable has its type, and only rows have validators.
LookTypeOK == hosts \subseteq live /\ resolve \in LookType

\* The list and the resolution agree as far as several queries over a moving tree
\* can.  What has a validator that stays where it is, below or above, resolves to
\* validators, and what stays below goes before anything inherited.  What resolves
\* to any could be staked for at some moment, unless both the tree and the
\* validators were changed; and what is inherited comes from one ancestor.
ListedResolves ==
    At("answered") =>
        /\ resolve.keptBelow # {} => resolve.source # {} /\ resolve.source \subseteq resolve.below
        /\ resolve.keptAbove # {} => resolve.source # {}
        /\ resolve.source # {} /\ (resolve.sameTree \/ resolve.sameHosts) => resolve.listed
        /\ resolve.source \subseteq resolve.below \/ \E m \in Nodes : resolve.source = {m}
=============================================================================
