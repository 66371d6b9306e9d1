------------------------------ MODULE MCStaking ------------------------------
(* Small instances of what staking rests on, in one run: each behaviour is one   *)
(* of the node tree, of a resolution over a tree that is rearranged, of an       *)
(* owner's flagged row or of a team's payout, the others staying as they began.  *)
EXTENDS NodeStaking, DefaultFlag, TeamPool

VARIABLE focus      \* which of them moves

stakingVars == <<focus, treeVars, lookVars, flagVars, poolVars>>

NoRows == row = [r \in Rows |-> "new"] /\ FlagInit
NoProposals == dao = [i \in 1..Earlier |-> [time |-> 0, method |-> "transfer", amount |-> 0,
                                            status |-> "Removed"]] /\ PoolInit

\* A tree and validators as they may be when somebody looks for one of the nodes.
Planted ==
    /\ IsFiniteSet(Nodes) /\ live = Nodes /\ born = Nodes
    /\ parent \in [Nodes -> Nodes \cup {NoNode}]
    /\ slug = CHOOSE f \in [Nodes -> Slugs] : \A s \in Slugs : \E n \in Nodes : f[n] = s
    /\ lock = NoNode /\ edit = [e \in Editors |-> NoEdit]
    /\ TreeTypeOK /\ NodesFormForest /\ SlugsResolve
    /\ hosts \in SUBSET Nodes

StakingInit ==
    \/ focus = "tree" /\ TreeInit /\ LookInit /\ NoRows /\ NoProposals
    \/ focus = "look" /\ Planted /\ resolve = Unasked /\ NoRows /\ NoProposals
    \/ focus = "flag" /\ TreeInit /\ LookInit /\ FlagInit /\ NoProposals
    \/ focus = "payout" /\ TreeInit /\ LookInit /\ NoRows /\ PoolInit

\* Bounds on a look: it is at one node, as every tree is tried, and beside it there are
\* one change of the tree, by one editor, in which names stay and nothing is spawned,
\* and one change of the validators.
OneLook ==
    /\ Resolving \/ resolve' # resolve
    /\ resolve'.node \in {NoNode, CHOOSE n \in Nodes : TRUE}
    /\ At("idle") => edit = [e \in Editors |-> NoEdit]
    /\ \A e \in Editors : edit'[e].at # "idle" => e = CHOOSE d \in Editors : TRUE
    /\ \A e \in Editors : edit'[e].at # "insert"
    /\ edit' # edit \/ parent' # parent \/ live' # live => resolve.sameTree
    /\ hosts' # hosts => resolve.sameHosts \/ live' # live
    /\ \A n \in live' : slug'[n] = slug[n]

\* Bound on what the DAO calls besides releases: it is one call, not removed itself, and
\* filed next to removed ones before anything else is and while no form is open.  (When
\* it was filed matters only to how long it can be approved.)
OneFunding ==
    \A i \in {j \in DOMAIN dao' : dao'[j].method \in Fundings} :
        /\ i = Earlier + 1 /\ dao'[i].status # "Removed"
        /\ \A j \in 1..Earlier : dao[j].status = "Removed"
        /\ Len(dao) = Earlier => \A s \in Submissions : submission[s].at = "idle"

StakingNext ==
    /\ UNCHANGED focus
    /\ \/ focus = "tree" /\ Rearrange /\ UNCHANGED <<flagVars, poolVars>>
       \/ focus = "look" /\ LookNext /\ OneLook /\ UNCHANGED <<flagVars, poolVars>>
       \/ focus = "flag" /\ FlagNext /\ UNCHANGED <<treeVars, lookVars, poolVars>>
       \/ focus = "payout" /\ PoolNext /\ OneFunding /\ UNCHANGED <<treeVars, lookVars, flagVars>>

StakingSpec == StakingInit /\ [][StakingNext]_stakingVars /\ FlagFairness

\* Every variable of all of them has its type.
StakingTypeOK == TreeTypeOK /\ LookTypeOK /\ FlagTypeOK /\ PoolTypeOK
=============================================================================
