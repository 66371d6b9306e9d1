------------------------------ MODULE MCMembers ------------------------------
(* Small instances of what the API keeps of a community's members, in one run:   *)
(* each behaviour is one of check-ins or one of requests to join a team, which   *)
(* share no state, the other staying as it began.                                *)
EXTENDS Attendance, TeamJoin, TLC

VARIABLE focus      \* which of them moves

membersVars == <<focus, attVars, joinVars>>

\* Organizers are interchangeable, and so are handlers.
Symmetry == Permutations(Organizers) \cup Permutations(Handlers)

\* A bound on where check-ins begin: the last code is made later, and the codes outside
\* the event are newer than its own, which they may push out of the newest ones.
Early == /\ made < MaxCodes
         /\ \A c, d \in codes : c < d /\ eventOf[c] = Sweep => eventOf[d] = Sweep

\* Another: all are on one page, so it makes no difference who is listed first.
AskersFirst == members[1] \in Requesters

MembersInit ==
    \/ /\ focus = "attendance" /\ AttInit /\ Early
       /\ members = <<>> /\ team = "planned" /\ NothingAsked
    \/ focus = "join" /\ JoinInit /\ AskersFirst /\ known = {} /\ made = 0 /\ AttInit

MembersNext ==
    /\ UNCHANGED focus
    /\ \/ focus = "attendance" /\ AttNext /\ UNCHANGED joinVars
       \/ focus = "join" /\ JoinNext /\ UNCHANGED attVars

MembersSpec == MembersInit /\ [][MembersNext]_membersVars

\* Every variable of both has its type.
MembersTypeOK == AttTypeOK /\ JoinTypeOK
=============================================================================
