----------------------------- MODULE JoinRequests -----------------------------
(***************************************************************************)
(* What becomes of requests to join a team, without handlers, lists of     *)
(* members or calls of the auth service: a request is pending until one    *)
(* step settles it, for a reason that is true of it at that moment, and    *)
(* then stays as it is.                                                    *)
(***************************************************************************)
EXTENDS Naturals, Sequences

CONSTANTS
    People,     \* who may ask
    Deciders,   \* who may approve and decline
    Reasons,    \* why a request is closed without a decision
    Nobody,     \* no decider, no reason
    LeftIsSure  \* whether "requester_left" is only said of those who left

VARIABLES
    rows,       \* the requests, by age
    added,      \* those for which the auth service put the requester on the team
    left        \* those whose requester was gone at some time since

requestVars == <<rows, added, left>>

RequestInit == rows = <<>> /\ added = {} /\ left = {}

Request(requester, status, decider, reason) ==
    [requester |-> requester, status |-> status, decider |-> decider, reason |-> reason]

IsPending(i) == i \in DOMAIN rows /\ rows[i].status = "pending"

\* A requester may be gone already when the row is written.
Ask(p) ==
    /\ \A i \in DOMAIN rows : IsPending(i) => rows[i].requester # p
    /\ rows' = Append(rows, Request(p, "pending", Nobody, Nobody))
    /\ left' \in {left, left \cup {Len(rows) + 1}}
    /\ UNCHANGED added

Settle(i, status, p) ==
    /\ IsPending(i)
    /\ rows' = [rows EXCEPT ![i] = Request(@.requester, status, p, @.reason)]
    /\ UNCHANGED <<added, left>>

Withdraw(i) == Settle(i, "withdrawn", rows[i].requester)
Decline(i, p) == p \in Deciders /\ Settle(i, "declined", p)
Approve(i, p) == p \in Deciders /\ i \in added /\ Settle(i, "approved", p)

\* Several requests are closed at once, for one reason.
Close(closed, why) ==
    /\ \A i \in closed : IsPending(i)
    /\ LeftIsSure /\ why = "requester_left" => closed \subseteq left
    /\ rows' = [i \in DOMAIN rows |->
            IF i \in closed
            THEN Request(rows[i].requester, "closed", rows[i].decider, why)
            ELSE rows[i]]
    /\ UNCHANGED <<added, left>>

\* Adding to the team and settling are two steps, so a request that was settled
\* otherwise in between may have been added for.
AddToTeam(i) ==
    /\ i \in DOMAIN rows
    /\ added' = added \cup {i}
    /\ UNCHANGED <<rows, left>>

Depart(p) ==
    /\ left' = left \cup {i \in DOMAIN rows : rows[i].requester = p}
    /\ UNCHANGED <<rows, added>>

RequestNext ==
    \/ \E p \in People : Ask(p) \/ Depart(p)
    \/ \E i \in DOMAIN rows : \/ Withdraw(i) \/ AddToTeam(i)
                              \/ \E p \in People : Decline(i, p) \/ Approve(i, p)
    \/ \E closed \in SUBSET DOMAIN rows, why \in Reasons : Close(closed, why)

RequestSpec == RequestInit /\ [][RequestNext]_requestVars
=============================================================================
