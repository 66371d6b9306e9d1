----------------------------- MODULE FlagRequests -----------------------------
(***************************************************************************)
(* What requests for the one flag of an owner's rows come to, without      *)
(* statements, locks or deadlocks: each moves the flag to its row in one   *)
(* step, or changes nothing.                                               *)
(***************************************************************************)
CONSTANTS
    Rows,       \* ids of the owner's rows; an id is never used again
    Clients,    \* who asks for the flag
    NoRow       \* no row

VARIABLES
    row,        \* the state of each row
    wanted      \* wanted[c]: the row that c asked to be flagged, or NoRow

requestVars == <<row, wanted>>

Start ==
    /\ row \in {f \in [Rows -> {"new", "plain", "flagged"}] :
                    \A r, s \in Rows : f[r] = "flagged" /\ f[s] = "flagged" => r = s}
    /\ wanted = [c \in Clients |-> NoRow]

There(r) == row[r] \in {"plain", "flagged"}

\* A row that is there, or one to be created with the flag.
Ask(c, r) ==
    /\ wanted[c] = NoRow /\ row[r] # "deleted"
    /\ wanted' = [wanted EXCEPT ![c] = r]
    /\ UNCHANGED row

Over(c) == wanted[c] # NoRow /\ wanted' = [wanted EXCEPT ![c] = NoRow]

\* The flag goes from whatever row has it to the one that was asked for.
Grant(c) ==
    /\ Over(c)
    /\ row[wanted[c]] # "deleted"
    /\ row' = [r \in Rows |-> IF r = wanted[c] THEN "flagged"
                              ELSE IF row[r] = "flagged" THEN "plain" ELSE row[r]]

Deny(c) == Over(c) /\ UNCHANGED row

Create(r) == row[r] = "new" /\ row' = [row EXCEPT ![r] = "plain"] /\ UNCHANGED wanted
Unflag(r) == There(r) /\ row' = [row EXCEPT ![r] = "plain"] /\ UNCHANGED wanted
Remove(r) == There(r) /\ row' = [row EXCEPT ![r] = "deleted"] /\ UNCHANGED wanted

Step ==
    \/ \E c \in Clients : Grant(c) \/ Deny(c) \/ \E r \in Rows : Ask(c, r)
    \/ \E r \in Rows : Create(r) \/ Unflag(r) \/ Remove(r)

Requests == Start /\ [][Step]_requestVars
=============================================================================
