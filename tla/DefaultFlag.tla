----------------------------- MODULE DefaultFlag -----------------------------
(***************************************************************************)
(* The one default validator of a node, and the one primary hostname of a  *)
(* tenant: rows of one owner, of which one at most may be flagged.         *)
(*                                                                         *)
(* A row is made the flagged one in a transaction of two statements, one   *)
(* that clears the flag of the other rows and one that sets it.  They run  *)
(* at READ COMMITTED: a statement sees what was committed when it began,   *)
(* and waits for rows that another transaction has written.                *)
(***************************************************************************)
EXTENDS Naturals, FiniteSets

CONSTANTS
    Rows,       \* ids of the owner's rows; an id is never used again
    Clients,    \* requests that set the flag
    NoRow       \* no row

ASSUME FlagAssumption == NoRow \notin Rows

VARIABLES
    row,        \* the committed state of each row
    tx          \* tx[c]: the transaction that runs for c

flagVars == <<row, tx>>

RowStates == {"new", "plain", "flagged", "deleted"}
There(r) == row[r] \in {"plain", "flagged"}
Flagged == {r \in Rows : row[r] = "flagged"}

Ended == [at |-> "idle", target |-> NoRow, todo |-> {}, cleared |-> {}]

\* Initially an owner may have rows, one of them flagged or none.
FlagInit ==
    /\ row \in {f \in [Rows -> {"new", "plain", "flagged"}] :
                    \A r, s \in Rows : f[r] = "flagged" /\ f[s] = "flagged" => r = s}
    /\ tx = [c \in Clients |-> Ended]

-----------------------------------------------------------------------------
\* The rows a transaction has written, which others wait for.
Written(c) == tx[c].cleared \cup (IF tx[c].at = "commit" THEN {tx[c].target} ELSE {})
Free(r) == \A c \in Clients : r \notin Written(c)

Inserting == {tx[c].target : c \in Clients}

\* setDefault, an update that sets isDefault, and setPrimaryBinding: the target is
\* there, and the other rows are to be cleared.
SetFlag(c, r) ==
    /\ tx[c].at = "idle"
    /\ There(r)
    /\ tx' = [tx EXCEPT ![c] = [at |-> "clear", target |-> r, cleared |-> {},
                                todo |-> {s \in Rows : There(s) /\ s # r}]]
    /\ UNCHANGED row

\* A validator is created as the default: all the node's rows are cleared first.
CreateFlagged(c, r) ==
    /\ tx[c].at = "idle"
    /\ row[r] = "new" /\ r \notin Inserting
    /\ tx' = [tx EXCEPT ![c] = [at |-> "clear", target |-> r, cleared |-> {},
                                todo |-> {s \in Rows : There(s)}]]
    /\ UNCHANGED row

\* createBinding with isPrimary: nothing is cleared.
CreatePrimary(c, r) ==
    /\ tx[c].at = "idle"
    /\ row[r] = "new" /\ r \notin Inserting
    /\ tx' = [tx EXCEPT ![c] = [at |-> "mark", target |-> r, cleared |-> {}, todo |-> {}]]
    /\ UNCHANGED row

\* The first statement comes to one more row, in any order.
ClearOne(c, r) ==
    /\ tx[c].at = "clear"
    /\ r \in tx[c].todo
    /\ Free(r)
    /\ tx' = [tx EXCEPT ![c].todo = @ \ {r},
                        ![c].cleared = IF There(r) THEN @ \cup {r} ELSE @]
    /\ UNCHANGED row

Cleared(c) ==
    /\ tx[c].at = "clear"
    /\ tx[c].todo = {}
    /\ tx' = [tx EXCEPT ![c].at = "mark"]
    /\ UNCHANGED row

\* Mutant: there is no index, as the first statement has cleared the flags.
IndexAdmitsAll(c) == TRUE

\* The partial unique index: a second flagged row is refused, and one that is not
\* committed yet is waited for.
IndexAdmits(c) ==
    /\ Flagged \subseteq tx[c].cleared \cup {tx[c].target}
    /\ \A d \in Clients \ {c} : tx[d].at # "commit"

\* The second statement.
Mark(c) ==
    /\ tx[c].at = "mark"
    /\ Free(tx[c].target)
    /\ row[tx[c].target] # "deleted"
    /\ IndexAdmits(c)
    /\ tx' = [tx EXCEPT ![c].at = "commit"]
    /\ UNCHANGED row

\* Mutant: as an update that matches no row is no error, the first one is committed.
CommitUnmarked(c) ==
    /\ tx[c].at = "mark"
    /\ row[tx[c].target] = "deleted"
    /\ row' = [r \in Rows |-> IF r \in tx[c].cleared THEN "plain" ELSE row[r]]
    /\ tx' = [tx EXCEPT ![c] = Ended]

\* Mutant: the missing target is not noticed.
RefusedByIndex(c) ==
    /\ tx[c].at = "mark"
    /\ Free(tx[c].target)
    /\ ~(Flagged \subseteq tx[c].cleared \cup {tx[c].target})
    /\ tx' = [tx EXCEPT ![c] = Ended]
    /\ UNCHANGED row

\* The second statement fails, and with it the transaction: the target is gone, or
\* another row is flagged.
Refused(c) ==
    /\ tx[c].at = "mark"
    /\ Free(tx[c].target)
    /\ \/ row[tx[c].target] = "deleted"
       \/ ~(Flagged \subseteq tx[c].cleared \cup {tx[c].target})
    /\ tx' = [tx EXCEPT ![c] = Ended]
    /\ UNCHANGED row

Commit(c) ==
    /\ tx[c].at = "commit"
    /\ row' = [r \in Rows |-> IF r = tx[c].target THEN "flagged"
                              ELSE IF r \in tx[c].cleared THEN "plain" ELSE row[r]]
    /\ tx' = [tx EXCEPT ![c] = Ended]

\* Transactions that wait for each other's rows: the database aborts one of them.
\* (A statement waits at the first row that is taken, in an order that is not known.)
Waits(c, d) ==
    LET next == IF tx[c].at = "clear" THEN tx[c].todo
                ELSE IF tx[c].at = "mark" THEN {tx[c].target} ELSE {}
    IN  next \cap Written(d) # {}

BreakDeadlock(c) ==
    /\ \E D \in SUBSET Clients : c \in D /\ \A d \in D : \E e \in D \ {d} : Waits(d, e)
    /\ tx' = [tx EXCEPT ![c] = Ended]
    /\ UNCHANGED row

-----------------------------------------------------------------------------
(* Single statements                                                       *)

CreatePlain(r) ==
    /\ row[r] = "new" /\ r \notin Inserting
    /\ row' = [row EXCEPT ![r] = "plain"]
    /\ UNCHANGED tx

\* An update with isDefault false.
Unflag(r) ==
    /\ There(r) /\ Free(r)
    /\ row' = [row EXCEPT ![r] = "plain"]
    /\ UNCHANGED tx

Remove(r) ==
    /\ There(r) /\ Free(r)
    /\ row' = [row EXCEPT ![r] = "deleted"]
    /\ UNCHANGED tx

Proceed(c) ==
    \/ \E r \in Rows : ClearOne(c, r)
    \/ Cleared(c) \/ Mark(c) \/ Refused(c) \/ Commit(c)

FlagNext ==
    \/ \E c \in Clients :
          \/ \E r \in Rows : SetFlag(c, r) \/ CreateFlagged(c, r) \/ CreatePrimary(c, r)
          \/ Proceed(c) \/ BreakDeadlock(c)
    \/ \E r \in Rows : CreatePlain(r) \/ Unflag(r) \/ Remove(r)

\* A transaction gets the rows it waits for in its turn, and the database finds
\* deadlocks.
FlagFairness ==
    \A c \in Clients : SF_flagVars(Proceed(c)) /\ WF_flagVars(BreakDeadlock(c))

FlagSpec == FlagInit /\ [][FlagNext]_flagVars /\ FlagFairness

-----------------------------------------------------------------------------
FlagTypeOK ==
    /\ row \in [Rows -> RowStates]
    /\ tx \in [Clients -> [at : {"idle", "clear", "mark", "commit"},
                           target : Rows \cup {NoRow},
                           todo : SUBSET Rows, cleared : SUBSET Rows]]

\* An owner has one flagged row at most, also when one is inserted that the
\* statement clearing the others could not see.
OneFlagged == \A r, s \in Flagged : r = s

\* Two statements, with everything that others commit between them, act as one: a
\* request moves the flag to its row or changes nothing, so it never loses the flag,
\* never brings a deleted row back and never leaves a second one.
Atomic == INSTANCE FlagRequests WITH wanted <- [c \in Clients |-> tx[c].target]

ActsAtOnce == Atomic!Requests

\* A request for the flag comes to an end, although two of them may wait for each
\* other's rows.
RequestEnds == \A c \in Clients : tx[c].at # "idle" ~> tx[c].at = "idle"
=============================================================================
