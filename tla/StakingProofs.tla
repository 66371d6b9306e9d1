---------------------------- MODULE StakingProofs ----------------------------
(*****************************************************************************)
(* Validators and their pools: the flag of a row is unique, and the two      *)
(* statements that pass it on act as one, for any number of rows and         *)
(* requests; a release of stake is filed on true grounds, for any number of  *)
(* proposals and submissions; and all of it keeps its types together.        *)
(*****************************************************************************)
EXTENDS MCStaking, NodeTreeProofs, SequenceTheorems, TLAPS

-----------------------------------------------------------------------------
(* The flag                                                                *)

\* A request that runs has a row to flag.
HasTarget == \A c \in Clients : tx[c].at # "idle" => tx[c].target \in Rows

\* One transaction at a time has set the flag, and has cleared every other.
OneCommits == \A c, d \in Clients : tx[c].at = "commit" /\ tx[d].at = "commit" => c = d

HasCleared ==
    \A c \in Clients : tx[c].at = "commit" => Flagged \subseteq tx[c].cleared \cup {tx[c].target}

FlagInv == FlagTypeOK /\ HasTarget /\ OneCommits /\ HasCleared /\ OneFlagged

-----------------------------------------------------------------------------
\* Steps of one request that leave the rows alone keep the invariant, unless they
\* come to the commit.
LEMMA QuietStep ==
    ASSUME FlagInv, FlagTypeOK', UNCHANGED row, NEW c \in Clients,
           \A d \in Clients \ {c} : tx'[d] = tx[d],
           tx'[c].at # "commit",
           tx'[c].at # "idle" => tx'[c].target \in Rows
    PROVE  FlagInv'
<1>1. Flagged' = Flagged
  BY DEF Flagged
<1>2. HasTarget'
  BY DEF FlagInv, HasTarget
<1>3. OneCommits'
  BY DEF FlagInv, OneCommits
<1>4. HasCleared'
  BY <1>1 DEF FlagInv, HasCleared
<1>5. OneFlagged'
  BY <1>1 DEF FlagInv, OneFlagged
<1> QED BY <1>2, <1>3, <1>4, <1>5 DEF FlagInv

LEMMA EndedStep ==
    ASSUME FlagInv, UNCHANGED row, NEW c \in Clients, tx' = [tx EXCEPT ![c] = Ended]
    PROVE  FlagInv'
<1>1. FlagTypeOK' /\ tx'[c].at = "idle"
  BY DEF FlagInv, FlagTypeOK, Ended
<1>2. \A d \in Clients \ {c} : tx'[d] = tx[d]
  BY DEF FlagInv, FlagTypeOK
<1> QED BY <1>1, <1>2, QuietStep

\* The flagged rows become fewer.
LEMMA RowStep ==
    ASSUME FlagInv, UNCHANGED tx, NEW r \in Rows, NEW s \in {"plain", "deleted"},
           row' = [row EXCEPT ![r] = s]
    PROVE  FlagInv' /\ Flagged' = Flagged \ {r}
<1>1. FlagTypeOK' /\ Flagged' = Flagged \ {r}
  BY DEF FlagInv, FlagTypeOK, Flagged, RowStates
<1> QED BY <1>1 DEF FlagInv, HasTarget, OneCommits, HasCleared, OneFlagged

LEMMA FlagStart == ASSUME FlagInit PROVE FlagInv
<1>1. FlagTypeOK
  BY DEF FlagInit, FlagTypeOK, Ended, RowStates
<1>2. \A c \in Clients : tx[c].at = "idle"
  BY DEF FlagInit, Ended
<1>3. OneFlagged
  BY DEF FlagInit, OneFlagged, Flagged
<1> QED BY <1>1, <1>2, <1>3 DEF FlagInv, HasTarget, OneCommits, HasCleared

LEMMA StartStep ==
    ASSUME FlagInv, NEW c \in Clients, NEW r \in Rows,
           SetFlag(c, r) \/ CreateFlagged(c, r) \/ CreatePrimary(c, r)
    PROVE  FlagInv'
<1>1. /\ FlagTypeOK' /\ UNCHANGED row
      /\ \A d \in Clients \ {c} : tx'[d] = tx[d]
      /\ tx'[c].at # "commit" /\ tx'[c].target \in Rows
  <2>1. CASE SetFlag(c, r)
    BY <2>1 DEF SetFlag, FlagInv, FlagTypeOK
  <2>2. CASE CreateFlagged(c, r)
    BY <2>2 DEF CreateFlagged, FlagInv, FlagTypeOK
  <2>3. CASE CreatePrimary(c, r)
    BY <2>3 DEF CreatePrimary, FlagInv, FlagTypeOK
  <2> QED BY <2>1, <2>2, <2>3
<1> QED BY <1>1, QuietStep

LEMMA ClearStep ==
    ASSUME FlagInv, NEW c \in Clients, (\E r \in Rows : ClearOne(c, r)) \/ Cleared(c)
    PROVE  FlagInv'
<1>1. tx[c].at = "clear" /\ tx[c].target \in Rows /\ UNCHANGED row
  BY DEF ClearOne, Cleared, FlagInv, HasTarget
<1>2. /\ FlagTypeOK'
      /\ \A d \in Clients \ {c} : tx'[d] = tx[d]
      /\ tx'[c].at # "commit" /\ tx'[c].target \in Rows
  <2>1. CASE Cleared(c)
    <3>1. tx' = [tx EXCEPT ![c].at = "mark"]
      BY <2>1 DEF Cleared
    <3> QED BY <1>1, <3>1 DEF FlagInv, FlagTypeOK
  <2>2. ASSUME NEW r \in Rows, ClearOne(c, r)
        PROVE  /\ FlagTypeOK'
               /\ \A d \in Clients \ {c} : tx'[d] = tx[d]
               /\ tx'[c].at # "commit" /\ tx'[c].target \in Rows
    <3> DEFINE x == [tx[c] EXCEPT !.todo = @ \ {r},
                                  !.cleared = IF There(r) THEN @ \cup {r} ELSE @]
    <3>1. tx' = [tx EXCEPT ![c] = x]
      BY <1>1, <2>2 DEF ClearOne, FlagInv, FlagTypeOK
    <3>2. /\ x \in [at : {"idle", "clear", "mark", "commit"}, target : Rows \cup {NoRow},
                     todo : SUBSET Rows, cleared : SUBSET Rows]
          /\ x.at = "clear" /\ x.target = tx[c].target
      BY <1>1 DEF FlagInv, FlagTypeOK
    <3> HIDE DEF x
    <3> QED BY <1>1, <3>1, <3>2 DEF FlagInv, FlagTypeOK
  <2> QED BY <2>1, <2>2
<1> QED BY <1>1, <1>2, QuietStep

LEMMA MarkStep == ASSUME FlagInv, NEW c \in Clients, Mark(c) PROVE FlagInv'
<1>1. /\ tx[c].at = "mark" /\ tx[c].target \in Rows
      /\ tx' = [tx EXCEPT ![c].at = "commit"] /\ UNCHANGED row
  BY DEF Mark, FlagInv, HasTarget
<1>2. FlagTypeOK'
  BY <1>1 DEF FlagInv, FlagTypeOK
<1>3. \A d \in Clients : tx'[d] = IF d = c THEN [tx[c] EXCEPT !.at = "commit"] ELSE tx[d]
  BY <1>1 DEF FlagInv, FlagTypeOK
<1>4. /\ [tx[c] EXCEPT !.at = "commit"].at = "commit"
      /\ [tx[c] EXCEPT !.at = "commit"].target = tx[c].target
      /\ [tx[c] EXCEPT !.at = "commit"].cleared = tx[c].cleared
  BY DEF FlagInv, FlagTypeOK
<1>5. Flagged' = Flagged
  BY <1>1 DEF Flagged
<1>6. /\ Flagged \subseteq tx[c].cleared \cup {tx[c].target}
      /\ \A d \in Clients \ {c} : tx[d].at # "commit"
  BY DEF Mark, IndexAdmits
<1>7. HasTarget' /\ OneCommits' /\ HasCleared'
  BY <1>1, <1>3, <1>4, <1>5, <1>6 DEF FlagInv, HasTarget, OneCommits, HasCleared
<1> QED BY <1>2, <1>5, <1>7 DEF FlagInv, OneFlagged

\* The one row the committed transaction flags stays the only one.
LEMMA CommitStep ==
    ASSUME FlagInv, NEW c \in Clients, Commit(c)
    PROVE  FlagInv' /\ Flagged' = {tx[c].target}
<1>1. tx[c].at = "commit" /\ tx[c].target \in Rows
  BY DEF Commit, FlagInv, HasTarget
<1>2. FlagTypeOK'
  BY DEF Commit, Ended, FlagInv, FlagTypeOK, RowStates
<1>3. \A d \in Clients : tx'[d] = IF d = c THEN Ended ELSE tx[d]
  BY DEF Commit, FlagInv, FlagTypeOK
<1>4. Flagged' = {tx[c].target}
  BY <1>1 DEF Commit, Flagged, FlagInv, HasCleared
<1>5. \A d \in Clients : tx'[d].at # "commit"
  BY <1>1, <1>3 DEF FlagInv, OneCommits, Ended
<1>6. HasTarget'
  BY <1>3 DEF FlagInv, HasTarget, Ended
<1> QED BY <1>2, <1>4, <1>5, <1>6 DEF FlagInv, OneCommits, HasCleared, OneFlagged

\* Every step keeps the invariant, and what it does with the flagged rows.
LEMMA FlagInvariance ==
    ASSUME FlagInv, [FlagNext]_flagVars
    PROVE  /\ FlagInv'
           /\ Flagged # {} /\ Flagged' = {} => \E r \in Flagged : Unflag(r) \/ Remove(r)
<1>1. CASE UNCHANGED flagVars
  BY <1>1 DEF FlagInv, FlagTypeOK, HasTarget, OneCommits, HasCleared, OneFlagged, Flagged, flagVars
<1>2. ASSUME NEW c \in Clients, NEW r \in Rows,
             SetFlag(c, r) \/ CreateFlagged(c, r) \/ CreatePrimary(c, r)
      PROVE  FlagInv' /\ Flagged' = Flagged
  BY <1>2, StartStep DEF SetFlag, CreateFlagged, CreatePrimary, Flagged
<1>3. ASSUME NEW c \in Clients, (\E r \in Rows : ClearOne(c, r)) \/ Cleared(c)
      PROVE  FlagInv' /\ Flagged' = Flagged
  BY <1>3, ClearStep DEF ClearOne, Cleared, Flagged
<1>4. ASSUME NEW c \in Clients, Mark(c)
      PROVE  FlagInv' /\ Flagged' = Flagged
  BY <1>4, MarkStep DEF Mark, Flagged
<1>5. ASSUME NEW c \in Clients, Refused(c) \/ BreakDeadlock(c)
      PROVE  FlagInv' /\ Flagged' = Flagged
  BY <1>5, EndedStep DEF Refused, BreakDeadlock, Flagged
<1>6. ASSUME NEW c \in Clients, Commit(c)
      PROVE  FlagInv' /\ Flagged' # {}
  BY <1>6, CommitStep
<1>7. ASSUME NEW r \in Rows, CreatePlain(r)
      PROVE  FlagInv' /\ Flagged' = Flagged
  <2>1. row[r] = "new" /\ row' = [row EXCEPT ![r] = "plain"] /\ UNCHANGED tx
    BY <1>7 DEF CreatePlain
  <2>2. r \notin Flagged
    BY <2>1 DEF Flagged
  <2> QED BY <2>1, <2>2, RowStep
<1>8. ASSUME NEW r \in Rows, Unflag(r) \/ Remove(r)
      PROVE  FlagInv' /\ Flagged' = Flagged \ {r}
  BY <1>8, RowStep DEF Unflag, Remove
<1>9. CASE FlagNext
  BY <1>2, <1>3, <1>4, <1>5, <1>6, <1>7, <1>8, <1>9 DEF FlagNext, Proceed
<1> QED BY <1>1, <1>9

-----------------------------------------------------------------------------
\* The inductive invariant: one transaction at most is about to commit, and it has
\* cleared every flag it found.
THEOREM FlagInvariant == FlagSpec => []FlagInv
<1>1. FlagInit => FlagInv
  BY FlagStart
<1>2. FlagInv /\ [FlagNext]_flagVars => FlagInv'
  BY FlagInvariance
<1> QED BY <1>1, <1>2, PTL DEF FlagSpec

\* Type correctness, for any number of rows and requests.
THEOREM FlagTypeCorrect == FlagSpec => []FlagTypeOK
<1>1. FlagInv => FlagTypeOK
  BY DEF FlagInv
<1> QED BY <1>1, FlagInvariant, PTL

\* An owner has one default validator, or one primary hostname, at most.
THEOREM OneFlaggedForever == FlagSpec => []OneFlagged
<1>1. FlagInv => OneFlagged
  BY DEF FlagInv
<1> QED BY <1>1, FlagInvariant, PTL

\* The flag is only lost with the row that has it, or when it is taken off on purpose: a
\* request to give it to another row does so or changes nothing.
FlagIsPassedOn ==
    [][Flagged # {} /\ Flagged' = {} => \E r \in Flagged : Unflag(r) \/ Remove(r)]_flagVars

\* No request to pass the flag on loses it.
THEOREM FlagPassedOn == FlagSpec => FlagIsPassedOn
<1>1. FlagInv /\ [FlagNext]_flagVars =>
          [Flagged # {} /\ Flagged' = {} => \E r \in Flagged : Unflag(r) \/ Remove(r)]_flagVars
  BY FlagInvariance
<1> QED BY <1>1, FlagInvariant, PTL DEF FlagSpec, FlagIsPassedOn

-----------------------------------------------------------------------------
(* Two statements act as one                                               *)

\* What the locks hold still until a transaction ends: the rows it has cleared are there,
\* and so is the one it has flagged, which may also be its own new row.
Held ==
    \A c \in Clients : /\ \A r \in tx[c].cleared : There(r)
                       /\ tx[c].at = "commit" => row[tx[c].target] # "deleted"
                       /\ tx[c].at = "idle" => tx[c].target = NoRow

\* Steps of one request that leave the rows alone.
LEMMA HeldTx ==
    ASSUME Held, UNCHANGED row, NEW c \in Clients,
           \A d \in Clients \ {c} : tx'[d] = tx[d],
           \A r \in tx'[c].cleared : There(r),
           tx'[c].at = "commit" => row[tx'[c].target] # "deleted",
           tx'[c].at = "idle" => tx'[c].target = NoRow
    PROVE  Held'
<1>1. \A r : There(r)' <=> There(r)
  BY DEF There
<1> QED BY <1>1 DEF Held

\* A row that nobody holds may go, and no other does.
LEMMA HeldRow ==
    ASSUME FlagInv, Held, UNCHANGED tx, row' \in [Rows -> RowStates],
           \A r \in Rows : /\ There(r) /\ ~Free(r) => There(r)'
                           /\ row'[r] = "deleted" => row[r] = "deleted" \/ Free(r)
    PROVE  Held'
<1> SUFFICES ASSUME NEW c \in Clients
             PROVE  /\ \A r \in tx[c].cleared : There(r)'
                    /\ tx[c].at = "commit" => row'[tx[c].target] # "deleted"
                    /\ tx[c].at = "idle" => tx[c].target = NoRow
  BY DEF Held
<1>1. tx[c].cleared \subseteq Rows
  BY DEF FlagInv, FlagTypeOK
<1>2. ASSUME NEW r \in tx[c].cleared PROVE There(r)'
  <2>1. There(r) /\ ~Free(r)
    BY <1>2 DEF Held, Free, Written
  <2> QED BY <1>1, <2>1
<1>3. ASSUME tx[c].at = "commit" PROVE row'[tx[c].target] # "deleted"
  <2>1. tx[c].target \in Rows /\ row[tx[c].target] # "deleted"
    BY <1>3 DEF FlagInv, HasTarget, Held
  <2>2. ~Free(tx[c].target)
    BY <1>3 DEF Free, Written
  <2> QED BY <2>1, <2>2
<1> QED BY <1>2, <1>3 DEF Held

\* What each step of a request holds, and what it is to the promise.
LEMMA AskMaps ==
    ASSUME FlagInv, Held, NEW c \in Clients, NEW r \in Rows,
           SetFlag(c, r) \/ CreateFlagged(c, r) \/ CreatePrimary(c, r)
    PROVE  Held' /\ Atomic!Ask(c, r)
<1>1. /\ tx[c].at = "idle" /\ row[r] # "deleted" /\ UNCHANGED row
      /\ tx'[c].cleared = {} /\ tx'[c].target = r /\ tx'[c].at \in {"clear", "mark"}
      /\ \A d \in Clients \ {c} : tx'[d] = tx[d]
  <2>1. CASE SetFlag(c, r)
    BY <2>1 DEF SetFlag, There, FlagInv, FlagTypeOK
  <2>2. CASE CreateFlagged(c, r)
    BY <2>2 DEF CreateFlagged, FlagInv, FlagTypeOK
  <2>3. CASE CreatePrimary(c, r)
    BY <2>3 DEF CreatePrimary, FlagInv, FlagTypeOK
  <2> QED BY <2>1, <2>2, <2>3
<1>2. Held'
  BY <1>1, HeldTx
<1>3. tx[c].target = NoRow
  BY <1>1 DEF Held
<1>4. [d \in Clients |-> tx'[d].target] =
          [[d \in Clients |-> tx[d].target] EXCEPT ![c] = r]
  BY <1>1
<1> QED BY <1>1, <1>2, <1>3, <1>4 DEF Atomic!Ask

LEMMA WorkMaps ==
    ASSUME FlagInv, Held, NEW c \in Clients,
           (\E r \in Rows : ClearOne(c, r)) \/ Cleared(c) \/ Mark(c)
    PROVE  Held' /\ UNCHANGED Atomic!requestVars
<1>1. /\ UNCHANGED row /\ tx'[c].at # "idle" /\ tx'[c].target = tx[c].target
      /\ \A r \in tx'[c].cleared : r \in tx[c].cleared \/ There(r)
      /\ tx'[c].at = "commit" => row[tx[c].target] # "deleted"
      /\ \A d \in Clients \ {c} : tx'[d] = tx[d]
  <2>1. ASSUME NEW r \in Rows, ClearOne(c, r)
        PROVE  /\ UNCHANGED row /\ tx'[c].at = "clear" /\ tx'[c].target = tx[c].target
               /\ tx'[c].cleared = IF There(r) THEN tx[c].cleared \cup {r} ELSE tx[c].cleared
               /\ \A d \in Clients \ {c} : tx'[d] = tx[d]
    BY <2>1 DEF ClearOne, FlagInv, FlagTypeOK
  <2>2. CASE Cleared(c)
    BY <2>2 DEF Cleared, FlagInv, FlagTypeOK
  <2>3. CASE Mark(c)
    BY <2>3 DEF Mark, FlagInv, FlagTypeOK
  <2> QED BY <2>1, <2>2, <2>3
<1>2. \A r \in tx'[c].cleared : There(r)
  BY <1>1 DEF Held
<1>3. Held'
  BY <1>1, <1>2, HeldTx
<1>4. [d \in Clients |-> tx'[d].target] = [d \in Clients |-> tx[d].target]
  BY <1>1
<1> QED BY <1>1, <1>3, <1>4 DEF Atomic!requestVars

\* A request that runs wants a row, and then wants none.
LEMMA EndMaps ==
    ASSUME FlagInv, NEW c \in Clients, tx[c].at # "idle", tx' = [tx EXCEPT ![c] = Ended]
    PROVE  /\ Atomic!Over(c) /\ tx[c].target \in Rows
           /\ tx'[c] = Ended /\ \A d \in Clients \ {c} : tx'[d] = tx[d]
<1>1. tx'[c] = Ended /\ \A d \in Clients \ {c} : tx'[d] = tx[d]
  BY DEF FlagInv, FlagTypeOK
<1>2. tx[c].target \in Rows /\ tx[c].target # NoRow /\ tx'[c].target = NoRow
  BY <1>1, FlagAssumption DEF FlagInv, HasTarget, Ended
<1>3. [d \in Clients |-> tx'[d].target] =
          [[d \in Clients |-> tx[d].target] EXCEPT ![c] = NoRow]
  <2> DEFINE before == [d \in Clients |-> tx[d].target]
             after == [d \in Clients |-> tx'[d].target]
  <2>1. \A d \in Clients : after[d] = IF d = c THEN NoRow ELSE before[d]
    BY <1>1, <1>2
  <2>2. after = [d \in Clients |-> IF d = c THEN NoRow ELSE before[d]]
    BY <2>1
  <2>3. [before EXCEPT ![c] = NoRow] = [d \in Clients |-> IF d = c THEN NoRow ELSE before[d]]
    OBVIOUS
  <2> QED BY <2>2, <2>3
<1> QED BY <1>1, <1>2, <1>3 DEF Atomic!Over

LEMMA DenyMaps ==
    ASSUME FlagInv, Held, NEW c \in Clients, Refused(c) \/ BreakDeadlock(c)
    PROVE  Held' /\ Atomic!Deny(c)
<1>1. tx' = [tx EXCEPT ![c] = Ended] /\ UNCHANGED row
  BY DEF Refused, BreakDeadlock
\* Only a statement that is about to write waits for a row.
<1>2. tx[c].at # "idle"
  <2>1. CASE Refused(c)
    BY <2>1 DEF Refused
  <2>2. ASSUME NEW e \in Clients, Waits(c, e) PROVE tx[c].at # "idle"
    BY <2>2 DEF Waits
  <2>3. CASE BreakDeadlock(c)
    BY <2>2, <2>3 DEF BreakDeadlock
  <2> QED BY <2>1, <2>3
<1>3. /\ Atomic!Over(c) /\ tx'[c] = Ended
      /\ \A d \in Clients \ {c} : tx'[d] = tx[d]
  BY <1>1, <1>2, EndMaps
<1>4. Ended.at = "idle" /\ Ended.target = NoRow /\ Ended.cleared = {}
  BY DEF Ended
<1>5. Held'
  BY <1>1, <1>3, <1>4, HeldTx
<1> QED BY <1>1, <1>3, <1>5 DEF Atomic!Deny

\* The transaction has cleared the one row that was flagged, and only rows that still are
\* there: its writes, decided one at a time, are the move of the flag.
LEMMA GrantMaps ==
    ASSUME FlagInv, Held, NEW c \in Clients, Commit(c)
    PROVE  Held' /\ Atomic!Grant(c)
<1> DEFINE t == tx[c].target
<1>1. /\ tx[c].at = "commit" /\ tx' = [tx EXCEPT ![c] = Ended]
      /\ row' = [r \in Rows |-> IF r = t THEN "flagged"
                                ELSE IF r \in tx[c].cleared THEN "plain" ELSE row[r]]
  BY DEF Commit
<1>2. /\ Atomic!Over(c) /\ tx'[c] = Ended /\ t \in Rows
      /\ \A d \in Clients \ {c} : tx'[d] = tx[d]
  BY <1>1, EndMaps
<1>3. row[t] # "deleted" /\ \A r \in tx[c].cleared : There(r)
  BY <1>1 DEF Held
<1>4. \A r \in Rows \ (tx[c].cleared \cup {t}) : row[r] # "flagged"
  BY <1>1 DEF FlagInv, HasCleared, Flagged
<1>5. row' = [r \in Rows |-> IF r = t THEN "flagged"
                             ELSE IF row[r] = "flagged" THEN "plain" ELSE row[r]]
  BY <1>1, <1>3, <1>4 DEF There
<1>6. [d \in Clients |-> tx[d].target][c] = t
  OBVIOUS
<1>7. Atomic!Grant(c)
  BY <1>2, <1>3, <1>5, <1>6 DEF Atomic!Grant
<1>8. \A r \in Rows : /\ There(r) => There(r)'
                      /\ row[r] # "deleted" => row'[r] # "deleted"
  BY <1>1 DEF There
<1>9. Held'
  <2> SUFFICES ASSUME NEW d \in Clients
               PROVE  /\ \A r \in tx'[d].cleared : There(r)'
                      /\ tx'[d].at = "commit" => row'[tx'[d].target] # "deleted"
                      /\ tx'[d].at = "idle" => tx'[d].target = NoRow
    BY DEF Held
  <2>1. CASE d = c
    BY <1>2, <2>1 DEF Ended
  <2>2. CASE d # c
    <3>1. tx'[d] = tx[d] /\ tx[d].cleared \subseteq Rows
      BY <1>2, <2>2 DEF FlagInv, FlagTypeOK
    <3>2. tx[d].at = "commit" => tx[d].target \in Rows
      BY DEF FlagInv, HasTarget
    <3> QED BY <1>8, <3>1, <3>2 DEF Held
  <2> QED BY <2>1, <2>2
<1> QED BY <1>7, <1>9

LEMMA RowMaps ==
    ASSUME FlagInv, Held, NEW r \in Rows, CreatePlain(r) \/ Unflag(r) \/ Remove(r)
    PROVE  Held' /\ (Atomic!Create(r) \/ Atomic!Unflag(r) \/ Atomic!Remove(r))
<1>1. UNCHANGED tx /\ row \in [Rows -> RowStates]
  BY DEF CreatePlain, Unflag, Remove, FlagInv, FlagTypeOK
<1>2. CASE CreatePlain(r)
  <2>1. row[r] = "new" /\ row' = [row EXCEPT ![r] = "plain"]
    BY <1>2 DEF CreatePlain
  <2>2. Held'
    BY <1>1, <2>1, HeldRow DEF There, RowStates
  <2> QED BY <1>1, <2>1, <2>2 DEF Atomic!Create
<1>3. CASE Unflag(r)
  <2>1. There(r) /\ row' = [row EXCEPT ![r] = "plain"]
    BY <1>3 DEF Unflag
  <2>2. Held'
    BY <1>1, <2>1, HeldRow DEF There, RowStates
  <2> QED BY <1>1, <2>1, <2>2 DEF There, Atomic!Unflag, Atomic!There
<1>4. CASE Remove(r)
  <2>1. There(r) /\ Free(r) /\ row' = [row EXCEPT ![r] = "deleted"]
    BY <1>4 DEF Remove
  <2>2. Held'
    BY <1>1, <2>1, HeldRow DEF There, RowStates
  <2> QED BY <1>1, <2>1, <2>2 DEF There, Atomic!Remove, Atomic!There
<1> QED BY <1>2, <1>3, <1>4

LEMMA FlagStepMaps ==
    FlagInv /\ Held /\ [FlagNext]_flagVars => Held' /\ [Atomic!Step]_Atomic!requestVars
<1> SUFFICES ASSUME FlagInv, Held, [FlagNext]_flagVars
             PROVE  Held' /\ [Atomic!Step]_Atomic!requestVars
  OBVIOUS
<1>1. ASSUME NEW c \in Clients, NEW r \in Rows,
             SetFlag(c, r) \/ CreateFlagged(c, r) \/ CreatePrimary(c, r)
      PROVE  Held' /\ Atomic!Step
  BY <1>1, AskMaps DEF Atomic!Step
<1>2. ASSUME NEW c \in Clients, (\E r \in Rows : ClearOne(c, r)) \/ Cleared(c) \/ Mark(c)
      PROVE  Held' /\ UNCHANGED Atomic!requestVars
  BY <1>2, WorkMaps
<1>3. ASSUME NEW c \in Clients, Refused(c) \/ BreakDeadlock(c)
      PROVE  Held' /\ Atomic!Step
  BY <1>3, DenyMaps DEF Atomic!Step
<1>4. ASSUME NEW c \in Clients, Commit(c)
      PROVE  Held' /\ Atomic!Step
  BY <1>4, GrantMaps DEF Atomic!Step
<1>5. ASSUME NEW r \in Rows, CreatePlain(r) \/ Unflag(r) \/ Remove(r)
      PROVE  Held' /\ Atomic!Step
  BY <1>5, RowMaps DEF Atomic!Step
<1>6. CASE UNCHANGED flagVars
  BY <1>6 DEF flagVars, Held, There, Atomic!requestVars
<1>7. CASE FlagNext
  BY <1>1, <1>2, <1>3, <1>4, <1>5, <1>7 DEF FlagNext, Proceed
<1> QED BY <1>6, <1>7

\* Whatever others commit between its two statements, a request moves the flag to its row
\* in one step or changes nothing: it never loses the flag, leaves a second one or brings
\* a deleted row back.
THEOREM FlagActsAtOnce == FlagSpec => ActsAtOnce
<1>1. FlagInit => Held /\ Atomic!Start
  <2> SUFFICES ASSUME FlagInit PROVE Held /\ Atomic!Start
    OBVIOUS
  <2>1. tx = [c \in Clients |-> Ended]
    BY DEF FlagInit
  <2>2. \A c \in Clients : tx[c].at = "idle" /\ tx[c].target = NoRow /\ tx[c].cleared = {}
    BY <2>1 DEF Ended
  <2>3. [c \in Clients |-> tx[c].target] = [c \in Clients |-> NoRow]
    BY <2>2
  <2> QED BY <2>2, <2>3 DEF FlagInit, Held, Atomic!Start
<1> QED BY <1>1, FlagStepMaps, FlagInvariant, PTL DEF FlagSpec, ActsAtOnce, Atomic!Requests

-----------------------------------------------------------------------------
(* The team's pool                                                         *)

\* A proposal that will never call the pool again.
Over(p, now) == p.status \in {"Closed", "Removed"} \/ (Votable(p) /\ Expired(p, now))

Reading == {"last", "range"}
Ranged == {"range", "account", "sign"}

\* What a submission knows of the proposals ps at the time now: when it found nothing, the
\* releases it has read, or need not read, are over.
Reads(x, ps, now) ==
    /\ x.at \in Ranged => x.last <= Len(ps)
    /\ x.at = "range" => x.end <= x.last
    /\ x.at \in Reading => x.now <= now
    /\ x.at # "idle" => x.amount >= 1
    /\ x.at \in Ranged /\ x.open = FALSE /\ x.flight = FALSE =>
          \A i \in 1..x.last : ps[i].method \in Releases /\ (x.at = "range" => i > x.end)
                                => Over(ps[i], now)

\* Ids are given in the order of time.
Ordered ==
    \A i \in DOMAIN dao : /\ dao[i].time <= clock
                          /\ \A j \in DOMAIN dao : j <= i => dao[j].time <= dao[i].time

\* AskIsCovered, of one submission.
Covered(x, ps, pl) ==
    x.at = "sign" /\ x.flight = FALSE /\ x.funded = FALSE
    /\ (\A i \in DOMAIN ps : i > x.last => ps[i].method \notin Releases) =>
        IF x.method = "unstake" THEN x.amount <= pl.staked /\ pl.unstaked = 0
        ELSE pl.ready = TRUE /\ x.amount <= pl.unstaked

PoolInv ==
    /\ PoolTypeOK
    /\ Ordered
    /\ \A s \in Submissions : Reads(submission[s], dao, clock)
    /\ \A s \in Submissions : submission[s].at = "sign" => submission[s].open = FALSE
    /\ \A s \in Submissions : Covered(submission[s], dao, pool)

-----------------------------------------------------------------------------
LEMMA PoolTyped ==
    ASSUME PoolTypeOK
    PROVE  /\ Len(dao) \in Nat /\ DOMAIN dao = 1..Len(dao)
           /\ dao \in [1..Len(dao) -> ProposalType]
           /\ \A i \in 1..Len(dao) : dao[i] \in ProposalType /\ dao[i].time \in Nat
           /\ clock \in Nat /\ Period \in Nat
           /\ pool \in [staked : Nat, unstaked : Nat, ready : BOOLEAN]
           /\ submission \in [Submissions -> SubmissionType]
<1>1. /\ Len(dao) \in Nat /\ DOMAIN dao = 1..Len(dao)
      /\ dao \in [1..Len(dao) -> ProposalType]
  BY LenProperties DEF PoolTypeOK
<1>2. \A i \in 1..Len(dao) : dao[i] \in ProposalType /\ dao[i].time \in Nat
  BY <1>1 DEF ProposalType
<1> QED BY <1>1, <1>2, PoolAssumption DEF PoolTypeOK

LEMMA StaysOver ==
    ASSUME NEW p \in ProposalType, NEW now \in Nat, NEW later \in Nat, now <= later,
           Over(p, now)
    PROVE  Over(p, later)
BY PoolAssumption DEF Over, Expired, ProposalType

-----------------------------------------------------------------------------
(* The chain                                                               *)

\* Something happens to the proposals and the time, and nothing that is over comes back.
LEMMA ChainStep ==
    ASSUME PoolInv, PoolTypeOK', Ordered',
           clock <= clock', Len(dao) <= Len(dao'),
           \A i \in 1..Len(dao) : /\ dao'[i].method = dao[i].method
                                  /\ Over(dao[i], clock) => Over(dao'[i], clock'),
           \A s \in Submissions :
              \/ submission'[s] = submission[s] /\ Covered(submission[s], dao', pool')
              \/ submission'[s] = Unsent
              \/ submission'[s] = [submission[s] EXCEPT !.funded = TRUE]
    PROVE  PoolInv'
<1>1. /\ Len(dao) \in Nat /\ Len(dao') \in Nat /\ clock \in Nat /\ clock' \in Nat
      /\ submission \in [Submissions -> SubmissionType]
  BY PoolTyped, LenProperties DEF PoolInv, PoolTypeOK
<1>2. ASSUME NEW s \in Submissions PROVE Reads(submission[s], dao', clock')
  <2> DEFINE x == submission[s]
  <2>1. /\ x \in SubmissionType /\ Reads(x, dao, clock)
        /\ x.last \in Nat /\ x.end \in Nat /\ x.now \in Nat
    BY <1>1 DEF PoolInv, SubmissionType
  <2> HIDE DEF x
  <2>2. x.at \in Ranged => x.last <= Len(dao) /\ x.last <= Len(dao')
    BY <1>1, <2>1 DEF Reads
  <2>3. x.at \in Reading => x.now <= clock'
    BY <1>1, <2>1 DEF Reads
  <2>4. ASSUME x.at \in Ranged, x.open = FALSE, x.flight = FALSE, NEW i \in 1..x.last,
               dao'[i].method \in Releases, x.at = "range" => i > x.end
        PROVE  Over(dao'[i], clock')
    <3>1. i \in 1..Len(dao)
      BY <1>1, <2>1, <2>2, <2>4
    <3>2. dao[i].method \in Releases
      BY <2>4, <3>1
    <3>3. Over(dao[i], clock)
      BY <2>1, <2>4, <3>2 DEF Reads
    <3> QED BY <3>1, <3>3
  <2>5. Reads(x, dao', clock')
    BY <2>1, <2>2, <2>3, <2>4 DEF Reads
  <2> QED BY <2>5 DEF x
<1>3. Unsent.at = "idle" /\ Reads(Unsent, dao', clock')
  BY DEF Unsent, Reads, Ranged, Reading
<1>4. Covered(Unsent, dao', pool')
  BY <1>3 DEF Covered
<1>5. \A s \in Submissions : submission[s].at = "sign" => submission[s].open = FALSE
  BY DEF PoolInv
<1>6. ASSUME NEW s \in Submissions, submission'[s] = [submission[s] EXCEPT !.funded = TRUE]
      PROVE  /\ Reads(submission'[s], dao', clock')
             /\ submission'[s].at = "sign" => submission'[s].open = FALSE
             /\ Covered(submission'[s], dao', pool')
  <2> DEFINE x == submission[s]
             y == [x EXCEPT !.funded = TRUE]
  <2>1. x \in SubmissionType
    BY <1>1
  <2>2. /\ y.at = x.at /\ y.last = x.last /\ y.end = x.end /\ y.now = x.now
        /\ y.amount = x.amount /\ y.open = x.open /\ y.flight = x.flight /\ y.funded = TRUE
    BY <2>1 DEF SubmissionType
  <2>3. Reads(x, dao', clock') /\ (x.at = "sign" => x.open = FALSE)
    BY <1>2, <1>5
  <2>4. submission'[s] = y
    BY <1>6
  <2> HIDE DEF x, y
  <2>5. Reads(y, dao', clock')
    BY <2>2, <2>3 DEF Reads
  <2> QED BY <2>2, <2>3, <2>4, <2>5 DEF Covered
<1>7. \A s \in Submissions : /\ Reads(submission'[s], dao', clock')
                             /\ submission'[s].at = "sign" => submission'[s].open = FALSE
                             /\ Covered(submission'[s], dao', pool')
  BY <1>2, <1>3, <1>4, <1>5, <1>6
<1> QED BY <1>7 DEF PoolInv

\* Somebody files a proposal: of the submissions that are about to be signed, only those
\* stay covered that it does not concern.
LEMMA Filing ==
    ASSUME PoolInv, NEW method \in Releases \cup Fundings, NEW amount \in Nat,
           File(method, amount)
    PROVE  LET p == [time |-> clock, method |-> method, amount |-> amount,
                     status |-> "InProgress"]
           IN  /\ p \in ProposalType
               /\ dao' \in Seq(ProposalType) /\ Len(dao') = Len(dao) + 1
               /\ \A i \in 1..Len(dao) : dao'[i] = dao[i]
               /\ dao'[Len(dao) + 1] = p
               /\ UNCHANGED clock => Ordered'
<1> DEFINE p == [time |-> clock, method |-> method, amount |-> amount, status |-> "InProgress"]
<1>1. /\ Len(dao) \in Nat /\ DOMAIN dao = 1..Len(dao) /\ clock \in Nat
      /\ dao \in Seq(ProposalType) /\ \A i \in 1..Len(dao) : dao[i].time \in Nat
  BY PoolTyped DEF PoolInv, PoolTypeOK
<1>2. p \in ProposalType /\ p.time = clock
  BY <1>1 DEF ProposalType
<1>3. dao' = Append(dao, p)
  BY DEF File
<1> HIDE DEF p
<1>4. /\ dao' \in Seq(ProposalType) /\ Len(dao') = Len(dao) + 1
      /\ \A i \in 1..Len(dao) : dao'[i] = dao[i]
      /\ dao'[Len(dao) + 1] = p
  BY <1>1, <1>2, <1>3, AppendProperties
<1>5. DOMAIN dao' = 1..(Len(dao) + 1)
  BY <1>4, LenProperties
<1>6. ASSUME UNCHANGED clock PROVE Ordered'
  <2>1. \A i \in 1..Len(dao) : dao'[i].time = dao[i].time /\ dao[i].time <= clock
    BY <1>1, <1>4 DEF PoolInv, Ordered
  <2>2. \A i, j \in 1..Len(dao) : j <= i => dao[j].time <= dao[i].time
    BY <1>1 DEF PoolInv, Ordered
  <2>3. dao'[Len(dao) + 1].time = clock /\ clock <= clock
    BY <1>1, <1>2, <1>4
  <2>4. ASSUME NEW i \in 1..(Len(dao) + 1), NEW j \in 1..(Len(dao) + 1), j <= i
        PROVE  dao'[i].time <= clock /\ dao'[j].time <= dao'[i].time
    <3>1. CASE i \in 1..Len(dao)
      <4>1. j \in 1..Len(dao)
        BY <1>1, <2>4, <3>1
      <4> QED BY <2>1, <2>2, <2>4, <3>1, <4>1
    <3>2. CASE i = Len(dao) + 1
      <4>1. dao'[i].time = clock
        BY <2>3, <3>2
      <4>2. dao'[j].time <= clock
        <5>1. CASE j \in 1..Len(dao)
          BY <2>1, <5>1
        <5>2. CASE j = Len(dao) + 1
          BY <2>3, <5>2
        <5> QED BY <1>1, <2>4, <5>1, <5>2
      <4> QED BY <2>3, <4>1, <4>2
    <3> QED BY <1>1, <2>4, <3>1, <3>2
  <2>5. \A i \in 1..(Len(dao) + 1) : i <= i
    BY <1>1
  <2> QED BY <1>5, <1>6, <2>4, <2>5 DEF Ordered
<1> QED BY <1>2, <1>4, <1>6 DEF p

\* A release filed by somebody takes the others' cover away, anything else does not.
LEMMA StillCovered ==
    ASSUME PoolInv, NEW s \in Submissions, Len(dao) <= Len(dao'), dao' \in Seq(ProposalType),
           \A i \in 1..Len(dao) : dao'[i].method = dao[i].method
    PROVE  Covered(submission[s], dao', pool)
<1>1. /\ Len(dao) \in Nat /\ DOMAIN dao = 1..Len(dao)
      /\ Len(dao') \in Nat /\ DOMAIN dao' = 1..Len(dao')
  BY PoolTyped, LenProperties DEF PoolInv
<1>2. Covered(submission[s], dao, pool)
  BY DEF PoolInv
<1>3. (\A i \in DOMAIN dao' : i > submission[s].last => dao'[i].method \notin Releases)
      => \A i \in DOMAIN dao : i > submission[s].last => dao[i].method \notin Releases
  BY <1>1
<1> QED BY <1>2, <1>3 DEF Covered

LEMMA FileOtherStep ==
    ASSUME PoolInv, NEW method \in Releases \cup Fundings, NEW amount \in Nat,
           FileOther(method, amount)
    PROVE  PoolInv'
<1>1. /\ File(method, amount) /\ UNCHANGED clock /\ UNCHANGED pool /\ UNCHANGED submission
  BY DEF FileOther
<1>2. /\ dao' \in Seq(ProposalType) /\ Len(dao') = Len(dao) + 1
      /\ \A i \in 1..Len(dao) : dao'[i] = dao[i]
      /\ Ordered'
  BY <1>1, Filing
<1>3. Len(dao) \in Nat /\ clock \in Nat
  BY PoolTyped DEF PoolInv
<1>4. PoolTypeOK'
  BY <1>1, <1>2 DEF PoolInv, PoolTypeOK
<1>5. /\ clock <= clock' /\ Len(dao) <= Len(dao')
      /\ \A i \in 1..Len(dao) : /\ dao'[i].method = dao[i].method
                                /\ Over(dao[i], clock) => Over(dao'[i], clock')
  BY <1>1, <1>2, <1>3
<1>6. \A s \in Submissions : Covered(submission[s], dao', pool')
  BY <1>1, <1>2, <1>5, StillCovered
<1> QED BY <1>1, <1>2, <1>4, <1>5, <1>6, ChainStep

\* A proposal moves on.
LEMMA Moving ==
    ASSUME PoolInv, NEW i \in DOMAIN dao,
           NEW status \in {"InProgress", "Failed", "Executing", "Closed", "Removed"},
           dao' = [dao EXCEPT ![i].status = status], UNCHANGED clock,
           dao[i].status # "Closed" /\ dao[i].status # "Removed",
           Votable(dao[i]) /\ Expired(dao[i], clock) => status # "Executing"
    PROVE  /\ dao' \in Seq(ProposalType) /\ Len(dao') = Len(dao) /\ Ordered'
           /\ \A j \in 1..Len(dao) : /\ dao'[j].method = dao[j].method
                                     /\ Over(dao[j], clock) => Over(dao'[j], clock')
<1>1. /\ Len(dao) \in Nat /\ DOMAIN dao = 1..Len(dao)
      /\ dao \in [1..Len(dao) -> ProposalType] /\ clock \in Nat /\ Period \in Nat
  BY PoolTyped DEF PoolInv
<1> DEFINE q == [dao[i] EXCEPT !.status = status]
<1>2. dao[i] \in ProposalType /\ dao' = [dao EXCEPT ![i] = q]
  BY <1>1
<1>3. /\ q \in ProposalType /\ q.status = status /\ q.time = dao[i].time
      /\ q.method = dao[i].method
  BY <1>2 DEF ProposalType
<1> HIDE DEF q
<1>4. dao' \in [1..Len(dao) -> ProposalType]
  BY <1>1, <1>2, <1>3
<1>5. dao' \in Seq(ProposalType) /\ Len(dao') = Len(dao) /\ DOMAIN dao' = 1..Len(dao)
  BY <1>1, <1>4
<1>6. \A j \in 1..Len(dao) : /\ dao'[j].method = dao[j].method /\ dao'[j].time = dao[j].time
                             /\ j # i => dao'[j] = dao[j]
                             /\ j = i => dao'[j] = q
  BY <1>1, <1>2, <1>3
<1>7. Ordered'
  BY <1>1, <1>5, <1>6 DEF PoolInv, Ordered
<1>8. Over(dao[i], clock) => Over(q, clock)
  BY <1>3, PoolAssumption DEF Over, Votable, Expired
<1> QED BY <1>5, <1>6, <1>7, <1>8

LEMMA SettleStep ==
    ASSUME PoolInv, NEW i \in DOMAIN dao, NEW status \in {"Executing", "Closed", "Removed"},
           Settle(i, status)
    PROVE  PoolInv'
<1>1. /\ dao' = [dao EXCEPT ![i].status = status]
      /\ UNCHANGED clock /\ UNCHANGED pool /\ UNCHANGED submission
      /\ dao[i].status # "Closed" /\ dao[i].status # "Removed"
      /\ Votable(dao[i]) /\ Expired(dao[i], clock) => status # "Executing"
  BY DEF Settle, Votable
<1>2. /\ dao' \in Seq(ProposalType) /\ Len(dao') = Len(dao) /\ Ordered'
      /\ \A j \in 1..Len(dao) : /\ dao'[j].method = dao[j].method
                                /\ Over(dao[j], clock) => Over(dao'[j], clock')
  BY <1>1, Moving
<1>3. Len(dao) \in Nat /\ clock \in Nat
  BY PoolTyped DEF PoolInv
<1>4. PoolTypeOK'
  BY <1>1, <1>2 DEF PoolInv, PoolTypeOK
<1>5. clock <= clock' /\ Len(dao) <= Len(dao')
  BY <1>1, <1>2, <1>3
<1>6. \A s \in Submissions : Covered(submission[s], dao', pool')
  BY <1>1, <1>2, <1>5, StillCovered
<1> QED BY <1>1, <1>2, <1>4, <1>5, <1>6, ChainStep

LEMMA AnswerStep == ASSUME PoolInv, NEW i \in DOMAIN dao, Answer(i) PROVE PoolInv'
<1>1. /\ dao[i].status = "Executing" /\ UNCHANGED clock
      /\ dao[i] \in ProposalType /\ Len(dao) \in Nat /\ DOMAIN dao = 1..Len(dao)
      /\ clock \in Nat /\ pool \in [staked : Nat, unstaked : Nat, ready : BOOLEAN]
      /\ submission \in [Submissions -> SubmissionType]
  BY PoolTyped DEF Answer, PoolInv
<1>2. CASE dao' = [dao EXCEPT ![i].status = "Failed"] /\ UNCHANGED <<pool, submission>>
  <2>1. /\ dao' \in Seq(ProposalType) /\ Len(dao') = Len(dao) /\ Ordered'
        /\ \A j \in 1..Len(dao) : /\ dao'[j].method = dao[j].method
                                  /\ Over(dao[j], clock) => Over(dao'[j], clock')
    BY <1>1, <1>2, Moving
  <2>2. PoolTypeOK'
    BY <1>1, <1>2, <2>1 DEF PoolInv, PoolTypeOK
  <2>3. clock <= clock' /\ Len(dao) <= Len(dao')
    BY <1>1, <2>1
  <2>4. \A s \in Submissions : Covered(submission[s], dao', pool')
    BY <1>2, <2>1, <2>3, StillCovered
  <2> QED BY <1>2, <2>1, <2>2, <2>3, <2>4, ChainStep
<1>3. CASE /\ Accepts(dao[i].method, dao[i].amount)
           /\ dao' = [dao EXCEPT ![i].status = "Closed"]
           /\ pool' = After(dao[i].method, dao[i].amount)
           /\ Overtaken(dao[i].method)
  <2> DEFINE m == dao[i].method
             a == dao[i].amount
  <2>1. /\ dao' \in Seq(ProposalType) /\ Len(dao') = Len(dao) /\ Ordered'
        /\ \A j \in 1..Len(dao) : /\ dao'[j].method = dao[j].method
                                  /\ Over(dao[j], clock) => Over(dao'[j], clock')
    BY <1>1, <1>3, Moving
  <2>2. m \in Releases \cup Fundings \cup {"transfer"} /\ a \in Nat
    BY <1>1 DEF ProposalType
  <2>3. Accepts(m, a) /\ pool' = After(m, a) /\ Overtaken(m)
    BY <1>3
  <2>4. pool' \in [staked : Nat, unstaked : Nat, ready : BOOLEAN]
    <3> HIDE DEF m, a
    <3>1. CASE m = "unstake"
      BY <1>1, <2>2, <2>3, <3>1 DEF Accepts, After
    <3>2. CASE m = "withdraw"
      <4>1. a <= pool.unstaked
        BY <2>3, <3>2 DEF Accepts
      <4>2. pool' = [pool EXCEPT !.unstaked = @ - a]
        BY <2>3, <3>2 DEF After
      <4> QED BY <1>1, <2>2, <4>1, <4>2
    <3>3. CASE m = "stake"
      <4>1. a <= pool.unstaked
        BY <2>3, <3>3 DEF Accepts
      <4> DEFINE staked == pool.staked + a
                 unstaked == pool.unstaked - a
      <4>2. staked \in Nat /\ unstaked \in Nat
        BY <1>1, <2>2, <4>1
      <4>3. pool' = [pool EXCEPT !.staked = staked, !.unstaked = unstaked]
        BY <2>3, <3>3 DEF After
      <4> HIDE DEF staked, unstaked
      <4> QED BY <1>1, <4>2, <4>3
    <3>4. CASE m = "deposit"
      BY <1>1, <2>2, <2>3, <3>4 DEF After
    <3>5. CASE m \notin {"unstake", "withdraw", "stake", "deposit"}
      BY <1>1, <2>2, <2>3, <3>5 DEF After
    <3> QED BY <3>1, <3>2, <3>3, <3>4, <3>5
  <2>5. ASSUME NEW s \in Submissions
        PROVE  /\ submission'[s] \in SubmissionType
               /\ \/ submission'[s] = submission[s]
                  \/ /\ submission[s].at = "sign" /\ m \in {"stake", "deposit"}
                     /\ submission'[s] = [submission[s] EXCEPT !.funded = TRUE]
               /\ submission[s].at = "sign" /\ m \in {"stake", "deposit"} =>
                     submission'[s] = [submission[s] EXCEPT !.funded = TRUE]
    <3> HIDE DEF m
    <3>1. submission[s] \in SubmissionType
      BY <1>1
    <3>2. [submission[s] EXCEPT !.funded = TRUE] \in SubmissionType
      BY <3>1 DEF SubmissionType
    <3> QED BY <2>3, <3>1, <3>2 DEF Overtaken
  <2>6. submission' \in [Submissions -> SubmissionType]
    BY <2>3, <2>5 DEF Overtaken
  <2>7. PoolTypeOK'
    BY <1>1, <2>1, <2>4, <2>6 DEF PoolInv, PoolTypeOK
  <2>8. clock <= clock' /\ Len(dao) <= Len(dao') /\ DOMAIN dao' = 1..Len(dao)
    BY <1>1, <2>1, LenProperties
  <2>9. ASSUME NEW s \in Submissions, submission'[s] = submission[s]
        PROVE  Covered(submission[s], dao', pool')
    <3>1. CASE m \in Releases
      <4> SUFFICES ASSUME submission[s].at = "sign", submission[s].flight = FALSE,
                          \A j \in DOMAIN dao' : j > submission[s].last =>
                              dao'[j].method \notin Releases
                   PROVE  FALSE
        BY DEF Covered
      <4>1. i \in 1..Len(dao) /\ dao'[i].method \in Releases
        BY <1>1, <2>1, <3>1
      <4>2. submission[s].last \in Nat
        BY <1>1 DEF SubmissionType
      <4>3. i \in 1..submission[s].last
        BY <2>8, <4>1, <4>2
      <4>4. Over(dao[i], clock)
        BY <3>1, <4>3 DEF PoolInv, Reads, Ranged
      <4> QED BY <1>1, <4>4 DEF Over, Votable
    <3>2. CASE m \in {"stake", "deposit"}
      <4>1. CASE submission[s].at = "sign"
        <5>1. submission[s] \in SubmissionType
          BY <1>1
        <5>2. submission[s].funded = TRUE
          BY <2>5, <2>9, <3>2, <4>1, <5>1 DEF SubmissionType
        <5> QED BY <5>2 DEF Covered
      <4> QED BY <4>1 DEF Covered
    <3>3. CASE m \notin Releases \cup {"stake", "deposit"}
      <4>1. Covered(submission[s], dao', pool)
        BY <2>1, <2>8, StillCovered
      <4>2. pool' = [pool EXCEPT !.staked = @ + a]
        BY <2>3, <3>3 DEF After, Releases
      <4>3. /\ pool'.unstaked = pool.unstaked /\ pool'.ready = pool.ready
            /\ pool.staked <= pool'.staked /\ pool.staked \in Nat /\ pool'.staked \in Nat
        BY <1>1, <2>2, <4>2
      <4>4. submission[s].amount \in Nat
        BY <1>1 DEF SubmissionType
      <4> QED BY <4>1, <4>3, <4>4 DEF Covered
    <3> QED BY <3>1, <3>2, <3>3
  <2> QED BY <2>1, <2>5, <2>7, <2>8, <2>9, ChainStep
<1> QED BY <1>2, <1>3 DEF Answer

LEMMA TickStep == ASSUME PoolInv, Tick PROVE PoolInv'
<1>1. /\ Len(dao) \in Nat /\ DOMAIN dao = 1..Len(dao) /\ clock \in Nat
      /\ \A i \in 1..Len(dao) : dao[i] \in ProposalType /\ dao[i].time \in Nat
      /\ pool \in [staked : Nat, unstaked : Nat, ready : BOOLEAN]
      /\ submission \in [Submissions -> SubmissionType]
  BY PoolTyped DEF PoolInv
<1>2. clock' = clock + 1 /\ UNCHANGED dao /\ UNCHANGED submission
  BY DEF Tick
<1>3. /\ pool' \in [staked : Nat, unstaked : Nat, ready : BOOLEAN]
      /\ pool'.staked = pool.staked /\ pool'.unstaked = pool.unstaked
      /\ pool.ready = TRUE /\ pool.unstaked > 0 => pool'.ready = TRUE
  <2>1. pool' = [pool EXCEPT !.ready = TRUE] \/ pool' = pool
    BY DEF Tick
  <2> QED BY <1>1, <2>1
<1>4. PoolTypeOK'
  BY <1>1, <1>2, <1>3 DEF PoolInv, PoolTypeOK
<1>5. Ordered'
  BY <1>1, <1>2 DEF PoolInv, Ordered
<1>6. /\ clock <= clock' /\ clock' \in Nat /\ Len(dao) <= Len(dao')
      /\ \A i \in 1..Len(dao) : dao'[i].method = dao[i].method
  BY <1>1, <1>2
<1>7. \A i \in 1..Len(dao) : Over(dao[i], clock) => Over(dao'[i], clock')
  BY <1>1, <1>2, <1>6, StaysOver
<1>8. ASSUME NEW s \in Submissions PROVE Covered(submission[s], dao', pool')
  <2>1. Covered(submission[s], dao, pool) /\ Reads(submission[s], dao, clock)
    BY DEF PoolInv
  <2>2. submission[s].amount \in Nat /\ pool.unstaked \in Nat
    BY <1>1 DEF SubmissionType
  <2>3. submission[s].at = "sign" => submission[s].amount >= 1
    BY <2>1 DEF Reads
  <2> QED BY <1>2, <1>3, <2>1, <2>2, <2>3 DEF Covered
<1> QED BY <1>2, <1>4, <1>5, <1>6, <1>7, <1>8, ChainStep

-----------------------------------------------------------------------------
(* Submissions                                                             *)

LEMMA SubmissionStep ==
    ASSUME PoolInv, NEW s \in Submissions, NEW rec \in SubmissionType, Step(s, rec),
           UNCHANGED Chain, Reads(rec, dao, clock), rec.at = "sign" => rec.open = FALSE,
           Covered(rec, dao, pool)
    PROVE  PoolInv'
<1>1. /\ UNCHANGED clock /\ UNCHANGED dao /\ UNCHANGED pool
      /\ submission' = [submission EXCEPT ![s] = rec]
      /\ submission \in [Submissions -> SubmissionType]
  BY PoolTyped DEF Chain, Step, PoolInv
<1>2. submission' \in [Submissions -> SubmissionType]
  BY <1>1
<1>3. \A t \in Submissions : submission'[t] = submission[t] \/ submission'[t] = rec
  BY <1>1
<1>4. \A t \in Submissions : /\ Reads(submission'[t], dao, clock)
                             /\ submission'[t].at = "sign" => submission'[t].open = FALSE
                             /\ Covered(submission'[t], dao, pool)
  BY <1>3 DEF PoolInv
<1>5. PoolTypeOK' /\ Ordered'
  BY <1>1, <1>2 DEF PoolInv, PoolTypeOK, Ordered
<1> QED BY <1>1, <1>4, <1>5 DEF PoolInv

LEMMA UnsentIs ==
    /\ Unsent \in SubmissionType /\ Unsent.at = "idle"
    /\ \A ps, now : Reads(Unsent, ps, now)
BY DEF Unsent, SubmissionType, Releases, Reads, Ranged, Reading

LEMMA StopStep == ASSUME PoolInv, NEW s \in Submissions, Stop(s) PROVE PoolInv'
BY UnsentIs, SubmissionStep DEF Stop, Covered

LEMMA SubmissionTyped ==
    ASSUME PoolInv, NEW s \in Submissions
    PROVE  LET x == submission[s]
           IN  /\ x \in SubmissionType /\ Reads(x, dao, clock)
               /\ x.method \in Releases /\ x.amount \in Nat /\ x.last \in Nat /\ x.end \in Nat
               /\ x.now \in Nat /\ x.open \in BOOLEAN /\ x.flight \in BOOLEAN
               /\ x.signing \in BOOLEAN
BY PoolTyped DEF PoolInv, SubmissionType

LEMMA ConfirmStep ==
    ASSUME PoolInv, NEW s \in Submissions, NEW method \in Releases, NEW amount \in Amounts,
           Confirm(s, method, amount)
    PROVE  PoolInv'
<1> DEFINE rec == [Unsent EXCEPT !.at = "time", !.method = method, !.amount = amount]
<1>1. amount \in Nat /\ amount >= 1
  BY PoolAssumption DEF Amounts
<1>2. rec \in SubmissionType /\ rec.at = "time" /\ rec.amount = amount
  BY <1>1, UnsentIs DEF SubmissionType
<1>3. Step(s, rec) /\ UNCHANGED Chain
  BY DEF Confirm
<1> HIDE DEF rec
<1>4. Reads(rec, dao, clock) /\ Covered(rec, dao, pool)
  BY <1>1, <1>2 DEF Reads, Covered, Ranged, Reading
<1> QED BY <1>2, <1>3, <1>4, SubmissionStep

LEMMA ConnectStep == ASSUME PoolInv, NEW s \in Submissions, Connect(s) PROVE PoolInv'
<1> DEFINE x == submission[s]
           rec == [Again(x, "time") EXCEPT !.signing = TRUE]
<1>1. x \in SubmissionType /\ x.amount >= 1 /\ Step(s, rec) /\ UNCHANGED Chain
  BY SubmissionTyped DEF Connect, Reads
<1> HIDE DEF x
<1>2. rec \in SubmissionType /\ rec.at = "time" /\ rec.amount = x.amount
  BY <1>1, UnsentIs DEF SubmissionType, Again
<1> HIDE DEF rec
<1>3. Reads(rec, dao, clock) /\ Covered(rec, dao, pool)
  BY <1>1, <1>2 DEF Reads, Covered, Ranged, Reading
<1> QED BY <1>1, <1>2, <1>3, SubmissionStep

LEMMA SupersedeStep == ASSUME PoolInv, NEW s \in Submissions, Supersede(s) PROVE PoolInv'
<1> DEFINE x == submission[s]
           rec == [Again(x, "time") EXCEPT !.retried = TRUE]
<1>1. x \in SubmissionType /\ x.amount >= 1 /\ Step(s, rec) /\ UNCHANGED Chain
  BY SubmissionTyped DEF Supersede, Reads
<1> HIDE DEF x
<1>2. rec \in SubmissionType /\ rec.at = "time" /\ rec.amount = x.amount
  BY <1>1, UnsentIs DEF SubmissionType, Again
<1> HIDE DEF rec
<1>3. Reads(rec, dao, clock) /\ Covered(rec, dao, pool)
  BY <1>1, <1>2 DEF Reads, Covered, Ranged, Reading
<1> QED BY <1>1, <1>2, <1>3, SubmissionStep

LEMMA TimeStep == ASSUME PoolInv, NEW s \in Submissions, ReadTime(s) PROVE PoolInv'
<1> DEFINE x == submission[s]
           under == Underway
           rec == [x EXCEPT !.at = "last", !.now = clock, !.flight = under]
<1>1. /\ x \in SubmissionType /\ x.amount >= 1 /\ Step(s, rec) /\ UNCHANGED Chain
      /\ clock \in Nat
  BY SubmissionTyped, PoolTyped DEF ReadTime, Reads, PoolInv
<1>2. under \in BOOLEAN
  BY DEF Underway
<1> HIDE DEF x, under
<1>3. rec \in SubmissionType /\ rec.at = "last" /\ rec.amount = x.amount /\ rec.now = clock
  BY <1>1, <1>2 DEF SubmissionType
<1> HIDE DEF rec
<1>4. Reads(rec, dao, clock) /\ Covered(rec, dao, pool)
  BY <1>1, <1>3 DEF Reads, Covered, Ranged, Reading
<1> QED BY <1>1, <1>3, <1>4, SubmissionStep

LEMMA LastStep == ASSUME PoolInv, NEW s \in Submissions, ReadLast(s) PROVE PoolInv'
<1> DEFINE x == submission[s]
           rec == [x EXCEPT !.at = "range", !.last = Len(dao), !.end = Len(dao)]
<1>1. /\ x \in SubmissionType /\ x.amount >= 1 /\ x.now <= clock
      /\ Step(s, rec) /\ UNCHANGED Chain /\ Len(dao) \in Nat
  BY SubmissionTyped, PoolTyped DEF ReadLast, Reads, Reading, PoolInv
<1> HIDE DEF x
<1>2. /\ rec \in SubmissionType /\ rec.at = "range" /\ rec.amount = x.amount
      /\ rec.now = x.now /\ rec.last = Len(dao) /\ rec.end = Len(dao)
  BY <1>1 DEF SubmissionType
<1> HIDE DEF rec
<1>3. Reads(rec, dao, clock) /\ Covered(rec, dao, pool)
  BY <1>1, <1>2 DEF Reads, Covered, Ranged, Reading
<1> QED BY <1>1, <1>2, <1>3, SubmissionStep

\* A release that cannot be voted on, or no longer, and is not being carried out.
LEMMA NotOpenIsOver ==
    ASSUME PoolTypeOK, ~Underway, NEW i \in 1..Len(dao), dao[i].method \in Releases,
           Votable(dao[i]) => Expired(dao[i], clock)
    PROVE  Over(dao[i], clock)
<1>1. dao[i] \in ProposalType /\ DOMAIN dao = 1..Len(dao)
  BY PoolTyped
<1>2. dao[i].status # "Executing"
  BY <1>1 DEF Underway
<1> QED BY <1>1, <1>2 DEF Over, Votable, ProposalType

LEMMA StartIs ==
    ASSUME PoolInv, NEW x \in SubmissionType
    PROVE  /\ Start(x) \in Nat /\ Floor(x) \in Nat
           /\ x.end > Floor(x) => Start(x) <= x.end
<1>1. /\ x.end \in Nat /\ x.last \in Nat /\ PageIds \in Nat /\ MaxIds \in Nat
  BY PoolAssumption DEF SubmissionType
<1> QED BY <1>1 DEF Start, Floor, Above

LEMMA RangeStep == ASSUME PoolInv, NEW s \in Submissions, ReadRange(s) PROVE PoolInv'
<1> DEFINE x == submission[s]
           ids == IdRange(x)
           open == \E p \in Calls(ids) : IsOpen(p, x.now)
           under == Underway
           read == [x EXCEPT !.end = Start(x), !.open = @ \/ open, !.flight = @ \/ under]
<1>1. /\ x \in SubmissionType /\ Reads(x, dao, clock) /\ x.at = "range"
      /\ x.end > Floor(x) /\ x.amount >= 1 /\ x.last \in Nat /\ x.end \in Nat /\ x.now \in Nat
      /\ x.open \in BOOLEAN /\ x.flight \in BOOLEAN
      /\ x.last <= Len(dao) /\ x.end <= x.last /\ x.now <= clock
  BY SubmissionTyped DEF ReadRange, Reads, Ranged, Reading
<1>2. /\ Len(dao) \in Nat /\ DOMAIN dao = 1..Len(dao) /\ clock \in Nat /\ Period \in Nat
      /\ \A i \in 1..Len(dao) : dao[i] \in ProposalType /\ dao[i].time \in Nat
      /\ PoolTypeOK
  BY PoolTyped DEF PoolInv
<1>3. /\ Step(s, IF ReachedPast(ids, x.now) THEN ToAccount(read) ELSE read)
      /\ UNCHANGED Chain
  BY DEF ReadRange
<1>4. open \in BOOLEAN /\ under \in BOOLEAN
  BY DEF Underway
<1>5. Start(x) \in Nat /\ Start(x) <= x.end
  BY <1>1, StartIs
<1>6. \A i \in ids : i \in 1..Len(dao)
  BY <1>2 DEF IdRange
\* What is above the start of the range is over, if nothing was found.
<1>7. ASSUME x.open = FALSE, x.flight = FALSE, ~open, ~under, NEW i \in 1..x.last,
             i > Start(x), dao[i].method \in Releases
      PROVE  Over(dao[i], clock)
  <2>1. i \in 1..Len(dao)
    BY <1>1, <1>2, <1>7
  <2>2. CASE i > x.end
    BY <1>1, <1>7, <2>2 DEF Reads, Ranged
  <2>3. CASE dao[i].status = "Removed"
    BY <2>3 DEF Over
  <2>4. CASE i <= x.end /\ dao[i].status # "Removed"
    <3>1. i \in ids
      BY <1>2, <1>7, <2>1, <2>4 DEF IdRange
    <3>2. ~IsOpen(dao[i], x.now)
      <4>1. dao[i] \in Calls(ids)
        BY <1>7, <3>1 DEF Calls
      <4> QED BY <1>7, <4>1
    <3>3. Votable(dao[i]) => Expired(dao[i], clock)
      <4>1. Votable(dao[i]) => Expired(dao[i], x.now)
        BY <3>2 DEF IsOpen
      <4> QED BY <1>1, <1>2, <2>1, <4>1 DEF Expired
    <3> QED BY <1>2, <1>7, <2>1, <3>3, NotOpenIsOver
  <2>5. x.end \in Nat /\ i \in Nat
    BY <1>1
  <2> QED BY <2>2, <2>3, <2>4, <2>5
\* And so is everything below one that is past its period.
<1>8. ASSUME ReachedPast(ids, x.now), ~under, NEW i \in 1..x.last, i <= Start(x),
             dao[i].method \in Releases
      PROVE  Over(dao[i], clock)
  <2>1. PICK k \in ids : Expired(dao[k], x.now)
    BY <1>8 DEF ReachedPast
  <2>2. k \in 1..Len(dao) /\ k > Start(x)
    BY <1>2 DEF IdRange
  <2>3. i \in 1..Len(dao) /\ i <= k
    BY <1>1, <1>2, <1>5, <1>8, <2>2
  <2>4. dao[i].time <= dao[k].time
    BY <1>2, <2>2, <2>3 DEF PoolInv, Ordered
  <2>5. Expired(dao[i], clock)
    BY <1>1, <1>2, <2>1, <2>2, <2>3, <2>4 DEF Expired
  <2> QED BY <1>2, <1>8, <2>3, <2>5, NotOpenIsOver
<1> HIDE DEF x, ids, open, under
<1>9. /\ read \in SubmissionType /\ read.at = "range" /\ read.end = Start(x)
      /\ read.last = x.last /\ read.now = x.now /\ read.amount = x.amount
      /\ read.open = FALSE => x.open = FALSE /\ ~open
      /\ read.flight = FALSE => x.flight = FALSE /\ ~under
  <2> DEFINE o == x.open \/ open
             f == x.flight \/ under
  <2>1. /\ o \in BOOLEAN /\ f \in BOOLEAN
        /\ o = FALSE => x.open = FALSE /\ ~open
        /\ f = FALSE => x.flight = FALSE /\ ~under
    BY <1>1, <1>4
  <2>2. read = [x EXCEPT !.end = Start(x), !.open = o, !.flight = f]
    BY <1>1 DEF SubmissionType
  <2> HIDE DEF o, f, read
  <2> QED BY <1>1, <1>5, <2>1, <2>2 DEF SubmissionType
<1> HIDE DEF read
<1>10. CASE ~ReachedPast(ids, x.now)
  <2>1. ASSUME read.open = FALSE, read.flight = FALSE, NEW i \in 1..x.last,
               dao[i].method \in Releases, i > read.end
        PROVE  Over(dao[i], clock)
    BY <1>7, <1>9, <2>1
  <2>2. read.end <= read.last
    BY <1>1, <1>5, <1>9
  <2>3. Reads(read, dao, clock)
    BY <1>1, <1>9, <2>1, <2>2 DEF Reads, Ranged, Reading
  <2>4. Covered(read, dao, pool)
    BY <1>9 DEF Covered
  <2> QED BY <1>3, <1>9, <1>10, <2>3, <2>4, SubmissionStep
<1>11. CASE ReachedPast(ids, x.now)
  <2> DEFINE rec == ToAccount(read)
  <2>1. /\ rec \in SubmissionType /\ rec.at = "account" /\ rec.last = x.last
        /\ rec.amount = x.amount /\ rec.open = read.open /\ rec.flight = read.flight
    BY <1>9 DEF ToAccount, SubmissionType
  <2>2. Step(s, rec)
    BY <1>3, <1>11
  <2> HIDE DEF rec
  <2>3. ASSUME rec.open = FALSE, rec.flight = FALSE, NEW i \in 1..x.last,
               dao[i].method \in Releases
        PROVE  Over(dao[i], clock)
    <3>1. i > Start(x) \/ i <= Start(x)
      BY <1>5
    <3> QED BY <1>7, <1>8, <1>9, <1>11, <2>1, <2>3, <3>1
  <2>4. Reads(rec, dao, clock) /\ Covered(rec, dao, pool)
    BY <1>1, <2>1, <2>3 DEF Reads, Covered, Ranged, Reading
  <2> QED BY <1>3, <2>1, <2>2, <2>4, SubmissionStep
<1> QED BY <1>10, <1>11

LEMMA AllReadStep == ASSUME PoolInv, NEW s \in Submissions, AllRead(s) PROVE PoolInv'
<1> DEFINE x == submission[s]
           rec == ToAccount(x)
<1>1. /\ x \in SubmissionType /\ Reads(x, dao, clock) /\ x.at = "range"
      /\ x.end <= 0 /\ x.amount >= 1 /\ x.last \in Nat /\ x.end \in Nat
      /\ x.last <= Len(dao)
  BY SubmissionTyped DEF AllRead, Reads, Ranged
<1>2. Step(s, rec) /\ UNCHANGED Chain
  BY DEF AllRead
<1> HIDE DEF x
<1>3. /\ rec \in SubmissionType /\ rec.at = "account" /\ rec.last = x.last
      /\ rec.amount = x.amount /\ rec.open = x.open /\ rec.flight = x.flight
  BY <1>1 DEF ToAccount, SubmissionType
<1> HIDE DEF rec
<1>4. \A i \in 1..x.last : i > x.end
  BY <1>1
<1>5. Reads(rec, dao, clock) /\ Covered(rec, dao, pool)
  BY <1>1, <1>3, <1>4 DEF Reads, Covered, Ranged, Reading
<1> QED BY <1>2, <1>3, <1>5, SubmissionStep

LEMMA AccountStep == ASSUME PoolInv, NEW s \in Submissions, ReadAccount(s) PROVE PoolInv'
<1> DEFINE x == submission[s]
           sign == [x EXCEPT !.at = "sign", !.retried = FALSE]
           again == Again(x, "connect")
<1>1. /\ x \in SubmissionType /\ Reads(x, dao, clock) /\ x.at = "account"
      /\ x.amount >= 1 /\ x.amount \in Nat /\ x.last \in Nat /\ x.open = FALSE
      /\ x.method \in Releases
  BY SubmissionTyped DEF ReadAccount, Reads
<1>2. /\ Step(s, IF x.signing THEN sign ELSE again) /\ UNCHANGED Chain
      /\ Phase = x.method /\ x.amount <= Balance(x.method)
  BY DEF ReadAccount
<1>3. pool \in [staked : Nat, unstaked : Nat, ready : BOOLEAN]
  BY PoolTyped DEF PoolInv
<1> HIDE DEF x
<1>4. /\ sign \in SubmissionType /\ sign.at = "sign" /\ sign.open = FALSE
      /\ sign.flight = x.flight /\ sign.last = x.last /\ sign.amount = x.amount
      /\ sign.method = x.method
  BY <1>1 DEF SubmissionType
<1>5. again \in SubmissionType /\ again.at = "connect" /\ again.amount = x.amount
  BY <1>1, UnsentIs DEF SubmissionType, Again
<1> HIDE DEF sign, again
<1>6. Reads(sign, dao, clock)
  BY <1>1, <1>4 DEF Reads, Ranged, Reading
<1>7. Covered(sign, dao, pool)
  BY <1>1, <1>2, <1>3, <1>4 DEF Covered, Phase, Balance, Releases
<1>8. CASE x.signing
  BY <1>2, <1>4, <1>6, <1>7, <1>8, SubmissionStep
<1>9. CASE ~x.signing
  <2>1. Reads(again, dao, clock) /\ Covered(again, dao, pool)
    BY <1>1, <1>5 DEF Reads, Covered, Ranged, Reading
  <2> QED BY <1>2, <1>5, <1>9, <2>1, SubmissionStep
<1> QED BY <1>8, <1>9

LEMMA SignStep == ASSUME PoolInv, NEW s \in Submissions, Sign(s) PROVE PoolInv'
<1> DEFINE x == submission[s]
<1>1. /\ File(x.method, x.amount) /\ UNCHANGED clock /\ UNCHANGED pool
      /\ submission' = [submission EXCEPT ![s] = Unsent]
      /\ submission \in [Submissions -> SubmissionType]
  BY PoolTyped DEF Sign, Step, PoolInv
<1>2. x.method \in Releases \cup Fundings /\ x.amount \in Nat
  BY SubmissionTyped
<1>3. /\ dao' \in Seq(ProposalType) /\ Len(dao') = Len(dao) + 1
      /\ \A i \in 1..Len(dao) : dao'[i] = dao[i]
      /\ Ordered'
  <2> HIDE DEF x
  <2> QED BY <1>1, <1>2, Filing
<1>4. Len(dao) \in Nat /\ clock \in Nat
  BY PoolTyped DEF PoolInv
<1>5. /\ submission' \in [Submissions -> SubmissionType]
      /\ \A t \in Submissions : submission'[t] \in {submission[t], Unsent}
  BY <1>1, UnsentIs
<1>6. PoolTypeOK'
  BY <1>1, <1>3, <1>5 DEF PoolInv, PoolTypeOK
<1>7. /\ clock <= clock' /\ Len(dao) <= Len(dao')
      /\ \A i \in 1..Len(dao) : /\ dao'[i].method = dao[i].method
                                /\ Over(dao[i], clock) => Over(dao'[i], clock')
  BY <1>1, <1>3, <1>4
<1>8. \A t \in Submissions : Covered(submission[t], dao', pool')
  BY <1>1, <1>3, <1>7, StillCovered
<1> QED BY <1>3, <1>5, <1>6, <1>7, <1>8, ChainStep

-----------------------------------------------------------------------------
LEMMA PoolStart == PoolInit => PoolInv
<1> SUFFICES ASSUME PoolInit PROVE PoolInv
  OBVIOUS
<1>1. /\ clock = 0 /\ pool = [staked |-> Stake, unstaked |-> 0, ready |-> TRUE]
      /\ submission = [s \in Submissions |-> Unsent]
      /\ dao \in [1..Earlier -> [time : {0}, method : {"transfer"}, amount : {0},
                                 status : {"InProgress", "Removed"}]]
  BY DEF PoolInit
<1>2. Earlier \in Nat /\ Stake \in Nat
  BY PoolAssumption
<1>3. \A i \in 1..Earlier : dao[i] \in ProposalType /\ dao[i].time = 0
  BY <1>1 DEF ProposalType
<1>4. dao \in Seq(ProposalType) /\ DOMAIN dao = 1..Earlier
  BY <1>1, <1>2, <1>3
<1>5. PoolTypeOK
  BY <1>1, <1>2, <1>4, UnsentIs DEF PoolTypeOK
<1>6. Ordered
  BY <1>1, <1>3, <1>4 DEF Ordered
<1>7. \A s \in Submissions : /\ Reads(submission[s], dao, clock)
                             /\ submission[s].at = "idle"
  BY <1>1, UnsentIs
<1> QED BY <1>5, <1>6, <1>7 DEF PoolInv, Covered

LEMMA PoolInvariance == PoolInv /\ [PoolNext]_poolVars => PoolInv'
<1> SUFFICES ASSUME PoolInv, [PoolNext]_poolVars PROVE PoolInv'
  OBVIOUS
<1>1. ASSUME NEW m \in Releases \cup Fundings, NEW a \in Amounts, FileOther(m, a)
      PROVE  PoolInv'
  <2>1. a \in Nat
    BY PoolAssumption DEF Amounts
  <2> QED BY <1>1, <2>1, FileOtherStep
<1>2. ASSUME NEW i \in DOMAIN dao, NEW v \in {"Executing", "Closed", "Removed"}, Settle(i, v)
      PROVE  PoolInv'
  BY <1>2, SettleStep
<1>3. ASSUME NEW i \in DOMAIN dao, Answer(i) PROVE PoolInv'
  BY <1>3, AnswerStep
<1>4. ASSUME NEW s \in Submissions, Submit(s) PROVE PoolInv'
  BY <1>4, ConfirmStep, TimeStep, LastStep, RangeStep, AllReadStep, AccountStep, ConnectStep,
     SupersedeStep, SignStep, StopStep DEF Submit
<1>5. CASE UNCHANGED poolVars
  BY <1>5 DEF poolVars, PoolInv, PoolTypeOK, Ordered
<1> QED BY <1>1, <1>2, <1>3, <1>4, <1>5, TickStep DEF PoolNext

\* The inductive invariant: with what every submission has learnt of the proposals.
THEOREM PoolInvariant == PoolSpec => []PoolInv
BY PoolStart, PoolInvariance, PTL DEF PoolSpec

\* Type correctness, for any number of proposals and submissions.
THEOREM PoolTypeCorrect == PoolSpec => []PoolTypeOK
<1>1. PoolInv => PoolTypeOK
  BY DEF PoolInv
<1> QED BY <1>1, PoolInvariant, PTL

\* However many ids are read at a time and removed meanwhile: a read that found nothing
\* has not overlooked a release that can still be approved.
THEOREM OpenSeen == PoolSpec => []OpenIsSeen
<1>1. ASSUME PoolInv, NEW s \in Submissions, HasRead(s), ~submission[s].open,
             NEW i \in 1..submission[s].last, dao[i].method \in Releases
      PROVE  ~(Votable(dao[i]) /\ ~Expired(dao[i], clock))
  <2>1. /\ submission[s].at \in {"account", "sign"} /\ submission[s].open = FALSE
        /\ submission[s].flight = FALSE
    BY <1>1, SubmissionTyped DEF HasRead
  <2>2. Over(dao[i], clock)
    BY <1>1, <2>1 DEF PoolInv, Reads, Ranged
  <2> QED BY <2>2 DEF Over, Votable
<1>2. PoolInv => OpenIsSeen
  BY <1>1 DEF OpenIsSeen
<1> QED BY <1>2, PoolInvariant, PTL

\* What a member signs the pool can carry out, unless another release was filed since
\* or what is unstaked was staked or added to.
THEOREM AskCovered == PoolSpec => []AskIsCovered
<1>1. ASSUME PoolInv, NEW s \in Submissions, submission[s].at = "sign", ~submission[s].flight,
             ~submission[s].funded,
             \A i \in DOMAIN dao : i > submission[s].last => dao[i].method \notin Releases
      PROVE  /\ Accepts(submission[s].method, submission[s].amount)
             /\ submission[s].method = "unstake" => pool.unstaked = 0
  <2>1. /\ submission[s].method \in Releases /\ submission[s].flight = FALSE
        /\ submission[s].funded = FALSE
    BY <1>1, SubmissionTyped DEF SubmissionType
  <2> QED BY <1>1, <2>1 DEF PoolInv, Covered, Accepts, Releases
<1>2. PoolInv => AskIsCovered
  BY <1>1 DEF AskIsCovered
<1> QED BY <1>2, PoolInvariant, PTL

-----------------------------------------------------------------------------
(* All of it at once, as the run has it                                    *)

\* A tree to begin with satisfies the invariant, as nobody edits it.
LEMMA PlantedIs == ASSUME Planted PROVE TreeInv /\ hosts \subseteq live
<1>1. /\ TreeTypeOK /\ NodesFormForest /\ SiblingsDiffer /\ hosts \subseteq live
      /\ edit = [e \in Editors |-> NoEdit]
  BY DEF Planted, SlugsResolve, SiblingsDiffer
<1>2. HolderMoves /\ CheckHolds
  BY <1>1 DEF HolderMoves, CheckHolds, NoEdit
<1>3. IsFiniteSet(live)
  BY DEF Planted
<1> QED BY <1>1, <1>2, <1>3 DEF TreeInv

LEMMA StakingStart == StakingInit => TreeInv /\ LookInv /\ FlagInit /\ PoolInit
<1>1. TreeInit => TreeInv
  BY InitStep
<1>2. LookInit => LookInv
  BY LookStart
<1>3. Planted => TreeInv
  BY PlantedIs
<1>4. Planted /\ resolve = Unasked => LookInv
  BY PlantedIs, LookIdle
<1> QED BY <1>1, <1>2, <1>3, <1>4 DEF StakingInit, NoRows, NoProposals

\* Whichever part moves, the invariants of all of them hold.
LEMMA StakingStep ==
    TreeInv /\ LookInv /\ FlagInv /\ PoolInv /\ [StakingNext]_stakingVars =>
        (TreeInv /\ LookInv /\ FlagInv /\ PoolInv)'
<1> SUFFICES ASSUME TreeInv, LookInv, FlagInv, PoolInv, [StakingNext]_stakingVars
             PROVE  TreeInv' /\ LookInv' /\ FlagInv' /\ PoolInv'
  OBVIOUS
<1>1. [FlagNext]_flagVars /\ [PoolNext]_poolVars
  BY DEF StakingNext, stakingVars
<1>2. [LookNext]_lookAll
  BY DEF StakingNext, stakingVars, LookNext, lookAll
<1> QED BY <1>1, <1>2, LookInvariance, FlagInvariance, PoolInvariance

(***************************************************************************)
(* Every variable of the tree, of a look at it, of the flagged row and of  *)
(* the payout keeps its type, whichever of them moves.                     *)
(***************************************************************************)
THEOREM StakingTypeCorrect == StakingSpec => []StakingTypeOK
<1>1. StakingInit => TreeInv /\ LookInv /\ FlagInv /\ PoolInv
  BY StakingStart, FlagStart, PoolStart
<1>2. TreeInv /\ LookInv /\ FlagInv /\ PoolInv => StakingTypeOK
  BY DEF StakingTypeOK, TreeInv, LookInv, FlagInv, PoolInv
<1> QED BY <1>1, <1>2, StakingStep, PTL DEF StakingSpec
=============================================================================
