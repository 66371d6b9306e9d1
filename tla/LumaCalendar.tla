------------------------------ MODULE LumaCalendar ------------------------------
(***************************************************************************)
(* The Luma calendar of one node (api/src/services/discovery.ts): imports  *)
(* by editors and by the minute timer, disconnection, the editors' choice  *)
(* of what is shown, and moderation.                                       *)
(*                                                                         *)
(* Transactions run at read committed.  Imports, disconnection and the     *)
(* editors' changes lock the node's row FOR UPDATE first; moderation locks *)
(* only the activity, but its entry in discovery_history references the    *)
(* node, and that key check waits for whoever holds the node's row.  A     *)
(* transaction that takes all its locks in one go is one action.           *)
(*                                                                         *)
(* Abstracted: the event's text (one number, the edition of the listings   *)
(* it was read from), canonical URLs (whether another activity of the node *)
(* has the event's), rights, other nodes and manual activities.            *)
(***************************************************************************)
EXTENDS Naturals

CONSTANTS
  Events,      \* ids of events at Luma
  Calendars,   \* ids of calendars at Luma
  Editors,     \* requests of a node's editors, and of the platform's admins
  Timers,      \* servers: each runs syncDueLuma once a minute
  Moderators,
  None,        \* NULL, an absent row
  MaxEdition,  \* bound: the listings do not change after this edition
  MaxRestarts  \* bound: how often a task is cut short by a restart

Workers == Editors \cup Timers

\* hidden is None in a row from before the choice was stored.
Row ==
  [status: {"draft", "published", "cancelled"}, available: BOOLEAN,
   hidden: BOOLEAN \cup {None}, edition: Nat]

Connection == [calendar: Calendars, due: BOOLEAN, error: BOOLEAN]

ASSUME ConstantsAssumption ==
  /\ MaxEdition \in Nat /\ MaxRestarts \in Nat
  /\ Editors \cap Timers = {}
  /\ None \notin Row \cup Connection \cup BOOLEAN \cup Events \cup Calendars

\* What a worker is at.  snapshot, edition: what Luma listed.
\* rows: what disconnectLuma read.
Work ==
  [at: {"idle", "locking", "fetching", "fetched", "failed", "disconnecting"},
   calendar: Calendars \cup {None}, snapshot: SUBSET Events, edition: Nat,
   rows: [Events -> Row \cup {None}]]

NoRows == [e \in Events |-> None]
Idle ==
  [at |-> "idle", calendar |-> None, snapshot |-> {}, edition |-> 0,
   rows |-> NoRows]

VARIABLES
  connection,  \* the node's row of discovery_luma_connections, or None
  activity,    \* for each event, its row of discovery_activities, or None
  listing,     \* the public events of each calendar, at Luma
  edition,     \* increases with every change at Luma
  taken,       \* events whose URL another activity of the node has
  work,        \* what each worker is at
  moderating,  \* the event whose row each moderator has locked, or None
  restarts     \* how often a task was cut short

store == <<connection, activity>>
luma == <<listing, edition, taken>>
vars == <<store, luma, work, moderating, restarts>>

TypeOK ==
  /\ connection \in Connection \cup {None}
  /\ activity \in [Events -> Row \cup {None}]
  /\ listing \in [Calendars -> SUBSET Events]
  /\ edition \in Nat
  /\ taken \subseteq Events
  /\ work \in [Workers -> Work]
  /\ moderating \in [Moderators -> Events \cup {None}]
  /\ restarts \in Nat

\* A row that was imported, and shown, before the choice was stored.
LegacyRow ==
  [status |-> "published", available |-> TRUE, hidden |-> None, edition |-> 0]

Init ==
  /\ activity \in [Events -> {LegacyRow, None}]
  /\ IF activity = NoRows
       THEN connection = None
       ELSE connection \in
              [calendar: Calendars, due: BOOLEAN, error: {FALSE}]
  /\ listing = [c \in Calendars |-> Events]
  /\ edition = 1
  /\ taken = {}
  /\ work = [w \in Workers |-> Idle]
  /\ moderating = [m \in Moderators |-> None]
  /\ restarts = 0
-----------------------------------------------------------------------------
(***************************************************************************)
(* Locks.                                                                  *)
(***************************************************************************)
HoldsNode(w) == work[w].at \in {"fetching", "fetched", "disconnecting"}
NodeFree == \A w \in Workers : ~HoldsNode(w)
RowFree(e) == \A m \in Moderators : moderating[m] # e

Imported == {e \in Events : activity[e] # None}
Become(w, task) == work' = [work EXCEPT ![w] = task]
-----------------------------------------------------------------------------
(***************************************************************************)
(* syncLuma, called by an editor or, through syncDueLuma, by a timer.      *)
(***************************************************************************)
StartImport(w, c) ==
  /\ work[w] = Idle
  /\ Become(w, [Idle EXCEPT !.at = "locking", !.calendar = c])
  /\ UNCHANGED <<store, luma, moderating, restarts>>

\* The flag "syncing" of a server lets one run go on at a time.
StartDue(w) ==
  /\ work[w] = Idle
  /\ connection # None /\ connection.due
  /\ Become(w, [Idle EXCEPT !.at = "locking",
                            !.calendar = connection.calendar])
  /\ UNCHANGED <<store, luma, moderating, restarts>>

StillDue(w) ==
  /\ connection # None
  /\ connection.calendar = work[w].calendar
  /\ connection.due

\* Mutant: the connection that was read before the lock is taken for granted.
LockNodeUnchecked(w) ==
  /\ work[w].at = "locking"
  /\ NodeFree
  /\ Become(w, [work[w] EXCEPT !.at = "fetching"])
  /\ UNCHANGED <<store, luma, moderating, restarts>>

\* Mutant: the node is not locked.
LockNodeShared(w) ==
  /\ work[w].at = "locking"
  /\ Become(w, IF w \in Editors \/ StillDue(w)
                 THEN [work[w] EXCEPT !.at = "fetching"] ELSE Idle)
  /\ UNCHANGED <<store, luma, moderating, restarts>>

\* A timer gives up if somebody disconnected, changed or imported meanwhile.
LockNode(w) ==
  /\ work[w].at = "locking"
  /\ NodeFree
  /\ Become(w, IF w \in Editors \/ StillDue(w)
                 THEN [work[w] EXCEPT !.at = "fetching"] ELSE Idle)
  /\ UNCHANGED <<store, luma, moderating, restarts>>

Fetch(w) ==
  /\ work[w].at = "fetching"
  /\ Become(w, [work[w] EXCEPT !.at = "fetched", !.edition = edition,
                               !.snapshot = listing[work[w].calendar]])
  /\ UNCHANGED <<store, luma, moderating, restarts>>

\* Mutant: a new event is shown until somebody hides it.
ListedRowShown(w, previous) ==
  LET hidden == IF previous = None THEN FALSE ELSE previous.hidden # FALSE
  IN  [status |-> IF hidden THEN "draft" ELSE "published",
       available |-> TRUE, hidden |-> hidden, edition |-> work[w].edition]

\* An event that is listed: hidden unless it was shown before.
ListedRow(w, previous) ==
  LET hidden == IF previous = None \/ previous.hidden = None
                  THEN TRUE ELSE previous.hidden
  IN  [status |-> IF hidden THEN "draft" ELSE "published",
       available |-> TRUE, hidden |-> hidden, edition |-> work[w].edition]

\* Mutant: a status of its own for what Luma no longer lists.
RemovedRow(row) == [row EXCEPT !.status = "removed", !.available = FALSE]

WithdrawnRow(row) == [row EXCEPT !.status = "draft", !.available = FALSE]

\* An event whose URL is taken is skipped: it is neither updated nor withdrawn.
Apply(w) ==
  /\ work[w].at = "fetched"
  /\ \A e \in Imported : RowFree(e)
  /\ activity' =
       [e \in Events |->
          IF e \in work[w].snapshot
            THEN IF e \in taken THEN activity[e]
                                ELSE ListedRow(w, activity[e])
            ELSE IF e \in Imported THEN WithdrawnRow(activity[e]) ELSE None]
  /\ connection' =
       [calendar |-> work[w].calendar, due |-> FALSE, error |-> FALSE]
  /\ Become(w, Idle)
  /\ UNCHANGED <<luma, moderating, restarts>>

\* The transaction of w is rolled back: Luma does not answer, or lists what
\* cannot be read, or the database fails.  Only the timer records it.
Fail(w) ==
  /\ work[w].at \in {"locking", "fetching", "fetched", "disconnecting"}
  /\ Become(w, IF w \in Editors THEN Idle
                                  ELSE [work[w] EXCEPT !.at = "failed"])
  /\ UNCHANGED <<store, luma, moderating, restarts>>

\* Mutant: a failure does not postpone the next attempt.
RecordFailureNow(w) ==
  /\ work[w].at = "failed"
  /\ connection' =
       IF connection # None /\ connection.calendar = work[w].calendar
         THEN [connection EXCEPT !.error = TRUE] ELSE connection
  /\ Become(w, Idle)
  /\ UNCHANGED <<activity, luma, moderating, restarts>>

RecordFailure(w) ==
  /\ work[w].at = "failed"
  /\ connection' =
       IF connection # None /\ connection.calendar = work[w].calendar
         THEN [connection EXCEPT !.error = TRUE, !.due = FALSE] ELSE connection
  /\ Become(w, Idle)
  /\ UNCHANGED <<activity, luma, moderating, restarts>>
-----------------------------------------------------------------------------
(***************************************************************************)
(* disconnectLuma: the rows are read without a lock of their own, and      *)
(* written back whole.                                                     *)
(***************************************************************************)
\* Mutant: the node is not locked.
ReadRowsUnlocked(w) ==
  /\ work[w] = Idle
  /\ Become(w, [Idle EXCEPT !.at = "disconnecting",
                            !.rows = activity])
  /\ UNCHANGED <<store, luma, moderating, restarts>>

ReadRows(w) ==
  /\ work[w] = Idle
  /\ NodeFree
  /\ Become(w, [Idle EXCEPT !.at = "disconnecting",
                            !.rows = activity])
  /\ UNCHANGED <<store, luma, moderating, restarts>>

Disconnect(w) ==
  LET read == {e \in Events : work[w].rows[e] # None}
  IN  /\ work[w].at = "disconnecting"
      /\ \A e \in read : RowFree(e)
      /\ activity' = [e \in Events |->
           IF e \in read THEN WithdrawnRow(work[w].rows[e]) ELSE activity[e]]
      /\ connection' = None
      /\ Become(w, Idle)
      /\ UNCHANGED <<luma, moderating, restarts>>
-----------------------------------------------------------------------------
(***************************************************************************)
(* setLumaVisibility, and saveActivity on an imported event: an editor     *)
(* gives it a status.                                                      *)
(***************************************************************************)
\* Mutant: whether Luma still lists the event is not looked at.
SetStatusUnlisted(e, status) ==
  /\ NodeFree /\ RowFree(e)
  /\ activity[e] # None
  /\ activity' = [activity EXCEPT ![e].status = status,
                                  ![e].hidden = status # "published"]
  /\ UNCHANGED <<connection, luma, work, moderating, restarts>>

SetStatus(e, status) ==
  /\ NodeFree /\ RowFree(e)
  /\ activity[e] # None
  /\ activity[e].available \/ status = "draft"
  /\ activity' = [activity EXCEPT ![e].status = status,
                                  ![e].hidden = status # "published"]
  /\ UNCHANGED <<connection, luma, work, moderating, restarts>>
-----------------------------------------------------------------------------
(***************************************************************************)
(* moderate with action "unpublish" on an imported event.                  *)
(***************************************************************************)
LockRow(m, e) ==
  /\ moderating[m] = None
  /\ activity[e] # None /\ RowFree(e)
  /\ moderating' = [moderating EXCEPT ![m] = e]
  /\ UNCHANGED <<store, luma, work, restarts>>

\* Mutant: the history has no reference to the node.
UnpublishUnchecked(m) ==
  /\ moderating[m] # None
  /\ activity' = [activity EXCEPT ![moderating[m]].status = "draft",
                                  ![moderating[m]].hidden = TRUE]
  /\ moderating' = [moderating EXCEPT ![m] = None]
  /\ UNCHANGED <<connection, luma, work, restarts>>

\* It is written to discovery_history, which waits for the node, and committed.
Unpublish(m) ==
  /\ moderating[m] # None
  /\ NodeFree
  /\ activity' = [activity EXCEPT ![moderating[m]].status = "draft",
                                  ![moderating[m]].hidden = TRUE]
  /\ moderating' = [moderating EXCEPT ![m] = None]
  /\ UNCHANGED <<connection, luma, work, restarts>>

GiveUp(m) ==
  /\ moderating[m] # None
  /\ moderating' = [moderating EXCEPT ![m] = None]
  /\ UNCHANGED <<store, luma, work, restarts>>

\* Rows that w, which holds the node, still needs.
Needs(w) ==
  CASE work[w].at = "fetched" -> Imported
    [] work[w].at = "disconnecting" ->
         {e \in Events : work[w].rows[e] # None}
    [] OTHER -> {}

\* A moderator holds a row that w needs and waits for the node that w holds:
\* the database rolls one of the two back.
BreakDeadlock ==
  \E w \in Workers, m \in Moderators :
    moderating[m] \in Needs(w) /\ (Fail(w) \/ GiveUp(m))
-----------------------------------------------------------------------------
(***************************************************************************)
(* Luma, and time.                                                         *)
(***************************************************************************)
Relist ==
  /\ edition < MaxEdition
  /\ edition' = edition + 1
  /\ listing' \in [Calendars -> SUBSET Events]
  /\ taken' \in SUBSET Events
  /\ UNCHANGED <<store, work, moderating, restarts>>

\* nextAttemptAt passes.
BecomeDue ==
  /\ connection # None /\ ~connection.due
  /\ connection' = [connection EXCEPT !.due = TRUE]
  /\ UNCHANGED <<activity, luma, work, moderating, restarts>>

\* A server stops, and with it the transaction and its locks; or recording a
\* failure fails as well, which ends this run of the timer.
Restart(w) ==
  /\ work[w] # Idle
  /\ restarts < MaxRestarts
  /\ restarts' = restarts + 1
  /\ Become(w, Idle)
  /\ UNCHANGED <<store, luma, moderating>>

Sync(w) == LockNode(w) \/ Fetch(w) \/ Apply(w) \/ Fail(w)

Next ==
  \/ \E w \in Workers : Sync(w) \/ Restart(w)
  \/ \E w \in Editors :
       (\E c \in Calendars : StartImport(w, c)) \/ ReadRows(w) \/ Disconnect(w)
  \/ \E w \in Timers : StartDue(w) \/ RecordFailure(w)
  \/ \E e \in Events, status \in {"draft", "published", "cancelled"} :
       SetStatus(e, status)
  \/ \E m \in Moderators :
       (\E e \in Events : LockRow(m, e)) \/ Unpublish(m) \/ GiveUp(m)
  \/ BreakDeadlock
  \/ Relist \/ BecomeDue

Spec == Init /\ [][Next]_vars

\* The timers go off, a started transaction goes on or fails, and a lock that
\* becomes free again and again is granted.
Fairness ==
  /\ \A w \in Timers : WF_vars(StartDue(w)) /\ SF_vars(RecordFailure(w))
  /\ \A w \in Workers :
       SF_vars(LockNode(w)) /\ SF_vars(Fetch(w) \/ Fail(w)) /\ SF_vars(Apply(w))
  /\ \A w \in Editors : SF_vars(Disconnect(w))
  /\ WF_vars(BreakDeadlock)

FairSpec == Spec /\ Fairness
=============================================================================
