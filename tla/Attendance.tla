----------------------------- MODULE Attendance -----------------------------
(***************************************************************************)
(* What the API records of a community's check-ins.                        *)
(*                                                                         *)
(* Members check in with onboarding codes at the auth service, which lists *)
(* the newest codes only and forgets those it deletes.  When an organizer  *)
(* opens the Overview, a reconciliation asks for the codes of every event  *)
(* that is due, and for every code whose use count is not the one it last  *)
(* recorded, for who joined.  Several organizers do that at once, without  *)
(* locks: every call and every statement is an action.                     *)
(*                                                                         *)
(* Those who join with a code do so one after the other and for good: who  *)
(* has joined, or is recorded, is the number of the first ones.            *)
(***************************************************************************)
EXTENDS Naturals, FiniteSets

CONSTANTS
    MaxCodes,       \* bound on the onboarding codes
    Events,         \* the community's events
    Organizers,     \* who reconciles
    Limit,          \* codes in one listing of the auth service
    MaxJoins,       \* bound on the check-ins
    MaxLoad,        \* bound on codes and check-ins, a check-in counting twice
    MaxSyncs,       \* bound on the reconciliations ever started
    MaxEdits,       \* bound on the events and codes added late, removed or settled
    Sweep           \* the codes of no event; also: no event, no code

ASSUME AttendanceAssumption ==
    /\ Sweep \notin Events
    /\ MaxCodes \in Nat
    /\ Limit \in Nat \ {0}
    /\ MaxJoins \in Nat /\ MaxLoad \in Nat /\ MaxSyncs \in Nat /\ MaxEdits \in Nat

VARIABLES
    known,          \* events there are in City Node
    settled,        \* events that are long past
    codes,          \* the codes the auth service has
    made,           \* how many were ever made
    eventOf,        \* the event of a code, for good
    joined,         \* how many checked in with it
    seen,           \* how many of them are rows of attendance_check_ins,
    counted,        \* and how many of those are classified
    checkpoints,    \* used_count by code, of attendance_code_checkpoints
    reconciled,     \* rows of attendance_event_reconciliations
    sync,           \* the reconciliation that runs for an organizer
    started,        \* how many were started
    edits           \* how many edits there were

upstream == <<codes, made, eventOf, joined>>
recorded == <<seen, counted, checkpoints, reconciled>>
attVars == <<known, settled, upstream, recorded, sync, started, edits>>

-----------------------------------------------------------------------------
Codes == 1..MaxCodes    \* by age
Lanes == Events \cup {Sweep}
Unread == MaxJoins + 1      \* no checkpoint: equals no count
Nobody == [c \in Codes |-> 0]

NoLane == [at |-> "wait", left |-> {}, joined |-> 0, ok |-> TRUE,
           truncated |-> FALSE, promised |-> Nobody]
NoSync == [at |-> "idle", known |-> {}, latest |-> {}, listed |-> FALSE, quiet |-> {},
           lane |-> [l \in Lanes |-> NoLane]]
NoRecord == [there |-> FALSE, truncated |-> FALSE, failed |-> FALSE, promised |-> Nobody]

\* A community may have events and codes before anybody reconciles.
AttInit ==
    /\ known \in SUBSET Events
    /\ settled = {}
    /\ started = 0
    /\ edits = 0
    /\ made \in 0..MaxCodes
    /\ codes = 1..made
    /\ eventOf \in [Codes -> known \cup {Sweep}]
    /\ \A c \in Codes \ codes : eventOf[c] = Sweep
    /\ joined = Nobody
    /\ seen = Nobody
    /\ counted = Nobody
    /\ checkpoints = [c \in Codes |-> Unread]
    /\ reconciled = [l \in Lanes |-> NoRecord]
    /\ sync = [o \in Organizers |-> NoSync]

-----------------------------------------------------------------------------
(* The auth service and the editors                                        *)

Joins == Cardinality(UNION {{c} \X (1..joined[c]) : c \in Codes})
Weight == made + 2 * Joins

Edited == edits < MaxEdits /\ edits' = edits + 1

CreateCode(e) ==
    /\ Edited
    /\ made < MaxCodes /\ Weight < MaxLoad
    /\ e \in known \cup {Sweep}
    /\ made' = made + 1
    /\ codes' = codes \cup {made'}
    /\ eventOf' = [eventOf EXCEPT ![made'] = e]
    /\ UNCHANGED <<known, settled, joined, recorded, sync, started>>

CheckIn(c) ==
    /\ c \in codes
    /\ Joins < MaxJoins /\ Weight + 1 < MaxLoad
    /\ joined' = [joined EXCEPT ![c] = @ + 1]
    /\ UNCHANGED <<known, settled, codes, made, eventOf, recorded, sync, started, edits>>

DeleteCode(c) ==
    /\ Edited
    /\ c \in codes
    /\ joined[c] > 0
    /\ codes' = codes \ {c}
    /\ UNCHANGED <<known, settled, made, eventOf, joined, recorded, sync, started>>

AddEvent(e) ==
    /\ Edited
    /\ e \notin known /\ \A c \in Codes : eventOf[c] # e
    /\ known' = known \cup {e}
    /\ UNCHANGED <<settled, upstream, recorded, sync, started>>

RemoveEvent(e) ==
    /\ Edited
    /\ e \in known
    /\ known' = known \ {e}
    /\ UNCHANGED <<settled, upstream, recorded, sync, started>>

Settle(e) ==
    /\ Edited
    /\ e \in known \ settled
    /\ settled' = settled \cup {e}
    /\ UNCHANGED <<known, upstream, recorded, sync, started>>

\* What a listing returns of some codes: the newest ones, with their use counts.
Page(wanted) ==
    LET there == wanted \cap codes
        newest == {c \in there : Cardinality({d \in there : d > c}) < Limit}
    IN  {<<c, joined[c]>> : c \in newest}

CodesOf(e) == {c \in Codes : eventOf[c] = e}

\* A page that is full may not be all there is.
Full(page) == Cardinality(page) >= Limit

-----------------------------------------------------------------------------
(* A reconciliation                                                        *)

Continue(o, s) == sync' = [sync EXCEPT ![o] = s]
SetLane(o, l, rec) == sync' = [sync EXCEPT ![o].lane[l] = rec]
Ours == <<known, settled, upstream, started, edits>>

StartSync(o) ==
    /\ sync[o].at = "idle"
    /\ started < MaxSyncs
    /\ started' = started + 1
    /\ Continue(o, [NoSync EXCEPT !.at = "latest", !.known = known])
    /\ UNCHANGED <<known, settled, upstream, edits, recorded>>

\* The newest codes of the organization; the call may fail.
ListLatest(o) ==
    /\ sync[o].at = "latest"
    /\ \E listed \in BOOLEAN :
          Continue(o, [sync[o] EXCEPT !.at = "rows", !.listed = listed,
                                      !.latest = IF listed THEN Page(Codes) ELSE {}])
    /\ UNCHANGED <<Ours, recorded>>

\* Events whose row gives no reason to look again.
ReadRows(o) ==
    /\ sync[o].at = "rows"
    /\ Continue(o, [sync[o] EXCEPT !.at = "checkpoints", !.quiet =
            {e \in sync[o].known \cap settled :
                /\ reconciled[e].there /\ ~reconciled[e].failed
                /\ ~reconciled[e].truncated /\ sync[o].listed}])
    /\ UNCHANGED <<Ours, recorded>>

\* The events that are due, and the lanes of the codes outside them.
ReadCheckpoints(o) ==
    /\ sync[o].at = "checkpoints"
    /\ LET fresh == {eventOf[k[1]] : k \in {j \in sync[o].latest : checkpoints[j[1]] # j[2]}}
           due == sync[o].known \ (sync[o].quiet \ fresh)
           outside == {k \in sync[o].latest : eventOf[k[1]] \notin sync[o].known}
       IN  Continue(o, [sync[o] EXCEPT !.at = "lanes", !.quiet = {}, !.latest = {},
                !.lane = [l \in Lanes |->
                    IF l \in due THEN [NoLane EXCEPT !.at = "list"]
                    ELSE IF l = Sweep
                    THEN [NoLane EXCEPT !.at = "codes", !.left = outside, !.ok = sync[o].listed]
                    ELSE NoLane]])
    /\ UNCHANGED <<Ours, recorded>>

\* Lanes run side by side; the codes outside the events come when those are done.
Done(lane) == lane.at = "codes" /\ lane.left = {}

Lane(o, l, at) ==
    /\ sync[o].at = "lanes"
    /\ sync[o].lane[l].at = at
    /\ l = Sweep => \A e \in Events : sync[o].lane[e].at = "wait" \/ Done(sync[o].lane[e])

\* The codes of one event; the call may fail.
ListEvent(o, e) ==
    LET lane == sync[o].lane[e]
        page == Page(CodesOf(e))
    IN  /\ Lane(o, e, "list")
        /\ \/ SetLane(o, e, [lane EXCEPT !.at = "codes", !.ok = FALSE])
           \/ SetLane(o, e, [lane EXCEPT !.at = "codes", !.left = page,
                                         !.truncated = Full(page),
                                         !.promised = [c \in Codes |->
                                IF c \in codes \cap CodesOf(e) THEN joined[c] ELSE 0]])
        /\ UNCHANGED <<Ours, recorded>>

\* The listed codes come newest first; one is skipped if its count is the recorded one.
Newest(left) == CHOOSE k \in left : \A j \in left : j[1] <= k[1]
CodeAt(lane) == Newest(lane.left)[1]
CountAt(lane) == Newest(lane.left)[2]
NextCode(lane) == [lane EXCEPT !.at = "codes", !.joined = 0, !.left = @ \ {Newest(@)}]

CompareCode(o, l) ==
    LET lane == sync[o].lane[l]
    IN  /\ Lane(o, l, "codes") /\ ~Done(lane)
        /\ SetLane(o, l, IF checkpoints[CodeAt(lane)] = CountAt(lane) THEN NextCode(lane)
                         ELSE [lane EXCEPT !.at = "status"])
        /\ UNCHANGED <<Ours, recorded>>

\* Mutant: a code that cannot be read any more is passed over.
SkipUnread(o, l) ==
    LET lane == sync[o].lane[l]
    IN  /\ Lane(o, l, "status")
        /\ \/ CodeAt(lane) \in codes
              /\ SetLane(o, l, [lane EXCEPT !.at = "record", !.joined = joined[CodeAt(lane)]])
           \/ SetLane(o, l, NextCode(lane))
        /\ UNCHANGED <<Ours, recorded>>

\* Who joined with the code; a code that is gone, or a failed call, fails its lane.
ReadStatus(o, l) ==
    LET lane == sync[o].lane[l]
    IN  /\ Lane(o, l, "status")
        /\ \/ CodeAt(lane) \in codes
              /\ SetLane(o, l, [lane EXCEPT !.at = "record", !.joined = joined[CodeAt(lane)]])
           \/ SetLane(o, l, [NextCode(lane) EXCEPT !.ok = FALSE])
        /\ UNCHANGED <<Ours, recorded>>

\* Mutant: the row takes over what the last reconciliation knew.
Reclassified(old, n, classified) == IF classified THEN n ELSE 0

\* How many of those who joined count for the event once they are recorded.
Classified(old, n, classified) == IF classified /\ n > old THEN n ELSE old

\* Mutant: the transaction is only run for codes with new check-ins, and the
\* checkpoint takes the count as it is by then.
RecordLatest(o, l) ==
    LET lane == sync[o].lane[l]
        c == CodeAt(lane)
    IN  /\ Lane(o, l, "record")
        /\ seen' = [seen EXCEPT ![c] = IF lane.joined > @ THEN lane.joined ELSE @]
        /\ counted' = [counted EXCEPT ![c] =
                Classified(@, lane.joined, eventOf[c] \in sync[o].known)]
        /\ checkpoints' = [checkpoints EXCEPT ![c] = joined[c]]
        /\ SetLane(o, l, NextCode(lane))
        /\ UNCHANGED <<Ours, reconciled>>

\* The transaction: who joined, and the count that was listed.
RecordCode(o, l) ==
    LET lane == sync[o].lane[l]
        c == CodeAt(lane)
    IN  /\ Lane(o, l, "record")
        /\ seen' = [seen EXCEPT ![c] = IF lane.joined > @ THEN lane.joined ELSE @]
        /\ counted' = [counted EXCEPT ![c] =
                Classified(@, lane.joined, eventOf[c] \in sync[o].known)]
        /\ checkpoints' = [checkpoints EXCEPT ![c] = CountAt(lane)]
        /\ SetLane(o, l, NextCode(lane))
        /\ UNCHANGED <<Ours, reconciled>>

\* The rows of what succeeded, in one statement.
WriteSucceeded(o) ==
    /\ Lane(o, Sweep, "codes") /\ Done(sync[o].lane[Sweep])
    /\ reconciled' = [l \in Lanes |->
            LET lane == sync[o].lane[l]
            IN  IF Done(lane) /\ lane.ok
                THEN [there |-> TRUE, truncated |-> lane.truncated, failed |-> FALSE,
                      promised |-> lane.promised]
                ELSE reconciled[l]]
    /\ sync' = [sync EXCEPT ![o].at = "failed"]
    /\ UNCHANGED <<Ours, seen, counted, checkpoints>>

\* The rows of what failed keep what they said of an earlier time.
WriteFailed(o) ==
    /\ sync[o].at = "failed"
    /\ reconciled' = [l \in Lanes |->
            IF Done(sync[o].lane[l]) /\ ~sync[o].lane[l].ok
            THEN [reconciled[l] EXCEPT !.there = TRUE, !.failed = TRUE]
            ELSE reconciled[l]]
    /\ Continue(o, NoSync)
    /\ UNCHANGED <<Ours, seen, counted, checkpoints>>

\* The organizer is refused, a statement fails, or the server goes away.
AbortSync(o) ==
    /\ sync[o].at # "idle"
    /\ Continue(o, NoSync)
    /\ UNCHANGED <<Ours, recorded>>

Reconcile(o) ==
    \/ StartSync(o) \/ ListLatest(o) \/ ReadRows(o) \/ ReadCheckpoints(o)
    \/ \E e \in Events : ListEvent(o, e)
    \/ \E l \in Lanes : CompareCode(o, l) \/ ReadStatus(o, l) \/ RecordCode(o, l)
    \/ WriteSucceeded(o) \/ WriteFailed(o) \/ AbortSync(o)

AttNext ==
    \/ \E c \in Codes : CheckIn(c) \/ DeleteCode(c)
    \/ \E e \in Lanes : CreateCode(e)
    \/ \E e \in Events : AddEvent(e) \/ RemoveEvent(e) \/ Settle(e)
    \/ \E o \in Organizers : Reconcile(o)

AttSpec == AttInit /\ [][AttNext]_attVars

-----------------------------------------------------------------------------
\* What history tells a member of the record: the reasons why it may be incomplete.
Gaps ==
    {"failed" : l \in {k \in known \cup {Sweep} : reconciled[k].failed}}
    \cup {"truncated" : e \in {k \in known : reconciled[k].truncated}}
    \cup {"not_synced" : e \in {k \in known : ~reconciled[k].there}}

LaneType == [at : {"wait", "list", "codes", "status", "record"},
             left : SUBSET (Codes \X Nat), joined : Nat,
             ok : BOOLEAN, truncated : BOOLEAN, promised : [Codes -> Nat]]
SyncType == [at : {"idle", "latest", "rows", "checkpoints", "lanes", "failed"},
             known : SUBSET Events, latest : SUBSET (Codes \X Nat), listed : BOOLEAN,
             quiet : SUBSET Events, lane : [Lanes -> LaneType]]

AttTypeOK ==
    /\ settled \subseteq Events /\ known \subseteq Events
    /\ codes \subseteq 1..made /\ made \in 0..MaxCodes
    /\ eventOf \in [Codes -> Lanes]
    /\ joined \in [Codes -> Nat] /\ seen \in [Codes -> Nat] /\ counted \in [Codes -> Nat]
    /\ checkpoints \in [Codes -> Nat]
    /\ \A c \in Codes : counted[c] <= seen[c] /\ seen[c] <= joined[c]
    /\ reconciled \in [Lanes -> [there : BOOLEAN, truncated : BOOLEAN, failed : BOOLEAN,
                                 promised : [Codes -> Nat]]]
    /\ sync \in [Organizers -> SyncType]

\* Nobody is skipped for good: a checkpoint never counts more check-ins than are
\* recorded, so a code with unrecorded ones is read again.
CheckpointIsBacked ==
    \A c \in Codes : checkpoints[c] # Unread => seen[c] >= checkpoints[c]

\* An event without a gap has every check-in that its listing promised, whatever
\* reconciliations overtook each other: the row is of a listing that was complete.
SyncedIsComplete ==
    "failed" \notin Gaps /\ "truncated" \notin Gaps /\ "not_synced" \notin Gaps =>
        \A e \in known, c \in Codes : seen[c] >= reconciled[e].promised[c]

\* What is recorded stays, and what counted for an event goes on counting, also
\* when the code or the event is deleted, or a reconciliation does not know it.
RecordIsKept ==
    [][\A c \in Codes : seen'[c] >= seen[c] /\ counted'[c] >= counted[c]]_recorded
=============================================================================
