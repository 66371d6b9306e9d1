------------------------------ MODULE TeamJoin ------------------------------
(***************************************************************************)
(* Requests of a community's members to join one of its teams.             *)
(*                                                                         *)
(* The requests are rows of the API's database; who is a member and who is *)
(* on the team is known to the auth service only, which the API asks and   *)
(* others change at any time.  Every handler first loads the community: it *)
(* reads the teams, the requests and the members one after the other, and  *)
(* closes the pending requests that what it read no longer justifies.      *)
(* Each call of the auth service and each statement is one action.         *)
(***************************************************************************)
EXTENDS Naturals, Sequences, FiniteSets

CONSTANTS
    Users,          \* people
    Reviewers,      \* those of them who are owners or admins when members
    Requesters,     \* those of them who ever ask
    Handlers,       \* what may be under way at once: calls of several people, or of one
    PageSize,       \* members in one page of the auth service's list
    MaxRequests,    \* bound on the rows ever created
    MaxChanges,     \* bound on what others change in the auth service
    NULL            \* no value

Reasons == {"requester_left", "team_deleted", "team_not_joinable"}

ASSUME JoinAssumption ==
    /\ IsFiniteSet(Users)
    /\ Reviewers \subseteq Users /\ Requesters \subseteq Users
    /\ NULL \notin Users \cup Reasons
    /\ PageSize \in Nat \ {0}
    /\ MaxRequests \in Nat
    /\ MaxChanges \in Nat

VARIABLES
    members,    \* the members of the community, in the order they are listed
    team,       \* the team, as the auth service has it
    onTeam,     \* who is on it
    requests,   \* the rows of team_join_requests, by age
    call,       \* call[h]: what handler h is doing, and for whom
    changes,    \* how much others have changed
    past        \* past[i]: what has happened since row i was made (history)

joinVars == <<members, team, onTeam, requests, call, changes, past>>

-----------------------------------------------------------------------------
TeamStates == {"planned", "joinable", "plain", "deleted"}
Statuses == {"pending", "approved", "declined", "withdrawn", "closed"}
Ops == {"board", "request", "withdraw", "endorse", "approve", "decline"}

Listed(s) == {s[i] : i \in DOMAIN s}
IsMember(u) == u \in Listed(members)
Ids == DOMAIN requests
Pending == {i \in Ids : requests[i].status = "pending"}

Idle == [by |-> NULL, op |-> "none", id |-> 0, at |-> "idle", team |-> "planned",
         own |-> FALSE, rows |-> {}, found |-> {}, offset |-> 0, closing |-> {}]

\* No request was made yet, and nobody is on the team.
NothingAsked ==
    /\ onTeam = {}
    /\ requests = <<>>
    /\ call = [h \in Handlers |-> Idle]
    /\ changes = 0
    /\ past = <<>>

JoinInit ==
    /\ members \in {s \in [1..Cardinality(Users) -> Users] : Listed(s) = Users}
    /\ team \in {"planned", "joinable"}
    /\ NothingAsked

-----------------------------------------------------------------------------
(* Loading the community                                                   *)

At(h, step) == call[h].at = step
By(h) == call[h].by
Goto(h, rec) == call' = [call EXCEPT ![h] = rec]
Finish(h) == Goto(h, Idle)
Own(i, u) == requests[i].requester = u

\* Why a listed request can no longer be approved, by what a handler of u read.
Closures(u, listed, found, t) ==
    LET gone(i) == requests[i].requester \notin found \cup {u}
        reason(i) == IF gone(i) THEN "requester_left"
                     ELSE IF t \in {"planned", "deleted"} THEN "team_deleted"
                     ELSE "team_not_joinable"
    IN  {<<i, reason(i)>> : i \in {j \in listed : gone(j) \/ t # "joinable"}}

\* Whom a handler serves and what it was called for, once it is through with reading.
Serving(c, step) == [Idle EXCEPT !.by = c.by, !.op = c.op, !.id = c.id, !.at = step]

\* The community is loaded, with these requests pending: the handler replies, with the
\* board or a refusal, or it goes on to what its operation asks for.
Loaded(c, listed) ==
    LET goesOn == \/ c.op = "request" /\ c.team = "joinable" /\ ~c.own
                  \/ c.op = "endorse" /\ c.id \in listed /\ c.own
                  \/ c.op \in {"withdraw", "approve", "decline"} /\ c.id \in listed
    IN  IF goesOn THEN Serving(c, "act") ELSE Idle

\* The members are read: close what has to be closed, or go on.
Judged(c, found) ==
    LET closing == Closures(c.by, c.rows, found, c.team)
    IN  IF closing = {} THEN Loaded(c, c.rows)
        ELSE [Serving(c, "close") EXCEPT
                 !.closing = closing, !.own = c.own,
                 !.team = IF c.op = "request" THEN c.team ELSE "planned"]

\* Whom the operation is not refused in any case.  (A handler that refuses whoever it
\* serves loads the community and then does nothing, as getTeamJoinBoard does.)
MayTry(u, op, id) ==
    CASE op = "board" -> id = 0
      [] op = "request" -> id = 0 /\ u \in Requesters
      [] op = "withdraw" -> id \in Ids /\ Own(id, u)
      [] op = "endorse" -> id \in Ids /\ ~Own(id, u)
      [] OTHER -> id \in Ids /\ u \in Reviewers

\* A handler starts for u, who is a member and may have others under way.
Begin(h, u, op, id) ==
    /\ At(h, "idle")
    /\ IsMember(u)
    /\ MayTry(u, op, id)
    /\ Goto(h, [Idle EXCEPT !.by = u, !.op = op, !.id = id, !.at = "teams"])
    /\ UNCHANGED <<members, team, onTeam, requests, changes, past>>

\* (Being on the team matters to two of the operations only.)
ReadTeams(h) ==
    /\ At(h, "teams")
    /\ Goto(h, [call[h] EXCEPT
                   !.team = team, !.at = "list",
                   !.own = call[h].op \in {"request", "endorse"} /\ By(h) \in onTeam])
    /\ UNCHANGED <<members, team, onTeam, requests, changes, past>>

\* Whose membership has to be looked up.
Wanted(u, listed) == {requests[i].requester : i \in listed} \ {u}

ListRequests(h) ==
    /\ At(h, "list")
    /\ LET c == [call[h] EXCEPT !.rows = Pending, !.at = "members"]
       IN  Goto(h, IF Wanted(By(h), Pending) = {} THEN Judged(c, {}) ELSE c)
    /\ UNCHANGED <<members, team, onTeam, requests, changes, past>>

\* One page of members, by offset into the list as it is now.
ReadPage(h) ==
    /\ At(h, "members")
    /\ LET c == call[h]
           page == {members[k] : k \in {k \in DOMAIN members :
                        k > c.offset /\ k <= c.offset + PageSize}}
           found == c.found \cup (page \cap Wanted(c.by, c.rows))
           offset == c.offset + Cardinality(page)
           last == \/ page = {}
                   \/ offset >= Len(members)
                   \/ found = Wanted(c.by, c.rows)
       IN  Goto(h, IF last THEN Judged(c, found)
                   ELSE [c EXCEPT !.found = found, !.offset = offset])
    /\ UNCHANGED <<members, team, onTeam, requests, changes, past>>

\* Mutant: the UPDATE goes by team and requester, which a later request shares.
ClosesRequester(i, now) == \E cl \in now : requests[cl[1]].requester = requests[i].requester

\* The rows an UPDATE for one reason is about, by their ids.
Closes(i, now) == \E cl \in now : cl[1] = i

\* One UPDATE for one reason, of those of its rows that are still pending.
CloseStale(h) ==
    /\ At(h, "close")
    /\ \E why \in {cl[2] : cl \in call[h].closing} :
          LET now == {cl \in call[h].closing : cl[2] = why}
              rest == call[h].closing \ now
          IN  /\ requests' = [i \in Ids |->
                    IF Closes(i, now) /\ i \in Pending
                    THEN [requests[i] EXCEPT !.status = "closed", !.reason = why]
                    ELSE requests[i]]
              /\ Goto(h, [call[h] EXCEPT !.closing = rest,
                                         !.at = IF rest = {} THEN "relist" ELSE "close"])
    /\ UNCHANGED <<members, team, onTeam, changes, past>>

Relist(h) ==
    /\ At(h, "relist")
    /\ Goto(h, Loaded(call[h], Pending))
    /\ UNCHANGED <<members, team, onTeam, requests, changes, past>>

-----------------------------------------------------------------------------
(* The operations, once the community is loaded                            *)

\* Mutant: the UPDATE does not ask whether the row is still pending.
SettledAnyway(i, status, u) ==
    [requests EXCEPT ![i].status = status, ![i].decider = u]

\* Mutant: settling writes its status as a reason, as closing does.
SettledWithReason(i, status, u) ==
    IF i \in Pending
    THEN [requests EXCEPT ![i].status = status, ![i].reason = status, ![i].decider = u]
    ELSE requests

\* What the rows are after settling one.
Settled(i, status, u) ==
    IF i \in Pending
    THEN [requests EXCEPT ![i].status = status, ![i].decider = u]
    ELSE requests

\* Mutant: there is no such index.
AdmitsAny(u) == TRUE

\* The partial unique index lets one pending row of a requester through.
Admits(u) == \A i \in Pending : ~Own(i, u)

RequestToJoin(h) ==
    LET u == By(h)
    IN  /\ At(h, "act") /\ call[h].op = "request"
        /\ Admits(u)
        /\ Len(requests) < MaxRequests
        /\ requests' = Append(requests, [requester |-> u, status |-> "pending", decider |-> NULL,
                                         reason |-> NULL, endorsers |-> {}])
        /\ past' = Append(past, [left |-> ~IsMember(u), added |-> FALSE])
        /\ Finish(h)
        /\ UNCHANGED <<members, team, onTeam, changes>>

\* After the UPDATE of row i: a handler that found it pending reads it once more, for
\* its reply; another is told of the conflict.
GoesOn(h, i) ==
    Goto(h, IF i \in Pending THEN Serving(call[h], "refresh") ELSE Idle)

Withdraw(h) ==
    LET i == call[h].id
    IN  /\ At(h, "act") /\ call[h].op = "withdraw"
        /\ Own(i, By(h))
        /\ requests' = Settled(i, "withdrawn", By(h))
        /\ GoesOn(h, i)
        /\ UNCHANGED <<members, team, onTeam, changes, past>>

\* (It reads the row once more for its reply, too, which says who endorsed.)
Endorse(h) ==
    LET i == call[h].id
    IN  /\ At(h, "act") /\ call[h].op = "endorse"
        /\ ~Own(i, By(h))
        /\ requests' = [requests EXCEPT ![i].endorsers = @ \cup {By(h)}]
        /\ Finish(h)
        /\ UNCHANGED <<members, team, onTeam, changes, past>>

Decline(h) ==
    LET i == call[h].id
    IN  /\ At(h, "act") /\ call[h].op = "decline"
        /\ By(h) \in Reviewers
        /\ requests' = Settled(i, "declined", By(h))
        /\ GoesOn(h, i)
        /\ UNCHANGED <<members, team, onTeam, changes, past>>

\* Mutant: a failure of the auth service does not stop the approval.
AddMemberCarelessly(h) ==
    LET i == call[h].id
        added == IsMember(requests[i].requester) /\ team \in {"joinable", "plain"}
    IN  /\ At(h, "act") /\ call[h].op = "approve"
        /\ By(h) \in Reviewers
        /\ onTeam' = onTeam \cup {v \in {requests[i].requester} : added}
        /\ past' = [past EXCEPT ![i].added = @ \/ added]
        /\ Goto(h, Serving(call[h], "settle"))
        /\ UNCHANGED <<members, team, requests, changes>>

\* The auth service adds a member to an existing team; a failure is Fail.
AddMember(h) ==
    LET i == call[h].id
    IN  /\ At(h, "act") /\ call[h].op = "approve"
        /\ By(h) \in Reviewers
        /\ IsMember(requests[i].requester) /\ team \in {"joinable", "plain"}
        /\ onTeam' = onTeam \cup {requests[i].requester}
        /\ past' = [past EXCEPT ![i].added = TRUE]
        /\ Goto(h, Serving(call[h], "settle"))
        /\ UNCHANGED <<members, team, requests, changes>>

Approve(h) ==
    LET i == call[h].id
    IN  /\ At(h, "settle")
        /\ requests' = Settled(i, "approved", By(h))
        /\ GoesOn(h, i)
        /\ UNCHANGED <<members, team, onTeam, changes, past>>

\* A handler ends without a further effect: it has read what it replies with, a call
\* failed, or the server went away.
Fail(h) ==
    /\ ~At(h, "idle")
    /\ Finish(h)
    /\ UNCHANGED <<members, team, onTeam, requests, changes, past>>

-----------------------------------------------------------------------------
(* Everybody else, in the auth service                                     *)

Changed == changes < MaxChanges /\ changes' = changes + 1

Leave(u) ==
    /\ Changed
    /\ \E k \in DOMAIN members :
          /\ members[k] = u
          /\ members' = [j \in 1..(Len(members) - 1) |-> members[IF j < k THEN j ELSE j + 1]]
    /\ onTeam' = onTeam \ {u}
    /\ past' = [i \in Ids |-> IF Own(i, u) THEN [past[i] EXCEPT !.left = TRUE] ELSE past[i]]
    /\ UNCHANGED <<team, requests, call>>

\* (Not counted: one joins again only after having left.)
Join(u) ==
    /\ ~IsMember(u)
    /\ members' = Append(members, u)
    /\ UNCHANGED <<team, onTeam, requests, call, changes, past>>

\* The team is created, gets or loses its areas, or is deleted.
EditTeam(state) ==
    /\ Changed
    /\ team # "deleted" /\ state \notin {team, "planned"}
    /\ team' = state
    /\ onTeam' = IF state = "deleted" THEN {} ELSE onTeam
    /\ UNCHANGED <<members, requests, call, past>>

\* Somebody is put on the team, or taken off, without a request.
EditTeamMember(u) ==
    /\ Changed
    /\ IsMember(u) /\ team \in {"joinable", "plain"}
    /\ onTeam' = IF u \in onTeam THEN onTeam \ {u} ELSE onTeam \cup {u}
    /\ UNCHANGED <<members, team, requests, call, past>>

Load(h) == ReadTeams(h) \/ ListRequests(h) \/ ReadPage(h) \/ CloseStale(h) \/ Relist(h)

Act(h) == \/ RequestToJoin(h) \/ Withdraw(h) \/ Endorse(h)
          \/ Decline(h) \/ AddMember(h) \/ Approve(h)

JoinNext ==
    \/ \E h \in Handlers : \/ \E u \in Users, op \in Ops, id \in 0..MaxRequests :
                                   Begin(h, u, op, id)
                           \/ Load(h) \/ Act(h) \/ Fail(h)
    \/ \E u \in Users : Leave(u) \/ Join(u) \/ EditTeamMember(u)
    \/ \E state \in TeamStates : EditTeam(state)

JoinSpec == JoinInit /\ [][JoinNext]_joinVars

-----------------------------------------------------------------------------
RowType == [requester : Users, status : Statuses, decider : Users \cup {NULL},
            reason : Reasons \cup {NULL}, endorsers : SUBSET Users]
CallType == [by : Users \cup {NULL}, op : Ops \cup {"none"}, id : Nat,
             at : {"idle", "teams", "list", "members", "close", "relist", "act", "settle",
                   "refresh"},
             team : TeamStates, own : BOOLEAN, rows : SUBSET Nat, found : SUBSET Users,
             offset : Nat, closing : SUBSET (Nat \X Reasons)]

PastType == [left : BOOLEAN, added : BOOLEAN]

\* Every variable has its type; a row keeps its history beside it, and a
\* handler speaks of rows that exist.
JoinTypeOK ==
    /\ members \in Seq(Users)
    /\ team \in TeamStates
    /\ onTeam \subseteq Users
    /\ requests \in Seq(RowType)
    /\ past \in Seq(PastType)
    /\ DOMAIN past = Ids
    /\ changes \in Nat
    /\ call \in [Handlers -> CallType]
    /\ \A h \in Handlers : call[h].rows \subseteq Ids /\ call[h].id \in Ids \cup {0}

Outcome == [withdraw |-> "withdrawn", approve |-> "approved", decline |-> "declined"]

\* However many handlers try to settle a request at once, those of one person among
\* them, and whatever closes it meanwhile: one that goes on to report its success has
\* settled it alone, and what it will read for its reply is what it did.
OneReports ==
    \A h \in Handlers : At(h, "refresh") =>
        LET i == call[h].id
        IN  /\ requests[i].decider = By(h)
            /\ requests[i].status = Outcome[call[h].op]
            /\ \A g \in Handlers : At(g, "refresh") /\ call[g].id = i => g = h

\* An approval is recorded only after the auth service added the member for
\* this very request.
ApprovedIsAdded ==
    \A i \in Ids : requests[i].status = "approved" => past[i].added = TRUE

\* A request closed because its requester left was made by somebody who has
\* really been gone since, if the members fit on one page.
LeaverHasLeft ==
    PageSize >= Cardinality(Users) =>
        \A i \in Ids : requests[i].reason = "requester_left" => past[i].left

\* The rows without their endorsers, and what their histories say.
Shown == [i \in Ids |-> [requester |-> requests[i].requester, status |-> requests[i].status,
                         decider |-> requests[i].decider, reason |-> requests[i].reason]]
AddedFor == {i \in Ids : past[i].added}
LeftSince == {i \in Ids : past[i].left}

Promise == INSTANCE JoinRequests WITH
    rows <- Shown, added <- AddedFor, left <- LeftSince,
    People <- Users, Deciders <- Reviewers, Nobody <- NULL,
    LeftIsSure <- PageSize >= Cardinality(Users)

\* What becomes of a request is one step on a row that is pending at that moment,
\* whatever members, requests and teams the handler had read before: only the
\* requester withdraws, only a reviewer declines, and approves only who was added; who
\* is closed for leaving left; and what is settled stays as it is.
ImplementsRequests == Promise!RequestSpec
=============================================================================
