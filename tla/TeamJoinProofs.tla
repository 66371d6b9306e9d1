--------------------------- MODULE TeamJoinProofs ---------------------------
(*****************************************************************************)
(* What becomes of requests to join a team, for any number of members,       *)
(* requests and handlers; and that check-ins and requests, side by side,     *)
(* keep their types.                                                         *)
(*                                                                           *)
(* The invariant says what each handler in flight has read: whom it saw      *)
(* added, and, as long as the members fit on a page, whom it saw gone.  That *)
(* is what makes each of its writes one step of the life JoinRequests gives. *)
(*****************************************************************************)
EXTENDS MCMembers, AttendanceProofs, SequenceTheorems

\* Nobody is listed twice.
OneEntry == \A j, k \in DOMAIN members : members[j] = members[k] => j = k

\* Whose row does not say that they left is a member.
HereUnlessLeft == \A i \in Ids : past[i].left = FALSE => IsMember(requests[i].requester)

OnePage == PageSize >= Cardinality(Users)

\* The operations that settle a row, and those that are called for one.
Settles == {"withdraw", "approve", "decline"}
OfARow == Settles \cup {"endorse"}

\* What a handler knows of the rows ids and of their history hist: whom it closes for
\* having left did leave, and what a reviewer approves by it was added.
Knows(c, ids, hist) ==
    /\ c.at # "idle" => c.by \in Users
    /\ c.rows \subseteq ids /\ c.id \in ids \cup {0}
    /\ c.at = "act" /\ c.op \in OfARow => c.id \in ids
    /\ c.at = "settle" => /\ c.id \in ids /\ hist[c.id].added = TRUE
                          /\ c.op = "approve" /\ c.by \in Reviewers
    /\ c.at = "refresh" => c.id \in ids /\ c.op \in Settles
    /\ \A cl \in c.closing :
          cl[1] \in ids /\ (OnePage /\ cl[2] = "requester_left" => hist[cl[1]].left = TRUE)
    /\ c.at \in {"teams", "list"} => c.offset = 0
    /\ OnePage /\ c.at = "members" => c.offset = 0

JoinInv ==
    /\ JoinTypeOK
    /\ OneEntry
    /\ HereUnlessLeft
    /\ \A h \in Handlers : Knows(call[h], Ids, past)
    /\ OneReports
    /\ ApprovedIsAdded
    /\ LeaverHasLeft

-----------------------------------------------------------------------------
\* The rows and their histories, as functions of the ids.
LEMMA Typed ==
    ASSUME JoinTypeOK
    PROVE  /\ Len(requests) \in Nat /\ Len(past) = Len(requests)
           /\ Ids = 1..Len(requests) /\ Ids \subseteq Nat /\ Pending \subseteq Ids
           /\ requests \in [Ids -> RowType]
           /\ past \in [Ids -> PastType]
           /\ call \in [Handlers -> CallType]
<1>1. /\ requests \in Seq(RowType) /\ past \in Seq(PastType) /\ DOMAIN past = Ids
      /\ Ids = DOMAIN requests /\ call \in [Handlers -> CallType]
  BY DEF JoinTypeOK, Ids
<1>2. /\ Len(requests) \in Nat /\ requests \in [1..Len(requests) -> RowType]
      /\ Len(past) \in Nat /\ past \in [1..Len(past) -> PastType]
  BY <1>1, LenProperties
<1>3. Len(past) = Len(requests)
  BY <1>1, <1>2
<1> QED BY <1>1, <1>2, <1>3 DEF Pending

LEMMA SeqOf ==
    ASSUME NEW S, NEW n \in Nat, NEW f \in [1..n -> S]
    PROVE  f \in Seq(S) /\ Len(f) = n
OBVIOUS

\* The list is not longer than there are people.
LEMMA ShortList ==
    ASSUME JoinTypeOK, OneEntry
    PROVE  /\ Len(members) \in Nat
           /\ Cardinality(Listed(members)) = Len(members)
           /\ Len(members) <= Cardinality(Users)
<1>1. members \in Seq(Users) /\ Len(members) \in Nat /\ DOMAIN members = 1..Len(members)
  BY DEF JoinTypeOK
<1> DEFINE f == [k \in 1..Len(members) |-> members[k]]
<1>2. f \in Bijection(1..Len(members), Listed(members))
  BY <1>1 DEF OneEntry, Listed, Bijection, Injection, Surjection, IsInjective
<1>3. IsFiniteSet(1..Len(members)) /\ Cardinality(1..Len(members)) = Len(members)
  BY <1>1, FS_Interval
<1>4. Cardinality(Listed(members)) = Len(members)
  BY <1>2, <1>3, FS_Bijection DEF ExistsBijection
<1>5. Listed(members) \in SUBSET Users
  BY <1>1 DEF Listed
<1> QED BY <1>1, <1>4, <1>5, FS_Subset, JoinAssumption

\* While settled rows stay as they are, who reports a success keeps doing so alone.
LEMMA ReportsKept ==
    ASSUME JoinInv, NEW h \in Handlers, NEW c \in CallType, c.at # "refresh",
           call' = [call EXCEPT ![h] = c] \/ UNCHANGED call,
           \A i \in Ids : requests[i].status # "pending" =>
              /\ requests'[i].status = requests[i].status
              /\ requests'[i].decider = requests[i].decider
    PROVE  OneReports'
<1>1. /\ call \in [Handlers -> CallType]
      /\ \A g \in Handlers : Knows(call[g], Ids, past)
      /\ OneReports
  BY Typed DEF JoinInv
<1>2. \A g \in Handlers : call'[g].at = "refresh" => call'[g] = call[g]
  BY <1>1
<1>3. ASSUME NEW g \in Handlers, call[g].at = "refresh"
      PROVE  LET i == call[g].id
             IN  /\ i \in Ids /\ requests'[i].decider = call[g].by
                 /\ requests'[i].status = Outcome[call[g].op]
                 /\ \A k \in Handlers : call[k].at = "refresh" /\ call[k].id = i => k = g
  <2>1. call[g].id \in Ids /\ call[g].op \in Settles
    BY <1>1, <1>3 DEF Knows
  <2>2. Outcome[call[g].op] # "pending"
    BY <2>1 DEF Outcome, Settles
  <2> QED BY <1>1, <1>3, <2>1, <2>2 DEF OneReports, At, By
<1> QED BY <1>2, <1>3 DEF OneReports, At, By

\* A handler moves, and nothing else.
LEMMA CallStep ==
    ASSUME JoinInv, NEW h \in Handlers, NEW c \in CallType, Knows(c, Ids, past),
           c.at # "refresh", call' = [call EXCEPT ![h] = c],
           UNCHANGED <<members, team, onTeam, requests, changes, past>>
    PROVE  JoinInv'
<1>1. Ids' = Ids /\ Pending' = Pending
  BY DEF Ids, Pending
<1>2. /\ call' \in [Handlers -> CallType]
      /\ \A g \in Handlers : Knows(call'[g], Ids, past)
  BY DEF JoinInv, JoinTypeOK
<1>3. JoinTypeOK'
  BY <1>1, <1>2 DEF JoinInv, JoinTypeOK, Knows
<1>4. OneEntry' /\ HereUnlessLeft'
  BY <1>1 DEF JoinInv, OneEntry, HereUnlessLeft, IsMember, Listed
<1>5. ApprovedIsAdded' /\ LeaverHasLeft'
  BY <1>1 DEF JoinInv, ApprovedIsAdded, LeaverHasLeft
<1>6. OneReports'
  BY ReportsKept
<1> QED BY <1>1, <1>2, <1>3, <1>4, <1>5, <1>6 DEF JoinInv, Knows, OnePage

\* What a handler knows stays true while rows are added and histories grow.
LEMMA KnowsMore ==
    ASSUME NEW c, NEW ids, NEW hist, NEW more, NEW k, Knows(c, ids, hist), ids \subseteq more,
           \A i \in ids : /\ hist[i].added = TRUE => k[i].added = TRUE
                          /\ hist[i].left = TRUE => k[i].left = TRUE
    PROVE  Knows(c, more, k)
BY DEF Knows

LEMMA IdleKnows == /\ Idle \in CallType /\ Idle.at = "idle"
                    /\ \A ids, hist : Knows(Idle, ids, hist)
BY DEF Idle, CallType, Knows, Ops, TeamStates

LEMMA ServingType ==
    ASSUME NEW c \in CallType,
           NEW step \in {"close", "act", "settle", "refresh"}
    PROVE  /\ Serving(c, step) \in CallType
           /\ Serving(c, step).by = c.by /\ Serving(c, step).op = c.op
           /\ Serving(c, step).id = c.id /\ Serving(c, step).at = step
           /\ Serving(c, step).rows = {} /\ Serving(c, step).closing = {}
BY IdleKnows DEF Serving, CallType, Idle

LEMMA LoadedKnows ==
    ASSUME NEW c \in CallType, NEW listed, NEW ids, NEW hist,
           c.by \in Users, c.id \in ids \cup {0}, listed \subseteq ids
    PROVE  /\ Loaded(c, listed) \in CallType /\ Knows(Loaded(c, listed), ids, hist)
           /\ Loaded(c, listed).at \in {"idle", "act"}
<1>1. CASE Loaded(c, listed) = Idle
  BY <1>1, IdleKnows
<1>2. CASE /\ Loaded(c, listed) = Serving(c, "act")
           /\ c.op \in OfARow => c.id \in ids
  <2>1. Knows(Serving(c, "act"), ids, hist)
    BY <1>2, ServingType DEF Knows
  <2> QED BY <1>2, <2>1, ServingType
<1> QED BY <1>1, <1>2 DEF Loaded, OfARow, Settles

\* A handler that is through with reading closes only whom it may.
LEMMA JudgedKnows ==
    ASSUME JoinInv, NEW c \in CallType, NEW found \in SUBSET Users,
           c.by \in Users, c.rows \subseteq Ids, c.id \in Ids \cup {0},
           OnePage => \A v \in Wanted(c.by, c.rows) : IsMember(v) => v \in found
    PROVE  /\ Judged(c, found) \in CallType /\ Knows(Judged(c, found), Ids, past)
           /\ Judged(c, found).at # "refresh"
<1> DEFINE closing == Closures(c.by, c.rows, found, c.team)
           own == c.own
           shown == IF c.op = "request" THEN c.team ELSE "planned"
           j == [Serving(c, "close") EXCEPT !.closing = closing, !.own = own, !.team = shown]
<1>1. Ids \subseteq Nat
  BY DEF JoinInv, JoinTypeOK, Ids
<1>2. \A cl \in closing : cl \in Ids \X Reasons
  BY <1>1 DEF Closures, Reasons
<1>3. ASSUME NEW cl \in closing, OnePage, cl[2] = "requester_left"
      PROVE  past[cl[1]].left = TRUE
  <2>1. PICK i \in c.rows : cl[1] = i /\ requests[i].requester \notin found \cup {c.by}
    BY <1>3 DEF Closures
  <2>2. requests[i].requester \in Wanted(c.by, c.rows)
    BY <2>1 DEF Wanted
  <2>3. ~IsMember(requests[i].requester)
    BY <1>3, <2>1, <2>2
  <2>4. i \in Ids /\ past[i].left \in BOOLEAN
    BY <2>1, Typed DEF JoinInv, PastType
  <2> QED BY <2>1, <2>3, <2>4 DEF JoinInv, HereUnlessLeft
<1>4. CASE closing = {}
  BY <1>4, LoadedKnows DEF Judged
<1>5. CASE closing # {}
  <2>1. Judged(c, found) = j
    BY <1>5 DEF Judged
  <2>2. closing \in SUBSET (Nat \X Reasons)
    BY <1>1, <1>2
  <2>3. own \in BOOLEAN /\ shown \in TeamStates
    BY DEF CallType, TeamStates
  <2> DEFINE base == Serving(c, "close")
  <2>4. /\ base \in CallType /\ base.rows = {} /\ base.by = c.by /\ base.id = c.id
        /\ base.at = "close"
    BY ServingType
  <2> HIDE DEF closing, own, shown, base
  <2>5. /\ j \in CallType /\ j.closing = closing /\ j.rows = {} /\ j.by = c.by
        /\ j.id = c.id /\ j.at = "close"
    BY <2>2, <2>3, <2>4 DEF CallType, base
  <2> HIDE DEF j
  <2>6. Knows(j, Ids, past)
    BY <1>2, <1>3, <2>5 DEF Knows
  <2> QED BY <2>1, <2>5, <2>6
<1> QED BY <1>4, <1>5

LEMMA BeginStep ==
    ASSUME JoinInv, NEW h \in Handlers, NEW u \in Users, NEW op \in Ops,
           NEW id \in 0..MaxRequests, Begin(h, u, op, id)
    PROVE  JoinInv'
<1> DEFINE c == [Idle EXCEPT !.by = u, !.op = op, !.id = id, !.at = "teams"]
<1>1. id \in Ids \cup {0}
  BY DEF Begin, MayTry, Ops
<1>2. c \in CallType
  <2>1. id \in Nat
    BY JoinAssumption
  <2> QED BY <2>1, IdleKnows DEF CallType
<1>3. /\ c.rows = {} /\ c.closing = {} /\ c.at = "teams" /\ c.offset = 0 /\ c.id = id
      /\ c.by = u
  BY DEF Idle
<1>4. /\ call' = [call EXCEPT ![h] = c]
      /\ UNCHANGED <<members, team, onTeam, requests, changes, past>>
  BY DEF Begin, Goto
<1> HIDE DEF c
<1>5. Knows(c, Ids, past)
  BY <1>1, <1>3 DEF Knows
<1> QED BY <1>2, <1>3, <1>4, <1>5, CallStep

LEMMA ReadTeamsStep == ASSUME JoinInv, NEW h \in Handlers, ReadTeams(h) PROVE JoinInv'
<1> DEFINE own == call[h].op \in {"request", "endorse"} /\ By(h) \in onTeam
           c == [call[h] EXCEPT !.team = team, !.at = "list", !.own = own]
<1>1. call[h] \in CallType /\ Knows(call[h], Ids, past) /\ team \in TeamStates
  BY DEF JoinInv, JoinTypeOK
<1>2. c \in CallType
  <2>1. own \in BOOLEAN
    OBVIOUS
  <2> HIDE DEF own
  <2> QED BY <1>1, <2>1 DEF CallType
<1>3. /\ c.rows = call[h].rows /\ c.closing = call[h].closing /\ c.id = call[h].id
      /\ c.at = "list" /\ c.offset = call[h].offset /\ c.by = call[h].by
  BY <1>1 DEF CallType
<1>4. /\ call' = [call EXCEPT ![h] = c]
      /\ UNCHANGED <<members, team, onTeam, requests, changes, past>>
      /\ call[h].at = "teams"
  BY DEF ReadTeams, Goto, At
<1> HIDE DEF c
<1>5. Knows(c, Ids, past)
  BY <1>1, <1>3, <1>4 DEF Knows
<1> QED BY <1>2, <1>3, <1>4, <1>5, CallStep

LEMMA ListStep == ASSUME JoinInv, NEW h \in Handlers, ListRequests(h) PROVE JoinInv'
<1> DEFINE c == [call[h] EXCEPT !.rows = Pending, !.at = "members"]
           j == Judged(c, {})
<1>1. /\ call[h] \in CallType /\ Knows(call[h], Ids, past) /\ Ids \subseteq Nat
      /\ call[h].at = "list"
  BY DEF JoinInv, JoinTypeOK, Ids, ListRequests, At
<1>2. Pending \subseteq Ids
  BY DEF Pending
<1>3. /\ c \in CallType /\ c.rows = Pending /\ c.id = call[h].id /\ c.offset = call[h].offset
      /\ c.closing = call[h].closing /\ c.at = "members" /\ c.by = call[h].by
  BY <1>1, <1>2 DEF CallType
<1>4. c.id \in Ids \cup {0} /\ c.by \in Users
  BY <1>1, <1>3 DEF Knows
<1>5. /\ call' = [call EXCEPT ![h] = IF Wanted(c.by, Pending) = {} THEN j ELSE c]
      /\ UNCHANGED <<members, team, onTeam, requests, changes, past>>
  BY <1>3 DEF ListRequests, Goto, By
<1> HIDE DEF c
<1>6. CASE Wanted(c.by, Pending) = {}
  <2>1. j \in CallType /\ Knows(j, Ids, past) /\ j.at # "refresh"
    BY <1>2, <1>3, <1>4, <1>6, JudgedKnows
  <2> HIDE DEF j
  <2> QED BY <1>5, <1>6, <2>1, CallStep
<1>7. CASE Wanted(c.by, Pending) # {}
  <2>1. Knows(c, Ids, past)
    BY <1>1, <1>2, <1>3, <1>4 DEF Knows
  <2> QED BY <1>3, <1>5, <1>7, <2>1, CallStep
<1> QED BY <1>6, <1>7

LEMMA PageStep == ASSUME JoinInv, NEW h \in Handlers, ReadPage(h) PROVE JoinInv'
<1> DEFINE c == call[h]
           page == {members[k] : k \in {k \in DOMAIN members :
                        k > c.offset /\ k <= c.offset + PageSize}}
           found == c.found \cup (page \cap Wanted(c.by, c.rows))
           offset == c.offset + Cardinality(page)
           last == \/ page = {}
                   \/ offset >= Len(members)
                   \/ found = Wanted(c.by, c.rows)
           next == [c EXCEPT !.found = found, !.offset = offset]
<1>1. /\ c \in CallType /\ Knows(c, Ids, past) /\ c.at = "members"
      /\ members \in Seq(Users) /\ DOMAIN members = 1..Len(members)
      /\ c.rows \subseteq Ids /\ c.id \in Ids \cup {0} /\ c.offset \in Nat /\ c.by \in Users
  BY DEF JoinInv, JoinTypeOK, ReadPage, At, Knows, CallType
<1>2. /\ Len(members) \in Nat /\ Cardinality(Listed(members)) = Len(members)
      /\ Len(members) <= Cardinality(Users)
  BY ShortList DEF JoinInv
<1>3. page \in SUBSET Users /\ found \in SUBSET Users
  BY <1>1 DEF CallType
<1>4. Cardinality(page) \in Nat
  BY <1>3, FS_Subset, FS_CardinalityType, JoinAssumption
<1>5. ASSUME OnePage PROVE page = Listed(members) /\ last
  <2>1. c.offset = 0
    BY <1>1, <1>5 DEF Knows, OnePage
  <2>2. Cardinality(Users) \in Nat /\ PageSize \in Nat
    BY FS_CardinalityType, JoinAssumption
  <2>3. Len(members) <= PageSize
    BY <1>2, <1>5, <2>2 DEF OnePage
  <2>4. page = Listed(members)
    BY <1>1, <1>2, <2>1, <2>2, <2>3 DEF Listed
  <2>5. offset = Len(members)
    <3>1. Cardinality(page) = Len(members)
      BY <1>2, <2>4
    <3> HIDE DEF page
    <3> QED BY <1>2, <2>1, <3>1
  <2> QED BY <1>2, <2>4, <2>5
<1>6. CASE last
  <2>1. OnePage => \A v \in Wanted(c.by, c.rows) : IsMember(v) => v \in found
    BY <1>5 DEF IsMember
  <2>2. /\ call' = [call EXCEPT ![h] = Judged(c, found)]
        /\ UNCHANGED <<members, team, onTeam, requests, changes, past>>
    BY <1>6 DEF ReadPage, Goto
  <2> DEFINE j == Judged(c, found)
  <2> HIDE DEF last, page, found
  <2>3. /\ Judged(c, found) \in CallType /\ Knows(Judged(c, found), Ids, past)
        /\ Judged(c, found).at # "refresh"
    BY <1>1, <1>3, <2>1, JudgedKnows
  <2> HIDE DEF c, j
  <2>4. /\ j \in CallType /\ Knows(j, Ids, past) /\ j.at # "refresh"
        /\ call' = [call EXCEPT ![h] = j]
    BY <2>2, <2>3 DEF j
  <2> QED BY <2>2, <2>4, CallStep
<1>7. CASE ~last
  <2>1. next \in CallType
    <3>1. c.offset + Cardinality(page) \in Nat
      BY <1>1, <1>4
    <3> HIDE DEF found, c, page
    <3> QED BY <1>1, <1>3, <3>1 DEF CallType
  <2>2. Knows(next, Ids, past) /\ next.at = "members"
    BY <1>1, <1>5, <1>7 DEF Knows, CallType
  <2> QED BY <1>7, <2>1, <2>2, CallStep DEF ReadPage, Goto
<1> QED BY <1>6, <1>7

LEMMA RelistStep == ASSUME JoinInv, NEW h \in Handlers, Relist(h) PROVE JoinInv'
<1> DEFINE c == call[h]
           l == Loaded(c, Pending)
<1>1. c \in CallType /\ Knows(c, Ids, past) /\ c.at = "relist"
  BY DEF JoinInv, JoinTypeOK, Relist, At
<1>2. Pending \subseteq Ids /\ c.by \in Users /\ c.id \in Ids \cup {0}
  BY <1>1 DEF Pending, Knows
<1>3. l \in CallType /\ Knows(l, Ids, past) /\ l.at # "refresh"
  BY <1>1, <1>2, LoadedKnows
<1>4. /\ call' = [call EXCEPT ![h] = l]
      /\ UNCHANGED <<members, team, onTeam, requests, changes, past>>
  BY DEF Relist, Goto
<1> HIDE DEF l, c
<1> QED BY <1>3, <1>4, CallStep

LEMMA FailStep == ASSUME JoinInv, NEW h \in Handlers, Fail(h) PROVE JoinInv'
BY IdleKnows, CallStep DEF Fail, Finish, Goto

-----------------------------------------------------------------------------
\* The statements that settle, close and endorse change a row in ways that the
\* invariant allows.
LEMMA RowsStep ==
    ASSUME JoinInv, NEW h \in Handlers, NEW c \in CallType, Knows(c, Ids, past),
           call' = [call EXCEPT ![h] = c], OneReports',
           requests' \in Seq(RowType), DOMAIN requests' = Ids,
           \A i \in Ids :
              /\ requests'[i].requester = requests[i].requester
              /\ requests'[i].status = "pending" => requests[i].status = "pending"
              /\ requests'[i].status = "approved" /\ requests[i].status # "approved"
                    => past[i].added = TRUE
              /\ OnePage /\ requests'[i].reason = "requester_left"
                    /\ requests[i].reason # "requester_left" => past[i].left = TRUE,
           UNCHANGED <<members, team, onTeam, changes, past>>
    PROVE  JoinInv'
<1>1. Ids' = Ids /\ Pending' \subseteq Pending
  BY DEF Ids, Pending
<1>2. /\ call' \in [Handlers -> CallType]
      /\ \A g \in Handlers : Knows(call'[g], Ids, past)
  BY DEF JoinInv, JoinTypeOK
<1>3. JoinTypeOK'
  BY <1>1, <1>2 DEF JoinInv, JoinTypeOK, Knows
<1>4. OneEntry' /\ HereUnlessLeft'
  BY <1>1 DEF JoinInv, OneEntry, HereUnlessLeft, IsMember, Listed
<1>5. ApprovedIsAdded'
  BY <1>1 DEF JoinInv, ApprovedIsAdded
<1>6. LeaverHasLeft'
  BY <1>1 DEF JoinInv, LeaverHasLeft, OnePage
<1> QED BY <1>1, <1>2, <1>3, <1>4, <1>5, <1>6 DEF JoinInv, Knows, OnePage

LEMMA CloseStep == ASSUME JoinInv, NEW h \in Handlers, CloseStale(h) PROVE JoinInv'
<1>1. PICK why \in {cl[2] : cl \in call[h].closing} :
        LET now == {cl \in call[h].closing : cl[2] = why}
            rest == call[h].closing \ now
        IN  /\ requests' = [i \in Ids |->
                  IF Closes(i, now) /\ i \in Pending
                  THEN [requests[i] EXCEPT !.status = "closed", !.reason = why]
                  ELSE requests[i]]
            /\ Goto(h, [call[h] EXCEPT !.closing = rest,
                                       !.at = IF rest = {} THEN "relist" ELSE "close"])
  BY DEF CloseStale
<1> DEFINE now == {cl \in call[h].closing : cl[2] = why}
           rest == call[h].closing \ now
           c == [call[h] EXCEPT !.closing = rest,
                                !.at = IF rest = {} THEN "relist" ELSE "close"]
<1>2. /\ call[h] \in CallType /\ Knows(call[h], Ids, past) /\ why \in Reasons
      /\ call[h].at = "close"
  <2>1. call[h].at = "close"
    BY DEF CloseStale, At
  <2> QED BY <2>1 DEF JoinInv, JoinTypeOK, CallType
<1>3. c \in CallType /\ Knows(c, Ids, past)
  BY <1>2 DEF CallType, Knows
<1>4. Len(requests) \in Nat /\ Ids = 1..Len(requests) /\ requests \in [Ids -> RowType]
  BY Typed DEF JoinInv
<1>5. requests' \in [Ids -> RowType]
  <2>1. \A i \in Ids : /\ requests[i] \in RowType
                       /\ [requests[i] EXCEPT !.status = "closed", !.reason = why] \in RowType
    <3>1. \A r \in RowType : [r EXCEPT !.status = "closed", !.reason = why] \in RowType
      BY <1>2 DEF RowType, Statuses
    <3> QED BY <1>4, <3>1
  <2> QED BY <1>1, <2>1
<1>6. requests' \in Seq(RowType) /\ DOMAIN requests' = Ids
  BY <1>4, <1>5, SeqOf
<1>7. ASSUME NEW i \in Ids, Closes(i, now), OnePage, why = "requester_left"
      PROVE  past[i].left = TRUE
  BY <1>2, <1>7 DEF Closes, Knows
<1>8. \A i \in Ids :
              /\ requests'[i].requester = requests[i].requester
              /\ requests'[i].status = "pending" => requests[i].status = "pending"
              /\ requests'[i].status = "approved" => requests[i].status = "approved"
              /\ OnePage /\ requests'[i].reason = "requester_left"
                    /\ requests[i].reason # "requester_left" => past[i].left = TRUE
  BY <1>1, <1>5, <1>7 DEF RowType
<1>9. \A i \in Ids : requests[i].status # "pending" => requests'[i] = requests[i]
  BY <1>1 DEF Pending
<1>10. c.at # "refresh" /\ call' = [call EXCEPT ![h] = c]
  BY <1>1, <1>2 DEF Goto, CallType
<1> HIDE DEF c
<1>11. OneReports'
  BY <1>3, <1>9, <1>10, ReportsKept
<1> QED BY <1>1, <1>3, <1>6, <1>8, <1>10, <1>11, RowsStep DEF CloseStale

\* Settling a row: the handler that finds it pending reports so alone, as nobody could
\* report of a pending row; another changes nothing.
LEMMA SettleStep ==
    ASSUME JoinInv, NEW h \in Handlers, NEW i \in Ids, NEW op \in Settles,
           call[h].id = i, call[h].op = op, call[h].at \in {"act", "settle"},
           requests' = Settled(i, Outcome[op], By(h)),
           op = "approve" => past[i].added = TRUE,
           GoesOn(h, i), UNCHANGED <<members, team, onTeam, changes, past>>
    PROVE  JoinInv'
<1> DEFINE status == Outcome[op]
           c == Serving(call[h], "refresh")
<1>1. /\ requests \in Seq(RowType) /\ Len(requests) \in Nat /\ Ids = 1..Len(requests)
      /\ call \in [Handlers -> CallType]
      /\ Knows(call[h], Ids, past) /\ By(h) \in Users
  BY DEF JoinInv, JoinTypeOK, Ids, Knows, By
<1>2. \A j \in Ids : requests[j] \in RowType
  BY <1>1
<1>3. status \in Statuses /\ status # "pending" /\ (status = "approved" <=> op = "approve")
  BY DEF Statuses, Outcome, Settles
<1>4. CASE i \notin Pending
  <2>1. /\ UNCHANGED <<members, team, onTeam, requests, changes, past>>
        /\ call' = [call EXCEPT ![h] = Idle]
    BY <1>4 DEF Settled, GoesOn, Goto
  <2> QED BY <2>1, IdleKnows, CallStep
<1>5. CASE i \in Pending
  <2>1. c \in CallType /\ c.by = By(h) /\ c.op = op /\ c.id = i /\ c.at = "refresh"
    BY <1>1, ServingType DEF By
  <2>2. Knows(c, Ids, past)
    BY <1>1, <2>1, ServingType DEF Knows
  <2>3. /\ requests' = [requests EXCEPT ![i].status = status, ![i].decider = By(h)]
        /\ call' = [call EXCEPT ![h] = c]
    BY <1>5 DEF Settled, GoesOn, Goto
  <2> HIDE DEF c, status
  <2>4. requests' \in Seq(RowType) /\ DOMAIN requests' = Ids
    <3>1. requests[i] \in RowType /\ By(h) \in Users
      BY <1>1, <1>2
    <3>2. [requests[i] EXCEPT !.status = status, !.decider = By(h)] \in RowType
      BY <1>3, <3>1 DEF RowType
    <3>3. requests' = [requests EXCEPT ![i] = [@ EXCEPT !.status = status, !.decider = By(h)]]
      BY <2>3
    <3>4. requests \in [Ids -> RowType]
      BY <1>1, <1>2
    <3>5. requests' \in [Ids -> RowType]
      BY <3>2, <3>3, <3>4
    <3> QED BY <1>1, <3>5, SeqOf
  <2>5. \A j \in Ids :
              /\ requests'[j].requester = requests[j].requester
              /\ requests'[j].status = IF j = i THEN status ELSE requests[j].status
              /\ requests'[j].decider = IF j = i THEN By(h) ELSE requests[j].decider
              /\ requests'[j].reason = requests[j].reason
    BY <1>1, <1>2, <2>3 DEF RowType
  <2>6. \A g \in Handlers \ {h} : call'[g] = call[g]
    BY <1>1, <2>3
  <2>7. ASSUME NEW g \in Handlers, call[g].at = "refresh" PROVE call[g].id # i
    <3>1. requests[call[g].id].status = Outcome[call[g].op] /\ call[g].op \in Settles
      BY <2>7 DEF JoinInv, OneReports, At, Knows
    <3> QED BY <1>5, <3>1 DEF Pending, Outcome, Settles
  <2>8. OneReports'
    <3> SUFFICES ASSUME NEW g \in Handlers, call'[g].at = "refresh"
                 PROVE  /\ requests'[call'[g].id].decider = call'[g].by
                        /\ requests'[call'[g].id].status = Outcome[call'[g].op]
                        /\ \A k \in Handlers :
                              call'[k].at = "refresh" /\ call'[k].id = call'[g].id => k = g
      BY DEF OneReports, At, By
    <3>1. call'[h] = c
      BY <1>1, <2>3
    <3>2. CASE g = h
      BY <2>1, <2>5, <2>6, <2>7, <3>1, <3>2 DEF status
    <3>3. CASE g # h
      <4>1. /\ call'[g] = call[g] /\ call[g].at = "refresh" /\ call[g].id # i
            /\ call[g].id \in Ids
        BY <2>6, <2>7, <3>3 DEF JoinInv, Knows
      <4>2. /\ requests[call[g].id].decider = call[g].by
            /\ requests[call[g].id].status = Outcome[call[g].op]
            /\ \A k \in Handlers :
                  call[k].at = "refresh" /\ call[k].id = call[g].id => k = g
        BY <4>1 DEF JoinInv, OneReports, At, By
      <4> QED BY <2>1, <2>5, <2>6, <3>1, <4>1, <4>2
    <3> QED BY <3>2, <3>3
  <2>9. \A j \in Ids :
              /\ requests'[j].requester = requests[j].requester
              /\ requests'[j].status = "pending" => requests[j].status = "pending"
              /\ requests'[j].status = "approved" /\ requests[j].status # "approved"
                    => past[j].added = TRUE
              /\ OnePage /\ requests'[j].reason = "requester_left"
                    /\ requests[j].reason # "requester_left" => past[j].left = TRUE
    BY <1>3, <2>5
  <2> HIDE DEF JoinInv
  <2> QED BY <2>1, <2>2, <2>3, <2>4, <2>8, <2>9, RowsStep
<1> QED BY <1>4, <1>5

\* Who is past loading speaks of a row that exists.
LEMMA ActsOnARow ==
    ASSUME JoinInv, NEW h \in Handlers, At(h, "act"), call[h].op \in OfARow
    PROVE  call[h].id \in Ids
BY DEF JoinInv, Knows, At

LEMMA WithdrawStep == ASSUME JoinInv, NEW h \in Handlers, Withdraw(h) PROVE JoinInv'
<1>1. call[h].id \in Ids /\ "withdraw" \in Settles /\ Outcome["withdraw"] = "withdrawn"
  BY ActsOnARow DEF Withdraw, OfARow, Settles, Outcome
<1> QED BY <1>1, SettleStep DEF Withdraw, At

LEMMA DeclineStep == ASSUME JoinInv, NEW h \in Handlers, Decline(h) PROVE JoinInv'
<1>1. call[h].id \in Ids /\ "decline" \in Settles /\ Outcome["decline"] = "declined"
  BY ActsOnARow DEF Decline, OfARow, Settles, Outcome
<1> QED BY <1>1, SettleStep DEF Decline, At

LEMMA ApproveStep == ASSUME JoinInv, NEW h \in Handlers, Approve(h) PROVE JoinInv'
<1>1. /\ call[h].id \in Ids /\ past[call[h].id].added = TRUE /\ call[h].op = "approve"
      /\ call[h].at = "settle"
  BY DEF JoinInv, Knows, Approve, At
<1>2. "approve" \in Settles /\ Outcome["approve"] = "approved"
  BY DEF Settles, Outcome
<1> QED BY <1>1, <1>2, SettleStep DEF Approve

LEMMA EndorseStep == ASSUME JoinInv, NEW h \in Handlers, Endorse(h) PROVE JoinInv'
<1> DEFINE i == call[h].id
<1>1. Len(requests) \in Nat /\ Ids = 1..Len(requests) /\ requests \in [Ids -> RowType]
  BY Typed DEF JoinInv
<1>2. \A j \in Ids : requests[j] \in RowType
  BY <1>1
<1>3. i \in Ids /\ requests' = [requests EXCEPT ![i].endorsers = @ \cup {By(h)}]
  BY ActsOnARow DEF Endorse, OfARow
<1>4. By(h) \in Users
  BY DEF JoinInv, Knows, Endorse, At, By
<1> HIDE DEF i
<1>5. requests' \in Seq(RowType) /\ DOMAIN requests' = Ids
  <2>1. [requests[i] EXCEPT !.endorsers = @ \cup {By(h)}] \in RowType
    BY <1>2, <1>3, <1>4 DEF RowType
  <2>2. requests' \in [Ids -> RowType]
    BY <1>1, <1>3, <2>1
  <2> QED BY <1>1, <2>2, SeqOf
<1>6. \A j \in Ids : /\ requests'[j].requester = requests[j].requester
                     /\ requests'[j].status = requests[j].status
                     /\ requests'[j].decider = requests[j].decider
                     /\ requests'[j].reason = requests[j].reason
  BY <1>1, <1>2, <1>3 DEF RowType
<1>7. call' = [call EXCEPT ![h] = Idle]
  BY DEF Endorse, Finish, Goto
<1>8. OneReports'
  BY <1>6, <1>7, IdleKnows, ReportsKept
<1>9. call' \in [Handlers -> CallType] /\ UNCHANGED <<members, team, onTeam, changes, past>>
  <2>1. call \in [Handlers -> CallType]
    BY Typed DEF JoinInv
  <2> QED BY <1>7, <2>1, IdleKnows DEF Endorse
<1> QED BY <1>5, <1>6, <1>7, <1>8, <1>9, IdleKnows, RowsStep

LEMMA AddStep == ASSUME JoinInv, NEW h \in Handlers, AddMember(h) PROVE JoinInv'
<1> DEFINE i == call[h].id
           c == Serving(call[h], "settle")
<1>1. /\ call[h] \in CallType /\ Knows(call[h], Ids, past) /\ DOMAIN past = Ids
      /\ past \in Seq(PastType) /\ i \in Ids
  BY ActsOnARow DEF JoinInv, JoinTypeOK, AddMember, OfARow, Settles
<1>2. \A j \in Ids : past'[j].left = past[j].left /\ past'[j].added \in {past[j].added, TRUE}
  BY <1>1 DEF AddMember
<1>3. past' \in Seq(PastType) /\ DOMAIN past' = Ids
  <2>1. past \in [Ids -> PastType] /\ Ids = 1..Len(requests) /\ Len(requests) \in Nat
    BY Typed DEF JoinInv
  <2>2. past' \in [Ids -> PastType]
    BY <1>1, <2>1 DEF AddMember, PastType
  <2> QED BY <2>1, <2>2, SeqOf
<1>4. past'[i].added = TRUE
  BY <1>1 DEF AddMember, PastType
<1>5. /\ c \in CallType /\ c.id = i /\ c.op = "approve" /\ c.by = By(h) /\ c.at = "settle"
      /\ c.rows = {} /\ c.closing = {}
  BY <1>1, ServingType DEF AddMember, By
<1>6. Knows(c, Ids, past')
  <2>1. By(h) \in Reviewers /\ By(h) \in Users
    BY <1>1 DEF AddMember, At, By, Knows
  <2> HIDE DEF c, i
  <2> QED BY <1>1, <1>4, <1>5, <2>1 DEF Knows
<1>7. \A g \in Handlers \ {h} : call'[g] = call[g]
  BY DEF AddMember, Goto, JoinInv, JoinTypeOK
<1>8. call' = [call EXCEPT ![h] = c]
  BY DEF AddMember, Goto
<1> HIDE DEF c, i
<1>9. call' \in [Handlers -> CallType] /\ \A g \in Handlers : Knows(call'[g], Ids, past')
  <2>1. \A g \in Handlers : Knows(call[g], Ids, past)
    BY DEF JoinInv
  <2>2. ASSUME NEW g \in Handlers PROVE Knows(call[g], Ids, past')
    BY <1>2, <2>1, KnowsMore
  <2> QED BY <1>5, <1>6, <1>7, <1>8, <2>2 DEF JoinInv, JoinTypeOK
<1>10. Ids' = Ids /\ Pending' = Pending
  BY DEF Ids, Pending, AddMember
<1>11. onTeam' \subseteq Users
  <2>1. requests[i] \in RowType
    BY <1>1 DEF JoinInv, JoinTypeOK, Ids
  <2> QED BY <2>1 DEF JoinInv, JoinTypeOK, AddMember, RowType, i
<1>12. JoinTypeOK'
  BY <1>3, <1>9, <1>10, <1>11 DEF JoinInv, JoinTypeOK, Knows, AddMember, PastType
<1>13. OneEntry' /\ HereUnlessLeft'
  BY <1>2, <1>10 DEF JoinInv, OneEntry, HereUnlessLeft, IsMember, Listed, AddMember
<1>14. ApprovedIsAdded' /\ LeaverHasLeft'
  BY <1>2, <1>10 DEF JoinInv, ApprovedIsAdded, LeaverHasLeft, AddMember
<1>15. OneReports'
  <2>1. UNCHANGED requests
    BY DEF AddMember
  <2> QED BY <1>5, <1>8, <2>1, ReportsKept
<1> QED BY <1>9, <1>10, <1>12, <1>13, <1>14, <1>15 DEF JoinInv, Knows, OnePage

\* A new request.
LEMMA RequestStep == ASSUME JoinInv, NEW h \in Handlers, RequestToJoin(h) PROVE JoinInv'
<1> DEFINE n == Len(requests)
           u == By(h)
           row == [requester |-> u, status |-> "pending", decider |-> NULL,
                   reason |-> NULL, endorsers |-> {}]
           hist == [left |-> ~IsMember(u), added |-> FALSE]
<1>1. /\ n \in Nat /\ Len(past) = n /\ Ids = 1..n /\ Pending \subseteq Ids
      /\ requests \in Seq(RowType) /\ past \in Seq(PastType)
      /\ requests \in [Ids -> RowType] /\ past \in [Ids -> PastType]
  BY Typed DEF JoinInv, JoinTypeOK, PastType
<1>2. row \in RowType /\ hist \in PastType
  <2>1. u \in Users
    BY DEF JoinInv, Knows, RequestToJoin, At, By
  <2> QED BY <2>1 DEF RowType, PastType, Statuses
<1>3. /\ row.requester = u /\ row.status = "pending" /\ row.reason = NULL
      /\ hist.left = ~IsMember(u)
  OBVIOUS
<1>4. /\ requests' = Append(requests, row) /\ past' = Append(past, hist)
      /\ call' = [call EXCEPT ![h] = Idle]
      /\ UNCHANGED <<members, team, onTeam, changes>>
  BY DEF RequestToJoin, Finish, Goto
<1> HIDE DEF row, hist, u
<1>5. /\ requests' \in Seq(RowType) /\ past' \in Seq(PastType)
      /\ Ids' = 1..(n + 1) /\ DOMAIN past' = 1..(n + 1)
      /\ \A i \in Ids : requests'[i] = requests[i] /\ past'[i] = past[i]
      /\ requests'[n + 1] = row /\ past'[n + 1] = hist
  BY <1>1, <1>2, <1>4, AppendProperties, LenProperties DEF Ids
<1> HIDE DEF n
<1>6. Ids \subseteq Ids' /\ Ids' = Ids \cup {n + 1} /\ n + 1 \notin Ids
  BY <1>1, <1>5
<1>7. call' \in [Handlers -> CallType] /\ \A g \in Handlers : Knows(call'[g], Ids', past')
  <2>1. \A g \in Handlers : Knows(call[g], Ids, past)
    BY DEF JoinInv
  <2>2. ASSUME NEW g \in Handlers PROVE Knows(call[g], Ids \cup {n + 1}, past')
    <3>1. \A i \in Ids : /\ past[i].added = TRUE => past'[i].added = TRUE
                         /\ past[i].left = TRUE => past'[i].left = TRUE
      BY <1>5
    <3>2. Knows(call[g], Ids, past) /\ Ids \subseteq Ids \cup {n + 1}
      BY <2>1
    <3> HIDE DEF Knows
    <3> QED BY <3>1, <3>2, KnowsMore
  <2>3. call \in [Handlers -> CallType]
    BY Typed DEF JoinInv
  <2>4. Idle \in CallType /\ Knows(Idle, Ids \cup {n + 1}, past')
    BY IdleKnows
  <2> QED BY <1>4, <1>6, <2>2, <2>3, <2>4
<1>8. JoinTypeOK'
  <2>1. \A g \in Handlers : call'[g].rows \subseteq Ids' /\ call'[g].id \in Ids' \cup {0}
    BY <1>7 DEF Knows
  <2>2. members' \in Seq(Users) /\ team' \in TeamStates /\ onTeam' \subseteq Users /\ changes' \in Nat
    BY <1>4 DEF JoinInv, JoinTypeOK
  <2>3. DOMAIN past' = Ids'
    BY <1>5
  <2> QED BY <1>5, <1>7, <2>1, <2>2, <2>3 DEF JoinTypeOK
<1>9. OneEntry'
  BY <1>4 DEF JoinInv, OneEntry
<1>10. HereUnlessLeft'
  <2>1. members' = members
    BY <1>4
  <2>2. ASSUME NEW i \in Ids, past'[i].left = FALSE PROVE IsMember(requests'[i].requester)
    BY <1>5, <2>2 DEF JoinInv, HereUnlessLeft
  <2>3. past'[n + 1].left = FALSE => IsMember(requests'[n + 1].requester)
    BY <1>3, <1>5
  <2> QED BY <1>6, <2>1, <2>2, <2>3 DEF HereUnlessLeft, IsMember, Listed
<1>11. OneReports'
  <2>1. \A i \in Ids : requests'[i] = requests[i]
    BY <1>5
  <2> QED BY <1>4, <2>1, IdleKnows, ReportsKept
<1>12. ApprovedIsAdded' /\ LeaverHasLeft'
  BY <1>3, <1>5, <1>6, JoinAssumption DEF JoinInv, ApprovedIsAdded, LeaverHasLeft, Reasons
<1> QED BY <1>7, <1>8, <1>9, <1>10, <1>11, <1>12 DEF JoinInv

-----------------------------------------------------------------------------
(* Everybody else                                                          *)

LEMMA TeamStep ==
    ASSUME JoinInv, UNCHANGED <<members, requests, call, past>>,
           team' \in TeamStates, onTeam' \subseteq Users, changes' \in Nat
    PROVE  JoinInv'
<1>1. Ids' = Ids /\ Pending' = Pending
  BY DEF Ids, Pending
<1>2. JoinTypeOK'
  BY <1>1 DEF JoinInv, JoinTypeOK
<1>3. OneEntry' /\ HereUnlessLeft'
  BY <1>1 DEF JoinInv, OneEntry, HereUnlessLeft, IsMember, Listed
<1>4. OneReports' /\ ApprovedIsAdded' /\ LeaverHasLeft'
  BY <1>1 DEF JoinInv, OneReports, ApprovedIsAdded, LeaverHasLeft, At, By
<1> QED BY <1>1, <1>2, <1>3, <1>4 DEF JoinInv

LEMMA EditTeamStep == ASSUME JoinInv, NEW state \in TeamStates, EditTeam(state) PROVE JoinInv'
BY TeamStep DEF JoinInv, JoinTypeOK, EditTeam, Changed

LEMMA EditTeamMemberStep == ASSUME JoinInv, NEW u \in Users, EditTeamMember(u) PROVE JoinInv'
BY TeamStep DEF JoinInv, JoinTypeOK, EditTeamMember, Changed

\* The list of members changes, and who leaves it is remembered by their rows.
LEMMA ListedStep ==
    ASSUME JoinInv, members' \in Seq(Users), OneEntry', HereUnlessLeft',
           past' \in Seq(PastType), DOMAIN past' = Ids,
           \A i \in Ids : /\ past[i].added = TRUE => past'[i].added = TRUE
                          /\ past[i].left = TRUE => past'[i].left = TRUE,
           onTeam' \subseteq Users, changes' \in Nat, UNCHANGED <<team, requests, call>>
    PROVE  JoinInv'
<1>1. Ids' = Ids /\ Pending' = Pending
  BY DEF Ids, Pending
<1>2. \A g \in Handlers : Knows(call[g], Ids, past)
  BY DEF JoinInv
<1>3. ASSUME NEW g \in Handlers PROVE Knows(call[g], Ids, past')
  BY <1>2, KnowsMore
<1>4. JoinTypeOK'
  BY <1>1 DEF JoinInv, JoinTypeOK, PastType
<1>5. OneReports'
  BY <1>1 DEF JoinInv, OneReports, At, By
<1>6. ApprovedIsAdded'
  BY <1>1 DEF JoinInv, ApprovedIsAdded
<1>7. LeaverHasLeft'
  BY <1>1 DEF JoinInv, LeaverHasLeft
<1> QED BY <1>1, <1>3, <1>4, <1>5, <1>6, <1>7 DEF JoinInv

LEMMA LeaveStep == ASSUME JoinInv, NEW u \in Users, Leave(u) PROVE JoinInv'
<1> DEFINE n == Len(members)
<1>1. /\ members \in Seq(Users) /\ n \in Nat /\ members \in [1..n -> Users]
      /\ DOMAIN members = 1..n
  BY LenProperties DEF JoinInv, JoinTypeOK
<1>2. /\ Len(requests) \in Nat /\ Ids = 1..Len(requests)
      /\ requests \in [Ids -> RowType] /\ past \in [Ids -> PastType]
  BY Typed DEF JoinInv
<1>3. PICK k \in DOMAIN members :
        /\ members[k] = u
        /\ members' = [j \in 1..(n - 1) |-> members[IF j < k THEN j ELSE j + 1]]
  BY DEF Leave
<1> HIDE DEF n
<1>4. n - 1 \in Nat /\ k \in 1..n /\ k \in Nat
  BY <1>1, <1>3
<1>5. members' \in [1..(n - 1) -> Users]
  BY <1>1, <1>3, <1>4
<1>6. members' \in Seq(Users) /\ DOMAIN members' = 1..(n - 1)
  BY <1>4, <1>5, SeqOf
<1>7. OneEntry'
  BY <1>1, <1>3, <1>4, <1>6 DEF JoinInv, OneEntry
<1>8. \A v \in Users \ {u} : IsMember(v) => IsMember(v)'
  <2> SUFFICES ASSUME NEW v \in Users \ {u}, NEW l \in 1..n, members[l] = v
               PROVE  v \in Listed(members')
    BY <1>1 DEF IsMember, Listed
  <2>1. CASE l < k
    <3>1. l \in 1..(n - 1)
      BY <1>1, <1>4, <2>1
    <3> QED BY <1>3, <1>6, <2>1, <3>1 DEF Listed
  <2>2. CASE l > k
    <3>1. l - 1 \in 1..(n - 1) /\ ~(l - 1 < k) /\ (l - 1) + 1 = l
      BY <1>1, <1>4, <2>2
    <3> QED BY <1>3, <1>6, <3>1 DEF Listed
  <2>3. l # k
    BY <1>3
  <2> QED BY <1>4, <2>1, <2>2, <2>3
<1>9. past' = [i \in Ids |-> IF Own(i, u) THEN [past[i] EXCEPT !.left = TRUE] ELSE past[i]]
  BY DEF Leave
<1>10. past' \in Seq(PastType) /\ DOMAIN past' = Ids
  <2>1. past' \in [Ids -> PastType]
    BY <1>2, <1>9 DEF PastType
  <2> QED BY <1>2, <2>1, SeqOf
<1>11. \A i \in Ids : /\ past'[i].added = past[i].added
                      /\ past'[i].left = IF Own(i, u) THEN TRUE ELSE past[i].left
  BY <1>2, <1>9 DEF PastType
<1>12. HereUnlessLeft'
  <2> SUFFICES ASSUME NEW i \in Ids, past'[i].left = FALSE
               PROVE  IsMember(requests[i].requester)'
    BY DEF HereUnlessLeft, Leave, Ids
  <2>1. requests[i].requester # u /\ past[i].left = FALSE
    BY <1>11 DEF Own
  <2>2. requests[i].requester \in Users /\ IsMember(requests[i].requester)
    BY <1>2, <2>1 DEF JoinInv, HereUnlessLeft, RowType
  <2>3. requests[i].requester \in Listed(members')
    BY <1>8, <2>1, <2>2 DEF IsMember
  <2> QED BY <2>3 DEF IsMember, Leave
<1>13. onTeam' \subseteq Users /\ changes' \in Nat /\ UNCHANGED <<team, requests, call>>
  BY DEF Leave, Changed, JoinInv, JoinTypeOK
<1> QED BY <1>6, <1>7, <1>10, <1>11, <1>12, <1>13, ListedStep

LEMMA JoinStep == ASSUME JoinInv, NEW u \in Users, Join(u) PROVE JoinInv'
<1>1. /\ members \in Seq(Users) /\ Len(members) \in Nat
      /\ DOMAIN members = 1..Len(members)
      /\ past \in Seq(PastType) /\ DOMAIN past = Ids
  BY LenProperties DEF JoinInv, JoinTypeOK, PastType
<1>2. /\ members' = Append(members, u) /\ ~IsMember(u)
      /\ UNCHANGED <<team, onTeam, requests, call, changes, past>>
  BY DEF Join
<1>3. /\ members' \in Seq(Users) /\ DOMAIN members' = 1..(Len(members) + 1)
      /\ \A j \in 1..Len(members) : members'[j] = members[j]
      /\ members'[Len(members) + 1] = u
  BY <1>1, <1>2, AppendProperties, LenProperties
<1>4. OneEntry'
  BY <1>1, <1>2, <1>3 DEF JoinInv, OneEntry, IsMember, Listed
<1>5. \A v \in Listed(members) : v \in Listed(members')
  BY <1>1, <1>3 DEF Listed
<1>6. HereUnlessLeft'
  BY <1>2, <1>5 DEF JoinInv, HereUnlessLeft, IsMember, Ids
<1> QED BY <1>1, <1>2, <1>3, <1>4, <1>6, ListedStep DEF JoinInv, JoinTypeOK

-----------------------------------------------------------------------------
\* At the start everybody is listed, once.
LEMMA NothingAskedYet ==
    ASSUME NothingAsked, members \in Seq(Users), OneEntry, team \in TeamStates
    PROVE  JoinInv
<1>1. /\ requests = <<>> /\ past = <<>> /\ Ids = {} /\ Pending = {}
      /\ DOMAIN past = {}
  BY DEF NothingAsked, Ids, Pending
<1>2. \A h \in Handlers : call[h] = Idle /\ Knows(call[h], Ids, past)
  BY IdleKnows DEF NothingAsked
<1>3. call \in [Handlers -> CallType]
  BY IdleKnows DEF NothingAsked
<1>4. JoinTypeOK
  <2>1. \A h \in Handlers : call[h].rows \subseteq Ids /\ call[h].id \in Ids \cup {0}
    BY <1>2 DEF Idle
  <2>2. requests \in Seq(RowType) /\ past \in Seq(PastType)
    BY <1>1
  <2> QED BY <1>1, <1>3, <2>1, <2>2 DEF JoinTypeOK, NothingAsked
<1> QED BY <1>1, <1>2, <1>4
        DEF JoinInv, HereUnlessLeft, OneReports, ApprovedIsAdded, LeaverHasLeft, At, Idle

LEMMA JoinStart == JoinInit => JoinInv
<1> SUFFICES ASSUME JoinInit PROVE JoinInv
  OBVIOUS
<1> DEFINE n == Cardinality(Users)
<1>1. n \in Nat
  BY FS_CardinalityType, JoinAssumption
<1>2. members \in [1..n -> Users] /\ Listed(members) = Users
  BY DEF JoinInit
<1>3. IsFiniteSet(1..n) /\ Cardinality(1..n) = n
  BY <1>1, FS_Interval
<1>4. members \in Surjection(1..n, Users)
  BY <1>2 DEF Surjection, Listed
<1>5. members \in Injection(1..n, Users)
  BY <1>3, <1>4, FS_Surjection
<1>6. members \in Seq(Users) /\ DOMAIN members = 1..n
  BY <1>1, <1>2, SeqOf
<1>7. OneEntry
  BY <1>5, <1>6 DEF OneEntry, Injection, IsInjective
<1> QED BY <1>6, <1>7, NothingAskedYet DEF JoinInit, TeamStates

LEMMA JoinInvariance == JoinInv /\ [JoinNext]_joinVars => JoinInv'
<1> SUFFICES ASSUME JoinInv, [JoinNext]_joinVars PROVE JoinInv'
  OBVIOUS
<1>1. ASSUME NEW h \in Handlers, NEW u \in Users, NEW op \in Ops, NEW id \in 0..MaxRequests,
             Begin(h, u, op, id)
      PROVE  JoinInv'
  BY <1>1, BeginStep
<1>2. ASSUME NEW h \in Handlers, Load(h) PROVE JoinInv'
  BY <1>2, ReadTeamsStep, ListStep, PageStep, CloseStep, RelistStep DEF Load
<1>3. ASSUME NEW h \in Handlers, Act(h) PROVE JoinInv'
  BY <1>3, RequestStep, WithdrawStep, EndorseStep, DeclineStep, AddStep, ApproveStep DEF Act
<1>4. ASSUME NEW h \in Handlers, Fail(h) PROVE JoinInv'
  BY <1>4, FailStep
<1>5. ASSUME NEW u \in Users, Leave(u) \/ Join(u) \/ EditTeamMember(u) PROVE JoinInv'
  BY <1>5, LeaveStep, JoinStep, EditTeamMemberStep
<1>6. ASSUME NEW state \in TeamStates, EditTeam(state) PROVE JoinInv'
  BY <1>6, EditTeamStep
<1>7. CASE UNCHANGED joinVars
  BY <1>7, TeamStep DEF joinVars, JoinInv, JoinTypeOK
<1> QED BY <1>1, <1>2, <1>3, <1>4, <1>5, <1>6, <1>7 DEF JoinNext

\* The inductive invariant: with what it says of the members' list and of what the
\* handlers in flight have read, what is claimed of the requests' rows.
THEOREM JoinInvariant == JoinSpec => []JoinInv
BY JoinStart, JoinInvariance, PTL DEF JoinSpec

\* Every variable has its type, and a handler speaks of rows that exist.
THEOREM JoinTypeCorrect == JoinSpec => []JoinTypeOK
<1>1. JoinInv => JoinTypeOK
  BY DEF JoinInv
<1> QED BY <1>1, JoinInvariant, PTL

\* However many handlers settle and close one request at once, those of one person
\* among them, one that reports its success has settled it alone, and reads what it did.
THEOREM OneReportsForever == JoinSpec => []OneReports
<1>1. JoinInv => OneReports
  BY DEF JoinInv
<1> QED BY <1>1, JoinInvariant, PTL

\* Every approved request's member was added to the team for that request.
THEOREM ApprovedWereAdded == JoinSpec => []ApprovedIsAdded
<1>1. JoinInv => ApprovedIsAdded
  BY DEF JoinInv
<1> QED BY <1>1, JoinInvariant, PTL

\* Whoever's request is closed for having left has left since, if the auth service
\* lists the community on one page.
THEOREM LeaversLeft == JoinSpec => []LeaverHasLeft
<1>1. JoinInv => LeaverHasLeft
  BY DEF JoinInv
<1> QED BY <1>1, JoinInvariant, PTL

-----------------------------------------------------------------------------
\* What a step may do to the rows there are.
Settling ==
    \A i \in Ids : requests[i].status # "pending" =>
       /\ requests'[i].status = requests[i].status
       /\ requests'[i].reason = requests[i].reason
       /\ requests'[i].decider = requests[i].decider

LEMMA SettlingStep ==
    ASSUME JoinInv, NEW u, NEW i \in Ids, NEW status,
           requests' = Settled(i, status, u)
    PROVE  Settling
<1>1. requests \in [Ids -> RowType]
  BY Typed DEF JoinInv
<1> QED BY <1>1 DEF Settling, Settled, Pending, RowType

LEMMA ClosingStep == ASSUME JoinInv, NEW h \in Handlers, CloseStale(h) PROVE Settling
<1>1. \A i \in Ids \ Pending : requests'[i] = requests[i]
  BY DEF CloseStale
<1> QED BY <1>1 DEF Settling, Pending

LEMMA EndorsingStep == ASSUME JoinInv, NEW h \in Handlers, Endorse(h) PROVE Settling
<1>1. requests \in [Ids -> RowType]
  BY Typed DEF JoinInv
<1>2. PICK i \in Ids : requests' = [requests EXCEPT ![i].endorsers = @ \cup {By(h)}]
  BY ActsOnARow DEF Endorse, OfARow
<1> QED BY <1>1, <1>2 DEF Settling, RowType

LEMMA RequestingStep == ASSUME JoinInv, NEW h \in Handlers, RequestToJoin(h) PROVE Settling
<1> DEFINE row == [requester |-> By(h), status |-> "pending", decider |-> NULL,
                   reason |-> NULL, endorsers |-> {}]
<1>1. requests \in Seq(RowType) /\ row \in RowType /\ requests' = Append(requests, row)
  <2>1. By(h) \in Users
    BY DEF JoinInv, Knows, RequestToJoin, At, By
  <2> QED BY <2>1 DEF JoinInv, JoinTypeOK, RequestToJoin, RowType, Statuses
<1> HIDE DEF row
<1>2. \A i \in Ids : requests'[i] = requests[i]
  BY <1>1, AppendProperties, LenProperties DEF Ids
<1> QED BY <1>2 DEF Settling

LEMMA SettlesOnce == JoinInv /\ [JoinNext]_joinVars => [Settling]_requests
<1> SUFFICES ASSUME JoinInv, [JoinNext]_joinVars PROVE Settling \/ UNCHANGED requests
  OBVIOUS
<1>1. ASSUME NEW h \in Handlers, Load(h) PROVE Settling \/ UNCHANGED requests
  BY <1>1, ClosingStep DEF Load, ReadTeams, ListRequests, ReadPage, Relist
<1>2. ASSUME NEW h \in Handlers, Withdraw(h) \/ Decline(h) PROVE Settling
  <2>1. call[h].id \in Ids
    BY <1>2, ActsOnARow DEF Withdraw, Decline, OfARow, Settles
  <2> QED BY <1>2, <2>1, SettlingStep DEF Withdraw, Decline
<1>3. ASSUME NEW h \in Handlers, Approve(h) PROVE Settling
  <2>1. call[h].id \in Ids
    BY <1>3 DEF JoinInv, Knows, Approve, At
  <2> QED BY <1>3, <2>1, SettlingStep DEF Approve
<1>4. ASSUME NEW h \in Handlers, Act(h) PROVE Settling \/ UNCHANGED requests
  BY <1>2, <1>3, <1>4, EndorsingStep, RequestingStep DEF Act, AddMember
<1>5. ASSUME NEW h \in Handlers,
             Fail(h) \/ \E u \in Users, op \in Ops, id \in 0..MaxRequests : Begin(h, u, op, id)
      PROVE  UNCHANGED requests
  BY <1>5 DEF Begin, Fail
<1>6. ASSUME NEW u \in Users, Leave(u) \/ Join(u) \/ EditTeamMember(u)
      PROVE  UNCHANGED requests
  BY <1>6 DEF Leave, Join, EditTeamMember
<1>7. ASSUME NEW state \in TeamStates, EditTeam(state) PROVE UNCHANGED requests
  BY <1>7 DEF EditTeam
<1>8. CASE UNCHANGED joinVars
  BY <1>8 DEF joinVars
<1> QED BY <1>1, <1>4, <1>5, <1>6, <1>7, <1>8 DEF JoinNext

\* A request that is no longer pending never changes its status, its reason or
\* who decided it, whatever settles and closures arrive late.
SettledForGood == [][Settling]_requests

\* What became of a request, why, and who decided stays: a settle or a closure that
\* comes late finds the row settled and writes nothing.
THEOREM SettledOnce == JoinSpec => SettledForGood
<1>1. JoinInv /\ [JoinNext]_joinVars => [Settling]_requests
  BY SettlesOnce
<1>2. JoinSpec => [][Settling]_requests
  BY <1>1, JoinInvariant, PTL DEF JoinSpec
<1> QED BY <1>2 DEF SettledForGood
-----------------------------------------------------------------------------
(* The handlers keep the promise                                           *)

\* What is shown of a row.
Show(row) == [requester |-> row.requester, status |-> row.status,
              decider |-> row.decider, reason |-> row.reason]

\* What a settle shows: one step, or nothing if the row was settled before.
LEMMA SettleShown ==
    ASSUME JoinInv, NEW i \in Ids, NEW status, NEW u,
           requests' = Settled(i, status, u), UNCHANGED past
    PROVE  Promise!Settle(i, status, u) \/ UNCHANGED Promise!requestVars
<1>1. requests \in [Ids -> RowType]
  BY Typed DEF JoinInv
<1>2. CASE i \notin Pending
  BY <1>2 DEF Settled, Promise!requestVars, Shown, AddedFor, LeftSince, Ids
<1>3. CASE i \in Pending
  <2>1. requests' = [requests EXCEPT ![i].status = status, ![i].decider = u]
    BY <1>3 DEF Settled
  <2>2. Ids' = Ids /\ UNCHANGED <<AddedFor, LeftSince>>
    BY <1>1, <2>1 DEF Ids, AddedFor, LeftSince
  <2>3. Promise!IsPending(i)
    BY <1>3 DEF Promise!IsPending, Shown, Pending
  <2>4. \A j \in Ids : /\ Shown'[j] = Show(requests'[j]) /\ Shown[j] = Show(requests[j])
                       /\ j # i => requests'[j] = requests[j]
    BY <1>1, <2>1, <2>2 DEF Shown, Show
  <2>5. /\ requests'[i].requester = requests[i].requester /\ requests'[i].status = status
        /\ requests'[i].decider = u /\ requests'[i].reason = requests[i].reason
    BY <1>1, <2>1 DEF RowType
  <2>6. Shown'[i] = Promise!Request(Shown[i].requester, status, u, Shown[i].reason)
    <3>1. Shown'[i] = Show(requests'[i]) /\ Shown[i] = Show(requests[i])
      BY <2>4
    <3>2. /\ Shown[i].requester = requests[i].requester
          /\ Shown[i].reason = requests[i].reason
      BY <3>1 DEF Show
    <3> QED BY <2>5, <3>1, <3>2 DEF Show, Promise!Request
  <2>7. Shown' = [Shown EXCEPT ![i] = Promise!Request(@.requester, status, u, @.reason)]
    <3> DEFINE new == Promise!Request(Shown[i].requester, status, u, Shown[i].reason)
    <3>1. Shown = [j \in Ids |-> Shown[j]] /\ Shown' = [j \in Ids |-> Shown'[j]]
      BY <2>2 DEF Shown
    <3>2. \A j \in Ids : Shown'[j] = IF j = i THEN new ELSE Shown[j]
      BY <2>4, <2>6
    <3> HIDE DEF new
    <3>3. Shown' = [Shown EXCEPT ![i] = new]
      BY <3>1, <3>2
    <3> QED BY <3>3 DEF new
  <2> QED BY <2>2, <2>3, <2>7 DEF Promise!Settle
<1> QED BY <1>2, <1>3

LEMMA WithdrawShown ==
    ASSUME JoinInv, NEW h \in Handlers, Withdraw(h)
    PROVE  Promise!RequestNext \/ UNCHANGED Promise!requestVars
<1> DEFINE i == call[h].id
           u == By(h)
<1>1. /\ i \in Ids /\ requests[i].requester = u
      /\ requests' = Settled(i, "withdrawn", u) /\ UNCHANGED past
  BY ActsOnARow DEF Withdraw, Own, OfARow, Settles
<1> HIDE DEF i, u
<1>2. Shown[i].requester = u /\ i \in DOMAIN Shown
  BY <1>1 DEF Shown
<1>3. Promise!Settle(i, "withdrawn", u) => Promise!Withdraw(i)
  BY <1>2 DEF Promise!Withdraw
<1> QED BY <1>1, <1>2, <1>3, SettleShown DEF Promise!RequestNext

LEMMA DeclineShown ==
    ASSUME JoinInv, NEW h \in Handlers, Decline(h)
    PROVE  Promise!RequestNext \/ UNCHANGED Promise!requestVars
<1> DEFINE i == call[h].id
           u == By(h)
<1>1. /\ i \in Ids /\ u \in Reviewers
      /\ requests' = Settled(i, "declined", u) /\ UNCHANGED past
  BY ActsOnARow DEF Decline, OfARow, Settles
<1> HIDE DEF i, u
<1>2. i \in DOMAIN Shown /\ u \in Users
  BY <1>1, JoinAssumption DEF Shown
<1>3. Promise!Settle(i, "declined", u) => Promise!Decline(i, u)
  BY <1>1 DEF Promise!Decline
<1> QED BY <1>1, <1>2, <1>3, SettleShown DEF Promise!RequestNext

LEMMA ApproveShown ==
    ASSUME JoinInv, NEW h \in Handlers, Approve(h)
    PROVE  Promise!RequestNext \/ UNCHANGED Promise!requestVars
<1> DEFINE i == call[h].id
           u == By(h)
<1>1. /\ i \in Ids /\ u \in Reviewers /\ past[i].added = TRUE
      /\ requests' = Settled(i, "approved", u) /\ UNCHANGED past
  BY DEF Approve, At, By, JoinInv, Knows
<1> HIDE DEF i, u
<1>2. i \in DOMAIN Shown /\ i \in AddedFor /\ u \in Users
  BY <1>1, JoinAssumption DEF Shown, AddedFor
<1>3. Promise!Settle(i, "approved", u) => Promise!Approve(i, u)
  BY <1>1, <1>2 DEF Promise!Approve
<1> QED BY <1>1, <1>2, <1>3, SettleShown DEF Promise!RequestNext

LEMMA CloseShown ==
    ASSUME JoinInv, NEW h \in Handlers, CloseStale(h)
    PROVE  Promise!RequestNext
<1>1. PICK why \in {cl[2] : cl \in call[h].closing} :
        LET now == {cl \in call[h].closing : cl[2] = why}
        IN  requests' = [i \in Ids |->
                  IF Closes(i, now) /\ i \in Pending
                  THEN [requests[i] EXCEPT !.status = "closed", !.reason = why]
                  ELSE requests[i]]
  BY DEF CloseStale
<1> DEFINE now == {cl \in call[h].closing : cl[2] = why}
           closed == {i \in Pending : Closes(i, now)}
<1>2. call[h] \in CallType /\ Knows(call[h], Ids, past) /\ why \in Reasons
  BY DEF JoinInv, JoinTypeOK, CallType
<1>3. requests \in [Ids -> RowType] /\ Pending \subseteq Ids /\ past \in [Ids -> PastType]
  BY Typed DEF JoinInv
<1>4. Ids' = Ids /\ UNCHANGED past /\ UNCHANGED <<AddedFor, LeftSince>>
  BY <1>1 DEF CloseStale, Ids, AddedFor, LeftSince
<1>5. closed \subseteq DOMAIN Shown /\ \A i \in closed : Promise!IsPending(i)
  BY <1>3 DEF Shown, Pending, Promise!IsPending
<1>6. PageSize >= Cardinality(Users) /\ why = "requester_left" => closed \subseteq LeftSince
  BY <1>2, <1>3 DEF Knows, OnePage, Closes, LeftSince
<1>7. \A i \in Ids : requests'[i] = IF i \in closed
        THEN [requests[i] EXCEPT !.status = "closed", !.reason = why] ELSE requests[i]
  BY <1>1
<1> HIDE DEF closed
<1>8. DOMAIN Shown = Ids /\ Shown' = [i \in Ids |-> Shown'[i]]
  BY <1>4 DEF Shown
<1>9. \A i \in Ids : Shown'[i] = IF i \in closed
        THEN Promise!Request(Shown[i].requester, "closed", Shown[i].decider, why)
        ELSE Shown[i]
  <2>1. \A i \in Ids : Shown'[i] = Show(requests'[i]) /\ Shown[i] = Show(requests[i])
    BY <1>4 DEF Shown, Show
  <2>2. ASSUME NEW i \in closed
        PROVE  /\ requests'[i].requester = requests[i].requester
               /\ requests'[i].status = "closed" /\ requests'[i].reason = why
               /\ requests'[i].decider = requests[i].decider
    <3>1. /\ requests'[i] = [requests[i] EXCEPT !.status = "closed", !.reason = why]
          /\ requests[i] \in RowType
      BY <1>3, <1>5, <1>7, <1>8
    <3> QED BY <3>1 DEF RowType
  <2>3. \A i \in closed : Shown'[i] =
          Promise!Request(Shown[i].requester, "closed", Shown[i].decider, why)
    BY <1>5, <1>8, <2>1, <2>2 DEF Show, Promise!Request
  <2>4. \A i \in Ids \ closed : Shown'[i] = Shown[i]
    BY <1>7, <2>1
  <2> QED BY <2>3, <2>4
<1>10. Promise!Close(closed, why)
  BY <1>4, <1>5, <1>6, <1>8, <1>9 DEF Promise!Close
<1> QED BY <1>2, <1>5, <1>10 DEF Promise!RequestNext

LEMMA EndorseShown ==
    ASSUME JoinInv, NEW h \in Handlers, Endorse(h)
    PROVE  UNCHANGED Promise!requestVars
<1>1. requests \in [Ids -> RowType]
  BY Typed DEF JoinInv
<1>2. PICK i \in Ids : requests' = [requests EXCEPT ![i].endorsers = @ \cup {By(h)}]
  BY ActsOnARow DEF Endorse, OfARow
<1>3. Ids' = Ids /\ UNCHANGED past
  BY <1>1, <1>2 DEF Ids, Endorse
<1>4. Shown' = Shown
  BY <1>1, <1>2, <1>3 DEF Shown, RowType
<1> QED BY <1>3, <1>4 DEF Promise!requestVars, AddedFor, LeftSince

LEMMA AddShown ==
    ASSUME JoinInv, NEW h \in Handlers, AddMember(h)
    PROVE  Promise!RequestNext
<1> DEFINE i == call[h].id
<1>1. /\ i \in Ids /\ UNCHANGED requests /\ past' = [past EXCEPT ![i].added = TRUE]
      /\ past \in [Ids -> PastType]
  BY Typed, ActsOnARow DEF AddMember, JoinInv, OfARow, Settles
<1> HIDE DEF i
<1>2. Ids' = Ids /\ Shown' = Shown
  BY <1>1 DEF Ids, Shown
<1>3. AddedFor' = AddedFor \cup {i} /\ LeftSince' = LeftSince
  BY <1>1, <1>2 DEF AddedFor, LeftSince, PastType
<1>4. i \in DOMAIN Shown
  BY <1>1 DEF Shown
<1> QED BY <1>2, <1>3, <1>4 DEF Promise!RequestNext, Promise!AddToTeam

LEMMA RequestShown ==
    ASSUME JoinInv, NEW h \in Handlers, RequestToJoin(h)
    PROVE  Promise!RequestNext
<1> DEFINE n == Len(requests)
           u == By(h)
           row == [requester |-> u, status |-> "pending", decider |-> NULL,
                   reason |-> NULL, endorsers |-> {}]
           new == Promise!Request(u, "pending", NULL, NULL)
           hist == [left |-> ~IsMember(u), added |-> FALSE]
<1>1. /\ n \in Nat /\ Len(past) = n /\ Ids = 1..n /\ Pending \subseteq Ids
      /\ requests \in Seq(RowType) /\ past \in Seq(PastType)
  BY Typed DEF JoinInv, JoinTypeOK, PastType
<1>2. row \in RowType /\ hist \in PastType /\ u \in Users
  <2>1. u \in Users
    BY DEF JoinInv, Knows, RequestToJoin, At, By
  <2> QED BY <2>1 DEF RowType, PastType, Statuses
<1>3. /\ row.requester = u /\ row.status = "pending" /\ row.decider = NULL
      /\ row.reason = NULL /\ hist.added = FALSE /\ hist.left \in BOOLEAN
  OBVIOUS
<1>4. /\ requests' = Append(requests, row) /\ past' = Append(past, hist) /\ Admits(u)
  BY DEF RequestToJoin
<1> HIDE DEF row, hist, u
<1>5. /\ Ids' = 1..(n + 1)
      /\ \A i \in Ids : requests'[i] = requests[i] /\ past'[i] = past[i]
      /\ requests'[n + 1] = row /\ past'[n + 1] = hist
  BY <1>1, <1>2, <1>4, AppendProperties, LenProperties DEF Ids
<1> HIDE DEF n
<1>6. Ids' = Ids \cup {n + 1} /\ n + 1 \notin Ids
  BY <1>1, <1>5
<1>7. \A i \in DOMAIN Shown : Promise!IsPending(i) => Shown[i].requester # u
  BY <1>4 DEF Promise!IsPending, Shown, Admits, Own, Pending
<1>8. Shown' = Append(Shown, new)
  <2>1. Shown \in Seq({Shown[i] : i \in Ids}) /\ Len(Shown) = n
    <3> DEFINE S == {Shown[i] : i \in Ids}
    <3>1. Shown \in [1..n -> S]
      BY <1>1 DEF Shown
    <3> HIDE DEF S
    <3>2. Shown \in Seq(S) /\ Len(Shown) = n
      BY <1>1, <3>1, SeqOf
    <3> QED BY <3>2 DEF S
  <2>2. \A i \in Ids : Shown'[i] = Shown[i]
    BY <1>5, <1>6 DEF Shown
  <2>3. Shown'[n + 1] = new
    BY <1>3, <1>5, <1>6 DEF Shown, Promise!Request
  <2>4. DOMAIN Shown' = 1..(n + 1) /\ Shown' = [i \in 1..(n + 1) |-> Shown'[i]]
    BY <1>5 DEF Shown
  <2> HIDE DEF new
  <2> QED BY <1>1, <2>1, <2>2, <2>3, <2>4
<1>9. AddedFor' = AddedFor
  BY <1>3, <1>5, <1>6 DEF AddedFor
<1>10. LeftSince' \in {LeftSince, LeftSince \cup {n + 1}}
  BY <1>3, <1>5, <1>6 DEF LeftSince
<1>11. Len(Shown) = n
  BY <1>1 DEF Shown
<1>12. Promise!Ask(u)
  BY <1>7, <1>8, <1>9, <1>10, <1>11 DEF Promise!Ask
<1> QED BY <1>2, <1>12 DEF Promise!RequestNext

LEMMA LeaveShown ==
    ASSUME JoinInv, NEW u \in Users, Leave(u)
    PROVE  Promise!RequestNext
<1>1. /\ UNCHANGED requests /\ past \in [Ids -> PastType]
      /\ past' = [i \in Ids |-> IF Own(i, u) THEN [past[i] EXCEPT !.left = TRUE] ELSE past[i]]
  BY Typed DEF Leave, JoinInv
<1>2. Ids' = Ids /\ Shown' = Shown
  BY <1>1 DEF Ids, Shown
<1>3. \A i \in Ids : past'[i].added = past[i].added
                     /\ past'[i].left = (Own(i, u) \/ past[i].left)
  BY <1>1 DEF PastType
<1>4. AddedFor' = AddedFor
  BY <1>2, <1>3 DEF AddedFor
<1>5. LeftSince' = LeftSince \cup {i \in DOMAIN Shown : Shown[i].requester = u}
  BY <1>2, <1>3 DEF LeftSince, Shown, Own
<1>6. Promise!Depart(u)
  BY <1>2, <1>4, <1>5 DEF Promise!Depart
<1> QED BY <1>6 DEF Promise!RequestNext

\* A step that leaves the rows and their histories alone is invisible.
LEMMA NothingShown ==
    ASSUME UNCHANGED <<requests, past>>
    PROVE  UNCHANGED Promise!requestVars
BY DEF Promise!requestVars, Shown, AddedFor, LeftSince, Ids

LEMMA StepShown ==
    JoinInv /\ [JoinNext]_joinVars => [Promise!RequestNext]_(Promise!requestVars)
<1> SUFFICES ASSUME JoinInv, [JoinNext]_joinVars
             PROVE  Promise!RequestNext \/ UNCHANGED Promise!requestVars
  OBVIOUS
<1>1. ASSUME NEW h \in Handlers, Load(h)
      PROVE  Promise!RequestNext \/ UNCHANGED Promise!requestVars
  BY <1>1, CloseShown, NothingShown DEF Load, ReadTeams, ListRequests, ReadPage, Relist
<1>2. ASSUME NEW h \in Handlers, Act(h)
      PROVE  Promise!RequestNext \/ UNCHANGED Promise!requestVars
  BY <1>2, RequestShown, WithdrawShown, EndorseShown, DeclineShown, AddShown, ApproveShown
  DEF Act
<1>3. ASSUME NEW u \in Users, Leave(u) PROVE Promise!RequestNext
  BY <1>3, LeaveShown
<1>4. ASSUME NEW h \in Handlers,
             Fail(h) \/ \E u \in Users, op \in Ops, id \in 0..MaxRequests : Begin(h, u, op, id)
      PROVE  UNCHANGED Promise!requestVars
  BY <1>4, NothingShown DEF Begin, Fail
<1>5. ASSUME NEW u \in Users, Join(u) \/ EditTeamMember(u)
      PROVE  UNCHANGED Promise!requestVars
  BY <1>5, NothingShown DEF Join, EditTeamMember
<1>6. ASSUME NEW state \in TeamStates, EditTeam(state)
      PROVE  UNCHANGED Promise!requestVars
  BY <1>6, NothingShown DEF EditTeam
<1>7. CASE UNCHANGED joinVars
  BY <1>7, NothingShown DEF joinVars
<1> QED BY <1>1, <1>2, <1>3, <1>4, <1>5, <1>6, <1>7 DEF JoinNext

LEMMA StartShown == JoinInit => Promise!RequestInit
BY DEF JoinInit, NothingAsked, Promise!RequestInit, Shown, AddedFor, LeftSince, Ids

(***************************************************************************)
(* Whatever members, requests and teams a handler has read some calls ago, *)
(* what it writes is one step of the promise on the row as it is by then,  *)
(* or nothing.                                                             *)
(***************************************************************************)
THEOREM RequestsRefined == JoinSpec => ImplementsRequests
<1> QED BY StartShown, StepShown, JoinInvariant, PTL
        DEF JoinSpec, ImplementsRequests, Promise!RequestSpec

-----------------------------------------------------------------------------
(* With the check-ins, as the run has it                                   *)

LEMMA MembersStart == MembersInit => AttInv /\ JoinInv
<1>1. CASE JoinInit /\ AttInit
  BY <1>1, AttStart, JoinStart
<1>2. CASE AttInit /\ members = <<>> /\ team = "planned" /\ NothingAsked
  <2>1. members \in Seq(Users) /\ OneEntry /\ team \in TeamStates
    BY <1>2 DEF OneEntry, TeamStates
  <2> QED BY <1>2, <2>1, AttStart, NothingAskedYet
<1> QED BY <1>1, <1>2 DEF MembersInit

\* Whichever part moves, the invariants of both hold.
LEMMA MembersStep ==
    AttInv /\ JoinInv /\ [MembersNext]_membersVars => (AttInv /\ JoinInv)'
<1> SUFFICES ASSUME AttInv, JoinInv, [MembersNext]_membersVars PROVE AttInv' /\ JoinInv'
  OBVIOUS
<1>1. [AttNext]_attVars /\ [JoinNext]_joinVars
  BY DEF MembersNext, membersVars
<1> QED BY <1>1, AttInvariance, JoinInvariance

(***************************************************************************)
(* Every variable of the check-ins and of the requests keeps its type,     *)
(* whichever of the two moves.                                             *)
(***************************************************************************)
THEOREM MembersTypeCorrect == MembersSpec => []MembersTypeOK
<1>1. AttInv /\ JoinInv => MembersTypeOK
  BY DEF MembersTypeOK, AttInv, JoinInv
<1> QED BY <1>1, MembersStart, MembersStep, PTL DEF MembersSpec
=============================================================================
