------------------------- MODULE CommunitySetupProofs -------------------------
(***************************************************************************)
(* Proofs about setting up and releasing a community, for any number of    *)
(* admins, organizations, nodes and versions.                              *)
(***************************************************************************)
EXTENDS CommunityProperties, SequenceTheorems, TLAPS

(***************************************************************************)
(* The inductive invariant.  A release decides on what it reads, and       *)
(* deletes later: what its decision was based on must stay true, whatever  *)
(* other handlers do.  An organization that carries the stamp of this      *)
(* application and not the mark of an adopted one was created by it, and   *)
(* so was a node that carries the link.                                    *)
(***************************************************************************)
OrgsTold ==
  payloadOrg = None =>
    \A o \in Live(orgs) :
      orgs[o].proposal /\ ~orgs[o].linked => orgs[o].ours

NodesTold == \A n \in Live(nodes) : nodes[n].linked => nodes[n].ours

\* What handler a is about to delete is this setup's.
DeletesOurs(a) ==
  /\ api[a].at = "deleteOrg" =>
       \A o \in Live(orgs) : o = api[a].org => orgs[o].ours
  /\ api[a].at = "deleteNode" =>
       \A n \in Live(nodes) : n = api[a].node => nodes[n].ours
  /\ api[a].at \in {"releaseNode", "deleteNode", "releaseOrg", "deleteOrg"}
       => api[a].org = None \/ payloadOrg = None

IInv ==
  /\ TypeOK
  /\ OneCommunity
  /\ OrgsTold
  /\ NodesTold
  /\ \A a \in Admins : DeletesOurs(a)
-----------------------------------------------------------------------------
\* Replacing an entry of a sequence, which need not be there.
LEMMA Replaced ==
  ASSUME NEW S, NEW s \in Seq(S), NEW i, NEW e, i \in 1..Len(s) => e \in S
  PROVE  /\ [s EXCEPT ![i] = e] \in Seq(S)
         /\ Len([s EXCEPT ![i] = e]) = Len(s)
         /\ \A j \in 1..Len(s) :
              [s EXCEPT ![i] = e][j] = IF j = i THEN e ELSE s[j]
<1> DEFINE t == [s EXCEPT ![i] = e]
<1>1. s \in [1..Len(s) -> S] /\ Len(s) \in Nat
  BY LenProperties, ElementOfSeq
<1>2. t \in [1..Len(s) -> S]
  BY <1>1
<1>3. t \in Seq(S) /\ Len(t) = Len(s)
  BY <1>1, <1>2, IsASeq
<1>4. \A j \in 1..Len(s) : t[j] = IF j = i THEN e ELSE s[j]
  BY <1>1
<1>5. QED
  BY <1>3, <1>4

\* The sequences the initial states have.
LEMMA OneOrNone ==
  ASSUME NEW S, NEW e \in S
  PROVE  /\ <<>> \in Seq(S) /\ Len(<<>>) = 0
         /\ <<e>> \in Seq(S) /\ Len(<<e>>) = 1
  OBVIOUS

LEMMA Initially == Init => IInv
<1> SUFFICES ASSUME Init PROVE IInv
  OBVIOUS
<1>1. \/ orgs = <<>> /\ payloadOrg = None
      \/ orgs = <<SomeonesOrg>> /\ payloadOrg \in {None, 1}
  BY DEF Init
<1>2. SomeonesOrg \in Org /\ payloadOrg \in OrgId \cup {None}
  BY <1>1, ConstantsAssumption DEF SomeonesOrg, Org, OrgId
<1>3. orgs \in Seq(Org \cup {None}) /\ Len(orgs) <= MaxOrgs
  <2>1. SomeonesOrg \in Org \cup {None}
    BY <1>2
  <2>2. 0 <= MaxOrgs /\ 1 <= MaxOrgs
    BY ConstantsAssumption
  <2>3. QED
    BY <1>1, <2>1, <2>2, OneOrNone
<1>4. SomeonesNode(payloadOrg) \in Node
  BY <1>2 DEF SomeonesNode, Node
<1>5. nodes = <<>> \/ nodes = <<SomeonesNode(payloadOrg)>>
  BY DEF Init
<1>6. nodes \in Seq(Node \cup {None}) /\ Len(nodes) <= MaxNodes
  <2>1. SomeonesNode(payloadOrg) \in Node \cup {None}
    BY <1>4
  <2>2. 0 <= MaxNodes /\ 1 <= MaxNodes
    BY ConstantsAssumption
  <2>3. QED
    BY <1>5, <2>1, <2>2, OneOrNone
<1>7. tab \in [Admins -> Tab] /\ api \in [Admins -> Handler]
  BY DEF Init, NoTab, NoHandler, Tab, Handler, TabState
<1>8. TypeOK
  BY <1>2, <1>3, <1>6, <1>7 DEF Init, TypeOK, Stage
<1>9. Live(orgs) \subseteq {1} /\ Live(nodes) \subseteq {1}
  BY <1>1, <1>5 DEF Live
<1>10. OneCommunity
  BY <1>9 DEF OneCommunity
<1>11. OrgsTold
  BY <1>1, <1>9 DEF OrgsTold, SomeonesOrg, Live
<1>12. NodesTold
  BY <1>5, <1>9 DEF NodesTold, SomeonesNode, Live
<1>13. \A a \in Admins : DeletesOurs(a)
  BY DEF Init, NoHandler, DeletesOurs
<1>14. QED
  BY <1>8, <1>10, <1>11, <1>12, <1>13 DEF IInv
-----------------------------------------------------------------------------
\* A handler whose place changes, with no organization or node changed.
LEMMA HandlerMoves ==
  ASSUME IInv, NEW a \in Admins, UNCHANGED <<payloadOrg, orgs, nodes>>,
         \A b \in Admins : b # a => api'[b] = api[b],
         DeletesOurs(a)'
  PROVE  OneCommunity' /\ OrgsTold' /\ NodesTold'
           /\ \A b \in Admins : DeletesOurs(b)'
<1>1. OneCommunity' /\ OrgsTold' /\ NodesTold'
  BY DEF IInv, OneCommunity, OrgsTold, NodesTold, Live
<1>2. ASSUME NEW b \in Admins PROVE DeletesOurs(b)'
  <2>1. CASE b = a
    BY <2>1
  <2>2. CASE b # a
    BY <2>2 DEF IInv, DeletesOurs, Live
  <2>3. QED
    BY <2>1, <2>2
<1>3. QED
  BY <1>1, <1>2

\* An entry of orgs replaced by one that was as much created by this setup.
LEMMA OrgReplaced ==
  ASSUME IInv, NEW o, NEW e, o \in Live(orgs) => e \in Org \cup {None},
         o \in Live(orgs) /\ e # None =>
           /\ e.ours = orgs[o].ours
           /\ payloadOrg = None /\ e.proposal /\ ~e.linked => e.ours,
         o \in 1..Len(orgs) /\ o \notin Live(orgs) => e = None,
         orgs' = [orgs EXCEPT ![o] = e], UNCHANGED <<payloadOrg, nodes>>,
         \A b \in Admins :
           \/ api'[b] = api[b]
           \/ api'[b].at \in {"idle"} \cup ApplyState
  PROVE  /\ orgs' \in Seq(Org \cup {None}) /\ Len(orgs') <= MaxOrgs
         /\ OneCommunity' /\ OrgsTold' /\ NodesTold'
         /\ \A b \in Admins : DeletesOurs(b)'
<1>1. orgs \in Seq(Org \cup {None}) /\ Len(orgs) <= MaxOrgs /\ Len(orgs) \in Nat
  BY LenProperties DEF IInv, TypeOK
<1>2. o \in 1..Len(orgs) => e \in Org \cup {None}
  BY DEF Live
<1>3. /\ orgs' \in Seq(Org \cup {None}) /\ Len(orgs') = Len(orgs)
      /\ \A j \in 1..Len(orgs) : orgs'[j] = IF j = o THEN e ELSE orgs[j]
  BY <1>1, <1>2, Replaced
<1>4. \A p \in Live(orgs') :
        /\ p \in Live(orgs)
        /\ orgs'[p] = IF p = o THEN e ELSE orgs[p]
  BY <1>1, <1>3 DEF Live
<1>5. OneCommunity' /\ NodesTold'
  BY DEF IInv, OneCommunity, NodesTold, Live
<1>6. OrgsTold'
  BY <1>3, <1>4 DEF IInv, OrgsTold, Live
<1>7. ASSUME NEW b \in Admins PROVE DeletesOurs(b)'
  BY <1>4 DEF IInv, DeletesOurs, Live, ApplyState
<1>8. QED
  BY <1>1, <1>3, <1>5, <1>6, <1>7

\* An entry of nodes replaced by one that was as much created by this setup.
LEMMA NodeReplaced ==
  ASSUME IInv, NEW n, NEW e, n \in Live(nodes) => e \in Node \cup {None},
         n \in Live(nodes) /\ e # None =>
           e.ours = nodes[n].ours /\ (e.linked => nodes[n].linked),
         n \in 1..Len(nodes) /\ n \notin Live(nodes) => e = None,
         nodes' = [nodes EXCEPT ![n] = e], UNCHANGED <<payloadOrg, orgs>>,
         \A b \in Admins :
           \/ api'[b] = api[b]
           \/ api'[b].at = "releaseOrg" /\ api'[b].org = api[b].org
                                        /\ api[b].at = "deleteNode"
  PROVE  /\ nodes' \in Seq(Node \cup {None}) /\ Len(nodes') <= MaxNodes
         /\ OneCommunity' /\ OrgsTold' /\ NodesTold'
         /\ \A b \in Admins : DeletesOurs(b)'
<1>1. /\ nodes \in Seq(Node \cup {None}) /\ Len(nodes) <= MaxNodes
      /\ Len(nodes) \in Nat
  BY LenProperties DEF IInv, TypeOK
<1>2. n \in 1..Len(nodes) => e \in Node \cup {None}
  BY DEF Live
<1>3. /\ nodes' \in Seq(Node \cup {None}) /\ Len(nodes') = Len(nodes)
      /\ \A j \in 1..Len(nodes) : nodes'[j] = IF j = n THEN e ELSE nodes[j]
  BY <1>1, <1>2, Replaced
<1>4. \A p \in Live(nodes') :
        /\ p \in Live(nodes)
        /\ nodes'[p] = IF p = n THEN e ELSE nodes[p]
  BY <1>1, <1>3 DEF Live
<1>5. OneCommunity' /\ OrgsTold'
  BY <1>4 DEF IInv, OneCommunity, OrgsTold, Live
<1>6. NodesTold'
  BY <1>3, <1>4 DEF IInv, NodesTold, Live
<1>7. ASSUME NEW b \in Admins PROVE DeletesOurs(b)'
  BY <1>4 DEF IInv, DeletesOurs, Live
<1>8. QED
  BY <1>1, <1>3, <1>5, <1>6, <1>7

\* An organization is created, and its creator goes on with the setup.
LEMMA OrgAppended ==
  ASSUME IInv, NEW e \in Org, e.ours, Len(orgs) < MaxOrgs,
         orgs' = Append(orgs, e), UNCHANGED <<payloadOrg, nodes>>,
         \A b \in Admins : api'[b] = api[b] \/ api'[b].at = "staff"
  PROVE  /\ orgs' \in Seq(Org \cup {None}) /\ Len(orgs') <= MaxOrgs
         /\ OneCommunity' /\ OrgsTold' /\ NodesTold'
         /\ \A b \in Admins : DeletesOurs(b)'
<1>1. orgs \in Seq(Org \cup {None}) /\ Len(orgs) \in Nat /\ MaxOrgs \in Nat
  BY LenProperties, ConstantsAssumption DEF IInv, TypeOK
<1>2. /\ orgs' \in Seq(Org \cup {None}) /\ Len(orgs') = Len(orgs) + 1
      /\ \A j \in 1..Len(orgs) : orgs'[j] = orgs[j]
      /\ orgs'[Len(orgs) + 1] = e
  BY <1>1, AppendProperties
<1>3. \A p \in Live(orgs') :
        \/ p \in Live(orgs) /\ orgs'[p] = orgs[p]
        \/ orgs'[p] = e
  BY <1>1, <1>2 DEF Live
<1>4. OneCommunity' /\ NodesTold'
  BY DEF IInv, OneCommunity, NodesTold, Live
<1>5. OrgsTold'
  BY <1>3 DEF IInv, OrgsTold
<1>6. ASSUME NEW b \in Admins PROVE DeletesOurs(b)'
  BY <1>3 DEF IInv, DeletesOurs, Live
<1>7. QED
  BY <1>1, <1>2, <1>4, <1>5, <1>6

\* A node is created where there is none, and its creator goes on.
LEMMA NodeAppended ==
  ASSUME IInv, NEW e \in Node, e.ours, Len(nodes) < MaxNodes,
         Live(nodes) = {},
         nodes' = Append(nodes, e), UNCHANGED <<payloadOrg, orgs>>,
         \A b \in Admins : api'[b] = api[b] \/ api'[b].at = "recordNode"
  PROVE  /\ nodes' \in Seq(Node \cup {None}) /\ Len(nodes') <= MaxNodes
         /\ OneCommunity' /\ OrgsTold' /\ NodesTold'
         /\ \A b \in Admins : DeletesOurs(b)'
<1>1. nodes \in Seq(Node \cup {None}) /\ Len(nodes) \in Nat /\ MaxNodes \in Nat
  BY LenProperties, ConstantsAssumption DEF IInv, TypeOK
<1>2. /\ nodes' \in Seq(Node \cup {None}) /\ Len(nodes') = Len(nodes) + 1
      /\ \A j \in 1..Len(nodes) : nodes'[j] = nodes[j]
      /\ nodes'[Len(nodes) + 1] = e
  BY <1>1, AppendProperties
<1>3. \A p \in Live(nodes') : p = Len(nodes) + 1 /\ nodes'[p] = e
  BY <1>1, <1>2 DEF Live
<1>4. OneCommunity' /\ NodesTold'
  BY <1>3 DEF OneCommunity, NodesTold
<1>5. OrgsTold'
  BY DEF IInv, OrgsTold, Live
<1>6. ASSUME NEW b \in Admins PROVE DeletesOurs(b)'
  BY <1>3 DEF IInv, DeletesOurs, Live
<1>7. QED
  BY <1>1, <1>2, <1>4, <1>5, <1>6
-----------------------------------------------------------------------------
\* A step that leaves organizations, nodes and handlers alone.
LEMMA Outside ==
  ASSUME IInv, TypeOK', UNCHANGED <<payloadOrg, orgs, nodes, api>>
  PROVE  IInv'
BY DEF IInv, OneCommunity, OrgsTold, NodesTold, DeletesOurs, Live

\* Ids of what there is.
LEMMA Ids ==
  ASSUME TypeOK
  PROVE  Live(orgs) \subseteq OrgId /\ Live(nodes) \subseteq NodeId
<1>1. Len(orgs) \in Nat /\ Len(nodes) \in Nat
  BY LenProperties DEF TypeOK
<1>2. QED
  BY <1>1, ConstantsAssumption DEF TypeOK, Live, OrgId, NodeId

\* A tab or a handler that only goes on.
LEMMA TabGoesOn ==
  ASSUME TypeOK, NEW a \in Admins, NEW at \in TabState, GoTo(a, at)
  PROVE  tab' \in [Admins -> Tab]
BY DEF TypeOK, GoTo, Tab

LEMMA Idles ==
  ASSUME TypeOK, NEW a \in Admins
  PROVE  /\ NoTab \in Tab /\ NoHandler \in Handler
         /\ Leave(a) => tab' \in [Admins -> Tab]
         /\ [api EXCEPT ![a] = NoHandler] \in [Admins -> Handler]
<1>1. NoTab \in Tab /\ NoHandler \in Handler
  BY DEF NoTab, NoHandler, Tab, Handler, TabState
<1>2. QED
  BY <1>1 DEF TypeOK, Leave

LEMMA HandlerGoesOn ==
  ASSUME TypeOK, NEW a \in Admins,
         NEW at \in {"idle"} \cup ApplyState \cup ReleaseState, Proceed(a, at)
  PROVE  /\ api' \in [Admins -> Handler]
         /\ api'[a] = [api[a] EXCEPT !.at = at]
         /\ \A b \in Admins : b # a => api'[b] = api[b]
BY DEF TypeOK, Proceed, Handler

LEMMA TabSteps ==
  ASSUME IInv, NEW a \in Admins,
         Run(a) \/ Reject(a) \/ StartReject(a) \/ ApiError(a)
  PROVE  IInv'
<1> USE DEF Tab, Handler, TabState, Stage, ChangeStage, NoTab, NoHandler,
            vars, proposalVars
<1>1. TypeOK
  BY DEF IInv
<1>2. CASE Approve(a)
  <2>a. version + 1 \in Nat
    BY <1>1 DEF TypeOK
  <2>b. tab' \in [Admins -> Tab]
    BY <1>1, <1>2, <2>a DEF TypeOK, Approve
  <2>c. api' \in [Admins -> Handler]
    <3>1. api' = [api EXCEPT ![a].at = "check"] /\ api \in [Admins -> Handler]
      BY <1>1, <1>2 DEF TypeOK, Approve
    <3>2. "check" \in ApplyState
      BY DEF ApplyState
    <3>3. [api[a] EXCEPT !.at = "check"] \in Handler
      BY <3>1, <3>2
    <3>4. QED
      BY <3>1, <3>3
  <2>1. TypeOK'
    BY <1>1, <1>2, <2>a, <2>b, <2>c DEF TypeOK, Approve
  <2>2. DeletesOurs(a)'
    BY <1>1, <1>2 DEF TypeOK, Approve, DeletesOurs
  <2>3. \A b \in Admins : b # a => api'[b] = api[b]
    BY <1>1, <1>2 DEF TypeOK, Approve
  <2>4. QED
    BY <1>2, <2>1, <2>2, <2>3, HandlerMoves DEF Approve, IInv
<1>3. CASE CheckPublished(a)
  <2>1. TypeOK'
    <3>1. PICK at \in TabState : GoTo(a, at)
      BY <1>3 DEF CheckPublished
    <3>2. tab' \in [Admins -> Tab]
      BY <1>1, <3>1, TabGoesOn
    <3>3. QED
      BY <1>1, <1>3, <3>2 DEF TypeOK, CheckPublished
  <2>2. QED
    BY <1>3, <2>1, Outside DEF CheckPublished
<1>4. CASE ProposeConfig(a)
  <2>1. TypeOK'
    <3>1. GoTo(a, "confirming") /\ "confirming" \in TabState
      BY <1>4 DEF ProposeConfig
    <3>2. tab' \in [Admins -> Tab]
      BY <1>1, <3>1, TabGoesOn
    <3>3. QED
      BY <1>1, <1>4, <3>2 DEF TypeOK, ProposeConfig
  <2>2. QED
    BY <1>4, <2>1, Outside DEF ProposeConfig
<1>5. CASE ConfirmPublished(a)
  <2>1. TypeOK'
    <3>1. PICK at \in TabState : GoTo(a, at)
      BY <1>5 DEF ConfirmPublished
    <3>2. tab' \in [Admins -> Tab]
      BY <1>1, <3>1, TabGoesOn
    <3>3. QED
      BY <1>1, <1>5, <3>2 DEF TypeOK, ConfirmPublished
  <2>2. QED
    BY <1>5, <2>1, Outside DEF ConfirmPublished
<1>6. CASE MarkApplied(a)
  <2>1. TypeOK'
    <3>1. tab[a].node \in NodeId \cup {None}
      BY <1>1 DEF TypeOK
    <3>2. GoTo(a, "failing") \/ Leave(a)
      BY <1>6 DEF MarkApplied
    <3>3. tab' \in [Admins -> Tab]
      <4>1. "failing" \in TabState
        OBVIOUS
      <4>2. QED
        BY <1>1, <3>2, <4>1, TabGoesOn, Idles
    <3>4. stage' \in Stage /\ version' \in Nat
            /\ appliedNode' \in NodeId \cup {None}
      BY <1>1, <1>6, <3>1 DEF TypeOK, MarkApplied
    <3>5. QED
      BY <1>1, <1>6, <3>3, <3>4 DEF TypeOK, MarkApplied
  <2>2. QED
    BY <1>6, <2>1, Outside DEF MarkApplied
<1>7. CASE MarkApplyFailed(a)
  <2>1. TypeOK'
    BY <1>1, <1>7 DEF TypeOK, MarkApplyFailed, GoTo, Leave
  <2>2. QED
    BY <1>7, <2>1, Outside DEF MarkApplyFailed
<1>8. CASE TabError(a)
  <2>1. TypeOK'
    <3>1. tab' \in [Admins -> Tab]
      <4>1. "failing" \in TabState
        OBVIOUS
      <4>2. GoTo(a, "failing") \/ Leave(a)
        BY <1>8 DEF TabError
      <4>3. QED
        BY <1>1, <4>1, <4>2, TabGoesOn, Idles
    <3>2. QED
      BY <1>1, <1>8, <3>1 DEF TypeOK, TabError
  <2>2. QED
    BY <1>8, <2>1, Outside DEF TabError
<1>9. CASE Reject(a)
  <2>1. TypeOK'
    BY <1>1, <1>9 DEF TypeOK, Reject, GoTo, Leave
  <2>2. QED
    BY <1>9, <2>1, Outside DEF Reject
<1>10. CASE StartReject(a)
  <2>1. TypeOK'
    <3>1. tab' \in [Admins -> Tab]
      BY <1>1, <1>10 DEF TypeOK, StartReject
    <3>2. api' \in [Admins -> Handler]
      <4>1. CASE stage = "failed"
        <5>1. /\ api[a] \in Handler /\ version \in Nat
              /\ api' = [api EXCEPT ![a] =
                   [api[a] EXCEPT !.at = "releaseCheck", !.token = version]]
          BY <1>1, <1>10, <4>1 DEF TypeOK, StartReject
        <5>2. [api[a] EXCEPT !.at = "releaseCheck", !.token = version]
                \in Handler
          BY <5>1 DEF ReleaseState
        <5>3. QED
          BY <1>1, <5>1, <5>2 DEF TypeOK
      <4>2. CASE stage # "failed"
        BY <1>1, <1>10, <4>2 DEF TypeOK, StartReject
      <4>3. QED
        BY <4>1, <4>2
    <3>3. QED
      BY <1>1, <1>10, <3>1, <3>2 DEF TypeOK, StartReject
  <2>2. api[a].at = "idle" /\ DeletesOurs(a)'
    BY <1>1, <1>10 DEF TypeOK, StartReject, DeletesOurs, Free
  <2>3. \A b \in Admins : b # a => api'[b] = api[b]
    BY <1>1, <1>10 DEF TypeOK, StartReject
  <2>4. QED
    BY <1>10, <2>1, <2>2, <2>3, HandlerMoves DEF StartReject, IInv
<1>11. CASE ApiError(a)
  <2>1. TypeOK'
    <3>1. tab[a] \in Tab
      BY <1>1 DEF TypeOK
    <3>2. PICK t \in Tab : tab' = [tab EXCEPT ![a] = t]
      <4>1. CASE tab[a].at = "calling"
        BY <3>1, <4>1, <1>11 DEF ApiError
      <4>2. CASE tab[a].at = "releasing"
        BY <3>1, <4>2, <1>11, ConstantsAssumption DEF ApiError
      <4>3. CASE tab[a].at \notin {"calling", "releasing"}
        BY <3>1, <4>3, <1>11 DEF ApiError
      <4>4. QED
        BY <4>1, <4>2, <4>3
    <3>3. tab' \in [Admins -> Tab] /\ api' \in [Admins -> Handler]
      <4>1. tab' \in [Admins -> Tab]
        BY <1>1, <3>2 DEF TypeOK
      <4>2. api' \in [Admins -> Handler]
        BY <1>1, <1>11, Idles DEF ApiError
      <4>3. QED
        BY <4>1, <4>2
    <3>4. QED
      BY <1>1, <1>11, <3>3 DEF TypeOK, ApiError
  <2>2. DeletesOurs(a)'
    BY <1>1, <1>11 DEF TypeOK, ApiError, DeletesOurs
  <2>3. \A b \in Admins : b # a => api'[b] = api[b]
    BY <1>1, <1>11 DEF TypeOK, ApiError
  <2>4. QED
    BY <1>11, <2>1, <2>2, <2>3, HandlerMoves DEF ApiError, IInv
<1>12. QED
  BY <1>2, <1>3, <1>4, <1>5, <1>6, <1>7, <1>8, <1>9, <1>10, <1>11 DEF Run

\* A handler that only goes on, to a place from which nothing is deleted.
LEMMA OnlyGoesOn ==
  ASSUME IInv, NEW a \in Admins, NEW at \in ApplyState, Proceed(a, at),
         recordedOrg' \in OrgId \cup {None},
         UNCHANGED <<payloadOrg, stage, version, appliedNode, orgs, nodes,
                     config, tab>>
  PROVE  IInv'
<1>1. TypeOK
  BY DEF IInv
<1>2. /\ api' \in [Admins -> Handler]
      /\ api'[a] = [api[a] EXCEPT !.at = at]
      /\ \A b \in Admins : b # a => api'[b] = api[b]
  BY <1>1, HandlerGoesOn
<1>3. TypeOK'
  BY <1>1, <1>2 DEF TypeOK
<1>4. api[a] \in Handler
  BY <1>1 DEF TypeOK
<1>5. DeletesOurs(a)'
  BY <1>2, <1>4 DEF DeletesOurs, ApplyState, Handler
<1>6. QED
  BY <1>2, <1>3, <1>5, HandlerMoves DEF IInv

\* A setup handler takes an organization or a node it found.
LEMMA Takes ==
  ASSUME IInv, NEW a \in Admins, NEW h \in Handler, h.at \in ApplyState,
         api' = [api EXCEPT ![a] = h],
         UNCHANGED <<payloadOrg, proposalVars, orgs, nodes, config, tab>>
  PROVE  IInv'
<1>1. TypeOK' /\ (\A b \in Admins : b # a => api'[b] = api[b]) /\ api'[a] = h
  BY DEF IInv, TypeOK, proposalVars
<1>2. DeletesOurs(a)'
  BY <1>1 DEF DeletesOurs, ApplyState
<1>3. QED
  BY <1>1, <1>2, HandlerMoves DEF IInv

\* The organization a handler works on is bound, staffed or used.
LEMMA OrgUpdated ==
  ASSUME IInv, NEW o, NEW e, orgs[o] # None,
         orgs[o] \in Org => e \in Org /\ e.ours = orgs[o].ours
           /\ (payloadOrg = None /\ e.proposal /\ ~e.linked =>
                orgs[o].proposal /\ ~orgs[o].linked),
         orgs' = [orgs EXCEPT ![o] = e],
         UNCHANGED <<payloadOrg, proposalVars, nodes, config, tab>>,
         \/ UNCHANGED api
         \/ \E a \in Admins, at \in ApplyState : Proceed(a, at)
  PROVE  IInv'
<1>1. TypeOK
  BY DEF IInv
<1>2. o \in Live(orgs) => orgs[o] \in Org
  <2>1. orgs \in Seq(Org \cup {None})
    BY <1>1 DEF TypeOK
  <2>2. o \in 1..Len(orgs) => orgs[o] \in Org \cup {None}
    BY <2>1, ElementOfSeq
  <2>3. QED
    BY <2>2 DEF Live
<1> DEFINE Harmless ==
             \A b \in Admins :
               api'[b] = api[b] \/ api'[b].at \in {"idle"} \cup ApplyState
<1>3. api' \in [Admins -> Handler] /\ Harmless
  <2>1. CASE UNCHANGED api
    BY <1>1, <2>1 DEF TypeOK
  <2>2. ASSUME NEW a \in Admins, NEW at \in ApplyState, Proceed(a, at)
        PROVE  api' \in [Admins -> Handler] /\ Harmless
    <3>1. api[a] \in Handler
      BY <1>1 DEF TypeOK
    <3>2. /\ api' \in [Admins -> Handler]
          /\ api'[a] = [api[a] EXCEPT !.at = at]
          /\ \A b \in Admins : b # a => api'[b] = api[b]
      BY <1>1, <2>2, HandlerGoesOn
    <3>3. api'[a].at = at
      BY <3>1, <3>2 DEF Handler
    <3>4. QED
      BY <2>2, <3>2, <3>3
  <2>3. QED
    BY <2>1, <2>2
<1>4. /\ o \in Live(orgs) => e \in Org \cup {None}
      /\ o \in Live(orgs) /\ e # None =>
           /\ e.ours = orgs[o].ours
           /\ payloadOrg = None /\ e.proposal /\ ~e.linked => e.ours
      /\ o \in 1..Len(orgs) /\ o \notin Live(orgs) => e = None
  BY <1>2 DEF IInv, OrgsTold, Live
<1>5. /\ orgs' \in Seq(Org \cup {None}) /\ Len(orgs') <= MaxOrgs
      /\ OneCommunity' /\ OrgsTold' /\ NodesTold'
      /\ \A b \in Admins : DeletesOurs(b)'
  BY <1>3, <1>4, OrgReplaced
<1>6. TypeOK'
  BY <1>1, <1>3, <1>5 DEF TypeOK, proposalVars
<1>7. QED
  BY <1>5, <1>6 DEF IInv

LEMMA OrganizationSteps ==
  ASSUME IInv, NEW a \in Admins,
         \/ CheckApplying(a) \/ LookUpOrg(a) \/ CreateOrg(a) \/ BindOrg(a)
         \/ StaffOrg(a) \/ RecordOrg(a)
  PROVE  IInv'
<1>1. TypeOK /\ api[a] \in Handler
  BY DEF IInv, TypeOK
<1>2. Live(orgs) \subseteq OrgId /\ Live(nodes) \subseteq NodeId
  BY <1>1, Ids
<1>3. CASE CheckApplying(a)
  BY <1>1, <1>3, OnlyGoesOn DEF CheckApplying, proposalVars, ApplyState, TypeOK
<1>4. CASE LookUpOrg(a)
  <2>1. CASE Proceed(a, "create")
    BY <1>1, <1>4, <2>1, OnlyGoesOn
    DEF LookUpOrg, proposalVars, ApplyState, TypeOK
  <2>2. CASE ~Proceed(a, "create")
    <3>1. PICK o \in CandidateOrgs :
            api' = [api EXCEPT ![a].org = o,
                      ![a].at = IF payloadOrg = None /\ orgs[o].proposal
                                  THEN "staff" ELSE "bind"]
      BY <1>4, <2>2 DEF LookUpOrg
    <3>2. PICK at \in {"staff", "bind"} :
            api' = [api EXCEPT ![a] = [api[a] EXCEPT !.org = o, !.at = at]]
      BY <1>1, <3>1 DEF TypeOK
    <3>3. o \in OrgId
      BY <1>2 DEF CandidateOrgs
    <3>4. [api[a] EXCEPT !.org = o, !.at = at] \in Handler
      BY <1>1, <3>3 DEF Handler, ApplyState
    <3>5. [api[a] EXCEPT !.org = o, !.at = at].at \in ApplyState
      BY <1>1 DEF Handler, ApplyState
    <3>6. QED
      BY <1>4, <3>2, <3>4, <3>5, Takes DEF LookUpOrg
  <2>3. QED
    BY <2>1, <2>2
<1>5. CASE CreateOrg(a)
  <2>1. CASE Live(orgs) = {}
    <3> DEFINE e == [ours |-> TRUE, proposal |-> TRUE, linked |-> FALSE,
                     reviewer |-> a, others |-> FALSE]
               h == [api[a] EXCEPT !.at = "staff", !.org = Len(orgs) + 1]
    <3>1. /\ Len(orgs) < MaxOrgs
          /\ orgs' = Append(orgs, e)
          /\ api' = [api EXCEPT ![a] = h]
          /\ UNCHANGED <<payloadOrg, proposalVars, nodes, config, tab>>
      BY <1>1, <1>5, <2>1 DEF CreateOrg, TypeOK
    <3>2. e \in Org /\ e.ours
      BY DEF Org
    <3>3. Len(orgs) + 1 \in OrgId
      <4>1. Len(orgs) \in Nat
        BY <1>1, LenProperties DEF TypeOK
      <4>2. QED
        BY <3>1, <4>1, ConstantsAssumption DEF OrgId
    <3>4. h \in Handler /\ h.at = "staff"
      BY <1>1, <3>3 DEF Handler, ApplyState
    <3>5. /\ api' \in [Admins -> Handler]
          /\ \A b \in Admins : api'[b] = api[b] \/ api'[b].at = "staff"
      BY <1>1, <3>1, <3>4 DEF TypeOK
    <3>6. /\ orgs' \in Seq(Org \cup {None}) /\ Len(orgs') <= MaxOrgs
          /\ OneCommunity' /\ OrgsTold' /\ NodesTold'
          /\ \A b \in Admins : DeletesOurs(b)'
      BY <3>1, <3>2, <3>5, OrgAppended
    <3>7. TypeOK'
      BY <1>1, <3>1, <3>5, <3>6 DEF TypeOK, proposalVars
    <3>8. QED
      BY <3>6, <3>7 DEF IInv
  <2>2. CASE Live(orgs) # {}
    <3>1. PICK o \in Live(orgs) :
            /\ api' = [api EXCEPT ![a].at = "staff", ![a].org = o]
            /\ UNCHANGED orgs
      BY <1>5, <2>2 DEF CreateOrg
    <3>2. api' = [api EXCEPT ![a] = [api[a] EXCEPT !.at = "staff", !.org = o]]
      BY <1>1, <3>1 DEF TypeOK
    <3>3. /\ [api[a] EXCEPT !.at = "staff", !.org = o] \in Handler
          /\ [api[a] EXCEPT !.at = "staff", !.org = o].at \in ApplyState
      BY <1>1, <1>2 DEF Handler, ApplyState
    <3>4. QED
      BY <1>5, <3>1, <3>2, <3>3, Takes DEF CreateOrg
  <2>3. QED
    BY <2>1, <2>2
<1>6. CASE BindOrg(a)
  <2> DEFINE o == api[a].org
             e == [orgs[o] EXCEPT !.proposal = TRUE, !.reviewer = a,
                                  !.linked = orgs[o].linked \/ payloadOrg = None]
  <2>1. /\ orgs[o] # None
        /\ orgs' = [orgs EXCEPT ![o] = e]
        /\ Proceed(a, "staff")
        /\ UNCHANGED <<payloadOrg, proposalVars, nodes, config, tab>>
    BY <1>6 DEF BindOrg
  <2>2. orgs[o] \in Org => e \in Org /\ e.ours = orgs[o].ours
           /\ (payloadOrg = None => e.linked)
    BY DEF Org
  <2>3. "staff" \in ApplyState
    BY DEF ApplyState
  <2>4. QED
    BY <2>1, <2>2, <2>3, OrgUpdated
<1>7. CASE StaffOrg(a)
  <2> DEFINE o == api[a].org
             e == [orgs[o] EXCEPT !.others =
                                    orgs[o].others \/ orgs[o].reviewer # a]
  <2>1. /\ orgs[o] # None
        /\ orgs' = [orgs EXCEPT ![o] = e]
        /\ Proceed(a, "recordOrg")
        /\ UNCHANGED <<payloadOrg, proposalVars, nodes, config, tab>>
    BY <1>7 DEF StaffOrg
  <2>2. orgs[o] \in Org => e \in Org /\ e.ours = orgs[o].ours
           /\ e.proposal = orgs[o].proposal /\ e.linked = orgs[o].linked
    BY DEF Org
  <2>3. "recordOrg" \in ApplyState
    BY DEF ApplyState
  <2>4. QED
    BY <2>1, <2>2, <2>3, OrgUpdated
<1>8. CASE RecordOrg(a)
  <2>1. recordedOrg' \in OrgId \cup {None}
    BY <1>1, <1>8 DEF RecordOrg, TypeOK, Handler
  <2>2. QED
    BY <1>8, <2>1, OnlyGoesOn DEF RecordOrg, ApplyState
<1>9. QED
  BY <1>3, <1>4, <1>5, <1>6, <1>7, <1>8

\* A setup handler found the node of the application and goes on with it.
LEMMA NodeFound ==
  ASSUME IInv, NEW a \in Admins, NEW n \in Live(nodes), UseNode(a, n),
         UNCHANGED <<payloadOrg, proposalVars, orgs, nodes, config, tab>>
  PROVE  IInv'
<1> DEFINE h == [api[a] EXCEPT !.at = "recordNode", !.node = n]
<1>1. TypeOK /\ api[a] \in Handler
  BY DEF IInv, TypeOK
<1>2. n \in NodeId
  BY <1>1, Ids
<1>3. api' = [api EXCEPT ![a] = h]
  BY <1>1 DEF UseNode, TypeOK
<1>4. h \in Handler /\ h.at \in ApplyState
  BY <1>1, <1>2 DEF Handler, ApplyState
<1>5. QED
  BY <1>3, <1>4, Takes

LEMMA NodeSteps ==
  ASSUME IInv, NEW a \in Admins, FindNode(a) \/ InsertNode(a) \/ RecordNode(a)
  PROVE  IInv'
<1>1. TypeOK /\ api[a] \in Handler
  BY DEF IInv, TypeOK
<1>2. ProposalNodes(api[a].org) \subseteq Live(nodes)
  BY DEF ProposalNodes, LinkedNodes
<1>3. CASE FindNode(a)
  <2>1. CASE Proceed(a, "insertNode")
    BY <1>1, <1>3, <2>1, OnlyGoesOn
    DEF FindNode, proposalVars, ApplyState, TypeOK
  <2>2. CASE \E n \in ProposalNodes(api[a].org) : UseNode(a, n)
    BY <1>2, <1>3, <2>2, NodeFound DEF FindNode
  <2>3. QED
    BY <1>3, <2>1, <2>2 DEF FindNode
<1>4. CASE InsertNode(a)
  <2>1. CASE Live(nodes) = {}
    <3> DEFINE h == [api[a] EXCEPT !.at = "recordNode", !.node = Len(nodes) + 1]
    <3>1. /\ Len(nodes) < MaxNodes
          /\ nodes' = Append(nodes, NewNode(a))
          /\ api' = [api EXCEPT ![a] = h]
          /\ UNCHANGED <<payloadOrg, proposalVars, orgs, config, tab>>
      BY <1>1, <1>4, <2>1 DEF InsertNode, UseNode, TypeOK
    <3>2. NewNode(a) \in Node /\ NewNode(a).ours
      BY <1>1 DEF NewNode, Node, Handler
    <3>3. Len(nodes) + 1 \in NodeId
      <4>1. Len(nodes) \in Nat
        BY <1>1, LenProperties DEF TypeOK
      <4>2. QED
        BY <3>1, <4>1, ConstantsAssumption DEF NodeId
    <3>4. h \in Handler /\ h.at = "recordNode"
      BY <1>1, <3>3 DEF Handler, ApplyState
    <3>5. /\ api' \in [Admins -> Handler]
          /\ \A b \in Admins : api'[b] = api[b] \/ api'[b].at = "recordNode"
      BY <1>1, <3>1, <3>4 DEF TypeOK
    <3>6. /\ nodes' \in Seq(Node \cup {None}) /\ Len(nodes') <= MaxNodes
          /\ OneCommunity' /\ OrgsTold' /\ NodesTold'
          /\ \A b \in Admins : DeletesOurs(b)'
      BY <2>1, <3>1, <3>2, <3>5, NodeAppended
    <3>7. TypeOK'
      BY <1>1, <3>1, <3>5, <3>6 DEF TypeOK, proposalVars
    <3>8. QED
      BY <3>6, <3>7 DEF IInv
  <2>2. CASE Live(nodes) # {}
    BY <1>2, <1>4, <2>2, NodeFound DEF InsertNode
  <2>3. QED
    BY <2>1, <2>2
<1>5. CASE RecordNode(a)
  <2>1. api' \in [Admins -> Handler]
    BY <1>1, <1>5, Idles DEF RecordNode
  <2>2. tab' \in [Admins -> Tab]
    <3>1. CASE tab[a].at = "calling"
      <4>1. /\ tab[a] \in Tab
            /\ tab' = [tab EXCEPT ![a] = [tab[a] EXCEPT !.at = "publishing",
                                                        !.node = api[a].node]]
        BY <1>1, <1>5, <3>1 DEF RecordNode, TypeOK
      <4>2. [tab[a] EXCEPT !.at = "publishing", !.node = api[a].node] \in Tab
        BY <1>1, <4>1 DEF Tab, Handler, TabState
      <4>3. QED
        BY <1>1, <4>1, <4>2 DEF TypeOK
    <3>2. CASE tab[a].at # "calling"
      BY <1>1, <1>5, <3>2 DEF RecordNode, TypeOK
    <3>3. QED
      BY <3>1, <3>2
  <2>3. TypeOK'
    BY <1>1, <1>5, <2>1, <2>2 DEF RecordNode, TypeOK, proposalVars
  <2>4. DeletesOurs(a)' /\ \A b \in Admins : b # a => api'[b] = api[b]
    BY <1>1, <1>5 DEF RecordNode, TypeOK, DeletesOurs, NoHandler
  <2>5. QED
    BY <1>5, <2>3, <2>4, HandlerMoves DEF RecordNode, IInv
<1>6. QED
  BY <1>3, <1>4, <1>5

\* A release handler decided, and moves on; tabs may have moved too.
LEMMA Decides ==
  ASSUME IInv, NEW a \in Admins, api' \in [Admins -> Handler],
         tab' \in [Admins -> Tab], DeletesOurs(a)',
         \A b \in Admins : b # a => api'[b] = api[b],
         UNCHANGED <<payloadOrg, proposalVars, orgs, nodes, config>>
  PROVE  IInv'
<1>1. TypeOK'
  BY DEF IInv, TypeOK, proposalVars
<1>2. QED
  BY <1>1, HandlerMoves DEF IInv

\* What is left of the tab and the handler when the release is over.
LEMMA ReleaseOver ==
  ASSUME TypeOK, NEW a \in Admins, Released(a)
  PROVE  /\ tab' \in [Admins -> Tab] /\ api' \in [Admins -> Handler]
         /\ api'[a] = NoHandler
         /\ \A b \in Admins : b # a => api'[b] = api[b]
<1>1. /\ api' \in [Admins -> Handler] /\ api'[a] = NoHandler
      /\ \A b \in Admins : b # a => api'[b] = api[b]
  BY Idles DEF Released, TypeOK
<1>2. CASE tab[a].at = "releasing"
  <2>1. GoTo(a, "rejecting") /\ "rejecting" \in TabState
    BY <1>2 DEF Released, GoTo, TabState
  <2>2. QED
    BY <1>1, <2>1, TabGoesOn
<1>3. CASE tab[a].at # "releasing"
  BY <1>1, <1>3 DEF Released, TypeOK
<1>4. QED
  BY <1>2, <1>3

LEMMA ReleaseSteps ==
  ASSUME IInv, NEW a \in Admins,
         \/ ReleaseCheck(a) \/ ReleaseNode(a) \/ DeleteNode(a)
         \/ ReleaseOrg(a) \/ DeleteOrg(a)
  PROVE  IInv'
<1>1. TypeOK /\ api[a] \in Handler /\ tab \in [Admins -> Tab]
  BY DEF IInv, TypeOK
<1>2. DeletesOurs(a)
  BY DEF IInv
<1>3. CASE ReleaseCheck(a)
  <2> DEFINE h == [api[a] EXCEPT !.at = "releaseNode", !.token = 0,
                     !.org = IF payloadOrg = None THEN recordedOrg ELSE None]
  <2>1. /\ api' = [api EXCEPT ![a] = h]
        /\ UNCHANGED <<payloadOrg, proposalVars, orgs, nodes, config, tab>>
    BY <1>1, <1>3 DEF ReleaseCheck, TypeOK
  <2>2. h \in Handler /\ h.at = "releaseNode"
    BY <1>1 DEF Handler, ReleaseState, TypeOK
  <2>3. h.org = None \/ payloadOrg = None
    BY <1>1 DEF Handler
  <2>4. /\ api' \in [Admins -> Handler] /\ api'[a] = h
        /\ \A b \in Admins : b # a => api'[b] = api[b]
    BY <1>1, <2>1, <2>2 DEF TypeOK
  <2>5. DeletesOurs(a)'
    BY <2>1, <2>2, <2>3, <2>4 DEF DeletesOurs
  <2>6. QED
    BY <1>1, <2>1, <2>4, <2>5, Decides
<1>4. CASE ReleaseNode(a)
  <2>1. CASE Proceed(a, "releaseOrg")
    <3>1. /\ api' \in [Admins -> Handler]
          /\ api'[a] = [api[a] EXCEPT !.at = "releaseOrg"]
          /\ \A b \in Admins : b # a => api'[b] = api[b]
      BY <1>1, <2>1, HandlerGoesOn DEF ReleaseState
    <3>2. DeletesOurs(a)'
      BY <1>1, <1>2, <1>4, <3>1 DEF DeletesOurs, ReleaseNode, Handler
    <3>3. QED
      BY <1>1, <1>4, <3>1, <3>2, Decides DEF ReleaseNode
  <2>2. CASE ~Proceed(a, "releaseOrg")
    <3>1. PICK n \in Releasable :
            api' = [api EXCEPT ![a].at = "deleteNode", ![a].node = n]
      BY <1>4, <2>2 DEF ReleaseNode
    <3> DEFINE h == [api[a] EXCEPT !.at = "deleteNode", !.node = n]
    <3>2. n \in Live(nodes) /\ nodes[n].ours
      BY DEF Releasable, LinkedNodes, IInv, NodesTold
    <3>3. n \in NodeId
      BY <1>1, <3>2, Ids
    <3>4. api' = [api EXCEPT ![a] = h]
      BY <1>1, <3>1 DEF TypeOK
    <3>5. h \in Handler /\ h.at = "deleteNode" /\ h.node = n
            /\ h.org = api[a].org
      BY <1>1, <3>3 DEF Handler, ReleaseState
    <3>6. /\ api' \in [Admins -> Handler] /\ api'[a] = h
          /\ \A b \in Admins : b # a => api'[b] = api[b]
      BY <1>1, <3>4, <3>5 DEF TypeOK
    <3>7. DeletesOurs(a)'
      BY <1>2, <1>4, <3>2, <3>5, <3>6 DEF DeletesOurs, ReleaseNode
    <3>8. QED
      BY <1>1, <1>4, <3>6, <3>7, Decides DEF ReleaseNode
  <2>3. QED
    BY <2>1, <2>2
<1>5. CASE DeleteNode(a)
  <2>1. /\ api' \in [Admins -> Handler]
        /\ api'[a] = [api[a] EXCEPT !.at = "releaseOrg"]
        /\ \A b \in Admins : b # a => api'[b] = api[b]
    BY <1>1, <1>5, HandlerGoesOn DEF DeleteNode, ReleaseState
  <2>2. api'[a].at = "releaseOrg" /\ api'[a].org = api[a].org
    BY <1>1, <2>1 DEF Handler
  <2>3. \A b \in Admins :
          \/ api'[b] = api[b]
          \/ api'[b].at = "releaseOrg" /\ api'[b].org = api[b].org
                                       /\ api[b].at = "deleteNode"
    BY <1>5, <2>1, <2>2 DEF DeleteNode
  <2>4. /\ nodes' = [nodes EXCEPT ![api[a].node] = None]
        /\ UNCHANGED <<payloadOrg, orgs>>
    BY <1>5 DEF DeleteNode
  <2>5. /\ nodes' \in Seq(Node \cup {None}) /\ Len(nodes') <= MaxNodes
        /\ OneCommunity' /\ OrgsTold' /\ NodesTold'
        /\ \A b \in Admins : DeletesOurs(b)'
    BY <2>3, <2>4, NodeReplaced
  <2>6. TypeOK'
    BY <1>1, <1>5, <2>1, <2>5 DEF TypeOK, DeleteNode, proposalVars
  <2>7. QED
    BY <2>5, <2>6 DEF IInv
<1>6. CASE ReleaseOrg(a)
  <2>1. CASE Released(a)
    <3>1. DeletesOurs(a)'
      BY <1>1, <2>1, ReleaseOver DEF DeletesOurs, NoHandler
    <3>2. QED
      BY <1>1, <1>6, <2>1, <3>1, ReleaseOver, Decides DEF ReleaseOrg
  <2>2. CASE ~Released(a)
    <3>1. /\ api[a].org # None /\ Unused(api[a].org)
          /\ Proceed(a, "deleteOrg") /\ UNCHANGED tab
      BY <1>6, <2>2 DEF ReleaseOrg
    <3>2. /\ api' \in [Admins -> Handler]
          /\ api'[a] = [api[a] EXCEPT !.at = "deleteOrg"]
          /\ \A b \in Admins : b # a => api'[b] = api[b]
      BY <1>1, <3>1, HandlerGoesOn DEF ReleaseState
    <3>3. payloadOrg = None
      BY <1>2, <1>6, <3>1 DEF DeletesOurs, ReleaseOrg
    <3>4. \A o \in Live(orgs) : o = api[a].org => orgs[o].ours
      BY <3>1, <3>3 DEF Unused, IInv, OrgsTold
    <3>5. api'[a].at = "deleteOrg" /\ api'[a].org = api[a].org
      BY <1>1, <3>2 DEF Handler
    <3>6. DeletesOurs(a)'
      BY <1>6, <3>3, <3>4, <3>5 DEF DeletesOurs, ReleaseOrg, Live
    <3>7. QED
      BY <1>1, <1>6, <3>1, <3>2, <3>6, Decides DEF ReleaseOrg
  <2>3. QED
    BY <2>1, <2>2
<1>7. CASE DeleteOrg(a)
  <2>1. /\ orgs' = [orgs EXCEPT ![api[a].org] = None] /\ Released(a)
        /\ UNCHANGED <<payloadOrg, proposalVars, nodes, config>>
    BY <1>7 DEF DeleteOrg
  <2>2. /\ tab' \in [Admins -> Tab] /\ api' \in [Admins -> Handler]
        /\ \A b \in Admins :
             api'[b] = api[b] \/ api'[b].at \in {"idle"} \cup ApplyState
    BY <1>1, <2>1, ReleaseOver DEF NoHandler
  <2>3. /\ orgs' \in Seq(Org \cup {None}) /\ Len(orgs') <= MaxOrgs
        /\ OneCommunity' /\ OrgsTold' /\ NodesTold'
        /\ \A b \in Admins : DeletesOurs(b)'
    BY <2>1, <2>2, OrgReplaced
  <2>4. TypeOK'
    BY <1>1, <2>1, <2>2, <2>3 DEF TypeOK, proposalVars
  <2>5. QED
    BY <2>3, <2>4 DEF IInv
<1>8. QED
  BY <1>3, <1>4, <1>5, <1>6, <1>7

\* What everybody else does.
OthersStep ==
  \/ Reopen \/ CloseVote
  \/ \E o \in 1..Len(orgs) : UseOrg(o)
  \/ \E n \in 1..Len(nodes) : SpawnUnder(n) \/ ReplaceMetadata(n)

LEMMA OthersSteps == ASSUME IInv, OthersStep PROVE IInv'
<1>1. TypeOK /\ orgs \in Seq(Org \cup {None}) /\ nodes \in Seq(Node \cup {None})
  BY DEF IInv, TypeOK
<1>2. CASE Reopen
  <2>1. TypeOK'
    BY <1>1, <1>2 DEF TypeOK, Reopen, ChangeStage, Stage
  <2>2. QED
    BY <1>2, <2>1, Outside DEF Reopen
<1>3. CASE CloseVote
  <2>1. TypeOK'
    BY <1>1, <1>3 DEF TypeOK, CloseVote, proposalVars
  <2>2. QED
    BY <1>3, <2>1, Outside DEF CloseVote
<1>4. ASSUME NEW o \in 1..Len(orgs), UseOrg(o) PROVE IInv'
  <2> DEFINE e == [orgs[o] EXCEPT !.others = TRUE]
  <2>1. /\ orgs[o] # None /\ orgs' = [orgs EXCEPT ![o] = e]
        /\ UNCHANGED <<payloadOrg, proposalVars, nodes, config, tab>>
        /\ UNCHANGED api
    BY <1>4 DEF UseOrg
  <2>2. orgs[o] \in Org => e \in Org /\ e.ours = orgs[o].ours
          /\ e.proposal = orgs[o].proposal /\ e.linked = orgs[o].linked
    BY DEF Org
  <2>3. QED
    BY <2>1, <2>2, OrgUpdated
<1>5. ASSUME NEW n \in 1..Len(nodes), SpawnUnder(n) \/ ReplaceMetadata(n)
      PROVE  IInv'
  <2>1. nodes[n] \in Node /\ n \in Live(nodes)
    <3>1. nodes[n] # None
      BY <1>5 DEF SpawnUnder, ReplaceMetadata
    <3>2. QED
      BY <1>1, <3>1, ElementOfSeq DEF Live
  <2>2. PICK e \in Node : /\ nodes' = [nodes EXCEPT ![n] = e]
                          /\ e.ours = nodes[n].ours
                          /\ e.linked => nodes[n].linked
    <3>1. CASE SpawnUnder(n)
      <4>1. nodes' = [nodes EXCEPT ![n] = [nodes[n] EXCEPT !.children = TRUE]]
        BY <3>1 DEF SpawnUnder
      <4> DEFINE e == [nodes[n] EXCEPT !.children = TRUE]
      <4>2. e \in Node /\ e.ours = nodes[n].ours
              /\ (e.linked => nodes[n].linked)
        BY <2>1 DEF Node
      <4>3. QED
        BY <4>1, <4>2
    <3>2. CASE ReplaceMetadata(n)
      <4>1. nodes' = [nodes EXCEPT ![n] = [nodes[n] EXCEPT !.linked = FALSE]]
        BY <3>2 DEF ReplaceMetadata
      <4> DEFINE e == [nodes[n] EXCEPT !.linked = FALSE]
      <4>2. e \in Node /\ e.ours = nodes[n].ours
              /\ (e.linked => nodes[n].linked)
        BY <2>1 DEF Node
      <4>3. QED
        BY <4>1, <4>2
    <3>3. QED
      BY <1>5, <3>1, <3>2
  <2>3. UNCHANGED <<payloadOrg, proposalVars, orgs, config, tab, api>>
    BY <1>5 DEF SpawnUnder, ReplaceMetadata
  <2>4. /\ nodes' \in Seq(Node \cup {None}) /\ Len(nodes') <= MaxNodes
        /\ OneCommunity' /\ OrgsTold' /\ NodesTold'
        /\ \A b \in Admins : DeletesOurs(b)'
    BY <2>1, <2>2, <2>3, NodeReplaced
  <2>5. TypeOK'
    BY <1>1, <2>3, <2>4 DEF TypeOK, proposalVars
  <2>6. QED
    BY <2>4, <2>5 DEF IInv
<1>6. QED
  BY <1>2, <1>3, <1>4, <1>5 DEF OthersStep

LEMMA Inductive == IInv /\ [Next]_vars => IInv'
<1>1. ASSUME IInv, NEW a \in Admins,
             Run(a) \/ ApplyHandler(a) \/ Release(a) \/ ApiError(a)
      PROVE  IInv'
  BY <1>1, TabSteps, OrganizationSteps, NodeSteps, ReleaseSteps
  DEF ApplyHandler, Release
<1>2. ASSUME IInv, UNCHANGED vars PROVE IInv'
  <2>1. TypeOK'
    BY <1>2 DEF IInv, TypeOK, vars, proposalVars
  <2>2. QED
    BY <1>2, <2>1, Outside DEF vars
<1>3. QED
  BY <1>1, <1>2, OthersSteps DEF Next, OthersStep
-----------------------------------------------------------------------------
(***************************************************************************)
(* The state of every setup and release stays well formed, and the         *)
(* invariant above holds.                                                  *)
(***************************************************************************)
THEOREM Invariance == Spec => []IInv
<1>1. QED
  BY Initially, Inductive, PTL DEF Spec

THEOREM TypeCorrect == Spec => []TypeOK
<1>1. IInv => TypeOK
  BY DEF IInv
<1>2. QED
  BY <1>1, Invariance, PTL

(***************************************************************************)
(* However many admins set the application up at once, in whatever order   *)
(* their handlers look for a node and create one, there is one node.       *)
(***************************************************************************)
THEOREM SingleCommunity == Spec => []OneCommunity
<1>1. IInv => OneCommunity
  BY DEF IInv
<1>2. QED
  BY <1>1, Invariance, PTL

\* What a step does to what is there, one step at a time.
Spared ==
  /\ \A o \in Live(orgs) : orgs[o].ours \/ orgs'[o] # None
  /\ \A n \in Live(nodes) : nodes[n].ours \/ nodes'[n] # None

\* An organization that stays an organization.
LEMMA OrgStays ==
  ASSUME TypeOK, NEW o, NEW e, orgs[o] \in Org => e \in Org,
         orgs' = [orgs EXCEPT ![o] = e], UNCHANGED nodes
  PROVE  Spared
<1>1. orgs \in Seq(Org \cup {None})
  BY DEF TypeOK
<1>2. \A p \in Live(orgs) : orgs[p] \in Org
  BY <1>1, ElementOfSeq DEF Live
<1>3. \A p \in Live(orgs) : orgs'[p] # None
  BY <1>1, <1>2, NullAssumption DEF Live
<1>4. QED
  BY <1>3 DEF Spared, Live

LEMMA StepSpares ==
  ASSUME IInv, [Next]_vars
  PROVE  Spared
<1>1. TypeOK /\ Len(orgs) \in Nat /\ Len(nodes) \in Nat
  BY LenProperties DEF IInv, TypeOK
<1>2. CASE UNCHANGED <<orgs, nodes>>
  BY <1>2 DEF Spared, Live
<1>3. ASSUME NEW a \in Admins, CreateOrg(a) PROVE Spared
  <2>1. CASE UNCHANGED orgs
    BY <1>2, <1>3, <2>1 DEF CreateOrg
  <2>2. CASE ~UNCHANGED orgs
    <3>1. PICK e : orgs' = Append(orgs, e)
      BY <1>3, <2>2 DEF CreateOrg
    <3>2. \A o \in 1..Len(orgs) : orgs'[o] = orgs[o]
      BY <1>1, <3>1 DEF TypeOK
    <3>3. QED
      BY <1>3, <3>2 DEF Spared, Live, CreateOrg
  <2>3. QED
    BY <2>1, <2>2
<1>4. ASSUME NEW a \in Admins, BindOrg(a) PROVE Spared
  <2> DEFINE o == api[a].org
             e == [orgs[o] EXCEPT !.proposal = TRUE, !.reviewer = a,
                                  !.linked = orgs[o].linked \/ payloadOrg = None]
  <2>1. orgs' = [orgs EXCEPT ![o] = e] /\ UNCHANGED nodes
    BY <1>4 DEF BindOrg
  <2>2. orgs[o] \in Org => e \in Org
    BY DEF Org
  <2>3. QED
    BY <1>1, <2>1, <2>2, OrgStays
<1>5. ASSUME NEW a \in Admins, StaffOrg(a) PROVE Spared
  <2> DEFINE o == api[a].org
             e == [orgs[o] EXCEPT !.others =
                                    orgs[o].others \/ orgs[o].reviewer # a]
  <2>1. orgs' = [orgs EXCEPT ![o] = e] /\ UNCHANGED nodes
    BY <1>5 DEF StaffOrg
  <2>2. orgs[o] \in Org => e \in Org
    BY DEF Org
  <2>3. QED
    BY <1>1, <2>1, <2>2, OrgStays
<1>6. ASSUME NEW o, UseOrg(o) PROVE Spared
  <2> DEFINE e == [orgs[o] EXCEPT !.others = TRUE]
  <2>1. orgs' = [orgs EXCEPT ![o] = e] /\ UNCHANGED nodes
    BY <1>6 DEF UseOrg
  <2>2. orgs[o] \in Org => e \in Org
    BY DEF Org
  <2>3. QED
    BY <1>1, <2>1, <2>2, OrgStays
<1>7. ASSUME NEW a \in Admins, InsertNode(a) PROVE Spared
  <2>1. CASE UNCHANGED nodes
    BY <1>2, <1>7, <2>1 DEF InsertNode
  <2>2. CASE ~UNCHANGED nodes
    <3>1. nodes' = Append(nodes, NewNode(a))
      BY <1>7, <2>2 DEF InsertNode
    <3>2. \A n \in 1..Len(nodes) : nodes'[n] = nodes[n]
      BY <1>1, <3>1 DEF TypeOK
    <3>3. QED
      BY <1>7, <3>2 DEF Spared, Live, InsertNode
  <2>3. QED
    BY <2>1, <2>2
<1>8. ASSUME NEW n, SpawnUnder(n) \/ ReplaceMetadata(n) PROVE Spared
  <2>1. PICK e : nodes' = [nodes EXCEPT ![n] = e]
                   /\ (nodes[n] \in Node => e \in Node)
    <3> DEFINE parent == [nodes[n] EXCEPT !.children = TRUE]
               unlinked == [nodes[n] EXCEPT !.linked = FALSE]
    <3>1. nodes[n] \in Node => parent \in Node /\ unlinked \in Node
      BY DEF Node
    <3>2. \/ nodes' = [nodes EXCEPT ![n] = parent]
          \/ nodes' = [nodes EXCEPT ![n] = unlinked]
      BY <1>8 DEF SpawnUnder, ReplaceMetadata
    <3>3. QED
      BY <3>1, <3>2
  <2>2. \A m \in Live(nodes) : nodes[m] \in Node /\ m \in DOMAIN nodes
    BY <1>1, ElementOfSeq DEF Live, TypeOK
  <2>3. \A m \in Live(nodes) : nodes'[m] # None
    BY <1>1, <2>1, <2>2, NullAssumption DEF Live
  <2>4. QED
    BY <1>8, <2>3 DEF Spared, Live, SpawnUnder, ReplaceMetadata
<1>9. ASSUME NEW a \in Admins, DeleteNode(a) PROVE Spared
  <2>1. \A n \in Live(nodes) : n = api[a].node => nodes[n].ours
    BY <1>9 DEF DeleteNode, IInv, DeletesOurs
  <2>2. \A n \in Live(nodes) : n # api[a].node => nodes'[n] = nodes[n]
    BY <1>1, <1>9 DEF DeleteNode, Live, TypeOK
  <2>3. QED
    BY <1>9, <2>1, <2>2 DEF Spared, Live, DeleteNode
<1>10. ASSUME NEW a \in Admins, DeleteOrg(a) PROVE Spared
  <2>1. \A o \in Live(orgs) : o = api[a].org => orgs[o].ours
    BY <1>10 DEF DeleteOrg, IInv, DeletesOurs
  <2>2. \A o \in Live(orgs) : o # api[a].org => orgs'[o] = orgs[o]
    BY <1>1, <1>10 DEF DeleteOrg, Live, TypeOK
  <2>3. QED
    BY <1>10, <2>1, <2>2 DEF Spared, Live, DeleteOrg
<1>11. ASSUME NEW a \in Admins,
              Run(a) \/ ApplyHandler(a) \/ Release(a) \/ ApiError(a)
       PROVE  Spared
  <2>1. CASE Run(a)
    BY <1>2, <2>1 DEF Run, Approve, CheckPublished, ProposeConfig,
       ConfirmPublished, MarkApplied, MarkApplyFailed, TabError
  <2>2. CASE ApplyHandler(a)
    BY <1>2, <1>3, <1>4, <1>5, <1>7, <2>2
    DEF ApplyHandler, CheckApplying, LookUpOrg, RecordOrg, FindNode, RecordNode
  <2>3. CASE Release(a)
    BY <1>2, <1>9, <1>10, <2>3
    DEF Release, StartReject, ReleaseCheck, ReleaseNode, ReleaseOrg, Reject
  <2>4. CASE ApiError(a)
    BY <1>2, <2>4 DEF ApiError
  <2>5. QED
    BY <1>11, <2>1, <2>2, <2>3, <2>4
<1>12. CASE UNCHANGED vars
  BY <1>2, <1>12 DEF vars
<1>13. CASE Reopen \/ CloseVote
  BY <1>2, <1>13 DEF Reopen, CloseVote
<1>14. QED
  BY <1>6, <1>8, <1>11, <1>12, <1>13 DEF Next

(***************************************************************************)
(* A release deletes only what this setup created, whatever the admins'    *)
(* handlers, members, nodes and metadata edits do between its decision and *)
(* its deletion.                                                           *)
(***************************************************************************)
THEOREM OthersAreKept == Spec => OthersKept
<1>1. IInv /\ [Next]_vars => [Spared]_<<orgs, nodes>>
  BY StepSpares
<1>2. QED
  BY <1>1, Invariance, PTL DEF Spec, OthersKept, Spared
-----------------------------------------------------------------------------
(***************************************************************************)
(* Why an applied application is whole and a rejected one left no node,    *)
(* while no release has raced a setup.  Nothing is deleted under a setup,  *)
(* so the organization a handler took and the node it or its tab found are *)
(* still there; and nothing is created under a release, so once it has     *)
(* dealt with the node, no node without communities is left.               *)
(***************************************************************************)
NoSetup == \A a \in Admins : api[a].at \notin ApplyState

Whole(n) ==
  n \in Live(nodes) /\ (nodes[n].children \/ nodes[n].org \in Live(orgs))

NothingLeft == \A n \in LinkedNodes : nodes[n].children

\* What handler a knows.
HandlerKnows(a) ==
  /\ api[a].at \in {"bind", "staff", "recordOrg", "findNode", "insertNode"}
       => api[a].org \in Live(orgs)
  /\ api[a].at = "recordNode" => Whole(api[a].node)
  /\ api[a].at = "deleteNode" => \A n \in LinkedNodes : n = api[a].node
  /\ api[a].at \in {"releaseOrg", "deleteOrg"} => NothingLeft

\* What tab a knows, if its token is still the version.
TabKnows(a) ==
  /\ tab[a].at \in {"publishing", "proposing", "confirming", "finishing"}
       /\ OwnsAttempt(a) => Whole(tab[a].node)
  /\ tab[a].at = "rejecting" /\ stage \in {"pending", "failed"}
       /\ version = tab[a].token => NoSetup /\ NothingLeft

Unraced ==
  /\ ~(Releasing /\ SettingUp)
  /\ \A n \in LinkedNodes : Whole(n)
  /\ \A a \in Admins : HandlerKnows(a)
  /\ \A a \in Admins : TabKnows(a)
  /\ stage \in {"pending", "rejected"} => NoSetup /\ NothingLeft
  /\ stage = "applied" => Whole(appliedNode)

\* Holds of every step, raced or not.
Tokens ==
  /\ \A a \in Admins : tab[a].token <= version
  /\ \A a \in Admins : tab[a].at = "finishing" => config = "published"
  /\ stage = "applied" => config = "published"

HistoryInv == IInv /\ Tokens /\ (~raced => Unraced)

\* Node n is as it was, but for more communities under it or no link.
NodeKept(n) ==
  /\ n \in Live(nodes') /\ nodes'[n].org = nodes[n].org
  /\ nodes[n].children => nodes'[n].children
  /\ nodes'[n].linked => nodes[n].linked

LEMMA OrgsEvolve ==
  ASSUME IInv, [Next]_vars, NEW o \in Live(orgs)
  PROVE  o \in Live(orgs') \/ \E a \in Admins : DeleteOrg(a)
<1>1. /\ TypeOK /\ Len(orgs) \in Nat /\ orgs \in Seq(Org \cup {None})
      /\ o \in 1..Len(orgs) /\ orgs[o] \in Org
  BY LenProperties, ElementOfSeq DEF IInv, TypeOK, Live
<1>2. CASE UNCHANGED orgs
  BY <1>2
<1>3. ASSUME NEW e, NEW p, orgs' = [orgs EXCEPT ![p] = e],
             orgs[p] \in Org => e \in Org
      PROVE  o \in Live(orgs')
  <2>1. p \in 1..Len(orgs) => orgs[p] \in Org \cup {None}
    BY <1>1, ElementOfSeq
  <2>2. orgs'[o] \in Org
    BY <1>1, <1>3
  <2>3. Len(orgs') = Len(orgs)
    BY <1>1, <1>3
  <2> QED BY <1>1, <2>2, <2>3, NullAssumption DEF Live
<1>4. ASSUME NEW a \in Admins, CreateOrg(a) PROVE o \in Live(orgs')
  <2>1. CASE UNCHANGED orgs
    BY <2>1
  <2>2. CASE ~UNCHANGED orgs
    BY <1>4, <2>2 DEF CreateOrg
  <2> QED BY <2>1, <2>2
<1>5. ASSUME NEW a \in Admins, BindOrg(a) PROVE o \in Live(orgs')
  <2> DEFINE p == api[a].org
             e == [orgs[p] EXCEPT !.proposal = TRUE, !.reviewer = a,
                                  !.linked = orgs[p].linked \/ payloadOrg = None]
  <2>1. orgs' = [orgs EXCEPT ![p] = e]
    BY <1>5 DEF BindOrg
  <2>2. orgs[p] \in Org => e \in Org
    BY DEF Org
  <2> QED BY <1>3, <2>1, <2>2
<1>6. ASSUME NEW a \in Admins, StaffOrg(a) PROVE o \in Live(orgs')
  <2> DEFINE p == api[a].org
             e == [orgs[p] EXCEPT !.others =
                                    orgs[p].others \/ orgs[p].reviewer # a]
  <2>1. orgs' = [orgs EXCEPT ![p] = e]
    BY <1>6 DEF StaffOrg
  <2>2. orgs[p] \in Org => e \in Org
    BY DEF Org
  <2> QED BY <1>3, <2>1, <2>2
<1>7. ASSUME NEW p, UseOrg(p) PROVE o \in Live(orgs')
  <2> DEFINE e == [orgs[p] EXCEPT !.others = TRUE]
  <2>1. orgs' = [orgs EXCEPT ![p] = e]
    BY <1>7 DEF UseOrg
  <2>2. orgs[p] \in Org => e \in Org
    BY DEF Org
  <2> QED BY <1>3, <2>1, <2>2
<1>8. ASSUME NEW a \in Admins,
             Run(a) \/ ApplyHandler(a) \/ Release(a) \/ ApiError(a)
      PROVE  o \in Live(orgs') \/ \E b \in Admins : DeleteOrg(b)
  <2>1. CASE Run(a)
    BY <1>2, <2>1 DEF Run, Approve, CheckPublished, ProposeConfig,
       ConfirmPublished, MarkApplied, MarkApplyFailed, TabError
  <2>2. CASE ApplyHandler(a)
    BY <1>2, <1>4, <1>5, <1>6, <2>2
    DEF ApplyHandler, CheckApplying, LookUpOrg, RecordOrg, FindNode, InsertNode,
        RecordNode
  <2>3. CASE Release(a)
    BY <1>2, <2>3
    DEF Release, StartReject, ReleaseCheck, ReleaseNode, DeleteNode, ReleaseOrg,
        Reject
  <2>4. CASE ApiError(a)
    BY <1>2, <2>4 DEF ApiError
  <2> QED BY <1>8, <2>1, <2>2, <2>3, <2>4
<1>9. CASE UNCHANGED vars
  BY <1>2, <1>9 DEF vars
<1>10. CASE Reopen \/ CloseVote
  BY <1>2, <1>10 DEF Reopen, CloseVote
<1>11. ASSUME NEW n, SpawnUnder(n) \/ ReplaceMetadata(n) PROVE o \in Live(orgs')
  BY <1>2, <1>11 DEF SpawnUnder, ReplaceMetadata
<1> QED BY <1>7, <1>8, <1>9, <1>10, <1>11 DEF Next

\* What a step does to the nodes.
NodesStep ==
  /\ \A n \in Live(nodes) :
       NodeKept(n) \/ \E a \in Admins : DeleteNode(a) /\ n = api[a].node
  /\ \A n \in Live(nodes') :
       \/ n \in Live(nodes)
       \/ \E a \in Admins :
            InsertNode(a) /\ nodes'[n] = NewNode(a) /\ UNCHANGED orgs

LEMMA NodesEvolve ==
  ASSUME IInv, [Next]_vars
  PROVE  NodesStep
<1>1. TypeOK /\ Len(nodes) \in Nat /\ nodes \in Seq(Node \cup {None})
  BY LenProperties DEF IInv, TypeOK
<1>2. CASE UNCHANGED nodes
  BY <1>2 DEF NodesStep, NodeKept
<1>3. ASSUME NEW a \in Admins, InsertNode(a) PROVE NodesStep
  <2>1. CASE UNCHANGED nodes
    BY <1>2, <2>1
  <2>2. CASE ~UNCHANGED nodes
    <3>1. nodes' = Append(nodes, NewNode(a)) /\ UNCHANGED orgs
      BY <1>3, <2>2 DEF InsertNode
    <3>2. /\ Len(nodes') = Len(nodes) + 1
          /\ \A n \in 1..Len(nodes) : nodes'[n] = nodes[n]
          /\ nodes'[Len(nodes) + 1] = NewNode(a)
      BY <1>1, <3>1
    <3>3. \A n \in Live(nodes) : NodeKept(n)
      BY <1>1, <3>2 DEF NodeKept, Live
    <3>4. ASSUME NEW n \in Live(nodes')
          PROVE  n \in Live(nodes) \/ nodes'[n] = NewNode(a)
      BY <1>1, <3>2 DEF Live
    <3> QED BY <1>3, <3>1, <3>3, <3>4 DEF NodesStep
  <2> QED BY <2>1, <2>2
<1>4. ASSUME NEW n, SpawnUnder(n) \/ ReplaceMetadata(n), n \in 1..Len(nodes)
      PROVE  NodesStep
  <2>1. nodes[n] \in Node
    BY <1>1, <1>4, ElementOfSeq DEF SpawnUnder, ReplaceMetadata
  <2>2. PICK e \in Node :
          /\ nodes' = [nodes EXCEPT ![n] = e]
          /\ e.org = nodes[n].org /\ (nodes[n].children => e.children)
          /\ e.linked => nodes[n].linked
    <3> DEFINE parent == [nodes[n] EXCEPT !.children = TRUE]
               unlinked == [nodes[n] EXCEPT !.linked = FALSE]
    <3>1. parent \in Node /\ unlinked \in Node
      BY <2>1 DEF Node
    <3>2. \/ nodes' = [nodes EXCEPT ![n] = parent]
          \/ nodes' = [nodes EXCEPT ![n] = unlinked]
      BY <1>4 DEF SpawnUnder, ReplaceMetadata
    <3>3. /\ parent.org = nodes[n].org /\ parent.children /\ parent.linked = nodes[n].linked
          /\ unlinked.org = nodes[n].org /\ unlinked.children = nodes[n].children
          /\ ~unlinked.linked
      BY <2>1 DEF Node
    <3> QED BY <3>1, <3>2, <3>3
  <2>3. /\ Len(nodes') = Len(nodes)
        /\ \A m \in 1..Len(nodes) : nodes'[m] = IF m = n THEN e ELSE nodes[m]
    BY <1>1, <2>2
  <2>4. nodes[n] # None /\ e # None
    BY <2>1, NullAssumption
  <2> QED BY <2>2, <2>3, <2>4 DEF NodesStep, NodeKept, Live
<1>5. ASSUME NEW a \in Admins, DeleteNode(a) PROVE NodesStep
  <2>1. /\ Len(nodes') = Len(nodes)
        /\ \A m \in 1..Len(nodes) :
             nodes'[m] = IF m = api[a].node THEN None ELSE nodes[m]
    BY <1>1, <1>5 DEF DeleteNode
  <2> QED BY <1>5, <2>1 DEF NodesStep, NodeKept, Live
<1>6. ASSUME NEW a \in Admins,
             Run(a) \/ ApplyHandler(a) \/ Release(a) \/ ApiError(a)
      PROVE  NodesStep
  <2>1. CASE Run(a)
    BY <1>2, <2>1 DEF Run, Approve, CheckPublished, ProposeConfig,
       ConfirmPublished, MarkApplied, MarkApplyFailed, TabError
  <2>2. CASE ApplyHandler(a)
    BY <1>2, <1>3, <2>2
    DEF ApplyHandler, CheckApplying, LookUpOrg, CreateOrg, BindOrg, StaffOrg,
        RecordOrg, FindNode, RecordNode
  <2>3. CASE Release(a)
    BY <1>2, <1>5, <2>3
    DEF Release, StartReject, ReleaseCheck, ReleaseNode, ReleaseOrg, DeleteOrg,
        Reject
  <2>4. CASE ApiError(a)
    BY <1>2, <2>4 DEF ApiError
  <2> QED BY <1>6, <2>1, <2>2, <2>3, <2>4
<1>7. CASE UNCHANGED vars
  BY <1>2, <1>7 DEF vars
<1>8. CASE Reopen \/ CloseVote
  BY <1>2, <1>8 DEF Reopen, CloseVote
<1>9. ASSUME NEW o, UseOrg(o) PROVE NodesStep
  BY <1>2, <1>9 DEF UseOrg
<1> QED BY <1>4, <1>6, <1>7, <1>8, <1>9 DEF Next

WholeAfter(n) ==
  n \in Live(nodes') /\ (nodes'[n].children \/ nodes'[n].org \in Live(orgs'))

\* Nothing is deleted while no release is under way.
LEMMA Keeps ==
  ASSUME IInv, [Next]_vars, ~Releasing
  PROVE  /\ \A o \in Live(orgs) : o \in Live(orgs')
         /\ \A n : Whole(n) => WholeAfter(n)
<1>1. \A a \in Admins : ~DeleteOrg(a) /\ ~DeleteNode(a)
  BY DEF Releasing, ReleaseState, DeleteOrg, DeleteNode
<1>2. \A o \in Live(orgs) : o \in Live(orgs')
  BY <1>1, OrgsEvolve
<1>3. \A n \in Live(nodes) : NodeKept(n)
  BY <1>1, NodesEvolve DEF NodesStep
<1> QED BY <1>2, <1>3 DEF Whole, WholeAfter, NodeKept

\* Nothing is created while no setup is under way.
LEMMA Leaves ==
  ASSUME IInv, [Next]_vars, NoSetup
  PROVE  /\ \A n \in LinkedNodes' : n \in LinkedNodes
         /\ NothingLeft => NothingLeft'
<1>1. \A a \in Admins : ~InsertNode(a)
  BY DEF NoSetup, ApplyState, InsertNode
<1>2. \A n \in Live(nodes') : n \in Live(nodes)
  BY <1>1, NodesEvolve DEF NodesStep
<1>3. ASSUME NEW n \in Live(nodes') PROVE NodeKept(n)
  <2>1. n \in Live(nodes)
    BY <1>2
  <2>2. ASSUME NEW a \in Admins, DeleteNode(a), n = api[a].node PROVE FALSE
    <3>1. nodes \in Seq(Node \cup {None})
      BY DEF IInv, TypeOK
    <3>2. nodes' = [nodes EXCEPT ![n] = None] /\ n \in 1..Len(nodes)
      BY <2>1, <2>2 DEF DeleteNode, Live
    <3>3. nodes'[n] = None
      BY <3>1, <3>2
    <3> QED BY <3>3 DEF Live
  <2> QED BY <2>1, <2>2, NodesEvolve DEF NodesStep
<1> QED BY <1>2, <1>3 DEF LinkedNodes, NothingLeft, NodeKept

\* Every change of stage is one of version.
LEMMA VersionStep ==
  ASSUME IInv, [Next]_vars
  PROVE  \/ UNCHANGED <<stage, version, appliedNode>>
         \/ version' = version + 1
<1>1. ASSUME NEW a \in Admins,
             Run(a) \/ ApplyHandler(a) \/ Release(a) \/ ApiError(a)
      PROVE  \/ UNCHANGED <<stage, version, appliedNode>>
             \/ version' = version + 1
  <2>1. CASE Run(a)
    BY <2>1 DEF Run, Approve, CheckPublished, ProposeConfig, ConfirmPublished,
       MarkApplied, MarkApplyFailed, TabError, ChangeStage, proposalVars
  <2>2. CASE ApplyHandler(a)
    BY <2>2 DEF ApplyHandler, CheckApplying, LookUpOrg, CreateOrg, BindOrg,
       StaffOrg, RecordOrg, FindNode, InsertNode, RecordNode, proposalVars
  <2>3. CASE Release(a)
    BY <2>3 DEF Release, StartReject, ReleaseCheck, ReleaseNode, DeleteNode,
       ReleaseOrg, DeleteOrg, Reject, ChangeStage, proposalVars
  <2>4. CASE ApiError(a)
    BY <2>4 DEF ApiError, proposalVars
  <2> QED BY <1>1, <2>1, <2>2, <2>3, <2>4
<1> QED
  BY <1>1 DEF Next, vars, proposalVars, Reopen, CloseVote, ChangeStage, UseOrg,
     SpawnUnder, ReplaceMetadata

\* Handler a rests, is done, or takes one step of its own.
LEMMA HandlerOf ==
  ASSUME IInv, [Next]_vars, NEW a \in Admins
  PROVE  \/ api'[a] = api[a] \/ api'[a] = NoHandler
         \/ Approve(a) /\ api'[a].at = "check"
         \/ ApplyHandler(a) \/ StartReject(a) \/ ReleaseCheck(a)
         \/ ReleaseNode(a) \/ DeleteNode(a) \/ ReleaseOrg(a)
<1>1. api \in [Admins -> Handler] /\ api[a] \in Handler
  BY DEF IInv, TypeOK
<1>2. ASSUME NEW b \in Admins, b # a,
             Run(b) \/ ApplyHandler(b) \/ Release(b) \/ ApiError(b)
      PROVE  api'[a] = api[a]
  <2>1. CASE Run(b)
    BY <1>1, <1>2, <2>1 DEF Run, Approve, CheckPublished, ProposeConfig,
       ConfirmPublished, MarkApplied, MarkApplyFailed, TabError
  <2>2. CASE ApplyHandler(b)
    BY <1>1, <1>2, <2>2 DEF ApplyHandler, CheckApplying, LookUpOrg, CreateOrg,
       BindOrg, StaffOrg, RecordOrg, FindNode, InsertNode, RecordNode, Proceed,
       UseNode
  <2>3. CASE Release(b)
    BY <1>1, <1>2, <2>3 DEF Release, StartReject, ReleaseCheck, ReleaseNode,
       DeleteNode, ReleaseOrg, DeleteOrg, Reject, Proceed, Released
  <2>4. CASE ApiError(b)
    BY <1>1, <1>2, <2>4 DEF ApiError
  <2> QED BY <1>2, <2>1, <2>2, <2>3, <2>4
<1>3. CASE Run(a)
  BY <1>1, <1>3 DEF Run, Approve, CheckPublished, ProposeConfig,
     ConfirmPublished, MarkApplied, MarkApplyFailed, TabError, Handler
<1>4. CASE DeleteOrg(a) \/ Reject(a)
  BY <1>1, <1>4 DEF DeleteOrg, Reject, Released
<1>5. CASE ApiError(a)
  BY <1>1, <1>5 DEF ApiError
<1>6. CASE UNCHANGED vars \/ OthersStep
  BY <1>6 DEF vars, OthersStep, Reopen, CloseVote, UseOrg, SpawnUnder,
     ReplaceMetadata
<1> QED BY <1>2, <1>3, <1>4, <1>5, <1>6 DEF Next, Release, OthersStep

\* Where a setup handler can come from, if none is under way.
LEMMA SetupStarts ==
  ASSUME IInv, [Next]_vars, NoSetup
  PROVE  NoSetup' \/ (version' = version + 1 /\ stage' = "applying")
<1> SUFFICES ASSUME NEW a \in Admins, api'[a].at \in ApplyState
             PROVE  version' = version + 1 /\ stage' = "applying"
  BY DEF NoSetup
<1>1. api \in [Admins -> Handler] /\ api[a] \in Handler
  BY DEF IInv, TypeOK
<1>2. ~ApplyHandler(a)
  BY DEF NoSetup, ApplyState, ApplyHandler, CheckApplying, LookUpOrg, CreateOrg,
     BindOrg, StaffOrg, RecordOrg, FindNode, InsertNode, RecordNode
<1>3. api'[a] # api[a] /\ api'[a] # NoHandler
  BY DEF NoSetup, NoHandler, ApplyState
<1>4. ~(StartReject(a) \/ ReleaseCheck(a) \/ ReleaseNode(a) \/ DeleteNode(a)
          \/ ReleaseOrg(a))
  <2>1. CASE StartReject(a)
    BY <1>1, <1>3, <2>1 DEF StartReject, ApplyState
  <2>2. CASE ReleaseCheck(a) \/ DeleteNode(a) \/ ReleaseOrg(a)
    BY <1>1, <1>3, <2>2 DEF ReleaseCheck, DeleteNode, ReleaseOrg, Proceed,
       Released, ApplyState, Handler
  <2>3. CASE ReleaseNode(a)
    <3>1. api'[a].at \in {"deleteNode", "releaseOrg"}
      BY <1>1, <2>3 DEF ReleaseNode, Proceed, Handler
    <3> QED BY <3>1 DEF ApplyState
  <2> QED BY <2>1, <2>2, <2>3
<1>5. Approve(a)
  BY <1>2, <1>3, <1>4, HandlerOf
<1> QED BY <1>5 DEF Approve, ChangeStage

LEMMA HandlerKnowsStep ==
  ASSUME IInv, Unraced, [Next]_vars, NEW a \in Admins
  PROVE  HandlerKnows(a)'
<1>1. /\ api \in [Admins -> Handler] /\ api[a] \in Handler /\ HandlerKnows(a)
      /\ orgs \in Seq(Org \cup {None}) /\ nodes \in Seq(Node \cup {None})
      /\ Len(orgs) \in Nat /\ Len(nodes) \in Nat
  BY LenProperties DEF IInv, TypeOK, Unraced
<1>2. api[a].at \in ApplyState => ~Releasing
  BY DEF Unraced, SettingUp
<1>3. api[a].at \in ReleaseState => NoSetup
  BY DEF Unraced, SettingUp, NoSetup, Releasing
<1>4. CASE api'[a] = api[a]
  <2>1. CASE api[a].at \in ApplyState
    BY <1>1, <1>2, <1>4, <2>1, Keeps
    DEF HandlerKnows, ApplyState, Whole, WholeAfter
  <2>2. CASE api[a].at \in ReleaseState
    BY <1>1, <1>3, <1>4, <2>2, Leaves DEF HandlerKnows, ReleaseState
  <2>3. CASE api[a].at = "idle"
    BY <1>4, <2>3 DEF HandlerKnows
  <2> QED BY <1>1, <2>1, <2>2, <2>3 DEF Handler
<1>5. CASE api'[a] = NoHandler \/ api'[a].at = "check"
  BY <1>5 DEF HandlerKnows, NoHandler
<1>6. ASSUME CheckApplying(a) \/ LookUpOrg(a) PROVE HandlerKnows(a)'
  <2>1. CASE CheckApplying(a)
    BY <1>1, <2>1 DEF CheckApplying, Proceed, HandlerKnows, Handler
  <2>2. CASE LookUpOrg(a) /\ Proceed(a, "create")
    <3>1. api'[a].at = "create"
      BY <1>1, <2>2 DEF Proceed, Handler
    <3> QED BY <3>1 DEF HandlerKnows
  <2>3. CASE LookUpOrg(a) /\ ~Proceed(a, "create")
    <3>1. PICK o \in CandidateOrgs :
            api' = [api EXCEPT ![a].org = o,
                      ![a].at = IF payloadOrg = None /\ orgs[o].proposal
                                  THEN "staff" ELSE "bind"]
      BY <2>3 DEF LookUpOrg
    <3>2. /\ o \in Live(orgs) /\ UNCHANGED orgs
          /\ api'[a].org = o /\ api'[a].at \in {"staff", "bind"}
      BY <1>1, <2>3, <3>1 DEF LookUpOrg, CandidateOrgs, Handler
    <3> QED BY <3>2 DEF HandlerKnows
  <2> QED BY <1>6, <2>1, <2>2, <2>3
<1>7. ASSUME CreateOrg(a) PROVE HandlerKnows(a)'
  <2>1. CASE Live(orgs) = {}
    <3>1. /\ orgs' = Append(orgs, [ours |-> TRUE, proposal |-> TRUE,
                                   linked |-> FALSE, reviewer |-> a,
                                   others |-> FALSE])
          /\ api'[a].at = "staff" /\ api'[a].org = Len(orgs) + 1
      BY <1>1, <1>7, <2>1 DEF CreateOrg, Handler
    <3> DEFINE e == [ours |-> TRUE, proposal |-> TRUE, linked |-> FALSE,
                     reviewer |-> a, others |-> FALSE]
    <3>2. e \in Org
      BY DEF Org
    <3>3. e # None
      BY <3>2, NullAssumption
    <3>4. orgs' = Append(orgs, e)
      BY <3>1
    <3> HIDE DEF e
    <3>5. Len(orgs') = Len(orgs) + 1 /\ orgs'[Len(orgs) + 1] = e
      BY <1>1, <3>2, <3>4, AppendProperties
    <3>6. Len(orgs) + 1 \in Live(orgs')
      BY <1>1, <3>3, <3>5 DEF Live
    <3> QED BY <3>1, <3>6 DEF HandlerKnows
  <2>2. CASE Live(orgs) # {}
    <3>1. PICK o \in Live(orgs) :
            /\ api' = [api EXCEPT ![a].at = "staff", ![a].org = o]
            /\ UNCHANGED orgs
      BY <1>7, <2>2 DEF CreateOrg
    <3>2. api'[a].at = "staff" /\ api'[a].org = o
      BY <1>1, <3>1 DEF Handler
    <3> QED BY <3>1, <3>2 DEF HandlerKnows
  <2> QED BY <2>1, <2>2
<1>8. ASSUME BindOrg(a) \/ StaffOrg(a) \/ RecordOrg(a)
      PROVE  HandlerKnows(a)'
  <2>1. /\ api[a].at \in {"bind", "staff", "recordOrg"}
        /\ api'[a].at \in {"staff", "recordOrg", "findNode"}
        /\ api'[a].org = api[a].org
    BY <1>1, <1>8 DEF BindOrg, StaffOrg, RecordOrg, Proceed, Handler
  <2>2. api[a].org \in Live(orgs) /\ ~Releasing
    BY <1>1, <1>2, <2>1 DEF HandlerKnows, ApplyState
  <2>3. api[a].org \in Live(orgs')
    BY <2>2, Keeps
  <2> QED BY <2>1, <2>3 DEF HandlerKnows
<1>9. ASSUME NEW n \in ProposalNodes(api[a].org), UseNode(a, n),
             UNCHANGED <<orgs, nodes>>, api[a].at \in {"findNode", "insertNode"}
      PROVE  HandlerKnows(a)'
  <2>1. api[a].org \in Live(orgs)
    BY <1>1, <1>9 DEF HandlerKnows
  <2>2. Whole(n)
    BY <1>9, <2>1 DEF ProposalNodes, Unraced, Whole
  <2>3. api'[a].at = "recordNode" /\ api'[a].node = n
    BY <1>1, <1>9 DEF UseNode, Handler
  <2> QED BY <1>9, <2>2, <2>3 DEF HandlerKnows, Whole
<1>10. ASSUME FindNode(a) PROVE HandlerKnows(a)'
  <2>1. CASE Proceed(a, "insertNode")
    <3>1. /\ api'[a].at = "insertNode" /\ api'[a].org = api[a].org
          /\ api[a].at = "findNode" /\ UNCHANGED orgs
      BY <1>1, <1>10, <2>1 DEF FindNode, Proceed, Handler
    <3> QED BY <1>1, <3>1 DEF HandlerKnows
  <2>2. CASE ~Proceed(a, "insertNode")
    BY <1>9, <1>10, <2>2 DEF FindNode
  <2> QED BY <2>1, <2>2
<1>11. ASSUME InsertNode(a) PROVE HandlerKnows(a)'
  <2>1. CASE Live(nodes) = {}
    <3>1. /\ nodes' = Append(nodes, NewNode(a)) /\ UNCHANGED orgs
          /\ UseNode(a, Len(nodes) + 1) /\ api[a].at = "insertNode"
      BY <1>11, <2>1 DEF InsertNode
    <3>2. api'[a].at = "recordNode" /\ api'[a].node = Len(nodes) + 1
      BY <1>1, <3>1 DEF UseNode, Handler
    <3>3. NewNode(a) \in Node /\ NewNode(a).org = api[a].org
      BY <1>1 DEF NewNode, Node, Handler
    <3>4. Len(nodes') = Len(nodes) + 1 /\ nodes'[Len(nodes) + 1] = NewNode(a)
      BY <1>1, <3>1, <3>3, AppendProperties
    <3>5. api[a].org \in Live(orgs) /\ NewNode(a) # None
      BY <1>1, <3>1, <3>3, NullAssumption DEF HandlerKnows
    <3>6. Len(nodes) + 1 \in Live(nodes')
      BY <1>1, <3>4, <3>5 DEF Live
    <3> QED BY <3>1, <3>2, <3>3, <3>4, <3>5, <3>6 DEF HandlerKnows, Whole
  <2>2. CASE Live(nodes) # {}
    BY <1>9, <1>11, <2>2 DEF InsertNode
  <2> QED BY <2>1, <2>2
<1>12. ASSUME RecordNode(a) PROVE HandlerKnows(a)'
  BY <1>1, <1>5, <1>12 DEF RecordNode
<1>13. ASSUME StartReject(a) \/ ReleaseCheck(a) PROVE HandlerKnows(a)'
  <2>1. api'[a] = api[a] \/ api'[a].at \in {"releaseCheck", "releaseNode"}
    BY <1>1, <1>13 DEF StartReject, ReleaseCheck, Handler
  <2> QED BY <1>4, <2>1 DEF HandlerKnows
<1>14. ASSUME ReleaseNode(a) PROVE HandlerKnows(a)'
  <2>1. CASE Releasable = {}
    <3>1. api'[a].at = "releaseOrg"
      BY <1>1, <1>14, <2>1 DEF ReleaseNode, Proceed, Handler
    <3>2. NothingLeft
      BY <2>1 DEF Releasable, NothingLeft
    <3> QED BY <1>14, <3>1, <3>2
        DEF HandlerKnows, ReleaseNode, NothingLeft, LinkedNodes
  <2>2. CASE Releasable # {}
    <3>1. PICK n \in Releasable :
            api' = [api EXCEPT ![a].at = "deleteNode", ![a].node = n]
      BY <1>14, <2>2 DEF ReleaseNode
    <3>2. /\ api'[a].at = "deleteNode" /\ api'[a].node = n /\ UNCHANGED nodes
          /\ n \in Live(nodes)
      BY <1>1, <1>14, <3>1 DEF ReleaseNode, Handler, Releasable, LinkedNodes
    <3>3. \A m \in LinkedNodes : m = n
      BY <3>2 DEF IInv, OneCommunity, LinkedNodes
    <3> QED BY <3>2, <3>3 DEF HandlerKnows, LinkedNodes
  <2> QED BY <2>1, <2>2
<1>15. ASSUME DeleteNode(a) PROVE HandlerKnows(a)'
  <2>1. /\ api'[a].at = "releaseOrg" /\ api[a].at = "deleteNode"
        /\ nodes' = [nodes EXCEPT ![api[a].node] = None]
    BY <1>1, <1>15 DEF DeleteNode, Proceed, Handler
  <2>2. /\ Len(nodes') = Len(nodes)
        /\ \A m \in 1..Len(nodes) :
             nodes'[m] = IF m = api[a].node THEN None ELSE nodes[m]
    BY <1>1, <2>1
  <2>3. LinkedNodes' = {}
    BY <1>1, <2>1, <2>2 DEF HandlerKnows, LinkedNodes, Live
  <2> QED BY <2>1, <2>3 DEF HandlerKnows, NothingLeft
<1>16. ASSUME ReleaseOrg(a) PROVE HandlerKnows(a)'
  <2>1. CASE Proceed(a, "deleteOrg")
    <3>1. /\ api'[a].at = "deleteOrg" /\ api[a].at = "releaseOrg"
          /\ UNCHANGED nodes
      BY <1>1, <1>16, <2>1 DEF ReleaseOrg, Proceed, Handler
    <3> QED BY <1>1, <3>1 DEF HandlerKnows, NothingLeft, LinkedNodes
  <2>2. CASE ~Proceed(a, "deleteOrg")
    BY <1>1, <1>5, <1>16, <2>2 DEF ReleaseOrg, Released
  <2> QED BY <2>1, <2>2
<1> QED
  BY <1>4, <1>5, <1>6, <1>7, <1>8, <1>10, <1>11, <1>12, <1>13, <1>14, <1>15,
     <1>16, HandlerOf DEF ApplyHandler

\* Tab a rests, stops, or takes a step of its own or of its handler.
LEMMA TabOf ==
  ASSUME IInv, [Next]_vars, NEW a \in Admins
  PROVE  \/ tab'[a] = tab[a]
         \/ /\ tab'[a].at \in {"idle", "failing", "calling", "releasing"}
            /\ tab'[a].token \in {0, tab[a].token, version, version'}
         \/ /\ tab[a].at \in {"publishing", "proposing", "confirming"}
            /\ tab'[a].at \in {"proposing", "confirming", "finishing"}
            /\ tab'[a].node = tab[a].node /\ tab'[a].token = tab[a].token
            /\ UNCHANGED <<orgs, nodes, stage, version>>
            /\ tab'[a].at = "finishing" => config = "published" /\ UNCHANGED config
         \/ /\ RecordNode(a) /\ tab'[a].at = "publishing"
            /\ tab'[a].node = api[a].node /\ tab'[a].token = tab[a].token
         \/ /\ tab'[a].at = "rejecting" /\ UNCHANGED <<nodes, stage, version>>
            /\ \/ stage = "pending" /\ tab'[a].token = version
               \/ /\ api[a].at \in {"releaseOrg", "deleteOrg"}
                  /\ tab'[a].token = tab[a].token
<1>1. tab \in [Admins -> Tab] /\ tab[a] \in Tab
  BY DEF IInv, TypeOK
<1>2. ASSUME NEW b \in Admins, b # a,
             Run(b) \/ ApplyHandler(b) \/ Release(b) \/ ApiError(b)
      PROVE  tab'[a] = tab[a]
  <2>1. CASE Run(b)
    BY <1>1, <1>2, <2>1 DEF Run, Approve, CheckPublished, ProposeConfig,
       ConfirmPublished, MarkApplied, MarkApplyFailed, TabError, GoTo, Leave
  <2>2. CASE ApplyHandler(b)
    BY <1>1, <1>2, <2>2 DEF ApplyHandler, CheckApplying, LookUpOrg, CreateOrg,
       BindOrg, StaffOrg, RecordOrg, FindNode, InsertNode, RecordNode
  <2>3. CASE Release(b)
    BY <1>1, <1>2, <2>3 DEF Release, StartReject, ReleaseCheck, ReleaseNode,
       DeleteNode, ReleaseOrg, DeleteOrg, Reject, Released, Leave
  <2>4. CASE ApiError(b)
    BY <1>1, <1>2, <2>4 DEF ApiError
  <2> QED BY <1>2, <2>1, <2>2, <2>3, <2>4
<1>3. ASSUME Approve(a) \/ StartReject(a)
      PROVE  \/ /\ tab'[a].at \in {"calling", "releasing"}
                /\ tab'[a].token \in {version, version'}
             \/ /\ tab'[a].at = "rejecting" /\ UNCHANGED <<nodes, stage, version>>
                /\ stage = "pending" /\ tab'[a].token = version
  <2>1. CASE Approve(a)
    BY <1>1, <2>1 DEF Approve, ChangeStage
  <2>2. CASE StartReject(a)
    BY <1>1, <2>2 DEF StartReject, proposalVars
  <2> QED BY <1>3, <2>1, <2>2
<1>4. ASSUME CheckPublished(a) \/ ProposeConfig(a) \/ ConfirmPublished(a)
      PROVE  /\ tab'[a].node = tab[a].node /\ tab'[a].token = tab[a].token
             /\ tab[a].at \in {"publishing", "proposing", "confirming"}
             /\ tab'[a].at \in {"failing", "proposing", "confirming", "finishing"}
             /\ UNCHANGED <<orgs, nodes, stage, version>>
             /\ tab'[a].at = "finishing" => config = "published" /\ UNCHANGED config
  <2>1. CASE CheckPublished(a)
    BY <1>1, <2>1 DEF CheckPublished, GoTo, Tab, proposalVars
  <2>2. CASE ProposeConfig(a)
    BY <1>1, <2>2 DEF ProposeConfig, GoTo, Tab, proposalVars
  <2>3. CASE ConfirmPublished(a)
    BY <1>1, <2>3 DEF ConfirmPublished, GoTo, Tab, proposalVars
  <2> QED BY <1>4, <2>1, <2>2, <2>3
<1>5. ASSUME MarkApplied(a) \/ MarkApplyFailed(a) \/ TabError(a) \/ ApiError(a)
                \/ Reject(a)
      PROVE  \/ tab'[a] = tab[a]
             \/ /\ tab'[a].at \in {"idle", "failing"}
                /\ tab'[a].token \in {0, tab[a].token}
  <2>1. CASE MarkApplied(a) \/ MarkApplyFailed(a) \/ TabError(a) \/ Reject(a)
    BY <1>1, <2>1 DEF MarkApplied, MarkApplyFailed, TabError, Reject, GoTo,
       Leave, NoTab, Tab
  <2>2. CASE ApiError(a)
    BY <1>1, <2>2 DEF ApiError, NoTab, Tab
  <2> QED BY <1>5, <2>1, <2>2
<1>6. ASSUME RecordNode(a)
      PROVE  \/ tab'[a] = tab[a]
             \/ /\ tab'[a].at = "publishing" /\ tab'[a].node = api[a].node
                /\ tab'[a].token = tab[a].token
  BY <1>1, <1>6 DEF RecordNode, Tab
<1>7. CASE ApplyHandler(a) /\ ~RecordNode(a)
  BY <1>7 DEF ApplyHandler, CheckApplying, LookUpOrg, CreateOrg, BindOrg,
     StaffOrg, RecordOrg, FindNode, InsertNode
<1>8. ASSUME ReleaseCheck(a) \/ ReleaseNode(a) \/ DeleteNode(a)
      PROVE  tab'[a] = tab[a]
  BY <1>8 DEF ReleaseCheck, ReleaseNode, DeleteNode
<1>9. ASSUME ReleaseOrg(a) \/ DeleteOrg(a)
      PROVE  \/ tab'[a] = tab[a]
             \/ /\ tab'[a].at = "rejecting" /\ tab'[a].token = tab[a].token
                /\ UNCHANGED <<nodes, stage, version>>
                /\ api[a].at \in {"releaseOrg", "deleteOrg"}
  BY <1>1, <1>9 DEF ReleaseOrg, DeleteOrg, Released, Tab, proposalVars
<1>10. CASE UNCHANGED vars \/ OthersStep
  BY <1>10 DEF vars, OthersStep, Reopen, CloseVote, UseOrg, SpawnUnder,
     ReplaceMetadata
<1> QED
  <2>1. CASE UNCHANGED vars \/ OthersStep
    BY <1>10, <2>1
  <2>2. CASE \E b \in Admins \ {a} :
               Run(b) \/ ApplyHandler(b) \/ Release(b) \/ ApiError(b)
    BY <1>2, <2>2
  <2>3. CASE Run(a)
    BY <1>3, <1>4, <1>5, <2>3 DEF Run
  <2>4. CASE ApplyHandler(a)
    BY <1>6, <1>7, <2>4
  <2>5. CASE Release(a) \/ ApiError(a)
    BY <1>3, <1>5, <1>8, <1>9, <2>5 DEF Release
  <2> QED BY <2>1, <2>2, <2>3, <2>4, <2>5 DEF Next, OthersStep

\* What else changes the stage.
LEMMA StageStep ==
  ASSUME IInv, [Next]_vars
  PROVE  /\ stage' = "applied" =>
              \/ UNCHANGED <<stage, version, appliedNode>>
              \/ \E a \in Admins :
                   /\ tab[a].at = "finishing" /\ OwnsAttempt(a)
                   /\ appliedNode' = tab[a].node /\ UNCHANGED <<orgs, nodes>>
         /\ stage' \in {"pending", "rejected"} =>
              \/ UNCHANGED <<stage, version>>
              \/ stage = "rejected" /\ UNCHANGED <<nodes, api>>
              \/ /\ stage \in {"pending", "failed"} /\ UNCHANGED <<nodes, api>>
                 /\ \E a \in Admins :
                      tab[a].at = "rejecting" /\ version = tab[a].token
<1> DEFINE Goal ==
      /\ stage' = "applied" =>
           \/ UNCHANGED <<stage, version, appliedNode>>
           \/ \E a \in Admins :
                /\ tab[a].at = "finishing" /\ OwnsAttempt(a)
                /\ appliedNode' = tab[a].node /\ UNCHANGED <<orgs, nodes>>
      /\ stage' \in {"pending", "rejected"} =>
           \/ UNCHANGED <<stage, version>>
           \/ stage = "rejected" /\ UNCHANGED <<nodes, api>>
           \/ /\ stage \in {"pending", "failed"} /\ UNCHANGED <<nodes, api>>
              /\ \E a \in Admins :
                   tab[a].at = "rejecting" /\ version = tab[a].token
<1>1. CASE UNCHANGED <<stage, version, appliedNode>>
  BY <1>1
<1>2. ASSUME NEW a \in Admins,
             Run(a) \/ ApplyHandler(a) \/ Release(a) \/ ApiError(a)
      PROVE  Goal
  <2>1. CASE MarkApplied(a)
    BY <2>1 DEF MarkApplied, ChangeStage
  <2>2. CASE Run(a) /\ ~MarkApplied(a)
    BY <1>1, <2>2 DEF Run, Approve, CheckPublished, ProposeConfig,
       ConfirmPublished, MarkApplyFailed, TabError, ChangeStage, proposalVars
  <2>3. CASE Reject(a)
    BY <2>3 DEF Reject, ChangeStage
  <2>4. CASE Release(a) /\ ~Reject(a)
    BY <1>1, <2>4 DEF Release, StartReject, ReleaseCheck, ReleaseNode,
       DeleteNode, ReleaseOrg, DeleteOrg, proposalVars
  <2>5. CASE ApplyHandler(a) \/ ApiError(a)
    BY <1>1, <2>5 DEF ApplyHandler, CheckApplying, LookUpOrg, CreateOrg, BindOrg,
       StaffOrg, RecordOrg, FindNode, InsertNode, RecordNode, ApiError,
       proposalVars
  <2> QED BY <1>2, <2>1, <2>2, <2>3, <2>4, <2>5
<1>3. CASE UNCHANGED vars \/ OthersStep
  BY <1>1, <1>3 DEF vars, OthersStep, Reopen, CloseVote, UseOrg, SpawnUnder,
     ReplaceMetadata, ChangeStage, proposalVars
<1> QED BY <1>2, <1>3 DEF Next, OthersStep

LEMMA TokensStep ==
  ASSUME IInv, Tokens, [Next]_vars
  PROVE  Tokens'
<1>1. /\ version \in Nat /\ tab \in [Admins -> Tab]
      /\ \A a \in Admins : tab[a] \in Tab /\ tab[a].token \in Nat
  BY DEF IInv, TypeOK, Tab
<1>2. version' \in Nat /\ version <= version'
  BY <1>1, VersionStep
<1>3. ASSUME config = "published" PROVE config' = "published"
  <2>1. ASSUME NEW a \in Admins,
               Run(a) \/ ApplyHandler(a) \/ Release(a) \/ ApiError(a)
        PROVE  config' = config
    <3>1. CASE Run(a)
      BY <1>3, <3>1 DEF Run, Approve, CheckPublished, ProposeConfig,
         ConfirmPublished, MarkApplied, MarkApplyFailed, TabError
    <3>2. CASE ApplyHandler(a)
      BY <3>2 DEF ApplyHandler, CheckApplying, LookUpOrg, CreateOrg, BindOrg,
         StaffOrg, RecordOrg, FindNode, InsertNode, RecordNode
    <3>3. CASE Release(a)
      BY <3>3 DEF Release, StartReject, ReleaseCheck, ReleaseNode, DeleteNode,
         ReleaseOrg, DeleteOrg, Reject
    <3>4. CASE ApiError(a)
      BY <3>4 DEF ApiError
    <3> QED BY <2>1, <3>1, <3>2, <3>3, <3>4
  <2>2. CASE UNCHANGED vars \/ OthersStep
    BY <1>3, <2>2 DEF vars, OthersStep, Reopen, CloseVote, UseOrg, SpawnUnder,
       ReplaceMetadata
  <2> QED BY <1>3, <2>1, <2>2 DEF Next, OthersStep
<1>4. ASSUME NEW a \in Admins
      PROVE  /\ tab'[a].token <= version'
             /\ tab'[a].at = "finishing" => config' = "published"
  <2>1. tab'[a].token \in {0, tab[a].token, version, version'}
    BY TabOf
  <2>2. tab[a].token <= version /\ (tab[a].at = "finishing" => config = "published")
    BY DEF Tokens
  <2>3. tab'[a].token <= version'
    BY <1>1, <1>2, <2>1, <2>2
  <2>4. tab'[a].at = "finishing" => config' = "published"
    BY <1>3, <2>2, TabOf
  <2> QED BY <2>3, <2>4
<1>5. stage' = "applied" => stage = "applied" \/ \E a \in Admins : tab[a].at = "finishing"
  BY StageStep
<1> QED BY <1>3, <1>4, <1>5 DEF Tokens

LEMMA TabKnowsStep ==
  ASSUME IInv, Tokens, Unraced, [Next]_vars, NEW a \in Admins
  PROVE  TabKnows(a)'
<1> DEFINE holding == {"publishing", "proposing", "confirming", "finishing"}
           match == tab[a].at = "rejecting" /\ stage \in {"pending", "failed"}
                      /\ version = tab[a].token
<1>1. /\ tab[a] \in Tab /\ tab[a].token \in Nat /\ version \in Nat
      /\ tab[a].token <= version /\ TabKnows(a) /\ HandlerKnows(a)
  BY DEF IInv, TypeOK, Tab, Tokens, Unraced
<1>2. ASSUME stage = "applying"
      PROVE  \A n : Whole(n) => WholeAfter(n)
  BY <1>2, Keeps DEF Unraced, SettingUp
<1>3. ASSUME NoSetup, NothingLeft, stage' # "applying"
      PROVE  NoSetup' /\ NothingLeft'
  BY <1>3, Leaves, SetupStarts
<1>4. CASE tab'[a] = tab[a]
  <2>1. ASSUME version' = tab[a].token PROVE UNCHANGED <<stage, version>>
    BY <1>1, <2>1, VersionStep
  <2>2. ASSUME tab[a].at \in holding, OwnsAttempt(a)' PROVE Whole(tab[a].node)'
    <3>1. UNCHANGED <<stage, version>>
      BY <1>4, <2>1, <2>2 DEF OwnsAttempt
    <3>2. OwnsAttempt(a) /\ stage = "applying"
      BY <1>4, <2>2, <3>1 DEF OwnsAttempt
    <3>3. Whole(tab[a].node)
      BY <1>1, <2>2, <3>2 DEF TabKnows
    <3>4. WholeAfter(tab[a].node)
      BY <1>2, <3>2, <3>3
    <3> QED BY <1>4, <3>4 DEF Whole, WholeAfter
  <2>3. ASSUME match' PROVE NoSetup' /\ NothingLeft'
    <3>1. UNCHANGED <<stage, version>>
      BY <1>4, <2>1, <2>3
    <3>2. match /\ stage' # "applying"
      BY <1>4, <2>3, <3>1
    <3> QED BY <1>1, <1>3, <3>2 DEF TabKnows
  <2> QED BY <1>4, <2>2, <2>3 DEF TabKnows, Whole
<1>5. CASE tab'[a].at \in {"idle", "failing", "calling", "releasing"}
  BY <1>5 DEF TabKnows
<1>6. CASE /\ tab[a].at \in {"publishing", "proposing", "confirming"}
           /\ tab'[a].at \in {"proposing", "confirming", "finishing"}
           /\ tab'[a].node = tab[a].node /\ tab'[a].token = tab[a].token
           /\ UNCHANGED <<orgs, nodes, stage, version>>
  BY <1>1, <1>6 DEF TabKnows, OwnsAttempt, Whole
<1>7. CASE /\ RecordNode(a) /\ tab'[a].at = "publishing"
           /\ tab'[a].node = api[a].node
  <2>1. Whole(api[a].node) /\ UNCHANGED <<orgs, nodes>>
    BY <1>1, <1>7 DEF RecordNode, HandlerKnows
  <2> QED BY <1>7, <2>1 DEF TabKnows, Whole
<1>8. CASE /\ tab'[a].at = "rejecting" /\ UNCHANGED <<nodes, stage, version>>
           /\ stage = "pending" \/ api[a].at \in {"releaseOrg", "deleteOrg"}
  <2>1. ASSUME match' PROVE NoSetup' /\ NothingLeft'
    <3>1. NoSetup /\ NothingLeft
      <4>1. CASE stage = "pending"
        BY <4>1 DEF Unraced
      <4>2. CASE api[a].at \in {"releaseOrg", "deleteOrg"}
        BY <1>1, <4>2 DEF Unraced, HandlerKnows, Releasing, SettingUp, NoSetup,
           ReleaseState
      <4> QED BY <1>8, <4>1, <4>2
    <3>2. stage' # "applying"
      BY <2>1
    <3> QED BY <1>3, <3>1, <3>2
  <2> QED BY <1>8, <2>1 DEF TabKnows
<1> QED BY <1>4, <1>5, <1>6, <1>7, <1>8, TabOf

\* A node of this setup is whole, or has communities under it to be kept for.
LEMMA LinkedStayWhole ==
  ASSUME IInv, Unraced, [Next]_vars, NEW n \in LinkedNodes'
  PROVE  Whole(n)'
<1>1. n \in Live(nodes') /\ nodes'[n].linked
  BY DEF LinkedNodes
<1>2. CASE n \in Live(nodes) /\ NodeKept(n)
  <2>1. n \in LinkedNodes /\ Whole(n)
    BY <1>1, <1>2 DEF NodeKept, LinkedNodes, Unraced
  <2>2. CASE nodes[n].children
    BY <1>2, <2>2 DEF NodeKept, Whole
  <2>3. CASE ~nodes[n].children
    <3>1. ASSUME NEW a \in Admins, DeleteOrg(a) PROVE FALSE
      BY <2>1, <2>3, <3>1 DEF DeleteOrg, Unraced, HandlerKnows, NothingLeft
    <3>2. nodes[n].org \in Live(orgs')
      BY <2>1, <2>3, <3>1, OrgsEvolve DEF Whole
    <3> QED BY <1>2, <3>2 DEF NodeKept, Whole
  <2> QED BY <2>2, <2>3
<1>3. CASE n \in Live(nodes) /\ ~NodeKept(n)
  <2>1. PICK a \in Admins : DeleteNode(a) /\ n = api[a].node
    BY <1>3, NodesEvolve DEF NodesStep
  <2>2. nodes' = [nodes EXCEPT ![n] = None]
    BY <2>1 DEF DeleteNode
  <2>3. n \in DOMAIN nodes
    BY <1>3 DEF Live, IInv, TypeOK
  <2> QED BY <1>1, <2>2, <2>3 DEF Live
<1>4. CASE n \notin Live(nodes)
  <2>1. PICK a \in Admins :
          InsertNode(a) /\ nodes'[n] = NewNode(a) /\ UNCHANGED orgs
    BY <1>1, <1>4, NodesEvolve DEF NodesStep
  <2>2. api[a].org \in Live(orgs)
    BY <2>1 DEF InsertNode, Unraced, HandlerKnows
  <2> QED BY <1>1, <2>1, <2>2 DEF NewNode, Whole
<1> QED BY <1>2, <1>3, <1>4

LEMMA UnracedStep ==
  ASSUME IInv, Tokens, Unraced, [Next]_vars, ~(Releasing' /\ SettingUp')
  PROVE  Unraced'
<1>1. \A n \in LinkedNodes' : Whole(n)'
  BY LinkedStayWhole
<1>2. \A a \in Admins : HandlerKnows(a)' /\ TabKnows(a)'
  BY HandlerKnowsStep, TabKnowsStep
<1>3. ASSUME stage' \in {"pending", "rejected"} PROVE NoSetup' /\ NothingLeft'
  <2>1. NoSetup /\ NothingLeft
    BY <1>3, StageStep DEF Unraced, TabKnows
  <2> QED BY <1>3, <2>1, Leaves, SetupStarts
<1>4. ASSUME stage' = "applied" PROVE Whole(appliedNode)'
  <2>1. CASE UNCHANGED <<stage, version, appliedNode>>
    <3>1. Whole(appliedNode) /\ ~Releasing
      BY <1>4, <2>1 DEF Unraced, SettingUp
    <3>2. WholeAfter(appliedNode)
      BY <3>1, Keeps
    <3> QED BY <2>1, <3>2 DEF Whole, WholeAfter
  <2>2. CASE \E a \in Admins :
               /\ tab[a].at = "finishing" /\ OwnsAttempt(a)
               /\ appliedNode' = tab[a].node /\ UNCHANGED <<orgs, nodes>>
    BY <2>2 DEF Unraced, TabKnows, Whole
  <2> QED BY <1>4, <2>1, <2>2, StageStep
<1> QED BY <1>1, <1>2, <1>3, <1>4 DEF Unraced

LEMMA HistoryInitially == HistoryInit => HistoryInv
<1> SUFFICES ASSUME HistoryInit PROVE HistoryInv
  OBVIOUS
<1>1. Init /\ IInv /\ raced = FALSE
  BY Initially DEF HistoryInit
<1>2. /\ \A a \in Admins : tab[a] = NoTab /\ api[a] = NoHandler
      /\ stage = "pending" /\ version = 0
  BY <1>1 DEF Init
<1>3. LinkedNodes = {}
  <2>1. nodes = <<>> \/ nodes = <<SomeonesNode(payloadOrg)>>
    BY <1>1 DEF Init
  <2> QED BY <2>1 DEF LinkedNodes, Live, SomeonesNode
<1>4. Tokens
  BY <1>2 DEF Tokens, NoTab
<1>5. Unraced
  BY <1>2, <1>3 DEF Unraced, HandlerKnows, TabKnows, NoSetup, NothingLeft, NoTab,
     NoHandler, Releasing, SettingUp, ApplyState, ReleaseState
<1> QED BY <1>1, <1>4, <1>5 DEF HistoryInv

LEMMA HistoryInductive ==
  HistoryInv /\ [HistoryNext]_<<vars, raced>> => HistoryInv'
<1>1. ASSUME HistoryInv, HistoryNext PROVE HistoryInv'
  <2>1. IInv' /\ Tokens'
    BY <1>1, Inductive, TokensStep DEF HistoryInv, HistoryNext
  <2>2. ASSUME ~raced' PROVE Unraced'
    <3>1. ~raced /\ ~(Releasing' /\ SettingUp')
      BY <1>1, <2>2 DEF HistoryNext
    <3> QED BY <1>1, <3>1, UnracedStep DEF HistoryInv, HistoryNext
  <2> QED BY <2>1, <2>2 DEF HistoryInv
<1>2. ASSUME HistoryInv, UNCHANGED <<vars, raced>> PROVE HistoryInv'
  <2>1. IInv' /\ Tokens'
    BY <1>2, Inductive, TokensStep DEF HistoryInv
  <2>2. ASSUME ~raced PROVE Unraced'
    <3>1. Unraced
      BY <1>2, <2>2 DEF HistoryInv
    <3>2. ~(Releasing' /\ SettingUp')
      BY <1>2, <3>1 DEF Unraced, Releasing, SettingUp, vars, proposalVars
    <3> QED BY <1>2, <3>1, <3>2, UnracedStep DEF HistoryInv
  <2> QED BY <1>2, <2>1, <2>2 DEF HistoryInv
<1> QED BY <1>1, <1>2

THEOREM HistoryInvariance == HistorySpec => []HistoryInv
<1> QED BY HistoryInitially, HistoryInductive, PTL DEF HistorySpec

(***************************************************************************)
(* An applied application has its node, organization and configuration,    *)
(* however many runs, tabs and handlers it took, unless a release raced.   *)
(***************************************************************************)
THEOREM AppliedStaysWhole == HistorySpec => []AppliedIsWhole
<1>1. HistoryInv => AppliedIsWhole
  BY DEF HistoryInv, Tokens, Unraced, Whole, AppliedIsWhole
<1> QED BY <1>1, HistoryInvariance, PTL

(***************************************************************************)
(* A rejected application has left no node but one with communities under  *)
(* it, for any number of reviewers rejecting, retrying and reopening,      *)
(* unless a release raced a setup.                                         *)
(***************************************************************************)
THEOREM RejectionLeavesNoNode == HistorySpec => []RejectedLeavesNoNode
<1>1. HistoryInv => RejectedLeavesNoNode
  BY DEF HistoryInv, Unraced, NothingLeft, RejectedLeavesNoNode
<1> QED BY <1>1, HistoryInvariance, PTL

(***************************************************************************)
(* What is true of what RemovalOnlyWhenFailed claims: a release that did   *)
(* not race a setup deletes nothing while the application is applying or   *)
(* applied, nor while a handler still sets it up.  (It may go on deleting  *)
(* after another admin has released and rejected the application.)         *)
(***************************************************************************)
RemovalSparesSetups ==
  [][(\/ \E o \in Live(orgs) : orgs'[o] = None
      \/ \E n \in Live(nodes) : nodes'[n] = None)
       => raced \/ ~SettingUp]_<<orgs, nodes>>

\* Only a race lets a release delete what a setup uses.
THEOREM RemovalsSpare == HistorySpec => RemovalSparesSetups
<1>1. ASSUME HistoryInv, HistoryNext,
             \/ \E o \in Live(orgs) : orgs'[o] = None
             \/ \E n \in Live(nodes) : nodes'[n] = None
      PROVE  raced \/ ~SettingUp
  <2>1. IInv /\ [Next]_vars
    BY <1>1 DEF HistoryInv, HistoryNext
  <2>2. \E a \in Admins : DeleteOrg(a) \/ DeleteNode(a)
    <3>1. ASSUME NEW o \in Live(orgs), orgs'[o] = None PROVE \E a \in Admins : DeleteOrg(a)
      BY <2>1, <3>1, OrgsEvolve DEF Live
    <3>2. ASSUME NEW n \in Live(nodes), nodes'[n] = None PROVE \E a \in Admins : DeleteNode(a)
      BY <2>1, <3>2, NodesEvolve DEF NodesStep, NodeKept, Live
    <3> QED BY <1>1, <3>1, <3>2
  <2>3. Releasing
    BY <2>2 DEF DeleteOrg, DeleteNode, Releasing, ReleaseState
  <2> QED BY <1>1, <2>3 DEF HistoryInv, Unraced
<1>2. HistoryInv /\ [HistoryNext]_<<vars, raced>> =>
        [(\/ \E o \in Live(orgs) : orgs'[o] = None
          \/ \E n \in Live(nodes) : nodes'[n] = None)
           => raced \/ ~SettingUp]_<<orgs, nodes>>
  BY <1>1 DEF vars
<1> QED BY <1>2, HistoryInvariance, PTL DEF HistorySpec, RemovalSparesSetups

\* Nothing is left to release of the organization that was recorded.
RecordSpent ==
  payloadOrg = None => \A o \in Live(orgs) : o = recordedOrg => ~Unused(o)

\* Tab a rejects the failed setup that is stored.
Rejects(a) == stage = "failed" /\ version = tab[a].token

\* What a tab that rejects a failed setup knows of its organization.
ReleaseKnows(a) ==
  Rejects(a) =>
    /\ tab[a].at = "releasing" =>
         /\ api[a].at \in ReleaseState
         /\ api[a].at # "releaseCheck" /\ payloadOrg = None
              => api[a].org = recordedOrg
    /\ tab[a].at = "rejecting" => RecordSpent

ReleaseInv == ~raced => \A a \in Admins : ReleaseKnows(a)

(***************************************************************************)
(* What is true of what RejectionReleasesOrg claims: when a failed setup   *)
(* is rejected, and no release raced a setup, the organization that was    *)
(* recorded, if the setup created it, is deleted or in use by others.  One *)
(* that was created but not recorded is what the release does not see.     *)
(***************************************************************************)
RejectionSpendsRecord ==
  [][stage = "failed" /\ stage' = "rejected" /\ ~raced => RecordSpent]_stage

\* Whatever admin a takes no part in leaves their tab and handler alone.
LEMMA OnlyOwn ==
  ASSUME IInv, [Next]_vars, NEW a \in Admins
  PROVE  \/ tab'[a] = tab[a] /\ api'[a] = api[a]
         \/ Run(a) \/ ApplyHandler(a) \/ Release(a) \/ ApiError(a)
<1>1. tab \in [Admins -> Tab] /\ api \in [Admins -> Handler]
  BY DEF IInv, TypeOK
<1>2. ASSUME NEW b \in Admins, b # a,
             Run(b) \/ ApplyHandler(b) \/ Release(b) \/ ApiError(b)
      PROVE  tab'[a] = tab[a] /\ api'[a] = api[a]
  <2>1. CASE Run(b)
    BY <1>1, <1>2, <2>1 DEF Run, Approve, CheckPublished, ProposeConfig,
       ConfirmPublished, MarkApplied, MarkApplyFailed, TabError, GoTo, Leave
  <2>2. CASE ApplyHandler(b)
    BY <1>1, <1>2, <2>2 DEF ApplyHandler, CheckApplying, LookUpOrg, CreateOrg,
       BindOrg, StaffOrg, RecordOrg, FindNode, InsertNode, RecordNode, Proceed,
       UseNode
  <2>3. CASE Release(b)
    BY <1>1, <1>2, <2>3 DEF Release, StartReject, ReleaseCheck, ReleaseNode,
       DeleteNode, ReleaseOrg, DeleteOrg, Reject, Proceed, Released, Leave
  <2>4. CASE ApiError(b)
    BY <1>1, <1>2, <2>4 DEF ApiError
  <2> QED BY <1>2, <2>1, <2>2, <2>3, <2>4
<1>3. CASE UNCHANGED vars \/ OthersStep
  BY <1>3 DEF vars, OthersStep, Reopen, CloseVote, UseOrg, SpawnUnder,
     ReplaceMetadata
<1> QED BY <1>2, <1>3 DEF Next, OthersStep

\* What was recorded of an attempt is changed by its setup, or with the version.
LEMMA RecordStays ==
  ASSUME IInv, [Next]_vars, NoSetup
  PROVE  /\ payloadOrg' = payloadOrg
         /\ recordedOrg' = recordedOrg \/ version' = version + 1
<1>1. ASSUME NEW a \in Admins,
             Run(a) \/ ApplyHandler(a) \/ Release(a) \/ ApiError(a)
      PROVE  /\ payloadOrg' = payloadOrg
             /\ recordedOrg' = recordedOrg \/ version' = version + 1
  <2>1. CASE Run(a)
    BY <2>1 DEF Run, Approve, CheckPublished, ProposeConfig, ConfirmPublished,
       MarkApplied, MarkApplyFailed, TabError, proposalVars
  <2>2. CASE ApplyHandler(a)
    BY <2>2 DEF ApplyHandler, CheckApplying, LookUpOrg, CreateOrg, BindOrg,
       StaffOrg, RecordOrg, FindNode, InsertNode, RecordNode, proposalVars,
       NoSetup, ApplyState
  <2>3. CASE Release(a)
    BY <2>3 DEF Release, StartReject, ReleaseCheck, ReleaseNode, DeleteNode,
       ReleaseOrg, DeleteOrg, Reject, ChangeStage, proposalVars
  <2>4. CASE ApiError(a)
    BY <2>4 DEF ApiError, proposalVars
  <2> QED BY <1>1, <2>1, <2>2, <2>3, <2>4
<1> QED
  BY <1>1 DEF Next, vars, proposalVars, Reopen, CloseVote, UseOrg, SpawnUnder,
     ReplaceMetadata

\* Without a setup no organization becomes one to be released.
LEMMA UnusedOnlyBefore ==
  ASSUME IInv, [Next]_vars, NoSetup, NEW o \in Live(orgs'), Unused(o)'
  PROVE  o \in Live(orgs) /\ Unused(o)
<1>1. orgs \in Seq(Org \cup {None}) /\ Len(orgs) \in Nat
  BY LenProperties DEF IInv, TypeOK
<1>2. CASE UNCHANGED orgs
  BY <1>2 DEF Unused, Live
<1>3. ASSUME NEW a \in Admins, DeleteOrg(a) PROVE o \in Live(orgs) /\ Unused(o)
  <2>1. orgs' = [orgs EXCEPT ![api[a].org] = None]
    BY <1>3 DEF DeleteOrg
  <2>2. Len(orgs') = Len(orgs) /\ o \in 1..Len(orgs) /\ orgs'[o] # None
    BY <1>1, <2>1 DEF Live
  <2>3. orgs'[o] = orgs[o]
    BY <1>1, <2>1, <2>2
  <2> QED BY <2>2, <2>3 DEF Unused, Live
<1>4. ASSUME NEW p, UseOrg(p) PROVE o \in Live(orgs) /\ Unused(o)
  <2>1. /\ orgs' = [orgs EXCEPT ![p].others = TRUE] /\ Len(orgs') = Len(orgs)
        /\ o \in 1..Len(orgs) /\ orgs'[o] # None
    BY <1>1, <1>4 DEF UseOrg, Live
  <2>2. CASE o = p
    <3>1. orgs[o] \in Org
      BY <1>1, <1>4, <2>1, <2>2, ElementOfSeq DEF UseOrg
    <3>2. orgs'[o] = [orgs[o] EXCEPT !.others = TRUE]
      BY <1>1, <2>1, <2>2
    <3>3. orgs'[o].others
      BY <3>1, <3>2 DEF Org
    <3> QED BY <3>3 DEF Unused
  <2>3. CASE o # p
    <3>1. orgs'[o] = orgs[o]
      BY <1>1, <2>1, <2>3
    <3> QED BY <2>1, <3>1 DEF Unused, Live
  <2> QED BY <2>2, <2>3
<1>5. ASSUME NEW a \in Admins,
             Run(a) \/ ApplyHandler(a) \/ Release(a) \/ ApiError(a)
      PROVE  o \in Live(orgs) /\ Unused(o)
  <2>1. CASE Run(a)
    BY <1>2, <2>1 DEF Run, Approve, CheckPublished, ProposeConfig,
       ConfirmPublished, MarkApplied, MarkApplyFailed, TabError
  <2>2. CASE ApplyHandler(a)
    BY <1>2, <2>2 DEF ApplyHandler, CheckApplying, LookUpOrg, CreateOrg, BindOrg,
       StaffOrg, RecordOrg, FindNode, InsertNode, RecordNode, NoSetup, ApplyState
  <2>3. CASE Release(a)
    BY <1>2, <1>3, <2>3 DEF Release, StartReject, ReleaseCheck, ReleaseNode,
       DeleteNode, ReleaseOrg, Reject
  <2>4. CASE ApiError(a)
    BY <1>2, <2>4 DEF ApiError
  <2> QED BY <1>5, <2>1, <2>2, <2>3, <2>4
<1> QED
  BY <1>2, <1>4, <1>5 DEF Next, vars, Reopen, CloseVote, SpawnUnder,
     ReplaceMetadata

\* What is spent stays so while its attempt is the one stored.
LEMMA SpentStays ==
  ASSUME IInv, [Next]_vars, NoSetup, version' = version, RecordSpent
  PROVE  RecordSpent'
<1>1. UNCHANGED <<payloadOrg, recordedOrg>>
  BY RecordStays DEF IInv, TypeOK
<1> QED BY <1>1, UnusedOnlyBefore DEF RecordSpent

\* Without a race no setup is under way while a tab rejects the failed one.
LEMMA QuietWhenRejecting ==
  ASSUME Unraced, NEW a \in Admins, Rejects(a), ReleaseKnows(a),
         tab[a].at \in {"releasing", "rejecting"}
  PROVE  NoSetup
<1>1. CASE tab[a].at = "releasing"
  BY <1>1 DEF ReleaseKnows, Unraced, Releasing, SettingUp, NoSetup
<1>2. CASE tab[a].at = "rejecting"
  BY <1>2 DEF Rejects, Unraced, TabKnows
<1> QED BY <1>1, <1>2

LEMMA ReleaseKnowsStep ==
  ASSUME IInv, Tokens, Unraced, [Next]_vars, NEW a \in Admins, ReleaseKnows(a)
  PROVE  ReleaseKnows(a)'
<1> SUFFICES ASSUME stage' = "failed", version' = tab'[a].token,
                    tab'[a].at \in {"releasing", "rejecting"}
             PROVE  /\ tab'[a].at = "releasing" =>
                         /\ api'[a].at \in ReleaseState
                         /\ api'[a].at # "releaseCheck" /\ payloadOrg' = None
                              => api'[a].org = recordedOrg'
                    /\ tab'[a].at = "rejecting" => RecordSpent'
  BY DEF ReleaseKnows, Rejects
<1>1. /\ tab \in [Admins -> Tab] /\ api \in [Admins -> Handler]
      /\ tab[a] \in Tab /\ api[a] \in Handler /\ version \in Nat
      /\ tab[a].token \in Nat /\ tab[a].token <= version
  BY DEF IInv, TypeOK, Tab, Tokens
\* The tab was rejecting this attempt before the step.
<1>2. ASSUME tab'[a].token = tab[a].token,
             tab[a].at \in {"releasing", "rejecting"}
      PROVE  /\ Rejects(a) /\ version' = version /\ NoSetup
             /\ UNCHANGED <<payloadOrg, recordedOrg>>
             /\ RecordSpent => RecordSpent'
  <2>1. UNCHANGED <<stage, version>>
    BY <1>1, <1>2, VersionStep
  <2>2. Rejects(a)
    BY <1>2, <2>1 DEF Rejects
  <2>3. NoSetup
    BY <1>2, <2>2, QuietWhenRejecting
  <2>4. UNCHANGED <<payloadOrg, recordedOrg>>
    BY <1>1, <2>1, <2>3, RecordStays
  <2> QED BY <2>1, <2>2, <2>3, <2>4, SpentStays
<1>3. CASE tab'[a] = tab[a] /\ api'[a] = api[a]
  BY <1>2, <1>3 DEF ReleaseKnows
<1>4. CASE Run(a)
  BY <1>1, <1>4 DEF Run, Approve, CheckPublished, ProposeConfig,
     ConfirmPublished, MarkApplied, MarkApplyFailed, TabError, GoTo, Leave,
     NoTab, Tab
<1>5. CASE ApplyHandler(a)
  <2>1. tab'[a] = tab[a]
    BY <1>1, <1>5 DEF ApplyHandler, CheckApplying, LookUpOrg, CreateOrg, BindOrg,
       StaffOrg, RecordOrg, FindNode, InsertNode, RecordNode, Tab
  <2>2. api[a].at \in ApplyState
    BY <1>5 DEF ApplyHandler, CheckApplying, LookUpOrg, CreateOrg, BindOrg,
       StaffOrg, RecordOrg, FindNode, InsertNode, RecordNode, ApplyState
  <2> QED BY <1>2, <2>1, <2>2 DEF NoSetup
<1>6. CASE ApiError(a)
  <2>1. tab'[a] = tab[a] /\ tab[a].at # "releasing"
    BY <1>1, <1>6 DEF ApiError, NoTab, Tab
  <2> QED BY <1>2, <2>1 DEF ReleaseKnows
<1>7. CASE StartReject(a)
  BY <1>1, <1>7 DEF StartReject, ReleaseState, proposalVars, Free, NoHandler
<1>8. CASE ReleaseCheck(a)
  <2>1. /\ tab'[a] = tab[a] /\ api'[a].at = "releaseNode"
        /\ payloadOrg = None => api'[a].org = recordedOrg
    BY <1>1, <1>8 DEF ReleaseCheck, Handler
  <2> QED BY <1>2, <2>1 DEF ReleaseKnows, ReleaseState
<1>9. CASE ReleaseNode(a) \/ DeleteNode(a)
  <2>1. /\ tab'[a] = tab[a] /\ api[a].at \in {"releaseNode", "deleteNode"}
        /\ api'[a].at \in {"deleteNode", "releaseOrg"} /\ api'[a].org = api[a].org
    BY <1>1, <1>9 DEF ReleaseNode, DeleteNode, Proceed, Handler
  <2> QED BY <1>2, <2>1 DEF ReleaseKnows, ReleaseState
<1>10. CASE ReleaseOrg(a) /\ ~Released(a)
  <2>1. /\ tab'[a] = tab[a] /\ api[a].at = "releaseOrg"
        /\ api'[a].at = "deleteOrg" /\ api'[a].org = api[a].org
    BY <1>1, <1>10 DEF ReleaseOrg, Proceed, Handler
  <2> QED BY <1>2, <2>1 DEF ReleaseKnows, ReleaseState
<1>11. CASE (ReleaseOrg(a) \/ DeleteOrg(a)) /\ Released(a)
  <2>1. /\ tab'[a].at = "rejecting" /\ tab'[a].token = tab[a].token
        /\ tab[a].at \in {"releasing", "rejecting"}
    BY <1>1, <1>11 DEF Released, Tab
  <2>2. CASE tab[a].at = "rejecting"
    BY <1>2, <2>1, <2>2 DEF ReleaseKnows
  <2>3. CASE tab[a].at = "releasing"
    <3>1. payloadOrg = None => api[a].org = recordedOrg
      BY <1>2, <1>11, <2>1, <2>3 DEF ReleaseKnows, ReleaseOrg, DeleteOrg
    <3>2. UNCHANGED <<payloadOrg, recordedOrg>> /\ NoSetup
      BY <1>2, <2>1
    <3>3. CASE ReleaseOrg(a)
      <4>1. orgs' = orgs /\ (api[a].org = None \/ ~Unused(api[a].org)
                               \/ Proceed(a, "deleteOrg"))
        BY <3>3 DEF ReleaseOrg
      <4>2. ~Proceed(a, "deleteOrg")
        BY <1>1, <1>11 DEF Proceed, Released, NoHandler, Handler
      <4>3. None \notin Live(orgs)
        BY ConstantsAssumption, LenProperties DEF Live, IInv, TypeOK
      <4> QED BY <2>1, <3>1, <3>2, <4>1, <4>2, <4>3 DEF RecordSpent, Live, Unused
    <3>4. CASE DeleteOrg(a)
      <4>1. \A o \in Live(orgs') : o # api[a].org
        <5>1. orgs' = [orgs EXCEPT ![api[a].org] = None]
          BY <3>4 DEF DeleteOrg
        <5>2. orgs \in Seq(Org \cup {None})
          BY DEF IInv, TypeOK
        <5> QED BY <5>1, <5>2 DEF Live
      <4> QED BY <2>1, <3>1, <3>2, <4>1 DEF RecordSpent
    <3> QED BY <1>11, <3>3, <3>4
  <2> QED BY <2>1, <2>2, <2>3
<1>12. CASE Reject(a)
  BY <1>1, <1>12 DEF Reject, Leave, NoTab
<1>13. DeleteOrg(a) => Released(a)
  BY DEF DeleteOrg
<1> QED
  BY <1>3, <1>4, <1>5, <1>6, <1>7, <1>8, <1>9, <1>10, <1>11, <1>12, <1>13, OnlyOwn
     DEF Release

\* Unless a release raced a setup, a rejection leaves no recorded organization unused.
THEOREM RejectionSpends == HistorySpec => RejectionSpendsRecord
<1>1. HistoryInit => ReleaseInv
  BY DEF HistoryInit, Init, ReleaseInv, ReleaseKnows, Rejects
<1>2. HistoryInv /\ ReleaseInv /\ [HistoryNext]_<<vars, raced>> => ReleaseInv'
  <2> SUFFICES ASSUME HistoryInv, ReleaseInv, [HistoryNext]_<<vars, raced>>,
                      ~raced', NEW a \in Admins
               PROVE  ReleaseKnows(a)'
    BY DEF ReleaseInv
  <2>1. ~raced /\ [Next]_vars
    <3>1. CASE HistoryNext
      BY <3>1 DEF HistoryNext
    <3>2. CASE UNCHANGED <<vars, raced>>
      BY <3>2
    <3> QED BY <3>1, <3>2
  <2>2. IInv /\ Tokens /\ Unraced /\ ReleaseKnows(a)
    BY <2>1 DEF HistoryInv, ReleaseInv
  <2> QED BY <2>1, <2>2, ReleaseKnowsStep
<1>3. ASSUME HistoryInv, ReleaseInv, HistoryNext,
             stage = "failed", stage' = "rejected", ~raced
      PROVE  RecordSpent
  <2>1. PICK a \in Admins : tab[a].at = "rejecting" /\ version = tab[a].token
    BY <1>3, StageStep DEF HistoryInv, HistoryNext
  <2> QED BY <1>3, <2>1 DEF ReleaseInv, ReleaseKnows, Rejects
<1>4. HistoryInv /\ ReleaseInv /\ [HistoryNext]_<<vars, raced>> =>
        [stage = "failed" /\ stage' = "rejected" /\ ~raced => RecordSpent]_stage
  BY <1>3 DEF vars, proposalVars
<1> QED
  BY <1>1, <1>2, <1>4, HistoryInvariance, PTL DEF HistorySpec, RejectionSpendsRecord
=============================================================================
