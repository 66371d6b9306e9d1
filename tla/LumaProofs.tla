------------------------------- MODULE LumaProofs -------------------------------
(***************************************************************************)
(* Proofs about a node's Luma calendar, for any number of events,          *)
(* calendars, requests, servers and moderators.                            *)
(***************************************************************************)
EXTENDS LumaProperties, TLAPS

(***************************************************************************)
(* The inductive invariant.  One worker holds the node; while it does,     *)
(* nobody else changes an activity or the connection, so that what it read *)
(* is still true when it writes.                                           *)
(***************************************************************************)
OneHolder == \A v, w \in Workers : HoldsNode(v) /\ HoldsNode(w) => v = w

RowsAreCurrent ==
  \A w \in Workers : work[w].at = "disconnecting" => work[w].rows = activity

ConnectionIsCurrent ==
  \A w \in Timers :
    work[w].at \in {"fetching", "fetched"} =>
      connection # None /\ connection.calendar = work[w].calendar

CalendarsChosen ==
  \A w \in Workers :
    work[w].at \in {"locking", "fetching", "fetched"} =>
      work[w].calendar \in Calendars

EditionsInOrder ==
  /\ \A w \in Workers :
       work[w].at = "fetched" =>
         /\ work[w].edition <= edition
         /\ \A e \in Imported : activity[e].edition <= work[w].edition
  /\ \A e \in Imported : activity[e].edition <= edition

ModeratedExist ==
  \A m \in Moderators : moderating[m] # None => activity[moderating[m]] # None

IInv ==
  /\ TypeOK
  /\ PublishedIsShown
  /\ DisconnectedIsWithdrawn
  /\ OneHolder
  /\ RowsAreCurrent
  /\ ConnectionIsCurrent
  /\ CalendarsChosen
  /\ EditionsInOrder
  /\ ModeratedExist
-----------------------------------------------------------------------------
LEMMA IdleType == Idle \in Work /\ NoRows \in [Events -> Row \cup {None}]
BY DEF Idle, Work, NoRows

LEMMA RowFields ==
  ASSUME NEW row \in Row
  PROVE  /\ row # None
         /\ row.status \in {"draft", "published", "cancelled"}
         /\ row.available \in BOOLEAN
         /\ row.hidden \in BOOLEAN \cup {None}
         /\ row.edition \in Nat
BY ConstantsAssumption DEF Row

LEMMA Initially == Init => IInv
<1> SUFFICES ASSUME Init PROVE IInv
  OBVIOUS
<1>1. LegacyRow \in Row
  BY DEF LegacyRow, Row
<1>2. connection \in Connection \cup {None}
  BY DEF Init, Connection
<1>3. activity \in [Events -> Row \cup {None}]
  BY <1>1 DEF Init
<1>4. TypeOK
  BY <1>2, <1>3, IdleType DEF Init, TypeOK
<1>5. \A e \in Imported : activity[e] = LegacyRow
  BY DEF Init, Imported
<1>6. PublishedIsShown
  <2>1. None # TRUE
    BY ConstantsAssumption
  <2>2. LegacyRow.available = TRUE /\ LegacyRow.hidden = None
    BY DEF LegacyRow
  <2>3. QED
    BY <1>5, <2>1, <2>2 DEF PublishedIsShown
<1>7. DisconnectedIsWithdrawn
  <2>1. ASSUME connection = None PROVE Imported = {}
    <3>1. activity = NoRows
      BY <2>1, ConstantsAssumption DEF Init, Connection
    <3>2. QED
      BY <3>1 DEF Imported, NoRows
  <2>2. QED
    BY <2>1 DEF DisconnectedIsWithdrawn
<1>8. \A w \in Workers : work[w].at = "idle"
  BY DEF Init, Idle
<1>9. OneHolder /\ RowsAreCurrent /\ ConnectionIsCurrent /\ CalendarsChosen
  BY <1>8 DEF OneHolder, RowsAreCurrent, ConnectionIsCurrent, CalendarsChosen,
              HoldsNode, Workers
<1>10. EditionsInOrder
  <2>1. edition = 1 /\ LegacyRow.edition = 0
    BY DEF Init, LegacyRow
  <2>2. QED
    BY <1>5, <1>8, <2>1 DEF EditionsInOrder
<1>11. ModeratedExist
  BY DEF Init, ModeratedExist
<1>12. QED
  BY <1>4, <1>6, <1>7, <1>9, <1>10, <1>11 DEF IInv
-----------------------------------------------------------------------------
(***************************************************************************)
(* What a step does to the invariant, by what it changes.                  *)
(***************************************************************************)
\* A step of one worker that writes nothing.
LEMMA WorkerMoves ==
  ASSUME IInv, NEW w \in Workers, NEW task \in Work, Become(w, task),
         UNCHANGED <<store, luma, moderating>>, restarts' \in Nat,
         task.at \in {"fetching", "fetched", "disconnecting"} =>
           HoldsNode(w) \/ NodeFree,
         task.at = "disconnecting" => task.rows = activity,
         w \in Timers /\ task.at \in {"fetching", "fetched"} =>
           connection # None /\ connection.calendar = task.calendar,
         task.at \in {"locking", "fetching", "fetched"} =>
           task.calendar \in Calendars,
         task.at = "fetched" =>
           /\ task.edition <= edition
           /\ \A e \in Imported : activity[e].edition <= task.edition
  PROVE  IInv'
<1> USE DEF Become
<1>1. work \in [Workers -> Work]
  BY DEF IInv, TypeOK
<1>2. work' = [work EXCEPT ![w] = task] /\ work'[w] = task
  BY <1>1
<1>3. \A v \in Workers : v # w => work'[v] = work[v]
  BY <1>1, <1>2
<1>4. UNCHANGED <<connection, activity, listing, edition, taken, moderating>>
  BY DEF store, luma
<1>5. TypeOK'
  BY <1>1, <1>2, <1>4 DEF IInv, TypeOK
<1>6. PublishedIsShown' /\ DisconnectedIsWithdrawn' /\ ModeratedExist'
  BY <1>4 DEF IInv, PublishedIsShown, DisconnectedIsWithdrawn, ModeratedExist,
              Imported
<1>7. OneHolder'
  <2>1. ASSUME NEW v \in Workers, v # w, HoldsNode(v)', HoldsNode(w)'
        PROVE  FALSE
    <3>1. HoldsNode(v)
      BY <1>3, <2>1 DEF HoldsNode
    <3>2. HoldsNode(w) \/ NodeFree
      BY <1>2, <2>1 DEF HoldsNode
    <3>3. QED
      BY <2>1, <3>1, <3>2 DEF IInv, OneHolder, NodeFree
  <2>2. ASSUME NEW u \in Workers, NEW v \in Workers, u # v,
               HoldsNode(u)', HoldsNode(v)'
        PROVE  FALSE
    <3>1. CASE u = w
      BY <2>1, <2>2, <3>1
    <3>2. CASE v = w
      BY <2>1, <2>2, <3>2
    <3>3. CASE u # w /\ v # w
      BY <1>3, <2>2, <3>3 DEF IInv, OneHolder, HoldsNode
    <3>4. QED
      BY <3>1, <3>2, <3>3
  <2>3. QED
    BY <2>2 DEF OneHolder
<1>8. RowsAreCurrent'
  BY <1>2, <1>3, <1>4 DEF IInv, RowsAreCurrent
<1>9. ConnectionIsCurrent' /\ CalendarsChosen'
  BY <1>2, <1>3, <1>4 DEF IInv, ConnectionIsCurrent, CalendarsChosen, Workers
<1>10. EditionsInOrder'
  BY <1>2, <1>3, <1>4 DEF IInv, EditionsInOrder, Imported
<1>11. QED
  BY <1>5, <1>6, <1>7, <1>8, <1>9, <1>10 DEF IInv

\* A step that neither writes nor moves a worker.
LEMMA OthersMove ==
  ASSUME IInv, TypeOK', UNCHANGED <<store, work>>,
         edition' = edition \/ edition' = edition + 1, ModeratedExist'
  PROVE  IInv'
<1>1. UNCHANGED <<connection, activity, work>>
  BY DEF store
<1>2. PublishedIsShown' /\ DisconnectedIsWithdrawn' /\ OneHolder'
      /\ RowsAreCurrent' /\ ConnectionIsCurrent' /\ CalendarsChosen'
  BY <1>1 DEF IInv, PublishedIsShown, DisconnectedIsWithdrawn, OneHolder,
              RowsAreCurrent, ConnectionIsCurrent, CalendarsChosen, Imported,
              HoldsNode
<1>3. EditionsInOrder'
  <2>1. edition \in Nat
    BY DEF IInv, TypeOK
  <2>2. \A e \in Imported : activity[e].edition \in Nat
    BY RowFields DEF IInv, TypeOK, Imported
  <2>3. \A w \in Workers : work[w].edition \in Nat
    BY DEF IInv, TypeOK, Work
  <2>4. EditionsInOrder /\ Imported' = Imported
    BY <1>1 DEF IInv, Imported
  <2>5. ASSUME NEW w \in Workers, work[w].at = "fetched"
        PROVE  work[w].edition <= edition'
    BY <2>1, <2>3, <2>4, <2>5 DEF EditionsInOrder
  <2>6. ASSUME NEW e \in Imported PROVE activity[e].edition <= edition'
    BY <2>1, <2>2, <2>4, <2>6 DEF EditionsInOrder
  <2>7. QED
    BY <1>1, <2>4, <2>5, <2>6 DEF EditionsInOrder
<1>4. QED
  BY <1>2, <1>3 DEF IInv

\* A step that changes one row while nobody holds the node.
LEMMA RowChanges ==
  ASSUME IInv, NodeFree, NEW e \in Imported, NEW row \in Row,
         row.available = activity[e].available,
         row.edition = activity[e].edition,
         row.status = "published" => row.available /\ row.hidden # TRUE,
         activity' = [activity EXCEPT ![e] = row],
         UNCHANGED <<connection, luma, work, restarts>>,
         moderating' \in [Moderators -> Events \cup {None}],
         \A m \in Moderators : moderating'[m] \in {moderating[m], None}
  PROVE  IInv'
<1>1. activity \in [Events -> Row \cup {None}] /\ e \in Events
  BY DEF IInv, TypeOK, Imported
<1>2. row # None
  BY RowFields
<1>3. activity' \in [Events -> Row \cup {None}]
  BY <1>1
<1>4. activity'[e] = row /\ \A f \in Events : f # e => activity'[f] = activity[f]
  BY <1>1
<1>5. Imported' = Imported
  BY <1>2, <1>4 DEF Imported
<1>6. UNCHANGED <<listing, edition, taken>>
  BY DEF luma
<1>7. TypeOK'
  BY <1>3, <1>6 DEF IInv, TypeOK
<1>8. PublishedIsShown'
  BY <1>1, <1>4, <1>5 DEF IInv, PublishedIsShown, Imported
<1>9. DisconnectedIsWithdrawn'
  BY <1>1, <1>4, <1>5 DEF IInv, DisconnectedIsWithdrawn, Imported
<1>10. \A w \in Workers : ~HoldsNode(w) /\ ~HoldsNode(w)'
  BY DEF NodeFree, HoldsNode
<1>11. OneHolder' /\ RowsAreCurrent' /\ ConnectionIsCurrent' /\ CalendarsChosen'
  BY <1>10 DEF IInv, OneHolder, RowsAreCurrent, ConnectionIsCurrent,
               CalendarsChosen, HoldsNode, Workers
<1>12. EditionsInOrder'
  <2>1. \A f \in Imported' : activity'[f].edition = activity[f].edition
    BY <1>1, <1>4, <1>5 DEF Imported
  <2>2. QED
    BY <1>5, <1>6, <2>1 DEF IInv, EditionsInOrder
<1>13. ModeratedExist'
  <2>1. ASSUME NEW m \in Moderators, moderating'[m] # None
        PROVE  activity'[moderating'[m]] # None
    <3>1. moderating'[m] = moderating[m] /\ moderating[m] \in Events
      BY <2>1
    <3>2. moderating[m] \in Imported
      BY <2>1, <3>1 DEF IInv, ModeratedExist, Imported
    <3>3. QED
      BY <1>5, <3>1, <3>2 DEF Imported
  <2>2. QED
    BY <2>1 DEF ModeratedExist
<1>14. QED
  BY <1>7, <1>8, <1>9, <1>11, <1>12, <1>13 DEF IInv

\* A step that ends the work of one worker and writes, under the node's lock.
LEMMA HolderWrites ==
  ASSUME IInv, NEW w \in Workers, HoldsNode(w), Become(w, Idle),
         connection' \in Connection \cup {None},
         activity' \in [Events -> Row \cup {None}],
         Imported \subseteq Imported',
         UNCHANGED <<luma, moderating, restarts>>,
         PublishedIsShown', DisconnectedIsWithdrawn',
         \A e \in Imported' : activity'[e].edition <= edition
  PROVE  IInv'
<1> USE DEF Become
<1>1. work \in [Workers -> Work]
  BY DEF IInv, TypeOK
<1>2. work'[w] = Idle /\ \A v \in Workers : v # w => work'[v] = work[v]
  BY <1>1
<1>3. UNCHANGED <<listing, edition, taken>>
  BY DEF luma
<1>4. TypeOK'
  BY <1>1, <1>3, IdleType DEF IInv, TypeOK
<1>5. \A v \in Workers : work'[v].at \in {"idle", "locking", "failed"}
  <2>1. ASSUME NEW v \in Workers, v # w PROVE ~HoldsNode(v)
    BY <2>1 DEF IInv, OneHolder
  <2>2. \A v \in Workers : work[v].at \in
          {"idle", "locking", "fetching", "fetched", "failed", "disconnecting"}
    BY <1>1 DEF Work
  <2>3. Idle.at = "idle"
    BY DEF Idle
  <2>4. QED
    BY <1>2, <2>1, <2>2, <2>3 DEF HoldsNode
<1>6. OneHolder' /\ RowsAreCurrent' /\ ConnectionIsCurrent'
  BY <1>5 DEF OneHolder, RowsAreCurrent, ConnectionIsCurrent, HoldsNode, Workers
<1>7. CalendarsChosen'
  <2>1. Idle.at = "idle"
    BY DEF Idle
  <2>2. QED
    BY <1>2, <2>1 DEF IInv, CalendarsChosen
<1>8. EditionsInOrder'
  BY <1>3, <1>5 DEF EditionsInOrder
<1>9. ModeratedExist'
  <2>1. ASSUME NEW m \in Moderators, moderating[m] # None
        PROVE  activity'[moderating[m]] # None
    <3>1. moderating[m] \in Imported
      BY <2>1 DEF IInv, TypeOK, ModeratedExist, Imported
    <3>2. QED
      BY <3>1 DEF Imported
  <2>2. QED
    BY <2>1 DEF ModeratedExist
<1>10. QED
  BY <1>4, <1>6, <1>7, <1>8, <1>9 DEF IInv
-----------------------------------------------------------------------------
(***************************************************************************)
(* The two writers.                                                        *)
(***************************************************************************)
LEMMA Listed ==
  ASSUME NEW w \in Workers, NEW e \in Events,
         activity[e] \in Row \cup {None}, work[w].edition \in Nat
  PROVE  /\ ListedRow(w, activity[e]) \in Row
         /\ ListedRow(w, activity[e]).available = TRUE
         /\ ListedRow(w, activity[e]).edition = work[w].edition
         /\ ListedRow(w, activity[e]).status = "published" =>
              /\ ListedRow(w, activity[e]).hidden = FALSE
              /\ activity[e] # None /\ activity[e].hidden = FALSE
         /\ activity[e] # None /\ activity[e].hidden = TRUE =>
              ListedRow(w, activity[e]).hidden = TRUE
<1> DEFINE hidden == IF activity[e] = None \/ activity[e].hidden = None
                       THEN TRUE ELSE activity[e].hidden
<1>1. hidden \in BOOLEAN
  BY RowFields
<1>2. ListedRow(w, activity[e]) =
        [status |-> IF hidden THEN "draft" ELSE "published",
         available |-> TRUE, hidden |-> hidden, edition |-> work[w].edition]
  BY DEF ListedRow
<1> HIDE DEF hidden
<1>3. /\ ListedRow(w, activity[e]) \in Row
      /\ ListedRow(w, activity[e]).available = TRUE
      /\ ListedRow(w, activity[e]).edition = work[w].edition
      /\ ListedRow(w, activity[e]).hidden = hidden
      /\ ListedRow(w, activity[e]).status = "published" => hidden = FALSE
  BY <1>1, <1>2 DEF Row
<1>4. hidden = FALSE => activity[e] # None /\ activity[e].hidden = FALSE
  BY DEF hidden
<1>5. activity[e] # None /\ activity[e].hidden = TRUE => hidden = TRUE
  <2>1. None # TRUE
    BY ConstantsAssumption
  <2>2. QED
    BY <2>1 DEF hidden
<1>6. QED
  BY <1>3, <1>4, <1>5

LEMMA Withdrawn ==
  ASSUME NEW row \in Row
  PROVE  /\ WithdrawnRow(row) \in Row
         /\ WithdrawnRow(row).status = "draft"
         /\ WithdrawnRow(row).available = FALSE
         /\ WithdrawnRow(row).hidden = row.hidden
         /\ WithdrawnRow(row).edition = row.edition
BY DEF WithdrawnRow, Row

\* An import leaves each row alone, renews it or withdraws it.
LEMMA ApplyRows ==
  ASSUME IInv, NEW w \in Workers, Apply(w), NEW e \in Events
  PROVE  \/ activity'[e] = activity[e]
             /\ (e \in Imported => e \in work[w].snapshot)
         \/ activity'[e] = ListedRow(w, activity[e])
         \/ e \in Imported /\ activity'[e] = WithdrawnRow(activity[e])
BY DEF Apply, Imported

LEMMA DisconnectRows ==
  ASSUME IInv, NEW w \in Workers, Disconnect(w), NEW e \in Events
  PROVE  activity'[e] = IF e \in Imported THEN WithdrawnRow(activity[e]) ELSE None
<1>1. work[w].rows = activity
  BY DEF Disconnect, IInv, RowsAreCurrent
<1>2. QED
  BY <1>1 DEF Disconnect, Imported

LEMMA Applies ==
  ASSUME IInv, NEW w \in Workers, Apply(w)
  PROVE  IInv'
<1>1. /\ activity \in [Events -> Row \cup {None}] /\ edition \in Nat
      /\ work[w] \in Work
  BY DEF IInv, TypeOK
<1>2. HoldsNode(w) /\ work[w].at = "fetched" /\ work[w].calendar \in Calendars
  BY DEF Apply, HoldsNode, IInv, CalendarsChosen
<1>3. /\ work[w].edition \in Nat /\ work[w].edition <= edition
      /\ \A e \in Imported : activity[e].edition <= edition
  BY <1>1, <1>2 DEF IInv, EditionsInOrder, Work
<1>4. connection' \in Connection
  BY <1>2 DEF Apply, Connection
<1>5. ASSUME NEW e \in Events
      PROVE  /\ activity'[e] \in Row \cup {None}
             /\ e \in Imported => activity'[e] # None
             /\ activity'[e] # None =>
                  /\ activity'[e].status = "published" =>
                       activity'[e].available /\ activity'[e].hidden # TRUE
                  /\ activity'[e].edition <= edition
  <2>1. activity[e] \in Row \cup {None}
    BY <1>1
  <2>2. CASE activity'[e] = activity[e]
    BY <1>3, <2>1, <2>2 DEF IInv, PublishedIsShown, Imported
  <2>3. CASE activity'[e] = ListedRow(w, activity[e])
    <3> DEFINE row == ListedRow(w, activity[e])
    <3>1. /\ row \in Row /\ row.available = TRUE
          /\ row.edition = work[w].edition
          /\ row.status = "published" => row.hidden = FALSE
      BY <1>3, <2>1, Listed
    <3> HIDE DEF row
    <3>2. row # None /\ activity'[e] = row
      <4>1. row # None
        BY ONLY <3>1, RowFields
      <4>2. QED
        BY <2>3, <4>1 DEF row
    <3>3. QED
      BY <1>3, <3>1, <3>2
  <2>4. CASE e \in Imported /\ activity'[e] = WithdrawnRow(activity[e])
    <3> DEFINE row == WithdrawnRow(activity[e])
    <3>1. activity[e] \in Row
      BY <2>1, <2>4 DEF Imported
    <3>2. /\ row \in Row /\ row.status = "draft" /\ row.available = FALSE
          /\ row.edition = activity[e].edition
      BY ONLY <3>1, Withdrawn
    <3> HIDE DEF row
    <3>3. row # None
      BY ONLY <3>2, RowFields
    <3>4. activity'[e] = row
      BY <2>4 DEF row
    <3>5. QED
      BY <1>3, <2>4, <3>2, <3>3, <3>4
  <2>5. QED
    BY <1>5, <2>2, <2>3, <2>4, ApplyRows
<1>6. activity' \in [Events -> Row \cup {None}]
  <2>1. activity' = [e \in Events |-> activity'[e]]
    BY DEF Apply
  <2>2. QED
    BY <1>5, <2>1
<1>7. Imported \subseteq Imported'
  BY <1>5 DEF Imported
<1>8. PublishedIsShown'
  BY <1>5 DEF PublishedIsShown, Imported
<1>9. DisconnectedIsWithdrawn'
  BY <1>4, ConstantsAssumption DEF DisconnectedIsWithdrawn
<1>10. \A e \in Imported' : activity'[e].edition <= edition
  BY <1>5 DEF Imported
<1>11. Become(w, Idle) /\ UNCHANGED <<luma, moderating, restarts>>
  BY DEF Apply
<1>12. QED
  BY <1>2, <1>4, <1>6, <1>7, <1>8, <1>9, <1>10, <1>11, HolderWrites

LEMMA Disconnects ==
  ASSUME IInv, NEW w \in Workers, Disconnect(w)
  PROVE  IInv'
<1>1. activity \in [Events -> Row \cup {None}]
  BY DEF IInv, TypeOK
<1>2. ASSUME NEW e \in Events
      PROVE  /\ activity'[e] \in Row \cup {None}
             /\ e \in Imported <=> activity'[e] # None
             /\ activity'[e] # None =>
                  /\ activity'[e].status = "draft"
                  /\ activity'[e].available = FALSE
                  /\ activity'[e].edition = activity[e].edition
  <2>1. CASE e \in Imported
    <3> DEFINE row == WithdrawnRow(activity[e])
    <3>1. activity[e] \in Row
      BY <1>1, <2>1 DEF Imported
    <3>2. /\ row \in Row /\ row.status = "draft" /\ row.available = FALSE
          /\ row.edition = activity[e].edition
      BY ONLY <3>1, Withdrawn
    <3>3. activity'[e] = row
      BY <2>1, DisconnectRows
    <3> HIDE DEF row
    <3>4. row # None
      BY ONLY <3>2, RowFields
    <3>5. QED
      BY <2>1, <3>2, <3>3, <3>4
  <2>2. CASE e \notin Imported
    BY <2>2, DisconnectRows
  <2>3. QED
    BY <2>1, <2>2
<1>3. activity' \in [Events -> Row \cup {None}]
  <2>1. activity' = [e \in Events |-> activity'[e]]
    BY DEF Disconnect
  <2>2. QED
    BY <1>2, <2>1
<1>4. Imported' = Imported
  BY <1>2 DEF Imported
<1>5. PublishedIsShown' /\ DisconnectedIsWithdrawn'
  BY <1>2 DEF PublishedIsShown, DisconnectedIsWithdrawn, Imported
<1>6. \A e \in Imported' : activity'[e].edition <= edition
  BY <1>2, <1>4 DEF IInv, EditionsInOrder, Imported
<1>7. /\ HoldsNode(w) /\ Become(w, Idle) /\ connection' = None
      /\ UNCHANGED <<luma, moderating, restarts>>
  BY DEF Disconnect, HoldsNode
<1>8. QED
  BY <1>3, <1>4, <1>5, <1>6, <1>7, HolderWrites

\* A step that changes no more of the connection than whether it is due, and
\* whether the last import failed.
LEMMA ConnectionMarked ==
  ASSUME IInv, connection' \in Connection \cup {None},
         connection' = None <=> connection = None,
         connection # None => connection'.calendar = connection.calendar,
         UNCHANGED <<activity, luma, moderating, restarts>>,
         UNCHANGED work \/ \E w \in Workers : Become(w, Idle)
  PROVE  IInv'
<1>1. work \in [Workers -> Work] /\ Idle.at = "idle"
  BY DEF IInv, TypeOK, Idle
<1>2. work' \in [Workers -> Work]
      /\ \A v \in Workers : work'[v] = work[v] \/ work'[v].at = "idle"
  BY <1>1, IdleType DEF Become
<1>3. UNCHANGED <<activity, listing, edition, taken, moderating, restarts>>
  BY DEF luma
<1>4. TypeOK' /\ PublishedIsShown' /\ DisconnectedIsWithdrawn' /\ ModeratedExist'
  BY <1>2, <1>3 DEF IInv, TypeOK, PublishedIsShown, DisconnectedIsWithdrawn,
                    ModeratedExist, Imported
<1>5. \A v \in Workers : HoldsNode(v)' => HoldsNode(v)
  BY <1>2 DEF HoldsNode
<1>6. OneHolder' /\ RowsAreCurrent' /\ CalendarsChosen' /\ EditionsInOrder'
  BY <1>2, <1>3, <1>5 DEF IInv, OneHolder, RowsAreCurrent, CalendarsChosen,
                          EditionsInOrder, Imported
<1>7. ConnectionIsCurrent'
  BY <1>2 DEF IInv, ConnectionIsCurrent, Workers
<1>8. QED
  BY <1>4, <1>6, <1>7 DEF IInv
-----------------------------------------------------------------------------
(***************************************************************************)
(* The other actions.                                                      *)
(***************************************************************************)
LEMMA Starts ==
  ASSUME IInv, NEW w \in Workers,
         \/ w \in Editors /\ \E c \in Calendars : StartImport(w, c)
         \/ w \in Timers /\ StartDue(w)
  PROVE  IInv'
<1>1. PICK c \in Calendars :
        /\ Become(w, [Idle EXCEPT !.at = "locking", !.calendar = c])
        /\ UNCHANGED <<store, luma, moderating, restarts>>
  BY DEF StartImport, StartDue, IInv, TypeOK, Connection
<1> DEFINE task == [Idle EXCEPT !.at = "locking", !.calendar = c]
<1>2. task \in Work /\ task.at = "locking" /\ task.calendar = c
  BY IdleType DEF Idle, Work
<1>3. restarts' \in Nat
  BY <1>1 DEF IInv, TypeOK
<1> HIDE DEF task
<1>4. Become(w, task)
  BY <1>1 DEF task
<1>5. QED
  BY <1>1, <1>2, <1>3, <1>4, WorkerMoves

LEMMA Locks ==
  ASSUME IInv, NEW w \in Workers, LockNode(w)
  PROVE  IInv'
<1> DEFINE task == IF w \in Editors \/ StillDue(w)
                     THEN [work[w] EXCEPT !.at = "fetching"] ELSE Idle
<1>1. /\ work[w] \in Work /\ work[w].at = "locking"
      /\ work[w].calendar \in Calendars
  BY DEF LockNode, IInv, TypeOK, CalendarsChosen
<1>2. task \in Work /\ task.at \in {"fetching", "idle"}
      /\ (task.at = "fetching" =>
            task.calendar = work[w].calendar /\ (w \in Editors \/ StillDue(w)))
  BY <1>1, IdleType DEF Work, Idle
<1>3. Become(w, task) /\ NodeFree /\ UNCHANGED <<store, luma, moderating>>
      /\ restarts' \in Nat
  BY DEF LockNode, IInv, TypeOK
<1> HIDE DEF task
<1>4. w \in Timers /\ task.at = "fetching" =>
        connection # None /\ connection.calendar = task.calendar
  BY <1>2, ConstantsAssumption DEF StillDue
<1>5. QED
  BY <1>1, <1>2, <1>3, <1>4, WorkerMoves

LEMMA Fetches ==
  ASSUME IInv, NEW w \in Workers, Fetch(w)
  PROVE  IInv'
<1> DEFINE task == [work[w] EXCEPT !.at = "fetched", !.edition = edition,
                                   !.snapshot = listing[work[w].calendar]]
<1>1. /\ work[w] \in Work /\ work[w].at = "fetching" /\ HoldsNode(w)
      /\ work[w].calendar \in Calendars /\ edition \in Nat
      /\ listing[work[w].calendar] \in SUBSET Events
  BY DEF Fetch, HoldsNode, IInv, TypeOK, CalendarsChosen
<1>2. task \in Work /\ task.at = "fetched" /\ task.edition = edition
      /\ task.calendar = work[w].calendar
  BY <1>1 DEF Work
<1>3. Become(w, task) /\ UNCHANGED <<store, luma, moderating>>
      /\ restarts' \in Nat
  BY DEF Fetch, IInv, TypeOK
<1> HIDE DEF task
<1>4. w \in Timers => connection # None /\ connection.calendar = task.calendar
  BY <1>1, <1>2 DEF IInv, ConnectionIsCurrent
<1>5. task.edition <= edition
      /\ \A e \in Imported : activity[e].edition <= task.edition
  BY <1>1, <1>2 DEF IInv, EditionsInOrder
<1>6. QED
  BY <1>1, <1>2, <1>3, <1>4, <1>5, WorkerMoves

LEMMA Fails ==
  ASSUME IInv, NEW w \in Workers, Fail(w)
  PROVE  IInv'
<1> DEFINE task == IF w \in Editors THEN Idle
                                    ELSE [work[w] EXCEPT !.at = "failed"]
<1>1. work[w] \in Work
  BY DEF IInv, TypeOK
<1>2. task \in Work /\ task.at \in {"idle", "failed"}
  BY <1>1, IdleType DEF Work, Idle
<1>3. Become(w, task) /\ UNCHANGED <<store, luma, moderating>>
      /\ restarts' \in Nat
  BY DEF Fail, IInv, TypeOK
<1> HIDE DEF task
<1>4. QED
  BY <1>2, <1>3, WorkerMoves

LEMMA Restarts ==
  ASSUME IInv, NEW w \in Workers, Restart(w)
  PROVE  IInv'
<1>1. Idle \in Work /\ Idle.at = "idle"
  BY IdleType DEF Idle
<1>2. Become(w, Idle) /\ UNCHANGED <<store, luma, moderating>>
      /\ restarts' \in Nat
  BY DEF Restart, IInv, TypeOK
<1>3. QED
  BY <1>1, <1>2, WorkerMoves

LEMMA ReadsRows ==
  ASSUME IInv, NEW w \in Workers, ReadRows(w)
  PROVE  IInv'
<1> DEFINE task == [Idle EXCEPT !.at = "disconnecting", !.rows = activity]
<1>1. activity \in [Events -> Row \cup {None}]
  BY DEF IInv, TypeOK
<1>2. task \in Work /\ task.at = "disconnecting" /\ task.rows = activity
  BY <1>1, IdleType DEF Work, Idle
<1>3. Become(w, task) /\ UNCHANGED <<store, luma, moderating>>
      /\ restarts' \in Nat /\ NodeFree
  BY DEF ReadRows, IInv, TypeOK
<1> HIDE DEF task
<1>4. QED
  BY <1>2, <1>3, WorkerMoves

LEMMA RecordsFailure ==
  ASSUME IInv, NEW w \in Workers, RecordFailure(w)
  PROVE  IInv'
<1>1. connection \in Connection \cup {None}
  BY DEF IInv, TypeOK
<1>2. /\ connection' \in Connection \cup {None}
      /\ connection' = None <=> connection = None
      /\ connection # None => connection'.calendar = connection.calendar
  BY <1>1, ConstantsAssumption DEF RecordFailure, Connection
<1>3. UNCHANGED <<activity, luma, moderating, restarts>> /\ Become(w, Idle)
  BY DEF RecordFailure
<1>4. QED
  BY <1>2, <1>3, ConnectionMarked

LEMMA BecomesDue ==
  ASSUME IInv, BecomeDue
  PROVE  IInv'
<1>1. connection \in Connection
  BY DEF BecomeDue, IInv, TypeOK
<1>2. connection' \in Connection /\ connection'.calendar = connection.calendar
  BY <1>1 DEF BecomeDue, Connection
<1>3. connection # None /\ connection' # None
  BY <1>1, <1>2, ConstantsAssumption
<1>4. UNCHANGED <<activity, luma, moderating, restarts>> /\ UNCHANGED work
  BY DEF BecomeDue
<1>5. QED
  BY <1>2, <1>3, <1>4, ConnectionMarked

LEMMA SetsStatus ==
  ASSUME IInv, NEW e \in Events,
         NEW status \in {"draft", "published", "cancelled"},
         SetStatus(e, status)
  PROVE  IInv'
<1> DEFINE row == [activity[e] EXCEPT !.status = status,
                                      !.hidden = status # "published"]
<1>1. /\ activity \in [Events -> Row \cup {None}] /\ e \in Imported
      /\ activity[e] \in Row /\ moderating \in [Moderators -> Events \cup {None}]
  BY DEF IInv, TypeOK, SetStatus, Imported
<1>2. /\ row \in Row /\ row.available = activity[e].available
      /\ row.edition = activity[e].edition
      /\ row.status = status /\ row.hidden = (status # "published")
  BY <1>1 DEF Row
<1>3. row.status = "published" => row.available /\ row.hidden # TRUE
  BY <1>2 DEF SetStatus
<1>4. activity' = [activity EXCEPT ![e] = row]
  BY <1>1 DEF SetStatus, Row
<1>5. NodeFree /\ UNCHANGED <<connection, luma, work, restarts>>
      /\ moderating' = moderating
  BY DEF SetStatus
<1> HIDE DEF row
<1>6. QED
  BY <1>1, <1>2, <1>3, <1>4, <1>5, RowChanges

LEMMA Unpublishes ==
  ASSUME IInv, NEW m \in Moderators, Unpublish(m)
  PROVE  IInv'
<1> DEFINE e == moderating[m]
           row == [activity[e] EXCEPT !.status = "draft", !.hidden = TRUE]
<1>1. /\ activity \in [Events -> Row \cup {None}]
      /\ moderating \in [Moderators -> Events \cup {None}]
      /\ e \in Imported /\ activity[e] \in Row
  BY DEF IInv, TypeOK, ModeratedExist, Unpublish, Imported
<1>2. /\ row \in Row /\ row.available = activity[e].available
      /\ row.edition = activity[e].edition /\ row.status = "draft"
  BY <1>1 DEF Row
<1>3. activity' = [activity EXCEPT ![e] = row]
  BY <1>1 DEF Unpublish, Row
<1>4. NodeFree /\ UNCHANGED <<connection, luma, work, restarts>>
  BY DEF Unpublish
<1>5. /\ moderating' \in [Moderators -> Events \cup {None}]
      /\ \A k \in Moderators : moderating'[k] \in {moderating[k], None}
  BY <1>1 DEF Unpublish
<1> HIDE DEF row, e
<1>6. QED
  BY <1>1, <1>2, <1>3, <1>4, <1>5, RowChanges

LEMMA Moderates ==
  ASSUME IInv, NEW m \in Moderators,
         GiveUp(m) \/ \E e \in Events : LockRow(m, e)
  PROVE  IInv'
<1>1. moderating \in [Moderators -> Events \cup {None}]
  BY DEF IInv, TypeOK
<1>2. UNCHANGED <<store, luma, work, restarts>>
  BY DEF GiveUp, LockRow
<1>3. UNCHANGED <<connection, activity, listing, edition, taken>>
  BY <1>2 DEF store, luma
<1>4. /\ moderating' \in [Moderators -> Events \cup {None}]
      /\ \A k \in Moderators :
           \/ moderating'[k] = moderating[k] \/ moderating'[k] = None
           \/ activity[moderating'[k]] # None
  BY <1>1 DEF GiveUp, LockRow
<1>5. TypeOK' /\ ModeratedExist'
  BY <1>2, <1>3, <1>4 DEF IInv, TypeOK, ModeratedExist
<1>6. QED
  BY <1>2, <1>3, <1>5, OthersMove

LEMMA Relists ==
  ASSUME IInv, Relist
  PROVE  IInv'
<1>1. UNCHANGED <<store, work, moderating, restarts>> /\ edition' = edition + 1
  BY DEF Relist
<1>2. UNCHANGED <<connection, activity>>
  BY <1>1 DEF store
<1>3. TypeOK' /\ ModeratedExist'
  BY <1>1, <1>2 DEF IInv, TypeOK, ModeratedExist, Relist
<1>4. QED
  BY <1>1, <1>3, OthersMove

LEMMA Invariance ==
  ASSUME IInv, [Next]_vars
  PROVE  IInv'
<1>1. CASE \E w \in Workers : Sync(w) \/ Restart(w)
  BY <1>1, Locks, Fetches, Applies, Fails, Restarts DEF Sync
<1>2. ASSUME NEW w \in Editors,
             (\E c \in Calendars : StartImport(w, c)) \/ ReadRows(w)
               \/ Disconnect(w)
      PROVE  IInv'
  BY <1>2, Starts, ReadsRows, Disconnects DEF Workers
<1>3. ASSUME NEW w \in Timers, StartDue(w) \/ RecordFailure(w)
      PROVE  IInv'
  BY <1>3, Starts, RecordsFailure DEF Workers
<1>4. CASE \E e \in Events, status \in {"draft", "published", "cancelled"} :
             SetStatus(e, status)
  BY <1>4, SetsStatus
<1>5. ASSUME NEW m \in Moderators,
             (\E e \in Events : LockRow(m, e)) \/ Unpublish(m) \/ GiveUp(m)
      PROVE  IInv'
  BY <1>5, Moderates, Unpublishes
<1>6. CASE BreakDeadlock
  BY <1>6, Fails, Moderates DEF BreakDeadlock
<1>7. CASE Relist \/ BecomeDue
  BY <1>7, Relists, BecomesDue
<1>8. CASE UNCHANGED vars
  <2>1. UNCHANGED <<store, work, luma, moderating, restarts>>
    BY <1>8 DEF vars
  <2>2. TypeOK' /\ ModeratedExist'
    BY <2>1 DEF IInv, TypeOK, ModeratedExist, store, luma
  <2>3. edition' = edition
    BY <2>1 DEF luma
  <2>4. QED
    BY <2>1, <2>2, <2>3, OthersMove
<1>9. QED
  BY <1>1, <1>2, <1>3, <1>4, <1>5, <1>6, <1>7, <1>8 DEF Next

\* The invariant holds in every state.
THEOREM Invariant == Spec => []IInv
<1>1. Init => IInv
  BY Initially
<1>2. IInv /\ [Next]_vars => IInv'
  BY Invariance
<1>3. QED
  BY <1>1, <1>2, PTL DEF Spec

\* The stored rows, the workers and Luma have their types.
THEOREM TypeCorrect == Spec => []TypeOK
BY Invariant, PTL DEF IInv

\* The listing of Explore and an event's own page never disagree about whether
\* an imported event can be seen.
THEOREM PagesAgree == Spec => []PublishedIsShown
BY Invariant, PTL DEF IInv

\* While no calendar is connected, every imported event is withdrawn.
THEOREM NothingOutlivesTheCalendar == Spec => []DisconnectedIsWithdrawn
BY Invariant, PTL DEF IInv
-----------------------------------------------------------------------------
(***************************************************************************)
(* What a step does to the rows and to the connection.                     *)
(***************************************************************************)
LEMMA RowWriters ==
  ASSUME [Next]_vars, activity' # activity
  PROVE  \/ \E w \in Workers : Apply(w) \/ Disconnect(w)
         \/ \E e \in Events, status \in {"draft", "published", "cancelled"} :
              SetStatus(e, status)
         \/ \E m \in Moderators : Unpublish(m)
<1>1. ASSUME NEW w \in Workers,
             LockNode(w) \/ Fetch(w) \/ Fail(w) \/ Restart(w)
               \/ (\E c \in Calendars : StartImport(w, c)) \/ StartDue(w)
               \/ ReadRows(w) \/ RecordFailure(w)
      PROVE  FALSE
  BY <1>1 DEF LockNode, Fetch, Fail, Restart, StartImport, StartDue, ReadRows,
              RecordFailure, store
<1>2. ASSUME NEW m \in Moderators, GiveUp(m) \/ \E e \in Events : LockRow(m, e)
      PROVE  FALSE
  BY <1>2 DEF GiveUp, LockRow, store
<1>3. ~Relist /\ ~BecomeDue /\ ~UNCHANGED vars
  BY DEF Relist, BecomeDue, vars, store
<1>4. Next
  BY <1>3
<1>5. ~BreakDeadlock
  BY <1>1, <1>2 DEF BreakDeadlock
<1>6. QED
  BY <1>1, <1>2, <1>3, <1>4, <1>5 DEF Next, Sync, Workers

LEMMA ConnectionWriters ==
  ASSUME [Next]_vars, connection' # connection
  PROVE  \/ \E w \in Workers : Apply(w) \/ Disconnect(w)
         \/ \E w \in Timers : RecordFailure(w)
         \/ BecomeDue
<1>1. ASSUME NEW w \in Workers,
             LockNode(w) \/ Fetch(w) \/ Fail(w) \/ Restart(w)
               \/ (\E c \in Calendars : StartImport(w, c)) \/ StartDue(w)
               \/ ReadRows(w)
      PROVE  FALSE
  BY <1>1 DEF LockNode, Fetch, Fail, Restart, StartImport, StartDue, ReadRows,
              store
<1>2. ASSUME NEW m \in Moderators,
             Unpublish(m) \/ GiveUp(m) \/ \E e \in Events : LockRow(m, e)
      PROVE  FALSE
  BY <1>2 DEF Unpublish, GiveUp, LockRow, store
<1>3. ~Relist /\ ~UNCHANGED vars
  BY DEF Relist, vars, store
<1>4. ~ \E e \in Events, status \in {"draft", "published", "cancelled"} :
          SetStatus(e, status)
  BY DEF SetStatus
<1>5. Next
  BY <1>3
<1>6. ~BreakDeadlock
  BY <1>1, <1>2 DEF BreakDeadlock
<1>7. QED
  BY <1>1, <1>2, <1>3, <1>4, <1>5, <1>6 DEF Next, Sync, Workers

\* The effect of an import or of a disconnection on the row of one event.
LEMMA RowRewritten ==
  ASSUME IInv, NEW w \in Workers, Apply(w) \/ Disconnect(w), NEW e \in Imported
  PROVE  /\ activity[e].hidden = TRUE => activity'[e].hidden = TRUE
         /\ activity'[e].edition >= activity[e].edition
<1>1. e \in Events /\ activity[e] \in Row /\ activity[e] # None
  BY DEF IInv, TypeOK, Imported
<1>2. activity[e].edition \in Nat
  BY <1>1, RowFields
<1>3. CASE activity'[e] = activity[e]
  BY <1>2, <1>3
<1>4. CASE activity'[e] = WithdrawnRow(activity[e])
  <2> DEFINE row == WithdrawnRow(activity[e])
  <2>1. row.hidden = activity[e].hidden /\ row.edition = activity[e].edition
    BY <1>1, Withdrawn
  <2>2. activity'[e] = row
    BY <1>4
  <2> HIDE DEF row
  <2>3. QED
    BY <1>2, <2>1, <2>2
<1>5. CASE Apply(w) /\ activity'[e] = ListedRow(w, activity[e])
  <2> DEFINE row == ListedRow(w, activity[e])
  <2>1. work[w].edition \in Nat /\ activity[e].edition <= work[w].edition
    BY <1>1, <1>5 DEF IInv, TypeOK, EditionsInOrder, Apply, Work
  <2>2. /\ row.edition = work[w].edition
        /\ activity[e].hidden = TRUE => row.hidden = TRUE
    BY <1>1, <2>1, Listed
  <2>3. activity'[e] = row
    BY <1>5
  <2> HIDE DEF row
  <2>4. QED
    BY <1>2, <2>1, <2>2, <2>3
<1>6. QED
  BY <1>1, <1>3, <1>4, <1>5, ApplyRows, DisconnectRows
-----------------------------------------------------------------------------
(***************************************************************************)
(* The action properties.                                                  *)
(***************************************************************************)
\* No import or disconnection undoes the hiding of an event, whoever hid it.
THEOREM HiddenUntilPublished == Spec => HiddenStaysHidden
<1> DEFINE Kept == \A e \in Imported :
                     activity[e].hidden = TRUE /\ activity'[e].hidden # TRUE
                       => SetStatus(e, "published")
<1>1. ASSUME IInv, [Next]_vars PROVE [Kept]_activity
  <2>1. SUFFICES ASSUME activity' # activity, NEW e \in Imported,
                        activity[e].hidden = TRUE, activity'[e].hidden # TRUE
                 PROVE  SetStatus(e, "published")
    OBVIOUS
  <2>2. activity \in [Events -> Row \cup {None}] /\ e \in Events
        /\ activity[e] \in Row
    BY <1>1 DEF IInv, TypeOK, Imported
  <2>3. ASSUME NEW w \in Workers, Apply(w) \/ Disconnect(w) PROVE FALSE
    BY <1>1, <2>1, <2>3, RowRewritten
  <2>4. ASSUME NEW f \in Events,
               NEW status \in {"draft", "published", "cancelled"},
               SetStatus(f, status)
        PROVE  SetStatus(e, "published")
    BY <2>1, <2>2, <2>4 DEF SetStatus, Row
  <2>5. ASSUME NEW m \in Moderators, Unpublish(m) PROVE FALSE
    BY <2>1, <2>2, <2>5 DEF Unpublish, Row
  <2>6. QED
    BY <1>1, <2>1, <2>3, <2>4, <2>5, RowWriters
<1>2. QED
  BY <1>1, Invariant, PTL DEF Spec, HiddenStaysHidden

\* An import that was slow does not overwrite what a later one saved.
THEOREM LaterImportsLast == Spec => SnapshotsInOrder
<1> DEFINE Forward == \A e \in Imported :
                        activity'[e].edition >= activity[e].edition
<1>1. ASSUME IInv, [Next]_vars PROVE [Forward]_activity
  <2>1. SUFFICES ASSUME activity' # activity, NEW e \in Imported
                 PROVE  activity'[e].edition >= activity[e].edition
    OBVIOUS
  <2>2. activity \in [Events -> Row \cup {None}] /\ e \in Events
        /\ activity[e] \in Row /\ activity[e].edition \in Nat
    BY <1>1, RowFields DEF IInv, TypeOK, Imported
  <2>3. ASSUME NEW w \in Workers, Apply(w) \/ Disconnect(w)
        PROVE  activity'[e].edition >= activity[e].edition
    BY <1>1, <2>3, RowRewritten
  <2>4. ASSUME NEW f \in Events,
               NEW status \in {"draft", "published", "cancelled"},
               SetStatus(f, status)
        PROVE  activity'[e].edition = activity[e].edition
    BY <2>2, <2>4 DEF SetStatus, Row
  <2>5. ASSUME NEW m \in Moderators, Unpublish(m)
        PROVE  activity'[e].edition = activity[e].edition
    BY <2>2, <2>5 DEF Unpublish, Row
  <2>6. QED
    BY <1>1, <2>1, <2>2, <2>3, <2>4, <2>5, RowWriters
<1>2. QED
  BY <1>1, Invariant, PTL DEF Spec, SnapshotsInOrder

\* A timer never connects a calendar.
THEOREM EditorsConnect == Spec => ConnectedByEditor
<1> DEFINE Chosen ==
      connection' # None
        /\ (connection = None \/ connection'.calendar # connection.calendar)
      => \E w \in Editors : Apply(w)
<1>1. ASSUME IInv, [Next]_vars PROVE [Chosen]_connection
  <2>1. SUFFICES ASSUME connection' # connection, connection' # None,
                        connection = None
                          \/ connection'.calendar # connection.calendar
                 PROVE  \E w \in Editors : Apply(w)
    OBVIOUS
  <2>2. connection \in Connection \cup {None}
    BY <1>1 DEF IInv, TypeOK
  <2>3. ASSUME NEW w \in Workers, Apply(w) PROVE w \in Editors
    <3>1. ASSUME w \in Timers PROVE FALSE
      BY <1>1, <2>1, <2>3, <3>1 DEF IInv, ConnectionIsCurrent, Apply
    <3>2. QED
      BY <3>1 DEF Workers
  <2>4. ASSUME NEW w \in Workers, Disconnect(w) PROVE FALSE
    BY <2>1, <2>4 DEF Disconnect
  <2>5. ASSUME NEW w \in Timers, RecordFailure(w) PROVE FALSE
    BY <2>1, <2>2, <2>5 DEF RecordFailure, Connection
  <2>6. ~BecomeDue
    BY <2>1, <2>2 DEF BecomeDue, Connection
  <2>7. QED
    BY <1>1, <2>1, <2>3, <2>4, <2>5, <2>6, ConnectionWriters
<1>2. QED
  BY <1>1, Invariant, PTL DEF Spec, ConnectedByEditor

\* Only what an editor chose to show becomes visible.
THEOREM EditorsShow == Spec => ShownByChoice
<1> DEFINE Choice ==
      \A e \in Events :
        Shown(activity', e) /\ ~Shown(activity, e) =>
          \/ activity[e] # None /\ activity[e].hidden = FALSE
          \/ SetStatus(e, "published")
<1>1. ASSUME IInv, [Next]_vars PROVE [Choice]_activity
  <2>1. SUFFICES ASSUME activity' # activity, NEW e \in Events,
                        activity'[e] # None, activity'[e].status = "published",
                        ~(activity[e] # None
                            /\ activity[e].status = "published")
                 PROVE  \/ activity[e] # None /\ activity[e].hidden = FALSE
                        \/ SetStatus(e, "published")
    BY DEF Shown
  <2>2. activity \in [Events -> Row \cup {None}] /\ activity[e] \in Row \cup {None}
    BY <1>1 DEF IInv, TypeOK
  <2>3. ASSUME NEW w \in Workers, activity'[e] = ListedRow(w, activity[e]),
               Apply(w)
        PROVE  activity[e] # None /\ activity[e].hidden = FALSE
    <3> DEFINE row == ListedRow(w, activity[e])
    <3>1. work[w].edition \in Nat
      BY <1>1, <2>3 DEF IInv, TypeOK, Work
    <3>2. row.status = "published" =>
            activity[e] # None /\ activity[e].hidden = FALSE
      BY <2>2, <3>1, Listed
    <3>3. QED
      BY <2>1, <2>3, <3>2
  <2>4. ASSUME e \in Imported, activity'[e] = WithdrawnRow(activity[e])
        PROVE  FALSE
    BY <2>1, <2>2, <2>4, Withdrawn DEF Imported
  <2>5. ASSUME NEW w \in Workers, Apply(w) \/ Disconnect(w)
        PROVE  activity[e] # None /\ activity[e].hidden = FALSE
    BY <1>1, <2>1, <2>3, <2>4, <2>5, ApplyRows, DisconnectRows
  <2>6. ASSUME NEW f \in Events,
               NEW status \in {"draft", "published", "cancelled"},
               SetStatus(f, status)
        PROVE  SetStatus(e, "published")
    <3>1. activity[f] \in Row
      BY <1>1, <2>6 DEF IInv, TypeOK, SetStatus
    <3>2. f = e /\ status = "published"
      BY <2>1, <2>2, <2>6, <3>1 DEF SetStatus, Row
    <3>3. QED
      BY <2>6, <3>2
  <2>7. ASSUME NEW m \in Moderators, Unpublish(m) PROVE FALSE
    <3>1. moderating[m] \in Events /\ activity[moderating[m]] \in Row
      BY <1>1, <2>7 DEF IInv, TypeOK, ModeratedExist, Unpublish
    <3>2. QED
      BY <2>1, <2>2, <2>7, <3>1 DEF Unpublish, Row
  <2>8. QED
    BY <1>1, <2>1, <2>5, <2>6, <2>7, RowWriters
<1>2. QED
  BY <1>1, Invariant, PTL DEF Spec, ShownByChoice
=============================================================================
