-------------------------- MODULE AttendanceProofs --------------------------
(*****************************************************************************)
(* No attendance is forgotten, for any number of organizers, events, codes   *)
(* and reconciliations.                                                      *)
(*                                                                           *)
(* The invariant says what each lane of a reconciliation still has to read:  *)
(* what its list promised is recorded, or among the codes left to it, as     *)
(* long as nothing failed and the list was whole.                            *)
(*****************************************************************************)
EXTENDS Attendance, FiniteSetTheorems, WellFoundedInduction, TLAPS

\* What a lane knows: no listed count is above how many have joined by now (here), it reads a code
\* after it was listed, and while it is complete and nothing failed, what was promised is
\* recorded (rows) or still to be read.
LaneKnows(lane, here, rows) ==
    /\ \A k \in lane.left : k[2] <= here[k[1]]
    /\ lane.at \in {"status", "record"} => lane.left # {}
    /\ lane.at = "record" => lane.joined >= CountAt(lane) /\ lane.joined <= here[CodeAt(lane)]
    /\ lane.ok = TRUE /\ lane.truncated = FALSE =>
          \A c \in Codes : \/ rows[c] >= lane.promised[c]
                           \/ \E k \in lane.left : k[1] = c /\ k[2] >= lane.promised[c]

SyncKnows(s, here, rows) ==
    /\ \A k \in s.latest : k[2] <= here[k[1]]
    /\ \A l \in Lanes : LaneKnows(s.lane[l], here, rows)

\* What a row without a gap says is recorded.
RowsBacked ==
    \A l \in Lanes : reconciled[l].truncated = FALSE =>
        \A c \in Codes : seen[c] >= reconciled[l].promised[c]

\* No code counts as many as "no checkpoint" stands for.
FewJoined == \A c \in Codes : joined[c] <= MaxJoins

AttInv ==
    /\ AttTypeOK
    /\ FewJoined
    /\ CheckpointIsBacked
    /\ RowsBacked
    /\ \A o \in Organizers : SyncKnows(sync[o], joined, seen)

-----------------------------------------------------------------------------
(* Numbers                                                                 *)

LEMMA Smallest ==
    ASSUME NEW T \in SUBSET Nat, T # {}
    PROVE  \E x \in T : \A y \in T : x <= y
<1> DEFINE R == {ss \in Nat \X Nat : ss[1] < ss[2]}
<1>1. IsWellFoundedOn(R, Nat)
  BY NatLessThanWellFounded DEF OpToRel
<1>2. PICK x \in T : \A y \in T : ~(<<y, x>> \in R)
  BY <1>1, WFMin
<1>3. \A y \in T : x \in Nat /\ y \in Nat /\ ~(y < x)
  BY <1>2
<1> QED BY <1>3

LEMMA Largest ==
    ASSUME NEW n \in Nat, NEW S \in SUBSET (1..n), S # {}
    PROVE  \E m \in S : \A k \in S : k <= m
<1> DEFINE T == {n - k : k \in S}
<1>1. \A k \in S : n - k \in Nat /\ k \in Nat
  OBVIOUS
<1>2. T \in SUBSET Nat /\ T # {}
  BY <1>1
<1>3. PICK x \in T : \A y \in T : x <= y
  <2> HIDE DEF T
  <2> QED BY <1>2, Smallest
<1>4. PICK m \in S : x = n - m
  OBVIOUS
<1>5. \A k \in S : n - m <= n - k
  BY <1>3, <1>4
<1>6. \A k \in S : k <= m
  BY <1>1, <1>5
<1> QED BY <1>6

\* A lane that has codes left has a newest one.
LEMMA NewestIsLeft ==
    ASSUME NEW left \in SUBSET (Codes \X Nat), left # {}
    PROVE  Newest(left) \in left
<1> DEFINE S == {k[1] : k \in left}
<1>1. S \in SUBSET (1..MaxCodes) /\ S # {}
  BY DEF Codes
<1>2. PICK m \in S : \A k \in S : k <= m
  <2> HIDE DEF S
  <2> QED BY <1>1, Largest, AttendanceAssumption
<1>3. PICK k \in left : k[1] = m
  OBVIOUS
<1>4. \A j \in left : j[1] <= k[1]
  BY <1>2, <1>3
<1> QED BY <1>3, <1>4 DEF Newest

\* A code of the listing has its use count; a page that is not full has every code.
LEMMA PageIs ==
    ASSUME AttTypeOK, NEW wanted \in SUBSET Codes
    PROVE  /\ Page(wanted) \in SUBSET (Codes \X Nat)
           /\ \A k \in Page(wanted) : k[2] = joined[k[1]]
           /\ ~Full(Page(wanted)) =>
                 \A c \in wanted \cap codes : <<c, joined[c]>> \in Page(wanted)
<1> DEFINE there == wanted \cap codes
           newer(c) == {d \in there : d > c}
           newest == {c \in there : Cardinality(newer(c)) < Limit}
           page == {<<c, joined[c]>> : c \in newest}
<1>1. Page(wanted) = page
  BY DEF Page
<1>2. there \in SUBSET Codes /\ joined \in [Codes -> Nat]
  BY DEF AttTypeOK
<1>3. page \in SUBSET (Codes \X Nat) /\ \A k \in page : k[2] = joined[k[1]]
  <2>1. newest \subseteq Codes
    OBVIOUS
  <2> HIDE DEF newest
  <2> QED BY <1>2, <2>1
<1>4. IsFiniteSet(Codes) /\ MaxCodes \in Nat /\ Codes = 1..MaxCodes
  BY FS_Interval, AttendanceAssumption DEF Codes
<1>5. ASSUME ~Full(page) PROVE there \subseteq newest
  <2> DEFINE old == there \ newest
  <2>1. SUFFICES ASSUME old # {} PROVE FALSE
    OBVIOUS
  <2>2. old \in SUBSET (1..MaxCodes)
    BY <1>2, <1>4
  <2>3. PICK m \in old : \A k \in old : k <= m
    <3> HIDE DEF old
    <3> QED BY <1>4, <2>1, <2>2, Largest
  <2>4. \A d \in newer(m) : d \in there /\ d \notin old
    BY <1>2, <1>4, <2>2, <2>3
  <2>5. newer(m) \in SUBSET newest
    BY <2>4
  <2>6. newest \in SUBSET Codes
    BY <1>2
  <2>7. m \in there /\ ~(Cardinality(newer(m)) < Limit)
    OBVIOUS
  <2>8. Cardinality(newest) = Cardinality(page) /\ IsFiniteSet(newest)
    <3> DEFINE f == [c \in newest |-> <<c, joined[c]>>]
    <3>1. f \in Surjection(newest, page) /\ f \in Injection(newest, page)
      BY DEF Surjection, Injection, IsInjective
    <3>2. IsFiniteSet(newest)
      BY <1>4, <2>6, FS_Subset
    <3> HIDE DEF f, newest, page
    <3> QED BY <3>1, <3>2, FS_Surjection
  <2> HIDE DEF newest, page, there, newer
  <2>9. Cardinality(newer(m)) <= Cardinality(newest) /\ IsFiniteSet(newer(m))
    BY <2>5, <2>8, FS_Subset
  <2>10. Cardinality(newer(m)) \in Nat /\ Cardinality(newest) \in Nat
    BY <2>8, <2>9, FS_CardinalityType
  <2> QED BY <1>5, <2>7, <2>8, <2>9, <2>10, AttendanceAssumption DEF Full
<1> QED BY <1>1, <1>3, <1>5

\* A code cannot be used more often than there are check-ins.
LEMMA JoinsCount ==
    ASSUME AttTypeOK, FewJoined, NEW c \in Codes
    PROVE  Joins \in Nat /\ joined[c] <= Joins
<1> DEFINE all == UNION {{d} \X (1..joined[d]) : d \in Codes}
           mine == {c} \X (1..joined[c])
<1>1. joined \in [Codes -> Nat] /\ MaxJoins \in Nat /\ MaxCodes \in Nat
  BY AttendanceAssumption DEF AttTypeOK
<1>2. IsFiniteSet(Codes) /\ IsFiniteSet(1..MaxJoins)
  BY <1>1, FS_Interval DEF Codes
<1>3. all \subseteq Codes \X (1..MaxJoins)
  <2> SUFFICES ASSUME NEW d \in Codes, NEW k \in 1..joined[d] PROVE k \in 1..MaxJoins
    OBVIOUS
  <2> QED BY <1>1 DEF FewJoined
<1>4. IsFiniteSet(Codes \X (1..MaxJoins))
  BY <1>2, FS_Product
<1>5. IsFiniteSet(all) /\ Cardinality(all) \in Nat
  <2> HIDE DEF all
  <2> QED BY <1>3, <1>4, FS_Subset, FS_CardinalityType
<1>6. mine \subseteq all
  OBVIOUS
<1>7. Cardinality(mine) <= Cardinality(all)
  <2> HIDE DEF all, mine
  <2> QED BY <1>5, <1>6, FS_Subset
<1>8. Cardinality(mine) = joined[c]
  <2>1. joined[c] \in Nat
    BY <1>1
  <2>2. IsFiniteSet(1..joined[c]) /\ Cardinality(1..joined[c]) = joined[c]
    BY <2>1, FS_Interval, SMTT(30)
  <2>3. IsFiniteSet({c}) /\ Cardinality({c}) = 1
    BY FS_Singleton
  <2>4. Cardinality(mine) = 1 * joined[c]
    BY <2>2, <2>3, FS_Product, ZenonT(30)
  <2> QED BY <2>1, <2>4
<1> QED BY <1>5, <1>7, <1>8 DEF Joins

-----------------------------------------------------------------------------
(* What is known stays known                                               *)

\* While check-ins and records only become more.
LEMMA LaneGrows ==
    ASSUME NEW lane \in LaneType,
           NEW here \in [Codes -> Nat], NEW here2 \in [Codes -> Nat],
           NEW rows \in [Codes -> Nat], NEW rows2 \in [Codes -> Nat],
           LaneKnows(lane, here, rows),
           \A c \in Codes : here[c] <= here2[c] /\ rows[c] <= rows2[c]
    PROVE  LaneKnows(lane, here2, rows2)
<1>1. /\ lane.left \in SUBSET (Codes \X Nat) /\ lane.promised \in [Codes -> Nat]
      /\ lane.joined \in Nat
  BY DEF LaneType
<1>2. \A k \in lane.left : k[1] \in Codes /\ k[2] \in Nat
  BY <1>1
<1>3. \A k \in lane.left : k[2] <= here2[k[1]]
  <2>1. \A k \in lane.left : k[2] <= here[k[1]]
    BY DEF LaneKnows
  <2> QED BY <1>2, <2>1
<1>4. lane.at = "record" => lane.joined >= CountAt(lane) /\ lane.joined <= here2[CodeAt(lane)]
  <2> SUFFICES ASSUME lane.at = "record"
               PROVE  lane.joined >= CountAt(lane) /\ lane.joined <= here2[CodeAt(lane)]
    OBVIOUS
  <2>1. /\ lane.left # {} /\ lane.joined >= CountAt(lane)
        /\ lane.joined <= here[CodeAt(lane)]
    BY DEF LaneKnows
  <2>2. Newest(lane.left) \in lane.left
    BY <1>1, <2>1, NewestIsLeft
  <2>3. CodeAt(lane) \in Codes
    BY <1>2, <2>2 DEF CodeAt
  <2> QED BY <1>1, <2>1, <2>3
<1>5. ASSUME lane.ok = TRUE, lane.truncated = FALSE, NEW c \in Codes
      PROVE  \/ rows2[c] >= lane.promised[c]
             \/ \E k \in lane.left : k[1] = c /\ k[2] >= lane.promised[c]
  <2>1. \/ rows[c] >= lane.promised[c]
        \/ \E k \in lane.left : k[1] = c /\ k[2] >= lane.promised[c]
    BY <1>5 DEF LaneKnows
  <2> QED BY <1>1, <2>1
<1> QED BY <1>3, <1>4, <1>5 DEF LaneKnows

LEMMA SyncGrows ==
    ASSUME NEW s \in SyncType,
           NEW here \in [Codes -> Nat], NEW here2 \in [Codes -> Nat],
           NEW rows \in [Codes -> Nat], NEW rows2 \in [Codes -> Nat],
           SyncKnows(s, here, rows),
           \A c \in Codes : here[c] <= here2[c] /\ rows[c] <= rows2[c]
    PROVE  SyncKnows(s, here2, rows2)
<1>1. s.latest \in SUBSET (Codes \X Nat) /\ \A l \in Lanes : s.lane[l] \in LaneType
  BY DEF SyncType
<1>2. \A l \in Lanes : LaneKnows(s.lane[l], here2, rows2)
  BY <1>1, LaneGrows DEF SyncKnows
<1>3. \A k \in s.latest : k[2] <= here2[k[1]]
  <2>1. \A k \in s.latest : k[1] \in Codes /\ k[2] \in Nat /\ k[2] <= here[k[1]]
    BY <1>1 DEF SyncKnows
  <2> QED BY <2>1
<1> QED BY <1>2, <1>3 DEF SyncKnows

\* The auth service or an editor does something.
LEMMA OursStep ==
    ASSUME AttInv, joined' \in [Codes -> Nat],
           \A c \in Codes : joined[c] <= joined'[c] /\ joined'[c] <= MaxJoins,
           settled' \subseteq Events, known' \subseteq Events,
           codes' \subseteq 1..made', made' \in 0..MaxCodes, eventOf' \in [Codes -> Lanes],
           UNCHANGED <<recorded, sync>>
    PROVE  AttInv'
<1>1. /\ joined \in [Codes -> Nat] /\ seen \in [Codes -> Nat]
      /\ \A o \in Organizers : sync[o] \in SyncType /\ SyncKnows(sync[o], joined, seen)
      /\ \A c \in Codes : counted[c] <= seen[c] /\ seen[c] <= joined[c]
      /\ UNCHANGED seen /\ UNCHANGED counted /\ UNCHANGED checkpoints
      /\ UNCHANGED reconciled /\ UNCHANGED sync
  BY DEF AttInv, AttTypeOK, recorded
<1>2. \A o \in Organizers : SyncKnows(sync[o], joined', seen)
  BY <1>1, SyncGrows
<1>3. AttTypeOK'
  <2>1. \A c \in Codes : counted[c] <= seen[c] /\ seen[c] <= joined'[c]
    BY <1>1
  <2> QED BY <1>1, <2>1 DEF AttInv, AttTypeOK
<1>4. FewJoined' /\ CheckpointIsBacked' /\ RowsBacked'
  BY <1>1 DEF AttInv, FewJoined, CheckpointIsBacked, RowsBacked
<1> QED BY <1>1, <1>2, <1>3, <1>4 DEF AttInv

\* A reconciliation takes note of something.
LEMMA SyncStep ==
    ASSUME AttInv, NEW o \in Organizers, NEW s \in SyncType, SyncKnows(s, joined, seen),
           sync' = [sync EXCEPT ![o] = s],
           UNCHANGED <<known, settled, upstream, recorded>>
    PROVE  AttInv'
<1>1. /\ sync' \in [Organizers -> SyncType]
      /\ \A p \in Organizers : SyncKnows(sync'[p], joined, seen)
  BY DEF AttInv, AttTypeOK
<1>2. AttTypeOK'
  BY <1>1 DEF AttInv, AttTypeOK, upstream, recorded
<1>3. FewJoined' /\ CheckpointIsBacked' /\ RowsBacked'
  BY DEF AttInv, FewJoined, CheckpointIsBacked, RowsBacked, upstream, recorded
<1> QED BY <1>1, <1>2, <1>3 DEF AttInv, upstream, recorded

\* One of its lanes does.
LEMMA WithLane ==
    ASSUME NEW t \in SyncType, NEW l \in Lanes, NEW rec \in LaneType,
           NEW here, NEW rows, SyncKnows(t, here, rows), LaneKnows(rec, here, rows)
    PROVE  LET s == [t EXCEPT !.lane[l] = rec]
           IN  s \in SyncType /\ SyncKnows(s, here, rows)
<1> DEFINE s == [t EXCEPT !.lane[l] = rec]
<1>1. /\ s \in SyncType /\ s.latest = t.latest
      /\ s.lane = [t.lane EXCEPT ![l] = rec] /\ t.lane \in [Lanes -> LaneType]
  BY DEF SyncType
<1> HIDE DEF s
<1>2. SyncKnows(s, here, rows)
  BY <1>1 DEF SyncKnows
<1> QED BY <1>1, <1>2 DEF s

LEMMA LaneStep ==
    ASSUME AttInv, NEW o \in Organizers, NEW l \in Lanes, NEW rec \in LaneType,
           LaneKnows(rec, joined, seen), SetLane(o, l, rec), UNCHANGED <<Ours, recorded>>
    PROVE  AttInv'
<1> DEFINE s == [sync[o] EXCEPT !.lane[l] = rec]
<1>1. s \in SyncType /\ SyncKnows(s, joined, seen)
  BY WithLane DEF AttInv, AttTypeOK
<1>2. sync' = [sync EXCEPT ![o] = s]
  BY DEF SetLane
<1>3. UNCHANGED <<known, settled, upstream, recorded>>
  BY DEF Ours
<1> HIDE DEF s
<1> QED BY <1>1, <1>2, <1>3, SyncStep

-----------------------------------------------------------------------------
(* The auth service and the editors                                        *)

LEMMA CheckInStep == ASSUME AttInv, NEW c \in Codes, CheckIn(c) PROVE AttInv'
<1>1. joined \in [Codes -> Nat] /\ FewJoined /\ AttTypeOK
  BY DEF AttInv, AttTypeOK
<1>2. Joins \in Nat /\ joined[c] <= Joins /\ Joins < MaxJoins /\ MaxJoins \in Nat
  BY <1>1, JoinsCount, AttendanceAssumption DEF CheckIn
<1>3. joined' = [joined EXCEPT ![c] = joined[c] + 1]
  BY DEF CheckIn
<1>4. /\ joined' \in [Codes -> Nat]
      /\ \A d \in Codes : joined[d] <= joined'[d] /\ joined'[d] <= MaxJoins
  <2> HIDE DEF Joins
  <2> QED BY <1>1, <1>2, <1>3 DEF FewJoined
<1> QED BY <1>1, <1>4, OursStep DEF CheckIn, AttTypeOK

LEMMA OursStays ==
    ASSUME AttInv, UNCHANGED joined
    PROVE  /\ joined' \in [Codes -> Nat]
           /\ \A c \in Codes : joined[c] <= joined'[c] /\ joined'[c] <= MaxJoins
BY DEF AttInv, AttTypeOK, FewJoined

LEMMA CreateStep == ASSUME AttInv, NEW e \in Lanes, CreateCode(e) PROVE AttInv'
<1>1. /\ made \in Nat /\ MaxCodes \in Nat /\ codes \subseteq 1..made
      /\ eventOf \in [Codes -> Lanes]
  BY AttendanceAssumption DEF AttInv, AttTypeOK
<1>2. /\ made < MaxCodes /\ made' = made + 1 /\ codes' = codes \cup {made'}
      /\ eventOf' = [eventOf EXCEPT ![made'] = e]
  BY DEF CreateCode
<1>4. made' \in 0..MaxCodes /\ codes' \subseteq 1..made'
  BY <1>1, <1>2
<1>5. eventOf' \in [Codes -> Lanes]
  BY <1>1, <1>2
<1>3. UNCHANGED <<known, settled, joined, recorded, sync>>
  BY DEF CreateCode
<1> QED BY <1>3, <1>4, <1>5, OursStays, OursStep DEF AttInv, AttTypeOK

LEMMA DeleteStep == ASSUME AttInv, NEW c \in Codes, DeleteCode(c) PROVE AttInv'
BY OursStays, OursStep DEF DeleteCode, AttInv, AttTypeOK

LEMMA EventStep ==
    ASSUME AttInv, NEW e \in Events, AddEvent(e) \/ RemoveEvent(e) \/ Settle(e)
    PROVE  AttInv'
<1>1. UNCHANGED upstream /\ UNCHANGED <<recorded, sync>>
  BY DEF AddEvent, RemoveEvent, Settle
<1>2. known' \subseteq Events /\ settled' \subseteq Events
  BY DEF AddEvent, RemoveEvent, Settle, AttInv, AttTypeOK
<1> QED BY <1>1, <1>2, OursStays, OursStep DEF AttInv, AttTypeOK, upstream

-----------------------------------------------------------------------------
(* A reconciliation, until it records                                      *)

\* What nothing was promised of and nothing is left of knows nothing.
LEMMA EmptyKnows ==
    ASSUME AttInv, NEW lane \in LaneType, lane.promised = Nobody,
           lane.at \in {"wait", "list", "codes"},
           \A k \in lane.left : k[2] <= joined[k[1]]
    PROVE  LaneKnows(lane, joined, seen)
BY DEF LaneKnows, Nobody, AttInv, AttTypeOK

LEMMA NoSyncKnows ==
    ASSUME AttInv
    PROVE  /\ NoLane \in LaneType /\ NoSync \in SyncType
           /\ SyncKnows(NoSync, joined, seen) /\ LaneKnows(NoLane, joined, seen)
<1>1. NoLane \in LaneType
  BY DEF NoLane, LaneType, Nobody
<1>2. NoLane.promised = Nobody /\ NoLane.at = "wait" /\ NoLane.left = {}
  BY DEF NoLane
<1>3. NoSync \in SyncType
  BY <1>1 DEF NoSync, SyncType
<1>4. LaneKnows(NoLane, joined, seen)
  BY <1>1, <1>2, EmptyKnows
<1>5. NoSync.latest = {} /\ \A l \in Lanes : NoSync.lane[l] = NoLane
  BY DEF NoSync
<1> QED BY <1>1, <1>3, <1>4, <1>5 DEF SyncKnows

LEMMA StartStep == ASSUME AttInv, NEW o \in Organizers, StartSync(o) PROVE AttInv'
<1> DEFINE s == [NoSync EXCEPT !.at = "latest", !.known = known]
<1>1. s \in SyncType /\ s.latest = NoSync.latest /\ s.lane = NoSync.lane
  BY NoSyncKnows DEF SyncType, AttInv, AttTypeOK
<1>2. sync' = [sync EXCEPT ![o] = s] /\ UNCHANGED <<known, settled, upstream, recorded>>
  BY DEF StartSync, Continue
<1> HIDE DEF s
<1>3. SyncKnows(s, joined, seen)
  BY <1>1, NoSyncKnows DEF SyncKnows
<1> QED BY <1>1, <1>2, <1>3, SyncStep

LEMMA LatestStep == ASSUME AttInv, NEW o \in Organizers, ListLatest(o) PROVE AttInv'
<1>1. PICK listed \in BOOLEAN :
        sync' = [sync EXCEPT ![o] =
            [sync[o] EXCEPT !.at = "rows", !.listed = listed,
                            !.latest = IF listed THEN Page(Codes) ELSE {}]]
  BY DEF ListLatest, Continue
<1> DEFINE latest == IF listed THEN Page(Codes) ELSE {}
           s == [sync[o] EXCEPT !.at = "rows", !.listed = listed, !.latest = latest]
<1>2. sync[o] \in SyncType /\ SyncKnows(sync[o], joined, seen)
  BY DEF AttInv, AttTypeOK
<1>3. /\ Page(Codes) \in SUBSET (Codes \X Nat)
      /\ \A k \in Page(Codes) : k[2] = joined[k[1]]
  BY PageIs DEF AttInv
<1>4. latest \in SUBSET (Codes \X Nat) /\ \A k \in latest : k[2] <= joined[k[1]]
  <2>1. \A k \in Page(Codes) : k[1] \in Codes /\ k[2] = joined[k[1]] /\ k[2] \in Nat
    BY <1>3
  <2> QED BY <1>3, <2>1
<1>5. sync' = [sync EXCEPT ![o] = s] /\ UNCHANGED <<known, settled, upstream, recorded>>
  BY <1>1 DEF ListLatest, Ours
<1> HIDE DEF latest
<1>6. s \in SyncType /\ s.latest = latest /\ s.lane = sync[o].lane
  BY <1>2, <1>4 DEF SyncType
<1> HIDE DEF s
<1>7. SyncKnows(s, joined, seen)
  BY <1>2, <1>4, <1>6 DEF SyncKnows
<1> QED BY <1>5, <1>6, <1>7, SyncStep

LEMMA RowsReadStep == ASSUME AttInv, NEW o \in Organizers, ReadRows(o) PROVE AttInv'
<1>1. PICK quiet \in SUBSET Events :
        sync' = [sync EXCEPT ![o] = [sync[o] EXCEPT !.at = "checkpoints", !.quiet = quiet]]
  BY DEF ReadRows, Continue, AttInv, AttTypeOK, SyncType
<1> DEFINE s == [sync[o] EXCEPT !.at = "checkpoints", !.quiet = quiet]
<1>2. sync[o] \in SyncType /\ SyncKnows(sync[o], joined, seen)
  BY DEF AttInv, AttTypeOK
<1>3. s \in SyncType /\ s.latest = sync[o].latest /\ s.lane = sync[o].lane
  BY <1>2 DEF SyncType
<1>4. sync' = [sync EXCEPT ![o] = s] /\ UNCHANGED <<known, settled, upstream, recorded>>
  BY <1>1 DEF ReadRows, Ours
<1> HIDE DEF s
<1>5. SyncKnows(s, joined, seen)
  BY <1>2, <1>3 DEF SyncKnows
<1> QED BY <1>3, <1>4, <1>5, SyncStep

LEMMA CheckpointsReadStep ==
    ASSUME AttInv, NEW o \in Organizers, ReadCheckpoints(o) PROVE AttInv'
<1> DEFINE fresh == {eventOf[k[1]] : k \in {j \in sync[o].latest : checkpoints[j[1]] # j[2]}}
           due == sync[o].known \ (sync[o].quiet \ fresh)
           outside == {k \in sync[o].latest : eventOf[k[1]] \notin sync[o].known}
           swept == [NoLane EXCEPT !.at = "codes", !.left = outside, !.ok = sync[o].listed]
           listing == [NoLane EXCEPT !.at = "list"]
           lanes == [l \in Lanes |-> IF l \in due THEN listing
                                     ELSE IF l = Sweep THEN swept ELSE NoLane]
           s == [sync[o] EXCEPT !.at = "lanes", !.quiet = {}, !.latest = {}, !.lane = lanes]
<1>1. /\ sync[o] \in SyncType /\ SyncKnows(sync[o], joined, seen)
      /\ sync[o].latest \in SUBSET (Codes \X Nat) /\ sync[o].listed \in BOOLEAN
  BY DEF AttInv, AttTypeOK, SyncType
<1>2. sync' = [sync EXCEPT ![o] = s] /\ UNCHANGED <<known, settled, upstream, recorded>>
  BY DEF ReadCheckpoints, Continue, Ours
<1>3. outside \in SUBSET (Codes \X Nat) /\ \A k \in outside : k[2] <= joined[k[1]]
  BY <1>1 DEF SyncKnows
<1> HIDE DEF outside, due, fresh
<1>4. NoLane \in LaneType /\ NoLane.promised = Nobody /\ NoLane.left = {}
  BY NoSyncKnows DEF NoLane
<1>5. /\ swept \in LaneType /\ swept.promised = Nobody /\ swept.at = "codes"
      /\ swept.left = outside
  BY <1>1, <1>3, <1>4 DEF LaneType
<1>6. /\ listing \in LaneType /\ listing.promised = Nobody /\ listing.at = "list"
      /\ listing.left = {}
  BY <1>4 DEF LaneType
<1> HIDE DEF swept, listing
<1>7. LaneKnows(swept, joined, seen) /\ LaneKnows(listing, joined, seen)
  BY <1>3, <1>5, <1>6, EmptyKnows
<1>8. \A l \in Lanes : lanes[l] \in LaneType /\ LaneKnows(lanes[l], joined, seen)
  BY <1>5, <1>6, <1>7, NoSyncKnows
<1>9. lanes \in [Lanes -> LaneType]
  BY <1>8
<1> HIDE DEF lanes
<1>10. s \in SyncType /\ s.latest = {} /\ s.lane = lanes
  BY <1>1, <1>9 DEF SyncType
<1> HIDE DEF s
<1>11. SyncKnows(s, joined, seen)
  BY <1>8, <1>10 DEF SyncKnows
<1> QED BY <1>2, <1>10, <1>11, SyncStep

LEMMA AbortStep == ASSUME AttInv, NEW o \in Organizers, AbortSync(o) PROVE AttInv'
<1>1. sync' = [sync EXCEPT ![o] = NoSync] /\ UNCHANGED <<known, settled, upstream, recorded>>
  BY DEF AbortSync, Continue, Ours
<1> QED BY <1>1, NoSyncKnows, SyncStep

-----------------------------------------------------------------------------
(* Its lanes                                                               *)

LEMMA OneLane ==
    ASSUME AttInv, NEW o \in Organizers, NEW l \in Lanes
    PROVE  /\ sync[o] \in SyncType /\ SyncKnows(sync[o], joined, seen)
           /\ sync[o].lane[l] \in LaneType /\ LaneKnows(sync[o].lane[l], joined, seen)
           /\ joined \in [Codes -> Nat] /\ seen \in [Codes -> Nat]
BY DEF AttInv, AttTypeOK, SyncType, SyncKnows

LEMMA ListEventStep ==
    ASSUME AttInv, NEW o \in Organizers, NEW e \in Events, ListEvent(o, e)
    PROVE  AttInv'
<1> DEFINE lane == sync[o].lane[e]
           page == Page(CodesOf(e))
           full == Full(page)
           promised == [c \in Codes |-> IF c \in codes \cap CodesOf(e) THEN joined[c] ELSE 0]
           failed == [lane EXCEPT !.at = "codes", !.ok = FALSE]
           listed == [lane EXCEPT !.at = "codes", !.left = page, !.truncated = full,
                                  !.promised = promised]
<1>1. e \in Lanes /\ CodesOf(e) \in SUBSET Codes /\ AttTypeOK
  BY DEF Lanes, CodesOf, AttInv
<1>2. /\ lane \in LaneType /\ LaneKnows(lane, joined, seen)
      /\ joined \in [Codes -> Nat] /\ seen \in [Codes -> Nat]
  BY <1>1, OneLane
<1>3. /\ page \in SUBSET (Codes \X Nat)
      /\ \A k \in page : k[2] = joined[k[1]]
      /\ ~full => \A c \in CodesOf(e) \cap codes : <<c, joined[c]>> \in page
  BY <1>1, PageIs
<1>4. full \in BOOLEAN
  BY DEF Full
<1>5. /\ SetLane(o, e, failed) \/ SetLane(o, e, listed)
      /\ UNCHANGED <<Ours, recorded>>
  BY DEF ListEvent
<1> HIDE DEF lane, page, full
<1>6. failed \in LaneType /\ LaneKnows(failed, joined, seen)
  <2>1. /\ failed \in LaneType /\ failed.left = lane.left /\ failed.at = "codes"
        /\ failed.ok = FALSE
    BY <1>2 DEF LaneType
  <2> HIDE DEF failed
  <2> QED BY <1>2, <2>1 DEF LaneKnows
<1>7. promised \in [Codes -> Nat]
  BY <1>2
<1>8. \A c \in Codes : seen[c] >= promised[c] \/ (c \in CodesOf(e) \cap codes /\ promised[c] = joined[c])
  BY <1>2
<1>9. listed \in LaneType /\ LaneKnows(listed, joined, seen)
  <2> HIDE DEF promised
  <2>1. /\ listed \in LaneType /\ listed.left = page /\ listed.at = "codes"
        /\ listed.truncated = full /\ listed.promised = promised
    BY <1>2, <1>3, <1>4, <1>7 DEF LaneType
  <2> HIDE DEF listed
  <2>2. \A k \in page : k[2] <= joined[k[1]]
    <3>1. \A k \in page : k[1] \in Codes /\ k[2] \in Nat /\ k[2] = joined[k[1]]
      BY <1>3
    <3> QED BY <3>1
  <2>3. ASSUME ~full, NEW c \in Codes
        PROVE  seen[c] >= promised[c] \/ \E k \in page : k[1] = c /\ k[2] >= promised[c]
    <3>1. CASE c \in CodesOf(e) \cap codes /\ promised[c] = joined[c]
      <4>1. <<c, joined[c]>> \in page /\ joined[c] \in Nat
        BY <1>2, <1>3, <2>3, <3>1
      <4>2. joined[c] >= promised[c]
        BY <3>1, <4>1
      <4> QED BY <4>1, <4>2
    <3> QED BY <1>8, <3>1
  <2> QED BY <2>1, <2>2, <2>3 DEF LaneKnows
<1> HIDE DEF failed, listed
<1> QED BY <1>1, <1>5, <1>6, <1>9, LaneStep

\* A code is done with: its listed count is recorded, or something failed.
LEMMA NextKnows ==
    ASSUME NEW lane \in LaneType, NEW here \in [Codes -> Nat], NEW rows \in [Codes -> Nat],
           LaneKnows(lane, here, rows), lane.left # {},
           rows[CodeAt(lane)] >= CountAt(lane)
    PROVE  NextCode(lane) \in LaneType /\ LaneKnows(NextCode(lane), here, rows)
<1> DEFINE n == Newest(lane.left)
           rec == NextCode(lane)
<1>1. /\ lane.left \in SUBSET (Codes \X Nat) /\ lane.promised \in [Codes -> Nat]
  BY DEF LaneType
<1>2. n \in lane.left /\ n[1] \in Codes /\ n[2] \in Nat /\ rows[n[1]] >= n[2]
  <2>1. n \in lane.left
    BY <1>1, NewestIsLeft
  <2> QED BY <1>1, <2>1 DEF CodeAt, CountAt
<1>3. /\ rec \in LaneType /\ rec.left = lane.left \ {n} /\ rec.at = "codes"
      /\ rec.ok = lane.ok /\ rec.truncated = lane.truncated /\ rec.promised = lane.promised
  BY DEF NextCode, LaneType
<1> HIDE DEF n, rec
<1>4. ASSUME lane.ok = TRUE, lane.truncated = FALSE, NEW c \in Codes
      PROVE  \/ rows[c] >= lane.promised[c]
             \/ \E k \in lane.left \ {n} : k[1] = c /\ k[2] >= lane.promised[c]
  <2>1. CASE rows[c] >= lane.promised[c]
    BY <2>1
  <2>2. CASE \E k \in lane.left : k[1] = c /\ k[2] >= lane.promised[c]
    <3>1. PICK k \in lane.left : k[1] = c /\ k[2] >= lane.promised[c]
      BY <2>2
    <3>2. CASE k = n
      <4>1. rows[c] \in Nat /\ lane.promised[c] \in Nat
        BY <1>1
      <4> QED BY <1>2, <3>1, <3>2, <4>1
    <3>3. CASE k # n
      BY <3>1, <3>3
    <3> QED BY <3>2, <3>3
  <2> QED BY <1>4, <2>1, <2>2 DEF LaneKnows
<1>5. LaneKnows(rec, here, rows)
  BY <1>3, <1>4 DEF LaneKnows
<1> QED BY <1>3, <1>5 DEF rec

LEMMA CompareStep ==
    ASSUME AttInv, NEW o \in Organizers, NEW l \in Lanes, CompareCode(o, l)
    PROVE  AttInv'
<1> DEFINE lane == sync[o].lane[l]
           reading == [lane EXCEPT !.at = "status"]
<1>1. /\ lane \in LaneType /\ LaneKnows(lane, joined, seen)
      /\ joined \in [Codes -> Nat] /\ seen \in [Codes -> Nat]
      /\ lane.left \in SUBSET (Codes \X Nat)
  BY OneLane DEF LaneType
<1>2. lane.at = "codes" /\ lane.left # {} /\ UNCHANGED <<Ours, recorded>>
  BY DEF CompareCode, Lane, Done
<1>3. \/ checkpoints[CodeAt(lane)] = CountAt(lane) /\ SetLane(o, l, NextCode(lane))
      \/ SetLane(o, l, reading)
  BY DEF CompareCode
<1>4. Newest(lane.left) \in lane.left
  BY <1>1, <1>2, NewestIsLeft
<1> HIDE DEF lane
<1>5. CASE checkpoints[CodeAt(lane)] = CountAt(lane) /\ SetLane(o, l, NextCode(lane))
  <2>1. CodeAt(lane) \in Codes /\ CountAt(lane) \in Nat /\ CountAt(lane) <= joined[CodeAt(lane)]
    BY <1>1, <1>4 DEF CodeAt, CountAt, LaneKnows
  <2>2. joined[CodeAt(lane)] \in Nat /\ joined[CodeAt(lane)] <= MaxJoins /\ MaxJoins \in Nat
    BY <1>1, <2>1, AttendanceAssumption DEF AttInv, FewJoined
  <2>3. checkpoints[CodeAt(lane)] # Unread
    BY <1>5, <2>1, <2>2 DEF Unread
  <2>4. seen[CodeAt(lane)] >= CountAt(lane)
    BY <1>5, <2>1, <2>3 DEF AttInv, CheckpointIsBacked
  <2>5. NextCode(lane) \in LaneType /\ LaneKnows(NextCode(lane), joined, seen)
    BY <1>1, <1>2, <2>4, NextKnows
  <2> QED BY <1>2, <1>5, <2>5, LaneStep
<1>6. CASE SetLane(o, l, reading)
  <2>1. /\ reading \in LaneType /\ reading.left = lane.left /\ reading.at = "status"
        /\ reading.ok = lane.ok /\ reading.truncated = lane.truncated
        /\ reading.promised = lane.promised
    BY <1>1 DEF LaneType
  <2> HIDE DEF reading
  <2>2. LaneKnows(reading, joined, seen)
    BY <1>1, <1>2, <2>1 DEF LaneKnows
  <2> QED BY <1>2, <1>6, <2>1, <2>2, LaneStep
<1> QED BY <1>3, <1>5, <1>6

LEMMA StatusStep ==
    ASSUME AttInv, NEW o \in Organizers, NEW l \in Lanes, ReadStatus(o, l)
    PROVE  AttInv'
<1> DEFINE lane == sync[o].lane[l]
           read == [lane EXCEPT !.at = "record", !.joined = joined[CodeAt(lane)]]
           failed == [NextCode(lane) EXCEPT !.ok = FALSE]
<1>1. /\ lane \in LaneType /\ LaneKnows(lane, joined, seen)
      /\ joined \in [Codes -> Nat] /\ seen \in [Codes -> Nat]
      /\ lane.left \in SUBSET (Codes \X Nat)
  BY OneLane DEF LaneType
<1>2. lane.at = "status" /\ UNCHANGED <<Ours, recorded>>
  BY DEF ReadStatus, Lane
<1>3. SetLane(o, l, read) \/ SetLane(o, l, failed)
  BY DEF ReadStatus
<1>4. lane.left # {} /\ Newest(lane.left) \in lane.left
  <2>1. lane.left # {}
    BY <1>1, <1>2 DEF LaneKnows
  <2> QED BY <1>1, <2>1, NewestIsLeft
<1> HIDE DEF lane
<1>5. /\ CodeAt(lane) \in Codes /\ CountAt(lane) \in Nat
      /\ CountAt(lane) <= joined[CodeAt(lane)] /\ joined[CodeAt(lane)] \in Nat
  BY <1>1, <1>4 DEF CodeAt, CountAt, LaneKnows
<1>6. read \in LaneType /\ LaneKnows(read, joined, seen)
  <2>1. /\ read \in LaneType /\ read.left = lane.left /\ read.at = "record"
        /\ read.ok = lane.ok /\ read.truncated = lane.truncated
        /\ read.promised = lane.promised /\ read.joined = joined[CodeAt(lane)]
    BY <1>1, <1>5 DEF LaneType
  <2> HIDE DEF read
  <2>2. CodeAt(read) = CodeAt(lane) /\ CountAt(read) = CountAt(lane)
    BY <2>1 DEF CodeAt, CountAt
  <2> QED BY <1>1, <1>4, <1>5, <2>1, <2>2 DEF LaneKnows
<1>7. failed \in LaneType /\ LaneKnows(failed, joined, seen)
  <2>1. /\ failed \in LaneType /\ failed.left \subseteq lane.left /\ failed.at = "codes"
        /\ failed.ok = FALSE
    BY <1>1 DEF LaneType, NextCode
  <2> HIDE DEF failed
  <2> QED BY <1>1, <2>1 DEF LaneKnows
<1> HIDE DEF read, failed
<1> QED BY <1>2, <1>3, <1>6, <1>7, LaneStep

-----------------------------------------------------------------------------
(* What it writes                                                          *)

\* How the rows of one code change.
Recording(c, n, k) ==
    /\ seen' = [seen EXCEPT ![c] = IF n > @ THEN n ELSE @]
    /\ \E b \in BOOLEAN : counted' = [counted EXCEPT ![c] = Classified(@, n, b)]
    /\ checkpoints' = [checkpoints EXCEPT ![c] = k]

LEMMA RecordingIs ==
    ASSUME AttTypeOK, CheckpointIsBacked, NEW c \in Codes, NEW n \in Nat, NEW k \in Nat,
           k <= n, n <= joined[c], Recording(c, n, k)
    PROVE  /\ seen' \in [Codes -> Nat] /\ counted' \in [Codes -> Nat]
           /\ checkpoints' \in [Codes -> Nat]
           /\ \A d \in Codes : /\ seen'[d] >= seen[d] /\ counted'[d] >= counted[d]
                               /\ counted'[d] <= seen'[d] /\ seen'[d] <= joined[d]
                               /\ checkpoints'[d] # Unread => seen'[d] >= checkpoints'[d]
           /\ seen'[c] >= k
<1>1. /\ seen \in [Codes -> Nat] /\ counted \in [Codes -> Nat] /\ joined \in [Codes -> Nat]
      /\ checkpoints \in [Codes -> Nat]
      /\ \A d \in Codes : counted[d] <= seen[d] /\ seen[d] <= joined[d]
  BY DEF AttTypeOK
<1>2. PICK b \in BOOLEAN : counted' = [counted EXCEPT ![c] = Classified(@, n, b)]
  BY DEF Recording
<1>3. /\ Classified(counted[c], n, b) \in {counted[c], n}
      /\ Classified(counted[c], n, b) >= counted[c]
  BY <1>1 DEF Classified
<1>4. /\ counted' \in [Codes -> Nat] /\ counted'[c] \in {counted[c], n}
      /\ counted'[c] >= counted[c] /\ \A d \in Codes \ {c} : counted'[d] = counted[d]
  BY <1>1, <1>2, <1>3
<1>5. /\ seen' \in [Codes -> Nat] /\ seen'[c] >= n /\ seen'[c] >= seen[c]
      /\ seen'[c] <= joined[c] /\ \A d \in Codes \ {c} : seen'[d] = seen[d]
  BY <1>1 DEF Recording
<1>6. /\ checkpoints' \in [Codes -> Nat] /\ checkpoints'[c] = k
      /\ \A d \in Codes \ {c} : checkpoints'[d] = checkpoints[d]
  BY <1>1 DEF Recording
<1>7. seen'[c] >= k /\ counted'[c] <= seen'[c]
  BY <1>1, <1>4, <1>5
<1>8. \A d \in Codes : /\ seen'[d] >= seen[d] /\ counted'[d] >= counted[d]
                       /\ counted'[d] <= seen'[d] /\ seen'[d] <= joined[d]
  BY <1>1, <1>4, <1>5, <1>7
<1>9. \A d \in Codes : checkpoints'[d] # Unread => seen'[d] >= checkpoints'[d]
  BY <1>5, <1>6, <1>7 DEF CheckpointIsBacked
<1> QED BY <1>4, <1>5, <1>6, <1>7, <1>8, <1>9

\* What a lane has in hand when it records.
LEMMA InHand ==
    ASSUME AttInv, NEW o \in Organizers, NEW l \in Lanes, Lane(o, l, "record")
    PROVE  LET lane == sync[o].lane[l]
           IN  /\ lane.left # {} /\ CodeAt(lane) \in Codes /\ CountAt(lane) \in Nat
               /\ lane.joined \in Nat /\ CountAt(lane) <= lane.joined
               /\ lane.joined <= joined[CodeAt(lane)]
<1> DEFINE lane == sync[o].lane[l]
<1>1. /\ lane \in LaneType /\ LaneKnows(lane, joined, seen) /\ lane.at = "record"
      /\ lane.left \in SUBSET (Codes \X Nat) /\ lane.joined \in Nat
  BY OneLane DEF LaneType, Lane
<1> HIDE DEF lane
<1>2. lane.left # {} /\ Newest(lane.left) \in lane.left
  <2>1. lane.left # {}
    BY <1>1 DEF LaneKnows
  <2> QED BY <1>1, <2>1, NewestIsLeft
<1>3. CodeAt(lane) \in Codes /\ CountAt(lane) \in Nat
  BY <1>1, <1>2 DEF CodeAt, CountAt
<1>4. lane.joined >= CountAt(lane) /\ lane.joined <= joined[CodeAt(lane)]
  BY <1>1 DEF LaneKnows
<1> QED BY <1>1, <1>2, <1>3, <1>4 DEF lane

LEMMA RecordStep ==
    ASSUME AttInv, NEW o \in Organizers, NEW l \in Lanes, RecordCode(o, l)
    PROVE  AttInv'
<1> DEFINE lane == sync[o].lane[l]
           c == CodeAt(lane)
           rec == NextCode(lane)
           s == [sync[o] EXCEPT !.lane[l] = rec]
<1>1. /\ sync[o] \in SyncType /\ SyncKnows(sync[o], joined, seen)
      /\ lane \in LaneType /\ LaneKnows(lane, joined, seen)
      /\ joined \in [Codes -> Nat] /\ seen \in [Codes -> Nat]
  BY OneLane
<1>2. /\ lane.left # {} /\ c \in Codes /\ CountAt(lane) \in Nat
      /\ lane.joined \in Nat /\ CountAt(lane) <= lane.joined /\ lane.joined <= joined[c]
  BY InHand DEF RecordCode
<1>3. /\ Recording(c, lane.joined, CountAt(lane))
      /\ sync' = [sync EXCEPT ![o].lane[l] = rec]
      /\ UNCHANGED <<Ours, reconciled>>
  <2>1. (eventOf[c] \in sync[o].known) \in BOOLEAN
    OBVIOUS
  <2> QED BY <2>1 DEF RecordCode, Recording, SetLane
<1>4. AttTypeOK /\ CheckpointIsBacked /\ FewJoined /\ RowsBacked
  BY DEF AttInv
<1> HIDE DEF c
<1>5. /\ seen' \in [Codes -> Nat] /\ counted' \in [Codes -> Nat]
      /\ checkpoints' \in [Codes -> Nat]
      /\ \A d \in Codes : /\ seen'[d] >= seen[d]
                          /\ counted'[d] <= seen'[d] /\ seen'[d] <= joined[d]
                          /\ checkpoints'[d] # Unread => seen'[d] >= checkpoints'[d]
      /\ seen'[c] >= CountAt(lane)
  <2> HIDE DEF lane
  <2> QED BY <1>2, <1>3, <1>4, RecordingIs
<1>6. sync' = [sync EXCEPT ![o] = s]
  BY <1>3
<1> HIDE DEF lane
<1>7. \A d \in Codes : joined[d] <= joined[d] /\ seen[d] <= seen'[d]
  BY <1>1, <1>5
<1>8. LaneKnows(lane, joined, seen')
  BY <1>1, <1>5, <1>7, LaneGrows
<1>9. rec \in LaneType /\ LaneKnows(rec, joined, seen')
  BY <1>1, <1>2, <1>5, <1>8, NextKnows DEF c
<1>10. \A p \in Organizers : sync[p] \in SyncType /\ SyncKnows(sync[p], joined, seen')
  <2>1. \A p \in Organizers : sync[p] \in SyncType /\ SyncKnows(sync[p], joined, seen)
    BY DEF AttInv, AttTypeOK
  <2> QED BY <1>1, <1>5, <1>7, <2>1, SyncGrows
<1> HIDE DEF rec
<1>11. s \in SyncType /\ SyncKnows(s, joined, seen')
  BY <1>1, <1>9, <1>10, WithLane
<1> HIDE DEF s
<1>12. /\ sync' \in [Organizers -> SyncType]
       /\ \A p \in Organizers : SyncKnows(sync'[p], joined, seen')
  BY <1>4, <1>6, <1>10, <1>11 DEF AttTypeOK
<1>13. /\ UNCHANGED known /\ UNCHANGED settled /\ UNCHANGED codes /\ UNCHANGED made
       /\ UNCHANGED eventOf /\ UNCHANGED joined /\ UNCHANGED reconciled
  BY <1>3 DEF Ours, upstream
<1>14. AttTypeOK'
  BY <1>4, <1>5, <1>12, <1>13 DEF AttTypeOK
<1>15. FewJoined' /\ CheckpointIsBacked'
  BY <1>4, <1>5, <1>13 DEF FewJoined, CheckpointIsBacked
<1>16. RowsBacked'
  <2> SUFFICES ASSUME NEW m \in Lanes, reconciled[m].truncated = FALSE, NEW d \in Codes
               PROVE  seen'[d] >= reconciled[m].promised[d]
    BY <1>13 DEF RowsBacked
  <2>1. seen[d] >= reconciled[m].promised[d] /\ reconciled[m].promised[d] \in Nat
    BY <1>4 DEF RowsBacked, AttTypeOK
  <2> QED BY <1>1, <1>5, <2>1
<1> QED BY <1>12, <1>13, <1>14, <1>15, <1>16 DEF AttInv

\* The rows that say how far the record goes.
RecordType == [there : BOOLEAN, truncated : BOOLEAN, failed : BOOLEAN, promised : [Codes -> Nat]]

LEMMA WrittenStep ==
    ASSUME AttInv, NEW o \in Organizers, NEW s \in SyncType, SyncKnows(s, joined, seen),
           sync' = [sync EXCEPT ![o] = s], reconciled' \in [Lanes -> RecordType],
           \A l \in Lanes : reconciled'[l].truncated = FALSE =>
                \A c \in Codes : seen[c] >= reconciled'[l].promised[c],
           UNCHANGED <<Ours, seen, counted, checkpoints>>
    PROVE  AttInv'
<1>1. /\ sync' \in [Organizers -> SyncType]
      /\ \A p \in Organizers : SyncKnows(sync'[p], joined, seen)
  BY DEF AttInv, AttTypeOK
<1>2. AttTypeOK'
  BY <1>1 DEF AttInv, AttTypeOK, Ours, upstream, RecordType
<1>3. FewJoined' /\ CheckpointIsBacked' /\ RowsBacked'
  BY DEF AttInv, FewJoined, CheckpointIsBacked, RowsBacked, Ours, upstream
<1> QED BY <1>1, <1>2, <1>3 DEF AttInv, Ours, upstream

LEMMA SucceededStep == ASSUME AttInv, NEW o \in Organizers, WriteSucceeded(o) PROVE AttInv'
<1> DEFINE s == [sync[o] EXCEPT !.at = "failed"]
           row(l) == [there |-> TRUE, truncated |-> sync[o].lane[l].truncated, failed |-> FALSE,
                      promised |-> sync[o].lane[l].promised]
<1>1. sync[o] \in SyncType /\ SyncKnows(sync[o], joined, seen)
  BY DEF AttInv, AttTypeOK
<1>2. /\ sync' = [sync EXCEPT ![o] = s] /\ UNCHANGED <<Ours, seen, counted, checkpoints>>
  BY DEF WriteSucceeded
<1>3. reconciled' = [l \in Lanes |->
            IF Done(sync[o].lane[l]) /\ sync[o].lane[l].ok THEN row(l) ELSE reconciled[l]]
  BY DEF WriteSucceeded
<1>4. s \in SyncType /\ s.latest = sync[o].latest /\ s.lane = sync[o].lane
  BY <1>1 DEF SyncType
<1>5. SyncKnows(s, joined, seen)
  BY <1>1, <1>4 DEF SyncKnows
<1>6. reconciled \in [Lanes -> RecordType]
  BY DEF AttInv, AttTypeOK, RecordType
<1>7. ASSUME NEW l \in Lanes, Done(sync[o].lane[l]), sync[o].lane[l].ok
      PROVE  /\ row(l) \in RecordType
             /\ row(l).truncated = FALSE => \A c \in Codes : seen[c] >= row(l).promised[c]
  <2>1. /\ sync[o].lane[l] \in LaneType /\ LaneKnows(sync[o].lane[l], joined, seen)
        /\ sync[o].lane[l].ok = TRUE
    BY <1>7, OneLane DEF LaneType
  <2>2. sync[o].lane[l].left = {}
    BY <1>7 DEF Done
  <2>3. row(l) \in RecordType
    BY <2>1 DEF LaneType, RecordType
  <2>4. sync[o].lane[l].truncated = FALSE =>
            \A c \in Codes : seen[c] >= sync[o].lane[l].promised[c]
    BY <2>1, <2>2 DEF LaneKnows
  <2> QED BY <2>3, <2>4
<1> HIDE DEF s, row
<1>8. reconciled' \in [Lanes -> RecordType]
  BY <1>3, <1>6, <1>7
<1>9. \A l \in Lanes : reconciled'[l].truncated = FALSE =>
          \A c \in Codes : seen[c] >= reconciled'[l].promised[c]
  BY <1>3, <1>7 DEF AttInv, RowsBacked
<1> QED BY <1>2, <1>4, <1>5, <1>8, <1>9, WrittenStep

LEMMA FailedStep == ASSUME AttInv, NEW o \in Organizers, WriteFailed(o) PROVE AttInv'
<1>1. reconciled \in [Lanes -> RecordType]
  BY DEF AttInv, AttTypeOK, RecordType
<1>2. \A l \in Lanes : /\ reconciled'[l] \in RecordType
                       /\ reconciled'[l].truncated = reconciled[l].truncated
                       /\ reconciled'[l].promised = reconciled[l].promised
  BY <1>1 DEF WriteFailed, RecordType
<1>3. reconciled' \in [Lanes -> RecordType]
  <2>1. \E f : reconciled' = [l \in Lanes |-> f[l]]
    <3>1. reconciled' = [l \in Lanes |-> reconciled'[l]]
      BY DEF WriteFailed
    <3> QED BY <3>1
  <2> QED BY <1>2, <2>1
<1>4. \A l \in Lanes : reconciled'[l].truncated = FALSE =>
          \A c \in Codes : seen[c] >= reconciled'[l].promised[c]
  BY <1>2 DEF AttInv, RowsBacked
<1>5. /\ sync' = [sync EXCEPT ![o] = NoSync]
      /\ UNCHANGED <<Ours, seen, counted, checkpoints>>
  BY DEF WriteFailed, Continue
<1> QED BY <1>3, <1>4, <1>5, NoSyncKnows, WrittenStep

-----------------------------------------------------------------------------
LEMMA AttStart == AttInit => AttInv
<1> SUFFICES ASSUME AttInit PROVE AttInv
  OBVIOUS
<1>1. /\ joined = Nobody /\ seen = Nobody /\ counted = Nobody
      /\ Nobody \in [Codes -> Nat] /\ \A c \in Codes : Nobody[c] = 0
      /\ sync = [o \in Organizers |-> NoSync]
      /\ reconciled = [l \in Lanes |-> NoRecord]
  BY DEF AttInit, Nobody
<1>2. NoLane \in LaneType /\ NoSync \in SyncType
  <2>1. NoLane \in LaneType
    BY <1>1 DEF NoLane, LaneType
  <2> QED BY <2>1 DEF NoSync, SyncType
<1>3. SyncKnows(NoSync, joined, seen)
  BY <1>1 DEF SyncKnows, LaneKnows, NoSync, NoLane
<1>4. Unread \in Nat /\ MaxJoins \in Nat /\ MaxCodes \in Nat
  BY AttendanceAssumption DEF Unread
<1>5. /\ settled \subseteq Events /\ known \subseteq Events
      /\ codes \subseteq 1..made /\ made \in 0..MaxCodes
      /\ eventOf \in [Codes -> Lanes]
      /\ checkpoints = [c \in Codes |-> Unread]
  BY DEF AttInit, Lanes
<1>6. AttTypeOK
  BY <1>1, <1>2, <1>4, <1>5 DEF AttTypeOK, NoRecord
<1>7. FewJoined /\ CheckpointIsBacked /\ RowsBacked
  BY <1>1, <1>4, <1>5 DEF FewJoined, CheckpointIsBacked, RowsBacked, NoRecord
<1> QED BY <1>1, <1>3, <1>6, <1>7 DEF AttInv

LEMMA AttInvariance == AttInv /\ [AttNext]_attVars => AttInv'
<1> SUFFICES ASSUME AttInv, [AttNext]_attVars PROVE AttInv'
  OBVIOUS
<1>1. ASSUME NEW c \in Codes, CheckIn(c) \/ DeleteCode(c) PROVE AttInv'
  BY <1>1, CheckInStep, DeleteStep
<1>2. ASSUME NEW e \in Lanes, CreateCode(e) PROVE AttInv'
  BY <1>2, CreateStep
<1>3. ASSUME NEW e \in Events, AddEvent(e) \/ RemoveEvent(e) \/ Settle(e) PROVE AttInv'
  BY <1>3, EventStep
<1>4. ASSUME NEW o \in Organizers, Reconcile(o) PROVE AttInv'
  BY <1>4, StartStep, LatestStep, RowsReadStep, CheckpointsReadStep, ListEventStep,
     CompareStep, StatusStep, RecordStep, SucceededStep, FailedStep, AbortStep DEF Reconcile
<1>5. CASE UNCHANGED attVars
  BY <1>5, OursStays, OursStep DEF attVars, upstream, AttInv, AttTypeOK
<1> QED BY <1>1, <1>2, <1>3, <1>4, <1>5 DEF AttNext

\* The inductive invariant: with what every reconciliation in flight has listed and read.
THEOREM AttInvariant == AttSpec => []AttInv
BY AttStart, AttInvariance, PTL DEF AttSpec

\* Every variable has its type, and nothing is recorded that did not happen.
THEOREM AttTypeCorrect == AttSpec => []AttTypeOK
<1>1. AttInv => AttTypeOK
  BY DEF AttInv
<1> QED BY <1>1, AttInvariant, PTL

\* A code with check-ins that are not recorded is read again by the next reconciliation.
THEOREM NobodySkipped == AttSpec => []CheckpointIsBacked
<1>1. AttInv => CheckpointIsBacked
  BY DEF AttInv
<1> QED BY <1>1, AttInvariant, PTL

\* When no gap is reported, whoever had checked in when an event's codes were listed
\* is recorded.
THEOREM SyncedComplete == AttSpec => []SyncedIsComplete
<1>1. ASSUME AttInv, "truncated" \notin Gaps, NEW e \in known, NEW c \in Codes
      PROVE  seen[c] >= reconciled[e].promised[c]
  <2>1. e \in Lanes /\ reconciled[e].truncated \in BOOLEAN
    BY <1>1 DEF AttInv, AttTypeOK, Lanes
  <2>2. reconciled[e].truncated = FALSE
    BY <1>1, <2>1 DEF Gaps
  <2> QED BY <1>1, <2>1, <2>2 DEF AttInv, RowsBacked
<1>2. AttInv => SyncedIsComplete
  BY <1>1 DEF SyncedIsComplete
<1> QED BY <1>2, AttInvariant, PTL

\* No reconciliation takes anything back that is recorded or counted.
THEOREM RecordKept == AttSpec => RecordIsKept
<1> DEFINE Kept == \A c \in Codes : seen'[c] >= seen[c] /\ counted'[c] >= counted[c]
<1>1. ASSUME AttInv, NEW o \in Organizers, NEW l \in Lanes, RecordCode(o, l) PROVE Kept
  <2> DEFINE lane == sync[o].lane[l]
  <2>1. /\ lane.left # {} /\ CodeAt(lane) \in Codes /\ CountAt(lane) \in Nat
        /\ lane.joined \in Nat /\ CountAt(lane) <= lane.joined
        /\ lane.joined <= joined[CodeAt(lane)]
    BY <1>1, InHand DEF RecordCode
  <2>2. Recording(CodeAt(lane), lane.joined, CountAt(lane))
    <3>1. (eventOf[CodeAt(lane)] \in sync[o].known) \in BOOLEAN
      OBVIOUS
    <3> QED BY <1>1, <3>1 DEF RecordCode, Recording
  <2> HIDE DEF lane
  <2> QED BY <1>1, <2>1, <2>2, RecordingIs DEF AttInv
<1>2. ASSUME AttInv, UNCHANGED <<seen, counted>> PROVE Kept
  BY <1>2 DEF AttInv, AttTypeOK
<1>3. ASSUME AttInv, NEW o \in Organizers, Reconcile(o) PROVE Kept
  <2>1. CASE \E l \in Lanes : RecordCode(o, l)
    BY <1>1, <1>3, <2>1
  <2>2. CASE UNCHANGED <<seen, counted>>
    BY <1>2, <1>3, <2>2
  <2>3. (\E l \in Lanes : RecordCode(o, l)) \/ UNCHANGED <<seen, counted>>
    BY <1>3 DEF Reconcile, StartSync, ListLatest, ReadRows, ReadCheckpoints, ListEvent,
       CompareCode, ReadStatus, WriteSucceeded, WriteFailed, AbortSync, recorded
  <2> QED BY <2>1, <2>2, <2>3
<1>4. AttInv /\ [AttNext]_attVars => [Kept]_recorded
  <2> SUFFICES ASSUME AttInv, AttNext PROVE Kept
    BY DEF attVars
  <2>1. CASE \E o \in Organizers : Reconcile(o)
    BY <1>3, <2>1
  <2>2. CASE UNCHANGED recorded
    BY <1>2, <2>2 DEF recorded
  <2> QED BY <2>1, <2>2 DEF AttNext, CheckIn, DeleteCode, CreateCode, AddEvent,
             RemoveEvent, Settle
<1>5. AttSpec => [][Kept]_recorded
  BY <1>4, AttInvariant, PTL DEF AttSpec
<1> QED BY <1>5 DEF RecordIsKept
=============================================================================
