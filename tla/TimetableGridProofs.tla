------------------------ MODULE TimetableGridProofs ------------------------
(***************************************************************************)
(* For any trips, stops, times and numbers of actions: an undo never takes *)
(* back what another editor has written, the cursor stays on the grid, a   *)
(* reading is of the text above it, and what this page wrote is shown.     *)
(*                                                                         *)
(* An entry of the undo stack carries the revision that its write gave the *)
(* trip.  Revisions only grow, so an entry whose revision is still that of *)
(* the trip is of its last write, which was one of this page.              *)
(*                                                                         *)
(* The page keeps its invariant through every handler; what is asked of    *)
(* the process carries the edit it is about, and the text only changes     *)
(* with a new number.                                                      *)
(***************************************************************************)
EXTENDS TimetableGrid, NaturalsInduction, WellFoundedInduction, TLAPS

TripSet == ToSet(Trips)

DbShape ==
    /\ db = [times |-> db.times, rev |-> db.rev, gone |-> db.gone, by |-> db.by]
    /\ DOMAIN db.times = TripSet
    /\ db.rev \in [TripSet -> Nat]
    /\ DOMAIN db.by = TripSet

Shaped(v) ==
    v = [rows |-> v.rows, times |-> v.times, rev |-> v.rev,
         hidden |-> v.hidden, selected |-> v.selected, undo |-> v.undo]

SrvShape == Shaped(srv) /\ \E S : srv.undo \in Seq(S)

\* An entry is of an earlier write, or of the last one, which this page made.
Own(entry, d) ==
    \A t \in DOMAIN entry \cap TripSet :
        /\ entry[t].rev \in Nat
        /\ entry[t].rev <= d.rev[t]
        /\ entry[t].rev = d.rev[t] => d.by[t] # "other"

UndoInv ==
    /\ DbShape
    /\ SrvShape
    /\ \A i \in 1..Len(srv.undo) : Own(srv.undo[i], db)

\* How the trips change: not at all, or with a new revision.
Grows ==
    \A t \in TripSet :
        \/ db'.rev[t] = db.rev[t] /\ db'.by[t] = db.by[t]
        \/ db'.rev[t] > db.rev[t]

-----------------------------------------------------------------------------
(* The writes.                                                             *)

LEMMA WritesGrow ==
    ASSUME DbShape, NEW trips, NEW times, WriteTrips(trips, times)
    PROVE  /\ DbShape'
           /\ Grows
           /\ \A t \in TripSet : t \in trips =>
                 db'.rev[t] = db.rev[t] + 1 /\ db'.by[t] = "page"
           /\ \A t \in TripSet : t \notin trips => db'.times[t] = db.times[t]
<1> DEFINE T == [t \in TripSet |-> IF t \in trips THEN times[t] ELSE db.times[t]]
           R == [t \in TripSet |-> IF t \in trips THEN db.rev[t] + 1 ELSE db.rev[t]]
           B == [t \in TripSet |-> IF t \in trips THEN "page" ELSE db.by[t]]
<1>1. DOMAIN db.rev = TripSet
  BY DEF DbShape
<1>2. db' = [db EXCEPT !.times = T, !.rev = R, !.by = B]
  BY <1>1 DEF DbShape, WriteTrips
<1>3. db' = [times |-> T, rev |-> R, gone |-> db.gone, by |-> B]
  BY <1>2 DEF DbShape
<1>4. db'.times = T /\ db'.rev = R /\ db'.by = B /\ db'.gone = db.gone
  BY <1>3
<1>5. R \in [TripSet -> Nat]
  BY DEF DbShape
<1> HIDE DEF T, R, B
<1>6. DbShape'
  BY <1>3, <1>4, <1>5 DEF DbShape, TripSet, T, B
<1>7. \A t \in TripSet : db.rev[t] \in Nat
  BY DEF DbShape
<1>8. Grows
  BY <1>4, <1>7 DEF Grows, R, B
<1> QED
  BY <1>4, <1>6, <1>8 DEF T, R, B

LEMMA EntriesStay ==
    ASSUME NEW entry, Own(entry, db), DbShape, DbShape', Grows
    PROVE  Own(entry, db')
<1> SUFFICES ASSUME NEW t \in DOMAIN entry \cap TripSet
             PROVE  /\ entry[t].rev \in Nat
                    /\ entry[t].rev <= db'.rev[t]
                    /\ entry[t].rev = db'.rev[t] => db'.by[t] # "other"
  BY DEF Own
<1>1. entry[t].rev \in Nat /\ entry[t].rev <= db.rev[t]
  BY DEF Own
<1>2. db.rev[t] \in Nat /\ db'.rev[t] \in Nat
  BY DEF DbShape
<1>3. CASE db'.rev[t] = db.rev[t] /\ db'.by[t] = db.by[t]
  BY <1>1, <1>3 DEF Own
<1>4. CASE db'.rev[t] > db.rev[t]
  BY <1>1, <1>2, <1>4
<1> QED
  BY <1>3, <1>4 DEF Grows

-----------------------------------------------------------------------------
(* The stack.                                                              *)

\* The stack is one field of the record.
LEMMA StacksAreReplaced ==
    ASSUME NEW v, Shaped(v), NEW u
    PROVE  Shaped([v EXCEPT !.undo = u]) /\ [v EXCEPT !.undo = u].undo = u
<1> DEFINE w == [v EXCEPT !.undo = u]
<1>1. w = [rows |-> v.rows, times |-> v.times, rev |-> v.rev,
           hidden |-> v.hidden, selected |-> v.selected, undo |-> u]
  BY DEF Shaped
<1> HIDE DEF w
<1>2. Shaped(w) /\ w.undo = u
  BY <1>1 DEF Shaped
<1> QED
  BY <1>2 DEF w

\* A reload leaves the stack alone.
LEMMA ReloadsKeepTheStack ==
    ASSUME NEW v, Shaped(v)
    PROVE  Shaped(LoadSchedule(v)) /\ LoadSchedule(v).undo = v.undo
<1> DEFINE rows == Without(v.hidden \cup db'.gone)
<1>1. LoadSchedule(v) = [v EXCEPT !.rows = rows, !.times = db'.times, !.rev = db'.rev]
  BY Zenon DEF LoadSchedule
<1> HIDE DEF rows
<1>2. LoadSchedule(v) = [rows |-> rows, times |-> db'.times, rev |-> db'.rev,
                         hidden |-> v.hidden, selected |-> v.selected, undo |-> v.undo]
  BY <1>1 DEF Shaped
<1> QED
  BY <1>2 DEF Shaped

LEMMA QuietSteps ==
    ASSUME UndoInv, db' = db, Shaped(srv'), srv'.undo = srv.undo
    PROVE  UndoInv'
<1>1. DbShape' /\ SrvShape'
  BY DEF UndoInv, DbShape, SrvShape
<1>2. \A i \in 1..Len(srv.undo) : Own(srv.undo[i], db')
  BY DEF UndoInv, Own
<1> QED
  BY <1>1, <1>2 DEF UndoInv

LEMMA NewEntry ==
    ASSUME DbShape, NEW trips, NEW times, WriteTrips(trips, times)
    PROVE  Own(Before(trips), db')
<1>1. /\ DbShape'
      /\ \A t \in TripSet : t \in trips =>
            db'.rev[t] = db.rev[t] + 1 /\ db'.by[t] = "page"
  BY WritesGrow
<1>2. DOMAIN Before(trips) = trips /\ \A t \in trips : Before(trips)[t].rev = db.rev[t] + 1
  BY DEF Before
<1>3. \A t \in TripSet : db.rev[t] \in Nat
  BY DEF DbShape
<1> DEFINE entry == Before(trips)
<1> HIDE DEF entry
<1>4. \A t \in DOMAIN entry \cap TripSet :
         /\ entry[t].rev \in Nat
         /\ entry[t].rev <= db'.rev[t]
         /\ entry[t].rev = db'.rev[t] => db'.by[t] # "other"
  BY <1>1, <1>2, <1>3 DEF entry
<1> QED
  BY <1>4 DEF Own, entry

\* A write of this page: its entry goes on top.
LEMMA WritesPush ==
    ASSUME UndoInv, NEW trips, NEW times,
           WriteTrips(trips, times), srv' = Committed(srv, trips)
    PROVE  UndoInv'
<1> DEFINE entry == Before(trips)
           v == [srv EXCEPT !.undo = <<entry>> \o @]
<1>1. DbShape' /\ Grows /\ Own(entry, db')
  BY WritesGrow, NewEntry DEF UndoInv
<1> HIDE DEF entry
<1>0. Shaped(srv)
  BY DEF UndoInv, SrvShape
<1>3. Shaped(v) /\ v.undo = <<entry>> \o srv.undo
  BY <1>0, StacksAreReplaced
<1>4. srv' = LoadSchedule(v)
  BY Zenon DEF Committed, entry
<1> HIDE DEF v
<1>5. Shaped(srv') /\ srv'.undo = <<entry>> \o srv.undo
  BY <1>3, <1>4, ReloadsKeepTheStack
<1>6. PICK S : srv.undo \in Seq(S)
  BY DEF UndoInv, SrvShape
<1>7. srv'.undo \in Seq(S \cup {entry})
  BY <1>5, <1>6
<1>8. ASSUME NEW i \in 1..Len(srv'.undo) PROVE Own(srv'.undo[i], db')
  <2>1. CASE i = 1
    BY <1>1, <1>5, <1>6, <2>1
  <2>2. CASE i # 1
    <3>1. i - 1 \in 1..Len(srv.undo) /\ srv'.undo[i] = srv.undo[i - 1]
      BY <1>5, <1>6, <2>2
    <3>2. Own(srv.undo[i - 1], db)
      BY <3>1 DEF UndoInv
    <3> QED
      BY <1>1, <3>1, <3>2, EntriesStay DEF UndoInv
  <2> QED
    BY <2>1, <2>2
<1>9. SrvShape'
  <2>1. \E Q : srv'.undo \in Seq(Q)
    BY <1>7
  <2> QED
    BY <1>5, <2>1 DEF SrvShape, Shaped
<1> QED
  BY <1>1, <1>8, <1>9 DEF UndoInv

\* An undo, done, refused or only reported: its entry is used up, and the others stay.
LEMMA UndosPop ==
    ASSUME UndoInv, srv.undo # <<>>, DbShape', Grows,
           \/ srv' = LoadSchedule([srv EXCEPT !.undo = Tail(@)])
           \/ srv' = [srv EXCEPT !.undo = Tail(@)]
    PROVE  UndoInv'
<1> DEFINE v == [srv EXCEPT !.undo = Tail(@)]
<1>0. Shaped(srv)
  BY DEF UndoInv, SrvShape
<1>2. Shaped(v) /\ v.undo = Tail(srv.undo)
  BY <1>0, StacksAreReplaced
<1>3. srv' = LoadSchedule(v) \/ srv' = v
  OBVIOUS
<1> HIDE DEF v
<1>4. Shaped(srv') /\ srv'.undo = Tail(srv.undo)
  BY <1>2, <1>3, ReloadsKeepTheStack
<1>5. PICK S : srv.undo \in Seq(S)
  BY DEF UndoInv, SrvShape
<1> DEFINE s == srv.undo
<1>6. /\ Tail(s) \in Seq(S) /\ Len(s) \in Nat /\ Len(s) > 0
      /\ Len(Tail(s)) = Len(s) - 1
      /\ \A i \in 1..Len(Tail(s)) : Tail(s)[i] = s[i + 1]
  <2> HIDE DEF s
  <2>1. s \in Seq(S) /\ s # <<>>
    BY <1>5 DEF s
  <2> QED
    BY <2>1
<1>7. ASSUME NEW i \in 1..Len(srv'.undo) PROVE Own(srv'.undo[i], db')
  <2>0. i \in 1..Len(Tail(s)) /\ srv'.undo[i] = Tail(s)[i]
    BY <1>4
  <2>1. i + 1 \in 1..Len(s) /\ srv'.undo[i] = s[i + 1]
    <3> HIDE DEF s
    <3> QED
      BY <1>6, <2>0
  <2>2. Own(srv.undo[i + 1], db)
    BY <2>1 DEF UndoInv
  <2> QED
    BY <2>1, <2>2, EntriesStay DEF UndoInv
<1>8. SrvShape'
  <2>1. \E Q : srv'.undo \in Seq(Q)
    BY <1>4, <1>6
  <2> QED
    BY <1>4, <2>1 DEF SrvShape, Shaped
<1> QED
  BY <1>7, <1>8 DEF UndoInv

-----------------------------------------------------------------------------
(* The steps of the process. *)

\* A selection leaves the stack alone, as a filter does.
LEMMA SelectionsKeepTheStack ==
    ASSUME NEW v, Shaped(v), NEW s
    PROVE  Shaped([v EXCEPT !.selected = s]) /\ [v EXCEPT !.selected = s].undo = v.undo
<1> DEFINE w == [v EXCEPT !.selected = s]
<1>1. w = [rows |-> v.rows, times |-> v.times, rev |-> v.rev,
           hidden |-> v.hidden, selected |-> s, undo |-> v.undo]
  BY DEF Shaped
<1> HIDE DEF w
<1>2. Shaped(w) /\ w.undo = v.undo
  BY <1>1 DEF Shaped
<1> QED
  BY <1>2 DEF w

LEMMA FiltersKeepTheStack ==
    ASSUME NEW v, Shaped(v), NEW h
    PROVE  LET w == [v EXCEPT !.hidden = h, !.selected = {}] IN Shaped(w) /\ w.undo = v.undo
<1> DEFINE w == [v EXCEPT !.hidden = h, !.selected = {}]
<1>0. w = [v EXCEPT !.hidden = h, !.selected = {}]
  OBVIOUS
<1> HIDE DEF w
<1>1. w = [rows |-> v.rows, times |-> v.times, rev |-> v.rev,
           hidden |-> h, selected |-> {}, undo |-> v.undo]
  BY <1>0 DEF Shaped
<1>2. Shaped(w) /\ w.undo = v.undo
  BY <1>1 DEF Shaped
<1> QED
  BY <1>2 DEF w

LEMMA UnwrittenHolds ==
    ASSUME UndoInv, NEW patch, NEW ok, Unwritten(patch, ok)
    PROVE  UndoInv'
<1>1. srv' = srv /\ db' = db
  BY DEF Unwritten, Answers
<1>2. Shaped(srv)
  BY DEF UndoInv, SrvShape
<1>3. Shaped(srv')
  BY <1>1, <1>2
<1> QED
  BY <1>1, <1>3, QuietSteps

LEMMA SetTimeHolds ==
    ASSUME UndoInv, NEW cell, NEW v, SetTime(cell, v)
    PROVE  UndoInv'
<1> DEFINE times == [t \in {cell[1]} |-> [db.times[t] EXCEPT ![cell[2]] = v]]
<1>1. CASE Unwritten("insert", FALSE)
  BY <1>1, UnwrittenHolds
<1>2. CASE /\ WriteTrips({cell[1]}, times)
           /\ Answers("reset", TRUE, Committed(srv, {cell[1]}))
  <2>1. srv' = Committed(srv, {cell[1]})
    BY <1>2 DEF Answers
  <2> HIDE DEF times
  <2> QED
    BY <1>2, <2>1, WritesPush
<1> QED
  BY <1>1, <1>2, Zenon DEF SetTime

LEMMA ShiftHolds ==
    ASSUME UndoInv, NEW trips, NEW minutes, ShiftTrips(trips, minutes)
    PROVE  UndoInv'
<1> DEFINE moved == [t \in trips |-> Shifted(db.times[t], minutes)]
<1>1. CASE Unwritten("bar", TRUE)
  BY <1>1, UnwrittenHolds
<1>2. CASE WriteTrips(trips, moved) /\ Answers("reset", TRUE, Committed(srv, trips))
  <2>1. srv' = Committed(srv, trips)
    BY <1>2 DEF Answers
  <2> HIDE DEF moved
  <2> QED
    BY <1>2, <2>1, WritesPush
<1> QED
  BY <1>1, <1>2, Zenon DEF ShiftTrips

LEMMA UndoHolds ==
    ASSUME UndoInv, UndoLast
    PROVE  UndoInv'
<1> DEFINE entry == Head(srv.undo)
           times == [t \in DOMAIN entry |-> entry[t].times]
           popped == [srv EXCEPT !.undo = Tail(@)]
<1>1. CASE srv.undo = <<>>
  <2>1. Unwritten("none", TRUE)
    BY <1>1, Zenon DEF UndoLast
  <2> QED
    BY <2>1, UnwrittenHolds
<1>2. CASE srv.undo # <<>>
  <2>1. \/ RestoreUnchanged(entry) /\ WriteTrips(DOMAIN entry, times)
           /\ Answers("reset", TRUE, LoadSchedule(popped))
        \/ UNCHANGED db /\ Answers("reset", FALSE, LoadSchedule(popped))
        \/ UNCHANGED db /\ Answers("bar", FALSE, popped)
    BY <1>2, Zenon DEF UndoLast
  <2>2. srv' = LoadSchedule(popped) \/ srv' = popped
    BY <2>1, Zenon DEF Answers
  <2>3. DbShape' /\ Grows
    <3> HIDE DEF entry, times, popped
    <3>1. CASE WriteTrips(DOMAIN entry, times)
      BY <3>1, WritesGrow DEF UndoInv
    <3>2. CASE UNCHANGED db
      BY <3>2 DEF UndoInv, DbShape, Grows
    <3> QED
      BY <2>1, <3>1, <3>2
  <2> QED
    BY <1>2, <2>2, <2>3, UndosPop
<1> QED
  BY <1>1, <1>2

LEMMA ReselectHolds ==
    ASSUME UndoInv, NEW selected, Reselect(selected)
    PROVE  UndoInv'
<1>1. srv' = [srv EXCEPT !.selected = selected] /\ db' = db
  BY Zenon DEF Reselect, Answers
<1>2. Shaped(srv)
  BY DEF UndoInv, SrvShape
<1>3. Shaped(srv') /\ srv'.undo = srv.undo
  BY <1>1, <1>2, SelectionsKeepTheStack
<1> QED
  BY <1>1, <1>3, QuietSteps

LEMMA ParamsHold ==
    ASSUME UndoInv, NEW hidden, HandleParams(hidden)
    PROVE  UndoInv'
<1> DEFINE v == [srv EXCEPT !.hidden = hidden, !.selected = {}]
<1>1. srv' = LoadSchedule(v) /\ db' = db
  BY Zenon DEF HandleParams, Answers
<1>2. Shaped(srv)
  BY DEF UndoInv, SrvShape
<1>3. Shaped(v) /\ v.undo = srv.undo
  BY <1>2, FiltersKeepTheStack
<1> HIDE DEF v
<1>4. Shaped(srv') /\ srv'.undo = srv.undo
  BY <1>1, <1>3, ReloadsKeepTheStack
<1> QED
  BY <1>1, <1>4, QuietSteps

LEMMA HandleHolds ==
    ASSUME UndoInv, NEW type, NEW x, HandleEvent(type, x)
    PROVE  UndoInv'
<1>1. CASE CellPreview(x)
  BY <1>1, UnwrittenHolds DEF CellPreview
<1>2. CASE CommitCell(x)
  BY <1>2, UnwrittenHolds, SetTimeHolds DEF CommitCell
<1>3. CASE WriteClear(x)
  BY <1>3, UnwrittenHolds, SetTimeHolds DEF WriteClear
<1>4. CASE NudgeTrips(x)
  BY <1>4, UnwrittenHolds, ShiftHolds DEF NudgeTrips
<1>5. CASE UndoLast
  BY <1>5, UndoHolds
<1>6. CASE ToggleSelected(x.trip)
  BY <1>6, UnwrittenHolds, ReselectHolds DEF ToggleSelected
<1>7. CASE SelectRange(x)
  BY <1>7, UnwrittenHolds, ReselectHolds DEF SelectRange
<1>8. CASE Unwritten("bar", TRUE)
  BY <1>8, UnwrittenHolds
<1>9. CASE HandleParams(x.hidden)
  BY <1>9, ParamsHold
<1> QED
  BY <1>1, <1>2, <1>3, <1>4, <1>5, <1>6, <1>7, <1>8, <1>9 DEF HandleEvent

-----------------------------------------------------------------------------
(* The other editors. *)

LEMMA OthersHold ==
    ASSUME UndoInv, NEW t \in TripSet, OtherWrites(t)
    PROVE  UndoInv'
<1> DEFINE T == [db.times EXCEPT ![t] = Shifted(@, 1)]
           R == [db.rev EXCEPT ![t] = @ + 1]
           B == [db.by EXCEPT ![t] = "other"]
<1>1. srv' = srv /\ db' = [db EXCEPT !.times = T, !.rev = R, !.by = B]
  BY DEF OtherWrites, Other
<1>2. db' = [times |-> T, rev |-> R, gone |-> db.gone, by |-> B]
  BY <1>1 DEF UndoInv, DbShape
<1>3. R \in [TripSet -> Nat] /\ DOMAIN T = TripSet /\ DOMAIN B = TripSet
  BY DEF UndoInv, DbShape
<1>4. \A u \in TripSet : R[u] = (IF u = t THEN db.rev[u] + 1 ELSE db.rev[u])
                           /\ (u # t => B[u] = db.by[u])
  BY DEF UndoInv, DbShape
<1> HIDE DEF T, R, B
<1>5. DbShape'
  BY <1>2, <1>3 DEF DbShape, TripSet
<1>6. \A u \in TripSet : db.rev[u] \in Nat
  BY DEF UndoInv, DbShape
<1>7. Grows
  BY <1>2, <1>4, <1>6 DEF Grows
<1>8. SrvShape'
  BY <1>1 DEF UndoInv, SrvShape
<1>9. \A i \in 1..Len(srv.undo) : Own(srv.undo[i], db')
  BY <1>5, <1>7, EntriesStay DEF UndoInv
<1> QED
  BY <1>1, <1>5, <1>8, <1>9 DEF UndoInv

LEMMA DeletesHold ==
    ASSUME UndoInv, NEW t, OtherDeletes(t)
    PROVE  UndoInv'
<1> DEFINE G == db.gone \cup {t}
<1>1. srv' = srv /\ db' = [db EXCEPT !.gone = G]
  BY DEF OtherDeletes, Other
<1> HIDE DEF G
<1>2. db' = [times |-> db.times, rev |-> db.rev, gone |-> G, by |-> db.by]
  BY <1>1 DEF UndoInv, DbShape
<1>3. DbShape'
  BY <1>2 DEF UndoInv, DbShape, TripSet
<1>4. Grows
  BY <1>2 DEF Grows
<1>5. SrvShape'
  BY <1>1 DEF UndoInv, SrvShape
<1>6. \A i \in 1..Len(srv.undo) : Own(srv.undo[i], db')
  BY <1>3, <1>4, EntriesStay DEF UndoInv
<1> QED
  BY <1>1, <1>3, <1>5, <1>6 DEF UndoInv

-----------------------------------------------------------------------------

LEMMA InitHolds ==
    ASSUME Init
    PROVE  UndoInv
<1> DEFINE R == [t \in ToSet(Trips) |-> 1]
           B == [t \in ToSet(Trips) |-> None]
<1>1. db = [times |-> Start, rev |-> R, gone |-> {}, by |-> B]
  BY DEF Init
<1>2. srv = [rows |-> Trips, times |-> Start, rev |-> db.rev, hidden |-> {},
             selected |-> {}, undo |-> <<>>]
  BY DEF Init
<1>3. R \in [TripSet -> Nat] /\ DOMAIN B = TripSet /\ DOMAIN Start = TripSet
  BY GridAssumption DEF TripSet
<1> HIDE DEF R, B
<1>4. DbShape
  BY <1>1, <1>3 DEF DbShape
<1>5. srv.undo = <<>> /\ Shaped(srv)
  BY <1>2 DEF Shaped
<1>6. SrvShape
  <2>1. <<>> \in Seq({})
    OBVIOUS
  <2> QED
    BY <1>5, <2>1 DEF SrvShape
<1> QED
  BY <1>4, <1>5, <1>6 DEF UndoInv

\* What the operator does, and an answer, is on the page only.
LEMMA PageStepsAreQuiet ==
    ASSUME UndoInv, UNCHANGED <<srv, db>>
    PROVE  UndoInv'
BY DEF UndoInv, DbShape, SrvShape, Shaped, Own

LEMMA NextHolds ==
    ASSUME UndoInv, [Next]_vars
    PROVE  UndoInv'
<1>1. CASE Handle
  <2>1. HandleEvent(Head(up).type, Head(up).x)
    BY <1>1 DEF Handle
  <2> QED
    BY <2>1, HandleHolds
<1>2. CASE \E t \in ToSet(Trips) : OtherWrites(t) \/ OtherDeletes(t)
  BY <1>2, OthersHold, DeletesHold DEF TripSet
<1>3. CASE UNCHANGED <<srv, db>>
  BY <1>3, PageStepsAreQuiet
<1>4. ASSUME NEW p, Do(p)
      PROVE  UNCHANGED <<srv, db>>
  BY <1>4 DEF Do
<1>5. CASE Arrow \/ ExtendSelection \/ ToggleTrip \/ PressUndo \/ PressChord
  <2>1. \E p : Do(p)
    BY <1>5, Zenon DEF Arrow, ExtendSelection, ToggleTrip, PressUndo, PressChord
  <2> QED
    BY <1>3, <1>4, <2>1
<1>6. CASE \/ \E minutes \in {-1, 1} : Nudge(minutes)
           \/ \E v \in Typed : PressKey(v) \/ TypeText(v)
           \/ PressEnter \/ PressDelete \/ PressEscape \/ PreviewTimer
           \/ \E move \in {"up", "down", "left", "right"} : Commit(move)
  <2>1. \E p : Do(p)
    BY <1>6, Zenon DEF Nudge, PressKey, TypeText, PressEnter, PressDelete, PressEscape,
                      PreviewTimer, Commit
  <2> QED
    BY <1>3, <1>4, <2>1
<1>7. CASE \/ \E cell \in Cells(page) : ClickCell(cell)
           \/ \E hidden \in {{}, {Head(Trips)}} : ChooseFilter(hidden)
  <2>1. \E p : Do(p)
    BY <1>7, Zenon DEF ClickCell, ChooseFilter
  <2> QED
    BY <1>3, <1>4, <2>1
<1>8. CASE Deliver
  BY <1>3, <1>8 DEF Deliver
<1>9. CASE UNCHANGED vars
  BY <1>3, <1>9 DEF vars
<1> QED
  BY <1>1, <1>2, <1>5, <1>6, <1>7, <1>8, <1>9, Zenon DEF Next

\* An undo restores the trips of its entry, and those are still the page's.
LEMMA UndoKeeps ==
    ASSUME UndoInv, UndoLast, NEW t \in TripSet, db.by[t] = "other"
    PROVE  db'.times[t] = db.times[t]
<1> DEFINE entry == Head(srv.undo)
           times == [u \in DOMAIN entry |-> entry[u].times]
<1>1. CASE UNCHANGED db
  BY <1>1
<1>2. CASE srv.undo # <<>> /\ RestoreUnchanged(entry) /\ WriteTrips(DOMAIN entry, times)
  <2>1. PICK S : srv.undo \in Seq(S)
    BY DEF UndoInv, SrvShape
  <2>2. 1 \in 1..Len(srv.undo) /\ entry = srv.undo[1]
    BY <1>2, <2>1
  <2>3. Own(entry, db)
    BY <2>2 DEF UndoInv
  <2> HIDE DEF entry, times
  <2>4. t \notin DOMAIN entry
    BY <1>2, <2>3 DEF Own, RestoreUnchanged
  <2> QED
    BY <1>2, <2>4, WritesGrow DEF UndoInv
<1> QED
  BY <1>1, <1>2, Zenon DEF UndoLast, Unwritten

\* An undo never takes back what another editor wrote: restore_fence! compares the
\* revision that the write of the entry left with the one that is stored.
THEOREM UndosAreFenced == Spec => UndoKeepsOthers
<1>1. Init => UndoInv
  BY InitHolds
<1>2. UndoInv /\ [Next]_vars => UndoInv'
  BY NextHolds
<1>3. UndoInv =>
        (Handle /\ Head(up).type = "undo" =>
           \A t \in ToSet(Trips) : db.by[t] = "other" => db'.times[t] = db.times[t])
  <2> SUFFICES ASSUME UndoInv, Handle, Head(up).type = "undo",
                      NEW t \in ToSet(Trips), db.by[t] = "other"
               PROVE  db'.times[t] = db.times[t]
    OBVIOUS
  <2>1. UndoLast
    BY DEF Handle, HandleEvent
  <2> QED
    BY <2>1, UndoKeeps DEF TripSet
<1> QED
  BY <1>1, <1>2, <1>3, PTL DEF Spec, UndoKeepsOthers

-----------------------------------------------------------------------------
(* The rows: what the filter of the trips gives is defined by recursion,   *)
(* and the proof is by the least counterexample.                           *)

LEMMA Least ==
    ASSUME NEW T, T \subseteq Nat, T # {}
    PROVE  \E x \in T : \A y \in T : ~(y < x)
<1>1. IsWellFoundedOn(OpToRel(<, Nat), Nat)
  BY NatLessThanWellFounded
<1>2. PICK x \in T : \A y \in T : ~(<<y, x>> \in OpToRel(<, Nat))
  BY <1>1, WFMin
<1>3. ASSUME NEW y \in T, y < x
      PROVE  <<y, x>> \in OpToRel(<, Nat)
  <2>1. OpToRel(<, Nat) = {ss \in Nat \X Nat : ss[1] < ss[2]}
    BY Zenon DEF OpToRel
  <2>2. <<y, x>> \in {ss \in Nat \X Nat : ss[1] < ss[2]}
    BY <1>3
  <2> QED
    BY <2>1, <2>2, Zenon
<1> QED
  BY <1>2, <1>3, Zenon

\* One trip more is shown, or not.
NextRow(f, i, gone) ==
    IF i = 0 THEN <<>>
    ELSE IF Trips[i] \in gone THEN f[i - 1] ELSE Append(f[i - 1], Trips[i])
Shows(f, n, gone) == f = [i \in 0 .. n |-> NextRow(f, i, gone)]

LEMMA ShownExists ==
    ASSUME NEW gone
    PROVE  \A n \in Nat : \E f : Shows(f, n, gone)
<1> DEFINE T == {n \in Nat : ~\E f : Shows(f, n, gone)}
<1>1. ASSUME T # {} PROVE FALSE
  <2>1. PICK n \in T : \A k \in T : ~(k < n)
    BY <1>1, Least
  <2>2. n # 0
    <3> DEFINE f == [i \in 0 .. 0 |-> <<>>]
    <3>1. \A i \in 0 .. 0 : NextRow(f, i, gone) = <<>>
      BY DEF NextRow
    <3> HIDE DEF f
    <3>2. [i \in 0 .. 0 |-> NextRow(f, i, gone)] = [i \in 0 .. 0 |-> <<>>]
      BY <3>1
    <3>3. Shows(f, 0, gone)
      BY <3>2 DEF Shows, f
    <3> QED
      BY <3>3
  <2>3. PICK f : Shows(f, n - 1, gone)
    <3>1. n - 1 \in Nat /\ n - 1 < n
      BY <2>2
    <3> QED
      BY <2>1, <3>1
  <2> DEFINE g == [i \in 0 .. n |-> NextRow(f, i, gone)]
  <2>4. \A i \in 0 .. n - 1 : f[i] = g[i]
    <3>1. f = [i \in 0 .. n - 1 |-> NextRow(f, i, gone)]
      BY <2>3 DEF Shows
    <3>2. TAKE i \in 0 .. n - 1
    <3>3. i \in 0 .. n
      BY <2>1
    <3>4. g[i] = NextRow(f, i, gone)
      BY <3>3
    <3> HIDE DEF g
    <3> QED
      BY <3>1, <3>4, Zenon
  <2>5. \A i \in 0 .. n : NextRow(g, i, gone) = NextRow(f, i, gone)
    <3> HIDE DEF g
    <3> SUFFICES ASSUME NEW i \in 0 .. n, i # 0
                 PROVE  NextRow(g, i, gone) = NextRow(f, i, gone)
      BY DEF NextRow
    <3>1. i - 1 \in 0 .. n - 1
      BY <2>1
    <3> QED
      BY <2>4, <3>1 DEF NextRow
  <2>6. [i \in 0 .. n |-> NextRow(g, i, gone)] = [i \in 0 .. n |-> NextRow(f, i, gone)]
    <3> HIDE DEF g
    <3> QED
      BY <2>5
  <2>7. Shows(g, n, gone)
    BY <2>6, Zenon DEF Shows
  <2> HIDE DEF g
  <2> QED
    BY <2>1, <2>7
<1> QED
  BY <1>1

LEMMA RowsAreTrips ==
    ASSUME NEW gone
    PROVE  Without(gone) \in Seq(TripSet)
<1> DEFINE N == Len(Trips)
           f == CHOOSE f : f = [i \in 0 .. N |->
                                  IF i = 0 THEN <<>>
                                  ELSE IF Trips[i] \in gone THEN f[i - 1] ELSE Append(f[i - 1], Trips[i])]
<1>1. N \in Nat /\ \A i \in 1 .. N : Trips[i] \in TripSet
  BY GridAssumption DEF TripSet, ToSet
<1>2. Without(gone) = f[N]
  BY Zenon DEF Without
<1>3. Shows(f, N, gone)
  <2>1. \E h : Shows(h, N, gone)
    BY <1>1, ShownExists
  <2> QED
    BY <2>1, Zenon DEF Shows, NextRow
<1> HIDE DEF f
<1> DEFINE T == {i \in 0 .. N : f[i] \notin Seq(TripSet)}
<1>4. ASSUME T # {} PROVE FALSE
  <2>0. T \subseteq Nat
    BY <1>1
  <2>1. PICK i \in T : \A k \in T : ~(k < i)
    <3> HIDE DEF T
    <3> QED
      BY <1>4, <2>0, Least
  <2>2. i \in 0 .. N /\ f[i] \notin Seq(TripSet)
    OBVIOUS
  <2>3. f[i] = NextRow(f, i, gone)
    BY <1>3, <2>2, Zenon DEF Shows
  <2>4. i # 0
    <3>1. <<>> \in Seq(TripSet)
      OBVIOUS
    <3> QED
      BY <2>2, <2>3, <3>1 DEF NextRow
  <2>5. i - 1 \in 0 .. N /\ i - 1 < i
    BY <1>1, <2>2, <2>4
  <2>6. f[i - 1] \in Seq(TripSet)
    BY <2>1, <2>5
  <2>7. Trips[i] \in TripSet
    BY <1>1, <2>2, <2>4
  <2>8. Append(f[i - 1], Trips[i]) \in Seq(TripSet)
    BY <2>6, <2>7
  <2> QED
    BY <2>2, <2>3, <2>4, <2>6, <2>8 DEF NextRow
<1> QED
  BY <1>1, <1>2, <1>4

-----------------------------------------------------------------------------
(* The page, and what an assignment to some of its fields leaves.          *)

PageFields == {"rows", "text", "cursor", "spot", "marked", "pending", "restore", "anchor",
               "editor", "open", "placed", "reading", "focus", "sent"}
Shape(p) == PageFields \subseteq DOMAIN p

\* Only the fields of a set are written.
Writes(p, o, set) == Shape(o) /\ \A f \in PageFields \ set : o[f] = p[f]

EditorFields == {"id", "cell", "value", "seq", "timer", "committing"}
IsEditor(e) ==
    /\ EditorFields \subseteq DOMAIN e
    /\ e.id \in Nat /\ e.seq \in Nat /\ e.cell[2] \in ToSet(Columns)

GridInv(p) ==
    /\ Shape(p) /\ p.rows \in Seq(TripSet)
    /\ p.spot[1] \in Int /\ p.spot[2] \in 1 .. Len(Columns)
Roving(p) ==
    p.cursor # None /\ p.rows # <<>> => p.cursor \in Cells(p) /\ p.marked = {p.cursor}

\* Before a cell was chosen nothing can be edited.
Chosen(p) == p.cursor = None => p.editor = NoEditor /\ p.focus \in {Body, Outside}
EditorInv(p) ==
    /\ p.editor # NoEditor => IsEditor(p.editor)
    /\ EditorOpen(p) => ~p.editor.committing
    /\ Chosen(p)
Over(p) == EditorOpen(p) => p.editor.cell \in Cells(p) /\ p.placed = p.editor.cell
ReadsText(p) ==
    EditorOpen(p) => (p.reading.kind = "reading" => p.reading.of = <<p.editor.cell, p.editor.value>>)

PageInv(p) == GridInv(p) /\ Roving(p) /\ EditorInv(p) /\ Over(p) /\ ReadsText(p)

Walking == {"cursor", "spot", "marked", "focus"}
Aside == {"text", "pending", "restore", "anchor", "sent"}

LEMMA WritesOn ==
    ASSUME NEW p, NEW o, NEW q, NEW X, NEW Y, NEW Z, Writes(p, o, X), Writes(o, q, Y),
           X \cup Y \subseteq Z
    PROVE  Writes(p, q, Z)
BY DEF Writes

LEMMA PageStays ==
    ASSUME NEW p, PageInv(p), NEW o, NEW X, Writes(p, o, X), X \subseteq Aside
    PROVE  PageInv(o)
<1>1. /\ o.rows = p.rows /\ o.cursor = p.cursor /\ o.spot = p.spot /\ o.marked = p.marked
      /\ o.editor = p.editor /\ o.open = p.open /\ o.placed = p.placed
      /\ o.reading = p.reading /\ o.focus = p.focus /\ Shape(o)
  BY DEF Writes, PageFields, Aside
<1>2. GridInv(o) /\ Roving(o)
  BY <1>1 DEF PageInv, GridInv, Roving, Cells
<1>3. EditorInv(o)
  BY <1>1 DEF PageInv, EditorInv, EditorOpen, Chosen
<1>4. Over(o) /\ ReadsText(o)
  BY <1>1 DEF PageInv, Over, ReadsText, EditorOpen, Cells
<1> QED
  BY <1>2, <1>3, <1>4 DEF PageInv

-----------------------------------------------------------------------------
(* The cursor.                                                             *)

LEMMA ClampIn ==
    ASSUME NEW i \in Int, NEW n \in Nat, n >= 1
    PROVE  Clamp(i, n) \in 1 .. n
BY DEF Clamp

LEMMA PositionIn ==
    ASSUME NEW S, NEW s \in Seq(S), NEW x
    PROVE  Position(s, x) \in 1 .. Len(s) \cup {1}
<1>1. DOMAIN s = 1 .. Len(s)
  OBVIOUS
<1>2. CASE x \in ToSet(s)
  <2>1. \E i \in DOMAIN s : s[i] = x
    BY <1>2 DEF ToSet
  <2> QED
    BY <1>1, <1>2, <2>1 DEF Position
<1> QED
  BY <1>2 DEF Position

LEMMA ColumnFacts ==
    /\ Columns \in Seq(ToSet(Stops) \cup {0}) /\ Len(Columns) \in Nat /\ Len(Columns) >= 1
    /\ \A i \in 1 .. Len(Columns) : Columns[i] \in ToSet(Columns)
    /\ ToSet(Columns) \subseteq ToSet(Stops) \cup {0}
    /\ \A x : Position(Columns, x) \in 1 .. Len(Columns)
<1>1. Stops \in Seq(ToSet(Stops) \cup {0})
  BY GridAssumption
<1>2. Columns \in Seq(ToSet(Stops) \cup {0}) /\ Len(Columns) \in Nat /\ Len(Columns) >= 1
  BY <1>1 DEF Columns, Timing
<1> HIDE DEF Columns
<1>3. \A i \in 1 .. Len(Columns) : Columns[i] \in ToSet(Columns)
  BY <1>2 DEF ToSet
<1>4. ToSet(Columns) \subseteq ToSet(Stops) \cup {0}
  <2> DEFINE S == ToSet(Stops) \cup {0}
  <2>1. Columns \in Seq(S)
    BY <1>2
  <2> HIDE DEF S
  <2>2. \A i \in DOMAIN Columns : Columns[i] \in S
    BY <2>1
  <2>3. ToSet(Columns) \subseteq S
    BY <2>2 DEF ToSet
  <2> QED
    BY <2>3 DEF S
<1>5. ASSUME NEW x PROVE Position(Columns, x) \in 1 .. Len(Columns)
  <2>1. Position(Columns, x) \in 1 .. Len(Columns) \cup {1}
    BY <1>2, PositionIn
  <2> QED
    BY <1>2, <2>1
<1> QED
  BY <1>2, <1>3, <1>4, <1>5

LEMMA CellsAreChosen ==
    ASSUME NEW p, p.rows \in Seq(TripSet), NEW cell \in Cells(p)
    PROVE  /\ cell # None /\ cell \notin {Body, Outside}
           /\ cell[1] \in ToSet(p.rows) /\ cell[2] \in ToSet(Columns)
<1>1. ToSet(p.rows) \subseteq TripSet
  BY DEF ToSet
<1>2. cell \in TripSet \X (ToSet(Stops) \cup {0})
  BY <1>1, ColumnFacts DEF Cells
<1>3. cell # None
  BY <1>2, GridAssumption DEF TripSet
<1>4. 2 \in DOMAIN cell
  BY <1>2
<1>5. 2 \notin DOMAIN Body /\ 2 \notin DOMAIN Outside
  BY DEF Body, Outside
<1>6. cell # Body /\ cell # Outside
  BY <1>4, <1>5
<1>7. cell[1] \in ToSet(p.rows) /\ cell[2] \in ToSet(Columns)
  BY DEF Cells
<1> QED
  BY <1>3, <1>6, <1>7

LEMMA SetCursorSets ==
    ASSUME NEW p, GridInv(p), NEW cell \in Cells(p), NEW focus
    PROVE  /\ Writes(p, SetCursor(p, cell, focus), Walking)
           /\ GridInv(SetCursor(p, cell, focus)) /\ Roving(SetCursor(p, cell, focus))
           /\ SetCursor(p, cell, focus).cursor # None
<1> DEFINE o == SetCursor(p, cell, focus)
<1>1. Writes(p, o, Walking)
  BY DEF SetCursor, GridInv, Writes, Shape, PageFields, Walking
<1>2. /\ o.cursor = cell /\ o.marked = {cell}
      /\ o.spot = <<Position(p.rows, cell[1]), Position(Columns, cell[2])>>
  BY DEF SetCursor, GridInv, Shape, PageFields
<1> HIDE DEF o
<1>3. o.rows = p.rows /\ Shape(o)
  BY <1>1 DEF Writes, PageFields, Walking
<1>4. o.spot[1] \in Int /\ o.spot[2] \in 1 .. Len(Columns)
  <2>1. Position(p.rows, cell[1]) \in Int
    BY PositionIn DEF GridInv
  <2>2. Position(Columns, cell[2]) \in 1 .. Len(Columns)
    BY ColumnFacts
  <2> QED
    BY <1>2, <2>1, <2>2
<1>5. GridInv(o)
  BY <1>3, <1>4 DEF GridInv
<1>6. Roving(o) /\ o.cursor # None
  BY <1>2, <1>3, CellsAreChosen DEF Roving, Cells, GridInv
<1> QED
  BY <1>1, <1>5, <1>6 DEF o

\* A walk leaves the editor alone.
LEMMA WalksKeepTheEditor ==
    ASSUME NEW p, NEW o, EditorInv(p), Writes(p, o, Walking), o.cursor # None
    PROVE  /\ EditorInv(o) /\ o.editor = p.editor /\ (EditorOpen(o) <=> EditorOpen(p))
           /\ ReadsText(p) => ReadsText(o)
           /\ Over(p) => Over(o)
           /\ Cells(o) = Cells(p) /\ o.rows = p.rows
<1>1. /\ o.editor = p.editor /\ o.open = p.open /\ o.placed = p.placed
      /\ o.reading = p.reading /\ o.rows = p.rows
  BY DEF Writes, PageFields, Walking
<1>2. (EditorOpen(o) <=> EditorOpen(p)) /\ Cells(o) = Cells(p)
  BY <1>1 DEF EditorOpen, Cells
<1>3. EditorInv(o)
  BY <1>1, <1>2 DEF EditorInv, Chosen
<1>4. (ReadsText(p) => ReadsText(o)) /\ (Over(p) => Over(o))
  BY <1>1, <1>2 DEF ReadsText, Over
<1> QED
  BY <1>1, <1>2, <1>3, <1>4

LEMMA WalkTo ==
    ASSUME NEW p, PageInv(p), NEW cell \in Cells(p), NEW focus
    PROVE  PageInv(SetCursor(p, cell, focus)) /\ Writes(p, SetCursor(p, cell, focus), Walking)
<1> DEFINE o == SetCursor(p, cell, focus)
<1>1. Writes(p, o, Walking) /\ GridInv(o) /\ Roving(o) /\ o.cursor # None
  BY SetCursorSets DEF PageInv
<1> HIDE DEF o
<1>2. EditorInv(o) /\ ReadsText(o) /\ Over(o)
  BY <1>1, WalksKeepTheEditor DEF PageInv
<1> QED
  BY <1>1, <1>2 DEF PageInv, o

\* What a move may do: nothing, or go to a cell of the grid.
Walked(p, o) == PageInv(o) /\ Writes(p, o, Walking)

LEMMA StandStill ==
    ASSUME NEW p, PageInv(p)
    PROVE  Walked(p, p)
BY DEF PageInv, GridInv, Walked, Writes

LEMMA MoveHWalks ==
    ASSUME NEW p, PageInv(p), NEW cell, NEW delta \in Int
    PROVE  Walked(p, MoveH(p, cell, delta))
<1> DEFINE c == <<cell[1], Columns[Clamp(Position(Columns, cell[2]) + delta, Len(Columns))]>>
<1>1. CASE ~HasTrip(p, cell[1])
  BY <1>1, StandStill DEF MoveH
<1>2. CASE HasTrip(p, cell[1])
  <2>0. Position(Columns, cell[2]) + delta \in Int
    BY ColumnFacts
  <2>1. Clamp(Position(Columns, cell[2]) + delta, Len(Columns)) \in 1 .. Len(Columns)
    BY <2>0, ColumnFacts, ClampIn
  <2>2. c \in Cells(p)
    BY <1>2, <2>1, ColumnFacts DEF HasTrip, Cells
  <2>3. MoveH(p, cell, delta) = SetCursor(p, c, TRUE)
    BY <1>2 DEF MoveH
  <2> HIDE DEF c
  <2> QED
    BY <2>2, <2>3, WalkTo DEF Walked
<1> QED
  BY <1>1, <1>2

LEMMA MoveVWalks ==
    ASSUME NEW p, PageInv(p), NEW cell, cell[2] \in ToSet(Columns), NEW delta \in Int
    PROVE  Walked(p, MoveV(p, cell, delta))
<1> DEFINE n == Clamp(Position(p.rows, cell[1]) + delta, Len(p.rows))
           c == <<p.rows[n], cell[2]>>
<1>1. CASE p.rows = <<>>
  BY <1>1, StandStill DEF MoveV
<1>2. CASE p.rows # <<>>
  <2>1. p.rows \in Seq(TripSet)
    BY DEF PageInv, GridInv
  <2>2. Len(p.rows) \in Nat /\ Len(p.rows) >= 1
    BY <1>2, <2>1
  <2>3. Position(p.rows, cell[1]) \in Int
    BY <2>1, <2>2, PositionIn
  <2>4. n \in 1 .. Len(p.rows)
    <3>1. Position(p.rows, cell[1]) + delta \in Int
      BY <2>3
    <3> QED
      BY <2>2, <3>1, ClampIn
  <2> HIDE DEF n
  <2>5. p.rows[n] \in ToSet(p.rows)
    BY <2>1, <2>4 DEF ToSet
  <2>6. c \in Cells(p)
    BY <2>5 DEF Cells
  <2>7. MoveV(p, cell, delta) = SetCursor(p, c, TRUE)
    BY <1>2 DEF MoveV, n
  <2> HIDE DEF c
  <2> QED
    BY <2>6, <2>7, WalkTo DEF Walked
<1> QED
  BY <1>1, <1>2

\* The cursor stays on its cell, or goes to the row that took its place.
LEMMA ApplyCursorRoves ==
    ASSUME NEW p, GridInv(p), p.cursor # None, NEW focus
    PROVE  /\ Writes(p, ApplyCursor(p, focus), Walking)
           /\ GridInv(ApplyCursor(p, focus)) /\ Roving(ApplyCursor(p, focus))
           /\ ApplyCursor(p, focus).cursor # None
<1> DEFINE c == <<p.rows[Clamp(p.spot[1], Len(p.rows))], Columns[p.spot[2]]>>
<1>1. CASE p.rows = <<>>
  <2>1. ApplyCursor(p, focus) = p
    BY <1>1 DEF ApplyCursor
  <2> QED
    BY <1>1, <2>1 DEF GridInv, Writes, Roving
<1>2. CASE p.rows # <<>> /\ p.cursor \in Cells(p)
  <2>1. ApplyCursor(p, focus) = SetCursor(p, p.cursor, focus)
    BY <1>2 DEF ApplyCursor
  <2> QED
    BY <1>2, <2>1, SetCursorSets
<1>3. CASE p.rows # <<>> /\ p.cursor \notin Cells(p)
  <2>1. p.rows \in Seq(TripSet) /\ Len(p.rows) \in Nat /\ Len(p.rows) >= 1
    BY <1>3 DEF GridInv
  <2>2. Clamp(p.spot[1], Len(p.rows)) \in 1 .. Len(p.rows)
    BY <2>1, ClampIn DEF GridInv
  <2>3. p.rows[Clamp(p.spot[1], Len(p.rows))] \in ToSet(p.rows)
    BY <2>1, <2>2 DEF ToSet
  <2>4. Columns[p.spot[2]] \in ToSet(Columns)
    BY ColumnFacts DEF GridInv
  <2>5. c \in Cells(p)
    BY <2>3, <2>4 DEF Cells
  <2>6. ApplyCursor(p, focus) = SetCursor(p, c, focus)
    BY <1>3 DEF ApplyCursor
  <2> HIDE DEF c
  <2> QED
    BY <2>5, <2>6, SetCursorSets
<1> QED
  BY <1>1, <1>2, <1>3

-----------------------------------------------------------------------------
(* The editor over a cell.                                                 *)

LEMMA UnfocusedWrites ==
    ASSUME NEW p, Shape(p)
    PROVE  /\ Writes(p, Unfocused(p), {"focus"})
           /\ p.focus \in {Body, Outside} => Unfocused(p).focus \in {Body, Outside}
BY DEF Unfocused, Writes, Shape, PageFields, Body, Outside, Input

LEMMA PushWrites ==
    ASSUME NEW p, Shape(p), p.sent = <<>>, NEW type, NEW x, NEW ctx
    PROVE  /\ Writes(p, PushEvent(p, type, x, ctx), {"restore", "sent"})
           /\ PushEvent(p, type, x, ctx).sent
                = Append(<<>>, [type |-> type, x |-> x, ctx |-> ctx])
BY DEF PushEvent, Writes, Shape, PageFields

\* What is written to the editor leaves the grid as it is.
LEMMA GridStays ==
    ASSUME NEW p, GridInv(p), Roving(p), NEW o, NEW X, Writes(p, o, X),
           X \cap {"rows", "spot", "cursor", "marked"} = {}
    PROVE  GridInv(o) /\ Roving(o) /\ o.cursor = p.cursor /\ Cells(o) = Cells(p)
<1>1. /\ o.rows = p.rows /\ o.cursor = p.cursor /\ o.spot = p.spot /\ o.marked = p.marked
      /\ Shape(o)
  BY DEF Writes, PageFields
<1> QED
  BY <1>1 DEF GridInv, Roving, Cells

LEMMA ClearEditorCloses ==
    ASSUME NEW p, Shape(p)
    PROVE  /\ Writes(p, ClearEditor(p), {"editor", "open", "focus"})
           /\ ClearEditor(p).editor = NoEditor
           /\ p.focus \in {Body, Outside} => ClearEditor(p).focus \in {Body, Outside}
<1> DEFINE b == [p EXCEPT !.editor = NoEditor, !.open = FALSE]
<1>1. Writes(p, b, {"editor", "open"}) /\ b.editor = NoEditor /\ b.focus = p.focus /\ Shape(b)
  BY DEF Writes, Shape, PageFields
<1>2. ClearEditor(p) = Unfocused(b)
  BY DEF ClearEditor
<1> HIDE DEF b
<1> DEFINE o == Unfocused(b)
<1>3. Writes(b, o, {"focus"}) /\ (b.focus \in {Body, Outside} => o.focus \in {Body, Outside})
  BY <1>1, UnfocusedWrites
<1> HIDE DEF o
<1>4. Writes(p, o, {"editor", "open", "focus"})
  BY <1>1, <1>3, WritesOn
<1>5. o.editor = NoEditor
  BY <1>1, <1>3 DEF Writes, PageFields
<1> QED
  BY <1>1, <1>2, <1>3, <1>4, <1>5 DEF o

\* A closed editor asks nothing of the grid under it.
LEMMA ClosedHolds ==
    ASSUME NEW p, GridInv(p), Roving(p), Chosen(p)
    PROVE  /\ PageInv(ClearEditor(p))
           /\ Writes(p, ClearEditor(p), {"editor", "open", "focus"})
           /\ ClearEditor(p).editor = NoEditor /\ Cells(ClearEditor(p)) = Cells(p)
<1> DEFINE o == ClearEditor(p)
<1>1. /\ Writes(p, o, {"editor", "open", "focus"}) /\ o.editor = NoEditor
      /\ p.focus \in {Body, Outside} => o.focus \in {Body, Outside}
  BY ClearEditorCloses DEF GridInv
<1> HIDE DEF o
<1>2. GridInv(o) /\ Roving(o) /\ o.cursor = p.cursor /\ Cells(o) = Cells(p)
  BY <1>1, GridStays
<1>3. EditorInv(o) /\ Over(o) /\ ReadsText(o)
  BY <1>1, <1>2 DEF EditorInv, Over, ReadsText, EditorOpen, Chosen
<1> QED
  BY <1>1, <1>2, <1>3 DEF PageInv, o

\* What becomes of the editor: it is closed, goes on, or is one that is begun now.
Ages(e, f) ==
    \/ f = NoEditor
    \/ /\ e # NoEditor /\ f.id = e.id /\ f.cell = e.cell /\ f.seq >= e.seq
       /\ f.seq = e.seq => f.value = e.value
    \/ f.id = events

Editing == {"editor", "open", "placed", "reading"} \cup Walking

LEMMA CloseEditorCloses ==
    ASSUME NEW p, PageInv(p)
    PROVE  /\ PageInv(CloseEditor(p)) /\ Writes(p, CloseEditor(p), {"editor", "open", "focus"})
           /\ CloseEditor(p).editor = NoEditor \/ CloseEditor(p).editor = p.editor
           /\ Cells(CloseEditor(p)) = Cells(p)
<1>1. CASE CloseEditor(p) = p
  BY <1>1 DEF PageInv, GridInv, Writes
<1>2. CASE CloseEditor(p) = ClearEditor(p)
  BY <1>2, ClosedHolds DEF PageInv, EditorInv
<1> QED
  BY <1>1, <1>2 DEF CloseEditor

LEMMA PreviewIsScheduled ==
    ASSUME NEW p, Shape(p), IsEditor(p.editor)
    PROVE  /\ Writes(p, SchedulePreview(p), {"editor", "reading"})
           /\ IsEditor(SchedulePreview(p).editor)
           /\ SchedulePreview(p).editor.id = p.editor.id
           /\ SchedulePreview(p).editor.cell = p.editor.cell
           /\ SchedulePreview(p).editor.value = p.editor.value
           /\ SchedulePreview(p).editor.seq = p.editor.seq + 1
           /\ SchedulePreview(p).editor.committing = p.editor.committing
           /\ SchedulePreview(p).reading.kind # "reading"
<1> DEFINE o == SchedulePreview(p)
           t == p.editor.value # Blank
           r == IF p.editor.value = Blank THEN Hint ELSE NoReading
           f == [p.editor EXCEPT !.seq = @ + 1, !.timer = t]
<1>1. r.kind # "reading"
  BY DEF Hint, NoReading
<1>2. o = [p EXCEPT !.editor = f, !.reading = r]
  BY DEF SchedulePreview, Shape, PageFields
<1>3. /\ IsEditor(f) /\ f.id = p.editor.id /\ f.cell = p.editor.cell
      /\ f.value = p.editor.value /\ f.seq = p.editor.seq + 1
      /\ f.committing = p.editor.committing
  <2> HIDE DEF t
  <2> QED
    BY DEF IsEditor, EditorFields
<1> HIDE DEF f, r, t
<1>4. o.editor = f /\ o.reading = r /\ Writes(p, o, {"editor", "reading"})
  BY <1>2 DEF Shape, PageFields, Writes
<1> HIDE DEF o
<1> QED
  BY <1>1, <1>3, <1>4 DEF o


LEMMA EditorsAreSome ==
    ASSUME NEW e, IsEditor(e)
    PROVE  e # NoEditor
BY DEF IsEditor, NoEditor

\* The same edit, with what was typed in between.
Goes(e, f) ==
    \/ f = NoEditor
    \/ /\ e # NoEditor /\ f.id = e.id /\ f.cell = e.cell /\ f.seq >= e.seq
       /\ f.seq = e.seq => f.value = e.value

LEMMA GoesOn ==
    ASSUME NEW e, e = NoEditor \/ IsEditor(e)
    PROVE  Goes(e, e) /\ Goes(e, NoEditor)
BY DEF Goes, IsEditor

\* A new edit: over a cell of the grid, with no reading yet.
LEMMA StartEditOpens ==
    ASSUME NEW p, PageInv(p), events \in Nat, NEW cell \in Cells(p), p.cursor # None, NEW value
    PROVE  /\ PageInv(StartEdit(p, cell, value))
           /\ Writes(p, StartEdit(p, cell, value), Editing)
           /\ StartEdit(p, cell, value).editor.id = events
<1> DEFINE e == [id |-> events, cell |-> cell, value |-> value, seq |-> 0, timer |-> FALSE,
                 committing |-> FALSE]
           a == [p EXCEPT !.editor = e, !.open = TRUE, !.focus = Input]
           b == PlaceEditor(a)
           o == SchedulePreview(b)
<1>0. GridInv(p) /\ Roving(p) /\ Shape(p)
  BY DEF PageInv, GridInv
<1>1. IsEditor(e) /\ e.id = events /\ e.cell = cell /\ ~e.committing
  <2>1. cell[2] \in ToSet(Columns)
    BY <1>0, CellsAreChosen DEF GridInv
  <2> QED
    BY <2>1 DEF IsEditor, EditorFields
<1>2. StartEdit(p, cell, value) = o
  BY DEF StartEdit
<1> HIDE DEF e
<1>3. Writes(p, a, {"editor", "open", "focus"}) /\ a.editor = e /\ a.open
  BY <1>0 DEF Writes, Shape, PageFields
<1> HIDE DEF a
<1>4. Cells(a) = Cells(p) /\ EditorOpen(a) /\ Shape(a)
  BY <1>0, <1>1, <1>3, GridStays, EditorsAreSome DEF EditorOpen, Writes
<1>5. b = [a EXCEPT !.placed = cell]
  BY <1>1, <1>3, <1>4 DEF PlaceEditor
<1>6. Writes(a, b, {"placed"}) /\ b.placed = cell /\ b.editor = e /\ Shape(b)
  BY <1>3, <1>4, <1>5 DEF Writes, Shape, PageFields
<1> HIDE DEF b
<1>7. Writes(b, o, {"editor", "reading"}) /\ IsEditor(o.editor)
      /\ o.editor.id = e.id /\ o.editor.cell = e.cell /\ o.editor.committing = e.committing
      /\ o.reading.kind # "reading"
  BY <1>1, <1>6, PreviewIsScheduled
<1> HIDE DEF o
<1>8. Writes(p, o, {"editor", "open", "focus", "placed", "reading"})
  <2>1. Writes(p, b, {"editor", "open", "focus", "placed"})
    BY <1>3, <1>6, WritesOn
  <2> QED
    BY <2>1, <1>7, WritesOn
<1>9. GridInv(o) /\ Roving(o) /\ o.cursor = p.cursor /\ Cells(o) = Cells(p)
  BY <1>0, <1>8, GridStays
<1>10. o.placed = cell
  BY <1>6, <1>7 DEF Writes, PageFields
<1>11. EditorInv(o) /\ Over(o) /\ ReadsText(o)
  BY <1>1, <1>7, <1>9, <1>10 DEF EditorInv, Over, ReadsText, Chosen
<1>12. Writes(p, o, Editing)
  BY <1>8 DEF Writes, Editing, Walking
<1>13. PageInv(o)
  BY <1>9, <1>11 DEF PageInv
<1>14. o.editor.id = events
  BY <1>1, <1>7
<1> QED
  BY <1>2, <1>12, <1>13, <1>14, Zenon

\* A change of the editor, with nothing read under it yet.
LEMMA EditsHold ==
    ASSUME NEW p, PageInv(p), EditorOpen(p), NEW o, Writes(p, o, {"editor", "reading"}),
           IsEditor(o.editor), o.editor.cell = p.editor.cell, ~o.editor.committing,
           o.reading.kind # "reading"
    PROVE  PageInv(o)
<1>1. GridInv(o) /\ Roving(o) /\ o.cursor = p.cursor /\ Cells(o) = Cells(p)
  BY GridStays DEF PageInv
<1>2. o.placed = p.placed
  BY DEF Writes, PageFields
<1>3. EditorInv(o) /\ Over(o) /\ ReadsText(o)
  BY <1>1, <1>2 DEF EditorInv, Over, ReadsText, Chosen, PageInv, EditorOpen
<1> QED
  BY <1>1, <1>3 DEF PageInv

LEMMA InputIsRead ==
    ASSUME NEW p, PageInv(p), EditorOpen(p), NEW v
    PROVE  /\ PageInv(HandleEditorInput(p, v))
           /\ Writes(p, HandleEditorInput(p, v), Editing)
           /\ Goes(p.editor, HandleEditorInput(p, v).editor)
<1> DEFINE f == [p.editor EXCEPT !.value = v]
           b == [p EXCEPT !.editor = f]
           o == SchedulePreview(b)
<1>0. Shape(p) /\ p.editor # NoEditor /\ IsEditor(p.editor) /\ ~p.editor.committing
  BY DEF PageInv, GridInv, EditorInv, EditorOpen
<1>1. /\ IsEditor(f) /\ f.id = p.editor.id /\ f.cell = p.editor.cell /\ f.seq = p.editor.seq
      /\ f.committing = p.editor.committing
  BY <1>0 DEF IsEditor, EditorFields
<1>2. HandleEditorInput(p, v) = o
  BY <1>0 DEF HandleEditorInput
<1> HIDE DEF f
<1>3. Writes(p, b, {"editor"}) /\ b.editor = f /\ Shape(b)
  BY <1>0 DEF Writes, Shape, PageFields
<1> HIDE DEF b
<1>4. Writes(b, o, {"editor", "reading"}) /\ IsEditor(o.editor)
      /\ o.editor.id = f.id /\ o.editor.cell = f.cell /\ o.editor.committing = f.committing
      /\ o.editor.seq = f.seq + 1 /\ o.reading.kind # "reading"
  BY <1>1, <1>3, PreviewIsScheduled
<1> HIDE DEF o
<1>5. Writes(p, o, {"editor", "reading"})
  BY <1>3, <1>4, WritesOn
<1>6. PageInv(o)
  BY <1>0, <1>1, <1>4, <1>5, EditsHold
<1>7. Goes(p.editor, o.editor)
  BY <1>0, <1>1, <1>4 DEF Goes, IsEditor
<1>8. Writes(p, o, Editing)
  BY <1>5 DEF Writes, Editing
<1> QED
  BY <1>2, <1>6, <1>7, <1>8


LEMMA TimerPushes ==
    ASSUME NEW p, PageInv(p), p.sent = <<>>, p.editor # NoEditor
    PROVE  /\ PageInv(PushPreview(p))
           /\ Writes(p, PushPreview(p), {"editor", "restore", "sent"})
           /\ PushPreview(p).editor.id = p.editor.id
           /\ PushPreview(p).editor.cell = p.editor.cell
           /\ PushPreview(p).editor.seq = p.editor.seq
           /\ PushPreview(p).editor.value = p.editor.value
           /\ PushPreview(p).sent
                = Append(<<>>, [type |-> "cell_preview",
                                x |-> [cell |-> p.editor.cell, text |-> p.editor.value],
                                ctx |-> p.editor])
<1> DEFINE f == [p.editor EXCEPT !.timer = FALSE]
           b == [p EXCEPT !.editor = f]
           x == [cell |-> b.editor.cell, text |-> b.editor.value]
           o == PushEvent(b, "cell_preview", [cell |-> p.editor.cell, text |-> p.editor.value], p.editor)
<1>0. Shape(p) /\ IsEditor(p.editor)
  BY DEF PageInv, GridInv, EditorInv
<1>1. /\ IsEditor(f) /\ f.id = p.editor.id /\ f.cell = p.editor.cell
      /\ f.value = p.editor.value /\ f.seq = p.editor.seq
      /\ f.committing = p.editor.committing
  BY <1>0 DEF IsEditor, EditorFields
<1>2. PushPreview(p) = o
  BY <1>0 DEF PushPreview
<1> HIDE DEF f
<1>3. Writes(p, b, {"editor"}) /\ b.editor = f /\ Shape(b) /\ b.sent = <<>>
  BY <1>0 DEF Writes, Shape, PageFields
<1> HIDE DEF b
<1>4. /\ Writes(b, o, {"restore", "sent"})
      /\ o.sent = Append(<<>>, [type |-> "cell_preview",
                                x |-> [cell |-> p.editor.cell, text |-> p.editor.value],
                                ctx |-> p.editor])
  BY <1>3, PushWrites
<1> HIDE DEF o
<1>5. Writes(p, o, {"editor", "restore", "sent"}) /\ o.editor = f
  BY <1>3, <1>4, WritesOn DEF Writes, PageFields
<1>6. GridInv(o) /\ Roving(o) /\ o.cursor = p.cursor /\ Cells(o) = Cells(p)
  BY <1>5, GridStays DEF PageInv
<1>7. o.open = p.open /\ o.placed = p.placed /\ o.reading = p.reading /\ o.focus = p.focus
  BY <1>5 DEF Writes, PageFields
<1>8. EditorInv(o) /\ Over(o) /\ ReadsText(o)
  <2>1. o.editor # NoEditor
    BY <1>1, <1>5, EditorsAreSome
  <2> QED
    BY <1>1, <1>5, <1>6, <1>7, <2>1 DEF EditorInv, Over, ReadsText, Chosen, PageInv, EditorOpen
<1>9. PageInv(o)
  BY <1>6, <1>8 DEF PageInv
<1> QED
  BY <1>1, <1>2, <1>4, <1>5, <1>9

Moves == {"down", "up", "left", "right"}

\* What is asked of the process about an editor.
OfCommit(c) == c.editor.cell[2] \in ToSet(Columns) /\ c.move \in Moves

LEMMA CommitWaits ==
    ASSUME NEW p, PageInv(p), p.sent = <<>>, EditorOpen(p), NEW move \in Moves
    PROVE  /\ PageInv(CommitEditor(p, move))
           /\ Writes(p, CommitEditor(p, move), {"pending", "restore", "sent"} \cup Editing)
           /\ Goes(p.editor, CommitEditor(p, move).editor)
           /\ \/ CommitEditor(p, move).sent = <<>>
              \/ \E x, c : /\ OfCommit(c)
                           /\ CommitEditor(p, move).sent
                                = Append(<<>>, [type |-> "cell_commit", x |-> x, ctx |-> c])
<1> DEFINE f == [p.editor EXCEPT !.timer = FALSE, !.seq = @ + 1, !.committing = TRUE]
           x == [cell |-> f.cell, text |-> f.value]
           c == [editor |-> f, move |-> move]
           a == [p EXCEPT !.editor = f, !.pending = @ \cup {f.cell}]
           b == PushEvent(a, "cell_commit", x, c)
           d == [b EXCEPT !.open = FALSE]
           o == Unfocused(d)
<1>0. Shape(p) /\ IsEditor(p.editor) /\ p.editor # NoEditor
  BY DEF PageInv, GridInv, EditorInv, EditorOpen
<1>1. CASE p.editor.value = Blank
  <2> DEFINE q == [p EXCEPT !.reading = Refusal]
  <2>1. CommitEditor(p, move) = q
    BY <1>1 DEF CommitEditor
  <2>2. Writes(p, q, {"reading"}) /\ q.reading.kind # "reading"
    BY <1>0 DEF Writes, Shape, PageFields, Refusal
  <2> HIDE DEF q
  <2>3. q.editor = p.editor /\ q.sent = <<>>
    BY <2>2 DEF Writes, PageFields
  <2>4. PageInv(q)
    <3>1. Writes(p, q, {"editor", "reading"}) /\ ~q.editor.committing
      BY <2>2, <2>3 DEF Writes, PageInv, EditorInv
    <3> QED
      BY <1>0, <2>2, <2>3, <3>1, EditsHold
  <2>5. Goes(p.editor, q.editor)
    BY <1>0, <2>3, GoesOn
  <2>6. Writes(p, q, {"pending", "restore", "sent"} \cup Editing)
    BY <2>2 DEF Writes, Editing
  <2> QED
    BY <2>1, <2>3, <2>4, <2>5, <2>6
<1>2. CASE p.editor.value # Blank
  <2>1. /\ IsEditor(f) /\ f.id = p.editor.id /\ f.cell = p.editor.cell
        /\ f.seq = p.editor.seq + 1
    BY <1>0 DEF IsEditor, EditorFields
  <2>2. CommitEditor(p, move) = o
    BY <1>2 DEF CommitEditor
  <2>3. OfCommit(c)
    <3>1. f.cell[2] \in ToSet(Columns)
      BY <2>1 DEF IsEditor
    <3> HIDE DEF f
    <3> QED
      BY <3>1 DEF OfCommit
  <2> HIDE DEF f, x, c
  <2>4. Writes(p, a, {"editor", "pending"}) /\ a.editor = f /\ Shape(a) /\ a.sent = <<>>
    BY <1>0 DEF Writes, Shape, PageFields
  <2> HIDE DEF a
  <2>5. /\ Writes(a, b, {"restore", "sent"}) /\ Shape(b)
        /\ b.sent = Append(<<>>, [type |-> "cell_commit", x |-> x, ctx |-> c])
    BY <2>4, PushWrites DEF Writes
  <2> HIDE DEF b
  <2>6. Writes(b, d, {"open"}) /\ Shape(d) /\ ~d.open
    BY <2>5 DEF Writes, Shape, PageFields
  <2> HIDE DEF d
  <2>7. Writes(d, o, {"focus"}) /\ (d.focus \in {Body, Outside} => o.focus \in {Body, Outside})
    BY <2>6, UnfocusedWrites
  <2> HIDE DEF o
  <2>8. Writes(p, o, {"editor", "pending", "restore", "sent", "open", "focus"})
    <3>1. Writes(p, b, {"editor", "pending", "restore", "sent"})
      BY <2>4, <2>5, WritesOn
    <3>2. Writes(p, d, {"editor", "pending", "restore", "sent", "open"})
      BY <2>6, <3>1, WritesOn
    <3> QED
      BY <2>7, <3>2, WritesOn
  <2>9. o.editor = f /\ ~o.open /\ o.sent = b.sent
    BY <2>4, <2>5, <2>6, <2>7 DEF Writes, PageFields
  <2>10. GridInv(o) /\ Roving(o) /\ o.cursor = p.cursor
    BY <2>8, GridStays DEF PageInv
  <2>11. p.cursor # None
    BY <1>0 DEF PageInv, EditorInv, Chosen
  <2>12. EditorInv(o) /\ Over(o) /\ ReadsText(o)
    BY <2>1, <2>9, <2>10, <2>11 DEF EditorInv, Over, ReadsText, Chosen, EditorOpen
  <2>13. PageInv(o)
    BY <2>10, <2>12 DEF PageInv
  <2>14. Goes(p.editor, o.editor)
    BY <1>0, <2>1, <2>9 DEF Goes, IsEditor
  <2>15. Writes(p, o, {"pending", "restore", "sent"} \cup Editing)
    BY <2>8 DEF Writes, Editing, Walking
  <2>16. \E y, k : OfCommit(k) /\ o.sent = Append(<<>>, [type |-> "cell_commit", x |-> y, ctx |-> k])
    BY <2>3, <2>5, <2>9
  <2> QED
    BY <2>2, <2>13, <2>14, <2>15, <2>16
<1> QED
  BY <1>1, <1>2


LEMMA CancelReturns ==
    ASSUME NEW p, PageInv(p)
    PROVE  /\ PageInv(CancelEditor(p))
           /\ Writes(p, CancelEditor(p), Editing)
           /\ Goes(p.editor, CancelEditor(p).editor)
<1> DEFINE q == CloseEditor(p)
           o == CancelEditor(p)
<1>1. /\ PageInv(q) /\ Writes(p, q, {"editor", "open", "focus"}) /\ Cells(q) = Cells(p)
      /\ q.editor = NoEditor \/ q.editor = p.editor
  BY CloseEditorCloses
<1>2. Goes(p.editor, q.editor)
  BY <1>1, GoesOn DEF PageInv, EditorInv
<1>3. CASE p.editor.cell \in Cells(p)
  <2>1. o = SetCursor(q, p.editor.cell, TRUE)
    BY <1>3 DEF CancelEditor
  <2> HIDE DEF q, o
  <2>2. PageInv(o) /\ Writes(q, o, Walking)
    BY <1>1, <1>3, <2>1, WalkTo
  <2>3. Writes(p, o, Editing)
    BY <1>1, <2>2, WritesOn DEF Editing, Walking
  <2>4. o.editor = q.editor
    BY <2>2 DEF Writes, PageFields, Walking
  <2> QED
    BY <1>2, <2>2, <2>3, <2>4 DEF o
<1>4. CASE p.editor.cell \notin Cells(p)
  <2>1. o = q
    BY <1>4 DEF CancelEditor
  <2> HIDE DEF q, o
  <2>2. Writes(p, q, Editing)
    BY <1>1 DEF Writes, Editing, Walking
  <2> QED
    BY <1>1, <1>2, <2>1, <2>2 DEF o
<1> QED
  BY <1>3, <1>4

-----------------------------------------------------------------------------
(* The patches: a page whose rows have changed is put in order again.      *)

\* Before the cursor and the editor follow.
Loose(p) == GridInv(p) /\ EditorInv(p) /\ ReadsText(p)

LEMMA UpdatedFollows ==
    ASSUME NEW p, Loose(p)
    PROVE  /\ PageInv(Updated(p)) /\ Goes(p.editor, Updated(p).editor)
           /\ Writes(p, Updated(p), {"restore", "anchor"} \cup Editing)
<1> DEFINE k == [p EXCEPT !.restore = FALSE,
                          !.anchor = IF @ # None /\ ~HasTrip(p, @) THEN None ELSE @]
           focus == p.restore /\ FocusIsFree(p)
           a == ApplyCursor(k, focus /\ ~EditorOpen(p))
           o == Updated(p)
<1>0. Shape(p)
  BY DEF Loose, GridInv
<1>1. Writes(p, k, {"restore", "anchor"}) /\ Shape(k)
  BY <1>0 DEF Writes, Shape, PageFields
<1> HIDE DEF k
<1>2. /\ k.rows = p.rows /\ k.cursor = p.cursor /\ k.spot = p.spot
      /\ k.editor = p.editor /\ k.open = p.open /\ k.placed = p.placed
      /\ k.reading = p.reading /\ k.focus = p.focus
  BY <1>1 DEF Writes, PageFields
<1>3. /\ GridInv(k) /\ EditorInv(k) /\ ReadsText(k) /\ Cells(k) = Cells(p)
      /\ EditorOpen(k) <=> EditorOpen(p)
  BY <1>1, <1>2 DEF Loose, GridInv, EditorInv, ReadsText, EditorOpen, Chosen, Cells
<1>4. CASE p.cursor = None
  <2>1. o = k
    BY <1>4, Zenon DEF Updated, k
  <2>2. PageInv(k)
    <3>1. Roving(k)
      BY <1>2, <1>4 DEF Roving
    <3>2. k.editor = NoEditor
      BY <1>2, <1>3, <1>4 DEF EditorInv, Chosen
    <3>3. Over(k)
      BY <3>2 DEF Over, EditorOpen
    <3> QED
      BY <1>3, <3>1, <3>3 DEF PageInv
  <2>3. Goes(p.editor, k.editor)
    BY <1>2, GoesOn DEF Loose, EditorInv
  <2>4. Writes(p, k, {"restore", "anchor"} \cup Editing)
    BY <1>1 DEF Writes
  <2> HIDE DEF o
  <2> QED
    BY <2>1, <2>2, <2>3, <2>4 DEF o
<1>5. CASE p.cursor # None
  <2>1. Writes(k, a, Walking) /\ GridInv(a) /\ Roving(a) /\ a.cursor # None
    BY <1>2, <1>3, <1>5, ApplyCursorRoves
  <2>2. o = IF ~EditorOpen(p) THEN a
            ELSE IF p.editor.cell \in Cells(p) THEN PlaceEditor(a) ELSE CloseEditor(a)
    BY <1>5, Zenon DEF Updated, k
  <2> HIDE DEF a, o
  <2>3. /\ EditorInv(a) /\ a.editor = k.editor /\ (EditorOpen(a) <=> EditorOpen(k))
        /\ ReadsText(a) /\ Cells(a) = Cells(k)
    BY <1>3, <2>1, WalksKeepTheEditor
  <2>4. Writes(p, a, {"restore", "anchor"} \cup Editing)
    BY <1>1, <2>1, WritesOn DEF Editing
  <2>5. Goes(p.editor, a.editor)
    BY <1>2, <2>3, GoesOn DEF Loose, EditorInv
  <2>6. CASE ~EditorOpen(p)
    <3>1. o = a
      BY <2>2, <2>6
    <3>2. PageInv(a)
      BY <1>3, <2>1, <2>3, <2>6 DEF PageInv, Over
    <3> QED
      BY <2>4, <2>5, <3>1, <3>2 DEF o
  <2>7. CASE EditorOpen(p) /\ p.editor.cell \in Cells(p)
    <3>1. o = PlaceEditor(a)
      BY <2>2, <2>7
    <3>2. o = [a EXCEPT !.placed = a.editor.cell]
      BY <1>2, <1>3, <2>3, <2>7, <3>1 DEF PlaceEditor
    <3>3. Writes(a, o, {"placed"}) /\ o.placed = a.editor.cell
      BY <2>1, <3>2 DEF Writes, GridInv, Shape, PageFields
    <3>4. GridInv(o) /\ Roving(o) /\ o.cursor = a.cursor /\ Cells(o) = Cells(a)
      BY <2>1, <3>3, GridStays
    <3>5. o.editor = a.editor /\ o.open = a.open /\ o.reading = a.reading /\ o.focus = a.focus
      BY <3>3 DEF Writes, PageFields
    <3>6. EditorInv(o) /\ ReadsText(o)
      BY <2>3, <3>4, <3>5 DEF EditorInv, ReadsText, EditorOpen, Chosen
    <3>7. Over(o)
      BY <1>2, <1>3, <2>3, <2>7, <3>3, <3>4, <3>5 DEF Over
    <3>8. Writes(p, o, {"restore", "anchor"} \cup Editing)
      BY <2>4, <3>3, WritesOn DEF Editing
    <3> QED
      BY <2>5, <3>4, <3>5, <3>6, <3>7, <3>8 DEF PageInv, o
  <2>8. CASE EditorOpen(p) /\ p.editor.cell \notin Cells(p)
    <3>1. ~a.editor.committing
      BY <1>3, <2>3, <2>8 DEF EditorInv
    <3>2. o = ClearEditor(a)
      BY <2>2, <2>8, <3>1 DEF CloseEditor
    <3>3. PageInv(o) /\ Writes(a, o, {"editor", "open", "focus"}) /\ o.editor = NoEditor
      BY <2>1, <2>3, <3>2, ClosedHolds DEF EditorInv
    <3>4. Writes(p, o, {"restore", "anchor"} \cup Editing)
      BY <2>4, <3>3, WritesOn DEF Editing, Walking
    <3> QED
      BY <3>3, <3>4 DEF Goes, o
  <2> QED
    BY <2>6, <2>7, <2>8
<1> QED
  BY <1>4, <1>5


Patching == {"rows", "text", "pending", "restore", "anchor"} \cup Editing

\* The page shows what a patch brings.
Shown(o, m) == o.rows = m.rows /\ o.text = m.text

LEMMA PatchHolds ==
    ASSUME NEW p, PageInv(p), NEW m, m.rows \in Seq(TripSet)
    PROVE  /\ PageInv(Patched(p, m)) /\ Goes(p.editor, Patched(p, m).editor)
           /\ Writes(p, Patched(p, m), Patching)
           /\ m.patch = "none" => Patched(p, m) = p
           /\ m.patch # "none" => Shown(Patched(p, m), m)
<1> DEFINE marked == IF m.patch = "bar" THEN p.marked ELSE {}
           pending == IF m.patch = "bar" THEN p.pending ELSE {}
           focus == IF m.patch = "reset" /\ InGrid(p.focus) /\ p.focus # Input THEN Body ELSE p.focus
           a == [p EXCEPT !.rows = m.rows, !.text = m.text, !.marked = marked,
                          !.pending = pending, !.focus = focus]
           b == BeforeUpdate(a)
           o == Updated(b)
<1>0. Shape(p)
  BY DEF PageInv, GridInv
<1>1. CASE m.patch = "none"
  <2>1. Patched(p, m) = p
    BY <1>1 DEF Patched
  <2>2. Goes(p.editor, p.editor) /\ Writes(p, p, Patching)
    BY <1>0, GoesOn DEF PageInv, EditorInv, Writes
  <2> QED
    BY <1>1, <2>1, <2>2
<1>2. CASE m.patch # "none"
  <2>1. Patched(p, m) = o
    BY <1>0, <1>2 DEF Patched, Shape, PageFields
  <2>2. focus \in {p.focus, Body}
    OBVIOUS
  <2> HIDE DEF marked, pending, focus
  <2>3. Writes(p, a, {"rows", "text", "marked", "pending", "focus"}) /\ Shape(a)
        /\ a.rows = m.rows /\ a.text = m.text /\ a.focus = focus
    BY <1>0 DEF Writes, Shape, PageFields
  <2> HIDE DEF a
  <2>4. Writes(a, b, {"restore"})
    BY <2>3 DEF BeforeUpdate, Writes, Shape, PageFields
  <2> HIDE DEF b
  <2>5. Writes(p, b, {"rows", "text", "marked", "pending", "focus", "restore"})
    BY <2>3, <2>4, WritesOn
  <2>6. /\ b.cursor = p.cursor /\ b.spot = p.spot /\ b.editor = p.editor /\ b.open = p.open
        /\ b.reading = p.reading /\ b.rows = m.rows /\ b.text = m.text
        /\ b.focus = focus /\ Shape(b)
    BY <2>3, <2>4, <2>5 DEF Writes, PageFields
  <2>7. GridInv(b)
    BY <2>6 DEF PageInv, GridInv
  <2>8. EditorInv(b) /\ ReadsText(b)
    BY <2>2, <2>6 DEF PageInv, EditorInv, ReadsText, EditorOpen, Chosen
  <2>9. PageInv(o) /\ Goes(b.editor, o.editor) /\ Writes(b, o, {"restore", "anchor"} \cup Editing)
    BY <2>7, <2>8, UpdatedFollows DEF Loose
  <2> HIDE DEF o
  <2>10. Shown(o, m)
    BY <2>6, <2>9 DEF Writes, PageFields, Editing, Walking, Shown
  <2>11. Writes(p, o, Patching)
    BY <2>5, <2>9, WritesOn DEF Patching, Editing, Walking
  <2>12. Goes(p.editor, o.editor)
    BY <2>6, <2>9
  <2> QED
    BY <1>2, <2>1, <2>9, <2>10, <2>11, <2>12
<1> QED
  BY <1>1, <1>2

-----------------------------------------------------------------------------
(* The answers.                                                            *)

\* A reading that was asked for is of an earlier edit, of an earlier text, or of this one.
OfEditor(c, e, n) ==
    /\ c.id \in Nat /\ c.id < n /\ c.seq \in Nat
    /\ e # NoEditor /\ e.id = c.id =>
         /\ e.cell = c.cell /\ c.seq <= e.seq
         /\ c.seq = e.seq => e.value = c.value

Replying == {"restore", "pending"} \cup Editing

LEMMA PreviewReplyReads ==
    ASSUME NEW p, PageInv(p), NEW c, OfEditor(c, p.editor, events), NEW ok
    PROVE  /\ PageInv(PreviewReply(p, c, ok)) /\ Goes(p.editor, PreviewReply(p, c, ok).editor)
           /\ Writes(p, PreviewReply(p, c, ok), Replying)
<1> DEFINE q == [p EXCEPT !.restore = FALSE]
           r == IF ok THEN [kind |-> "reading", of |-> <<c.cell, c.value>>] ELSE Refusal
           d == [q EXCEPT !.reading = r]
           o == PreviewReply(p, c, ok)
<1>0. Shape(p)
  BY DEF PageInv, GridInv
<1>1. Writes(p, q, {"restore"}) /\ Shape(q)
  BY <1>0 DEF Writes, Shape, PageFields
<1>2. o = q \/ (/\ p.editor # NoEditor /\ p.editor.id = c.id /\ p.editor.seq = c.seq
                /\ o = d)
  BY DEF PreviewReply, RenderReading
<1>3. r.kind = "reading" => r.of = <<c.cell, c.value>>
  BY DEF Refusal
<1> HIDE DEF q, r, o
<1>4. PageInv(q)
  BY <1>1, PageStays DEF Aside
<1>5. q.editor = p.editor
  BY <1>1 DEF Writes, PageFields
<1>6. Goes(p.editor, q.editor)
  BY <1>5, GoesOn DEF PageInv, EditorInv
<1>7. CASE o = q
  <2>1. Writes(p, q, Replying)
    BY <1>1 DEF Writes, Replying
  <2> QED
    BY <1>4, <1>6, <1>7, <2>1 DEF o
<1>8. CASE p.editor # NoEditor /\ p.editor.id = c.id /\ p.editor.seq = c.seq /\ o = d
  <2>1. Writes(q, d, {"reading"}) /\ d.reading = r
    BY <1>1 DEF Writes, Shape, PageFields
  <2> HIDE DEF d
  <2>2. GridInv(d) /\ Roving(d) /\ d.cursor = q.cursor /\ Cells(d) = Cells(q)
    BY <1>4, <2>1, GridStays DEF PageInv
  <2>3. d.editor = q.editor /\ d.open = q.open /\ d.placed = q.placed /\ d.focus = q.focus
    BY <2>1 DEF Writes, PageFields
  <2>4. EditorInv(d) /\ Over(d)
    BY <1>4, <2>2, <2>3 DEF PageInv, EditorInv, Over, EditorOpen, Chosen
  <2>5. p.editor.cell = c.cell /\ p.editor.value = c.value
    BY <1>8 DEF OfEditor
  <2>6. ReadsText(d)
    BY <1>3, <1>5, <2>1, <2>3, <2>5 DEF ReadsText
  <2>7. Writes(p, d, Replying)
    BY <1>1, <2>1, WritesOn DEF Replying, Editing
  <2> QED
    BY <1>6, <1>8, <2>2, <2>3, <2>4, <2>6, <2>7 DEF PageInv, o
<1> QED
  BY <1>2, <1>7, <1>8

LEMMA PendingHolds ==
    ASSUME NEW p, PageInv(p), NEW cell
    PROVE  /\ PageInv(ClearPending(p, cell)) /\ Writes(p, ClearPending(p, cell), {"pending"})
           /\ ClearPending(p, cell).editor = p.editor
<1> DEFINE o == ClearPending(p, cell)
<1>1. Writes(p, o, {"pending"})
  BY DEF ClearPending, PageInv, GridInv, Writes, Shape, PageFields
<1> HIDE DEF o
<1>2. PageInv(o)
  BY <1>1, PageStays DEF Aside
<1>3. o.editor = p.editor
  BY <1>1 DEF Writes, PageFields
<1> QED
  BY <1>1, <1>2, <1>3 DEF o

LEMMA MovesWalk ==
    ASSUME NEW p, PageInv(p), NEW cell, cell[2] \in ToSet(Columns), NEW move \in Moves
    PROVE  Walked(p, MoveAfterCommit(p, cell, move))
<1>1. Walked(p, MoveV(p, cell, 1)) /\ Walked(p, MoveV(p, cell, -1))
  BY MoveVWalks
<1>2. Walked(p, MoveH(p, cell, 1)) /\ Walked(p, MoveH(p, cell, -1))
  BY MoveHWalks
<1> QED
  BY <1>1, <1>2 DEF MoveAfterCommit, Moves

\* The editor comes back over its cell, if the cell is still shown.
LEMMA EditorComesBack ==
    ASSUME NEW p, PageInv(p), p.editor # NoEditor
    PROVE  LET o == [ShowEditor([p EXCEPT !.editor.committing = FALSE]) EXCEPT !.reading = Refusal]
           IN  /\ PageInv(o) /\ Goes(p.editor, o.editor)
               /\ Writes(p, o, Editing)
<1> DEFINE f == [p.editor EXCEPT !.committing = FALSE]
           a == [p EXCEPT !.editor = f]
           s == ShowEditor(a)
           o == [s EXCEPT !.reading = Refusal]
<1>0. Shape(p) /\ IsEditor(p.editor) /\ p.cursor # None
  BY DEF PageInv, GridInv, EditorInv, Chosen
<1>1. /\ IsEditor(f) /\ f.id = p.editor.id /\ f.cell = p.editor.cell
      /\ f.value = p.editor.value /\ f.seq = p.editor.seq /\ ~f.committing
  BY <1>0 DEF IsEditor, EditorFields
<1>2. o = [ShowEditor([p EXCEPT !.editor.committing = FALSE]) EXCEPT !.reading = Refusal]
  BY <1>0
<1> HIDE DEF f
<1>3. Writes(p, a, {"editor"}) /\ a.editor = f /\ Shape(a)
  BY <1>0 DEF Writes, Shape, PageFields
<1> HIDE DEF a
<1>4. f # NoEditor /\ Cells(a) = Cells(p) /\ a.open = p.open /\ a.placed = p.placed
  BY <1>1, <1>3, EditorsAreSome DEF Writes, PageFields, Cells
<1>5. /\ Writes(a, s, {"open", "focus", "placed"}) /\ s.editor = f
      /\ s.open => f.cell \in Cells(p) /\ s.placed = f.cell
  <2> DEFINE b == [a EXCEPT !.open = TRUE, !.focus = Input]
  <2>1. CASE f.cell \in Cells(p)
    <3>1. s = PlaceEditor(b)
      BY <1>3, <1>4, <2>1 DEF ShowEditor
    <3>2. Writes(a, b, {"open", "focus"}) /\ b.open /\ b.editor = f /\ Shape(b)
      BY <1>3 DEF Writes, Shape, PageFields
    <3> HIDE DEF b
    <3>3. Cells(b) = Cells(a)
      BY <3>2 DEF Writes, PageFields, Cells
    <3>4. s = [b EXCEPT !.placed = f.cell]
      BY <1>4, <2>1, <3>1, <3>2, <3>3 DEF PlaceEditor, EditorOpen
    <3> HIDE DEF s
    <3>5. Writes(b, s, {"placed"}) /\ s.placed = f.cell
      BY <3>2, <3>4 DEF Writes, Shape, PageFields
    <3>6. Writes(a, s, {"open", "focus", "placed"})
      BY <3>2, <3>5, WritesOn
    <3>7. s.editor = f
      BY <3>2, <3>5 DEF Writes, PageFields
    <3> QED
      BY <2>1, <3>5, <3>6, <3>7
  <2>2. CASE f.cell \notin Cells(p)
    <3>1. s = a
      BY <1>3, <1>4, <2>2 DEF ShowEditor
    <3>2. Writes(a, a, {"open", "focus", "placed"})
      BY <1>3 DEF Writes
    <3>3. ~p.open
      BY <1>1, <2>2 DEF PageInv, Over, EditorOpen
    <3> HIDE DEF s
    <3> QED
      BY <1>3, <1>4, <3>1, <3>2, <3>3
  <2> QED
    BY <2>1, <2>2
<1> HIDE DEF s
<1>6. Writes(s, o, {"reading"}) /\ o.reading.kind # "reading" /\ Shape(s)
  BY <1>5 DEF Writes, Shape, PageFields, Refusal
<1> HIDE DEF o
<1>7. Writes(p, o, {"editor", "open", "focus", "placed", "reading"})
  <2>1. Writes(p, s, {"editor", "open", "focus", "placed"})
    BY <1>3, <1>5, WritesOn
  <2> QED
    BY <1>6, <2>1, WritesOn
<1>8. o.editor = f /\ o.open = s.open /\ o.placed = s.placed
  BY <1>5, <1>6 DEF Writes, PageFields
<1>9. GridInv(o) /\ Roving(o) /\ o.cursor = p.cursor /\ Cells(o) = Cells(p)
  BY <1>7, GridStays DEF PageInv
<1>10. EditorInv(o) /\ Over(o) /\ ReadsText(o)
  BY <1>0, <1>1, <1>5, <1>6, <1>8, <1>9 DEF EditorInv, Over, ReadsText, EditorOpen, Chosen
<1>11. Goes(p.editor, o.editor)
  BY <1>0, <1>1, <1>8 DEF Goes, IsEditor
<1>12. Writes(p, o, Editing)
  BY <1>7 DEF Writes, Editing, Walking
<1>13. PageInv(o)
  BY <1>9, <1>10 DEF PageInv
<1> QED
  BY <1>2, <1>11, <1>12, <1>13


LEMMA CommitReplyHolds ==
    ASSUME NEW p, PageInv(p), NEW c, OfCommit(c), NEW ok
    PROVE  /\ PageInv(CommitReply(p, c, ok)) /\ Goes(p.editor, CommitReply(p, c, ok).editor)
           /\ Writes(p, CommitReply(p, c, ok), Replying)
<1> DEFINE q == ClearPending(p, c.editor.cell)
           a == ClearEditor(q)
           s == [ShowEditor([q EXCEPT !.editor.committing = FALSE]) EXCEPT !.reading = Refusal]
           w == MoveAfterCommit(a, c.editor.cell, c.move)
           own == p.editor # NoEditor /\ p.editor.id = c.editor.id
           o == CommitReply(p, c, ok)
<1>1. PageInv(q) /\ Writes(p, q, {"pending"}) /\ q.editor = p.editor
  BY PendingHolds
<1>2. o = IF ok THEN w ELSE IF ~own THEN q ELSE s
  BY Zenon DEF CommitReply
<1> HIDE DEF q
<1>3. PageInv(w) /\ Writes(p, w, Replying) /\ Goes(p.editor, w.editor)
  <2>1. PageInv(a) /\ Writes(q, a, {"editor", "open", "focus"}) /\ a.editor = NoEditor
    BY <1>1, ClosedHolds DEF PageInv, EditorInv
  <2> HIDE DEF a
  <2>2. PageInv(w) /\ Writes(a, w, Walking)
    BY <2>1, MovesWalk DEF OfCommit, Walked
  <2> HIDE DEF w
  <2>3. Writes(p, a, {"pending", "editor", "open", "focus"})
    BY <1>1, <2>1, WritesOn
  <2>4. Writes(p, w, Replying)
    BY <2>2, <2>3, WritesOn DEF Replying, Editing, Walking
  <2>5. w.editor = NoEditor
    BY <2>1, <2>2 DEF Writes, PageFields, Walking
  <2> QED
    BY <2>2, <2>4, <2>5 DEF Goes
<1>4. PageInv(q) /\ Writes(p, q, Replying) /\ Goes(p.editor, q.editor)
  <2>1. Writes(p, q, Replying)
    BY <1>1 DEF Writes, Replying
  <2>2. Goes(p.editor, q.editor)
    BY <1>1, GoesOn DEF PageInv, EditorInv
  <2> QED
    BY <1>1, <2>1, <2>2
<1>5. own => PageInv(s) /\ Writes(p, s, Replying) /\ Goes(p.editor, s.editor)
  <2> SUFFICES ASSUME own PROVE PageInv(s) /\ Writes(p, s, Replying) /\ Goes(p.editor, s.editor)
    OBVIOUS
  <2>1. PageInv(s) /\ Goes(q.editor, s.editor) /\ Writes(q, s, Editing)
    BY <1>1, EditorComesBack
  <2> HIDE DEF s
  <2>2. Writes(p, s, Replying)
    BY <1>1, <2>1, WritesOn DEF Replying
  <2> QED
    BY <1>1, <2>1, <2>2
<1> HIDE DEF w, s, own, o
<1>6. o = w \/ o = q \/ (own /\ o = s)
  BY <1>2
<1> QED
  BY <1>3, <1>4, <1>5, <1>6 DEF o

\* What was asked by an editor, and is on its way there or back.
MailOf(m, e, n) ==
    /\ m.type = "cell_commit" => OfCommit(m.ctx)
    /\ m.type = "cell_preview" => OfEditor(m.ctx, e, n)

LEMMA ReplyHolds ==
    ASSUME NEW p, PageInv(p), NEW m, MailOf(m, p.editor, events)
    PROVE  /\ PageInv(Replied(p, m)) /\ Goes(p.editor, Replied(p, m).editor)
           /\ Writes(p, Replied(p, m), Replying)
<1>1. CASE m.type = "cell_preview"
  <2>1. Replied(p, m) = PreviewReply(p, m.ctx, m.ok)
    BY <1>1 DEF Replied
  <2> QED
    BY <1>1, <2>1, PreviewReplyReads DEF MailOf
<1>2. CASE m.type = "cell_commit"
  <2>1. Replied(p, m) = CommitReply(p, m.ctx, m.ok)
    BY <1>2 DEF Replied
  <2> QED
    BY <1>2, <2>1, CommitReplyHolds DEF MailOf
<1>3. CASE m.type = "cell_clear"
  <2>1. Replied(p, m) = ClearPending(p, m.ctx)
    BY <1>3 DEF Replied
  <2> DEFINE o == ClearPending(p, m.ctx)
  <2>2. PageInv(o) /\ Writes(p, o, {"pending"}) /\ o.editor = p.editor
    BY PendingHolds
  <2> HIDE DEF o
  <2>3. Writes(p, o, Replying) /\ Goes(p.editor, o.editor)
    BY <2>2, GoesOn DEF Writes, Replying, PageInv, EditorInv
  <2> QED
    BY <2>1, <2>2, <2>3 DEF o
<1>4. CASE m.type \notin {"cell_preview", "cell_commit", "cell_clear"}
  <2>1. Replied(p, m) = p
    BY <1>4 DEF Replied
  <2>2. Goes(p.editor, p.editor) /\ Writes(p, p, Replying)
    BY GoesOn DEF PageInv, GridInv, EditorInv, Writes
  <2> QED
    BY <2>1, <2>2
<1> QED
  BY <1>1, <1>2, <1>3, <1>4

LEMMA MailStays ==
    ASSUME NEW m, NEW e, NEW f, MailOf(m, e, events), Goes(e, f) \/ f.id = events,
           e = NoEditor \/ IsEditor(e), f = NoEditor \/ IsEditor(f)
    PROVE  MailOf(m, f, events)
BY DEF MailOf, OfEditor, Goes, IsEditor, OfCommit

LEMMA GoesFar ==
    ASSUME NEW e, NEW f, NEW g, Goes(e, f), Goes(f, g),
           e = NoEditor \/ IsEditor(e), f = NoEditor \/ IsEditor(f), g = NoEditor \/ IsEditor(g)
    PROVE  Goes(e, g)
BY DEF Goes, IsEditor

\* An answer, with the patch that comes before it.
LEMMA DeliveryHolds ==
    ASSUME NEW p, PageInv(p), NEW m, m.rows \in Seq(TripSet), MailOf(m, p.editor, events)
    PROVE  /\ PageInv(Replied(Patched(p, m), m))
           /\ Goes(p.editor, Replied(Patched(p, m), m).editor)
           /\ Replied(Patched(p, m), m).sent = p.sent
           /\ m.patch = "none" => /\ Replied(Patched(p, m), m).rows = p.rows
                                  /\ Replied(Patched(p, m), m).text = p.text
           /\ m.patch # "none" => Shown(Replied(Patched(p, m), m), m)
<1> DEFINE a == Patched(p, m)
           o == Replied(a, m)
<1>1. /\ PageInv(a) /\ Goes(p.editor, a.editor) /\ Writes(p, a, Patching)
      /\ m.patch = "none" => a = p
      /\ m.patch # "none" => Shown(a, m)
  BY PatchHolds
<1> HIDE DEF a
<1>2. MailOf(m, a.editor, events)
  BY <1>1, MailStays DEF PageInv, EditorInv
<1>3. PageInv(o) /\ Goes(a.editor, o.editor) /\ Writes(a, o, Replying)
  BY <1>1, <1>2, ReplyHolds
<1> HIDE DEF o
<1>4. Goes(p.editor, o.editor)
  BY <1>1, <1>3, GoesFar DEF PageInv, EditorInv
<1>5. o.rows = a.rows /\ o.text = a.text /\ o.sent = a.sent
  BY <1>3 DEF Writes, PageFields, Replying, Editing, Walking
<1>6. a.sent = p.sent
  BY <1>1 DEF Writes, PageFields, Patching, Editing, Walking
<1>7. (m.patch = "none" => o.rows = p.rows /\ o.text = p.text)
      /\ (m.patch # "none" => Shown(o, m))
  BY <1>1, <1>5 DEF Shown
<1> QED
  BY <1>3, <1>4, <1>5, <1>6, <1>7 DEF o, a


-----------------------------------------------------------------------------
(* What the operator does.                                                 *)

Begun(e, n) == e # NoEditor => e.id < n
Ready == /\ PageInv(page) /\ page.sent = <<>>
         /\ events \in Nat /\ Begun(page.editor, events)

Sends(o) == o.sent = <<>> \/ \E m : o.sent = Append(<<>>, m) /\ MailOf(m, o.editor, events)
Still(p, o) == o.rows = p.rows /\ o.text = p.text

\* The page after an action, with what it pushes.
Did(o) ==
    /\ PageInv(o) /\ Still(page, o) /\ Sends(o)
    /\ Goes(page.editor, o.editor) \/ o.editor.id = events
Acts == \E o : Do(o) /\ Did(o)

LEMMA WalkDone ==
    ASSUME Ready, NEW o, Walked(page, o)
    PROVE  Did(o)
<1>1. o.sent = <<>> /\ Still(page, o) /\ o.editor = page.editor
  BY DEF Walked, Ready, Writes, PageFields, Walking, Still
<1>2. Goes(page.editor, o.editor)
  BY <1>1, GoesOn DEF Ready, PageInv, EditorInv
<1> QED
  BY <1>1, <1>2 DEF Did, Walked, Sends

LEMMA PushDone ==
    ASSUME Ready, NEW a, PageInv(a), a.sent = <<>>, Still(page, a), a.editor = page.editor,
           NEW type, type \notin {"cell_commit", "cell_preview"}, NEW x, NEW ctx
    PROVE  Did(PushEvent(a, type, x, ctx))
<1> DEFINE o == PushEvent(a, type, x, ctx)
           m == [type |-> type, x |-> x, ctx |-> ctx]
<1>1. Writes(a, o, {"restore", "sent"}) /\ o.sent = Append(<<>>, m)
  BY PushWrites DEF PageInv, GridInv
<1>2. MailOf(m, o.editor, events)
  BY DEF MailOf
<1> HIDE DEF o, m
<1>3. PageInv(o)
  BY <1>1, PageStays DEF Aside
<1>4. Still(page, o) /\ o.editor = page.editor
  BY <1>1 DEF Still, Writes, PageFields
<1>5. Goes(page.editor, o.editor)
  BY <1>4, GoesOn DEF Ready, PageInv, EditorInv
<1>6. Sends(o)
  BY <1>1, <1>2 DEF Sends
<1> QED
  BY <1>3, <1>4, <1>5, <1>6 DEF Did, o

LEMMA Arrows ==
    ASSUME Ready, Arrow
    PROVE  Acts
<1>1. Cell[2] \in ToSet(Columns) /\ Len(Columns) \in Int
  <2>1. Cell \in Cells(page)
    BY DEF Arrow, OnCell, Cell
  <2> QED
    BY <2>1, ColumnFacts, CellsAreChosen DEF Ready, PageInv, GridInv
<1>2. ASSUME NEW d \in Int
      PROVE  Did(MoveH(page, Cell, d)) /\ Did(MoveV(page, Cell, d))
  <2>1. Walked(page, MoveH(page, Cell, d)) /\ Walked(page, MoveV(page, Cell, d))
    BY <1>1, MoveHWalks, MoveVWalks DEF Ready
  <2> QED
    BY <2>1, WalkDone
<1>3. \E d \in Int : Do(MoveH(page, Cell, d)) \/ Do(MoveV(page, Cell, d))
  <2>1. \/ \E d \in {-1, 1} : Do(MoveH(page, Cell, d)) \/ Do(MoveV(page, Cell, d))
        \/ \E d \in {Len(Columns), -Len(Columns)} : Do(MoveH(page, Cell, d))
    BY DEF Arrow
  <2> QED
    BY <1>1, <2>1
<1> QED
  BY <1>2, <1>3 DEF Acts

LEMMA AsideHolds ==
    ASSUME Ready, NEW a, NEW X, Writes(page, a, X), X \subseteq {"pending", "restore", "anchor"}
    PROVE  PageInv(a) /\ a.sent = <<>> /\ Still(page, a) /\ a.editor = page.editor
<1>1. PageInv(a)
  BY PageStays DEF Aside, Ready
<1> QED
  BY <1>1 DEF Ready, Still, Writes, PageFields

LEMMA Extends ==
    ASSUME Ready, ExtendSelection
    PROVE  Acts
<1> DEFINE anchor == IF page.anchor = None THEN page.cursor[1] ELSE page.anchor
           a == [page EXCEPT !.anchor = anchor]
           moved(d) == MoveV(a, Cell, d)
           o(d) == PushEvent(moved(d), "select_range", [from |-> anchor, to |-> moved(d).cursor[1]], None)
<1>1. Cell[2] \in ToSet(Columns)
  <2>1. Cell \in Cells(page)
    BY DEF ExtendSelection, OnCell, Cell
  <2> QED
    BY <2>1, CellsAreChosen DEF Ready, PageInv, GridInv
<1>2. PICK d \in {-1, 1} : Do(o(d))
  BY DEF ExtendSelection
<1>3. Writes(page, a, {"anchor"})
  BY DEF Ready, PageInv, GridInv, Writes, Shape, PageFields
<1> HIDE DEF a, anchor
<1>4. PageInv(a) /\ a.sent = <<>> /\ Still(page, a) /\ a.editor = page.editor
  BY <1>3, AsideHolds
<1> DEFINE q == moved(d)
<1>5. PageInv(q) /\ Writes(a, q, Walking)
  BY <1>1, <1>2, <1>4, MoveVWalks DEF Walked
<1>6. Do(PushEvent(q, "select_range", [from |-> anchor, to |-> q.cursor[1]], None))
  BY <1>2
<1> HIDE DEF q
<1>7. q.sent = <<>> /\ Still(page, q) /\ q.editor = page.editor
  BY <1>4, <1>5 DEF Writes, PageFields, Walking, Still
<1>8. Did(PushEvent(q, "select_range", [from |-> anchor, to |-> q.cursor[1]], None))
  BY <1>5, <1>7, PushDone
<1> QED
  BY <1>6, <1>8 DEF Acts

LEMMA Pushes ==
    ASSUME Ready, ToggleTrip \/ (\E minutes \in {-1, 1} : Nudge(minutes)) \/ PressUndo \/ PressChord
    PROVE  Acts
<1>1. ASSUME NEW type \in {"nudge", "undo", "chord"}, NEW x
      PROVE  Did(PushEvent(page, type, x, None))
  BY <1>1, PushDone DEF Ready, Still
<1>2. CASE PressUndo \/ PressChord
  <2>1. \E x : Do(PushEvent(page, "undo", x, None)) \/ Do(PushEvent(page, "chord", x, None))
    BY <1>2 DEF PressUndo, PressChord
  <2> QED
    BY <1>1, <2>1 DEF Acts
<1>3. CASE \E minutes \in {-1, 1} : Nudge(minutes)
  <2>1. \E x : Do(PushEvent(page, "nudge", x, None))
    BY <1>3 DEF Nudge
  <2> QED
    BY <1>1, <2>1 DEF Acts
<1>4. CASE ToggleTrip
  <2> DEFINE a == [page EXCEPT !.anchor = page.cursor[1]]
             o == PushEvent(a, "toggle_trip", [trip |-> page.cursor[1]], None)
  <2>1. Do(o)
    BY <1>4 DEF ToggleTrip
  <2>2. Writes(page, a, {"anchor"})
    BY DEF Ready, PageInv, GridInv, Writes, Shape, PageFields
  <2> HIDE DEF a
  <2>3. PageInv(a) /\ a.sent = <<>> /\ Still(page, a) /\ a.editor = page.editor
    BY <2>2, AsideHolds
  <2>4. Did(o)
    BY <2>3, PushDone
  <2> HIDE DEF o
  <2> QED
    BY <2>1, <2>4 DEF Acts
<1> QED
  BY <1>2, <1>3, <1>4

LEMMA Deletes ==
    ASSUME Ready, PressDelete
    PROVE  Acts
<1> DEFINE a == [page EXCEPT !.pending = @ \cup {Cell}]
           o == PushEvent(a, "cell_clear", [cell |-> Cell], Cell)
<1>1. Do(page) \/ Do(o)
  BY DEF PressDelete, ClearCell
<1>2. Did(page)
  BY StandStill, WalkDone DEF Ready
<1>3. Writes(page, a, {"pending"})
  BY DEF Ready, PageInv, GridInv, Writes, Shape, PageFields
<1> HIDE DEF a
<1>4. PageInv(a) /\ a.sent = <<>> /\ Still(page, a) /\ a.editor = page.editor
  BY <1>3, AsideHolds
<1>5. Did(o)
  BY <1>4, PushDone
<1> HIDE DEF o
<1> QED
  BY <1>1, <1>2, <1>5 DEF Acts

\* What only the editor and the cursor are changed by.
LEMMA EditDone ==
    ASSUME Ready, NEW o, PageInv(o), Writes(page, o, Editing),
           Goes(page.editor, o.editor) \/ o.editor.id = events
    PROVE  Did(o)
<1>1. o.sent = <<>> /\ Still(page, o)
  BY DEF Ready, Writes, PageFields, Editing, Walking, Still
<1> QED
  BY <1>1 DEF Did, Sends

LEMMA Edits ==
    ASSUME Ready, (\E v \in Typed : PressKey(v)) \/ PressEnter
    PROVE  Acts
<1>1. PICK v : Do(StartEdit(page, Cell, v)) /\ Cell \in Cells(page)
  BY DEF PressKey, PressEnter, OnCell, Cell
<1> DEFINE o == StartEdit(page, Cell, v)
<1>2. page.cursor # None
  <2>1. Cell \notin {Body, Outside}
    BY <1>1, CellsAreChosen DEF Ready, PageInv, GridInv
  <2> QED
    BY <2>1 DEF Ready, PageInv, EditorInv, Chosen, Cell
<1>3. PageInv(o) /\ Writes(page, o, Editing) /\ o.editor.id = events
  BY <1>1, <1>2, StartEditOpens DEF Ready
<1> HIDE DEF o
<1>4. Did(o)
  BY <1>3, EditDone
<1> QED
  BY <1>1, <1>4 DEF Acts, o

LEMMA Inputs ==
    ASSUME Ready, (\E v \in Typed : TypeText(v)) \/ PressEscape
    PROVE  Acts
<1>1. CASE \E v \in Typed : TypeText(v)
  <2>1. PICK v : Do(HandleEditorInput(page, v)) /\ EditorOpen(page)
    BY <1>1 DEF TypeText, InEditor
  <2> DEFINE o == HandleEditorInput(page, v)
  <2>2. PageInv(o) /\ Writes(page, o, Editing) /\ Goes(page.editor, o.editor)
    BY <2>1, InputIsRead DEF Ready
  <2> HIDE DEF o
  <2>3. Did(o)
    BY <2>2, EditDone
  <2> QED
    BY <2>1, <2>3 DEF Acts, o
<1>2. CASE PressEscape
  <2> DEFINE o == CancelEditor(page)
  <2>1. Do(o)
    BY <1>2 DEF PressEscape
  <2>2. PageInv(o) /\ Writes(page, o, Editing) /\ Goes(page.editor, o.editor)
    BY CancelReturns DEF Ready
  <2> HIDE DEF o
  <2>3. Did(o)
    BY <2>2, EditDone
  <2> QED
    BY <2>1, <2>3 DEF Acts
<1> QED
  BY <1>1, <1>2


LEMMA Commits ==
    ASSUME Ready, \E move \in {"up", "down", "left", "right"} : Commit(move)
    PROVE  Acts
<1>1. PICK move \in Moves : Do(CommitEditor(page, move)) /\ EditorOpen(page)
  BY DEF Commit, InEditor, Moves
<1> DEFINE o == CommitEditor(page, move)
<1>2. /\ PageInv(o) /\ Goes(page.editor, o.editor)
      /\ Writes(page, o, {"pending", "restore", "sent"} \cup Editing)
      /\ \/ o.sent = <<>>
         \/ \E x, c : /\ OfCommit(c)
                      /\ o.sent = Append(<<>>, [type |-> "cell_commit", x |-> x, ctx |-> c])
  BY <1>1, CommitWaits DEF Ready
<1> HIDE DEF o
<1>3. Still(page, o)
  BY <1>2 DEF Writes, PageFields, Editing, Walking, Still
<1>4. \A x, c : OfCommit(c) => MailOf([type |-> "cell_commit", x |-> x, ctx |-> c], o.editor, events)
  BY DEF MailOf
<1>5. Sends(o)
  BY <1>2, <1>4 DEF Sends
<1>6. Did(o)
  BY <1>2, <1>3, <1>5 DEF Did
<1> QED
  BY <1>1, <1>6 DEF Acts, o

\* What does not begin an edit.
GoesActs == \E o : Do(o) /\ Did(o) /\ Goes(page.editor, o.editor)

LEMMA Timers ==
    ASSUME Ready, PreviewTimer
    PROVE  GoesActs
<1> DEFINE o == PushPreview(page)
           m == [type |-> "cell_preview", x |-> [cell |-> page.editor.cell, text |-> page.editor.value],
                 ctx |-> page.editor]
<1>0. IsEditor(page.editor) /\ page.editor # NoEditor /\ page.editor.id < events
  BY DEF PreviewTimer, Ready, PageInv, EditorInv, Begun
<1>1. /\ PageInv(o) /\ Writes(page, o, {"editor", "restore", "sent"})
      /\ o.editor.id = page.editor.id /\ o.editor.cell = page.editor.cell
      /\ o.editor.seq = page.editor.seq /\ o.editor.value = page.editor.value
      /\ o.sent = Append(<<>>, m)
  BY <1>0, TimerPushes DEF Ready
<1>2. Do(o)
  BY DEF PreviewTimer
<1> HIDE DEF o
<1>3. Still(page, o)
  BY <1>1 DEF Writes, PageFields, Still
<1>4. OfEditor(page.editor, o.editor, events)
  BY <1>0, <1>1 DEF OfEditor, IsEditor
<1>5. MailOf(m, o.editor, events)
  BY <1>4 DEF MailOf
<1> HIDE DEF m
<1>6. Goes(page.editor, o.editor)
  BY <1>0, <1>1 DEF Goes, IsEditor
<1>7. Did(o)
  BY <1>1, <1>3, <1>5, <1>6 DEF Did, Sends
<1> QED
  BY <1>2, <1>6, <1>7 DEF GoesActs

LEMMA Clicks ==
    ASSUME Ready, NEW cell \in Cells(page), ClickCell(cell)
    PROVE  GoesActs
<1> DEFINE q == IF EditorOpen(page) THEN CloseEditor(page) ELSE page
           o == SetCursor(q, cell, TRUE)
<1>1. Do(o)
  BY DEF ClickCell
<1>2. /\ PageInv(q) /\ Writes(page, q, {"editor", "open", "focus"}) /\ Cells(q) = Cells(page)
      /\ Goes(page.editor, q.editor)
  <2>1. PageInv(page) /\ (page.editor = NoEditor \/ IsEditor(page.editor))
    BY DEF Ready, PageInv, EditorInv
  <2>2. Writes(page, page, {"editor", "open", "focus"})
    BY <2>1 DEF PageInv, GridInv, Writes
  <2> QED
    BY <2>1, <2>2, CloseEditorCloses, GoesOn
<1> HIDE DEF q
<1>3. PageInv(o) /\ Writes(q, o, Walking)
  BY <1>2, WalkTo
<1> HIDE DEF o
<1>4. Writes(page, o, Editing) /\ o.editor = q.editor
  BY <1>2, <1>3, WritesOn DEF Editing, Walking, Writes, PageFields
<1>5. Did(o)
  BY <1>2, <1>3, <1>4, EditDone
<1> QED
  BY <1>1, <1>2, <1>4, <1>5 DEF GoesActs

LEMMA Filters ==
    ASSUME Ready, NEW hidden, ChooseFilter(hidden)
    PROVE  GoesActs
<1> DEFINE q == CloseEditor(page)
           a == [q EXCEPT !.focus = Outside]
           m == [type |-> "filters", x |-> [hidden |-> hidden], ctx |-> None]
           o == [a EXCEPT !.sent = <<m>>]
<1>1. Do(o)
  BY Zenon DEF ChooseFilter
<1>2. /\ PageInv(q) /\ Writes(page, q, {"editor", "open", "focus"})
      /\ q.editor = NoEditor \/ q.editor = page.editor
  BY CloseEditorCloses DEF Ready
<1>3. Goes(page.editor, q.editor)
  BY <1>2, GoesOn DEF Ready, PageInv, EditorInv
<1>4. MailOf(m, q.editor, events)
  BY DEF MailOf
<1> HIDE DEF q, m
<1>5. Writes(q, o, {"focus", "sent"}) /\ o.focus = Outside /\ o.sent = <<m>>
  BY <1>2 DEF PageInv, GridInv, Writes, Shape, PageFields
<1> HIDE DEF o
<1>6. <<m>> = Append(<<>>, m)
  OBVIOUS
<1>7. GridInv(o) /\ Roving(o) /\ o.cursor = q.cursor /\ Cells(o) = Cells(q)
  BY <1>2, <1>5, GridStays DEF PageInv
<1>8. o.editor = q.editor /\ o.open = q.open /\ o.placed = q.placed /\ o.reading = q.reading
  BY <1>5 DEF Writes, PageFields
<1>9. PageInv(o)
  BY <1>2, <1>5, <1>7, <1>8 DEF PageInv, EditorInv, Over, ReadsText, EditorOpen, Chosen
<1>10. Still(page, o)
  BY <1>2, <1>5 DEF Writes, PageFields, Still
<1>11. Sends(o)
  BY <1>4, <1>5, <1>6, <1>8 DEF Sends
<1>12. Did(o)
  BY <1>3, <1>8, <1>9, <1>10, <1>11 DEF Did
<1> QED
  BY <1>1, <1>3, <1>8, <1>12 DEF GoesActs

\* An edit is only begun by an action that is counted.
Acted == \/ Acts /\ events' = events + 1
         \/ GoesActs /\ events' \in {events, events + 1}

LEMMA OperatorActs ==
    ASSUME Ready,
           \/ Arrow \/ ExtendSelection \/ ToggleTrip \/ PressUndo \/ PressChord
           \/ \E minutes \in {-1, 1} : Nudge(minutes)
           \/ \E v \in Typed : PressKey(v) \/ TypeText(v)
           \/ PressEnter \/ PressDelete \/ PressEscape \/ PreviewTimer
           \/ \E move \in {"up", "down", "left", "right"} : Commit(move)
           \/ \E cell \in Cells(page) : ClickCell(cell)
           \/ \E hidden \in {{}, {Head(Trips)}} : ChooseFilter(hidden)
    PROVE  Acted
<1>1. CASE Arrow
  BY <1>1, Arrows DEF Acted, Arrow, Counted
<1>2. CASE ExtendSelection
  BY <1>2, Extends DEF Acted, ExtendSelection, Counted
<1>3. CASE ToggleTrip \/ (\E minutes \in {-1, 1} : Nudge(minutes)) \/ PressUndo \/ PressChord
  BY <1>3, Pushes DEF Acted, ToggleTrip, Nudge, PressUndo, PressChord, Counted
<1>4. CASE (\E v \in Typed : PressKey(v)) \/ PressEnter
  BY <1>4, Edits DEF Acted, PressKey, PressEnter, Counted
<1>5. CASE (\E v \in Typed : TypeText(v)) \/ PressEscape
  BY <1>5, Inputs DEF Acted, TypeText, PressEscape, Counted
<1>6. CASE PressDelete
  BY <1>6, Deletes DEF Acted, PressDelete, Counted
<1>7. CASE PreviewTimer
  BY <1>7, Timers DEF Acted, PreviewTimer
<1>8. CASE \E move \in {"up", "down", "left", "right"} : Commit(move)
  BY <1>8, Commits DEF Acted, Commit, Counted
<1>9. CASE \E cell \in Cells(page) : ClickCell(cell)
  BY <1>9, Clicks DEF Acted, ClickCell, Counted
<1>10. CASE \E hidden \in {{}, {Head(Trips)}} : ChooseFilter(hidden)
  BY <1>10, Filters DEF Acted, ChooseFilter, Counted
<1> QED
  BY <1>1, <1>2, <1>3, <1>4, <1>5, <1>6, <1>7, <1>8, <1>9, <1>10


-----------------------------------------------------------------------------
(* The queues.                                                             *)

IsSeq(q) == \E S : q \in Seq(S)

LEMMA OneMore ==
    ASSUME NEW q, IsSeq(q), NEW m
    PROVE  /\ IsSeq(Append(q, m)) /\ Append(q, m) # <<>>
           /\ q \o <<m>> = Append(q, m)
           /\ Len(Append(q, m)) = Len(q) + 1 /\ Len(q) \in Nat
           /\ \A i \in 1 .. Len(q) : Append(q, m)[i] = q[i]
           /\ Append(q, m)[Len(q) + 1] = m
<1>1. PICK S : q \in Seq(S)
  BY DEF IsSeq
<1>2. q \in Seq(S \cup {m}) /\ m \in S \cup {m}
  BY <1>1
<1> QED
  BY <1>2 DEF IsSeq

LEMMA OneLess ==
    ASSUME NEW q, IsSeq(q), q # <<>>
    PROVE  /\ IsSeq(Tail(q)) /\ Len(q) \in Nat /\ Len(q) >= 1 /\ Head(q) = q[1]
           /\ Len(Tail(q)) = Len(q) - 1
           /\ \A i \in 1 .. Len(q) - 1 : Tail(q)[i] = q[i + 1]
           /\ Tail(q) = <<>> <=> Len(q) = 1
<1>1. PICK S : q \in Seq(S)
  BY DEF IsSeq
<1>2. Len(q) \in Nat /\ Len(q) >= 1 /\ Head(q) = q[1]
  BY <1>1
<1>3. Tail(q) \in Seq(S) /\ Len(Tail(q)) = Len(q) - 1
  BY <1>1
<1>4. \A i \in 1 .. Len(q) - 1 : Tail(q)[i] = q[i + 1]
  BY <1>1
<1>5. Tail(q) = <<>> <=> Len(Tail(q)) = 0
  BY <1>3
<1> QED
  BY <1>2, <1>3, <1>4, <1>5 DEF IsSeq

LEMMA NoneYet ==
    IsSeq(<<>>) /\ Len(<<>>) = 0 /\ \A q : IsSeq(q) => q \o <<>> = q /\ (q = <<>> <=> Len(q) = 0)
<1>1. <<>> \in Seq({})
  OBVIOUS
<1>2. ASSUME NEW q, IsSeq(q)
      PROVE  q \o <<>> = q /\ (q = <<>> <=> Len(q) = 0)
  <2>1. PICK S : q \in Seq(S)
    BY <1>2 DEF IsSeq
  <2> QED
    BY <2>1
<1> QED
  BY <1>1, <1>2 DEF IsSeq

-----------------------------------------------------------------------------
(* What the process answers.                                               *)

\* What this page wrote last is loaded as it is stored.
Stored ==
    \A t \in TripSet : db.by[t] = "page" => srv.times[t] = db.times[t] /\ srv.rev[t] = db.rev[t]

Answered ==
    \E patch, ok, v :
        /\ Answers(patch, ok, v) /\ v.rows \in Seq(TripSet) /\ Stored'
        /\ patch = "none" => v.rows = srv.rows /\ v.times = srv.times

SrvInv == UndoInv /\ Stored /\ srv.rows \in Seq(TripSet)

LEMMA Loads ==
    ASSUME NEW v, Shaped(v), NEW patch, patch # "none", NEW ok, Answers(patch, ok, LoadSchedule(v))
    PROVE  Answered
<1> DEFINE gone == v.hidden \cup db'.gone
           rows == Without(gone)
           w == LoadSchedule(v)
<1>1. w = [v EXCEPT !.rows = rows, !.times = db'.times, !.rev = db'.rev]
  BY Zenon DEF LoadSchedule
<1>2. rows \in Seq(TripSet)
  <2> HIDE DEF gone
  <2> QED
    BY RowsAreTrips
<1> HIDE DEF rows, w
<1>3. w = [rows |-> rows, times |-> db'.times, rev |-> db'.rev,
           hidden |-> v.hidden, selected |-> v.selected, undo |-> v.undo]
  BY <1>1 DEF Shaped
<1>4. w.rows = rows /\ w.times = db'.times /\ w.rev = db'.rev
  BY <1>3
<1>5. srv' = w
  BY Zenon DEF Answers, w
<1>6. Stored'
  BY <1>4, <1>5 DEF Stored, TripSet
<1>7. w.rows \in Seq(TripSet)
  BY <1>2, <1>4
<1>8. Answers(patch, ok, w)
  BY DEF w
<1> QED
  BY <1>6, <1>7, <1>8 DEF Answered

LEMMA UnwrittenAnswers ==
    ASSUME SrvInv, NEW patch, NEW ok, Unwritten(patch, ok)
    PROVE  Answered
<1>1. Answers(patch, ok, srv) /\ srv' = srv /\ db' = db
  BY DEF Unwritten, Answers
<1>2. Stored'
  BY <1>1 DEF SrvInv, Stored, TripSet
<1> QED
  BY <1>1, <1>2 DEF SrvInv, Answered

LEMMA CommitsAnswer ==
    ASSUME SrvInv, NEW trips, NEW ok, Answers("reset", ok, Committed(srv, trips))
    PROVE  Answered
<1> DEFINE v == [srv EXCEPT !.undo = <<Before(trips)>> \o @]
<1>1. Shaped(v)
  BY StacksAreReplaced DEF SrvInv, UndoInv, SrvShape
<1>2. Answers("reset", ok, LoadSchedule(v))
  BY Zenon DEF Committed
<1> HIDE DEF v
<1> QED
  BY <1>1, <1>2, Loads

LEMMA SetTimeAnswers ==
    ASSUME SrvInv, NEW cell, NEW v, SetTime(cell, v)
    PROVE  Answered
<1>1. Unwritten("insert", FALSE) \/ Answers("reset", TRUE, Committed(srv, {cell[1]}))
  BY Zenon DEF SetTime
<1> QED
  BY <1>1, UnwrittenAnswers, CommitsAnswer

LEMMA ShiftAnswers ==
    ASSUME SrvInv, NEW trips, NEW minutes, ShiftTrips(trips, minutes)
    PROVE  Answered
<1>1. Unwritten("bar", TRUE) \/ Answers("reset", TRUE, Committed(srv, trips))
  BY Zenon DEF ShiftTrips
<1> QED
  BY <1>1, UnwrittenAnswers, CommitsAnswer

LEMMA UndoAnswers ==
    ASSUME SrvInv, UndoLast
    PROVE  Answered
<1> DEFINE popped == [srv EXCEPT !.undo = Tail(@)]
<1>1. \/ Unwritten("none", TRUE) \/ Answers("reset", TRUE, LoadSchedule(popped))
      \/ Answers("reset", FALSE, LoadSchedule(popped))
      \/ Answers("bar", FALSE, popped) /\ db' = db
  BY Zenon DEF UndoLast
<1>2. Shaped(popped)
  BY StacksAreReplaced DEF SrvInv, UndoInv, SrvShape
<1>3. popped.rows = srv.rows /\ popped.times = srv.times /\ popped.rev = srv.rev
  <2> DEFINE u == Tail(srv.undo)
  <2>1. popped = [srv EXCEPT !.undo = u]
    OBVIOUS
  <2> HIDE DEF popped, u
  <2>2. popped = [rows |-> srv.rows, times |-> srv.times, rev |-> srv.rev,
                  hidden |-> srv.hidden, selected |-> srv.selected, undo |-> u]
    BY <2>1 DEF SrvInv, UndoInv, SrvShape, Shaped
  <2> QED
    BY <2>2
<1> HIDE DEF popped
<1>4. CASE Answers("bar", FALSE, popped) /\ db' = db
  <2>1. srv' = popped
    BY <1>4 DEF Answers
  <2>2. Stored'
    BY <1>3, <1>4, <2>1 DEF SrvInv, Stored, TripSet
  <2>3. popped.rows \in Seq(TripSet)
    BY <1>3 DEF SrvInv
  <2> QED
    BY <1>3, <1>4, <2>2, <2>3 DEF Answered
<1> QED
  BY <1>1, <1>2, <1>4, UnwrittenAnswers, Loads

LEMMA ReselectAnswers ==
    ASSUME SrvInv, NEW selected, Reselect(selected)
    PROVE  Answered
<1> DEFINE v == [srv EXCEPT !.selected = selected]
           patch == IF selected = srv.selected THEN "none" ELSE "insert"
<1>1. Answers(patch, TRUE, v) /\ db' = db
  BY Zenon DEF Reselect
<1>2. v.rows = srv.rows /\ v.times = srv.times /\ v.rev = srv.rev
  <2>1. v = [rows |-> srv.rows, times |-> srv.times, rev |-> srv.rev,
             hidden |-> srv.hidden, selected |-> selected, undo |-> srv.undo]
    BY DEF SrvInv, UndoInv, SrvShape, Shaped
  <2> HIDE DEF v
  <2> QED
    BY <2>1
<1> HIDE DEF v, patch
<1>3. srv' = v
  BY <1>1 DEF Answers
<1>4. Stored'
  BY <1>1, <1>2, <1>3 DEF SrvInv, Stored, TripSet
<1>5. v.rows \in Seq(TripSet)
  BY <1>2 DEF SrvInv
<1> QED
  BY <1>1, <1>2, <1>4, <1>5 DEF Answered

LEMMA ParamsAnswer ==
    ASSUME SrvInv, NEW hidden, HandleParams(hidden)
    PROVE  Answered
<1> DEFINE v == [srv EXCEPT !.hidden = hidden, !.selected = {}]
<1>1. Answers("reset", TRUE, LoadSchedule(v))
  BY Zenon DEF HandleParams
<1>2. Shaped(v)
  BY FiltersKeepTheStack DEF SrvInv, UndoInv, SrvShape
<1> HIDE DEF v
<1> QED
  BY <1>1, <1>2, Loads

LEMMA EventsAreAnswered ==
    ASSUME SrvInv, NEW type, NEW x, HandleEvent(type, x)
    PROVE  Answered
<1>1. CASE CellPreview(x)
  BY <1>1, UnwrittenAnswers DEF CellPreview
<1>2. CASE CommitCell(x)
  BY <1>2, UnwrittenAnswers, SetTimeAnswers DEF CommitCell
<1>3. CASE WriteClear(x)
  BY <1>3, UnwrittenAnswers, SetTimeAnswers DEF WriteClear
<1>4. CASE NudgeTrips(x)
  BY <1>4, UnwrittenAnswers, ShiftAnswers DEF NudgeTrips
<1>5. CASE UndoLast
  BY <1>5, UndoAnswers
<1>6. CASE ToggleSelected(x.trip)
  BY <1>6, UnwrittenAnswers, ReselectAnswers DEF ToggleSelected
<1>7. CASE SelectRange(x)
  BY <1>7, UnwrittenAnswers, ReselectAnswers DEF SelectRange
<1>8. CASE Unwritten("bar", TRUE)
  BY <1>8, UnwrittenAnswers
<1>9. CASE HandleParams(x.hidden)
  BY <1>9, ParamsAnswer
<1> QED
  BY <1>1, <1>2, <1>3, <1>4, <1>5, <1>6, <1>7, <1>8, <1>9 DEF HandleEvent


-----------------------------------------------------------------------------
(* Process, queues and page together.                                      *)

Loaded(o) == o.rows = srv.rows /\ o.text = srv.times

\* An answer that is no patch shows what is shown already; the last one shows what is loaded.
ShowInv ==
    /\ \A i \in 1 .. Len(down) : down[i].patch = "none" =>
         /\ i = 1 => Shown(page, down[i])
         /\ i > 1 => Shown(down[i - 1], down[i])
    /\ down = <<>> => Loaded(page)
    /\ down # <<>> => Loaded(down[Len(down)])

MailInv ==
    /\ IsSeq(up) /\ IsSeq(down)
    /\ \A i \in 1 .. Len(up) : MailOf(up[i], page.editor, events)
    /\ \A i \in 1 .. Len(down) : MailOf(down[i], page.editor, events) /\ down[i].rows \in Seq(TripSet)

GridAndProcess == SrvInv /\ Ready /\ MailInv /\ ShowInv

LEMMA InitGrid ==
    ASSUME Init
    PROVE  GridAndProcess
<1>1. UndoInv
  BY InitHolds
<1>2. srv = [rows |-> Trips, times |-> Start, rev |-> db.rev, hidden |-> {}, selected |-> {}, undo |-> <<>>]
  BY DEF Init
<1>3. db.times = Start /\ srv.rows = Trips /\ srv.times = Start /\ srv.rev = db.rev
  BY <1>2 DEF Init
<1>4. SrvInv
  BY <1>1, <1>3, GridAssumption DEF SrvInv, Stored, TripSet
<1>5. /\ page.rows = Trips /\ page.text = Start /\ page.cursor = None /\ page.spot = <<1, 1>>
      /\ page.editor = NoEditor /\ page.focus = Body /\ page.sent = <<>> /\ Shape(page)
  BY DEF Init, Shape, PageFields
<1>6. GridInv(page)
  BY <1>5, GridAssumption, ColumnFacts DEF GridInv, TripSet
<1>7. Ready
  BY <1>5, <1>6 DEF Ready, PageInv, Roving, EditorInv, Chosen, Over, ReadsText, EditorOpen, Begun, Init
<1>8. MailInv
  BY NoneYet DEF Init, MailInv
<1>9. ShowInv
  BY <1>3, <1>5, NoneYet DEF Init, ShowInv, Loaded
<1> QED
  BY <1>4, <1>7, <1>8, <1>9 DEF GridAndProcess

\* The page is cleared of what it has sent.
LEMMA SentIsTaken ==
    ASSUME NEW o, PageInv(o)
    PROVE  LET q == [o EXCEPT !.sent = <<>>]
           IN  PageInv(q) /\ q.sent = <<>> /\ q.editor = o.editor /\ Still(o, q)
<1> DEFINE q == [o EXCEPT !.sent = <<>>]
<1>1. Writes(o, q, {"sent"}) /\ q.sent = <<>>
  BY DEF PageInv, GridInv, Writes, Shape, PageFields
<1> HIDE DEF q
<1>2. PageInv(q)
  BY <1>1, PageStays DEF Aside
<1>3. q.editor = o.editor /\ Still(o, q)
  BY <1>1 DEF Writes, PageFields, Still
<1> QED
  BY <1>1, <1>2, <1>3 DEF q

LEMMA MailAges ==
    ASSUME NEW m, NEW e, events \in Nat, MailOf(m, e, events), NEW n \in {events, events + 1}
    PROVE  MailOf(m, e, n)
BY DEF MailOf, OfEditor

LEMMA ActedHolds ==
    ASSUME GridAndProcess, Acted, UNCHANGED <<srv, db, down>>
    PROVE  GridAndProcess'
<1>1. /\ PageInv(page) /\ page.sent = <<>> /\ events \in Nat /\ Begun(page.editor, events)
      /\ page.editor = NoEditor \/ IsEditor(page.editor)
  BY DEF GridAndProcess, Ready, PageInv, EditorInv
<1>2. PICK o : Do(o) /\ Did(o) /\ (Goes(page.editor, o.editor) \/ events' = events + 1)
               /\ events' \in {events, events + 1}
  BY DEF Acted, Acts, GoesActs
<1>3. PageInv(o) /\ Still(page, o) /\ Sends(o) /\ (Goes(page.editor, o.editor) \/ o.editor.id = events)
  BY <1>2 DEF Did
<1>4. PageInv(page') /\ page'.sent = <<>> /\ page'.editor = o.editor /\ Still(o, page')
  <2>1. page' = [o EXCEPT !.sent = <<>>]
    BY <1>2 DEF Do
  <2> QED
    BY <1>3, <2>1, SentIsTaken
<1>5. o.editor = NoEditor \/ IsEditor(o.editor)
  BY <1>3 DEF PageInv, EditorInv
<1>6. Ready'
  <2>1. Begun(o.editor, events')
    BY <1>1, <1>2, <1>3, <1>5 DEF Begun, Goes, IsEditor
  <2>2. Begun(page'.editor, events')
    BY <1>4, <2>1
  <2>3. events' \in Nat
    BY <1>1, <1>2
  <2> QED
    BY <1>4, <2>2, <2>3 DEF Ready
<1>7. ASSUME NEW m, MailOf(m, page.editor, events)
      PROVE  MailOf(m, o.editor, events)
  BY <1>1, <1>3, <1>5, <1>7, MailStays
<1>8. IsSeq(up) /\ IsSeq(down)
  BY DEF GridAndProcess, MailInv
<1>9. IsSeq(up') /\ \A i \in 1 .. Len(up') : MailOf(up'[i], o.editor, events)
  <2>1. up' = up \o o.sent
    BY <1>2 DEF Do
  <2>2. \A i \in 1 .. Len(up) : MailOf(up[i], o.editor, events)
    BY <1>7 DEF GridAndProcess, MailInv
  <2>3. CASE o.sent = <<>>
    BY <1>8, <2>1, <2>2, <2>3, NoneYet
  <2>4. CASE \E m : o.sent = Append(<<>>, m) /\ MailOf(m, o.editor, events)
    <3>1. PICK m : o.sent = Append(<<>>, m) /\ MailOf(m, o.editor, events)
      BY <2>4
    <3>2. Append(<<>>, m) = <<m>>
      OBVIOUS
    <3>3. up' = Append(up, m)
      BY <1>8, <2>1, <3>1, <3>2, OneMore
    <3>4. /\ IsSeq(up') /\ Len(up') = Len(up) + 1 /\ Len(up) \in Nat
          /\ \A i \in 1 .. Len(up) : up'[i] = up[i]
          /\ up'[Len(up) + 1] = m
      BY <1>8, <3>3, OneMore
    <3> QED
      BY <2>2, <3>1, <3>4
  <2> QED
    BY <1>3, <2>3, <2>4 DEF Sends
<1>10. MailInv'
  <2>1. \A i \in 1 .. Len(up') : MailOf(up'[i], page'.editor, events')
    BY <1>1, <1>2, <1>4, <1>9, MailAges
  <2>2. \A i \in 1 .. Len(down) : MailOf(down[i], page'.editor, events')
    <3> TAKE i \in 1 .. Len(down)
    <3>1. MailOf(down[i], o.editor, events)
      BY <1>7 DEF GridAndProcess, MailInv
    <3> QED
      BY <1>1, <1>2, <1>4, <3>1, MailAges
  <2> QED
    BY <1>8, <1>9, <2>1, <2>2 DEF GridAndProcess, MailInv
<1>11. page'.rows = page.rows /\ page'.text = page.text
  BY <1>3, <1>4 DEF Still
<1>12. ShowInv'
  BY <1>11 DEF GridAndProcess, ShowInv, Loaded, Shown
<1>13. SrvInv'
  BY PageStepsAreQuiet DEF GridAndProcess, SrvInv, Stored, TripSet
<1> QED
  BY <1>6, <1>10, <1>12, <1>13 DEF GridAndProcess


\* What an event does: its mail goes back with the answer.
LEMMA HandleKeeps ==
    ASSUME GridAndProcess, Handle
    PROVE  GridAndProcess'
<1> DEFINE h == Head(up)
<1>1. /\ up # <<>> /\ up' = Tail(up) /\ HandleEvent(h.type, h.x)
      /\ page' = page /\ events' = events
  BY DEF Handle
<1>2. SrvInv /\ IsSeq(up) /\ IsSeq(down)
  BY DEF GridAndProcess, MailInv
<1>3. UndoInv'
  BY <1>1, <1>2, HandleHolds DEF SrvInv
<1>4. PICK patch, ok, v :
         /\ Answers(patch, ok, v) /\ v.rows \in Seq(TripSet) /\ Stored'
         /\ patch = "none" => v.rows = srv.rows /\ v.times = srv.times
  BY <1>1, <1>2, EventsAreAnswered DEF Answered
<1> DEFINE m == [type |-> h.type, ctx |-> h.ctx, patch |-> patch, ok |-> ok,
                 rows |-> v.rows, text |-> v.times]
<1>5. srv' = v /\ down' = Append(down, m)
  BY <1>4 DEF Answers
<1>6. SrvInv'
  BY <1>3, <1>4, <1>5 DEF SrvInv
<1>7. h = up[1] /\ IsSeq(up') /\ Len(up) \in Nat /\ Len(up) >= 1
      /\ Len(up') = Len(up) - 1 /\ \A i \in 1 .. Len(up) - 1 : up'[i] = up[i + 1]
  BY <1>1, <1>2, OneLess
<1>8. /\ IsSeq(down') /\ down' # <<>> /\ Len(down') = Len(down) + 1 /\ Len(down) \in Nat
      /\ \A i \in 1 .. Len(down) : down'[i] = down[i]
      /\ down'[Len(down) + 1] = m
  BY <1>2, <1>5, OneMore
<1>9. Ready'
  BY <1>1 DEF GridAndProcess, Ready
<1>10. /\ MailOf(h, page.editor, events)
       /\ \A i \in 1 .. Len(up') : MailOf(up'[i], page.editor, events)
  BY <1>7 DEF GridAndProcess, MailInv
<1>11. /\ m.type = h.type /\ m.ctx = h.ctx /\ m.patch = patch
       /\ m.rows = v.rows /\ m.text = v.times
  OBVIOUS
<1> HIDE DEF h, m
<1>12. MailOf(m, page.editor, events)
  BY <1>10, <1>11 DEF MailOf
<1>13. \A i \in 1 .. Len(down') : MailOf(down'[i], page.editor, events) /\ down'[i].rows \in Seq(TripSet)
  BY <1>4, <1>8, <1>11, <1>12 DEF GridAndProcess, MailInv
<1>14. MailInv'
  BY <1>1, <1>7, <1>8, <1>10, <1>13 DEF MailInv
<1>15. ShowInv'
  <2>1. down'[Len(down')].rows = srv'.rows /\ down'[Len(down')].text = srv'.times
    BY <1>5, <1>8, <1>11
  <2>2. ASSUME NEW i \in 1 .. Len(down'), down'[i].patch = "none"
        PROVE  /\ i = 1 => Shown(page, down'[i])
               /\ i > 1 => Shown(down'[i - 1], down'[i])
    <3>1. CASE i \in 1 .. Len(down)
      <4>1. i > 1 => i - 1 \in 1 .. Len(down)
        BY <1>8, <3>1
      <4> QED
        BY <1>8, <2>2, <3>1, <4>1 DEF GridAndProcess, ShowInv
    <3>2. CASE i = Len(down) + 1
      <4>1. down'[i] = m /\ m.rows = srv.rows /\ m.text = srv.times
        BY <1>4, <1>8, <1>11, <2>2, <3>2
      <4>2. CASE i = 1
        <5>1. down = <<>>
          BY <1>2, <1>8, <3>2, <4>2, NoneYet
        <5> QED
          BY <4>1, <4>2, <5>1 DEF GridAndProcess, ShowInv, Loaded, Shown
      <4>3. CASE i > 1
        <5>1. down # <<>> /\ i - 1 = Len(down) /\ down'[i - 1] = down[Len(down)]
          BY <1>2, <1>8, <3>2, <4>3, NoneYet
        <5> QED
          BY <4>1, <4>3, <5>1 DEF GridAndProcess, ShowInv, Loaded, Shown
      <4> QED
        BY <1>8, <3>2, <4>2, <4>3
    <3> QED
      BY <1>8, <2>2, <3>1, <3>2
  <2> QED
    BY <1>1, <1>8, <2>1, <2>2 DEF ShowInv, Loaded, Shown
<1> QED
  BY <1>6, <1>9, <1>14, <1>15 DEF GridAndProcess

LEMMA DeliverKeeps ==
    ASSUME GridAndProcess, Deliver
    PROVE  GridAndProcess'
<1> DEFINE m == Head(down)
           o == Replied(Patched(page, m), m)
<1>1. /\ down # <<>> /\ down' = Tail(down) /\ page' = o
      /\ srv' = srv /\ db' = db /\ up' = up /\ events' = events
  BY DEF Deliver
<1>2. IsSeq(up) /\ IsSeq(down) /\ PageInv(page) /\ page.sent = <<>>
  BY DEF GridAndProcess, MailInv, Ready
<1>3. /\ m = down[1] /\ IsSeq(down') /\ Len(down) \in Nat /\ Len(down) >= 1
      /\ Len(down') = Len(down) - 1 /\ \A i \in 1 .. Len(down) - 1 : down'[i] = down[i + 1]
      /\ down' = <<>> <=> Len(down) = 1
  BY <1>1, <1>2, OneLess
<1>4. MailOf(m, page.editor, events) /\ m.rows \in Seq(TripSet)
  BY <1>3 DEF GridAndProcess, MailInv
<1>5. m.patch = "none" => Shown(page, m)
  BY <1>3 DEF GridAndProcess, ShowInv
<1> HIDE DEF m
<1>6. /\ PageInv(o) /\ Goes(page.editor, o.editor) /\ o.sent = page.sent
      /\ m.patch = "none" => o.rows = page.rows /\ o.text = page.text
      /\ m.patch # "none" => Shown(o, m)
  BY <1>2, <1>4, DeliveryHolds
<1> HIDE DEF o
<1>7. Shown(o, m)
  BY <1>5, <1>6 DEF Shown
<1>8. Ready'
  <2>1. Begun(o.editor, events)
    BY <1>6 DEF GridAndProcess, Ready, Begun, Goes
  <2> QED
    BY <1>1, <1>2, <1>6, <2>1 DEF GridAndProcess, Ready
<1>9. SrvInv'
  BY <1>1, PageStepsAreQuiet DEF GridAndProcess, SrvInv, Stored, TripSet
<1>10. ASSUME NEW k, MailOf(k, page.editor, events)
       PROVE  MailOf(k, o.editor, events)
  BY <1>2, <1>6, <1>10, MailStays DEF PageInv, EditorInv
<1>11. MailInv'
  <2>1. \A i \in 1 .. Len(up) : MailOf(up[i], o.editor, events)
    BY <1>10 DEF GridAndProcess, MailInv
  <2>2. \A i \in 1 .. Len(down') : MailOf(down'[i], o.editor, events) /\ down'[i].rows \in Seq(TripSet)
    <3> TAKE i \in 1 .. Len(down')
    <3>1. i + 1 \in 1 .. Len(down) /\ down'[i] = down[i + 1]
      BY <1>3
    <3>2. MailOf(down[i + 1], page.editor, events) /\ down[i + 1].rows \in Seq(TripSet)
      BY <3>1 DEF GridAndProcess, MailInv
    <3> QED
      BY <1>10, <3>1, <3>2
  <2>3. \A i \in 1 .. Len(up') : MailOf(up'[i], page'.editor, events')
    BY <1>1, <2>1
  <2>4. \A i \in 1 .. Len(down') : MailOf(down'[i], page'.editor, events') /\ down'[i].rows \in Seq(TripSet)
    BY <1>1, <2>2
  <2>5. IsSeq(up')
    BY <1>1, <1>2
  <2> QED
    BY <1>3, <2>3, <2>4, <2>5 DEF MailInv
<1>12. ShowInv'
  <2>1. down' = <<>> => Loaded(page)'
    BY <1>1, <1>3, <1>7 DEF GridAndProcess, ShowInv, Loaded, Shown
  <2>2. down' # <<>> => Loaded(down[Len(down)])' /\ down'[Len(down')] = down[Len(down)]
    BY <1>1, <1>3 DEF GridAndProcess, ShowInv, Loaded
  <2>3. ASSUME NEW i \in 1 .. Len(down'), down'[i].patch = "none"
        PROVE  /\ i = 1 => Shown(o, down'[i])
               /\ i > 1 => Shown(down'[i - 1], down'[i])
    <3>1. i + 1 \in 1 .. Len(down) /\ i + 1 > 1 /\ down'[i] = down[i + 1]
      BY <1>3
    <3>2. Shown(down[i], down'[i])
      BY <2>3, <3>1 DEF GridAndProcess, ShowInv
    <3>3. CASE i = 1
      BY <1>3, <1>7, <3>2, <3>3 DEF Shown
    <3>4. CASE i > 1
      BY <1>3, <3>2, <3>4
    <3> QED
      BY <3>3, <3>4
  <2> QED
    BY <1>1, <2>1, <2>2, <2>3 DEF ShowInv, Loaded
<1> QED
  BY <1>8, <1>9, <1>11, <1>12 DEF GridAndProcess

LEMMA OthersKeep ==
    ASSUME GridAndProcess, NEW t \in TripSet, OtherWrites(t) \/ OtherDeletes(t)
    PROVE  GridAndProcess'
<1>1. UNCHANGED <<page, srv, up, down, events>>
  BY DEF OtherWrites, OtherDeletes, Other
<1>2. UndoInv'
  BY OthersHold, DeletesHold DEF GridAndProcess, SrvInv
<1>3. Stored'
  <2>1. CASE OtherDeletes(t)
    <3>1. db' = [db EXCEPT !.gone = @ \cup {t}]
      BY <2>1 DEF OtherDeletes
    <3>2. db' = [times |-> db.times, rev |-> db.rev, gone |-> db.gone \cup {t}, by |-> db.by]
      BY <3>1 DEF GridAndProcess, SrvInv, UndoInv, DbShape
    <3>3. db'.times = db.times /\ db'.rev = db.rev /\ db'.by = db.by
      BY <3>2
    <3> QED
      BY <1>1, <3>3 DEF GridAndProcess, SrvInv, Stored, TripSet
  <2>2. CASE OtherWrites(t)
    <3> DEFINE T == [db.times EXCEPT ![t] = Shifted(@, 1)]
               R == [db.rev EXCEPT ![t] = @ + 1]
               B == [db.by EXCEPT ![t] = "other"]
    <3>1. db' = [db EXCEPT !.times = T, !.rev = R, !.by = B]
      BY <2>2 DEF OtherWrites
    <3>2. db' = [times |-> T, rev |-> R, gone |-> db.gone, by |-> B]
      BY <3>1 DEF GridAndProcess, SrvInv, UndoInv, DbShape
    <3>3. /\ \A u \in TripSet : u # t => T[u] = db.times[u] /\ R[u] = db.rev[u] /\ B[u] = db.by[u]
          /\ B[t] = "other"
      BY DEF GridAndProcess, SrvInv, UndoInv, DbShape
    <3> HIDE DEF T, R, B
    <3>4. db'.times = T /\ db'.rev = R /\ db'.by = B
      BY <3>2
    <3> QED
      BY <1>1, <3>3, <3>4 DEF GridAndProcess, SrvInv, Stored, TripSet
  <2> QED
    BY <2>1, <2>2
<1>4. SrvInv'
  BY <1>1, <1>2, <1>3 DEF GridAndProcess, SrvInv
<1>5. Ready' /\ MailInv' /\ ShowInv'
  BY <1>1 DEF GridAndProcess, Ready, MailInv, ShowInv, Loaded
<1> QED
  BY <1>4, <1>5 DEF GridAndProcess

LEMMA NextKeeps ==
    ASSUME GridAndProcess, [Next]_vars
    PROVE  GridAndProcess'
<1>1. CASE Handle
  BY <1>1, HandleKeeps
<1>2. CASE Deliver
  BY <1>2, DeliverKeeps
<1>3. CASE \E t \in ToSet(Trips) : OtherWrites(t) \/ OtherDeletes(t)
  BY <1>3, OthersKeep DEF TripSet
<1>4. CASE UNCHANGED vars
  <2>1. UNCHANGED <<page, srv, db, up, down, events>>
    BY <1>4 DEF vars
  <2>2. UndoInv'
    BY <2>1, PageStepsAreQuiet DEF GridAndProcess, SrvInv
  <2>3. SrvInv'
    BY <2>1, <2>2 DEF GridAndProcess, SrvInv, Stored, TripSet
  <2>4. Ready' /\ MailInv' /\ ShowInv'
    BY <2>1 DEF GridAndProcess, Ready, MailInv, ShowInv, Loaded
  <2> QED
    BY <2>3, <2>4 DEF GridAndProcess
<1>5. CASE \/ Arrow \/ ExtendSelection \/ ToggleTrip \/ PressUndo \/ PressChord
           \/ \E minutes \in {-1, 1} : Nudge(minutes)
           \/ \E v \in Typed : PressKey(v) \/ TypeText(v)
           \/ PressEnter \/ PressDelete \/ PressEscape \/ PreviewTimer
           \/ \E move \in {"up", "down", "left", "right"} : Commit(move)
           \/ \E cell \in Cells(page) : ClickCell(cell)
           \/ \E hidden \in {{}, {Head(Trips)}} : ChooseFilter(hidden)
  <2>1. Acted
    BY <1>5, OperatorActs DEF GridAndProcess
  <2>2. UNCHANGED <<srv, db, down>>
    BY <2>1 DEF Acted, Acts, GoesActs, Do
  <2> QED
    BY <2>1, <2>2, ActedHolds
<1> QED
  BY <1>1, <1>2, <1>3, <1>4, <1>5, Zenon DEF Next

LEMMA GridHolds == Spec => []GridAndProcess
<1>1. Init => GridAndProcess
  BY InitGrid
<1>2. GridAndProcess /\ [Next]_vars => GridAndProcess'
  BY NextKeeps
<1> QED
  BY <1>1, <1>2, PTL DEF Spec

\* Whatever is re-rendered, hidden or deleted, the ring is on one cell of the grid
\* that is shown, the one that the keys act on.
THEOREM CursorRoves == Spec => []RovingCursor
<1>1. GridAndProcess => RovingCursor
  BY DEF GridAndProcess, Ready, PageInv, Roving, RovingCursor
<1> QED
  BY <1>1, GridHolds, PTL

\* An open editor is over its cell, and a reading under it is one of its text,
\* whatever is typed, answered or committed in between.
THEOREM ReadingsFollowTheText == Spec => []ReadingIsOfTheText
<1>1. GridAndProcess => ReadingIsOfTheText
  BY DEF GridAndProcess, Ready, PageInv, Over, ReadsText, ReadingIsOfTheText
<1> QED
  BY <1>1, GridHolds, PTL

\* When everything is answered the grid shows what is loaded, which for every trip
\* that this page wrote last is what is stored.
THEOREM OwnWritesAreShown == Spec => []OwnWritesShow
<1>1. GridAndProcess => OwnWritesShow
  BY DEF GridAndProcess, ShowInv, Loaded, SrvInv, Stored, AtRest, OwnWritesShow, TripSet
<1> QED
  BY <1>1, GridHolds, PTL

=============================================================================
