------------------------- MODULE DiagramCanvasProofs -------------------------
(***************************************************************************)
(* For any station, any places and any number of actions: what a drop      *)
(* overwrites is what the session had loaded, and whatever crosses a drag  *)
(* or a search, the canvas ends up as the server has it.                   *)
(***************************************************************************)
EXTENDS DiagramCanvas, TLAPS

-----------------------------------------------------------------------------
(* The process and the points.                                             *)

\* A revision only grows, and what the process keeps was stored.
DbShape(d) ==
    /\ DOMAIN d = Stops
    /\ \A s \in Stops : {"at", "rev"} \subseteq DOMAIN d[s] /\ d[s].rev \in Nat

SrvFields == {"list", "dragging", "revision", "level"}

\* The revision of a drag is not newer than the loaded point, which is not newer
\* than the stored one.
LoadedInv(v, d) ==
    /\ SrvFields \subseteq DOMAIN v
    /\ DOMAIN v.list \subseteq Stops
    /\ \A s \in DOMAIN v.list : /\ v.list[s].rev \in Nat
                                /\ v.list[s].rev <= d[s].rev
    /\ v.dragging \in Stops =>
          /\ v.revision \in Nat /\ v.revision <= d[v.dragging].rev
          /\ v.dragging \in DOMAIN v.list => v.revision <= v.list[v.dragging].rev

DragInv == DbShape(db) /\ LoadedInv(srv, db) /\ others \in Nat

\* An assignment to the other fields of the process.
LEMMA SameLoaded ==
    ASSUME NEW v, NEW w, NEW d, LoadedInv(v, d), SrvFields \subseteq DOMAIN w,
           w.list = v.list, w.dragging = v.dragging, w.revision = v.revision
    PROVE  LoadedInv(w, d)
BY DEF LoadedInv

LEMMA LoadedStays ==
    ASSUME NEW v, NEW w, NEW d, LoadedInv(v, d), SrvFields \subseteq DOMAIN w,
           w.list = v.list, w.dragging \notin Stops
    PROVE  LoadedInv(w, d)
BY DEF LoadedInv

LEMMA LevelLoads ==
    ASSUME DbShape(db), NEW v, LoadedInv(v, db), NEW l
    PROVE  LoadedInv(LoadLevelData(v, l), db)
<1> DEFINE loaded == [stop \in OnLevel(l) |-> db[stop]]
           w == LoadLevelData(v, l)
<1>1. DOMAIN loaded \subseteq Stops /\ \A s \in DOMAIN loaded : loaded[s] = db[s]
  BY DEF OnLevel
<1>2. w = [v EXCEPT !.level = l, !.list = loaded, !.paths = PlacesOf(loaded), !.measuring = FALSE]
  BY DEF LoadLevelData
<1> HIDE DEF loaded, w
<1>3. /\ SrvFields \subseteq DOMAIN w /\ w.list = loaded
      /\ w.dragging = v.dragging /\ w.revision = v.revision
  BY <1>2 DEF LoadedInv, SrvFields
<1>4. LoadedInv(w, db)
  BY <1>1, <1>3 DEF LoadedInv, DbShape
<1> QED
  BY <1>4 DEF w

\* The stored point is written, with its next revision.
LEMMA MovesAge ==
    ASSUME DbShape(db), NEW stop, NEW x, NEW d, d = MoveChildStop(stop, x)
    PROVE  /\ DbShape(d) /\ \A s \in Stops : db[s].rev <= d[s].rev
           /\ \A s \in Stops : s # stop => d[s] = db[s]
BY DEF DbShape, MoveChildStop

LEMMA LoadedAges ==
    ASSUME NEW v, NEW c, NEW d, DbShape(c), DbShape(d), LoadedInv(v, c),
           \A s \in Stops : c[s].rev <= d[s].rev
    PROVE  LoadedInv(v, d)
<1>1. ASSUME NEW s \in DOMAIN v.list
      PROVE  v.list[s].rev \in Nat /\ v.list[s].rev <= d[s].rev
  <2>1. s \in Stops /\ v.list[s].rev \in Nat /\ v.list[s].rev <= c[s].rev
    BY <1>1 DEF LoadedInv
  <2>2. c[s].rev \in Nat /\ d[s].rev \in Nat /\ c[s].rev <= d[s].rev
    BY <2>1 DEF DbShape
  <2> QED
    BY <2>1, <2>2
<1>2. ASSUME v.dragging \in Stops
      PROVE  v.revision \in Nat /\ v.revision <= d[v.dragging].rev
  <2>1. v.revision \in Nat /\ v.revision <= c[v.dragging].rev
    BY <1>2 DEF LoadedInv
  <2>2. c[v.dragging].rev \in Nat /\ d[v.dragging].rev \in Nat
        /\ c[v.dragging].rev <= d[v.dragging].rev
    BY <1>2 DEF DbShape
  <2> QED
    BY <2>1, <2>2
<1> QED
  BY <1>1, <1>2 DEF LoadedInv

\* A saved drop: the point is loaded as it is stored, and nothing is dragged.
LEMMA SavedIsLoaded ==
    ASSUME DbShape(db), NEW v, LoadedInv(v, db), NEW stop \in DOMAIN v.list, NEW x,
           NEW paths, NEW moved, moved = MoveChildStop(stop, x)
    PROVE  LoadedInv([Forgotten(v) EXCEPT !.list[stop] = moved[stop], !.paths = paths], moved)
<1> DEFINE w == [Forgotten(v) EXCEPT !.list[stop] = moved[stop], !.paths = paths]
           list == [v.list EXCEPT ![stop] = moved[stop]]
<1>1. /\ SrvFields \subseteq DOMAIN w /\ w.list = list /\ w.dragging = None
  BY DEF Forgotten, LoadedInv, SrvFields
<1>2. /\ DOMAIN list = DOMAIN v.list /\ list[stop] = moved[stop]
      /\ \A s \in DOMAIN v.list : s # stop => list[s] = v.list[s]
  OBVIOUS
<1>3. /\ DbShape(moved) /\ \A s \in Stops : db[s].rev <= moved[s].rev
      /\ LoadedInv(v, moved)
  BY MovesAge, LoadedAges
<1> HIDE DEF w, list
<1>4. \A s \in DOMAIN list : list[s].rev \in Nat /\ list[s].rev <= moved[s].rev
  <2>1. moved[stop].rev \in Nat
    BY <1>3 DEF DbShape, LoadedInv
  <2>2. moved[stop].rev <= moved[stop].rev
    BY <2>1
  <2>3. \A s \in DOMAIN v.list : v.list[s].rev \in Nat /\ v.list[s].rev <= moved[s].rev
    BY <1>3 DEF LoadedInv
  <2> QED
    BY <1>2, <2>1, <2>2, <2>3
<1>5. LoadedInv(w, moved)
  BY <1>1, <1>2, <1>3, <1>4, DiagramAssumption DEF LoadedInv
<1> QED
  BY <1>5 DEF w

-----------------------------------------------------------------------------
(* The steps.                                                              *)

LEMMA ForgottenIsLoaded ==
    ASSUME NEW v, NEW d, LoadedInv(v, d)
    PROVE  LoadedInv(Forgotten(v), d)
<1>1. /\ SrvFields \subseteq DOMAIN Forgotten(v) /\ Forgotten(v).list = v.list
      /\ Forgotten(v).dragging = None
  BY DEF Forgotten, LoadedInv, SrvFields
<1> QED
  BY <1>1, LoadedStays, DiagramAssumption

\* What the process answers of the fields that no drop is about.
LEMMA DragStarts ==
    ASSUME NEW stop, DragInv
    PROVE  LoadedInv(DragStart(srv, stop), db)
<1>1. CASE srv.mode = "view" /\ stop \in DOMAIN srv.list
  <2> DEFINE w == [srv EXCEPT !.dragging = stop, !.revision = srv.list[stop].rev]
  <2>1. /\ SrvFields \subseteq DOMAIN w /\ w.list = srv.list
        /\ w.dragging = stop /\ w.revision = srv.list[stop].rev
    BY DEF DragInv, LoadedInv, SrvFields
  <2> HIDE DEF w
  <2>2. LoadedInv(w, db)
    BY <1>1, <2>1 DEF DragInv, LoadedInv
  <2> QED
    BY <1>1, <2>2 DEF w, DragStart
<1>2. CASE ~(srv.mode = "view" /\ stop \in DOMAIN srv.list)
  BY <1>2 DEF DragStart, DragInv
<1> QED
  BY <1>1, <1>2

LEMMA OtherFields ==
    ASSUME NEW v, NEW d, LoadedInv(v, d), NEW stop, NEW mode
    PROVE  /\ LoadedInv(OpenEditSidebar(v, stop), d)
           /\ LoadedInv(Closed(v), d)
           /\ LoadedInv([v EXCEPT !.drawer = FALSE], d)
           /\ LoadedInv([v EXCEPT !.drawer = TRUE], d)
           /\ LoadedInv([v EXCEPT !.measuring = ~@], d)
           /\ LoadedInv([v EXCEPT !.flash = TRUE], d)
           /\ LoadedInv(SwitchMode(v, mode), d)
<1>1. LoadedInv(OpenEditSidebar(v, stop), d)
  <2> DEFINE w == OpenEditSidebar(v, stop)
  <2>1. /\ SrvFields \subseteq DOMAIN w /\ w.list = v.list
        /\ w.dragging = v.dragging /\ w.revision = v.revision
    BY DEF OpenEditSidebar, LoadedInv, SrvFields
  <2> QED
    BY <2>1, SameLoaded
<1>2. LoadedInv(Closed(v), d)
  <2> DEFINE w == Closed(v)
  <2>1. /\ SrvFields \subseteq DOMAIN w /\ w.list = v.list
        /\ w.dragging = v.dragging /\ w.revision = v.revision
    BY DEF Closed, LoadedInv, SrvFields
  <2> QED
    BY <2>1, SameLoaded
<1>3. LoadedInv([v EXCEPT !.drawer = FALSE], d)
  <2> DEFINE w == [v EXCEPT !.drawer = FALSE]
  <2>1. /\ SrvFields \subseteq DOMAIN w /\ w.list = v.list
        /\ w.dragging = v.dragging /\ w.revision = v.revision
    BY DEF LoadedInv, SrvFields
  <2> QED
    BY <2>1, SameLoaded
<1>4. LoadedInv([v EXCEPT !.drawer = TRUE], d)
  <2> DEFINE w == [v EXCEPT !.drawer = TRUE]
  <2>1. /\ SrvFields \subseteq DOMAIN w /\ w.list = v.list
        /\ w.dragging = v.dragging /\ w.revision = v.revision
    BY DEF LoadedInv, SrvFields
  <2> QED
    BY <2>1, SameLoaded
<1>5. LoadedInv([v EXCEPT !.measuring = ~@], d)
  <2> DEFINE w == [v EXCEPT !.measuring = ~@]
  <2>1. /\ SrvFields \subseteq DOMAIN w /\ w.list = v.list
        /\ w.dragging = v.dragging /\ w.revision = v.revision
    BY DEF LoadedInv, SrvFields
  <2> QED
    BY <2>1, SameLoaded
<1>6. LoadedInv([v EXCEPT !.flash = TRUE], d)
  <2> DEFINE w == [v EXCEPT !.flash = TRUE]
  <2>1. /\ SrvFields \subseteq DOMAIN w /\ w.list = v.list
        /\ w.dragging = v.dragging /\ w.revision = v.revision
    BY DEF LoadedInv, SrvFields
  <2> QED
    BY <2>1, SameLoaded
<1>7. LoadedInv(SwitchMode(v, mode), d)
  <2> DEFINE w == SwitchMode(v, mode)
  <2>1. /\ SrvFields \subseteq DOMAIN w /\ w.list = v.list /\ w.dragging = None
    BY DEF SwitchMode, Closed, LoadedInv, SrvFields
  <2> QED
    BY <2>1, LoadedStays, DiagramAssumption
<1> QED
  BY <1>1, <1>2, <1>3, <1>4, <1>5, <1>6, <1>7

\* An answer of the process that stores nothing.
LEMMA AnswerLoads ==
    ASSUME DragInv, NEW v, LoadedInv(v, db), NEW answer, Handled(v, answer), db' = db
    PROVE  DragInv'
BY DEF DragInv, Handled

LEMMA DropStep ==
    ASSUME DragInv, HandleDragEnd
    PROVE  /\ DragInv'
           /\ \A s \in Stops : db'[s] # db[s] => srv.list[s].rev = db[s].rev
<1> DEFINE stop == Head(up).arg
           x == Head(up).x
           moved == MoveChildStop(stop, x)
           saved == [Forgotten(srv) EXCEPT
                       !.list[stop] = moved[stop],
                       !.paths = PlacesOf([s \in OnLevel(srv.level) |-> moved[s]])]
           failed == OpenEditSidebar(Forgotten(srv), stop)
<1>1. LoadedInv(srv, db) /\ DbShape(db) /\ LoadedInv(Forgotten(srv), db)
  BY ForgottenIsLoaded DEF DragInv
<1>2. CASE RejectDrag
  <2>1. LoadedInv([Forgotten(srv) EXCEPT !.flash = TRUE], db)
    BY <1>1, OtherFields
  <2>2. \E a : Handled([Forgotten(srv) EXCEPT !.flash = TRUE], a)
    BY <1>2 DEF RejectDrag
  <2>3. db' = db
    BY <1>2 DEF RejectDrag
  <2> QED
    BY <2>1, <2>2, <2>3, AnswerLoads
<1>3. CASE Handled(Forgotten(srv), NoDiff) /\ UNCHANGED db
  BY <1>1, <1>3, AnswerLoads
<1>4. CASE /\ Handled(failed, Rendered(failed, Alone(stop, srv.list[stop].at), FALSE,
                                       Nothing, None))
           /\ UNCHANGED db
  <2>1. LoadedInv(failed, db)
    BY <1>1, OtherFields
  <2> HIDE DEF failed
  <2> QED
    BY <2>1, <1>4, AnswerLoads
<1>5. CASE /\ srv.dragging = stop /\ stop \in DOMAIN srv.list /\ Current(stop)
           /\ Handled(saved, Rendered(saved, Alone(stop, x), FALSE, saved.paths, None))
           /\ db' = moved
  <2>1. LoadedInv(saved, moved)
    BY <1>1, <1>5, SavedIsLoaded
  <2>2. DbShape(moved) /\ \A s \in Stops : s # stop => moved[s] = db[s]
    BY <1>1, MovesAge
  <2>3. srv' = saved /\ others' = others
    BY <1>5 DEF Handled
  <2>4. DragInv'
    <3> HIDE DEF saved, moved
    <3> QED
      BY <1>5, <2>1, <2>2, <2>3 DEF DragInv
  <2>5. stop \in Stops /\ srv.revision = db[stop].rev
    BY <1>1, <1>5 DEF LoadedInv, Current
  <2>6. /\ srv.revision \in Nat /\ srv.revision <= srv.list[stop].rev
        /\ srv.list[stop].rev \in Nat /\ srv.list[stop].rev <= db[stop].rev
        /\ db[stop].rev \in Nat
    BY <1>1, <1>5, <2>5 DEF LoadedInv, DbShape
  <2>7. srv.list[stop].rev = db[stop].rev
    BY <2>5, <2>6
  <2>8. ASSUME NEW s \in Stops, db'[s] # db[s]
        PROVE  srv.list[s].rev = db[s].rev
    <3> HIDE DEF moved
    <3>1. s = stop
      BY <1>5, <2>2, <2>8
    <3> QED
      BY <3>1, <2>7
  <2> QED
    BY <2>4, <2>8
<1> QED
  BY <1>2, <1>3, <1>4, <1>5 DEF HandleDragEnd

\* What the other handlers do of the list and the drag.
LEMMA ServerLoads ==
    ASSUME DragInv, Server, ~HandleDragEnd
    PROVE  \E v, a : LoadedInv(v, db) /\ Handled(v, a) /\ db' = db
<1> USE DEF Handles
<1>1. LoadedInv(srv, db) /\ DbShape(db)
  BY DEF DragInv
<1>2. CASE HandleDragStart
  BY <1>2, DragStarts DEF HandleDragStart
<1>3. CASE HandleDragCancel
  BY <1>1, <1>3, ForgottenIsLoaded DEF HandleDragCancel
<1>4. CASE HandleCancelPlacement
  BY <1>1, <1>4, OtherFields DEF HandleCancelPlacement
<1>5. CASE HandleStopClicked
  BY <1>1, <1>5, OtherFields DEF HandleStopClicked
<1>6. CASE HandleCanvasClicked
  BY <1>1, <1>6, OtherFields DEF HandleCanvasClicked
<1>7. CASE HandleToggleMeasurement
  BY <1>1, <1>7, OtherFields DEF HandleToggleMeasurement
<1>8. CASE HandleSwitchMode
  BY <1>1, <1>8, OtherFields DEF HandleSwitchMode
<1>9. CASE HandleSwitchLevel
  BY <1>1, <1>9, LevelLoads, OtherFields DEF HandleSwitchLevel
<1>10. CASE HandleSearchStop
  <2> DEFINE stop == Head(up).arg
             loaded == IF LevelOf[stop] # srv.level THEN LoadLevelData(srv, LevelOf[stop]) ELSE srv
             s == OpenEditSidebar(loaded, stop)
  <2>1. LoadedInv(loaded, db)
    BY <1>1, LevelLoads
  <2>2. LoadedInv(s, db)
    BY <2>1, OtherFields
  <2>3. (\E a : Handled(s, a)) /\ db' = db
    BY <1>10 DEF HandleSearchStop
  <2> QED
    BY <2>2, <2>3
<1> QED
  BY <1>2, <1>3, <1>4, <1>5, <1>6, <1>7, <1>8, <1>9, <1>10 DEF Server

LEMMA PageKeepsServer ==
    ASSUME Operator \/ Browser
    PROVE  UNCHANGED <<srv, db, others>>
BY DEF Operator, Browser, InPage, PressPoint, PressPlan, HoldElapses, Move, Release,
       PressEscape, PressEnter, Hover, Leave, Wheel, PanZoomButton, ClickMode, ClickMeasure,
       ClickLevel, Search, Toolbar, ImageEnds, Answer

LEMMA OtherEditorAges ==
    ASSUME DragInv, OtherEditor
    PROVE  DragInv' /\ others' # others
<1>1. PICK s \in Stops, x \in Places : db' = MoveChildStop(s, x)
  BY DEF OtherEditor
<1> DEFINE d == MoveChildStop(s, x)
<1>2. DbShape(d) /\ LoadedInv(srv, d)
  BY MovesAge, LoadedAges DEF DragInv
<1> HIDE DEF d
<1>3. srv' = srv /\ others' = others + 1 /\ db' = d
  BY <1>1 DEF OtherEditor, d
<1> QED
  BY <1>2, <1>3 DEF DragInv

LEMMA DragStep ==
    ASSUME DragInv, [Next]_vars
    PROVE  /\ DragInv'
           /\ \A s \in Stops :
                 db'[s] # db[s] /\ others' = others => srv.list[s].rev = db[s].rev
<1>1. CASE UNCHANGED <<srv, db, others>>
  BY <1>1 DEF DragInv
<1>2. CASE Operator \/ Browser
  BY <1>1, <1>2, PageKeepsServer
<1>3. CASE HandleDragEnd
  BY <1>3, DropStep
<1>4. CASE Server /\ ~HandleDragEnd
  BY <1>4, ServerLoads, AnswerLoads
<1>5. CASE OtherEditor
  BY <1>5, OtherEditorAges
<1> QED
  BY <1>1, <1>2, <1>3, <1>4, <1>5 DEF Next, vars

LEMMA DragInit ==
    ASSUME Init
    PROVE  DragInv
<1>1. DbShape(db)
  BY DEF Init, DbShape
<1>2. /\ SrvFields \subseteq DOMAIN srv /\ srv.dragging = None
      /\ srv.list = [s \in OnLevel(First) |-> db[s]]
  BY DEF Init, SrvFields
<1>3. ASSUME NEW s \in DOMAIN srv.list
      PROVE  s \in Stops /\ srv.list[s].rev \in Nat /\ srv.list[s].rev <= db[s].rev
  <2>1. s \in Stops /\ srv.list[s] = db[s]
    BY <1>2, <1>3 DEF OnLevel
  <2>2. db[s].rev \in Nat
    BY <1>1, <2>1 DEF DbShape
  <2> QED
    BY <2>1, <2>2
<1>4. LoadedInv(srv, db)
  BY <1>2, <1>3, DiagramAssumption DEF LoadedInv
<1> QED
  BY <1>1, <1>4 DEF Init, DragInv

\* A drop replaces only the placement the session had loaded: drag_start keeps
\* the revision of the list, which is never newer than the stored one, and
\* move_child_stop stores only when the two are the same.
THEOREM DropsSpareOthers == Spec => DropsKeepOthers
<1>1. DragInv /\ [Next]_vars => DragInv'
  BY DragStep
<1>2. DragInv /\ [Next]_vars
      => [\A s \in Stops :
             db'[s] # db[s] /\ others' = others => srv.list[s].rev = db[s].rev]_vars
  BY DragStep
<1> QED
  BY DragInit, <1>1, <1>2, PTL DEF Spec, DropsKeepOthers

-----------------------------------------------------------------------------
(* The events on their way, each with the points it names.                 *)

Asks(m) == m.type \in {"stop_clicked", "search_stop"} => m.arg \in Stops
Asked(q) == \E S : q \in Seq(S) /\ \A m \in S : Asks(m)

LEMMA AskedGrows ==
    ASSUME NEW q, Asked(q), NEW r, Asked(r), NEW m, Asks(m)
    PROVE  Asked(Append(q, m)) /\ Asked(q \o r) /\ Asked(<<>>)
<1>1. PICK S : q \in Seq(S) /\ \A n \in S : Asks(n)
  BY DEF Asked
<1>2. PICK R : r \in Seq(R) /\ \A n \in R : Asks(n)
  BY DEF Asked
<1> DEFINE U == S \cup R \cup {m}
<1>3. q \in Seq(U) /\ r \in Seq(U) /\ m \in U
  BY <1>1, <1>2
<1>4. \A n \in U : Asks(n)
  BY <1>1, <1>2
<1> HIDE DEF U
<1>5. Append(q, m) \in Seq(U) /\ q \o r \in Seq(U) /\ <<>> \in Seq(U)
  BY <1>3
<1> QED
  BY <1>4, <1>5 DEF Asked

LEMMA AskedHead ==
    ASSUME NEW q, Asked(q), q # <<>>
    PROVE  Asks(Head(q)) /\ Asked(Tail(q))
<1>1. PICK S : q \in Seq(S) /\ \A n \in S : Asks(n)
  BY DEF Asked
<1>2. Head(q) \in S /\ Tail(q) \in Seq(S)
  BY <1>1
<1> QED
  BY <1>1, <1>2 DEF Asked

LEMMA NothingAsked == Asked(<<>>)
<1> DEFINE S == {m \in {None} : Asks(m)}
<1>1. <<>> \in Seq(S) /\ \A m \in S : Asks(m)
  OBVIOUS
<1> HIDE DEF S
<1> QED
  BY <1>1 DEF Asked

-----------------------------------------------------------------------------
(* The canvas.                                                             *)

Fields == {"mount", "candidate", "dragging", "pending", "suppress", "view", "loading",
           "center", "wanted", "tip", "staged", "mode", "measuring", "level", "drawer",
           "at", "offset", "base", "line", "sent"}

Grip(g) ==
    \/ g = NoDrag
    \/ {"stop", "at", "line"} \subseteq DOMAIN g /\ g.stop \in Stops

\* One drag at a time: a press starts none while another is under way or its drop
\* waits; and only its point is away from its center.
PlanInv(c) ==
    /\ DOMAIN c.at \subseteq Stops /\ DOMAIN c.offset \subseteq Stops
    /\ Grip(c.candidate) /\ Grip(c.dragging) /\ Grip(c.pending)
    /\ c.candidate # NoDrag => c.dragging = NoDrag /\ c.pending = NoDrag
    /\ c.dragging # NoDrag => c.pending = NoDrag
    /\ \A s \in DOMAIN c.offset :
          c.offset[s] # 0 => s \in {c.dragging.stop, c.pending.stop}

\* While the image loads the search is kept in "center".
ViewInv(c) ==
    c.wanted # None => IF c.loading THEN c.center = c.wanted ELSE c.view = c.wanted

CanvasInv(c) ==
    /\ Fields \subseteq DOMAIN c
    /\ PlanInv(c) /\ ViewInv(c) /\ Asked(c.sent)

SamePlan(c, o) ==
    /\ o.at = c.at /\ o.offset = c.offset
    /\ o.candidate = c.candidate /\ o.dragging = c.dragging /\ o.pending = c.pending
SameView(c, o) ==
    /\ o.loading = c.loading /\ o.view = c.view
    /\ o.center = c.center /\ o.wanted = c.wanted

\* What a handler of the operator does: no level changes and no drop is settled.
Goes(c, o) ==
    /\ CanvasInv(o) /\ o.level = c.level
    /\ c.pending # NoDrag => o.pending # NoDrag

LEMMA PlanStays ==
    ASSUME NEW c, NEW o, PlanInv(c), SamePlan(c, o)
    PROVE  PlanInv(o)
BY DEF PlanInv, SamePlan

LEMMA ViewStays ==
    ASSUME NEW c, NEW o, ViewInv(c), SameView(c, o)
    PROVE  ViewInv(o)
BY DEF ViewInv, SameView

LEMMA NoGrip == NoDrag.stop = None /\ Grip(NoDrag)
<1>1. NoDrag.stop = None
  BY DEF NoDrag
<1>2. Grip(NoDrag)
  BY DEF Grip
<1> QED
  BY <1>1, <1>2

LEMMA PushGoes ==
    ASSUME NEW c, CanvasInv(c), NEW type, NEW arg, NEW x,
           type \in {"stop_clicked", "search_stop"} => arg \in Stops
    PROVE  Goes(c, Push(c, type, arg, x)) /\ Goes(c, PushClick(c, type, arg))
<1>1. ASSUME NEW n, NEW y
      PROVE  Goes(c, [c EXCEPT !.sent =
                           Append(@, [type |-> type, arg |-> arg, x |-> y, mount |-> n])])
  <2> DEFINE m == [type |-> type, arg |-> arg, x |-> y, mount |-> n]
             o == [c EXCEPT !.sent = Append(@, m)]
  <2>1. Asks(m)
    BY DEF Asks
  <2>2. Asked(Append(c.sent, m))
    BY <2>1, AskedGrows DEF CanvasInv
  <2>3. /\ Fields \subseteq DOMAIN o /\ SamePlan(c, o) /\ SameView(c, o)
        /\ o.level = c.level /\ o.sent = Append(c.sent, m)
    BY DEF CanvasInv, Fields, SamePlan, SameView
  <2> HIDE DEF o, m
  <2>4. Goes(c, o)
    BY <2>2, <2>3, PlanStays, ViewStays DEF Goes, CanvasInv, SamePlan
  <2> QED
    BY <2>4 DEF o, m
<1>2. Goes(c, Push(c, type, arg, x))
  BY <1>1 DEF Push
<1>3. Goes(c, PushClick(c, type, arg))
  BY <1>1 DEF PushClick
<1> QED
  BY <1>2, <1>3

\* The fields that no part of the invariant is about.
LEMMA OtherGoes ==
    ASSUME NEW c, CanvasInv(c), NEW o, Fields \subseteq DOMAIN o, SamePlan(c, o),
           SameView(c, o), o.level = c.level, o.sent = c.sent
    PROVE  Goes(c, o)
BY PlanStays, ViewStays DEF Goes, CanvasInv, SamePlan

LEMMA GoesOn ==
    ASSUME NEW c, NEW o, NEW e, Goes(c, o), Goes(o, e)
    PROVE  Goes(c, e)
BY DEF Goes

LEMMA GoesNowhere ==
    ASSUME NEW c, CanvasInv(c)
    PROVE  Goes(c, c)
BY DEF Goes

LEMMA SmallSteps ==
    ASSUME NEW c, CanvasInv(c), NEW s
    PROVE  /\ Goes(c, ScaleOverlayElements(c)) /\ Goes(c, HideTooltip(c))
           /\ Goes(c, ShowTooltip(c, s)) /\ Goes(c, RepositionTooltipIfVisible(c))
           /\ Goes(c, [c EXCEPT !.suppress = FALSE])
           /\ Goes(c, [c EXCEPT !.staged = TRUE])
           /\ Goes(c, [c EXCEPT !.staged = FALSE])
<1>1. Goes(c, ScaleOverlayElements(c))
  <2> DEFINE o == ScaleOverlayElements(c)
  <2>1. /\ Fields \subseteq DOMAIN o /\ SamePlan(c, o) /\ SameView(c, o)
        /\ o.level = c.level /\ o.sent = c.sent
    BY DEF ScaleOverlayElements, CanvasInv, Fields, SamePlan, SameView
  <2> QED
    BY <2>1, OtherGoes
<1>2. ASSUME NEW t PROVE Goes(c, [c EXCEPT !.tip = t])
  <2> DEFINE o == [c EXCEPT !.tip = t]
  <2>1. /\ Fields \subseteq DOMAIN o /\ SamePlan(c, o) /\ SameView(c, o)
        /\ o.level = c.level /\ o.sent = c.sent
    BY DEF CanvasInv, Fields, SamePlan, SameView
  <2> QED
    BY <2>1, OtherGoes
<1>3. Goes(c, [c EXCEPT !.suppress = FALSE])
  <2> DEFINE o == [c EXCEPT !.suppress = FALSE]
  <2>1. /\ Fields \subseteq DOMAIN o /\ SamePlan(c, o) /\ SameView(c, o)
        /\ o.level = c.level /\ o.sent = c.sent
    BY DEF CanvasInv, Fields, SamePlan, SameView
  <2> QED
    BY <2>1, OtherGoes
<1>4. ASSUME NEW b PROVE Goes(c, [c EXCEPT !.staged = b])
  <2> DEFINE o == [c EXCEPT !.staged = b]
  <2>1. /\ Fields \subseteq DOMAIN o /\ SamePlan(c, o) /\ SameView(c, o)
        /\ o.level = c.level /\ o.sent = c.sent
    BY DEF CanvasInv, Fields, SamePlan, SameView
  <2> QED
    BY <2>1, OtherGoes
<1> QED
  BY <1>1, <1>2, <1>3, <1>4, GoesNowhere
     DEF HideTooltip, ShowTooltip, RepositionTooltipIfVisible

LEMMA CancelDragHoldGoes ==
    ASSUME NEW c, CanvasInv(c)
    PROVE  Goes(c, CancelDragHold(c))
<1> DEFINE o == CancelDragHold(c)
<1>1. /\ Fields \subseteq DOMAIN o /\ SameView(c, o) /\ o.level = c.level /\ o.sent = c.sent
      /\ o.at = c.at /\ o.offset = c.offset /\ o.candidate = NoDrag
      /\ o.dragging = c.dragging /\ o.pending = c.pending
  BY DEF CancelDragHold, CanvasInv, Fields, SameView
<1> HIDE DEF o
<1>2. PlanInv(o)
  BY <1>1, NoGrip DEF CanvasInv, PlanInv
<1>3. Goes(c, o)
  BY <1>1, <1>2, ViewStays DEF Goes, CanvasInv
<1> QED
  BY <1>3 DEF o

LEMMA PointerDownGoes ==
    ASSUME NEW c, CanvasInv(c), NEW s \in DOMAIN c.at, NEW x
    PROVE  Goes(c, HandleOverlayPointerDown(c, s, x))
<1> DEFINE g == [NoDrag EXCEPT !.stop = s, !.from = c.at[s], !.press = x, !.at = c.at[s]]
           o == [c EXCEPT !.candidate = g]
<1>1. Grip(g)
  BY DEF Grip, NoDrag, CanvasInv, PlanInv
<1> HIDE DEF g
<1>2. /\ Fields \subseteq DOMAIN o /\ SameView(c, o) /\ o.level = c.level /\ o.sent = c.sent
      /\ o.at = c.at /\ o.offset = c.offset /\ o.candidate = g
      /\ o.dragging = c.dragging /\ o.pending = c.pending
  BY DEF CanvasInv, Fields, SameView
<1>3. CASE ~Busy(c)
  <2> HIDE DEF o
  <2>1. c.dragging = NoDrag /\ c.pending = NoDrag
    BY <1>3 DEF Busy
  <2>2. PlanInv(o)
    BY <1>1, <1>2, <2>1 DEF CanvasInv, PlanInv
  <2>3. Goes(c, o)
    BY <1>2, <2>2, ViewStays DEF Goes, CanvasInv
  <2> QED
    BY <2>3, GoesNowhere DEF HandleOverlayPointerDown, o, g
<1>4. CASE Busy(c)
  BY <1>4, GoesNowhere DEF HandleOverlayPointerDown
<1> QED
  BY <1>3, <1>4

LEMMA StartGoes ==
    ASSUME NEW c, CanvasInv(c), c.candidate # NoDrag
    PROVE  Goes(c, StartStopDrag(c))
<1> DEFINE d == c.candidate
           b == HideTooltip(c)
           g == [d EXCEPT !.line = c.line[d.stop]]
           o == [b EXCEPT !.dragging = g, !.suppress = TRUE, !.candidate = NoDrag]
           e == [b EXCEPT !.dragging = g, !.suppress = TRUE]
<1>1. /\ Grip(g) /\ g.stop = d.stop
  BY DEF CanvasInv, PlanInv, Grip
<1>2. /\ Fields \subseteq DOMAIN b /\ SamePlan(c, b) /\ SameView(c, b)
      /\ b.level = c.level /\ b.sent = c.sent
  BY DEF HideTooltip, CanvasInv, Fields, SamePlan, SameView
<1> HIDE DEF b, g
<1>3. /\ Fields \subseteq DOMAIN o /\ SameView(b, o) /\ o.level = b.level /\ o.sent = b.sent
      /\ o.at = b.at /\ o.offset = b.offset /\ o.candidate = NoDrag
      /\ o.dragging = g /\ o.pending = b.pending
  BY <1>2 DEF Fields, SameView
<1> HIDE DEF o
<1>4. c.dragging = NoDrag /\ c.pending = NoDrag
  BY DEF CanvasInv, PlanInv
<1>5. \A s \in DOMAIN c.offset : c.offset[s] = 0
  BY <1>4, NoGrip, DiagramAssumption DEF CanvasInv, PlanInv
<1>6. PlanInv(o)
  BY <1>1, <1>2, <1>3, <1>4, <1>5, NoGrip DEF CanvasInv, PlanInv, SamePlan
<1>7. Goes(c, o)
  BY <1>2, <1>3, <1>4, <1>6, ViewStays DEF Goes, CanvasInv, SameView
<1>8. Goes(o, Push(o, "drag_start", d.stop, 0))
  BY <1>7, PushGoes DEF Goes
<1>9. StartStopDrag(c) = Push(o, "drag_start", d.stop, 0)
  <2>1. StartStopDrag(c) = CancelDragHold(Push(e, "drag_start", d.stop, 0))
    BY DEF StartStopDrag, b, g
  <2>2. e.mount = o.mount /\ e.sent = o.sent
    BY <1>2 DEF o, Fields
  <2> QED
    BY <2>1, <2>2, <1>2 DEF o, CancelDragHold, Push, Fields
<1> QED
  BY <1>7, <1>8, <1>9, GoesOn

LEMMA FollowGoes ==
    ASSUME NEW c, CanvasInv(c), Dragged(c), NEW x
    PROVE  Goes(c, Follow(c, x))
<1> DEFINE d == c.dragging
           at == Clamp(d.from + x - d.press)
           line == d.line + at - d.from
           o == [c EXCEPT !.dragging.at = at, !.offset[d.stop] = at - d.from,
                          !.line[d.stop] = line]
<1>1. o = Follow(c, x)
  BY DEF Follow
<1>2. Grip(d) /\ d # NoDrag /\ c.pending = NoDrag /\ c.candidate = NoDrag
  BY DEF CanvasInv, PlanInv, Dragged
<1> HIDE DEF at, line
<1>3. /\ Fields \subseteq DOMAIN o /\ SameView(c, o) /\ o.level = c.level /\ o.sent = c.sent
      /\ o.at = c.at /\ o.offset = [c.offset EXCEPT ![d.stop] = at - d.from]
      /\ o.candidate = c.candidate /\ o.dragging = [d EXCEPT !.at = at]
      /\ o.pending = c.pending
  BY DEF CanvasInv, Fields, SameView
<1> HIDE DEF o
<1>4. Grip(o.dragging) /\ o.dragging.stop = d.stop
  BY <1>2, <1>3 DEF Grip
<1>5. /\ DOMAIN o.offset = DOMAIN c.offset
      /\ \A s \in DOMAIN o.offset : s = d.stop \/ o.offset[s] = c.offset[s]
  BY <1>3
<1>6. PlanInv(o)
  BY <1>2, <1>3, <1>4, <1>5 DEF CanvasInv, PlanInv
<1>7. Goes(c, o)
  BY <1>2, <1>3, <1>6, ViewStays DEF Goes, CanvasInv
<1> QED
  BY <1>1, <1>7

LEMMA MouseMoveGoes ==
    ASSUME NEW c, CanvasInv(c), NEW x
    PROVE  Goes(c, HandleMouseMove(c, x))
<1> DEFINE started == IF c.candidate # NoDrag /\ ~Dragged(c) /\ x # c.candidate.press
                      THEN StartStopDrag(c) ELSE c
<1>1. Goes(c, started)
  BY StartGoes, GoesNowhere
<1> HIDE DEF started
<1>2. Dragged(started) => Goes(started, Follow(started, x))
  BY <1>1, FollowGoes DEF Goes
<1> QED
  BY <1>1, <1>2, GoesOn DEF HandleMouseMove, started

LEMMA MouseUpGoes ==
    ASSUME NEW c, CanvasInv(c)
    PROVE  Goes(c, HandleMouseUp(c))
<1>1. CASE ~Dragged(c)
  BY <1>1, CancelDragHoldGoes DEF HandleMouseUp
<1>2. CASE Dragged(c)
  <2> DEFINE d == c.dragging
             o == [c EXCEPT !.dragging = NoDrag, !.pending = d, !.suppress = TRUE]
  <2>1. d # NoDrag /\ c.pending = NoDrag /\ c.candidate = NoDrag
    BY <1>2 DEF CanvasInv, PlanInv, Dragged
  <2>2. /\ Fields \subseteq DOMAIN o /\ SameView(c, o) /\ o.level = c.level
        /\ o.sent = c.sent /\ o.at = c.at /\ o.offset = c.offset
        /\ o.candidate = c.candidate /\ o.dragging = NoDrag /\ o.pending = d
    BY DEF CanvasInv, Fields, SameView
  <2> HIDE DEF o
  <2>3. PlanInv(o)
    BY <2>1, <2>2, NoGrip, DiagramAssumption DEF CanvasInv, PlanInv
  <2>4. Goes(c, o)
    BY <2>1, <2>2, <2>3, ViewStays DEF Goes, CanvasInv
  <2>5. Goes(o, Push(o, "drag_end", d.stop, d.at))
    BY <2>4, PushGoes DEF Goes
  <2> QED
    BY <1>2, <2>4, <2>5, GoesOn DEF HandleMouseUp, o
<1> QED
  BY <1>1, <1>2

LEMMA ClickGoes ==
    ASSUME NEW c, CanvasInv(c), NEW target, target = Canvas \/ target \in Stops
    PROVE  Goes(c, Click(c, target))
<1>1. Goes(c, Push(c, "canvas_click", None, 0))
  BY PushGoes
<1>2. target # Canvas => Goes(c, PushClick(c, "stop_clicked", target))
  BY PushGoes
<1> QED
  BY <1>1, <1>2, SmallSteps, GoesNowhere DEF Click, HandleCanvasClick

LEMMA EscapeGoes ==
    ASSUME NEW c, CanvasInv(c)
    PROVE  Goes(c, HandleEscape(c))
<1>1. CASE ~Dragged(c)
  BY <1>1, PushGoes, GoesNowhere DEF HandleEscape
<1>2. CASE Dragged(c)
  <2> DEFINE d == c.dragging
             b == CancelDragHold(c)
             o == [b EXCEPT !.dragging = NoDrag, !.suppress = TRUE,
                            !.offset[d.stop] = 0, !.line[d.stop] = d.line]
  <2>1. d # NoDrag /\ c.pending = NoDrag /\ c.candidate = NoDrag
    BY <1>2 DEF CanvasInv, PlanInv, Dragged
  <2>2. CanvasInv(b) /\ b.level = c.level
    BY CancelDragHoldGoes DEF Goes
  <2>3. b.dragging = d /\ b.candidate = NoDrag /\ b.pending = NoDrag
    BY <2>1 DEF CancelDragHold, CanvasInv, Fields
  <2> HIDE DEF b, d
  <2>4. /\ Fields \subseteq DOMAIN o /\ SameView(b, o) /\ o.level = b.level
        /\ o.sent = b.sent /\ o.at = b.at
        /\ o.offset = [b.offset EXCEPT ![d.stop] = 0]
        /\ o.candidate = b.candidate /\ o.dragging = NoDrag /\ o.pending = b.pending
    BY <2>2 DEF CanvasInv, Fields, SameView
  <2> HIDE DEF o
  <2>5. \A s \in DOMAIN o.offset : o.offset[s] = 0
    BY <2>2, <2>3, <2>4, NoGrip, DiagramAssumption DEF CanvasInv, PlanInv
  <2>6. PlanInv(o)
    BY <2>2, <2>3, <2>4, <2>5, NoGrip DEF CanvasInv, PlanInv
  <2>7. Goes(c, o)
    BY <2>1, <2>2, <2>4, <2>6, ViewStays DEF Goes, CanvasInv, d
  <2>8. Goes(o, Push(o, "drag_cancel", None, 0))
    BY <2>7, PushGoes DEF Goes
  <2> QED
    BY <1>2, <2>7, <2>8, GoesOn DEF HandleEscape, o, b, d
<1> QED
  BY <1>1, <1>2

\* A move of the view, and the end of the image.
LEMMA ViewGoes ==
    ASSUME NEW c, CanvasInv(c), NEW view
    PROVE  /\ Goes(c, MovedTo(c, view)) /\ Goes(c, ImageFailed(c))
           /\ c.loading => Goes(c, ImageLoaded(c))
<1> DEFINE b == ScaleOverlayElements(c)
<1>1. Goes(c, b) /\ SameView(c, b)
  BY SmallSteps DEF ScaleOverlayElements, SameView, CanvasInv, Fields
<1> HIDE DEF b
<1>2. Goes(b, MovedTo(c, view))
  <2> DEFINE o == [b EXCEPT !.view = view, !.wanted = IF c.loading THEN @ ELSE None]
  <2>1. /\ Fields \subseteq DOMAIN o /\ SamePlan(b, o) /\ o.level = b.level
        /\ o.sent = b.sent /\ o.loading = b.loading /\ o.center = b.center
        /\ o.wanted = IF c.loading THEN b.wanted ELSE None
    BY <1>1 DEF Goes, CanvasInv, Fields, SamePlan
  <2> HIDE DEF o
  <2>2. ViewInv(o)
    BY <1>1, <2>1 DEF Goes, CanvasInv, ViewInv, SameView
  <2>3. Goes(b, o)
    BY <1>1, <2>1, <2>2, PlanStays DEF Goes, CanvasInv, SamePlan
  <2> QED
    BY <2>3 DEF o, b, MovedTo
<1>3. ASSUME c.loading PROVE Goes(b, ImageLoaded(c))
  <2> DEFINE shown == IF c.center = None THEN "home" ELSE c.center
             o == [b EXCEPT !.loading = FALSE, !.center = None, !.view = shown]
  <2>1. /\ Fields \subseteq DOMAIN o /\ SamePlan(b, o) /\ o.level = b.level
        /\ o.sent = b.sent /\ o.loading = FALSE /\ o.view = shown
        /\ o.wanted = b.wanted
    BY <1>1 DEF Goes, CanvasInv, Fields, SamePlan
  <2>2. ViewInv(o)
    <3> HIDE DEF o
    <3> QED
      BY <1>1, <1>3, <2>1 DEF Goes, CanvasInv, ViewInv, SameView
  <2>3. Goes(b, o)
    <3> HIDE DEF o
    <3> QED
      BY <1>1, <2>1, <2>2, PlanStays DEF Goes, CanvasInv, SamePlan
  <2> QED
    BY <2>3 DEF b, ImageLoaded
<1>4. Goes(c, ImageFailed(c))
  <2> DEFINE o == [c EXCEPT !.loading = FALSE, !.wanted = None]
  <2>1. /\ Fields \subseteq DOMAIN o /\ SamePlan(c, o) /\ o.level = c.level
        /\ o.sent = c.sent /\ o.wanted = None
    BY DEF CanvasInv, Fields, SamePlan
  <2> HIDE DEF o
  <2>2. Goes(c, o)
    BY <2>1, PlanStays DEF Goes, CanvasInv, SamePlan, ViewInv
  <2> QED
    BY <2>2 DEF o, ImageFailed
<1> QED
  BY <1>1, <1>2, <1>3, <1>4, GoesOn

-----------------------------------------------------------------------------
(* The patches.                                                            *)

\* An answer: without a change of the page, or with points of the station.
Tells(m) == m.diff => DOMAIN m.streamed \subseteq Stops
Told(q) == \E S : q \in Seq(S) /\ \A m \in S : Tells(m.patch)

LEMMA CenterGoes ==
    ASSUME NEW c, CanvasInv(c), NEW s
    PROVE  /\ Goes(c, CenterOnStop(c, s))
           /\ CenterOnStop(c, s).line = c.line /\ CenterOnStop(c, s).base = c.base
<1> DEFINE b == [c EXCEPT !.center = IF c.loading THEN s ELSE None, !.wanted = s]
           o == [b EXCEPT !.view = s]
<1>1. /\ Fields \subseteq DOMAIN b /\ SamePlan(c, b) /\ b.level = c.level /\ b.sent = c.sent
      /\ b.loading = c.loading /\ b.wanted = s
      /\ b.center = IF c.loading THEN s ELSE None
      /\ b.line = c.line /\ b.base = c.base
  BY DEF CanvasInv, Fields, SamePlan
<1> HIDE DEF b
<1>2. /\ Fields \subseteq DOMAIN o /\ SamePlan(b, o) /\ o.level = b.level /\ o.sent = b.sent
      /\ o.loading = b.loading /\ o.wanted = b.wanted /\ o.center = b.center /\ o.view = s
      /\ o.line = b.line /\ o.base = b.base
  BY <1>1 DEF Fields, SamePlan
<1> HIDE DEF o
<1>3. SamePlan(c, o) /\ ViewInv(o)
  BY <1>1, <1>2 DEF SamePlan, ViewInv
<1>4. Goes(c, o)
  BY <1>1, <1>2, <1>3, PlanStays DEF Goes, CanvasInv, SamePlan
<1> QED
  BY <1>1, <1>2, <1>4 DEF o, b, CenterOnStop, CenterOnPoint

\* A remount drops the drag: it needs points that are at their centers.
LEMMA MountedStays ==
    ASSUME NEW c, CanvasInv(c), \A s \in DOMAIN c.offset : c.offset[s] = 0
    PROVE  /\ CanvasInv(Mounted(c)) /\ Mounted(c).level = c.level
           /\ Mounted(c).line = c.line /\ Mounted(c).base = c.base
<1> DEFINE o == Mounted(c)
<1>1. /\ Fields \subseteq DOMAIN o /\ o.level = c.level /\ o.sent = c.sent
      /\ o.line = c.line /\ o.base = c.base /\ o.wanted = None
      /\ o.at = c.at /\ o.offset = c.offset
      /\ o.candidate = NoDrag /\ o.dragging = NoDrag /\ o.pending = NoDrag
  BY DEF Mounted, CanvasInv, Fields
<1> HIDE DEF o
<1>2. PlanInv(o) /\ ViewInv(o)
  BY <1>1, NoGrip DEF CanvasInv, PlanInv, ViewInv
<1>3. CanvasInv(o)
  BY <1>1, <1>2 DEF CanvasInv
<1> QED
  BY <1>1, <1>3 DEF o

\* A settled drop: its point is at its center again.
LEMMA ReconciledStays ==
    ASSUME NEW c, CanvasInv(c), c.line = c.base
    PROVE  LET o == ReconcilePendingDropAfterPatch(c)
           IN  CanvasInv(o) /\ o.level = c.level /\ o.line = o.base
<1> DEFINE d == c.pending
           line == IF c.at[d.stop] = d.at THEN c.line[d.stop] ELSE d.line
           b == [c EXCEPT !.pending = NoDrag, !.offset[d.stop] = 0, !.line[d.stop] = line]
           o == ScaleOverlayElements(b)
<1>1. CASE d = NoDrag
  BY <1>1 DEF ReconcilePendingDropAfterPatch
<1>2. CASE d # NoDrag
  <2>1. c.dragging = NoDrag /\ c.candidate = NoDrag
    BY <1>2 DEF CanvasInv, PlanInv
  <2> HIDE DEF line
  <2>2. /\ Fields \subseteq DOMAIN b /\ SameView(c, b) /\ b.level = c.level
        /\ b.sent = c.sent /\ b.at = c.at
        /\ b.offset = [c.offset EXCEPT ![d.stop] = 0]
        /\ b.candidate = c.candidate /\ b.dragging = c.dragging /\ b.pending = NoDrag
    BY DEF CanvasInv, Fields, SameView
  <2>3. ReconcilePendingDropAfterPatch(c) = o
    BY <1>2 DEF ReconcilePendingDropAfterPatch, line
  <2> HIDE DEF b
  <2>4. \A s \in DOMAIN b.offset : b.offset[s] = 0
    BY <2>1, <2>2, NoGrip, DiagramAssumption DEF CanvasInv, PlanInv
  <2>5. PlanInv(b)
    BY <2>1, <2>2, <2>4, NoGrip DEF CanvasInv, PlanInv
  <2>6. CanvasInv(b)
    BY <2>2, <2>5, ViewStays DEF CanvasInv
  <2>7. CanvasInv(o) /\ o.level = b.level
    BY <2>6, SmallSteps DEF Goes
  <2>8. o.line = o.base
    BY <2>2 DEF ScaleOverlayElements, Fields
  <2> QED
    BY <2>2, <2>3, <2>7, <2>8
<1> QED
  BY <1>1, <1>2

LEMMA UpdatedStays ==
    ASSUME NEW c, CanvasInv(c)
    PROVE  /\ CanvasInv(Updated(c)) /\ Updated(c).level = c.level
           /\ Updated(c).line = Updated(c).base
<1> DEFINE b == ScaleOverlayElements(c)
           e == RepositionTooltipIfVisible(b)
<1>1. CanvasInv(b) /\ b.level = c.level
  BY SmallSteps DEF Goes
<1>2. b.line = b.base
  BY DEF ScaleOverlayElements, CanvasInv, Fields
<1> HIDE DEF b
<1>3. CanvasInv(e) /\ e.level = b.level
  BY <1>1, SmallSteps DEF Goes
<1>4. e.line = e.base
  BY <1>1, <1>2 DEF RepositionTooltipIfVisible, HideTooltip, CanvasInv, Fields
<1>5. Updated(c) = ReconcilePendingDropAfterPatch(e)
  BY DEF Updated, b
<1> HIDE DEF e
<1> QED
  BY <1>1, <1>3, <1>4, <1>5, ReconciledStays

LEMMA UnlockedStays ==
    ASSUME NEW c, CanvasInv(c)
    PROVE  /\ CanvasInv(Unlocked(c)) /\ Unlocked(c).level = c.level
           /\ \/ Unlocked(c).pending = c.pending
              \/ Unlocked(c).line = Unlocked(c).base
<1> DEFINE b == [c EXCEPT !.staged = FALSE]
<1>1. CanvasInv(b) /\ b.level = c.level
  BY SmallSteps DEF Goes
<1> HIDE DEF b
<1>2. Unlocked(c) = c \/ Unlocked(c) = Updated(b)
  BY DEF Unlocked, b
<1> QED
  BY <1>1, <1>2, UpdatedStays

LEMMA PatchedStays ==
    ASSUME NEW c, CanvasInv(c), NEW p, DOMAIN p.streamed \subseteq Stops
    PROVE  /\ CanvasInv(Patched(c, p)) /\ Patched(c, p).level = p.level
           /\ Patched(c, p).line = Patched(c, p).base
           /\ p.reset => \A s \in DOMAIN Patched(c, p).offset : Patched(c, p).offset[s] = 0
<1> DEFINE zero == [s \in DOMAIN p.streamed |-> 0]
           b == Streamed(c, p)
           e == [b EXCEPT !.mode = p.mode, !.measuring = p.measuring,
                          !.level = p.level, !.drawer = p.drawer]
           o == ScaleOverlayElements(e)
<1>1. /\ Fields \subseteq DOMAIN b /\ SameView(c, b) /\ b.sent = c.sent
      /\ b.at = IF p.reset THEN p.streamed ELSE Over(p.streamed, c.at)
      /\ b.offset = IF p.reset THEN zero ELSE Over(zero, c.offset)
      /\ b.candidate = c.candidate /\ b.dragging = c.dragging /\ b.pending = c.pending
  BY DEF Streamed, CanvasInv, Fields, SameView
<1> HIDE DEF b
<1>2. /\ Fields \subseteq DOMAIN e /\ SamePlan(b, e) /\ SameView(b, e) /\ e.sent = b.sent
      /\ e.level = p.level
  BY <1>1 DEF Fields, SamePlan, SameView
<1> HIDE DEF e
<1>3. /\ DOMAIN b.at \subseteq Stops
      /\ DOMAIN b.offset \subseteq Stops
      /\ \A s \in DOMAIN b.offset :
            \/ b.offset[s] = 0
            \/ ~p.reset /\ s \in DOMAIN c.offset /\ b.offset[s] = c.offset[s]
  <2>1. DOMAIN zero \subseteq Stops /\ \A s \in DOMAIN zero : zero[s] = 0
    OBVIOUS
  <2> HIDE DEF zero
  <2>2. CASE p.reset
    BY <1>1, <2>1, <2>2
  <2>3. CASE ~p.reset
    <3>1. DOMAIN c.at \subseteq Stops /\ DOMAIN c.offset \subseteq Stops
      BY DEF CanvasInv, PlanInv
    <3> QED
      BY <1>1, <2>1, <2>3, <3>1 DEF Over
  <2> QED
    BY <2>2, <2>3
<1>4. PlanInv(b)
  BY <1>1, <1>3 DEF CanvasInv, PlanInv
<1>5. CanvasInv(e)
  BY <1>1, <1>2, <1>4, PlanStays, ViewStays DEF CanvasInv
<1>6. CanvasInv(o) /\ o.level = e.level
  BY <1>5, SmallSteps DEF Goes
<1>7. o.line = o.base /\ o.offset = e.offset
  BY <1>2 DEF ScaleOverlayElements, Fields
<1>8. p.reset => \A s \in DOMAIN b.offset : b.offset[s] = 0
  BY <1>3
<1>9. Patched(c, p) = o
  BY DEF Patched, e, b
<1> QED
  BY <1>2, <1>6, <1>7, <1>8, <1>9 DEF SamePlan

-----------------------------------------------------------------------------
(* The levels along the answers: what comes before a change of level is a  *)
(* patch that streams the whole page again.                                *)

Carries(q, i) == i \in {0, Len(q) + 1} \/ q[i].patch.diff
Resets(q, i) == i \in 1 .. Len(q) /\ q[i].patch.diff /\ q[i].patch.reset
LevelAt(q, first, last, i) ==
    IF i = 0 THEN first ELSE IF i = Len(q) + 1 THEN last ELSE q[i].patch.level

Chain(q, first, last) ==
    \A i, j \in 0 .. Len(q) + 1 :
       /\ i < j /\ Carries(q, i) /\ Carries(q, j)
       /\ \A k \in i + 1 .. j : ~Resets(q, k)
       => LevelAt(q, first, last, i) = LevelAt(q, first, last, j)

LEMMA ToldGrows ==
    ASSUME NEW q, Told(q), NEW m, Tells(m.patch)
    PROVE  Told(Append(q, m))
<1>1. PICK S : q \in Seq(S) /\ \A n \in S : Tells(n.patch)
  BY DEF Told
<1> DEFINE U == S \cup {m}
<1>2. q \in Seq(U) /\ m \in U /\ \A n \in U : Tells(n.patch)
  BY <1>1
<1> HIDE DEF U
<1>3. Append(q, m) \in Seq(U)
  BY <1>2
<1> QED
  BY <1>2, <1>3 DEF Told

LEMMA ToldHead ==
    ASSUME NEW q, Told(q), q # <<>>
    PROVE  Tells(Head(q).patch) /\ Told(Tail(q))
<1>1. PICK S : q \in Seq(S) /\ \A n \in S : Tells(n.patch)
  BY DEF Told
<1>2. Head(q) \in S /\ Tail(q) \in Seq(S)
  BY <1>1
<1> QED
  BY <1>1, <1>2 DEF Told

LEMMA NothingTold == Told(<<>>)
<1> DEFINE S == {m \in {None} : Tells(m.patch)}
<1>1. <<>> \in Seq(S) /\ \A m \in S : Tells(m.patch)
  OBVIOUS
<1> HIDE DEF S
<1> QED
  BY <1>1 DEF Told

LEMMA AppendIndexes ==
    ASSUME NEW q, Told(q), NEW m
    PROVE  /\ Len(q) \in Nat /\ Len(Append(q, m)) = Len(q) + 1
           /\ \A i \in 1 .. Len(q) : Append(q, m)[i] = q[i]
           /\ Append(q, m)[Len(q) + 1] = m
<1>1. PICK S : q \in Seq(S)
  BY DEF Told
<1> DEFINE U == S \cup {m}
<1>2. q \in Seq(U) /\ m \in U
  BY <1>1
<1> HIDE DEF U
<1> QED
  BY <1>2

LEMMA TailIndexes ==
    ASSUME NEW q, Told(q), q # <<>>
    PROVE  /\ Len(q) \in Nat \ {0} /\ Len(Tail(q)) = Len(q) - 1
           /\ \A i \in 1 .. Len(q) - 1 : Tail(q)[i] = q[i + 1]
           /\ Head(q) = q[1]
<1>1. PICK S : q \in Seq(S)
  BY DEF Told
<1> QED
  BY <1>1

LEMMA ChainGrows ==
    ASSUME NEW q, Told(q), NEW f, NEW l, NEW l2, Chain(q, f, l), NEW m,
           IF m.patch.diff THEN m.patch.level = l2 /\ (m.patch.reset \/ l2 = l) ELSE l2 = l
    PROVE  Chain(Append(q, m), f, l2)
<1> DEFINE r == Append(q, m)
           n == Len(q)
<1>1. /\ n \in Nat /\ Len(r) = n + 1 /\ r[n + 1] = m
      /\ \A i \in 1 .. n : r[i] = q[i]
  BY AppendIndexes
<1> HIDE DEF r, n
<1> SUFFICES ASSUME NEW i \in 0 .. Len(r) + 1, NEW j \in 0 .. Len(r) + 1, i < j,
                    Carries(r, i), Carries(r, j), \A k \in i + 1 .. j : ~Resets(r, k)
             PROVE  LevelAt(r, f, l2, i) = LevelAt(r, f, l2, j)
  BY DEF Chain, r
<1>2. \A k \in 1 .. n : Resets(r, k) <=> Resets(q, k)
  BY <1>1 DEF Resets, n
<1>3. \A k \in 0 .. n : Carries(r, k) <=> Carries(q, k)
  BY <1>1 DEF Carries, n
<1>4. \A k \in 0 .. n : LevelAt(r, f, l2, k) = LevelAt(q, f, l, k)
  BY <1>1 DEF LevelAt, n
<1>5. ASSUME i \in 0 .. n, NEW t \in {j, n + 1}, i < t, t <= n + 1, t <= j, Carries(q, t),
             \A k \in i + 1 .. t : ~Resets(q, k)
      PROVE  LevelAt(r, f, l2, i) = LevelAt(q, f, l, t)
  <2>1. t \in 0 .. n + 1 /\ i \in 0 .. n + 1
    BY <1>1, <1>5
  <2>2. LevelAt(q, f, l, i) = LevelAt(q, f, l, t)
    BY <1>1, <1>3, <1>5, <2>1 DEF Chain, n
  <2> QED
    BY <1>4, <1>5, <2>2
<1>6. CASE j <= n
  <2>1. i \in 0 .. n /\ j \in 0 .. n /\ Carries(q, j)
    BY <1>1, <1>3, <1>6
  <2>2. \A k \in i + 1 .. j : ~Resets(q, k)
    BY <1>1, <1>2, <1>6
  <2>3. LevelAt(r, f, l2, i) = LevelAt(q, f, l, j)
    BY <1>1, <1>5, <1>6, <2>1, <2>2
  <2> QED
    BY <1>4, <2>1, <2>3
<1>7. CASE j > n
  <2>1. Resets(r, n + 1) <=> m.patch.diff /\ m.patch.reset
    BY <1>1 DEF Resets
  <2>2. CASE i <= n
    <3>1. ~(m.patch.diff /\ m.patch.reset)
      BY <1>1, <1>7, <2>1, <2>2
    <3>2. l2 = l
      BY <3>1
    <3>3. ~Resets(q, n + 1)
      BY <1>1 DEF Resets, n
    <3>4. \A k \in i + 1 .. n + 1 : ~Resets(q, k)
      BY <1>1, <1>2, <1>7, <2>2, <3>3
    <3>5. Carries(q, n + 1) /\ LevelAt(q, f, l, n + 1) = l
      BY <1>1 DEF Carries, LevelAt, n
    <3>6. LevelAt(r, f, l2, i) = l
      BY <1>1, <1>5, <1>7, <2>2, <3>4, <3>5
    <3>7. LevelAt(r, f, l2, j) = l2
      <4>1. CASE j = n + 2
        BY <1>1, <4>1 DEF LevelAt
      <4>2. CASE j = n + 1
        <5>1. m.patch.diff
          BY <1>1, <4>2 DEF Carries
        <5> QED
          BY <1>1, <4>2, <5>1 DEF LevelAt
      <4> QED
        BY <1>1, <1>7, <4>1, <4>2
    <3> QED
      BY <3>2, <3>6, <3>7
  <2>3. CASE i > n
    <3>1. i = n + 1 /\ j = n + 2
      BY <1>1, <2>3
    <3>2. m.patch.diff
      BY <1>1, <3>1 DEF Carries
    <3> QED
      BY <1>1, <3>1, <3>2 DEF LevelAt
  <2> QED
    BY <1>1, <2>2, <2>3
<1> QED
  BY <1>1, <1>6, <1>7

LEMMA ChainShrinks ==
    ASSUME NEW q, Told(q), q # <<>>, NEW f, NEW l, NEW f2, Chain(q, f, l),
           f2 = IF Head(q).patch.diff THEN Head(q).patch.level ELSE f
    PROVE  Chain(Tail(q), f2, l)
<1> DEFINE r == Tail(q)
           n == Len(q)
           first == IF q[1].patch.diff THEN 1 ELSE 0
           Old(i) == IF i = 0 THEN first ELSE i + 1
<1>1. /\ n \in Nat \ {0} /\ Len(r) = n - 1 /\ Head(q) = q[1]
      /\ \A i \in 1 .. n - 1 : r[i] = q[i + 1]
  BY TailIndexes
<1> HIDE DEF r, n
<1> SUFFICES ASSUME NEW i \in 0 .. Len(r) + 1, NEW j \in 0 .. Len(r) + 1, i < j,
                    Carries(r, i), Carries(r, j), \A k \in i + 1 .. j : ~Resets(r, k)
             PROVE  LevelAt(r, f2, l, i) = LevelAt(r, f2, l, j)
  BY DEF Chain, r
<1>2. \A k \in 1 .. n : Resets(r, k) <=> Resets(q, k + 1)
  BY <1>1 DEF Resets, n
<1>3. \A k \in 1 .. n : (Carries(r, k) <=> Carries(q, k + 1))
                        /\ LevelAt(r, f2, l, k) = LevelAt(q, f, l, k + 1)
  <2> SUFFICES ASSUME NEW k \in 1 .. n
               PROVE  (Carries(r, k) <=> Carries(q, k + 1))
                      /\ LevelAt(r, f2, l, k) = LevelAt(q, f, l, k + 1)
    OBVIOUS
  <2>1. CASE k = n
    BY <1>1, <2>1 DEF Carries, LevelAt, n
  <2>2. CASE k # n
    <3>1. k \in 1 .. n - 1
      BY <1>1, <2>2
    <3> QED
      BY <1>1, <3>1 DEF Carries, LevelAt, n
  <2> QED
    BY <2>1, <2>2
<1>4. Carries(q, first) /\ LevelAt(q, f, l, first) = f2 /\ LevelAt(r, f2, l, 0) = f2
  BY <1>1 DEF Carries, LevelAt, n
<1>5. first = 0 => ~Resets(q, 1)
  BY DEF Resets
<1>6. /\ first \in {0, 1} /\ Old(i) \in 0 .. n + 1 /\ Old(j) = j + 1 /\ j + 1 \in 0 .. n + 1
      /\ Old(i) < j + 1
  BY <1>1
<1>7. LevelAt(r, f2, l, i) = LevelAt(q, f, l, Old(i)) /\ Carries(q, Old(i))
  BY <1>1, <1>3, <1>4
<1>8. LevelAt(r, f2, l, j) = LevelAt(q, f, l, j + 1) /\ Carries(q, j + 1)
  BY <1>1, <1>3
<1>9. ASSUME NEW k \in Old(i) + 1 .. j + 1
      PROVE  ~Resets(q, k)
  <2>1. CASE k = 1
    BY <1>1, <1>5, <1>6, <1>9, <2>1
  <2>2. CASE k # 1
    <3>1. k - 1 \in i + 1 .. j /\ k - 1 \in 1 .. n /\ (k - 1) + 1 = k
      BY <1>1, <1>6, <1>9, <2>2
    <3> QED
      BY <1>2, <3>1
  <2> QED
    BY <2>1, <2>2
<1> HIDE DEF Old, first
<1>10. LevelAt(q, f, l, Old(i)) = LevelAt(q, f, l, j + 1)
  BY <1>1, <1>6, <1>7, <1>8, <1>9 DEF Chain, n
<1> QED
  BY <1>7, <1>8, <1>10

LEMMA ChainHead ==
    ASSUME NEW q, Told(q), q # <<>>, NEW f, NEW l, Chain(q, f, l),
           Head(q).patch.diff, ~Head(q).patch.reset
    PROVE  Head(q).patch.level = f
<1>1. Len(q) \in Nat \ {0} /\ Head(q) = q[1]
  BY TailIndexes
<1>2. 0 \in 0 .. Len(q) + 1 /\ 1 \in 0 .. Len(q) + 1
  BY <1>1
<1>3. Carries(q, 0) /\ Carries(q, 1)
  BY <1>1 DEF Carries
<1>4. \A k \in 0 + 1 .. 1 : ~Resets(q, k)
  BY <1>1 DEF Resets
<1>5. LevelAt(q, f, l, 0) = LevelAt(q, f, l, 1)
  BY <1>1, <1>2, <1>3, <1>4 DEF Chain
<1> QED
  BY <1>1, <1>5 DEF LevelAt

LEMMA ChainStarts ==
    ASSUME NEW l
    PROVE  Chain(<<>>, l, l)
BY DEF Chain, LevelAt

-----------------------------------------------------------------------------
(* The answers of the process.                                             *)

ActiveInv(v) == {"active", "flash"} \subseteq DOMAIN v /\ v.active \in Stops \cup {None}

InSilence(v, stop, x) ==
    \/ v.flash
    \/ stop \in DOMAIN v.list /\ v.list[stop].at = x

\* What an answer without a change of the page means for a drop.
Quiet(v) ==
    /\ v.list = srv.list /\ (srv.flash => v.flash)
    /\ Head(up).type = "drag_end" => InSilence(v, Head(up).arg, Head(up).x)

\* The level of an answer is that of the process, and a new one is streamed whole.
Says(v, a) ==
    /\ Tells(a)
    /\ IF a.diff THEN a.level = v.level /\ (a.reset \/ v.level = srv.level)
       ELSE v.level = srv.level /\ Quiet(v)

LEMMA RenderedSays ==
    ASSUME NEW v, NEW streamed, DOMAIN streamed \subseteq Stops, NEW lines, NEW center
    PROVE  /\ Says(v, Rendered(v, streamed, TRUE, lines, center))
           /\ v.level = srv.level => Says(v, Rendered(v, streamed, FALSE, lines, center))
BY DEF Says, Tells, Rendered

LEMMA SilenceSays ==
    ASSUME NEW v, v.level = srv.level, Quiet(v)
    PROVE  Says(v, NoDiff)
BY DEF Says, Tells, NoDiff

LEMMA UnchangedIsQuiet ==
    ASSUME NEW v, v.list = srv.list, v.flash = srv.flash, Head(up).type # "drag_end"
    PROVE  Quiet(v)
BY DEF Quiet

LEMMA StreamedPoints ==
    /\ DOMAIN Nothing \subseteq Stops
    /\ \A s \in Stops : \A at : DOMAIN Alone(s, at) \subseteq Stops
    /\ \A list : DOMAIN PlacesOf(list) = DOMAIN list
BY DEF Nothing, Alone, PlacesOf

LEMMA DragStartSays ==
    ASSUME SrvFields \subseteq DOMAIN srv, ActiveInv(srv), NEW stop
    PROVE  /\ ActiveInv(DragStart(srv, stop)) /\ DragStart(srv, stop).level = srv.level
           /\ DragStart(srv, stop).list = srv.list /\ DragStart(srv, stop).flash = srv.flash
BY DEF SrvFields, ActiveInv, DragStart

LEMMA DropSays ==
    ASSUME DragInv, ActiveInv(srv), HandleDragEnd
    PROVE  \E v, a : Handled(v, a) /\ ActiveInv(v) /\ Says(v, a)
<1> DEFINE stop == Head(up).arg
           x == Head(up).x
           moved == MoveChildStop(stop, x)
           saved == [Forgotten(srv) EXCEPT
                       !.list[stop] = moved[stop],
                       !.paths = PlacesOf([s \in OnLevel(srv.level) |-> moved[s]])]
           failed == OpenEditSidebar(Forgotten(srv), stop)
           rejected == [Forgotten(srv) EXCEPT !.flash = TRUE]
<1>1. SrvFields \subseteq DOMAIN srv /\ DOMAIN srv.list \subseteq Stops
  BY DEF DragInv, LoadedInv
<1>2. CASE RejectDrag
  <2>1. /\ ActiveInv(rejected) /\ rejected.level = srv.level
        /\ rejected.list = srv.list /\ rejected.flash = TRUE
    BY <1>1 DEF ActiveInv, SrvFields, Forgotten
  <2>5. Quiet(rejected)
    BY <2>1 DEF Quiet, InSilence
  <2> HIDE DEF rejected
  <2>2. Says(rejected, NoDiff) /\ Says(rejected, Rendered(rejected, Nothing, FALSE, Nothing, None))
    BY <2>1, <2>5, RenderedSays, SilenceSays, StreamedPoints
  <2>3. \/ Handled(rejected, NoDiff)
        \/ Handled(rejected, Rendered(srv, Nothing, FALSE, Nothing, None))
    BY <1>2 DEF RejectDrag, rejected
  <2>4. Says(rejected, Rendered(srv, Nothing, FALSE, Nothing, None))
    BY <2>1, StreamedPoints DEF Says, Tells, Rendered
  <2> QED
    BY <2>1, <2>2, <2>3, <2>4
<1>3. CASE stop \in DOMAIN srv.list /\ srv.list[stop].at = x /\ Handled(Forgotten(srv), NoDiff)
  <2>1. /\ ActiveInv(Forgotten(srv)) /\ Forgotten(srv).level = srv.level
        /\ Forgotten(srv).list = srv.list /\ Forgotten(srv).flash = srv.flash
    BY <1>1 DEF ActiveInv, SrvFields, Forgotten
  <2>2. Quiet(Forgotten(srv))
    BY <1>3, <2>1 DEF Quiet, InSilence
  <2> QED
    BY <1>3, <2>1, <2>2, SilenceSays
<1>4. CASE /\ stop \in DOMAIN srv.list
           /\ Handled(failed, Rendered(failed, Alone(stop, srv.list[stop].at), FALSE,
                                       Nothing, None))
  <2>1. stop \in Stops
    BY <1>1, <1>4
  <2>2. ActiveInv(failed) /\ failed.level = srv.level
    BY <1>1, <2>1 DEF ActiveInv, SrvFields, Forgotten, OpenEditSidebar
  <2>3. DOMAIN Alone(stop, srv.list[stop].at) \subseteq Stops
    BY <2>1, StreamedPoints
  <2> HIDE DEF failed
  <2>4. Says(failed, Rendered(failed, Alone(stop, srv.list[stop].at), FALSE, Nothing, None))
    BY <2>2, <2>3, RenderedSays
  <2> QED
    BY <1>4, <2>2, <2>4
<1>5. CASE /\ stop \in DOMAIN srv.list
           /\ Handled(saved, Rendered(saved, Alone(stop, x), FALSE, saved.paths, None))
  <2>1. stop \in Stops
    BY <1>1, <1>5
  <2>2. ActiveInv(saved) /\ saved.level = srv.level
    BY <1>1 DEF ActiveInv, SrvFields, Forgotten
  <2>3. DOMAIN Alone(stop, x) \subseteq Stops
    BY <2>1, StreamedPoints
  <2> HIDE DEF saved
  <2>4. Says(saved, Rendered(saved, Alone(stop, x), FALSE, saved.paths, None))
    BY <2>2, <2>3, RenderedSays
  <2> QED
    BY <1>5, <2>2, <2>4
<1> QED
  BY <1>2, <1>3, <1>4, <1>5 DEF HandleDragEnd

LEMMA ServerSays ==
    ASSUME DragInv, ActiveInv(srv), Asked(up), Server
    PROVE  \E v, a : Handled(v, a) /\ ActiveInv(v) /\ Says(v, a)
<1>1. SrvFields \subseteq DOMAIN srv /\ LoadedInv(srv, db)
  BY DEF DragInv, LoadedInv
<1>2. CASE HandleDragEnd
  BY <1>2, DropSays
<1>3. CASE HandleDragStart
  <2>1. Handled(DragStart(srv, Head(up).arg), NoDiff)
    BY <1>3 DEF HandleDragStart
  <2>2. Head(up).type # "drag_end"
    BY <1>3 DEF HandleDragStart, Handles
  <2> QED
    BY <1>1, <2>1, <2>2, DragStartSays, SilenceSays, UnchangedIsQuiet
<1>4. CASE HandleDragCancel
  <2>1. /\ ActiveInv(Forgotten(srv)) /\ Forgotten(srv).level = srv.level
        /\ Forgotten(srv).list = srv.list /\ Forgotten(srv).flash = srv.flash
    BY <1>1 DEF ActiveInv, SrvFields, Forgotten
  <2>2. Head(up).type # "drag_end"
    BY <1>4 DEF HandleDragCancel, Handles
  <2> QED
    BY <1>4, <2>1, <2>2, SilenceSays, UnchangedIsQuiet DEF HandleDragCancel
<1>5. CASE HandleCancelPlacement
  <2> DEFINE v == Closed(srv)
             again == IF srv.active = None THEN Nothing
                      ELSE Alone(srv.active, db[srv.active].at)
  <2>1. ActiveInv(v) /\ v.level = srv.level
    BY <1>1 DEF ActiveInv, SrvFields, Closed
  <2>2. DOMAIN again \subseteq Stops
    BY StreamedPoints DEF ActiveInv
  <2>3. Handled(v, Rendered(v, again, FALSE, Nothing, None))
    BY <1>5 DEF HandleCancelPlacement
  <2> HIDE DEF v, again
  <2> QED
    BY <2>1, <2>2, <2>3, RenderedSays
<1>6. CASE HandleStopClicked
  <2> DEFINE stop == Head(up).arg
             open == OpenEditSidebar(srv, stop)
  <2>1. stop \in Stops
    BY <1>6, AskedHead DEF HandleStopClicked, Handles, Asks
  <2>2. ActiveInv(open) /\ open.level = srv.level
    BY <1>1, <2>1 DEF ActiveInv, SrvFields, OpenEditSidebar
  <2>3. DOMAIN Alone(stop, db[stop].at) \subseteq Stops
    BY <2>1, StreamedPoints
  <2>4. \/ Handled(srv, NoDiff)
        \/ Handled(open, Rendered(open, Alone(stop, db[stop].at), FALSE, Nothing, None))
    BY <1>6 DEF HandleStopClicked
  <2>5. Quiet(srv)
    BY <1>6, UnchangedIsQuiet DEF HandleStopClicked, Handles
  <2> HIDE DEF open, stop
  <2> QED
    BY <2>2, <2>3, <2>4, <2>5, RenderedSays, SilenceSays
<1>7. CASE HandleCanvasClicked
  <2> DEFINE placed == IF srv.mode = "add" THEN [srv EXCEPT !.drawer = TRUE] ELSE srv
  <2>1. /\ ActiveInv(placed) /\ placed.level = srv.level
        /\ placed.list = srv.list /\ placed.flash = srv.flash
    BY <1>1 DEF ActiveInv, SrvFields
  <2>2. \/ Handled(placed, NoDiff)
        \/ Handled(placed, Rendered(placed, Nothing, FALSE, Nothing, None))
    BY <1>7 DEF HandleCanvasClicked
  <2>3. Head(up).type # "drag_end"
    BY <1>7 DEF HandleCanvasClicked, Handles
  <2> HIDE DEF placed
  <2> QED
    BY <2>1, <2>2, <2>3, StreamedPoints, RenderedSays, SilenceSays, UnchangedIsQuiet
<1>8. CASE HandleToggleMeasurement
  <2> DEFINE toggled == [srv EXCEPT !.measuring = ~@]
  <2>1. ActiveInv(toggled) /\ toggled.level = srv.level
    BY <1>1 DEF ActiveInv, SrvFields
  <2>2. \/ Handled(srv, NoDiff)
        \/ Handled(toggled, Rendered(toggled, Nothing, FALSE, Nothing, None))
    BY <1>8 DEF HandleToggleMeasurement
  <2>3. Quiet(srv)
    BY <1>8, UnchangedIsQuiet DEF HandleToggleMeasurement, Handles
  <2> HIDE DEF toggled
  <2> QED
    BY <2>1, <2>2, <2>3, StreamedPoints, RenderedSays, SilenceSays
<1>9. CASE HandleSwitchMode
  <2> DEFINE s == SwitchMode(srv, Head(up).arg)
  <2>1. ActiveInv(s)
    BY <1>1 DEF ActiveInv, SrvFields, SwitchMode, Closed
  <2>2. LoadedInv(s, db)
    BY <1>1, OtherFields
  <2>3. Handled(s, Rendered(s, PlacesOf(s.list), TRUE, s.paths, None))
    BY <1>9 DEF HandleSwitchMode
  <2> HIDE DEF s
  <2>4. DOMAIN PlacesOf(s.list) \subseteq Stops
    BY <2>2, StreamedPoints DEF LoadedInv
  <2> QED
    BY <2>1, <2>3, <2>4, RenderedSays
<1>10. CASE HandleSwitchLevel
  <2> DEFINE loaded == LoadLevelData(srv, Head(up).arg)
             s == [loaded EXCEPT !.drawer = FALSE]
  <2>1. LoadedInv(loaded, db) /\ ActiveInv(loaded)
    BY <1>1, LevelLoads DEF DragInv, ActiveInv, SrvFields, LoadLevelData
  <2> HIDE DEF loaded
  <2>2. LoadedInv(s, db)
    BY <2>1, OtherFields
  <2>3. ActiveInv(s)
    BY <2>1 DEF ActiveInv
  <2>4. Handled(s, Rendered(s, PlacesOf(s.list), TRUE, s.paths, None))
    BY <1>10 DEF HandleSwitchLevel, loaded
  <2> HIDE DEF s
  <2>5. DOMAIN PlacesOf(s.list) \subseteq Stops
    BY <2>2, StreamedPoints DEF LoadedInv
  <2> QED
    BY <2>3, <2>4, <2>5, RenderedSays
<1>11. CASE HandleSearchStop
  <2> DEFINE stop == Head(up).arg
             other == LevelOf[stop] # srv.level
             loaded == IF other THEN LoadLevelData(srv, LevelOf[stop]) ELSE srv
             s == OpenEditSidebar(loaded, stop)
  <2>1. stop \in Stops
    BY <1>11, AskedHead DEF HandleSearchStop, Handles, Asks
  <2>2. /\ LoadedInv(loaded, db)
        /\ ~other => loaded.level = srv.level
    BY <1>1, LevelLoads DEF DragInv
  <2>3. ActiveInv(loaded)
    BY <1>1 DEF ActiveInv, SrvFields, LoadLevelData
  <2>4. \/ Handled(s, Rendered(s, PlacesOf(s.list), TRUE, s.paths, stop))
        \/ /\ ~other
           /\ Handled(s, Rendered(s, Alone(stop, db[stop].at), FALSE, Nothing, stop))
    BY <1>11 DEF HandleSearchStop
  <2> HIDE DEF loaded, stop, other
  <2>5. ActiveInv(s) /\ s.level = loaded.level
    BY <2>1, <2>2, <2>3 DEF ActiveInv, SrvFields, OpenEditSidebar, LoadedInv
  <2>6. LoadedInv(s, db)
    BY <2>2, OtherFields
  <2> HIDE DEF s
  <2>7. DOMAIN PlacesOf(s.list) \subseteq Stops /\ DOMAIN Alone(stop, db[stop].at) \subseteq Stops
    BY <2>1, <2>6, StreamedPoints DEF LoadedInv
  <2>8. /\ Says(s, Rendered(s, PlacesOf(s.list), TRUE, s.paths, stop))
        /\ ~other => Says(s, Rendered(s, Alone(stop, db[stop].at), FALSE, Nothing, stop))
    BY <2>2, <2>5, <2>7, RenderedSays
  <2> QED
    BY <2>4, <2>5, <2>8
<1> QED
  BY <1>2, <1>3, <1>4, <1>5, <1>6, <1>7, <1>8, <1>9, <1>10, <1>11 DEF Server

-----------------------------------------------------------------------------
(* The steps of the page.                                                  *)

DiagramInv ==
    /\ DragInv /\ ActiveInv(srv)
    /\ CanvasInv(canvas) /\ canvas.sent = <<>>
    /\ Asked(up) /\ Told(down)
    /\ Chain(down, canvas.level, srv.level)

\* The events of a handler go out.
LEMMA SendsOff ==
    ASSUME NEW c, CanvasInv(c), Asked(up), Do(c)
    PROVE  /\ CanvasInv(canvas') /\ canvas'.sent = <<>> /\ Asked(up')
           /\ canvas'.level = c.level /\ canvas'.pending = c.pending
           /\ canvas'.line = c.line /\ canvas'.base = c.base
<1> DEFINE o == [c EXCEPT !.sent = <<>>]
<1>1. /\ Fields \subseteq DOMAIN o /\ SamePlan(c, o) /\ SameView(c, o)
      /\ o.level = c.level /\ o.sent = <<>> /\ o.line = c.line /\ o.base = c.base
  BY DEF CanvasInv, Fields, SamePlan, SameView
<1>2. canvas' = o /\ up' = up \o c.sent
  BY DEF Do
<1> HIDE DEF o
<1>3. CanvasInv(o)
  BY <1>1, PlanStays, ViewStays, NothingAsked DEF CanvasInv
<1>4. Asked(up \o c.sent)
  <2>1. Asked(c.sent)
    BY DEF CanvasInv
  <2>2. PICK S : up \in Seq(S) /\ \A n \in S : Asks(n)
    BY DEF Asked
  <2>3. PICK R : c.sent \in Seq(R) /\ \A n \in R : Asks(n)
    BY <2>1 DEF Asked
  <2> DEFINE U == S \cup R
  <2>4. up \in Seq(U) /\ c.sent \in Seq(U) /\ \A n \in U : Asks(n)
    BY <2>2, <2>3
  <2> HIDE DEF U
  <2>5. up \o c.sent \in Seq(U)
    BY <2>4
  <2> QED
    BY <2>4, <2>5 DEF Asked
<1> QED
  BY <1>1, <1>2, <1>3, <1>4 DEF SamePlan

LEMMA OperatorGoes ==
    ASSUME CanvasInv(canvas), Operator \/ ImageEnds
    PROVE  \E c : Goes(canvas, c) /\ Do(c)
<1>1. DOMAIN canvas.at \subseteq Stops
  BY DEF CanvasInv, PlanInv
<1>2. CASE PressPoint
  <2>1. PICK x \in Places : \E s \in PointAtPointer(canvas, x) :
           Do(HandleOverlayPointerDown(canvas, s, x))
    BY <1>2 DEF PressPoint
  <2>2. PICK s \in DOMAIN canvas.at : Do(HandleOverlayPointerDown(canvas, s, x))
    BY <2>1 DEF PointAtPointer
  <2> QED
    BY <2>2, PointerDownGoes
<1>3. CASE PressPlan
  BY <1>3, GoesNowhere DEF PressPlan
<1>4. CASE HoldElapses
  BY <1>4, StartGoes DEF HoldElapses
<1>5. CASE Move
  BY <1>5, MouseMoveGoes DEF Move
<1>6. CASE Release
  <2>1. Goes(canvas, HandleMouseUp(canvas))
    BY MouseUpGoes
  <2>2. Pressed = Canvas \/ Pressed \in Stops
    BY <1>1 DEF Pressed
  <2>3. Goes(HandleMouseUp(canvas), Click(HandleMouseUp(canvas), Pressed))
    BY <2>1, <2>2, ClickGoes DEF Goes
  <2>4. Goes(canvas, Click(HandleMouseUp(canvas), Pressed))
    BY <2>1, <2>3, GoesOn
  <2> QED
    BY <1>6, <2>1, <2>4 DEF Release
<1>7. CASE PressEscape
  BY <1>7, EscapeGoes DEF PressEscape
<1>8. CASE PressEnter
  BY <1>1, <1>8, ClickGoes DEF PressEnter
<1>9. CASE Hover
  BY <1>9, SmallSteps DEF Hover
<1>10. CASE Leave
  BY <1>10, SmallSteps DEF Leave
<1>11. CASE Wheel
  BY <1>11, ViewGoes DEF Wheel
<1>12. CASE PanZoomButton
  BY <1>12, ViewGoes DEF PanZoomButton
<1>13. CASE ClickMode
  BY <1>13, PushGoes DEF ClickMode, Toolbar
<1>14. CASE ClickMeasure
  BY <1>14, PushGoes DEF ClickMeasure, Toolbar
<1>15. CASE ClickLevel
  BY <1>15, PushGoes DEF ClickLevel, Toolbar
<1>16. CASE Search
  BY <1>16, PushGoes DEF Search, Toolbar
<1>17. CASE ImageEnds
  BY <1>17, ViewGoes DEF ImageEnds
<1> QED
  BY <1>2, <1>3, <1>4, <1>5, <1>6, <1>7, <1>8, <1>9, <1>10, <1>11, <1>12, <1>13, <1>14,
     <1>15, <1>16, <1>17 DEF Operator

\* A settled drop is drawn as the server has it, whether the answer changes the
\* page or only undoes the lock.
LEMMA AnswerStep ==
    ASSUME DiagramInv, Answer
    PROVE  /\ CanvasInv(canvas') /\ canvas'.sent = <<>> /\ Asked(up') /\ Told(down')
           /\ Chain(down', canvas'.level, srv.level)
           /\ canvas.pending # NoDrag /\ canvas'.pending = NoDrag
              => canvas'.line = canvas'.base
<1> DEFINE p == Head(down).patch
           c == Unlocked(canvas)
           b == Patched(c, p)
           shown == AfterPatch(b, p)
           o == IF ~p.diff THEN c
                ELSE IF p.center = None THEN shown ELSE CenterOnStop(shown, p.center)
<1>1. down # <<>> /\ down' = Tail(down) /\ Do(o)
  BY DEF Answer
<1>2. Tells(p) /\ Told(Tail(down))
  BY <1>1, ToldHead DEF DiagramInv
<1>3. /\ CanvasInv(c) /\ c.level = canvas.level
      /\ c.pending = canvas.pending \/ c.line = c.base
  BY UnlockedStays DEF DiagramInv
<1>4. CASE ~p.diff
  <2>1. Chain(Tail(down), canvas.level, srv.level)
    BY <1>1, <1>4, ChainShrinks DEF DiagramInv
  <2>2. o = c
    BY <1>4
  <2> HIDE DEF c, o
  <2> QED
    BY <1>1, <1>2, <1>3, <2>1, <2>2, SendsOff DEF DiagramInv
<1>5. CASE p.diff
  <2>1. Chain(Tail(down), p.level, srv.level)
    BY <1>1, <1>5, ChainShrinks DEF DiagramInv
  <2>2. p.level # canvas.level => p.reset
    BY <1>1, <1>5, ChainHead DEF DiagramInv
  <2>3. DOMAIN p.streamed \subseteq Stops
    BY <1>2, <1>5 DEF Tells
  <2> HIDE DEF c, p
  <2>4. /\ CanvasInv(b) /\ b.level = p.level /\ b.line = b.base
        /\ p.reset => \A s \in DOMAIN b.offset : b.offset[s] = 0
    BY <1>3, <2>3, PatchedStays
  <2> HIDE DEF b
  <2>5. CanvasInv(shown) /\ shown.level = p.level /\ shown.line = shown.base
    <3>1. CASE p.level # canvas.level
      BY <2>2, <2>4, <3>1, MountedStays DEF AfterPatch
    <3>2. CASE p.level = canvas.level /\ Unanswered(b.mount)
      <4> DEFINE e == [b EXCEPT !.staged = TRUE]
      <4>1. CanvasInv(e) /\ e.level = b.level
        BY <2>4, SmallSteps DEF Goes
      <4>2. e.line = e.base
        BY <2>4
      <4> QED
        BY <2>4, <3>2, <4>1, <4>2 DEF AfterPatch
    <3>3. CASE p.level = canvas.level /\ ~Unanswered(b.mount)
      BY <2>4, <3>3, UpdatedStays DEF AfterPatch
    <3> QED
      BY <3>1, <3>2, <3>3
  <2> HIDE DEF shown
  <2>6. CanvasInv(o) /\ o.level = p.level /\ o.line = o.base
    BY <1>5, <2>5, CenterGoes DEF Goes
  <2> HIDE DEF o
  <2> QED
    BY <1>1, <1>2, <2>1, <2>6, SendsOff DEF DiagramInv
<1> QED
  BY <1>4, <1>5

LEMMA ServerStep ==
    ASSUME DiagramInv, Server
    PROVE  /\ ActiveInv(srv)' /\ Asked(up') /\ Told(down') /\ canvas' = canvas
           /\ Chain(down', canvas.level, srv'.level)
<1>1. PICK v, a : Handled(v, a) /\ ActiveInv(v) /\ Says(v, a)
  BY ServerSays DEF DiagramInv
<1> DEFINE m == [mount |-> Head(up).mount, patch |-> a]
<1>2. m.patch = a
  OBVIOUS
<1>3. srv' = v /\ down' = Append(down, m) /\ up' = Tail(up) /\ canvas' = canvas
  BY <1>1 DEF Handled
<1> HIDE DEF m
<1>4. up # <<>>
  BY DEF Server, HandleDragStart, HandleDragEnd, HandleDragCancel, HandleCancelPlacement,
         HandleStopClicked, HandleCanvasClicked, HandleToggleMeasurement,
         HandleSwitchMode, HandleSwitchLevel, HandleSearchStop, Handles
<1>5. Asked(Tail(up))
  BY <1>4, AskedHead DEF DiagramInv
<1>6. Told(Append(down, m))
  BY <1>1, <1>2, ToldGrows DEF DiagramInv, Says
<1>7. Chain(Append(down, m), canvas.level, v.level)
  BY <1>1, <1>2, ChainGrows DEF DiagramInv, Says
<1> QED
  BY <1>1, <1>3, <1>5, <1>6, <1>7

LEMMA PageKeepsAnswers ==
    ASSUME Operator \/ ImageEnds
    PROVE  UNCHANGED <<srv, db, down>>
BY DEF Operator, InPage, PressPoint, PressPlan, HoldElapses, Move, Release,
       PressEscape, PressEnter, Hover, Leave, Wheel, PanZoomButton, ClickMode, ClickMeasure,
       ClickLevel, Search, Toolbar, ImageEnds

LEMMA DiagramStep ==
    ASSUME DiagramInv, [Next]_vars
    PROVE  /\ DiagramInv'
           /\ canvas.pending # NoDrag /\ canvas'.pending = NoDrag
              => canvas'.line = canvas'.base
<1>0. DragInv'
  BY DragStep DEF DiagramInv
<1>1. CASE Operator \/ ImageEnds
  <2>1. UNCHANGED <<srv, db, down>>
    BY <1>1, PageKeepsAnswers
  <2>2. PICK c : Goes(canvas, c) /\ Do(c)
    BY <1>1, OperatorGoes DEF DiagramInv
  <2>3. /\ CanvasInv(canvas') /\ canvas'.sent = <<>> /\ Asked(up')
        /\ canvas'.level = canvas.level /\ canvas'.pending = c.pending
    BY <2>2, SendsOff DEF DiagramInv, Goes
  <2>4. canvas.pending # NoDrag => canvas'.pending # NoDrag
    BY <2>2, <2>3 DEF Goes
  <2> QED
    BY <1>0, <2>1, <2>3, <2>4 DEF DiagramInv
<1>2. CASE Answer
  <2>1. srv' = srv
    BY <1>2 DEF Answer
  <2> QED
    BY <1>0, <1>2, <2>1, AnswerStep DEF DiagramInv
<1>3. CASE Server
  BY <1>0, <1>3, ServerStep DEF DiagramInv
<1>4. CASE OtherEditor
  BY <1>0, <1>4 DEF DiagramInv, OtherEditor
<1>5. CASE UNCHANGED vars
  BY <1>0, <1>5 DEF DiagramInv, vars
<1> QED
  BY <1>1, <1>2, <1>3, <1>4, <1>5 DEF Next, Browser

LEMMA DiagramStarts ==
    ASSUME Init
    PROVE  DiagramInv
<1> DEFINE b == [mount |-> 0, candidate |-> NoDrag, dragging |-> NoDrag,
                 pending |-> NoDrag, suppress |-> FALSE, view |-> "home",
                 loading |-> TRUE, center |-> None, wanted |-> None, tip |-> None,
                 staged |-> FALSE, mode |-> "view", measuring |-> FALSE,
                 level |-> First, drawer |-> FALSE,
                 at |-> srv.paths, offset |-> [s \in OnLevel(First) |-> 0],
                 base |-> srv.paths, line |-> srv.paths, sent |-> <<>>]
<1>1. canvas = Mounted(b) /\ up = <<>> /\ down = <<>>
  BY DEF Init
<1>2. srv.paths = [s \in OnLevel(First) |-> At[s]] /\ srv.level = First /\ ActiveInv(srv)
  BY DEF Init, ActiveInv
<1>3. /\ Fields \subseteq DOMAIN b /\ b.level = First /\ b.sent = <<>>
      /\ b.at = srv.paths /\ b.offset = [s \in OnLevel(First) |-> 0]
      /\ b.candidate = NoDrag /\ b.dragging = NoDrag /\ b.pending = NoDrag
      /\ b.wanted = None
  BY DEF Fields
<1> HIDE DEF b
<1>4. \A s \in DOMAIN b.offset : b.offset[s] = 0
  BY <1>3
<1>5. DOMAIN b.at \subseteq Stops /\ DOMAIN b.offset \subseteq Stops
  BY <1>2, <1>3 DEF OnLevel
<1>6. CanvasInv(b)
  BY <1>3, <1>4, <1>5, NoGrip, NothingAsked DEF CanvasInv, PlanInv, ViewInv
<1>7. CanvasInv(canvas) /\ canvas.level = First
  BY <1>1, <1>3, <1>4, <1>6, MountedStays
<1>8. canvas.sent = <<>>
  BY <1>1, <1>3 DEF Mounted, Fields
<1> QED
  BY <1>1, <1>2, <1>7, <1>8, DragInit, NothingAsked, NothingTold, ChainStarts DEF DiagramInv

-----------------------------------------------------------------------------
(* The drop that waits: on its way, about to be patched, or left in silence. *)

In(q) == {q[i] : i \in 1 .. Len(q)}

LEMMA Indexes ==
    ASSUME NEW S, NEW q \in Seq(S), NEW R, NEW r \in Seq(R), NEW m
    PROVE  /\ In(Append(q, m)) = In(q) \cup {m} /\ In(q) \subseteq In(q \o r)
           /\ q # <<>> => /\ In(q) = {Head(q)} \cup In(Tail(q))
                          /\ In(Tail(q)) = {q[i] : i \in 2 .. Len(q)}
<1>1. Len(q) \in Nat /\ Len(r) \in Nat
  OBVIOUS
<1>2. In(Append(q, m)) = In(q) \cup {m}
  <2> DEFINE U == S \cup {m}
             a == Append(q, m)
  <2>1. q \in Seq(U) /\ m \in U
    OBVIOUS
  <2> HIDE DEF U
  <2>2. /\ Len(a) = Len(q) + 1 /\ a[Len(q) + 1] = m
        /\ \A i \in 1 .. Len(q) : a[i] = q[i]
    BY <2>1
  <2> HIDE DEF a
  <2>3. \A i \in 1 .. Len(a) : i \in 1 .. Len(q) \/ i = Len(q) + 1
    BY <1>1, <2>2
  <2>4. \A i \in 1 .. Len(q) : i \in 1 .. Len(a)
    BY <1>1, <2>2
  <2>5. Len(q) + 1 \in 1 .. Len(a)
    BY <1>1, <2>2
  <2>6. In(a) \subseteq In(q) \cup {m}
    BY <2>2, <2>3 DEF In
  <2>7. In(q) \cup {m} \subseteq In(a)
    BY <2>2, <2>4, <2>5 DEF In
  <2> QED
    BY <2>6, <2>7 DEF a
<1>3. In(q) \subseteq In(q \o r)
  <2>1. /\ Len(q \o r) = Len(q) + Len(r)
        /\ \A i \in 1 .. Len(q) : (q \o r)[i] = q[i]
    OBVIOUS
  <2>2. \A i \in 1 .. Len(q) : i \in 1 .. Len(q \o r)
    BY <1>1, <2>1
  <2> QED
    BY <2>1, <2>2 DEF In
<1>4. ASSUME q # <<>>
      PROVE  /\ In(q) = {Head(q)} \cup In(Tail(q))
             /\ In(Tail(q)) = {q[i] : i \in 2 .. Len(q)}
  <2>1. /\ Len(q) >= 1 /\ Head(q) = q[1] /\ Len(Tail(q)) = Len(q) - 1
        /\ \A i \in 1 .. Len(q) - 1 : Tail(q)[i] = q[i + 1]
    BY <1>4
  <2>2. \A i \in 2 .. Len(q) : /\ i - 1 \in 1 .. Len(q) - 1
                               /\ Tail(q)[i - 1] = q[i]
    BY <1>1, <2>1
  <2>3. \A i \in 1 .. Len(q) - 1 : i + 1 \in 2 .. Len(q)
    BY <1>1, <2>1
  <2>4. In(Tail(q)) = {q[i] : i \in 2 .. Len(q)}
    BY <2>1, <2>2, <2>3 DEF In
  <2>5. \A i : i \in 1 .. Len(q) <=> i = 1 \/ i \in 2 .. Len(q)
    BY <1>1, <2>1
  <2> QED
    BY <2>1, <2>4, <2>5 DEF In
<1> QED
  BY <1>2, <1>3, <1>4

IsDrop(m, d) == m.type = "drag_end" /\ m.arg = d.stop /\ m.x = d.at

\* A drop is on its way, its patch is, or it is staged; or there is none.
DropInv ==
    canvas.pending # NoDrag =>
        \/ \E m \in In(up) : IsDrop(m, canvas.pending)
        \/ \E m \in In(down) : m.patch.diff
        \/ canvas.staged
        \/ AnsweredInSilence(canvas.pending)

\* A staged patch waits for an answer to an event of the hook.
StagedInv ==
    canvas.staged => \/ \E m \in In(up) : m.mount = canvas.mount
                     \/ \E m \in In(down) : m.mount = canvas.mount

\* A handler of the operator leaves the drop alone ...
Leaves(c, o) ==
    o.mount = c.mount /\ o.staged = c.staged /\ o.pending = c.pending

\* ... or releases it.
Releases(c, o) ==
    /\ o.mount = c.mount /\ o.staged = c.staged
    /\ \E m \in In(o.sent) : IsDrop(m, o.pending)

LEMMA PushLeaves ==
    ASSUME NEW c, CanvasInv(c), NEW type, NEW arg, NEW x
    PROVE  Leaves(c, Push(c, type, arg, x)) /\ Leaves(c, PushClick(c, type, arg))
BY DEF Push, PushClick, Leaves, CanvasInv, Fields

LEMMA SmallLeave ==
    ASSUME NEW c, CanvasInv(c), NEW s, NEW x, NEW view
    PROVE  /\ Leaves(c, c) /\ Leaves(c, ScaleOverlayElements(c)) /\ Leaves(c, HideTooltip(c))
           /\ Leaves(c, ShowTooltip(c, s)) /\ Leaves(c, RepositionTooltipIfVisible(c))
           /\ Leaves(c, CancelDragHold(c)) /\ Leaves(c, [c EXCEPT !.suppress = FALSE])
           /\ Leaves(c, HandleOverlayPointerDown(c, s, x))
           /\ Leaves(c, MovedTo(c, view)) /\ Leaves(c, ImageLoaded(c))
           /\ Leaves(c, ImageFailed(c)) /\ Leaves(c, CenterOnStop(c, s))
<1>1. {"mount", "staged", "pending"} \subseteq DOMAIN c
  BY DEF CanvasInv, Fields
<1>2. /\ Leaves(c, c) /\ Leaves(c, ScaleOverlayElements(c)) /\ Leaves(c, HideTooltip(c))
      /\ Leaves(c, CancelDragHold(c)) /\ Leaves(c, [c EXCEPT !.suppress = FALSE])
      /\ Leaves(c, ImageFailed(c))
  BY <1>1 DEF Leaves, ScaleOverlayElements, HideTooltip, CancelDragHold, ImageFailed
<1>3. Leaves(c, ShowTooltip(c, s)) /\ Leaves(c, RepositionTooltipIfVisible(c))
  BY <1>1, <1>2 DEF Leaves, ShowTooltip, RepositionTooltipIfVisible
<1>4. Leaves(c, HandleOverlayPointerDown(c, s, x))
  <2> DEFINE g == [NoDrag EXCEPT !.stop = s, !.from = c.at[s], !.press = x, !.at = c.at[s]]
  <2> HIDE DEF g
  <2>1. Leaves(c, [c EXCEPT !.candidate = g])
    BY <1>1 DEF Leaves
  <2> QED
    BY <1>2, <2>1 DEF HandleOverlayPointerDown, g
<1>5. Leaves(c, MovedTo(c, view)) /\ Leaves(c, ImageLoaded(c))
  BY <1>1 DEF Leaves, MovedTo, ImageLoaded, ScaleOverlayElements
<1>6. Leaves(c, CenterOnStop(c, s))
  BY <1>1 DEF Leaves, CenterOnStop, CenterOnPoint
<1> QED
  BY <1>2, <1>3, <1>4, <1>5, <1>6

LEMMA StartLeaves ==
    ASSUME NEW c, CanvasInv(c)
    PROVE  Leaves(c, StartStopDrag(c))
<1> DEFINE d == c.candidate
           g == [d EXCEPT !.line = c.line[d.stop]]
           b == HideTooltip(c)
           e == [b EXCEPT !.dragging = g, !.suppress = TRUE]
           o == Push(e, "drag_start", d.stop, 0)
<1>1. Leaves(c, b) /\ Fields \subseteq DOMAIN b
  BY SmallLeave DEF HideTooltip, CanvasInv
<1> HIDE DEF b, g
<1>2. Leaves(b, e) /\ Fields \subseteq DOMAIN e
  BY <1>1 DEF Leaves, Fields
<1> HIDE DEF e
<1>3. Leaves(e, o) /\ Fields \subseteq DOMAIN o
  BY <1>2 DEF Push, Leaves, Fields
<1> HIDE DEF o
<1>4. Leaves(o, CancelDragHold(o))
  BY <1>3 DEF CancelDragHold, Leaves, Fields
<1>5. StartStopDrag(c) = CancelDragHold(o)
  BY DEF StartStopDrag, o, e, b, g
<1> QED
  BY <1>1, <1>2, <1>3, <1>4, <1>5 DEF Leaves

LEMMA MouseMoveLeaves ==
    ASSUME NEW c, CanvasInv(c), NEW x
    PROVE  Leaves(c, HandleMouseMove(c, x))
<1> DEFINE started == IF c.candidate # NoDrag /\ ~Dragged(c) /\ x # c.candidate.press
                      THEN StartStopDrag(c) ELSE c
<1>1. Leaves(c, started) /\ CanvasInv(started)
  BY StartLeaves, StartGoes, SmallLeave DEF Goes
<1> HIDE DEF started
<1>2. Leaves(started, Follow(started, x))
  <2> DEFINE d == started.dragging
             at == Clamp(d.from + x - d.press)
             line == d.line + at - d.from
             o == [started EXCEPT !.dragging.at = at, !.offset[d.stop] = at - d.from,
                                  !.line[d.stop] = line]
  <2>1. o = Follow(started, x)
    BY DEF Follow
  <2> HIDE DEF at, line
  <2>2. Leaves(started, o)
    BY <1>1 DEF Leaves, CanvasInv, Fields
  <2> QED
    BY <2>1, <2>2
<1> QED
  BY <1>1, <1>2 DEF HandleMouseMove, started, Leaves

LEMMA MouseUpReleases ==
    ASSUME NEW c, CanvasInv(c)
    PROVE  LET o == HandleMouseUp(c)
           IN  IF Dragged(c) THEN Releases(c, o) /\ o.suppress ELSE Leaves(c, o)
<1>1. CASE ~Dragged(c)
  BY <1>1, SmallLeave DEF HandleMouseUp
<1>2. CASE Dragged(c)
  <2> DEFINE d == c.dragging
             m == [type |-> "drag_end", arg |-> d.stop, x |-> d.at, mount |-> c.mount]
             b == [c EXCEPT !.dragging = NoDrag, !.pending = d, !.suppress = TRUE]
             o == [b EXCEPT !.sent = Append(@, m)]
  <2>1. IsDrop(m, d)
    BY DEF IsDrop
  <2>2. /\ Fields \subseteq DOMAIN b /\ b.mount = c.mount /\ b.staged = c.staged
        /\ b.pending = d /\ b.suppress = TRUE /\ b.sent = c.sent
    BY DEF CanvasInv, Fields
  <2>3. HandleMouseUp(c) = o
    BY <1>2, <2>2 DEF HandleMouseUp, Push
  <2> HIDE DEF b, m
  <2>4. /\ o.mount = b.mount /\ o.staged = b.staged /\ o.pending = b.pending
        /\ o.suppress = b.suppress /\ o.sent = Append(c.sent, m)
    BY <2>2 DEF Fields
  <2> HIDE DEF o
  <2>5. m \in In(Append(c.sent, m))
    <3>1. PICK S : c.sent \in Seq(S)
      BY DEF CanvasInv, Asked
    <3> QED
      BY <3>1, Indexes
  <2> QED
    BY <1>2, <2>1, <2>2, <2>3, <2>4, <2>5 DEF Releases
<1> QED
  BY <1>1, <1>2

LEMMA ClickLeaves ==
    ASSUME NEW c, CanvasInv(c), NEW target
    PROVE  /\ Leaves(c, Click(c, target))
           /\ c.suppress => Click(c, target).sent = c.sent
<1>1. Leaves(c, Push(c, "canvas_click", None, 0)) /\ Leaves(c, PushClick(c, "stop_clicked", target))
  BY PushLeaves
<1> QED
  BY <1>1, SmallLeave DEF Click, HandleCanvasClick, CanvasInv, Fields

LEMMA EscapeLeaves ==
    ASSUME NEW c, CanvasInv(c)
    PROVE  Leaves(c, HandleEscape(c))
<1>1. CASE ~Dragged(c)
  BY <1>1, PushLeaves, SmallLeave DEF HandleEscape
<1>2. CASE Dragged(c)
  <2> DEFINE d == c.dragging
             b == CancelDragHold(c)
             o == [b EXCEPT !.dragging = NoDrag, !.suppress = TRUE,
                            !.offset[d.stop] = 0, !.line[d.stop] = d.line]
  <2>1. Leaves(c, b) /\ Fields \subseteq DOMAIN b
    BY SmallLeave, CancelDragHoldGoes DEF Goes, CanvasInv
  <2> HIDE DEF b, d
  <2>2. Leaves(b, o) /\ Fields \subseteq DOMAIN o
    BY <2>1 DEF Leaves, Fields
  <2>3. HandleEscape(c) = Push(o, "drag_cancel", None, 0)
    BY <1>2 DEF HandleEscape, b, d
  <2> HIDE DEF o
  <2>4. Leaves(o, Push(o, "drag_cancel", None, 0))
    BY <2>2 DEF Push, Leaves, Fields
  <2> QED
    BY <2>1, <2>2, <2>3, <2>4 DEF Leaves
<1> QED
  BY <1>1, <1>2

LEMMA OperatorLeaves ==
    ASSUME CanvasInv(canvas), Operator \/ ImageEnds
    PROVE  \E c : Do(c) /\ CanvasInv(c) /\ (Leaves(canvas, c) \/ Releases(canvas, c))
<1>0. DOMAIN canvas.at \subseteq Stops
  BY DEF CanvasInv, PlanInv
<1>1. CASE PressPoint
  <2>1. PICK x \in Places : \E s \in PointAtPointer(canvas, x) :
           Do(HandleOverlayPointerDown(canvas, s, x))
    BY <1>1 DEF PressPoint
  <2>2. PICK s \in DOMAIN canvas.at : Do(HandleOverlayPointerDown(canvas, s, x))
    BY <2>1 DEF PointAtPointer
  <2> QED
    BY <2>2, PointerDownGoes, SmallLeave DEF Goes
<1>2. CASE PressPlan
  BY <1>2, SmallLeave DEF PressPlan
<1>3. CASE HoldElapses
  BY <1>3, StartGoes, StartLeaves DEF HoldElapses, Goes
<1>4. CASE Move
  BY <1>4, MouseMoveGoes, MouseMoveLeaves DEF Move, Goes
<1>5. CASE Release
  <2> DEFINE b == HandleMouseUp(canvas)
             o == Click(b, Pressed)
  <2>1. CanvasInv(b)
    BY MouseUpGoes DEF Goes
  <2>2. IF Dragged(canvas) THEN Releases(canvas, b) /\ b.suppress ELSE Leaves(canvas, b)
    BY MouseUpReleases
  <2>3. Pressed = Canvas \/ Pressed \in Stops
    BY <1>0 DEF Pressed
  <2> HIDE DEF b
  <2>5. CanvasInv(o) /\ Leaves(b, o) /\ (b.suppress => o.sent = b.sent)
    BY <2>1, <2>3, ClickGoes, ClickLeaves DEF Goes
  <2> HIDE DEF o
  <2>6. Leaves(canvas, o) \/ Releases(canvas, o)
    BY <2>2, <2>5 DEF Leaves, Releases
  <2>7. Leaves(canvas, b) \/ Releases(canvas, b)
    BY <2>2
  <2>8. Do(o) \/ Do(b)
    BY <1>5 DEF Release, o, b
  <2> QED
    BY <2>1, <2>5, <2>6, <2>7, <2>8
<1>6. CASE PressEscape
  BY <1>6, EscapeGoes, EscapeLeaves DEF PressEscape, Goes
<1>7. CASE PressEnter
  <2>1. PICK s \in DOMAIN canvas.at : Do(Click(canvas, s))
    BY <1>7 DEF PressEnter
  <2> QED
    BY <1>0, <2>1, ClickGoes, ClickLeaves DEF Goes
<1>8. CASE Hover
  <2>1. PICK s : Do(ShowTooltip(canvas, s))
    BY <1>8 DEF Hover
  <2> QED
    BY <2>1, SmallSteps, SmallLeave DEF Goes
<1>9. CASE Leave
  BY <1>9, SmallSteps, SmallLeave DEF Leave, Goes
<1>10. CASE Wheel \/ PanZoomButton
  <2>1. PICK view : Do(MovedTo(canvas, view))
    BY <1>10 DEF Wheel, PanZoomButton
  <2> QED
    BY <2>1, ViewGoes, SmallLeave DEF Goes
<1>11. CASE ClickMode \/ ClickMeasure \/ ClickLevel \/ Search
  <2>1. PICK type, arg : /\ Do(PushClick(canvas, type, arg))
                         /\ type \in {"stop_clicked", "search_stop"} => arg \in Stops
    BY <1>11 DEF ClickMode, ClickMeasure, ClickLevel, Search, Toolbar
  <2> QED
    BY <2>1, PushGoes, PushLeaves DEF Goes
<1>12. CASE ImageEnds
  BY <1>12, ViewGoes, SmallLeave DEF ImageEnds, Goes
<1> QED
  BY <1>1, <1>2, <1>3, <1>4, <1>5, <1>6, <1>7, <1>8, <1>9, <1>10, <1>11, <1>12 DEF Operator

\* A handler's record keeps what the two invariants read.
LEMMA DoFields ==
    ASSUME NEW c, CanvasInv(c), Do(c)
    PROVE  /\ canvas'.mount = c.mount /\ canvas'.staged = c.staged
           /\ canvas'.pending = c.pending /\ up' = up \o c.sent
BY DEF Do, CanvasInv, Fields

LEMMA OperatorDrops ==
    ASSUME CanvasInv(canvas), Asked(up), DropInv, StagedInv, Operator \/ ImageEnds
    PROVE  DropInv' /\ StagedInv'
<1>1. UNCHANGED <<srv, down>>
  BY PageKeepsAnswers
<1>2. PICK c : Do(c) /\ CanvasInv(c) /\ (Leaves(canvas, c) \/ Releases(canvas, c))
  BY OperatorLeaves
<1>3. /\ canvas'.mount = c.mount /\ canvas'.staged = c.staged
      /\ canvas'.pending = c.pending /\ up' = up \o c.sent
  BY <1>2, DoFields
<1>4. In(up) \subseteq In(up') /\ In(c.sent) \subseteq In(up')
  <2>1. PICK S : up \in Seq(S)
    BY DEF Asked
  <2>2. PICK R : c.sent \in Seq(R)
    BY <1>2 DEF CanvasInv, Asked
  <2>3. In(up) \subseteq In(up \o c.sent)
    BY <2>1, <2>2, Indexes
  <2>4. In(c.sent) \subseteq In(up \o c.sent)
    <3>1. /\ Len(up) \in Nat /\ Len(c.sent) \in Nat
          /\ Len(up \o c.sent) = Len(up) + Len(c.sent)
          /\ \A i \in 1 .. Len(c.sent) : (up \o c.sent)[Len(up) + i] = c.sent[i]
      BY <2>1, <2>2
    <3>2. \A i \in 1 .. Len(c.sent) : Len(up) + i \in 1 .. Len(up \o c.sent)
      BY <3>1
    <3> QED
      BY <3>1, <3>2 DEF In
  <2> QED
    BY <1>3, <2>3, <2>4
<1>5. StagedInv'
  BY <1>1, <1>2, <1>3, <1>4 DEF StagedInv, Leaves, Releases
<1>6. DropInv'
  BY <1>1, <1>2, <1>3, <1>4 DEF DropInv, Leaves, Releases, AnsweredInSilence
<1> QED
  BY <1>5, <1>6

\* Every answer that changes the page settles the drop or is staged.
LEMMA UpdatedDrop ==
    ASSUME NEW c, CanvasInv(c)
    PROVE  /\ Updated(c).mount = c.mount /\ Updated(c).staged = c.staged
           /\ Updated(c).pending = NoDrag
<1> DEFINE b == ScaleOverlayElements(c)
           e == RepositionTooltipIfVisible(b)
<1>1. Leaves(c, b) /\ CanvasInv(b)
  BY SmallLeave, SmallSteps DEF Goes
<1> HIDE DEF b
<1>2. Leaves(b, e) /\ CanvasInv(e)
  BY <1>1, SmallLeave, SmallSteps DEF Goes
<1>3. Updated(c) = ReconcilePendingDropAfterPatch(e)
  BY DEF Updated, b
<1> HIDE DEF e
<1> DEFINE d == e.pending
           line == IF e.at[d.stop] = d.at THEN e.line[d.stop] ELSE d.line
           f == [e EXCEPT !.pending = NoDrag, !.offset[d.stop] = 0, !.line[d.stop] = line]
<1>4. ReconcilePendingDropAfterPatch(e) = IF d = NoDrag THEN e ELSE ScaleOverlayElements(f)
  BY DEF ReconcilePendingDropAfterPatch
<1> HIDE DEF line
<1>5. /\ Fields \subseteq DOMAIN f /\ f.mount = e.mount /\ f.staged = e.staged
      /\ f.pending = NoDrag
  BY <1>2 DEF CanvasInv, Fields
<1> HIDE DEF f
<1>6. Leaves(f, ScaleOverlayElements(f))
  BY <1>5 DEF Leaves, ScaleOverlayElements, Fields
<1> QED
  BY <1>1, <1>2, <1>3, <1>4, <1>5, <1>6 DEF Leaves

LEMMA AnswerDrops ==
    ASSUME DiagramInv, DropInv, StagedInv, Answer
    PROVE  DropInv' /\ StagedInv'
<1> DEFINE p == Head(down).patch
           c == Unlocked(canvas)
           b == Patched(c, p)
           shown == AfterPatch(b, p)
           o == IF ~p.diff THEN c
                ELSE IF p.center = None THEN shown ELSE CenterOnStop(shown, p.center)
<1>1. down # <<>> /\ down' = Tail(down) /\ Do(o) /\ srv' = srv
  BY DEF Answer
<1>2. Tells(p) /\ CanvasInv(canvas)
  BY <1>1, ToldHead DEF DiagramInv
<1>3. /\ c.mount = canvas.mount /\ (c.pending = NoDrag \/ c.pending = canvas.pending)
      /\ c.staged => canvas.staged /\ Unanswered(canvas.mount)
      /\ c.pending # NoDrag => c.staged = canvas.staged
  <2> DEFINE e == [canvas EXCEPT !.staged = FALSE]
  <2>1. CanvasInv(e)
    BY <1>2, SmallSteps DEF Goes
  <2>2. e.mount = canvas.mount /\ e.staged = FALSE
    BY <1>2 DEF CanvasInv, Fields
  <2> HIDE DEF e
  <2>3. /\ Updated(e).mount = canvas.mount /\ Updated(e).staged = FALSE
        /\ Updated(e).pending = NoDrag
    BY <2>1, <2>2, UpdatedDrop
  <2>4. c = IF canvas.staged /\ ~Unanswered(canvas.mount) THEN Updated(e) ELSE canvas
    BY DEF Unlocked, e
  <2> HIDE DEF c
  <2> QED
    BY <2>3, <2>4
<1>4. CanvasInv(c)
  BY <1>2, UnlockedStays
<1> HIDE DEF c
<1>5. /\ CanvasInv(o)
      /\ o.pending = NoDrag \/ o.pending = canvas.pending
      /\ o.pending # NoDrag => (p.diff \/ canvas.staged => o.staged)
      /\ o.staged => Unanswered(o.mount)
  <2>1. CASE ~p.diff
    BY <1>3, <1>4, <2>1
  <2>2. CASE p.diff
    <3>1. /\ CanvasInv(b) /\ b.level = p.level
          /\ p.reset => \A s \in DOMAIN b.offset : b.offset[s] = 0
      BY <1>2, <1>4, <2>2, PatchedStays DEF Tells
    <3>2. b.mount = c.mount /\ b.staged = c.staged /\ b.pending = c.pending
      <4> DEFINE e == Streamed(c, p)
                 f == [e EXCEPT !.mode = p.mode, !.measuring = p.measuring,
                                !.level = p.level, !.drawer = p.drawer]
      <4>1. Leaves(c, e) /\ Fields \subseteq DOMAIN e
        BY <1>4 DEF Streamed, Leaves, CanvasInv, Fields
      <4>2. b = ScaleOverlayElements(f)
        BY DEF Patched
      <4> HIDE DEF e
      <4>3. Leaves(e, f) /\ Fields \subseteq DOMAIN f
        BY <4>1 DEF Leaves, Fields
      <4> HIDE DEF f
      <4>4. Leaves(f, ScaleOverlayElements(f))
        BY <4>3 DEF Leaves, ScaleOverlayElements, Fields
      <4> QED
        BY <4>1, <4>2, <4>3, <4>4 DEF Leaves
    <3> HIDE DEF b, p
    <3>3. /\ CanvasInv(shown)
          /\ shown.pending = NoDrag \/ (shown.pending = canvas.pending /\ shown.staged)
          /\ shown.staged => Unanswered(shown.mount)
      <4>1. CASE p.level # canvas.level
        <5>1. p.reset
          BY <1>1, <2>2, <4>1, ChainHead DEF DiagramInv, p
        <5>2. CanvasInv(Mounted(b))
          BY <3>1, <5>1, MountedStays
        <5>3. Mounted(b).pending = NoDrag /\ Mounted(b).staged = FALSE
          BY <3>1 DEF Mounted, CanvasInv, Fields
        <5> QED
          BY <4>1, <5>2, <5>3 DEF AfterPatch
      <4>2. CASE p.level = canvas.level /\ Unanswered(b.mount)
        <5> DEFINE e == [b EXCEPT !.staged = TRUE]
        <5>1. CanvasInv(e) /\ e.staged = TRUE /\ e.mount = b.mount /\ e.pending = b.pending
          BY <3>1, SmallSteps DEF Goes, CanvasInv, Fields
        <5>2. shown = e
          BY <4>2 DEF AfterPatch
        <5> HIDE DEF e, shown
        <5> QED
          BY <1>3, <3>2, <4>2, <5>1, <5>2
      <4>3. CASE p.level = canvas.level /\ ~Unanswered(b.mount)
        <5>1. shown = Updated(b)
          BY <4>3 DEF AfterPatch
        <5>2. CanvasInv(Updated(b))
          BY <3>1, UpdatedStays
        <5>3. /\ Updated(b).mount = b.mount /\ Updated(b).staged = b.staged
              /\ Updated(b).pending = NoDrag
          BY <3>1, UpdatedDrop
        <5> HIDE DEF shown
        <5> QED
          BY <1>3, <3>2, <4>3, <5>1, <5>2, <5>3
      <4> QED
        BY <4>1, <4>2, <4>3
    <3> HIDE DEF shown
    <3>4. /\ CanvasInv(CenterOnStop(shown, p.center))
          /\ Leaves(shown, CenterOnStop(shown, p.center))
      BY <3>3, CenterGoes, SmallLeave DEF Goes
    <3>5. o = shown \/ o = CenterOnStop(shown, p.center)
      BY <2>2
    <3> HIDE DEF o
    <3> QED
      BY <3>3, <3>4, <3>5 DEF Leaves
  <2> QED
    BY <2>1, <2>2
<1> HIDE DEF o
<1>6. /\ canvas'.mount = o.mount /\ canvas'.staged = o.staged
      /\ canvas'.pending = o.pending /\ up' = up \o o.sent
  BY <1>1, <1>5, DoFields
<1>7. /\ In(up) \subseteq In(up')
      /\ In(down) = {Head(down)} \cup In(down')
      /\ In(down') = {down[i] : i \in 2 .. Len(down)}
  <2>1. PICK S : up \in Seq(S)
    BY DEF DiagramInv, Asked
  <2>2. PICK R : o.sent \in Seq(R)
    BY <1>5 DEF CanvasInv, Asked
  <2>3. PICK T : down \in Seq(T)
    BY DEF DiagramInv, Told
  <2>4. In(up) \subseteq In(up \o o.sent)
    BY <2>1, <2>2, Indexes
  <2> QED
    BY <1>1, <1>6, <2>3, <2>4, Indexes
<1>8. StagedInv'
  <2>1. Unanswered(o.mount) => \/ \E m \in In(up) : m.mount = o.mount
                               \/ \E m \in In(down') : m.mount = o.mount
    BY <1>7 DEF Unanswered, In
  <2> QED
    BY <1>5, <1>6, <1>7, <2>1 DEF StagedInv
<1>9. DropInv'
  <2>1. CASE o.pending = NoDrag
    BY <1>6, <2>1 DEF DropInv
  <2>2. CASE o.pending # NoDrag
    <3>1. o.pending = canvas.pending /\ (p.diff \/ canvas.staged => o.staged)
      BY <1>5, <2>2
    <3> QED
      BY <1>1, <1>6, <1>7, <2>2, <3>1 DEF DropInv, AnsweredInSilence
  <2> QED
    BY <2>1, <2>2
<1> QED
  BY <1>8, <1>9

LEMMA ServerDrops ==
    ASSUME DiagramInv, DropInv, StagedInv, Server
    PROVE  DropInv' /\ StagedInv'
<1>1. PICK v, a : Handled(v, a) /\ ActiveInv(v) /\ Says(v, a)
  BY ServerSays DEF DiagramInv
<1> DEFINE m == [mount |-> Head(up).mount, patch |-> a]
<1>2. m.patch = a /\ m.mount = Head(up).mount
  OBVIOUS
<1>3. srv' = v /\ down' = Append(down, m) /\ up' = Tail(up) /\ canvas' = canvas
  BY <1>1 DEF Handled
<1> HIDE DEF m
<1>4. up # <<>>
  BY DEF Server, HandleDragStart, HandleDragEnd, HandleDragCancel, HandleCancelPlacement,
         HandleStopClicked, HandleCanvasClicked, HandleToggleMeasurement,
         HandleSwitchMode, HandleSwitchLevel, HandleSearchStop, Handles
<1>5. In(down') = In(down) \cup {m} /\ In(up) = {Head(up)} \cup In(up')
  <2>1. PICK S : up \in Seq(S)
    BY DEF DiagramInv, Asked
  <2>2. PICK T : down \in Seq(T)
    BY DEF DiagramInv, Told
  <2> QED
    BY <1>3, <1>4, <2>1, <2>2, Indexes
<1>6. StagedInv'
  BY <1>2, <1>3, <1>5 DEF StagedInv
<1>7. CASE a.diff
  BY <1>2, <1>3, <1>5, <1>6, <1>7 DEF DropInv
<1>8. CASE ~a.diff
  <2>1. Quiet(v)
    BY <1>1, <1>8 DEF Says
  <2>2. IsDrop(Head(up), canvas.pending) => AnsweredInSilence(canvas.pending)'
    BY <1>3, <2>1 DEF Quiet, InSilence, IsDrop, AnsweredInSilence
  <2>3. AnsweredInSilence(canvas.pending) => AnsweredInSilence(canvas.pending)'
    BY <1>3, <2>1 DEF Quiet, AnsweredInSilence
  <2>4. DropInv'
    BY <1>3, <1>5, <2>2, <2>3 DEF DropInv
  <2> QED
    BY <1>6, <2>4
<1> QED
  BY <1>7, <1>8

-----------------------------------------------------------------------------
(* The theorems.                                                           *)

LEMMA DiagramHolds == Spec => []DiagramInv
<1>1. DiagramInv /\ [Next]_vars => DiagramInv'
  BY DiagramStep
<1> QED
  BY DiagramStarts, <1>1, PTL DEF Spec

\* No point stays where nothing is saved while nothing is owed, unless its drop
\* was answered in silence: handleMouseUp keeps the drag as a pending drop, every
\* patch that meets no later event ends it, a patch that does is staged until the
\* last answer, and a drop that is saved or refused comes with a patch.
THEOREM PointsReturn == Spec => []NothingLeftMoved
<1> DEFINE I == DiagramInv /\ DropInv /\ StagedInv
<1>1. Init => I
  <2>1. ASSUME Init PROVE DropInv /\ StagedInv
    <3>1. canvas.pending = NoDrag /\ canvas.staged = FALSE
      BY <2>1 DEF Init, Mounted
    <3> QED
      BY <3>1 DEF DropInv, StagedInv
  <2> QED
    BY <2>1, DiagramStarts
<1>2. I /\ [Next]_vars => I'
  <2> SUFFICES ASSUME I, [Next]_vars PROVE I'
    OBVIOUS
  <2>1. DiagramInv'
    BY DiagramStep
  <2>2. CASE Operator \/ ImageEnds
    BY <2>1, <2>2, OperatorDrops DEF DiagramInv
  <2>3. CASE Answer
    BY <2>1, <2>3, AnswerDrops
  <2>4. CASE Server
    BY <2>1, <2>4, ServerDrops
  <2>5. CASE OtherEditor \/ UNCHANGED vars
    BY <2>1, <2>5 DEF OtherEditor, vars, DropInv, StagedInv, AnsweredInSilence
  <2> QED
    BY <2>2, <2>3, <2>4, <2>5 DEF Next, Browser
<1>3. I => NothingLeftMoved
  <2> SUFFICES ASSUME I, NEW s \in DOMAIN canvas.offset, canvas.offset[s] # 0,
                      s # canvas.dragging.stop
               PROVE  /\ s = canvas.pending.stop
                      /\ up # <<>> \/ down # <<>> \/ AnsweredInSilence(canvas.pending)
    BY DEF NothingLeftMoved
  <2>1. s = canvas.pending.stop /\ s \in Stops
    BY DEF DiagramInv, CanvasInv, PlanInv
  <2>2. canvas.pending # NoDrag
    BY <2>1, NoGrip, DiagramAssumption
  <2>3. In(<<>>) = {}
    BY DEF In
  <2> QED
    BY <2>1, <2>2, <2>3 DEF DropInv, StagedInv
<1> QED
  BY <1>1, <1>2, <1>3, PTL DEF Spec

\* The search is kept in "center" while the image loads, and every handler that
\* moves the view forgets it.
THEOREM SearchesCenter == Spec => []SearchedPointIsCentered
<1>1. DiagramInv => SearchedPointIsCentered
  BY DEF DiagramInv, CanvasInv, ViewInv, SearchedPointIsCentered
<1> QED
  BY <1>1, DiagramHolds, PTL

\* Only an answer settles a drop, and it leaves the lines where the server has
\* them: every way through updated() and a remount ends with a scaled overlay.
THEOREM LinesFollowDrops == Spec => DropsAreRedrawn
<1>1. DiagramInv /\ [Next]_vars
      => [canvas.pending # NoDrag /\ canvas'.pending = NoDrag
          => canvas'.line = canvas'.base]_vars
  BY DiagramStep
<1> QED
  BY <1>1, DiagramHolds, PTL DEF Spec, DropsAreRedrawn

=============================================================================
