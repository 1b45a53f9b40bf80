----------------------------- MODULE DiagramCanvas -----------------------------
(***************************************************************************)
(* The floorplan editor of a station: the browser hook that pans the plan  *)
(* and drags its points, and the LiveView process that saves them.         *)
(*                                                                         *)
(* The canvas is one record: the state of the hook, and of the page what   *)
(* the hook reads and writes.  A handler is an operator from the record to *)
(* the record, and what it pushes collects in the field "sent".  A point   *)
(* is drawn at its center plus its offset, on a line of places; the line   *)
(* of its pathways ends at "line", and "base" is where the server put it.  *)
(*                                                                         *)
(* LiveView locks the element of a hook while one of its events is not     *)
(* answered: a patch that comes meanwhile is staged, and updated() runs    *)
(* when the last answer is in.  An answer without a change in the page is  *)
(* no patch.  The canvas has the id of its level and file, so the hook is  *)
(* remounted when the level changes.  The connection holds.                *)
(*                                                                         *)
(* Left out: the sizes and names of the overlay, the drawers' forms, the   *)
(* journal, the saved ruler, the modes other than view and add.            *)
(***************************************************************************)
EXTENDS Integers, Sequences

CONSTANTS Stops,      \* the points of the station
          LevelOf,    \* the level of each point
          First,      \* the level shown at first
          MaxPlace,   \* the places are 0 .. MaxPlace
          Reach,      \* how far the hit target of a point reaches
          At,         \* where each point is at first
          None,
          MaxEvents,  \* bound on presses, clicks, keys and moves of the view
          MaxOthers   \* bound on the moves of other editors

VARIABLES canvas,     \* the hook and the page
          mouse,      \* what the button was pressed on, None when it is up
          srv,        \* the assigns of the LiveView process
          db,         \* the points as stored
          up, down,   \* the events on their way to the server, the answers back
          events, others

ASSUME DiagramAssumption == None \notin Stops

vars == <<canvas, mouse, srv, db, up, down, events, others>>

Places == 0 .. MaxPlace
Levels == {LevelOf[s] : s \in Stops}
OnLevel(l) == {s \in Stops : LevelOf[s] = l}
Canvas == "canvas"

-----------------------------------------------------------------------------
NoDrag == [stop |-> None, from |-> 0, press |-> 0, at |-> 0, line |-> 0]

\* The hook as mounted() leaves it: the image of the plan is loading.
Mounted(c) ==
    [c EXCEPT !.mount = @ + 1, !.candidate = NoDrag, !.dragging = NoDrag, !.pending = NoDrag,
              !.suppress = FALSE, !.view = "home", !.loading = TRUE, !.center = None,
              !.wanted = None, !.tip = None, !.staged = FALSE]

Push(c, type, stop, x) ==
    [c EXCEPT !.sent = Append(@, [type |-> type, arg |-> stop, x |-> x, mount |-> c.mount])]
\* A click that LiveView itself binds is not an event of the hook.
PushClick(c, type, arg) ==
    [c EXCEPT !.sent = Append(@, [type |-> type, arg |-> arg, x |-> 0, mount |-> 0])]

Busy(c) == {c.candidate, c.dragging, c.pending} # {NoDrag}
Dragged(c) == c.dragging # NoDrag
ScaleOverlayElements(c) == [c EXCEPT !.line = c.base]

\* The points whose hit target is under the pointer and whose center is nearest;
\* which of two at the same distance wins is left open.
Gap(c, s, x) == LET d == c.at[s] - x IN IF d < 0 THEN -d ELSE d
PointAtPointer(c, x) ==
    LET under == {s \in DOMAIN c.at : Gap(c, s, x) <= Reach}
    IN  {s \in under : \A t \in under : Gap(c, s, x) <= Gap(c, t, x)}

CancelDragHold(c) == [c EXCEPT !.candidate = NoDrag]
HideTooltip(c) == [c EXCEPT !.tip = None]
ShowTooltip(c, s) ==
    IF c.candidate # NoDrag \/ Dragged(c) THEN c ELSE [c EXCEPT !.tip = s]
RepositionTooltipIfVisible(c) == IF c.tip \in DOMAIN c.at THEN c ELSE HideTooltip(c)

\* A press starts no drag while an earlier drop has not been settled.
HandleOverlayPointerDown(c, s, x) ==
    IF Busy(c) \/ c.mode # "view" \/ c.measuring THEN c
    ELSE [c EXCEPT !.candidate = [NoDrag EXCEPT !.stop = s, !.from = c.at[s], !.press = x,
                                                !.at = c.at[s]]]

StartStopDrag(c) ==
    LET d == c.candidate
    IN  CancelDragHold(Push([HideTooltip(c) EXCEPT
                               !.dragging = [d EXCEPT !.line = c.line[d.stop]],
                               !.suppress = TRUE],
                            "drag_start", d.stop, 0))

\* The point and the line of its pathways follow the pointer, within the plan.
Clamp(x) == IF x < 0 THEN 0 ELSE IF x > MaxPlace THEN MaxPlace ELSE x
Follow(c, x) ==
    LET d == c.dragging
        at == Clamp(d.from + x - d.press)
    IN  [c EXCEPT !.dragging.at = at, !.offset[d.stop] = at - d.from,
                  !.line[d.stop] = d.line + at - d.from]
HandleMouseMove(c, x) ==
    LET started == IF c.candidate # NoDrag /\ ~Dragged(c) /\ x # c.candidate.press
                   THEN StartStopDrag(c) ELSE c
    IN  IF Dragged(started) THEN Follow(started, x) ELSE started

HandleMouseUp(c) ==
    LET d == c.dragging
    IN  IF Dragged(c)
        THEN Push([c EXCEPT !.dragging = NoDrag, !.pending = d, !.suppress = TRUE],
                  "drag_end", d.stop, d.at)
        ELSE CancelDragHold(c)

\* The click that the browser makes of a press and a release, or the Enter key of
\* the point that has the focus; the first one after a drag is swallowed.
HandleCanvasClick(c) ==
    IF Dragged(c) \/ c.candidate # NoDrag THEN c ELSE Push(c, "canvas_click", None, 0)
Click(c, target) ==
    IF c.suppress THEN [c EXCEPT !.suppress = FALSE]
    ELSE IF target = Canvas THEN HandleCanvasClick(c)
    ELSE PushClick(c, "stop_clicked", target)

LeaveTheOffset(c) ==
    LET d == c.dragging
    IN  IF Dragged(c)
        THEN Push([CancelDragHold(c) EXCEPT !.dragging = NoDrag, !.suppress = TRUE,
                                            !.line[d.stop] = d.line],
                  "drag_cancel", None, 0)
        ELSE IF c.drawer THEN Push(c, "cancel_placement", None, 0) ELSE c
HandleEscape(c) ==
    LET d == c.dragging
    IN  IF Dragged(c)
        THEN Push([CancelDragHold(c) EXCEPT !.dragging = NoDrag, !.suppress = TRUE,
                                            !.offset[d.stop] = 0, !.line[d.stop] = d.line],
                  "drag_cancel", None, 0)
        ELSE IF c.drawer THEN Push(c, "cancel_placement", None, 0) ELSE c

\* Any patch settles the drop: a point that the server did not put where it was
\* dropped is back at its center, and so are the lines of its pathways.
ReconcileWithoutScaling(c) ==
    LET d == c.pending
    IN  IF d = NoDrag THEN c
        ELSE [c EXCEPT !.pending = NoDrag, !.offset[d.stop] = 0,
                       !.line[d.stop] = IF c.at[d.stop] = d.at THEN @ ELSE d.line]
ReconcilePendingDropAfterPatch(c) ==
    LET d == c.pending
    IN  IF d = NoDrag THEN c
        ELSE ScaleOverlayElements(
               [c EXCEPT !.pending = NoDrag, !.offset[d.stop] = 0,
                         !.line[d.stop] = IF c.at[d.stop] = d.at THEN @ ELSE d.line])
Updated(c) ==
    ReconcilePendingDropAfterPatch(RepositionTooltipIfVisible(ScaleOverlayElements(c)))

\* The view of the plan: whole, moved by the operator, or centered on a point.
CenterOnPoint(c, s) == [c EXCEPT !.view = s]
ConsumeAtOnce(c, s) == CenterOnPoint([c EXCEPT !.center = None, !.wanted = s], s)
CenterOnStop(c, s) ==
    CenterOnPoint([c EXCEPT !.center = IF c.loading THEN s ELSE None, !.wanted = s], s)
ImageLoaded(c) ==
    [ScaleOverlayElements(c) EXCEPT !.loading = FALSE, !.center = None,
                                    !.view = IF c.center = None THEN "home" ELSE c.center]
ImageFailed(c) == [c EXCEPT !.loading = FALSE, !.wanted = None]
MovedTo(c, view) ==
    [ScaleOverlayElements(c) EXCEPT !.view = view,
                                    !.wanted = IF c.loading THEN @ ELSE None]

-----------------------------------------------------------------------------
\* What the operator does.  The hook's events go out in the order of the pushes.

Do(c) == canvas' = [c EXCEPT !.sent = <<>>] /\ up' = up \o c.sent
InPage == UNCHANGED <<srv, db, down, others>>
Counted == events < MaxEvents /\ events' = events + 1

PressPoint ==
    /\ mouse = None /\ Counted
    /\ \E x \in Places : \E s \in PointAtPointer(canvas, x) :
          mouse' = s /\ Do(HandleOverlayPointerDown(canvas, s, x))
    /\ InPage
PressPlan ==
    /\ mouse = None /\ Counted
    /\ mouse' = Canvas /\ Do(canvas)
    /\ InPage
HoldElapses ==
    /\ canvas.candidate # NoDrag
    /\ Do(StartStopDrag(canvas))
    /\ UNCHANGED <<mouse, events>> /\ InPage
Move ==
    /\ canvas.candidate # NoDrag \/ Dragged(canvas)
    /\ \E x \in Places : Do(HandleMouseMove(canvas, x))
    /\ UNCHANGED <<mouse, events>> /\ InPage

\* Over the plan a release makes a click, of the pressed point while it is shown.
\* Outside of it the hook sees the release and the plan no click.
Pressed == IF mouse \in DOMAIN canvas.at THEN mouse ELSE Canvas
Release ==
    /\ mouse # None /\ mouse' = None
    /\ \/ Do(Click(HandleMouseUp(canvas), Pressed))
       \/ Do(HandleMouseUp(canvas))
    /\ UNCHANGED events /\ InPage

PressEscape ==
    /\ Counted /\ Do(HandleEscape(canvas))
    /\ UNCHANGED mouse /\ InPage
PressEnter ==
    /\ canvas.mode = "view" /\ Counted
    /\ \E s \in DOMAIN canvas.at : Do(Click(canvas, s))
    /\ UNCHANGED mouse /\ InPage
Hover ==
    /\ Counted
    /\ \E s \in DOMAIN canvas.at : Do(ShowTooltip(canvas, s))
    /\ UNCHANGED mouse /\ InPage
Leave ==
    /\ canvas.tip # None /\ Do(HideTooltip(canvas))
    /\ UNCHANGED <<mouse, events>> /\ InPage

\* The wheel, a pan with Shift, the buttons; the wheel works in a drag as well.
Wheel ==
    /\ Counted /\ Do(MovedTo(canvas, "moved"))
    /\ UNCHANGED mouse /\ InPage
PanZoomButton ==
    /\ mouse = None /\ Counted
    /\ \E view \in {"moved", "home"} : Do(MovedTo(canvas, view))
    /\ UNCHANGED mouse /\ InPage

Toolbar(type, arg) ==
    /\ mouse = None /\ Counted
    /\ Do(PushClick(canvas, type, arg))
    /\ UNCHANGED mouse /\ InPage
ClickMode == \E mode \in {"view", "add"} : Toolbar("switch_mode", mode)
ClickMeasure == canvas.mode = "view" /\ Toolbar("toggle_measurement", None)
ClickLevel == \E l \in Levels : Toolbar("switch_level", l)
Search == \E s \in Stops : Toolbar("search_stop", s)

ImageEnds ==
    /\ canvas.loading
    /\ \/ Do(ImageLoaded(canvas))
       \/ Do(ImageFailed(canvas))
    /\ UNCHANGED <<mouse, events>> /\ InPage

-----------------------------------------------------------------------------
\* The LiveView process.  "list" and "paths" are what it loaded of the level.

Nothing == [s \in {} |-> 0]
Rendered(s, streamed, reset, lines, center) ==
    [diff |-> TRUE, mode |-> s.mode, measuring |-> s.measuring, level |-> s.level,
     drawer |-> s.drawer, streamed |-> streamed, reset |-> reset, lines |-> lines,
     center |-> center]
NoDiff == [diff |-> FALSE]
PlacesOf(list) == [s \in DOMAIN list |-> list[s].at]
Alone(s, at) == [t \in {s} |-> at]

Handled(s, answer) ==
    /\ srv' = s
    /\ down' = Append(down, [mount |-> Head(up).mount, patch |-> answer])
    /\ up' = Tail(up)
    /\ UNCHANGED <<canvas, mouse, events, others>>
Handles(type) == up # <<>> /\ Head(up).type = type

DragStart(s, stop) ==
    IF s.mode = "view" /\ stop \in DOMAIN s.list
    THEN [s EXCEPT !.dragging = stop, !.revision = s.list[stop].rev] ELSE s
HandleDragStart ==
    /\ Handles("drag_start")
    /\ Handled(DragStart(srv, Head(up).arg), NoDiff)
    /\ UNCHANGED db

Forgotten(s) == [s EXCEPT !.dragging = None, !.revision = 0]
OpenEditSidebar(s, stop) == [s EXCEPT !.active = stop, !.drawer = TRUE]
MoveChildStop(stop, at) == [db EXCEPT ![stop] = [at |-> at, rev |-> @.rev + 1]]
AnyRevision(stop) == TRUE
Current(stop) == srv.revision = db[stop].rev

\* A flash that is shown already is no change of the page.
RejectDrag ==
    /\ Handled([Forgotten(srv) EXCEPT !.flash = TRUE],
               IF srv.flash THEN NoDiff ELSE Rendered(srv, Nothing, FALSE, Nothing, None))
    /\ UNCHANGED db
HandleDragEnd ==
    /\ Handles("drag_end")
    /\ LET stop == Head(up).arg
           x == Head(up).x
           moved == MoveChildStop(stop, x)
           saved == [Forgotten(srv) EXCEPT
                       !.list[stop] = moved[stop],
                       !.paths = PlacesOf([s \in OnLevel(srv.level) |-> moved[s]])]
           failed == OpenEditSidebar(Forgotten(srv), stop)
       IN  IF srv.dragging # stop \/ stop \notin DOMAIN srv.list
           THEN RejectDrag
           ELSE IF srv.list[stop].at = x
           THEN Handled(Forgotten(srv), NoDiff) /\ UNCHANGED db
           ELSE IF Current(stop)
           THEN /\ Handled(saved, Rendered(saved, Alone(stop, x), FALSE, saved.paths, None))
                /\ db' = moved
           ELSE /\ Handled(failed, Rendered(failed, Alone(stop, srv.list[stop].at), FALSE,
                                            Nothing, None))
                /\ UNCHANGED db
HandleDragCancel ==
    /\ Handles("drag_cancel")
    /\ Handled(Forgotten(srv), NoDiff)
    /\ UNCHANGED db

\* The active point is streamed again as it is stored; the list keeps what it has.
Closed(s) == [s EXCEPT !.active = None, !.drawer = FALSE]
HandleCancelPlacement ==
    /\ Handles("cancel_placement")
    /\ LET again == IF srv.active = None THEN Nothing
                    ELSE Alone(srv.active, db[srv.active].at)
       IN  Handled(Closed(srv), Rendered(Closed(srv), again, FALSE, Nothing, None))
    /\ UNCHANGED db
HandleStopClicked ==
    /\ Handles("stop_clicked")
    /\ LET stop == Head(up).arg
           open == OpenEditSidebar(srv, stop)
       IN  IF srv.mode # "view" \/ srv.measuring THEN Handled(srv, NoDiff)
           ELSE Handled(open, Rendered(open, Alone(stop, db[stop].at), FALSE, Nothing, None))
    /\ UNCHANGED db
HandleCanvasClicked ==
    /\ Handles("canvas_click")
    /\ LET placed == IF srv.mode = "add" THEN [srv EXCEPT !.drawer = TRUE] ELSE srv
       IN  Handled(placed, IF srv.mode = "view" /\ ~srv.measuring THEN NoDiff
                           ELSE Rendered(placed, Nothing, FALSE, Nothing, None))
    /\ UNCHANGED db
HandleToggleMeasurement ==
    /\ Handles("toggle_measurement")
    /\ LET toggled == [srv EXCEPT !.measuring = ~@]
       IN  IF srv.mode # "view" THEN Handled(srv, NoDiff)
           ELSE Handled(toggled, Rendered(toggled, Nothing, FALSE, Nothing, None))
    /\ UNCHANGED db

\* The layers are streamed again as they were loaded.
SwitchMode(s, mode) ==
    [Closed(s) EXCEPT !.mode = mode, !.dragging = None,
                      !.measuring = @ /\ mode = "view"]
HandleSwitchMode ==
    /\ Handles("switch_mode")
    /\ LET s == SwitchMode(srv, Head(up).arg)
       IN  Handled(s, Rendered(s, PlacesOf(s.list), TRUE, s.paths, None))
    /\ UNCHANGED db

LoadLevelData(s, l) ==
    LET loaded == [stop \in OnLevel(l) |-> db[stop]]
    IN  [s EXCEPT !.level = l, !.list = loaded, !.paths = PlacesOf(loaded), !.measuring = FALSE]
HandleSwitchLevel ==
    /\ Handles("switch_level")
    /\ LET s == [LoadLevelData(srv, Head(up).arg) EXCEPT !.drawer = FALSE]
       IN  Handled(s, Rendered(s, PlacesOf(s.list), TRUE, s.paths, None))
    /\ UNCHANGED db
HandleSearchStop ==
    /\ Handles("search_stop")
    /\ LET stop == Head(up).arg
           other == LevelOf[stop] # srv.level
           s == OpenEditSidebar(IF other THEN LoadLevelData(srv, LevelOf[stop]) ELSE srv, stop)
       IN  Handled(s, IF other THEN Rendered(s, PlacesOf(s.list), TRUE, s.paths, stop)
                      ELSE Rendered(s, Alone(stop, db[stop].at), FALSE, Nothing, stop))
    /\ UNCHANGED db

OtherEditor ==
    /\ others < MaxOthers /\ others' = others + 1
    /\ \E s \in Stops, x \in Places : x # db[s].at /\ db' = MoveChildStop(s, x)
    /\ UNCHANGED <<canvas, mouse, srv, up, down, events>>

-----------------------------------------------------------------------------
\* An answer arrives: the lock it undoes, the patch, the events pushed with it.

Unanswered(mount) ==
    \/ \E i \in 1 .. Len(up) : up[i].mount = mount
    \/ \E i \in 2 .. Len(down) : down[i].mount = mount
Unlocked(c) ==
    IF c.staged /\ ~Unanswered(c.mount) THEN Updated([c EXCEPT !.staged = FALSE]) ELSE c

\* What is streamed again loses its offset and its line; the overlay, whose view
\* the patch reset, is scaled again.
Over(f, g) == [s \in DOMAIN f \cup DOMAIN g |-> IF s \in DOMAIN f THEN f[s] ELSE g[s]]
Streamed(c, p) ==
    LET zero == [s \in DOMAIN p.streamed |-> 0]
        Drawn(line) == IF p.reset THEN p.lines ELSE Over(p.lines, Over(line, p.streamed))
    IN  [c EXCEPT !.at = IF p.reset THEN p.streamed ELSE Over(p.streamed, @),
                  !.offset = IF p.reset THEN zero ELSE Over(zero, @),
                  !.base = Drawn(@), !.line = Drawn(@)]
Patched(c, p) ==
    ScaleOverlayElements([Streamed(c, p) EXCEPT !.mode = p.mode, !.measuring = p.measuring,
                                                !.level = p.level, !.drawer = p.drawer])
AfterPatch(c, p) ==
    IF p.level # canvas.level THEN Mounted(c)
    ELSE IF Unanswered(c.mount) THEN [c EXCEPT !.staged = TRUE]
    ELSE Updated(c)

Answer ==
    /\ down # <<>> /\ down' = Tail(down)
    /\ LET p == Head(down).patch
           c == Unlocked(canvas)
           shown == AfterPatch(Patched(c, p), p)
       IN  Do(IF ~p.diff THEN c
              ELSE IF p.center = None THEN shown ELSE CenterOnStop(shown, p.center))
    /\ UNCHANGED <<mouse, srv, db, events, others>>

Init ==
    /\ db = [s \in Stops |-> [at |-> At[s], rev |-> 1]]
    /\ srv = [mode |-> "view", measuring |-> FALSE, level |-> First, drawer |-> FALSE,
              active |-> None, flash |-> FALSE, dragging |-> None, revision |-> 0,
              list |-> [s \in OnLevel(First) |-> db[s]],
              paths |-> [s \in OnLevel(First) |-> At[s]]]
    /\ canvas = Mounted([mount |-> 0, candidate |-> NoDrag, dragging |-> NoDrag,
                         pending |-> NoDrag, suppress |-> FALSE, view |-> "home",
                         loading |-> TRUE, center |-> None, wanted |-> None, tip |-> None,
                         staged |-> FALSE, mode |-> "view", measuring |-> FALSE,
                         level |-> First, drawer |-> FALSE,
                         at |-> srv.paths, offset |-> [s \in OnLevel(First) |-> 0],
                         base |-> srv.paths, line |-> srv.paths, sent |-> <<>>])
    /\ mouse = None /\ up = <<>> /\ down = <<>> /\ events = 0 /\ others = 0

Operator ==
    \/ PressPoint \/ PressPlan \/ HoldElapses \/ Move \/ Release \/ PressEscape \/ PressEnter
    \/ Hover \/ Leave \/ Wheel \/ PanZoomButton
    \/ ClickMode \/ ClickMeasure \/ ClickLevel \/ Search
Browser == ImageEnds \/ Answer
Server ==
    \/ HandleDragStart \/ HandleDragEnd \/ HandleDragCancel \/ HandleCancelPlacement
    \/ HandleStopClicked \/ HandleCanvasClicked \/ HandleToggleMeasurement
    \/ HandleSwitchMode \/ HandleSwitchLevel \/ HandleSearchStop
Next == Operator \/ Browser \/ Server \/ OtherEditor
Spec == Init /\ [][Next]_vars

-----------------------------------------------------------------------------

\* The process answers a drop without a change of the page when the place is the
\* one it has loaded already, or when it rejects it and the flash is shown.
AnsweredInSilence(d) ==
    \/ srv.flash
    \/ d.stop \in DOMAIN srv.list /\ srv.list[d.stop].at = d.at

\* A point is drawn away from the place the server gave it only while it is being
\* dragged, while answers are owed, or after its drop was answered in silence:
\* updated() alone puts it back, so no saved or refused drop that came with a
\* patch, no Escape, change of mode or level leaves one where nothing is saved.
NothingLeftMoved ==
    \A s \in DOMAIN canvas.offset :
       canvas.offset[s] # 0 =>
          \/ s = canvas.dragging.stop
          \/ /\ s = canvas.pending.stop
             /\ up # <<>> \/ down # <<>> \/ AnsweredInSilence(canvas.pending)

\* When a drop is settled, the lines of the pathways end where the server has
\* the point (reconcilePendingDropAfterPatch).
DropsAreRedrawn ==
    [][canvas.pending # NoDrag /\ canvas'.pending = NoDrag => canvas'.line = canvas'.base]_vars

\* A drop never replaces a placement that another editor saved after this session
\* had loaded the point (drag_start keeps the revision, move_child_stop tests it).
DropsKeepOthers ==
    [][\A s \in Stops : db'[s] # db[s] /\ others' = others => srv.list[s].rev = db[s].rev]_vars

\* Once the plan is loaded the view is centered on the point that was last
\* searched, also when the search changed the level, until the operator moves it.
SearchedPointIsCentered ==
    ~canvas.loading /\ canvas.wanted # None => canvas.view = canvas.wanted

=============================================================================
