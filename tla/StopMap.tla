------------------------------- MODULE StopMap -------------------------------
(***************************************************************************)
(* The map of Stops & stations: the browser hook that draws the scene and  *)
(* moves the placement pin, and the LiveView process that owns the panels, *)
(* the draft of a stop and the tasks that load, create and save stops.     *)
(*                                                                         *)
(* The browser is one record: the hook, and of the page the panel and the  *)
(* coordinates its form would post.  A handler is an operator from the     *)
(* record to the record, and what it pushes collects in "sent"; the server *)
(* collects its pushes in "out" and the tasks it starts in "begun".  The   *)
(* map is a street: a position is a place on it, a view the stretch that   *)
(* is in sight and how close it is, and a view stands for its bounds.      *)
(*                                                                         *)
(* LiveView delivers a diff and the pushed events of one answer together,  *)
(* in order; the connection holds.  Left out: the fields of a stop other   *)
(* than its position, the search, the checks, the reverse geocoding, the   *)
(* reviewed moves (every move here is a correction) and the panels to      *)
(* delete, replace or group a stop.                                        *)
(***************************************************************************)
EXTENDS Integers, Sequences, FiniteSets

CONSTANTS Stops,      \* every stop there may be, the ones to be created included
          At,         \* where each stop is at first, None when it does not exist
          Kind,       \* what each stop is: its location_type, parent and service
          Lines,      \* the pattern lines, in the order of the payload
          MaxPlace,   \* the places are 0 .. MaxPlace
          None,
          MaxEvents   \* bound on what the editor does

VARIABLES page,       \* the hook and the page
          srv,        \* the assigns of the LiveView process
          tasks,      \* the tasks it started
          db,         \* the stops as stored
          up, down,   \* the events on their way to the server, the answers back
          events

vars == <<page, srv, tasks, db, up, down, events>>

Places == 0 .. MaxPlace
ASSUME PlaceAssumption == None \notin Places
Zooms == {"far", "close", "street"}   \* <= OFFSET_MAX_ZOOM, between, >= LABEL_MIN_ZOOM
Panels == {"browse", "add", "created", "edit"}

Abs(x) == IF x < 0 THEN -x ELSE x
Least(S) == CHOOSE x \in S : \A y \in S : x <= y
Greatest(S) == CHOOSE x \in S : \A y \in S : x >= y

-----------------------------------------------------------------------------
(* What the hook draws. *)

\* No button of a pin is on the map.
NoElement == [at |-> None, view |-> None]

\* The patterns of one route lie side by side until the road is wide enough.
LineOffset(i, z) ==
    IF z # "far" THEN 0
    ELSE 1 + Cardinality({j \in 1 .. i - 1 : Lines[j].route = Lines[i].route})

LinesDrawn(p) ==
    IF p.scene = None \/ ~p.routes THEN {}
    ELSE {[line |-> i, offset |-> LineOffset(i, p.view.z)] : i \in DOMAIN Lines}

\* A tick points the way of the nearest of the lines that serve the stop.
Clamp(x, lo, hi) == IF x < lo THEN lo ELSE IF x > hi THEN hi ELSE x
DistanceTo(x, i) == LET ends == {Lines[i].from, Lines[i].to}
                    IN  Abs(x - Clamp(x, Least(ends), Greatest(ends)))
StopBearing(s, x) ==
    LET serving == {i \in DOMAIN Lines : s \in Lines[i].serves}
        nearest == {i \in serving : \A j \in serving : DistanceTo(x, i) <= DistanceTo(x, j)}
    IN  IF serving = {} THEN None
        ELSE LET l == Lines[Least(nearest)] IN IF l.to > l.from THEN "east" ELSE "west"

\* Bays are folded into their station, and names left out, until the street is near.
StopsDrawn(p) ==
    {[stop |-> s, at |-> p.scene[s], named |-> p.view.z = "street" /\ Kind[s] # "bay",
      tick |-> IF Kind[s] = "served" THEN StopBearing(s, p.scene[s]) ELSE None] :
       s \in {t \in Stops : /\ p.scene # None
                            /\ p.scene[t] # None
                            /\ Kind[t] = "bay" => p.view.z = "street"}}

PinLayers(p) ==
    IF p.pin = None \/ p.ghost = None \/ p.pin = p.ghost THEN None ELSE <<p.ghost, p.pin>>

RedrawLines(p) == [p EXCEPT !.lines = LinesDrawn(p)]
RedrawStops(p) == [p EXCEPT !.stops = StopsDrawn(p)]
DrawPinLayers(p) == [p EXCEPT !.layers = PinLayers(p)]
PositionPin(p) ==
    IF p.element = NoElement THEN p ELSE [p EXCEPT !.element = [at |-> p.pin, view |-> p.view]]
SyncModeChrome(p) == [p EXCEPT !.crosshair = (p.mode = "add" /\ p.pin = None)]

-----------------------------------------------------------------------------
(* What the hook does. *)

Push(p, type, x) == [p EXCEPT !.sent = Append(@, [type |-> type, x |-> x])]

\* A mutant: what was announced once is not announced again.
ReportOnce(p) ==
    IF p.announced # None THEN p
    ELSE Push([p EXCEPT !.announced = p.view], "bounds", p.view)
ReportBounds(p) ==
    IF p.view = p.announced THEN p
    ELSE Push([p EXCEPT !.announced = p.view], "bounds", p.view)

OnViewChange(p) == PositionPin(ReportBounds(RedrawStops(RedrawLines(p))))
SetView(p, v) == OnViewChange([p EXCEPT !.view = v])

\* The view that shows every located stop.
SceneBounds(s) == LET at == {s[t] : t \in Stops} \ {None}
                  IN  [lo |-> Least(at), hi |-> Greatest(at), z |-> "far"]
FitScene(p) ==
    IF p.scene = None \/ {p.scene[s] : s \in Stops} = {None} THEN p
    ELSE SetView(p, SceneBounds(p.scene))

ApplyScene(p, s) == ReportBounds(RedrawStops(RedrawLines(FitScene([p EXCEPT !.scene = s]))))

ApplyFocus(p, x) == SetView(p, [lo |-> x, hi |-> x, z |-> "street"])

\* The button is positioned when it is created and whenever the view changes; a
\* drag ends with the button it started on.
RemovedInDrag(p) ==   \* a mutant: the drag of a button that is taken away goes on
    SyncModeChrome(DrawPinLayers(
      [p EXCEPT !.element = IF p.pin = None THEN NoElement ELSE [at |-> p.pin, view |-> p.view]]))
RenderPin(p) ==
    SyncModeChrome(DrawPinLayers(
      IF p.pin = None THEN [p EXCEPT !.element = NoElement, !.drag = FALSE]
      ELSE [p EXCEPT !.element = [at |-> p.pin, view |-> p.view]]))

ApplyMode(p, m) ==
    RenderPin([p EXCEPT !.mode = m.mode, !.pin = m.pin,
                        !.ghost = IF m.pin = None THEN None ELSE m.ghost])

SetPinLatLng(p, x) ==
    IF p.pin = None THEN p ELSE DrawPinLayers(PositionPin([p EXCEPT !.pin = x]))

\* A mutant: a drop that the pin shows and nobody reports.
DropUnreported(p, x) == SetPinLatLng([p EXCEPT !.drag = FALSE], x)
DropPin(p, x) == Push(SetPinLatLng([p EXCEPT !.drag = FALSE], x), "pin_moved", x)
NudgePin(p, d) == LET x == p.pin + d IN Push(SetPinLatLng(p, x), "pin_moved", x)

ClickMark(p, s) ==
    IF p.mode = "add" THEN Push(p, "place", p.scene[s]) ELSE Push(p, "select_stop", s)

\* Leaflet lays the map out again when its container has a size; one that was
\* hidden is fitted again.
Resized(p) ==
    LET shown == PositionPin([p EXCEPT !.hidden = FALSE])
    IN  IF p.hidden THEN ReportBounds(FitScene(shown)) ELSE shown

TileError(p) ==
    IF p.failed THEN p ELSE Push([p EXCEPT !.failed = TRUE], "map_unavailable", None)

Mounted(hidden) ==
    LET bare == [mode |-> "browse", pin |-> None, ghost |-> None, element |-> NoElement,
                 drag |-> FALSE, layers |-> None, crosshair |-> FALSE, scene |-> None,
                 lines |-> {}, stops |-> {}, routes |-> TRUE, basemap |-> "streets",
                 failed |-> FALSE, hidden |-> hidden, announced |-> None,
                 view |-> [lo |-> 0, hi |-> MaxPlace, z |-> "far"], panel |-> "browse",
                 form |-> None, saving |-> FALSE, dirty |-> FALSE, asking |-> FALSE,
                 map |-> "loading", sent |-> <<>>]
    IN  ReportBounds(Push(bare, "ready", None))

-----------------------------------------------------------------------------
(* What the editor does. *)

Do(p) == /\ page' = [p EXCEPT !.sent = <<>>]
         /\ up' = up \o p.sent
         /\ UNCHANGED <<srv, tasks, db, down>>
\* The question about unsaved changes is a dialog: it holds the page.
InPage == ~page.asking
OnMap == InPage /\ ~page.hidden /\ ~page.drag
Counted == events < MaxEvents /\ events' = events + 1

ClickMap(x) == OnMap /\ page.mode = "add" /\ Counted /\ Do(Push(page, "place", x))
PressEnter == /\ OnMap /\ page.mode = "add" /\ Counted
              /\ Do(Push(page, "place", (page.view.lo + page.view.hi) \div 2))
PressEscape == OnMap /\ page.mode = "add" /\ Counted /\ Do(Push(page, "cancel_add", None))
ClickStop == \E m \in page.stops : OnMap /\ Counted /\ Do(ClickMark(page, m.stop))

StartPinDrag == OnMap /\ page.element # NoElement /\ Counted /\ Do([page EXCEPT !.drag = TRUE])
MovePin(x) == page.drag /\ page.pin # x /\ Do(SetPinLatLng(page, x)) /\ UNCHANGED events
ReleasePin == page.drag /\ Do(DropPin(page, page.pin)) /\ UNCHANGED events
PressArrow(d) == /\ OnMap /\ page.element # NoElement /\ page.pin + d \in Places /\ Counted
                 /\ Do(NudgePin(page, d))

Pan(d) == LET v == page.view
          IN  /\ OnMap /\ v.lo + d \in Places /\ v.hi + d \in Places /\ Counted
              /\ Do(SetView(page, [v EXCEPT !.lo = @ + d, !.hi = @ + d]))
Zoom(z) == /\ OnMap /\ {z, page.view.z} \in {{"far", "close"}, {"close", "street"}} /\ Counted
           /\ Do(SetView(page, [page.view EXCEPT !.z = z]))
ClickFit == OnMap /\ Counted /\ Do(ReportBounds(RedrawStops(FitScene(page))))
ToggleRoutes == OnMap /\ Counted /\ Do(RedrawLines([page EXCEPT !.routes = ~@]))
ChooseBasemap(b) == OnMap /\ b # page.basemap /\ Counted /\ Do([page EXCEPT !.basemap = b])
TileFails == Counted /\ Do(TileError(page))
Resize == /\ ~page.drag /\ Counted
          /\ Do(IF page.hidden THEN Resized(page) ELSE [page EXCEPT !.hidden = TRUE])

\* What the page binds itself; a submit posts the coordinates the form shows.  One
\* pointer drags the pin or works the page.
Button(panels, type, x) ==
    /\ InPage /\ ~page.drag /\ page.panel \in panels /\ Counted
    /\ Do(Push(page, type, x))
ClickAdd == page.scene # None /\ Button(Panels, "start_add", None)
ClickCancel == /\ ~page.saving
               /\ \/ Button({"add"}, "cancel_add", None)
                  \/ Button({"edit"}, "cancel_edit", None)
ClickPutBack == page.pin # None /\ page.ghost # None /\ Button({"edit"}, "put_back", None)
ClickFindPin == /\ page.pin # None /\ page.pin \notin page.view.lo .. page.view.hi
                /\ Button({"edit"}, "find_pin", None)
TypeField(x) == Button({"add"}, "add_field", x) \/ Button({"edit"}, "edit_field", x)
Paste(x) == InPage /\ ~page.drag /\ page.panel = "add" /\ Counted /\ Do(Push(page, "paste", x))
Submit == /\ ~page.saving /\ (page.panel = "edit" => page.dirty)
          /\ \/ Button({"add"}, "create_stop", page.form)
             \/ Button({"edit"}, "save_stop", page.form)
ClickRetry == page.map = "unavailable" /\ Button(Panels, "retry_map", None)
Answer(a) == /\ page.asking /\ Counted
             /\ Do(Push(page, a, None))

-----------------------------------------------------------------------------
(* The LiveView process. *)

Send(v, push) == [v EXCEPT !.out = Append(@, push)]
Begin(v, task) == [v EXCEPT !.begun = @ \cup {task}]

NoMove == [mode |-> "browse", pin |-> None, ghost |-> None]
\* The pin is the draft's position; the ghost is where a pending move began.
ModePayload(v) ==
    IF v.panel = "edit"
    THEN IF v.move # None THEN [NoMove EXCEPT !.pin = v.move, !.ghost = v.baseline]
         ELSE [NoMove EXCEPT !.pin = v.baseline]
    ELSE IF v.placement # None THEN [NoMove EXCEPT !.pin = v.placement]
    ELSE [NoMove EXCEPT !.mode = IF v.panel = "add" THEN "add" ELSE "browse"]

PushMapMode(v) == Send(v, [type |-> "mode", arg |-> ModePayload(v)])
PushScene(v) == IF v.model = None THEN v ELSE Send(v, [type |-> "scene", arg |-> v.model])
PushFocus(v, x) == IF x = None THEN v ELSE Send(v, [type |-> "focus", arg |-> x])

StartLoad(v) == Begin(v, [kind |-> "load", token |-> 0, stop |-> None, at |-> None,
                          rev |-> 0, result |-> None])

NoEdit(v) == [v EXCEPT !.token = @ + 1, !.stop = None, !.baseline = None, !.draft = None,
                       !.move = None, !.saving = FALSE, !.dirty = FALSE, !.asking = None]
RefreshEditMove(v) ==
    LET moved == v.stop # None /\ v.baseline # None /\ v.draft # v.baseline
    IN  PushMapMode([v EXCEPT !.move = IF moved THEN v.draft ELSE None])
\* A form with another name or another position than the row is dirty.
MoveDraft(v, x) == LET moved == RefreshEditMove([v EXCEPT !.draft = x])
                   IN  [moved EXCEPT !.dirty = v.baseline # None /\ (v.named \/ x # v.baseline)]

AssignEditStop(v, s, row) ==
    [v EXCEPT !.panel = "edit", !.stop = s, !.baseline = row.at, !.draft = row.at,
              !.move = None, !.dirty = FALSE, !.named = FALSE, !.loaded = row.rev]
OpenEdit(v, s) ==
    IF db[s].at = None THEN v
    ELSE PushFocus(PushMapMode(AssignEditStop(NoEdit(v), s, db[s])), v.model[s])
CloseEdit(v) == [NoEdit(v) EXCEPT !.panel = "browse"]

\* A mutant: the tasks of the edit panel are not let go.
BeginAddOnly(v) == PushMapMode([v EXCEPT !.stop = None, !.move = None, !.panel = "add",
                                         !.placement = None, !.fields = None,
                                         !.creating = FALSE])

\* The tasks of the edit panel belong to the opening that is left.
BeginAdd(v) == PushMapMode([v EXCEPT !.token = @ + 1, !.stop = None, !.move = None,
                                     !.panel = "add", !.placement = None, !.fields = None,
                                     !.creating = FALSE])

\* The pin is a move while a stop is being edited, a placement otherwise.
AssignPlacement(v, x) ==
    LET placed == [v EXCEPT !.placement = x]
    IN  IF v.panel = "edit" THEN MoveDraft(placed, x)
        ELSE PushMapMode([placed EXCEPT !.fields = x])

\* A submit is refused without a pin, and while the form and the pin name two places.
Misplaced(v, x) == v.placement = None \/ (x # None /\ x # v.placement)
CreateStop(v, e) ==
    IF v.creating \/ v.panel # "add" THEN v
    ELSE IF Misplaced(v, e.x) THEN [v EXCEPT !.fields = e.x]
    ELSE Begin([v EXCEPT !.fields = e.x, !.creating = TRUE],
               [kind |-> "create", token |-> 0, stop |-> None, at |-> v.placement, rev |-> 0,
                result |-> None])

\* The posted fields win over the draft.
StartSave(v, e) ==
    IF v.stop = None THEN v
    ELSE Begin([v EXCEPT !.draft = e.x, !.saving = TRUE,
                         !.dirty = v.named \/ e.x # v.baseline],
               [kind |-> "save", token |-> v.token, stop |-> v.stop, at |-> e.x,
                rev |-> v.loaded, result |-> None])

SelectStop(v, s) ==
    IF v.model = None THEN v
    ELSE IF v.dirty THEN [v EXCEPT !.asking = s]
    ELSE OpenEdit(v, s)

DiscardChanges(v) ==
    IF v.asking = None THEN v
    ELSE LET kept == [v EXCEPT !.asking = None]
         IN  IF v.asking = "close" THEN CloseEdit(kept) ELSE OpenEdit(kept, v.asking)

Handled(v, e) ==
    CASE e.type = "ready" -> PushScene([v EXCEPT !.map = "ready"])
      [] e.type = "bounds" -> [v EXCEPT !.view = e.x]
      [] e.type = "map_unavailable" -> [v EXCEPT !.map = "unavailable"]
      [] e.type = "retry_map" -> PushScene([v EXCEPT !.map = "loading"])
      [] e.type = "start_add" -> BeginAdd(v)
      [] e.type = "cancel_add" ->
           PushMapMode([v EXCEPT !.panel = "browse", !.placement = None, !.fields = None])
      [] e.type \in {"place", "pin_moved", "paste"} -> AssignPlacement(v, e.x)
      [] e.type = "add_field" -> [v EXCEPT !.fields = e.x]
      [] e.type = "edit_field" -> MoveDraft([v EXCEPT !.named = (@ \/ e.x = v.draft)], e.x)
      [] e.type = "put_back" ->
           IF v.baseline = None THEN v ELSE PushMapMode(MoveDraft(v, v.baseline))
      [] e.type = "find_pin" -> PushFocus(v, v.draft)
      [] e.type = "create_stop" -> CreateStop(v, e)
      [] e.type = "save_stop" -> StartSave(v, e)
      [] e.type = "select_stop" -> SelectStop(v, e.x)
      [] e.type = "cancel_edit" ->
           IF v.dirty THEN [v EXCEPT !.asking = "close"] ELSE CloseEdit(v)
      [] e.type = "keep_editing" -> [v EXCEPT !.asking = None]
      [] e.type = "discard_changes" -> DiscardChanges(v)

-----------------------------------------------------------------------------
(* The tasks. *)

\* A result of an earlier opening of the panel changes no panel; a write that
\* landed still reads the map again.
SaveLands(v, t) ==
    IF t.token # v.token THEN IF t.result = "ok" THEN StartLoad(v) ELSE v
    ELSE IF t.result = "ok"
         THEN StartLoad(AssignEditStop([v EXCEPT !.saving = FALSE], t.stop, db[t.stop]))
         ELSE [v EXCEPT !.saving = FALSE]

\* A result of a create is not asked which draft it was of.
CreateLands(v, t) ==
    IF t.result = "ok"
    THEN StartLoad(PushMapMode([v EXCEPT !.creating = FALSE, !.panel = "created",
                                         !.placement = None]))
    ELSE [v EXCEPT !.creating = FALSE]

\* What a link asked for is opened with the first model that arrives.
LoadLands(v, t) ==
    LET loaded == [v EXCEPT !.model = t.result]
        asked == [loaded EXCEPT !.requested = None]
    IN  PushScene(CASE v.requested = None -> loaded
                    [] v.requested = "add" -> BeginAdd(asked)
                    [] OTHER -> OpenEdit(asked, v.requested))

\* The task does its read or its write; the row must be as it was when it was loaded,
\* as far as a time of whole seconds tells.
New == {s \in Stops : db[s].at = None}
Runs(t) ==
    /\ t.result = None
    /\ CASE t.kind = "load" ->
              /\ tasks' = (tasks \ {t}) \cup {[t EXCEPT !.result = [s \in Stops |-> db[s].at]]}
              /\ UNCHANGED db
         [] t.kind = "save" ->
              \E fresh \in {TRUE, db[t.stop].rev = t.rev} :
                  /\ tasks' = (tasks \ {t}) \cup
                              {[t EXCEPT !.result = IF fresh THEN "ok" ELSE "stale"]}
                  /\ db' = IF fresh THEN [db EXCEPT ![t.stop] = [at |-> t.at, rev |-> @.rev + 1]]
                           ELSE db
         [] t.kind = "create" ->
              \/ \E s \in New : /\ tasks' = (tasks \ {t}) \cup {[t EXCEPT !.result = "ok"]}
                                /\ db' = [db EXCEPT ![s] = [at |-> t.at, rev |-> 1]]
              \/ /\ tasks' = (tasks \ {t}) \cup {[t EXCEPT !.result = "failed"]}
                 /\ UNCHANGED db
    /\ UNCHANGED <<page, srv, up, down, events>>

-----------------------------------------------------------------------------
(* What the page is told. *)

Shown(v) == [panel |-> v.panel, form |-> IF v.panel = "edit" THEN v.draft ELSE v.fields,
             saving |-> IF v.panel = "edit" THEN v.saving ELSE v.creating,
             dirty |-> v.dirty, map |-> v.map,
             asking |-> v.asking # None /\ v.panel = "edit"]  \* the dialog is the panel's
\* A task of the same name replaces the one before it: its result is not heard.
Heard(ts, begun) == {t \in ts : \A b \in begun : <<b.kind, b.token>> # <<t.kind, t.token>>}
Replied(v, ts) ==
    /\ srv' = [v EXCEPT !.out = <<>>, !.begun = {}]
    /\ tasks' = Heard(ts, v.begun) \cup v.begun
    /\ down' = IF v.out = <<>> /\ Shown(v) = Shown(srv) THEN down
               ELSE Append(down, [shown |-> Shown(v), out |-> v.out])
    /\ UNCHANGED <<page, db, events>>

Handles == up # <<>> /\ up' = Tail(up) /\ Replied(Handled(srv, Head(up)), tasks)
Lands(t) ==
    /\ t.result # None /\ UNCHANGED up
    /\ Replied(CASE t.kind = "load" -> LoadLands(srv, t)
                 [] t.kind = "save" -> SaveLands(srv, t)
                 [] t.kind = "create" -> CreateLands(srv, t), tasks \ {t})

Apply(p, push) == CASE push.type = "mode" -> ApplyMode(p, push.arg)
                    [] push.type = "scene" -> ApplyScene(p, push.arg)
                    [] push.type = "focus" -> ApplyFocus(p, push.arg)
ApplyAll(p, out) == LET f[i \in 0 .. Len(out)] == IF i = 0 THEN p ELSE Apply(f[i - 1], out[i])
                    IN  f[Len(out)]
Patched(p, m) == [p EXCEPT !.panel = m.panel, !.form = m.form, !.saving = m.saving,
                           !.dirty = m.dirty, !.asking = m.asking, !.map = m.map]
Answered ==
    LET p == ApplyAll(Patched(page, Head(down).shown), Head(down).out)
    IN  /\ down # <<>>
        /\ down' = Tail(down)
        /\ page' = [p EXCEPT !.sent = <<>>]
        /\ up' = up \o p.sent
        /\ UNCHANGED <<srv, tasks, db, events>>

-----------------------------------------------------------------------------
Init ==
    /\ db = [s \in Stops |-> [at |-> At[s], rev |-> IF At[s] = None THEN 0 ELSE 1]]
    /\ \E hidden \in BOOLEAN, link \in {None, "add"} \cup {s \in Stops : At[s] # None} :
         /\ page = [Mounted(hidden) EXCEPT !.sent = <<>>]
         /\ up = Mounted(hidden).sent
         /\ LET bare == [panel |-> "browse", placement |-> None, stop |-> None, fields |-> None,
                         baseline |-> None, draft |-> None, move |-> None, token |-> 0,
                         saving |-> FALSE, creating |-> FALSE, dirty |-> FALSE, named |-> FALSE,
                         loaded |-> 0, model |-> None, map |-> "loading", view |-> None,
                         asking |-> None, requested |-> link, out |-> <<>>, begun |-> {}]
            IN  srv = bare /\ tasks = StartLoad(bare).begun
    /\ down = <<>> /\ events = 0

Editor ==
    \/ \E x \in Places : ClickMap(x) \/ MovePin(x) \/ Paste(x)
    \/ \E x \in (Places \cup {page.form}) \ {None} : TypeField(x)
    \/ PressEnter \/ PressEscape \/ ClickStop \/ StartPinDrag \/ ReleasePin
    \/ \E d \in {-1, 1} : PressArrow(d) \/ Pan(d)
    \/ \E z \in Zooms : Zoom(z)
    \/ ClickFit \/ ToggleRoutes \/ TileFails \/ Resize
    \/ \E b \in {"streets", "satellite"} : ChooseBasemap(b)
    \/ ClickAdd \/ ClickCancel \/ ClickPutBack \/ ClickFindPin \/ Submit \/ ClickRetry
    \/ \E a \in {"keep_editing", "discard_changes"} : Answer(a)
Next == Editor \/ Handles \/ Answered \/ \E t \in tasks : Runs(t) \/ Lands(t)

Spec == Init /\ [][Next]_vars

-----------------------------------------------------------------------------

AtRest == up = <<>> /\ down = <<>>

\* Whatever happens to the scene, the view, the size of the map, the route toggle
\* and the pin, in any order, the lines, the stops, the pin, the ghost and the
\* crosshair on the screen are the ones that belong to them now, and a pin that
\* was taken away is no longer dragged.
ScreenIsCurrent ==
    /\ page.lines = LinesDrawn(page) /\ page.stops = StopsDrawn(page)
    /\ page.layers = PinLayers(page)
    /\ page.crosshair = (page.mode = "add" /\ page.pin = None)
    /\ page.element = IF page.pin = None THEN NoElement ELSE [at |-> page.pin, view |-> page.view]
    /\ page.drag => page.pin # None

\* When the events are handled and the answers are in, the panel lists the stops
\* of the view that is on the screen: no view that a pan, a zoom, a fit, a focus, a
\* scene or a change of size made is left unreported because an older one was
\* announced.
PanelListsTheView == AtRest => srv.view = page.view

\* While a stop is being added, the pin that is left when nothing is on its way is
\* the placement the stop would be created at, and without one the map is asking
\* for it, however drags and nudges crossed the answers to earlier ones.
PinIsThePlacement ==
    AtRest /\ ~page.drag /\ srv.panel = "add" =>
        /\ page.pin = srv.placement
        /\ page.mode = IF srv.placement = None THEN "add" ELSE "browse"

\* The result of a save changes neither the panel nor the draft of a stop that is
\* being added, nor of another stop than the one it saved.
SavesKeepOtherPanels ==
    [][\A t \in tasks : Lands(t) /\ t.kind = "save" /\ (srv.panel = "add" \/ srv.stop # t.stop)
          => /\ srv'.panel = srv.panel /\ srv'.stop = srv.stop
             /\ srv'.draft = srv.draft /\ srv'.placement = srv.placement]_vars

=============================================================================
