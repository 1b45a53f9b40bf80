---------------------------- MODULE TimetableGrid ----------------------------
(***************************************************************************)
(* The grid of Schedules: the browser hook with its roving cursor and the  *)
(* editor it places over a cell, and the LiveView process that commits,    *)
(* clears, nudges and undoes times.                                        *)
(*                                                                         *)
(* The page is one record, the process another; a handler is an operator   *)
(* from the record to the record, and what the hook pushes collects in     *)
(* "sent".  A cell is a trip and a column.  The grid is one section: an    *)
(* answer patches it in place ("insert"), replaces its cells ("reset") or  *)
(* leaves it ("bar", "none"); the callback of a push follows the patch.    *)
(* A time is a number, and a text the number it reads as.                  *)
(*                                                                         *)
(* The connection holds.  Left out: what a commit does to the later stops, *)
(* frequency trips, the clipboard, the reviewed changes and the drawers;   *)
(* the chords that open something are one.                                 *)
(***************************************************************************)
EXTENDS Integers, Sequences, FiniteSets, SequencesExt

CONSTANTS Trips,      \* the trips, in the order of the grid
          Stops,      \* the columns of stops, before the one of the timing
          Clearable,  \* the stops between the first and the last that are no timepoint
          Start,      \* the times at first
          Typed,      \* what the operator may type
          None,
          MaxEvents,  \* bound on what the operator does
          MaxOthers   \* bound on what the other editors do

ASSUME GridAssumption ==
    /\ Trips \in Seq(ToSet(Trips)) /\ DOMAIN Start = ToSet(Trips)
    /\ Stops \in Seq(ToSet(Stops)) /\ None \notin ToSet(Trips) \X (ToSet(Stops) \cup {0})
    /\ \A i \in DOMAIN Stops : Stops[i] \in Clearable => 1 < i /\ i < Len(Stops)
    /\ MaxEvents \in Nat /\ MaxOthers \in Nat

VARIABLES page,       \* the hook and its grid
          srv,        \* the assigns of the process
          db,         \* the trips as stored
          up, down,   \* the events on their way, the answers back
          events, others

vars == <<page, srv, db, up, down, events, others>>

Blank == -1           \* no time, and an empty text
Junk == -2            \* a text that reads as no time
Timing == 0            \* the column of the timing
Columns == Append(Stops, Timing)

Body == <<"body">>    \* where the focus may be, besides a cell
Outside == <<"outside">>
Input == <<"input">>

Clamp(i, n) == IF i < 1 THEN 1 ELSE IF i > n THEN n ELSE i
Position(s, x) == IF x \in ToSet(s) THEN CHOOSE i \in DOMAIN s : s[i] = x ELSE 1

-----------------------------------------------------------------------------
(* The cursor. *)

Cells(p) == ToSet(p.rows) \X ToSet(Columns)
HasTrip(p, trip) == trip \in ToSet(p.rows)
InGrid(f) == f \notin {Body, Outside}
FocusIsFree(p) == p.focus # Outside

\* What is pushed is remembered to have come from the grid.
PushEvent(p, type, x, ctx) ==
    [p EXCEPT !.restore = InGrid(p.focus), !.sent = Append(@, [type |-> type, x |-> x, ctx |-> ctx])]

SetCursor(p, cell, focus) ==
    [p EXCEPT !.cursor = cell, !.spot = <<Position(p.rows, cell[1]), Position(Columns, cell[2])>>,
              !.marked = {cell}, !.focus = IF focus THEN cell ELSE @]

ApplyRemembered(p, focus) ==   \* a mutant: a cursor whose trip is gone is not moved
    IF p.cursor \in Cells(p) THEN SetCursor(p, p.cursor, focus) ELSE p
\* The cursor stays on its trip, or moves to the row that took its place.
ApplyCursor(p, focus) ==
    IF p.rows = <<>> THEN p
    ELSE IF p.cursor \in Cells(p) THEN SetCursor(p, p.cursor, focus)
    ELSE SetCursor(p, <<p.rows[Clamp(p.spot[1], Len(p.rows))], Columns[p.spot[2]]>>, focus)

MoveH(p, cell, delta) ==
    IF ~HasTrip(p, cell[1]) THEN p
    ELSE SetCursor(p, <<cell[1], Columns[Clamp(Position(Columns, cell[2]) + delta, Len(Columns))]>>, TRUE)
MoveV(p, cell, delta) ==
    IF p.rows = <<>> THEN p
    ELSE SetCursor(p, <<p.rows[Clamp(Position(p.rows, cell[1]) + delta, Len(p.rows))], cell[2]>>, TRUE)

-----------------------------------------------------------------------------
(* The editor over a cell. *)

CanEdit(p, cell) == cell \in Cells(p) /\ cell[2] # Timing
CellText(p, cell) == p.text[cell[1]][cell[2]]
NoEditor == [id |-> -1]
EditorOpen(p) == p.editor # NoEditor /\ p.open

NoReading == [kind |-> "none", of |-> None]
Hint == [kind |-> "hint", of |-> None]
Refusal == [kind |-> "error", of |-> None]

\* A hidden input gives the focus up.
Unfocused(p) == [p EXCEPT !.focus = IF @ = Input THEN Body ELSE @]
ClearEditor(p) == Unfocused([p EXCEPT !.editor = NoEditor, !.open = FALSE])
CloseEditor(p) == IF p.editor # NoEditor /\ p.editor.committing THEN p ELSE ClearEditor(p)
PlaceEditor(p) == IF EditorOpen(p) /\ p.editor.cell \in Cells(p) THEN [p EXCEPT !.placed = p.editor.cell] ELSE p

SchedulePreviewAgain(p) ==   \* a mutant: a reading on its way counts for the new text
    [p EXCEPT !.editor.timer = p.editor.value # Blank,
              !.reading = IF p.editor.value = Blank THEN Hint ELSE NoReading]
SchedulePreview(p) ==
    [p EXCEPT !.editor.seq = @ + 1, !.editor.timer = p.editor.value # Blank,
              !.reading = IF p.editor.value = Blank THEN Hint ELSE NoReading]
StartEdit(p, cell, value) ==
    LET editor == [id |-> events, cell |-> cell, value |-> value, seq |-> 0, timer |-> FALSE,
                   committing |-> FALSE]
    IN  SchedulePreview(PlaceEditor([p EXCEPT !.editor = editor, !.open = TRUE, !.focus = Input]))
HandleEditorInput(p, v) == SchedulePreview([p EXCEPT !.editor.value = v])
PushPreview(p) ==
    PushEvent([p EXCEPT !.editor.timer = FALSE], "cell_preview",
              [cell |-> p.editor.cell, text |-> p.editor.value], p.editor)
RenderReading(p, editor, ok) ==
    [p EXCEPT !.reading = IF ok THEN [kind |-> "reading", of |-> <<editor.cell, editor.value>>] ELSE Refusal]
PreviewReply(p, editor, ok) ==
    LET q == [p EXCEPT !.restore = FALSE]
    IN  IF p.editor = NoEditor THEN q
        ELSE IF p.editor.id # editor.id \/ p.editor.seq # editor.seq THEN q
        ELSE RenderReading(q, editor, ok)

\* The cell is pending until the answer, and the editor waits under it.
CommitEditor(p, move) ==
    IF p.editor.value = Blank THEN [p EXCEPT !.reading = Refusal]
    ELSE LET waiting == [p.editor EXCEPT !.timer = FALSE, !.seq = @ + 1, !.committing = TRUE]
             pushed == PushEvent([p EXCEPT !.editor = waiting, !.pending = @ \cup {waiting.cell}],
                                 "cell_commit", [cell |-> waiting.cell, text |-> waiting.value],
                                 [editor |-> waiting, move |-> move])
         IN  Unfocused([pushed EXCEPT !.open = FALSE])
CancelEditor(p) ==
    LET closed == CloseEditor(p)
    IN  IF p.editor.cell \in Cells(p) THEN SetCursor(closed, p.editor.cell, TRUE) ELSE closed
ShowEditor(p) ==
    IF p.editor.cell \in Cells(p) THEN PlaceEditor([p EXCEPT !.open = TRUE, !.focus = Input]) ELSE p
MoveAfterCommit(p, cell, move) ==
    CASE move = "down" -> MoveV(p, cell, 1) [] move = "up" -> MoveV(p, cell, -1)
      [] move = "right" -> MoveH(p, cell, 1) [] move = "left" -> MoveH(p, cell, -1)
ClearPending(p, cell) == [p EXCEPT !.pending = @ \ {cell}]
\* An edit that was begun in the meantime ends with the answer to the earlier one.
CommitReply(p, ctx, ok) ==
    LET cleared == ClearPending(p, ctx.editor.cell)
        own == p.editor # NoEditor /\ p.editor.id = ctx.editor.id
    IN  IF ok THEN MoveAfterCommit(ClearEditor(cleared), ctx.editor.cell, ctx.move)
        ELSE IF ~own THEN cleared
        ELSE [ShowEditor([cleared EXCEPT !.editor.committing = FALSE]) EXCEPT !.reading = Refusal]

ClearCell(p, cell) ==
    IF CellText(p, cell) = Blank THEN p
    ELSE PushEvent([p EXCEPT !.pending = @ \cup {cell}], "cell_clear", [cell |-> cell], cell)

-----------------------------------------------------------------------------
(* The patches. *)

\* The editor stays over its cell, or closes when the cell is gone.
Updated(p) ==
    LET focus == p.restore /\ FocusIsFree(p)
        kept == [p EXCEPT !.restore = FALSE,
                          !.anchor = IF @ # None /\ ~HasTrip(p, @) THEN None ELSE @]
        applied == ApplyCursor(kept, focus /\ ~EditorOpen(p))
    IN  IF p.cursor = None THEN kept
        ELSE IF ~EditorOpen(p) THEN applied
        ELSE IF p.editor.cell \in Cells(p) THEN PlaceEditor(applied)
        ELSE CloseEditor(applied)

\* Cells that are replaced take the focus, the ring and their state with them.
BeforeUpdate(p) == [p EXCEPT !.restore = @ \/ InGrid(p.focus)]
Patched(p, m) ==
    LET bare == [p EXCEPT !.rows = m.rows, !.text = m.text,
                          !.marked = IF m.patch = "bar" THEN @ ELSE {},
                          !.pending = IF m.patch = "bar" THEN @ ELSE {},
                          !.focus = IF m.patch = "reset" /\ InGrid(@) /\ @ # Input THEN Body ELSE @]
    IN  IF m.patch = "none" THEN p ELSE Updated(BeforeUpdate(bare))

Replied(p, m) ==
    CASE m.type = "cell_preview" -> PreviewReply(p, m.ctx, m.ok)
      [] m.type = "cell_commit" -> CommitReply(p, m.ctx, m.ok)
      [] m.type = "cell_clear" -> ClearPending(p, m.ctx)
      [] OTHER -> p

-----------------------------------------------------------------------------
(* What the operator does. *)

Counted == events < MaxEvents /\ events' = events + 1
Do(p) == page' = [p EXCEPT !.sent = <<>>] /\ up' = up \o p.sent /\ UNCHANGED <<srv, db, down, others>>
OnCell == page.focus \in Cells(page)
InEditor == page.focus = Input /\ EditorOpen(page)
Cell == page.focus

Arrow == /\ OnCell /\ Counted
         /\ \/ \E d \in {-1, 1} : Do(MoveH(page, Cell, d)) \/ Do(MoveV(page, Cell, d))
            \/ \E d \in {Len(Columns), -Len(Columns)} : Do(MoveH(page, Cell, d))
\* Shift with an arrow selects from where the selection began.
ExtendSelection ==
    /\ OnCell /\ Counted
    /\ \E d \in {-1, 1} :
         LET anchor == IF page.anchor = None THEN page.cursor[1] ELSE page.anchor
             moved == MoveV([page EXCEPT !.anchor = anchor], Cell, d)
         IN  Do(PushEvent(moved, "select_range", [from |-> anchor, to |-> moved.cursor[1]], None))
ToggleTrip == /\ OnCell /\ Counted
              /\ Do(PushEvent([page EXCEPT !.anchor = page.cursor[1]], "toggle_trip", [trip |-> page.cursor[1]], None))
Nudge(minutes) == /\ OnCell /\ Counted
                  /\ Do(PushEvent(page, "nudge", [minutes |-> minutes, trip |-> page.cursor[1]], None))
PressUndo == OnCell /\ Counted /\ Do(PushEvent(page, "undo", [trip |-> None], None))
PressChord == OnCell /\ Counted /\ Do(PushEvent(page, "chord", [trip |-> None], None))
PressKey(v) == OnCell /\ CanEdit(page, Cell) /\ v # Blank /\ Counted /\ Do(StartEdit(page, Cell, v))
PressEnter == OnCell /\ CanEdit(page, Cell) /\ Counted /\ Do(StartEdit(page, Cell, CellText(page, Cell)))
PressDelete == OnCell /\ CanEdit(page, Cell) /\ Counted /\ Do(ClearCell(page, Cell))

TypeText(v) == InEditor /\ v # page.editor.value /\ Counted /\ Do(HandleEditorInput(page, v))
Commit(move) == InEditor /\ Counted /\ Do(CommitEditor(page, move))
PressEscape == InEditor /\ Counted /\ Do(CancelEditor(page))
PreviewTimer == page.editor # NoEditor /\ page.editor.timer /\ UNCHANGED events /\ Do(PushPreview(page))

ClickCell(cell) == /\ cell \in Cells(page) /\ cell # page.focus
                   /\ IF page.cursor = None THEN UNCHANGED events ELSE Counted
                   /\ Do(SetCursor(IF EditorOpen(page) THEN CloseEditor(page) ELSE page, cell, TRUE))
\* A filter takes the focus, and so ends an edit.
ChooseFilter(hidden) ==
    /\ hidden # srv.hidden /\ Counted
    /\ LET blurred == [CloseEditor(page) EXCEPT !.focus = Outside]
       IN  Do([blurred EXCEPT !.sent = <<[type |-> "filters", x |-> [hidden |-> hidden], ctx |-> None]>>])

-----------------------------------------------------------------------------
(* The process. *)

AllRows(v) == ToSet(v.rows)
\* The trips that are left, in their order.
Without(trips) ==
    LET shown[i \in 0 .. Len(Trips)] ==
          IF i = 0 THEN <<>>
          ELSE IF Trips[i] \in trips THEN shown[i - 1] ELSE Append(shown[i - 1], Trips[i])
    IN  shown[Len(Trips)]
LoadSchedule(v) ==
    [v EXCEPT !.rows = Without(v.hidden \cup db'.gone),
              !.times = db'.times, !.rev = db'.rev]

Current(v, trips) == \A t \in trips : t \notin db.gone /\ v.rev[t] = db.rev[t]
Before(trips) == [t \in trips |-> [times |-> db.times[t], rev |-> db.rev[t] + 1]]
WriteTrips(trips, times) ==
    db' = [db EXCEPT !.times = [t \in DOMAIN @ |-> IF t \in trips THEN times[t] ELSE @[t]],
                     !.rev = [t \in DOMAIN @ |-> IF t \in trips THEN @[t] + 1 ELSE @[t]],
                     !.by = [t \in DOMAIN @ |-> IF t \in trips THEN "page" ELSE @[t]]]

\* A write that was fenced by the loaded rows can be undone, and is shown.
CommittedUnloaded(v, trips) == [v EXCEPT !.undo = <<Before(trips)>> \o @]   \* a mutant
Committed(v, trips) == LoadSchedule([v EXCEPT !.undo = <<Before(trips)>> \o @])

Answers(patch, ok, v) ==
    /\ srv' = v
    /\ down' = Append(down, [type |-> Head(up).type, ctx |-> Head(up).ctx, patch |-> patch, ok |-> ok,
                             rows |-> v.rows, text |-> v.times])
Unwritten(patch, ok) == Answers(patch, ok, srv) /\ UNCHANGED db

\* Refused is what is stale; and, since the times of the other stops are left out, any
\* edit may be: for a time below zero or out of order, or a trip off its pattern.
SetTime(cell, v) ==
    \/ /\ Current(srv, {cell[1]})
       /\ WriteTrips({cell[1]}, [t \in {cell[1]} |-> [db.times[t] EXCEPT ![cell[2]] = v]])
       /\ Answers("reset", TRUE, Committed(srv, {cell[1]}))
    \/ Unwritten("insert", FALSE)

CellPreview(x) == Unwritten("none", x.cell[1] \in AllRows(srv) /\ x.text # Junk)
CommitCell(x) ==
    IF x.cell[1] \notin AllRows(srv) \/ x.text = Junk THEN Unwritten("none", FALSE)
    ELSE SetTime(x.cell, x.text)
WriteClear(x) ==
    IF x.cell[1] \notin AllRows(srv) THEN Unwritten("bar", TRUE)
    ELSE IF srv.times[x.cell[1]][x.cell[2]] = Blank THEN Unwritten("none", TRUE)
    ELSE IF x.cell[2] \notin Clearable THEN Unwritten("insert", TRUE)
    ELSE SetTime(x.cell, Blank)

\* The selection wins over the row of the cursor, and moves as a whole or not at all: a
\* trip without a time at its first stop, or one that would start before 0, refuses it.
Shifted(times, minutes) == [s \in DOMAIN times |-> IF times[s] = Blank THEN Blank ELSE times[s] + minutes]
ShiftTrips(trips, minutes) ==
    LET moved == [t \in trips |-> Shifted(db.times[t], minutes)]
    IN  IF ~Current(srv, trips)
           \/ \E t \in trips : \/ db.times[t][Head(Stops)] = Blank
                               \/ \E s \in ToSet(Stops) : db.times[t][s] = 0 /\ minutes < 0
        THEN Unwritten("bar", TRUE)
        ELSE \/ WriteTrips(trips, moved) /\ Answers("reset", TRUE, Committed(srv, trips))
             \/ Unwritten("bar", TRUE)   \* the times were out of order before
NudgeIds(x) == LET visible == srv.selected \cap AllRows(srv)
               IN  IF visible # {} THEN visible ELSE {x.trip} \cap AllRows(srv)
NudgeTrips(x) == IF NudgeIds(x) = {} THEN Unwritten("bar", TRUE) ELSE ShiftTrips(NudgeIds(x), x.minutes)

\* An undo is refused when a trip has changed since, or the timing that a trip would go
\* back to; the entry is used up.  A trip that is gone is only reported.
RestoreAny(entry) == TRUE   \* a mutant: what changed since is not looked at
RestoreUnchanged(entry) == \A t \in DOMAIN entry : t \notin db.gone /\ db.rev[t] = entry[t].rev
UndoLast ==
    LET entry == Head(srv.undo)
        popped == [srv EXCEPT !.undo = Tail(@)]
    IN  IF srv.undo = <<>> THEN Unwritten("none", TRUE)
        ELSE IF DOMAIN entry \cap db.gone # {}
        THEN UNCHANGED db /\ Answers("bar", FALSE, popped)
        ELSE \/ /\ RestoreUnchanged(entry)
                /\ WriteTrips(DOMAIN entry, [t \in DOMAIN entry |-> entry[t].times])
                /\ Answers("reset", TRUE, LoadSchedule(popped))
             \/ UNCHANGED db /\ Answers("reset", FALSE, LoadSchedule(popped))

Reselect(selected) ==
    /\ UNCHANGED db
    /\ Answers(IF selected = srv.selected THEN "none" ELSE "insert", TRUE, [srv EXCEPT !.selected = selected])
ToggleSelected(trip) ==
    IF trip \notin AllRows(srv) THEN Unwritten("none", TRUE)
    ELSE Reselect(IF trip \in srv.selected THEN srv.selected \ {trip} ELSE srv.selected \cup {trip})
RowsBetween(from, to) ==
    LET i == Position(srv.rows, from)
        j == Position(srv.rows, to)
    IN  {srv.rows[k] : k \in (IF i < j THEN i .. j ELSE j .. i)}
SelectRange(x) == IF {x.from, x.to} \subseteq AllRows(srv) THEN Reselect(RowsBetween(x.from, x.to))
                  ELSE Unwritten("none", TRUE)
HandleParams(hidden) ==
    UNCHANGED db /\ Answers("reset", TRUE, LoadSchedule([srv EXCEPT !.hidden = hidden, !.selected = {}]))

HandleEvent(type, x) ==
    \/ type = "cell_preview" /\ CellPreview(x)
    \/ type = "cell_commit" /\ CommitCell(x)
    \/ type = "cell_clear" /\ WriteClear(x)
    \/ type = "nudge" /\ NudgeTrips(x)
    \/ type = "undo" /\ UndoLast
    \/ type = "toggle_trip" /\ ToggleSelected(x.trip)
    \/ type = "select_range" /\ SelectRange(x)
    \/ type = "chord" /\ Unwritten("bar", TRUE)
    \/ type = "filters" /\ HandleParams(x.hidden)

Handle == /\ up # <<>> /\ up' = Tail(up)
          /\ HandleEvent(Head(up).type, Head(up).x)
          /\ UNCHANGED <<page, events, others>>
Deliver == /\ down # <<>> /\ down' = Tail(down)
           /\ page' = Replied(Patched(page, Head(down)), Head(down))
           /\ UNCHANGED <<srv, db, up, events, others>>

-----------------------------------------------------------------------------
(* The other editors. *)

Other == others < MaxOthers /\ others' = others + 1 /\ UNCHANGED <<page, srv, up, down, events>>
OtherWrites(t) == /\ Other /\ t \notin db.gone
                  /\ db' = [db EXCEPT !.times[t] = Shifted(@, 1), !.rev[t] = @ + 1, !.by[t] = "other"]
OtherDeletes(t) == Other /\ t \notin db.gone /\ db' = [db EXCEPT !.gone = @ \cup {t}]

Init ==
    /\ db = [times |-> Start, rev |-> [t \in ToSet(Trips) |-> 1], gone |-> {},
             by |-> [t \in ToSet(Trips) |-> None]]
    /\ srv = [rows |-> Trips, times |-> Start, rev |-> db.rev, hidden |-> {}, selected |-> {}, undo |-> <<>>]
    /\ page = [rows |-> Trips, text |-> Start, cursor |-> None, spot |-> <<1, 1>>, marked |-> {},
               pending |-> {}, restore |-> FALSE, anchor |-> None, editor |-> NoEditor, open |-> FALSE,
               placed |-> None, reading |-> NoReading, focus |-> Body, sent |-> <<>>]
    /\ up = <<>> /\ down = <<>> /\ events = 0 /\ others = 0

Next ==
    \/ Arrow \/ ExtendSelection \/ ToggleTrip \/ PressUndo \/ PressChord
    \/ \E minutes \in {-1, 1} : Nudge(minutes)
    \/ \E v \in Typed : PressKey(v) \/ TypeText(v)
    \/ PressEnter \/ PressDelete \/ PressEscape \/ PreviewTimer
    \/ \E move \in {"up", "down", "left", "right"} : Commit(move)
    \/ \E cell \in Cells(page) : ClickCell(cell)
    \/ \E hidden \in {{}, {Head(Trips)}} : ChooseFilter(hidden)
    \/ Handle \/ Deliver
    \/ \E t \in ToSet(Trips) : OtherWrites(t) \/ OtherDeletes(t)

Spec == Init /\ [][Next]_vars

-----------------------------------------------------------------------------
(* What is true of the grid. *)

AtRest == up = <<>> /\ down = <<>>

\* Whatever is re-rendered, hidden or deleted under it, one cell of the grid that is
\* shown has the ring and can be reached with Tab, and it is the one the keys act on
\* (timetable_grid_hook.js _applyCursor).
RovingCursor ==
    page.cursor # None /\ page.rows # <<>> => page.cursor \in Cells(page) /\ page.marked = {page.cursor}

\* An open editor is over the cell it edits, and a reading under it is one of the
\* text that it holds now (_schedulePreview, _pushPreview, updated).
ReadingIsOfTheText ==
    EditorOpen(page) =>
      /\ page.editor.cell \in Cells(page) /\ page.placed = page.editor.cell
      /\ page.reading.kind = "reading" => page.reading.of = <<page.editor.cell, page.editor.value>>

\* Once everything is answered the grid shows what the process loaded, and that is
\* what is stored for every trip that this page wrote last, so that its next edit is
\* not refused as stale (route_schedules_live.ex committed_cell/5, nudged/4, undone/3).
OwnWritesShow ==
    AtRest => /\ page.rows = srv.rows /\ page.text = srv.times
              /\ \A t \in ToSet(Trips) : db.by[t] = "page" =>
                   srv.times[t] = db.times[t] /\ srv.rev[t] = db.rev[t]

\* An undo never takes back what another editor wrote (schedules.ex restore_fence!).
UndoKeepsOthers ==
    [][Handle /\ Head(up).type = "undo" =>
         \A t \in ToSet(Trips) : db.by[t] = "other" => db'.times[t] = db.times[t]]_vars

=============================================================================
