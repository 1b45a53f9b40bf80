---------------------------- MODULE RouteDetails ----------------------------
(***************************************************************************)
(* Route > Details: the form of a route in the browser with the hook that  *)
(* previews its colors, guards its unsaved changes and blocks it while the *)
(* connection is down; the map beside it (RouteMap); the LiveView process  *)
(* that owns the draft; and the route in the database, which other editors *)
(* save too.                                                               *)
(*                                                                         *)
(* The page is one record and the process another; a handler is an         *)
(* operator from the record to the record.  What a patch shows of the      *)
(* process is View.  LiveView locks a form from the push of an event to    *)
(* its answer, and keeps what is typed in the field in focus.  A drop of   *)
(* the connection loses what is on its way and ends the process; the page  *)
(* rejoins a new one, which reads the route again, and the form is         *)
(* replayed to it.                                                         *)
(*                                                                         *)
(* Left out: the fields other than the number, the route color and its     *)
(* text color, the reviews to deactivate and delete, and other versions.   *)
(***************************************************************************)
EXTENDS RouteMap

CONSTANTS Typed,      \* what the operator may enter in each field
          Theirs,     \* what another editor may save in each field
          MaxEvents,  \* bound on what the operator does
          MaxOthers,  \* bound on what the other editors do
          MaxDrops    \* bound on the drops of the connection

VARIABLES page, srv, db, up, down, online, events, others, drops

vars == <<page, srv, db, up, down, online, events, others, drops>>

Fields == {"short", "color", "text"}
Units == {{"short"}, {"color", "text"}}      \* the colors are one unit of an edit
Saved == [short |-> "old", color |-> "navy", text |-> "auto"]

-----------------------------------------------------------------------------
(* The preview of the colors, after route_identity_preview.  White reads   *)
(* well on navy and badly on pale.                                         *)

AutomaticTextColor(bg) == IF bg = "pale" THEN "black" ELSE "white"
HardToRead(bg, fg) == bg = "pale" /\ fg = "white"

Background(form) == IF form.color = "bad" THEN None ELSE form.color
Requested(form) ==
    IF form.text # "auto" THEN form.text
    ELSE IF Background(form) = None THEN None ELSE AutomaticTextColor(Background(form))

RouteBadge(form) ==
    LET bg == Background(form)
        fg == Requested(form)
    IN  [fill |-> bg, edge |-> bg = "pale",
         ink |-> IF HardToRead(bg, fg) THEN AutomaticTextColor(bg) ELSE fg]
Readout(form) ==
    [picker |-> IF Background(form) = None THEN "white" ELSE Background(form),
     custom |-> form.text # "auto",
     verdict |-> IF Background(form) = None THEN None
                 ELSE IF HardToRead(Background(form), Requested(form)) THEN "hard" ELSE "easy"]

\* A color that will be refused has no preview: the badge stays as it was.
Paint(p) ==
    [p EXCEPT !.readout = Readout(p.form), !.label = p.form.short,
              !.badge = IF Background(p.form) = None THEN @ ELSE RouteBadge(p.form)]

-----------------------------------------------------------------------------
(* The form and its hook. *)

Push(p, type, x) == [p EXCEPT !.sent = Append(@, [type |-> type, x |-> x])]
SendForm(p) ==
    IF online THEN Push([p EXCEPT !.unsent = FALSE], "validate", p.form)
    ELSE [p EXCEPT !.unsent = FALSE]

\* The color field recolors the map as it is typed.
Recolored(p, f) == IF f = "color" THEN ApplyColors(Paint(p), p.form.color) ELSE p
Enter(p, f, v) == Recolored([p EXCEPT !.form[f] = v, !.apart = @ \/ ~online], f)

ApplyOffline(p, offline) ==
    [p EXCEPT !.offline = offline, !.disabled = IF offline THEN TRUE ELSE IF p.held THEN FALSE ELSE @,
              !.held = offline]

Disconnected(p) ==
    ApplyOffline([p EXCEPT !.entries = IF p.offline THEN @ ELSE p.form], TRUE)
RestoreEntries(p) ==
    Paint([p EXCEPT !.form = IF p.entries = None THEN @ ELSE p.entries, !.entries = None])
Reconnected(p) == Push(RestoreEntries(p), "recover", None)

\* A mutant: a patch around the reconnect unblocks the form.
UpdatedOnly(p, w) == [Paint(p) EXCEPT !.dirty = w.dirty]
\* A mutant: the guard keeps what the page that opened told it.
UpdatedUnguarded(p, w) == IF p.offline THEN ApplyOffline(Paint(p), TRUE) ELSE Paint(p)
\* A patch may have put the button back: it stays blocked until the answer.
Updated(p, w) ==
    LET painted == Paint(p)
    IN  [IF p.offline THEN ApplyOffline(painted, TRUE) ELSE painted EXCEPT !.dirty = w.dirty]

PatchForm(p, w) ==
    Updated([p EXCEPT !.form = [f \in Fields |-> IF f = p.focus THEN p.form[f] ELSE w.form[f]],
                      !.badge = RouteBadge(w.form), !.disabled = w.blocked, !.held = FALSE,
                      !.barHidden = ~w.changed, !.merge = w.merge,
                      !.known = IF w.known = None THEN @ ELSE w.known], w)

\* What is locked is patched by the answer that unlocks it.
FormEvents == {"validate", "save", "guard", "recover"}
Locked == \/ \E i \in 1 .. Len(up) : up[i].type \in FormEvents
          \/ \E i \in 2 .. Len(down) : down[i].of \in FormEvents
Patch(p, w) ==
    LET around == PatchMap([p EXCEPT !.asking = w.asking,
                                     !.toggle = IF p.focus = "toggle" THEN @ ELSE w.show,
                                     !.strip = w.strip], w.data)
    IN  IF Locked THEN around ELSE PatchForm(around, w)

\* The hook leaves with the page, and its listener for clicks stays: it was added
\* for the capture phase and is removed for the other one.
Destroyed(p) == [p EXCEPT !.where = "elsewhere", !.leftover = @ \/ p.dirty]

\* A page that opens.
Mounted(w, leftover) ==
    LET bare == [where |-> "details", form |-> w.form, unsent |-> FALSE, focus |-> None,
                 saving |-> FALSE, dirty |-> w.dirty, offline |-> FALSE,
                 entries |-> None, disabled |-> FALSE, held |-> FALSE, barHidden |-> TRUE,
                 merge |-> None, asking |-> FALSE, answered |-> FALSE, badge |-> None, readout |-> None,
                 label |-> None, leftover |-> leftover, apart |-> FALSE,
                 known |-> w.known,
                 data |-> w.data, payload |-> w.data.payload, color |-> "white",
                 highlight |-> NoRow, lines |-> {}, markers |-> None, on |-> NoRow,
                 swatch |-> None, card |-> NoRow, context |-> {}, contexts |-> {},
                 view |-> "world", last |-> None, toggle |-> FALSE, strip |-> w.strip,
                 sent |-> <<>>]
    IN  Paint(MountMap(bare, w.data))

-----------------------------------------------------------------------------
(* The LiveView process. *)

Changed(v) == {f \in Fields : v.draft[f] # v.base[f]}
DetailsDirty(v) == Changed(v) # {} \/ v.merge # None

View(v) == [form |-> v.draft, changed |-> Changed(v) # {}, dirty |-> DetailsDirty(v),
            merge |-> IF v.merge = None THEN None ELSE v.merge.conflicting,
            known |-> IF v.merge # None THEN [values |-> v.merge.current, rev |-> v.merge.rev]
                      ELSE IF Changed(v) = {} THEN [values |-> v.base, rev |-> v.rev]
                      ELSE None,
            blocked |-> v.blocked, asking |-> v.pending, show |-> v.show,
            strip |-> [status |-> v.status, more |-> v.cursor # None],
            data |-> [payload |-> v.payload, color |-> v.draft.color, context |-> v.routes]]

\* A handler pushes one event at most.
PushedEvents ==
    {[type |-> "focus", x |-> None]}
    \cup [type : {"recovered"}, x : BOOLEAN]
    \cup [type : {"navigate"}, x : {"clean", "discard", "saved"}]
Send(v, m) == [v EXCEPT !.out = m]

\* No value of the model is the absence of one.
ASSUME RouteAssumption ==
    None \notin Views \cup {"world", "fit", "toggle"} \cup Fields /\ None \notin PushedEvents

Focus(v) == Send(v, [type |-> "focus", x |-> None])

LoadRouteWorkspace(v) ==
    [v EXCEPT !.base = db.values, !.rev = db.rev, !.draft = db.values, !.merge = None,
              !.payload = db.map, !.blocked = FALSE]
ClearRouteContext(v) ==
    [v EXCEPT !.show = FALSE, !.routes = {}, !.status = None, !.bounds = None, !.cursor = None, !.missed = FALSE]
MountProcess ==
    LoadRouteWorkspace(
      [base |-> Saved, rev |-> 0, draft |-> Saved, merge |-> None, pending |-> FALSE,
       blocked |-> FALSE, payload |-> 1, show |-> FALSE, routes |-> {}, status |-> None,
       bounds |-> None, cursor |-> None, missed |-> FALSE, rejoined |-> FALSE, out |-> None])

AssignDraft(v, form) == [v EXCEPT !.draft = form]
DiscardDetails(v) ==
    IF v.merge # None THEN LoadRouteWorkspace(v) ELSE [v EXCEPT !.draft = v.base]
GuardedNavigate(v, why) == Send(v, [type |-> "navigate", x |-> why])
GuardUnlessMerging(v) ==   \* a mutant: a merge is not unsaved work
    IF Changed(v) # {} /\ v.merge = None THEN [v EXCEPT !.pending = TRUE]
    ELSE GuardedNavigate(v, "clean")
GuardNavigation(v) ==
    IF DetailsDirty(v) THEN [v EXCEPT !.pending = TRUE] ELSE GuardedNavigate(v, "clean")
LeaveDiscard(v) == IF v.pending THEN GuardedNavigate(v, "discard") ELSE v

\* The first page of a view, or the next one.  The read may fail.
LoadRouteContext(v, view, ok) ==
    IF ok THEN [v EXCEPT !.show = TRUE, !.routes = Nearby[view][1], !.status = "ok",
                         !.bounds = view,
                         !.cursor = IF Len(Nearby[view]) > 1 THEN 2 ELSE None]
    ELSE [v EXCEPT !.show = TRUE, !.status = "error"]
MoreRouteContext(v, ok) ==
    IF ~v.show \/ v.cursor = None THEN v
    ELSE IF ok THEN [v EXCEPT !.routes = @ \cup Nearby[v.bounds][v.cursor], !.status = "ok",
                              !.cursor = IF v.cursor < Len(Nearby[v.bounds]) THEN @ + 1 ELSE None]
    ELSE [v EXCEPT !.status = "error"]
RetryRouteContext(v, ok) ==
    IF v.show /\ v.bounds # None THEN LoadRouteContext(v, v.bounds, ok) ELSE v

RecoverRouteDetails(v) ==
    IF v.blocked THEN v
    ELSE IF db.editor THEN Send([v EXCEPT !.blocked = FALSE], [type |-> "recovered", x |-> TRUE])
    ELSE Send([v EXCEPT !.blocked = TRUE], [type |-> "recovered", x |-> FALSE])

-----------------------------------------------------------------------------
(* The save: base, draft and current compared by unit. *)

Mine(v, u) == {f \in u : v.draft[f] # v.base[f]}
TheirsOf(v, u) == {f \in u : db.values[f] # v.base[f]}
Identical(v, u) == Mine(v, u) = TheirsOf(v, u) /\ \A f \in Mine(v, u) : v.draft[f] = db.values[f]
InConflict(v, u) == Mine(v, u) # {} /\ TheirsOf(v, u) # {} /\ ~Identical(v, u)
Conflicting(v) == {u \in Units : InConflict(v, u)}

\* A confirmed merge names a side for every unit in conflict, and is bound to the
\* revision whose comparison was displayed.
NoMerge == [confirmed |-> FALSE, picked |-> {}, mine |-> {}]
ChangedSinceBase(v) == \E u \in Units : TheirsOf(v, u) # {}
ToWrite(v, choices) ==
    {f \in UNION {Mine(v, u) : u \in {w \in Units : InConflict(v, w) => w \in choices.mine}} :
       v.draft[f] # db.values[f]}
BoundToAny(v) == TRUE   \* a mutant: the choices hold for any revision
BoundToDisplayed(v) == v.merge.rev = db.rev
Refused(v, choices) ==
    \/ \E u \in Conflicting(v) : u \notin choices.picked
    \/ ChangedSinceBase(v) /\ ~(choices.confirmed /\ v.merge # None)
    \/ ChangedSinceBase(v) /\ ~BoundToDisplayed(v)

Merged(v, choices) == [f \in Fields |-> IF f \in ToWrite(v, choices) THEN v.draft[f] ELSE db.values[f]]

PresentConflict(v) ==
    IF Changed(v) = {} THEN LoadRouteWorkspace(v)
    ELSE Focus([v EXCEPT !.merge = [rev |-> db.rev, current |-> db.values,
                                     conflicting |-> Conflicting(v)]])

\* What the save leaves of the database.
Written(v, choices) ==
    IF ToWrite(v, choices) = {} THEN db
    ELSE [db EXCEPT !.values = Merged(v, choices), !.rev = @ + 1]

\* The process v saves its draft; only a committed save leaves the page.
RunDetailsSave(v, choices, leaving) ==
    LET unheld == [v EXCEPT !.pending = FALSE]
        read == Written(v, choices)
    IN  IF ~db.editor THEN srv' = Focus(unheld) /\ UNCHANGED db
        ELSE IF Refused(v, choices) THEN srv' = PresentConflict(unheld) /\ UNCHANGED db
        ELSE IF Merged(v, choices).color = "bad"
        THEN srv' = Focus([unheld EXCEPT !.draft = Merged(v, choices)]) /\ UNCHANGED db
        ELSE /\ db' = read
             /\ srv' = IF leaving THEN GuardedNavigate(unheld, "saved")
                       ELSE Focus([unheld EXCEPT !.base = read.values, !.rev = read.rev,
                                                 !.draft = read.values, !.merge = None,
                                                 !.payload = read.map])

-----------------------------------------------------------------------------
(* What the operator does. *)

Counted == events < MaxEvents /\ events' = events + 1
Do(p) == /\ page' = [p EXCEPT !.sent = <<>>]
         /\ up' = IF online THEN up \o p.sent ELSE up
         /\ UNCHANGED <<srv, db, down, online, others, drops>>
\* The question about leaving is a dialog, and a form that is being saved is read-only.
OnPage == page.where = "details" /\ ~page.asking
OnForm == OnPage /\ ~page.saving

TypeText(f, v) == /\ OnForm /\ f # "text" /\ v # page.form[f] /\ page.focus \in {f, None, "toggle"} /\ Counted
                  /\ Do(Enter([page EXCEPT !.unsent = TRUE, !.focus = f], f, v))
Blur == /\ page.where = "details" /\ page.focus # None /\ UNCHANGED events
        /\ Do([IF page.unsent THEN SendForm(page) ELSE page EXCEPT !.focus = None])
\* The picker and the chips send the form at once.
PickColor(v) == /\ OnForm /\ ~page.unsent /\ v # "bad" /\ v # page.form.color /\ Counted
                /\ Do(SendForm(Enter([page EXCEPT !.focus = None], "color", v)))
ChooseText(v) == /\ OnForm /\ ~page.unsent /\ v # page.form.text /\ Counted
                 /\ Do(SendForm(Paint(Enter([page EXCEPT !.focus = None], "text", v))))
UseAutomatic == /\ page.readout.verdict = "hard" /\ ChooseText("auto")

\* Save, by its button or by its keys, and the button of a merge.  LiveView takes the
\* focus away from the form that it submits.
Submit(choices) ==
    /\ OnForm /\ ~page.disabled
    /\ Do(Push([page EXCEPT !.unsent = FALSE, !.saving = TRUE, !.focus = None], "save",
                   [form |-> page.form, choices |-> choices, known |-> page.known]))
Save == ~page.barHidden /\ Counted /\ Submit(NoMerge)
SaveMerge == /\ page.merge # None /\ ~page.unsent /\ UNCHANGED events
             /\ \E mine \in SUBSET page.merge :
                  Submit([confirmed |-> TRUE, picked |-> page.merge, mine |-> mine])
Click(type, x) == ~page.unsent /\ Do(Push([page EXCEPT !.focus = None], type, x))
Discard == /\ OnForm /\ Counted
           /\ \/ ~page.barHidden /\ Click("discard", None)
              \/ page.merge # None /\ Click("discard_merge", None)
\* A question is answered once; its dialog has the focus.
AnswerLeave(a) == /\ page.where = "details" /\ page.asking /\ ~page.answered /\ UNCHANGED events
                  /\ Do(Push([page EXCEPT !.answered = TRUE, !.focus = None], a, page.known))

Leave == /\ page' = Destroyed(page) /\ up' = <<>> /\ down' = <<>>
         /\ UNCHANGED <<srv, db, online, others, drops>>
Depart == IF page.dirty THEN Do(Push(page, "guard", None)) ELSE Leave
\* A click reaches the listener that was left behind first, and no other.
ClickLink == OnPage /\ online /\ ~page.unsent /\ ~page.leftover /\ Counted /\ Depart
PressBack == OnPage /\ online /\ Counted /\ Depart
Return == /\ page.where = "elsewhere" /\ Counted
          /\ srv' = MountProcess
          /\ page' = Mounted(View(MountProcess), page.leftover)
          /\ UNCHANGED <<db, up, down, online, others, drops>>

PointAt(row) == OnPage /\ row # page.highlight /\ Counted /\ Do(SetHighlight(page, row))
ClickRow(row) ==
    /\ OnPage /\ row \in {Row(v.id) : v \in Payload[page.payload].variants} /\ Counted
    /\ Do(SetHighlight(page, IF page.highlight = row THEN NoRow ELSE row))
ClickToggle == OnPage /\ ~page.unsent /\ Counted /\ Do(ToggleContext(page))
Zoom(view) == OnPage /\ view # page.view /\ Counted /\ Do(MoveTo(page, view))
ClickFit == OnPage /\ Counted /\ Do(Fit(page))
ClickMore == page.strip.status = "ok" /\ page.strip.more /\ OnPage /\ Counted /\ Click("context_more", None)
ClickRetry == page.strip.status = "error" /\ OnPage /\ Counted /\ Click("context_retry", None)

-----------------------------------------------------------------------------
(* The process handles an event, and answers. *)

Quiet == [srv EXCEPT !.out = None]
Becomes(v) == srv' = v /\ UNCHANGED db

SaveEvent(x) ==
    IF srv.blocked THEN Becomes(Quiet)
    ELSE RunDetailsSave(AssignDraft(Quiet, x.form),
                        IF srv.merge = None THEN NoMerge ELSE x.choices, FALSE)

HandleEvent(type, x) ==
    \/ type = "validate" /\ Becomes(AssignDraft(Quiet, x))
    \/ type = "save" /\ SaveEvent(x)
    \/ type = "leave_save" /\ RunDetailsSave(Quiet, NoMerge, srv.pending)
    \/ type = "guard" /\ Becomes(GuardNavigation(Quiet))
    \/ type = "leave_keep" /\ Becomes([Quiet EXCEPT !.pending = FALSE])
    \/ type = "leave_discard" /\ Becomes(LeaveDiscard(Quiet))
    \/ type = "discard" /\ Becomes(DiscardDetails(Quiet))
    \/ type = "discard_merge" /\ Becomes(LoadRouteWorkspace(Quiet))
    \/ type = "recover" /\ Becomes(RecoverRouteDetails(Quiet))
    \/ type = "context_off" /\ Becomes(ClearRouteContext(Quiet))
    \/ type = "context_on" /\ \E ok \in BOOLEAN :
         Becomes([LoadRouteContext(Quiet, x, ok) EXCEPT !.missed = ~ok])
    \/ type = "context_more" /\ \E ok \in BOOLEAN : Becomes(MoreRouteContext(Quiet, ok))
    \/ type = "context_retry" /\ \E ok \in BOOLEAN : Becomes(RetryRouteContext(Quiet, ok))

Handle ==
    /\ up # <<>> /\ up' = Tail(up)
    /\ HandleEvent(Head(up).type, Head(up).x)
    /\ down' = Append(down, [of |-> Head(up).type, w |-> View(srv'), out |-> srv'.out])
    /\ UNCHANGED <<page, online, events, others, drops>>

\* The page receives an answer: it is patched, and the pushed event follows.
Acked(p, of) ==
    [p EXCEPT !.saving = @ /\ of # "save",
              !.answered = @ /\ of \notin {"leave_keep", "leave_discard", "leave_save"}]
RouteRecovery(p, retryable) == IF retryable THEN ApplyOffline(p, FALSE) ELSE p
Heard(p, e) ==
    IF e = None THEN p
    ELSE CASE e.type = "focus" -> [p EXCEPT !.focus = None]
           [] e.type = "recovered" -> RouteRecovery(p, e.x)
           [] e.type = "navigate" -> Destroyed(p)
Deliver ==
    LET m == Head(down)
        p == Heard(Patch(Acked(page, m.of), m.w), m.out)
    IN  /\ down # <<>>
        /\ page' = [p EXCEPT !.sent = <<>>]
        /\ IF p.where = "elsewhere" THEN up' = <<>> /\ down' = <<>>
           ELSE down' = Tail(down) /\ up' = up \o p.sent
        /\ UNCHANGED <<srv, db, online, events, others, drops>>

-----------------------------------------------------------------------------
(* The other editors, and the connection. *)

OtherSaves(f, v) == /\ others < MaxOthers /\ others' = others + 1 /\ db.values[f] # v
                    /\ db' = [db EXCEPT !.values[f] = v, !.rev = @ + 1]
                    /\ UNCHANGED <<page, srv, up, down, online, events, drops>>
OtherDraws == /\ others < MaxOthers /\ others' = others + 1 /\ db.map = 1
              /\ db' = [db EXCEPT !.map = 2]
              /\ UNCHANGED <<page, srv, up, down, online, events, drops>>
Revoke == /\ others < MaxOthers /\ others' = others + 1 /\ db.editor
          /\ db' = [db EXCEPT !.editor = FALSE]
          /\ UNCHANGED <<page, srv, up, down, online, events, drops>>

Drop == /\ online /\ page.where = "details" /\ drops < MaxDrops /\ drops' = drops + 1
        /\ online' = FALSE /\ up' = <<>> /\ down' = <<>>
        /\ page' = Disconnected(page)
        /\ UNCHANGED <<srv, db, events, others>>
\* The new process reads the route, and is told what the form holds.
Rejoin ==
    LET fresh == AssignDraft([MountProcess EXCEPT !.rejoined = TRUE], page.form)
        joined == [page EXCEPT !.saving = FALSE, !.answered = FALSE, !.unsent = FALSE]
        p == Reconnected(Patch(joined, View(fresh)))
    IN  /\ ~online /\ online' = TRUE
        /\ srv' = fresh
        /\ page' = [p EXCEPT !.sent = <<>>] /\ up' = p.sent
        /\ UNCHANGED <<db, down, events, others, drops>>

Init ==
    /\ db = [values |-> Saved, rev |-> 1, map |-> 1, editor |-> TRUE]
    /\ srv = MountProcess
    /\ page = Mounted(View(MountProcess), FALSE)
    /\ up = <<>> /\ down = <<>> /\ online = TRUE
    /\ events = 0 /\ others = 0 /\ drops = 0

Rows == {Row(q.id) : q \in Payload[page.payload].patterns}
        \cup {Row(v.id) : v \in Payload[page.payload].variants}

Next ==
    \/ \E f \in Fields : \E v \in Typed[f] : TypeText(f, v)
    \/ \E v \in Typed.color : PickColor(v)
    \/ \E v \in Typed.text : ChooseText(v)
    \/ Blur \/ UseAutomatic \/ Save \/ SaveMerge \/ Discard
    \/ \E a \in {"leave_keep", "leave_discard", "leave_save"} : AnswerLeave(a)
    \/ ClickLink \/ PressBack \/ Return
    \/ \E r \in Rows \cup {NoRow} : PointAt(r)
    \/ \E r \in Rows : ClickRow(r)
    \/ \E view \in Views : Zoom(view)
    \/ ClickToggle \/ ClickFit \/ ClickMore \/ ClickRetry
    \/ Handle \/ Deliver
    \/ \E f \in Fields : \E v \in Theirs[f] : OtherSaves(f, v)
    \/ OtherDraws \/ Revoke \/ Drop \/ Rejoin

Spec == Init /\ [][Next]_vars

-----------------------------------------------------------------------------
(* What is true of the page and its process. *)

AtRest == page.where = "details" /\ online /\ up = <<>> /\ down = <<>> /\ ~page.unsent

\* Once everything that was sent is answered, the form shows the draft that the
\* process holds, and the guard, the bar and the panel of a merge know whether it
\* differs from the saved route (route_details_editor.js updated/0).  What was
\* typed while the connection was down is apart.
FormIsTheDraft ==
    AtRest /\ ~page.apart =>
      /\ page.form = srv.draft
      /\ page.dirty = DetailsDirty(srv)
      /\ page.barHidden = (Changed(srv) = {})
      /\ page.merge = View(srv).merge

\* Nobody leaves a settled page with unsaved work and without an answer to the
\* question: the guard of the hook, the one of the process and the dialog together
\* (AC-22).
Navigations(m) == {e \in {m.out} \ {None} : e.type = "navigate"}
LeavingAsks ==
    [][LET told == UNION {Navigations(m) : m \in ToSet(down)}
       IN  /\ page.where = "details" /\ page'.where = "elsewhere"
           /\ up = <<>> /\ Len(down) = Cardinality(told) /\ ~page.unsent /\ ~page.apart
           => page'.form = srv.base \/ \E e \in told : e.x \in {"saved", "discard"}]_vars

\* While the connection is down, and after it until the new process has checked the
\* editor, nothing can be saved; and the block ends with that answer, whatever
\* patches and drops come between (AC-23).
BlockedUntilAnswered ==
    page.where = "details" =>
      /\ page.offline => page.disabled
      /\ ~online => page.offline
      /\ AtRest /\ page.offline => srv.blocked

\* A save replaces only values the operator was shown: those of the route as it was
\* loaded, or those of the comparison that the merge displayed (R4, CL-3).  A page that
\* rejoined is apart, and so is a form of an earlier load or comparison than the last
\* one of its process: the choices carry no revision, so that one is not told apart.
Compared(v) == IF v.merge = None THEN v.rev ELSE v.merge.rev
Shown == IF Head(up).type = "save" THEN Head(up).x.known ELSE Head(up).x
ReplacesWhatWasShown ==
    \A f \in Fields : db'.values[f] # db.values[f] /\ others' = others
                        => db.values[f] \in {Shown.values[f], srv.base[f]}
SavesKeepOthers ==
    [][db' # db /\ others' = others /\ ~srv.rejoined /\ Shown.rev = Compared(srv)
         => ReplacesWhatWasShown]_vars

\* Whatever was pointed at, recolored, redrawn or switched on, and in whichever
\* order, each layer of the map belongs to the payload, the highlight and the color
\* of now (route_details_map.js _draw, _paintLines, _drawContext).
MapIsCurrent ==
    page.where = "details" =>
      /\ page.lines = {Painted(page, path) : path \in PathsOf(Payload[page.payload])}
      /\ page.markers = [stroke |-> SwatchColorFor(page.color),
                         dots |-> StopMarkers(Payload[page.payload], page.highlight)]
      /\ page.contexts = {[route |-> r, opacity |-> ContextOpacity(page, r)] : r \in page.context}
      /\ page.on = page.highlight /\ page.swatch = SwatchColorFor(page.color)

\* On a page that stayed connected the box, the strip and the layer of the other
\* routes agree, and the routes are those of the view that was asked for last, unless
\* that load failed and Retry or Show more repeated an earlier one (AC-27).
ContextIsCurrent ==
    AtRest /\ ~srv.rejoined =>
      /\ page.toggle = srv.show /\ page.context = srv.routes
      /\ srv.status = "ok" /\ ~srv.missed => srv.bounds = page.last

=============================================================================
