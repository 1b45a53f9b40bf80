--------------------------- MODULE PatternAlignment ---------------------------
(***************************************************************************)
(* The alignment map of one pattern: the browser hook that owns the drafts *)
(* of its sections, and the LiveView process it talks to.                  *)
(*                                                                         *)
(* The hook is one record; a handler is an operator from the record to the *)
(* record, and the events it pushes collect in the field "sent".  An       *)
(* action applies one handler and puts what it sent on the channel.  Both  *)
(* directions of the channel keep their order; what is pushed while the    *)
(* connection is down is dropped, and a drop ends the server process.      *)
(*                                                                         *)
(* The interior points of a section are a sequence over Points.  All stops *)
(* have coordinates and the user is an editor: a viewer drafts nothing.    *)
(* Of a draft state only the dirty positions are kept (not the review      *)
(* flags), and a draft state that follows another on the channel replaces  *)
(* it.  Notices, styles, focus and the view are left out.                  *)
(***************************************************************************)
EXTENDS Integers, Sequences, FiniteSets

CONSTANTS Sections,     \* the number of sections of the pattern
          Points,       \* the coordinates a point may have
          MaxPoints,    \* bound on the interior points of a section
          Saved,        \* the saved kind and points of each section at first
          Shared,       \* the shared path beside each section
          Routed,       \* what the street router answers for the sections
          Legs,         \* what it answers between two points
          Imported,     \* how an imported line splits into the sections
          MaxEvents,    \* bound on the gestures, clicks, saves of others and drops
          MaxClicks,    \* bound on the clicks that the server handles
          MaxDrops      \* bound on lost connections

ASSUME PatternAssumption == Sections \in Nat \ {0}

Positions == 1..Sections

VARIABLES hook,        \* the hook
          srv,         \* the assigns of the LiveView process
          db,          \* the saved sections
          up, down,    \* the events on their way to the server and the hook
          connected,
          events, clicks, drops  \* counters of the bounds

vars == <<hook, srv, db, up, down, connected, events, clicks, drops>>

-----------------------------------------------------------------------------
NoDraft == [op |-> "none", points |-> <<>>, revision |-> 0, dirty |-> FALSE]
NoRun == [position |-> 0, start |-> 0, end |-> 0, interior |-> <<>>]
NoDrag == [position |-> 0, before |-> <<>>, points |-> <<>>]
NoParts == [p \in Positions |-> <<>>]

\* s with the points from..to replaced by t
Splice(s, from, to, t) == SubSeq(s, 1, from - 1) \o t \o SubSeq(s, to + 1, Len(s))
\* s without the points whose indexes are in S
Without(s, S) ==
    LET keep[n \in 0..Len(s)] ==
          IF n = 0 THEN <<>> ELSE IF n \in S THEN keep[n-1] ELSE Append(keep[n-1], s[n])
    IN  keep[Len(s)]
Backwards(s) == [i \in 1..Len(s) |-> s[Len(s) + 1 - i]]

-----------------------------------------------------------------------------
\* What the hook knows of a section.

SavedInterior(h, p) == h.model[p].points
Effective(h, p) ==
    IF h.drafts[p].op = "none" THEN SavedInterior(h, p) ELSE h.drafts[p].points
Editable(h, p) ==
    /\ h.drafts[p].op # "delete"
    /\ h.model[p].kind = "missing" => h.drafts[p].op = "set"
DirtyPositions(h) == {p \in Positions : h.drafts[p].dirty}

\* An event pushed on the channel; a draft state replaces the one before it.
Joined(q, m) ==
    IF m.type = "draft_state" /\ q # <<>> /\ q[Len(q)].type = "draft_state"
    THEN [q EXCEPT ![Len(q)] = m]
    ELSE Append(q, m)
Send(h, m) == [h EXCEPT !.sent = Joined(@, m)]
PushDraftState(h) == Send(h, [type |-> "draft_state", dirty |-> DirtyPositions(h)])

\* The markers of the handles are made anew: the one under the pointer goes,
\* and Leaflet ends its drag without a dragend.
RebuildHandles(h) == [h EXCEPT !.grip = 0]

RefreshSection(h, p) ==
    RebuildHandles([h EXCEPT !.picked = {i \in @ : i <= Len(Effective(h, p))}])

SetMode(h, mode) ==
    IF mode = h.mode \/ (mode = "edit" /\ ~Editable(h, h.selected))
    THEN h
    ELSE PushDraftState(RebuildHandles(
           [h EXCEPT !.mode = mode, !.box = FALSE,
                     !.picked = IF mode = "pan" THEN {} ELSE @]))

\* A section that cannot be edited takes the map out of the edit mode.
Select(h, p) ==
    LET falls == h.mode = "edit" /\ ~Editable(h, p)
        s == [h EXCEPT !.selected = p, !.picked = {},
                       !.mode = IF falls THEN "pan" ELSE @]
    IN  RebuildHandles(IF falls THEN PushDraftState(s) ELSE s)

-----------------------------------------------------------------------------
\* Drafts and their history.

DraftOf(h, p) ==
    IF h.drafts[p].op = "none"
    THEN [NoDraft EXCEPT !.revision = h.model[p].revision]
    ELSE h.drafts[p]

NotedKeepingRedo(h, p, after, op) ==
    [h EXCEPT !.undo = Append(@, [position |-> p, before |-> Effective(h, p), after |-> after,
                                  prevOp |-> h.drafts[p].op, nextOp |-> op])]
Noted(h, p, after, op) ==
    LET entry == [position |-> p, before |-> Effective(h, p), after |-> after,
                  prevOp |-> h.drafts[p].op, nextOp |-> op]
    IN  [h EXCEPT !.undo = Append(@, entry), !.redo = <<>>]

\* A gesture on the points: a draft that is back at the saved points goes.
Commit(h, p, after) ==
    IF after = Effective(h, p) THEN h
    ELSE LET dirty == after # SavedInterior(h, p)
             draft == [DraftOf(h, p) EXCEPT !.op = "set", !.points = after, !.dirty = dirty]
             noted == Noted(h, p, after, "set")
         IN  PushDraftState(RefreshSection(
               [noted EXCEPT !.drafts[p] = IF dirty THEN draft ELSE NoDraft], p))

\* An action on a section is a draft even when the points do not change.
RecordOp(h, p, after, op, forced) ==
    LET draft == [DraftOf(h, p) EXCEPT !.op = op, !.points = after,
                                       !.dirty = forced \/ after # SavedInterior(h, p)]
    IN  RefreshSection([Noted(h, p, after, op) EXCEPT !.drafts[p] = draft], p)
ApplyOp(h, p, after, op, forced) == PushDraftState(RecordOp(h, p, after, op, forced))

\* RecordOp for each of the positions in which, in their order.
RecordParts(h, parts, which) ==
    LET upTo[n \in 0..Sections] ==
          IF n = 0 THEN h
          ELSE IF n \in which THEN RecordOp(upTo[n-1], n, parts[n], "set", TRUE)
          ELSE upTo[n-1]
    IN  upTo[Sections]

ApplySnapshot(h, p, points, op) ==
    LET nextOp == IF op = "none" THEN "set" ELSE op
        differs == points # SavedInterior(h, p)
        draft == [DraftOf(h, p) EXCEPT !.op = nextOp, !.points = points,
                                       !.dirty = nextOp = "delete" \/ differs]
    IN  RefreshSection(
          [h EXCEPT !.drafts[p] = IF nextOp = "set" /\ ~differs THEN NoDraft ELSE draft], p)

UndoOnce(h) ==
    IF h.undo = <<>> THEN h
    ELSE LET e == h.undo[Len(h.undo)]
             s == [h EXCEPT !.undo = SubSeq(@, 1, Len(@) - 1),
                            !.redo = Append(@, e), !.picked = {}]
         IN  PushDraftState(ApplySnapshot(s, e.position, e.before, e.prevOp))
RedoOnce(h) ==
    IF h.redo = <<>> THEN h
    ELSE LET e == h.redo[Len(h.redo)]
             s == [h EXCEPT !.redo = SubSeq(@, 1, Len(@) - 1),
                            !.undo = Append(@, e), !.picked = {}]
         IN  PushDraftState(ApplySnapshot(s, e.position, e.after, e.nextOp))

-----------------------------------------------------------------------------
\* The handlers of the events of the server.

\* Routed legs become drafts; an empty leg is skipped.
ApplySuggestions(h, parts) ==
    LET routed == {p \in Positions : parts[p] # <<>>}
        s == RecordParts(h, parts, routed)
        first == CHOOSE p \in routed : \A q \in routed : p <= q
    IN  IF routed = {} THEN h
        ELSE PushDraftState(SetMode(Select(s, first), "edit"))

\* A fresh model starts a fresh session.
Draw(h, model, suggestions) ==
    LET fresh == [h EXCEPT !.model = model, !.drafts = [p \in Positions |-> NoDraft],
                           !.undo = <<>>, !.redo = <<>>, !.picked = {},
                           !.dragWorking = NoDrag, !.followPending = NoRun, !.pointsOpen = FALSE,
                           !.box = FALSE, !.fileLine = "none", !.mode = "pan"]
        drawn == Select(fresh, h.selected)
    IN  IF suggestions = NoParts THEN drawn
        ELSE Send(ApplySuggestions(drawn, suggestions), [type |-> "applied"])

SettleSave(h) == [h EXCEPT !.savePending = FALSE]

Rebase(h, bases) ==
    PushDraftState([h EXCEPT !.drafts = [p \in Positions |->
        IF p \in DOMAIN bases /\ @[p].op # "none"
        THEN [@[p] EXCEPT !.revision = bases[p]] ELSE @[p]]])

\* An imported line, or the line of a file, becomes one draft per section.
DraftImportedLine(h) ==
    PushDraftState(SetMode(Select(RecordParts(h, Imported, Positions), 1), "edit"))

\* The preview of a file line reports how the line runs; it drafts nothing.
RenderFileLine(h, direction) ==
    Send([h EXCEPT !.fileLine = direction], [type |-> "fit_result", direction |-> direction])
Reversed(direction) == IF direction = "same" THEN "reversed" ELSE "same"
ReverseFileLine(h) ==
    IF h.fileLine = "none" THEN h ELSE RenderFileLine(h, Reversed(h.fileLine))
ClearFileLine(h) == [h EXCEPT !.fileLine = "none"]
DraftFileLine(h) ==
    IF h.fileLine # "same" THEN h ELSE ClearFileLine(DraftImportedLine(h))

DeleteSection(h, p) ==
    IF h.model[p].kind = "missing" THEN h
    ELSE LET s == ApplyOp(h, p, <<>>, "delete", TRUE)
         IN  IF s.mode = "edit" /\ s.selected = p THEN SetMode(s, "pan") ELSE s

\* Which points go is up to the geometry; of picked points only those may.
Simplified(h, p) ==
    LET all == 1..Len(Effective(h, p))
        free == IF p = h.selected /\ h.picked # {} THEN h.picked \cap all ELSE all
    IN  {Without(Effective(h, p), gone) : gone \in SUBSET free}
SimplifySection(h, p, simplified) ==
    IF h.drafts[p].op = "delete" \/ simplified = Effective(h, p) THEN h
    ELSE Commit([h EXCEPT !.picked = {}], p, simplified)

\* The routed leg replaces the run it was asked for, if nothing has changed.
ApplyFollowResult(h, m) ==
    LET asked == h.followPending
        done == [h EXCEPT !.followPending = NoRun]
        next == Splice(Effective(h, m.position), m.start, m.end, m.points)
        s == Commit(done, m.position, next)
    IN  IF \/ ~Editable(h, m.position)
           \/ <<asked.position, asked.start, asked.end>> # <<m.position, m.start, m.end>>
        THEN h
        ELSE IF Effective(h, m.position) # asked.interior \/ m.points = <<>> THEN done
        ELSE IF next # asked.interior /\ m.position = h.selected
        THEN PushDraftState([s EXCEPT !.picked = {}])
        ELSE s

-----------------------------------------------------------------------------
\* The gestures of the user in the hook, each from a loaded hook.

\* The hook as mounted() leaves it.
NewHook == [alive |-> TRUE, loaded |-> FALSE, model |-> Saved,
            drafts |-> [p \in Positions |-> NoDraft], undo |-> <<>>, redo |-> <<>>,
            selected |-> 1, mode |-> "pan", picked |-> {},
            dragWorking |-> NoDrag, grip |-> 0, box |-> FALSE, pointsOpen |-> FALSE,
            followPending |-> NoRun, fileLine |-> "none", savePending |-> FALSE,
            errorReported |-> FALSE, sent |-> <<>>]

\* A handler ran and left the hook as h; what it sent goes on the channel.
Glued(q, sent) ==
    LET glue[n \in 0..Len(sent)] == IF n = 0 THEN q ELSE Joined(glue[n-1], sent[n])
    IN  glue[Len(sent)]
Do(h) ==
    /\ hook' = [h EXCEPT !.sent = <<>>]
    /\ up' = IF connected THEN Glued(up, h.sent) ELSE up

InHook(h) ==
    /\ hook.alive /\ hook.loaded /\ h # hook
    /\ Do(h)
    /\ UNCHANGED <<srv, db, down, connected, drops, clicks>>
Counted == events < MaxEvents /\ events' = events + 1
Gesture(h) == Counted /\ InHook(h)
\* A gesture that ends another one is not counted.
Ends(h) == InHook(h) /\ UNCHANGED events

Editing == hook.mode = "edit" /\ Editable(hook, hook.selected)
Interior == Effective(hook, hook.selected)

ChooseMode == \E mode \in {"pan", "edit"} : Gesture(SetMode(hook, mode))

\* A click on a line adds a point in the edit mode, and selects otherwise.
InsertPoint ==
    /\ Editing /\ Len(Interior) < MaxPoints
    /\ \E at \in 1..(Len(Interior) + 1), pt \in Points :
          LET s == Commit(hook, hook.selected, Splice(Interior, at, at - 1, <<pt>>))
          IN  Gesture(PushDraftState([s EXCEPT !.picked = {at}]))
ClickSection ==
    \E p \in Positions :
        /\ ~(Editing /\ p = hook.selected)
        /\ Gesture(Send(hook, [type |-> "select_section", position |-> p]))

\* An arrow key moves the focused point, Delete removes it.
MovePoint ==
    /\ Editing
    /\ \E i \in 1..Len(Interior), pt \in Points :
          Gesture(Commit(hook, hook.selected, [Interior EXCEPT ![i] = pt]))
DeletePoint ==
    /\ Editing
    /\ \E i \in 1..Len(Interior) :
          Gesture(Commit([hook EXCEPT !.picked = {}], hook.selected, Without(Interior, {i})))

\* A handle is dragged: the line follows the working copy of the points, and
\* the copy is made when the first move finds none of this section.
Grab ==
    /\ Editing /\ hook.grip = 0 /\ ~hook.box
    /\ \E i \in 1..Len(Interior) : Gesture([hook EXCEPT !.grip = i])
OnHandleDrag ==
    /\ hook.grip # 0
    /\ LET p == hook.selected
           working == IF hook.dragWorking.position = p THEN hook.dragWorking
                      ELSE [position |-> p, before |-> Interior, points |-> Interior]
       IN  \E pt \in Points :
             Ends([hook EXCEPT !.dragWorking =
                   IF hook.grip > Len(working.before) THEN working
                   ELSE [working EXCEPT !.points = [working.before EXCEPT ![hook.grip] = pt]]])
OnHandleDragEnd ==
    /\ hook.grip # 0
    /\ LET dragged == IF hook.dragWorking.position = hook.selected
                      THEN hook.dragWorking.points ELSE Interior
       IN  \E pt \in Points :
             Ends(Commit([hook EXCEPT !.dragWorking = NoDrag, !.grip = 0], hook.selected,
                  IF hook.grip > Len(dragged) THEN dragged ELSE [dragged EXCEPT ![hook.grip] = pt]))

\* Points are picked on their handles, in the list or with a box.
OnHandleClick ==
    /\ Editing
    /\ \E i \in 1..Len(Interior) :
          Gesture(PushDraftState([hook EXCEPT !.picked = IF i \in @ THEN @ \ {i} ELSE @ \cup {i}]))
OnListCheck ==
    /\ Editing /\ hook.pointsOpen
    /\ \E i \in 1..Len(Interior), checked \in BOOLEAN :
          Gesture(PushDraftState(
            [hook EXCEPT !.picked = IF checked THEN @ \cup {i} ELSE @ \ {i}]))
StartBox == hook.mode = "edit" /\ ~hook.box /\ hook.grip = 0 /\ Gesture([hook EXCEPT !.box = TRUE])
FinishBox ==
    /\ hook.box
    /\ \E inside \in SUBSET (1..Len(Interior)) :
          Ends(PushDraftState([hook EXCEPT !.box = FALSE, !.picked = inside]))
DeleteSelected ==
    /\ hook.mode = "edit" /\ hook.picked # {}
    /\ Gesture(Commit([hook EXCEPT !.picked = {}], hook.selected, Without(Interior, hook.picked)))

TogglePointList ==
    /\ hook.pointsOpen \/ hook.mode = "edit" \/ Editable(hook, hook.selected)
    /\ LET s == IF hook.pointsOpen THEN hook ELSE SetMode(hook, "edit")
       IN  Gesture([s EXCEPT !.pointsOpen = ~@])
AddMidpoint ==
    /\ Editing /\ hook.pointsOpen /\ Len(Interior) < MaxPoints
    /\ \E pt \in Points :
          LET s == Commit(hook, hook.selected, <<pt>> \o Interior)
          IN  Gesture(PushDraftState([s EXCEPT !.picked = {1}]))

Undo == Gesture(UndoOnce(hook))
Redo == Gesture(RedoOnce(hook))

\* The streets are asked for between the neighbours of the picked run.
FollowRun == {r \in (1..Len(Interior)) \X (1..Len(Interior)) :
                 r[1] <= r[2] /\ hook.picked = r[1]..r[2]}
EndBefore(s, i) == IF i = 1 THEN "stop" ELSE s[i - 1]
EndAfter(s, i) == IF i = Len(s) THEN "stop" ELSE s[i + 1]
FollowStreets ==
    /\ Editing
    /\ \E r \in FollowRun :
          LET run == [position |-> hook.selected, start |-> r[1], end |-> r[2]]
          IN  Gesture(Send(
                [hook EXCEPT !.followPending =
                    [position |-> run.position, start |-> run.start, end |-> run.end,
                     interior |-> Interior]],
                [type |-> "follow", run |-> run, from |-> EndBefore(Interior, r[1]),
                 to |-> EndAfter(Interior, r[2])]))

DrawManual ==
    \E p \in Positions :
        /\ hook.model[p].kind = "missing"
        /\ Gesture(SetMode(Select(ApplyOp(hook, p, <<>>, "set", TRUE), p), "edit"))
ClearInterior ==
    \E p \in Positions : hook.model[p].kind # "missing" /\ Gesture(Commit(hook, p, <<>>))
UseShared ==
    \E p \in Positions :
        hook.model[p].kind = "override" /\ Gesture(ApplyOp(hook, p, Shared[p], "use_shared", FALSE))

\* One save at a time: the dirty drafts with the revisions they were made on.  The
\* button of a notice asks again, also when nothing is dirty any more.
RequestSave ==
    /\ ~hook.savePending
    /\ LET draft == [p \in DirtyPositions(hook) |-> hook.drafts[p]]
       IN  Gesture(Send([hook EXCEPT !.savePending = TRUE], [type |-> "save", draft |-> draft]))

\* The first failed tile is reported, and the first tile that loads after it.
TileEvent ==
    /\ hook.alive /\ Counted
    /\ Do(Send([hook EXCEPT !.errorReported = ~@],
               [type |-> IF hook.errorReported THEN "map_ok" ELSE "map_error"]))
    /\ UNCHANGED <<srv, db, down, connected, drops, clicks>>

UserInHook ==
    \/ ChooseMode \/ InsertPoint \/ ClickSection \/ MovePoint \/ DeletePoint
    \/ Grab \/ OnHandleDrag \/ OnHandleDragEnd \/ OnHandleClick \/ OnListCheck
    \/ StartBox \/ FinishBox \/ DeleteSelected \/ TogglePointList \/ AddMidpoint
    \/ Undo \/ Redo \/ FollowStreets \/ DrawManual \/ ClearInterior \/ UseShared
    \/ RequestSave \/ TileEvent

-----------------------------------------------------------------------------
\* The LiveView process.

NoPending == [kind |-> "none", draft |-> <<>>]
NoFollow == [position |-> 0, start |-> 0, end |-> 0, from |-> "stop", to |-> "stop"]
NewServer(sections, bulk) ==
    [model |-> sections, pending |-> NoPending, generating |-> FALSE, follow |-> NoFollow,
     mirror |-> {}, fit |-> "none", mapError |-> FALSE, bulk |-> bulk]

Settled == <<[type |-> "save_settled"]>>
Load(model, bulk) == <<[type |-> "load", model |-> model, bulk |-> bulk]>>
Push(type, p) == <<[type |-> type, position |-> p]>>

\* The process handled the first event: its assigns, and what it pushes.
Answer(s, pushed) ==
    /\ srv' = s /\ up' = Tail(up) /\ down' = down \o pushed
    /\ UNCHANGED <<hook, connected, events, drops, clicks>>

Conflicts(draft) == {p \in DOMAIN draft : draft[p].revision # db[p].revision}
Written(section, p, d) ==
    [kind |-> CASE d.op = "set" -> "override" [] d.op = "delete" -> "missing" [] OTHER -> "shared",
     points |-> CASE d.op = "set" -> d.points [] d.op = "delete" -> <<>> [] OTHER -> Shared[p],
     revision |-> section.revision + 1]

\* The drafts as they were pushed are written, and the fresh model is pushed.
ApplySave(draft) ==
    IF Conflicts(draft) # {}
    THEN /\ UNCHANGED db
         /\ Answer([srv EXCEPT !.pending = [kind |-> "conflict", draft |-> draft]], Settled)
    ELSE \/ LET saved == [p \in Positions |-> IF p \in DOMAIN draft
                                              THEN Written(db[p], p, draft[p]) ELSE db[p]]
            IN  /\ db' = saved
                /\ Answer([srv EXCEPT !.pending = NoPending, !.mirror = {}, !.model = saved],
                          Load(saved, NoParts))
         \/ UNCHANGED db /\ Answer([srv EXCEPT !.pending = NoPending], Settled)
         \/ UNCHANGED db /\ Answer([srv EXCEPT !.pending = [kind |-> "blocked", draft |-> draft]], Settled)

\* The review of a save: nothing, a notice, a dialog, or the save at once.
IgnoredWhileBusy(m) ==
    /\ UNCHANGED db
    /\ IF srv.pending # NoPending \/ srv.generating THEN Answer(srv, <<>>) ELSE Answer(srv, Settled)
SaveRequested(m) ==
    IF srv.pending # NoPending \/ srv.generating \/ DOMAIN m.draft = {}
    THEN UNCHANGED db /\ Answer(srv, Settled)
    ELSE \/ ApplySave(m.draft)
         \/ /\ Conflicts(m.draft) = {} /\ UNCHANGED db
            /\ Answer([srv EXCEPT !.pending = [kind |-> "save", draft |-> m.draft]], Settled)
ConfirmSave ==
    IF srv.pending.kind = "save" THEN ApplySave(srv.pending.draft)
    ELSE UNCHANGED db /\ Answer(srv, Settled)

KeepLocal ==
    /\ UNCHANGED db
    /\ IF srv.pending.kind = "conflict"
       THEN Answer([srv EXCEPT !.pending = NoPending],
              <<[type |-> "rebase",
                 bases |-> [p \in DOMAIN srv.pending.draft |-> db[p].revision]]>>)
       ELSE Answer(srv, Settled)
ReloadModel ==
    UNCHANGED db /\ Answer([srv EXCEPT !.pending = NoPending, !.model = db], Load(db, NoParts))

Generate ==
    /\ UNCHANGED db
    /\ Answer([srv EXCEPT !.generating = @ \/ srv.pending = NoPending], <<>>)
StartFollow(m) ==
    /\ UNCHANGED db
    /\ Answer(IF srv.follow # NoFollow THEN srv
              ELSE [srv EXCEPT !.follow = [position |-> m.run.position, start |-> m.run.start,
                                           end |-> m.run.end, from |-> m.from, to |-> m.to]], <<>>)

\* What only changes an assign or passes an event on to the hook.
Plain(m) ==
    /\ UNCHANGED db
    /\ CASE m.type = "ready" -> Answer(srv, Load(srv.model, srv.bulk))
         [] m.type = "draft_state" -> Answer([srv EXCEPT !.mirror = m.dirty], <<>>)
         [] m.type = "applied" -> Answer([srv EXCEPT !.bulk = NoParts], <<>>)
         [] m.type = "fit_result" -> Answer([srv EXCEPT !.fit = m.direction], <<>>)
         [] m.type = "map_error" -> Answer([srv EXCEPT !.mapError = TRUE], <<>>)
         [] m.type = "map_ok" -> Answer([srv EXCEPT !.mapError = FALSE], <<>>)
         [] m.type = "select_section" -> Answer(srv, Push("select", m.position))
         [] m.type = "cancel_save" -> Answer([srv EXCEPT !.pending = NoPending], Settled)
         [] m.type = "cancel_generation" -> Answer([srv EXCEPT !.generating = FALSE], <<>>)
         [] m.type = "discard" -> Answer(srv, Load(srv.model, NoParts))
         [] m.type = "file_draft" -> Answer(srv, IF srv.fit = "reversed" THEN <<>> ELSE Push("file_draft", 0))
         [] m.type = "leave" -> Answer(srv, IF srv.mirror # {} THEN <<>> ELSE Push("leave", 0))
         [] OTHER -> Answer(srv, <<m>>)

Serve ==
    /\ up # <<>>
    /\ LET m == Head(up)
       IN  CASE m.type = "save" -> SaveRequested(m)
             [] m.type = "confirm_save" -> ConfirmSave
             [] m.type = "keep_local" -> KeepLocal
             [] m.type = "reload" -> ReloadModel
             [] m.type = "generate" -> Generate
             [] m.type = "follow" -> StartFollow(m)
             [] OTHER -> Plain(m)

\* The street router answers, with nothing when it found no way.
GenerationResult ==
    /\ connected /\ srv.generating
    /\ srv' = [srv EXCEPT !.generating = FALSE]
    /\ \E found \in {Routed, NoParts} :
          down' = IF found = NoParts THEN down
                  ELSE Append(down, [type |-> "suggestions", parts |-> found])
    /\ UNCHANGED <<hook, db, up, connected, events, drops, clicks>>
FollowResult ==
    /\ connected /\ srv.follow # NoFollow
    /\ srv' = [srv EXCEPT !.follow = NoFollow]
    /\ \/ UNCHANGED down
       \/ \E points \in Legs :
            down' = Append(down,
                 [type |-> "follow_result", position |-> srv.follow.position,
                  start |-> srv.follow.start, end |-> srv.follow.end, points |-> points,
                  from |-> srv.follow.from, to |-> srv.follow.to])
    /\ UNCHANGED <<hook, db, up, connected, events, drops, clicks>>

\* The buttons the server renders and handles.
Click(m) ==
    /\ connected /\ hook.alive /\ hook.loaded
    /\ Counted /\ clicks < MaxClicks /\ clicks' = clicks + 1
    /\ up' = Append(up, m)
    /\ UNCHANGED <<hook, srv, db, down, connected, drops>>
ClickDialog ==
    \/ srv.pending.kind = "save" /\ \E t \in {"confirm_save", "cancel_save"} : Click([type |-> t])
    \/ srv.pending.kind = "conflict" /\ \E t \in {"keep_local", "reload"} : Click([type |-> t])
    \/ srv.pending.kind = "blocked" /\ Click([type |-> "cancel_save"])
ClickTool ==
    \/ \E t \in {"generate", "convert", "file_line", "reverse_file_line", "file_draft",
                 "clear_file_line", "leave"} : Click([type |-> t])
    \/ srv.generating /\ Click([type |-> "cancel_generation"])
    \/ srv.mirror # {} /\ Click([type |-> "discard"])
    \/ srv.mapError /\ Click([type |-> "retry_tiles"])
    \/ \E p \in Positions, t \in {"delete_section", "simplify"} : Click([type |-> t, position |-> p])

-----------------------------------------------------------------------------
\* The hook takes the first event of the server.

Handled(m) ==
    IF ~hook.loaded /\ m.type \notin {"load", "select", "save_settled", "retry_tiles", "leave"}
    THEN {hook}
    ELSE CASE m.type = "load" -> {SettleSave(Draw([hook EXCEPT !.loaded = TRUE], m.model, m.bulk))}
           [] m.type = "select" -> {Select(hook, m.position)}
           [] m.type = "rebase" -> {SettleSave(Rebase(hook, m.bases))}
           [] m.type = "save_settled" -> {SettleSave(hook)}
           [] m.type = "suggestions" -> {ApplySuggestions(hook, m.parts)}
           [] m.type = "follow_result" -> {ApplyFollowResult(hook, m)}
           [] m.type = "delete_section" -> {DeleteSection(hook, m.position)}
           [] m.type = "simplify" -> {SimplifySection(hook, m.position, s) : s \in Simplified(hook, m.position)}
           [] m.type = "convert" -> {DraftImportedLine(hook)}
           [] m.type = "file_line" -> {RenderFileLine(hook, d) : d \in {"same", "reversed"}}
           [] m.type = "reverse_file_line" -> {ReverseFileLine(hook)}
           [] m.type = "file_draft" -> {DraftFileLine(hook)}
           [] m.type = "clear_file_line" -> {ClearFileLine(hook)}
           [] m.type = "retry_tiles" -> {[hook EXCEPT !.errorReported = FALSE]}
           [] m.type = "leave" -> {[NewHook EXCEPT !.alive = FALSE]}
           [] OTHER -> {hook}

Receive ==
    /\ down # <<>> /\ down' = Tail(down)
    /\ IF hook.alive THEN \E h \in Handled(Head(down)) : Do(h) ELSE UNCHANGED <<hook, up>>
    /\ UNCHANGED <<srv, db, connected, events, drops, clicks>>

\* The page comes back to the alignment: the server loads it, a new hook mounts.
Return ==
    /\ connected /\ ~hook.alive /\ Counted
    /\ \A i \in 1..Len(up) : up[i].type # "leave"
    /\ \A i \in 1..Len(down) : down[i].type # "leave"
    /\ srv' = [NewServer(db, srv.bulk) EXCEPT !.mirror = srv.mirror]
    /\ Do(Send(NewHook, [type |-> "ready"]))
    /\ UNCHANGED <<db, down, connected, drops, clicks>>

Drop ==
    /\ connected /\ drops < MaxDrops /\ drops' = drops + 1 /\ Counted
    /\ connected' = FALSE /\ up' = <<>> /\ down' = <<>>
    /\ srv' = NewServer(db, NoParts)
    /\ UNCHANGED <<hook, db, clicks>>
SilentlyReconnected ==
    /\ ~connected /\ connected' = TRUE /\ srv' = NewServer(db, NoParts)
    /\ UNCHANGED <<hook, db, up, down, events, drops, clicks>>
\* A new process mounts; the hook, if loaded, tells it what it still drafts.
Reconnected ==
    /\ ~connected /\ connected' = TRUE
    /\ srv' = NewServer(db, NoParts)
    /\ hook' = hook
    /\ up' = IF hook.alive THEN <<[type |-> "draft_state", dirty |-> DirtyPositions(hook)]>> ELSE <<>>
    /\ UNCHANGED <<db, down, events, drops, clicks>>

OtherSave ==
    /\ Counted
    /\ \E p \in Positions, pt \in Points :
          db' = [db EXCEPT ![p] = [kind |-> "override", points |-> <<pt>>, revision |-> @.revision + 1]]
    /\ UNCHANGED <<hook, srv, up, down, connected, drops, clicks>>

Init ==
    /\ hook = NewHook
    /\ db = Saved
    /\ \E bulk \in {NoParts, Routed} : srv = NewServer(Saved, bulk)
    /\ up = <<[type |-> "ready"]>> /\ down = <<>> /\ connected = TRUE
    /\ events = 0 /\ clicks = 0 /\ drops = 0

Next ==
    \/ UserInHook \/ ClickDialog \/ ClickTool
    \/ Serve \/ GenerationResult \/ FollowResult \/ Receive
    \/ Return \/ Drop \/ Reconnected \/ OtherSave

Spec == Init /\ [][Next]_vars

-----------------------------------------------------------------------------

\* The guard of the page, which asks before it leaves, never misses a draft:
\* every dirty section of the hook is in the mirror of the process, or in a
\* draft state that reaches it before any later click does.  A load or a
\* departure on its way drops the drafts.
Coming(q, types) == \E i \in 1..Len(q) : q[i].type \in types
\* The last draft state of q, or the mirror if there is none, has all of dirty.
Knows(q, mirror, dirty) ==
    \/ dirty \subseteq mirror /\ ~Coming(q, {"draft_state"})
    \/ \E i \in 1..Len(q) :
          /\ q[i].type = "draft_state" /\ dirty \subseteq q[i].dirty
          /\ \A j \in i+1..Len(q) : q[j].type # "draft_state"
GuardKnowsDrafts ==
    connected /\ hook.alive /\ ~Coming(down, {"load", "leave"})
        => Knows(up, srv.mirror, DirtyPositions(hook))

\* Every way the process handles a save releases the save guard of the hook:
\* while the connection has held, a pending save is on its way to the process
\* or what releases it is on its way back.
Releases == {"load", "rebase", "save_settled"}
SaveWillSettle ==
    hook.savePending /\ drops = 0 => Coming(up, {"save"}) \/ Coming(down, Releases \cup {"leave"})

\* The history of every section is one chain from its saved points: undo walks
\* back to them and redo forward again, across edits, routed legs and imports.
History(h) == h.undo \o Backwards(h.redo)
\* After the first n entries of the history the points of p are pts.
LeadsTo(h, n, p, pts) ==
    LET own == {i \in 1..n : History(h)[i].position = p}
    IN  \/ own = {} /\ pts = SavedInterior(h, p)
        \/ \E i \in own : (\A j \in own : j <= i) /\ pts = History(h)[i].after
WalksBack(h) ==
    /\ \A i \in 1..Len(History(h)) :
          LeadsTo(h, i - 1, History(h)[i].position, History(h)[i].before)
    /\ \A p \in Positions : LeadsTo(h, Len(h.undo), p, Effective(h, p))
UndoWalksBack == WalksBack(hook)

=============================================================================
