------------------------------ MODULE MapAlignment ------------------------------
(***************************************************************************)
(* The alignment workspace of a station level: the browser hook that moves *)
(* the floorplan over the map, and the LiveView process that saves it.     *)
(*                                                                         *)
(* The hook is one record; a handler is an operator from the record to the *)
(* record, and what it pushes collects in the field "sent".  An alignment  *)
(* (center, scale and rotation of the floorplan on the ground) is a member *)
(* of Places.  A view of the map is named by the place that the identity   *)
(* transform shows in it, so a zoom or a recenter changes the view and     *)
(* leaves the place.                                                       *)
(*                                                                         *)
(* Every event of the hook carries the generation the hook was mounted     *)
(* with.  LiveView answers an event with a patch: the assigns as rendered  *)
(* and the events pushed with them.  The canvas has the id of its stop     *)
(* level and is ignored by patches, so the hook is remounted when the      *)
(* level or the mode changes and at no other patch.  The connection holds. *)
(*                                                                         *)
(* Left out: pins, other levels, buildings, opacity, the state of the map  *)
(* tiles, hold-to-hide and the collapse of the tools.                      *)
(***************************************************************************)
EXTENDS Naturals, Sequences

CONSTANTS Levels,     \* the stop levels with a floorplan
          Places,     \* the alignments a floorplan may have
          NoPlace,    \* no alignment is saved
          First,      \* the level shown at first
          Saved,      \* what is saved for each level at first
          Station,    \* the view of a level that has no saved alignment
          Anchored,   \* the levels with enough anchors for a fit
          Inferred,   \* the alignment inferred for each level
          MaxEvents,  \* bound on gestures and clicks
          MaxOthers   \* bound on the writes of other editors

\* The words of the readout are not the name of a place.
ASSUME MapAssumption ==
    /\ First \in Levels
    /\ Saved \in [Levels -> Places \cup {NoPlace}]
    /\ Inferred \in [Levels -> Places]
    /\ {"measuring", "nothing"} \cap (Places \cup {Station, NoPlace}) = {}

VARIABLES hook,       \* the hook, and the readout it writes into
          page,       \* the assigns the page shows
          srv,        \* the assigns of the LiveView process
          db,         \* the stop levels and the coordinates of their stops
          up, down,   \* the events on their way to the server, the patches back
          events, others

vars == <<hook, page, srv, db, up, down, events, others>>

-----------------------------------------------------------------------------
NoReview == [level |-> NoPlace, place |-> NoPlace, coords |-> NoPlace]

\* The hook as mounted() leaves it on a page; a saved place waits to be restored.
\* For the properties, "settled" keeps where the restore has put the floorplan, and
\* "touched" that the operator has moved the floorplan or the map.
Mounted(p) ==
    [alive |-> TRUE, level |-> p.level, gen |-> p.gen, saved |-> p.saved, restore |-> p.saved,
     view |-> IF p.saved = NoPlace THEN Station ELSE p.saved,
     place |-> IF p.saved = NoPlace THEN Station ELSE p.saved,
     adjusted |-> FALSE, image |-> FALSE, preview |-> FALSE, grab |-> {},
     timer |-> "off", kept |-> "nothing", awaiting |-> FALSE, watchdog |-> FALSE,
     reading |-> p.fit, settled |-> NoPlace, touched |-> FALSE,
     sent |-> <<>>]

\* The first view of a level is centered on its saved place but has the zoom of
\* the page: until the restore ran the floorplan shows at another place.
MountedAt(p, at) == [Mounted(p) EXCEPT !.view = at, !.place = at]
FirstPlaces(p) == IF p.saved = NoPlace THEN {Station} ELSE Places
Destroyed(h) == [h EXCEPT !.alive = FALSE]

Send(h, m) == [h EXCEPT !.sent = Append(@, m)]
Push(h, type, place) ==
    Send(h, [type |-> type, gen |-> h.gen, level |-> h.level, place |-> place,
             unsaved |-> h.timer = "dirty"])

-----------------------------------------------------------------------------
\* The readout of the fit: "Measuring" from a change to the answer of the server.

BeginMeasuringState(h) ==
    [h EXCEPT !.watchdog = FALSE, !.awaiting = TRUE, !.reading = "measuring",
              !.kept = IF @ = "nothing" THEN h.reading ELSE @]
AbandonMeasuringState(h) ==
    [h EXCEPT !.watchdog = FALSE, !.awaiting = FALSE, !.kept = "nothing",
              !.reading = IF @ = "measuring" /\ h.kept # "nothing" THEN h.kept ELSE @]
AwaitMeasuringResolution(h) == [h EXCEPT !.awaiting = FALSE, !.watchdog = TRUE]
ReassertMeasuringState(h) ==
    [h EXCEPT !.reading = IF h.awaiting THEN "measuring" ELSE @]

\* The operator has taken the floorplan: a restore that still waits is disposed.
MarkWithoutDisposing(h) == [h EXCEPT !.adjusted = h.restore = NoPlace]
MarkUserAdjusted(h) ==
    IF h.adjusted THEN h ELSE [h EXCEPT !.adjusted = TRUE, !.restore = NoPlace]
MarkPreviewDirty(h) ==
    IF h.preview THEN Push([h EXCEPT !.preview = FALSE], "preview_adjusted", NoPlace) ELSE h
ScheduleTransformInvalidation(h, unsaved) ==
    [BeginMeasuringState(h) EXCEPT !.timer = IF unsaved THEN "dirty" ELSE "clean"]
TransformDidChange(h, previewAdjusted, dirtying) ==
    ScheduleTransformInvalidation(IF previewAdjusted THEN MarkPreviewDirty(h) ELSE h, dirtying)

\* The transform has been still for the debounce window.
TimerFires(h) ==
    LET fired == IF h.image THEN AwaitMeasuringResolution(h) ELSE AbandonMeasuringState(h)
    IN  [Push(fired, "transform_changed", IF h.image THEN h.place ELSE NoPlace)
           EXCEPT !.timer = "off"]

RestoreOverlayAlignment(h) ==
    IF h.adjusted THEN h ELSE [h EXCEPT !.place = h.restore, !.settled = h.restore, !.restore = NoPlace]

\* Without a loaded image there is no alignment to push.
SaveClicked(h) == Push(h, "save_alignment", h.place)
ApplyWithoutAbandoning(h) == Push([h EXCEPT !.timer = "off"], "open_coordinate_review", h.place)
ApplyClicked(h) ==
    Push(AbandonMeasuringState([h EXCEPT !.timer = "off"]), "open_coordinate_review", h.place)

\* The events of the server; one of another generation is rejected.
HandleApplyPreviewTransform(h, place) ==
    IF ~h.image THEN h
    ELSE TransformDidChange([MarkUserAdjusted(h) EXCEPT !.place = place, !.preview = TRUE],
                            FALSE, TRUE)
HandleRestoreSavedTransform(h) ==
    IF h.saved # NoPlace /\ ~h.image THEN h
    ELSE TransformDidChange(
           [h EXCEPT !.place = IF h.saved = NoPlace THEN h.view ELSE h.saved, !.preview = FALSE],
           FALSE, FALSE)
HandleAlignmentSaved(h, place) == [h EXCEPT !.saved = place, !.preview = FALSE]

Receive(h, e) ==
    IF e.gen # h.gen THEN h
    ELSE CASE e.type = "apply_preview_transform" -> HandleApplyPreviewTransform(h, e.place)
           [] e.type = "restore_saved_transform" -> HandleRestoreSavedTransform(h)
           [] e.type = "alignment_saved" -> HandleAlignmentSaved(h, e.place)

-----------------------------------------------------------------------------
\* Gestures in the hook.

Do(h) ==
    /\ hook' = [h EXCEPT !.sent = <<>>]
    /\ up' = up \o h.sent
InHook(h) == hook.alive /\ Do(h) /\ UNCHANGED <<page, srv, db, down, others>>
Counted == events < MaxEvents /\ events' = events + 1
Gesture(h) == Counted /\ InHook(h)
Touches(h) == Gesture([h EXCEPT !.touched = TRUE])
\* What follows by itself is not counted.
Settles(h) == InHook(h) /\ UNCHANGED events

\* The floorplan is dragged, turned or scaled by a grip of its own, each with its
\* own state: a pointer takes the grip, moves it and lets it go.
Grab(g) ==
    g \notin hook.grab /\ Touches([MarkUserAdjusted(hook) EXCEPT !.grab = @ \cup {g}])
Pull(g) ==
    /\ g \in hook.grab
    /\ \E p \in Places \ {hook.place} :
          Touches(TransformDidChange([hook EXCEPT !.place = p], TRUE, TRUE))
LetGo(g) == g \in hook.grab /\ Settles([hook EXCEPT !.grab = @ \ {g}])
Translate == Grab("overlay") \/ Pull("overlay") \/ LetGo("overlay")
Rotate == Grab("rotate") \/ Pull("rotate") \/ LetGo("rotate")
Scale == Grab("scale") \/ Pull("scale") \/ LetGo("scale")
\* A key or a button nudges the floorplan.
AdjustTransform ==
    \E p \in Places \ {hook.place} :
        Touches(TransformDidChange([MarkUserAdjusted(hook) EXCEPT !.place = p], TRUE, TRUE))
\* A recenter and the zoom slider keep the floorplan where it is on the ground.
ChangeView(v) == TransformDidChange([MarkUserAdjusted(hook) EXCEPT !.view = v], FALSE, FALSE)
ApplyCenter == \E v \in Places \ {hook.view} : Touches(ChangeView(v))
HandleZoomSliderInput == \E v \in Places \ {hook.view} : Touches(ChangeView(v))
Save == hook.image /\ Gesture(SaveClicked(hook))
OpenReview == hook.image /\ page.dims /\ Gesture(ApplyClicked(hook))

ImageLoads == ~hook.image /\ Settles(Push([hook EXCEPT !.image = TRUE], "natural_size", NoPlace))
RestoreSettles ==
    /\ hook.restore # NoPlace /\ hook.image
    /\ Settles(RestoreOverlayAlignment(hook))
DebounceEnds == hook.timer # "off" /\ Settles(TimerFires(hook))
WatchdogEnds == hook.watchdog /\ Settles(AbandonMeasuringState(hook))

\* Clicks on controls that the server renders and handles.
Click(m) ==
    /\ Counted
    /\ up' = Append(up, m)
    /\ UNCHANGED <<hook, page, srv, db, down, others>>
ClickRestoreSaved == page.map /\ page.unsaved /\ Click([type |-> "restore_saved_alignment"])
ClickPreview == page.map /\ page.dims /\ Click([type |-> "preview_alignment"])
ClickApplyReview == page.map /\ page.review /\ Click([type |-> "apply_coordinate_review"])
ClickCancelReview == page.map /\ page.review /\ Click([type |-> "cancel_coordinate_review"])
\* The menu offers every level, the one that is shown too.
ClickLevel == \E l \in Levels : Click([type |-> "switch_level", level |-> l])
ClickMode == Click([type |-> "switch_mode", map |-> ~page.map])

-----------------------------------------------------------------------------
\* The LiveView process.

Rendered(s) ==
    [map |-> s.map, level |-> s.level, gen |-> s.gen, saved |-> s.saved, dims |-> s.dims,
     fit |-> s.fit, unsaved |-> s.unsaved, review |-> s.review # NoReview,
     refused |-> s.refused]

\* The error of an apply goes with the review.
Reviewing(s, review) == [s EXCEPT !.review = review, !.refused = FALSE]
ResetMapWorkflow(s) ==
    [s EXCEPT !.gen = @ + 1, !.dims = FALSE, !.preview = "none", !.fit = "none",
              !.unsaved = FALSE, !.review = NoReview, !.refused = FALSE]
LoadLevelData(s, l) == [s EXCEPT !.level = l, !.saved = db[l].place, !.rev = db[l].rev]
CurrentMode(m) == srv.map
Current(m) == srv.map /\ m.gen = srv.gen
Event(s, type, place) == <<[type |-> type, gen |-> s.gen, place |-> place]>>

\* The first event is handled: the assigns become s, and the patch carries es.
Handled(s, es) ==
    /\ up' = Tail(up)
    /\ srv' = s
    /\ down' = IF es = <<>> /\ Rendered(s) = Rendered(srv) THEN down
               ELSE Append(down, [page |-> Rendered(s), events |-> es])
    /\ UNCHANGED <<hook, page, events, others>>
Handles(type) == up # <<>> /\ Head(up).type = type
Ignored(type) == Handles(type) /\ ~Current(Head(up)) /\ Handled(srv, <<>>) /\ UNCHANGED db
HookEvents == {"save_alignment", "open_coordinate_review", "transform_changed",
               "natural_size", "preview_adjusted"}
IgnoreStaleGeneration == \E type \in HookEvents : Ignored(type)

Written(l, place) == [db[l] EXCEPT !.place = place, !.rev = @ + 1]

\* A save is refused when the revision it was loaded at is no longer stored.
HandleSave ==
    /\ Handles("save_alignment") /\ Current(Head(up))
    /\ LET l == srv.level
           place == Head(up).place
           stored == [srv EXCEPT !.saved = place, !.rev = db[l].rev + 1, !.preview = "none",
                                 !.unsaved = FALSE]
       IN  IF srv.rev = db[l].rev
           THEN /\ db' = [db EXCEPT ![l] = Written(l, place)]
                /\ Handled(stored, Event(srv, "alignment_saved", place))
           ELSE /\ Handled([srv EXCEPT !.preview = "error"], <<>>)
                /\ UNCHANGED db

\* The review holds the displayed transform, and the coordinates it would change.
HandleOpenReview ==
    /\ Handles("open_coordinate_review") /\ Current(Head(up))
    /\ LET l == srv.level
           place == Head(up).place
           review == [level |-> l, place |-> place, coords |-> db[l].coords]
       IN  Handled(IF ~srv.dims THEN srv
                   ELSE Reviewing(srv, IF db[l].coords = place THEN NoReview ELSE review),
                   <<>>)
    /\ UNCHANGED db
HandleCancelReview ==
    /\ Handles("cancel_coordinate_review")
    /\ Handled(Reviewing(srv, NoReview), <<>>)
    /\ UNCHANGED db

\* The fingerprint binds the coordinates of the stops.
FingerprintHolds == db[srv.review.level].coords = srv.review.coords
HandleApplyReview ==
    /\ Handles("apply_coordinate_review")
    /\ LET l == srv.review.level
           place == srv.review.place
           closed == Reviewing(srv, NoReview)
           refused == [srv EXCEPT !.refused = TRUE]
           applied == [closed EXCEPT !.saved = place, !.rev = db[l].rev + 1]
       IN  IF srv.review = NoReview \/ ~srv.map \/ l # srv.level
           THEN Handled(srv, <<>>) /\ UNCHANGED db
           ELSE \/ /\ FingerprintHolds
                   /\ db' = [db EXCEPT ![l] = [Written(l, place) EXCEPT !.coords = place]]
                   /\ Handled(applied, Event(srv, "alignment_saved", place))
                \* a stale fingerprint, or transactions that kept conflicting
                \/ Handled(closed, <<>>) /\ UNCHANGED db
                \* an alignment or a write that was refused: the review stays
                \/ Handled(refused, <<>>) /\ UNCHANGED db

ScoreAlignmentFit(l, place) == IF l \in Anchored THEN place ELSE "few"
HandleTransformChanged ==
    /\ Handles("transform_changed") /\ Current(Head(up))
    /\ LET m == Head(up)
       IN  Handled([Reviewing(srv, NoReview) EXCEPT
                       !.unsaved = @ \/ m.unsaved,
                       !.fit = IF m.place = NoPlace THEN @
                               ELSE ScoreAlignmentFit(srv.level, m.place)], <<>>)
    /\ UNCHANGED db
HandleNaturalSize ==
    /\ Handles("natural_size") /\ Current(Head(up))
    /\ Handled([srv EXCEPT !.dims = TRUE], <<>>)
    /\ UNCHANGED db
HandlePreviewAdjusted ==
    /\ Handles("preview_adjusted") /\ Current(Head(up))
    /\ Handled([srv EXCEPT !.preview = IF @ = "ready" THEN "none" ELSE @], <<>>)
    /\ UNCHANGED db
HandlePreviewAlignment ==
    /\ Handles("preview_alignment")
    /\ \/ /\ srv.dims
          /\ Handled([srv EXCEPT !.preview = "ready"],
                     Event(srv, "apply_preview_transform", Inferred[srv.level]))
       \/ Handled([srv EXCEPT !.preview = "error"], <<>>)
    /\ UNCHANGED db
HandleRestoreSaved ==
    /\ Handles("restore_saved_alignment")
    /\ Handled([srv EXCEPT !.preview = "none", !.unsaved = FALSE],
               Event(srv, "restore_saved_transform", NoPlace))
    /\ UNCHANGED db
HandleSwitchLevel ==
    /\ Handles("switch_level")
    /\ Handled(LoadLevelData(ResetMapWorkflow(srv), Head(up).level), <<>>)
    /\ UNCHANGED db
HandleSwitchMode ==
    /\ Handles("switch_mode")
    /\ Handled([ResetMapWorkflow(srv) EXCEPT !.map = Head(up).map], <<>>)
    /\ UNCHANGED db

\* Another editor saves an alignment, or moves a stop.
OtherEditor ==
    /\ others < MaxOthers /\ others' = others + 1
    /\ \E l \in Levels, p \in Places :
          \/ db' = [db EXCEPT ![l] = Written(l, p)]
          \/ db[l].coords # p /\ db' = [db EXCEPT ![l].coords = p]
    /\ UNCHANGED <<hook, page, srv, up, down, events>>

-----------------------------------------------------------------------------
\* A patch arrives.  A reading that changed is written over what the hook wrote,
\* one that did not may be; then updated() runs, surely when the data of the
\* canvas changed, and then the events are handed to the hook.

Remounts(p) == p.map # page.map \/ (p.map /\ p.level # page.level)
DataChanged(p) == <<p.gen, p.saved, p.dims>> # <<page.gen, page.saved, page.dims>>
Patched(h, p, rewritten, updated) ==
    LET shown == [h EXCEPT !.reading = IF p.fit # page.fit \/ rewritten THEN p.fit ELSE @]
    IN  IF DataChanged(p) \/ updated THEN ReassertMeasuringState(shown) ELSE shown
AfterEvents(h, es) == IF es = <<>> \/ ~h.alive THEN h ELSE Receive(h, es[1])

Patch ==
    /\ down # <<>>
    /\ LET p == Head(down).page
           es == Head(down).events
       IN  /\ page' = p
           /\ IF ~Remounts(p)
              THEN \E rewritten, updated \in BOOLEAN :
                     Do(AfterEvents(IF hook.alive THEN Patched(hook, p, rewritten, updated)
                                    ELSE hook, es))
              ELSE IF p.map
              THEN \E at \in FirstPlaces(p) : Do(AfterEvents(MountedAt(p, at), es))
              ELSE Do(Destroyed(hook))
    /\ down' = Tail(down)
    /\ UNCHANGED <<srv, db, events, others>>

Init ==
    /\ db = [l \in Levels |-> [place |-> Saved[l], rev |-> 1, coords |-> NoPlace]]
    /\ srv = [map |-> TRUE, level |-> First, gen |-> 1, saved |-> Saved[First], rev |-> 1,
              dims |-> FALSE, preview |-> "none", fit |-> "none", unsaved |-> FALSE,
              review |-> NoReview, refused |-> FALSE]
    /\ page = Rendered(srv)
    /\ \E at \in FirstPlaces(page) : hook = MountedAt(page, at)
    /\ up = <<>> /\ down = <<>> /\ events = 0 /\ others = 0

Operator ==
    \/ Translate \/ Rotate \/ Scale \/ AdjustTransform
    \/ ApplyCenter \/ HandleZoomSliderInput
    \/ Save \/ OpenReview
    \/ ClickRestoreSaved \/ ClickPreview \/ ClickApplyReview \/ ClickCancelReview
    \/ ClickLevel \/ ClickMode
Browser == ImageLoads \/ RestoreSettles \/ DebounceEnds \/ WatchdogEnds \/ Patch
Server ==
    \/ IgnoreStaleGeneration \/ HandleSave \/ HandleOpenReview \/ HandleCancelReview
    \/ HandleApplyReview \/ HandleTransformChanged \/ HandleNaturalSize
    \/ HandlePreviewAdjusted \/ HandlePreviewAlignment \/ HandleRestoreSaved
    \/ HandleSwitchLevel \/ HandleSwitchMode
Next == Operator \/ Browser \/ Server \/ OtherEditor
Spec == Init /\ [][Next]_vars

-----------------------------------------------------------------------------

\* Whatever a click crosses on its way, a level gets an alignment only from a
\* workspace that showed that level: a save from the floorplan under the hand of
\* the operator over the revision the server had loaded, a review only while the
\* coordinates it showed are still stored (save_alignment and
\* apply_coordinate_review of the LiveView, with current_map_generation?).
Wrote(l) == others' = others /\ db'[l] # db[l]
WritesComeFromTheirLevel ==
    [][\A l \in Levels : Wrote(l) =>
         IF Head(up).type = "save_alignment"
         THEN /\ Head(up).level = l /\ srv.rev = db[l].rev
              /\ db'[l].place = Head(up).place
         ELSE srv.review.coords = db[l].coords /\ srv.level = l]_vars

\* "Measuring" stands in the readout only while something still ends it: the
\* debounced push or the watchdog behind it (_beginMeasuringState and its users).
MeasuringWillEnd ==
    hook.alive /\ hook.reading = "measuring" => hook.timer # "off" \/ hook.watchdog

\* The restore of the saved alignment waits for the layout to be still, and never
\* moves a floorplan or a map that the operator has touched since the mount.
RestoreNeverClobbers ==
    [][hook'.settled \notin {NoPlace, hook.settled} => ~hook.touched]_vars

=============================================================================
