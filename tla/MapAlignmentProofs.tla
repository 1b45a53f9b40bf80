------------------------ MODULE MapAlignmentProofs ------------------------
(***************************************************************************)
(* For any levels, places and numbers of actions: what a click or a        *)
(* gesture writes was meant for the level it is written to, and a late     *)
(* restore does not undo a gesture.                                        *)
(*                                                                         *)
(* The generation of the process only grows, and a new one is drawn with   *)
(* every change of level or mode.  So whatever carries the generation of   *)
(* now (the hook, a page, an event on its way) is of the level of now.     *)
(*                                                                         *)
(* The restore of a saved alignment spares what the operator has touched,  *)
(* because whatever touches the floorplan marks it adjusted first.         *)
(***************************************************************************)
EXTENDS MapAlignment, TLAPS

\* The fields of a hook that the argument is about.
Marked(h) ==
    {"gen", "level", "sent", "adjusted", "grab", "touched", "settled"} \subseteq DOMAIN h

\* Of the generation of now only if it is of the level of now.
Tagged(s, gen, level) ==
    /\ gen \in Nat /\ gen <= s.gen
    /\ gen = s.gen => level = s.level

\* What a hook pushes carries its own generation and level.
OwnMail(h) ==
    /\ Marked(h)
    /\ \E S : h.sent \in Seq(S)
    /\ \A i \in 1..Len(h.sent) :
          /\ h.sent[i].gen = h.gen
          /\ h.sent[i].level = h.level

SameHook(h, g) ==
    /\ g.gen = h.gen /\ g.level = h.level
    /\ g.grab = h.grab /\ g.touched = h.touched /\ g.settled = h.settled
    /\ h.adjusted => g.adjusted

\* A handler of the hook neither changes its marks nor pushes another's mail.
Keeps(h, g) == OwnMail(g) /\ SameHook(h, g)

Grips == {"overlay", "rotate", "scale"}

\* What the operator holds or has touched is marked adjusted.
Guarded(h) == h.grab # {} \/ h.touched => h.adjusted

\* A restore puts a floorplan somewhere only if it was not touched.
Spares(h, g) == g.settled \notin {NoPlace, h.settled} => ~h.touched

\* What a step of the hook comes to.
Carries(h, g) ==
    /\ OwnMail(g) /\ g.gen = h.gen /\ g.level = h.level
    /\ Guarded(g) /\ Spares(h, g)

DbShape ==
    /\ DOMAIN db = Levels
    /\ \A l \in Levels : {"place", "rev", "coords"} \subseteq DOMAIN db[l]

SrvShape == {"gen", "level"} \subseteq DOMAIN srv /\ srv.gen \in Nat

ServerEvents == {"apply_preview_transform", "restore_saved_transform", "alignment_saved"}
Deliverable(es) == es = <<>> \/ es[1].type \in ServerEvents

HookInv ==
    /\ OwnMail(hook) /\ hook.sent = <<>> /\ Guarded(hook)
    /\ Tagged(srv, hook.gen, hook.level)

UpInv ==
    /\ \E S : up \in Seq(S)
    /\ \A i \in 1..Len(up) :
          up[i].type \in HookEvents => Tagged(srv, up[i].gen, up[i].level)

DownInv ==
    /\ \E S : down \in Seq(S)
    /\ \A i \in 1..Len(down) :
          /\ Tagged(srv, down[i].page.gen, down[i].page.level)
          /\ Deliverable(down[i].events)

TagInv == DbShape /\ SrvShape /\ HookInv /\ UpInv /\ DownInv /\ others \in Nat

-----------------------------------------------------------------------------
(* The hook.                                                               *)

LEMMA SendKeeps ==
    ASSUME NEW h, OwnMail(h), NEW m, m.gen = h.gen, m.level = h.level
    PROVE  Keeps(h, Send(h, m))
<1> DEFINE g == Send(h, m)
<1>1. g.sent = Append(h.sent, m) /\ SameHook(h, g) /\ Marked(g)
  BY DEF Send, OwnMail, Marked, SameHook
<1>2. PICK S : h.sent \in Seq(S)
  BY DEF OwnMail
<1> HIDE DEF g
<1>3. g.sent \in Seq(S \cup {m})
  BY <1>1, <1>2
<1>4. ASSUME NEW i \in 1..Len(g.sent)
      PROVE  g.sent[i].gen = g.gen /\ g.sent[i].level = g.level
  <2>1. CASE i = Len(h.sent) + 1
    BY <1>1, <1>2, <2>1 DEF SameHook
  <2>2. CASE i # Len(h.sent) + 1
    <3>1. i \in 1..Len(h.sent) /\ g.sent[i] = h.sent[i]
      BY <1>1, <1>2, <2>2
    <3> QED
      BY <1>1, <3>1 DEF OwnMail, SameHook
  <2> QED
    BY <2>1, <2>2
<1>5. OwnMail(g)
  <2>1. \E Q : g.sent \in Seq(Q)
    BY <1>3
  <2> QED
    BY <1>1, <1>4, <2>1 DEF OwnMail
<1> QED
  BY <1>1, <1>5 DEF Keeps, g

\* A handler that rewrites other fields only.
LEMMA QuietKeeps ==
    ASSUME NEW h, OwnMail(h), NEW g, Marked(g), g.sent = h.sent, SameHook(h, g)
    PROVE  Keeps(h, g)
BY DEF OwnMail, Keeps, SameHook

LEMMA KeepsChain ==
    ASSUME NEW h, NEW g, NEW f, Keeps(h, g), Keeps(g, f)
    PROVE  Keeps(h, f)
BY DEF Keeps, SameHook

LEMMA PushKeeps ==
    ASSUME NEW h, OwnMail(h), NEW type, NEW place
    PROVE  Keeps(h, Push(h, type, place))
<1> DEFINE m == [type |-> type, gen |-> h.gen, level |-> h.level, place |-> place,
                 unsaved |-> h.timer = "dirty"]
<1>1. m.gen = h.gen /\ m.level = h.level
  OBVIOUS
<1> HIDE DEF m
<1>2. Keeps(h, Send(h, m))
  BY <1>1, SendKeeps
<1> QED
  BY <1>2 DEF Push, m

LEMMA BeginKeeps ==
    ASSUME NEW h, OwnMail(h)
    PROVE  Keeps(h, BeginMeasuringState(h))
<1> DEFINE g == BeginMeasuringState(h)
<1>1. Marked(g) /\ g.sent = h.sent /\ SameHook(h, g)
  BY DEF BeginMeasuringState, OwnMail, Marked, SameHook
<1> HIDE DEF g
<1>2. Keeps(h, g)
  BY <1>1, QuietKeeps
<1> QED
  BY <1>2 DEF g

LEMMA AbandonKeeps ==
    ASSUME NEW h, OwnMail(h)
    PROVE  Keeps(h, AbandonMeasuringState(h))
<1> DEFINE g == AbandonMeasuringState(h)
<1>1. Marked(g) /\ g.sent = h.sent /\ SameHook(h, g)
  BY DEF AbandonMeasuringState, OwnMail, Marked, SameHook
<1> HIDE DEF g
<1>2. Keeps(h, g)
  BY <1>1, QuietKeeps
<1> QED
  BY <1>2 DEF g

LEMMA AwaitKeeps ==
    ASSUME NEW h, OwnMail(h)
    PROVE  Keeps(h, AwaitMeasuringResolution(h)) /\ Keeps(h, ReassertMeasuringState(h))
<1> DEFINE g == AwaitMeasuringResolution(h)
           f == ReassertMeasuringState(h)
<1>1. Marked(g) /\ g.sent = h.sent /\ SameHook(h, g)
  BY DEF AwaitMeasuringResolution, OwnMail, Marked, SameHook
<1>2. Marked(f) /\ f.sent = h.sent /\ SameHook(h, f)
  BY DEF ReassertMeasuringState, OwnMail, Marked, SameHook
<1> HIDE DEF g, f
<1>3. Keeps(h, g) /\ Keeps(h, f)
  BY <1>1, <1>2, QuietKeeps
<1> QED
  BY <1>3 DEF g, f

LEMMA AdjustedKeeps ==
    ASSUME NEW h, OwnMail(h)
    PROVE  Keeps(h, MarkUserAdjusted(h))
<1> DEFINE g == MarkUserAdjusted(h)
<1>1. Marked(g) /\ g.sent = h.sent /\ SameHook(h, g)
  BY DEF MarkUserAdjusted, OwnMail, Marked, SameHook
<1> HIDE DEF g
<1>2. Keeps(h, g)
  BY <1>1, QuietKeeps
<1> QED
  BY <1>2 DEF g

LEMMA PreviewKeeps ==
    ASSUME NEW h, OwnMail(h)
    PROVE  Keeps(h, MarkPreviewDirty(h))
<1> DEFINE g == [h EXCEPT !.preview = FALSE]
<1>1. Marked(g) /\ g.sent = h.sent /\ SameHook(h, g)
  BY DEF OwnMail, Marked, SameHook
<1> HIDE DEF g
<1>2. Keeps(h, g) /\ Keeps(h, h)
  BY <1>1, QuietKeeps DEF OwnMail, SameHook
<1>3. Keeps(h, Push(g, "preview_adjusted", NoPlace))
  BY <1>2, PushKeeps, KeepsChain DEF Keeps
<1> QED
  BY <1>2, <1>3 DEF MarkPreviewDirty, g

LEMMA ChangeKeeps ==
    ASSUME NEW h, OwnMail(h), NEW previewAdjusted, NEW dirtying
    PROVE  Keeps(h, TransformDidChange(h, previewAdjusted, dirtying))
<1> DEFINE f == IF previewAdjusted THEN MarkPreviewDirty(h) ELSE h
           b == BeginMeasuringState(f)
           t == IF dirtying THEN "dirty" ELSE "clean"
           g == [b EXCEPT !.timer = t]
<1>1. Keeps(h, h)
  BY QuietKeeps DEF OwnMail, SameHook
<1>2. Keeps(h, f)
  BY <1>1, PreviewKeeps
<1> HIDE DEF f
<1>3. Keeps(h, b)
  BY <1>2, BeginKeeps, KeepsChain DEF Keeps
<1> HIDE DEF b, t
<1>4. Marked(g) /\ g.sent = b.sent /\ SameHook(b, g)
  BY <1>3 DEF Keeps, OwnMail, Marked, SameHook
<1> HIDE DEF g
<1>5. Keeps(h, g)
  BY <1>3, <1>4, QuietKeeps, KeepsChain DEF Keeps
<1>6. g = TransformDidChange(h, previewAdjusted, dirtying)
  BY DEF g, b, t, f, TransformDidChange, ScheduleTransformInvalidation
<1> QED
  BY <1>5, <1>6

LEMMA TimerKeeps ==
    ASSUME NEW h, OwnMail(h)
    PROVE  Keeps(h, TimerFires(h))
<1> DEFINE f == IF h.image THEN AwaitMeasuringResolution(h) ELSE AbandonMeasuringState(h)
           place == IF h.image THEN h.place ELSE NoPlace
           m == Push(f, "transform_changed", place)
           g == [m EXCEPT !.timer = "off"]
<1>1. Keeps(h, f)
  BY AwaitKeeps, AbandonKeeps
<1> HIDE DEF f, place
<1>2. Keeps(h, m)
  BY <1>1, PushKeeps, KeepsChain DEF Keeps
<1> HIDE DEF m
<1>3. Marked(g) /\ g.sent = m.sent /\ SameHook(m, g)
  BY <1>2 DEF Keeps, OwnMail, Marked, SameHook
<1> HIDE DEF g
<1>4. Keeps(h, g)
  BY <1>2, <1>3, QuietKeeps, KeepsChain DEF Keeps
<1>5. g = TimerFires(h)
  BY DEF g, m, f, place, TimerFires
<1> QED
  BY <1>4, <1>5

LEMMA ApplyKeeps ==
    ASSUME NEW h, OwnMail(h)
    PROVE  Keeps(h, ApplyClicked(h)) /\ Keeps(h, SaveClicked(h))
<1> DEFINE g == [h EXCEPT !.timer = "off"]
           a == AbandonMeasuringState(g)
<1>1. Marked(g) /\ g.sent = h.sent /\ SameHook(h, g)
  BY DEF OwnMail, Marked, SameHook
<1> HIDE DEF g
<1>2. Keeps(h, g)
  BY <1>1, QuietKeeps
<1>3. Keeps(h, a)
  BY <1>2, AbandonKeeps, KeepsChain DEF Keeps
<1> HIDE DEF a
<1>4. Keeps(h, Push(a, "open_coordinate_review", h.place))
  BY <1>3, PushKeeps, KeepsChain DEF Keeps
<1> QED
  BY <1>4, PushKeeps DEF ApplyClicked, SaveClicked, a, g

LEMMA KeepsCarries ==
    ASSUME NEW h, NEW g, Keeps(h, g), Guarded(h)
    PROVE  Carries(h, g)
BY DEF Keeps, SameHook, Carries, Guarded, Spares

\* A floorplan that is adjusted is left where it is.
LEMMA RestoreCarries ==
    ASSUME NEW h, OwnMail(h), Guarded(h)
    PROVE  Carries(h, RestoreOverlayAlignment(h))
<1>1. CASE h.adjusted
  BY <1>1 DEF RestoreOverlayAlignment, Carries, Spares
<1>2. CASE ~h.adjusted
  <2> DEFINE g == [h EXCEPT !.place = h.restore, !.settled = h.restore, !.restore = NoPlace]
  <2>1. /\ Marked(g) /\ g.sent = h.sent /\ g.gen = h.gen /\ g.level = h.level
        /\ g.grab = h.grab /\ g.touched = h.touched /\ g.adjusted = h.adjusted
    BY DEF OwnMail, Marked
  <2>2. g = RestoreOverlayAlignment(h)
    BY <1>2 DEF RestoreOverlayAlignment
  <2> HIDE DEF g
  <2>3. OwnMail(g)
    BY <2>1 DEF OwnMail
  <2>4. ~h.touched
    BY <1>2 DEF Guarded
  <2> QED
    BY <2>1, <2>2, <2>3, <2>4 DEF Carries, Guarded, Spares
<1> QED
  BY <1>1, <1>2

LEMMA ReceiveKeeps ==
    ASSUME NEW h, OwnMail(h), NEW e, e.type \in ServerEvents
    PROVE  Keeps(h, Receive(h, e))
<1>0. Keeps(h, h)
  BY QuietKeeps DEF OwnMail, SameHook
<1>1. ASSUME NEW place PROVE Keeps(h, HandleApplyPreviewTransform(h, place))
  <2> DEFINE a == MarkUserAdjusted(h)
             g == [a EXCEPT !.place = place, !.preview = TRUE]
  <2>1. Keeps(h, a)
    BY AdjustedKeeps
  <2> HIDE DEF a
  <2>2. Marked(g) /\ g.sent = a.sent /\ SameHook(a, g)
    BY <2>1 DEF Keeps, OwnMail, Marked, SameHook
  <2> HIDE DEF g
  <2>3. Keeps(h, g)
    BY <2>1, <2>2, QuietKeeps, KeepsChain DEF Keeps
  <2>4. Keeps(h, TransformDidChange(g, FALSE, TRUE))
    BY <2>3, ChangeKeeps, KeepsChain DEF Keeps
  <2> QED
    BY <1>0, <2>4 DEF HandleApplyPreviewTransform, g, a
<1>2. Keeps(h, HandleRestoreSavedTransform(h))
  <2> DEFINE place == IF h.saved = NoPlace THEN h.view ELSE h.saved
             g == [h EXCEPT !.place = place, !.preview = FALSE]
  <2> HIDE DEF place
  <2>1. Marked(g) /\ g.sent = h.sent /\ SameHook(h, g)
    BY DEF OwnMail, Marked, SameHook
  <2> HIDE DEF g
  <2>2. Keeps(h, g)
    BY <2>1, QuietKeeps
  <2>3. Keeps(h, TransformDidChange(g, FALSE, FALSE))
    BY <2>2, ChangeKeeps, KeepsChain DEF Keeps
  <2> QED
    BY <1>0, <2>3 DEF HandleRestoreSavedTransform, g, place
<1>3. ASSUME NEW place PROVE Keeps(h, HandleAlignmentSaved(h, place))
  <2> DEFINE g == HandleAlignmentSaved(h, place)
  <2>1. Marked(g) /\ g.sent = h.sent /\ SameHook(h, g)
    BY DEF HandleAlignmentSaved, OwnMail, Marked, SameHook
  <2> HIDE DEF g
  <2>2. Keeps(h, g)
    BY <2>1, QuietKeeps
  <2> QED
    BY <2>2 DEF g
<1> QED
  BY <1>0, <1>1, <1>2, <1>3 DEF Receive, ServerEvents

-----------------------------------------------------------------------------
(* The channel.                                                            *)

\* What is tagged stays tagged when the process keeps its mark or draws a new one.
Ages ==
    /\ srv'.gen \in Nat /\ srv.gen <= srv'.gen
    /\ srv'.gen = srv.gen => srv'.level = srv.level

LEMMA TagsAge ==
    ASSUME SrvShape, Ages, NEW gen, NEW level, Tagged(srv, gen, level)
    PROVE  Tagged(srv', gen, level)
BY DEF SrvShape, Ages, Tagged

\* A step of the hook sends its mail up.
LEMMA HookSteps ==
    ASSUME TagInv, NEW h, OwnMail(h), Tagged(srv, h.gen, h.level), Guarded(h), Do(h),
           UNCHANGED <<srv, db, others>>, DownInv'
    PROVE  TagInv' /\ hook'.settled = h.settled
<1> DEFINE g == [h EXCEPT !.sent = <<>>]
<1>1. hook' = g /\ up' = up \o h.sent
  BY DEF Do
<1>2. Marked(g) /\ g.sent = <<>> /\ SameHook(h, g)
  BY DEF OwnMail, Marked, SameHook
<1> HIDE DEF g
<1>3. HookInv'
  <2>1. OwnMail(g)
    <3>1. g.sent \in Seq({}) /\ Len(g.sent) = 0
      BY <1>2
    <3> QED
      BY <1>2, <3>1 DEF OwnMail
  <2>2. Tagged(srv', g.gen, g.level)
    BY <1>2 DEF Tagged, SameHook
  <2>3. Marked(hook)' /\ OwnMail(hook)'
    BY <1>1, <2>1 DEF Marked, OwnMail
  <2>4. g.adjusted = h.adjusted
    BY DEF g, OwnMail, Marked
  <2>5. Guarded(hook)'
    BY <1>1, <1>2, <2>4 DEF Guarded, SameHook
  <2> QED
    BY <1>1, <1>2, <2>2, <2>3, <2>5 DEF HookInv, Tagged
<1>4. UpInv'
  <2>1. PICK S : up \in Seq(S)
    BY DEF TagInv, UpInv
  <2>2. PICK Q : h.sent \in Seq(Q)
    BY DEF OwnMail
  <2>3. up' \in Seq(S \cup Q) /\ Len(up') = Len(up) + Len(h.sent)
    BY <1>1, <2>1, <2>2
  <2>4. ASSUME NEW i \in 1..Len(up'), up'[i].type \in HookEvents
        PROVE  Tagged(srv', up'[i].gen, up'[i].level)
    <3>1. CASE i \in 1..Len(up)
      <4>1. up'[i] = up[i]
        BY <1>1, <2>1, <2>2, <3>1
      <4> QED
        BY <2>4, <3>1, <4>1 DEF TagInv, UpInv, Tagged
    <3>2. CASE i \notin 1..Len(up)
      <4>1. i - Len(up) \in 1..Len(h.sent) /\ up'[i] = h.sent[i - Len(up)]
        BY <1>1, <2>1, <2>2, <2>3, <3>2
      <4> QED
        BY <4>1 DEF OwnMail, Tagged
    <3> QED
      BY <3>1, <3>2
  <2>5. \E T : up' \in Seq(T)
    BY <2>3
  <2> QED
    BY <2>4, <2>5 DEF UpInv
<1>5. DbShape' /\ SrvShape' /\ others' \in Nat
  BY DEF TagInv, DbShape, SrvShape
<1> QED
  BY <1>1, <1>2, <1>3, <1>4, <1>5 DEF TagInv, SameHook

LEMMA InHookSteps ==
    ASSUME TagInv, NEW h, Carries(hook, h), InHook(h)
    PROVE  TagInv' /\ Spares(hook, hook')
<1>1. OwnMail(h) /\ Tagged(srv, h.gen, h.level) /\ Guarded(h)
  BY DEF Carries, TagInv, HookInv
<1>2. Do(h) /\ UNCHANGED <<srv, db, others>> /\ UNCHANGED <<srv, down>>
  BY DEF InHook
<1>3. DownInv'
  BY <1>2 DEF TagInv, DownInv, Tagged
<1>4. TagInv' /\ hook'.settled = h.settled
  BY <1>1, <1>2, <1>3, HookSteps
<1> QED
  BY <1>4 DEF Carries, Spares

\* The process takes one event, and its answer carries its mark.
LEMMA ServerSteps ==
    ASSUME TagInv, up # <<>>, NEW s, NEW es, Handled(s, es), Deliverable(es),
           {"gen", "level"} \subseteq DOMAIN s, s.gen \in Nat, srv.gen <= s.gen,
           s.gen = srv.gen => s.level = srv.level, DbShape'
    PROVE  TagInv'
<1> DEFINE m == [page |-> Rendered(s), events |-> es]
<1>1. /\ up' = Tail(up) /\ srv' = s
      /\ down' = down \/ down' = Append(down, m)
      /\ UNCHANGED <<hook, others>>
  BY DEF Handled
<1>2. Ages /\ SrvShape
  BY <1>1 DEF Ages, TagInv
<1>3. m.page.gen = s.gen /\ m.page.level = s.level /\ m.events = es
  BY DEF Rendered
<1> HIDE DEF m
<1>4. Tagged(srv', m.page.gen, m.page.level)
  BY <1>1, <1>3 DEF Tagged
<1>5. HookInv'
  BY <1>1, <1>2, TagsAge DEF TagInv, HookInv, OwnMail, Marked, Guarded
<1>6. UpInv'
  <2>1. PICK S : up \in Seq(S)
    BY DEF TagInv, UpInv
  <2>2. /\ up' \in Seq(S)
        /\ \A i \in 1..Len(up') : i + 1 \in 1..Len(up) /\ up'[i] = up[i + 1]
    BY <1>1, <2>1
  <2>3. ASSUME NEW i \in 1..Len(up'), up'[i].type \in HookEvents
        PROVE  Tagged(srv', up'[i].gen, up'[i].level)
    <3>1. up'[i] = up[i + 1] /\ Tagged(srv, up[i + 1].gen, up[i + 1].level)
      BY <2>2, <2>3 DEF TagInv, UpInv
    <3> QED
      BY <1>2, <3>1, TagsAge
  <2>4. \E T : up' \in Seq(T)
    BY <2>2
  <2> QED
    BY <2>3, <2>4 DEF UpInv
<1>7. DownInv'
  <2>1. PICK S : down \in Seq(S)
    BY DEF TagInv, DownInv
  <2>2. ASSUME NEW i \in 1..Len(down)
        PROVE  Tagged(srv', down[i].page.gen, down[i].page.level) /\ Deliverable(down[i].events)
    <3>1. Tagged(srv, down[i].page.gen, down[i].page.level) /\ Deliverable(down[i].events)
      BY DEF TagInv, DownInv
    <3> QED
      BY <1>2, <3>1, TagsAge
  <2>3. CASE down' = down
    BY <2>1, <2>2, <2>3 DEF DownInv
  <2>4. CASE down' = Append(down, m)
    <3>1. /\ down' \in Seq(S \cup {m}) /\ Len(down') = Len(down) + 1
          /\ \A i \in 1..Len(down) : down'[i] = down[i]
          /\ down'[Len(down) + 1] = m
      BY <2>1, <2>4
    <3>2. ASSUME NEW i \in 1..Len(down')
          PROVE  /\ Tagged(srv', down'[i].page.gen, down'[i].page.level)
                 /\ Deliverable(down'[i].events)
      <4>1. CASE i \in 1..Len(down)
        BY <2>2, <3>1, <4>1
      <4>2. CASE i = Len(down) + 1
        BY <1>3, <1>4, <3>1, <4>2
      <4> QED
        BY <2>1, <3>1, <4>1, <4>2
    <3>3. \E T : down' \in Seq(T)
      BY <3>1
    <3> QED
      BY <3>2, <3>3 DEF DownInv
  <2> QED
    BY <1>1, <2>3, <2>4
<1>8. SrvShape' /\ others' \in Nat
  BY <1>1 DEF SrvShape, TagInv
<1> QED
  BY <1>5, <1>6, <1>7, <1>8 DEF TagInv

-----------------------------------------------------------------------------
(* Every step.                                                             *)

\* A gesture touches a floorplan that is adjusted.
LEMMA TouchCarries ==
    ASSUME NEW h, NEW g, Keeps(h, g), Guarded(h), g.adjusted
    PROVE  Carries(h, [g EXCEPT !.touched = TRUE])
<1> DEFINE f == [g EXCEPT !.touched = TRUE]
<1>1. /\ Marked(f) /\ f.sent = g.sent /\ f.gen = g.gen /\ f.level = g.level
      /\ f.adjusted = g.adjusted /\ f.settled = g.settled
  BY DEF Keeps, OwnMail, Marked
<1> HIDE DEF f
<1>2. OwnMail(f)
  BY <1>1 DEF Keeps, OwnMail
<1>3. f.settled = h.settled /\ f.gen = h.gen /\ f.level = h.level
  BY <1>1 DEF Keeps, SameHook
<1>4. Guarded(f)
  BY <1>1 DEF Guarded
<1>5. Carries(h, f)
  BY <1>2, <1>3, <1>4 DEF Carries, Spares
<1> QED
  BY <1>5 DEF f

LEMMA GestureSteps ==
    ASSUME TagInv, NEW h, Keeps(hook, h), (Touches(h) /\ h.adjusted) \/ Gesture(h) \/ Settles(h)
    PROVE  TagInv' /\ Spares(hook, hook')
<1>0. Guarded(hook)
  BY DEF TagInv, HookInv
<1>1. CASE Touches(h) /\ h.adjusted
  <2>1. InHook([h EXCEPT !.touched = TRUE])
    BY <1>1 DEF Touches, Gesture
  <2>2. Carries(hook, [h EXCEPT !.touched = TRUE])
    BY <1>0, <1>1, TouchCarries
  <2> QED
    BY <2>1, <2>2, InHookSteps
<1>2. CASE Gesture(h) \/ Settles(h)
  <2>1. Carries(hook, h)
    BY <1>0, KeepsCarries
  <2> QED
    BY <1>2, <2>1, InHookSteps DEF Gesture, Settles
<1> QED
  BY <1>1, <1>2

\* A handler that first sets a field that the argument is not about.
LEMMA PlaceKeeps ==
    ASSUME NEW h, OwnMail(h), NEW v
    PROVE  /\ Keeps(h, [h EXCEPT !.place = v])
           /\ Keeps(h, [h EXCEPT !.view = v])
           /\ Keeps(h, [h EXCEPT !.image = v])
<1> DEFINE f1 == [h EXCEPT !.place = v]
           f2 == [h EXCEPT !.view = v]
           f3 == [h EXCEPT !.image = v]
<1>1. Marked(f1) /\ f1.sent = h.sent /\ SameHook(h, f1)
  BY DEF OwnMail, Marked, SameHook
<1>2. Marked(f2) /\ f2.sent = h.sent /\ SameHook(h, f2)
  BY DEF OwnMail, Marked, SameHook
<1>3. Marked(f3) /\ f3.sent = h.sent /\ SameHook(h, f3)
  BY DEF OwnMail, Marked, SameHook
<1> HIDE DEF f1, f2, f3
<1>4. Keeps(h, f1) /\ Keeps(h, f2) /\ Keeps(h, f3)
  BY <1>1, <1>2, <1>3, QuietKeeps
<1> QED
  BY <1>4 DEF f1, f2, f3

LEMMA OperatorInHook ==
    ASSUME TagInv,
           \/ \E g \in Grips : Grab(g) \/ Pull(g) \/ LetGo(g)
           \/ AdjustTransform
           \/ ApplyCenter \/ HandleZoomSliderInput \/ Save \/ OpenReview
           \/ ImageLoads \/ RestoreSettles \/ DebounceEnds \/ WatchdogEnds
    PROVE  TagInv' /\ Spares(hook, hook')
<1>1. OwnMail(hook) /\ Guarded(hook)
  BY DEF TagInv, HookInv
<1>2. Keeps(hook, MarkUserAdjusted(hook)) /\ OwnMail(MarkUserAdjusted(hook))
      /\ MarkUserAdjusted(hook).adjusted
  BY <1>1, AdjustedKeeps DEF Keeps, MarkUserAdjusted, OwnMail, Marked
<1>3. ASSUME NEW grip \in Grips, Grab(grip)
      PROVE  TagInv' /\ Spares(hook, hook')
  <2> DEFINE g == MarkUserAdjusted(hook)
             h == [g EXCEPT !.grab = @ \cup {grip}]
             f == [h EXCEPT !.touched = TRUE]
  <2>1. InHook(f)
    BY <1>3 DEF Grab, Touches, Gesture
  <2>2. OwnMail(g) /\ g.adjusted /\ g.gen = hook.gen /\ g.level = hook.level
        /\ g.settled = hook.settled
    BY <1>2 DEF Keeps, SameHook
  <2> HIDE DEF g
  <2>3. /\ Marked(f) /\ f.sent = g.sent /\ f.gen = g.gen /\ f.level = g.level
        /\ f.adjusted = g.adjusted /\ f.settled = g.settled
    BY <2>2 DEF OwnMail, Marked
  <2> HIDE DEF f
  <2>4. OwnMail(f)
    BY <2>2, <2>3 DEF OwnMail
  <2>5. Guarded(f)
    BY <2>2, <2>3 DEF Guarded
  <2>6. Carries(hook, f)
    BY <2>2, <2>3, <2>4, <2>5 DEF Carries, Spares
  <2> QED
    BY <2>1, <2>6, InHookSteps
<1>4. ASSUME NEW grip \in Grips, Pull(grip)
      PROVE  TagInv' /\ Spares(hook, hook')
  <2>1. PICK p \in Places : Touches(TransformDidChange([hook EXCEPT !.place = p], TRUE, TRUE))
    BY <1>4 DEF Pull
  <2> DEFINE g == [hook EXCEPT !.place = p]
             h == TransformDidChange(g, TRUE, TRUE)
  <2>2. Keeps(hook, g)
    BY <1>1, PlaceKeeps
  <2>3. Touches(h) /\ hook.adjusted
    BY <1>1, <1>4, <2>1 DEF Pull, Guarded
  <2> HIDE DEF g
  <2>4. Keeps(g, h)
    BY <2>2, ChangeKeeps DEF Keeps
  <2> HIDE DEF h
  <2>5. Keeps(hook, h)
    BY <2>2, <2>4, KeepsChain
  <2>6. h.adjusted
    BY <2>3, <2>5 DEF Keeps, SameHook
  <2> QED
    BY <2>3, <2>5, <2>6, GestureSteps
<1>5. ASSUME NEW grip \in Grips, LetGo(grip)
      PROVE  TagInv' /\ Spares(hook, hook')
  <2> DEFINE h == [hook EXCEPT !.grab = @ \ {grip}]
  <2>1. /\ Marked(h) /\ h.sent = hook.sent /\ h.gen = hook.gen /\ h.level = hook.level
        /\ h.adjusted = hook.adjusted /\ h.settled = hook.settled /\ h.touched = hook.touched
        /\ h.grab # {} => hook.grab # {}
    BY <1>1 DEF OwnMail, Marked
  <2>2. InHook(h)
    BY <1>5 DEF LetGo, Settles
  <2> HIDE DEF h
  <2>3. OwnMail(h)
    BY <1>1, <2>1 DEF OwnMail
  <2>4. Guarded(h)
    BY <1>1, <2>1 DEF Guarded
  <2>5. Carries(hook, h)
    BY <2>1, <2>3, <2>4 DEF Carries, Spares
  <2> QED
    BY <2>2, <2>5, InHookSteps
<1>6. CASE AdjustTransform
  <2>1. PICK p \in Places :
           Touches(TransformDidChange([MarkUserAdjusted(hook) EXCEPT !.place = p], TRUE, TRUE))
    BY <1>6 DEF AdjustTransform
  <2> DEFINE g == [MarkUserAdjusted(hook) EXCEPT !.place = p]
             h == TransformDidChange(g, TRUE, TRUE)
  <2>2. Keeps(MarkUserAdjusted(hook), g)
    BY <1>2, PlaceKeeps
  <2>3. Touches(h)
    BY <2>1
  <2> HIDE DEF g
  <2>4. Keeps(g, h) /\ Keeps(hook, g)
    BY <1>2, <2>2, ChangeKeeps, KeepsChain DEF Keeps
  <2> HIDE DEF h
  <2>5. Keeps(hook, h)
    BY <2>4, KeepsChain
  <2>6. h.adjusted
    BY <1>2, <2>2, <2>4 DEF Keeps, SameHook
  <2> QED
    BY <2>3, <2>5, <2>6, GestureSteps
<1>7. ASSUME NEW v, Touches(ChangeView(v))
      PROVE  TagInv' /\ Spares(hook, hook')
  <2> DEFINE g == [MarkUserAdjusted(hook) EXCEPT !.view = v]
             h == TransformDidChange(g, FALSE, FALSE)
  <2>2. Keeps(MarkUserAdjusted(hook), g)
    BY <1>2, PlaceKeeps
  <2>3. Touches(h)
    BY <1>7 DEF ChangeView
  <2> HIDE DEF g
  <2>4. Keeps(g, h) /\ Keeps(hook, g)
    BY <1>2, <2>2, ChangeKeeps, KeepsChain DEF Keeps
  <2> HIDE DEF h
  <2>5. Keeps(hook, h)
    BY <2>4, KeepsChain
  <2>6. h.adjusted
    BY <1>2, <2>2, <2>4 DEF Keeps, SameHook
  <2> QED
    BY <2>3, <2>5, <2>6, GestureSteps
<1>8. CASE ApplyCenter \/ HandleZoomSliderInput
  BY <1>7, <1>8 DEF ApplyCenter, HandleZoomSliderInput
<1>9. CASE Save \/ OpenReview
  <2>1. Keeps(hook, SaveClicked(hook)) /\ Keeps(hook, ApplyClicked(hook))
    BY <1>1, ApplyKeeps
  <2> QED
    BY <1>9, <2>1, GestureSteps DEF Save, OpenReview
<1>10. CASE ImageLoads
  <2> DEFINE g == [hook EXCEPT !.image = TRUE]
             h == Push(g, "natural_size", NoPlace)
  <2>1. Keeps(hook, g)
    BY <1>1, PlaceKeeps
  <2>2. Settles(h)
    BY <1>10 DEF ImageLoads
  <2> HIDE DEF g
  <2>3. Keeps(g, h)
    BY <2>1, PushKeeps DEF Keeps
  <2> HIDE DEF h
  <2> QED
    BY <2>1, <2>2, <2>3, KeepsChain, GestureSteps
<1>11. CASE RestoreSettles
  <2>1. Carries(hook, RestoreOverlayAlignment(hook))
    BY <1>1, RestoreCarries
  <2> QED
    BY <1>11, <2>1, InHookSteps DEF RestoreSettles, Settles
<1>12. CASE DebounceEnds \/ WatchdogEnds
  <2>1. Keeps(hook, TimerFires(hook)) /\ Keeps(hook, AbandonMeasuringState(hook))
    BY <1>1, TimerKeeps, AbandonKeeps
  <2> QED
    BY <1>12, <2>1, GestureSteps DEF DebounceEnds, WatchdogEnds
<1> QED
  BY <1>3, <1>4, <1>5, <1>6, <1>8, <1>9, <1>10, <1>11, <1>12

\* A click is handled by what the process shows when it arrives.
LEMMA ClickSteps ==
    ASSUME TagInv,
           \/ ClickRestoreSaved \/ ClickPreview \/ ClickApplyReview \/ ClickCancelReview
           \/ ClickLevel \/ ClickMode
    PROVE  TagInv'
<1>0. /\ [type |-> "restore_saved_alignment"].type \notin HookEvents
      /\ [type |-> "preview_alignment"].type \notin HookEvents
      /\ [type |-> "apply_coordinate_review"].type \notin HookEvents
      /\ [type |-> "cancel_coordinate_review"].type \notin HookEvents
      /\ \A l : [type |-> "switch_level", level |-> l].type \notin HookEvents
      /\ \A on : [type |-> "switch_mode", map |-> on].type \notin HookEvents
  BY DEF HookEvents
<1>1. PICK m : Click(m) /\ m.type \notin HookEvents
  <2>1. CASE ClickRestoreSaved
    BY <1>0, <2>1 DEF ClickRestoreSaved
  <2>2. CASE ClickPreview
    BY <1>0, <2>2 DEF ClickPreview
  <2>3. CASE ClickApplyReview
    BY <1>0, <2>3 DEF ClickApplyReview
  <2>4. CASE ClickCancelReview
    BY <1>0, <2>4 DEF ClickCancelReview
  <2>5. CASE ClickLevel
    BY <1>0, <2>5 DEF ClickLevel
  <2>6. CASE ClickMode
    BY <1>0, <2>6 DEF ClickMode
  <2> QED
    BY <2>1, <2>2, <2>3, <2>4, <2>5, <2>6
<1>2. up' = Append(up, m) /\ UNCHANGED <<hook, srv, db, down, others>>
  BY <1>1 DEF Click
<1>3. UpInv'
  <2>1. PICK S : up \in Seq(S)
    BY DEF TagInv, UpInv
  <2>2. /\ up' \in Seq(S \cup {m}) /\ Len(up') = Len(up) + 1
        /\ \A i \in 1..Len(up) : up'[i] = up[i]
        /\ up'[Len(up) + 1] = m
    BY <1>2, <2>1
  <2>3. ASSUME NEW i \in 1..Len(up'), up'[i].type \in HookEvents
        PROVE  Tagged(srv', up'[i].gen, up'[i].level)
    <3>1. i \in 1..Len(up)
      BY <1>1, <2>1, <2>2, <2>3
    <3>2. up'[i] = up[i] /\ Tagged(srv, up[i].gen, up[i].level)
      BY <2>2, <2>3, <3>1 DEF TagInv, UpInv
    <3> QED
      BY <1>2, <3>2 DEF Tagged
  <2>4. \E T : up' \in Seq(T)
    BY <2>2
  <2> QED
    BY <2>3, <2>4 DEF UpInv
<1>4. HookInv'
  BY <1>2 DEF TagInv, HookInv, OwnMail, Marked, Guarded, Tagged
<1>5. DownInv'
  BY <1>2 DEF TagInv, DownInv, Tagged
<1>6. DbShape' /\ SrvShape' /\ others' \in Nat
  BY <1>2 DEF TagInv, DbShape, SrvShape
<1> QED
  BY <1>3, <1>4, <1>5, <1>6 DEF TagInv

LEMMA MountOwn ==
    ASSUME NEW p, NEW at
    PROVE  /\ OwnMail(MountedAt(p, at)) /\ MountedAt(p, at).sent = <<>>
           /\ MountedAt(p, at).gen = p.gen /\ MountedAt(p, at).level = p.level
           /\ Guarded(MountedAt(p, at)) /\ MountedAt(p, at).settled = NoPlace
<1> DEFINE h == MountedAt(p, at)
<1>1. /\ Marked(h) /\ h.sent = <<>> /\ h.gen = p.gen /\ h.level = p.level
      /\ Guarded(h) /\ h.settled = NoPlace
  BY DEF MountedAt, Mounted, Marked, Guarded
<1> HIDE DEF h
<1>2. h.sent \in Seq({}) /\ Len(h.sent) = 0
  BY <1>1
<1>3. OwnMail(h)
  BY <1>1, <1>2 DEF OwnMail
<1> QED
  BY <1>1, <1>3 DEF h

LEMMA EventsKeep ==
    ASSUME NEW h, OwnMail(h), NEW es, Deliverable(es)
    PROVE  Keeps(h, AfterEvents(h, es))
<1>1. Keeps(h, h)
  BY QuietKeeps DEF OwnMail, SameHook
<1>2. es # <<>> => Keeps(h, Receive(h, es[1]))
  BY ReceiveKeeps DEF Deliverable
<1> QED
  BY <1>1, <1>2 DEF AfterEvents

LEMMA PatchedKeeps ==
    ASSUME NEW h, OwnMail(h), NEW p, NEW rewritten, NEW updated
    PROVE  Keeps(h, Patched(h, p, rewritten, updated))
<1> DEFINE g == [h EXCEPT !.reading = IF p.fit # page.fit \/ rewritten THEN p.fit ELSE @]
<1>1. Marked(g) /\ g.sent = h.sent /\ SameHook(h, g)
  BY DEF OwnMail, Marked, SameHook
<1>2. Patched(h, p, rewritten, updated)
        = IF DataChanged(p) \/ updated THEN ReassertMeasuringState(g) ELSE g
  BY DEF Patched
<1> HIDE DEF g
<1>3. Keeps(h, g)
  BY <1>1, QuietKeeps
<1>4. Keeps(h, ReassertMeasuringState(g))
  BY <1>3, AwaitKeeps, KeepsChain DEF Keeps
<1> QED
  BY <1>2, <1>3, <1>4

LEMMA PatchSteps ==
    ASSUME TagInv, Patch
    PROVE  TagInv' /\ Spares(hook, hook')
<1> DEFINE p == Head(down).page
           es == Head(down).events
<1>1. /\ down # <<>> /\ down' = Tail(down)
      /\ UNCHANGED <<srv, db, others>>
  BY DEF Patch
<1>2. PICK S : down \in Seq(S)
  BY DEF TagInv, DownInv
<1>3. Tagged(srv, p.gen, p.level) /\ Deliverable(es)
  <2>1. 1 \in 1..Len(down) /\ Head(down) = down[1]
    BY <1>1, <1>2
  <2> QED
    BY <2>1 DEF TagInv, DownInv
<1>4. DownInv'
  <2>1. /\ down' \in Seq(S)
        /\ \A i \in 1..Len(down') : i + 1 \in 1..Len(down) /\ down'[i] = down[i + 1]
    BY <1>1, <1>2
  <2>2. ASSUME NEW i \in 1..Len(down')
        PROVE  /\ Tagged(srv', down'[i].page.gen, down'[i].page.level)
               /\ Deliverable(down'[i].events)
    <3>1. i + 1 \in 1..Len(down) /\ down'[i] = down[i + 1]
      BY <2>1
    <3>2. Tagged(srv, down[i + 1].page.gen, down[i + 1].page.level)
          /\ Deliverable(down[i + 1].events)
      BY <3>1 DEF TagInv, DownInv
    <3> QED
      BY <1>1, <3>1, <3>2 DEF Tagged
  <2>3. \E T : down' \in Seq(T)
    BY <2>1
  <2> QED
    BY <2>2, <2>3 DEF DownInv
<1>5. PICK h : /\ Do(h) /\ OwnMail(h) /\ Tagged(srv, h.gen, h.level)
               /\ Guarded(h) /\ h.settled \in {NoPlace, hook.settled}
  <2>0. OwnMail(hook) /\ Tagged(srv, hook.gen, hook.level) /\ Guarded(hook)
    BY DEF TagInv, HookInv
  <2>1. CASE ~Remounts(p)
    <3>1. PICK rewritten, updated \in BOOLEAN :
             Do(AfterEvents(IF hook.alive THEN Patched(hook, p, rewritten, updated)
                            ELSE hook, es))
      BY <2>1 DEF Patch
    <3> DEFINE g == IF hook.alive THEN Patched(hook, p, rewritten, updated) ELSE hook
               f == AfterEvents(g, es)
    <3>2. Do(f)
      BY <3>1
    <3>3. Keeps(hook, g)
      BY <2>0, PatchedKeeps, QuietKeeps DEF OwnMail, SameHook
    <3> HIDE DEF g
    <3>4. Keeps(g, f)
      BY <1>3, <3>3, EventsKeep DEF Keeps
    <3> HIDE DEF f
    <3>5. Keeps(hook, f)
      BY <3>3, <3>4, KeepsChain
    <3>6. OwnMail(f) /\ Tagged(srv, f.gen, f.level) /\ Guarded(f) /\ f.settled = hook.settled
      BY <2>0, <3>5 DEF Keeps, SameHook, Guarded
    <3> QED
      BY <3>2, <3>6
  <2>2. CASE Remounts(p) /\ p.map
    <3>1. PICK at \in FirstPlaces(p) : Do(AfterEvents(MountedAt(p, at), es))
      BY <2>2 DEF Patch
    <3> DEFINE g == MountedAt(p, at)
               f == AfterEvents(g, es)
    <3>2. Do(f)
      BY <3>1
    <3>3. /\ OwnMail(g) /\ g.gen = p.gen /\ g.level = p.level
          /\ Guarded(g) /\ g.settled = NoPlace
      BY MountOwn
    <3> HIDE DEF g
    <3>4. Keeps(g, f)
      BY <1>3, <3>3, EventsKeep
    <3> HIDE DEF f
    <3>5. OwnMail(f) /\ Tagged(srv, f.gen, f.level) /\ Guarded(f) /\ f.settled = NoPlace
      BY <1>3, <3>3, <3>4 DEF Keeps, SameHook, Guarded
    <3> QED
      BY <3>2, <3>5
  <2>3. CASE Remounts(p) /\ ~p.map
    <3> DEFINE f == Destroyed(hook)
    <3>1. Do(f)
      BY <2>3 DEF Patch
    <3>2. Marked(f) /\ f.sent = hook.sent /\ SameHook(hook, f)
      BY <2>0 DEF Destroyed, OwnMail, Marked, SameHook
    <3> HIDE DEF f
    <3>3. Keeps(hook, f)
      BY <2>0, <3>2, QuietKeeps
    <3>4. OwnMail(f) /\ Tagged(srv, f.gen, f.level) /\ Guarded(f) /\ f.settled = hook.settled
      BY <2>0, <3>3 DEF Keeps, SameHook, Guarded
    <3> QED
      BY <3>1, <3>4
  <2> QED
    BY <2>1, <2>2, <2>3
<1>6. TagInv' /\ hook'.settled = h.settled
  BY <1>1, <1>4, <1>5, HookSteps
<1> QED
  BY <1>5, <1>6 DEF Spares

-----------------------------------------------------------------------------
(* The process.                                                            *)

LEMMA WritesKeepShape ==
    ASSUME DbShape, NEW l, NEW r, {"place", "rev", "coords"} \subseteq DOMAIN r,
           db' = [db EXCEPT ![l] = r]
    PROVE  DbShape'
BY DEF DbShape

LEMMA WrittenShape ==
    ASSUME DbShape, NEW l \in Levels, NEW p, NEW v
    PROVE  /\ {"place", "rev", "coords"} \subseteq DOMAIN Written(l, p)
           /\ {"place", "rev", "coords"} \subseteq DOMAIN [Written(l, p) EXCEPT !.coords = v]
           /\ {"place", "rev", "coords"} \subseteq DOMAIN [db[l] EXCEPT !.coords = v]
BY DEF DbShape, Written

\* An answer that leaves the mark of the process alone.
SameMark(s) == {"gen", "level"} \subseteq DOMAIN s /\ s.gen = srv.gen /\ s.level = srv.level

LEMMA SameMarkSteps ==
    ASSUME TagInv, up # <<>>, NEW s, NEW es, Handled(s, es), Deliverable(es),
           SameMark(s), DbShape'
    PROVE  TagInv'
BY ServerSteps DEF SameMark, TagInv, SrvShape

LEMMA EventDeliverable ==
    ASSUME NEW s, NEW type \in ServerEvents, NEW place
    PROVE  Deliverable(Event(s, type, place)) /\ Deliverable(<<>>)
BY DEF Deliverable, Event

LEMMA KeptShape ==
    ASSUME TagInv, UNCHANGED db
    PROVE  DbShape'
BY DEF TagInv, DbShape

LEMMA SaveSteps ==
    ASSUME TagInv, HandleSave
    PROVE  TagInv'
<1> DEFINE l == srv.level
           place == Head(up).place
           stored == [srv EXCEPT !.saved = place, !.rev = db[l].rev + 1, !.preview = "none",
                                 !.unsaved = FALSE]
           refused == [srv EXCEPT !.preview = "error"]
           es == Event(srv, "alignment_saved", place)
<1>1. up # <<>>
  BY DEF HandleSave, Handles
<1>2. Deliverable(es) /\ Deliverable(<<>>)
  BY EventDeliverable DEF ServerEvents
<1>3. SameMark(stored) /\ SameMark(refused)
  BY DEF SameMark, TagInv, SrvShape
<1>4. CASE srv.rev = db[l].rev
  <2>1. db' = [db EXCEPT ![l] = Written(l, place)] /\ Handled(stored, es)
    BY <1>4 DEF HandleSave
  <2>2. DbShape'
    <3>1. CASE l \in Levels
      BY <2>1, <3>1, WrittenShape, WritesKeepShape DEF TagInv
    <3>2. CASE l \notin Levels
      BY <2>1, <3>2 DEF TagInv, DbShape
    <3> QED
      BY <3>1, <3>2
  <2> HIDE DEF stored, es
  <2> QED
    BY <1>1, <1>2, <1>3, <2>1, <2>2, SameMarkSteps
<1>5. CASE srv.rev # db[l].rev
  <2>1. UNCHANGED db /\ Handled(refused, <<>>)
    BY <1>5 DEF HandleSave
  <2> HIDE DEF refused
  <2> QED
    BY <1>1, <1>2, <1>3, <2>1, KeptShape, SameMarkSteps
<1> QED
  BY <1>4, <1>5

LEMMA ApplyReviewSteps ==
    ASSUME TagInv, HandleApplyReview
    PROVE  TagInv'
<1> DEFINE l == srv.review.level
           place == srv.review.place
           closed == Reviewing(srv, NoReview)
           refused == [srv EXCEPT !.refused = TRUE]
           applied == [closed EXCEPT !.saved = place, !.rev = db[l].rev + 1]
           es == Event(srv, "alignment_saved", place)
<1>1. up # <<>>
  BY DEF HandleApplyReview, Handles
<1>2. Deliverable(es) /\ Deliverable(<<>>)
  BY EventDeliverable DEF ServerEvents
<1>3. SameMark(srv) /\ SameMark(closed) /\ SameMark(refused) /\ SameMark(applied)
  BY DEF SameMark, TagInv, SrvShape, Reviewing
<1>4. \/ UNCHANGED db /\ (Handled(srv, <<>>) \/ Handled(closed, <<>>) \/ Handled(refused, <<>>))
      \/ /\ db' = [db EXCEPT ![l] = [Written(l, place) EXCEPT !.coords = place]]
         /\ Handled(applied, es)
  BY DEF HandleApplyReview
<1>5. DbShape'
  <2>1. CASE UNCHANGED db
    BY <2>1, KeptShape
  <2>2. CASE db' = [db EXCEPT ![l] = [Written(l, place) EXCEPT !.coords = place]]
    <3>1. CASE l \in Levels
      BY <2>2, <3>1, WrittenShape, WritesKeepShape DEF TagInv
    <3>2. CASE l \notin Levels
      BY <2>2, <3>2 DEF TagInv, DbShape
    <3> QED
      BY <3>1, <3>2
  <2> QED
    BY <1>4, <2>1, <2>2
<1> HIDE DEF closed, refused, applied, es
<1> QED
  BY <1>1, <1>2, <1>3, <1>4, <1>5, SameMarkSteps

\* The handlers that neither write nor draw a generation.
LEMMA PlainSteps ==
    ASSUME TagInv,
           \/ IgnoreStaleGeneration \/ HandleOpenReview \/ HandleCancelReview
           \/ HandleTransformChanged \/ HandleNaturalSize \/ HandlePreviewAdjusted
           \/ HandlePreviewAlignment \/ HandleRestoreSaved
    PROVE  TagInv'
<1>1. ASSUME NEW s, NEW es, up # <<>>, UNCHANGED db, Handled(s, es), SameMark(s), Deliverable(es)
      PROVE  TagInv'
  BY <1>1, KeptShape, SameMarkSteps
<1>2. \A v : /\ SameMark(Reviewing(srv, v)) /\ SameMark([srv EXCEPT !.preview = v])
             /\ SameMark([srv EXCEPT !.dims = v]) /\ SameMark(srv)
  BY DEF SameMark, TagInv, SrvShape, Reviewing
<1>3. /\ Deliverable(<<>>)
      /\ \A p : /\ Deliverable(Event(srv, "apply_preview_transform", p))
                /\ Deliverable(Event(srv, "restore_saved_transform", p))
  BY EventDeliverable DEF ServerEvents
<1>4. CASE IgnoreStaleGeneration
  BY <1>1, <1>2, <1>3, <1>4 DEF IgnoreStaleGeneration, Ignored, Handles
<1>5. CASE HandleOpenReview
  <2> DEFINE l == srv.level
             place == Head(up).place
             review == [level |-> l, place |-> place, coords |-> db[l].coords]
             v == IF db[l].coords = place THEN NoReview ELSE review
             opened == Reviewing(srv, v)
             s == IF ~srv.dims THEN srv ELSE opened
  <2>1. Handled(s, <<>>) /\ UNCHANGED db /\ up # <<>>
    BY <1>5 DEF HandleOpenReview, Handles
  <2> HIDE DEF v
  <2>2. SameMark(opened)
    BY <1>2
  <2> HIDE DEF opened
  <2>3. SameMark(s)
    BY <1>2, <2>2
  <2> HIDE DEF s
  <2> QED
    BY <1>1, <1>3, <2>1, <2>3
<1>6. CASE HandleCancelReview
  BY <1>1, <1>2, <1>3, <1>6 DEF HandleCancelReview, Handles
<1>7. CASE HandleTransformChanged
  <2> DEFINE m == Head(up)
             s == [Reviewing(srv, NoReview) EXCEPT
                     !.unsaved = @ \/ m.unsaved,
                     !.fit = IF m.place = NoPlace THEN @
                             ELSE ScoreAlignmentFit(srv.level, m.place)]
  <2>1. Handled(s, <<>>) /\ UNCHANGED db /\ up # <<>>
    BY <1>7 DEF HandleTransformChanged, Handles
  <2>2. SameMark(s)
    BY DEF SameMark, TagInv, SrvShape, Reviewing
  <2> HIDE DEF s
  <2> QED
    BY <1>1, <1>3, <2>1, <2>2
<1>8. CASE HandleNaturalSize
  BY <1>1, <1>2, <1>3, <1>8 DEF HandleNaturalSize, Handles
<1>9. CASE HandlePreviewAdjusted
  BY <1>1, <1>2, <1>3, <1>9 DEF HandlePreviewAdjusted, Handles
<1>10. CASE HandlePreviewAlignment
  BY <1>1, <1>2, <1>3, <1>10 DEF HandlePreviewAlignment, Handles
<1>11. CASE HandleRestoreSaved
  <2> DEFINE s == [srv EXCEPT !.preview = "none", !.unsaved = FALSE]
             es == Event(srv, "restore_saved_transform", NoPlace)
  <2>1. Handled(s, es) /\ UNCHANGED db /\ up # <<>>
    BY <1>11 DEF HandleRestoreSaved, Handles
  <2>2. SameMark(s)
    BY DEF SameMark, TagInv, SrvShape
  <2>3. Deliverable(es)
    BY <1>3
  <2> HIDE DEF s, es
  <2> QED
    BY <1>1, <2>1, <2>2, <2>3
<1> QED
  BY <1>4, <1>5, <1>6, <1>7, <1>8, <1>9, <1>10, <1>11

\* A change of level or mode draws a new generation.
LEMMA SwitchSteps ==
    ASSUME TagInv, HandleSwitchLevel \/ HandleSwitchMode
    PROVE  TagInv'
<1>1. Deliverable(<<>>)
  BY DEF Deliverable
<1>2. ASSUME NEW s, up # <<>>, UNCHANGED db, Handled(s, <<>>),
             {"gen", "level"} \subseteq DOMAIN s, s.gen = srv.gen + 1
      PROVE  TagInv'
  <2>1. s.gen \in Nat /\ srv.gen <= s.gen /\ s.gen # srv.gen
    BY <1>2 DEF TagInv, SrvShape
  <2> QED
    BY <1>1, <1>2, <2>1, KeptShape, ServerSteps
<1>3. CASE HandleSwitchLevel
  <2> DEFINE s == LoadLevelData(ResetMapWorkflow(srv), Head(up).level)
  <2>1. Handled(s, <<>>) /\ UNCHANGED db /\ up # <<>>
    BY <1>3 DEF HandleSwitchLevel, Handles
  <2>2. {"gen", "level"} \subseteq DOMAIN s /\ s.gen = srv.gen + 1
    BY DEF LoadLevelData, ResetMapWorkflow, TagInv, SrvShape
  <2> HIDE DEF s
  <2> QED
    BY <1>2, <2>1, <2>2
<1>4. CASE HandleSwitchMode
  <2> DEFINE s == [ResetMapWorkflow(srv) EXCEPT !.map = Head(up).map]
  <2>1. Handled(s, <<>>) /\ UNCHANGED db /\ up # <<>>
    BY <1>4 DEF HandleSwitchMode, Handles
  <2>2. {"gen", "level"} \subseteq DOMAIN s /\ s.gen = srv.gen + 1
    BY DEF ResetMapWorkflow, TagInv, SrvShape
  <2> HIDE DEF s
  <2> QED
    BY <1>2, <2>1, <2>2
<1> QED
  BY <1>3, <1>4

LEMMA OthersWrite ==
    ASSUME TagInv, OtherEditor
    PROVE  TagInv'
<1>1. PICK l \in Levels, p \in Places :
         \/ db' = [db EXCEPT ![l] = Written(l, p)]
         \/ db' = [db EXCEPT ![l].coords = p]
  BY DEF OtherEditor
<1>2. UNCHANGED <<hook, srv, up, down>> /\ others' = others + 1
  BY DEF OtherEditor
<1>3. DbShape'
  <2>1. CASE db' = [db EXCEPT ![l] = Written(l, p)]
    BY <2>1, WrittenShape, WritesKeepShape DEF TagInv
  <2>2. CASE db' = [db EXCEPT ![l].coords = p]
    <3>1. db' = [db EXCEPT ![l] = [db[l] EXCEPT !.coords = p]]
      BY <2>2
    <3> QED
      BY <3>1, WrittenShape, WritesKeepShape DEF TagInv
  <2> QED
    BY <1>1, <2>1, <2>2
<1>4. HookInv'
  BY <1>2 DEF TagInv, HookInv, OwnMail, Marked, Guarded, Tagged
<1>5. UpInv'
  BY <1>2 DEF TagInv, UpInv, Tagged
<1>6. DownInv'
  BY <1>2 DEF TagInv, DownInv, Tagged
<1>7. SrvShape' /\ others' \in Nat
  BY <1>2 DEF TagInv, SrvShape
<1> QED
  BY <1>3, <1>4, <1>5, <1>6, <1>7 DEF TagInv

LEMMA Starts ==
    ASSUME Init
    PROVE  TagInv
<1>1. DbShape
  BY DEF Init, DbShape
<1>2. SrvShape /\ srv.gen = 1 /\ srv.level = First
  BY DEF Init, SrvShape
<1>3. page.gen = srv.gen /\ page.level = srv.level
  BY DEF Init, Rendered
<1>4. PICK at : hook = MountedAt(page, at)
  BY DEF Init
<1>5. /\ OwnMail(hook) /\ hook.sent = <<>> /\ Guarded(hook)
      /\ hook.gen = srv.gen /\ hook.level = srv.level
  BY <1>3, <1>4, MountOwn
<1>6. HookInv
  BY <1>2, <1>5 DEF HookInv, Tagged
<1>7. up \in Seq({}) /\ Len(up) = 0 /\ down \in Seq({}) /\ Len(down) = 0
  BY DEF Init
<1>8. UpInv /\ DownInv
  BY <1>7 DEF UpInv, DownInv
<1>9. others \in Nat
  BY DEF Init
<1> QED
  BY <1>1, <1>2, <1>6, <1>8, <1>9 DEF TagInv

LEMMA TagSteps ==
    ASSUME TagInv, [Next]_vars
    PROVE  TagInv'
<1>1. CASE Operator
  BY <1>1, OperatorInHook, ClickSteps DEF Operator, Translate, Rotate, Scale, Grips
<1>2. CASE Browser
  BY <1>2, OperatorInHook, PatchSteps DEF Browser
<1>3. CASE Server
  BY <1>3, SaveSteps, ApplyReviewSteps, PlainSteps, SwitchSteps DEF Server
<1>4. CASE UNCHANGED vars
  <2>1. UNCHANGED <<hook, srv, db, up, down, others>>
    BY <1>4 DEF vars
  <2>2. HookInv'
    BY <2>1 DEF TagInv, HookInv, OwnMail, Marked, Guarded, Tagged
  <2>3. UpInv'
    BY <2>1 DEF TagInv, UpInv, Tagged
  <2>4. DownInv'
    BY <2>1 DEF TagInv, DownInv, Tagged
  <2>5. DbShape' /\ SrvShape' /\ others' \in Nat
    BY <2>1 DEF TagInv, DbShape, SrvShape
  <2> QED
    BY <2>2, <2>3, <2>4, <2>5 DEF TagInv
<1> QED
  BY <1>1, <1>2, <1>3, <1>4, OthersWrite DEF Next

-----------------------------------------------------------------------------
(* What is written.                                                        *)

LEMMA WritingSteps ==
    ASSUME TagInv, [Next]_vars, others' = others, db' # db
    PROVE  HandleSave \/ HandleApplyReview
<1>1. ~OtherEditor
  BY DEF OtherEditor, TagInv
<1>2. Operator \/ Browser => UNCHANGED db
  BY DEF Operator, Browser, Translate, Rotate, Scale, Grab, Pull, LetGo, AdjustTransform, ApplyCenter,
         HandleZoomSliderInput, Save, OpenReview, ClickRestoreSaved, ClickPreview,
         ClickApplyReview, ClickCancelReview, ClickLevel, ClickMode, ImageLoads,
         RestoreSettles, DebounceEnds, WatchdogEnds, Patch, Touches, Gesture, Settles,
         InHook, Click
<1>3. Server => UNCHANGED db \/ HandleSave \/ HandleApplyReview
  BY DEF Server, IgnoreStaleGeneration, Ignored, HandleOpenReview, HandleCancelReview,
         HandleTransformChanged, HandleNaturalSize, HandlePreviewAdjusted,
         HandlePreviewAlignment, HandleRestoreSaved, HandleSwitchLevel, HandleSwitchMode
<1> QED
  BY <1>1, <1>2, <1>3 DEF Next, vars

LEMMA SaveWritesItsLevel ==
    ASSUME TagInv, HandleSave, NEW l \in Levels, db'[l] # db[l]
    PROVE  /\ Head(up).type = "save_alignment" /\ Head(up).level = l
           /\ srv.rev = db[l].rev /\ db'[l].place = Head(up).place
<1>1. /\ up # <<>> /\ Head(up).type = "save_alignment" /\ Head(up).gen = srv.gen
      /\ srv.rev = db[srv.level].rev
      /\ db' = [db EXCEPT ![srv.level] = Written(srv.level, Head(up).place)]
  BY DEF HandleSave, Handles, Current
<1>2. l = srv.level
  BY <1>1 DEF TagInv, DbShape
<1>3. PICK S : up \in Seq(S)
  BY DEF TagInv, UpInv
<1>4. 1 \in 1..Len(up) /\ Head(up) = up[1]
  BY <1>1, <1>3
<1>5. Tagged(srv, Head(up).gen, Head(up).level)
  BY <1>1, <1>4 DEF TagInv, UpInv, HookEvents
<1>6. Head(up).level = l
  BY <1>1, <1>2, <1>5 DEF Tagged
<1>7. db'[l].place = Head(up).place
  BY <1>1, <1>2 DEF TagInv, DbShape, Written
<1> QED
  BY <1>1, <1>2, <1>6, <1>7

LEMMA ReviewWritesItsLevel ==
    ASSUME TagInv, HandleApplyReview, NEW l \in Levels, db'[l] # db[l]
    PROVE  /\ Head(up).type # "save_alignment"
           /\ srv.review.coords = db[l].coords /\ srv.level = l
<1> DEFINE k == srv.review.level
           r == [Written(k, srv.review.place) EXCEPT !.coords = srv.review.place]
<1>1. /\ Head(up).type = "apply_coordinate_review" /\ k = srv.level
      /\ FingerprintHolds /\ db' = [db EXCEPT ![k] = r]
  BY DEF HandleApplyReview, Handles
<1>2. l = k
  BY <1>1 DEF TagInv, DbShape
<1> QED
  BY <1>1, <1>2 DEF FingerprintHolds

LEMMA OnlyTheHookMoves ==
    ASSUME TagInv, [Next]_vars
    PROVE  Spares(hook, hook')
<1>1. UNCHANGED hook => Spares(hook, hook')
  BY DEF Spares
<1>2. CASE Operator
  BY <1>1, <1>2, OperatorInHook
     DEF Operator, Translate, Rotate, Scale, Grips, Click, ClickRestoreSaved, ClickPreview, ClickApplyReview, ClickCancelReview,
         ClickLevel, ClickMode
<1>3. CASE Browser
  BY <1>3, OperatorInHook, PatchSteps DEF Browser
<1>4. CASE Server
  BY <1>1, <1>4
     DEF Server, Handled, IgnoreStaleGeneration, Ignored, HandleSave, HandleOpenReview,
         HandleCancelReview, HandleApplyReview, HandleTransformChanged, HandleNaturalSize,
         HandlePreviewAdjusted, HandlePreviewAlignment, HandleRestoreSaved, HandleSwitchLevel,
         HandleSwitchMode
<1>5. OtherEditor \/ UNCHANGED vars => UNCHANGED hook
  BY DEF OtherEditor, vars
<1> QED
  BY <1>1, <1>2, <1>3, <1>4, <1>5 DEF Next

\* Whatever a click crosses on its way, a level is written only from a workspace
\* that showed it, over what the operator was shown (save_alignment and
\* apply_coordinate_review, behind current_map_generation?).
THEOREM WritesAreTagged == Spec => WritesComeFromTheirLevel
<1> DEFINE W == \A l \in Levels : Wrote(l) =>
                   IF Head(up).type = "save_alignment"
                   THEN /\ Head(up).level = l /\ srv.rev = db[l].rev
                        /\ db'[l].place = Head(up).place
                   ELSE srv.review.coords = db[l].coords /\ srv.level = l
<1>1. Init => TagInv
  BY Starts
<1>2. TagInv /\ [Next]_vars => TagInv'
  BY TagSteps
<1>3. TagInv /\ [Next]_vars => [W]_vars
  <2> SUFFICES ASSUME TagInv, [Next]_vars, NEW l \in Levels, Wrote(l)
               PROVE  IF Head(up).type = "save_alignment"
                      THEN /\ Head(up).level = l /\ srv.rev = db[l].rev
                           /\ db'[l].place = Head(up).place
                      ELSE srv.review.coords = db[l].coords /\ srv.level = l
    OBVIOUS
  <2>1. others' = others /\ db'[l] # db[l] /\ db' # db
    BY DEF Wrote
  <2>2. HandleSave \/ HandleApplyReview
    BY <2>1, WritingSteps
  <2> QED
    BY <2>1, <2>2, SaveWritesItsLevel, ReviewWritesItsLevel
<1> HIDE DEF W
<1>4. Spec => [][W]_vars
  BY <1>1, <1>2, <1>3, PTL DEF Spec
<1> QED
  BY <1>4 DEF W, WritesComeFromTheirLevel

\* The restore of a saved alignment, which waits for the image and a still layout,
\* never moves a floorplan or a map that the operator has touched since the mount
\* (_restoreOverlayAlignment behind _markUserAdjusted).
THEOREM RestoresSpareGestures == Spec => RestoreNeverClobbers
<1> DEFINE W == hook'.settled \notin {NoPlace, hook.settled} => ~hook.touched
<1>1. Init => TagInv
  BY Starts
<1>2. TagInv /\ [Next]_vars => TagInv'
  BY TagSteps
<1>3. TagInv /\ [Next]_vars => [W]_vars
  BY OnlyTheHookMoves DEF Spares
<1> HIDE DEF W
<1>4. Spec => [][W]_vars
  BY <1>1, <1>2, <1>3, PTL DEF Spec
<1> QED
  BY <1>4 DEF W, RestoreNeverClobbers

-----------------------------------------------------------------------------
(* The readout.                                                            *)

\* Neither the reading of a fit under way nor the mark that none is kept.
Plain(x) == x # "measuring" /\ x # "nothing"

ReadFields ==
    {"place", "view", "saved", "restore", "kept", "reading", "timer", "watchdog", "awaiting",
     "sent"}

PlainMail(mail) ==
    /\ \E S : mail \in Seq(S)
    /\ \A i \in 1..Len(mail) : mail[i].type \in HookEvents => Plain(mail[i].place)

OfTheHook(mail) == \A i \in 1..Len(mail) : mail[i].type \in HookEvents

\* "Measuring" keeps what it stands over, and something ends it.
Reads(h) ==
    /\ ReadFields \subseteq DOMAIN h
    /\ Plain(h.place) /\ Plain(h.view) /\ Plain(h.saved) /\ Plain(h.restore)
    /\ h.kept # "measuring"
    /\ h.reading = "measuring" => h.kept # "nothing" /\ (h.timer # "off" \/ h.watchdog)
    /\ h.reading # "nothing"
    /\ h.awaiting => h.kept # "nothing" /\ h.timer # "off"
    /\ PlainMail(h.sent) /\ OfTheHook(h.sent)

\* A handler that leaves the readout and its timers alone.
LEMMA QuietReads ==
    ASSUME NEW h, Reads(h), NEW g, ReadFields \subseteq DOMAIN g,
           Plain(g.place), Plain(g.view), Plain(g.saved), Plain(g.restore),
           g.kept = h.kept, g.reading = h.reading, g.timer = h.timer,
           g.watchdog = h.watchdog, g.awaiting = h.awaiting, g.sent = h.sent
    PROVE  Reads(g)
BY DEF Reads

LEMMA PlainAppended ==
    ASSUME NEW mail, PlainMail(mail), OfTheHook(mail),
           NEW m, m.type \in HookEvents, Plain(m.place)
    PROVE  PlainMail(Append(mail, m)) /\ OfTheHook(Append(mail, m))
<1>1. PICK S : mail \in Seq(S)
  BY DEF PlainMail
<1> DEFINE g == Append(mail, m)
<1>2. /\ g \in Seq(S \cup {m}) /\ Len(g) = Len(mail) + 1
      /\ \A i \in 1..Len(mail) : g[i] = mail[i]
      /\ g[Len(mail) + 1] = m
  BY <1>1
<1> HIDE DEF g
<1>3. \A i \in 1..Len(g) : i \in 1..Len(mail) \/ i = Len(mail) + 1
  BY <1>1, <1>2
<1>4. \A i \in 1..Len(g) : g[i].type \in HookEvents => Plain(g[i].place)
  BY <1>2, <1>3 DEF PlainMail
<1>5. \E T : g \in Seq(T)
  BY <1>2
<1>6. PlainMail(g) /\ OfTheHook(g)
  BY <1>2, <1>3, <1>4, <1>5 DEF PlainMail, OfTheHook
<1> QED
  BY <1>6 DEF g

LEMMA PushReads ==
    ASSUME NEW h, Reads(h), NEW type \in HookEvents, NEW place, Plain(place)
    PROVE  Reads(Push(h, type, place))
<1> DEFINE m == [type |-> type, gen |-> h.gen, level |-> h.level, place |-> place,
                 unsaved |-> h.timer = "dirty"]
           g == [h EXCEPT !.sent = Append(h.sent, m)]
<1>1. g = Push(h, type, place)
  BY DEF Push, Send, Reads, ReadFields
<1>2. m.place = place /\ m.type = type
  OBVIOUS
<1> HIDE DEF m
<1>3. PlainMail(Append(h.sent, m)) /\ OfTheHook(Append(h.sent, m))
  BY <1>2, PlainAppended DEF Reads
<1>4. /\ ReadFields \subseteq DOMAIN g /\ g.sent = Append(h.sent, m)
      /\ g.place = h.place /\ g.view = h.view /\ g.saved = h.saved /\ g.restore = h.restore
      /\ g.kept = h.kept /\ g.reading = h.reading /\ g.timer = h.timer
      /\ g.watchdog = h.watchdog /\ g.awaiting = h.awaiting
  BY DEF Reads, ReadFields
<1> HIDE DEF g
<1>5. Reads(g)
  BY <1>3, <1>4 DEF Reads
<1> QED
  BY <1>1, <1>5

\* It stands until a timer is running again.
LEMMA BeginReads ==
    ASSUME NEW h, Reads(h), NEW t, t # "off"
    PROVE  Reads([BeginMeasuringState(h) EXCEPT !.timer = t])
<1> DEFINE g == [BeginMeasuringState(h) EXCEPT !.timer = t]
<1>1. /\ ReadFields \subseteq DOMAIN g /\ g.sent = h.sent
      /\ g.place = h.place /\ g.view = h.view /\ g.saved = h.saved /\ g.restore = h.restore
      /\ g.reading = "measuring" /\ g.timer = t
      /\ g.kept = IF h.kept = "nothing" THEN h.reading ELSE h.kept
  BY DEF Reads, ReadFields, BeginMeasuringState
<1> HIDE DEF g
<1>2. g.kept # "nothing" /\ g.kept # "measuring"
  BY <1>1 DEF Reads
<1>3. Reads(g)
  BY <1>1, <1>2 DEF Reads
<1> QED
  BY <1>3 DEF g

LEMMA AbandonReads ==
    ASSUME NEW h, Reads(h)
    PROVE  /\ Reads(AbandonMeasuringState(h))
           /\ AbandonMeasuringState(h).reading # "measuring"
           /\ ~AbandonMeasuringState(h).awaiting
<1> DEFINE g == AbandonMeasuringState(h)
<1>1. /\ ReadFields \subseteq DOMAIN g /\ g.sent = h.sent
      /\ g.place = h.place /\ g.view = h.view /\ g.saved = h.saved /\ g.restore = h.restore
      /\ g.kept = "nothing" /\ g.awaiting = FALSE
      /\ g.reading = IF h.reading = "measuring" /\ h.kept # "nothing" THEN h.kept ELSE h.reading
  BY DEF Reads, ReadFields, AbandonMeasuringState
<1> HIDE DEF g
<1>2. g.reading # "measuring" /\ g.reading # "nothing"
  BY <1>1 DEF Reads
<1>3. Reads(g)
  BY <1>1, <1>2 DEF Reads
<1> QED
  BY <1>1, <1>2, <1>3 DEF g

LEMMA AwaitReads ==
    ASSUME NEW h, Reads(h)
    PROVE  /\ Reads(AwaitMeasuringResolution(h))
           /\ AwaitMeasuringResolution(h).watchdog /\ ~AwaitMeasuringResolution(h).awaiting
<1> DEFINE g == AwaitMeasuringResolution(h)
<1>1. /\ ReadFields \subseteq DOMAIN g /\ g.sent = h.sent
      /\ g.place = h.place /\ g.view = h.view /\ g.saved = h.saved /\ g.restore = h.restore
      /\ g.kept = h.kept /\ g.reading = h.reading /\ g.timer = h.timer
      /\ g.awaiting = FALSE /\ g.watchdog = TRUE
  BY DEF Reads, ReadFields, AwaitMeasuringResolution
<1> HIDE DEF g
<1>2. Reads(g)
  BY <1>1 DEF Reads
<1> QED
  BY <1>1, <1>2 DEF g

LEMMA ReassertReads ==
    ASSUME NEW h, Reads(h)
    PROVE  Reads(ReassertMeasuringState(h))
<1> DEFINE g == ReassertMeasuringState(h)
<1>1. /\ ReadFields \subseteq DOMAIN g /\ g.sent = h.sent
      /\ g.place = h.place /\ g.view = h.view /\ g.saved = h.saved /\ g.restore = h.restore
      /\ g.kept = h.kept /\ g.timer = h.timer /\ g.watchdog = h.watchdog
      /\ g.awaiting = h.awaiting
      /\ g.reading = IF h.awaiting THEN "measuring" ELSE h.reading
  BY DEF Reads, ReadFields, ReassertMeasuringState
<1> HIDE DEF g
<1>2. Reads(g)
  BY <1>1 DEF Reads
<1> QED
  BY <1>2 DEF g

LEMMA AdjustedReads ==
    ASSUME NEW h, Reads(h)
    PROVE  Reads(MarkUserAdjusted(h))
<1> DEFINE g == [h EXCEPT !.adjusted = TRUE, !.restore = NoPlace]
<1>1. /\ ReadFields \subseteq DOMAIN g /\ g.sent = h.sent
      /\ g.place = h.place /\ g.view = h.view /\ g.saved = h.saved /\ g.restore = NoPlace
      /\ g.kept = h.kept /\ g.reading = h.reading /\ g.timer = h.timer
      /\ g.watchdog = h.watchdog /\ g.awaiting = h.awaiting
  BY DEF Reads, ReadFields
<1>2. Plain(NoPlace)
  BY MapAssumption DEF Plain
<1> HIDE DEF g
<1>3. Reads(g)
  BY <1>1, <1>2, QuietReads DEF Reads
<1> QED
  BY <1>3 DEF g, MarkUserAdjusted

LEMMA PlacedReads ==
    ASSUME NEW h, Reads(h), NEW p, Plain(p), NEW v
    PROVE  /\ Reads([h EXCEPT !.place = p])
           /\ Reads([h EXCEPT !.place = p, !.preview = v])
           /\ Reads([h EXCEPT !.view = p])
           /\ Reads([h EXCEPT !.preview = v])
           /\ Reads([h EXCEPT !.saved = p, !.preview = v])
           /\ Reads([h EXCEPT !.grab = v])
           /\ Reads([h EXCEPT !.image = v])
           /\ Reads([h EXCEPT !.touched = v])
           /\ Reads([h EXCEPT !.alive = v])
BY DEF Reads, ReadFields

LEMMA ChangeReads ==
    ASSUME NEW h, Reads(h), NEW previewAdjusted, NEW dirtying
    PROVE  Reads(TransformDidChange(h, previewAdjusted, dirtying))
<1> DEFINE q == [h EXCEPT !.preview = FALSE]
           f == IF previewAdjusted THEN MarkPreviewDirty(h) ELSE h
           t == IF dirtying THEN "dirty" ELSE "clean"
<1>1. Plain(NoPlace)
  BY MapAssumption DEF Plain
<1>2. Reads(q)
  BY <1>1, PlacedReads
<1> HIDE DEF q
<1>3. Reads(Push(q, "preview_adjusted", NoPlace))
  BY <1>1, <1>2, PushReads DEF HookEvents
<1>4. Reads(f)
  BY <1>3 DEF MarkPreviewDirty, q
<1>5. t # "off"
  OBVIOUS
<1> HIDE DEF f, t
<1>6. Reads([BeginMeasuringState(f) EXCEPT !.timer = t])
  BY <1>4, <1>5, BeginReads
<1> QED
  BY <1>6 DEF TransformDidChange, ScheduleTransformInvalidation, f, t

LEMMA TimerReads ==
    ASSUME NEW h, Reads(h)
    PROVE  Reads(TimerFires(h))
<1> DEFINE f == IF h.image THEN AwaitMeasuringResolution(h) ELSE AbandonMeasuringState(h)
           place == IF h.image THEN h.place ELSE NoPlace
           m == [type |-> "transform_changed", gen |-> f.gen, level |-> f.level,
                 place |-> place, unsaved |-> f.timer = "dirty"]
           g == [f EXCEPT !.sent = Append(f.sent, m), !.timer = "off"]
<1>1. Reads(f) /\ ~f.awaiting /\ (f.watchdog \/ f.reading # "measuring")
  BY AwaitReads, AbandonReads
<1>2. Plain(place)
  BY MapAssumption DEF Plain, Reads
<1>3. TimerFires(h) = g
  <2> HIDE DEF f, place
  <2>1. TimerFires(h) = [Push(f, "transform_changed", place) EXCEPT !.timer = "off"]
    BY DEF TimerFires, f, place
  <2>2. Push(f, "transform_changed", place) = [f EXCEPT !.sent = Append(f.sent, m)]
    BY <1>1 DEF Push, Send, Reads, ReadFields
  <2> QED
    BY <2>1, <2>2
<1> HIDE DEF f, place
<1>4. m.place = place /\ m.type = "transform_changed"
  OBVIOUS
<1> HIDE DEF m
<1>5. PlainMail(Append(f.sent, m)) /\ OfTheHook(Append(f.sent, m))
  BY <1>1, <1>2, <1>4, PlainAppended DEF Reads, HookEvents
<1>6. /\ ReadFields \subseteq DOMAIN g /\ g.sent = Append(f.sent, m)
      /\ g.place = f.place /\ g.view = f.view /\ g.saved = f.saved /\ g.restore = f.restore
      /\ g.kept = f.kept /\ g.reading = f.reading
      /\ g.watchdog = f.watchdog /\ g.awaiting = f.awaiting
  BY <1>1 DEF Reads, ReadFields
<1> HIDE DEF g
<1>7. Reads(g)
  BY <1>1, <1>5, <1>6 DEF Reads
<1> QED
  BY <1>3, <1>7

LEMMA ApplyReads ==
    ASSUME NEW h, Reads(h)
    PROVE  Reads(ApplyClicked(h)) /\ Reads(SaveClicked(h))
<1> DEFINE g == [h EXCEPT !.timer = "off"]
           a == AbandonMeasuringState(g)
<1>1. a = [AbandonMeasuringState(h) EXCEPT !.timer = "off"]
  BY DEF AbandonMeasuringState, Reads, ReadFields
<1>2. Reads(AbandonMeasuringState(h)) /\ AbandonMeasuringState(h).reading # "measuring"
      /\ ~AbandonMeasuringState(h).awaiting
  BY AbandonReads
<1>3. ASSUME NEW f, Reads(f), f.reading # "measuring", ~f.awaiting
      PROVE  Reads([f EXCEPT !.timer = "off"])
  BY <1>3 DEF Reads, ReadFields
<1>4. Reads(a)
  BY <1>1, <1>2, <1>3
<1> HIDE DEF a
<1>5. Plain(h.place)
  BY DEF Reads
<1> QED
  BY <1>4, <1>5, PushReads DEF ApplyClicked, SaveClicked, a, g, HookEvents

\* A restore waits for a saved place; without one the place stays plain.
LEMMA RestoreReads ==
    ASSUME NEW h, Reads(h)
    PROVE  Reads(RestoreOverlayAlignment(h))
<1> DEFINE g == [h EXCEPT !.place = h.restore, !.settled = h.restore, !.restore = NoPlace]
<1>1. Plain(NoPlace)
  BY MapAssumption DEF Plain
<1>2. Reads(g)
  BY <1>1 DEF Reads, ReadFields
<1> HIDE DEF g
<1> QED
  BY <1>2 DEF RestoreOverlayAlignment, g

\* What the server sends with an event is a place.
PlainEvents(es) == es = <<>> \/ Plain(es[1].place)

LEMMA ReceiveReads ==
    ASSUME NEW h, Reads(h), NEW e, e.type \in ServerEvents, Plain(e.place)
    PROVE  Reads(Receive(h, e))
<1>1. Reads(HandleApplyPreviewTransform(h, e.place))
  <2> DEFINE a == MarkUserAdjusted(h)
             g == [a EXCEPT !.place = e.place, !.preview = TRUE]
  <2>1. Reads(a)
    BY AdjustedReads
  <2> HIDE DEF a
  <2>2. Reads(g)
    BY <2>1, PlacedReads
  <2> HIDE DEF g
  <2>3. Reads(TransformDidChange(g, FALSE, TRUE))
    BY <2>2, ChangeReads
  <2> QED
    BY <2>3 DEF HandleApplyPreviewTransform, g, a
<1>2. Reads(HandleRestoreSavedTransform(h))
  <2> DEFINE place == IF h.saved = NoPlace THEN h.view ELSE h.saved
             g == [h EXCEPT !.place = place, !.preview = FALSE]
  <2>1. Plain(place)
    BY DEF Reads
  <2> HIDE DEF place
  <2>2. Reads(g)
    BY <2>1, PlacedReads
  <2> HIDE DEF g
  <2>3. Reads(TransformDidChange(g, FALSE, FALSE))
    BY <2>2, ChangeReads
  <2> QED
    BY <2>3 DEF HandleRestoreSavedTransform, g, place
<1>3. Reads(HandleAlignmentSaved(h, e.place))
  BY PlacedReads DEF HandleAlignmentSaved
<1> QED
  BY <1>1, <1>2, <1>3 DEF Receive, ServerEvents

LEMMA EventsRead ==
    ASSUME NEW h, Reads(h), NEW es, Deliverable(es), PlainEvents(es)
    PROVE  Reads(AfterEvents(h, es))
<1>1. es # <<>> => Reads(Receive(h, es[1]))
  BY ReceiveReads DEF Deliverable, PlainEvents
<1> QED
  BY <1>1 DEF AfterEvents

\* A patch writes a reading of the server, or leaves what stands there.
LEMMA PatchedReads ==
    ASSUME NEW h, Reads(h), NEW p, Plain(p.fit), NEW rewritten, NEW updated
    PROVE  Reads(Patched(h, p, rewritten, updated))
<1> DEFINE r == IF p.fit # page.fit \/ rewritten THEN p.fit ELSE h.reading
           g == [h EXCEPT !.reading = r]
<1>1. r = h.reading \/ r = p.fit
  OBVIOUS
<1>2. Patched(h, p, rewritten, updated)
        = IF DataChanged(p) \/ updated THEN ReassertMeasuringState(g) ELSE g
  BY DEF Patched, Reads, ReadFields
<1> HIDE DEF r
<1>3. /\ ReadFields \subseteq DOMAIN g /\ g.sent = h.sent /\ g.reading = r
      /\ g.place = h.place /\ g.view = h.view /\ g.saved = h.saved /\ g.restore = h.restore
      /\ g.kept = h.kept /\ g.timer = h.timer
      /\ g.watchdog = h.watchdog /\ g.awaiting = h.awaiting
  BY DEF Reads, ReadFields
<1> HIDE DEF g
<1>4. Reads(g)
  BY <1>1, <1>3 DEF Reads, Plain
<1>5. Reads(ReassertMeasuringState(g))
  BY <1>4, ReassertReads
<1> QED
  BY <1>2, <1>4, <1>5

LEMMA MountReads ==
    ASSUME NEW p, Plain(p.fit), Plain(p.saved), NEW at, Plain(at)
    PROVE  Reads(MountedAt(p, at))
<1> DEFINE h == MountedAt(p, at)
<1>1. /\ ReadFields \subseteq DOMAIN h /\ h.sent = <<>> /\ h.reading = p.fit
      /\ h.place = at /\ h.view = at /\ h.saved = p.saved /\ h.restore = p.saved
      /\ h.kept = "nothing" /\ h.timer = "off" /\ h.awaiting = FALSE
  BY DEF MountedAt, Mounted, ReadFields
<1> HIDE DEF h
<1>2. h.sent \in Seq({}) /\ Len(h.sent) = 0
  BY <1>1
<1>3. PlainMail(h.sent) /\ OfTheHook(h.sent)
  BY <1>2 DEF PlainMail, OfTheHook
<1>4. Reads(h)
  BY <1>1, <1>3 DEF Reads, Plain
<1> QED
  BY <1>4 DEF h

-----------------------------------------------------------------------------
(* The places that reach the readout.                                      *)

\* Every place that is stored, loaded, reviewed or on its way is plain.
UpPlain ==
    /\ PlainMail(up)
    /\ \A i \in 1..Len(up) : up[i].type = "switch_level" => up[i].level \in Levels

DownPlain ==
    \A i \in 1..Len(down) :
        /\ Plain(down[i].page.fit) /\ Plain(down[i].page.saved)
        /\ PlainEvents(down[i].events)

ServerPlain(s) ==
    /\ {"level", "saved", "fit", "review"} \subseteq DOMAIN s
    /\ s.level \in Levels
    /\ Plain(s.saved) /\ Plain(s.fit) /\ Plain(s.review.place)

DbPlain == \A l \in Levels : Plain(db[l].place)

ReadInv == TagInv /\ Reads(hook) /\ UpPlain /\ DownPlain /\ ServerPlain(srv) /\ DbPlain

\* A step of the hook.
LEMMA HookReads ==
    ASSUME ReadInv, TagInv', NEW h, Reads(h), Do(h), UNCHANGED <<srv, db>>, DownPlain'
    PROVE  ReadInv'
<1> DEFINE g == [h EXCEPT !.sent = <<>>]
<1>1. hook' = g /\ up' = up \o h.sent
  BY DEF Do
<1>2. /\ ReadFields \subseteq DOMAIN g /\ g.sent = <<>>
      /\ g.place = h.place /\ g.view = h.view /\ g.saved = h.saved /\ g.restore = h.restore
      /\ g.kept = h.kept /\ g.reading = h.reading /\ g.timer = h.timer
      /\ g.watchdog = h.watchdog /\ g.awaiting = h.awaiting
  BY DEF Reads, ReadFields
<1> HIDE DEF g
<1>3. Reads(g)
  <2>1. g.sent \in Seq({}) /\ Len(g.sent) = 0
    BY <1>2
  <2>2. PlainMail(g.sent) /\ OfTheHook(g.sent)
    BY <2>1 DEF PlainMail, OfTheHook
  <2> QED
    BY <1>2, <2>2 DEF Reads
<1>4. UpPlain'
  <2>1. PICK S : up \in Seq(S)
    BY DEF ReadInv, UpPlain, PlainMail
  <2>2. PICK Q : h.sent \in Seq(Q)
    BY DEF Reads, PlainMail
  <2>3. up' \in Seq(S \cup Q) /\ Len(up') = Len(up) + Len(h.sent)
    BY <1>1, <2>1, <2>2
  <2>4. ASSUME NEW i \in 1..Len(up')
        PROVE  \/ i \in 1..Len(up) /\ up'[i] = up[i]
               \/ i - Len(up) \in 1..Len(h.sent) /\ up'[i] = h.sent[i - Len(up)]
    BY <1>1, <2>1, <2>2, <2>3
  <2>5. \A i \in 1..Len(h.sent) : h.sent[i].type # "switch_level"
    BY DEF Reads, OfTheHook, HookEvents
  <2>6. \A i \in 1..Len(up') : up'[i].type \in HookEvents => Plain(up'[i].place)
    BY <2>4 DEF ReadInv, UpPlain, PlainMail, Reads
  <2>7. \A i \in 1..Len(up') : up'[i].type = "switch_level" => up'[i].level \in Levels
    BY <2>4, <2>5 DEF ReadInv, UpPlain
  <2>8. \E T : up' \in Seq(T)
    BY <2>3
  <2> QED
    BY <2>6, <2>7, <2>8 DEF UpPlain, PlainMail
<1>5. ServerPlain(srv') /\ DbPlain'
  BY DEF ReadInv, ServerPlain, DbPlain
<1> QED
  BY <1>1, <1>3, <1>4, <1>5 DEF ReadInv

LEMMA InHookReads ==
    ASSUME ReadInv, TagInv', NEW h, Reads(h),
           InHook(h) \/ Gesture(h) \/ Settles(h) \/ Touches(h)
    PROVE  ReadInv'
<1> DEFINE g == [h EXCEPT !.touched = TRUE]
<1>1. Reads(g)
  BY PlacedReads DEF Reads
<1>2. InHook(h) \/ InHook(g)
  BY DEF Gesture, Settles, Touches
<1>3. /\ Do(h) \/ Do(g)
      /\ UNCHANGED <<srv, db>> /\ down' = down
  BY <1>2 DEF InHook
<1> HIDE DEF g
<1>4. DownPlain'
  BY <1>3 DEF ReadInv, DownPlain
<1> QED
  BY <1>1, <1>3, <1>4, HookReads

LEMMA OperatorReads ==
    ASSUME ReadInv, TagInv',
           \/ \E g \in Grips : Grab(g) \/ Pull(g) \/ LetGo(g)
           \/ AdjustTransform
           \/ ApplyCenter \/ HandleZoomSliderInput \/ Save \/ OpenReview
           \/ ImageLoads \/ RestoreSettles \/ DebounceEnds \/ WatchdogEnds
    PROVE  ReadInv'
<1>1. Reads(hook) /\ Reads(MarkUserAdjusted(hook))
  BY AdjustedReads DEF ReadInv
<1>2. \A p \in Places : Plain(p)
  BY MapAssumption DEF Plain
<1>3. ASSUME NEW g \in Grips, Grab(g)
      PROVE  ReadInv'
  <2>1. Reads([MarkUserAdjusted(hook) EXCEPT !.grab = @ \cup {g}])
    BY <1>1, PlacedReads DEF Reads
  <2> QED
    BY <1>3, <2>1, InHookReads DEF Grab
<1>4. ASSUME NEW p \in Places, NEW h, Reads(h), Touches(TransformDidChange([h EXCEPT !.place = p], TRUE, TRUE))
      PROVE  ReadInv'
  <2>1. Reads([h EXCEPT !.place = p])
    BY <1>2, <1>4, PlacedReads
  <2>2. Reads(TransformDidChange([h EXCEPT !.place = p], TRUE, TRUE))
    BY <2>1, ChangeReads
  <2> QED
    BY <1>4, <2>2, InHookReads
<1>5. CASE (\E g \in Grips : Pull(g)) \/ AdjustTransform
  BY <1>1, <1>4, <1>5 DEF Pull, AdjustTransform
<1>6. ASSUME NEW g \in Grips, LetGo(g)
      PROVE  ReadInv'
  <2>1. Reads([hook EXCEPT !.grab = @ \ {g}])
    BY <1>1, PlacedReads DEF Reads
  <2> QED
    BY <1>6, <2>1, InHookReads DEF LetGo
<1>7. ASSUME NEW v \in Places, Touches(ChangeView(v))
      PROVE  ReadInv'
  <2>1. Reads([MarkUserAdjusted(hook) EXCEPT !.view = v])
    BY <1>1, <1>2, PlacedReads
  <2>2. Reads(ChangeView(v))
    BY <2>1, ChangeReads DEF ChangeView
  <2> QED
    BY <1>7, <2>2, InHookReads
<1>8. CASE ApplyCenter \/ HandleZoomSliderInput
  BY <1>7, <1>8 DEF ApplyCenter, HandleZoomSliderInput
<1>9. CASE Save \/ OpenReview
  <2>1. Reads(SaveClicked(hook)) /\ Reads(ApplyClicked(hook))
    BY <1>1, ApplyReads
  <2> QED
    BY <1>9, <2>1, InHookReads DEF Save, OpenReview
<1>10. CASE ImageLoads
  <2>1. Reads([hook EXCEPT !.image = TRUE]) /\ Plain(NoPlace)
    BY <1>1, PlacedReads, MapAssumption DEF Reads, Plain
  <2>2. Reads(Push([hook EXCEPT !.image = TRUE], "natural_size", NoPlace))
    BY <2>1, PushReads DEF HookEvents
  <2> QED
    BY <1>10, <2>2, InHookReads DEF ImageLoads
<1>11. CASE RestoreSettles \/ DebounceEnds \/ WatchdogEnds
  <2>1. /\ Reads(RestoreOverlayAlignment(hook)) /\ Reads(TimerFires(hook))
        /\ Reads(AbandonMeasuringState(hook))
    BY <1>1, RestoreReads, TimerReads, AbandonReads
  <2> QED
    BY <1>11, <2>1, InHookReads DEF RestoreSettles, DebounceEnds, WatchdogEnds
<1> QED
  BY <1>3, <1>5, <1>6, <1>8, <1>9, <1>10, <1>11

LEMMA ClickReads ==
    ASSUME ReadInv, TagInv',
           \/ ClickRestoreSaved \/ ClickPreview \/ ClickApplyReview \/ ClickCancelReview
           \/ ClickLevel \/ ClickMode
    PROVE  ReadInv'
<1>0. /\ [type |-> "restore_saved_alignment"].type \notin HookEvents \cup {"switch_level"}
      /\ [type |-> "preview_alignment"].type \notin HookEvents \cup {"switch_level"}
      /\ [type |-> "apply_coordinate_review"].type \notin HookEvents \cup {"switch_level"}
      /\ [type |-> "cancel_coordinate_review"].type \notin HookEvents \cup {"switch_level"}
      /\ \A on : [type |-> "switch_mode", map |-> on].type \notin HookEvents \cup {"switch_level"}
      /\ \A l : /\ [type |-> "switch_level", level |-> l].type \notin HookEvents
                /\ [type |-> "switch_level", level |-> l].level = l
  BY DEF HookEvents
<1>1. PICK m : Click(m) /\ m.type \notin HookEvents
               /\ (m.type = "switch_level" => m.level \in Levels)
  <2>1. CASE ClickRestoreSaved
    BY <1>0, <2>1 DEF ClickRestoreSaved
  <2>2. CASE ClickPreview
    BY <1>0, <2>2 DEF ClickPreview
  <2>3. CASE ClickApplyReview
    BY <1>0, <2>3 DEF ClickApplyReview
  <2>4. CASE ClickCancelReview
    BY <1>0, <2>4 DEF ClickCancelReview
  <2>5. CASE ClickLevel
    BY <1>0, <2>5 DEF ClickLevel
  <2>6. CASE ClickMode
    BY <1>0, <2>6 DEF ClickMode
  <2> QED
    BY <2>1, <2>2, <2>3, <2>4, <2>5, <2>6
<1>2. up' = Append(up, m) /\ UNCHANGED <<hook, srv, db, down>>
  BY <1>1 DEF Click
<1>3. UpPlain'
  <2>1. PICK S : up \in Seq(S)
    BY DEF ReadInv, UpPlain, PlainMail
  <2>2. /\ up' \in Seq(S \cup {m}) /\ Len(up') = Len(up) + 1
        /\ \A i \in 1..Len(up) : up'[i] = up[i]
        /\ up'[Len(up) + 1] = m
    BY <1>2, <2>1
  <2>3. \A i \in 1..Len(up') : i \in 1..Len(up) \/ i = Len(up) + 1
    BY <2>1, <2>2
  <2>4. \A i \in 1..Len(up') : up'[i].type \in HookEvents => Plain(up'[i].place)
    BY <1>1, <2>2, <2>3 DEF ReadInv, UpPlain, PlainMail
  <2>5. \A i \in 1..Len(up') : up'[i].type = "switch_level" => up'[i].level \in Levels
    BY <1>1, <2>2, <2>3 DEF ReadInv, UpPlain
  <2>6. \E T : up' \in Seq(T)
    BY <2>2
  <2> QED
    BY <2>4, <2>5, <2>6 DEF UpPlain, PlainMail
<1>4. Reads(hook')
  BY <1>2 DEF ReadInv
<1>5. DownPlain' /\ ServerPlain(srv') /\ DbPlain'
  BY <1>2 DEF ReadInv, DownPlain, DbPlain
<1> QED
  BY <1>3, <1>4, <1>5 DEF ReadInv

LEMMA PatchReads ==
    ASSUME ReadInv, TagInv', Patch
    PROVE  ReadInv'
<1> DEFINE p == Head(down).page
           es == Head(down).events
<1>1. down # <<>> /\ down' = Tail(down) /\ UNCHANGED <<srv, db>>
  BY DEF Patch
<1>2. PICK S : down \in Seq(S)
  BY DEF ReadInv, TagInv, DownInv
<1>3. Plain(p.fit) /\ Plain(p.saved) /\ PlainEvents(es) /\ Deliverable(es)
  <2>1. 1 \in 1..Len(down) /\ Head(down) = down[1]
    BY <1>1, <1>2
  <2> QED
    BY <2>1 DEF ReadInv, DownPlain, TagInv, DownInv
<1>4. DownPlain'
  <2>1. \A i \in 1..Len(down') : i + 1 \in 1..Len(down) /\ down'[i] = down[i + 1]
    BY <1>1, <1>2
  <2> QED
    BY <2>1 DEF ReadInv, DownPlain
<1>5. \A at \in FirstPlaces(p) : Plain(at)
  BY MapAssumption DEF FirstPlaces, Plain
<1>6. PICK h : Do(h) /\ Reads(h)
  <2>0. Reads(hook)
    BY DEF ReadInv
  <2>1. CASE ~Remounts(p)
    <3>1. PICK rewritten, updated \in BOOLEAN :
             Do(AfterEvents(IF hook.alive THEN Patched(hook, p, rewritten, updated)
                            ELSE hook, es))
      BY <2>1 DEF Patch
    <3>2. Reads(IF hook.alive THEN Patched(hook, p, rewritten, updated) ELSE hook)
      BY <1>3, <2>0, PatchedReads
    <3>3. Reads(AfterEvents(IF hook.alive THEN Patched(hook, p, rewritten, updated)
                            ELSE hook, es))
      BY <1>3, <3>2, EventsRead
    <3> QED
      BY <3>1, <3>3
  <2>2. CASE Remounts(p) /\ p.map
    <3>1. PICK at \in FirstPlaces(p) : Do(AfterEvents(MountedAt(p, at), es))
      BY <2>2 DEF Patch
    <3>2. Reads(MountedAt(p, at))
      BY <1>3, <1>5, MountReads
    <3>3. Reads(AfterEvents(MountedAt(p, at), es))
      BY <1>3, <3>2, EventsRead
    <3> QED
      BY <3>1, <3>3
  <2>3. CASE Remounts(p) /\ ~p.map
    <3>1. Do(Destroyed(hook))
      BY <2>3 DEF Patch
    <3>2. Reads(Destroyed(hook))
      BY <2>0, PlacedReads DEF Destroyed, Reads
    <3> QED
      BY <3>1, <3>2
  <2> QED
    BY <2>1, <2>2, <2>3
<1> QED
  BY <1>1, <1>4, <1>6, HookReads

\* The process takes one event.
LEMMA ServerReads ==
    ASSUME ReadInv, TagInv', up # <<>>, NEW s, NEW es, Handled(s, es), ServerPlain(s),
           PlainEvents(es), DbPlain'
    PROVE  ReadInv'
<1> DEFINE m == [page |-> Rendered(s), events |-> es]
<1>1. /\ up' = Tail(up) /\ srv' = s /\ hook' = hook
      /\ down' = down \/ down' = Append(down, m)
  BY DEF Handled
<1>2. m.page.fit = s.fit /\ m.page.saved = s.saved /\ m.events = es
  BY DEF Rendered
<1> HIDE DEF m
<1>3. Plain(m.page.fit) /\ Plain(m.page.saved) /\ PlainEvents(m.events)
  BY <1>2 DEF ServerPlain
<1>4. UpPlain'
  <2>1. PICK S : up \in Seq(S)
    BY DEF ReadInv, UpPlain, PlainMail
  <2>2. /\ up' \in Seq(S)
        /\ \A i \in 1..Len(up') : i + 1 \in 1..Len(up) /\ up'[i] = up[i + 1]
    BY <1>1, <2>1
  <2>3. \A i \in 1..Len(up') : up'[i].type \in HookEvents => Plain(up'[i].place)
    BY <2>2 DEF ReadInv, UpPlain, PlainMail
  <2>4. \A i \in 1..Len(up') : up'[i].type = "switch_level" => up'[i].level \in Levels
    BY <2>2 DEF ReadInv, UpPlain
  <2>5. \E T : up' \in Seq(T)
    BY <2>2
  <2> QED
    BY <2>3, <2>4, <2>5 DEF UpPlain, PlainMail
<1>5. DownPlain'
  <2>1. PICK S : down \in Seq(S)
    BY DEF ReadInv, TagInv, DownInv
  <2>2. CASE down' = down
    BY <2>2 DEF ReadInv, DownPlain
  <2>3. CASE down' = Append(down, m)
    <3>1. /\ Len(down') = Len(down) + 1 /\ down'[Len(down) + 1] = m
          /\ \A i \in 1..Len(down) : down'[i] = down[i]
          /\ \A i \in 1..Len(down') : i \in 1..Len(down) \/ i = Len(down) + 1
      BY <2>1, <2>3
    <3> QED
      BY <1>3, <3>1 DEF ReadInv, DownPlain
  <2> QED
    BY <1>1, <2>2, <2>3
<1>6. Reads(hook') /\ ServerPlain(srv')
  BY <1>1 DEF ReadInv
<1> QED
  BY <1>4, <1>5, <1>6 DEF ReadInv

\* What the hook asks for next has a place.
LEMMA HeadPlain ==
    ASSUME ReadInv, up # <<>>
    PROVE  /\ Head(up).type \in HookEvents => Plain(Head(up).place)
           /\ Head(up).type = "switch_level" => Head(up).level \in Levels
<1>1. PICK S : up \in Seq(S)
  BY DEF ReadInv, UpPlain, PlainMail
<1>2. 1 \in 1..Len(up) /\ Head(up) = up[1]
  BY <1>1
<1> QED
  BY <1>2 DEF ReadInv, UpPlain, PlainMail

\* A place that is stored is plain too.
LEMMA WritesArePlain ==
    ASSUME DbShape, DbPlain, NEW l \in Levels, NEW p, Plain(p), NEW v,
           \/ db' = [db EXCEPT ![l] = Written(l, p)]
           \/ db' = [db EXCEPT ![l] = [Written(l, p) EXCEPT !.coords = v]]
           \/ db' = [db EXCEPT ![l] = [db[l] EXCEPT !.coords = v]]
           \/ db' = db
    PROVE  DbPlain'
<1>1. /\ Written(l, p).place = p
      /\ [Written(l, p) EXCEPT !.coords = v].place = p
      /\ [db[l] EXCEPT !.coords = v].place = db[l].place
  BY DEF DbShape, Written
<1>2. CASE db' = db
  BY <1>2 DEF DbPlain
<1>3. CASE db' # db
  <2>1. PICK r : db' = [db EXCEPT ![l] = r] /\ Plain(r.place)
    BY <1>1, <1>3 DEF DbPlain
  <2> QED
    BY <2>1 DEF DbPlain, DbShape
<1> QED
  BY <1>2, <1>3

LEMMA HandlersRead ==
    ASSUME ReadInv, TagInv', Server
    PROVE  ReadInv'
<1>0. /\ ServerPlain(srv) /\ DbPlain /\ DbShape /\ SrvShape
      /\ Plain(srv.saved) /\ Plain(srv.review.place) /\ srv.level \in Levels
  BY DEF ReadInv, TagInv, ServerPlain
<1>1. Plain(NoPlace) /\ Plain("none") /\ Plain("few") /\ Plain(NoReview.place)
      /\ \A l \in Levels : Plain(Inferred[l])
  BY MapAssumption DEF Plain, NoReview
<1>2. PlainEvents(<<>>)
      /\ \A s, type, place : Plain(place) => PlainEvents(Event(s, type, place))
  BY DEF PlainEvents, Event
<1>3. UNCHANGED db => DbPlain'
  BY <1>0 DEF DbPlain
<1>4. ASSUME NEW s, NEW es, up # <<>>, UNCHANGED db, Handled(s, es), ServerPlain(s), PlainEvents(es)
      PROVE  ReadInv'
  BY <1>3, <1>4, ServerReads
<1>5. up # <<>>
  BY DEF Server, IgnoreStaleGeneration, Ignored, HandleSave, HandleOpenReview, HandleCancelReview,
         HandleApplyReview, HandleTransformChanged, HandleNaturalSize, HandlePreviewAdjusted,
         HandlePreviewAlignment, HandleRestoreSaved, HandleSwitchLevel, HandleSwitchMode, Handles
<1>6. /\ Head(up).type \in HookEvents => Plain(Head(up).place)
      /\ Head(up).type = "switch_level" => Head(up).level \in Levels
  BY <1>5, HeadPlain
<1>7. \A v : /\ ServerPlain([srv EXCEPT !.preview = v])
             /\ ServerPlain([srv EXCEPT !.dims = v])
             /\ Plain(v.place) => ServerPlain(Reviewing(srv, v))
  BY <1>0 DEF ServerPlain, Reviewing
<1>8. CASE IgnoreStaleGeneration
  BY <1>0, <1>2, <1>4, <1>5, <1>8 DEF IgnoreStaleGeneration, Ignored
<1>9. CASE HandleSave
  <2> DEFINE l == srv.level
             place == Head(up).place
             stored == [srv EXCEPT !.saved = place, !.rev = db[l].rev + 1, !.preview = "none",
                                   !.unsaved = FALSE]
             refused == [srv EXCEPT !.preview = "error"]
             es == Event(srv, "alignment_saved", place)
  <2>1. Plain(place)
    BY <1>6, <1>9 DEF HandleSave, Handles, HookEvents
  <2>2. ServerPlain(stored) /\ ServerPlain(refused) /\ PlainEvents(es)
    BY <1>0, <1>2, <2>1 DEF ServerPlain
  <2>3. CASE srv.rev = db[l].rev
    <3>1. db' = [db EXCEPT ![l] = Written(l, place)] /\ Handled(stored, es)
      BY <1>9, <2>3 DEF HandleSave
    <3>2. DbPlain'
      BY <1>0, <2>1, <3>1, WritesArePlain
    <3> HIDE DEF stored, es
    <3> QED
      BY <1>5, <2>2, <3>1, <3>2, ServerReads
  <2>4. CASE srv.rev # db[l].rev
    <3>1. UNCHANGED db /\ Handled(refused, <<>>)
      BY <1>9, <2>4 DEF HandleSave
    <3> HIDE DEF refused
    <3> QED
      BY <1>2, <1>4, <1>5, <2>2, <3>1
  <2> QED
    BY <2>3, <2>4
<1>10. CASE HandleOpenReview
  <2> DEFINE l == srv.level
             place == Head(up).place
             review == [level |-> l, place |-> place, coords |-> db[l].coords]
             v == IF db[l].coords = place THEN NoReview ELSE review
             opened == Reviewing(srv, v)
             s == IF ~srv.dims THEN srv ELSE opened
  <2>1. Handled(s, <<>>) /\ UNCHANGED db
    BY <1>10 DEF HandleOpenReview
  <2>2. Plain(place)
    BY <1>6, <1>10 DEF HandleOpenReview, Handles, HookEvents
  <2>3. Plain(v.place)
    BY <1>1, <2>2
  <2> HIDE DEF v
  <2>4. ServerPlain(s)
    BY <1>0, <1>7, <2>3
  <2> HIDE DEF s
  <2> QED
    BY <1>2, <1>4, <1>5, <2>1, <2>4
<1>11. CASE HandleCancelReview
  BY <1>1, <1>2, <1>4, <1>5, <1>7, <1>11 DEF HandleCancelReview
<1>12. CASE HandleApplyReview
  <2> DEFINE l == srv.review.level
             place == srv.review.place
             closed == Reviewing(srv, NoReview)
             refused == [srv EXCEPT !.refused = TRUE]
             applied == [closed EXCEPT !.saved = place, !.rev = db[l].rev + 1]
             es == Event(srv, "alignment_saved", place)
  <2>1. ServerPlain(closed) /\ ServerPlain(refused) /\ ServerPlain(applied) /\ PlainEvents(es)
    BY <1>0, <1>1, <1>2 DEF ServerPlain, Reviewing
  <2>2. \/ UNCHANGED db /\ (Handled(srv, <<>>) \/ Handled(closed, <<>>) \/ Handled(refused, <<>>))
        \/ /\ l = srv.level
           /\ db' = [db EXCEPT ![l] = [Written(l, place) EXCEPT !.coords = place]]
           /\ Handled(applied, es)
    BY <1>12 DEF HandleApplyReview
  <2>3. CASE UNCHANGED db /\ (Handled(srv, <<>>) \/ Handled(closed, <<>>) \/ Handled(refused, <<>>))
    <3> HIDE DEF closed, refused
    <3> QED
      BY <1>0, <1>2, <1>4, <1>5, <2>1, <2>3
  <2>4. CASE /\ l = srv.level
             /\ db' = [db EXCEPT ![l] = [Written(l, place) EXCEPT !.coords = place]]
             /\ Handled(applied, es)
    <3>1. DbPlain'
      BY <1>0, <2>4, WritesArePlain
    <3> HIDE DEF applied, es
    <3> QED
      BY <1>5, <2>1, <2>4, <3>1, ServerReads
  <2> QED
    BY <2>2, <2>3, <2>4
<1>13. CASE HandleTransformChanged
  <2> DEFINE m == Head(up)
             fit == IF m.place = NoPlace THEN srv.fit ELSE ScoreAlignmentFit(srv.level, m.place)
             s == [Reviewing(srv, NoReview) EXCEPT !.unsaved = @ \/ m.unsaved, !.fit = fit]
  <2>1. Plain(fit)
    BY <1>0, <1>1, <1>6, <1>13
       DEF HandleTransformChanged, Handles, HookEvents, ScoreAlignmentFit, ServerPlain
  <2>2. Handled(s, <<>>) /\ UNCHANGED db
    BY <1>0, <1>13 DEF HandleTransformChanged, ServerPlain, Reviewing
  <2> HIDE DEF fit
  <2>3. ServerPlain(s)
    BY <1>0, <1>1, <2>1 DEF ServerPlain, Reviewing
  <2> HIDE DEF s
  <2> QED
    BY <1>2, <1>4, <1>5, <2>2, <2>3
<1>14. CASE HandleNaturalSize
  BY <1>2, <1>4, <1>5, <1>7, <1>14 DEF HandleNaturalSize
<1>15. CASE HandlePreviewAdjusted
  BY <1>2, <1>4, <1>5, <1>7, <1>15 DEF HandlePreviewAdjusted
<1>16. CASE HandlePreviewAlignment
  <2>1. PlainEvents(Event(srv, "apply_preview_transform", Inferred[srv.level]))
    BY <1>0, <1>1, <1>2
  <2> QED
    BY <1>2, <1>4, <1>5, <1>7, <1>16, <2>1 DEF HandlePreviewAlignment
<1>17. CASE HandleRestoreSaved
  <2> DEFINE s == [srv EXCEPT !.preview = "none", !.unsaved = FALSE]
  <2>1. ServerPlain(s)
    BY <1>0 DEF ServerPlain
  <2>2. Handled(s, Event(srv, "restore_saved_transform", NoPlace)) /\ UNCHANGED db
    BY <1>17 DEF HandleRestoreSaved
  <2>3. PlainEvents(Event(srv, "restore_saved_transform", NoPlace))
    BY <1>1, <1>2
  <2> HIDE DEF s
  <2> QED
    BY <1>4, <1>5, <2>1, <2>2, <2>3
<1>18. CASE HandleSwitchLevel
  <2> DEFINE l == Head(up).level
             s == LoadLevelData(ResetMapWorkflow(srv), l)
  <2>1. l \in Levels /\ Plain(db[l].place)
    BY <1>0, <1>6, <1>18 DEF HandleSwitchLevel, Handles, DbPlain
  <2>2. ServerPlain(s)
    BY <1>0, <1>1, <2>1 DEF ServerPlain, LoadLevelData, ResetMapWorkflow
  <2>3. Handled(s, <<>>) /\ UNCHANGED db
    BY <1>18 DEF HandleSwitchLevel
  <2> HIDE DEF s
  <2> QED
    BY <1>2, <1>4, <1>5, <2>2, <2>3
<1>19. CASE HandleSwitchMode
  <2> DEFINE s == [ResetMapWorkflow(srv) EXCEPT !.map = Head(up).map]
  <2>1. ServerPlain(s)
    BY <1>0, <1>1 DEF ServerPlain, ResetMapWorkflow
  <2>2. Handled(s, <<>>) /\ UNCHANGED db
    BY <1>19 DEF HandleSwitchMode
  <2> HIDE DEF s
  <2> QED
    BY <1>2, <1>4, <1>5, <2>1, <2>2
<1> QED
  BY <1>8, <1>9, <1>10, <1>11, <1>12, <1>13, <1>14, <1>15, <1>16, <1>17, <1>18, <1>19 DEF Server

LEMMA ReadingStarts ==
    ASSUME Init
    PROVE  ReadInv
<1>1. TagInv
  BY Starts
<1>2. Plain("none") /\ Plain(Station) /\ Plain(NoPlace) /\ Plain(NoReview.place)
      /\ \A p \in Places \cup {NoPlace} : Plain(p)
  BY MapAssumption DEF Plain, NoReview
<1>3. Saved \in [Levels -> Places \cup {NoPlace}] /\ First \in Levels
  BY MapAssumption
<1>4. DbPlain
  BY <1>2, <1>3 DEF Init, DbPlain
<1>5. ServerPlain(srv)
  BY <1>2, <1>3 DEF Init, ServerPlain
<1>6. page.fit = srv.fit /\ page.saved = srv.saved
  BY DEF Init, Rendered
<1>7. PICK at \in FirstPlaces(page) : hook = MountedAt(page, at)
  BY DEF Init
<1>8. Plain(at)
  BY <1>2, <1>7 DEF FirstPlaces
<1>9. Reads(hook)
  BY <1>5, <1>6, <1>7, <1>8, MountReads DEF ServerPlain
<1>10. up \in Seq({}) /\ Len(up) = 0 /\ Len(down) = 0
  BY DEF Init
<1>11. UpPlain /\ DownPlain
  BY <1>10 DEF UpPlain, PlainMail, DownPlain
<1> QED
  BY <1>1, <1>4, <1>5, <1>9, <1>11 DEF ReadInv

LEMMA ReadSteps ==
    ASSUME ReadInv, [Next]_vars
    PROVE  ReadInv'
<1>0. TagInv'
  BY TagSteps DEF ReadInv
<1>1. CASE Operator
  BY <1>0, <1>1, OperatorReads, ClickReads DEF Operator, Translate, Rotate, Scale, Grips
<1>2. CASE Browser
  BY <1>0, <1>2, OperatorReads, PatchReads DEF Browser
<1>3. CASE Server
  BY <1>0, <1>3, HandlersRead
<1>4. CASE OtherEditor
  <2>1. UNCHANGED <<hook, srv, up, down>>
    BY <1>4 DEF OtherEditor
  <2>2. PICK l \in Levels, p \in Places :
           \/ db' = [db EXCEPT ![l] = Written(l, p)]
           \/ db' = [db EXCEPT ![l].coords = p]
    BY <1>4 DEF OtherEditor
  <2>3. Plain(p)
    BY MapAssumption DEF Plain
  <2>4. \/ db' = [db EXCEPT ![l] = Written(l, p)]
        \/ db' = [db EXCEPT ![l] = [db[l] EXCEPT !.coords = p]]
    BY <2>2
  <2>5. DbPlain'
    BY <2>3, <2>4, WritesArePlain DEF ReadInv, TagInv
  <2>6. UpPlain'
    BY <2>1 DEF ReadInv, UpPlain, PlainMail
  <2>7. DownPlain'
    BY <2>1 DEF ReadInv, DownPlain
  <2> QED
    BY <1>0, <2>1, <2>5, <2>6, <2>7 DEF ReadInv
<1>5. CASE UNCHANGED vars
  <2>1. UNCHANGED <<hook, srv, db, up, down>>
    BY <1>5 DEF vars
  <2>2. UpPlain'
    BY <2>1 DEF ReadInv, UpPlain, PlainMail
  <2>3. DownPlain'
    BY <2>1 DEF ReadInv, DownPlain
  <2>4. DbPlain'
    BY <2>1 DEF ReadInv, DbPlain
  <2> QED
    BY <1>0, <2>1, <2>2, <2>3, <2>4 DEF ReadInv
<1> QED
  BY <1>1, <1>2, <1>3, <1>4, <1>5 DEF Next

\* "Measuring" stands in the readout only while the debounced push or the watchdog
\* behind it is set: whichever handlers clear a timer, they take the word back
\* (_beginMeasuringState, _abandonMeasuringState, _awaitMeasuringResolution).
THEOREM MeasuringEnds == Spec => []MeasuringWillEnd
<1>1. Init => ReadInv
  BY ReadingStarts
<1>2. ReadInv /\ [Next]_vars => ReadInv'
  BY ReadSteps
<1>3. ReadInv => MeasuringWillEnd
  BY DEF ReadInv, Reads, MeasuringWillEnd
<1> QED
  BY <1>1, <1>2, <1>3, PTL DEF Spec

=============================================================================
