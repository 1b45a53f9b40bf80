------------------------------ MODULE RouteMap ------------------------------
(***************************************************************************)
(* The map of Route > Details: what the hook RouteDetailsMap draws from    *)
(* the data attributes of its element, and what it reports of its view.    *)
(*                                                                         *)
(* The hook is part of the page record of RouteDetails; a handler is an    *)
(* operator from the page to the page, and what it pushes collects in      *)
(* "sent".  A path is known by its key: a section of a pattern by the      *)
(* pattern and the two visits, a variant by its shape, so that keys and    *)
(* the identifiers of rows are tuples of one kind.  A view stands for its  *)
(* bounds.  Left out: tooltips, the hint, the tiles and the words of the   *)
(* card.                                                                   *)
(***************************************************************************)
EXTENDS Integers, Sequences, FiniteSets, SequencesExt

CONSTANTS Payload,    \* the versions of the saved map of the route
          Nearby,     \* the pages of other routes in each view
          Inactive,   \* the other routes out of service
          None

Views == DOMAIN Nearby
Row(id) == <<id>>
NoRow == <<>>

PushMap(p, type, x) == [p EXCEPT !.sent = Append(@, [type |-> type, x |-> x])]

\* A color that is no color draws as white, and white draws on a grey casing.
LineColorFor(c) == IF c = "bad" THEN "white" ELSE c
CasingFor(c) == IF c = "white" THEN "edge" ELSE "white"
SwatchColorFor(c) == IF c = "white" THEN "grey" ELSE c

-----------------------------------------------------------------------------
(* The paths and the stops of a payload. *)

\* A saved section draws its own points, a missing one a dashed line between two
\* located stops, and an unknown one nothing.
SectionPaths(pattern) ==
    LET located(s) == pattern.visits[s.from] # None /\ pattern.visits[s.to] # None
        drawn == {s \in pattern.sections : s.status = "saved" \/ (s.status = "missing" /\ located(s))}
    IN  {[key |-> <<pattern.id, s.from, s.to>>,
          kind |-> IF s.status = "saved" THEN "solid" ELSE "dashed"] : s \in drawn}
VariantPaths(payload) ==
    {[key |-> Row(v.id), kind |-> "solid"] : v \in {u \in payload.variants : u.status = "saved"}}
PathsOf(payload) == UNION {SectionPaths(q) : q \in payload.patterns} \cup VariantPaths(payload)

OccurrenceMarkers(pattern) ==
    {[stop |-> pattern.visits[i], position |-> i] :
       i \in {j \in DOMAIN pattern.visits : pattern.visits[j] # None}}
\* Every stop once and small, or the visits of the pattern that is pointed at.
StopMarkers(payload, highlight) ==
    LET pointed == {q \in payload.patterns : Row(q.id) = highlight}
        all == UNION {OccurrenceMarkers(q) : q \in payload.patterns}
    IN  IF highlight = NoRow THEN {[stop |-> m.stop, radius |-> 4] : m \in all}
        ELSE {[stop |-> m.stop, radius |-> IF m.position = 1 THEN 7 ELSE 5] :
                m \in UNION {OccurrenceMarkers(q) : q \in pointed}}

-----------------------------------------------------------------------------
(* What the hook paints. *)

Full == "full"
Dim == "dim"
Painted(p, path) ==
    [key |-> path.key, kind |-> path.kind, color |-> p.color, casing |-> CasingFor(p.color),
     opacity |-> IF p.highlight \in {NoRow, path.key} THEN Full ELSE Dim]

ContextOpacity(p, r) ==
    IF p.highlight # NoRow THEN Dim ELSE IF r \in Inactive THEN "faint" ELSE Full
PaintContextLines(p) ==
    [p EXCEPT !.contexts = {[route |-> c.route, opacity |-> ContextOpacity(p, c.route)] : c \in @}]
PaintLines(p) ==
    PaintContextLines(
      [p EXCEPT !.lines = {Painted(p, [key |-> l.key, kind |-> l.kind]) : l \in @}])
PaintMarkers(p) ==
    [p EXCEPT !.markers = [stroke |-> SwatchColorFor(p.color),
                           dots |-> StopMarkers(Payload[p.payload], p.highlight)]]
PaintRows(p) == [p EXCEPT !.on = p.highlight]
PaintSwatches(p) == [p EXCEPT !.swatch = SwatchColorFor(p.color)]

DrawPaths(p) ==
    PaintRows(PaintMarkers(PaintLines(
      [p EXCEPT !.lines = {Painted(p, path) : path \in PathsOf(Payload[p.payload])}])))
\* Every route of the other routes is drawn, and then dimmed.
ContextRoutePaths(routes) == {[route |-> r, opacity |-> Full] : r \in routes}
DrawContext(p, routes) ==
    PaintContextLines([p EXCEPT !.context = routes, !.contexts = ContextRoutePaths(routes)])
ApplyColors(p, c) == PaintSwatches(PaintMarkers(PaintLines([p EXCEPT !.color = LineColorFor(c)])))

\* The card tells what is drawn straight and what is not shown.
CardOf(payload, row) ==
    LET pointed == {q \in payload.patterns : Row(q.id) = row}
        variants == {v \in payload.variants : Row(v.id) = row}
        drawn(q) == {path.key : path \in SectionPaths(q)}
        straight(q) == {s \in q.sections : s.status = "missing" /\ <<q.id, s.from, s.to>> \in drawn(q)}
        hidden(q) == {s \in q.sections : <<q.id, s.from, s.to>> \notin drawn(q)}
    IN  IF pointed # {} THEN LET q == CHOOSE x \in pointed : TRUE
                             IN  <<q.id, Cardinality(straight(q)), Cardinality(hidden(q))>>
        ELSE IF variants # {} THEN LET v == CHOOSE x \in variants : TRUE IN <<v.id, v.status>>
        ELSE NoRow

HighlightLines(p, row) ==   \* a mutant: the stops are not drawn again
    IF row = p.highlight THEN p
    ELSE [PaintRows(PaintLines([p EXCEPT !.highlight = row]))
            EXCEPT !.card = CardOf(Payload[p.payload], row)]
SetHighlight(p, row) ==
    IF row = p.highlight THEN p
    ELSE [PaintRows(PaintMarkers(PaintLines([p EXCEPT !.highlight = row])))
            EXCEPT !.card = CardOf(Payload[p.payload], row)]

-----------------------------------------------------------------------------
(* The view, and the other routes in it. *)

\* The same bounds are asked for once.
PushContextViewport(p) ==
    IF p.view = p.last THEN p ELSE PushMap([p EXCEPT !.last = p.view], "context_on", p.view)
ToggleAndRemember(p) ==   \* a mutant: the bounds are still the last ones after a switch off
    LET toggled == [p EXCEPT !.toggle = ~@, !.focus = "toggle"]
    IN  IF toggled.toggle THEN PushContextViewport(toggled)
        ELSE PushMap(toggled, "context_off", None)
ToggleContext(p) ==
    LET toggled == [p EXCEPT !.toggle = ~@, !.focus = "toggle"]
    IN  IF toggled.toggle THEN PushContextViewport(toggled)
        ELSE PushMap([toggled EXCEPT !.last = None], "context_off", None)

OnMoveEnd(p) == IF p.toggle THEN PushContextViewport(p) ELSE p
MoveTo(p, view) == OnMoveEnd([p EXCEPT !.view = view])
Fit(p) == IF p.lines = {} THEN p ELSE MoveTo(p, "fit")

-----------------------------------------------------------------------------
(* The data attributes: a payload of the same route is drawn in place.     *)

ApplyDataset(p, data) ==
    LET mapped == IF data.payload = p.payload THEN p
                  ELSE DrawPaths([p EXCEPT !.payload = data.payload])
        around == IF data.context = mapped.context THEN mapped
                  ELSE DrawContext(mapped, data.context)
    IN  ApplyColors(around, data.color)

\* The element is ignored by patches: its hook runs when an attribute changes.
PatchMap(p, data) ==
    IF data = p.data THEN p ELSE ApplyDataset([p EXCEPT !.data = data], data)

\* The hook of a page that opens draws the map and fits it.
MountMap(p, data) ==
    Fit(ApplyColors(DrawContext(DrawPaths([p EXCEPT !.data = data, !.payload = data.payload,
                                                    !.highlight = NoRow]),
                                data.context), data.color))
=============================================================================
