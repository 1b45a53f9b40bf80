-------------------------- MODULE RouteDetailsProofs --------------------------
(***************************************************************************)
(* For any views, payloads and entries, any number of actions, saves of    *)
(* other editors and drops of the connection: what a save replaces was     *)
(* shown, and the page, its map and its process agree when they are at     *)
(* rest.                                                                   *)
(***************************************************************************)
EXTENDS RouteDetails, FiniteSetTheorems, TLAPS

-----------------------------------------------------------------------------
(* The page, and what an assignment to some of its fields leaves.          *)

PageFields ==
    {"where", "form", "unsent", "focus", "saving", "dirty", "offline", "entries",
     "disabled", "held", "barHidden", "merge", "asking", "answered", "badge", "readout",
     "label", "leftover", "apart", "known", "data", "payload", "color", "highlight",
     "lines", "markers", "on", "swatch", "card", "context", "contexts", "view", "last",
     "toggle", "strip", "sent"}
Shape(p) == PageFields \subseteq DOMAIN p

\* Only the fields of a set are written.
Writes(p, o, set) == Shape(o) /\ \A f \in PageFields \ set : o[f] = p[f]

Painting == {"readout", "label", "badge"}
Drawing == {"data", "payload", "color", "highlight", "lines", "markers", "on", "swatch",
            "card", "context", "contexts"}
Viewing == {"view", "last", "toggle", "focus", "sent"}

LEMMA WritesOn ==
    ASSUME NEW p, NEW o, NEW q, NEW X, NEW Y, NEW Z, Writes(p, o, X), Writes(o, q, Y),
           X \cup Y \subseteq Z
    PROVE  Writes(p, q, Z)
BY DEF Writes

LEMMA PaintWrites ==
    ASSUME NEW p, Shape(p)
    PROVE  Writes(p, Paint(p), Painting)
BY DEF Paint, Writes, Shape, Painting, PageFields

-----------------------------------------------------------------------------
(* The map.                                                                *)

\* Of a line that is drawn only the key and the kind are drawn again.
Shapes(S) == {[key |-> l.key, kind |-> l.kind] : l \in S}
PathsDrawn(p) == Shapes(p.lines) = Shapes(PathsOf(Payload[p.payload]))
RoutesDrawn(p) == {c.route : c \in p.contexts} = p.context

LinesInv(p) == p.lines = {Painted(p, path) : path \in PathsOf(Payload[p.payload])}
MarkersInv(p) ==
    p.markers = [stroke |-> SwatchColorFor(p.color),
                 dots |-> StopMarkers(Payload[p.payload], p.highlight)]
ContextsInv(p) ==
    p.contexts = {[route |-> r, opacity |-> ContextOpacity(p, r)] : r \in p.context}
RowsInv(p) == p.on = p.highlight
SwatchInv(p) == p.swatch = SwatchColorFor(p.color)

MapInv(p) ==
    /\ Shape(p)
    /\ LinesInv(p) /\ MarkersInv(p) /\ ContextsInv(p) /\ RowsInv(p) /\ SwatchInv(p)

LEMMA MapStays ==
    ASSUME NEW p, MapInv(p), NEW o, NEW X, Writes(p, o, X), X \cap Drawing = {}
    PROVE  MapInv(o)
<1>1. /\ o.payload = p.payload /\ o.color = p.color /\ o.highlight = p.highlight
      /\ o.lines = p.lines /\ o.markers = p.markers /\ o.on = p.on /\ o.swatch = p.swatch
      /\ o.context = p.context /\ o.contexts = p.contexts /\ Shape(o)
  BY DEF Writes, Drawing, PageFields
<1>2. LinesInv(o)
  BY <1>1 DEF MapInv, LinesInv, Painted
<1>3. ContextsInv(o)
  BY <1>1 DEF MapInv, ContextsInv, ContextOpacity
<1> QED
  BY <1>1, <1>2, <1>3 DEF MapInv, MarkersInv, RowsInv, SwatchInv

LEMMA PaintContextDraws ==
    ASSUME NEW p, Shape(p)
    PROVE  /\ Writes(p, PaintContextLines(p), {"contexts"})
           /\ RoutesDrawn(p) => /\ ContextsInv(PaintContextLines(p))
                                /\ RoutesDrawn(PaintContextLines(p))
<1> DEFINE o == PaintContextLines(p)
<1>1. Writes(p, o, {"contexts"})
  BY DEF PaintContextLines, Writes, Shape, PageFields
<1>2. o.contexts = {[route |-> c.route, opacity |-> ContextOpacity(p, c.route)] : c \in p.contexts}
  BY DEF PaintContextLines, Shape, PageFields
<1> HIDE DEF o
<1>3. o.context = p.context /\ o.highlight = p.highlight
  BY <1>1 DEF Writes, PageFields
<1>4. \A r : ContextOpacity(o, r) = ContextOpacity(p, r)
  BY <1>3 DEF ContextOpacity
<1>5. ASSUME RoutesDrawn(p)
      PROVE  ContextsInv(o) /\ RoutesDrawn(o)
  <2>1. {c.route : c \in p.contexts} = p.context
    BY <1>5 DEF RoutesDrawn
  <2>2. o.contexts = {[route |-> r, opacity |-> ContextOpacity(p, r)] : r \in p.context}
    BY <1>2, <2>1
  <2>3. ContextsInv(o)
    BY <1>3, <1>4, <2>2 DEF ContextsInv
  <2> DEFINE drawn(r) == [route |-> r, opacity |-> ContextOpacity(p, r)]
  <2>4. {c.route : c \in o.contexts} = {drawn(r).route : r \in p.context}
    BY <2>2
  <2>5. \A r : drawn(r).route = r
    OBVIOUS
  <2> HIDE DEF drawn
  <2>6. {c.route : c \in o.contexts} = p.context
    BY <2>4, <2>5
  <2>7. RoutesDrawn(o)
    BY <1>3, <2>6 DEF RoutesDrawn
  <2> QED
    BY <2>3, <2>7
<1> QED
  BY <1>1, <1>5 DEF o

LEMMA PaintLinesDraws ==
    ASSUME NEW p, Shape(p)
    PROVE  /\ Writes(p, PaintLines(p), {"lines", "contexts"})
           /\ PathsDrawn(p) => LinesInv(PaintLines(p)) /\ PathsDrawn(PaintLines(p))
           /\ RoutesDrawn(p) => ContextsInv(PaintLines(p)) /\ RoutesDrawn(PaintLines(p))
<1> DEFINE b == [p EXCEPT !.lines = {Painted(p, [key |-> l.key, kind |-> l.kind]) : l \in @}]
           o == PaintContextLines(b)
<1>1. Writes(p, b, {"lines"})
  BY DEF Writes, Shape, PageFields
<1>2. b.lines = {Painted(p, [key |-> l.key, kind |-> l.kind]) : l \in p.lines}
  BY DEF Shape, PageFields
<1>3. PaintLines(p) = o
  BY DEF PaintLines
<1> HIDE DEF b
<1>4. Writes(b, o, {"contexts"}) /\ Shape(b)
  BY <1>1, PaintContextDraws DEF Writes
<1>5. Writes(p, o, {"lines", "contexts"})
  BY <1>1, <1>4, WritesOn
<1>6. RoutesDrawn(p) => ContextsInv(o) /\ RoutesDrawn(o)
  <2>1. b.contexts = p.contexts /\ b.context = p.context
    BY <1>1 DEF Writes, PageFields
  <2> QED
    BY <1>4, <2>1, PaintContextDraws DEF RoutesDrawn
<1>7. o.lines = b.lines /\ o.color = p.color /\ o.highlight = p.highlight /\ o.payload = p.payload
  BY <1>1, <1>4 DEF Writes, PageFields
<1> HIDE DEF o
<1>8. ASSUME PathsDrawn(p)
      PROVE  LinesInv(o) /\ PathsDrawn(o)
  <2> DEFINE paths == PathsOf(Payload[p.payload])
  <2>1. Shapes(p.lines) = Shapes(paths)
    BY <1>8 DEF PathsDrawn
  <2> HIDE DEF paths
  <2>2. o.lines = {Painted(p, l) : l \in Shapes(p.lines)}
    BY <1>2, <1>7 DEF Shapes
  <2>3. o.lines = {Painted(p, l) : l \in Shapes(paths)}
    BY <2>1, <2>2
  <2>4. \A l : Painted(p, [key |-> l.key, kind |-> l.kind]) = Painted(o, l)
    BY <1>7 DEF Painted
  <2>5. o.lines = {Painted(o, l) : l \in paths}
    <3>1. o.lines = {Painted(p, [key |-> l.key, kind |-> l.kind]) : l \in paths}
      BY <2>3 DEF Shapes
    <3> QED
      BY <2>4, <3>1
  <2>6. LinesInv(o)
    BY <1>7, <2>5 DEF LinesInv, paths
  <2>7. \A l : /\ Painted(o, l).key = l.key /\ Painted(o, l).kind = l.kind
    BY DEF Painted
  <2>8. Shapes(o.lines) = Shapes(paths)
    BY <2>5, <2>7 DEF Shapes
  <2> QED
    BY <1>7, <2>6, <2>8 DEF PathsDrawn, paths
<1> QED
  BY <1>3, <1>5, <1>6, <1>8


LEMMA PaintMarkersDraws ==
    ASSUME NEW p, Shape(p)
    PROVE  Writes(p, PaintMarkers(p), {"markers"}) /\ MarkersInv(PaintMarkers(p))
<1> DEFINE o == PaintMarkers(p)
<1>1. Writes(p, o, {"markers"})
  BY DEF PaintMarkers, Writes, Shape, PageFields
<1>2. o.markers = [stroke |-> SwatchColorFor(p.color),
                   dots |-> StopMarkers(Payload[p.payload], p.highlight)]
  BY DEF PaintMarkers, Shape, PageFields
<1> HIDE DEF o
<1>3. o.color = p.color /\ o.payload = p.payload /\ o.highlight = p.highlight
  BY <1>1 DEF Writes, PageFields
<1> QED
  BY <1>1, <1>2, <1>3 DEF MarkersInv, o

LEMMA PaintRowsDraws ==
    ASSUME NEW p, Shape(p)
    PROVE  Writes(p, PaintRows(p), {"on"}) /\ RowsInv(PaintRows(p))
<1> DEFINE o == PaintRows(p)
<1>1. Writes(p, o, {"on"}) /\ o.on = p.highlight
  BY DEF PaintRows, Writes, Shape, PageFields
<1> HIDE DEF o
<1> QED
  BY <1>1 DEF RowsInv, Writes, PageFields, o

LEMMA PaintSwatchesDraws ==
    ASSUME NEW p, Shape(p)
    PROVE  Writes(p, PaintSwatches(p), {"swatch"}) /\ SwatchInv(PaintSwatches(p))
<1> DEFINE o == PaintSwatches(p)
<1>1. Writes(p, o, {"swatch"}) /\ o.swatch = SwatchColorFor(p.color)
  BY DEF PaintSwatches, Writes, Shape, PageFields
<1> HIDE DEF o
<1> QED
  BY <1>1 DEF SwatchInv, Writes, PageFields, o

\* A map that is drawn, in whatever colors.
Ready(p) == Shape(p) /\ PathsDrawn(p) /\ RoutesDrawn(p) /\ RowsInv(p)

LEMMA ShapesOfPainted ==
    ASSUME NEW p, NEW S
    PROVE  Shapes({Painted(p, l) : l \in S}) = Shapes(S)
<1>1. \A l : Painted(p, l).key = l.key /\ Painted(p, l).kind = l.kind
  BY DEF Painted
<1> QED
  BY <1>1 DEF Shapes

LEMMA MapIsReady ==
    ASSUME NEW p, MapInv(p)
    PROVE  Ready(p)
<1>1. PathsDrawn(p)
  BY ShapesOfPainted DEF PathsDrawn, MapInv, LinesInv
<1>2. RoutesDrawn(p)
  <2>1. \A r : [route |-> r, opacity |-> ContextOpacity(p, r)].route = r
    OBVIOUS
  <2> DEFINE drawn(r) == [route |-> r, opacity |-> ContextOpacity(p, r)]
  <2>2. p.contexts = {drawn(r) : r \in p.context}
    BY DEF MapInv, ContextsInv
  <2>3. \A r : drawn(r).route = r
    BY <2>1
  <2> HIDE DEF drawn
  <2> QED
    BY <2>2, <2>3 DEF RoutesDrawn
<1> QED
  BY <1>1, <1>2 DEF Ready, MapInv

LEMMA DrawPathsDraws ==
    ASSUME NEW p, Shape(p), RoutesDrawn(p)
    PROVE  Writes(p, DrawPaths(p), {"lines", "contexts", "markers", "on"}) /\ Ready(DrawPaths(p))
<1> DEFINE paths == PathsOf(Payload[p.payload])
           b == [p EXCEPT !.lines = {Painted(p, path) : path \in paths}]
           c == PaintLines(b)
           d == PaintMarkers(c)
           o == PaintRows(d)
<1>1. Writes(p, b, {"lines"})
  BY DEF Writes, Shape, PageFields
<1>2. b.lines = {Painted(p, path) : path \in paths}
  BY DEF Shape, PageFields
<1>3. DrawPaths(p) = o
  BY DEF DrawPaths
<1> HIDE DEF b
<1>4. Shape(b) /\ PathsDrawn(b) /\ RoutesDrawn(b)
  <2>1. b.payload = p.payload /\ b.context = p.context /\ b.contexts = p.contexts /\ Shape(b)
    BY <1>1 DEF Writes, PageFields
  <2> QED
    BY <1>2, <2>1, ShapesOfPainted DEF PathsDrawn, RoutesDrawn
<1>5. Writes(b, c, {"lines", "contexts"}) /\ PathsDrawn(c) /\ RoutesDrawn(c)
  BY <1>4, PaintLinesDraws
<1>6. Shape(c)
  BY <1>5 DEF Writes
<1> HIDE DEF c
<1>7. Writes(c, d, {"markers"}) /\ Shape(d)
  BY <1>6, PaintMarkersDraws DEF Writes
<1> HIDE DEF d
<1>8. Writes(d, o, {"on"}) /\ RowsInv(o) /\ Shape(o)
  BY <1>7, PaintRowsDraws DEF Writes
<1> HIDE DEF o
<1>9. PathsDrawn(o) /\ RoutesDrawn(o)
  <2>1. /\ o.payload = c.payload /\ o.context = c.context /\ o.contexts = c.contexts
        /\ o.lines = c.lines
    BY <1>7, <1>8 DEF Writes, PageFields
  <2> QED
    BY <1>5, <2>1 DEF PathsDrawn, RoutesDrawn
<1>10. Writes(p, c, {"lines", "contexts"})
  BY <1>1, <1>5, WritesOn
<1>11. Writes(p, d, {"lines", "contexts", "markers"})
  BY <1>7, <1>10, WritesOn
<1>12. Writes(p, o, {"lines", "contexts", "markers", "on"})
  BY <1>8, <1>11, WritesOn
<1> QED
  BY <1>3, <1>8, <1>9, <1>12 DEF Ready

LEMMA DrawContextDraws ==
    ASSUME NEW p, NEW routes, Shape(p)
    PROVE  /\ Writes(p, DrawContext(p, routes), {"context", "contexts"})
           /\ DrawContext(p, routes).context = routes
           /\ RoutesDrawn(DrawContext(p, routes))
           /\ Ready(p) => Ready(DrawContext(p, routes))
<1> DEFINE b == [p EXCEPT !.context = routes, !.contexts = ContextRoutePaths(routes)]
           o == PaintContextLines(b)
<1>1. Writes(p, b, {"context", "contexts"})
  BY DEF Writes, Shape, PageFields
<1>2. b.context = routes /\ b.contexts = ContextRoutePaths(routes)
  BY DEF Shape, PageFields
<1>3. DrawContext(p, routes) = o
  BY DEF DrawContext
<1> HIDE DEF b
<1>4. RoutesDrawn(b) /\ Shape(b)
  <2>1. \A r : [route |-> r, opacity |-> Full].route = r
    OBVIOUS
  <2> DEFINE drawn(r) == [route |-> r, opacity |-> Full]
  <2>2. b.contexts = {drawn(r) : r \in routes}
    BY <1>2 DEF ContextRoutePaths
  <2>3. \A r : drawn(r).route = r
    BY <2>1
  <2> HIDE DEF drawn
  <2>4. RoutesDrawn(b)
    BY <1>2, <2>2, <2>3 DEF RoutesDrawn
  <2> QED
    BY <1>1, <2>4 DEF Writes
<1>5. Writes(b, o, {"contexts"}) /\ RoutesDrawn(o) /\ Shape(o)
  BY <1>4, PaintContextDraws DEF Writes
<1> HIDE DEF o
<1>6. Writes(p, o, {"context", "contexts"})
  BY <1>1, <1>5, WritesOn
<1>7. o.context = routes
  BY <1>2, <1>5 DEF Writes, PageFields
<1>8. ASSUME Ready(p)
      PROVE  Ready(o)
  <2>1. o.payload = p.payload /\ o.lines = p.lines /\ o.on = p.on /\ o.highlight = p.highlight
    BY <1>6 DEF Writes, PageFields
  <2> QED
    BY <1>5, <1>8, <2>1 DEF Ready, PathsDrawn, RowsInv
<1> QED
  BY <1>3, <1>5, <1>6, <1>7, <1>8

LEMMA ApplyColorsDraws ==
    ASSUME NEW p, NEW c, Ready(p)
    PROVE  /\ Writes(p, ApplyColors(p, c), {"color", "lines", "contexts", "markers", "swatch"})
           /\ MapInv(ApplyColors(p, c))
<1> DEFINE b == [p EXCEPT !.color = LineColorFor(c)]
           d == PaintLines(b)
           e == PaintMarkers(d)
           o == PaintSwatches(e)
<1>1. Writes(p, b, {"color"})
  BY DEF Writes, Shape, PageFields, Ready
<1>2. ApplyColors(p, c) = o
  BY DEF ApplyColors
<1> HIDE DEF b
<1>3. Shape(b) /\ PathsDrawn(b) /\ RoutesDrawn(b) /\ RowsInv(b)
  BY <1>1 DEF Writes, PageFields, PathsDrawn, RoutesDrawn, RowsInv, Ready
<1>4. Writes(b, d, {"lines", "contexts"}) /\ LinesInv(d) /\ ContextsInv(d) /\ Shape(d)
  BY <1>3, PaintLinesDraws DEF Writes
<1> HIDE DEF d
<1>5. Writes(d, e, {"markers"}) /\ MarkersInv(e) /\ Shape(e)
  BY <1>4, PaintMarkersDraws DEF Writes
<1> HIDE DEF e
<1>6. Writes(e, o, {"swatch"}) /\ SwatchInv(o) /\ Shape(o)
  BY <1>5, PaintSwatchesDraws DEF Writes
<1> HIDE DEF o
<1>7. /\ o.payload = d.payload /\ o.color = d.color /\ o.highlight = d.highlight
      /\ o.lines = d.lines /\ o.on = d.on /\ o.context = d.context /\ o.contexts = d.contexts
  BY <1>5, <1>6 DEF Writes, PageFields
<1>8. o.markers = e.markers /\ e.payload = o.payload /\ e.color = o.color /\ e.highlight = o.highlight
  BY <1>6 DEF Writes, PageFields
<1>9. d.on = b.on /\ d.highlight = b.highlight
  BY <1>4 DEF Writes, PageFields
<1>10. LinesInv(o)
  BY <1>4, <1>7 DEF LinesInv, Painted
<1>11. ContextsInv(o)
  BY <1>4, <1>7 DEF ContextsInv, ContextOpacity
<1>12. MarkersInv(o)
  BY <1>5, <1>8 DEF MarkersInv
<1>13. RowsInv(o)
  BY <1>3, <1>7, <1>9 DEF RowsInv
<1>14. Writes(p, d, {"color", "lines", "contexts"})
  BY <1>1, <1>4, WritesOn
<1>15. Writes(p, e, {"color", "lines", "contexts", "markers"})
  BY <1>5, <1>14, WritesOn
<1>16. Writes(p, o, {"color", "lines", "contexts", "markers", "swatch"})
  BY <1>6, <1>15, WritesOn
<1> QED
  BY <1>2, <1>6, <1>10, <1>11, <1>12, <1>13, <1>16 DEF MapInv

Pointing == {"highlight", "lines", "contexts", "markers", "on", "card"}

LEMMA SetHighlightDraws ==
    ASSUME NEW p, NEW row, MapInv(p)
    PROVE  Writes(p, SetHighlight(p, row), Pointing) /\ MapInv(SetHighlight(p, row))
<1>1. CASE row = p.highlight
  BY <1>1 DEF SetHighlight, Writes, MapInv
<1>2. CASE row # p.highlight
  <2> DEFINE b == [p EXCEPT !.highlight = row]
             d == PaintLines(b)
             e == PaintMarkers(d)
             g == PaintRows(e)
             o == [g EXCEPT !.card = CardOf(Payload[p.payload], row)]
  <2>1. Writes(p, b, {"highlight"})
    BY DEF Writes, Shape, PageFields, MapInv
  <2>2. SetHighlight(p, row) = o
    BY <1>2 DEF SetHighlight
  <2> HIDE DEF b
  <2>3. Shape(b) /\ PathsDrawn(b) /\ RoutesDrawn(b)
    BY <2>1, MapIsReady DEF Writes, PageFields, PathsDrawn, RoutesDrawn, Ready
  <2>4. Writes(b, d, {"lines", "contexts"}) /\ LinesInv(d) /\ ContextsInv(d) /\ Shape(d)
    BY <2>3, PaintLinesDraws DEF Writes
  <2> HIDE DEF d
  <2>5. Writes(d, e, {"markers"}) /\ MarkersInv(e) /\ Shape(e)
    BY <2>4, PaintMarkersDraws DEF Writes
  <2> HIDE DEF e
  <2>6. Writes(e, g, {"on"}) /\ RowsInv(g) /\ Shape(g)
    BY <2>5, PaintRowsDraws DEF Writes
  <2> HIDE DEF g
  <2>7. Writes(g, o, {"card"}) /\ Shape(o)
    BY <2>6 DEF Writes, Shape, PageFields
  <2> HIDE DEF o
  <2>8. Writes(p, d, {"highlight", "lines", "contexts"})
    BY <2>1, <2>4, WritesOn
  <2>9. Writes(p, e, {"highlight", "lines", "contexts", "markers"})
    BY <2>5, <2>8, WritesOn
  <2>10. Writes(p, g, {"highlight", "lines", "contexts", "markers", "on"})
    BY <2>6, <2>9, WritesOn
  <2>11. Writes(p, o, Pointing)
    BY <2>7, <2>10, WritesOn DEF Pointing
  <2>12. /\ o.payload = d.payload /\ o.color = d.color /\ o.highlight = d.highlight
         /\ o.lines = d.lines /\ o.context = d.context /\ o.contexts = d.contexts
    BY <2>5, <2>6, <2>7 DEF Writes, PageFields
  <2>13. /\ o.markers = e.markers /\ o.payload = e.payload /\ o.color = e.color
         /\ o.highlight = e.highlight /\ o.on = g.on /\ o.highlight = g.highlight
    BY <2>6, <2>7 DEF Writes, PageFields
  <2>14. o.swatch = p.swatch /\ o.color = p.color
    BY <2>7, <2>10 DEF Writes, PageFields
  <2>15. LinesInv(o) /\ ContextsInv(o)
    BY <2>4, <2>12 DEF LinesInv, Painted, ContextsInv, ContextOpacity
  <2>16. MarkersInv(o) /\ RowsInv(o) /\ SwatchInv(o)
    BY <2>5, <2>6, <2>13, <2>14 DEF MarkersInv, RowsInv, SwatchInv, MapInv
  <2> QED
    BY <2>2, <2>7, <2>11, <2>15, <2>16 DEF MapInv
<1> QED
  BY <1>1, <1>2

\* The view of the map, and the routes that are asked for in it.
On(view) == [type |-> "context_on", x |-> view]
Off == [type |-> "context_off", x |-> None]
Asked(p) == IF p.view = p.last THEN p.sent ELSE Append(p.sent, On(p.view))

LEMMA ViewportIsPushed ==
    ASSUME NEW p, Shape(p)
    PROVE  /\ Writes(p, PushContextViewport(p), {"last", "sent"})
           /\ PushContextViewport(p).last = p.view
           /\ PushContextViewport(p).sent = Asked(p)
<1>1. CASE p.view = p.last
  BY <1>1 DEF PushContextViewport, Writes, Asked
<1>2. CASE p.view # p.last
  BY <1>2 DEF PushContextViewport, Writes, Asked, On, PushMap, Shape, PageFields
<1> QED
  BY <1>1, <1>2

LEMMA ToggleSwitches ==
    ASSUME NEW p, Shape(p)
    PROVE  /\ Writes(p, ToggleContext(p), {"toggle", "focus", "last", "sent"})
           /\ ToggleContext(p).toggle \in BOOLEAN
           /\ ToggleContext(p).toggle <=> ~p.toggle
           /\ ToggleContext(p).focus = "toggle"
           /\ ~p.toggle => /\ ToggleContext(p).last = p.view
                           /\ ToggleContext(p).sent = Asked(p)
           /\ p.toggle => /\ ToggleContext(p).last = None
                          /\ ToggleContext(p).sent = Append(p.sent, Off)
<1> DEFINE b == [p EXCEPT !.toggle = ~@, !.focus = "toggle"]
           o == ToggleContext(p)
<1>1. Writes(p, b, {"toggle", "focus"}) /\ b.toggle \in BOOLEAN /\ (b.toggle <=> ~p.toggle) /\ b.focus = "toggle"
  BY DEF Writes, Shape, PageFields
<1>2. o = IF b.toggle THEN PushContextViewport(b) ELSE PushMap([b EXCEPT !.last = None], "context_off", None)
  BY DEF ToggleContext
<1> HIDE DEF b, o
<1>3. Shape(b) /\ b.view = p.view /\ b.last = p.last /\ b.sent = p.sent
  BY <1>1 DEF Writes, PageFields
<1>4. CASE ~p.toggle
  <2>1. Writes(b, o, {"last", "sent"}) /\ o.last = p.view /\ o.sent = Asked(p)
    BY <1>1, <1>2, <1>3, <1>4, ViewportIsPushed DEF Asked
  <2>2. o.toggle \in BOOLEAN /\ (o.toggle <=> ~p.toggle) /\ o.focus = "toggle"
    BY <1>1, <2>1 DEF Writes, PageFields
  <2>3. Writes(p, o, {"toggle", "focus", "last", "sent"})
    BY <1>1, <2>1, WritesOn
  <2> QED
    BY <1>4, <2>1, <2>2, <2>3 DEF o
<1>5. CASE p.toggle
  <2>1. o = PushMap([b EXCEPT !.last = None], "context_off", None)
    BY <1>1, <1>2, <1>5
  <2>2. Writes(b, o, {"last", "sent"}) /\ o.last = None /\ o.sent = Append(p.sent, Off)
    BY <1>3, <2>1 DEF Writes, Shape, PageFields, PushMap, Off
  <2>3. o.toggle \in BOOLEAN /\ (o.toggle <=> ~p.toggle) /\ o.focus = "toggle"
    BY <1>1, <2>2 DEF Writes, PageFields
  <2>4. Writes(p, o, {"toggle", "focus", "last", "sent"})
    BY <1>1, <2>2, WritesOn
  <2> QED
    BY <1>5, <2>2, <2>3, <2>4 DEF o
<1> QED
  BY <1>4, <1>5

LEMMA MapMoves ==
    ASSUME NEW p, NEW view, Shape(p)
    PROVE  /\ Writes(p, MoveTo(p, view), {"view", "last", "sent"})
           /\ MoveTo(p, view).view = view
           /\ p.toggle =>
                /\ MoveTo(p, view).last = view
                /\ view = p.last => MoveTo(p, view).sent = p.sent
                /\ view # p.last => MoveTo(p, view).sent = Append(p.sent, On(view))
           /\ ~p.toggle => Writes(p, MoveTo(p, view), {"view"})
<1> DEFINE b == [p EXCEPT !.view = view]
           o == MoveTo(p, view)
<1>1. Writes(p, b, {"view"}) /\ b.view = view
  BY DEF Writes, Shape, PageFields
<1>2. o = IF b.toggle THEN PushContextViewport(b) ELSE b
  BY DEF MoveTo, OnMoveEnd
<1> HIDE DEF b, o
<1>3. Shape(b) /\ b.toggle = p.toggle /\ b.last = p.last /\ b.sent = p.sent
  BY <1>1 DEF Writes, PageFields
<1>4. CASE p.toggle
  <2>1. /\ Writes(b, o, {"last", "sent"}) /\ o.last = view
        /\ view = p.last => o.sent = p.sent
        /\ view # p.last => o.sent = Append(p.sent, On(view))
    BY <1>1, <1>2, <1>3, <1>4, ViewportIsPushed DEF Asked
  <2>2. Writes(p, o, {"view", "last", "sent"})
    BY <1>1, <2>1, WritesOn
  <2>3. o.view = view
    BY <1>1, <2>1 DEF Writes, PageFields
  <2> QED
    BY <1>4, <2>1, <2>2, <2>3 DEF o
<1>5. CASE ~p.toggle
  <2>1. o = b
    BY <1>2, <1>3, <1>5
  <2>2. Writes(p, o, {"view", "last", "sent"})
    BY <1>1, <2>1 DEF Writes
  <2> QED
    BY <1>1, <1>5, <2>1, <2>2 DEF o
<1> QED
  BY <1>4, <1>5

LEMMA FitMoves ==
    ASSUME NEW p, Shape(p)
    PROVE  Fit(p) = p \/ Fit(p) = MoveTo(p, "fit")
BY DEF Fit

\* A patch of the data attributes.
LEMMA DatasetDraws ==
    ASSUME NEW p, NEW data, Ready(p)
    PROVE  /\ Writes(p, ApplyDataset(p, data), Drawing)
           /\ MapInv(ApplyDataset(p, data))
           /\ ApplyDataset(p, data).context = data.context
           /\ ApplyDataset(p, data).data = p.data
<1> DEFINE b == [p EXCEPT !.payload = data.payload]
           c == IF data.payload = p.payload THEN p ELSE DrawPaths(b)
           d == IF data.context = c.context THEN c ELSE DrawContext(c, data.context)
           o == ApplyColors(d, data.color)
<1>1. ApplyDataset(p, data) = o
  BY DEF ApplyDataset
<1>2. Writes(p, b, {"payload"})
  BY DEF Writes, Shape, PageFields, Ready
<1> HIDE DEF b
<1>3. Shape(b) /\ RoutesDrawn(b)
  BY <1>2 DEF Writes, PageFields, RoutesDrawn, Ready
<1>4. Writes(p, c, {"payload", "lines", "contexts", "markers", "on"}) /\ Ready(c)
  <2>1. CASE data.payload = p.payload
    BY <2>1 DEF Writes, Ready
  <2>2. CASE data.payload # p.payload
    <3>1. Writes(b, c, {"lines", "contexts", "markers", "on"}) /\ Ready(c)
      BY <1>3, <2>2, DrawPathsDraws
    <3> QED
      BY <1>2, <3>1, WritesOn
  <2> QED
    BY <2>1, <2>2
<1> HIDE DEF c
<1>5. Writes(c, d, {"context", "contexts"}) /\ Ready(d) /\ d.context = data.context
  BY <1>4, DrawContextDraws DEF Writes, Ready
<1> HIDE DEF d
<1>6. Writes(d, o, {"color", "lines", "contexts", "markers", "swatch"}) /\ MapInv(o)
  BY <1>5, ApplyColorsDraws
<1> HIDE DEF o
<1>7. Writes(p, d, {"payload", "lines", "contexts", "markers", "on", "context"})
  BY <1>4, <1>5, WritesOn
<1>8. Writes(p, o, Drawing \ {"data"})
  BY <1>6, <1>7, WritesOn DEF Drawing
<1>9. Writes(p, o, Drawing) /\ o.data = p.data /\ o.context = d.context
  BY <1>6, <1>8 DEF Writes, PageFields, Drawing
<1> QED
  BY <1>1, <1>5, <1>6, <1>9

LEMMA PatchMapDraws ==
    ASSUME NEW p, NEW data, MapInv(p)
    PROVE  /\ Writes(p, PatchMap(p, data), Drawing)
           /\ MapInv(PatchMap(p, data))
           /\ PatchMap(p, data).data = data
           /\ p.context = p.data.context => PatchMap(p, data).context = data.context
<1>1. CASE data = p.data
  BY <1>1 DEF PatchMap, Writes, MapInv
<1>2. CASE data # p.data
  <2> DEFINE b == [p EXCEPT !.data = data]
             o == ApplyDataset(b, data)
  <2>1. PatchMap(p, data) = o
    BY <1>2 DEF PatchMap
  <2>2. Writes(p, b, {"data"}) /\ b.data = data
    BY DEF Writes, Shape, PageFields, MapInv
  <2> HIDE DEF b
  <2>3. Ready(b)
    BY <2>2, MapIsReady DEF Writes, PageFields, PathsDrawn, RoutesDrawn, RowsInv, Ready
  <2>4. Writes(b, o, Drawing) /\ MapInv(o) /\ o.context = data.context /\ o.data = data
    BY <2>2, <2>3, DatasetDraws
  <2> HIDE DEF o
  <2>5. Writes(p, o, Drawing)
    BY <2>2, <2>4, WritesOn DEF Drawing
  <2> QED
    BY <2>1, <2>4, <2>5
<1> QED
  BY <1>1, <1>2

LEMMA MountMapDraws ==
    ASSUME NEW p, NEW data, Shape(p), p.context = {}, p.contexts = {}, ~p.toggle
    PROVE  /\ Writes(p, MountMap(p, data), Drawing \cup {"view"})
           /\ MapInv(MountMap(p, data))
           /\ MountMap(p, data).data = data
           /\ MountMap(p, data).context = data.context
           /\ MountMap(p, data).view = p.view \/ MountMap(p, data).view = "fit"
<1> DEFINE b == [p EXCEPT !.data = data, !.payload = data.payload, !.highlight = NoRow]
           c == DrawPaths(b)
           d == DrawContext(c, data.context)
           e == ApplyColors(d, data.color)
           o == Fit(e)
<1>1. MountMap(p, data) = o
  BY DEF MountMap
<1>2. Writes(p, b, {"data", "payload", "highlight"}) /\ b.data = data
  BY DEF Writes, Shape, PageFields
<1> HIDE DEF b
<1>3. Shape(b) /\ RoutesDrawn(b)
  BY <1>2 DEF Writes, PageFields, RoutesDrawn
<1>4. Writes(b, c, {"lines", "contexts", "markers", "on"}) /\ Ready(c)
  BY <1>3, DrawPathsDraws
<1> HIDE DEF c
<1>5. Writes(c, d, {"context", "contexts"}) /\ Ready(d) /\ d.context = data.context
  BY <1>4, DrawContextDraws DEF Ready
<1> HIDE DEF d
<1>6. Writes(d, e, {"color", "lines", "contexts", "markers", "swatch"}) /\ MapInv(e)
  BY <1>5, ApplyColorsDraws
<1> HIDE DEF e
<1>7. Writes(p, c, {"data", "payload", "highlight", "lines", "contexts", "markers", "on"})
  BY <1>2, <1>4, WritesOn
<1>8. Writes(p, d, {"data", "payload", "highlight", "lines", "contexts", "markers", "on", "context"})
  BY <1>5, <1>7, WritesOn
<1>9. Writes(p, e, Drawing)
  BY <1>6, <1>8, WritesOn DEF Drawing
<1>10. ~e.toggle /\ Shape(e)
  BY <1>6, <1>9 DEF Writes, PageFields, Drawing, MapInv
<1>11. Writes(e, o, {"view"}) /\ (o.view = e.view \/ o.view = "fit")
  <2>1. CASE o = e
    BY <1>10, <2>1 DEF Writes
  <2>2. CASE o = MoveTo(e, "fit")
    BY <1>10, <2>2, MapMoves
  <2> QED
    BY <1>10, <2>1, <2>2, FitMoves
<1> HIDE DEF o
<1>12. Writes(p, o, Drawing \cup {"view"})
  BY <1>9, <1>11, WritesOn
<1>13. MapInv(o)
  BY <1>6, <1>11, MapStays DEF Drawing
<1>14. o.data = e.data /\ o.context = e.context
  BY <1>11 DEF Writes, PageFields
<1>15. e.data = d.data /\ e.context = d.context
  BY <1>6 DEF Writes, PageFields
<1>16. d.data = c.data /\ c.data = b.data
  BY <1>4, <1>5 DEF Writes, PageFields
<1>17. e.view = p.view
  BY <1>9 DEF Writes, PageFields, Drawing
<1> QED
  BY <1>1, <1>2, <1>5, <1>11, <1>12, <1>13, <1>14, <1>15, <1>16, <1>17

-----------------------------------------------------------------------------
(* The form and its hook.                                                  *)

IsForm(x) == x = [f \in Fields |-> x[f]]

LEMMA FormIsSet ==
    ASSUME NEW x, IsForm(x), NEW f \in Fields, NEW v
    PROVE  IsForm([x EXCEPT ![f] = v])
BY DEF IsForm

LEMMA FormsAgree ==
    ASSUME NEW x, NEW y, IsForm(x), IsForm(y), \A f \in Fields : x[f] = y[f]
    PROVE  x = y
BY DEF IsForm

LEMMA PushWrites ==
    ASSUME NEW p, Shape(p), NEW type, NEW x
    PROVE  /\ Writes(p, Push(p, type, x), {"sent"})
           /\ Push(p, type, x).sent = Append(p.sent, [type |-> type, x |-> x])
BY DEF Push, Writes, Shape, PageFields

LEMMA SendFormWrites ==
    ASSUME NEW p, Shape(p)
    PROVE  /\ Writes(p, SendForm(p), {"unsent", "sent"})
           /\ ~SendForm(p).unsent
           /\ online => SendForm(p).sent = Append(p.sent, [type |-> "validate", x |-> p.form])
           /\ ~online => SendForm(p).sent = p.sent
BY DEF SendForm, Push, Writes, Shape, PageFields

Entering == {"form", "apart"} \cup Painting \cup (Drawing \ {"data", "context", "payload"})

LEMMA EnterWrites ==
    ASSUME NEW p, MapInv(p), NEW f, NEW v
    PROVE  /\ Writes(p, Enter(p, f, v), Entering)
           /\ MapInv(Enter(p, f, v))
           /\ Enter(p, f, v).form = [p.form EXCEPT ![f] = v]
           /\ Enter(p, f, v).apart <=> p.apart \/ ~online
<1> DEFINE b == [p EXCEPT !.form[f] = v, !.apart = @ \/ ~online]
           o == Enter(p, f, v)
<1>1. Writes(p, b, {"form", "apart"}) /\ b.form = [p.form EXCEPT ![f] = v]
      /\ (b.apart <=> p.apart \/ ~online)
  BY DEF Writes, Shape, PageFields, MapInv
<1>2. o = Recolored(b, f)
  BY DEF Enter
<1> HIDE DEF b, o
<1>3. MapInv(b) /\ Shape(b)
  BY <1>1, MapStays DEF Drawing, MapInv
<1>4. CASE f # "color"
  <2>1. o = b
    BY <1>2, <1>4 DEF Recolored
  <2> QED
    BY <1>1, <1>3, <2>1 DEF Writes, Entering, o
<1>5. CASE f = "color"
  <2> DEFINE c == Paint(b)
  <2>1. o = ApplyColors(c, b.form.color)
    BY <1>2, <1>5 DEF Recolored
  <2>2. Writes(b, c, Painting)
    BY <1>3, PaintWrites
  <2> HIDE DEF c
  <2>3. MapInv(c)
    BY <1>3, <2>2, MapStays DEF Painting, Drawing
  <2>4. Writes(c, o, {"color", "lines", "contexts", "markers", "swatch"}) /\ MapInv(o)
    BY <2>1, <2>3, MapIsReady, ApplyColorsDraws
  <2>5. Writes(p, c, {"form", "apart"} \cup Painting)
    BY <1>1, <2>2, WritesOn
  <2>6. Writes(p, o, Entering)
    BY <2>4, <2>5, WritesOn DEF Entering, Drawing
  <2>7. o.form = b.form /\ o.apart = b.apart
    BY <2>2, <2>4 DEF Writes, PageFields, Painting
  <2> QED
    BY <1>1, <2>4, <2>6, <2>7 DEF o
<1> QED
  BY <1>4, <1>5

LEMMA OfflineWrites ==
    ASSUME NEW p, Shape(p), NEW offline
    PROVE  /\ Writes(p, ApplyOffline(p, offline), {"offline", "disabled", "held"})
           /\ ApplyOffline(p, offline).offline = offline
           /\ offline => ApplyOffline(p, offline).disabled
BY DEF ApplyOffline, Writes, Shape, PageFields

LEMMA DisconnectedWrites ==
    ASSUME NEW p, Shape(p)
    PROVE  /\ Writes(p, Disconnected(p), {"entries", "offline", "disabled", "held"})
           /\ Disconnected(p).offline /\ Disconnected(p).disabled
           /\ (Disconnected(p).entries = p.entries \/ Disconnected(p).entries = p.form)
<1> DEFINE b == [p EXCEPT !.entries = IF p.offline THEN @ ELSE p.form]
<1>1. Writes(p, b, {"entries"}) /\ (b.entries = p.entries \/ b.entries = p.form)
  BY DEF Writes, Shape, PageFields
<1>2. Disconnected(p) = ApplyOffline(b, TRUE)
  BY DEF Disconnected
<1> HIDE DEF b
<1>3. Shape(b)
  BY <1>1 DEF Writes
<1>4. /\ Writes(b, Disconnected(p), {"offline", "disabled", "held"})
      /\ Disconnected(p).offline /\ Disconnected(p).disabled
  BY <1>2, <1>3, OfflineWrites
<1>5. Writes(p, Disconnected(p), {"entries", "offline", "disabled", "held"})
  BY <1>1, <1>4, WritesOn
<1>6. Disconnected(p).entries = b.entries
  BY <1>4 DEF Writes, PageFields
<1> QED
  BY <1>1, <1>4, <1>5, <1>6

Recover == [type |-> "recover", x |-> None]

LEMMA ReconnectedWrites ==
    ASSUME NEW p, Shape(p)
    PROVE  /\ Writes(p, Reconnected(p), {"form", "entries", "sent"} \cup Painting)
           /\ p.entries = None => Reconnected(p).form = p.form
           /\ p.entries # None => Reconnected(p).form = p.entries
           /\ Reconnected(p).entries = None
           /\ Reconnected(p).sent = Append(p.sent, Recover)
<1> DEFINE b == [p EXCEPT !.form = IF p.entries = None THEN @ ELSE p.entries, !.entries = None]
           c == Paint(b)
           o == Push(c, "recover", None)
<1>1. /\ Writes(p, b, {"form", "entries"}) /\ b.entries = None
      /\ b.form = IF p.entries = None THEN p.form ELSE p.entries
  BY DEF Writes, Shape, PageFields
<1>2. Reconnected(p) = o
  BY DEF Reconnected, RestoreEntries
<1> HIDE DEF b
<1>3. Writes(b, c, Painting) /\ Shape(c)
  BY <1>1, PaintWrites DEF Writes
<1> HIDE DEF c
<1>4. Writes(c, o, {"sent"}) /\ o.sent = Append(c.sent, Recover)
  BY <1>3, PushWrites DEF Recover
<1> HIDE DEF o
<1>5. Writes(p, c, {"form", "entries"} \cup Painting)
  BY <1>1, <1>3, WritesOn
<1>6. Writes(p, o, {"form", "entries", "sent"} \cup Painting)
  BY <1>4, <1>5, WritesOn
<1>7. o.form = b.form /\ o.entries = b.entries /\ c.sent = p.sent
  BY <1>3, <1>4, <1>5 DEF Writes, PageFields, Painting
<1> QED
  BY <1>1, <1>2, <1>4, <1>6, <1>7

LEMMA UpdatedWrites ==
    ASSUME NEW p, Shape(p), NEW w
    PROVE  /\ Writes(p, Updated(p, w), {"dirty", "offline", "disabled", "held"} \cup Painting)
           /\ Updated(p, w).dirty = w.dirty
           /\ Updated(p, w).offline <=> p.offline
           /\ p.offline => Updated(p, w).disabled
<1> DEFINE b == Paint(p)
           c == IF p.offline THEN ApplyOffline(b, TRUE) ELSE b
           o == [c EXCEPT !.dirty = w.dirty]
<1>1. Updated(p, w) = o
  BY DEF Updated
<1>2. Writes(p, b, Painting) /\ Shape(b) /\ b.offline = p.offline
  BY PaintWrites DEF Writes, PageFields, Painting
<1> HIDE DEF b
<1>3. /\ Writes(b, c, {"offline", "disabled", "held"}) /\ Shape(c)
      /\ p.offline => c.disabled
      /\ c.offline <=> p.offline
  <2>1. CASE p.offline
    <3>1. /\ Writes(b, ApplyOffline(b, TRUE), {"offline", "disabled", "held"})
          /\ ApplyOffline(b, TRUE).offline = TRUE /\ ApplyOffline(b, TRUE).disabled
      BY <1>2, OfflineWrites
    <3>2. c = ApplyOffline(b, TRUE)
      BY <2>1
    <3> QED
      BY <1>2, <2>1, <3>1, <3>2 DEF Writes
  <2>2. CASE ~p.offline
    BY <1>2, <2>2 DEF Writes
  <2> QED
    BY <2>1, <2>2
<1> HIDE DEF c
<1>4. Writes(c, o, {"dirty"}) /\ o.dirty = w.dirty
  BY <1>3 DEF Writes, Shape, PageFields
<1> HIDE DEF o
<1>5. Writes(p, c, {"offline", "disabled", "held"} \cup Painting)
  BY <1>2, <1>3, WritesOn
<1>6. Writes(p, o, {"dirty", "offline", "disabled", "held"} \cup Painting)
  BY <1>4, <1>5, WritesOn
<1>7. o.disabled = c.disabled /\ o.offline = c.offline
  BY <1>4 DEF Writes, PageFields
<1> QED
  BY <1>1, <1>3, <1>4, <1>6, <1>7

PatchingForm ==
    {"form", "offline", "disabled", "held", "barHidden", "merge", "known", "dirty"} \cup Painting

\* What is typed in the field in focus stays.
FormPatched(form, p, w) ==
    \A f \in Fields : /\ f = p.focus => form[f] = p.form[f]
                      /\ f # p.focus => form[f] = w.form[f]

Hides(w) == ~w.changed
KnownPatched(known, p, w) ==
    /\ w.known = None => known = p.known
    /\ w.known # None => known = w.known

LEMMA PatchFormWrites ==
    ASSUME NEW p, Shape(p), NEW w
    PROVE  /\ Writes(p, PatchForm(p, w), PatchingForm)
           /\ IsForm(PatchForm(p, w).form)
           /\ FormPatched(PatchForm(p, w).form, p, w)
           /\ PatchForm(p, w).dirty = w.dirty
           /\ PatchForm(p, w).barHidden = Hides(w)
           /\ PatchForm(p, w).merge = w.merge
           /\ KnownPatched(PatchForm(p, w).known, p, w)
           /\ PatchForm(p, w).offline <=> p.offline
           /\ p.offline => PatchForm(p, w).disabled
<1> DEFINE form == [f \in Fields |-> IF f = p.focus THEN p.form[f] ELSE w.form[f]]
           b == [p EXCEPT !.form = form, !.badge = RouteBadge(w.form), !.disabled = w.blocked,
                          !.held = FALSE, !.barHidden = ~w.changed, !.merge = w.merge,
                          !.known = IF w.known = None THEN @ ELSE w.known]
           o == Updated(b, w)
<1>1. PatchForm(p, w) = o
  BY DEF PatchForm
<1>8. IsForm(form) /\ FormPatched(form, p, w)
  BY DEF IsForm, FormPatched
<1> HIDE DEF form
<1>2. /\ Writes(p, b, {"form", "badge", "disabled", "held", "barHidden", "merge", "known"})
      /\ b.form = form /\ b.barHidden = Hides(w) /\ b.merge = w.merge
      /\ KnownPatched(b.known, p, w)
  BY DEF Writes, Shape, PageFields, KnownPatched, Hides
<1> HIDE DEF b
<1>3. Shape(b) /\ b.offline = p.offline
  BY <1>2 DEF Writes, PageFields
<1>4. /\ Writes(b, o, {"dirty", "offline", "disabled", "held"} \cup Painting)
      /\ o.dirty = w.dirty /\ (p.offline => o.disabled) /\ (o.offline <=> p.offline)
  BY <1>3, UpdatedWrites
<1> HIDE DEF o
<1>5. Writes(p, o, PatchingForm)
  BY <1>2, <1>4, WritesOn DEF PatchingForm, Painting
<1>6. o.form = b.form /\ o.barHidden = b.barHidden /\ o.merge = b.merge /\ o.known = b.known
  BY <1>4 DEF Writes, PageFields, Painting
<1> QED
  BY <1>1, <1>2, <1>4, <1>5, <1>6, <1>8

Around == {"asking", "toggle", "strip"} \cup Drawing

LEMMA PatchWrites ==
    ASSUME NEW p, MapInv(p), NEW w
    PROVE  /\ Writes(p, Patch(p, w), Around \cup PatchingForm)
           /\ MapInv(Patch(p, w))
           /\ Patch(p, w).data = w.data
           /\ p.context = p.data.context => Patch(p, w).context = w.data.context
           /\ p.focus = "toggle" => Patch(p, w).toggle = p.toggle
           /\ p.focus # "toggle" => Patch(p, w).toggle = w.show
           /\ Patch(p, w).offline <=> p.offline
           /\ p.offline /\ p.disabled => Patch(p, w).disabled
           /\ Locked => Writes(p, Patch(p, w), Around)
           /\ ~Locked =>
                /\ IsForm(Patch(p, w).form)
                /\ FormPatched(Patch(p, w).form, p, w)
                /\ Patch(p, w).dirty = w.dirty
                /\ Patch(p, w).barHidden = Hides(w)
                /\ Patch(p, w).merge = w.merge
                /\ KnownPatched(Patch(p, w).known, p, w)
<1> DEFINE b == [p EXCEPT !.asking = w.asking, !.toggle = IF p.focus = "toggle" THEN @ ELSE w.show,
                          !.strip = w.strip]
           c == PatchMap(b, w.data)
           o == Patch(p, w)
<1>1. o = IF Locked THEN c ELSE PatchForm(c, w)
  BY DEF Patch
<1>2. /\ Writes(p, b, {"asking", "toggle", "strip"})
      /\ b.toggle = IF p.focus = "toggle" THEN p.toggle ELSE w.show
  BY DEF Writes, Shape, PageFields, MapInv
<1> HIDE DEF b, o
<1>3. MapInv(b)
  <2>1. {"asking", "toggle", "strip"} \cap Drawing = {}
    BY DEF Drawing
  <2> QED
    BY <1>2, <2>1, MapStays
<1>10. b.context = p.context /\ b.data = p.data
  BY <1>2 DEF Writes, PageFields
<1>4. /\ Writes(b, c, Drawing) /\ MapInv(c) /\ c.data = w.data
      /\ p.context = p.data.context => c.context = w.data.context
  BY <1>3, <1>10, PatchMapDraws
<1> HIDE DEF c
<1>5. Writes(p, c, Around)
  BY <1>2, <1>4, WritesOn DEF Around
<1>6. c.toggle = b.toggle
  BY <1>4 DEF Writes, PageFields, Drawing
<1>7. /\ c.offline = p.offline /\ c.focus = p.focus /\ c.form = p.form /\ c.known = p.known
      /\ c.disabled = p.disabled /\ Shape(c)
  BY <1>4, <1>5 DEF Writes, PageFields, Drawing, Around, MapInv
<1>8. CASE Locked
  <2>1. o = c
    BY <1>1, <1>8
  <2>2. Writes(p, c, Around \cup PatchingForm)
    BY <1>5 DEF Writes
  <2> QED
    BY <1>2, <1>4, <1>5, <1>6, <1>7, <1>8, <2>1, <2>2 DEF o
<1>9. CASE ~Locked
  <2>1. o = PatchForm(c, w)
    BY <1>1, <1>9
  <2>2. Writes(c, o, PatchingForm)
    BY <1>7, <2>1, PatchFormWrites
  <2>3. /\ IsForm(o.form)
        /\ FormPatched(o.form, p, w)
        /\ o.dirty = w.dirty /\ o.barHidden = Hides(w) /\ o.merge = w.merge
        /\ KnownPatched(o.known, p, w)
    <3>1. IsForm(o.form) /\ FormPatched(o.form, c, w)
      BY <1>7, <2>1, PatchFormWrites
    <3>2. FormPatched(o.form, p, w)
      BY <1>7, <3>1 DEF FormPatched
    <3>3. o.dirty = w.dirty /\ o.merge = w.merge
      BY <1>7, <2>1, PatchFormWrites
    <3>4. o.barHidden = Hides(w)
      BY <1>7, <2>1, PatchFormWrites
    <3>5. KnownPatched(o.known, c, w)
      BY <1>7, <2>1, PatchFormWrites
    <3>6. KnownPatched(o.known, p, w)
      BY <1>7, <3>5 DEF KnownPatched
    <3> QED
      BY <3>1, <3>2, <3>3, <3>4, <3>6
  <2>7. (p.offline => o.disabled) /\ (o.offline <=> p.offline)
    BY <1>7, <2>1, PatchFormWrites
  <2>4. Writes(p, o, Around \cup PatchingForm)
    BY <1>5, <2>2, WritesOn
  <2>5. MapInv(o)
    BY <1>4, <2>2, MapStays DEF PatchingForm, Painting, Drawing
  <2>6. o.data = c.data /\ o.context = c.context /\ o.toggle = c.toggle
    BY <2>2 DEF Writes, PageFields, PatchingForm, Painting
  <2> QED
    BY <1>2, <1>4, <1>6, <1>9, <2>3, <2>4, <2>5, <2>6, <2>7 DEF o
<1> QED
  BY <1>8, <1>9

LEMMA AckedWrites ==
    ASSUME NEW p, Shape(p), NEW of
    PROVE  Writes(p, Acked(p, of), {"saving", "answered"})
BY DEF Acked, Writes, Shape, PageFields

\* The event that an answer pushes.
FocusEvent == [type |-> "focus", x |-> None]
Recovered(retryable) == [type |-> "recovered", x |-> retryable]
Navigated(why) == [type |-> "navigate", x |-> why]

LEMMA EventsArePushed ==
    /\ None \notin PushedEvents
    /\ FocusEvent \in PushedEvents
    /\ Recovered(TRUE) \in PushedEvents /\ Recovered(FALSE) \in PushedEvents
    /\ \A why \in {"clean", "discard", "saved"} : Navigated(why) \in PushedEvents
    /\ \A e \in PushedEvents : \/ e = FocusEvent \/ e = Recovered(TRUE) \/ e = Recovered(FALSE)
                               \/ \E why \in {"clean", "discard", "saved"} : e = Navigated(why)
<1>1. None \notin PushedEvents
  BY RouteAssumption
<1>2. /\ FocusEvent \in PushedEvents
      /\ Recovered(TRUE) \in PushedEvents /\ Recovered(FALSE) \in PushedEvents
      /\ \A why \in {"clean", "discard", "saved"} : Navigated(why) \in PushedEvents
  BY DEF PushedEvents, FocusEvent, Recovered, Navigated
<1>3. ASSUME NEW e \in PushedEvents
      PROVE  \/ e = FocusEvent \/ e = Recovered(TRUE) \/ e = Recovered(FALSE)
             \/ \E why \in {"clean", "discard", "saved"} : e = Navigated(why)
  <2>1. CASE e \in {[type |-> "focus", x |-> None]}
    BY <2>1 DEF FocusEvent
  <2>2. CASE e \in [type : {"recovered"}, x : BOOLEAN]
    BY <2>2 DEF Recovered
  <2>3. CASE e \in [type : {"navigate"}, x : {"clean", "discard", "saved"}]
    BY <2>3 DEF Navigated
  <2> QED
    BY <2>1, <2>2, <2>3 DEF PushedEvents
<1> QED
  BY <1>1, <1>2, <1>3

\* The page after the event of an answer.
Listening(p, e, o) ==
    \/ (e = None \/ e = Recovered(FALSE)) /\ Writes(p, o, {})
    \/ e = FocusEvent /\ Writes(p, o, {"focus"}) /\ o.focus = None
    \/ e = Recovered(TRUE) /\ Writes(p, o, {"offline", "disabled", "held"}) /\ ~o.offline
    \/ /\ \E why \in {"clean", "discard", "saved"} : e = Navigated(why)
       /\ Writes(p, o, {"where", "leftover"}) /\ o.where = "elsewhere"

LEMMA HeardListens ==
    ASSUME NEW p, Shape(p), NEW e, e = None \/ e \in PushedEvents
    PROVE  Listening(p, e, Heard(p, e))
<1>1. CASE e = None
  BY <1>1 DEF Heard, Listening, Writes
<1>2. CASE e = FocusEvent
  <2>1. Heard(p, e) = [p EXCEPT !.focus = None]
    BY <1>2, EventsArePushed DEF Heard, FocusEvent
  <2> QED
    BY <1>2, <2>1 DEF Listening, Writes, Shape, PageFields
<1>3. CASE e = Recovered(FALSE)
  BY <1>3, EventsArePushed DEF Heard, Listening, Recovered, RouteRecovery, Writes
<1>4. CASE e = Recovered(TRUE)
  <2>1. Heard(p, e) = ApplyOffline(p, FALSE)
    BY <1>4, EventsArePushed DEF Heard, Recovered, RouteRecovery
  <2> QED
    BY <1>4, <2>1, OfflineWrites DEF Listening
<1>5. CASE \E why \in {"clean", "discard", "saved"} : e = Navigated(why)
  <2>1. e # None /\ e.type = "navigate"
    BY <1>5, EventsArePushed DEF Navigated
  <2>2. Heard(p, e) = Destroyed(p)
    BY <2>1 DEF Heard
  <2>3. Writes(p, Destroyed(p), {"where", "leftover"}) /\ Destroyed(p).where = "elsewhere"
    BY DEF Destroyed, Writes, Shape, PageFields
  <2> QED
    BY <1>5, <2>2, <2>3 DEF Listening
<1> QED
  BY <1>1, <1>2, <1>3, <1>4, <1>5, EventsArePushed

OpenedWith(w, o) ==
    /\ MapInv(o) /\ o.where = "details" /\ o.form = w.form /\ ~o.unsent /\ o.focus = None
    /\ o.dirty = w.dirty /\ ~o.offline /\ o.entries = None
    /\ o.barHidden = TRUE /\ o.merge = None /\ o.known = w.known
    /\ ~o.apart /\ o.last = None /\ o.toggle = FALSE /\ o.sent = <<>>
    /\ o.data = w.data /\ o.context = w.data.context /\ o.view \in {"world", "fit"}

LEMMA MountedWrites ==
    ASSUME NEW w, NEW leftover
    PROVE  OpenedWith(w, Mounted(w, leftover))
<1> DEFINE bare == [where |-> "details", form |-> w.form, unsent |-> FALSE, focus |-> None,
                 saving |-> FALSE, dirty |-> w.dirty, offline |-> FALSE,
                 entries |-> None, disabled |-> FALSE, held |-> FALSE, barHidden |-> TRUE,
                 merge |-> None, asking |-> FALSE, answered |-> FALSE, badge |-> None, readout |-> None,
                 label |-> None, leftover |-> leftover, apart |-> FALSE,
                 known |-> w.known,
                 data |-> w.data, payload |-> w.data.payload, color |-> "white",
                 highlight |-> NoRow, lines |-> {}, markers |-> None, on |-> NoRow,
                 swatch |-> None, card |-> NoRow, context |-> {}, contexts |-> {},
                 view |-> "world", last |-> None, toggle |-> FALSE, strip |-> w.strip,
                 sent |-> <<>>]
           b == MountMap(bare, w.data)
           o == Paint(b)
<1>1. Mounted(w, leftover) = o
  BY DEF Mounted
<1>2. Shape(bare)
  BY DEF Shape, PageFields
<1>3. /\ bare.where = "details" /\ bare.form = w.form /\ ~bare.unsent /\ bare.focus = None
      /\ bare.dirty = w.dirty /\ ~bare.offline /\ bare.entries = None
      /\ bare.barHidden = TRUE /\ bare.merge = None /\ bare.known = w.known
      /\ ~bare.apart /\ bare.last = None /\ ~bare.toggle /\ bare.sent = <<>>
      /\ bare.context = {} /\ bare.contexts = {} /\ bare.view = "world"
  OBVIOUS
<1> HIDE DEF bare
<1>4. /\ Writes(bare, b, Drawing \cup {"view"}) /\ MapInv(b)
      /\ b.data = w.data /\ b.context = w.data.context /\ (b.view = bare.view \/ b.view = "fit")
  <2>1. bare.context = {} /\ bare.contexts = {} /\ ~bare.toggle
    BY <1>3
  <2>2. Writes(bare, b, Drawing \cup {"view"}) /\ MapInv(b)
    BY <1>2, <2>1, MountMapDraws
  <2>3. b.data = w.data
    BY <1>2, <2>1, MountMapDraws
  <2>4. b.context = w.data.context
    BY <1>2, <2>1, MountMapDraws
  <2>5. b.view = bare.view \/ b.view = "fit"
    BY <1>2, <2>1, MountMapDraws
  <2> QED
    BY <2>2, <2>3, <2>4, <2>5
<1> HIDE DEF b
<1>5. Writes(b, o, Painting)
  BY <1>4, PaintWrites DEF MapInv
<1> HIDE DEF o
<1>6. MapInv(o)
  BY <1>4, <1>5, MapStays DEF Painting, Drawing
<1>7. Writes(bare, o, Drawing \cup {"view"} \cup Painting)
  BY <1>4, <1>5, WritesOn
<1>8. o.data = b.data /\ o.context = b.context /\ o.view = b.view
  BY <1>5 DEF Writes, PageFields, Painting
<1>9. /\ o.where = bare.where /\ o.form = bare.form /\ o.unsent = bare.unsent
      /\ o.focus = bare.focus /\ o.dirty = bare.dirty /\ o.offline = bare.offline
      /\ o.entries = bare.entries /\ o.barHidden = bare.barHidden /\ o.merge = bare.merge
      /\ o.known = bare.known /\ o.apart = bare.apart /\ o.last = bare.last
      /\ o.toggle = bare.toggle /\ o.sent = bare.sent
  BY <1>7 DEF Writes, PageFields, Drawing, Painting
<1> QED
  BY <1>1, <1>3, <1>4, <1>6, <1>8, <1>9 DEF OpenedWith

-----------------------------------------------------------------------------
(* The process.                                                            *)

SrvFields ==
    {"base", "rev", "draft", "merge", "pending", "blocked", "payload", "show", "routes",
     "status", "bounds", "cursor", "missed", "rejoined", "out"}
DbFields == {"values", "rev", "map", "editor"}

\* Of a process only the fields of a set are written.
Leaves(v, o, set) ==
    SrvFields \subseteq DOMAIN o /\ \A f \in SrvFields \ set : o[f] = v[f]

LEMMA LeavesOn ==
    ASSUME NEW v, NEW o, NEW q, NEW X, NEW Y, NEW Z, Leaves(v, o, X), Leaves(o, q, Y),
           X \cup Y \subseteq Z
    PROVE  Leaves(v, q, Z)
BY DEF Leaves

DbInv(d) == DbFields \subseteq DOMAIN d /\ d.rev \in Nat /\ IsForm(d.values)
Event(e) == e = None \/ e \in PushedEvents
SrvInv(v) ==
    /\ SrvFields \subseteq DOMAIN v /\ IsForm(v.base) /\ IsForm(v.draft)
    /\ v.show \in BOOLEAN /\ Event(v.out)

Loading == {"base", "rev", "draft", "merge", "payload", "blocked"}
Saving == Loading \cup {"pending", "out"}
Context == {"show", "routes", "status", "bounds", "cursor", "missed"}

LEMMA Loads ==
    ASSUME NEW v, SrvFields \subseteq DOMAIN v
    PROVE  /\ Leaves(v, LoadRouteWorkspace(v), Loading)
           /\ LoadRouteWorkspace(v).base = db.values /\ LoadRouteWorkspace(v).draft = db.values
           /\ LoadRouteWorkspace(v).rev = db.rev
           /\ LoadRouteWorkspace(v).merge = None /\ ~LoadRouteWorkspace(v).blocked
BY DEF LoadRouteWorkspace, Leaves, Loading, SrvFields

LEMMA Sends ==
    ASSUME NEW v, SrvFields \subseteq DOMAIN v, NEW m
    PROVE  Leaves(v, Send(v, m), {"out"}) /\ Send(v, m).out = m
BY DEF Send, Leaves, SrvFields

LEMMA FocusIsSent ==
    ASSUME NEW v
    PROVE  Focus(v) = Send(v, FocusEvent)
BY DEF Focus, FocusEvent

LEMMA NavigateIsSent ==
    ASSUME NEW v, NEW why
    PROVE  GuardedNavigate(v, why) = Send(v, Navigated(why))
BY DEF GuardedNavigate, Navigated

\* What is loaded comes from the process before, or from the database.
LoadedFrom(v, o, d) ==
    /\ \/ o.base = v.base /\ o.rev = v.rev
       \/ o.base = d.values /\ o.rev = d.rev
    /\ \/ o.merge = v.merge
       \/ o.merge = None
       \/ o.merge.rev = d.rev /\ o.merge.current = d.values

Presenting(v, o) ==
    \/ /\ Leaves(v, o, Loading) /\ o.base = db.values /\ o.draft = db.values /\ o.rev = db.rev
       /\ o.merge = None /\ ~o.blocked
    \/ /\ Leaves(v, o, {"merge", "out"}) /\ o.out = FocusEvent
       /\ o.merge.rev = db.rev /\ o.merge.current = db.values

LEMMA ConflictIsPresented ==
    ASSUME NEW v, SrvFields \subseteq DOMAIN v
    PROVE  Presenting(v, PresentConflict(v))
<1>1. CASE Changed(v) = {}
  <2>1. PresentConflict(v) = LoadRouteWorkspace(v)
    BY <1>1 DEF PresentConflict
  <2> QED
    BY <2>1, Loads DEF Presenting
<1>2. CASE Changed(v) # {}
  <2> DEFINE b == [v EXCEPT !.merge = [rev |-> db.rev, current |-> db.values,
                                     conflicting |-> Conflicting(v)]]
             o == Send(b, FocusEvent)
  <2>1. PresentConflict(v) = o
    BY <1>2 DEF PresentConflict, Focus, FocusEvent
  <2>2. Leaves(v, b, {"merge"}) /\ b.merge.rev = db.rev /\ b.merge.current = db.values
    BY DEF Leaves, SrvFields
  <2> HIDE DEF b
  <2>3. Leaves(b, o, {"out"}) /\ o.out = FocusEvent
    BY <2>2, Sends DEF Leaves
  <2> HIDE DEF o
  <2>4. Leaves(v, o, {"merge", "out"}) /\ o.merge = b.merge
    <3>1. Leaves(v, o, {"merge", "out"})
      BY <2>2, <2>3, LeavesOn
    <3> QED
      BY <2>3, <3>1 DEF Leaves, SrvFields
  <2> QED
    BY <2>1, <2>2, <2>3, <2>4 DEF Presenting
<1> QED
  BY <1>1, <1>2

LEMMA MergedIsForm ==
    ASSUME NEW v, NEW choices
    PROVE  IsForm(Merged(v, choices))
BY DEF Merged, IsForm

\* What a save does of the process and of the database.
SavedProcess(v, o, d) ==
    /\ SrvInv(o) /\ Leaves(v, o, Saving) /\ LoadedFrom(v, o, d)
    /\ o.out # Navigated("clean")
    /\ o.blocked => v.blocked
    /\ v.blocked /\ ~db.editor /\ v.merge = None => o.blocked /\ o.merge = None

\* The database of a save that was not refused.
Stored(v, choices, d) ==
    \/ d = db
    \/ /\ DbInv(d) /\ d.rev = db.rev + 1 /\ d.editor = db.editor
       /\ ~Refused(v, choices)
       /\ \A f \in Fields : d.values[f] = Merged(v, choices)[f]

LEMMA WritesStore ==
    ASSUME NEW v, NEW choices, DbInv(db), ~Refused(v, choices)
    PROVE  /\ Stored(v, choices, Written(v, choices)) /\ DbInv(Written(v, choices))
           /\ Written(v, choices).editor = db.editor
<1>1. CASE ToWrite(v, choices) = {}
  BY <1>1 DEF Written, Stored
<1>2. CASE ToWrite(v, choices) # {}
  <2> DEFINE merged == Merged(v, choices)
             d == [db EXCEPT !.values = merged, !.rev = @ + 1]
  <2>1. Written(v, choices) = d
    BY <1>2 DEF Written
  <2>2. IsForm(merged)
    BY MergedIsForm
  <2> HIDE DEF merged
  <2>3. d.values = merged /\ d.rev = db.rev + 1 /\ d.editor = db.editor /\ DbFields \subseteq DOMAIN d
    BY DEF DbInv, DbFields
  <2> HIDE DEF d
  <2>4. DbInv(d)
    BY <2>2, <2>3 DEF DbInv
  <2> QED
    BY <2>1, <2>3, <2>4 DEF Stored, merged
<1> QED
  BY <1>1, <1>2


LEMMA LeavesSaving ==
    ASSUME NEW v, SrvInv(v), NEW o, Leaves(v, o, Saving), IsForm(o.base), IsForm(o.draft),
           Event(o.out)
    PROVE  SrvInv(o)
BY DEF Leaves, Saving, Loading, SrvInv, SrvFields

LEMMA SaveSaves ==
    ASSUME NEW v, SrvInv(v), v.out = None, DbInv(db), NEW choices, NEW leaving,
           RunDetailsSave(v, choices, leaving)
    PROVE  SavedProcess(v, srv', db') /\ Stored(v, choices, db') /\ DbInv(db')
           /\ db'.editor = db.editor
<1> DEFINE unheld == [v EXCEPT !.pending = FALSE]
           read == Written(v, choices)
<1>1. Leaves(v, unheld, {"pending"}) /\ SrvFields \subseteq DOMAIN unheld
  BY DEF SrvInv, Leaves, SrvFields
<1>2. /\ ~db.editor => srv' = Send(unheld, FocusEvent) /\ db' = db
      /\ db.editor /\ Refused(v, choices) => srv' = PresentConflict(unheld) /\ db' = db
      /\ db.editor /\ ~Refused(v, choices) /\ Merged(v, choices).color = "bad"
           => srv' = Send([unheld EXCEPT !.draft = Merged(v, choices)], FocusEvent) /\ db' = db
      /\ db.editor /\ ~Refused(v, choices) /\ Merged(v, choices).color # "bad"
           => /\ db' = read
              /\ srv' = IF leaving THEN Send(unheld, Navigated("saved"))
                        ELSE Send([unheld EXCEPT !.base = read.values, !.rev = read.rev,
                                                 !.draft = read.values, !.merge = None,
                                                 !.payload = read.map], FocusEvent)
  BY FocusIsSent, NavigateIsSent DEF RunDetailsSave
<1> HIDE DEF unheld, read
<1>3. unheld.base = v.base /\ unheld.draft = v.draft /\ unheld.rev = v.rev /\ unheld.merge = v.merge
      /\ unheld.blocked = v.blocked
  BY <1>1 DEF Leaves, SrvFields
<1>4. Event(FocusEvent) /\ Event(Navigated("saved")) /\ FocusEvent # Navigated("clean")
      /\ Navigated("saved") # Navigated("clean") /\ None # Navigated("clean")
  BY EventsArePushed DEF Event, FocusEvent, Navigated
<1>5. CASE ~db.editor
  <2>1. srv' = Send(unheld, FocusEvent) /\ db' = db
    BY <1>2, <1>5
  <2>2. Leaves(unheld, srv', {"out"}) /\ srv'.out = FocusEvent
    BY <1>1, <2>1, Sends
  <2>3. Leaves(v, srv', Saving)
    BY <1>1, <2>2, LeavesOn DEF Saving
  <2>4. /\ srv'.base = v.base /\ srv'.draft = v.draft /\ srv'.rev = v.rev /\ srv'.merge = v.merge
        /\ srv'.blocked = v.blocked
    BY <1>3, <2>2 DEF Leaves, SrvFields
  <2>5. SrvInv(srv')
    BY <1>4, <2>2, <2>3, <2>4, LeavesSaving DEF SrvInv
  <2> QED
    BY <1>4, <2>1, <2>2, <2>3, <2>4, <2>5 DEF SavedProcess, Stored, LoadedFrom
<1>6. CASE db.editor /\ Refused(v, choices)
  <2>1. srv' = PresentConflict(unheld) /\ db' = db
    BY <1>2, <1>6
  <2>2. Presenting(unheld, srv')
    BY <1>1, <2>1, ConflictIsPresented
  <2>3. Leaves(v, srv', Saving)
    BY <1>1, <2>2, LeavesOn DEF Presenting, Saving, Loading
  <2>4. /\ \/ srv'.base = v.base /\ srv'.rev = v.rev /\ srv'.draft = v.draft
           \/ srv'.base = db.values /\ srv'.rev = db.rev /\ srv'.draft = db.values
        /\ \/ srv'.merge = None
           \/ srv'.merge.rev = db.rev /\ srv'.merge.current = db.values
        /\ srv'.blocked => v.blocked
    BY <1>3, <2>2 DEF Presenting, Leaves, SrvFields
  <2>5. srv'.out = v.out \/ srv'.out = FocusEvent
    BY <1>1, <2>2 DEF Presenting, Leaves, SrvFields, Loading
  <2>6. SrvInv(srv')
    BY <1>4, <2>3, <2>4, <2>5, LeavesSaving DEF SrvInv, DbInv
  <2> QED
    BY <1>4, <1>6, <2>1, <2>3, <2>4, <2>5, <2>6 DEF SavedProcess, Stored, LoadedFrom
<1>7. CASE db.editor /\ ~Refused(v, choices) /\ Merged(v, choices).color = "bad"
  <2> DEFINE b == [unheld EXCEPT !.draft = Merged(v, choices)]
  <2>1. srv' = Send(b, FocusEvent) /\ db' = db
    BY <1>2, <1>7
  <2>2. Leaves(unheld, b, {"draft"}) /\ b.draft = Merged(v, choices)
    BY <1>1 DEF Leaves, SrvFields
  <2> HIDE DEF b
  <2>3. Leaves(b, srv', {"out"}) /\ srv'.out = FocusEvent
    BY <2>1, <2>2, Sends DEF Leaves
  <2>4. Leaves(v, b, {"pending", "draft"})
    BY <1>1, <2>2, LeavesOn
  <2>5. Leaves(v, srv', Saving)
    BY <2>3, <2>4, LeavesOn DEF Saving, Loading
  <2>6. /\ srv'.base = v.base /\ srv'.rev = v.rev /\ srv'.merge = v.merge
        /\ srv'.blocked = v.blocked /\ srv'.draft = b.draft
    BY <2>3, <2>4 DEF Leaves, SrvFields
  <2>7. SrvInv(srv')
    BY <1>4, <2>2, <2>3, <2>5, <2>6, LeavesSaving, MergedIsForm DEF SrvInv
  <2> QED
    BY <1>4, <1>7, <2>1, <2>3, <2>5, <2>6, <2>7 DEF SavedProcess, Stored, LoadedFrom
<1>8. CASE db.editor /\ ~Refused(v, choices) /\ Merged(v, choices).color # "bad"
  <2>1. Stored(v, choices, db') /\ DbInv(db') /\ db'.editor = db.editor
    BY <1>2, <1>8, WritesStore DEF read
  <2>2. CASE leaving
    <3>1. srv' = Send(unheld, Navigated("saved"))
      BY <1>2, <1>8, <2>2
    <3>2. Leaves(unheld, srv', {"out"}) /\ srv'.out = Navigated("saved")
      BY <1>1, <3>1, Sends
    <3>3. Leaves(v, srv', Saving)
      BY <1>1, <3>2, LeavesOn DEF Saving
    <3>4. /\ srv'.base = v.base /\ srv'.draft = v.draft /\ srv'.rev = v.rev /\ srv'.merge = v.merge
          /\ srv'.blocked = v.blocked
      BY <1>3, <3>2 DEF Leaves, SrvFields
    <3>5. SrvInv(srv')
      BY <1>4, <3>2, <3>3, <3>4, LeavesSaving DEF SrvInv
    <3> QED
      BY <1>4, <1>8, <2>1, <3>2, <3>3, <3>4, <3>5 DEF SavedProcess, LoadedFrom
  <2>3. CASE ~leaving
    <3> DEFINE b == [unheld EXCEPT !.base = read.values, !.rev = read.rev,
                                   !.draft = read.values, !.merge = None, !.payload = read.map]
    <3>1. srv' = Send(b, FocusEvent) /\ db' = read
      BY <1>2, <1>8, <2>3
    <3>2. /\ Leaves(unheld, b, {"base", "rev", "draft", "merge", "payload"})
          /\ b.base = read.values /\ b.rev = read.rev /\ b.draft = read.values /\ b.merge = None
      BY <1>1 DEF Leaves, SrvFields
    <3> HIDE DEF b
    <3>3. Leaves(b, srv', {"out"}) /\ srv'.out = FocusEvent
      BY <3>1, <3>2, Sends DEF Leaves
    <3>4. Leaves(v, b, {"pending", "base", "rev", "draft", "merge", "payload"})
      BY <1>1, <3>2, LeavesOn
    <3>5. Leaves(v, srv', Saving)
      BY <3>3, <3>4, LeavesOn DEF Saving, Loading
    <3>6. /\ srv'.base = db'.values /\ srv'.rev = db'.rev /\ srv'.draft = db'.values
          /\ srv'.merge = None
      BY <3>1, <3>2, <3>3 DEF Leaves, SrvFields
    <3>7. srv'.blocked = v.blocked
      BY <3>3, <3>4 DEF Leaves, SrvFields
    <3>8. SrvInv(srv')
      BY <1>4, <2>1, <3>3, <3>5, <3>6, LeavesSaving DEF DbInv
    <3> QED
      BY <1>4, <1>8, <2>1, <3>3, <3>5, <3>6, <3>7, <3>8 DEF SavedProcess, LoadedFrom
  <2> QED
    BY <2>2, <2>3
<1> QED
  BY <1>5, <1>6, <1>7, <1>8


\* What a save writes was loaded, or displayed in the comparison of the merge.
LEMMA StoredIsCompared ==
    ASSUME NEW v, NEW choices, NEW d, Stored(v, choices, d), NEW f \in Fields,
           d.values[f] # db.values[f]
    PROVE  db.values[f] = v.base[f] \/ (v.merge # None /\ v.merge.rev = db.rev)
<1>1. ~Refused(v, choices)
  BY DEF Stored
<1>2. CASE ChangedSinceBase(v)
  BY <1>1, <1>2 DEF Refused, BoundToDisplayed
<1>3. CASE ~ChangedSinceBase(v)
  <2>1. PICK u \in Units : f \in u
    BY DEF Units, Fields
  <2>2. TheirsOf(v, u) = {}
    BY <1>3 DEF ChangedSinceBase
  <2> QED
    BY <2>1, <2>2 DEF TheirsOf
<1> QED
  BY <1>2, <1>3

Asking == {"context_on", "context_off"}
Staying == {"guard", "recover", "context_on"}

ContextHandled(type, x, v, o) ==
    /\ type \notin Asking => o.show = v.show /\ o.bounds = v.bounds /\ o.missed = v.missed
    /\ type = "context_on" => o.show /\ (o.missed \/ o.bounds = x)
    /\ type = "context_off" => ~o.show /\ o.bounds = None /\ ~o.missed

\* The process after an event, and the database.
Handled(type, x, v, o, d) ==
    /\ SrvInv(o) /\ o.rejoined = v.rejoined /\ LoadedFrom(v, o, d)
    /\ type \in Staying => o.draft = v.draft
    /\ o.out = Navigated("clean") => type = "guard" /\ Changed(o) = {}
    /\ o.blocked => v.blocked \/ (type = "recover" /\ ~db.editor)
    /\ v.blocked /\ ~db.editor /\ v.merge = None /\ type # "discard_merge"
         => o.blocked /\ o.merge = None
    /\ type = "recover" => o.merge = v.merge /\ (o.blocked \/ o.out = Recovered(TRUE))
    /\ ContextHandled(type, x, v, o)

Stores(type, v, d) ==
    /\ DbInv(d) /\ d.editor = db.editor
    /\ d = db \/ (d.rev = db.rev + 1 /\ type \in {"save", "leave_save"})
    /\ \A f \in Fields : d.values[f] # db.values[f] =>
         db.values[f] = v.base[f] \/ (v.merge # None /\ v.merge.rev = db.rev)

LEMMA DraftHandled ==
    ASSUME NEW v, SrvInv(v), v.out = None, NEW type, NEW x, NEW o, NEW d,
           Leaves(v, o, {"draft", "pending", "out"}), IsForm(o.draft), Event(o.out),
           o.out # Navigated("clean"), type \notin Asking, type # "recover",
           type \in Staying => o.draft = v.draft
    PROVE  Handled(type, x, v, o, d)
<1>1. SrvInv(o)
  BY LeavesSaving DEF Leaves, SrvInv, SrvFields, Saving, Loading
<1>2. /\ o.base = v.base /\ o.rev = v.rev /\ o.merge = v.merge /\ o.blocked = v.blocked
      /\ o.show = v.show /\ o.bounds = v.bounds /\ o.missed = v.missed /\ o.rejoined = v.rejoined
  BY DEF Leaves, SrvFields
<1> QED
  BY <1>1, <1>2 DEF Handled, ContextHandled, LoadedFrom, Asking

LEMMA ContextIsHandled ==
    ASSUME NEW v, SrvInv(v), v.out = None, NEW type, NEW x, NEW o, NEW d,
           Leaves(v, o, Context), o.show \in BOOLEAN, ContextHandled(type, x, v, o),
           type # "recover"
    PROVE  Handled(type, x, v, o, d)
<1>1. SrvInv(o)
  BY DEF Leaves, SrvInv, SrvFields, Context
<1>2. /\ o.base = v.base /\ o.rev = v.rev /\ o.merge = v.merge /\ o.blocked = v.blocked
      /\ o.rejoined = v.rejoined /\ o.draft = v.draft /\ o.out = v.out
  BY DEF Leaves, SrvFields, Context
<1>3. None # Navigated("clean")
  BY EventsArePushed
<1> QED
  BY <1>1, <1>2, <1>3 DEF Handled, LoadedFrom

LEMMA SaveHandled ==
    ASSUME NEW v, NEW u, SrvInv(u), Leaves(v, u, {"draft"}), NEW type, NEW x, NEW choices, NEW o, NEW d,
           SavedProcess(u, o, d), Stored(u, choices, d), DbInv(d), d.editor = db.editor,
           type \in {"save", "leave_save"}
    PROVE  Handled(type, x, v, o, d) /\ Stores(type, v, d)
<1>1. /\ u.base = v.base /\ u.rev = v.rev /\ u.merge = v.merge /\ u.blocked = v.blocked
      /\ u.show = v.show /\ u.bounds = v.bounds /\ u.missed = v.missed /\ u.rejoined = v.rejoined
  BY DEF Leaves, SrvFields
<1>2. o.show = u.show /\ o.bounds = u.bounds /\ o.missed = u.missed /\ o.rejoined = u.rejoined
  BY DEF SavedProcess, Leaves, Saving, Loading, SrvFields
<1>3. Handled(type, x, v, o, d)
  BY <1>1, <1>2 DEF SavedProcess, Handled, ContextHandled, LoadedFrom, Asking, Staying
<1>4. \A f \in Fields : d.values[f] # db.values[f] =>
        db.values[f] = v.base[f] \/ (v.merge # None /\ v.merge.rev = db.rev)
  BY <1>1, StoredIsCompared
<1> QED
  BY <1>3, <1>4 DEF Stores, Stored

LEMMA GuardHandled ==
    ASSUME NEW v, SrvInv(v), v.out = None, NEW x, NEW d
    PROVE  Handled("guard", x, v, GuardNavigation(v), d)
<1>1. CASE DetailsDirty(v)
  <2> DEFINE o == [v EXCEPT !.pending = TRUE]
  <2>1. GuardNavigation(v) = o
    BY <1>1 DEF GuardNavigation
  <2>2. Leaves(v, o, {"draft", "pending", "out"}) /\ o.draft = v.draft /\ o.out = None
    BY DEF SrvInv, Leaves, SrvFields
  <2> HIDE DEF o
  <2>3. IsForm(o.draft) /\ Event(o.out) /\ o.out # Navigated("clean")
    BY <2>2, EventsArePushed DEF SrvInv, Event
  <2> QED
    BY <2>1, <2>2, <2>3, DraftHandled DEF Asking
<1>2. CASE ~DetailsDirty(v)
  <2> DEFINE o == GuardNavigation(v)
  <2>1. o = Send(v, Navigated("clean"))
    BY <1>2, NavigateIsSent DEF GuardNavigation
  <2>2. Leaves(v, o, {"out"}) /\ o.out = Navigated("clean")
    BY <2>1, Sends DEF SrvInv
  <2> HIDE DEF o
  <2>3. /\ o.base = v.base /\ o.rev = v.rev /\ o.merge = v.merge /\ o.blocked = v.blocked
        /\ o.show = v.show /\ o.bounds = v.bounds /\ o.missed = v.missed
        /\ o.rejoined = v.rejoined /\ o.draft = v.draft
    BY <2>2 DEF Leaves, SrvFields
  <2>4. Changed(o) = {}
    BY <1>2, <2>3 DEF DetailsDirty, Changed
  <2>5. SrvInv(o)
    BY <2>2, <2>3, EventsArePushed DEF SrvInv, Leaves, Event
  <2> QED
    BY <2>2, <2>3, <2>4, <2>5 DEF o, Handled, ContextHandled, LoadedFrom, Asking
<1> QED
  BY <1>1, <1>2

LEMMA RecoverHandled ==
    ASSUME NEW v, SrvInv(v), v.out = None, NEW x, NEW d
    PROVE  Handled("recover", x, v, RecoverRouteDetails(v), d)
<1> DEFINE o == RecoverRouteDetails(v)
<1>1. \/ o = v /\ v.blocked
      \/ ~v.blocked /\ db.editor /\ o = Send([v EXCEPT !.blocked = FALSE], Recovered(TRUE))
      \/ ~v.blocked /\ ~db.editor /\ o = Send([v EXCEPT !.blocked = TRUE], Recovered(FALSE))
  BY DEF RecoverRouteDetails, Recovered
<1> HIDE DEF o
<1>2. /\ Leaves(v, o, {"blocked", "out"})
      /\ \/ v.blocked /\ o.blocked /\ o.out = None
         \/ db.editor /\ ~o.blocked /\ o.out = Recovered(TRUE) /\ ~v.blocked
         \/ ~db.editor /\ o.blocked /\ o.out = Recovered(FALSE)
  <2>1. CASE o = v /\ v.blocked
    BY <2>1 DEF SrvInv, Leaves
  <2>2. CASE ~v.blocked /\ db.editor /\ o = Send([v EXCEPT !.blocked = FALSE], Recovered(TRUE))
    BY <2>2 DEF SrvInv, Leaves, SrvFields, Send
  <2>3. CASE ~v.blocked /\ ~db.editor /\ o = Send([v EXCEPT !.blocked = TRUE], Recovered(FALSE))
    BY <2>3 DEF SrvInv, Leaves, SrvFields, Send
  <2> QED
    BY <1>1, <2>1, <2>2, <2>3
<1>3. /\ o.base = v.base /\ o.rev = v.rev /\ o.merge = v.merge
      /\ o.show = v.show /\ o.bounds = v.bounds /\ o.missed = v.missed
      /\ o.rejoined = v.rejoined /\ o.draft = v.draft
  BY <1>2 DEF Leaves, SrvFields
<1>4. Event(o.out) /\ o.out # Navigated("clean")
  BY <1>2, EventsArePushed DEF Event, Recovered, Navigated
<1>5. SrvInv(o)
  BY <1>2, <1>3, <1>4 DEF SrvInv, Leaves
<1> QED
  BY <1>2, <1>3, <1>4, <1>5 DEF o, Handled, ContextHandled, LoadedFrom, Asking

LEMMA LoadHandled ==
    ASSUME NEW v, SrvInv(v), v.out = None, DbInv(db), NEW type, NEW x,
           \/ type = "discard_merge"
           \/ type = "discard" /\ v.merge # None
    PROVE  Handled(type, x, v, LoadRouteWorkspace(v), db)
<1> DEFINE o == LoadRouteWorkspace(v)
<1>1. /\ Leaves(v, o, Loading) /\ o.base = db.values /\ o.draft = db.values /\ o.rev = db.rev
      /\ o.merge = None /\ ~o.blocked
  BY Loads DEF SrvInv
<1> HIDE DEF o
<1>2. /\ o.show = v.show /\ o.bounds = v.bounds /\ o.missed = v.missed
      /\ o.rejoined = v.rejoined /\ o.out = None
  BY <1>1 DEF Leaves, SrvFields, Loading
<1>3. SrvInv(o)
  BY <1>1, <1>2 DEF SrvInv, DbInv, Leaves, Event
<1>4. None # Navigated("clean")
  BY EventsArePushed
<1> QED
  BY <1>1, <1>2, <1>3, <1>4 DEF o, Handled, ContextHandled, LoadedFrom, Asking, Staying

LEMMA LoadContextHandled ==
    ASSUME NEW v, SrvInv(v), v.out = None, NEW view, NEW ok \in BOOLEAN
    PROVE  /\ Leaves(v, LoadRouteContext(v, view, ok), {"show", "routes", "status", "bounds", "cursor"})
           /\ LoadRouteContext(v, view, ok).show
           /\ LoadRouteContext(v, view, ok).show \in BOOLEAN
           /\ ok => LoadRouteContext(v, view, ok).bounds = view
           /\ ~ok => LoadRouteContext(v, view, ok).bounds = v.bounds
BY DEF LoadRouteContext, Leaves, SrvInv, SrvFields

LEMMA ContextOnHandled ==
    ASSUME NEW v, SrvInv(v), v.out = None, NEW view, NEW ok \in BOOLEAN, NEW d
    PROVE  Handled("context_on", view, v, [LoadRouteContext(v, view, ok) EXCEPT !.missed = ~ok], d)
<1> DEFINE b == LoadRouteContext(v, view, ok)
           o == [b EXCEPT !.missed = ~ok]
<1>1. /\ Leaves(v, b, {"show", "routes", "status", "bounds", "cursor"})
      /\ b.show /\ b.show \in BOOLEAN
      /\ ok => b.bounds = view
  BY LoadContextHandled
<1> HIDE DEF b
<1>2. Leaves(b, o, {"missed"}) /\ (o.missed <=> ~ok)
  BY <1>1 DEF Leaves, SrvFields
<1> HIDE DEF o
<1>3. Leaves(v, o, Context)
  BY <1>1, <1>2, LeavesOn DEF Context
<1>4. o.show = b.show /\ o.bounds = b.bounds
  BY <1>2 DEF Leaves, SrvFields
<1>5. ContextHandled("context_on", view, v, o)
  BY <1>1, <1>2, <1>4 DEF ContextHandled, Asking
<1> QED
  BY <1>1, <1>3, <1>4, <1>5, ContextIsHandled DEF o, b

LEMMA ContextOffHandled ==
    ASSUME NEW v, SrvInv(v), v.out = None, NEW x, NEW d
    PROVE  Handled("context_off", x, v, ClearRouteContext(v), d)
<1> DEFINE o == ClearRouteContext(v)
<1>1. /\ Leaves(v, o, Context) /\ o.show = FALSE /\ o.bounds = None /\ o.missed = FALSE
  BY DEF ClearRouteContext, Leaves, SrvInv, SrvFields, Context
<1> HIDE DEF o
<1>2. ContextHandled("context_off", x, v, o)
  BY <1>1 DEF ContextHandled, Asking
<1> QED
  BY <1>1, <1>2, ContextIsHandled DEF o

LEMMA MoreHandled ==
    ASSUME NEW v, SrvInv(v), v.out = None, NEW x, NEW ok \in BOOLEAN, NEW d
    PROVE  Handled("context_more", x, v, MoreRouteContext(v, ok), d)
<1> DEFINE o == MoreRouteContext(v, ok)
<1>1. /\ Leaves(v, o, Context) /\ o.show = v.show /\ o.bounds = v.bounds /\ o.missed = v.missed
  BY DEF MoreRouteContext, Leaves, SrvInv, SrvFields, Context
<1> HIDE DEF o
<1>2. ContextHandled("context_more", x, v, o)
  BY <1>1 DEF ContextHandled, Asking
<1> QED
  BY <1>1, <1>2, ContextIsHandled DEF o, SrvInv

LEMMA RetryHandled ==
    ASSUME NEW v, SrvInv(v), v.out = None, NEW x, NEW ok \in BOOLEAN, NEW d
    PROVE  Handled("context_retry", x, v, RetryRouteContext(v, ok), d)
<1> DEFINE o == RetryRouteContext(v, ok)
<1>1. /\ Leaves(v, o, Context) /\ o.show = v.show /\ o.bounds = v.bounds /\ o.missed = v.missed
  <2>1. CASE v.show /\ v.bounds # None
    <3>1. o = LoadRouteContext(v, v.bounds, ok)
      BY <2>1 DEF RetryRouteContext
    <3>2. /\ Leaves(v, o, {"show", "routes", "status", "bounds", "cursor"})
          /\ o.show /\ o.show \in BOOLEAN /\ o.bounds = v.bounds
      BY <3>1, LoadContextHandled
    <3> HIDE DEF o
    <3>3. o.show = v.show
      BY <2>1, <3>2 DEF SrvInv
    <3> QED
      BY <3>2, <3>3 DEF Leaves, Context, SrvFields
  <2>2. CASE ~(v.show /\ v.bounds # None)
    BY <2>2 DEF RetryRouteContext, Leaves, SrvInv
  <2> QED
    BY <2>1, <2>2
<1> HIDE DEF o
<1>2. ContextHandled("context_retry", x, v, o)
  BY <1>1 DEF ContextHandled, Asking
<1> QED
  BY <1>1, <1>2, ContextIsHandled DEF o, SrvInv


LEMMA QuietIsSilent ==
    ASSUME SrvInv(srv)
    PROVE  SrvInv(Quiet) /\ Quiet.out = None /\ Leaves(srv, Quiet, {"out"})
<1>1. Leaves(srv, Quiet, {"out"}) /\ Quiet.out = None
  BY DEF Quiet, SrvInv, Leaves, SrvFields
<1> QED
  BY <1>1 DEF SrvInv, Leaves, SrvFields, Event

EventTypes ==
    {"validate", "save", "leave_save", "guard", "leave_keep", "leave_discard", "discard",
     "discard_merge", "recover", "context_off", "context_on", "context_more", "context_retry"}

LEMMA EventHandled ==
    ASSUME SrvInv(srv), DbInv(db), NEW type, NEW x, HandleEvent(type, x),
           type = "validate" => IsForm(x), type = "save" => IsForm(x.form)
    PROVE  /\ type \in EventTypes
           /\ Handled(type, x, srv, srv', db') /\ Stores(type, srv, db')
<1> DEFINE v == Quiet
<1>1. SrvInv(v) /\ v.out = None /\ Leaves(srv, v, {"out"})
  BY QuietIsSilent
<1> HIDE DEF v
<1>2. /\ v.base = srv.base /\ v.rev = srv.rev /\ v.merge = srv.merge /\ v.blocked = srv.blocked
      /\ v.show = srv.show /\ v.bounds = srv.bounds /\ v.missed = srv.missed
      /\ v.rejoined = srv.rejoined /\ v.draft = srv.draft
  BY <1>1 DEF Leaves, SrvFields
<1>3. None # Navigated("clean") /\ Event(None)
  BY EventsArePushed DEF Event
<1>4. Handled(type, x, v, srv', db') => Handled(type, x, srv, srv', db')
  BY <1>2 DEF Handled, LoadedFrom, ContextHandled
<1>5. Stores(type, v, db') => Stores(type, srv, db')
  BY <1>2 DEF Stores
<1>6. db' = db => Stores(type, srv, db')
  BY DEF Stores
<1>7. CASE type = "validate" /\ Becomes(AssignDraft(v, x))
  <2> DEFINE o == AssignDraft(v, x)
  <2>1. Leaves(v, o, {"draft", "pending", "out"}) /\ o.draft = x /\ o.out = None
    BY <1>1 DEF AssignDraft, SrvInv, Leaves, SrvFields
  <2> HIDE DEF o
  <2>2. srv' = o /\ db' = db
    BY <1>7 DEF Becomes, o
  <2> QED
    BY <1>1, <1>3, <1>4, <1>6, <1>7, <2>1, <2>2, DraftHandled DEF Asking, Staying, EventTypes
<1>8. CASE type = "save" /\ SaveEvent(x)
  <2>1. CASE srv.blocked
    <3>1. srv' = v /\ db' = db
      BY <1>8, <2>1 DEF SaveEvent, Becomes, v
    <3>2. Leaves(v, v, {"draft", "pending", "out"})
      BY <1>1 DEF SrvInv, Leaves
    <3> QED
      BY <1>1, <1>3, <1>4, <1>6, <1>8, <3>1, <3>2, DraftHandled DEF SrvInv, Asking, Staying, EventTypes
  <2>2. CASE ~srv.blocked
    <3> DEFINE u == AssignDraft(v, x.form)
               choices == IF srv.merge = None THEN NoMerge ELSE x.choices
    <3>1. RunDetailsSave(u, choices, FALSE)
      BY <1>8, <2>2 DEF SaveEvent, v
    <3>2. Leaves(v, u, {"draft"}) /\ u.draft = x.form
      BY <1>1 DEF AssignDraft, SrvInv, Leaves, SrvFields
    <3> HIDE DEF u, choices
    <3>3. SrvInv(u) /\ u.out = None
      BY <1>1, <1>8, <3>2 DEF SrvInv, Leaves, SrvFields
    <3>4. SavedProcess(u, srv', db') /\ Stored(u, choices, db') /\ DbInv(db')
          /\ db'.editor = db.editor
      BY <3>1, <3>3, SaveSaves
    <3> QED
      BY <1>4, <1>5, <1>8, <3>2, <3>3, <3>4, SaveHandled DEF EventTypes
  <2> QED
    BY <2>1, <2>2
<1>9. CASE type = "leave_save" /\ RunDetailsSave(v, NoMerge, srv.pending)
  <2>1. SavedProcess(v, srv', db') /\ Stored(v, NoMerge, db') /\ DbInv(db')
        /\ db'.editor = db.editor
    BY <1>1, <1>9, SaveSaves
  <2>2. Leaves(v, v, {"draft"})
    BY <1>1 DEF SrvInv, Leaves
  <2> QED
    BY <1>1, <1>4, <1>5, <1>9, <2>1, <2>2, SaveHandled DEF EventTypes
<1>10. CASE type = "guard" /\ Becomes(GuardNavigation(v))
  BY <1>1, <1>4, <1>6, <1>10, GuardHandled DEF Becomes, EventTypes
<1>11. CASE type = "leave_keep" /\ Becomes([v EXCEPT !.pending = FALSE])
  <2> DEFINE o == [v EXCEPT !.pending = FALSE]
  <2>1. Leaves(v, o, {"draft", "pending", "out"}) /\ o.draft = v.draft /\ o.out = None
    BY <1>1 DEF SrvInv, Leaves, SrvFields
  <2> HIDE DEF o
  <2>2. srv' = o /\ db' = db
    BY <1>11 DEF Becomes, o
  <2> QED
    BY <1>1, <1>3, <1>4, <1>6, <1>11, <2>1, <2>2, DraftHandled
    DEF SrvInv, Asking, Staying, EventTypes
<1>12. CASE type = "leave_discard" /\ Becomes(LeaveDiscard(v))
  <2> DEFINE o == LeaveDiscard(v)
  <2>1. /\ Leaves(v, o, {"draft", "pending", "out"})
        /\ o.out = None \/ o.out = Navigated("discard")
    BY <1>1, NavigateIsSent DEF LeaveDiscard, Send, SrvInv, Leaves, SrvFields
  <2> HIDE DEF o
  <2>2. srv' = o /\ db' = db
    BY <1>12 DEF Becomes, o
  <2>3. Event(o.out) /\ o.out # Navigated("clean")
    BY <2>1, EventsArePushed DEF Event, Navigated
  <2>4. o.draft = v.draft
    <3>1. o = v \/ o = Send(v, Navigated("discard"))
      BY NavigateIsSent DEF o, LeaveDiscard
    <3> QED
      BY <1>1, <3>1, Sends DEF SrvInv, Leaves, SrvFields
  <2> QED
    BY <1>1, <1>4, <1>6, <1>12, <2>1, <2>2, <2>3, <2>4, DraftHandled
    DEF SrvInv, Asking, Staying, EventTypes
<1>13. CASE type = "discard" /\ Becomes(DiscardDetails(v))
  <2>1. CASE v.merge # None
    <3>1. srv' = LoadRouteWorkspace(v) /\ db' = db
      BY <1>13, <2>1 DEF Becomes, DiscardDetails
    <3> QED
      BY <1>1, <1>4, <1>6, <1>13, <2>1, <3>1, LoadHandled DEF EventTypes
  <2>2. CASE v.merge = None
    <3> DEFINE o == [v EXCEPT !.draft = v.base]
    <3>1. Leaves(v, o, {"draft", "pending", "out"}) /\ o.draft = v.base /\ o.out = None
      BY <1>1 DEF SrvInv, Leaves, SrvFields
    <3> HIDE DEF o
    <3>2. srv' = o /\ db' = db
      BY <1>13, <2>2 DEF Becomes, DiscardDetails, o
    <3> QED
      BY <1>1, <1>3, <1>4, <1>6, <1>13, <3>1, <3>2, DraftHandled
      DEF SrvInv, Asking, Staying, EventTypes
  <2> QED
    BY <2>1, <2>2
<1>14. CASE type = "discard_merge" /\ Becomes(LoadRouteWorkspace(v))
  BY <1>1, <1>4, <1>6, <1>14, LoadHandled DEF Becomes, EventTypes
<1>15. CASE type = "recover" /\ Becomes(RecoverRouteDetails(v))
  BY <1>1, <1>4, <1>6, <1>15, RecoverHandled DEF Becomes, EventTypes
<1>16. CASE type = "context_off" /\ Becomes(ClearRouteContext(v))
  BY <1>1, <1>4, <1>6, <1>16, ContextOffHandled DEF Becomes, EventTypes
<1>17. CASE type = "context_on" /\ \E ok \in BOOLEAN :
              Becomes([LoadRouteContext(v, x, ok) EXCEPT !.missed = ~ok])
  BY <1>1, <1>4, <1>6, <1>17, ContextOnHandled DEF Becomes, EventTypes
<1>18. CASE type = "context_more" /\ \E ok \in BOOLEAN : Becomes(MoreRouteContext(v, ok))
  BY <1>1, <1>4, <1>6, <1>18, MoreHandled DEF Becomes, EventTypes
<1>19. CASE type = "context_retry" /\ \E ok \in BOOLEAN : Becomes(RetryRouteContext(v, ok))
  BY <1>1, <1>4, <1>6, <1>19, RetryHandled DEF Becomes, EventTypes
<1> QED
  BY <1>7, <1>8, <1>9, <1>10, <1>11, <1>12, <1>13, <1>14, <1>15, <1>16, <1>17, <1>18, <1>19
  DEF HandleEvent, v


\* A process that opens reads the route.
LEMMA ProcessOpens ==
    ASSUME DbInv(db)
    PROVE  /\ SrvInv(MountProcess) /\ MountProcess.base = db.values
           /\ MountProcess.draft = db.values /\ MountProcess.rev = db.rev
           /\ MountProcess.merge = None /\ ~MountProcess.blocked /\ ~MountProcess.show
           /\ MountProcess.bounds = None /\ ~MountProcess.missed /\ MountProcess.out = None
           /\ ~MountProcess.rejoined
<1> DEFINE bare ==
      [base |-> Saved, rev |-> 0, draft |-> Saved, merge |-> None, pending |-> FALSE,
       blocked |-> FALSE, payload |-> 1, show |-> FALSE, routes |-> {}, status |-> None,
       bounds |-> None, cursor |-> None, missed |-> FALSE, rejoined |-> FALSE, out |-> None]
<1>1. MountProcess = LoadRouteWorkspace(bare)
  BY DEF MountProcess
<1>2. /\ SrvFields \subseteq DOMAIN bare /\ ~bare.show /\ bare.show \in BOOLEAN
      /\ bare.bounds = None /\ ~bare.missed /\ bare.out = None /\ ~bare.rejoined
  BY DEF SrvFields
<1> HIDE DEF bare
<1>3. /\ Leaves(bare, MountProcess, Loading)
      /\ MountProcess.base = db.values /\ MountProcess.draft = db.values
      /\ MountProcess.rev = db.rev
      /\ MountProcess.merge = None /\ ~MountProcess.blocked
  BY <1>1, <1>2, Loads
<1>4. /\ MountProcess.show = bare.show /\ MountProcess.bounds = bare.bounds
      /\ MountProcess.missed = bare.missed /\ MountProcess.out = bare.out
      /\ MountProcess.rejoined = bare.rejoined
  BY <1>3 DEF Leaves, SrvFields, Loading
<1>5. SrvInv(MountProcess)
  BY <1>2, <1>3, <1>4 DEF SrvInv, DbInv, Leaves, Event
<1> QED
  BY <1>2, <1>3, <1>4, <1>5

-----------------------------------------------------------------------------
(* What is on its way.                                                     *)

IsSeq(q) == \E S : q \in Seq(S)

LEMMA OneMore ==
    ASSUME NEW q, IsSeq(q), NEW m
    PROVE  /\ IsSeq(Append(q, m)) /\ Append(q, m) # <<>>
           /\ q \o <<m>> = Append(q, m)
           /\ Len(Append(q, m)) = Len(q) + 1 /\ Len(q) \in Nat
           /\ \A i \in 1 .. Len(q) : Append(q, m)[i] = q[i]
           /\ Append(q, m)[Len(q) + 1] = m
<1>1. PICK S : q \in Seq(S)
  BY DEF IsSeq
<1>2. q \in Seq(S \cup {m}) /\ m \in S \cup {m}
  BY <1>1
<1> QED
  BY <1>2 DEF IsSeq

LEMMA OneLess ==
    ASSUME NEW q, IsSeq(q), q # <<>>
    PROVE  /\ IsSeq(Tail(q)) /\ Len(q) \in Nat /\ Len(q) >= 1 /\ Head(q) = q[1]
           /\ Len(Tail(q)) = Len(q) - 1
           /\ \A i \in 1 .. Len(q) - 1 : Tail(q)[i] = q[i + 1]
           /\ Tail(q) = <<>> <=> Len(q) = 1
<1>1. PICK S : q \in Seq(S)
  BY DEF IsSeq
<1>2. Len(q) \in Nat /\ Len(q) >= 1 /\ Head(q) = q[1]
  BY <1>1
<1>3. Tail(q) \in Seq(S) /\ Len(Tail(q)) = Len(q) - 1
  BY <1>1
<1>4. \A i \in 1 .. Len(q) - 1 : Tail(q)[i] = q[i + 1]
  BY <1>1
<1>5. Tail(q) = <<>> <=> Len(Tail(q)) = 0
  BY <1>3
<1> QED
  BY <1>2, <1>3, <1>4, <1>5 DEF IsSeq

LEMMA NoneYet ==
    IsSeq(<<>>) /\ Len(<<>>) = 0 /\ \A q : IsSeq(q) => q \o <<>> = q /\ (q = <<>> <=> Len(q) = 0)
<1>1. <<>> \in Seq({})
  OBVIOUS
<1>2. ASSUME NEW q, IsSeq(q)
      PROVE  q \o <<>> = q /\ (q = <<>> <=> Len(q) = 0)
  <2>1. PICK S : q \in Seq(S)
    BY <1>2 DEF IsSeq
  <2> QED
    BY <2>1
<1> QED
  BY <1>1, <1>2 DEF IsSeq


-----------------------------------------------------------------------------
(* What the operator does to the page, and what it pushes.                 *)

PageInv(p) ==
    /\ MapInv(p) /\ p.sent = <<>> /\ IsForm(p.form) /\ p.context = p.data.context
    /\ p.view # None /\ p.toggle \in BOOLEAN
    /\ p.focus = "toggle" => (p.toggle <=> p.last # None)
    /\ p.offline => p.disabled
    /\ p.entries = None \/ IsForm(p.entries)

Pushes(m) == IF online THEN up' = Append(up, m) ELSE up' = up

Typing(p, o) ==
    /\ Writes(p, o, Entering \cup {"unsent", "focus"}) /\ MapInv(o) /\ IsForm(o.form)
    /\ o.unsent /\ o.focus \in Fields /\ (o.apart <=> p.apart \/ ~online) /\ up' = up
Sending(p, o) ==
    /\ Writes(p, o, Entering \cup {"unsent", "focus"}) /\ MapInv(o) /\ IsForm(o.form)
    /\ ~o.unsent /\ o.focus = None /\ (p.apart => o.apart)
    /\ o.form = p.form \/ online \/ o.apart
    /\ Pushes([type |-> "validate", x |-> o.form])
Leavings == {"leave_keep", "leave_discard", "leave_save"}
Request(p, o, m) ==
    \/ m = [type |-> "save", x |-> m.x] /\ m.x.form = p.form /\ m.x.known = p.known
    \/ /\ o.unsent = p.unsent
       /\ \/ m.type \in {"discard", "context_more", "context_retry"}
          \/ m.type = "discard_merge" /\ p.merge # None
          \/ m.type \in Leavings /\ m.x = p.known
Requesting(p, o, m) ==
    /\ Writes(p, o, {"unsent", "saving", "answered", "focus"}) /\ o.focus = None
    /\ Request(p, o, m) /\ Pushes(m)
Blurring(p, o) == Writes(p, o, {"focus"}) /\ o.focus = None /\ ~p.unsent /\ up' = up
Guard == [type |-> "guard", x |-> None]
Guarding(p, o) == Writes(p, o, {}) /\ p.dirty /\ Pushes(Guard)
Highlighting(p, o) == Writes(p, o, Pointing) /\ MapInv(o) /\ up' = up
Looking(p, o) ==
    /\ Writes(p, o, {"toggle", "focus", "view", "last"})
    /\ o.view # None /\ o.toggle \in BOOLEAN
    /\ \/ /\ o.toggle /\ o.last = o.view
          /\ o.focus = "toggle" \/ (o.focus = p.focus /\ o.toggle = p.toggle)
          /\ o.view = p.last => up' = up
          /\ o.view # p.last => Pushes(On(o.view))
       \/ ~o.toggle /\ o.focus = "toggle" /\ o.last = None /\ Pushes(Off)
       \/ o.toggle = p.toggle /\ o.focus = p.focus /\ o.last = p.last /\ up' = up

OperatorStep ==
    /\ page.where = "details" /\ page'.sent = <<>>
    /\ UNCHANGED <<srv, db, down, online, others>>
    /\ \/ Typing(page, page') \/ Sending(page, page')
       \/ \E m : Requesting(page, page', m)
       \/ Blurring(page, page') \/ Guarding(page, page')
       \/ Highlighting(page, page') \/ Looking(page, page')

LEMMA DoneWrites ==
    ASSUME PageInv(page), NEW p, NEW X, Writes(page, p, X \cup {"sent"}), Do(p)
    PROVE  /\ Writes(page, page', X) /\ Writes(p, page', {"sent"}) /\ page'.sent = <<>>
           /\ MapInv(p) => MapInv(page')
           /\ UNCHANGED <<srv, db, down, online, others>>
<1>1. page' = [p EXCEPT !.sent = <<>>]
  BY DEF Do
<1>2. Shape(p)
  BY DEF Writes
<1>3. Writes(p, page', {"sent"}) /\ page'.sent = <<>>
  BY <1>1, <1>2 DEF Writes, Shape, PageFields
<1>4. Writes(page, page', X)
  BY <1>3 DEF Writes, PageInv
<1>5. MapInv(p) => MapInv(page')
  BY <1>3, MapStays DEF Drawing
<1> QED
  BY <1>3, <1>4, <1>5 DEF Do

LEMMA DonePushes ==
    ASSUME NEW p, Do(p), IsSeq(up)
    PROVE  /\ p.sent = <<>> => up' = up
           /\ \A m : p.sent = Append(<<>>, m) => Pushes(m)
<1>1. up' = IF online THEN up \o p.sent ELSE up
  BY DEF Do
<1>2. p.sent = <<>> => up' = up
  BY <1>1, NoneYet
<1>3. ASSUME NEW m, p.sent = Append(<<>>, m)
      PROVE  Pushes(m)
  <2>1. Append(<<>>, m) = <<m>>
    OBVIOUS
  <2>2. up \o p.sent = Append(up, m)
    BY <1>3, <2>1, OneMore
  <2> QED
    BY <1>1, <2>2 DEF Pushes
<1> QED
  BY <1>2, <1>3

LEMMA Types ==
    ASSUME PageInv(page), IsSeq(up), NEW f \in Fields, NEW v, TypeText(f, v)
    PROVE  OperatorStep
<1> DEFINE b == [page EXCEPT !.unsent = TRUE, !.focus = f]
           p == Enter(b, f, v)
<1>1. Do(p) /\ page.where = "details"
  BY DEF TypeText, OnForm, OnPage
<1>2. Writes(page, b, {"unsent", "focus"}) /\ b.unsent /\ b.focus = f
  BY DEF Writes, Shape, PageFields, PageInv, MapInv
<1> HIDE DEF b
<1>3. MapInv(b) /\ b.form = page.form /\ b.sent = <<>> /\ (b.apart = page.apart)
  <2>1. {"unsent", "focus"} \cap Drawing = {}
    BY DEF Drawing
  <2>2. MapInv(b)
    BY <1>2, <2>1, MapStays DEF PageInv
  <2> QED
    BY <1>2, <2>2 DEF Writes, PageFields, PageInv
<1>4. Writes(b, p, Entering) /\ MapInv(p) /\ p.form = [b.form EXCEPT ![f] = v]
      /\ (p.apart <=> b.apart \/ ~online)
  BY <1>3, EnterWrites
<1> HIDE DEF p
<1>5. Writes(page, p, (Entering \cup {"unsent", "focus"}) \cup {"sent"})
  BY <1>2, <1>4, WritesOn
<1>6. p.unsent /\ p.focus = f /\ p.sent = <<>>
  BY <1>2, <1>3, <1>4 DEF Writes, PageFields, Entering, Painting, Drawing
<1>7. IsForm(p.form)
  <2>1. IsForm([page.form EXCEPT ![f] = v])
    BY FormIsSet DEF PageInv
  <2> QED
    BY <1>3, <1>4, <2>1
<1>8. /\ Writes(page, page', Entering \cup {"unsent", "focus"}) /\ MapInv(page')
      /\ Writes(p, page', {"sent"}) /\ page'.sent = <<>>
      /\ UNCHANGED <<srv, db, down, online, others>>
  BY <1>1, <1>4, <1>5, DoneWrites
<1>9. up' = up
  BY <1>1, <1>6, DonePushes
<1>10. page'.unsent = p.unsent /\ page'.focus = p.focus /\ page'.form = p.form /\ page'.apart = p.apart
  BY <1>8 DEF Writes, PageFields
<1>11. Typing(page, page')
  BY <1>3, <1>4, <1>6, <1>7, <1>8, <1>9, <1>10 DEF Typing
<1> QED
  BY <1>1, <1>8, <1>11 DEF OperatorStep

\* The form is sent with what was entered last.
Sendable(p) ==
    /\ Writes(page, p, (Entering \cup {"unsent", "focus"}) \cup {"sent"})
    /\ MapInv(p) /\ IsForm(p.form) /\ ~p.unsent /\ p.focus = None /\ (page.apart => p.apart)
    /\ p.form = page.form \/ online \/ p.apart
    /\ online => p.sent = Append(<<>>, [type |-> "validate", x |-> p.form])
    /\ ~online => p.sent = <<>>

LEMMA FormIsSent ==
    ASSUME PageInv(page), page.where = "details", IsSeq(up), NEW p, Sendable(p), Do(p)
    PROVE  OperatorStep
<1>1. /\ Writes(page, page', Entering \cup {"unsent", "focus"}) /\ MapInv(page')
      /\ Writes(p, page', {"sent"}) /\ page'.sent = <<>>
      /\ UNCHANGED <<srv, db, down, online, others>>
  BY DoneWrites DEF Sendable
<1>2. page'.unsent = p.unsent /\ page'.focus = p.focus /\ page'.form = p.form /\ page'.apart = p.apart
  BY <1>1 DEF Writes, PageFields
<1>3. Pushes([type |-> "validate", x |-> page'.form])
  <2>1. CASE online
    BY <1>2, <2>1, DonePushes DEF Sendable
  <2>2. CASE ~online
    BY <1>2, <2>2, DonePushes DEF Pushes, Sendable
  <2> QED
    BY <2>1, <2>2
<1>4. Sending(page, page')
  BY <1>1, <1>2, <1>3 DEF Sending, Sendable
<1> QED
  BY <1>1, <1>4 DEF OperatorStep

LEMMA Blurs ==
    ASSUME PageInv(page), IsSeq(up), Blur
    PROVE  OperatorStep
<1>1. CASE page.unsent
  <2> DEFINE b == SendForm(page)
             p == [b EXCEPT !.focus = None]
  <2>1. Do(p) /\ page.where = "details"
    BY <1>1 DEF Blur
  <2>2. /\ Writes(page, b, {"unsent", "sent"}) /\ ~b.unsent
        /\ online => b.sent = Append(<<>>, [type |-> "validate", x |-> page.form])
        /\ ~online => b.sent = <<>>
    BY SendFormWrites DEF PageInv, MapInv
  <2> HIDE DEF b
  <2>3. Writes(b, p, {"focus"}) /\ p.focus = None
    BY <2>2 DEF Writes, Shape, PageFields
  <2> HIDE DEF p
  <2>4. Writes(page, p, {"unsent", "focus", "sent"})
    BY <2>2, <2>3, WritesOn
  <2>5. {"unsent", "focus", "sent"} \cap Drawing = {}
    BY DEF Drawing
  <2>6. MapInv(p)
    BY <2>4, <2>5, MapStays DEF PageInv
  <2>7. p.form = page.form /\ p.apart = page.apart /\ p.unsent = b.unsent /\ p.sent = b.sent
    BY <2>3, <2>4 DEF Writes, PageFields
  <2>8. Writes(page, p, (Entering \cup {"unsent", "focus"}) \cup {"sent"})
    BY <2>4 DEF Writes
  <2>9. Sendable(p)
    BY <2>2, <2>3, <2>6, <2>7, <2>8 DEF Sendable, PageInv
  <2> QED
    BY <2>1, <2>9, FormIsSent
<1>2. CASE ~page.unsent
  <2> DEFINE p == [page EXCEPT !.focus = None]
  <2>1. Do(p) /\ page.where = "details"
    BY <1>2 DEF Blur
  <2>2. Writes(page, p, {"focus"} \cup {"sent"}) /\ p.focus = None /\ p.sent = <<>>
    BY DEF Writes, Shape, PageFields, PageInv, MapInv
  <2> HIDE DEF p
  <2>3. /\ Writes(page, page', {"focus"}) /\ Writes(p, page', {"sent"}) /\ page'.sent = <<>>
        /\ UNCHANGED <<srv, db, down, online, others>>
    BY <2>1, <2>2, DoneWrites
  <2>4. up' = up /\ page'.focus = None
    BY <2>1, <2>2, <2>3, DonePushes DEF Writes, PageFields
  <2> QED
    BY <1>2, <2>1, <2>3, <2>4 DEF OperatorStep, Blurring
<1> QED
  BY <1>1, <1>2

\* A color or a text color, entered without the focus.
LEMMA EnteredIsSendable ==
    ASSUME PageInv(page), ~page.unsent, NEW f \in Fields, NEW v, NEW c,
           \/ c = Enter([page EXCEPT !.focus = None], f, v)
           \/ c = Paint(Enter([page EXCEPT !.focus = None], f, v))
    PROVE  Sendable(SendForm(c))
<1> DEFINE b == [page EXCEPT !.focus = None]
           d == Enter(b, f, v)
           p == SendForm(c)
<1>1. Writes(page, b, {"focus"}) /\ b.focus = None
  BY DEF Writes, Shape, PageFields, PageInv, MapInv
<1>2. c = d \/ c = Paint(d)
  OBVIOUS
<1> HIDE DEF b
<1>3. {"focus"} \cap Drawing = {} /\ Painting \cap Drawing = {} /\ {"unsent", "sent"} \cap Drawing = {}
  BY DEF Drawing, Painting
<1>4. MapInv(b) /\ b.form = page.form /\ b.sent = <<>> /\ b.apart = page.apart
  <2>1. MapInv(b)
    BY <1>1, <1>3, MapStays DEF PageInv
  <2> QED
    BY <1>1, <2>1 DEF Writes, PageFields, PageInv
<1>5. Writes(b, d, Entering) /\ MapInv(d) /\ d.form = [b.form EXCEPT ![f] = v]
      /\ (d.apart <=> b.apart \/ ~online)
  <2>1. MapInv(b)
    BY <1>4
  <2> QED
    BY <2>1, EnterWrites
<1> HIDE DEF d
<1>6. Writes(d, c, Painting)
  <2>1. CASE c = d
    BY <1>5, <2>1 DEF Writes, MapInv
  <2>2. CASE c = Paint(d)
    BY <1>5, <2>2, PaintWrites DEF MapInv
  <2> QED
    BY <1>2, <2>1, <2>2
<1>7. MapInv(c)
  BY <1>3, <1>5, <1>6, MapStays
<1>8. Writes(b, c, Entering)
  BY <1>5, <1>6, WritesOn DEF Entering
<1>9. Writes(page, c, Entering \cup {"focus"})
  BY <1>1, <1>8, WritesOn
<1>10. /\ Writes(c, p, {"unsent", "sent"}) /\ ~p.unsent
       /\ online => p.sent = Append(c.sent, [type |-> "validate", x |-> c.form])
       /\ ~online => p.sent = c.sent
  BY <1>7, SendFormWrites DEF MapInv
<1> HIDE DEF p
<1>11. Writes(page, p, (Entering \cup {"unsent", "focus"}) \cup {"sent"})
  BY <1>9, <1>10, WritesOn
<1>12. MapInv(p)
  BY <1>3, <1>7, <1>10, MapStays
<1>13. c.form = d.form /\ c.apart = d.apart /\ c.focus = b.focus /\ c.sent = b.sent
  BY <1>6, <1>8 DEF Writes, PageFields, Painting, Entering, Drawing
<1>14. p.form = c.form /\ p.apart = c.apart /\ p.focus = c.focus
  BY <1>10 DEF Writes, PageFields
<1>15. IsForm(p.form)
  <2>1. IsForm([page.form EXCEPT ![f] = v])
    BY FormIsSet DEF PageInv
  <2> QED
    BY <1>4, <1>5, <1>13, <1>14, <2>1
<1> QED
  BY <1>1, <1>4, <1>5, <1>10, <1>11, <1>12, <1>13, <1>14, <1>15 DEF Sendable, p

LEMMA ColorsAreSent ==
    ASSUME PageInv(page), IsSeq(up), NEW v, PickColor(v) \/ ChooseText(v)
    PROVE  OperatorStep
<1>1. /\ ~page.unsent /\ page.where = "details"
      /\ \/ Do(SendForm(Enter([page EXCEPT !.focus = None], "color", v)))
         \/ Do(SendForm(Paint(Enter([page EXCEPT !.focus = None], "text", v))))
  BY DEF PickColor, ChooseText, OnForm, OnPage
<1>2. "color" \in Fields /\ "text" \in Fields
  BY DEF Fields
<1>3. CASE Do(SendForm(Enter([page EXCEPT !.focus = None], "color", v)))
  <2> DEFINE c == Enter([page EXCEPT !.focus = None], "color", v)
  <2>1. Sendable(SendForm(c))
    BY <1>1, <1>2, EnteredIsSendable
  <2> QED
    BY <1>1, <1>3, <2>1, FormIsSent
<1>4. CASE Do(SendForm(Paint(Enter([page EXCEPT !.focus = None], "text", v))))
  <2> DEFINE c == Paint(Enter([page EXCEPT !.focus = None], "text", v))
  <2>1. Sendable(SendForm(c))
    BY <1>1, <1>2, EnteredIsSendable
  <2> QED
    BY <1>1, <1>4, <2>1, FormIsSent
<1> QED
  BY <1>1, <1>3, <1>4

LEMMA RequestIsSent ==
    ASSUME PageInv(page), page.where = "details", IsSeq(up), NEW b,
           Writes(page, b, {"unsent", "saving", "answered", "focus"}), b.focus = None,
           NEW type, NEW x, Request(page, b, [type |-> type, x |-> x]), Do(Push(b, type, x))
    PROVE  OperatorStep
<1> DEFINE p == Push(b, type, x)
           m == [type |-> type, x |-> x]
<1>1. Do(p) /\ b.sent = <<>> /\ Shape(b)
  BY DEF Writes, PageFields, PageInv
<1>2. Writes(b, p, {"sent"}) /\ p.sent = Append(<<>>, m)
  BY <1>1, PushWrites
<1> HIDE DEF p
<1>3. Writes(page, p, {"unsent", "saving", "answered", "focus"} \cup {"sent"})
  BY <1>2, WritesOn
<1>4. /\ Writes(page, page', {"unsent", "saving", "answered", "focus"})
      /\ Writes(p, page', {"sent"}) /\ page'.sent = <<>>
      /\ UNCHANGED <<srv, db, down, online, others>>
  BY <1>1, <1>3, DoneWrites
<1>5. page'.focus = None /\ page'.unsent = b.unsent
  BY <1>2, <1>4 DEF Writes, PageFields
<1>6. Pushes(m)
  BY <1>1, <1>2, DonePushes
<1>7. Request(page, page', m)
  BY <1>5 DEF Request
<1>8. Requesting(page, page', m)
  BY <1>4, <1>5, <1>6, <1>7 DEF Requesting
<1> QED
  BY <1>4, <1>8 DEF OperatorStep

LEMMA Submits ==
    ASSUME PageInv(page), IsSeq(up), NEW choices, Submit(choices)
    PROVE  OperatorStep
<1> DEFINE b == [page EXCEPT !.unsent = FALSE, !.saving = TRUE, !.focus = None]
           x == [form |-> page.form, choices |-> choices, known |-> page.known]
<1>1. Do(Push(b, "save", x)) /\ page.where = "details"
  BY DEF Submit, OnForm, OnPage
<1>2. Writes(page, b, {"unsent", "saving", "answered", "focus"}) /\ b.focus = None
  BY DEF Writes, Shape, PageFields, PageInv, MapInv
<1>3. Request(page, b, [type |-> "save", x |-> x])
  BY DEF Request
<1> QED
  BY <1>1, <1>2, <1>3, RequestIsSent

LEMMA Clicks ==
    ASSUME PageInv(page), page.where = "details", IsSeq(up), NEW type, Click(type, None),
           \/ type \in {"discard", "context_more", "context_retry"}
           \/ type = "discard_merge" /\ page.merge # None
    PROVE  OperatorStep
<1> DEFINE b == [page EXCEPT !.focus = None]
<1>1. Do(Push(b, type, None))
  BY DEF Click
<1>2. Writes(page, b, {"unsent", "saving", "answered", "focus"}) /\ b.focus = None
      /\ b.unsent = page.unsent
  BY DEF Writes, Shape, PageFields, PageInv, MapInv
<1>3. Request(page, b, [type |-> type, x |-> None])
  BY <1>2 DEF Request
<1> QED
  BY <1>1, <1>2, <1>3, RequestIsSent

LEMMA Answers ==
    ASSUME PageInv(page), IsSeq(up), NEW a \in Leavings, AnswerLeave(a)
    PROVE  OperatorStep
<1> DEFINE b == [page EXCEPT !.answered = TRUE, !.focus = None]
<1>1. Do(Push(b, a, page.known)) /\ page.where = "details"
  BY DEF AnswerLeave
<1>2. Writes(page, b, {"unsent", "saving", "answered", "focus"}) /\ b.focus = None
      /\ b.unsent = page.unsent
  BY DEF Writes, Shape, PageFields, PageInv, MapInv
<1>3. Request(page, b, [type |-> a, x |-> page.known])
  BY <1>2 DEF Request
<1> QED
  BY <1>1, <1>2, <1>3, RequestIsSent

LEMMA Departs ==
    ASSUME PageInv(page), page.where = "details", IsSeq(up), Depart
    PROVE  OperatorStep \/ (Leave /\ ~page.dirty)
<1>1. CASE page.dirty
  <2> DEFINE p == Push(page, "guard", None)
  <2>1. Do(p)
    BY <1>1 DEF Depart
  <2>2. Writes(page, p, {} \cup {"sent"}) /\ p.sent = Append(<<>>, Guard)
    BY PushWrites DEF PageInv, MapInv, Guard
  <2> HIDE DEF p
  <2>3. /\ Writes(page, page', {}) /\ page'.sent = <<>>
        /\ UNCHANGED <<srv, db, down, online, others>>
    BY <2>1, <2>2, DoneWrites
  <2>4. Pushes(Guard)
    BY <2>1, <2>2, DonePushes
  <2>5. Guarding(page, page')
    BY <1>1, <2>3, <2>4 DEF Guarding
  <2> QED
    BY <2>3, <2>5 DEF OperatorStep
<1>2. CASE ~page.dirty
  BY <1>2 DEF Depart
<1> QED
  BY <1>1, <1>2

LEMMA Points ==
    ASSUME PageInv(page), page.where = "details", IsSeq(up), NEW row, Do(SetHighlight(page, row))
    PROVE  OperatorStep
<1> DEFINE p == SetHighlight(page, row)
<1>1. Writes(page, p, Pointing) /\ MapInv(p)
  BY SetHighlightDraws DEF PageInv
<1>2. Do(p)
  OBVIOUS
<1> HIDE DEF p
<1>3. Writes(page, p, Pointing \cup {"sent"}) /\ p.sent = <<>>
  BY <1>1 DEF Writes, PageFields, Pointing, PageInv
<1>4. /\ Writes(page, page', Pointing) /\ page'.sent = <<>> /\ MapInv(page')
      /\ UNCHANGED <<srv, db, down, online, others>>
  BY <1>1, <1>2, <1>3, DoneWrites
<1>5. up' = up
  BY <1>2, <1>3, DonePushes
<1> QED
  BY <1>4, <1>5 DEF OperatorStep, Highlighting

\* A view, or the switch of the other routes.
LEMMA LooksDone ==
    ASSUME PageInv(page), page.where = "details", IsSeq(up), NEW p, Do(p),
           Writes(page, p, {"toggle", "focus", "view", "last"} \cup {"sent"}),
           p.view # None, p.toggle \in BOOLEAN,
           \/ /\ p.toggle /\ p.last = p.view
              /\ p.focus = "toggle" \/ (p.focus = page.focus /\ p.toggle = page.toggle)
              /\ p.view = page.last => p.sent = <<>>
              /\ p.view # page.last => p.sent = Append(<<>>, On(p.view))
           \/ ~p.toggle /\ p.focus = "toggle" /\ p.last = None /\ p.sent = Append(<<>>, Off)
           \/ p.toggle = page.toggle /\ p.focus = page.focus /\ p.last = page.last /\ p.sent = <<>>
    PROVE  OperatorStep
<1>1. /\ Writes(page, page', {"toggle", "focus", "view", "last"}) /\ Writes(p, page', {"sent"})
      /\ page'.sent = <<>> /\ UNCHANGED <<srv, db, down, online, others>>
  BY DoneWrites
<1>2. /\ page'.view = p.view /\ page'.toggle = p.toggle /\ page'.last = p.last
      /\ page'.focus = p.focus
  BY <1>1 DEF Writes, PageFields
<1>3. p.sent = <<>> => up' = up
  BY DonePushes
<1>4. p.sent = Append(<<>>, Off) => Pushes(Off)
  BY DonePushes
<1>5. p.sent = Append(<<>>, On(p.view)) => Pushes(On(page'.view))
  BY <1>2, DonePushes
<1>6. Looking(page, page')
  BY <1>1, <1>2, <1>3, <1>4, <1>5 DEF Looking
<1> QED
  BY <1>1, <1>6 DEF OperatorStep

LEMMA Moves ==
    ASSUME PageInv(page), page.where = "details", IsSeq(up), NEW view, view # None,
           Do(MoveTo(page, view))
    PROVE  OperatorStep
<1> DEFINE p == MoveTo(page, view)
<1>1. /\ Writes(page, p, {"view", "last", "sent"}) /\ p.view = view
      /\ page.toggle => /\ p.last = view
                        /\ view = page.last => p.sent = <<>>
                        /\ view # page.last => p.sent = Append(<<>>, On(view))
      /\ ~page.toggle => Writes(page, p, {"view"})
  BY MapMoves DEF PageInv, MapInv
<1>2. Do(p)
  OBVIOUS
<1> HIDE DEF p
<1>3. /\ Writes(page, p, {"toggle", "focus", "view", "last"} \cup {"sent"})
      /\ p.toggle = page.toggle /\ p.focus = page.focus
      /\ ~page.toggle => p.last = page.last /\ p.sent = <<>>
  BY <1>1 DEF Writes, PageFields, PageInv
<1>4. CASE page.toggle
  BY <1>1, <1>2, <1>3, <1>4, LooksDone DEF PageInv
<1>5. CASE ~page.toggle
  BY <1>1, <1>2, <1>3, <1>5, LooksDone DEF PageInv
<1> QED
  BY <1>4, <1>5

LEMMA Toggles ==
    ASSUME PageInv(page), page.where = "details", IsSeq(up), Do(ToggleContext(page))
    PROVE  OperatorStep
<1> DEFINE p == ToggleContext(page)
<1>1. /\ Writes(page, p, {"toggle", "focus", "last", "sent"})
      /\ p.toggle \in BOOLEAN /\ (p.toggle <=> ~page.toggle) /\ p.focus = "toggle"
      /\ ~page.toggle => p.last = page.view /\ p.sent = Asked(page)
      /\ page.toggle => p.last = None /\ p.sent = Append(<<>>, Off)
  BY ToggleSwitches DEF PageInv, MapInv
<1>2. Do(p)
  OBVIOUS
<1> HIDE DEF p
<1>3. /\ Writes(page, p, {"toggle", "focus", "view", "last"} \cup {"sent"})
      /\ p.view = page.view /\ p.view # None
  BY <1>1 DEF Writes, PageFields, PageInv
<1>4. CASE page.toggle
  BY <1>1, <1>2, <1>3, <1>4, LooksDone
<1>5. CASE ~page.toggle
  <2>1. /\ p.view = page.last => p.sent = <<>>
        /\ p.view # page.last => p.sent = Append(<<>>, On(p.view))
    BY <1>1, <1>3, <1>5 DEF Asked, PageInv
  <2> QED
    BY <1>1, <1>2, <1>3, <1>5, <2>1, LooksDone
<1> QED
  BY <1>4, <1>5

LEMMA Fits ==
    ASSUME PageInv(page), page.where = "details", IsSeq(up), Do(Fit(page))
    PROVE  OperatorStep
<1>1. "fit" # None
  BY RouteAssumption
<1>2. CASE Fit(page) = MoveTo(page, "fit")
  BY <1>1, <1>2, Moves
<1>3. CASE Fit(page) = page
  <2>1. Do(page) /\ Writes(page, page, {"toggle", "focus", "view", "last"} \cup {"sent"})
    BY <1>3 DEF Writes, PageInv, MapInv
  <2> QED
    BY <2>1, LooksDone DEF PageInv
<1> QED
  BY <1>2, <1>3, FitMoves DEF PageInv, MapInv

Operator ==
    \/ \E f \in Fields : \E v \in Typed[f] : TypeText(f, v)
    \/ \E v \in Typed.color : PickColor(v)
    \/ \E v \in Typed.text : ChooseText(v)
    \/ Blur \/ UseAutomatic \/ Save \/ SaveMerge \/ Discard
    \/ \E a \in Leavings : AnswerLeave(a)
    \/ ClickLink \/ PressBack
    \/ \E r \in Rows \cup {NoRow} : PointAt(r)
    \/ \E r \in Rows : ClickRow(r)
    \/ \E view \in Views : Zoom(view)
    \/ ClickToggle \/ ClickFit \/ ClickMore \/ ClickRetry

LEMMA OperatorSteps ==
    ASSUME PageInv(page), IsSeq(up), Operator
    PROVE  OperatorStep \/ (Leave /\ ~page.dirty /\ page.where = "details" /\ online)
<1>1. CASE \E f \in Fields : \E v \in Typed[f] : TypeText(f, v)
  BY <1>1, Types
<1>2. CASE \E v \in Typed.color : PickColor(v)
  BY <1>2, ColorsAreSent
<1>3. CASE (\E v \in Typed.text : ChooseText(v)) \/ UseAutomatic
  BY <1>3, ColorsAreSent DEF UseAutomatic
<1>4. CASE Blur
  BY <1>4, Blurs
<1>5. CASE Save \/ SaveMerge
  BY <1>5, Submits DEF Save, SaveMerge
<1>6. CASE Discard
  BY <1>6, Clicks DEF Discard, OnForm, OnPage
<1>7. CASE \E a \in Leavings : AnswerLeave(a)
  BY <1>7, Answers
<1>8. CASE ClickLink \/ PressBack
  BY <1>8, Departs DEF ClickLink, PressBack, OnPage
<1>9. CASE (\E r \in Rows \cup {NoRow} : PointAt(r)) \/ (\E r \in Rows : ClickRow(r))
  BY <1>9, Points DEF PointAt, ClickRow, OnPage
<1>10. CASE \E view \in Views : Zoom(view)
  <2>1. \A view \in Views : view # None
    BY RouteAssumption
  <2> QED
    BY <1>10, <2>1, Moves DEF Zoom, OnPage
<1>11. CASE ClickToggle
  BY <1>11, Toggles DEF ClickToggle, OnPage
<1>12. CASE ClickFit
  BY <1>12, Fits DEF ClickFit, OnPage
<1>13. CASE ClickMore \/ ClickRetry
  BY <1>13, Clicks DEF ClickMore, ClickRetry, OnPage
<1> QED
  BY <1>1, <1>2, <1>3, <1>4, <1>5, <1>6, <1>7, <1>8, <1>9, <1>10, <1>11, <1>12, <1>13
  DEF Operator

-----------------------------------------------------------------------------
(* The steps of the page that receives an answer, loses the connection,    *)
(* rejoins and opens again, and of the process.                            *)

Acking == {"saving", "answered"}
Patched(p, m, b) ==
    /\ Writes(p, b, Acking \cup (Around \cup PatchingForm)) /\ MapInv(b)
    /\ b.data = m.w.data /\ b.context = m.w.data.context
    /\ p.focus = "toggle" => b.toggle = p.toggle
    /\ p.focus # "toggle" => b.toggle = m.w.show
    /\ b.offline <=> p.offline
    /\ p.offline => b.disabled
    /\ Locked => Writes(p, b, Acking \cup Around)
    /\ ~Locked => /\ IsForm(b.form) /\ FormPatched(b.form, p, m.w)
                  /\ b.dirty = m.w.dirty /\ b.barHidden = Hides(m.w) /\ b.merge = m.w.merge
                  /\ KnownPatched(b.known, p, m.w)

PatchShown(p, w, o) ==
    /\ Writes(p, o, Around \cup PatchingForm) /\ MapInv(o) /\ o.data = w.data
    /\ p.context = p.data.context => o.context = w.data.context
    /\ p.focus = "toggle" => o.toggle = p.toggle
    /\ p.focus # "toggle" => o.toggle = w.show
    /\ o.offline <=> p.offline
    /\ p.offline /\ p.disabled => o.disabled
    /\ Locked => Writes(p, o, Around)
    /\ ~Locked => /\ IsForm(o.form) /\ FormPatched(o.form, p, w)
                  /\ o.dirty = w.dirty /\ o.barHidden = Hides(w) /\ o.merge = w.merge
                  /\ KnownPatched(o.known, p, w)

LEMMA PatchShows ==
    ASSUME NEW p, MapInv(p), NEW w
    PROVE  PatchShown(p, w, Patch(p, w))
BY PatchWrites DEF PatchShown

LEMMA AnswersPatch ==
    ASSUME NEW p, PageInv(p), NEW m
    PROVE  Patched(p, m, Patch(Acked(p, m.of), m.w))
<1> DEFINE a == Acked(p, m.of)
           b == Patch(a, m.w)
<1>1. Shape(p) /\ MapInv(p)
  BY DEF PageInv, MapInv
<1>2. Writes(p, a, Acking)
  BY <1>1, AckedWrites DEF Acking
<1> HIDE DEF a
<1>3. Acking \cap Drawing = {}
  BY DEF Acking, Drawing
<1>4. MapInv(a)
  BY <1>1, <1>2, <1>3, MapStays
<1>5. /\ a.focus = p.focus /\ a.toggle = p.toggle /\ a.offline = p.offline /\ a.disabled = p.disabled
      /\ a.form = p.form /\ a.known = p.known /\ a.context = p.context /\ a.data = p.data
  BY <1>2 DEF Writes, PageFields, Acking
<1>6. PatchShown(a, m.w, b)
  BY <1>4, PatchShows
<1> HIDE DEF b
<1>7. Writes(p, b, Acking \cup (Around \cup PatchingForm))
  BY <1>2, <1>6, WritesOn DEF PatchShown
<1>8. Locked => Writes(p, b, Acking \cup Around)
  BY <1>2, <1>6, WritesOn DEF PatchShown
<1>9. p.context = p.data.context /\ (p.offline => p.disabled)
  BY DEF PageInv
<1>10. ASSUME ~Locked
       PROVE  FormPatched(b.form, p, m.w) /\ KnownPatched(b.known, p, m.w)
  BY <1>5, <1>6, <1>10 DEF PatchShown, FormPatched, KnownPatched
<1>11. Patched(p, m, b)
  BY <1>5, <1>6, <1>7, <1>8, <1>9, <1>10 DEF PatchShown, Patched
<1> QED
  BY <1>11 DEF b, a

DeliverStep ==
    /\ down # <<>> /\ page'.sent = <<>> /\ UNCHANGED <<srv, db, online, others>>
    /\ \E b : Patched(page, Head(down), b) /\ Listening(b, Head(down).out, page')
    /\ page'.where = "elsewhere" => up' = <<>> /\ down' = <<>>
    /\ page'.where # "elsewhere" => up' = up /\ down' = Tail(down)

LEMMA WritesShape ==
    ASSUME NEW p, NEW o, NEW X, Writes(p, o, X)
    PROVE  Shape(o)
BY DEF Writes

LEMMA ListeningShape ==
    ASSUME NEW p, NEW e, NEW o, Listening(p, e, o)
    PROVE  Shape(o)
BY DEF Listening, Writes

LEMMA ListeningKeeps ==
    ASSUME NEW p, NEW e, NEW o, Listening(p, e, o)
    PROVE  Writes(p, o, {"focus", "offline", "disabled", "held", "where", "leftover"})
BY DEF Listening, Writes

LEMMA Delivers ==
    ASSUME PageInv(page), IsSeq(up), down # <<>>, Event(Head(down).out), Deliver
    PROVE  DeliverStep
<1> DEFINE m == Head(down)
           b == Patch(Acked(page, m.of), m.w)
           p == Heard(b, m.out)
<1>1. Patched(page, m, b)
  BY AnswersPatch
<1> HIDE DEF b
<1>2. Shape(b) /\ b.sent = <<>>
  BY <1>1 DEF Patched, Writes, PageFields, Acking, Around, Drawing, PatchingForm, Painting, PageInv
<1>3. Listening(b, m.out, p)
  BY <1>2, HeardListens DEF Event
<1>4. /\ page' = [p EXCEPT !.sent = <<>>] /\ UNCHANGED <<srv, db, online, others>>
      /\ IF p.where = "elsewhere" THEN up' = <<>> /\ down' = <<>>
         ELSE down' = Tail(down) /\ up' = up \o p.sent
  BY DEF Deliver, b
<1> HIDE DEF p
<1>5. Shape(p) /\ p.sent = <<>>
  BY <1>2, <1>3, ListeningShape, ListeningKeeps DEF Writes, PageFields
<1>6. page'.sent = <<>> /\ Shape(page') /\ \A f \in PageFields : page'[f] = p[f]
  BY <1>4, <1>5 DEF Shape, PageFields
<1>7. \A X : Writes(b, p, X) => Writes(b, page', X)
  BY <1>6 DEF Writes
<1>8. page'.where = p.where /\ page'.focus = p.focus /\ page'.offline = p.offline
  BY <1>6 DEF PageFields
<1>9. Listening(b, m.out, page')
  BY <1>3, <1>7, <1>8 DEF Listening
<1>10. up \o p.sent = up
  BY <1>5, NoneYet
<1> QED
  BY <1>1, <1>4, <1>6, <1>8, <1>9, <1>10 DEF DeliverStep

Fresh(v) ==
    /\ SrvInv(v) /\ v.base = db.values /\ v.rev = db.rev /\ v.merge = None /\ ~v.blocked
    /\ ~v.show /\ v.bounds = None /\ ~v.missed /\ v.out = None

RejoinStep ==
    /\ ~online /\ online' = TRUE /\ UNCHANGED <<db, others>> /\ down' = down /\ up' = <<Recover>>
    /\ Fresh(srv') /\ srv'.draft = page.form /\ srv'.rejoined
    /\ Writes(page, page', {"saving", "answered", "unsent", "entries"} \cup (Around \cup PatchingForm))
    /\ MapInv(page') /\ page'.sent = <<>> /\ ~page'.unsent /\ page'.entries = None
    /\ page'.data = View(srv').data /\ page'.context = page'.data.context
    /\ page.focus = "toggle" => page'.toggle = page.toggle
    /\ page.focus # "toggle" => page'.toggle = View(srv').show
    /\ page'.offline <=> page.offline
    /\ page'.offline => page'.disabled
    /\ page'.form = page.form \/ (page.entries # None /\ page'.form = page.entries)
    /\ page'.dirty = DetailsDirty(srv') /\ page'.barHidden = Hides(View(srv'))
    /\ page'.merge = View(srv').merge
    /\ KnownPatched(page'.known, page, View(srv'))

LEMMA Rejoins ==
    ASSUME PageInv(page), DbInv(db), up = <<>>, down = <<>>, Rejoin
    PROVE  RejoinStep
<1> DEFINE fresh == AssignDraft([MountProcess EXCEPT !.rejoined = TRUE], page.form)
           w == View(fresh)
           joined == [page EXCEPT !.saving = FALSE, !.answered = FALSE, !.unsent = FALSE]
           b == Patch(joined, w)
           p == Reconnected(b)
<1>1. /\ ~online /\ online' = TRUE /\ srv' = fresh /\ up' = p.sent
      /\ page' = [p EXCEPT !.sent = <<>>] /\ UNCHANGED <<db, down, others>>
  BY DEF Rejoin
<1>2. Fresh(fresh) /\ fresh.draft = page.form /\ fresh.rejoined
  <2> DEFINE v == MountProcess
  <2>1. /\ SrvInv(v) /\ v.base = db.values /\ v.rev = db.rev /\ v.merge = None /\ ~v.blocked
        /\ ~v.show /\ v.bounds = None /\ ~v.missed /\ v.out = None
    BY ProcessOpens
  <2> HIDE DEF v
  <2>2. Leaves(v, fresh, {"draft", "rejoined"}) /\ fresh.draft = page.form /\ fresh.rejoined
    BY <2>1 DEF v, SrvInv, Leaves, AssignDraft, SrvFields
  <2> HIDE DEF fresh
  <2>3. IsForm(page.form)
    BY DEF PageInv
  <2> QED
    BY <2>1, <2>2, <2>3 DEF Fresh, SrvInv, Leaves, SrvFields
<1> HIDE DEF fresh
<1>3. w.form = page.form /\ ~w.show /\ w.dirty = DetailsDirty(fresh)
  BY <1>2 DEF View, Fresh
<1>4. Shape(page) /\ MapInv(page)
  BY DEF PageInv, MapInv
<1>5. Writes(page, joined, {"saving", "answered", "unsent"}) /\ ~joined.unsent
  BY <1>4 DEF Writes, Shape, PageFields
<1> HIDE DEF w, joined
<1>6. {"saving", "answered", "unsent"} \cap Drawing = {}
  BY DEF Drawing
<1>7. MapInv(joined)
  BY <1>4, <1>5, <1>6, MapStays
<1>8. PatchShown(joined, w, b)
  BY <1>7, PatchShows
<1> HIDE DEF b
<1>9. ~Locked
  <2>1. Len(up) = 0 /\ Len(down) = 0
    BY NoneYet
  <2> QED
    BY <2>1 DEF Locked
<1>10. /\ joined.form = page.form /\ joined.entries = page.entries /\ joined.focus = page.focus
       /\ joined.toggle = page.toggle /\ joined.offline = page.offline /\ joined.sent = page.sent
       /\ joined.disabled = page.disabled /\ joined.context = page.context
       /\ joined.data = page.data /\ joined.known = page.known
  BY <1>5 DEF Writes, PageFields
<1>11. IsForm(b.form) /\ \A f \in Fields : b.form[f] = page.form[f]
  BY <1>3, <1>8, <1>9, <1>10 DEF PatchShown, FormPatched
<1>12. b.form = page.form
  BY <1>11, FormsAgree DEF PageInv
<1>13. /\ b.entries = page.entries /\ b.sent = <<>> /\ Shape(b) /\ b.unsent = joined.unsent
       /\ b.focus = page.focus
  BY <1>8, <1>10 DEF PatchShown, Writes, PageFields, Around, Drawing, PatchingForm, Painting, PageInv
<1>14. /\ Writes(b, p, {"form", "entries", "sent"} \cup Painting)
       /\ p.entries = None /\ p.sent = Append(b.sent, Recover)
  BY <1>13, ReconnectedWrites
<1>15. p.form = page.form \/ (page.entries # None /\ p.form = page.entries)
  BY <1>12, <1>13, ReconnectedWrites
<1> HIDE DEF p
<1>16. p.sent = <<Recover>>
  BY <1>13, <1>14
<1>17. Writes(p, page', {"sent"}) /\ page'.sent = <<>>
  BY <1>1, <1>14 DEF Writes, Shape, PageFields
<1>18. Writes(b, page', {"form", "entries", "sent"} \cup Painting)
  BY <1>14, <1>17, WritesOn
<1>19. Writes(page, page', {"saving", "answered", "unsent", "entries", "sent"} \cup (Around \cup PatchingForm))
  <2>1. Writes(joined, b, Around \cup PatchingForm)
    BY <1>8 DEF PatchShown
  <2>2. Writes(page, b, {"saving", "answered", "unsent"} \cup (Around \cup PatchingForm))
    BY <1>5, <2>1, WritesOn
  <2>3. {"form"} \cup Painting \subseteq PatchingForm
    BY DEF PatchingForm
  <2> QED
    BY <1>18, <2>2, <2>3, WritesOn
<1>20. Writes(page, page', {"saving", "answered", "unsent", "entries"} \cup (Around \cup PatchingForm))
  BY <1>17, <1>19 DEF Writes, PageInv
<1>21. page'.form = p.form /\ page'.entries = None /\ ~page'.unsent
  BY <1>5, <1>13, <1>14, <1>17, <1>18 DEF Writes, PageFields, Painting
<1>22. /\ page'.data = b.data /\ page'.context = b.context /\ page'.toggle = b.toggle
       /\ page'.offline = b.offline /\ page'.disabled = b.disabled /\ page'.dirty = b.dirty
       /\ page'.barHidden = b.barHidden /\ page'.merge = b.merge /\ page'.known = b.known
  BY <1>18 DEF Writes, PageFields, Painting
<1>23. ({"form", "entries", "sent"} \cup Painting) \cap Drawing = {}
  BY DEF Painting, Drawing
<1>24. MapInv(page')
  BY <1>8, <1>18, <1>23, MapStays DEF PatchShown
<1>25. KnownPatched(page'.known, page, w)
  BY <1>8, <1>9, <1>10, <1>22 DEF PatchShown, KnownPatched
<1>26. /\ page'.data = w.data /\ page'.context = page'.data.context
       /\ page.focus = "toggle" => page'.toggle = page.toggle
       /\ page.focus # "toggle" => page'.toggle = w.show
       /\ page'.offline <=> page.offline
       /\ page'.offline => page'.disabled
  BY <1>3, <1>8, <1>10, <1>22 DEF PatchShown, PageInv
<1>27. page'.dirty = w.dirty /\ page'.barHidden = Hides(w) /\ page'.merge = w.merge
  BY <1>8, <1>9, <1>22 DEF PatchShown
<1>28. srv' = fresh /\ View(srv') = w
  BY <1>1 DEF w
<1> QED
  BY <1>1, <1>2, <1>3, <1>15, <1>16, <1>17, <1>20, <1>21, <1>24, <1>25, <1>26, <1>27, <1>28
  DEF RejoinStep

DropStep ==
    /\ online /\ ~online' /\ page.where = "details" /\ up' = <<>> /\ down' = <<>>
    /\ UNCHANGED <<srv, db, others>>
    /\ Writes(page, page', {"entries", "offline", "disabled", "held"})
    /\ page'.offline /\ page'.disabled
    /\ page'.entries = page.entries \/ page'.entries = page.form

LEMMA Drops ==
    ASSUME PageInv(page), Drop
    PROVE  DropStep
<1>1. Shape(page)
  BY DEF PageInv, MapInv
<1>2. /\ Writes(page, Disconnected(page), {"entries", "offline", "disabled", "held"})
      /\ Disconnected(page).offline /\ Disconnected(page).disabled
      /\ (Disconnected(page).entries = page.entries \/ Disconnected(page).entries = page.form)
  BY <1>1, DisconnectedWrites
<1>3. /\ online /\ ~online' /\ page.where = "details" /\ up' = <<>> /\ down' = <<>>
      /\ UNCHANGED <<srv, db, others>> /\ page' = Disconnected(page)
  BY DEF Drop
<1> QED
  BY <1>2, <1>3 DEF DropStep

ReturnStep ==
    /\ page.where = "elsewhere" /\ UNCHANGED <<db, up, down, online, others>>
    /\ Fresh(srv') /\ srv'.draft = db.values /\ ~srv'.rejoined
    /\ MapInv(page') /\ page'.where = "details" /\ page'.form = db.values /\ ~page'.unsent
    /\ page'.focus = None /\ page'.dirty = DetailsDirty(srv') /\ ~page'.offline /\ page'.entries = None
    /\ page'.barHidden = TRUE /\ page'.merge = None /\ ~page'.apart /\ page'.last = None
    /\ ~page'.toggle /\ page'.toggle \in BOOLEAN /\ page'.sent = <<>> /\ page'.view # None
    /\ page'.data = View(srv').data /\ page'.context = page'.data.context
    /\ page'.known = [values |-> db.values, rev |-> db.rev]

Opened(v, p) ==
    /\ MapInv(p) /\ p.where = "details" /\ p.form = db.values /\ ~p.unsent
    /\ p.focus = None /\ p.dirty = DetailsDirty(v) /\ ~p.offline /\ p.entries = None
    /\ p.barHidden = TRUE /\ p.merge = None /\ ~p.apart /\ p.last = None
    /\ ~p.toggle /\ p.toggle \in BOOLEAN /\ p.sent = <<>> /\ p.view # None
    /\ p.data = View(v).data /\ p.context = p.data.context
    /\ p.known = [values |-> db.values, rev |-> db.rev]

LEMMA PageOpens ==
    ASSUME DbInv(db), NEW leftover
    PROVE  /\ Fresh(MountProcess) /\ MountProcess.draft = db.values /\ ~MountProcess.rejoined
           /\ Opened(MountProcess, Mounted(View(MountProcess), leftover))
<1> DEFINE v == MountProcess
           w == View(v)
           o == Mounted(w, leftover)
<1>1. Fresh(v) /\ v.draft = db.values /\ ~v.rejoined
  BY ProcessOpens DEF Fresh
<1> HIDE DEF v
<1>2. Changed(v) = {} /\ v.merge = None
  BY <1>1 DEF Changed, Fresh
<1>3. /\ w.form = db.values /\ w.dirty = DetailsDirty(v) /\ w.known = [values |-> db.values, rev |-> db.rev]
  BY <1>1, <1>2 DEF View, DetailsDirty, Fresh
<1> HIDE DEF w
<1>4. OpenedWith(w, o)
  BY MountedWrites
<1> HIDE DEF o
<1>5. o.view # None
  BY <1>4, RouteAssumption DEF OpenedWith
<1>6. Opened(v, o)
  BY <1>3, <1>4, <1>5 DEF OpenedWith, Opened, w
<1> QED
  BY <1>1, <1>6 DEF v, w, o

LEMMA Returns ==
    ASSUME DbInv(db), Return
    PROVE  ReturnStep
<1>1. /\ page.where = "elsewhere" /\ UNCHANGED <<db, up, down, online, others>>
      /\ srv' = MountProcess /\ page' = Mounted(View(MountProcess), page.leftover)
  BY DEF Return
<1> QED
  BY <1>1, PageOpens DEF ReturnStep, Opened


AnswerTo(type, v) == [of |-> type, w |-> View(v), out |-> v.out]

HandleStep ==
    /\ up # <<>> /\ up' = Tail(up) /\ UNCHANGED <<page, online, others>>
    /\ down' = Append(down, AnswerTo(Head(up).type, srv'))
    /\ Head(up).type \in EventTypes
    /\ Handled(Head(up).type, Head(up).x, srv, srv', db') /\ Stores(Head(up).type, srv, db')

LEMMA Handles ==
    ASSUME SrvInv(srv), DbInv(db), Handle,
           Head(up).type = "validate" => IsForm(Head(up).x),
           Head(up).type = "save" => IsForm(Head(up).x.form)
    PROVE  HandleStep
<1>1. /\ up # <<>> /\ up' = Tail(up) /\ UNCHANGED <<page, online, others>>
      /\ down' = Append(down, AnswerTo(Head(up).type, srv'))
      /\ HandleEvent(Head(up).type, Head(up).x)
  BY DEF Handle, AnswerTo
<1> QED
  BY <1>1, EventHandled DEF HandleStep

OthersStep ==
    /\ others' = others + 1 /\ UNCHANGED <<page, srv, up, down, online>>
    /\ DbInv(db') /\ (db'.editor => db.editor)
    /\ \/ db'.values = db.values /\ db'.rev = db.rev
       \/ db'.rev = db.rev + 1

LEMMA OthersDo ==
    ASSUME DbInv(db), (\E f \in Fields : \E v \in Theirs[f] : OtherSaves(f, v)) \/ OtherDraws \/ Revoke
    PROVE  OthersStep
<1>1. ASSUME NEW f \in Fields, NEW v, OtherSaves(f, v)
      PROVE  OthersStep
  <2>1. /\ db' = [db EXCEPT !.values = [db.values EXCEPT ![f] = v], !.rev = db.rev + 1]
        /\ others' = others + 1 /\ UNCHANGED <<page, srv, up, down, online>>
    BY <1>1 DEF OtherSaves
  <2>2. IsForm([db.values EXCEPT ![f] = v])
    BY FormIsSet DEF DbInv
  <2>3. db'.values = [db.values EXCEPT ![f] = v] /\ db'.rev = db.rev + 1 /\ db'.editor = db.editor
    BY <2>1 DEF DbInv, DbFields
  <2>4. DbFields \subseteq DOMAIN db'
    BY <2>1 DEF DbInv
  <2> QED
    BY <2>1, <2>2, <2>3, <2>4 DEF OthersStep, DbInv
<1>2. CASE OtherDraws
  <2>1. /\ db' = [db EXCEPT !.map = 2]
        /\ others' = others + 1 /\ UNCHANGED <<page, srv, up, down, online>>
    BY <1>2 DEF OtherDraws
  <2> QED
    BY <2>1 DEF OthersStep, DbInv, DbFields
<1>3. CASE Revoke
  <2>1. /\ db' = [db EXCEPT !.editor = FALSE] /\ db.editor
        /\ others' = others + 1 /\ UNCHANGED <<page, srv, up, down, online>>
    BY <1>3 DEF Revoke
  <2> QED
    BY <2>1 DEF OthersStep, DbInv, DbFields
<1> QED
  BY <1>1, <1>2, <1>3

LeaveStep ==
    /\ page.where = "details" /\ ~page.dirty /\ online
    /\ Writes(page, page', {"where", "leftover"}) /\ page'.where = "elsewhere"
    /\ up' = <<>> /\ down' = <<>> /\ UNCHANGED <<srv, db, online, others>>

LEMMA LeavesPage ==
    ASSUME PageInv(page), Leave, ~page.dirty, page.where = "details", online
    PROVE  LeaveStep
BY DEF Leave, LeaveStep, Destroyed, Writes, PageInv, MapInv, Shape, PageFields

-----------------------------------------------------------------------------
(* What holds of the messages on their way, and of the connection.         *)

Message(m) ==
    /\ m.type \in EventTypes
    /\ m.type = "validate" => IsForm(m.x)
    /\ m.type = "save" => IsForm(m.x.form)
    /\ m.type = "context_on" => m.x # None
Answer(m) == IsForm(m.w.form) /\ m.w.show \in BOOLEAN /\ Event(m.out) /\ m.of \in EventTypes

Messages(q) == IsSeq(q) /\ \A i \in 1 .. Len(q) : Message(q[i])
AnswersIn(q) == IsSeq(q) /\ \A i \in 1 .. Len(q) : Answer(q[i])
Connected(p) ==
    /\ p.where = "details" \/ p.where = "elsewhere"
    /\ ~online => up = <<>> /\ down = <<>> /\ p.where = "details" /\ p.offline
    /\ p.where = "elsewhere" => up = <<>> /\ down = <<>>
    /\ online => p.entries = None
    /\ ~online /\ ~p.apart => p.entries = None \/ p.entries = p.form

Base ==
    /\ PageInv(page) /\ SrvInv(srv) /\ DbInv(db) /\ Messages(up) /\ AnswersIn(down)
    /\ Connected(page) /\ others \in Nat

Steps ==
    \/ OperatorStep \/ LeaveStep \/ ReturnStep \/ HandleStep \/ DeliverStep
    \/ OthersStep \/ DropStep \/ RejoinStep \/ UNCHANGED vars

LEMMA FirstMessage ==
    ASSUME Messages(up), up # <<>>
    PROVE  Message(Head(up))
BY OneLess DEF Messages

LEMMA FirstAnswer ==
    ASSUME AnswersIn(down), down # <<>>
    PROVE  Answer(Head(down))
BY OneLess DEF AnswersIn

LEMMA NextSteps ==
    ASSUME Base, [Next]_vars
    PROVE  Steps
<1> USE DEF Base
<1>1. CASE Operator
  BY <1>1, OperatorSteps, LeavesPage DEF Steps, Messages
<1>2. CASE Return
  BY <1>2, Returns DEF Steps
<1>3. CASE Handle
  <2>1. up # <<>>
    BY <1>3 DEF Handle
  <2>2. Message(Head(up))
    BY <2>1, FirstMessage
  <2> QED
    BY <1>3, <2>2, Handles DEF Steps, Message
<1>4. CASE Deliver
  <2>1. down # <<>>
    BY <1>4 DEF Deliver
  <2>2. Event(Head(down).out)
    BY <2>1, FirstAnswer DEF Answer
  <2> QED
    BY <1>4, <2>1, <2>2, Delivers DEF Steps, Messages
<1>5. CASE (\E f \in Fields : \E v \in Theirs[f] : OtherSaves(f, v)) \/ OtherDraws \/ Revoke
  BY <1>5, OthersDo DEF Steps
<1>6. CASE Drop
  BY <1>6, Drops DEF Steps
<1>7. CASE Rejoin
  <2>1. up = <<>> /\ down = <<>>
    BY <1>7 DEF Rejoin, Connected
  <2> QED
    BY <1>7, <2>1, Rejoins DEF Steps
<1>8. CASE UNCHANGED vars
  BY <1>8 DEF Steps
<1> QED
  BY <1>1, <1>2, <1>3, <1>4, <1>5, <1>6, <1>7, <1>8 DEF Next, Operator, Leavings


LEMMA MapKept ==
    ASSUME PageInv(page), NEW o, NEW X, Writes(page, o, X), X \cap Drawing = {}
    PROVE  MapInv(o)
BY MapStays DEF PageInv

LEMMA OperatorKeepsPage ==
    ASSUME PageInv(page), OperatorStep
    PROVE  PageInv(page')
<1>0. page'.sent = <<>>
  BY DEF OperatorStep
<1>1. CASE Typing(page, page') \/ Sending(page, page')
  <2>1. Writes(page, page', Entering \cup {"unsent", "focus"}) /\ MapInv(page') /\ IsForm(page'.form)
        /\ (page'.focus \in Fields \/ page'.focus = None)
    BY <1>1 DEF Typing, Sending
  <2>2. /\ page'.context = page.context /\ page'.data = page.data /\ page'.view = page.view
        /\ page'.toggle = page.toggle /\ page'.last = page.last /\ page'.offline = page.offline
        /\ page'.disabled = page.disabled /\ page'.entries = page.entries
    BY <2>1 DEF Writes, PageFields, Entering, Painting, Drawing
  <2>3. page'.focus # "toggle"
    BY <2>1, RouteAssumption DEF Fields
  <2> QED
    BY <1>0, <2>1, <2>2, <2>3 DEF PageInv
<1>2. CASE (\E m : Requesting(page, page', m)) \/ Blurring(page, page')
  <2>1. Writes(page, page', {"unsent", "saving", "answered", "focus"}) /\ page'.focus = None
    BY <1>2 DEF Requesting, Blurring, Writes
  <2>2. {"unsent", "saving", "answered", "focus"} \cap Drawing = {}
    BY DEF Drawing
  <2>3. MapInv(page')
    BY <2>1, <2>2, MapKept
  <2>4. page'.focus # "toggle"
    BY <2>1, RouteAssumption
  <2> QED
    BY <1>0, <2>1, <2>3, <2>4 DEF PageInv, Writes, PageFields
<1>3. CASE Guarding(page, page') \/ Highlighting(page, page')
  <2>1. Writes(page, page', Pointing)
    BY <1>3 DEF Guarding, Highlighting, Writes
  <2>2. MapInv(page')
    <3>1. CASE Guarding(page, page')
      <4>1. Writes(page, page', {})
        BY <3>1 DEF Guarding
      <4> QED
        BY <4>1, MapKept
    <3>2. CASE Highlighting(page, page')
      BY <3>2 DEF Highlighting
    <3> QED
      BY <1>3, <3>1, <3>2
  <2> QED
    BY <1>0, <2>1, <2>2 DEF PageInv, Writes, PageFields, Pointing
<1>4. CASE Looking(page, page')
  <2>1. Writes(page, page', {"toggle", "focus", "view", "last"})
        /\ page'.view # None /\ page'.toggle \in BOOLEAN
    BY <1>4 DEF Looking
  <2>2. {"toggle", "focus", "view", "last"} \cap Drawing = {}
    BY DEF Drawing
  <2>3. MapInv(page')
    BY <2>1, <2>2, MapKept
  <2>4. /\ page'.context = page.context /\ page'.data = page.data
        /\ page'.offline = page.offline /\ page'.form = page.form
        /\ page'.disabled = page.disabled /\ page'.entries = page.entries
    BY <2>1 DEF Writes, PageFields
  <2>5. page'.focus = "toggle" => (page'.toggle <=> page'.last # None)
    BY <1>4, <2>1 DEF Looking, PageInv
  <2> QED
    BY <1>0, <2>1, <2>3, <2>4, <2>5 DEF PageInv
<1> QED
  BY <1>1, <1>2, <1>3, <1>4 DEF OperatorStep

LEMMA ListeningFocus ==
    ASSUME NEW p, NEW e, NEW o, Listening(p, e, o)
    PROVE  /\ o.focus = p.focus \/ o.focus = None
           /\ o.offline => p.offline /\ o.disabled = p.disabled
BY DEF Listening, Writes, PageFields

LEMMA PageStays ==
    ASSUME Base, Steps
    PROVE  PageInv(page')
<1> USE DEF Base
<1>1. CASE OperatorStep
  BY <1>1, OperatorKeepsPage
<1>2. CASE LeaveStep
  <2>1. Writes(page, page', {"where", "leftover"})
    BY <1>2 DEF LeaveStep
  <2>2. {"where", "leftover"} \cap Drawing = {}
    BY DEF Drawing
  <2>3. MapInv(page')
    BY <2>1, <2>2, MapKept
  <2> QED
    BY <2>1, <2>3 DEF PageInv, Writes, PageFields
<1>3. CASE ReturnStep
  BY <1>3, RouteAssumption DEF ReturnStep, PageInv, DbInv
<1>4. CASE HandleStep \/ OthersStep \/ UNCHANGED vars
  BY <1>4 DEF HandleStep, OthersStep, vars
<1>5. CASE DeliverStep
  <2> DEFINE m == Head(down)
  <2>1. PICK b : Patched(page, m, b) /\ Listening(b, m.out, page')
    BY <1>5 DEF DeliverStep
  <2>2. down # <<>> /\ page'.sent = <<>>
    BY <1>5 DEF DeliverStep
  <2>3. IsForm(m.w.form) /\ m.w.show \in BOOLEAN
    BY <2>2, FirstAnswer DEF Answer
  <2> HIDE DEF m
  <2>4. Writes(b, page', {"focus", "offline", "disabled", "held", "where", "leftover"})
    BY <2>1, ListeningKeeps
  <2>5. {"focus", "offline", "disabled", "held", "where", "leftover"} \cap Drawing = {}
    BY DEF Drawing
  <2>6. MapInv(page')
    BY <2>1, <2>4, <2>5, MapStays DEF Patched
  <2>7. /\ page'.form = b.form /\ page'.context = b.context /\ page'.data = b.data
        /\ page'.view = b.view /\ page'.toggle = b.toggle /\ page'.last = b.last
        /\ page'.entries = b.entries
    BY <2>4 DEF Writes, PageFields
  <2>8. /\ page'.focus = b.focus \/ page'.focus = None
        /\ page'.offline => b.offline /\ page'.disabled = b.disabled
    BY <2>1, ListeningFocus
  <2>9. /\ b.view = page.view /\ b.last = page.last /\ b.entries = page.entries
        /\ b.focus = page.focus
    BY <2>1 DEF Patched, Writes, PageFields, Acking, Around, Drawing, PatchingForm, Painting
  <2>10. IsForm(b.form)
    <3>1. CASE Locked
      BY <2>1, <3>1 DEF Patched, Writes, PageFields, Acking, Around, Drawing, PageInv
    <3>2. CASE ~Locked
      BY <2>1, <3>2 DEF Patched
    <3> QED
      BY <3>1, <3>2
  <2>11. b.context = b.data.context /\ (b.offline => b.disabled)
         /\ (page.focus = "toggle" => b.toggle = page.toggle)
         /\ (page.focus # "toggle" => b.toggle = m.w.show)
    BY <2>1 DEF Patched
  <2>12. page'.toggle \in BOOLEAN
    BY <2>3, <2>7, <2>11 DEF PageInv
  <2>13. page'.focus = "toggle" => page.focus = "toggle"
    BY <2>8, <2>9, RouteAssumption
  <2>14. page'.focus = "toggle" => (page'.toggle <=> page'.last # None)
    BY <2>7, <2>9, <2>11, <2>13 DEF PageInv
  <2>15. page'.view # None /\ page'.context = page'.data.context /\ IsForm(page'.form)
         /\ (page'.offline => page'.disabled) /\ (page'.entries = None \/ IsForm(page'.entries))
    BY <2>7, <2>8, <2>9, <2>10, <2>11 DEF PageInv
  <2> QED
    BY <2>2, <2>6, <2>12, <2>14, <2>15 DEF PageInv
<1>6. CASE DropStep
  <2>1. Writes(page, page', {"entries", "offline", "disabled", "held"})
        /\ page'.disabled /\ (page'.entries = page.entries \/ page'.entries = page.form)
    BY <1>6 DEF DropStep
  <2>2. {"entries", "offline", "disabled", "held"} \cap Drawing = {}
    BY DEF Drawing
  <2>3. MapInv(page')
    BY <2>1, <2>2, MapKept
  <2> QED
    BY <2>1, <2>3 DEF PageInv, Writes, PageFields
<1>7. CASE RejoinStep
  <2>1. /\ page'.view = page.view /\ page'.last = page.last /\ page'.focus = page.focus
    <3>1. Writes(page, page', {"saving", "answered", "unsent", "entries"} \cup (Around \cup PatchingForm))
      BY <1>7 DEF RejoinStep
    <3> QED
      BY <3>1 DEF Writes, PageFields, Around, Drawing, PatchingForm, Painting
  <2>2. /\ MapInv(page') /\ page'.sent = <<>> /\ page'.entries = None
        /\ page'.context = page'.data.context
        /\ page'.offline => page'.disabled
        /\ page.focus = "toggle" => page'.toggle = page.toggle
    BY <1>7 DEF RejoinStep
  <2>3. IsForm(page'.form)
    BY <1>7 DEF RejoinStep, PageInv
  <2>4. page'.toggle \in BOOLEAN
    <3>1. page.focus # "toggle" => page'.toggle = View(srv').show
      BY <1>7 DEF RejoinStep
    <3>2. View(srv').show \in BOOLEAN
      BY <1>7 DEF RejoinStep, Fresh, SrvInv, View
    <3> QED
      BY <2>2, <3>1, <3>2 DEF PageInv
  <2> QED
    BY <2>1, <2>2, <2>3, <2>4 DEF PageInv
<1> QED
  BY <1>1, <1>2, <1>3, <1>4, <1>5, <1>6, <1>7 DEF Steps


LEMMA MessagesGrow ==
    ASSUME NEW q, Messages(q), NEW m, Message(m)
    PROVE  Messages(Append(q, m))
<1>1. /\ IsSeq(Append(q, m)) /\ Len(Append(q, m)) = Len(q) + 1 /\ Len(q) \in Nat
      /\ \A i \in 1 .. Len(q) : Append(q, m)[i] = q[i]
      /\ Append(q, m)[Len(q) + 1] = m
  BY OneMore DEF Messages
<1>2. \A i \in 1 .. Len(q) : Message(q[i])
  BY DEF Messages
<1> DEFINE o == Append(q, m)
<1> HIDE DEF o
<1>3. ASSUME NEW i \in 1 .. Len(o)
      PROVE  Message(o[i])
  <2>1. i \in 1 .. Len(q) \/ i = Len(q) + 1
    BY <1>1 DEF o
  <2> QED
    BY <1>1, <1>2, <2>1 DEF o
<1>4. IsSeq(o)
  BY <1>1 DEF o
<1> QED
  BY <1>3, <1>4 DEF Messages, o

LEMMA MessagesShrink ==
    ASSUME NEW q, Messages(q), q # <<>>
    PROVE  Messages(Tail(q))
<1>1. /\ IsSeq(Tail(q)) /\ Len(q) \in Nat /\ Len(Tail(q)) = Len(q) - 1
      /\ \A i \in 1 .. Len(q) - 1 : Tail(q)[i] = q[i + 1]
  BY OneLess DEF Messages
<1> DEFINE o == Tail(q)
<1> HIDE DEF o
<1>2. ASSUME NEW i \in 1 .. Len(o)
      PROVE  Message(o[i])
  <2>1. i \in 1 .. Len(q) - 1 /\ i + 1 \in 1 .. Len(q)
    BY <1>1 DEF o
  <2> QED
    BY <1>1, <2>1 DEF o, Messages
<1>3. IsSeq(o)
  BY <1>1 DEF o
<1> QED
  BY <1>2, <1>3 DEF Messages, o

LEMMA AnswersGrow ==
    ASSUME NEW q, AnswersIn(q), NEW m, Answer(m)
    PROVE  AnswersIn(Append(q, m))
<1>1. /\ IsSeq(Append(q, m)) /\ Len(Append(q, m)) = Len(q) + 1 /\ Len(q) \in Nat
      /\ \A i \in 1 .. Len(q) : Append(q, m)[i] = q[i]
      /\ Append(q, m)[Len(q) + 1] = m
  BY OneMore DEF AnswersIn
<1>2. \A i \in 1 .. Len(q) : Answer(q[i])
  BY DEF AnswersIn
<1> DEFINE o == Append(q, m)
<1> HIDE DEF o
<1>3. ASSUME NEW i \in 1 .. Len(o)
      PROVE  Answer(o[i])
  <2>1. i \in 1 .. Len(q) \/ i = Len(q) + 1
    BY <1>1 DEF o
  <2> QED
    BY <1>1, <1>2, <2>1 DEF o
<1>4. IsSeq(o)
  BY <1>1 DEF o
<1> QED
  BY <1>3, <1>4 DEF AnswersIn, o

LEMMA AnswersShrink ==
    ASSUME NEW q, AnswersIn(q), q # <<>>
    PROVE  AnswersIn(Tail(q))
<1>1. /\ IsSeq(Tail(q)) /\ Len(q) \in Nat /\ Len(Tail(q)) = Len(q) - 1
      /\ \A i \in 1 .. Len(q) - 1 : Tail(q)[i] = q[i + 1]
  BY OneLess DEF AnswersIn
<1> DEFINE o == Tail(q)
<1> HIDE DEF o
<1>2. ASSUME NEW i \in 1 .. Len(o)
      PROVE  Answer(o[i])
  <2>1. i \in 1 .. Len(q) - 1 /\ i + 1 \in 1 .. Len(q)
    BY <1>1 DEF o
  <2> QED
    BY <1>1, <2>1 DEF o, AnswersIn
<1>3. IsSeq(o)
  BY <1>1 DEF o
<1> QED
  BY <1>2, <1>3 DEF AnswersIn, o

LEMMA MessagesPushed ==
    ASSUME Messages(up), NEW m, Message(m), Pushes(m)
    PROVE  Messages(up')
BY MessagesGrow DEF Pushes

LEMMA ProcessAnswers ==
    ASSUME NEW v, SrvInv(v), NEW type \in EventTypes
    PROVE  Answer(AnswerTo(type, v))
BY DEF Answer, AnswerTo, View, SrvInv

LEMMA OperatorSends ==
    ASSUME PageInv(page), Messages(up), OperatorStep
    PROVE  Messages(up')
<1>1. CASE Typing(page, page') \/ Blurring(page, page') \/ Highlighting(page, page')
  BY <1>1 DEF Typing, Blurring, Highlighting
<1>2. CASE Sending(page, page')
  <2>1. Message([type |-> "validate", x |-> page'.form])
    BY <1>2 DEF Sending, Message, EventTypes
  <2> QED
    BY <1>2, <2>1, MessagesPushed DEF Sending
<1>3. ASSUME NEW m, Requesting(page, page', m)
      PROVE  Messages(up')
  <2>1. Message(m)
    <3>1. Request(page, page', m) /\ IsForm(page.form)
      BY <1>3 DEF Requesting, PageInv
    <3>2. CASE m = [type |-> "save", x |-> m.x] /\ m.x.form = page.form
      <4>1. m.type = "save"
        BY <3>2
      <4> QED
        BY <3>1, <3>2, <4>1 DEF Message, EventTypes
    <3>3. CASE m.type \in {"discard", "context_more", "context_retry", "discard_merge"} \cup Leavings
      BY <3>3 DEF Message, EventTypes, Leavings
    <3> QED
      BY <3>1, <3>2, <3>3 DEF Request
  <2> QED
    BY <1>3, <2>1, MessagesPushed DEF Requesting
<1>4. CASE Guarding(page, page')
  <2>1. Message(Guard)
    BY DEF Message, EventTypes, Guard
  <2> QED
    BY <1>4, <2>1, MessagesPushed DEF Guarding
<1>5. CASE Looking(page, page')
  <2>1. Message(Off) /\ (page'.view # None => Message(On(page'.view)))
    BY DEF Message, EventTypes, Off, On
  <2>2. Message(On(page'.view))
    BY <1>5, <2>1 DEF Looking
  <2> QED
    BY <1>5, <2>1, <2>2, MessagesPushed DEF Looking
<1> QED
  BY <1>1, <1>2, <1>3, <1>4, <1>5 DEF OperatorStep

LEMMA RestStays ==
    ASSUME Base, Steps
    PROVE  /\ SrvInv(srv') /\ DbInv(db') /\ Messages(up') /\ AnswersIn(down') /\ others' \in Nat
<1> USE DEF Base
<1>0. Messages(<<>>) /\ AnswersIn(<<>>)
  BY NoneYet DEF Messages, AnswersIn
<1>1. CASE OperatorStep
  BY <1>1, OperatorSends DEF OperatorStep
<1>2. CASE LeaveStep \/ DropStep
  BY <1>0, <1>2 DEF LeaveStep, DropStep
<1>3. CASE ReturnStep
  BY <1>3 DEF ReturnStep, Fresh
<1>4. CASE HandleStep
  <2>1. SrvInv(srv') /\ DbInv(db')
    BY <1>4 DEF HandleStep, Handled, Stores
  <2>2. Messages(up')
    BY <1>4, MessagesShrink DEF HandleStep
  <2>3. AnswersIn(down')
    BY <1>4, <2>1, AnswersGrow, ProcessAnswers DEF HandleStep
  <2> QED
    BY <1>4, <2>1, <2>2, <2>3 DEF HandleStep
<1>5. CASE DeliverStep
  BY <1>0, <1>5, AnswersShrink DEF DeliverStep
<1>6. CASE OthersStep
  BY <1>6 DEF OthersStep
<1>7. CASE RejoinStep
  <2>1. Message(Recover)
    BY DEF Message, EventTypes, Recover
  <2>2. Messages(Append(<<>>, Recover))
    BY <1>0, <2>1, MessagesGrow
  <2>3. Append(<<>>, Recover) = <<Recover>>
    OBVIOUS
  <2> QED
    BY <1>7, <2>2, <2>3 DEF RejoinStep, Fresh
<1>8. CASE UNCHANGED vars
  BY <1>8 DEF vars
<1> QED
  BY <1>1, <1>2, <1>3, <1>4, <1>5, <1>6, <1>7, <1>8 DEF Steps

LEMMA ConnectionStays ==
    ASSUME Base, Steps
    PROVE  Connected(page)'
<1> USE DEF Base
<1>1. CASE OperatorStep
  <2>1. page'.where = page.where /\ page'.entries = page.entries /\ page'.offline = page.offline
    BY <1>1 DEF OperatorStep, Typing, Sending, Requesting, Blurring, Guarding, Highlighting,
                Looking, Writes, PageFields, Entering, Painting, Drawing, Pointing
  <2>2. page.where = "details" /\ online' = online /\ down' = down /\ (~online => up' = up)
    BY <1>1 DEF OperatorStep, Typing, Sending, Requesting, Blurring, Guarding, Highlighting,
                Looking, Pushes
  <2>3. ~online => page'.apart \/ (page'.form = page.form /\ ~page.apart)
    <3>1. CASE Typing(page, page') \/ Sending(page, page')
      <4>1. CASE ~online /\ ~page'.apart
        <5>1. Sending(page, page') /\ page'.form = page.form /\ ~page.apart
          BY <3>1, <4>1 DEF Typing, Sending
        <5> QED
          BY <4>1, <5>1
      <4> QED
        BY <4>1
    <3>2. CASE ~(Typing(page, page') \/ Sending(page, page'))
      BY <1>1, <3>2 DEF OperatorStep, Requesting, Blurring, Guarding, Highlighting,
                Looking, Writes, PageFields, Pointing
    <3> QED
      BY <3>1, <3>2
  <2> QED
    BY <2>1, <2>2, <2>3 DEF Connected
<1>2. CASE LeaveStep
  BY <1>2 DEF LeaveStep, Connected, Writes, PageFields
<1>3. CASE ReturnStep
  BY <1>3 DEF ReturnStep, Connected
<1>4. CASE HandleStep
  BY <1>4 DEF HandleStep, Connected
<1>5. CASE DeliverStep
  <2>1. PICK b : Patched(page, Head(down), b) /\ Listening(b, Head(down).out, page')
    BY <1>5 DEF DeliverStep
  <2>2. b.where = page.where /\ b.entries = page.entries
    BY <2>1 DEF Patched, Writes, PageFields, Acking, Around, Drawing, PatchingForm, Painting
  <2>3. page'.entries = b.entries /\ (page'.where = b.where \/ page'.where = "elsewhere")
    BY <2>1 DEF Listening, Writes, PageFields
  <2> QED
    BY <1>5, <2>2, <2>3 DEF DeliverStep, Connected
<1>6. CASE OthersStep \/ UNCHANGED vars
  BY <1>6 DEF OthersStep, Connected, vars
<1>7. CASE DropStep
  <2>1. page'.form = page.form /\ page'.where = page.where
    BY <1>7 DEF DropStep, Writes, PageFields
  <2> QED
    BY <1>7, <2>1 DEF DropStep, Connected
<1>8. CASE RejoinStep
  <2>1. page'.where = page.where
    BY <1>8 DEF RejoinStep, Writes, PageFields, Around, Drawing, PatchingForm, Painting
  <2> QED
    BY <1>8, <2>1 DEF RejoinStep, Connected
<1> QED
  BY <1>1, <1>2, <1>3, <1>4, <1>5, <1>6, <1>7, <1>8 DEF Steps


LEMMA StartIsOpen ==
    ASSUME Init
    PROVE  /\ DbInv(db) /\ Fresh(srv) /\ srv.draft = db.values /\ ~srv.rejoined
           /\ Opened(srv, page) /\ up = <<>> /\ down = <<>> /\ online /\ others = 0
<1>1. /\ db = [values |-> Saved, rev |-> 1, map |-> 1, editor |-> TRUE]
      /\ srv = MountProcess /\ page = Mounted(View(MountProcess), FALSE)
      /\ up = <<>> /\ down = <<>> /\ online = TRUE /\ others = 0
  BY DEF Init
<1>2. IsForm(Saved)
  BY DEF IsForm, Saved, Fields
<1>3. DbInv(db)
  BY <1>1, <1>2 DEF DbInv, DbFields
<1> QED
  BY <1>1, <1>3, PageOpens

LEMMA BaseHolds ==
    Spec => []Base
<1>1. Init => Base
  <2> SUFFICES ASSUME Init
               PROVE  Base
    OBVIOUS
  <2>1. /\ DbInv(db) /\ Fresh(srv) /\ srv.draft = db.values
        /\ Opened(srv, page) /\ up = <<>> /\ down = <<>> /\ online /\ others = 0
    BY StartIsOpen
  <2>2. PageInv(page)
    BY <2>1, RouteAssumption DEF Opened, PageInv, DbInv
  <2>3. Messages(up) /\ AnswersIn(down)
    BY <2>1, NoneYet DEF Messages, AnswersIn
  <2>4. Connected(page)
    BY <2>1 DEF Connected, Opened
  <2> QED
    BY <2>1, <2>2, <2>3, <2>4 DEF Base, Fresh
<1>2. ASSUME Base, [Next]_vars
      PROVE  Base'
  <2>1. Steps
    BY <1>2, NextSteps
  <2>2. PageInv(page)' /\ Connected(page)'
    BY <1>2, <2>1, PageStays, ConnectionStays
  <2>3. /\ SrvInv(srv') /\ DbInv(db') /\ Messages(up') /\ AnswersIn(down') /\ others' \in Nat
    BY <1>2, <2>1, RestStays
  <2> QED
    BY <2>2, <2>3 DEF Base
<1> QED
  BY <1>1, <1>2, PTL DEF Spec

\* Whatever was pointed at, recolored, redrawn or switched on, each layer of the map
\* belongs to the payload, the highlight and the color of now.
THEOREM MapFollowsThePage == Spec => []MapIsCurrent
<1>1. Base => MapIsCurrent
  BY DEF Base, PageInv, MapInv, LinesInv, MarkersInv, ContextsInv, RowsInv, SwatchInv, MapIsCurrent
<1> QED
  BY <1>1, BaseHolds, PTL


-----------------------------------------------------------------------------
(* What a save compares with.  Every revision that the process, the page   *)
(* or a message holds belongs to one history of the route.                 *)

Read(H, d, rev, values) == rev \in 0 .. d.rev /\ values = H[rev]
Knows(H, d, known) == Read(H, d, known.rev, known.values)
ProcessReads(H, d, v) ==
    /\ Read(H, d, v.rev, v.base)
    /\ v.merge # None => Read(H, d, v.merge.rev, v.merge.current)
MessageReads(H, d, m) ==
    /\ m.type = "save" => Knows(H, d, m.x.known)
    /\ m.type \in Leavings => Knows(H, d, m.x)
AnswerReads(H, d, m) == m.w.known # None => Knows(H, d, m.w.known)
Reads(H) ==
    /\ Read(H, db, db.rev, db.values) /\ ProcessReads(H, db, srv) /\ Knows(H, db, page.known)
    /\ \A i \in 1 .. Len(up) : MessageReads(H, db, up[i])
    /\ \A i \in 1 .. Len(down) : AnswerReads(H, db, down[i])
ReadsInv == \E H : Reads(H)

LEMMA HistoryGrows ==
    ASSUME NEW H, NEW d, NEW e, DbInv(d), DbInv(e), Read(H, d, d.rev, d.values),
           (e.rev = d.rev /\ e.values = d.values) \/ e.rev = d.rev + 1
    PROVE  \E G : /\ Read(G, e, e.rev, e.values)
                  /\ \A rev, values : Read(H, d, rev, values) => Read(G, e, rev, values)
<1> DEFINE G == [n \in 0 .. e.rev |-> IF n = e.rev THEN e.values ELSE H[n]]
<1>1. e.rev \in Nat /\ d.rev \in Nat
  BY DEF DbInv
<1>2. Read(G, e, e.rev, e.values)
  BY <1>1 DEF Read
<1>3. ASSUME NEW rev, NEW values, Read(H, d, rev, values)
      PROVE  Read(G, e, rev, values)
  <2>1. rev \in 0 .. e.rev
    BY <1>1, <1>3 DEF Read
  <2>2. values = H[rev]
    BY <1>3 DEF Read
  <2>3. rev = e.rev => values = e.values
    BY <1>1, <1>3 DEF Read
  <2>4. G[rev] = IF rev = e.rev THEN e.values ELSE H[rev]
    BY <2>1
  <2>5. values = G[rev]
    BY <2>2, <2>3, <2>4
  <2> QED
    BY <2>1, <2>5 DEF Read
<1> HIDE DEF G
<1> QED
  BY <1>2, <1>3

LEMMA ViewReads ==
    ASSUME NEW H, NEW d, NEW v, ProcessReads(H, d, v), View(v).known # None
    PROVE  Knows(H, d, View(v).known)
<1>1. CASE v.merge # None
  BY <1>1 DEF View, Knows, ProcessReads
<1>2. CASE v.merge = None
  <2>1. View(v).known = IF Changed(v) = {} THEN [values |-> v.base, rev |-> v.rev] ELSE None
    BY <1>2 DEF View
  <2> QED
    BY <2>1 DEF Knows, ProcessReads
<1> QED
  BY <1>1, <1>2

LEMMA FreshReads ==
    ASSUME NEW H, NEW v, Fresh(v), Read(H, db, db.rev, db.values)
    PROVE  ProcessReads(H, db, v)
BY DEF Fresh, ProcessReads

LEMMA QueueReads ==
    ASSUME NEW H, NEW d, NEW q, Messages(q), NEW m, MessageReads(H, d, m),
           \A i \in 1 .. Len(q) : MessageReads(H, d, q[i])
    PROVE  \A i \in 1 .. Len(Append(q, m)) : MessageReads(H, d, Append(q, m)[i])
<1>1. /\ Len(Append(q, m)) = Len(q) + 1 /\ Len(q) \in Nat
      /\ \A i \in 1 .. Len(q) : Append(q, m)[i] = q[i]
      /\ Append(q, m)[Len(q) + 1] = m
  BY OneMore DEF Messages
<1>2. ASSUME NEW i \in 1 .. Len(Append(q, m))
      PROVE  MessageReads(H, d, Append(q, m)[i])
  <2>1. i \in 1 .. Len(q) \/ i = Len(q) + 1
    BY <1>1
  <2> QED
    BY <1>1, <2>1
<1> QED
  BY <1>2

LEMMA OperatorReads ==
    ASSUME Base, NEW H, Reads(H), OperatorStep
    PROVE  Reads(H)'
<1>1. page'.known = page.known
  BY DEF OperatorStep, Typing, Sending, Requesting, Blurring, Guarding, Highlighting,
         Looking, Writes, PageFields, Entering, Painting, Drawing, Pointing
<1>2. ASSUME NEW m, MessageReads(H, db, m), Pushes(m)
      PROVE  \A i \in 1 .. Len(up') : MessageReads(H, db, up'[i])
  <2>1. \A i \in 1 .. Len(Append(up, m)) : MessageReads(H, db, Append(up, m)[i])
    BY <1>2, QueueReads DEF Base, Reads
  <2>2. up' = up \/ up' = Append(up, m)
    BY <1>2 DEF Pushes
  <2> QED
    BY <2>1, <2>2 DEF Reads
<1>3. \A i \in 1 .. Len(up') : MessageReads(H, db, up'[i])
  <2>1. CASE up' = up
    BY <2>1 DEF Reads
  <2>2. CASE Sending(page, page')
    <3>1. MessageReads(H, db, [type |-> "validate", x |-> page'.form])
      BY DEF MessageReads, Leavings
    <3> QED
      BY <1>2, <2>2, <3>1 DEF Sending
  <2>3. ASSUME NEW m, Requesting(page, page', m)
        PROVE  \A i \in 1 .. Len(up') : MessageReads(H, db, up'[i])
    <3>1. Knows(H, db, page.known)
      BY DEF Reads
    <3>2. Request(page, page', m) /\ Pushes(m)
      BY <2>3 DEF Requesting
    <3>3. MessageReads(H, db, m)
      <4>1. CASE m = [type |-> "save", x |-> m.x] /\ m.x.known = page.known
        <5>1. m.type = "save"
          BY <4>1
        <5> QED
          BY <3>1, <4>1, <5>1 DEF MessageReads, Leavings
      <4>2. CASE m.type \in {"discard", "context_more", "context_retry", "discard_merge"}
        BY <4>2 DEF MessageReads, Leavings
      <4>3. CASE m.type \in Leavings /\ m.x = page.known
        BY <3>1, <4>3 DEF MessageReads, Leavings
      <4> QED
        BY <3>2, <4>1, <4>2, <4>3 DEF Request
    <3> QED
      BY <1>2, <3>2, <3>3
  <2>4. CASE Guarding(page, page')
    <3>1. MessageReads(H, db, Guard)
      BY DEF MessageReads, Guard, Leavings
    <3> QED
      BY <1>2, <2>4, <3>1 DEF Guarding
  <2>5. CASE Looking(page, page')
    <3>1. MessageReads(H, db, Off) /\ MessageReads(H, db, On(page'.view))
      BY DEF MessageReads, Off, On, Leavings
    <3> QED
      BY <1>2, <2>1, <2>5, <3>1 DEF Looking
  <2> QED
    BY <2>1, <2>2, <2>3, <2>4, <2>5 DEF OperatorStep, Typing, Blurring, Highlighting
<1> QED
  BY <1>1, <1>3 DEF OperatorStep, Reads


\* What was read of the route stays in the history when the route is saved.
LEMMA ReadsGrow ==
    ASSUME Base, DbInv(db'), NEW H, Reads(H),
           (db'.rev = db.rev /\ db'.values = db.values) \/ db'.rev = db.rev + 1
    PROVE  \E G : /\ Read(G, db', db'.rev, db'.values) /\ ProcessReads(G, db', srv)
                  /\ Knows(G, db', page.known)
                  /\ \A i \in 1 .. Len(up) : MessageReads(G, db', up[i])
                  /\ \A i \in 1 .. Len(down) : AnswerReads(G, db', down[i])
<1>1. PICK G : /\ Read(G, db', db'.rev, db'.values)
               /\ \A rev, values : Read(H, db, rev, values) => Read(G, db', rev, values)
  BY HistoryGrows DEF Base, Reads
<1>2. ProcessReads(G, db', srv) /\ Knows(G, db', page.known)
  BY <1>1 DEF Reads, ProcessReads, Knows
<1>3. \A i \in 1 .. Len(up) : MessageReads(G, db', up[i])
  BY <1>1 DEF Reads, MessageReads, Knows
<1>4. \A i \in 1 .. Len(down) : AnswerReads(G, db', down[i])
  BY <1>1 DEF Reads, AnswerReads, Knows
<1> QED
  BY <1>1, <1>2, <1>3, <1>4

LEMMA HandleReads ==
    ASSUME Base, ReadsInv, HandleStep
    PROVE  ReadsInv'
<1> DEFINE type == Head(up).type
           x == Head(up).x
<1>1. PICK H : Reads(H)
  BY DEF ReadsInv
<1>2. DbInv(db') /\ ((db'.rev = db.rev /\ db'.values = db.values) \/ db'.rev = db.rev + 1)
  BY DEF HandleStep, Stores
<1>3. PICK G : /\ Read(G, db', db'.rev, db'.values) /\ ProcessReads(G, db', srv)
               /\ Knows(G, db', page.known)
               /\ \A i \in 1 .. Len(up) : MessageReads(G, db', up[i])
               /\ \A i \in 1 .. Len(down) : AnswerReads(G, db', down[i])
  BY <1>1, <1>2, ReadsGrow
<1>4. LoadedFrom(srv, srv', db')
  BY DEF HandleStep, Handled
<1>5. ProcessReads(G, db', srv')
  <2>1. Read(G, db', srv'.rev, srv'.base)
    BY <1>3, <1>4 DEF LoadedFrom, ProcessReads
  <2>2. srv'.merge # None => Read(G, db', srv'.merge.rev, srv'.merge.current)
    BY <1>3, <1>4 DEF LoadedFrom, ProcessReads
  <2> QED
    BY <2>1, <2>2 DEF ProcessReads
<1>6. \A i \in 1 .. Len(up') : MessageReads(G, db', up'[i])
  <2>1. /\ up' = Tail(up) /\ Len(up) \in Nat /\ Len(Tail(up)) = Len(up) - 1
        /\ \A i \in 1 .. Len(up) - 1 : Tail(up)[i] = up[i + 1]
    BY OneLess DEF HandleStep, Base, Messages
  <2>2. \A i \in 1 .. Len(up) - 1 : i + 1 \in 1 .. Len(up)
    BY <2>1
  <2> QED
    BY <1>3, <2>1, <2>2
<1>7. \A i \in 1 .. Len(down') : AnswerReads(G, db', down'[i])
  <2> DEFINE m == AnswerTo(type, srv')
  <2>1. /\ down' = Append(down, m) /\ Len(Append(down, m)) = Len(down) + 1 /\ Len(down) \in Nat
        /\ \A i \in 1 .. Len(down) : Append(down, m)[i] = down[i]
        /\ Append(down, m)[Len(down) + 1] = m
    BY OneMore DEF HandleStep, Base, AnswersIn
  <2>2. AnswerReads(G, db', m)
    BY <1>5, ViewReads DEF AnswerReads, AnswerTo
  <2> HIDE DEF m
  <2>3. ASSUME NEW i \in 1 .. Len(down')
        PROVE  AnswerReads(G, db', down'[i])
    <3>1. i \in 1 .. Len(down) \/ i = Len(down) + 1
      BY <2>1
    <3> QED
      BY <1>3, <2>1, <2>2, <3>1
  <2> QED
    BY <2>3
<1>8. page' = page
  BY DEF HandleStep
<1> QED
  BY <1>3, <1>5, <1>6, <1>7, <1>8 DEF ReadsInv, Reads

LEMMA KnownReads ==
    ASSUME NEW H, NEW d, NEW known, NEW p, NEW w, KnownPatched(known, p, w),
           Knows(H, d, p.known), w.known # None => Knows(H, d, w.known)
    PROVE  Knows(H, d, known)
<1>1. known = p.known \/ (w.known # None /\ known = w.known)
  BY DEF KnownPatched
<1> QED
  BY <1>1

LEMMA DeliverReads ==
    ASSUME Base, NEW H, Reads(H), DeliverStep
    PROVE  Reads(H)'
<1>1. /\ down # <<>> /\ Len(Tail(down)) = Len(down) - 1 /\ Len(down) \in Nat /\ Len(down) >= 1
      /\ \A i \in 1 .. Len(down) - 1 : Tail(down)[i] = down[i + 1]
      /\ Head(down) = down[1]
  BY OneLess DEF DeliverStep, Base, AnswersIn
<1>2. AnswerReads(H, db, Head(down))
  BY <1>1 DEF Reads
<1>3. PICK b : Patched(page, Head(down), b) /\ Listening(b, Head(down).out, page')
  BY DEF DeliverStep
<1>4. page'.known = b.known
  BY <1>3, ListeningKeeps DEF Writes, PageFields
<1>5. Knows(H, db, b.known)
  <2>1. CASE Locked
    BY <1>3, <2>1 DEF Patched, Writes, PageFields, Acking, Around, Drawing, Reads
  <2>2. CASE ~Locked
    <3>1. KnownPatched(b.known, page, Head(down).w)
      BY <1>3, <2>2 DEF Patched
    <3> QED
      BY <1>2, <3>1, KnownReads DEF Reads, AnswerReads
  <2> QED
    BY <2>1, <2>2
<1>6. /\ \A i \in 1 .. Len(up') : MessageReads(H, db, up'[i])
      /\ \A i \in 1 .. Len(down') : AnswerReads(H, db, down'[i])
  <2>1. CASE page'.where = "elsewhere"
    BY <2>1, NoneYet DEF DeliverStep
  <2>2. CASE page'.where # "elsewhere"
    <3>1. up' = up /\ down' = Tail(down)
      BY <2>2 DEF DeliverStep
    <3>2. \A i \in 1 .. Len(down) - 1 : i + 1 \in 1 .. Len(down)
      BY <1>1
    <3> QED
      BY <1>1, <3>1, <3>2 DEF Reads
  <2> QED
    BY <2>1, <2>2
<1> QED
  BY <1>4, <1>5, <1>6 DEF DeliverStep, Reads

LEMMA ReadsStay ==
    ASSUME Base, ReadsInv, Steps
    PROVE  ReadsInv'
<1>1. PICK H : Reads(H)
  BY DEF ReadsInv
<1>2. CASE OperatorStep
  BY <1>1, <1>2, OperatorReads DEF ReadsInv
<1>3. CASE LeaveStep \/ DropStep
  <2>1. page'.known = page.known
    BY <1>3 DEF LeaveStep, DropStep, Writes, PageFields
  <2> QED
    BY <1>1, <1>3, <2>1, NoneYet DEF LeaveStep, DropStep, ReadsInv, Reads
<1>4. CASE ReturnStep
  <2>1. ProcessReads(H, db, srv')
    BY <1>1, <1>4, FreshReads DEF ReturnStep, Reads
  <2>2. Knows(H, db, page'.known)
    BY <1>1, <1>4 DEF ReturnStep, Reads, Knows
  <2> QED
    BY <1>1, <1>4, <2>1, <2>2 DEF ReturnStep, ReadsInv, Reads
<1>5. CASE HandleStep
  BY <1>5, HandleReads
<1>6. CASE DeliverStep
  BY <1>1, <1>6, DeliverReads DEF ReadsInv
<1>7. CASE OthersStep
  <2>1. DbInv(db') /\ ((db'.rev = db.rev /\ db'.values = db.values) \/ db'.rev = db.rev + 1)
    BY <1>7 DEF OthersStep
  <2>2. PICK G : /\ Read(G, db', db'.rev, db'.values) /\ ProcessReads(G, db', srv)
                 /\ Knows(G, db', page.known)
                 /\ \A i \in 1 .. Len(up) : MessageReads(G, db', up[i])
                 /\ \A i \in 1 .. Len(down) : AnswerReads(G, db', down[i])
    BY <1>1, <2>1, ReadsGrow
  <2> QED
    BY <1>7, <2>2 DEF OthersStep, ReadsInv, Reads
<1>8. CASE RejoinStep
  <2>1. ProcessReads(H, db, srv')
    BY <1>1, <1>8, FreshReads DEF RejoinStep, Reads
  <2>2. View(srv').known # None => Knows(H, db, View(srv').known)
    BY <2>1, ViewReads
  <2>3. Knows(H, db, page'.known)
    BY <1>1, <1>8, <2>2, KnownReads DEF RejoinStep, Reads
  <2>4. up' = <<Recover>> /\ down' = down /\ db' = db
    BY <1>8 DEF RejoinStep
  <2>5. MessageReads(H, db, Recover)
    BY DEF MessageReads, Recover, Leavings
  <2>6. \A i \in 1 .. Len(up') : MessageReads(H, db, up'[i])
    BY <2>4, <2>5
  <2> QED
    BY <1>1, <2>1, <2>3, <2>4, <2>6 DEF ReadsInv, Reads
<1>9. CASE UNCHANGED vars
  BY <1>1, <1>9 DEF vars, ReadsInv, Reads
<1> QED
  BY <1>2, <1>3, <1>4, <1>5, <1>6, <1>7, <1>8, <1>9 DEF Steps

LEMMA ReadsHold ==
    Spec => []ReadsInv
<1>1. Init => ReadsInv
  <2> SUFFICES ASSUME Init
               PROVE  ReadsInv
    OBVIOUS
  <2>1. /\ DbInv(db) /\ Fresh(srv) /\ Opened(srv, page) /\ up = <<>> /\ down = <<>>
    BY StartIsOpen
  <2> DEFINE H == [n \in Nat |-> db.values]
  <2>2. Read(H, db, db.rev, db.values)
    BY <2>1 DEF Read, DbInv
  <2> HIDE DEF H
  <2>3. ProcessReads(H, db, srv)
    BY <2>1, <2>2, FreshReads
  <2>4. Knows(H, db, page.known)
    BY <2>1, <2>2 DEF Knows, Opened
  <2> QED
    BY <2>1, <2>2, <2>3, <2>4, NoneYet DEF ReadsInv, Reads
<1>2. ASSUME Base, ReadsInv, [Next]_vars
      PROVE  ReadsInv'
  BY <1>2, NextSteps, ReadsStay
<1> QED
  BY <1>1, <1>2, BaseHolds, PTL DEF Spec

\* A save of the process replaces only values of the route as it was loaded, or of
\* the comparison that the page displayed.
THEOREM SavesReplaceWhatWasShown == Spec => SavesKeepOthers
<1> DEFINE A == db' # db /\ others' = others /\ ~srv.rejoined /\ Shown.rev = Compared(srv)
                  => ReplacesWhatWasShown
<1>1. ASSUME Base, ReadsInv, [Next]_vars
      PROVE  A
  <2> SUFFICES ASSUME db' # db, others' = others, Shown.rev = Compared(srv),
                      NEW f \in Fields, db'.values[f] # db.values[f]
               PROVE  db.values[f] \in {Shown.values[f], srv.base[f]}
    BY DEF ReplacesWhatWasShown
  <2>1. Steps
    BY <1>1, NextSteps
  <2>2. HandleStep
    BY <1>1, <2>1 DEF Steps, OperatorStep, LeaveStep, ReturnStep, DeliverStep, OthersStep, DropStep,
                      RejoinStep, vars, Base
  <2>3. PICK H : Reads(H)
    BY <1>1 DEF ReadsInv
  <2>4. Head(up).type = "save" \/ Head(up).type \in Leavings
    BY <2>2 DEF HandleStep, Stores, Leavings
  <2>5. MessageReads(H, db, Head(up))
    <3>1. 1 \in 1 .. Len(up) /\ Head(up) = up[1]
      BY <1>1, <2>2, OneLess DEF HandleStep, Base, Messages
    <3> QED
      BY <2>3, <3>1 DEF Reads
  <2>6. Knows(H, db, Shown)
    BY <2>4, <2>5 DEF MessageReads, Shown, Leavings
  <2>7. db.values[f] = srv.base[f] \/ (srv.merge # None /\ srv.merge.rev = db.rev)
    BY <2>2 DEF HandleStep, Stores
  <2>8. ASSUME srv.merge # None, srv.merge.rev = db.rev
        PROVE  db.values[f] = Shown.values[f]
    <3>1. Shown.rev = db.rev
      BY <2>8 DEF Compared
    <3> QED
      BY <2>3, <2>6, <3>1 DEF Reads, Read, Knows
  <2> QED
    BY <2>7, <2>8
<1>2. ASSUME Base, ReadsInv, [Next]_vars
      PROVE  [A]_vars
  BY <1>1, <1>2
<1>3. [][A]_vars => SavesKeepOthers
  BY DEF SavesKeepOthers
<1> QED
  BY <1>2, <1>3, BaseHolds, ReadsHold, PTL DEF Spec


-----------------------------------------------------------------------------
(* The last answer on its way shows the process as it is.                  *)

ShownLast == down # <<>> => down[Len(down)].w = View(srv)
DataInv == page.where = "details" /\ online /\ down = <<>> => page.data = View(srv).data

LEMMA LastIsShown ==
    ASSUME AnswersIn(down), ShownLast, down # <<>>, Tail(down) = <<>>
    PROVE  Head(down).w = View(srv)
BY OneLess DEF AnswersIn, ShownLast

LEMMA ShownStays ==
    ASSUME Base, ShownLast, Steps
    PROVE  ShownLast'
<1>1. CASE OperatorStep \/ OthersStep \/ UNCHANGED vars
  BY <1>1 DEF OperatorStep, OthersStep, vars, ShownLast
<1>2. CASE LeaveStep \/ DropStep
  BY <1>2 DEF LeaveStep, DropStep, ShownLast
<1>3. CASE ReturnStep \/ RejoinStep
  <2>1. down = <<>> /\ down' = down
    BY <1>3 DEF ReturnStep, RejoinStep, Base, Connected
  <2> QED
    BY <2>1 DEF ShownLast
<1>4. CASE HandleStep
  <2> DEFINE m == AnswerTo(Head(up).type, srv')
  <2>1. down' = Append(down, m)
    BY <1>4 DEF HandleStep
  <2>2. m.w = View(srv')
    BY DEF AnswerTo
  <2> HIDE DEF m
  <2>3. Len(Append(down, m)) = Len(down) + 1 /\ Append(down, m)[Len(down) + 1] = m
    BY OneMore DEF Base, AnswersIn
  <2> QED
    BY <2>1, <2>2, <2>3 DEF ShownLast
<1>5. CASE DeliverStep
  <2>1. srv' = srv
    BY <1>5 DEF DeliverStep
  <2>2. CASE page'.where = "elsewhere"
    BY <1>5, <2>2 DEF DeliverStep, ShownLast
  <2>3. CASE page'.where # "elsewhere" /\ Tail(down) # <<>>
    <3>1. /\ IsSeq(Tail(down)) /\ down # <<>> /\ Len(Tail(down)) = Len(down) - 1 /\ Len(down) \in Nat
          /\ \A i \in 1 .. Len(down) - 1 : Tail(down)[i] = down[i + 1]
          /\ (Tail(down) = <<>> <=> Len(down) = 1)
      BY <1>5, OneLess DEF DeliverStep, Base, AnswersIn
    <3>2. Tail(down)[Len(Tail(down))] = down[Len(down)]
      <4>1. Len(down) - 1 \in 1 .. Len(down) - 1
        BY <2>3, <3>1, OneLess DEF Base, AnswersIn
      <4> QED
        BY <3>1, <4>1
    <3> QED
      BY <1>5, <2>1, <2>3, <3>1, <3>2 DEF DeliverStep, ShownLast
  <2>4. CASE page'.where # "elsewhere" /\ Tail(down) = <<>>
    BY <1>5, <2>4 DEF DeliverStep, ShownLast
  <2> QED
    BY <2>2, <2>3, <2>4
<1> QED
  BY <1>1, <1>2, <1>3, <1>4, <1>5 DEF Steps

LEMMA DataStays ==
    ASSUME Base, ShownLast, DataInv, Steps
    PROVE  DataInv'
<1>1. CASE OperatorStep
  <2>1. page'.data = page.data
    BY <1>1 DEF OperatorStep, Typing, Sending, Requesting, Blurring, Guarding, Highlighting,
                Looking, Writes, PageFields, Entering, Painting, Drawing, Pointing
  <2> QED
    BY <1>1, <2>1 DEF OperatorStep, DataInv
<1>2. CASE LeaveStep \/ DropStep
  BY <1>2 DEF LeaveStep, DropStep, DataInv
<1>3. CASE ReturnStep \/ RejoinStep
  BY <1>3 DEF ReturnStep, RejoinStep, DataInv
<1>4. CASE HandleStep
  <2>1. down' # <<>>
    BY <1>4, OneMore DEF HandleStep, Base, AnswersIn
  <2> QED
    BY <2>1 DEF DataInv
<1>5. CASE DeliverStep
  <2> SUFFICES ASSUME page'.where = "details", down' = <<>>
               PROVE  page'.data = View(srv).data
    BY <1>5 DEF DeliverStep, DataInv
  <2>1. down # <<>> /\ Tail(down) = <<>>
    BY <1>5 DEF DeliverStep
  <2>2. Head(down).w = View(srv)
    BY <2>1, LastIsShown DEF Base
  <2>3. PICK b : Patched(page, Head(down), b) /\ Listening(b, Head(down).out, page')
    BY <1>5 DEF DeliverStep
  <2>4. page'.data = b.data
    BY <2>3, ListeningKeeps DEF Writes, PageFields
  <2> QED
    BY <2>2, <2>3, <2>4 DEF Patched
<1>6. CASE OthersStep \/ UNCHANGED vars
  BY <1>6 DEF OthersStep, vars, DataInv
<1> QED
  BY <1>1, <1>2, <1>3, <1>4, <1>5, <1>6 DEF Steps

LEMMA ViewsHold ==
    Spec => [](ShownLast /\ DataInv)
<1>1. Init => ShownLast /\ DataInv
  BY StartIsOpen DEF ShownLast, DataInv, Opened
<1>2. ASSUME Base, ShownLast /\ DataInv, [Next]_vars
      PROVE  (ShownLast /\ DataInv)'
  BY <1>2, NextSteps, ShownStays, DataStays
<1> QED
  BY <1>1, <1>2, BaseHolds, PTL DEF Spec

-----------------------------------------------------------------------------
(* The other routes.  The last of the requests on their way is for the     *)
(* bounds that the page asked for last.                                    *)

NoAsk(q) == \A i \in 1 .. Len(q) : q[i].type \notin Asking
AsksLast(q, i) ==
    i \in 1 .. Len(q) /\ q[i].type \in Asking /\ \A j \in i + 1 .. Len(q) : q[j].type \notin Asking
AskedFor(p, m) ==
    /\ m.type = "context_on" => p.last = m.x
    /\ m.type = "context_off" => p.last = None
Settled ==
    /\ page.last = None <=> ~srv.show
    /\ ~srv.missed => srv.bounds = page.last
    /\ down = <<>> => page.toggle = srv.show
ContextInv ==
    page.where = "details" /\ online /\ ~srv.rejoined =>
      /\ NoAsk(up) => Settled
      /\ \A i : AsksLast(up, i) => AskedFor(page, up[i])

LEMMA AsksGrow ==
    ASSUME NEW q, Messages(q), NEW m
    PROVE  /\ m.type \notin Asking =>
                /\ NoAsk(Append(q, m)) => NoAsk(q)
                /\ \A i : AsksLast(Append(q, m), i) => AsksLast(q, i) /\ Append(q, m)[i] = q[i]
           /\ m.type \in Asking =>
                /\ ~NoAsk(Append(q, m))
                /\ \A i : AsksLast(Append(q, m), i) => Append(q, m)[i] = m
<1> DEFINE o == Append(q, m)
<1>1. /\ Len(o) = Len(q) + 1 /\ Len(q) \in Nat
      /\ \A i \in 1 .. Len(q) : o[i] = q[i]
      /\ o[Len(q) + 1] = m
  BY OneMore DEF Messages
<1> HIDE DEF o
<1>2. ASSUME m.type \notin Asking
      PROVE  /\ NoAsk(o) => NoAsk(q)
             /\ \A i : AsksLast(o, i) => AsksLast(q, i) /\ o[i] = q[i]
  <2>1. ASSUME NEW i, AsksLast(o, i)
        PROVE  AsksLast(q, i) /\ o[i] = q[i]
    <3>1. i \in 1 .. Len(q) /\ o[i] = q[i] /\ q[i].type \in Asking
      BY <1>1, <1>2, <2>1 DEF AsksLast
    <3>2. \A j \in i + 1 .. Len(q) : o[j] = q[j] /\ j \in i + 1 .. Len(o)
      BY <1>1, <3>1
    <3> QED
      BY <2>1, <3>1, <3>2 DEF AsksLast
  <2> QED
    BY <1>1, <2>1 DEF NoAsk
<1>3. ASSUME m.type \in Asking
      PROVE  /\ ~NoAsk(o)
             /\ \A i : AsksLast(o, i) => o[i] = m
  <2>1. ASSUME NEW i, AsksLast(o, i)
        PROVE  o[i] = m
    <3>1. i \in 1 .. Len(o)
      BY <2>1 DEF AsksLast
    <3>2. CASE i < Len(q) + 1
      <4>1. Len(q) + 1 \in i + 1 .. Len(o)
        BY <1>1, <3>1, <3>2
      <4> QED
        BY <1>1, <1>3, <2>1, <4>1 DEF AsksLast
    <3> QED
      BY <1>1, <3>1, <3>2
  <2> QED
    BY <1>1, <1>3, <2>1 DEF NoAsk
<1> QED
  BY <1>2, <1>3 DEF o

LEMMA AsksShrink ==
    ASSUME NEW q, Messages(q), q # <<>>
    PROVE  /\ NoAsk(Tail(q)) /\ Head(q).type \notin Asking => NoAsk(q)
           /\ NoAsk(Tail(q)) /\ Head(q).type \in Asking => AsksLast(q, 1)
           /\ \A i : AsksLast(Tail(q), i) => AsksLast(q, i + 1) /\ Tail(q)[i] = q[i + 1]
           /\ q[1] = Head(q)
<1> DEFINE o == Tail(q)
<1>1. /\ Len(q) \in Nat /\ Len(q) >= 1 /\ Len(o) = Len(q) - 1 /\ Head(q) = q[1]
      /\ \A i \in 1 .. Len(q) - 1 : o[i] = q[i + 1]
  BY OneLess DEF Messages
<1> HIDE DEF o
<1>2. \A i \in 2 .. Len(q) : i - 1 \in 1 .. Len(o) /\ o[i - 1] = q[i]
  BY <1>1
<1>3. NoAsk(o) => \A i \in 2 .. Len(q) : q[i].type \notin Asking
  BY <1>2 DEF NoAsk
<1>4. NoAsk(o) /\ Head(q).type \notin Asking => NoAsk(q)
  BY <1>1, <1>3 DEF NoAsk
<1>5. NoAsk(o) /\ Head(q).type \in Asking => AsksLast(q, 1)
  BY <1>1, <1>3 DEF AsksLast
<1>6. ASSUME NEW i, AsksLast(o, i)
      PROVE  AsksLast(q, i + 1) /\ o[i] = q[i + 1]
  <2>1. i \in 1 .. Len(q) - 1 /\ o[i] = q[i + 1] /\ q[i + 1].type \in Asking /\ i + 1 \in 1 .. Len(q)
    BY <1>1, <1>6 DEF AsksLast
  <2>2. ASSUME NEW j \in (i + 1) + 1 .. Len(q)
        PROVE  q[j].type \notin Asking
    <3>1. j \in 2 .. Len(q) /\ j - 1 \in i + 1 .. Len(o)
      BY <1>1, <2>1
    <3> QED
      BY <1>2, <1>6, <3>1 DEF AsksLast
  <2> QED
    BY <2>1, <2>2 DEF AsksLast
<1> QED
  BY <1>1, <1>4, <1>5, <1>6 DEF o


LEMMA PushKeepsAsks ==
    ASSUME Messages(up), NEW m, Pushes(m), online
    PROVE  /\ m.type \notin Asking =>
                /\ NoAsk(up') => NoAsk(up)
                /\ \A i : AsksLast(up', i) => AsksLast(up, i) /\ up'[i] = up[i]
           /\ m.type \in Asking =>
                /\ ~NoAsk(up')
                /\ \A i : AsksLast(up', i) => up'[i] = m
<1>1. up' = Append(up, m)
  BY DEF Pushes
<1>2. m.type \notin Asking =>
        /\ NoAsk(Append(up, m)) => NoAsk(up)
        /\ \A i : AsksLast(Append(up, m), i) => AsksLast(up, i) /\ Append(up, m)[i] = up[i]
  BY AsksGrow
<1>3. m.type \in Asking =>
        /\ ~NoAsk(Append(up, m))
        /\ \A i : AsksLast(Append(up, m), i) => Append(up, m)[i] = m
  BY AsksGrow
<1> DEFINE o == Append(up, m)
<1> HIDE DEF o
<1>4. m.type \notin Asking =>
        /\ NoAsk(o) => NoAsk(up)
        /\ \A i : AsksLast(o, i) => AsksLast(up, i) /\ o[i] = up[i]
  BY <1>2 DEF o
<1>5. m.type \in Asking => ~NoAsk(o) /\ \A i : AsksLast(o, i) => o[i] = m
  BY <1>3 DEF o
<1>6. up' = o
  BY <1>1 DEF o
<1> QED
  BY <1>4, <1>5, <1>6

\* A step that asks for no bounds.
LEMMA ContextKept ==
    ASSUME Base, ContextInv, page.where = "details", page'.last = page.last, page'.toggle = page.toggle,
           online' = online, UNCHANGED <<srv, down>>,
           up' = up \/ (\E m : Pushes(m) /\ m.type \notin Asking)
    PROVE  ContextInv'
<1> SUFFICES ASSUME online, ~srv.rejoined
             PROVE  /\ NoAsk(up') => Settled'
                    /\ \A i : AsksLast(up', i) => AskedFor(page', up'[i])
  BY DEF ContextInv
<1>1. /\ NoAsk(up') => NoAsk(up)
      /\ \A i : AsksLast(up', i) => AsksLast(up, i) /\ up'[i] = up[i]
  BY PushKeepsAsks DEF Base
<1>2. /\ NoAsk(up) => Settled
      /\ \A i : AsksLast(up, i) => AskedFor(page, up[i])
  BY DEF ContextInv
<1>3. NoAsk(up') => Settled'
  BY <1>1, <1>2 DEF Settled
<1>4. \A i : AsksLast(up', i) => AskedFor(page', up'[i])
  BY <1>1, <1>2 DEF AskedFor
<1> QED
  BY <1>3, <1>4

LEMMA LookingAsks ==
    ASSUME Base, ContextInv, page.where = "details", Looking(page, page'),
           online' = online, UNCHANGED <<srv, down>>
    PROVE  ContextInv'
<1> SUFFICES ASSUME online, ~srv.rejoined
             PROVE  /\ NoAsk(up') => Settled'
                    /\ \A i : AsksLast(up', i) => AskedFor(page', up'[i])
  BY DEF ContextInv
<1>0. /\ NoAsk(up) => Settled
      /\ \A i : AsksLast(up, i) => AskedFor(page, up[i])
  BY DEF ContextInv
<1>1. CASE page'.toggle /\ page'.last = page'.view /\ page'.view # page.last
  <2>1. Pushes(On(page'.view))
    BY <1>1 DEF Looking, Base, PageInv
  <2>2. On(page'.view).type \in Asking
    BY DEF On, Asking
  <2>3. ~NoAsk(up') /\ \A i : AsksLast(up', i) => up'[i] = On(page'.view)
    BY <2>1, <2>2, PushKeepsAsks DEF Base
  <2>4. AskedFor(page', On(page'.view))
    BY <1>1 DEF AskedFor, On
  <2> QED
    BY <2>3, <2>4
<1>2. CASE /\ page'.toggle /\ page'.last = page'.view /\ page'.view = page.last
           /\ page'.focus = "toggle" \/ (page'.focus = page.focus /\ page'.toggle = page.toggle)
           /\ up' = up
  <2>1. page'.last = page.last /\ page.last # None
    BY <1>2 DEF Looking
  <2>2. NoAsk(up) => page'.toggle = srv.show
    <3>1. page'.toggle \in BOOLEAN /\ srv.show \in BOOLEAN
      BY DEF Looking, Base, SrvInv
    <3> QED
      BY <1>0, <1>2, <2>1, <3>1 DEF Settled
  <2> QED
    BY <1>0, <1>2, <2>1, <2>2 DEF Settled, AskedFor
<1>3. CASE page'.last = None /\ Pushes(Off)
  <2>1. Off.type \in Asking
    BY DEF Off, Asking
  <2>2. ~NoAsk(up') /\ \A i : AsksLast(up', i) => up'[i] = Off
    BY <1>3, <2>1, PushKeepsAsks DEF Base
  <2>3. AskedFor(page', Off)
    BY <1>3 DEF AskedFor, Off
  <2> QED
    BY <2>2, <2>3
<1>4. CASE page'.toggle = page.toggle /\ page'.last = page.last /\ up' = up
  BY <1>0, <1>4 DEF Settled, AskedFor
<1> QED
  BY <1>1, <1>2, <1>3, <1>4 DEF Looking

LEMMA HandleSettles ==
    ASSUME Base, ContextInv, HandleStep
    PROVE  ContextInv'
<1> DEFINE type == Head(up).type
           x == Head(up).x
<1> SUFFICES ASSUME page.where = "details", online, ~srv.rejoined
             PROVE  /\ NoAsk(up') => Settled'
                    /\ \A i : AsksLast(up', i) => AskedFor(page', up'[i])
  BY DEF ContextInv, HandleStep, Handled
<1>0. /\ NoAsk(up) => Settled
      /\ \A i : AsksLast(up, i) => AskedFor(page, up[i])
  BY DEF ContextInv
<1>1. /\ NoAsk(Tail(up)) /\ type \notin Asking => NoAsk(up)
      /\ NoAsk(Tail(up)) /\ type \in Asking => AsksLast(up, 1)
      /\ \A i : AsksLast(Tail(up), i) => AsksLast(up, i + 1) /\ Tail(up)[i] = up[i + 1]
      /\ up[1] = Head(up)
  BY AsksShrink DEF HandleStep, Base
<1>2. up' = Tail(up) /\ page' = page /\ ContextHandled(type, x, srv, srv')
  BY DEF HandleStep, Handled
<1>3. down' # <<>>
  BY OneMore DEF HandleStep, Base, AnswersIn
<1>4. \A i : AsksLast(up', i) => AskedFor(page', up'[i])
  BY <1>0, <1>1, <1>2
<1>5. ASSUME NoAsk(up')
      PROVE  Settled'
  <2>1. CASE type \notin Asking
    BY <1>0, <1>1, <1>2, <1>3, <1>5, <2>1 DEF Settled, ContextHandled
  <2>2. CASE type = "context_on"
    <3>1. AskedFor(page, Head(up))
      BY <1>0, <1>1, <1>2, <1>5, <2>2 DEF Asking
    <3>2. page.last = x /\ x # None
      BY <2>2, <3>1, FirstMessage DEF AskedFor, HandleStep, Base, Message
    <3> QED
      BY <1>2, <1>3, <2>2, <3>2 DEF Settled, ContextHandled
  <2>3. CASE type = "context_off"
    <3>1. AskedFor(page, Head(up))
      BY <1>0, <1>1, <1>2, <1>5, <2>3 DEF Asking
    <3> QED
      BY <1>2, <1>3, <2>3, <3>1 DEF Settled, ContextHandled, AskedFor
  <2> QED
    BY <2>1, <2>2, <2>3 DEF Asking
<1> QED
  BY <1>4, <1>5

LEMMA DeliverSettles ==
    ASSUME Base, ShownLast, ContextInv, DeliverStep
    PROVE  ContextInv'
<1> SUFFICES ASSUME page'.where = "details", online, ~srv.rejoined
             PROVE  /\ NoAsk(up') => Settled'
                    /\ \A i : AsksLast(up', i) => AskedFor(page', up'[i])
  BY DEF ContextInv, DeliverStep
<1>1. PICK b : Patched(page, Head(down), b) /\ Listening(b, Head(down).out, page')
  BY DEF DeliverStep
<1>2. page'.toggle = b.toggle /\ page'.last = b.last
  BY <1>1, ListeningKeeps DEF Writes, PageFields
<1>3. b.last = page.last /\ b.where = page.where
  BY <1>1 DEF Patched, Writes, PageFields, Acking, Around, Drawing, PatchingForm, Painting
<1>4. page.where = "details"
  BY <1>1, <1>3 DEF DeliverStep, Base, Connected
<1>5. /\ NoAsk(up) => Settled
      /\ \A i : AsksLast(up, i) => AskedFor(page, up[i])
  BY <1>4 DEF ContextInv
<1>6. up' = up /\ down' = Tail(down) /\ srv' = srv /\ down # <<>>
  BY DEF DeliverStep
<1>7. ASSUME NoAsk(up), Tail(down) = <<>>
      PROVE  page'.toggle = srv.show
  <2>1. Head(down).w = View(srv)
    BY <1>6, <1>7, LastIsShown DEF Base
  <2>2. View(srv).show = srv.show
    BY DEF View
  <2>3. CASE page.focus = "toggle"
    <3>1. b.toggle = page.toggle
      BY <1>1, <2>3 DEF Patched
    <3>2. page.toggle <=> page.last # None
      BY <2>3 DEF Base, PageInv
    <3>3. page.toggle \in BOOLEAN /\ srv.show \in BOOLEAN
      BY DEF Base, PageInv, SrvInv
    <3> QED
      BY <1>2, <1>5, <1>7, <3>1, <3>2, <3>3 DEF Settled
  <2>4. CASE page.focus # "toggle"
    BY <1>1, <1>2, <2>1, <2>2, <2>4 DEF Patched
  <2> QED
    BY <2>3, <2>4
<1>8. NoAsk(up') => Settled'
  BY <1>2, <1>3, <1>5, <1>6, <1>7 DEF Settled
<1>9. \A i : AsksLast(up', i) => AskedFor(page', up'[i])
  BY <1>2, <1>3, <1>5, <1>6 DEF AskedFor
<1> QED
  BY <1>8, <1>9

LEMMA ContextStays ==
    ASSUME Base, ShownLast, ContextInv, Steps
    PROVE  ContextInv'
<1>1. CASE OperatorStep
  <2>0. page.where = "details" /\ online' = online /\ UNCHANGED <<srv, down>>
    BY <1>1 DEF OperatorStep
  <2>1. CASE Looking(page, page')
    BY <2>0, <2>1, LookingAsks
  <2>2. CASE ~Looking(page, page')
    <3>1. page'.last = page.last /\ page'.toggle = page.toggle
      BY <1>1, <2>2 DEF OperatorStep, Typing, Sending, Requesting, Blurring, Guarding, Highlighting,
                Writes, PageFields, Entering, Painting, Drawing, Pointing
    <3>2. up' = up \/ (\E m : Pushes(m) /\ m.type \notin Asking)
      <4>1. CASE Sending(page, page')
        <5>1. [type |-> "validate", x |-> page'.form].type \notin Asking
          BY DEF Asking
        <5> QED
          BY <4>1, <5>1 DEF Sending
      <4>2. ASSUME NEW m, Requesting(page, page', m)
            PROVE  Pushes(m) /\ m.type \notin Asking
        <5>1. CASE m = [type |-> "save", x |-> m.x]
          <6>1. m.type = "save"
            BY <5>1
          <6> QED
            BY <4>2, <6>1 DEF Requesting, Asking
        <5>2. CASE m # [type |-> "save", x |-> m.x]
          BY <4>2, <5>2 DEF Requesting, Request, Leavings, Asking
        <5> QED
          BY <5>1, <5>2
      <4>3. CASE Guarding(page, page')
        <5>1. Guard.type \notin Asking
          BY DEF Guard, Asking
        <5> QED
          BY <4>3, <5>1 DEF Guarding
      <4> QED
        BY <1>1, <2>2, <4>1, <4>2, <4>3 DEF OperatorStep, Typing, Blurring, Highlighting
    <3> QED
      BY <2>0, <3>1, <3>2, ContextKept
  <2> QED
    BY <2>1, <2>2
<1>2. CASE LeaveStep \/ DropStep \/ RejoinStep
  BY <1>2 DEF LeaveStep, DropStep, RejoinStep, ContextInv
<1>3. CASE ReturnStep
  <2>1. up' = <<>> /\ down' = <<>>
    BY <1>3 DEF ReturnStep, Base, Connected
  <2>2. page'.last = None /\ ~page'.toggle /\ page'.toggle \in BOOLEAN /\ ~srv'.show
        /\ srv'.show \in BOOLEAN /\ srv'.bounds = None
    BY <1>3 DEF ReturnStep, Fresh, SrvInv
  <2>3. Settled'
    BY <2>2 DEF Settled
  <2>4. \A i : ~AsksLast(up', i)
    BY <2>1, NoneYet DEF AsksLast
  <2> QED
    BY <2>3, <2>4 DEF ContextInv
<1>4. CASE HandleStep
  BY <1>4, HandleSettles
<1>5. CASE DeliverStep
  BY <1>5, DeliverSettles
<1>6. CASE OthersStep \/ UNCHANGED vars
  BY <1>6 DEF OthersStep, vars, ContextInv, Settled
<1> QED
  BY <1>1, <1>2, <1>3, <1>4, <1>5, <1>6 DEF Steps

\* On a page that stayed connected the box, the strip and the layer of the other
\* routes agree at rest, and are of the view that was asked for last.
THEOREM ContextFollowsTheView == Spec => []ContextIsCurrent
<1>1. Init => ContextInv
  <2> SUFFICES ASSUME Init
               PROVE  ContextInv
    OBVIOUS
  <2>1. Fresh(srv) /\ Opened(srv, page) /\ up = <<>>
    BY StartIsOpen
  <2>2. page.last = None /\ ~page.toggle /\ page.toggle \in BOOLEAN /\ ~srv.show
        /\ srv.show \in BOOLEAN /\ srv.bounds = None
    BY <2>1 DEF Opened, Fresh, SrvInv
  <2>3. Settled
    BY <2>2 DEF Settled
  <2>4. \A i : ~AsksLast(up, i)
    BY <2>1, NoneYet DEF AsksLast
  <2> QED
    BY <2>3, <2>4 DEF ContextInv
<1>2. ASSUME Base, ShownLast /\ DataInv, ContextInv, [Next]_vars
      PROVE  ContextInv'
  BY <1>2, NextSteps, ContextStays
<1>3. ASSUME Base, ShownLast /\ DataInv, ContextInv
      PROVE  ContextIsCurrent
  <2> SUFFICES ASSUME AtRest, ~srv.rejoined
               PROVE  /\ page.toggle = srv.show /\ page.context = srv.routes
                      /\ srv.status = "ok" /\ ~srv.missed => srv.bounds = page.last
    BY DEF ContextIsCurrent
  <2>1. page.where = "details" /\ online /\ up = <<>> /\ down = <<>>
    BY DEF AtRest
  <2>2. Settled
    BY <1>3, <2>1, NoneYet DEF ContextInv, NoAsk
  <2>3. page.context = srv.routes
    BY <1>3, <2>1 DEF DataInv, Base, PageInv, View
  <2> QED
    BY <2>1, <2>2, <2>3 DEF Settled
<1> QED
  BY <1>1, <1>2, <1>3, BaseHolds, ViewsHold, PTL DEF Spec


-----------------------------------------------------------------------------
(* The form and the draft.  The field in focus keeps what was typed: on a  *)
(* page that sent it, what is in it was in the draft when the page         *)
(* rejoined, and no request on its way changes the draft.                  *)

NoForms(q) == \A i \in 1 .. Len(q) : q[i].type \notin FormEvents
Awaits == page.where = "details" /\ online /\ down = <<>> /\ NoForms(up)
GuardInv ==
    Awaits => page.dirty = DetailsDirty(srv) /\ page.barHidden = Hides(View(srv))
              /\ page.merge = View(srv).merge
DraftInv == Awaits /\ ~page.unsent /\ ~page.apart => page.form = srv.draft
FocusInv ==
    page.where = "details" /\ online /\ page.focus \in Fields /\ ~page.unsent =>
      /\ \A i \in 1 .. Len(up) : up[i].type \in Staying
      /\ ~page.apart => page.form[page.focus] = srv.draft[page.focus]
FormInv == GuardInv /\ DraftInv /\ FocusInv

LEMMA FormsGrow ==
    ASSUME Messages(up), NEW m, Pushes(m), online
    PROVE  /\ NoForms(up') => NoForms(up) /\ m.type \notin FormEvents
           /\ (\A i \in 1 .. Len(up) : up[i].type \in Staying) /\ m.type \in Staying
                => \A i \in 1 .. Len(up') : up'[i].type \in Staying
<1> DEFINE o == Append(up, m)
<1>1. /\ Len(o) = Len(up) + 1 /\ Len(up) \in Nat
      /\ \A i \in 1 .. Len(up) : o[i] = up[i]
      /\ o[Len(up) + 1] = m
  BY OneMore DEF Messages
<1>2. up' = o
  BY DEF Pushes
<1> HIDE DEF o
<1>3. \A i \in 1 .. Len(o) : i \in 1 .. Len(up) \/ i = Len(up) + 1
  BY <1>1
<1>4. (\A i \in 1 .. Len(up) : i \in 1 .. Len(o)) /\ Len(up) + 1 \in 1 .. Len(o)
  BY <1>1
<1> QED
  BY <1>1, <1>2, <1>3, <1>4 DEF NoForms

LEMMA OperatorKeepsForm ==
    ASSUME Base, FormInv, OperatorStep
    PROVE  FormInv'
<1> SUFFICES ASSUME online
             PROVE  FormInv'
  BY DEF FormInv, GuardInv, DraftInv, FocusInv, Awaits, OperatorStep
<1>0. page.where = "details" /\ online' = online /\ UNCHANGED <<srv, down>>
  BY DEF OperatorStep
<1>1. page'.dirty = page.dirty /\ page'.barHidden = page.barHidden /\ page'.merge = page.merge
  BY DEF OperatorStep, Typing, Sending, Requesting, Blurring, Guarding, Highlighting,
         Looking, Writes, PageFields, Entering, Painting, Drawing, Pointing
<1>2. NoForms(up') => NoForms(up)
  <2>1. up' = up \/ \E m : Pushes(m)
    BY DEF OperatorStep, Typing, Sending, Requesting, Blurring, Guarding, Highlighting, Looking
  <2> QED
    BY <2>1, FormsGrow DEF Base
<1>3. GuardInv'
  BY <1>0, <1>1, <1>2 DEF FormInv, GuardInv, Awaits
<1>4. CASE Typing(page, page')
  BY <1>3, <1>4 DEF FormInv, DraftInv, FocusInv, Typing
<1>5. CASE Sending(page, page')
  <2> DEFINE m == [type |-> "validate", x |-> page'.form]
  <2>1. Pushes(m) /\ page'.focus = None
    BY <1>5 DEF Sending
  <2>2. m.type \in FormEvents
    BY DEF FormEvents
  <2> HIDE DEF m
  <2>3. ~NoForms(up')
    BY <2>1, <2>2, FormsGrow DEF Base
  <2> QED
    BY <1>3, <2>1, <2>3, RouteAssumption DEF FormInv, DraftInv, FocusInv, Awaits
<1>6. ASSUME NEW m, Requesting(page, page', m)
      PROVE  FormInv'
  <2>1. page'.form = page.form /\ page'.apart = page.apart /\ page'.focus = None
    BY <1>6 DEF Requesting, Writes, PageFields
  <2>2. CASE m = [type |-> "save", x |-> m.x]
    <3>1. m.type \in FormEvents
      <4>1. m.type = "save"
        BY <2>2
      <4> QED
        BY <4>1 DEF FormEvents
    <3>2. ~NoForms(up')
      BY <1>6, <3>1, FormsGrow DEF Base, Requesting
    <3> QED
      BY <1>3, <2>1, <3>2, RouteAssumption DEF FormInv, DraftInv, FocusInv, Awaits
  <2>3. CASE page'.unsent = page.unsent
    BY <1>0, <1>2, <1>3, <2>1, <2>3, RouteAssumption DEF FormInv, DraftInv, FocusInv, Awaits
  <2> QED
    BY <1>6, <2>2, <2>3 DEF Requesting, Request
<1>7. CASE Blurring(page, page')
  <2>1. page'.form = page.form /\ page'.apart = page.apart /\ page'.focus = None
        /\ page'.unsent = page.unsent
    BY <1>7 DEF Blurring, Writes, PageFields
  <2> QED
    BY <1>0, <1>2, <1>3, <2>1, RouteAssumption DEF FormInv, DraftInv, FocusInv, Awaits
<1>8. CASE Guarding(page, page') \/ Highlighting(page, page') \/ Looking(page, page')
  <2>1. page'.form = page.form /\ page'.apart = page.apart /\ page'.unsent = page.unsent
    BY <1>8 DEF Guarding, Highlighting, Looking, Writes, PageFields, Pointing
  <2>2. DraftInv'
    BY <1>0, <1>2, <2>1 DEF FormInv, DraftInv, Awaits
  <2>3. CASE page'.focus = "toggle"
    BY <1>3, <2>2, <2>3 DEF FormInv, FocusInv, Fields
  <2>4. CASE page'.focus # "toggle"
    <3>1. page'.focus = page.focus
      <4>1. CASE Guarding(page, page') \/ Highlighting(page, page')
        BY <4>1 DEF Guarding, Highlighting, Writes, PageFields, Pointing
      <4>2. CASE Looking(page, page')
        BY <2>4, <4>2 DEF Looking
      <4> QED
        BY <1>8, <4>1, <4>2
    <3>2. up' = up \/ \E m : Pushes(m) /\ m.type \in Staying
      <4>1. Guard.type \in Staying /\ On(page'.view).type \in Staying
        BY DEF Guard, On, Staying
      <4> QED
        BY <1>8, <2>4, <4>1 DEF Guarding, Highlighting, Looking
    <3>3. (\A i \in 1 .. Len(up) : up[i].type \in Staying)
            => \A i \in 1 .. Len(up') : up'[i].type \in Staying
      BY <3>2, FormsGrow DEF Base
    <3>4. FocusInv'
      BY <1>0, <2>1, <3>1, <3>3 DEF FormInv, FocusInv
    <3> QED
      BY <1>3, <2>2, <3>4 DEF FormInv
  <2> QED
    BY <2>3, <2>4
<1> QED
  BY <1>4, <1>5, <1>6, <1>7, <1>8 DEF OperatorStep

LEMMA DeliverKeepsForm ==
    ASSUME Base, ShownLast, FormInv, DeliverStep
    PROVE  FormInv'
<1> SUFFICES ASSUME page'.where = "details", online
             PROVE  FormInv'
  BY DEF FormInv, GuardInv, DraftInv, FocusInv, Awaits, DeliverStep
<1> DEFINE w == Head(down).w
<1>1. PICK b : Patched(page, Head(down), b) /\ Listening(b, Head(down).out, page')
  BY DEF DeliverStep
<1>2. up' = up /\ down' = Tail(down) /\ srv' = srv /\ down # <<>> /\ online' = online
  BY DEF DeliverStep
<1>3. b.where = page.where /\ b.apart = page.apart /\ b.unsent = page.unsent /\ b.focus = page.focus
  BY <1>1 DEF Patched, Writes, PageFields, Acking, Around, Drawing, PatchingForm, Painting
<1>4. /\ page'.form = b.form /\ page'.apart = b.apart /\ page'.unsent = b.unsent
      /\ page'.dirty = b.dirty /\ page'.barHidden = b.barHidden /\ page'.merge = b.merge
  BY <1>1, ListeningKeeps DEF Writes, PageFields
<1>5. page'.focus = b.focus \/ page'.focus = None
  BY <1>1, ListeningFocus
<1>6. page.where = "details"
  BY <1>1, <1>3 DEF DeliverStep, Base, Connected
<1>7. FocusInv'
  <2> SUFFICES ASSUME page'.focus \in Fields, ~page'.unsent
               PROVE  /\ \A i \in 1 .. Len(up) : up[i].type \in Staying
                      /\ ~page'.apart => page'.form[page'.focus] = srv.draft[page'.focus]
    BY <1>2 DEF FocusInv
  <2>1. page'.focus = page.focus /\ ~page.unsent /\ page.focus \in Fields
    BY <1>3, <1>4, <1>5, RouteAssumption
  <2>2. /\ \A i \in 1 .. Len(up) : up[i].type \in Staying
        /\ ~page.apart => page.form[page.focus] = srv.draft[page.focus]
    BY <1>2, <1>6, <2>1 DEF FormInv, FocusInv, DeliverStep
  <2>3. b.form[page.focus] = page.form[page.focus]
    <3>1. CASE Locked
      BY <1>1, <3>1 DEF Patched, Writes, PageFields, Acking, Around, Drawing
    <3>2. CASE ~Locked
      BY <1>1, <2>1, <3>2 DEF Patched, FormPatched
    <3> QED
      BY <3>1, <3>2
  <2> QED
    BY <1>3, <1>4, <2>1, <2>2, <2>3
<1>8. ASSUME Tail(down) = <<>>, NoForms(up)
      PROVE  /\ page'.dirty = DetailsDirty(srv) /\ page'.barHidden = Hides(View(srv))
             /\ page'.merge = View(srv).merge
             /\ ~page'.unsent /\ ~page'.apart => page'.form = srv.draft
  <2>1. w = View(srv)
    BY <1>2, <1>8, LastIsShown DEF Base
  <2>2. ~Locked
    <3>1. Len(down) = 1
      BY <1>2, <1>8, OneLess DEF Base, AnswersIn
    <3> QED
      BY <1>8, <3>1 DEF Locked, NoForms
  <2>3. /\ IsForm(b.form) /\ FormPatched(b.form, page, w)
        /\ b.dirty = w.dirty /\ b.barHidden = Hides(w) /\ b.merge = w.merge
    BY <1>1, <2>2 DEF Patched
  <2>4. w.form = srv.draft /\ w.dirty = DetailsDirty(srv)
    BY <2>1 DEF View
  <2>5. ASSUME ~page'.unsent, ~page'.apart
        PROVE  page'.form = srv.draft
    <3>1. ASSUME NEW f \in Fields
          PROVE  b.form[f] = srv.draft[f]
      <4>1. CASE f = page.focus
        <5>1. page.form[f] = srv.draft[f]
          BY <1>2, <1>3, <1>4, <1>6, <2>5, <4>1 DEF FormInv, FocusInv, DeliverStep
        <5> QED
          BY <2>3, <4>1, <5>1 DEF FormPatched
      <4>2. CASE f # page.focus
        BY <2>3, <2>4, <4>2 DEF FormPatched
      <4> QED
        BY <4>1, <4>2
    <3>2. IsForm(srv.draft)
      BY DEF Base, SrvInv
    <3> QED
      BY <1>4, <2>3, <3>1, <3>2, FormsAgree
  <2> QED
    BY <1>4, <2>1, <2>3, <2>4, <2>5
<1>9. GuardInv' /\ DraftInv'
  BY <1>2, <1>8 DEF GuardInv, DraftInv, Awaits
<1> QED
  BY <1>7, <1>9 DEF FormInv

LEMMA HandleKeepsForm ==
    ASSUME Base, FormInv, HandleStep
    PROVE  FormInv'
<1>1. down' # <<>>
  BY OneMore DEF HandleStep, Base, AnswersIn
<1>2. GuardInv' /\ DraftInv'
  BY <1>1 DEF GuardInv, DraftInv, Awaits
<1>3. FocusInv'
  <2> SUFFICES ASSUME page.where = "details", online, page.focus \in Fields, ~page.unsent
               PROVE  /\ \A i \in 1 .. Len(up') : up'[i].type \in Staying
                      /\ ~page.apart => page.form[page.focus] = srv'.draft[page.focus]
    BY DEF FocusInv, HandleStep
  <2>1. /\ \A i \in 1 .. Len(up) : up[i].type \in Staying
        /\ ~page.apart => page.form[page.focus] = srv.draft[page.focus]
    BY DEF FormInv, FocusInv
  <2>2. /\ Len(up) \in Nat /\ Len(up) >= 1 /\ Head(up) = up[1]
        /\ Len(Tail(up)) = Len(up) - 1
        /\ \A i \in 1 .. Len(up) - 1 : Tail(up)[i] = up[i + 1]
    BY OneLess DEF HandleStep, Base, Messages
  <2>3. up' = Tail(up)
    BY DEF HandleStep
  <2>4. \A i \in 1 .. Len(up) - 1 : i + 1 \in 1 .. Len(up)
    BY <2>2
  <2>5. \A i \in 1 .. Len(up') : up'[i].type \in Staying
    BY <2>1, <2>2, <2>3, <2>4
  <2>6. srv'.draft = srv.draft
    BY <2>1, <2>2 DEF HandleStep, Handled
  <2> QED
    BY <2>1, <2>5, <2>6
<1> QED
  BY <1>2, <1>3 DEF FormInv

LEMMA RejoinKeepsForm ==
    ASSUME Base, FormInv, RejoinStep
    PROVE  FormInv'
<1>1. up' = <<Recover>>
  BY DEF RejoinStep
<1>2. Len(up') = 1 /\ up'[1].type = "recover"
  BY <1>1 DEF Recover
<1>3. ~NoForms(up')
  BY <1>2 DEF NoForms, FormEvents
<1>4. FocusInv'
  <2>1. \A i \in 1 .. Len(up') : up'[i].type \in Staying
    BY <1>2 DEF Staying
  <2>2. page'.apart = page.apart
    BY DEF RejoinStep, Writes, PageFields, Around, Drawing, PatchingForm, Painting
  <2>3. ~page.apart => page'.form = page.form
    BY DEF RejoinStep, Base, Connected
  <2>4. srv'.draft = page.form
    BY DEF RejoinStep
  <2> QED
    BY <2>1, <2>2, <2>3, <2>4 DEF FocusInv
<1> QED
  BY <1>3, <1>4 DEF FormInv, GuardInv, DraftInv, Awaits

LEMMA FreshIsClean ==
    ASSUME NEW v, Fresh(v), v.draft = db.values
    PROVE  ~DetailsDirty(v) /\ Changed(v) = {} /\ View(v).merge = None /\ Hides(View(v)) = TRUE
BY DEF Fresh, DetailsDirty, Changed, View, Hides


LEMMA FormStays ==
    ASSUME Base, ShownLast, FormInv, Steps
    PROVE  FormInv'
<1>1. CASE OperatorStep
  BY <1>1, OperatorKeepsForm
<1>2. CASE LeaveStep \/ DropStep
  <2>1. page'.where = "elsewhere" \/ ~online'
    BY <1>2 DEF LeaveStep, DropStep
  <2> QED
    BY <2>1 DEF FormInv, GuardInv, DraftInv, FocusInv, Awaits
<1>3. CASE ReturnStep
  BY <1>3, FreshIsClean, RouteAssumption
  DEF ReturnStep, FormInv, GuardInv, DraftInv, FocusInv, Awaits
<1>4. CASE HandleStep
  BY <1>4, HandleKeepsForm
<1>5. CASE DeliverStep
  BY <1>5, DeliverKeepsForm
<1>6. CASE OthersStep \/ UNCHANGED vars
  BY <1>6 DEF OthersStep, vars, FormInv, GuardInv, DraftInv, FocusInv, Awaits
<1>7. CASE RejoinStep
  BY <1>7, RejoinKeepsForm
<1> QED
  BY <1>1, <1>2, <1>3, <1>4, <1>5, <1>6, <1>7 DEF Steps

LEMMA FormHolds ==
    Spec => []FormInv
<1>1. Init => FormInv
  BY StartIsOpen, FreshIsClean, RouteAssumption
  DEF Opened, FormInv, GuardInv, DraftInv, FocusInv, Awaits
<1>2. ASSUME Base, ShownLast /\ DataInv, FormInv, [Next]_vars
      PROVE  FormInv'
  BY <1>2, NextSteps, FormStays
<1> QED
  BY <1>1, <1>2, BaseHolds, ViewsHold, PTL DEF Spec

\* Once everything that was sent is answered, the form shows the draft that the
\* process holds, and the guard, the bar and the panel of a merge what it differs in.
THEOREM FormFollowsTheDraft == Spec => []FormIsTheDraft
<1>1. ASSUME FormInv
      PROVE  FormIsTheDraft
  <2> SUFFICES ASSUME AtRest, ~page.apart
               PROVE  /\ page.form = srv.draft /\ page.dirty = DetailsDirty(srv)
                      /\ page.barHidden = (Changed(srv) = {}) /\ page.merge = View(srv).merge
    BY DEF FormIsTheDraft
  <2>1. Awaits /\ ~page.unsent
    BY NoneYet DEF AtRest, Awaits, NoForms
  <2>2. page.form = srv.draft /\ page.dirty = DetailsDirty(srv) /\ page.merge = View(srv).merge
        /\ page.barHidden = Hides(View(srv))
    BY <1>1, <2>1 DEF FormInv, GuardInv, DraftInv
  <2>3. Hides(View(srv)) = (Changed(srv) = {})
    BY DEF Hides, View
  <2> QED
    BY <2>2, <2>3
<1> QED
  BY <1>1, FormHolds, PTL


-----------------------------------------------------------------------------
(* Leaving.  The guard asks the process only when the page has unsaved     *)
(* work, and what the page knows stays until its answer.                   *)

Clean == Navigated("clean")
GuardsIn(q) == \E i \in 1 .. Len(q) : q[i].type = "guard"
GuardAnswersIn(q) == \E i \in 1 .. Len(q) : q[i].of = "guard"
AskedInv == page.where = "details" /\ (GuardsIn(up) \/ GuardAnswersIn(down)) => page.dirty
CleanInv ==
    /\ \A i \in 1 .. Len(down) : down[i].out = Clean => down[i].of = "guard"
    /\ down # <<>> /\ down[Len(down)].out = Clean => Changed(srv) = {}
LeaveInv == AskedInv /\ CleanInv

LEMMA AskedOperator ==
    ASSUME Base, AskedInv, OperatorStep
    PROVE  AskedInv'
<1>1. page'.dirty = page.dirty
  BY DEF OperatorStep, Typing, Sending, Requesting, Blurring, Guarding, Highlighting,
         Looking, Writes, PageFields, Entering, Painting, Drawing, Pointing
<1>2. CASE page.dirty
  BY <1>1, <1>2 DEF AskedInv
<1>3. CASE ~page.dirty
  <2>1. ~GuardsIn(up) /\ ~GuardAnswersIn(down) /\ down' = down
    BY <1>3 DEF AskedInv, OperatorStep
  <2>2. up' = up \/ \E m : up' = Append(up, m) /\ m.type # "guard"
    <3>1. CASE Sending(page, page')
      <4> DEFINE m == [type |-> "validate", x |-> page'.form]
      <4>1. m.type # "guard"
        OBVIOUS
      <4>2. up' = up \/ up' = Append(up, m)
        BY <3>1 DEF Sending, Pushes
      <4> QED
        BY <4>1, <4>2
    <3>2. ASSUME NEW m, Requesting(page, page', m)
          PROVE  (up' = up \/ up' = Append(up, m)) /\ m.type # "guard"
      <4>1. CASE m = [type |-> "save", x |-> m.x]
        <5>1. m.type = "save"
          BY <4>1
        <5> QED
          BY <3>2, <5>1 DEF Requesting, Pushes
      <4>2. CASE m # [type |-> "save", x |-> m.x]
        BY <3>2, <4>2 DEF Requesting, Request, Leavings, Pushes
      <4> QED
        BY <4>1, <4>2
    <3>3. CASE Looking(page, page')
      <4>1. On(page'.view).type # "guard" /\ Off.type # "guard"
        BY DEF On, Off
      <4>2. up' = up \/ Pushes(On(page'.view)) \/ Pushes(Off)
        BY <3>3 DEF Looking
      <4> QED
        BY <4>1, <4>2 DEF Pushes
    <3> QED
      BY <1>3, <3>1, <3>2, <3>3 DEF OperatorStep, Typing, Blurring, Highlighting, Guarding
  <2>3. ASSUME NEW m, up' = Append(up, m), m.type # "guard"
        PROVE  ~GuardsIn(up')
    <3> DEFINE o == Append(up, m)
    <3>1. /\ Len(o) = Len(up) + 1 /\ Len(up) \in Nat
          /\ \A i \in 1 .. Len(up) : o[i] = up[i]
          /\ o[Len(up) + 1] = m
      BY OneMore DEF Base, Messages
    <3> HIDE DEF o
    <3>2. \A i \in 1 .. Len(o) : i \in 1 .. Len(up) \/ i = Len(up) + 1
      BY <3>1
    <3>3. ~GuardsIn(o)
      BY <2>1, <2>3, <3>1, <3>2 DEF GuardsIn
    <3> QED
      BY <2>3, <3>3 DEF o
  <2>4. ~GuardsIn(up')
    BY <2>1, <2>2, <2>3
  <2> QED
    BY <2>1, <2>4 DEF AskedInv
<1> QED
  BY <1>2, <1>3

LEMMA HandleLeaves ==
    ASSUME Base, LeaveInv, HandleStep
    PROVE  LeaveInv'
<1> DEFINE type == Head(up).type
           m == AnswerTo(type, srv')
           o == Append(down, m)
<1>1. /\ Len(o) = Len(down) + 1 /\ Len(down) \in Nat
      /\ \A i \in 1 .. Len(down) : o[i] = down[i]
      /\ o[Len(down) + 1] = m /\ o # <<>>
  BY OneMore DEF Base, AnswersIn
<1>2. down' = o /\ page' = page /\ up' = Tail(up)
  BY DEF HandleStep
<1>3. m.of = type /\ m.out = srv'.out
  BY DEF AnswerTo
<1> HIDE DEF m, o
<1>4. srv'.out = Clean => type = "guard" /\ Changed(srv') = {}
  BY DEF HandleStep, Handled, Clean
<1>5. \A i \in 1 .. Len(o) : i \in 1 .. Len(down) \/ i = Len(down) + 1
  BY <1>1
<1>6. CleanInv'
  BY <1>1, <1>2, <1>3, <1>4, <1>5 DEF LeaveInv, CleanInv
<1>7. /\ Len(up) \in Nat /\ Len(up) >= 1 /\ Head(up) = up[1]
      /\ Len(Tail(up)) = Len(up) - 1
      /\ \A i \in 1 .. Len(up) - 1 : Tail(up)[i] = up[i + 1]
  BY OneLess DEF HandleStep, Base, Messages
<1>8. \A i \in 1 .. Len(up) - 1 : i + 1 \in 1 .. Len(up)
  BY <1>7
<1>9. GuardsIn(up') => GuardsIn(up)
  BY <1>2, <1>7, <1>8 DEF GuardsIn
<1>10. GuardAnswersIn(down') => GuardAnswersIn(down) \/ GuardsIn(up)
  <2>1. type = "guard" => GuardsIn(up)
    BY <1>7 DEF GuardsIn
  <2> QED
    BY <1>1, <1>2, <1>3, <1>5, <2>1 DEF GuardAnswersIn
<1> QED
  BY <1>2, <1>6, <1>9, <1>10 DEF LeaveInv, AskedInv

LEMMA DeliverLeaves ==
    ASSUME Base, LeaveInv, DeliverStep
    PROVE  LeaveInv'
<1>1. /\ down # <<>> /\ IsSeq(Tail(down)) /\ Len(down) \in Nat /\ Len(down) >= 1
      /\ Len(Tail(down)) = Len(down) - 1 /\ (Tail(down) = <<>> <=> Len(down) = 1)
      /\ \A i \in 1 .. Len(down) - 1 : Tail(down)[i] = down[i + 1]
  BY OneLess DEF DeliverStep, Base, AnswersIn
<1>2. \A i \in 1 .. Len(down) - 1 : i + 1 \in 1 .. Len(down) /\ i + 1 \in 2 .. Len(down)
  BY <1>1
<1>3. CASE page'.where = "elsewhere"
  BY <1>3, NoneYet DEF DeliverStep, LeaveInv, AskedInv, CleanInv
<1>4. CASE page'.where # "elsewhere"
  <2>1. up' = up /\ down' = Tail(down) /\ srv' = srv
    BY <1>4 DEF DeliverStep
  <2>2. Tail(down) # <<>> => Tail(down)[Len(Tail(down))] = down[Len(down)]
    <3>1. Tail(down) # <<>> => Len(down) - 1 \in 1 .. Len(down) - 1
      BY <1>1
    <3> QED
      BY <1>1, <3>1
  <2>3. CleanInv'
    BY <1>1, <1>2, <2>1, <2>2 DEF LeaveInv, CleanInv
  <2>4. PICK b : Patched(page, Head(down), b) /\ Listening(b, Head(down).out, page')
    BY DEF DeliverStep
  <2>5. page'.dirty = b.dirty
    BY <2>4, ListeningKeeps DEF Writes, PageFields
  <2>6. ASSUME GuardsIn(up) \/ GuardAnswersIn(Tail(down)), page'.where = "details"
        PROVE  page'.dirty
    <3>1. page.where = "details"
      BY <1>1 DEF Base, Connected
    <3>2. page.dirty
      BY <1>1, <1>2, <2>6, <3>1 DEF LeaveInv, AskedInv, GuardAnswersIn
    <3>3. Locked
      BY <1>1, <1>2, <2>6 DEF Locked, GuardsIn, GuardAnswersIn, FormEvents
    <3>4. b.dirty = page.dirty
      BY <2>4, <3>3 DEF Patched, Writes, PageFields, Acking, Around, Drawing
    <3> QED
      BY <2>5, <3>2, <3>4
  <2>7. AskedInv'
    BY <2>1, <2>6 DEF AskedInv
  <2> QED
    BY <2>3, <2>7 DEF LeaveInv
<1> QED
  BY <1>3, <1>4

LEMMA LeaveStays ==
    ASSUME Base, LeaveInv, Steps
    PROVE  LeaveInv'
<1>1. CASE OperatorStep
  <2>1. down' = down /\ srv' = srv
    BY <1>1 DEF OperatorStep
  <2> QED
    BY <1>1, <2>1, AskedOperator DEF LeaveInv, CleanInv
<1>2. CASE LeaveStep \/ DropStep
  BY <1>2, NoneYet DEF LeaveStep, DropStep, LeaveInv, AskedInv, CleanInv, GuardsIn, GuardAnswersIn
<1>3. CASE ReturnStep
  <2>1. up' = <<>> /\ down' = <<>>
    BY <1>3 DEF ReturnStep, Base, Connected
  <2> QED
    BY <2>1, NoneYet DEF LeaveInv, AskedInv, CleanInv, GuardsIn, GuardAnswersIn
<1>4. CASE HandleStep
  BY <1>4, HandleLeaves
<1>5. CASE DeliverStep
  BY <1>5, DeliverLeaves
<1>6. CASE OthersStep \/ UNCHANGED vars
  BY <1>6 DEF OthersStep, vars, LeaveInv, AskedInv, CleanInv
<1>7. CASE RejoinStep
  <2>1. up' = <<Recover>> /\ down' = <<>>
    BY <1>7 DEF RejoinStep, Base, Connected
  <2>2. ~GuardsIn(up')
    BY <2>1 DEF GuardsIn, Recover
  <2> QED
    BY <2>1, <2>2, NoneYet DEF LeaveInv, AskedInv, CleanInv, GuardAnswersIn
<1> QED
  BY <1>1, <1>2, <1>3, <1>4, <1>5, <1>6, <1>7 DEF Steps

LEMMA LeaveHolds ==
    Spec => []LeaveInv
<1>1. Init => LeaveInv
  BY StartIsOpen, NoneYet DEF LeaveInv, AskedInv, CleanInv, GuardsIn, GuardAnswersIn
<1>2. ASSUME Base, LeaveInv, [Next]_vars
      PROVE  LeaveInv'
  BY <1>2, NextSteps, LeaveStays
<1> QED
  BY <1>1, <1>2, BaseHolds, PTL DEF Spec


Told == UNION {Navigations(m) : m \in ToSet(down)}

\* The answers that let the page go without an answer to the question are alike.
LEMMA ToldClean ==
    ASSUME Base, \A e \in Told : e.x \notin {"saved", "discard"}, Len(down) = Cardinality(Told)
    PROVE  Len(down) = 0 \/ (Len(down) = 1 /\ down[1].out = Clean)
<1>1. PICK S : down \in Seq(S)
  BY DEF Base, AnswersIn, IsSeq
<1>2. ToSet(down) = {down[i] : i \in 1 .. Len(down)}
  BY <1>1 DEF ToSet
<1>3. ASSUME NEW e \in Told
      PROVE  e = Clean /\ \E i \in 1 .. Len(down) : down[i].out = Clean
  <2>1. PICK i \in 1 .. Len(down) : e \in Navigations(down[i])
    BY <1>2 DEF Told
  <2>2. e = down[i].out /\ e # None /\ e.type = "navigate"
    BY <2>1 DEF Navigations
  <2>3. e \in PushedEvents
    BY <2>2 DEF Base, AnswersIn, Answer, Event
  <2>4. PICK why \in {"clean", "discard", "saved"} : e = Navigated(why)
    BY <2>2, <2>3, EventsArePushed DEF FocusEvent, Recovered
  <2>5. e.x = why
    BY <2>4 DEF Navigated
  <2> QED
    BY <2>2, <2>4, <2>5 DEF Clean
<1>4. CASE Told = {}
  BY <1>4, FS_EmptySet
<1>5. CASE Told # {}
  <2>1. Told = {Clean} /\ \E i \in 1 .. Len(down) : down[i].out = Clean
    BY <1>3, <1>5
  <2>2. Cardinality({Clean}) = 1
    BY FS_Singleton
  <2>3. Len(down) = 1
    BY <2>1, <2>2
  <2>4. PICK i \in 1 .. Len(down) : down[i].out = Clean
    BY <2>1
  <2>5. i = 1
    BY <2>3, <2>4
  <2> QED
    BY <2>3, <2>4, <2>5
<1> QED
  BY <1>4, <1>5

LEMMA UnchangedDraft ==
    ASSUME Base, Changed(srv) = {}
    PROVE  srv.draft = srv.base
<1>1. \A f \in Fields : srv.draft[f] = srv.base[f]
  BY DEF Changed
<1> QED
  BY <1>1, FormsAgree DEF Base, SrvInv

\* Nobody leaves a settled page with unsaved work and without an answer to the
\* question.
THEOREM NobodyLeavesUnasked == Spec => LeavingAsks
<1> DEFINE A == /\ page.where = "details" /\ page'.where = "elsewhere"
                /\ up = <<>> /\ Len(down) = Cardinality(Told) /\ ~page.unsent /\ ~page.apart
                => page'.form = srv.base \/ \E e \in Told : e.x \in {"saved", "discard"}
<1>1. ASSUME Base, ShownLast /\ DataInv, FormInv, LeaveInv, [Next]_vars
      PROVE  A
  <2> SUFFICES ASSUME page.where = "details", page'.where = "elsewhere",
                      up = <<>>, Len(down) = Cardinality(Told), ~page.unsent, ~page.apart,
                      \A e \in Told : e.x \notin {"saved", "discard"}
               PROVE  page'.form = srv.base
    OBVIOUS
  <2>1. Steps
    BY <1>1, NextSteps
  <2>2. LeaveStep \/ DeliverStep
    <3>1. OperatorStep => page'.where = page.where
      BY DEF OperatorStep, Typing, Sending, Requesting, Blurring, Guarding, Highlighting,
             Looking, Writes, PageFields, Entering, Painting, Drawing, Pointing
    <3>2. DropStep => page'.where = page.where
      BY DEF DropStep, Writes, PageFields
    <3>3. RejoinStep => page'.where = page.where
      BY DEF RejoinStep, Writes, PageFields, Around, Drawing, PatchingForm, Painting
    <3> QED
      BY <2>1, <3>1, <3>2, <3>3 DEF Steps, ReturnStep, HandleStep, OthersStep, vars
  <2>3. Len(down) = 0 \/ (Len(down) = 1 /\ down[1].out = Clean)
    BY <1>1, ToldClean
  <2>4. online
    BY <1>1, <2>2 DEF LeaveStep, DeliverStep, Connected, Base
  <2>5. NoForms(up)
    BY NoneYet DEF NoForms
  <2>6. CASE LeaveStep
    <3>1. CASE Len(down) = 0
      <4>1. down = <<>>
        BY <1>1, <3>1, NoneYet DEF Base, AnswersIn
      <4>2. Awaits
        BY <2>4, <2>5, <4>1 DEF Awaits
      <4>3. page.form = srv.draft /\ page.dirty = DetailsDirty(srv)
        BY <1>1, <4>2 DEF FormInv, GuardInv, DraftInv
      <4>4. Changed(srv) = {}
        BY <2>6, <4>3 DEF LeaveStep, DetailsDirty
      <4>5. page'.form = page.form
        BY <2>6 DEF LeaveStep, Writes, PageFields
      <4> QED
        BY <1>1, <4>3, <4>4, <4>5, UnchangedDraft
    <3>2. CASE Len(down) = 1 /\ down[1].out = Clean
      <4>1. GuardAnswersIn(down)
        BY <1>1, <3>2 DEF LeaveInv, CleanInv, GuardAnswersIn
      <4>2. page.dirty
        BY <1>1, <4>1 DEF LeaveInv, AskedInv
      <4> QED
        BY <2>6, <4>2 DEF LeaveStep
    <3> QED
      BY <2>3, <3>1, <3>2
  <2>7. CASE DeliverStep
    <3>1. down # <<>> /\ Len(down) = 1 /\ down[1].out = Clean
      BY <1>1, <2>3, <2>7, NoneYet DEF DeliverStep, Base, AnswersIn
    <3>2. Changed(srv) = {}
      BY <1>1, <3>1 DEF LeaveInv, CleanInv
    <3>3. Head(down) = down[1] /\ Head(down).w = View(srv)
      BY <1>1, <3>1, OneLess DEF Base, AnswersIn, ShownLast
    <3>4. ~Locked
      BY <2>5, <3>1 DEF Locked, NoForms
    <3>5. PICK b : Patched(page, Head(down), b) /\ Listening(b, Head(down).out, page')
      BY <2>7 DEF DeliverStep
    <3>6. page'.form = b.form
      BY <3>5, ListeningKeeps DEF Writes, PageFields
    <3>7. IsForm(b.form) /\ FormPatched(b.form, page, View(srv))
      BY <3>3, <3>4, <3>5 DEF Patched
    <3>8. View(srv).form = srv.draft
      BY DEF View
    <3>9. ASSUME NEW f \in Fields
          PROVE  b.form[f] = srv.draft[f]
      <4>1. CASE f = page.focus
        <5>1. page.form[f] = srv.draft[f]
          BY <1>1, <2>4, <4>1 DEF FormInv, FocusInv
        <5> QED
          BY <3>7, <4>1, <5>1 DEF FormPatched
      <4>2. CASE f # page.focus
        BY <3>7, <3>8, <4>2 DEF FormPatched
      <4> QED
        BY <4>1, <4>2
    <3>10. b.form = srv.draft
      BY <1>1, <3>7, <3>9, FormsAgree DEF Base, SrvInv
    <3> QED
      BY <1>1, <3>2, <3>6, <3>10, UnchangedDraft
  <2> QED
    BY <2>2, <2>6, <2>7
<1>2. ASSUME Base, ShownLast /\ DataInv, FormInv, LeaveInv, [Next]_vars
      PROVE  [A]_vars
  BY <1>1, <1>2
<1>3. [][A]_vars => LeavingAsks
  BY DEF LeavingAsks, Told
<1> QED
  BY <1>2, <1>3, BaseHolds, ViewsHold, FormHolds, LeaveHolds, PTL DEF Spec


-----------------------------------------------------------------------------
(* The block.  A process that refused the editor displays no merge, so     *)
(* that nothing it is asked lifts the block; and a page that is blocked    *)
(* waits for the answer to its recovery.                                   *)

Recovering == up # <<>> /\ up[1].type = "recover"
NoMergeIn(q) == \A i \in 1 .. Len(q) : q[i].w.merge = None
RecoveryIsFirst == \A i \in 2 .. Len(up) : up[i].type # "recover"
RefusedInv ==
    Recovering \/ srv.blocked =>
      /\ srv.merge = None /\ page.merge = None /\ NoMergeIn(down)
      /\ \A i \in 1 .. Len(up) : up[i].type # "discard_merge"
EditorInv == srv.blocked => ~db.editor
AllowedIn(q) == \E i \in 1 .. Len(q) : q[i].out = Recovered(TRUE)
WaitingInv ==
    page.where = "details" /\ online /\ page.offline => Recovering \/ srv.blocked \/ AllowedIn(down)
BlockInv == RecoveryIsFirst /\ RefusedInv /\ EditorInv /\ WaitingInv

LEMMA BlockPush ==
    ASSUME Base, BlockInv, NEW m, up' = Append(up, m), m.type # "recover",
           m.type # "discard_merge" \/ page.merge # None, page'.merge = page.merge,
           page'.offline = page.offline, page.where = "details", UNCHANGED <<srv, db, down, online>>
    PROVE  BlockInv'
<1> DEFINE o == Append(up, m)
<1>1. /\ Len(o) = Len(up) + 1 /\ Len(up) \in Nat /\ o # <<>> /\ (up = <<>> <=> Len(up) = 0)
      /\ \A i \in 1 .. Len(up) : o[i] = up[i]
      /\ o[Len(up) + 1] = m
  BY OneMore, NoneYet DEF Base, Messages
<1>2. up' = o
  OBVIOUS
<1> HIDE DEF o
<1>3. \A i \in 1 .. Len(o) : i \in 1 .. Len(up) \/ i = Len(up) + 1
  BY <1>1
<1>4. RecoveryIsFirst'
  BY <1>1, <1>2, <1>3 DEF BlockInv, RecoveryIsFirst
<1>5. Recovering' <=> Recovering
  BY <1>1, <1>2, <1>3 DEF Recovering
<1>6. RefusedInv'
  BY <1>1, <1>2, <1>3, <1>5 DEF BlockInv, RefusedInv
<1>7. EditorInv' /\ WaitingInv'
  BY <1>5 DEF BlockInv, EditorInv, WaitingInv
<1> QED
  BY <1>4, <1>6, <1>7 DEF BlockInv

LEMMA BlockOperator ==
    ASSUME Base, BlockInv, OperatorStep
    PROVE  BlockInv'
<1>1. page'.merge = page.merge /\ page'.offline = page.offline
  BY DEF OperatorStep, Typing, Sending, Requesting, Blurring, Guarding, Highlighting,
         Looking, Writes, PageFields, Entering, Painting, Drawing, Pointing
<1>2. page.where = "details" /\ UNCHANGED <<srv, db, down, online>>
  BY DEF OperatorStep
<1>3. CASE up' = up
  BY <1>1, <1>2, <1>3
  DEF BlockInv, RecoveryIsFirst, RefusedInv, EditorInv, WaitingInv, Recovering
<1>4. up' = up \/ \E m : up' = Append(up, m) /\ m.type # "recover"
                         /\ (m.type # "discard_merge" \/ page.merge # None)
  <2>1. CASE Sending(page, page')
    <3> DEFINE m == [type |-> "validate", x |-> page'.form]
    <3>1. m.type # "recover" /\ m.type # "discard_merge"
      OBVIOUS
    <3>2. up' = up \/ up' = Append(up, m)
      BY <2>1 DEF Sending, Pushes
    <3> QED
      BY <3>1, <3>2
  <2>2. ASSUME NEW m, Requesting(page, page', m)
        PROVE  /\ up' = up \/ up' = Append(up, m)
               /\ m.type # "recover" /\ (m.type # "discard_merge" \/ page.merge # None)
    <3>1. CASE m = [type |-> "save", x |-> m.x]
      <4>1. m.type = "save"
        BY <3>1
      <4> QED
        BY <2>2, <4>1 DEF Requesting, Pushes
    <3>2. CASE m # [type |-> "save", x |-> m.x]
      BY <2>2, <3>2 DEF Requesting, Request, Leavings, Pushes
    <3> QED
      BY <3>1, <3>2
  <2>3. CASE Looking(page, page')
    <3>1. /\ On(page'.view).type \notin {"recover", "discard_merge"}
          /\ Off.type \notin {"recover", "discard_merge"}
      BY DEF On, Off
    <3>2. up' = up \/ Pushes(On(page'.view)) \/ Pushes(Off)
      BY <2>3 DEF Looking
    <3> QED
      BY <3>1, <3>2 DEF Pushes
  <2>4. CASE Guarding(page, page')
    <3>1. Guard.type \notin {"recover", "discard_merge"}
      BY DEF Guard
    <3> QED
      BY <2>4, <3>1 DEF Guarding, Pushes
  <2> QED
    BY <2>1, <2>2, <2>3, <2>4 DEF OperatorStep, Typing, Blurring, Highlighting
<1> QED
  BY <1>1, <1>2, <1>3, <1>4, BlockPush

LEMMA BlockHandle ==
    ASSUME Base, BlockInv, HandleStep
    PROVE  BlockInv'
<1> DEFINE type == Head(up).type
           m == AnswerTo(type, srv')
           o == Append(down, m)
<1>1. /\ Len(o) = Len(down) + 1 /\ Len(down) \in Nat
      /\ \A i \in 1 .. Len(down) : o[i] = down[i]
      /\ o[Len(down) + 1] = m
  BY OneMore DEF Base, AnswersIn
<1>2. down' = o /\ page' = page /\ up' = Tail(up) /\ up # <<>> /\ online' = online
  BY DEF HandleStep
<1>3. m.out = srv'.out /\ (srv'.merge = None => m.w.merge = None)
  BY DEF AnswerTo, View
<1> HIDE DEF m, o
<1>4. \A i \in 1 .. Len(o) : i \in 1 .. Len(down) \/ i = Len(down) + 1
  BY <1>1
<1>5. /\ Len(up) \in Nat /\ Len(up) >= 1 /\ Head(up) = up[1]
      /\ Len(Tail(up)) = Len(up) - 1 /\ (Tail(up) = <<>> <=> Len(up) = 1)
      /\ \A i \in 1 .. Len(up) - 1 : Tail(up)[i] = up[i + 1]
  BY OneLess DEF HandleStep, Base, Messages
<1>6. \A i \in 1 .. Len(up) - 1 : i + 1 \in 1 .. Len(up) /\ i + 1 \in 2 .. Len(up)
  BY <1>5
<1>7. \A i \in 1 .. Len(up') : up'[i].type # "recover"
  BY <1>2, <1>5, <1>6 DEF BlockInv, RecoveryIsFirst
<1>8. RecoveryIsFirst' /\ ~Recovering'
  <2>1. \A i \in 2 .. Len(up') : i \in 1 .. Len(up')
    BY <1>2, <1>5
  <2>2. up' # <<>> => 1 \in 1 .. Len(up')
    BY <1>2, <1>5
  <2> QED
    BY <1>7, <2>1, <2>2 DEF RecoveryIsFirst, Recovering
<1>9. Recovering <=> type = "recover"
  BY <1>2, <1>5 DEF Recovering
<1>10. Recovering \/ srv.blocked => type # "discard_merge"
  BY <1>5 DEF BlockInv, RefusedInv
<1>11. /\ srv'.blocked => srv.blocked \/ (type = "recover" /\ ~db.editor)
       /\ srv.blocked /\ ~db.editor /\ srv.merge = None /\ type # "discard_merge"
            => srv'.blocked /\ srv'.merge = None
       /\ type = "recover" => srv'.merge = srv.merge /\ (srv'.blocked \/ srv'.out = Recovered(TRUE))
  BY DEF HandleStep, Handled
<1>12. db'.editor = db.editor
  BY DEF HandleStep, Stores
<1>13. EditorInv'
  BY <1>11, <1>12 DEF BlockInv, EditorInv
<1>14. RefusedInv'
  <2> SUFFICES ASSUME srv'.blocked
               PROVE  /\ srv'.merge = None /\ page.merge = None /\ NoMergeIn(o)
                      /\ \A i \in 1 .. Len(up') : up'[i].type # "discard_merge"
    BY <1>2, <1>8 DEF RefusedInv
  <2>1. Recovering \/ srv.blocked
    BY <1>9, <1>11
  <2>2. /\ srv.merge = None /\ page.merge = None /\ NoMergeIn(down)
        /\ \A i \in 1 .. Len(up) : up[i].type # "discard_merge"
    BY <2>1 DEF BlockInv, RefusedInv
  <2>3. srv'.merge = None
    BY <1>9, <1>10, <1>11, <2>1, <2>2 DEF BlockInv, EditorInv
  <2>4. NoMergeIn(o)
    BY <1>1, <1>3, <1>4, <2>2, <2>3 DEF NoMergeIn
  <2>5. \A i \in 1 .. Len(up') : up'[i].type # "discard_merge"
    BY <1>2, <1>5, <1>6, <2>2
  <2> QED
    BY <2>2, <2>3, <2>4, <2>5
<1>15. AllowedIn(down) \/ m.out = Recovered(TRUE) => AllowedIn(o)
  <2>1. \A i \in 1 .. Len(down) : i \in 1 .. Len(o)
    BY <1>1
  <2>2. Len(down) + 1 \in 1 .. Len(o)
    BY <1>1
  <2> QED
    BY <1>1, <2>1, <2>2 DEF AllowedIn
<1>16. WaitingInv'
  <2> SUFFICES ASSUME page.where = "details", online, page.offline
               PROVE  srv'.blocked \/ AllowedIn(o)
    BY <1>2 DEF WaitingInv
  <2>1. Recovering \/ srv.blocked \/ AllowedIn(down)
    BY DEF BlockInv, WaitingInv
  <2>2. CASE Recovering
    BY <1>3, <1>9, <1>11, <1>15, <2>2
  <2>3. CASE srv.blocked
    BY <1>10, <1>11, <2>3 DEF BlockInv, RefusedInv, EditorInv
  <2>4. CASE AllowedIn(down)
    BY <1>15, <2>4
  <2> QED
    BY <2>1, <2>2, <2>3, <2>4
<1> QED
  BY <1>8, <1>13, <1>14, <1>16 DEF BlockInv

LEMMA BlockDeliver ==
    ASSUME Base, BlockInv, DeliverStep
    PROVE  BlockInv'
<1>1. /\ down # <<>> /\ Len(down) \in Nat /\ Len(down) >= 1 /\ Head(down) = down[1]
      /\ Len(Tail(down)) = Len(down) - 1
      /\ \A i \in 1 .. Len(down) - 1 : Tail(down)[i] = down[i + 1]
  BY OneLess DEF DeliverStep, Base, AnswersIn
<1>2. \A i \in 1 .. Len(down) - 1 : i + 1 \in 1 .. Len(down)
  BY <1>1
<1>3. PICK b : Patched(page, Head(down), b) /\ Listening(b, Head(down).out, page')
  BY DEF DeliverStep
<1>4. srv' = srv /\ db' = db /\ online' = online
  BY DEF DeliverStep
<1>5. page'.merge = b.merge /\ (page'.offline => page.offline) /\ b.where = page.where
  <2>1. page'.merge = b.merge
    BY <1>3, ListeningKeeps DEF Writes, PageFields
  <2>2. page'.offline => b.offline
    BY <1>3, ListeningFocus
  <2>3. b.offline <=> page.offline
    BY <1>3 DEF Patched
  <2>4. b.where = page.where
    BY <1>3 DEF Patched, Writes, PageFields, Acking, Around, Drawing, PatchingForm, Painting
  <2> QED
    BY <2>1, <2>2, <2>3, <2>4
<1>6. page.merge = None /\ Head(down).w.merge = None => page'.merge = None
  <2>1. CASE Locked
    BY <1>3, <1>5, <2>1 DEF Patched, Writes, PageFields, Acking, Around, Drawing
  <2>2. CASE ~Locked
    BY <1>3, <1>5, <2>2 DEF Patched
  <2> QED
    BY <2>1, <2>2
<1>7. Recovering \/ srv.blocked => page'.merge = None
  BY <1>1, <1>6 DEF BlockInv, RefusedInv, NoMergeIn
<1>8. CASE page'.where = "elsewhere"
  <2>1. up' = <<>> /\ down' = <<>>
    BY <1>8 DEF DeliverStep
  <2> QED
    BY <1>4, <1>7, <1>8, <2>1, NoneYet
    DEF BlockInv, RecoveryIsFirst, RefusedInv, EditorInv, WaitingInv, Recovering, NoMergeIn
<1>9. CASE page'.where # "elsewhere"
  <2>1. up' = up /\ down' = Tail(down)
    BY <1>9 DEF DeliverStep
  <2>2. NoMergeIn(down) => NoMergeIn(Tail(down))
    BY <1>1, <1>2 DEF NoMergeIn
  <2>3. RecoveryIsFirst' /\ EditorInv'
    BY <1>4, <2>1 DEF BlockInv, RecoveryIsFirst, EditorInv
  <2>4. RefusedInv'
    BY <1>4, <1>7, <2>1, <2>2 DEF BlockInv, RefusedInv, Recovering
  <2>5. Head(down).out = Recovered(TRUE) => ~page'.offline
    <3>1. /\ Recovered(TRUE) # None /\ Recovered(TRUE) # FocusEvent /\ Recovered(TRUE) # Recovered(FALSE)
          /\ \A why : Recovered(TRUE) # Navigated(why)
      <4>1. Recovered(TRUE).type = "recovered" /\ Recovered(TRUE).x /\ FocusEvent.type = "focus"
            /\ ~Recovered(FALSE).x /\ \A why : Navigated(why).type = "navigate"
        BY DEF Recovered, FocusEvent, Navigated
      <4> QED
        BY <4>1, EventsArePushed
    <3> QED
      BY <1>3, <3>1 DEF Listening
  <2>6. AllowedIn(down) => AllowedIn(Tail(down)) \/ Head(down).out = Recovered(TRUE)
    <3> SUFFICES ASSUME NEW i \in 1 .. Len(down), down[i].out = Recovered(TRUE), i # 1
                 PROVE  AllowedIn(Tail(down))
      BY <1>1 DEF AllowedIn
    <3>1. i - 1 \in 1 .. Len(down) - 1
      BY <1>1
    <3>2. Tail(down)[i - 1] = down[i]
      <4>1. Tail(down)[i - 1] = down[(i - 1) + 1]
        BY <1>1, <3>1
      <4>2. (i - 1) + 1 = i
        OBVIOUS
      <4> QED
        BY <4>1, <4>2
    <3> QED
      BY <1>1, <3>1, <3>2 DEF AllowedIn
  <2>7. page'.where = "details" => page.where = "details"
    BY <1>1 DEF Base, Connected
  <2>8. WaitingInv'
    BY <1>4, <1>5, <2>1, <2>5, <2>6, <2>7 DEF BlockInv, WaitingInv, Recovering
  <2> QED
    BY <2>3, <2>4, <2>8 DEF BlockInv
<1> QED
  BY <1>8, <1>9

LEMMA BlockStays ==
    ASSUME Base, BlockInv, Steps
    PROVE  BlockInv'
<1>1. CASE OperatorStep
  BY <1>1, BlockOperator
<1>2. CASE LeaveStep \/ DropStep
  <2>1. /\ up' = <<>> /\ down' = <<>> /\ srv' = srv /\ db' = db
        /\ page'.where # "details" \/ ~online'
    BY <1>2 DEF LeaveStep, DropStep
  <2>2. page'.merge = page.merge
    BY <1>2 DEF LeaveStep, DropStep, Writes, PageFields
  <2> QED
    BY <2>1, <2>2, NoneYet
    DEF BlockInv, RecoveryIsFirst, RefusedInv, EditorInv, WaitingInv, Recovering, NoMergeIn
<1>3. CASE ReturnStep
  <2>1. up' = <<>> /\ down' = <<>>
    BY <1>3 DEF ReturnStep, Base, Connected
  <2> QED
    BY <1>3, <2>1, NoneYet
    DEF ReturnStep, Fresh, BlockInv, RecoveryIsFirst, RefusedInv, EditorInv, WaitingInv, Recovering
<1>4. CASE HandleStep
  BY <1>4, BlockHandle
<1>5. CASE DeliverStep
  BY <1>5, BlockDeliver
<1>6. CASE OthersStep
  BY <1>6 DEF OthersStep, BlockInv, RecoveryIsFirst, RefusedInv, EditorInv, WaitingInv, Recovering
<1>7. CASE UNCHANGED vars
  BY <1>7 DEF vars, BlockInv, RecoveryIsFirst, RefusedInv, EditorInv, WaitingInv, Recovering
<1>8. CASE RejoinStep
  <2>1. up' = <<Recover>> /\ down' = <<>>
    BY <1>8 DEF RejoinStep, Base, Connected
  <2>2. Len(up') = 1 /\ up'[1].type = "recover" /\ up' # <<>>
    BY <2>1 DEF Recover
  <2>3. RecoveryIsFirst' /\ Recovering'
    BY <2>2 DEF RecoveryIsFirst, Recovering
  <2>4. srv'.merge = None /\ ~srv'.blocked /\ page'.merge = View(srv').merge
    BY <1>8 DEF RejoinStep, Fresh
  <2>5. page'.merge = None
    BY <2>4 DEF View
  <2> QED
    BY <2>1, <2>2, <2>3, <2>4, <2>5, NoneYet DEF BlockInv, RefusedInv, EditorInv, WaitingInv, NoMergeIn
<1> QED
  BY <1>1, <1>2, <1>3, <1>4, <1>5, <1>6, <1>7, <1>8 DEF Steps

\* While the connection is down, and after it until the new process has checked the
\* editor, nothing can be saved; and the block ends with that answer.
THEOREM BlockEndsWithTheAnswer == Spec => []BlockedUntilAnswered
<1>1. Init => BlockInv
  BY StartIsOpen, NoneYet
  DEF Opened, Fresh, BlockInv, RecoveryIsFirst, RefusedInv, EditorInv, WaitingInv, Recovering
<1>2. ASSUME Base, BlockInv, [Next]_vars
      PROVE  BlockInv'
  BY <1>2, NextSteps, BlockStays
<1>3. ASSUME Base, BlockInv
      PROVE  BlockedUntilAnswered
  <2>1. page.offline => page.disabled
    BY <1>3 DEF Base, PageInv
  <2>2. ~online => page.offline
    BY <1>3 DEF Base, Connected
  <2>3. AtRest /\ page.offline => srv.blocked
    <3> SUFFICES ASSUME AtRest, page.offline
                 PROVE  srv.blocked
      OBVIOUS
    <3>1. page.where = "details" /\ online /\ up = <<>> /\ down = <<>>
      BY DEF AtRest
    <3>2. ~Recovering /\ ~AllowedIn(down)
      BY <3>1, NoneYet DEF Recovering, AllowedIn
    <3> QED
      BY <1>3, <3>1, <3>2 DEF BlockInv, WaitingInv
  <2> QED
    BY <2>1, <2>2, <2>3 DEF BlockedUntilAnswered
<1> QED
  BY <1>1, <1>2, <1>3, BaseHolds, PTL DEF Spec


=============================================================================
