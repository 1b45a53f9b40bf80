---------------------------- MODULE StopMapProofs ----------------------------
(***************************************************************************)
(* For any stops, lines and places and any number of actions: the screen   *)
(* belongs to the scene, the view and the pin; at rest the panel lists the *)
(* view and the pin is the placement; and a late save leaves the panels of *)
(* other stops alone.                                                      *)
(***************************************************************************)
EXTENDS StopMap, WellFoundedInduction, NaturalsInduction, TLAPS

-----------------------------------------------------------------------------
(* Queues.                                                                 *)

IsSeq(q) == \E S : q \in Seq(S)

LEMMA OneMore ==
    ASSUME NEW q, IsSeq(q), NEW m
    PROVE  /\ IsSeq(Append(q, m)) /\ Append(q, m) # <<>>
           /\ Len(Append(q, m)) = Len(q) + 1 /\ Len(q) \in Nat
           /\ \A i \in 1 .. Len(q) : Append(q, m)[i] = q[i]
           /\ Append(q, m)[Len(q) + 1] = m
<1>1. PICK S : q \in Seq(S)
  BY DEF IsSeq
<1>2. q \in Seq(S \cup {m}) /\ m \in S \cup {m}
  BY <1>1
<1> QED
  BY <1>2 DEF IsSeq

LEMMA OneLess ==
    ASSUME NEW q, IsSeq(q), q # <<>>
    PROVE  /\ IsSeq(Tail(q)) /\ Len(q) \in Nat /\ Len(q) >= 1 /\ Head(q) = q[1]
           /\ Len(Tail(q)) = Len(q) - 1
           /\ \A i \in 1 .. Len(q) - 1 : Tail(q)[i] = q[i + 1]
<1>1. PICK S : q \in Seq(S)
  BY DEF IsSeq
<1>2. Len(q) \in Nat /\ Len(q) >= 1 /\ Head(q) = q[1]
  BY <1>1
<1>3. Tail(q) \in Seq(S) /\ Len(Tail(q)) = Len(q) - 1
  BY <1>1
<1>4. \A i \in 1 .. Len(q) - 1 : Tail(q)[i] = q[i + 1]
  BY <1>1
<1> QED
  BY <1>2, <1>3, <1>4 DEF IsSeq

LEMMA NoneYet ==
    IsSeq(<<>>) /\ Len(<<>>) = 0
<1>1. <<>> \in Seq({})
  OBVIOUS
<1> QED
  BY <1>1 DEF IsSeq

LEMMA Joined ==
    ASSUME NEW q, NEW r, IsSeq(q), IsSeq(r)
    PROVE  /\ IsSeq(q \o r) /\ Len(q) \in Nat /\ Len(r) \in Nat
           /\ Len(q \o r) = Len(q) + Len(r)
           /\ \A i \in 1 .. Len(q) : (q \o r)[i] = q[i]
           /\ \A i \in 1 .. Len(r) : (q \o r)[Len(q) + i] = r[i]
           /\ \A i \in 1 .. Len(q) + Len(r) : i > Len(q) => (q \o r)[i] = r[i - Len(q)]
<1>1. PICK S : q \in Seq(S)
  BY DEF IsSeq
<1>2. PICK T : r \in Seq(T)
  BY DEF IsSeq
<1>3. q \in Seq(S \cup T) /\ r \in Seq(S \cup T)
  BY <1>1, <1>2
<1> QED
  BY <1>3 DEF IsSeq

-----------------------------------------------------------------------------
(* What the server is told of the view.                                    *)

EventTypes ==
    {"ready", "bounds", "map_unavailable", "retry_map", "start_add", "cancel_add", "place",
     "pin_moved", "paste", "add_field", "edit_field", "put_back", "find_pin",
     "create_stop", "save_stop", "select_stop", "cancel_edit", "keep_editing",
     "discard_changes"}
Events(q) == \A i \in 1 .. Len(q) : q[i].type \in EventTypes
NoBounds(q) == \A i \in 1 .. Len(q) : q[i].type # "bounds"

\* One that knew the view b knows v when the events of q are handled.
Knows(q, b, v) ==
    \/ b = v /\ NoBounds(q)
    \/ \E i \in 1 .. Len(q) : /\ q[i].type = "bounds" /\ q[i].x = v
                              /\ \A j \in i + 1 .. Len(q) : q[j].type # "bounds"

LEMMA KnowsMore ==
    ASSUME NEW q, IsSeq(q), Events(q), NEW b, NEW v, Knows(q, b, v), NEW e, e.type \in EventTypes
    PROVE  /\ IsSeq(Append(q, e)) /\ Events(Append(q, e))
           /\ e.type # "bounds" => Knows(Append(q, e), b, v)
           /\ e.type = "bounds" => Knows(Append(q, e), b, e.x)
<1> DEFINE r == Append(q, e)
<1>1. /\ IsSeq(r) /\ Len(r) = Len(q) + 1 /\ Len(q) \in Nat
      /\ \A i \in 1 .. Len(q) : r[i] = q[i]
      /\ r[Len(q) + 1] = e
  BY OneMore
<1> HIDE DEF r
<1>2. Events(r)
  BY <1>1 DEF Events
<1>3. e.type # "bounds" => Knows(r, b, v)
  <2>1. CASE b = v /\ NoBounds(q)
    BY <1>1, <2>1 DEF Knows, NoBounds
  <2>2. CASE \E i \in 1 .. Len(q) : /\ q[i].type = "bounds" /\ q[i].x = v
                                    /\ \A j \in i + 1 .. Len(q) : q[j].type # "bounds"
    <3>1. PICK i \in 1 .. Len(q) : /\ q[i].type = "bounds" /\ q[i].x = v
                                   /\ \A j \in i + 1 .. Len(q) : q[j].type # "bounds"
      BY <2>2
    <3>2. i \in 1 .. Len(r) /\ r[i] = q[i]
      BY <1>1
    <3>3. ASSUME e.type # "bounds", NEW j \in i + 1 .. Len(r)
          PROVE  r[j].type # "bounds"
      <4>1. CASE j = Len(q) + 1
        BY <1>1, <3>3, <4>1
      <4>2. CASE j \in i + 1 .. Len(q)
        BY <1>1, <3>1, <4>2
      <4> QED
        BY <1>1, <4>1, <4>2
    <3> QED
      BY <3>1, <3>2, <3>3 DEF Knows
  <2> QED
    BY <2>1, <2>2 DEF Knows
<1>4. e.type = "bounds" => Knows(r, b, e.x)
  <2>1. Len(q) + 1 \in 1 .. Len(r) /\ \A j \in Len(q) + 1 + 1 .. Len(r) : FALSE
    BY <1>1
  <2> QED
    BY <1>1, <2>1 DEF Knows
<1> QED
  BY <1>1, <1>2, <1>3, <1>4 DEF r

LEMMA KnowsJoined ==
    ASSUME NEW q, NEW r, IsSeq(q), IsSeq(r), Events(q), Events(r),
           NEW b, NEW v, NEW w, Knows(q, b, v), Knows(r, v, w)
    PROVE  IsSeq(q \o r) /\ Events(q \o r) /\ Knows(q \o r, b, w)
<1> DEFINE s == q \o r
<1>1. /\ IsSeq(s) /\ Len(q) \in Nat /\ Len(r) \in Nat /\ Len(s) = Len(q) + Len(r)
      /\ \A i \in 1 .. Len(q) : s[i] = q[i]
      /\ \A i \in 1 .. Len(r) : s[Len(q) + i] = r[i]
      /\ \A i \in 1 .. Len(q) + Len(r) : i > Len(q) => s[i] = r[i - Len(q)]
  BY Joined
<1> HIDE DEF s
<1>2. Events(s)
  <2> SUFFICES ASSUME NEW i \in 1 .. Len(s) PROVE s[i].type \in EventTypes
    BY DEF Events
  <2>1. CASE i <= Len(q)
    <3>1. i \in 1 .. Len(q)
      BY <1>1, <2>1
    <3> QED
      BY <1>1, <3>1 DEF Events
  <2>2. CASE i > Len(q)
    <3>1. i - Len(q) \in 1 .. Len(r) /\ s[i] = r[i - Len(q)]
      BY <1>1, <2>2
    <3> QED
      BY <3>1 DEF Events
  <2> QED
    BY <1>1, <2>1, <2>2
<1>3. CASE v = w /\ NoBounds(r)
  <2>1. \A j \in 1 .. Len(s) : j > Len(q) => s[j].type # "bounds"
    <3> TAKE j \in 1 .. Len(s)
    <3> HAVE j > Len(q)
    <3>1. j - Len(q) \in 1 .. Len(r) /\ s[j] = r[j - Len(q)]
      BY <1>1
    <3> QED
      BY <1>3, <3>1 DEF NoBounds
  <2>2. CASE b = v /\ NoBounds(q)
    <3>1. \A j \in 1 .. Len(s) : j <= Len(q) => s[j].type # "bounds"
      BY <1>1, <2>2 DEF NoBounds
    <3>2. NoBounds(s)
      BY <1>1, <2>1, <3>1 DEF NoBounds
    <3> QED
      BY <1>3, <2>2, <3>2, <1>1, <1>2 DEF Knows, s
  <2>3. CASE \E i \in 1 .. Len(q) : /\ q[i].type = "bounds" /\ q[i].x = v
                                    /\ \A j \in i + 1 .. Len(q) : q[j].type # "bounds"
    <3>1. PICK i \in 1 .. Len(q) : /\ q[i].type = "bounds" /\ q[i].x = v
                                   /\ \A j \in i + 1 .. Len(q) : q[j].type # "bounds"
      BY <2>3
    <3>2. i \in 1 .. Len(s) /\ s[i] = q[i]
      BY <1>1
    <3>3. ASSUME NEW j \in i + 1 .. Len(s)
          PROVE  s[j].type # "bounds"
      <4>1. CASE j <= Len(q)
        <5>1. j \in i + 1 .. Len(q) /\ s[j] = q[j]
          BY <1>1, <4>1
        <5> QED
          BY <3>1, <5>1
      <4>2. CASE j > Len(q)
        BY <1>1, <2>1, <4>2
      <4> QED
        BY <1>1, <4>1, <4>2
    <3>4. Knows(s, b, w)
      BY <1>3, <3>1, <3>2, <3>3 DEF Knows
    <3> QED
      BY <1>1, <1>2, <3>4 DEF s
  <2> QED
    BY <2>2, <2>3 DEF Knows
<1>4. CASE \E i \in 1 .. Len(r) : /\ r[i].type = "bounds" /\ r[i].x = w
                                  /\ \A j \in i + 1 .. Len(r) : r[j].type # "bounds"
  <2>1. PICK i \in 1 .. Len(r) : /\ r[i].type = "bounds" /\ r[i].x = w
                                 /\ \A j \in i + 1 .. Len(r) : r[j].type # "bounds"
    BY <1>4
  <2>2. Len(q) + i \in 1 .. Len(s) /\ s[Len(q) + i] = r[i]
    BY <1>1
  <2>3. ASSUME NEW j \in Len(q) + i + 1 .. Len(s)
        PROVE  s[j].type # "bounds"
    <3>1. j - Len(q) \in i + 1 .. Len(r) /\ j \in 1 .. Len(q) + Len(r) /\ j > Len(q)
      BY <1>1
    <3> QED
      BY <1>1, <2>1, <3>1
  <2>4. Knows(s, b, w)
    BY <2>1, <2>2, <2>3 DEF Knows
  <2> QED
    BY <1>1, <1>2, <2>4 DEF s
<1> QED
  BY <1>3, <1>4 DEF Knows

LEMMA KnowsLess ==
    ASSUME NEW q, IsSeq(q), q # <<>>, Events(q), NEW b, NEW v, Knows(q, b, v)
    PROVE  /\ Head(q).type \in EventTypes /\ IsSeq(Tail(q)) /\ Events(Tail(q))
           /\ Head(q).type # "bounds" => Knows(Tail(q), b, v)
           /\ Head(q).type = "bounds" => Knows(Tail(q), Head(q).x, v)
<1> DEFINE r == Tail(q)
<1>1. /\ IsSeq(r) /\ Len(q) \in Nat /\ Len(q) >= 1 /\ Head(q) = q[1]
      /\ Len(r) = Len(q) - 1 /\ \A i \in 1 .. Len(q) - 1 : r[i] = q[i + 1]
  BY OneLess
<1> HIDE DEF r
<1>2. \A i \in 1 .. Len(r) : i + 1 \in 1 .. Len(q) /\ r[i] = q[i + 1]
  BY <1>1
<1>3. Head(q).type \in EventTypes /\ Events(r)
  <2>1. 1 \in 1 .. Len(q)
    BY <1>1
  <2> QED
    BY <1>1, <1>2, <2>1 DEF Events
<1>4. CASE b = v /\ NoBounds(q)
  <2>1. NoBounds(r) /\ Head(q).type # "bounds"
    <3>1. 1 \in 1 .. Len(q)
      BY <1>1
    <3> QED
      BY <1>1, <1>2, <1>4, <3>1 DEF NoBounds
  <2> QED
    BY <1>1, <1>3, <1>4, <2>1 DEF Knows, r
<1>5. CASE \E i \in 1 .. Len(q) : /\ q[i].type = "bounds" /\ q[i].x = v
                                  /\ \A j \in i + 1 .. Len(q) : q[j].type # "bounds"
  <2>1. PICK i \in 1 .. Len(q) : /\ q[i].type = "bounds" /\ q[i].x = v
                                 /\ \A j \in i + 1 .. Len(q) : q[j].type # "bounds"
    BY <1>5
  <2>2. \A j \in i .. Len(r) : r[j].type # "bounds"
    <3> TAKE j \in i .. Len(r)
    <3>1. j \in 1 .. Len(r) /\ j + 1 \in i + 1 .. Len(q)
      BY <1>1
    <3> QED
      BY <1>2, <2>1, <3>1
  <2>3. CASE i = 1
    <3>1. NoBounds(r) /\ Head(q).type = "bounds" /\ Head(q).x = v
      BY <1>1, <2>1, <2>2, <2>3 DEF NoBounds
    <3>2. Knows(r, Head(q).x, v)
      BY <3>1, Zenon DEF Knows
    <3> QED
      BY <1>1, <1>3, <3>1, <3>2 DEF r
  <2>4. CASE i # 1
    <3>1. i - 1 \in 1 .. Len(r)
      BY <1>1, <2>4
    <3>2. r[i - 1] = q[i]
      BY <1>1, <3>1
    <3>3. \A j \in i - 1 + 1 .. Len(r) : r[j].type # "bounds"
      BY <2>2
    <3>4. \A c : Knows(r, c, v)
      BY <2>1, <3>1, <3>2, <3>3 DEF Knows
    <3> QED
      BY <1>1, <1>3, <3>4 DEF r
  <2> QED
    BY <2>3, <2>4
<1> QED
  BY <1>4, <1>5 DEF Knows

-----------------------------------------------------------------------------
(* The page, and what an assignment to some of its fields leaves.          *)

PageFields == {"mode", "pin", "ghost", "element", "drag", "layers", "crosshair", "scene",
               "lines", "stops", "routes", "view", "announced", "sent"}
Shape(p) == PageFields \subseteq DOMAIN p

\* Only the fields of a set are written.
Writes(p, o, set) == Shape(o) /\ \A f \in PageFields \ set : o[f] = p[f]

Placing == {"pin", "element", "drag", "layers", "crosshair"}
Drawing == {"lines", "stops"}
Viewing == {"view", "lines", "stops", "element", "announced", "sent"}

LEMMA WritesOn ==
    ASSUME NEW p, NEW o, NEW q, NEW X, NEW Y, NEW Z, Writes(p, o, X), Writes(o, q, Y),
           X \cup Y \subseteq Z
    PROVE  Writes(p, q, Z)
BY DEF Writes

LinesAreDrawn(p) == p.lines = LinesDrawn(p)
StopsAreDrawn(p) == p.stops = StopsDrawn(p)
LayersAreDrawn(p) == p.layers = PinLayers(p)
ModeIsShown(p) == p.crosshair = (p.mode = "add" /\ p.pin = None)
PinIsThere(p) ==
    p.element = IF p.pin = None THEN NoElement ELSE [at |-> p.pin, view |-> p.view]
DragsAPin(p) == p.drag => p.pin # None

\* There is a button whenever there is a pin.
ButtonIsThere(p) == p.element = NoElement <=> p.pin = None

\* b is the view that the server knows of when what is on its way arrives.
Announced(p, b) ==
    IsSeq(p.sent) /\ Events(p.sent) /\ Knows(p.sent, b, p.announced)

DrawInv(p) == LinesAreDrawn(p) /\ StopsAreDrawn(p)
PinInv(p) == LayersAreDrawn(p) /\ ModeIsShown(p) /\ PinIsThere(p) /\ DragsAPin(p)
ViewInv(p, b) == Announced(p, b) /\ p.announced = p.view
HookInv(p, b) == Shape(p) /\ DrawInv(p) /\ PinInv(p) /\ ViewInv(p, b)

LEMMA ButtonOfPin ==
    ASSUME NEW p, PinIsThere(p)
    PROVE  ButtonIsThere(p)
<1>1. p.pin # None => [at |-> p.pin, view |-> p.view] # NoElement
  <2>1. [at |-> p.pin, view |-> p.view].at = p.pin /\ NoElement.at = None
    BY DEF NoElement
  <2> QED
    BY <2>1
<1> QED
  BY <1>1 DEF PinIsThere, ButtonIsThere

LEMMA DrawStays ==
    ASSUME NEW p, NEW o, DrawInv(p), o.lines = p.lines, o.stops = p.stops,
           o.scene = p.scene, o.routes = p.routes, o.view = p.view
    PROVE  DrawInv(o)
BY DEF DrawInv, LinesAreDrawn, StopsAreDrawn, LinesDrawn, StopsDrawn

LEMMA PinStays ==
    ASSUME NEW p, NEW o, PinInv(p), o.pin = p.pin, o.ghost = p.ghost, o.mode = p.mode,
           o.layers = p.layers, o.crosshair = p.crosshair, o.element = p.element,
           o.view = p.view, o.drag = p.drag
    PROVE  PinInv(o)
<1>1. LayersAreDrawn(o)
  BY DEF PinInv, LayersAreDrawn, PinLayers
<1>2. ModeIsShown(o)
  BY DEF PinInv, ModeIsShown
<1>3. PinIsThere(o) /\ DragsAPin(o)
  BY DEF PinInv, PinIsThere, DragsAPin
<1> QED
  BY <1>1, <1>2, <1>3 DEF PinInv

LEMMA HookStays ==
    ASSUME NEW p, NEW b, HookInv(p, b), NEW o, Writes(p, o, {})
    PROVE  HookInv(o, b)
<1>1. Shape(o) /\ \A f \in PageFields : o[f] = p[f]
  BY DEF Writes
<1>2. /\ o.mode = p.mode /\ o.pin = p.pin /\ o.ghost = p.ghost /\ o.element = p.element
      /\ o.drag = p.drag /\ o.layers = p.layers /\ o.crosshair = p.crosshair
      /\ o.scene = p.scene /\ o.lines = p.lines /\ o.stops = p.stops
      /\ o.routes = p.routes /\ o.view = p.view /\ o.announced = p.announced
      /\ o.sent = p.sent
  BY <1>1 DEF PageFields
<1>3. DrawInv(o) /\ PinInv(o)
  BY <1>2, DrawStays, PinStays DEF HookInv
<1> QED
  BY <1>1, <1>2, <1>3 DEF HookInv, ViewInv, Announced

-----------------------------------------------------------------------------
(* What the hook does.                                                     *)

LEMMA LinesWrites ==
    ASSUME NEW p, Shape(p)
    PROVE  Writes(p, RedrawLines(p), {"lines"}) /\ LinesAreDrawn(RedrawLines(p))
<1> DEFINE o == RedrawLines(p)
<1>1. Writes(p, o, {"lines"}) /\ o.lines = LinesDrawn(p)
  BY DEF RedrawLines, Writes, Shape, PageFields
<1> HIDE DEF o
<1>2. o.scene = p.scene /\ o.routes = p.routes /\ o.view = p.view
  BY <1>1 DEF Writes, PageFields
<1>3. LinesAreDrawn(o)
  BY <1>1, <1>2 DEF LinesAreDrawn, LinesDrawn
<1> QED
  BY <1>1, <1>3 DEF o

LEMMA StopsWrites ==
    ASSUME NEW p, Shape(p)
    PROVE  Writes(p, RedrawStops(p), {"stops"}) /\ StopsAreDrawn(RedrawStops(p))
<1> DEFINE o == RedrawStops(p)
<1>1. Writes(p, o, {"stops"}) /\ o.stops = StopsDrawn(p)
  BY DEF RedrawStops, Writes, Shape, PageFields
<1> HIDE DEF o
<1>2. o.scene = p.scene /\ o.view = p.view
  BY <1>1 DEF Writes, PageFields
<1>3. StopsAreDrawn(o)
  BY <1>1, <1>2 DEF StopsAreDrawn, StopsDrawn
<1> QED
  BY <1>1, <1>3 DEF o

LEMMA BothWrite ==
    ASSUME NEW p, Shape(p)
    PROVE  /\ Writes(p, RedrawStops(RedrawLines(p)), Drawing)
           /\ DrawInv(RedrawStops(RedrawLines(p)))
<1> DEFINE m == RedrawLines(p)
           o == RedrawStops(m)
<1>1. Writes(p, m, {"lines"}) /\ LinesAreDrawn(m)
  BY LinesWrites
<1>2. Shape(m)
  BY <1>1 DEF Writes
<1> HIDE DEF m
<1>3. Writes(m, o, {"stops"}) /\ StopsAreDrawn(o)
  BY <1>2, StopsWrites
<1> HIDE DEF o
<1>4. Writes(p, o, Drawing)
  BY <1>1, <1>3, WritesOn DEF Drawing
<1>5. o.scene = m.scene /\ o.routes = m.routes /\ o.view = m.view /\ o.lines = m.lines
  BY <1>3 DEF Writes, PageFields
<1>6. LinesAreDrawn(o)
  BY <1>1, <1>5 DEF LinesAreDrawn, LinesDrawn
<1> QED
  BY <1>3, <1>4, <1>6 DEF DrawInv, o, m

LEMMA LayersWrites ==
    ASSUME NEW p, Shape(p)
    PROVE  Writes(p, DrawPinLayers(p), {"layers"}) /\ LayersAreDrawn(DrawPinLayers(p))
<1> DEFINE o == DrawPinLayers(p)
<1>1. Writes(p, o, {"layers"}) /\ o.layers = PinLayers(p)
  BY DEF DrawPinLayers, Writes, Shape, PageFields
<1> HIDE DEF o
<1>2. o.pin = p.pin /\ o.ghost = p.ghost
  BY <1>1 DEF Writes, PageFields
<1>3. LayersAreDrawn(o)
  BY <1>1, <1>2 DEF LayersAreDrawn, PinLayers
<1> QED
  BY <1>1, <1>3 DEF o

LEMMA PositionWrites ==
    ASSUME NEW p, Shape(p), ButtonIsThere(p)
    PROVE  Writes(p, PositionPin(p), {"element"}) /\ PinIsThere(PositionPin(p))
<1> DEFINE o == PositionPin(p)
<1>1. Writes(p, o, {"element"})
  BY DEF PositionPin, Writes, Shape, PageFields
<1>2. o.element = IF p.pin = None THEN NoElement ELSE [at |-> p.pin, view |-> p.view]
  BY DEF PositionPin, Shape, PageFields, ButtonIsThere
<1> HIDE DEF o
<1>3. o.pin = p.pin /\ o.view = p.view
  BY <1>1 DEF Writes, PageFields
<1>4. PinIsThere(o)
  BY <1>2, <1>3 DEF PinIsThere
<1> QED
  BY <1>1, <1>4 DEF o

LEMMA ModeWrites ==
    ASSUME NEW p, Shape(p)
    PROVE  Writes(p, SyncModeChrome(p), {"crosshair"}) /\ ModeIsShown(SyncModeChrome(p))
<1> DEFINE o == SyncModeChrome(p)
<1>1. Writes(p, o, {"crosshair"})
  BY DEF SyncModeChrome, Writes, Shape, PageFields
<1>2. o.mode = p.mode /\ o.pin = p.pin
  BY <1>1 DEF Writes, PageFields
<1>3. ModeIsShown(o)
  <2>1. o.crosshair = (p.mode = "add" /\ p.pin = None)
    BY DEF SyncModeChrome, Shape, PageFields
  <2> HIDE DEF o
  <2> QED
    BY <1>2, <2>1 DEF ModeIsShown
<1> QED
  BY <1>1, <1>3 DEF o

LEMMA PushWrites ==
    ASSUME NEW p, Shape(p), NEW b, Announced(p, b), NEW type \in EventTypes, NEW x
    PROVE  /\ Writes(p, Push(p, type, x), {"sent"})
           /\ type # "bounds" => Announced(Push(p, type, x), b)
           /\ IsSeq(Push(p, type, x).sent) /\ Events(Push(p, type, x).sent)
           /\ type = "bounds" => Knows(Push(p, type, x).sent, b, x)
           /\ \E i \in 1 .. Len(Push(p, type, x).sent) : Push(p, type, x).sent[i].type = type
<1> DEFINE e == [type |-> type, x |-> x]
           o == Push(p, type, x)
<1>1. Writes(p, o, {"sent"}) /\ o.sent = Append(p.sent, e)
  BY DEF Push, Writes, Shape, PageFields
<1>2. e.type = type /\ e.x = x
  OBVIOUS
<1> HIDE DEF e, o
<1>3. o.announced = p.announced
  BY <1>1 DEF Writes, PageFields
<1>4. /\ IsSeq(o.sent) /\ Events(o.sent)
      /\ type # "bounds" => Knows(o.sent, b, p.announced)
      /\ type = "bounds" => Knows(o.sent, b, x)
  BY <1>1, <1>2, KnowsMore DEF Announced
<1>5. \E i \in 1 .. Len(o.sent) : o.sent[i].type = type
  <2>1. Len(p.sent) + 1 \in 1 .. Len(o.sent) /\ o.sent[Len(p.sent) + 1] = e
    BY <1>1, OneMore DEF Announced
  <2> QED
    BY <1>2, <2>1
<1> QED
  BY <1>1, <1>3, <1>4, <1>5 DEF Announced, o

LEMMA ReportWrites ==
    ASSUME NEW p, Shape(p), NEW b, Announced(p, b)
    PROVE  Writes(p, ReportBounds(p), {"announced", "sent"}) /\ ViewInv(ReportBounds(p), b)
<1>1. CASE p.view = p.announced
  BY <1>1, Zenon DEF ReportBounds, Writes, ViewInv
<1>2. CASE p.view # p.announced
  <2> DEFINE a == [p EXCEPT !.announced = p.view]
             o == Push(a, "bounds", p.view)
  <2>1. Writes(p, a, {"announced"}) /\ a.announced = p.view /\ a.sent = p.sent /\ a.view = p.view
    BY DEF Writes, Shape, PageFields
  <2>2. ReportBounds(p) = o
    BY <1>2 DEF ReportBounds
  <2>3. o.sent = Append(p.sent, [type |-> "bounds", x |-> p.view]) /\ Writes(a, o, {"sent"})
    <3> HIDE DEF a
    <3> QED
      BY <2>1 DEF Push, Writes, Shape, PageFields
  <2> HIDE DEF a, o
  <2>4. o.announced = p.view /\ o.view = p.view
    BY <2>1, <2>3 DEF Writes, PageFields
  <2>5. IsSeq(o.sent) /\ Events(o.sent) /\ Knows(o.sent, b, p.view)
    BY <2>3, KnowsMore DEF Announced, EventTypes
  <2>6. Writes(p, o, {"announced", "sent"})
    BY <2>1, <2>3, WritesOn
  <2> QED
    BY <2>2, <2>4, <2>5, <2>6 DEF ViewInv, Announced
<1> QED
  BY <1>1, <1>2

LEMMA ViewWrites ==
    ASSUME NEW p, Shape(p), NEW b, Announced(p, b), PinInv(p), NEW v
    PROVE  /\ Writes(p, SetView(p, v), Viewing)
           /\ HookInv(SetView(p, v), b)
<1> DEFINE a == [p EXCEPT !.view = v]
           d == RedrawStops(RedrawLines(a))
           r == ReportBounds(d)
           o == PositionPin(r)
<1>1. SetView(p, v) = o
  BY DEF SetView, OnViewChange
<1>2. Writes(p, a, {"view"})
  BY DEF Writes, Shape, PageFields
<1> HIDE DEF a
<1>3. Shape(a)
  BY <1>2 DEF Writes
<1>4. Writes(a, d, Drawing) /\ DrawInv(d)
  BY <1>3, BothWrite
<1> HIDE DEF d
<1>5. Shape(d) /\ Announced(d, b)
  <2>1. d.sent = p.sent /\ d.announced = p.announced
    BY <1>2, <1>4 DEF Writes, PageFields, Drawing
  <2> QED
    BY <1>4, <2>1 DEF Announced, Writes
<1>6. Writes(d, r, {"announced", "sent"}) /\ ViewInv(r, b)
  BY <1>5, ReportWrites
<1> HIDE DEF r
<1>7. r.element = p.element /\ r.pin = p.pin /\ Shape(r)
  BY <1>2, <1>4, <1>6 DEF Writes, PageFields, Drawing
<1>8. Writes(r, o, {"element"}) /\ PinIsThere(o)
  BY <1>7, ButtonOfPin, PositionWrites DEF PinInv, ButtonIsThere
<1> HIDE DEF o
<1>9. Writes(p, o, Viewing)
  <2>1. Writes(p, d, {"view", "lines", "stops"})
    BY <1>2, <1>4, WritesOn DEF Drawing
  <2>2. Writes(p, r, {"view", "lines", "stops", "announced", "sent"})
    BY <1>6, <2>1, WritesOn
  <2> QED
    BY <1>8, <2>2, WritesOn DEF Viewing
<1>10. /\ o.lines = d.lines /\ o.stops = d.stops /\ o.scene = d.scene /\ o.routes = d.routes
       /\ o.view = d.view
  BY <1>6, <1>8 DEF Writes, PageFields
<1>11. DrawInv(o)
  BY <1>4, <1>10, DrawStays
<1>12. /\ o.pin = p.pin /\ o.ghost = p.ghost /\ o.mode = p.mode /\ o.layers = p.layers
       /\ o.crosshair = p.crosshair /\ o.drag = p.drag
  BY <1>9 DEF Writes, PageFields, Viewing
<1>13. PinInv(o)
  <2>1. LayersAreDrawn(o)
    BY <1>12 DEF PinInv, LayersAreDrawn, PinLayers
  <2>2. ModeIsShown(o)
    BY <1>12 DEF PinInv, ModeIsShown
  <2> QED
    BY <1>8, <1>12, <2>1, <2>2 DEF PinInv, DragsAPin
<1>14. ViewInv(o, b)
  <2>1. o.view = r.view /\ o.announced = r.announced /\ o.sent = r.sent
    BY <1>8 DEF Writes, PageFields
  <2> QED
    BY <1>6, <2>1 DEF ViewInv, Announced
<1> QED
  BY <1>1, <1>9, <1>11, <1>13, <1>14 DEF HookInv, Writes


LEMMA FitWrites ==
    ASSUME NEW p, Shape(p), NEW b, ViewInv(p, b), PinInv(p)
    PROVE  /\ Writes(p, FitScene(p), Viewing)
           /\ Shape(FitScene(p)) /\ PinInv(FitScene(p)) /\ ViewInv(FitScene(p), b)
           /\ DrawInv(p) => DrawInv(FitScene(p))
<1>1. CASE p.scene = None \/ {p.scene[s] : s \in Stops} = {None}
  <2>1. FitScene(p) = p
    BY <1>1 DEF FitScene
  <2> QED
    BY <2>1 DEF Writes
<1>2. CASE ~(p.scene = None \/ {p.scene[s] : s \in Stops} = {None})
  <2>1. FitScene(p) = SetView(p, SceneBounds(p.scene))
    BY <1>2 DEF FitScene
  <2> QED
    BY <2>1, ViewWrites DEF ViewInv, HookInv
<1> QED
  BY <1>1, <1>2

LEMMA SceneShows ==
    ASSUME NEW p, NEW b, HookInv(p, b), NEW s
    PROVE  /\ HookInv(ApplyScene(p, s), b)
           /\ Writes(p, ApplyScene(p, s), Viewing \cup {"scene"})
<1> DEFINE a == [p EXCEPT !.scene = s]
           f == FitScene(a)
           d == RedrawStops(RedrawLines(f))
           o == ReportBounds(d)
<1>1. ApplyScene(p, s) = o
  BY DEF ApplyScene
<1>2. Writes(p, a, {"scene"})
  BY DEF Writes, HookInv, Shape, PageFields
<1> HIDE DEF a
<1>3. PinInv(a) /\ ViewInv(a, b) /\ Shape(a)
  <2>1. /\ a.pin = p.pin /\ a.ghost = p.ghost /\ a.mode = p.mode /\ a.layers = p.layers
        /\ a.crosshair = p.crosshair /\ a.element = p.element /\ a.view = p.view
        /\ a.drag = p.drag /\ a.announced = p.announced /\ a.sent = p.sent
    BY <1>2 DEF Writes, PageFields
  <2> QED
    BY <1>2, <2>1, PinStays DEF HookInv, ViewInv, Announced, Writes
<1>4. Writes(a, f, Viewing) /\ Shape(f) /\ PinInv(f) /\ ViewInv(f, b)
  BY <1>3, FitWrites
<1> HIDE DEF f
<1>5. Writes(f, d, Drawing) /\ DrawInv(d)
  BY <1>4, BothWrite
<1> HIDE DEF d
<1>6. /\ d.pin = f.pin /\ d.ghost = f.ghost /\ d.mode = f.mode /\ d.layers = f.layers
      /\ d.crosshair = f.crosshair /\ d.element = f.element /\ d.view = f.view
      /\ d.drag = f.drag /\ d.announced = f.announced /\ d.sent = f.sent /\ Shape(d)
  BY <1>5 DEF Writes, PageFields, Drawing
<1>7. PinInv(d) /\ ViewInv(d, b)
  BY <1>4, <1>6, PinStays DEF ViewInv, Announced
<1>8. o = d
  BY <1>7, Zenon DEF ViewInv, ReportBounds
<1>9. Writes(p, d, Viewing \cup {"scene"})
  <2>1. Writes(p, f, Viewing \cup {"scene"})
    BY <1>2, <1>4, WritesOn
  <2> QED
    BY <1>5, <2>1, WritesOn DEF Drawing, Viewing
<1> QED
  BY <1>1, <1>5, <1>6, <1>7, <1>8, <1>9 DEF HookInv

LEMMA PinWrites ==
    ASSUME NEW p, Shape(p)
    PROVE  /\ Writes(p, RenderPin(p), Placing \ {"pin"})
           /\ PinInv(RenderPin(p))
<1> DEFINE a == IF p.pin = None THEN [p EXCEPT !.element = NoElement, !.drag = FALSE]
                ELSE [p EXCEPT !.element = [at |-> p.pin, view |-> p.view]]
           l == DrawPinLayers(a)
           o == SyncModeChrome(l)
<1>1. RenderPin(p) = o
  BY DEF RenderPin
<1>2. Writes(p, a, {"element", "drag"})
  <2>1. CASE p.pin = None
    BY <2>1 DEF Writes, Shape, PageFields
  <2>2. CASE p.pin # None
    BY <2>2 DEF Writes, Shape, PageFields
  <2> QED
    BY <2>1, <2>2
<1>3. PinIsThere(a) /\ DragsAPin(a)
  <2>1. CASE p.pin = None
    <3>1. a.element = NoElement /\ ~a.drag
      BY <2>1 DEF Shape, PageFields
    <3>2. a.pin = None
      BY <1>2, <2>1 DEF Writes, PageFields
    <3> QED
      BY <3>1, <3>2 DEF PinIsThere, DragsAPin
  <2>2. CASE p.pin # None
    <3>1. a.element = [at |-> p.pin, view |-> p.view]
      BY <2>2 DEF Shape, PageFields
    <3>2. a.pin = p.pin /\ a.view = p.view
      BY <1>2 DEF Writes, PageFields
    <3> HIDE DEF a
    <3> QED
      BY <2>2, <3>1, <3>2 DEF PinIsThere, DragsAPin
  <2> QED
    BY <2>1, <2>2
<1> HIDE DEF a
<1>4. Writes(a, l, {"layers"}) /\ LayersAreDrawn(l)
  BY <1>2, LayersWrites DEF Writes
<1> HIDE DEF l
<1>5. Writes(l, o, {"crosshair"}) /\ ModeIsShown(o)
  BY <1>4, ModeWrites DEF Writes
<1> HIDE DEF o
<1>6. Writes(p, o, Placing \ {"pin"})
  <2>1. Writes(p, l, {"element", "drag", "layers"})
    BY <1>2, <1>4, WritesOn
  <2> QED
    BY <1>5, <2>1, WritesOn DEF Placing
<1>7. /\ o.layers = l.layers /\ o.pin = l.pin /\ o.ghost = l.ghost
      /\ o.element = a.element /\ o.pin = a.pin /\ o.view = a.view /\ o.drag = a.drag
  BY <1>4, <1>5 DEF Writes, PageFields
<1>8. LayersAreDrawn(o) /\ PinIsThere(o) /\ DragsAPin(o)
  BY <1>3, <1>4, <1>7 DEF LayersAreDrawn, PinLayers, PinIsThere, DragsAPin
<1> QED
  BY <1>1, <1>5, <1>6, <1>8 DEF PinInv

LEMMA ModeShows ==
    ASSUME NEW p, NEW b, HookInv(p, b), NEW m
    PROVE  /\ HookInv(ApplyMode(p, m), b)
           /\ ApplyMode(p, m).pin = m.pin /\ ApplyMode(p, m).mode = m.mode
<1> DEFINE a == [p EXCEPT !.mode = m.mode, !.pin = m.pin,
                          !.ghost = IF m.pin = None THEN None ELSE m.ghost]
           o == RenderPin(a)
<1>1. ApplyMode(p, m) = o
  BY DEF ApplyMode
<1>2. Writes(p, a, {"mode", "pin", "ghost"}) /\ a.mode = m.mode /\ a.pin = m.pin
  BY DEF Writes, HookInv, Shape, PageFields
<1> HIDE DEF a
<1>3. Writes(a, o, Placing \ {"pin"}) /\ PinInv(o)
  BY <1>2, PinWrites DEF Writes
<1> HIDE DEF o
<1>4. /\ o.lines = p.lines /\ o.stops = p.stops /\ o.scene = p.scene
      /\ o.routes = p.routes /\ o.view = p.view /\ o.sent = p.sent
      /\ o.announced = p.announced /\ o.mode = m.mode /\ o.pin = m.pin
  BY <1>2, <1>3 DEF Writes, PageFields, Placing
<1>5. DrawInv(o)
  BY <1>4, DrawStays DEF HookInv
<1> QED
  BY <1>1, <1>3, <1>4, <1>5 DEF HookInv, ViewInv, Announced, Writes

LEMMA SetPinShows ==
    ASSUME NEW p, NEW b, HookInv(p, b), NEW x, x # None
    PROVE  /\ HookInv(SetPinLatLng(p, x), b)
           /\ Writes(p, SetPinLatLng(p, x), {"pin", "element", "layers"})
<1>1. CASE p.pin = None
  BY <1>1 DEF SetPinLatLng, Writes, HookInv
<1>2. CASE p.pin # None
  <2> DEFINE a == [p EXCEPT !.pin = x]
             e == PositionPin(a)
             o == DrawPinLayers(e)
  <2>1. SetPinLatLng(p, x) = o
    BY <1>2 DEF SetPinLatLng
  <2>2. Writes(p, a, {"pin"}) /\ a.pin = x
    BY DEF Writes, HookInv, Shape, PageFields
  <2> HIDE DEF a
  <2>3. ButtonIsThere(a)
    <3>1. a.element = p.element
      BY <2>2 DEF Writes, PageFields
    <3>2. ButtonIsThere(p)
      BY ButtonOfPin DEF HookInv, PinInv
    <3> QED
      BY <1>2, <2>2, <3>1, <3>2 DEF ButtonIsThere
  <2>4. Writes(a, e, {"element"}) /\ PinIsThere(e)
    BY <2>2, <2>3, PositionWrites DEF Writes
  <2> HIDE DEF e
  <2>5. Writes(e, o, {"layers"}) /\ LayersAreDrawn(o)
    BY <2>4, LayersWrites DEF Writes
  <2> HIDE DEF o
  <2>6. Writes(p, o, {"pin", "element", "layers"})
    <3>1. Writes(p, e, {"pin", "element"})
      BY <2>2, <2>4, WritesOn
    <3> QED
      BY <2>5, <3>1, WritesOn
  <2>7. /\ o.lines = p.lines /\ o.stops = p.stops /\ o.scene = p.scene
        /\ o.routes = p.routes /\ o.view = p.view /\ o.sent = p.sent
        /\ o.announced = p.announced /\ o.mode = p.mode /\ o.crosshair = p.crosshair
        /\ o.drag = p.drag
    BY <2>6 DEF Writes, PageFields
  <2>8. o.pin = x /\ o.pin = e.pin /\ o.element = e.element /\ o.view = e.view
    BY <2>2, <2>4, <2>5 DEF Writes, PageFields
  <2>9. PinIsThere(o) /\ DragsAPin(o) /\ ModeIsShown(o)
    BY <1>2, <2>4, <2>7, <2>8 DEF PinIsThere, DragsAPin, ModeIsShown, HookInv, PinInv
  <2>10. DrawInv(o)
    BY <2>7, DrawStays DEF HookInv
  <2> QED
    BY <2>1, <2>5, <2>6, <2>7, <2>9, <2>10 DEF HookInv, PinInv, ViewInv, Announced, Writes
<1> QED
  BY <1>1, <1>2

-----------------------------------------------------------------------------
(* What the editor does to the page.                                       *)

\* The pin is where it was, or is being dragged, or the server is told.
Told(q) == \E i \in 1 .. Len(q) : q[i].type = "pin_moved"
PinMove(p, o) ==
    \/ o.pin = p.pin /\ o.mode = p.mode /\ o.drag = p.drag
    \/ o.drag
    \/ Told(o.sent)
HookStep(p, o, b) == HookInv(o, b) /\ PinMove(p, o)

LEMMA PushSteps ==
    ASSUME NEW p, NEW b, HookInv(p, b), NEW type \in EventTypes \ {"bounds"}, NEW x
    PROVE  /\ HookStep(p, Push(p, type, x), b)
           /\ type = "pin_moved" => Told(Push(p, type, x).sent)
<1> DEFINE o == Push(p, type, x)
<1>1. /\ Writes(p, o, {"sent"}) /\ Announced(o, b)
      /\ \E i \in 1 .. Len(o.sent) : o.sent[i].type = type
  BY PushWrites DEF HookInv, ViewInv
<1> HIDE DEF o
<1>2. /\ o.mode = p.mode /\ o.pin = p.pin /\ o.ghost = p.ghost /\ o.element = p.element
      /\ o.drag = p.drag /\ o.layers = p.layers /\ o.crosshair = p.crosshair
      /\ o.scene = p.scene /\ o.lines = p.lines /\ o.stops = p.stops
      /\ o.routes = p.routes /\ o.view = p.view /\ o.announced = p.announced
  BY <1>1 DEF Writes, PageFields
<1>3. DrawInv(o) /\ PinInv(o)
  BY <1>2, DrawStays, PinStays DEF HookInv
<1>4. HookStep(p, o, b)
  BY <1>1, <1>2, <1>3 DEF HookStep, HookInv, ViewInv, PinMove, Writes
<1>5. type = "pin_moved" => Told(o.sent)
  BY <1>1 DEF Told
<1> QED
  BY <1>4, <1>5 DEF o

LEMMA SameSteps ==
    ASSUME NEW p, NEW b, HookInv(p, b), NEW o, Writes(p, o, {})
    PROVE  HookStep(p, o, b)
<1>1. o.pin = p.pin /\ o.mode = p.mode /\ o.drag = p.drag
  BY DEF Writes, PageFields
<1> QED
  BY <1>1, HookStays DEF HookStep, PinMove

LEMMA ViewSteps ==
    ASSUME NEW p, NEW b, HookInv(p, b), NEW v
    PROVE  HookStep(p, SetView(p, v), b)
<1>1. HookInv(SetView(p, v), b) /\ Writes(p, SetView(p, v), Viewing)
  BY ViewWrites DEF HookInv, ViewInv
<1>2. \A f \in {"pin", "mode", "drag"} : SetView(p, v)[f] = p[f]
  BY <1>1 DEF Writes, PageFields, Viewing
<1> QED
  BY <1>1, <1>2 DEF HookStep, PinMove

LEMMA FitSteps ==
    ASSUME NEW p, NEW b, HookInv(p, b)
    PROVE  HookStep(p, FitScene(p), b)
<1>1. HookInv(FitScene(p), b) /\ Writes(p, FitScene(p), Viewing)
  BY FitWrites DEF HookInv
<1>2. \A f \in {"pin", "mode", "drag"} : FitScene(p)[f] = p[f]
  BY <1>1 DEF Writes, PageFields, Viewing
<1> QED
  BY <1>1, <1>2 DEF HookStep, PinMove

LEMMA ReportSteps ==
    ASSUME NEW p, NEW b, HookInv(p, b)
    PROVE  ReportBounds(p) = p
BY Zenon DEF HookInv, ViewInv, ReportBounds

LEMMA MoveSteps ==
    ASSUME NEW p, NEW b, HookInv(p, b), NEW x, x # None
    PROVE  /\ p.drag => HookStep(p, SetPinLatLng(p, x), b)
           /\ HookStep(p, DropPin(p, x), b)
           /\ HookStep(p, Push(SetPinLatLng(p, x), "pin_moved", x), b)
<1>1. ASSUME NEW q, HookInv(q, b)
      PROVE  HookStep(p, Push(SetPinLatLng(q, x), "pin_moved", x), b)
  <2>1. HookInv(SetPinLatLng(q, x), b)
    BY <1>1, SetPinShows
  <2>2. "pin_moved" \in EventTypes \ {"bounds"}
    BY DEF EventTypes
  <2> DEFINE o == Push(SetPinLatLng(q, x), "pin_moved", x)
  <2>3. HookInv(o, b) /\ Told(o.sent)
    BY <2>1, <2>2, PushSteps DEF HookStep
  <2> HIDE DEF o
  <2>4. HookStep(p, o, b)
    BY <2>3 DEF HookStep, PinMove
  <2> QED
    BY <2>4 DEF o
<1>2. ASSUME p.drag
      PROVE  HookStep(p, SetPinLatLng(p, x), b)
  <2> DEFINE o == SetPinLatLng(p, x)
  <2>1. HookInv(o, b) /\ Writes(p, o, {"pin", "element", "layers"})
    BY SetPinShows
  <2> HIDE DEF o
  <2>2. o.drag = p.drag
    BY <2>1 DEF Writes, PageFields
  <2>3. HookStep(p, o, b)
    BY <1>2, <2>1, <2>2 DEF HookStep, PinMove
  <2> QED
    BY <2>3 DEF o
<1>3. HookStep(p, DropPin(p, x), b)
  <2> DEFINE q == [p EXCEPT !.drag = FALSE]
  <2>1. Writes(p, q, {"drag"}) /\ ~q.drag
    BY DEF Writes, HookInv, Shape, PageFields
  <2>2. DropPin(p, x) = Push(SetPinLatLng(q, x), "pin_moved", x)
    BY DEF DropPin
  <2> HIDE DEF q
  <2>3. /\ q.mode = p.mode /\ q.pin = p.pin /\ q.ghost = p.ghost /\ q.element = p.element
        /\ q.layers = p.layers /\ q.crosshair = p.crosshair
        /\ q.scene = p.scene /\ q.lines = p.lines /\ q.stops = p.stops
        /\ q.routes = p.routes /\ q.view = p.view /\ q.announced = p.announced
        /\ q.sent = p.sent
    BY <2>1 DEF Writes, PageFields
  <2>4. DrawInv(q)
    BY <2>3, DrawStays DEF HookInv
  <2>5. LayersAreDrawn(q) /\ ModeIsShown(q) /\ PinIsThere(q) /\ DragsAPin(q)
    BY <2>1, <2>3 DEF HookInv, PinInv, LayersAreDrawn, PinLayers, ModeIsShown, PinIsThere, DragsAPin
  <2>6. HookInv(q, b)
    BY <2>1, <2>3, <2>4, <2>5 DEF HookInv, PinInv, ViewInv, Announced, Writes
  <2> QED
    BY <1>1, <2>2, <2>6
<1> QED
  BY <1>1, <1>2, <1>3


PageInv == HookInv(page, page.view) /\ page.sent = <<>>
EditorStep == \E p : HookStep(page, p, page.view) /\ Do(p)

LEMMA ButtonSteps ==
    ASSUME PageInv, NEW type \in EventTypes \ {"bounds"}, NEW x, NEW P,
           Button(P, type, x) \/ Do(Push(page, type, x))
    PROVE  EditorStep
<1>1. Do(Push(page, type, x))
  BY Zenon DEF Button
<1> QED
  BY <1>1, PushSteps DEF PageInv, EditorStep

LEMMA MapSteps ==
    ASSUME PageInv,
           \/ \E x \in Places : ClickMap(x) \/ MovePin(x) \/ Paste(x)
           \/ PressEnter \/ PressEscape \/ ClickStop \/ StartPinDrag \/ ReleasePin
           \/ \E d \in {-1, 1} : PressArrow(d)
    PROVE  EditorStep
<1> {"place", "paste", "cancel_add", "select_stop", "pin_moved"} \subseteq EventTypes \ {"bounds"}
  BY DEF EventTypes
<1>1. ASSUME NEW x \in Places, ClickMap(x)
      PROVE  EditorStep
  BY <1>1, ButtonSteps DEF ClickMap
<1>2. ASSUME NEW x \in Places, MovePin(x)
      PROVE  EditorStep
  <2>1. x # None /\ page.drag /\ Do(SetPinLatLng(page, x))
    BY <1>2, PlaceAssumption DEF MovePin
  <2> QED
    BY <2>1, MoveSteps DEF PageInv, EditorStep
<1>3. ASSUME NEW x \in Places, Paste(x)
      PROVE  EditorStep
  BY <1>3, ButtonSteps DEF Paste
<1>4. CASE PressEnter
  BY <1>4, ButtonSteps DEF PressEnter
<1>5. CASE PressEscape
  BY <1>5, ButtonSteps DEF PressEscape
<1>6. CASE ClickStop
  <2>1. PICK m : Do(ClickMark(page, m.stop))
    BY <1>6 DEF ClickStop
  <2>2. \/ Do(Push(page, "place", page.scene[m.stop]))
        \/ Do(Push(page, "select_stop", m.stop))
    BY <2>1 DEF ClickMark
  <2> QED
    BY <2>2, ButtonSteps
<1>7. CASE StartPinDrag
  <2> DEFINE o == [page EXCEPT !.drag = TRUE]
  <2>1. Do(o) /\ page.element # NoElement
    BY <1>7 DEF StartPinDrag
  <2>2. page.pin # None
    BY <2>1 DEF PageInv, HookInv, PinInv, PinIsThere
  <2>3. Writes(page, o, {"drag"}) /\ o.drag
    BY DEF Writes, PageInv, HookInv, Shape, PageFields
  <2> HIDE DEF o
  <2>4. /\ o.mode = page.mode /\ o.pin = page.pin /\ o.ghost = page.ghost
        /\ o.element = page.element /\ o.layers = page.layers
        /\ o.crosshair = page.crosshair /\ o.scene = page.scene /\ o.lines = page.lines
        /\ o.stops = page.stops /\ o.routes = page.routes /\ o.view = page.view
        /\ o.announced = page.announced /\ o.sent = page.sent
    BY <2>3 DEF Writes, PageFields
  <2>5. DrawInv(o)
    BY <2>4, DrawStays DEF PageInv, HookInv
  <2>6. LayersAreDrawn(o) /\ ModeIsShown(o) /\ PinIsThere(o) /\ DragsAPin(o)
    BY <2>2, <2>4 DEF PageInv, HookInv, PinInv, LayersAreDrawn, PinLayers, ModeIsShown, PinIsThere, DragsAPin
  <2>7. HookInv(o, page.view)
    BY <2>3, <2>4, <2>5, <2>6 DEF PageInv, HookInv, PinInv, ViewInv, Announced, Writes
  <2>8. HookStep(page, o, page.view)
    BY <2>3, <2>7 DEF HookStep, PinMove
  <2> QED
    BY <2>1, <2>8 DEF EditorStep
<1>8. CASE ReleasePin
  <2>1. page.drag /\ Do(DropPin(page, page.pin))
    BY <1>8 DEF ReleasePin
  <2>2. page.pin # None
    BY <2>1 DEF PageInv, HookInv, PinInv, DragsAPin
  <2> QED
    BY <2>1, <2>2, MoveSteps DEF PageInv, EditorStep
<1>9. ASSUME NEW d \in {-1, 1}, PressArrow(d)
      PROVE  EditorStep
  <2>1. page.pin + d \in Places /\ Do(NudgePin(page, d))
    BY <1>9 DEF PressArrow
  <2>2. page.pin + d # None
    BY <2>1, PlaceAssumption
  <2>3. NudgePin(page, d) = Push(SetPinLatLng(page, page.pin + d), "pin_moved", page.pin + d)
    BY DEF NudgePin
  <2> QED
    BY <2>1, <2>2, <2>3, MoveSteps DEF PageInv, EditorStep
<1> QED
  BY <1>1, <1>2, <1>3, <1>4, <1>5, <1>6, <1>7, <1>8, <1>9

LEMMA LookSteps ==
    ASSUME PageInv,
           \/ \E d \in {-1, 1} : Pan(d)
           \/ \E z \in Zooms : Zoom(z)
           \/ ClickFit \/ ToggleRoutes \/ TileFails \/ Resize
           \/ \E c \in {"streets", "satellite"} : ChooseBasemap(c)
    PROVE  EditorStep
<1> DEFINE b == page.view
<1>0. HookInv(page, b) /\ Shape(page)
  BY DEF PageInv, HookInv
<1>1. ASSUME NEW d \in {-1, 1}, Pan(d)
      PROVE  EditorStep
  <2>1. \E v : Do(SetView(page, v))
    BY <1>1, Zenon DEF Pan
  <2> QED
    BY <1>0, <2>1, ViewSteps DEF EditorStep
<1>2. ASSUME NEW z \in Zooms, Zoom(z)
      PROVE  EditorStep
  <2>1. \E v : Do(SetView(page, v))
    BY <1>2, Zenon DEF Zoom
  <2> QED
    BY <1>0, <2>1, ViewSteps DEF EditorStep
<1>3. CASE ClickFit
  <2> DEFINE f == FitScene(page)
             o == RedrawStops(f)
  <2>1. Do(ReportBounds(o))
    BY <1>3 DEF ClickFit
  <2>2. HookStep(page, f, b) /\ HookInv(f, b) /\ Shape(f)
    BY <1>0, FitSteps DEF HookStep, HookInv
  <2>2a. Writes(page, f, Viewing)
    BY <1>0, FitWrites DEF HookInv
  <2> HIDE DEF f
  <2>3. Writes(f, o, {"stops"}) /\ StopsAreDrawn(o)
    BY <2>2, StopsWrites
  <2> HIDE DEF o
  <2>4. /\ o.mode = f.mode /\ o.pin = f.pin /\ o.ghost = f.ghost /\ o.element = f.element
        /\ o.layers = f.layers /\ o.crosshair = f.crosshair /\ o.scene = f.scene
        /\ o.lines = f.lines /\ o.drag = f.drag /\ o.routes = f.routes /\ o.view = f.view
        /\ o.announced = f.announced /\ o.sent = f.sent
    BY <2>3 DEF Writes, PageFields
  <2>5. DrawInv(o) /\ PinInv(o)
    BY <2>2, <2>3, <2>4, PinStays DEF HookInv, DrawInv, LinesAreDrawn, LinesDrawn
  <2>6. HookInv(o, b)
    BY <2>2, <2>3, <2>4, <2>5 DEF HookInv, ViewInv, Announced, Writes
  <2>7. ReportBounds(o) = o
    BY <2>6, ReportSteps
  <2>8. o.pin = page.pin /\ o.mode = page.mode /\ o.drag = page.drag
    BY <2>2a, <2>4 DEF Writes, PageFields, Viewing
  <2> QED
    BY <2>1, <2>6, <2>7, <2>8 DEF EditorStep, HookStep, PinMove
<1>4. CASE ToggleRoutes
  <2> DEFINE a == [page EXCEPT !.routes = ~@]
             o == RedrawLines(a)
  <2>1. Do(o)
    BY <1>4 DEF ToggleRoutes
  <2>2. Writes(page, a, {"routes"})
    BY <1>0 DEF Writes, Shape, PageFields
  <2> HIDE DEF a
  <2>3. Writes(a, o, {"lines"}) /\ LinesAreDrawn(o)
    BY <2>2, LinesWrites DEF Writes
  <2> HIDE DEF o
  <2>4. /\ o.mode = page.mode /\ o.pin = page.pin /\ o.ghost = page.ghost
        /\ o.element = page.element /\ o.layers = page.layers
        /\ o.crosshair = page.crosshair /\ o.scene = page.scene /\ o.stops = page.stops
        /\ o.drag = page.drag /\ o.view = page.view
        /\ o.announced = page.announced /\ o.sent = page.sent
    BY <2>2, <2>3 DEF Writes, PageFields
  <2>5. DrawInv(o) /\ PinInv(o)
    BY <1>0, <2>3, <2>4, PinStays DEF HookInv, DrawInv, StopsAreDrawn, StopsDrawn
  <2>6. HookInv(o, b)
    BY <1>0, <2>3, <2>4, <2>5 DEF HookInv, ViewInv, Announced, Writes
  <2> QED
    BY <2>1, <2>4, <2>6 DEF EditorStep, HookStep, PinMove
<1>5. CASE TileFails
  <2>1. CASE page.failed
    <3>1. Do(page)
      BY <1>5, <2>1, Zenon DEF TileFails, TileError
    <3>2. Writes(page, page, {})
      BY <1>0 DEF Writes
    <3> QED
      BY <1>0, <3>1, <3>2, SameSteps DEF EditorStep
  <2>2. CASE ~page.failed
    <3> DEFINE a == [page EXCEPT !.failed = TRUE]
               o == Push(a, "map_unavailable", None)
    <3>1. Do(o)
      BY <1>5, <2>2, Zenon DEF TileFails, TileError
    <3>2. Writes(page, a, {})
      BY <1>0 DEF Writes, Shape, PageFields
    <3> HIDE DEF a
    <3>3. HookInv(a, b)
      BY <1>0, <3>2, HookStays
    <3>4. HookStep(a, o, b)
      BY <3>3, PushSteps DEF EventTypes
    <3> HIDE DEF o
    <3>5. a.pin = page.pin /\ a.mode = page.mode /\ a.drag = page.drag
      BY <3>2 DEF Writes, PageFields
    <3>6. HookStep(page, o, b)
      BY <3>4, <3>5 DEF HookStep, PinMove
    <3> QED
      BY <3>1, <3>6 DEF EditorStep
  <2> QED
    BY <2>1, <2>2
<1>6. CASE Resize
  <2>1. CASE page.hidden
    <3> DEFINE a == [page EXCEPT !.hidden = FALSE]
               s == PositionPin(a)
               f == FitScene(s)
    <3>1. Do(ReportBounds(f))
      BY <1>6, <2>1, Zenon DEF Resize, Resized
    <3>2. Writes(page, a, {})
      BY <1>0 DEF Writes, Shape, PageFields
    <3> HIDE DEF a
    <3>3. HookInv(a, b) /\ Shape(a) /\ PinIsThere(a)
      BY <1>0, <3>2, HookStays DEF HookInv, PinInv
    <3>4. Writes(a, s, {"element"}) /\ PinIsThere(s)
      BY <3>3, ButtonOfPin, PositionWrites
    <3> HIDE DEF s
    <3>5. s.pin = a.pin /\ s.view = a.view
      BY <3>4 DEF Writes, PageFields
    <3>6. s.element = a.element
      BY <3>3, <3>4, <3>5 DEF PinIsThere
    <3>7. Writes(a, s, {})
      BY <3>4, <3>6 DEF Writes
    <3>8. HookInv(s, b)
      BY <3>3, <3>7, HookStays
    <3>9. HookStep(s, f, b)
      BY <3>8, FitSteps
    <3> HIDE DEF f
    <3>10. ReportBounds(f) = f
      BY <3>9, ReportSteps DEF HookStep
    <3>11. s.pin = page.pin /\ s.mode = page.mode /\ s.drag = page.drag
      BY <3>2, <3>7 DEF Writes, PageFields
    <3>12. HookStep(page, f, b)
      BY <3>9, <3>11 DEF HookStep, PinMove
    <3> QED
      BY <3>1, <3>10, <3>12 DEF EditorStep
  <2>2. CASE ~page.hidden
    <3> DEFINE o == [page EXCEPT !.hidden = TRUE]
    <3>1. Do(o)
      BY <1>6, <2>2, Zenon DEF Resize
    <3>2. Writes(page, o, {})
      BY <1>0 DEF Writes, Shape, PageFields
    <3> HIDE DEF o
    <3> QED
      BY <1>0, <3>1, <3>2, SameSteps DEF EditorStep
  <2> QED
    BY <2>1, <2>2
<1>7. ASSUME NEW c \in {"streets", "satellite"}, ChooseBasemap(c)
      PROVE  EditorStep
  <2> DEFINE o == [page EXCEPT !.basemap = c]
  <2>1. Do(o)
    BY <1>7 DEF ChooseBasemap
  <2>2. Writes(page, o, {})
    BY <1>0 DEF Writes, Shape, PageFields
  <2> HIDE DEF o
  <2> QED
    BY <1>0, <2>1, <2>2, SameSteps DEF EditorStep
<1> HIDE DEF b
<1> QED
  BY <1>1, <1>2, <1>3, <1>4, <1>5, <1>6, <1>7

LEMMA PanelSteps ==
    ASSUME PageInv,
           \/ \E x \in (Places \cup {page.form}) \ {None} : TypeField(x)
           \/ ClickAdd \/ ClickCancel \/ ClickPutBack \/ ClickFindPin \/ Submit \/ ClickRetry
           \/ \E a \in {"keep_editing", "discard_changes"} : Answer(a)
    PROVE  EditorStep
<1> {"add_field", "edit_field", "start_add", "cancel_add", "cancel_edit", "put_back",
     "find_pin", "create_stop", "save_stop", "retry_map", "keep_editing",
     "discard_changes"} \subseteq EventTypes \ {"bounds"}
  BY DEF EventTypes
<1>1. \A x : TypeField(x) => EditorStep
  BY ButtonSteps DEF TypeField
<1>2. ClickAdd \/ ClickCancel => EditorStep
  BY ButtonSteps DEF ClickAdd, ClickCancel
<1>3. ClickPutBack \/ ClickFindPin => EditorStep
  BY ButtonSteps DEF ClickPutBack, ClickFindPin
<1>4. Submit \/ ClickRetry => EditorStep
  BY ButtonSteps DEF Submit, ClickRetry
<1>5. \A a \in {"keep_editing", "discard_changes"} : Answer(a) => EditorStep
  <2> TAKE a \in {"keep_editing", "discard_changes"}
  <2> HAVE Answer(a)
  <2>1. Do(Push(page, a, None))
    BY DEF Answer
  <2> QED
    BY <2>1, ButtonSteps
<1> QED
  BY <1>1, <1>2, <1>3, <1>4, <1>5

LEMMA EditorSteps ==
    ASSUME PageInv, Editor
    PROVE  EditorStep
BY MapSteps, LookSteps, PanelSteps DEF Editor


-----------------------------------------------------------------------------
(* The process: what its handlers write, tell the map and start.           *)

SrvFields == {"panel", "placement", "stop", "draft", "token", "out", "begun", "view"}
SrvShape(v) == SrvFields \subseteq DOMAIN v
Assigns(v, w, set) == SrvShape(w) /\ \A f \in SrvFields \ set : w[f] = v[f]

PushTypes == {"mode", "scene", "focus"}
Replies(q) == \A i \in 1 .. Len(q) : q[i].type \in PushTypes
Silent(q) == \A i \in 1 .. Len(q) : q[i].type # "mode"
Says(q, m) ==
    \E i \in 1 .. Len(q) : /\ q[i].type = "mode" /\ q[i].arg = m
                           /\ \A j \in i + 1 .. Len(q) : q[j].type # "mode"

TaskFields == {"kind", "token", "stop", "at", "rev", "result"}
IsTask(t) == TaskFields \subseteq DOMAIN t /\ t.kind \in {"load", "save", "create"}
\* A save belongs to the opening it was started in, or to an earlier one.
TaskOf(v, t) ==
    IsTask(t) /\ (t.kind = "save" => /\ t.token \in Nat /\ t.token <= v.token /\ t.stop # None
                                     /\ t.token = v.token => t.stop = v.stop)

\* From u the process has come to v; nothing was edited under the token of another.
Walk(u, v) ==
    /\ SrvShape(v) /\ IsSeq(v.out) /\ Replies(v.out) /\ v.view = u.view
    /\ u.token \in Nat /\ v.token \in Nat /\ v.token >= u.token
    /\ v.token = u.token => v.stop = u.stop
    /\ v.panel = "add" => v.stop = None
    /\ \A t \in v.begun : TaskOf(v, t)

\* The map was told where the placement is, or there was nothing to tell.
Spoken(v) == v.panel = "add" => Says(v.out, ModePayload(v))
ModeTold(u, v) ==
    Spoken(v) \/ (Silent(v.out) /\ u.panel = "add" /\ v.placement = u.placement)
Reached(u, v) == Walk(u, v) /\ ModeTold(u, v)

LEMMA SaysMore ==
    ASSUME NEW q, IsSeq(q), Replies(q), NEW e, e.type \in PushTypes
    PROVE  /\ IsSeq(Append(q, e)) /\ Replies(Append(q, e))
           /\ e.type = "mode" => Says(Append(q, e), e.arg)
           /\ e.type # "mode" => /\ Silent(q) => Silent(Append(q, e))
                                 /\ \A m : Says(q, m) => Says(Append(q, e), m)
<1> DEFINE r == Append(q, e)
<1>1. /\ IsSeq(r) /\ Len(r) = Len(q) + 1 /\ Len(q) \in Nat
      /\ \A i \in 1 .. Len(q) : r[i] = q[i]
      /\ r[Len(q) + 1] = e
  BY OneMore
<1> HIDE DEF r
<1>2. \A j \in 1 .. Len(r) : j \in 1 .. Len(q) \/ r[j] = e
  BY <1>1
<1>3. Replies(r) /\ (e.type # "mode" => (Silent(q) => Silent(r)))
  BY <1>1, <1>2 DEF Replies, Silent
<1>4. e.type = "mode" => Says(r, e.arg)
  <2>1. Len(q) + 1 \in 1 .. Len(r) /\ \A j \in Len(q) + 1 + 1 .. Len(r) : FALSE
    BY <1>1
  <2> QED
    BY <1>1, <2>1 DEF Says
<1>5. ASSUME e.type # "mode", NEW m, Says(q, m)
      PROVE  Says(r, m)
  <2>1. PICK i \in 1 .. Len(q) : /\ q[i].type = "mode" /\ q[i].arg = m
                                 /\ \A j \in i + 1 .. Len(q) : q[j].type # "mode"
    BY <1>5 DEF Says
  <2>2. i \in 1 .. Len(r) /\ r[i] = q[i]
    BY <1>1
  <2>3. ASSUME NEW j \in i + 1 .. Len(r)
        PROVE  r[j].type # "mode"
    <3>1. j \in 1 .. Len(r) /\ (j \in 1 .. Len(q) => j \in i + 1 .. Len(q))
      BY <1>1
    <3> QED
      BY <1>1, <1>2, <1>5, <2>1, <3>1
  <2> QED
    BY <2>1, <2>2, <2>3 DEF Says
<1> QED
  BY <1>1, <1>3, <1>4, <1>5 DEF r

LEMMA SamePayload ==
    ASSUME NEW v, NEW w, v.panel = "add", w.panel = v.panel, w.placement = v.placement
    PROVE  ModePayload(w) = ModePayload(v)
BY DEF ModePayload

LEMMA WalkStays ==
    ASSUME NEW u, NEW v, NEW w, NEW X, Assigns(v, w, X), X \subseteq {"placement", "draft"}
    PROVE  /\ Walk(u, v) => Walk(u, w)
           /\ X \subseteq {"draft"} => /\ Spoken(v) => Spoken(w)
                                       /\ ModeTold(u, v) => ModeTold(u, w)
<1>1. /\ w.panel = v.panel /\ w.stop = v.stop /\ w.token = v.token /\ w.out = v.out
      /\ w.begun = v.begun /\ w.view = v.view /\ SrvShape(w)
      /\ X \subseteq {"draft"} => w.placement = v.placement
  BY DEF Assigns, SrvFields
<1>2. Walk(u, v) => Walk(u, w)
  BY <1>1 DEF Walk, TaskOf
<1>3. X \subseteq {"draft"} => (Spoken(v) => Spoken(w))
  BY <1>1, SamePayload DEF Spoken
<1>4. X \subseteq {"draft"} => (ModeTold(u, v) => ModeTold(u, w))
  BY <1>1, <1>3 DEF ModeTold
<1> QED
  BY <1>2, <1>3, <1>4

LEMMA SendStays ==
    ASSUME NEW u, NEW v, Walk(u, v), NEW e, e.type \in PushTypes
    PROVE  /\ Walk(u, Send(v, e)) /\ Assigns(v, Send(v, e), {"out"})
           /\ e.type = "mode" => Says(Send(v, e).out, e.arg)
           /\ e.type # "mode" => /\ Spoken(v) => Spoken(Send(v, e))
                                 /\ ModeTold(u, v) => ModeTold(u, Send(v, e))
<1> DEFINE w == Send(v, e)
<1>1. Assigns(v, w, {"out"}) /\ w.out = Append(v.out, e)
  BY DEF Send, Assigns, Walk, SrvShape, SrvFields
<1> HIDE DEF w
<1>2. /\ w.panel = v.panel /\ w.stop = v.stop /\ w.token = v.token
      /\ w.begun = v.begun /\ w.view = v.view /\ SrvShape(w) /\ w.placement = v.placement
  BY <1>1 DEF Assigns, SrvFields
<1>3. /\ IsSeq(w.out) /\ Replies(w.out)
      /\ e.type = "mode" => Says(w.out, e.arg)
      /\ e.type # "mode" => /\ Silent(v.out) => Silent(w.out)
                            /\ \A m : Says(v.out, m) => Says(w.out, m)
  BY <1>1, SaysMore DEF Walk
<1>4. Walk(u, w)
  BY <1>2, <1>3 DEF Walk, TaskOf
<1>5. e.type # "mode" => (Spoken(v) => Spoken(w))
  BY <1>2, <1>3, SamePayload DEF Spoken
<1>6. e.type # "mode" => (ModeTold(u, v) => ModeTold(u, w))
  BY <1>2, <1>3, <1>5 DEF ModeTold
<1> QED
  BY <1>1, <1>3, <1>4, <1>5, <1>6 DEF w

LEMMA ModeSpeaks ==
    ASSUME NEW u, NEW v, Walk(u, v)
    PROVE  /\ Walk(u, PushMapMode(v)) /\ Spoken(PushMapMode(v))
           /\ Assigns(v, PushMapMode(v), {"out"})
<1> DEFINE e == [type |-> "mode", arg |-> ModePayload(v)]
           w == PushMapMode(v)
<1>1. w = Send(v, e) /\ e.type = "mode" /\ e.type \in PushTypes /\ e.arg = ModePayload(v)
  BY DEF PushMapMode, PushTypes
<1> HIDE DEF e, w
<1>2. Walk(u, w) /\ Assigns(v, w, {"out"}) /\ Says(w.out, ModePayload(v))
  BY <1>1, SendStays
<1>3. w.panel = v.panel /\ w.placement = v.placement
  BY <1>2 DEF Assigns, SrvFields
<1>4. Spoken(w)
  BY <1>2, <1>3, SamePayload DEF Spoken
<1> QED
  BY <1>2, <1>4 DEF w

LEMMA PushesStay ==
    ASSUME NEW u, NEW v, Reached(u, v)
    PROVE  Reached(u, PushScene(v)) /\ \A x : Reached(u, PushFocus(v, x))
<1>1. Reached(u, PushScene(v))
  <2>1. CASE v.model = None
    BY <2>1 DEF PushScene
  <2>2. CASE v.model # None
    <3> DEFINE e == [type |-> "scene", arg |-> v.model]
    <3>1. PushScene(v) = Send(v, e) /\ e.type \in PushTypes /\ e.type # "mode"
      BY <2>2 DEF PushScene, PushTypes
    <3> HIDE DEF e
    <3> QED
      BY <3>1, SendStays DEF Reached
  <2> QED
    BY <2>1, <2>2
<1>2. ASSUME NEW x PROVE Reached(u, PushFocus(v, x))
  <2>1. CASE x = None
    BY <2>1 DEF PushFocus
  <2>2. CASE x # None
    <3> DEFINE e == [type |-> "focus", arg |-> x]
    <3>1. PushFocus(v, x) = Send(v, e) /\ e.type \in PushTypes /\ e.type # "mode"
      BY <2>2 DEF PushFocus, PushTypes
    <3> HIDE DEF e
    <3> QED
      BY <3>1, SendStays DEF Reached
  <2> QED
    BY <2>1, <2>2
<1> QED
  BY <1>1, <1>2

LEMMA BeginStays ==
    ASSUME NEW u, NEW v, Walk(u, v), NEW t, TaskOf(v, t)
    PROVE  /\ Walk(u, Begin(v, t)) /\ Assigns(v, Begin(v, t), {"begun"})
           /\ ModeTold(u, v) => ModeTold(u, Begin(v, t))
<1> DEFINE w == Begin(v, t)
<1>1. Assigns(v, w, {"begun"}) /\ w.begun = v.begun \cup {t}
  BY DEF Begin, Assigns, Walk, SrvShape, SrvFields
<1> HIDE DEF w
<1>2. /\ w.panel = v.panel /\ w.stop = v.stop /\ w.token = v.token
      /\ w.out = v.out /\ w.view = v.view /\ SrvShape(w) /\ w.placement = v.placement
  BY <1>1 DEF Assigns, SrvFields
<1>3. Walk(u, w)
  <2>1. \A s : TaskOf(v, s) => TaskOf(w, s)
    BY <1>2 DEF TaskOf
  <2> QED
    BY <1>1, <1>2, <2>1 DEF Walk
<1>4. ModeTold(u, v) => ModeTold(u, w)
  BY <1>2, SamePayload DEF ModeTold, Spoken
<1> QED
  BY <1>1, <1>3, <1>4 DEF w

LEMMA LoadStays ==
    ASSUME NEW u, NEW v, Reached(u, v)
    PROVE  Reached(u, StartLoad(v)) /\ Assigns(v, StartLoad(v), {"begun"})
<1> DEFINE t == [kind |-> "load", token |-> 0, stop |-> None, at |-> None, rev |-> 0,
                 result |-> None]
<1>1. TaskOf(v, t)
  BY DEF TaskOf, IsTask, TaskFields
<1>2. StartLoad(v) = Begin(v, t)
  BY DEF StartLoad
<1> HIDE DEF t
<1> QED
  BY <1>1, <1>2, BeginStays DEF Reached

-----------------------------------------------------------------------------
(* The panels.                                                             *)

LEMMA NoEditStays ==
    ASSUME NEW u, NEW v, Walk(u, v), v.begun = {}
    PROVE  /\ Walk(u, NoEdit(v)) /\ NoEdit(v).token > u.token /\ NoEdit(v).begun = {}
           /\ Assigns(v, NoEdit(v), {"token", "stop", "draft"}) /\ NoEdit(v).stop = None
<1> DEFINE w == NoEdit(v)
<1>1. /\ Assigns(v, w, {"token", "stop", "draft"})
      /\ w.token = v.token + 1 /\ w.stop = None
  BY DEF NoEdit, Assigns, Walk, SrvShape, SrvFields
<1> HIDE DEF w
<1>2. /\ w.panel = v.panel /\ w.out = v.out /\ w.begun = v.begun /\ w.view = v.view
      /\ SrvShape(w)
  BY <1>1 DEF Assigns, SrvFields
<1>3. Walk(u, w) /\ w.token > u.token /\ w.begun = {}
  BY <1>1, <1>2 DEF Walk
<1> QED
  BY <1>1, <1>3 DEF w

LEMMA EditStays ==
    ASSUME NEW u, NEW v, Walk(u, v), v.begun = {}, NEW s, NEW row,
           v.token > u.token \/ s = u.stop
    PROVE  /\ Walk(u, AssignEditStop(v, s, row)) /\ Spoken(AssignEditStop(v, s, row))
           /\ AssignEditStop(v, s, row).begun = {}
<1> DEFINE w == AssignEditStop(v, s, row)
<1>1. /\ Assigns(v, w, {"panel", "stop", "draft"})
      /\ w.panel = "edit" /\ w.stop = s
  BY DEF AssignEditStop, Assigns, Walk, SrvShape, SrvFields
<1> HIDE DEF w
<1>2. /\ w.token = v.token /\ w.out = v.out /\ w.begun = v.begun /\ w.view = v.view
      /\ SrvShape(w)
  BY <1>1 DEF Assigns, SrvFields
<1>3. Walk(u, w) /\ Spoken(w) /\ w.begun = {}
  BY <1>1, <1>2 DEF Walk, Spoken
<1> QED
  BY <1>3 DEF w

LEMMA OpenStays ==
    ASSUME NEW u, NEW v, Reached(u, v), v.begun = {}, NEW s
    PROVE  Reached(u, OpenEdit(v, s))
<1>1. CASE db[s].at = None
  BY <1>1 DEF OpenEdit
<1>2. CASE db[s].at # None
  <2> DEFINE n == NoEdit(v)
             a == AssignEditStop(n, s, db[s])
             m == PushMapMode(a)
  <2>1. OpenEdit(v, s) = PushFocus(m, v.model[s])
    BY <1>2 DEF OpenEdit
  <2>2. Walk(u, n) /\ n.token > u.token /\ n.begun = {}
    BY NoEditStays DEF Reached
  <2> HIDE DEF n
  <2>3. Walk(u, a)
    BY <2>2, EditStays
  <2> HIDE DEF a
  <2>4. Reached(u, m)
    BY <2>3, ModeSpeaks DEF Reached, ModeTold
  <2> HIDE DEF m
  <2> QED
    BY <2>1, <2>4, PushesStay
<1> QED
  BY <1>1, <1>2

LEMMA CloseStays ==
    ASSUME NEW u, NEW v, Reached(u, v), v.begun = {}
    PROVE  Reached(u, CloseEdit(v))
<1> DEFINE n == NoEdit(v)
           w == [n EXCEPT !.panel = "browse"]
<1>1. CloseEdit(v) = w
  BY DEF CloseEdit
<1>2. Walk(u, n)
  BY NoEditStays DEF Reached
<1> HIDE DEF n
<1>3. Assigns(n, w, {"panel"}) /\ w.panel = "browse"
  BY <1>2 DEF Walk, Assigns, SrvShape, SrvFields
<1> HIDE DEF w
<1>4. /\ w.stop = n.stop /\ w.token = n.token /\ w.out = n.out /\ w.begun = n.begun
      /\ w.view = n.view /\ SrvShape(w)
  BY <1>3 DEF Assigns, SrvFields
<1>5. Walk(u, w) /\ Spoken(w)
  BY <1>2, <1>3, <1>4 DEF Walk, TaskOf, Spoken
<1> QED
  BY <1>1, <1>5 DEF Reached, ModeTold

LEMMA AddStays ==
    ASSUME NEW u, NEW v, Walk(u, v), v.begun = {}
    PROVE  Reached(u, BeginAdd(v))
<1> DEFINE w == [v EXCEPT !.token = @ + 1, !.stop = None, !.move = None,
                          !.panel = "add", !.placement = None, !.fields = None,
                          !.creating = FALSE]
<1>1. BeginAdd(v) = PushMapMode(w)
  BY DEF BeginAdd
<1>2. /\ Assigns(v, w, {"token", "stop", "panel", "placement"})
      /\ w.token = v.token + 1 /\ w.stop = None
  BY DEF Assigns, Walk, SrvShape, SrvFields
<1> HIDE DEF w
<1>3. w.out = v.out /\ w.begun = v.begun /\ w.view = v.view /\ SrvShape(w)
  BY <1>2 DEF Assigns, SrvFields
<1>4. Walk(u, w)
  BY <1>2, <1>3 DEF Walk
<1> QED
  BY <1>1, <1>4, ModeSpeaks DEF Reached, ModeTold

LEMMA MoveStays ==
    ASSUME NEW u, NEW v, Walk(u, v), NEW x
    PROVE  Walk(u, MoveDraft(v, x)) /\ Spoken(MoveDraft(v, x))
<1> DEFINE d == [v EXCEPT !.draft = x]
           moved == d.stop # None /\ d.baseline # None /\ d.draft # d.baseline
           r == [d EXCEPT !.move = IF moved THEN d.draft ELSE None]
           m == PushMapMode(r)
           w == [m EXCEPT !.dirty = v.baseline # None /\ (v.named \/ x # v.baseline)]
<1>1. MoveDraft(v, x) = w
  BY DEF MoveDraft, RefreshEditMove
<1>2. Assigns(v, d, {"draft"})
  BY DEF Assigns, Walk, SrvShape, SrvFields
<1>3. Walk(u, d)
  BY <1>2, WalkStays
<1> HIDE DEF d, moved
<1>4. Assigns(d, r, {})
  BY <1>3 DEF Assigns, Walk, SrvShape, SrvFields
<1>5. Walk(u, r)
  BY <1>3, <1>4, WalkStays
<1> HIDE DEF r
<1>6. Walk(u, m) /\ Spoken(m)
  BY <1>5, ModeSpeaks
<1> HIDE DEF m
<1>7. Assigns(m, w, {})
  BY <1>6 DEF Assigns, Walk, SrvShape, SrvFields
<1> HIDE DEF w
<1> QED
  BY <1>1, <1>6, <1>7, WalkStays

LEMMA PlacementStays ==
    ASSUME NEW u, NEW v, Walk(u, v), NEW x
    PROVE  Walk(u, AssignPlacement(v, x)) /\ Spoken(AssignPlacement(v, x))
<1> DEFINE p == [v EXCEPT !.placement = x]
           f == [p EXCEPT !.fields = x]
<1>1. AssignPlacement(v, x) = IF v.panel = "edit" THEN MoveDraft(p, x) ELSE PushMapMode(f)
  BY DEF AssignPlacement
<1>2. Assigns(v, p, {"placement"})
  BY DEF Assigns, Walk, SrvShape, SrvFields
<1> HIDE DEF p
<1>3. Walk(u, p)
  BY <1>2, WalkStays
<1>4. Assigns(p, f, {})
  BY <1>3 DEF Assigns, Walk, SrvShape, SrvFields
<1> HIDE DEF f
<1>5. Walk(u, f)
  BY <1>3, <1>4, WalkStays
<1> QED
  BY <1>1, <1>3, <1>5, MoveStays, ModeSpeaks


-----------------------------------------------------------------------------
(* The events, and the results of the tasks.                               *)

SrvInv(v) ==
    /\ SrvShape(v) /\ v.out = <<>> /\ v.begun = {} /\ v.token \in Nat
    /\ v.panel = "add" => v.stop = None

LEMMA StartsReached ==
    ASSUME NEW v, SrvInv(v)
    PROVE  Reached(v, v)
<1>1. IsSeq(v.out) /\ Len(v.out) = 0
  BY NoneYet DEF SrvInv
<1>2. Walk(v, v)
  BY <1>1 DEF Walk, SrvInv, Replies
<1>3. ModeTold(v, v)
  BY <1>1 DEF ModeTold, Spoken, Silent
<1> QED
  BY <1>2, <1>3 DEF Reached

LEMMA SameReached ==
    ASSUME NEW v, SrvInv(v), NEW w, Assigns(v, w, {"draft"})
    PROVE  Reached(v, w)
BY StartsReached, WalkStays DEF Reached

LEMMA MapHandled ==
    ASSUME NEW v, SrvInv(v), NEW e,
           e.type \in {"ready", "map_unavailable", "retry_map", "find_pin"}
    PROVE  Reached(v, Handled(v, e))
<1>1. CASE e.type = "ready"
  <2> DEFINE a == [v EXCEPT !.map = "ready"]
  <2>1. Handled(v, e) = PushScene(a)
    BY <1>1 DEF Handled
  <2>2. Assigns(v, a, {"draft"})
    BY DEF Assigns, SrvInv, SrvShape, SrvFields
  <2> HIDE DEF a
  <2> QED
    BY <2>1, <2>2, SameReached, PushesStay
<1>2. CASE e.type = "retry_map"
  <2> DEFINE a == [v EXCEPT !.map = "loading"]
  <2>1. Handled(v, e) = PushScene(a)
    BY <1>2 DEF Handled
  <2>2. Assigns(v, a, {"draft"})
    BY DEF Assigns, SrvInv, SrvShape, SrvFields
  <2> HIDE DEF a
  <2> QED
    BY <2>1, <2>2, SameReached, PushesStay
<1>3. CASE e.type = "map_unavailable"
  <2> DEFINE a == [v EXCEPT !.map = "unavailable"]
  <2>1. Handled(v, e) = a
    BY <1>3 DEF Handled
  <2>2. Assigns(v, a, {"draft"})
    BY DEF Assigns, SrvInv, SrvShape, SrvFields
  <2> HIDE DEF a
  <2> QED
    BY <2>1, <2>2, SameReached
<1>4. CASE e.type = "find_pin"
  <2>1. Handled(v, e) = PushFocus(v, v.draft)
    BY <1>4 DEF Handled
  <2> QED
    BY <2>1, StartsReached, PushesStay
<1> QED
  BY <1>1, <1>2, <1>3, <1>4

LEMMA BoundsHandled ==
    ASSUME NEW v, SrvInv(v), NEW e, e.type = "bounds"
    PROVE  Assigns(v, Handled(v, e), {"view"}) /\ Handled(v, e).view = e.x
<1>1. Handled(v, e) = [v EXCEPT !.view = e.x]
  BY DEF Handled
<1> QED
  BY <1>1 DEF Assigns, SrvInv, SrvShape, SrvFields

LEMMA AddHandled ==
    ASSUME NEW v, SrvInv(v), NEW e,
           e.type \in {"start_add", "cancel_add", "add_field", "create_stop"}
    PROVE  Reached(v, Handled(v, e))
<1>0. Reached(v, v)
  BY StartsReached
<1>1. CASE e.type = "start_add"
  <2>1. Handled(v, e) = BeginAdd(v)
    BY <1>1 DEF Handled
  <2> QED
    BY <1>0, <2>1, AddStays DEF Reached, SrvInv
<1>2. CASE e.type = "cancel_add"
  <2> DEFINE a == [v EXCEPT !.panel = "browse", !.placement = None, !.fields = None]
  <2>1. Handled(v, e) = PushMapMode(a)
    BY <1>2 DEF Handled
  <2>2. Assigns(v, a, {"panel", "placement"}) /\ a.panel = "browse"
    BY DEF Assigns, SrvInv, SrvShape, SrvFields
  <2> HIDE DEF a
  <2>3. /\ a.stop = v.stop /\ a.token = v.token /\ a.out = v.out /\ a.begun = v.begun
        /\ a.view = v.view /\ SrvShape(a)
    BY <2>2 DEF Assigns, SrvFields
  <2>4. Walk(v, a)
    BY <1>0, <2>2, <2>3 DEF Reached, Walk, TaskOf
  <2> QED
    BY <2>1, <2>4, ModeSpeaks DEF Reached, ModeTold
<1>3. CASE e.type = "add_field"
  <2> DEFINE a == [v EXCEPT !.fields = e.x]
  <2>1. Handled(v, e) = a
    BY <1>3 DEF Handled
  <2>2. Assigns(v, a, {"draft"})
    BY DEF Assigns, SrvInv, SrvShape, SrvFields
  <2> HIDE DEF a
  <2> QED
    BY <2>1, <2>2, SameReached
<1>4. CASE e.type = "create_stop"
  <2> DEFINE t == [kind |-> "create", token |-> 0, stop |-> None, at |-> v.placement,
                   rev |-> 0, result |-> None]
             a == [v EXCEPT !.fields = e.x]
             c == [v EXCEPT !.fields = e.x, !.creating = TRUE]
  <2>1. Handled(v, e) \in {v, a, Begin(c, t)}
    BY <1>4 DEF Handled, CreateStop
  <2>2. Assigns(v, a, {"draft"}) /\ Assigns(v, c, {"draft"})
    BY DEF Assigns, SrvInv, SrvShape, SrvFields
  <2>3. TaskOf(c, t)
    BY DEF TaskOf, IsTask, TaskFields
  <2> HIDE DEF a, c, t
  <2>4. Reached(v, a) /\ Reached(v, c)
    BY <2>2, SameReached
  <2>5. Reached(v, Begin(c, t))
    BY <2>3, <2>4, BeginStays DEF Reached
  <2> QED
    BY <1>0, <2>1, <2>4, <2>5
<1> QED
  BY <1>1, <1>2, <1>3, <1>4

LEMMA PinHandled ==
    ASSUME NEW v, SrvInv(v), NEW e, e.type \in {"place", "pin_moved", "paste"}
    PROVE  Reached(v, Handled(v, e)) /\ Spoken(Handled(v, e))
<1>1. Handled(v, e) = AssignPlacement(v, e.x)
  BY DEF Handled
<1>2. Walk(v, v)
  BY StartsReached DEF Reached
<1> QED
  BY <1>1, <1>2, PlacementStays DEF Reached, ModeTold

LEMMA EditHandled ==
    ASSUME NEW v, SrvInv(v), NEW e,
           e.type \in {"edit_field", "put_back", "save_stop", "select_stop", "cancel_edit",
                       "keep_editing", "discard_changes"}
    PROVE  Reached(v, Handled(v, e))
<1>0. Reached(v, v) /\ v.begun = {}
  BY StartsReached DEF SrvInv
<1>1. CASE e.type = "edit_field"
  <2> DEFINE a == [v EXCEPT !.named = (@ \/ e.x = v.draft)]
  <2>1. Handled(v, e) = MoveDraft(a, e.x)
    BY <1>1 DEF Handled
  <2>2. Assigns(v, a, {"draft"})
    BY DEF Assigns, SrvInv, SrvShape, SrvFields
  <2> HIDE DEF a
  <2>3. Walk(v, a)
    BY <2>2, SameReached DEF Reached
  <2> QED
    BY <2>1, <2>3, MoveStays DEF Reached, ModeTold
<1>2. CASE e.type = "put_back"
  <2>1. Handled(v, e) \in {v, PushMapMode(MoveDraft(v, v.baseline))}
    BY <1>2 DEF Handled
  <2>2. Walk(v, MoveDraft(v, v.baseline))
    BY <1>0, MoveStays DEF Reached
  <2>3. Reached(v, PushMapMode(MoveDraft(v, v.baseline)))
    BY <2>2, ModeSpeaks DEF Reached, ModeTold
  <2> QED
    BY <1>0, <2>1, <2>3
<1>3. CASE e.type = "save_stop"
  <2> DEFINE t == [kind |-> "save", token |-> v.token, stop |-> v.stop, at |-> e.x,
                   rev |-> v.loaded, result |-> None]
             a == [v EXCEPT !.draft = e.x, !.saving = TRUE,
                            !.dirty = v.named \/ e.x # v.baseline]
  <2>1. Handled(v, e) = StartSave(v, e)
    BY <1>3 DEF Handled
  <2>2. CASE v.stop = None
    BY <1>0, <2>1, <2>2 DEF StartSave
  <2>3. CASE v.stop # None
    <3>1. StartSave(v, e) = Begin(a, t)
      BY <2>3 DEF StartSave
    <3>2. Assigns(v, a, {"draft"})
      BY DEF Assigns, SrvInv, SrvShape, SrvFields
    <3>3. /\ IsTask(t) /\ t.token = v.token /\ t.stop = v.stop
      BY DEF IsTask, TaskFields
    <3> HIDE DEF a, t
    <3>4. a.token = v.token /\ a.stop = v.stop
      BY <3>2 DEF Assigns, SrvFields
    <3>5. TaskOf(a, t)
      BY <2>3, <3>3, <3>4 DEF TaskOf, SrvInv
    <3>6. Reached(v, a)
      BY <3>2, SameReached
    <3> QED
      BY <2>1, <3>1, <3>5, <3>6, BeginStays DEF Reached
  <2> QED
    BY <2>2, <2>3
<1>4. CASE e.type = "select_stop"
  <2> DEFINE a == [v EXCEPT !.asking = e.x]
  <2>1. Handled(v, e) \in {v, a, OpenEdit(v, e.x)}
    BY <1>4 DEF Handled, SelectStop
  <2>2. Assigns(v, a, {"draft"})
    BY DEF Assigns, SrvInv, SrvShape, SrvFields
  <2> HIDE DEF a
  <2> QED
    BY <1>0, <2>1, <2>2, SameReached, OpenStays
<1>5. CASE e.type = "cancel_edit"
  <2> DEFINE a == [v EXCEPT !.asking = "close"]
  <2>1. Handled(v, e) \in {a, CloseEdit(v)}
    BY <1>5 DEF Handled
  <2>2. Assigns(v, a, {"draft"})
    BY DEF Assigns, SrvInv, SrvShape, SrvFields
  <2> HIDE DEF a
  <2> QED
    BY <1>0, <2>1, <2>2, SameReached, CloseStays
<1>6. CASE e.type = "keep_editing"
  <2> DEFINE a == [v EXCEPT !.asking = None]
  <2>1. Handled(v, e) = a
    BY <1>6 DEF Handled
  <2>2. Assigns(v, a, {"draft"})
    BY DEF Assigns, SrvInv, SrvShape, SrvFields
  <2> HIDE DEF a
  <2> QED
    BY <2>1, <2>2, SameReached
<1>7. CASE e.type = "discard_changes"
  <2> DEFINE a == [v EXCEPT !.asking = None]
  <2>1. Handled(v, e) \in {v, CloseEdit(a), OpenEdit(a, v.asking)}
    BY <1>7 DEF Handled, DiscardChanges
  <2>2. Assigns(v, a, {"draft"})
    BY DEF Assigns, SrvInv, SrvShape, SrvFields
  <2> HIDE DEF a
  <2>3. Reached(v, a) /\ a.begun = {}
    BY <1>0, <2>2, SameReached DEF Assigns, SrvFields
  <2> QED
    BY <1>0, <2>1, <2>3, OpenStays, CloseStays
<1> QED
  BY <1>1, <1>2, <1>3, <1>4, <1>5, <1>6, <1>7

LEMMA EventHandled ==
    ASSUME NEW v, SrvInv(v), NEW e, e.type \in EventTypes
    PROVE  /\ e.type # "bounds" => Reached(v, Handled(v, e))
           /\ e.type = "bounds" => /\ Assigns(v, Handled(v, e), {"view"})
                                   /\ Handled(v, e).view = e.x
           /\ e.type = "pin_moved" => Spoken(Handled(v, e))
BY MapHandled, BoundsHandled, AddHandled, PinHandled, EditHandled DEF EventTypes

LEMMA SaveReached ==
    ASSUME NEW v, SrvInv(v), NEW t, TaskOf(v, t), t.kind = "save"
    PROVE  /\ Reached(v, SaveLands(v, t))
           /\ v.panel = "add" \/ v.stop # t.stop => Assigns(v, SaveLands(v, t), {"begun"})
<1>0. Reached(v, v) /\ v.begun = {}
  BY StartsReached DEF SrvInv
<1>1. CASE t.token # v.token
  <2>1. SaveLands(v, t) \in {v, StartLoad(v)}
    BY <1>1 DEF SaveLands
  <2>2. Assigns(v, v, {"begun"})
    BY DEF Assigns, SrvInv
  <2> QED
    BY <1>0, <2>1, <2>2, LoadStays
<1>2. CASE t.token = v.token
  <2> DEFINE a == [v EXCEPT !.saving = FALSE]
             n == AssignEditStop(a, t.stop, db[t.stop])
  <2>1. SaveLands(v, t) \in {a, StartLoad(n)}
    BY <1>2 DEF SaveLands
  <2>2. t.stop = v.stop /\ t.stop # None
    BY <1>2 DEF TaskOf
  <2>3. Assigns(v, a, {"draft"})
    BY DEF Assigns, SrvInv, SrvShape, SrvFields
  <2> HIDE DEF a
  <2>4. Reached(v, a) /\ a.begun = {}
    BY <1>0, <2>3, SameReached DEF Assigns, SrvFields
  <2>5. Reached(v, n)
    BY <2>2, <2>4, EditStays DEF Reached, ModeTold
  <2> HIDE DEF n
  <2>6. Reached(v, StartLoad(n))
    BY <2>5, LoadStays
  <2>7. ~(v.panel = "add" \/ v.stop # t.stop)
    BY <2>2 DEF SrvInv
  <2> QED
    BY <2>1, <2>4, <2>6, <2>7
<1> QED
  BY <1>1, <1>2

LEMMA CreateReached ==
    ASSUME NEW v, SrvInv(v), NEW t
    PROVE  Reached(v, CreateLands(v, t))
<1>0. Reached(v, v)
  BY StartsReached
<1>1. CASE t.result = "ok"
  <2> DEFINE a == [v EXCEPT !.creating = FALSE, !.panel = "created", !.placement = None]
             m == PushMapMode(a)
  <2>1. CreateLands(v, t) = StartLoad(m)
    BY <1>1 DEF CreateLands
  <2>2. Assigns(v, a, {"panel", "placement"}) /\ a.panel = "created"
    BY DEF Assigns, SrvInv, SrvShape, SrvFields
  <2> HIDE DEF a
  <2>3. /\ a.stop = v.stop /\ a.token = v.token /\ a.out = v.out /\ a.begun = v.begun
        /\ a.view = v.view /\ SrvShape(a)
    BY <2>2 DEF Assigns, SrvFields
  <2>4. Walk(v, a)
    BY <1>0, <2>2, <2>3 DEF Reached, Walk, TaskOf
  <2>5. Reached(v, m)
    BY <2>4, ModeSpeaks DEF Reached, ModeTold
  <2> HIDE DEF m
  <2> QED
    BY <2>1, <2>5, LoadStays
<1>2. CASE t.result # "ok"
  <2> DEFINE a == [v EXCEPT !.creating = FALSE]
  <2>1. CreateLands(v, t) = a
    BY <1>2 DEF CreateLands
  <2>2. Assigns(v, a, {"draft"})
    BY DEF Assigns, SrvInv, SrvShape, SrvFields
  <2> HIDE DEF a
  <2> QED
    BY <2>1, <2>2, SameReached
<1> QED
  BY <1>1, <1>2

LEMMA LoadReached ==
    ASSUME NEW v, SrvInv(v), NEW t
    PROVE  Reached(v, LoadLands(v, t))
<1> DEFINE l == [v EXCEPT !.model = t.result]
           a == [l EXCEPT !.requested = None]
<1>1. LoadLands(v, t) \in {PushScene(l), PushScene(BeginAdd(a)), PushScene(OpenEdit(a, v.requested))}
  BY DEF LoadLands
<1>2. Assigns(v, l, {"draft"})
  BY DEF Assigns, SrvInv, SrvShape, SrvFields
<1>3. Assigns(v, a, {"draft"})
  BY DEF Assigns, SrvInv, SrvShape, SrvFields
<1> HIDE DEF l, a
<1>4. Reached(v, l) /\ Reached(v, a) /\ a.begun = {}
  BY <1>2, <1>3, SameReached DEF Assigns, SrvFields, SrvInv
<1>5. Reached(v, BeginAdd(a))
  BY <1>4, AddStays DEF Reached
<1>6. \A s : Reached(v, OpenEdit(a, s))
  BY <1>4, OpenStays
<1> QED
  BY <1>1, <1>4, <1>5, <1>6, PushesStay


-----------------------------------------------------------------------------
(* An answer: its pushes are applied one after the other.                  *)

LEMMA LeastOf ==
    ASSUME NEW T, T \subseteq Nat, T # {}
    PROVE  \E x \in T : \A y \in T : ~(y < x)
<1>1. IsWellFoundedOn(OpToRel(<, Nat), Nat)
  BY NatLessThanWellFounded
<1>2. PICK x \in T : \A y \in T : ~(<<y, x>> \in OpToRel(<, Nat))
  BY <1>1, WFMin
<1>3. ASSUME NEW y \in T, y < x
      PROVE  <<y, x>> \in OpToRel(<, Nat)
  <2>1. OpToRel(<, Nat) = {ss \in Nat \X Nat : ss[1] < ss[2]}
    BY Zenon DEF OpToRel
  <2>2. <<y, x>> \in {ss \in Nat \X Nat : ss[1] < ss[2]}
    BY <1>3
  <2> QED
    BY <2>1, <2>2, Zenon
<1> QED
  BY <1>2, <1>3, Zenon

\* One push more is applied.
NextPage(f, i, p, out) == IF i = 0 THEN p ELSE Apply(f[i - 1], out[i])
Applies(f, n, p, out) == f = [i \in 0 .. n |-> NextPage(f, i, p, out)]

LEMMA AppliedExists ==
    ASSUME NEW p, NEW out
    PROVE  \A n \in Nat : \E f : Applies(f, n, p, out)
<1> DEFINE T == {n \in Nat : ~\E f : Applies(f, n, p, out)}
<1>1. ASSUME T # {} PROVE FALSE
  <2>1. PICK n \in T : \A k \in T : ~(k < n)
    BY <1>1, LeastOf
  <2>2. n # 0
    <3> DEFINE f == [i \in 0 .. 0 |-> p]
    <3>1. \A i \in 0 .. 0 : NextPage(f, i, p, out) = p
      BY DEF NextPage
    <3> HIDE DEF f
    <3>2. [i \in 0 .. 0 |-> NextPage(f, i, p, out)] = [i \in 0 .. 0 |-> p]
      BY <3>1
    <3>3. Applies(f, 0, p, out)
      BY <3>2 DEF Applies, f
    <3> QED
      BY <3>3
  <2>3. PICK f : Applies(f, n - 1, p, out)
    <3>1. n - 1 \in Nat /\ n - 1 < n
      BY <2>2
    <3> QED
      BY <2>1, <3>1
  <2> DEFINE g == [i \in 0 .. n |-> NextPage(f, i, p, out)]
  <2>4. \A i \in 0 .. n - 1 : f[i] = g[i]
    <3>1. f = [i \in 0 .. n - 1 |-> NextPage(f, i, p, out)]
      BY <2>3 DEF Applies
    <3>2. TAKE i \in 0 .. n - 1
    <3>3. i \in 0 .. n
      BY <2>1
    <3>4. g[i] = NextPage(f, i, p, out)
      BY <3>3
    <3> HIDE DEF g
    <3> QED
      BY <3>1, <3>4, Zenon
  <2>5. \A i \in 0 .. n : NextPage(g, i, p, out) = NextPage(f, i, p, out)
    <3> HIDE DEF g
    <3> SUFFICES ASSUME NEW i \in 0 .. n, i # 0
                 PROVE  NextPage(g, i, p, out) = NextPage(f, i, p, out)
      BY DEF NextPage
    <3>1. i - 1 \in 0 .. n - 1
      BY <2>1
    <3> QED
      BY <2>4, <3>1 DEF NextPage
  <2>6. [i \in 0 .. n |-> NextPage(g, i, p, out)] = [i \in 0 .. n |-> NextPage(f, i, p, out)]
    <3> HIDE DEF g
    <3> QED
      BY <2>5
  <2>7. Applies(g, n, p, out)
    BY <2>6, Zenon DEF Applies
  <2> HIDE DEF g
  <2> QED
    BY <2>1, <2>7
<1> QED
  BY <1>1

LEMMA ApplyShows ==
    ASSUME NEW q, NEW b, HookInv(q, b), NEW e, e.type \in PushTypes
    PROVE  /\ HookInv(Apply(q, e), b)
           /\ e.type = "mode" => Apply(q, e).pin = e.arg.pin /\ Apply(q, e).mode = e.arg.mode
           /\ e.type # "mode" => /\ Apply(q, e).pin = q.pin /\ Apply(q, e).mode = q.mode
                                 /\ Apply(q, e).drag = q.drag
<1>1. CASE e.type = "mode"
  <2>1. Apply(q, e) = ApplyMode(q, e.arg)
    BY <1>1 DEF Apply
  <2> QED
    BY <1>1, <2>1, ModeShows
<1>2. CASE e.type = "scene"
  <2> DEFINE o == ApplyScene(q, e.arg)
  <2>1. Apply(q, e) = o
    BY <1>2 DEF Apply
  <2>2. HookInv(o, b) /\ Writes(q, o, Viewing \cup {"scene"})
    BY SceneShows
  <2> HIDE DEF o
  <2>3. o.pin = q.pin /\ o.mode = q.mode /\ o.drag = q.drag
    BY <2>2 DEF Writes, PageFields, Viewing
  <2> QED
    BY <1>2, <2>1, <2>2, <2>3
<1>3. CASE e.type = "focus"
  <2> DEFINE v == [lo |-> e.arg, hi |-> e.arg, z |-> "street"]
             o == SetView(q, v)
  <2>1. Apply(q, e) = o
    BY <1>3 DEF Apply, ApplyFocus
  <2> HIDE DEF v
  <2>2. HookInv(o, b) /\ Writes(q, o, Viewing)
    BY ViewWrites DEF HookInv, ViewInv
  <2> HIDE DEF o
  <2>3. o.pin = q.pin /\ o.mode = q.mode /\ o.drag = q.drag
    BY <2>2 DEF Writes, PageFields, Viewing
  <2> QED
    BY <1>3, <2>1, <2>2, <2>3
<1> QED
  BY <1>1, <1>2, <1>3 DEF PushTypes

\* What the page shows when the first i pushes are applied.
Quiet(out, k, i) == \A j \in k + 1 .. i : out[j].type # "mode"
Follows(q, p, out, i, b) ==
    /\ HookInv(q, b)
    /\ Quiet(out, 0, i) => q.pin = p.pin /\ q.mode = p.mode /\ q.drag = p.drag
    /\ \A k \in 1 .. i : out[k].type = "mode" /\ Quiet(out, k, i)
                           => q.pin = out[k].arg.pin /\ q.mode = out[k].arg.mode

LEMMA FollowsOn ==
    ASSUME NEW q, NEW p, NEW out, NEW b, Replies(out), NEW i \in 1 .. Len(out), Len(out) \in Nat,
           Follows(q, p, out, i - 1, b)
    PROVE  Follows(Apply(q, out[i]), p, out, i, b)
<1> DEFINE o == Apply(q, out[i])
<1>1. out[i].type \in PushTypes
  BY DEF Replies
<1>2. /\ HookInv(o, b)
      /\ out[i].type = "mode" => o.pin = out[i].arg.pin /\ o.mode = out[i].arg.mode
      /\ out[i].type # "mode" => o.pin = q.pin /\ o.mode = q.mode /\ o.drag = q.drag
  BY <1>1, ApplyShows DEF Follows
<1> HIDE DEF o
<1>3. \A k \in 0 .. i - 1 : Quiet(out, k, i) => Quiet(out, k, i - 1) /\ out[i].type # "mode"
  <2> TAKE k \in 0 .. i - 1
  <2> HAVE Quiet(out, k, i)
  <2>1. i \in k + 1 .. i /\ \A j \in k + 1 .. i - 1 : j \in k + 1 .. i
    OBVIOUS
  <2> QED
    BY <2>1 DEF Quiet
<1>4. Quiet(out, 0, i) => o.pin = p.pin /\ o.mode = p.mode /\ o.drag = p.drag
  <2>1. 0 \in 0 .. i - 1
    OBVIOUS
  <2> QED
    BY <1>2, <1>3, <2>1 DEF Follows
<1>5. ASSUME NEW k \in 1 .. i, out[k].type = "mode", Quiet(out, k, i)
      PROVE  o.pin = out[k].arg.pin /\ o.mode = out[k].arg.mode
  <2>1. CASE k = i
    BY <1>2, <1>5, <2>1
  <2>2. CASE k # i
    <3>1. k \in 0 .. i - 1 /\ k \in 1 .. i - 1
      BY <2>2
    <3>2. Quiet(out, k, i - 1) /\ out[i].type # "mode"
      BY <1>3, <1>5, <3>1
    <3>3. q.pin = out[k].arg.pin /\ q.mode = out[k].arg.mode
      BY <1>5, <3>1, <3>2 DEF Follows
    <3> QED
      BY <1>2, <3>2, <3>3
  <2> QED
    BY <2>1, <2>2
<1>6. Follows(o, p, out, i, b)
  BY <1>2, <1>4, <1>5 DEF Follows
<1> QED
  BY <1>6 DEF o

LEMMA AllApplied ==
    ASSUME NEW p, NEW b, HookInv(p, b), NEW out, IsSeq(out), Replies(out)
    PROVE  /\ HookInv(ApplyAll(p, out), b)
           /\ Silent(out) => /\ ApplyAll(p, out).pin = p.pin /\ ApplyAll(p, out).mode = p.mode
                             /\ ApplyAll(p, out).drag = p.drag
           /\ \A m : Says(out, m) => /\ ApplyAll(p, out).pin = m.pin
                                     /\ ApplyAll(p, out).mode = m.mode
<1> DEFINE N == Len(out)
           f == CHOOSE f : f = [i \in 0 .. N |-> IF i = 0 THEN p ELSE Apply(f[i - 1], out[i])]
<1>1. N \in Nat
  BY OneMore
<1>2. ApplyAll(p, out) = f[N]
  BY Zenon DEF ApplyAll
<1>3. Applies(f, N, p, out)
  <2>1. \E h : Applies(h, N, p, out)
    BY <1>1, AppliedExists
  <2> QED
    BY <2>1, Zenon DEF Applies, NextPage
<1> HIDE DEF f
<1> DEFINE T == {i \in 0 .. N : ~Follows(f[i], p, out, i, b)}
<1>4. ASSUME T # {} PROVE FALSE
  <2>0. T \subseteq Nat
    BY <1>1
  <2>1. PICK i \in T : \A k \in T : ~(k < i)
    <3> HIDE DEF T
    <3> QED
      BY <1>4, <2>0, LeastOf
  <2>2. i \in 0 .. N /\ ~Follows(f[i], p, out, i, b)
    OBVIOUS
  <2>3. f[i] = NextPage(f, i, p, out)
    BY <1>3, <2>2, Zenon DEF Applies
  <2>4. i # 0
    <3>1. \A k \in 1 .. 0 : FALSE
      OBVIOUS
    <3>2. Follows(p, p, out, 0, b)
      BY <3>1 DEF Follows
    <3> QED
      BY <2>2, <2>3, <3>2 DEF NextPage
  <2>5. i - 1 \in 0 .. N /\ i - 1 < i /\ i \in 1 .. N
    BY <1>1, <2>2, <2>4
  <2>6. Follows(f[i - 1], p, out, i - 1, b)
    BY <2>1, <2>5
  <2>7. Follows(Apply(f[i - 1], out[i]), p, out, i, b)
    BY <1>1, <2>5, <2>6, FollowsOn
  <2> QED
    BY <2>2, <2>3, <2>4, <2>7 DEF NextPage
<1>5. Follows(f[N], p, out, N, b)
  BY <1>1, <1>4
<1>6. Silent(out) => Quiet(out, 0, N)
  BY DEF Silent, Quiet
<1>7. ASSUME NEW m, Says(out, m)
      PROVE  f[N].pin = m.pin /\ f[N].mode = m.mode
  <2>1. PICK i \in 1 .. Len(out) : /\ out[i].type = "mode" /\ out[i].arg = m
                                   /\ \A j \in i + 1 .. Len(out) : out[j].type # "mode"
    BY <1>7 DEF Says
  <2>2. Quiet(out, i, N)
    BY <2>1 DEF Quiet
  <2> QED
    BY <1>5, <2>1, <2>2 DEF Follows
<1> QED
  BY <1>2, <1>5, <1>6, <1>7 DEF Follows


-----------------------------------------------------------------------------
(* The invariant.                                                          *)

UpInv == IsSeq(up) /\ Events(up) /\ Knows(up, srv.view, page.view)
DownInv ==
    IsSeq(down) /\ \A i \in 1 .. Len(down) : IsSeq(down[i].out) /\ Replies(down[i].out)
TasksInv == \A t \in tasks : TaskOf(srv, t)

AllSilent(d) == \A i \in 1 .. Len(d) : Silent(d[i].out)
LastSays(d, m) ==
    \E i \in 1 .. Len(d) : Says(d[i].out, m) /\ \A j \in i + 1 .. Len(d) : Silent(d[j].out)

\* The last mode on its way is that of the placement; without one the page shows it,
\* unless the pin was moved and the server is still to be told, or has not heard yet.
PinKnown ==
    srv.panel = "add" =>
      \/ LastSays(down, ModePayload(srv))
      \/ /\ AllSilent(down)
         /\ \/ page.pin = ModePayload(srv).pin /\ page.mode = ModePayload(srv).mode
            \/ page.drag \/ Told(up)

Base == PageInv /\ SrvInv(srv) /\ UpInv /\ DownInv /\ TasksInv
Inv == Base /\ PinKnown

LEMMA ToldJoined ==
    ASSUME NEW q, NEW r, IsSeq(q), IsSeq(r)
    PROVE  Told(q) \/ Told(r) => Told(q \o r)
<1> DEFINE s == q \o r
<1>1. /\ Len(q) \in Nat /\ Len(r) \in Nat /\ Len(s) = Len(q) + Len(r)
      /\ \A i \in 1 .. Len(q) : s[i] = q[i]
      /\ \A i \in 1 .. Len(r) : s[Len(q) + i] = r[i]
  BY Joined
<1> HIDE DEF s
<1>2. Told(q) => Told(s)
  BY <1>1 DEF Told
<1>3. ASSUME Told(r)
      PROVE  Told(s)
  <2>1. PICK i \in 1 .. Len(r) : r[i].type = "pin_moved"
    BY <1>3 DEF Told
  <2>2. Len(q) + i \in 1 .. Len(s) /\ s[Len(q) + i] = r[i]
    BY <1>1
  <2> QED
    BY <2>1, <2>2 DEF Told
<1> QED
  BY <1>2, <1>3 DEF s

LEMMA ToldLess ==
    ASSUME NEW q, IsSeq(q), q # <<>>, Told(q), Head(q).type # "pin_moved"
    PROVE  Told(Tail(q))
<1>1. /\ Len(q) \in Nat /\ Len(q) >= 1 /\ Head(q) = q[1] /\ Len(Tail(q)) = Len(q) - 1
      /\ \A i \in 1 .. Len(q) - 1 : Tail(q)[i] = q[i + 1]
  BY OneLess
<1>2. PICK i \in 1 .. Len(q) : q[i].type = "pin_moved"
  BY DEF Told
<1>3. i # 1
  BY <1>1, <1>2
<1>4. i - 1 \in 1 .. Len(Tail(q)) /\ i - 1 \in 1 .. Len(q) - 1 /\ i - 1 + 1 = i
  BY <1>1, <1>3
<1>5. Tail(q)[i - 1] = q[i]
  BY <1>1, <1>4
<1> QED
  BY <1>2, <1>4, <1>5 DEF Told

\* What a hook has done becomes the page, and what it pushed goes on its way.
LEMMA PageChanges ==
    ASSUME Base, NEW p, HookInv(p, page.view),
           page' = [p EXCEPT !.sent = <<>>], up' = up \o p.sent, srv' = srv
    PROVE  /\ PageInv' /\ UpInv'
           /\ page'.pin = p.pin /\ page'.mode = p.mode /\ page'.drag = p.drag
           /\ Told(up) \/ Told(p.sent) => Told(up')
<1>1. Writes(p, page', {"sent"}) /\ page'.sent = <<>>
  BY DEF HookInv, Writes, Shape, PageFields
<1>2. /\ page'.mode = p.mode /\ page'.pin = p.pin /\ page'.ghost = p.ghost
      /\ page'.element = p.element /\ page'.drag = p.drag /\ page'.layers = p.layers
      /\ page'.crosshair = p.crosshair /\ page'.scene = p.scene /\ page'.lines = p.lines
      /\ page'.stops = p.stops /\ page'.routes = p.routes /\ page'.view = p.view
      /\ page'.announced = p.announced
  BY <1>1 DEF Writes, PageFields
<1>3. DrawInv(page') /\ PinInv(page')
  BY <1>2, DrawStays, PinStays DEF HookInv
<1>4. ViewInv(page', page'.view)
  <2>1. IsSeq(<<>>) /\ Events(<<>>) /\ NoBounds(<<>>)
    BY NoneYet DEF Events, NoBounds
  <2> QED
    BY <1>1, <1>2, <2>1 DEF HookInv, ViewInv, Announced, Knows
<1>5. PageInv'
  BY <1>1, <1>3, <1>4 DEF PageInv, HookInv, Writes
<1>6. IsSeq(p.sent) /\ Events(p.sent) /\ Knows(p.sent, page.view, p.view)
  BY DEF HookInv, ViewInv, Announced
<1>7. IsSeq(up') /\ Events(up') /\ Knows(up', srv.view, p.view)
  BY <1>6, KnowsJoined DEF Base, UpInv
<1>8. UpInv'
  BY <1>2, <1>7 DEF UpInv
<1>9. Told(up) \/ Told(p.sent) => Told(up')
  BY <1>6, ToldJoined DEF Base, UpInv
<1> QED
  BY <1>2, <1>5, <1>8, <1>9

LEMMA EditorKeeps ==
    ASSUME Inv, Editor
    PROVE  Inv'
<1>1. PICK p : HookStep(page, p, page.view) /\ Do(p)
  BY EditorSteps DEF Inv, Base, EditorStep
<1>2. /\ page' = [p EXCEPT !.sent = <<>>] /\ up' = up \o p.sent
      /\ UNCHANGED <<srv, tasks, db, down>>
  BY <1>1 DEF Do
<1>3. /\ PageInv' /\ UpInv'
      /\ page'.pin = p.pin /\ page'.mode = p.mode /\ page'.drag = p.drag
      /\ Told(up) \/ Told(p.sent) => Told(up')
  BY <1>1, <1>2, PageChanges DEF Inv, HookStep
<1>4. SrvInv(srv)' /\ DownInv' /\ TasksInv'
  BY <1>2 DEF Inv, Base, SrvInv, DownInv, TasksInv
<1>5. \/ page'.pin = page.pin /\ page'.mode = page.mode /\ page'.drag = page.drag
      \/ page'.drag \/ Told(up')
  BY <1>1, <1>3 DEF HookStep, PinMove
<1>6. PinKnown'
  BY <1>2, <1>3, <1>5 DEF Inv, PinKnown
<1> QED
  BY <1>3, <1>4, <1>6 DEF Inv, Base

-----------------------------------------------------------------------------
(* The steps of the process.                                               *)

\* u is the process, or the process with a view that it has just been told of.
LEMMA ReplyKeeps ==
    ASSUME Base, NEW u, SrvInv(u), Assigns(srv, u, {"view"}), NEW w, Reached(u, w),
           NEW ts, ts \subseteq tasks, Replied(w, ts)
    PROVE  /\ SrvInv(srv)' /\ TasksInv' /\ DownInv' /\ PageInv'
           /\ srv'.view = u.view /\ page' = page
           /\ srv'.panel = w.panel /\ srv'.stop = w.stop /\ srv'.draft = w.draft
           /\ srv'.placement = w.placement
<1>1. /\ srv' = [w EXCEPT !.out = <<>>, !.begun = {}]
      /\ tasks' = Heard(ts, w.begun) \cup w.begun
      /\ down' = down \/ down' = Append(down, [shown |-> Shown(w), out |-> w.out])
      /\ page' = page
  BY DEF Replied
<1>2. Assigns(w, srv', {"out", "begun"}) /\ srv'.out = <<>> /\ srv'.begun = {}
  BY <1>1 DEF Assigns, Reached, Walk, SrvShape, SrvFields
<1>3. /\ srv'.panel = w.panel /\ srv'.stop = w.stop /\ srv'.draft = w.draft
      /\ srv'.placement = w.placement /\ srv'.token = w.token /\ srv'.view = w.view
  BY <1>2 DEF Assigns, SrvFields
<1>4. SrvInv(srv')
  BY <1>2, <1>3 DEF SrvInv, Assigns, Reached, Walk
<1>5. u.token = srv.token /\ u.stop = srv.stop
  BY DEF Assigns, SrvFields
<1>6. TasksInv'
  <2> SUFFICES ASSUME NEW t \in tasks' PROVE TaskOf(srv', t)
    BY DEF TasksInv
  <2>1. CASE t \in w.begun
    BY <1>3, <2>1 DEF Reached, Walk, TaskOf
  <2>2. CASE t \in tasks
    <3>1. TaskOf(srv, t)
      BY <2>2 DEF Base, TasksInv
    <3>2. /\ srv.token \in Nat /\ w.token \in Nat /\ w.token >= srv.token
          /\ w.token = srv.token => w.stop = srv.stop
      BY <1>5 DEF Reached, Walk
    <3>3. t.kind = "save" => /\ t.token <= w.token
                             /\ t.token = w.token => t.stop = w.stop
      BY <3>1, <3>2 DEF TaskOf
    <3> QED
      BY <1>3, <3>1, <3>3 DEF TaskOf
  <2> QED
    BY <1>1, <2>1, <2>2 DEF Heard
<1>7. DownInv'
  <2>1. CASE down' = down
    BY <2>1 DEF Base, DownInv
  <2>2. CASE down' = Append(down, [shown |-> Shown(w), out |-> w.out])
    <3> DEFINE m == [shown |-> Shown(w), out |-> w.out]
    <3>1. m.out = w.out /\ IsSeq(m.out) /\ Replies(m.out)
      BY DEF Reached, Walk
    <3>2. down' = Append(down, m)
      BY <2>2
    <3> HIDE DEF m
    <3>3. /\ IsSeq(down') /\ Len(down') = Len(down) + 1 /\ Len(down) \in Nat
          /\ \A i \in 1 .. Len(down) : down'[i] = down[i]
          /\ down'[Len(down) + 1] = m
      BY <3>2, OneMore DEF Base, DownInv
    <3>4. \A i \in 1 .. Len(down') : i \in 1 .. Len(down) \/ down'[i] = m
      BY <3>3
    <3> QED
      BY <3>1, <3>3, <3>4 DEF Base, DownInv
  <2> QED
    BY <1>1, <2>1, <2>2
<1>8. PageInv'
  BY <1>1 DEF Base, PageInv
<1>9. w.view = u.view
  BY DEF Reached, Walk
<1> QED
  BY <1>1, <1>3, <1>4, <1>6, <1>7, <1>8, <1>9

LEMMA ReplyTells ==
    ASSUME Inv, NEW u, SrvInv(u), Assigns(srv, u, {"view"}), NEW w, Reached(u, w),
           NEW ts, ts \subseteq tasks, Replied(w, ts),
           Spoken(w) \/ (Told(up) => Told(up'))
    PROVE  PinKnown'
<1>1. /\ srv'.panel = w.panel /\ srv'.placement = w.placement /\ page' = page
  BY ReplyKeeps DEF Inv
<1> SUFFICES ASSUME w.panel = "add"
             PROVE  \/ LastSays(down', ModePayload(srv'))
                    \/ /\ AllSilent(down')
                       /\ \/ /\ page'.pin = ModePayload(srv').pin
                             /\ page'.mode = ModePayload(srv').mode
                          \/ page'.drag \/ Told(up')
  BY <1>1 DEF PinKnown
<1>2. ModePayload(srv') = ModePayload(w)
  BY <1>1, SamePayload
<1> DEFINE m == [shown |-> Shown(w), out |-> w.out]
<1>3. /\ m.out = w.out
      /\ down' = down \/ down' = Append(down, m)
      /\ w.out # <<>> => down' = Append(down, m)
  BY DEF Replied
<1> HIDE DEF m
<1>4. /\ Len(Append(down, m)) = Len(down) + 1 /\ Len(down) \in Nat
      /\ \A i \in 1 .. Len(down) : Append(down, m)[i] = down[i]
      /\ Append(down, m)[Len(down) + 1] = m
  BY OneMore DEF Inv, Base, DownInv
<1>5. ASSUME Says(w.out, ModePayload(w))
      PROVE  LastSays(down', ModePayload(w))
  <2>1. w.out # <<>>
    BY <1>5, NoneYet DEF Says
  <2>2. down' = Append(down, m)
    BY <1>3, <2>1
  <2>3. /\ Len(down) + 1 \in 1 .. Len(down')
        /\ \A j \in Len(down) + 1 + 1 .. Len(down') : FALSE
    BY <1>4, <2>2
  <2> QED
    BY <1>3, <1>4, <1>5, <2>2, <2>3 DEF LastSays
<1>6. ASSUME Silent(w.out)
      PROVE  /\ AllSilent(down) => AllSilent(down')
             /\ \A x : LastSays(down, x) => LastSays(down', x)
  <2>1. CASE down' = down
    BY <2>1
  <2>2. CASE down' = Append(down, m)
    <3>1. \A i \in 1 .. Len(down') : i \in 1 .. Len(down) \/ down'[i] = m
      BY <1>4, <2>2
    <3>2. AllSilent(down) => AllSilent(down')
      BY <1>3, <1>4, <1>6, <2>2, <3>1 DEF AllSilent
    <3>3. ASSUME NEW x, LastSays(down, x)
          PROVE  LastSays(down', x)
      <4>1. PICK i \in 1 .. Len(down) : /\ Says(down[i].out, x)
                                        /\ \A j \in i + 1 .. Len(down) : Silent(down[j].out)
        BY <3>3 DEF LastSays
      <4>2. i \in 1 .. Len(down') /\ down'[i] = down[i]
        BY <1>4, <2>2
      <4>3. ASSUME NEW j \in i + 1 .. Len(down')
            PROVE  Silent(down'[j].out)
        <5>1. j \in 1 .. Len(down') /\ (j \in 1 .. Len(down) => j \in i + 1 .. Len(down))
          BY <1>4
        <5>2. j \in 1 .. Len(down) => down'[j] = down[j]
          BY <1>4, <2>2
        <5> QED
          BY <1>3, <1>6, <3>1, <4>1, <5>1, <5>2
      <4> QED
        BY <4>1, <4>2, <4>3 DEF LastSays
    <3> QED
      BY <3>2, <3>3
  <2> QED
    BY <1>3, <2>1, <2>2
<1>7. CASE Spoken(w)
  BY <1>2, <1>5, <1>7 DEF Spoken
<1>8. CASE ~Spoken(w)
  <2>1. Silent(w.out) /\ u.panel = "add" /\ w.placement = u.placement
    BY <1>8 DEF Reached, ModeTold
  <2>2. srv.panel = "add" /\ w.placement = srv.placement
    BY <2>1 DEF Assigns, SrvFields
  <2>3. ModePayload(w) = ModePayload(srv)
    BY <2>2, SamePayload
  <2> QED
    BY <1>1, <1>2, <1>6, <1>8, <2>1, <2>2, <2>3 DEF Inv, PinKnown
<1> QED
  BY <1>7, <1>8

LEMMA HandlesKeeps ==
    ASSUME Inv, Handles
    PROVE  Inv'
<1> DEFINE e == Head(up)
           w == Handled(srv, e)
           u == IF e.type = "bounds" THEN w ELSE srv
<1>1. up # <<>> /\ up' = Tail(up) /\ Replied(w, tasks)
  BY DEF Handles
<1>2. /\ e.type \in EventTypes /\ IsSeq(up') /\ Events(up')
      /\ e.type # "bounds" => Knows(up', srv.view, page.view)
      /\ e.type = "bounds" => Knows(up', e.x, page.view)
  BY <1>1, KnowsLess DEF Inv, Base, UpInv
<1>3. SrvInv(srv) /\ Base
  BY DEF Inv, Base
<1>4. /\ e.type # "bounds" => Reached(srv, w)
      /\ e.type = "bounds" => Assigns(srv, w, {"view"}) /\ w.view = e.x
      /\ e.type = "pin_moved" => Spoken(w)
  BY <1>2, <1>3, EventHandled
<1>4a. u = IF e.type = "bounds" THEN w ELSE srv
  OBVIOUS
<1> HIDE DEF w, u
<1>5. Assigns(srv, u, {"view"}) /\ SrvInv(u)
  <2>1. Assigns(srv, srv, {"view"})
    BY <1>3 DEF Assigns, SrvInv
  <2>2. Assigns(srv, w, {"view"}) => SrvInv(w)
    BY <1>3 DEF Assigns, SrvFields, SrvInv
  <2> QED
    BY <1>3, <1>4, <1>4a, <2>1, <2>2
<1>6. Reached(u, w)
  BY <1>4, <1>4a, <1>5, StartsReached
<1>7. u.view = IF e.type = "bounds" THEN e.x ELSE srv.view
  BY <1>4, <1>4a
<1>8. /\ SrvInv(srv)' /\ TasksInv' /\ DownInv' /\ PageInv'
      /\ srv'.view = u.view /\ page' = page
  BY <1>1, <1>3, <1>5, <1>6, ReplyKeeps
<1>9. UpInv'
  BY <1>2, <1>7, <1>8 DEF UpInv
<1>10. e.type # "pin_moved" => (Told(up) => Told(up'))
  BY <1>1, ToldLess DEF Inv, Base, UpInv
<1>11. PinKnown'
  BY <1>1, <1>4, <1>5, <1>6, <1>10, ReplyTells
<1> QED
  BY <1>8, <1>9, <1>11 DEF Inv, Base

LEMMA LandsKeeps ==
    ASSUME Inv, NEW t \in tasks, Lands(t)
    PROVE  /\ Inv'
           /\ t.kind = "save" /\ (srv.panel = "add" \/ srv.stop # t.stop)
                => /\ srv'.panel = srv.panel /\ srv'.stop = srv.stop
                   /\ srv'.draft = srv.draft /\ srv'.placement = srv.placement
<1> DEFINE w == CASE t.kind = "load" -> LoadLands(srv, t)
                  [] t.kind = "save" -> SaveLands(srv, t)
                  [] t.kind = "create" -> CreateLands(srv, t)
<1>1. up' = up /\ Replied(w, tasks \ {t})
  BY DEF Lands
<1>2. SrvInv(srv) /\ Base /\ TaskOf(srv, t)
  BY DEF Inv, Base, TasksInv
<1>3. /\ Reached(srv, w)
      /\ t.kind = "save" /\ (srv.panel = "add" \/ srv.stop # t.stop)
           => Assigns(srv, w, {"begun"})
  <2>1. CASE t.kind = "load"
    <3>1. w = LoadLands(srv, t)
      BY <2>1
    <3> QED
      BY <1>2, <2>1, <3>1, LoadReached
  <2>2. CASE t.kind = "save"
    <3>1. w = SaveLands(srv, t)
      BY <2>2
    <3> QED
      BY <1>2, <2>2, <3>1, SaveReached
  <2>3. CASE t.kind = "create"
    <3>1. w = CreateLands(srv, t)
      BY <2>3
    <3> QED
      BY <1>2, <2>3, <3>1, CreateReached
  <2> QED
    BY <1>2, <2>1, <2>2, <2>3 DEF TaskOf, IsTask
<1> HIDE DEF w
<1>4. Assigns(srv, srv, {"view"}) /\ tasks \ {t} \subseteq tasks
  BY <1>2 DEF Assigns, SrvInv
<1>5. /\ SrvInv(srv)' /\ TasksInv' /\ DownInv' /\ PageInv'
      /\ srv'.view = srv.view /\ page' = page
      /\ srv'.panel = w.panel /\ srv'.stop = w.stop /\ srv'.draft = w.draft
      /\ srv'.placement = w.placement
  BY <1>1, <1>2, <1>3, <1>4, ReplyKeeps
<1>6. PinKnown'
  BY <1>1, <1>2, <1>3, <1>4, ReplyTells
<1>7. UpInv'
  BY <1>1, <1>5 DEF Inv, Base, UpInv
<1>8. Assigns(srv, w, {"begun"}) => /\ w.panel = srv.panel /\ w.stop = srv.stop
                                    /\ w.draft = srv.draft /\ w.placement = srv.placement
  BY DEF Assigns, SrvFields
<1> QED
  BY <1>3, <1>5, <1>6, <1>7, <1>8 DEF Inv, Base

LEMMA RunsKeeps ==
    ASSUME Inv, NEW t \in tasks, Runs(t)
    PROVE  Inv'
<1>1. TaskOf(srv, t) /\ page' = page /\ srv' = srv /\ up' = up /\ down' = down
  BY DEF Inv, Base, TasksInv, Runs
<1>2. \E r : tasks' = (tasks \ {t}) \cup {[t EXCEPT !.result = r]}
  <2>1. CASE t.kind = "load"
    BY <2>1 DEF Runs
  <2>2. CASE t.kind = "save"
    <3>1. PICK fresh \in {TRUE, db[t.stop].rev = t.rev} :
            tasks' = (tasks \ {t}) \cup {[t EXCEPT !.result = IF fresh THEN "ok" ELSE "stale"]}
      BY <2>2 DEF Runs
    <3> QED
      BY <3>1
  <2>3. CASE t.kind = "create"
    BY <2>3 DEF Runs
  <2> QED
    BY <1>1, <2>1, <2>2, <2>3 DEF TaskOf, IsTask
<1>3. PICK r : tasks' = (tasks \ {t}) \cup {[t EXCEPT !.result = r]}
  BY <1>2
<1> DEFINE s == [t EXCEPT !.result = r]
<1>4. /\ TaskFields \subseteq DOMAIN s
      /\ s.kind = t.kind /\ s.token = t.token /\ s.stop = t.stop
  BY <1>1 DEF TaskOf, IsTask, TaskFields
<1>5. \A x \in tasks' : x \in tasks \/ x = s
  BY <1>3
<1> HIDE DEF s
<1>6. TaskOf(srv, s)
  BY <1>1, <1>4 DEF TaskOf, IsTask
<1>7. TasksInv'
  BY <1>1, <1>5, <1>6 DEF Inv, Base, TasksInv
<1> QED
  BY <1>1, <1>7 DEF Inv, Base, PageInv, SrvInv, UpInv, DownInv, PinKnown

LEMMA AnsweredKeeps ==
    ASSUME Inv, Answered
    PROVE  Inv'
<1> DEFINE d == Head(down)
           q == Patched(page, d.shown)
           p == ApplyAll(q, d.out)
<1>1. /\ down # <<>> /\ down' = Tail(down) /\ page' = [p EXCEPT !.sent = <<>>]
      /\ up' = up \o p.sent /\ UNCHANGED <<srv, tasks>>
  BY DEF Answered
<1>2. /\ IsSeq(down') /\ Len(down) \in Nat /\ Len(down) >= 1 /\ d = down[1]
      /\ Len(down') = Len(down) - 1
      /\ \A i \in 1 .. Len(down) - 1 : down'[i] = down[i + 1]
  BY <1>1, OneLess DEF Inv, Base, DownInv
<1>3. IsSeq(d.out) /\ Replies(d.out)
  <2>1. 1 \in 1 .. Len(down)
    BY <1>2
  <2> QED
    BY <1>2, <2>1 DEF Inv, Base, DownInv
<1>4. Writes(page, q, {})
  BY DEF Patched, Inv, Base, PageInv, HookInv, Writes, Shape, PageFields
<1> HIDE DEF q
<1>5. HookInv(q, page.view)
  BY <1>4, HookStays DEF Inv, Base, PageInv
<1>6. q.pin = page.pin /\ q.mode = page.mode /\ q.drag = page.drag
  BY <1>4 DEF Writes, PageFields
<1>7. /\ HookInv(p, page.view)
      /\ Silent(d.out) => p.pin = q.pin /\ p.mode = q.mode /\ p.drag = q.drag
      /\ \A m : Says(d.out, m) => p.pin = m.pin /\ p.mode = m.mode
  BY <1>3, <1>5, AllApplied
<1> HIDE DEF p
<1>8. /\ PageInv' /\ UpInv'
      /\ page'.pin = p.pin /\ page'.mode = p.mode /\ page'.drag = p.drag
      /\ Told(up) => Told(up')
  BY <1>1, <1>7, PageChanges DEF Inv
<1>9. \A i \in 1 .. Len(down') : i + 1 \in 1 .. Len(down) /\ down'[i] = down[i + 1]
  BY <1>2
<1>10. DownInv'
  BY <1>2, <1>9 DEF Inv, Base, DownInv
<1>11. SrvInv(srv)' /\ TasksInv'
  BY <1>1 DEF Inv, Base, TasksInv
<1>12. ASSUME srv.panel = "add", NEW m, m = ModePayload(srv)
       PROVE  \/ LastSays(down', m)
              \/ /\ AllSilent(down')
                 /\ \/ page'.pin = m.pin /\ page'.mode = m.mode
                    \/ page'.drag \/ Told(up')
  <2>1. CASE LastSays(down, m)
    <3>1. PICK i \in 1 .. Len(down) : /\ Says(down[i].out, m)
                                      /\ \A j \in i + 1 .. Len(down) : Silent(down[j].out)
      BY <2>1 DEF LastSays
    <3>2. \A j \in i .. Len(down') : Silent(down'[j].out)
      <4> TAKE j \in i .. Len(down')
      <4>1. j \in 1 .. Len(down') /\ j + 1 \in i + 1 .. Len(down)
        BY <1>2
      <4> QED
        BY <1>9, <3>1, <4>1
    <3>3. CASE i = 1
      <4>1. AllSilent(down')
        BY <3>2, <3>3 DEF AllSilent
      <4>2. p.pin = m.pin /\ p.mode = m.mode
        BY <1>2, <1>7, <3>1, <3>3
      <4> QED
        BY <1>8, <4>1, <4>2
    <3>4. CASE i # 1
      <4>1. i - 1 \in 1 .. Len(down') /\ i - 1 + 1 = i
        BY <1>2, <3>4
      <4>2. down'[i - 1] = down[i]
        BY <1>9, <4>1
      <4>3. LastSays(down', m)
        BY <3>1, <3>2, <4>1, <4>2 DEF LastSays
      <4> QED
        BY <4>3
    <3> QED
      BY <3>3, <3>4
  <2>2. CASE ~LastSays(down, m)
    <3>1. /\ AllSilent(down)
          /\ \/ page.pin = m.pin /\ page.mode = m.mode
             \/ page.drag \/ Told(up)
      BY <1>12, <2>2 DEF Inv, PinKnown
    <3>2. AllSilent(down')
      BY <1>9, <3>1 DEF AllSilent
    <3>3. Silent(d.out)
      <4>1. 1 \in 1 .. Len(down)
        BY <1>2
      <4> QED
        BY <1>2, <3>1, <4>1 DEF AllSilent
    <3> QED
      BY <1>6, <1>7, <1>8, <3>1, <3>2, <3>3
  <2> QED
    BY <2>1, <2>2
<1>13. PinKnown'
  BY <1>1, <1>12 DEF PinKnown
<1> QED
  BY <1>8, <1>10, <1>11, <1>13 DEF Inv, Base

-----------------------------------------------------------------------------
LEMMA StartsInInv ==
    ASSUME Init
    PROVE  Inv
<1>1. PICK hidden \in BOOLEAN, link \in {None, "add"} \cup {s \in Stops : At[s] # None} :
         /\ page = [Mounted(hidden) EXCEPT !.sent = <<>>]
         /\ up = Mounted(hidden).sent
         /\ LET bare == [panel |-> "browse", placement |-> None, stop |-> None, fields |-> None,
                         baseline |-> None, draft |-> None, move |-> None, token |-> 0,
                         saving |-> FALSE, creating |-> FALSE, dirty |-> FALSE, named |-> FALSE,
                         loaded |-> 0, model |-> None, map |-> "loading", view |-> None,
                         asking |-> None, requested |-> link, out |-> <<>>, begun |-> {}]
            IN  srv = bare /\ tasks = StartLoad(bare).begun
  BY DEF Init
<1>2. /\ srv.panel = "browse" /\ srv.out = <<>> /\ srv.begun = {} /\ srv.token = 0
      /\ srv.view = None /\ SrvShape(srv) /\ tasks = StartLoad(srv).begun
  BY <1>1 DEF SrvShape, SrvFields
<1>3. SrvInv(srv)
  BY <1>2 DEF SrvInv
<1>4. TasksInv
  <2>1. Reached(srv, StartLoad(srv)) /\ Assigns(srv, StartLoad(srv), {"begun"})
    BY <1>3, StartsReached, LoadStays
  <2>2. StartLoad(srv).token = srv.token /\ StartLoad(srv).stop = srv.stop
    BY <2>1 DEF Assigns, SrvFields
  <2> QED
    BY <1>2, <2>1, <2>2 DEF TasksInv, Reached, Walk, TaskOf
<1>5. down = <<>>
  BY DEF Init
<1>6. DownInv
  BY <1>5, NoneYet DEF DownInv
<1> DEFINE
      bare == [mode |-> "browse", pin |-> None, ghost |-> None, element |-> NoElement,
               drag |-> FALSE, layers |-> None, crosshair |-> FALSE, scene |-> None,
               lines |-> {}, stops |-> {}, routes |-> TRUE, basemap |-> "streets",
               failed |-> FALSE, hidden |-> hidden, announced |-> None,
               view |-> [lo |-> 0, hi |-> MaxPlace, z |-> "far"], panel |-> "browse",
               form |-> None, saving |-> FALSE, dirty |-> FALSE, asking |-> FALSE,
               map |-> "loading", sent |-> <<>>]
      q == Push(bare, "ready", None)
      o == ReportBounds(q)
<1>7. Mounted(hidden) = o
  BY DEF Mounted
<1>8. /\ Shape(bare) /\ bare.mode = "browse" /\ bare.pin = None /\ bare.ghost = None
      /\ bare.element = NoElement /\ ~bare.drag /\ bare.layers = None /\ bare.scene = None
      /\ bare.lines = {} /\ bare.stops = {} /\ bare.announced = None /\ bare.sent = <<>>
  BY DEF Shape, PageFields
<1>9. bare.crosshair = (bare.mode = "add" /\ bare.pin = None)
  OBVIOUS
<1> HIDE DEF bare
<1>10. DrawInv(bare)
  BY <1>8 DEF DrawInv, LinesAreDrawn, StopsAreDrawn, LinesDrawn, StopsDrawn
<1>11. PinInv(bare)
  BY <1>8, <1>9 DEF PinInv, LayersAreDrawn, PinLayers, ModeIsShown, PinIsThere, DragsAPin
<1>12. Announced(bare, None)
  BY <1>8, NoneYet DEF Announced, Events, Knows, NoBounds
<1>13. Writes(bare, q, {"sent"}) /\ Announced(q, None)
  BY <1>8, <1>12, PushWrites DEF EventTypes
<1> HIDE DEF q
<1>14. Writes(q, o, {"announced", "sent"}) /\ ViewInv(o, None)
  BY <1>13, ReportWrites DEF Writes
<1> HIDE DEF o
<1>15. /\ o.mode = bare.mode /\ o.pin = bare.pin /\ o.ghost = bare.ghost
       /\ o.element = bare.element /\ o.drag = bare.drag /\ o.layers = bare.layers
       /\ o.crosshair = bare.crosshair /\ o.scene = bare.scene /\ o.lines = bare.lines
       /\ o.stops = bare.stops /\ o.routes = bare.routes /\ o.view = bare.view
  BY <1>13, <1>14 DEF Writes, PageFields
<1>16. DrawInv(o) /\ PinInv(o) /\ Shape(o)
  BY <1>10, <1>11, <1>14, <1>15, DrawStays, PinStays DEF Writes
<1>17. page = [o EXCEPT !.sent = <<>>] /\ up = o.sent
  BY <1>1, <1>7
<1>18. Writes(o, page, {"sent"}) /\ page.sent = <<>>
  BY <1>16, <1>17 DEF Writes, Shape, PageFields
<1>19. /\ page.mode = o.mode /\ page.pin = o.pin /\ page.ghost = o.ghost
       /\ page.element = o.element /\ page.drag = o.drag /\ page.layers = o.layers
       /\ page.crosshair = o.crosshair /\ page.scene = o.scene /\ page.lines = o.lines
       /\ page.stops = o.stops /\ page.routes = o.routes /\ page.view = o.view
       /\ page.announced = o.announced
  BY <1>18 DEF Writes, PageFields
<1>20. DrawInv(page) /\ PinInv(page) /\ Shape(page)
  BY <1>16, <1>18, <1>19, DrawStays, PinStays DEF Writes
<1>21. ViewInv(page, page.view)
  BY <1>14, <1>18, <1>19, NoneYet DEF ViewInv, Announced, Events, Knows, NoBounds
<1>22. PageInv
  BY <1>18, <1>20, <1>21 DEF PageInv, HookInv
<1>23. UpInv
  BY <1>2, <1>14, <1>17, <1>19 DEF UpInv, ViewInv, Announced
<1>24. PinKnown
  BY <1>2 DEF PinKnown
<1> QED
  BY <1>3, <1>4, <1>6, <1>22, <1>23, <1>24 DEF Inv, Base

LEMMA NextKeeps ==
    ASSUME Inv, [Next]_vars
    PROVE  Inv'
<1>1. CASE Editor
  BY <1>1, EditorKeeps
<1>2. CASE Handles
  BY <1>2, HandlesKeeps
<1>3. CASE Answered
  BY <1>3, AnsweredKeeps
<1>4. ASSUME NEW t \in tasks, Runs(t)
      PROVE  Inv'
  BY <1>4, RunsKeeps
<1>5. ASSUME NEW t \in tasks, Lands(t)
      PROVE  Inv'
  BY <1>5, LandsKeeps
<1>6. CASE UNCHANGED vars
  BY <1>6 DEF vars, Inv, Base, PageInv, SrvInv, UpInv, DownInv, TasksInv, PinKnown
<1> QED
  BY <1>1, <1>2, <1>3, <1>4, <1>5, <1>6 DEF Next

LEMMA AlwaysInv == Spec => []Inv
<1>1. Init => Inv
  BY StartsInInv
<1>2. Inv /\ [Next]_vars => Inv'
  BY NextKeeps
<1> QED
  BY <1>1, <1>2, PTL DEF Spec

\* The lines, the stops, the pin with its layers and the crosshair on the screen are
\* those of the scene, the view, the toggle and the mode at every moment, and
\* nothing is dragged that is not there.
THEOREM ScreenBelongs == Spec => []ScreenIsCurrent
<1>1. Inv => ScreenIsCurrent
  BY DEF Inv, Base, PageInv, HookInv, DrawInv, PinInv, LinesAreDrawn, StopsAreDrawn,
         LayersAreDrawn, ModeIsShown, PinIsThere, DragsAPin, ScreenIsCurrent
<1> QED
  BY <1>1, AlwaysInv, PTL

\* When nothing is on its way the process has been told of the view on the screen.
THEOREM ViewsAreListed == Spec => []PanelListsTheView
<1>1. Inv => PanelListsTheView
  <2> SUFFICES ASSUME Inv, AtRest
               PROVE  srv.view = page.view
    BY DEF PanelListsTheView
  <2>1. Knows(up, srv.view, page.view) /\ Len(up) = 0
    BY NoneYet DEF Inv, Base, UpInv, AtRest
  <2> QED
    BY <2>1 DEF Knows
<1> QED
  BY <1>1, AlwaysInv, PTL

\* When nothing is on its way the pin of a stop that is being added is where the
\* process would create it.
THEOREM PinsArePlacements == Spec => []PinIsThePlacement
<1>1. Inv => PinIsThePlacement
  <2> SUFFICES ASSUME Inv, AtRest, ~page.drag, srv.panel = "add"
               PROVE  /\ page.pin = srv.placement
                      /\ page.mode = IF srv.placement = None THEN "add" ELSE "browse"
    BY DEF PinIsThePlacement
  <2>1. Len(up) = 0 /\ Len(down) = 0
    BY NoneYet DEF AtRest
  <2>2. ~Told(up) /\ ~LastSays(down, ModePayload(srv))
    BY <2>1 DEF Told, LastSays
  <2>3. page.pin = ModePayload(srv).pin /\ page.mode = ModePayload(srv).mode
    BY <2>2 DEF Inv, PinKnown
  <2>4. /\ ModePayload(srv).pin = srv.placement
        /\ ModePayload(srv).mode = IF srv.placement = None THEN "add" ELSE "browse"
    BY DEF ModePayload, NoMove
  <2> QED
    BY <2>3, <2>4
<1> QED
  BY <1>1, AlwaysInv, PTL

\* A save that lands late leaves the panel, the stop and the draft of another opening,
\* and of a stop that is being added, as they are.
THEOREM OtherPanelsAreSpared == Spec => SavesKeepOtherPanels
<1> DEFINE A == \A t \in tasks :
                  Lands(t) /\ t.kind = "save" /\ (srv.panel = "add" \/ srv.stop # t.stop)
                    => /\ srv'.panel = srv.panel /\ srv'.stop = srv.stop
                       /\ srv'.draft = srv.draft /\ srv'.placement = srv.placement
<1>1. Inv /\ [Next]_vars => A
  BY LandsKeeps
<1> HIDE DEF A
<1>2. Spec => [][A]_vars
  BY <1>1, AlwaysInv, PTL DEF Spec
<1>3. [][A]_vars => SavesKeepOtherPanels
  BY DEF A, SavesKeepOtherPanels
<1> QED
  BY <1>2, <1>3


=============================================================================
