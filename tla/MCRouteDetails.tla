--------------------------- MODULE MCRouteDetails ---------------------------
EXTENDS RouteDetails

\* Two patterns and two variants at first; another editor redraws one of them.
MCPayload ==
    LET Section(i, status) == [from |-> i, to |-> i + 1, status |-> status]
        Pattern(id, visits, sections) == [id |-> id, visits |-> visits, sections |-> sections]
        s1 == [id |-> "s1", status |-> "saved"]
    IN  <<[patterns |-> {Pattern("p1", <<"a", "b", None>>, {Section(1, "saved"), Section(2, "missing")})},
           variants |-> {s1, [id |-> "s2", status |-> "unavailable"]}],
          [patterns |-> {Pattern("p2", <<"b", "c">>, {Section(1, "missing")})},
           variants |-> {s1}]>>
MCNearby == [fit |-> <<{"r1"}, {"r2"}>>, near |-> <<{"r2"}>>]
MCInactive == {"r2"}
MCTyped == [short |-> {"mine", "old"}, color |-> {"pale", "bad"}, text |-> {"auto", "white"}]
MCTheirs == [short |-> {"theirs"}, color |-> {}, text |-> {"white", "black", "auto"}]

\* A drop of the connection and a second save happen in different behaviours.
DropOrSecondSave == drops = 0 \/ others <= 1
=============================================================================
