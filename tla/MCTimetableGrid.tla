--------------------------- MODULE MCTimetableGrid ---------------------------
EXTENDS TimetableGrid

\* Two trips at three stops; one has a time only at the stop in the middle, which is
\* no timepoint.
MCTrips == <<"t1", "t2">>
MCStops == <<1, 2, 3>>
MCClearable == {2}
MCStart == [t1 |-> <<0, 1, 2>>, t2 |-> <<Blank, 1, Blank>>]
MCTyped == {3, Junk}
=============================================================================
