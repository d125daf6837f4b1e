------------------------------ MODULE MCSlots ------------------------------
(***************************************************************************)
(* A small instance of Slots for TLC.                                      *)
(***************************************************************************)
EXTENDS Slots, TLC

\* Nothing, a whole day, a pair with a gap, a pair that touches, an empty window, an
\* overlapping pair that is refused, a pair on two days, the other day only.
Window(d, s, e) == [day |-> d, start |-> s, end |-> e]
WeekSchedules ==
  { {}, {Window(0, 0, 6)}, {Window(0, 1, 3), Window(0, 4, 6)},
    {Window(0, 0, 2), Window(0, 2, 5)}, {Window(0, 3, 3)},
    {Window(0, 0, 5), Window(0, 3, 6)},
    {Window(0, 2, 6), Window(1, 0, 3)}, {Window(1, 0, 6)} }

\* Overrides of one unit or more, before, in and across the two days of the range.
SomeSpans == [start : {-1, 0, 1, 2, 4, 7}, end : {1, 3, 5, 6, 8}]

Symmetry == Permutations(Req) \cup Permutations(Override)
=============================================================================
