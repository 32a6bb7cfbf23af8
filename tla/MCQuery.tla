------------------------------- MODULE MCQuery -------------------------------
EXTENDS Query

Row(t, s, p) == [t |-> t, s |-> s, p |-> p]

\* Strings 1 and 2 are short, 3 is over-long.
MCInputs ==
  {<< <<Row(1, 1, 5), Row(2, 2, 3)>> >>,
   << <<Row(2, 3, 4)>>, <<Row(3, 1, 6)>> >>,
   << <<Row(3, 2, 2), Row(2, 1, 7), Row(3, 0, 1)>> >>,
   << <<Row(3, 0, 5)>> >>}

MCRanges == {<<2, 3>>, <<1, 3>>}

Filter(syms, null, lo, hi) == [syms |-> syms, null |-> null, lo |-> lo, hi |-> hi]

MCFilters ==
  {Filter({}, FALSE, 0, Never), Filter({3}, FALSE, 0, Never), Filter({1}, FALSE, 2, 2),
   Filter({1, 3}, FALSE, 0, 2), Filter({}, TRUE, 0, Never), Filter({}, FALSE, 3, 3)}

MCPins ==
  {Latest, [kind |-> "version", n |-> 1], [kind |-> "as of", n |-> 5],
   [kind |-> "snapshot"]}

MCCutoffs == {Never, 2}
=============================================================================
