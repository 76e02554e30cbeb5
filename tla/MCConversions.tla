--------------------------- MODULE MCConversions ----------------------------
(* Names of every shape the conversions tell apart, and readings of the    *)
(* clock at the ends of FAT's calendar, around midnights and leap days.    *)
EXTENDS FatConversions, TLC

Repeat(c, n) == [i \in 1..n |-> c]
Six == Repeat("a", 6)
MCNames ==
  { <<"a">>, <<"a", ".">>, <<"a", ".", "b">>, <<"A", "b">>, <<"a", "b", ".">>,
    <<"A", "b", ".", "a">>, <<"a", "b", ".", "a", "b", "a">>,
    <<"a", "b", ".", "a", "b", "a", "a">>, Six, Six \o <<".", "b", "a">>,
    Six \o <<"b">>, Six \o <<"b", "b">>, Six \o <<"b", "b", ".", "a">>,
    Six \o <<"b", "b", "b">>, Six \o <<"a", "b", "b", ".", "a">>,
    <<".">>, <<".", ".">>, <<".", "a">>, <<"a", ".", "b", ".", "a">>,
    <<"a", "b", " ", "b">>, <<"a", "\\", "b">>, <<"xE5", "a">>,
    <<"a", "*">>, <<"a", "b", ".", "*">>, Six \o <<"~", "1">> }

\* 1980-01-01 00:00:01, 1999-12-31 23:59:59, 2000-02-29, 2012-03-01 12:01:03,
\* the same day later, 2099-12-31, 2107-12-31.
MCClock == << [day |-> 3652, sec |-> 1], [day |-> 10956, sec |-> 86399],
              [day |-> 11016, sec |-> 0], [day |-> 15400, sec |-> 43263],
              [day |-> 15400, sec |-> 61201], [day |-> 47481, sec |-> 86398],
              [day |-> 50402, sec |-> 3600] >>
=============================================================================
