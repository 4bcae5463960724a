--------------------------- MODULE MCMeasurements ---------------------------
(* Files with measurements for checking Measurements. *)
EXTENDS Measurements

Num(n)  == [k |-> "num", v |-> n, blank |-> FALSE]
NaN     == [k |-> "nan", v |-> 0, blank |-> FALSE]
Time    == [k |-> "time", v |-> 2011, blank |-> FALSE]
Word    == [k |-> "word", v |-> 0, blank |-> FALSE]
Blank(field) == [field EXCEPT !.blank = TRUE]
LineEnd == Blank(Word)

Content(list) == [there |-> TRUE, lines |-> list]
Single(fields) == <<Word, fields[1], Word>> \o Tail(fields)
Header(limits) == <<Word, Word>> \o limits

\* Below, at and above the limit, in both directions; no limits, half of them,
\* equal ones, one after a space, ones that are not numbers.
Limits == {<<>>, <<Num(5)>>, <<LineEnd>>, <<Num(5), LineEnd>>, <<Num(4), Word>>,
           <<Num(9), Num(3)>>, <<Num(1), Num(3)>>, <<Num(3), Num(3)>>, <<NaN, Num(3)>>,
           <<Blank(Num(9)), Num(3)>>}
FieldsOfLine == {Num(2), Num(3), Num(4), NaN, Word}

Singles ==
  {Content(<<Single(<<v>> \o l)>>) : v \in FieldsOfLine, l \in Limits}
    \cup {Content(<<Single(<<Num(4), Num(9), Num(3)>>), <<LineEnd>>, x, Single(<<Num(3), Num(9), Num(3)>>)>>) :
            x \in {Single(<<Num(1)>>), <<Word, Num(2)>>, <<LineEnd, Num(2), Word, Num(9), Num(3)>>}}
Series ==
  {Content(<<Header(l), <<v>>, <<Time, Num(4)>>, x>>) :
     v \in FieldsOfLine, l \in Limits, x \in {<<LineEnd>>, <<Time>>, <<Word, Num(1)>>}}
    \cup {Content(<<>>), Content(<<<<LineEnd>>, <<Num(1)>>>>), Content(<<Header(<<>>)>>)}

\* Two files, with a name each or the same one; the second is a plain one.
AGet(base, series, content) ==
  [base |-> base, measurement |-> TRUE, series |-> series, content |-> content]
Good == Content(<<Single(<<Num(4), Num(9), Num(3)>>)>>)
GoodSeries == Content(<<Header(<<Num(9), Num(3)>>), <<Num(4)>>, <<Time, Num(5)>>>>)
Others ==
  {AGet("b", FALSE, Good), AGet("a", FALSE, Good), AGet("b", TRUE, GoodSeries), AGet("b", TRUE, Missing),
   [AGet("b", FALSE, Good) EXCEPT !.measurement = FALSE]}
MCGetLists ==
  UNION {{<<x, y>>, <<y, x>>} :
    x \in {AGet("a", FALSE, f) : f \in Singles} \cup {AGet("a", TRUE, f) : f \in Series},
    y \in Others}
MCLeftovers  == {Missing, Good}
MCPowerFiles == {<<>>, <<<<Num(1)>>, <<LineEnd>>, <<Num(2)>>>>}
=============================================================================
