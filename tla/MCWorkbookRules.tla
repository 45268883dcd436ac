--------------------------- MODULE MCWorkbookRules ---------------------------
(* Instance of WorkbookRules for TLC. *)
EXTENDS WorkbookRules

Rel(r, c) == [row |-> r, col |-> c, rowabs |-> FALSE, colabs |-> FALSE]
Abs(r, c) == [row |-> r, col |-> c, rowabs |-> TRUE, colabs |-> TRUE]
RangeOf(s, k, l) == [type |-> "range", sheet |-> s, from |-> k, to |-> l]
Column(c) == LET line == [row |-> NONE, col |-> c, rowabs |-> TRUE, colabs |-> FALSE]
             IN [type |-> "whole", sheet |-> 0, from |-> line, to |-> line]
NameToken(n) == [type |-> "name", name |-> n]
Open(f) == [type |-> "open", name |-> f]
Close == [type |-> "close"]
Arg == [type |-> "arg"]
Num(v) == [type |-> "number", value |-> v]

Constant(v, n, s) == [formula |-> NONE, value |-> v, typed_e |-> v = "#N/A", numeric |-> n,
                      font |-> s, fill |-> s]
Computed(f, v) == [formula |-> f, value |-> v, typed_e |-> FALSE, numeric |-> TRUE,
                   font |-> FALSE, fill |-> FALSE]

\* A label, a text where a number is meant, a constant with and without its
\* style; =A1 and =$A$1 (the latter an error); =SUM(Sheet1!A1:B2), =SUM(A:A),
\* =SUM(rate), =IF(rate) inside a SUM with a number after it.
SomeContents ==
  {Constant("label", FALSE, FALSE), Constant("7", TRUE, FALSE), Constant("0", TRUE, TRUE),
   Computed(<<RangeOf(0, Rel(1, 1), Rel(1, 1))>>, "7"),
   Computed(<<RangeOf(0, Abs(1, 1), Abs(1, 1))>>, "#N/A"),
   Computed(<<Open("SUM"), RangeOf(1, Rel(1, 1), Rel(2, 2)), Close>>, "7"),
   Computed(<<Open("SUM"), Column(1), Close>>, "7"),
   Computed(<<Open("SUM"), Open("IF"), NameToken("rate"), Close, Num(12), NameToken("rate"),
              Close>>, "0")}

\* Two and three periods side by side.
SomeHeaders == {<<"FY26", "FY27">>, <<"FY26", "FY27", "FY28">>}

AreaOf(s, rows, cols) == [sheet |-> s, rows |-> rows, cols |-> cols]
Defined(scope, areas, chk) ==
  [name |-> "rate", scope |-> scope, check |-> chk, targets |-> areas]

\* No name; a name of one cell, of a cell and a column, of a whole column; a check;
\* a sheet's own name over the workbook's.
SomeNames ==
  LET b1 == AreaOf(1, <<1, 1>>, <<2, 2>>)
      a1 == AreaOf(2, <<1, 1>>, <<1, 1>>)
  IN {{}, {Defined(0, <<b1>>, FALSE)},
      {Defined(0, <<b1, AreaOf(2, <<1, 2>>, <<1, 1>>)>>, FALSE)},
      {Defined(0, <<AreaOf(2, <<NONE, NONE>>, <<1, 1>>)>>, FALSE)},
      {Defined(0, <<b1>>, TRUE), Defined(2, <<a1>>, TRUE)}}

\* Two functions, one of them with exempt positions, and array constants.
SomeTokens == {Open("ROUND"), Open("SUM"), Close, Arg, [type |-> "minus"], Num(1),
               [type |-> "array"], [type |-> "endarray"]}
SomeExempt == [f \in {"ROUND"} |-> {2}]
SomeAggregates == {"SUM"}
SomeAllowed == {0, 1, -1, 12}
=============================================================================
