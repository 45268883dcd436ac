---------------------------- MODULE WorkbookRules ----------------------------
(* What xllib finds in a workbook (excel-library, inspect/ and lint/rules/):
   the formula walk, formula shapes, the reference graph, the spans, and the
   ten rules, as operators over the workbook; and a modeller who types
   formulas and edits the workbook step by step, so that they are compared with
   what they stand for on every workbook that few edits can make.

   A formula is the sequence of its tokens.  Every cached value is present (a
   rule that needs values does not run otherwise) and is one of a few strings,
   by class: text, error literal, number, truth value. *)
EXTENDS Naturals, Integers, FiniteSets, Sequences, SequencesExt

CONSTANTS
  NONE,        \* no formula, no value, no name, no function
  NumSheets, NumRows, NumCols,  \* bounds of the workbook
  Contents,    \* what may be typed into a cell
  Headers,     \* the rows of periods that may be typed at once
  NameSets,    \* the sets of defined names a workbook may have
  Tokens,      \* what the formula being typed is made of
  MaxTokens,   \* bound: tokens of the formula being typed
  MaxEdits,    \* bound: edits of the workbook
  Aggregates,  \* _AGGREGATE_FUNCTIONS
  Allowed,     \* DEFAULT_ALLOWED_LITERALS
  Exempt,      \* DEFAULT_POSITIONAL_EXEMPTIONS: function -> positions
  SectionLimit \* the sections_per_sheet budget

Sheet == 1..NumSheets
Place == Sheet \X (1..NumRows) \X (1..NumCols)

VARIABLES
  draft,       \* the formula being typed
  book,        \* the cells the file stores: a partial function on Place
  names,       \* its defined names
  edits        \* edits made so far

vars == <<draft, book, names, edits>>

\* The classes of values that the rules tell apart.
Text == {"label", "FY26", "FY27", "FY28", "#N/A"}
Errors == {"#N/A"}
Period == {"FY26", "FY27", "FY28"}
Number == {"0", "7"}
Boolean == {"TRUE", "FALSE"}

\* A cell is [formula, value, typed_e, numeric, font, fill]: its formula (NONE for
\* a constant), its value, whether the file types it as an error, whether its
\* number format is numeric, and whether it has a font and a fill of its own.  A
\* name is [name, scope, targets, check]: scope 0 is the workbook, targets are the
\* areas it denotes, in order, check tells the chk_* names.

-----------------------------------------------------------------------------
(* Formulas: inspect/tokens.py.  Tokens are [type |-> "open", name |-> f],
   "close", "arg" (the comma between arguments and between the columns of an array
   constant), "minus" (prefix), "number" with its value, "array" and "endarray"
   (the braces of an array constant), "range" with two corners, "whole" for whole
   columns or rows, and "name", which stands for structured references as well.
   Sheet 0 is the formula's own; a number above NumSheets is a sheet that is not
   in the book, another book's or a span of sheets. *)

CellRef == [row : Int, col : Int, rowabs : BOOLEAN, colabs : BOOLEAN]
LineRef == [row : {NONE}, col : Int, rowabs : {TRUE}, colabs : BOOLEAN]
             \cup [row : Int, col : {NONE}, rowabs : BOOLEAN, colabs : {TRUE}]
Types == {"open", "close", "arg", "minus", "number", "array", "endarray",
          "range", "whole", "name"}
Token == [type : {"open", "name"}, name : STRING]
           \cup [type : {"close", "arg", "minus", "array", "endarray"}]
           \cup [type : {"number"}, value : Int]
           \cup [type : {"range"}, sheet : Nat, from : CellRef, to : CellRef]
           \cup [type : {"whole"}, sheet : Nat, from : LineRef, to : LineRef]

\* How many functions are open before token i, and whether it stands in an array
\* constant: a formula closes what is open, and an array constant is a list of
\* numbers.
OpenAt(f, i) == Cardinality({j \in 1..(i - 1) : f[j].type = "open"})
                  - Cardinality({j \in 1..(i - 1) : f[j].type = "close"})
InArray(f, i) == \E j \in 1..(i - 1) : /\ f[j].type = "array"
                                       /\ \A k \in j..(i - 1) : f[k].type # "endarray"
Nested(f) == /\ \A i \in 1..(Len(f) + 1) : OpenAt(f, i) >= 0
             /\ \A i \in DOMAIN f :
                  f[i].type \in IF ~InArray(f, i) THEN Types \ {"endarray"}
                               ELSE IF f[i - 1].type = "number" THEN {"arg", "endarray"}
                               ELSE {"number", "minus"}
Formula == {f \in Seq(Token) : Nested(f)}

\* An area of the book, or what is known of one.
Bound == Int \cup {NONE}
Reference == [sheet : Nat, rows : Bound \X Bound, cols : Bound \X Bound]

Cell == [formula : {NONE} \cup Formula,
         value : {NONE} \cup Text \cup Number \cup Boolean, typed_e : BOOLEAN,
         numeric : BOOLEAN, font : BOOLEAN, fill : BOOLEAN]
Name == [name : STRING, scope : Nat, check : BOOLEAN, targets : Seq(Reference)]

\* NONE is Python's None: no text and no number.  What the file stores are
\* cells, names and tokens, and the functions that aggregate are functions.
ASSUME NoneAssumption == NONE \notin STRING /\ NONE \notin Int
ASSUME BoundAssumption == NumSheets \in Nat /\ NumRows \in Nat /\ NumCols \in Nat
ASSUME StoredAssumption == /\ Tokens \subseteq Token
                           /\ Contents \subseteq Cell
                           /\ Headers \subseteq Seq(Period)
                           /\ NameSets \subseteq SUBSET Name
                           /\ Aggregates \subseteq STRING

\* Variant: a closed function stays on the stack.
PopNothing(frames) == frames
Pop(frames) == Front(frames)

Frame(f) == [name |-> f, argument |-> 0]

\* walk_formula: one pass with a stack of open functions.
Visit(w, t) ==
  LET top == Len(w.frames)
      at == IF top = 0 THEN [function |-> NONE, argument |-> NONE]
            ELSE [function |-> w.frames[top].name, argument |-> w.frames[top].argument]
      seen == [w EXCEPT !.previous = t.type]
  IN CASE t.type = "open" ->
            [seen EXCEPT !.frames = Append(@, Frame(t.name)),
                         !.depth = IF top + 1 > @ THEN top + 1 ELSE @,
                         !.functions = @ + 1]
       [] t.type = "close" /\ top > 0 -> [seen EXCEPT !.frames = Pop(@)]
       [] t.type = "arg" /\ top > 0 -> [seen EXCEPT !.frames[top].argument = @ + 1]
       [] t.type = "number" ->
            [seen EXCEPT !.literals = Append(@,
               [value |-> IF w.previous = "minus" THEN -t.value ELSE t.value, at |-> at])]
       [] t.type \in {"range", "whole", "name"} ->
            [seen EXCEPT !.ranges = Append(@, [token |-> t, function |-> at.function])]
       [] OTHER -> seen

\* The state of the pass after each number of tokens.
Start == [frames |-> <<>>, literals |-> <<>>, ranges |-> <<>>,
          depth |-> 0, functions |-> 0, previous |-> NONE]
Pass(formula) ==
  LET walk[i \in 0..Len(formula)] ==
        IF i = 0 THEN Start ELSE Visit(walk[i - 1], formula[i])
  IN walk
walk_formula(formula) == Pass(formula)[Len(formula)]

\* normalize_reference: what is absolute stays, the rest becomes an offset.
ShapeOf(corner, row, col) ==
  << IF corner.rowabs THEN <<"R", corner.row>> ELSE <<"R[]", corner.row - row>>,
     IF corner.colabs THEN <<"C", corner.col>> ELSE <<"C[]", corner.col - col>> >>

\* normalize_formula_shape: references to whole columns and rows and structured
\* ones are passed through.
Shape(formula, p) ==
  [i \in DOMAIN formula |->
     IF formula[i].type = "range"
       THEN [type |-> "range", sheet |-> formula[i].sheet,
             from |-> ShapeOf(formula[i].from, p[2], p[3]),
             to |-> ShapeOf(formula[i].to, p[2], p[3])]
       ELSE formula[i]]

-----------------------------------------------------------------------------
(* The workbook: inspect/model.py, load.py, refs.py. *)

Occupied(s) == {p \in DOMAIN book : p[1] = s}
Formulas == {p \in DOMAIN book : book[p].formula # NONE}
max_column(s) == LET cols == {p[3] : p \in Occupied(s)}
                 IN IF cols = {} THEN 1 ELSE CHOOSE c \in cols : \A d \in cols : d <= c

IsText(p) == book[p].value \in Text
\* Cell.is_error: an error literal is an error only where the file says so.
is_error(p) == book[p].value \in Errors /\ (book[p].formula # NONE \/ book[p].typed_e)

Named(n, scope) == {d \in names : d.name = n /\ d.scope = scope}

\* Variant: the workbook's name first.
resolve_global_first(n, s) == IF Named(n, 0) # {} THEN Named(n, 0) ELSE Named(n, s)

\* Workbook.resolve_name: the sheet's own name before the workbook's.
resolve_name(n, s) == IF Named(n, s) # {} THEN Named(n, s) ELSE Named(n, 0)

\* _parse_reference, of a reference in a formula on sheet s; a text that is none
\* has no bounds.
Area(t, s) == [sheet |-> IF t.sheet = 0 THEN s ELSE t.sheet,
               rows |-> <<t.from.row, t.to.row>>, cols |-> <<t.from.col, t.to.col>>]
Unbounded(s) == [sheet |-> s, rows |-> <<NONE, NONE>>, cols |-> <<NONE, NONE>>]
Resolved(a) == NONE \notin {a.rows[1], a.rows[2], a.cols[1], a.cols[2]}
IsSingleCell(a) == Resolved(a) /\ a.rows[1] = a.rows[2] /\ a.cols[1] = a.cols[2]
Corner(a) == <<a.sheet, a.rows[1], a.cols[1]>>

\* Variant: the last row and column of an area are left out.
InsideHalfOpen(a) == {a.sheet} \X (a.rows[1]..(a.rows[2] - 1)) \X (a.cols[1]..(a.cols[2] - 1))

Inside(a) == {a.sheet} \X (a.rows[1]..a.rows[2]) \X (a.cols[1]..a.cols[2])

\* build_reference_graph: an edge per reference, or per area of the name it
\* resolves to.  An unknown name and a structured reference have no bounds.
EdgesBy(p, use) ==
  LET Edge(a, via) == [source |-> p, target |-> a, via |-> via, function |-> use.function]
      t == use.token
  IN IF t.type # "name" THEN {Edge(Area(t, p[1]), NONE)}
     ELSE IF resolve_name(t.name, p[1]) = {} THEN {Edge(Unbounded(p[1]), NONE)}
     ELSE UNION {{Edge(a, d.name) : a \in ToSet(d.targets)} : d \in resolve_name(t.name, p[1])}

Edges == UNION {LET ranges == walk_formula(book[p].formula).ranges
                IN UNION {EdgesBy(p, ranges[i]) : i \in DOMAIN ranges} : p \in Formulas}

aggregate_ranges == {e \in Edges : e.function \in Aggregates}

-----------------------------------------------------------------------------
(* Spans: inspect/spans.py. *)

\* Variant: the loop ends at the last column.
LastOccupied(s) == max_column(s)

\* The loop of detect_period_axes and infer_formula_runs: columns that belong
\* are collected, one that does not closes the run; the loop goes one column
\* past the last so that a run at the edge is closed too.
Scan(acc, col, belongs) ==
  IF belongs THEN [runs |-> acc.runs, run |-> Append(acc.run, col)]
  ELSE [runs |-> IF Len(acc.run) >= 2 THEN acc.runs \cup {acc.run} ELSE acc.runs,
        run |-> <<>>]

LastScanned(s) == max_column(s) + 1

Scans(s, r, belongs) ==
  LET scan[c \in 0..LastScanned(s)] ==
        IF c = 0 THEN [runs |-> {}, run |-> <<>>]
        ELSE Scan(scan[c - 1], c, <<s, r, c>> \in belongs)
  IN scan
RunsOf(s, r, belongs) == Scans(s, r, belongs)[LastScanned(s)].runs

Runs(s, belongs) == UNION {{[row |-> r, cols |-> run] : run \in RunsOf(s, r, belongs)} :
                             r \in 1..NumRows}

infer_formula_runs(s) == Runs(s, Formulas)

detect_period_axes(s) == Runs(s, {p \in Occupied(s) : book[p].value \in Period})

labels(s, axis) == [i \in DOMAIN axis.cols |-> book[<<s, axis.row, axis.cols[i]>>].value]

\* Variant: the topmost axis first.
BeforeByRow(a, b) == \/ a.row < b.row
                     \/ a.row = b.row /\ Len(a.cols) > Len(b.cols)
                     \/ a.row = b.row /\ Len(a.cols) = Len(b.cols) /\ Head(a.cols) <= Head(b.cols)

\* The longest axis of the sheet; the topmost, then the leftmost of equals.
Before(a, b) == \/ Len(a.cols) > Len(b.cols)
                \/ /\ Len(a.cols) = Len(b.cols)
                   /\ \/ a.row < b.row
                      \/ a.row = b.row /\ Head(a.cols) <= Head(b.cols)
detect_period_axis(s) == CHOOSE a \in detect_period_axes(s) :
                           \A b \in detect_period_axes(s) : Before(a, b)

\* Groups of rows that hold something, separated by rows that do not.
estimate_section_count(s) ==
  LET rows == {p[2] : p \in {q \in Occupied(s) : \/ book[q].formula # NONE
                                                 \/ book[q].value # NONE}}
  IN Cardinality({r \in rows : r - 1 \notin rows})

-----------------------------------------------------------------------------
(* The rules: lint/rules/.  Each is the set of places it reports (with what is
   reported there, where a property needs it). *)

\* A constant that is all that a name denotes.
Target(d) == d.targets[1]
NamedConstant(d) == /\ Len(d.targets) = 1 /\ IsSingleCell(Target(d))
                    /\ LET p == Corner(Target(d))
                       IN /\ p \in DOMAIN book /\ book[p].formula = NONE
                          /\ book[p].value \in Number \cup Boolean

Labelled(p) == \E q \in {<<p[1], p[2], p[3] - 1>>, <<p[1], p[2] - 1, p[3]>>} :
                 q \in DOMAIN book /\ IsText(q)

Users(d) == {e.source : e \in {f \in Edges : f.via = d.name}}

XL001 == {[place |-> Corner(Target(d)), users |-> Users(d)] : d \in
            {d \in names : NamedConstant(d) /\ Users(d) # {} /\ ~Labelled(Corner(Target(d)))}}

\* An argument position counts from 1; outside any function there is none.
Exempted(at) == /\ at.function \in DOMAIN Exempt
                /\ at.argument + 1 \in Exempt[at.function]
Hardcoded(formula) ==
  LET literals == walk_formula(formula).literals
  IN {i \in DOMAIN literals : literals[i].value \notin Allowed /\ ~Exempted(literals[i].at)}
XL002 == {p \in Formulas : Hardcoded(book[p].formula) # {}}

XL003(s) == {run \in infer_formula_runs(s) :
               Cardinality({Shape(book[<<s, run.row, run.cols[i]>>].formula,
                                  <<s, run.row, run.cols[i]>>) : i \in DOMAIN run.cols}) > 1}

XL004 == {p \in DOMAIN book : IsText(p) /\ book[p].numeric}

\* An area without all its bounds is left out.
XL005 == UNION {{[place |-> q, source |-> e.source, error |-> is_error(q)] :
                   q \in {q \in DOMAIN book : q \in Inside(e.target) /\ IsText(q)}} :
                e \in {e \in aggregate_ranges : Resolved(e.target)}}

WithAxis == {s \in Sheet : detect_period_axes(s) # {}}

\* Pairs of sheets whose (longest) axes have the same labels but not the same
\* first column.
XL006 == {pair \in WithAxis \X WithAxis :
            LET a == detect_period_axis(pair[1])
                b == detect_period_axis(pair[2])
            IN /\ pair[1] < pair[2] /\ labels(pair[1], a) = labels(pair[2], b)
               /\ Head(a.cols) # Head(b.cols)}

XL101 == {s \in Sheet : estimate_section_count(s) > SectionLimit}

checks == {d \in names : d.check}
XL102 == checks = {}

\* FALSE is not 0: a truth value passes only as TRUE; a cell that is not there
\* does not pass; an area of no sheet of the book or without a corner is left out.
Passes(p) == p \in DOMAIN book /\ book[p].value \in {"TRUE", "0"}
XL103 == {d \in checks : \E a \in ToSet(d.targets) :
            a.sheet \in Sheet /\ NONE \notin {a.rows[1], a.cols[1]} /\ ~Passes(Corner(a))}

XL104 == {Corner(e.target) : e \in
            {e \in Edges : /\ IsSingleCell(e.target)
                           /\ Corner(e.target) \in DOMAIN book
                           /\ LET c == book[Corner(e.target)]
                              IN /\ c.formula = NONE /\ c.value # NONE
                                 /\ ~(c.font /\ c.fill)}}

-----------------------------------------------------------------------------
(* The modeller. *)

Init ==
  /\ draft = <<>>
  /\ book = << >>
  /\ names \in NameSets
  /\ edits = 0

\* One more token of a formula.
Type(t) ==
  /\ edits = 0 /\ Len(draft) < MaxTokens
  /\ draft' = Append(draft, t)
  /\ Nested(draft')
  /\ UNCHANGED <<book, names, edits>>

Write(cells) ==
  /\ draft = <<>> /\ edits < MaxEdits
  /\ book' = [p \in (DOMAIN cells) \cup (DOMAIN book) |->
                IF p \in DOMAIN cells THEN cells[p] ELSE book[p]]
  /\ edits' = edits + 1
  /\ UNCHANGED <<draft, names>>

Put(p, c) == Write([x \in {p} |-> c])

\* The formula as the spreadsheet copies it from p to q: references of these
\* kinds move, unless they are absolute.
MovedCorner(k, p, q) ==
  [k EXCEPT !.row = IF k.rowabs THEN @ ELSE @ + q[2] - p[2],
            !.col = IF k.colabs THEN @ ELSE @ + q[3] - p[3]]
Moved(formula, p, q, kinds) ==
  [i \in DOMAIN formula |->
     IF formula[i].type \in kinds
       THEN [type |-> formula[i].type, sheet |-> formula[i].sheet,
             from |-> MovedCorner(formula[i].from, p, q),
             to |-> MovedCorner(formula[i].to, p, q)]
       ELSE formula[i]]

FillRight(p) ==
  /\ p \in Formulas /\ p[3] < NumCols
  /\ LET q == <<p[1], p[2], p[3] + 1>>
     IN Write([x \in {q} |-> [book[p] EXCEPT !.formula =
                                 Moved(@, p, q, {"range", "whole"})]])

\* Periods in neighbouring columns, from p on.
TypeHeader(p, header) ==
  /\ p[3] + Len(header) - 1 <= NumCols
  /\ LET heading(v) == [formula |-> NONE, value |-> v, typed_e |-> FALSE, numeric |-> FALSE,
                        font |-> FALSE, fill |-> FALSE]
     IN Write([x \in {<<p[1], p[2], p[3] + i - 1>> : i \in DOMAIN header} |->
                 heading(header[x[3] - p[3] + 1])])

Next == \/ \E t \in Tokens : Type(t)
        \/ \E p \in Place : \/ \E c \in Contents : Put(p, c)
                            \/ FillRight(p)
                            \/ \E header \in Headers : TypeHeader(p, header)

Spec == Init /\ [][Next]_vars

-----------------------------------------------------------------------------
(* Correctness. *)

\* The function a token of a formula stands in directly, found without a stack:
\* the last one opened before it that is still open at it.
Enclosing(f, i) == {j \in 1..(i - 1) : /\ f[j].type = "open"
                                       /\ OpenAt(f, i) = OpenAt(f, j) + 1
                                       /\ \A k \in (j + 1)..i : OpenAt(f, k) > OpenAt(f, j)}
FunctionAt(f, i) == {f[j].name : j \in Enclosing(f, i)}
Separates(f, j, k) == f[k].type = "arg" /\ Enclosing(f, k) = {j} /\ ~InArray(f, k)
ArgumentAt(f, i) == {Cardinality({k \in j..i : Separates(f, j, k)}) : j \in Enclosing(f, i)}

\* An array constant of several columns stands before token i, or around it, in
\* the same call.
Shifted(f, i) == \E k \in 1..i : /\ f[k].type = "arg" /\ InArray(f, k)
                                 /\ Enclosing(f, k) = Enclosing(f, i)

\* Every number of a formula is placed in the function it stands in, however the
\* calls are nested, and at the argument it stands in, so that a positional
\* exemption exempts that position only; but the commas of an array constant are
\* counted as arguments of the call it stands in.  (walk_formula, XL002)
LiteralsPlaced ==
  LET literals == walk_formula(draft).literals
      Numbers(i) == Cardinality({j \in 1..i : draft[j].type = "number"})
  IN /\ Len(literals) = Numbers(Len(draft))
     /\ \A i \in DOMAIN draft : draft[i].type = "number" =>
          LET at == literals[Numbers(i)].at
          IN /\ {at.function} \ {NONE} = FunctionAt(draft, i)
             /\ ~Shifted(draft, i) => {at.argument} \ {NONE} = ArgumentAt(draft, i)

\* A row is reported for mixed shapes exactly when two formulas side by side in
\* it are not copies of one another, up to the last column of the sheet, where a
\* copy moves references to cells and leaves whole columns, whole rows and
\* structured references as they are: for those forms "Phase 0 does not claim
\* shape equality".  (infer_formula_runs, normalize_formula_shape, XL003)
MixedRunsFound ==
  \A s \in Sheet : \A r \in 1..NumRows :
    (\E run \in XL003(s) : run.row = r) <=>
      \E p, q \in Formulas :
        /\ p[1] = s /\ q[1] = s /\ p[2] = r /\ q[2] = r /\ q[3] = p[3] + 1
        /\ book[q].formula # Moved(book[p].formula, p, q, {"range"})

\* What a token refers to, by the rules of the spreadsheet.
Meant(t, s) == IF t.type \in {"range", "whole"} THEN {Area(t, s)}
               ELSE UNION {ToSet(d.targets) : d \in {e \in names : /\ e.name = t.name
                       /\ e.scope = (IF \E l \in names : l.name = t.name /\ l.scope = s
                                     THEN s ELSE 0)}}
Covers(a, q) == /\ Resolved(a) /\ a.sheet = q[1]
                /\ a.rows[1] <= q[2] /\ q[2] <= a.rows[2]
                /\ a.cols[1] <= q[3] /\ q[3] <= a.cols[2]
References(f) == {i \in DOMAIN f : f[i].type \in {"range", "whole", "name"}}

\* Text in a bounded area that an aggregate takes as an argument of its own,
\* directly or as one of the areas of a name, on whatever sheet, is reported
\* against that formula, and nothing else is: whole columns and rows and structured
\* references escape (docs/rules/XL005.md, "Known gap").
\* (build_reference_graph, XL005)
AggregatedTextFound ==
  {<<x.place, x.source>> : x \in XL005} =
    {pair \in (DOMAIN book) \X Formulas :
       LET q == pair[1]
           p == pair[2]
       IN /\ IsText(q)
          /\ \E i \in References(book[p].formula) :
               /\ FunctionAt(book[p].formula, i) \cap Aggregates # {}
               /\ \E a \in Meant(book[p].formula[i], p[1]) : Covers(a, q)}

\* A constant is reported for its style exactly when a formula reads it as a
\* cell of its own; and a formula said to use an unlabelled named constant reads
\* it, as long as no sheet has a name of its own that hides the workbook's.
\* (build_reference_graph, XL001, XL104)
Reads(p) == UNION {{Corner(a) : a \in {b \in Meant(book[p].formula[i], p[1]) : IsSingleCell(b)}} :
                     i \in References(book[p].formula)}
Hidden == \E d, e \in names : d.name = e.name /\ d.scope # e.scope
InputsAreRead ==
  /\ XL104 = {q \in (UNION {Reads(p) : p \in Formulas}) \cap (DOMAIN book \ Formulas) :
                book[q].value # NONE /\ {book[q].font, book[q].fill} # {TRUE}}
  /\ ~Hidden => \A x \in XL001 : \A p \in x.users : x.place \in Reads(p)

\* A header is a block of at least two periods side by side that no period
\* adjoins; the main header of a sheet is its longest, of these its topmost, of
\* these its leftmost one.  XL006 reports the pairs of sheets whose main headers
\* read the same and start in different columns, and no others.
\* (detect_period_axes, detect_period_axis, XL006)
IsPeriod(s, r, c) == <<s, r, c>> \in DOMAIN book /\ book[<<s, r, c>>].value \in Period
IsHeader(s, h) == /\ h.first < h.last /\ \A c \in h.first..h.last : IsPeriod(s, h.row, c)
                  /\ ~IsPeriod(s, h.row, h.first - 1) /\ ~IsPeriod(s, h.row, h.last + 1)
HeadersOf(s) == {h \in [row : 1..NumRows, first : 1..NumCols, last : 1..NumCols] :
                  IsHeader(s, h)}
Outranks(h, k) == LET n == h.last - h.first
                      m == k.last - k.first
                  IN \/ n > m
                     \/ n = m /\ h.row < k.row
                     \/ n = m /\ h.row = k.row /\ h.first < k.first
MainHeaders(s) == {h \in HeadersOf(s) : \A k \in HeadersOf(s) : ~Outranks(k, h)}
SameHeader(s, h, t, k) ==
  /\ h.last - h.first = k.last - k.first
  /\ \A d \in 0..(h.last - h.first) :
       book[<<s, h.row, h.first + d>>].value = book[<<t, k.row, k.first + d>>].value
AxesAgree ==
  XL006 = {pair \in Sheet \X Sheet :
             /\ pair[1] < pair[2]
             /\ \E h \in MainHeaders(pair[1]), k \in MainHeaders(pair[2]) :
                  SameHeader(pair[1], h, pair[2], k) /\ h.first # k.first}
=============================================================================
