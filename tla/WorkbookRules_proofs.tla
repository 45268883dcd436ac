------------------------ MODULE WorkbookRules_proofs ------------------------
(* Theorems about WorkbookRules: on every workbook that edits can make, and on
   every formula that can be typed, what xllib finds is what the formulas and the
   cells stand for.

   The walk of a formula and the scan of a row are recursive functions.  What
   they compute is proved by induction over the tokens and over the columns:
   the set of the numbers for which a statement holds contains 0 and with each
   number the next one (InductionOnNat), and is therefore Nat. *)
EXTENDS WorkbookRules, FiniteSetTheorems, WellFoundedInduction, TLAPS

-----------------------------------------------------------------------------
(* Numbers and counting. *)

\* A set of natural numbers that is not empty has a least element.
LEMMA LeastElement ==
  ASSUME NEW S \in SUBSET Nat, S # {}
  PROVE  \E x \in S : \A y \in S : x <= y
<1> DEFINE R == OpToRel(<, Nat)
<1>1. IsWellFoundedOn(R, Nat)
  BY NatLessThanWellFounded, Zenon
<1>2. R = {ss \in Nat \X Nat : ss[1] < ss[2]}
  BY DEF OpToRel
<1> HIDE DEF R
<1>3. PICK x \in S : \A y \in S : <<y, x>> \notin R
  BY <1>1, WFMin
<1>4. \A a, b \in Nat : a < b => <<a, b>> \in R
  <2> TAKE a, b \in Nat
  <2> HAVE a < b
  <2> DEFINE p == <<a, b>>
  <2>1. p \in Nat \X Nat /\ p[1] < p[2]
    OBVIOUS
  <2> HIDE DEF p
  <2>2. p \in R
    BY <1>2, <2>1
  <2> QED BY <2>2 DEF p
<1>5. \A y \in S : ~(y < x)
  BY <1>3, <1>4, Zenon
<1>6. \A y \in S : x <= y
  BY <1>5, S \subseteq Nat
<1> QED BY <1>6

\* Induction, for a statement given as the set of the numbers it holds for.
LEMMA InductionOnNat ==
  ASSUME NEW S \in SUBSET Nat, 0 \in S, \A n \in S : n + 1 \in S
  PROVE  S = Nat
<1> SUFFICES ASSUME Nat \ S # {} PROVE FALSE
  OBVIOUS
<1>1. PICK x \in Nat \ S : \A y \in Nat \ S : x <= y
  BY LeastElement
<1>2. x # 0 /\ x - 1 \in Nat /\ x - 1 \in S
  BY <1>1
<1>3. x \in S
  BY <1>2
<1> QED BY <1>3

\* A set of numbers up to n that is not empty has a greatest element.
LEMMA GreatestElement ==
  ASSUME NEW n \in Nat, NEW S \in SUBSET (0..n), S # {}
  PROVE  \E x \in S : \A y \in S : y <= x
<1> DEFINE T == {i \in Nat : n - i \in S}
<1>1. T \in SUBSET Nat /\ T # {}
  <2>1. PICK x \in S : TRUE
    OBVIOUS
  <2>2. n - x \in Nat /\ n - (n - x) = x
    BY <2>1
  <2> QED BY <2>1, <2>2
<1>2. PICK i \in T : \A j \in T : i <= j
  BY <1>1, LeastElement
<1>3. ASSUME NEW y \in S PROVE y <= n - i
  <2>1. n - y \in Nat /\ n - (n - y) = y
    OBVIOUS
  <2>2. n - y \in T
    BY <2>1
  <2>3. i <= n - y
    BY <2>2, <1>2
  <2> QED BY <2>3, <1>2
<1> QED BY <1>2, <1>3

\* Counting the members of a set of positions: up to the next position there is
\* one more if that one is in the set.
Counted(S, n) == Cardinality({j \in 1..n : j \in S})

LEMMA CountUpTo ==
  ASSUME NEW S, NEW n \in Nat
  PROVE  /\ Counted(S, n) \in Nat /\ Counted(S, n) <= n
         /\ Counted(S, n + 1) = Counted(S, n) + (IF n + 1 \in S THEN 1 ELSE 0)
         /\ Counted(S, 0) = 0
<1> DEFINE A == {j \in 1..n : j \in S}
<1>1. IsFiniteSet(1..n) /\ Cardinality(1..n) = n
  BY FS_Interval
<1>2. IsFiniteSet(A) /\ Cardinality(A) <= n
  BY <1>1, FS_Subset, A \in SUBSET (1..n)
<1>3. Cardinality(A) \in Nat
  BY <1>2, FS_CardinalityType
<1>4. {j \in 1..(n + 1) : j \in S} = IF n + 1 \in S THEN A \cup {n + 1} ELSE A
  <2>1. 1..(n + 1) = (1..n) \cup {n + 1}
    OBVIOUS
  <2> QED BY <2>1
<1>5. n + 1 \notin A
  OBVIOUS
<1>6. Cardinality(A \cup {n + 1}) = Cardinality(A) + 1
  BY <1>2, <1>5, FS_AddElement
<1>7. {j \in 1..0 : j \in S} = {}
  OBVIOUS
<1>8. Cardinality({}) = 0
  BY FS_EmptySet
<1> QED BY <1>2, <1>3, <1>4, <1>6, <1>7, <1>8 DEF Counted

-----------------------------------------------------------------------------
(* The pass over the tokens of a formula. *)

\* The recursion of the pass is well defined: a function that satisfies it on
\* 0..k extends to 0..k+1.
LEMMA PassSteps ==
  ASSUME NEW f \in Seq(Token)
  PROVE  /\ Pass(f)[0] = Start
         /\ \A i \in 1..Len(f) : Pass(f)[i] = Visit(Pass(f)[i - 1], f[i])
<1> DEFINE Steps(g, k) == g = [i \in 0..k |-> IF i = 0 THEN Start ELSE Visit(g[i - 1], f[i])]
           S == {k \in Nat : \E g : Steps(g, k)}
<1> USE DEF Steps
<1>1. 0 \in S
  <2> DEFINE g0 == [i \in 0..0 |-> Start]
  <2>1. \A i \in 0..0 : i = 0
    OBVIOUS
  <2>2. g0 = [i \in 0..0 |-> IF i = 0 THEN Start ELSE Visit(g0[i - 1], f[i])]
    BY <2>1, Zenon
  <2> QED BY <2>2
<1>2. ASSUME NEW k \in S PROVE k + 1 \in S
  <2>1. k \in Nat /\ k + 1 \in Nat /\ k + 1 # 0 /\ (k + 1) - 1 = k /\ k \in 0..k /\ k + 1 \notin 0..k
    OBVIOUS
  <2>2. PICK g : Steps(g, k)
    OBVIOUS
  <2> DEFINE h == [i \in 0..(k + 1) |-> IF i = k + 1 THEN Visit(g[k], f[k + 1]) ELSE g[i]]
  <2>3. ASSUME NEW i \in 0..(k + 1)
        PROVE  h[i] = IF i = 0 THEN Start ELSE Visit(h[i - 1], f[i])
    <3>1. CASE i = k + 1
      <4>1. h[k] = g[k]
        BY <2>1
      <4> QED BY <3>1, <4>1, <2>1
    <3>2. CASE i \in 0..k /\ i = 0
      <4>1. h[i] = g[i] /\ g[i] = Start
        BY <2>1, <2>2, <3>2
      <4> QED BY <3>2, <4>1
    <3>3. CASE i \in 0..k /\ i # 0
      <4>0. i - 1 \in 0..k /\ i - 1 # k + 1 /\ i # k + 1 /\ i - 1 \in 0..(k + 1)
        BY <3>3, <2>1
      <4>1. h[i] = g[i] /\ h[i - 1] = g[i - 1]
        BY <4>0
      <4>2. g[i] = Visit(g[i - 1], f[i])
        BY <2>2, <3>3, Zenon
      <4> QED BY <4>1, <4>2, <3>3
    <3> QED BY <3>1, <3>2, <3>3, <2>1
  <2>4. Steps(h, k + 1)
    BY <2>3, Zenon
  <2> QED BY <2>1, <2>4
<1>3. S = Nat
  BY <1>1, <1>2, InductionOnNat
<1>4. Len(f) \in Nat
  OBVIOUS
<1>5. \E g : Steps(g, Len(f))
  BY <1>3, <1>4
<1>6. Steps(Pass(f), Len(f))
  <2> DEFINE c == CHOOSE g : Steps(g, Len(f))
  <2>1. Steps(c, Len(f))
    BY <1>5, Zenon
  <2>2. Pass(f) = c
    BY Zenon DEF Pass
  <2> QED BY <2>1, <2>2, Zenon
<1>7. ASSUME NEW i \in 0..Len(f)
      PROVE  Pass(f)[i] = IF i = 0 THEN Start ELSE Visit(Pass(f)[i - 1], f[i])
  <2> DEFINE P == Pass(f)
  <2>1. P = [j \in 0..Len(f) |-> IF j = 0 THEN Start ELSE Visit(P[j - 1], f[j])]
    BY <1>6, Zenon
  <2> HIDE DEF P
  <2>2. P[i] = IF i = 0 THEN Start ELSE Visit(P[i - 1], f[i])
    BY <2>1, Zenon
  <2> QED BY <2>2 DEF P
<1> QED BY <1>4, <1>7

-----------------------------------------------------------------------------
(* Tokens and nesting. *)

\* What a token of each type carries.
LEMMA TokenFacts ==
  ASSUME NEW t \in Token
  PROVE  /\ t.type \in Types
         /\ t.type \in {"open", "name"} => t.name \in STRING
         /\ t.type = "number" => t.value \in Int
         /\ t.type \in {"range", "whole"} =>
              t = [type |-> t.type, sheet |-> t.sheet, from |-> t.from, to |-> t.to]
         /\ t.type \in {"range", "whole"} => t.sheet \in Nat
         /\ t.type = "range" => t.from \in CellRef /\ t.to \in CellRef
         /\ t.type = "whole" => t.from \in LineRef /\ t.to \in LineRef
<1>1. t.type \in Types
  BY DEF Token, Types
<1>2. /\ t.type \in {"open", "name"} => t.name \in STRING
      /\ t.type = "number" => t.value \in Int
  BY DEF Token
<1>3. /\ t.type = "range" =>
           t \in [type : {"range"}, sheet : Nat, from : CellRef, to : CellRef]
      /\ t.type = "whole" =>
           t \in [type : {"whole"}, sheet : Nat, from : LineRef, to : LineRef]
  BY DEF Token
<1> QED BY <1>1, <1>2, <1>3

LEMMA FormulaFacts ==
  ASSUME NEW f \in Formula
  PROVE  f \in Seq(Token) /\ \A i \in 1..(Len(f) + 1) : OpenAt(f, i) >= 0
  BY DEF Formula, Nested

\* The tokens of one type among the first i.
OfType(f, y, i) == Cardinality({j \in 1..i : f[j].type = y})

LEMMA OfTypeStep ==
  ASSUME NEW f \in Seq(Token), NEW y, NEW i \in 0..Len(f)
  PROVE  /\ OfType(f, y, i) \in Nat /\ OfType(f, y, i) <= i
         /\ OfType(f, y, 0) = 0
         /\ i + 1 \in 1..Len(f) =>
              OfType(f, y, i + 1) = OfType(f, y, i) + (IF f[i + 1].type = y THEN 1 ELSE 0)
<1> DEFINE S == {j \in 1..Len(f) : f[j].type = y}
<1>1. ASSUME NEW k \in 0..Len(f) PROVE OfType(f, y, k) = Counted(S, k)
  <2>1. {j \in 1..k : f[j].type = y} = {j \in 1..k : j \in S}
    OBVIOUS
  <2> QED BY <2>1 DEF OfType, Counted
<1>2. i \in Nat /\ (i + 1 \in 1..Len(f) => (i + 1 \in S <=> f[i + 1].type = y))
  OBVIOUS
<1>3. 0 \in 0..Len(f) /\ i \in 0..Len(f) /\ (i + 1 \in 1..Len(f) => i + 1 \in 0..Len(f))
  OBVIOUS
<1> HIDE DEF S
<1>4. /\ Counted(S, i) \in Nat /\ Counted(S, i) <= i
      /\ Counted(S, i + 1) = Counted(S, i) + (IF i + 1 \in S THEN 1 ELSE 0)
      /\ Counted(S, 0) = 0
  BY <1>2, CountUpTo
<1> QED BY <1>1, <1>2, <1>3, <1>4

LEMMA OpenStep ==
  ASSUME NEW f \in Seq(Token), NEW i \in 0..Len(f)
  PROVE  /\ OpenAt(f, i + 1) \in Int
         /\ OpenAt(f, 1) = 0
         /\ i + 1 \in 1..Len(f) =>
              OpenAt(f, i + 2) = OpenAt(f, i + 1)
                + (IF f[i + 1].type = "open" THEN 1
                   ELSE IF f[i + 1].type = "close" THEN -1 ELSE 0)
<1>1. \A k \in Nat : OpenAt(f, k + 1) = OfType(f, "open", k) - OfType(f, "close", k)
  BY DEF OpenAt, OfType
<1>2. i \in Nat /\ i + 1 \in Nat /\ i + 2 = (i + 1) + 1 /\ 1 = 0 + 1
  OBVIOUS
<1>3. /\ OpenAt(f, i + 1) = OfType(f, "open", i) - OfType(f, "close", i)
      /\ OpenAt(f, i + 2) = OfType(f, "open", i + 1) - OfType(f, "close", i + 1)
      /\ OpenAt(f, 1) = OfType(f, "open", 0) - OfType(f, "close", 0)
  BY <1>1, <1>2
<1> QED BY <1>3, OfTypeStep, SMTT(30)

\* A token stands in one function directly at most.
LEMMA OneEnclosing ==
  ASSUME NEW f \in Seq(Token), NEW m \in 1..(Len(f) + 1),
         NEW j \in Enclosing(f, m), NEW k \in Enclosing(f, m)
  PROVE  j = k
<1>1. \A i \in 1..m : OpenAt(f, i) \in Int
  <2> TAKE i \in 1..m
  <2>1. i - 1 \in 0..Len(f) /\ (i - 1) + 1 = i
    OBVIOUS
  <2> QED BY <2>1, OpenStep
<1>2. /\ j \in 1..(m - 1) /\ k \in 1..(m - 1)
      /\ OpenAt(f, m) = OpenAt(f, j) + 1 /\ OpenAt(f, m) = OpenAt(f, k) + 1
      /\ \A i \in (j + 1)..m : OpenAt(f, i) > OpenAt(f, j)
      /\ \A i \in (k + 1)..m : OpenAt(f, i) > OpenAt(f, k)
  BY DEF Enclosing
<1> QED BY <1>1, <1>2

-----------------------------------------------------------------------------
(* walk_formula. *)

Frames == [name : STRING, argument : Nat]
Position == [function : {NONE} \cup STRING, argument : {NONE} \cup Nat]
Literal == [value : Int, at : Position]
Use == [token : Token, function : {NONE} \cup STRING]
WalkState == [frames : Seq(Frames), literals : Seq(Literal), ranges : Seq(Use),
              depth : Nat, functions : Nat, previous : {NONE} \cup Types]

\* Where the token stands that comes next, from the stack.
Top(frames) ==
  IF Len(frames) = 0 THEN [function |-> NONE, argument |-> NONE]
  ELSE [function |-> frames[Len(frames)].name, argument |-> frames[Len(frames)].argument]

LEMMA TopType ==
  ASSUME NEW frames \in Seq(Frames)
  PROVE  Top(frames) \in Position /\ Top(frames).function \in {NONE} \cup STRING
<1>1. CASE Len(frames) = 0
  BY <1>1 DEF Top, Position
<1>2. CASE Len(frames) # 0
  <2>1. Len(frames) \in DOMAIN frames /\ frames[Len(frames)] \in Frames
    BY <1>2
  <2>2. frames[Len(frames)].name \in STRING /\ frames[Len(frames)].argument \in Nat
    BY <2>1 DEF Frames
  <2> QED BY <1>2, <2>2 DEF Top, Position
<1> QED BY <1>1, <1>2

LEMMA StartType == Start \in WalkState
  BY DEF Start, WalkState

\* What a token changes: the stack, the literals or the ranges.
LEMMA VisitFields ==
  ASSUME NEW w \in WalkState, NEW t \in Token
  PROVE  /\ Visit(w, t) \in WalkState
         /\ Visit(w, t).frames =
              IF t.type = "open" THEN Append(w.frames, Frame(t.name))
              ELSE IF t.type = "close" /\ Len(w.frames) > 0 THEN Front(w.frames)
              ELSE IF t.type = "arg" /\ Len(w.frames) > 0
                THEN [w.frames EXCEPT ![Len(w.frames)].argument = @ + 1]
              ELSE w.frames
         /\ Visit(w, t).literals =
              IF t.type = "number"
                THEN Append(w.literals,
                       [value |-> IF w.previous = "minus" THEN -t.value ELSE t.value,
                        at |-> Top(w.frames)])
              ELSE w.literals
         /\ Visit(w, t).ranges =
              IF t.type \in {"range", "whole", "name"}
                THEN Append(w.ranges, [token |-> t, function |-> Top(w.frames).function])
              ELSE w.ranges
<1> DEFINE top == Len(w.frames)
           seen == [w EXCEPT !.previous = t.type]
<1>1. /\ w.frames \in Seq(Frames) /\ w.literals \in Seq(Literal) /\ w.ranges \in Seq(Use)
      /\ w.depth \in Nat /\ w.functions \in Nat /\ w.previous \in {NONE} \cup Types
  BY DEF WalkState
<1>2. top \in Nat
  BY <1>1
<1>3. t.type \in Types
  BY TokenFacts
<1>4. /\ seen \in WalkState /\ seen.frames = w.frames /\ seen.literals = w.literals
      /\ seen.ranges = w.ranges /\ seen.depth = w.depth /\ seen.functions = w.functions
  <2> HIDE DEF seen
  <2> DEFINE y == t.type
  <2>1. y \in Types
    BY <1>3
  <2> HIDE DEF y
  <2>2. seen = [w EXCEPT !.previous = y]
    BY DEF seen, y
  <2> QED BY <2>1, <2>2 DEF WalkState
<1> HIDE DEF seen
<1>5. CASE t.type = "open"
  <2> DEFINE a == Append(w.frames, Frame(t.name))
             d == IF top + 1 > w.depth THEN top + 1 ELSE w.depth
             v == [seen EXCEPT !.frames = a, !.depth = d, !.functions = w.functions + 1]
  <2>1. Frame(t.name) \in Frames
    BY <1>5, TokenFacts DEF Frame, Frames
  <2>2. a \in Seq(Frames) /\ d \in Nat /\ w.functions + 1 \in Nat
    BY <2>1, <1>1, <1>2
  <2>3. Visit(w, t) = v
    BY <1>5, <1>4 DEF Visit, seen
  <2> HIDE DEF a, d
  <2>4. v \in WalkState /\ v.frames = a /\ v.literals = w.literals /\ v.ranges = w.ranges
    BY <2>2, <1>4 DEF WalkState
  <2> HIDE DEF v
  <2> QED BY <2>3, <2>4, <1>5 DEF a
<1>6. CASE t.type = "close" /\ top > 0
  <2> DEFINE a == Front(w.frames)
             v == [seen EXCEPT !.frames = a]
  <2>1. a \in Seq(Frames)
    BY <1>1, <1>6 DEF Front
  <2>2. Visit(w, t) = v
    BY <1>6, <1>4 DEF Visit, Pop, seen
  <2> HIDE DEF a
  <2>3. v \in WalkState /\ v.frames = a /\ v.literals = w.literals /\ v.ranges = w.ranges
    BY <2>1, <1>4 DEF WalkState
  <2> HIDE DEF v
  <2> QED BY <2>2, <2>3, <1>6 DEF a
<1>7. CASE t.type = "arg" /\ top > 0
  <2> DEFINE a == [w.frames EXCEPT ![top].argument = @ + 1]
             v == [seen EXCEPT !.frames = a]
  <2>0. top \in DOMAIN w.frames /\ w.frames[top] \in Frames
    BY <1>1, <1>2, <1>7
  <2>1. [w.frames[top] EXCEPT !.argument = @ + 1] \in Frames
    BY <2>0 DEF Frames
  <2>2. a \in Seq(Frames)
    BY <1>1, <2>0, <2>1
  <2>3. Visit(w, t) = v
    BY <1>7, <1>4 DEF Visit, seen
  <2> HIDE DEF a
  <2>4. v \in WalkState /\ v.frames = a /\ v.literals = w.literals /\ v.ranges = w.ranges
    BY <2>2, <1>4 DEF WalkState
  <2> HIDE DEF v
  <2> QED BY <2>3, <2>4, <1>7 DEF a
<1>8. CASE t.type = "number"
  <2> DEFINE e == [value |-> IF w.previous = "minus" THEN -t.value ELSE t.value,
                   at |-> Top(w.frames)]
             a == Append(w.literals, e)
             v == [seen EXCEPT !.literals = a]
  <2>0. e \in Literal
    BY <1>8, <1>1, TopType, TokenFacts DEF Literal
  <2>1. Visit(w, t) = v
    BY <1>8, <1>4 DEF Visit, Top, seen
  <2> HIDE DEF e
  <2>2. a \in Seq(Literal)
    BY <2>0, <1>1
  <2> HIDE DEF a
  <2>3. v \in WalkState /\ v.frames = w.frames /\ v.literals = a /\ v.ranges = w.ranges
    BY <2>2, <1>4 DEF WalkState
  <2> HIDE DEF v
  <2> QED BY <2>1, <2>3, <1>8 DEF a, e
<1>9. CASE t.type \in {"range", "whole", "name"}
  <2> DEFINE e == [token |-> t, function |-> Top(w.frames).function]
             a == Append(w.ranges, e)
             v == [seen EXCEPT !.ranges = a]
  <2>0. e \in Use
    BY <1>1, TopType DEF Use
  <2>1. Visit(w, t) = v
    BY <1>9, <1>4 DEF Visit, Top, seen
  <2> HIDE DEF e
  <2>2. a \in Seq(Use)
    BY <2>0, <1>1
  <2> HIDE DEF a
  <2>3. v \in WalkState /\ v.frames = w.frames /\ v.literals = w.literals /\ v.ranges = a
    BY <2>2, <1>4 DEF WalkState
  <2> HIDE DEF v
  <2> QED BY <2>1, <2>3, <1>9 DEF a, e
<1>10. CASE t.type \in {"minus", "array", "endarray"} \/ (t.type \in {"close", "arg"} /\ ~(top > 0))
  <2>1. Visit(w, t) = seen
    BY <1>10 DEF Visit, seen
  <2> QED BY <2>1, <1>4, <1>10
<1> QED BY <1>3, <1>5, <1>6, <1>7, <1>8, <1>9, <1>10 DEF Types

\* Argument separators of the function opened at j, up to i.
Args(f, j, i) == Cardinality({m \in j..i : f[m].type = "arg" /\ Enclosing(f, m) = {j}})

LEMMA ArgsStep ==
  ASSUME NEW f \in Seq(Token), NEW i \in 0..Len(f), NEW j \in 1..Len(f), j <= i + 1
  PROVE  /\ Args(f, j, i) \in Nat
         /\ i + 1 \in 1..Len(f) =>
              Args(f, j, i + 1) = Args(f, j, i)
                + (IF f[i + 1].type = "arg" /\ Enclosing(f, i + 1) = {j} THEN 1 ELSE 0)
         /\ j = i + 1 => Args(f, j, i) = 0
<1> DEFINE S == {m \in 1..Len(f) : m >= j /\ f[m].type = "arg" /\ Enclosing(f, m) = {j}}
<1>1. ASSUME NEW k \in 0..Len(f) PROVE Args(f, j, k) = Counted(S, k)
  <2> DEFINE E(m) == Enclosing(f, m) = {j}
  <2> HIDE DEF E
  <2>1. {m \in j..k : f[m].type = "arg" /\ E(m)}
          = {m \in 1..k : m \in {n \in 1..Len(f) : n >= j /\ f[n].type = "arg" /\ E(n)}}
    OBVIOUS
  <2> QED BY <2>1 DEF Args, Counted, E
<1>2. i \in Nat /\ i \in 0..Len(f) /\ (i + 1 \in 1..Len(f) => i + 1 \in 0..Len(f))
  OBVIOUS
<1>3. i + 1 \in 1..Len(f) =>
        (i + 1 \in S <=> f[i + 1].type = "arg" /\ Enclosing(f, i + 1) = {j})
  OBVIOUS
<1>4. j = i + 1 => Counted(S, i) = 0
  <2>1. j = i + 1 => {m \in 1..i : m \in S} = {}
    OBVIOUS
  <2> QED BY <2>1, FS_EmptySet DEF Counted
<1> HIDE DEF S
<1>5. /\ Counted(S, i) \in Nat
      /\ Counted(S, i + 1) = Counted(S, i) + (IF i + 1 \in S THEN 1 ELSE 0)
  BY <1>2, CountUpTo
<1> QED BY <1>1, <1>2, <1>3, <1>4, <1>5

\* After i tokens, the k-th frame of the stack is that of the function opened at
\* j, which is the k-th that is open and has been ever since.
Opened(f, i, k, j) == /\ f[j].type = "open" /\ OpenAt(f, j) = k - 1
                      /\ \A m \in (j + 1)..(i + 1) : OpenAt(f, m) >= k
FrameFor(f, i, k, frame) ==
  \E j \in 1..i : /\ Opened(f, i, k, j)
                  /\ frame = [name |-> f[j].name, argument |-> Args(f, j, i)]
FramesInv(f, i, frames) ==
  /\ Len(frames) = OpenAt(f, i + 1)
  /\ \A k \in 1..Len(frames) : FrameFor(f, i, k, frames[k])

\* The last frame that is open encloses the token that comes next.
LEMMA OpenedEncloses ==
  ASSUME NEW f \in Seq(Token), NEW i \in 0..Len(f), NEW k \in Nat \ {0},
         k = OpenAt(f, i + 1), NEW j \in 1..i, Opened(f, i, k, j)
  PROVE  Enclosing(f, i + 1) = {j}
<1>1. \A m \in 1..(i + 1) : OpenAt(f, m) \in Int
  <2> TAKE m \in 1..(i + 1)
  <2>1. m - 1 \in 0..Len(f) /\ (m - 1) + 1 = m
    OBVIOUS
  <2> QED BY <2>1, OpenStep
<1>2. j \in Enclosing(f, i + 1)
  BY <1>1 DEF Opened, Enclosing
<1>3. i + 1 \in 1..(Len(f) + 1)
  OBVIOUS
<1>4. ASSUME NEW x \in Enclosing(f, i + 1) PROVE x = j
  BY <1>2, <1>3, OneEnclosing
<1> QED BY <1>2, <1>4

LEMMA NothingEncloses ==
  ASSUME NEW f \in Formula, NEW i \in 0..Len(f), OpenAt(f, i + 1) = 0
  PROVE  Enclosing(f, i + 1) = {}
<1>1. f \in Seq(Token) /\ \A m \in 1..(Len(f) + 1) : OpenAt(f, m) >= 0
  BY FormulaFacts
<1> SUFFICES ASSUME NEW j \in Enclosing(f, i + 1) PROVE FALSE
  OBVIOUS
<1>2. j \in 1..((i + 1) - 1) /\ OpenAt(f, i + 1) = OpenAt(f, j) + 1
  BY DEF Enclosing
<1>3. OpenAt(f, j) >= 0 /\ j - 1 \in 0..Len(f) /\ (j - 1) + 1 = j
  BY <1>1, <1>2
<1>4. OpenAt(f, j) \in Int
  BY <1>1, <1>3, OpenStep
<1> QED BY <1>2, <1>3, <1>4

\* The stack says where the next token stands.
LEMMA TopIsPlace ==
  ASSUME NEW f \in Formula, NEW i \in 0..Len(f), i + 1 \in 1..Len(f),
         NEW frames \in Seq(Frames), FramesInv(f, i, frames)
  PROVE  /\ {Top(frames).function} \ {NONE} = FunctionAt(f, i + 1)
         /\ f[i + 1].type # "arg" /\ ~Shifted(f, i + 1) =>
              {Top(frames).argument} \ {NONE} = ArgumentAt(f, i + 1)
<1> DEFINE top == Len(frames)
<1>1. f \in Seq(Token) /\ top \in Nat /\ top = OpenAt(f, i + 1)
  BY DEF Formula, FramesInv
<1>2. CASE top = 0
  <2>1. Enclosing(f, i + 1) = {}
    BY <1>1, <1>2, NothingEncloses
  <2>2. Top(frames).function = NONE /\ Top(frames).argument = NONE
    BY <1>2 DEF Top
  <2> QED BY <2>1, <2>2 DEF FunctionAt, ArgumentAt
<1>3. CASE top # 0
  <2>1. top \in 1..Len(frames) /\ top \in Nat \ {0}
    BY <1>1, <1>3
  <2>2. PICK j \in 1..i : /\ Opened(f, i, top, j)
                          /\ frames[top] = [name |-> f[j].name, argument |-> Args(f, j, i)]
    BY <2>1 DEF FramesInv, FrameFor
  <2>3. Enclosing(f, i + 1) = {j}
    BY <1>1, <2>1, <2>2, OpenedEncloses
  <2>4. Top(frames).function = f[j].name /\ Top(frames).argument = Args(f, j, i)
    BY <1>3, <2>2 DEF Top
  <2>5. j \in 1..Len(f) /\ j <= i + 1 /\ f[j] \in Token
    BY <1>1, <2>2
  <2>6. f[j].name \in STRING
    BY <2>2, <2>5, TokenFacts DEF Opened
  <2>7. f[j].name # NONE
    BY <2>6, NoneAssumption
  <2>8. FunctionAt(f, i + 1) = {f[j].name}
    BY <2>3 DEF FunctionAt
  <2>9. Args(f, j, i) \in Nat /\ (f[i + 1].type # "arg" => Args(f, j, i + 1) = Args(f, j, i))
    BY <1>1, <2>5, ArgsStep
  <2>10. Args(f, j, i) # NONE
    BY <2>9, NoneAssumption
  <2>11. ~Shifted(f, i + 1) => ArgumentAt(f, i + 1) = {Args(f, j, i + 1)}
    <3> SUFFICES ASSUME ~Shifted(f, i + 1)
                 PROVE  ArgumentAt(f, i + 1) = {Args(f, j, i + 1)}
      OBVIOUS
    <3>1. ASSUME NEW m \in j..(i + 1)
          PROVE  Separates(f, j, m) <=> f[m].type = "arg" /\ Enclosing(f, m) = {j}
      <4>1. m \in 1..(i + 1)
        BY <1>1
      <4> QED BY <4>1, <2>3 DEF Shifted, Separates
    <3>2. {m \in j..(i + 1) : Separates(f, j, m)}
            = {m \in j..(i + 1) : f[m].type = "arg" /\ Enclosing(f, m) = {j}}
      BY <3>1
    <3> QED BY <2>3, <3>2 DEF ArgumentAt, Args
  <2> QED BY <2>4, <2>7, <2>8, <2>9, <2>10, <2>11
<1> QED BY <1>2, <1>3

\* What a token does to the stack keeps it in step with the nesting.
LEMMA FramesKept ==
  ASSUME NEW f \in Formula, NEW i \in 0..Len(f), i + 1 \in 1..Len(f),
         NEW frames \in Seq(Frames), FramesInv(f, i, frames),
         NEW t, t = f[i + 1]
  PROVE  FramesInv(f, i + 1,
           IF t.type = "open" THEN Append(frames, Frame(t.name))
           ELSE IF t.type = "close" /\ Len(frames) > 0 THEN Front(frames)
           ELSE IF t.type = "arg" /\ Len(frames) > 0
             THEN [frames EXCEPT ![Len(frames)].argument = @ + 1]
           ELSE frames)
<1> DEFINE top == Len(frames)
<1>1. f \in Seq(Token) /\ top \in Nat /\ top = OpenAt(f, i + 1) /\ i \in Nat
  BY DEF Formula, FramesInv
<1>2. /\ OpenAt(f, i + 1) \in Int
      /\ OpenAt(f, i + 2) = top + (IF t.type = "open" THEN 1
                                   ELSE IF t.type = "close" THEN -1 ELSE 0)
  BY <1>1, OpenStep
<1>3. (i + 1) + 1 = i + 2 /\ i + 2 \in 1..(Len(f) + 1)
  BY <1>1
<1>4. OpenAt(f, i + 2) >= 0
  BY <1>3, FormulaFacts

\* A frame that stays, with its separators counted up to the new token.
<1>5. ASSUME NEW k \in 1..top, k <= OpenAt(f, i + 2)
      PROVE  \E j \in 1..i :
               /\ Opened(f, i, k, j) /\ Opened(f, i + 1, k, j)
               /\ frames[k] = [name |-> f[j].name, argument |-> Args(f, j, i)]
  <2>1. PICK j \in 1..i : /\ Opened(f, i, k, j)
                          /\ frames[k] = [name |-> f[j].name, argument |-> Args(f, j, i)]
    BY DEF FramesInv, FrameFor
  <2>2. ASSUME NEW m \in (j + 1)..((i + 1) + 1) PROVE OpenAt(f, m) >= k
    <3>1. CASE m = i + 2
      BY <3>1, <1>5
    <3>2. CASE m # i + 2
      <4>1. m \in (j + 1)..(i + 1)
        BY <3>2, <1>1
      <4> QED BY <4>1, <2>1 DEF Opened
    <3> QED BY <3>1, <3>2
  <2> QED BY <2>1, <2>2 DEF Opened
<1>6. ASSUME t.type # "arg" \/ top = 0, NEW j \in 1..i
      PROVE  Args(f, j, i + 1) = Args(f, j, i)
  <2>1. j \in 1..Len(f) /\ j <= i + 1
    BY <1>1
  <2>2. top = 0 => Enclosing(f, i + 1) # {j}
    BY <1>1, NothingEncloses
  <2>3. ~(t.type = "arg" /\ Enclosing(f, i + 1) = {j})
    BY <1>6, <2>2
  <2>4. /\ Args(f, j, i) \in Nat
        /\ Args(f, j, i + 1) = Args(f, j, i)
             + (IF f[i + 1].type = "arg" /\ Enclosing(f, i + 1) = {j} THEN 1 ELSE 0)
    BY <1>1, <2>1, ArgsStep
  <2> QED BY <2>3, <2>4
\* Frames that no separator and no other function touches.
<1>7. ASSUME t.type # "arg" \/ top = 0, NEW k \in 1..top, k <= OpenAt(f, i + 2)
      PROVE  FrameFor(f, i + 1, k, frames[k])
  <2>1. PICK j \in 1..i : /\ Opened(f, i + 1, k, j)
                          /\ frames[k] = [name |-> f[j].name, argument |-> Args(f, j, i)]
    BY <1>5, <1>7
  <2>2. Args(f, j, i + 1) = Args(f, j, i)
    BY <1>6, <1>7
  <2>3. j \in 1..(i + 1)
    BY <1>1
  <2> QED BY <2>1, <2>2, <2>3 DEF FrameFor
<1>8. CASE t.type = "open"
  <2> DEFINE a == Append(frames, Frame(t.name))
  <2>1. Len(a) = top + 1 /\ a[top + 1] = Frame(t.name) /\ \A k \in 1..top : a[k] = frames[k]
    OBVIOUS
  <2>2. OpenAt(f, i + 2) = top + 1
    BY <1>2, <1>8
  <2>3. FrameFor(f, i + 1, top + 1, Frame(t.name))
    <3>1. i + 1 \in 1..(i + 1) /\ i + 1 <= i + 1 /\ i + 1 = i + 1
      BY <1>1
    <3>2. Opened(f, i + 1, top + 1, i + 1)
      <4>1. ASSUME NEW m \in ((i + 1) + 1)..((i + 1) + 1) PROVE OpenAt(f, m) >= top + 1
        <5>1. m = i + 2
          BY <1>1
        <5> QED BY <5>1, <2>2
      <4>2. OpenAt(f, i + 1) = (top + 1) - 1
        BY <1>1
      <4> QED BY <4>1, <4>2, <1>8 DEF Opened
    <3>3. Args(f, i + 1, i) = 0
      BY <1>1, ArgsStep
    <3>4. Args(f, i + 1, i + 1) = 0
      <4>1. t.type # "arg"
        BY <1>8
      <4> QED BY <4>1, <3>3, <1>1, ArgsStep
    <3>5. Frame(t.name) = [name |-> f[i + 1].name, argument |-> Args(f, i + 1, i + 1)]
      BY <3>4 DEF Frame
    <3> QED BY <3>1, <3>2, <3>5 DEF FrameFor
  <2>4. ASSUME NEW k \in 1..top PROVE FrameFor(f, i + 1, k, frames[k])
    BY <1>7, <1>8, <2>2, <1>1
  <2> HIDE DEF a
  <2>5. \A k \in 1..Len(a) : FrameFor(f, i + 1, k, a[k])
    BY <2>1, <2>3, <2>4, <1>1
  <2>6. FramesInv(f, i + 1, a)
    BY <2>1, <2>2, <2>5, <1>3 DEF FramesInv
  <2> QED BY <2>6, <1>8 DEF a
<1>9. CASE t.type = "close"
  <2>1. top > 0 /\ OpenAt(f, i + 2) = top - 1
    BY <1>1, <1>2, <1>4, <1>9
  <2> DEFINE a == Front(frames)
  <2>2. Len(a) = top - 1 /\ \A k \in 1..(top - 1) : a[k] = frames[k]
    BY <1>1, <2>1 DEF Front
  <2>3. ASSUME NEW k \in 1..(top - 1) PROVE FrameFor(f, i + 1, k, frames[k])
    BY <1>7, <1>9, <2>1, <1>1
  <2> HIDE DEF a
  <2>4. FramesInv(f, i + 1, a)
    BY <2>1, <2>2, <2>3, <1>3 DEF FramesInv
  <2> QED BY <2>1, <2>4, <1>9 DEF a
<1>10. CASE t.type = "arg" /\ top > 0
  <2> DEFINE a == [frames EXCEPT ![top].argument = @ + 1]
  <2>1. OpenAt(f, i + 2) = top /\ top \in 1..top /\ top \in Nat \ {0}
    BY <1>1, <1>2, <1>10
  <2>2. /\ Len(a) = top /\ \A k \in 1..top : k # top => a[k] = frames[k]
        /\ a[top] = [frames[top] EXCEPT !.argument = @ + 1]
    BY <1>1, <2>1
  <2>3. ASSUME NEW k \in 1..top PROVE FrameFor(f, i + 1, k, a[k])
    <3>1. k <= OpenAt(f, i + 2)
      BY <2>1, <1>1
    <3>2. PICK j \in 1..i : /\ Opened(f, i, k, j) /\ Opened(f, i + 1, k, j)
                            /\ frames[k] = [name |-> f[j].name, argument |-> Args(f, j, i)]
      BY <1>5, <3>1
    <3>3. PICK l \in 1..i : Opened(f, i, top, l)
      <4>1. top <= OpenAt(f, i + 2)
        BY <2>1, <1>1
      <4> QED BY <1>5, <2>1, <4>1
    <3>4. Enclosing(f, i + 1) = {l}
      BY <1>1, <2>1, <3>3, OpenedEncloses
    <3>5. j = l <=> k = top
      <4>1. ASSUME k = top PROVE j = l
        <5>1. Enclosing(f, i + 1) = {j}
          BY <1>1, <2>1, <3>2, <4>1, OpenedEncloses
        <5> QED BY <5>1, <3>4
      <4>2. OpenAt(f, j) = k - 1 /\ OpenAt(f, l) = top - 1
        BY <3>2, <3>3 DEF Opened
      <4> QED BY <4>1, <4>2, <1>1
    <3>6. j \in 1..Len(f) /\ j <= i + 1 /\ j \in 1..(i + 1)
      BY <1>1
    <3>7. /\ Args(f, j, i) \in Nat
          /\ Args(f, j, i + 1) = Args(f, j, i)
               + (IF f[i + 1].type = "arg" /\ Enclosing(f, i + 1) = {j} THEN 1 ELSE 0)
      BY <1>1, <3>6, ArgsStep
    <3>8. Args(f, j, i + 1) = Args(f, j, i) + (IF k = top THEN 1 ELSE 0)
      <4>1. Enclosing(f, i + 1) = {j} <=> k = top
        BY <3>4, <3>5
      <4> QED BY <3>7, <4>1, <1>10
    <3>9. a[k] = [name |-> f[j].name, argument |-> Args(f, j, i + 1)]
      <4>1. CASE k = top
        BY <4>1, <2>2, <3>2, <3>8
      <4>2. CASE k # top
        BY <4>2, <2>2, <3>2, <3>7, <3>8
      <4> QED BY <4>1, <4>2
    <3> QED BY <3>2, <3>6, <3>9 DEF FrameFor
  <2> HIDE DEF a
  <2>4. FramesInv(f, i + 1, a)
    BY <2>1, <2>2, <2>3, <1>3 DEF FramesInv
  <2> QED BY <2>4, <1>10 DEF a
<1>11. CASE t.type \notin {"open", "close"} /\ (t.type # "arg" \/ top = 0)
  <2>1. OpenAt(f, i + 2) = top
    BY <1>1, <1>2, <1>11
  <2>2. ASSUME NEW k \in 1..top PROVE FrameFor(f, i + 1, k, frames[k])
    BY <1>7, <1>11, <2>1, <1>1
  <2>3. FramesInv(f, i + 1, frames)
    BY <2>1, <2>2, <1>3 DEF FramesInv
  <2> QED BY <2>3, <1>11, <1>1
<1> QED BY <1>1, <1>8, <1>9, <1>10, <1>11

\* After i tokens: a literal for each number, placed where it stands, and a use
\* for each reference, in the function it stands in.
PlacedAt(f, m, at) == /\ {at.function} \ {NONE} = FunctionAt(f, m)
                      /\ ~Shifted(f, m) => {at.argument} \ {NONE} = ArgumentAt(f, m)
UseOf(f, m, u) == u.token = f[m] /\ {u.function} \ {NONE} = FunctionAt(f, m)
LiteralsInv(f, i, literals) ==
  /\ Len(literals) = OfType(f, "number", i)
  /\ \A m \in 1..i : f[m].type = "number" =>
       PlacedAt(f, m, literals[OfType(f, "number", m)].at)
RangesInv(f, i, uses) ==
  /\ \A l \in 1..Len(uses) :
       \E m \in 1..i : f[m].type \in {"range", "whole", "name"} /\ UseOf(f, m, uses[l])
  /\ \A m \in 1..i : f[m].type \in {"range", "whole", "name"} =>
       \E l \in 1..Len(uses) : UseOf(f, m, uses[l])
WalkInv(f, i) == /\ Pass(f)[i] \in WalkState
                 /\ FramesInv(f, i, Pass(f)[i].frames)
                 /\ LiteralsInv(f, i, Pass(f)[i].literals)
                 /\ RangesInv(f, i, Pass(f)[i].ranges)

LEMMA WalkStarts ==
  ASSUME NEW f \in Formula
  PROVE  WalkInv(f, 0)
<1>1. f \in Seq(Token) /\ 0 \in 0..Len(f) /\ 0 + 1 = 1
  BY DEF Formula
<1>2. Pass(f)[0] = Start
  BY <1>1, PassSteps
<1>3. OpenAt(f, 1) = 0 /\ OfType(f, "number", 0) = 0
  BY <1>1, OpenStep, OfTypeStep
<1>4. Start.frames = <<>> /\ Start.literals = <<>> /\ Start.ranges = <<>>
  BY DEF Start
<1>5. FramesInv(f, 0, <<>>)
  BY <1>1, <1>3 DEF FramesInv
<1>6. LiteralsInv(f, 0, <<>>)
  BY <1>3 DEF LiteralsInv
<1>7. RangesInv(f, 0, <<>>)
  BY DEF RangesInv
<1> QED BY <1>2, <1>4, <1>5, <1>6, <1>7, StartType DEF WalkInv

LEMMA LiteralsKept ==
  ASSUME NEW f \in Formula, NEW i \in 0..Len(f), i + 1 \in 1..Len(f),
         NEW literals \in Seq(Literal), LiteralsInv(f, i, literals), NEW e \in Literal,
         f[i + 1].type = "number" => PlacedAt(f, i + 1, e.at)
  PROVE  LiteralsInv(f, i + 1,
           IF f[i + 1].type = "number" THEN Append(literals, e) ELSE literals)
<1> DEFINE N(m) == OfType(f, "number", m)
<1>1. f \in Seq(Token) /\ i \in Nat
  BY DEF Formula
<1>2. /\ N(i) \in Nat
      /\ N(i + 1) = N(i) + (IF f[i + 1].type = "number" THEN 1 ELSE 0)
  BY <1>1, OfTypeStep
<1>3. Len(literals) = N(i)
  BY DEF LiteralsInv
<1>4. ASSUME NEW m \in 1..i, f[m].type = "number"
      PROVE  N(m) \in 1..N(i) /\ PlacedAt(f, m, literals[N(m)].at)
  <2>1. PlacedAt(f, m, literals[N(m)].at)
    BY <1>4 DEF LiteralsInv
  <2>2. m - 1 \in 0..Len(f) /\ (m - 1) + 1 = m /\ m \in 1..Len(f) /\ m \in 0..Len(f)
    BY <1>1
  <2>3. N(m) = N(m - 1) + 1 /\ N(m - 1) \in Nat
    BY <1>1, <1>4, <2>2, OfTypeStep
  <2>4. N(m) <= N(i)
    <3> DEFINE A == {j \in 1..m : f[j].type = "number"}
               B == {j \in 1..i : f[j].type = "number"}
    <3>1. A \subseteq B
      BY <1>1
    <3>2. IsFiniteSet(1..i)
      BY <1>1, FS_Interval
    <3>3. IsFiniteSet(B)
      BY <3>2, FS_Subset, B \in SUBSET (1..i)
    <3>4. Cardinality(A) <= Cardinality(B)
      BY <3>1, <3>3, FS_Subset
    <3> QED BY <3>4 DEF OfType
  <2> QED BY <2>1, <2>3, <2>4, <1>2
<1> HIDE DEF N
<1>5. CASE f[i + 1].type = "number"
  <2> DEFINE a == Append(literals, e)
  <2>1. N(i + 1) = N(i) + 1 /\ Len(a) = N(i) + 1
    BY <1>2, <1>3, <1>5
  <2>2. a[N(i) + 1] = e /\ \A k \in 1..N(i) : a[k] = literals[k]
    BY <1>2, <1>3
  <2> HIDE DEF a
  <2>3. ASSUME NEW m \in 1..(i + 1), f[m].type = "number"
        PROVE  PlacedAt(f, m, a[N(m)].at)
    <3>1. CASE m = i + 1
      BY <3>1, <2>1, <2>2, <1>5
    <3>2. CASE m \in 1..i
      BY <3>2, <2>2, <2>3, <1>4
    <3> QED BY <3>1, <3>2, <1>1
  <2>4. LiteralsInv(f, i + 1, a)
    BY <2>1, <2>3 DEF LiteralsInv, N
  <2> QED BY <2>4, <1>5 DEF a
<1>6. CASE f[i + 1].type # "number"
  <2>1. N(i + 1) = N(i)
    BY <1>2, <1>6
  <2>2. ASSUME NEW m \in 1..(i + 1), f[m].type = "number"
        PROVE  PlacedAt(f, m, literals[N(m)].at)
    <3>1. m \in 1..i
      BY <2>2, <1>6, <1>1
    <3> QED BY <3>1, <2>2, <1>4
  <2> QED BY <2>1, <2>2, <1>3, <1>6 DEF LiteralsInv, N
<1> QED BY <1>5, <1>6

LEMMA RangesKept ==
  ASSUME NEW f \in Formula, NEW i \in 0..Len(f), i + 1 \in 1..Len(f),
         NEW uses \in Seq(Use), RangesInv(f, i, uses), NEW u \in Use,
         f[i + 1].type \in {"range", "whole", "name"} => UseOf(f, i + 1, u)
  PROVE  RangesInv(f, i + 1,
           IF f[i + 1].type \in {"range", "whole", "name"} THEN Append(uses, u) ELSE uses)
<1>1. i \in Nat /\ 1..(i + 1) = (1..i) \cup {i + 1} /\ i + 1 \in 1..(i + 1)
  BY DEF Formula
<1>2. CASE f[i + 1].type \in {"range", "whole", "name"}
  <2> DEFINE a == Append(uses, u)
             n == Len(uses)
  <2>1. /\ n \in Nat /\ Len(a) = n + 1 /\ 1..(n + 1) = (1..n) \cup {n + 1}
        /\ a[n + 1] = u /\ \A k \in 1..n : a[k] = uses[k]
    OBVIOUS
  <2> HIDE DEF a, n
  <2>2. ASSUME NEW l \in 1..Len(a)
        PROVE  \E m \in 1..(i + 1) : f[m].type \in {"range", "whole", "name"} /\ UseOf(f, m, a[l])
    <3>1. CASE l = n + 1
      BY <3>1, <2>1, <1>1, <1>2
    <3>2. CASE l \in 1..n
      BY <3>2, <2>1, <1>1 DEF RangesInv, n
    <3> QED BY <3>1, <3>2, <2>1
  <2>3. ASSUME NEW m \in 1..(i + 1), f[m].type \in {"range", "whole", "name"}
        PROVE  \E l \in 1..Len(a) : UseOf(f, m, a[l])
    <3>1. CASE m = i + 1
      BY <3>1, <2>1, <1>2
    <3>2. CASE m \in 1..i
      <4>1. PICK l \in 1..n : UseOf(f, m, uses[l])
        BY <3>2, <2>3 DEF RangesInv, n
      <4> QED BY <4>1, <2>1
    <3> QED BY <3>1, <3>2, <1>1
  <2>4. RangesInv(f, i + 1, a)
    BY <2>2, <2>3 DEF RangesInv
  <2> QED BY <2>4, <1>2 DEF a
<1>3. CASE f[i + 1].type \notin {"range", "whole", "name"}
  <2>1. RangesInv(f, i + 1, uses)
    BY <1>1, <1>3 DEF RangesInv
  <2> QED BY <2>1, <1>3
<1> QED BY <1>2, <1>3

LEMMA WalkSteps ==
  ASSUME NEW f \in Formula, NEW i \in 0..Len(f), i + 1 \in 1..Len(f), WalkInv(f, i)
  PROVE  WalkInv(f, i + 1)
<1> DEFINE w == Pass(f)[i]
           t == f[i + 1]
           v == Pass(f)[i + 1]
           e == [value |-> IF w.previous = "minus" THEN -t.value ELSE t.value,
                 at |-> Top(w.frames)]
           u == [token |-> t, function |-> Top(w.frames).function]
<1>1. f \in Seq(Token) /\ t \in Token /\ (i + 1) - 1 = i
  BY DEF Formula
<1>2. v = Visit(w, t)
  BY <1>1, PassSteps
<1>3. w \in WalkState /\ w.frames \in Seq(Frames) /\ w.literals \in Seq(Literal)
      /\ w.ranges \in Seq(Use)
  BY DEF WalkInv, WalkState
<1>4. FramesInv(f, i, w.frames) /\ LiteralsInv(f, i, w.literals) /\ RangesInv(f, i, w.ranges)
  BY DEF WalkInv
<1> HIDE DEF w, t, v
<1>5. /\ {Top(w.frames).function} \ {NONE} = FunctionAt(f, i + 1)
      /\ t.type # "arg" /\ ~Shifted(f, i + 1) =>
           {Top(w.frames).argument} \ {NONE} = ArgumentAt(f, i + 1)
  BY <1>3, <1>4, TopIsPlace DEF t
<1>6. v \in WalkState
  BY <1>1, <1>2, <1>3, VisitFields
<1>7. FramesInv(f, i + 1, v.frames)
  <2> DEFINE a == IF t.type = "open" THEN Append(w.frames, Frame(t.name))
                  ELSE IF t.type = "close" /\ Len(w.frames) > 0 THEN Front(w.frames)
                  ELSE IF t.type = "arg" /\ Len(w.frames) > 0
                    THEN [w.frames EXCEPT ![Len(w.frames)].argument = @ + 1]
                  ELSE w.frames
  <2>1. FramesInv(f, i + 1, a)
    BY <1>3, <1>4, t = f[i + 1], FramesKept DEF t
  <2>2. v.frames = a
    BY <1>1, <1>2, <1>3, VisitFields
  <2> QED BY <2>1, <2>2
<1>8. LiteralsInv(f, i + 1, v.literals)
  <2>1. CASE t.type = "number"
    <3>1. e \in Literal
      <4>1. Top(w.frames) \in Position /\ t.value \in Int
        BY <2>1, <1>1, <1>3, TopType, TokenFacts
      <4> QED BY <4>1 DEF Literal
    <3>2. PlacedAt(f, i + 1, e.at)
      BY <1>5, <2>1 DEF PlacedAt
    <3>3. v.literals = Append(w.literals, e)
      BY <1>1, <1>2, <1>3, <2>1, VisitFields
    <3> HIDE DEF e
    <3> QED BY <1>3, <1>4, <2>1, <3>1, <3>2, <3>3, LiteralsKept DEF t
  <2>2. CASE t.type # "number"
    <3> DEFINE none == [value |-> 0, at |-> Top(w.frames)]
    <3>1. none \in Literal
      BY <1>3, TopType DEF Literal
    <3>2. v.literals = w.literals
      BY <1>1, <1>2, <1>3, <2>2, VisitFields
    <3> HIDE DEF none
    <3> QED BY <1>3, <1>4, <2>2, <3>1, <3>2, LiteralsKept DEF t
  <2> QED BY <2>1, <2>2
<1>9. RangesInv(f, i + 1, v.ranges)
  <2>1. u \in Use
    BY <1>1, <1>3, TopType DEF Use
  <2>2. UseOf(f, i + 1, u)
    BY <1>5 DEF UseOf, t
  <2>3. v.ranges = IF t.type \in {"range", "whole", "name"} THEN Append(w.ranges, u) ELSE w.ranges
    BY <1>1, <1>2, <1>3, VisitFields
  <2> HIDE DEF u
  <2> QED BY <1>3, <1>4, <2>1, <2>2, <2>3, RangesKept DEF t
<1> QED BY <1>6, <1>7, <1>8, <1>9 DEF WalkInv, v

\* What walk_formula returns, for every formula.
LEMMA WalkIsRight ==
  ASSUME NEW f \in Formula
  PROVE  /\ walk_formula(f) \in WalkState
         /\ LiteralsInv(f, Len(f), walk_formula(f).literals)
         /\ RangesInv(f, Len(f), walk_formula(f).ranges)
<1> DEFINE S == {n \in Nat : n <= Len(f) => WalkInv(f, n)}
<1>1. Len(f) \in Nat
  BY DEF Formula
<1>2. 0 \in S
  BY WalkStarts
<1>3. ASSUME NEW n \in S PROVE n + 1 \in S
  <2> SUFFICES ASSUME n + 1 <= Len(f) PROVE WalkInv(f, n + 1)
    OBVIOUS
  <2>1. n \in 0..Len(f) /\ n + 1 \in 1..Len(f) /\ WalkInv(f, n)
    BY <1>1
  <2> QED BY <2>1, WalkSteps
<1>4. S = Nat
  BY <1>2, <1>3, InductionOnNat
<1>5. WalkInv(f, Len(f))
  BY <1>1, <1>4
<1> QED BY <1>5 DEF WalkInv, walk_formula

-----------------------------------------------------------------------------
(* What is stored: formulas stay formulas, however they are typed or copied. *)

StoredInv == /\ draft \in Formula
             /\ names \in SUBSET Name
             /\ DOMAIN book \in SUBSET Place
             /\ \A p \in DOMAIN book : book[p] \in Cell

LEMMA EmptyIsFormula == <<>> \in Formula
<1> DEFINE e == <<>>
<1>1. e \in Seq(Token) /\ Len(e) = 0 /\ 0 \in 0..Len(e)
  OBVIOUS
<1> HIDE DEF e
<1>2. OpenAt(e, 1) = 0
  BY <1>1, OpenStep
<1>3. e \in Formula
  BY <1>1, <1>2 DEF Formula, Nested
<1> QED BY <1>3 DEF e

\* Nesting only depends on the types of the tokens before.
LEMMA SameNesting ==
  ASSUME NEW f, NEW g, NEW i \in Nat,
         \A j \in 1..i : f[j].type = g[j].type
  PROVE  OpenAt(f, i + 1) = OpenAt(g, i + 1) /\ (InArray(f, i + 1) <=> InArray(g, i + 1))
<1>1. (i + 1) - 1 = i
  OBVIOUS
<1>2. /\ {j \in 1..i : f[j].type = "open"} = {j \in 1..i : g[j].type = "open"}
      /\ {j \in 1..i : f[j].type = "close"} = {j \in 1..i : g[j].type = "close"}
  OBVIOUS
<1>3. ASSUME NEW j \in 1..i
      PROVE  (\A k \in j..i : f[k].type # "endarray") <=> (\A k \in j..i : g[k].type # "endarray")
  OBVIOUS
<1>4. InArray(f, i + 1) <=> InArray(g, i + 1)
  BY <1>1, <1>3 DEF InArray
<1> QED BY <1>1, <1>2, <1>4 DEF OpenAt

\* A copy of a formula.
LEMMA MovedCornerType ==
  ASSUME NEW k \in CellRef, NEW p \in Place, NEW q \in Place
  PROVE  MovedCorner(k, p, q) =
           [row |-> IF k.rowabs THEN k.row ELSE k.row + q[2] - p[2],
            col |-> IF k.colabs THEN k.col ELSE k.col + q[3] - p[3],
            rowabs |-> k.rowabs, colabs |-> k.colabs]
         /\ MovedCorner(k, p, q) \in CellRef
<1>1. p[2] \in Int /\ p[3] \in Int /\ q[2] \in Int /\ q[3] \in Int
  BY BoundAssumption DEF Place
<1> DEFINE r == IF k.rowabs THEN k.row ELSE k.row + q[2] - p[2]
           c == IF k.colabs THEN k.col ELSE k.col + q[3] - p[3]
           m == [row |-> r, col |-> c, rowabs |-> k.rowabs, colabs |-> k.colabs]
<1>2. /\ k = [row |-> k.row, col |-> k.col, rowabs |-> k.rowabs, colabs |-> k.colabs]
      /\ k.row \in Int /\ k.col \in Int /\ k.rowabs \in BOOLEAN /\ k.colabs \in BOOLEAN
  BY DEF CellRef
<1>3. r \in Int /\ c \in Int
  BY <1>1, <1>2
<1>4. MovedCorner(k, p, q) = [k EXCEPT !.row = r, !.col = c]
  BY <1>2 DEF MovedCorner
<1> HIDE DEF r, c
<1>5. MovedCorner(k, p, q) = m
  BY <1>2, <1>4
<1>6. m \in CellRef
  BY <1>2, <1>3 DEF CellRef
<1> QED BY <1>5, <1>6 DEF r, c

\* A whole column moves sideways only, a whole row up and down only.
LEMMA MovedLineType ==
  ASSUME NEW k \in LineRef, NEW p \in Place, NEW q \in Place
  PROVE  MovedCorner(k, p, q) \in LineRef
<1>1. p[2] \in Int /\ p[3] \in Int /\ q[2] \in Int /\ q[3] \in Int
  BY BoundAssumption DEF Place
<1> DEFINE r == IF k.rowabs THEN k.row ELSE k.row + q[2] - p[2]
           c == IF k.colabs THEN k.col ELSE k.col + q[3] - p[3]
<1>2. MovedCorner(k, p, q) = [k EXCEPT !.row = r, !.col = c]
  <2> HIDE DEF r, c
  <2>1. MovedCorner(k, p, q) =
          [k EXCEPT !.row = IF k.rowabs THEN k.row ELSE k.row + q[2] - p[2],
                    !.col = IF k.colabs THEN k.col ELSE k.col + q[3] - p[3]]
    BY DEF MovedCorner, LineRef
  <2> QED BY <2>1 DEF r, c
<1>3. CASE k \in [row : {NONE}, col : Int, rowabs : {TRUE}, colabs : BOOLEAN]
  <2>0. k.rowabs = TRUE /\ k.row = NONE /\ k.col \in Int
    BY <1>3
  <2>1. r = NONE /\ c \in Int
    BY <1>1, <2>0
  <2> HIDE DEF r, c
  <2>2. [k EXCEPT !.row = r, !.col = c]
          \in [row : {NONE}, col : Int, rowabs : {TRUE}, colabs : BOOLEAN]
    BY <1>3, <2>1
  <2> QED BY <1>2, <2>2 DEF LineRef
<1>4. CASE k \in [row : Int, col : {NONE}, rowabs : BOOLEAN, colabs : {TRUE}]
  <2>0. k.colabs = TRUE /\ k.col = NONE /\ k.row \in Int
    BY <1>4
  <2>1. c = NONE /\ r \in Int
    BY <1>1, <2>0
  <2> HIDE DEF r, c
  <2>2. [k EXCEPT !.row = r, !.col = c]
          \in [row : Int, col : {NONE}, rowabs : BOOLEAN, colabs : {TRUE}]
    BY <1>4, <2>1
  <2> QED BY <1>2, <2>2 DEF LineRef
<1> QED BY <1>3, <1>4 DEF LineRef

LEMMA MovedToken ==
  ASSUME NEW f \in Seq(Token), NEW p \in Place, NEW q \in Place, NEW i \in 1..Len(f),
         NEW kinds \in SUBSET {"range", "whole"}
  PROVE  /\ Moved(f, p, q, kinds)[i] \in Token
         /\ Moved(f, p, q, kinds)[i].type = f[i].type
         /\ f[i].type \notin kinds => Moved(f, p, q, kinds)[i] = f[i]
         /\ f[i].type \in kinds => Moved(f, p, q, kinds)[i] =
              [type |-> f[i].type, sheet |-> f[i].sheet,
               from |-> MovedCorner(f[i].from, p, q), to |-> MovedCorner(f[i].to, p, q)]
<1>1. f[i] \in Token /\ i \in DOMAIN f
  OBVIOUS
<1>2. CASE f[i].type \notin kinds
  <2>1. Moved(f, p, q, kinds)[i] = f[i]
    BY <1>1, <1>2 DEF Moved
  <2> QED BY <1>1, <1>2, <2>1
<1>3. CASE f[i].type \in kinds
  <2> DEFINE y == f[i].type
             k == f[i].from
             l == f[i].to
             s == f[i].sheet
             kk == MovedCorner(k, p, q)
             ll == MovedCorner(l, p, q)
             m == [type |-> y, sheet |-> s, from |-> kk, to |-> ll]
  <2>1. y \in {"range", "whole"} /\ s \in Nat
        /\ (y = "range" => k \in CellRef /\ l \in CellRef)
        /\ (y = "whole" => k \in LineRef /\ l \in LineRef)
    BY <1>1, <1>3, TokenFacts
  <2>2. /\ y = "range" => kk \in CellRef /\ ll \in CellRef
        /\ y = "whole" => kk \in LineRef /\ ll \in LineRef
    BY <2>1, MovedCornerType, MovedLineType
  <2>3. Moved(f, p, q, kinds)[i] = m
    BY <1>1, <1>3 DEF Moved
  <2> HIDE DEF kk, ll, y, s
  <2>4. m \in Token
    BY <2>1, <2>2 DEF Token
  <2>5. m.type = y
    OBVIOUS
  <2> QED BY <1>3, <2>3, <2>4, <2>5 DEF kk, ll, y, s
<1> QED BY <1>2, <1>3

LEMMA MovedIsFormula ==
  ASSUME NEW f \in Formula, NEW p \in Place, NEW q \in Place,
         NEW kinds \in SUBSET {"range", "whole"}
  PROVE  Moved(f, p, q, kinds) \in Formula
<1> DEFINE g == Moved(f, p, q, kinds)
<1>1. f \in Seq(Token) /\ Len(f) \in Nat /\ Nested(f)
  BY DEF Formula
<1>2. /\ g \in Seq(Token) /\ Len(g) = Len(f) /\ DOMAIN g = 1..Len(f) /\ DOMAIN f = 1..Len(f)
      /\ \A j \in 1..Len(f) : f[j].type = g[j].type
  <2>1. \A i \in 1..Len(f) : g[i] \in Token /\ f[i].type = g[i].type
    BY <1>1, MovedToken, ZenonT(60)
  <2>2. g = [i \in 1..Len(f) |-> g[i]]
    BY <1>1 DEF Moved
  <2> HIDE DEF g
  <2> QED BY <1>1, <2>1, <2>2
<1> HIDE DEF g
<1>3. ASSUME NEW i \in 1..(Len(f) + 1)
      PROVE  OpenAt(f, i) = OpenAt(g, i) /\ (InArray(f, i) <=> InArray(g, i))
  <2>1. i - 1 \in Nat /\ (i - 1) + 1 = i /\ \A j \in 1..(i - 1) : f[j].type = g[j].type
    BY <1>1, <1>2
  <2> QED BY <2>1, SameNesting
<1>4. ASSUME NEW i \in 1..(Len(g) + 1) PROVE OpenAt(g, i) >= 0
  BY <1>1, <1>2, <1>3 DEF Nested
<1>5. ASSUME NEW i \in DOMAIN g
      PROVE  g[i].type \in IF ~InArray(g, i) THEN Types \ {"endarray"}
                          ELSE IF g[i - 1].type = "number" THEN {"arg", "endarray"}
                          ELSE {"number", "minus"}
  <2>1. /\ f[i].type \in IF ~InArray(f, i) THEN Types \ {"endarray"}
                         ELSE IF f[i - 1].type = "number" THEN {"arg", "endarray"}
                         ELSE {"number", "minus"}
        /\ f[i].type = g[i].type /\ (InArray(f, i) <=> InArray(g, i))
    BY <1>1, <1>2, <1>3 DEF Nested
  <2>2. InArray(f, i) => f[i - 1].type = g[i - 1].type
    <3>1. InArray(f, i) => i - 1 \in 1..Len(f)
      BY <1>2 DEF InArray
    <3> QED BY <3>1, <1>2
  <2> QED BY <2>1, <2>2
<1>6. Nested(g)
  BY <1>4, <1>5 DEF Nested
<1>7. g \in Formula
  BY <1>2, <1>6 DEF Formula
<1> QED BY <1>7 DEF g

\* An edit stores cells at places and leaves the others.
LEMMA WriteKeeps ==
  ASSUME StoredInv, NEW cells, DOMAIN cells \in SUBSET Place,
         \A p \in DOMAIN cells : cells[p] \in Cell, Write(cells)
  PROVE  StoredInv'
<1>1. book' = [p \in (DOMAIN cells) \cup (DOMAIN book) |->
                 IF p \in DOMAIN cells THEN cells[p] ELSE book[p]]
  BY DEF Write
<1>2. DOMAIN book' = (DOMAIN cells) \cup (DOMAIN book)
  BY <1>1
<1>3. \A p \in DOMAIN book' : book'[p] = IF p \in DOMAIN cells THEN cells[p] ELSE book[p]
  BY <1>1, <1>2
<1>4. draft' = draft /\ names' = names
  BY DEF Write
<1> QED BY <1>2, <1>3, <1>4 DEF StoredInv

LEMMA Heading ==
  ASSUME NEW v \in Period
  PROVE  [formula |-> NONE, value |-> v, typed_e |-> FALSE, numeric |-> FALSE,
          font |-> FALSE, fill |-> FALSE] \in Cell
<1>1. v \in {NONE} \cup Text \cup Number \cup Boolean /\ NONE \in {NONE} \cup Formula
  BY DEF Text, Period
<1> QED BY <1>1 DEF Cell

LEMMA StoredInit == Init => StoredInv
<1> SUFFICES ASSUME Init PROVE StoredInv
  OBVIOUS
<1>1. draft \in Formula
  BY EmptyIsFormula DEF Init
<1>2. names \in SUBSET Name
  BY StoredAssumption DEF Init
<1>3. DOMAIN book = {}
  BY DEF Init
<1> QED BY <1>1, <1>2, <1>3 DEF StoredInv

LEMMA StoredStep == StoredInv /\ [Next]_vars => StoredInv'
<1> SUFFICES ASSUME StoredInv, [Next]_vars PROVE StoredInv'
  OBVIOUS
<1>1. ASSUME NEW t \in Tokens, Type(t) PROVE StoredInv'
  <2>1. t \in Token /\ draft \in Formula
    BY StoredAssumption DEF StoredInv
  <2>2. Append(draft, t) \in Seq(Token) /\ draft' = Append(draft, t) /\ Nested(draft')
    BY <2>1, <1>1 DEF Type, Formula
  <2>3. draft' \in Formula
    BY <2>2 DEF Formula
  <2> QED BY <2>3, <1>1 DEF Type, StoredInv
<1>2. ASSUME NEW p \in Place, NEW c \in Contents, Put(p, c) PROVE StoredInv'
  <2>1. c \in Cell
    BY StoredAssumption
  <2> DEFINE cells == [x \in {p} |-> c]
  <2>2. DOMAIN cells = {p} /\ \A x \in DOMAIN cells : cells[x] \in Cell
    BY <2>1
  <2>3. Write(cells)
    BY <1>2 DEF Put
  <2> HIDE DEF cells
  <2> QED BY <2>2, <2>3, WriteKeeps
<1>3. ASSUME NEW p \in Place, FillRight(p) PROVE StoredInv'
  <2> DEFINE q == <<p[1], p[2], p[3] + 1>>
             c == [book[p] EXCEPT !.formula = Moved(@, p, q, {"range", "whole"})]
  <2>1. p \in DOMAIN book /\ book[p] \in Cell /\ book[p].formula # NONE /\ p[3] < NumCols
        /\ Write([x \in {q} |-> c])
    BY <1>3 DEF FillRight, Formulas, StoredInv
  <2>2. q \in Place
    BY <2>1, BoundAssumption DEF Place, Sheet
  <2>3. book[p].formula \in Formula
    BY <2>1 DEF Cell
  <2>4. c \in Cell
    <3> DEFINE m == Moved(book[p].formula, p, q, {"range", "whole"})
    <3>1. m \in {NONE} \cup Formula
      BY <2>2, <2>3, MovedIsFormula
    <3> HIDE DEF m
    <3>2. [book[p] EXCEPT !.formula = m] \in Cell
      BY <2>1, <3>1 DEF Cell
    <3> QED BY <3>2 DEF m
  <2> HIDE DEF q, c
  <2> DEFINE cells == [x \in {q} |-> c]
  <2>5. DOMAIN cells = {q} /\ \A x \in DOMAIN cells : cells[x] \in Cell
    BY <2>4
  <2>6. Write(cells)
    BY <2>1
  <2> HIDE DEF cells
  <2> QED BY <2>2, <2>5, <2>6, WriteKeeps
<1>4. ASSUME NEW p \in Place, NEW header \in Headers, TypeHeader(p, header)
      PROVE  StoredInv'
  <2> DEFINE heading(v) == [formula |-> NONE, value |-> v, typed_e |-> FALSE, numeric |-> FALSE,
                            font |-> FALSE, fill |-> FALSE]
             cells == [x \in {<<p[1], p[2], p[3] + i - 1>> : i \in DOMAIN header} |->
                         heading(header[x[3] - p[3] + 1])]
  <2>1. /\ header \in Seq(Period) /\ DOMAIN header = 1..Len(header) /\ Len(header) \in Nat
        /\ p[3] + Len(header) - 1 <= NumCols /\ Write(cells)
    BY <1>4, StoredAssumption DEF TypeHeader
  <2>2. \A v \in Period : heading(v) \in Cell
    BY Heading
  <2>3. p[1] \in Sheet /\ p[2] \in 1..NumRows /\ p[3] \in 1..NumCols
    BY DEF Place
  <2> HIDE DEF heading
  <2>4. ASSUME NEW i \in DOMAIN header
        PROVE  /\ <<p[1], p[2], p[3] + i - 1>> \in Place
               /\ heading(header[(p[3] + i - 1) - p[3] + 1]) \in Cell
    <3>1. p[3] + i - 1 \in 1..NumCols /\ (p[3] + i - 1) - p[3] + 1 = i
      BY <2>1, <2>3, BoundAssumption, SMTT(30)
    <3>2. header[i] \in Period
      BY <2>1
    <3> QED BY <2>2, <2>3, <3>1, <3>2 DEF Place
  <2>5. DOMAIN cells \in SUBSET Place /\ \A x \in DOMAIN cells : cells[x] \in Cell
    BY <2>4
  <2> HIDE DEF cells
  <2> QED BY <2>1, <2>5, WriteKeeps
<1>5. CASE UNCHANGED vars
  BY <1>5 DEF vars, StoredInv
<1> QED BY <1>1, <1>2, <1>3, <1>4, <1>5 DEF Next

\* Whatever is typed, filled or copied, the workbook keeps cells at its places,
\* and every formula of it, and the one being typed, nests its functions.
\* (the precondition under which the walk of inspect/tokens.py is right)
THEOREM StoredIsWellFormed == Spec => []StoredInv
  BY StoredInit, StoredStep, PTL DEF Spec

-----------------------------------------------------------------------------
(* Literals. *)

LEMMA FormulaLiterals == draft \in Formula => LiteralsPlaced
<1> SUFFICES ASSUME draft \in Formula PROVE LiteralsPlaced
  OBVIOUS
<1> DEFINE literals == walk_formula(draft).literals
<1>1. LiteralsInv(draft, Len(draft), literals)
  BY WalkIsRight
<1>2. DOMAIN draft = 1..Len(draft)
  BY DEF Formula
<1> HIDE DEF literals
<1>3. Len(literals) = OfType(draft, "number", Len(draft))
  BY <1>1 DEF LiteralsInv
<1>4. ASSUME NEW i \in DOMAIN draft, draft[i].type = "number"
      PROVE  PlacedAt(draft, i, literals[OfType(draft, "number", i)].at)
  BY <1>1, <1>2, <1>4 DEF LiteralsInv
<1> QED BY <1>3, <1>4 DEF LiteralsPlaced, PlacedAt, OfType, literals

\* Every number of a formula is placed in the function and at the argument it
\* stands in, for formulas of any length and depth over any tokens.
THEOREM LiteralsArePlaced == Spec => []LiteralsPlaced
<1>1. StoredInv => LiteralsPlaced
  BY FormulaLiterals DEF StoredInv
<1> QED BY <1>1, StoredIsWellFormed, PTL

-----------------------------------------------------------------------------
(* The reference graph. *)

LEMMA FormulaAt ==
  ASSUME StoredInv, NEW p \in Formulas
  PROVE  /\ p \in DOMAIN book /\ p \in Place /\ book[p] \in Cell
         /\ book[p].formula \in Formula
<1>1. p \in DOMAIN book /\ book[p].formula # NONE /\ p \in Place /\ book[p] \in Cell
  BY DEF Formulas, StoredInv
<1> QED BY <1>1 DEF Cell

\* What a name resolves to is what it means on that sheet.
LEMMA ResolvedIsMeant ==
  ASSUME NEW t, NEW s, t.type \notin {"range", "whole"}
  PROVE  Meant(t, s) = UNION {ToSet(d.targets) : d \in resolve_name(t.name, s)}
<1>1. (\E l \in names : l.name = t.name /\ l.scope = s) <=> Named(t.name, s) # {}
  BY DEF Named
<1>2. resolve_name(t.name, s)
        = {e \in names : /\ e.name = t.name
                         /\ e.scope = (IF \E l \in names : l.name = t.name /\ l.scope = s
                                       THEN s ELSE 0)}
  BY <1>1 DEF resolve_name, Named
<1> QED BY <1>2 DEF Meant

\* The edges of one use, in terms of the token it stands for: what the token
\* refers to, or an area without bounds.
EdgeFor(p, m, e) ==
  LET t == book[p].formula[m]
  IN /\ e.source = p
     /\ Resolved(e.target) => e.target \in Meant(t, p[1])
     /\ {e.function} \ {NONE} = FunctionAt(book[p].formula, m)
     /\ e.via # NONE => /\ t.type \notin {"range", "whole"} /\ e.via = t.name
                        /\ resolve_name(t.name, p[1]) # {}

EdgesFor(p, m, E) ==
  /\ \A e \in E : EdgeFor(p, m, e)
  /\ \A a \in Meant(book[p].formula[m], p[1]) : \E e \in E : e.target = a

LEMMA EdgesByUse ==
  ASSUME NEW p, NEW m, NEW use, UseOf(book[p].formula, m, use),
         book[p].formula[m].type \in {"range", "whole", "name"}
  PROVE  EdgesFor(p, m, EdgesBy(p, use))
<1> DEFINE t == book[p].formula[m]
           x(a, via) == [source |-> p, target |-> a, via |-> via, function |-> use.function]
<1>1. use.token = t /\ {use.function} \ {NONE} = FunctionAt(book[p].formula, m)
  BY DEF UseOf
<1>2. EdgesBy(p, use) =
        IF t.type # "name" THEN {x(Area(t, p[1]), NONE)}
        ELSE IF resolve_name(t.name, p[1]) = {} THEN {x(Unbounded(p[1]), NONE)}
        ELSE UNION {{x(a, d.name) : a \in ToSet(d.targets)} : d \in resolve_name(t.name, p[1])}
  BY <1>1 DEF EdgesBy
<1>3. \A a, via : /\ x(a, via).source = p /\ x(a, via).target = a /\ x(a, via).via = via
                  /\ x(a, via).function = use.function
  OBVIOUS
<1> HIDE DEF x
<1>4. CASE t.type \in {"range", "whole"}
  <2>1. EdgesBy(p, use) = {x(Area(t, p[1]), NONE)}
    BY <1>2, <1>4
  <2>2. Meant(t, p[1]) = {Area(t, p[1])}
    BY <1>4 DEF Meant
  <2> QED BY <1>1, <1>3, <2>1, <2>2 DEF EdgeFor, EdgesFor
<1>5. CASE t.type = "name" /\ resolve_name(t.name, p[1]) = {}
  <2>1. EdgesBy(p, use) = {x(Unbounded(p[1]), NONE)}
    BY <1>2, <1>5
  <2>2. ~Resolved(Unbounded(p[1]))
    BY DEF Resolved, Unbounded
  <2>3. Meant(t, p[1]) = {}
    BY <1>5, ResolvedIsMeant
  <2> QED BY <1>1, <1>3, <2>1, <2>2, <2>3 DEF EdgeFor, EdgesFor
<1>6. CASE t.type = "name" /\ resolve_name(t.name, p[1]) # {}
  <2> DEFINE R == resolve_name(t.name, p[1])
  <2>1. EdgesBy(p, use) = UNION {{x(a, d.name) : a \in ToSet(d.targets)} : d \in R}
    BY <1>2, <1>6
  <2>2. Meant(t, p[1]) = UNION {ToSet(d.targets) : d \in R}
    BY <1>6, ResolvedIsMeant
  <2>3. \A d \in R : d.name = t.name
    BY DEF resolve_name, Named
  <2> HIDE DEF R
  <2>4. ASSUME NEW e \in EdgesBy(p, use) PROVE EdgeFor(p, m, e)
    <3>1. PICK d \in R : \E a \in ToSet(d.targets) : e = x(a, d.name)
      BY <2>1
    <3>2. PICK a \in ToSet(d.targets) : e = x(a, d.name)
      BY <3>1
    <3>3. e.source = p /\ e.target = a /\ e.via = t.name /\ e.function = use.function
      BY <1>3, <2>3, <3>2
    <3>4. a \in Meant(t, p[1])
      BY <2>2, <3>2
    <3> QED BY <1>1, <1>6, <3>3, <3>4 DEF EdgeFor
  <2>5. ASSUME NEW a \in Meant(t, p[1]) PROVE \E e \in EdgesBy(p, use) : e.target = a
    <3>1. PICK d \in R : a \in ToSet(d.targets)
      BY <2>2
    <3>2. x(a, d.name) \in EdgesBy(p, use)
      BY <2>1, <3>1
    <3> QED BY <1>3, <3>2
  <2> QED BY <2>4, <2>5 DEF EdgesFor
<1> QED BY <1>4, <1>5, <1>6

\* The edges of the graph are the references of the formulas, each with what it
\* refers to and with the function it stands in.
LEMMA EdgesAreReferences ==
  ASSUME StoredInv
  PROVE  /\ \A e \in Edges :
              /\ e.source \in Formulas
              /\ \E m \in References(book[e.source].formula) : EdgeFor(e.source, m, e)
         /\ \A p \in Formulas : \A m \in References(book[p].formula) :
              \A a \in Meant(book[p].formula[m], p[1]) :
                \E e \in Edges : e.target = a /\ EdgeFor(p, m, e)
<1> DEFINE ranges(p) == walk_formula(book[p].formula).ranges
           Of(p) == UNION {EdgesBy(p, ranges(p)[i]) : i \in DOMAIN ranges(p)}
<1>1. Edges = UNION {Of(p) : p \in Formulas}
  BY DEF Edges
<1>2. ASSUME NEW p \in Formulas
      PROVE  /\ RangesInv(book[p].formula, Len(book[p].formula), ranges(p))
             /\ DOMAIN ranges(p) = 1..Len(ranges(p))
             /\ DOMAIN book[p].formula = 1..Len(book[p].formula)
  <2>1. book[p].formula \in Formula
    BY FormulaAt
  <2>2. ranges(p) \in Seq(Use)
    <3> DEFINE w == walk_formula(book[p].formula)
    <3>1. w \in WalkState
      BY <2>1, WalkIsRight
    <3> HIDE DEF w
    <3>2. w.ranges \in Seq(Use)
      BY <3>1 DEF WalkState
    <3> QED BY <3>2 DEF w
  <2>3. book[p].formula \in Seq(Token)
    BY <2>1 DEF Formula
  <2> HIDE DEF ranges
  <2>4. DOMAIN ranges(p) = 1..Len(ranges(p)) /\ DOMAIN book[p].formula = 1..Len(book[p].formula)
    BY <2>2, <2>3
  <2> QED BY <2>1, <2>4, WalkIsRight DEF ranges
<1> HIDE DEF ranges
<1>3. ASSUME NEW e \in Edges
      PROVE  /\ e.source \in Formulas
             /\ \E m \in References(book[e.source].formula) : EdgeFor(e.source, m, e)
  <2>1. PICK p \in Formulas : e \in Of(p)
    BY <1>1
  <2>2. PICK i \in DOMAIN ranges(p) : e \in EdgesBy(p, ranges(p)[i])
    BY <2>1
  <2>3. PICK m \in 1..Len(book[p].formula) :
          /\ book[p].formula[m].type \in {"range", "whole", "name"}
          /\ UseOf(book[p].formula, m, ranges(p)[i])
    BY <1>2, <2>2 DEF RangesInv
  <2>4. m \in References(book[p].formula)
    BY <1>2, <2>3 DEF References
  <2>5. EdgeFor(p, m, e)
    BY <2>2, <2>3, EdgesByUse DEF EdgesFor
  <2>6. e.source = p
    BY <2>5 DEF EdgeFor
  <2> QED BY <2>4, <2>5, <2>6
<1>4. ASSUME NEW p \in Formulas, NEW m \in References(book[p].formula),
             NEW a \in Meant(book[p].formula[m], p[1])
      PROVE  \E e \in Edges : e.target = a /\ EdgeFor(p, m, e)
  <2>1. m \in 1..Len(book[p].formula) /\ book[p].formula[m].type \in {"range", "whole", "name"}
    BY <1>2 DEF References
  <2>2. PICK l \in 1..Len(ranges(p)) : UseOf(book[p].formula, m, ranges(p)[l])
    BY <1>2, <2>1 DEF RangesInv
  <2> DEFINE use == ranges(p)[l]
  <2> HIDE DEF use
  <2>3. EdgesFor(p, m, EdgesBy(p, use))
    BY <2>1, <2>2, EdgesByUse DEF use
  <2>4. PICK e \in EdgesBy(p, use) : e.target = a /\ EdgeFor(p, m, e)
    BY <2>3 DEF EdgesFor
  <2>5. e \in Of(p)
    BY <1>2, <2>2, <2>4 DEF use
  <2>6. e \in Edges
    BY <1>1, <2>5
  <2> QED BY <2>4, <2>6
<1> QED BY <1>3, <1>4

LEMMA MeantType ==
  ASSUME StoredInv, NEW p \in Formulas, NEW m \in References(book[p].formula),
         NEW a \in Meant(book[p].formula[m], p[1])
  PROVE  a \in Reference
<1> DEFINE t == book[p].formula[m]
<1>1. t \in Token /\ t.type \in {"range", "whole", "name"}
  <2>1. book[p].formula \in Seq(Token)
    BY FormulaAt DEF Formula
  <2> QED BY <2>1 DEF References
<1>2. p[1] \in Nat
  BY FormulaAt, BoundAssumption DEF Place, Sheet
<1> HIDE DEF t
<1>3. CASE t.type \in {"range", "whole"}
  <2>1. t.sheet \in Nat /\ t.from \in CellRef \cup LineRef /\ t.to \in CellRef \cup LineRef
    BY <1>1, <1>3, TokenFacts
  <2>2. /\ t.from.row \in Bound /\ t.to.row \in Bound
        /\ t.from.col \in Bound /\ t.to.col \in Bound
    BY <2>1 DEF CellRef, LineRef, Bound
  <2>3. Area(t, p[1]) \in Reference
    BY <1>2, <2>1, <2>2 DEF Area, Reference
  <2>4. a = Area(t, p[1])
    BY <1>3 DEF Meant, t
  <2> QED BY <2>3, <2>4
<1>4. CASE t.type \notin {"range", "whole"}
  <2>1. PICK d \in names : a \in ToSet(d.targets)
    BY <1>4 DEF Meant, t
  <2>2. d.targets \in Seq(Reference)
    BY DEF StoredInv, Name
  <2> QED BY <2>1, <2>2 DEF ToSet
<1> QED BY <1>3, <1>4

LEMMA InsideIsCovered ==
  ASSUME NEW a \in Reference, Resolved(a), NEW q \in Place
  PROVE  q \in Inside(a) <=> Covers(a, q)
<1>1. /\ a.sheet \in Nat /\ a.rows[1] \in Int /\ a.rows[2] \in Int
      /\ a.cols[1] \in Int /\ a.cols[2] \in Int
  BY DEF Reference, Bound, Resolved
<1>2. q = <<q[1], q[2], q[3]>> /\ q[1] \in Nat /\ q[2] \in Int /\ q[3] \in Int
  BY BoundAssumption DEF Place, Sheet
<1>3. q \in Inside(a) <=> /\ q[1] = a.sheet
                          /\ q[2] \in a.rows[1]..a.rows[2] /\ q[3] \in a.cols[1]..a.cols[2]
  BY <1>2 DEF Inside
<1> QED BY <1>1, <1>2, <1>3 DEF Covers

\* Text that an aggregate takes as an argument of its own.
SumsText(q, p) ==
  /\ IsText(q)
  /\ \E i \in References(book[p].formula) :
       /\ FunctionAt(book[p].formula, i) \cap Aggregates # {}
       /\ \E a \in Meant(book[p].formula[i], p[1]) : Covers(a, q)

LEMMA AggregateEdge ==
  ASSUME NEW p, NEW m, NEW e, EdgeFor(p, m, e)
  PROVE  e.function \in Aggregates <=> FunctionAt(book[p].formula, m) \cap Aggregates # {}
<1>1. NONE \notin Aggregates
  BY NoneAssumption, StoredAssumption
<1>2. {e.function} \ {NONE} = FunctionAt(book[p].formula, m)
  BY DEF EdgeFor
<1> QED BY <1>1, <1>2

LEMMA TextReported ==
  ASSUME StoredInv
  PROVE  AggregatedTextFound
<1> DEFINE Texts(e) == {q \in DOMAIN book : q \in Inside(e.target) /\ IsText(q)}
           x(e, q) == [place |-> q, source |-> e.source, error |-> is_error(q)]
           Found == {<<y.place, y.source>> : y \in XL005}
<1>1. XL005 = UNION {{x(e, q) : q \in Texts(e)} :
                       e \in {e \in aggregate_ranges : Resolved(e.target)}}
  BY DEF XL005
<1>2. \A e, q : x(e, q).place = q /\ x(e, q).source = e.source
  OBVIOUS
<1> HIDE DEF x
<1>3. \A q \in DOMAIN book : q \in Place
  BY DEF StoredInv
<1>4. ASSUME NEW y \in XL005
      PROVE  /\ y.place \in DOMAIN book /\ y.source \in Formulas
             /\ SumsText(y.place, y.source)
  <2>1. PICK e \in aggregate_ranges : Resolved(e.target) /\ \E q \in Texts(e) : y = x(e, q)
    BY <1>1
  <2>2. PICK q \in Texts(e) : y = x(e, q)
    BY <2>1
  <2>3. y.place = q /\ y.source = e.source /\ e \in Edges /\ e.function \in Aggregates
    BY <1>2, <2>2 DEF aggregate_ranges
  <2>4. q \in DOMAIN book /\ q \in Inside(e.target) /\ IsText(q)
    OBVIOUS
  <2>5. e.source \in Formulas
    BY <2>3, EdgesAreReferences
  <2>6. PICK m \in References(book[e.source].formula) : EdgeFor(e.source, m, e)
    BY <2>3, EdgesAreReferences
  <2>7. FunctionAt(book[e.source].formula, m) \cap Aggregates # {}
    BY <2>3, <2>6, AggregateEdge
  <2>8. e.target \in Meant(book[e.source].formula[m], e.source[1])
    BY <2>1, <2>6 DEF EdgeFor
  <2>9. e.target \in Reference
    BY <2>5, <2>8, MeantType
  <2>10. Covers(e.target, q)
    BY <1>3, <2>1, <2>4, <2>9, InsideIsCovered
  <2> QED BY <2>3, <2>4, <2>5, <2>7, <2>8, <2>10 DEF SumsText
<1>5. ASSUME NEW q \in DOMAIN book, NEW p \in Formulas, SumsText(q, p)
      PROVE  \E y \in XL005 : y.place = q /\ y.source = p
  <2>1. PICK m \in References(book[p].formula) :
          /\ FunctionAt(book[p].formula, m) \cap Aggregates # {}
          /\ \E a \in Meant(book[p].formula[m], p[1]) : Covers(a, q)
    BY <1>5 DEF SumsText
  <2>2. PICK a \in Meant(book[p].formula[m], p[1]) : Covers(a, q)
    BY <2>1
  <2>3. PICK e \in Edges : e.target = a /\ EdgeFor(p, m, e)
    BY EdgesAreReferences
  <2>4. e.function \in Aggregates /\ e.source = p
    BY <2>1, <2>3, AggregateEdge DEF EdgeFor
  <2>5. a \in Reference /\ Resolved(a)
    BY <2>2, MeantType DEF Covers
  <2>6. q \in Inside(e.target) /\ IsText(q)
    BY <1>3, <1>5, <2>2, <2>3, <2>5, InsideIsCovered DEF SumsText
  <2>7. e \in aggregate_ranges /\ q \in Texts(e)
    BY <2>4, <2>6 DEF aggregate_ranges
  <2>8. x(e, q) \in XL005
    BY <1>1, <2>3, <2>5, <2>7
  <2> QED BY <1>2, <2>4, <2>8
<1>6. Found = {pair \in (DOMAIN book) \X Formulas : SumsText(pair[1], pair[2])}
  <2>1. ASSUME NEW z \in Found
        PROVE  z \in (DOMAIN book) \X Formulas /\ SumsText(z[1], z[2])
    <3>1. PICK y \in XL005 : z = <<y.place, y.source>>
      OBVIOUS
    <3> QED BY <1>4, <3>1
  <2>2. ASSUME NEW z \in (DOMAIN book) \X Formulas, SumsText(z[1], z[2])
        PROVE  z \in Found
    <3>1. z[1] \in DOMAIN book /\ z[2] \in Formulas /\ z = <<z[1], z[2]>>
      OBVIOUS
    <3>2. PICK y \in XL005 : y.place = z[1] /\ y.source = z[2]
      BY <1>5, <2>2, <3>1
    <3> QED BY <3>1, <3>2
  <2> HIDE DEF Found
  <2> QED BY <2>1, <2>2
<1> QED BY <1>6 DEF AggregatedTextFound, SumsText

\* Text in a bounded area that an aggregate takes as an argument of its own is
\* reported against that formula, and nothing else is: on every workbook, for every
\* set of aggregates and of names, however the calls are nested.
THEOREM AggregatedTextIsFound == Spec => []AggregatedTextFound
<1>1. StoredInv => AggregatedTextFound
  BY TextReported
<1> QED BY <1>1, StoredIsWellFormed, PTL

\* A place is read when some edge has it as its single cell.
LEMMA ReadByEdge ==
  ASSUME StoredInv, NEW p \in Formulas, NEW q
  PROVE  q \in Reads(p) <=>
           \E e \in Edges : e.source = p /\ IsSingleCell(e.target) /\ q = Corner(e.target)
<1> DEFINE At(m) == {Corner(a) : a \in {b \in Meant(book[p].formula[m], p[1]) : IsSingleCell(b)}}
<1>1. Reads(p) = UNION {At(m) : m \in References(book[p].formula)}
  BY DEF Reads
<1>2. ASSUME q \in Reads(p)
      PROVE  \E e \in Edges : e.source = p /\ IsSingleCell(e.target) /\ q = Corner(e.target)
  <2>1. PICK m \in References(book[p].formula) : q \in At(m)
    BY <1>1, <1>2
  <2>2. PICK a \in Meant(book[p].formula[m], p[1]) : IsSingleCell(a) /\ q = Corner(a)
    BY <2>1
  <2>3. PICK e \in Edges : e.target = a /\ EdgeFor(p, m, e)
    BY EdgesAreReferences
  <2> QED BY <2>2, <2>3 DEF EdgeFor
<1>3. ASSUME NEW e \in Edges, e.source = p, IsSingleCell(e.target), q = Corner(e.target)
      PROVE  q \in Reads(p)
  <2>1. PICK m \in References(book[p].formula) : EdgeFor(p, m, e)
    BY <1>3, EdgesAreReferences
  <2>2. e.target \in Meant(book[p].formula[m], p[1])
    BY <1>3, <2>1 DEF EdgeFor, IsSingleCell
  <2>3. q \in At(m)
    BY <1>3, <2>2
  <2> QED BY <1>1, <2>3
<1> QED BY <1>2, <1>3

\* An unstyled constant with a value.
Unstyled(q) == /\ q \in DOMAIN book
               /\ book[q].formula = NONE /\ book[q].value # NONE
               /\ ~(book[q].font /\ book[q].fill)

LEMMA StylesReported ==
  ASSUME StoredInv
  PROVE  XL104 = {q \in (UNION {Reads(p) : p \in Formulas}) \cap (DOMAIN book \ Formulas) :
                    book[q].value # NONE /\ {book[q].font, book[q].fill} # {TRUE}}
<1> DEFINE Read == UNION {Reads(p) : p \in Formulas}
           Wanted == {q \in Read \cap (DOMAIN book \ Formulas) :
                        book[q].value # NONE /\ {book[q].font, book[q].fill} # {TRUE}}
<1>1. XL104 = {Corner(e.target) : e \in {e \in Edges : IsSingleCell(e.target)
                                                       /\ Unstyled(Corner(e.target))}}
  BY DEF XL104, Unstyled
<1>2. ASSUME NEW q
      PROVE  Unstyled(q) <=>
               /\ q \in DOMAIN book \ Formulas
               /\ book[q].value # NONE /\ {book[q].font, book[q].fill} # {TRUE}
  <2>1. CASE q \notin DOMAIN book
    BY <2>1 DEF Unstyled
  <2>2. CASE q \in DOMAIN book
    <3>1. book[q].font \in BOOLEAN /\ book[q].fill \in BOOLEAN
      BY <2>2 DEF StoredInv, Cell
    <3>2. book[q].formula = NONE <=> q \in DOMAIN book \ Formulas
      BY <2>2 DEF Formulas
    <3>3. ~(book[q].font /\ book[q].fill) <=> {book[q].font, book[q].fill} # {TRUE}
      BY <3>1
    <3> QED BY <2>2, <3>2, <3>3 DEF Unstyled
  <2> QED BY <2>1, <2>2
<1>3. ASSUME NEW q
      PROVE  q \in Read <=> \E e \in Edges : IsSingleCell(e.target) /\ q = Corner(e.target)
  <2>1. \A e \in Edges : e.source \in Formulas
    BY EdgesAreReferences
  <2>2. \A p \in Formulas :
          q \in Reads(p) <=>
            \E e \in Edges : e.source = p /\ IsSingleCell(e.target) /\ q = Corner(e.target)
    BY ReadByEdge
  <2> QED BY <2>1, <2>2
<1> HIDE DEF Read
<1>4. ASSUME NEW q PROVE q \in XL104 <=> q \in Read /\ Unstyled(q)
  BY <1>1, <1>3
<1>5. ASSUME NEW q PROVE q \in Wanted <=> q \in Read /\ Unstyled(q)
  BY <1>2
<1> HIDE DEF Wanted
<1>6. XL104 = Wanted
  BY <1>4, <1>5
<1> QED BY <1>6 DEF Wanted, Read

\* A user of a named constant reads it, unless a sheet hides a name.
LEMMA UsersRead ==
  ASSUME StoredInv, ~Hidden, NEW x \in XL001, NEW p \in x.users
  PROVE  x.place \in Reads(p)
<1>1. PICK d \in names : /\ NamedConstant(d)
                         /\ x = [place |-> Corner(Target(d)), users |-> Users(d)]
  BY DEF XL001
<1>2. PICK e \in Edges : e.via = d.name /\ e.source = p
  BY <1>1 DEF Users
<1>3. p \in Formulas
  BY <1>2, EdgesAreReferences
<1>4. PICK m \in References(book[p].formula) : EdgeFor(p, m, e)
  BY <1>2, EdgesAreReferences
<1> DEFINE t == book[p].formula[m]
<1>5. d.name \in STRING
  BY DEF StoredInv, Name
<1>6. d.name # NONE
  BY <1>5, NoneAssumption
<1>7. t.type \notin {"range", "whole"} /\ t.name = d.name /\ resolve_name(t.name, p[1]) # {}
  BY <1>2, <1>4, <1>6 DEF EdgeFor
<1>8. d \in resolve_name(t.name, p[1])
  <2>1. PICK l \in resolve_name(t.name, p[1]) : TRUE
    BY <1>7
  <2>2. l \in names /\ l.name = d.name
    BY <1>7, <2>1 DEF resolve_name, Named
  <2>3. l.scope = d.scope
    BY <2>2 DEF Hidden
  <2> QED BY <1>7, <2>1, <2>2, <2>3 DEF resolve_name, Named
<1>9. Target(d) \in Meant(t, p[1])
  <2>1. d.targets \in Seq(Reference) /\ Len(d.targets) = 1
    BY <1>1 DEF NamedConstant, StoredInv, Name
  <2>2. 1 \in DOMAIN d.targets
    BY <2>1
  <2>3. Target(d) \in ToSet(d.targets)
    BY <2>2 DEF Target, ToSet
  <2> QED BY <1>7, <1>8, <2>3, ResolvedIsMeant
<1>10. IsSingleCell(Target(d)) /\ x.place = Corner(Target(d))
  BY <1>1 DEF NamedConstant
<1> DEFINE at == {Corner(a) : a \in {b \in Meant(t, p[1]) : IsSingleCell(b)}}
<1>11. x.place \in at
  BY <1>9, <1>10
<1>12. at \subseteq Reads(p)
  BY <1>4 DEF Reads
<1> QED BY <1>11, <1>12

\* A constant is reported for its style exactly when a formula reads it as a cell
\* of its own, and the users of a named constant read it unless a name is hidden:
\* on every workbook and for every set of names.
THEOREM InputsAreJudged == Spec => []InputsAreRead
<1>1. StoredInv => InputsAreRead
  <2> SUFFICES ASSUME StoredInv PROVE InputsAreRead
    OBVIOUS
  <2>1. ~Hidden => \A x \in XL001 : \A p \in x.users : x.place \in Reads(p)
    BY UsersRead
  <2> QED BY <2>1, StylesReported DEF InputsAreRead
<1> QED BY <1>1, StoredIsWellFormed, PTL

-----------------------------------------------------------------------------
(* Runs of cells in a row. *)

LEMMA MaxColumn ==
  ASSUME StoredInv, NEW s
  PROVE  /\ max_column(s) \in Nat \ {0}
         /\ \A p \in Occupied(s) : p[3] <= max_column(s)
<1> DEFINE cols == {p[3] : p \in Occupied(s)}
<1>1. \A p \in Occupied(s) : p[3] \in 1..NumCols
  BY DEF Occupied, StoredInv, Place
<1>2. cols \in SUBSET (0..NumCols) /\ \A c \in cols : c \in Nat \ {0}
  BY <1>1, BoundAssumption
<1>3. max_column(s) = IF cols = {} THEN 1 ELSE CHOOSE c \in cols : \A d \in cols : d <= c
  BY DEF max_column
<1>4. \A p \in Occupied(s) : p[3] \in cols
  OBVIOUS
<1> HIDE DEF cols
<1>5. CASE cols = {}
  BY <1>3, <1>4, <1>5
<1>6. CASE cols # {}
  <2>1. \E c \in cols : \A d \in cols : d <= c
    BY <1>2, <1>6, BoundAssumption, GreatestElement
  <2>2. max_column(s) \in cols /\ \A d \in cols : d <= max_column(s)
    BY <1>3, <1>6, <2>1
  <2> QED BY <1>2, <1>4, <2>2
<1> QED BY <1>5, <1>6

\* The recursion of the scan is well defined.
LEMMA ScanSteps ==
  ASSUME NEW s, NEW r, NEW B, LastScanned(s) \in Nat
  PROVE  /\ Scans(s, r, B)[0] = [runs |-> {}, run |-> <<>>]
         /\ \A c \in 1..LastScanned(s) :
              Scans(s, r, B)[c] = Scan(Scans(s, r, B)[c - 1], c, <<s, r, c>> \in B)
<1> DEFINE Empty == [runs |-> {}, run |-> <<>>]
           In(c) == <<s, r, c>> \in B
           Steps(g, k) == g = [c \in 0..k |-> IF c = 0 THEN Empty ELSE Scan(g[c - 1], c, In(c))]
           S == {k \in Nat : \E g : Steps(g, k)}
           last == LastScanned(s)
<1> HIDE DEF Empty, In
<1>1. 0 \in S
  <2> DEFINE g0 == [c \in 0..0 |-> Empty]
  <2>1. \A c \in 0..0 : c = 0
    OBVIOUS
  <2>2. g0 = [c \in 0..0 |-> IF c = 0 THEN Empty ELSE Scan(g0[c - 1], c, In(c))]
    BY <2>1, Zenon
  <2> QED BY <2>2
<1>2. ASSUME NEW k \in S PROVE k + 1 \in S
  <2>1. k \in Nat /\ k + 1 \in Nat /\ k + 1 # 0 /\ (k + 1) - 1 = k /\ k \in 0..k /\ k + 1 \notin 0..k
    OBVIOUS
  <2>2. PICK g : Steps(g, k)
    OBVIOUS
  <2> DEFINE h == [c \in 0..(k + 1) |-> IF c = k + 1 THEN Scan(g[k], k + 1, In(k + 1)) ELSE g[c]]
  <2>3. ASSUME NEW c \in 0..(k + 1)
        PROVE  h[c] = IF c = 0 THEN Empty ELSE Scan(h[c - 1], c, In(c))
    <3>1. CASE c = k + 1
      <4>1. h[k] = g[k]
        BY <2>1
      <4> QED BY <3>1, <4>1, <2>1
    <3>2. CASE c \in 0..k /\ c = 0
      <4>1. h[c] = g[c] /\ g[c] = Empty
        BY <2>1, <2>2, <3>2
      <4> QED BY <3>2, <4>1
    <3>3. CASE c \in 0..k /\ c # 0
      <4>1. c - 1 \in 0..k /\ c - 1 # k + 1 /\ c # k + 1 /\ c - 1 \in 0..(k + 1)
        BY <3>3, <2>1
      <4>2. h[c] = g[c] /\ h[c - 1] = g[c - 1]
        BY <4>1
      <4>3. g[c] = Scan(g[c - 1], c, In(c))
        BY <2>2, <3>3, Zenon
      <4> QED BY <4>2, <4>3, <3>3
    <3> QED BY <3>1, <3>2, <3>3, <2>1
  <2>4. Steps(h, k + 1)
    BY <2>3, Zenon
  <2> QED BY <2>1, <2>4
<1>3. S = Nat
  BY <1>1, <1>2, InductionOnNat
<1>4. \E g : Steps(g, last)
  BY <1>3
<1>5. Steps(Scans(s, r, B), last)
  <2> DEFINE a == CHOOSE g : Steps(g, last)
  <2>1. Steps(a, last)
    BY <1>4, Zenon
  <2>2. Scans(s, r, B) = a
    BY Zenon DEF Scans, Empty, In
  <2> QED BY <2>1, <2>2, Zenon
<1>6. ASSUME NEW c \in 0..last
      PROVE  Scans(s, r, B)[c] = IF c = 0 THEN Empty
                                 ELSE Scan(Scans(s, r, B)[c - 1], c, In(c))
  <2> DEFINE P == Scans(s, r, B)
  <2>1. P = [d \in 0..last |-> IF d = 0 THEN Empty ELSE Scan(P[d - 1], d, In(d))]
    BY <1>5, Zenon
  <2> HIDE DEF P
  <2>2. P[c] = IF c = 0 THEN Empty ELSE Scan(P[c - 1], c, In(c))
    BY <2>1, Zenon
  <2> QED BY <2>2 DEF P
<1>7. last \in Nat /\ 0 \in 0..last /\ \A c \in 1..last : c \in 0..last /\ c # 0
  OBVIOUS
<1> QED BY <1>6, <1>7 DEF Empty, In

\* n columns from a.
Block(a, n) == [i \in 1..n |-> a + i - 1]

LEMMA BlockFacts ==
  ASSUME NEW a \in Int, NEW n \in Nat
  PROVE  /\ Len(Block(a, n)) = n /\ DOMAIN Block(a, n) = 1..n
         /\ Append(Block(a, n), a + n) = Block(a, n + 1)
         /\ Block(a, 0) = <<>>
         /\ \A i \in 1..n : Block(a, n)[i] = a + i - 1
         /\ n > 0 => Head(Block(a, n)) = a
<1>1. Block(a, n) \in Seq(Int) /\ Len(Block(a, n)) = n
  BY DEF Block
<1>2. Append(Block(a, n), a + n) = Block(a, n + 1)
  <2> DEFINE b == Append(Block(a, n), a + n)
  <2>1. b = [i \in 1..(n + 1) |-> IF i = n + 1 THEN a + n ELSE Block(a, n)[i]]
    BY <1>1
  <2>2. \A i \in 1..(n + 1) : (IF i = n + 1 THEN a + n ELSE Block(a, n)[i]) = a + i - 1
    BY DEF Block
  <2>3. b = [i \in 1..(n + 1) |-> a + i - 1]
    BY <2>1, <2>2
  <2> QED BY <2>3 DEF Block
<1>3. \A i \in 1..n : Block(a, n)[i] = a + i - 1
  BY DEF Block
<1>4. Block(a, 0) = <<>>
  BY DEF Block
<1>5. DOMAIN Block(a, n) = 1..n
  BY DEF Block
<1>6. n > 0 => Head(Block(a, n)) = a
  BY <1>1, <1>3
<1> QED BY <1>1, <1>2, <1>3, <1>4, <1>5, <1>6

\* After column c: the run ends at c, every run found is a block of two columns or
\* more that belong and that no other adjoins, and two columns side by side that
\* belong are in a run.
Belong(s, r, B, a, n) == \A d \in a..(a + n - 1) : <<s, r, d>> \in B
Found(s, r, B, runs) == \A run \in runs : \E a \in Nat \ {0}, n \in Nat :
                          /\ n >= 2 /\ run = Block(a, n) /\ Belong(s, r, B, a, n)
                          /\ a - 1 > 0 => <<s, r, a - 1>> \notin B
                          /\ <<s, r, a + n>> \notin B
Covered(runs, d) == \E a \in Nat \ {0}, n \in Nat :
                      Block(a, n) \in runs /\ a <= d /\ d + 1 <= a + n - 1
Pair(s, r, B, d) == <<s, r, d>> \in B /\ <<s, r, d + 1>> \in B
ScanInv(s, r, B, c, acc) ==
  \E n \in 0..c : /\ acc.run = Block(c - n + 1, n)
                  /\ Belong(s, r, B, c - n + 1, n)
                  /\ c - n > 0 => <<s, r, c - n>> \notin B
                  /\ Found(s, r, B, acc.runs)
                  /\ \A d \in 1..(c - 1) : Pair(s, r, B, d) =>
                       Covered(acc.runs, d) \/ d >= c - n + 1

LEMMA ScanKeeps ==
  ASSUME NEW s, NEW r, NEW B, NEW c \in Nat, NEW acc, ScanInv(s, r, B, c, acc)
  PROVE  ScanInv(s, r, B, c + 1, Scan(acc, c + 1, <<s, r, c + 1>> \in B))
<1>1. PICK n \in 0..c : /\ acc.run = Block(c - n + 1, n)
                        /\ Belong(s, r, B, c - n + 1, n)
                        /\ c - n > 0 => <<s, r, c - n>> \notin B
                        /\ Found(s, r, B, acc.runs)
                        /\ \A d \in 1..(c - 1) : Pair(s, r, B, d) =>
                             Covered(acc.runs, d) \/ d >= c - n + 1
  BY DEF ScanInv
<1> DEFINE a == c - n + 1
<1>2. /\ n \in Nat /\ n <= c /\ a \in Nat \ {0} /\ a + n = c + 1
      /\ a = (c + 1) - (n + 1) + 1 /\ (c + 1) - 1 = c
  OBVIOUS
<1>3. /\ Len(Block(a, n)) = n /\ Append(Block(a, n), c + 1) = Block(a, n + 1)
  <2>1. a \in Int
    BY <1>2
  <2> QED BY <1>2, <2>1, BlockFacts
<1>4. ASSUME NEW d \in 1..c, Pair(s, r, B, d), d # c
      PROVE  Covered(acc.runs, d) \/ d >= a
  <2>1. d \in 1..(c - 1)
    BY <1>4
  <2> QED BY <1>1, <1>4, <2>1
<1>5. CASE <<s, r, c + 1>> \in B
  <2> DEFINE new == [runs |-> acc.runs, run |-> Block(a, n + 1)]
  <2>1. Scan(acc, c + 1, <<s, r, c + 1>> \in B) = new
    BY <1>1, <1>3, <1>5 DEF Scan
  <2>2. Belong(s, r, B, a, n + 1)
    <3>1. \A d \in a..(a + n - 1) : <<s, r, d>> \in B
      BY <1>1 DEF Belong
    <3>2. ASSUME NEW d \in a..(a + (n + 1) - 1) PROVE <<s, r, d>> \in B
      <4>1. d \in a..(a + n - 1) \/ d = c + 1
        BY <1>2
      <4> QED BY <3>1, <4>1, <1>5
    <3> QED BY <3>2 DEF Belong
  <2>3. \A d \in 1..((c + 1) - 1) : Pair(s, r, B, d) => Covered(acc.runs, d) \/ d >= a
    <3>1. ASSUME c > 0, Pair(s, r, B, c) PROVE c >= a
      <4>1. n = 0 => <<s, r, c>> \notin B
        BY <1>1, <1>2, <3>1
      <4>2. n > 0 => c >= a
        BY <1>2
      <4> QED BY <3>1, <4>1, <4>2, <1>2 DEF Pair
    <3> QED BY <1>2, <1>4, <3>1
  <2>4. n + 1 \in 0..(c + 1) /\ (c + 1) - (n + 1) = c - n
    BY <1>2
  <2>5. new.runs = acc.runs /\ new.run = Block((c + 1) - (n + 1) + 1, n + 1)
    BY <1>2
  <2> HIDE DEF new, a
  <2>6. ScanInv(s, r, B, c + 1, new)
    BY <1>1, <1>2, <2>2, <2>3, <2>4, <2>5 DEF ScanInv
  <2> QED BY <2>1, <2>6
<1>6. CASE <<s, r, c + 1>> \notin B
  <2> DEFINE b == Block(a, n)
             all == IF n >= 2 THEN acc.runs \cup {b} ELSE acc.runs
             new == [runs |-> all, run |-> <<>>]
  <2>1. Scan(acc, c + 1, <<s, r, c + 1>> \in B) = new
    BY <1>1, <1>3, <1>6 DEF Scan
  <2>2. Found(s, r, B, all)
    <3>0. /\ a - 1 > 0 => <<s, r, a - 1>> \notin B
          /\ <<s, r, a + n>> \notin B
      <4>1. a - 1 = c - n /\ a + n = c + 1
        BY <1>2
      <4> HIDE DEF a
      <4> QED BY <1>1, <1>6, <4>1
    <3>1. n >= 2 => \E x \in Nat \ {0}, m \in Nat :
                      /\ m >= 2 /\ b = Block(x, m) /\ Belong(s, r, B, x, m)
                      /\ x - 1 > 0 => <<s, r, x - 1>> \notin B
                      /\ <<s, r, x + m>> \notin B
      <4>1. a \in Nat \ {0} /\ n \in Nat /\ b = Block(a, n) /\ Belong(s, r, B, a, n)
        BY <1>1, <1>2
      <4> HIDE DEF a, b
      <4> SUFFICES ASSUME n >= 2
                   PROVE  /\ n >= 2 /\ b = Block(a, n) /\ Belong(s, r, B, a, n)
                          /\ a - 1 > 0 => <<s, r, a - 1>> \notin B
                          /\ <<s, r, a + n>> \notin B
        BY <4>1, Zenon
      <4> QED BY <3>0, <4>1
    <3>2. Found(s, r, B, acc.runs)
      BY <1>1
    <3>3. \A run \in all : run \in acc.runs \/ (n >= 2 /\ run = b)
      OBVIOUS
    <3> HIDE DEF a, b, all
    <3>4. ASSUME NEW run \in all
          PROVE  \E x \in Nat \ {0}, m \in Nat :
                   /\ m >= 2 /\ run = Block(x, m) /\ Belong(s, r, B, x, m)
                   /\ x - 1 > 0 => <<s, r, x - 1>> \notin B
                   /\ <<s, r, x + m>> \notin B
      <4>1. CASE run \in acc.runs
        BY <3>2, <4>1 DEF Found
      <4>2. CASE n >= 2 /\ run = b
        BY <3>1, <4>2, Zenon
      <4> QED BY <3>3, <4>1, <4>2
    <3> QED BY <3>4, Zenon DEF Found
  <2>3. ASSUME NEW d \in 1..((c + 1) - 1), Pair(s, r, B, d) PROVE Covered(all, d)
    <3>1. d # c
      BY <1>6, <2>3 DEF Pair
    <3>2. d \in 1..c
      BY <1>2
    <3>3. CASE Covered(acc.runs, d)
      BY <3>3 DEF Covered
    <3>4. CASE d >= a
      <4>1. d + 1 <= a + n - 1 /\ n >= 2
        BY <1>2, <3>1, <3>2, <3>4
      <4>2. b \in all
        BY <4>1
      <4> HIDE DEF all
      <4> QED BY <1>2, <3>4, <4>1, <4>2 DEF Covered
    <3> QED BY <1>4, <2>3, <3>1, <3>2, <3>3, <3>4
  <2>4. <<>> = Block((c + 1) - 0 + 1, 0) /\ 0 \in 0..(c + 1)
    <3>1. (c + 1) - 0 + 1 \in Int /\ 0 \in Nat
      OBVIOUS
    <3> QED BY <3>1, BlockFacts
  <2>5. Belong(s, r, B, (c + 1) - 0 + 1, 0)
    BY DEF Belong
  <2>6. (c + 1) - 0 > 0 => <<s, r, (c + 1) - 0>> \notin B
    <3>1. (c + 1) - 0 = c + 1
      OBVIOUS
    <3> QED BY <1>6, <3>1
  <2>7. new.runs = all /\ new.run = <<>>
    OBVIOUS
  <2> HIDE DEF new, all, a
  <2>8. ScanInv(s, r, B, c + 1, new)
    <3>1. \A d \in 1..((c + 1) - 1) : Pair(s, r, B, d) =>
            Covered(new.runs, d) \/ d >= (c + 1) - 0 + 1
      BY <2>3, <2>7
    <3> QED BY <2>2, <2>4, <2>5, <2>6, <2>7, <3>1 DEF ScanInv
  <2> QED BY <2>1, <2>8
<1> QED BY <1>5, <1>6

\* The runs of a row are the blocks of two or more columns that belong and that no
\* other adjoins, and every two columns side by side that belong are in one, up to
\* the edge of the sheet.
LEMMA RunsFacts ==
  ASSUME NEW s, NEW r, NEW B, LastScanned(s) \in Nat,
         \A c \in Nat : <<s, r, c>> \in B => c # 0 /\ c < LastScanned(s)
  PROVE  /\ Found(s, r, B, RunsOf(s, r, B))
         /\ \A d \in Nat : Pair(s, r, B, d) => Covered(RunsOf(s, r, B), d)
<1> DEFINE last == LastScanned(s)
           acc(c) == Scans(s, r, B)[c]
           S == {c \in Nat : c <= last => ScanInv(s, r, B, c, acc(c))}
<1>1. /\ acc(0) = [runs |-> {}, run |-> <<>>]
      /\ \A c \in 1..last : acc(c) = Scan(acc(c - 1), c, <<s, r, c>> \in B)
  BY ScanSteps
<1> HIDE DEF acc
<1>2. 0 \in S
  <2>1. acc(0).runs = {} /\ acc(0).run = <<>>
    BY <1>1
  <2>2. <<>> = Block(0 - 0 + 1, 0)
    <3>1. 0 - 0 + 1 \in Int /\ 0 \in Nat
      OBVIOUS
    <3> QED BY <3>1, BlockFacts
  <2>3. Belong(s, r, B, 0 - 0 + 1, 0) /\ Found(s, r, B, {})
    BY DEF Belong, Found
  <2>4. 0 \in 0..0 /\ ~(0 - 0 > 0) /\ \A d \in 1..(0 - 1) : FALSE
    OBVIOUS
  <2>5. ScanInv(s, r, B, 0, acc(0))
    BY <2>1, <2>2, <2>3, <2>4 DEF ScanInv
  <2> QED BY <2>5
<1>3. ASSUME NEW c \in S PROVE c + 1 \in S
  <2> SUFFICES ASSUME c + 1 <= last PROVE ScanInv(s, r, B, c + 1, acc(c + 1))
    OBVIOUS
  <2>1. c \in Nat /\ ScanInv(s, r, B, c, acc(c)) /\ c + 1 \in 1..last /\ (c + 1) - 1 = c
    OBVIOUS
  <2>2. acc(c + 1) = Scan(acc(c), c + 1, <<s, r, c + 1>> \in B)
    BY <1>1, <2>1
  <2> QED BY <2>1, <2>2, ScanKeeps
<1>4. S = Nat
  BY <1>2, <1>3, InductionOnNat
<1>5. ScanInv(s, r, B, last, acc(last))
  BY <1>4
<1>6. PICK n \in 0..last :
        /\ acc(last).run = Block(last - n + 1, n)
        /\ Belong(s, r, B, last - n + 1, n)
        /\ last - n > 0 => <<s, r, last - n>> \notin B
        /\ Found(s, r, B, acc(last).runs)
        /\ \A d \in 1..(last - 1) : Pair(s, r, B, d) =>
             Covered(acc(last).runs, d) \/ d >= last - n + 1
  BY <1>5 DEF ScanInv
<1>7. n = 0
  <2>1. n > 0 => last \in (last - n + 1)..((last - n + 1) + n - 1)
    OBVIOUS
  <2>2. n > 0 => <<s, r, last>> \in B
    BY <1>6, <2>1 DEF Belong
  <2>3. <<s, r, last>> \notin B
    OBVIOUS
  <2> QED BY <2>2, <2>3
<1>8. ASSUME NEW d \in Nat, Pair(s, r, B, d) PROVE Covered(acc(last).runs, d)
  <2>1. d # 0 /\ d < last /\ d + 1 \in Nat /\ d + 1 < last
    BY <1>8 DEF Pair
  <2>2. d \in 1..(last - 1) /\ ~(d >= last - n + 1)
    BY <1>7, <2>1
  <2> QED BY <1>6, <1>8, <2>2
<1>9. RunsOf(s, r, B) = acc(last).runs
  BY DEF RunsOf, acc
<1> QED BY <1>6, <1>8, <1>9

-----------------------------------------------------------------------------
(* Shapes and copies. *)

LEMMA CornerShape ==
  ASSUME NEW k \in CellRef, NEW l \in CellRef, NEW p \in Place, NEW q \in Place
  PROVE  ShapeOf(k, p[2], p[3]) = ShapeOf(l, q[2], q[3]) <=> l = MovedCorner(k, p, q)
<1> DEFINE kr == IF k.rowabs THEN <<"R", k.row>> ELSE <<"R[]", k.row - p[2]>>
           kc == IF k.colabs THEN <<"C", k.col>> ELSE <<"C[]", k.col - p[3]>>
           lr == IF l.rowabs THEN <<"R", l.row>> ELSE <<"R[]", l.row - q[2]>>
           lc == IF l.colabs THEN <<"C", l.col>> ELSE <<"C[]", l.col - q[3]>>
           mr == IF k.rowabs THEN k.row ELSE k.row + q[2] - p[2]
           mc == IF k.colabs THEN k.col ELSE k.col + q[3] - p[3]
<1>1. p[2] \in Int /\ p[3] \in Int /\ q[2] \in Int /\ q[3] \in Int
  BY BoundAssumption DEF Place
<1>2. /\ k.row \in Int /\ k.col \in Int /\ k.rowabs \in BOOLEAN /\ k.colabs \in BOOLEAN
      /\ l.row \in Int /\ l.col \in Int /\ l.rowabs \in BOOLEAN /\ l.colabs \in BOOLEAN
  BY DEF CellRef
<1>3. l = [row |-> l.row, col |-> l.col, rowabs |-> l.rowabs, colabs |-> l.colabs]
  BY DEF CellRef
<1>4. MovedCorner(k, p, q) = [row |-> mr, col |-> mc, rowabs |-> k.rowabs, colabs |-> k.colabs]
  BY MovedCornerType
<1>5. l = MovedCorner(k, p, q) <=>
        l.row = mr /\ l.col = mc /\ l.rowabs = k.rowabs /\ l.colabs = k.colabs
  <2> HIDE DEF mr, mc
  <2> QED BY <1>3, <1>4
<1>6. kr = lr <=> l.rowabs = k.rowabs /\ l.row = mr
  BY <1>1, <1>2
<1>7. kc = lc <=> l.colabs = k.colabs /\ l.col = mc
  BY <1>1, <1>2
<1>8. /\ ShapeOf(k, p[2], p[3]) = <<kr, kc>>
      /\ ShapeOf(l, q[2], q[3]) = <<lr, lc>>
  BY DEF ShapeOf
<1> HIDE DEF kr, kc, lr, lc, mr, mc
<1> QED BY <1>5, <1>6, <1>7, <1>8

\* Two formulas have one shape exactly when each is the copy of the other.
LEMMA ShapeIsCopy ==
  ASSUME NEW f \in Seq(Token), NEW g \in Seq(Token), NEW p \in Place, NEW q \in Place
  PROVE  Shape(f, p) = Shape(g, q) <=> g = Moved(f, p, q, {"range"})
<1> DEFINE ranged(t, x) == [type |-> "range", sheet |-> t.sheet,
                            from |-> ShapeOf(t.from, x[2], x[3]),
                            to |-> ShapeOf(t.to, x[2], x[3])]
           part(t, x) == IF t.type = "range" THEN ranged(t, x) ELSE t
           m == Moved(f, p, q, {"range"})
<1>1. DOMAIN f = 1..Len(f) /\ DOMAIN g = 1..Len(g) /\ Len(f) \in Nat /\ Len(g) \in Nat
  OBVIOUS
<1>2. /\ Shape(f, p) = [i \in DOMAIN f |-> part(f[i], p)]
      /\ Shape(g, q) = [i \in DOMAIN g |-> part(g[i], q)]
  BY DEF Shape
<1>3. m = [i \in DOMAIN f |-> m[i]] /\ g = [i \in DOMAIN g |-> g[i]]
  BY DEF Moved
<1>4. ASSUME NEW i \in DOMAIN f, i \in DOMAIN g
      PROVE  part(f[i], p) = part(g[i], q) <=> g[i] = m[i]
  <2> DEFINE t == f[i]
             u == g[i]
  <2>1. t \in Token /\ u \in Token
    BY <1>4
  <2>2. /\ m[i].type = t.type
        /\ t.type # "range" => m[i] = t
        /\ t.type = "range" => m[i] =
             [type |-> "range", sheet |-> t.sheet,
              from |-> MovedCorner(t.from, p, q), to |-> MovedCorner(t.to, p, q)]
    <3> DEFINE kinds == {"range"}
    <3>1. /\ kinds \in SUBSET {"range", "whole"} /\ m = Moved(f, p, q, kinds)
          /\ \A y : y \in kinds <=> y = "range"
      OBVIOUS
    <3> HIDE DEF kinds, m
    <3>2. /\ m[i].type = t.type
          /\ t.type \notin kinds => m[i] = t
          /\ t.type \in kinds => m[i] =
               [type |-> t.type, sheet |-> t.sheet,
                from |-> MovedCorner(t.from, p, q), to |-> MovedCorner(t.to, p, q)]
      BY <1>1, <3>1, MovedToken
    <3> QED BY <3>1, <3>2
  <2> DEFINE n == m[i]
  <2> HIDE DEF t, u, m, n
  <2>3. /\ part(t, p).type = t.type /\ part(u, q).type = u.type
    BY DEF part, ranged
  <2>4. ASSUME t.type # "range" \/ u.type # "range"
        PROVE  part(t, p) = part(u, q) <=> u = n
    <3>1. t.type = u.type => t.type # "range" /\ part(t, p) = t /\ part(u, q) = u
      BY <2>4
    <3>2. t.type # u.type => part(t, p) # part(u, q) /\ u # n
      BY <2>2, <2>3 DEF n
    <3>3. t.type # "range" => n = t
      BY <2>2 DEF n
    <3> HIDE DEF part
    <3>4. CASE t.type = u.type
      BY <3>1, <3>3, <3>4
    <3>5. CASE t.type # u.type
      BY <3>2, <3>5
    <3> QED BY <3>4, <3>5
  <2>5. ASSUME t.type = "range", u.type = "range"
        PROVE  part(t, p) = part(u, q) <=> u = n
    <3>1. /\ t.sheet \in Nat /\ t.from \in CellRef /\ t.to \in CellRef
          /\ u.sheet \in Nat /\ u.from \in CellRef /\ u.to \in CellRef
      BY <2>1, <2>5, TokenFacts
    <3>2. u = [type |-> "range", sheet |-> u.sheet, from |-> u.from, to |-> u.to]
      BY <2>1, <2>5, TokenFacts
    <3>3. part(t, p) = part(u, q) <=>
            /\ t.sheet = u.sheet
            /\ ShapeOf(t.from, p[2], p[3]) = ShapeOf(u.from, q[2], q[3])
            /\ ShapeOf(t.to, p[2], p[3]) = ShapeOf(u.to, q[2], q[3])
      <4> DEFINE tf == ShapeOf(t.from, p[2], p[3])
                 tt == ShapeOf(t.to, p[2], p[3])
                 uf == ShapeOf(u.from, q[2], q[3])
                 ut == ShapeOf(u.to, q[2], q[3])
      <4>1. /\ part(t, p) = [type |-> "range", sheet |-> t.sheet, from |-> tf, to |-> tt]
            /\ part(u, q) = [type |-> "range", sheet |-> u.sheet, from |-> uf, to |-> ut]
        BY <2>5
      <4> HIDE DEF part, tf, tt, uf, ut
      <4>2. part(t, p) = part(u, q) <=> t.sheet = u.sheet /\ tf = uf /\ tt = ut
        BY <4>1
      <4> QED BY <4>2 DEF tf, tt, uf, ut
    <3>4. u = n <=> /\ t.sheet = u.sheet
                    /\ u.from = MovedCorner(t.from, p, q)
                    /\ u.to = MovedCorner(t.to, p, q)
      <4> DEFINE mf == MovedCorner(t.from, p, q)
                 mt == MovedCorner(t.to, p, q)
      <4>1. n = [type |-> "range", sheet |-> t.sheet, from |-> mf, to |-> mt]
        BY <2>2, <2>5 DEF n
      <4> HIDE DEF mf, mt
      <4>2. u = n <=> t.sheet = u.sheet /\ u.from = mf /\ u.to = mt
        BY <3>2, <4>1
      <4> QED BY <4>2 DEF mf, mt
    <3>5. /\ ShapeOf(t.from, p[2], p[3]) = ShapeOf(u.from, q[2], q[3])
               <=> u.from = MovedCorner(t.from, p, q)
          /\ ShapeOf(t.to, p[2], p[3]) = ShapeOf(u.to, q[2], q[3])
               <=> u.to = MovedCorner(t.to, p, q)
      BY <3>1, CornerShape
    <3> HIDE DEF part
    <3> QED BY <3>3, <3>4, <3>5
  <2> HIDE DEF part
  <2>6. part(t, p) = part(u, q) <=> u = n
    BY <2>4, <2>5
  <2> QED BY <2>6 DEF t, u, n
<1>5. Shape(f, p) = Shape(g, q) <=>
        DOMAIN f = DOMAIN g /\ \A i \in DOMAIN f : part(f[i], p) = part(g[i], q)
  <2> HIDE DEF part
  <2> QED BY <1>2
<1>6. g = m <=> DOMAIN f = DOMAIN g /\ \A i \in DOMAIN f : g[i] = m[i]
  <2> HIDE DEF m
  <2> QED BY <1>3
<1> HIDE DEF part, m
<1>7. Shape(f, p) = Shape(g, q) <=> g = m
  BY <1>4, <1>5, <1>6
<1> QED BY <1>7 DEF m

-----------------------------------------------------------------------------
(* Mixed shapes. *)

\* A function takes more than one value exactly when two arguments differ in it.
LEMMA ManyValues ==
  ASSUME NEW n \in Nat, NEW h, DOMAIN h = 1..n
  PROVE  Cardinality({h[i] : i \in 1..n}) > 1 <=> \E i, j \in 1..n : h[i] # h[j]
<1> DEFINE T == {h[i] : i \in 1..n}
           g == [i \in 1..n |-> h[i]]
<1>1. IsFiniteSet(T)
  <2>1. g \in Surjection(1..n, T)
    BY DEF Surjection
  <2>2. IsFiniteSet(1..n)
    BY FS_Interval
  <2> HIDE DEF T, g
  <2> QED BY <2>1, <2>2, FS_Surjection
<1>2. Cardinality(T) \in Nat
  BY <1>1, FS_CardinalityType
<1>3. ASSUME NEW i \in 1..n, NEW j \in 1..n, h[i] # h[j]
      PROVE  Cardinality(T) > 1
  <2>1. h[i] \in T /\ h[j] \in T
    OBVIOUS
  <2> HIDE DEF T
  <2>2. Cardinality(T) # 0
    BY <1>1, <2>1, FS_EmptySet
  <2>3. Cardinality(T) # 1
    <3> SUFFICES ASSUME Cardinality(T) = 1 PROVE FALSE
      OBVIOUS
    <3>1. PICK x : T = {x}
      BY <1>1, FS_Singleton
    <3> QED BY <1>3, <2>1, <3>1
  <2> QED BY <1>2, <2>2, <2>3
<1>4. ASSUME \A i, j \in 1..n : h[i] = h[j] PROVE Cardinality(T) <= 1
  <2>1. CASE n = 0
    <3>1. T = {}
      BY <2>1
    <3> HIDE DEF T
    <3> QED BY <3>1, FS_EmptySet
  <2>2. CASE n # 0
    <3>1. 1 \in 1..n
      BY <2>2
    <3>2. T = {h[1]}
      BY <1>4, <3>1
    <3>3. Cardinality({h[1]}) = 1
      BY FS_Singleton, ZenonT(30)
    <3> HIDE DEF T
    <3> QED BY <3>2, <3>3
  <2> QED BY <2>1, <2>2
<1> DEFINE c == Cardinality(T)
<1>5. c \in Nat /\ ((\E i, j \in 1..n : h[i] # h[j]) => c > 1)
  BY <1>2, <1>3
<1>6. (\A i, j \in 1..n : h[i] = h[j]) => c <= 1
  BY <1>4
<1>7. c > 1 <=> \E i, j \in 1..n : h[i] # h[j]
  <2> HIDE DEF c
  <2> QED BY <1>5, <1>6
<1> QED BY <1>7

\* Two that differ have two neighbours between them that differ.
LEMMA NeighboursDiffer ==
  ASSUME NEW n \in Nat, NEW h, NEW i \in 1..n, NEW j \in 1..n, h[i] # h[j]
  PROVE  \E k \in 1..(n - 1) : h[k] # h[k + 1]
<1> SUFFICES ASSUME \A k \in 1..(n - 1) : h[k] = h[k + 1] PROVE FALSE
  OBVIOUS
<1> DEFINE S == {k \in Nat : k + 1 <= n => h[k + 1] = h[1]}
<1>1. 0 \in S
  OBVIOUS
<1>2. ASSUME NEW k \in S PROVE k + 1 \in S
  <2> SUFFICES ASSUME (k + 1) + 1 <= n PROVE h[(k + 1) + 1] = h[1]
    OBVIOUS
  <2>1. k \in Nat /\ h[k + 1] = h[1] /\ k + 1 \in 1..(n - 1)
    OBVIOUS
  <2> QED BY <2>1
<1>3. S = Nat
  BY <1>1, <1>2, InductionOnNat
<1>4. ASSUME NEW k \in 1..n PROVE h[k] = h[1]
  <2>1. k - 1 \in Nat /\ (k - 1) + 1 = k
    OBVIOUS
  <2>2. k - 1 \in S
    BY <1>3, <2>1
  <2> QED BY <2>1, <2>2
<1> QED BY <1>4

\* The runs of a sheet, row by row.
LEMMA RunsByRow ==
  ASSUME NEW s, NEW B, NEW x
  PROVE  x \in Runs(s, B) <=>
           \E r \in 1..NumRows : \E run \in RunsOf(s, r, B) : x = [row |-> r, cols |-> run]
<1> DEFINE At(r) == {[row |-> r, cols |-> run] : run \in RunsOf(s, r, B)}
<1>1. Runs(s, B) = UNION {At(r) : r \in 1..NumRows}
  BY DEF Runs
<1>2. \A r : x \in At(r) <=> \E run \in RunsOf(s, r, B) : x = [row |-> r, cols |-> run]
  OBVIOUS
<1> HIDE DEF At
<1> QED BY <1>1, <1>2

\* What is known of the runs of cells that the sheet has.
LEMMA SheetRuns ==
  ASSUME StoredInv, NEW s, NEW r, NEW B, B \subseteq DOMAIN book
  PROVE  /\ Found(s, r, B, RunsOf(s, r, B))
         /\ \A d \in Nat : Pair(s, r, B, d) => Covered(RunsOf(s, r, B), d)
<1>1. LastScanned(s) = max_column(s) + 1 /\ max_column(s) \in Nat
  BY MaxColumn DEF LastScanned
<1>2. ASSUME NEW c \in Nat, <<s, r, c>> \in B PROVE c # 0 /\ c < LastScanned(s)
  <2> DEFINE p == <<s, r, c>>
  <2>1. p \in DOMAIN book /\ p[1] = s /\ p[3] = c
    BY <1>2
  <2>2. p \in Place /\ p \in Occupied(s)
    BY <2>1 DEF StoredInv, Occupied
  <2> HIDE DEF p
  <2>3. p[3] \in 1..NumCols
    BY <2>2 DEF Place
  <2>4. p[3] <= max_column(s)
    BY <2>2, MaxColumn
  <2> QED BY <1>1, <2>1, <2>3, <2>4, BoundAssumption
<1>3. LastScanned(s) \in Nat
  BY <1>1
<1> QED BY <1>2, <1>3, RunsFacts

\* The cells of a run, and the formula of each.
At(s, r, c) == <<s, r, c>>
FormulaOf(p) == book[p].formula
ShapeAt(p) == Shape(FormulaOf(p), p)

LEMMA ShapesDiffer ==
  ASSUME StoredInv, NEW p \in Formulas, NEW q \in Formulas
  PROVE  ShapeAt(p) # ShapeAt(q) <=> FormulaOf(q) # Moved(FormulaOf(p), p, q, {"range"})
<1>1. /\ FormulaOf(p) \in Seq(Token) /\ FormulaOf(q) \in Seq(Token)
      /\ p \in Place /\ q \in Place
  BY FormulaAt DEF Formula, FormulaOf
<1>2. Shape(FormulaOf(p), p) = Shape(FormulaOf(q), q) <=> FormulaOf(q) = Moved(FormulaOf(p), p, q, {"range"})
  BY <1>1, ShapeIsCopy
<1> QED BY <1>2 DEF ShapeAt

\* A run is reported when it holds two shapes.
RunAt(r, a, n) == [row |-> r, cols |-> Block(a, n)]

TwoShapes(s, r, a, n) ==
  \E i, j \in 1..n : ShapeAt(At(s, r, a + i - 1)) # ShapeAt(At(s, r, a + j - 1))

LEMMA RunReported ==
  ASSUME NEW s, NEW r, NEW a \in Nat \ {0}, NEW n \in Nat
  PROVE  RunAt(r, a, n) \in XL003(s) <=>
           RunAt(r, a, n) \in infer_formula_runs(s) /\ TwoShapes(s, r, a, n)
<1> DEFINE h == [i \in 1..n |-> ShapeAt(At(s, r, a + i - 1))]
           x == RunAt(r, a, n)
           y(i) == Shape(book[<<s, x.row, x.cols[i]>>].formula, <<s, x.row, x.cols[i]>>)
           T == {y(i) : i \in DOMAIN x.cols}
<1>1. /\ x.row = r /\ x.cols = Block(a, n)
      /\ DOMAIN Block(a, n) = 1..n /\ \A i \in 1..n : Block(a, n)[i] = a + i - 1
  <2>1. a \in Int
    OBVIOUS
  <2> QED BY <2>1, BlockFacts DEF RunAt
<1>2. T = {h[i] : i \in 1..n}
  <2>1. DOMAIN x.cols = 1..n
    BY <1>1
  <2>2. ASSUME NEW i \in 1..n
        PROVE  y(i) = h[i]
    <3>1. <<s, x.row, x.cols[i]>> = <<s, r, a + i - 1>>
      BY <1>1
    <3> QED BY <3>1 DEF ShapeAt, FormulaOf, At
  <2> HIDE DEF h, y
  <2> QED BY <2>1, <2>2
<1>3. DOMAIN h = 1..n
  OBVIOUS
<1>4. x \in XL003(s) <=> x \in infer_formula_runs(s) /\ Cardinality(T) > 1
  BY DEF XL003
<1>5. \A i \in 1..n : h[i] = ShapeAt(At(s, r, a + i - 1))
  OBVIOUS
<1> HIDE DEF h, T
<1>6. Cardinality({h[i] : i \in 1..n}) > 1 <=> \E i, j \in 1..n : h[i] # h[j]
  BY <1>3, ManyValues
<1>7. TwoShapes(s, r, a, n) <=> \E i, j \in 1..n : h[i] # h[j]
  BY <1>5 DEF TwoShapes
<1> QED BY <1>2, <1>4, <1>6, <1>7

\* Two formulas side by side in a row that are no copies of one another.
Mixed(s, r, d) == /\ Pair(s, r, Formulas, d)
                  /\ ShapeAt(At(s, r, d)) # ShapeAt(At(s, r, d + 1))

LEMMA MixedFound ==
  ASSUME StoredInv, NEW s \in Sheet, NEW r \in 1..NumRows
  PROVE  (\E run \in XL003(s) : run.row = r) <=> \E d \in Nat : Mixed(s, r, d)
<1> DEFINE runs == RunsOf(s, r, Formulas)
<1>1. Formulas \subseteq DOMAIN book
  BY DEF Formulas
<1>2. Found(s, r, Formulas, runs) /\ \A d \in Nat : Pair(s, r, Formulas, d) => Covered(runs, d)
  BY <1>1, SheetRuns
<1>3. infer_formula_runs(s) = Runs(s, Formulas)
  BY DEF infer_formula_runs
<1>4. ASSUME NEW x \in XL003(s), x.row = r
      PROVE  \E d \in Nat : Mixed(s, r, d)
  <2>1. x \in Runs(s, Formulas)
    BY <1>3 DEF XL003
  <2>2. PICK q \in 1..NumRows : \E run \in RunsOf(s, q, Formulas) : x = [row |-> q, cols |-> run]
    BY <2>1, RunsByRow
  <2>3. PICK run \in runs : x = [row |-> r, cols |-> run]
    BY <2>2, <1>4
  <2>4. PICK a \in Nat \ {0}, n \in Nat :
          n >= 2 /\ run = Block(a, n) /\ Belong(s, r, Formulas, a, n)
    BY <1>2, <2>3 DEF Found
  <2> DEFINE h == [i \in 1..n |-> ShapeAt(At(s, r, a + i - 1))]
  <2>5. PICK i, j \in 1..n :
          ShapeAt(At(s, r, a + i - 1)) # ShapeAt(At(s, r, a + j - 1))
    <3>1. RunAt(r, a, n) \in XL003(s)
      BY <2>3, <2>4 DEF RunAt
    <3>2. TwoShapes(s, r, a, n)
      BY <3>1, RunReported
    <3> QED BY <3>2 DEF TwoShapes
  <2>6. h[i] # h[j]
    BY <2>5
  <2>7. PICK k \in 1..(n - 1) : h[k] # h[k + 1]
    <3> HIDE DEF h
    <3> QED BY <2>6, NeighboursDiffer
  <2>8. /\ a + k - 1 \in Nat /\ a + (k + 1) - 1 = (a + k - 1) + 1
        /\ a + k - 1 \in a..(a + n - 1) /\ (a + k - 1) + 1 \in a..(a + n - 1)
        /\ k \in 1..n /\ k + 1 \in 1..n
    OBVIOUS
  <2>9. ShapeAt(At(s, r, a + k - 1)) # ShapeAt(At(s, r, (a + k - 1) + 1))
    BY <2>7, <2>8
  <2>10. Pair(s, r, Formulas, a + k - 1)
    BY <2>4, <2>8 DEF Belong, Pair
  <2> QED BY <2>8, <2>9, <2>10 DEF Mixed
<1>5. ASSUME NEW d \in Nat, Mixed(s, r, d)
      PROVE  \E x \in XL003(s) : x.row = r
  <2>1. PICK a \in Nat \ {0}, n \in Nat :
          Block(a, n) \in runs /\ a <= d /\ d + 1 <= a + n - 1
    BY <1>2, <1>5 DEF Mixed, Covered
  <2> DEFINE x == RunAt(r, a, n)
  <2>2. x \in infer_formula_runs(s) /\ x.row = r
    BY <1>3, <2>1, RunsByRow DEF RunAt
  <2>3. /\ d - a + 1 \in 1..n /\ d - a + 2 \in 1..n
        /\ a + (d - a + 1) - 1 = d /\ a + (d - a + 2) - 1 = d + 1
    BY <2>1
  <2>4. ShapeAt(At(s, r, a + (d - a + 1) - 1)) # ShapeAt(At(s, r, a + (d - a + 2) - 1))
    BY <1>5, <2>3 DEF Mixed
  <2>5. TwoShapes(s, r, a, n)
    BY <2>3, <2>4 DEF TwoShapes
  <2>6. x \in XL003(s)
    BY <2>2, <2>5, RunReported
  <2> QED BY <2>2, <2>6
<1> QED BY <1>4, <1>5

LEMMA MixedIsUncopied ==
  ASSUME StoredInv, NEW s \in Sheet, NEW r \in 1..NumRows
  PROVE  (\E d \in Nat : Mixed(s, r, d)) <=>
           \E p, q \in Formulas :
             /\ p[1] = s /\ q[1] = s /\ p[2] = r /\ q[2] = r /\ q[3] = p[3] + 1
             /\ book[q].formula # Moved(book[p].formula, p, q, {"range"})
<1>1. ASSUME NEW d \in Nat, Mixed(s, r, d)
      PROVE  \E p, q \in Formulas :
               /\ p[1] = s /\ q[1] = s /\ p[2] = r /\ q[2] = r /\ q[3] = p[3] + 1
               /\ book[q].formula # Moved(book[p].formula, p, q, {"range"})
  <2> DEFINE p == <<s, r, d>>
             q == <<s, r, d + 1>>
  <2>1. p \in Formulas /\ q \in Formulas /\ ShapeAt(p) # ShapeAt(q)
    BY <1>1 DEF Mixed, Pair, At
  <2>2. p[1] = s /\ q[1] = s /\ p[2] = r /\ q[2] = r /\ q[3] = p[3] + 1
    OBVIOUS
  <2> HIDE DEF p, q
  <2>3. book[q].formula # Moved(book[p].formula, p, q, {"range"})
    BY <2>1, ShapesDiffer DEF FormulaOf
  <2> QED BY <2>1, <2>2, <2>3
<1>2. ASSUME NEW p \in Formulas, NEW q \in Formulas,
             p[1] = s, q[1] = s, p[2] = r, q[2] = r, q[3] = p[3] + 1,
             book[q].formula # Moved(book[p].formula, p, q, {"range"})
      PROVE  \E d \in Nat : Mixed(s, r, d)
  <2>1. p \in Place /\ q \in Place
    BY FormulaAt
  <2>2. p = <<s, r, p[3]>> /\ q = <<s, r, p[3] + 1>> /\ p[3] \in Nat
    BY <1>2, <2>1, BoundAssumption DEF Place
  <2>3. ShapeAt(p) # ShapeAt(q)
    BY <1>2, ShapesDiffer DEF FormulaOf
  <2>4. Mixed(s, r, p[3])
    BY <2>2, <2>3 DEF Mixed, Pair, At
  <2> QED BY <2>2, <2>4
<1> QED BY <1>1, <1>2

\* A row is reported for mixed shapes exactly when two formulas side by side in
\* it are not copies of one another: on sheets of any size, at the edge as well.
THEOREM MixedRunsAreFound == Spec => []MixedRunsFound
<1>1. StoredInv => MixedRunsFound
  BY MixedFound, MixedIsUncopied DEF MixedRunsFound
<1> QED BY <1>1, StoredIsWellFormed, PTL

-----------------------------------------------------------------------------
(* Headers and axes. *)

PeriodCells(s) == {p \in Occupied(s) : book[p].value \in Period}

LEMMA PeriodAt ==
  ASSUME NEW s, NEW r, NEW c
  PROVE  <<s, r, c>> \in PeriodCells(s) <=> IsPeriod(s, r, c)
<1> DEFINE p == <<s, r, c>>
<1>1. p[1] = s
  OBVIOUS
<1> HIDE DEF p
<1>2. p \in PeriodCells(s) <=> p \in DOMAIN book /\ book[p].value \in Period
  BY <1>1 DEF PeriodCells, Occupied
<1> QED BY <1>2 DEF p, IsPeriod

LEMMA PeriodPlace ==
  ASSUME StoredInv, NEW s, NEW r, NEW c, IsPeriod(s, r, c)
  PROVE  r \in 1..NumRows /\ c \in 1..NumCols
<1> DEFINE p == <<s, r, c>>
<1>1. p \in Place /\ p[2] = r /\ p[3] = c
  BY DEF IsPeriod, StoredInv
<1> HIDE DEF p
<1> QED BY <1>1 DEF Place

\* The columns that a header takes, as an axis of its sheet.
Width(h) == h.last - h.first + 1
AxisOf(h) == RunAt(h.row, h.first, Width(h))

LEMMA HeaderFields ==
  ASSUME NEW s, NEW h \in HeadersOf(s)
  PROVE  /\ h = [row |-> h.row, first |-> h.first, last |-> h.last]
         /\ h.row \in 1..NumRows /\ h.row \in Nat
         /\ h.first \in 1..NumCols /\ h.first \in Nat \ {0}
         /\ h.last \in 1..NumCols /\ h.last \in Nat
         /\ IsHeader(s, h) /\ h.first < h.last
         /\ Width(h) \in Nat /\ Width(h) >= 2 /\ h.first + Width(h) - 1 = h.last
<1>1. h \in [row : 1..NumRows, first : 1..NumCols, last : 1..NumCols] /\ IsHeader(s, h)
  BY DEF HeadersOf
<1>2. /\ h = [row |-> h.row, first |-> h.first, last |-> h.last]
      /\ h.row \in 1..NumRows /\ h.first \in 1..NumCols /\ h.last \in 1..NumCols
  BY <1>1
<1>3. h.first < h.last
  BY <1>1 DEF IsHeader
<1>4. h.row \in Nat /\ h.first \in Nat \ {0} /\ h.last \in Nat
  BY <1>2, BoundAssumption
<1>5. Width(h) \in Nat /\ Width(h) >= 2 /\ h.first + Width(h) - 1 = h.last
  BY <1>3, <1>4 DEF Width
<1> QED BY <1>1, <1>2, <1>3, <1>4, <1>5

\* An axis that is found is a header.
LEMMA AxisIsHeader ==
  ASSUME StoredInv, NEW s, NEW x \in detect_period_axes(s)
  PROVE  \E h \in HeadersOf(s) : x = AxisOf(h)
<1> DEFINE B == PeriodCells(s)
<1>1. B \subseteq DOMAIN book /\ detect_period_axes(s) = Runs(s, B)
  BY DEF PeriodCells, Occupied, detect_period_axes
<1>2. PICK r \in 1..NumRows : \E run \in RunsOf(s, r, B) : x = [row |-> r, cols |-> run]
  BY <1>1, RunsByRow
<1>3. PICK run \in RunsOf(s, r, B) : x = [row |-> r, cols |-> run]
  BY <1>2
<1>4. Found(s, r, B, RunsOf(s, r, B))
  BY <1>1, SheetRuns
<1>5. PICK a \in Nat \ {0}, n \in Nat :
        /\ n >= 2 /\ run = Block(a, n) /\ Belong(s, r, B, a, n)
        /\ a - 1 > 0 => <<s, r, a - 1>> \notin B
        /\ <<s, r, a + n>> \notin B
  BY <1>3, <1>4 DEF Found
<1> DEFINE z == a + n - 1
           h == [row |-> r, first |-> a, last |-> z]
<1>6. z \in Nat /\ a < z /\ z - a + 1 = n /\ z + 1 = a + n /\ a \in a..z /\ z \in a..z
  BY <1>5
<1>7. \A c \in a..z : IsPeriod(s, r, c)
  BY <1>5, PeriodAt DEF Belong
<1> HIDE DEF z
<1>8. a \in 1..NumCols /\ z \in 1..NumCols
  BY <1>6, <1>7, PeriodPlace
<1>9. ~IsPeriod(s, r, a - 1)
  <2> SUFFICES ASSUME IsPeriod(s, r, a - 1) PROVE FALSE
    OBVIOUS
  <2>1. a - 1 \in 1..NumCols
    BY PeriodPlace
  <2>2. a - 1 > 0
    BY <2>1
  <2> QED BY <1>5, <2>2, PeriodAt
<1>10. ~IsPeriod(s, r, z + 1)
  BY <1>5, <1>6, PeriodAt
<1>11. h.row = r /\ h.first = a /\ h.last = z
  OBVIOUS
<1>12. h \in [row : 1..NumRows, first : 1..NumCols, last : 1..NumCols]
  BY <1>8
<1> HIDE DEF h
<1>13. h \in HeadersOf(s)
  BY <1>6, <1>7, <1>9, <1>10, <1>11, <1>12 DEF HeadersOf, IsHeader
<1>14. AxisOf(h) = RunAt(r, a, n)
  BY <1>6, <1>11 DEF AxisOf, Width
<1>15. x = RunAt(r, a, n)
  BY <1>3, <1>5 DEF RunAt
<1> QED BY <1>13, <1>14, <1>15

\* Every header is found as an axis, at the edge of the sheet as well.
LEMMA HeaderIsAxis ==
  ASSUME StoredInv, NEW s, NEW h \in HeadersOf(s)
  PROVE  AxisOf(h) \in detect_period_axes(s)
<1> DEFINE B == PeriodCells(s)
           r == h.row
           f == h.first
           z == h.last
<1>1. B \subseteq DOMAIN book /\ detect_period_axes(s) = Runs(s, B)
  BY DEF PeriodCells, Occupied, detect_period_axes
<1>2. r \in 1..NumRows /\ f \in Nat \ {0} /\ z \in Nat /\ f < z
  BY HeaderFields
<1>3. /\ \A c \in f..z : IsPeriod(s, r, c)
      /\ ~IsPeriod(s, r, f - 1) /\ ~IsPeriod(s, r, z + 1)
  BY HeaderFields DEF IsHeader
<1>4. AxisOf(h) = RunAt(r, f, z - f + 1)
  BY DEF AxisOf, Width
<1> HIDE DEF r, f, z
<1>5. f \in f..z /\ f + 1 \in f..z
  BY <1>2
<1>6. Pair(s, r, B, f)
  BY <1>3, <1>5, PeriodAt DEF Pair
<1>7. Found(s, r, B, RunsOf(s, r, B)) /\ Covered(RunsOf(s, r, B), f)
  BY <1>1, <1>2, <1>6, SheetRuns
<1>8. PICK a \in Nat \ {0}, n \in Nat :
        Block(a, n) \in RunsOf(s, r, B) /\ a <= f /\ f + 1 <= a + n - 1
  BY <1>7 DEF Covered
<1>9. PICK b \in Nat \ {0}, m \in Nat :
        /\ m >= 2 /\ Block(a, n) = Block(b, m) /\ Belong(s, r, B, b, m)
        /\ b - 1 > 0 => <<s, r, b - 1>> \notin B
        /\ <<s, r, b + m>> \notin B
  BY <1>7, <1>8 DEF Found
<1>10. a = b /\ n = m
  <2>1. a \in Int /\ b \in Int /\ n > 0 /\ m > 0
    BY <1>2, <1>8, <1>9
  <2>2. Len(Block(a, n)) = n /\ Head(Block(a, n)) = a
    BY <2>1, BlockFacts
  <2>3. Len(Block(b, m)) = m /\ Head(Block(b, m)) = b
    BY <2>1, BlockFacts
  <2> QED BY <1>9, <2>2, <2>3
<1>11. \A c \in a..(a + n - 1) : IsPeriod(s, r, c)
  BY <1>9, <1>10, PeriodAt DEF Belong
<1>12. ~IsPeriod(s, r, a + n)
  BY <1>9, <1>10, PeriodAt
<1>13. a = f
  <2>1. a < f => f - 1 \in a..(a + n - 1)
    BY <1>2, <1>8
  <2>2. ~(a < f)
    BY <1>3, <1>11, <2>1
  <2> QED BY <1>2, <1>8, <2>2
<1>14. z = a + n - 1
  <2>1. z < a + n - 1 => z + 1 \in a..(a + n - 1)
    BY <1>2, <1>13
  <2>2. z > a + n - 1 => a + n \in f..z
    BY <1>2, <1>8
  <2>3. ~(z < a + n - 1)
    BY <1>3, <1>11, <2>1
  <2>4. ~(z > a + n - 1)
    BY <1>3, <1>12, <2>2
  <2> QED BY <1>2, <1>8, <2>3, <2>4
<1>15. z - f + 1 = n
  BY <1>2, <1>8, <1>13, <1>14
<1>16. RunAt(r, a, n) \in detect_period_axes(s)
  BY <1>1, <1>2, <1>8, RunsByRow DEF RunAt
<1> QED BY <1>4, <1>13, <1>15, <1>16

-----------------------------------------------------------------------------
(* The axis of a sheet that has several. *)

LEMMA AxisShape ==
  ASSUME StoredInv, NEW s, NEW x \in detect_period_axes(s)
  PROVE  \E r \in 1..NumRows, a \in Nat \ {0}, n \in 2..NumCols : x = RunAt(r, a, n)
<1>1. PICK h \in HeadersOf(s) : x = AxisOf(h)
  BY AxisIsHeader
<1>2. /\ h.row \in 1..NumRows /\ h.first \in Nat \ {0} /\ h.last \in 1..NumCols
      /\ Width(h) \in Nat /\ Width(h) >= 2 /\ h.first + Width(h) - 1 = h.last
  BY HeaderFields
<1>3. Width(h) \in 2..NumCols
  BY <1>2, BoundAssumption
<1> QED BY <1>1, <1>2, <1>3 DEF AxisOf

\* How two axes compare.
LEMMA AxesInOrder ==
  ASSUME NEW r \in Nat, NEW a \in Nat, NEW n \in Nat \ {0},
         NEW q \in Nat, NEW b \in Nat, NEW m \in Nat \ {0}
  PROVE  Before(RunAt(r, a, n), RunAt(q, b, m)) <=>
           \/ n > m
           \/ n = m /\ r < q
           \/ n = m /\ r = q /\ a <= b
<1> DEFINE x == RunAt(r, a, n)
           y == RunAt(q, b, m)
<1>1. /\ x.row = r /\ x.cols = Block(a, n)
      /\ y.row = q /\ y.cols = Block(b, m)
  BY DEF RunAt
<1>2. a \in Int /\ b \in Int /\ n \in Nat /\ m \in Nat /\ n > 0 /\ m > 0
  OBVIOUS
<1>3. /\ Len(x.cols) = n /\ Head(x.cols) = a
      /\ Len(y.cols) = m /\ Head(y.cols) = b
  <2>1. Len(Block(a, n)) = n /\ Head(Block(a, n)) = a
    BY <1>2, BlockFacts
  <2>2. Len(Block(b, m)) = m /\ Head(Block(b, m)) = b
    BY <1>2, BlockFacts
  <2> HIDE DEF x, y
  <2> QED BY <1>1, <2>1, <2>2
<1>4. Before(x, y) <=> \/ n > m
                       \/ n = m /\ (r < q \/ (r = q /\ a <= b))
  BY <1>1, <1>3 DEF Before
<1> HIDE DEF x, y
<1>5. Before(x, y) <=> \/ n > m
                       \/ n = m /\ r < q
                       \/ n = m /\ r = q /\ a <= b
  BY <1>4
<1> QED BY <1>5 DEF x, y

\* One axis comes before all the others.
First(s, x) == /\ x \in detect_period_axes(s)
               /\ \A y \in detect_period_axes(s) : Before(x, y) /\ (Before(y, x) => y = x)

LEMMA FirstExists ==
  ASSUME StoredInv, NEW s, detect_period_axes(s) # {}
  PROVE  \E x : First(s, x)
<1> DEFINE axes == detect_period_axes(s)
           last == NumCols
           Is(r, a, n) == RunAt(r, a, n) \in axes
           N == {n \in 0..last : \E r, a \in Nat : Is(r, a, n)}
<1>1. last \in Nat
  BY BoundAssumption
<1>2. ASSUME NEW y \in axes
      PROVE  \E r, a \in Nat, n \in 2..last : y = RunAt(r, a, n) /\ Is(r, a, n)
  BY AxisShape
<1> HIDE DEF axes, last
<1>3. N # {}
  <2>1. PICK y : y \in axes
    BY DEF axes
  <2>2. PICK r, a \in Nat, n \in 2..last : Is(r, a, n)
    BY <1>2, <2>1
  <2>3. n \in 0..last
    BY <1>1
  <2> HIDE DEF Is
  <2> QED BY <2>2, <2>3
<1> HIDE DEF Is
<1>4. PICK n \in N : \A k \in N : k <= n
  <2>1. N \in SUBSET (0..last)
    OBVIOUS
  <2> HIDE DEF N
  <2> QED BY <1>1, <1>3, <2>1, GreatestElement
<1> DEFINE R == {r \in Nat : \E a \in Nat : Is(r, a, n)}
<1>5. PICK r \in R : \A k \in R : r <= k
  <2>1. R \in SUBSET Nat /\ R # {}
    BY <1>4
  <2> HIDE DEF R
  <2> QED BY <2>1, LeastElement
<1> DEFINE A == {a \in Nat : Is(r, a, n)}
<1>6. PICK a \in A : \A k \in A : a <= k
  <2>1. A \in SUBSET Nat /\ A # {}
    BY <1>5
  <2> HIDE DEF A
  <2> QED BY <2>1, LeastElement
<1>7. r \in Nat /\ a \in Nat /\ n \in 0..last /\ Is(r, a, n)
  BY <1>4, <1>5, <1>6
<1> DEFINE x == RunAt(r, a, n)
<1>8. ASSUME NEW y \in axes
      PROVE  Before(x, y) /\ (Before(y, x) => y = x)
  <2>1. PICK q, b \in Nat, m \in 2..last : y = RunAt(q, b, m) /\ Is(q, b, m)
    BY <1>2
  <2>2. m \in 0..last
    BY <1>1
  <2>3. m \in N
    BY <2>1, <2>2
  <2>4. m <= n
    BY <1>4, <2>3
  <2>5. m = n => r <= q
    <3>1. m = n => q \in R
      BY <2>1
    <3> HIDE DEF R
    <3> QED BY <1>5, <3>1
  <2>6. m = n /\ q = r => a <= b
    <3>1. m = n /\ q = r => b \in A
      BY <2>1
    <3> HIDE DEF A
    <3> QED BY <1>6, <3>1
  <2>7. n \in Nat \ {0} /\ m \in Nat \ {0}
    BY <1>1, <1>7, <2>4
  <2>8. Before(x, y) <=> \/ n > m
                         \/ n = m /\ r < q
                         \/ n = m /\ r = q /\ a <= b
    BY <1>7, <2>1, <2>7, AxesInOrder, SMTT(30)
  <2>9. Before(y, x) <=> \/ m > n
                         \/ m = n /\ q < r
                         \/ m = n /\ q = r /\ b <= a
    BY <1>7, <2>1, <2>7, AxesInOrder, SMTT(30)
  <2>10. Before(x, y)
    BY <1>7, <2>1, <2>4, <2>5, <2>6, <2>7, <2>8
  <2>11. Before(y, x) => q = r /\ b = a /\ m = n
    BY <1>7, <2>1, <2>4, <2>5, <2>6, <2>7, <2>9
  <2> QED BY <2>1, <2>10, <2>11
<1>9. x \in axes
  BY <1>7 DEF Is
<1> HIDE DEF x
<1>10. First(s, x)
  BY <1>8, <1>9 DEF First, axes
<1> QED BY <1>10

LEMMA FirstIsDetected ==
  ASSUME StoredInv, NEW s, detect_period_axes(s) # {}
  PROVE  First(s, detect_period_axis(s))
<1> DEFINE axes == detect_period_axes(s)
           x == detect_period_axis(s)
<1>1. PICK y : First(s, y)
  BY FirstExists
<1>2. y \in axes /\ \A z \in axes : Before(y, z) /\ (Before(z, y) => z = y)
  BY <1>1 DEF First
<1>3. x = CHOOSE a \in axes : \A b \in axes : Before(a, b)
  BY DEF detect_period_axis
<1> HIDE DEF axes, x
<1>4. x \in axes /\ \A b \in axes : Before(x, b)
  BY <1>2, <1>3, Zenon
<1>5. x = y
  BY <1>2, <1>4
<1> QED BY <1>1, <1>5 DEF x

\* A sheet that has axes has one to be compared by: the longest, the topmost and
\* leftmost of equals; no other axis ranks with it, so the order in which the
\* axes were found decides nothing.  (detect_period_axis)
THEOREM AxisIsUnambiguous ==
  Spec => [](\A s \in Sheet : detect_period_axes(s) # {} => First(s, detect_period_axis(s)))
<1>1. StoredInv =>
        \A s \in Sheet : detect_period_axes(s) # {} => First(s, detect_period_axis(s))
  BY FirstIsDetected
<1> QED BY <1>1, StoredIsWellFormed, PTL

-----------------------------------------------------------------------------
(* Headers that agree. *)

LEMMA AxisFields ==
  ASSUME NEW s, NEW h \in HeadersOf(s)
  PROVE  /\ AxisOf(h).row = h.row /\ Head(AxisOf(h).cols) = h.first
         /\ DOMAIN AxisOf(h).cols = 1..Width(h)
         /\ \A i \in 1..Width(h) : AxisOf(h).cols[i] = h.first + (i - 1)
<1> DEFINE a == h.first
           n == Width(h)
<1>1. a \in Int /\ n \in Nat /\ n > 0
  BY HeaderFields
<1>2. AxisOf(h).row = h.row /\ AxisOf(h).cols = Block(a, n)
  BY DEF AxisOf, RunAt
<1> HIDE DEF a, n
<1>3. /\ Head(Block(a, n)) = a /\ DOMAIN Block(a, n) = 1..n
      /\ \A i \in 1..n : Block(a, n)[i] = a + i - 1
  BY <1>1, BlockFacts
<1>4. \A i \in 1..n : a + i - 1 = a + (i - 1)
  BY <1>1
<1> QED BY <1>2, <1>3, <1>4 DEF a, n

\* How the axes of two headers compare.
LEMMA HeadersInOrder ==
  ASSUME NEW s, NEW h \in HeadersOf(s), NEW k \in HeadersOf(s)
  PROVE  Before(AxisOf(h), AxisOf(k)) <=> ~Outranks(k, h)
<1> DEFINE n == Width(h)
           m == Width(k)
<1>1. /\ h.row \in Nat /\ h.first \in Nat /\ h.last \in Nat /\ n \in Nat \ {0}
      /\ k.row \in Nat /\ k.first \in Nat /\ k.last \in Nat /\ m \in Nat \ {0}
  BY HeaderFields
<1>2. Outranks(k, h) <=>
        \/ m > n
        \/ m = n /\ k.row < h.row
        \/ m = n /\ k.row = h.row /\ k.first < h.first
  BY <1>1 DEF Outranks, Width
<1>3. AxisOf(h) = RunAt(h.row, h.first, n) /\ AxisOf(k) = RunAt(k.row, k.first, m)
  BY DEF AxisOf
<1> DEFINE r == h.row
           a == h.first
           q == k.row
           b == k.first
<1> HIDE DEF n, m, r, a, q, b
<1>4. /\ r \in Nat /\ a \in Nat /\ n \in Nat \ {0}
      /\ q \in Nat /\ b \in Nat /\ m \in Nat \ {0}
  BY <1>1 DEF r, a, q, b
<1>5. Before(RunAt(r, a, n), RunAt(q, b, m)) <=>
        \/ n > m
        \/ n = m /\ r < q
        \/ n = m /\ r = q /\ a <= b
  BY <1>4, AxesInOrder
<1>6. Outranks(k, h) <=>
        \/ m > n
        \/ m = n /\ q < r
        \/ m = n /\ q = r /\ b < a
  BY <1>2 DEF r, a, q, b
<1>7. Before(RunAt(r, a, n), RunAt(q, b, m)) <=> ~Outranks(k, h)
  BY <1>4, <1>5, <1>6
<1> QED BY <1>3, <1>7 DEF r, a, q, b

LEMMA SameAxis ==
  ASSUME NEW s, NEW h \in HeadersOf(s), NEW k \in HeadersOf(s), AxisOf(h) = AxisOf(k)
  PROVE  h = k
<1>1. h.row = k.row /\ h.first = k.first
  BY AxisFields
<1>2. Width(h) \in Nat /\ Width(k) \in Nat
      /\ 1..Width(h) = 1..Width(k)
  BY AxisFields, HeaderFields
<1>3. Width(h) = Width(k)
  <2> DEFINE n == Width(h)
             m == Width(k)
  <2>1. n \in Nat /\ m \in Nat /\ n >= 2 /\ m >= 2 /\ 1..n = 1..m
    BY <1>2, HeaderFields
  <2> HIDE DEF n, m
  <2>2. n \in 1..m /\ m \in 1..n
    BY <2>1
  <2>3. n = m
    BY <2>1, <2>2
  <2> QED BY <2>3 DEF n, m
<1>4. h.last = k.last
  BY <1>1, <1>3, HeaderFields
<1> QED BY <1>1, <1>4, HeaderFields

\* The axis that a sheet is compared by is its main header.
LEMMA MainAxis ==
  ASSUME StoredInv, NEW s \in WithAxis
  PROVE  \E h \in HeadersOf(s) : MainHeaders(s) = {h} /\ detect_period_axis(s) = AxisOf(h)
<1> DEFINE x == detect_period_axis(s)
<1>1. First(s, x)
  BY FirstIsDetected DEF WithAxis
<1> HIDE DEF x
<1>2. PICK h \in HeadersOf(s) : x = AxisOf(h)
  BY <1>1, AxisIsHeader DEF First
<1>3. ASSUME NEW k \in HeadersOf(s)
      PROVE  ~Outranks(k, h) /\ (~Outranks(h, k) => k = h)
  <2>1. AxisOf(k) \in detect_period_axes(s)
    BY HeaderIsAxis
  <2>2. Before(x, AxisOf(k)) /\ (Before(AxisOf(k), x) => AxisOf(k) = x)
    BY <1>1, <2>1 DEF First
  <2>3. ~Outranks(k, h)
    BY <1>2, <2>2, HeadersInOrder
  <2>4. ~Outranks(h, k) => AxisOf(k) = AxisOf(h)
    BY <1>2, <2>2, HeadersInOrder
  <2> QED BY <2>3, <2>4, SameAxis
<1>4. MainHeaders(s) = {h}
  BY <1>3 DEF MainHeaders
<1> QED BY <1>2, <1>4 DEF x

LEMMA SameLabels ==
  ASSUME NEW s, NEW t, NEW h \in HeadersOf(s), NEW k \in HeadersOf(t)
  PROVE  labels(s, AxisOf(h)) = labels(t, AxisOf(k)) <=> SameHeader(s, h, t, k)
<1> DEFINE n == Width(h)
           m == Width(k)
           hv(d) == book[<<s, h.row, h.first + d>>].value
           kv(d) == book[<<t, k.row, k.first + d>>].value
<1>1. n \in Nat /\ m \in Nat /\ n >= 2 /\ m >= 2
  BY HeaderFields
<1>2. labels(s, AxisOf(h)) = [i \in 1..n |-> hv(i - 1)]
  <2>1. /\ AxisOf(h).row = h.row /\ DOMAIN AxisOf(h).cols = 1..n
        /\ \A i \in 1..n : AxisOf(h).cols[i] = h.first + (i - 1)
    BY AxisFields
  <2> QED BY <2>1 DEF labels
<1>3. labels(t, AxisOf(k)) = [i \in 1..m |-> kv(i - 1)]
  <2>1. /\ AxisOf(k).row = k.row /\ DOMAIN AxisOf(k).cols = 1..m
        /\ \A i \in 1..m : AxisOf(k).cols[i] = k.first + (i - 1)
    BY AxisFields
  <2> QED BY <2>1 DEF labels
<1>4. SameHeader(s, h, t, k) <=> n = m /\ \A d \in 0..(n - 1) : hv(d) = kv(d)
  <2>1. /\ h.last - h.first = n - 1 /\ k.last - k.first = m - 1
        /\ (n = m <=> n - 1 = m - 1)
    <3>1. h.first \in Nat /\ h.last \in Nat /\ k.first \in Nat /\ k.last \in Nat
      BY HeaderFields
    <3> QED BY <3>1 DEF Width
  <2> HIDE DEF n, m
  <2> QED BY <2>1 DEF SameHeader
<1> HIDE DEF n, m, hv, kv
<1>5. [i \in 1..n |-> hv(i - 1)] = [i \in 1..m |-> kv(i - 1)] <=>
        n = m /\ \A i \in 1..n : hv(i - 1) = kv(i - 1)
  <2> DEFINE H == [i \in 1..n |-> hv(i - 1)]
             K == [i \in 1..m |-> kv(i - 1)]
  <2>1. DOMAIN H = 1..n /\ DOMAIN K = 1..m
    OBVIOUS
  <2>2. /\ \A i \in 1..n : H[i] = hv(i - 1)
        /\ \A i \in 1..m : K[i] = kv(i - 1)
    OBVIOUS
  <2>3. 1..n = 1..m => n = m
    <3>1. 1..n = 1..m => n \in 1..m /\ m \in 1..n
      BY <1>1
    <3> QED BY <1>1, <3>1
  <2>4. ASSUME H = K PROVE n = m /\ \A i \in 1..n : hv(i - 1) = kv(i - 1)
    BY <2>1, <2>2, <2>3, <2>4
  <2>5. ASSUME n = m, \A i \in 1..n : hv(i - 1) = kv(i - 1) PROVE H = K
    BY <2>5
  <2> QED BY <2>4, <2>5
<1>6. (\A d \in 0..(n - 1) : hv(d) = kv(d)) <=> \A i \in 1..n : hv(i - 1) = kv(i - 1)
  <2>1. ASSUME \A d \in 0..(n - 1) : hv(d) = kv(d), NEW i \in 1..n PROVE hv(i - 1) = kv(i - 1)
    <3>1. i - 1 \in 0..(n - 1)
      BY <1>1
    <3> QED BY <2>1, <3>1
  <2>2. ASSUME \A i \in 1..n : hv(i - 1) = kv(i - 1), NEW d \in 0..(n - 1) PROVE hv(d) = kv(d)
    <3>1. d + 1 \in 1..n /\ (d + 1) - 1 = d
      BY <1>1
    <3>2. hv((d + 1) - 1) = kv((d + 1) - 1)
      BY <2>2, <3>1
    <3> QED BY <3>1, <3>2
  <2> QED BY <2>1, <2>2
<1> QED BY <1>2, <1>3, <1>4, <1>5, <1>6

\* What XL006 reports of two sheets.
Differ(s, t) == /\ s < t
                /\ \E h \in MainHeaders(s), k \in MainHeaders(t) :
                     SameHeader(s, h, t, k) /\ h.first # k.first

LEMMA PairReported ==
  ASSUME StoredInv, NEW s \in Sheet, NEW t \in Sheet
  PROVE  <<s, t>> \in XL006 <=> Differ(s, t)
<1> DEFINE pair == <<s, t>>
<1>1. pair[1] = s /\ pair[2] = t /\ (pair \in WithAxis \X WithAxis <=> s \in WithAxis /\ t \in WithAxis)
  OBVIOUS
<1> HIDE DEF pair
<1>2. pair \in XL006 <=>
        /\ s \in WithAxis /\ t \in WithAxis /\ s < t
        /\ labels(s, detect_period_axis(s)) = labels(t, detect_period_axis(t))
        /\ Head(detect_period_axis(s).cols) # Head(detect_period_axis(t).cols)
  BY <1>1 DEF XL006
<1>3. CASE s \in WithAxis /\ t \in WithAxis
  <2>1. PICK h \in HeadersOf(s) : MainHeaders(s) = {h} /\ detect_period_axis(s) = AxisOf(h)
    BY <1>3, MainAxis
  <2>2. PICK k \in HeadersOf(t) : MainHeaders(t) = {k} /\ detect_period_axis(t) = AxisOf(k)
    BY <1>3, MainAxis
  <2>3. Head(AxisOf(h).cols) = h.first /\ Head(AxisOf(k).cols) = k.first
    BY AxisFields
  <2>4. labels(s, AxisOf(h)) = labels(t, AxisOf(k)) <=> SameHeader(s, h, t, k)
    BY SameLabels
  <2>5. pair \in XL006 <=> s < t /\ SameHeader(s, h, t, k) /\ h.first # k.first
    BY <1>2, <1>3, <2>1, <2>2, <2>3, <2>4
  <2>6. Differ(s, t) <=> s < t /\ SameHeader(s, h, t, k) /\ h.first # k.first
    BY <2>1, <2>2 DEF Differ
  <2> QED BY <2>5, <2>6 DEF pair
<1>4. CASE ~(s \in WithAxis /\ t \in WithAxis)
  <2>1. ASSUME NEW x \in Sheet, x \notin WithAxis PROVE MainHeaders(x) = {}
    <3>1. detect_period_axes(x) = {}
      BY <2>1 DEF WithAxis
    <3>2. HeadersOf(x) = {}
      BY <3>1, HeaderIsAxis
    <3> QED BY <3>2 DEF MainHeaders
  <2>2. ~Differ(s, t)
    BY <1>4, <2>1 DEF Differ
  <2> QED BY <1>2, <1>4, <2>2 DEF pair
<1> QED BY <1>3, <1>4

LEMMA AxesCompared == StoredInv => AxesAgree
<1> SUFFICES ASSUME StoredInv PROVE AxesAgree
  OBVIOUS
<1> DEFINE Wanted == {pair \in Sheet \X Sheet : Differ(pair[1], pair[2])}
<1>1. XL006 \subseteq Sheet \X Sheet
  BY DEF XL006, WithAxis
<1>2. ASSUME NEW pair \in Sheet \X Sheet PROVE pair \in XL006 <=> Differ(pair[1], pair[2])
  <2>1. pair = <<pair[1], pair[2]>> /\ pair[1] \in Sheet /\ pair[2] \in Sheet
    OBVIOUS
  <2>2. <<pair[1], pair[2]>> \in XL006 <=> Differ(pair[1], pair[2])
    BY <2>1, PairReported
  <2> QED BY <2>1, <2>2
<1>3. XL006 = Wanted
  BY <1>1, <1>2
<1> QED BY <1>3 DEF AxesAgree, Differ

\* XL006 reports the pairs of sheets whose main headers read the same and start in
\* different columns, and no others: for headers of any width, and any number of
\* headers, sheets, rows and columns.
THEOREM AxesDoAgree == Spec => []AxesAgree
BY AxesCompared, StoredIsWellFormed, PTL

=============================================================================
