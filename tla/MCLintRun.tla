------------------------------ MODULE MCLintRun ------------------------------
(* Instance of LintRun for TLC: rule 1 is an ERROR that needs cached values
   (as XL004), rule 2 a WARN that needs none (as XL101). *)
EXTENDS LintRun

CONSTANTS c1, c2, budget

W(r, s, g, d) == [rule |-> r, scope |-> s, signed |-> g, expires |-> d]

\* A waiver for all of rule 1, one that runs out today, one nobody signed, one
\* for the place of its finding, one for another place, one with an empty field, one for the budgets.
SomeWaivers == {W(1, "*", "yes", 1), W(1, "*", "yes", 0), W(1, "*", "blank", 1),
                W(1, "cell", "yes", 0), W(1, "elsewhere", "yes", 1),
                W(1, "cell", "no", 1),
                W(budget, "*", "yes", 0)}

SomeSettings == {s \in [1..2 -> {"", "off", "warn", "error"}] :
                   s[1] # "error" /\ s[2] # "warn"}
OneRule == {1}
Places == {"cell"}
=============================================================================
