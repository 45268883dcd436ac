------------------------------- MODULE LintRun -------------------------------
(* One `xllib lint` (excel-library, cli.py and lint/): the file is probed, the
   configuration read and put through the gates that guard it, the workbook
   recalculated on a private copy (RecalcChain), the copy (or, when every
   backend failed, the file itself) loaded, each rule that is not off run on it,
   and the exit code taken from the findings.  Midnight may pass between any
   two steps: waivers expire.

   A rule is a number, its place in RULES.  What its check finds in a workbook
   is left open here: at most one finding, anywhere, of either status (module
   WorkbookRules has the checks themselves). *)
EXTENDS RecalcChain, FiniteSets

CONSTANTS
  NumRules,    \* the registered rules
  ErrorRule,   \* those whose default severity is ERROR
  ValueRule,   \* those that require cached values
  Locus,       \* where a finding can be, as it is displayed
  Settings,    \* the severities a file may give to the rules
  Widenable,   \* the rules with an option that accepts more
  Waivers,     \* the waiver entries a file may hold
  MaxWaivers,  \* bound: entries of one file
  LastDay,     \* bound: last day of the run
  Budget       \* name of the budgets, a waiver's `rule` for raising one

Rule == 1..NumRules

ASSUME LintRunAssumption ==
  /\ NumRules \in Nat /\ LastDay \in Nat
  /\ ErrorRule \subseteq Rule /\ Widenable \subseteq Rule
  /\ Settings \subseteq [Rule -> {"", "off", "warn", "error"}]
  /\ NONE \notin Nat

Status == {"VIOLATION", "SKIPPED", "INFO"}

VARIABLES
  today,
  measure,     \* --measure was given
  file,        \* the xllib.toml in force, as written; NONE when there is none
  pc,          \* where the command is
  built,       \* the day Config was constructed
  workbook,    \* cached values of the workbook that was loaded
  rule,        \* next rule to run
  found,       \* what each rule's check returned (NONE: nothing)
  ranOn,       \* the day each rule was run
  findings,    \* the findings of the report
  exit         \* the exit code

lintVars == <<today, measure, file, pc, built, workbook, rule, found, ranOn,
              findings, exit>>
vars == <<chainVars, lintVars>>

\* An exception went through main: the interpreter's exit, not a code of main.
Traceback == 9

\* A file: severities ("" is the default, "off", "warn", "error"), rules with a
\* widening option, budgets raised, waivers, and whether it names a rule that is
\* not registered.  A waiver is [rule, scope, signed, expires]; signed tells a
\* named approver and a reason ("yes") from blanks and from empty fields ("no").
File == [severity : Settings, widened : SUBSET Widenable, raised : BOOLEAN,
         waivers : SUBSET Waivers, unknown : BOOLEAN]

DefaultFile == [severity |-> [r \in Rule |-> ""], widened |-> {}, raised |-> FALSE,
                waivers |-> {}, unknown |-> FALSE]
config == IF file = NONE THEN DefaultFile ELSE file

Finding == [rule : Rule, locus : Locus \cup {"Workbook"}, status : Status,
            severity : {"ERROR", "WARN"}, waived : BOOLEAN]
Found == [locus : Locus, status : {"VIOLATION", "INFO"}] \cup {NONE}

TypeOK ==
  /\ ChainTypeOK
  /\ today \in 0..LastDay
  /\ measure \in BOOLEAN
  /\ file \in File \cup {NONE}
  /\ pc \in {"probe", "measure", "read", "construct", "recalc", "rules", "end"}
  /\ built \in 0..LastDay \cup {NONE}
  /\ workbook \in Cached \cup {NONE}
  /\ rule \in 1..(NumRules + 1)
  /\ found \in [Rule -> Found]
  /\ ranOn \in [Rule -> 0..LastDay \cup {NONE}]
  /\ findings \subseteq Finding
  /\ exit \in {NONE, 0, 1, 2, 3, Traceback}

Init ==
  /\ ChainInit
  /\ today = 0
  /\ measure \in BOOLEAN
  /\ \/ file = NONE
     \/ /\ file \in File
        /\ Cardinality(file.waivers) <= MaxWaivers
        /\ file.unknown => file = [DefaultFile EXCEPT !.unknown = TRUE]
  /\ pc = "probe"
  /\ built = NONE
  /\ workbook = NONE
  /\ rule = 1
  /\ found = [r \in Rule |-> NONE]
  /\ ranOn = [r \in Rule |-> NONE]
  /\ findings = {}
  /\ exit = NONE

-----------------------------------------------------------------------------
(* Waivers and gates: lint/config.py. *)

\* _waiver_defect: a good waiver names an approver and gives a reason that are
\* not blank, and has not expired.
Good(w, day) == w.signed = "yes" /\ w.expires >= day

\* _waivers: the file is refused for an entry with an empty field or an expired
\* date (a field of blanks is not empty).
Parses(w, day) == w.signed # "no" /\ w.expires >= day

\* Variant (a bug the gate once had): a waiver for one place authorises all.
AuthorisedAnyScope(day) == {w.rule : w \in {v \in config.waivers : Good(v, day)}}

\* _waiver_index: only a waiver of the whole rule authorises anything.
Authorised(day) == {w.rule : w \in {v \in config.waivers : v.scope = "*" /\ Good(v, day)}}

\* _reject_unwaived_silencing: switching a rule off, or lowering an ERROR one.
Silences(r) == \/ config.severity[r] = "off"
               \/ config.severity[r] = "warn" /\ r \in ErrorRule

\* _reject_unwaived_loosening
Loosens == config.widened \cup (IF config.raised THEN {Budget} ELSE {})

GatesPass(day) ==
  /\ {r \in Rule : Silences(r)} \subseteq Authorised(day)
  /\ Loosens \subseteq Authorised(day)

is_off(r) == config.severity[r] = "off"
\* Variant: the default is not filled in.
severity_as_written(r) == config.severity[r]

severity_for(r) == IF config.severity[r] = "" THEN
                     IF r \in ErrorRule THEN "ERROR" ELSE "WARN"
                   ELSE IF config.severity[r] = "warn" THEN "WARN" ELSE "ERROR"

\* waiver_for: a waiver of the rule for everything or for this place, good today.
waiver_for(r, locus, day) ==
  \E w \in config.waivers : w.rule = r /\ w.scope \in {"*", locus} /\ Good(w, day)

-----------------------------------------------------------------------------
(* The command. *)

Exits(code) == exit' = code /\ pc' = "end"

\* assert_readable, before anything else copies or opens the file.
Probe ==
  /\ pc = "probe"
  /\ IF source.readable
       THEN pc' = (IF measure THEN "measure" ELSE "read") /\ UNCHANGED exit
       ELSE Exits(3)
  /\ UNCHANGED <<chainVars, today, measure, file, built, workbook, rule, found,
                 ranOn, findings>>

\* --measure prints the metrics of the file and neither judges nor recalculates.
Measure ==
  /\ pc = "measure"
  /\ Exits(IF source.readable THEN 0 ELSE 3)
  /\ UNCHANGED <<chainVars, today, measure, file, built, workbook, rule, found,
                 ranOn, findings>>

\* load_config
LoadConfig ==
  /\ pc = "read"
  /\ IF /\ \A w \in config.waivers : Parses(w, today)
        /\ ~config.unknown
       THEN pc' = "construct" /\ UNCHANGED exit
       ELSE Exits(3)
  /\ UNCHANGED <<chainVars, today, measure, file, built, workbook, rule, found,
                 ranOn, findings>>

\* Config.__post_init__
ConstructConfig ==
  /\ pc = "construct"
  /\ IF GatesPass(today)
       THEN built' = today /\ pc' = "recalc" /\ UNCHANGED exit
       ELSE Exits(3) /\ UNCHANGED built
  /\ UNCHANGED <<chainVars, today, measure, file, workbook, rule, found, ranOn,
                 findings>>

RunChain ==
  /\ pc = "recalc"
  /\ ChainStep
  /\ UNCHANGED lintVars

\* load_workbook: the copy inside the `with`, the file itself after RecalcFailed.
LoadCopy ==
  /\ pc = "recalc" /\ step = "done"
  /\ workbook' = copy
  /\ pc' = "rules"
  /\ UNCHANGED <<chainVars, today, measure, file, built, rule, found, ranOn,
                 findings, exit>>

\* The copy a backend left cannot be loaded: closed by the `with`.  What is one
\* of UNREADABLE is exit 3, any other exception goes through.
CopyUnreadable ==
  /\ pc = "recalc" /\ step = "done"
  /\ Close
  /\ \E code \in {3, Traceback} : Exits(code)
  /\ UNCHANGED <<source, copy, engines, attempts, step, polls, today, measure,
                 file, built, workbook, rule, found, ranOn, findings>>

LoadSource ==
  /\ pc = "recalc" /\ step = "failed"
  /\ IF source.readable
       THEN workbook' = source.cached /\ pc' = "rules" /\ UNCHANGED exit
       ELSE Exits(3) /\ UNCHANGED workbook
  /\ UNCHANGED <<chainVars, today, measure, file, built, rule, found, ranOn,
                 findings>>

RecalcRaised ==
  /\ pc = "recalc" /\ step \in {"raised", "interrupted"}
  /\ Exits(IF step = "raised" THEN 3 ELSE Traceback)
  /\ UNCHANGED <<chainVars, today, measure, file, built, workbook, rule, found,
                 ranOn, findings>>

-----------------------------------------------------------------------------
(* lint(): rule by rule. *)

\* capabilities(): cached values count only when no formula cell lacks one.
CachedValues == \A c \in Cell : workbook[c] # NONE

Skipped(r) == r \in ValueRule /\ ~CachedValues

NextRule ==
  /\ rule' = rule + 1
  /\ UNCHANGED <<chainVars, today, measure, file, pc, built, workbook, exit>>

Running == pc = "rules" /\ rule <= NumRules

PassOver ==
  /\ Running /\ is_off(rule)
  /\ NextRule
  /\ UNCHANGED <<found, ranOn, findings>>

\* One SKIPPED finding, which no waiver can touch.
SkipRule ==
  /\ Running /\ ~is_off(rule) /\ Skipped(rule)
  /\ findings' = findings \cup
       {[rule |-> rule, locus |-> "Workbook", status |-> "SKIPPED",
         severity |-> severity_for(rule), waived |-> FALSE]}
  /\ NextRule
  /\ UNCHANGED <<found, ranOn>>

\* The severity is the configured one; a waiver in force turns the finding into
\* information.
Judge(r, f) ==
  LET waived == waiver_for(r, f.locus, today)
  IN [rule |-> r, locus |-> f.locus,
      status |-> IF waived THEN "INFO" ELSE f.status,
      severity |-> severity_for(r), waived |-> waived]

CheckRule ==
  /\ Running /\ ~is_off(rule) /\ ~Skipped(rule)
  /\ \E f \in Found :
       /\ found' = [found EXCEPT ![rule] = f]
       /\ findings' = IF f = NONE THEN findings ELSE findings \cup {Judge(rule, f)}
  /\ ranOn' = [ranOn EXCEPT ![rule] = today]
  /\ NextRule

\* A check raises, under the same two outcomes.
RuleRaises ==
  /\ Running /\ ~is_off(rule) /\ ~Skipped(rule)
  /\ Close
  /\ \E code \in {3, Traceback} : Exits(code)
  /\ UNCHANGED <<source, copy, engines, attempts, step, polls, today, measure,
                 file, built, workbook, rule, found, ranOn, findings>>

-----------------------------------------------------------------------------
(* The report. *)

errors == {f \in findings : f.status = "VIOLATION" /\ f.severity = "ERROR"}
skipped == {f \in findings : f.status = "SKIPPED"}
exit_code == IF errors # {} THEN 1 ELSE IF skipped # {} THEN 2 ELSE 0

PrintReport ==
  /\ pc = "rules" /\ rule > NumRules
  /\ Close
  /\ Exits(exit_code)
  /\ UNCHANGED <<source, copy, engines, attempts, step, polls, today, measure,
                 file, built, workbook, rule, found, ranOn, findings>>

-----------------------------------------------------------------------------
(* The surroundings: midnight, the user's other programs, Ctrl-C. *)

Midnight ==
  /\ pc # "end" /\ today < LastDay
  /\ today' = today + 1
  /\ UNCHANGED <<chainVars, measure, file, pc, built, workbook, rule, found,
                 ranOn, findings, exit>>

\* (Nothing reads the source once the workbook is loaded.)
LoseSource ==
  /\ pc \in {"probe", "measure", "read", "construct", "recalc"}
  /\ SourceLost
  /\ UNCHANGED lintVars

InterruptChain ==
  /\ pc = "recalc"
  /\ Interrupt
  /\ UNCHANGED lintVars

\* Ctrl-C while the workbook is loaded or a rule runs.
InterruptLint ==
  /\ pc \in {"recalc", "rules"} /\ step \in {"done", "failed"}
  /\ Close
  /\ Exits(Traceback)
  /\ UNCHANGED <<source, copy, engines, attempts, step, polls, today, measure,
                 file, built, workbook, rule, found, ranOn, findings>>

Command == \/ Probe \/ Measure \/ LoadConfig \/ ConstructConfig \/ RunChain
           \/ LoadCopy \/ CopyUnreadable \/ LoadSource \/ RecalcRaised
           \/ PassOver \/ SkipRule \/ CheckRule \/ RuleRaises \/ PrintReport

Surroundings == Midnight \/ LoseSource \/ InterruptChain \/ InterruptLint

Ended == pc = "end" /\ UNCHANGED vars

Next == Command \/ Surroundings \/ Ended

Spec == Init /\ [][Next]_vars

\* One command is one thread of control: it goes on as long as it can.
FairSpec == Spec /\ WF_vars(Command)

-----------------------------------------------------------------------------
(* Correctness. *)

Reported == pc = "end" /\ ~measure /\ exit \in {0, 1, 2}

Approved(r) == \E w \in config.waivers :
  w.rule = r /\ w.scope = "*" /\ w.signed = "yes" /\ w.expires >= built

Excused(r) == \E w \in config.waivers :
  /\ w.rule = r /\ w.scope \in {"*", found[r].locus}
  /\ w.signed = "yes" /\ w.expires >= ranOn[r]

\* Exit 0 is earned by every rule that is an error by default: either it ran,
\* on a complete set of values if it needs them, and what it found was no
\* violation or is excused by somebody's waiver for that place, in force the day
\* it ran; or somebody's waiver for the whole rule was in force when the
\* configuration that silences it was built.  What accepts more than the
\* defaults (a widened rule, a raised budget) has such a waiver too.
\* (report.exit_code, lint(), the two gates of Config.__post_init__)
ZeroIsEarned ==
  Reported /\ exit = 0 =>
    /\ \A r \in ErrorRule :
         \/ Approved(r)
         \/ /\ ranOn[r] # NONE
            /\ r \in ValueRule => \A c \in Cell : workbook[c] # NONE
            /\ \/ found[r] = NONE
               \/ found[r].status = "INFO"
               \/ Excused(r)
    /\ config.widened \subseteq {r \in Rule : Approved(r)}
    /\ config.raised => Approved(Budget)

\* The values that are judged are of one origin: those of the one backend that
\* succeeded, on a copy no failed attempt has touched, or, when all failed,
\* those the file came with.  (_run_chain, _stage_copy, write_cached_values)
OneEngineValues ==
  workbook # NONE =>
    LET values == {workbook[c] : c \in Cell} \ {NONE}
        winners == {attempts[i].backend : i \in {j \in DOMAIN attempts :
                                                   attempts[j].outcome = "SUCCEEDED"}}
    IN values \subseteq (IF winners = {} THEN {"old"} ELSE winners)

\* However the command ends, a Ctrl-C during the recalculation included, its
\* temporary workspace is gone and no soffice of its own runs on.
\* (recalculate, RecalcResult.close, _headless_instance)
NothingLeftBehind == pc = "end" => ~workspace /\ "soffice" \notin engines

\* Every command ends, also when LibreOffice never accepts a connection.
\* (_connect's deadline, _run_chain)
LintEnds == <>(pc = "end")
=============================================================================
