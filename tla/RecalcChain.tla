----------------------------- MODULE RecalcChain -----------------------------
(* The recalculation of one workbook by xllib (excel-library, recalc/): a
   private workspace, a pristine copy of the source for each backend that is
   offered the workbook, in the order formulas, LibreOffice, Excel, until one
   of them succeeds; and the clean-up that every way out must do.

   What is kept of a workbook is the cached value of each formula cell, and of
   the value only who computed it: "old" is what the source held before the
   run, NONE is no cached value at all. *)
EXTENDS Naturals, Sequences

CONSTANTS
  Cell,        \* the formula cells of the workbook
  NONE,        \* no cached value, no copy
  MaxPolls     \* bound: connection attempts before soffice's startup deadline

ASSUME ChainAssumption == MaxPolls \in Nat

VARIABLES
  source,      \* the input file: can it be read, and its cached values
  workspace,   \* does the temporary directory exist?
  copy,        \* cached values of the copy staged last
  engines,     \* spreadsheet applications running on behalf of this run
  attempts,    \* BackendAttempt records, one per backend consulted
  step,        \* where the run of the chain is
  polls        \* connection attempts of the LibreOffice backend

chainVars == <<source, workspace, copy, engines, attempts, step, polls>>

default_backends == <<"formulas", "libreoffice", "excel_com">>
Backend == {default_backends[i] : i \in 1..3}
Outcome == {"SUCCEEDED", "UNAVAILABLE", "FAILED"}

\* Who computed a cached value.
Origin == {NONE, "old"} \cup Backend
Cached == [Cell -> Origin]

\* Ends of the chain: a backend succeeded; RecalcFailed; another exception.
ChainEnds == {"done", "failed", "raised", "interrupted"}
ChainSteps == {"idle", "offer", "formulas", "check", "libreoffice", "connect",
               "open", "calculate", "stop", "excel_com", "workbook", "quit"}
                 \cup ChainEnds

ChainTypeOK ==
  /\ source \in [readable : BOOLEAN, cached : Cached]
  /\ workspace \in BOOLEAN
  /\ copy \in Cached \cup {NONE}
  /\ engines \subseteq {"soffice", "excel"}
  /\ attempts \in Seq([backend : Backend, outcome : Outcome])
  /\ Len(attempts) <= Len(default_backends)
  /\ step \in ChainSteps
  /\ polls \in 0..MaxPolls

ChainInit ==
  /\ source \in [readable : BOOLEAN, cached : [Cell -> {NONE, "old"}]]
  /\ workspace = FALSE
  /\ copy = NONE
  /\ engines = {}
  /\ attempts = <<>>
  /\ step = "idle"
  /\ polls = 0

-----------------------------------------------------------------------------
(* recalculate and _run_chain. *)

\* The backend whose turn it is.
AllConsulted == Len(attempts) = Len(default_backends)
turn == default_backends[Len(attempts) + 1]

Record(outcome) ==
  attempts' = Append(attempts, [backend |-> turn, outcome |-> outcome])

Recalculate ==
  /\ step = "idle"
  /\ workspace' = source.readable
  /\ step' = IF source.readable THEN "offer" ELSE "raised"
  /\ UNCHANGED <<source, copy, engines, attempts, polls>>

Unavailable ==
  /\ step = "offer" /\ ~AllConsulted
  /\ Record("UNAVAILABLE")
  /\ UNCHANGED <<source, workspace, copy, engines, step, polls>>

\* The copy is made afresh from the source for each backend; a source that is
\* gone by then ends the run.
StageCopy ==
  /\ step = "offer" /\ ~AllConsulted
  /\ IF source.readable
       THEN copy' = source.cached /\ step' = turn /\ UNCHANGED workspace
       ELSE step' = "raised" /\ workspace' = FALSE /\ UNCHANGED copy
  /\ UNCHANGED <<source, engines, attempts, polls>>

RaiseRecalcFailed ==
  /\ step = "offer" /\ AllConsulted
  /\ step' = "failed"
  /\ workspace' = FALSE
  /\ UNCHANGED <<source, copy, engines, attempts, polls>>

\* Any exception of a backend is a failed attempt: the chain goes on.
FailAttempt ==
  /\ Record("FAILED")
  /\ step' = "offer"
  /\ UNCHANGED <<source, workspace, polls>>

Succeed ==
  /\ Record("SUCCEEDED")
  /\ step' = "done"
  /\ UNCHANGED <<source, workspace, copy, polls>>

\* Variant: only Exception is cleaned up after.
InterruptKeeps ==
  /\ step \notin {"idle"} \cup ChainEnds
  /\ step' = "interrupted"
  /\ engines' = {}
  /\ UNCHANGED <<source, workspace, copy, attempts, polls>>

\* KeyboardInterrupt and the like are not caught by the chain: the finally
\* clauses stop the engine and recalculate removes the workspace.
Interrupt ==
  /\ step \notin {"idle"} \cup ChainEnds
  /\ step' = "interrupted"
  /\ engines' = {}
  /\ workspace' = FALSE
  /\ UNCHANGED <<source, copy, attempts, polls>>

-----------------------------------------------------------------------------
(* FormulasBackend: computed values are injected into the copy, which is
   replaced atomically; a formula cell that got none fails the attempt, after
   the others were written. *)

\* write_cached_values: cells without a value keep what they had.
WriteCached(values) ==
  copy' = [c \in Cell |-> IF c \in values THEN "formulas" ELSE copy[c]]

ComputeAndWrite ==
  /\ step = "formulas"
  /\ \E values \in SUBSET Cell : WriteCached(values)
  /\ step' = "check"
  /\ UNCHANGED <<source, workspace, engines, attempts, polls>>

FormulasRaises ==
  /\ step = "formulas"
  /\ FailAttempt
  /\ UNCHANGED <<copy, engines>>

\* Variant: what the application sees as computed counts, whoever wrote it.
UnwrittenBlank == {c \in Cell : copy[c] = NONE}

Unwritten == {c \in Cell : copy[c] # "formulas"}

CheckComplete ==
  /\ step = "check"
  /\ IF Unwritten = {} THEN Succeed ELSE FailAttempt /\ UNCHANGED copy
  /\ UNCHANGED engines

-----------------------------------------------------------------------------
(* LibreOfficeBackend: a private soffice, stopped on every way out. *)

StartOffice ==
  /\ step = "libreoffice"
  /\ engines' = engines \cup {"soffice"}
  /\ step' = "connect"
  /\ polls' = 0
  /\ UNCHANGED <<source, workspace, copy, attempts>>

OfficeNotStarted ==
  /\ step = "libreoffice"
  /\ FailAttempt
  /\ UNCHANGED <<copy, engines>>

\* Variant: the loop has no deadline.
NeverListening ==
  /\ step = "connect"
  /\ UNCHANGED <<source, workspace, copy, engines, attempts, step>>
  /\ polls' = 1 - polls

NotYetListening ==
  /\ step = "connect" /\ polls < MaxPolls
  /\ polls' = polls + 1
  /\ UNCHANGED <<source, workspace, copy, engines, attempts, step>>

Connected ==
  /\ step = "connect"
  /\ step' = "open"
  /\ UNCHANGED <<source, workspace, copy, engines, attempts, polls>>

OpenDocument ==
  /\ step = "open"
  /\ step' = "calculate"
  /\ UNCHANGED <<source, workspace, copy, engines, attempts, polls>>

\* What an application leaves in the file: its own value or, for a blank, none.
SavedBy(b) == \E blank \in SUBSET Cell :
  copy' = [c \in Cell |-> IF c \in blank THEN NONE ELSE b]

CalculateAndStore ==
  /\ step = "calculate"
  /\ SavedBy("libreoffice")
  /\ step' = "stop"
  /\ UNCHANGED <<source, workspace, engines, attempts, polls>>

\* Leaving _headless_instance stops the process, whether or not an exception
\* is passing through: at the deadline or when it died while starting, when it
\* opened no document, when calculateAll or store raised.
StopOffice ==
  /\ step = "stop"
  /\ engines' = engines \ {"soffice"}
  /\ Succeed

OfficeFails ==
  /\ step \in {"connect", "open", "calculate"}
  /\ engines' = engines \ {"soffice"}
  /\ FailAttempt
  /\ UNCHANGED copy

-----------------------------------------------------------------------------
(* ExcelComBackend: a private Excel, asked to quit on every way out. *)

DispatchExcel ==
  /\ step = "excel_com"
  /\ \/ engines' = engines \cup {"excel"} /\ step' = "workbook"
        /\ UNCHANGED <<source, workspace, attempts, polls>>
     \/ FailAttempt /\ UNCHANGED engines
  /\ UNCHANGED copy

SaveWorkbook ==
  /\ step = "workbook"
  /\ SavedBy("excel_com")
  /\ step' = "quit"
  /\ UNCHANGED <<source, workspace, engines, attempts, polls>>

QuitExcel ==
  /\ step = "quit"
  /\ engines' = engines \ {"excel"}
  /\ Succeed

\* Open, Save or Close raised.
ExcelFails ==
  /\ step \in {"workbook", "quit"}
  /\ engines' = engines \ {"excel"}
  /\ FailAttempt
  /\ UNCHANGED copy

\* Quit itself raises: Excel stays, and the attempt failed even if Save had
\* been done.
QuitRaises ==
  /\ step \in {"workbook", "quit"}
  /\ FailAttempt
  /\ UNCHANGED <<copy, engines>>

-----------------------------------------------------------------------------
\* RecalcResult.close: safe to call when there is nothing left to remove.
Close == workspace' = FALSE

FormulasStep == ComputeAndWrite \/ FormulasRaises \/ CheckComplete
OfficeStep == StartOffice \/ OfficeNotStarted \/ NotYetListening \/ Connected
                \/ OpenDocument \/ CalculateAndStore \/ StopOffice \/ OfficeFails
ExcelStep == DispatchExcel \/ SaveWorkbook \/ QuitExcel \/ ExcelFails \/ QuitRaises

ChainStep == \/ Recalculate \/ Unavailable \/ StageCopy \/ RaiseRecalcFailed
             \/ FormulasStep \/ OfficeStep \/ ExcelStep

\* The input is removed or locked by somebody else while the run goes on.
SourceLost ==
  /\ source.readable
  /\ source' = [source EXCEPT !.readable = FALSE]
  /\ UNCHANGED <<workspace, copy, engines, attempts, step, polls>>
=============================================================================
