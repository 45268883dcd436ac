---------------------------- MODULE LintRun_proofs ----------------------------
(* Proofs about LintRun, for any rules, severities, options, budgets and
   waivers, any workbook, any deadline and any number of days. *)
EXTENDS LintRun, Integers, TLAPS

(* The chain.  Each backend works on a copy of its own; a copy that is offered
   as recalculated holds values of its backend only, and whatever was started
   belongs to the step the chain is in. *)

\* It is the turn of backend b.
Turn(b) == Len(attempts) < 3 /\ turn = b

\* The copy holds values of b only.
Of(b) == \A c \in Cell : copy[c] \in {NONE, b}

OfficeSteps == {"connect", "open", "calculate", "stop"}
BackendSteps == {"formulas", "check", "libreoffice", "excel_com", "workbook", "quit"} \cup OfficeSteps

TurnInv ==
  /\ step \in {"formulas", "check"} => Turn("formulas")
  /\ step \in {"libreoffice"} \cup OfficeSteps => Turn("libreoffice")
  /\ step \in {"excel_com", "workbook", "quit"} => Turn("excel_com")
  /\ step \in BackendSteps => copy \in Cached

ValueInv ==
  /\ \A c \in Cell : source.cached[c] \in {NONE, "old"}
  /\ step = "stop" => Of("libreoffice")
  /\ step = "quit" => Of("excel_com")
  /\ step = "done" => \E i \in DOMAIN attempts :
                        attempts[i].outcome = "SUCCEEDED" /\ Of(attempts[i].backend)
  /\ step # "done" => \A i \in DOMAIN attempts : attempts[i].outcome # "SUCCEEDED"

CleanInv ==
  /\ workspace => step \notin {"idle", "failed", "raised", "interrupted"}
  /\ "soffice" \in engines => step \in OfficeSteps

ChainInv == ChainTypeOK /\ TurnInv /\ ValueInv /\ CleanInv

-----------------------------------------------------------------------------

\* The three backends in their order.
LEMMA BackendFacts ==
  /\ Len(default_backends) = 3
  /\ default_backends[1] = "formulas" /\ default_backends[2] = "libreoffice"
  /\ default_backends[3] = "excel_com"
  /\ Backend = {"formulas", "libreoffice", "excel_com"}
<1>1. /\ Len(default_backends) = 3
      /\ default_backends[1] = "formulas" /\ default_backends[2] = "libreoffice"
      /\ default_backends[3] = "excel_com"
  BY DEF default_backends
<1>2. 1..3 = {1, 2, 3}
  OBVIOUS
<1>3. Backend = {default_backends[1], default_backends[2], default_backends[3]}
  BY <1>2 DEF Backend
<1>4. QED
  BY <1>1, <1>3

\* A consulted backend leaves one attempt more.
LEMMA RecordFacts ==
  ASSUME ChainTypeOK, Len(attempts) < 3, NEW outcome \in Outcome, Record(outcome)
  PROVE  /\ attempts' \in Seq([backend : Backend, outcome : Outcome])
         /\ Len(attempts') = Len(attempts) + 1 /\ Len(attempts') <= Len(default_backends)
         /\ DOMAIN attempts' = DOMAIN attempts \cup {Len(attempts')}
         /\ attempts'[Len(attempts')] = [backend |-> turn, outcome |-> outcome]
         /\ \A i \in DOMAIN attempts : attempts'[i] = attempts[i]
<1>1. Len(attempts) \in 0..2 /\ attempts \in Seq([backend : Backend, outcome : Outcome])
  <2>1. attempts \in Seq([backend : Backend, outcome : Outcome])
    BY DEF ChainTypeOK
  <2>2. Len(attempts) \in Nat
    BY <2>1
  <2>3. \A n \in Nat : n < 3 => n \in 0..2
    OBVIOUS
  <2>4. QED
    BY <2>1, <2>2, <2>3, Zenon
<1>2. turn \in Backend
  BY <1>1, BackendFacts DEF turn
<1> DEFINE e == [backend |-> turn, outcome |-> outcome]
<1>3. e \in [backend : Backend, outcome : Outcome] /\ attempts' = Append(attempts, e)
  BY <1>2 DEF Record
<1> HIDE DEF e
<1>4. /\ attempts' \in Seq([backend : Backend, outcome : Outcome])
      /\ Len(attempts') = Len(attempts) + 1
      /\ attempts'[Len(attempts) + 1] = e
      /\ \A i \in 1..Len(attempts) : attempts'[i] = attempts[i]
  BY <1>1, <1>3
<1>5. DOMAIN attempts = 1..Len(attempts) /\ DOMAIN attempts' = 1..(Len(attempts) + 1)
  BY <1>1, <1>4
<1>6. 1..(Len(attempts) + 1) = 1..Len(attempts) \cup {Len(attempts) + 1}
  BY <1>1
<1>7. QED
  BY <1>1, <1>4, <1>5, <1>6, BackendFacts DEF e

\* A failed attempt sends the chain to the next offer.
LEMMA FailKeeps ==
  ASSUME ChainInv, step \in BackendSteps, FailAttempt,
         copy' \in Cached \cup {NONE}, engines' \subseteq {"soffice", "excel"},
         "soffice" \notin engines'
  PROVE  ChainInv'
<1>1. Len(attempts) < 3 /\ Record("FAILED") /\ "FAILED" \in Outcome
      /\ step' = "offer" /\ UNCHANGED <<source, workspace, polls>>
  BY DEF FailAttempt, ChainInv, TurnInv, Turn, BackendSteps, OfficeSteps, Outcome
<1>2. /\ attempts' \in Seq([backend : Backend, outcome : Outcome])
      /\ Len(attempts') <= Len(default_backends)
      /\ \A i \in DOMAIN attempts' : attempts'[i].outcome # "SUCCEEDED"
  <2>1. \A i \in DOMAIN attempts : attempts[i].outcome # "SUCCEEDED"
    BY DEF ChainInv, ValueInv, BackendSteps, OfficeSteps
  <2>0. ChainTypeOK
    BY DEF ChainInv
  <2>4. /\ attempts' \in Seq([backend : Backend, outcome : Outcome])
        /\ Len(attempts') <= Len(default_backends)
        /\ DOMAIN attempts' = DOMAIN attempts \cup {Len(attempts')}
        /\ attempts'[Len(attempts')] = [backend |-> turn, outcome |-> "FAILED"]
        /\ \A i \in DOMAIN attempts : attempts'[i] = attempts[i]
    BY <1>1, <2>0, RecordFacts, Zenon
  <2>2. PICK e : /\ e.outcome = "FAILED" /\ DOMAIN attempts' = DOMAIN attempts \cup {Len(attempts')}
                 /\ attempts'[Len(attempts')] = e
                 /\ \A i \in DOMAIN attempts : attempts'[i] = attempts[i]
    BY <2>4
  <2>3. \A i \in DOMAIN attempts' : attempts'[i].outcome # "SUCCEEDED"
    BY <2>1, <2>2
  <2>5. QED
    BY <2>3, <2>4, Zenon
<1>3. ChainTypeOK'
  BY <1>1, <1>2 DEF ChainInv, ChainTypeOK, ChainSteps, ChainEnds
<1>4. TurnInv' /\ ValueInv' /\ CleanInv'
  BY <1>1, <1>2 DEF ChainInv, TurnInv, ValueInv, CleanInv, BackendSteps, OfficeSteps
<1>5. QED
  BY <1>3, <1>4 DEF ChainInv

\* A copy that holds values of its backend only ends the chain.
LEMMA SucceedKeeps ==
  ASSUME ChainInv, NEW b \in Backend, Turn(b), Of(b), step \in BackendSteps, Succeed,
         "soffice" \notin engines', engines' \subseteq {"soffice", "excel"}
  PROVE  ChainInv'
<1>1. Len(attempts) < 3 /\ turn = b /\ Record("SUCCEEDED") /\ "SUCCEEDED" \in Outcome
      /\ step' = "done" /\ UNCHANGED <<source, workspace, copy, polls>>
  BY DEF Succeed, Turn, Outcome
<1>2. /\ attempts' \in Seq([backend : Backend, outcome : Outcome])
      /\ Len(attempts') <= Len(default_backends)
      /\ \E i \in DOMAIN attempts' : attempts'[i] = [backend |-> b, outcome |-> "SUCCEEDED"]
  <2>0. ChainTypeOK
    BY DEF ChainInv
  <2>1. /\ attempts' \in Seq([backend : Backend, outcome : Outcome])
        /\ Len(attempts') <= Len(default_backends)
        /\ DOMAIN attempts' = DOMAIN attempts \cup {Len(attempts')}
        /\ attempts'[Len(attempts')] = [backend |-> turn, outcome |-> "SUCCEEDED"]
    BY <1>1, <2>0, RecordFacts, Zenon
  <2>2. QED
    BY <1>1, <2>1
<1>3. ChainTypeOK'
  BY <1>1, <1>2 DEF ChainInv, ChainTypeOK, ChainSteps, ChainEnds
<1>4. \E i \in DOMAIN attempts' :
        attempts'[i].outcome = "SUCCEEDED" /\ \A c \in Cell : copy'[c] \in {NONE, attempts'[i].backend}
  <2>1. PICK i \in DOMAIN attempts' : attempts'[i] = [backend |-> b, outcome |-> "SUCCEEDED"]
    BY <1>2
  <2>2. attempts'[i].outcome = "SUCCEEDED" /\ attempts'[i].backend = b
    BY <2>1
  <2>3. QED
    BY <1>1, <2>2 DEF Of
<1>5. TurnInv' /\ ValueInv' /\ CleanInv'
  BY <1>1, <1>4 DEF ChainInv, TurnInv, ValueInv, CleanInv, BackendSteps, OfficeSteps, Of
<1>6. QED
  BY <1>3, <1>5 DEF ChainInv

\* A step within a backend.
LEMMA MoveKeeps ==
  ASSUME ChainInv, step \in BackendSteps, step' \in BackendSteps, UNCHANGED <<source, workspace, attempts>>,
         copy' \in Cached, polls' \in 0..MaxPolls, engines' \subseteq {"soffice", "excel"},
         step' \in {"formulas", "check"} => step \in {"formulas", "check"},
         step' \in {"libreoffice"} \cup OfficeSteps => step \in {"libreoffice"} \cup OfficeSteps,
         step' \in {"excel_com", "workbook", "quit"} => step \in {"excel_com", "workbook", "quit"},
         "soffice" \in engines' => step' \in OfficeSteps,
         step' = "stop" => Of("libreoffice")', step' = "quit" => Of("excel_com")'
  PROVE  ChainInv'
<1>1. ChainTypeOK'
  BY DEF ChainInv, ChainTypeOK, ChainSteps, ChainEnds, BackendSteps, OfficeSteps
<1>2. TurnInv'
  BY DEF ChainInv, TurnInv, Turn, turn
<1>3. ValueInv' /\ CleanInv'
  BY DEF ChainInv, ValueInv, CleanInv, BackendSteps, OfficeSteps
<1>4. QED
  BY <1>1, <1>2, <1>3 DEF ChainInv

\* Every step of the chain keeps its invariant.
LEMMA ChainKeeps ==
  ASSUME ChainInv, ChainStep
  PROVE  ChainInv'
<1>1. /\ Len(attempts) \in Nat /\ Len(attempts) <= 3
      /\ attempts \in Seq([backend : Backend, outcome : Outcome])
  <2>1. attempts \in Seq([backend : Backend, outcome : Outcome]) /\ Len(attempts) <= 3
    BY BackendFacts DEF ChainInv, ChainTypeOK
  <2>2. QED
    BY <2>1
<1>0. ~AllConsulted => Len(attempts) < 3
  <2>1. \A n \in Nat : n <= 3 /\ n # 3 => n < 3
    OBVIOUS
  <2>2. Len(default_backends) = 3
    BY BackendFacts
  <2>3. QED
    BY <1>1, <2>1, <2>2, Zenon DEF AllConsulted
<1>2. CASE Recalculate
  BY <1>2 DEF Recalculate, ChainInv, ChainTypeOK, ChainSteps, ChainEnds, TurnInv, ValueInv,
     CleanInv, BackendSteps, OfficeSteps
<1>3. CASE Unavailable
  <2>1. Len(attempts) < 3 /\ Record("UNAVAILABLE") /\ "UNAVAILABLE" \in Outcome /\ step = "offer"
        /\ UNCHANGED <<source, workspace, copy, engines, step, polls>>
    BY <1>0, <1>3 DEF Unavailable, Outcome
  <2>0. ChainTypeOK
    BY DEF ChainInv
  <2>2. /\ attempts' \in Seq([backend : Backend, outcome : Outcome])
        /\ Len(attempts') <= Len(default_backends)
        /\ DOMAIN attempts' = DOMAIN attempts \cup {Len(attempts')}
        /\ attempts'[Len(attempts')] = [backend |-> turn, outcome |-> "UNAVAILABLE"]
        /\ \A i \in DOMAIN attempts : attempts'[i] = attempts[i]
    BY <2>0, <2>1, RecordFacts, Zenon
  <2>3. \A i \in DOMAIN attempts' : attempts'[i].outcome # "SUCCEEDED"
    <3>1. \A i \in DOMAIN attempts : attempts[i].outcome # "SUCCEEDED"
      BY <2>1 DEF ChainInv, ValueInv
    <3>2. PICK e : /\ e.outcome = "UNAVAILABLE"
                   /\ DOMAIN attempts' = DOMAIN attempts \cup {Len(attempts')}
                   /\ attempts'[Len(attempts')] = e
                   /\ \A i \in DOMAIN attempts : attempts'[i] = attempts[i]
      BY <2>2
    <3>3. QED
      BY <3>1, <3>2
  <2>4. ChainTypeOK'
    BY <2>1, <2>2 DEF ChainInv, ChainTypeOK
  <2>5. TurnInv' /\ ValueInv' /\ CleanInv'
    BY <2>1, <2>3 DEF ChainInv, TurnInv, ValueInv, CleanInv, BackendSteps, OfficeSteps
  <2>6. QED
    BY <2>4, <2>5 DEF ChainInv
<1>4. CASE StageCopy
  <2>1. step = "offer" /\ Len(attempts) < 3 /\ UNCHANGED <<source, engines, attempts, polls>>
    BY <1>0, <1>4 DEF StageCopy
  <2>2. CASE source.readable
    <3>1. copy' = source.cached /\ step' = turn /\ UNCHANGED workspace /\ source.cached \in Cached
      BY <1>4, <2>2 DEF StageCopy, ChainInv, ChainTypeOK
    <3>2. turn \in {"formulas", "libreoffice", "excel_com"} /\ turn' = turn
      <4>1. Len(attempts) + 1 \in 1..3
        BY <1>1, <2>1
      <4>2. QED
        BY <2>1, <4>1, BackendFacts DEF turn
    <3>3. ChainTypeOK'
      BY <2>1, <3>1, <3>2 DEF ChainInv, ChainTypeOK, ChainSteps
    <3>4. TurnInv'
      BY <2>1, <3>1, <3>2 DEF TurnInv, Turn, BackendSteps, OfficeSteps
    <3>5. ValueInv' /\ CleanInv'
      BY <2>1, <3>1, <3>2 DEF ChainInv, ValueInv, CleanInv, OfficeSteps
    <3>6. QED
      BY <3>3, <3>4, <3>5 DEF ChainInv
  <2>3. CASE ~source.readable
    <3>1. step' = "raised" /\ workspace' = FALSE /\ UNCHANGED copy
      BY <1>4, <2>3 DEF StageCopy
    <3>2. QED
      BY <2>1, <3>1 DEF ChainInv, ChainTypeOK, ChainSteps, ChainEnds, TurnInv, ValueInv, CleanInv,
         BackendSteps, OfficeSteps
  <2>4. QED
    BY <2>2, <2>3
<1>5. CASE RaiseRecalcFailed
  BY <1>5 DEF RaiseRecalcFailed, ChainInv, ChainTypeOK, ChainSteps, ChainEnds, TurnInv, ValueInv,
     CleanInv, BackendSteps, OfficeSteps
<1>6. "soffice" \notin engines \/ step \in OfficeSteps
  BY DEF ChainInv, CleanInv
<1>7. engines \subseteq {"soffice", "excel"} /\ polls \in 0..MaxPolls /\ copy \in Cached \cup {NONE}
  BY DEF ChainInv, ChainTypeOK
<1>8. step \in BackendSteps => copy \in Cached
  BY DEF ChainInv, TurnInv
<1>9. CASE FormulasStep
  <2>1. CASE ComputeAndWrite
    <3>1. PICK values \in SUBSET Cell : WriteCached(values)
      BY <2>1 DEF ComputeAndWrite
    <3>2. copy' \in Cached
      BY <1>8, <2>1, <3>1, BackendFacts DEF ComputeAndWrite, WriteCached, Cached, Origin, BackendSteps
    <3>3. QED
      BY <1>6, <1>7, <2>1, <3>2, MoveKeeps DEF ComputeAndWrite, BackendSteps, OfficeSteps
  <2>2. CASE FormulasRaises
    BY <1>6, <1>7, <2>2, FailKeeps DEF FormulasRaises, BackendSteps, OfficeSteps
  <2>3. CASE CheckComplete
    <3>1. step = "check" /\ engines' = engines
      BY <2>3 DEF CheckComplete
    <3>2. CASE Unwritten = {}
      <4>1. Succeed
        BY <2>3, <3>2 DEF CheckComplete
      <4>2. Of("formulas") /\ Turn("formulas")
        BY <3>1, <3>2 DEF Unwritten, Of, ChainInv, TurnInv
      <4>3. QED
        BY <1>6, <1>7, <3>1, <4>1, <4>2, SucceedKeeps, BackendFacts DEF BackendSteps, OfficeSteps
    <3>3. CASE Unwritten # {}
      BY <1>6, <1>7, <2>3, <3>1, <3>3, FailKeeps DEF CheckComplete, BackendSteps, OfficeSteps
    <3>4. QED
      BY <3>2, <3>3
  <2>4. QED
    BY <1>9, <2>1, <2>2, <2>3 DEF FormulasStep
<1>10. ASSUME NEW b \in Backend, SavedBy(b) PROVE copy' \in Cached /\ Of(b)'
  BY <1>10 DEF SavedBy, Cached, Origin, Of
<1>11. CASE OfficeStep
  <2>1. CASE StartOffice
    <3>1. 0 \in 0..MaxPolls
      BY ChainAssumption
    <3>2. QED
      BY <1>7, <1>8, <2>1, <3>1, MoveKeeps DEF StartOffice, BackendSteps, OfficeSteps
  <2>2. CASE OfficeNotStarted
    BY <1>6, <1>7, <2>2, FailKeeps DEF OfficeNotStarted, BackendSteps, OfficeSteps
  <2>3. CASE NotYetListening
    <3>1. polls + 1 \in 0..MaxPolls
      BY ChainAssumption, <1>7, <2>3 DEF NotYetListening
    <3>2. QED
      BY <1>7, <1>8, <2>3, <3>1, MoveKeeps DEF NotYetListening, BackendSteps, OfficeSteps
  <2>4. CASE Connected \/ OpenDocument
    BY <1>7, <1>8, <2>4, MoveKeeps DEF Connected, OpenDocument, BackendSteps, OfficeSteps
  <2>5. CASE CalculateAndStore
    <3>1. copy' \in Cached /\ Of("libreoffice")'
      BY <1>10, <2>5, BackendFacts DEF CalculateAndStore
    <3>2. QED
      BY <1>7, <2>5, <3>1, MoveKeeps DEF CalculateAndStore, BackendSteps, OfficeSteps
  <2>6. CASE StopOffice
    <3>1. Of("libreoffice") /\ Turn("libreoffice") /\ step \in BackendSteps /\ Succeed
          /\ engines' = engines \ {"soffice"}
      BY <2>6 DEF StopOffice, ChainInv, ValueInv, TurnInv, OfficeSteps, BackendSteps
    <3>2. QED
      BY <1>7, <3>1, SucceedKeeps, BackendFacts
  <2>7. CASE OfficeFails
    BY <1>7, <2>7, FailKeeps DEF OfficeFails, BackendSteps, OfficeSteps
  <2>8. QED
    BY <1>11, <2>1, <2>2, <2>3, <2>4, <2>5, <2>6, <2>7 DEF OfficeStep
<1>12. CASE ExcelStep
  <2>1. CASE DispatchExcel
    <3>1. step = "excel_com" /\ copy' = copy
      BY <2>1 DEF DispatchExcel
    <3>2. CASE engines' = engines \cup {"excel"} /\ step' = "workbook"
               /\ UNCHANGED <<source, workspace, attempts, polls>>
      BY <1>6, <1>7, <1>8, <3>1, <3>2, MoveKeeps DEF BackendSteps, OfficeSteps
    <3>3. CASE FailAttempt /\ UNCHANGED engines
      BY <1>6, <1>7, <3>1, <3>3, FailKeeps DEF BackendSteps, OfficeSteps
    <3>4. QED
      BY <2>1, <3>2, <3>3 DEF DispatchExcel
  <2>2. CASE SaveWorkbook
    <3>1. copy' \in Cached /\ Of("excel_com")'
      BY <1>10, <2>2, BackendFacts DEF SaveWorkbook
    <3>2. QED
      BY <1>6, <1>7, <2>2, <3>1, MoveKeeps DEF SaveWorkbook, BackendSteps, OfficeSteps
  <2>3. CASE QuitExcel
    <3>1. Of("excel_com") /\ Turn("excel_com") /\ step \in BackendSteps /\ Succeed
          /\ engines' = engines \ {"excel"} /\ "soffice" \notin engines
      BY <1>6, <2>3 DEF QuitExcel, ChainInv, ValueInv, TurnInv, OfficeSteps, BackendSteps
    <3>2. QED
      BY <1>7, <3>1, SucceedKeeps, BackendFacts
  <2>4. CASE ExcelFails \/ QuitRaises
    BY <1>6, <1>7, <2>4, FailKeeps DEF ExcelFails, QuitRaises, BackendSteps, OfficeSteps
  <2>5. QED
    BY <1>12, <2>1, <2>2, <2>3, <2>4 DEF ExcelStep
<1>13. QED
  BY <1>2, <1>3, <1>4, <1>5, <1>9, <1>11, <1>12 DEF ChainStep

\* A Ctrl-C and the loss of the file keep it too.
LEMMA DisturbedKeeps ==
  ASSUME ChainInv, Interrupt \/ SourceLost
  PROVE  ChainInv'
<1>1. CASE Interrupt
  <2>1. step \notin ChainEnds \cup {"idle"} /\ step' = "interrupted" /\ engines' = {} /\ workspace' = FALSE
        /\ UNCHANGED <<source, copy, attempts, polls>>
    BY <1>1 DEF Interrupt
  <2>2. QED
    BY <2>1 DEF ChainInv, ChainTypeOK, ChainSteps, ChainEnds, TurnInv, ValueInv, CleanInv,
       BackendSteps, OfficeSteps
<1>2. CASE SourceLost
  <2>1. /\ source' \in [readable : BOOLEAN, cached : Cached] /\ source'.cached = source.cached
        /\ UNCHANGED <<step, workspace, copy, engines, attempts, polls>>
    BY <1>2 DEF SourceLost, ChainInv, ChainTypeOK
  <2>2. QED
    BY <2>1 DEF ChainInv, ChainTypeOK, TurnInv, ValueInv, CleanInv, Turn, turn, Of
<1>3. QED
  BY <1>1, <1>2

\* Removing the workspace keeps it once the chain has ended.
LEMMA CloseKeeps ==
  ASSUME ChainInv, Close, UNCHANGED <<source, copy, engines, attempts, step, polls>>
  PROVE  ChainInv'
BY DEF Close, ChainInv, ChainTypeOK, TurnInv, ValueInv, CleanInv, Turn, turn, Of

-----------------------------------------------------------------------------
(* The command around the chain. *)

BeforeLoad == {"probe", "measure", "read", "construct", "recalc"}

\* The constants that are counted, and what is not a number.
LEMMA ConstFacts == NumRules \in Nat /\ LastDay \in Nat /\ NONE \notin Nat
BY LintRunAssumption, Zenon

\* What of the chain is left when, and where the workbook came from.
CommandInv ==
  /\ pc \in BeforeLoad => workbook = NONE /\ rule = 1
  /\ pc \in BeforeLoad \ {"recalc"} => step = "idle"
  /\ pc = "rules" => step \in {"done", "failed"}
  /\ workbook # NONE => \/ step = "done" /\ workbook = copy
                        \/ step = "failed" /\ workbook = source.cached
  /\ NothingLeftBehind

\* The configuration that is in force has passed the gates on the day it was
\* built.
GateInv ==
  /\ pc = "measure" => measure
  /\ built # NONE => GatesPass(built)
  /\ pc \in {"recalc", "rules"} => built # NONE

\* What has become of a rule whose turn is over.
Settled(r) ==
  \/ is_off(r)
  \/ skipped # {}
  \/ /\ ranOn[r] # NONE
     /\ r \in ValueRule => CachedValues
     /\ \/ found[r] = NONE
        \/ waiver_for(r, found[r].locus, ranOn[r])
        \/ \E f \in findings : /\ f.severity = severity_for(r)
                               /\ f.status = found[r].status
                               /\ f.status \in {"VIOLATION", "INFO"}

RuleInv ==
  /\ \A r \in Rule : r < rule => Settled(r)
  /\ pc = "end" /\ exit = 0 /\ ~measure =>
       rule > NumRules /\ errors = {} /\ skipped = {} /\ built # NONE

LintInv == TypeOK /\ ChainInv /\ CommandInv /\ GateInv /\ RuleInv

-----------------------------------------------------------------------------

\* The chain's invariant holds at the start of a command.
LEMMA ChainStarts == Init => ChainInv
<1> SUFFICES ASSUME Init PROVE ChainInv
  OBVIOUS
<1>1. source \in [readable : BOOLEAN, cached : Cached]
      /\ \A c \in Cell : source.cached[c] \in {NONE, "old"}
  BY DEF Init, ChainInit, Cached, Origin
<1>2. attempts = <<>> /\ attempts \in Seq([backend : Backend, outcome : Outcome]) /\ Len(attempts) = 0
      /\ DOMAIN attempts = {}
  BY DEF Init, ChainInit
<1>3. 0 \in 0..MaxPolls
  BY ChainAssumption
<1>4. ChainTypeOK
  <2>1. workspace \in BOOLEAN /\ copy \in Cached \cup {NONE} /\ engines \subseteq {"soffice", "excel"}
        /\ step \in ChainSteps /\ polls \in 0..MaxPolls
    BY <1>3 DEF Init, ChainInit, ChainSteps, ChainEnds
  <2>2. Len(attempts) <= Len(default_backends)
    BY <1>2, BackendFacts
  <2>3. QED
    BY <1>1, <1>2, <2>1, <2>2, Zenon DEF ChainTypeOK
<1>5. QED
  BY <1>1, <1>2, <1>4 DEF Init, ChainInit, ChainInv, TurnInv, ValueInv, CleanInv, BackendSteps, OfficeSteps

\* Every step of the command, and of its surroundings, keeps it.
LEMMA ChainInvKept ==
  ASSUME ChainInv, [Next]_vars
  PROVE  ChainInv'
<1>1. CASE UNCHANGED chainVars
  BY <1>1 DEF chainVars, ChainInv, ChainTypeOK, TurnInv, ValueInv, CleanInv, Turn, turn, Of
<1>2. CASE RunChain
  BY <1>2, ChainKeeps DEF RunChain
<1>3. CASE CopyUnreadable \/ RuleRaises \/ PrintReport \/ InterruptLint
  BY <1>3, CloseKeeps DEF CopyUnreadable, RuleRaises, PrintReport, InterruptLint
<1>4. CASE LoseSource \/ InterruptChain
  BY <1>4, DisturbedKeeps DEF LoseSource, InterruptChain
<1>5. CASE UNCHANGED vars
  BY <1>5, <1>1 DEF vars
<1>6. CASE Probe \/ Measure \/ LoadConfig \/ ConstructConfig \/ LoadCopy \/ LoadSource \/ RecalcRaised
  <2>1. UNCHANGED chainVars
    BY <1>6 DEF Probe, Measure, LoadConfig, ConstructConfig, LoadCopy, LoadSource, RecalcRaised
  <2>2. QED
    BY <2>1, <1>1
<1>7. CASE PassOver \/ SkipRule \/ CheckRule \/ Midnight
  <2>1. UNCHANGED chainVars
    BY <1>7 DEF PassOver, SkipRule, CheckRule, Midnight, NextRule
  <2>2. QED
    BY <2>1, <1>1
<1>8. QED
  BY <1>2, <1>3, <1>4, <1>5, <1>6, <1>7 DEF Next, Command, Surroundings, Ended

\* The chain records its attempts and stages its copies only while it runs.
LEMMA ChainIsOver ==
  ASSUME step \in {"done", "failed"}
  PROVE  ~ChainStep /\ ~Interrupt
BY DEF ChainStep, Recalculate, Unavailable, StageCopy, RaiseRecalcFailed,
   FormulasStep, ComputeAndWrite, FormulasRaises, CheckComplete,
   OfficeStep, StartOffice, OfficeNotStarted, NotYetListening, Connected, OpenDocument,
   CalculateAndStore, StopOffice, OfficeFails,
   ExcelStep, DispatchExcel, SaveWorkbook, QuitExcel, ExcelFails, QuitRaises,
   Interrupt, ChainEnds

\* Every step keeps the command's invariant.
LEMMA CommandKept ==
  ASSUME TypeOK, ChainInv, CommandInv, [Next]_vars
  PROVE  CommandInv'
<1>1. CASE Probe \/ Measure \/ LoadConfig \/ ConstructConfig
  <2>1. pc \in BeforeLoad \ {"recalc"} /\ step = "idle" /\ ~workspace /\ "soffice" \notin engines
    BY <1>1 DEF Probe, Measure, LoadConfig, ConstructConfig, CommandInv, BeforeLoad, ChainInv,
       CleanInv, ChainTypeOK, OfficeSteps
  <2>2. UNCHANGED <<chainVars, workbook, rule>> /\ pc' \in {"measure", "read", "construct", "recalc", "end"}
    BY <1>1 DEF Probe, Measure, LoadConfig, ConstructConfig, Exits
  <2>3. QED
    BY <2>1, <2>2 DEF CommandInv, BeforeLoad, NothingLeftBehind, chainVars
<1>2. CASE RunChain \/ InterruptChain
  BY <1>2 DEF RunChain, InterruptChain, CommandInv, BeforeLoad, lintVars, NothingLeftBehind
<1>3. CASE LoadCopy
  BY <1>3 DEF LoadCopy, CommandInv, BeforeLoad, chainVars, NothingLeftBehind
<1>4. CASE LoadSource
  <2>1. step = "failed" /\ ~workspace /\ "soffice" \notin engines /\ workbook = NONE
    BY <1>4 DEF LoadSource, ChainInv, CleanInv, ChainTypeOK, OfficeSteps, CommandInv, BeforeLoad
  <2>2. QED
    BY <1>4, <2>1 DEF LoadSource, CommandInv, BeforeLoad, chainVars, NothingLeftBehind, Exits
<1>5. CASE RecalcRaised
  <2>1. ~workspace /\ "soffice" \notin engines /\ workbook = NONE
    BY <1>5 DEF RecalcRaised, ChainInv, CleanInv, ChainTypeOK, OfficeSteps, CommandInv, BeforeLoad
  <2>2. QED
    BY <1>5, <2>1 DEF RecalcRaised, CommandInv, BeforeLoad, chainVars, NothingLeftBehind, Exits
<1>6. CASE CopyUnreadable \/ RuleRaises \/ PrintReport \/ InterruptLint
  <2>1. step \in {"done", "failed"} /\ "soffice" \notin engines
    BY <1>6 DEF CopyUnreadable, RuleRaises, PrintReport, InterruptLint, Running, CommandInv,
       ChainInv, CleanInv, OfficeSteps
  <2>2. workspace' = FALSE /\ pc' = "end" /\ UNCHANGED <<source, copy, engines, step, workbook>>
    BY <1>6 DEF CopyUnreadable, RuleRaises, PrintReport, InterruptLint, Close, Exits
  <2>3. QED
    BY <2>1, <2>2 DEF CommandInv, BeforeLoad, NothingLeftBehind
<1>7. CASE PassOver \/ SkipRule \/ CheckRule
  <2>1. pc = "rules" /\ UNCHANGED <<chainVars, pc, workbook>>
    BY <1>7 DEF PassOver, SkipRule, CheckRule, NextRule, Running
  <2>2. QED
    BY <2>1 DEF CommandInv, BeforeLoad, NothingLeftBehind, chainVars
<1>8. CASE Midnight \/ Ended \/ UNCHANGED vars
  BY <1>8 DEF Midnight, Ended, vars, lintVars, CommandInv, BeforeLoad, NothingLeftBehind, chainVars
<1>9. CASE LoseSource
  <2>1. source'.cached = source.cached /\ UNCHANGED <<lintVars, workspace, copy, engines, step>>
    BY <1>9 DEF LoseSource, SourceLost, ChainInv, ChainTypeOK
  <2>2. QED
    BY <2>1 DEF CommandInv, BeforeLoad, NothingLeftBehind, lintVars
<1>10. QED
  BY <1>1, <1>2, <1>3, <1>4, <1>5, <1>6, <1>7, <1>8, <1>9 DEF Next, Command, Surroundings

\* Every step keeps what the gates have let through.
LEMMA GateKept ==
  ASSUME GateInv, [Next]_vars, NONE \notin Nat, TypeOK
  PROVE  GateInv'
<1>1. UNCHANGED <<file, measure>>
  BY DEF Next, Command, Surroundings, Ended, vars, lintVars, Probe, Measure, LoadConfig,
     ConstructConfig, RunChain, LoadCopy, CopyUnreadable, LoadSource, RecalcRaised, PassOver,
     SkipRule, CheckRule, RuleRaises, PrintReport, NextRule, Midnight, LoseSource,
     InterruptChain, InterruptLint
<1>2. \A day : GatesPass(day)' <=> GatesPass(day)
  BY <1>1 DEF GatesPass, Authorised, Good, Loosens, Silences, config
<1>3. CASE ConstructConfig
  <2>1. today \in Nat
    BY DEF TypeOK
  <2>2. CASE GatesPass(today)
    BY <1>1, <1>2, <1>3, <2>1, <2>2 DEF ConstructConfig, GateInv
  <2>3. CASE ~GatesPass(today)
    BY <1>1, <1>2, <1>3, <2>3 DEF ConstructConfig, GateInv, Exits
  <2>4. QED
    BY <2>2, <2>3
<1>4. CASE ~ConstructConfig
  <2>1. built' = built
    BY <1>4 DEF Next, Command, Surroundings, Ended, vars, lintVars, Probe, Measure, LoadConfig,
     RunChain, LoadCopy, CopyUnreadable, LoadSource, RecalcRaised, PassOver,
     SkipRule, CheckRule, RuleRaises, PrintReport, NextRule, Midnight, LoseSource,
     InterruptChain, InterruptLint
  <2>2. /\ pc' = "measure" => pc = "measure" \/ measure
        /\ pc' \in {"recalc", "rules"} => pc \in {"recalc", "rules"}
    BY <1>4 DEF Next, Command, Surroundings, Ended, vars, lintVars, Probe, Measure, LoadConfig,
     RunChain, LoadCopy, CopyUnreadable, LoadSource, RecalcRaised, PassOver,
     SkipRule, CheckRule, RuleRaises, PrintReport, NextRule, Midnight, LoseSource,
     InterruptChain, InterruptLint, Exits, Running
  <2>3. QED
    BY <1>1, <1>2, <2>1, <2>2 DEF GateInv
<1>5. QED
  BY <1>3, <1>4

\* A rule stays settled as long as its own results stay.
LEMMA StaysSettled ==
  ASSUME NEW r \in Rule, Settled(r), UNCHANGED <<file, workbook>>,
         found'[r] = found[r], ranOn'[r] = ranOn[r], findings \subseteq findings'
  PROVE  Settled(r)'
<1>1. is_off(r)' <=> is_off(r)
  BY DEF is_off, config
<1>2. severity_for(r)' = severity_for(r)
  BY DEF severity_for, config
<1>3. waiver_for(r, found[r].locus, ranOn[r]) => waiver_for(r, found[r].locus, ranOn[r])'
  BY DEF waiver_for, config
<1>4. skipped # {} => skipped' # {}
  BY DEF skipped
<1>5. CachedValues' <=> CachedValues
  BY DEF CachedValues
<1>6. QED
  BY <1>1, <1>2, <1>3, <1>4, <1>5 DEF Settled

\* The rule that is passed over, skipped or run is settled by that.
LEMMA TurnSettles ==
  ASSUME TypeOK, Running, PassOver \/ SkipRule \/ CheckRule, NEW t \in Rule, t = rule
  PROVE  /\ Settled(t)'
         /\ UNCHANGED <<file, workbook>> /\ findings \subseteq findings'
         /\ \A r \in Rule \ {t} : found'[r] = found[r] /\ ranOn'[r] = ranOn[r]
<1>1. UNCHANGED <<file, workbook>>
  BY DEF PassOver, SkipRule, CheckRule, NextRule
<1>2. /\ is_off(t)' <=> is_off(t)
      /\ severity_for(t)' = severity_for(t)
      /\ CachedValues' <=> CachedValues
      /\ \A locus, day : waiver_for(t, locus, day)' <=> waiver_for(t, locus, day)
  BY <1>1 DEF is_off, severity_for, CachedValues, waiver_for, config
<1>3. CASE PassOver
  <2>1. is_off(t) /\ UNCHANGED <<found, ranOn, findings>>
    BY <1>3 DEF PassOver
  <2>2. QED
    BY <1>1, <1>2, <2>1 DEF Settled
<1>4. CASE SkipRule
  <2>1. skipped' # {} /\ findings \subseteq findings' /\ UNCHANGED <<found, ranOn>>
    <3>1. PICK f : f.status = "SKIPPED" /\ findings' = findings \cup {f}
      BY <1>4 DEF SkipRule
    <3>2. QED
      BY <1>4, <3>1 DEF SkipRule, skipped
  <2>2. QED
    BY <1>1, <2>1 DEF Settled
<1>5. CASE CheckRule
  <2>1. PICK f \in Found : /\ found' = [found EXCEPT ![t] = f]
                           /\ findings' = IF f = NONE THEN findings
                                          ELSE findings \cup {Judge(t, f)}
    BY <1>5 DEF CheckRule
  <2>2. found \in [Rule -> Found] /\ ranOn \in [Rule -> 0..LastDay \cup {NONE}]
        /\ today \in 0..LastDay
    BY DEF TypeOK
  <2>3. /\ found'[t] = f /\ ranOn'[t] = today
        /\ \A r \in Rule \ {t} : found'[r] = found[r] /\ ranOn'[r] = ranOn[r]
    BY <1>5, <2>1, <2>2 DEF CheckRule
  <2>4. today # NONE
    BY <2>2, ConstFacts
  <2>5. findings \subseteq findings'
    BY <2>1
  <2>6. t \in ValueRule => CachedValues'
    BY <1>2, <1>5 DEF CheckRule, Skipped
  <2>7. waiver_for(t, f.locus, today) => waiver_for(t, found[t].locus, ranOn[t])'
    BY <1>1, <2>3 DEF waiver_for, config
  <2>8. CASE f = NONE
    BY <1>1, <2>3, <2>4, <2>5, <2>6, <2>8 DEF Settled
  <2>9. CASE f # NONE /\ waiver_for(t, f.locus, today)
    BY <1>1, <2>3, <2>4, <2>5, <2>6, <2>7, <2>9 DEF Settled
  <2>10. CASE f # NONE /\ ~waiver_for(t, f.locus, today)
    <3>1. f.status \in {"VIOLATION", "INFO"}
      BY <2>10 DEF Found
    <3>2. Judge(t, f) \in findings' /\ Judge(t, f).severity = severity_for(t)
          /\ Judge(t, f).status = f.status
      BY <2>1, <2>10 DEF Judge
    <3>3. QED
      BY <1>1, <1>2, <2>3, <2>4, <2>5, <2>6, <3>1, <3>2 DEF Settled
  <2>11. QED
    BY <2>8, <2>9, <2>10
<1>6. QED
  BY <1>3, <1>4, <1>5

\* Every step keeps what is known of the rules whose turn is over.
LEMMA RuleKept ==
  ASSUME LintInv, [Next]_vars
  PROVE  RuleInv'
<1>1. UNCHANGED <<file, measure>>
  BY DEF Next, Command, Surroundings, Ended, vars, lintVars, Probe, Measure, LoadConfig,
     ConstructConfig, RunChain, LoadCopy, CopyUnreadable, LoadSource, RecalcRaised, PassOver,
     SkipRule, CheckRule, RuleRaises, PrintReport, NextRule, Midnight, LoseSource,
     InterruptChain, InterruptLint
<1>2. rule \in 1..(NumRules + 1) /\ NumRules \in Nat /\ \A r \in Rule : r \in Nat /\ r >= 1
  <2>1. rule \in 1..(NumRules + 1)
    BY DEF LintInv, TypeOK
  <2>2. QED
    BY ConstFacts, <2>1 DEF Rule
<1>3. CASE PassOver \/ SkipRule \/ CheckRule
  <2>1. Running /\ rule' = rule + 1 /\ UNCHANGED pc
    BY <1>3 DEF PassOver, SkipRule, CheckRule, NextRule
  <2>2. \A r \in Rule : r < rule' => r = rule \/ r < rule
    BY <1>2, <2>1
  <2>0. PICK t \in Rule : t = rule
    BY <1>2, <2>1 DEF Running, Rule
  <2>3. /\ Settled(t)'
        /\ UNCHANGED <<file, workbook>> /\ findings \subseteq findings'
        /\ \A r \in Rule \ {t} : found'[r] = found[r] /\ ranOn'[r] = ranOn[r]
    BY <1>3, <2>0, <2>1, TurnSettles DEF LintInv
  <2>4. ASSUME NEW r \in Rule, r < rule' PROVE Settled(r)'
    <3>1. CASE r = t
      BY <2>3, <3>1
    <3>2. CASE r < rule
      <4>1. r # t
        BY <1>2, <2>0, <3>2
      <4>2. Settled(r)
        BY <3>2 DEF LintInv, RuleInv
      <4>3. QED
        BY <2>3, <4>1, <4>2, StaysSettled
    <3>3. QED
      BY <2>0, <2>2, <2>4, <3>1, <3>2
  <2>5. QED
    BY <2>1, <2>4 DEF RuleInv, Running
<1>4. CASE UNCHANGED <<workbook, rule, found, ranOn, findings>>
  <2>1. ASSUME NEW r \in Rule, r < rule' PROVE Settled(r)'
    <3>1. Settled(r)
      BY <1>4, <2>1 DEF LintInv, RuleInv
    <3>2. QED
      BY <1>1, <1>4, <3>1, StaysSettled
  <2>2. ASSUME pc' = "end", exit' = 0, ~measure' 
         PROVE  rule' > NumRules /\ (errors = {})' /\ (skipped = {})' /\ built' # NONE
    <3>1. CASE pc = "end" /\ UNCHANGED <<exit, built>>
      BY <1>1, <1>4, <2>2, <3>1 DEF LintInv, RuleInv, errors, skipped
    <3>2. CASE PrintReport
      <4>1. pc = "rules" /\ rule > NumRules /\ exit' = exit_code /\ built' = built
        BY <3>2 DEF PrintReport, Exits
      <4>2. errors = {} /\ skipped = {}
        BY <2>2, <4>1 DEF exit_code
      <4>3. QED
        BY <1>4, <4>1, <4>2 DEF LintInv, GateInv, errors, skipped
    <3>3. CASE ~PrintReport /\ ~(pc = "end" /\ UNCHANGED <<exit, built>>)
      BY <1>1, <2>2, <3>3 DEF LintInv, GateInv, Next, Command, Surroundings, Ended, vars, lintVars, Probe,
       Measure, LoadConfig, ConstructConfig, RunChain, LoadCopy, CopyUnreadable, LoadSource,
       RecalcRaised, PassOver, SkipRule, CheckRule, RuleRaises, NextRule, Midnight,
       LoseSource, InterruptChain, InterruptLint, Exits, Traceback, Running
    <3>4. QED
      BY <3>1, <3>2, <3>3
  <2>3. QED
    BY <2>1, <2>2 DEF RuleInv
<1>5. CASE LoadCopy \/ LoadSource
  <2>1. rule = 1 /\ UNCHANGED rule
    BY <1>5 DEF LoadCopy, LoadSource, LintInv, CommandInv, BeforeLoad
  <2>2. pc' = "end" => exit' # 0
    BY <1>5 DEF LoadCopy, LoadSource, Exits
  <2>3. QED
    BY <1>2, <2>1, <2>2 DEF RuleInv
<1>6. QED
  BY <1>3, <1>4, <1>5 DEF Next, Command, Surroundings, Ended, vars, lintVars, Probe, Measure, LoadConfig,
     ConstructConfig, RunChain, CopyUnreadable, RecalcRaised, RuleRaises, PrintReport, Midnight,
     LoseSource, InterruptChain, InterruptLint

\* The severity of a finding is one of the two.
LEMMA SeverityType == \A r : severity_for(r) \in {"ERROR", "WARN"}
BY DEF severity_for

\* Every step keeps the types.
LEMMA TypeKept ==
  ASSUME LintInv, ChainTypeOK', [Next]_vars
  PROVE  TypeOK'
<1> DEFINE PcOK == pc \in {"probe", "measure", "read", "construct", "recalc", "rules", "end"}
           Days == 0..LastDay \cup {NONE}
           InputOK == measure \in BOOLEAN /\ file \in File \cup {NONE}
           RuleTypes == /\ rule \in 1..(NumRules + 1)
                        /\ found \in [Rule -> Found] /\ ranOn \in [Rule -> Days]
                        /\ findings \subseteq Finding
           ExitOK == exit \in {NONE, 0, 1, 2, 3, Traceback}
<1>1. /\ today \in 0..LastDay /\ PcOK /\ built \in Days /\ InputOK /\ RuleTypes /\ ExitOK
      /\ workbook \in Cached \cup {NONE} /\ copy \in Cached \cup {NONE} /\ source.cached \in Cached
  BY DEF LintInv, TypeOK, ChainTypeOK
<1>2. InputOK'
  BY <1>1 DEF Next, Command, Surroundings, Ended, vars, lintVars, Probe, Measure, LoadConfig,
     ConstructConfig, RunChain, LoadCopy, CopyUnreadable, LoadSource, RecalcRaised, PassOver,
     SkipRule, CheckRule, RuleRaises, PrintReport, NextRule, Midnight, LoseSource,
     InterruptChain, InterruptLint
<1>3. (today \in 0..LastDay)'
  <2>1. CASE Midnight
    BY <1>1, <2>1, ConstFacts DEF Midnight
  <2>2. CASE UNCHANGED today
    BY <1>1, <2>2
  <2>3. QED
    BY <2>1, <2>2 DEF Next, Command, Surroundings, Ended, vars, lintVars, Probe, Measure, LoadConfig,
     ConstructConfig, RunChain, LoadCopy, CopyUnreadable, LoadSource, RecalcRaised, PassOver,
     SkipRule, CheckRule, RuleRaises, PrintReport, NextRule, LoseSource,
     InterruptChain, InterruptLint
<1>4. PcOK' /\ ExitOK'
  <2>1. exit_code \in {0, 1, 2}
    BY DEF exit_code
  <2>2. QED
    BY <1>1, <2>1 DEF Next, Command, Surroundings, Ended, vars, lintVars, Probe, Measure, LoadConfig,
     ConstructConfig, RunChain, LoadCopy, CopyUnreadable, LoadSource, RecalcRaised, PassOver,
     SkipRule, CheckRule, RuleRaises, PrintReport, NextRule, Midnight, LoseSource,
     InterruptChain, InterruptLint, Exits
<1>5. (built \in Days)' /\ (workbook \in Cached \cup {NONE})'
  BY <1>1 DEF Next, Command, Surroundings, Ended, vars, lintVars, Probe, Measure, LoadConfig,
     ConstructConfig, RunChain, LoadCopy, CopyUnreadable, LoadSource, RecalcRaised, PassOver,
     SkipRule, CheckRule, RuleRaises, PrintReport, NextRule, Midnight, LoseSource,
     InterruptChain, InterruptLint
<1>6. RuleTypes'
  <2>1. CASE PassOver \/ SkipRule \/ CheckRule
    <3>1. rule <= NumRules /\ rule' = rule + 1
      BY <2>1 DEF PassOver, SkipRule, CheckRule, NextRule, Running
    <3>2. rule \in Rule /\ rule' \in 1..(NumRules + 1)
      BY <1>1, <3>1, ConstFacts DEF Rule
    <3>3. CASE PassOver
      BY <1>1, <3>2, <3>3 DEF PassOver
    <3>4. CASE SkipRule
      <4>1. [rule |-> rule, locus |-> "Workbook", status |-> "SKIPPED",
             severity |-> severity_for(rule), waived |-> FALSE] \in Finding
        BY <3>2, SeverityType DEF Finding, Status
      <4>2. QED
        BY <1>1, <3>2, <3>4, <4>1 DEF SkipRule
    <3>5. CASE CheckRule
      <4>1. PICK f \in Found : /\ found' = [found EXCEPT ![rule] = f]
                               /\ findings' = IF f = NONE THEN findings
                                              ELSE findings \cup {Judge(rule, f)}
        BY <3>5 DEF CheckRule
      <4>2. f # NONE => Judge(rule, f) \in Finding
        <5>1. SUFFICES ASSUME f # NONE PROVE Judge(rule, f) \in Finding
          OBVIOUS
        <5>2. f.locus \in Locus \cup {"Workbook"} /\ f.status \in Status
          BY <5>1 DEF Found, Status
        <5>3. waiver_for(rule, f.locus, today) \in BOOLEAN
          BY DEF waiver_for
        <5>4. QED
          BY <3>2, <5>2, <5>3, SeverityType DEF Judge, Finding, Status
      <4>3. ranOn' = [ranOn EXCEPT ![rule] = today]
        BY <3>5 DEF CheckRule
      <4>4. found' \in [Rule -> Found] /\ ranOn' \in [Rule -> Days]
        BY <1>1, <4>1, <4>3
      <4>5. QED
        BY <1>1, <3>2, <4>1, <4>2, <4>4
    <3>6. QED
      BY <2>1, <3>3, <3>4, <3>5
  <2>2. CASE UNCHANGED <<rule, found, ranOn, findings>>
    BY <1>1, <2>2
  <2>3. QED
    BY <2>1, <2>2 DEF Next, Command, Surroundings, Ended, vars, lintVars, Probe, Measure, LoadConfig,
     ConstructConfig, RunChain, LoadCopy, CopyUnreadable, LoadSource, RecalcRaised,
     RuleRaises, PrintReport, Midnight, LoseSource, InterruptChain, InterruptLint
<1>7. QED
  BY <1>2, <1>3, <1>4, <1>5, <1>6 DEF TypeOK

\* The invariant holds when a command starts.
LEMMA LintStarts == Init => LintInv
<1> SUFFICES ASSUME Init PROVE LintInv
  OBVIOUS
<1>1. ChainInv /\ ChainTypeOK
  BY ChainStarts DEF ChainInv
<1>2. /\ pc = "probe" /\ rule = 1 /\ workbook = NONE /\ built = NONE /\ step = "idle"
      /\ today = 0 /\ exit = NONE /\ findings = {}
      /\ found = [r \in Rule |-> NONE] /\ ranOn = [r \in Rule |-> NONE]
      /\ measure \in BOOLEAN /\ file \in File \cup {NONE}
  BY DEF Init, ChainInit
<1>3. CommandInv /\ GateInv
  BY <1>2 DEF CommandInv, GateInv, BeforeLoad, NothingLeftBehind
<1>4. RuleInv
  BY <1>2 DEF RuleInv, Rule
<1>5. rule \in 1..(NumRules + 1) /\ today \in 0..LastDay
  BY <1>2, ConstFacts
<1>6. TypeOK
  BY <1>1, <1>2, <1>5 DEF TypeOK, Found
<1>7. QED
  BY <1>1, <1>3, <1>4, <1>6 DEF LintInv

\* Every step keeps the invariant.
LEMMA LintKept == LintInv /\ [Next]_vars => LintInv'
<1> SUFFICES ASSUME LintInv, [Next]_vars PROVE LintInv'
  OBVIOUS
<1>1. ChainInv' /\ ChainTypeOK'
  BY ChainInvKept DEF LintInv, ChainInv
<1>2. TypeOK'
  BY <1>1, TypeKept
<1>3. CommandInv'
  BY CommandKept DEF LintInv
<1>4. GateInv'
  BY GateKept, ConstFacts DEF LintInv
<1>5. RuleInv'
  BY RuleKept
<1>6. QED
  BY <1>1, <1>2, <1>3, <1>4, <1>5 DEF LintInv

\* The invariant holds throughout a command.
LEMMA Invariance == Spec => []LintInv
BY LintStarts, LintKept, PTL DEF Spec

\* The values of the workbook that is judged are those of one origin.
LEMMA OriginLemma == LintInv => OneEngineValues
<1> SUFFICES ASSUME LintInv, workbook # NONE PROVE OneEngineValues
  BY DEF OneEngineValues
<1> DEFINE values == {workbook[c] : c \in Cell} \ {NONE}
           winners == {attempts[i].backend : i \in {j \in DOMAIN attempts :
                                                    attempts[j].outcome = "SUCCEEDED"}}
<1>1. CASE step = "done" /\ workbook = copy
  <2>1. PICK i \in DOMAIN attempts : attempts[i].outcome = "SUCCEEDED" /\ Of(attempts[i].backend)
    BY <1>1 DEF LintInv, ChainInv, ValueInv
  <2>2. attempts[i].backend \in winners
    BY <2>1
  <2>3. values \subseteq {attempts[i].backend}
    BY <1>1, <2>1 DEF Of
  <2>4. QED
    BY <2>2, <2>3 DEF OneEngineValues
<1>2. CASE step = "failed" /\ workbook = source.cached
  <2>1. winners = {}
    BY <1>2 DEF LintInv, ChainInv, ValueInv
  <2>2. values \subseteq {"old"}
    BY <1>2 DEF LintInv, ChainInv, ValueInv
  <2>3. QED
    BY <2>1, <2>2 DEF OneEngineValues
<1>3. QED
  BY <1>1, <1>2 DEF LintInv, CommandInv

\* Who is authorised by the gates has a waiver of the whole rule.
LEMMA AuthorisedFacts ==
  ASSUME LintInv, built # NONE
  PROVE  /\ \A r \in Rule : Silences(r) => Approved(r)
         /\ \A r \in Loosens : Approved(r)
<1>1. \A r \in Authorised(built) : Approved(r)
  BY DEF Authorised, Approved, Good
<1>2. GatesPass(built)
  BY DEF LintInv, GateInv
<1>3. QED
  BY <1>1, <1>2 DEF GatesPass

\* Exit 0 is earned by every rule that is an error by default.
LEMMA ZeroLemma == LintInv => ZeroIsEarned
<1> SUFFICES ASSUME LintInv, Reported, exit = 0 PROVE ZeroIsEarned
  BY DEF ZeroIsEarned
<1>1. rule > NumRules /\ errors = {} /\ skipped = {} /\ built # NONE
  BY DEF Reported, LintInv, RuleInv
<1>2. ASSUME NEW r \in ErrorRule
      PROVE  \/ Approved(r)
             \/ /\ ranOn[r] # NONE
                /\ r \in ValueRule => \A c \in Cell : workbook[c] # NONE
                /\ found[r] = NONE \/ found[r].status = "INFO" \/ Excused(r)
  <2>1. r \in Rule
    BY LintRunAssumption, Zenon
  <2>2. r < rule
    <3>1. rule \in 1..(NumRules + 1)
      BY DEF LintInv, TypeOK
    <3>2. QED
      BY <1>1, <2>1, <3>1, ConstFacts DEF Rule
  <2>3. Settled(r)
    BY <2>1, <2>2 DEF LintInv, RuleInv
  <2>4. CASE is_off(r)
    BY <1>1, <2>1, <2>4, AuthorisedFacts DEF Silences, is_off
  <2>5. CASE severity_for(r) # "ERROR" /\ ~is_off(r)
    BY <1>1, <1>2, <2>1, <2>5, AuthorisedFacts DEF Silences, severity_for
  <2>6. CASE severity_for(r) = "ERROR" /\ ~is_off(r)
    <3>1. /\ ranOn[r] # NONE
          /\ r \in ValueRule => CachedValues
          /\ \/ found[r] = NONE
             \/ waiver_for(r, found[r].locus, ranOn[r])
             \/ found[r].status = "INFO"
      BY <1>1, <2>3, <2>6 DEF Settled, errors
    <3>2. waiver_for(r, found[r].locus, ranOn[r]) => Excused(r)
      BY DEF waiver_for, Excused, Good
    <3>3. QED
      BY <3>1, <3>2 DEF CachedValues
  <2>7. QED
    BY <2>4, <2>5, <2>6
<1>3. config.widened \subseteq {r \in Rule : Approved(r)}
  <2>1. config.widened \subseteq Widenable
    BY DEF LintInv, TypeOK, File, DefaultFile, config
  <2>2. Widenable \subseteq Rule
    BY LintRunAssumption, Zenon
  <2>3. config.widened \subseteq Loosens
    BY DEF Loosens
  <2>4. QED
    BY <1>1, <2>1, <2>2, <2>3, AuthorisedFacts
<1>4. config.raised => Approved(Budget)
  BY <1>1, AuthorisedFacts DEF Loosens
<1>5. QED
  BY <1>2, <1>3, <1>4 DEF ZeroIsEarned

-----------------------------------------------------------------------------

\* The variables keep their types.
THEOREM TypeCorrect == Spec => []TypeOK
BY Invariance, PTL DEF LintInv

\* However a command ends, its workspace is gone and its soffice stopped.
THEOREM NothingRemains == Spec => []NothingLeftBehind
<1>1. LintInv => NothingLeftBehind
  BY DEF LintInv, CommandInv
<1>2. QED
  BY <1>1, Invariance, PTL

\* The values that are judged come from one engine, or from the file as it was.
THEOREM OneOrigin == Spec => []OneEngineValues
BY Invariance, OriginLemma, PTL

\* Exit 0 is earned: nothing that would have been an error was left out, left
\* unjudged or excused without a waiver that was good that day.
THEOREM ZeroEarned == Spec => []ZeroIsEarned
BY Invariance, ZeroLemma, PTL
-----------------------------------------------------------------------------
(* How long a command can go on. *)

\* The steps one backend can take, from its offer on, and those of the backends
\* that have not been consulted.
Tried == Len(attempts)
PerBackend == MaxPolls + 8
BackendsLeft == IF Tried = 0 THEN 3 * PerBackend
                ELSE IF Tried = 1 THEN 2 * PerBackend
                ELSE IF Tried = 2 THEN PerBackend
                ELSE 0

\* The steps of the backend that has the workbook.
StepsLeft == IF step = "idle" THEN PerBackend + 1
             ELSE IF step = "offer" THEN PerBackend
             ELSE IF step = "libreoffice" THEN MaxPolls + 5
             ELSE IF step = "connect" THEN 4 + (MaxPolls - polls)
             ELSE IF step \in {"open", "excel_com"} THEN 3
             ELSE IF step \in {"calculate", "formulas", "workbook"} THEN 2
             ELSE IF step \in {"stop", "check", "quit"} THEN 1
             ELSE 0
ChainLeft == BackendsLeft + StepsLeft

\* The steps the command has left at most.
Ahead == IF pc = "probe" THEN 6
         ELSE IF pc \in {"measure", "read"} THEN 5
         ELSE IF pc = "construct" THEN 4
         ELSE 3
CommandLeft == IF pc \in BeforeLoad THEN Ahead + NumRules + ChainLeft
               ELSE IF pc = "rules" THEN (NumRules + 2) - rule
               ELSE 0

Numbers == /\ ChainLeft \in Nat /\ BackendsLeft \in Nat /\ StepsLeft \in Nat
           /\ CommandLeft \in Nat /\ (CommandLeft = 0 <=> pc = "end")

LEMMA ChainLeftType ==
  ASSUME ChainTypeOK
  PROVE  /\ ChainLeft \in Nat /\ BackendsLeft \in Nat /\ StepsLeft \in Nat
         /\ step \in ChainEnds \/ StepsLeft > 0
<1>1. MaxPolls \in Nat /\ polls \in 0..MaxPolls /\ step \in ChainSteps
  BY ChainAssumption DEF ChainTypeOK
<1>2. BackendsLeft \in Nat
  BY <1>1 DEF BackendsLeft, PerBackend
<1>3. StepsLeft \in Nat /\ (step \in ChainEnds \/ StepsLeft > 0)
  BY <1>1 DEF StepsLeft, PerBackend, ChainSteps, ChainEnds
<1> QED BY <1>2, <1>3 DEF ChainLeft

LEMMA AttemptsLength ==
  ASSUME ChainTypeOK
  PROVE  Tried \in 0..3
<1>1. attempts \in Seq([backend : Backend, outcome : Outcome]) /\ Tried <= 3
  BY BackendFacts DEF ChainTypeOK, Tried
<1>2. Tried \in Nat
  BY <1>1 DEF Tried
<1> QED BY <1>1, <1>2

\* An attempt that is recorded uses its backend up.
LEMMA RecordUses ==
  ASSUME ChainTypeOK, Tried < 3, NEW outcome \in Outcome, Record(outcome)
  PROVE  BackendsLeft = BackendsLeft' + PerBackend /\ BackendsLeft' \in Nat
<1> DEFINE n == Tried
           m == Tried'
           left(k) == IF k = 0 THEN 3 * PerBackend
                      ELSE IF k = 1 THEN 2 * PerBackend
                      ELSE IF k = 2 THEN PerBackend
                      ELSE 0
<1>1. n \in 0..3 /\ n < 3
  BY AttemptsLength
<1>2. m = n + 1
  BY RecordFacts DEF Tried
<1>3. PerBackend \in Nat
  BY ChainAssumption DEF PerBackend
<1>4. BackendsLeft = left(n) /\ BackendsLeft' = left(m)
  BY DEF BackendsLeft, PerBackend
<1> HIDE DEF n, m
<1>5. left(n) = left(m) + PerBackend /\ left(m) \in Nat
  BY <1>1, <1>2, <1>3
<1> QED BY <1>4, <1>5

\* One backend less, or as many and fewer steps of this one.
LEMMA ChainFalls ==
  ASSUME BackendsLeft \in Nat, StepsLeft \in Nat, StepsLeft' \in Nat,
         \/ BackendsLeft' = BackendsLeft /\ StepsLeft' < StepsLeft
         \/ /\ BackendsLeft = BackendsLeft' + PerBackend /\ BackendsLeft' \in Nat
            /\ StepsLeft > 0 /\ StepsLeft' \in {0, PerBackend}
  PROVE  ChainLeft' < ChainLeft
<1> DEFINE b == BackendsLeft
           c == BackendsLeft'
           s == StepsLeft
           t == StepsLeft'
           x == ChainLeft
           y == ChainLeft'
<1>1. x = b + s /\ y = c + t
  BY DEF ChainLeft
<1>2. PerBackend \in Nat
  BY ChainAssumption DEF PerBackend
<1>3. /\ b \in Nat /\ s \in Nat /\ t \in Nat
      /\ \/ c = b /\ t < s
         \/ b = c + PerBackend /\ c \in Nat /\ s > 0 /\ t \in {0, PerBackend}
  OBVIOUS
<1> HIDE DEF b, c, s, t, x, y
<1>4. y < x
  BY <1>1, <1>2, <1>3
<1> QED BY <1>4 DEF x, y

LEMMA ChainGoesOn ==
  ASSUME ChainInv, Numbers, Numbers', ChainStep
  PROVE  ChainLeft' < ChainLeft
<1>1. MaxPolls \in Nat /\ polls \in 0..MaxPolls /\ PerBackend = MaxPolls + 8
  BY ChainAssumption DEF ChainInv, ChainTypeOK, PerBackend
<1>2. BackendsLeft \in Nat /\ (step \in ChainEnds \/ StepsLeft > 0) /\ StepsLeft \in Nat
  BY ChainLeftType DEF ChainInv
<1>3. StepsLeft' \in Nat
  BY DEF Numbers
<1>4. ASSUME attempts' = attempts, StepsLeft' < StepsLeft
      PROVE  ChainLeft' < ChainLeft
  <2>1. BackendsLeft' = BackendsLeft
    BY <1>4 DEF BackendsLeft, PerBackend, Tried
  <2> QED BY <1>2, <1>3, <1>4, <2>1, ChainFalls
<1>5. ASSUME NEW outcome \in Outcome, Record(outcome), Tried < 3, step \notin ChainEnds,
             step' \in {"offer", "done"}
      PROVE  ChainLeft' < ChainLeft
  <2>1. BackendsLeft = BackendsLeft' + PerBackend /\ BackendsLeft' \in Nat
    BY <1>5, RecordUses DEF ChainInv, Tried
  <2>2. StepsLeft' \in {0, PerBackend}
    BY <1>5 DEF StepsLeft, PerBackend
  <2> QED BY <1>2, <1>3, <1>5, <2>1, <2>2, ChainFalls
<1>6. ASSUME FailAttempt \/ Succeed, step \in BackendSteps
      PROVE  ChainLeft' < ChainLeft
  <2>1. Tried < 3
    BY <1>6 DEF ChainInv, TurnInv, Turn, Tried, BackendSteps
  <2> QED BY <1>5, <1>6, <2>1 DEF FailAttempt, Succeed, Outcome, BackendSteps, OfficeSteps, ChainEnds
<1>7. Tried \in 0..3 /\ (AllConsulted <=> Tried = 3)
  BY AttemptsLength, BackendFacts DEF ChainInv, AllConsulted, Tried
<1>8. CASE Recalculate \/ RaiseRecalcFailed
  BY <1>1, <1>4, <1>8 DEF Recalculate, RaiseRecalcFailed, StepsLeft
<1>9. CASE Unavailable
  <2>1. Tried < 3
    BY <1>7, <1>9 DEF Unavailable
  <2> QED BY <1>5, <1>9, <2>1 DEF Unavailable, Outcome, ChainEnds
<1>10. CASE StageCopy
  <2>1. Tried \in {0, 1, 2}
    BY <1>7, <1>10 DEF StageCopy
  <2>2. turn \in {"formulas", "libreoffice", "excel_com"}
    <3>1. turn = default_backends[Tried + 1]
      BY DEF turn, Tried
    <3> QED BY <2>1, <3>1, BackendFacts
  <2> QED BY <1>1, <1>4, <1>10, <2>2 DEF StageCopy, StepsLeft
<1>11. CASE FormulasStep
  <2>1. step \in BackendSteps
    BY <1>11 DEF FormulasStep, ComputeAndWrite, FormulasRaises, CheckComplete, BackendSteps
  <2>2. CASE ComputeAndWrite
    BY <1>4, <2>2 DEF ComputeAndWrite, StepsLeft
  <2> QED BY <1>6, <1>11, <2>1, <2>2 DEF FormulasStep, FormulasRaises, CheckComplete
<1>12. CASE OfficeStep
  <2>1. step \in BackendSteps
    BY <1>12 DEF OfficeStep, StartOffice, OfficeNotStarted, NotYetListening, Connected,
       OpenDocument, CalculateAndStore, StopOffice, OfficeFails, BackendSteps, OfficeSteps
  <2>2. CASE StartOffice \/ NotYetListening
    BY <1>1, <1>4, <2>2 DEF StartOffice, NotYetListening, StepsLeft
  <2>3. CASE Connected \/ OpenDocument \/ CalculateAndStore
    BY <1>1, <1>4, <2>3 DEF Connected, OpenDocument, CalculateAndStore, StepsLeft
  <2> QED BY <1>6, <1>12, <2>1, <2>2, <2>3
          DEF OfficeStep, OfficeNotStarted, StopOffice, OfficeFails
<1>13. CASE ExcelStep
  <2>1. step \in BackendSteps
    BY <1>13 DEF ExcelStep, DispatchExcel, SaveWorkbook, QuitExcel, ExcelFails, QuitRaises,
       BackendSteps
  <2>2. ASSUME DispatchExcel PROVE ChainLeft' < ChainLeft
    <3>1. ASSUME step = "excel_com", step' = "workbook", UNCHANGED attempts
          PROVE  ChainLeft' < ChainLeft
      BY <1>4, <3>1 DEF StepsLeft
    <3> QED BY <1>6, <2>1, <2>2, <3>1 DEF DispatchExcel
  <2>3. CASE SaveWorkbook
    BY <1>4, <2>3 DEF SaveWorkbook, StepsLeft
  <2> QED BY <1>6, <1>13, <2>1, <2>2, <2>3 DEF ExcelStep, QuitExcel, ExcelFails, QuitRaises
<1> QED BY <1>8, <1>9, <1>10, <1>11, <1>12, <1>13 DEF ChainStep

LEMMA NumbersHold == LintInv => Numbers
<1> SUFFICES ASSUME LintInv PROVE Numbers
  OBVIOUS
<1>1. NumRules \in Nat /\ rule \in 1..(NumRules + 1)
  BY ConstFacts DEF LintInv, TypeOK
<1>2. ChainLeft \in Nat /\ BackendsLeft \in Nat /\ StepsLeft \in Nat
  BY ChainLeftType DEF LintInv, TypeOK
<1>3. pc \in BeforeLoad \cup {"rules", "end"} /\ BeforeLoad \cap {"rules", "end"} = {}
  BY DEF LintInv, TypeOK, BeforeLoad
<1>4. Ahead \in 3..6
  BY DEF Ahead
<1>5. CommandLeft \in Nat /\ (CommandLeft = 0 <=> pc = "end")
  BY <1>1, <1>2, <1>3, <1>4 DEF CommandLeft
<1> QED BY <1>2, <1>5 DEF Numbers

LEMMA ChainStill ==
  ASSUME UNCHANGED <<attempts, step, polls>>
  PROVE  ChainLeft' = ChainLeft /\ BackendsLeft' = BackendsLeft
<1>1. BackendsLeft' = BackendsLeft /\ StepsLeft' = StepsLeft
  BY DEF BackendsLeft, StepsLeft, PerBackend, Tried
<1> QED BY <1>1 DEF ChainLeft

\* Before the workbook is loaded, a step ahead or a step of the chain.
LEMMA CommandFalls ==
  ASSUME Numbers, Numbers', pc \in BeforeLoad, pc' \in BeforeLoad,
         \/ ChainLeft' = ChainLeft /\ Ahead' < Ahead
         \/ ChainLeft' < ChainLeft /\ Ahead' = Ahead
  PROVE  CommandLeft' < CommandLeft
<1> DEFINE a == Ahead
           b == Ahead'
           c == ChainLeft
           d == ChainLeft'
           x == CommandLeft
           y == CommandLeft'
<1>1. x = a + NumRules + c /\ y = b + NumRules + d
  BY DEF CommandLeft
<1>2. a \in 3..6 /\ b \in 3..6 /\ c \in Nat /\ d \in Nat /\ NumRules \in Nat
  BY ConstFacts DEF Ahead, Numbers
<1>3. \/ d = c /\ b < a
      \/ d < c /\ b = a
  OBVIOUS
<1> HIDE DEF a, b, c, d, x, y
<1>4. y < x
  BY <1>1, <1>2, <1>3
<1> QED BY <1>4 DEF x, y

\* The rules that are left, from the load on.
LEMMA RulesLeft ==
  ASSUME Numbers, Numbers', LintInv, pc' = "rules",
         \/ pc = "rules" /\ rule' = rule + 1
         \/ pc = "recalc" /\ rule' = rule
  PROVE  CommandLeft' < CommandLeft
<1> DEFINE c == ChainLeft
           m == rule
           n == rule'
           x == CommandLeft
           y == CommandLeft'
<1>1. y = (NumRules + 2) - n
  BY DEF CommandLeft, BeforeLoad
<1>2. \/ x = (NumRules + 2) - m /\ n = m + 1
      \/ x = 3 + NumRules + c /\ n = m
  BY DEF CommandLeft, BeforeLoad, Ahead
<1>3. NumRules \in Nat /\ m \in 1..(NumRules + 1) /\ c \in Nat
  BY ConstFacts DEF LintInv, TypeOK, Numbers
<1> HIDE DEF c, m, n, x, y
<1>4. y < x
  BY <1>1, <1>2, <1>3
<1> QED BY <1>4 DEF x, y

LEMMA EndFalls ==
  ASSUME Numbers, Numbers', pc # "end", pc' = "end"
  PROVE  CommandLeft' < CommandLeft
<1> DEFINE x == CommandLeft
           y == CommandLeft'
<1>1. x \in Nat /\ x # 0 /\ y = 0
  BY DEF Numbers
<1> HIDE DEF x, y
<1>2. y < x
  BY <1>1
<1> QED BY <1>2 DEF x, y

LEMMA CommandGoesOn ==
  ASSUME LintInv, LintInv', Numbers, Numbers', Command
  PROVE  CommandLeft' < CommandLeft
<1>1. CASE Probe \/ Measure \/ LoadConfig \/ ConstructConfig
  <2>1. ChainLeft' = ChainLeft
    BY <1>1, ChainStill DEF Probe, Measure, LoadConfig, ConstructConfig, chainVars
  <2>2. pc # "end" /\ (pc' = "end" \/ (pc \in BeforeLoad /\ pc' \in BeforeLoad /\ Ahead' < Ahead))
    BY <1>1 DEF Probe, Measure, LoadConfig, ConstructConfig, Exits, BeforeLoad, Ahead
  <2> QED BY <2>1, <2>2, CommandFalls, EndFalls
<1>2. CASE RunChain
  <2>1. pc = "recalc" /\ pc' = "recalc"
    BY <1>2 DEF RunChain, lintVars
  <2>2. ChainLeft' < ChainLeft
    BY <1>2, ChainGoesOn DEF RunChain, LintInv
  <2>3. Ahead' = Ahead /\ pc \in BeforeLoad /\ pc' \in BeforeLoad
    BY <2>1 DEF Ahead, BeforeLoad
  <2> QED BY <2>2, <2>3, CommandFalls
<1>3. CASE LoadCopy \/ LoadSource
  <2>1. pc = "recalc" /\ (pc' = "end" \/ (pc' = "rules" /\ rule' = rule))
    BY <1>3 DEF LoadCopy, LoadSource, Exits
  <2> QED BY <2>1, RulesLeft, EndFalls
<1>4. CASE CopyUnreadable \/ RecalcRaised \/ RuleRaises \/ PrintReport
  <2>1. pc # "end" /\ pc' = "end"
    BY <1>4 DEF CopyUnreadable, RecalcRaised, RuleRaises, PrintReport, Exits, Running
  <2> QED BY <2>1, EndFalls
<1>5. CASE PassOver \/ SkipRule \/ CheckRule
  <2>1. pc = "rules" /\ pc' = "rules" /\ rule' = rule + 1
    BY <1>5 DEF PassOver, SkipRule, CheckRule, NextRule, Running
  <2> QED BY <2>1, RulesLeft
<1> QED BY <1>1, <1>2, <1>3, <1>4, <1>5 DEF Command

LEMMA SurroundingsAddNothing ==
  ASSUME LintInv, LintInv', Numbers, Numbers', Surroundings \/ Ended
  PROVE  CommandLeft' <= CommandLeft
<1> DEFINE x == CommandLeft
           y == CommandLeft'
<1>1. x \in Nat /\ y \in Nat
  BY DEF Numbers
<1>2. CASE Midnight \/ LoseSource \/ Ended
  <2>1. pc' = pc /\ rule' = rule /\ UNCHANGED <<attempts, step, polls>>
    BY <1>2 DEF Midnight, LoseSource, SourceLost, Ended, vars, chainVars, lintVars
  <2>2. ChainLeft' = ChainLeft
    BY <2>1, ChainStill
  <2>3. y = x
    BY <2>1, <2>2 DEF CommandLeft, Ahead
  <2> HIDE DEF x, y
  <2>4. y <= x
    BY <1>1, <2>3
  <2> QED BY <2>4 DEF x, y
<1>3. CASE InterruptChain
  <2>1. /\ pc = "recalc" /\ pc' = "recalc"
        /\ step \notin ChainEnds /\ step' = "interrupted" /\ attempts' = attempts
    BY <1>3 DEF InterruptChain, Interrupt, lintVars
  <2>2. BackendsLeft' = BackendsLeft /\ StepsLeft' = 0
    BY <2>1 DEF BackendsLeft, StepsLeft, PerBackend, Tried
  <2>3. StepsLeft > 0
    BY <2>1, ChainLeftType DEF LintInv, TypeOK
  <2>4. ChainLeft' < ChainLeft
    BY <2>2, <2>3, ChainFalls DEF Numbers
  <2>5. Ahead' = Ahead /\ pc \in BeforeLoad /\ pc' \in BeforeLoad
    BY <2>1 DEF Ahead, BeforeLoad
  <2>6. y < x
    BY <2>4, <2>5, CommandFalls
  <2> HIDE DEF x, y
  <2>7. y <= x
    BY <1>1, <2>6
  <2> QED BY <2>7 DEF x, y
<1>4. CASE InterruptLint
  <2>1. pc # "end" /\ pc' = "end"
    BY <1>4 DEF InterruptLint, Exits
  <2>2. y < x
    BY <2>1, EndFalls
  <2> HIDE DEF x, y
  <2>3. y <= x
    BY <1>1, <2>2
  <2> QED BY <2>3 DEF x, y
<1> QED BY <1>2, <1>3, <1>4 DEF Surroundings

\* What a step does to the steps the command has left.
UsesUp == CommandLeft' <= CommandLeft /\ (Command => CommandLeft' < CommandLeft)

\* A command is bounded, whatever fails: every step of it uses up one of the
\* steps it has left, midnights, Ctrl-C and other programs give it none, and it
\* starts with a number that the rules and the connection attempts fix.  With
\* what LintEnds assumes, that it goes on as long as it can, it ends.
\* (_run_chain, _connect's deadline, lint())
THEOREM RunIsBounded ==
  Spec => /\ CommandLeft = NumRules + 4 * MaxPolls + 39
          /\ [](CommandLeft \in Nat /\ (CommandLeft = 0 <=> pc = "end"))
          /\ [][UsesUp]_vars
<1>1. Init => CommandLeft = NumRules + 4 * MaxPolls + 39
  <2> SUFFICES ASSUME Init PROVE CommandLeft = NumRules + 4 * MaxPolls + 39
    OBVIOUS
  <2>1. NumRules \in Nat /\ MaxPolls \in Nat
    BY ConstFacts, ChainAssumption
  <2>2. pc = "probe" /\ step = "idle" /\ attempts = <<>>
    BY DEF Init, ChainInit
  <2>3. Tried = 0
    BY <2>2 DEF Tried
  <2>4. BackendsLeft = 3 * (MaxPolls + 8) /\ StepsLeft = MaxPolls + 9 /\ Ahead = 6
    BY <2>1, <2>2, <2>3 DEF BackendsLeft, StepsLeft, PerBackend, Ahead
  <2>5. CommandLeft = 6 + NumRules + (3 * (MaxPolls + 8) + (MaxPolls + 9))
    BY <2>2, <2>4 DEF CommandLeft, ChainLeft, BeforeLoad
  <2> QED BY <2>1, <2>5
<1>2. Numbers => CommandLeft \in Nat /\ (CommandLeft = 0 <=> pc = "end")
  BY DEF Numbers
<1>3. LintInv /\ LintInv' /\ Numbers /\ Numbers' /\ [Next]_vars => [UsesUp]_vars
  <2> SUFFICES ASSUME LintInv, LintInv', Numbers, Numbers', Next PROVE UsesUp
    OBVIOUS
  <2>1. CASE Command
    <3> DEFINE x == CommandLeft
               y == CommandLeft'
    <3>1. y < x /\ x \in Nat /\ y \in Nat
      BY <2>1, CommandGoesOn DEF Numbers
    <3> HIDE DEF x, y
    <3>2. y <= x
      BY <3>1
    <3> QED BY <3>1, <3>2 DEF x, y, UsesUp
  <2>2. CASE ~Command /\ (Surroundings \/ Ended)
    BY <2>2, SurroundingsAddNothing DEF UsesUp
  <2> QED BY <2>1, <2>2 DEF Next
<1> QED BY <1>1, <1>2, <1>3, Invariance, NumbersHold, PTL DEF Spec

=============================================================================
