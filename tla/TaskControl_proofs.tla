------------------------- MODULE TaskControl_proofs -------------------------
(***************************************************************************)
(* Proofs about TaskControl, for any number of tasks, artifacts, approvals *)
(* and processes, any assignment of lanes, and with no bound on overlapping*)
(* start-ups or on how long a run lasts.                                   *)
(***************************************************************************)
EXTENDS TaskControl, TLAPS

(* TypeOK is not inductive: the insert of a claim needs to know that the   *)
(* artifact it was checked for is one of the task's.                       *)
TargetOK ==
  \A p \in Proc, t \in Task :
    stage[p][t] = "checked" => target[p][t] \in ArtifactsOf[t]

\* No command is about to make a task run or wait, and one that holds an
\* approval is about the task of that approval.
CommandOK ==
  \A k \in Clerk :
    /\ errand[k].row.status \notin {"running", "awaiting_approval"}
    /\ errand[k].approval # NONE =>
         /\ errand[k].task \in Task
         /\ approvals[errand[k].approval].task = errand[k].task

\* A copy waits exactly while its thread is between the commits of a request.
AskingOK ==
  \A p \in Proc, t \in Task :
    held[p][t].status = "awaiting_approval" <=> stage[p][t] = "asking"

TypeInv == TypeOK /\ TargetOK /\ CommandOK /\ AskingOK

-----------------------------------------------------------------------------
(* Saving a row, moving a thread and dropping it keep the types.           *)

\* What the row constructors return, and that they keep the approved actions.
LEMMA RowFacts ==
  ASSUME NEW r \in Row, NEW s \in Status, NEW o \in Token
  PROVE  /\ WithStatus(r, s) \in Row
         /\ WithStatus(r, s).status = s
         /\ WithStatus(r, s).approved = r.approved
         /\ Running(r, o) \in Row
         /\ Running(r, o).approved = r.approved
         /\ \A a \in ApprovalId : /\ Waiting(r, a) \in Row
                                /\ Waiting(r, a).status = "awaiting_approval"
                                /\ Waiting(r, a).approved = r.approved
                                /\ Waiting(r, a).pending = a
         /\ AbsentRow \in Row
BY DEF Row, WithStatus, Running, Waiting, Status, AbsentRow

\* A command in progress is at one of its steps, about a task.
LEMMA ErrandFacts ==
  ASSUME NEW k \in Clerk, TypeInv
  PROVE  /\ errand[k] \in Errand
         /\ errand[k].row \in Row
         /\ errand[k].step # "idle" => errand[k].task \in Task
         /\ errand[k].step \in Verdict => errand[k].approval \in ApprovalId
         /\ errand[k].approval \in ApprovalId \cup {NONE}
         /\ errand[k].step = "idle" => errand[k].approval = NONE
<1>1. errand[k] \in Errand /\ AbsentRow \in Row
  BY DEF TypeInv, TypeOK, AbsentRow, Row, Status
<1>2. QED
  BY <1>1 DEF Errand, NoErrand, Verdict

\* What approve makes of a row: queued, with the granted actions added.
LEMMA ApprovedRow ==
  ASSUME NEW a \in ApprovalId, TypeOK, approvals[a].task \in Task
  PROVE  Approved(a) \in Row /\ Approved(a).status = "queued"
<1> DEFINE t == approvals[a].task
           act == approvals[a].action
<1>1. act \in Action
  BY ConstantsAssumption DEF TypeOK, NoApproval, Approval
<1>2. Grants(t, act) \subseteq Action
  BY <1>1 DEF Grants, Action
<1>3. tasks[t] \in Row
  BY DEF TypeOK
<1>4. QED
  BY <1>2, <1>3 DEF Approved, Row, Status

\* A command that reads a task is about to save a row of that task that neither
\* runs nor waits, and adds approved actions only for a verdict "approved".
LEMMA FetchFacts ==
  ASSUME NEW k \in Clerk, TypeInv,
         \/ \E u \in Pausable, s \in {"paused", "queued"} :
              PauseOrResume(k, u, s)
         \/ Approve(k) \/ Reject(k)
  PROVE  \E a \in ApprovalId \cup {NONE}, t \in Task, row \in Row :
           /\ Fetched(k, a, t, row)
           /\ commands' \in Nat
           /\ row.status \notin {"running", "awaiting_approval"}
           /\ \/ row.approved = tasks[t].approved
              \/ errand[k].step = "approved" /\ t = errand[k].task
           /\ \/ a = NONE /\ errand[k].step = "idle"
              \/ a = errand[k].approval /\ t = errand[k].task
<1>a. commands \in Nat
  BY DEF TypeInv, TypeOK
<1>1. ASSUME NEW t \in Pausable, NEW s \in {"paused", "queued"},
             PauseOrResume(k, t, s)
      PROVE  \E row \in Row :
               /\ Fetched(k, NONE, t, row)
               /\ row.status = s /\ row.approved = tasks[t].approved
  <2>1. tasks[t] \in Row /\ s \in Status
    BY ConstantsAssumption DEF TypeInv, TypeOK, Status
  <2>2. /\ WithStatus(tasks[t], s) \in Row
        /\ WithStatus(tasks[t], s).status = s
        /\ WithStatus(tasks[t], s).approved = tasks[t].approved
    BY <2>1 DEF WithStatus, Row
  <2>3. QED
    BY <1>1, <2>2 DEF PauseOrResume
<1>2. CASE Reject(k)
  <2> DEFINE t == errand[k].task
             row == WithStatus(tasks[t], "failed")
  <2>1. t \in Task /\ errand[k].approval \in ApprovalId
    BY <1>2, ErrandFacts DEF Reject, Verdict
  <2>2. tasks[t] \in Row
    BY <2>1 DEF TypeInv, TypeOK
  <2>3. /\ row \in Row /\ row.status = "failed"
        /\ row.approved = tasks[t].approved
    BY <2>2 DEF WithStatus, Row, Status
  <2>4. Fetched(k, errand[k].approval, t, row) /\ commands' \in Nat
    BY <1>2, <1>a DEF Reject
  <2> HIDE DEF row
  <2>5. QED
    BY <2>1, <2>3, <2>4
<1>3. CASE Approve(k)
  <2> DEFINE t == errand[k].task
             a == errand[k].approval
             row == Approved(a)
  <2>1. t \in Task /\ a \in ApprovalId
    BY <1>3, ErrandFacts DEF Approve, Verdict
  <2>2. row \in Row /\ row.status = "queued"
    <3>1. approvals[a].task \in Task
      BY <2>1, ConstantsAssumption DEF TypeInv, CommandOK
    <3>2. QED
      BY <2>1, <3>1, ApprovedRow DEF TypeInv
  <2>3. Fetched(k, a, t, row) /\ commands' \in Nat /\ errand[k].step = "approved"
    BY <1>3, <1>a DEF Approve
  <2> HIDE DEF row
  <2>4. QED
    BY <2>1, <2>2, <2>3
<1>4. CASE \E t \in Pausable, s \in {"paused", "queued"} : PauseOrResume(k, t, s)
  <2>1. PICK t \in Pausable, s \in {"paused", "queued"} : PauseOrResume(k, t, s)
    BY <1>4
  <2>2. commands' \in Nat /\ errand[k].step = "idle"
    BY <1>a, <2>1 DEF PauseOrResume, Begin
  <2>3. t \in Task
    BY ConstantsAssumption
  <2>4. QED
    BY <1>1, <2>1, <2>2, <2>3
<1>5. QED
  BY <1>2, <1>3, <1>4

\* Saving a row changes that row only.
LEMMA SaveFacts ==
  ASSUME NEW t \in Task, NEW row \in Row, tasks \in [Task -> Row], Save(t, row)
  PROVE  /\ tasks' \in [Task -> Row]
         /\ tasks'[t] = row
         /\ \A u \in Task \ {t} : tasks'[u] = tasks[u]
BY DEF Save

\* The token of a process is a token.
LEMMA TokenType ==
  ASSUME NEW p \in Proc, TypeOK
  PROVE  TokenOf(p) \in Token
BY DEF TokenOf, Token, TypeOK

\* A thread that leaves keeps the shape of the memory of the processes.
LEMMA LeaveType ==
  ASSUME NEW p \in Proc, NEW t \in Task, TypeInv, Leave(p, t)
  PROVE  /\ held' \in [Proc -> [Task -> Row]]
         /\ stage' \in [Proc -> [Task -> Stage]]
         /\ got' \in [Proc -> [Task -> SUBSET Artifact]]
         /\ target' \in [Proc -> [Task -> Artifact \cup {NONE}]]
         /\ TargetOK' /\ AskingOK'
<1>1. AbsentRow \in Row
  BY DEF AbsentRow, Row, Status
<1>2. /\ held' \in [Proc -> [Task -> Row]]
      /\ stage' \in [Proc -> [Task -> Stage]]
      /\ got' \in [Proc -> [Task -> SUBSET Artifact]]
      /\ target' \in [Proc -> [Task -> Artifact \cup {NONE}]]
  BY <1>1 DEF TypeInv, TypeOK, Leave, GoTo, Stage
<1>3. TargetOK' /\ AskingOK'
  BY DEF TypeInv, TypeOK, TargetOK, AskingOK, AbsentRow, Leave, GoTo
<1>4. QED
  BY <1>2, <1>3

\* A process that ends keeps the shape of the memory of the processes.
LEMMA VanishType ==
  ASSUME NEW p \in Proc, TypeInv, Vanish(p)
  PROVE  /\ phase' \in [Proc -> {"down", "starting", "ready", "serving", "cycled"}]
         /\ starts' \in [Proc -> Nat]
         /\ seen' \in [Proc -> Token \cup {NONE}]
         /\ held' \in [Proc -> [Task -> Row]]
         /\ stage' \in [Proc -> [Task -> Stage]]
         /\ got' \in [Proc -> [Task -> SUBSET Artifact]]
         /\ target' \in [Proc -> [Task -> Artifact \cup {NONE}]]
         /\ TargetOK' /\ AskingOK'
<1>1. AbsentRow \in Row
  BY DEF AbsentRow, Row, Status
<1>2. /\ phase' \in [Proc -> {"down", "starting", "ready", "serving", "cycled"}]
      /\ starts' \in [Proc -> Nat]
      /\ seen' \in [Proc -> Token \cup {NONE}]
  BY DEF TypeInv, TypeOK, Vanish
<1>3. /\ held' \in [Proc -> [Task -> Row]]
      /\ stage' \in [Proc -> [Task -> Stage]]
  BY <1>1 DEF TypeInv, TypeOK, Vanish, Stage
<1>4. /\ got' \in [Proc -> [Task -> SUBSET Artifact]]
      /\ target' \in [Proc -> [Task -> Artifact \cup {NONE}]]
  BY DEF TypeInv, TypeOK, Vanish
<1>5. TargetOK' /\ AskingOK'
  BY DEF TypeInv, TypeOK, TargetOK, AskingOK, AbsentRow, Vanish
<1>6. QED
  BY <1>2, <1>3, <1>4, <1>5

-----------------------------------------------------------------------------
\* The operators' commands keep the types.
LEMMA OperatorType ==
  ASSUME TypeInv, Operator
  PROVE  TypeInv'
<1>a. AbsentRow \in Row /\ AbsentRow.status = "absent"
  BY DEF AbsentRow, Row, Status
<1>1. ASSUME NEW t \in Task, Submit(t) PROVE TypeInv'
  <2>1. tasks' \in [Task -> Row]
    BY <1>1 DEF TypeInv, TypeOK, Submit, Save, AbsentRow, WithStatus, Row,
       Status
  <2>2. QED
    BY <1>1, <2>1 DEF TypeInv, TypeOK, TargetOK, AskingOK, CommandOK, Submit,
       life, work, people
<1>2. ASSUME NEW k \in Clerk, NEW a \in ApprovalId, NEW verdict \in Verdict,
             Resolve(k, a, verdict)
      PROVE  TypeInv'
  <2>1. approvals[a] \in Approval
    BY <1>2 DEF TypeInv, TypeOK, Resolve
  <2>2. approvals[a].task \in Task /\ approvals[a].action \in Action
    BY <2>1 DEF Approval
  <2>3. /\ approvals' \in [ApprovalId -> Approval \cup {NoApproval}]
        /\ \A b \in ApprovalId : approvals'[b].task = approvals[b].task
    BY <1>2, <2>2 DEF TypeInv, TypeOK, Resolve, Approval, Verdict
  <2>4. errand' \in [Clerk -> Errand] /\ commands' \in Nat
    BY <1>2, <2>2 DEF TypeInv, TypeOK, Resolve, Begin, Errand
  <2>5. granted' \subseteq Task /\ stranded' \subseteq ApprovalId
    BY <1>2, <2>2 DEF TypeInv, TypeOK, Resolve
  <2>6. CommandOK'
    <3>1. ASSUME NEW j \in Clerk \ {k} PROVE errand'[j] = errand[j]
      BY <1>2 DEF Resolve, TypeInv, TypeOK
    <3>2. /\ errand'[k].row = AbsentRow
          /\ errand'[k].approval = a
          /\ errand'[k].task = approvals[a].task
      BY <1>2 DEF Resolve, TypeInv, TypeOK
    <3>3. \A j \in Clerk : errand[j].approval \in ApprovalId \cup {NONE}
      BY ErrandFacts
    <3>4. QED
      BY <1>a, <2>2, <2>3, <3>1, <3>2, <3>3 DEF TypeInv, CommandOK
  <2>7. QED
    BY <1>2, <2>3, <2>4, <2>5, <2>6 DEF TypeInv, TypeOK, TargetOK, AskingOK,
       Resolve, life, work
<1>3. ASSUME NEW k \in Clerk,
             \/ \E u \in Pausable, s \in {"paused", "queued"} :
                  PauseOrResume(k, u, s)
             \/ Approve(k) \/ Reject(k)
      PROVE  TypeInv'
  <2>1. PICK a \in ApprovalId \cup {NONE}, t \in Task, row \in Row :
          /\ Fetched(k, a, t, row)
          /\ commands' \in Nat
          /\ row.status \notin {"running", "awaiting_approval"}
          /\ \/ a = NONE /\ errand[k].step = "idle"
             \/ a = errand[k].approval /\ t = errand[k].task
    BY <1>3, FetchFacts
  <2> DEFINE new == [step |-> "read", approval |-> a, task |-> t, row |-> row]
  <2>2. errand' = [errand EXCEPT ![k] = new]
    BY <2>1 DEF Fetched
  <2>3. new \in Errand
    BY DEF Errand
  <2>4. new.row = row /\ new.approval = a /\ new.task = t
    OBVIOUS
  <2> HIDE DEF new
  <2>5. errand' \in [Clerk -> Errand] /\ errand'[k] = new
        /\ \A j \in Clerk \ {k} : errand'[j] = errand[j]
    BY <2>2, <2>3 DEF TypeInv, TypeOK
  <2>6. UNCHANGED <<store, life, work, granted, stranded>>
    BY <2>1 DEF Fetched
  <2>7. CommandOK'
    BY <2>1, <2>4, <2>5, <2>6 DEF TypeInv, CommandOK, store
  <2>8. QED
    BY <2>1, <2>5, <2>6, <2>7 DEF TypeInv, TypeOK, TargetOK, AskingOK, store,
       life, work
<1>4. ASSUME NEW k \in Clerk, SaveTask(k) PROVE TypeInv'
  <2>1. tasks' \in [Task -> Row]
    BY <1>4, ErrandFacts, SaveFacts DEF SaveTask, TypeInv, TypeOK
  <2>2. errand' \in [Clerk -> Errand]
    BY <1>4 DEF SaveTask, TypeInv, TypeOK, Errand
  <2>3. CommandOK'
    BY <1>4, <1>a DEF SaveTask, TypeInv, TypeOK, CommandOK, NoErrand
  <2>4. QED
    BY <1>4, <2>1, <2>2, <2>3 DEF TypeInv, TypeOK, TargetOK, AskingOK,
       SaveTask, life, work
<1>5. ASSUME NEW k \in Clerk, KillCommand(k) PROVE TypeInv'
  <2>1. errand' \in [Clerk -> Errand] /\ stranded' \subseteq ApprovalId
    BY <1>5, ErrandFacts DEF KillCommand, TypeInv, TypeOK, Errand
  <2>2. CommandOK'
    BY <1>5, <1>a DEF KillCommand, TypeInv, TypeOK, CommandOK, NoErrand, store
  <2>3. QED
    BY <1>5, <2>1, <2>2 DEF TypeInv, TypeOK, TargetOK, AskingOK, KillCommand,
       store, life, work
<1>6. QED
  BY <1>1, <1>2, <1>3, <1>4, <1>5 DEF Operator

\* Starting, recovering, serving and ending keep the types.
LEMMA LifecycleType ==
  ASSUME TypeInv, NEW p \in Proc, Lifecycle(p)
  PROVE  TypeInv'
<1>1. ASSUME StartProc(p) PROVE TypeInv'
  <2>1. LiveToken \in Token \cup {NONE}
    BY DEF TypeInv, TypeOK, LiveToken
  <2>2. QED
    BY <1>1, <2>1 DEF TypeInv, TypeOK, TargetOK, AskingOK, CommandOK, people,
       StartProc, store, work
<1>2. ASSUME RecoverInterrupted(p) PROVE TypeInv'
  <2>1. tasks' \in [Task -> Row]
    BY <1>2 DEF TypeInv, TypeOK, RecoverInterrupted, Row, Status
  <2>2. claims' \subseteq Task \X Artifact
    BY <1>2 DEF TypeInv, TypeOK, RecoverInterrupted
  <2>3. QED
    BY <1>2, <2>1, <2>2 DEF TypeInv, TypeOK, TargetOK, AskingOK, CommandOK,
       people, RecoverInterrupted, work
<1>3. ASSUME TakeLock(p) PROVE TypeInv'
  <2>1. TokenOf(p) \in Token
    BY TokenType DEF TypeInv
  <2>2. QED
    BY <1>3, <2>1 DEF TypeInv, TypeOK, TargetOK, AskingOK, CommandOK, people,
       TakeLock, store, work
<1>4. ASSUME Vanish(p), UNCHANGED <<tasks, approvals, people>>,
             claims' \subseteq claims, DropLock(p) \/ UNCHANGED lock
      PROVE  TypeInv'
  <2>1. lock' \in Token \cup {NONE}
    BY <1>4 DEF TypeInv, TypeOK, DropLock
  <2>2. QED
    BY <1>4, <2>1, VanishType DEF TypeInv, TypeOK, CommandOK, people
<1>5. CASE Exit(p) \/ Crash(p) \/ Cancel(p)
  BY <1>4, <1>5 DEF Exit, Crash, Cancel, Unwind, store
<1>6. QED
  BY <1>1, <1>2, <1>3, <1>5 DEF Lifecycle

\* Expiring, releasing stale claims and listing a batch keep the types.
LEMMA HousekeepingType ==
  ASSUME TypeInv, NEW p \in Proc, Housekeeping(p)
  PROVE  TypeInv'
<1>1. PICK E \in SUBSET Expirable, R \in SUBSET claims :
        \/ RecoverCommand(p, E, R)
        \/ \E batch \in SUBSET Task : Cycle(p, E, R, batch)
  BY DEF Housekeeping
<1>2. Expired(E) \in [Task -> Row]
  BY DEF TypeInv, TypeOK, Expired, WithStatus, Row, Status
<1>3. CASE RecoverCommand(p, E, R)
  BY <1>2, <1>3 DEF TypeInv, TypeOK, TargetOK, AskingOK, CommandOK, people,
     RecoverCommand, life, work
<1>4. ASSUME NEW batch \in SUBSET Task, Cycle(p, E, R, batch) PROVE TypeInv'
  <2>1. AbsentRow \in Row
    BY DEF AbsentRow, Row, Status
  <2>2. held' \in [Proc -> [Task -> Row]]
    BY <1>2, <1>4, <2>1 DEF TypeInv, TypeOK, Cycle
  <2>3. stage' \in [Proc -> [Task -> Stage]]
    BY <1>4 DEF TypeInv, TypeOK, Cycle, Stage
  <2>4. phase' \in [Proc -> {"down", "starting", "ready", "serving", "cycled"}]
    BY <1>4 DEF TypeInv, TypeOK, Cycle
  <2>5. TargetOK' /\ AskingOK'
    <3>1. \A t \in batch : Expired(E)[t].status = "queued"
      BY <1>4 DEF Cycle
    <3>2. QED
      BY <1>4, <3>1 DEF TypeInv, TypeOK, TargetOK, AskingOK, Cycle, AbsentRow
  <2>6. QED
    BY <1>2, <1>4, <2>2, <2>3, <2>4, <2>5 DEF TypeInv, TypeOK, Cycle,
       CommandOK, people
<1>5. QED
  BY <1>1, <1>3, <1>4

\* Every step of an execution keeps the types.
LEMMA ExecuteType ==
  ASSUME TypeInv, NEW p \in Proc, NEW t \in Task, Execute(p, t)
  PROVE  TypeInv'
<1> DEFINE row == held[p][t]
<1>a. row \in Row
  BY DEF TypeInv, TypeOK
<1>b. \A s \in Status : WithStatus(row, s) \in Row
  BY <1>a, RowFacts, TokenType DEF WithStatus, Row
<1>1. ASSUME DenyWrite(p, t) PROVE TypeInv'
  <2>1. tasks' \in [Task -> Row]
    BY <1>1, <1>b, SaveFacts DEF DenyWrite, Status, TypeInv, TypeOK
  <2>2. QED
    BY <1>1, <2>1, LeaveType DEF TypeInv, TypeOK, DenyWrite, life, CommandOK,
       people
<1>2. ASSUME RequestApproval(p, t) PROVE TypeInv'
  <2>1. PICK x \in ApprovalId :
          /\ approvals[x] = NoApproval
          /\ approvals' = [approvals EXCEPT ![x] =
               [task |-> t, status |-> "pending",
                action |-> IF "execute" \in Missing(p, t) THEN "execute"
                           ELSE "write_files"]]
          /\ held' = [held EXCEPT ![p][t] = Waiting(@, x)]
    BY <1>2 DEF RequestApproval
  <2>2. approvals' \in [ApprovalId -> Approval \cup {NoApproval}]
    BY <2>1 DEF TypeInv, TypeOK, Approval, Action
  <2>3. Waiting(row, x) \in Row
    BY <1>a, RowFacts DEF Waiting, Row, Status
  <2>4. held' \in [Proc -> [Task -> Row]]
    BY <2>1, <2>3 DEF TypeInv, TypeOK
  <2>5. stage' \in [Proc -> [Task -> Stage]] /\ TargetOK' /\ AskingOK'
    BY <1>2, <2>1 DEF TypeInv, TypeOK, TargetOK, AskingOK, RequestApproval,
       GoTo, Stage, Waiting
  <2>6. CommandOK'
    <3>1. \A k \in Clerk : errand[k].approval \in ApprovalId \cup {NONE}
      BY ErrandFacts
    <3>2. \A b \in ApprovalId :
            approvals[b].task \in Task => approvals'[b].task = approvals[b].task
      BY <2>1, ConstantsAssumption DEF TypeInv, TypeOK, NoApproval
    <3>3. UNCHANGED errand
      BY <1>2 DEF RequestApproval, people
    <3>4. QED
      BY <3>1, <3>2, <3>3 DEF TypeInv, CommandOK
  <2>7. QED
    BY <1>2, <2>2, <2>4, <2>5, <2>6 DEF TypeInv, TypeOK, RequestApproval, life,
       people
<1>2a. ASSUME AwaitApproval(p, t) PROVE TypeInv'
  <2>1. tasks' \in [Task -> Row]
    BY <1>2a, <1>a, SaveFacts DEF AwaitApproval, TypeInv, TypeOK
  <2>2. QED
    BY <1>2a, <2>1, LeaveType DEF TypeInv, TypeOK, AwaitApproval, life,
       CommandOK, people
<1>3. ASSUME Admit(p, t) PROVE TypeInv'
  BY <1>3 DEF TypeInv, TypeOK, TargetOK, AskingOK, CommandOK, people, Admit,
     Admissible, GoTo, Stage, store, life
<1>4. ASSUME NEW a \in ArtifactsOf[t], CheckClaim(p, t, a) PROVE TypeInv'
  <2>1. a \in Artifact
    BY ConstantsAssumption
  <2>2. QED
    BY <1>4, <2>1 DEF TypeInv, TypeOK, TargetOK, AskingOK, CommandOK, people,
       CheckClaim, GoTo, Stage, store, life
<1>5. ASSUME NEW a \in ArtifactsOf[t], RefuseClaim(p, t, a) PROVE TypeInv'
  <2>1. tasks' \in [Task -> Row]
    BY <1>5, <1>b, SaveFacts DEF RefuseClaim, Status, TypeInv, TypeOK
  <2>2. QED
    BY <1>5, <2>1, LeaveType DEF TypeInv, TypeOK, RefuseClaim, life, CommandOK,
       people
<1>6. ASSUME InsertClaim(p, t) PROVE TypeInv'
  <2>1. target[p][t] \in ArtifactsOf[t] /\ target[p][t] \in Artifact
    BY <1>6, ConstantsAssumption DEF TypeInv, TargetOK, InsertClaim
  <2>2. claims' \subseteq Task \X Artifact
    BY <1>6, <2>1 DEF TypeInv, TypeOK, InsertClaim
  <2>3. got' \in [Proc -> [Task -> SUBSET Artifact]]
    BY <1>6, <2>1 DEF TypeInv, TypeOK, InsertClaim
  <2>4. /\ stage' \in [Proc -> [Task -> Stage]]
        /\ target' \in [Proc -> [Task -> Artifact \cup {NONE}]]
        /\ TargetOK' /\ AskingOK'
    BY <1>6 DEF TypeInv, TypeOK, TargetOK, AskingOK, InsertClaim, GoTo, Stage
  <2>5. QED
    BY <1>6, <2>2, <2>3, <2>4 DEF TypeInv, TypeOK, InsertClaim, life,
       CommandOK, people
<1>7. ASSUME InsertFails(p, t) PROVE TypeInv'
  <2>1. /\ Vanish(p) /\ DropLock(p) /\ claims' \subseteq claims
        /\ UNCHANGED <<tasks, approvals, people>>
    BY <1>7 DEF InsertFails, Unwind
  <2>2. lock' \in Token \cup {NONE}
    BY <2>1 DEF TypeInv, TypeOK, DropLock
  <2>3. QED
    BY <2>1, <2>2, VanishType DEF TypeInv, TypeOK, CommandOK, people
<1>8. ASSUME NEW new \in Row, new.status # "awaiting_approval",
             NEW s \in Stage \ {"checked", "asking"},
             held' = [held EXCEPT ![p][t] = new], Save(t, new), GoTo(p, t, s),
             UNCHANGED <<approvals, claims, life, got, target, people>>
      PROVE  TypeInv'
  <2>1. tasks' \in [Task -> Row]
    BY <1>8, SaveFacts DEF TypeInv, TypeOK
  <2>2. held' \in [Proc -> [Task -> Row]]
    BY <1>8 DEF TypeInv, TypeOK
  <2>3. stage' \in [Proc -> [Task -> Stage]] /\ TargetOK' /\ AskingOK'
    BY <1>8 DEF TypeInv, TypeOK, TargetOK, AskingOK, GoTo
  <2>4. QED
    BY <1>8, <2>1, <2>2, <2>3 DEF TypeInv, TypeOK, life, CommandOK, people
<1>9. ASSUME MarkRunning(p, t) PROVE TypeInv'
  <2>1. /\ Running(row, TokenOf(p)) \in Row
        /\ Running(row, TokenOf(p)).status = "running"
    BY <1>a, RowFacts, TokenType DEF TypeInv, Status, Running
  <2>2. QED
    BY <1>8, <1>9, <2>1 DEF MarkRunning, Stage
<1>10. ASSUME AgentReady(p, t) \/ RunStarted(p, t) PROVE TypeInv'
  <2>1. PICK s \in {"ready", "waiting"} : GoTo(p, t, s)
    BY <1>10 DEF AgentReady, RunStarted
  <2>2. /\ held' = [held EXCEPT ![p][t] = row] /\ Save(t, row)
        /\ row.status # "awaiting_approval"
    BY <1>10 DEF AgentReady, RunStarted, TypeInv, TypeOK, AskingOK
  <2>3. QED
    BY <1>8, <1>10, <1>a, <2>1, <2>2 DEF AgentReady, RunStarted, Stage
<1>11. ASSUME NEW outcome \in {"completed", "failed"}, Finish(p, t, outcome)
       PROVE  TypeInv'
  <2>1. /\ WithStatus(row, outcome) \in Row
        /\ WithStatus(row, outcome).status = outcome
    BY <1>b DEF Status, WithStatus
  <2>2. QED
    BY <1>8, <1>11, <2>1 DEF Finish, Stage
<1>12. ASSUME ReleaseClaims(p, t) PROVE TypeInv'
  BY <1>12, LeaveType DEF TypeInv, TypeOK, ReleaseClaims, life, CommandOK,
     people
<1>13. QED
  BY <1>1, <1>2, <1>2a, <1>3, <1>4, <1>5, <1>6, <1>7, <1>9, <1>10, <1>11, <1>12
     DEF Execute

\* The type invariant is inductive.
LEMMA TypeStep == TypeInv /\ [Next]_vars => TypeInv'
<1> SUFFICES ASSUME TypeInv, [Next]_vars PROVE TypeInv'
  OBVIOUS
<1>1. CASE Next
  BY <1>1, OperatorType, LifecycleType, HousekeepingType, ExecuteType DEF Next
<1>2. CASE UNCHANGED vars
  BY <1>2 DEF TypeInv, TypeOK, TargetOK, AskingOK, CommandOK, vars, store,
     life, work, people
<1>3. QED
  BY <1>1, <1>2

\* The initial state has the types.
LEMMA TypeInit == Init => TypeInv
BY DEF Init, TypeInv, TypeOK, TargetOK, AskingOK, CommandOK, AbsentRow,
   NoErrand, Errand, Row, Status, Stage

\* The tables and what the processes hold keep their types, whatever the
\* operators, the processes and the crashes do.
THEOREM TypeCorrect == Spec => []TypeOK
<1>1. TypeInv => TypeOK
  BY DEF TypeInv
<1>2. QED
  BY <1>1, TypeInit, TypeStep, PTL DEF Spec

-----------------------------------------------------------------------------
(* The approval gate.  ApprovedBeforeClaim is not inductive: a grant is     *)
(* carried by the approved actions of the row, by every stale copy of it a  *)
(* process or a command holds, and by the stage a copy was admitted to.     *)

Gated == WriteTask \cup StaleSource

GrantedRows == \A t \in Task : tasks[t].approved # {} => t \in granted

GrantedCopies ==
  \A p \in Proc, t \in Task : held[p][t].approved # {} => t \in granted

GrantedThreads ==
  \A p \in Proc, t \in Gated :
    stage[p][t] \notin {"out", "batched", "asking"} => t \in granted

GrantedClaims == \A c \in claims : c[1] \in Gated => c[1] \in granted

GrantedRuns == \A t \in Gated : tasks[t].status = "running" => t \in granted

GrantedErrands ==
  \A k \in Clerk :
    errand[k].step = "approved" \/ errand[k].row.approved # {} =>
      errand[k].task \in granted

GateInv ==
  /\ GrantedRows /\ GrantedCopies /\ GrantedThreads
  /\ GrantedClaims /\ GrantedRuns /\ GrantedErrands

\* A gated task needs some action approved, so an admitted copy has one.
LEMMA GatedNeedsApproval ==
  ASSUME NEW t \in Gated
  PROVE  t \in Task /\ NeedsApproval(t) # {}
BY ConstantsAssumption DEF Gated, NeedsApproval, Action

\* A thread that leaves keeps the copies and threads of the others.
LEMMA LeaveGate ==
  ASSUME NEW p \in Proc, NEW t \in Task, TypeInv, GateInv, Leave(p, t),
         UNCHANGED granted
  PROVE  GrantedCopies' /\ GrantedThreads'
BY DEF TypeInv, TypeOK, GateInv, GrantedCopies, GrantedThreads, Leave, GoTo,
   AbsentRow, Gated

\* A process that ends leaves no copy and no thread.
LEMMA VanishGate ==
  ASSUME NEW p \in Proc, TypeInv, GateInv, Vanish(p), UNCHANGED granted
  PROVE  GrantedCopies' /\ GrantedThreads'
BY ConstantsAssumption DEF TypeInv, TypeOK, GateInv, GrantedCopies,
   GrantedThreads, Vanish, AbsentRow, Gated

\* A saved row keeps the gate if its own approved actions and its own run do.
LEMMA SaveGate ==
  ASSUME TypeInv, GateInv, NEW t \in Task, NEW row \in Row, Save(t, row),
         granted \subseteq granted',
         row.approved # {} => t \in granted',
         t \in Gated /\ row.status = "running" => t \in granted'
  PROVE  GrantedRows' /\ GrantedRuns'
BY SaveFacts, ConstantsAssumption, ZenonT(60) DEF TypeInv, TypeOK, GateInv, GrantedRows,
   GrantedRuns, Gated

\* An empty row grants nothing.
LEMMA AbsentFacts == /\ AbsentRow \in Row /\ AbsentRow.approved = {}
                     /\ AbsentRow.status = "absent"
BY DEF AbsentRow, Row, Status

\* The commands keep the gate: only an approval grants, and it grants.
LEMMA OperatorGate ==
  ASSUME TypeInv, GateInv, Operator
  PROVE  GateInv'
<1>1. ASSUME NEW t \in Task, Submit(t) PROVE GateInv'
  <2> DEFINE row == WithStatus(AbsentRow, "queued")
  <2>1. row \in Row /\ row.status = "queued" /\ row.approved = {}
    BY RowFacts, AbsentFacts DEF WithStatus, Row, Status
  <2>2. Save(t, row) /\ UNCHANGED granted
    BY <1>1 DEF Submit, people
  <2> HIDE DEF row
  <2>3. GrantedRows' /\ GrantedRuns'
    BY <2>1, <2>2, SaveGate
  <2>4. QED
    BY <1>1, <2>3 DEF Submit, work, people, GateInv, GrantedCopies,
       GrantedThreads, GrantedClaims, GrantedErrands
<1>2. ASSUME NEW k \in Clerk, NEW a \in ApprovalId, NEW verdict \in Verdict,
             Resolve(k, a, verdict)
      PROVE  GateInv'
  <2>1. granted \subseteq granted'
    BY <1>2 DEF Resolve
  <2>2. UNCHANGED <<tasks, claims, work>>
    BY <1>2 DEF Resolve
  <2>3. GrantedErrands'
    <3>1. \A j \in Clerk \ {k} : errand'[j] = errand[j]
      BY <1>2 DEF Resolve, TypeInv, TypeOK
    <3>2. /\ errand'[k].row = AbsentRow
          /\ errand'[k].step = verdict
          /\ errand'[k].task = approvals[a].task
      BY <1>2 DEF Resolve, TypeInv, TypeOK
    <3>3. verdict = "approved" => approvals[a].task \in granted'
      BY <1>2 DEF Resolve
    <3>4. QED
      BY <2>1, <3>1, <3>2, <3>3, AbsentFacts DEF GateInv, GrantedErrands
  <2>4. QED
    BY <2>1, <2>2, <2>3, ConstantsAssumption DEF work, GateInv, GrantedRows,
       GrantedCopies, GrantedThreads, GrantedClaims, GrantedRuns, Gated
<1>3. ASSUME NEW k \in Clerk,
             \/ \E u \in Pausable, s \in {"paused", "queued"} :
                  PauseOrResume(k, u, s)
             \/ Approve(k) \/ Reject(k)
      PROVE  GateInv'
  <2>1. PICK a \in ApprovalId \cup {NONE}, t \in Task, row \in Row :
          /\ Fetched(k, a, t, row)
          /\ \/ row.approved = tasks[t].approved
             \/ errand[k].step = "approved" /\ t = errand[k].task
    BY <1>3, FetchFacts
  <2>2. row.approved # {} => t \in granted
    BY <2>1 DEF GateInv, GrantedRows, GrantedErrands
  <2> DEFINE new == [step |-> "read", approval |-> a, task |-> t, row |-> row]
  <2>3. new.step = "read" /\ new.row = row /\ new.task = t
    OBVIOUS
  <2>4. errand' = [errand EXCEPT ![k] = new]
    BY <2>1 DEF Fetched
  <2> HIDE DEF new
  <2>5. errand'[k] = new /\ \A j \in Clerk \ {k} : errand'[j] = errand[j]
    BY <2>4 DEF TypeInv, TypeOK
  <2>6. UNCHANGED <<store, work, granted>>
    BY <2>1 DEF Fetched
  <2>7. GrantedErrands'
    BY <2>2, <2>3, <2>5, <2>6 DEF GateInv, GrantedErrands
  <2>8. QED
    BY <2>6, <2>7 DEF store, work, GateInv, GrantedRows, GrantedCopies,
       GrantedThreads, GrantedClaims, GrantedRuns
<1>4. ASSUME NEW k \in Clerk, SaveTask(k) PROVE GateInv'
  <2> DEFINE t == errand[k].task
             row == errand[k].row
  <2>1. t \in Task /\ row \in Row
    BY <1>4, ErrandFacts DEF SaveTask
  <2>2. row.status # "running" /\ (row.approved # {} => t \in granted)
    BY DEF TypeInv, CommandOK, GateInv, GrantedErrands
  <2>3. Save(t, row) /\ UNCHANGED <<claims, work, granted>>
    BY <1>4 DEF SaveTask
  <2>4. GrantedErrands'
    BY <1>4, AbsentFacts DEF SaveTask, NoErrand, TypeInv, TypeOK, GateInv,
       GrantedErrands
  <2> HIDE DEF t, row
  <2>5. GrantedRows' /\ GrantedRuns'
    BY <2>1, <2>2, <2>3, SaveGate
  <2>6. QED
    BY <2>3, <2>4, <2>5 DEF work, GateInv, GrantedCopies, GrantedThreads,
       GrantedClaims
<1>5. ASSUME NEW k \in Clerk, KillCommand(k) PROVE GateInv'
  <2>1. GrantedErrands'
    BY <1>5, AbsentFacts DEF KillCommand, NoErrand, TypeInv, TypeOK, GateInv,
       GrantedErrands
  <2>2. QED
    BY <1>5, <2>1 DEF KillCommand, store, work, GateInv, GrantedRows,
       GrantedCopies, GrantedThreads, GrantedClaims, GrantedRuns
<1>6. QED
  BY <1>1, <1>2, <1>3, <1>4, <1>5 DEF Operator

\* Starting, recovering and ending create no run and no claim.
LEMMA LifecycleGate ==
  ASSUME TypeInv, GateInv, NEW p \in Proc, Lifecycle(p)
  PROVE  GateInv'
<1>1. CASE StartProc(p) \/ TakeLock(p)
  <2>1. UNCHANGED <<store, work, people>>
    BY <1>1 DEF StartProc, TakeLock
  <2>2. UNCHANGED <<tasks, claims, held, stage, errand, granted>>
    BY <2>1 DEF store, work, people
  <2>3. GrantedRows' /\ GrantedClaims' /\ GrantedRuns' /\ GrantedErrands'
    BY <2>2 DEF GateInv, GrantedRows, GrantedClaims, GrantedRuns,
       GrantedErrands
  <2>4. GrantedCopies' /\ GrantedThreads'
    BY <2>2 DEF GateInv, GrantedCopies, GrantedThreads
  <2>5. QED
    BY <2>3, <2>4 DEF GateInv
<1>2. CASE RecoverInterrupted(p)
  <2>1a. /\ \A t \in Task : /\ tasks'[t].approved = tasks[t].approved
                           /\ tasks'[t].status \in {tasks[t].status, "queued"}
        /\ UNCHANGED granted
    BY <1>2 DEF RecoverInterrupted, people
  <2>1. GrantedRows' /\ GrantedRuns'
    BY <2>1a, ConstantsAssumption DEF GateInv, GrantedRows, GrantedRuns, Gated
  <2>2. QED
    BY <1>2, <2>1 DEF RecoverInterrupted, work, people, GateInv,
       GrantedErrands, GrantedCopies, GrantedThreads, GrantedClaims
<1>3. CASE Exit(p) \/ Crash(p) \/ Cancel(p)
  <2>1. Vanish(p) /\ UNCHANGED <<tasks, people>> /\ claims' \subseteq claims
    BY <1>3 DEF Exit, Crash, Cancel, Unwind, store
  <2>2. QED
    BY <2>1, VanishGate DEF people, GateInv, GrantedRows, GrantedClaims,
       GrantedRuns, GrantedErrands
<1>4. QED
  BY <1>1, <1>2, <1>3 DEF Lifecycle

\* A batch copies rows as they are; an expired task does not run.
LEMMA HousekeepingGate ==
  ASSUME TypeInv, GateInv, NEW p \in Proc, Housekeeping(p)
  PROVE  GateInv'
<1>1. PICK E \in SUBSET Expirable, R \in SUBSET claims :
        \/ RecoverCommand(p, E, R)
        \/ \E batch \in SUBSET Task : Cycle(p, E, R, batch)
  BY DEF Housekeeping
<1>2. /\ tasks' = Expired(E)
      /\ claims' \subseteq claims
      /\ UNCHANGED <<granted, errand>>
  BY <1>1 DEF RecoverCommand, Cycle, people
<1>3. \A t \in Task : /\ Expired(E)[t].approved = tasks[t].approved
                      /\ Expired(E)[t].status = "running" => tasks[t].status = "running"
  BY DEF Expired, WithStatus
<1>4. GrantedRows' /\ GrantedClaims' /\ GrantedRuns' /\ GrantedErrands'
  BY <1>2, <1>3, ConstantsAssumption DEF GateInv, GrantedErrands, GrantedRows,
     GrantedClaims, GrantedRuns, Gated
<1>5. CASE RecoverCommand(p, E, R)
  BY <1>4, <1>5 DEF RecoverCommand, work, people, GateInv, GrantedCopies,
     GrantedThreads
<1>6. ASSUME NEW batch \in SUBSET Task, Cycle(p, E, R, batch) PROVE GateInv'
  <2>1. GrantedCopies'
    BY <1>2, <1>3, <1>6 DEF TypeInv, TypeOK, Cycle, GateInv, GrantedRows,
       GrantedCopies, AbsentRow
  <2>2. GrantedThreads'
    BY <1>2, <1>6, ConstantsAssumption DEF TypeInv, TypeOK, Cycle, GateInv,
       GrantedThreads, Gated
  <2>3. QED
    BY <1>4, <2>1, <2>2 DEF GateInv
<1>7. QED
  BY <1>1, <1>5, <1>6

\* An execution claims and runs only what it was admitted to with a grant.
LEMMA ExecuteGate ==
  ASSUME TypeInv, GateInv, NEW p \in Proc, NEW t \in Task, Execute(p, t)
  PROVE  GateInv'
<1> DEFINE row == held[p][t]
<1>c. /\ UNCHANGED people
      /\ GrantedErrands'
  <2>1. UNCHANGED people
    BY DEF Execute, DenyWrite, RequestApproval, AwaitApproval, Admit,
       CheckClaim, RefuseClaim, InsertClaim, InsertFails, Unwind, MarkRunning,
       AgentReady, RunStarted, Finish, ReleaseClaims
  <2>2. QED
    BY <2>1 DEF people, GateInv, GrantedErrands
<1>d. UNCHANGED granted
  BY <1>c DEF people
<1>a. row \in Row /\ (row.approved # {} => t \in granted)
  BY DEF TypeInv, TypeOK, GateInv, GrantedCopies
<1>b. ASSUME NEW s \in Status \ {"running"}, Save(t, WithStatus(row, s)),
             UNCHANGED granted
      PROVE  GrantedRows' /\ GrantedRuns'
  <2>1. /\ WithStatus(row, s) \in Row
        /\ WithStatus(row, s).status = s
        /\ WithStatus(row, s).approved = row.approved
    BY <1>a DEF Row, WithStatus
  <2>2. QED
    BY <1>a, <1>b, <2>1, SaveGate
<1>1. ASSUME DenyWrite(p, t) PROVE GateInv'
  <2>1. Save(t, WithStatus(row, "failed")) /\ Leave(p, t) /\ UNCHANGED claims
    BY <1>1 DEF DenyWrite
  <2>2. QED
    BY <1>b, <1>c, <1>d, <2>1, LeaveGate DEF GateInv, GrantedClaims, Status
<1>1a. ASSUME RequestApproval(p, t) PROVE GateInv'
  <2>1. PICK x \in ApprovalId : held' = [held EXCEPT ![p][t] = Waiting(@, x)]
    BY <1>1a DEF RequestApproval
  <2>2. GrantedCopies'
    BY <1>a, <1>d, <2>1 DEF TypeInv, TypeOK, Waiting, GateInv, GrantedCopies
  <2>3. GrantedThreads'
    BY <1>1a, <1>d, ConstantsAssumption DEF TypeInv, TypeOK, RequestApproval,
       GoTo, GateInv, GrantedThreads, Gated
  <2>4. QED
    BY <1>1a, <1>c, <1>d, <2>2, <2>3 DEF RequestApproval, GateInv, GrantedRows,
       GrantedClaims, GrantedRuns
<1>1b. ASSUME AwaitApproval(p, t) PROVE GateInv'
  <2>1. Save(t, row) /\ Leave(p, t) /\ UNCHANGED claims /\ stage[p][t] = "asking"
    BY <1>1b DEF AwaitApproval
  <2>2. row.status = "awaiting_approval"
    BY <2>1 DEF TypeInv, AskingOK
  <2>3. GrantedRows' /\ GrantedRuns'
    BY <1>a, <1>d, <2>1, <2>2, SaveGate
  <2>4. QED
    BY <1>c, <1>d, <2>1, <2>3, LeaveGate DEF GateInv, GrantedClaims
<1>2. ASSUME Admit(p, t) PROVE GateInv'
  <2>1. t \in Gated => t \in granted
    BY <1>2, <1>a, GatedNeedsApproval DEF Admit, Missing
  <2>2. GrantedThreads'
    BY <1>2, <1>d, <2>1, ConstantsAssumption DEF TypeInv, TypeOK, Admit, GoTo,
       GateInv, GrantedThreads, Gated
  <2>3. QED
    BY <1>c, <1>d, <1>2, <2>2 DEF Admit, store, GateInv, GrantedRows,
       GrantedCopies, GrantedClaims, GrantedRuns
<1>3. ASSUME NEW a \in ArtifactsOf[t], CheckClaim(p, t, a) PROVE GateInv'
  <2>1. GrantedThreads'
    BY <1>3, <1>d, ConstantsAssumption DEF TypeInv, TypeOK, CheckClaim, GoTo,
       GateInv, GrantedThreads, Gated
  <2>2. QED
    BY <1>c, <1>d, <1>3, <2>1 DEF CheckClaim, store, GateInv, GrantedRows,
       GrantedCopies, GrantedClaims, GrantedRuns
<1>4. ASSUME NEW a \in ArtifactsOf[t], RefuseClaim(p, t, a) PROVE GateInv'
  <2>1. /\ Save(t, WithStatus(row, "failed")) /\ Leave(p, t)
        /\ claims' \subseteq claims
    BY <1>4 DEF RefuseClaim
  <2>2. QED
    BY <1>b, <1>c, <1>d, <2>1, LeaveGate DEF GateInv, GrantedClaims, Status
<1>5. ASSUME InsertClaim(p, t) PROVE GateInv'
  <2>1. t \in Gated => t \in granted
    BY <1>5 DEF InsertClaim, GateInv, GrantedThreads
  <2>2. GrantedClaims'
    BY <1>5, <1>d, <2>1 DEF InsertClaim, GateInv, GrantedClaims
  <2>3. GrantedThreads'
    BY <1>5, <1>d, <2>1, ConstantsAssumption DEF TypeInv, TypeOK, InsertClaim,
       GoTo, GateInv, GrantedThreads, Gated
  <2>4. QED
    BY <1>5, <1>c, <1>d, <2>2, <2>3 DEF InsertClaim, GateInv, GrantedRows,
       GrantedCopies, GrantedRuns
<1>6. ASSUME InsertFails(p, t) PROVE GateInv'
  <2>1. Vanish(p) /\ UNCHANGED <<tasks, people>> /\ claims' \subseteq claims
    BY <1>6 DEF InsertFails, Unwind
  <2>2. QED
    BY <2>1, VanishGate DEF people, GateInv, GrantedRows, GrantedClaims,
       GrantedRuns, GrantedErrands
<1>7. ASSUME NEW new \in Row, new.approved = row.approved,
             stage[p][t] \notin {"out", "batched", "asking"},
             NEW s \in Stage,
             held' = [held EXCEPT ![p][t] = new], Save(t, new), GoTo(p, t, s),
             UNCHANGED <<claims, people>>
      PROVE  GateInv'
  <2>1. t \in Gated => t \in granted
    BY <1>7 DEF GateInv, GrantedThreads
  <2>2. GrantedRows' /\ GrantedRuns'
    BY <1>7, <1>a, <1>d, <2>1, SaveGate
  <2>3. GrantedCopies'
    BY <1>7, <1>a, <1>d DEF TypeInv, TypeOK, GateInv, GrantedCopies
  <2>4. GrantedThreads'
    BY <1>7, <1>d, <2>1, ConstantsAssumption DEF TypeInv, TypeOK, GoTo,
       GateInv, GrantedThreads, Gated
  <2>5. QED
    BY <1>7, <1>c, <1>d, <2>2, <2>3, <2>4 DEF GateInv, GrantedClaims
<1>8. ASSUME MarkRunning(p, t) PROVE GateInv'
  <2>1. /\ Running(row, TokenOf(p)) \in Row
        /\ Running(row, TokenOf(p)).approved = row.approved
    BY <1>a, RowFacts, TokenType DEF TypeInv, Status
  <2>2. QED
    BY <1>7, <1>8, <2>1 DEF MarkRunning, Stage
<1>9. ASSUME AgentReady(p, t) \/ RunStarted(p, t) PROVE GateInv'
  <2>1. PICK s \in {"ready", "waiting"} : GoTo(p, t, s)
    BY <1>9 DEF AgentReady, RunStarted
  <2>2. held' = [held EXCEPT ![p][t] = row] /\ Save(t, row)
    BY <1>9 DEF AgentReady, RunStarted, TypeInv, TypeOK
  <2>3. QED
    BY <1>7, <1>9, <1>a, <2>1, <2>2 DEF AgentReady, RunStarted, Stage
<1>10. ASSUME NEW outcome \in {"completed", "failed"}, Finish(p, t, outcome)
       PROVE  GateInv'
  <2>1. /\ WithStatus(row, outcome) \in Row
        /\ WithStatus(row, outcome).approved = row.approved
    BY <1>a DEF Row, WithStatus, Status
  <2>2. QED
    BY <1>7, <1>10, <2>1 DEF Finish, Executing, Stage
<1>11. ASSUME ReleaseClaims(p, t) PROVE GateInv'
  BY <1>11, <1>c, <1>d, LeaveGate DEF ReleaseClaims, GateInv, GrantedRows,
     GrantedClaims, GrantedRuns
<1>12. QED
  BY <1>1, <1>1a, <1>1b, <1>2, <1>3, <1>4, <1>5, <1>6, <1>8, <1>9, <1>10, <1>11
     DEF Execute

\* The gate is inductive on top of the types.
LEMMA GateStep == TypeInv /\ GateInv /\ [Next]_vars => GateInv'
<1> SUFFICES ASSUME TypeInv, GateInv, [Next]_vars PROVE GateInv'
  OBVIOUS
<1>1. CASE Next
  BY <1>1, OperatorGate, LifecycleGate, HousekeepingGate, ExecuteGate DEF Next
<1>2. CASE UNCHANGED vars
  BY <1>2 DEF vars, store, life, work, people, GateInv, GrantedErrands,
     GrantedRows, GrantedCopies, GrantedThreads, GrantedClaims, GrantedRuns
<1>3. QED
  BY <1>1, <1>2

\* README.md:52: no task that stops for a person claims, runs or is executed
\* before somebody granted it, for any number of tasks, approvals, processes,
\* overlapping start-ups and crashes.
THEOREM ApprovalGate == Spec => []ApprovedBeforeClaim
<1>1. Init => GateInv
  BY ConstantsAssumption DEF Init, NoErrand, GateInv, GrantedErrands,
     GrantedRows, GrantedCopies, GrantedThreads, GrantedClaims, GrantedRuns,
     AbsentRow, Gated
<1>2. TypeInv /\ GateInv => ApprovedBeforeClaim
  BY ConstantsAssumption DEF GateInv, GrantedThreads, GrantedClaims,
     GrantedRuns, ApprovedBeforeClaim, Executing, Gated
<1>3. QED
  BY <1>1, <1>2, TypeInit, TypeStep, GateStep, PTL DEF Spec

-----------------------------------------------------------------------------
(* Waiting for a person.  AwaitingNamesItsApproval is not inductive: the    *)
(* wait that a thread is about to save must name its approval already.  No  *)
(* other copy waits (AskingOK), so no stale save brings a resolved wait     *)
(* back, and a command that saves its verdict keeps hold of the approval    *)
(* until it has saved the task, which ends the wait.                        *)

Unanswered(a) ==
  \/ approvals[a].status = "pending"
  \/ \E k \in Clerk : errand[k].approval = a
  \/ a \in stranded

\* A request between its commits: nobody has answered it, or the answer is
\* lost.
AskedOK ==
  \A p \in Proc, t \in Task : stage[p][t] = "asking" =>
    \E a \in ApprovalId :
      /\ held[p][t].pending = a
      /\ approvals[a].task = t
      /\ approvals[a].status = "pending" \/ a \in stranded

WaitInv == AskedOK /\ AwaitingNamesItsApproval

\* A save that does not wait keeps the waits of the others, as long as their
\* approvals stay to be answered.
LEMMA SaveWait ==
  ASSUME TypeInv, AwaitingNamesItsApproval,
         NEW t \in Task, NEW row \in Row, Save(t, row),
         row.status # "awaiting_approval",
         \A a \in ApprovalId :
           approvals[a].task # t /\ approvals[a].task \in Task /\ Unanswered(a) =>
             approvals'[a].task = approvals[a].task /\ Unanswered(a)'
  PROVE  AwaitingNamesItsApproval'
<1>1. /\ tasks'[t] = row
      /\ \A u \in Task \ {t} : tasks'[u] = tasks[u]
  BY SaveFacts DEF TypeInv, TypeOK
<1>2. ASSUME NEW u \in Task, tasks'[u].status = "awaiting_approval"
      PROVE  \E a \in ApprovalId :
               /\ tasks'[u].pending = a /\ approvals'[a].task = u /\ Unanswered(a)'
  <2>1. u \in Task \ {t} /\ tasks'[u] = tasks[u]
    BY <1>1, <1>2
  <2>2. PICK a \in ApprovalId :
          tasks[u].pending = a /\ approvals[a].task = u /\ Unanswered(a)
    BY <1>2, <2>1 DEF AwaitingNamesItsApproval, Unanswered
  <2>3. QED
    BY <2>1, <2>2
<1>3. QED
  BY <1>2 DEF AwaitingNamesItsApproval, Unanswered

\* Steps that leave the approvals and the people alone and save nothing that
\* waits keep the waits.
LEMMA QuietWait ==
  ASSUME TypeInv, AwaitingNamesItsApproval, UNCHANGED <<approvals, people>>,
         \A u \in Task : tasks'[u].status = "awaiting_approval" =>
                           tasks'[u] = tasks[u]
  PROVE  AwaitingNamesItsApproval'
BY DEF AwaitingNamesItsApproval, people

\* Threads that were not asking before do not ask now.
LEMMA QuietAsked ==
  ASSUME TypeInv, AskedOK, UNCHANGED <<approvals, people>>,
         \A p \in Proc, t \in Task : stage'[p][t] = "asking" =>
           stage[p][t] = "asking" /\ held'[p][t] = held[p][t]
  PROVE  AskedOK'
BY DEF AskedOK, people

\* The commands keep the waits: a verdict is on its way until the task is
\* saved, which ends the wait, or is counted as lost.
LEMMA OperatorWait ==
  ASSUME TypeInv, WaitInv, Operator
  PROVE  WaitInv'
<1>1. ASSUME NEW t \in Task, Submit(t) PROVE WaitInv'
  <2> DEFINE row == WithStatus(AbsentRow, "queued")
  <2>1. row \in Row /\ row.status = "queued"
    BY RowFacts, AbsentFacts DEF WithStatus, Row, Status
  <2>2. Save(t, row) /\ UNCHANGED <<approvals, work, people>>
    BY <1>1 DEF Submit
  <2> HIDE DEF row
  <2>3. \A u \in Task : tasks'[u].status = "awaiting_approval" =>
                         tasks'[u] = tasks[u]
    BY <2>1, <2>2, SaveFacts DEF TypeInv, TypeOK
  <2>4. AwaitingNamesItsApproval'
    BY <2>2, <2>3, QuietWait DEF WaitInv
  <2>5. AskedOK'
    BY <2>2, QuietAsked DEF WaitInv, work
  <2>6. QED
    BY <2>4, <2>5 DEF WaitInv
<1>2. ASSUME NEW k \in Clerk, NEW a \in ApprovalId, NEW verdict \in Verdict,
             Resolve(k, a, verdict)
      PROVE  WaitInv'
  <2>1. /\ UNCHANGED <<tasks, stage, held>>
        /\ stranded \subseteq stranded'
        /\ BeingAsked(a) => a \in stranded'
    BY <1>2 DEF Resolve, work
  <2>2. \A b \in ApprovalId :
          /\ approvals'[b].task = approvals[b].task
          /\ b # a => approvals'[b] = approvals[b]
    BY <1>2 DEF Resolve, TypeInv, TypeOK
  <2>3. /\ errand'[k].approval = a /\ errand[k].approval = NONE
        /\ \A j \in Clerk \ {k} : errand'[j] = errand[j]
    BY <1>2, ErrandFacts DEF Resolve, Begin, TypeInv, TypeOK
  <2>4. \A b \in ApprovalId : Unanswered(b) => Unanswered(b)'
    <3>1. Unanswered(a)'
      BY <2>3 DEF Unanswered
    <3>2. ASSUME NEW b \in ApprovalId \ {a}, Unanswered(b) PROVE Unanswered(b)'
      <4>1. CASE approvals[b].status = "pending" \/ b \in stranded
        BY <2>1, <2>2, <4>1 DEF Unanswered
      <4>2. CASE \E j \in Clerk : errand[j].approval = b
        BY <2>3, <4>2, ConstantsAssumption DEF Unanswered
      <4>3. QED
        BY <3>2, <4>1, <4>2 DEF Unanswered
    <3>3. QED
      BY <3>1, <3>2
  <2>5. AwaitingNamesItsApproval'
    BY <2>1, <2>2, <2>4 DEF WaitInv, AwaitingNamesItsApproval, Unanswered
  <2>6. AskedOK'
    <3>1. ASSUME NEW p \in Proc, NEW t \in Task, stage[p][t] = "asking"
          PROVE  \E b \in ApprovalId :
                   /\ held[p][t].pending = b
                   /\ approvals'[b].task = t
                   /\ approvals'[b].status = "pending" \/ b \in stranded'
      <4>1. PICK b \in ApprovalId :
              /\ held[p][t].pending = b
              /\ approvals[b].task = t
              /\ approvals[b].status = "pending" \/ b \in stranded
        BY <3>1 DEF WaitInv, AskedOK
      <4>2. b = a => b \in stranded'
        BY <2>1, <3>1, <4>1 DEF BeingAsked
      <4>3. QED
        BY <2>1, <2>2, <4>1, <4>2
    <3>2. QED
      BY <2>1, <3>1 DEF AskedOK
  <2>7. QED
    BY <2>5, <2>6 DEF WaitInv
<1>3. ASSUME NEW k \in Clerk,
             \/ \E u \in Pausable, s \in {"paused", "queued"} :
                  PauseOrResume(k, u, s)
             \/ Approve(k) \/ Reject(k)
      PROVE  WaitInv'
  <2>1. PICK a \in ApprovalId \cup {NONE}, t \in Task, row \in Row :
          /\ Fetched(k, a, t, row)
          /\ \/ a = NONE /\ errand[k].step = "idle"
             \/ a = errand[k].approval /\ t = errand[k].task
    BY <1>3, FetchFacts
  <2>2. UNCHANGED <<tasks, approvals, stage, held, stranded>>
    BY <2>1 DEF Fetched, store, work
  <2>3. a = errand[k].approval
    BY <2>1, ErrandFacts
  <2>4. \A j \in Clerk : errand'[j].approval = errand[j].approval
    BY <2>1, <2>3 DEF Fetched, TypeInv, TypeOK
  <2>5. AwaitingNamesItsApproval'
    BY <2>2, <2>4 DEF WaitInv, AwaitingNamesItsApproval
  <2>6. AskedOK'
    BY <2>2 DEF WaitInv, AskedOK
  <2>7. QED
    BY <2>5, <2>6 DEF WaitInv
<1>4. ASSUME NEW k \in Clerk, SaveTask(k) PROVE WaitInv'
  <2> DEFINE t == errand[k].task
             row == errand[k].row
  <2>1. t \in Task /\ row \in Row /\ row.status # "awaiting_approval"
    BY <1>4, ErrandFacts DEF SaveTask, TypeInv, CommandOK
  <2>2. Save(t, row) /\ UNCHANGED <<approvals, stage, held, stranded>>
    BY <1>4 DEF SaveTask, work
  <2>3. \A j \in Clerk \ {k} : errand'[j] = errand[j]
    BY <1>4 DEF SaveTask, TypeInv, TypeOK
  <2>4. ASSUME NEW a \in ApprovalId, approvals[a].task # t, Unanswered(a)
        PROVE  Unanswered(a)'
    <3>1. errand[k].approval # a
      BY <2>4, ConstantsAssumption DEF TypeInv, CommandOK
    <3>2. QED
      BY <2>2, <2>3, <2>4, <3>1 DEF Unanswered
  <2>5. AwaitingNamesItsApproval'
    <3> HIDE DEF t, row
    <3>1. QED
      BY <2>1, <2>2, <2>4, SaveWait DEF WaitInv
  <2>6. AskedOK'
    BY <2>2 DEF WaitInv, AskedOK
  <2>7. QED
    BY <2>5, <2>6 DEF WaitInv
<1>5. ASSUME NEW k \in Clerk, KillCommand(k) PROVE WaitInv'
  <2>1. UNCHANGED <<tasks, approvals, stage, held>> /\ stranded \subseteq stranded'
    BY <1>5 DEF KillCommand, store, work
  <2>2. \A j \in Clerk \ {k} : errand'[j] = errand[j]
    BY <1>5 DEF KillCommand, TypeInv, TypeOK
  <2>3. \A a \in ApprovalId : errand[k].approval = a => a \in stranded'
    BY <1>5, ConstantsAssumption DEF KillCommand
  <2>4. \A a \in ApprovalId : Unanswered(a) => Unanswered(a)'
    BY <2>1, <2>2, <2>3 DEF Unanswered
  <2>5. AwaitingNamesItsApproval'
    BY <2>1, <2>4 DEF WaitInv, AwaitingNamesItsApproval, Unanswered
  <2>6. AskedOK'
    BY <2>1 DEF WaitInv, AskedOK
  <2>7. QED
    BY <2>5, <2>6 DEF WaitInv
<1>6. QED
  BY <1>1, <1>2, <1>3, <1>4, <1>5 DEF Operator

\* The processes' lives and the expiry never write a wait.
LEMMA LifeWait ==
  ASSUME TypeInv, WaitInv, NEW p \in Proc, Lifecycle(p) \/ Housekeeping(p)
  PROVE  WaitInv'
<1>1. UNCHANGED <<approvals, people>>
  BY DEF Lifecycle, Housekeeping, StartProc, RecoverInterrupted, TakeLock,
     Exit, Crash, Cancel, Unwind, RecoverCommand, Cycle, store
<1>2. \A t \in Task : tasks'[t].status = "awaiting_approval" =>
                       tasks'[t] = tasks[t]
  <2>1. CASE RecoverInterrupted(p)
    BY <2>1 DEF RecoverInterrupted, TypeInv, TypeOK
  <2>2. CASE StartProc(p) \/ TakeLock(p) \/ Exit(p) \/ Crash(p) \/ Cancel(p)
    BY <2>2 DEF StartProc, TakeLock, Exit, Crash, Cancel, Unwind, store
  <2>3. CASE Housekeeping(p)
    <3>1. PICK E \in SUBSET Expirable : tasks' = Expired(E)
      BY <2>3 DEF Housekeeping, RecoverCommand, Cycle
    <3>2. QED
      BY <3>1 DEF Expired, WithStatus
  <2>4. QED
    BY <2>1, <2>2, <2>3 DEF Lifecycle
<1>3. \A q \in Proc, t \in Task : stage'[q][t] = "asking" =>
        stage[q][t] = "asking" /\ held'[q][t] = held[q][t]
  <2>1. CASE StartProc(p) \/ TakeLock(p) \/ RecoverInterrupted(p)
    BY <2>1 DEF StartProc, TakeLock, RecoverInterrupted, work
  <2>2. CASE Exit(p) \/ Crash(p) \/ Cancel(p)
    <3>1. Vanish(p)
      BY <2>2 DEF Exit, Crash, Cancel, Unwind
    <3>2. QED
      BY <3>1 DEF Vanish, TypeInv, TypeOK
  <2>3. CASE Housekeeping(p)
    <3>1. PICK E \in SUBSET Expirable, R \in SUBSET claims :
            \/ RecoverCommand(p, E, R)
            \/ \E batch \in SUBSET Task : Cycle(p, E, R, batch)
      BY <2>3 DEF Housekeeping
    <3>2. CASE RecoverCommand(p, E, R)
      BY <3>2 DEF RecoverCommand, work
    <3>3. ASSUME NEW batch \in SUBSET Task, Cycle(p, E, R, batch)
          PROVE  \A q \in Proc, t \in Task : stage'[q][t] = "asking" =>
                   stage[q][t] = "asking" /\ held'[q][t] = held[q][t]
      BY <3>3 DEF Cycle, TypeInv, TypeOK
    <3>4. QED
      BY <3>1, <3>2, <3>3
  <2>4. QED
    BY <2>1, <2>2, <2>3 DEF Lifecycle
<1>4. QED
  BY <1>1, <1>2, <1>3, QuietWait, QuietAsked DEF WaitInv

\* A request names its approval before it waits; every other save of an
\* execution writes a copy that does not wait.
LEMMA ExecuteWait ==
  ASSUME TypeInv, WaitInv, NEW p \in Proc, NEW t \in Task, Execute(p, t)
  PROVE  WaitInv'
<1> DEFINE row == held[p][t]
<1>a. row \in Row
  BY DEF TypeInv, TypeOK
<1>1. CASE RequestApproval(p, t)
  <2>1. PICK x \in ApprovalId :
          /\ approvals[x] = NoApproval
          /\ approvals' = [approvals EXCEPT ![x] =
               [task |-> t, status |-> "pending",
                action |-> IF "execute" \in Missing(p, t) THEN "execute"
                           ELSE "write_files"]]
          /\ held' = [held EXCEPT ![p][t] = Waiting(@, x)]
    BY <1>1 DEF RequestApproval
  <2>2. /\ approvals'[x].task = t /\ approvals'[x].status = "pending"
        /\ \A b \in ApprovalId \ {x} : approvals'[b] = approvals[b]
        /\ approvals[x].task \notin Task
    BY <2>1, ConstantsAssumption DEF TypeInv, TypeOK, NoApproval
  <2>3. /\ UNCHANGED <<tasks, people>>
        /\ stage' = [stage EXCEPT ![p][t] = "asking"]
    BY <1>1 DEF RequestApproval, GoTo
  <2>4. AwaitingNamesItsApproval'
    BY <2>2, <2>3 DEF WaitInv, AwaitingNamesItsApproval, people
  <2>5. AskedOK'
    <3>1. held'[p][t].pending = x
      BY <2>1 DEF Waiting, TypeInv, TypeOK
    <3>2. ASSUME NEW q \in Proc, NEW u \in Task, stage'[q][u] = "asking",
                 ~(q = p /\ u = t)
          PROVE  \E b \in ApprovalId :
                   /\ held'[q][u].pending = b
                   /\ approvals'[b].task = u
                   /\ approvals'[b].status = "pending" \/ b \in stranded'
      <4>1. stage[q][u] = "asking" /\ held'[q][u] = held[q][u]
        BY <2>1, <2>3, <3>2 DEF TypeInv, TypeOK
      <4>2. PICK b \in ApprovalId :
              /\ held[q][u].pending = b
              /\ approvals[b].task = u
              /\ approvals[b].status = "pending" \/ b \in stranded
        BY <4>1 DEF WaitInv, AskedOK
      <4>3. b # x
        BY <2>2, <4>2
      <4>4. QED
        BY <2>2, <2>3, <4>1, <4>2, <4>3 DEF people
    <3>3. QED
      BY <2>2, <3>1, <3>2 DEF AskedOK
  <2>6. QED
    BY <2>4, <2>5 DEF WaitInv
<1>2. CASE AwaitApproval(p, t)
  <2>1. /\ stage[p][t] = "asking" /\ Save(t, row) /\ Leave(p, t)
        /\ UNCHANGED <<approvals, people>>
    BY <1>2 DEF AwaitApproval
  <2>2. PICK a \in ApprovalId :
          /\ row.pending = a
          /\ approvals[a].task = t
          /\ approvals[a].status = "pending" \/ a \in stranded
    BY <2>1 DEF WaitInv, AskedOK
  <2>3. tasks'[t] = row /\ \A u \in Task \ {t} : tasks'[u] = tasks[u]
    BY <1>a, <2>1, SaveFacts DEF TypeInv, TypeOK
  <2>4. AwaitingNamesItsApproval'
    <3> HIDE DEF row
    <3>1. QED
      BY <2>1, <2>2, <2>3 DEF WaitInv, AwaitingNamesItsApproval, people
  <2>5. AskedOK'
    <3>1. \A q \in Proc, u \in Task : stage'[q][u] = "asking" =>
            stage[q][u] = "asking" /\ held'[q][u] = held[q][u]
      BY <2>1 DEF Leave, GoTo, TypeInv, TypeOK
    <3>2. QED
      BY <2>1, <3>1, QuietAsked DEF WaitInv
  <2>6. QED
    BY <2>4, <2>5 DEF WaitInv
<1>3. CASE ~RequestApproval(p, t) /\ ~AwaitApproval(p, t)
  <2>1. UNCHANGED <<approvals, people>>
    BY <1>3 DEF Execute, DenyWrite, Admit, CheckClaim, RefuseClaim,
       InsertClaim, InsertFails, Unwind, MarkRunning, AgentReady, RunStarted,
       Finish, ReleaseClaims, store
  <2>2. \/ UNCHANGED tasks
        \/ \E new \in Row : Save(t, new) /\ new.status # "awaiting_approval"
    <3>1. CASE DenyWrite(p, t) \/ \E a \in ArtifactsOf[t] : RefuseClaim(p, t, a)
      <4>1. Save(t, WithStatus(row, "failed"))
        BY <3>1 DEF DenyWrite, RefuseClaim
      <4>2. /\ WithStatus(row, "failed") \in Row
            /\ WithStatus(row, "failed").status = "failed"
        BY <1>a DEF Row, Status, WithStatus
      <4>3. QED
        BY <4>1, <4>2
    <3>2. CASE MarkRunning(p, t)
      <4>1. Save(t, Running(row, TokenOf(p)))
        BY <3>2 DEF MarkRunning
      <4>2. /\ Running(row, TokenOf(p)) \in Row
            /\ Running(row, TokenOf(p)).status = "running"
        BY <1>a, TokenType DEF Running, Row, Status, TypeInv
      <4>3. QED
        BY <4>1, <4>2
    <3>3. CASE AgentReady(p, t) \/ RunStarted(p, t)
      <4>1. Save(t, row) /\ stage[p][t] # "asking"
        BY <3>3 DEF AgentReady, RunStarted
      <4>2. row.status # "awaiting_approval"
        BY <4>1 DEF TypeInv, AskingOK
      <4>3. QED
        BY <1>a, <4>1, <4>2
    <3>4. ASSUME NEW outcome \in {"completed", "failed"}, Finish(p, t, outcome)
          PROVE  \E new \in Row : Save(t, new) /\ new.status # "awaiting_approval"
      <4>1. Save(t, WithStatus(row, outcome))
        BY <3>4 DEF Finish
      <4>2. /\ WithStatus(row, outcome) \in Row
            /\ WithStatus(row, outcome).status = outcome
        BY <1>a DEF Row, Status, WithStatus
      <4>3. QED
        BY <4>1, <4>2
    <3>5. CASE \/ Admit(p, t) \/ \E a \in ArtifactsOf[t] : CheckClaim(p, t, a)
               \/ InsertClaim(p, t) \/ InsertFails(p, t) \/ ReleaseClaims(p, t)
      BY <3>5 DEF Admit, CheckClaim, InsertClaim, InsertFails, Unwind,
         ReleaseClaims, store
    <3>6. QED
      BY <1>3, <3>1, <3>2, <3>3, <3>4, <3>5 DEF Execute
  <2>3. \A u \in Task : tasks'[u].status = "awaiting_approval" =>
                         tasks'[u] = tasks[u]
    BY <2>2, SaveFacts DEF TypeInv, TypeOK
  <2>4. \A q \in Proc, u \in Task : stage'[q][u] = "asking" =>
          stage[q][u] = "asking" /\ held'[q][u] = held[q][u]
    <3>1. CASE InsertFails(p, t)
      BY <3>1 DEF InsertFails, Unwind, Vanish, TypeInv, TypeOK
    <3>2. CASE ~InsertFails(p, t)
      <4>1. /\ stage[p][t] # "asking"
            /\ \E st \in Stage \ {"asking"} : GoTo(p, t, st)
            /\ \/ UNCHANGED held
               \/ \E new : held' = [held EXCEPT ![p][t] = new]
        BY <1>3, <3>2 DEF Execute, DenyWrite, Admit, CheckClaim, RefuseClaim,
           InsertClaim, MarkRunning, AgentReady, RunStarted, Finish,
           ReleaseClaims, Leave, Admissible, Executing, Stage
      <4>2. QED
        BY <4>1 DEF GoTo, TypeInv, TypeOK
    <3>3. QED
      BY <3>1, <3>2
  <2>5. QED
    BY <2>1, <2>3, <2>4, QuietWait, QuietAsked DEF WaitInv
<1>4. QED
  BY <1>1, <1>2, <1>3

\* A task that waits for an approval names one of its own that is still to be
\* answered or whose answer is on its way, unless a kill or a verdict between
\* the two commits of a request lost the answer: for any number of commands,
\* requests, stale saves, restarts and crashes.
THEOREM WaitsAreAnswerable == Spec => []AwaitingNamesItsApproval
<1>1. Init => WaitInv
  BY DEF Init, WaitInv, AskedOK, AwaitingNamesItsApproval, AbsentRow
<1>2. TypeInv /\ WaitInv /\ [Next]_vars => WaitInv'
  <2> SUFFICES ASSUME TypeInv, WaitInv, [Next]_vars PROVE WaitInv'
    OBVIOUS
  <2>1. CASE Next
    BY <2>1, OperatorWait, LifeWait, ExecuteWait DEF Next
  <2>2. CASE UNCHANGED vars
    BY <2>2 DEF vars, store, work, people, WaitInv, AskedOK,
       AwaitingNamesItsApproval
  <2>3. QED
    BY <2>1, <2>2
<1>3. WaitInv => AwaitingNamesItsApproval
  BY DEF WaitInv
<1>4. QED
  BY <1>1, <1>2, <1>3, TypeInit, TypeStep, PTL DEF Spec

-----------------------------------------------------------------------------
(* Threads and owners.  Within one process a lane has one execution at a    *)
(* time, a process that does not execute holds nothing, and whoever holds a *)
(* copy that runs has put its own token into it.                            *)

Aside(p, t) == stage[p][t] \in {"out", "batched"}

LaneInv ==
  \A p \in Proc, t, u \in Task :
    t # u /\ LaneOf[t] = LaneOf[u] => Aside(p, t) \/ Aside(p, u)

RestInv ==
  \A p \in Proc : phase[p] \notin {"serving", "cycled"} =>
    \A t \in Task : stage[p][t] = "out" /\ held[p][t] = AbsentRow

ExecutorInv ==
  \A p \in Proc : phase[p] \in {"serving", "cycled"} => p \in Service \cup Worker

OwnCopies ==
  \A p \in Proc, t \in Task :
    held[p][t].status = "running" => held[p][t].owner = TokenOf(p)

ThreadInv == LaneInv /\ RestInv /\ ExecutorInv /\ OwnCopies

\* One step of a thread that does not end its process: it goes on, past the
\* lane lock only if the lane is free, and what it holds and saves of a run
\* carries the token of the process.
ThreadStep(p, t) ==
  /\ stage[p][t] # "out"
  /\ \E st \in Stage :
       /\ GoTo(p, t, st)
       /\ Aside(p, t) /\ st \notin {"out", "batched"} => LaneFree(p, t)
  /\ \E new \in Row :
       /\ held' = [held EXCEPT ![p][t] = new]
       /\ new.status = "running" => new.owner = TokenOf(p)
  /\ \/ UNCHANGED tasks
     \/ \E row \in Row :
          /\ Save(t, row)
          /\ row.status = "running" => row.owner = TokenOf(p)
  /\ UNCHANGED life

\* Every step of an execution is one of these or ends the process.
LEMMA ExecuteIsThreadStep ==
  ASSUME TypeInv, ThreadInv, NEW p \in Proc, NEW t \in Task, Execute(p, t),
         ~InsertFails(p, t)
  PROVE  ThreadStep(p, t)
<1> DEFINE row == held[p][t]
<1>1. /\ row \in Row
      /\ held = [held EXCEPT ![p][t] = row]
      /\ row.status = "running" => row.owner = TokenOf(p)
  BY DEF TypeInv, TypeOK, ThreadInv, OwnCopies
<1>2. \A s \in Status \ {"running"} :
        WithStatus(row, s) \in Row /\ WithStatus(row, s).status = s
  BY <1>1 DEF WithStatus, Row
<1>3. AbsentRow \in Row /\ AbsentRow.status = "absent"
  BY AbsentFacts
<1>4. ASSUME Leave(p, t), stage[p][t] # "out", UNCHANGED life,
             \/ UNCHANGED tasks
             \/ \E new \in Row : /\ Save(t, new)
                                 /\ new.status = "running" => new.owner = TokenOf(p)
      PROVE  ThreadStep(p, t)
  <2>1. GoTo(p, t, "out") /\ held' = [held EXCEPT ![p][t] = AbsentRow]
    BY <1>4 DEF Leave
  <2>2. QED
    BY <1>3, <1>4, <2>1 DEF ThreadStep, Stage
<1>5. CASE DenyWrite(p, t) \/ \E a \in ArtifactsOf[t] : RefuseClaim(p, t, a)
  <2>1. /\ Save(t, WithStatus(row, "failed")) /\ Leave(p, t)
        /\ stage[p][t] # "out" /\ UNCHANGED life
    BY <1>5 DEF DenyWrite, RefuseClaim, Admissible
  <2>2. QED
    BY <1>2, <1>4, <2>1 DEF Status
<1>6. CASE RequestApproval(p, t)
  <2>1. PICK a \in ApprovalId : held' = [held EXCEPT ![p][t] = Waiting(@, a)]
    BY <1>6 DEF RequestApproval
  <2>2. /\ Waiting(row, a) \in Row
        /\ Waiting(row, a).status = "awaiting_approval"
    BY <1>1 DEF Waiting, Row, Status
  <2>3. held' = [held EXCEPT ![p][t] = Waiting(row, a)]
    BY <2>1 DEF TypeInv, TypeOK
  <2>4. /\ stage[p][t] # "out" /\ LaneFree(p, t) /\ GoTo(p, t, "asking")
        /\ UNCHANGED <<tasks, life>>
    BY <1>6 DEF RequestApproval, Admissible
  <2>5. QED
    BY <2>2, <2>3, <2>4 DEF ThreadStep, Stage
<1>7. CASE AwaitApproval(p, t)
  BY <1>1, <1>4, <1>7 DEF AwaitApproval
<1>8. CASE Admit(p, t)
  BY <1>1, <1>8 DEF Admit, Admissible, ThreadStep, Stage, store
<1>9. CASE \/ \E a \in ArtifactsOf[t] : CheckClaim(p, t, a)
           \/ InsertClaim(p, t)
  BY <1>1, <1>9 DEF CheckClaim, InsertClaim, ThreadStep, Stage, store, Aside
<1>10. CASE MarkRunning(p, t)
  <2> DEFINE new == Running(row, TokenOf(p))
  <2>1. new \in Row /\ new.owner = TokenOf(p)
    BY <1>1, TokenType DEF TypeInv, Running, Row, Status
  <2>2. /\ held' = [held EXCEPT ![p][t] = new] /\ Save(t, new)
        /\ GoTo(p, t, "starting") /\ stage[p][t] = "claiming" /\ UNCHANGED life
    BY <1>10 DEF MarkRunning
  <2> HIDE DEF new
  <2>3. QED
    BY <2>1, <2>2 DEF ThreadStep, Stage, Aside
<1>11. CASE AgentReady(p, t) \/ RunStarted(p, t)
  BY <1>1, <1>11 DEF AgentReady, RunStarted, ThreadStep, Stage, Aside
<1>12. ASSUME NEW outcome \in {"completed", "failed"}, Finish(p, t, outcome)
       PROVE  ThreadStep(p, t)
  <2> DEFINE new == WithStatus(row, outcome)
  <2>1. new \in Row /\ new.status # "running"
    BY <1>2 DEF Status
  <2>2. /\ held' = [held EXCEPT ![p][t] = new] /\ Save(t, new)
        /\ GoTo(p, t, "releasing") /\ UNCHANGED life
        /\ stage[p][t] \in {"starting", "ready", "waiting"}
    BY <1>12 DEF Finish, Executing
  <2> HIDE DEF new
  <2>3. QED
    BY <2>1, <2>2 DEF ThreadStep, Stage, Aside
<1>13. CASE ReleaseClaims(p, t)
  BY <1>4, <1>13 DEF ReleaseClaims
<1>14. QED
  BY <1>5, <1>6, <1>7, <1>8, <1>9, <1>10, <1>11, <1>12, <1>13 DEF Execute

\* A process that ends holds nothing and keeps the others as they are.
LEMMA VanishThread ==
  ASSUME TypeInv, ThreadInv, NEW p \in Proc, Vanish(p)
  PROVE  ThreadInv'
<1>1. /\ phase' = [phase EXCEPT ![p] = "down"]
      /\ stage' = [stage EXCEPT ![p] = [t \in Task |-> "out"]]
      /\ held' = [held EXCEPT ![p] = [t \in Task |-> AbsentRow]]
      /\ UNCHANGED starts
  BY DEF Vanish
<1>2. LaneInv'
  BY <1>1 DEF TypeInv, TypeOK, ThreadInv, LaneInv, Aside
<1>3. RestInv'
  BY <1>1 DEF TypeInv, TypeOK, ThreadInv, RestInv
<1>4. ExecutorInv'
  BY <1>1 DEF TypeInv, TypeOK, ThreadInv, ExecutorInv
<1>5. OwnCopies'
  BY <1>1, AbsentFacts DEF TypeInv, TypeOK, ThreadInv, OwnCopies, TokenOf
<1>6. QED
  BY <1>2, <1>3, <1>4, <1>5 DEF ThreadInv

\* A step of a thread passes the lane lock alone.
LEMMA ThreadStepKeeps ==
  ASSUME TypeInv, ThreadInv, NEW p \in Proc, NEW t \in Task, ThreadStep(p, t)
  PROVE  ThreadInv'
<1>1. PICK st \in Stage :
        /\ stage' = [stage EXCEPT ![p][t] = st]
        /\ Aside(p, t) /\ st \notin {"out", "batched"} => LaneFree(p, t)
  BY DEF ThreadStep, GoTo
<1>2. PICK new \in Row :
        /\ held' = [held EXCEPT ![p][t] = new]
        /\ new.status = "running" => new.owner = TokenOf(p)
  BY DEF ThreadStep
<1>3. UNCHANGED <<phase, starts>> /\ stage[p][t] # "out"
  BY DEF ThreadStep, life
<1>4. LaneInv'
  <2>1. ASSUME NEW q \in Proc, NEW u \in Task, NEW v \in Task, u # v,
               LaneOf[u] = LaneOf[v]
        PROVE  Aside(q, u)' \/ Aside(q, v)'
    <3>1. CASE q # p \/ (u # t /\ v # t)
      BY <1>1, <2>1, <3>1 DEF TypeInv, TypeOK, ThreadInv, LaneInv, Aside
    <3>2. CASE q = p /\ (u = t \/ v = t)
      <4>1. PICK w \in {u, v} : w # t /\ LaneOf[w] = LaneOf[t]
        BY <2>1, <3>2
      <4>2. Aside(p, w) \/ Aside(p, t)
        BY <4>1 DEF ThreadInv, LaneInv
      <4>3. Aside(p, w)' <=> Aside(p, w)
        BY <1>1, <4>1 DEF TypeInv, TypeOK, Aside
      <4>4. st \notin {"out", "batched"} => Aside(p, w)
        BY <1>1, <4>1, <4>2 DEF LaneFree, Aside
      <4>5. st \in {"out", "batched"} => Aside(p, t)'
        BY <1>1 DEF TypeInv, TypeOK, Aside
      <4>6. QED
        BY <2>1, <3>2, <4>1, <4>3, <4>4, <4>5
    <3>3. QED
      BY <3>1, <3>2
  <2>2. QED
    BY <2>1 DEF LaneInv
<1>5. RestInv'
  <2>1. phase[p] \in {"serving", "cycled"}
    BY <1>3 DEF ThreadInv, RestInv
  <2>2. QED
    BY <1>1, <1>2, <1>3, <2>1 DEF TypeInv, TypeOK, ThreadInv, RestInv
<1>6. ExecutorInv'
  BY <1>3 DEF ThreadInv, ExecutorInv
<1>7. OwnCopies'
  BY <1>2, <1>3 DEF TypeInv, TypeOK, ThreadInv, OwnCopies, TokenOf
<1>8. QED
  BY <1>4, <1>5, <1>6, <1>7 DEF ThreadInv

\* Commands touch no thread.
LEMMA OperatorThread ==
  ASSUME Operator
  PROVE  UNCHANGED <<life, work>>
BY DEF Operator, Submit, Resolve, Approve, Reject, PauseOrResume, Fetched,
   SaveTask, KillCommand

\* Processes start and end with empty hands.
LEMMA LifecycleThread ==
  ASSUME TypeInv, ThreadInv, NEW p \in Proc, Lifecycle(p)
  PROVE  ThreadInv'
<1>1. CASE Exit(p) \/ Crash(p) \/ Cancel(p)
  BY <1>1, VanishThread DEF Exit, Crash, Cancel, Unwind
<1>2. ASSUME NEW to \in {"starting", "ready", "serving"},
             phase' = [phase EXCEPT ![p] = to], UNCHANGED work,
             phase[p] \notin {"serving", "cycled"},
             to = "serving" => p \in Service,
             \A q \in Proc \ {p} : starts'[q] = starts[q]
      PROVE  ThreadInv'
  <2>1. UNCHANGED <<stage, held>>
    BY <1>2 DEF work
  <2>2. LaneInv'
    BY <2>1 DEF ThreadInv, LaneInv, Aside
  <2>3. RestInv'
    BY <1>2, <2>1 DEF TypeInv, TypeOK, ThreadInv, RestInv
  <2>4. ExecutorInv'
    BY <1>2 DEF TypeInv, TypeOK, ThreadInv, ExecutorInv
  <2>5. OwnCopies'
    <3>1. \A t \in Task : held[p][t].status # "running"
      BY <1>2, AbsentFacts DEF ThreadInv, RestInv
    <3>2. \A q \in Proc \ {p} : TokenOf(q)' = TokenOf(q)
      BY <1>2 DEF TokenOf
    <3>3. QED
      BY <2>1, <3>1, <3>2 DEF ThreadInv, OwnCopies
  <2>6. QED
    BY <2>2, <2>3, <2>4, <2>5 DEF ThreadInv
<1>3. CASE StartProc(p)
  BY <1>2, <1>3 DEF StartProc, TypeInv, TypeOK
<1>4. CASE RecoverInterrupted(p)
  BY <1>2, <1>4 DEF RecoverInterrupted
<1>5. CASE TakeLock(p)
  BY <1>2, <1>5 DEF TakeLock
<1>6. QED
  BY <1>1, <1>3, <1>4, <1>5 DEF Lifecycle

\* A batch is listed by a process that executes, and nothing in it runs.
LEMMA HousekeepingThread ==
  ASSUME TypeInv, ThreadInv, NEW p \in Proc, Housekeeping(p)
  PROVE  ThreadInv'
<1>1. PICK E \in SUBSET Expirable, R \in SUBSET claims :
        \/ RecoverCommand(p, E, R)
        \/ \E batch \in SUBSET Task : Cycle(p, E, R, batch)
  BY DEF Housekeeping
<1>2. CASE RecoverCommand(p, E, R)
  <2>1. UNCHANGED <<phase, starts, stage, held>>
    BY <1>2 DEF RecoverCommand, life, work
  <2>2. LaneInv' /\ RestInv'
    BY <2>1 DEF ThreadInv, LaneInv, RestInv, Aside
  <2>3. ExecutorInv' /\ OwnCopies'
    BY <2>1 DEF ThreadInv, ExecutorInv, OwnCopies, TokenOf
  <2>4. QED
    BY <2>2, <2>3 DEF ThreadInv
<1>3. ASSUME NEW batch \in SUBSET Task, Cycle(p, E, R, batch)
      PROVE  ThreadInv'
  <2>1. /\ stage' = [stage EXCEPT ![p] = [t \in Task |->
                       IF t \in batch THEN "batched" ELSE "out"]]
        /\ held' = [held EXCEPT ![p] = [t \in Task |->
                      IF t \in batch THEN Expired(E)[t] ELSE AbsentRow]]
        /\ \A t \in batch : Expired(E)[t].status = "queued"
        /\ UNCHANGED starts
    BY <1>3 DEF Cycle
  <2>2. /\ phase'[p] \in {"serving", "cycled"}
        /\ phase'[p] = "cycled" => p \in Worker \/ phase[p] = "cycled"
        /\ phase'[p] = "serving" => phase[p] = "serving"
        /\ \A q \in Proc \ {p} : phase'[q] = phase[q]
    BY <1>3 DEF Cycle, TypeInv, TypeOK
  <2>3. LaneInv'
    BY <2>1 DEF TypeInv, TypeOK, ThreadInv, LaneInv, Aside
  <2>4. RestInv'
    BY <2>1, <2>2 DEF TypeInv, TypeOK, ThreadInv, RestInv
  <2>5. ExecutorInv'
    BY <2>2 DEF ThreadInv, ExecutorInv
  <2>6. OwnCopies'
    BY <2>1, AbsentFacts DEF TypeInv, TypeOK, ThreadInv, OwnCopies, TokenOf
  <2>7. QED
    BY <2>3, <2>4, <2>5, <2>6 DEF ThreadInv
<1>4. QED
  BY <1>1, <1>2, <1>3

\* The threads keep their order, whatever the assumptions.
LEMMA ThreadsKept == Spec => []ThreadInv
<1>1. Init => ThreadInv
  BY AbsentFacts
     DEF Init, ThreadInv, LaneInv, RestInv, ExecutorInv, OwnCopies, Aside
<1>2. TypeInv /\ ThreadInv /\ [Next]_vars => ThreadInv'
  <2> SUFFICES ASSUME TypeInv, ThreadInv, [Next]_vars PROVE ThreadInv'
    OBVIOUS
  <2>1. ASSUME UNCHANGED <<life, work>> PROVE ThreadInv'
    <3>1. UNCHANGED <<phase, starts, stage, held>>
      BY <2>1 DEF life, work
    <3>2. LaneInv' /\ RestInv'
      BY <3>1 DEF ThreadInv, LaneInv, RestInv, Aside
    <3>3. ExecutorInv' /\ OwnCopies'
      BY <3>1 DEF ThreadInv, ExecutorInv, OwnCopies, TokenOf
    <3>4. QED
      BY <3>2, <3>3 DEF ThreadInv
  <2>2. CASE Operator \/ UNCHANGED vars
    BY <2>1, <2>2, OperatorThread DEF vars
  <2>3. ASSUME NEW p \in Proc, NEW t \in Task, Execute(p, t)
        PROVE  ThreadInv'
    <3>1. CASE InsertFails(p, t)
      BY <3>1, VanishThread DEF InsertFails, Unwind
    <3>2. CASE ~InsertFails(p, t)
      BY <2>3, <3>2, ExecuteIsThreadStep, ThreadStepKeeps
    <3>3. QED
      BY <3>1, <3>2
  <2>4. QED
    BY <2>2, <2>3, LifecycleThread, HousekeepingThread DEF Next
<1>3. QED
  BY <1>1, <1>2, TypeInit, TypeStep, PTL DEF Spec

\* One process alone executes tasks: the others are commands, or workers that
\* are denied every task.
OneExecutor(s) ==
  \A p \in Proc \ {s} :
    /\ p \notin Service
    /\ p \in Worker => \A t \in Task : Denied(p, t)

OthersRest(s) == \A p \in Proc \ {s}, t \in Task : Aside(p, t)

\* A denied task leaves the batch at once.
LEMMA DeniedLeaves ==
  ASSUME TypeInv, ThreadInv, NEW s \in Proc, OneExecutor(s), OthersRest(s),
         NEW p \in Proc \ {s}, NEW t \in Task, Execute(p, t)
  PROVE  DenyWrite(p, t)
<1>1. Aside(p, t)
  BY DEF OthersRest
<1>2. DenyWrite(p, t) \/ (~Denied(p, t) /\ stage[p][t] = "batched")
  BY <1>1 DEF Execute, Admissible, Aside, RequestApproval, AwaitApproval,
     Admit, CheckClaim, RefuseClaim, InsertClaim, InsertFails, MarkRunning,
     AgentReady, RunStarted, Finish, ReleaseClaims, Executing
<1>3. stage[p][t] = "batched" => p \in Worker
  BY DEF ThreadInv, RestInv, ExecutorInv, OneExecutor
<1>4. QED
  BY <1>2, <1>3 DEF OneExecutor

\* The others never get past the head of their batch.
LEMMA OthersKept ==
  ASSUME NEW s \in Proc, OneExecutor(s)
  PROVE  Spec => []OthersRest(s)
<1> DEFINE Inv == OthersRest(s)
<1>1. Init => Inv
  BY DEF Init, OthersRest, Aside
<1>2. TypeInv /\ ThreadInv /\ Inv /\ [Next]_vars => Inv'
  <2> SUFFICES ASSUME TypeInv, ThreadInv, Inv, [Next]_vars PROVE Inv'
    OBVIOUS
  <2>1. ASSUME UNCHANGED work PROVE Inv'
    BY <2>1 DEF work, OthersRest, Aside
  <2>2. CASE Operator \/ UNCHANGED vars
    BY <2>1, <2>2, OperatorThread DEF vars
  <2>3. ASSUME NEW p \in Proc, Vanish(p) PROVE Inv'
    BY <2>3 DEF Vanish, OthersRest, Aside, TypeInv, TypeOK
  <2>4. ASSUME NEW p \in Proc, Lifecycle(p) PROVE Inv'
    BY <2>1, <2>3, <2>4 DEF Lifecycle, StartProc, RecoverInterrupted, TakeLock,
       Exit, Crash, Cancel, Unwind
  <2>5. ASSUME NEW p \in Proc, Housekeeping(p) PROVE Inv'
    BY <2>1, <2>5 DEF Housekeeping, RecoverCommand, Cycle, OthersRest, Aside,
       TypeInv, TypeOK
  <2>6. ASSUME NEW p \in Proc, NEW t \in Task, Execute(p, t) PROVE Inv'
    <3>1. CASE p = s /\ InsertFails(p, t)
      BY <2>3, <3>1 DEF InsertFails, Unwind
    <3>2. CASE p = s /\ ~InsertFails(p, t)
      <4>1. ThreadStep(p, t)
        BY <2>6, <3>2, ExecuteIsThreadStep
      <4>2. PICK st \in Stage : stage' = [stage EXCEPT ![p][t] = st]
        BY <4>1 DEF ThreadStep, GoTo
      <4>3. \A q \in Proc \ {s} : stage'[q] = stage[q]
        BY <3>2, <4>2 DEF TypeInv, TypeOK
      <4>4. QED
        BY <4>3 DEF OthersRest, Aside
    <3>3. CASE p # s
      <4>1. DenyWrite(p, t)
        BY <2>6, <3>3, DeniedLeaves
      <4>2. stage' = [stage EXCEPT ![p][t] = "out"]
        BY <4>1 DEF DenyWrite, Leave, GoTo
      <4>3. ASSUME NEW q \in Proc \ {s}, NEW u \in Task
            PROVE  stage'[q][u] \in {stage[q][u], "out"}
        BY <4>2 DEF TypeInv, TypeOK
      <4>4. QED
        BY <4>3 DEF OthersRest, Aside
    <3>4. QED
      BY <3>1, <3>2, <3>3
  <2>7. QED
    BY <2>2, <2>4, <2>5, <2>6 DEF Next
<1>3. QED
  BY <1>1, <1>2, TypeInit, TypeStep, ThreadsKept, PTL DEF Spec

-----------------------------------------------------------------------------
(* Orphans.  When one process alone serves or works, the constructor finds  *)
(* no live service and requeues whatever runs; from then on every row that  *)
(* runs was saved by that process and carries its token.                    *)

OrphanInv(s) ==
  /\ phase[s] = "starting" => seen[s] = NONE
  /\ phase[s] \notin {"down", "starting"} =>
       \A t \in Task : tasks[t].status = "running" => tasks[t].owner = TokenOf(s)

\* A save that does not run, or runs with the token of s, leaves no orphan.
LEMMA SaveOrphan ==
  ASSUME TypeInv, NEW s \in Proc, OrphanInv(s), UNCHANGED life,
         \A t \in Task : tasks'[t].status = "running" =>
           tasks'[t] = tasks[t] \/ tasks'[t].owner = TokenOf(s)
  PROVE  /\ phase'[s] = "starting" => seen'[s] = NONE
         /\ phase'[s] \notin {"down", "starting"} =>
              \A t \in Task : tasks'[t].status = "running" =>
                tasks'[t].owner = TokenOf(s)'
BY DEF OrphanInv, life, TokenOf

\* Whatever a single executor finds running once it is ready is its own.
LEMMA OrphansKept ==
  ASSUME NEW s \in Proc, OneExecutor(s)
  PROVE  Spec => []OrphanInv(s)
<1> DEFINE Inv == OrphanInv(s)
<1>1. Init => Inv
  BY DEF Init, OrphanInv
<1>2. TypeInv /\ ThreadInv /\ OthersRest(s) /\ Inv /\ [Next]_vars => Inv'
  <2> SUFFICES ASSUME TypeInv, ThreadInv, OthersRest(s), Inv, [Next]_vars
               PROVE  Inv'
    OBVIOUS
  <2>1. ASSUME UNCHANGED life,
               \A t \in Task : tasks'[t].status = "running" =>
                 tasks'[t] = tasks[t] \/ tasks'[t].owner = TokenOf(s)
        PROVE  Inv'
    BY <2>1, SaveOrphan DEF OrphanInv
  <2>2. CASE UNCHANGED vars
    BY <2>1, <2>2 DEF vars, store
  <2>3. CASE Operator
    <3>1. UNCHANGED life
      BY <2>3, OperatorThread
    <3>2. \/ UNCHANGED tasks
          \/ \E t \in Task, row \in Row : Save(t, row) /\ row.status # "running"
      <4>1. ASSUME NEW t \in Task, Submit(t)
            PROVE  \E row \in Row : Save(t, row) /\ row.status # "running"
        <5>1. /\ WithStatus(AbsentRow, "queued") \in Row
              /\ WithStatus(AbsentRow, "queued").status = "queued"
          BY AbsentFacts DEF WithStatus, Row, Status
        <5>2. QED
          BY <4>1, <5>1 DEF Submit
      <4>2. ASSUME NEW k \in Clerk, SaveTask(k)
            PROVE  \E t \in Task, row \in Row :
                     Save(t, row) /\ row.status # "running"
        BY <4>2, ErrandFacts DEF SaveTask, TypeInv, CommandOK
      <4>3. QED
        BY <2>3, <4>1, <4>2 DEF Operator, Resolve, Approve, Reject, PauseOrResume,
           Fetched, KillCommand, store
    <3>3. QED
      BY <2>1, <3>1, <3>2, SaveFacts DEF TypeInv, TypeOK
  <2>4. ASSUME NEW p \in Proc, Lifecycle(p) PROVE Inv'
    <3>1. CASE StartProc(p)
      <4>1. p = s => seen'[s] = NONE
        <5>1. p = s => LiveToken = NONE
          BY <3>1, ConstantsAssumption DEF StartProc, LiveToken, OneExecutor
        <5>2. QED
          BY <3>1, <5>1 DEF StartProc, TypeInv, TypeOK
      <4>2. p # s => /\ phase'[s] = phase[s] /\ seen'[s] = seen[s]
                     /\ starts'[s] = starts[s]
        BY <3>1 DEF StartProc, TypeInv, TypeOK
      <4>3. p = s => phase'[s] = "starting"
        BY <3>1 DEF StartProc, TypeInv, TypeOK
      <4>4. UNCHANGED tasks
        BY <3>1 DEF StartProc, store
      <4>5. QED
        BY <4>1, <4>2, <4>3, <4>4 DEF OrphanInv, TokenOf
    <3>2. CASE RecoverInterrupted(p)
      <4>1. /\ \A t \in Task : tasks'[t].status = "running" =>
                 tasks'[t] = tasks[t] /\ t \notin Interrupted(p)
            /\ UNCHANGED <<starts, seen>>
        BY <3>2 DEF RecoverInterrupted, TypeInv, TypeOK
      <4>2. p # s => phase'[s] = phase[s]
        BY <3>2 DEF RecoverInterrupted, TypeInv, TypeOK
      <4>3. p = s => /\ phase'[s] = "ready"
                     /\ \A t \in Task : tasks'[t].status # "running"
        BY <3>2, <4>1 DEF RecoverInterrupted, Interrupted, OrphanInv, TypeInv,
           TypeOK
      <4>4. QED
        BY <4>1, <4>2, <4>3 DEF OrphanInv, TokenOf
    <3>3. CASE TakeLock(p)
      <4>1. p = s /\ phase[s] = "ready" /\ phase'[s] = "serving"
        BY <3>3 DEF TakeLock, OneExecutor, TypeInv, TypeOK
      <4>2. UNCHANGED <<tasks, starts>>
        BY <3>3 DEF TakeLock, store
      <4>3. QED
        BY <4>1, <4>2 DEF OrphanInv, TokenOf
    <3>4. CASE Exit(p) \/ Crash(p) \/ Cancel(p)
      <4>1. Vanish(p) /\ UNCHANGED tasks
        BY <3>4 DEF Exit, Crash, Cancel, Unwind, store
      <4>2. /\ p = s => phase'[s] = "down"
            /\ p # s => phase'[s] = phase[s] /\ seen'[s] = seen[s]
            /\ UNCHANGED starts
        BY <4>1 DEF Vanish, TypeInv, TypeOK
      <4>3. QED
        BY <4>1, <4>2 DEF OrphanInv, TokenOf
    <3>5. QED
      BY <2>4, <3>1, <3>2, <3>3, <3>4 DEF Lifecycle
  <2>5. ASSUME NEW p \in Proc, Housekeeping(p) PROVE Inv'
    <3>1. PICK E \in SUBSET Expirable : tasks' = Expired(E)
      BY <2>5 DEF Housekeeping, RecoverCommand, Cycle
    <3>2. \A t \in Task : tasks'[t].status = "running" => tasks'[t] = tasks[t]
      BY <3>1 DEF Expired, WithStatus
    <3>3. /\ UNCHANGED <<starts, seen>>
          /\ phase'[s] = "starting" => phase[s] = "starting"
          /\ phase'[s] \notin {"down", "starting"} =>
               phase[s] \notin {"down", "starting"}
      BY <2>5 DEF Housekeeping, RecoverCommand, Cycle, life, TypeInv, TypeOK
    <3>4. QED
      BY <3>2, <3>3 DEF OrphanInv, TokenOf
  <2>6. ASSUME NEW p \in Proc, NEW t \in Task, Execute(p, t) PROVE Inv'
    <3>1. CASE InsertFails(p, t)
      <4>1. Vanish(p) /\ UNCHANGED tasks
        BY <3>1 DEF InsertFails, Unwind
      <4>2. /\ p = s => phase'[s] = "down"
            /\ p # s => phase'[s] = phase[s] /\ seen'[s] = seen[s]
            /\ UNCHANGED starts
        BY <4>1 DEF Vanish, TypeInv, TypeOK
      <4>3. QED
        BY <4>1, <4>2 DEF OrphanInv, TokenOf
    <3>2. CASE ~InsertFails(p, t)
      <4>1. ThreadStep(p, t)
        BY <2>6, <3>2, ExecuteIsThreadStep
      <4>2. CASE p = s
        BY <2>1, <4>1, <4>2, SaveFacts DEF ThreadStep, TypeInv, TypeOK
      <4>3. CASE p # s
        <5> DEFINE row == WithStatus(held[p][t], "failed")
        <5>1. Save(t, row) /\ UNCHANGED life
          BY <2>6, <4>3, DeniedLeaves DEF DenyWrite
        <5>2. row \in Row /\ row.status = "failed"
          BY DEF TypeInv, TypeOK, WithStatus, Row, Status
        <5> HIDE DEF row
        <5>3. QED
          BY <2>1, <5>1, <5>2, SaveFacts DEF TypeInv, TypeOK
      <4>4. QED
        BY <4>2, <4>3
    <3>3. QED
      BY <3>1, <3>2
  <2>7. QED
    BY <2>2, <2>3, <2>4, <2>5, <2>6 DEF Next
<1>3. Spec => []OthersRest(s)
  BY OthersKept
<1>4. QED
  BY <1>1, <1>2, <1>3, TypeInit, TypeStep, ThreadsKept, PTL DEF Spec

\* README.md:57-58: with one process that executes, no running task is left
\* over from an owner that is gone while it serves.
THEOREM NoOrphans ==
  ASSUME NEW s \in Proc, OneExecutor(s)
  PROVE  Spec => []NoOrphanWhileServing
<1>1. OrphanInv(s) => NoOrphanWhileServing
  BY ConstantsAssumption DEF OrphanInv, NoOrphanWhileServing, OneExecutor
<1>2. Spec => []OrphanInv(s)
  BY OrphansKept
<1>3. QED
  BY <1>1, <1>2, PTL

-----------------------------------------------------------------------------
(* The token a start-up reads.  When no two start-ups overlap, nobody takes *)
(* the lock between the read and the recovery, so that the token read is    *)
(* still that of the service, or the service is gone.                       *)

\* A lock file was written by an incarnation that existed.
LockAge ==
  \A p \in Proc, n \in Nat : lock = <<p, n>> => n <= starts[p]

\* Beside a process that starts, the others serve or are down, and the live
\* token, if there is one, is the one it read.
StartInv ==
  \A p \in Proc : phase[p] = "starting" =>
    /\ \A q \in Proc \ {p} : phase[q] \in {"down", "serving"}
    /\ LiveToken \in {NONE, seen[p]}

\* A process that ends leaves at most the live token there was.
LEMMA VanishStart ==
  ASSUME TypeInv, LockAge, StartInv, NEW p \in Proc, Vanish(p),
         lock' \in {lock, NONE}
  PROVE  LockAge' /\ StartInv'
<1>1. /\ \A q \in Proc : phase'[q] \in {phase[q], "down"}
      /\ \A q \in Proc \ {p} : phase'[q] = phase[q] /\ seen'[q] = seen[q]
      /\ phase'[p] = "down"
      /\ UNCHANGED starts
  BY DEF Vanish, TypeInv, TypeOK
<1>2. LockAge'
  BY <1>1, ConstantsAssumption DEF LockAge
<1>3. LiveToken' \in {NONE, LiveToken}
  BY <1>1, ConstantsAssumption DEF LiveToken, TokenOf, TypeInv, TypeOK
<1>4. StartInv'
  BY <1>1, <1>3 DEF StartInv
<1>5. QED
  BY <1>2, <1>4

\* The steps of a life keep both, when start-ups do not overlap.
LEMMA LifecycleStart ==
  ASSUME TypeInv, LockAge, StartInv, StartsApart, NEW p \in Proc, Lifecycle(p)
  PROVE  LockAge' /\ StartInv'
<1>1. CASE Exit(p) \/ Crash(p) \/ Cancel(p)
  <2>1. Vanish(p) /\ lock' \in {lock, NONE}
    BY <1>1 DEF Exit, Crash, Cancel, Unwind, DropLock
  <2>2. QED
    BY <2>1, VanishStart
<1>2. CASE StartProc(p)
  <2>1. /\ \A q \in Proc : phase[q] \in {"down", "serving"}
        /\ phase' = [phase EXCEPT ![p] = "starting"]
        /\ starts' = [starts EXCEPT ![p] = @ + 1]
        /\ seen' = [seen EXCEPT ![p] = LiveToken]
        /\ UNCHANGED lock
    BY <1>2 DEF StartProc
  <2>2. starts'[p] = starts[p] + 1 /\ starts[p] \in Nat
    BY <2>1 DEF TypeInv, TypeOK
  <2>3. \A q \in Proc \ {p} : starts'[q] = starts[q] /\ phase'[q] = phase[q]
    BY <2>1 DEF TypeInv, TypeOK
  <2>4. LockAge'
    <3> SUFFICES ASSUME NEW q \in Proc, NEW n \in Nat, lock = <<q, n>>
                 PROVE  n <= starts'[q]
      BY <2>1 DEF LockAge
    <3>1. n <= starts[q]
      BY DEF LockAge
    <3>2. starts[q] \in Nat /\ starts'[q] \in {starts[q], starts[q] + 1}
      BY <2>2, <2>3 DEF TypeInv, TypeOK
    <3>3. QED
      BY <3>1, <3>2
  <2>5. lock # TokenOf(p)'
    BY <2>2 DEF LockAge, TokenOf
  <2>6. LiveToken' \in {NONE, LiveToken}
    <3>1. ASSUME NEW q \in Service, phase'[q] # "down", lock' = TokenOf(q)'
          PROVE  LiveToken = lock
      <4>1. q # p /\ q \in Proc
        BY <2>1, <2>5, <3>1, ConstantsAssumption
      <4>2. phase[q] # "down" /\ lock = TokenOf(q)
        BY <2>1, <2>3, <3>1, <4>1 DEF TokenOf
      <4>3. QED
        BY <4>2 DEF LiveToken
    <3>2. QED
      BY <2>1, <3>1 DEF LiveToken
  <2>7. StartInv'
    <3>1. phase'[p] = "starting" /\ seen'[p] = LiveToken
      BY <2>1 DEF TypeInv, TypeOK
    <3>2. \A q \in Proc \ {p} : phase'[q] \in {"down", "serving"}
      BY <2>1, <2>3
    <3>3. QED
      BY <2>6, <3>1, <3>2 DEF StartInv
  <2>8. QED
    BY <2>4, <2>7
<1>3. CASE RecoverInterrupted(p)
  <2>1. /\ phase[p] = "starting"
        /\ phase' = [phase EXCEPT ![p] = "ready"]
        /\ UNCHANGED <<lock, starts, seen>>
    BY <1>3 DEF RecoverInterrupted
  <2>2. \A q \in Proc : phase'[q] # "starting"
    BY <2>1 DEF StartInv, TypeInv, TypeOK
  <2>3. QED
    BY <2>1, <2>2 DEF LockAge, StartInv
<1>4. CASE TakeLock(p)
  <2>1. /\ phase[p] = "ready"
        /\ phase' = [phase EXCEPT ![p] = "serving"]
        /\ lock' = TokenOf(p)
        /\ UNCHANGED starts
    BY <1>4 DEF TakeLock
  <2>2. \A q \in Proc : phase'[q] # "starting"
    BY <2>1 DEF StartInv, TypeInv, TypeOK
  <2>3. LockAge'
    BY <2>1 DEF LockAge, TokenOf, TypeInv, TypeOK
  <2>4. QED
    BY <2>2, <2>3 DEF StartInv
<1>5. QED
  BY <1>1, <1>2, <1>3, <1>4 DEF Lifecycle

\* The token read at a start-up stays that of the service.
LEMMA StartsKept ==
  ASSUME StartsApart
  PROVE  Spec => [](LockAge /\ StartInv)
<1> DEFINE Inv == LockAge /\ StartInv
<1>1. Init => Inv
  BY ConstantsAssumption DEF Init, LockAge, StartInv
<1>2. TypeInv /\ ThreadInv /\ Inv /\ [Next]_vars => Inv'
  <2> SUFFICES ASSUME TypeInv, ThreadInv, Inv, [Next]_vars PROVE Inv'
    OBVIOUS
  <2>1. ASSUME UNCHANGED life PROVE Inv'
    <3>1. UNCHANGED <<lock, phase, starts, seen>>
      BY <2>1 DEF life
    <3>2. LiveToken' = LiveToken
      BY <3>1 DEF LiveToken, TokenOf
    <3>3. QED
      BY <3>1, <3>2 DEF LockAge, StartInv
  <2>2. CASE Operator \/ UNCHANGED vars
    BY <2>1, <2>2, OperatorThread DEF vars
  <2>3. ASSUME NEW p \in Proc, Housekeeping(p) PROVE Inv'
    <3>1. CASE UNCHANGED phase
      BY <2>1, <2>3, <3>1 DEF Housekeeping, RecoverCommand, Cycle, life
    <3>2. CASE phase[p] = "ready" /\ phase' = [phase EXCEPT ![p] = "cycled"]
      <4>1. UNCHANGED <<lock, starts>>
        BY <2>3, <3>2 DEF Housekeeping, RecoverCommand, Cycle, life
      <4>2. \A q \in Proc : phase'[q] # "starting"
        BY <3>2 DEF StartInv, TypeInv, TypeOK
      <4>3. QED
        BY <4>1, <4>2 DEF LockAge, StartInv
    <3>3. QED
      BY <2>3, <3>1, <3>2 DEF Housekeeping, RecoverCommand, Cycle, life
  <2>4. ASSUME NEW p \in Proc, NEW t \in Task, Execute(p, t) PROVE Inv'
    <3>1. CASE InsertFails(p, t)
      BY <3>1, VanishStart DEF InsertFails, Unwind, DropLock
    <3>2. CASE ~InsertFails(p, t)
      BY <2>1, <2>4, <3>2, ExecuteIsThreadStep DEF ThreadStep
    <3>3. QED
      BY <3>1, <3>2
  <2>5. QED
    BY <2>2, <2>3, <2>4, LifecycleStart DEF Next
<1>3. QED
  BY <1>1, <1>2, TypeInit, TypeStep, ThreadsKept, PTL DEF Spec

-----------------------------------------------------------------------------
(* Claims.  Let one service execute tasks, start-ups not overlap and no run *)
(* outlast its claims.  Then nobody but the thread itself takes its claims  *)
(* away: recovery spares the runs of the live service, the ttl has not      *)
(* passed, and release() frees by lane, in which nobody else is at work.    *)

\* One service executes tasks; moreover its runs end within the ttl of a claim.
SoleService(s) == s \in Service /\ OneExecutor(s) /\ StartsApart

OneService(s) == SoleService(s) /\ ~LongRuns

\* While the service serves, the lock file is its own.
ServeInv(s) ==
  /\ phase[s] = "serving" => lock = TokenOf(s)
  /\ phase[s] # "cycled"

\* What a thread of the service acquired is claimed; it has nothing before it
\* starts to acquire, and all of it while it executes.
HoldInv(s) ==
  \A t \in Task :
    /\ \A a \in got[s][t] : <<t, a>> \in claims
    /\ stage[s][t] \in {"out", "batched", "asking"} => got[s][t] = {}
    /\ Executing(s, t) => got[s][t] = ArtifactsOf[t]

\* The partial unique index: one write claim an artifact.
IndexInv ==
  \A t, u \in WriteTask, a \in Artifact :
    <<t, a>> \in claims /\ <<u, a>> \in claims => t = u

\* A process that ends takes only its own lock file with it.
LEMMA VanishServe ==
  ASSUME TypeInv, NEW s \in Proc, ServeInv(s), NEW p \in Proc, Vanish(p),
         lock' = lock \/ DropLock(p)
  PROVE  ServeInv(s)'
<1>1. /\ phase' = [phase EXCEPT ![p] = "down"]
      /\ UNCHANGED starts
  BY DEF Vanish
<1>2. CASE p = s
  BY <1>1, <1>2 DEF ServeInv, TypeInv, TypeOK
<1>3. CASE p # s
  <2>1. phase'[s] = phase[s] /\ TokenOf(s)' = TokenOf(s)
    BY <1>1, <1>3 DEF TokenOf, TypeInv, TypeOK
  <2>2. TokenOf(p) # TokenOf(s)
    BY <1>3 DEF TokenOf
  <2>3. QED
    BY <2>1, <2>2 DEF ServeInv, DropLock
<1>4. QED
  BY <1>2, <1>3

\* The service keeps its lock file as long as it serves.
LEMMA ServesUnderLock ==
  ASSUME NEW s \in Proc, SoleService(s)
  PROVE  Spec => []ServeInv(s)
<1> DEFINE Inv == ServeInv(s)
<1>1. Init => Inv
  BY DEF Init, ServeInv
<1>2. TypeInv /\ ThreadInv /\ Inv /\ [Next]_vars => Inv'
  <2> SUFFICES ASSUME TypeInv, ThreadInv, Inv, [Next]_vars PROVE Inv'
    OBVIOUS
  <2>1. ASSUME UNCHANGED life PROVE Inv'
    BY <2>1 DEF life, ServeInv, TokenOf
  <2>2. CASE Operator \/ UNCHANGED vars
    BY <2>1, <2>2, OperatorThread DEF vars
  <2>3. ASSUME NEW p \in Proc, Lifecycle(p) PROVE Inv'
    <3>1. CASE Exit(p) \/ Crash(p) \/ Cancel(p)
      BY <3>1, VanishServe DEF Exit, Crash, Cancel, Unwind
    <3>2. CASE StartProc(p) \/ RecoverInterrupted(p)
      <4>1. /\ UNCHANGED lock
            /\ p = s => phase'[s] \in {"starting", "ready"}
            /\ p # s => phase'[s] = phase[s] /\ starts'[s] = starts[s]
        BY <3>2 DEF StartProc, RecoverInterrupted, TypeInv, TypeOK
      <4>2. QED
        BY <4>1 DEF ServeInv, TokenOf
    <3>3. CASE TakeLock(p)
      <4>1. p = s
        BY <3>3 DEF TakeLock, SoleService, OneExecutor
      <4>2. /\ lock' = TokenOf(s) /\ UNCHANGED starts
            /\ phase'[s] = "serving"
        BY <3>3, <4>1 DEF TakeLock, TypeInv, TypeOK
      <4>3. QED
        BY <4>2 DEF ServeInv, TokenOf
    <3>4. QED
      BY <2>3, <3>1, <3>2, <3>3 DEF Lifecycle
  <2>4. ASSUME NEW p \in Proc, Housekeeping(p) PROVE Inv'
    <3>1. s \notin Worker
      BY ConstantsAssumption DEF SoleService
    <3>2. /\ UNCHANGED <<lock, starts>>
          /\ phase'[s] = phase[s]
      BY <2>4, <3>1 DEF Housekeeping, RecoverCommand, Cycle, life, TypeInv, TypeOK
    <3>3. QED
      BY <3>2 DEF ServeInv, TokenOf
  <2>5. ASSUME NEW p \in Proc, NEW t \in Task, Execute(p, t) PROVE Inv'
    <3>1. CASE InsertFails(p, t)
      BY <3>1, VanishServe DEF InsertFails, Unwind
    <3>2. CASE ~InsertFails(p, t)
      BY <2>1, <2>5, <3>2, ExecuteIsThreadStep DEF ThreadStep
    <3>3. QED
      BY <3>1, <3>2
  <2>6. QED
    BY <2>2, <2>3, <2>4, <2>5 DEF Next
<1>3. QED
  BY <1>1, <1>2, TypeInit, TypeStep, ThreadsKept, PTL DEF Spec

\* The write claims of an artifact stay one, whatever the assumptions.
LEMMA IndexKept == Spec => []IndexInv
<1>1. Init => IndexInv
  BY DEF Init, IndexInv
<1>2. TypeInv /\ IndexInv /\ [Next]_vars => IndexInv'
  <2> SUFFICES ASSUME TypeInv, IndexInv, [Next]_vars PROVE IndexInv'
    OBVIOUS
  <2>1. ASSUME claims' \subseteq claims PROVE IndexInv'
    BY <2>1 DEF IndexInv
  <2>2. CASE Operator \/ UNCHANGED vars
    BY <2>1, <2>2 DEF Operator, Submit, Resolve, Approve, Reject,
       PauseOrResume, Fetched, SaveTask, KillCommand, vars, store
  <2>3. ASSUME NEW p \in Proc, Lifecycle(p) \/ Housekeeping(p)
        PROVE  claims' \subseteq claims
    BY <2>3 DEF Lifecycle, StartProc, RecoverInterrupted, TakeLock, Exit,
       Crash, Cancel, Unwind, Housekeeping, RecoverCommand, Cycle, store
  <2>4. ASSUME NEW p \in Proc, NEW t \in Task, Execute(p, t) PROVE IndexInv'
    <3>1. CASE InsertClaim(p, t)
      <4>1. /\ claims' = claims \cup {<<t, target[p][t]>>}
            /\ ~IndexClash(t, target[p][t])
        BY <3>1 DEF InsertClaim
      <4>2. t \in WriteTask => \A u \in WriteTask : <<u, target[p][t]>> \notin claims
        BY <4>1 DEF IndexClash, WriteClaimed
      <4>3. QED
        BY <4>1, <4>2 DEF IndexInv
    <3>2. CASE ~InsertClaim(p, t)
      <4>1. claims' \subseteq claims
        BY <2>4, <3>2 DEF Execute, DenyWrite, RequestApproval, AwaitApproval,
           Admit, CheckClaim, RefuseClaim, InsertFails, Unwind, MarkRunning,
           AgentReady, RunStarted, Finish, ReleaseClaims, store
      <4>2. QED
        BY <2>1, <4>1
    <3>3. QED
      BY <3>1, <3>2
  <2>5. QED
    BY <2>1, <2>2, <2>3, <2>4 DEF Next
<1>3. QED
  BY <1>1, <1>2, TypeInit, TypeStep, PTL DEF Spec

\* Recovery spares the tasks a thread of the service has claims for.
LEMMA RecoverySpares ==
  ASSUME TypeInv, ThreadInv, NEW s \in Proc, OneService(s), OrphanInv(s),
         StartInv, ServeInv(s), HoldInv(s), NEW p \in Proc,
         RecoverInterrupted(p), NEW t \in Task, got[s][t] # {}
  PROVE  t \notin Interrupted(p)
<1>1. phase[s] = "serving" /\ lock = TokenOf(s)
  BY DEF HoldInv, ThreadInv, RestInv, ServeInv
<1>2. LiveToken = TokenOf(s)
  BY <1>1 DEF OneService, SoleService, LiveToken
<1>3. TokenOf(s) # NONE
  BY TokenType, ConstantsAssumption DEF TypeInv, Token
<1>4. seen[p] = TokenOf(s)
  BY <1>2, <1>3 DEF StartInv, RecoverInterrupted
<1>5. tasks[t].status = "running" => tasks[t].owner = TokenOf(s)
  BY <1>1 DEF OrphanInv
<1>6. QED
  BY <1>3, <1>4, <1>5 DEF Interrupted

\* A thread that releases its claims takes none of another thread's.
LEMMA ReleaseHolds ==
  ASSUME TypeInv, ThreadInv, NEW s \in Proc, HoldInv(s), NEW t \in Task,
         ~Aside(s, t), Leave(s, t),
         claims' = claims \ ReleasedBy(got[s][t], LaneOf[t])
  PROVE  HoldInv(s)'
<1>1. /\ stage' = [stage EXCEPT ![s][t] = "out"]
      /\ got' = [got EXCEPT ![s][t] = {}]
  BY DEF Leave, GoTo
<1>2. ASSUME NEW u \in Task, u # t
      PROVE  /\ stage'[s][u] = stage[s][u] /\ got'[s][u] = got[s][u]
             /\ \A a \in got[s][u] : <<u, a>> \in claims'
  <2>1. stage'[s][u] = stage[s][u] /\ got'[s][u] = got[s][u]
    BY <1>1, <1>2 DEF TypeInv, TypeOK
  <2>2. ASSUME NEW a \in got[s][u] PROVE <<u, a>> \in claims'
    <3>1. <<u, a>> \in claims /\ ~Aside(s, u)
      BY <2>2 DEF HoldInv, Aside
    <3>2. LaneOf[u] # LaneOf[t]
      BY <1>2, <3>1 DEF ThreadInv, LaneInv
    <3>3. QED
      BY <3>1, <3>2 DEF ReleasedBy
  <2>3. QED
    BY <2>1, <2>2
<1>3. stage'[s][t] = "out" /\ got'[s][t] = {}
  BY <1>1 DEF TypeInv, TypeOK
<1>4. QED
  BY <1>2, <1>3 DEF HoldInv, Executing

\* A step that leaves the claims and what was acquired alone.
LEMMA StageHolds ==
  ASSUME TypeInv, NEW s \in Proc, HoldInv(s), NEW t \in Task, NEW st \in Stage,
         GoTo(s, t, st), UNCHANGED <<claims, got>>,
         st \in {"out", "batched", "asking"} => got[s][t] = {},
         st \in {"starting", "ready", "waiting"} => got[s][t] = ArtifactsOf[t]
  PROVE  HoldInv(s)'
<1>1. /\ stage'[s][t] = st
      /\ \A u \in Task \ {t} : stage'[s][u] = stage[s][u]
  BY DEF GoTo, TypeInv, TypeOK
<1>2. QED
  BY <1>1 DEF HoldInv, Executing

\* The steps of a thread of the service.
LEMMA ExecuteHolds ==
  ASSUME TypeInv, ThreadInv, NEW s \in Proc, HoldInv(s), NEW t \in Task,
         Execute(s, t), ~InsertFails(s, t)
  PROVE  HoldInv(s)'
<1>1. CASE DenyWrite(s, t) \/ AwaitApproval(s, t)
  <2>1. Leave(s, t) /\ UNCHANGED claims /\ got[s][t] = {}
    BY <1>1 DEF DenyWrite, AwaitApproval, Admissible, HoldInv
  <2>2. GoTo(s, t, "out") /\ UNCHANGED got
    BY <2>1 DEF Leave, TypeInv, TypeOK
  <2>3. QED
    BY <2>1, <2>2, StageHolds DEF Stage
<1>2. CASE RequestApproval(s, t)
  BY <1>2, StageHolds DEF RequestApproval, Admissible, HoldInv, Stage
<1>3. CASE Admit(s, t)
  BY <1>3, StageHolds DEF Admit, store, Stage
<1>4. CASE \E a \in ArtifactsOf[t] : CheckClaim(s, t, a)
  BY <1>4, StageHolds DEF CheckClaim, store, Stage
<1>5. CASE \E a \in ArtifactsOf[t] : RefuseClaim(s, t, a)
  BY <1>5, ReleaseHolds DEF RefuseClaim, Aside
<1>6. CASE InsertClaim(s, t)
  <2>1. /\ claims' = claims \cup {<<t, target[s][t]>>}
        /\ got' = [got EXCEPT ![s][t] = @ \cup {target[s][t]}]
        /\ stage' = [stage EXCEPT ![s][t] = "claiming"]
    BY <1>6 DEF InsertClaim, GoTo
  <2>2. /\ stage'[s][t] = "claiming"
        /\ got'[s][t] = got[s][t] \cup {target[s][t]}
    BY <2>1 DEF TypeInv, TypeOK
  <2>3. \A u \in Task \ {t} : stage'[s][u] = stage[s][u] /\ got'[s][u] = got[s][u]
    BY <2>1 DEF TypeInv, TypeOK
  <2>4. QED
    BY <2>1, <2>2, <2>3 DEF HoldInv, Executing
<1>7. CASE MarkRunning(s, t)
  BY <1>7, StageHolds DEF MarkRunning, Stage
<1>8. CASE AgentReady(s, t) \/ RunStarted(s, t)
  BY <1>8, StageHolds DEF AgentReady, RunStarted, HoldInv, Executing, Stage
<1>9. CASE \E outcome \in {"completed", "failed"} : Finish(s, t, outcome)
  BY <1>9, StageHolds DEF Finish, Stage
<1>10. CASE ReleaseClaims(s, t)
  BY <1>10, ReleaseHolds DEF ReleaseClaims, Aside
<1>11. QED
  BY <1>1, <1>2, <1>3, <1>4, <1>5, <1>6, <1>7, <1>8, <1>9, <1>10 DEF Execute

\* A process that ends: the service has nothing left, and another process has
\* no run to unwind.
LEMMA VanishHolds ==
  ASSUME TypeInv, NEW s \in Proc, HoldInv(s), OthersRest(s), NEW p \in Proc,
         Vanish(p), UNCHANGED claims \/ Unwind(p)
  PROVE  HoldInv(s)'
<1>1. /\ stage' = [stage EXCEPT ![p] = [t \in Task |-> "out"]]
      /\ got' = [got EXCEPT ![p] = [t \in Task |-> {}]]
  BY DEF Vanish
<1>2. CASE p = s
  <2>1. \A t \in Task : stage'[s][t] = "out" /\ got'[s][t] = {}
    BY <1>1, <1>2 DEF TypeInv, TypeOK
  <2>2. QED
    BY <2>1 DEF HoldInv, Executing
<1>3. CASE p # s
  <2>1. stage'[s] = stage[s] /\ got'[s] = got[s]
    BY <1>1, <1>3 DEF TypeInv, TypeOK
  <2>2. {u \in Task : Executing(p, u)} = {}
    BY <1>3 DEF OthersRest, Aside, Executing
  <2>3. claims' = claims
    <3>1. CASE UNCHANGED claims
      BY <3>1
    <3>2. CASE Unwind(p)
      <4>1. claims' = claims \ UNION {ReleasedBy(got[p][t], LaneOf[t]) : t \in {}}
        BY <2>2, <3>2 DEF Unwind
      <4>2. UNION {ReleasedBy(got[p][t], LaneOf[t]) : t \in {}} = {}
        OBVIOUS
      <4>3. QED
        BY <4>1, <4>2
    <3>3. QED
      BY <3>1, <3>2
  <2>4. QED
    BY <2>1, <2>3 DEF HoldInv, Executing
<1>4. QED
  BY <1>2, <1>3

\* What a thread of the service acquired stays claimed.
LEMMA HoldsKept ==
  ASSUME NEW s \in Proc, OneService(s)
  PROVE  Spec => []HoldInv(s)
<1> DEFINE Inv == HoldInv(s)
           Known == /\ TypeInv /\ ThreadInv /\ OthersRest(s) /\ OrphanInv(s)
                    /\ StartInv /\ ServeInv(s)
<1>1. Init => Inv
  BY DEF Init, HoldInv, Executing
<1>2. Known /\ Inv /\ [Next]_vars => Inv'
  <2> SUFFICES ASSUME Known, Inv, [Next]_vars PROVE Inv'
    OBVIOUS
  <2>1. ASSUME UNCHANGED <<stage, got>>,
               \A t \in Task : \A a \in got[s][t] : <<t, a>> \in claims =>
                 <<t, a>> \in claims'
        PROVE  Inv'
    BY <2>1 DEF HoldInv, Executing
  <2>2. CASE Operator \/ UNCHANGED vars
    <3>1. UNCHANGED work /\ UNCHANGED claims
      BY <2>2, OperatorThread DEF Operator, Submit, Resolve, Approve, Reject,
         PauseOrResume, Fetched, SaveTask, KillCommand, vars, store
    <3>2. QED
      BY <2>1, <3>1 DEF work
  <2>3. ASSUME NEW p \in Proc, Lifecycle(p) PROVE Inv'
    <3>1. CASE StartProc(p) \/ TakeLock(p)
      BY <2>1, <3>1 DEF StartProc, TakeLock, store, work
    <3>2. CASE RecoverInterrupted(p)
      <4>1. \A t \in Task : got[s][t] # {} => t \notin Interrupted(p)
        BY <3>2, RecoverySpares
      <4>2. /\ claims' = {c \in claims : c[1] \notin Interrupted(p)}
            /\ UNCHANGED <<stage, got>>
        BY <3>2 DEF RecoverInterrupted, work
      <4>3. QED
        BY <2>1, <4>1, <4>2
    <3>3. CASE Exit(p) \/ Crash(p) \/ Cancel(p)
      <4>1. Vanish(p) /\ (UNCHANGED claims \/ Unwind(p))
        BY <3>3 DEF Exit, Crash, Cancel, Unwind, store
      <4>2. QED
        BY <4>1, VanishHolds
    <3>4. QED
      BY <2>3, <3>1, <3>2, <3>3 DEF Lifecycle
  <2>4. ASSUME NEW p \in Proc, Housekeeping(p) PROVE Inv'
    <3>1. PICK E \in SUBSET Expirable, R \in SUBSET claims :
            \/ RecoverCommand(p, E, R)
            \/ \E batch \in SUBSET Task : Cycle(p, E, R, batch)
      BY <2>4 DEF Housekeeping
    <3>2. /\ claims' = claims \ R
          /\ \A c \in R : Lapsable(c)
      BY <3>1 DEF RecoverCommand, Cycle
    <3>3. \A t \in Task : \A a \in got[s][t] : <<t, a>> \in claims =>
            <<t, a>> \in claims'
      <4> SUFFICES ASSUME NEW t \in Task, NEW a \in got[s][t],
                          <<t, a>> \in claims
                   PROVE  <<t, a>> \notin R
        BY <3>2
      <4>1. ~Lapsable(<<t, a>>)
        BY DEF Lapsable, OneService
      <4>2. QED
        BY <3>2, <4>1
    <3>4. CASE RecoverCommand(p, E, R)
      BY <2>1, <3>3, <3>4 DEF RecoverCommand, work
    <3>5. ASSUME NEW batch \in SUBSET Task, Cycle(p, E, R, batch) PROVE Inv'
      <4>1. /\ stage' = [stage EXCEPT ![p] = [t \in Task |->
                           IF t \in batch THEN "batched" ELSE "out"]]
            /\ UNCHANGED got /\ Idle(p)
        BY <3>5 DEF Cycle
      <4>2. CASE p = s
        <5>1. \A t \in Task : /\ stage'[s][t] \in {"out", "batched"}
                              /\ got'[s][t] = {}
          BY <4>1, <4>2 DEF Idle, HoldInv, TypeInv, TypeOK
        <5>2. QED
          BY <5>1 DEF HoldInv, Executing
      <4>3. CASE p # s
        <5>1. stage'[s] = stage[s] /\ got'[s] = got[s]
          BY <4>1, <4>3 DEF TypeInv, TypeOK
        <5>2. QED
          BY <3>3, <5>1 DEF HoldInv, Executing
      <4>4. QED
        BY <4>2, <4>3
    <3>6. QED
      BY <3>1, <3>4, <3>5
  <2>5. ASSUME NEW p \in Proc, NEW t \in Task, Execute(p, t) PROVE Inv'
    <3>1. CASE InsertFails(p, t)
      BY <3>1, VanishHolds DEF InsertFails, Unwind
    <3>2. CASE p = s /\ ~InsertFails(p, t)
      BY <2>5, <3>2, ExecuteHolds
    <3>3. CASE p # s
      <4>1. DenyWrite(p, t)
        BY <2>5, <3>3, DeniedLeaves DEF OneService, SoleService
      <4>2. stage'[s] = stage[s] /\ got'[s] = got[s] /\ UNCHANGED claims
        BY <3>3, <4>1 DEF DenyWrite, Leave, GoTo, TypeInv, TypeOK
      <4>3. QED
        BY <4>2 DEF HoldInv, Executing
    <3>4. QED
      BY <3>1, <3>2, <3>3
  <2>6. QED
    BY <2>2, <2>3, <2>4, <2>5 DEF Next
<1>3. Spec => []OthersRest(s)
  BY OthersKept DEF OneService, SoleService
<1>4. Spec => []OrphanInv(s)
  BY OrphansKept DEF OneService, SoleService
<1>5. Spec => [](LockAge /\ StartInv)
  BY StartsKept DEF OneService, SoleService
<1>6. Spec => []ServeInv(s)
  BY ServesUnderLock DEF OneService
<1>7. QED
  BY <1>1, <1>2, <1>3, <1>4, <1>5, <1>6, TypeInit, TypeStep, ThreadsKept, PTL
     DEF Spec

\* An execution keeps the claims it acquired until it releases them itself, when
\* one service executes, start-ups are apart and no run outlasts its claims.
THEOREM ClaimsAreHeld ==
  ASSUME NEW s \in Proc, OneService(s)
  PROVE  Spec => []ExecutorHoldsClaims
<1>1. OthersRest(s) /\ HoldInv(s) => ExecutorHoldsClaims
  <2> SUFFICES ASSUME OthersRest(s), HoldInv(s), NEW p \in Proc, NEW t \in Task,
                      Executing(p, t), NEW a \in ArtifactsOf[t]
               PROVE  <<t, a>> \in claims
    BY DEF ExecutorHoldsClaims
  <2>1. p = s
    BY DEF OthersRest, Aside, Executing
  <2>2. QED
    BY <2>1 DEF HoldInv
<1>2. Spec => []OthersRest(s)
  BY OthersKept DEF OneService, SoleService
<1>3. Spec => []HoldInv(s)
  BY HoldsKept
<1>4. QED
  BY <1>1, <1>2, <1>3, PTL

\* Two executions never write the same artifact at the same time, across lanes,
\* crashes and recoveries, under the same assumptions.
THEOREM OneWriter ==
  ASSUME NEW s \in Proc, OneService(s)
  PROVE  Spec => []OneWriterPerArtifact
<1>1. OthersRest(s) /\ IndexInv /\ ExecutorHoldsClaims => OneWriterPerArtifact
  <2> SUFFICES ASSUME OthersRest(s), IndexInv, ExecutorHoldsClaims,
                      NEW p \in Proc, NEW q \in Proc,
                      NEW t \in WriteTask, NEW u \in WriteTask,
                      Executing(p, t), Executing(q, u),
                      NEW a \in ArtifactsOf[t] \cap ArtifactsOf[u]
               PROVE  p = q /\ t = u
    BY DEF OneWriterPerArtifact
  <2>1. t \in Task /\ u \in Task /\ a \in Artifact
    BY ConstantsAssumption
  <2>2. p = s /\ q = s
    BY <2>1 DEF OthersRest, Aside, Executing
  <2>3. <<t, a>> \in claims /\ <<u, a>> \in claims
    BY <2>1 DEF ExecutorHoldsClaims
  <2>4. QED
    BY <2>1, <2>2, <2>3 DEF IndexInv
<1>2. Spec => []OthersRest(s)
  BY OthersKept DEF OneService, SoleService
<1>3. Spec => []ExecutorHoldsClaims
  BY ClaimsAreHeld
<1>4. QED
  BY <1>1, <1>2, <1>3, IndexKept, PTL
\* README.md:57: recovery never touches the row of a task that is executed, when
\* one service executes tasks and start-ups are apart, whatever other commands
\* start, recover and crash meanwhile, and however long the runs take.  Every
\* recovery then sees the lock file of the service, and every row that runs is
\* owned under it.  The run with two workers refutes the claim without a service.
THEOREM RecoverySparesExecuted ==
  ASSUME NEW s \in Proc, SoleService(s)
  PROVE  Spec => RecoveryOnlyInterrupted
<1> DEFINE Inv == /\ TypeInv /\ ThreadInv /\ OthersRest(s) /\ OrphanInv(s)
                  /\ StartInv /\ ServeInv(s)
<1>1. Inv => [\A p \in Proc : RecoverInterrupted(p) =>
        \A t \in Task : (\E q \in Proc : Executing(q, t)) =>
          tasks'[t] = tasks[t]]_vars
  <2> SUFFICES ASSUME Inv, NEW p \in Proc, RecoverInterrupted(p),
                      NEW t \in Task, NEW q \in Proc, Executing(q, t)
               PROVE  tasks'[t] = tasks[t]
    OBVIOUS
  <2>1. q = s
    BY DEF OthersRest, Aside, Executing
  <2>2. phase[s] = "serving" /\ lock = TokenOf(s)
    BY <2>1 DEF Executing, Aside, ThreadInv, RestInv, ServeInv
  <2>3. seen[p] = TokenOf(s) /\ TokenOf(s) # NONE
    BY <2>2, TokenType, ConstantsAssumption
       DEF SoleService, LiveToken, TypeInv, Token, StartInv, RecoverInterrupted
  <2>4. tasks[t].status = "running" => tasks[t].owner = TokenOf(s)
    BY <2>2 DEF OrphanInv
  <2>5. t \notin Interrupted(p)
    BY <2>3, <2>4 DEF Interrupted
  <2>6. QED
    BY <2>5 DEF RecoverInterrupted
<1>2. Spec => [](OthersRest(s) /\ OrphanInv(s) /\ StartInv /\ ServeInv(s))
  <2>1. Spec => []OthersRest(s)
    BY OthersKept DEF SoleService
  <2>2. Spec => []OrphanInv(s)
    BY OrphansKept DEF SoleService
  <2>3. Spec => [](LockAge /\ StartInv)
    BY StartsKept DEF SoleService
  <2>4. Spec => []ServeInv(s)
    BY ServesUnderLock
  <2>5. QED
    BY <2>1, <2>2, <2>3, <2>4, PTL
<1>3. Spec => []TypeInv
  BY TypeInit, TypeStep, PTL DEF Spec
<1>4. QED
  BY <1>1, <1>2, <1>3, ThreadsKept, PTL DEF RecoveryOnlyInterrupted

=============================================================================
