----------------------------- MODULE TaskControl -----------------------------
(***************************************************************************)
(* The task life cycle of the orchestrator: the `tasks`, `approvals` and   *)
(* `artifact_claims` tables of the control store, the processes that open  *)
(* it (the service, one-shot `process` workers, other commands), and the   *)
(* execution of a task by Coordinator.process / _execute_task.             *)
(*                                                                         *)
(* Atomicity.  Every store statement is one commit, so what two processes  *)
(* do interleaves statement by statement; inside one process the asyncio   *)
(* loop switches only at an await.  A stage of an execution below is       *)
(* therefore a commit, and the stages in Sync hold the loop of their       *)
(* process: no other thread of that process moves meanwhile.               *)
(*                                                                         *)
(* A process works on the TaskEnvelope object it listed at the start of    *)
(* its cycle and saves that object whole: `held` is the object, and every  *)
(* save overwrites the row with it, whatever happened to the row since.    *)
(***************************************************************************)
EXTENDS Naturals, FiniteSets

CONSTANTS
  Task,          \* tasks that may be submitted (one per idempotency key)
  Artifact,      \* artifact paths
  LaneOf,        \* [Task -> lane key]
  ArtifactsOf,   \* [Task -> SUBSET Artifact]: TaskEnvelope.artifacts
  WriteTask,     \* tasks with permissions.write_files
  StaleSource,   \* tasks with the metadata flag stale_source
  Expirable,     \* tasks with a ttl
  Pausable,      \* tasks that operators pause and resume
  ApprovalId,    \* approval ids; bounds how often an approval is requested
  Clerk,         \* operator commands that may be under way at the same time
  Proc,          \* operating system processes that open the control store
  Service,       \* those that run `serve`: they take the workspace lock
  Worker,        \* those that run one `process` cycle, without that lock
  ReadOnly,      \* those started with --mode read-only
  MaxTasks,      \* process(max_tasks=...)
  MaxStarts,     \* bound: how often each process is started
  MaxCommands,   \* bound: how many commands about a task are given
  StartsApart,   \* assumption: no two start-ups overlap
  LongRuns,      \* whether a run may outlast the ttl of its claims
  NONE

ASSUME ConstantsAssumption ==
  /\ ArtifactsOf \in [Task -> SUBSET Artifact]
  /\ WriteTask \subseteq Task
  /\ StaleSource \subseteq Task
  /\ Expirable \subseteq Task
  /\ Pausable \subseteq Task
  /\ Service \subseteq Proc
  /\ Worker \subseteq Proc \ Service
  /\ ReadOnly \subseteq Proc
  /\ MaxTasks \in Nat \ {0}
  /\ MaxStarts \in Nat
  /\ MaxCommands \in Nat
  /\ StartsApart \in BOOLEAN
  /\ LongRuns \in BOOLEAN
  /\ NONE \notin Task
  /\ NONE \notin Artifact
  /\ NONE \notin ApprovalId
  /\ NONE \notin Proc \X Nat

Action == {"execute", "write_files"}

Status == {"absent", "queued", "running", "awaiting_approval", "paused",
           "completed", "failed", "expired"}

Token == Proc \X Nat     \* the execution owner of one incarnation of a process

Row == [status : Status, owner : Token \cup {NONE}, approved : SUBSET Action,
        pending : ApprovalId \cup {NONE}]      \* metadata.pending_approval_id

AbsentRow ==
  [status |-> "absent", owner |-> NONE, approved |-> {}, pending |-> NONE]

Approval == [task : Task, action : Action,
             status : {"pending", "approved", "rejected"}]

NoApproval == [task |-> NONE, action |-> NONE, status |-> NONE]

Stage == {"out", "batched", "asking", "claiming", "checked", "starting",
          "ready", "waiting", "releasing"}

Sync == {"asking", "claiming", "checked", "releasing"}

\* A command between its commits: the verdict it saved on an approval, then the
\* task row it read and changed and is about to save.
NoErrand ==
  [step |-> "idle", approval |-> NONE, task |-> NONE, row |-> AbsentRow]

Verdict == {"approved", "rejected"}

Errand ==
  {NoErrand}
  \cup [step : Verdict, approval : ApprovalId, task : Task, row : {AbsentRow}]
  \cup [step : {"read"}, approval : ApprovalId \cup {NONE}, task : Task,
        row : Row]

VARIABLES
  tasks,       \* the tasks table: [Task -> Row]
  approvals,   \* the approvals table
  claims,      \* the unreleased rows of artifact_claims: <<task, artifact>>
  lock,        \* the token in the workspace lock file, or NONE
  phase,       \* where each process is in its life
  starts,      \* how often each process was started: its incarnation
  seen,        \* the live service token a process read while starting
  held,        \* the TaskEnvelope a process holds for a task of its batch
  stage,       \* how far each process is with each task of its batch
  got,         \* acquired_artifacts of an execution
  target,      \* the artifact whose write claim was just checked
  errand,      \* what each command in progress holds
  commands,    \* how many commands were given
  granted,     \* history: tasks some approval of which was ever granted
  stranded     \* history: approvals whose verdict may never reach their task

store  == <<tasks, approvals, claims>>
life   == <<lock, phase, starts, seen>>
work   == <<held, stage, got, target>>
people == <<errand, commands, granted, stranded>>
vars   == <<store, life, work, people>>

Init ==
  /\ tasks = [t \in Task |-> AbsentRow]
  /\ approvals = [a \in ApprovalId |-> NoApproval]
  /\ claims = {}
  /\ lock = NONE
  /\ phase = [p \in Proc |-> "down"]
  /\ starts = [p \in Proc |-> 0]
  /\ seen = [p \in Proc |-> NONE]
  /\ held = [p \in Proc |-> [t \in Task |-> AbsentRow]]
  /\ stage = [p \in Proc |-> [t \in Task |-> "out"]]
  /\ got = [p \in Proc |-> [t \in Task |-> {}]]
  /\ target = [p \in Proc |-> [t \in Task |-> NONE]]
  /\ errand = [k \in Clerk |-> NoErrand]
  /\ commands = 0
  /\ granted = {}
  /\ stranded = {}

-----------------------------------------------------------------------------
(* Helpers *)

\* A process keeps its token from its start to its end; a lock file whose
\* process died names nobody.
TokenOf(p) == <<p, starts[p]>>

LiveToken ==
  IF \E p \in Service : phase[p] # "down" /\ lock = TokenOf(p)
  THEN lock ELSE NONE

\* Mutation: write authorization forgotten, only stale sources stop.
NeedsApprovalStaleOnly(t) ==
  {act \in Action : t \in StaleSource /\ act = "execute"}

\* PolicyRegistry.evaluate_action over the shipped registry: the actions of
\* a task that stop for a person.
NeedsApproval(t) ==
  {act \in Action : \/ t \in WriteTask
                    \/ t \in StaleSource /\ act = "execute"}

\* ArtifactLockManager.release(artifact, lane): every active claim of the lane
\* on the artifact, whichever task took it.
ReleasedBy(as, lane) ==
  {c \in claims : c[2] \in as /\ LaneOf[c[1]] = lane}

WriteClaimed(a) == {c \in claims : c[2] = a /\ c[1] \in WriteTask}

Executing(p, t) == stage[p][t] \in {"starting", "ready", "waiting"}

Idle(p) == \A t \in Task : stage[p][t] = "out"

\* The thread of t may move: no other thread of p holds the event loop.
LoopFree(p, t) == \A u \in Task \ {t} : stage[p][u] \notin Sync

Save(t, row) == tasks' = [tasks EXCEPT ![t] = row]

WithStatus(row, s) ==
  [status |-> s, owner |-> row.owner, approved |-> row.approved,
   pending |-> row.pending]

Running(row, owner) ==
  [status |-> "running", owner |-> owner, approved |-> row.approved,
   pending |-> row.pending]

Waiting(row, a) ==
  [status |-> "awaiting_approval", owner |-> row.owner,
   approved |-> row.approved, pending |-> a]

GoTo(p, t, s) == stage' = [stage EXCEPT ![p][t] = s]

\* The thread of t is over and drops what it holds.
Leave(p, t) ==
  /\ GoTo(p, t, "out")
  /\ held' = [held EXCEPT ![p][t] = AbsentRow]
  /\ got' = [got EXCEPT ![p][t] = {}]
  /\ target' = [target EXCEPT ![p][t] = NONE]

\* The process is over: everything in memory goes.
Vanish(p) ==
  /\ phase' = [phase EXCEPT ![p] = "down"]
  /\ seen' = [seen EXCEPT ![p] = NONE]
  /\ held' = [held EXCEPT ![p] = [t \in Task |-> AbsentRow]]
  /\ stage' = [stage EXCEPT ![p] = [t \in Task |-> "out"]]
  /\ got' = [got EXCEPT ![p] = [t \in Task |-> {}]]
  /\ target' = [target EXCEPT ![p] = [t \in Task |-> NONE]]
  /\ UNCHANGED starts

\* WorkspaceServiceLock.release: only a lock file that still holds our token.
DropLock(p) == lock' = IF lock = TokenOf(p) THEN NONE ELSE lock

-----------------------------------------------------------------------------
(* Operators: `submit`, `approve`, `reject`, `pause`, `resume`, from a      *)
(* command or from the console.  None of them looks at the status it        *)
(* overwrites, and all but submit read the task in one statement and save   *)
(* it in another.                                                           *)

\* submit_task; a second submission under the same key returns the first row,
\* or fails on the unique key.
Submit(t) ==
  /\ tasks[t].status = "absent"
  /\ Save(t, WithStatus(AbsentRow, "queued"))
  /\ UNCHANGED <<approvals, claims, life, work, people>>

\* A thread saved this approval and has not saved its task yet.
BeingAsked(a) ==
  \E p \in Proc, t \in Task : stage[p][t] = "asking" /\ held[p][t].pending = a

Begin(k) ==
  /\ errand[k].step = "idle"
  /\ commands < MaxCommands
  /\ commands' = commands + 1

\* approve and reject, first commit: the approval, whatever its status.
Resolve(k, a, verdict) ==
  /\ Begin(k)
  /\ approvals[a] # NoApproval
  /\ approvals' = [approvals EXCEPT ![a] =
       [task |-> approvals[a].task, action |-> approvals[a].action,
        status |-> verdict]]
  /\ errand' = [errand EXCEPT ![k] =
       [step |-> verdict, approval |-> a, task |-> approvals[a].task,
        row |-> AbsentRow]]
  /\ granted' = IF verdict = "approved" THEN granted \cup {approvals[a].task}
                ELSE granted
  /\ stranded' = IF BeingAsked(a) THEN stranded \cup {a} ELSE stranded
  /\ UNCHANGED <<tasks, claims, life, work>>

\* What a granted action adds to the approved actions of its task.
Grants(t, act) ==
  {act} \cup {also \in {"write_files"} : act = "execute" /\ t \in WriteTask}

Approved(a) ==
  LET t == approvals[a].task
  IN [status |-> "queued", owner |-> tasks[t].owner, pending |-> NONE,
      approved |-> tasks[t].approved \cup Grants(t, approvals[a].action)]

Fetched(k, a, t, row) ==
  /\ errand' = [errand EXCEPT ![k] =
       [step |-> "read", approval |-> a, task |-> t, row |-> row]]
  /\ UNCHANGED <<store, life, work, granted, stranded>>

Approve(k) ==
  /\ errand[k].step = "approved"
  /\ UNCHANGED commands
  /\ Fetched(k, errand[k].approval, errand[k].task,
             Approved(errand[k].approval))

\* Mutation: the task is left as it is.
RejectApprovalOnly(k) ==
  /\ errand[k].step = "rejected"
  /\ UNCHANGED commands
  /\ Fetched(k, errand[k].approval, errand[k].task, tasks[errand[k].task])

Reject(k) ==
  /\ errand[k].step = "rejected"
  /\ UNCHANGED commands
  /\ Fetched(k, errand[k].approval, errand[k].task,
             WithStatus(tasks[errand[k].task], "failed"))

\* pause_task and resume_task.
PauseOrResume(k, t, s) ==
  /\ Begin(k)
  /\ tasks[t].status # "absent"
  /\ Fetched(k, NONE, t, WithStatus(tasks[t], s))

\* The save that ends approve, reject, pause and resume.
SaveTask(k) ==
  /\ errand[k].step = "read"
  /\ Save(errand[k].task, errand[k].row)
  /\ errand' = [errand EXCEPT ![k] = NoErrand]
  /\ UNCHANGED <<approvals, claims, life, work, commands, granted, stranded>>

\* The command is killed between its commits.
KillCommand(k) ==
  /\ errand[k].step # "idle"
  /\ errand' = [errand EXCEPT ![k] = NoErrand]
  /\ stranded' = stranded \cup ({errand[k].approval} \ {NONE})
  /\ UNCHANGED <<store, life, work, commands, granted>>

-----------------------------------------------------------------------------
(* The life of a process.  Constructing a Coordinator reads the live         *)
(* service token and then, in one transaction, requeues every running task   *)
(* of another owner; every command does it, `status` included.               *)

StartProc(p) ==
  /\ phase[p] = "down"
  /\ starts[p] < MaxStarts
  /\ StartsApart => \A q \in Proc : phase[q] \in {"down", "serving"}
  /\ phase' = [phase EXCEPT ![p] = "starting"]
  /\ starts' = [starts EXCEPT ![p] = @ + 1]
  /\ seen' = [seen EXCEPT ![p] = LiveToken]
  /\ UNCHANGED <<store, lock, work, people>>

\* Mutation: the owner is not compared with the live service.
InterruptedAnyOwner(p) == {t \in Task : tasks[t].status = "running"}

\* Mutation: without a live service nothing is taken for interrupted.
InterruptedUnderService(p) ==
  {t \in Task : /\ tasks[t].status = "running"
                /\ seen[p] # NONE /\ tasks[t].owner # seen[p]}

\* A running task whose owner is not the service seen at start-up.
Interrupted(p) ==
  {t \in Task : /\ tasks[t].status = "running"
                /\ seen[p] = NONE \/ tasks[t].owner # seen[p]}

RecoverInterrupted(p) ==
  /\ phase[p] = "starting"
  /\ phase' = [phase EXCEPT ![p] = "ready"]
  /\ tasks' = [t \in Task |->
                 IF t \in Interrupted(p)
                 THEN [status |-> "queued", owner |-> NONE,
                       approved |-> tasks[t].approved,
                       pending |-> tasks[t].pending]
                 ELSE tasks[t]]
  /\ claims' = {c \in claims : c[1] \notin Interrupted(p)}
  /\ UNCHANGED <<approvals, lock, starts, seen, work, people>>

\* WorkspaceServiceLock.acquire: a lock file of a dead process is replaced.
TakeLock(p) ==
  /\ p \in Service
  /\ phase[p] = "ready"
  /\ LiveToken = NONE
  /\ lock' = TokenOf(p)
  /\ phase' = [phase EXCEPT ![p] = "serving"]
  /\ UNCHANGED <<store, starts, seen, work, people>>

\* The end of a command, of a worker's cycle, of a service that was asked to
\* stop, or of one that finds the workspace served (ServiceAlreadyRunning).
Exit(p) ==
  /\ \/ p \in Service /\ phase[p] = "ready" /\ LiveToken # NONE
     \/ p \notin Service /\ phase[p] = "ready"
     \/ phase[p] \in {"serving", "cycled"}
  /\ Idle(p)
  /\ DropLock(p)
  /\ Vanish(p)
  /\ UNCHANGED <<store, people>>

\* The process is killed: rows, claims and the lock file stay as they are.
Crash(p) ==
  /\ phase[p] # "down"
  /\ Vanish(p)
  /\ UNCHANGED <<store, lock, people>>

\* An exception or a cancellation leaves process(): every execution of the
\* process runs its `finally`, which releases its claims, and the task stays
\* `running`; `serve` releases the lock.
Unwind(p) ==
  /\ claims' = claims \ UNION {ReleasedBy(got[p][t], LaneOf[t]) :
                               t \in {u \in Task : Executing(p, u)}}
  /\ DropLock(p)
  /\ Vanish(p)
  /\ UNCHANGED <<tasks, approvals, people>>

Cancel(p) ==
  /\ phase[p] \in {"serving", "cycled"}
  /\ \A t \in Task : stage[p][t] \notin Sync
  /\ Unwind(p)

-----------------------------------------------------------------------------
(* Housekeeping and the cycle *)

\* Mutation: a claim lapses whatever its task does.
LapsableAlways(c) == c \in claims

\* expire_orphans and recover_stale: some ttls have passed.
Lapsable(c) == LongRuns \/ \A p \in Proc : c[2] \notin got[p][c[1]]

Expired(E) ==
  [t \in Task |-> IF t \in E THEN WithStatus(tasks[t], "expired")
                  ELSE tasks[t]]

Overdue(E) ==
  E \subseteq {t \in Expirable : tasks[t].status \in {"queued", "paused"}}

\* Coordinator.recover from a command or the console.
RecoverCommand(p, E, R) ==
  /\ phase[p] \in {"ready", "serving"}
  /\ \A t \in Task : stage[p][t] \notin Sync
  /\ Overdue(E)
  /\ R \subseteq {c \in claims : Lapsable(c)}
  /\ tasks' = Expired(E)
  /\ claims' = claims \ R
  /\ UNCHANGED <<approvals, life, work, people>>

\* Coordinator.process: recover(), then list the queued tasks; a task of a
\* lane found paused drops out of the batch.
Cycle(p, E, R, batch) ==
  /\ \/ phase[p] = "serving" /\ UNCHANGED phase
     \/ p \in Worker /\ phase[p] = "ready" /\ phase' = [phase EXCEPT ![p] = "cycled"]
  /\ Idle(p)
  /\ Overdue(E)
  /\ R \subseteq {c \in claims : Lapsable(c)}
  /\ tasks' = Expired(E)
  /\ claims' = claims \ R
  /\ batch \subseteq {t \in Task : Expired(E)[t].status = "queued"}
  /\ Cardinality(batch) <= MaxTasks
  /\ held' = [held EXCEPT ![p] = [t \in Task |-> IF t \in batch THEN Expired(E)[t]
                                                  ELSE AbsentRow]]
  /\ stage' = [stage EXCEPT ![p] = [t \in Task |-> IF t \in batch THEN "batched"
                                                    ELSE "out"]]
  /\ UNCHANGED <<approvals, lock, starts, seen, got, target, people>>

-----------------------------------------------------------------------------
(* run_lane and _execute_task: process p works on task t of its batch.      *)

\* The lane lock is per process and held for the whole of one execution.
LaneFree(p, t) ==
  \A u \in Task \ {t} :
    LaneOf[u] = LaneOf[t] => stage[p][u] \in {"out", "batched"}

Admissible(p, t) == stage[p][t] = "batched" /\ LaneFree(p, t) /\ LoopFree(p, t)

Denied(p, t) == p \in ReadOnly /\ t \in WriteTask

Missing(p, t) == NeedsApproval(t) \ held[p][t].approved

\* A read-only process fails a write-capable task.
DenyWrite(p, t) ==
  /\ Admissible(p, t)
  /\ Denied(p, t)
  /\ Save(t, WithStatus(held[p][t], "failed"))
  /\ Leave(p, t)
  /\ UNCHANGED <<approvals, claims, life, people>>

\* request_approval, first commit: the approval, for "execute", or for
\* "write_files" when only that is missing.
RequestApproval(p, t) ==
  /\ Admissible(p, t)
  /\ ~Denied(p, t)
  /\ Missing(p, t) # {}
  /\ \E a \in ApprovalId :
       /\ approvals[a] = NoApproval
       /\ approvals' = [approvals EXCEPT ![a] =
            [task |-> t, status |-> "pending",
             action |-> IF "execute" \in Missing(p, t) THEN "execute"
                        ELSE "write_files"]]
       /\ held' = [held EXCEPT ![p][t] = Waiting(@, a)]
  /\ GoTo(p, t, "asking")
  /\ UNCHANGED <<tasks, claims, life, got, target, people>>

\* Second commit: the task, which now waits.
AwaitApproval(p, t) ==
  /\ stage[p][t] = "asking"
  /\ Save(t, held[p][t])
  /\ Leave(p, t)
  /\ UNCHANGED <<approvals, claims, life, people>>

Admit(p, t) ==
  /\ Admissible(p, t)
  /\ ~Denied(p, t)
  /\ Missing(p, t) = {}
  /\ GoTo(p, t, "claiming")
  /\ UNCHANGED <<store, life, held, got, target, people>>

\* ArtifactLockManager.acquire, first half: a writer looks for a write claim
\* of another lane; a reader looks at nothing.
OtherLaneWrites(t, a) ==
  \E c \in WriteClaimed(a) : LaneOf[c[1]] # LaneOf[t]

CheckClaim(p, t, a) ==
  /\ stage[p][t] = "claiming"
  /\ a \in ArtifactsOf[t] \ got[p][t]
  /\ ~(t \in WriteTask /\ OtherLaneWrites(t, a))
  /\ GoTo(p, t, "checked")
  /\ target' = [target EXCEPT ![p][t] = a]
  /\ UNCHANGED <<store, life, held, got, people>>

\* PermissionError: what was acquired is released and the task fails.
RefuseClaim(p, t, a) ==
  /\ stage[p][t] = "claiming"
  /\ a \in ArtifactsOf[t] \ got[p][t]
  /\ t \in WriteTask /\ OtherLaneWrites(t, a)
  /\ claims' = claims \ ReleasedBy(got[p][t], LaneOf[t])
  /\ Save(t, WithStatus(held[p][t], "failed"))
  /\ Leave(p, t)
  /\ UNCHANGED <<approvals, life, people>>

\* Second half: the insert, which the partial unique index guards.
IndexClash(t, a) == t \in WriteTask /\ WriteClaimed(a) # {}

InsertClaim(p, t) ==
  /\ stage[p][t] = "checked"
  /\ ~IndexClash(t, target[p][t])
  /\ claims' = claims \cup {<<t, target[p][t]>>}
  /\ got' = [got EXCEPT ![p][t] = @ \cup {target[p][t]}]
  /\ target' = [target EXCEPT ![p][t] = NONE]
  /\ GoTo(p, t, "claiming")
  /\ UNCHANGED <<tasks, approvals, life, held, people>>

\* sqlite3.IntegrityError is no PermissionError: it leaves process(), the
\* claims taken so far stay, and the process ends.
InsertFails(p, t) ==
  /\ stage[p][t] = "checked"
  /\ IndexClash(t, target[p][t])
  /\ Unwind(p)

\* Mutation: the owner saved is the process and not its incarnation.
MarkRunningBareOwner(p, t) ==
  /\ stage[p][t] = "claiming"
  /\ got[p][t] = ArtifactsOf[t]
  /\ LET row == Running(held[p][t], p)
     IN held' = [held EXCEPT ![p][t] = row] /\ Save(t, row)
  /\ GoTo(p, t, "starting")
  /\ UNCHANGED <<approvals, claims, life, got, target, people>>

\* The envelope is running under this owner; it is saved here, when the agent
\* is up, and when the run has its id.
MarkRunning(p, t) ==
  /\ stage[p][t] = "claiming"
  /\ got[p][t] = ArtifactsOf[t]
  /\ LET row == Running(held[p][t], TokenOf(p))
     IN held' = [held EXCEPT ![p][t] = row] /\ Save(t, row)
  /\ GoTo(p, t, "starting")
  /\ UNCHANGED <<approvals, claims, life, got, target, people>>

AgentReady(p, t) ==
  /\ stage[p][t] = "starting" /\ LoopFree(p, t)
  /\ Save(t, held[p][t])
  /\ GoTo(p, t, "ready")
  /\ UNCHANGED <<approvals, claims, life, held, got, target, people>>

RunStarted(p, t) ==
  /\ stage[p][t] = "ready" /\ LoopFree(p, t)
  /\ Save(t, held[p][t])
  /\ GoTo(p, t, "waiting")
  /\ UNCHANGED <<approvals, claims, life, held, got, target, people>>

\* The run ends, in success or in error; a start-up failure ends it sooner.
Finish(p, t, outcome) ==
  /\ Executing(p, t) /\ LoopFree(p, t)
  /\ outcome = "completed" => stage[p][t] = "waiting"
  /\ LET row == WithStatus(held[p][t], outcome)
     IN held' = [held EXCEPT ![p][t] = row] /\ Save(t, row)
  /\ GoTo(p, t, "releasing")
  /\ UNCHANGED <<approvals, claims, life, got, target, people>>

ReleaseClaims(p, t) ==
  /\ stage[p][t] = "releasing"
  /\ claims' = claims \ ReleasedBy(got[p][t], LaneOf[t])
  /\ Leave(p, t)
  /\ UNCHANGED <<tasks, approvals, life, people>>

-----------------------------------------------------------------------------

Operator ==
  \/ \E t \in Task : Submit(t)
  \/ \E k \in Clerk :
       \/ \E a \in ApprovalId, verdict \in Verdict : Resolve(k, a, verdict)
       \/ \E t \in Pausable, s \in {"paused", "queued"} :
            PauseOrResume(k, t, s)
       \/ Approve(k) \/ Reject(k) \/ SaveTask(k) \/ KillCommand(k)

Lifecycle(p) ==
  \/ StartProc(p) \/ RecoverInterrupted(p) \/ TakeLock(p)
  \/ Exit(p) \/ Crash(p) \/ Cancel(p)

Housekeeping(p) ==
  \E E \in SUBSET Expirable, R \in SUBSET claims :
    \/ RecoverCommand(p, E, R)
    \/ \E batch \in SUBSET Task : Cycle(p, E, R, batch)

Execute(p, t) ==
  \/ DenyWrite(p, t) \/ RequestApproval(p, t) \/ AwaitApproval(p, t)
  \/ Admit(p, t)
  \/ \E a \in ArtifactsOf[t] : CheckClaim(p, t, a) \/ RefuseClaim(p, t, a)
  \/ InsertClaim(p, t) \/ InsertFails(p, t) \/ MarkRunning(p, t)
  \/ AgentReady(p, t) \/ RunStarted(p, t)
  \/ \E outcome \in {"completed", "failed"} : Finish(p, t, outcome)
  \/ ReleaseClaims(p, t)

Next ==
  \/ Operator
  \/ \E p \in Proc : Lifecycle(p) \/ Housekeeping(p)
  \/ \E p \in Proc, t \in Task : Execute(p, t)

Spec == Init /\ [][Next]_vars

-----------------------------------------------------------------------------
(* Properties *)

\* Type correctness of the tables and of what the processes hold.
TypeOK ==
  /\ tasks \in [Task -> Row]
  /\ approvals \in [ApprovalId -> Approval \cup {NoApproval}]
  /\ claims \subseteq Task \X Artifact
  /\ lock \in Token \cup {NONE}
  /\ phase \in [Proc -> {"down", "starting", "ready", "serving", "cycled"}]
  /\ starts \in [Proc -> Nat]
  /\ seen \in [Proc -> Token \cup {NONE}]
  /\ held \in [Proc -> [Task -> Row]]
  /\ stage \in [Proc -> [Task -> Stage]]
  /\ got \in [Proc -> [Task -> SUBSET Artifact]]
  /\ target \in [Proc -> [Task -> Artifact \cup {NONE}]]
  /\ errand \in [Clerk -> Errand]
  /\ commands \in Nat
  /\ granted \subseteq Task
  /\ stranded \subseteq ApprovalId

\* README.md:52, "Shared writes require approval before an artifact lock is
\* acquired": a task that stops for a person holds no claim, is not running and
\* is not executed by any process, stale envelopes and restarts included,
\* unless somebody once granted it.
ApprovedBeforeClaim ==
  \A t \in WriteTask \cup StaleSource :
    (\/ \E c \in claims : c[1] = t
     \/ tasks[t].status = "running"
     \/ \E p \in Proc : Executing(p, t)) => t \in granted

\* A task that waits for a person names an approval of its own that is still to
\* be answered or whose answer is on its way, whatever was approved, rejected
\* or saved blindly meanwhile.  Two things alone lose an answer: a kill between
\* the two commits of the command, and a verdict that arrives between the two
\* commits of request_approval.
AwaitingNamesItsApproval ==
  \A t \in Task : tasks[t].status = "awaiting_approval" =>
    \E a \in ApprovalId :
      /\ tasks[t].pending = a
      /\ approvals[a].task = t
      /\ \/ approvals[a].status = "pending"
         \/ \E k \in Clerk : errand[k].approval = a
         \/ a \in stranded

\* Two executions never write the same artifact at the same time, across
\* lanes, processes, crashes and recoveries.
OneWriterPerArtifact ==
  \A p, q \in Proc, t, u \in WriteTask :
    /\ Executing(p, t) /\ Executing(q, u)
    /\ ArtifactsOf[t] \cap ArtifactsOf[u] # {}
    => p = q /\ t = u

\* An execution keeps the claims it acquired until it releases them itself.
ExecutorHoldsClaims ==
  \A p \in Proc, t \in Task : Executing(p, t) =>
    \A a \in ArtifactsOf[t] : <<t, a>> \in claims

\* README.md:48, "Runs serialize within a lane": whichever processes execute
\* them.  The lane lock is an object of one process, so it does not hold of the
\* code (TaskControl_lane_workers).
LaneSerial ==
  \A p, q \in Proc, t, u \in Task :
    /\ Executing(p, t) /\ Executing(q, u)
    /\ LaneOf[t] = LaneOf[u]
    => p = q /\ t = u

\* README.md:57, "only tasks actually left `running` by an interrupted owner
\* are atomically returned to `queued`": recovery leaves a task alone while a
\* live process executes it, a one-shot worker (TaskControl_two_workers) as well as
\* a service that was not there yet when the live token was read.
RecoveryOnlyInterrupted ==
  [][\A p \in Proc : RecoverInterrupted(p) =>
       \A t \in Task : (\E q \in Proc : Executing(q, t)) =>
         tasks'[t] = tasks[t]]_vars

\* README.md:57-58: once a service serves, no running task is left over from an
\* owner that is gone.
NoOrphanWhileServing ==
  \A p \in Service : phase[p] = "serving" =>
    \A t \in Task : tasks[t].status = "running" =>
      \E q \in Proc : phase[q] # "down" /\ tasks[t].owner = TokenOf(q)

-----------------------------------------------------------------------------
(* Liveness.  A process that runs keeps running: the event loop gets to every *)
(* thread, and an agent that was sent a prompt answers or fails (the runtime's *)
(* side; run_task itself sets no deadline).  Nothing makes anybody start a     *)
(* process, and nothing prevents a crash.                                      *)

Fairness ==
  \A p \in Proc :
    /\ WF_vars(RecoverInterrupted(p)) /\ WF_vars(TakeLock(p))
    /\ \A t \in Task : WF_vars(Execute(p, t))

FairSpec == Spec /\ Fairness

\* If a service stays up in the end, no task stays `running` for good: an
\* interrupted run is requeued and a live one is brought to its end.
RunsEnd ==
  <>[](\E p \in Service : phase[p] = "serving") =>
    \A t \in Task : tasks[t].status = "running" ~> tasks[t].status # "running"

=============================================================================
