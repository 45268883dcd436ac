----------------------------- MODULE LaneAgents -----------------------------
(***************************************************************************)
(* One lane: its row in the store, the agents it runs its tasks with, and   *)
(* the pause an operator puts on it.                                       *)
(*                                                                         *)
(* A step is what a coroutine does between two awaits, or one half of an    *)
(* operator's edit: the row is read in one step and saved whole in another, *)
(* so whatever was saved in between is overwritten.  Lanes share nothing    *)
(* here, so there is one.  An agent is the number of its creation.          *)
(***************************************************************************)
EXTENDS Naturals, Sequences, FiniteSetsExt

CONSTANTS
  Run,        \* coroutines that process a batch of the lane's tasks
  Hand,       \* coroutines that rotate the lane because an operator asks
  Service,    \* processes with an event loop
  Command,    \* processes that run one command of the command line
  ProcOf,     \* the process of each coroutine
  RunLimit,   \* runs after which an agent is replaced
  FailLimit,  \* failed starts in a row after which an agent is replaced
  MaxBatch,   \* bound: tasks of the lane in one batch
  MaxTasks,   \* bound: executions
  MaxUpsets,  \* bound: rotations by hand, edits, crashes, failed closes and
              \* rotations for another reason than runs
  NONE

Coroutine == Run \cup Hand
Proc == Service \cup Command

Agent == Nat \ {0}

Status == {"idle", "active", "rotating", "paused"}

\* `runs` stands for run_count and task_boundary_count, which move together.
Row == [status : Status, current : Agent \cup {NONE}, prior : Seq(Agent),
        runs : Nat, fails : Nat]

ASSUME LaneAgentsAssumption ==
  /\ Run \cap Hand = {} /\ Service \cap Command = {}
  /\ ProcOf \in [Coroutine -> Service]
  /\ \A r, s \in Run : ProcOf[r] = ProcOf[s] => r = s
  /\ RunLimit \in Nat \ {0} /\ FailLimit \in Nat \ {0} /\ MaxBatch \in Nat \ {0}
  /\ MaxTasks \in Nat /\ MaxUpsets \in Nat
  /\ NONE \notin Nat /\ NONE \notin Row

Edit == {"pause", "resume", "model"}

Await == {"disposing", "creating", "resuming", "sending", "running", "closing"}
Cause == {"none", "limit", "startup", "busy", "hand"}

VARIABLES
  row,       \* the lane's row in the store, or NONE
  live,      \* of each process: the agents it has a handle of
  paused,    \* of each process: is the lane in its _paused_lanes
  op,        \* of each coroutine: where it is and the row it holds
  edit,      \* of each process: the operator's edit it is in, or NONE
  sends,     \* of each agent created so far: the runs it was given (history)
  known,     \* agents that were the lane's current one (history)
  failed,    \* since the lane last had an agent that started: the starts that
             \* failed and the successors that were tried (history)
  crossed,   \* did two operations on the lane overlap (history)
  standing,  \* was a pause saved while the lane was at rest (history)
  spent      \* how often each bounded thing has happened

vars == <<row, live, paused, op, edit, sends, known, failed, crossed, standing, spent>>

NoFailures == [starts |-> 0, tries |-> 0]

history == <<sends, known, failed, crossed, standing>>

NewLane == [status |-> "idle", current |-> NONE, prior |-> <<>>, runs |-> 0, fails |-> 0]

Resting == [at |-> "idle", left |-> 0, lane |-> NONE, agent |-> NONE, why |-> "none"]

Init ==
  /\ row = NONE
  /\ live = [p \in Proc |-> {}]
  /\ paused = [p \in Proc |-> FALSE]
  /\ op = [c \in Coroutine |-> Resting]
  /\ edit = [p \in Proc |-> NONE]
  /\ sends = <<>> /\ known = {} /\ failed = NoFailures /\ crossed = FALSE /\ standing = FALSE
  /\ spent = [tasks |-> 0, hands |-> 0, edits |-> 0, crashes |-> 0, closes |-> 0, others |-> 0]

-----------------------------------------------------------------------------
(* helpers *)

EnsureLane(r) == IF r = NONE THEN NewLane ELSE r

IsPaused(p) == paused[p] \/ (row # NONE /\ row.status = "paused")

InOperation(c) == op[c].at \in Await

\* No await lies between a batch's start, or the end of a task, and the next
\* task: meanwhile nothing else happens in that process, as within an edit.
InBatch(p, c) == \E d \in Coroutine \ {c} : ProcOf[d] = p /\ op[d].at = "batch"

Free(c) == edit[ProcOf[c]] = NONE /\ ~InBatch(ProcOf[c], c)

Overlaps(c) == \E d \in Coroutine \ {c} : InOperation(d)

Upsets == spent.hands + spent.edits + spent.crashes + spent.closes + spent.others

Upset(kind) ==
  /\ Upsets < MaxUpsets
  /\ spent' = [spent EXCEPT ![kind] = @ + 1]

AtRest == \A c \in Coroutine : op[c].at = "idle"

\* The counters of RotationPolicy.
MustRotate(lane, other) == lane.runs >= RunLimit \/ other

FailedOnce(lane) == [lane EXCEPT !.fails = @ + 1]

Started(lane, a) == [lane EXCEPT !.status = "active", !.current = a, !.fails = 0]

\* Mutation: the run is not counted.
EndedUncounted(lane) == [lane EXCEPT !.status = "idle"]

\* Mutation: the agent is forgotten with its handle.
EndedForgetting(lane) == [lane EXCEPT !.status = "idle", !.runs = @ + 1, !.current = NONE]

Ended(lane) == [lane EXCEPT !.status = "idle", !.runs = @ + 1]

\* The start of a rotation: the handle of the agent, if any, is given up.
BeginRotation(c, lane, why, left) ==
  /\ op' = [op EXCEPT ![c] = [at |-> "disposing", left |-> left, lane |-> lane,
                              agent |-> NONE, why |-> why]]
  /\ live' = [live EXCEPT ![ProcOf[c]] = @ \ {lane.current}]

NextTask(left) == [Resting EXCEPT !.at = IF left > 0 THEN "batch" ELSE "idle", !.left = left]

\* The end of an execution, as far as its first await: the row is read again
\* and the handle of its agent given up; a lane without agent is left alone.
FinishTask(c, lane, left) ==
  IF lane # NONE /\ lane.current # NONE
  THEN /\ op' = [op EXCEPT ![c] = [at |-> "closing", left |-> left, lane |-> lane,
                                   agent |-> NONE, why |-> "none"]]
       /\ live' = [live EXCEPT ![ProcOf[c]] = @ \ {lane.current}]
  ELSE /\ op' = [op EXCEPT ![c] = NextTask(left)]
       /\ live' = live

-----------------------------------------------------------------------------
(* process and _execute_task: `batch` lasts no longer than the loop's turn *)

\* Mutation: only the process's own pauses are asked for.
StartBatchByMemory(r) ==
  /\ op[r].at = "idle" /\ Free(r)
  /\ ~paused[ProcOf[r]]
  /\ \E n \in 1..MaxBatch : op' = [op EXCEPT ![r] = [Resting EXCEPT !.at = "batch", !.left = n]]
  /\ UNCHANGED <<row, live, paused, edit, history, spent>>

\* run_lane: the pause is looked at once, for all tasks of the batch.
StartBatch(r) ==
  /\ op[r].at = "idle" /\ Free(r)
  /\ ~IsPaused(ProcOf[r])
  /\ \E n \in 1..MaxBatch : op' = [op EXCEPT ![r] = [Resting EXCEPT !.at = "batch", !.left = n]]
  /\ UNCHANGED <<row, live, paused, edit, history, spent>>

\* What rotates an agent besides its runs (age, health, envelope size,
\* corrections, another spec) depends on data left out here: `other`.
StartTask(r) ==
  /\ op[r].at = "batch" /\ Free(r) /\ spent.tasks < MaxTasks
  /\ LET lane == EnsureLane(row)
         left == op[r].left - 1
         Start(at) == /\ op' = [op EXCEPT ![r] = [at |-> at, left |-> left, lane |-> lane,
                                                  agent |-> NONE, why |-> "none"]]
                      /\ live' = live
     IN /\ row' = lane
        /\ \E other \in BOOLEAN :
             /\ other => lane.current # NONE /\ Upsets < MaxUpsets
             /\ spent' = [spent EXCEPT !.tasks = @ + 1, !.others = @ + IF other THEN 1 ELSE 0]
             /\ CASE lane.current = NONE -> Start("creating")
                  [] lane.current # NONE /\ MustRotate(lane, other) ->
                       BeginRotation(r, lane, "limit", left)
                  [] OTHER -> Start("resuming")
  /\ crossed' = (crossed \/ Overlaps(r))
  /\ UNCHANGED <<paused, edit, sends, known, failed, standing>>

\* The context envelope cannot be built: the execution ends before any await.
BuildFails(r) ==
  /\ op[r].at = "batch" /\ Free(r) /\ spent.tasks < MaxTasks
  /\ spent' = [spent EXCEPT !.tasks = @ + 1]
  /\ row' = EnsureLane(row)
  /\ FinishTask(r, row', op[r].left - 1)
  /\ crossed' = (crossed \/ Overlaps(r))
  /\ UNCHANGED <<paused, edit, sends, known, failed, standing>>

\* The handle is there: the run is sent.  No await lies between the agent's
\* being had and the send.
ResumeSucceeds(r) ==
  /\ op[r].at = "resuming" /\ Free(r)
  /\ LET lane == Started(op[r].lane, op[r].lane.current) IN
     /\ row' = lane
     /\ op' = [op EXCEPT ![r] = [@ EXCEPT !.at = "sending", !.lane = lane, !.agent = lane.current]]
     /\ live' = [live EXCEPT ![ProcOf[r]] = @ \cup {lane.current}]
  /\ failed' = NoFailures
  /\ UNCHANGED <<paused, edit, sends, known, crossed, standing, spent>>

\* Mutation: the count stays in memory.
ResumeFailsUncounted(r) ==
  /\ op[r].at = "resuming" /\ Free(r)
  /\ row' = EnsureLane(row)
  /\ failed' = [failed EXCEPT !.starts = @ + 1]
  /\ IF row'.fails + 1 < FailLimit
     THEN FinishTask(r, row', op[r].left)
     ELSE BeginRotation(r, row', "startup", op[r].left)
  /\ UNCHANGED <<paused, edit, sends, known, crossed, standing, spent>>

\* _recover_startup_failure: count, and rotate once failures repeat.
ResumeFails(r) ==
  /\ op[r].at = "resuming" /\ Free(r)
  /\ row' = FailedOnce(EnsureLane(row))
  /\ failed' = [failed EXCEPT !.starts = @ + 1]
  /\ IF row'.fails < FailLimit
     THEN FinishTask(r, row', op[r].left)
     ELSE BeginRotation(r, row', "startup", op[r].left)
  /\ UNCHANGED <<paused, edit, sends, known, crossed, standing, spent>>

SendAccepted(r) ==
  /\ op[r].at = "sending" /\ Free(r)
  /\ op' = [op EXCEPT ![r].at = "running"]
  /\ sends' = [sends EXCEPT ![op[r].agent] = @ + 1]
  /\ UNCHANGED <<row, live, paused, edit, known, failed, crossed, standing, spent>>

\* The agent still owns a run: the lane is rotated, once.
SendBusy(r) ==
  /\ op[r].at = "sending" /\ op[r].why # "busy" /\ Free(r)
  /\ row' = EnsureLane(row)
  /\ BeginRotation(r, row', "busy", op[r].left)
  /\ UNCHANGED <<paused, edit, history, spent>>

\* Any other failure of the resume or of the send, or a second busy agent, ends
\* the execution: no count is kept of it.
StartBreaks(r) ==
  /\ op[r].at \in {"resuming", "sending"} /\ Free(r)
  /\ FinishTask(r, row, op[r].left)
  /\ UNCHANGED <<row, paused, edit, history, spent>>

RunEnds(r) ==
  /\ op[r].at = "running" /\ Free(r)
  /\ FinishTask(r, row, op[r].left)
  /\ UNCHANGED <<row, paused, edit, history, spent>>

\* The row read before the await is saved: idle, whatever it is by now.
Closed(r) ==
  /\ op[r].at = "closing" /\ Free(r)
  /\ row' = Ended(op[r].lane)
  /\ op' = [op EXCEPT ![r] = NextTask(op[r].left)]
  /\ UNCHANGED <<live, paused, edit, history, spent>>

-----------------------------------------------------------------------------
(* rotate and create, for a task and for an operator *)

\* rotate_lane does not take the lane's lock.
RotateLane(h) ==
  /\ op[h].at = "idle" /\ Free(h)
  /\ Upset("hands")
  /\ row' = EnsureLane(row)
  /\ BeginRotation(h, row', "hand", 0)
  /\ crossed' = (crossed \/ Overlaps(h))
  /\ standing' = FALSE
  /\ UNCHANGED <<paused, edit, sends, known, failed>>

\* Mutation: no look at whether there was an agent.
RotatedUnguarded(lane) ==
  [lane EXCEPT !.prior = Append(@, lane.current),
               !.status = "rotating", !.runs = 0, !.fails = 0]

Rotated(lane) ==
  [lane EXCEPT !.prior = IF lane.current = NONE THEN @ ELSE Append(@, lane.current),
               !.status = "rotating", !.runs = 0, !.fails = 0]

Disposed(c) ==
  /\ op[c].at = "disposing" /\ Free(c)
  /\ row' = Rotated(op[c].lane)
  /\ op' = [op EXCEPT ![c] = [@ EXCEPT !.at = "creating", !.lane = row']]
  /\ failed' = [failed EXCEPT !.tries = @ + 1]
  /\ UNCHANGED <<live, paused, edit, sends, known, crossed, standing, spent>>

\* Mutation: the new agent is sent its run before its handle is kept.
CreatedUnregistered(c) ==
  /\ op[c].at = "creating" /\ Free(c)
  /\ LET a == Len(sends) + 1
         lane == Started(op[c].lane, a)
     IN /\ row' = lane
        /\ sends' = Append(sends, 0) /\ known' = known \cup {a}
        /\ op' = [op EXCEPT ![c] =
                    IF c \in Hand THEN Resting
                    ELSE [@ EXCEPT !.at = "sending", !.lane = lane, !.agent = a]]
  /\ failed' = NoFailures
  /\ UNCHANGED <<live, paused, edit, crossed, standing, spent>>

\* record_task_start and clear_startup_failures save the row once more in the
\* same step.
Created(c) ==
  /\ op[c].at = "creating" /\ Free(c)
  /\ LET a == Len(sends) + 1
         lane == Started(op[c].lane, a)
     IN /\ row' = lane
        /\ sends' = Append(sends, 0) /\ known' = known \cup {a}
        /\ live' = [live EXCEPT ![ProcOf[c]] = @ \cup {a}]
        /\ op' = [op EXCEPT ![c] =
                    IF c \in Hand THEN Resting
                    ELSE [@ EXCEPT !.at = "sending", !.lane = lane, !.agent = a]]
  /\ failed' = NoFailures
  /\ UNCHANGED <<paused, edit, crossed, standing, spent>>

\* The lane keeps the agent it was leaving.
CreateFails(c) ==
  /\ op[c].at = "creating" /\ Free(c)
  /\ IF c \in Hand
     THEN op' = [op EXCEPT ![c] = Resting] /\ live' = live
     ELSE FinishTask(c, row, op[c].left)
  /\ UNCHANGED <<row, paused, edit, history, spent>>

\* The runtime fails to close the handle it has dropped.  A rotation fails like
\* a creation; at the end of an execution the exception ends the whole batch.
CloseFails(c) ==
  /\ op[c].at \in {"disposing", "closing"} /\ Free(c)
  /\ Upset("closes")
  /\ IF c \in Hand \/ op[c].at = "closing"
     THEN op' = [op EXCEPT ![c] = Resting] /\ live' = live
     ELSE FinishTask(c, row, op[c].left)
  /\ UNCHANGED <<row, paused, edit, history>>

-----------------------------------------------------------------------------
(* pause_lane, resume_lane, and the model a command writes into the row *)

ReadForEdit(p, what) ==
  /\ edit[p] = NONE /\ ~InBatch(p, NONE)
  /\ Upset("edits")
  /\ what = "model" => p \in Command
  /\ paused' = [paused EXCEPT ![p] = CASE what = "pause" -> TRUE
                                       [] what = "resume" -> FALSE
                                       [] OTHER -> @]
  /\ row' = EnsureLane(row)
  /\ edit' = [edit EXCEPT ![p] = [what |-> what, lane |-> row']]
  /\ UNCHANGED <<live, op, history>>

Edited(lane, what) ==
  CASE what = "pause"  -> [lane EXCEPT !.status = "paused"]
    [] what = "resume" -> [lane EXCEPT !.status = IF lane.current # NONE THEN "active" ELSE "idle"]
    [] what = "model"  -> lane

\* A command's own set of paused lanes is gone with its process.
SaveEdit(p) ==
  /\ edit[p] # NONE
  /\ row' = Edited(edit[p].lane, edit[p].what)
  /\ paused' = [paused EXCEPT ![p] = @ /\ p \in Service]
  /\ crossed' = (crossed \/ row # edit[p].lane)
  /\ standing' = CASE edit[p].what = "pause"  -> AtRest
                   [] edit[p].what = "resume" -> FALSE
                   [] edit[p].what = "model"  -> standing
  /\ edit' = [edit EXCEPT ![p] = NONE]
  /\ UNCHANGED <<live, op, sends, known, failed, spent>>

\* A process is killed, or closes its runtime and leaves.
Crash(p) ==
  /\ Upset("crashes")
  /\ live' = [live EXCEPT ![p] = {}]
  /\ paused' = [paused EXCEPT ![p] = FALSE]
  /\ op' = [c \in Coroutine |-> IF ProcOf[c] = p THEN Resting ELSE op[c]]
  /\ edit' = [edit EXCEPT ![p] = NONE]
  /\ UNCHANGED <<row, history>>

-----------------------------------------------------------------------------

RunStep(r) ==
  \/ StartBatch(r) \/ StartTask(r) \/ BuildFails(r)
  \/ ResumeSucceeds(r) \/ ResumeFails(r)
  \/ SendAccepted(r) \/ SendBusy(r) \/ StartBreaks(r) \/ RunEnds(r) \/ Closed(r)

RotationStep(c) == Disposed(c) \/ CloseFails(c) \/ Created(c) \/ CreateFails(c)

Next ==
  \/ \E r \in Run : RunStep(r)
  \/ \E h \in Hand : RotateLane(h)
  \/ \E c \in Coroutine : RotationStep(c)
  \/ \E p \in Proc : SaveEdit(p) \/ Crash(p) \/ \E what \in Edit : ReadForEdit(p, what)

Spec == Init /\ [][Next]_vars

-----------------------------------------------------------------------------
(* properties *)

Operation == [at : Await \cup {"idle", "batch"}, left : Nat, lane : Row \cup {NONE},
              agent : Agent \cup {NONE}, why : Cause]

\* Every variable has its type.
TypeOK ==
  /\ row \in Row \cup {NONE}
  /\ live \in [Proc -> SUBSET Agent]
  /\ paused \in [Proc -> BOOLEAN]
  /\ op \in [Coroutine -> Operation]
  /\ edit \in [Proc -> [what : Edit, lane : Row] \cup {NONE}]
  /\ sends \in Seq(Nat) /\ known \in SUBSET Agent /\ failed \in [starts : Nat, tries : Nat]
  /\ crossed \in BOOLEAN /\ standing \in BOOLEAN
  /\ spent \in [tasks : Nat, hands : Nat, edits : Nat, crashes : Nat, closes : Nat, others : Nat]

\* README.md:322, "preserves prior agent lineage": an agent that was once the
\* lane's is still its current one or among the prior ones.
NoneForgotten ==
  \A a \in known : row.current = a \/ \E i \in DOMAIN row.prior : row.prior[i] = a

\* The prior agents are in the order of their creation, none younger than the
\* current one.
InOrder ==
  /\ \A i, j \in DOMAIN row.prior : i < j => row.prior[i] <= row.prior[j]
  /\ row.current # NONE => \A i \in DOMAIN row.prior : row.prior[i] <= row.current

\* Unless operations on the lane overlapped, the chain of its agents is whole
\* and in order, whatever failed or was cut short on the way (agents.py:96-130).
LineageKept == ~crossed => NoneForgotten /\ (row # NONE => InOrder)

\* A run that was sent or is under way has its handle, and its agent is the
\* lane's: neither a pause nor anything else replaces it.
RunOwnsAgent ==
  ~crossed => \A r \in Run : op[r].at \in {"sending", "running"} =>
                /\ op[r].agent \in live[ProcOf[r]]
                /\ row.current = op[r].agent

Turns(a) == Cardinality({i \in DOMAIN row.prior : row.prior[i] = a})
            + IF row.current = a THEN 1 ELSE 0

\* An agent gets at most RunLimit runs each time it is the lane's agent (once
\* more when the creation of its successor failed), and one per crash or
\* failed close, which lose the count of the run under way.
AgentRunsBounded ==
  ~crossed => \A a \in DOMAIN sends : sends[a] <= Turns(a) * RunLimit + spent.crashes + spent.closes

\* coordinator.py:497-537 and agents.py:103-130: starts that fail in a row are
\* counted across restarts, and a successor is tried at the limit.  The count is
\* cleared when it is tried, so an agent that cannot start fails FailLimit more
\* starts each time its successor cannot be created; only a crash or a failed
\* close before the rotation is saved lets one more start fail.
StartupHeals ==
  ~crossed => failed.starts <= (failed.tries + 1) * FailLimit + spent.crashes + spent.closes

\* A pause made while the lane was at rest stands, for every process, until
\* it is resumed or rotated by hand.
PauseStands ==
  (~crossed /\ standing) => row.status = "paused" /\ \A r \in Run : op[r].at = "idle"

=============================================================================
