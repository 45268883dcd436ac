-------------------------------- MODULE Inbox --------------------------------
(***************************************************************************)
(* The inbox: messages, the routing of executable ones to tasks, and the    *)
(* synchronisation of a message with the end of its task.                   *)
(*                                                                         *)
(* One process routes and executes (the holder of the workspace lock);      *)
(* people promote, acknowledge, pause and resume from other processes.  A   *)
(* step is a commit.  The router works on copies it listed at the start of  *)
(* its cycle and a command on the copy it read: both save the whole row.    *)
(***************************************************************************)
EXTENDS Naturals, FiniteSets

CONSTANTS
  Msg,          \* message ids; bounds how many messages are sent
  Lane,         \* lane keys a message may be addressed to
  Expirable,    \* messages whose ttl may lapse, as message and as task
  Denied,       \* messages whose permissions the mode of the router denies
  Pausable,     \* messages whose task people pause and resume
  Handled,      \* messages people promote and acknowledge
  MaxMessages,  \* process(max_tasks=...), which also bounds the routing
  MaxStarts,    \* bound: how often the router is started
  NONE

ASSUME InboxAssumption ==
  /\ Expirable \subseteq Msg
  /\ Denied \subseteq Msg
  /\ Pausable \subseteq Msg
  /\ Handled \subseteq Msg
  /\ MaxMessages \in Nat \ {0}
  /\ MaxStarts \in Nat

MailStatus == {"absent", "pending", "routed", "delivered", "expired", "dead_letter"}

JobStatus == {"none", "queued", "paused", "running", "completed", "failed", "expired"}

Row == [status : MailStatus, executable : BOOLEAN, target : Lane \cup {NONE}]

AbsentRow == [status |-> "absent", executable |-> FALSE, target |-> NONE]

Desk == [verb : {"promote", "acknowledge"}, msg : Msg, row : Row]

VARIABLES
  mail,     \* the messages table: [Msg -> Row]
  sent,     \* created_at of each message, counted in messages sent
  clock,    \* how many were sent
  job,      \* the task under the key "message:<id>", by message
  lanes,    \* the registered lanes
  stage,    \* where the router is in its cycle, or "down"
  copy,     \* the listed copies that are still to be routed: [Msg -> Row or NONE]
  found,    \* the status of the task that submit_task returned for the message
  thread,   \* how far the router is with the task of each message
  starts,   \* how often the router was started
  desk,     \* what a command has read and not yet saved, or NONE
  allowed,  \* history: messages a person made executable
  acked,    \* history: messages a person acknowledged
  done      \* history: messages whose task completed once

store  == <<mail, sent, clock, job, lanes>>
router == <<stage, copy, found, thread, starts>>
past   == <<allowed, acked, done>>
vars   == <<store, router, desk, past>>

Init ==
  /\ mail = [m \in Msg |-> AbsentRow]
  /\ sent = [m \in Msg |-> 0] /\ clock = 0
  /\ job = [m \in Msg |-> "none"]
  /\ lanes = {}
  /\ stage = "down"
  /\ copy = [m \in Msg |-> NONE] /\ found = "none"
  /\ thread = [m \in Msg |-> "out"]
  /\ starts = 0
  /\ desk = NONE
  /\ allowed = {} /\ acked = {} /\ done = {}

-----------------------------------------------------------------------------
(* Helpers *)

Save(m, row) == mail' = [mail EXCEPT ![m] = row]

WithStatus(row, s) ==
  [status |-> s, executable |-> row.executable, target |-> row.target]

IsPending(m) == mail[m].status = "pending"

\* list_messages(PENDING) is ordered by creation and cut at the limit of the
\* cycle: a message is listed if few enough pending ones are older.
Listed(table, m) ==
  /\ table[m].status = "pending"
  /\ Cardinality({n \in Msg : /\ table[n].status = "pending"
                              /\ sent[n] < sent[m]}) < MaxMessages

\* Mutation: the end of a task counts as a delivery, whatever it was.
SyncedDelivers(row, status) ==
  IF status \in {"completed", "failed"} THEN WithStatus(row, "delivered") ELSE row

\* Mutation: a failed task leaves its message as it is.
SyncedCompletedOnly(row, status) ==
  IF status = "completed" THEN WithStatus(row, "delivered") ELSE row

\* _sync_source_message: what a message becomes once its task has this status.
Synced(row, status) ==
  CASE status = "completed" -> WithStatus(row, "delivered")
    [] status \in {"failed", "expired"} -> WithStatus(row, "dead_letter")
    [] OTHER -> row

-----------------------------------------------------------------------------
(* People, by commands of their own *)

RegisterLane(l) ==
  /\ l \notin lanes
  /\ lanes' = lanes \cup {l}
  /\ UNCHANGED <<mail, sent, clock, job, router, desk, past>>

NewMail(m, l, executable) ==
  /\ mail[m].status = "absent"
  /\ Save(m, [status |-> "pending", executable |-> executable, target |-> l])
  /\ clock' = clock + 1
  /\ sent' = [sent EXCEPT ![m] = clock + 1]

\* inbox_send
Send(m, l, executable) ==
  /\ NewMail(m, l, executable)
  /\ allowed' = IF executable THEN allowed \cup {m} ELSE allowed
  /\ UNCHANGED <<job, lanes, router, desk, acked, done>>

\* promote_message and acknowledge_message read the row ...
Read(m, verb) ==
  /\ desk = NONE
  /\ m \in Handled
  /\ mail[m].status # "absent"
  /\ verb = "promote" => IsPending(m)
  /\ desk' = [verb |-> verb, msg |-> m, row |-> mail[m]]
  /\ UNCHANGED <<store, router, past>>

\* ... and save what they read, changed.
SavePromoted ==
  /\ desk # NONE /\ desk.verb = "promote"
  /\ Save(desk.msg, [status |-> desk.row.status, executable |-> TRUE,
                     target |-> desk.row.target])
  /\ allowed' = allowed \cup {desk.msg}
  /\ desk' = NONE
  /\ UNCHANGED <<sent, clock, job, lanes, router, acked, done>>

SaveAcknowledged ==
  /\ desk # NONE /\ desk.verb = "acknowledge"
  /\ Save(desk.msg, WithStatus(desk.row, "delivered"))
  /\ acked' = acked \cup {desk.msg}
  /\ desk' = NONE
  /\ UNCHANGED <<sent, clock, job, lanes, router, allowed, done>>

\* pause_task and resume_task, on the task of a message.
SetJob(m, s) ==
  /\ m \in Pausable
  /\ job[m] # "none"
  /\ job' = [job EXCEPT ![m] = s]
  /\ UNCHANGED <<mail, sent, clock, lanes, router, desk, past>>

-----------------------------------------------------------------------------
(* The router *)

\* Start-up requeues what an interrupted router left running.
Start ==
  /\ stage = "down"
  /\ starts < MaxStarts
  /\ stage' = "idle"
  /\ starts' = starts + 1
  /\ job' = [m \in Msg |-> IF job[m] = "running" THEN "queued" ELSE job[m]]
  /\ UNCHANGED <<mail, sent, clock, lanes, copy, found, thread, desk, past>>

Crash ==
  /\ stage # "down"
  /\ stage' = "down"
  /\ copy' = [m \in Msg |-> NONE] /\ found' = "none"
  /\ thread' = [m \in Msg |-> "out"]
  /\ UNCHANGED <<store, starts, desk, past>>

Expired(table, X) ==
  [m \in Msg |-> IF m \in X THEN WithStatus(table[m], "expired") ELSE table[m]]

\* recover(): expire_orphans over tasks (E) and messages (X); then the listing.
Cycle(E, X) ==
  /\ stage \in {"idle", "executing"}
  /\ \A m \in Msg : thread[m] = "out"
  /\ E \subseteq {m \in Expirable : job[m] \in {"queued", "paused"}}
  /\ X \subseteq {m \in Expirable : IsPending(m)}
  /\ job' = [m \in Msg |-> IF m \in E THEN "expired" ELSE job[m]]
  /\ mail' = Expired(mail, X)
  /\ copy' = [m \in Msg |-> IF Listed(Expired(mail, X), m) THEN mail[m] ELSE NONE]
  /\ stage' = "routing"
  /\ UNCHANGED <<sent, clock, lanes, found, thread, starts, desk, past>>

\* The loop of route_pending_messages is at m.
Turn(m) ==
  /\ copy[m] # NONE
  /\ \A n \in Msg : copy[n] # NONE => sent[m] <= sent[n]

Routing(m) == stage = "routing" /\ Turn(m)

Known(m) == copy[m].target \in lanes

Drop(m) == copy' = [copy EXCEPT ![m] = NONE]

\* invalid or unknown lane, or permissions the mode denies
Refuse(m) ==
  /\ Routing(m)
  /\ ~Known(m) \/ (copy[m].executable /\ m \in Denied)
  /\ Save(m, WithStatus(copy[m], "dead_letter"))
  /\ Drop(m)
  /\ UNCHANGED <<sent, clock, job, lanes, stage, found, thread, starts, desk, past>>

\* Mutation: mail for a known lane is submitted whether executable or not.
HoldNothing(m) ==
  /\ Routing(m)
  /\ Known(m) /\ m \notin Denied
  /\ job' = [job EXCEPT ![m] = "queued"]
  /\ Drop(m)
  /\ UNCHANGED <<mail, sent, clock, lanes, stage, found, thread, starts, desk, past>>

\* Coordination mail stays pending.
Hold(m) ==
  /\ Routing(m)
  /\ Known(m) /\ ~copy[m].executable
  /\ Drop(m)
  /\ UNCHANGED <<store, stage, found, thread, starts, desk, past>>

Executable(m) == Known(m) /\ copy[m].executable /\ m \notin Denied

\* Mutation: the message is saved as routed first, its task left to a later step.
SubmitAfterSave(m) ==
  /\ Routing(m) /\ Executable(m)
  /\ Save(m, WithStatus(copy[m], "routed"))
  /\ stage' = "submitted"
  /\ UNCHANGED <<sent, clock, job, lanes, copy, found, thread, starts, desk, past>>

\* Mutation: a task that exists already is an error.
SubmitNewOnly(m) ==
  /\ Routing(m) /\ Executable(m)
  /\ job[m] = "none"
  /\ job' = [job EXCEPT ![m] = "queued"]
  /\ found' = "queued"
  /\ stage' = "submitted"
  /\ UNCHANGED <<mail, sent, clock, lanes, copy, thread, starts, desk, past>>

\* submit_task under the key of the message: the task of an earlier attempt
\* is found again.
Submit(m) ==
  /\ Routing(m) /\ Executable(m)
  /\ LET s == IF job[m] = "none" THEN "queued" ELSE job[m]
     IN job' = [job EXCEPT ![m] = s] /\ found' = s
  /\ stage' = "submitted"
  /\ UNCHANGED <<mail, sent, clock, lanes, copy, thread, starts, desk, past>>

\* Mutation: the router drops its copy with the save, before the synchronisation.
MarkRoutedForgets(m) ==
  /\ stage = "submitted" /\ Turn(m)
  /\ Save(m, WithStatus(copy[m], "routed"))
  /\ Drop(m)
  /\ stage' = "routed"
  /\ UNCHANGED <<sent, clock, job, lanes, found, thread, starts, desk, past>>

MarkRouted(m) ==
  /\ stage = "submitted" /\ Turn(m)
  /\ Save(m, WithStatus(copy[m], "routed"))
  /\ stage' = "routed"
  /\ UNCHANGED <<sent, clock, job, lanes, copy, found, thread, starts, desk, past>>

SyncRouted(m) ==
  /\ stage = "routed" /\ Turn(m)
  /\ Save(m, Synced(mail[m], found))
  /\ Drop(m) /\ found' = "none"
  /\ stage' = "routing"
  /\ UNCHANGED <<sent, clock, job, lanes, thread, starts, desk, past>>

\* list_tasks(QUEUED): the batch of the cycle.
Batch ==
  /\ stage = "routing"
  /\ \A m \in Msg : copy[m] = NONE
  /\ stage' = "executing"
  /\ thread' = [m \in Msg |-> IF job[m] = "queued" THEN "batched" ELSE "out"]
  /\ UNCHANGED <<store, copy, found, starts, desk, past>>

Run(m) ==
  /\ thread[m] = "batched"
  /\ job' = [job EXCEPT ![m] = "running"]
  /\ thread' = [thread EXCEPT ![m] = "running"]
  /\ UNCHANGED <<mail, sent, clock, lanes, stage, copy, found, starts, desk, past>>

\* _enqueue_agent_proposal: mail of an agent is held, for a registered lane.
Propose(n, m, l) ==
  /\ thread[n] = "running"
  /\ l \in lanes
  /\ NewMail(m, l, FALSE)
  /\ UNCHANGED <<job, lanes, router, desk, past>>

Finish(m, outcome) ==
  /\ thread[m] = "running"
  /\ job' = [job EXCEPT ![m] = outcome]
  /\ thread' = [thread EXCEPT ![m] = "finished"]
  /\ done' = IF outcome = "completed" THEN done \cup {m} ELSE done
  /\ UNCHANGED <<mail, sent, clock, lanes, stage, copy, found, starts, desk, allowed, acked>>

\* The task is read again and its message follows it.
SyncDone(m) ==
  /\ thread[m] = "finished"
  /\ Save(m, Synced(mail[m], job[m]))
  /\ thread' = [thread EXCEPT ![m] = "out"]
  /\ UNCHANGED <<sent, clock, job, lanes, stage, copy, found, starts, desk, past>>

-----------------------------------------------------------------------------

People ==
  \/ \E l \in Lane : RegisterLane(l)
  \/ \E m \in Msg, l \in Lane, executable \in BOOLEAN : Send(m, l, executable)
  \/ \E m \in Msg, verb \in {"promote", "acknowledge"} : Read(m, verb)
  \/ SavePromoted \/ SaveAcknowledged
  \/ \E m \in Msg, s \in {"paused", "queued"} : SetJob(m, s)

Route ==
  \/ \E E \in SUBSET Expirable, X \in SUBSET Expirable : Cycle(E, X)
  \/ \E m \in Msg : \/ Refuse(m) \/ Hold(m) \/ Submit(m)
                    \/ MarkRouted(m) \/ SyncRouted(m)
  \/ Batch

Work(m) ==
  \/ Run(m)
  \/ \E n \in Msg, l \in Lane : Propose(m, n, l)
  \/ \E outcome \in {"completed", "failed"} : Finish(m, outcome)
  \/ SyncDone(m)

Next == People \/ Start \/ Crash \/ Route \/ \E m \in Msg : Work(m)

Spec == Init /\ [][Next]_vars

-----------------------------------------------------------------------------
(* Properties *)

\* Type correctness of the tables, the router and the desk.
TypeOK ==
  /\ mail \in [Msg -> Row]
  /\ sent \in [Msg -> Nat] /\ clock \in Nat
  /\ job \in [Msg -> JobStatus]
  /\ lanes \subseteq Lane
  /\ stage \in {"down", "idle", "routing", "submitted", "routed", "executing"}
  /\ copy \in [Msg -> Row \cup {NONE}] /\ found \in JobStatus
  /\ stage \in {"submitted", "routed"} => \E m \in Msg : copy[m] # NONE
  /\ thread \in [Msg -> {"out", "batched", "running", "finished"}]
  /\ starts \in Nat
  /\ desk \in Desk \cup {NONE}
  /\ allowed \subseteq Msg /\ acked \subseteq Msg /\ done \subseteq Msg

\* README.md:62-64 and 75-77: a message becomes agent work only if a person sent
\* it executable or promoted it; what an agent proposes never runs on its own.
WorkWasAllowed == \A m \in Msg : job[m] # "none" => m \in allowed

\* A routed message has its task, whenever the router died in between.
RoutedHasTask == \A m \in Msg : mail[m].status = "routed" => job[m] # "none"

\* A message reads `delivered` only when its task completed or a person closed
\* it: no copy saved late turns a failure into a delivery.
DeliveredForCause ==
  \A m \in Msg : mail[m].status = "delivered" => m \in acked \cup done

-----------------------------------------------------------------------------
(* Liveness.  A router that is up executes its next step, and an agent that  *)
(* was prompted answers or fails.  Nobody has to start it, promote mail or    *)
(* resume a task.                                                            *)

Fairness ==
  /\ WF_vars(Route)
  /\ \A m \in Msg : /\ WF_vars(Run(m)) /\ WF_vars(SyncDone(m))
                    /\ WF_vars(\E outcome \in {"completed", "failed"} : Finish(m, outcome))

FairSpec == Spec /\ Fairness

StaysUp == <>[](stage # "down")

\* README.md:68, "Executable messages route to explicitly registered lanes": one
\* that is pending while the router stays up does not stay pending.
ExecutableRoutes ==
  StaysUp => \A m \in Msg :
    (IsPending(m) /\ mail[m].executable /\ mail[m].target \in lanes) ~> ~IsPending(m)

\* README.md:69-70, "They progress through `pending -> routed -> delivered`, or
\* dead-letter": a routed message does not stay routed.
RoutedSettles ==
  StaysUp => \A m \in Msg :
    mail[m].status = "routed" ~> mail[m].status \in {"delivered", "dead_letter"}

=============================================================================
