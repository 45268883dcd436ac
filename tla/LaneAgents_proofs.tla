-------------------------- MODULE LaneAgents_proofs --------------------------
(***************************************************************************)
(* Proofs about LaneAgents, for any number of coroutines, services and     *)
(* commands, any limits and any number of tasks, edits, failures and       *)
(* crashes.                                                                *)
(***************************************************************************)
EXTENDS LaneAgents, FiniteSetTheorems, TLAPS

(* TypeOK is not inductive: a coroutine in an operation holds a row, and    *)
(* one that resumes an agent holds a row that has an agent.                *)
HoldsRow(o) ==
  /\ o.at \in Await => o.lane # NONE
  /\ o.at = "resuming" => o.lane.current # NONE
  /\ o.at = "batch" => o.left > 0

TypeInv == TypeOK /\ \A c \in Coroutine : HoldsRow(op[c])

Held == {o \in Operation : HoldsRow(o)}

-----------------------------------------------------------------------------
(* What the helpers return.                                                *)

\* A lane's row can always be had.
LEMMA EnsureFacts ==
  ASSUME NEW r \in Row \cup {NONE}
  PROVE  /\ EnsureLane(r) \in Row
         /\ EnsureLane(r) # NONE
         /\ r # NONE => EnsureLane(r) = r
         /\ r = NONE => EnsureLane(r) = NewLane
<1>1. NewLane \in Row
  BY DEF NewLane, Row, Status, Agent
<1>2. NONE \notin Row
  BY LaneAgentsAssumption
<1>3. QED
  BY <1>1, <1>2 DEF EnsureLane

\* Setting one field of a row.
LEMMA FieldFacts ==
  ASSUME NEW r \in Row
  PROVE  /\ \A x \in Status : /\ [r EXCEPT !.status = x] \in Row
                              /\ [r EXCEPT !.status = x].current = r.current
                              /\ [r EXCEPT !.status = x].prior = r.prior
                              /\ [r EXCEPT !.status = x].runs = r.runs
                              /\ [r EXCEPT !.status = x].fails = r.fails
         /\ \A x \in Agent : /\ [r EXCEPT !.current = x] \in Row
                             /\ [r EXCEPT !.current = x].current = x
                             /\ [r EXCEPT !.current = x].prior = r.prior
                             /\ [r EXCEPT !.current = x].fails = r.fails
         /\ \A x \in Seq(Agent) : /\ [r EXCEPT !.prior = x] \in Row
                                  /\ [r EXCEPT !.prior = x].current = r.current
                                  /\ [r EXCEPT !.prior = x].prior = x
                                  /\ [r EXCEPT !.prior = x].fails = r.fails
         /\ \A x \in Nat : /\ [r EXCEPT !.runs = x] \in Row
                           /\ [r EXCEPT !.runs = x].current = r.current
                           /\ [r EXCEPT !.runs = x].prior = r.prior
                           /\ [r EXCEPT !.runs = x].fails = r.fails
         /\ \A x \in Nat : /\ [r EXCEPT !.fails = x] \in Row
                           /\ [r EXCEPT !.fails = x].current = r.current
                           /\ [r EXCEPT !.fails = x].prior = r.prior
                           /\ [r EXCEPT !.fails = x].fails = x
BY DEF Row

\* An agent that is had is the lane's and clears the count of failures.
LEMMA StartedFacts ==
  ASSUME NEW r \in Row, NEW a \in Agent
  PROVE  /\ Started(r, a) \in Row
         /\ Started(r, a).current = a /\ Started(r, a).prior = r.prior
         /\ Started(r, a).fails = 0
<1> DEFINE r1 == [r EXCEPT !.status = "active"]
           r2 == [r1 EXCEPT !.current = a]
           r3 == [r2 EXCEPT !.fails = 0]
<1>1. r1 \in Row /\ r1.prior = r.prior
  BY FieldFacts DEF Status
<1> HIDE DEF r1
<1>2. r2 \in Row /\ r2.current = a /\ r2.prior = r.prior
  BY <1>1, FieldFacts
<1> HIDE DEF r2
<1>3. r3 \in Row /\ r3.current = a /\ r3.prior = r.prior /\ r3.fails = 0
  <2>1. r2 \in Row /\ 0 \in Nat
    BY <1>2
  <2>2. r3 \in Row /\ r3.current = r2.current /\ r3.prior = r2.prior /\ r3.fails = 0
    BY <2>1, FieldFacts
  <2>3. QED
    BY <1>2, <2>2
<1>4. Started(r, a) = r3
  BY Zenon DEF Started, r1, r2, r3
<1>5. QED
  BY <1>3, <1>4

\* A failed start is counted.
LEMMA FailedFacts ==
  ASSUME NEW r \in Row
  PROVE  /\ FailedOnce(r) \in Row
         /\ FailedOnce(r).current = r.current /\ FailedOnce(r).prior = r.prior
         /\ FailedOnce(r).fails = r.fails + 1
BY DEF Row, FailedOnce, Agent

\* The end of a run changes neither agents nor failures.
LEMMA EndedFacts ==
  ASSUME NEW r \in Row
  PROVE  /\ Ended(r) \in Row
         /\ Ended(r).current = r.current /\ Ended(r).prior = r.prior
         /\ Ended(r).fails = r.fails
<1> DEFINE r1 == [r EXCEPT !.status = "idle"]
           r2 == [r1 EXCEPT !.runs = r1.runs + 1]
<1>1. /\ r1 \in Row /\ r1.current = r.current /\ r1.prior = r.prior
      /\ r1.fails = r.fails /\ r1.runs = r.runs
  BY FieldFacts DEF Status
<1> HIDE DEF r1
<1>2. r1.runs + 1 \in Nat
  BY <1>1 DEF Row
<1>3. r2 \in Row /\ r2.current = r.current /\ r2.prior = r.prior /\ r2.fails = r.fails
  BY <1>1, <1>2, FieldFacts
<1>4. Ended(r) = [r1 EXCEPT !.runs = r.runs + 1]
  BY Zenon DEF Ended, r1
<1>5. QED
  BY <1>1, <1>3, <1>4

\* A rotation appends the agent that leaves.
LEMMA RotatedFacts ==
  ASSUME NEW r \in Row
  PROVE  /\ Rotated(r) \in Row
         /\ Rotated(r).current = r.current /\ Rotated(r).fails = 0
         /\ r.current = NONE => Rotated(r).prior = r.prior
         /\ r.current # NONE => Rotated(r).prior = Append(r.prior, r.current)
<1> DEFINE prior == IF r.current = NONE THEN r.prior ELSE Append(r.prior, r.current)
           r1 == [r EXCEPT !.prior = prior]
           r2 == [r1 EXCEPT !.status = "rotating"]
           r3 == [r2 EXCEPT !.runs = 0]
           r4 == [r3 EXCEPT !.fails = 0]
<1>1. r.prior \in Seq(Agent) /\ r.current \in Agent \cup {NONE}
  BY DEF Row
<1>2. prior \in Seq(Agent)
  BY <1>1
<1> HIDE DEF prior
<1>3. r1 \in Row /\ r1.current = r.current /\ r1.prior = prior
  BY <1>2, FieldFacts
<1> HIDE DEF r1
<1>4. r2 \in Row /\ r2.current = r.current /\ r2.prior = prior
  BY <1>3, FieldFacts DEF Status
<1> HIDE DEF r2
<1>5. r3 \in Row /\ r3.current = r.current /\ r3.prior = prior
  <2>1. 0 \in Nat
    OBVIOUS
  <2>2. r3 \in Row /\ r3.current = r2.current /\ r3.prior = r2.prior
    BY <1>4, <2>1, FieldFacts
  <2>3. QED
    BY <1>4, <2>2
<1> HIDE DEF r3
<1>6. r4 \in Row /\ r4.current = r.current /\ r4.prior = prior /\ r4.fails = 0
  <2>1. 0 \in Nat
    OBVIOUS
  <2>2. /\ r4 \in Row /\ r4.current = r3.current /\ r4.prior = r3.prior
        /\ r4.fails = 0
    BY <1>5, <2>1, FieldFacts
  <2>3. QED
    BY <1>5, <2>2
<1>7. Rotated(r) = r4
  BY Zenon DEF Rotated, prior, r1, r2, r3, r4
<1>8. QED
  BY <1>6, <1>7 DEF prior

\* An edit changes the status at most.
LEMMA EditedFacts ==
  ASSUME NEW r \in Row, NEW what \in Edit
  PROVE  /\ Edited(r, what) \in Row
         /\ Edited(r, what).current = r.current /\ Edited(r, what).prior = r.prior
         /\ Edited(r, what).fails = r.fails
         /\ what = "pause" => Edited(r, what).status = "paused"
         /\ what = "model" => Edited(r, what) = r
BY DEF Row, Edited, Status, Agent, Edit

\* A rotation begins with the row it was given.
LEMMA BeginFacts ==
  ASSUME NEW c \in Coroutine, NEW lane \in Row, NEW why \in Cause, NEW left \in Nat,
         TypeInv, BeginRotation(c, lane, why, left)
  PROVE  /\ live' \in [Proc -> SUBSET Agent]
         /\ \E o \in Held : /\ op' = [op EXCEPT ![c] = o]
                            /\ o.at = "disposing" /\ o.lane = lane
<1> DEFINE o == [at |-> "disposing", left |-> left, lane |-> lane, agent |-> NONE, why |-> why]
<1>1. lane # NONE
  BY LaneAgentsAssumption
<1>2. o \in Held
  BY <1>1 DEF Held, HoldsRow, Operation, Await
<1>3. live' \in [Proc -> SUBSET Agent]
  BY DEF BeginRotation, TypeInv, TypeOK
<1>4. QED
  BY <1>2, <1>3 DEF BeginRotation

\* What a coroutine is in when it holds no row.
LEMMA NextFacts ==
  ASSUME NEW left \in Nat
  PROVE  NextTask(left) \in Held /\ NextTask(left).at \in {"idle", "batch"}
BY DEF NextTask, Resting, Held, HoldsRow, Operation, Await, Cause

\* An execution ends by closing its agent, or at once.
LEMMA FinishFacts ==
  ASSUME NEW c \in Coroutine, NEW lane \in Row \cup {NONE}, NEW left \in Nat,
         TypeInv, FinishTask(c, lane, left)
  PROVE  /\ live' \in [Proc -> SUBSET Agent]
         /\ \E o \in Held : /\ op' = [op EXCEPT ![c] = o]
                            /\ \/ o.at = "closing" /\ o.lane = lane
                               \/ o.at \in {"idle", "batch"}
<1>1. CASE lane # NONE /\ lane.current # NONE
  <2> DEFINE o == [at |-> "closing", left |-> left, lane |-> lane, agent |-> NONE, why |-> "none"]
  <2>1. o \in Held
    BY <1>1 DEF Held, HoldsRow, Operation, Await, Cause
  <2>2. /\ op' = [op EXCEPT ![c] = o]
        /\ live' = [live EXCEPT ![ProcOf[c]] = @ \ {lane.current}]
    BY <1>1 DEF FinishTask
  <2>3. live' \in [Proc -> SUBSET Agent]
    BY <2>2 DEF TypeInv, TypeOK
  <2>4. o.at = "closing" /\ o.lane = lane
    OBVIOUS
  <2> HIDE DEF o
  <2>5. QED
    BY <2>1, <2>2, <2>3, <2>4
<1>2. CASE ~(lane # NONE /\ lane.current # NONE)
  <2>1. QED
    BY <1>2, NextFacts DEF FinishTask, TypeInv, TypeOK
<1>3. QED
  BY <1>1, <1>2

-----------------------------------------------------------------------------
(* Types.                                                                  *)

Failures == [starts : Nat, tries : Nat]

Spent == [tasks : Nat, hands : Nat, edits : Nat, crashes : Nat, closes : Nat, others : Nat]

\* What TypeOK says of all variables but the row, the handles and the coroutines.
RestOK ==
  /\ paused \in [Proc -> BOOLEAN]
  /\ edit \in [Proc -> [what : Edit, lane : Row] \cup {NONE}]
  /\ sends \in Seq(Nat) /\ known \in SUBSET Agent /\ failed \in Failures
  /\ crossed \in BOOLEAN /\ standing \in BOOLEAN
  /\ spent \in Spent

\* A coroutine that moves on keeps the types if what it saves has its type.
LEMMA MoveType ==
  ASSUME TypeInv, NEW c \in Coroutine, NEW o \in Held, op' = [op EXCEPT ![c] = o],
         row' \in Row \cup {NONE}, live' \in [Proc -> SUBSET Agent], RestOK'
  PROVE  TypeInv'
<1>1. op' \in [Coroutine -> Operation]
  BY DEF TypeInv, TypeOK, Held
<1>2. \A d \in Coroutine : HoldsRow(op'[d])
  <2> TAKE d \in Coroutine
  <2>1. CASE d = c
    BY <2>1 DEF TypeInv, TypeOK, Held
  <2>2. CASE d # c
    BY <2>2 DEF TypeInv, TypeOK
  <2>3. QED
    BY <2>1, <2>2
<1>3. QED
  BY <1>1, <1>2 DEF TypeInv, TypeOK, RestOK, Spent, Failures

\* The bounded counters stay counters.
LEMMA UpsetType ==
  ASSUME spent \in Spent, NEW kind \in {"hands", "edits", "crashes", "closes", "others"}, Upset(kind)
  PROVE  /\ spent' \in Spent
         /\ spent'.crashes + spent'.closes >= spent.crashes + spent.closes
         /\ kind \in {"crashes", "closes"} =>
              spent'.crashes + spent'.closes = spent.crashes + spent.closes + 1
<1>1. CASE kind = "hands"
  BY <1>1 DEF Upset, Spent
<1>2. CASE kind = "edits"
  BY <1>2 DEF Upset, Spent
<1>3. CASE kind = "crashes"
  BY <1>3 DEF Upset, Spent
<1>4. CASE kind = "closes"
  BY <1>4 DEF Upset, Spent
<1>5. CASE kind = "others"
  BY <1>5 DEF Upset, Spent
<1>6. QED
  BY <1>1, <1>2, <1>3, <1>4, <1>5

\* So does the count of tasks, with that of other causes for a rotation.
LEMMA TaskType ==
  ASSUME spent \in Spent, NEW n \in Nat,
         spent' = [spent EXCEPT !.tasks = @ + 1, !.others = @ + n]
  PROVE  spent' \in Spent /\ spent'.crashes = spent.crashes /\ spent'.closes = spent.closes
<1> DEFINE s1 == [spent EXCEPT !.tasks = spent.tasks + 1]
<1>1. s1 \in Spent /\ s1.crashes = spent.crashes /\ s1.closes = spent.closes /\ s1.others + n \in Nat
  BY DEF Spent
<1>2. spent' = [s1 EXCEPT !.others = s1.others + n]
  BY Zenon DEF s1
<1> HIDE DEF s1
<1>3. QED
  BY <1>1, <1>2 DEF Spent

\* Every coroutine belongs to a process.
LEMMA ProcFacts ==
  ASSUME NEW c \in Coroutine
  PROVE  ProcOf[c] \in Proc
BY LaneAgentsAssumption DEF Proc

\* A task starts.
LEMMA StartTaskType ==
  ASSUME TypeInv, NEW r \in Run, StartTask(r)
  PROVE  TypeInv'
<1> DEFINE lane == EnsureLane(row)
           left == op[r].left - 1
<1>1. r \in Coroutine /\ op[r] \in Operation /\ op[r].at = "batch" /\ op[r].left > 0
  BY DEF Coroutine, TypeInv, TypeOK, StartTask, HoldsRow
<1>2. left \in Nat
  BY <1>1 DEF Operation
<1>3. lane \in Row /\ row' = lane
  BY EnsureFacts DEF StartTask, TypeInv, TypeOK
<1>4. lane # NONE
  BY <1>3, LaneAgentsAssumption
<1> HIDE DEF lane, left
<1>5. RestOK'
  <2>1. PICK other \in BOOLEAN :
          spent' = [spent EXCEPT !.tasks = @ + 1, !.others = @ + IF other THEN 1 ELSE 0]
    BY DEF StartTask
  <2>2. spent' \in Spent
    BY <2>1, TaskType DEF TypeInv, TypeOK, Spent
  <2>3. crossed' \in BOOLEAN
    BY Zenon DEF StartTask
  <2>4. QED
    BY <2>2, <2>3 DEF StartTask, RestOK, TypeInv, TypeOK, Spent, Failures
<1>6. CASE lane.current # NONE /\ BeginRotation(r, lane, "limit", left)
  <2>1. /\ live' \in [Proc -> SUBSET Agent]
        /\ \E o \in Held : op' = [op EXCEPT ![r] = o]
    BY <1>1, <1>2, <1>3, <1>6, BeginFacts DEF Cause
  <2>2. QED
    BY <1>1, <1>3, <1>5, <2>1, MoveType
<1>7. ASSUME NEW at \in {"creating", "resuming"}, at = "resuming" => lane.current # NONE,
             op' = [op EXCEPT ![r] = [at |-> at, left |-> left, lane |-> lane,
                                      agent |-> NONE, why |-> "none"]],
             live' = live
      PROVE  TypeInv'
  <2>1. [at |-> at, left |-> left, lane |-> lane, agent |-> NONE, why |-> "none"] \in Held
    BY <1>2, <1>3, <1>4, <1>7 DEF Held, HoldsRow, Operation, Await, Cause
  <2>2. live' \in [Proc -> SUBSET Agent]
    BY <1>7 DEF TypeInv, TypeOK
  <2>3. QED
    BY <1>1, <1>3, <1>5, <1>7, <2>1, <2>2, MoveType
<1>8. QED
  BY <1>6, <1>7 DEF StartTask, lane, left

\* Counting a run of one agent creates and forgets none.
LEMMA CountFacts ==
  ASSUME NEW s \in Seq(Nat), NEW a
  PROVE  /\ [s EXCEPT ![a] = @ + 1] \in Seq(Nat)
         /\ Len([s EXCEPT ![a] = @ + 1]) = Len(s)
<1> DEFINE t == [s EXCEPT ![a] = @ + 1]
<1>1. s \in [1..Len(s) -> Nat] /\ Len(s) \in Nat
  OBVIOUS
<1>2. DOMAIN t = 1..Len(s)
  BY <1>1
<1>3. \A i \in 1..Len(s) : t[i] = IF i = a THEN s[i] + 1 ELSE s[i]
  BY <1>1
<1>4. t = [i \in 1..Len(s) |-> t[i]]
  BY <1>2
<1> HIDE DEF t
<1>5. t \in Seq(Nat) /\ Len(t) = Len(s)
  <2>1. \A i \in 1..Len(s) : t[i] \in Nat
    BY <1>1, <1>3
  <2>2. t \in [1..Len(s) -> Nat]
    BY <1>4, <2>1
  <2>3. QED
    BY <1>1, <2>2
<1>6. QED
  BY <1>5 DEF t

\* What a coroutine holds that has an agent to send its run to.
Sending(u, lane, a) == [u EXCEPT !.at = "sending", !.lane = lane, !.agent = a]

\* It holds a row, and the agent.
LEMMA SendingFacts ==
  ASSUME NEW u \in Operation, NEW lane \in Row, NEW a \in Agent
  PROVE  /\ Sending(u, lane, a) \in Held
         /\ Sending(u, lane, a).at = "sending"
         /\ Sending(u, lane, a).lane = lane
         /\ Sending(u, lane, a).agent = a
<1> DEFINE u1 == [u EXCEPT !.at = "sending"]
           u2 == [u1 EXCEPT !.lane = lane]
           u3 == [u2 EXCEPT !.agent = a]
<1>1. u1 \in Operation /\ u1.at = "sending"
  BY DEF Operation, Await
<1> HIDE DEF u1
<1>2. u2 \in Operation /\ u2.at = "sending" /\ u2.lane = lane
  BY <1>1 DEF Operation
<1> HIDE DEF u2
<1>3. u3 \in Operation /\ u3.at = "sending" /\ u3.lane = lane /\ u3.agent = a
  BY <1>2 DEF Operation
<1>4. u3 = Sending(u, lane, a)
  BY Zenon DEF Sending, u1, u2, u3
<1>5. lane # NONE
  BY LaneAgentsAssumption
<1> HIDE DEF u3
<1>6. u3 \in Held
  BY <1>3, <1>5 DEF Held, HoldsRow, Await
<1>7. QED
  BY <1>3, <1>4, <1>6

\* One that rotates goes on to create.
LEMMA CreatingFacts ==
  ASSUME NEW u \in Operation, NEW lane \in Row
  PROVE  /\ [u EXCEPT !.at = "creating", !.lane = lane] \in Held
         /\ [u EXCEPT !.at = "creating", !.lane = lane].at = "creating"
         /\ [u EXCEPT !.at = "creating", !.lane = lane].lane = lane
<1> DEFINE u1 == [u EXCEPT !.at = "creating"]
           u2 == [u1 EXCEPT !.lane = lane]
<1>1. u1 \in Operation /\ u1.at = "creating"
  BY DEF Operation, Await
<1> HIDE DEF u1
<1>2. u2 \in Operation /\ u2.at = "creating" /\ u2.lane = lane
  BY <1>1 DEF Operation
<1>3. u2 = [u EXCEPT !.at = "creating", !.lane = lane]
  BY Zenon DEF u1, u2
<1>4. lane # NONE
  BY LaneAgentsAssumption
<1> HIDE DEF u2
<1>5. u2 \in Held
  BY <1>2, <1>4 DEF Held, HoldsRow, Await
<1>6. QED
  BY <1>2, <1>3, <1>5

\* A step that leaves the rest alone but for the history keeps its types.
LEMMA RestFacts == TypeInv => RestOK /\ row \in Row \cup {NONE} /\ spent \in Spent
BY DEF TypeInv, TypeOK, RestOK, Spent, Failures

\* The steps of an execution keep the types.
LEMMA RunType ==
  ASSUME TypeInv, NEW r \in Run, RunStep(r)
  PROVE  TypeInv'
<1>0. /\ r \in Coroutine /\ op[r] \in Operation /\ HoldsRow(op[r]) /\ ProcOf[r] \in Proc
      /\ op[r].left \in Nat
      /\ RestOK /\ spent \in Spent /\ row \in Row \cup {NONE}
      /\ live \in [Proc -> SUBSET Agent]
  BY RestFacts, ProcFacts DEF Coroutine, TypeInv, TypeOK, Operation
<1>1. CASE StartBatch(r)
  <2>1. PICK n \in 1..MaxBatch : op' = [op EXCEPT ![r] = [Resting EXCEPT !.at = "batch", !.left = n]]
    BY <1>1 DEF StartBatch
  <2>2. n \in Nat /\ n > 0
    BY LaneAgentsAssumption
  <2>3. [Resting EXCEPT !.at = "batch", !.left = n] \in Held
    BY <2>2 DEF Resting, Held, HoldsRow, Operation, Await, Cause
  <2>5. /\ row' \in Row \cup {NONE} /\ live' \in [Proc -> SUBSET Agent] /\ RestOK'
    BY <1>0, <1>1 DEF StartBatch, RestOK, history
  <2>6. QED
    BY <1>0, <2>1, <2>3, <2>5, MoveType
<1>2. CASE StartTask(r)
  BY <1>2, StartTaskType
<1>3. CASE BuildFails(r)
  <2>1. op[r].left > 0
    BY <1>0, <1>3 DEF BuildFails, HoldsRow
  <2>2. op[r].left - 1 \in Nat
    BY <1>0, <2>1
  <2>3. row' \in Row
    BY <1>0, <1>3, EnsureFacts DEF BuildFails
  <2>4. RestOK'
    <3>1. spent' \in Spent
      BY <1>0, <1>3 DEF BuildFails, Spent
    <3>2. crossed' \in BOOLEAN
      BY <1>3, Zenon DEF BuildFails
    <3>3. QED
      BY <1>0, <1>3, <3>1, <3>2 DEF BuildFails, RestOK
  <2>5. FinishTask(r, row', op[r].left - 1)
    BY <1>3 DEF BuildFails
  <2>6. /\ live' \in [Proc -> SUBSET Agent]
        /\ \E o \in Held : op' = [op EXCEPT ![r] = o]
    BY <1>0, <2>2, <2>3, <2>5, FinishFacts
  <2>7. QED
    BY <1>0, <2>3, <2>4, <2>6, MoveType
<1>4. CASE ResumeSucceeds(r)
  <2> DEFINE old == op[r].lane
             new == Started(old, old.current)
             o == Sending(op[r], new, new.current)
  <2>1. old \in Row /\ old.current \in Agent
    BY <1>0, <1>4 DEF ResumeSucceeds, HoldsRow, Operation, Await, Row
  <2>2. new \in Row /\ new.current = old.current /\ new # NONE
    BY <2>1, StartedFacts, LaneAgentsAssumption
  <2>3. /\ row' = new /\ op' = [op EXCEPT ![r] = o]
        /\ live' = [live EXCEPT ![ProcOf[r]] = @ \cup {new.current}]
    BY <1>4 DEF ResumeSucceeds, Sending
  <2> HIDE DEF new
  <2>4. new.current \in Agent
    BY <2>1, <2>2
  <2>5. o \in Held
    BY <1>0, <2>2, <2>4, SendingFacts
  <2>6. live' \in [Proc -> SUBSET Agent]
    BY <1>0, <2>1, <2>2, <2>3
  <2>7. RestOK'
    BY <1>0, <1>4 DEF ResumeSucceeds, RestOK, NoFailures, Failures
  <2>8. QED
    BY <1>0, <2>2, <2>3, <2>5, <2>6, <2>7, MoveType
<1>5. CASE ResumeFails(r)
  <2>1. row' \in Row
    BY <1>0, <1>5, EnsureFacts, FailedFacts DEF ResumeFails
  <2>2. RestOK'
    <3>1. /\ failed' = [failed EXCEPT !.starts = failed.starts + 1]
          /\ paused' = paused /\ edit' = edit /\ sends' = sends /\ known' = known
          /\ crossed' = crossed /\ standing' = standing /\ spent' = spent
      BY <1>5 DEF ResumeFails
    <3>2. failed \in Failures
      BY <1>0 DEF RestOK
    <3>3. failed' \in Failures
      BY <3>1, <3>2 DEF Failures
    <3>4. QED
      BY <1>0, <3>1, <3>3 DEF RestOK
  <2>3. FinishTask(r, row', op[r].left) \/ BeginRotation(r, row', "startup", op[r].left)
    BY <1>5 DEF ResumeFails
  <2>4. /\ live' \in [Proc -> SUBSET Agent]
        /\ \E o \in Held : op' = [op EXCEPT ![r] = o]
    BY <1>0, <2>1, <2>3, FinishFacts, BeginFacts DEF Cause
  <2>5. QED
    BY <1>0, <2>1, <2>2, <2>4, MoveType
<1>6. CASE SendAccepted(r)
  <2> DEFINE o == [op[r] EXCEPT !.at = "running"]
  <2>1. o \in Held
    BY <1>0, <1>6 DEF SendAccepted, Held, HoldsRow, Operation, Await
  <2>2. op' = [op EXCEPT ![r] = o]
    BY <1>6 DEF SendAccepted
  <2>3. sends' \in Seq(Nat)
    <3>1. sends \in Seq(Nat)
      BY <1>0 DEF RestOK
    <3>2. sends' = [sends EXCEPT ![op[r].agent] = @ + 1]
      BY <1>6 DEF SendAccepted
    <3>3. QED
      BY <3>1, <3>2, CountFacts
  <2>4. /\ row' \in Row \cup {NONE} /\ live' \in [Proc -> SUBSET Agent] /\ RestOK'
    BY <1>0, <1>6, <2>3 DEF SendAccepted, RestOK
  <2>5. QED
    BY <1>0, <2>1, <2>2, <2>4, MoveType
<1>7. CASE SendBusy(r)
  <2>1. row' \in Row
    BY <1>0, <1>7, EnsureFacts DEF SendBusy
  <2>2. RestOK'
    BY <1>0, <1>7 DEF SendBusy, RestOK, history
  <2>3. BeginRotation(r, row', "busy", op[r].left)
    BY <1>7 DEF SendBusy
  <2>4. /\ live' \in [Proc -> SUBSET Agent]
        /\ \E o \in Held : op' = [op EXCEPT ![r] = o]
    BY <1>0, <2>1, <2>3, BeginFacts DEF Cause
  <2>5. QED
    BY <1>0, <2>1, <2>2, <2>4, MoveType
<1>8. CASE StartBreaks(r) \/ RunEnds(r)
  <2>1. FinishTask(r, row, op[r].left) /\ row' = row
    BY <1>8 DEF StartBreaks, RunEnds
  <2>2. /\ live' \in [Proc -> SUBSET Agent]
        /\ \E o \in Held : op' = [op EXCEPT ![r] = o]
    BY <1>0, <2>1, FinishFacts
  <2>3. RestOK'
    BY <1>0, <1>8 DEF StartBreaks, RunEnds, RestOK, history
  <2>4. QED
    BY <1>0, <2>1, <2>2, <2>3, MoveType
<1>9. CASE Closed(r)
  <2>1. op[r].lane \in Row
    BY <1>0, <1>9 DEF Closed, HoldsRow, Operation, Await
  <2>2. row' \in Row
    BY <1>9, <2>1, EndedFacts DEF Closed
  <2>3. /\ live' \in [Proc -> SUBSET Agent] /\ RestOK'
    BY <1>0, <1>9 DEF Closed, RestOK, history
  <2>4. NextTask(op[r].left) \in Held
    BY <1>0, NextFacts
  <2>5. QED
    BY <1>0, <1>9, <2>2, <2>3, <2>4, MoveType DEF Closed
<1>10. QED
  BY <1>1, <1>2, <1>3, <1>4, <1>5, <1>6, <1>7, <1>8, <1>9 DEF RunStep

\* The steps of a rotation keep the types.
LEMMA RotationType ==
  ASSUME TypeInv, NEW c \in Coroutine, RotationStep(c)
  PROVE  TypeInv'
<1>0. /\ op[c] \in Operation /\ HoldsRow(op[c]) /\ ProcOf[c] \in Proc
      /\ op[c].left \in Nat
      /\ RestOK /\ spent \in Spent /\ row \in Row \cup {NONE}
      /\ live \in [Proc -> SUBSET Agent]
  BY RestFacts, ProcFacts DEF TypeInv, TypeOK, Operation
<1>1. Resting \in Held
  BY DEF Resting, Held, HoldsRow, Operation, Await, Cause
<1>2. CASE Disposed(c)
  <2> DEFINE new == Rotated(op[c].lane)
             o == [op[c] EXCEPT !.at = "creating", !.lane = row']
  <2>1. op[c].lane \in Row
    BY <1>0, <1>2 DEF Disposed, HoldsRow, Operation, Await
  <2>2. row' \in Row
    BY <1>2, <2>1, RotatedFacts DEF Disposed
  <2>3. o \in Held
    BY <1>0, <2>2, CreatingFacts
  <2>4. /\ live' \in [Proc -> SUBSET Agent] /\ RestOK'
    <3>1. failed' \in Failures
      <4>1. failed \in Failures /\ failed' = [failed EXCEPT !.tries = failed.tries + 1]
        BY <1>0, <1>2 DEF Disposed, RestOK
      <4>2. QED
        BY <4>1 DEF Failures
    <3>2. /\ live' = live /\ paused' = paused /\ edit' = edit /\ sends' = sends
          /\ known' = known /\ crossed' = crossed /\ standing' = standing
          /\ spent' = spent
      BY <1>2 DEF Disposed
    <3>3. QED
      BY <1>0, <3>1, <3>2 DEF RestOK
  <2>5. op' = [op EXCEPT ![c] = o]
    BY <1>2 DEF Disposed
  <2>6. QED
    BY <2>2, <2>3, <2>4, <2>5, MoveType
<1>3. CASE CloseFails(c)
  <2>1. row' = row
    BY <1>3 DEF CloseFails
  <2>2. RestOK'
    <3>1. spent' \in Spent
      BY <1>0, <1>3, UpsetType DEF CloseFails
    <3>2. QED
      BY <1>0, <1>3, <3>1 DEF CloseFails, RestOK, history
  <2>3. \/ op' = [op EXCEPT ![c] = Resting] /\ live' = live
        \/ FinishTask(c, row, op[c].left)
    BY <1>3 DEF CloseFails
  <2>4. /\ live' \in [Proc -> SUBSET Agent]
        /\ \E o \in Held : op' = [op EXCEPT ![c] = o]
    BY <1>0, <1>1, <2>3, FinishFacts
  <2>5. QED
    BY <1>0, <2>1, <2>2, <2>4, MoveType
<1>4. CASE Created(c)
  <2> DEFINE a == Len(sends) + 1
             new == Started(op[c].lane, a)
             sent == Sending(op[c], new, a)
  <2>1. op[c].lane \in Row
    BY <1>0, <1>4 DEF Created, HoldsRow, Operation, Await
  <2>2. a \in Agent
    BY <1>0 DEF RestOK, Agent
  <2>3. new \in Row
    BY <2>1, <2>2, StartedFacts
  <2>4. /\ row' = new
        /\ live' = [live EXCEPT ![ProcOf[c]] = @ \cup {a}]
        /\ sends' = Append(sends, 0) /\ known' = known \cup {a} /\ failed' = NoFailures
        /\ op' = [op EXCEPT ![c] = IF c \in Hand THEN Resting ELSE sent]
    BY <1>4 DEF Created, Sending
  <2>5. sent \in Held
    BY <1>0, <2>2, <2>3, SendingFacts
  <2> HIDE DEF a, new, sent
  <2>6. RestOK'
    BY <1>0, <1>4, <2>2, <2>4 DEF Created, RestOK, NoFailures, Failures
  <2>7. live' \in [Proc -> SUBSET Agent]
    BY <1>0, <2>2, <2>4
  <2>8. \E o \in Held : op' = [op EXCEPT ![c] = o]
    BY <1>1, <2>4, <2>5
  <2>9. QED
    BY <2>3, <2>4, <2>6, <2>7, <2>8, MoveType
<1>5. CASE CreateFails(c)
  <2>1. row' = row /\ RestOK'
    BY <1>0, <1>5 DEF CreateFails, RestOK, history
  <2>2. \/ op' = [op EXCEPT ![c] = Resting] /\ live' = live
        \/ FinishTask(c, row, op[c].left)
    BY <1>5 DEF CreateFails
  <2>3. /\ live' \in [Proc -> SUBSET Agent]
        /\ \E o \in Held : op' = [op EXCEPT ![c] = o]
    BY <1>0, <1>1, <2>2, FinishFacts
  <2>4. QED
    BY <1>0, <2>1, <2>3, MoveType
<1>6. QED
  BY <1>2, <1>3, <1>4, <1>5 DEF RotationStep

\* A rotation by hand begins with the types kept.
LEMMA RotateLaneType ==
  ASSUME TypeInv, NEW h \in Hand, RotateLane(h)
  PROVE  TypeInv'
<1>0. h \in Coroutine /\ RestOK /\ spent \in Spent /\ row \in Row \cup {NONE}
  BY RestFacts DEF Coroutine
<1>1. row' \in Row /\ BeginRotation(h, row', "hand", 0)
  BY <1>0, EnsureFacts DEF RotateLane
<1>2. /\ live' \in [Proc -> SUBSET Agent]
      /\ \E o \in Held : op' = [op EXCEPT ![h] = o]
  BY <1>0, <1>1, BeginFacts DEF Cause
<1>3. RestOK'
  <2>1. spent' \in Spent
    BY <1>0, UpsetType DEF RotateLane
  <2>2. crossed' \in BOOLEAN
    BY Zenon DEF RotateLane
  <2>3. QED
    BY <1>0, <2>1, <2>2 DEF RotateLane, RestOK
<1>4. QED
  BY <1>0, <1>1, <1>2, <1>3, MoveType

\* The operators' edits and the end of a process keep the types.
LEMMA EditType ==
  ASSUME TypeInv, NEW p \in Proc,
         SaveEdit(p) \/ Crash(p) \/ \E what \in Edit : ReadForEdit(p, what)
  PROVE  TypeInv'
<1>0. RestOK /\ spent \in Spent /\ row \in Row \cup {NONE}
  BY RestFacts
<1>1. CASE SaveEdit(p)
  <2>1. edit[p] \in [what : Edit, lane : Row]
    BY <1>0, <1>1 DEF SaveEdit, RestOK
  <2>2. row' \in Row
    BY <1>1, <2>1, EditedFacts DEF SaveEdit
  <2>3. edit' \in [Proc -> [what : Edit, lane : Row] \cup {NONE}]
    BY <1>0, <1>1 DEF SaveEdit, RestOK
  <2>4. paused' \in [Proc -> BOOLEAN]
    <3>1. paused' = [paused EXCEPT ![p] = @ /\ p \in Service]
      BY <1>1 DEF SaveEdit
    <3>2. (paused[p] /\ p \in Service) \in BOOLEAN
      BY Zenon
    <3>3. QED
      BY <1>0, <3>1, <3>2, Zenon DEF RestOK
  <2>5. crossed' \in BOOLEAN
    BY <1>1, Zenon DEF SaveEdit
  <2>6. standing' \in BOOLEAN
    <3>1. edit[p].what = "pause" \/ edit[p].what = "resume" \/ edit[p].what = "model"
      BY <2>1 DEF Edit
    <3>2. AtRest \in BOOLEAN
      BY Zenon DEF AtRest
    <3>3. QED
      BY <1>0, <1>1, <3>1, <3>2 DEF SaveEdit, RestOK
  <2>7. QED
    BY <1>0, <1>1, <2>2, <2>3, <2>4, <2>5, <2>6 DEF SaveEdit, TypeInv, TypeOK, RestOK, Spent
<1>2. CASE Crash(p)
  <2>1. spent' \in Spent
    BY <1>0, <1>2, UpsetType DEF Crash
  <2>2. Resting \in Held
    BY DEF Resting, Held, HoldsRow, Operation, Await, Cause
  <2>3. /\ op' \in [Coroutine -> Operation]
        /\ \A c \in Coroutine : HoldsRow(op'[c])
    BY <1>2, <2>2 DEF Crash, Held, TypeInv, TypeOK
  <2>4. QED
    BY <1>0, <1>2, <2>1, <2>3 DEF Crash, TypeInv, TypeOK, RestOK, Spent, history
<1>3. ASSUME NEW what \in Edit, ReadForEdit(p, what) PROVE TypeInv'
  <2>1. spent' \in Spent
    BY <1>0, <1>3, UpsetType DEF ReadForEdit
  <2>2. row' \in Row
    BY <1>0, <1>3, EnsureFacts DEF ReadForEdit
  <2>3. edit' \in [Proc -> [what : Edit, lane : Row] \cup {NONE}]
    BY <1>0, <1>3, <2>2 DEF ReadForEdit, RestOK
  <2>4. paused' \in [Proc -> BOOLEAN]
    BY <1>0, <1>3 DEF ReadForEdit, RestOK, Edit
  <2>5. QED
    BY <1>0, <1>3, <2>1, <2>2, <2>3, <2>4 DEF ReadForEdit, TypeInv, TypeOK, RestOK, Spent, history
<1>4. QED
  BY <1>1, <1>2, <1>3

\* Every step keeps the types.
LEMMA TypeStep == TypeInv /\ [Next]_vars => TypeInv'
<1> SUFFICES ASSUME TypeInv, [Next]_vars PROVE TypeInv'
  OBVIOUS
<1>1. CASE UNCHANGED vars
  BY <1>1 DEF vars, TypeInv, TypeOK
<1>2. CASE Next
  BY <1>2, RunType, RotateLaneType, RotationType, EditType DEF Next
<1>3. QED
  BY <1>1, <1>2

\* The first state has the types.
LEMMA TypeInit == Init => TypeInv
<1> SUFFICES ASSUME Init PROVE TypeInv
  OBVIOUS
<1>1. Resting \in Held
  BY DEF Resting, Held, HoldsRow, Operation, Await, Cause
<1>2. /\ op \in [Coroutine -> Operation]
      /\ \A c \in Coroutine : HoldsRow(op[c])
  BY <1>1 DEF Init, Held
<1>3. sends \in Seq(Nat) /\ known \in SUBSET Agent
  BY DEF Init
<1>4. spent \in [tasks : Nat, hands : Nat, edits : Nat, crashes : Nat, closes : Nat, others : Nat]
  BY DEF Init
<1>5. /\ row \in Row \cup {NONE} /\ failed \in Failures
      /\ crossed \in BOOLEAN /\ standing \in BOOLEAN
  BY DEF Init, NoFailures, Failures
<1>6. /\ live \in [Proc -> SUBSET Agent]
      /\ paused \in [Proc -> BOOLEAN]
      /\ edit \in [Proc -> [what : Edit, lane : Row] \cup {NONE}]
  BY DEF Init
<1>7. QED
  BY <1>2, <1>3, <1>4, <1>5, <1>6 DEF TypeInv, TypeOK, Failures

\* Every variable of LaneAgents has its type, however operations overlap.
THEOREM TypeCorrect == Spec => []TypeOK
<1>1. TypeInv => TypeOK
  BY DEF TypeInv
<1>2. QED
  BY <1>1, TypeInit, TypeStep, PTL DEF Spec

-----------------------------------------------------------------------------
(* The chain of agents.  As long as operations on the lane do not overlap,  *)
(* one coroutine at most is in one, and the row it holds names the agents   *)
(* and the failures that the lane's row names: an edit changes the status   *)
(* only.                                                                   *)

SameLine(l, r) == l.current = r.current /\ l.prior = r.prior /\ l.fails = r.fails

Alone == \A c, d \in Coroutine : InOperation(c) /\ InOperation(d) => c = d

Agreed == \A c \in Coroutine : InOperation(c) => row # NONE /\ SameLine(op[c].lane, row)

\* The agent a lane is about to leave is among the prior ones, and no agent of
\* the lane is younger than the latest that was created.
Listed == row.current = NONE \/ \E i \in DOMAIN row.prior : row.prior[i] = row.current

Born ==
  /\ \A i \in DOMAIN row.prior : row.prior[i] <= Len(sends)
  /\ row.current # NONE => row.current <= Len(sends)

Chain ==
  /\ NoneForgotten
  /\ row = NONE => known = {}
  /\ row # NONE => InOrder /\ Born
  /\ \A c \in Coroutine : op[c].at = "creating" => Listed

Owned ==
  \A c \in Coroutine : op[c].at \in {"sending", "running"} =>
    op[c].agent \in live[ProcOf[c]] /\ row.current = op[c].agent

Lost == spent.crashes + spent.closes

\* An agent, and what it was sent.
LEMMA SendsFacts ==
  ASSUME TypeInv, NEW a \in DOMAIN sends
  PROVE  a \in Nat /\ a # NONE /\ sends[a] \in Nat
<1>1. sends \in Seq(Nat)
  BY DEF TypeInv, TypeOK
<1>2. a \in Nat /\ sends[a] \in Nat
  BY <1>1
<1>3. QED
  BY <1>2, LaneAgentsAssumption

LEMMA LostNow == ASSUME TypeInv PROVE Lost \in Nat
<1>1. spent \in Spent
  BY RestFacts
<1>2. QED
  BY <1>1 DEF Lost, Spent

LEMMA LostNext == ASSUME TypeInv' PROVE Lost' \in Nat
<1>1. spent' \in Spent
  <2>1. TypeOK'
    BY DEF TypeInv
  <2>2. QED
    BY <2>1 DEF TypeOK, Spent
<1>2. spent'.crashes \in Nat /\ spent'.closes \in Nat
  BY <1>1 DEF Spent
<1>3. QED
  BY <1>2 DEF Lost

\* What the failures so far are excused by: the successors that were tried, and
\* the crashes and failed closes.
Excused == failed.tries * FailLimit + Lost

\* The failures that are not excused are on the row; at the limit a rotation is
\* under way.
Counted ==
  /\ row = NONE => failed = NoFailures
  /\ row # NONE => /\ failed.starts <= Excused + row.fails
                   /\ failed.starts <= Excused + FailLimit
                   /\ \/ failed.starts < Excused + FailLimit
                      \/ \E c \in Coroutine : op[c].at = "disposing"

LineInv == Alone /\ Agreed /\ Chain /\ Owned /\ Counted

\* What a step of coroutine c does to the operations: it leaves c with o.
Turn(c, o) ==
  /\ op' = [op EXCEPT ![c] = o]
  /\ o.at \in Await => row' # NONE /\ SameLine(o.lane, row')
  /\ o.at \in {"sending", "running"} => o.agent \in live'[ProcOf[c]] /\ row'.current = o.agent
  /\ \/ InOperation(c) \/ ~Overlaps(c)
     \/ o.at \notin Await /\ row' = row /\ live' = live

\* What it does to the chain: nothing, list the agent that leaves, or take the
\* one that was created.
Quiet(o) ==
  /\ known' = known /\ Len(sends') = Len(sends)
  /\ row = NONE => row' = NONE \/ row' = NewLane
  /\ row # NONE => row' # NONE /\ row'.current = row.current /\ row'.prior = row.prior
  /\ o.at = "creating" => row'.current = NONE

Lists(c, o) ==
  /\ InOperation(c) /\ row' # NONE /\ row'.current = row.current
  /\ row.current = NONE => row'.prior = row.prior
  /\ row.current # NONE => row'.prior = Append(row.prior, row.current)
  /\ known' = known /\ sends' = sends

Takes(c, o) ==
  /\ op[c].at = "creating" /\ o.at # "creating"
  /\ row' # NONE /\ row'.current = Len(sends) + 1 /\ row'.prior = row.prior
  /\ known' = known \cup {Len(sends) + 1} /\ Len(sends') = Len(sends) + 1

\* What it does to the count of failures: clear it, keep it, raise it, or excuse
\* them because a successor is tried.
Clears == row' # NONE /\ row'.fails = 0 /\ failed' = NoFailures /\ Lost' = Lost

Keeps(c) ==
  /\ failed' = failed /\ Lost' >= Lost
  /\ op[c].at = "disposing" => Lost' > Lost
  /\ row = NONE => row' = NONE \/ row' = NewLane
  /\ row # NONE => row' # NONE /\ row'.fails = row.fails

Raises(c, o) ==
  /\ InOperation(c) /\ op[c].at # "disposing"
  /\ row' # NONE /\ row'.fails = row.fails + 1 /\ Lost' = Lost
  /\ failed' = [failed EXCEPT !.starts = @ + 1]
  /\ row'.fails < FailLimit \/ o.at = "disposing"

Excuses(c) ==
  /\ InOperation(c)
  /\ row' # NONE /\ row'.fails = 0 /\ Lost' = Lost
  /\ failed' = [failed EXCEPT !.tries = @ + 1]

Effect(c, o) ==
  /\ Turn(c, o)
  /\ Quiet(o) \/ Lists(c, o) \/ Takes(c, o)
  /\ Clears \/ Keeps(c) \/ Raises(c, o) \/ Excuses(c)

\* The operations stay apart and agree with the row.
LEMMA TurnKeeps ==
  ASSUME TypeInv, NEW c \in Coroutine, NEW o, Alone, Agreed, Owned, Turn(c, o)
  PROVE  Alone' /\ Agreed' /\ Owned'
<1>1. op' = [op EXCEPT ![c] = o] /\ op \in [Coroutine -> Operation]
  BY DEF Turn, TypeInv, TypeOK
<1>2. op'[c] = o /\ \A d \in Coroutine : d # c => op'[d] = op[d]
  BY <1>1
<1>3. CASE InOperation(c) \/ ~Overlaps(c)
  <2>1. \A d \in Coroutine : d # c => op[d].at \notin Await
    BY <1>3 DEF Alone, Overlaps, InOperation
  <2>2. \A d \in Coroutine : d # c => op'[d].at \notin Await
    BY <1>2, <2>1
  <2>3. Alone'
    BY <2>2 DEF Alone, InOperation
  <2>4. Agreed'
    BY <1>2, <2>2 DEF Agreed, InOperation, Turn
  <2>5. Owned'
    BY <1>2, <2>2 DEF Owned, Turn, Await
  <2>6. QED
    BY <2>3, <2>4, <2>5
<1>4. CASE o.at \notin Await /\ row' = row /\ live' = live
  <2>1. Alone'
    BY <1>2, <1>4 DEF Alone, InOperation
  <2>2. Agreed'
    BY <1>2, <1>4 DEF Agreed, InOperation
  <2>3. Owned'
    BY <1>2, <1>4 DEF Owned, Await
  <2>4. QED
    BY <2>1, <2>2, <2>3
<1>5. QED
  BY <1>3, <1>4 DEF Turn

\* An untouched chain stays whole, listed and in order.
LEMMA QuietKeeps ==
  ASSUME TypeInv, TypeInv', NEW c \in Coroutine, NEW o, Chain,
         op' = [op EXCEPT ![c] = o], Quiet(o)
  PROVE  Chain'
<1>1. \A d \in Coroutine : op'[d].at = "creating" => op[d].at = "creating" \/ row'.current = NONE
  BY DEF Quiet, TypeInv, TypeOK
<1>2. CASE row = NONE
  <2>1. known' = {}
    BY <1>2 DEF Quiet, Chain
  <2>2. NoneForgotten'
    BY <2>1 DEF NoneForgotten
  <2>3. CASE row' = NONE
    <3>1. row' = row
      BY <1>2, <2>3
    <3>2. \A d \in Coroutine : op'[d].at = "creating" => Listed'
      BY <1>1, <3>1 DEF Chain, Listed
    <3>3. QED
      BY <2>1, <2>2, <2>3, <3>2 DEF Chain
  <2>4. CASE row' = NewLane
    <3>1. row'.current = NONE /\ row'.prior = << >>
      BY <2>4 DEF NewLane
    <3>2. InOrder' /\ Born' /\ Listed'
      BY <3>1 DEF InOrder, Born, Listed
    <3>3. QED
      BY <2>1, <2>2, <3>2 DEF Chain
  <2>5. QED
    BY <1>2, <2>3, <2>4 DEF Quiet
<1>3. CASE row # NONE
  <2>1. /\ row' # NONE /\ row'.current = row.current /\ row'.prior = row.prior
        /\ known' = known /\ Len(sends') = Len(sends)
    BY <1>3 DEF Quiet
  <2>2. NoneForgotten'
    BY <2>1 DEF NoneForgotten, Chain
  <2>3. InOrder' /\ Born'
    BY <1>3, <2>1 DEF InOrder, Born, Chain
  <2>4. \A d \in Coroutine : op'[d].at = "creating" => Listed'
    BY <1>1, <2>1 DEF Listed, Chain
  <2>5. QED
    BY <2>1, <2>2, <2>3, <2>4 DEF Chain
<1>4. QED
  BY <1>2, <1>3

\* Listing the agent that leaves keeps the chain whole and in order.
LEMMA ListsKeeps ==
  ASSUME TypeInv, TypeInv', NEW c \in Coroutine, NEW o, Agreed, Chain, Lists(c, o)
  PROVE  Chain'
<1>1. row # NONE /\ row \in Row /\ row' # NONE /\ row' \in Row
  BY DEF Agreed, Lists, TypeInv, TypeOK
<1>2. /\ row.prior \in Seq(Agent) /\ row.current \in Agent \cup {NONE}
      /\ Len(sends) \in Nat
  BY <1>1 DEF Row, TypeInv, TypeOK
<1>3. /\ row'.current = row.current /\ known' = known /\ sends' = sends
  BY DEF Lists
<1>4. NoneForgotten /\ InOrder /\ Born
  BY <1>1 DEF Chain
<1>5. CASE row.current = NONE
  <2>1. row'.prior = row.prior
    BY <1>5 DEF Lists
  <2>2. NoneForgotten' /\ InOrder' /\ Born' /\ Listed'
    BY <1>3, <1>4, <1>5, <2>1 DEF NoneForgotten, InOrder, Born, Listed
  <2>3. QED
    BY <1>1, <2>2 DEF Chain
<1>6. CASE row.current # NONE
  <2> DEFINE n == Len(row.prior)
  <2>1. row'.prior = Append(row.prior, row.current) /\ row.current \in Agent
    BY <1>2, <1>6 DEF Lists
  <2>2. /\ n \in Nat /\ DOMAIN row.prior = 1..n /\ DOMAIN row'.prior = 1..(n + 1)
        /\ row'.prior[n + 1] = row.current
        /\ \A i \in 1..n : row'.prior[i] = row.prior[i] /\ row.prior[i] \in Agent
    BY <1>2, <2>1
  <2> HIDE DEF n
  <2>3. NoneForgotten'
    BY <1>3, <1>4, <2>2 DEF NoneForgotten
  <2>4. \A i \in 1..n : row.prior[i] <= row.current
    BY <1>4, <1>6, <2>2 DEF InOrder
  <2>5. \A i \in 1..(n + 1) : row'.prior[i] <= row.current
    BY <2>1, <2>2, <2>4 DEF Agent
  <2>6. \A i, j \in 1..(n + 1) : i < j => row'.prior[i] <= row'.prior[j]
    <3> SUFFICES ASSUME NEW i \in 1..(n + 1), NEW j \in 1..(n + 1), i < j
                 PROVE  row'.prior[i] <= row'.prior[j]
      OBVIOUS
    <3>1. CASE j = n + 1
      BY <2>2, <2>5, <3>1
    <3>2. CASE j # n + 1
      <4>1. i \in 1..n /\ j \in 1..n
        BY <2>2, <3>2
      <4>2. QED
        BY <1>4, <2>2, <4>1 DEF InOrder
    <3>3. QED
      BY <3>1, <3>2
  <2>7. InOrder'
    BY <1>3, <2>2, <2>5, <2>6 DEF InOrder
  <2>8. row.current <= Len(sends)
    BY <1>4, <1>6 DEF Born
  <2>9. Born'
    BY <1>2, <1>3, <1>4, <2>1, <2>2, <2>8 DEF Born, Agent
  <2>10. Listed'
    BY <1>3, <2>2 DEF Listed
  <2>11. QED
    BY <1>1, <2>3, <2>7, <2>9, <2>10 DEF Chain
<1>7. QED
  BY <1>5, <1>6

\* An agent that was just created is younger than all of the chain, and the one
\* it replaces is listed.
LEMMA TakesKeeps ==
  ASSUME TypeInv, TypeInv', NEW c \in Coroutine, NEW o, Alone, Agreed, Chain, Turn(c, o), Takes(c, o)
  PROVE  Chain'
<1> DEFINE a == Len(sends) + 1
<1>1. InOperation(c) /\ Listed
  BY DEF Takes, InOperation, Await, Chain
<1>2. row # NONE /\ row \in Row /\ row' # NONE
  BY <1>1 DEF Agreed, Takes, TypeInv, TypeOK
<1>3. /\ row.prior \in Seq(Agent) /\ row.current \in Agent \cup {NONE} /\ Len(sends) \in Nat
  BY <1>2 DEF Row, TypeInv, TypeOK
<1>4. /\ row'.current = a /\ row'.prior = row.prior
      /\ known' = known \cup {a} /\ Len(sends') = a
  BY DEF Takes
<1>5. NoneForgotten /\ InOrder /\ Born
  BY <1>2 DEF Chain
<1> HIDE DEF a
<1>6. NoneForgotten'
  <2> SUFFICES ASSUME NEW b \in known', b # a
               PROVE  \E i \in DOMAIN row.prior : row.prior[i] = b
    BY <1>4 DEF NoneForgotten
  <2>1. b \in known /\ b \in Agent
    BY <1>4 DEF TypeInv, TypeOK
  <2>2. b = row.current \/ \E i \in DOMAIN row.prior : row.prior[i] = b
    BY <1>5, <2>1 DEF NoneForgotten
  <2>3. b # NONE
    BY <2>1, LaneAgentsAssumption DEF Agent
  <2>4. QED
    BY <1>1, <2>2, <2>3 DEF Listed
<1>7. \A i \in DOMAIN row.prior : row.prior[i] \in Agent /\ row.prior[i] <= Len(sends)
  BY <1>3, <1>5 DEF Born
<1>8. \A i \in DOMAIN row.prior : row.prior[i] <= a
  BY <1>3, <1>7 DEF a, Agent
<1>9. InOrder' /\ Born'
  <2>1. a <= a
    BY <1>3 DEF a
  <2>2. QED
    BY <1>4, <1>5, <1>8, <2>1 DEF InOrder, Born
<1>10. \A d \in Coroutine : op'[d].at # "creating"
  <2>1. op' = [op EXCEPT ![c] = o] /\ o.at # "creating"
    BY DEF Turn, Takes
  <2>2. \A d \in Coroutine : d # c => op[d].at # "creating"
    BY <1>1 DEF Alone, InOperation, Await
  <2>3. QED
    BY <2>1, <2>2 DEF TypeInv, TypeOK
<1>11. QED
  BY <1>2, <1>6, <1>9, <1>10 DEF Chain

\* The failures that are excused are a number, and a try more excuses FailLimit
\* more of them.
LEMMA ExcusedFacts ==
  ASSUME TypeInv, TypeInv'
  PROVE  /\ FailLimit \in Nat /\ FailLimit > 0
         /\ failed.starts \in Nat /\ failed'.starts \in Nat
         /\ Excused \in Nat /\ Excused' \in Nat
         /\ failed'.tries = failed.tries => Excused' = Excused + Lost' - Lost
         /\ failed'.tries = failed.tries + 1 =>
              Excused' = Excused + FailLimit + Lost' - Lost
<1>1. failed \in Failures /\ failed' \in Failures
  BY DEF TypeInv, TypeOK, Failures
<1>2. Lost \in Nat /\ Lost' \in Nat /\ FailLimit \in Nat /\ FailLimit > 0
  BY LaneAgentsAssumption, LostNow, LostNext
<1> DEFINE t == failed.tries
           u == failed'.tries
           l == Lost
           m == Lost'
           n == FailLimit
<1>3. Excused = t * n + l /\ Excused' = u * n + m
  BY DEF Excused
<1>4. t \in Nat /\ u \in Nat /\ l \in Nat /\ m \in Nat /\ n \in Nat
      /\ failed.starts \in Nat /\ failed'.starts \in Nat
  BY <1>1, <1>2 DEF Failures
<1> HIDE DEF t, u, l, m, n
<1>5. t * n \in Nat /\ u * n \in Nat
  BY <1>4
<1>6. t * n + l \in Nat /\ u * n + m \in Nat
  BY <1>4, <1>5
<1>7. u = t => u * n + m = t * n + l + m - l
  BY <1>4, <1>5
<1>8. u = t + 1 => u * n + m = t * n + l + n + m - l
  <2>1. (t + 1) * n = t * n + n
    BY <1>4
  <2>2. QED
    BY <1>4, <1>5, <2>1
<1>9. QED
  BY <1>2, <1>3, <1>4, <1>6, <1>7, <1>8 DEF t, u, l, m, n

\* The count of failures goes on.
LEMMA CountKeeps ==
  ASSUME TypeInv, TypeInv', NEW c \in Coroutine, NEW o, Alone, Agreed, Counted, Turn(c, o),
         Clears \/ Keeps(c) \/ Raises(c, o) \/ Excuses(c)
  PROVE  Counted'
<1>1. /\ FailLimit \in Nat /\ FailLimit > 0 /\ Lost \in Nat /\ Lost' \in Nat
      /\ failed.starts \in Nat /\ failed'.starts \in Nat
      /\ Excused \in Nat /\ Excused' \in Nat
  BY LostNow, LostNext, ExcusedFacts
<1>2. row # NONE => row.fails \in Nat
  BY DEF TypeInv, TypeOK, Row
<1>3. \A d \in Coroutine : d # c => op'[d] = op[d]
  BY DEF Turn
<1>a. failed \in Failures
  BY DEF TypeInv, TypeOK, Failures
<1>b. NoFailures.starts = 0 /\ NoFailures.tries = 0
  BY DEF NoFailures
<1>4. CASE Clears
  BY <1>1, <1>4, <1>b DEF Clears, Counted
<1>5. CASE Keeps(c)
  <2>0. failed' = failed /\ Excused' = Excused + Lost' - Lost /\ Lost' >= Lost
    BY <1>5, ExcusedFacts DEF Keeps
  <2>1. CASE row = NONE
    <3>1. failed' = NoFailures
      BY <1>5, <2>1 DEF Keeps, Counted
    <3>2. row' # NONE => row'.fails = 0
      BY <1>5, <2>1 DEF Keeps, NewLane
    <3>3. QED
      BY <1>1, <1>b, <3>1, <3>2 DEF Counted
  <2>2. CASE row # NONE
    <3>1. row' # NONE /\ row'.fails = row.fails
      BY <1>5, <2>2 DEF Keeps
    <3>2. failed.starts <= Excused + row.fails /\ failed.starts <= Excused + FailLimit
      BY <2>2 DEF Counted
    <3>a. /\ failed'.starts <= Excused' + row'.fails
          /\ failed'.starts <= Excused' + FailLimit
      BY <1>1, <1>2, <2>0, <2>2, <3>1, <3>2
    <3>3. CASE failed.starts < Excused + FailLimit
      <4>1. failed'.starts < Excused' + FailLimit
        BY <1>1, <2>0, <3>3
      <4>2. QED
        BY <3>1, <3>a, <4>1 DEF Counted
    <3>4. CASE \E d \in Coroutine : op[d].at = "disposing"
      <4>1. PICK d \in Coroutine : op[d].at = "disposing"
        BY <3>4
      <4>2. CASE d = c
        <5>1. Lost' > Lost
          BY <1>5, <4>1, <4>2 DEF Keeps
        <5>2. failed'.starts < Excused' + FailLimit
          BY <1>1, <2>0, <3>2, <5>1
        <5>3. QED
          BY <3>1, <3>a, <5>2 DEF Counted
      <4>3. CASE d # c
        <5>1. \E e \in Coroutine : op'[e].at = "disposing"
          BY <1>3, <4>1, <4>3
        <5>2. QED
          BY <3>1, <3>a, <5>1 DEF Counted
      <4>4. QED
        BY <4>2, <4>3
    <3>5. QED
      BY <2>2, <3>3, <3>4 DEF Counted
  <2>3. QED
    BY <2>1, <2>2
<1>6. CASE Raises(c, o)
  <2>1. row # NONE /\ row' # NONE /\ row'.fails = row.fails + 1
    BY <1>6 DEF Raises, Agreed
  <2>a. /\ failed'.starts = failed.starts + 1 /\ failed'.tries = failed.tries
        /\ Lost' = Lost
    BY <1>6, <1>a DEF Raises, Failures
  <2>b. Excused' = Excused
    BY <1>1, <2>a, ExcusedFacts
  <2>2. op'[c] = o
    BY DEF Turn, TypeInv, TypeOK
  <2>3. /\ failed.starts <= Excused + row.fails
        /\ failed.starts < Excused + FailLimit
    <3>1. \A d \in Coroutine : op[d].at # "disposing"
      BY <1>6 DEF Raises, Alone, InOperation, Await
    <3>2. QED
      BY <2>1, <3>1 DEF Counted
  <2>4. /\ failed'.starts <= Excused' + row'.fails
        /\ failed'.starts <= Excused' + FailLimit
    BY <1>1, <1>2, <2>1, <2>a, <2>b, <2>3
  <2>5. CASE row'.fails < FailLimit
    <3>1. failed'.starts < Excused' + FailLimit
      BY <1>1, <1>2, <2>1, <2>4, <2>5
    <3>2. QED
      BY <2>1, <2>4, <3>1 DEF Counted
  <2>6. CASE o.at = "disposing"
    BY <2>1, <2>2, <2>4, <2>6 DEF Counted
  <2>7. QED
    BY <1>6, <2>5, <2>6 DEF Raises
<1>7. CASE Excuses(c)
  <2>1. row # NONE /\ row' # NONE /\ row'.fails = 0 /\ Lost' = Lost
    BY <1>7 DEF Excuses, Agreed
  <2>2. failed'.starts = failed.starts /\ failed'.tries = failed.tries + 1
    BY <1>7, <1>a DEF Excuses, Failures
  <2>3. Excused' = Excused + FailLimit
    BY <1>1, <2>1, <2>2, ExcusedFacts
  <2>4. failed.starts <= Excused + FailLimit
    BY <2>1 DEF Counted
  <2>5. /\ failed'.starts <= Excused' + row'.fails
        /\ failed'.starts < Excused' + FailLimit
    BY <1>1, <2>1, <2>2, <2>3, <2>4
  <2>6. QED
    BY <1>1, <2>1, <2>5 DEF Counted
<1>8. QED
  BY <1>4, <1>5, <1>6, <1>7

\* A step with such an effect keeps all of it.
LEMMA EffectKeeps ==
  ASSUME TypeInv, TypeInv', NEW c \in Coroutine, NEW o, LineInv, Effect(c, o)
  PROVE  LineInv'
<1>1. Alone' /\ Agreed' /\ Owned'
  BY TurnKeeps DEF LineInv, Effect
<1>2. Chain'
  BY QuietKeeps, ListsKeeps, TakesKeeps DEF LineInv, Effect, Turn
<1>3. Counted'
  BY CountKeeps DEF LineInv, Effect
<1>4. QED
  BY <1>1, <1>2, <1>3 DEF LineInv

-----------------------------------------------------------------------------
(* The effect of each action of a coroutine.                               *)

\* Operations that overlapped once have overlapped.
LEMMA Uncrossed == [Next]_vars /\ ~crossed' => ~crossed
<1> SUFFICES ASSUME [Next]_vars, crossed PROVE crossed'
  BY Zenon
<1>1. ASSUME NEW r \in Run, RunStep(r) PROVE crossed'
  BY <1>1, Zenon DEF RunStep, StartBatch, StartTask, BuildFails, ResumeSucceeds, ResumeFails,
       SendAccepted, SendBusy, StartBreaks, RunEnds, Closed, history
<1>2. ASSUME NEW c \in Coroutine, RotationStep(c) PROVE crossed'
  BY <1>2, Zenon DEF RotationStep, Disposed, CloseFails, Created, CreateFails, history
<1>3. ASSUME NEW h \in Hand, RotateLane(h) PROVE crossed'
  BY <1>3, Zenon DEF RotateLane
<1>4. ASSUME NEW p \in Proc, SaveEdit(p) \/ Crash(p) \/ \E what \in Edit : ReadForEdit(p, what)
      PROVE  crossed'
  BY <1>4, Zenon DEF SaveEdit, Crash, ReadForEdit, history
<1>5. CASE UNCHANGED vars
  BY <1>5, Zenon DEF vars
<1>6. QED
  BY <1>1, <1>2, <1>3, <1>4, <1>5, Zenon DEF Next

\* The start of an operation: the row is made sure of.
LEMMA EnsuredFacts ==
  ASSUME TypeInv, row' = EnsureLane(row)
  PROVE  /\ row' \in Row /\ row' # NONE
         /\ row = NONE => row' = NewLane
         /\ row # NONE => row' = row
         /\ SameLine(row', row')
BY EnsureFacts DEF TypeInv, TypeOK, SameLine

\* A step that changes neither chain nor failures.
LEMMA StillFacts ==
  ASSUME TypeInv, NEW c \in Coroutine, NEW o,
         row = NONE => row' = NONE \/ row' = NewLane,
         row # NONE => row' # NONE /\ SameLine(row', row),
         known' = known, Len(sends') = Len(sends), failed' = failed,
         o.at = "creating" => row'.current = NONE,
         Lost' >= Lost, op[c].at = "disposing" => Lost' > Lost
  PROVE  Quiet(o) /\ Keeps(c)
BY DEF Quiet, Keeps, SameLine

\* A task starts.
LEMMA StartTaskEffect ==
  ASSUME TypeInv, NEW r \in Run, StartTask(r), ~crossed'
  PROVE  \E o : Effect(r, o)
<1> DEFINE lane == EnsureLane(row)
           left == op[r].left - 1
<1>1. /\ r \in Coroutine /\ op[r] \in Operation /\ op[r].at = "batch" /\ op[r].left > 0
      /\ spent \in Spent
  BY RestFacts DEF Coroutine, TypeInv, TypeOK, StartTask, HoldsRow
<1>2. left \in Nat
  BY <1>1 DEF Operation
<1>3. row' = lane
  BY DEF StartTask
<1>4. /\ lane \in Row /\ row' # NONE
      /\ row = NONE => row' = NewLane
      /\ row # NONE => row' # NONE /\ SameLine(row', row)
  BY <1>3, EnsuredFacts DEF SameLine
<1>5. ~Overlaps(r)
  BY Zenon DEF StartTask
<1>6. /\ known' = known /\ Len(sends') = Len(sends) /\ failed' = failed /\ Lost' = Lost
  <2>1. PICK other \in BOOLEAN :
          spent' = [spent EXCEPT !.tasks = @ + 1, !.others = @ + IF other THEN 1 ELSE 0]
    BY DEF StartTask
  <2>2. spent'.crashes = spent.crashes /\ spent'.closes = spent.closes
    BY <1>1, <2>1, TaskType
  <2>3. QED
    BY <2>2 DEF StartTask, Lost
<1>7. Lost \in Nat
  BY <1>1 DEF Lost, Spent
<1> HIDE DEF lane, left
<1>8. ASSUME NEW o, op' = [op EXCEPT ![r] = o], SameLine(o.lane, row'),
             o.at \in {"disposing", "creating", "resuming"},
             o.at = "creating" => row'.current = NONE
      PROVE  Effect(r, o)
  <2>1. Turn(r, o)
    BY <1>4, <1>5, <1>8 DEF Turn
  <2>2. Quiet(o) /\ Keeps(r)
    <3>1. Lost' >= Lost /\ op[r].at # "disposing"
      BY <1>1, <1>6, <1>7
    <3>2. QED
      BY <1>1, <1>4, <1>6, <1>8, <3>1, StillFacts
  <2>3. QED
    BY <2>1, <2>2 DEF Effect
<1>9. CASE BeginRotation(r, lane, "limit", left)
  <2>1. PICK o \in Held : op' = [op EXCEPT ![r] = o] /\ o.at = "disposing" /\ o.lane = lane
    BY <1>1, <1>2, <1>4, <1>9, BeginFacts DEF Cause
  <2>2. QED
    BY <1>3, <1>8, <2>1 DEF SameLine
<1>10. ASSUME NEW at \in {"creating", "resuming"}, at = "creating" => lane.current = NONE,
              op' = [op EXCEPT ![r] = [at |-> at, left |-> left, lane |-> lane,
                                       agent |-> NONE, why |-> "none"]]
       PROVE  \E o : Effect(r, o)
  <2> DEFINE o == [at |-> at, left |-> left, lane |-> lane, agent |-> NONE, why |-> "none"]
  <2>1. o.at = at /\ o.lane = lane
    OBVIOUS
  <2>2. op' = [op EXCEPT ![r] = o]
    BY <1>10
  <2> HIDE DEF o
  <2>3. QED
    BY <1>3, <1>8, <1>10, <2>1, <2>2 DEF SameLine
<1>11. QED
  BY <1>9, <1>10 DEF StartTask, lane, left

\* The other steps of an execution.
LEMMA RunEffect ==
  ASSUME TypeInv, TypeInv', NEW r \in Run, LineInv, RunStep(r), ~crossed'
  PROVE  \E o : Effect(r, o)
<1>0. /\ r \in Coroutine /\ op[r] \in Operation /\ HoldsRow(op[r])
      /\ op[r].left \in Nat /\ Lost \in Nat
      /\ row \in Row \cup {NONE} /\ row' \in Row \cup {NONE}
  <2>1. r \in Coroutine /\ op \in [Coroutine -> Operation] /\ \A c \in Coroutine : HoldsRow(op[c])
    BY DEF Coroutine, TypeInv, TypeOK
  <2>2. op[r] \in Operation /\ op[r].left \in Nat
    BY <2>1 DEF Operation
  <2>3. row' \in Row \cup {NONE}
    BY DEF TypeInv, TypeOK
  <2>4. QED
    BY <2>1, <2>2, <2>3, RestFacts, LostNow, LostNext
<1>1. Alone /\ Agreed /\ Owned
  BY DEF LineInv
<1>2. InOperation(r) => row # NONE /\ SameLine(op[r].lane, row)
  BY <1>0, <1>1 DEF Agreed
<1>3. CASE StartBatch(r)
  <2>1. PICK n \in 1..MaxBatch : op' = [op EXCEPT ![r] = [Resting EXCEPT !.at = "batch", !.left = n]]
    BY <1>3 DEF StartBatch
  <2> DEFINE o == [Resting EXCEPT !.at = "batch", !.left = n]
  <2>2. o.at = "batch"
    BY DEF Resting
  <2> HIDE DEF o
  <2>3. Turn(r, o)
    BY <1>3, <2>1, <2>2 DEF Turn, StartBatch, Await, o
  <2>4. /\ row' = row /\ known' = known /\ sends' = sends /\ failed' = failed
        /\ Lost' = Lost /\ op[r].at # "disposing"
    BY <1>3 DEF StartBatch, history, Lost
  <2>5. Quiet(o) /\ Keeps(r)
    BY <1>0, <2>2, <2>4, StillFacts DEF SameLine
  <2>6. QED
    BY <2>3, <2>5 DEF Effect
<1>4. CASE StartTask(r)
  BY <1>4, StartTaskEffect
<1>5. CASE BuildFails(r)
  <2>1. op[r].at = "batch" /\ op[r].left - 1 \in Nat
    BY <1>0, <1>5 DEF BuildFails, HoldsRow
  <2>2. /\ row' \in Row /\ row' # NONE
        /\ row = NONE => row' = NewLane
        /\ row # NONE => row' # NONE /\ SameLine(row', row)
    BY <1>5, EnsuredFacts DEF BuildFails, SameLine
  <2>3. ~Overlaps(r)
    BY <1>5, Zenon DEF BuildFails
  <2>4. PICK o \in Held : /\ op' = [op EXCEPT ![r] = o]
                          /\ (o.at = "closing" /\ o.lane = row') \/ o.at \in {"idle", "batch"}
    BY <1>0, <1>5, <2>1, <2>2, FinishFacts DEF BuildFails
  <2>5. Turn(r, o)
    BY <2>2, <2>3, <2>4 DEF Turn, Await, SameLine
  <2>6. /\ known' = known /\ sends' = sends /\ failed' = failed /\ Lost' = Lost
    BY <1>5 DEF BuildFails, Lost, TypeInv, TypeOK
  <2>7. Quiet(o) /\ Keeps(r)
    BY <1>0, <2>1, <2>2, <2>4, <2>6, StillFacts
  <2>8. QED
    BY <2>5, <2>7 DEF Effect
<1>6. CASE ResumeSucceeds(r)
  <2> DEFINE old == op[r].lane
             new == Started(old, old.current)
             o == Sending(op[r], new, new.current)
  <2>1. old \in Row /\ old.current \in Agent /\ InOperation(r)
    BY <1>0, <1>6 DEF ResumeSucceeds, HoldsRow, Operation, Await, Row, InOperation
  <2>2. /\ new \in Row /\ new.current = old.current /\ new.prior = old.prior /\ new.fails = 0
        /\ new # NONE
    BY <2>1, StartedFacts, LaneAgentsAssumption
  <2>3. /\ row' = new /\ op' = [op EXCEPT ![r] = o]
        /\ live' = [live EXCEPT ![ProcOf[r]] = @ \cup {new.current}]
        /\ failed' = NoFailures /\ spent' = spent /\ known' = known /\ sends' = sends
    BY <1>6 DEF ResumeSucceeds, Sending
  <2> HIDE DEF new
  <2>4. o.at = "sending" /\ o.lane = new /\ o.agent = new.current
    <3>1. new.current \in Agent
      BY <2>1, <2>2
    <3>2. op[r] \in Operation /\ new \in Row
      BY <1>0, <2>2
    <3>3. QED
      BY <3>1, <3>2, SendingFacts
  <2> HIDE DEF o, old
  <2>5. new.current \in live'[ProcOf[r]]
    BY <1>0, <2>3, ProcFacts DEF TypeInv, TypeOK
  <2>6. Turn(r, o)
    BY <2>1, <2>2, <2>3, <2>4, <2>5 DEF Turn, SameLine
  <2>7. Quiet(o)
    BY <1>2, <2>1, <2>2, <2>3, <2>4 DEF Quiet, SameLine, old
  <2>8. Clears
    BY <2>2, <2>3 DEF Clears, Lost
  <2>9. QED
    BY <2>6, <2>7, <2>8 DEF Effect
<1>7. CASE ResumeFails(r)
  <2>1. InOperation(r) /\ op[r].at = "resuming"
    BY <1>7 DEF ResumeFails, InOperation, Await
  <2>2. row # NONE /\ row \in Row /\ row' = FailedOnce(row)
    BY <1>0, <1>2, <1>7, <2>1, EnsureFacts DEF ResumeFails
  <2>3. /\ row' \in Row /\ row' # NONE /\ row'.current = row.current
        /\ row'.prior = row.prior /\ row'.fails = row.fails + 1
    BY <2>2, FailedFacts, LaneAgentsAssumption
  <2>4. /\ failed' = [failed EXCEPT !.starts = @ + 1] /\ Lost' = Lost /\ known' = known /\ sends' = sends
    BY <1>7 DEF ResumeFails, Lost
  <2>5. PICK o \in Held : /\ op' = [op EXCEPT ![r] = o]
                          /\ \/ /\ row'.fails < FailLimit
                                /\ (o.at = "closing" /\ o.lane = row') \/ o.at \in {"idle", "batch"}
                             \/ o.at = "disposing" /\ o.lane = row'
    BY <1>0, <1>7, <2>3, FinishFacts, BeginFacts DEF ResumeFails, Cause
  <2>6. Turn(r, o)
    BY <2>1, <2>3, <2>5 DEF Turn, Await, SameLine
  <2>7. Quiet(o)
    BY <2>2, <2>3, <2>4, <2>5 DEF Quiet
  <2>8. Raises(r, o)
    BY <2>1, <2>3, <2>4, <2>5 DEF Raises
  <2>9. QED
    BY <2>6, <2>7, <2>8 DEF Effect
<1>8. CASE SendAccepted(r)
  <2> DEFINE o == [op[r] EXCEPT !.at = "running"]
  <2>1. InOperation(r) /\ op[r].at = "sending"
    BY <1>8 DEF SendAccepted, InOperation, Await
  <2>2. o.at = "running" /\ o.lane = op[r].lane /\ o.agent = op[r].agent
    BY <1>0 DEF Operation
  <2>3. /\ op' = [op EXCEPT ![r] = o] /\ row' = row /\ live' = live
        /\ known' = known /\ failed' = failed /\ spent' = spent
        /\ sends' = [sends EXCEPT ![op[r].agent] = @ + 1]
    BY <1>8 DEF SendAccepted
  <2> HIDE DEF o
  <2>4. Turn(r, o)
    BY <1>0, <1>1, <1>2, <2>1, <2>2, <2>3 DEF Turn, Owned
  <2>5. Len(sends') = Len(sends)
    BY <2>3, CountFacts DEF TypeInv, TypeOK
  <2>6. Lost' = Lost
    BY <2>3 DEF Lost
  <2>7. Quiet(o) /\ Keeps(r)
    BY <1>0, <2>1, <2>2, <2>3, <2>5, <2>6, StillFacts DEF SameLine
  <2>8. QED
    BY <2>4, <2>7 DEF Effect
<1>9. CASE SendBusy(r)
  <2>1. InOperation(r) /\ op[r].at = "sending"
    BY <1>9 DEF SendBusy, InOperation, Await
  <2>2. row # NONE /\ row \in Row /\ row' = row
    BY <1>0, <1>2, <1>9, <2>1, EnsureFacts DEF SendBusy
  <2>3. PICK o \in Held : op' = [op EXCEPT ![r] = o] /\ o.at = "disposing" /\ o.lane = row'
    BY <1>0, <1>9, <2>2, BeginFacts DEF SendBusy, Cause
  <2>4. Turn(r, o)
    BY <2>1, <2>2, <2>3 DEF Turn, SameLine
  <2>5. /\ known' = known /\ sends' = sends /\ failed' = failed /\ Lost' = Lost
    BY <1>9 DEF SendBusy, history, Lost
  <2>6. Quiet(o) /\ Keeps(r)
    BY <1>0, <2>1, <2>2, <2>3, <2>5, StillFacts DEF SameLine
  <2>7. QED
    BY <2>4, <2>6 DEF Effect
<1>10. CASE StartBreaks(r) \/ RunEnds(r)
  <2>1. InOperation(r) /\ op[r].at # "disposing"
    BY <1>10 DEF StartBreaks, RunEnds, InOperation, Await
  <2>2. row # NONE /\ row' = row
    BY <1>2, <1>10, <2>1 DEF StartBreaks, RunEnds
  <2>3. PICK o \in Held : /\ op' = [op EXCEPT ![r] = o]
                          /\ (o.at = "closing" /\ o.lane = row') \/ o.at \in {"idle", "batch"}
    BY <1>0, <1>10, <2>2, FinishFacts DEF StartBreaks, RunEnds
  <2>4. Turn(r, o)
    BY <2>1, <2>2, <2>3 DEF Turn, Await, SameLine
  <2>5. /\ known' = known /\ sends' = sends /\ failed' = failed /\ Lost' = Lost
    BY <1>10 DEF StartBreaks, RunEnds, history, Lost
  <2>6. Quiet(o) /\ Keeps(r)
    BY <1>0, <2>1, <2>2, <2>3, <2>5, StillFacts DEF SameLine
  <2>7. QED
    BY <2>4, <2>6 DEF Effect
<1>11. CASE Closed(r)
  <2> DEFINE o == NextTask(op[r].left)
  <2>1. InOperation(r) /\ op[r].at = "closing" /\ op[r].lane \in Row
    BY <1>0, <1>11 DEF Closed, InOperation, Await, HoldsRow, Operation
  <2>2. row # NONE /\ SameLine(op[r].lane, row) /\ row' = Ended(op[r].lane)
    BY <1>2, <1>11, <2>1 DEF Closed
  <2>3. row' # NONE /\ SameLine(row', row)
    BY <2>1, <2>2, EndedFacts, LaneAgentsAssumption DEF SameLine
  <2>4. o.at \in {"idle", "batch"} /\ op' = [op EXCEPT ![r] = o]
    BY <1>0, <1>11, NextFacts DEF Closed
  <2> HIDE DEF o
  <2>5. Turn(r, o)
    BY <2>1, <2>4 DEF Turn, Await
  <2>6. /\ known' = known /\ sends' = sends /\ failed' = failed /\ Lost' = Lost
    BY <1>11 DEF Closed, history, Lost
  <2>7. Quiet(o) /\ Keeps(r)
    BY <1>0, <2>1, <2>2, <2>3, <2>4, <2>6, StillFacts
  <2>8. QED
    BY <2>5, <2>7 DEF Effect
<1>12. QED
  BY <1>3, <1>4, <1>5, <1>6, <1>7, <1>8, <1>9, <1>10, <1>11 DEF RunStep

\* Coming to rest changes nothing else.
LEMMA RestEffect ==
  ASSUME TypeInv, NEW c \in Coroutine, op' = [op EXCEPT ![c] = Resting],
         row' = row, live' = live, known' = known, sends' = sends, failed' = failed,
         Lost' >= Lost, op[c].at = "disposing" => Lost' > Lost
  PROVE  Effect(c, Resting)
<1>1. Resting.at = "idle"
  BY DEF Resting
<1>2. Turn(c, Resting)
  BY <1>1 DEF Turn, Await
<1>3. row # NONE => row' # NONE /\ SameLine(row', row)
  BY DEF SameLine
<1>4. Quiet(Resting) /\ Keeps(c)
  BY <1>1, <1>3, StillFacts
<1>5. QED
  BY <1>2, <1>4 DEF Effect

\* So does the end of an execution that was in an operation.
LEMMA FinishEffect ==
  ASSUME TypeInv, NEW c \in Coroutine, InOperation(c), Agreed, FinishTask(c, row, op[c].left),
         row' = row, known' = known, sends' = sends, failed' = failed,
         Lost' >= Lost, op[c].at = "disposing" => Lost' > Lost
  PROVE  \E o : Effect(c, o)
<1>1. row # NONE /\ row \in Row \cup {NONE} /\ op[c].left \in Nat
  BY DEF Agreed, TypeInv, TypeOK, Operation
<1>2. PICK o \in Held : /\ op' = [op EXCEPT ![c] = o]
                        /\ (o.at = "closing" /\ o.lane = row') \/ o.at \in {"idle", "batch"}
  BY <1>1, FinishFacts
<1>3. Turn(c, o)
  BY <1>1, <1>2 DEF Turn, Await, SameLine
<1>4. row # NONE => row' # NONE /\ SameLine(row', row)
  BY DEF SameLine
<1>5. Quiet(o) /\ Keeps(c)
  BY <1>1, <1>2, <1>4, StillFacts
<1>6. QED
  BY <1>3, <1>5 DEF Effect

\* The steps of a rotation.
LEMMA RotationEffect ==
  ASSUME TypeInv, TypeInv', NEW c \in Coroutine, LineInv, RotationStep(c)
  PROVE  \E o : Effect(c, o)
<1>0. /\ op[c] \in Operation /\ HoldsRow(op[c]) /\ Lost \in Nat /\ spent \in Spent
      /\ row \in Row \cup {NONE} /\ ProcOf[c] \in Proc
      /\ Len(sends) \in Nat /\ sends \in Seq(Nat)
      /\ live \in [Proc -> SUBSET Agent]
  <2>1. op[c] \in Operation /\ HoldsRow(op[c]) /\ live \in [Proc -> SUBSET Agent]
    BY DEF TypeInv, TypeOK
  <2>2. sends \in Seq(Nat) /\ Len(sends) \in Nat
    BY DEF TypeInv, TypeOK
  <2>3. QED
    BY <2>1, <2>2, ProcFacts, RestFacts, LostNow
<1>1. Agreed
  BY DEF LineInv
<1>2. InOperation(c) => row # NONE /\ SameLine(op[c].lane, row)
  BY <1>1 DEF Agreed
<1>3. CASE Disposed(c)
  <2> DEFINE old == op[c].lane
             o == [op[c] EXCEPT !.at = "creating", !.lane = row']
  <2>1. InOperation(c) /\ old \in Row
    BY <1>0, <1>3 DEF Disposed, HoldsRow, Operation, Await, InOperation
  <2>2. row # NONE /\ SameLine(old, row)
    BY <1>2, <2>1
  <2>3. /\ row' = Rotated(old) /\ op' = [op EXCEPT ![c] = o]
        /\ failed' = [failed EXCEPT !.tries = @ + 1]
        /\ spent' = spent /\ known' = known /\ sends' = sends
    BY <1>3 DEF Disposed
  <2> HIDE DEF old
  <2>4. /\ row' \in Row /\ row' # NONE /\ row'.current = old.current /\ row'.fails = 0
        /\ old.current = NONE => row'.prior = old.prior
        /\ old.current # NONE => row'.prior = Append(old.prior, old.current)
    BY <2>1, <2>3, RotatedFacts, LaneAgentsAssumption
  <2>5. o.at = "creating" /\ o.lane = row'
    BY <1>0, <2>4, CreatingFacts
  <2> HIDE DEF o
  <2>6. Turn(c, o)
    BY <2>1, <2>3, <2>4, <2>5 DEF Turn, SameLine
  <2>7. Lists(c, o)
    BY <2>1, <2>2, <2>3, <2>4 DEF Lists, SameLine
  <2>8. Excuses(c)
    BY <2>1, <2>3, <2>4 DEF Excuses, Lost
  <2>9. QED
    BY <2>6, <2>7, <2>8 DEF Effect
<1>4. CASE CloseFails(c)
  <2>1. InOperation(c)
    BY <1>4 DEF CloseFails, InOperation, Await
  <2>2. /\ row' = row /\ known' = known /\ sends' = sends /\ failed' = failed
    BY <1>4 DEF CloseFails, history
  <2>3. Lost' = Lost + 1
    BY <1>0, <1>4, UpsetType DEF CloseFails, Lost
  <2>4. Lost' >= Lost /\ Lost' > Lost
    BY <1>0, <2>3
  <2>5. CASE op' = [op EXCEPT ![c] = Resting] /\ live' = live
    BY <2>2, <2>4, <2>5, RestEffect
  <2>6. CASE FinishTask(c, row, op[c].left)
    BY <1>1, <2>1, <2>2, <2>4, <2>6, FinishEffect
  <2>7. QED
    BY <1>4, <2>5, <2>6 DEF CloseFails
<1>5. CASE Created(c)
  <2> DEFINE a == Len(sends) + 1
             new == Started(op[c].lane, a)
             sent == Sending(op[c], new, a)
  <2>1. InOperation(c) /\ op[c].lane \in Row /\ op[c].at = "creating"
    BY <1>0, <1>5 DEF Created, HoldsRow, Operation, Await, InOperation
  <2>2. a \in Agent
    BY <1>0 DEF Agent
  <2>3. row # NONE /\ SameLine(op[c].lane, row)
    BY <1>2, <2>1
  <2>4. /\ new \in Row /\ new # NONE /\ new.current = a /\ new.fails = 0
        /\ new.prior = op[c].lane.prior
    BY <2>1, <2>2, StartedFacts, LaneAgentsAssumption
  <2>5. /\ row' = new
        /\ live' = [live EXCEPT ![ProcOf[c]] = @ \cup {a}]
        /\ sends' = Append(sends, 0) /\ known' = known \cup {a} /\ failed' = NoFailures
        /\ op' = [op EXCEPT ![c] = IF c \in Hand THEN Resting ELSE sent]
        /\ spent' = spent
    BY <1>5 DEF Created, Sending
  <2> HIDE DEF new
  <2>6. sent.at = "sending" /\ sent.lane = new /\ sent.agent = a
    <3>1. op[c] \in Operation /\ new \in Row
      BY <1>0, <2>4
    <3>2. QED
      BY <2>2, <3>1, SendingFacts
  <2> HIDE DEF sent
  <2>7. Len(sends') = a
    BY <1>0, <2>5
  <2>8. a \in live'[ProcOf[c]]
    BY <1>0, <2>5
  <2>9. Clears
    BY <2>4, <2>5 DEF Clears, Lost
  <2>10. Resting.at = "idle"
    BY DEF Resting
  <2>11. PICK o : op' = [op EXCEPT ![c] = o] /\ (o = Resting \/ o = sent)
    BY <2>5
  <2>12. o.at \in {"idle", "sending"} /\ (o.at = "sending" => o = sent)
    BY <2>6, <2>10, <2>11
  <2>13. Turn(c, o)
    BY <2>1, <2>4, <2>5, <2>6, <2>8, <2>11, <2>12 DEF Turn, SameLine, Await
  <2>14. Takes(c, o)
    BY <2>1, <2>3, <2>4, <2>5, <2>7, <2>12 DEF Takes, SameLine
  <2>15. QED
    BY <2>9, <2>13, <2>14 DEF Effect
<1>6. CASE CreateFails(c)
  <2>1. InOperation(c) /\ op[c].at # "disposing"
    BY <1>6 DEF CreateFails, InOperation, Await
  <2>2. /\ row' = row /\ known' = known /\ sends' = sends /\ failed' = failed /\ Lost' = Lost
    BY <1>6 DEF CreateFails, history, Lost
  <2>3. Lost' >= Lost
    BY <1>0, <2>2
  <2>4. CASE op' = [op EXCEPT ![c] = Resting] /\ live' = live
    BY <2>1, <2>2, <2>3, <2>4, RestEffect
  <2>5. CASE FinishTask(c, row, op[c].left)
    BY <1>1, <2>1, <2>2, <2>3, <2>5, FinishEffect
  <2>6. QED
    BY <1>6, <2>4, <2>5 DEF CreateFails
<1>7. QED
  BY <1>3, <1>4, <1>5, <1>6 DEF RotationStep

\* An operator's rotation that overlaps no other operation.
LEMMA RotateLaneEffect ==
  ASSUME TypeInv, NEW h \in Hand, RotateLane(h), ~crossed'
  PROVE  \E o : Effect(h, o)
<1>1. h \in Coroutine /\ op[h].at = "idle" /\ row' = EnsureLane(row) /\ spent \in Spent
  BY RestFacts DEF RotateLane, Coroutine
<1>2. /\ row' \in Row /\ row' # NONE
      /\ row = NONE => row' = NewLane
      /\ row # NONE => row' # NONE /\ SameLine(row', row)
  BY <1>1, EnsuredFacts DEF SameLine
<1>3. PICK o \in Held : op' = [op EXCEPT ![h] = o] /\ o.at = "disposing" /\ o.lane = row'
  BY <1>1, <1>2, BeginFacts DEF RotateLane, Cause
<1>4. ~Overlaps(h)
  BY Zenon DEF RotateLane
<1>5. Turn(h, o)
  BY <1>2, <1>3, <1>4 DEF Turn, SameLine
<1>6. known' = known /\ Len(sends') = Len(sends) /\ failed' = failed
  BY DEF RotateLane
<1>7. Lost' >= Lost
  BY <1>1, UpsetType DEF RotateLane, Lost
<1>8. Quiet(o) /\ Keeps(h)
  BY <1>1, <1>2, <1>3, <1>6, <1>7, StillFacts
<1>9. QED
  BY <1>5, <1>8 DEF Effect

-----------------------------------------------------------------------------
(* The effect of the steps that leave the operations alone or cut them off. *)

\* The chain and the counts are as before, and what is under way is as before or
\* given up.
LEMMA AsideKeeps ==
  ASSUME TypeInv, TypeInv', LineInv,
         \A c \in Coroutine : \/ op'[c] = op[c] /\ live'[ProcOf[c]] = live[ProcOf[c]]
                              \/ op'[c].at = "idle",
         row = NONE => row' = NONE \/ row' = NewLane,
         row # NONE => row' # NONE /\ SameLine(row', row),
         known' = known, sends' = sends, failed' = failed,
         Lost' \in Nat, Lost' >= Lost, op' = op \/ Lost' > Lost
  PROVE  LineInv'
<1>1. \A c \in Coroutine : InOperation(c)' => InOperation(c) /\ op'[c] = op[c]
  BY DEF InOperation, Await
<1>2. \A c \in Coroutine : InOperation(c) => row # NONE
  BY DEF LineInv, Agreed
<1>3. Alone'
  BY <1>1 DEF LineInv, Alone
<1>4. Agreed'
  BY <1>1, <1>2 DEF LineInv, Agreed, SameLine
<1>5. Owned'
  <2> SUFFICES ASSUME NEW c \in Coroutine, op'[c].at \in {"sending", "running"}
               PROVE  op'[c].agent \in live'[ProcOf[c]] /\ row'.current = op'[c].agent
    BY DEF Owned
  <2>1. op'[c] = op[c] /\ live'[ProcOf[c]] = live[ProcOf[c]] /\ InOperation(c)
    BY DEF InOperation, Await
  <2>2. row'.current = row.current
    BY <1>2, <2>1 DEF SameLine
  <2>3. QED
    BY <2>1, <2>2 DEF LineInv, Owned
<1>6. Chain'
  <2>1. CASE row # NONE
    <3>1. row' # NONE /\ row'.current = row.current /\ row'.prior = row.prior
      BY <2>1 DEF SameLine
    <3>2. NoneForgotten' /\ InOrder' /\ Born'
      BY <2>1, <3>1 DEF LineInv, Chain, NoneForgotten, InOrder, Born
    <3>3. \A c \in Coroutine : op'[c].at = "creating" => Listed'
      <4>1. Listed => Listed'
        BY <3>1 DEF Listed
      <4>2. QED
        BY <4>1 DEF LineInv, Chain
    <3>4. QED
      BY <3>1, <3>2, <3>3 DEF Chain
  <2>2. CASE row = NONE
    <3>1. known' = {}
      BY <2>2 DEF LineInv, Chain
    <3>2. \A c \in Coroutine : op'[c].at # "creating"
      BY <1>1, <1>2, <2>2 DEF InOperation, Await
    <3>3. row' # NONE => row'.current = NONE /\ row'.prior = << >>
      BY <2>2 DEF NewLane
    <3>4. row' # NONE => InOrder' /\ Born'
      BY <3>3 DEF InOrder, Born
    <3>5. QED
      BY <3>1, <3>2, <3>4 DEF Chain, NoneForgotten
  <2>3. QED
    BY <2>1, <2>2
<1>7. Counted'
  <2>1. /\ FailLimit \in Nat /\ FailLimit > 0 /\ Lost \in Nat
        /\ failed.starts \in Nat /\ failed'.starts \in Nat
        /\ Excused \in Nat /\ Excused' \in Nat
        /\ Excused' = Excused + Lost' - Lost
    BY LostNow, ExcusedFacts
  <2>2. CASE row # NONE
    <3>1. row' # NONE /\ row'.fails = row.fails /\ row.fails \in Nat
      BY <2>2 DEF SameLine, TypeInv, TypeOK, Row
    <3>2. /\ failed.starts <= Excused + row.fails
          /\ failed.starts <= Excused + FailLimit
          /\ \/ failed.starts < Excused + FailLimit
             \/ \E c \in Coroutine : op[c].at = "disposing"
      BY <2>2, <3>1 DEF LineInv, Counted
    <3>a. /\ failed'.starts <= Excused' + row'.fails
          /\ failed'.starts <= Excused' + FailLimit
          /\ failed.starts < Excused + FailLimit => failed'.starts < Excused' + FailLimit
      BY <2>1, <3>1, <3>2
    <3>3. CASE op' = op
      BY <3>1, <3>2, <3>3, <3>a DEF Counted
    <3>4. CASE Lost' > Lost
      <4>1. failed'.starts < Excused' + FailLimit
        BY <2>1, <3>2, <3>4
      <4>2. QED
        BY <3>1, <3>a, <4>1 DEF Counted
    <3>5. QED
      BY <3>3, <3>4
  <2>3. CASE row = NONE
    <3>1. failed' = NoFailures /\ failed'.starts = 0
      BY <2>3 DEF LineInv, Counted, NoFailures
    <3>2. row' # NONE => row'.fails = 0
      BY <2>3 DEF NewLane
    <3>3. CASE row' = NONE
      BY <3>1, <3>3 DEF Counted
    <3>4. CASE row' # NONE
      <4>1. /\ failed'.starts <= Excused' + row'.fails
            /\ failed'.starts < Excused' + FailLimit
            /\ failed'.starts <= Excused' + FailLimit
        <5> DEFINE starts == failed'.starts
                   excused == Excused'
                   fails == row'.fails
        <5>1. starts = 0 /\ fails = 0 /\ excused \in Nat
          BY <2>1, <3>1, <3>2, <3>4
        <5>2. FailLimit \in Nat /\ FailLimit > 0
          BY <2>1
        <5> HIDE DEF starts, excused, fails
        <5>3. /\ starts <= excused + fails
              /\ starts < excused + FailLimit
              /\ starts <= excused + FailLimit
          BY <5>1, <5>2
        <5>4. QED
          BY <5>3 DEF starts, excused, fails
      <4>2. QED
        BY <3>4, <4>1 DEF Counted
    <3>5. QED
      BY <3>3, <3>4
  <2>4. QED
    BY <2>2, <2>3
<1>8. QED
  BY <1>3, <1>4, <1>5, <1>6, <1>7 DEF LineInv

\* An edit changes the status of the row it read, unless the row is another by then.
LEMMA EditKeeps ==
  ASSUME TypeInv, TypeInv', LineInv, NEW p \in Proc, ~crossed',
         SaveEdit(p) \/ Crash(p) \/ \E what \in Edit : ReadForEdit(p, what)
  PROVE  LineInv'
<1>0. /\ spent \in Spent /\ Lost \in Nat /\ Lost' \in Nat
      /\ row \in Row \cup {NONE}
      /\ live \in [Proc -> SUBSET Agent] /\ op \in [Coroutine -> Operation]
  BY RestFacts, LostNow, LostNext DEF TypeInv, TypeOK
<1>1. CASE SaveEdit(p)
  <2>1. edit[p] \in [what : Edit, lane : Row]
    BY <1>1 DEF SaveEdit, TypeInv, TypeOK
  <2>2. row = edit[p].lane
    BY <1>1, Zenon DEF SaveEdit
  <2>3. row \in Row /\ row # NONE /\ row' = Edited(row, edit[p].what) /\ edit[p].what \in Edit
    BY <1>1, <2>1, <2>2, LaneAgentsAssumption DEF SaveEdit
  <2>4. row' # NONE /\ SameLine(row', row)
    BY <2>3, EditedFacts, LaneAgentsAssumption DEF SameLine
  <2>5. /\ op' = op /\ live' = live /\ known' = known /\ sends' = sends /\ failed' = failed
        /\ Lost' = Lost
    BY <1>1 DEF SaveEdit, Lost
  <2>6. Lost' >= Lost
    BY <1>0, <2>5
  <2>7. QED
    BY <1>0, <2>3, <2>4, <2>5, <2>6, AsideKeeps
<1>2. CASE Crash(p)
  <2>1. Lost' > Lost /\ Lost' >= Lost
    <3>1. Lost' = Lost + 1
      BY <1>0, <1>2, UpsetType DEF Crash, Lost
    <3>2. QED
      BY <1>0, <3>1
  <2>2. row' = row /\ known' = known /\ sends' = sends /\ failed' = failed
    BY <1>2 DEF Crash, history
  <2>3. \A c \in Coroutine : \/ op'[c] = op[c] /\ live'[ProcOf[c]] = live[ProcOf[c]]
                             \/ op'[c].at = "idle"
    <3> SUFFICES ASSUME NEW c \in Coroutine, ProcOf[c] # p
                 PROVE  op'[c] = op[c] /\ live'[ProcOf[c]] = live[ProcOf[c]]
      BY <1>2 DEF Crash, Resting
    <3>1. QED
      BY <1>0, <1>2, ProcFacts DEF Crash
  <2>4. SameLine(row', row)
    BY <2>2 DEF SameLine
  <2>5. QED
    BY <1>0, <2>1, <2>2, <2>3, <2>4, AsideKeeps
<1>3. ASSUME NEW what \in Edit, ReadForEdit(p, what) PROVE LineInv'
  <2>1. /\ row = NONE => row' = NewLane
        /\ row # NONE => row' # NONE /\ SameLine(row', row)
    BY <1>3, EnsuredFacts DEF ReadForEdit, SameLine
  <2>2. op' = op /\ live' = live /\ known' = known /\ sends' = sends /\ failed' = failed
    BY <1>3 DEF ReadForEdit, history
  <2>3. Lost' >= Lost
    BY <1>0, <1>3, UpsetType DEF ReadForEdit, Lost
  <2>4. QED
    BY <1>0, <2>1, <2>2, <2>3, AsideKeeps
<1>4. QED
  BY <1>1, <1>2, <1>3

\* The chain, its agents and the counts, of operations that never overlapped.
LineageInv == TypeInv /\ (~crossed => LineInv)

\* At first there is no lane.
LEMMA LineageInit == Init => LineageInv
<1> SUFFICES ASSUME Init PROVE LineageInv
  OBVIOUS
<1>1. TypeInv
  BY TypeInit
<1>2. \A c \in Coroutine : op[c].at = "idle"
  BY DEF Init, Resting
<1>3. Alone /\ Agreed /\ Owned
  BY <1>2 DEF Alone, Agreed, Owned, InOperation, Await
<1>4. row = NONE /\ known = {} /\ failed = NoFailures
  BY DEF Init
<1>5. Chain /\ Counted
  BY <1>2, <1>4 DEF Chain, Counted, NoneForgotten
<1>6. QED
  BY <1>1, <1>3, <1>5 DEF LineageInv, LineInv

\* Every step keeps the chain.
LEMMA LineageStep == LineageInv /\ [Next]_vars => LineageInv'
<1> SUFFICES ASSUME LineageInv, [Next]_vars, ~crossed' PROVE LineInv'
  BY TypeStep DEF LineageInv
<1>1. TypeInv /\ TypeInv'
  BY TypeStep DEF LineageInv
<1>2. LineInv
  BY Uncrossed DEF LineageInv
<1>3. ASSUME NEW r \in Run, RunStep(r) PROVE LineInv'
  <2>1. r \in Coroutine
    BY DEF Coroutine
  <2>2. QED
    BY <1>1, <1>2, <1>3, <2>1, RunEffect, EffectKeeps
<1>4. ASSUME NEW h \in Hand, RotateLane(h) PROVE LineInv'
  <2>1. h \in Coroutine
    BY DEF Coroutine
  <2>2. QED
    BY <1>1, <1>2, <1>4, <2>1, RotateLaneEffect, EffectKeeps
<1>5. ASSUME NEW c \in Coroutine, RotationStep(c) PROVE LineInv'
  BY <1>1, <1>2, <1>5, RotationEffect, EffectKeeps
<1>6. ASSUME NEW p \in Proc, SaveEdit(p) \/ Crash(p) \/ \E what \in Edit : ReadForEdit(p, what)
      PROVE  LineInv'
  BY <1>1, <1>2, <1>6, EditKeeps
<1>7. CASE UNCHANGED vars
  BY <1>2, <1>7 DEF vars, LineInv, Alone, Agreed, Chain, Owned, Counted, Excused, Lost, InOperation,
       NoneForgotten, InOrder, Born, Listed
<1>8. QED
  BY <1>3, <1>4, <1>5, <1>6, <1>7 DEF Next

\* Agents that failed to start, closes that failed, crashes in the midst of a
\* rotation: unless operations overlap, no agent of the lane is forgotten and
\* the prior ones stay in the order of their creation.
THEOREM LineageIsKept == Spec => []LineageKept
<1>1. LineageInv => LineageKept
  BY DEF LineageInv, LineInv, Chain, LineageKept
<1>2. QED
  BY <1>1, LineageInit, LineageStep, PTL DEF Spec

\* Unless operations overlap, the agent a run is sent to, or runs with, is the
\* lane's, and its handle is at hand.
THEOREM RunKeepsAgent == Spec => []RunOwnsAgent
<1>1. LineageInv => RunOwnsAgent
  BY DEF LineageInv, LineInv, Owned, RunOwnsAgent, Coroutine
<1>2. QED
  BY <1>1, LineageInit, LineageStep, PTL DEF Spec

\* Unless operations overlap, a successor is tried after FailLimit failed starts
\* in a row, and again after each FailLimit more that follow a successor that could
\* not be created; each crash or failed close adds one to their number at most.
THEOREM StartupsHeal == Spec => []StartupHeals
<1>1. LineageInv => StartupHeals
  <2> SUFFICES ASSUME LineageInv, ~crossed
               PROVE  failed.starts <= (failed.tries + 1) * FailLimit + spent.crashes + spent.closes
    BY DEF StartupHeals
  <2> DEFINE t == failed.tries
             n == FailLimit
             a == spent.crashes
             b == spent.closes
             f == failed.starts
  <2>1. t \in Nat /\ n \in Nat /\ a \in Nat /\ b \in Nat /\ f \in Nat
    BY LaneAgentsAssumption DEF LineageInv, TypeInv, TypeOK
  <2>2. f <= t * n + (a + b) + n
    <3>1. CASE row = NONE
      <4>1. f = 0
        BY <3>1 DEF LineageInv, LineInv, Counted, NoFailures
      <4> HIDE DEF t, n, a, b, f
      <4>2. t * n \in Nat
        BY <2>1
      <4>3. QED
        BY <2>1, <4>1, <4>2
    <3>2. CASE row # NONE
      BY <3>2 DEF LineageInv, LineInv, Counted, Excused, Lost
    <3>3. QED
      BY <3>1, <3>2
  <2> HIDE DEF t, n, a, b, f
  <2>3. (t + 1) * n = t * n + n /\ t * n \in Nat
    BY <2>1
  <2>4. f <= (t + 1) * n + a + b
    BY <2>1, <2>2, <2>3
  <2>5. QED
    BY <2>4 DEF t, n, a, b, f
<1>2. QED
  BY <1>1, LineageInit, LineageStep, PTL DEF Spec

-----------------------------------------------------------------------------
(* The pause.  While it stands, its row says so and every coroutine is at   *)
(* rest: all that starts anew looks at the row or ends the pause.          *)

PauseInv == ~crossed /\ standing => row # NONE /\ row.status = "paused" /\ AtRest

\* No step of a coroutine starts in a lane whose pause stands.
LEMMA PausedIsAtRest ==
  ASSUME row # NONE, row.status = "paused", AtRest, NEW c \in Coroutine
  PROVE  /\ c \in Run => ~RunStep(c)
         /\ ~RotationStep(c)
<1>1. op[c].at = "idle"
  BY DEF AtRest
<1>2. IsPaused(ProcOf[c])
  BY DEF IsPaused
<1>3. ~RotationStep(c)
  BY <1>1 DEF RotationStep, Disposed, CloseFails, Created, CreateFails
<1>4. c \in Run => ~RunStep(c)
  BY <1>1, <1>2 DEF RunStep, StartBatch, StartTask, BuildFails, ResumeSucceeds, ResumeFails,
       SendAccepted, SendBusy, StartBreaks, RunEnds, Closed
<1>5. QED
  BY <1>3, <1>4

\* Every step keeps a pause that stands.
LEMMA PauseStep == TypeInv /\ PauseInv /\ [Next]_vars => PauseInv'
<1> SUFFICES ASSUME TypeInv, PauseInv, [Next]_vars, ~crossed', standing'
             PROVE  row' # NONE /\ row'.status = "paused" /\ AtRest'
  BY DEF PauseInv
<1>1. ~crossed
  BY Uncrossed
<1>2. CASE \E p \in Proc : SaveEdit(p)
  <2>1. PICK p \in Proc : SaveEdit(p)
    BY <1>2
  <2>2. edit[p] \in [what : Edit, lane : Row] /\ op' = op
    BY <2>1 DEF SaveEdit, TypeInv, TypeOK
  <2>3. row = edit[p].lane
    BY <2>1, Zenon DEF SaveEdit
  <2>4. row \in Row /\ edit[p].what \in Edit /\ row' = Edited(row, edit[p].what)
    BY <2>1, <2>2, <2>3 DEF SaveEdit
  <2>5. CASE edit[p].what = "pause"
    <3>1. standing' = AtRest
      BY <2>1, <2>5 DEF SaveEdit
    <3>2. AtRest
      BY <3>1, Zenon
    <3>3. AtRest'
      BY <2>2, <3>2 DEF AtRest
    <3>4. QED
      BY <2>4, <2>5, <3>3, EditedFacts, LaneAgentsAssumption
  <2>6. CASE edit[p].what = "resume"
    BY <2>1, <2>6 DEF SaveEdit
  <2>7. CASE edit[p].what = "model"
    <3>1. standing' = standing
      BY <2>1, <2>7 DEF SaveEdit
    <3>2. row # NONE /\ row.status = "paused" /\ AtRest
      BY <1>1, <3>1, Zenon DEF PauseInv
    <3>3. row' = row
      BY <2>4, <2>7, EditedFacts
    <3>4. QED
      BY <2>2, <3>2, <3>3 DEF AtRest
  <2>8. QED
    BY <2>4, <2>5, <2>6, <2>7 DEF Edit
<1>3. CASE ~\E p \in Proc : SaveEdit(p)
  <2>1. ASSUME NEW h \in Hand, RotateLane(h) PROVE FALSE
    BY <2>1 DEF RotateLane
  <2>2. standing
    <3>1. ASSUME NEW r \in Run, RunStep(r) PROVE standing
      BY <3>1, Zenon DEF RunStep, StartBatch, StartTask, BuildFails, ResumeSucceeds, ResumeFails,
           SendAccepted, SendBusy, StartBreaks, RunEnds, Closed, history
    <3>2. ASSUME NEW c \in Coroutine, RotationStep(c) PROVE standing
      BY <3>2, Zenon DEF RotationStep, Disposed, CloseFails, Created, CreateFails, history
    <3>3. ASSUME NEW p \in Proc, Crash(p) \/ \E what \in Edit : ReadForEdit(p, what)
          PROVE  standing
      BY <3>3, Zenon DEF Crash, ReadForEdit, history
    <3>4. CASE UNCHANGED vars
      BY <3>4, Zenon DEF vars
    <3>5. QED
      BY <1>3, <2>1, <3>1, <3>2, <3>3, <3>4, Zenon DEF Next
  <2>3. row # NONE /\ row.status = "paused" /\ AtRest
    BY <1>1, <2>2, Zenon DEF PauseInv
  <2>4. CASE UNCHANGED vars
    BY <2>3, <2>4 DEF vars, AtRest
  <2>5. ASSUME NEW p \in Proc, Crash(p) PROVE row' = row /\ AtRest'
    BY <2>3, <2>5 DEF Crash, AtRest, Resting, history
  <2>6. ASSUME NEW p \in Proc, NEW what \in Edit, ReadForEdit(p, what)
        PROVE  row' = row /\ AtRest'
    BY <2>3, <2>6, EnsuredFacts DEF ReadForEdit, AtRest, EnsureLane
  <2>7. QED
    BY <1>3, <2>1, <2>3, <2>4, <2>5, <2>6, PausedIsAtRest DEF Next, Coroutine
<1>4. QED
  BY <1>2, <1>3

\* A pause made while the lane was at rest stands for every process, until it is
\* resumed or rotated by hand, unless two operations overlapped.
THEOREM PauseIsKept == Spec => []PauseStands
<1>1. Init => PauseInv
  BY DEF Init, PauseInv
<1>2. TypeInv /\ PauseInv => PauseStands
  BY DEF PauseInv, PauseStands, AtRest, Coroutine
<1>3. QED
  BY <1>1, <1>2, TypeInit, TypeStep, PauseStep, PTL DEF Spec

-----------------------------------------------------------------------------
(* The runs an agent is given.  In its present turn as the lane's agent they *)
(* are those the row counts and the one that is not counted yet; a turn that *)
(* is over had RunLimit of them at most.  A crash or a failed close while a  *)
(* run waits to be counted loses one.                                       *)

Listing(a) == {i \in DOMAIN row.prior : row.prior[i] = a}

Allowance(a) == Cardinality(Listing(a)) * RunLimit + Lost

Uncounted(o) == o.at \in {"running", "closing"}

Pending == \E c \in Coroutine : Uncounted(op[c])

Present(a) == IF row.current = a THEN row.runs + (IF Pending THEN 1 ELSE 0) ELSE 0

Within(a) ==
  /\ sends[a] <= Allowance(a) + RunLimit
  /\ sends[a] <= Allowance(a) + Present(a)

\* What an operation knows of the runs of the row it holds.
RunsHeld(o) ==
  /\ o.at \in Await => o.lane.runs = row.runs
  /\ o.at \in {"resuming", "sending"} => row.runs < RunLimit
  /\ o.at = "creating" => row.runs = 0
  /\ o.at = "closing" => row.current # NONE

RunsInv ==
  /\ \A c \in Coroutine : RunsHeld(op[c])
  /\ row = NONE => Len(sends) = 0
  /\ row # NONE => /\ row.current = NONE => row.runs = 0
                   /\ \A a \in DOMAIN sends : Within(a)

\* What a step of coroutine c does to them: it leaves the agents' runs alone and
\* forgets none that is not counted, gives one to the lane's agent, ends the
\* turn of the agent, or begins that of another.
Spares(c) ==
  /\ sends' = sends /\ Lost' >= Lost
  /\ row = NONE => row' = NONE \/ row' = NewLane
  /\ row # NONE =>
       /\ row' # NONE /\ row'.current = row.current /\ row'.prior = row.prior
       /\ \/ /\ row'.runs = row.runs
             /\ Uncounted(op[c]) => Uncounted(op'[c]) \/ Lost' > Lost
          \/ row'.runs = row.runs + 1 /\ row.current # NONE

Gives(c) ==
  /\ op[c].at = "sending" /\ op'[c].at = "running"
  /\ row' = row /\ Lost' = Lost
  /\ sends' = [sends EXCEPT ![row.current] = @ + 1]

Leaves(c) == Lists(c, op'[c]) /\ row'.runs = 0 /\ Lost' = Lost

Begins(c) ==
  /\ Takes(c, op'[c]) /\ row'.runs = row.runs
  /\ sends' = Append(sends, 0) /\ Lost' = Lost

Pays(c) == RunsHeld(op[c])' /\ (Spares(c) \/ Gives(c) \/ Leaves(c) \/ Begins(c))

\* The runs a row counts, after each change of it.
LEMMA RunsFacts ==
  ASSUME NEW r \in Row
  PROVE  /\ \A a \in Agent : Started(r, a).runs = r.runs
         /\ FailedOnce(r).runs = r.runs
         /\ Ended(r).runs = r.runs + 1
         /\ Rotated(r).runs = 0
         /\ \A what \in Edit : Edited(r, what).runs = r.runs
<1>1. \A a \in Agent : Started(r, a).runs = r.runs
  BY DEF Row, Started
<1>2. FailedOnce(r).runs = r.runs
  BY DEF Row, FailedOnce
<1>3. Ended(r).runs = r.runs + 1
  BY DEF Row, Ended
<1>4. Rotated(r).runs = 0
  BY DEF Row, Rotated
<1>5. \A what \in Edit : Edited(r, what).runs = r.runs
  BY DEF Row, Edited, Edit
<1>6. QED
  BY <1>1, <1>2, <1>3, <1>4, <1>5

\* An agent's turns are a number, and what they allow is one.
LEMMA AllowanceFacts ==
  ASSUME TypeInv, row # NONE, NEW a
  PROVE  /\ IsFiniteSet(Listing(a))
         /\ Cardinality(Listing(a)) \in Nat
         /\ Cardinality(Listing(a)) * RunLimit \in Nat
         /\ Allowance(a) = Cardinality(Listing(a)) * RunLimit + Lost
         /\ Lost \in Nat
<1>1. row.prior \in Seq(Agent)
  BY DEF TypeInv, TypeOK, Row
<1>2. IsFiniteSet(1..Len(row.prior)) /\ Listing(a) \subseteq 1..Len(row.prior)
  <2>1. Len(row.prior) \in Int /\ 1 \in Int /\ DOMAIN row.prior = 1..Len(row.prior)
    BY <1>1
  <2>2. IsFiniteSet(1..Len(row.prior))
    BY <2>1, FS_Interval
  <2>3. QED
    BY <2>1, <2>2 DEF Listing
<1>3. IsFiniteSet(Listing(a)) /\ Cardinality(Listing(a)) \in Nat
  BY <1>2, FS_Subset, FS_CardinalityType
<1>4. \A n \in Nat : n * RunLimit \in Nat
  BY LaneAgentsAssumption
<1>5. Lost \in Nat
  BY LostNow
<1>6. QED
  BY <1>3, <1>4, <1>5 DEF Allowance

\* The rows that other coroutines hold stay what they were, as in TurnKeeps.
LEMMA OthersHold ==
  ASSUME TypeInv, NEW c \in Coroutine, NEW o, Alone, Turn(c, o),
         \A d \in Coroutine : RunsHeld(op[d]), RunsHeld(op[c])'
  PROVE  \A d \in Coroutine : RunsHeld(op[d])'
<1> SUFFICES ASSUME NEW d \in Coroutine, d # c PROVE RunsHeld(op[d])'
  OBVIOUS
<1>1. op'[d] = op[d] /\ RunsHeld(op[d])
  BY DEF Turn, TypeInv, TypeOK
<1>2. CASE InOperation(c) \/ ~Overlaps(c)
  <2>1. op[d].at \notin Await
    BY <1>2 DEF Alone, Overlaps, InOperation
  <2>2. QED
    BY <1>1, <2>1 DEF RunsHeld, Await
<1>3. CASE row' = row
  BY <1>1, <1>3 DEF RunsHeld
<1>4. QED
  BY <1>2, <1>3 DEF Turn

\* A step that gives no run and ends no turn forgets no run that is not counted.
LEMMA SparesKeep ==
  ASSUME TypeInv, TypeInv', NEW c \in Coroutine, op' = [op EXCEPT ![c] = op'[c]],
         RunsInv, Spares(c)
  PROVE  /\ row' = NONE => Len(sends') = 0
         /\ row' # NONE => \A a \in DOMAIN sends' : Within(a)'
<1>1. CASE row = NONE
  <2>1. sends' = sends /\ Len(sends) = 0 /\ sends \in Seq(Nat)
    BY <1>1 DEF Spares, RunsInv, TypeInv, TypeOK
  <2>2. DOMAIN sends' = {} /\ Len(sends') = 0
    BY <2>1
  <2>3. QED
    BY <2>2
<1>2. CASE row # NONE
  <2> SUFFICES ASSUME NEW a \in DOMAIN sends' PROVE row' # NONE /\ Within(a)'
    BY <1>2 DEF Spares
  <2> DEFINE n == Cardinality(Listing(a)) * RunLimit
  <2>1. /\ row' # NONE /\ row'.current = row.current /\ row'.prior = row.prior
        /\ sends' = sends /\ Lost' >= Lost
    BY <1>2 DEF Spares
  <2>2. n \in Nat /\ Allowance(a) = n + Lost /\ Lost \in Nat
    BY <1>2, AllowanceFacts
  <2>3. Listing(a)' = Listing(a)
    BY <2>1 DEF Listing
  <2>4. Allowance(a)' = n + Lost' /\ Lost' \in Nat
    <3>1. Lost' \in Nat
      BY LostNext
    <3>2. Allowance(a)' = n + Lost'
      BY <2>3 DEF Allowance
    <3>3. QED
      BY <3>1, <3>2
  <2> HIDE DEF n
  <2>5. Within(a) /\ sends[a] \in Nat
    <3>1. a \in DOMAIN sends
      BY <2>1
    <3>2. QED
      BY <1>2, <3>1, SendsFacts DEF RunsInv
  <2>6. row.runs \in Nat /\ row'.runs \in Nat /\ RunLimit \in Nat
    BY <1>2, <2>1, LaneAgentsAssumption DEF TypeInv, TypeOK, Row
  <2>7. Lost' + Present(a)' >= Lost + Present(a)
    <3>1. CASE row.current # a
      <4>1. Present(a) = 0 /\ Present(a)' = 0
        BY <2>1, <3>1 DEF Present
      <4>2. Lost \in Nat /\ Lost' \in Nat /\ Lost' >= Lost
        BY <2>1, <2>2, <2>4
      <4> DEFINE x == Lost  y == Lost'  k == Present(a)  l == Present(a)'
      <4>3. x \in Nat /\ y \in Nat /\ y >= x /\ k = 0 /\ l = 0
        BY <4>1, <4>2
      <4> HIDE DEF x, y, k, l
      <4>4. y + l >= x + k
        BY <4>3
      <4> USE DEF x, y, k, l
      <4>5. QED
        BY <4>4
    <3>2. CASE row.current = a /\ row'.runs = row.runs + 1
      BY <2>1, <2>2, <2>4, <2>6, <3>2 DEF Present
    <3>3. CASE row.current = a /\ row'.runs = row.runs /\ Lost' > Lost
      BY <2>1, <2>2, <2>4, <2>6, <3>3 DEF Present
    <3>4. CASE /\ row.current = a /\ row'.runs = row.runs
               /\ Uncounted(op[c]) => Uncounted(op'[c])
      <4>1. Pending => Pending'
        <5> SUFFICES ASSUME NEW d \in Coroutine, Uncounted(op[d]) PROVE Pending'
          BY DEF Pending
        <5>1. CASE d = c
          BY <3>4, <5>1 DEF Pending, Uncounted
        <5>2. CASE d # c
          <6>1. op'[d] = op[d]
            BY <5>2 DEF TypeInv, TypeOK
          <6>2. QED
            BY <6>1 DEF Pending, Uncounted
        <5>3. QED
          BY <5>1, <5>2
      <4>2. QED
        BY <2>1, <2>2, <2>4, <2>6, <3>4, <4>1 DEF Present
    <3>5. QED
      BY <1>2, <3>1, <3>2, <3>3, <3>4 DEF Spares
  <2>8. Present(a) \in Nat /\ Present(a)' \in Nat
    BY <2>6 DEF Present
  <2> HIDE DEF Present
  <2>9. QED
    BY <2>1, <2>2, <2>4, <2>5, <2>6, <2>7, <2>8 DEF Within
<1>3. QED
  BY <1>1, <1>2

\* While a coroutine is in an operation, no other has a run that is not counted.
LEMMA PendingFacts ==
  ASSUME Alone, NEW c \in Coroutine, InOperation(c)
  PROVE  Pending => Uncounted(op[c])
BY DEF Alone, InOperation, Pending, Uncounted, Await

\* A run is given to an agent that has not had all it may have.
LEMMA GivesKeep ==
  ASSUME TypeInv, TypeInv', NEW c \in Coroutine, Alone, Agreed, RunsInv, Gives(c)
  PROVE  row' # NONE /\ \A a \in DOMAIN sends' : Within(a)'
<1>1. InOperation(c) /\ ~Uncounted(op[c])
  BY DEF Gives, InOperation, Await, Uncounted
<1>2. row # NONE /\ row' = row /\ row.runs < RunLimit /\ row.runs \in Nat /\ RunLimit \in Nat
  BY <1>1, LaneAgentsAssumption DEF Agreed, Gives, RunsInv, RunsHeld, TypeInv, TypeOK, Row
<1>3. ~Pending /\ Pending'
  <2>1. ~Pending
    BY <1>1, PendingFacts
  <2>2. Pending'
    BY DEF Gives, Pending, Uncounted
  <2>3. QED
    BY <2>1, <2>2
<1> SUFFICES ASSUME NEW a \in DOMAIN sends' PROVE Within(a)'
  BY <1>2
<1> DEFINE n == Cardinality(Listing(a)) * RunLimit
<1>4. n \in Nat /\ Allowance(a) = n + Lost /\ Lost \in Nat
  BY <1>2, AllowanceFacts
<1>5. Allowance(a)' = n + Lost
  BY <1>2 DEF Allowance, Listing, Gives
<1> HIDE DEF n
<1>6. /\ a \in DOMAIN sends /\ sends[a] \in Nat
      /\ sends'[a] = sends[a] + IF a = row.current THEN 1 ELSE 0
  <2>1. sends \in [1..Len(sends) -> Nat] /\ sends' = [sends EXCEPT ![row.current] = @ + 1]
    <3>1. sends \in Seq(Nat)
      BY DEF TypeInv, TypeOK
    <3>2. QED
      BY <3>1 DEF Gives
  <2>2. DOMAIN sends = 1..Len(sends) /\ DOMAIN sends' = 1..Len(sends)
    <3> DEFINE t == [sends EXCEPT ![row.current] = @ + 1]
    <3>1. DOMAIN sends = 1..Len(sends) /\ DOMAIN t = DOMAIN sends
      BY <2>1
    <3>2. QED
      BY <2>1, <3>1
  <2>3. sends[a] \in Nat /\ sends'[a] = IF a = row.current THEN sends[a] + 1 ELSE sends[a]
    BY <2>1, <2>2
  <2>4. QED
    BY <2>2, <2>3
<1>7. Within(a)
  BY <1>2, <1>6 DEF RunsInv
<1>8. CASE row.current # a
  BY <1>2, <1>4, <1>5, <1>6, <1>7, <1>8 DEF Within, Present
<1>9. CASE row.current = a
  <2>1. Present(a) = row.runs /\ Present(a)' = row.runs + 1
    BY <1>2, <1>3, <1>9 DEF Present
  <2>2. QED
    BY <1>2, <1>4, <1>5, <1>6, <1>7, <1>9, <2>1 DEF Within
<1>10. QED
  BY <1>8, <1>9

\* One more turn allows RunLimit more.
LEMMA OneMore ==
  ASSUME NEW k \in Nat
  PROVE  (k + 1) * RunLimit = k * RunLimit + RunLimit
BY LaneAgentsAssumption

\* An agent that leaves has its turn listed.
LEMMA LeavesKeep ==
  ASSUME TypeInv, TypeInv', NEW c \in Coroutine, Agreed, RunsInv, Leaves(c)
  PROVE  row' # NONE /\ \A a \in DOMAIN sends' : Within(a)'
<1>1. /\ row # NONE /\ row' # NONE /\ row'.current = row.current /\ sends' = sends
      /\ row'.runs = 0 /\ Lost' = Lost
  BY DEF Leaves, Lists, Agreed
<1> SUFFICES ASSUME NEW a \in DOMAIN sends' PROVE Within(a)'
  BY <1>1
<1> DEFINE n == Cardinality(Listing(a)) * RunLimit
           m == Cardinality(Listing(a)') * RunLimit
<1>2. /\ n \in Nat /\ Allowance(a) = n + Lost /\ Lost \in Nat
      /\ Cardinality(Listing(a)) \in Nat /\ IsFiniteSet(Listing(a))
  BY <1>1, AllowanceFacts
<1>3. Allowance(a)' = m + Lost
  BY <1>1 DEF Allowance
<1>4. /\ row.prior \in Seq(Agent) /\ row.current \in Agent \cup {NONE} /\ row.runs \in Nat
      /\ RunLimit \in Nat
  BY <1>1, LaneAgentsAssumption DEF TypeInv, TypeOK, Row
<1>5. a \in Nat /\ a # NONE /\ sends[a] \in Nat /\ Within(a)
  <2>1. a \in DOMAIN sends
    BY <1>1
  <2>2. QED
    BY <1>1, <2>1, SendsFacts DEF RunsInv
<1>6. CASE row.current # a
  <2>1. Listing(a)' = Listing(a)
    <3>1. CASE row.current = NONE
      BY <1>1, <3>1 DEF Leaves, Lists, Listing
    <3>2. CASE row.current # NONE
      <4>1. row'.prior = Append(row.prior, row.current)
        BY <3>2 DEF Leaves, Lists
      <4>2. /\ DOMAIN row.prior = 1..Len(row.prior) /\ Len(row.prior) \in Nat
            /\ DOMAIN row'.prior = 1..(Len(row.prior) + 1)
            /\ row'.prior[Len(row.prior) + 1] = row.current
            /\ \A i \in 1..Len(row.prior) : row'.prior[i] = row.prior[i]
        BY <1>4, <3>2, <4>1
      <4>3. QED
        BY <1>6, <4>2 DEF Listing
    <3>3. QED
      BY <3>1, <3>2
  <2>2. m = n
    BY <2>1
  <2> HIDE DEF n, m
  <2>3. Present(a) = 0 /\ Present(a)' = 0
    BY <1>1, <1>6 DEF Present
  <2>4. QED
    BY <1>1, <1>2, <1>3, <1>4, <1>5, <2>2, <2>3 DEF Within
<1>7. CASE row.current = a
  <2> DEFINE k == Len(row.prior)
  <2>1. row'.prior = Append(row.prior, a) /\ row.current \in Agent
    BY <1>4, <1>5, <1>7 DEF Leaves, Lists
  <2>2. k + 1 \notin Listing(a)
    BY <1>4 DEF Listing
  <2>3. Listing(a)' = Listing(a) \cup {k + 1}
    BY <1>4, <1>7, <2>1 DEF Listing
  <2>4. Cardinality(Listing(a)') = Cardinality(Listing(a)) + 1
    BY <1>2, <2>2, <2>3, FS_AddElement
  <2>5. m = n + RunLimit
    BY <1>2, <2>4, OneMore
  <2> HIDE DEF n, m
  <2>6. Present(a)' \in Nat
    BY <1>1 DEF Present
  <2>7. QED
    BY <1>1, <1>2, <1>3, <1>4, <1>5, <2>5, <2>6 DEF Within
<1>8. QED
  BY <1>6, <1>7

\* A new agent has had no run, and the one it replaces none in a turn that was
\* not listed.
LEMMA BeginsKeep ==
  ASSUME TypeInv, TypeInv', NEW c \in Coroutine, Alone, Agreed, RunsInv, Begins(c)
  PROVE  row' # NONE /\ \A a \in DOMAIN sends' : Within(a)'
<1>1. InOperation(c) /\ op[c].at = "creating" /\ ~Uncounted(op[c])
  BY DEF Begins, Takes, InOperation, Await, Uncounted
<1>2. /\ row # NONE /\ row' # NONE /\ row.runs = 0 /\ row'.runs = 0 /\ ~Pending
      /\ row'.prior = row.prior /\ Lost' = Lost /\ sends' = Append(sends, 0)
  BY <1>1, PendingFacts DEF Agreed, Begins, Takes, RunsInv, RunsHeld
<1> SUFFICES ASSUME NEW a \in DOMAIN sends' PROVE Within(a)'
  BY <1>2
<1> DEFINE n == Cardinality(Listing(a)) * RunLimit
<1>3. n \in Nat /\ Allowance(a) = n + Lost /\ Lost \in Nat /\ RunLimit \in Nat
  BY <1>2, AllowanceFacts, LaneAgentsAssumption
<1>4. Allowance(a)' = n + Lost
  BY <1>2 DEF Allowance, Listing
<1> HIDE DEF n
<1>5. Present(a)' \in Nat
  BY <1>2 DEF Present
<1>6. /\ DOMAIN sends = 1..Len(sends) /\ Len(sends) \in Nat
      /\ DOMAIN sends' = 1..(Len(sends) + 1) /\ sends'[Len(sends) + 1] = 0
      /\ \A b \in 1..Len(sends) : sends'[b] = sends[b] /\ sends[b] \in Nat
  <2>1. sends \in Seq(Nat)
    BY DEF TypeInv, TypeOK
  <2>2. QED
    BY <1>2, <2>1
<1>7. CASE a \in DOMAIN sends
  <2>1. sends'[a] = sends[a] /\ sends[a] \in Nat /\ Within(a)
    BY <1>2, <1>7, <1>6 DEF RunsInv
  <2>2. Present(a) = 0
    BY <1>2 DEF Present
  <2>3. QED
    BY <1>3, <1>4, <1>5, <2>1, <2>2 DEF Within
<1>8. CASE a \notin DOMAIN sends
  <2>1. sends'[a] = 0
    BY <1>8, <1>6
  <2>2. QED
    BY <1>3, <1>4, <1>5, <2>1 DEF Within
<1>9. QED
  BY <1>7, <1>8

\* A step of a coroutine keeps the count of runs.
LEMMA PaysKeeps ==
  ASSUME TypeInv, TypeInv', NEW c \in Coroutine, NEW o, LineInv, Turn(c, o), RunsInv, Pays(c)
  PROVE  RunsInv'
<1>1. Alone /\ Agreed
  BY DEF LineInv
<1>2. op' = [op EXCEPT ![c] = op'[c]]
  BY DEF Turn, TypeInv, TypeOK
<1>3. \A d \in Coroutine : RunsHeld(op[d])'
  BY <1>1, OthersHold DEF RunsInv, Pays
<1>4. /\ row' = NONE => Len(sends') = 0
      /\ row' # NONE => \A a \in DOMAIN sends' : Within(a)'
  BY <1>1, <1>2, SparesKeep, GivesKeep, LeavesKeep, BeginsKeep DEF Pays
<1>5. row' # NONE /\ row'.current = NONE => row'.runs = 0
  <2> SUFFICES ASSUME row' # NONE, row'.current = NONE PROVE row'.runs = 0
    OBVIOUS
  <2>1. CASE Spares(c)
    BY <2>1 DEF Spares, RunsInv, NewLane
  <2>2. CASE Gives(c)
    BY <2>2 DEF Gives, RunsInv
  <2>3. CASE Leaves(c)
    BY <2>3 DEF Leaves
  <2>4. CASE Begins(c)
    <3>1. row'.current \in Nat
      BY <2>4 DEF Begins, Takes, TypeInv, TypeOK
    <3>2. QED
      BY <3>1, LaneAgentsAssumption
  <2>5. QED
    BY <2>1, <2>2, <2>3, <2>4 DEF Pays
<1>6. QED
  BY <1>3, <1>4, <1>5 DEF RunsInv

-----------------------------------------------------------------------------
(* What each action does to the runs.                                      *)

\* An execution that ends waits to be counted, if the lane has an agent.
LEMMA FinishHolds ==
  ASSUME TypeInv, NEW c \in Coroutine, NEW left \in Nat, FinishTask(c, row', left)
  PROVE  /\ RunsHeld(op[c])'
         /\ row' # NONE /\ row'.current # NONE => Uncounted(op'[c])
<1>1. op \in [Coroutine -> Operation]
  BY DEF TypeInv, TypeOK
<1>2. CASE row' # NONE /\ row'.current # NONE
  <2>1. op'[c].at = "closing" /\ op'[c].lane = row'
    BY <1>1, <1>2 DEF FinishTask
  <2>2. QED
    BY <1>2, <2>1 DEF RunsHeld, Uncounted
<1>3. CASE ~(row' # NONE /\ row'.current # NONE)
  <2>1. op'[c] = NextTask(left)
    BY <1>1, <1>3 DEF FinishTask
  <2>2. op'[c].at \in {"idle", "batch"}
    BY <2>1, NextFacts
  <2>3. QED
    BY <1>3, <2>2 DEF RunsHeld, Await
<1>4. QED
  BY <1>2, <1>3

\* A rotation begins with the row it was given.
LEMMA BeginHolds ==
  ASSUME TypeInv, NEW c \in Coroutine, NEW why, NEW left, BeginRotation(c, row', why, left)
  PROVE  RunsHeld(op[c])'
<1>1. op'[c].at = "disposing" /\ op'[c].lane = row'
  BY DEF BeginRotation, TypeInv, TypeOK
<1>2. QED
  BY <1>1 DEF RunsHeld

\* A step that makes sure of the row, or fails, outside a run.
LEMMA StillPays ==
  ASSUME TypeInv, NEW c \in Coroutine, RunsHeld(op[c])',
         row = NONE => row' = NONE \/ row' = NewLane,
         row # NONE => row' # NONE /\ SameLine(row', row) /\ row'.runs = row.runs,
         sends' = sends, Lost' \in Nat, Lost' >= Lost,
         Uncounted(op[c]) => Uncounted(op'[c]) \/ Lost' > Lost
  PROVE  Pays(c)
BY DEF Pays, Spares, SameLine

\* A task starts: an agent that has had RunLimit runs is left.
LEMMA StartTaskPays ==
  ASSUME TypeInv, NEW r \in Run, RunsInv, StartTask(r)
  PROVE  Pays(r)
<1> DEFINE lane == EnsureLane(row)
           left == op[r].left - 1
<1>1. /\ r \in Coroutine /\ op[r].at = "batch" /\ op \in [Coroutine -> Operation]
      /\ spent \in Spent
  BY RestFacts DEF Coroutine, TypeInv, TypeOK, StartTask
<1>2. row' = lane
  BY DEF StartTask
<1>3. /\ lane \in Row /\ row' # NONE
      /\ row = NONE => row' = NewLane
      /\ row # NONE => row' = row /\ SameLine(row', row)
  BY <1>2, EnsuredFacts DEF SameLine
<1>4. lane.runs \in Nat /\ RunLimit \in Nat
  BY <1>3, LaneAgentsAssumption DEF Row
<1>5. sends' = sends /\ Lost' \in Nat /\ Lost' >= Lost
  <2>1. PICK other \in BOOLEAN :
          spent' = [spent EXCEPT !.tasks = @ + 1, !.others = @ + IF other THEN 1 ELSE 0]
    BY DEF StartTask
  <2>2. spent'.crashes = spent.crashes /\ spent'.closes = spent.closes
    BY <1>1, <2>1, TaskType
  <2>3. Lost' = Lost /\ Lost \in Nat
    BY <1>1, <2>2 DEF Lost, Spent
  <2>4. QED
    BY <2>3 DEF StartTask
<1>6. lane.current = NONE => lane.runs = 0
  BY <1>2, <1>3 DEF RunsInv, NewLane
<1> HIDE DEF lane, left
<1>7. RunsHeld(op[r])'
  <2>1. CASE BeginRotation(r, lane, "limit", left)
    BY <1>1, <1>2, <2>1, BeginHolds
  <2>2. ASSUME NEW at \in {"creating", "resuming"},
               at = "creating" => lane.runs = 0, at = "resuming" => lane.runs < RunLimit,
               op' = [op EXCEPT ![r] = [at |-> at, left |-> left, lane |-> lane,
                                        agent |-> NONE, why |-> "none"]]
        PROVE  RunsHeld(op[r])'
    <3>1. op'[r].at = at /\ op'[r].lane = lane
      BY <1>1, <2>2
    <3>2. QED
      BY <1>2, <2>2, <3>1 DEF RunsHeld
  <2>3. CASE lane.current = NONE
    BY <1>6, <2>2, <2>3 DEF StartTask, lane, left
  <2>4. CASE lane.current # NONE /\ lane.runs >= RunLimit
    <3>1. \A other \in BOOLEAN : MustRotate(lane, other)
      BY <2>4 DEF MustRotate
    <3>2. QED
      BY <2>1, <2>4, <3>1 DEF StartTask, lane, left
  <2>5. CASE lane.current # NONE /\ lane.runs < RunLimit
    BY <2>1, <2>2, <2>5 DEF StartTask, lane, left
  <2>6. QED
    BY <1>4, <2>3, <2>4, <2>5
<1>8. ~Uncounted(op[r])
  BY <1>1 DEF Uncounted
<1>9. QED
  BY <1>1, <1>3, <1>5, <1>7, <1>8, StillPays

\* The other steps of an execution.
LEMMA RunPays ==
  ASSUME TypeInv, TypeInv', NEW r \in Run, LineInv, RunsInv, RunStep(r)
  PROVE  Pays(r)
<1>0. /\ r \in Coroutine /\ op[r] \in Operation /\ HoldsRow(op[r])
      /\ op \in [Coroutine -> Operation]
      /\ op[r].left \in Nat /\ Lost \in Nat /\ Lost' \in Nat
      /\ row \in Row \cup {NONE} /\ row' \in Row \cup {NONE}
  <2>1. r \in Coroutine /\ op \in [Coroutine -> Operation] /\ \A c \in Coroutine : HoldsRow(op[c])
    BY DEF Coroutine, TypeInv, TypeOK
  <2>2. op[r] \in Operation /\ op[r].left \in Nat
    BY <2>1 DEF Operation
  <2>3. row' \in Row \cup {NONE}
    BY DEF TypeInv, TypeOK
  <2>4. QED
    BY <2>1, <2>2, <2>3, RestFacts, LostNow, LostNext
<1>1. Alone /\ Agreed /\ Owned /\ RunsHeld(op[r])
  BY <1>0 DEF LineInv, RunsInv
<1>2. InOperation(r) => row # NONE /\ SameLine(op[r].lane, row) /\ op[r].lane.runs = row.runs
  BY <1>0, <1>1 DEF Agreed, RunsHeld, InOperation
<1>3. ASSUME row = NONE => row' = NONE, row # NONE => row' = row, RunsHeld(op[r])',
             sends' = sends, Lost' = Lost, Uncounted(op[r]) => Uncounted(op'[r])
      PROVE  Pays(r)
  <2>1. row # NONE => row' # NONE /\ SameLine(row', row) /\ row'.runs = row.runs
    BY <1>3 DEF SameLine
  <2>2. Lost' >= Lost
    BY <1>0, <1>3
  <2>3. QED
    BY <1>0, <1>3, <2>1, <2>2, StillPays
<1>4. CASE StartBatch(r)
  <2>1. PICK n \in 1..MaxBatch : op' = [op EXCEPT ![r] = [Resting EXCEPT !.at = "batch", !.left = n]]
    BY <1>4 DEF StartBatch
  <2>2. op'[r].at = "batch"
    BY <1>0, <2>1 DEF Resting
  <2>3. RunsHeld(op[r])' /\ ~Uncounted(op[r])
    BY <1>4, <2>2 DEF RunsHeld, Await, StartBatch, Uncounted
  <2>4. row' = row /\ sends' = sends /\ Lost' = Lost
    BY <1>4 DEF StartBatch, history, Lost
  <2>5. QED
    BY <1>3, <2>3, <2>4
<1>5. CASE StartTask(r)
  BY <1>5, StartTaskPays
<1>6. CASE BuildFails(r)
  <2>1. op[r].at = "batch" /\ op[r].left - 1 \in Nat /\ ~Uncounted(op[r])
    BY <1>0, <1>6 DEF BuildFails, HoldsRow, Uncounted
  <2>2. /\ row = NONE => row' = NewLane
        /\ row # NONE => row' # NONE /\ row' = row /\ SameLine(row', row)
    BY <1>6, EnsuredFacts DEF BuildFails, SameLine
  <2>3. RunsHeld(op[r])'
    BY <1>0, <1>6, <2>1, FinishHolds DEF BuildFails
  <2>4. sends' = sends /\ Lost' >= Lost
    BY <1>0, <1>6 DEF BuildFails, Lost
  <2>5. QED
    BY <1>0, <2>1, <2>2, <2>3, <2>4, StillPays
<1>7. CASE ResumeSucceeds(r)
  <2> DEFINE old == op[r].lane
             new == Started(old, old.current)
  <2>1. /\ old \in Row /\ old.current \in Agent /\ InOperation(r) /\ op[r].at = "resuming"
        /\ ~Uncounted(op[r])
    BY <1>0, <1>7 DEF ResumeSucceeds, HoldsRow, Operation, Await, Row, InOperation, Uncounted
  <2>2. /\ new \in Row /\ new.current = old.current /\ new.prior = old.prior
        /\ new # NONE /\ new.runs = old.runs
    BY <2>1, StartedFacts, RunsFacts, LaneAgentsAssumption
  <2>3. /\ row' = new /\ sends' = sends /\ Lost' = Lost
        /\ op' = [op EXCEPT ![r] = Sending(op[r], new, new.current)]
    BY <1>7 DEF ResumeSucceeds, Sending, Lost
  <2> HIDE DEF new
  <2>4. op'[r].at = "sending" /\ op'[r].lane = new
    <3>1. new.current \in Agent /\ op[r] \in Operation /\ new \in Row
      BY <1>0, <2>1, <2>2
    <3>2. QED
      BY <1>0, <2>3, <3>1, SendingFacts
  <2>5. old.runs = row.runs /\ row.runs < RunLimit /\ SameLine(old, row) /\ row # NONE
    BY <1>1, <1>2, <2>1 DEF RunsHeld
  <2> HIDE DEF old
  <2>6. RunsHeld(op[r])'
    BY <2>2, <2>3, <2>4, <2>5 DEF RunsHeld
  <2>7. /\ row' # NONE /\ row'.current = row.current /\ row'.prior = row.prior
        /\ row'.runs = row.runs
    BY <2>2, <2>3, <2>5 DEF SameLine
  <2>8. Lost' >= Lost
    BY <1>0, <2>3
  <2>9. QED
    BY <2>1, <2>3, <2>5, <2>6, <2>7, <2>8 DEF Pays, Spares
<1>8. CASE ResumeFails(r)
  <2>1. InOperation(r) /\ op[r].at = "resuming" /\ ~Uncounted(op[r])
    BY <1>8 DEF ResumeFails, InOperation, Await, Uncounted
  <2>2. row # NONE /\ row \in Row /\ row' = FailedOnce(row)
    BY <1>0, <1>2, <1>8, <2>1, EnsureFacts DEF ResumeFails
  <2>3. /\ row' \in Row /\ row' # NONE /\ row'.current = row.current
        /\ row'.prior = row.prior /\ row'.runs = row.runs
    BY <2>2, FailedFacts, RunsFacts, LaneAgentsAssumption
  <2>4. sends' = sends /\ Lost' >= Lost
    BY <1>0, <1>8 DEF ResumeFails, Lost
  <2>5. RunsHeld(op[r])'
    BY <1>0, <1>8, FinishHolds, BeginHolds DEF ResumeFails
  <2>6. QED
    BY <2>1, <2>2, <2>3, <2>4, <2>5 DEF Pays, Spares
<1>9. CASE SendAccepted(r)
  <2>1. InOperation(r) /\ op[r].at = "sending" /\ op[r].agent = row.current
    BY <1>0, <1>1, <1>9 DEF SendAccepted, InOperation, Await, Owned
  <2>2. op'[r].at = "running" /\ op'[r].lane = op[r].lane
    BY <1>0, <1>9 DEF SendAccepted, Operation
  <2>3. /\ row' = row /\ Lost' = Lost
        /\ sends' = [sends EXCEPT ![row.current] = @ + 1]
    BY <1>9, <2>1 DEF SendAccepted, Lost
  <2>4. RunsHeld(op[r])'
    BY <1>2, <2>1, <2>2, <2>3 DEF RunsHeld
  <2>5. Gives(r)
    BY <2>1, <2>2, <2>3 DEF Gives
  <2>6. QED
    BY <2>4, <2>5 DEF Pays
<1>10. CASE SendBusy(r)
  <2>1. InOperation(r) /\ ~Uncounted(op[r])
    BY <1>10 DEF SendBusy, InOperation, Await, Uncounted
  <2>2. row # NONE /\ row' = row
    BY <1>0, <1>2, <1>10, <2>1, EnsureFacts DEF SendBusy
  <2>3. RunsHeld(op[r])'
    BY <1>0, <1>10, BeginHolds DEF SendBusy
  <2>4. sends' = sends /\ Lost' = Lost
    BY <1>10 DEF SendBusy, history, Lost
  <2>5. QED
    BY <1>3, <2>1, <2>2, <2>3, <2>4
<1>11. CASE StartBreaks(r) \/ RunEnds(r)
  <2>1. InOperation(r)
    BY <1>11 DEF StartBreaks, RunEnds, InOperation, Await
  <2>2. row' = row /\ sends' = sends /\ Lost' = Lost /\ row # NONE
    BY <1>2, <1>11, <2>1 DEF StartBreaks, RunEnds, history, Lost
  <2>3. FinishTask(r, row', op[r].left)
    BY <1>11, <2>2 DEF StartBreaks, RunEnds
  <2>4. RunsHeld(op[r])'
    BY <1>0, <2>3, FinishHolds
  <2>5. Uncounted(op[r]) => row.current # NONE
    <3> SUFFICES ASSUME Uncounted(op[r]) PROVE row.current # NONE
      OBVIOUS
    <3>1. op[r].at = "running"
      BY <1>11 DEF StartBreaks, RunEnds, Uncounted
    <3>2. row.current \in live[ProcOf[r]]
      BY <1>0, <1>1, <3>1 DEF Owned
    <3>3. live[ProcOf[r]] \subseteq Agent
      BY <1>0, ProcFacts DEF TypeInv, TypeOK
    <3>4. QED
      BY <3>2, <3>3, LaneAgentsAssumption DEF Agent
  <2>6. Uncounted(op[r]) => Uncounted(op'[r])
    BY <1>0, <2>2, <2>3, <2>5, FinishHolds
  <2>7. QED
    BY <1>3, <2>2, <2>4, <2>6
<1>12. CASE Closed(r)
  <2>1. InOperation(r) /\ op[r].at = "closing" /\ op[r].lane \in Row
    BY <1>0, <1>12 DEF Closed, InOperation, Await, HoldsRow, Operation
  <2>2. /\ row # NONE /\ SameLine(op[r].lane, row) /\ row' = Ended(op[r].lane)
        /\ op[r].lane.runs = row.runs /\ row.current # NONE
    BY <1>1, <1>2, <1>12, <2>1 DEF Closed, RunsHeld
  <2>3. /\ row' # NONE /\ row'.current = row.current /\ row'.prior = row.prior
        /\ row'.runs = row.runs + 1
    BY <2>1, <2>2, EndedFacts, RunsFacts, LaneAgentsAssumption DEF SameLine
  <2>4. op'[r].at \in {"idle", "batch"}
    BY <1>0, <1>12, NextFacts DEF Closed
  <2>5. RunsHeld(op[r])'
    BY <2>4 DEF RunsHeld, Await
  <2>6. sends' = sends /\ Lost' >= Lost
    BY <1>0, <1>12 DEF Closed, history, Lost
  <2>7. QED
    BY <2>2, <2>3, <2>5, <2>6 DEF Pays, Spares
<1>13. QED
  BY <1>4, <1>5, <1>6, <1>7, <1>8, <1>9, <1>10, <1>11, <1>12 DEF RunStep

\* The steps of a rotation.
LEMMA RotationPays ==
  ASSUME TypeInv, TypeInv', NEW c \in Coroutine, LineInv, RunsInv, RotationStep(c)
  PROVE  Pays(c)
<1>0. /\ op[c] \in Operation /\ HoldsRow(op[c]) /\ op \in [Coroutine -> Operation]
      /\ Lost \in Nat /\ Lost' \in Nat /\ spent \in Spent
      /\ row \in Row \cup {NONE} /\ op[c].left \in Nat /\ sends \in Seq(Nat)
  <2>1. Lost \in Nat /\ Lost' \in Nat
    BY LostNow, LostNext
  <2>2. op[c].left \in Nat
    BY DEF TypeInv, TypeOK, Operation
  <2>3. QED
    BY <2>1, <2>2, RestFacts DEF TypeInv, TypeOK
<1>1. Alone /\ Agreed /\ RunsHeld(op[c])
  BY DEF LineInv, RunsInv
<1>2. InOperation(c) => row # NONE /\ SameLine(op[c].lane, row) /\ op[c].lane.runs = row.runs
  BY <1>1 DEF Agreed, RunsHeld, InOperation
<1>3. Resting.at = "idle"
  BY DEF Resting
\* A step that saves nothing and loses a run at most.
<1>4. ASSUME InOperation(c), row' = row, sends' = sends, Lost' >= Lost,
             Uncounted(op[c]) => Lost' > Lost,
             \/ op' = [op EXCEPT ![c] = Resting]
             \/ FinishTask(c, row, op[c].left)
      PROVE  Pays(c)
  <2>1. RunsHeld(op[c])'
    <3>1. CASE op' = [op EXCEPT ![c] = Resting]
      BY <1>0, <1>3, <3>1 DEF RunsHeld, Await
    <3>2. CASE FinishTask(c, row, op[c].left)
      BY <1>0, <1>4, <3>2, FinishHolds
    <3>3. QED
      BY <1>4, <3>1, <3>2
  <2>2. row # NONE => row' # NONE /\ SameLine(row', row) /\ row'.runs = row.runs
    BY <1>4 DEF SameLine
  <2>3. QED
    BY <1>0, <1>4, <2>1, <2>2, StillPays
<1>5. CASE Disposed(c)
  <2> DEFINE old == op[c].lane
  <2>1. InOperation(c) /\ old \in Row
    BY <1>0, <1>5 DEF Disposed, HoldsRow, Operation, Await, InOperation
  <2>2. row # NONE /\ SameLine(old, row)
    BY <1>2, <2>1
  <2>3. /\ row' = Rotated(old) /\ sends' = sends /\ known' = known /\ Lost' = Lost
        /\ op' = [op EXCEPT ![c] = [op[c] EXCEPT !.at = "creating", !.lane = row']]
    BY <1>5 DEF Disposed, Lost
  <2> HIDE DEF old
  <2>4. /\ row' \in Row /\ row' # NONE /\ row'.current = old.current /\ row'.runs = 0
        /\ old.current = NONE => row'.prior = old.prior
        /\ old.current # NONE => row'.prior = Append(old.prior, old.current)
    BY <2>1, <2>3, RotatedFacts, RunsFacts, LaneAgentsAssumption
  <2>5. op'[c].at = "creating" /\ op'[c].lane = row'
    BY <1>0, <2>3, <2>4, CreatingFacts
  <2>6. RunsHeld(op[c])'
    BY <2>4, <2>5 DEF RunsHeld
  <2>7. Leaves(c)
    BY <2>1, <2>2, <2>3, <2>4 DEF Leaves, Lists, SameLine
  <2>8. QED
    BY <2>6, <2>7 DEF Pays
<1>6. CASE CloseFails(c)
  <2>1. InOperation(c) /\ row' = row /\ sends' = sends
    BY <1>6 DEF CloseFails, InOperation, Await, history
  <2>2. Lost' = Lost + 1
    BY <1>0, <1>6, UpsetType DEF CloseFails, Lost
  <2>3. Lost' >= Lost /\ Lost' > Lost
    BY <1>0, <2>2
  <2>4. \/ op' = [op EXCEPT ![c] = Resting]
        \/ FinishTask(c, row, op[c].left)
    BY <1>6 DEF CloseFails
  <2>5. QED
    BY <1>4, <2>1, <2>3, <2>4
<1>7. CASE Created(c)
  <2> DEFINE a == Len(sends) + 1
             new == Started(op[c].lane, a)
             sent == Sending(op[c], new, a)
  <2>1. InOperation(c) /\ op[c].lane \in Row /\ op[c].at = "creating"
    BY <1>0, <1>7 DEF Created, HoldsRow, Operation, Await, InOperation
  <2>2. a \in Agent
    BY <1>0 DEF Agent
  <2>3. row # NONE /\ SameLine(op[c].lane, row) /\ op[c].lane.runs = row.runs /\ row.runs = 0
    BY <1>1, <1>2, <2>1 DEF RunsHeld
  <2>4. /\ new \in Row /\ new # NONE /\ new.current = a
        /\ new.prior = op[c].lane.prior /\ new.runs = op[c].lane.runs
    BY <2>1, <2>2, StartedFacts, RunsFacts, LaneAgentsAssumption
  <2>5. /\ row' = new /\ sends' = Append(sends, 0) /\ known' = known \cup {a}
        /\ op' = [op EXCEPT ![c] = IF c \in Hand THEN Resting ELSE sent]
        /\ Lost' = Lost
    BY <1>7 DEF Created, Sending, Lost
  <2> HIDE DEF new
  <2>6. sent.at = "sending" /\ sent.lane = new
    <3>1. op[c] \in Operation /\ new \in Row
      BY <1>0, <2>4
    <3>2. QED
      BY <2>2, <3>1, SendingFacts
  <2> HIDE DEF sent
  <2>7. op'[c] = Resting \/ op'[c] = sent
    BY <1>0, <2>5
  <2>8. RunsHeld(op[c])'
    <3>1. CASE op'[c] = Resting
      BY <1>3, <3>1 DEF RunsHeld, Await
    <3>2. CASE op'[c] = sent
      <4>1. 0 < RunLimit
        BY LaneAgentsAssumption
      <4>2. QED
        BY <2>3, <2>4, <2>5, <2>6, <3>2, <4>1 DEF RunsHeld
    <3>3. QED
      BY <2>7, <3>1, <3>2
  <2>9. Len(sends') = a
    BY <1>0, <2>5
  <2>10. op'[c].at # "creating"
    BY <1>3, <2>6, <2>7
  <2>11. Begins(c)
    BY <2>1, <2>3, <2>4, <2>5, <2>9, <2>10 DEF Begins, Takes, SameLine
  <2>12. QED
    BY <2>8, <2>11 DEF Pays
<1>8. CASE CreateFails(c)
  <2>1. InOperation(c) /\ ~Uncounted(op[c]) /\ row' = row /\ sends' = sends /\ Lost' = Lost
    BY <1>8 DEF CreateFails, InOperation, Await, Uncounted, history, Lost
  <2>2. Lost' >= Lost
    BY <1>0, <2>1
  <2>3. \/ op' = [op EXCEPT ![c] = Resting]
        \/ FinishTask(c, row, op[c].left)
    BY <1>8 DEF CreateFails
  <2>4. QED
    BY <1>4, <2>1, <2>2, <2>3
<1>9. QED
  BY <1>5, <1>6, <1>7, <1>8 DEF RotationStep

\* An operator's rotation.
LEMMA RotateLanePays ==
  ASSUME TypeInv, TypeInv', NEW h \in Hand, RotateLane(h)
  PROVE  Pays(h)
<1>1. /\ h \in Coroutine /\ op[h].at = "idle" /\ row' = EnsureLane(row)
      /\ spent \in Spent /\ Lost' \in Nat
  BY RestFacts, LostNext DEF RotateLane, Coroutine
<1>2. /\ row = NONE => row' = NewLane
      /\ row # NONE => row' # NONE /\ row' = row /\ SameLine(row', row)
  BY <1>1, EnsuredFacts DEF SameLine
<1>3. RunsHeld(op[h])'
  BY <1>1, BeginHolds DEF RotateLane
<1>4. sends' = sends /\ ~Uncounted(op[h])
  BY <1>1 DEF RotateLane, Uncounted
<1>5. Lost' >= Lost
  BY <1>1, UpsetType DEF RotateLane, Lost
<1>6. QED
  BY <1>1, <1>2, <1>3, <1>4, <1>5, StillPays

\* Steps from the side: what is given up with a run that waits to be counted
\* is a crash.
LEMMA AsidePays ==
  ASSUME TypeInv, TypeInv', LineInv, RunsInv,
         \A c \in Coroutine : op'[c] = op[c] \/ op'[c].at = "idle",
         row = NONE => row' = NONE \/ row' = NewLane,
         row # NONE => row' # NONE /\ SameLine(row', row) /\ row'.runs = row.runs,
         sends' = sends, Lost' \in Nat, Lost' >= Lost, op' = op \/ Lost' > Lost
  PROVE  RunsInv'
<1>1. \A c \in Coroutine : RunsHeld(op[c])'
  <2> SUFFICES ASSUME NEW c \in Coroutine, op'[c] = op[c], InOperation(c) PROVE RunsHeld(op[c])'
    BY DEF RunsHeld, InOperation, Await
  <2>1. row # NONE /\ RunsHeld(op[c])
    BY DEF LineInv, Agreed, RunsInv
  <2>2. QED
    BY <2>1 DEF RunsHeld, SameLine
<1>2. CASE row = NONE
  <2>1. Len(sends') = 0 /\ sends' \in Seq(Nat)
    BY <1>2 DEF RunsInv, TypeInv, TypeOK
  <2>2. DOMAIN sends' = {}
    BY <2>1
  <2>3. row' # NONE => row'.runs = 0
    BY <1>2 DEF NewLane
  <2>4. QED
    BY <1>1, <2>1, <2>2, <2>3 DEF RunsInv
<1>3. CASE row # NONE
  <2>1. /\ row' # NONE /\ row'.current = row.current /\ row'.prior = row.prior
        /\ row'.runs = row.runs
    BY <1>3 DEF SameLine
  <2> SUFFICES ASSUME NEW a \in DOMAIN sends' PROVE Within(a)'
    BY <1>1, <1>3, <2>1 DEF RunsInv
  <2> DEFINE n == Cardinality(Listing(a)) * RunLimit
  <2>2. n \in Nat /\ Allowance(a) = n + Lost /\ Lost \in Nat
    BY <1>3, AllowanceFacts
  <2>3. Allowance(a)' = n + Lost' /\ Lost' \in Nat
    BY <2>1 DEF Allowance, Listing
  <2> HIDE DEF n
  <2>4. Within(a) /\ sends'[a] = sends[a] /\ sends[a] \in Nat /\ row.runs \in Nat /\ RunLimit \in Nat
    <3>1. sends'[a] = sends[a] /\ Within(a)
      BY <1>3 DEF RunsInv
    <3>2. sends[a] \in Nat
      <4>1. sends \in Seq(Nat)
        BY DEF TypeInv, TypeOK
      <4>2. a \in DOMAIN sends
        OBVIOUS
      <4>3. QED
        BY <4>1, <4>2
    <3>3. row.runs \in Nat /\ RunLimit \in Nat
      BY <1>3, LaneAgentsAssumption DEF TypeInv, TypeOK, Row
    <3>4. QED
      BY <3>1, <3>2, <3>3
  <2>5. /\ Lost' + Present(a)' >= Lost + Present(a)
        /\ Present(a) \in Nat /\ Present(a)' \in Nat
    <3>1. CASE op' = op
      <4>1. Present(a)' = Present(a)
        BY <2>1, <3>1 DEF Present, Pending
      <4>2. Present(a) \in Nat
        BY <2>4 DEF Present
      <4>3. QED
        BY <2>2, <2>3, <4>1, <4>2
    <3>2. CASE Lost' > Lost
      <4>1. Present(a) \in Nat /\ Present(a)' \in Nat /\ Present(a)' + 1 >= Present(a)
        BY <2>1, <2>4 DEF Present
      <4> HIDE DEF Present
      <4>2. QED
        BY <2>2, <2>3, <3>2, <4>1
    <3>3. QED
      BY <3>1, <3>2
  <2> HIDE DEF Present
  <2>6. QED
    BY <2>2, <2>3, <2>4, <2>5 DEF Within
<1>4. QED
  BY <1>2, <1>3

\* Edits and crashes.
LEMMA EditPays ==
  ASSUME TypeInv, TypeInv', LineInv, RunsInv, NEW p \in Proc, ~crossed',
         SaveEdit(p) \/ Crash(p) \/ \E what \in Edit : ReadForEdit(p, what)
  PROVE  RunsInv'
<1>0. /\ spent \in Spent /\ Lost \in Nat /\ Lost' \in Nat
      /\ row \in Row \cup {NONE} /\ op \in [Coroutine -> Operation]
  BY RestFacts, LostNow, LostNext DEF TypeInv, TypeOK
<1>1. CASE SaveEdit(p)
  <2>1. edit[p] \in [what : Edit, lane : Row]
    BY <1>1 DEF SaveEdit, TypeInv, TypeOK
  <2>2. row = edit[p].lane
    BY <1>1, Zenon DEF SaveEdit
  <2>3. row \in Row /\ row # NONE /\ row' = Edited(row, edit[p].what) /\ edit[p].what \in Edit
    BY <1>1, <2>1, <2>2, LaneAgentsAssumption DEF SaveEdit
  <2>4. row' # NONE /\ SameLine(row', row) /\ row'.runs = row.runs
    BY <2>3, EditedFacts, RunsFacts, LaneAgentsAssumption DEF SameLine
  <2>5. op' = op /\ sends' = sends /\ Lost' >= Lost
    BY <1>0, <1>1 DEF SaveEdit, Lost
  <2>6. QED
    BY <1>0, <2>3, <2>4, <2>5, AsidePays
<1>2. CASE Crash(p)
  <2>1. Lost' > Lost /\ Lost' >= Lost
    <3>1. Lost' = Lost + 1
      BY <1>0, <1>2, UpsetType DEF Crash, Lost
    <3>2. QED
      BY <1>0, <3>1
  <2>2. row' = row /\ sends' = sends /\ SameLine(row', row)
    BY <1>2 DEF Crash, history, SameLine
  <2>3. \A c \in Coroutine : op'[c] = op[c] \/ op'[c].at = "idle"
    BY <1>2 DEF Crash, Resting
  <2>4. QED
    BY <1>0, <2>1, <2>2, <2>3, AsidePays
<1>3. ASSUME NEW what \in Edit, ReadForEdit(p, what) PROVE RunsInv'
  <2>1. /\ row = NONE => row' = NewLane
        /\ row # NONE => row' # NONE /\ SameLine(row', row) /\ row'.runs = row.runs
    BY <1>3, EnsuredFacts DEF ReadForEdit, SameLine
  <2>2. op' = op /\ sends' = sends
    BY <1>3 DEF ReadForEdit, history
  <2>3. Lost' >= Lost
    BY <1>0, <1>3, UpsetType DEF ReadForEdit, Lost
  <2>4. QED
    BY <1>0, <2>1, <2>2, <2>3, AsidePays
<1>4. QED
  BY <1>1, <1>2, <1>3

\* The chain and the runs, of operations that never overlapped.
GivenInv == LineageInv /\ (~crossed => RunsInv)

\* At first nobody has run.
LEMMA GivenInit == Init => GivenInv
<1> SUFFICES ASSUME Init PROVE RunsInv
  BY LineageInit DEF GivenInv
<1>1. \A c \in Coroutine : RunsHeld(op[c])
  BY DEF Init, Resting, RunsHeld, Await
<1>2. row = NONE /\ Len(sends) = 0
  BY DEF Init
<1>3. QED
  BY <1>1, <1>2 DEF RunsInv

\* Every step keeps the count.
LEMMA GivenStep == GivenInv /\ [Next]_vars => GivenInv'
<1> SUFFICES ASSUME GivenInv, [Next]_vars, ~crossed' PROVE RunsInv'
  BY LineageStep DEF GivenInv
<1>1. TypeInv /\ TypeInv'
  BY TypeStep DEF GivenInv, LineageInv
<1>2. LineInv /\ RunsInv
  BY Uncrossed DEF GivenInv, LineageInv
<1>3. ASSUME NEW r \in Run, RunStep(r) PROVE RunsInv'
  <2>1. r \in Coroutine
    BY DEF Coroutine
  <2>2. PICK o : Turn(r, o)
    BY <1>1, <1>2, <1>3, RunEffect DEF Effect
  <2>3. QED
    BY <1>1, <1>2, <1>3, <2>1, <2>2, RunPays, PaysKeeps
<1>4. ASSUME NEW h \in Hand, RotateLane(h) PROVE RunsInv'
  <2>1. h \in Coroutine
    BY DEF Coroutine
  <2>2. PICK o : Turn(h, o)
    BY <1>1, <1>4, RotateLaneEffect DEF Effect
  <2>3. QED
    BY <1>1, <1>2, <1>4, <2>1, <2>2, RotateLanePays, PaysKeeps
<1>5. ASSUME NEW c \in Coroutine, RotationStep(c) PROVE RunsInv'
  <2>1. PICK o : Turn(c, o)
    BY <1>1, <1>2, <1>5, RotationEffect DEF Effect
  <2>2. QED
    BY <1>1, <1>2, <1>5, <2>1, RotationPays, PaysKeeps
<1>6. ASSUME NEW p \in Proc, SaveEdit(p) \/ Crash(p) \/ \E what \in Edit : ReadForEdit(p, what)
      PROVE  RunsInv'
  BY <1>1, <1>2, <1>6, EditPays
<1>7. CASE UNCHANGED vars
  BY <1>2, <1>7 DEF vars, RunsInv, RunsHeld, Within, Allowance, Listing, Present, Pending, Lost
<1>8. QED
  BY <1>3, <1>4, <1>5, <1>6, <1>7 DEF Next

\* Unless operations overlap, an agent is given RunLimit runs at most for each
\* turn it had as the lane's agent, and one more for each crash or failed close.
THEOREM RunsAreBounded == Spec => []AgentRunsBounded
<1>1. GivenInv => AgentRunsBounded
  <2> SUFFICES ASSUME GivenInv, ~crossed, NEW a \in DOMAIN sends
               PROVE  sends[a] <= Turns(a) * RunLimit + spent.crashes + spent.closes
    BY DEF AgentRunsBounded
  <2>1. TypeInv /\ RunsInv /\ a \in Nat /\ sends[a] \in Nat
    BY DEF GivenInv, LineageInv, TypeInv, TypeOK
  <2>2. row # NONE
    BY <2>1 DEF RunsInv, TypeInv, TypeOK
  <2> DEFINE k == Cardinality(Listing(a))
  <2>3. /\ k \in Nat /\ k * RunLimit \in Nat /\ Allowance(a) = k * RunLimit + Lost
        /\ RunLimit \in Nat
    BY <2>1, <2>2, AllowanceFacts, LaneAgentsAssumption
  <2>4. Within(a)
    BY <2>1, <2>2 DEF RunsInv
  <2>5. spent.crashes \in Nat /\ spent.closes \in Nat
    BY <2>1 DEF TypeInv, TypeOK
  <2>6. CASE row.current = a
    <3>1. Turns(a) = k + 1
      BY <2>6 DEF Turns, Listing
    <3> HIDE DEF k
    <3>2. Turns(a) * RunLimit = k * RunLimit + RunLimit
      BY <2>3, <3>1, OneMore
    <3>3. QED
      BY <2>1, <2>3, <2>4, <2>5, <3>2 DEF Within, Lost
  <2>7. CASE row.current # a
    <3>1. Turns(a) = k
      BY <2>3, <2>7 DEF Turns, Listing
    <3> HIDE DEF k
    <3>2. Present(a) = 0
      BY <2>7 DEF Present
    <3>3. QED
      BY <2>1, <2>3, <2>4, <2>5, <3>1, <3>2 DEF Within, Lost
  <2>8. QED
    BY <2>6, <2>7
<1>2. QED
  BY <1>1, GivenInit, GivenStep, PTL DEF Spec

=============================================================================
