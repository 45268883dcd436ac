----------------------------- MODULE ServiceLock -----------------------------
(***************************************************************************)
(* The workspace lock file, the stop file and the heartbeat: how services   *)
(* and consoles take over, hold and leave a workspace.                      *)
(*                                                                         *)
(* A step is one call to the file system or one save of the heartbeat.      *)
(* Files are named: what is unlinked is whatever has the name by then, and  *)
(* a file that lost its name while it was open takes writes to no effect.   *)
(***************************************************************************)
EXTENDS Naturals

CONSTANTS
  Service,        \* processes that run `serve`
  Console,        \* processes that run `console`
  MaxStarts,      \* bound: how often a process is started
  UnlinksOpen,    \* does the platform unlink an open file (POSIX) or refuse
  Raises,         \* may a cycle end with an exception
  NONE

Proc == Service \cup Console

ASSUME ServiceLockAssumption ==
  /\ Service \cap Console = {}
  /\ MaxStarts \in Nat
  /\ UnlinksOpen \in BOOLEAN /\ Raises \in BOOLEAN
  /\ NONE \notin [token : Proc \X Nat, written : BOOLEAN]

\* A token names one incarnation of a process, and so do its pid and its file.
Token == Proc \X Nat

File == [token : Token, written : BOOLEAN]

Attempt == {"opening", "writing", "reading", "unlinking"}
Serving == {"serving", "cycling"}
Leaving == {"ending", "checking", "releasing"}
Inside  == {"writing", "held"} \cup Serving \cup Leaving
Phase   == {"down", "cleanup"} \cup Attempt \cup Inside

End == {"running", "stopped", "completed", "cancelled"}

VARIABLES
  file,    \* what has the name of the lock file, or NONE
  stop,    \* does the stop file exist
  beat,    \* the heartbeat in the store: [state, token], or NONE
  phase,   \* where each process is
  end,     \* the variable `state` of serve, of each process
  starts   \* how often each process was started

vars == <<file, stop, beat, phase, end, starts>>

TokenOf(p) == <<p, starts[p]>>

Alive(token) == starts[token[1]] = token[2] /\ phase[token[1]] # "down"

\* Does its process still have the file open to write it?
IsOpen(f) == f # NONE /\ ~f.written /\ Alive(f.token) /\ phase[f.token[1]] = "writing"

GoTo(p, s) == phase' = [phase EXCEPT ![p] = s]

Init ==
  /\ file = NONE /\ stop = FALSE /\ beat = NONE
  /\ phase = [p \in Proc |-> "down"]
  /\ end = [p \in Proc |-> "running"]
  /\ starts = [p \in Proc |-> 0]

-----------------------------------------------------------------------------
(* acquire *)

Begin(p) ==
  /\ phase[p] = "down" /\ starts[p] < MaxStarts
  /\ GoTo(p, "opening")
  /\ starts' = [starts EXCEPT ![p] = @ + 1]
  /\ end' = [end EXCEPT ![p] = "running"]
  /\ UNCHANGED <<file, stop, beat>>

\* Mutation: the file is opened without O_EXCL.
CreateOver(p) ==
  /\ phase[p] = "opening"
  /\ file' = [token |-> TokenOf(p), written |-> FALSE]
  /\ GoTo(p, "writing")
  /\ UNCHANGED <<stop, beat, end, starts>>

Create(p) ==
  /\ phase[p] = "opening" /\ file = NONE
  /\ file' = [token |-> TokenOf(p), written |-> FALSE]
  /\ GoTo(p, "writing")
  /\ UNCHANGED <<stop, beat, end, starts>>

Exists(p) ==
  /\ phase[p] = "opening" /\ file # NONE
  /\ GoTo(p, "reading")
  /\ UNCHANGED <<file, stop, beat, end, starts>>

\* Mutation: the payload stays in a buffer.
WriteBuffered(p) ==
  /\ phase[p] = "writing"
  /\ GoTo(p, "held")
  /\ UNCHANGED <<file, stop, beat, end, starts>>

\* The payload reaches the file that was created, whatever has the name now.
Write(p) ==
  /\ phase[p] = "writing"
  /\ file' = IF file # NONE /\ file.token = TokenOf(p)
             THEN [file EXCEPT !.written = TRUE] ELSE file
  /\ GoTo(p, "held")
  /\ UNCHANGED <<stop, beat, end, starts>>

\* Does the file name a process that lives?  One that is gone or is not yet
\* written names none.
OwnerLives == file # NONE /\ file.written /\ Alive(file.token)

Refused(p) ==
  /\ phase[p] = "reading" /\ OwnerLives
  /\ GoTo(p, "down")
  /\ UNCHANGED <<file, stop, beat, end, starts>>

TakenForDead(p) ==
  /\ phase[p] = "reading" /\ ~OwnerLives
  /\ GoTo(p, "unlinking")
  /\ UNCHANGED <<file, stop, beat, end, starts>>

Unlink(p) ==
  /\ phase[p] = "unlinking"
  /\ UnlinksOpen \/ ~IsOpen(file)
  /\ file' = NONE
  /\ GoTo(p, "opening")
  /\ UNCHANGED <<stop, beat, end, starts>>

\* The platform refuses to unlink an open file, and acquire does not catch it.
UnlinkFails(p) ==
  /\ phase[p] = "unlinking"
  /\ ~UnlinksOpen /\ IsOpen(file)
  /\ GoTo(p, "down")
  /\ UNCHANGED <<file, stop, beat, end, starts>>

-----------------------------------------------------------------------------
(* serve and run_console *)

\* serve removes a stop file that it finds.
Enter(p) ==
  /\ p \in Service /\ phase[p] = "held"
  /\ stop' = FALSE
  /\ GoTo(p, "serving")
  /\ UNCHANGED <<file, beat, end, starts>>

\* The console writes a heartbeat before its loop.
OpenConsole(p) ==
  /\ p \in Console /\ phase[p] = "held"
  /\ beat' = [state |-> "running", token |-> TokenOf(p)]
  /\ GoTo(p, "cycling")
  /\ UNCHANGED <<file, stop, end, starts>>

\* The port is taken: the console ends before the block that releases the lock.
BindFails(p) ==
  /\ p \in Console /\ phase[p] = "held"
  /\ GoTo(p, "down")
  /\ UNCHANGED <<file, stop, beat, end, starts>>

\* Mutation: a stopped service leaves the stop to the next look at the file.
StopSeenLater(p) ==
  /\ p \in Service /\ phase[p] = "serving" /\ stop
  /\ GoTo(p, "cycling")
  /\ UNCHANGED <<file, stop, beat, end, starts>>

StopSeen(p) ==
  /\ p \in Service /\ phase[p] = "serving" /\ stop
  /\ end' = [end EXCEPT ![p] = "stopped"]
  /\ GoTo(p, "ending")
  /\ UNCHANGED <<file, stop, beat, starts>>

Beat(p) ==
  /\ phase[p] = "serving"
  /\ p \in Service => ~stop
  /\ beat' = [state |-> "running", token |-> TokenOf(p)]
  /\ GoTo(p, "cycling")
  /\ UNCHANGED <<file, stop, end, starts>>

NextCycle(p) ==
  /\ phase[p] = "cycling"
  /\ GoTo(p, "serving")
  /\ UNCHANGED <<file, stop, beat, end, starts>>

\* How the loop ends otherwise: the last cycle, a cancellation at an await, an
\* exception.  The console always ends as stopped.
LoopEnds(p, how) ==
  /\ phase[p] = "cycling"
  /\ how = "running" => Raises
  /\ p \in Console => how = "stopped"
  /\ p \in Service => how # "stopped"
  /\ end' = [end EXCEPT ![p] = how]
  /\ GoTo(p, "ending")
  /\ UNCHANGED <<file, stop, beat, starts>>

\* Mutation: the last heartbeat says that the service is going down.
LastBeatTransitional(p) ==
  /\ phase[p] = "ending"
  /\ beat' = [state |-> "stopping", token |-> TokenOf(p)]
  /\ GoTo(p, "checking")
  /\ UNCHANGED <<file, stop, end, starts>>

LastBeat(p) ==
  /\ phase[p] = "ending"
  /\ beat' = [state |-> end[p], token |-> TokenOf(p)]
  /\ GoTo(p, "checking")
  /\ UNCHANGED <<file, stop, end, starts>>

\* release: is the file still one's own?
Check(p) ==
  /\ phase[p] = "checking"
  /\ GoTo(p, IF file # NONE /\ file.written /\ file.token = TokenOf(p)
             THEN "releasing" ELSE "cleanup")
  /\ UNCHANGED <<file, stop, beat, end, starts>>

Release(p) ==
  /\ phase[p] = "releasing"
  /\ file' = NONE
  /\ GoTo(p, "cleanup")
  /\ UNCHANGED <<stop, beat, end, starts>>

\* Mutation: the last heartbeat is written after the lock is released.
CleanUpBeats(p) ==
  /\ phase[p] = "cleanup"
  /\ beat' = [state |-> end[p], token |-> TokenOf(p)]
  /\ GoTo(p, "down")
  /\ UNCHANGED <<file, stop, end, starts>>

\* A service that was stopped or is complete removes the stop file at last.
CleanUp(p) ==
  /\ phase[p] = "cleanup"
  /\ stop' = (stop /\ ~(p \in Service /\ end[p] \in {"stopped", "completed"}))
  /\ GoTo(p, "down")
  /\ UNCHANGED <<file, beat, end, starts>>

Crash(p) ==
  /\ phase[p] # "down"
  /\ GoTo(p, "down")
  /\ UNCHANGED <<file, stop, beat, end, starts>>

\* stop-service
RequestStop ==
  /\ ~stop /\ stop' = TRUE
  /\ UNCHANGED <<file, beat, phase, end, starts>>

-----------------------------------------------------------------------------

Acquire(p) ==
  \/ Create(p) \/ Exists(p) \/ Write(p) \/ Refused(p)
  \/ TakenForDead(p) \/ Unlink(p) \/ UnlinkFails(p)

Work(p) ==
  \/ Enter(p) \/ OpenConsole(p) \/ StopSeen(p) \/ Beat(p) \/ NextCycle(p)
  \/ LastBeat(p) \/ Check(p) \/ Release(p) \/ CleanUp(p)

Interrupt(p) ==
  \/ BindFails(p)
  \/ \E how \in End : LoopEnds(p, how)
  \/ Crash(p)

Next ==
  \/ \E p \in Proc : Begin(p) \/ Acquire(p) \/ Work(p) \/ Interrupt(p)
  \/ RequestStop

Spec == Init /\ [][Next]_vars

\* What acquire relies on and does not ensure, because it reads the file, looks
\* at its process and unlinks the name in three calls: the file that goes is not
\* that of a process that lives.  Attempts may overlap all the same.
UnlinksDead ==
  \A p \in Proc : Unlink(p) /\ file # NONE => ~Alive(file.token)

CarefulSpec == Init /\ [][Next /\ UnlinksDead]_vars

\* A process that lives executes its next statement, and a cycle ends.  Nobody
\* has to start one, and nothing has to fail.
CarefulFairSpec ==
  CarefulSpec /\ \A p \in Proc : WF_vars((Acquire(p) \/ Work(p)) /\ UnlinksDead)

-----------------------------------------------------------------------------
(* Properties *)

\* Type correctness.
TypeOK ==
  /\ file \in File \cup {NONE} /\ stop \in BOOLEAN
  /\ beat \in [state : End, token : Token] \cup {NONE}
  /\ phase \in [Proc -> Phase]
  /\ end \in [Proc -> End]
  /\ starts \in [Proc -> Nat]

Workspace == INSTANCE Mutex WITH owners <- {p \in Proc : phase[p] \in Inside}

\* README.md:98, "A workspace-qualified lock prevents duplicate services": a
\* process gets in only when everybody is out.
ImplementsMutex == Workspace!Spec

\* state.py:263-272: whoever serves is the live service owner that other
\* processes read from the lock file, so that they leave its tasks alone.
ServingIsVisible ==
  \A p \in Proc : phase[p] \in Serving =>
    file = [token |-> TokenOf(p), written |-> TRUE]

\* service.py:97-99: the heartbeat of a service that ended is not on display
\* while another one has begun its cycles, nor does a service run behind a
\* heartbeat that says it is down.
CyclesBehindOwnBeat ==
  \A p \in Proc : phase[p] = "cycling" =>
    beat = [state |-> "running", token |-> TokenOf(p)]

\* README.md:101, "honors a stop file": a service that runs while a stop is
\* requested stops running, unless another one has released the lock and has yet
\* to remove the stop file it served under (service.py:145-153), when it may take
\* this one with it.
StopHonoured ==
  \A p \in Service :
    (stop /\ phase[p] \in Serving /\ \A q \in Proc : phase[q] # "cleanup")
      ~> phase[p] \notin Serving

=============================================================================
