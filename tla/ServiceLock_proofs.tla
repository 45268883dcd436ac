------------------------- MODULE ServiceLock_proofs -------------------------
(***************************************************************************)
(* Proofs about ServiceLock: for any number of services and consoles, that   *)
(* are started, cancelled and killed any number of times and whose attempts  *)
(* to take the lock overlap in any way, the lock file is a mutex unless      *)
(* acquire unlinks the file of a process that lives.                        *)
(***************************************************************************)
EXTENDS ServiceLock, TLAPS

\* Whoever is inside owns the file that has the name.
FileIsOwn ==
  \A p \in Proc : phase[p] \in Inside =>
    file = [token |-> TokenOf(p), written |-> phase[p] # "writing"]

LockInv == TypeOK /\ FileIsOwn

-----------------------------------------------------------------------------

\* A process that moves leaves the others where they are.
LEMMA GoToFacts ==
  ASSUME NEW p \in Proc, NEW s, phase \in [Proc -> Phase], GoTo(p, s)
  PROVE  /\ phase'[p] = s
         /\ \A q \in Proc \ {p} : phase'[q] = phase[q]
         /\ s \in Phase => phase' \in [Proc -> Phase]
BY DEF GoTo

\* Two processes that own the file are one.
LEMMA OneInside ==
  ASSUME LockInv, NEW p \in Proc, NEW q \in Proc,
         phase[p] \in Inside, phase[q] \in Inside
  PROVE  p = q
<1>1. file.token = TokenOf(p) /\ file.token = TokenOf(q)
  BY DEF LockInv, FileIsOwn
<1>2. QED
  BY <1>1 DEF TokenOf

\* No file, nobody inside.
LEMMA NoFile ==
  ASSUME LockInv, file = NONE, NEW p \in Proc
  PROVE  phase[p] \notin Inside
<1>1. TokenOf(p) \in Token
  BY DEF TokenOf, Token, LockInv, TypeOK
<1>2. [token |-> TokenOf(p), written |-> phase[p] # "writing"] # NONE
  <2>1. \A b \in BOOLEAN : [token |-> TokenOf(p), written |-> b] # NONE
    BY <1>1, ServiceLockAssumption DEF Token
  <2>2. (phase[p] # "writing") \in BOOLEAN
    OBVIOUS
  <2>3. QED
    BY <2>1, <2>2, Zenon
<1>3. QED
  BY <1>2 DEF LockInv, FileIsOwn

\* A step of a process that neither touches the file nor enters keeps the
\* invariant.
LEMMA QuietInv ==
  ASSUME LockInv, NEW p \in Proc, NEW s \in Phase, GoTo(p, s),
         UNCHANGED <<file, starts>>, TypeOK',
         s \in Inside => phase[p] \in Inside /\ phase[p] # "writing" /\ s # "writing"
  PROVE  LockInv'
<1>1. /\ phase'[p] = s
      /\ \A q \in Proc \ {p} : phase'[q] = phase[q]
  BY GoToFacts DEF LockInv, TypeOK
<1>2. \A q \in Proc : TokenOf(q)' = TokenOf(q)
  BY DEF TokenOf
<1>3. FileIsOwn'
  BY <1>1, <1>2 DEF LockInv, FileIsOwn
<1>4. QED
  BY <1>3 DEF LockInv

-----------------------------------------------------------------------------
(* acquire *)

\* The steps of acquire keep the invariant: the file that is unlinked was not
\* that of anybody inside.
LEMMA AcquireInv ==
  ASSUME LockInv, UnlinksDead, NEW p \in Proc, Acquire(p)
  PROVE  LockInv'
<1> USE DEF Phase, Inside, Serving, Leaving, Attempt
<1>0. phase \in [Proc -> Phase] /\ TypeOK
  BY DEF LockInv, TypeOK
<1>1. CASE Create(p)
  <2>1. /\ phase[p] = "opening" /\ phase'[p] = "writing"
        /\ \A q \in Proc \ {p} : phase'[q] = phase[q]
        /\ phase' \in [Proc -> Phase]
    BY <1>0, <1>1, GoToFacts DEF Create
  <2>2. /\ file' = [token |-> TokenOf(p), written |-> FALSE] /\ file' \in File
        /\ TokenOf(p)' = TokenOf(p)
        /\ \A q \in Proc : phase[q] \notin Inside
    BY <1>0, <1>1, NoFile DEF Create, TokenOf, File, Token, TypeOK
  <2>3. TypeOK'
    BY <1>1, <2>1, <2>2 DEF Create, TypeOK, LockInv
  <2>4. FileIsOwn'
    <3>1. \A q \in Proc : phase'[q] \in Inside => q = p
      BY <2>1, <2>2
    <3>2. QED
      BY <2>1, <2>2, <3>1 DEF FileIsOwn
  <2>5. QED
    BY <2>3, <2>4 DEF LockInv
<1>2. CASE Write(p)
  <2>1. /\ phase[p] = "writing" /\ phase'[p] = "held"
        /\ \A q \in Proc \ {p} : phase'[q] = phase[q]
        /\ phase' \in [Proc -> Phase]
    BY <1>0, <1>2, GoToFacts DEF Write
  <2>2. /\ file = [token |-> TokenOf(p), written |-> FALSE]
        /\ \A q \in Proc : phase[q] \in Inside => q = p
    BY <2>1, OneInside DEF LockInv, FileIsOwn
  <2>3. file # NONE
    BY <1>0, <2>1, NoFile
  <2>4. file' = [token |-> TokenOf(p), written |-> TRUE] /\ TokenOf(p)' = TokenOf(p)
    BY <1>2, <2>2, <2>3 DEF Write, TokenOf
  <2>5. TypeOK'
    BY <1>2, <2>1, <2>4 DEF Write, TypeOK, LockInv, File, Token, TokenOf
  <2>6. FileIsOwn'
    <3>1. \A q \in Proc : phase'[q] \in Inside => q = p
      BY <2>1, <2>2
    <3>2. QED
      BY <2>1, <2>4, <3>1 DEF FileIsOwn
  <2>7. QED
    BY <2>5, <2>6 DEF LockInv
<1>3. CASE Exists(p) \/ Refused(p) \/ TakenForDead(p) \/ UnlinkFails(p)
  <2>1. PICK s \in {"reading", "unlinking", "down"} : GoTo(p, s)
    BY <1>3 DEF Exists, Refused, TakenForDead, UnlinkFails
  <2>2. UNCHANGED <<file, starts, stop, beat, end>>
    BY <1>3 DEF Exists, Refused, TakenForDead, UnlinkFails
  <2>3. TypeOK'
    BY <1>0, <2>1, <2>2, GoToFacts DEF TypeOK
  <2>4. QED
    BY <2>1, <2>2, <2>3, QuietInv
<1>4. CASE Unlink(p)
  <2>1. /\ phase[p] = "unlinking" /\ phase'[p] = "opening"
        /\ \A q \in Proc \ {p} : phase'[q] = phase[q]
        /\ phase' \in [Proc -> Phase]
    BY <1>0, <1>4, GoToFacts DEF Unlink
  <2>2. \A q \in Proc : phase'[q] \notin Inside
    <3>1. ASSUME NEW q \in Proc, phase[q] \in Inside PROVE FALSE
      <4>1. file # NONE /\ file.token = TokenOf(q)
        BY <3>1, NoFile DEF LockInv, FileIsOwn
      <4>2. Alive(file.token)
        BY <3>1, <4>1 DEF Alive, TokenOf
      <4>3. QED
        BY <1>4, <4>1, <4>2 DEF UnlinksDead
    <3>2. QED
      BY <2>1, <3>1
  <2>3. TypeOK'
    BY <1>0, <1>4, <2>1 DEF Unlink, TypeOK
  <2>4. FileIsOwn'
    BY <2>2 DEF FileIsOwn
  <2>5. QED
    BY <2>3, <2>4 DEF LockInv
<1>5. QED
  BY <1>1, <1>2, <1>3, <1>4 DEF Acquire

-----------------------------------------------------------------------------
(* Starting, serving and ending *)

\* A start keeps the invariant.
LEMMA BeginInv ==
  ASSUME LockInv, NEW p \in Proc, Begin(p)
  PROVE  LockInv'
<1> USE DEF Phase, Inside, Serving, Leaving, Attempt
<1>1. /\ phase[p] = "down" /\ phase'[p] = "opening"
      /\ \A q \in Proc \ {p} : phase'[q] = phase[q] /\ TokenOf(q)' = TokenOf(q)
      /\ phase' \in [Proc -> Phase] /\ UNCHANGED file
  BY GoToFacts DEF Begin, LockInv, TypeOK, TokenOf
<1>2. TypeOK'
  <2>1. TypeOK /\ "running" \in End
    BY DEF LockInv, End
  <2>2. starts' \in [Proc -> Nat] /\ end' \in [Proc -> End] /\ UNCHANGED <<file, stop, beat>>
    BY <2>1 DEF Begin, TypeOK
  <2>3. QED
    BY <1>1, <2>1, <2>2 DEF TypeOK
<1>3. FileIsOwn'
  BY <1>1 DEF LockInv, FileIsOwn
<1>4. QED
  BY <1>2, <1>3 DEF LockInv

\* What a service or console does between taking the lock and its end, and the
\* ends of all kinds, keep the invariant.
LEMMA ServeInv ==
  ASSUME LockInv, NEW p \in Proc, Work(p) \/ Interrupt(p)
  PROVE  LockInv'
<1> USE DEF Phase, Inside, Serving, Leaving, Attempt
<1>0. phase \in [Proc -> Phase] /\ TypeOK /\ TokenOf(p) \in Token
  BY DEF LockInv, TypeOK, TokenOf, Token
<1>1. CASE Release(p)
  <2>1. /\ phase[p] = "releasing" /\ phase'[p] = "cleanup"
        /\ \A q \in Proc \ {p} : phase'[q] = phase[q]
        /\ phase' \in [Proc -> Phase]
    BY <1>0, <1>1, GoToFacts DEF Release
  <2>2. \A q \in Proc : phase'[q] \notin Inside
    <3>1. \A q \in Proc : phase[q] \in Inside => q = p
      BY <2>1, OneInside
    <3>2. QED
      BY <2>1, <3>1
  <2>3. TypeOK'
    BY <1>0, <1>1, <2>1 DEF Release, TypeOK
  <2>4. FileIsOwn'
    BY <2>2 DEF FileIsOwn
  <2>5. QED
    BY <2>3, <2>4 DEF LockInv
<1>2. CASE Enter(p) \/ OpenConsole(p) \/ Beat(p) \/ NextCycle(p) \/ LastBeat(p)
  <2>1. PICK s \in Serving \cup {"checking"} : GoTo(p, s)
    BY <1>2 DEF Enter, OpenConsole, Beat, NextCycle, LastBeat
  <2>2. /\ UNCHANGED <<file, starts, end>> /\ phase[p] \in Inside \ {"writing"}
        /\ stop' \in BOOLEAN
        /\ beat' \in {beat} \cup [state : End, token : Token]
    <3>1. "running" \in End /\ end[p] \in End
      BY <1>0 DEF TypeOK, End
    <3>2. CASE Enter(p) \/ NextCycle(p)
      BY <1>0, <3>2 DEF Enter, NextCycle, TypeOK
    <3>3. CASE OpenConsole(p) \/ Beat(p) \/ LastBeat(p)
      BY <1>0, <3>1, <3>3 DEF OpenConsole, Beat, LastBeat, TypeOK
    <3>4. QED
      BY <1>2, <3>2, <3>3
  <2>3. TypeOK'
    BY <1>0, <2>1, <2>2, GoToFacts DEF TypeOK
  <2>4. QED
    BY <2>1, <2>2, <2>3, QuietInv
<1>3. CASE StopSeen(p) \/ \E how \in End : LoopEnds(p, how)
  <2>1. PICK how \in End : end' = [end EXCEPT ![p] = how]
    BY <1>3 DEF StopSeen, LoopEnds, End
  <2>2. /\ UNCHANGED <<file, starts, stop, beat>> /\ GoTo(p, "ending")
        /\ phase[p] \in Serving
    BY <1>3 DEF StopSeen, LoopEnds
  <2>3. TypeOK'
    BY <1>0, <2>1, <2>2, GoToFacts DEF TypeOK
  <2>4. QED
    BY <2>2, <2>3, QuietInv
<1>4. CASE Check(p) \/ CleanUp(p) \/ BindFails(p) \/ Crash(p)
  <2>1. PICK s \in {"releasing", "cleanup", "down"} :
          GoTo(p, s) /\ (s = "releasing" => phase[p] = "checking")
    BY <1>4 DEF Check, CleanUp, BindFails, Crash
  <2>2. UNCHANGED <<file, starts, beat, end>> /\ stop' \in BOOLEAN
    BY <1>0, <1>4 DEF Check, CleanUp, BindFails, Crash, TypeOK
  <2>3. TypeOK'
    BY <1>0, <2>1, <2>2, GoToFacts DEF TypeOK
  <2>4. QED
    BY <2>1, <2>2, <2>3, QuietInv
<1>5. QED
  BY <1>1, <1>2, <1>3, <1>4 DEF Work, Interrupt

\* The invariant holds of every state that is reached with care.
LEMMA Inductive == CarefulSpec => []LockInv
<1>1. Init => LockInv
  <2> SUFFICES ASSUME Init PROVE LockInv
    OBVIOUS
  <2>1. "running" \in End /\ "down" \in Phase /\ "down" \notin Attempt \cup Inside
    BY DEF Phase, End, Attempt, Inside, Serving, Leaving
  <2>2. TypeOK
    BY <2>1 DEF Init, TypeOK
  <2>3. FileIsOwn
    BY <2>1 DEF Init, FileIsOwn
  <2>4. QED
    BY <2>2, <2>3 DEF LockInv
<1>2. LockInv /\ [Next /\ UnlinksDead]_vars => LockInv'
  <2> SUFFICES ASSUME LockInv, [Next /\ UnlinksDead]_vars PROVE LockInv'
    OBVIOUS
  <2>1. ASSUME NEW p \in Proc, Begin(p) PROVE LockInv'
    BY <2>1, BeginInv
  <2>2. ASSUME UnlinksDead, NEW p \in Proc, Acquire(p) PROVE LockInv'
    BY <2>2, AcquireInv
  <2>3. ASSUME NEW p \in Proc, Work(p) \/ Interrupt(p) PROVE LockInv'
    BY <2>3, ServeInv
  <2>4. CASE RequestStop
    BY <2>4 DEF RequestStop, LockInv, TypeOK, FileIsOwn, TokenOf
  <2>5. CASE UNCHANGED vars
    BY <2>5 DEF vars, LockInv, TypeOK, FileIsOwn, TokenOf
  <2>6. QED
    BY <2>1, <2>2, <2>3, <2>4, <2>5 DEF Next
<1>3. QED
  BY <1>1, <1>2, PTL DEF CarefulSpec

-----------------------------------------------------------------------------
(* The theorems *)

\* Whoever serves is the live service owner that other processes read from the
\* lock file.
THEOREM ServiceIsVisible == CarefulSpec => []ServingIsVisible
<1>1. LockInv => ServingIsVisible
  BY DEF LockInv, FileIsOwn, ServingIsVisible, Inside, Serving
<1>2. QED
  BY <1>1, Inductive, PTL

\* The processes inside after a step of p.
LEMMA InsideStep ==
  ASSUME LockInv, NEW p \in Proc, Begin(p) \/ Acquire(p) \/ Work(p) \/ Interrupt(p)
  PROVE  LET owners == {q \in Proc : phase[q] \in Inside}
         IN  \/ owners' = owners
             \/ owners = {} /\ owners' = {p}
             \/ p \in owners /\ owners' = owners \ {p}
<1> DEFINE owners == {q \in Proc : phase[q] \in Inside}
<1>1. PICK s : GoTo(p, s)
  BY DEF Begin, Acquire, Create, Exists, Write, Refused, TakenForDead, Unlink,
         UnlinkFails, Work, Enter, OpenConsole, StopSeen, Beat, NextCycle, LastBeat,
         Check, Release, CleanUp, Interrupt, BindFails, LoopEnds, Crash
<1>2. phase'[p] = s /\ \A q \in Proc \ {p} : phase'[q] = phase[q]
  BY <1>1, GoToFacts DEF LockInv, TypeOK
<1>3. CASE Create(p)
  <2>1. owners = {}
    BY <1>3, NoFile DEF Create
  <2>2. phase'[p] \in Inside
    BY <1>3, GoToFacts DEF Create, LockInv, TypeOK, Inside
  <2>3. QED
    BY <1>2, <2>1, <2>2
<1>4. CASE phase[p] \in Inside
  BY <1>2, <1>4
<1>5. CASE phase[p] \notin Inside /\ ~Create(p)
  <2>1. s \notin Inside
    BY <1>2, <1>5, GoToFacts DEF LockInv, TypeOK, Inside, Serving, Leaving, Begin, Acquire, Exists,
       Write, Refused, TakenForDead, Unlink, UnlinkFails, Work, Enter, OpenConsole, StopSeen,
       Beat, NextCycle, LastBeat, Check, Release, CleanUp, Interrupt, BindFails, LoopEnds, Crash
  <2>2. QED
    BY <1>2, <1>5, <2>1
<1>6. QED
  BY <1>3, <1>4, <1>5

\* service.py:30-70: however many attempts overlap, crash or release late, a
\* process gets in only when everybody is out, unless an attempt unlinks the file
\* of a process that lives.  That one step is all that can break the lock.
THEOREM LockIsMutex == CarefulSpec => ImplementsMutex
<1>1. Init => Workspace!Init
  BY DEF Init, Workspace!Init, Inside, Serving, Leaving
<1>2. LockInv /\ [Next]_vars => [Workspace!Next]_({p \in Proc : phase[p] \in Inside})
  <2> SUFFICES ASSUME LockInv, [Next]_vars
               PROVE  [Workspace!Next]_({p \in Proc : phase[p] \in Inside})
    OBVIOUS
  <2>1. ASSUME NEW p \in Proc, Begin(p) \/ Acquire(p) \/ Work(p) \/ Interrupt(p)
        PROVE  [Workspace!Next]_({q \in Proc : phase[q] \in Inside})
    BY <2>1, InsideStep DEF Workspace!Next, Workspace!Enter, Workspace!Leave
  <2>2. CASE RequestStop \/ UNCHANGED vars
    BY <2>2 DEF RequestStop, vars
  <2>3. QED
    BY <2>1, <2>2 DEF Next
<1>3. QED
  BY <1>1, <1>2, Inductive, PTL DEF CarefulSpec, ImplementsMutex, Workspace!Spec

\* Every step of a process keeps the types, whether or not attempts overlap.
LEMMA TypeStep ==
  ASSUME TypeOK, NEW p \in Proc, Begin(p) \/ Acquire(p) \/ Work(p) \/ Interrupt(p)
  PROVE  TypeOK'
<1>0. /\ "running" \in End /\ "stopped" \in End /\ end[p] \in End /\ TokenOf(p) \in Token
      /\ starts[p] + 1 \in Nat
  BY DEF End, TypeOK, TokenOf, Token
<1>1. PICK s \in Phase : GoTo(p, s)
  BY DEF Begin, Acquire, Create, Exists, Write, Refused, TakenForDead, Unlink,
         UnlinkFails, Work, Enter, OpenConsole, StopSeen, Beat, NextCycle, LastBeat,
         Check, Release, CleanUp, Interrupt, BindFails, LoopEnds, Crash,
         Phase, Attempt, Inside, Serving, Leaving
<1>2. phase' \in [Proc -> Phase]
  BY <1>1 DEF GoTo, TypeOK
<1>3. CASE Begin(p)
  BY <1>0, <1>2, <1>3 DEF Begin, TypeOK
<1>4. CASE Acquire(p)
  <2>1. file' \in File \cup {NONE}
    <3>1. CASE Create(p)
      BY <1>0, <3>1 DEF Create, File
    <3>2. CASE Write(p)
      BY <3>2 DEF Write, TypeOK, File
    <3>3. CASE Exists(p) \/ Refused(p) \/ TakenForDead(p) \/ Unlink(p) \/ UnlinkFails(p)
      BY <3>3 DEF Exists, Refused, TakenForDead, Unlink, UnlinkFails, TypeOK
    <3>4. QED
      BY <1>4, <3>1, <3>2, <3>3 DEF Acquire
  <2>2. UNCHANGED <<stop, beat, end, starts>>
    BY <1>4 DEF Acquire, Create, Exists, Write, Refused, TakenForDead, Unlink, UnlinkFails
  <2>3. QED
    BY <1>2, <2>1, <2>2 DEF TypeOK
<1>5. CASE Work(p)
  <2>1. CASE Enter(p) \/ StopSeen(p) \/ NextCycle(p) \/ Check(p) \/ Release(p)
    BY <1>0, <1>2, <2>1 DEF Enter, StopSeen, NextCycle, Check, Release, TypeOK
  <2>2. CASE OpenConsole(p) \/ Beat(p) \/ LastBeat(p)
    BY <1>0, <1>2, <2>2 DEF OpenConsole, Beat, LastBeat, TypeOK
  <2>3. CASE CleanUp(p)
    <3>1. stop' \in BOOLEAN
      BY <2>3, Zenon DEF CleanUp
    <3>2. QED
      BY <1>2, <2>3, <3>1 DEF CleanUp, TypeOK
  <2>4. QED
    BY <1>5, <2>1, <2>2, <2>3 DEF Work
<1>6. CASE Interrupt(p)
  <2>1. CASE BindFails(p) \/ Crash(p)
    BY <1>2, <2>1 DEF BindFails, Crash, TypeOK
  <2>2. ASSUME NEW how \in End, LoopEnds(p, how) PROVE TypeOK'
    BY <1>2, <2>2 DEF LoopEnds, TypeOK
  <2>3. QED
    BY <1>6, <2>1, <2>2 DEF Interrupt
<1>7. QED
  BY <1>3, <1>4, <1>5, <1>6

\* Every variable of ServiceLock has its type, whether or not attempts overlap.
THEOREM TypeCorrect == Spec => []TypeOK
<1>1. Init => TypeOK
  <2> SUFFICES ASSUME Init PROVE TypeOK
    OBVIOUS
  <2>1. "running" \in End /\ "down" \in Phase
    BY DEF Phase, End
  <2>2. QED
    BY <2>1 DEF Init, TypeOK
<1>2. TypeOK /\ [Next]_vars => TypeOK'
  <2> SUFFICES ASSUME TypeOK, [Next]_vars PROVE TypeOK'
    OBVIOUS
  <2>1. CASE RequestStop \/ UNCHANGED vars
    BY <2>1 DEF RequestStop, vars, TypeOK
  <2>2. QED
    BY <2>1, TypeStep DEF Next
<1>3. QED
  BY <1>1, <1>2, PTL DEF Spec

\* Only a process that is inside writes a heartbeat: nobody else's covers that
\* of a process in a cycle.
THEOREM CyclesBehindBeat == CarefulSpec => []CyclesBehindOwnBeat
<1>1. Init => CyclesBehindOwnBeat
  BY DEF Init, CyclesBehindOwnBeat
<1>2. LockInv /\ CyclesBehindOwnBeat /\ [Next]_vars => CyclesBehindOwnBeat'
  <2> SUFFICES ASSUME LockInv, CyclesBehindOwnBeat, [Next]_vars,
                      NEW q \in Proc, phase'[q] = "cycling"
               PROVE  beat' = [state |-> "running", token |-> TokenOf(q)']
    BY DEF CyclesBehindOwnBeat
  <2>1. ASSUME NEW p \in Proc, Begin(p) \/ Acquire(p) \/ Work(p) \/ Interrupt(p)
        PROVE  beat' = [state |-> "running", token |-> TokenOf(q)']
    <3>1. PICK s : GoTo(p, s)
      BY <2>1 DEF Begin, Acquire, Create, Exists, Write, Refused, TakenForDead, Unlink,
             UnlinkFails, Work, Enter, OpenConsole, StopSeen, Beat, NextCycle, LastBeat,
             Check, Release, CleanUp, Interrupt, BindFails, LoopEnds, Crash
    <3>2. phase'[p] = s /\ \A r \in Proc \ {p} : phase'[r] = phase[r]
      BY <3>1, GoToFacts DEF LockInv, TypeOK
    <3>3. CASE q = p
      <4>1. OpenConsole(p) \/ Beat(p)
        BY <2>1, <3>2, <3>3, GoToFacts DEF LockInv, TypeOK, Begin, Acquire, Create, Exists, Write,
           Refused, TakenForDead, Unlink, UnlinkFails, Work, Enter, StopSeen, NextCycle,
           LastBeat, Check, Release, CleanUp, Interrupt, BindFails, LoopEnds, Crash, GoTo
      <4>2. QED
        BY <3>3, <4>1 DEF OpenConsole, Beat, TokenOf
    <3>4. CASE q # p
      <4>1. phase[q] = "cycling" /\ phase[q] \in Inside
        BY <3>2, <3>4 DEF Inside, Serving
      <4>2. phase[p] \notin Inside
        BY <3>4, <4>1, OneInside
      <4>3. beat' = beat
        BY <2>1, <4>2 DEF Inside, Serving, Leaving, Begin, Acquire, Create, Exists, Write, Refused,
           TakenForDead, Unlink, UnlinkFails, Work, Enter, OpenConsole, StopSeen, Beat, NextCycle,
           LastBeat, Check, Release, CleanUp, Interrupt, BindFails, LoopEnds, Crash
      <4>4. starts'[q] = starts[q]
        BY <2>1, <3>4 DEF LockInv, TypeOK, Begin, Acquire, Create, Exists, Write, Refused,
           TakenForDead, Unlink, UnlinkFails, Work, Enter, OpenConsole, StopSeen, Beat, NextCycle,
           LastBeat, Check, Release, CleanUp, Interrupt, BindFails, LoopEnds, Crash
      <4>5. QED
        BY <4>1, <4>3, <4>4 DEF CyclesBehindOwnBeat, TokenOf
    <3>5. QED
      BY <3>3, <3>4
  <2>2. CASE RequestStop \/ UNCHANGED vars
    BY <2>2 DEF RequestStop, vars, CyclesBehindOwnBeat, TokenOf
  <2>3. QED
    BY <2>1, <2>2 DEF Next
<1>3. QED
  BY <1>1, <1>2, Inductive, PTL DEF CarefulSpec

=============================================================================
