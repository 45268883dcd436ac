---------------------------- MODULE Inbox_proofs ----------------------------
(***************************************************************************)
(* Proofs about Inbox, for any number of messages and lanes, any limit of   *)
(* a routing cycle and any number of restarts.                              *)
(***************************************************************************)
EXTENDS Inbox, TLAPS

(* The three safety properties lean on one another's copies: a row returns  *)
(* to the table from the desk of a person or from the list of the router.   *)

\* Whatever copy of a message is executable, a person allowed it.
CopiesAllowed ==
  /\ \A m \in Msg : mail[m].executable => m \in allowed
  /\ \A m \in Msg : copy[m] # NONE /\ copy[m].executable => m \in allowed
  /\ desk # NONE /\ desk.row.executable => desk.msg \in allowed

\* What is copied or has a task was sent, and what a person promotes was read pending.
CopiesSent ==
  /\ \A m \in Msg : copy[m] # NONE \/ job[m] # "none" => mail[m].status # "absent"
  /\ desk # NONE => /\ mail[desk.msg].status # "absent"
                    /\ desk.verb = "promote" => desk.row.status = "pending"

\* Creation order tells the messages apart, so that the turn is one message's.
Ordered ==
  /\ \A m \in Msg : sent[m] <= clock
  /\ \A m, n \in Msg :
       /\ mail[m].status # "absent" /\ mail[n].status # "absent"
       /\ sent[m] = sent[n]
       => m = n

\* A thread has a task, and so has a submitted message whose turn it is; what
\* the router holds about a completed task is true of it.
Answered ==
  /\ \A m \in Msg : job[m] = "completed" => m \in done
  /\ \A m \in Msg : thread[m] # "out" => job[m] # "none"
  /\ stage \in {"submitted", "routed"} =>
       \A m \in Msg : Turn(m) => /\ job[m] # "none"
                                 /\ found = "completed" => m \in done

InboxInv ==
  /\ TypeOK
  /\ CopiesAllowed /\ WorkWasAllowed
  /\ CopiesSent /\ Ordered
  /\ Answered /\ RoutedHasTask /\ DeliveredForCause

-----------------------------------------------------------------------------
(* Rows *)

\* A row with another status keeps its other columns.
LEMMA RowFacts ==
  ASSUME NEW r \in Row, NEW s \in MailStatus
  PROVE  /\ WithStatus(r, s) \in Row
         /\ WithStatus(r, s).status = s
         /\ WithStatus(r, s).executable = r.executable
BY DEF Row, WithStatus

\* Saving a row changes that row only.
LEMMA SaveFacts ==
  ASSUME NEW m \in Msg, NEW row \in Row, mail \in [Msg -> Row], Save(m, row)
  PROVE  /\ mail' \in [Msg -> Row]
         /\ mail'[m] = row
         /\ \A n \in Msg \ {m} : mail'[n] = mail[n]
BY DEF Save

\* Following a task changes nothing but the status of a row, and makes it
\* `delivered` only for a completed task.
LEMMA SyncedFacts ==
  ASSUME NEW r \in Row, NEW s
  PROVE  /\ Synced(r, s) \in Row
         /\ Synced(r, s).executable = r.executable
         /\ \/ Synced(r, s).status = r.status
            \/ Synced(r, s).status = "dead_letter"
            \/ Synced(r, s).status = "delivered" /\ s = "completed"
<1>1. "delivered" \in MailStatus /\ "dead_letter" \in MailStatus
  BY DEF MailStatus
<1>2. CASE s = "completed"
  BY <1>1, <1>2, RowFacts DEF Synced
<1>3. CASE s \in {"failed", "expired"}
  BY <1>1, <1>3, RowFacts DEF Synced
<1>4. CASE s \notin {"completed", "failed", "expired"}
  BY <1>4 DEF Synced
<1>5. QED
  BY <1>2, <1>3, <1>4

\* New mail keeps every row but its own, whose time is later than all others.
LEMMA NewMailFacts ==
  ASSUME NEW m \in Msg, NEW l \in Lane, NEW x \in BOOLEAN, InboxInv, NewMail(m, l, x)
  PROVE  /\ mail' \in [Msg -> Row]
         /\ mail'[m].status = "pending" /\ mail'[m].executable = x
         /\ \A n \in Msg \ {m} : mail'[n] = mail[n]
         /\ sent' \in [Msg -> Nat] /\ clock' \in Nat
         /\ \A n \in Msg \ {m} : sent'[n] = sent[n]
         /\ copy[m] = NONE
         /\ Ordered'
<1> DEFINE row == [status |-> "pending", executable |-> x, target |-> l]
<1>1. row \in Row
  BY DEF Row, MailStatus
<1>2. mail \in [Msg -> Row] /\ sent \in [Msg -> Nat] /\ clock \in Nat
  BY DEF InboxInv, TypeOK
<1>3. /\ mail' \in [Msg -> Row] /\ mail'[m] = row
      /\ \A n \in Msg \ {m} : mail'[n] = mail[n]
  BY <1>1, <1>2, SaveFacts DEF NewMail
<1>4. /\ sent' \in [Msg -> Nat] /\ clock' \in Nat /\ clock' = clock + 1
      /\ sent'[m] = clock'
      /\ \A n \in Msg \ {m} : sent'[n] = sent[n]
  BY <1>2 DEF NewMail
<1>5. copy[m] = NONE
  BY DEF InboxInv, CopiesSent, NewMail
<1>6. \A n \in Msg : sent[n] <= clock
  BY DEF InboxInv, Ordered
<1>7. Ordered'
  BY <1>2, <1>3, <1>4, <1>6 DEF InboxInv, Ordered
<1>8. QED
  BY <1>3, <1>4, <1>5, <1>7

\* Sending mail, by a person or by an agent, keeps the invariant.
LEMMA NewMailInv ==
  ASSUME NEW m \in Msg, NEW l \in Lane, NEW x \in BOOLEAN, InboxInv, NewMail(m, l, x),
         allowed' = IF x THEN allowed \cup {m} ELSE allowed,
         UNCHANGED <<job, lanes, router, desk, acked, done>>
  PROVE  InboxInv'
<1> USE DEF router
<1>0. /\ mail' \in [Msg -> Row]
      /\ mail'[m].status = "pending" /\ mail'[m].executable = x
      /\ \A n \in Msg \ {m} : mail'[n] = mail[n]
      /\ sent' \in [Msg -> Nat] /\ clock' \in Nat
      /\ \A n \in Msg \ {m} : sent'[n] = sent[n]
      /\ copy[m] = NONE
      /\ Ordered'
  BY NewMailFacts
<1>1. TypeOK'
  BY <1>0 DEF InboxInv, TypeOK
<1>2. CopiesAllowed' /\ WorkWasAllowed'
  <2>1. allowed \subseteq allowed' /\ (x => m \in allowed')
    OBVIOUS
  <2>2. \A n \in Msg : mail'[n].executable => n \in allowed'
    BY <1>0, <2>1 DEF InboxInv, CopiesAllowed
  <2>3. QED
    BY <2>1, <2>2 DEF InboxInv, CopiesAllowed, WorkWasAllowed
<1>3. CopiesSent' /\ Ordered'
  <2>1. desk # NONE => desk.msg \in Msg
    BY DEF InboxInv, TypeOK, Desk
  <2>2. QED
    BY <1>0, <2>1 DEF InboxInv, CopiesSent, NewMail
<1>4. Answered'
  <2>1. ASSUME NEW n \in Msg, Turn(n)' PROVE Turn(n)
    <3>1. copy[n] # NONE /\ n # m
      BY <1>0, <2>1 DEF Turn
    <3>2. ASSUME NEW k \in Msg, copy[k] # NONE PROVE sent[n] <= sent[k]
      BY <1>0, <2>1, <3>1, <3>2 DEF Turn
    <3>3. QED
      BY <3>1, <3>2 DEF Turn
  <2>2. QED
    BY <2>1 DEF InboxInv, Answered
<1>5. RoutedHasTask' /\ DeliveredForCause'
  BY <1>0 DEF InboxInv, RoutedHasTask, DeliveredForCause
<1>6. QED
  BY <1>1, <1>2, <1>3, <1>4, <1>5 DEF InboxInv

\* Saving a row that was read keeps the invariant if the save is allowed for:
\* what is executable was allowed, what is routed has a task, what is delivered
\* was acknowledged or done.
LEMMA SaveInv ==
  ASSUME NEW m \in Msg, NEW row \in Row, InboxInv, Save(m, row),
         mail[m].status # "absent", row.status # "absent",
         row.executable => m \in allowed',
         row.status = "routed" => job[m] # "none",
         row.status = "delivered" => m \in acked' \cup done,
         allowed \subseteq allowed', acked \subseteq acked'
  PROVE  /\ mail' \in [Msg -> Row]
         /\ \A n \in Msg : mail'[n].executable => n \in allowed'
         /\ \A n \in Msg : mail[n].status # "absent" <=> mail'[n].status # "absent"
         /\ \A n \in Msg : mail'[n].status = "routed" => job[n] # "none"
         /\ \A n \in Msg : mail'[n].status = "delivered" => n \in acked' \cup done
<1>1. /\ mail' \in [Msg -> Row] /\ mail'[m] = row
      /\ \A n \in Msg \ {m} : mail'[n] = mail[n]
  BY SaveFacts DEF InboxInv, TypeOK
<1>2. \A n \in Msg : mail'[n].executable => n \in allowed'
  BY <1>1 DEF InboxInv, CopiesAllowed
<1>3. \A n \in Msg : mail'[n].status = "routed" => job[n] # "none"
  BY <1>1 DEF InboxInv, RoutedHasTask
<1>4. \A n \in Msg : mail'[n].status = "delivered" => n \in acked' \cup done
  BY <1>1 DEF InboxInv, DeliveredForCause
<1>5. QED
  BY <1>1, <1>2, <1>3, <1>4

-----------------------------------------------------------------------------
(* People *)

\* What is on the desk is a message and a row of it.
LEMMA DeskFacts ==
  ASSUME InboxInv, desk # NONE
  PROVE  /\ desk.msg \in Msg /\ desk.row \in Row
         /\ mail[desk.msg].status # "absent"
         /\ desk.verb = "promote" => desk.row.status = "pending"
         /\ desk.row.executable => desk.msg \in allowed
<1>1. desk \in Desk
  BY DEF InboxInv, TypeOK
<1>2. QED
  BY <1>1 DEF Desk, InboxInv, CopiesSent, CopiesAllowed

\* A save from the desk keeps the invariant.
LEMMA DeskSaveInv ==
  ASSUME InboxInv, SavePromoted \/ SaveAcknowledged
  PROVE  InboxInv'
<1> USE DEF router
<1>1. PICK m \in Msg, row \in Row :
        /\ Save(m, row) /\ mail[m].status # "absent"
        /\ row.status \in {"pending", "delivered"}
        /\ row.executable => m \in allowed'
        /\ row.status = "delivered" => m \in acked'
        /\ allowed' \subseteq allowed \cup {m} /\ acked' \subseteq acked \cup {m}
  <2>1. CASE SavePromoted
    <3> DEFINE row == [status |-> desk.row.status, executable |-> TRUE,
                       target |-> desk.row.target]
    <3>1. row \in Row
      BY <2>1, DeskFacts DEF SavePromoted, Row
    <3>2. QED
      BY <2>1, <3>1, DeskFacts DEF SavePromoted
  <2>2. CASE SaveAcknowledged
    <3> DEFINE row == WithStatus(desk.row, "delivered")
    <3>1. /\ row \in Row /\ row.status = "delivered"
          /\ row.executable = desk.row.executable
      BY <2>2, DeskFacts, RowFacts DEF SaveAcknowledged, MailStatus
    <3>2. QED
      BY <2>2, <3>1, DeskFacts DEF SaveAcknowledged
  <2>3. QED
    BY <2>1, <2>2
<1>2. /\ UNCHANGED <<sent, clock, job, lanes, router, done>> /\ desk' = NONE
      /\ allowed \subseteq allowed' /\ acked \subseteq acked'
  BY DEF SavePromoted, SaveAcknowledged
<1>3. /\ mail' \in [Msg -> Row]
      /\ \A n \in Msg : mail'[n].executable => n \in allowed'
      /\ \A n \in Msg : mail[n].status # "absent" <=> mail'[n].status # "absent"
      /\ \A n \in Msg : mail'[n].status = "routed" => job[n] # "none"
      /\ \A n \in Msg : mail'[n].status = "delivered" => n \in acked' \cup done
  BY <1>1, <1>2, SaveInv
<1>4. TypeOK'
  BY <1>1, <1>2, <1>3 DEF InboxInv, TypeOK
<1>5. CopiesAllowed' /\ WorkWasAllowed'
  BY <1>2, <1>3 DEF InboxInv, CopiesAllowed, WorkWasAllowed
<1>6. CopiesSent' /\ Ordered'
  BY <1>2, <1>3 DEF InboxInv, CopiesSent, Ordered
<1>7. Answered' /\ RoutedHasTask' /\ DeliveredForCause'
  BY <1>2, <1>3 DEF InboxInv, Answered, Turn, RoutedHasTask, DeliveredForCause
<1>8. QED
  BY <1>4, <1>5, <1>6, <1>7 DEF InboxInv

\* What people do keeps the invariant.
LEMMA PeopleInv ==
  ASSUME InboxInv, People
  PROVE  InboxInv'
<1> USE DEF router
<1>1. ASSUME NEW l \in Lane, RegisterLane(l) PROVE InboxInv'
  <2>1. TypeOK'
    BY <1>1 DEF InboxInv, TypeOK, RegisterLane, past
  <2>2. /\ CopiesAllowed' /\ WorkWasAllowed' /\ CopiesSent' /\ Ordered'
        /\ RoutedHasTask' /\ DeliveredForCause'
    BY <1>1 DEF InboxInv, RegisterLane, past, CopiesAllowed, WorkWasAllowed,
                CopiesSent, Ordered, RoutedHasTask, DeliveredForCause
  <2>3. Answered'
    BY <1>1 DEF InboxInv, RegisterLane, past, Answered, Turn
  <2>4. QED
    BY <2>1, <2>2, <2>3 DEF InboxInv
<1>2. ASSUME NEW m \in Msg, NEW l \in Lane, NEW executable \in BOOLEAN,
             Send(m, l, executable)
      PROVE  InboxInv'
  BY <1>2, NewMailInv DEF Send
<1>3. ASSUME NEW m \in Msg, NEW verb \in {"promote", "acknowledge"}, Read(m, verb)
      PROVE  InboxInv'
  <2> USE DEF store, past
  <2>1. /\ desk' = [verb |-> verb, msg |-> m, row |-> mail[m]]
        /\ mail[m].status # "absent" /\ mail[m] \in Row
        /\ verb = "promote" => mail[m].status = "pending"
        /\ UNCHANGED <<mail, sent, clock, job, lanes, router, allowed, acked, done>>
    BY <1>3 DEF Read, IsPending, InboxInv, TypeOK
  <2>2. TypeOK'
    <3>1. desk' \in Desk
      BY <2>1 DEF Desk
    <3>2. QED
      BY <2>1, <3>1 DEF InboxInv, TypeOK
  <2>3. CopiesAllowed' /\ WorkWasAllowed'
    BY <2>1 DEF InboxInv, CopiesAllowed, WorkWasAllowed
  <2>4. CopiesSent' /\ Ordered'
    BY <2>1 DEF InboxInv, CopiesSent, Ordered
  <2>5. Answered' /\ RoutedHasTask' /\ DeliveredForCause'
    BY <2>1 DEF InboxInv, Answered, Turn, RoutedHasTask, DeliveredForCause
  <2>6. QED
    BY <2>2, <2>3, <2>4, <2>5 DEF InboxInv
<1>4. ASSUME SavePromoted \/ SaveAcknowledged PROVE InboxInv'
  BY <1>4, DeskSaveInv
<1>5. ASSUME NEW m \in Msg, NEW s \in {"paused", "queued"}, SetJob(m, s)
      PROVE  InboxInv'
  <2>1. /\ job[m] # "none" /\ job' \in [Msg -> JobStatus]
        /\ job'[m] \in {"paused", "queued"}
        /\ \A n \in Msg \ {m} : job'[n] = job[n]
        /\ UNCHANGED <<mail, sent, clock, lanes, router, desk, allowed, acked, done>>
    BY <1>5 DEF SetJob, InboxInv, TypeOK, JobStatus, past
  <2>2. TypeOK'
    BY <2>1 DEF InboxInv, TypeOK
  <2>3. CopiesAllowed' /\ WorkWasAllowed' /\ CopiesSent' /\ Ordered'
    BY <2>1 DEF InboxInv, CopiesAllowed, WorkWasAllowed, CopiesSent, Ordered
  <2>4. Answered' /\ RoutedHasTask' /\ DeliveredForCause'
    BY <2>1 DEF InboxInv, Answered, Turn, RoutedHasTask, DeliveredForCause
  <2>5. QED
    BY <2>2, <2>3, <2>4 DEF InboxInv
<1>6. QED
  BY <1>1, <1>2, <1>3, <1>4, <1>5 DEF People

-----------------------------------------------------------------------------
(* The router *)

\* Starting and stopping keep the invariant.
LEMMA StartCrashInv ==
  ASSUME InboxInv, Start \/ Crash
  PROVE  InboxInv'
<1> USE DEF store, past
<1>1. CASE Start
  <2>1. TypeOK'
    BY <1>1 DEF Start, InboxInv, TypeOK, JobStatus
  <2>2. \A m \in Msg : /\ job'[m] = "none" <=> job[m] = "none"
                       /\ job'[m] = "completed" <=> job[m] = "completed"
    BY <1>1 DEF Start
  <2>3. CopiesAllowed' /\ WorkWasAllowed' /\ CopiesSent' /\ Ordered'
    BY <1>1, <2>2 DEF Start, InboxInv, CopiesAllowed, WorkWasAllowed, CopiesSent, Ordered
  <2>4. Answered' /\ RoutedHasTask' /\ DeliveredForCause'
    BY <1>1, <2>2 DEF Start, InboxInv, Answered, RoutedHasTask, DeliveredForCause
  <2>5. QED
    BY <2>1, <2>3, <2>4 DEF InboxInv
<1>2. CASE Crash
  <2>1. TypeOK'
    BY <1>2 DEF Crash, InboxInv, TypeOK, JobStatus
  <2>2. CopiesAllowed' /\ WorkWasAllowed' /\ CopiesSent' /\ Ordered'
    BY <1>2 DEF Crash, InboxInv, CopiesAllowed, WorkWasAllowed, CopiesSent, Ordered
  <2>3. Answered' /\ RoutedHasTask' /\ DeliveredForCause'
    BY <1>2 DEF Crash, InboxInv, Answered, RoutedHasTask, DeliveredForCause
  <2>4. QED
    BY <2>1, <2>2, <2>3 DEF InboxInv
<1>3. QED
  BY <1>1, <1>2

\* The start of a cycle keeps the invariant: what lapses was queued, paused or
\* pending, and what is listed is a row of the table.
LEMMA CycleInv ==
  ASSUME NEW E, NEW X, InboxInv, Cycle(E, X)
  PROVE  InboxInv'
<1> USE DEF past
<1>1. /\ job' \in [Msg -> JobStatus]
      /\ \A m \in Msg : /\ job'[m] = "none" <=> job[m] = "none"
                        /\ job'[m] = "completed" => job[m] = "completed"
  BY DEF Cycle, InboxInv, TypeOK, JobStatus
<1>2. /\ mail' \in [Msg -> Row]
      /\ \A m \in Msg : /\ mail'[m].executable = mail[m].executable
                        /\ mail[m].status # "absent" <=> mail'[m].status # "absent"
                        /\ mail'[m] = mail[m] \/ mail'[m].status = "expired"
  <2>1. \A m \in Msg : mail[m] \in Row /\ (m \in X => mail[m].status # "absent")
    BY DEF Cycle, IsPending, InboxInv, TypeOK
  <2>2. mail' = [m \in Msg |-> IF m \in X THEN WithStatus(mail[m], "expired") ELSE mail[m]]
    BY DEF Cycle, Expired
  <2>3. \A m \in Msg : m \in X => /\ mail'[m] \in Row /\ mail'[m].status = "expired"
                                  /\ mail'[m].executable = mail[m].executable
    BY <2>1, <2>2, RowFacts DEF MailStatus
  <2>4. \A m \in Msg : m \notin X => mail'[m] = mail[m]
    BY <2>2
  <2>5. mail' \in [Msg -> Row]
    BY <2>1, <2>2, <2>3, <2>4
  <2>6. QED
    BY <2>1, <2>3, <2>4, <2>5
<1>3. /\ copy' \in [Msg -> Row \cup {NONE}]
      /\ \A m \in Msg : copy'[m] # NONE => /\ copy'[m] = mail[m]
                                           /\ mail'[m].status = "pending"
  BY DEF Cycle, Listed, InboxInv, TypeOK
<1>4. /\ stage' = "routing"
      /\ UNCHANGED <<sent, clock, lanes, found, thread, starts, desk, allowed, acked, done>>
  BY DEF Cycle
<1>5. TypeOK'
  BY <1>1, <1>2, <1>3, <1>4 DEF InboxInv, TypeOK
<1>6. CopiesAllowed' /\ WorkWasAllowed'
  BY <1>1, <1>2, <1>3, <1>4 DEF InboxInv, CopiesAllowed, WorkWasAllowed
<1>7. CopiesSent' /\ Ordered'
  <2>1. desk # NONE => desk.msg \in Msg
    BY DeskFacts
  <2>2. QED
    BY <1>1, <1>2, <1>3, <1>4, <2>1 DEF InboxInv, CopiesSent, Ordered
<1>8. Answered' /\ RoutedHasTask' /\ DeliveredForCause'
  BY <1>1, <1>2, <1>4 DEF InboxInv, Answered, RoutedHasTask, DeliveredForCause
<1>9. QED
  BY <1>5, <1>6, <1>7, <1>8 DEF InboxInv

\* The turn is one message's.
LEMMA TurnUnique ==
  ASSUME NEW m \in Msg, NEW n \in Msg, InboxInv, Turn(m), Turn(n)
  PROVE  m = n
<1>1. sent[m] <= sent[n] /\ sent[n] <= sent[m] /\ sent[m] \in Nat /\ sent[n] \in Nat
  BY DEF Turn, InboxInv, TypeOK
<1>2. mail[m].status # "absent" /\ mail[n].status # "absent"
  BY DEF Turn, InboxInv, CopiesSent
<1>3. QED
  BY <1>1, <1>2 DEF InboxInv, Ordered

\* The copy whose turn it is, and what the router may save of it.
LEMMA TurnFacts ==
  ASSUME NEW m \in Msg, InboxInv, Turn(m)
  PROVE  /\ copy[m] \in Row /\ mail[m] \in Row
         /\ mail[m].status # "absent"
         /\ copy[m].executable => m \in allowed
         /\ mail[m].executable => m \in allowed
BY DEF Turn, InboxInv, TypeOK, CopiesAllowed, CopiesSent

\* A save by the router from a copy keeps the invariant but for the router's
\* own position.
LEMMA RouterSaveInv ==
  ASSUME NEW m \in Msg, NEW row \in Row, InboxInv, Turn(m), Save(m, row),
         row.status # "absent",
         row.executable => m \in allowed,
         row.status = "routed" => job[m] # "none",
         row.status = "delivered" => m \in acked \cup done,
         \/ stage' = "routing" /\ Drop(m)
         \/ stage' = "routed" /\ stage = "submitted" /\ copy' = copy,
         found' \in {found, "none"},
         UNCHANGED <<sent, clock, job, lanes, thread, starts, desk, past>>
  PROVE  InboxInv'
<1> USE DEF past
<1>1. mail[m].status # "absent"
  BY TurnFacts
<1>2. /\ mail' \in [Msg -> Row]
      /\ \A n \in Msg : mail'[n].executable => n \in allowed'
      /\ \A n \in Msg : mail[n].status # "absent" <=> mail'[n].status # "absent"
      /\ \A n \in Msg : mail'[n].status = "routed" => job[n] # "none"
      /\ \A n \in Msg : mail'[n].status = "delivered" => n \in acked' \cup done
  BY <1>1, SaveInv
<1>3. /\ copy' \in [Msg -> Row \cup {NONE}]
      /\ \A n \in Msg : copy'[n] # NONE => copy'[n] = copy[n]
  BY DEF Drop, InboxInv, TypeOK
<1>4. TypeOK'
  <2>1. stage' = "routed" => \E n \in Msg : copy'[n] # NONE
    BY DEF Turn
  <2>2. found' \in JobStatus
    BY DEF InboxInv, TypeOK, JobStatus
  <2>3. QED
    BY <1>2, <1>3, <2>1, <2>2 DEF InboxInv, TypeOK
<1>5. CopiesAllowed' /\ WorkWasAllowed'
  BY <1>2, <1>3 DEF InboxInv, CopiesAllowed, WorkWasAllowed
<1>6. CopiesSent' /\ Ordered'
  <2>1. desk # NONE => desk.msg \in Msg
    BY DeskFacts
  <2>2. QED
    BY <1>2, <1>3, <2>1 DEF InboxInv, CopiesSent, Ordered
<1>7. Answered'
  BY DEF InboxInv, Answered, Turn
<1>8. RoutedHasTask' /\ DeliveredForCause'
  BY <1>2 DEF RoutedHasTask, DeliveredForCause
<1>9. QED
  BY <1>4, <1>5, <1>6, <1>7, <1>8 DEF InboxInv

\* Submitting a task keeps the invariant: the message was allowed, and what the
\* router remembers is the status of its task.
LEMMA SubmitInv ==
  ASSUME NEW m \in Msg, InboxInv, Submit(m)
  PROVE  InboxInv'
<1> USE DEF past
<1>1. /\ Turn(m) /\ copy[m].executable
      /\ job' = [job EXCEPT ![m] = found'] /\ stage' = "submitted"
      /\ found' = IF job[m] = "none" THEN "queued" ELSE job[m]
      /\ UNCHANGED <<mail, sent, clock, lanes, copy, thread, starts, desk, allowed, acked, done>>
  BY DEF Submit, Routing, Executable
<1>2. /\ job' \in [Msg -> JobStatus] /\ found' \in JobStatus
      /\ job'[m] = found' /\ found' # "none"
      /\ found' = "completed" => m \in done
      /\ \A n \in Msg \ {m} : job'[n] = job[n]
      /\ \A n \in Msg : job[n] # "none" => job'[n] # "none"
  BY <1>1 DEF InboxInv, TypeOK, JobStatus, Answered
<1>3. TypeOK'
  BY <1>1, <1>2 DEF InboxInv, TypeOK, Turn
<1>4. CopiesAllowed' /\ WorkWasAllowed'
  BY <1>1, <1>2, TurnFacts DEF InboxInv, CopiesAllowed, WorkWasAllowed
<1>5. CopiesSent' /\ Ordered'
  BY <1>1, <1>2, TurnFacts DEF InboxInv, CopiesSent, Ordered
<1>6. Answered'
  <2>1. ASSUME NEW n \in Msg, Turn(n)' PROVE n = m
    BY <1>1, <2>1, TurnUnique DEF Turn
  <2>2. QED
    BY <1>1, <1>2, <2>1 DEF InboxInv, Answered
<1>7. RoutedHasTask' /\ DeliveredForCause'
  BY <1>1, <1>2 DEF InboxInv, RoutedHasTask, DeliveredForCause
<1>8. QED
  BY <1>3, <1>4, <1>5, <1>6, <1>7 DEF InboxInv

\* The router's steps keep the invariant.
LEMMA RouteInv ==
  ASSUME InboxInv, Route
  PROVE  InboxInv'
<1> USE DEF store, past
<1>1. ASSUME NEW E, NEW X, Cycle(E, X) PROVE InboxInv'
  BY <1>1, CycleInv
<1>2. ASSUME NEW m \in Msg, Refuse(m) PROVE InboxInv'
  <2> DEFINE row == WithStatus(copy[m], "dead_letter")
  <2>1. Turn(m) /\ Save(m, row) /\ Drop(m)
    BY <1>2 DEF Refuse, Routing
  <2>2. row \in Row /\ row.status = "dead_letter" /\ row.executable = copy[m].executable
    BY <2>1, TurnFacts, RowFacts DEF MailStatus
  <2>3. row.executable => m \in allowed
    BY <2>1, <2>2, TurnFacts
  <2>4. QED
    <3>1. /\ stage' = "routing" /\ found' = found
          /\ UNCHANGED <<sent, clock, job, lanes, thread, starts, desk, past>>
      BY <1>2 DEF Refuse, Routing
    <3>2. QED
      BY <2>1, <2>2, <2>3, <3>1, RouterSaveInv
<1>3. ASSUME NEW m \in Msg, Hold(m) PROVE InboxInv'
  <2>1. /\ Drop(m) /\ stage = "routing"
        /\ UNCHANGED <<store, stage, found, thread, starts, desk, past>>
    BY <1>3 DEF Hold, Routing
  <2>2. /\ copy' \in [Msg -> Row \cup {NONE}]
        /\ \A n \in Msg : copy'[n] # NONE => copy'[n] = copy[n]
    BY <2>1 DEF Drop, InboxInv, TypeOK
  <2>3. TypeOK' /\ CopiesAllowed' /\ WorkWasAllowed' /\ CopiesSent' /\ Ordered'
    BY <2>1, <2>2 DEF InboxInv, TypeOK, CopiesAllowed, WorkWasAllowed, CopiesSent, Ordered
  <2>4. Answered' /\ RoutedHasTask' /\ DeliveredForCause'
    BY <2>1 DEF InboxInv, Answered, RoutedHasTask, DeliveredForCause
  <2>5. QED
    BY <2>3, <2>4 DEF InboxInv
<1>4. ASSUME NEW m \in Msg, Submit(m) PROVE InboxInv'
  BY <1>4, SubmitInv
<1>5. ASSUME NEW m \in Msg, MarkRouted(m) PROVE InboxInv'
  <2> DEFINE row == WithStatus(copy[m], "routed")
  <2>1. Turn(m) /\ Save(m, row) /\ stage = "submitted"
    BY <1>5 DEF MarkRouted
  <2>2. row \in Row /\ row.status = "routed" /\ row.executable = copy[m].executable
    BY <2>1, TurnFacts, RowFacts DEF MailStatus
  <2>3. row.executable => m \in allowed
    BY <2>1, <2>2, TurnFacts
  <2>4. job[m] # "none"
    BY <2>1 DEF InboxInv, Answered
  <2>5. QED
    BY <1>5, <2>1, <2>2, <2>3, <2>4, RouterSaveInv DEF MarkRouted
<1>6. ASSUME NEW m \in Msg, SyncRouted(m) PROVE InboxInv'
  <2> DEFINE row == Synced(mail[m], found)
  <2>1. Turn(m) /\ Save(m, row) /\ Drop(m) /\ stage = "routed"
    BY <1>6 DEF SyncRouted
  <2>2. /\ row \in Row /\ row.executable = mail[m].executable
        /\ \/ row.status = mail[m].status
           \/ row.status = "dead_letter"
           \/ row.status = "delivered" /\ found = "completed"
    BY <2>1, TurnFacts, SyncedFacts
  <2>3. row.executable => m \in allowed
    BY <2>1, <2>2, TurnFacts
  <2>4. row.status # "absent"
    BY <2>1, <2>2, TurnFacts
  <2>5. row.status = "routed" => job[m] # "none"
    BY <2>1 DEF InboxInv, Answered
  <2>6. row.status = "delivered" => m \in acked \cup done
    BY <2>1, <2>2 DEF InboxInv, Answered, DeliveredForCause
  <2>7. QED
    <3>1. /\ stage' = "routing" /\ found' = "none"
          /\ UNCHANGED <<sent, clock, job, lanes, thread, starts, desk, past>>
      BY <1>6 DEF SyncRouted
    <3>2. QED
      BY <2>1, <2>2, <2>3, <2>4, <2>5, <2>6, <3>1, RouterSaveInv
<1>7. ASSUME Batch PROVE InboxInv'
  <2>1. /\ stage' = "executing" /\ thread' \in [Msg -> {"batched", "out"}]
        /\ \A m \in Msg : thread'[m] # "out" => job[m] # "none"
        /\ UNCHANGED <<store, copy, found, starts, desk, past>>
    BY <1>7 DEF Batch
  <2>2. TypeOK' /\ CopiesAllowed' /\ WorkWasAllowed' /\ CopiesSent' /\ Ordered'
    BY <2>1 DEF InboxInv, TypeOK, CopiesAllowed, WorkWasAllowed, CopiesSent, Ordered
  <2>3. Answered' /\ RoutedHasTask' /\ DeliveredForCause'
    BY <2>1 DEF InboxInv, Answered, RoutedHasTask, DeliveredForCause
  <2>4. QED
    BY <2>2, <2>3 DEF InboxInv
<1>8. QED
  BY <1>1, <1>2, <1>3, <1>4, <1>5, <1>6, <1>7 DEF Route

-----------------------------------------------------------------------------
(* The execution of tasks *)

\* A step of a task's thread that moves its task along keeps the invariant.
LEMMA JobInv ==
  ASSUME NEW m \in Msg, NEW s \in JobStatus \ {"none"}, InboxInv,
         job' = [job EXCEPT ![m] = s], job[m] # "none",
         thread' \in [Msg -> {"out", "batched", "running", "finished"}],
         \A n \in Msg : thread'[n] # "out" => thread[n] # "out",
         s = "completed" => m \in done', done \subseteq done', done' \subseteq Msg,
         UNCHANGED <<mail, sent, clock, lanes, stage, copy, found, starts, desk,
                     allowed, acked>>
  PROVE  InboxInv'
<1>1. /\ job' \in [Msg -> JobStatus] /\ job'[m] = s
      /\ \A n \in Msg \ {m} : job'[n] = job[n]
  BY DEF InboxInv, TypeOK
<1>2. TypeOK'
  BY <1>1 DEF InboxInv, TypeOK
<1>3. CopiesAllowed' /\ WorkWasAllowed' /\ CopiesSent' /\ Ordered'
  BY <1>1 DEF InboxInv, CopiesAllowed, WorkWasAllowed, CopiesSent, Ordered
<1>4. Answered' /\ RoutedHasTask' /\ DeliveredForCause'
  BY <1>1 DEF InboxInv, Answered, Turn, RoutedHasTask, DeliveredForCause
<1>5. QED
  BY <1>2, <1>3, <1>4 DEF InboxInv

\* The steps of a task's thread keep the invariant.
LEMMA WorkInv ==
  ASSUME NEW m \in Msg, InboxInv, Work(m)
  PROVE  InboxInv'
<1>0. thread \in [Msg -> {"out", "batched", "running", "finished"}] /\ done \subseteq Msg
  BY DEF InboxInv, TypeOK
<1>1. CASE Run(m)
  <2>1. /\ job' = [job EXCEPT ![m] = "running"] /\ job[m] # "none"
        /\ thread' \in [Msg -> {"out", "batched", "running", "finished"}]
        /\ \A n \in Msg : thread'[n] # "out" => thread[n] # "out"
    BY <1>0, <1>1 DEF Run, InboxInv, Answered
  <2>2. "running" \in JobStatus \ {"none"}
    BY DEF JobStatus
  <2>3. QED
    BY <1>0, <1>1, <2>1, <2>2, JobInv DEF Run, past
<1>2. ASSUME NEW n \in Msg, NEW l \in Lane, Propose(m, n, l) PROVE InboxInv'
  <2>1. /\ NewMail(n, l, FALSE)
        /\ allowed' = IF FALSE THEN allowed \cup {n} ELSE allowed
        /\ UNCHANGED <<job, lanes, router, desk, acked, done>>
    BY <1>2 DEF Propose, past
  <2>2. QED
    BY <2>1, NewMailInv
<1>3. ASSUME NEW outcome \in {"completed", "failed"}, Finish(m, outcome)
      PROVE  InboxInv'
  <2>1. /\ job' = [job EXCEPT ![m] = outcome] /\ job[m] # "none"
        /\ thread' \in [Msg -> {"out", "batched", "running", "finished"}]
        /\ \A n \in Msg : thread'[n] # "out" => thread[n] # "out"
    BY <1>0, <1>3 DEF Finish, InboxInv, Answered
  <2>2. outcome \in JobStatus \ {"none"}
    BY DEF JobStatus
  <2>3. /\ outcome = "completed" => m \in done'
        /\ done \subseteq done' /\ done' \subseteq Msg
    BY <1>0, <1>3 DEF Finish
  <2>4. QED
    BY <1>3, <2>1, <2>2, <2>3, JobInv DEF Finish
<1>4. CASE SyncDone(m)
  <2> DEFINE row == Synced(mail[m], job[m])
  <2>1. /\ thread[m] = "finished" /\ Save(m, row)
        /\ thread' = [thread EXCEPT ![m] = "out"]
        /\ UNCHANGED <<sent, clock, job, lanes, stage, copy, found, starts, desk,
                       allowed, acked, done>>
    BY <1>4 DEF SyncDone, past
  <2>2. job[m] # "none"
    BY <2>1 DEF InboxInv, Answered
  <2>3. mail[m] \in Row /\ m \in allowed /\ mail[m].status # "absent"
    BY <2>2 DEF InboxInv, TypeOK, WorkWasAllowed, CopiesSent
  <2>4. /\ row \in Row /\ row.status # "absent"
        /\ row.executable => m \in allowed
        /\ row.status = "routed" => job[m] # "none"
        /\ row.status = "delivered" => m \in acked \cup done
    BY <2>2, <2>3, SyncedFacts DEF InboxInv, Answered, DeliveredForCause
  <2>5. /\ mail' \in [Msg -> Row]
        /\ \A n \in Msg : mail'[n].executable => n \in allowed'
        /\ \A n \in Msg : mail[n].status # "absent" <=> mail'[n].status # "absent"
        /\ \A n \in Msg : mail'[n].status = "routed" => job[n] # "none"
        /\ \A n \in Msg : mail'[n].status = "delivered" => n \in acked' \cup done
    BY <2>1, <2>3, <2>4, SaveInv
  <2>6. TypeOK'
    BY <1>0, <2>1, <2>5 DEF InboxInv, TypeOK
  <2>7. CopiesAllowed' /\ WorkWasAllowed'
    BY <2>1, <2>5 DEF InboxInv, CopiesAllowed, WorkWasAllowed
  <2>8. CopiesSent' /\ Ordered'
    <3>1. desk # NONE => desk.msg \in Msg
      BY DeskFacts
    <3>2. QED
      BY <2>1, <2>5, <3>1 DEF InboxInv, CopiesSent, Ordered
  <2>9. Answered' /\ RoutedHasTask' /\ DeliveredForCause'
    BY <1>0, <2>1, <2>5 DEF InboxInv, Answered, Turn, RoutedHasTask, DeliveredForCause
  <2>10. QED
    BY <2>6, <2>7, <2>8, <2>9 DEF InboxInv
<1>5. QED
  BY <1>1, <1>2, <1>3, <1>4 DEF Work

-----------------------------------------------------------------------------
(* The theorems *)

\* The invariant holds of every reachable state.
LEMMA Inductive == Spec => []InboxInv
<1>1. Init => InboxInv
  <2> SUFFICES ASSUME Init PROVE InboxInv
    OBVIOUS
  <2>1. AbsentRow \in Row /\ AbsentRow.status = "absent" /\ ~AbsentRow.executable
    BY DEF AbsentRow, Row, MailStatus
  <2>2. TypeOK
    BY <2>1 DEF Init, TypeOK, JobStatus
  <2>3. CopiesAllowed /\ WorkWasAllowed /\ CopiesSent /\ Ordered
    BY <2>1 DEF Init, CopiesAllowed, WorkWasAllowed, CopiesSent, Ordered
  <2>4. Answered /\ RoutedHasTask /\ DeliveredForCause
    BY <2>1 DEF Init, Answered, RoutedHasTask, DeliveredForCause
  <2>5. QED
    BY <2>2, <2>3, <2>4 DEF InboxInv
<1>2. InboxInv /\ [Next]_vars => InboxInv'
  <2> SUFFICES ASSUME InboxInv, [Next]_vars PROVE InboxInv'
    OBVIOUS
  <2>1. CASE Next
    BY <2>1, PeopleInv, StartCrashInv, RouteInv, WorkInv DEF Next
  <2>2. CASE UNCHANGED vars
    <3>1. UNCHANGED <<mail, sent, clock, job, lanes, stage, copy, found, thread,
                      starts, desk, allowed, acked, done>>
      BY <2>2 DEF vars, store, router, past
    <3>2. QED
      BY <3>1 DEF InboxInv, TypeOK, CopiesAllowed, WorkWasAllowed, CopiesSent,
                  Ordered, Answered, Turn, RoutedHasTask, DeliveredForCause
  <2>3. QED
    BY <2>1, <2>2
<1>3. QED
  BY <1>1, <1>2, PTL DEF Spec

\* The tables, the router and the desk keep their types.
THEOREM TypeCorrect == Spec => []TypeOK
<1>1. InboxInv => TypeOK
  BY DEF InboxInv
<1>2. QED
  BY <1>1, Inductive, PTL

\* Nothing but mail that a person sent executable or promoted becomes a task,
\* whichever stale copies the router and the commands save.
THEOREM OnlyAllowedWork == Spec => []WorkWasAllowed
<1>1. InboxInv => WorkWasAllowed
  BY DEF InboxInv
<1>2. QED
  BY <1>1, Inductive, PTL

\* A routed message has its task at whatever step the router is interrupted.
THEOREM RoutedMailHasTask == Spec => []RoutedHasTask
<1>1. InboxInv => RoutedHasTask
  BY DEF InboxInv
<1>2. QED
  BY <1>1, Inductive, PTL

\* A delivered message was acknowledged or its task completed.
THEOREM DeliveredMailHasCause == Spec => []DeliveredForCause
<1>1. InboxInv => DeliveredForCause
  BY DEF InboxInv
<1>2. QED
  BY <1>1, Inductive, PTL

=============================================================================
