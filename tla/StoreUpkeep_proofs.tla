------------------------- MODULE StoreUpkeep_proofs -------------------------
(***************************************************************************)
(* Proofs about StoreUpkeep, for any number of commands at the same time,  *)
(* handovers, lanes, legacy files and days, and any retention.             *)
(***************************************************************************)
EXTENDS StoreUpkeep, FiniteSetTheorems, TLAPS

Adopting == {"aliases", "delete", "save"}

(* TypeOK is not inductive: a command that adopts is at a handover and holds *)
(* a lane, and one that imports holds a file.                                *)
Fits(k) ==
  /\ k.next >= 1
  /\ k.at \in Adopting => k.next <= Len(Handovers) /\ k.lane \in Lane
  /\ k.at = "delete" => k.row \in Lane
  /\ k.at = "save" => k.row \in LaneRow
  /\ k.at \in {"new", "sent"} => k.file \in Legacy

Held == {k \in Command : Fits(k)}

\* No day a command works for, and none a backup is of, is still to come.
DaysPast ==
  /\ \A c \in Cmd : cmd[c].day <= today
  /\ \A d \in Day : backups[d] # NONE => d <= today

TypeInv == TypeOK /\ DaysPast /\ \A c \in Cmd : Fits(cmd[c])

-----------------------------------------------------------------------------
(* What the commands hold after each step, field by field.                 *)

\* A process changes what it holds and nobody else's.
LEMMA HeldFacts ==
  ASSUME NEW c \in Cmd, NEW k \in Held, TypeInv, cmd' = [cmd EXCEPT ![c] = k]
  PROVE  /\ cmd' \in [Cmd -> Command]
         /\ cmd'[c] = k
         /\ \A d \in Cmd \ {c} : cmd'[d] = cmd[d]
         /\ \A d \in Cmd : Fits(cmd'[d])
BY DEF TypeInv, TypeOK, Held

\* A command at its start, and after its end.
LEMMA IdleFacts ==
  /\ NoCommand \in Held /\ NoCommand.at = "idle" /\ NoCommand.day = 0
  /\ LET k == [NoCommand EXCEPT !.at = "boot"]
     IN k \in Held /\ k.at = "boot" /\ k.day = 0
  /\ LET k == [NoCommand EXCEPT !.at = "backup"]
     IN k \in Held /\ k.at = "backup" /\ k.day = 0
  /\ \A m \in SUBSET Legacy :
       LET k == [NoCommand EXCEPT !.at = "legacy", !.todo = m]
       IN k \in Held /\ k.at = "legacy" /\ k.day = 0
<1>1. NoCommand \in Held /\ NoCommand.at = "idle" /\ NoCommand.day = 0
  BY StoreUpkeepAssumption DEF NoCommand, Held, Fits, Command, Day, Adopting
<1>2. LET k == [NoCommand EXCEPT !.at = "boot"]
      IN k \in Held /\ k.at = "boot" /\ k.day = 0
  BY <1>1 DEF Held, Fits, Command, Adopting
<1>3. LET k == [NoCommand EXCEPT !.at = "backup"]
      IN k \in Held /\ k.at = "backup" /\ k.day = 0
  BY <1>1 DEF Held, Fits, Command, Adopting
<1>4. \A m \in SUBSET Legacy :
        LET k == [NoCommand EXCEPT !.at = "legacy", !.todo = m]
        IN k \in Held /\ k.at = "legacy" /\ k.day = 0
  BY <1>1 DEF Held, Fits, Command, Adopting
<1>5. QED
  BY <1>1, <1>2, <1>3, <1>4

\* Bootstrap goes on to the next handover.
LEMMA NextFacts ==
  ASSUME NEW k \in Held
  PROVE  /\ LET n == [k EXCEPT !.at = "boot", !.next = @ + 1, !.blocked = FALSE]
            IN n \in Held /\ n.at = "boot" /\ n.day = k.day
         /\ LET n == [[k EXCEPT !.at = "boot", !.next = @ + 1, !.blocked = FALSE]
                        EXCEPT !.row = NONE]
            IN n \in Held /\ n.at = "boot" /\ n.day = k.day
<1> DEFINE x == k.next + 1
           n == [k EXCEPT !.at = "boot", !.next = x, !.blocked = FALSE]
           m == [n EXCEPT !.row = NONE]
<1>1. x \in Nat /\ x >= 1
  BY DEF Held, Command
<1> HIDE DEF x
<1>2. n \in Command /\ n.at = "boot" /\ n.next = x /\ n.day = k.day
  BY <1>1 DEF Held, Command
<1>3. n \in Held
  BY <1>1, <1>2 DEF Held, Fits, Adopting
<1> HIDE DEF n
<1>4. m \in Command /\ m.at = "boot" /\ m.next = x /\ m.day = k.day
  BY <1>2 DEF Command
<1>5. m \in Held
  BY <1>1, <1>4 DEF Held, Fits, Adopting
<1>6. QED
  BY <1>2, <1>3, <1>4, <1>5 DEF n, x

\* Bootstrap takes a handover up.
LEMMA ListFacts ==
  ASSUME NEW k \in Held, k.next <= Len(Handovers), NEW l \in Lane,
         NEW T \in SUBSET Lane
  PROVE  /\ Listed(k, l, T) \in Held
         /\ Listed(k, l, T).at = "aliases"
         /\ Listed(k, l, T).day = k.day
         /\ Listed(k, l, T).next = k.next
         /\ Listed(k, l, T).lane = l
         /\ Listed(k, l, T).stale = T
         /\ Listed(k, l, T).blocked = k.blocked
BY DEF Held, Fits, Command, Adopting, Listed

\* What is then held.
LEMMA DeletingFacts ==
  ASSUME NEW k \in Held, k.at \in Adopting, NEW l \in Lane
  PROVE  /\ Deleting(k, l) \in Held
         /\ Deleting(k, l).at = "delete"
         /\ Deleting(k, l).day = k.day
         /\ Deleting(k, l).next = k.next
         /\ Deleting(k, l).lane = k.lane
         /\ Deleting(k, l).row = l
         /\ Deleting(k, l).stale = k.stale \ {l}
         /\ Deleting(k, l).blocked = k.blocked
BY DEF Held, Fits, Command, Adopting, Deleting

\* What is held after an alias in use.
LEMMA BlockingFacts ==
  ASSUME NEW k \in Held, k.at = "aliases", NEW l \in Lane
  PROVE  /\ Blocking(k, l) \in Held
         /\ Blocking(k, l).at = "aliases"
         /\ Blocking(k, l).day = k.day
         /\ Blocking(k, l).blocked
BY DEF Held, Fits, Command, Adopting, Blocking

\* What is held after a deletion.
LEMMA DeletedFacts ==
  ASSUME NEW k \in Held, k.at \in Adopting
  PROVE  /\ Deleted(k) \in Held
         /\ Deleted(k).at = "aliases"
         /\ Deleted(k).day = k.day
         /\ Deleted(k).next = k.next
         /\ Deleted(k).lane = k.lane
         /\ Deleted(k).stale = k.stale
         /\ Deleted(k).blocked = k.blocked
BY DEF Held, Fits, Command, Adopting, Deleted

\* What is held before the lane is saved.
LEMMA SavingFacts ==
  ASSUME NEW k \in Held, k.at \in Adopting, NEW r \in LaneRow,
         NEW l \in Lane
  PROVE  /\ Saving(k, l, r) \in Held
         /\ Saving(k, l, r).at = "save"
         /\ Saving(k, l, r).day = k.day
         /\ Saving(k, l, r).next = k.next
         /\ Saving(k, l, r).lane = k.lane
         /\ Saving(k, l, r).row = r
BY DEF Held, Fits, Command, Adopting, Saving

\* An import goes on.
LEMMA ImportFacts ==
  ASSUME NEW k \in Held, NEW f \in Legacy
  PROVE  /\ Found(k, f) \in Held
         /\ Found(k, f).at = k.at
         /\ Found(k, f).file = k.file
         /\ Found(k, f).day = k.day
         /\ Unmailed(k, f) \in Held
         /\ Unmailed(k, f).at = "new"
         /\ Unmailed(k, f).file = f
         /\ Unmailed(k, f).day = k.day
BY ZenonT(60) DEF Held, Fits, Command, Adopting, Found, Unmailed

\* It mails the file, and records that it did.
LEMMA MailFacts ==
  ASSUME NEW k \in Held
  PROVE  /\ k.at = "new" =>
            LET n == [k EXCEPT !.at = "sent"]
            IN n \in Held /\ n.at = "sent" /\ n.file = k.file /\ n.day = k.day
         /\ LET n == [k EXCEPT !.at = "legacy", !.file = NONE]
            IN n \in Held /\ n.at = "legacy" /\ n.day = k.day
<1>1. k.at = "new" =>
      LET n == [k EXCEPT !.at = "sent"]
      IN n \in Held /\ n.at = "sent" /\ n.file = k.file /\ n.day = k.day
  BY ZenonT(60) DEF Held, Fits, Command, Adopting
<1>2. LET n == [k EXCEPT !.at = "legacy", !.file = NONE]
      IN n \in Held /\ n.at = "legacy" /\ n.day = k.day
  BY ZenonT(60) DEF Held, Fits, Command, Adopting
<1>3. QED
  BY <1>1, <1>2

\* A recovery goes on.
LEMMA CopyFacts ==
  ASSUME NEW k \in Held, NEW d \in Day
  PROVE  /\ LET n == [k EXCEPT !.at = "copy", !.day = d]
            IN n \in Held /\ n.at = "copy" /\ n.day = d
         /\ LET n == [k EXCEPT !.at = "prune", !.day = d]
            IN n \in Held /\ n.at = "prune" /\ n.day = d
         /\ LET n == [k EXCEPT !.at = "prune"]
            IN n \in Held /\ n.at = "prune" /\ n.day = k.day
<1>1. LET n == [k EXCEPT !.at = "copy", !.day = d]
      IN n \in Held /\ n.at = "copy" /\ n.day = d
  BY ZenonT(60) DEF Held, Fits, Command, Adopting
<1>2. LET n == [k EXCEPT !.at = "prune", !.day = d]
      IN n \in Held /\ n.at = "prune" /\ n.day = d
  BY ZenonT(60) DEF Held, Fits, Command, Adopting
<1>3. LET n == [k EXCEPT !.at = "prune"]
      IN n \in Held /\ n.at = "prune" /\ n.day = k.day
  BY ZenonT(60) DEF Held, Fits, Command, Adopting
<1>4. QED
  BY <1>1, <1>2, <1>3

\* One table of the store changes, the others do not.
LEMMA StoreFacts ==
  ASSUME NEW s \in Store
  PROVE  /\ \A l \in Lane, r \in LaneRow \cup {NONE} :
              LET n == [s EXCEPT !.lanes[l] = r]
              IN /\ n \in Store /\ n.lanes = [s.lanes EXCEPT ![l] = r]
                 /\ n.tasks = s.tasks /\ n.mail = s.mail
                 /\ n.imports = s.imports
         /\ \A l \in Lane :
              LET n == [s EXCEPT !.tasks = @ \cup {l}]
              IN /\ n \in Store /\ n.tasks = s.tasks \cup {l}
                 /\ n.lanes = s.lanes /\ n.mail = s.mail
                 /\ n.imports = s.imports
         /\ \A f \in Legacy :
              LET n == [s EXCEPT !.mail[f] = @ + 1]
              IN /\ n \in Store /\ n.mail = [s.mail EXCEPT ![f] = @ + 1]
                 /\ n.lanes = s.lanes /\ n.tasks = s.tasks
                 /\ n.imports = s.imports
         /\ \A f \in Legacy :
              LET n == [s EXCEPT !.imports = @ \cup {f}]
              IN /\ n \in Store /\ n.imports = s.imports \cup {f}
                 /\ n.lanes = s.lanes /\ n.tasks = s.tasks
                 /\ n.mail = s.mail
<1>1. \A l \in Lane, r \in LaneRow \cup {NONE} :
        LET n == [s EXCEPT !.lanes[l] = r]
        IN /\ n \in Store /\ n.lanes = [s.lanes EXCEPT ![l] = r]
           /\ n.tasks = s.tasks /\ n.mail = s.mail
           /\ n.imports = s.imports
  BY DEF Store
<1>2. \A l \in Lane :
        LET n == [s EXCEPT !.tasks = @ \cup {l}]
        IN /\ n \in Store /\ n.tasks = s.tasks \cup {l}
           /\ n.lanes = s.lanes /\ n.mail = s.mail
           /\ n.imports = s.imports
  BY DEF Store
<1>3. \A f \in Legacy :
        LET n == [s EXCEPT !.mail[f] = @ + 1]
        IN /\ n \in Store /\ n.mail = [s.mail EXCEPT ![f] = @ + 1]
           /\ n.lanes = s.lanes /\ n.tasks = s.tasks
           /\ n.imports = s.imports
  BY DEF Store
<1>4. \A f \in Legacy :
        LET n == [s EXCEPT !.imports = @ \cup {f}]
        IN /\ n \in Store /\ n.imports = s.imports \cup {f}
           /\ n.lanes = s.lanes /\ n.tasks = s.tasks
           /\ n.mail = s.mail
  BY DEF Store
<1>5. QED
  BY <1>1, <1>2, <1>3, <1>4

\* A lane's row can always be had.
LEMMA EnsureFacts ==
  ASSUME NEW l \in Lane, TypeOK
  PROVE  EnsureLane(l) \in LaneRow /\ EnsureLane(l) # NONE
<1>1. NewLane \in LaneRow
  BY DEF NewLane, LaneRow
<1>2. db.lanes[l] \in LaneRow \cup {NONE}
  BY DEF TypeOK, Store
<1>3. QED
  BY <1>1, <1>2, NoneAssumption DEF EnsureLane

\* The empty store is one.
LEMMA EmptyFacts == EmptyStore \in Store
BY DEF EmptyStore, Store

-----------------------------------------------------------------------------
(* Types.                                                                  *)

\* The bounded things are counted.
LEMMA SpentFacts ==
  ASSUME TypeOK
  PROVE  /\ \A c \in Cmd : Start(c) => spent' \in [starts : Nat, upsets : Nat]
         /\ Upset => spent' \in [starts : Nat, upsets : Nat]
         /\ UNCHANGED spent => spent' \in [starts : Nat, upsets : Nat]
BY DEF TypeOK, Start, Upset

\* A process moves on, and the store may change with it.
Moves(c, k) ==
  /\ cmd' = [cmd EXCEPT ![c] = k] /\ k \in Held /\ k.day <= today

Around ==
  /\ db' \in Store
  /\ UNCHANGED <<laneOf, backups, today, arriving>>
  /\ excused' \in [Legacy -> Nat] /\ raced' \in BOOLEAN
  /\ spent' \in [starts : Nat, upsets : Nat]

\* That keeps the types.
LEMMA CommandType ==
  ASSUME TypeInv, NEW c \in Cmd, NEW k, Moves(c, k), Around
  PROVE  TypeInv'
<1>1. k \in Held /\ cmd' = [cmd EXCEPT ![c] = k] /\ k.day <= today
  BY DEF Moves
<1>2. TypeOK'
  BY <1>1, HeldFacts DEF Around, TypeInv, TypeOK
<1>3. DaysPast'
  BY <1>1, HeldFacts DEF Around, TypeInv, DaysPast
<1>4. QED
  BY <1>1, <1>2, <1>3, HeldFacts DEF TypeInv

\* What is known of the process that moves.
LEMMA MoverFacts ==
  ASSUME TypeInv, NEW c \in Cmd
  PROVE  /\ cmd[c] \in Held /\ cmd[c].day <= today /\ 0 <= today
         /\ db \in Store /\ excused \in [Legacy -> Nat] /\ raced \in BOOLEAN
         /\ cmd[c].next <= Len(Handovers) =>
              /\ cmd[c].next \in DOMAIN Handovers
              /\ Handovers[cmd[c].next] \in Handover
<1>1. cmd[c] \in Command /\ Fits(cmd[c]) /\ cmd[c].next \in Nat
  BY DEF TypeInv, TypeOK, Command
<1>2. cmd[c].next <= Len(Handovers) => cmd[c].next \in DOMAIN Handovers
  BY <1>1, StoreUpkeepAssumption DEF Fits
<1>3. today \in Nat
  BY StoreUpkeepAssumption DEF TypeInv, TypeOK, Day
<1>4. QED
  BY <1>1, <1>2, <1>3 DEF Held, Handover, TypeInv, TypeOK, DaysPast

\* The steps of a bootstrap keep the types.
LEMMA BootstrapType ==
  ASSUME TypeInv, NEW c \in Cmd, Bootstrap(c)
  PROVE  TypeInv'
<1>0. /\ cmd[c] \in Held /\ cmd[c].day <= today /\ 0 <= today
      /\ db \in Store /\ excused \in [Legacy -> Nat] /\ raced \in BOOLEAN
      /\ TypeOK
  BY MoverFacts DEF TypeInv
<1>1. CASE StartBootstrap(c)
  <2> DEFINE k == [NoCommand EXCEPT !.at = "boot"]
  <2>1. cmd' = [cmd EXCEPT ![c] = k]
    BY <1>0, <1>1 DEF StartBootstrap, TypeOK
  <2>2. k \in Held /\ k.day <= today
    BY <1>0, IdleFacts
  <2>3. Around
    BY <1>0, <1>1, SpentFacts DEF StartBootstrap, Around
  <2> HIDE DEF k
  <2>4. QED
    BY <2>1, <2>2, <2>3, CommandType DEF Moves
<1>2. CASE BootstrapEnds(c)
  <2> DEFINE k == NoCommand
  <2>1. cmd' = [cmd EXCEPT ![c] = k]
    BY <1>0, <1>2 DEF BootstrapEnds, TypeOK
  <2>2. k \in Held /\ k.day <= today
    BY <1>0, IdleFacts
  <2>3. Around
    BY <1>0, <1>2, SpentFacts DEF BootstrapEnds, Around
  <2> HIDE DEF k
  <2>4. QED
    BY <2>1, <2>2, <2>3, CommandType DEF Moves
<1>3. CASE SkipHandover(c) \/ Blocked(c)
  <2> DEFINE k == [cmd[c] EXCEPT !.at = "boot", !.next = @ + 1, !.blocked = FALSE]
  <2>1. cmd' = [cmd EXCEPT ![c] = k]
    BY <1>0, <1>3 DEF SkipHandover, Blocked, NextHandover, TypeOK
  <2>2. k \in Held /\ k.day <= today
    BY <1>0, NextFacts
  <2>3. Around
    BY <1>0, <1>3, SpentFacts DEF SkipHandover, Blocked, NextHandover, Around
  <2> HIDE DEF k
  <2>4. QED
    BY <2>1, <2>2, <2>3, CommandType DEF Moves
<1>4. CASE ListAliases(c)
  <2> DEFINE f == Handovers[cmd[c].next]
             l == laneOf[f]
             T == LanesAt(f) \ {l}
             k == Listed(cmd[c], l, T)
  <2>1. l \in Lane /\ T \in SUBSET Lane /\ cmd[c].next <= Len(Handovers)
    BY <1>4, MoverFacts DEF ListAliases, Adoptable, LanesAt, TypeInv, TypeOK
  <2>2. cmd' = [cmd EXCEPT ![c] = k]
    BY <1>0, <1>4 DEF ListAliases, Listed, TypeOK
  <2>3. Around
    BY <1>0, <1>4, SpentFacts DEF ListAliases, Around
  <2> HIDE DEF l, T
  <2>4. k \in Held /\ k.day <= today
    BY <1>0, <2>1, ListFacts
  <2> HIDE DEF k
  <2>5. QED
    BY <2>2, <2>3, <2>4, CommandType DEF Moves
<1>5. CASE CheckAlias(c)
  <2>1. PICK l \in cmd[c].stale :
          \/ cmd' = [cmd EXCEPT ![c] = Deleting(cmd[c], l)]
          \/ cmd' = [cmd EXCEPT ![c] = Blocking(cmd[c], l)]
    BY <1>0, <1>5 DEF CheckAlias, Deleting, Blocking, TypeOK
  <2>2. l \in Lane /\ cmd[c].at = "aliases"
    BY <1>0, <1>5, <2>1 DEF CheckAlias, Held, Command
  <2>3. cmd[c].at \in Adopting
    BY <2>2 DEF Adopting
  <2> DEFINE k1 == Deleting(cmd[c], l)
             k2 == Blocking(cmd[c], l)
  <2>4. Around
    BY <1>0, <1>5, SpentFacts DEF CheckAlias, Around
  <2>5. k1 \in Held /\ k1.day <= today
    BY <1>0, <2>2, <2>3, DeletingFacts
  <2>6. k2 \in Held /\ k2.day <= today
    BY <1>0, <2>2, <2>3, BlockingFacts
  <2> HIDE DEF k1, k2
  <2>7. QED
    BY <2>1, <2>4, <2>5, <2>6, CommandType DEF Moves, k1, k2
<1>6. CASE DeleteAlias(c)
  <2> DEFINE k == Deleted(cmd[c])
  <2>1. cmd[c].at \in Adopting /\ cmd[c].row \in Lane
    BY <1>0, <1>6 DEF DeleteAlias, Adopting, Held, Fits
  <2>2. db' \in Store
    BY <1>0, <1>6, <2>1, StoreFacts DEF DeleteAlias
  <2>3. cmd' = [cmd EXCEPT ![c] = k]
    BY <1>0, <1>6, <2>1, <2>2 DEF DeleteAlias, Deleted, TypeOK
  <2>4. k \in Held /\ k.day <= today
    BY <1>0, <2>1, <2>2, DeletedFacts
  <2>5. Around
    BY <1>0, <1>6, <2>1, <2>2, SpentFacts DEF DeleteAlias, Around
  <2> HIDE DEF k
  <2>6. QED
    BY <2>3, <2>4, <2>5, CommandType DEF Moves
<1>7. CASE Adopt(c)
  <2> DEFINE l == cmd[c].lane
             r == EnsureLane(l)
             k == Saving(cmd[c], l, r)
  <2>1. cmd[c].at \in Adopting /\ l \in Lane
    BY <1>0, <1>7 DEF Adopt, Adopting, Held, Fits
  <2>2. r \in LaneRow
    BY <1>0, <2>1, EnsureFacts
  <2>3. k \in Held /\ k.day <= today
    BY <1>0, <2>1, <2>2, SavingFacts
  <2>4. db' = [db EXCEPT !.lanes[l] = r]
    BY <1>7 DEF Adopt
  <2>5. cmd' = [cmd EXCEPT ![c] = k]
    BY <1>0, <1>7 DEF Adopt, Saving, TypeOK
  <2> HIDE DEF r
  <2>6. db' \in Store
    BY <1>0, <2>1, <2>2, <2>4, StoreFacts
  <2>7. Around
    BY <1>0, <1>7, <2>6, SpentFacts DEF Adopt, Around
  <2> HIDE DEF k
  <2>8. QED
    BY <2>3, <2>5, <2>7, CommandType DEF Moves
<1>8. CASE SaveAdopted(c)
  <2> DEFINE f == Handovers[cmd[c].next]
             k == [[cmd[c] EXCEPT !.at = "boot", !.next = @ + 1, !.blocked = FALSE]
                     EXCEPT !.row = NONE]
  <2>1. cmd[c].lane \in Lane /\ cmd[c].row \in LaneRow /\ f \in Handover
    BY <1>0, <1>8, MoverFacts DEF SaveAdopted, Adopting, Held, Fits
  <2>2. [cmd[c].row EXCEPT !.path = f] \in LaneRow
    BY <2>1 DEF LaneRow
  <2>3. db' \in Store
    BY <1>0, <1>8, <2>1, <2>2, StoreFacts DEF SaveAdopted
  <2>4. cmd' = [cmd EXCEPT ![c] = k]
    BY <1>0, <1>8, <2>1, <2>2, <2>3 DEF SaveAdopted, NextHandover, TypeOK
  <2>5. k \in Held /\ k.day <= today
    BY <1>0, <2>1, <2>2, <2>3, NextFacts
  <2>6. Around
    BY <1>0, <1>8, <2>1, <2>2, <2>3, SpentFacts DEF SaveAdopted, NextHandover, Around
  <2> HIDE DEF k
  <2>7. QED
    BY <2>4, <2>5, <2>6, CommandType DEF Moves
<1>9. QED
  BY <1>1, <1>2, <1>3, <1>4, <1>5, <1>6, <1>7, <1>8 DEF Bootstrap

\* The steps of an import keep the types.
LEMMA ImportType ==
  ASSUME TypeInv, NEW c \in Cmd, Import(c)
  PROVE  TypeInv'
<1>0. /\ cmd[c] \in Held /\ cmd[c].day <= today /\ 0 <= today
      /\ db \in Store /\ excused \in [Legacy -> Nat] /\ raced \in BOOLEAN
      /\ TypeOK
  BY MoverFacts DEF TypeInv
<1>1. CASE StartImport(c)
  <2>1. PICK m \in SUBSET Legacy :
          cmd' = [cmd EXCEPT ![c] = [NoCommand EXCEPT !.at = "legacy", !.todo = m]]
    BY <1>1 DEF StartImport
  <2> DEFINE k == [NoCommand EXCEPT !.at = "legacy", !.todo = m]
  <2>2. k \in Held /\ k.day <= today
    BY <1>0, IdleFacts
  <2>3. Around
    BY <1>0, <1>1, SpentFacts DEF StartImport, Around
  <2> HIDE DEF k
  <2>4. QED
    BY <2>1, <2>2, <2>3, CommandType DEF Moves, k
<1>2. CASE CheckImport(c)
  <2>1. PICK f \in cmd[c].todo :
          \/ /\ cmd' = [cmd EXCEPT ![c] = Found(cmd[c], f)]
             /\ UNCHANGED excused
          \/ /\ cmd' = [cmd EXCEPT ![c] = Unmailed(cmd[c], f)]
             /\ excused' = [excused EXCEPT ![f] =
                              @ + IF Importing(f) # {} THEN 1 ELSE 0]
    BY <1>2 DEF CheckImport
  <2>2. f \in Legacy
    BY <1>0 DEF Held, Command
  <2>3. excused' \in [Legacy -> Nat]
    <3> DEFINE x == IF Importing(f) # {} THEN 1 ELSE 0
    <3>1. x \in Nat
      OBVIOUS
    <3>2. UNCHANGED excused \/ excused' = [excused EXCEPT ![f] = @ + x]
      BY <2>1
    <3> HIDE DEF x
    <3>3. QED
      BY <1>0, <2>2, <3>1, <3>2
  <2>4. Around
    BY <1>0, <1>2, <2>3, SpentFacts DEF CheckImport, Around
  <2> DEFINE k1 == Found(cmd[c], f)
             k2 == Unmailed(cmd[c], f)
  <2>5. k1 \in Held /\ k1.day <= today /\ k2 \in Held /\ k2.day <= today
    BY <1>0, <2>2, ImportFacts
  <2> HIDE DEF k1, k2
  <2>6. QED
    BY <2>1, <2>4, <2>5, CommandType DEF Moves, k1, k2
<1>3. CASE SendImport(c)
  <2> DEFINE k == [cmd[c] EXCEPT !.at = "sent"]
  <2>1. cmd[c].at = "new" /\ cmd[c].file \in Legacy
    BY <1>0, <1>3 DEF SendImport, Held, Fits
  <2>2. cmd' = [cmd EXCEPT ![c] = k] /\ k \in Held /\ k.day <= today
    BY <1>0, <1>3, <2>1, MailFacts DEF SendImport, TypeOK
  <2>3. db' \in Store
    BY <1>0, <1>3, <2>1, StoreFacts DEF SendImport
  <2>4. Around
    BY <1>0, <1>3, <2>3, SpentFacts DEF SendImport, Around
  <2> HIDE DEF k
  <2>5. QED
    BY <2>2, <2>4, CommandType DEF Moves
<1>4. CASE RecordImport(c)
  <2> DEFINE k == [cmd[c] EXCEPT !.at = "legacy", !.file = NONE]
  <2>1. cmd[c].at = "sent" /\ cmd[c].file \in Legacy
    BY <1>0, <1>4 DEF RecordImport, Held, Fits
  <2>2. cmd' = [cmd EXCEPT ![c] = k] /\ k \in Held /\ k.day <= today
    BY <1>0, <1>4, <2>1, MailFacts DEF RecordImport, TypeOK
  <2>3. db' \in Store
    BY <1>0, <1>4, <2>1, StoreFacts DEF RecordImport
  <2>4. Around
    BY <1>0, <1>4, <2>3, SpentFacts DEF RecordImport, Around
  <2> HIDE DEF k
  <2>5. QED
    BY <2>2, <2>4, CommandType DEF Moves
<1>5. CASE ImportEnds(c)
  <2> DEFINE k == NoCommand
  <2>1. cmd' = [cmd EXCEPT ![c] = k] /\ k \in Held /\ k.day <= today
    BY <1>0, <1>5, IdleFacts DEF ImportEnds
  <2>2. Around
    BY <1>0, <1>5, SpentFacts DEF ImportEnds, Around
  <2> HIDE DEF k
  <2>3. QED
    BY <2>1, <2>2, CommandType DEF Moves
<1>6. QED
  BY <1>1, <1>2, <1>3, <1>4, <1>5 DEF Import

\* The steps of a recovery keep the types.
LEMMA RecoverType ==
  ASSUME TypeInv, NEW c \in Cmd, Recover(c)
  PROVE  TypeInv'
<1>0. /\ cmd[c] \in Held /\ cmd[c].day <= today /\ 0 <= today
      /\ db \in Store /\ excused \in [Legacy -> Nat] /\ raced \in BOOLEAN
      /\ TypeOK /\ today \in Day
      /\ \A e \in Day : e \in Nat
  BY MoverFacts, StoreUpkeepAssumption DEF TypeInv, TypeOK, Day
<1>1. CASE StartRecover(c)
  <2> DEFINE k == [NoCommand EXCEPT !.at = "backup"]
  <2>1. cmd' = [cmd EXCEPT ![c] = k] /\ k \in Held /\ k.day <= today
    BY <1>0, <1>1, IdleFacts DEF StartRecover
  <2>2. Around
    BY <1>0, <1>1, SpentFacts DEF StartRecover, Around
  <2> HIDE DEF k
  <2>3. QED
    BY <2>1, <2>2, CommandType DEF Moves
<1>2. CASE RestoreBackup(c)
  <2> DEFINE k == [NoCommand EXCEPT !.at = "backup"]
  <2>1. cmd' = [cmd EXCEPT ![c] = k] /\ k \in Held /\ k.day <= today
    BY <1>0, <1>2, IdleFacts DEF RestoreBackup
  <2>2. db' \in Store
    BY <1>0, <1>2 DEF RestoreBackup, Kept, TypeOK
  <2>3. excused' \in [Legacy -> Nat]
    BY <1>0, <1>2 DEF RestoreBackup
  <2>4. Around
    BY <1>0, <1>2, <2>2, <2>3, SpentFacts DEF RestoreBackup, Around
  <2> HIDE DEF k
  <2>5. QED
    BY <2>1, <2>4, CommandType DEF Moves
<1>3. CASE BeginBackup(c) \/ EndBackup(c) \/ BackupExists(c) \/ Prune(c)
  <2>1. PICK k \in Held : cmd' = [cmd EXCEPT ![c] = k] /\ k.day <= today
    <3>1. CASE BeginBackup(c)
      <4> DEFINE k == [cmd[c] EXCEPT !.at = "copy", !.day = today]
      <4>1. cmd' = [cmd EXCEPT ![c] = k]
        BY <1>0, <3>1 DEF BeginBackup
      <4>2. k \in Held /\ k.day = today
        BY <1>0, CopyFacts
      <4> HIDE DEF k
      <4>3. k.day <= today
        BY <1>0, <4>2
      <4>4. QED
        BY <4>1, <4>2, <4>3
    <3>2. CASE EndBackup(c)
      <4> DEFINE k == [cmd[c] EXCEPT !.at = "prune"]
      <4>1. cmd' = [cmd EXCEPT ![c] = k] /\ k \in Held /\ k.day <= today
        BY <1>0, <3>2, CopyFacts DEF EndBackup
      <4> HIDE DEF k
      <4>2. QED
        BY <4>1
    <3>3. CASE BackupExists(c)
      <4> DEFINE k == [cmd[c] EXCEPT !.at = "prune", !.day = today]
      <4>1. cmd' = [cmd EXCEPT ![c] = k]
        BY <1>0, <3>3 DEF BackupExists
      <4>2. k \in Held /\ k.day = today
        BY <1>0, CopyFacts
      <4> HIDE DEF k
      <4>3. k.day <= today
        BY <1>0, <4>2
      <4>4. QED
        BY <4>1, <4>2, <4>3
    <3>4. CASE Prune(c)
      <4> DEFINE k == NoCommand
      <4>1. cmd' = [cmd EXCEPT ![c] = k] /\ k \in Held /\ k.day <= today
        BY <1>0, <3>4, IdleFacts DEF Prune
      <4> HIDE DEF k
      <4>2. QED
        BY <4>1
    <3>5. QED
      BY <1>3, <3>1, <3>2, <3>3, <3>4
  <2>2. /\ backups' \in [Day -> Store \cup {NONE}]
        /\ \A d \in Day : backups'[d] # NONE => d <= today
    <3>1. cmd[c].day \in Day
      BY <1>0 DEF Held, Command
    <3>2. CASE BeginBackup(c)
      BY <1>0, <3>2, EmptyFacts DEF BeginBackup, TypeOK, TypeInv, DaysPast
    <3>3. CASE EndBackup(c)
      BY <1>0, <3>1, <3>3 DEF EndBackup, TypeOK, TypeInv, DaysPast
    <3>4. CASE BackupExists(c)
      BY <1>0, <3>4 DEF BackupExists, TypeOK, TypeInv, DaysPast
    <3>5. CASE Prune(c)
      BY <1>0, <3>5 DEF Prune, TypeOK, TypeInv, DaysPast
    <3>6. QED
      BY <1>3, <3>2, <3>3, <3>4, <3>5
  <2>3. excused' \in [Legacy -> Nat]
    <3>1. CASE EndBackup(c)
      <4> DEFINE x(f) == IF HalfImported(f) THEN 1 ELSE 0
      <4>1. excused' = [f \in Legacy |-> excused[f] + x(f)]
        BY <3>1 DEF EndBackup
      <4>2. \A f \in Legacy : x(f) \in Nat
        OBVIOUS
      <4> HIDE DEF x
      <4>3. \A f \in Legacy : excused[f] + x(f) \in Nat
        BY <1>0, <4>2
      <4>4. QED
        BY <4>1, <4>3
    <3>2. QED
      BY <1>0, <1>3, <3>1 DEF BeginBackup, BackupExists, Prune
  <2>4. UNCHANGED <<db, laneOf, today, arriving, raced, spent>>
    BY <1>3 DEF BeginBackup, EndBackup, BackupExists, Prune
  <2>5. TypeOK'
    BY <1>0, <2>1, <2>2, <2>3, <2>4, HeldFacts DEF TypeOK
  <2>6. DaysPast'
    <3>1. \A d \in Cmd : cmd'[d].day <= today
      BY <1>0, <2>1, HeldFacts DEF TypeInv, DaysPast
    <3>2. QED
      BY <2>2, <2>4, <3>1 DEF DaysPast
  <2>7. QED
    BY <2>1, <2>5, <2>6, HeldFacts DEF TypeInv
<1>4. QED
  BY <1>1, <1>2, <1>3 DEF Recover

\* A crash keeps them, and so does what happens around the commands.
LEMMA WorldType ==
  ASSUME TypeInv,
         \/ \E c \in Cmd : Crash(c)
         \/ DayPasses \/ SaveTask
         \/ \E f \in Handover : EditHandover(f)
         \/ \E l \in Lane : Submit(l) \/ GetAgent(l)
  PROVE  TypeInv'
<1>0. /\ TypeOK /\ DaysPast /\ today \in Day /\ db \in Store /\ 0 <= today
      /\ \A e \in Day : e \in Nat
  BY StoreUpkeepAssumption DEF TypeInv, TypeOK, Day
<1>1. ASSUME NEW c \in Cmd, Crash(c) PROVE TypeInv'
  <2> DEFINE k == NoCommand
  <2>1. cmd' = [cmd EXCEPT ![c] = k] /\ k \in Held /\ k.day <= today
    BY <1>0, <1>1, IdleFacts DEF Crash
  <2>2. excused' \in [Legacy -> Nat]
    <3> DEFINE x(f) == IF cmd[c].at = "sent" /\ cmd[c].file = f THEN 1 ELSE 0
    <3>1. excused' = [f \in Legacy |-> excused[f] + x(f)]
      BY <1>1 DEF Crash
    <3>2. \A f \in Legacy : x(f) \in Nat
      OBVIOUS
    <3> HIDE DEF x
    <3>3. \A f \in Legacy : excused[f] + x(f) \in Nat
      BY <1>0, <3>2 DEF TypeOK
    <3>4. QED
      BY <3>1, <3>3
  <2>3. Around
    BY <1>0, <1>1, <2>2, SpentFacts DEF Crash, Around, TypeOK
  <2> HIDE DEF k
  <2>4. QED
    BY <2>1, <2>3, CommandType DEF Moves
<1>2. ASSUME DayPasses PROVE TypeInv'
  <2>1. today' \in Day /\ today' = today + 1 /\ today \in Nat
    BY <1>0, <1>2, StoreUpkeepAssumption DEF DayPasses, Day
  <2>2. TypeOK'
    BY <1>0, <1>2, <2>1 DEF DayPasses, TypeOK
  <2>3. DaysPast'
    <3>1. \A c \in Cmd : cmd[c].day \in Nat
      BY <1>0 DEF TypeOK, Command
    <3>2. \A x \in Nat : x <= today => x <= today'
      BY <2>1
    <3>3. UNCHANGED <<cmd, backups>>
      BY <1>2 DEF DayPasses
    <3>4. QED
      BY <1>0, <3>1, <3>2, <3>3 DEF DaysPast
  <2>4. QED
    BY <1>2, <2>2, <2>3 DEF DayPasses, TypeInv, Fits
<1>3. ASSUME SaveTask PROVE TypeInv'
  <2>1. arriving \in Lane
    BY <1>0, <1>3 DEF SaveTask, TypeOK
  <2>2. db' \in Store
    BY <1>0, <1>3, <2>1, StoreFacts DEF SaveTask
  <2>3. QED
    BY <1>0, <1>3, <2>2 DEF SaveTask, TypeInv, TypeOK, DaysPast, Fits
<1>4. ASSUME NEW f \in Handover, EditHandover(f) PROVE TypeInv'
  <2>1. laneOf' \in [Handover -> Lane \cup {NONE}]
    BY <1>0, <1>4 DEF EditHandover, TypeOK
  <2>2. QED
    BY <1>0, <1>4, <2>1, SpentFacts DEF EditHandover, TypeInv, TypeOK, DaysPast, Fits
<1>5. ASSUME NEW l \in Lane, Submit(l) PROVE TypeInv'
  <2>1. db' \in Store
    BY <1>0, <1>5, EnsureFacts, StoreFacts DEF Submit
  <2>2. QED
    BY <1>0, <1>5, <2>1, SpentFacts DEF Submit, TypeInv, TypeOK, DaysPast, Fits
<1>6. ASSUME NEW l \in Lane, GetAgent(l) PROVE TypeInv'
  <2>1. PICK p \in {EnsureLane(l).path, NONE} :
          db' = [db EXCEPT !.lanes[l] = [path |-> p, agent |-> TRUE]]
    BY <1>6 DEF GetAgent
  <2>2. [path |-> p, agent |-> TRUE] \in LaneRow
    BY <1>0, EnsureFacts DEF LaneRow
  <2>3. db' \in Store
    BY <1>0, <2>1, <2>2, StoreFacts
  <2>4. QED
    BY <1>0, <1>6, <2>3, SpentFacts DEF GetAgent, TypeInv, TypeOK, DaysPast, Fits
<1>7. QED
  BY <1>1, <1>2, <1>3, <1>4, <1>5, <1>6

\* TypeInv is inductive.
LEMMA TypeKept == Spec => []TypeInv
<1>1. Init => TypeInv
  <2> SUFFICES ASSUME Init PROVE TypeInv
    OBVIOUS
  <2>1. today = 0 /\ today \in Day
    BY StoreUpkeepAssumption DEF Init, Day
  <2>2. TypeOK
    BY <2>1, EmptyFacts, IdleFacts DEF Init, TypeOK, Held
  <2>3. DaysPast
    <3>1. \A c \in Cmd : cmd[c].day = 0
      BY IdleFacts DEF Init
    <3>2. \A d \in Day : backups[d] = NONE
      BY DEF Init
    <3>3. QED
      BY <2>1, <3>1, <3>2 DEF DaysPast
  <2>4. QED
    BY <2>2, <2>3, IdleFacts DEF Init, TypeInv, Held
<1>2. TypeInv /\ [Next]_vars => TypeInv'
  <2> SUFFICES ASSUME TypeInv, [Next]_vars PROVE TypeInv'
    OBVIOUS
  <2>1. CASE UNCHANGED vars
    BY <2>1 DEF vars, TypeInv, TypeOK, DaysPast, Fits
  <2>2. CASE Next
    BY <2>2, BootstrapType, ImportType, RecoverType, WorldType DEF Next
  <2>3. QED
    BY <2>1, <2>2
<1>3. QED
  BY <1>1, <1>2, PTL DEF Spec

\* Every variable has its type: no command saves, mails, restores or prunes
\* something that it does not hold or that is not there.
THEOREM TypeCorrect == Spec => []TypeOK
<1>1. Spec => []TypeInv
  BY TypeKept
<1>2. TypeInv => TypeOK
  BY DEF TypeInv
<1>3. QED
  BY <1>1, <1>2, PTL

-----------------------------------------------------------------------------
(* Retention.                                                              *)

\* README.md:55-56: the day a recovery prunes for is never still to come, so
\* however many recoveries overlap, across any number of midnights, the backups
\* of the last Retention days are spared and the outdated ones go.
THEOREM RetentionIsKept == Spec => RetentionKept
<1>1. Spec => []TypeInv
  BY TypeKept
<1>2. TypeInv /\ [Next]_vars =>
        [\A c \in Cmd : Prune(c) =>
           \A d \in Day :
             /\ (d + Retention >= today) => backups'[d] = backups[d]
             /\ (d + Retention < cmd[c].day) => backups'[d] = NONE]_vars
  <2> SUFFICES ASSUME TypeInv, NEW c \in Cmd, Prune(c), NEW d \in Day
               PROVE  /\ (d + Retention >= today) => backups'[d] = backups[d]
                      /\ (d + Retention < cmd[c].day) => backups'[d] = NONE
    OBVIOUS
  <2>1. /\ d \in Nat /\ today \in Nat /\ cmd[c].day \in Nat /\ Retention \in Nat
        /\ cmd[c].day <= today
    BY MoverFacts, StoreUpkeepAssumption DEF TypeInv, TypeOK, Held, Command, Day
  <2>2. d + Retention >= today => ~Outdated(d, cmd[c].day)
    BY <2>1 DEF Outdated
  <2>3. d + Retention < cmd[c].day => Outdated(d, cmd[c].day)
    BY DEF Outdated
  <2>4. QED
    BY <2>2, <2>3 DEF Prune
<1>3. QED
  BY <1>1, <1>2, PTL DEF Spec, RetentionKept

-----------------------------------------------------------------------------
(* Imports.                                                                *)

Mailing == {"new", "sent"}

\* Whoever is about to mail a file is paid for by an excuse; a file that is not
\* on record and in nobody's hands has been mailed with an excuse only.
MailInv ==
  \A f \in Legacy :
    /\ IsFiniteSet(New(f)) /\ db.mail[f] + Cardinality(New(f)) <= 1 + excused[f]
    /\ f \notin db.imports /\ Importing(f) = {} => db.mail[f] <= excused[f]

\* So it is in each backup, and whoever has looked for a file may find it restored
\* and mailed once already.
BackedUp(s) ==
  \A f \in Legacy :
    /\ f \notin s.imports => s.mail[f] <= excused[f]
    /\ s.mail[f] <= 1 + excused[f]
    /\ s.mail[f] + Cardinality(New(f)) <= 2 + excused[f]

BackupInv == \A d \in Day : backups[d] # NONE => BackedUp(backups[d])

\* As long as nothing changed under a command's feet, what is on record, in the
\* store or a backup, was mailed; and so was what is about to be recorded.
RecordInv ==
  ~raced => /\ \A f \in db.imports : db.mail[f] > 0
            /\ \A c \in Cmd : cmd[c].at = "sent" => db.mail[cmd[c].file] > 0
            /\ \A d \in Day : backups[d] # NONE =>
                 \A f \in backups[d].imports : backups[d].mail[f] > 0

ImportInv == MailInv /\ BackupInv /\ RecordInv

\* A backup stays in order when those who look are excused, or there is one.
LEMMA BackupStands ==
  ASSUME TypeInv, NEW s \in Store, BackedUp(s), excused' \in [Legacy -> Nat],
         \A f \in Legacy :
           /\ Cardinality(New(f)) \in Nat /\ Cardinality(New(f)') \in Nat
           /\ excused[f] <= excused'[f]
           /\ \/ Cardinality(New(f)') <= 1
              \/ Cardinality(New(f)') + excused[f] <= Cardinality(New(f)) + excused'[f]
  PROVE  \A f \in Legacy :
           /\ f \notin s.imports => s.mail[f] <= excused'[f]
           /\ s.mail[f] <= 1 + excused'[f]
           /\ s.mail[f] + Cardinality(New(f)') <= 2 + excused'[f]
<1> SUFFICES ASSUME NEW f \in Legacy
             PROVE  /\ f \notin s.imports => s.mail[f] <= excused'[f]
                    /\ s.mail[f] <= 1 + excused'[f]
                    /\ s.mail[f] + Cardinality(New(f)') <= 2 + excused'[f]
  OBVIOUS
<1> DEFINE n == Cardinality(New(f))
           m == Cardinality(New(f)')
           x == excused[f]
           y == excused'[f]
           z == s.mail[f]
<1>1. /\ n \in Nat /\ m \in Nat /\ x \in Nat /\ y \in Nat /\ z \in Nat
      /\ x <= y /\ (m <= 1 \/ m + x <= n + y)
  BY DEF TypeInv, TypeOK, Store
<1>2. (f \notin s.imports => z <= x) /\ z <= 1 + x /\ z + n <= 2 + x
  BY DEF BackedUp
<1> HIDE DEF n, m, x, y, z
<1>3. (f \notin s.imports => z <= y) /\ z <= 1 + y /\ z + m <= 2 + y
  BY <1>1, <1>2
<1>4. QED
  BY <1>3 DEF n, m, x, y, z

\* What the backups were and still are.
LEMMA BackupsStand ==
  ASSUME TypeInv, ImportInv, excused' \in [Legacy -> Nat],
         \A d \in Day : backups'[d] # NONE => backups'[d] = backups[d] \/ BackedUp(backups[d])',
         \A f \in Legacy :
           /\ Cardinality(New(f)) \in Nat /\ Cardinality(New(f)') \in Nat
           /\ excused[f] <= excused'[f]
           /\ \/ Cardinality(New(f)') <= 1
              \/ Cardinality(New(f)') + excused[f] <= Cardinality(New(f)) + excused'[f]
  PROVE  BackupInv'
<1> SUFFICES ASSUME NEW d \in Day, backups'[d] # NONE PROVE BackedUp(backups[d])'
  BY DEF BackupInv
<1>1. CASE backups'[d] = backups[d]
  <2>1. backups[d] \in Store /\ BackedUp(backups[d])
    BY <1>1 DEF TypeInv, TypeOK, ImportInv, BackupInv
  <2>2. PICK s \in Store : s = backups[d] /\ BackedUp(s)
    BY <2>1
  <2>3. \A f \in Legacy :
          /\ f \notin s.imports => s.mail[f] <= excused'[f]
          /\ s.mail[f] <= 1 + excused'[f]
          /\ s.mail[f] + Cardinality(New(f)') <= 2 + excused'[f]
    BY <2>2, BackupStands
  <2>4. QED
    BY <1>1, <2>2, <2>3 DEF BackedUp
<1>2. CASE backups'[d] # backups[d]
  BY <1>2
<1>3. QED
  BY <1>1, <1>2

\* Nobody takes a file up or puts one down, and no message is sent.
Quiet ==
  /\ \A d \in Cmd : \/ cmd'[d] = cmd[d]
                    \/ cmd[d].at \notin Mailing /\ cmd'[d].at \notin Mailing
  /\ db'.mail = db.mail /\ db'.imports = db.imports
  /\ UNCHANGED excused /\ (raced => raced')

\* Then it is only the backups that may disturb the invariant.
LEMMA QuietKeeps ==
  ASSUME TypeInv, ImportInv, Quiet,
         \/ UNCHANGED backups
         \/ backups' = [backups EXCEPT ![today] = EmptyStore]
         \/ \E c \in Cmd : Prune(c)
  PROVE  ImportInv'
<1>1. \A f \in Legacy : New(f)' = New(f) /\ Importing(f)' = Importing(f)
  BY DEF Quiet, Mailing, New, Importing
<1>2. MailInv'
  BY <1>1 DEF Quiet, ImportInv, MailInv
<1>3. /\ today \in Day /\ \A d \in Day : d \in Nat /\ (backups[d] # NONE => d <= today)
      /\ backups \in [Day -> Store \cup {NONE}] /\ db \in Store
      /\ excused \in [Legacy -> Nat]
      /\ EmptyStore.imports = {} /\ \A f \in Legacy : EmptyStore.mail[f] = 0
  BY StoreUpkeepAssumption DEF TypeInv, TypeOK, DaysPast, Day, EmptyStore
<1>4. BackupInv'
  <2>1. \A f \in Legacy :
          /\ Cardinality(New(f)) \in Nat /\ Cardinality(New(f)') = Cardinality(New(f))
          /\ excused[f] \in Nat /\ excused'[f] = excused[f]
          /\ db.mail[f] \in Nat /\ db.mail[f] + Cardinality(New(f)) <= 1 + excused[f]
    BY <1>1, <1>3, FS_CardinalityType DEF ImportInv, MailInv, Quiet, Store
  <2>2. BackedUp(EmptyStore)'
    BY <1>3, <2>1 DEF BackedUp
  <2>3. \A d \in Day : backups'[d] # NONE =>
          backups'[d] = backups[d] \/ backups'[d] = EmptyStore
    BY <1>3 DEF Prune
  <2>4. \A d \in Day : backups'[d] = EmptyStore => BackedUp(backups[d])'
    BY <2>2 DEF BackedUp
  <2>5. excused' \in [Legacy -> Nat]
    BY <1>3 DEF Quiet
  <2>6. QED
    BY <2>1, <2>3, <2>4, <2>5, BackupsStand
<1>5. RecordInv'
  <2> SUFFICES ASSUME ~raced', ~raced PROVE RecordInv'
    BY DEF RecordInv, Quiet
  <2>1. \A d \in Day : backups'[d] # NONE =>
          \A f \in backups'[d].imports : backups'[d].mail[f] > 0
    <3>1. CASE UNCHANGED backups
      BY <3>1 DEF ImportInv, RecordInv
    <3>2. CASE backups' = [backups EXCEPT ![today] = EmptyStore]
      BY <1>3, <3>2 DEF ImportInv, RecordInv
    <3>3. ASSUME NEW c \in Cmd, Prune(c)
          PROVE  \A d \in Day : backups'[d] # NONE =>
                   \A f \in backups'[d].imports : backups'[d].mail[f] > 0
      BY <3>3 DEF ImportInv, RecordInv, Prune
    <3>4. QED
      BY <3>1, <3>2, <3>3
  <2>2. \A c \in Cmd : cmd'[c].at = "sent" => cmd'[c] = cmd[c]
    BY DEF Quiet, Mailing
  <2>3. QED
    BY <2>1, <2>2 DEF ImportInv, RecordInv, Quiet
<1>6. QED
  BY <1>2, <1>4, <1>5 DEF ImportInv

\* What a process that is not at a file moves to.
LEMMA QuietMove ==
  ASSUME TypeInv, NEW c \in Cmd, NEW k \in Held, cmd' = [cmd EXCEPT ![c] = k],
         cmd[c].at \notin Mailing, k.at \notin Mailing
  PROVE  \A d \in Cmd : \/ cmd'[d] = cmd[d]
                        \/ cmd[d].at \notin Mailing /\ cmd'[d].at \notin Mailing
BY HeldFacts

\* No step of a bootstrap is one of an import.
LEMMA BootstrapQuiet ==
  ASSUME TypeInv, NEW c \in Cmd, Bootstrap(c)
  PROVE  Quiet /\ UNCHANGED backups
<1>0. /\ cmd[c] \in Held /\ cmd[c].day <= today /\ 0 <= today
      /\ db \in Store /\ TypeOK
  BY MoverFacts DEF TypeInv
<1>1. cmd[c].at \notin Mailing
  BY DEF Bootstrap, StartBootstrap, SkipHandover, ListAliases, CheckAlias,
         DeleteAlias, Blocked, Adopt, SaveAdopted, BootstrapEnds, Start, Mailing
<1>2. PICK k \in Held : cmd' = [cmd EXCEPT ![c] = k] /\ k.at \notin Mailing
  <2>1. CASE StartBootstrap(c)
    <3> DEFINE k == [NoCommand EXCEPT !.at = "boot"]
    <3>1. cmd' = [cmd EXCEPT ![c] = k] /\ k \in Held /\ k.at = "boot"
      BY <2>1, IdleFacts DEF StartBootstrap
    <3> HIDE DEF k
    <3>2. QED
      BY <3>1 DEF Mailing
  <2>2. CASE BootstrapEnds(c)
    BY <2>2, IdleFacts DEF BootstrapEnds, Mailing
  <2>3. CASE SkipHandover(c) \/ Blocked(c)
    <3> DEFINE k == [cmd[c] EXCEPT !.at = "boot", !.next = @ + 1, !.blocked = FALSE]
    <3>1. cmd' = [cmd EXCEPT ![c] = k]
      BY <1>0, <2>3 DEF SkipHandover, Blocked, NextHandover
    <3>2. k \in Held /\ k.at = "boot"
      BY <1>0, NextFacts
    <3> HIDE DEF k
    <3>3. QED
      BY <3>1, <3>2 DEF Mailing
  <2>4. CASE ListAliases(c)
    <3> DEFINE f == Handovers[cmd[c].next]
               l == laneOf[f]
               T == LanesAt(f) \ {l}
    <3>1. l \in Lane /\ T \in SUBSET Lane /\ cmd[c].next <= Len(Handovers)
      BY <1>0, <2>4, MoverFacts DEF ListAliases, Adoptable, LanesAt, TypeOK
    <3>2. cmd' = [cmd EXCEPT ![c] = Listed(cmd[c], l, T)]
      BY <2>4 DEF ListAliases
    <3> HIDE DEF l, T
    <3>3. QED
      BY <1>0, <3>1, <3>2, ListFacts DEF Mailing
  <2>5. CASE CheckAlias(c)
    <3>1. cmd[c].at = "aliases" /\ cmd[c].at \in Adopting
      BY <2>5 DEF CheckAlias, Adopting
    <3>2. PICK l \in Lane : \/ cmd' = [cmd EXCEPT ![c] = Deleting(cmd[c], l)]
                            \/ cmd' = [cmd EXCEPT ![c] = Blocking(cmd[c], l)]
      BY <1>0, <2>5 DEF CheckAlias, Held, Command
    <3>3. QED
      BY <1>0, <3>1, <3>2, DeletingFacts, BlockingFacts DEF Mailing
  <2>6. CASE DeleteAlias(c)
    <3>1. cmd[c].at \in Adopting /\ cmd' = [cmd EXCEPT ![c] = Deleted(cmd[c])]
      BY <2>6 DEF DeleteAlias, Adopting
    <3>2. QED
      BY <1>0, <3>1, DeletedFacts DEF Mailing
  <2>7. CASE Adopt(c)
    <3> DEFINE l == cmd[c].lane
               r == EnsureLane(l)
    <3>1. cmd[c].at \in Adopting /\ l \in Lane
      BY <1>0, <2>7 DEF Adopt, Adopting, Held, Fits
    <3>2. r \in LaneRow
      BY <1>0, <3>1, EnsureFacts
    <3>3. cmd' = [cmd EXCEPT ![c] = Saving(cmd[c], l, r)]
      BY <2>7 DEF Adopt
    <3> HIDE DEF l, r
    <3>4. QED
      BY <1>0, <3>1, <3>2, <3>3, SavingFacts DEF Mailing
  <2>8. CASE SaveAdopted(c)
    <3> DEFINE k == [[cmd[c] EXCEPT !.at = "boot", !.next = @ + 1, !.blocked = FALSE]
                       EXCEPT !.row = NONE]
    <3>1. cmd' = [cmd EXCEPT ![c] = k]
      BY <1>0, <2>8 DEF SaveAdopted, NextHandover
    <3>2. k \in Held /\ k.at = "boot"
      BY <1>0, NextFacts
    <3> HIDE DEF k
    <3>3. QED
      BY <3>1, <3>2 DEF Mailing
  <2>9. QED
    BY <2>1, <2>2, <2>3, <2>4, <2>5, <2>6, <2>7, <2>8 DEF Bootstrap
<1>3. \A d \in Cmd : \/ cmd'[d] = cmd[d]
                     \/ cmd[d].at \notin Mailing /\ cmd'[d].at \notin Mailing
  BY <1>1, <1>2, QuietMove
<1>4. db'.mail = db.mail /\ db'.imports = db.imports
  <2>1. CASE DeleteAlias(c)
    BY <1>0, <2>1 DEF DeleteAlias, Store
  <2>2. CASE Adopt(c)
    BY <1>0, <2>2 DEF Adopt, Store
  <2>3. CASE SaveAdopted(c)
    BY <1>0, <2>3 DEF SaveAdopted, Store
  <2>4. QED
    BY <2>1, <2>2, <2>3 DEF Bootstrap, StartBootstrap, SkipHandover, ListAliases,
       CheckAlias, Blocked, BootstrapEnds
<1>5. UNCHANGED <<excused, backups>> /\ (raced => raced')
  <2>1. CASE ListAliases(c)
    BY <2>1 DEF ListAliases
  <2>2. CASE ~ListAliases(c)
    <3>1. UNCHANGED <<excused, backups, raced>>
      BY <2>2 DEF Bootstrap, StartBootstrap, SkipHandover, CheckAlias,
         DeleteAlias, Blocked, Adopt, SaveAdopted, BootstrapEnds
    <3>2. QED
      BY <3>1
  <2>3. QED
    BY <2>1, <2>2
<1>6. QED
  BY <1>3, <1>4, <1>5 DEF Quiet

\* Nor are the steps of a recovery that neither copy nor restore.
LEMMA RecoverQuiet ==
  ASSUME TypeInv, NEW c \in Cmd,
         StartRecover(c) \/ BeginBackup(c) \/ BackupExists(c) \/ Prune(c)
  PROVE  /\ Quiet
         /\ \/ UNCHANGED backups
            \/ backups' = [backups EXCEPT ![today] = EmptyStore]
            \/ \E d \in Cmd : Prune(d)
<1>0. cmd[c] \in Held /\ today \in Day
  BY MoverFacts DEF TypeInv, TypeOK
<1>1. cmd[c].at \notin Mailing
  BY DEF StartRecover, BeginBackup, BackupExists, Prune, Start, Mailing
<1>2. PICK k \in Held : cmd' = [cmd EXCEPT ![c] = k] /\ k.at \notin Mailing
  <2>1. CASE StartRecover(c)
    <3> DEFINE k == [NoCommand EXCEPT !.at = "backup"]
    <3>1. cmd' = [cmd EXCEPT ![c] = k] /\ k \in Held /\ k.at = "backup"
      BY <2>1, IdleFacts DEF StartRecover
    <3> HIDE DEF k
    <3>2. QED
      BY <3>1 DEF Mailing
  <2>2. CASE BeginBackup(c)
    <3> DEFINE k == [cmd[c] EXCEPT !.at = "copy", !.day = today]
    <3>1. cmd' = [cmd EXCEPT ![c] = k]
      BY <2>2 DEF BeginBackup
    <3>2. k \in Held /\ k.at = "copy"
      BY <1>0, CopyFacts
    <3> HIDE DEF k
    <3>3. QED
      BY <3>1, <3>2 DEF Mailing
  <2>3. CASE BackupExists(c)
    <3> DEFINE k == [cmd[c] EXCEPT !.at = "prune", !.day = today]
    <3>1. cmd' = [cmd EXCEPT ![c] = k]
      BY <2>3 DEF BackupExists
    <3>2. k \in Held /\ k.at = "prune"
      BY <1>0, CopyFacts
    <3> HIDE DEF k
    <3>3. QED
      BY <3>1, <3>2 DEF Mailing
  <2>4. CASE Prune(c)
    BY <2>4, IdleFacts DEF Prune, Mailing
  <2>5. QED
    BY <2>1, <2>2, <2>3, <2>4
<1>3. \A d \in Cmd : \/ cmd'[d] = cmd[d]
                     \/ cmd[d].at \notin Mailing /\ cmd'[d].at \notin Mailing
  BY <1>1, <1>2, QuietMove
<1>4. UNCHANGED <<db, excused, raced>>
  BY DEF StartRecover, BeginBackup, BackupExists, Prune
<1>5. QED
  BY <1>3, <1>4 DEF Quiet, StartRecover, BeginBackup, BackupExists

\* Nor what happens around the commands.
LEMMA WorldQuiet ==
  ASSUME TypeInv,
         \/ DayPasses \/ SaveTask
         \/ \E f \in Handover : EditHandover(f)
         \/ \E l \in Lane : Submit(l) \/ GetAgent(l)
  PROVE  Quiet /\ UNCHANGED backups
<1>0. db \in Store
  BY DEF TypeInv, TypeOK
<1>1. CASE DayPasses \/ \E f \in Handover : EditHandover(f)
  BY <1>1 DEF DayPasses, EditHandover, Quiet
<1>2. CASE SaveTask
  <2>1. db'.mail = db.mail /\ db'.imports = db.imports
    BY <1>0, <1>2 DEF SaveTask, Store
  <2>2. QED
    BY <1>2, <2>1 DEF SaveTask, Quiet
<1>3. ASSUME NEW l \in Lane, Submit(l) PROVE Quiet /\ UNCHANGED backups
  <2>1. db'.mail = db.mail /\ db'.imports = db.imports
    BY <1>0, <1>3 DEF Submit, Store
  <2>2. QED
    BY <1>3, <2>1 DEF Submit, Quiet
<1>4. ASSUME NEW l \in Lane, GetAgent(l) PROVE Quiet /\ UNCHANGED backups
  <2>1. PICK p \in {EnsureLane(l).path, NONE} :
          db' = [db EXCEPT !.lanes[l] = [path |-> p, agent |-> TRUE]]
    BY <1>4 DEF GetAgent
  <2>2. db'.mail = db.mail /\ db'.imports = db.imports
    BY <1>0, <2>1 DEF Store
  <2>3. QED
    BY <1>4, <2>2 DEF GetAgent, Quiet
<1>5. QED
  BY <1>1, <1>2, <1>3, <1>4

\* One process takes a file up to mail it, or lets go of one.
LEMMA NewFacts ==
  ASSUME TypeInv, NEW c \in Cmd, NEW k \in Held, cmd' = [cmd EXCEPT ![c] = k],
         NEW f \in Legacy, IsFiniteSet(New(f))
  PROVE  /\ IsFiniteSet(New(f)') /\ Cardinality(New(f)) \in Nat
         /\ k.at = "new" /\ k.file = f /\ c \notin New(f) =>
              Cardinality(New(f)') = Cardinality(New(f)) + 1
         /\ c \in New(f) /\ k.at # "new" =>
              Cardinality(New(f)') = Cardinality(New(f)) - 1
         /\ c \notin New(f) /\ (k.at # "new" \/ k.file # f) =>
              Cardinality(New(f)') = Cardinality(New(f))
<1>1. \A d \in Cmd : cmd'[d] = IF d = c THEN k ELSE cmd[d]
  BY HeldFacts
<1>2. CASE k.at = "new" /\ k.file = f
  <2>1. New(f)' = New(f) \cup {c}
    BY <1>1, <1>2 DEF New
  <2>2. QED
    BY <1>2, <2>1, FS_AddElement, FS_CardinalityType
<1>3. CASE ~(k.at = "new" /\ k.file = f)
  <2>1. New(f)' = New(f) \ {c}
    BY <1>1, <1>3 DEF New
  <2>2. c \notin New(f) => New(f) \ {c} = New(f)
    OBVIOUS
  <2>3. QED
    BY <1>3, <2>1, <2>2, FS_RemoveElement, FS_CardinalityType
<1>4. QED
  BY <1>2, <1>3

\* A file is found new: whoever finds it while another has it is excused.
LEMMA CheckKeeps ==
  ASSUME TypeInv, ImportInv, NEW c \in Cmd, CheckImport(c)
  PROVE  ImportInv'
<1>0. /\ cmd[c] \in Held /\ cmd[c].at = "legacy"
      /\ db.mail \in [Legacy -> Nat] /\ excused \in [Legacy -> Nat]
  BY MoverFacts DEF CheckImport, TypeInv, TypeOK, Store
<1>1. UNCHANGED <<db, backups, raced>>
  BY DEF CheckImport
<1>2. PICK f \in Legacy :
        \/ /\ cmd' = [cmd EXCEPT ![c] = Found(cmd[c], f)]
           /\ UNCHANGED excused
        \/ /\ f \notin db.imports
           /\ cmd' = [cmd EXCEPT ![c] = Unmailed(cmd[c], f)]
           /\ excused' = [excused EXCEPT ![f] =
                            @ + IF Importing(f) # {} THEN 1 ELSE 0]
  BY <1>0 DEF CheckImport, Held, Command
<1>3. CASE cmd' = [cmd EXCEPT ![c] = Found(cmd[c], f)] /\ UNCHANGED excused
  <2> DEFINE k == Found(cmd[c], f)
  <2>1. k \in Held /\ k.at = "legacy"
    BY <1>0, ImportFacts
  <2> HIDE DEF k
  <2>2. Quiet
    BY <1>0, <1>1, <1>3, <2>1, QuietMove DEF Quiet, Mailing, k
  <2>3. QED
    BY <1>1, <2>2, QuietKeeps
<1>4. CASE /\ f \notin db.imports
           /\ cmd' = [cmd EXCEPT ![c] = Unmailed(cmd[c], f)]
           /\ excused' = [excused EXCEPT ![f] =
                            @ + IF Importing(f) # {} THEN 1 ELSE 0]
  <2> DEFINE k == Unmailed(cmd[c], f)
             x == IF Importing(f) # {} THEN 1 ELSE 0
  <2>1. k \in Held /\ k.at = "new" /\ k.file = f
    BY <1>0, ImportFacts
  <2>2. cmd' = [cmd EXCEPT ![c] = k] /\ excused' = [excused EXCEPT ![f] = @ + x]
    BY <1>4
  <2>3. x \in Nat /\ (Importing(f) # {} => x = 1)
    OBVIOUS
  <2> HIDE DEF k, x
  <2>4. \A g \in Legacy : excused'[g] \in Nat /\ excused'[g] >= excused[g]
    BY <1>0, <2>2, <2>3
  <2>5. MailInv'
    <3> SUFFICES ASSUME NEW g \in Legacy
                 PROVE  /\ IsFiniteSet(New(g)')
                        /\ db.mail[g] + Cardinality(New(g)') <= 1 + excused'[g]
                        /\ g \notin db.imports /\ Importing(g)' = {} =>
                             db.mail[g] <= excused'[g]
      BY <1>1 DEF MailInv
    <3>0. /\ db.mail[g] \in Nat /\ excused[g] \in Nat /\ excused'[g] \in Nat
          /\ excused'[g] >= excused[g]
          /\ IsFiniteSet(New(g)) /\ Cardinality(New(g)) \in Nat
          /\ db.mail[g] + Cardinality(New(g)) <= 1 + excused[g]
          /\ g \notin db.imports /\ Importing(g) = {} => db.mail[g] <= excused[g]
      BY <1>0, <2>4, FS_CardinalityType DEF ImportInv, MailInv
    <3>1. \A d \in Cmd : cmd'[d] = IF d = c THEN k ELSE cmd[d]
      BY <2>1, <2>2, HeldFacts
    <3>2. c \notin New(g) /\ c \notin Importing(g)
      BY <1>0 DEF New, Importing
    <3>3. CASE g = f
      <4>1. Cardinality(New(g)') = Cardinality(New(g)) + 1 /\ IsFiniteSet(New(g)')
        BY <2>1, <2>2, <3>0, <3>2, <3>3, NewFacts
      <4>2. c \in Importing(g)'
        BY <2>1, <3>1, <3>3 DEF Importing
      <4>3. CASE Importing(g) = {}
        <5>1. New(g) = {}
          BY <4>3 DEF New, Importing
        <5>2. Cardinality(New(g)) = 0
          BY <5>1, FS_EmptySet
        <5>3. QED
          BY <1>4, <3>0, <3>3, <4>1, <4>2, <4>3, <5>2
      <4>4. CASE Importing(g) # {}
        <5>1. excused'[g] = excused[g] + 1
          BY <1>0, <2>2, <2>3, <3>3, <4>4
        <5>2. QED
          BY <3>0, <4>1, <4>2, <5>1
      <4>5. QED
        BY <4>3, <4>4
    <3>4. CASE g # f
      <4>1. Cardinality(New(g)') = Cardinality(New(g)) /\ IsFiniteSet(New(g)')
        BY <2>1, <2>2, <3>0, <3>2, <3>4, NewFacts
      <4>2. Importing(g)' = Importing(g)
        BY <2>1, <3>1, <3>2, <3>4 DEF Importing
      <4>3. QED
        BY <3>0, <4>1, <4>2
    <3>5. QED
      BY <3>3, <3>4
  <2>6. BackupInv'
    <3> SUFFICES ASSUME NEW g \in Legacy
                 PROVE  /\ Cardinality(New(g)) \in Nat /\ Cardinality(New(g)') \in Nat
                        /\ excused[g] <= excused'[g]
                        /\ \/ Cardinality(New(g)') <= 1
                           \/ Cardinality(New(g)') + excused[g] <=
                                Cardinality(New(g)) + excused'[g]
      BY <1>0, <1>1, <1>4, <2>3, BackupsStand DEF x
    <3>1. /\ IsFiniteSet(New(g)) /\ Cardinality(New(g)) \in Nat
          /\ excused[g] \in Nat /\ excused'[g] \in Nat /\ excused[g] <= excused'[g]
      BY <1>0, <2>4, FS_CardinalityType DEF ImportInv, MailInv
    <3>2. c \notin New(g)
      BY <1>0 DEF New
    <3>3. CASE g = f
      <4>1. Cardinality(New(g)') = Cardinality(New(g)) + 1
        BY <2>1, <2>2, <3>1, <3>2, <3>3, NewFacts
      <4>2. CASE Importing(g) = {}
        <5>1. New(g) = {}
          BY <4>2 DEF New, Importing
        <5>2. Cardinality(New(g)) = 0
          BY <5>1, FS_EmptySet
        <5>3. QED
          BY <3>1, <4>1, <5>2
      <4>3. CASE Importing(g) # {}
        <5>1. excused'[g] = excused[g] + 1
          BY <1>0, <2>2, <2>3, <3>3, <4>3
        <5>2. QED
          BY <3>1, <4>1, <5>1
      <4>4. QED
        BY <4>2, <4>3
    <3>4. CASE g # f
      <4>1. Cardinality(New(g)') = Cardinality(New(g))
        BY <2>1, <2>2, <3>1, <3>2, <3>4, NewFacts
      <4>2. QED
        BY <3>1, <4>1
    <3>5. QED
      BY <3>3, <3>4
  <2>7. RecordInv'
    <3>1. \A d \in Cmd : cmd'[d].at = "sent" => cmd'[d] = cmd[d]
      BY <2>1, <2>2, HeldFacts
    <3>2. QED
      BY <1>1, <3>1 DEF ImportInv, RecordInv
  <2>8. QED
    BY <2>5, <2>6, <2>7 DEF ImportInv
<1>5. QED
  BY <1>2, <1>3, <1>4

\* A file is mailed: whoever was about to, has.
LEMMA SendKeeps ==
  ASSUME TypeInv, ImportInv, NEW c \in Cmd, SendImport(c)
  PROVE  ImportInv'
<1> DEFINE k == [cmd[c] EXCEPT !.at = "sent"]
           f == cmd[c].file
<1>0. /\ cmd[c].at = "new" /\ f \in Legacy /\ cmd[c] \in Held
      /\ db \in Store /\ db.mail \in [Legacy -> Nat] /\ excused \in [Legacy -> Nat]
  BY MoverFacts DEF SendImport, Held, Fits, TypeInv, TypeOK, Store
<1>1. cmd' = [cmd EXCEPT ![c] = k] /\ UNCHANGED <<backups, excused, raced>>
  BY DEF SendImport
<1>2. k \in Held /\ k.at = "sent" /\ k.file = f
  BY <1>0, MailFacts
<1>3. db'.imports = db.imports /\ db'.mail = [db.mail EXCEPT ![f] = @ + 1]
  BY <1>0, StoreFacts DEF SendImport
<1> HIDE DEF k, f
<1>4. \A d \in Cmd : cmd'[d] = IF d = c THEN k ELSE cmd[d]
  BY <1>1, <1>2, HeldFacts
<1>5. \A g \in Legacy : db'.mail[g] = IF g = f THEN db.mail[g] + 1 ELSE db.mail[g]
  BY <1>0, <1>3
<1>6. MailInv'
  <2> SUFFICES ASSUME NEW g \in Legacy
               PROVE  /\ IsFiniteSet(New(g)')
                      /\ db'.mail[g] + Cardinality(New(g)') <= 1 + excused[g]
                      /\ g \notin db.imports /\ Importing(g)' = {} =>
                           db'.mail[g] <= excused[g]
    BY <1>1, <1>3 DEF MailInv
  <2>0. /\ db.mail[g] \in Nat /\ excused[g] \in Nat
        /\ IsFiniteSet(New(g)) /\ Cardinality(New(g)) \in Nat
        /\ db.mail[g] + Cardinality(New(g)) <= 1 + excused[g]
        /\ g \notin db.imports /\ Importing(g) = {} => db.mail[g] <= excused[g]
    BY <1>0, FS_CardinalityType DEF ImportInv, MailInv
  <2>1. Importing(g)' = Importing(g)
    BY <1>0, <1>2, <1>4 DEF Importing, f
  <2>2. CASE g = f
    <3>1. c \in New(g) /\ c \in Importing(g)
      BY <1>0, <2>2 DEF New, Importing, f
    <3>2. Cardinality(New(g)') = Cardinality(New(g)) - 1 /\ IsFiniteSet(New(g)')
      BY <1>1, <1>2, <2>0, <3>1, NewFacts
    <3>3. QED
      BY <1>5, <2>0, <2>1, <2>2, <3>1, <3>2
  <2>3. CASE g # f
    <3>1. c \notin New(g)
      BY <2>3 DEF New, f
    <3>2. Cardinality(New(g)') = Cardinality(New(g)) /\ IsFiniteSet(New(g)')
      BY <1>1, <1>2, <2>0, <3>1, NewFacts
    <3>3. QED
      BY <1>5, <2>0, <2>1, <2>3, <3>2
  <2>4. QED
    BY <2>2, <2>3
<1>7. BackupInv'
  <2> SUFFICES ASSUME NEW g \in Legacy
               PROVE  /\ Cardinality(New(g)) \in Nat /\ Cardinality(New(g)') \in Nat
                      /\ excused[g] <= excused[g]
                      /\ Cardinality(New(g)') + excused[g] <= Cardinality(New(g)) + excused[g]
    BY <1>0, <1>1, BackupsStand
  <2>1. IsFiniteSet(New(g)) /\ Cardinality(New(g)) \in Nat /\ excused[g] \in Nat
    BY <1>0, FS_CardinalityType DEF ImportInv, MailInv
  <2>2. /\ Cardinality(New(g)') \in Nat
        /\ \/ Cardinality(New(g)') = Cardinality(New(g)) - 1
           \/ Cardinality(New(g)') = Cardinality(New(g))
    <3>1. IsFiniteSet(New(g)') /\ Cardinality(New(g)') \in Nat
      BY <1>1, <1>2, <2>1, NewFacts, FS_CardinalityType
    <3>2. QED
      BY <1>1, <1>2, <2>1, <3>1, NewFacts
  <2>3. QED
    BY <2>1, <2>2
<1>8. RecordInv'
  <2> SUFFICES ASSUME ~raced PROVE RecordInv'
    BY <1>1 DEF RecordInv
  <2>1. \A g \in Legacy : db.mail[g] > 0 => db'.mail[g] > 0
    BY <1>0, <1>5
  <2>2. db.imports \subseteq Legacy
    BY <1>0 DEF Store
  <2>3. \A g \in db'.imports : db'.mail[g] > 0
    BY <1>3, <2>1, <2>2 DEF ImportInv, RecordInv
  <2>4. ASSUME NEW d \in Cmd, cmd'[d].at = "sent" PROVE db'.mail[cmd'[d].file] > 0
    <3>1. CASE d = c
      <4>1. cmd'[d].file = f /\ db.mail[f] \in Nat
        BY <1>0, <1>2, <1>4, <3>1
      <4>2. QED
        BY <1>0, <1>5, <4>1
    <3>2. CASE d # c
      <4>1. cmd'[d] = cmd[d] /\ cmd[d].file \in Legacy
        BY <1>4, <2>4, <3>2 DEF TypeInv, Fits
      <4>2. QED
        BY <2>1, <2>4, <4>1 DEF ImportInv, RecordInv
    <3>3. QED
      BY <3>1, <3>2
  <2>5. QED
    BY <1>1, <2>3, <2>4 DEF ImportInv, RecordInv
<1>9. QED
  BY <1>6, <1>7, <1>8 DEF ImportInv

\* It is put on record.
LEMMA RecordKeeps ==
  ASSUME TypeInv, ImportInv, NEW c \in Cmd, RecordImport(c)
  PROVE  ImportInv'
<1> DEFINE k == [cmd[c] EXCEPT !.at = "legacy", !.file = NONE]
           f == cmd[c].file
<1>0. /\ cmd[c].at = "sent" /\ f \in Legacy /\ cmd[c] \in Held /\ db \in Store
  BY MoverFacts DEF RecordImport, Held, Fits, TypeInv, TypeOK
<1>1. cmd' = [cmd EXCEPT ![c] = k] /\ UNCHANGED <<backups, excused, raced>>
  BY DEF RecordImport
<1>2. k \in Held /\ k.at = "legacy"
  BY <1>0, MailFacts
<1>3. db'.imports = db.imports \cup {f} /\ db'.mail = db.mail
  BY <1>0, StoreFacts DEF RecordImport
<1> HIDE DEF k, f
<1>4. \A d \in Cmd : cmd'[d] = IF d = c THEN k ELSE cmd[d]
  BY <1>1, <1>2, HeldFacts
<1>5. ASSUME NEW g \in Legacy
      PROVE  New(g)' = New(g) /\ (g # f => Importing(g)' = Importing(g))
  <2>1. New(g)' = New(g)
    BY <1>0, <1>2, <1>4 DEF New
  <2>2. g # f => Importing(g)' = Importing(g)
    BY <1>0, <1>2, <1>4 DEF Importing, f
  <2>3. QED
    BY <2>1, <2>2
<1>6. MailInv'
  BY <1>1, <1>3, <1>5 DEF ImportInv, MailInv
<1>7. BackupInv'
  BY <1>1, <1>5 DEF ImportInv, BackupInv, BackedUp
<1>8. RecordInv'
  <2> SUFFICES ASSUME ~raced PROVE RecordInv'
    BY <1>1 DEF RecordInv
  <2>1. db.mail[f] > 0
    BY <1>0 DEF ImportInv, RecordInv, f
  <2>2. \A d \in Cmd : cmd'[d].at = "sent" => cmd'[d] = cmd[d]
    BY <1>2, <1>4
  <2>3. QED
    BY <1>1, <1>3, <2>1, <2>2 DEF ImportInv, RecordInv
<1>9. QED
  BY <1>6, <1>7, <1>8 DEF ImportInv

\* A backup takes the place of the store: whoever has looked is excused.
LEMMA RestoreKeeps ==
  ASSUME TypeInv, ImportInv, NEW c \in Cmd, RestoreBackup(c)
  PROVE  ImportInv'
<1> DEFINE k == [NoCommand EXCEPT !.at = "backup"]
           x(f) == IF New(f) # {} THEN 1 ELSE 0
<1>0. /\ cmd[c] \in Held /\ cmd[c].at = "idle" /\ excused \in [Legacy -> Nat]
  BY MoverFacts DEF RestoreBackup, Start, TypeInv, TypeOK
<1>1. /\ cmd' = [cmd EXCEPT ![c] = k] /\ UNCHANGED backups
      /\ excused' = [f \in Legacy |-> excused[f] + x(f)]
      /\ ~raced' => ~raced /\ \A f \in Legacy : ~HalfImported(f)
  BY DEF RestoreBackup
<1>2. k \in Held /\ k.at = "backup"
  BY IdleFacts
<1>3. PICK m \in Day : backups[m] # NONE /\ db' = backups[m]
  BY DEF RestoreBackup, Kept
<1>4. \A f \in Legacy : /\ x(f) \in Nat /\ (New(f) # {} => x(f) = 1)
                        /\ excused'[f] = excused[f] + x(f)
  BY <1>1
<1> HIDE DEF k, x
<1>5. db'.mail \in [Legacy -> Nat] /\ BackedUp(db')
  <2>1. backups[m] \in Store /\ BackedUp(backups[m])
    BY <1>3 DEF TypeInv, TypeOK, ImportInv, BackupInv
  <2>2. QED
    BY <1>3, <2>1 DEF Store, BackedUp
<1>6. \A d \in Cmd : cmd'[d] = IF d = c THEN k ELSE cmd[d]
  BY <1>1, <1>2, HeldFacts
<1>7. ASSUME NEW g \in Legacy
      PROVE  /\ New(g)' = New(g) /\ IsFiniteSet(New(g)) /\ Cardinality(New(g)) \in Nat
             /\ excused[g] \in Nat /\ excused'[g] \in Nat /\ excused'[g] >= excused[g]
             /\ Cardinality(New(g)) > 0 => excused'[g] = excused[g] + 1
  <2>1. New(g)' = New(g)
    BY <1>0, <1>2, <1>6 DEF New
  <2>2. IsFiniteSet(New(g)) /\ Cardinality(New(g)) \in Nat
    BY FS_CardinalityType DEF ImportInv, MailInv
  <2>3. Cardinality(New(g)) > 0 => New(g) # {}
    BY FS_EmptySet
  <2>4. QED
    BY <1>0, <1>4, <2>1, <2>2, <2>3
<1>8. MailInv'
  <2> SUFFICES ASSUME NEW g \in Legacy
               PROVE  /\ IsFiniteSet(New(g)')
                      /\ db'.mail[g] + Cardinality(New(g)') <= 1 + excused'[g]
                      /\ g \notin db'.imports => db'.mail[g] <= excused'[g]
    BY DEF MailInv
  <2> DEFINE n == Cardinality(New(g))
             y == excused[g]
             z == excused'[g]
             v == db'.mail[g]
  <2>1. /\ n \in Nat /\ y \in Nat /\ z \in Nat /\ v \in Nat
        /\ z >= y /\ (n > 0 => z = y + 1)
    BY <1>5, <1>7
  <2>2. (g \notin db'.imports => v <= y) /\ v <= 1 + y /\ v + n <= 2 + y
    BY <1>5 DEF BackedUp
  <2> HIDE DEF n, y, z, v
  <2>3. v + n <= 1 + z /\ (g \notin db'.imports => v <= z)
    BY <2>1, <2>2
  <2>4. QED
    BY <1>7, <2>3 DEF n, z, v
<1>9. BackupInv'
  <2>1. excused' \in [Legacy -> Nat]
    BY <1>0, <1>1, <1>4
  <2>2. \A g \in Legacy :
          /\ Cardinality(New(g)) \in Nat /\ Cardinality(New(g)') \in Nat
          /\ excused[g] <= excused'[g]
          /\ \/ Cardinality(New(g)') <= 1
             \/ Cardinality(New(g)') + excused[g] <= Cardinality(New(g)) + excused'[g]
    BY <1>7
  <2>3. QED
    BY <1>1, <2>1, <2>2, BackupsStand
<1>10. RecordInv'
  <2> SUFFICES ASSUME ~raced', ~raced PROVE RecordInv'
    BY <1>1 DEF RecordInv
  <2>1. \A d \in Cmd : cmd[d].at # "sent"
    BY <1>1 DEF HalfImported, TypeInv, Fits
  <2>2. \A d \in Cmd : cmd'[d].at # "sent"
    BY <1>2, <1>6, <2>1
  <2>3. QED
    BY <1>1, <1>3, <2>2 DEF ImportInv, RecordInv
<1>11. QED
  BY <1>8, <1>9, <1>10 DEF ImportInv

\* A backup is complete: a message that is in it without its id is excused.
LEMMA CopyKeeps ==
  ASSUME TypeInv, ImportInv, NEW c \in Cmd, EndBackup(c)
  PROVE  ImportInv'
<1> DEFINE k == [cmd[c] EXCEPT !.at = "prune"]
           x(f) == IF HalfImported(f) THEN 1 ELSE 0
           today0 == cmd[c].day
<1>0. /\ cmd[c] \in Held /\ cmd[c].at = "copy" /\ today0 \in Day
      /\ db \in Store /\ db.mail \in [Legacy -> Nat] /\ excused \in [Legacy -> Nat]
      /\ backups \in [Day -> Store \cup {NONE}]
  BY MoverFacts, StoreUpkeepAssumption
     DEF EndBackup, TypeInv, TypeOK, Store, Held, Command, Day
<1>1. /\ cmd' = [cmd EXCEPT ![c] = k] /\ UNCHANGED <<db, raced>>
      /\ backups' = [backups EXCEPT ![today0] = db]
      /\ excused' = [f \in Legacy |-> excused[f] + x(f)]
  BY DEF EndBackup
<1>2. k \in Held /\ k.at = "prune"
  BY <1>0, CopyFacts
<1>3. \A f \in Legacy : /\ x(f) \in Nat /\ (HalfImported(f) => x(f) = 1)
                        /\ excused'[f] = excused[f] + x(f)
  BY <1>1
<1> HIDE DEF k, x, today0
<1>4. \A d \in Cmd : cmd'[d] = IF d = c THEN k ELSE cmd[d]
  BY <1>1, <1>2, HeldFacts
<1>5. \A f \in Legacy : excused'[f] \in Nat /\ excused'[f] >= excused[f]
  BY <1>0, <1>3
<1>6. \A f \in Legacy : New(f)' = New(f) /\ Importing(f)' = Importing(f)
  BY <1>0, <1>2, <1>4 DEF New, Importing
<1>7. MailInv'
  <2>1. \A f \in Legacy : IsFiniteSet(New(f)) /\ Cardinality(New(f)) \in Nat
    BY FS_CardinalityType DEF ImportInv, MailInv
  <2>2. QED
    BY <1>0, <1>1, <1>5, <1>6, <2>1 DEF ImportInv, MailInv
\* What a snapshot of the store without the id of f has of its mail.
<1>8. ASSUME NEW f \in Legacy, f \notin db.imports
      PROVE  db.mail[f] <= excused'[f]
  <2>0. /\ db.mail[f] \in Nat /\ excused[f] \in Nat
        /\ excused'[f] \in Nat /\ excused'[f] >= excused[f]
        /\ IsFiniteSet(New(f)) /\ Cardinality(New(f)) \in Nat
        /\ db.mail[f] + Cardinality(New(f)) <= 1 + excused[f]
        /\ Importing(f) = {} => db.mail[f] <= excused[f]
    BY <1>0, <1>5, <1>8, FS_CardinalityType DEF ImportInv, MailInv
  <2>1. CASE HalfImported(f)
    <3>1. excused'[f] = excused[f] + 1
      BY <1>0, <1>3, <2>1
    <3>2. QED
      BY <2>0, <3>1
  <2>2. CASE ~HalfImported(f) /\ Importing(f) # {}
    <3>1. New(f) # {}
      BY <2>2 DEF HalfImported, Importing, New
    <3>2. Cardinality(New(f)) # 0
      BY <2>0, <3>1, FS_EmptySet
    <3>3. QED
      BY <2>0, <3>2
  <2>3. CASE Importing(f) = {}
    BY <2>0, <2>3
  <2>4. QED
    BY <2>1, <2>2, <2>3
<1>9. BackupInv'
  <2>1. \A f \in Legacy :
          /\ Cardinality(New(f)) \in Nat /\ Cardinality(New(f)') = Cardinality(New(f))
          /\ excused[f] \in Nat /\ excused'[f] \in Nat /\ excused[f] <= excused'[f]
          /\ db.mail[f] \in Nat /\ db.mail[f] + Cardinality(New(f)) <= 1 + excused[f]
    BY <1>0, <1>5, <1>6, FS_CardinalityType DEF ImportInv, MailInv
  <2>2. BackedUp(db)'
    <3> SUFFICES ASSUME NEW f \in Legacy
                 PROVE  /\ f \notin db.imports => db.mail[f] <= excused'[f]
                        /\ db.mail[f] <= 1 + excused'[f]
                        /\ db.mail[f] + Cardinality(New(f)') <= 2 + excused'[f]
      BY <1>1 DEF BackedUp
    <3> DEFINE n == Cardinality(New(f))
               y == excused[f]
               z == excused'[f]
               v == db.mail[f]
    <3>1. n \in Nat /\ y \in Nat /\ z \in Nat /\ v \in Nat /\ y <= z /\ v + n <= 1 + y
      BY <2>1
    <3>2. Cardinality(New(f)') = n
      BY <2>1
    <3> HIDE DEF n, y, z, v
    <3>3. v <= 1 + z /\ v + n <= 2 + z
      BY <3>1
    <3>4. QED
      BY <1>8, <3>2, <3>3 DEF z, v
  <2>3. \A d \in Day : backups'[d] # NONE => backups'[d] = backups[d] \/ BackedUp(backups[d])'
    <3>1. \A d \in Day : backups'[d] = backups[d] \/ backups'[d] = db
      BY <1>0, <1>1
    <3>2. \A d \in Day : backups'[d] = db => BackedUp(backups[d])'
      BY <1>1, <2>2 DEF BackedUp
    <3>3. QED
      BY <3>1, <3>2
  <2>4. excused' \in [Legacy -> Nat]
    BY <1>0, <1>1, <1>5
  <2>5. QED
    BY <2>1, <2>3, <2>4, BackupsStand
<1>10. RecordInv'
  <2> SUFFICES ASSUME ~raced PROVE RecordInv'
    BY <1>1 DEF RecordInv
  <2>1. \A d \in Cmd : cmd'[d].at = "sent" => cmd'[d] = cmd[d]
    BY <1>2, <1>4
  <2>2. \A d \in Day : backups'[d] # NONE =>
          \A f \in backups'[d].imports : backups'[d].mail[f] > 0
    BY <1>0, <1>1 DEF ImportInv, RecordInv
  <2>3. QED
    BY <1>1, <2>1, <2>2 DEF ImportInv, RecordInv
<1>11. QED
  BY <1>7, <1>9, <1>10 DEF ImportInv

\* A process ends: what it had mailed and not recorded is excused.
LEMMA CrashKeeps ==
  ASSUME TypeInv, ImportInv, NEW c \in Cmd, Crash(c)
  PROVE  ImportInv'
<1> DEFINE x(f) == IF cmd[c].at = "sent" /\ cmd[c].file = f THEN 1 ELSE 0
<1>0. /\ cmd[c] \in Held /\ db \in Store
      /\ db.mail \in [Legacy -> Nat] /\ excused \in [Legacy -> Nat]
  BY MoverFacts DEF TypeInv, TypeOK, Store
<1>1. /\ cmd' = [cmd EXCEPT ![c] = NoCommand] /\ UNCHANGED <<db, backups, raced>>
      /\ excused' = [f \in Legacy |-> excused[f] + x(f)]
  BY DEF Crash
<1>2. NoCommand \in Held /\ NoCommand.at = "idle"
  BY IdleFacts
<1>3. \A f \in Legacy : /\ x(f) \in Nat
                        /\ (cmd[c].at = "sent" /\ cmd[c].file = f => x(f) = 1)
                        /\ excused'[f] = excused[f] + x(f)
  BY <1>1
<1> HIDE DEF x
<1>4. \A d \in Cmd : cmd'[d] = IF d = c THEN NoCommand ELSE cmd[d]
  BY <1>1, <1>2, HeldFacts
<1>5. \A f \in Legacy : excused'[f] \in Nat /\ excused'[f] >= excused[f]
  BY <1>0, <1>3
<1>6. MailInv'
  <2> SUFFICES ASSUME NEW g \in Legacy
               PROVE  /\ IsFiniteSet(New(g)')
                      /\ db.mail[g] + Cardinality(New(g)') <= 1 + excused'[g]
                      /\ g \notin db.imports /\ Importing(g)' = {} =>
                           db.mail[g] <= excused'[g]
    BY <1>1 DEF MailInv
  <2>0. /\ db.mail[g] \in Nat /\ excused[g] \in Nat
        /\ excused'[g] \in Nat /\ excused'[g] >= excused[g]
        /\ IsFiniteSet(New(g)) /\ Cardinality(New(g)) \in Nat
        /\ db.mail[g] + Cardinality(New(g)) <= 1 + excused[g]
        /\ g \notin db.imports /\ Importing(g) = {} => db.mail[g] <= excused[g]
    BY <1>0, <1>5, FS_CardinalityType DEF ImportInv, MailInv
  <2>1. CASE c \in New(g)
    <3>1. Cardinality(New(g)') = Cardinality(New(g)) - 1 /\ IsFiniteSet(New(g)')
      BY <1>1, <1>2, <2>0, <2>1, NewFacts
    <3>2. Cardinality(New(g)) # 0
      BY <2>0, <2>1, FS_EmptySet
    <3>3. QED
      BY <2>0, <3>1, <3>2
  <2>2. CASE c \notin New(g)
    <3>1. Cardinality(New(g)') = Cardinality(New(g)) /\ IsFiniteSet(New(g)')
      BY <1>1, <1>2, <2>0, <2>2, NewFacts
    <3>2. CASE cmd[c].at = "sent" /\ cmd[c].file = g
      <4>1. excused'[g] = excused[g] + 1
        BY <1>0, <1>3, <3>2
      <4>2. QED
        BY <2>0, <3>1, <4>1
    <3>3. CASE ~(cmd[c].at = "sent" /\ cmd[c].file = g)
      <4>1. Importing(g)' = Importing(g)
        BY <1>2, <1>4, <2>2, <3>3 DEF Importing, New
      <4>2. QED
        BY <2>0, <3>1, <4>1
    <3>4. QED
      BY <3>2, <3>3
  <2>3. QED
    BY <2>1, <2>2
<1>7. BackupInv'
  <2>1. excused' \in [Legacy -> Nat]
    BY <1>0, <1>1, <1>3
  <2> SUFFICES ASSUME NEW g \in Legacy
               PROVE  /\ Cardinality(New(g)) \in Nat /\ Cardinality(New(g)') \in Nat
                      /\ excused[g] <= excused'[g]
                      /\ Cardinality(New(g)') + excused[g] <= Cardinality(New(g)) + excused'[g]
    BY <1>1, <2>1, BackupsStand
  <2>2. /\ IsFiniteSet(New(g)) /\ Cardinality(New(g)) \in Nat
        /\ excused[g] \in Nat /\ excused'[g] \in Nat /\ excused[g] <= excused'[g]
    BY <1>0, <1>5, FS_CardinalityType DEF ImportInv, MailInv
  <2>3. /\ Cardinality(New(g)') \in Nat
        /\ \/ Cardinality(New(g)') = Cardinality(New(g)) - 1
           \/ Cardinality(New(g)') = Cardinality(New(g))
    <3>1. IsFiniteSet(New(g)') /\ Cardinality(New(g)') \in Nat
      BY <1>1, <1>2, <2>2, NewFacts, FS_CardinalityType
    <3>2. QED
      BY <1>1, <1>2, <2>2, <3>1, NewFacts
  <2>4. QED
    BY <2>2, <2>3
<1>8. RecordInv'
  <2>1. \A d \in Cmd : cmd'[d].at = "sent" => cmd'[d] = cmd[d]
    BY <1>2, <1>4
  <2>2. QED
    BY <1>1, <2>1 DEF ImportInv, RecordInv
<1>9. QED
  BY <1>6, <1>7, <1>8 DEF ImportInv

\* An import that starts or ends has no file in hand.
LEMMA ImportQuiet ==
  ASSUME TypeInv, NEW c \in Cmd, StartImport(c) \/ ImportEnds(c)
  PROVE  Quiet /\ UNCHANGED backups
<1>1. cmd[c].at \notin Mailing /\ UNCHANGED <<db, backups, excused, raced>>
  BY DEF StartImport, ImportEnds, Start, Mailing
<1>2. CASE StartImport(c)
  <2>1. PICK m \in SUBSET Legacy :
          cmd' = [cmd EXCEPT ![c] = [NoCommand EXCEPT !.at = "legacy", !.todo = m]]
    BY <1>2 DEF StartImport
  <2> DEFINE k == [NoCommand EXCEPT !.at = "legacy", !.todo = m]
  <2>2. k \in Held /\ k.at = "legacy"
    BY IdleFacts
  <2>3. cmd' = [cmd EXCEPT ![c] = k]
    BY <2>1
  <2> HIDE DEF k
  <2>4. QED
    BY <1>1, <2>2, <2>3, QuietMove DEF Quiet, Mailing
<1>3. CASE ImportEnds(c)
  <2>1. cmd' = [cmd EXCEPT ![c] = NoCommand]
    BY <1>3 DEF ImportEnds
  <2>2. NoCommand \in Held /\ NoCommand.at \notin Mailing
    BY IdleFacts DEF Mailing
  <2>3. \A d \in Cmd : \/ cmd'[d] = cmd[d]
                       \/ cmd[d].at \notin Mailing /\ cmd'[d].at \notin Mailing
    BY <1>1, <2>1, <2>2, QuietMove
  <2>4. QED
    BY <1>1, <2>3 DEF Quiet
<1>4. QED
  BY <1>2, <1>3

\* ImportInv is inductive.
LEMMA ImportsKept == Spec => []ImportInv
<1>1. Init => ImportInv
  <2> SUFFICES ASSUME Init PROVE ImportInv
    OBVIOUS
  <2>1. /\ \A c \in Cmd : cmd[c].at = "idle"
        /\ db.imports = {} /\ \A f \in Legacy : db.mail[f] = 0 /\ excused[f] = 0
        /\ \A d \in Day : backups[d] = NONE
    BY IdleFacts DEF Init, EmptyStore
  <2>2. \A f \in Legacy : New(f) = {}
    BY <2>1 DEF New
  <2>3. IsFiniteSet({}) /\ Cardinality({}) = 0
    BY FS_EmptySet
  <2>4. MailInv
    BY <2>1, <2>2, <2>3 DEF MailInv
  <2>5. BackupInv /\ RecordInv
    BY <2>1 DEF BackupInv, RecordInv
  <2>6. QED
    BY <2>4, <2>5 DEF ImportInv
<1>2. TypeInv /\ ImportInv /\ [Next]_vars => ImportInv'
  <2> SUFFICES ASSUME TypeInv, ImportInv, [Next]_vars PROVE ImportInv'
    OBVIOUS
  <2>1. CASE UNCHANGED vars
    BY <2>1 DEF vars, ImportInv, MailInv, BackupInv, BackedUp, RecordInv, New, Importing
  <2>2. ASSUME NEW c \in Cmd, Bootstrap(c) PROVE ImportInv'
    BY <2>2, BootstrapQuiet, QuietKeeps
  <2>3. ASSUME NEW c \in Cmd, Import(c) PROVE ImportInv'
    BY <2>3, ImportQuiet, QuietKeeps, CheckKeeps, SendKeeps, RecordKeeps DEF Import
  <2>4. ASSUME NEW c \in Cmd, Recover(c) PROVE ImportInv'
    BY <2>4, RecoverQuiet, QuietKeeps, RestoreKeeps, CopyKeeps DEF Recover
  <2>5. ASSUME NEW c \in Cmd, Crash(c) PROVE ImportInv'
    BY <2>5, CrashKeeps
  <2>6. CASE \/ DayPasses \/ SaveTask
             \/ \E f \in Handover : EditHandover(f)
             \/ \E l \in Lane : Submit(l) \/ GetAgent(l)
    BY <2>6, WorldQuiet, QuietKeeps
  <2>7. QED
    BY <2>1, <2>2, <2>3, <2>4, <2>5, <2>6 DEF Next
<1>3. Spec => []TypeInv
  BY TypeKept
<1>4. QED
  BY <1>1, <1>2, <1>3, PTL DEF Spec

\* README.md:189-191: however many imports run side by side, are cut short and are
\* undone by a restore, a legacy file is mailed once and once more for each excuse,
\* and as long as no restore came between the two, what is on record was mailed.
THEOREM ImportsOnce == Spec => []ImportedOnce
<1>1. Spec => []TypeInv
  BY TypeKept
<1>2. Spec => []ImportInv
  BY ImportsKept
<1>3. TypeInv /\ ImportInv => ImportedOnce
  <2> SUFFICES ASSUME TypeInv, ImportInv PROVE ImportedOnce
    OBVIOUS
  <2>1. ASSUME NEW f \in Legacy PROVE db.mail[f] <= 1 + excused[f]
    <3>1. /\ db.mail[f] \in Nat /\ excused[f] \in Nat /\ Cardinality(New(f)) \in Nat
          /\ db.mail[f] + Cardinality(New(f)) <= 1 + excused[f]
      BY FS_CardinalityType DEF TypeInv, TypeOK, Store, ImportInv, MailInv
    <3>2. QED
      BY <3>1
  <2>2. QED
    BY <2>1 DEF ImportedOnce, ImportInv, RecordInv
<1>4. QED
  BY <1>1, <1>2, <1>3, PTL

-----------------------------------------------------------------------------
(* Lanes.                                                                  *)

\* Lanes with tasks are there, and no two belong to one handover.
GoodStore(s) ==
  /\ \A l \in s.tasks : s.lanes[l] # NONE
  /\ \A l, m \in Lane :
       s.lanes[l] # NONE /\ s.lanes[m] # NONE /\ s.lanes[l].path # NONE
         /\ s.lanes[l].path = s.lanes[m].path => l = m

\* Who adopts a handover is alone.
AloneInv ==
  \A c \in Cmd : cmd[c].at \in Adopting =>
    arriving = NONE /\ \A d \in Cmd : cmd[d].at \in Adopting => d = c

\* The aliases it has not been through are those that are left; the one it
\* deletes has no tasks; and when it saves there is none.
AliasInv ==
  \A c \in Cmd :
    LET k == cmd[c]
        others == LanesAt(Handovers[k.next]) \ {k.lane}
    IN /\ k.at = "aliases" /\ ~k.blocked => others \subseteq k.stale
       /\ k.at = "delete" => /\ k.row \notin db.tasks
                             /\ ~k.blocked => others \subseteq k.stale \cup {k.row}
       /\ k.at = "save" => others = {}

LanesInv ==
  /\ GoodStore(db) /\ \A d \in Day : backups[d] # NONE => GoodStore(backups[d])
  /\ arriving # NONE => db.lanes[arriving] # NONE
  /\ AloneInv /\ AliasInv

LaneInv == ~raced => LanesInv

\* The same of one process.
AliasOK(c) ==
  LET k == cmd[c]
      others == LanesAt(Handovers[k.next]) \ {k.lane}
  IN /\ k.at = "aliases" /\ ~k.blocked => others \subseteq k.stale
     /\ k.at = "delete" => /\ k.row \notin db.tasks
                           /\ ~k.blocked => others \subseteq k.stale \cup {k.row}
     /\ k.at = "save" => others = {}

\* No adoption begins or goes on, and neither lanes nor tasks change.
Still ==
  /\ \A d \in Cmd : cmd'[d] = cmd[d] \/ cmd'[d].at \notin Adopting
  /\ db'.lanes = db.lanes /\ db'.tasks = db.tasks
  /\ UNCHANGED arriving
  /\ raced => raced'

\* Then the invariant stands, if the backups are good.
LEMMA StillKeeps ==
  ASSUME TypeInv, LaneInv, Still, NEW s, GoodStore(db) => GoodStore(s),
         \A d \in Day : backups'[d] \in {backups[d], s, NONE}
  PROVE  LaneInv'
<1> SUFFICES ASSUME ~raced' PROVE LanesInv'
  BY DEF LaneInv
<1>1. LanesInv
  BY DEF LaneInv, Still
<1>2. GoodStore(db)' /\ \A d \in Day : backups'[d] # NONE => GoodStore(backups'[d])
  BY <1>1 DEF LanesInv, Still, GoodStore
<1>3. AloneInv'
  BY <1>1 DEF LanesInv, AloneInv, Still
<1>4. \A f : LanesAt(f)' = LanesAt(f)
  BY DEF LanesAt, Still
<1>5. AliasInv'
  <2> SUFFICES ASSUME NEW c \in Cmd, cmd'[c].at \in Adopting PROVE AliasOK(c)'
    BY DEF AliasInv, AliasOK, Adopting
  <2>1. AliasOK(c) /\ cmd'[c] = cmd[c]
    BY <1>1 DEF LanesInv, AliasInv, AliasOK, Still
  <2>2. QED
    BY <1>4, <2>1 DEF AliasOK, Still
<1>6. QED
  BY <1>1, <1>2, <1>3, <1>5 DEF LanesInv, Still

\* What a process that does not adopt moves to.
LEMMA StillMove ==
  ASSUME TypeInv, NEW c \in Cmd, NEW k \in Held, cmd' = [cmd EXCEPT ![c] = k],
         k.at \notin Adopting
  PROVE  \A d \in Cmd : cmd'[d] = cmd[d] \/ cmd'[d].at \notin Adopting
BY HeldFacts

\* A bootstrap that is not at a handover.
LEMMA BootStill ==
  ASSUME TypeInv, NEW c \in Cmd,
         StartBootstrap(c) \/ BootstrapEnds(c) \/ SkipHandover(c) \/ Blocked(c)
  PROVE  Still /\ UNCHANGED backups
<1>0. cmd[c] \in Held
  BY MoverFacts
<1>1. PICK k \in Held : cmd' = [cmd EXCEPT ![c] = k] /\ k.at \notin Adopting
  <2>1. CASE StartBootstrap(c)
    <3> DEFINE k == [NoCommand EXCEPT !.at = "boot"]
    <3>1. cmd' = [cmd EXCEPT ![c] = k] /\ k \in Held /\ k.at = "boot"
      BY <2>1, IdleFacts DEF StartBootstrap
    <3> HIDE DEF k
    <3>2. QED
      BY <3>1 DEF Adopting
  <2>2. CASE BootstrapEnds(c)
    BY <2>2, IdleFacts DEF BootstrapEnds, Adopting
  <2>3. CASE SkipHandover(c) \/ Blocked(c)
    <3> DEFINE k == [cmd[c] EXCEPT !.at = "boot", !.next = @ + 1, !.blocked = FALSE]
    <3>1. cmd' = [cmd EXCEPT ![c] = k]
      BY <1>0, <2>3 DEF SkipHandover, Blocked, NextHandover
    <3>2. k \in Held /\ k.at = "boot"
      BY <1>0, NextFacts
    <3> HIDE DEF k
    <3>3. QED
      BY <3>1, <3>2 DEF Adopting
  <2>4. QED
    BY <2>1, <2>2, <2>3
<1>2. UNCHANGED <<db, arriving, raced, backups>>
  BY DEF StartBootstrap, BootstrapEnds, SkipHandover, Blocked
<1>3. QED
  BY <1>1, <1>2, StillMove DEF Still

\* An import, and a process that ends.
LEMMA ImportStill ==
  ASSUME TypeInv, NEW c \in Cmd, Import(c) \/ Crash(c)
  PROVE  Still /\ UNCHANGED backups
<1>0. cmd[c] \in Held /\ db \in Store
  BY MoverFacts DEF TypeInv, TypeOK
<1>1. PICK k \in Held : cmd' = [cmd EXCEPT ![c] = k] /\ k.at \notin Adopting
  <2>1. CASE StartImport(c)
    <3>1. PICK m \in SUBSET Legacy :
            cmd' = [cmd EXCEPT ![c] = [NoCommand EXCEPT !.at = "legacy", !.todo = m]]
      BY <2>1 DEF StartImport
    <3> DEFINE k == [NoCommand EXCEPT !.at = "legacy", !.todo = m]
    <3>2. cmd' = [cmd EXCEPT ![c] = k] /\ k \in Held /\ k.at = "legacy"
      BY <3>1, IdleFacts
    <3> HIDE DEF k
    <3>3. QED
      BY <3>2 DEF Adopting
  <2>2. CASE CheckImport(c)
    <3>1. cmd[c].at = "legacy"
      BY <2>2 DEF CheckImport
    <3>2. PICK f \in Legacy : \/ cmd' = [cmd EXCEPT ![c] = Found(cmd[c], f)]
                              \/ cmd' = [cmd EXCEPT ![c] = Unmailed(cmd[c], f)]
      BY <1>0, <2>2 DEF CheckImport, Held, Command
    <3>3. QED
      BY <1>0, <3>1, <3>2, ImportFacts DEF Adopting
  <2>3. CASE SendImport(c)
    <3> DEFINE k == [cmd[c] EXCEPT !.at = "sent"]
    <3>1. cmd' = [cmd EXCEPT ![c] = k] /\ cmd[c].at = "new"
      BY <2>3 DEF SendImport
    <3>2. k \in Held /\ k.at = "sent"
      BY <1>0, <3>1, MailFacts
    <3> HIDE DEF k
    <3>3. QED
      BY <3>1, <3>2 DEF Adopting
  <2>4. CASE RecordImport(c)
    <3> DEFINE k == [cmd[c] EXCEPT !.at = "legacy", !.file = NONE]
    <3>1. cmd' = [cmd EXCEPT ![c] = k] /\ k \in Held /\ k.at = "legacy"
      BY <1>0, <2>4, MailFacts DEF RecordImport
    <3> HIDE DEF k
    <3>2. QED
      BY <3>1 DEF Adopting
  <2>5. CASE ImportEnds(c) \/ Crash(c)
    BY <2>5, IdleFacts DEF ImportEnds, Crash, Adopting
  <2>6. QED
    BY <2>1, <2>2, <2>3, <2>4, <2>5 DEF Import
<1>2. db'.lanes = db.lanes /\ db'.tasks = db.tasks
  <2>1. CASE SendImport(c)
    BY <1>0, <2>1 DEF SendImport, Store
  <2>2. CASE RecordImport(c)
    BY <1>0, <2>2 DEF RecordImport, Store
  <2>3. QED
    BY <2>1, <2>2 DEF Import, StartImport, CheckImport, ImportEnds, Crash
<1>3. UNCHANGED <<arriving, raced, backups>>
  BY DEF Import, StartImport, CheckImport, SendImport, RecordImport, ImportEnds, Crash
<1>4. QED
  BY <1>1, <1>2, <1>3, StillMove DEF Still

\* A recovery that does not restore.
LEMMA RecoverStill ==
  ASSUME TypeInv, LaneInv, NEW c \in Cmd,
         StartRecover(c) \/ BeginBackup(c) \/ EndBackup(c) \/ BackupExists(c) \/ Prune(c)
  PROVE  LaneInv'
<1>0. cmd[c] \in Held /\ today \in Day /\ backups \in [Day -> Store \cup {NONE}]
  BY MoverFacts DEF TypeInv, TypeOK
<1>1. PICK k \in Held : cmd' = [cmd EXCEPT ![c] = k] /\ k.at \notin Adopting
  <2>1. CASE StartRecover(c)
    <3> DEFINE k == [NoCommand EXCEPT !.at = "backup"]
    <3>1. cmd' = [cmd EXCEPT ![c] = k] /\ k \in Held /\ k.at = "backup"
      BY <2>1, IdleFacts DEF StartRecover
    <3> HIDE DEF k
    <3>2. QED
      BY <3>1 DEF Adopting
  <2>2. CASE BeginBackup(c)
    <3> DEFINE k == [cmd[c] EXCEPT !.at = "copy", !.day = today]
    <3>1. cmd' = [cmd EXCEPT ![c] = k]
      BY <2>2 DEF BeginBackup
    <3>2. k \in Held /\ k.at = "copy"
      BY <1>0, CopyFacts
    <3> HIDE DEF k
    <3>3. QED
      BY <3>1, <3>2 DEF Adopting
  <2>3. CASE EndBackup(c)
    <3> DEFINE k == [cmd[c] EXCEPT !.at = "prune"]
    <3>1. cmd' = [cmd EXCEPT ![c] = k]
      BY <2>3 DEF EndBackup
    <3>2. k \in Held /\ k.at = "prune"
      BY <1>0, CopyFacts
    <3> HIDE DEF k
    <3>3. QED
      BY <3>1, <3>2 DEF Adopting
  <2>4. CASE BackupExists(c)
    <3> DEFINE k == [cmd[c] EXCEPT !.at = "prune", !.day = today]
    <3>1. cmd' = [cmd EXCEPT ![c] = k]
      BY <2>4 DEF BackupExists
    <3>2. k \in Held /\ k.at = "prune"
      BY <1>0, CopyFacts
    <3> HIDE DEF k
    <3>3. QED
      BY <3>1, <3>2 DEF Adopting
  <2>5. CASE Prune(c)
    BY <2>5, IdleFacts DEF Prune, Adopting
  <2>6. QED
    BY <2>1, <2>2, <2>3, <2>4, <2>5
<1>2. UNCHANGED <<db, arriving, raced>>
  BY DEF StartRecover, BeginBackup, EndBackup, BackupExists, Prune
<1>3. Still
  BY <1>1, <1>2, StillMove DEF Still
<1>4. GoodStore(EmptyStore)
  BY DEF GoodStore, EmptyStore
<1>5. CASE BeginBackup(c)
  <2>1. \A d \in Day : backups'[d] \in {backups[d], EmptyStore, NONE}
    BY <1>0, <1>5 DEF BeginBackup
  <2>2. QED
    BY <1>3, <1>4, <2>1, StillKeeps
<1>6. CASE ~BeginBackup(c)
  <2>1. \A d \in Day : backups'[d] \in {backups[d], db, NONE}
    BY <1>0, <1>6 DEF StartRecover, EndBackup, BackupExists, Prune
  <2>2. QED
    BY <1>3, <2>1, StillKeeps
<1>7. QED
  BY <1>5, <1>6

\* A process that is alone in an adoption takes a step of it.
LEMMA AloneKeeps ==
  ASSUME TypeInv, LanesInv, NEW c \in Cmd, NEW k \in Held, cmd' = [cmd EXCEPT ![c] = k],
         arriving = NONE, \A d \in Cmd : cmd[d].at \in Adopting => d = c,
         UNCHANGED <<backups, arriving>>, GoodStore(db'), AliasOK(c)'
  PROVE  LanesInv'
<1>1. \A d \in Cmd : d # c => cmd'[d] = cmd[d] /\ cmd'[d].at \notin Adopting
  BY HeldFacts
<1>2. AloneInv'
  BY <1>1 DEF AloneInv
<1>3. AliasInv'
  <2> SUFFICES ASSUME NEW d \in Cmd, cmd'[d].at \in Adopting PROVE AliasOK(d)'
    BY DEF AliasInv, AliasOK, Adopting
  <2>1. d = c
    BY <1>1
  <2>2. QED
    BY <2>1
<1>4. QED
  BY <1>2, <1>3 DEF LanesInv

\* A handover is taken up: nobody else is at one, and no task is half submitted.
LEMMA ListKeeps ==
  ASSUME TypeInv, LaneInv, NEW c \in Cmd, ListAliases(c)
  PROVE  LaneInv'
<1> SUFFICES ASSUME ~raced' PROVE LanesInv'
  BY DEF LaneInv
<1>0. ~raced /\ ~Exposed /\ UNCHANGED <<db, backups, arriving>> /\ cmd[c] \in Held
  BY MoverFacts DEF ListAliases
<1> DEFINE f == Handovers[cmd[c].next]
           l == laneOf[f]
           T == LanesAt(f) \ {l}
           k == Listed(cmd[c], l, T)
<1>1. l \in Lane /\ T \in SUBSET Lane /\ cmd[c].next <= Len(Handovers)
  BY MoverFacts DEF ListAliases, Adoptable, LanesAt, TypeInv, TypeOK
<1>2. cmd' = [cmd EXCEPT ![c] = k]
  BY DEF ListAliases
<1>3. T = LanesAt(f) \ {l}
  OBVIOUS
<1> HIDE DEF l, T
<1>4. /\ k \in Held /\ k.at = "aliases" /\ k.next = cmd[c].next
      /\ k.lane = l /\ k.stale = T
  BY <1>0, <1>1, ListFacts
<1> HIDE DEF k
<1>5. cmd'[c] = k
  BY <1>2, <1>4, HeldFacts
<1>6. LanesAt(f)' = LanesAt(f)
  BY <1>0, <1>4, <1>5 DEF LanesAt
<1>7. AliasOK(c)'
  <2>1. /\ cmd'[c].at = "aliases" /\ cmd'[c].lane = l /\ cmd'[c].stale = T
        /\ Handovers[cmd'[c].next] = Handovers[cmd[c].next]
    BY <1>4, <1>5
  <2>2. \A g : LanesAt(g)' = LanesAt(g)
    BY <1>0 DEF LanesAt
  <2>3. QED
    BY <1>3, <2>1, <2>2 DEF AliasOK
<1>8. arriving = NONE /\ \A d \in Cmd : cmd[d].at \in Adopting => d = c
  BY <1>0 DEF Exposed, Adopting
<1>9. LanesInv
  BY <1>0 DEF LaneInv
<1>10. GoodStore(db')
  BY <1>0, <1>9 DEF LanesInv
<1>11. QED
  BY <1>0, <1>2, <1>4, <1>7, <1>8, <1>9, <1>10, AloneKeeps

\* An alias is looked at: it has no tasks, or it stays and the handover with it.
LEMMA CheckAliasKeeps ==
  ASSUME TypeInv, LaneInv, NEW c \in Cmd, CheckAlias(c)
  PROVE  LaneInv'
<1> SUFFICES ASSUME ~raced' PROVE LanesInv'
  BY DEF LaneInv
<1>0. /\ ~raced /\ UNCHANGED <<db, backups, arriving>>
      /\ cmd[c] \in Held /\ cmd[c].at = "aliases"
  BY MoverFacts DEF CheckAlias
<1>1. LanesInv
  BY <1>0 DEF LaneInv
<1>2. arriving = NONE /\ \A d \in Cmd : cmd[d].at \in Adopting => d = c
  BY <1>0, <1>1 DEF LanesInv, AloneInv, Adopting
<1>3. AliasOK(c)
  BY <1>1 DEF LanesInv, AliasInv, AliasOK
<1>4. GoodStore(db') /\ \A g : LanesAt(g)' = LanesAt(g)
  BY <1>0, <1>1 DEF LanesInv, LanesAt
<1>5. PICK l \in Lane :
        \/ LaneIsEmpty(l) /\ cmd' = [cmd EXCEPT ![c] = Deleting(cmd[c], l)]
        \/ cmd' = [cmd EXCEPT ![c] = Blocking(cmd[c], l)]
  BY <1>0 DEF CheckAlias, Held, Command
<1>6. CASE LaneIsEmpty(l) /\ cmd' = [cmd EXCEPT ![c] = Deleting(cmd[c], l)]
  <2> DEFINE k == Deleting(cmd[c], l)
  <2>1. /\ k \in Held /\ k.at = "delete" /\ k.next = cmd[c].next
        /\ k.lane = cmd[c].lane /\ k.row = l /\ k.stale = cmd[c].stale \ {l}
        /\ k.blocked = cmd[c].blocked
    BY <1>0, DeletingFacts DEF Adopting
  <2>2. cmd' = [cmd EXCEPT ![c] = k]
    BY <1>6
  <2> HIDE DEF k
  <2>3. cmd'[c] = k
    BY <2>1, <2>2, HeldFacts
  <2>4. l \notin db.tasks
    BY <1>1, <1>6 DEF LaneIsEmpty, LanesInv, GoodStore
  <2>5. AliasOK(c)'
    BY <1>0, <1>3, <1>4, <2>1, <2>3, <2>4 DEF AliasOK
  <2>6. QED
    BY <1>0, <1>1, <1>2, <1>4, <2>1, <2>2, <2>5, AloneKeeps
<1>7. CASE cmd' = [cmd EXCEPT ![c] = Blocking(cmd[c], l)]
  <2> DEFINE k == Blocking(cmd[c], l)
  <2>1. k \in Held /\ k.at = "aliases" /\ k.blocked
    BY <1>0, BlockingFacts
  <2>2. cmd' = [cmd EXCEPT ![c] = k]
    BY <1>7
  <2> HIDE DEF k
  <2>3. AliasOK(c)'
    BY <2>1, <2>2, HeldFacts DEF AliasOK
  <2>4. QED
    BY <1>0, <1>1, <1>2, <1>4, <2>1, <2>2, <2>3, AloneKeeps
<1>8. QED
  BY <1>5, <1>6, <1>7

\* It is deleted.
LEMMA DeleteKeeps ==
  ASSUME TypeInv, LaneInv, NEW c \in Cmd, DeleteAlias(c)
  PROVE  LaneInv'
<1> SUFFICES ASSUME ~raced' PROVE LanesInv'
  BY DEF LaneInv
<1> DEFINE r == cmd[c].row
           k == Deleted(cmd[c])
<1>0. /\ ~raced /\ UNCHANGED <<backups, arriving>>
      /\ cmd[c] \in Held /\ cmd[c].at = "delete" /\ db \in Store
      /\ r \in Lane
  BY MoverFacts DEF DeleteAlias, Held, Fits
<1>1. LanesInv
  BY <1>0 DEF LaneInv
<1>2. arriving = NONE /\ \A d \in Cmd : cmd[d].at \in Adopting => d = c
  BY <1>0, <1>1 DEF LanesInv, AloneInv, Adopting
<1>3. AliasOK(c)
  BY <1>1 DEF LanesInv, AliasInv, AliasOK
<1>4. cmd' = [cmd EXCEPT ![c] = k]
  BY DEF DeleteAlias
<1>5. /\ k \in Held /\ k.at = "aliases" /\ k.next = cmd[c].next
      /\ k.lane = cmd[c].lane /\ k.stale = cmd[c].stale
      /\ k.blocked = cmd[c].blocked
  BY <1>0, DeletedFacts DEF Adopting
<1> HIDE DEF k
<1>6. db'.tasks = db.tasks /\ db'.lanes = [db.lanes EXCEPT ![r] = NONE]
  BY <1>0, StoreFacts DEF DeleteAlias
<1>7. \A m \in Lane : db'.lanes[m] = IF m = r THEN NONE ELSE db.lanes[m]
  BY <1>0, <1>6 DEF Store
<1> HIDE DEF r
<1>8. r \notin db.tasks
  BY <1>0, <1>3 DEF AliasOK, r
<1>9. GoodStore(db')
  BY <1>0, <1>1, <1>6, <1>7, <1>8 DEF LanesInv, GoodStore, Store
<1>10. \A g : LanesAt(g)' = LanesAt(g) \ {r}
  BY <1>7 DEF LanesAt
<1>11. cmd'[c] = k
  BY <1>4, <1>5, HeldFacts
<1>12. AliasOK(c)'
  <2> SUFFICES ASSUME ~cmd[c].blocked
               PROVE  LanesAt(Handovers[cmd[c].next])' \ {cmd[c].lane} \subseteq cmd[c].stale
    BY <1>5, <1>11 DEF AliasOK
  <2>1. LanesAt(Handovers[cmd[c].next]) \ {cmd[c].lane} \subseteq cmd[c].stale \cup {r}
    BY <1>0, <1>3 DEF AliasOK, r
  <2>2. LanesAt(Handovers[cmd[c].next])' = LanesAt(Handovers[cmd[c].next]) \ {r}
    <3>1. Handovers[cmd'[c].next] = Handovers[cmd[c].next]
      BY <1>5, <1>11
    <3>2. QED
      BY <1>10, <3>1
  <2>3. QED
    BY <2>1, <2>2
<1>13. QED
  BY <1>0, <1>1, <1>2, <1>4, <1>5, <1>9, <1>12, AloneKeeps

\* A lane's row that is made sure of is what it was, or belongs to no handover.
LEMMA EnsureKeeps ==
  ASSUME TypeInv, GoodStore(db), NEW l \in Lane,
         db' = [db EXCEPT !.lanes[l] = EnsureLane(l)]
  PROVE  /\ GoodStore(db') /\ db'.lanes[l] # NONE
         /\ \A g \in Handover : LanesAt(g)' = LanesAt(g)
<1> DEFINE r == EnsureLane(l)
<1>1. /\ r \in LaneRow /\ r # NONE /\ db \in Store
      /\ r = db.lanes[l] \/ (db.lanes[l] = NONE /\ r.path = NONE)
  <2>1. r \in LaneRow /\ r # NONE /\ db \in Store
    BY EnsureFacts DEF TypeInv, TypeOK
  <2>2. r = db.lanes[l] \/ (db.lanes[l] = NONE /\ r.path = NONE)
    BY DEF EnsureLane, NewLane
  <2>3. QED
    BY <2>1, <2>2
<1>2. db' = [db EXCEPT !.lanes[l] = r]
  OBVIOUS
<1> HIDE DEF r
<1>3. db'.tasks = db.tasks /\ db'.lanes = [db.lanes EXCEPT ![l] = r]
  <2> DEFINE n == [db EXCEPT !.lanes[l] = r]
  <2>1. n.tasks = db.tasks /\ n.lanes = [db.lanes EXCEPT ![l] = r]
    BY <1>1, StoreFacts
  <2>2. db' = n
    BY <1>2
  <2> HIDE DEF n
  <2>3. QED
    BY <2>1, <2>2
<1>4. \A m \in Lane : db'.lanes[m] = IF m = l THEN r ELSE db.lanes[m]
  BY <1>1, <1>3 DEF Store
<1>5. GoodStore(db')
  BY <1>1, <1>3, <1>4 DEF GoodStore, Store
<1>6. ASSUME NEW g \in Handover PROVE LanesAt(g)' = LanesAt(g)
  <2>1. g # NONE
    BY StoreUpkeepAssumption
  <2>2. QED
    BY <1>1, <1>4, <2>1 DEF LanesAt
<1>7. QED
  BY <1>1, <1>4, <1>5, <1>6

\* The lane of the handover is made sure of: no other belongs to it any more.
LEMMA AdoptKeeps ==
  ASSUME TypeInv, LaneInv, NEW c \in Cmd, Adopt(c)
  PROVE  LaneInv'
<1> SUFFICES ASSUME ~raced' PROVE LanesInv'
  BY DEF LaneInv
<1> DEFINE l == cmd[c].lane
           r == EnsureLane(l)
           k == Saving(cmd[c], l, r)
           f == Handovers[cmd[c].next]
<1>0. /\ ~raced /\ UNCHANGED <<backups, arriving>>
      /\ cmd[c] \in Held /\ cmd[c].at = "aliases" /\ cmd[c].stale = {}
      /\ ~cmd[c].blocked /\ l \in Lane /\ r \in LaneRow /\ f \in Handover
  <2>1. ~raced /\ UNCHANGED <<backups, arriving>> /\ cmd[c].at = "aliases"
        /\ cmd[c].stale = {} /\ ~cmd[c].blocked
    BY DEF Adopt
  <2>2. cmd[c] \in Held /\ l \in Lane /\ f \in Handover
    BY <2>1, MoverFacts DEF Held, Fits, Adopting
  <2>3. r \in LaneRow
    BY <2>2, EnsureFacts DEF TypeInv
  <2>4. QED
    BY <2>1, <2>2, <2>3
<1>1. LanesInv
  BY <1>0 DEF LaneInv
<1>2. arriving = NONE /\ \A d \in Cmd : cmd[d].at \in Adopting => d = c
  BY <1>0, <1>1 DEF LanesInv, AloneInv, Adopting
<1>3. AliasOK(c)
  BY <1>1 DEF LanesInv, AliasInv, AliasOK
<1>4. cmd' = [cmd EXCEPT ![c] = k] /\ db' = [db EXCEPT !.lanes[l] = EnsureLane(l)]
  BY DEF Adopt
<1>5. /\ GoodStore(db') /\ LanesAt(f) \ {l} = {}
      /\ \A g \in Handover : LanesAt(g)' = LanesAt(g)
  <2>1. GoodStore(db)
    BY <1>1 DEF LanesInv
  <2>2. LanesAt(f) \ {l} \subseteq cmd[c].stale
    BY <1>0, <1>3 DEF AliasOK
  <2> HIDE DEF l, f
  <2>3. QED
    BY <1>0, <1>4, <2>1, <2>2, EnsureKeeps
<1> HIDE DEF r
<1>6. k \in Held /\ k.at = "save" /\ k.next = cmd[c].next /\ k.lane = l
  BY <1>0, SavingFacts DEF Adopting
<1> HIDE DEF k, l
<1>7. cmd'[c] = k
  BY <1>4, <1>6, HeldFacts
<1>8. AliasOK(c)'
  <2>1. Handovers[cmd'[c].next] = f /\ cmd'[c].lane = l /\ cmd'[c].at = "save"
    BY <1>6, <1>7
  <2> HIDE DEF f
  <2>2. QED
    BY <1>0, <1>5, <2>1 DEF AliasOK
<1>9. QED
  BY <1>0, <1>1, <1>2, <1>4, <1>5, <1>6, <1>8, AloneKeeps

\* It is saved with the handover, and is the only one.
LEMMA SaveKeeps ==
  ASSUME TypeInv, LaneInv, NEW c \in Cmd, SaveAdopted(c)
  PROVE  LaneInv'
<1> SUFFICES ASSUME ~raced' PROVE LanesInv'
  BY DEF LaneInv
<1> DEFINE l == cmd[c].lane
           f == Handovers[cmd[c].next]
           r == [cmd[c].row EXCEPT !.path = f]
           k == [[cmd[c] EXCEPT !.at = "boot", !.next = @ + 1, !.blocked = FALSE]
                   EXCEPT !.row = NONE]
<1>0. /\ ~raced /\ UNCHANGED <<backups, arriving>>
      /\ cmd[c] \in Held /\ cmd[c].at = "save" /\ db \in Store
      /\ l \in Lane /\ f \in Handover /\ cmd[c].row \in LaneRow
  BY MoverFacts DEF SaveAdopted, Held, Fits, Adopting
<1>1. LanesInv
  BY <1>0 DEF LaneInv
<1>2. arriving = NONE /\ \A d \in Cmd : cmd[d].at \in Adopting => d = c
  BY <1>0, <1>1 DEF LanesInv, AloneInv, Adopting
<1>3. LanesAt(f) \ {l} = {}
  BY <1>0, <1>1 DEF LanesInv, AliasInv
<1>4. r \in LaneRow /\ r.path = f /\ r # NONE
  BY <1>0, NoneAssumption DEF LaneRow
<1>5. cmd' = [cmd EXCEPT ![c] = k] /\ db' = [db EXCEPT !.lanes[l] = r]
  BY <1>0 DEF SaveAdopted, NextHandover
<1>6. k \in Held /\ k.at = "boot"
  BY <1>0, NextFacts
<1> HIDE DEF k, r, l, f
<1>7. db'.tasks = db.tasks /\ db'.lanes = [db.lanes EXCEPT ![l] = r]
  BY <1>0, <1>4, <1>5, StoreFacts
<1>8. \A m \in Lane : db'.lanes[m] = IF m = l THEN r ELSE db.lanes[m]
  BY <1>0, <1>7 DEF Store
<1>9. \A m \in Lane : m # l /\ db.lanes[m] # NONE => db.lanes[m].path # f
  BY <1>3 DEF LanesAt
<1>10. GoodStore(db')
  BY <1>0, <1>1, <1>4, <1>7, <1>8, <1>9 DEF LanesInv, GoodStore, Store
<1>11. AliasOK(c)'
  BY <1>5, <1>6, HeldFacts DEF AliasOK
<1>12. QED
  BY <1>0, <1>1, <1>2, <1>5, <1>6, <1>10, <1>11, AloneKeeps

\* The store is restored: nobody is in an adoption, and the backup was good.
LEMMA RestoreLanes ==
  ASSUME TypeInv, LaneInv, NEW c \in Cmd, RestoreBackup(c)
  PROVE  LaneInv'
<1> SUFFICES ASSUME ~raced' PROVE LanesInv'
  BY DEF LaneInv
<1> DEFINE k == [NoCommand EXCEPT !.at = "backup"]
<1>0. ~raced /\ ~Exposed /\ UNCHANGED <<backups, arriving>>
  BY DEF RestoreBackup
<1>1. LanesInv
  BY <1>0 DEF LaneInv
<1>2. GoodStore(db')
  BY <1>1 DEF RestoreBackup, Kept, LanesInv
<1>3. cmd' = [cmd EXCEPT ![c] = k] /\ k \in Held /\ k.at = "backup"
  BY IdleFacts DEF RestoreBackup
<1> HIDE DEF k
<1>4. arriving = NONE /\ \A d \in Cmd : cmd[d].at \in Adopting => d = c
  BY <1>0 DEF Exposed, Adopting
<1>5. AliasOK(c)'
  BY <1>3, HeldFacts DEF AliasOK
<1>6. QED
  BY <1>0, <1>1, <1>2, <1>3, <1>4, <1>5, AloneKeeps

\* What happens around the commands: a task comes in for a lane that is there.
LEMMA WorldLanes ==
  ASSUME TypeInv, LaneInv,
         \/ DayPasses \/ SaveTask
         \/ \E f \in Handover : EditHandover(f)
         \/ \E l \in Lane : Submit(l) \/ GetAgent(l)
  PROVE  LaneInv'
<1> SUFFICES ASSUME ~raced' PROVE LanesInv'
  BY DEF LaneInv
<1>0. db \in Store /\ arriving \in Lane \cup {NONE}
  BY DEF TypeInv, TypeOK
<1>1. CASE DayPasses \/ \E f \in Handover : EditHandover(f)
  <2>1. Still /\ UNCHANGED backups
    BY <1>1 DEF DayPasses, EditHandover, Still
  <2>2. \A d \in Day : backups'[d] \in {backups[d], db, NONE}
    BY <2>1
  <2>3. QED
    BY <2>1, <2>2, StillKeeps DEF LaneInv
<1>2. CASE SaveTask
  <2>1. arriving \in Lane /\ ~raced /\ UNCHANGED <<cmd, backups>> /\ arriving' = NONE
    BY <1>0, <1>2 DEF SaveTask
  <2>2. LanesInv
    BY <2>1 DEF LaneInv
  <2>3. db'.lanes = db.lanes /\ db'.tasks = db.tasks \cup {arriving}
    BY <1>0, <1>2, <2>1, StoreFacts DEF SaveTask
  <2>4. GoodStore(db')
    BY <2>1, <2>2, <2>3, StoreUpkeepAssumption DEF LanesInv, GoodStore
  <2>5. \A c \in Cmd : cmd[c].at \notin Adopting
    BY <2>1, <2>2, StoreUpkeepAssumption DEF LanesInv, AloneInv
  <2>6. AloneInv' /\ AliasInv'
    BY <2>1, <2>5 DEF AloneInv, AliasInv, Adopting
  <2>7. QED
    BY <2>1, <2>2, <2>4, <2>6 DEF LanesInv
<1>3. ASSUME NEW l \in Lane, Submit(l) PROVE LanesInv'
  <2>1. /\ ~raced /\ ~Exposed /\ UNCHANGED <<cmd, backups>> /\ arriving' = l
        /\ db' = [db EXCEPT !.lanes[l] = EnsureLane(l)]
    BY <1>3 DEF Submit
  <2>2. LanesInv
    BY <2>1 DEF LaneInv
  <2>3. GoodStore(db') /\ db'.lanes[l] # NONE
    BY <2>1, <2>2, EnsureKeeps DEF LanesInv
  <2>4. \A c \in Cmd : cmd[c].at \notin Adopting
    BY <2>1 DEF Exposed, Adopting
  <2>5. AloneInv' /\ AliasInv'
    BY <2>1, <2>4 DEF AloneInv, AliasInv, Adopting
  <2>6. QED
    BY <2>1, <2>2, <2>3, <2>5 DEF LanesInv
<1>4. ASSUME NEW l \in Lane, GetAgent(l) PROVE LanesInv'
  <2>1. PICK p \in {EnsureLane(l).path, NONE} :
          db' = [db EXCEPT !.lanes[l] = [path |-> p, agent |-> TRUE]]
    BY <1>4 DEF GetAgent
  <2>2. ~raced /\ ~Exposed /\ UNCHANGED <<cmd, backups, arriving>> /\ l \in db.tasks
    BY <1>4 DEF GetAgent
  <2>3. LanesInv
    BY <2>2 DEF LaneInv
  <2>4. db.lanes[l] # NONE
    BY <2>2, <2>3 DEF LanesInv, GoodStore
  <2> DEFINE r == [path |-> p, agent |-> TRUE]
  <2>5. r \in LaneRow /\ r # NONE /\ r.path \in {db.lanes[l].path, NONE}
    <3>1. EnsureLane(l) = db.lanes[l] /\ EnsureLane(l) \in LaneRow
      BY <2>4, EnsureFacts DEF EnsureLane, TypeInv
    <3>2. r \in LaneRow /\ r.path \in {db.lanes[l].path, NONE}
      BY <2>1, <3>1 DEF LaneRow
    <3>3. QED
      BY <3>2, NoneAssumption
  <2>6. db' = [db EXCEPT !.lanes[l] = r]
    BY <2>1
  <2> HIDE DEF r
  <2>7. db'.tasks = db.tasks /\ db'.lanes = [db.lanes EXCEPT ![l] = r]
    BY <1>0, <2>5, <2>6, StoreFacts
  <2>8. \A m \in Lane : db'.lanes[m] = IF m = l THEN r ELSE db.lanes[m]
    BY <1>0, <2>7 DEF Store
  <2>9. GoodStore(db')
    BY <1>0, <2>3, <2>4, <2>5, <2>7, <2>8 DEF LanesInv, GoodStore, Store
  <2>10. arriving = NONE /\ \A c \in Cmd : cmd[c].at \notin Adopting
    BY <2>2 DEF Exposed, Adopting
  <2>11. AloneInv' /\ AliasInv'
    BY <2>2, <2>10 DEF AloneInv, AliasInv, Adopting
  <2>12. QED
    BY <2>2, <2>3, <2>9, <2>10, <2>11 DEF LanesInv
<1>5. QED
  BY <1>1, <1>2, <1>3, <1>4

\* LaneInv is inductive.
LEMMA LanesStay == Spec => []LaneInv
<1>1. Init => LaneInv
  <2> SUFFICES ASSUME Init PROVE LanesInv
    BY DEF LaneInv
  <2>1. GoodStore(db)
    BY DEF Init, GoodStore, EmptyStore
  <2>2. \A d \in Day : backups[d] = NONE
    BY DEF Init
  <2>3. arriving = NONE /\ \A c \in Cmd : cmd[c].at = "idle"
    BY IdleFacts DEF Init
  <2>4. QED
    BY <2>1, <2>2, <2>3 DEF LanesInv, AloneInv, AliasInv, Adopting
<1>2. TypeInv /\ LaneInv /\ [Next]_vars => LaneInv'
  <2> SUFFICES ASSUME TypeInv, LaneInv, [Next]_vars PROVE LaneInv'
    OBVIOUS
  <2>1. CASE UNCHANGED vars
    BY <2>1 DEF vars, LaneInv, LanesInv, AloneInv, AliasInv, LanesAt
  <2>2. ASSUME NEW c \in Cmd, Import(c) \/ Crash(c) \/ StartBootstrap(c)
                              \/ BootstrapEnds(c) \/ SkipHandover(c) \/ Blocked(c)
        PROVE  LaneInv'
    <3>1. Still /\ UNCHANGED backups
      BY <2>2, ImportStill, BootStill
    <3>2. \A d \in Day : backups'[d] \in {backups[d], db, NONE}
      BY <3>1
    <3>3. QED
      BY <3>1, <3>2, StillKeeps
  <2>3. ASSUME NEW c \in Cmd, Bootstrap(c) PROVE LaneInv'
    BY <2>2, <2>3, ListKeeps, CheckAliasKeeps, DeleteKeeps, AdoptKeeps, SaveKeeps
       DEF Bootstrap
  <2>4. ASSUME NEW c \in Cmd, Recover(c) PROVE LaneInv'
    BY <2>4, RecoverStill, RestoreLanes DEF Recover
  <2>5. CASE \/ DayPasses \/ SaveTask
             \/ \E f \in Handover : EditHandover(f)
             \/ \E l \in Lane : Submit(l) \/ GetAgent(l)
    BY <2>5, WorldLanes
  <2>6. QED
    BY <2>1, <2>2, <2>3, <2>4, <2>5 DEF Next
<1>3. Spec => []TypeInv
  BY TypeKept
<1>4. QED
  BY <1>1, <1>2, <1>3, PTL DEF Spec

\* README.md:172-176: as long as nothing changes under a bootstrap's feet, whichever
\* command is cut short, whatever is restored and however headers are edited, no
\* lane is removed while it has tasks, and a handover belongs to one lane.
THEOREM LanesKept == Spec => []BootstrapKeepsLanes
<1>1. Spec => []LaneInv
  BY LanesStay
<1>2. LaneInv => BootstrapKeepsLanes
  <2> SUFFICES ASSUME LanesInv, NEW f \in Handover
               PROVE  Cardinality(LanesAt(f)) <= 1
    BY DEF LaneInv, LanesInv, GoodStore, BootstrapKeepsLanes
  <2>1. f # NONE
    BY StoreUpkeepAssumption
  <2>2. \A l, m \in LanesAt(f) : l = m
    BY <2>1 DEF LanesInv, GoodStore, LanesAt
  <2>3. CASE LanesAt(f) = {}
    BY <2>3, FS_EmptySet
  <2>4. CASE LanesAt(f) # {}
    <3>1. PICK l : LanesAt(f) = {l}
      BY <2>2, <2>4
    <3>2. Cardinality({l}) = 1
      BY FS_Singleton
    <3>3. QED
      BY <3>1, <3>2
  <2>5. QED
    BY <2>3, <2>4
<1>3. QED
  BY <1>1, <1>2, PTL

=============================================================================
