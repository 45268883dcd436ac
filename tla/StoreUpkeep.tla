---------------------------- MODULE StoreUpkeep ----------------------------
(***************************************************************************)
(* What commands do to the store as a whole: `bootstrap` adopts the         *)
(* handover files of the workspace as lanes, `legacy-inbox` imports old     *)
(* mail by reference, `recover` backs the store up, prunes the backups and  *)
(* restores one.  Commands run in processes of their own, may overlap, and  *)
(* may end at any step; each commit is a step.                              *)
(*                                                                         *)
(* SQLite is external: its online backup is a snapshot, a backup that is    *)
(* cut short opens as an empty store, and whoever reads after a restore     *)
(* reads the restored store.                                               *)
(***************************************************************************)
EXTENDS Naturals, Sequences, FiniteSetsExt

CONSTANTS
  Cmd,         \* processes that run one command at a time
  Handovers,   \* the handover files, in the order of their names
  Skipped,     \* those with a date or, unless included, of the brain
  Lane,        \* lane keys
  Fold,        \* what casefold makes of a lane key
  Legacy,      \* files of the legacy inbox
  Retention,   \* days a backup is kept
  LastDay,     \* bound: days
  MaxStarts, MaxUpsets,   \* bounds: commands; crashes, edited headers, work
  NONE

Handover == {Handovers[i] : i \in DOMAIN Handovers}
Day == 0..LastDay

ASSUME StoreUpkeepAssumption ==
  /\ Retention \in Nat /\ LastDay \in Nat /\ MaxStarts \in Nat /\ MaxUpsets \in Nat
  /\ Handovers \in Seq(Handover) /\ Skipped \subseteq Handover
  /\ DOMAIN Fold = Lane
  /\ NONE \notin Lane \cup Handover \cup Legacy

LaneRow == [path : Handover \cup {NONE}, agent : BOOLEAN]

\* The tables: the lanes' rows, the lanes that have tasks, how many messages
\* refer to each legacy file, and the import ids on record.
Store == [lanes : [Lane -> LaneRow \cup {NONE}], tasks : SUBSET Lane,
          mail : [Legacy -> Nat], imports : SUBSET Legacy]

EmptyStore == [lanes |-> [l \in Lane |-> NONE], tasks |-> {},
               mail |-> [f \in Legacy |-> 0], imports |-> {}]

ASSUME NoneAssumption == NONE \notin LaneRow \cup Store

VARIABLES
  db,       \* the store
  laneOf,   \* the lane each handover names, or NONE when that is empty
  backups,  \* of each day: its backup, or NONE
  today,
  cmd,      \* of each process: the command it is in and its copies
  arriving, \* the lane of a task that is being submitted, or NONE
  excused,  \* of each legacy file: why it may have been mailed once more (history)
  raced,    \* did something change under a command's feet (history)
  spent     \* commands started, and upsets

vars == <<db, laneOf, backups, today, cmd, arriving, excused, raced, spent>>

NoCommand == [at |-> "idle", next |-> 1, seen |-> {}, stale |-> {}, blocked |-> FALSE,
              lane |-> NONE, row |-> NONE, todo |-> {}, file |-> NONE, day |-> 0]

Init ==
  /\ db = EmptyStore
  /\ laneOf \in [Handover -> Lane]
  /\ backups = [d \in Day |-> NONE]
  /\ today = 0
  /\ cmd = [c \in Cmd |-> NoCommand]
  /\ arriving = NONE
  /\ excused = [f \in Legacy |-> 0] /\ raced = FALSE
  /\ spent = [starts |-> 0, upsets |-> 0]

-----------------------------------------------------------------------------
(* helpers *)

Start(c) ==
  /\ cmd[c].at = "idle" /\ spent.starts < MaxStarts
  /\ spent' = [spent EXCEPT !.starts = @ + 1]

Upset ==
  /\ spent.upsets < MaxUpsets
  /\ spent' = [spent EXCEPT !.upsets = @ + 1]

NewLane == [path |-> NONE, agent |-> FALSE]

EnsureLane(l) == IF db.lanes[l] = NONE THEN NewLane ELSE db.lanes[l]

LanesAt(f) == {l \in Lane : db.lanes[l] # NONE /\ db.lanes[l].path = f}

\* Mutation: the tasks are not looked at.
LaneIsEmptyOfAgents(l) == db.lanes[l] # NONE => ~db.lanes[l].agent

LaneIsEmpty(l) == db.lanes[l] # NONE => ~db.lanes[l].agent /\ l \notin db.tasks

Busy(c) == cmd[c].at # "idle"

\* A bootstrap in the middle of a handover, or a task half submitted.
Exposed == arriving # NONE \/ \E c \in Cmd : cmd[c].at \in {"aliases", "delete", "save"}

HalfImported(f) == \E c \in Cmd : cmd[c].at = "sent" /\ cmd[c].file = f

-----------------------------------------------------------------------------
(* bootstrap_handovers *)

StartBootstrap(c) ==
  /\ Start(c)
  /\ cmd' = [cmd EXCEPT ![c] = [NoCommand EXCEPT !.at = "boot"]]
  /\ UNCHANGED <<db, laneOf, backups, today, arriving, excused, raced>>

NextHandover(c) == [cmd[c] EXCEPT !.at = "boot", !.next = @ + 1, !.blocked = FALSE]

BootstrapEnds(c) ==
  /\ cmd[c].at = "boot" /\ cmd[c].next > Len(Handovers)
  /\ cmd' = [cmd EXCEPT ![c] = NoCommand]
  /\ UNCHANGED <<db, laneOf, backups, today, arriving, excused, raced, spent>>

\* It is not skipped, names a lane, and none that came before.
Adoptable(c, f) ==
  f \notin Skipped /\ laneOf[f] # NONE /\ Fold[laneOf[f]] \notin cmd[c].seen

SkipHandover(c) ==
  /\ cmd[c].at = "boot" /\ cmd[c].next <= Len(Handovers)
  /\ ~Adoptable(c, Handovers[cmd[c].next])
  /\ cmd' = [cmd EXCEPT ![c] = NextHandover(c)]
  /\ UNCHANGED <<db, laneOf, backups, today, arriving, excused, raced, spent>>

\* What the command holds: a handover taken up, an alias about to be deleted,
\* in use or deleted, and the lane about to be saved.
Listed(k, l, aliases) == [k EXCEPT !.at = "aliases", !.lane = l, !.stale = aliases]
Deleting(k, l) == [k EXCEPT !.at = "delete", !.stale = @ \ {l}, !.row = l]
Blocking(k, l) == [k EXCEPT !.blocked = TRUE, !.stale = @ \ {l}]
Deleted(k) == [k EXCEPT !.at = "aliases", !.row = NONE]
Saving(k, l, r) == [k EXCEPT !.at = "save", !.seen = @ \cup {Fold[l]}, !.row = r]

ListAliases(c) ==
  /\ cmd[c].at = "boot" /\ cmd[c].next <= Len(Handovers)
  /\ LET f == Handovers[cmd[c].next] IN
     /\ Adoptable(c, f)
     /\ cmd' = [cmd EXCEPT ![c] = Listed(cmd[c], laneOf[f], LanesAt(f) \ {laneOf[f]})]
  /\ raced' = (raced \/ Exposed)
  /\ UNCHANGED <<db, laneOf, backups, today, arriving, excused, spent>>

CheckAlias(c) ==
  /\ cmd[c].at = "aliases"
  /\ \E l \in cmd[c].stale :
       \/ /\ LaneIsEmpty(l)
          /\ cmd' = [cmd EXCEPT ![c] = Deleting(cmd[c], l)]
       \/ /\ ~LaneIsEmpty(l)
          /\ cmd' = [cmd EXCEPT ![c] = Blocking(cmd[c], l)]
  /\ UNCHANGED <<db, laneOf, backups, today, arriving, excused, raced, spent>>

DeleteAlias(c) ==
  /\ cmd[c].at = "delete"
  /\ db' = [db EXCEPT !.lanes[cmd[c].row] = NONE]
  /\ cmd' = [cmd EXCEPT ![c] = Deleted(cmd[c])]
  /\ UNCHANGED <<laneOf, backups, today, arriving, excused, raced, spent>>

\* An alias in use: the handover is left for another time.
Blocked(c) ==
  /\ cmd[c].at = "aliases" /\ cmd[c].stale = {} /\ cmd[c].blocked
  /\ cmd' = [cmd EXCEPT ![c] = NextHandover(c)]
  /\ UNCHANGED <<db, laneOf, backups, today, arriving, excused, raced, spent>>

Adopt(c) ==
  /\ cmd[c].at = "aliases" /\ cmd[c].stale = {} /\ ~cmd[c].blocked
  /\ LET l == cmd[c].lane IN
     /\ db' = [db EXCEPT !.lanes[l] = EnsureLane(l)]
     /\ cmd' = [cmd EXCEPT ![c] = Saving(cmd[c], l, EnsureLane(l))]
  /\ UNCHANGED <<laneOf, backups, today, arriving, excused, raced, spent>>

\* The row read before is saved whole.
SaveAdopted(c) ==
  /\ cmd[c].at = "save"
  /\ db' = [db EXCEPT !.lanes[cmd[c].lane] =
              [cmd[c].row EXCEPT !.path = Handovers[cmd[c].next]]]
  /\ cmd' = [cmd EXCEPT ![c] = [NextHandover(c) EXCEPT !.row = NONE]]
  /\ UNCHANGED <<laneOf, backups, today, arriving, excused, raced, spent>>

-----------------------------------------------------------------------------
(* audit_or_import_legacy_inbox *)

\* The whole mapping is validated before anything is sent.
StartImport(c) ==
  /\ Start(c)
  /\ \E mapping \in SUBSET Legacy :
       cmd' = [cmd EXCEPT ![c] = [NoCommand EXCEPT !.at = "legacy", !.todo = mapping]]
  /\ UNCHANGED <<db, laneOf, backups, today, arriving, excused, raced>>

\* A file that is on record, and one that is not.
Found(k, f) == [k EXCEPT !.todo = @ \ {f}]
Unmailed(k, f) == [k EXCEPT !.todo = @ \ {f}, !.at = "new", !.file = f]

\* Those that found a file new and have not mailed it.
New(f) == {c \in Cmd : cmd[c].at = "new" /\ cmd[c].file = f}

\* Two imports that both find a file new mail it twice.
Importing(f) == {c \in Cmd : cmd[c].at \in {"new", "sent"} /\ cmd[c].file = f}

CheckImport(c) ==
  /\ cmd[c].at = "legacy"
  /\ \E f \in cmd[c].todo :
       \/ /\ f \in db.imports
          /\ cmd' = [cmd EXCEPT ![c] = Found(cmd[c], f)]
          /\ UNCHANGED excused
       \/ /\ f \notin db.imports
          /\ cmd' = [cmd EXCEPT ![c] = Unmailed(cmd[c], f)]
          /\ excused' = [excused EXCEPT ![f] = @ + IF Importing(f) # {} THEN 1 ELSE 0]
  /\ UNCHANGED <<db, laneOf, backups, today, arriving, raced, spent>>

SendImport(c) ==
  /\ cmd[c].at = "new"
  /\ db' = [db EXCEPT !.mail[cmd[c].file] = @ + 1]
  /\ cmd' = [cmd EXCEPT ![c].at = "sent"]
  /\ UNCHANGED <<laneOf, backups, today, arriving, excused, raced, spent>>

\* Mutation: the id on record is that of the next file, if any.
RecordImportNext(c) ==
  /\ cmd[c].at = "sent"
  /\ db' = [db EXCEPT !.imports = @ \cup cmd[c].todo]
  /\ cmd' = [cmd EXCEPT ![c] = [@ EXCEPT !.at = "legacy", !.file = NONE]]
  /\ UNCHANGED <<laneOf, backups, today, arriving, excused, raced, spent>>

RecordImport(c) ==
  /\ cmd[c].at = "sent"
  /\ db' = [db EXCEPT !.imports = @ \cup {cmd[c].file}]
  /\ cmd' = [cmd EXCEPT ![c] = [@ EXCEPT !.at = "legacy", !.file = NONE]]
  /\ UNCHANGED <<laneOf, backups, today, arriving, excused, raced, spent>>

ImportEnds(c) ==
  /\ cmd[c].at = "legacy" /\ cmd[c].todo = {}
  /\ cmd' = [cmd EXCEPT ![c] = NoCommand]
  /\ UNCHANGED <<db, laneOf, backups, today, arriving, excused, raced, spent>>

-----------------------------------------------------------------------------
(* recover: restore_backup if asked, then backup_daily *)

\* Mutation: whether there is a backup is not asked.
KeptOrNot == {d \in Day : d <= today}

Kept == {d \in Day : backups[d] # NONE}

StartRecover(c) ==
  /\ Start(c)
  /\ cmd' = [cmd EXCEPT ![c] = [NoCommand EXCEPT !.at = "backup"]]
  /\ UNCHANGED <<db, laneOf, backups, today, arriving, excused, raced>>

\* Any backup may be named.  What was sent or read before and is recorded or
\* saved after the restore belongs to the store that is gone, and a file that was
\* looked for in that store is mailed in this one, whose mail may have it.
RestoreBackup(c) ==
  /\ Start(c)
  /\ \E d \in Kept : db' = backups[d]
  /\ cmd' = [cmd EXCEPT ![c] = [NoCommand EXCEPT !.at = "backup"]]
  /\ excused' = [f \in Legacy |-> excused[f] + IF New(f) # {} THEN 1 ELSE 0]
  /\ raced' = (raced \/ Exposed \/ \E f \in Legacy : HalfImported(f))
  /\ UNCHANGED <<laneOf, backups, today, arriving>>

\* The file is there from the first page on.
BeginBackup(c) ==
  /\ cmd[c].at = "backup" /\ backups[today] = NONE
  /\ backups' = [backups EXCEPT ![today] = EmptyStore]
  /\ cmd' = [cmd EXCEPT ![c] = [@ EXCEPT !.at = "copy", !.day = today]]
  /\ UNCHANGED <<db, laneOf, today, arriving, excused, raced, spent>>

\* A snapshot between the message and its id makes the import come again once
\* it is restored.
EndBackup(c) ==
  /\ cmd[c].at = "copy"
  /\ backups' = [backups EXCEPT ![cmd[c].day] = db]
  /\ cmd' = [cmd EXCEPT ![c].at = "prune"]
  /\ excused' = [f \in Legacy |-> excused[f] + IF HalfImported(f) THEN 1 ELSE 0]
  /\ UNCHANGED <<db, laneOf, today, arriving, raced, spent>>

BackupExists(c) ==
  /\ cmd[c].at = "backup" /\ backups[today] # NONE
  /\ cmd' = [cmd EXCEPT ![c] = [@ EXCEPT !.at = "prune", !.day = today]]
  /\ UNCHANGED <<db, laneOf, backups, today, arriving, excused, raced, spent>>

\* Mutation: the last day that is kept goes too.
OutdatedByOne(d, day) == d + Retention <= day

Outdated(d, day) == d + Retention < day

Prune(c) ==
  /\ cmd[c].at = "prune"
  /\ backups' = [d \in Day |-> IF Outdated(d, cmd[c].day) THEN NONE ELSE backups[d]]
  /\ cmd' = [cmd EXCEPT ![c] = NoCommand]
  /\ UNCHANGED <<db, laneOf, today, arriving, excused, raced, spent>>

-----------------------------------------------------------------------------
(* the rest of the world *)

DayPasses ==
  /\ today < LastDay
  /\ today' = today + 1
  /\ UNCHANGED <<db, laneOf, backups, cmd, arriving, excused, raced, spent>>

EditHandover(f) ==
  /\ Upset
  /\ \E l \in Lane \cup {NONE} : laneOf' = [laneOf EXCEPT ![f] = l]
  /\ UNCHANGED <<db, backups, today, cmd, arriving, excused, raced>>

\* submit_task: the lane's row is made sure of, then the task is saved.
Submit(l) ==
  /\ arriving = NONE /\ Upset
  /\ db' = [db EXCEPT !.lanes[l] = EnsureLane(l)]
  /\ arriving' = l
  /\ raced' = (raced \/ Exposed)
  /\ UNCHANGED <<laneOf, backups, today, cmd, excused>>

SaveTask ==
  /\ arriving # NONE
  /\ db' = [db EXCEPT !.tasks = @ \cup {arriving}]
  /\ arriving' = NONE
  /\ UNCHANGED <<laneOf, backups, today, cmd, excused, raced, spent>>

\* A lane gets an agent, and with its rotation a handover of its own.
GetAgent(l) ==
  /\ l \in db.tasks /\ Upset
  /\ \E p \in {EnsureLane(l).path, NONE} :
       db' = [db EXCEPT !.lanes[l] = [path |-> p, agent |-> TRUE]]
  /\ raced' = (raced \/ Exposed)
  /\ UNCHANGED <<laneOf, backups, today, cmd, arriving, excused>>

\* A command ends at any step: killed, or by an exception.
Crash(c) ==
  /\ Busy(c) /\ Upset
  /\ cmd' = [cmd EXCEPT ![c] = NoCommand]
  /\ excused' = [f \in Legacy |-> excused[f] +
                   IF cmd[c].at = "sent" /\ cmd[c].file = f THEN 1 ELSE 0]
  /\ UNCHANGED <<db, laneOf, backups, today, arriving, raced>>

-----------------------------------------------------------------------------

Bootstrap(c) ==
  \/ StartBootstrap(c) \/ SkipHandover(c) \/ ListAliases(c) \/ CheckAlias(c)
  \/ DeleteAlias(c) \/ Blocked(c) \/ Adopt(c) \/ SaveAdopted(c) \/ BootstrapEnds(c)

Import(c) ==
  StartImport(c) \/ CheckImport(c) \/ SendImport(c) \/ RecordImport(c) \/ ImportEnds(c)

Recover(c) ==
  \/ StartRecover(c) \/ RestoreBackup(c)
  \/ BeginBackup(c) \/ EndBackup(c) \/ BackupExists(c) \/ Prune(c)

Next ==
  \/ \E c \in Cmd : Bootstrap(c) \/ Import(c) \/ Recover(c) \/ Crash(c)
  \/ DayPasses \/ SaveTask
  \/ \E f \in Handover : EditHandover(f)
  \/ \E l \in Lane : Submit(l) \/ GetAgent(l)

Spec == Init /\ [][Next]_vars

-----------------------------------------------------------------------------
(* properties *)

Command ==
  [at : {"idle", "boot", "aliases", "delete", "save", "legacy", "new", "sent",
         "backup", "copy", "prune"},
   next : Nat, seen : SUBSET {Fold[l] : l \in Lane}, stale : SUBSET Lane, blocked : BOOLEAN,
   lane : Lane \cup {NONE}, row : LaneRow \cup Lane \cup {NONE},
   todo : SUBSET Legacy, file : Legacy \cup {NONE}, day : Day]

\* Every variable has its type.
TypeOK ==
  /\ db \in Store
  /\ laneOf \in [Handover -> Lane \cup {NONE}]
  /\ backups \in [Day -> Store \cup {NONE}]
  /\ today \in Day
  /\ cmd \in [Cmd -> Command]
  /\ arriving \in Lane \cup {NONE}
  /\ excused \in [Legacy -> Nat] /\ raced \in BOOLEAN
  /\ spent \in [starts : Nat, upsets : Nat]

\* README.md:189-191, "durable import IDs prevent duplicates": whatever backups
\* are restored, in whatever order, a legacy file is mailed again only when an
\* import of it was cut between message and id, ran beside another one, or was
\* backed up at that moment, or when a store was restored after the import had
\* looked for the id and before it mailed; and one that is on record was mailed,
\* unless a restore came between the two.
ImportedOnce ==
  /\ \A f \in Legacy : db.mail[f] <= 1 + excused[f]
  /\ ~raced => \A f \in db.imports : db.mail[f] > 0

\* README.md:172-176: whichever command is cut short, whatever is restored and
\* however headers are edited, no lane is removed while it has tasks, and a
\* handover belongs to one lane.
BootstrapKeepsLanes ==
  ~raced => /\ \A l \in db.tasks : db.lanes[l] # NONE
            /\ \A f \in Handover : Cardinality(LanesAt(f)) <= 1

\* README.md:55-56: pruning spares the backups of the last Retention days and
\* leaves none that was older when the command started.
RetentionKept ==
  [][\A c \in Cmd : Prune(c) =>
       \A d \in Day :
         /\ (d + Retention >= today) => backups'[d] = backups[d]
         /\ (d + Retention < cmd[c].day) => backups'[d] = NONE]_vars

=============================================================================
