---------------------------- MODULE KernelMigration ----------------------------
(***************************************************************************)
(* Upgrade of a schema-20 project to the kernel's schema 25, the recovery  *)
(* of an interrupted upgrade, and the return to the pre-migration backup   *)
(* (kernel-migration.ts).  Each durable step is an action: a rename, or    *)
(* the save of the journal, which is itself a rename.  A crash or an       *)
(* exception may come before any of them.                                  *)
(*                                                                         *)
(* A file's content is the kind of its schema and the last commit in it;   *)
(* two contents are equal when their hashes are.  The WAL holds the        *)
(* commits the database file lacks.  The -shm file carries nothing and is  *)
(* left out.  The staging of schema 21 to 25 runs on a copy nobody else    *)
(* sees and ends in one save of the journal: it is Stage.                  *)
(***************************************************************************)
EXTENDS Integers, Sequences

CONSTANTS
    None,               \* no file; no journal; nothing recorded
    MaxCommits,         \* bound: commits
    MaxFaults           \* bound: crashes and exceptions

VARIABLES
    db, wal, brief,     \* state.sqlite, state.sqlite-wal, research-brief.yaml
    journal,            \* .kernel-migration.json
    work,               \* the maintenance call in progress; it dies with its process
    session,            \* another process with the project open for writing
    oldRuntime,         \* is there a writer of the released 0.2.0 runtime?
    commits,            \* commits so far; their number names them
    acked,              \* history: the last commit the project must still have
    from, goal,         \* history: the pair a switch began with, and is to install
    disturbed,          \* history: were the files touched by others since?
    faults

files == <<db, wal, brief>>
past == <<oldRuntime, commits, acked, from, goal, disturbed, faults>>
vars == <<files, journal, work, session, past>>

Kind == {"old", "new"}
Content == [kind : Kind, last : 0..MaxCommits]
Pair == [db : Content, brief : Kind \cup {None}]
Source == [db : Content, wal : Content \cup {None}, brief : Kind \cup {None}]
Progress == {"none", "old_moved", "database_installed", "brief_installed"}
Journal ==
    [intent : {"upgrade", "restore_backup"},
     stage : {"previewed", "copied", "validated", "swapped", "failed", "rolled_back"},
     progress : Progress,
     source : Source, backup : Pair \cup {None}, target : Pair \cup {None}]

\* What is assumed of the constants: None is not one of the values beside it.
ConstantsOK ==
    /\ MaxCommits \in Nat \ {0} /\ MaxFaults \in Nat
    /\ None \notin Kind \cup Content \cup Pair \cup Source \cup Journal

Idle == [phase |-> "idle", plan |-> None, incoming |-> None, todo |-> <<>>]

\* fingerprint: what identifies the current files.
Fingerprint == [db |-> db, wal |-> wal, brief |-> brief]
Latest == IF wal = None THEN db.last ELSE wal.last

\* An ordinary open refuses any other journal.
Settled == journal # None => journal.stage \in {"swapped", "rolled_back"}

-----------------------------------------------------------------------------
Init ==
    /\ db = [kind |-> "old", last |-> 0]
    /\ wal \in {None, [kind |-> "old", last |-> 1]}
    /\ brief \in {"old", None}
    /\ journal = None
    /\ work = Idle
    /\ session = [kind |-> None, live |-> FALSE]
    /\ oldRuntime \in BOOLEAN
    /\ commits = Latest /\ acked = Latest
    /\ from = [kind |-> "old", last |-> Latest] /\ goal = from
    /\ disturbed = FALSE
    /\ faults = 0

Save(j) == journal' = j
Phase(p) == work' = [work EXCEPT !.phase = p]

-----------------------------------------------------------------------------
(* Other processes.                                                        *)

\* The maintenance fence: a current-runtime write waits for the guard.
Guarded == work.phase \notin {"idle", "planned"}

OpenSession ==
    /\ session.kind = None /\ Settled /\ db # None
    /\ db.kind = "new" => brief = "new"
    /\ session' = [kind |-> db.kind, live |-> TRUE]
    /\ UNCHANGED <<files, journal, work, past>>

\* Mutant: the connection's file is not compared with the one at its path.
MutantWritable == ~Guarded /\ session.kind # None /\ Settled
Writable ==
    /\ session.kind # None
    /\ ~Guarded
    /\ session.live /\ Settled

Committed ==
    /\ commits < MaxCommits
    /\ commits' = commits + 1
    /\ acked' = commits'

Commit ==
    /\ Writable
    /\ Committed
    /\ wal' = IF session.live THEN [kind |-> session.kind, last |-> commits'] ELSE wal
    /\ UNCHANGED <<db, brief, journal, work, session, from, goal, disturbed, faults, oldRuntime>>

\* The released runtime knows neither the fence nor the journal.  The read-only
\* connection on which the migration begins a transaction does not lock it out.
OldCommit ==
    /\ oldRuntime /\ db # None /\ db.kind = "old"
    /\ Committed
    /\ wal' = [kind |-> "old", last |-> commits']
    /\ disturbed' = (disturbed \/ ~Settled)
    /\ UNCHANGED <<db, brief, journal, work, session, from, goal, faults, oldRuntime>>

\* Closing the last connection moves the WAL into the file, guard or no guard;
\* a connection whose file was moved away leaves both alone.
CloseSession ==
    /\ session.kind # None
    /\ session' = [kind |-> None, live |-> FALSE]
    /\ IF session.live /\ wal # None /\ db # None
       THEN db' = wal /\ wal' = None /\ disturbed' = (disturbed \/ ~Settled)
       ELSE UNCHANGED <<db, wal, disturbed>>
    /\ UNCHANGED <<brief, journal, work, commits, acked, from, goal, faults, oldRuntime>>

SessionCrash ==
    /\ session.kind # None /\ faults < MaxFaults
    /\ session' = [kind |-> None, live |-> FALSE]
    /\ faults' = faults + 1
    /\ UNCHANGED <<files, journal, work, commits, acked, from, goal, disturbed, oldRuntime>>

-----------------------------------------------------------------------------
(* migrateKernelProject.                                                   *)

\* assertFingerprint.
SameSource(s) == Fingerprint = s

Preview ==
    /\ work = Idle /\ Settled
    /\ db # None /\ db.kind = "old"
    /\ work' = [Idle EXCEPT !.phase = "planned", !.plan = Fingerprint]
    /\ UNCHANGED <<files, journal, session, past>>

\* Mutant: the source is recorded as its own backup.
MutantNewJournal(s) ==
    [intent |-> "upgrade", stage |-> "previewed", progress |-> "none",
     source |-> s, backup |-> s, target |-> None]
NewJournal(s) ==
    [intent |-> "upgrade", stage |-> "previewed", progress |-> "none",
     source |-> s, backup |-> None, target |-> None]

Begin ==
    /\ work.phase = "planned"
    /\ IF SameSource(work.plan) /\ Settled
       THEN /\ Save(NewJournal(work.plan))
            /\ Phase("begun")
            /\ from' = [kind |-> "old", last |-> Latest]
            /\ goal' = [kind |-> "new", last |-> Latest]
            /\ disturbed' = FALSE
       ELSE work' = Idle /\ UNCHANGED <<journal, from, goal, disturbed>>
    /\ UNCHANGED <<files, session, commits, acked, faults, oldRuntime>>

\* Any exception of the upgrade is recorded, and left to the recovery.
Failed ==
    /\ Save([journal EXCEPT !.stage = "failed"])
    /\ work' = Idle

\* Mutant: the copied WAL is not moved into the backup's database.
MutantBackupCopy == db
\* The backup is checkpointed: its database has every commit of the source.
BackupCopy == [kind |-> "old", last |-> Latest]

BackUp ==
    /\ work.phase = "begun"
    /\ IF SameSource(work.plan)
       THEN /\ Save([journal EXCEPT !.stage = "copied",
                        !.backup = [db |-> BackupCopy, brief |-> brief]])
            /\ Phase("copied")
       ELSE Failed
    /\ UNCHANGED <<files, session, past>>

Stage ==
    /\ work.phase = "copied"
    /\ LET made == [db |-> [journal.backup.db EXCEPT !.kind = "new"], brief |-> "new"]
       IN /\ Save([journal EXCEPT !.stage = "validated", !.target = made])
          /\ work' = [work EXCEPT !.phase = "staged", !.incoming = made]
    /\ UNCHANGED <<files, session, past>>

UpgradeSteps ==
    <<"move_db", "move_wal", "move_brief", "old_moved",
      "install_db", "database_installed", "install_brief", "brief_installed", "complete">>

Release ==
    /\ work.phase = "staged"
    /\ IF SameSource(work.plan)
       THEN /\ work' = [work EXCEPT !.phase = "upgrade", !.todo = UpgradeSteps]
            /\ UNCHANGED journal
       ELSE Failed
    /\ UNCHANGED <<files, session, past>>

-----------------------------------------------------------------------------
(* The steps of a switch, of an upgrade's and of a restore's alike.        *)

Doing(step) == work.todo # <<>> /\ Head(work.todo) = step
Done == work' = [work EXCEPT !.todo = Tail(@)]

MoveDb ==
    /\ Doing("move_db") /\ Done
    /\ db' = None
    /\ session' = [session EXCEPT !.live = FALSE]
    /\ UNCHANGED <<wal, brief, journal, past>>

MoveWal ==
    /\ Doing("move_wal") /\ Done
    /\ wal' = None
    /\ UNCHANGED <<db, brief, journal, session, past>>

MoveBrief ==
    /\ Doing("move_brief") /\ Done
    /\ brief' = None
    /\ UNCHANGED <<db, wal, journal, session, past>>

InstallDb ==
    /\ Doing("install_db") /\ Done
    /\ db' = work.incoming.db
    /\ UNCHANGED <<wal, brief, journal, session, past>>

InstallBrief ==
    /\ Doing("install_brief") /\ Done
    /\ brief' = work.incoming.brief
    /\ UNCHANGED <<db, wal, journal, session, past>>

SaveProgress(to) ==
    /\ Doing(to) /\ Done
    /\ Save([journal EXCEPT !.progress = to])
    /\ UNCHANGED <<files, session, past>>

Complete ==
    /\ Doing("complete")
    /\ work' = Idle
    /\ Save([journal EXCEPT !.stage =
                IF work.phase = "upgrade" THEN "swapped" ELSE "rolled_back"])
    /\ acked' = IF journal.intent = "restore_backup" THEN Latest ELSE acked
    /\ UNCHANGED <<files, session, commits, from, goal, disturbed, faults, oldRuntime>>

-----------------------------------------------------------------------------
(* recoverKernelMigration.                                                 *)

\* Only the recorded WAL, beside the recorded source or while it moves.
WalKnown(j) == wal # None => wal = j.source.wal /\ (db # None => db = j.source.db)
TargetInPlace(j) ==
    /\ j.intent = "upgrade" /\ j.target # None
    /\ db = j.target.db /\ brief = j.target.brief
Untouched(j) == j.intent = "upgrade" /\ j.progress = "none" /\ db # None
\* Mutant: a database restored by an interrupted recovery is not recognized.
MutantFilesKnown(j) ==
    \A p \in {j.source} \cup ({j.target} \ {None}) : db \in {None, p.db}
FilesKnown(j) ==
    LET recorded == {j.source} \cup ({j.target, j.backup} \ {None})
    IN  /\ db # None => \E p \in recorded : db = p.db
        /\ brief # None => \E p \in recorded : brief = p.brief

\* What a recovery started now would do.
Decision(j) ==
    CASE ~WalKnown(j) -> "refuse"
      [] WalKnown(j) /\ TargetInPlace(j) -> "swapped"
      [] WalKnown(j) /\ ~TargetInPlace(j) /\ Untouched(j) ->
            IF SameSource(j.source) THEN "rolled_back" ELSE "refuse"
      [] OTHER -> IF FilesKnown(j) /\ j.backup # None THEN "restore" ELSE "refuse"

RestoreSteps(pair) ==
    IF pair.brief = None
    THEN <<"move_db", "move_wal", "move_brief", "install_db", "complete">>
    ELSE <<"move_db", "move_wal", "move_brief", "install_db", "install_brief", "complete">>

\* The user asks for it while the project requires it; the code itself would do
\* it in any stage.
Recover ==
    /\ work = Idle /\ journal # None
    /\ ~Settled
    /\ \/ /\ Decision(journal) \in {"swapped", "rolled_back"}
          /\ Save([journal EXCEPT !.stage = Decision(journal)])
          /\ UNCHANGED work
       \/ /\ Decision(journal) = "restore"
          /\ work' = [Idle EXCEPT !.phase = "restore", !.incoming = journal.backup,
                                  !.todo = RestoreSteps(journal.backup)]
          /\ UNCHANGED journal
    /\ UNCHANGED <<files, session, past>>

\* restoreKernelPreMigrationBackup, up to the release of its guard; the recovery
\* it calls next takes the guard again.  A Forget since the upgrade refuses it.
PrepareRestore ==
    /\ work = Idle
    /\ journal # None /\ journal.stage = "swapped"
    /\ db # None /\ db.kind = "new" /\ brief = "new"
    /\ Save([journal EXCEPT !.intent = "restore_backup", !.stage = "validated",
                            !.target = [db |-> db, brief |-> brief]])
    /\ from' = [kind |-> "new", last |-> Latest] /\ goal' = journal.backup.db
    /\ disturbed' = FALSE
    /\ UNCHANGED <<files, work, session, commits, acked, faults, oldRuntime>>

-----------------------------------------------------------------------------
(* Failures.  An exception of an upgrade reaches the journal; one of a     *)
(* recovery, and any crash, does not.                                      *)

Upgrading == work.phase \in {"begun", "copied", "staged", "upgrade"}

Fail ==
    /\ Upgrading /\ faults < MaxFaults
    /\ Failed
    /\ faults' = faults + 1
    /\ UNCHANGED <<files, session, commits, acked, from, goal, disturbed, oldRuntime>>

Crash ==
    /\ work # Idle /\ faults < MaxFaults
    /\ work' = Idle
    /\ faults' = faults + 1
    /\ UNCHANGED <<files, journal, session, commits, acked, from, goal, disturbed, oldRuntime>>

-----------------------------------------------------------------------------
Upgrade == Begin \/ BackUp \/ Stage \/ Release
Switch ==
    \/ MoveDb \/ MoveWal \/ MoveBrief \/ InstallDb \/ InstallBrief \/ Complete
    \/ \E to \in Progress : SaveProgress(to)
Others == OpenSession \/ Commit \/ OldCommit \/ CloseSession \/ SessionCrash

Next == Preview \/ Upgrade \/ Switch \/ Recover \/ PrepareRestore \/ Others \/ Fail \/ Crash

Spec == Init /\ [][Next]_vars

(* A maintenance call that has begun runs to its end unless its process    *)
(* dies, and the user of a project that refuses to open asks for recovery. *)
FairSpec == Spec /\ WF_vars(Upgrade) /\ WF_vars(Switch) /\ WF_vars(Recover)

-----------------------------------------------------------------------------
(* Properties.                                                             *)

TypeOK ==
    /\ db \in Content \cup {None} /\ wal \in Content \cup {None}
    /\ brief \in Kind \cup {None}
    /\ journal \in Journal \cup {None}
    /\ work.phase \in {"idle", "planned", "begun", "copied", "staged", "upgrade", "restore"}
    /\ work.incoming \in Pair \cup {None} /\ work.plan \in Source \cup {None}
    /\ session \in [kind : Kind \cup {None}, live : BOOLEAN]
    /\ commits \in 0..MaxCommits /\ acked \in 0..commits
    /\ disturbed \in BOOLEAN /\ faults \in 0..MaxFaults

(* `No half-pair can be selected': a project whose journal lets it be      *)
(* opened has a database, a Brief of the same schema and no foreign WAL.   *)
Whole ==
    /\ db # None
    /\ db.kind = "new" => brief = "new"
    /\ db.kind = "old" => brief \in {"old", None}
    /\ wal # None => wal.kind = db.kind
WholePair == Settled => Whole

(* No acknowledged commit is lost by an upgrade or its recovery; the return*)
(* to the backup, which the user confirms, gives up those made since.  A   *)
(* writer of the released runtime is kept out by nothing: one of its       *)
(* commits between the last comparison and the swap can be lost.           *)
CommitsSurvive == Settled /\ ~oldRuntime => db # None /\ Latest = acked

(* An interrupted switch whose files nobody else touched can be recovered, *)
(* but for two states: a recovery interrupted after it installed a         *)
(* database where the journal still says nothing was moved, and a return   *)
(* to the backup begun with commits left in the WAL.                       *)
Waiting(intent) ==
    ~Settled /\ journal.intent = intent /\ work = Idle /\ ~disturbed
Trapped ==
    \/ Waiting("upgrade") /\ Untouched(journal) /\ journal.backup # None
        /\ db = journal.backup.db /\ brief \in {None, journal.backup.brief}
    \/ Waiting("restore_backup") /\ wal # None
RecoverableElsewhere ==
    \A intent \in {"upgrade", "restore_backup"} :
        Waiting(intent) /\ ~Trapped => Decision(journal) # "refuse"

(* A switch that is begun ends, as often as it is interrupted.             *)
SwitchEnds == []<>(Settled \/ disturbed \/ Trapped)

(* Refinement: without that writer, an upgrade and a return to the backup  *)
(* are switches of a whole pair.                                           *)
Shown(other) ==
    IF oldRuntime THEN [kind |-> "old", last |-> 0]
    ELSE IF Settled /\ db # None THEN [kind |-> db.kind, last |-> Latest]
    ELSE other
Switching == INSTANCE PairSwitch WITH
    Pair <- Content,
    Later <- LAMBDA p, q : q.kind = p.kind /\ q.last > p.last,
    pair <- Shown(from),
    goal <- Shown(goal),
    settled <- Settled \/ oldRuntime
PairSwitchSpec == Switching!Spec
=============================================================================
