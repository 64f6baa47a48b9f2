---------------------------- MODULE ManagedRestore ----------------------------
(***************************************************************************)
(* Restoring a managed backup over the current project, and the recovery   *)
(* of an interrupted restore (recovery.ts).  Each durable file operation   *)
(* is an action, and a crash or an exception may come before any of them.  *)
(* A schema-25 restore keeps a journal; one of an earlier schema has none  *)
(* and relies on being done again.                                         *)
(*                                                                         *)
(* A file's content is the last commit in it: a commit goes to the WAL and *)
(* renders the Brief.  Torn is a file whose writing was cut short.  The    *)
(* -shm file and the staged copies carry nothing and are left out.         *)
(***************************************************************************)
EXTENDS Integers, Sequences, FiniteSets

CONSTANTS
    None,           \* no such file
    Torn,           \* a file only partly written
    MaxCommits,     \* bound: commits
    MaxFaults       \* bound: crashes and exceptions

ASSUME BoundAssumption == MaxCommits \in Nat \ {0} /\ MaxFaults \in Nat

VARIABLES
    files,      \* the project's files, by name
    saved,      \* the files this restore moved aside (.rollback-<nonce>-*)
    journal,    \* .managed-restore.json
    work,       \* the call in progress; it dies with its process
    open,       \* does a session hold the project's write lease?
    kernel,     \* is it a schema-25 project?
    commits,    \* commits so far; their number names them
    forgets,    \* those among them that forget something
    from, goal, \* history: what a restore began with, and is to install
    faults

past == <<kernel, commits, forgets, from, goal, faults>>
vars == <<files, saved, journal, work, open, past>>

File == {"db", "wal", "brief"}
Order == <<"db", "wal", "brief">>
Content == 0..MaxCommits
Contents == [File -> Content \cup {None, Torn}]
NoFiles == [f \in File |-> None]

\* The verified bundle that is restored: the project before its first commit.
Bundle == [db |-> 0, wal |-> None, brief |-> 0]

Record == [original : Contents, completed : BOOLEAN]

ASSUME DistinctAssumption == None # Torn /\ {None, Torn} \cap (Content \cup Record) = {}

Idle == [phase |-> "idle", plan |-> NoFiles, todo |-> <<>>, undo |-> <<>>,
         installed |-> <<>>]

Latest == IF files.wal = None THEN files.db ELSE files.wal
\* kernelBackupBinding accepts the pair.
Healthy ==
    /\ files.db \in Content /\ files.wal \in Content \cup {None}
    /\ files.brief = Latest

Do(op, f) == [op |-> op, file |-> f]
DoAll(op, seq) == [i \in DOMAIN seq |-> Do(op, seq[i])]

Init ==
    /\ files = Bundle /\ saved = NoFiles
    /\ journal = None
    /\ work = Idle
    /\ open = FALSE
    /\ kernel \in BOOLEAN
    /\ commits = 0 /\ forgets = {}
    /\ from = 0 /\ goal = 0
    /\ faults = 0

-----------------------------------------------------------------------------
(* A session takes the write lease, which keeps a restore out.             *)

Free == work.phase \in {"idle", "planned"}

\* Mutant: the restore's journal does not close the project.
MutantOpenable == Healthy
Openable == journal = None /\ Healthy

OpenSession ==
    /\ ~open /\ Free /\ Openable
    /\ open' = TRUE
    /\ UNCHANGED <<files, saved, journal, work, past>>

Commit ==
    /\ open /\ commits < MaxCommits
    /\ commits' = commits + 1
    /\ forgets' \in {forgets, forgets \cup {commits'}}
    /\ files' = [files EXCEPT !.wal = commits', !.brief = commits']
    /\ UNCHANGED <<saved, journal, work, open, from, goal, faults, kernel>>

\* Closing checkpoints the WAL; a crash leaves it.
CloseSession ==
    /\ open
    /\ open' = FALSE
    /\ files' = [files EXCEPT !.db = Latest, !.wal = None]
    /\ UNCHANGED <<saved, journal, work, past>>

SessionCrash ==
    /\ open /\ faults < MaxFaults
    /\ open' = FALSE
    /\ faults' = faults + 1
    /\ UNCHANGED <<files, saved, journal, work, commits, forgets, from, goal, kernel>>

-----------------------------------------------------------------------------
(* restoreProjectState.                                                    *)

\* The preview the user confirms: currentProjectStateHash.
Preview ==
    /\ work = Idle /\ journal = None
    /\ work' = [Idle EXCEPT !.phase = "planned", !.plan = files]
    /\ UNCHANGED <<files, saved, journal, open, past>>

\* privacyHash: what the database with this content has forgotten.
Forgotten(content) == {n \in forgets : n <= content}

\* Mutant: the bundle's redactions are not compared with the project's.
MutantMayBegin ==
    journal = None /\ IF kernel THEN Healthy /\ files = work.plan ELSE files # NoFiles
\* A healthy state becomes a pre-restore bundle.  An unhealthy one, of an earlier
\* schema only, becomes a forensic copy, which needs at least one file.
MayBegin ==
    /\ journal = None
    /\ IF kernel
       THEN Healthy /\ files = work.plan /\ Forgotten(Latest) = Forgotten(Bundle.db)
       ELSE files # NoFiles

KernelOnly(steps) == IF kernel THEN steps ELSE <<>>

\* Mutant: the files are moved before the journal says so.
MutantRestoreSteps ==
    DoAll("move", Order)
    \o KernelOnly(<<Do("create", "journal"), Do("record", "journal")>>)
    \o <<Do("install", "db"), Do("install", "brief"), Do("verify", "wal")>>
    \o KernelOnly(<<Do("complete", "journal")>>)
    \o <<Do("clean", "saved")>>
    \o KernelOnly(<<Do("remove", "journal")>>)
RestoreSteps ==
    KernelOnly(<<Do("create", "journal"), Do("record", "journal")>>)
    \o DoAll("move", Order)
    \o <<Do("install", "db"), Do("install", "brief"), Do("verify", "wal")>>
    \o KernelOnly(<<Do("complete", "journal")>>)
    \o <<Do("clean", "saved")>>
    \o KernelOnly(<<Do("remove", "journal")>>)

\* A restore under the journal takes the project's write lease, which a session
\* opened with exclusiveLease holds.  Sessions that are open all the same, without
\* the lease or while an earlier schema is restored, are not modelled.
Begin ==
    /\ work.phase = "planned" /\ ~open
    /\ IF MayBegin
       THEN /\ work' = [Idle EXCEPT !.phase = "restoring", !.plan = files,
                                    !.todo = RestoreSteps]
            /\ saved' = NoFiles
            /\ from' = Latest /\ goal' = Bundle.db
       ELSE work' = Idle /\ UNCHANGED <<saved, from, goal>>
    /\ UNCHANGED <<files, journal, open, commits, forgets, faults, kernel>>

-----------------------------------------------------------------------------
(* The file operations, of a restore, of its undoing and of a recovery.    *)

Doing(op) == work.todo # <<>> /\ Head(work.todo).op = op
Target == Head(work.todo).file
Rest == Tail(work.todo)
Advance == work' = [work EXCEPT !.todo = Rest]

Recorded == [original |-> files, completed |-> FALSE]

CreateJournal ==
    /\ Doing("create") /\ Advance
    /\ journal' = Torn
    /\ UNCHANGED <<files, saved, open, past>>

RecordJournal ==
    /\ Doing("record") /\ Advance
    /\ journal' = Recorded
    /\ UNCHANGED <<files, saved, open, past>>

Move ==
    /\ Doing("move")
    /\ saved' = [saved EXCEPT ![Target] = files[Target]]
    /\ files' = [files EXCEPT ![Target] = None]
    /\ work' = [work EXCEPT !.todo = Rest,
                   !.undo = IF files[Target] = None THEN @ ELSE <<Target>> \o @]
    /\ UNCHANGED <<journal, open, past>>

Install ==
    /\ Doing("install")
    /\ files' = [files EXCEPT ![Target] = Bundle[Target]]
    /\ work' = [work EXCEPT !.todo = Rest, !.installed = Append(@, Target)]
    /\ UNCHANGED <<saved, journal, open, past>>

\* From here on the restore is not undone any more.
Verify ==
    /\ Doing("verify")
    /\ files' = [files EXCEPT !.wal = None]
    /\ work' = [work EXCEPT !.todo = Rest, !.phase = "restored"]
    /\ UNCHANGED <<saved, journal, open, past>>

Complete ==
    /\ Doing("complete") /\ Advance
    /\ journal' = [journal EXCEPT !.completed = TRUE]
    /\ UNCHANGED <<files, saved, open, past>>

\* The saved files are removed in no particular order.
Clean ==
    /\ Doing("clean")
    /\ \/ \E f \in File :
            /\ saved[f] # None
            /\ saved' = [saved EXCEPT ![f] = None]
            /\ UNCHANGED work
       \/ saved = NoFiles /\ Advance /\ UNCHANGED saved
    /\ UNCHANGED <<files, journal, open, past>>

RemoveJournal ==
    /\ Doing("remove") /\ Advance
    /\ journal' = None
    /\ UNCHANGED <<files, saved, open, past>>

Delete ==
    /\ Doing("delete") /\ Advance
    /\ files' = [files EXCEPT ![Target] = None]
    /\ UNCHANGED <<saved, journal, open, past>>

\* rename of a saved file back to its place; it fails when there is none.
Return ==
    /\ Doing("return")
    /\ IF saved[Target] = None
       THEN work' = Idle /\ UNCHANGED <<files, saved>>
       ELSE /\ files' = [files EXCEPT ![Target] = saved[Target]]
            /\ saved' = [saved EXCEPT ![Target] = None]
            /\ Advance
    /\ UNCHANGED <<journal, open, past>>

\* copyFile: the file is there before its content is.
Copy ==
    /\ Doing("copy") /\ Advance
    /\ files' = [files EXCEPT ![Target] = Torn]
    /\ UNCHANGED <<saved, journal, open, past>>

Copied ==
    /\ Doing("copied") /\ Advance
    /\ files' = [files EXCEPT ![Target] = saved[Target]]
    /\ UNCHANGED <<saved, journal, open, past>>

\* The guard and the lease are released whatever happened.
Release ==
    /\ ~Free /\ work.todo = <<>>
    /\ work' = Idle
    /\ UNCHANGED <<files, saved, journal, open, past>>

FileStep ==
    \/ Release
    \/ CreateJournal \/ RecordJournal \/ Move \/ Install \/ Verify \/ Complete
    \/ Clean \/ RemoveJournal \/ Delete \/ Return \/ Copy \/ Copied

-----------------------------------------------------------------------------
(* Failures.  An exception before the pair is verified is undone in        *)
(* reverse; a failed rename is undone too, although it moved nothing.      *)

\* Mutant: the files are returned in the order in which they were moved.
MutantUndoSteps(moved) ==
    DoAll("return", moved) \o DoAll("delete", work.installed)
        \o KernelOnly(<<Do("remove", "journal")>>)
UndoSteps(moved) ==
    DoAll("delete", work.installed) \o DoAll("return", moved)
        \o (IF journal = None THEN <<>> ELSE <<Do("remove", "journal")>>)

Undo(moved) ==
    work' = [work EXCEPT !.phase = "undoing", !.todo = UndoSteps(moved)]

Fail ==
    /\ faults < MaxFaults /\ work.todo # <<>>
    /\ CASE work.phase = "restoring" ->
                \/ Undo(work.undo)
                \/ /\ Doing("move") /\ files[Target] # None
                   /\ Undo(<<Target>> \o work.undo)
         [] OTHER -> work' = Idle
    /\ faults' = faults + 1
    /\ UNCHANGED <<files, saved, journal, open, commits, forgets, from, goal, kernel>>

Crash ==
    /\ work # Idle /\ faults < MaxFaults
    /\ work' = Idle
    /\ faults' = faults + 1
    /\ UNCHANGED <<files, saved, journal, open, commits, forgets, from, goal, kernel>>

-----------------------------------------------------------------------------
(* recoverInterruptedProjectStateRestore.                                  *)

Readable == journal \notin {None, Torn}

OriginalFound(f) ==
    /\ files[f] \in {None, journal.original[f], Bundle[f]}
    /\ IF journal.original[f] = None
       THEN saved[f] = None
       ELSE journal.original[f] \in {saved[f], files[f]}

\* Mutant: a cleanup that was interrupted is not expected.
MutantAccepted ==
    IF journal.completed
    THEN /\ files.db = Bundle.db /\ files.brief = Bundle.brief
         /\ \A f \in File : saved[f] = journal.original[f]
    ELSE \A f \in File : OriginalFound(f)
Accepted ==
    IF journal.completed
    THEN /\ files.db = Bundle.db /\ files.brief = Bundle.brief
         /\ \A f \in File : saved[f] \in {None, journal.original[f]}
    ELSE \A f \in File : OriginalFound(f)

\* Mutant: a file that was never moved is cleared away too.
MutantBringBack(f) ==
    <<Do("delete", f)>> \o
    IF journal.original[f] # None /\ saved[f] = journal.original[f]
    THEN <<Do("copy", f), Do("copied", f)>>
    ELSE <<>>
BringBack(f) ==
    IF journal.original[f] = None THEN <<Do("delete", f)>>
    ELSE IF saved[f] = journal.original[f]
         THEN <<Do("delete", f), Do("copy", f), Do("copied", f)>>
         ELSE <<>>

RecoverySteps ==
    IF journal.completed
    THEN <<Do("clean", "saved"), Do("remove", "journal")>>
    ELSE BringBack("db") \o BringBack("wal") \o BringBack("brief")
             \o <<Do("remove", "journal"), Do("clean", "saved")>>

Recover ==
    /\ work = Idle /\ ~open
    /\ Readable /\ Accepted
    /\ work' = [Idle EXCEPT !.phase = "recovering", !.todo = RecoverySteps]
    /\ UNCHANGED <<files, saved, journal, open, past>>

-----------------------------------------------------------------------------
Session == OpenSession \/ Commit \/ CloseSession \/ SessionCrash
Next == Session \/ Preview \/ Begin \/ FileStep \/ Fail \/ Crash \/ Recover

Spec == Init /\ [][Next]_vars

(* A call runs to its end unless its process dies, and the user of a       *)
(* project that refuses to open asks for recovery.                         *)
FairSpec == Spec /\ WF_vars(FileStep) /\ WF_vars(Recover)

-----------------------------------------------------------------------------
(* Properties.                                                             *)

TypeOK ==
    /\ files \in Contents /\ saved \in Contents
    /\ journal \in Record \cup {None, Torn}
    /\ work.phase \in {"idle", "planned", "restoring", "restored", "undoing", "recovering"}
    /\ work.plan \in Contents
    /\ open \in BOOLEAN
    /\ commits \in Content /\ forgets \subseteq 1..commits
    /\ from \in Content \cup {None, Torn} /\ goal \in Content
    /\ faults \in 0..MaxFaults

(* Until a restore is complete, each file it replaces is still there, in   *)
(* its place or aside, whatever was interrupted how often.                 *)
OriginalKept ==
    Readable /\ ~(Readable /\ journal.completed) =>
        \A f \in File : journal.original[f] \in {files[f], saved[f], None}

Settled == journal = None

(* A project without a journal has a database and the Brief of that very   *)
(* database: no half of a pair is ever open to be read or written.  (An    *)
(* earlier schema's restore has no journal and can leave one.)             *)
WholePair == kernel /\ Settled => Healthy

(* What the user made the project forget never comes back with a backup.   *)
NeverResurrected == kernel /\ Settled => forgets = Forgotten(Latest)

(* `If either commit fails, both old files are restored': an exception     *)
(* that is undone to the end leaves exactly the files there were.          *)
UndoneIsOriginal ==
    work.phase = "undoing" /\ work.todo = <<>> => files = work.plan

(* An interrupted restore can be recovered, unless the journal itself or a *)
(* file that was copied back is torn: these two are not written beside and *)
(* renamed.                                                                *)
TornCopy == \E f \in File : files[f] = Torn
RecoverableElsewhere ==
    work = Idle /\ Readable /\ ~TornCopy => Accepted

(* A restore that is begun ends, as often as it is interrupted, unless one *)
(* of these two is torn.                                                   *)
RestoreEnds == []<>(journal = None \/ journal = Torn \/ TornCopy)

(* Refinement: a journalled restore is a switch of a whole pair.           *)
Shown(other) == IF ~kernel THEN 0 ELSE IF Settled THEN Latest ELSE other
Switching == INSTANCE PairSwitch WITH
    Pair <- Content,
    Later <- LAMBDA p, q : q > p,
    pair <- Shown(from),
    goal <- Shown(goal),
    settled <- Settled
PairSwitchSpec == Switching!Spec
=============================================================================
