--------------------------- MODULE PrivacyCleanup ---------------------------
(***************************************************************************)
(* The cleanup of controlled copies after a Forget                         *)
(* (kernel-privacy-maintenance.ts): managed backups, the copies an upgrade *)
(* left, and temporary Brief files are listed, and removed or retained one *)
(* by one under the maintenance guard, with a row that lets an interrupted *)
(* cleanup be resumed.                                                     *)
(*                                                                         *)
(* A backup is a directory of several files that verifies only as a whole; *)
(* the other copies are single files.  A file's content is the revision it *)
(* was made of, and whether it was altered since.                          *)
(***************************************************************************)
EXTENDS Integers, FiniteSets

CONSTANTS
    Backup,         \* directories under backups/manual
    Part,           \* the files of a backup
    Migrated,       \* files of kernel-migrations/<run>/
    Temporary,      \* .brief-publish-<uuid>.tmp files
    Forensic,       \* directories under backups/forensic
    None,
    MaxRevision,    \* bound: revisions of the project
    MaxFaults       \* bound: crashes, exceptions and alterations

ASSUME BoundAssumption == MaxRevision \in Nat \ {0} /\ MaxFaults \in Nat
ASSUME PartAssumption == Cardinality(Part) > 1
ASSUME PathAssumption ==
    /\ (Backup \X Part) \cap (Migrated \cup Temporary) = {}
    /\ Migrated \cap Temporary = {} /\ Backup \cap Temporary = {}
    /\ Backup \cap Forensic = {}

VARIABLES
    head,       \* the project's revision
    forgotten,  \* the revision of the last Forget, 0 for none
    pages,      \* do free pages of the database still hold forgotten text?
    disk,       \* the copies on disk
    forensic,   \* the forensic directories that are there, and not empty
    named,      \* history: backups and temporary files there ever were
    row,        \* the row kernel-privacy-cleanup of research_copy_inventory: None, or its
                \* status, action, plan and the set of files completed
    seen,       \* the plan the user was shown last
    work,       \* the call in progress, under the maintenance guard
    faults

vars == <<head, forgotten, pages, disk, forensic, named, row, seen, work, faults>>

File == (Backup \X Part) \cup Migrated \cup Temporary
FilesOf(b) == {b} \X Part
Content == [made : 1..MaxRevision, altered : BOOLEAN]
CopyAction == {"delete", "retire"}
Plan == [revision : 1..MaxRevision, files : SUBSET (File \X Content),
         blocked : SUBSET (Backup \cup Forensic)]
CleanupRow ==
    [status : {"unverified", "removed", "retained"}, action : CopyAction,
     plan : Plan, completed : SUBSET File]
Idle == [phase |-> "idle"]

ASSUME NoneAssumption ==
    None \notin Content \cup Plan \cup CleanupRow \cup (File \X Content)

Present == {f \in File : disk[f] # None}

\* A forensic directory is what a restore made before the project was migrated
\* (recovery.ts:1454) has left; no later operation makes or removes one.
Init ==
    /\ forensic \in SUBSET Forensic
    /\ head = 1 /\ forgotten = 0 /\ pages = FALSE
    /\ disk = [f \in File |-> IF f \in Migrated THEN [made |-> 1, altered |-> FALSE] ELSE None]
    /\ named = {}
    /\ row = None
    /\ seen = None
    /\ work = Idle
    /\ faults = 0

-----------------------------------------------------------------------------
(* The session and other processes.                                        *)

\* A Forget is a canonical commit; SQLite keeps the old text in free pages.  It
\* waits for the guard, but not for a cleanup of its own session, at whose awaits
\* it may come in between: the cleanup owns the guard through the session's
\* connection.  (No await separates the last save from the purge, nor the purge
\* from the end; a Forget in between the former is as one before that save.)
Forget ==
    /\ work = Idle \/ work.phase = "cleaning"
    /\ head < MaxRevision
    /\ head' = head + 1
    /\ forgotten' = head'
    /\ pages' = TRUE
    /\ UNCHANGED <<disk, forensic, named, row, seen, work, faults>>

\* createProjectStateBackup, under the guard: a temporary directory is filled
\* and renamed at the end; here its last file is the one that makes it a backup.
StartBackup(b) ==
    /\ work = Idle
    /\ b \notin named /\ named' = named \cup {b}
    /\ work' = [phase |-> "backup", copy |-> b]
    /\ \E p \in Part : disk' = [disk EXCEPT ![<<b, p>>] = [made |-> head, altered |-> FALSE]]
    /\ UNCHANGED <<head, forgotten, pages, forensic, row, seen, faults>>

PublishBackup ==
    /\ work.phase = "backup"
    /\ disk' = [f \in File |-> IF f \in FilesOf(work.copy)
                               THEN [made |-> head, altered |-> FALSE] ELSE disk[f]]
    /\ work' = Idle
    /\ UNCHANGED <<head, forgotten, pages, forensic, named, row, seen, faults>>

\* A crash between the write of a new Brief file and its rename.
LeaveTemporary(t) ==
    /\ work = Idle /\ faults < MaxFaults
    /\ t \notin named /\ named' = named \cup {t}
    /\ disk' = [disk EXCEPT ![t] = [made |-> head, altered |-> FALSE]]
    /\ faults' = faults + 1
    /\ UNCHANGED <<head, forgotten, pages, forensic, row, seen, work>>

Alter(f) ==
    /\ faults < MaxFaults
    /\ f \in Present /\ ~disk[f].altered
    /\ disk' = [disk EXCEPT ![f].altered = TRUE]
    /\ faults' = faults + 1
    /\ UNCHANGED <<head, forgotten, pages, forensic, named, row, seen, work>>

-----------------------------------------------------------------------------
(* inspectKernelPrivacyCopies.                                             *)

\* verifyManagedRecoveryBundle; an empty directory is no copy.
Verifies(b) ==
    \/ FilesOf(b) \cap Present = {}
    \/ \A f \in FilesOf(b) : disk[f] # None /\ ~disk[f].altered

\* No forensic directory is accepted, whatever it holds.
Blocked == {b \in Backup : ~Verifies(b)} \cup forensic
Listed == Present \ UNION {FilesOf(b) : b \in Backup \cap Blocked}
Inspection ==
    [revision |-> head, files |-> {<<f, disk[f]>> : f \in Listed}, blocked |-> Blocked]

Preview ==
    /\ seen' = Inspection
    /\ seen # seen'
    /\ UNCHANGED <<head, forgotten, pages, disk, forensic, named, row, work, faults>>

-----------------------------------------------------------------------------
(* kernelPrivacyCleanupStatus.                                             *)

\* Mutant: any finished cleanup counts, whatever was forgotten since.
MutantStatus ==
    IF row # None /\ row.status # "unverified"
    THEN IF row.status = "retained" THEN "complete_retained" ELSE "complete"
    ELSE IF forgotten > 0 THEN "cleanup_required" ELSE "not_required"
Status ==
    IF row # None /\ row.status # "unverified" /\ row.plan.revision >= forgotten
    THEN IF row.status = "retained" THEN "complete_retained" ELSE "complete"
    ELSE IF forgotten > 0 THEN "cleanup_required" ELSE "not_required"

-----------------------------------------------------------------------------
(* cleanupKernelPrivacyCopies.                                             *)

Agreed(plan) == plan = Inspection /\ plan.blocked = {}

\* The row is saved before the first file is touched.
Starts(plan, completed, action) ==
    /\ row' = [status |-> "unverified", plan |-> plan, completed |-> completed,
               action |-> action]
    /\ work' = [phase |-> "cleaning", todo |-> plan.files, checked |-> None, removed |-> None]

\* The plan's revision is read first: a Forget while the files are inspected is as
\* one after the row is saved.
StartCleanup(action) ==
    /\ work = Idle /\ forgotten > 0
    /\ seen # None /\ Agreed(seen)
    /\ Starts(seen, {}, action)
    /\ UNCHANGED <<head, forgotten, pages, disk, forensic, named, seen, faults>>

\* The saved plan is followed again from its beginning.
ResumeCleanup ==
    /\ work = Idle /\ forgotten > 0
    /\ row # None
    /\ Starts(row.plan, row.completed, row.action)
    /\ UNCHANGED <<head, forgotten, pages, disk, forensic, named, seen, faults>>

\* Mutant: what is to be retained is only noted.
MutantRemoves(f) == row.action = "delete" /\ f \notin Temporary
Removes(f) == row.action = "delete" \/ f \in Temporary

\* Mutant: a file that is not there is an error.
MutantMissingAccepted == FALSE
MissingAccepted == row.action = "delete"

\* Mutant: whatever is there is removed.
MutantSame(f, content) == disk[f] # None
\* hashFile against the hash in the plan.
Same(f, content) == disk[f] = content

\* The plan is sorted by location: .brief-publish-..., backups/..., then
\* kernel-migrations/...; the order within each of these is left open.
SortsBefore(e, f) ==
    \/ e \in Temporary /\ f \notin Temporary
    \/ e \notin Migrated /\ f \in Migrated

Settle(entry) ==
    work' = [work EXCEPT !.removed = entry[1], !.checked = None, !.todo = @ \ {entry}]

\* The hash is awaited, and then the unlink.  A file that was altered, or that is
\* missing from what is to be retained, ends the call.
CheckFile(f, content) ==
    /\ work.phase = "cleaning" /\ work.removed = None /\ work.checked = None
    /\ <<f, content>> \in work.todo
    /\ ~ \E entry \in work.todo : SortsBefore(entry[1], f)
    /\ \/ /\ Same(f, content)
          /\ IF Removes(f)
             THEN work' = [work EXCEPT !.checked = <<f, disk[f]>>]
             ELSE Settle(<<f, content>>)
       \/ disk[f] = None /\ MissingAccepted /\ Settle(<<f, content>>)
       \/ ~Same(f, content) /\ (disk[f] # None \/ ~MissingAccepted) /\ work' = Idle
    /\ UNCHANGED <<head, forgotten, pages, disk, forensic, named, row, seen, faults>>

\* What is there by now is removed.
RemoveFile ==
    /\ work.phase = "cleaning" /\ work.checked # None
    /\ disk' = [disk EXCEPT ![work.checked[1]] = None]
    /\ Settle(work.checked)
    /\ UNCHANGED <<head, forgotten, pages, forensic, named, row, seen, faults>>

SaveProgress ==
    /\ work.phase = "cleaning" /\ work.removed # None
    /\ row' = [row EXCEPT !.completed = @ \cup {work.removed}]
    /\ work' = [work EXCEPT !.removed = None]
    /\ UNCHANGED <<head, forgotten, pages, disk, forensic, named, seen, faults>>

\* purgeKernelFreePages.
PurgePages ==
    /\ work.phase = "cleaning" /\ work.todo = {}
    /\ work.removed = None /\ work.checked = None
    /\ pages' = FALSE
    /\ work' = [phase |-> "purged"]
    /\ UNCHANGED <<head, forgotten, disk, forensic, named, row, seen, faults>>

Outcome == IF row.action = "delete" THEN "removed" ELSE "retained"

\* The rows of the pre-migration backups are marked in a transaction before this
\* one, which nothing reads.
Finish ==
    /\ work.phase = "purged"
    /\ row' = [row EXCEPT !.status = Outcome]
    /\ work' = Idle
    /\ UNCHANGED <<head, forgotten, pages, disk, forensic, named, seen, faults>>

-----------------------------------------------------------------------------
\* A crash, or an exception that only releases the guard.
Interrupt ==
    /\ work # Idle /\ faults < MaxFaults
    /\ work' = Idle
    /\ faults' = faults + 1
    /\ UNCHANGED <<head, forgotten, pages, disk, forensic, named, row, seen>>

CleanupStep ==
    \/ \E f \in File, content \in Content : CheckFile(f, content)
    \/ RemoveFile \/ SaveProgress \/ PurgePages \/ Finish

Next ==
    \/ Forget
    \/ \E b \in Backup : StartBackup(b)
    \/ PublishBackup
    \/ \E t \in Temporary : LeaveTemporary(t)
    \/ \E f \in File : Alter(f)
    \/ Preview
    \/ \E action \in CopyAction : StartCleanup(action)
    \/ ResumeCleanup
    \/ CleanupStep
    \/ Interrupt

Spec == Init /\ [][Next]_vars

(* A call runs to its end unless it is interrupted; the user of a project  *)
(* that requires a cleanup looks at the copies and tries both to start one *)
(* that deletes and to resume the last.                                    *)
FairSpec ==
    /\ Spec
    /\ WF_vars(CleanupStep) /\ WF_vars(PublishBackup)
    /\ WF_vars(Preview)
    /\ SF_vars(StartCleanup("delete"))
    /\ SF_vars(ResumeCleanup /\ Status = "cleanup_required")

-----------------------------------------------------------------------------
(* Properties.                                                             *)

(* Complete means erased: no controlled copy from before the last Forget is*)
(* left, nor a free page with its text.  The user may have chosen to retain*)
(* older copies: those are the listed ones, not temporary, and a backup's  *)
(* file among them was unaltered when it was listed.                       *)
Retained(f) ==
    \E content \in Content :
        /\ <<f, content>> \in row.plan.files
        /\ content.made = disk[f].made
        /\ f \in Backup \X Part => ~content.altered
CompleteIsErased ==
    Status \in {"complete", "complete_retained"} =>
        /\ ~pages /\ forensic = {}
        /\ \A f \in Present : disk[f].made < forgotten =>
              Status = "complete_retained" /\ f \notin Temporary /\ Retained(f)

(* The saved list is true of the disk: what it says is done is gone.       *)
CompletedIsGone ==
    row # None /\ row.action = "delete" => row.completed \cap Present = {}

(* What a cleanup removes is the copy that the saved row lists, found just *)
(* before as it was listed.  Only if it was altered since, between the hash*)
(* and the unlink, is other content lost; no other copy is ever removed.   *)
RemovedAsListed ==
    [][\A f \in Present : disk'[f] = None =>
            \E content \in Content :
                /\ work.phase = "cleaning" /\ work.checked = <<f, content>>
                /\ row # None /\ <<f, content>> \in row.plan.files
                /\ disk[f].made = content.made
                /\ disk[f] # content => disk[f].altered]_vars

(* After a Forget the cleanup is completed, as often as it is interrupted, *)
(* unless a copy was altered, a crashed backup left its directory, or there*)
(* is a forensic directory: these the cleanup refuses to touch.            *)
Planned(b) == row # None /\ \E entry \in row.plan.files : entry[1] \in FilesOf(b)
Untouchable ==
    \/ \E f \in Present : disk[f].altered
    \/ \E b \in Backup \cap Blocked : ~Planned(b)
    \/ forensic # {}
CleanupEnds ==
    Status = "cleanup_required" ~> Status # "cleanup_required" \/ Untouchable
=============================================================================
