------------------------ MODULE PrivacyCleanupProofs ------------------------
(***************************************************************************)
(* Proofs about PrivacyCleanup, for any backups, parts, files and bounds.  *)
(***************************************************************************)
EXTENDS PrivacyCleanup, TLAPS

IdleWork == [phase : {"idle"}]
BackupWork == [phase : {"backup"}, copy : Backup]
CleaningWork ==
    [phase : {"cleaning"}, todo : SUBSET (File \X Content),
     checked : (File \X Content) \cup {None}, removed : File \cup {None}]
PurgedWork == [phase : {"purged"}]

TypeInv ==
    /\ head \in 1..MaxRevision
    /\ forgotten \in 0..head
    /\ pages \in BOOLEAN
    /\ disk \in [File -> Content \cup {None}]
    /\ forensic \in SUBSET Forensic
    /\ row \in CleanupRow \cup {None}
    /\ seen \in Plan \cup {None}
    /\ work \in IdleWork \cup BackupWork \cup CleaningWork \cup PurgedWork

\* A backup or a temporary file appears once: what was not named is not there.
Known(f) ==
    \/ f \in Migrated
    \/ f \in Temporary /\ f \in named
    \/ \E b \in Backup : f \in FilesOf(b) /\ b \in named

\* A file of the saved plan.
InPlan(f) == \E c \in Content : <<f, c>> \in row.plan.files

(* Whatever is on disk or in the plan was named before, and a backup being *)
(* made is in no plan: no planned file ever comes back.                    *)
NamedInv ==
    /\ \A f \in Present : Known(f)
    /\ row # None => \A f \in File : InPlan(f) => Known(f)
    /\ work.phase = "backup" => work.copy \in named
    /\ work.phase = "backup" /\ row # None =>
          \A f \in FilesOf(work.copy) : ~InPlan(f)

(* No cleanup starts while there is a forensic directory; the plan lists   *)
(* every older file, and a list of completed files that says*)
(* deleted is true.                                                        *)
PlanInv ==
    row # None =>
        /\ forensic = {}
        /\ row.plan.revision <= head
        /\ \A f \in Present : disk[f].made < row.plan.revision => InPlan(f)
        /\ \A f \in row.completed : InPlan(f)
        /\ row.action = "delete" => \A f \in row.completed : disk[f] = None

(* The files to be removed that are no longer to do are removed.           *)
WorkInv ==
    /\ work.phase \in {"cleaning", "purged"} => row # None /\ row.status = "unverified"
    /\ work.phase = "cleaning" =>
          /\ work.todo \subseteq row.plan.files
          /\ \A f \in File, c \in Content :
                <<f, c>> \in row.plan.files \ work.todo /\ Removes(f) => disk[f] = None
          /\ work.checked # None =>
                work.checked \in work.todo /\ Removes(work.checked[1]) /\ work.removed = None
          /\ work.removed # None =>
                InPlan(work.removed) /\ (row.action = "delete" => disk[work.removed] = None)
    /\ work.phase = "purged" =>
          ~pages /\ \A f \in File : InPlan(f) /\ Removes(f) => disk[f] = None

(* A finished cleanup no later than the last Forget has left nothing.      *)
DoneInv ==
    row # None /\ row.status # "unverified" =>
        /\ row.status = Outcome
        /\ row.plan.revision >= forgotten => ~pages
        /\ \A f \in File : InPlan(f) /\ Removes(f) => disk[f] = None

IInv == TypeInv /\ NamedInv /\ PlanInv /\ WorkInv /\ DoneInv

-----------------------------------------------------------------------------
LEMMA InitEstablishes == Init => IInv
<1> SUFFICES ASSUME Init PROVE IInv
  OBVIOUS
<1>1. TypeInv
  <2>1. [made |-> 1, altered |-> FALSE] \in Content
    BY BoundAssumption DEF Content
  <2>2. disk \in [File -> Content \cup {None}]
    BY <2>1 DEF Init
  <2>3. work \in IdleWork
    BY DEF Init, Idle, IdleWork
  <2>4. head \in 1..MaxRevision /\ forgotten \in 0..head
    BY BoundAssumption DEF Init
  <2> QED
    BY <2>2, <2>3, <2>4 DEF Init, TypeInv
<1>2. \A f \in Present : f \in Migrated
  BY DEF Init, Present
<1>3. work.phase = "idle"
  BY DEF Init, Idle
<1> QED
  BY <1>1, <1>2, <1>3 DEF Init, IInv, NamedInv, Known, PlanInv, WorkInv, DoneInv

\* The four shapes of work.
LEMMA Phases ==
    ASSUME TypeInv
    PROVE  /\ work = Idle <=> work.phase = "idle"
           /\ work.phase = "backup" => work.copy \in Backup
           /\ work.phase = "cleaning" =>
                 /\ work \in CleaningWork
                 /\ work.todo \subseteq File \X Content /\ work.removed \in File \cup {None}
                 /\ work.checked \in (File \X Content) \cup {None}
           /\ Idle \in IdleWork /\ Idle.phase = "idle"
BY DEF TypeInv, IdleWork, BackupWork, CleaningWork, PurgedWork, Idle

\* What a row is made of.
LEMMA Rows ==
    ASSUME TypeInv, row # None
    PROVE  /\ row \in CleanupRow
           /\ row.plan.files \subseteq File \X Content
           /\ row.plan.revision \in Nat
           /\ row.completed \subseteq File
           /\ row.action \in CopyAction
BY BoundAssumption DEF TypeInv, CleanupRow, Plan

\* A step that leaves the row alone and brings back no planned file keeps what
\* the row says.
LEMMA PlanKept ==
    ASSUME TypeInv, PlanInv, UNCHANGED <<row, forensic>>, TypeInv', head <= head',
           row # None => \A f \in File :
               /\ InPlan(f) /\ disk[f] = None => disk'[f] = None
               /\ disk'[f] # None =>
                     \/ disk'[f].made >= head
                     \/ disk[f] # None /\ disk'[f].made = disk[f].made
    PROVE  PlanInv'
<1> SUFFICES ASSUME row # None
             PROVE  /\ forensic = {} /\ row.plan.revision <= head'
                    /\ \A f \in Present' : disk'[f].made < row.plan.revision => InPlan(f)
                    /\ \A f \in row.completed : InPlan(f)
                    /\ row.action = "delete" => \A f \in row.completed : disk'[f] = None
  BY DEF PlanInv, InPlan
<1>1. row.plan.revision \in Nat /\ row.completed \subseteq File /\ row.plan.revision <= head
  BY Rows DEF PlanInv
<1>2. head \in Nat /\ head' \in Nat
  BY BoundAssumption DEF TypeInv
<1>3. ASSUME NEW f \in Present', disk'[f].made < row.plan.revision
      PROVE  InPlan(f)
  <2>1. f \in File /\ disk'[f] # None /\ disk'[f] \in Content
    BY DEF Present, TypeInv
  <2>2. disk'[f].made \in Nat
    BY <2>1, BoundAssumption DEF Content
  <2>3. disk[f] # None /\ disk'[f].made = disk[f].made
    BY <1>1, <1>2, <1>3, <2>1, <2>2
  <2> QED
    BY <1>3, <2>1, <2>3 DEF PlanInv, Present
<1> QED
  BY <1>1, <1>2, <1>3 DEF PlanInv

-----------------------------------------------------------------------------
(* One lemma per action.                                                   *)

LEMMA ForgetKeeps ==
    ASSUME IInv, Forget
    PROVE  IInv'
<1>1. /\ head \in Nat /\ head + 1 \in 1..MaxRevision /\ head' = head + 1
      /\ forgotten' = head + 1 /\ pages' = TRUE /\ work.phase \in {"idle", "cleaning"}
      /\ UNCHANGED <<disk, forensic, named, row, seen, work>>
  BY BoundAssumption, Phases DEF IInv, TypeInv, Forget
<1>2. TypeInv'
  BY <1>1 DEF IInv, TypeInv
<1>3. NamedInv'
  BY <1>1 DEF IInv, NamedInv, Known, Present, InPlan
<1>4. PlanInv'
  BY <1>1, <1>2, PlanKept DEF IInv
<1>5. WorkInv'
  BY <1>1 DEF IInv, WorkInv, Removes, InPlan
<1>6. DoneInv'
  <2> SUFFICES ASSUME row # None, row.status # "unverified"
               PROVE  /\ row.status = Outcome
                      /\ ~(row.plan.revision >= head + 1)
                      /\ \A f \in File : InPlan(f) /\ Removes(f) => disk[f] = None
    BY <1>1 DEF DoneInv, Outcome, InPlan, Removes
  <2>1. row.plan.revision \in Nat /\ row.plan.revision <= head
    BY Rows DEF IInv, PlanInv
  <2> QED
    BY <1>1, <2>1 DEF IInv, DoneInv
<1> QED
  BY <1>2, <1>3, <1>4, <1>5, <1>6 DEF IInv

\* What is true of the row's planned files while nothing removed comes back.
LEMMA RestKept ==
    ASSUME WorkInv, DoneInv, UNCHANGED <<row, pages, forgotten>>,
           TypeInv, PlanInv, UNCHANGED work \/ work' = Idle \/ work'.phase = "backup",
           row # None => \A f \in File : InPlan(f) /\ disk[f] = None => disk'[f] = None
    PROVE  WorkInv' /\ DoneInv'
<1>1. DoneInv'
  BY DEF DoneInv, InPlan, Removes, Outcome
<1>2. CASE UNCHANGED work
  <2>1. ASSUME row # None, work.phase = "cleaning",
               NEW f \in File, NEW c \in Content,
               <<f, c>> \in row.plan.files \ work.todo, Removes(f)
        PROVE  disk'[f] = None
    <3>1. InPlan(f)
      BY <2>1 DEF InPlan
    <3> QED
      BY <2>1, <3>1 DEF WorkInv
  <2>2. ASSUME row # None, work.phase = "cleaning", work.removed # None
        PROVE  InPlan(work.removed) /\ (row.action = "delete" => disk'[work.removed] = None)
    <3>1. work.removed \in File
      BY <2>2, Phases
    <3> QED
      BY <2>2, <3>1 DEF WorkInv
  <2> QED
    BY <1>1, <1>2, <2>1, <2>2 DEF WorkInv, InPlan, Removes
<1>3. CASE work' = Idle \/ work'.phase = "backup"
  BY <1>1, <1>3 DEF WorkInv, Idle
<1> QED
  BY <1>1, <1>2, <1>3

LEMMA StartBackupKeeps ==
    ASSUME IInv, NEW b \in Backup, StartBackup(b)
    PROVE  IInv'
<1> PICK p \in Part : disk' = [disk EXCEPT ![<<b, p>>] = [made |-> head, altered |-> FALSE]]
  BY DEF StartBackup
<1>1. /\ work.phase = "idle" /\ work' = [phase |-> "backup", copy |-> b]
      /\ b \notin named /\ named' = named \cup {b}
      /\ UNCHANGED <<head, forgotten, pages, forensic, row, seen>>
  BY Phases DEF IInv, StartBackup
<1>2. <<b, p>> \in FilesOf(b) /\ <<b, p>> \in File
  BY DEF FilesOf, File
<1>3. [made |-> head, altered |-> FALSE] \in Content
  BY DEF IInv, TypeInv, Content
<1>4. disk' \in [File -> Content \cup {None}]
  BY <1>2, <1>3 DEF IInv, TypeInv
<1>5. work' \in BackupWork
  BY <1>1 DEF BackupWork
<1>6. TypeInv'
  BY <1>1, <1>4, <1>5 DEF IInv, TypeInv
<1>7. \A f \in FilesOf(b) : ~Known(f)
  BY <1>1, PathAssumption DEF Known, FilesOf
<1>8. \A f \in File : Known(f) => Known(f)'
  BY <1>1 DEF Known
<1>9. \A f \in Present' : Known(f)'
  <2>1. Known(<<b, p>>)'
    BY <1>1, <1>2 DEF Known
  <2>2. \A f \in File : f # <<b, p>> => disk'[f] = disk[f]
    BY DEF IInv, TypeInv
  <2> QED
    BY <1>8, <2>1, <2>2 DEF IInv, NamedInv, Present
<1>10. row # None => \A f \in FilesOf(b) : ~InPlan(f)
  BY <1>7 DEF IInv, NamedInv, File, FilesOf
<1>11. NamedInv'
  BY <1>1, <1>8, <1>9, <1>10 DEF IInv, NamedInv, InPlan
<1>12. row # None => \A f \in File :
         /\ InPlan(f) => disk'[f] = disk[f]
         /\ disk'[f] # None => disk'[f] = disk[f] \/ disk'[f].made = head
  BY <1>2, <1>10 DEF IInv, TypeInv
<1>13. head \in Nat
  BY BoundAssumption DEF IInv, TypeInv
<1>14. PlanInv'
  BY <1>1, <1>6, <1>12, <1>13, PlanKept DEF IInv
<1>15. WorkInv' /\ DoneInv'
  BY <1>1, <1>12, RestKept DEF IInv
<1> QED
  BY <1>6, <1>11, <1>14, <1>15 DEF IInv

LEMMA PublishBackupKeeps ==
    ASSUME IInv, PublishBackup
    PROVE  IInv'
<1>1. /\ work.phase = "backup" /\ work.copy \in Backup /\ work' = Idle
      /\ disk' = [f \in File |-> IF f \in FilesOf(work.copy)
                                THEN [made |-> head, altered |-> FALSE] ELSE disk[f]]
      /\ UNCHANGED <<head, forgotten, pages, forensic, named, row, seen>>
  BY Phases DEF IInv, PublishBackup
<1>3. [made |-> head, altered |-> FALSE] \in Content
  BY DEF IInv, TypeInv, Content
<1>4. disk' \in [File -> Content \cup {None}]
  BY <1>1, <1>3 DEF IInv, TypeInv
<1>6. TypeInv'
  BY <1>1, <1>4, Phases DEF IInv, TypeInv
<1>9. \A f \in Present' : Known(f)'
  <2>1. work.copy \in named
    BY <1>1 DEF IInv, NamedInv
  <2> QED
    BY <1>1, <2>1 DEF IInv, NamedInv, Present, Known
<1>10. row # None => \A f \in FilesOf(work.copy) : ~InPlan(f)
  BY <1>1 DEF IInv, NamedInv
<1>11. NamedInv'
  BY <1>1, <1>9 DEF IInv, NamedInv, InPlan, Known, Idle
<1>12. row # None => \A f \in File :
         /\ InPlan(f) => disk'[f] = disk[f]
         /\ disk'[f] # None => disk'[f] = disk[f] \/ disk'[f].made = head
  BY <1>1, <1>10 DEF IInv, TypeInv
<1>13. head \in Nat
  BY BoundAssumption DEF IInv, TypeInv
<1>14. PlanInv'
  BY <1>1, <1>6, <1>12, <1>13, PlanKept DEF IInv
<1>15. WorkInv' /\ DoneInv'
  BY <1>1, <1>12, RestKept DEF IInv
<1> QED
  BY <1>6, <1>11, <1>14, <1>15 DEF IInv

LEMMA LeaveTemporaryKeeps ==
    ASSUME IInv, NEW t \in Temporary, LeaveTemporary(t)
    PROVE  IInv'
<1>1. /\ work.phase = "idle"
      /\ t \notin named /\ named' = named \cup {t}
      /\ disk' = [disk EXCEPT ![t] = [made |-> head, altered |-> FALSE]]
      /\ UNCHANGED <<head, forgotten, pages, forensic, row, seen, work>>
  BY Phases DEF IInv, LeaveTemporary
<1>2. t \in File
  BY DEF File
<1>3. [made |-> head, altered |-> FALSE] \in Content
  BY DEF IInv, TypeInv, Content
<1>4. disk' \in [File -> Content \cup {None}]
  BY <1>1, <1>2, <1>3 DEF IInv, TypeInv
<1>6. TypeInv'
  BY <1>1, <1>4 DEF IInv, TypeInv
<1>7. ~Known(t)
  BY <1>1, PathAssumption DEF Known, FilesOf
<1>8. \A f \in File : Known(f) => Known(f)'
  BY <1>1 DEF Known
<1>9. \A f \in Present' : Known(f)'
  <2>1. Known(t)'
    BY <1>1 DEF Known
  <2>2. \A f \in File : f # t => disk'[f] = disk[f]
    BY <1>1 DEF IInv, TypeInv
  <2> QED
    BY <1>8, <2>1, <2>2 DEF IInv, NamedInv, Present
<1>10. row # None => ~InPlan(t)
  BY <1>2, <1>7 DEF IInv, NamedInv
<1>11. NamedInv'
  BY <1>1, <1>8, <1>9 DEF IInv, NamedInv, InPlan
<1>12. row # None => \A f \in File :
         /\ InPlan(f) => disk'[f] = disk[f]
         /\ disk'[f] # None => disk'[f] = disk[f] \/ disk'[f].made = head
  BY <1>1, <1>2, <1>10 DEF IInv, TypeInv
<1>13. head \in Nat
  BY BoundAssumption DEF IInv, TypeInv
<1>14. PlanInv'
  BY <1>1, <1>6, <1>12, <1>13, PlanKept DEF IInv
<1>15. WorkInv' /\ DoneInv'
  BY <1>1, <1>12, RestKept DEF IInv
<1> QED
  BY <1>6, <1>11, <1>14, <1>15 DEF IInv

LEMMA AlterKeeps ==
    ASSUME IInv, NEW f \in File, Alter(f)
    PROVE  IInv'
<1>1. /\ disk[f] # None /\ disk' = [disk EXCEPT ![f].altered = TRUE]
      /\ UNCHANGED <<head, forgotten, pages, forensic, named, row, seen, work>>
  BY DEF Alter, Present
<1>2. disk[f] \in Content
  BY <1>1 DEF IInv, TypeInv
<1>3. [disk[f] EXCEPT !.altered = TRUE] \in Content
  BY <1>2 DEF Content
<1>4. [disk[f] EXCEPT !.altered = TRUE].made = disk[f].made
  BY <1>2 DEF Content
<1>5. \A g \in File :
         /\ disk'[g] = None <=> disk[g] = None
         /\ disk'[g] # None => disk[g] # None /\ disk'[g].made = disk[g].made
  BY <1>1, <1>3, <1>4, NoneAssumption DEF IInv, TypeInv
<1>6. TypeInv'
  <2>1. disk' \in [File -> Content \cup {None}]
    BY <1>1, <1>3 DEF IInv, TypeInv
  <2> QED
    BY <1>1, <2>1 DEF IInv, TypeInv
<1>7. NamedInv'
  BY <1>1, <1>5 DEF IInv, NamedInv, Present, Known, InPlan
<1>8. head \in Nat
  BY BoundAssumption DEF IInv, TypeInv
<1>9. PlanInv'
  BY <1>1, <1>5, <1>6, <1>8, PlanKept DEF IInv
<1>10. WorkInv' /\ DoneInv'
  BY <1>1, <1>5, RestKept DEF IInv
<1> QED
  BY <1>6, <1>7, <1>9, <1>10 DEF IInv

\* What an inspection finds is a plan.
LEMMA InspectionIsPlan ==
    ASSUME TypeInv
    PROVE  /\ Inspection \in Plan
           /\ Inspection.revision = head
           /\ Inspection.files = {<<f, disk[f]>> : f \in Listed}
           /\ Inspection.blocked = Blocked
           /\ Listed \subseteq Present
<1>1. Listed \subseteq Present /\ Present \subseteq File
  BY DEF Listed, Present
<1>2. {<<f, disk[f]>> : f \in Listed} \subseteq File \X Content
  BY <1>1 DEF Present, TypeInv
<1>3. Blocked \subseteq Backup \cup Forensic
  BY DEF Blocked, TypeInv
<1> QED
  BY <1>1, <1>2, <1>3 DEF Inspection, Plan, TypeInv

LEMMA PreviewKeeps ==
    ASSUME IInv, Preview
    PROVE  IInv'
<1>1. seen' \in Plan /\ UNCHANGED <<head, forgotten, pages, disk, forensic, named, row, work>>
  BY InspectionIsPlan DEF IInv, Preview
<1>2. TypeInv'
  BY <1>1 DEF IInv, TypeInv
<1>3. NamedInv' /\ PlanInv'
  BY <1>1 DEF IInv, NamedInv, PlanInv, Known, Present, InPlan
<1>4. WorkInv' /\ DoneInv'
  BY <1>1 DEF IInv, WorkInv, DoneInv, Removes, Outcome, InPlan
<1> QED
  BY <1>2, <1>3, <1>4 DEF IInv

\* The first steps of a new or resumed cleanup.
LEMMA StartsTypes ==
    ASSUME TypeInv, NEW plan \in Plan, NEW completed \in SUBSET File,
           NEW action \in CopyAction, Starts(plan, completed, action),
           UNCHANGED <<head, forgotten, pages, disk, forensic, seen>>
    PROVE  /\ TypeInv'
           /\ row' # None
           /\ row'.status = "unverified" /\ row'.plan = plan
           /\ row'.completed = completed /\ row'.action = action
           /\ work'.phase = "cleaning" /\ work'.todo = plan.files
           /\ work'.removed = None /\ work'.checked = None
<1>1. row' \in CleanupRow /\ row' # None
  BY NoneAssumption DEF Starts, CleanupRow
<1>2. work' \in CleaningWork
  BY DEF Starts, CleaningWork, Plan
<1>3. TypeInv'
  BY <1>1, <1>2 DEF TypeInv
<1> QED
  BY <1>1, <1>3 DEF Starts

LEMMA StartCleanupKeeps ==
    ASSUME IInv, NEW action \in CopyAction, StartCleanup(action)
    PROVE  IInv'
<1>1. /\ seen \in Plan /\ seen = Inspection /\ seen.blocked = {} /\ Blocked = {} /\ forensic = {}
      /\ Starts(seen, {}, action)
      /\ UNCHANGED <<head, forgotten, pages, disk, forensic, named, seen>>
  BY InspectionIsPlan DEF IInv, TypeInv, StartCleanup, Agreed, Blocked
<1>2. /\ TypeInv' /\ row' # None
      /\ row'.status = "unverified" /\ row'.plan = seen
      /\ row'.completed = {} /\ row'.action = action
      /\ work'.phase = "cleaning" /\ work'.todo = seen.files
      /\ work'.removed = None /\ work'.checked = None
  BY <1>1, StartsTypes DEF IInv
<1>3. Listed = Present
  BY <1>1 DEF Listed
<1>4. seen.files = {<<f, disk[f]>> : f \in Present} /\ seen.revision = head
  BY <1>1, <1>3, InspectionIsPlan DEF IInv
<1>5. \A f \in File : InPlan(f)' <=> f \in Present
  <2>1. \A f \in Present : f \in File /\ disk[f] \in Content
    BY DEF IInv, TypeInv, Present
  <2> QED
    BY <1>2, <1>4, <2>1 DEF InPlan
<1>6. NamedInv'
  BY <1>1, <1>2, <1>5 DEF IInv, NamedInv, Known, Present
<1>7. PlanInv'
  <2>1. head \in Nat
    BY BoundAssumption DEF IInv, TypeInv
  <2>2. Present' = Present /\ Present \subseteq File
    BY <1>1 DEF Present
  <2> QED
    BY <1>1, <1>2, <1>4, <1>5, <2>1, <2>2 DEF PlanInv
<1>8. WorkInv'
  BY <1>2 DEF WorkInv
<1>9. DoneInv'
  BY <1>2 DEF DoneInv
<1> QED
  BY <1>2, <1>6, <1>7, <1>8, <1>9 DEF IInv

LEMMA ResumeCleanupKeeps ==
    ASSUME IInv, ResumeCleanup
    PROVE  IInv'
<1>1. /\ row # None /\ row \in CleanupRow /\ row.plan \in Plan
      /\ row.completed \in SUBSET File /\ row.action \in CopyAction
      /\ Starts(row.plan, row.completed, row.action)
      /\ UNCHANGED <<head, forgotten, pages, disk, forensic, named, seen>>
  BY Rows DEF IInv, ResumeCleanup, CleanupRow
<1>2. /\ TypeInv' /\ row' # None
      /\ row'.status = "unverified" /\ row'.plan = row.plan
      /\ row'.completed = row.completed /\ row'.action = row.action
      /\ work'.phase = "cleaning" /\ work'.todo = row.plan.files
      /\ work'.removed = None /\ work'.checked = None
  BY <1>1, StartsTypes DEF IInv
<1>3. NamedInv' /\ PlanInv'
  BY <1>1, <1>2 DEF IInv, NamedInv, PlanInv, Known, Present, InPlan
<1>4. WorkInv' /\ DoneInv'
  BY <1>2 DEF WorkInv, DoneInv
<1> QED
  BY <1>2, <1>3, <1>4 DEF IInv

\* The files that are no longer to do, when one is settled that is gone or stays.
LEMMA SettleKeeps ==
    ASSUME IInv, NEW f \in File, NEW c \in Content, Settle(<<f, c>>),
           work.phase = "cleaning", <<f, c>> \in work.todo,
           UNCHANGED <<head, forgotten, pages, forensic, named, row, seen>>,
           disk' \in [File -> Content \cup {None}],
           \A g \in File : disk'[g] = disk[g] \/ disk'[g] = None,
           Removes(f) => disk'[f] = None
    PROVE  IInv'
<1>1. work \in CleaningWork /\ row # None /\ row.status = "unverified"
  BY Phases DEF IInv, WorkInv
<1>2. InPlan(f) /\ work.todo \subseteq row.plan.files
  BY DEF IInv, WorkInv, InPlan
<1>3. /\ work'.phase = "cleaning" /\ work'.removed = f /\ work'.checked = None
      /\ work'.todo = work.todo \ {<<f, c>>} /\ work' \in CleaningWork
  <2>1. work' = [work EXCEPT !.removed = f, !.checked = None, !.todo = @ \ {<<f, c>>}]
    BY DEF Settle
  <2> QED
    BY <1>1, <2>1 DEF CleaningWork
<1>4. TypeInv'
  BY <1>3 DEF IInv, TypeInv
<1>5. NamedInv'
  BY <1>3 DEF IInv, NamedInv, Present, Known, InPlan
<1>6. PlanInv'
  <2>1. head \in Nat
    BY BoundAssumption DEF IInv, TypeInv
  <2> QED
    BY <1>4, <2>1, PlanKept DEF IInv
<1>7. ASSUME NEW g \in File, NEW d \in Content,
             <<g, d>> \in row.plan.files \ work'.todo, Removes(g)
      PROVE  disk'[g] = None
  <2>1. CASE <<g, d>> = <<f, c>>
    BY <1>7, <2>1
  <2>2. CASE <<g, d>> # <<f, c>>
    <3>1. <<g, d>> \in row.plan.files \ work.todo
      BY <1>3, <1>7, <2>2
    <3> QED
      BY <1>7, <3>1 DEF IInv, WorkInv
  <2> QED
    BY <2>1, <2>2
<1>8. row.action = "delete" => disk'[f] = None
  BY DEF Removes
<1>9. WorkInv'
  BY <1>1, <1>2, <1>3, <1>7, <1>8 DEF WorkInv, Removes, InPlan
<1>10. DoneInv'
  BY <1>1 DEF DoneInv
<1> QED
  BY <1>4, <1>5, <1>6, <1>9, <1>10 DEF IInv

LEMMA CheckFileKeeps ==
    ASSUME IInv, NEW f \in File, NEW c \in Content, CheckFile(f, c)
    PROVE  IInv'
<1>1. /\ work.phase = "cleaning" /\ work \in CleaningWork
      /\ <<f, c>> \in work.todo /\ work.removed = None
      /\ row # None /\ row.status = "unverified"
      /\ UNCHANGED <<head, forgotten, pages, disk, forensic, named, row, seen>>
  BY Phases DEF IInv, WorkInv, CheckFile
<1>2. disk \in [File -> Content \cup {None}]
  BY DEF IInv, TypeInv
<1>3. CASE Same(f, c) /\ Removes(f) /\ work' = [work EXCEPT !.checked = <<f, disk[f]>>]
  <2>1. /\ work' \in CleaningWork /\ work'.phase = "cleaning" /\ work'.todo = work.todo
        /\ work'.removed = None /\ work'.checked = <<f, c>>
    BY <1>1, <1>3 DEF CleaningWork, Same
  <2>2. TypeInv'
    BY <1>1, <2>1 DEF IInv, TypeInv
  <2>3. NamedInv' /\ PlanInv'
    BY <1>1, <2>1 DEF IInv, NamedInv, PlanInv, Present, Known, InPlan
  <2>4. <<f, c>> # None /\ Removes(f) /\ <<f, c>>[1] = f
    BY <1>3, NoneAssumption
  <2>5. WorkInv'
    BY <1>1, <2>1, <2>4 DEF IInv, WorkInv, Removes, InPlan
  <2>6. DoneInv'
    BY <1>1 DEF DoneInv
  <2> QED
    BY <2>2, <2>3, <2>5, <2>6 DEF IInv
<1>4. CASE Settle(<<f, c>>) /\ (Removes(f) => disk[f] = None)
  BY <1>1, <1>2, <1>4, SettleKeeps
<1>5. CASE work' = Idle
  <2>1. TypeInv'
    BY <1>1, <1>5, Phases DEF IInv, TypeInv
  <2>2. NamedInv' /\ PlanInv'
    BY <1>1, <1>5 DEF IInv, NamedInv, PlanInv, Present, Known, InPlan, Idle
  <2>3. WorkInv' /\ DoneInv'
    BY <1>1, <1>5 DEF WorkInv, DoneInv, Idle
  <2> QED
    BY <2>1, <2>2, <2>3 DEF IInv
<1> QED
  BY <1>3, <1>4, <1>5 DEF CheckFile

LEMMA RemoveFileKeeps ==
    ASSUME IInv, RemoveFile
    PROVE  IInv'
<1>1. PICK f \in File, c \in Content : work.checked = <<f, c>>
  BY Phases DEF IInv, RemoveFile
<1>2. /\ work.phase = "cleaning" /\ <<f, c>> \in work.todo /\ Settle(<<f, c>>)
      /\ disk' = [disk EXCEPT ![f] = None]
      /\ UNCHANGED <<head, forgotten, pages, forensic, named, row, seen>>
  BY <1>1 DEF RemoveFile, IInv, WorkInv
<1>3. /\ disk' \in [File -> Content \cup {None}] /\ disk'[f] = None
      /\ \A g \in File : disk'[g] = disk[g] \/ disk'[g] = None
  BY <1>2 DEF IInv, TypeInv
<1> QED
  BY <1>2, <1>3, SettleKeeps

LEMMA SaveProgressKeeps ==
    ASSUME IInv, SaveProgress
    PROVE  IInv'
<1>1. /\ work.phase = "cleaning" /\ work \in CleaningWork /\ work.removed # None
      /\ row # None /\ row \in CleanupRow /\ row.status = "unverified"
      /\ row' = [row EXCEPT !.completed = @ \cup {work.removed}]
      /\ work' = [work EXCEPT !.removed = None]
      /\ UNCHANGED <<head, forgotten, pages, disk, forensic, named, seen>>
  BY DEF IInv, WorkInv, SaveProgress, TypeInv, IdleWork, BackupWork, CleaningWork, PurgedWork
<1>2. /\ row' \in CleanupRow /\ row' # None
      /\ row'.status = row.status /\ row'.plan = row.plan /\ row'.action = row.action
      /\ row'.completed = row.completed \cup {work.removed}
  BY <1>1, NoneAssumption DEF CleanupRow, CleaningWork
<1>3. /\ work' \in CleaningWork /\ work'.phase = "cleaning" /\ work'.todo = work.todo
      /\ work'.removed = None /\ work'.checked = work.checked
  BY <1>1 DEF CleaningWork
<1>4. TypeInv'
  BY <1>1, <1>2, <1>3 DEF IInv, TypeInv
<1>5. NamedInv'
  BY <1>1, <1>2, <1>3 DEF IInv, NamedInv, Present, Known, InPlan
<1>6. InPlan(work.removed) /\ (row.action = "delete" => disk[work.removed] = None)
  BY <1>1 DEF IInv, WorkInv
<1>7. PlanInv'
  BY <1>1, <1>2, <1>6 DEF IInv, PlanInv, Present, InPlan
<1>8. WorkInv'
  BY <1>1, <1>2, <1>3 DEF IInv, WorkInv, Removes
<1>9. DoneInv'
  BY <1>1, <1>2 DEF DoneInv
<1> QED
  BY <1>4, <1>5, <1>7, <1>8, <1>9 DEF IInv

LEMMA PurgePagesKeeps ==
    ASSUME IInv, PurgePages
    PROVE  IInv'
<1>1. /\ work.phase = "cleaning" /\ work.todo = {}
      /\ pages' = FALSE /\ work' = [phase |-> "purged"]
      /\ row # None /\ row.status = "unverified"
      /\ UNCHANGED <<head, forgotten, disk, forensic, named, row, seen>>
  BY DEF IInv, WorkInv, PurgePages
<1>2. work' \in PurgedWork
  BY <1>1 DEF PurgedWork
<1>3. TypeInv'
  BY <1>1, <1>2 DEF IInv, TypeInv
<1>4. NamedInv' /\ PlanInv'
  BY <1>1 DEF IInv, NamedInv, PlanInv, Present, Known, InPlan
<1>5. \A f \in File : InPlan(f) /\ Removes(f) => disk[f] = None
  BY <1>1 DEF IInv, WorkInv, InPlan
<1>6. WorkInv'
  BY <1>1, <1>5 DEF WorkInv, InPlan, Removes
<1>7. DoneInv'
  BY <1>1 DEF DoneInv
<1> QED
  BY <1>3, <1>4, <1>6, <1>7 DEF IInv

LEMMA FinishKeeps ==
    ASSUME IInv, Finish
    PROVE  IInv'
<1>1. /\ work.phase = "purged" /\ work' = Idle
      /\ row # None /\ row \in CleanupRow
      /\ row' = [row EXCEPT !.status = Outcome]
      /\ UNCHANGED <<head, forgotten, pages, disk, forensic, named, seen>>
  BY DEF IInv, WorkInv, Finish, TypeInv
<1>2. /\ row' \in CleanupRow /\ row' # None
      /\ row'.status = Outcome /\ row'.plan = row.plan /\ row'.action = row.action
      /\ row'.completed = row.completed
  BY <1>1, NoneAssumption DEF CleanupRow, Outcome
<1>3. TypeInv'
  BY <1>1, <1>2, Phases DEF IInv, TypeInv
<1>4. NamedInv'
  BY <1>1, <1>2 DEF IInv, NamedInv, Present, Known, InPlan, Idle
<1>5. PlanInv'
  BY <1>1, <1>2 DEF IInv, PlanInv, Present, InPlan
<1>6. WorkInv'
  BY <1>1 DEF WorkInv, Idle
<1>7. DoneInv'
  BY <1>1, <1>2 DEF IInv, WorkInv, DoneInv, Outcome, InPlan, Removes
<1> QED
  BY <1>3, <1>4, <1>5, <1>6, <1>7 DEF IInv

LEMMA InterruptKeeps ==
    ASSUME IInv, Interrupt
    PROVE  IInv'
<1>1. /\ work' = Idle
      /\ UNCHANGED <<head, forgotten, pages, disk, forensic, named, row, seen>>
  BY DEF Interrupt
<1>2. TypeInv'
  BY <1>1, Phases DEF IInv, TypeInv
<1>3. NamedInv' /\ PlanInv'
  BY <1>1 DEF IInv, NamedInv, PlanInv, Present, Known, InPlan, Idle
<1>4. WorkInv' /\ DoneInv'
  BY <1>1 DEF IInv, WorkInv, DoneInv, Removes, Outcome, InPlan, Idle
<1> QED
  BY <1>2, <1>3, <1>4 DEF IInv

LEMMA NextStep == IInv /\ [Next]_vars => IInv'
<1> SUFFICES ASSUME IInv, [Next]_vars PROVE IInv'
  OBVIOUS
<1>1. CASE Forget
  BY <1>1, ForgetKeeps
<1>2. CASE \E b \in Backup : StartBackup(b)
  BY <1>2, StartBackupKeeps
<1>3. CASE PublishBackup
  BY <1>3, PublishBackupKeeps
<1>4. CASE \E t \in Temporary : LeaveTemporary(t)
  BY <1>4, LeaveTemporaryKeeps
<1>5. CASE \E f \in File : Alter(f)
  BY <1>5, AlterKeeps
<1>6. CASE Preview
  BY <1>6, PreviewKeeps
<1>7. CASE \E action \in CopyAction : StartCleanup(action)
  BY <1>7, StartCleanupKeeps
<1>8. CASE ResumeCleanup
  BY <1>8, ResumeCleanupKeeps
<1>9. CASE RemoveFile \/ \E f \in File, content \in Content : CheckFile(f, content)
  BY <1>9, RemoveFileKeeps, CheckFileKeeps
<1>10. CASE SaveProgress
  BY <1>10, SaveProgressKeeps
<1>11. CASE PurgePages
  BY <1>11, PurgePagesKeeps
<1>12. CASE Finish
  BY <1>12, FinishKeeps
<1>13. CASE Interrupt
  BY <1>13, InterruptKeeps
<1>14. CASE UNCHANGED vars
  <2>1. TypeInv' /\ NamedInv'
    BY <1>14 DEF vars, IInv, TypeInv, NamedInv, Present, Known, InPlan
  <2>2. PlanInv'
    BY <1>14 DEF vars, IInv, PlanInv, Present, Known, InPlan, Removes
  <2>3. WorkInv' /\ DoneInv'
    BY <1>14 DEF vars, IInv, WorkInv, DoneInv, Present, Known, InPlan, Removes, Outcome
  <2> QED
    BY <2>1, <2>2, <2>3 DEF IInv
<1>15. CASE CleanupStep
  BY <1>9, <1>10, <1>11, <1>12, <1>15 DEF CleanupStep
<1>16. CASE Next
  BY <1>1, <1>2, <1>3, <1>4, <1>5, <1>6, <1>7, <1>8, <1>13, <1>15, <1>16, Zenon DEF Next
<1> QED
  BY <1>14, <1>16

-----------------------------------------------------------------------------
(* The theorems.                                                           *)

(* Whatever is interrupted, altered, forgotten again or left over: planned *)
(* files never come back, the row's list of completed files is true, and a *)
(* finished cleanup has left nothing it was to remove.                     *)
THEOREM Invariance == Spec => []IInv
<1> QED
  BY InitEstablishes, NextStep, PTL DEF Spec

(* The saved list of the files cleanupKernelPrivacyCopies has completed is *)
(* true of the disk: what a deleting cleanup lists as done is gone.        *)
THEOREM CompletedIsGoneTheorem == Spec => []CompletedIsGone
<1>1. IInv => CompletedIsGone
  BY DEF IInv, PlanInv, CompletedIsGone, Present
<1> QED
  BY <1>1, Invariance, PTL

-----------------------------------------------------------------------------
(* A cleanup can go on: what liveness rests on.                            *)

(* Only a copy altered since it was listed stops a deletion: what an       *)
(* interrupted one has removed never stops the next.  (A retirement also   *)
(* stops at a temporary file that an interrupted one has removed.)         *)
DeletionStopsOnlyAtAltered ==
    [][\A f \in File, c \in Content :
          CheckFile(f, c) /\ work' = Idle /\ row.action = "delete" => disk[f].altered]_vars

(* A required cleanup is never at a dead end: unless a copy cannot be      *)
(* touched, the inspection accepts a new one, or a backup was left half    *)
(* deleted, by a deletion whose row is still there to be resumed.          *)
CleanupCanGoOn ==
    Status = "cleanup_required" /\ work = Idle /\ ~Untouchable =>
        Blocked = {} \/ (row # None /\ row.action = "delete")

(* The plan is true of the disk: a planned copy that is there is the listed*)
(* one, or was altered since; a backup is planned as a whole or not at all,*)
(* unaltered, and one that is to be retained is there.                     *)
ListedOK ==
    row # None =>
        /\ \A f \in File, c \in Content :
              <<f, c>> \in row.plan.files /\ disk[f] # None =>
                  disk[f].made = c.made /\ (c.altered => disk[f].altered)
        /\ \A f \in Backup \X Part, c \in Content :
              <<f, c>> \in row.plan.files => ~c.altered
        /\ \A b \in Backup : \A p, q \in Part : InPlan(<<b, p>>) => InPlan(<<b, q>>)
        /\ row.action = "retire" =>
              \A b \in Backup, p \in Part : InPlan(<<b, p>>) => disk[<<b, p>>] # None

\* A step that follows the plan it finds.
SamePlan ==
    IF row = None THEN row' = None
    ELSE row' # None /\ row'.plan = row.plan /\ row'.action = row.action
Stays(f) ==
    \/ disk'[f] = disk[f]
    \/ disk'[f] = None /\ Removes(f)
    \/ /\ disk[f] # None /\ disk'[f] # None
       /\ disk'[f].made = disk[f].made /\ disk'[f].altered

LEMMA ListedStays ==
    ASSUME ListedOK, SamePlan, row # None => \A f \in File : InPlan(f) => Stays(f)
    PROVE  ListedOK'
<1>1. CASE row = None
  BY <1>1 DEF SamePlan, ListedOK
<1>2. CASE row # None
  <2>1. row' # None /\ row'.plan = row.plan /\ row'.action = row.action
    BY <1>2 DEF SamePlan
  <2>2. \A f \in File : InPlan(f)' <=> InPlan(f)
    BY <2>1 DEF InPlan
  <2>3. \A b \in Backup, p \in Part : <<b, p>> \in File /\ <<b, p>> \notin Temporary
    BY PathAssumption DEF File
  <2>4. ASSUME NEW f \in File, NEW c \in Content, <<f, c>> \in row.plan.files, disk'[f] # None
        PROVE  disk'[f].made = c.made /\ (c.altered => disk'[f].altered)
    <3>1. InPlan(f) /\ Stays(f)
      BY <1>2, <2>4 DEF InPlan
    <3>2. disk[f] # None => disk[f].made = c.made /\ (c.altered => disk[f].altered)
      BY <1>2, <2>4 DEF ListedOK
    <3> QED
      BY <2>4, <3>1, <3>2 DEF Stays
  <2>5. \A b \in Backup : \A p, q \in Part : InPlan(<<b, p>>)' => InPlan(<<b, q>>)'
    BY <1>2, <2>2, <2>3 DEF ListedOK
  <2>6. ASSUME row.action = "retire", NEW b \in Backup, NEW p \in Part, InPlan(<<b, p>>)'
        PROVE  disk'[<<b, p>>] # None
    <3>1. InPlan(<<b, p>>)
      BY <2>2, <2>3, <2>6
    <3>2. disk[<<b, p>>] # None
      BY <1>2, <2>6, <3>1 DEF ListedOK
    <3>3. Stays(<<b, p>>) /\ ~Removes(<<b, p>>)
      BY <1>2, <2>3, <2>6, <3>1 DEF Removes
    <3> QED
      BY <3>2, <3>3 DEF Stays
  <2>7. \A f \in Backup \X Part, c \in Content :
           <<f, c>> \in row'.plan.files => ~c.altered
    BY <1>2, <2>1 DEF ListedOK
  <2> QED
    BY <2>1, <2>4, <2>5, <2>6, <2>7 DEF ListedOK
<1> QED
  BY <1>1, <1>2

\* A backup or a temporary file that comes into being is none the plan lists.
LEMMA NewCopiesStay ==
    ASSUME IInv, row # None, NEW f \in File, InPlan(f),
           \/ \E b \in Backup : StartBackup(b)
           \/ PublishBackup
           \/ \E t \in Temporary : LeaveTemporary(t)
    PROVE  disk'[f] = disk[f]
<1>0. Known(f) /\ disk \in [File -> Content \cup {None}]
  BY DEF IInv, NamedInv, TypeInv
<1>1. ASSUME NEW b \in Backup, StartBackup(b)
      PROVE  disk'[f] = disk[f]
  <2>1. f \notin FilesOf(b)
    BY <1>0, <1>1, PathAssumption DEF StartBackup, Known, FilesOf
  <2>2. \A p \in Part : <<b, p>> \in FilesOf(b)
    BY DEF FilesOf
  <2> QED
    BY <1>0, <1>1, <2>1, <2>2 DEF StartBackup
<1>2. CASE PublishBackup
  <2>1. f \notin FilesOf(work.copy)
    BY <1>2 DEF PublishBackup, IInv, NamedInv
  <2> QED
    BY <1>2, <2>1 DEF PublishBackup
<1>3. ASSUME NEW t \in Temporary, LeaveTemporary(t)
      PROVE  disk'[f] = disk[f]
  <2>1. f # t
    BY <1>0, <1>3, PathAssumption DEF LeaveTemporary, Known, FilesOf
  <2> QED
    BY <1>0, <1>3, <2>1 DEF LeaveTemporary
<1> QED
  BY <1>1, <1>2, <1>3

\* A plan just agreed to lists what is there, and no half of a backup.
LEMMA StartListed ==
    ASSUME IInv, NEW action \in CopyAction, StartCleanup(action)
    PROVE  ListedOK'
<1>1. /\ seen = Inspection /\ Blocked = {} /\ UNCHANGED disk
      /\ Starts(seen, {}, action)
  BY InspectionIsPlan DEF IInv, TypeInv, StartCleanup, Agreed
<1>2. row'.plan = seen /\ row'.action = action
  BY <1>1 DEF Starts
<1>3. seen.files = {<<f, disk[f]>> : f \in Present}
  BY <1>1, InspectionIsPlan DEF IInv, Listed
<1>4. disk \in [File -> Content \cup {None}]
  BY DEF IInv, TypeInv
<1>5. \A f \in File : InPlan(f)' <=> disk[f] # None
  <2>1. \A f \in Present : f \in File /\ disk[f] \in Content
    BY <1>4 DEF Present
  <2> QED
    BY <1>2, <1>3, <2>1 DEF InPlan, Present
<1>6. \A f \in File, c \in Content : <<f, c>> \in row'.plan.files => c = disk[f]
  BY <1>2, <1>3
<1>7. \A b \in Backup, p \in Part : <<b, p>> \in File /\ <<b, p>> \in FilesOf(b)
  BY DEF File, FilesOf
<1>8. ASSUME NEW b \in Backup, NEW p \in Part, NEW q \in Part, InPlan(<<b, p>>)'
      PROVE  InPlan(<<b, q>>)'
  <2>1. Verifies(b)
    BY <1>1 DEF Blocked
  <2>2. <<b, p>> \in FilesOf(b) \cap Present
    BY <1>5, <1>7, <1>8 DEF Present
  <2> QED
    BY <1>5, <1>7, <2>1, <2>2 DEF Verifies
<1>9. ASSUME NEW b \in Backup, NEW p \in Part, NEW c \in Content,
             <<<<b, p>>, c>> \in row'.plan.files
      PROVE  ~c.altered
  <2>1. Verifies(b)
    BY <1>1 DEF Blocked
  <2>2. <<b, p>> \in FilesOf(b) \cap Present /\ c = disk[<<b, p>>]
    BY <1>2, <1>3, <1>7, <1>9
  <2> QED
    BY <2>1, <2>2 DEF Verifies
<1> QED
  BY <1>1, <1>5, <1>6, <1>7, <1>8, <1>9 DEF ListedOK

LEMMA ListedStep == IInv /\ ListedOK /\ [Next]_vars => ListedOK'
<1> SUFFICES ASSUME IInv, ListedOK, [Next]_vars
             PROVE  ListedOK'
  OBVIOUS
<1>0. disk \in [File -> Content \cup {None}]
  BY DEF IInv, TypeInv
<1>1. CASE UNCHANGED <<row, disk>>
  BY <1>1, ListedStays DEF SamePlan, Stays
<1>2. Forget \/ Preview \/ PurgePages \/ Interrupt \/ UNCHANGED vars => UNCHANGED <<row, disk>>
  BY DEF Forget, Preview, PurgePages, Interrupt, vars
<1>3. CASE \/ \E b \in Backup : StartBackup(b)
           \/ PublishBackup
           \/ \E t \in Temporary : LeaveTemporary(t)
  <2>1. UNCHANGED row
    BY <1>3 DEF StartBackup, PublishBackup, LeaveTemporary
  <2> QED
    BY <1>3, <2>1, NewCopiesStay, ListedStays DEF SamePlan, Stays
<1>4. ASSUME NEW f \in File, Alter(f)
      PROVE  ListedOK'
  <2>1. UNCHANGED row /\ disk[f] \in Content /\ disk' = [disk EXCEPT ![f].altered = TRUE]
    BY <1>0, <1>4 DEF Alter, Present
  <2>2. /\ [disk[f] EXCEPT !.altered = TRUE] \in Content
        /\ [disk[f] EXCEPT !.altered = TRUE].made = disk[f].made
        /\ [disk[f] EXCEPT !.altered = TRUE].altered
    BY <2>1 DEF Content
  <2>3. Stays(f)
    BY <1>0, <2>1, <2>2, NoneAssumption DEF Stays
  <2>4. \A g \in File \ {f} : Stays(g)
    BY <1>0, <2>1 DEF Stays
  <2> QED
    BY <2>1, <2>3, <2>4, ListedStays DEF SamePlan
<1>5. CASE \E action \in CopyAction : StartCleanup(action)
  BY <1>5, StartListed
<1>6. CASE ResumeCleanup
  <2>1. /\ row # None /\ UNCHANGED disk /\ row'.plan = row.plan /\ row'.action = row.action
        /\ row' # None
    BY <1>6, NoneAssumption, Rows, StartsTypes DEF ResumeCleanup, Starts, IInv, CleanupRow
  <2> QED
    BY <2>1, ListedStays DEF SamePlan, Stays
<1>7. CASE RemoveFile \/ \E f \in File, c \in Content : CheckFile(f, c)
  <2>1. UNCHANGED row
    BY <1>7 DEF RemoveFile, CheckFile
  <2>2. ASSUME NEW g \in File, row # None, InPlan(g)
        PROVE  Stays(g)
    <3>1. CASE UNCHANGED disk
      BY <3>1 DEF Stays
    <3>2. CASE RemoveFile
      <4>1. disk' = [disk EXCEPT ![work.checked[1]] = None] /\ Removes(work.checked[1])
        BY <3>2 DEF RemoveFile, IInv, WorkInv
      <4> QED
        BY <1>0, <4>1 DEF Stays
    <3> QED
      BY <1>7, <3>1, <3>2 DEF CheckFile
  <2> QED
    BY <2>1, <2>2, ListedStays DEF SamePlan
<1>8. CASE SaveProgress \/ Finish
  <2>1. row # None /\ UNCHANGED disk
    BY <1>8 DEF SaveProgress, Finish, IInv, WorkInv
  <2>2. row \in CleanupRow /\ row' # None
    <3>1. row \in CleanupRow /\ row.completed \subseteq File
      BY <2>1, Rows DEF IInv
    <3>2. CASE SaveProgress
      <4>1. work.removed \in File
        BY <3>2, Phases DEF SaveProgress, IInv
      <4>2. [row EXCEPT !.completed = @ \cup {work.removed}] \in CleanupRow
        BY <3>1, <4>1 DEF CleanupRow
      <4> QED
        BY <3>1, <3>2, <4>2, NoneAssumption DEF SaveProgress
    <3>3. CASE Finish
      <4>1. Outcome \in {"unverified", "removed", "retained"}
        BY DEF Outcome
      <4>2. [row EXCEPT !.status = Outcome] \in CleanupRow
        BY <3>1, <4>1 DEF CleanupRow
      <4> QED
        BY <3>1, <3>3, <4>2, NoneAssumption DEF Finish
    <3> QED
      BY <1>8, <3>2, <3>3
  <2>3. row'.plan = row.plan /\ row'.action = row.action
    BY <1>8, <2>2 DEF SaveProgress, Finish, CleanupRow
  <2> QED
    BY <2>1, <2>2, <2>3, ListedStays DEF SamePlan, Stays
<1> QED
  BY <1>1, <1>2, <1>3, <1>4, <1>5, <1>6, <1>7, <1>8 DEF Next, CleanupStep

LEMMA ListedInvariance == Spec => [](IInv /\ ListedOK)
<1>1. Init => ListedOK
  BY DEF Init, ListedOK
<1> QED
  BY <1>1, ListedStep, Invariance, PTL DEF Spec

(* Once kernelPrivacyCleanupStatus says complete, no copy from before the  *)
(* last Forget, no forensic directory and no free page is left, save listed*)
(* copies the user chose to retain; a backup among them was unaltered when *)
(* it was listed.                                                          *)
THEOREM CompleteIsErasedTheorem == Spec => []CompleteIsErased
<1>1. ASSUME IInv, ListedOK PROVE CompleteIsErased
  <2> SUFFICES ASSUME Status \in {"complete", "complete_retained"}
               PROVE  /\ ~pages /\ forensic = {}
                      /\ \A f \in Present : disk[f].made < forgotten =>
                            Status = "complete_retained" /\ f \notin Temporary /\ Retained(f)
    BY DEF CompleteIsErased
  <2>1. /\ row # None /\ row.status # "unverified" /\ row.plan.revision >= forgotten
        /\ Status = IF row.status = "retained" THEN "complete_retained" ELSE "complete"
    BY DEF Status
  <2>2. ~pages /\ forensic = {} /\ row.status = Outcome
    BY <1>1, <2>1 DEF IInv, DoneInv, PlanInv
  <2>3. ASSUME NEW f \in Present, disk[f].made < forgotten
        PROVE  Status = "complete_retained" /\ f \notin Temporary /\ Retained(f)
    <3>1. f \in File /\ disk[f] # None /\ disk[f] \in Content
      BY <1>1 DEF Present, IInv, TypeInv
    <3>2. /\ disk[f].made \in Nat /\ forgotten \in Nat /\ row.plan.revision \in Nat
      BY <1>1, <2>1, <3>1, Rows, BoundAssumption DEF Content, IInv, TypeInv
    <3>3. disk[f].made < row.plan.revision
      BY <2>1, <2>3, <3>2
    <3>4. InPlan(f)
      BY <1>1, <2>1, <3>3 DEF IInv, PlanInv
    <3>5. ~Removes(f)
      BY <1>1, <2>1, <3>1, <3>4 DEF IInv, DoneInv
    <3>6. Retained(f)
      <4>1. PICK c \in Content : <<f, c>> \in row.plan.files
        BY <3>4 DEF InPlan
      <4>2. disk[f].made = c.made /\ (f \in Backup \X Part => ~c.altered)
        BY <1>1, <2>1, <3>1, <4>1 DEF ListedOK
      <4> QED
        BY <4>1, <4>2 DEF Retained
    <3> QED
      BY <2>1, <2>2, <3>5, <3>6 DEF Removes, Outcome
  <2> QED
    BY <2>2, <2>3
<1> QED
  BY <1>1, ListedInvariance, PTL

(* No step of the program removes a copy that the row had not listed and   *)
(* the check just before had not found as listed; what is lost is the copy *)
(* the user agreed to, or what it was altered to since that check.         *)
THEOREM RemovedAsListedTheorem == Spec => RemovedAsListed
<1> DEFINE Listing ==
      \A f \in Present : disk'[f] = None =>
          \E content \in Content :
              /\ work.phase = "cleaning" /\ work.checked = <<f, content>>
              /\ row # None /\ <<f, content>> \in row.plan.files
              /\ disk[f].made = content.made
              /\ disk[f] # content => disk[f].altered
<1>1. ASSUME IInv, ListedOK, [Next]_vars, NEW f \in Present, disk'[f] = None
      PROVE  \E content \in Content :
                 /\ work.phase = "cleaning" /\ work.checked = <<f, content>>
                 /\ row # None /\ <<f, content>> \in row.plan.files
                 /\ disk[f].made = content.made
                 /\ disk[f] # content => disk[f].altered
  <2>1. f \in File /\ disk[f] # None /\ disk[f] \in Content
    BY <1>1 DEF Present, IInv, TypeInv
  <2>2. [made |-> head, altered |-> FALSE] \in Content
    BY <1>1 DEF IInv, TypeInv, Content
  <2>3. disk'[f] # disk[f]
    BY <1>1, <2>1
  <2>4. ~(\E b \in Backup : StartBackup(b))
    BY <1>1, <2>1, <2>2, NoneAssumption DEF StartBackup, IInv, TypeInv
  <2>5. ~PublishBackup
    BY <1>1, <2>1, <2>2, NoneAssumption DEF PublishBackup
  <2>6. ~(\E t \in Temporary : LeaveTemporary(t))
    BY <1>1, <2>1, <2>2, NoneAssumption DEF LeaveTemporary, IInv, TypeInv
  <2>7. ASSUME NEW g \in File, Alter(g)
        PROVE  FALSE
    <3>1. disk[g] \in Content /\ disk' = [disk EXCEPT ![g].altered = TRUE]
      BY <1>1, <2>7 DEF Alter, Present, IInv, TypeInv
    <3>2. [disk[g] EXCEPT !.altered = TRUE] \in Content
      BY <3>1 DEF Content
    <3> QED
      BY <1>1, <2>1, <3>1, <3>2, NoneAssumption DEF IInv, TypeInv
  <2>8. RemoveFile
    BY <1>1, <2>3, <2>4, <2>5, <2>6, <2>7
       DEF Next, CleanupStep, Forget, Preview, StartCleanup, ResumeCleanup, CheckFile,
           SaveProgress, PurgePages, Finish, Interrupt, vars
  <2>9. PICK g \in File, c \in Content : work.checked = <<g, c>>
    BY <1>1, <2>8, Phases DEF IInv, RemoveFile
  <2>10. /\ work.phase = "cleaning" /\ row # None /\ <<g, c>> \in row.plan.files
         /\ disk' = [disk EXCEPT ![g] = None]
    BY <1>1, <2>8, <2>9 DEF RemoveFile, IInv, WorkInv
  <2>11. f = g
    BY <1>1, <2>1, <2>3, <2>10 DEF IInv, TypeInv
  <2>12. disk[f].made = c.made /\ (c.altered => disk[f].altered)
    BY <1>1, <2>1, <2>10, <2>11 DEF ListedOK
  <2>13. disk[f] # c => disk[f].altered
    BY <2>1, <2>12 DEF Content
  <2> QED
    BY <2>9, <2>10, <2>11, <2>12, <2>13
<1>2. IInv /\ ListedOK /\ [Next]_vars => [Listing]_vars
  BY <1>1
<1> QED
  BY <1>2, ListedInvariance, PTL DEF Spec, RemovedAsListed

(* A deletion that was interrupted is not stopped by what it did before:   *)
(* cleanupKernelPrivacyCopies accepts a file that is missing (ENOENT), and *)
(* a name is never used again for another copy.                            *)
THEOREM DeletionGoesOn == Spec => DeletionStopsOnlyAtAltered
<1>1. ASSUME IInv, ListedOK, NEW f \in File, NEW c \in Content,
             CheckFile(f, c), work' = Idle, row.action = "delete"
      PROVE  disk[f].altered
  <2>1. work.phase = "cleaning" /\ <<f, c>> \in work.todo
    BY <1>1 DEF CheckFile
  <2>2. row # None /\ <<f, c>> \in row.plan.files
    BY <1>1, <2>1 DEF IInv, WorkInv
  <2>3. work \in CleaningWork
    BY <1>1, <2>1 DEF IInv, TypeInv, IdleWork, BackupWork, PurgedWork
  <2>4. /\ [work EXCEPT !.removed = f, !.checked = None,
                      !.todo = @ \ {<<f, c>>}].phase = "cleaning"
        /\ [work EXCEPT !.checked = <<f, disk[f]>>].phase = "cleaning"
    BY <2>1, <2>3 DEF CleaningWork
  <2>5. disk[f] # None /\ disk[f] # c
    BY <1>1, <2>4 DEF CheckFile, Settle, Same, MissingAccepted, Idle
  <2>6. disk[f] \in Content /\ disk[f].made = c.made /\ (c.altered => disk[f].altered)
    BY <1>1, <2>2, <2>5 DEF IInv, TypeInv, ListedOK
  <2> QED
    BY <2>5, <2>6 DEF Content
<1>2. IInv /\ ListedOK /\ [Next]_vars =>
          [\A f \in File, c \in Content :
              CheckFile(f, c) /\ work' = Idle /\ row.action = "delete" => disk[f].altered]_vars
  BY <1>1
<1> QED
  BY <1>2, ListedInvariance, PTL DEF Spec, DeletionStopsOnlyAtAltered

(* The user of a project that requires a cleanup can always start one or   *)
(* resume the deletion that was interrupted (the comparison of the plan,   *)
(* and the row, of cleanupKernelPrivacyCopies).                            *)
THEOREM CleanupGoesOn == Spec => []CleanupCanGoOn
<1>1. ASSUME IInv, ListedOK, work = Idle, ~Untouchable, NEW b \in Backup \cap Blocked
      PROVE  row # None /\ row.action = "delete"
  <2>1. b \in Backup /\ ~Verifies(b) /\ Planned(b)
    BY <1>1 DEF Untouchable, Blocked
  <2>2. row # None /\ row.action \in CopyAction /\ row.plan.files \subseteq File \X Content
    BY <1>1, <2>1, Rows DEF Planned, IInv
  <2>3. PICK p \in Part : InPlan(<<b, p>>)
    <3>1. PICK entry \in row.plan.files : entry[1] \in FilesOf(b)
      BY <2>1 DEF Planned
    <3>2. entry = <<entry[1], entry[2]>> /\ entry[2] \in Content
      BY <2>2, <3>1
    <3>3. PICK p \in Part : entry[1] = <<b, p>>
      BY <3>1 DEF FilesOf
    <3> QED
      BY <3>1, <3>2, <3>3 DEF InPlan
  <2>4. ASSUME row.action = "retire"
        PROVE  FALSE
    <3>1. \A q \in Part : disk[<<b, q>>] # None
      BY <1>1, <2>1, <2>2, <2>3, <2>4 DEF ListedOK
    <3>2. \A q \in Part : <<b, q>> \in Present /\ ~disk[<<b, q>>].altered
      BY <1>1, <2>1, <3>1 DEF Present, File, Untouchable
    <3> QED
      BY <2>1, <3>2 DEF Verifies, FilesOf, Present
  <2> QED
    BY <2>2, <2>4 DEF CopyAction
<1>2. ~Untouchable => Blocked \subseteq Backup
  BY DEF Untouchable, Blocked
<1>3. IInv /\ ListedOK => CleanupCanGoOn
  BY <1>1, <1>2 DEF CleanupCanGoOn
<1> QED
  BY <1>3, ListedInvariance, PTL
=============================================================================
