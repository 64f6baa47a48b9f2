------------------------- MODULE KernelMigrationProofs -------------------------
(***************************************************************************)
(* Proofs about KernelMigration, for any number of commits and faults.     *)
(***************************************************************************)
EXTENDS KernelMigration, TLAPS

StepName ==
    {"move_db", "move_wal", "move_brief", "old_moved", "install_db",
     "database_installed", "install_brief", "brief_installed", "complete"}
Phases == {"idle", "planned", "begun", "copied", "staged", "upgrade", "restore"}

\* Nothing is newer than the last commit.
KContent == [kind : Kind, last : 0..commits]
KPair == [db : KContent, brief : Kind \cup {None}]
KSource == [db : KContent, wal : KContent \cup {None}, brief : Kind \cup {None}]
KJournal ==
    [intent : {"upgrade", "restore_backup"},
     stage : {"previewed", "copied", "validated", "swapped", "failed", "rolled_back"},
     progress : Progress,
     source : KSource, backup : KPair \cup {None}, target : KPair \cup {None}]
KWork ==
    [phase : Phases, plan : KSource \cup {None}, incoming : KPair \cup {None},
     todo : Seq(StepName)]
Typed ==
    /\ ConstantsOK
    /\ db \in KContent \cup {None} /\ wal \in KContent \cup {None}
    /\ brief \in Kind \cup {None}
    /\ journal \in KJournal \cup {None}
    /\ work \in KWork
    /\ session \in [kind : Kind \cup {None}, live : BOOLEAN]
    /\ commits \in 0..MaxCommits /\ acked \in 0..commits
    /\ from \in KContent /\ goal \in KContent
    /\ oldRuntime \in BOOLEAN /\ disturbed \in BOOLEAN /\ faults \in 0..MaxFaults

-----------------------------------------------------------------------------
(* The inductive invariant.                                                *)

LatestOf(s) == IF s.wal = None THEN s.db.last ELSE s.wal.last
\* Files as they are before an upgrade.
OldFiles(s) ==
    /\ s.db.kind = "old" /\ s.brief \in {"old", None}
    /\ s.wal # None => s.wal.kind = "old"

SessionOK == session.live => db # None /\ session.kind = db.kind
SettledOK == Settled => Whole /\ (~oldRuntime => Latest = acked)

\* An upgrade's backup and target have exactly the source's commits, and the
\* source all that were acknowledged.
UpgradeJournal(j) ==
    /\ from = [kind |-> "old", last |-> LatestOf(j.source)]
    /\ goal = [kind |-> "new", last |-> LatestOf(j.source)]
    /\ j.backup # None => j.backup = [db |-> from, brief |-> j.source.brief]
    /\ j.target # None => j.target = [db |-> goal, brief |-> "new"]
    /\ ~Settled /\ ~oldRuntime => LatestOf(j.source) = acked
\* A return to the backup starts from an upgraded project.
ReturnJournal(j) ==
    /\ j.target # None /\ j.stage # "swapped"
    /\ j.target.db.kind = "new" /\ j.target.brief = "new"
    /\ goal = j.backup.db
JournalOK ==
    journal # None =>
        /\ OldFiles(journal.source)
        /\ journal.backup # None =>
              journal.backup.db.kind = "old" /\ journal.backup.brief = journal.source.brief
        /\ journal.target # None => journal.backup # None
        /\ journal.stage = "swapped" => journal.target # None
        /\ journal.intent = "upgrade" => UpgradeJournal(journal)
        /\ journal.intent = "restore_backup" => ReturnJournal(journal)

\* The files an interrupted switch can leave, while nobody else touched them.
Unmoved(j) == Fingerprint = j.source /\ j.progress = "none"
Moving(j) ==
    /\ j.backup # None
    /\ db \in {None, j.target.db, j.backup.db}
    /\ wal # None => wal = j.source.wal /\ db = None
    /\ j.progress = "none" => db \in {None, j.backup.db} /\ brief \in {None, j.source.brief}
    /\ brief # None => brief = j.source.brief \/ (j.target # None /\ brief = "new")
    /\ db # None /\ db # j.backup.db => j.target # None
Returning(j) ==
    /\ db \in {None, j.target.db, j.backup.db}
    /\ brief \in {None, j.target.brief, j.backup.brief}
KnownOK ==
    ~Settled /\ ~disturbed =>
        /\ journal.intent = "upgrade" => Unmoved(journal) \/ Moving(journal)
        /\ journal.intent = "restore_backup" => Returning(journal)

\* The steps left to do are the last of those there were.
Left == Len(work.todo)
Suffix(s, steps) ==
    /\ s \in Seq(StepName) /\ Len(s) \in 1..Len(steps)
    /\ \A i \in 1..Len(s) : s[i] = steps[Len(steps) - Len(s) + i]

PlanOK ==
    /\ work.phase \in {"planned", "begun", "copied", "staged", "upgrade"} =>
          work.plan # None /\ OldFiles(work.plan)
    /\ Upgrading =>
          /\ journal # None /\ ~Settled
          /\ journal.intent = "upgrade" /\ journal.source = work.plan
    /\ work.phase \in {"begun", "copied", "staged"} => journal.progress = "none"
    /\ work.phase = "copied" => journal.backup # None
    /\ work.phase \in {"staged", "upgrade"} =>
          journal.target # None /\ work.incoming = journal.target
    /\ work.phase \notin {"upgrade", "restore"} => work.todo = <<>>

UpgradeOK ==
    work.phase = "upgrade" =>
        /\ Suffix(work.todo, UpgradeSteps)
        /\ Left < 9 => ~session.live
        /\ Left \in 5..8 => db = None
        /\ Left < 5 => db = work.incoming.db
        /\ Left < 8 => wal = None
        /\ Left \in 3..6 => brief = None
        /\ Left < 3 => brief = "new"
        /\ Left > 5 => journal.progress = "none"
        /\ Left < 6 => journal.progress # "none"

\* A released runtime may write to the database a recovery has brought back.
Steps == RestoreSteps(work.incoming)
DoneSteps == Len(Steps) - Left
RestoreOK ==
    work.phase = "restore" =>
        /\ journal # None /\ ~Settled
        /\ journal.backup # None /\ work.incoming = journal.backup
        /\ Suffix(work.todo, Steps)
        /\ DoneSteps > 0 => ~session.live
        /\ DoneSteps \in 1..3 => db = None
        /\ DoneSteps > 3 => db = work.incoming.db
        /\ DoneSteps \in 2..3 => wal = None
        /\ DoneSteps > 3 /\ wal # None => oldRuntime /\ wal.kind = "old"
        /\ DoneSteps \in 3..4 => brief = None
        /\ DoneSteps > 4 => brief = work.incoming.brief

IInv ==
    /\ Typed /\ SessionOK /\ SettledOK /\ JournalOK /\ KnownOK
    /\ PlanOK /\ UpgradeOK /\ RestoreOK

-----------------------------------------------------------------------------
(* The types.                                                              *)

LEMMA NoneFacts ==
    ASSUME Typed
    PROVE  /\ MaxCommits \in Nat \ {0} /\ MaxFaults \in Nat /\ commits \in Nat
           /\ None \notin Kind /\ None # "old" /\ None # "new"
           /\ \A c \in KContent : c \in Content /\ c # None
           /\ \A p \in KPair : p \in Pair /\ p # None
           /\ \A s \in KSource : s \in Source /\ s # None
           /\ \A j \in KJournal : j \in Journal /\ j # None
<1>1. /\ MaxCommits \in Nat \ {0} /\ MaxFaults \in Nat /\ commits \in 0..MaxCommits
      /\ None \notin Kind /\ None \notin Content /\ None \notin Pair /\ None \notin Source
      /\ None \notin Journal
  BY DEF Typed, ConstantsOK
<1>2. \A c \in KContent : c \in Content
  BY <1>1 DEF KContent, Content
<1>3. \A p \in KPair : p \in Pair
  BY <1>2 DEF KPair, Pair
<1>4. \A s \in KSource : s \in Source
  BY <1>2 DEF KSource, Source
<1>5. \A j \in KJournal : j \in Journal
  BY <1>3, <1>4 DEF KJournal, Journal
<1> QED
  BY <1>1, <1>2, <1>3, <1>4, <1>5 DEF Kind

\* As commits are made, what was known stays known.
LEMMA Known ==
    ASSUME commits \in Nat, commits' \in Nat, commits <= commits'
    PROVE  /\ KContent \subseteq KContent' /\ KPair \subseteq KPair'
           /\ KSource \subseteq KSource' /\ KJournal \subseteq KJournal'
           /\ KWork \subseteq KWork'
<1>1. \A c \in KContent : c \in KContent'
  BY DEF KContent
<1>2. \A p \in KPair : p \in KPair'
  BY <1>1 DEF KPair
<1>3. \A s \in KSource : s \in KSource'
  BY <1>1 DEF KSource
<1>4. \A j \in KJournal : j \in KJournal'
  BY <1>2, <1>3 DEF KJournal
<1>5. \A w \in KWork : w \in KWork'
  BY <1>2, <1>3 DEF KWork
<1> QED
  BY <1>1, <1>2, <1>3, <1>4, <1>5

LEMMA SameKnown ==
    ASSUME UNCHANGED commits
    PROVE  /\ KContent' = KContent /\ KPair' = KPair /\ KSource' = KSource
           /\ KJournal' = KJournal /\ KWork' = KWork
BY DEF KContent, KPair, KSource, KJournal, KWork

\* A journal saved with another stage, or another progress, is otherwise the same.
LEMMA Saved ==
    ASSUME NEW j \in KJournal,
           NEW st \in {"previewed", "copied", "validated", "swapped", "failed", "rolled_back"},
           NEW k, k = [j EXCEPT !.stage = st]
    PROVE  /\ k \in KJournal /\ k.stage = st
           /\ k.intent = j.intent /\ k.progress = j.progress
           /\ k.source = j.source /\ k.backup = j.backup /\ k.target = j.target
<1>1. k \in KJournal
  BY DEF KJournal
<1>2. /\ k.stage = st
      /\ k.intent = j.intent /\ k.progress = j.progress
      /\ k.source = j.source /\ k.backup = j.backup /\ k.target = j.target
  BY DEF KJournal
<1> QED
  BY <1>1, <1>2

LEMMA JournalFields ==
    ASSUME Typed, journal # None
    PROVE  /\ journal \in KJournal
           /\ journal.intent \in {"upgrade", "restore_backup"}
           /\ journal.source \in KSource /\ journal.source # None
           /\ journal.source.db \in KContent
           /\ journal.source.wal \in KContent \cup {None}
           /\ journal.backup # None =>
                 journal.backup \in KPair /\ journal.backup.db \in KContent
           /\ journal.target # None =>
                 journal.target \in KPair /\ journal.target.db \in KContent
<1>1. journal \in KJournal
  BY DEF Typed
<1>2. /\ journal.intent \in {"upgrade", "restore_backup"}
      /\ journal.source \in KSource
      /\ journal.backup \in KPair \cup {None} /\ journal.target \in KPair \cup {None}
  BY <1>1 DEF KJournal
<1>3. journal.source # None
  BY <1>2, NoneFacts
<1>4. /\ journal.source.db \in KContent
      /\ journal.source.wal \in KContent \cup {None}
  BY <1>2 DEF KSource
<1>5. /\ journal.backup # None =>
            journal.backup \in KPair /\ journal.backup.db \in KContent
      /\ journal.target # None =>
            journal.target \in KPair /\ journal.target.db \in KContent
  BY <1>2 DEF KPair
<1> QED
  BY <1>1, <1>2, <1>3, <1>4, <1>5

LEMMA IdleFacts ==
    Idle \in KWork /\ Idle.phase = "idle" /\ Idle.todo = <<>>
BY DEF KWork, Idle, Phases

\* What the files hold last.
LEMMA LatestFacts ==
    ASSUME Typed, db # None
    PROVE  /\ Latest \in 0..commits
           /\ Latest = LatestOf(Fingerprint)
           /\ Fingerprint \in KSource
<1>1. db \in KContent /\ wal \in KContent \cup {None} /\ brief \in Kind \cup {None}
  BY DEF Typed
<1>2. Latest \in 0..commits
  BY <1>1 DEF Latest, KContent
<1>3. Latest = LatestOf(Fingerprint)
  BY DEF Latest, LatestOf, Fingerprint
<1>4. Fingerprint \in KSource
  BY <1>1 DEF Fingerprint, KSource
<1> QED
  BY <1>2, <1>3, <1>4

\* Between the calls there is nothing to say of the work.
LEMMA NoWork ==
    ASSUME work' = Idle
    PROVE  PlanOK' /\ UpgradeOK' /\ RestoreOK'
BY IdleFacts DEF PlanOK, UpgradeOK, RestoreOK, Upgrading

-----------------------------------------------------------------------------
(* The initial state, and the steps that change neither files nor journal. *)

LEMMA InitOK == ConstantsOK /\ Init => IInv
<1> SUFFICES ASSUME ConstantsOK, Init
             PROVE  IInv
  OBVIOUS
<1>1. /\ db = [kind |-> "old", last |-> 0] /\ brief \in {"old", None}
      /\ wal \in {None, [kind |-> "old", last |-> 1]}
      /\ journal = None /\ work = Idle /\ session = [kind |-> None, live |-> FALSE]
      /\ commits = Latest /\ acked = Latest
      /\ from = [kind |-> "old", last |-> Latest] /\ goal = from
      /\ oldRuntime \in BOOLEAN /\ disturbed = FALSE /\ faults = 0
  BY DEF Init
<1>2. MaxCommits \in Nat \ {0} /\ MaxFaults \in Nat /\ None \notin Content
  BY DEF ConstantsOK
<1>3. [kind |-> "old", last |-> 1] \in Content /\ [kind |-> "old", last |-> 0] \in Content
  BY <1>2 DEF Content, Kind
<1>4. Latest = IF wal = None THEN 0 ELSE 1
  BY <1>1, <1>2, <1>3 DEF Latest
<1>5. commits \in 0..MaxCommits /\ commits \in Nat /\ acked \in 0..commits
  BY <1>1, <1>2, <1>4
<1>6. db \in KContent /\ from \in KContent /\ wal \in KContent \cup {None}
  BY <1>1, <1>2, <1>3, <1>4, <1>5 DEF KContent, Kind
<1>11. brief \in Kind \cup {None} /\ journal \in KJournal \cup {None} /\ work \in KWork
  BY <1>1, IdleFacts DEF Kind
<1>12. session \in [kind : Kind \cup {None}, live : BOOLEAN]
  BY <1>1
<1>13. faults \in 0..MaxFaults
  BY <1>1, <1>2
<1>14. goal \in KContent /\ disturbed \in BOOLEAN
  BY <1>1, <1>6
<1>7. Typed
  BY <1>1, <1>5, <1>6, <1>11, <1>12, <1>13, <1>14 DEF Typed
<1>8. SessionOK /\ JournalOK /\ KnownOK
  BY <1>1 DEF SessionOK, JournalOK, KnownOK, Settled
<1>9. SettledOK
  BY <1>1, <1>2, <1>3 DEF SettledOK, Whole
<1>10. PlanOK /\ UpgradeOK /\ RestoreOK
  BY <1>1, IdleFacts DEF PlanOK, UpgradeOK, RestoreOK, Upgrading
<1> QED
  BY <1>7, <1>8, <1>9, <1>10 DEF IInv

\* Files and journal stay, and so does all that is said of them.
LEMMA SameFiles ==
    ASSUME IInv, UNCHANGED <<files, journal, oldRuntime, acked, from, goal, disturbed>>
    PROVE  SettledOK' /\ JournalOK' /\ KnownOK'
BY DEF IInv, files, SettledOK, JournalOK, KnownOK, Settled, Whole, Latest, OldFiles,
       UpgradeJournal, LatestOf, ReturnJournal, Unmoved, Moving, Returning, Fingerprint

\* ... and of the work that goes on.
LEMMA SameWork ==
    ASSUME IInv, UNCHANGED <<files, journal, work, oldRuntime>>,
           session'.live => session.live
    PROVE  PlanOK' /\ UpgradeOK' /\ RestoreOK'
<1>1. PlanOK'
  BY DEF IInv, PlanOK, Upgrading, OldFiles, Settled
<1>2. UpgradeOK'
  BY DEF IInv, UpgradeOK, files, Left, Suffix
<1>3. RestoreOK'
  BY DEF IInv, RestoreOK, files, Left, Suffix, Steps, DoneSteps, RestoreSteps, Settled
<1> QED
  BY <1>1, <1>2, <1>3

LEMMA StutterOK == IInv /\ UNCHANGED vars => IInv'
<1> SUFFICES ASSUME IInv, UNCHANGED vars
             PROVE  IInv'
  OBVIOUS
<1>1. UNCHANGED <<files, journal, work, session, past>>
  BY DEF vars
<1>2. Typed' /\ SessionOK'
  BY <1>1, SameKnown DEF IInv, Typed, SessionOK, files, past
<1> QED
  BY <1>1, <1>2, SameFiles, SameWork DEF IInv, past

LEMMA OpenSessionOK == IInv /\ OpenSession => IInv'
<1> SUFFICES ASSUME IInv, OpenSession
             PROVE  IInv'
  OBVIOUS
<1>1. /\ Settled /\ db # None /\ session' = [kind |-> db.kind, live |-> TRUE]
      /\ UNCHANGED <<files, journal, work, past>>
  BY DEF OpenSession
<1>2. db.kind \in Kind
  BY <1>1 DEF IInv, Typed, KContent
<1>3. Typed' /\ SessionOK'
  BY <1>1, <1>2, SameKnown DEF IInv, Typed, SessionOK, files, past
<1>4. work.phase \in {"idle", "planned"}
  <2>1. work.phase \in Phases
    BY DEF IInv, Typed, KWork
  <2> QED
    BY <1>1, <2>1 DEF IInv, PlanOK, RestoreOK, Upgrading, Phases
<1>5. PlanOK' /\ UpgradeOK' /\ RestoreOK'
  BY <1>1, <1>4 DEF IInv, PlanOK, UpgradeOK, RestoreOK, Upgrading, OldFiles, Settled
<1> QED
  BY <1>1, <1>3, <1>5, SameFiles DEF IInv, past

LEMMA SessionCrashOK == IInv /\ SessionCrash => IInv'
<1> SUFFICES ASSUME IInv, SessionCrash
             PROVE  IInv'
  OBVIOUS
<1>1. /\ session' = [kind |-> None, live |-> FALSE]
      /\ faults < MaxFaults /\ faults' = faults + 1
      /\ UNCHANGED <<files, journal, work, commits, acked, from, goal, disturbed, oldRuntime>>
  BY DEF SessionCrash
<1>2. faults' \in 0..MaxFaults
  BY <1>1, NoneFacts DEF IInv, Typed
<1>3. Typed' /\ SessionOK'
  BY <1>1, <1>2, SameKnown DEF IInv, Typed, SessionOK, files
<1> QED
  BY <1>1, <1>3, SameFiles, SameWork DEF IInv

LEMMA CrashOK == IInv /\ Crash => IInv'
<1> SUFFICES ASSUME IInv, Crash
             PROVE  IInv'
  OBVIOUS
<1>1. /\ work' = Idle /\ faults < MaxFaults /\ faults' = faults + 1
      /\ UNCHANGED <<files, journal, session, commits, acked, from, goal, disturbed,
                     oldRuntime>>
  BY DEF Crash
<1>2. faults' \in 0..MaxFaults
  BY <1>1, NoneFacts DEF IInv, Typed
<1>3. Typed' /\ SessionOK'
  BY <1>1, <1>2, SameKnown, IdleFacts DEF IInv, Typed, SessionOK, files
<1> QED
  BY <1>1, <1>3, SameFiles, NoWork DEF IInv

LEMMA PreviewOK == IInv /\ Preview => IInv'
<1> SUFFICES ASSUME IInv, Preview
             PROVE  IInv'
  OBVIOUS
<1>1. /\ Settled /\ db # None /\ db.kind = "old"
      /\ work' = [Idle EXCEPT !.phase = "planned", !.plan = Fingerprint]
      /\ UNCHANGED <<files, journal, session, past>>
  BY DEF Preview
<1>2. Fingerprint \in KSource /\ Fingerprint # None
  BY <1>1, LatestFacts, NoneFacts DEF IInv
<1>3. OldFiles(Fingerprint)
  BY <1>1 DEF IInv, SettledOK, Whole, OldFiles, Fingerprint
<1>4. /\ work' \in KWork /\ work'.phase = "planned" /\ work'.plan = Fingerprint
  BY <1>1, <1>2, IdleFacts DEF KWork, Idle, Phases
<1>5. Typed' /\ SessionOK'
  BY <1>1, <1>4, SameKnown DEF IInv, Typed, SessionOK, files, past
<1>6. PlanOK' /\ UpgradeOK' /\ RestoreOK'
  BY <1>1, <1>2, <1>3, <1>4, IdleFacts DEF PlanOK, UpgradeOK, RestoreOK, Upgrading, OldFiles
<1> QED
  BY <1>1, <1>5, <1>6, SameFiles DEF IInv, past

-----------------------------------------------------------------------------
(* The other processes' commits.                                           *)

LEMMA CommitOK == IInv /\ Commit => IInv'
<1> SUFFICES ASSUME IInv, Commit
             PROVE  IInv'
  OBVIOUS
<1>1. /\ session.live /\ Settled /\ work.phase \in {"idle", "planned"}
      /\ commits < MaxCommits /\ commits' = commits + 1 /\ acked' = commits'
      /\ wal' = [kind |-> session.kind, last |-> commits']
      /\ UNCHANGED <<db, brief, journal, work, session, from, goal, disturbed, faults,
                     oldRuntime>>
  BY DEF Commit, Writable, Committed, Guarded
<1>2. /\ db # None /\ session.kind = db.kind /\ db.kind \in Kind
      /\ MaxCommits \in Nat /\ commits \in Nat
  <2>1. db # None /\ session.kind = db.kind
    BY <1>1 DEF IInv, SessionOK
  <2> QED
    BY <2>1, NoneFacts DEF IInv, Typed, KContent
<1>3. /\ KContent \subseteq KContent' /\ KJournal \subseteq KJournal' /\ KWork \subseteq KWork'
  BY <1>1, <1>2, Known
<1>4. commits' \in 0..MaxCommits /\ acked' \in 0..commits'
  BY <1>1, <1>2
<1>5. wal' \in KContent'
  BY <1>1, <1>2, <1>4 DEF KContent
<1>6. Typed'
  BY <1>1, <1>3, <1>4, <1>5 DEF IInv, Typed
<1>7. wal' # None /\ wal'.kind = db.kind /\ wal'.last = commits'
  <2>1. wal' # None
    BY <1>5, <1>6, NoneFacts, <1>4, <1>2 DEF KContent, Content, Typed, ConstantsOK
  <2> QED
    BY <1>1, <1>2, <2>1
<1>8. SessionOK' /\ SettledOK'
  BY <1>1, <1>2, <1>7 DEF IInv, SessionOK, SettledOK, Settled, Whole, Latest
<1>9. JournalOK' /\ KnownOK'
  BY <1>1 DEF IInv, JournalOK, KnownOK, Settled, OldFiles, UpgradeJournal, LatestOf,
              ReturnJournal
<1>10. PlanOK' /\ UpgradeOK' /\ RestoreOK'
  BY <1>1 DEF IInv, PlanOK, UpgradeOK, RestoreOK, Upgrading, OldFiles
<1> QED
  BY <1>6, <1>8, <1>9, <1>10 DEF IInv

\* While a switch has moved the database, or installed a new one, there is
\* nothing a released runtime could write to.
LEMMA OldCommitOK == IInv /\ OldCommit => IInv'
<1> SUFFICES ASSUME IInv, OldCommit
             PROVE  IInv'
  OBVIOUS
<1>1. /\ oldRuntime /\ db # None /\ db.kind = "old"
      /\ commits < MaxCommits /\ commits' = commits + 1 /\ acked' = commits'
      /\ wal' = [kind |-> "old", last |-> commits']
      /\ disturbed' = (disturbed \/ ~Settled)
      /\ UNCHANGED <<db, brief, journal, work, session, from, goal, faults, oldRuntime>>
  BY DEF OldCommit, Committed
<1>2. MaxCommits \in Nat /\ commits \in Nat
  BY NoneFacts DEF IInv
<1>3. /\ KContent \subseteq KContent' /\ KJournal \subseteq KJournal' /\ KWork \subseteq KWork'
  BY <1>1, <1>2, Known
<1>4. commits' \in 0..MaxCommits /\ acked' \in 0..commits'
  BY <1>1, <1>2
<1>5. wal' \in KContent'
  BY <1>1, <1>2, <1>4 DEF KContent, Kind
<1>6. Typed'
  <2>1. disturbed' \in BOOLEAN
    BY <1>1 DEF IInv, Typed, Settled
  <2> QED
    BY <1>1, <1>3, <1>4, <1>5, <2>1 DEF IInv, Typed
<1>7. wal'.kind = "old"
  BY <1>1
<1>8. SessionOK' /\ SettledOK'
  BY <1>1, <1>7 DEF IInv, SessionOK, SettledOK, Settled, Whole
<1>9. JournalOK' /\ KnownOK'
  <2>1. JournalOK'
    BY <1>1 DEF IInv, JournalOK, Settled, OldFiles, UpgradeJournal, LatestOf, ReturnJournal
  <2>2. ~(~Settled' /\ ~disturbed')
    BY <1>1 DEF Settled
  <2> QED
    BY <2>1, <2>2 DEF KnownOK
<1>10. PlanOK'
  BY <1>1 DEF IInv, PlanOK, Upgrading, OldFiles, Settled
<1>11. UpgradeOK'
  <2>1. SUFFICES ASSUME work.phase = "upgrade"
                 PROVE  UpgradeOK'
    BY <1>1 DEF UpgradeOK
  <2>2. journal # None /\ journal.target # None /\ work.incoming = journal.target
    BY <2>1 DEF IInv, PlanOK, Upgrading
  <2>3. work.incoming.db.kind = "new"
    BY <2>1, <2>2 DEF IInv, PlanOK, Upgrading, JournalOK, UpgradeJournal
  <2>4. Suffix(work.todo, UpgradeSteps) /\ Left \in 1..9
    BY <2>1 DEF IInv, UpgradeOK, Suffix, Left, UpgradeSteps
  <2>5. Left = 9
    BY <1>1, <2>1, <2>3, <2>4 DEF IInv, UpgradeOK
  <2>6. Left' = 9
    BY <1>1, <2>5 DEF Left
  <2>7. journal'.progress = "none" /\ Suffix(work'.todo, UpgradeSteps)
    <3>1. journal.progress = "none"
      BY <2>1, <2>5 DEF IInv, UpgradeOK
    <3> QED
      BY <1>1, <2>4, <3>1
  <2> QED
    BY <2>6, <2>7 DEF UpgradeOK
<1>12. RestoreOK'
  <2>1. SUFFICES ASSUME work.phase = "restore"
                 PROVE  RestoreOK'
    BY <1>1 DEF RestoreOK
  <2>2. Steps' = Steps /\ DoneSteps' = DoneSteps
    BY <1>1 DEF Steps, DoneSteps, Left, RestoreSteps
  <2>3. DoneSteps \notin 1..3
    BY <1>1, <2>1 DEF IInv, RestoreOK
  <2>4. DoneSteps \in Nat
    BY <2>1 DEF IInv, RestoreOK, Suffix, DoneSteps, Left, Steps, RestoreSteps
  <2>5. /\ journal' # None /\ ~Settled'
        /\ journal'.backup # None /\ work'.incoming = journal'.backup
        /\ Suffix(work'.todo, Steps')
    BY <1>1, <2>1, <2>2 DEF IInv, RestoreOK, Settled, Suffix
  <2> QED
    BY <1>1, <1>7, <2>1, <2>2, <2>3, <2>4, <2>5 DEF IInv, RestoreOK
<1> QED
  BY <1>6, <1>8, <1>9, <1>10, <1>11, <1>12 DEF IInv

\* A connection closes into its own file, which no switch has moved yet.
LEMMA CloseSessionOK == IInv /\ CloseSession => IInv'
<1> SUFFICES ASSUME IInv, CloseSession
             PROVE  IInv'
  OBVIOUS
<1>1. /\ session' = [kind |-> None, live |-> FALSE]
      /\ UNCHANGED <<brief, journal, work, commits, acked, from, goal, faults, oldRuntime>>
  BY DEF CloseSession
<1>2. SessionOK'
  BY <1>1 DEF SessionOK
<1>3. CASE session.live /\ wal # None /\ db # None
  <2>1. db' = wal /\ wal' = None /\ disturbed' = (disturbed \/ ~Settled)
    BY <1>3 DEF CloseSession
  <2>2. Typed'
    BY <1>1, <1>3, <2>1, SameKnown DEF IInv, Typed, Settled
  <2>3. SettledOK'
    BY <1>1, <1>3, <2>1 DEF IInv, SettledOK, Settled, Whole, Latest
  <2>4. JournalOK'
    BY <1>1 DEF IInv, JournalOK, Settled, OldFiles, UpgradeJournal, LatestOf, ReturnJournal
  <2>5. KnownOK'
    <3>1. ~(~Settled' /\ ~disturbed')
      BY <1>1, <2>1 DEF Settled
    <3> QED
      BY <3>1 DEF KnownOK
  <2>6. PlanOK'
    BY <1>1 DEF IInv, PlanOK, Upgrading, OldFiles, Settled
  <2>7. UpgradeOK'
    <3>1. SUFFICES ASSUME work.phase = "upgrade"
                   PROVE  UpgradeOK'
      BY <1>1 DEF UpgradeOK
    <3>2. Suffix(work.todo, UpgradeSteps) /\ Left \in 1..9
      BY <3>1 DEF IInv, UpgradeOK, Suffix, Left, UpgradeSteps
    <3>3. Left = 9
      BY <1>3, <3>1, <3>2 DEF IInv, UpgradeOK
    <3>4. Left' = 9
      BY <1>1, <3>3 DEF Left
    <3>5. journal'.progress = "none" /\ Suffix(work'.todo, UpgradeSteps)
      <4>1. journal.progress = "none"
        BY <3>1, <3>3 DEF IInv, UpgradeOK
      <4> QED
        BY <1>1, <3>2, <4>1
    <3> QED
      BY <3>4, <3>5 DEF UpgradeOK
  <2>8. RestoreOK'
    <3>1. SUFFICES ASSUME work.phase = "restore"
                   PROVE  RestoreOK'
      BY <1>1 DEF RestoreOK
    <3>2. Steps' = Steps /\ DoneSteps' = DoneSteps
      BY <1>1 DEF Steps, DoneSteps, Left, RestoreSteps
    <3>3. DoneSteps \in Nat
      BY <3>1 DEF IInv, RestoreOK, Suffix, DoneSteps, Left, Steps, RestoreSteps
    <3>4. DoneSteps' = 0
      BY <1>3, <3>1, <3>2, <3>3 DEF IInv, RestoreOK
    <3>5. /\ journal' # None /\ ~Settled'
          /\ journal'.backup # None /\ work'.incoming = journal'.backup
          /\ Suffix(work'.todo, Steps')
      BY <1>1, <3>1, <3>2 DEF IInv, RestoreOK, Settled, Suffix
    <3> QED
      BY <3>4, <3>5 DEF RestoreOK
  <2> QED
    BY <1>2, <2>2, <2>3, <2>4, <2>5, <2>6, <2>7, <2>8 DEF IInv
<1>4. CASE ~(session.live /\ wal # None /\ db # None)
  <2>1. UNCHANGED <<db, wal, disturbed>>
    BY <1>4 DEF CloseSession
  <2>2. Typed'
    BY <1>1, <2>1, SameKnown DEF IInv, Typed
  <2> QED
    BY <1>1, <1>2, <2>1, <2>2, SameFiles, SameWork DEF IInv, files
<1> QED
  BY <1>3, <1>4

-----------------------------------------------------------------------------
(* An upgrade up to its switch.                                            *)

\* What an upgrade in progress knows.
LEMMA UpgradingFacts ==
    ASSUME IInv, Upgrading
    PROVE  /\ journal # None /\ journal \in KJournal /\ ~Settled
           /\ journal.intent = "upgrade" /\ journal.source = work.plan
           /\ OldFiles(journal.source) /\ UpgradeJournal(journal)
           /\ work \in KWork
BY DEF IInv, Typed, PlanOK, JournalOK

\* An upgrade that fails is recorded: the recovery decides by the files.
LEMMA FailedOK ==
    ASSUME IInv, Upgrading, Failed,
           UNCHANGED <<files, session, oldRuntime, commits, acked, from, goal, disturbed>>,
           faults' \in 0..MaxFaults
    PROVE  IInv'
<1>1. work' = Idle /\ journal' = [journal EXCEPT !.stage = "failed"]
  BY DEF Failed, Save
<1>2. /\ journal # None /\ journal \in KJournal /\ ~Settled
      /\ journal.intent = "upgrade" /\ UpgradeJournal(journal)
  BY UpgradingFacts
<1>3. /\ journal' \in KJournal /\ journal'.stage = "failed"
      /\ journal'.intent = journal.intent /\ journal'.progress = journal.progress
      /\ journal'.source = journal.source /\ journal'.backup = journal.backup
      /\ journal'.target = journal.target
  BY <1>1, <1>2, Saved
<1>4. journal' # None /\ ~Settled'
  BY <1>3, NoneFacts DEF IInv, Settled
<1>5. Typed' /\ SessionOK' /\ SettledOK'
  BY <1>1, <1>3, <1>4, SameKnown, IdleFacts DEF IInv, Typed, SessionOK, SettledOK, files
<1>6. JournalOK'
  <2>1. UpgradeJournal(journal)'
    BY <1>2, <1>3, <1>4 DEF UpgradeJournal, LatestOf
  <2> QED
    BY <1>2, <1>3, <2>1 DEF IInv, JournalOK, OldFiles
<1>7. KnownOK'
  BY <1>2, <1>3, <1>4
     DEF IInv, KnownOK, Unmoved, Moving, Fingerprint, files
<1> QED
  BY <1>1, <1>5, <1>6, <1>7, NoWork DEF IInv

LEMMA FailOK == IInv /\ Fail => IInv'
<1> SUFFICES ASSUME IInv, Fail
             PROVE  IInv'
  OBVIOUS
<1>1. /\ Upgrading /\ Failed /\ faults < MaxFaults /\ faults' = faults + 1
      /\ UNCHANGED <<files, session, oldRuntime, commits, acked, from, goal, disturbed>>
  BY DEF Fail
<1>2. faults' \in 0..MaxFaults
  BY <1>1, NoneFacts DEF IInv, Typed
<1> QED
  BY <1>1, <1>2, FailedOK

LEMMA BeginOK == IInv /\ Begin => IInv'
<1> SUFFICES ASSUME IInv, Begin
             PROVE  IInv'
  OBVIOUS
<1>1. /\ work.phase = "planned"
      /\ UNCHANGED <<files, session, commits, acked, faults, oldRuntime>>
  BY DEF Begin
<1>2. CASE SameSource(work.plan) /\ Settled
  <2>1. /\ journal' = NewJournal(work.plan)
        /\ work' = [work EXCEPT !.phase = "begun"]
        /\ from' = [kind |-> "old", last |-> Latest]
        /\ goal' = [kind |-> "new", last |-> Latest] /\ disturbed' = FALSE
    BY <1>2 DEF Begin, Save, Phase
  <2>2. /\ work.plan # None /\ OldFiles(work.plan) /\ work.todo = <<>>
    BY <1>1 DEF IInv, PlanOK
  <2>3. Fingerprint = work.plan
    BY <1>2 DEF SameSource
  <2>4. db # None /\ (~oldRuntime => Latest = acked)
    BY <1>2 DEF IInv, SettledOK, Whole
  <2>5. Latest \in 0..commits /\ Latest = LatestOf(work.plan) /\ work.plan \in KSource
    BY <2>3, <2>4, LatestFacts DEF IInv
  <2>6. from' \in KContent /\ goal' \in KContent
    BY <2>1, <2>5 DEF KContent, Kind
  <2>7. /\ journal' \in KJournal
        /\ journal'.intent = "upgrade" /\ journal'.stage = "previewed"
        /\ journal'.progress = "none" /\ journal'.source = work.plan
        /\ journal'.backup = None /\ journal'.target = None
    BY <2>1, <2>5 DEF NewJournal, KJournal, Progress
  <2>8. /\ work' \in KWork /\ work'.phase = "begun" /\ work'.plan = work.plan
        /\ work'.todo = <<>>
    BY <2>1, <2>2 DEF IInv, Typed, KWork, Phases
  <2>9. Typed' /\ SessionOK'
    BY <1>1, <2>1, <2>6, <2>7, <2>8, SameKnown DEF IInv, Typed, SessionOK, files
  <2>10. journal' # None /\ ~Settled'
    BY <2>7, NoneFacts DEF IInv, Settled
  <2>11. SettledOK' /\ KnownOK'
    <3>1. Unmoved(journal)'
      BY <1>1, <2>3, <2>7 DEF Unmoved, Fingerprint, files
    <3> QED
      BY <3>1, <2>7, <2>10 DEF SettledOK, KnownOK
  <2>12. JournalOK'
    <3>1. UpgradeJournal(journal)'
      BY <1>1, <2>1, <2>4, <2>5, <2>7 DEF UpgradeJournal, LatestOf
    <3> QED
      BY <2>2, <2>7, <3>1 DEF JournalOK, OldFiles
  <2>13. PlanOK' /\ UpgradeOK' /\ RestoreOK'
    BY <2>2, <2>7, <2>8, <2>10 DEF PlanOK, UpgradeOK, RestoreOK, Upgrading, OldFiles
  <2> QED
    BY <2>9, <2>11, <2>12, <2>13 DEF IInv
<1>3. CASE ~(SameSource(work.plan) /\ Settled)
  <2>1. work' = Idle /\ UNCHANGED <<journal, from, goal, disturbed>>
    BY <1>3 DEF Begin
  <2>2. Typed' /\ SessionOK'
    BY <1>1, <2>1, SameKnown, IdleFacts DEF IInv, Typed, SessionOK, files
  <2> QED
    BY <1>1, <2>1, <2>2, SameFiles, NoWork DEF IInv
<1> QED
  BY <1>2, <1>3

LEMMA BackUpOK == IInv /\ BackUp => IInv'
<1> SUFFICES ASSUME IInv, BackUp
             PROVE  IInv'
  OBVIOUS
<1>1. work.phase = "begun" /\ UNCHANGED <<files, session, past>>
  BY DEF BackUp
<1>2. Upgrading
  BY <1>1 DEF Upgrading
<1>3. CASE SameSource(work.plan)
  <2>1. /\ journal' = [journal EXCEPT !.stage = "copied",
                          !.backup = [db |-> BackupCopy, brief |-> brief]]
        /\ work' = [work EXCEPT !.phase = "copied"]
    BY <1>3 DEF BackUp, Save, Phase
  <2>2. /\ journal # None /\ journal \in KJournal /\ ~Settled
        /\ journal.intent = "upgrade" /\ journal.source = work.plan
        /\ OldFiles(journal.source) /\ UpgradeJournal(journal)
        /\ work \in KWork
    BY <1>2, UpgradingFacts
  <2>3. Fingerprint = journal.source
    BY <1>3, <2>2 DEF SameSource
  <2>4. brief = journal.source.brief /\ Latest = LatestOf(journal.source)
    BY <2>3 DEF Fingerprint, Latest, LatestOf
  <2>5. [db |-> BackupCopy, brief |-> brief] = [db |-> from, brief |-> journal.source.brief]
    BY <2>2, <2>4 DEF BackupCopy, UpgradeJournal
  <2>6. [db |-> from, brief |-> journal.source.brief] \in KPair
    BY <2>4 DEF IInv, Typed, KPair
  <2>7. /\ journal' \in KJournal /\ journal'.stage = "copied"
        /\ journal'.intent = "upgrade" /\ journal'.progress = journal.progress
        /\ journal'.source = journal.source /\ journal'.target = journal.target
        /\ journal'.backup = [db |-> from, brief |-> journal.source.brief]
    BY <2>1, <2>2, <2>5, <2>6 DEF KJournal
  <2>8. journal'.backup # None /\ journal'.backup.db.kind = "old"
        /\ journal'.backup.brief = journal.source.brief
    <3>1. journal'.backup # None
      BY <2>6, <2>7, NoneFacts DEF IInv
    <3>2. from.kind = "old"
      BY <2>2 DEF UpgradeJournal
    <3> QED
      BY <2>7, <3>1, <3>2
  <2>9. /\ work' \in KWork /\ work'.phase = "copied" /\ work'.plan = work.plan
        /\ work'.todo = <<>> /\ journal.progress = "none"
    BY <1>1, <2>1, <2>2 DEF IInv, PlanOK, KWork, Phases
  <2>10. Typed' /\ SessionOK'
    BY <1>1, <2>1, <2>7, <2>9, SameKnown DEF IInv, Typed, SessionOK, files, past
  <2>11. journal' # None /\ ~Settled'
    BY <1>1, <2>7, <2>10, NoneFacts, SameKnown DEF IInv, Settled, past
  <2>12. SettledOK' /\ KnownOK'
    <3>1. Unmoved(journal)'
      BY <1>1, <2>3, <2>7, <2>9 DEF Unmoved, Fingerprint, files
    <3> QED
      BY <3>1, <2>7, <2>11 DEF SettledOK, KnownOK
  <2>13. JournalOK'
    <3>1. UpgradeJournal(journal)'
      BY <1>1, <2>2, <2>7, <2>11 DEF UpgradeJournal, LatestOf, past
    <3> QED
      BY <2>2, <2>7, <2>8, <3>1 DEF JournalOK, OldFiles
  <2>14. PlanOK' /\ UpgradeOK' /\ RestoreOK'
    <3>1. work.plan # None /\ OldFiles(work.plan)
      BY <1>1 DEF IInv, PlanOK
    <3> QED
      BY <2>2, <2>7, <2>8, <2>9, <2>11, <3>1
         DEF PlanOK, UpgradeOK, RestoreOK, Upgrading, OldFiles
  <2> QED
    BY <2>10, <2>12, <2>13, <2>14 DEF IInv
<1>4. CASE ~SameSource(work.plan)
  <2>1. Failed
    BY <1>4 DEF BackUp
  <2>2. faults' \in 0..MaxFaults
    BY <1>1 DEF IInv, Typed, past
  <2> QED
    BY <1>1, <1>2, <2>1, <2>2, FailedOK DEF past
<1> QED
  BY <1>3, <1>4

LEMMA StageOK == IInv /\ Stage => IInv'
<1> SUFFICES ASSUME IInv, Stage
             PROVE  IInv'
  OBVIOUS
<1>1. work.phase = "copied" /\ UNCHANGED <<files, session, past>>
  BY DEF Stage
<1>2. Upgrading
  BY <1>1 DEF Upgrading
<1>3. /\ journal # None /\ journal \in KJournal /\ ~Settled
      /\ journal.intent = "upgrade" /\ journal.source = work.plan
      /\ OldFiles(journal.source) /\ UpgradeJournal(journal)
      /\ work \in KWork
  BY <1>2, UpgradingFacts
<1>4. journal.backup # None /\ journal.progress = "none"
  BY <1>1 DEF IInv, PlanOK
<1>5. journal.backup.db = from
  BY <1>3, <1>4 DEF UpgradeJournal
<1> DEFINE made == [db |-> [journal.backup.db EXCEPT !.kind = "new"], brief |-> "new"]
<1>6. made = [db |-> goal, brief |-> "new"]
  <2>1. /\ from = [kind |-> "old", last |-> LatestOf(journal.source)]
        /\ goal = [kind |-> "new", last |-> LatestOf(journal.source)]
    BY <1>3 DEF UpgradeJournal
  <2> QED
    BY <1>5, <2>1
<1>7. made \in KPair /\ made # None
  <2>1. made \in KPair
    BY <1>6 DEF IInv, Typed, KPair, Kind
  <2> QED
    BY <2>1, NoneFacts DEF IInv
<1>8. /\ journal' = [journal EXCEPT !.stage = "validated", !.target = made]
      /\ work' = [work EXCEPT !.phase = "staged", !.incoming = made]
  BY DEF Stage, Save
<1>9. /\ journal' \in KJournal /\ journal'.stage = "validated"
      /\ journal'.intent = "upgrade" /\ journal'.progress = "none"
      /\ journal'.source = journal.source /\ journal'.backup = journal.backup
      /\ journal'.target = made
  <2> HIDE DEF made
  <2> QED
    BY <1>3, <1>4, <1>7, <1>8 DEF KJournal
<1>10. /\ work' \in KWork /\ work'.phase = "staged" /\ work'.plan = work.plan
       /\ work'.incoming = made /\ work'.todo = <<>>
  <2>1. work.todo = <<>>
    BY <1>1 DEF IInv, PlanOK
  <2> HIDE DEF made
  <2> QED
    BY <1>3, <1>7, <1>8, <2>1 DEF KWork, Phases
<1> HIDE DEF made
<1>11. Typed' /\ SessionOK'
  BY <1>1, <1>9, <1>10, SameKnown DEF IInv, Typed, SessionOK, files, past
<1>12. journal' # None /\ ~Settled'
  BY <1>1, <1>9, <1>11, NoneFacts, SameKnown DEF IInv, Settled, past
<1>13. SettledOK' /\ KnownOK'
  <2>1. SettledOK'
    BY <1>12 DEF SettledOK
  <2>2. ASSUME ~disturbed
        PROVE  Unmoved(journal)' \/ Moving(journal)'
    <3>1. CASE Unmoved(journal)
      BY <1>1, <1>4, <1>9, <3>1 DEF Unmoved, Fingerprint, files
    <3>2. CASE Moving(journal)
      BY <1>1, <1>4, <1>7, <1>9, <3>2 DEF Moving, files
    <3> QED
      BY <1>3, <2>2, <3>1, <3>2 DEF IInv, KnownOK
  <2> QED
    BY <1>1, <1>9, <2>1, <2>2 DEF KnownOK, past
<1>14. JournalOK'
  <2>1. UpgradeJournal(journal)'
    BY <1>1, <1>3, <1>6, <1>9, <1>12 DEF UpgradeJournal, LatestOf, past
  <2> QED
    BY <1>3, <1>4, <1>9, <2>1 DEF IInv, JournalOK, OldFiles
<1>15. PlanOK' /\ UpgradeOK' /\ RestoreOK'
  <2>1. work.plan # None
    BY <1>1 DEF IInv, PlanOK
  <2> QED
    BY <1>3, <1>4, <1>7, <1>9, <1>10, <1>12, <2>1
       DEF PlanOK, UpgradeOK, RestoreOK, Upgrading, OldFiles
<1> QED
  BY <1>11, <1>13, <1>14, <1>15 DEF IInv

LEMMA UpgradeStepsFacts ==
    UpgradeSteps \in Seq(StepName) /\ Len(UpgradeSteps) = 9 /\ Suffix(UpgradeSteps, UpgradeSteps)
<1>1. UpgradeSteps \in Seq(StepName) /\ Len(UpgradeSteps) = 9
  BY DEF UpgradeSteps, StepName
<1> QED
  BY <1>1 DEF Suffix

LEMMA ReleaseOK == IInv /\ Release => IInv'
<1> SUFFICES ASSUME IInv, Release
             PROVE  IInv'
  OBVIOUS
<1>1. work.phase = "staged" /\ UNCHANGED <<files, session, past>>
  BY DEF Release
<1>2. Upgrading
  BY <1>1 DEF Upgrading
<1>3. CASE SameSource(work.plan)
  <2>1. work' = [work EXCEPT !.phase = "upgrade", !.todo = UpgradeSteps] /\ journal' = journal
    BY <1>3 DEF Release
  <2>2. work \in KWork /\ journal # None /\ ~Settled
    BY <1>2, UpgradingFacts
  <2>3. /\ work' \in KWork /\ work'.phase = "upgrade" /\ work'.plan = work.plan
        /\ work'.incoming = work.incoming /\ work'.todo = UpgradeSteps
    BY <2>1, <2>2, UpgradeStepsFacts DEF KWork, Phases
  <2>4. Typed' /\ SessionOK'
    BY <1>1, <2>1, <2>3, SameKnown DEF IInv, Typed, SessionOK, files, past
  <2>5. PlanOK'
    BY <1>1, <1>2, <2>1, <2>3 DEF IInv, PlanOK, Upgrading, OldFiles, Settled
  <2>6. UpgradeOK'
    <3>1. journal'.progress = "none"
      BY <1>1, <2>1 DEF IInv, PlanOK
    <3>2. Left' = 9
      BY <2>3, UpgradeStepsFacts DEF Left
    <3> QED
      BY <2>3, <3>1, <3>2, UpgradeStepsFacts DEF UpgradeOK
  <2>7. RestoreOK'
    BY <2>3 DEF RestoreOK
  <2> QED
    BY <1>1, <2>1, <2>4, <2>5, <2>6, <2>7, SameFiles DEF IInv, past
<1>4. CASE ~SameSource(work.plan)
  <2>1. Failed
    BY <1>4 DEF Release
  <2>2. faults' \in 0..MaxFaults
    BY <1>1 DEF IInv, Typed, past
  <2> QED
    BY <1>1, <1>2, <2>1, <2>2, FailedOK DEF past
<1> QED
  BY <1>3, <1>4

-----------------------------------------------------------------------------
(* Where a switch is, and what its next step is.                           *)

LEMMA Advance ==
    ASSUME NEW steps \in Seq(StepName), NEW s, Suffix(s, steps)
    PROVE  /\ s # <<>> /\ Len(s) \in 1..Len(steps) /\ Len(steps) \in Nat
           /\ Head(s) = steps[Len(steps) - Len(s) + 1]
           /\ Head(s) # steps[Len(steps)] =>
                 Len(s) > 1 /\ Suffix(Tail(s), steps) /\ Len(Tail(s)) = Len(s) - 1
<1>1. /\ s \in Seq(StepName) /\ Len(s) \in Nat \ {0} /\ Len(steps) \in Nat
      /\ Len(s) <= Len(steps)
  BY DEF Suffix
<1>2. /\ s # <<>> /\ Head(s) = s[1] /\ Tail(s) \in Seq(StepName)
      /\ Len(Tail(s)) = Len(s) - 1 /\ \A i \in 1..(Len(s) - 1) : Tail(s)[i] = s[i + 1]
  BY <1>1
<1>3. PICK n \in Nat \ {0} : Len(s) = n
  BY <1>1
<1>4. PICK m \in Nat : Len(steps) = m
  BY <1>1
<1>5. n <= m /\ Head(s) = steps[m - n + 1]
  BY <1>1, <1>2, <1>3, <1>4 DEF Suffix
<1>6. ASSUME Head(s) # steps[m]
      PROVE  n > 1 /\ Suffix(Tail(s), steps)
  <2>1. n > 1
    BY <1>5, <1>6
  <2>2. \A i \in 1..(n - 1) : Tail(s)[i] = steps[m - (n - 1) + i]
    <3>1. SUFFICES ASSUME NEW i \in 1..(n - 1)
                   PROVE  Tail(s)[i] = steps[m - (n - 1) + i]
      OBVIOUS
    <3>2. Tail(s)[i] = s[i + 1]
      BY <1>2, <1>3
    <3>3. s[i + 1] = steps[m - n + (i + 1)]
      BY <1>3, <1>4 DEF Suffix
    <3>4. i \in Int /\ m - n + (i + 1) = m - (n - 1) + i
      OBVIOUS
    <3> QED
      BY <3>2, <3>3, <3>4
  <2>3. Len(Tail(s)) = n - 1 /\ Tail(s) \in Seq(StepName) /\ n - 1 \in 1..m
    BY <1>2, <1>3, <1>5, <2>1
  <2>4. \A i \in 1..Len(Tail(s)) :
           Tail(s)[i] = steps[Len(steps) - Len(Tail(s)) + i]
    BY ONLY <1>4, <2>2, <2>3
  <2>5. Len(Tail(s)) \in 1..Len(steps)
    BY ONLY <1>4, <2>3
  <2> QED
    BY <2>1, <2>3, <2>4, <2>5 DEF Suffix
<1> QED
  BY <1>2, <1>3, <1>4, <1>5, <1>6

LEMMA RestoreStepsFacts ==
    ASSUME NEW p
    PROVE  /\ RestoreSteps(p) \in Seq(StepName)
           /\ Len(RestoreSteps(p)) = IF p.brief = None THEN 5 ELSE 6
           /\ Suffix(RestoreSteps(p), RestoreSteps(p))
<1>1. RestoreSteps(p) \in Seq(StepName)
  <2>1. <<"move_db", "move_wal", "move_brief", "install_db", "complete">> \in Seq(StepName)
    BY DEF StepName
  <2>2. <<"move_db", "move_wal", "move_brief", "install_db", "install_brief", "complete">>
          \in Seq(StepName)
    BY DEF StepName
  <2> QED
    BY <2>1, <2>2 DEF RestoreSteps
<1>2. Len(RestoreSteps(p)) = IF p.brief = None THEN 5 ELSE 6
  BY DEF RestoreSteps
<1> QED
  BY <1>1, <1>2 DEF Suffix

\* Only an upgrade's or a restore's switch has steps to do.
LEMMA InSwitch ==
    ASSUME IInv, NEW step, Doing(step)
    PROVE  /\ work.phase \in {"upgrade", "restore"}
           /\ journal # None /\ journal \in KJournal /\ ~Settled
           /\ work \in KWork /\ work.incoming # None /\ work.incoming \in KPair
<1>1. work \in KWork /\ work.phase \in {"upgrade", "restore"}
  BY DEF IInv, Typed, PlanOK, Doing
<1>2. journal # None /\ journal \in KJournal /\ ~Settled
  BY <1>1 DEF IInv, Typed, PlanOK, Upgrading, RestoreOK
<1>3. work.incoming # None /\ work.incoming \in KPair
  BY <1>1 DEF IInv, PlanOK, RestoreOK, KWork
<1> QED
  BY <1>1, <1>2, <1>3

LEMMA UpgradeAt ==
    ASSUME IInv, work.phase = "upgrade", NEW step, Doing(step)
    PROVE  /\ Left \in 1..9
           /\ step = "move_db" => Left = 9
           /\ step = "move_wal" => Left = 8
           /\ step = "move_brief" => Left = 7
           /\ step = "old_moved" => Left = 6
           /\ step = "install_db" => Left = 5
           /\ step = "database_installed" => Left = 4
           /\ step = "install_brief" => Left = 3
           /\ step = "brief_installed" => Left = 2
           /\ step = "complete" => Left = 1
           /\ step # "none"
<1>1. Suffix(work.todo, UpgradeSteps)
  BY DEF IInv, UpgradeOK
<1>2. PICK n \in 1..9 : Left = n
  BY <1>1, UpgradeStepsFacts DEF Suffix, Left
<1>3. Head(work.todo) = UpgradeSteps[Len(UpgradeSteps) - Len(work.todo) + 1]
  BY <1>1, UpgradeStepsFacts, Advance
<1>4. step = UpgradeSteps[9 - n + 1]
  BY <1>2, <1>3, UpgradeStepsFacts DEF Doing, Left
<1> QED
  BY <1>2, <1>4 DEF UpgradeSteps

LEMMA RestoreAt ==
    ASSUME IInv, work.phase = "restore", NEW step, Doing(step)
    PROVE  /\ DoneSteps \in 0..(Len(Steps) - 1) /\ Left = Len(Steps) - DoneSteps
           /\ Len(Steps) = IF work.incoming.brief = None THEN 5 ELSE 6
           /\ step = "move_db" => DoneSteps = 0
           /\ step = "move_wal" => DoneSteps = 1
           /\ step = "move_brief" => DoneSteps = 2
           /\ step = "install_db" => DoneSteps = 3
           /\ step = "install_brief" => DoneSteps = 4 /\ work.incoming.brief # None
           /\ step = "complete" => DoneSteps = Len(Steps) - 1
           /\ step \notin Progress
<1>1. Suffix(work.todo, Steps)
  BY DEF IInv, RestoreOK
<1>2. Len(Steps) = IF work.incoming.brief = None THEN 5 ELSE 6
  BY RestoreStepsFacts DEF Steps
<1>8. PICK m \in {5, 6} : Len(Steps) = m
  BY <1>2
<1>9. PICK n \in 1..m : Left = n
  BY <1>1, <1>8 DEF Suffix, Left
<1>3. DoneSteps \in 0..(m - 1) /\ n = m - DoneSteps
  BY <1>8, <1>9 DEF DoneSteps
<1>4. Head(work.todo) = Steps[Len(Steps) - Len(work.todo) + 1]
  BY <1>1, RestoreStepsFacts, Advance DEF Steps
<1>5. step = Steps[DoneSteps + 1]
  BY <1>4 DEF Doing, DoneSteps, Left
<1>6. CASE work.incoming.brief = None
  <2>1. Steps = <<"move_db", "move_wal", "move_brief", "install_db", "complete">>
    BY <1>6 DEF Steps, RestoreSteps
  <2> QED
    BY <1>2, <1>3, <1>5, <1>6, <1>8, <1>9, <2>1 DEF Progress
<1>7. CASE work.incoming.brief # None
  <2>1. Steps = <<"move_db", "move_wal", "move_brief", "install_db", "install_brief", "complete">>
    BY <1>7 DEF Steps, RestoreSteps
  <2> QED
    BY <1>2, <1>3, <1>5, <1>7, <1>8, <1>9, <2>1 DEF Progress
<1> QED
  BY <1>6, <1>7

LEMMA DoneOK ==
    ASSUME IInv, NEW step, Doing(step), step # "complete", Done
    PROVE  /\ work' \in KWork /\ work'.phase = work.phase /\ work'.plan = work.plan
           /\ work'.incoming = work.incoming
           /\ work.phase = "upgrade" =>
                 Suffix(work'.todo, UpgradeSteps) /\ Left' = Left - 1
           /\ work.phase = "restore" =>
                 Suffix(work'.todo, Steps') /\ DoneSteps' = DoneSteps + 1 /\ Steps' = Steps
<1>1. work \in KWork /\ work.phase \in {"upgrade", "restore"}
  BY InSwitch
<1>2. work' = [work EXCEPT !.todo = Tail(work.todo)]
  BY DEF Done
<1>3. work.todo \in Seq(StepName) /\ work.todo # <<>>
  BY <1>1 DEF KWork, Doing
<1>4. Tail(work.todo) \in Seq(StepName)
  BY <1>3
<1>5. /\ work' \in KWork /\ work'.phase = work.phase /\ work'.plan = work.plan
      /\ work'.incoming = work.incoming /\ work'.todo = Tail(work.todo)
  BY <1>1, <1>2, <1>4 DEF KWork
<1>6. CASE work.phase = "upgrade"
  <2>1. Suffix(work.todo, UpgradeSteps)
    BY <1>6 DEF IInv, UpgradeOK
  <2>2. Head(work.todo) # UpgradeSteps[Len(UpgradeSteps)]
    BY DEF Doing, UpgradeSteps
  <2>3. Suffix(Tail(work.todo), UpgradeSteps) /\ Len(Tail(work.todo)) = Len(work.todo) - 1
    BY <2>1, <2>2, UpgradeStepsFacts, Advance
  <2> QED
    BY <1>5, <1>6, <2>3 DEF Left
<1>7. CASE work.phase = "restore"
  <2>1. Suffix(work.todo, Steps)
    BY <1>7 DEF IInv, RestoreOK
  <2>2. Steps' = Steps
    BY <1>5 DEF Steps, RestoreSteps
  <2>3. Head(work.todo) # Steps[Len(Steps)]
    BY DEF Doing, Steps, RestoreSteps
  <2>4. /\ Len(work.todo) \in 1..Len(Steps) /\ Len(Steps) \in Nat
        /\ Suffix(Tail(work.todo), Steps) /\ Len(Tail(work.todo)) = Len(work.todo) - 1
    BY <2>1, <2>3, RestoreStepsFacts, Advance DEF Steps
  <2>5. DoneSteps' = DoneSteps + 1
    <3>1. DoneSteps' = Len(Steps) - (Len(work.todo) - 1)
      BY <1>5, <2>2, <2>4 DEF DoneSteps, Left
    <3>2. PICK n \in Nat, m \in Nat : Len(work.todo) = n /\ Len(Steps) = m
      BY <2>4
    <3>3. DoneSteps' = m - (n - 1) /\ DoneSteps = m - n
      BY <3>1, <3>2 DEF DoneSteps, Left
    <3> QED
      BY <3>3
  <2> QED
    BY <1>5, <1>7, <2>2, <2>4, <2>5
<1> QED
  BY <1>1, <1>6, <1>7

-----------------------------------------------------------------------------
(* The steps of a switch.                                                  *)

\* What every step of a switch keeps, whichever file it moves or installs.
LEMMA SwitchStep ==
    ASSUME IInv, NEW step, Doing(step), step # "complete", Done,
           UNCHANGED <<journal, past>>
    PROVE  /\ SettledOK' /\ JournalOK' /\ PlanOK'
           /\ journal' = journal /\ ~Settled' /\ disturbed' = disturbed
           /\ KWork' = KWork /\ KContent' = KContent
<1>1. /\ work.phase \in {"upgrade", "restore"} /\ journal # None /\ ~Settled
  BY InSwitch
<1>2. ~Settled'
  BY <1>1 DEF Settled
<1>3. JournalOK'
  BY <1>1, <1>2
     DEF IInv, JournalOK, OldFiles, UpgradeJournal, LatestOf, ReturnJournal, past
<1>4. PlanOK'
  BY <1>1, <1>2, DoneOK DEF IInv, PlanOK, Upgrading, OldFiles
<1> QED
  BY <1>2, <1>3, <1>4, SameKnown DEF SettledOK, past

LEMMA MoveDbOK == IInv /\ MoveDb => IInv'
<1> SUFFICES ASSUME IInv, MoveDb
             PROVE  IInv'
  OBVIOUS
<1>1. /\ Doing("move_db") /\ Done /\ db' = None
      /\ session' = [session EXCEPT !.live = FALSE]
      /\ UNCHANGED <<wal, brief, journal, past>>
  BY DEF MoveDb
<1>2. /\ work' \in KWork /\ work'.phase = work.phase /\ work'.incoming = work.incoming
      /\ work.phase = "upgrade" => Suffix(work'.todo, UpgradeSteps) /\ Left' = Left - 1
      /\ work.phase = "restore" =>
            Suffix(work'.todo, Steps') /\ DoneSteps' = DoneSteps + 1 /\ Steps' = Steps
  BY <1>1, DoneOK
<1>3. /\ SettledOK' /\ JournalOK' /\ PlanOK'
      /\ ~Settled' /\ disturbed' = disturbed /\ KWork' = KWork
  BY <1>1, SwitchStep
<1>4. /\ session' \in [kind : Kind \cup {None}, live : BOOLEAN] /\ ~session'.live
  BY <1>1 DEF IInv, Typed
<1>5. Typed' /\ SessionOK'
  BY <1>1, <1>2, <1>3, <1>4, SameKnown DEF IInv, Typed, SessionOK, past
<1>6. /\ work.phase \in {"upgrade", "restore"} /\ journal # None /\ ~Settled
  BY <1>1, InSwitch
<1>7. journal.backup # None
  BY <1>6 DEF IInv, PlanOK, JournalOK, RestoreOK
<1>8. KnownOK'
  <2>1. CASE journal.intent = "upgrade" /\ ~disturbed
    <3>1. Unmoved(journal) \/ Moving(journal)
      BY <1>6, <2>1 DEF IInv, KnownOK
    <3>2. Moving(journal)'
      BY <1>1, <1>7, <3>1 DEF Moving, Unmoved, Fingerprint
    <3> QED
      BY <1>1, <2>1, <3>2 DEF KnownOK
  <2>2. CASE journal.intent = "restore_backup" /\ ~disturbed
    <3>1. Returning(journal)
      BY <1>6, <2>2 DEF IInv, KnownOK
    <3>2. Returning(journal)'
      BY <1>1, <3>1 DEF Returning
    <3> QED
      BY <1>1, <2>2, <3>2 DEF KnownOK
  <2> QED
    BY <1>1, <1>3, <2>1, <2>2 DEF KnownOK
<1>9. UpgradeOK'
  <2>1. SUFFICES ASSUME work.phase = "upgrade"
                 PROVE  UpgradeOK'
    BY <1>2 DEF UpgradeOK
  <2>2. Left = 9 /\ Left' = 8
    BY <1>1, <1>2, <2>1, UpgradeAt
  <2>3. journal.progress = "none"
    BY <2>1, <2>2 DEF IInv, UpgradeOK
  <2> QED
    BY <1>1, <1>2, <1>4, <2>1, <2>2, <2>3 DEF UpgradeOK
<1>10. RestoreOK'
  <2>1. SUFFICES ASSUME work.phase = "restore"
                 PROVE  RestoreOK'
    BY <1>2 DEF RestoreOK
  <2>2. DoneSteps' = 1
    BY <1>1, <1>2, <2>1, RestoreAt
  <2>3. work.incoming = journal.backup
    BY <2>1 DEF IInv, RestoreOK
  <2> QED
    BY <1>1, <1>2, <1>3, <1>4, <1>6, <1>7, <2>1, <2>2, <2>3 DEF RestoreOK
<1> QED
  BY <1>3, <1>5, <1>8, <1>9, <1>10 DEF IInv

LEMMA MoveWalOK == IInv /\ MoveWal => IInv'
<1> SUFFICES ASSUME IInv, MoveWal
             PROVE  IInv'
  OBVIOUS
<1>1. /\ Doing("move_wal") /\ Done /\ wal' = None
      /\ UNCHANGED <<db, brief, journal, session, past>>
  BY DEF MoveWal
<1>2. /\ work' \in KWork /\ work'.phase = work.phase /\ work'.incoming = work.incoming
      /\ work.phase = "upgrade" => Suffix(work'.todo, UpgradeSteps) /\ Left' = Left - 1
      /\ work.phase = "restore" =>
            Suffix(work'.todo, Steps') /\ DoneSteps' = DoneSteps + 1 /\ Steps' = Steps
  BY <1>1, DoneOK
<1>3. /\ SettledOK' /\ JournalOK' /\ PlanOK'
      /\ ~Settled' /\ disturbed' = disturbed /\ KWork' = KWork
  BY <1>1, SwitchStep
<1>5. Typed' /\ SessionOK'
  BY <1>1, <1>2, <1>3, SameKnown DEF IInv, Typed, SessionOK, past
<1>6. /\ work.phase \in {"upgrade", "restore"} /\ journal # None /\ ~Settled
  BY <1>1, InSwitch
<1>7. db = None /\ ~session.live
  <2>1. CASE work.phase = "upgrade"
    <3>1. Left = 8
      BY <1>1, <2>1, UpgradeAt
    <3> QED
      BY <2>1, <3>1 DEF IInv, UpgradeOK
  <2>2. CASE work.phase = "restore"
    <3>1. DoneSteps = 1
      BY <1>1, <2>2, RestoreAt
    <3> QED
      BY <2>2, <3>1 DEF IInv, RestoreOK
  <2> QED
    BY <1>6, <2>1, <2>2
<1>8. KnownOK'
  <2>1. CASE journal.intent = "upgrade" /\ ~disturbed
    <3>1. ~Unmoved(journal)
      BY <1>6, <1>7, JournalFields, NoneFacts DEF IInv, Unmoved, Fingerprint
    <3>2. Moving(journal)
      BY <1>6, <2>1, <3>1 DEF IInv, KnownOK
    <3>3. Moving(journal)'
      BY <1>1, <3>2 DEF Moving
    <3> QED
      BY <1>1, <2>1, <3>3 DEF KnownOK
  <2>2. CASE journal.intent = "restore_backup" /\ ~disturbed
    <3>1. Returning(journal)
      BY <1>6, <2>2 DEF IInv, KnownOK
    <3>2. Returning(journal)'
      BY <1>1, <3>1 DEF Returning
    <3> QED
      BY <1>1, <2>2, <3>2 DEF KnownOK
  <2> QED
    BY <1>1, <1>3, <2>1, <2>2 DEF KnownOK
<1>9. UpgradeOK'
  <2>1. SUFFICES ASSUME work.phase = "upgrade"
                 PROVE  UpgradeOK'
    BY <1>2 DEF UpgradeOK
  <2>2. Left = 8 /\ Left' = 7
    BY <1>1, <1>2, <2>1, UpgradeAt
  <2>3. journal.progress = "none"
    BY <2>1, <2>2 DEF IInv, UpgradeOK
  <2> QED
    BY <1>1, <1>2, <1>7, <2>1, <2>2, <2>3 DEF UpgradeOK
<1>10. RestoreOK'
  <2>1. SUFFICES ASSUME work.phase = "restore"
                 PROVE  RestoreOK'
    BY <1>2 DEF RestoreOK
  <2>2. DoneSteps' = 2
    BY <1>1, <1>2, <2>1, RestoreAt
  <2>3. work.incoming = journal.backup /\ journal.backup # None
    BY <2>1 DEF IInv, RestoreOK
  <2> QED
    BY <1>1, <1>2, <1>3, <1>6, <1>7, <2>1, <2>2, <2>3 DEF RestoreOK
<1> QED
  BY <1>3, <1>5, <1>8, <1>9, <1>10 DEF IInv

LEMMA MoveBriefOK == IInv /\ MoveBrief => IInv'
<1> SUFFICES ASSUME IInv, MoveBrief
             PROVE  IInv'
  OBVIOUS
<1>1. /\ Doing("move_brief") /\ Done /\ brief' = None
      /\ UNCHANGED <<db, wal, journal, session, past>>
  BY DEF MoveBrief
<1>2. /\ work' \in KWork /\ work'.phase = work.phase /\ work'.incoming = work.incoming
      /\ work.phase = "upgrade" => Suffix(work'.todo, UpgradeSteps) /\ Left' = Left - 1
      /\ work.phase = "restore" =>
            Suffix(work'.todo, Steps') /\ DoneSteps' = DoneSteps + 1 /\ Steps' = Steps
  BY <1>1, DoneOK
<1>3. /\ SettledOK' /\ JournalOK' /\ PlanOK'
      /\ ~Settled' /\ disturbed' = disturbed /\ KWork' = KWork
  BY <1>1, SwitchStep
<1>5. Typed' /\ SessionOK'
  BY <1>1, <1>2, <1>3, SameKnown DEF IInv, Typed, SessionOK, past
<1>6. /\ work.phase \in {"upgrade", "restore"} /\ journal # None /\ ~Settled
  BY <1>1, InSwitch
<1>7. db = None /\ wal = None /\ ~session.live
  <2>1. CASE work.phase = "upgrade"
    <3>1. Left = 7
      BY <1>1, <2>1, UpgradeAt
    <3> QED
      BY <2>1, <3>1 DEF IInv, UpgradeOK
  <2>2. CASE work.phase = "restore"
    <3>1. DoneSteps = 2
      BY <1>1, <2>2, RestoreAt
    <3> QED
      BY <2>2, <3>1 DEF IInv, RestoreOK
  <2> QED
    BY <1>6, <2>1, <2>2
<1>8. KnownOK'
  <2>1. CASE journal.intent = "upgrade" /\ ~disturbed
    <3>1. ~Unmoved(journal)
      BY <1>6, <1>7, JournalFields, NoneFacts DEF IInv, Unmoved, Fingerprint
    <3>2. Moving(journal)
      BY <1>6, <2>1, <3>1 DEF IInv, KnownOK
    <3>3. Moving(journal)'
      BY <1>1, <3>2 DEF Moving
    <3> QED
      BY <1>1, <2>1, <3>3 DEF KnownOK
  <2>2. CASE journal.intent = "restore_backup" /\ ~disturbed
    <3>1. Returning(journal)
      BY <1>6, <2>2 DEF IInv, KnownOK
    <3>2. Returning(journal)'
      BY <1>1, <3>1 DEF Returning
    <3> QED
      BY <1>1, <2>2, <3>2 DEF KnownOK
  <2> QED
    BY <1>1, <1>3, <2>1, <2>2 DEF KnownOK
<1>9. UpgradeOK'
  <2>1. SUFFICES ASSUME work.phase = "upgrade"
                 PROVE  UpgradeOK'
    BY <1>2 DEF UpgradeOK
  <2>2. Left = 7 /\ Left' = 6
    BY <1>1, <1>2, <2>1, UpgradeAt
  <2>3. journal.progress = "none"
    BY <2>1, <2>2 DEF IInv, UpgradeOK
  <2> QED
    BY <1>1, <1>2, <1>7, <2>1, <2>2, <2>3 DEF UpgradeOK
<1>10. RestoreOK'
  <2>1. SUFFICES ASSUME work.phase = "restore"
                 PROVE  RestoreOK'
    BY <1>2 DEF RestoreOK
  <2>2. DoneSteps' = 3
    BY <1>1, <1>2, <2>1, RestoreAt
  <2>3. work.incoming = journal.backup /\ journal.backup # None
    BY <2>1 DEF IInv, RestoreOK
  <2> QED
    BY <1>1, <1>2, <1>3, <1>6, <1>7, <2>1, <2>2, <2>3 DEF RestoreOK
<1> QED
  BY <1>3, <1>5, <1>8, <1>9, <1>10 DEF IInv

LEMMA InstallDbOK == IInv /\ InstallDb => IInv'
<1> SUFFICES ASSUME IInv, InstallDb
             PROVE  IInv'
  OBVIOUS
<1>1. /\ Doing("install_db") /\ Done /\ db' = work.incoming.db
      /\ UNCHANGED <<wal, brief, journal, session, past>>
  BY DEF InstallDb
<1>2. /\ work' \in KWork /\ work'.phase = work.phase /\ work'.incoming = work.incoming
      /\ work.phase = "upgrade" => Suffix(work'.todo, UpgradeSteps) /\ Left' = Left - 1
      /\ work.phase = "restore" =>
            Suffix(work'.todo, Steps') /\ DoneSteps' = DoneSteps + 1 /\ Steps' = Steps
  BY <1>1, DoneOK
<1>3. /\ SettledOK' /\ JournalOK' /\ PlanOK'
      /\ ~Settled' /\ disturbed' = disturbed /\ KWork' = KWork
  BY <1>1, SwitchStep
<1>4. /\ work.phase \in {"upgrade", "restore"} /\ journal # None /\ ~Settled
      /\ work.incoming.db \in KContent /\ work.incoming.db # None
  <2>1. /\ work.phase \in {"upgrade", "restore"} /\ journal # None /\ ~Settled
        /\ work.incoming \in KPair
    BY <1>1, InSwitch
  <2> QED
    BY <2>1, NoneFacts DEF IInv, KPair
<1>5. wal = None /\ brief = None /\ ~session.live
  <2>1. CASE work.phase = "upgrade"
    <3>1. Left = 5
      BY <1>1, <2>1, UpgradeAt
    <3> QED
      BY <2>1, <3>1 DEF IInv, UpgradeOK
  <2>2. CASE work.phase = "restore"
    <3>1. DoneSteps = 3
      BY <1>1, <2>2, RestoreAt
    <3> QED
      BY <2>2, <3>1 DEF IInv, RestoreOK
  <2> QED
    BY <1>4, <2>1, <2>2
<1>6. Typed' /\ SessionOK'
  BY <1>1, <1>2, <1>3, <1>4, <1>5, SameKnown DEF IInv, Typed, SessionOK, past
<1>7. UpgradeOK'
  <2>1. SUFFICES ASSUME work.phase = "upgrade"
                 PROVE  UpgradeOK'
    BY <1>2 DEF UpgradeOK
  <2>2. Left = 5 /\ Left' = 4
    BY <1>1, <1>2, <2>1, UpgradeAt
  <2>3. journal.progress # "none"
    BY <2>1, <2>2 DEF IInv, UpgradeOK
  <2> QED
    BY <1>1, <1>2, <1>5, <2>1, <2>2, <2>3 DEF UpgradeOK
<1>8. RestoreOK'
  <2>1. SUFFICES ASSUME work.phase = "restore"
                 PROVE  RestoreOK'
    BY <1>2 DEF RestoreOK
  <2>2. DoneSteps' = 4
    BY <1>1, <1>2, <2>1, RestoreAt
  <2>3. work.incoming = journal.backup /\ journal.backup # None
    BY <2>1 DEF IInv, RestoreOK
  <2> QED
    BY <1>1, <1>2, <1>3, <1>4, <1>5, <2>1, <2>2, <2>3 DEF RestoreOK
<1>9. KnownOK'
  <2>1. CASE work.phase = "upgrade"
    <3>1. /\ journal.intent = "upgrade" /\ journal.target # None /\ journal.backup # None
          /\ work.incoming = journal.target
      BY <2>1 DEF IInv, PlanOK, JournalOK, Upgrading
    <3>2. journal.progress # "none"
      <4>1. Left = 5
        BY <1>1, <2>1, UpgradeAt
      <4> QED
        BY <2>1, <4>1 DEF IInv, UpgradeOK
    <3>3. Moving(journal)'
      BY <1>1, <1>5, <3>1, <3>2 DEF Moving
    <3> QED
      BY <1>1, <3>1, <3>3 DEF KnownOK
  <2>2. CASE work.phase = "restore"
    <3>1. journal.backup # None /\ work.incoming = journal.backup
      BY <2>2 DEF IInv, RestoreOK
    <3>2. Moving(journal)'
      BY <1>1, <1>5, <3>1 DEF Moving
    <3>3. Returning(journal)'
      BY <1>1, <1>5, <3>1 DEF Returning
    <3> QED
      BY <3>2, <3>3 DEF KnownOK
  <2> QED
    BY <1>4, <2>1, <2>2
<1> QED
  BY <1>3, <1>6, <1>7, <1>8, <1>9 DEF IInv

LEMMA InstallBriefOK == IInv /\ InstallBrief => IInv'
<1> SUFFICES ASSUME IInv, InstallBrief
             PROVE  IInv'
  OBVIOUS
<1>1. /\ Doing("install_brief") /\ Done /\ brief' = work.incoming.brief
      /\ UNCHANGED <<db, wal, journal, session, past>>
  BY DEF InstallBrief
<1>2. /\ work' \in KWork /\ work'.phase = work.phase /\ work'.incoming = work.incoming
      /\ work.phase = "upgrade" => Suffix(work'.todo, UpgradeSteps) /\ Left' = Left - 1
      /\ work.phase = "restore" =>
            Suffix(work'.todo, Steps') /\ DoneSteps' = DoneSteps + 1 /\ Steps' = Steps
  BY <1>1, DoneOK
<1>3. /\ SettledOK' /\ JournalOK' /\ PlanOK'
      /\ ~Settled' /\ disturbed' = disturbed /\ KWork' = KWork
  BY <1>1, SwitchStep
<1>4. /\ work.phase \in {"upgrade", "restore"} /\ journal # None /\ ~Settled
      /\ work.incoming.brief \in Kind \cup {None}
  <2>1. /\ work.phase \in {"upgrade", "restore"} /\ journal # None /\ ~Settled
        /\ work.incoming \in KPair
    BY <1>1, InSwitch
  <2> QED
    BY <2>1 DEF KPair
<1>5. Typed' /\ SessionOK'
  BY <1>1, <1>2, <1>3, <1>4, SameKnown DEF IInv, Typed, SessionOK, past
<1>6. CASE work.phase = "upgrade"
  <2>1. /\ Left = 3 /\ Left' = 2 /\ Suffix(work'.todo, UpgradeSteps)
    BY <1>1, <1>2, <1>6, UpgradeAt
  <2>2. /\ ~session.live /\ db = work.incoming.db /\ wal = None
        /\ journal.progress # "none"
    BY <1>6, <2>1 DEF IInv, UpgradeOK
  <2>3. /\ journal.intent = "upgrade" /\ journal.target # None /\ journal.backup # None
        /\ work.incoming = journal.target
    BY <1>6 DEF IInv, PlanOK, JournalOK, Upgrading
  <2>4. brief' = "new"
    BY <1>1, <1>4, <2>3 DEF IInv, JournalOK, UpgradeJournal
  <2>5. UpgradeOK' /\ RestoreOK'
    BY <1>1, <1>2, <1>6, <2>1, <2>2, <2>4 DEF UpgradeOK, RestoreOK
  <2>6. Moving(journal)'
    BY <1>1, <2>2, <2>3, <2>4 DEF Moving
  <2>7. KnownOK'
    BY <1>1, <2>3, <2>6 DEF KnownOK
  <2> QED
    BY <1>3, <1>5, <2>5, <2>7 DEF IInv
<1>7. CASE work.phase = "restore"
  <2>1. /\ DoneSteps = 4 /\ DoneSteps' = 5 /\ Suffix(work'.todo, Steps')
    BY <1>1, <1>2, <1>7, RestoreAt
  <2>2. /\ ~session.live /\ db = work.incoming.db
        /\ wal # None => oldRuntime /\ wal.kind = "old"
        /\ journal.backup # None /\ work.incoming = journal.backup
    BY <1>7, <2>1 DEF IInv, RestoreOK
  <2>3. UpgradeOK'
    BY <1>2, <1>7 DEF UpgradeOK
  <2>4. RestoreOK'
    BY <1>1, <1>2, <1>3, <1>4, <1>7, <2>1, <2>2 DEF RestoreOK, past
  <2>5. brief' = journal.source.brief
    BY <1>1, <1>4, <2>2 DEF IInv, JournalOK
  <2>6. KnownOK'
    <3>1. CASE journal.intent = "upgrade" /\ ~disturbed
      <4>1. db # None
        BY <1>4, <2>2, JournalFields, NoneFacts DEF IInv
      <4>2. Unmoved(journal) \/ Moving(journal)
        BY <1>4, <3>1 DEF IInv, KnownOK
      <4>3. brief = None
        BY <1>7, <2>1 DEF IInv, RestoreOK
      <4>4. CASE Moving(journal)
        <5>1. Moving(journal)'
          BY <1>1, <2>5, <4>4 DEF Moving
        <5> QED
          BY <1>1, <3>1, <5>1 DEF KnownOK
      <4>5. CASE Unmoved(journal)
        <5>1. brief' = brief
          BY <2>5, <4>5 DEF Unmoved, Fingerprint
        <5>2. Unmoved(journal)'
          BY <1>1, <4>5, <5>1 DEF Unmoved, Fingerprint
        <5> QED
          BY <1>1, <3>1, <5>2 DEF KnownOK
      <4> QED
        BY <4>2, <4>4, <4>5
    <3>2. CASE journal.intent = "restore_backup" /\ ~disturbed
      <4>1. Returning(journal)
        BY <1>4, <3>2 DEF IInv, KnownOK
      <4>2. Returning(journal)'
        BY <1>1, <2>2, <4>1 DEF Returning
      <4> QED
        BY <1>1, <3>2, <4>2 DEF KnownOK
    <3> QED
      BY <1>1, <1>3, <3>1, <3>2 DEF KnownOK
  <2> QED
    BY <1>3, <1>5, <2>3, <2>4, <2>6 DEF IInv
<1> QED
  BY <1>4, <1>6, <1>7

LEMMA SaveProgressOK == ASSUME NEW to \in Progress, IInv, SaveProgress(to) PROVE IInv'
<1>1. /\ Doing(to) /\ Done /\ journal' = [journal EXCEPT !.progress = to]
      /\ UNCHANGED <<files, session, past>>
  BY DEF SaveProgress, Save
<1>2. /\ work.phase \in {"upgrade", "restore"} /\ journal # None /\ ~Settled
      /\ journal \in KJournal
  BY <1>1, InSwitch
<1>3. work.phase = "upgrade" /\ Upgrading
  BY <1>1, <1>2, RestoreAt DEF Upgrading
<1>4. /\ Left \in {6, 4, 2} /\ to # "none" /\ to # "complete"
  BY <1>1, <1>3, UpgradeAt DEF Progress
<1>5. /\ work' \in KWork /\ work'.phase = "upgrade" /\ work'.incoming = work.incoming
      /\ work'.plan = work.plan
      /\ Suffix(work'.todo, UpgradeSteps) /\ Left' = Left - 1
  BY <1>1, <1>3, <1>4, DoneOK
<1>6. /\ journal' \in KJournal /\ journal'.progress = to
      /\ journal'.intent = journal.intent /\ journal'.stage = journal.stage
      /\ journal'.source = journal.source /\ journal'.backup = journal.backup
      /\ journal'.target = journal.target
  <2>1. journal' \in KJournal
    BY <1>1, <1>2 DEF KJournal
  <2> QED
    BY <1>1, <1>2, <2>1 DEF KJournal
<1>7. Typed' /\ SessionOK'
  BY <1>1, <1>5, <1>6, SameKnown DEF IInv, Typed, SessionOK, files, past
<1>8. journal' # None /\ ~Settled'
  BY <1>2, <1>6, NoneFacts DEF IInv, Settled
<1>9. SettledOK'
  BY <1>8 DEF SettledOK
<1>10. /\ journal.intent = "upgrade" /\ UpgradeJournal(journal) /\ OldFiles(journal.source)
       /\ journal.source = work.plan
  BY <1>3, UpgradingFacts
<1>11. JournalOK'
  <2>1. UpgradeJournal(journal)'
    BY <1>1, <1>2, <1>6, <1>8, <1>10 DEF UpgradeJournal, LatestOf, past
  <2> QED
    BY <1>2, <1>6, <1>10, <2>1 DEF IInv, JournalOK, OldFiles
<1>12. /\ ~session.live /\ wal = None /\ (Left = 6 => db = None /\ brief = None)
       /\ (Left = 4 => db = work.incoming.db /\ brief = None)
       /\ (Left = 2 => db = work.incoming.db /\ brief = "new")
       /\ (Left < 6 => journal.progress # "none")
  BY <1>3, <1>4 DEF IInv, UpgradeOK
<1>13. UpgradeOK' /\ RestoreOK'
  <2>1. Left' \in {5, 3, 1}
    BY <1>4, <1>5
  <2>2. CASE Left = 6
    BY <1>1, <1>4, <1>5, <1>6, <1>12, <2>2 DEF UpgradeOK, RestoreOK, files
  <2>3. CASE Left = 4
    BY <1>1, <1>4, <1>5, <1>6, <1>12, <2>3 DEF UpgradeOK, RestoreOK, files
  <2>4. CASE Left = 2
    BY <1>1, <1>4, <1>5, <1>6, <1>12, <2>4 DEF UpgradeOK, RestoreOK, files
  <2> QED
    BY <1>4, <2>2, <2>3, <2>4
<1>14. PlanOK'
  BY <1>3, <1>5, <1>6, <1>8 DEF IInv, PlanOK, Upgrading, OldFiles
<1>15. KnownOK'
  <2>1. SUFFICES ASSUME ~disturbed
                 PROVE  Moving(journal)'
    BY <1>1, <1>6, <1>10 DEF KnownOK, past
  <2>2. ~Unmoved(journal)
    <3>1. journal.source.db # None
      BY <1>2, JournalFields, NoneFacts DEF IInv
    <3> QED
      BY <1>4, <1>12, <3>1 DEF Unmoved, Fingerprint
  <2>3. Moving(journal)
    BY <1>2, <1>10, <2>1, <2>2 DEF IInv, KnownOK
  <2> QED
    BY <1>1, <1>4, <1>6, <2>3 DEF Moving, files
<1> QED
  BY <1>7, <1>9, <1>11, <1>13, <1>14, <1>15 DEF IInv

-----------------------------------------------------------------------------
(* The ends of a switch.                                                   *)

\* What the last step of a switch finds.
LEMMA LastFacts ==
    ASSUME IInv, Doing("complete")
    PROVE  /\ ~session.live /\ journal # None /\ journal \in KJournal /\ ~Settled
           /\ work.phase \in {"upgrade", "restore"}
           /\ work.phase = "upgrade" =>
                 /\ journal.intent = "upgrade" /\ journal.target # None
                 /\ db = journal.target.db /\ brief = "new" /\ wal = None
           /\ work.phase = "restore" =>
                 /\ journal.backup # None
                 /\ db = journal.backup.db /\ brief = journal.backup.brief
                 /\ wal # None => oldRuntime /\ wal.kind = "old"
<1>1. /\ work.phase \in {"upgrade", "restore"} /\ journal # None /\ ~Settled
      /\ journal \in KJournal
  BY InSwitch
<1>2. CASE work.phase = "upgrade"
  <2>1. Left = 1
    BY <1>2, UpgradeAt
  <2>2. ~session.live /\ db = work.incoming.db /\ brief = "new" /\ wal = None
    BY <1>2, <2>1 DEF IInv, UpgradeOK
  <2>3. journal.intent = "upgrade" /\ journal.target # None /\ work.incoming = journal.target
    BY <1>2 DEF IInv, PlanOK, Upgrading
  <2> QED
    BY <1>1, <1>2, <2>2, <2>3
<1>3. CASE work.phase = "restore"
  <2>1. /\ DoneSteps = Len(Steps) - 1
        /\ Len(Steps) = IF work.incoming.brief = None THEN 5 ELSE 6
    BY <1>3, RestoreAt
  <2>2. DoneSteps = IF work.incoming.brief = None THEN 4 ELSE 5
    BY <2>1
  <2>3. /\ ~session.live /\ db = work.incoming.db
        /\ wal # None => oldRuntime /\ wal.kind = "old"
        /\ journal.backup # None /\ work.incoming = journal.backup
    BY <1>3, <2>2 DEF IInv, RestoreOK
  <2>4. brief = work.incoming.brief
    BY <1>3, <2>2 DEF IInv, RestoreOK
  <2> QED
    BY <1>1, <1>3, <2>3, <2>4
<1> QED
  BY <1>1, <1>2, <1>3

\* A journal settled over whole files, with no acknowledged commit lost, is
\* all the invariant asks for when no work goes on.
LEMMA SettleOK ==
    ASSUME IInv, journal # None, NEW st \in {"swapped", "rolled_back"},
           journal' = [journal EXCEPT !.stage = st],
           st = "swapped" => journal.target # None /\ journal.intent = "upgrade",
           work' = Idle,
           UNCHANGED <<files, session, commits, from, goal, disturbed, faults, oldRuntime>>,
           Whole, acked' \in 0..commits, ~oldRuntime => Latest = acked',
           journal.intent = "upgrade" => acked' = acked
    PROVE  IInv'
<1>1. journal \in KJournal
  BY JournalFields DEF IInv
<1>2. /\ journal' \in KJournal /\ journal'.stage = st
      /\ journal'.intent = journal.intent /\ journal'.progress = journal.progress
      /\ journal'.source = journal.source /\ journal'.backup = journal.backup
      /\ journal'.target = journal.target
  BY <1>1, Saved
<1>3. Settled'
  BY <1>2 DEF Settled
<1>4. Typed'
  BY <1>2, SameKnown, IdleFacts DEF IInv, Typed, files
<1>5. SessionOK' /\ SettledOK'
  BY <1>3 DEF IInv, SessionOK, SettledOK, Whole, Latest, files
<1>6. JournalOK'
  <2>1. journal.intent = "upgrade" => UpgradeJournal(journal)'
    BY <1>2, <1>3 DEF IInv, JournalOK, UpgradeJournal, LatestOf
  <2>2. journal.intent = "restore_backup" => ReturnJournal(journal)'
    BY <1>2 DEF IInv, JournalOK, ReturnJournal
  <2> QED
    BY <1>2, <2>1, <2>2 DEF IInv, JournalOK, OldFiles
<1>7. KnownOK'
  BY <1>3 DEF KnownOK
<1> QED
  BY <1>4, <1>5, <1>6, <1>7, NoWork DEF IInv

LEMMA CompleteOK == IInv /\ Complete => IInv'
<1> SUFFICES ASSUME IInv, Complete
             PROVE  IInv'
  OBVIOUS
<1>1. /\ Doing("complete") /\ work' = Idle
      /\ UNCHANGED <<files, session, commits, from, goal, disturbed, faults, oldRuntime>>
      /\ acked' = IF journal.intent = "restore_backup" THEN Latest ELSE acked
  BY DEF Complete
<1>2. /\ journal # None /\ journal \in KJournal /\ ~Settled
      /\ work.phase \in {"upgrade", "restore"}
      /\ journal.intent \in {"upgrade", "restore_backup"}
  BY <1>1, LastFacts, JournalFields DEF IInv
<1>3. CASE work.phase = "upgrade"
  <2>1. journal' = [journal EXCEPT !.stage = "swapped"]
    BY <1>3 DEF Complete, Save
  <2>2. /\ journal.intent = "upgrade" /\ journal.target # None
        /\ db = journal.target.db /\ brief = "new" /\ wal = None
    BY <1>1, <1>3, LastFacts
  <2>3. /\ db = goal /\ goal = [kind |-> "new", last |-> LatestOf(journal.source)]
        /\ ~oldRuntime => LatestOf(journal.source) = acked
    BY <1>2, <2>2 DEF IInv, JournalOK, UpgradeJournal
  <2>4. db # None
    BY <1>2, <2>2, JournalFields, NoneFacts DEF IInv
  <2>5. Whole
    BY <2>2, <2>3, <2>4 DEF Whole
  <2>6. acked' = acked /\ acked \in 0..commits /\ (~oldRuntime => Latest = acked)
    BY <1>1, <2>2, <2>3 DEF IInv, Typed, Latest
  <2> QED
    BY <1>1, <1>2, <2>1, <2>2, <2>5, <2>6, SettleOK
<1>4. CASE work.phase = "restore"
  <2>1. journal' = [journal EXCEPT !.stage = "rolled_back"]
    BY <1>4 DEF Complete, Save
  <2>2. /\ journal.backup # None
        /\ db = journal.backup.db /\ brief = journal.backup.brief
        /\ wal # None => oldRuntime /\ wal.kind = "old"
    BY <1>1, <1>4, LastFacts
  <2>3. /\ db.kind = "old" /\ brief \in {"old", None}
    BY <1>2, <2>2 DEF IInv, JournalOK, OldFiles
  <2>4. db # None
    BY <1>2, <2>2, JournalFields, NoneFacts DEF IInv
  <2>5. Whole
    BY <2>2, <2>3, <2>4 DEF Whole
  <2>6. Latest \in 0..commits
    BY <2>4, LatestFacts DEF IInv
  <2>7. acked' \in 0..commits
    BY <1>1, <2>6 DEF IInv, Typed
  <2>8. ~oldRuntime => Latest = acked'
    <3>1. SUFFICES ASSUME ~oldRuntime, journal.intent = "upgrade"
                   PROVE  Latest = acked
      BY <1>1, <1>2
    <3>2. wal = None /\ Latest = db.last
      BY <2>2, <3>1 DEF Latest
    <3>3. db = from /\ from.last = LatestOf(journal.source) /\ LatestOf(journal.source) = acked
      BY <1>2, <2>2, <3>1 DEF IInv, JournalOK, UpgradeJournal
    <3> QED
      BY <3>2, <3>3
  <2>9. journal.intent = "upgrade" => acked' = acked
    BY <1>1
  <2> QED
    BY <1>1, <1>2, <2>1, <2>5, <2>7, <2>8, <2>9, SettleOK
<1> QED
  BY <1>2, <1>3, <1>4

\* What each decision of a recovery has found.
LEMMA DecisionFacts ==
    ASSUME NEW j
    PROVE  /\ Decision(j) \in {"refuse", "swapped", "rolled_back", "restore"}
           /\ Decision(j) = "swapped" => WalKnown(j) /\ TargetInPlace(j)
           /\ Decision(j) = "rolled_back" => SameSource(j.source) /\ Untouched(j)
           /\ Decision(j) = "restore" => j.backup # None
<1>1. CASE ~WalKnown(j)
  BY <1>1 DEF Decision
<1>2. CASE WalKnown(j) /\ TargetInPlace(j)
  BY <1>2 DEF Decision
<1>3. CASE WalKnown(j) /\ ~TargetInPlace(j) /\ Untouched(j)
  <2>1. Decision(j) = IF SameSource(j.source) THEN "rolled_back" ELSE "refuse"
    BY <1>3 DEF Decision
  <2> QED
    BY <1>3, <2>1
<1>4. CASE WalKnown(j) /\ ~TargetInPlace(j) /\ ~Untouched(j)
  <2>1. Decision(j) = IF FilesKnown(j) /\ j.backup # None THEN "restore" ELSE "refuse"
    BY <1>4 DEF Decision
  <2> QED
    BY <2>1
<1> QED
  BY <1>1, <1>2, <1>3, <1>4

LEMMA RecoverOK == IInv /\ Recover => IInv'
<1> SUFFICES ASSUME IInv, Recover
             PROVE  IInv'
  OBVIOUS
<1>1. work = Idle /\ journal # None /\ ~Settled /\ UNCHANGED <<files, session, past>>
  BY DEF Recover
<1>2. /\ journal \in KJournal /\ journal.intent \in {"upgrade", "restore_backup"}
      /\ acked \in 0..commits
  BY <1>1, JournalFields DEF IInv, Typed
<1>3. CASE Decision(journal) = "swapped"
  <2>1. journal' = [journal EXCEPT !.stage = "swapped"] /\ work' = Idle
    BY <1>1, <1>3 DEF Recover, Save
  <2>2. WalKnown(journal) /\ TargetInPlace(journal)
    BY <1>3, DecisionFacts
  <2>3. /\ journal.intent = "upgrade" /\ journal.target # None
        /\ db = journal.target.db /\ brief = journal.target.brief
    BY <2>2 DEF TargetInPlace
  <2>4. /\ db = goal /\ brief = "new"
        /\ goal = [kind |-> "new", last |-> LatestOf(journal.source)]
        /\ ~oldRuntime => LatestOf(journal.source) = acked
        /\ journal.source.db.kind = "old"
    BY <1>1, <2>3 DEF IInv, JournalOK, UpgradeJournal, OldFiles
  <2>5. db # None
    BY <1>1, <2>3, JournalFields, NoneFacts DEF IInv
  <2>6. wal = None
    BY <2>2, <2>4, <2>5 DEF WalKnown
  <2>7. Whole /\ (~oldRuntime => Latest = acked)
    BY <2>4, <2>5, <2>6 DEF Whole, Latest
  <2> QED
    BY <1>1, <1>2, <2>1, <2>3, <2>7, SettleOK DEF past
<1>4. CASE Decision(journal) = "rolled_back"
  <2>1. journal' = [journal EXCEPT !.stage = "rolled_back"] /\ work' = Idle
    BY <1>1, <1>4 DEF Recover, Save
  <2>2. Fingerprint = journal.source /\ journal.intent = "upgrade" /\ db # None
    BY <1>4, DecisionFacts DEF SameSource, Untouched
  <2>3. OldFiles(Fingerprint) /\ (~oldRuntime => LatestOf(Fingerprint) = acked)
    BY <1>1, <2>2 DEF IInv, JournalOK, UpgradeJournal
  <2>4. Whole /\ (~oldRuntime => Latest = acked)
    BY <2>2, <2>3 DEF Whole, OldFiles, Fingerprint, LatestOf, Latest
  <2> QED
    BY <1>1, <1>2, <2>1, <2>2, <2>4, SettleOK DEF past
<1>5. CASE Decision(journal) = "restore"
  <2>1. /\ work' = [Idle EXCEPT !.phase = "restore", !.incoming = journal.backup,
                                !.todo = RestoreSteps(journal.backup)]
        /\ UNCHANGED journal
    BY <1>5 DEF Recover
  <2>2. journal.backup # None /\ journal.backup \in KPair
    BY <1>1, <1>5, DecisionFacts, JournalFields DEF IInv
  <2>3. /\ work' \in KWork /\ work'.phase = "restore" /\ work'.incoming = journal.backup
        /\ work'.todo = RestoreSteps(journal.backup)
    BY <2>1, <2>2, IdleFacts, RestoreStepsFacts DEF KWork, Idle, Phases
  <2>4. Typed' /\ SessionOK'
    BY <1>1, <2>1, <2>3, SameKnown DEF IInv, Typed, SessionOK, files, past
  <2>5. ~Settled'
    BY <1>1, <2>1 DEF Settled
  <2>6. PlanOK' /\ UpgradeOK'
    BY <2>3 DEF PlanOK, UpgradeOK, Upgrading
  <2>7. RestoreOK'
    <3>1. Steps' = RestoreSteps(journal.backup)
      BY <2>3 DEF Steps, RestoreSteps
    <3>2. DoneSteps' = 0
      BY <2>3, <3>1, RestoreStepsFacts DEF DoneSteps, Left
    <3> QED
      BY <1>1, <2>1, <2>2, <2>3, <2>5, <3>1, <3>2, RestoreStepsFacts DEF RestoreOK
  <2> QED
    BY <1>1, <2>1, <2>4, <2>6, <2>7, SameFiles DEF IInv, past
<1> QED
  BY <1>3, <1>4, <1>5 DEF Recover

LEMMA PrepareRestoreOK == IInv /\ PrepareRestore => IInv'
<1> SUFFICES ASSUME IInv, PrepareRestore
             PROVE  IInv'
  OBVIOUS
<1>1. /\ work = Idle /\ journal # None /\ journal.stage = "swapped"
      /\ db # None /\ db.kind = "new" /\ brief = "new"
      /\ journal' = [journal EXCEPT !.intent = "restore_backup", !.stage = "validated",
                                    !.target = [db |-> db, brief |-> brief]]
      /\ from' = [kind |-> "new", last |-> Latest] /\ goal' = journal.backup.db
      /\ disturbed' = FALSE
      /\ UNCHANGED <<files, work, session, commits, acked, faults, oldRuntime>>
  BY DEF PrepareRestore, Save
<1>2. /\ journal.backup # None /\ OldFiles(journal.source)
      /\ journal.backup.db.kind = "old" /\ journal.backup.brief = journal.source.brief
  BY <1>1 DEF IInv, JournalOK
<1>3. journal \in KJournal /\ journal.backup.db \in KContent
  BY <1>1, <1>2, JournalFields DEF IInv
<1>4. [db |-> db, brief |-> brief] \in KPair /\ [db |-> db, brief |-> brief] # None
  <2>1. [db |-> db, brief |-> brief] \in KPair
    BY <1>1 DEF IInv, Typed, KPair
  <2> QED
    BY <2>1, NoneFacts DEF IInv
<1>5. /\ journal' \in KJournal
      /\ journal'.intent = "restore_backup" /\ journal'.stage = "validated"
      /\ journal'.progress = journal.progress
      /\ journal'.source = journal.source /\ journal'.backup = journal.backup
      /\ journal'.target = [db |-> db, brief |-> brief]
  BY <1>1, <1>3, <1>4 DEF KJournal
<1>6. from' \in KContent /\ goal' \in KContent
  <2>1. Latest \in 0..commits
    BY <1>1, LatestFacts DEF IInv
  <2> QED
    BY <1>1, <1>3, <2>1 DEF KContent, Kind
<1>7. Typed' /\ SessionOK'
  BY <1>1, <1>5, <1>6, SameKnown DEF IInv, Typed, SessionOK, files
<1>8. journal' # None /\ ~Settled'
  BY <1>5, NoneFacts DEF IInv, Settled
<1>9. SettledOK'
  BY <1>8 DEF SettledOK
<1>10. JournalOK'
  <2>1. ReturnJournal(journal)'
    BY <1>1, <1>4, <1>5 DEF ReturnJournal
  <2> QED
    BY <1>2, <1>4, <1>5, <2>1 DEF JournalOK, OldFiles
<1>11. KnownOK'
  <2>1. Returning(journal)'
    BY <1>1, <1>5 DEF Returning, files
  <2> QED
    BY <1>5, <2>1 DEF KnownOK
<1> QED
  BY <1>1, <1>7, <1>9, <1>10, <1>11, NoWork DEF IInv

-----------------------------------------------------------------------------
LEMMA NextOK == IInv /\ Next => IInv'
<1> SUFFICES ASSUME IInv, Next
             PROVE  IInv'
  OBVIOUS
<1>1. CASE Preview
  BY <1>1, PreviewOK
<1>2. CASE Upgrade
  BY <1>2, BeginOK, BackUpOK, StageOK, ReleaseOK DEF Upgrade
<1>3. CASE Switch
  <2>1. CASE MoveDb \/ MoveWal \/ MoveBrief
    BY <2>1, MoveDbOK, MoveWalOK, MoveBriefOK
  <2>2. CASE InstallDb \/ InstallBrief \/ Complete
    BY <2>2, InstallDbOK, InstallBriefOK, CompleteOK
  <2>3. CASE \E to \in Progress : SaveProgress(to)
    BY <2>3, SaveProgressOK
  <2> QED
    BY <1>3, <2>1, <2>2, <2>3 DEF Switch
<1>4. CASE Recover \/ PrepareRestore
  BY <1>4, RecoverOK, PrepareRestoreOK
<1>5. CASE Others
  BY <1>5, OpenSessionOK, CommitOK, OldCommitOK, CloseSessionOK, SessionCrashOK DEF Others
<1>6. CASE Fail \/ Crash
  BY <1>6, FailOK, CrashOK
<1> QED
  BY <1>1, <1>2, <1>3, <1>4, <1>5, <1>6 DEF Next

\* An upgrade, its recovery and the return to the backup keep the inductive
\* invariant (kernel-migration.ts).
THEOREM Invariance == ASSUME ConstantsOK PROVE Spec => []IInv
<1>1. Init => IInv
  BY InitOK
<1>2. IInv /\ [Next]_vars => IInv'
  BY NextOK, StutterOK
<1> QED
  BY <1>1, <1>2, PTL DEF Spec

\* Every variable has its type.
THEOREM TypeSafety == ASSUME ConstantsOK PROVE Spec => []TypeOK
<1>1. IInv => TypeOK
  <2>1. SUFFICES ASSUME IInv
                 PROVE  TypeOK
    OBVIOUS
  <2>2. Typed
    BY <2>1 DEF IInv
  <2>3. /\ \A c \in KContent : c \in Content
        /\ \A p \in KPair : p \in Pair
        /\ \A s \in KSource : s \in Source
        /\ \A j \in KJournal : j \in Journal
    BY <2>2, NoneFacts
  <2>4. db \in Content \cup {None} /\ wal \in Content \cup {None}
    BY <2>2, <2>3 DEF Typed
  <2>5. journal \in Journal \cup {None}
    BY <2>2, <2>3 DEF Typed
  <2>6. /\ work.phase \in Phases /\ work.incoming \in KPair \cup {None}
        /\ work.plan \in KSource \cup {None}
    <3>1. work \in KWork
      BY <2>2 DEF Typed
    <3> QED
      BY <3>1 DEF KWork
  <2>7. work.incoming \in Pair \cup {None} /\ work.plan \in Source \cup {None}
    BY <2>3, <2>6
  <2> QED
    BY <2>2, <2>4, <2>5, <2>6, <2>7 DEF Typed, TypeOK, Phases
<1> QED
  BY <1>1, Invariance, PTL

\* No upgrade, recovery or return to the backup leaves half of a pair to be
\* opened (kernel-migration.ts: `no half-pair can be selected').
THEOREM KeepsWholePair == ASSUME ConstantsOK PROVE Spec => []WholePair
<1>1. IInv => WholePair
  BY DEF IInv, SettledOK, WholePair
<1> QED
  BY <1>1, Invariance, PTL

\* Without a writer of the released runtime, an upgrade and its recovery lose no
\* acknowledged commit.
THEOREM LosesNoCommit == ASSUME ConstantsOK PROVE Spec => []CommitsSurvive
<1>1. IInv => CommitsSurvive
  BY DEF IInv, SettledOK, Whole, CommitsSurvive
<1> QED
  BY <1>1, Invariance, PTL

\* What an interrupted upgrade leaves can be recovered, or is one of the states
\* named.
LEMMA UpgradeRecoverable ==
    ASSUME IInv, Waiting("upgrade"), ~Trapped
    PROVE  Decision(journal) # "refuse"
<1>1. journal # None /\ journal.intent = "upgrade" /\ ~Settled /\ ~disturbed /\ work = Idle
  BY DEF Waiting, Settled
<1>2. Unmoved(journal) \/ Moving(journal)
  BY <1>1 DEF IInv, KnownOK
<1>3. WalKnown(journal)
  BY <1>2 DEF WalKnown, Unmoved, Moving, Fingerprint
<1>4. journal.source.db # None
  BY <1>1, JournalFields, NoneFacts DEF IInv
<1>5. CASE TargetInPlace(journal)
  BY <1>3, <1>5 DEF Decision
<1>6. CASE ~TargetInPlace(journal) /\ Untouched(journal)
  <2>1. CASE Unmoved(journal)
    <3>1. Decision(journal) = "rolled_back"
      BY <1>3, <1>6, <2>1 DEF Decision, Unmoved, SameSource
    <3> QED
      BY <3>1
  <2>2. CASE Moving(journal)
    <3>1. /\ journal.backup # None /\ db = journal.backup.db
          /\ brief \in {None, journal.source.brief}
      BY <1>6, <2>2 DEF Moving, Untouched
    <3>2. journal.backup.brief = journal.source.brief
      BY <1>1, <3>1 DEF IInv, JournalOK
    <3>3. Trapped
      BY <1>6, <3>1, <3>2 DEF Trapped
    <3> QED
      BY <3>3
  <2> QED
    BY <1>2, <2>1, <2>2
<1>7. CASE ~TargetInPlace(journal) /\ ~Untouched(journal)
  <2>1. Moving(journal)
    BY <1>1, <1>2, <1>4, <1>7 DEF Unmoved, Untouched, Fingerprint
  <2>2. journal.backup # None
    BY <2>1 DEF Moving
  <2>3. db # None => db = journal.backup.db \/ (journal.target # None /\ db = journal.target.db)
    BY <2>1 DEF Moving
  <2>4. brief # None => brief = journal.source.brief
                        \/ (journal.target # None /\ brief = journal.target.brief)
    <3>1. journal.target # None => journal.target.brief = "new"
      BY <1>1 DEF IInv, JournalOK, UpgradeJournal
    <3> QED
      BY <2>1, <3>1 DEF Moving
  <2>5. FilesKnown(journal)
    BY <2>2, <2>3, <2>4 DEF FilesKnown
  <2>6. Decision(journal) = "restore"
    BY <1>3, <1>7, <2>2, <2>5 DEF Decision
  <2> QED
    BY <2>6
<1> QED
  BY <1>5, <1>6, <1>7

LEMMA ReturnRecoverable ==
    ASSUME IInv, Waiting("restore_backup"), ~Trapped
    PROVE  Decision(journal) # "refuse"
<1>1. /\ journal # None /\ journal.intent = "restore_backup" /\ ~Settled /\ ~disturbed
  BY DEF Waiting, Settled
<1>2. wal = None
  BY DEF Trapped
<1>3. Returning(journal) /\ journal.target # None /\ journal.backup # None
  BY <1>1 DEF IInv, KnownOK, JournalOK, ReturnJournal
<1>4. WalKnown(journal) /\ ~TargetInPlace(journal) /\ ~Untouched(journal)
  BY <1>1, <1>2 DEF WalKnown, TargetInPlace, Untouched
<1>5. FilesKnown(journal)
  BY <1>3 DEF FilesKnown, Returning
<1>6. Decision(journal) = "restore"
  BY <1>3, <1>4, <1>5 DEF Decision
<1> QED
  BY <1>6

\* An interrupted switch whose files nobody else touched is never refused, but
\* for the two states that Trapped names (recoverKernelMigration).
THEOREM Recoverable == ASSUME ConstantsOK PROVE Spec => []RecoverableElsewhere
<1>1. IInv => RecoverableElsewhere
  BY UpgradeRecoverable, ReturnRecoverable DEF RecoverableElsewhere
<1> QED
  BY <1>1, Invariance, PTL

-----------------------------------------------------------------------------
(* Refinement: an upgrade and a return to the backup are switches of a     *)
(* whole pair.                                                             *)

\* The abstract variables, as long as their parts stay.
LEMMA ShownStays ==
    ASSUME UNCHANGED <<from, goal, oldRuntime>>, Settled' <=> Settled,
           ~oldRuntime /\ Settled =>
               db' # None /\ db # None /\ db'.kind = db.kind /\ Latest' = Latest
    PROVE  UNCHANGED Switching!vars
BY DEF Switching!vars, Shown

LEMMA ShownFacts ==
    ASSUME IInv, ~oldRuntime
    PROVE  /\ Settled => /\ db # None /\ db \in KContent
                         /\ Shown(from) = [kind |-> db.kind, last |-> Latest]
                         /\ Shown(goal) = [kind |-> db.kind, last |-> Latest]
                         /\ [kind |-> db.kind, last |-> Latest] \in Content
           /\ ~Settled => Shown(from) = from /\ Shown(goal) = goal
<1>1. CASE Settled
  <2>1. db # None
    BY <1>1 DEF IInv, SettledOK, Whole
  <2>2. db \in KContent /\ Latest \in 0..commits
    BY <2>1, LatestFacts DEF IInv, Typed
  <2>3. [kind |-> db.kind, last |-> Latest] \in KContent
    BY <2>2 DEF KContent
  <2> QED
    BY <1>1, <2>1, <2>2, <2>3, NoneFacts DEF IInv, Shown
<1>2. CASE ~Settled
  BY <1>2 DEF Shown
<1> QED
  BY <1>1, <1>2

\* A commit of the current runtime is a commit of the pair.
LEMMA CommitMaps == IInv /\ ~oldRuntime /\ Commit => Switching!Commit
<1> SUFFICES ASSUME IInv, ~oldRuntime, Commit
             PROVE  Switching!Commit
  OBVIOUS
<1>1. /\ session.live /\ Settled /\ acked' = commits' /\ commits' = commits + 1
      /\ UNCHANGED <<db, journal, oldRuntime>>
  BY DEF Commit, Writable, Committed
<1>2. IInv' /\ ~oldRuntime' /\ Settled'
  BY <1>1, CommitOK DEF Settled
<1>3. Latest' = commits' /\ commits' > Latest
  <2>1. Latest' = acked'
    BY <1>2 DEF IInv, SettledOK
  <2>2. Latest \in 0..commits /\ commits \in Nat
    BY <1>1, LatestFacts, NoneFacts, ShownFacts DEF IInv
  <2> QED
    BY <1>1, <2>1, <2>2
<1>4. /\ Shown(from) = [kind |-> db.kind, last |-> Latest]
      /\ db # None
  BY <1>1, ShownFacts
<1>5. /\ Shown(from)' = [kind |-> db.kind, last |-> Latest']
      /\ Shown(goal)' = [kind |-> db.kind, last |-> Latest']
  BY <1>1, <1>2, <1>4 DEF Shown
<1>6. Shown(from)' \in Content
  <2>1. commits' \in 0..MaxCommits
    BY <1>2 DEF IInv, Typed
  <2>2. db.kind \in Kind
    BY <1>1, ShownFacts DEF KContent
  <2> QED
    BY <1>3, <1>5, <2>1, <2>2 DEF Content
<1> QED
  BY <1>1, <1>2, <1>3, <1>4, <1>5, <1>6 DEF Switching!Commit

\* The save of a journal that closes the project begins a switch.
LEMMA OpeningMaps ==
    ASSUME IInv, ~oldRuntime, Settled, ~Settled', UNCHANGED oldRuntime,
           from' = [kind |-> db.kind, last |-> Latest], goal' \in Content
    PROVE  \E q \in Content : Switching!Begin(q)
<1>1. Shown(from) = [kind |-> db.kind, last |-> Latest]
  BY ShownFacts
<1>2. Shown(from)' = from' /\ Shown(goal)' = goal'
  BY DEF Shown
<1>3. Switching!Begin(goal')
  BY <1>1, <1>2 DEF Switching!Begin
<1> QED
  BY <1>3

\* ... and the one that opens it again ends the switch.
LEMMA ClosingMaps ==
    ASSUME IInv, ~oldRuntime, ~Settled, Settled',
           UNCHANGED <<db, wal, oldRuntime>>, db # None,
           [kind |-> db.kind, last |-> Latest] \in {from, goal}
    PROVE  Switching!End
<1>1. Shown(from) = from /\ Shown(goal) = goal
  BY ShownFacts
<1>2. /\ Shown(from)' = [kind |-> db.kind, last |-> Latest]
      /\ Shown(goal)' = [kind |-> db.kind, last |-> Latest]
  BY DEF Shown, Latest
<1> QED
  BY <1>1, <1>2 DEF Switching!End

LEMMA CompleteMaps == IInv /\ ~oldRuntime /\ Complete => Switching!End
<1> SUFFICES ASSUME IInv, ~oldRuntime, Complete
             PROVE  Switching!End
  OBVIOUS
<1>1. /\ Doing("complete") /\ UNCHANGED <<db, wal, oldRuntime>>
      /\ journal' = [journal EXCEPT !.stage =
                        IF work.phase = "upgrade" THEN "swapped" ELSE "rolled_back"]
  BY DEF Complete, Save, files
<1>2. /\ journal # None /\ journal \in KJournal /\ ~Settled
      /\ work.phase \in {"upgrade", "restore"}
      /\ journal.intent \in {"upgrade", "restore_backup"}
  BY <1>1, LastFacts, JournalFields DEF IInv
<1>3. Settled'
  BY <1>1, <1>2 DEF Settled, KJournal
<1>4. wal = None /\ db \in {from, goal}
  <2>1. CASE work.phase = "upgrade"
    BY <1>1, <1>2, <2>1, LastFacts DEF IInv, JournalOK, UpgradeJournal
  <2>2. CASE work.phase = "restore"
    <3>1. wal = None /\ journal.backup # None /\ db = journal.backup.db
      BY <1>1, <2>2, LastFacts
    <3>2. db = from \/ db = goal
      BY <1>2, <3>1 DEF IInv, JournalOK, UpgradeJournal, ReturnJournal
    <3> QED
      BY <3>1, <3>2
  <2> QED
    BY <1>2, <2>1, <2>2
<1>5. db \in KContent /\ db # None
  BY <1>4, NoneFacts DEF IInv, Typed
<1>6. [kind |-> db.kind, last |-> Latest] = db
  BY <1>4, <1>5 DEF Latest, KContent
<1> QED
  BY <1>1, <1>2, <1>3, <1>4, <1>5, <1>6, ClosingMaps

LEMMA RecoverMaps ==
    ASSUME IInv, ~oldRuntime, Recover
    PROVE  Switching!End \/ UNCHANGED Switching!vars
<1>1. journal # None /\ ~Settled /\ UNCHANGED <<files, past>>
  BY DEF Recover
<1>2. journal \in KJournal
  BY <1>1, JournalFields DEF IInv
<1>3. CASE Decision(journal) \in {"swapped", "rolled_back"}
  <2>1. journal' = [journal EXCEPT !.stage = Decision(journal)]
    BY <1>3 DEF Recover, Save
  <2>2. Settled'
    BY <1>2, <1>3, <2>1 DEF Settled, KJournal
  <2>3. db # None /\ [kind |-> db.kind, last |-> Latest] \in {from, goal}
    <3>1. CASE Decision(journal) = "swapped"
      <4>1. WalKnown(journal) /\ TargetInPlace(journal)
        BY <3>1, DecisionFacts
      <4>2. db = goal /\ goal = [kind |-> "new", last |-> LatestOf(journal.source)]
        BY <1>1, <4>1 DEF IInv, JournalOK, UpgradeJournal, TargetInPlace
      <4>3. db # None
        BY <4>2, NoneFacts DEF IInv, Typed
      <4>4. wal = None
        BY <1>1, <4>1, <4>2, <4>3 DEF IInv, JournalOK, OldFiles, WalKnown
      <4> QED
        BY <4>2, <4>3, <4>4 DEF Latest
    <3>2. CASE Decision(journal) = "rolled_back"
      <4>1. Fingerprint = journal.source /\ journal.intent = "upgrade" /\ db # None
        BY <3>2, DecisionFacts DEF SameSource, Untouched
      <4>2. from = [kind |-> "old", last |-> LatestOf(Fingerprint)] /\ OldFiles(Fingerprint)
        BY <1>1, <4>1 DEF IInv, JournalOK, UpgradeJournal
      <4> QED
        BY <4>1, <4>2 DEF OldFiles, Fingerprint, LatestOf, Latest
    <3> QED
      BY <1>3, <3>1, <3>2
  <2> QED
    BY <1>1, <2>2, <2>3, ClosingMaps DEF files, past
<1>4. CASE Decision(journal) = "restore"
  <2>1. UNCHANGED journal
    BY <1>4 DEF Recover
  <2> QED
    BY <1>1, <2>1, ShownStays DEF Settled, past
<1> QED
  BY <1>3, <1>4 DEF Recover

LEMMA BeginMaps ==
    ASSUME IInv, ~oldRuntime, Begin
    PROVE  (\E q \in Content : Switching!Begin(q)) \/ UNCHANGED Switching!vars
<1>1. IInv' /\ work.phase = "planned" /\ UNCHANGED <<files, oldRuntime>>
  BY BeginOK DEF Begin
<1>2. CASE SameSource(work.plan) /\ Settled
  <2>1. /\ from' = [kind |-> "old", last |-> Latest]
        /\ work' = [work EXCEPT !.phase = "begun"]
    BY <1>2 DEF Begin, Phase
  <2>2. work'.phase = "begun"
    BY <2>1 DEF IInv, Typed, KWork
  <2>3. ~Settled'
    BY <1>1, <2>2 DEF IInv, PlanOK, Upgrading
  <2>4. db.kind = "old"
    <3>1. OldFiles(work.plan)
      BY <1>1 DEF IInv, PlanOK
    <3> QED
      BY <1>2, <3>1 DEF OldFiles, SameSource, Fingerprint
  <2>5. goal' \in Content
    <3>1. goal' \in KContent' /\ commits' \in 0..MaxCommits /\ MaxCommits \in Nat
      BY <1>1 DEF IInv, Typed, ConstantsOK
    <3> QED
      BY <3>1 DEF KContent, Content
  <2> QED
    BY <1>1, <1>2, <2>1, <2>3, <2>4, <2>5, OpeningMaps
<1>3. CASE ~(SameSource(work.plan) /\ Settled)
  <2>1. UNCHANGED <<journal, from, goal>>
    BY <1>3 DEF Begin
  <2> QED
    BY <1>1, <2>1, ShownStays, ShownFacts DEF Settled, files, Latest
<1> QED
  BY <1>2, <1>3

LEMMA PrepareRestoreMaps ==
    ASSUME IInv, ~oldRuntime, PrepareRestore
    PROVE  \E q \in Content : Switching!Begin(q)
<1>1. /\ IInv' /\ journal # None /\ journal.stage = "swapped" /\ db.kind = "new"
      /\ journal' = [journal EXCEPT !.intent = "restore_backup", !.stage = "validated",
                                    !.target = [db |-> db, brief |-> brief]]
      /\ from' = [kind |-> "new", last |-> Latest] /\ UNCHANGED oldRuntime
  BY PrepareRestoreOK DEF PrepareRestore, Save
<1>2. Settled
  BY <1>1 DEF Settled
<1>3. ~Settled'
  <2>1. journal'.stage = "validated"
    BY <1>1, JournalFields DEF IInv, KJournal
  <2>2. journal' # None
    <3>1. KJournal' = KJournal
      BY SameKnown DEF PrepareRestore
    <3>2. journal' \in KJournal \cup {None} /\ journal \in KJournal
      BY <1>1, <3>1, JournalFields DEF IInv, Typed
    <3>3. [journal EXCEPT !.intent = "restore_backup", !.stage = "validated",
                          !.target = [db |-> db, brief |-> brief]] # None
      <4>1. db # None
        BY DEF PrepareRestore
      <4>2. [db |-> db, brief |-> brief] \in KPair
        BY <4>1 DEF IInv, Typed, KPair
      <4>3. [journal EXCEPT !.intent = "restore_backup", !.stage = "validated",
                            !.target = [db |-> db, brief |-> brief]] \in KJournal
        BY <3>2, <4>2, JournalFields, <1>1 DEF IInv, KJournal
      <4> QED
        BY <4>3, NoneFacts DEF IInv
    <3> QED
      BY <1>1, <3>3
  <2> QED
    BY <2>1, <2>2 DEF Settled
<1>4. goal' \in Content
  <2>1. goal' \in KContent' /\ commits' \in 0..MaxCommits /\ MaxCommits \in Nat
    BY <1>1 DEF IInv, Typed, ConstantsOK
  <2> QED
    BY <2>1 DEF KContent, Content
<1> QED
  BY <1>1, <1>2, <1>3, <1>4, OpeningMaps

\* A failed upgrade is still to be recovered.
LEMMA FailedMaps ==
    ASSUME IInv, Upgrading, Failed, UNCHANGED <<from, goal, oldRuntime>>
    PROVE  UNCHANGED Switching!vars
<1>1. journal # None /\ journal \in KJournal /\ ~Settled
  BY UpgradingFacts
<1>2. journal' = [journal EXCEPT !.stage = "failed"]
  BY DEF Failed, Save
<1>3. journal' \in KJournal /\ journal'.stage = "failed"
  BY <1>1, <1>2, Saved
<1>4. ~Settled'
  BY <1>3, NoneFacts DEF IInv, Settled
<1> QED
  BY <1>1, <1>4, ShownStays

\* The upgrade's later saves leave the project closed.
LEMMA UpgradeMaps ==
    ASSUME IInv, BackUp \/ Stage \/ Release
    PROVE  UNCHANGED Switching!vars
<1>1. IInv' /\ work \in KWork
  BY BackUpOK, StageOK, ReleaseOK DEF IInv, Typed
<1>2. Upgrading /\ UNCHANGED past
  BY DEF BackUp, Stage, Release, Upgrading
<1>3. ~Settled
  BY <1>2, UpgradingFacts
<1>4. ASSUME work'.phase \in {"copied", "staged", "upgrade"}
      PROVE  UNCHANGED Switching!vars
  <2>1. ~Settled'
    BY <1>1, <1>4 DEF IInv, PlanOK, Upgrading
  <2> QED
    BY <1>2, <1>3, <2>1, ShownStays DEF past
<1>5. Failed \/ work'.phase \in {"copied", "staged", "upgrade"}
  BY <1>1 DEF BackUp, Stage, Release, Phase, KWork
<1> QED
  BY <1>2, <1>4, <1>5, FailedMaps DEF past

\* Neither does a step that moves or installs a file open it.
LEMMA FileStepMaps ==
    ASSUME IInv,
           \/ MoveDb \/ MoveWal \/ MoveBrief \/ InstallDb \/ InstallBrief
           \/ \E to \in Progress : SaveProgress(to)
    PROVE  UNCHANGED Switching!vars
<1>1. CASE MoveDb \/ MoveWal \/ MoveBrief \/ InstallDb \/ InstallBrief
  <2>1. ~Settled
    BY <1>1, InSwitch DEF MoveDb, MoveWal, MoveBrief, InstallDb, InstallBrief
  <2>2. UNCHANGED <<journal, past>>
    BY <1>1 DEF MoveDb, MoveWal, MoveBrief, InstallDb, InstallBrief
  <2> QED
    BY <2>1, <2>2, ShownStays DEF Settled, past
<1>2. ASSUME NEW to \in Progress, SaveProgress(to)
      PROVE  UNCHANGED Switching!vars
  <2>1. IInv' /\ Doing(to) /\ Done /\ UNCHANGED past
    BY <1>2, SaveProgressOK DEF SaveProgress
  <2>2. ~Settled /\ work.phase \in {"upgrade", "restore"}
    BY <2>1, InSwitch
  <2>3. work.phase = "upgrade"
    BY <2>1, <2>2, RestoreAt
  <2>4. work'.phase = "upgrade"
    BY <2>1, <2>3 DEF Done, IInv, Typed, KWork
  <2>5. ~Settled'
    BY <2>1, <2>4 DEF IInv, PlanOK, Upgrading
  <2> QED
    BY <2>1, <2>2, <2>5, ShownStays DEF past
<1> QED
  BY <1>1, <1>2

\* The steps that touch neither files nor journal, and a close, which changes
\* only where the last commit lies.
LEMMA QuietMaps ==
    ASSUME IInv, OpenSession \/ SessionCrash \/ Crash \/ Preview \/ CloseSession
    PROVE  UNCHANGED Switching!vars
<1>1. CASE OpenSession \/ SessionCrash \/ Crash \/ Preview
  <2>1. UNCHANGED <<files, journal, from, goal, oldRuntime>>
    BY <1>1 DEF OpenSession, SessionCrash, Crash, Preview, past
  <2>2. Settled' = Settled
    BY <2>1 DEF Settled
  <2>3. ~oldRuntime /\ Settled =>
            db' # None /\ db # None /\ db'.kind = db.kind /\ Latest' = Latest
    <3>1. ~oldRuntime /\ Settled => db # None
      BY ShownFacts
    <3>2. db' = db /\ Latest' = Latest
      BY <2>1 DEF files, Latest
    <3> QED
      BY <3>1, <3>2
  <2> QED
    BY <2>1, <2>2, <2>3, ShownStays
<1>2. CASE CloseSession
  <2>1. UNCHANGED <<journal, from, goal, oldRuntime>>
    BY <1>2 DEF CloseSession
  <2>2. \/ wal # None /\ db # None /\ db' = wal /\ wal' = None
        \/ UNCHANGED <<db, wal>>
    BY <1>2 DEF CloseSession
  <2>3. Settled => db' # None /\ db # None /\ db'.kind = db.kind /\ Latest' = Latest
    BY <2>2 DEF IInv, SettledOK, Whole, Latest
  <2>4. Settled' = Settled
    BY <2>1 DEF Settled
  <2> QED
    BY <2>1, <2>3, <2>4, ShownStays
<1> QED
  BY <1>1, <1>2

LEMMA StepMaps == IInv /\ [Next]_vars => [Switching!Next]_(Switching!vars)
<1> SUFFICES ASSUME IInv, [Next]_vars
             PROVE  Switching!Next \/ UNCHANGED Switching!vars
  OBVIOUS
<1>1. CASE UNCHANGED vars
  <2>1. UNCHANGED <<from, goal, oldRuntime, db, wal, journal>>
    BY <1>1 DEF vars, past, files
  <2> QED
    BY <2>1 DEF Switching!vars, Shown, Settled, Latest
<1>2. CASE Next
  <2>1. UNCHANGED oldRuntime
    BY <1>2
       DEF Next, Preview, Upgrade, Begin, BackUp, Stage, Release, Switch, MoveDb, MoveWal,
           MoveBrief, InstallDb, InstallBrief, SaveProgress, Complete, Recover,
           PrepareRestore, Others, OpenSession, Commit, OldCommit, CloseSession,
           SessionCrash, Fail, Crash, past
  <2>2. CASE oldRuntime
    BY <2>1, <2>2 DEF Switching!vars, Shown
  <2>3. CASE ~oldRuntime
    <3>1. ~OldCommit
      BY <2>3 DEF OldCommit
    <3>2. CASE Commit
      BY <2>3, <3>2, CommitMaps DEF Switching!Next
    <3>3. CASE Begin
      BY <2>3, <3>3, BeginMaps DEF Switching!Next
    <3>4. CASE BackUp \/ Stage \/ Release
      BY <3>4, UpgradeMaps
    <3>5. CASE \/ MoveDb \/ MoveWal \/ MoveBrief \/ InstallDb \/ InstallBrief
               \/ \E to \in Progress : SaveProgress(to)
      BY <3>5, FileStepMaps
    <3>6. CASE Complete
      BY <2>3, <3>6, CompleteMaps DEF Switching!Next
    <3>7. CASE Recover
      BY <2>3, <3>7, RecoverMaps DEF Switching!Next
    <3>8. CASE PrepareRestore
      BY <2>3, <3>8, PrepareRestoreMaps DEF Switching!Next
    <3>9. CASE Fail
      BY <3>9, FailedMaps DEF Fail
    <3>10. CASE OpenSession \/ SessionCrash \/ Crash \/ Preview \/ CloseSession
      BY <3>10, QuietMaps
    <3> QED
      BY <1>2, <3>1, <3>2, <3>3, <3>4, <3>5, <3>6, <3>7, <3>8, <3>9, <3>10
         DEF Next, Upgrade, Switch, Others
  <2> QED
    BY <2>2, <2>3
<1> QED
  BY <1>1, <1>2

\* An upgrade, its recovery and a return to the backup implement the switch of a
\* whole pair: a project that is settled again has the pair it had, or the one
\* announced.
THEOREM IsPairSwitch == ASSUME ConstantsOK PROVE Spec => PairSwitchSpec
<1>1. Init => Switching!Init
  <2>1. SUFFICES ASSUME Init
                 PROVE  Switching!Init
    OBVIOUS
  <2>2. IInv
    BY <2>1, InitOK
  <2>3. Settled /\ from = goal
    BY <2>1 DEF Init, Settled
  <2>4. CASE oldRuntime
    <3>1. [kind |-> "old", last |-> 0] \in Content
      BY DEF ConstantsOK, Content, Kind
    <3> QED
      BY <2>3, <2>4, <3>1 DEF Switching!Init, Shown
  <2>5. CASE ~oldRuntime
    BY <2>2, <2>3, <2>5, ShownFacts DEF Switching!Init
  <2> QED
    BY <2>4, <2>5
<1>2. IInv /\ [Next]_vars => [Switching!Next]_(Switching!vars)
  BY StepMaps
<1> QED
  BY <1>1, <1>2, Invariance, PTL DEF Spec, PairSwitchSpec, Switching!Spec

-----------------------------------------------------------------------------
(* Every call ends: what liveness rests on.                                *)

\* What a call has still to do.
Effort ==
    CASE work.phase = "planned"              -> 13
      [] work.phase = "begun"                -> 12
      [] work.phase = "copied"               -> 11
      [] work.phase = "staged"               -> 10
      [] work.phase \in {"upgrade", "restore"} -> Left
      [] OTHER                               -> 0

(* A switch of files that is in progress, an upgrade's or a recovery's,    *)
(* always has a next step, however far the one before it came.             *)
SwitchGoesOn ==
    work.phase \in {"upgrade", "restore"} => \E step \in StepName : Doing(step)

(* No step of a call is done twice or brings another: each leaves less to  *)
(* do.                                                                     *)
CallsAdvance == [][Upgrade \/ Switch => Effort' < Effort]_vars

\* The switch's steps, and how many can be left.
LEMMA EffortFacts ==
    ASSUME IInv
    PROVE  /\ work.phase \in {"upgrade", "restore"} =>
                 work.todo # <<>> /\ Head(work.todo) \in StepName /\ Left \in 1..9
           /\ work.phase \notin {"upgrade", "restore"} => work.todo = <<>>
           /\ Effort \in Nat
<1>1. work.todo \in Seq(StepName) /\ Left \in Nat /\ work.phase \in Phases
  BY DEF IInv, Typed, KWork, Left
<1>2. CASE work.phase = "upgrade"
  <2>1. Suffix(work.todo, UpgradeSteps)
    BY <1>2 DEF IInv, UpgradeOK
  <2>2. Left \in 1..9
    BY <2>1, UpgradeStepsFacts DEF Suffix, Left
  <2> QED
    BY <1>1, <1>2, <2>2 DEF Left, Effort
<1>3. CASE work.phase = "restore"
  <2>1. Suffix(work.todo, Steps)
    BY <1>3 DEF IInv, RestoreOK
  <2>2. Len(Steps) = 5 \/ Len(Steps) = 6
    BY RestoreStepsFacts DEF Steps
  <2>3. Left \in 1..Len(Steps)
    BY <2>1 DEF Suffix, Left
  <2>4. Left \in 1..5 \/ Left \in 1..6
    BY ONLY <2>2, <2>3
  <2>5. Left \in 1..9
    BY <1>1, <2>4
  <2> QED
    BY <1>1, <1>3, <2>5 DEF Left, Effort
<1>4. CASE work.phase \notin {"upgrade", "restore"}
  BY <1>4 DEF IInv, PlanOK, Effort
<1> QED
  BY <1>2, <1>3, <1>4

LEMMA UpgradeAdvances == IInv /\ Upgrade => Effort' < Effort
<1> SUFFICES ASSUME IInv, Upgrade
             PROVE  Effort' < Effort
  OBVIOUS
<1>1. work \in KWork
  BY DEF IInv, Typed
<1>2. work' = Idle => Effort' = 0
  BY DEF Idle, Effort
<1>3. CASE Begin
  <2>1. Effort = 13
    BY <1>3 DEF Begin, Effort
  <2>2. work' = Idle \/ work'.phase = "begun"
    BY <1>1, <1>3 DEF Begin, Phase, KWork
  <2>3. work'.phase = "begun" => Effort' = 12
    BY DEF Effort
  <2> QED
    BY <1>2, <2>1, <2>2, <2>3
<1>4. CASE BackUp
  <2>1. Effort = 12
    BY <1>4 DEF BackUp, Effort
  <2>2. work' = Idle \/ work'.phase = "copied"
    BY <1>1, <1>4 DEF BackUp, Failed, Phase, KWork
  <2>3. work'.phase = "copied" => Effort' = 11
    BY DEF Effort
  <2> QED
    BY <1>2, <2>1, <2>2, <2>3
<1>5. CASE Stage
  <2>1. Effort = 11
    BY <1>5 DEF Stage, Effort
  <2>2. work'.phase = "staged"
    BY <1>1, <1>5 DEF Stage, KWork
  <2>3. Effort' = 10
    BY <2>2 DEF Effort
  <2> QED
    BY <2>1, <2>3
<1>6. CASE Release
  <2>1. Effort = 10
    BY <1>6 DEF Release, Effort
  <2>2. work' = Idle \/ (work'.phase = "upgrade" /\ work'.todo = UpgradeSteps)
    BY <1>1, <1>6 DEF Release, Failed, KWork
  <2>3. work'.phase = "upgrade" /\ work'.todo = UpgradeSteps => Effort' = 9
    BY UpgradeStepsFacts DEF Effort, Left
  <2> QED
    BY <1>2, <2>1, <2>2, <2>3
<1> QED
  BY <1>3, <1>4, <1>5, <1>6 DEF Upgrade

LEMMA SwitchAdvances == IInv /\ Switch => Effort' < Effort
<1> SUFFICES ASSUME IInv, Switch
             PROVE  Effort' < Effort
  OBVIOUS
<1>1. work \in KWork
  BY DEF IInv, Typed
<1>2. work.todo # <<>>
  BY DEF Switch, MoveDb, MoveWal, MoveBrief, InstallDb, InstallBrief, Complete,
         SaveProgress, Doing
<1>3. /\ work.phase \in {"upgrade", "restore"} /\ work.todo \in Seq(StepName)
      /\ Left \in 1..9 /\ Effort = Left
  <2>1. work.phase \in {"upgrade", "restore"} /\ Left \in 1..9
    BY <1>2, EffortFacts
  <2> QED
    BY <1>1, <2>1 DEF KWork, Effort
<1>4. CASE Complete
  <2>1. Effort' = 0
    BY <1>4 DEF Complete, Idle, Effort
  <2> QED
    BY <1>3, <2>1
<1>5. CASE ~Complete
  <2>1. Done
    BY <1>5 DEF Switch, MoveDb, MoveWal, MoveBrief, InstallDb, InstallBrief, SaveProgress
  <2>2. work'.phase = work.phase /\ work'.todo = Tail(work.todo)
    BY <1>1, <2>1 DEF Done, KWork
  <2>3. Left' = Left - 1
    BY <1>2, <1>3, <2>2 DEF Left
  <2>4. Effort' = Left'
    BY <1>3, <2>2 DEF Effort
  <2> QED
    BY <1>3, <2>3, <2>4
<1> QED
  BY <1>4, <1>5

(* No switch stops half way but for a fault (the loops of                  *)
(* migrateKernelProject and recoverKernelMigration).                       *)
THEOREM SwitchesGoOn == ASSUME ConstantsOK PROVE Spec => []SwitchGoesOn
<1>1. IInv => SwitchGoesOn
  BY EffortFacts DEF SwitchGoesOn, Doing
<1> QED
  BY <1>1, Invariance, PTL

(* A call that nothing interrupts ends: `Effort' is a number, and every    *)
(* step of an upgrade or a recovery lowers it.                             *)
THEOREM EveryStepAdvances ==
    ASSUME ConstantsOK PROVE Spec => [](Effort \in Nat) /\ CallsAdvance
<1>1. IInv => Effort \in Nat
  BY EffortFacts
<1>2. IInv /\ [Next]_vars => [Upgrade \/ Switch => Effort' < Effort]_vars
  BY UpgradeAdvances, SwitchAdvances
<1> QED
  BY <1>1, <1>2, Invariance, PTL DEF Spec, CallsAdvance

=============================================================================
