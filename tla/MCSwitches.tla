------------------------------ MODULE MCSwitches ------------------------------
(***************************************************************************)
(* TLC instance of the two operations that replace a project's database    *)
(* and Brief file: ManagedRestore and KernelMigration, side by side.  They *)
(* share no state (the migration is for schema-20 projects, the restore for*)
(* the rest), so a behaviour is of one of them, which the initial state    *)
(* chooses.                                                                *)
(***************************************************************************)
EXTENDS ManagedRestore

VARIABLES
    part,   \* "migration" or "restore"
    db, wal, brief, mJournal, mWork, session, oldRuntime, mCommits, acked, mFrom, mGoal,
    disturbed, mFaults

migrationVars ==
    <<db, wal, brief, mJournal, mWork, session, oldRuntime, mCommits, acked, mFrom, mGoal,
      disturbed, mFaults>>

Migration == INSTANCE KernelMigration WITH
    journal <- mJournal, work <- mWork, commits <- mCommits, from <- mFrom,
    goal <- mGoal, faults <- mFaults

ASSUME MigrationAssumption == Migration!ConstantsOK

\* The part that is not chosen stays in one of its initial states.
AtRest == wal = None /\ brief = "old" /\ ~oldRuntime
SwitchesInit ==
    /\ Init /\ Migration!Init
    /\ \/ part = "migration" /\ kernel
       \/ part = "restore" /\ AtRest

Migrating == part = "migration" /\ UNCHANGED <<part, vars>>
Restoring == part = "restore" /\ UNCHANGED <<part, migrationVars>>

SwitchesNext == (Migrating /\ Migration!Next) \/ (Restoring /\ Next)

SwitchesSpec ==
    /\ SwitchesInit /\ [][SwitchesNext]_<<part, vars, migrationVars>>
    /\ WF_migrationVars(Migrating /\ Migration!Upgrade)
    /\ WF_migrationVars(Migrating /\ Migration!Switch)
    /\ WF_migrationVars(Migrating /\ Migration!Recover)
    /\ WF_vars(Restoring /\ FileStep) /\ WF_vars(Restoring /\ Recover)

-----------------------------------------------------------------------------
(* The type invariants of both modules.                                    *)
SwitchesTypeOK == TypeOK /\ Migration!TypeOK

(* No upgrade, downgrade or restore ever leaves half of a pair to be opened*)
EveryPairWhole == WholePair /\ Migration!WholePair

(* An upgrade loses no acknowledged commit, as often as it is interrupted. *)
CommitsSurvive == Migration!CommitsSurvive

(* Any interrupted switch can be recovered, but for the states named.      *)
EveryRecoverable == RecoverableElsewhere /\ Migration!RecoverableElsewhere

(* Refinement: both are switches of a whole pair.                          *)
EverySwitchSpec == PairSwitchSpec /\ Migration!PairSwitchSpec

(* A switch that is begun ends, as often as it is interrupted.             *)
EverySwitchEnds == RestoreEnds /\ Migration!SwitchEnds
=============================================================================
