-------------------------- MODULE ProviderSettings --------------------------
(***************************************************************************)
(* The Provider's configuration (provider-settings.ts): a file, a second   *)
(* file with the highest generation ever issued, and a key in the system's *)
(* secret store or, by the user's choice, in memory until the project is   *)
(* closed (session-secrets.ts).  Saves of the settings page, deletions and *)
(* the import of an earlier version's configuration (legacy-settings.ts)   *)
(* write them with awaits in between, and the process may end in any.      *)
(*                                                                         *)
(* A Manifest is bound to its Provider by the generation, so that what is  *)
(* published under one must never come back.                               *)
(***************************************************************************)
EXTENDS Integers, FiniteSets

CONSTANTS
    Caller,         \* calls of providerSave that may run at once
    None,
    MaxGeneration,  \* bound: generations
    MaxCrashes      \* bound: ends of the process

VARIABLES
    file,       \* provider.json: its generation, 0 without one
    high,       \* provider.json.generation.json
    available,  \* can the system store secrets? it stays so
    key,        \* is a key stored, in the system or in memory?
    session,    \* has the user chosen to keep keys in memory only?
    call,       \* the saves in progress
    source,     \* the locality of the earlier version's configuration, or None
    record,     \* provider.migration.json
    import,     \* the import in progress; it keeps the configuration it read
    top,        \* history: the highest generation published
    raced,      \* history: have two writers of the file overlapped?
    crashes

vars == <<file, high, available, key, session, call, source, record,
          import, top, raced, crashes>>
imports == <<source, record, import>>

Locality == {"external", "local"}
Generation == 1..MaxGeneration
Idle == [phase |-> "idle"]
Larger(m, n) == IF m < n THEN n ELSE m

Init ==
    /\ file = 0 /\ high = 0
    /\ available \in BOOLEAN
    /\ key = FALSE /\ session = FALSE
    /\ call = [c \in Caller |-> Idle]
    /\ source \in Locality \cup {None}
    /\ record = None
    /\ import = Idle
    /\ top = 0
    /\ raced = FALSE
    /\ crashes = 0

-----------------------------------------------------------------------------
\* SecretBackend.health: the memory is always available.
Healthy == available \/ session

\* A writer of provider.json is past the reads its decision rests on.
Writing == {c \in Caller : call[c].phase \notin {"idle", "asking", "reading"}}
Importing == import.phase # "idle"

\* saveGeneration.
Raised(generation) == Larger(high, generation)

Publish(generation) ==
    /\ file' = generation
    /\ top' = Larger(top, generation)

-----------------------------------------------------------------------------
(* providerSave and ProviderConfigurationService.save.                     *)

\* Without a key for an external endpoint the user is asked for one; if the
\* system cannot store it, first whether to keep it in memory.
BeginSave(c, locality) ==
    /\ call[c] = Idle
    /\ LET asks == locality = "external" /\ ~key IN
        /\ session' = (session \/ (asks /\ ~Healthy))
        /\ call' = [call EXCEPT ![c] = [phase |-> IF asks THEN "asking" ELSE "reading",
                                        locality |-> locality, entered |-> asks]]
    /\ UNCHANGED <<file, high, available, key, imports, top, raced, crashes>>

EnterKey(c) ==
    /\ call[c].phase = "asking"
    /\ \/ call' = [call EXCEPT ![c].phase = "reading"]
       \/ call' = [call EXCEPT ![c] = Idle]
    /\ UNCHANGED <<file, high, available, key, session, imports, top, raced, crashes>>

ReadPrevious(c) ==
    /\ call[c].phase = "reading"
    /\ call' = [call EXCEPT ![c] =
         [phase |-> "describing", locality |-> call[c].locality, entered |-> call[c].entered,
          previous |-> file]]
    /\ raced' = (raced \/ Writing # {} \/ Importing)
    /\ UNCHANGED <<file, high, available, key, session, imports, top, crashes>>

\* Mutant: a key is written wherever there is a place for it.
MutantStorable == TRUE
Storable == Healthy

\* An external endpoint needs a key, the one entered or one that is there.
StoreKey(c) ==
    /\ call[c].phase = "describing"
    /\ IF call[c].entered
       THEN IF Storable
            THEN key' = TRUE /\ call' = [call EXCEPT ![c].phase = "numbering"]
            ELSE call' = [call EXCEPT ![c] = Idle] /\ UNCHANGED key
       ELSE /\ call' = [call EXCEPT ![c] = IF call[c].locality = "external" /\ ~key THEN Idle
                                           ELSE [@ EXCEPT !.phase = "numbering"]]
            /\ UNCHANGED key
    /\ UNCHANGED <<file, high, available, session, imports, top, raced, crashes>>

\* Mutant: the highest generation counts only while there is a configuration.
MutantNextGeneration(previous) == previous + 1
NextGeneration(previous) == Larger(previous, high) + 1

Number(c) ==
    /\ call[c].phase = "numbering"
    /\ NextGeneration(call[c].previous) \in Generation
    /\ call' = [call EXCEPT ![c] =
         [phase |-> "queued", generation |-> NextGeneration(call[c].previous)]]
    /\ UNCHANGED <<file, high, available, key, session, imports, top, raced, crashes>>

\* store.write: one at a time for the store of the settings page.  The generation
\* is durable before the configuration is.
WriteGeneration(c) ==
    /\ call[c].phase = "queued"
    /\ \A d \in Caller : call[d].phase # "installing"
    /\ high' = Raised(call[c].generation)
    /\ call' = [call EXCEPT ![c].phase = "installing"]
    /\ UNCHANGED <<file, available, key, session, imports, top, raced, crashes>>

Install(c) ==
    /\ call[c].phase = "installing"
    /\ Publish(call[c].generation)
    /\ call' = [call EXCEPT ![c] = Idle]
    /\ UNCHANGED <<high, available, key, session, imports, raced, crashes>>

\* delete reads, raises and removes in turn, outside the queue of writes.
DeleteConfig ==
    /\ file # 0
    /\ high' = Raised(file)
    /\ file' = 0
    /\ raced' = (raced \/ Writing # {} \/ Importing)
    /\ UNCHANGED <<available, key, session, call, imports, top, crashes>>

DeleteSecret ==
    /\ Healthy /\ key
    /\ key' = FALSE
    /\ UNCHANGED <<file, high, available, session, call, imports, top, raced, crashes>>

\* withSessionSecrets.clear.
KeyAfterClose == key /\ ~session

\* closeResources, which also aborts the dialogs that ask for a key.
CloseProject ==
    /\ key' = KeyAfterClose
    /\ session' = FALSE
    /\ call' = [c \in Caller |-> IF call[c].phase = "asking" THEN Idle ELSE call[c]]
    /\ UNCHANGED <<file, high, available, imports, top, raced, crashes>>

-----------------------------------------------------------------------------
(* migrateProviderConfiguration: the record of an earlier import that was  *)
(* interrupted, or that could not copy the key, is taken up again.         *)

SourceGeneration == 1

BeginImport ==
    /\ import = Idle /\ source # None
    /\ record # None \/ file = 0
    /\ import' = [phase |-> IF record = None THEN "preparing" ELSE "deciding",
                  target |-> file, resumed |-> record # None]
    /\ raced' = (raced \/ Writing # {})
    /\ UNCHANGED <<file, high, available, key, session, call, source, record, top,
                   crashes>>

PrepareImport ==
    /\ import.phase = "preparing"
    /\ Larger(SourceGeneration, high) + 1 \in Generation
    /\ record' = [generation |-> Larger(SourceGeneration, high) + 1, stage |-> "prepared"]
    /\ import' = [import EXCEPT !.phase = "deciding"]
    /\ UNCHANGED <<file, high, available, key, session, call, source, top, raced,
                   crashes>>

\* What the user has saved or deleted since is kept.
Kept(target) ==
    IF target = 0 THEN high > record.generation \/ record.stage = "complete"
    ELSE target # record.generation

DecideImport ==
    /\ import.phase = "deciding"
    /\ import' = IF Kept(import.target) \/ (import.target # 0 /\ record.stage = "complete")
                 THEN Idle
                 ELSE [import EXCEPT !.phase = IF import.target = 0 THEN "numbering"
                                               ELSE "marking"]
    /\ UNCHANGED <<file, high, available, key, session, call, source, record, top,
                   raced, crashes>>

\* The import writes through a store of its own.
ImportGeneration ==
    /\ import.phase = "numbering"
    /\ high' = Raised(record.generation)
    /\ import' = [import EXCEPT !.phase = "installing"]
    /\ UNCHANGED <<file, available, key, session, call, source, record, top, raced,
                   crashes>>

ImportConfig ==
    /\ import.phase = "installing"
    /\ Publish(record.generation)
    /\ import' = [import EXCEPT !.phase = "marking"]
    /\ UNCHANGED <<high, available, key, session, call, source, record, raced, crashes>>

MarkImport ==
    /\ import.phase = "marking"
    /\ \/ /\ record' = [record EXCEPT !.stage = "config_migrated"]
          /\ import' = [import EXCEPT !.phase = "copying"]
       \/ file # record.generation /\ import' = Idle /\ UNCHANGED record
    /\ UNCHANGED <<file, high, available, key, session, call, source, top, raced,
                   crashes>>

\* The earlier key may be there, be missing or be unreadable; it is copied to the
\* system's store only.  Without one that is needed the import stays unfinished.
ImportKey ==
    /\ import.phase = "copying"
    /\ \/ available /\ key' = TRUE /\ import' = [import EXCEPT !.phase = "finishing"]
       \/ source = "local" /\ import' = [import EXCEPT !.phase = "finishing"]
          /\ UNCHANGED key
       \/ import' = Idle /\ UNCHANGED key
    /\ UNCHANGED <<file, high, available, session, call, source, record, top, raced,
                   crashes>>

FinishImport ==
    /\ import.phase = "finishing"
    /\ record' = [record EXCEPT !.stage = "complete"]
    /\ import' = Idle
    /\ UNCHANGED <<file, high, available, key, session, call, source, top, raced,
                   crashes>>

-----------------------------------------------------------------------------
Crash ==
    /\ crashes < MaxCrashes
    /\ \/ Importing
       \/ \E c \in Caller : call[c] # Idle
    /\ crashes' = crashes + 1
    /\ call' = [c \in Caller |-> Idle]
    /\ import' = Idle
    /\ key' = KeyAfterClose
    /\ session' = FALSE
    /\ UNCHANGED <<file, high, available, source, record, top, raced>>

Step ==
    \/ \E c \in Caller :
          \/ \E locality \in Locality : BeginSave(c, locality)
          \/ EnterKey(c) \/ ReadPrevious(c) \/ StoreKey(c) \/ Number(c)
          \/ WriteGeneration(c) \/ Install(c)
    \/ DeleteConfig \/ DeleteSecret \/ CloseProject
    \/ BeginImport \/ PrepareImport \/ DecideImport \/ ImportGeneration
    \/ ImportConfig \/ MarkImport \/ ImportKey \/ FinishImport
    \/ Crash

\* Bound: nothing is followed past an overlap of two writers.
Next == ~raced /\ Step

Spec == Init /\ [][Next]_vars

-----------------------------------------------------------------------------
(* Properties.                                                             *)

(* A generation names one publication for good: nothing is published under *)
(* one that was used, across deletions, crashes and imports -- unless two  *)
(* writers overlap, or an unfinished import is taken up again.             *)
PublishedIsNew ==
    [][/\ file' # file /\ file' # 0
       => (Importing /\ import.resumed) \/ top < file']_vars

(* A key the system cannot store does not outlive the session for which    *)
(* the user chose to keep it in memory, whatever save was in progress.     *)
SessionKeysDie == key => available \/ session

(* A configuration the user has deleted is not published again, even if    *)
(* nothing overlaps.                                                       *)
DeletedStaysDeleted ==
    [][file = 0 /\ file' # 0 => top < file']_vars
=============================================================================
