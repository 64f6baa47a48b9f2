--------------------------- MODULE BriefPublication ---------------------------
(***************************************************************************)
(* Publication of the derived Brief file of one project                    *)
(* (kernel-brief-publisher.ts), its repair when the file is missing and    *)
(* its check when the project is opened (kernel-migration.ts).             *)
(*                                                                         *)
(* The body is a function of the project revision, so a published body is  *)
(* the revision it was rendered from.  A publication is two transactions   *)
(* with the file installed inside the second one: Prepare commits what is  *)
(* about to be published; Check, Write, Install and Finish are the steps   *)
(* of the second, which holds the database's write lock (txn) but cannot   *)
(* keep anybody from editing the file.  row and head are in the database,  *)
(* file is on disk, everything else dies with its process.                 *)
(***************************************************************************)
EXTENDS Integers

CONSTANTS
    Process,        \* processes that may have the project open
    Foreign,        \* contents of the file no publication ever wrote
    None,           \* no file; no process; no pending body
    MaxRevision,    \* bound: revisions committed
    MaxEdits,       \* bound: changes of the file by somebody else
    MaxCrashes      \* bound: processes that die or fail in a publication

Body == 1..MaxRevision

ASSUME BoundAssumption ==
    MaxRevision \in Nat \ {0} /\ MaxEdits \in Nat /\ MaxCrashes \in Nat
ASSUME ForeignAssumption == Foreign \cap (Body \cup {None}) = {}
ASSUME NoneAssumption == None \notin Body \cup Process

VARIABLES
    head,       \* the project revision
    row,        \* the brief_file row of research_projection_metadata
    file,       \* research-brief.yaml
    phase,      \* where each process is
    held,       \* what a process keeps between its two transactions
    txn,        \* the process inside its second transaction
    guard,      \* the process that holds the maintenance guard, to repair
    ours,       \* history: was the file last written by a publication?
    raced,      \* history: was the file edited since txn made its check?
    edits, crashes

vars == <<head, row, file, phase, held, txn, guard, ours, raced, edits, crashes>>

Phase ==
    {"closed", "opening", "open", "prepared", "checked", "written", "installed"}
Row == [status : {"ready", "rebuilding"}, source : Body,
        content : Body, pending : Body \cup {None}]
Nothing == [body |-> None, existing |-> None]

\* What kernelBriefDocument renders now, and the contents the row vouches for.
Rendered == head
\* Mutant: the pending body is not recognized.
MutantRecorded == {row.content}
Recorded == {row.content, row.pending} \ {None}
Known(c) == c = Rendered \/ c \in Recorded

\* A transaction needs the write lock, and the fence unless it is the guard's own.
MayWrite(p) == txn = None /\ guard \in {None, p}

-----------------------------------------------------------------------------
Init ==
    /\ head = 1
    /\ row = [status |-> "ready", source |-> 1, content |-> 1, pending |-> None]
    /\ file = 1
    /\ phase = [p \in Process |-> "closed"]
    /\ held = [p \in Process |-> Nothing]
    /\ txn = None /\ guard = None
    /\ ours = TRUE /\ raced = FALSE /\ edits = 0 /\ crashes = 0

Go(p, to) == phase' = [phase EXCEPT ![p] = to]

\* Opening reads the file first and the database afterwards.
ReadFile(p) ==
    /\ phase[p] = "closed" /\ guard # p /\ file # None
    /\ held' = [held EXCEPT ![p].existing = file]
    /\ Go(p, "opening")
    /\ UNCHANGED <<head, row, file, txn, guard, ours, raced, edits, crashes>>

Validate(p) ==
    /\ phase[p] = "opening"
    /\ Go(p, IF Known(held[p].existing) THEN "open" ELSE "closed")
    /\ held' = [held EXCEPT ![p] = Nothing]
    /\ UNCHANGED <<head, row, file, txn, guard, ours, raced, edits, crashes>>

\* The user closes the project; asking for a repair does so too.
Close(p) ==
    /\ phase[p] = "open"
    /\ Go(p, "closed")
    /\ UNCHANGED <<head, row, file, held, txn, guard, ours, raced, edits, crashes>>

\* Any canonical change made by a process that has the project open.
Commit(p) ==
    /\ phase[p] = "open" /\ MayWrite(p)
    /\ head < MaxRevision
    /\ head' = head + 1
    /\ UNCHANGED <<row, file, phase, held, txn, guard, ours, raced, edits, crashes>>

\* repairMissingKernelBrief: only for an absent file, and with the guard held.
StartRepair(p) ==
    /\ phase[p] = "closed" /\ guard = None /\ txn = None
    /\ file = None
    /\ guard' = p
    /\ UNCHANGED <<head, row, file, phase, held, txn, ours, raced, edits, crashes>>

-----------------------------------------------------------------------------
(* publishKernelBriefFile.                                                 *)

Publishes(p) == phase[p] = "open" \/ (guard = p /\ phase[p] = "closed")
Replaces(p) == guard # p

\* An unknown file, or a missing one outside a repair, ends the publication.
\* Mutant: a missing file is refused in a repair as well.
MutantPublishable(p) == file # None /\ Known(file)
Publishable(p) == IF file = None THEN ~Replaces(p) ELSE Known(file)

\* Mutant: the row keeps the content it recorded last, not what is on disk.
MutantAnnounced == [row EXCEPT !.status = "rebuilding", !.pending = Rendered]
\* Mutant: the row stays ready while the body is pending.
MutantReady ==
    [row EXCEPT !.pending = Rendered, !.content = IF file = None THEN @ ELSE file]
Announced ==
    [row EXCEPT !.status = "rebuilding", !.pending = Rendered,
                !.content = IF file = None THEN @ ELSE file]

Prepare(p) ==
    /\ Publishes(p) /\ MayWrite(p) /\ Publishable(p)
    /\ row' = Announced
    /\ held' = [held EXCEPT ![p] = [body |-> Rendered, existing |-> file]]
    /\ Go(p, "prepared")
    /\ UNCHANGED <<head, file, txn, guard, ours, raced, edits, crashes>>

\* Every end of a publication but a crash closes a repair and frees its locks.
Ended(p) ==
    /\ Go(p, IF guard = p THEN "closed" ELSE "open")
    /\ held' = [held EXCEPT ![p] = Nothing]
    /\ txn' = IF txn = p THEN None ELSE txn
    /\ guard' = IF guard = p THEN None ELSE guard

\* A repair refused in its first transaction: an unknown file has appeared
\* since it began.  A refusal with the project open changes nothing.
PrepareFails(p) ==
    /\ phase[p] = "closed" /\ guard = p /\ MayWrite(p)
    /\ ~Publishable(p)
    /\ Ended(p)
    /\ UNCHANGED <<head, row, file, ours, raced, edits, crashes>>

\* Mutant: the file is not compared again.
MutantSameRevision(p) == head = held[p].body
Unchanged(p) == head = held[p].body /\ file = held[p].existing

Check(p) ==
    /\ phase[p] = "prepared" /\ MayWrite(p)
    /\ Unchanged(p)
    /\ txn' = p
    /\ raced' = FALSE
    /\ Go(p, "checked")
    /\ UNCHANGED <<head, row, file, held, guard, ours, edits, crashes>>

CheckFails(p) ==
    /\ phase[p] = "prepared" /\ MayWrite(p)
    /\ ~Unchanged(p)
    /\ Ended(p)
    /\ UNCHANGED <<head, row, file, ours, raced, edits, crashes>>

\* The temporary file is written and synced; its name is this publication's own.
Write(p) ==
    /\ phase[p] = "checked"
    /\ Go(p, "written")
    /\ UNCHANGED <<head, row, file, held, txn, guard, ours, raced, edits, crashes>>

\* rename() replaces whatever is there; link() refuses when a file appeared.
\* Mutant: a missing file, too, is installed by rename().
MutantInstalls(p) == TRUE
Installs(p) == held[p].existing # None \/ file = None

Install(p) ==
    /\ phase[p] = "written"
    /\ IF Installs(p)
       THEN /\ file' = held[p].body /\ ours' = TRUE
            /\ Go(p, "installed")
            /\ UNCHANGED <<held, txn, guard>>
       ELSE /\ Ended(p)
            /\ UNCHANGED <<file, ours>>
    /\ UNCHANGED <<head, row, raced, edits, crashes>>

Finish(p) ==
    /\ phase[p] = "installed"
    /\ row' = [status |-> "ready", source |-> held[p].body,
               content |-> held[p].body, pending |-> None]
    /\ Ended(p)
    /\ UNCHANGED <<head, file, ours, raced, edits, crashes>>

-----------------------------------------------------------------------------
(* A failed write, a full disk or an exception rolls the transaction back; *)
(* a crash does too, and ends the process.                                 *)

InPublication(p) == phase[p] \in {"prepared", "checked", "written", "installed"}

Fail(p) ==
    /\ InPublication(p) /\ crashes < MaxCrashes
    /\ crashes' = crashes + 1
    /\ Ended(p)
    /\ UNCHANGED <<head, row, file, ours, raced, edits>>

Crash(p) ==
    /\ (phase[p] # "closed" \/ guard = p) /\ crashes < MaxCrashes
    /\ crashes' = crashes + 1
    /\ Go(p, "closed")
    /\ held' = [held EXCEPT ![p] = Nothing]
    /\ txn' = IF txn = p THEN None ELSE txn
    /\ guard' = IF guard = p THEN None ELSE guard
    /\ UNCHANGED <<head, row, file, ours, raced, edits>>

\* A user or a tool writes something else, brings an old copy back, or deletes it.
Edit ==
    /\ edits < MaxEdits
    /\ edits' = edits + 1
    /\ file' \in (Foreign \cup 1..head \cup {None}) \ {file}
    /\ ours' = FALSE
    /\ raced' = (txn # None)
    /\ UNCHANGED <<head, row, phase, held, txn, guard, crashes>>

-----------------------------------------------------------------------------
Publication(p) ==
    \/ Prepare(p) \/ PrepareFails(p) \/ Check(p) \/ CheckFails(p)
    \/ Write(p) \/ Install(p) \/ Finish(p)

Next ==
    \/ \E p \in Process :
        \/ ReadFile(p) \/ Validate(p) \/ Close(p) \/ Commit(p) \/ StartRepair(p)
        \/ Publication(p) \/ Fail(p) \/ Crash(p)
    \/ Edit

Spec == Init /\ [][Next]_vars

(* A publication is one synchronous call: once begun it runs.  That there  *)
(* is a next open, a next publication and a next repair is up to the user, *)
(* who asks for them as long as the file is not published, and who closes  *)
(* the project before asking for the repair of a missing file.             *)
FairSpec ==
    /\ Spec
    /\ \A p \in Process :
        /\ WF_vars(PrepareFails(p)) /\ WF_vars(Check(p) \/ CheckFails(p))
        /\ WF_vars(Write(p)) /\ WF_vars(Install(p)) /\ WF_vars(Finish(p))
        /\ WF_vars(Validate(p)) /\ SF_vars(ReadFile(p))
        /\ SF_vars(Prepare(p)) /\ SF_vars(StartRepair(p))
        /\ WF_vars(file = None /\ Close(p))

-----------------------------------------------------------------------------
(* Properties.                                                             *)

TypeOK ==
    /\ head \in Body
    /\ row \in Row
    /\ file \in Body \cup Foreign \cup {None}
    /\ phase \in [Process -> Phase]
    /\ held \in [Process -> [body : Body \cup {None},
                             existing : Body \cup Foreign \cup {None}]]
    /\ txn \in Process \cup {None}
    /\ guard \in Process \cup {None}
    /\ ours \in BOOLEAN /\ raced \in BOOLEAN
    /\ edits \in 0..MaxEdits
    /\ crashes \in 0..MaxCrashes

(* Whatever failed, crashed or raced, a file that a publication wrote last *)
(* is one the database vouches for: opening and publishing accept it.      *)
OwnFileIsKnown == ours => Known(file)

(* A ready row is true: unless somebody edited the file, it has the        *)
(* content the row names, rendered from the revision the row names.        *)
ReadyIsTrue ==
    row.status = "ready" /\ ours => file = row.content /\ file = row.source

(* A file with unknown content is replaced only by a publication whose     *)
(* check had found a known file: an edit that came after the check is lost,*)
(* one that came before it is not, and a file that appears where none was  *)
(* is never replaced.                                                      *)
UnknownLostOnlyByRace ==
    [][(file \in Foreign /\ file' # file /\ edits' = edits)
        => /\ raced
           /\ \E p \in Process : txn = p /\ held[p].existing \in Body]_vars

(* A failed publication leaves a view that can be repaired: as long as no  *)
(* unknown file is in the way, the file becomes current again.             *)
Published == row.status = "ready" /\ file = head /\ row.source = head
Repairable == []<>(Published \/ (file # None /\ ~Known(file)))

=============================================================================
