---------------------------- MODULE ProjectSession ----------------------------
(***************************************************************************)
(* The desktop application's hold on a project: KernelApplicationApi       *)
(* (kernel-api.ts), which opens, creates, repairs and maintains projects;  *)
(* the handlers of main.ts, which await the choice of a folder and a       *)
(* confirmation first; and HostDraftBridge (host-draft-bridge.ts), which   *)
(* lets a local host hand in drafts for ten minutes.  All of it runs in    *)
(* one thread that gives way at every await, where the system may suspend, *)
(* the page reload or the window close.                                    *)
(*                                                                         *)
(* epoch is sessionGeneration, which only equality is asked of: the code's *)
(* two or three increments in a row are one here.  The bridge's generation *)
(* is the number of the grant it last prepared or took back.               *)
(***************************************************************************)
EXTENDS Integers, FiniteSets

CONSTANTS
    Caller,     \* calls of the page in progress at once
    Upload,     \* uploads of a host
    None,
    MaxEpoch,   \* bound: changes of the session
    MaxGrants   \* bound: generations of the bridge

VARIABLES
    epoch,          \* sessionGeneration
    kernel,         \* the open project: the epoch it was opened in, or None
    opening, maintaining, disposed,
    calls,          \* the calls in progress
    generation,     \* the bridge's generation
    listening,      \* the grant a server is being started for, or None
    token,          \* the grant in force, or None
    expired,        \* is it past its ten minutes?
    uploads,        \* the grant each upload was begun with
    drafts,         \* the drafts taken in
    ended           \* history: the grants taken back or expired

bridge == <<generation, listening, token, expired, uploads, drafts, ended>>
flags == <<opening, maintaining, disposed>>
vars == <<epoch, kernel, flags, calls, bridge>>

Idle == [phase |-> "idle", kind |-> None, epoch |-> 0]
Kind == {"open", "create", "inspect", "change", "repair"}
Files == {"creating", "opening", "maintaining", "repairing"}

Init ==
    /\ epoch = 0 /\ kernel = None
    /\ opening = FALSE /\ maintaining = FALSE /\ disposed = FALSE
    /\ calls = [c \in Caller |-> Idle]
    /\ generation = 0 /\ listening = None /\ token = None /\ expired = FALSE
    /\ uploads = [u \in Upload |-> None]
    /\ drafts = {} /\ ended = {}

-----------------------------------------------------------------------------
To(c, phase) == calls' = [calls EXCEPT ![c].phase = phase, ![c].epoch = epoch']
Done(c) == calls' = [calls EXCEPT ![c] = Idle]

CloseBridge ==
    /\ generation < MaxGrants
    /\ generation' = generation + 1
    /\ token' = None /\ expired' = FALSE
    /\ ended' = ended \cup ({token} \ {None})

\* KernelApplicationApi.close.
CloseKernel ==
    /\ epoch < MaxEpoch
    /\ epoch' = epoch + 1
    /\ kernel' = None
    /\ CloseBridge
    /\ UNCHANGED <<listening, uploads, drafts>>

KeepOpen == UNCHANGED <<epoch, kernel, bridge>>

-----------------------------------------------------------------------------
(* A call waits for the folder's real path (selectedPath) and is refused   *)
(* if the session changed meanwhile; it waits again, for what is there, and*)
(* does not ask a second time.  If it changes files, it waits for the user *)
(* (confirmFileChange) and is refused as before.                           *)

Ask(c, kind) ==
    /\ calls[c] = Idle
    /\ kind \in {"open", "create"} => ~maintaining
    /\ calls' = [calls EXCEPT ![c] = [phase |-> "selecting", kind |-> kind, epoch |-> epoch]]
    /\ KeepOpen /\ UNCHANGED flags

SameSession(c) == calls[c].epoch = epoch

\* Mutant: a project that is being opened is not yet active.
MutantMaintainable == ~disposed /\ ~maintaining /\ kernel = None
Maintainable == ~disposed /\ ~opening /\ ~maintaining /\ kernel = None

Maintain(c) ==
    /\ KeepOpen
    /\ IF Maintainable
       THEN To(c, "maintaining") /\ maintaining' = TRUE
       ELSE Done(c) /\ UNCHANGED maintaining
    /\ UNCHANGED <<opening, disposed>>

\* open, create and repairBrief close what is open; main.ts has closed it before the
\* first two ask whether they may.
Enter(c, phase) ==
    IF disposed \/ maintaining \/ opening
    THEN /\ IF phase = "repairing" THEN KeepOpen ELSE CloseKernel
         /\ Done(c) /\ UNCHANGED flags
    ELSE /\ CloseKernel
         /\ To(c, phase)
         /\ opening' = TRUE /\ UNCHANGED <<maintaining, disposed>>

Select(c) ==
    /\ calls[c].phase = "selecting"
    /\ KeepOpen /\ UNCHANGED flags
    /\ Done(c) \/ (SameSession(c) /\ To(c, "selected"))

Selected(c) ==
    /\ calls[c].phase = "selected"
    /\ \/ Done(c) /\ KeepOpen /\ UNCHANGED flags
       \/ calls[c].kind = "open" /\ Enter(c, "opening")
       \/ calls[c].kind = "create" /\ Enter(c, "creating")
       \/ calls[c].kind = "inspect" /\ Maintain(c)
       \/ /\ calls[c].kind \in {"change", "repair"}
          /\ \A d \in Caller : calls[d].phase # "confirming"
          /\ KeepOpen /\ To(c, "confirming") /\ UNCHANGED flags

Confirm(c) ==
    /\ calls[c].phase = "confirming"
    /\ \/ Done(c) /\ KeepOpen /\ UNCHANGED flags
       \/ SameSession(c) /\ calls[c].kind = "change" /\ Maintain(c)
       \/ SameSession(c) /\ calls[c].kind = "repair" /\ Enter(c, "repairing")

-----------------------------------------------------------------------------
(* The ends of the calls; what they await may also fail.                   *)

\* create goes on with open at once.
Created(c) ==
    /\ calls[c].phase = "creating"
    /\ \/ opening' = FALSE /\ Done(c) /\ KeepOpen
       \/ SameSession(c) /\ ~disposed /\ CloseKernel /\ To(c, "opening") /\ UNCHANGED opening
    /\ UNCHANGED <<maintaining, disposed>>

\* Mutant: the project is open when the database is.
MutantStillWanted(c) == TRUE
StillWanted(c) == ~disposed /\ SameSession(c)

Opened(c) ==
    /\ calls[c].phase = "opening"
    /\ kernel' \in {kernel} \cup (IF StillWanted(c) THEN {epoch} ELSE {})
    /\ opening' = FALSE
    /\ Done(c)
    /\ UNCHANGED <<epoch, maintaining, disposed, bridge>>

Maintained(c) ==
    /\ calls[c].phase = "maintaining"
    /\ maintaining' = FALSE
    /\ Done(c)
    /\ KeepOpen /\ UNCHANGED <<opening, disposed>>

Repaired(c) ==
    /\ calls[c].phase = "repairing"
    /\ opening' = FALSE
    /\ Done(c)
    /\ KeepOpen /\ UNCHANGED <<maintaining, disposed>>

\* closeResources: the project is closed, the page reloads, the system suspends.
CloseResources ==
    /\ CloseKernel
    /\ UNCHANGED <<flags, calls>>

\* The window is closed.
Dispose ==
    /\ CloseKernel
    /\ disposed' = TRUE
    /\ UNCHANGED <<opening, maintaining, calls>>

-----------------------------------------------------------------------------
(* HostDraftBridge.                                                        *)

Enable ==
    /\ kernel # None /\ listening = None
    /\ CloseBridge
    /\ listening' = [number |-> generation', session |-> epoch]
    /\ UNCHANGED <<epoch, kernel, flags, calls, uploads, drafts>>

\* Mutant: a server that was started is used.
MutantUnrevoked == TRUE
Unrevoked == listening.number = generation

Listen ==
    /\ listening # None
    /\ \/ Unrevoked /\ token' = listening
       \/ UNCHANGED token
    /\ listening' = None
    /\ UNCHANGED <<epoch, kernel, flags, calls, generation, expired, uploads, drafts, ended>>

\* revoke_host_bridge, or the timer.
Revoke ==
    /\ kernel # None \/ expired
    /\ CloseBridge
    /\ UNCHANGED <<epoch, kernel, flags, calls, listening, uploads, drafts>>

Expire ==
    /\ token # None /\ ~expired
    /\ expired' = TRUE
    /\ ended' = ended \cup {token}
    /\ UNCHANGED <<epoch, kernel, flags, calls, generation, listening, token, uploads, drafts>>

BeginUpload(u) ==
    /\ token # None /\ ~expired
    /\ uploads[u] = None /\ \A d \in drafts : d.upload # u
    /\ uploads' = [uploads EXCEPT ![u] = token]
    /\ UNCHANGED <<epoch, kernel, flags, calls, generation, listening, token, expired, drafts,
                   ended>>

\* Mutant: the token was checked when the upload began.
MutantAccepts(u) == TRUE
\* `Revocation or expiry during upload must take effect before persistence.'
Accepts(u) == uploads[u] = token /\ ~expired

EndUpload(u) ==
    /\ uploads[u] # None
    /\ drafts' = IF Accepts(u) /\ kernel # None
                 THEN drafts \cup {[upload |-> u, grant |-> uploads[u], into |-> kernel]}
                 ELSE drafts
    /\ uploads' = [uploads EXCEPT ![u] = None]
    /\ UNCHANGED <<epoch, kernel, flags, calls, generation, listening, token, expired, ended>>

-----------------------------------------------------------------------------
Next ==
    \/ \E c \in Caller :
          \/ \E kind \in Kind : Ask(c, kind)
          \/ Select(c) \/ Selected(c) \/ Confirm(c)
          \/ Created(c) \/ Opened(c) \/ Maintained(c) \/ Repaired(c)
    \/ CloseResources \/ Dispose
    \/ Enable \/ Listen \/ Revoke \/ Expire
    \/ \E u \in Upload : BeginUpload(u) \/ EndUpload(u)

Spec == Init /\ [][Next]_vars

-----------------------------------------------------------------------------
(* Properties.                                                             *)

(* A project's files are in one hand: no two of an open project, an        *)
(* opening, a creation, a repair and a maintenance overlap, and once the   *)
(* window is closed no project is open any more.                           *)
Holders ==
    {c \in Caller : calls[c].phase \in Files} \cup (IF kernel = None THEN {} ELSE {"kernel"})
OneOwner ==
    /\ Cardinality(Holders) <= 1
    /\ disposed => kernel = None

(* A draft is taken in only under a grant that is still in force, and only *)
(* into the session in which the user gave it.                             *)
DraftsUnderGrant ==
    [][\A d \in drafts' \ drafts : d.grant \notin ended /\ d.into = d.grant.session]_vars
=============================================================================
