------------------------------ MODULE MCDesktop ------------------------------
(***************************************************************************)
(* TLC instance of the desktop application's own state: ProviderSettings   *)
(* and ProjectSession, side by side.  What they share is closeResources,   *)
(* which each models on its side, so a behaviour is of one of them, which  *)
(* the initial state chooses.                                              *)
(***************************************************************************)
EXTENDS ProviderSettings

CONSTANTS Upload, MaxEpoch, MaxGrants

VARIABLES
    part,   \* "settings" or "session"
    epoch, kernel, opening, maintaining, disposed, calls, generation, listening, token,
    expired, uploads, drafts, ended

sessionVars ==
    <<epoch, kernel, opening, maintaining, disposed, calls, generation, listening, token,
      expired, uploads, drafts, ended>>

Session == INSTANCE ProjectSession

\* The part that is not chosen stays in one of its initial states.
DesktopInit ==
    /\ Init /\ Session!Init
    /\ part \in {"settings", "session"}
    /\ part = "session" => source = None /\ available

DesktopNext ==
    \/ part = "settings" /\ Next /\ UNCHANGED <<part, sessionVars>>
    \/ part = "session" /\ Session!Next /\ UNCHANGED <<part, vars>>

DesktopSpec == DesktopInit /\ [][DesktopNext]_<<part, vars, sessionVars>>

-----------------------------------------------------------------------------
(* A project's files are in one hand.                                      *)
OneOwner == Session!OneOwner

(* A draft is taken in only under the grant in force, into its session.    *)
DraftsUnderGrant == Session!DraftsUnderGrant
=============================================================================
