------------------------- MODULE ProjectSessionProofs -------------------------
(***************************************************************************)
(* Proofs about ProjectSession, for any number of calls and uploads, and   *)
(* any bounds.                                                             *)
(***************************************************************************)
EXTENDS ProjectSession, FiniteSetTheorems, TLAPS

Phase == {"idle", "selecting", "selected", "confirming"} \cup Files
CallRecord == [phase : Phase, kind : Kind \cup {None}, epoch : Nat]

TypeOK ==
    /\ epoch \in Nat /\ generation \in Nat
    /\ calls \in [Caller -> CallRecord]

(* The flags stand for the calls that work on files; there is one such     *)
(* call, or an open project, which is of the present session.              *)
HandsOK ==
    /\ \A c \in Caller :
          /\ calls[c].phase \in {"creating", "opening", "repairing"} => opening
          /\ calls[c].phase = "maintaining" => maintaining
    /\ \A c, d \in Caller : calls[c].phase \in Files /\ calls[d].phase \in Files => c = d
    /\ kernel # None => kernel = epoch /\ \A c \in Caller : calls[c].phase \notin Files
    /\ disposed => kernel = None

(* The grant in force, and one that may still come into force, are of the  *)
(* present generation and session; what has ended is of an earlier one, or *)
(* is the one that expired.                                                *)
GrantsOK ==
    /\ token # None => token.number = generation /\ token.session = epoch
    /\ expired => token # None
    /\ listening # None =>
          /\ listening.number \in Nat /\ listening.number <= generation
          /\ listening.number = generation => listening.session = epoch /\ token = None
    /\ \A t \in ended :
          /\ t.number \in Nat /\ t.number <= generation
          /\ t.number = generation => expired

IInv == TypeOK /\ HandsOK /\ GrantsOK

-----------------------------------------------------------------------------
(* What the helpers do.                                                    *)

LEMMA InitEstablishes == Init => IInv
BY DEF Init, IInv, TypeOK, HandsOK, GrantsOK, CallRecord, Phase, Idle, Files

LEMMA ToPhase ==
    ASSUME TypeOK, NEW c \in Caller, NEW phase \in Phase, epoch' \in Nat, To(c, phase)
    PROVE  /\ calls' \in [Caller -> CallRecord]
           /\ calls'[c].phase = phase
           /\ \A d \in Caller \ {c} : calls'[d] = calls[d]
<1> DEFINE r == [calls[c] EXCEPT !.phase = phase, !.epoch = epoch']
<1>1. calls[c] \in CallRecord
  BY DEF TypeOK
<1>2. r \in CallRecord /\ r.phase = phase
  BY <1>1 DEF CallRecord
<1>3. calls' = [calls EXCEPT ![c] = r]
  BY DEF To, TypeOK
<1> HIDE DEF r
<1> QED
  BY <1>2, <1>3 DEF TypeOK

LEMMA DonePhase ==
    ASSUME TypeOK, NEW c \in Caller, Done(c)
    PROVE  /\ calls' \in [Caller -> CallRecord]
           /\ calls'[c].phase = "idle"
           /\ \A d \in Caller \ {c} : calls'[d] = calls[d]
BY DEF Done, Idle, TypeOK, CallRecord, Phase

(* Taking the bridge back ends what was granted before.                    *)
LEMMA CloseBridgeGrants ==
    ASSUME IInv, CloseBridge, listening' = listening
    PROVE  GrantsOK' /\ generation' \in Nat
<1>1. generation \in Nat /\ generation' = generation + 1 /\ token' = None /\ ~expired'
      /\ ended' = ended \cup ({token} \ {None})
  BY DEF CloseBridge, IInv, TypeOK
<1>2. \A t \in ended' : t.number \in Nat /\ t.number <= generation
  BY <1>1 DEF IInv, GrantsOK
<1> QED
  BY <1>1, <1>2 DEF IInv, GrantsOK

LEMMA CloseKernelGrants ==
    ASSUME IInv, CloseKernel
    PROVE  /\ GrantsOK' /\ generation' \in Nat
           /\ epoch' \in Nat /\ kernel' = None
BY CloseBridgeGrants DEF CloseKernel, IInv, TypeOK

LEMMA KeepOpenGrants ==
    ASSUME IInv, KeepOpen
    PROVE  /\ GrantsOK' /\ generation' \in Nat
           /\ epoch' = epoch /\ epoch' \in Nat /\ kernel' = kernel
BY DEF KeepOpen, bridge, IInv, GrantsOK, TypeOK

-----------------------------------------------------------------------------
(* The calls.                                                              *)

(* A call that is, and stays, away from the files.                         *)
LEMMA AsideHands ==
    ASSUME IInv, NEW c \in Caller, UNCHANGED flags,
           kernel' = None \/ UNCHANGED <<kernel, epoch>>,
           calls'[c].phase \notin Files,
           \A d \in Caller \ {c} : calls'[d] = calls[d]
    PROVE  HandsOK'
<1>1. \A d \in Caller : calls'[d].phase \in Files => calls'[d] = calls[d]
  OBVIOUS
<1>2. \A d \in Caller : calls'[d].phase \in Files => calls[d].phase \in Files
  BY <1>1
<1>3. \A d \in Caller : calls'[d].phase \in {"creating", "opening", "repairing"} => opening
  BY <1>1 DEF IInv, HandsOK, Files
<1>4. \A d \in Caller : calls'[d].phase = "maintaining" => maintaining
  BY <1>1 DEF IInv, HandsOK, Files
<1>5. \A d, x \in Caller : calls'[d].phase \in Files /\ calls'[x].phase \in Files => d = x
  BY <1>2 DEF IInv, HandsOK
<1>6. kernel' # None =>
        kernel' = epoch' /\ (\A d \in Caller : calls'[d].phase \notin Files) /\ ~disposed
  BY <1>2 DEF IInv, HandsOK
<1> QED
  BY <1>3, <1>4, <1>5, <1>6 DEF HandsOK, flags

LEMMA AskKeeps ==
    ASSUME IInv, NEW c \in Caller, NEW kind \in Kind, Ask(c, kind)
    PROVE  IInv'
<1>1. /\ calls' \in [Caller -> CallRecord]
      /\ calls'[c].phase = "selecting"
      /\ \A d \in Caller \ {c} : calls'[d] = calls[d]
  BY DEF Ask, IInv, TypeOK, CallRecord, Phase
<1>2. HandsOK'
  BY <1>1, AsideHands, KeepOpenGrants DEF Ask, Files
<1> QED
  BY <1>1, <1>2, KeepOpenGrants DEF Ask, IInv, TypeOK

(* Nobody works on files, and the call begins to.                          *)
LEMMA MaintainKeeps ==
    ASSUME IInv, NEW c \in Caller, calls[c].phase \notin Files, Maintain(c)
    PROVE  IInv'
<1>1. GrantsOK' /\ generation' \in Nat /\ epoch' = epoch /\ epoch' \in Nat /\ kernel' = kernel
  BY KeepOpenGrants DEF Maintain
<1>2. CASE Maintainable
  <2>1. /\ ~opening /\ ~maintaining /\ kernel = None
        /\ opening' = opening /\ disposed' = disposed /\ maintaining'
        /\ To(c, "maintaining")
    BY <1>2 DEF Maintain, Maintainable
  <2>2. \A d \in Caller : calls[d].phase \notin Files
    BY <2>1 DEF IInv, HandsOK, Files
  <2>3. /\ calls' \in [Caller -> CallRecord]
        /\ calls'[c].phase = "maintaining"
        /\ \A d \in Caller \ {c} : calls'[d] = calls[d]
    BY <1>1, <2>1, ToPhase DEF IInv, Phase, Files
  <2>4. HandsOK'
    BY <1>1, <2>1, <2>2, <2>3 DEF HandsOK, Files
  <2> QED
    BY <1>1, <2>3, <2>4 DEF IInv, TypeOK
<1>3. CASE ~Maintainable
  <2>1. Done(c) /\ UNCHANGED flags
    BY <1>3 DEF Maintain, flags
  <2>2. /\ calls' \in [Caller -> CallRecord]
        /\ calls'[c].phase = "idle"
        /\ \A d \in Caller \ {c} : calls'[d] = calls[d]
    BY <2>1, DonePhase DEF IInv
  <2>3. HandsOK'
    BY <1>1, <2>1, <2>2, AsideHands DEF Files
  <2> QED
    BY <1>1, <2>2, <2>3 DEF IInv, TypeOK
<1> QED
  BY <1>2, <1>3

LEMMA EnterKeeps ==
    ASSUME IInv, NEW c \in Caller, calls[c].phase \notin Files,
           NEW phase \in {"opening", "creating", "repairing"}, Enter(c, phase)
    PROVE  IInv'
<1>1. CASE disposed \/ maintaining \/ opening
  <2>1. Done(c) /\ UNCHANGED flags
    BY <1>1 DEF Enter
  <2>2. KeepOpen \/ CloseKernel
    BY <1>1 DEF Enter
  <2>3. /\ GrantsOK' /\ generation' \in Nat /\ epoch' \in Nat
        /\ kernel' = None \/ UNCHANGED <<kernel, epoch>>
    BY <2>2, KeepOpenGrants, CloseKernelGrants
  <2>4. /\ calls' \in [Caller -> CallRecord]
        /\ calls'[c].phase = "idle"
        /\ \A d \in Caller \ {c} : calls'[d] = calls[d]
    BY <2>1, DonePhase DEF IInv
  <2>5. HandsOK'
    BY <2>1, <2>3, <2>4, AsideHands DEF Files
  <2> QED
    BY <2>3, <2>4, <2>5 DEF IInv, TypeOK
<1>2. CASE ~(disposed \/ maintaining \/ opening)
  <2>1. /\ ~opening /\ ~maintaining /\ ~disposed
        /\ opening' /\ maintaining' = maintaining /\ disposed' = disposed
        /\ CloseKernel /\ To(c, phase)
    BY <1>2 DEF Enter
  <2>2. \A d \in Caller : calls[d].phase \notin Files
    BY <2>1 DEF IInv, HandsOK, Files
  <2>3. GrantsOK' /\ generation' \in Nat /\ epoch' \in Nat /\ kernel' = None
    BY <2>1, CloseKernelGrants
  <2>4. /\ calls' \in [Caller -> CallRecord]
        /\ calls'[c].phase = phase
        /\ \A d \in Caller \ {c} : calls'[d] = calls[d]
    BY <2>1, <2>3, ToPhase DEF IInv, Phase, Files
  <2>5. HandsOK'
    BY <2>1, <2>2, <2>3, <2>4 DEF HandsOK, Files
  <2> QED
    BY <2>3, <2>4, <2>5 DEF IInv, TypeOK
<1> QED
  BY <1>1, <1>2

(* The call is over, or waits for the user.                                *)
LEMMA AwayKeeps ==
    ASSUME IInv, NEW c \in Caller, NEW phase \in Phase \ Files,
           Done(c) \/ To(c, phase), KeepOpen, UNCHANGED flags
    PROVE  IInv'
<1>1. /\ GrantsOK' /\ generation' \in Nat /\ epoch' = epoch /\ epoch' \in Nat
      /\ kernel' = kernel
  BY KeepOpenGrants
<1>2. /\ calls' \in [Caller -> CallRecord]
      /\ calls'[c].phase \notin Files
      /\ \A d \in Caller \ {c} : calls'[d] = calls[d]
  <2>1. CASE Done(c)
    BY <2>1, DonePhase DEF IInv, Files
  <2>2. CASE To(c, phase)
    BY <1>1, <2>2, ToPhase DEF IInv
  <2> QED
    BY <2>1, <2>2
<1>3. HandsOK'
  BY <1>1, <1>2, AsideHands
<1> QED
  BY <1>1, <1>2, <1>3 DEF IInv, TypeOK

LEMMA SelectKeeps ==
    ASSUME IInv, NEW c \in Caller, Select(c) \/ Selected(c) \/ Confirm(c)
    PROVE  IInv'
<1>1. calls[c].phase \notin Files
  BY DEF Select, Selected, Confirm, Files
<1>2. CASE Enter(c, "opening") \/ Enter(c, "creating") \/ Enter(c, "repairing")
  BY <1>1, <1>2, EnterKeeps
<1>3. CASE Maintain(c)
  BY <1>1, <1>3, MaintainKeeps
<1>4. CASE (Done(c) \/ To(c, "selected") \/ To(c, "confirming")) /\ KeepOpen /\ UNCHANGED flags
  <2>1. "selected" \in Phase \ Files /\ "confirming" \in Phase \ Files
    BY DEF Files, Phase
  <2> QED
    BY <1>4, <2>1, AwayKeeps
<1> QED
  BY <1>2, <1>3, <1>4 DEF Select, Selected, Confirm

(* The one call that works on files is over: its flag is free.             *)
LEMMA OverKeeps ==
    ASSUME IInv, NEW c \in Caller, calls[c].phase \in Files, Done(c), disposed' = disposed,
           UNCHANGED <<epoch, bridge>>,
           opening' = opening \/ calls[c].phase # "maintaining",
           maintaining' = maintaining \/ calls[c].phase = "maintaining",
           \/ kernel' = kernel
           \/ kernel' = epoch /\ ~disposed
    PROVE  IInv'
<1>1. /\ calls' \in [Caller -> CallRecord]
      /\ calls'[c].phase = "idle"
      /\ \A d \in Caller \ {c} : calls'[d] = calls[d]
  BY DonePhase DEF IInv
<1>2. \A d \in Caller : calls'[d].phase \notin Files
  BY <1>1 DEF IInv, HandsOK, Files
<1>3. kernel' # None => kernel' = epoch
  BY DEF IInv, HandsOK
<1>4. HandsOK'
  BY <1>2, <1>3 DEF IInv, HandsOK, Files
<1>5. GrantsOK' /\ generation' \in Nat /\ epoch' \in Nat
  BY DEF IInv, GrantsOK, bridge, TypeOK
<1> QED
  BY <1>1, <1>4, <1>5 DEF IInv, TypeOK

LEMMA EndKeeps ==
    ASSUME IInv, NEW c \in Caller, Created(c) \/ Opened(c) \/ Maintained(c) \/ Repaired(c)
    PROVE  IInv'
<1>1. CASE Created(c) /\ CloseKernel
  <2>1. /\ calls[c].phase = "creating" /\ UNCHANGED flags /\ To(c, "opening")
    BY <1>1, KeepOpenGrants, CloseKernelGrants DEF Created, flags, KeepOpen, CloseKernel, IInv, TypeOK
  <2>2. GrantsOK' /\ generation' \in Nat /\ epoch' \in Nat /\ kernel' = None
    BY <1>1, CloseKernelGrants
  <2>3. /\ calls' \in [Caller -> CallRecord]
        /\ calls'[c].phase = "opening"
        /\ \A d \in Caller \ {c} : calls'[d] = calls[d]
    BY <2>1, <2>2, ToPhase DEF IInv, Phase, Files
  <2>4. opening /\ \A d \in Caller \ {c} : calls'[d].phase \notin Files
    BY <2>1, <2>3 DEF IInv, HandsOK, Files
  <2>5. HandsOK'
    BY <2>1, <2>2, <2>3, <2>4 DEF HandsOK, Files, flags
  <2> QED
    BY <2>2, <2>3, <2>5 DEF IInv, TypeOK
<1>2. CASE Created(c) /\ ~CloseKernel
  BY <1>2, OverKeeps DEF Created, KeepOpen, Files
<1>3. CASE Opened(c)
  BY <1>3, OverKeeps DEF Opened, StillWanted, Files
<1>4. CASE Maintained(c)
  BY <1>4, OverKeeps DEF Maintained, KeepOpen, Files
<1>5. CASE Repaired(c)
  BY <1>5, OverKeeps DEF Repaired, KeepOpen, Files
<1> QED
  BY <1>1, <1>2, <1>3, <1>4, <1>5

LEMMA ClosingKeeps ==
    ASSUME IInv, CloseResources \/ Dispose
    PROVE  IInv'
<1>1. GrantsOK' /\ generation' \in Nat /\ epoch' \in Nat /\ kernel' = None
  BY CloseKernelGrants DEF CloseResources, Dispose
<1>2. calls' = calls /\ opening' = opening /\ maintaining' = maintaining
  BY DEF CloseResources, Dispose, flags
<1>3. HandsOK'
  BY <1>1, <1>2 DEF IInv, HandsOK
<1> QED
  BY <1>1, <1>2, <1>3 DEF IInv, TypeOK

-----------------------------------------------------------------------------
(* The bridge.                                                             *)

LEMMA BridgeHands ==
    ASSUME IInv, UNCHANGED <<epoch, kernel, flags, calls>>, GrantsOK', generation' \in Nat
    PROVE  IInv'
BY DEF IInv, HandsOK, TypeOK, flags

LEMMA BridgeKeeps ==
    ASSUME IInv,
           \/ Enable \/ Listen \/ Revoke \/ Expire
           \/ \E u \in Upload : BeginUpload(u) \/ EndUpload(u)
    PROVE  IInv'
<1>1. CASE Enable
  <2>1. /\ generation \in Nat /\ generation' = generation + 1 /\ token' = None /\ ~expired'
        /\ ended' = ended \cup ({token} \ {None})
        /\ listening' = [number |-> generation', session |-> epoch]
        /\ UNCHANGED <<epoch, kernel, flags, calls>>
    BY <1>1 DEF Enable, CloseBridge, IInv, TypeOK
  <2>2. \A t \in ended' : t.number \in Nat /\ t.number <= generation
    BY <2>1 DEF IInv, GrantsOK
  <2>3. GrantsOK'
    BY <2>1, <2>2 DEF GrantsOK
  <2> QED
    BY <2>1, <2>3, BridgeHands
<1>2. CASE Listen
  <2>1. GrantsOK' /\ generation' \in Nat
    BY <1>2 DEF Listen, Unrevoked, IInv, GrantsOK, TypeOK
  <2> QED
    BY <1>2, <2>1, BridgeHands DEF Listen
<1>3. CASE Revoke
  BY <1>3, CloseBridgeGrants, BridgeHands DEF Revoke
<1>4. CASE Expire
  <2>1. GrantsOK' /\ generation' \in Nat
    BY <1>4 DEF Expire, IInv, GrantsOK, TypeOK
  <2> QED
    BY <1>4, <2>1, BridgeHands DEF Expire
<1>5. ASSUME NEW u \in Upload, BeginUpload(u) \/ EndUpload(u) PROVE IInv'
  <2>1. UNCHANGED <<epoch, kernel, flags, calls, generation, listening, token, expired, ended>>
    BY <1>5 DEF BeginUpload, EndUpload
  <2>2. GrantsOK' /\ generation' \in Nat
    BY <2>1 DEF IInv, GrantsOK, TypeOK
  <2> QED
    BY <2>1, <2>2, BridgeHands
<1> QED
  BY <1>1, <1>2, <1>3, <1>4, <1>5

-----------------------------------------------------------------------------
(* The theorems.                                                           *)

LEMMA NextStep == IInv /\ [Next]_vars => IInv'
<1> SUFFICES ASSUME IInv, [Next]_vars PROVE IInv'
  OBVIOUS
<1>1. CASE UNCHANGED vars
  BY <1>1 DEF vars, flags, bridge, IInv, TypeOK, HandsOK, GrantsOK
<1>2. CASE Next
  BY <1>2, AskKeeps, SelectKeeps, EndKeeps, ClosingKeeps, BridgeKeeps DEF Next
<1> QED
  BY <1>1, <1>2

(* The inductive invariant of the session and the bridge.                  *)
THEOREM Invariance == Spec => []IInv
BY InitEstablishes, NextStep, PTL DEF Spec

(* A project's files are in one hand, and a closed window opens none.      *)
THEOREM OneOwnerTheorem == Spec => []OneOwner
<1>1. IInv => OneOwner
  <2> SUFFICES ASSUME IInv PROVE Cardinality(Holders) <= 1 /\ (disposed => kernel = None)
    BY DEF OneOwner
  <2>1. \E x : Holders \subseteq {x}
    <3>1. CASE kernel # None
      BY <3>1 DEF IInv, HandsOK, Holders
    <3>2. CASE kernel = None /\ \E c \in Caller : calls[c].phase \in Files
      <4>1. PICK c \in Caller : calls[c].phase \in Files
        BY <3>2
      <4>2. Holders \subseteq {c}
        BY <3>2, <4>1 DEF IInv, HandsOK, Holders
      <4> QED
        BY <4>2
    <3>3. CASE kernel = None /\ ~\E c \in Caller : calls[c].phase \in Files
      BY <3>3 DEF Holders
    <3> QED
      BY <3>1, <3>2, <3>3
  <2>2. PICK x : Holders \subseteq {x}
    BY <2>1
  <2>3. IsFiniteSet({x}) /\ Cardinality({x}) = 1
    BY FS_Singleton
  <2>4. Cardinality(Holders) <= 1
    BY <2>2, <2>3, FS_Subset
  <2> QED
    BY <2>4 DEF IInv, HandsOK
<1> QED
  BY <1>1, Invariance, PTL

(* A draft is taken in only under the grant in force, and only into the    *)
(* session in which the user gave it.                                      *)
THEOREM DraftsUnderGrantTheorem == Spec => DraftsUnderGrant
<1> DEFINE Under == \A d \in drafts' \ drafts : d.grant \notin ended /\ d.into = d.grant.session
<1>1. IInv /\ [Next]_vars => Under
  <2> SUFFICES ASSUME IInv, [Next]_vars, NEW d \in drafts' \ drafts
               PROVE  d.grant \notin ended /\ d.into = d.grant.session
    OBVIOUS
  <2>1. PICK u \in Upload : EndUpload(u)
    <3>1. drafts' # drafts
      OBVIOUS
    <3>2. ASSUME NEW c \in Caller
          PROVE  /\ \A kind \in Kind : ~Ask(c, kind)
                 /\ ~Select(c) /\ ~Selected(c) /\ ~Confirm(c)
                 /\ ~Created(c) /\ ~Opened(c) /\ ~Maintained(c) /\ ~Repaired(c)
      BY <3>1 DEF Ask, Select, Selected, Confirm, Created, Opened, Maintained, Repaired, Maintain,
                  Enter, KeepOpen, CloseKernel, bridge
    <3>3. /\ ~CloseResources /\ ~Dispose /\ ~Enable /\ ~Listen /\ ~Revoke /\ ~Expire
          /\ \A u \in Upload : ~BeginUpload(u)
      BY <3>1 DEF CloseResources, Dispose, Enable, Listen, Revoke, Expire, BeginUpload, CloseKernel
    <3>4. ~UNCHANGED vars
      BY <3>1 DEF vars, bridge
    <3> QED
      BY <3>2, <3>3, <3>4 DEF Next
  <2>2. /\ Accepts(u) /\ kernel # None /\ uploads[u] # None
        /\ d = [upload |-> u, grant |-> uploads[u], into |-> kernel]
    BY <2>1 DEF EndUpload
  <2>3. d.grant = token /\ d.into = kernel /\ token # None /\ ~expired
    BY <2>2 DEF Accepts
  <2>4. kernel = epoch /\ token.session = epoch /\ token.number = generation
    BY <2>2, <2>3 DEF IInv, HandsOK, GrantsOK
  <2>5. token \notin ended
    BY <2>3, <2>4 DEF IInv, GrantsOK
  <2> QED
    BY <2>3, <2>4, <2>5
<1>2. IInv /\ [Next]_vars => [Under]_vars
  BY <1>1
<1> QED
  BY <1>2, Invariance, PTL DEF Spec, DraftsUnderGrant
=============================================================================
