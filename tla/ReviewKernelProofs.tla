-------------------------- MODULE ReviewKernelProofs --------------------------
(***************************************************************************)
(* Theorems about ReviewKernel, for every set of reviews, manifests,       *)
(* memory items, commands and Providers, every bound and either value of   *)
(* StorageFaults.                                                          *)
(***************************************************************************)
EXTENDS ReviewKernel, TLAPS

(***************************************************************************)
(* What the record helpers return.                                         *)
(***************************************************************************)

LEMMA NoDraftType == NoDraft \in Draft
  BY DEF NoDraft, Draft, EffectKind

LEMMA NoReviewType == NoReview \in ReviewRecord
  BY NoDraftType DEF NoReview, ReviewRecord, ReviewStatus

LEMMA NoManifestType == NoManifest \in ManifestRecord
  BY DEF NoManifest, ManifestRecord, ManifestStatus, AttemptStatus

LEMMA SavedType ==
  ASSUME NEW rv \in ReviewRecord, NEW st \in ReviewStatus
  PROVE  Saved(rv, st) \in ReviewRecord
<1>1. rv.version + 1 \in Nat
  BY DEF ReviewRecord
<1> QED
  BY <1>1 DEF Saved, ReviewRecord

LEMMA DeadType ==
  ASSUME NEW d \in Draft
  PROVE  [d EXCEPT !.live = FALSE] \in Draft
  BY DEF Draft

LEMMA StaledType ==
  ASSUME NEW rv \in ReviewRecord
  PROVE  Staled(rv) \in ReviewRecord
<1>1. "stale" \in ReviewStatus
  BY DEF ReviewStatus
<1>2. Saved(rv, "stale") \in ReviewRecord
  BY <1>1, SavedType
<1>3. \A sv \in ReviewRecord : [sv EXCEPT !.draft.live = FALSE] \in ReviewRecord
  BY DeadType DEF ReviewRecord, Draft
<1> QED
  BY <1>2, <1>3 DEF Staled

LEMMA SetStatusType ==
  ASSUME NEW mf \in ManifestRecord, NEW st \in ManifestStatus
  PROVE  [mf EXCEPT !.status = st] \in ManifestRecord
  BY DEF ManifestRecord

LEMMA SetAttemptType ==
  ASSUME NEW mf \in ManifestRecord, NEW at \in AttemptStatus
  PROVE  [mf EXCEPT !.attempt = at] \in ManifestRecord
  BY DEF ManifestRecord

LEMMA AttemptsCancelledType ==
  ASSUME TypeOK, NEW S
  PROVE  AttemptsCancelled(S) \in [Manifest -> ManifestRecord]
<1>1. manifest \in [Manifest -> ManifestRecord]
  BY DEF TypeOK
<1>2. \A m \in Manifest : [manifest[m] EXCEPT !.attempt = "cancelled"] \in ManifestRecord
  BY <1>1, SetAttemptType DEF AttemptStatus
<1> QED
  BY <1>1, <1>2 DEF AttemptsCancelled

LEMMA RevisionType ==
  ASSUME TypeOK
  PROVE  Revision \in Nat
  BY DEF TypeOK, Revision

LEMMA AppendEntryType ==
  ASSUME TypeOK, NEW c \in Command \cup {None}, NEW r \in Review \cup {None},
         NEW k \in EffectKind \cup GovernanceKind, NEW b \in Nat,
         AppendEntry(c, r, k, b)
  PROVE  log' \in Seq(Entry)
<1>1. [command |-> c, review |-> r, kind |-> k, base |-> b] \in Entry
  BY DEF Entry
<1> QED
  BY <1>1 DEF AppendEntry, TypeOK

LEMMA IssueType ==
  ASSUME TypeOK, NEW c \in Command, Issue(c)
  PROVE  issued' \in [Command -> Nat]
  BY RevisionType DEF Issue, TypeOK

(***************************************************************************)
(* Type correctness, one step per action.                                  *)
(***************************************************************************)

\* The values the handlers start from are well typed.
LEMMA InitType == Init => TypeOK
<1> SUFFICES ASSUME Init PROVE TypeOK
  OBVIOUS
<1>1. [command |-> None, review |-> None, kind |-> "baseline", base |-> 0] \in Entry
  BY DEF Entry, GovernanceKind
<1>2. log \in Seq(Entry)
  BY <1>1 DEF Init
<1> QED
  BY <1>2, NoReviewType, NoManifestType DEF Init, TypeOK, MemoryState, RequestState

LEMMA DraftingType ==
  ASSUME TypeOK, NEW r \in Review, CreateDraft(r) \/ Edit(r)
  PROVE  TypeOK'
<1>1. CASE CreateDraft(r)
  <2>1. [NoReview EXCEPT !.status = "draft", !.base = Revision, !.version = 1]
            \in ReviewRecord
    BY NoReviewType, RevisionType DEF ReviewRecord, ReviewStatus
  <2> QED
    BY <1>1, <2>1 DEF CreateDraft, TypeOK
<1>2. CASE Edit(r)
  <2>1. Saved(review[r], "draft") \in ReviewRecord
    BY SavedType DEF TypeOK, ReviewStatus
  <2>2. \A rv \in ReviewRecord : [rv EXCEPT !.draft = NoDraft] \in ReviewRecord
    BY NoDraftType DEF ReviewRecord
  <2> QED
    BY <1>2, <2>1, <2>2 DEF Edit, TypeOK
<1> QED
  BY <1>1, <1>2

LEMMA PrepareManifestType ==
  ASSUME TypeOK, NEW r \in Review, NEW m \in Manifest, NEW p \in Provider \cup {None},
         NEW sel \in SUBSET Memory, PrepareManifest(r, m, p, sel)
  PROVE  TypeOK'
<1> DEFINE stales == \/ review[r].status \notin {"draft", "stale", "manifest_prepared"}
                     \/ review[r].base # Revision
           saved  == IF stales THEN Staled(review[r]) ELSE review[r]
           kept   == IF stales THEN AttemptsCancelled({r}) ELSE manifest
           new    == [NoManifest EXCEPT !.status = "prepared", !.review = r,
                         !.base = Revision, !.provider = p, !.selected = sel]
<1>1. saved \in ReviewRecord
  BY StaledType DEF TypeOK
<1>2. \A rv \in ReviewRecord :
          [Saved(rv, "manifest_prepared")
              EXCEPT !.manifest = m, !.base = Revision, !.draft.live = FALSE] \in ReviewRecord
  <2> TAKE rv \in ReviewRecord
  <2>1. Saved(rv, "manifest_prepared") \in ReviewRecord
    BY SavedType DEF ReviewStatus
  <2>2. \A sv \in ReviewRecord :
            [sv EXCEPT !.manifest = m, !.base = Revision, !.draft.live = FALSE]
                \in ReviewRecord
    BY DeadType, RevisionType DEF ReviewRecord
  <2> QED
    BY <2>1, <2>2
<1>3. review' \in [Review -> ReviewRecord]
  BY <1>1, <1>2 DEF PrepareManifest, TypeOK
<1>4. kept \in [Manifest -> ManifestRecord]
  BY AttemptsCancelledType DEF TypeOK
<1>5. new \in ManifestRecord
  BY NoManifestType, RevisionType DEF ManifestRecord, ManifestStatus
<1>6. \A x \in Manifest : [kept[x] EXCEPT !.status = "stale"] \in ManifestRecord
  BY <1>4, SetStatusType DEF ManifestStatus
<1>7. manifest' = [x \in Manifest |->
            CASE x = m -> new
              [] x # m /\ x = review[r].manifest /\ kept[x].status \notin {"stale", "cancelled"}
                   -> [kept[x] EXCEPT !.status = "stale"]
              [] OTHER -> kept[x]]
  BY DEF PrepareManifest
<1>8. manifest' \in [Manifest -> ManifestRecord]
  <2> HIDE DEF kept, new
  <2> QED
    BY <1>4, <1>5, <1>6, <1>7
<1> QED
  BY <1>3, <1>8 DEF PrepareManifest, TypeOK

\* A saved or staled review, put back in its place, leaves review well typed.
LEMMA SaveInPlace ==
  ASSUME TypeOK, NEW r \in Review, NEW rv \in ReviewRecord
  PROVE  [review EXCEPT ![r] = rv] \in [Review -> ReviewRecord]
  BY DEF TypeOK

LEMMA RefuseStaleType ==
  ASSUME TypeOK, NEW r \in Review, RefuseStale(r)
  PROVE  /\ review' \in [Review -> ReviewRecord]
         /\ manifest' \in [Manifest -> ManifestRecord]
<1>1. review' \in [Review -> ReviewRecord]
  BY StaledType, SaveInPlace DEF RefuseStale, TypeOK
<1>2. \A mf \in [Manifest -> ManifestRecord] :
          [mf EXCEPT ![review[r].manifest].status = "stale"]
              \in [Manifest -> ManifestRecord]
  BY SetStatusType DEF ManifestStatus
<1> QED
  BY <1>1, <1>2, AttemptsCancelledType DEF RefuseStale

LEMMA ConfirmManifestType ==
  ASSUME TypeOK, NEW r \in Review, ConfirmManifest(r)
  PROVE  TypeOK'
<1> DEFINE m == review[r].manifest
<1>1. CASE Fresh(m)
  <2>1. manifest' = [manifest EXCEPT ![m].status = "confirmed"]
    BY <1>1 DEF ConfirmManifest
  <2>2. manifest' \in [Manifest -> ManifestRecord]
    BY <2>1, SetStatusType DEF TypeOK, ManifestStatus
  <2>3. review' = [review EXCEPT ![r] = Saved(review[r], "manifest_confirmed")]
    BY <1>1 DEF ConfirmManifest
  <2>4. review' \in [Review -> ReviewRecord]
    BY <2>3, SavedType, SaveInPlace DEF TypeOK, ReviewStatus
  <2> QED
    BY <2>2, <2>4 DEF ConfirmManifest, TypeOK
<1>2. CASE ~Fresh(m)
  <2>1. RefuseStale(r)
    BY <1>2 DEF ConfirmManifest
  <2> QED
    BY <2>1, RefuseStaleType DEF ConfirmManifest, TypeOK
<1> QED
  BY <1>1, <1>2

LEMMA PrepareAttemptType ==
  ASSUME TypeOK, NEW r \in Review, PrepareAttempt(r)
  PROVE  TypeOK'
<1> DEFINE m == review[r].manifest
<1>1. m \in Manifest
  BY DEF PrepareAttempt, Sendable
<1>2. manifest' \in [Manifest -> ManifestRecord]
  BY SetAttemptType DEF PrepareAttempt, TypeOK, AttemptStatus
<1>3. \A rv \in ReviewRecord : [rv EXCEPT !.lastAttempt = m] \in ReviewRecord
  BY <1>1 DEF ReviewRecord
<1>4. Saved(review[r], "provider_attempt_prepared") \in ReviewRecord
  BY SavedType DEF TypeOK, ReviewStatus
<1>5. review' \in [Review -> ReviewRecord]
  BY <1>3, <1>4, SaveInPlace DEF PrepareAttempt
<1> QED
  BY <1>2, <1>5 DEF PrepareAttempt, TypeOK

LEMMA StartAttemptType ==
  ASSUME TypeOK, NEW r \in Review, StartAttempt(r)
  PROVE  TypeOK'
<1> DEFINE m == review[r].manifest
           a == review[r].lastAttempt
<1>1. CASE Fresh(m)
  <2>1. manifest' = [manifest EXCEPT ![a].attempt = "running", ![m].status = "sent"]
    BY <1>1 DEF StartAttempt
  <2>2. [manifest EXCEPT ![a].attempt = "running"] \in [Manifest -> ManifestRecord]
    BY SetAttemptType DEF TypeOK, AttemptStatus
  <2>3. \A mf \in [Manifest -> ManifestRecord] :
            [mf EXCEPT ![m].status = "sent"] \in [Manifest -> ManifestRecord]
    BY SetStatusType DEF ManifestStatus
  <2>4. manifest' \in [Manifest -> ManifestRecord]
    BY <2>1, <2>2, <2>3
  <2>5. review' = [review EXCEPT ![r] = Saved(review[r], "provider_attempt_running")]
    BY <1>1 DEF StartAttempt
  <2>6. review' \in [Review -> ReviewRecord]
    BY <2>5, SavedType, SaveInPlace DEF TypeOK, ReviewStatus
  <2>7. request' \in [Manifest -> RequestState]
    BY <1>1 DEF StartAttempt, TypeOK, RequestState
  <2> QED
    BY <2>4, <2>6, <2>7 DEF StartAttempt, TypeOK
<1>2. CASE ~Fresh(m)
  <2>1. RefuseStale(r) /\ UNCHANGED request
    BY <1>2 DEF StartAttempt
  <2> QED
    BY <2>1, RefuseStaleType DEF StartAttempt, TypeOK
<1> QED
  BY <1>1, <1>2

LEMMA RecordType ==
  ASSUME TypeOK, NEW m, NEW outcome \in AttemptOutcome, Record(m, outcome)
  PROVE  /\ review' \in [Review -> ReviewRecord]
         /\ manifest' \in [Manifest -> ManifestRecord]
<1>1. CASE Current(m)
  <2>1. StatusAfter(outcome) \in ReviewStatus /\ outcome \in AttemptStatus
    BY DEF StatusAfter, AttemptOutcome, ReviewStatus, AttemptStatus
  <2>2. manifest[m].review \in Review
    BY <1>1 DEF Current
  <2>3. manifest' \in [Manifest -> ManifestRecord]
    <3>1. CASE m \in Manifest
      BY <1>1, <2>1, <3>1, SetAttemptType DEF Record, TypeOK
    <3>2. CASE m \notin Manifest
      BY <1>1, <3>2 DEF Record, TypeOK
    <3> QED
      BY <3>1, <3>2
  <2>4. review' = [review EXCEPT ![manifest[m].review] =
                       Saved(review[manifest[m].review], StatusAfter(outcome))]
    BY <1>1 DEF Record
  <2>5. Saved(review[manifest[m].review], StatusAfter(outcome)) \in ReviewRecord
    BY <2>1, <2>2, SavedType DEF TypeOK
  <2>6. review' \in [Review -> ReviewRecord]
    BY <2>2, <2>4, <2>5, SaveInPlace
  <2> QED
    BY <2>3, <2>6
<1>2. CASE ~Current(m)
  BY <1>2 DEF Record, TypeOK
<1> QED
  BY <1>1, <1>2

LEMMA CallType ==
  ASSUME TypeOK, NEW m \in Manifest, Call(m)
  PROVE  TypeOK'
<1>1. CASE BeforeWrite(m)
  BY <1>1 DEF BeforeWrite, TypeOK, RequestState
<1>2. ASSUME NEW outcome \in AttemptOutcome, FinishAttempt(m, outcome)
      PROVE  TypeOK'
  BY <1>2, RecordType DEF FinishAttempt, TypeOK, RequestState
<1>3. CASE AnswerLost(m)
  BY <1>3 DEF AnswerLost, TypeOK, RequestState
<1> QED
  BY <1>1, <1>2, <1>3 DEF Call

LEMMA CancelAttemptType ==
  ASSUME TypeOK, NEW r \in Review, CancelAttempt(r)
  PROVE  TypeOK'
  BY RecordType DEF CancelAttempt, AttemptOutcome, TypeOK

LEMMA CancelType ==
  ASSUME TypeOK, NEW r \in Review, Cancel(r)
  PROVE  TypeOK'
<1> DEFINE kept == AttemptsCancelled({r})
           ends == review[r].manifest # None
                     /\ manifest[review[r].manifest].status \in {"prepared", "confirmed"}
<1>1. kept \in [Manifest -> ManifestRecord]
  BY AttemptsCancelledType
<1>2. manifest' = [x \in Manifest |-> IF ends /\ x = review[r].manifest
                       THEN [kept[x] EXCEPT !.status = "cancelled"] ELSE kept[x]]
  BY DEF Cancel
<1>3. manifest' \in [Manifest -> ManifestRecord]
  <2> HIDE DEF kept, ends
  <2> QED
    BY <1>1, <1>2, SetStatusType DEF ManifestStatus
<1>4. Saved(review[r], "cancelled") \in ReviewRecord
  BY SavedType DEF TypeOK, ReviewStatus
<1>5. \A rv \in ReviewRecord : [rv EXCEPT !.draft = NoDraft] \in ReviewRecord
  BY NoDraftType DEF ReviewRecord
<1>6. review' \in [Review -> ReviewRecord]
  BY <1>4, <1>5, SaveInPlace DEF Cancel
<1> QED
  BY <1>3, <1>6 DEF Cancel, TypeOK

LEMMA PrepareEffectType ==
  ASSUME TypeOK, NEW r \in Review, NEW c \in Command, NEW k \in EffectKind,
         PrepareEffect(r, c, k)
  PROVE  TypeOK'
<1> DEFINE aff == IF k = "formal_direction_change" THEN Affected(r) ELSE {}
           d   == [command |-> c, kind |-> k, base |-> Revision,
                   live |-> TRUE, affected |-> aff]
<1>1. \A x \in Review : review[x].version \in Nat
  BY DEF TypeOK, ReviewRecord
<1>2. aff \in SUBSET (Review \X Nat)
  BY <1>1 DEF Affected
<1>3. d \in Draft
  BY <1>2, RevisionType DEF Draft
<1>4. review[r].status \in ReviewStatus
  BY DEF TypeOK, ReviewRecord
<1>5. Saved(review[r], review[r].status) \in ReviewRecord
  BY <1>4, SavedType DEF TypeOK
<1>6. \A rv \in ReviewRecord : [rv EXCEPT !.draft = d] \in ReviewRecord
  <2> HIDE DEF d
  <2> QED
    BY <1>3 DEF ReviewRecord
<1>7. review' = [review EXCEPT ![r] =
                   [Saved(review[r], review[r].status) EXCEPT !.draft = d]]
  BY DEF PrepareEffect
<1>8. review' \in [Review -> ReviewRecord]
  <2> HIDE DEF d
  <2> DEFINE saved == Saved(review[r], review[r].status)
             rv    == [saved EXCEPT !.draft = d]
  <2>1. saved \in ReviewRecord /\ review' = [review EXCEPT ![r] = rv]
    BY ONLY <1>5, <1>7
  <2> HIDE DEF saved
  <2>2. rv \in ReviewRecord
    BY ONLY <1>6, <2>1
  <2> HIDE DEF rv
  <2> QED
    BY <2>1, <2>2, SaveInPlace
<1> QED
  BY <1>8, IssueType DEF PrepareEffect, TypeOK

LEMMA RedirectedType ==
  ASSUME TypeOK, NEW r \in Review, Redirected(r)
  PROVE  /\ review' \in [Review -> ReviewRecord]
         /\ manifest' \in [Manifest -> ManifestRecord]
<1> DEFINE others == OthersOpen(r)
           ended  == {x \in others : Running(x)}
           kept   == AttemptsCancelled(others)
<1>1. \A x \in Review :
          /\ Saved(review[x], "committed") \in ReviewRecord
          /\ Saved(review[x], "provider_attempt_uncertain") \in ReviewRecord
  BY SavedType DEF TypeOK, ReviewStatus
<1>2. \A x \in Review :
          /\ Staled(Saved(review[x], "provider_attempt_uncertain")) \in ReviewRecord
          /\ Staled(review[x]) \in ReviewRecord
  BY <1>1, StaledType DEF TypeOK
<1>3. review' = [x \in Review |->
            CASE x = r -> Saved(review[x], "committed")
              [] x \in ended -> Staled(Saved(review[x], "provider_attempt_uncertain"))
              [] x \in others \ ended -> Staled(review[x])
              [] OTHER -> review[x]]
  BY DEF Redirected
<1>4. review' \in [Review -> ReviewRecord]
  <2> HIDE DEF others, ended
  <2> QED
    BY <1>1, <1>2, <1>3 DEF TypeOK
<1>5. kept \in [Manifest -> ManifestRecord]
  BY AttemptsCancelledType
<1>6. \A mf \in ManifestRecord, st \in ManifestStatus, at \in AttemptStatus :
          [mf EXCEPT !.status = st, !.attempt = at] \in ManifestRecord
  BY DEF ManifestRecord
<1>7. \A m \in Manifest : kept[m].status \in ManifestStatus
                        /\ kept[m].attempt \in AttemptStatus
  <2> HIDE DEF kept
  <2> QED
    BY <1>5 DEF ManifestRecord
<1>8. \A m \in Manifest : manifest'[m] \in ManifestRecord
  <2> TAKE m \in Manifest
  <2> DEFINE live == manifest[m].review \in others
                       /\ manifest[m].status \notin {"stale", "cancelled"}
             over == \E x \in ended : review[x].lastAttempt = m /\ Current(m)
             st   == IF live THEN "stale" ELSE kept[m].status
             at   == IF over THEN "uncertain" ELSE kept[m].attempt
  <2>1. manifest'[m] = [kept[m] EXCEPT !.status = st, !.attempt = at]
    BY DEF Redirected
  <2>2. st \in ManifestStatus
    BY <1>7 DEF ManifestStatus
  <2>3. at \in AttemptStatus
    BY <1>7 DEF AttemptStatus
  <2>4. kept[m] \in ManifestRecord
    <3> HIDE DEF kept
    <3> QED
      BY <1>5
  <2> HIDE DEF kept, st, at
  <2> QED
    BY <1>6, <2>1, <2>2, <2>3, <2>4
<1> QED
  BY <1>4, <1>8 DEF Redirected

LEMMA CommitEffectType ==
  ASSUME TypeOK, NEW r \in Review, CommitEffect(r)
  PROVE  TypeOK'
<1> DEFINE d == review[r].draft
<1>1. d \in Draft
  BY DEF TypeOK, ReviewRecord
<1>2. log' \in Seq(Entry)
  BY <1>1, AppendEntryType DEF CommitEffect, Draft
<1>3. CASE d.kind = "formal_direction_change"
  BY <1>2, <1>3, RedirectedType DEF CommitEffect, TypeOK
<1>4. CASE d.kind # "formal_direction_change"
  <2>1. review' = [review EXCEPT ![r] = Saved(review[r],
                      IF d.kind = "record_only" THEN "disposed" ELSE "committed")]
    BY <1>4 DEF CommitEffect
  <2>2. review' \in [Review -> ReviewRecord]
    BY <2>1, SavedType, SaveInPlace DEF TypeOK, ReviewStatus
  <2> QED
    BY <1>2, <1>4, <2>2 DEF CommitEffect, TypeOK
<1> QED
  BY <1>3, <1>4

LEMMA CommitRefusedType ==
  ASSUME TypeOK, NEW r \in Review, CommitRefused(r)
  PROVE  TypeOK'
<1>1. review' \in [Review -> ReviewRecord]
  BY StaledType, SaveInPlace DEF CommitRefused, TypeOK
<1> QED
  BY <1>1, AttemptsCancelledType DEF CommitRefused, TypeOK

LEMMA GovernanceType ==
  ASSUME TypeOK, NEW i \in Memory, Governance(i)
  PROVE  TypeOK'
<1>1. CASE MemoryExpires(i)
  BY <1>1 DEF MemoryExpires, TypeOK, MemoryState
<1>2. ASSUME NEW c \in Command, NEW to \in MemoryState, GovernMemory(c, i, to)
      PROVE  TypeOK'
  <2>1. log' \in Seq(Entry)
    BY <1>2, RevisionType, AppendEntryType DEF GovernMemory, GovernanceKind
  <2> QED
    BY <1>2, <2>1, IssueType DEF GovernMemory, TypeOK
<1>3. ASSUME NEW c \in Command, Forget(c, i)
      PROVE  TypeOK'
  <2> DEFINE hit(m)   == m \in Copies(i)
             erase(a) == CASE a = "running" -> "uncertain"
                           [] a = "prepared" -> "cancelled"
                           [] OTHER -> a
  <2>1. log' \in Seq(Entry)
    BY <1>3, RevisionType, AppendEntryType DEF Forget, GovernanceKind
  <2>2. \A a \in AttemptStatus : erase(a) \in AttemptStatus
    BY DEF AttemptStatus
  <2>3. \A mf \in ManifestRecord, a \in AttemptStatus :
            [mf EXCEPT !.proof = mf.status, !.attempt = a] \in ManifestRecord
    BY DEF ManifestRecord
  <2>4. manifest' = [m \in Manifest |->
            IF hit(m) THEN [manifest[m] EXCEPT !.proof = manifest[m].status,
                                               !.attempt = erase(manifest[m].attempt)]
                      ELSE manifest[m]]
    BY <1>3 DEF Forget
  <2>5. \A m \in Manifest : manifest[m] \in ManifestRecord
                          /\ manifest[m].attempt \in AttemptStatus
    BY DEF TypeOK, ManifestRecord
  <2>6. manifest' \in [Manifest -> ManifestRecord]
    <3> HIDE DEF hit, erase
    <3> QED
      BY <2>2, <2>3, <2>4, <2>5
  <2>7. review' \in [Review -> ReviewRecord]
    BY <1>3, StaledType DEF Forget, TypeOK
  <2>8. memory' \in [Memory -> MemoryState]
    BY <1>3 DEF Forget, TypeOK, MemoryState
  <2> QED
    BY <1>3, <2>1, <2>6, <2>7, <2>8, IssueType DEF Forget, TypeOK
<1> QED
  BY <1>1, <1>2, <1>3 DEF Governance

LEMMA InterruptedType ==
  ASSUME TypeOK, NEW S, Interrupted(S)
  PROVE  /\ review' \in [Review -> ReviewRecord]
         /\ manifest' \in [Manifest -> ManifestRecord]
<1>1. \A r \in Review : Saved(review[r], "provider_attempt_uncertain") \in ReviewRecord
  BY SavedType DEF TypeOK, ReviewStatus
<1>2. review' \in [Review -> ReviewRecord]
  BY <1>1 DEF Interrupted, TypeOK
<1> QED
  BY <1>2, SetAttemptType DEF Interrupted, TypeOK, AttemptStatus

LEMMA EnvironmentType ==
  ASSUME TypeOK, Environment
  PROVE  TypeOK'
<1>1. ASSUME NEW p \in Provider \cup {None}, ChangeProvider(p)
      PROVE  TypeOK'
  BY <1>1 DEF ChangeProvider, TypeOK
<1>2. CASE Close
  BY <1>2, InterruptedType DEF Close, TypeOK, RequestState
<1>3. CASE Crash
  BY <1>3 DEF Crash, TypeOK, RequestState
<1>4. CASE Open
  BY <1>4, InterruptedType DEF Open, RecoverWorkflows, TypeOK
<1>5. CASE Recover
  BY <1>5, InterruptedType DEF Recover, RecoverWorkflows, TypeOK
<1> QED
  BY <1>1, <1>2, <1>3, <1>4, <1>5 DEF Environment

LEMMA WorkflowType ==
  ASSUME TypeOK, NEW r \in Review, Workflow(r)
  PROVE  TypeOK'
<1>1. ASSUME NEW m \in Manifest, NEW p \in Provider \cup {None},
             NEW sel \in SUBSET Memory, PrepareManifest(r, m, p, sel)
      PROVE  TypeOK'
  BY <1>1, PrepareManifestType
<1>2. ASSUME NEW c \in Command, NEW k \in EffectKind, PrepareEffect(r, c, k)
      PROVE  TypeOK'
  BY <1>2, PrepareEffectType
<1> QED
  BY <1>1, <1>2, DraftingType, ConfirmManifestType, PrepareAttemptType,
     StartAttemptType, CancelAttemptType, CancelType, CommitEffectType,
     CommitRefusedType
  DEF Workflow

LEMMA TypeStep == TypeOK /\ [Next]_vars => TypeOK'
<1> SUFFICES ASSUME TypeOK, [Next]_vars PROVE TypeOK'
  OBVIOUS
<1>1. CASE Next
  BY <1>1, WorkflowType, CallType, GovernanceType, EnvironmentType DEF Next
<1>2. CASE UNCHANGED vars
  BY <1>2 DEF vars, TypeOK
<1> QED
  BY <1>1, <1>2

\* Every record the handlers write is one the store's parsers accept, whatever
\* order the user, the Providers, crashes and restarts impose.
THEOREM TypeCorrect == Spec => []TypeOK
<1> QED
  BY InitType, TypeStep, PTL DEF Spec

(***************************************************************************)
(* The inductive invariant behind the authority properties.                *)
(***************************************************************************)

Unbound == {"absent", "draft", "stale", "cancelled"}

\* A review and its manifest agree, and only the statuses that no manifest
\* decides can be without one.
ManifestBound(r) ==
    /\ review[r].manifest # None =>
          /\ manifest[review[r].manifest].status # "absent"
          /\ manifest[review[r].manifest].review = r
          /\ manifest[review[r].manifest].base = review[r].base
    /\ review[r].status \notin Unbound => review[r].manifest # None

\* PreviewBoundToManifest, of one review.
PreviewBound(r) ==
    review[r].draft.live =>
        /\ review[r].draft.base = review[r].base
        /\ review[r].manifest # None
        /\ manifest[review[r].manifest].base = review[r].base

\* A draft's command was issued, on the revision the draft was built on.
DraftIssued(r) ==
    review[r].draft.command # None =>
        /\ issued[review[r].draft.command] = review[r].draft.base
        /\ review[r].draft.base # 0

LogIssued ==
    /\ Len(log) # 0
    /\ \A k \in 1..Len(log) : log[k].command # None => issued[log[k].command] # 0

AuthorityInv ==
    /\ \A r \in Review : ManifestBound(r) /\ PreviewBound(r) /\ DraftIssued(r)
    /\ LogIssued
    /\ EachDecisionOnce
    /\ CommittedOnReviewedRevision

\* What a step that is neither a new draft, a new manifest, a new preview nor a
\* commit of the review does to it: it keeps its base, its manifest and at most
\* its draft, and never decides it.
Kept(r) ==
    /\ review'[r].base = review[r].base
    /\ review'[r].manifest = review[r].manifest
    /\ review[r].status \in Terminal => review'[r] = review[r]
    /\ review'[r].status \notin Unbound => review[r].status \notin Unbound
    /\ review'[r].status \in {"disposed", "committed"} => review'[r] = review[r]
    /\ review'[r].draft.live => review'[r].draft = review[r].draft
    /\ review'[r].draft.command # None =>
          /\ review'[r].draft.command = review[r].draft.command
          /\ review'[r].draft.base = review[r].draft.base

\* A manifest, once prepared, keeps its review and its base.
ManifestKept(m) ==
    manifest[m].status # "absent" =>
        /\ manifest'[m].status # "absent"
        /\ manifest'[m].review = manifest[m].review
        /\ manifest'[m].base = manifest[m].base

AllKept == /\ \A r \in Review : Kept(r)
           /\ \A m \in Manifest : ManifestKept(m)

LEMMA SavedFields ==
  ASSUME NEW rv \in ReviewRecord, NEW st
  PROVE  /\ Saved(rv, st).status = st
         /\ Saved(rv, st).base = rv.base
         /\ Saved(rv, st).manifest = rv.manifest
         /\ Saved(rv, st).lastAttempt = rv.lastAttempt
         /\ Saved(rv, st).draft = rv.draft
  BY DEF Saved, ReviewRecord

LEMMA StaledFields ==
  ASSUME NEW rv \in ReviewRecord
  PROVE  /\ Staled(rv).status = "stale"
         /\ Staled(rv).base = rv.base
         /\ Staled(rv).manifest = rv.manifest
         /\ Staled(rv).lastAttempt = rv.lastAttempt
         /\ Staled(rv).draft = [rv.draft EXCEPT !.live = FALSE]
<1> DEFINE sv == Saved(rv, "stale")
<1>1. sv \in ReviewRecord
  BY SavedType DEF ReviewStatus
<1>2. Staled(rv) = [sv EXCEPT !.draft.live = FALSE]
  BY DEF Staled
<1>3. /\ sv.status = "stale" /\ sv.base = rv.base /\ sv.manifest = rv.manifest
      /\ sv.lastAttempt = rv.lastAttempt /\ sv.draft = rv.draft
  BY SavedFields
<1> HIDE DEF sv
<1> QED
  BY <1>1, <1>2, <1>3 DEF ReviewRecord

\* A review that is saved with another status, or staled, is kept.
LEMMA SavedKept ==
  ASSUME TypeOK, NEW r \in Review, NEW st \in ReviewStatus,
         review'[r] = Saved(review[r], st),
         review[r].status \notin Terminal, st \notin {"disposed", "committed"},
         st \notin Unbound => review[r].status \notin Unbound
  PROVE  Kept(r)
  BY SavedFields DEF Kept, TypeOK

LEMMA StaledKept ==
  ASSUME TypeOK, NEW r \in Review, review'[r] = Staled(review[r]),
         review[r].status \notin Terminal
  PROVE  Kept(r)
<1>1. review[r] \in ReviewRecord /\ review[r].draft \in Draft
  BY DEF TypeOK, ReviewRecord
<1>2. review'[r].draft = [review[r].draft EXCEPT !.live = FALSE]
  BY <1>1, StaledFields
<1>3. /\ ~review'[r].draft.live
      /\ review'[r].draft.command = review[r].draft.command
      /\ review'[r].draft.base = review[r].draft.base
  BY <1>1, <1>2 DEF Draft
<1> QED
  BY <1>1, <1>3, StaledFields DEF Kept, Unbound, Terminal

LEMMA UnchangedKept ==
  ASSUME NEW r \in Review, review'[r] = review[r]
  PROVE  Kept(r)
  BY DEF Kept

LEMMA AttemptsCancelledKept ==
  ASSUME TypeOK, NEW S, NEW m \in Manifest
  PROVE  /\ AttemptsCancelled(S)[m].status = manifest[m].status
         /\ AttemptsCancelled(S)[m].review = manifest[m].review
         /\ AttemptsCancelled(S)[m].base = manifest[m].base
  BY DEF AttemptsCancelled, TypeOK, ManifestRecord

LEMMA OneReviewKept ==
  ASSUME TypeOK, NEW r \in Review, NEW rv, review' = [review EXCEPT ![r] = rv],
         review'[r] = rv => Kept(r)
  PROVE  \A x \in Review : Kept(x)
<1>1. review'[r] = rv /\ \A x \in Review \ {r} : review'[x] = review[x]
  BY DEF TypeOK
<1> QED
  BY <1>1, UnchangedKept

LEMMA EditKept ==
  ASSUME TypeOK, NEW r \in Review, Edit(r)
  PROVE  AllKept
<1> DEFINE sv == Saved(review[r], "draft")
           rv == [sv EXCEPT !.draft = NoDraft]
<1>1. review[r] \in ReviewRecord
  BY DEF TypeOK
<1>2. sv \in ReviewRecord /\ sv.status = "draft"
        /\ sv.base = review[r].base /\ sv.manifest = review[r].manifest
  BY <1>1, SavedType, SavedFields DEF ReviewStatus
<1>3. /\ rv.status = "draft" /\ rv.base = review[r].base
      /\ rv.manifest = review[r].manifest /\ rv.draft = NoDraft
  <2> HIDE DEF sv
  <2> QED
    BY <1>2 DEF ReviewRecord
<1>4. review' = [review EXCEPT ![r] = rv]
  BY DEF Edit
<1>5. ASSUME review'[r] = rv PROVE Kept(r)
  <2>1. review[r].status = "draft"
    BY DEF Edit
  <2> HIDE DEF rv
  <2> QED
    BY <1>3, <1>5, <2>1 DEF Kept, NoDraft, Unbound, Terminal
<1>6. \A x \in Review : Kept(x)
  <2> HIDE DEF rv
  <2> QED
    BY <1>4, <1>5, OneReviewKept
<1> QED
  BY <1>6 DEF AllKept, ManifestKept, Edit

LEMMA RefuseStaleKept ==
  ASSUME TypeOK, NEW r \in Review, RefuseStale(r), review[r].status \notin Terminal
  PROVE  AllKept
<1>1. \A x \in Review : Kept(x)
  BY StaledKept, OneReviewKept DEF RefuseStale
<1>2. \A mf \in [Manifest -> ManifestRecord], x \in Manifest :
          LET st == [mf EXCEPT ![review[r].manifest].status = "stale"][x]
          IN  /\ st.status \in {mf[x].status, "stale"}
              /\ st.review = mf[x].review /\ st.base = mf[x].base
  BY DEF ManifestRecord
<1>3. \A m \in Manifest : ManifestKept(m)
  BY <1>2, AttemptsCancelledType, AttemptsCancelledKept DEF RefuseStale, ManifestKept
<1> QED
  BY <1>1, <1>3 DEF AllKept

LEMMA ConfirmManifestKept ==
  ASSUME TypeOK, NEW r \in Review, ConfirmManifest(r)
  PROVE  AllKept
<1> DEFINE m == review[r].manifest
<1>1. CASE Fresh(m)
  <2>1. review' = [review EXCEPT ![r] = Saved(review[r], "manifest_confirmed")]
    BY <1>1 DEF ConfirmManifest
  <2>2. \A x \in Review : Kept(x)
    BY <2>1, SavedKept, OneReviewKept DEF ConfirmManifest, ReviewStatus, Terminal, Unbound
  <2>3. manifest' = [manifest EXCEPT ![m].status = "confirmed"]
    BY <1>1 DEF ConfirmManifest
  <2>4. \A x \in Manifest : ManifestKept(x)
    BY <2>3 DEF ManifestKept, TypeOK, ManifestRecord
  <2> QED
    BY <2>2, <2>4 DEF AllKept
<1>2. CASE ~Fresh(m)
  BY <1>2, RefuseStaleKept DEF ConfirmManifest, Terminal
<1> QED
  BY <1>1, <1>2

LEMMA PrepareAttemptKept ==
  ASSUME TypeOK, NEW r \in Review, PrepareAttempt(r)
  PROVE  AllKept
<1> DEFINE m  == review[r].manifest
           sv == Saved(review[r], "provider_attempt_prepared")
           rv == [sv EXCEPT !.lastAttempt = m]
<1>1. sv \in ReviewRecord /\ sv.status = "provider_attempt_prepared"
        /\ sv.base = review[r].base /\ sv.manifest = review[r].manifest
        /\ sv.draft = review[r].draft
  BY SavedType, SavedFields DEF ReviewStatus, TypeOK
<1>2. /\ rv.status = "provider_attempt_prepared" /\ rv.base = review[r].base
      /\ rv.manifest = review[r].manifest /\ rv.draft = review[r].draft
  <2> HIDE DEF sv
  <2> QED
    BY <1>1 DEF ReviewRecord
<1>3. review' = [review EXCEPT ![r] = rv]
  BY DEF PrepareAttempt
<1>4. review[r].status = "manifest_confirmed"
  BY DEF PrepareAttempt, Sendable
<1>5. ASSUME review'[r] = rv PROVE Kept(r)
  <2> HIDE DEF rv
  <2> QED
    BY <1>2, <1>4, <1>5 DEF Kept, Unbound, Terminal
<1>6. \A x \in Review : Kept(x)
  <2> HIDE DEF rv
  <2> QED
    BY <1>3, <1>5, OneReviewKept
<1>7. \A x \in Manifest : ManifestKept(x)
  BY DEF PrepareAttempt, ManifestKept, TypeOK, ManifestRecord
<1> QED
  BY <1>6, <1>7 DEF AllKept

LEMMA SetFieldsKept ==
  ASSUME TypeOK, NEW a, NEW m, NEW at, NEW st, st # "absent",
         manifest' = [manifest EXCEPT ![a].attempt = at, ![m].status = st]
  PROVE  \A x \in Manifest : ManifestKept(x)
<1>1. \A mf \in ManifestRecord :
        /\ LET w == [mf EXCEPT !.attempt = at]
           IN  w.status = mf.status /\ w.review = mf.review /\ w.base = mf.base
        /\ LET w == [mf EXCEPT !.status = st]
           IN  w.status = st /\ w.review = mf.review /\ w.base = mf.base
        /\ LET w == [[mf EXCEPT !.attempt = at] EXCEPT !.status = st]
           IN  w.status = st /\ w.review = mf.review /\ w.base = mf.base
  BY DEF ManifestRecord
<1> SUFFICES ASSUME NEW x \in Manifest PROVE ManifestKept(x)
  OBVIOUS
<1>2. manifest[x] \in ManifestRecord
  BY DEF TypeOK
<1>3. CASE x = a /\ x # m
  <2>1. manifest'[x] = [manifest[x] EXCEPT !.attempt = at]
    BY <1>3 DEF TypeOK
  <2> QED
    BY <1>1, <1>2, <2>1 DEF ManifestKept
<1>4. CASE x # a /\ x = m
  <2>1. manifest'[x] = [manifest[x] EXCEPT !.status = st]
    BY <1>4 DEF TypeOK
  <2> QED
    BY <1>1, <1>2, <2>1 DEF ManifestKept
<1>5. CASE x = a /\ x = m
  <2>1. manifest'[x] = [[manifest[x] EXCEPT !.attempt = at] EXCEPT !.status = st]
    BY <1>5 DEF TypeOK
  <2> QED
    BY <1>1, <1>2, <2>1 DEF ManifestKept
<1>6. CASE x # a /\ x # m
  BY <1>6 DEF ManifestKept, TypeOK
<1> QED
  BY <1>3, <1>4, <1>5, <1>6

LEMMA StartAttemptKept ==
  ASSUME TypeOK, NEW r \in Review, StartAttempt(r)
  PROVE  AllKept
<1> DEFINE m == review[r].manifest
           a == review[r].lastAttempt
<1>1. CASE Fresh(m)
  <2>1. review' = [review EXCEPT ![r] = Saved(review[r], "provider_attempt_running")]
    BY <1>1 DEF StartAttempt
  <2>2. \A x \in Review : Kept(x)
    BY <2>1, SavedKept, OneReviewKept DEF StartAttempt, ReviewStatus, Terminal, Unbound
  <2>3. manifest' = [manifest EXCEPT ![a].attempt = "running", ![m].status = "sent"]
    BY <1>1 DEF StartAttempt
  <2>4. \A x \in Manifest : ManifestKept(x)
    BY <2>3, SetFieldsKept
  <2> QED
    BY <2>2, <2>4 DEF AllKept
<1>2. CASE ~Fresh(m)
  BY <1>2, RefuseStaleKept DEF StartAttempt, Terminal
<1> QED
  BY <1>1, <1>2

LEMMA RecordKept ==
  ASSUME TypeOK, NEW m, NEW outcome \in AttemptOutcome, Record(m, outcome)
  PROVE  AllKept
<1>1. CASE Current(m)
  <2> DEFINE o == manifest[m].review
  <2>1. o \in Review /\ review[o].status = "provider_attempt_running"
    BY <1>1 DEF Current, Running
  <2>2. /\ StatusAfter(outcome) \in ReviewStatus
        /\ StatusAfter(outcome) \notin {"disposed", "committed"}
    BY DEF StatusAfter, AttemptOutcome, ReviewStatus
  <2>3. review' = [review EXCEPT ![o] = Saved(review[o], StatusAfter(outcome))]
    BY <1>1 DEF Record
  <2>4. \A x \in Review : Kept(x)
    <3> HIDE DEF o
    <3> QED
      BY <2>1, <2>2, <2>3, SavedKept, OneReviewKept DEF Terminal, Unbound
  <2>5. manifest' = [manifest EXCEPT ![m].attempt = outcome]
    BY <1>1 DEF Record
  <2>6. \A x \in Manifest : ManifestKept(x)
    BY <2>5 DEF ManifestKept, TypeOK, ManifestRecord
  <2> QED
    BY <2>4, <2>6 DEF AllKept
<1>2. CASE ~Current(m)
  BY <1>2, UnchangedKept DEF Record, AllKept, ManifestKept
<1> QED
  BY <1>1, <1>2

LEMMA CancelKept ==
  ASSUME TypeOK, NEW r \in Review, Cancel(r)
  PROVE  AllKept
<1> DEFINE sv   == Saved(review[r], "cancelled")
           rv   == [sv EXCEPT !.draft = NoDraft]
           kept == AttemptsCancelled({r})
           ends == review[r].manifest # None
                     /\ manifest[review[r].manifest].status \in {"prepared", "confirmed"}
<1>1. sv \in ReviewRecord /\ sv.status = "cancelled"
        /\ sv.base = review[r].base /\ sv.manifest = review[r].manifest
  BY SavedType, SavedFields DEF ReviewStatus, TypeOK
<1>2. /\ rv.status = "cancelled" /\ rv.base = review[r].base
      /\ rv.manifest = review[r].manifest /\ rv.draft = NoDraft
  <2> HIDE DEF sv
  <2> QED
    BY <1>1 DEF ReviewRecord
<1>3. review' = [review EXCEPT ![r] = rv]
  BY DEF Cancel
<1>4. review[r].status \notin Terminal
  BY DEF Cancel, Replaceable, IsOpen
<1>5. ASSUME review'[r] = rv PROVE Kept(r)
  <2> HIDE DEF rv
  <2> QED
    BY <1>2, <1>4, <1>5 DEF Kept, Unbound, NoDraft
<1>6. \A x \in Review : Kept(x)
  <2> HIDE DEF rv
  <2> QED
    BY <1>3, <1>5, OneReviewKept
<1>7. manifest' = [x \in Manifest |-> IF ends /\ x = review[r].manifest
                       THEN [kept[x] EXCEPT !.status = "cancelled"] ELSE kept[x]]
  BY DEF Cancel
<1>8. \A x \in Manifest : ManifestKept(x)
  <2> HIDE DEF ends
  <2> QED
    BY <1>7, AttemptsCancelledType, AttemptsCancelledKept DEF ManifestKept, ManifestRecord
<1> QED
  BY <1>6, <1>8 DEF AllKept

LEMMA CommitRefusedKept ==
  ASSUME TypeOK, NEW r \in Review, CommitRefused(r)
  PROVE  AllKept
<1>1. review[r].status \notin Terminal
  BY DEF CommitRefused, Replaceable, IsOpen
<1>2. \A x \in Review : Kept(x)
  BY <1>1, StaledKept, OneReviewKept DEF CommitRefused
<1>3. \A m \in Manifest : ManifestKept(m)
  BY AttemptsCancelledKept DEF CommitRefused, ManifestKept
<1> QED
  BY <1>2, <1>3 DEF AllKept

LEMMA InterruptedKept ==
  ASSUME TypeOK, NEW S \in SUBSET Manifest, \A m \in S : Current(m), Interrupted(S)
  PROVE  AllKept
<1>1. ASSUME NEW r \in Review PROVE Kept(r)
  <2>1. CASE \E m \in S : manifest[m].review = r
    <3>1. review[r].status = "provider_attempt_running"
      BY <2>1 DEF Current, Running
    <3>2. review'[r] = Saved(review[r], "provider_attempt_uncertain")
      BY <2>1 DEF Interrupted
    <3> QED
      BY <3>1, <3>2, SavedKept DEF ReviewStatus, Terminal, Unbound
  <2>2. CASE ~\E m \in S : manifest[m].review = r
    BY <2>2, UnchangedKept DEF Interrupted
  <2> QED
    BY <2>1, <2>2
<1>2. \A m \in Manifest : ManifestKept(m)
  BY DEF Interrupted, ManifestKept, TypeOK, ManifestRecord
<1> QED
  BY <1>1, <1>2 DEF AllKept

LEMMA UnchangedAllKept ==
  ASSUME UNCHANGED <<review, manifest>>
  PROVE  AllKept
  BY UnchangedKept DEF AllKept, ManifestKept

\* The actions that touch neither the log nor the commands.
Quiet ==
    \/ \E r \in Review : \/ Edit(r) \/ ConfirmManifest(r) \/ PrepareAttempt(r)
                         \/ StartAttempt(r) \/ CancelAttempt(r) \/ Cancel(r)
                         \/ CommitRefused(r)
    \/ \E m \in Manifest : Call(m)
    \/ \E i \in Memory : MemoryExpires(i)
    \/ Environment
    \/ UNCHANGED vars

LEMMA EnvironmentKept ==
  ASSUME TypeOK, Environment
  PROVE  AllKept /\ UNCHANGED <<log, issued>>
<1>1. ASSUME NEW p \in Provider \cup {None}, ChangeProvider(p)
      PROVE  AllKept /\ UNCHANGED <<log, issued>>
  BY <1>1, UnchangedAllKept DEF ChangeProvider
<1>2. CASE Close
  BY <1>2, InterruptedKept DEF Close
<1>3. CASE Crash
  BY <1>3, UnchangedAllKept DEF Crash
<1>4. ASSUME RecoverWorkflows PROVE AllKept
  BY <1>4, InterruptedKept DEF RecoverWorkflows, RunningAttemptsCurrent
<1>5. CASE Open
  BY <1>4, <1>5 DEF Open
<1>6. CASE Recover
  BY <1>4, <1>6 DEF Recover
<1> QED
  BY <1>1, <1>2, <1>3, <1>5, <1>6 DEF Environment

LEMMA CallKept ==
  ASSUME TypeOK, NEW m \in Manifest, Call(m)
  PROVE  AllKept /\ UNCHANGED <<log, issued>>
<1>1. CASE BeforeWrite(m)
  BY <1>1, UnchangedAllKept DEF BeforeWrite
<1>2. ASSUME NEW outcome \in AttemptOutcome, FinishAttempt(m, outcome)
      PROVE  AllKept /\ UNCHANGED <<log, issued>>
  BY <1>2, RecordKept DEF FinishAttempt
<1>3. CASE AnswerLost(m)
  BY <1>3, UnchangedAllKept DEF AnswerLost
<1> QED
  BY <1>1, <1>2, <1>3 DEF Call

LEMMA QuietKept ==
  ASSUME TypeOK, Quiet
  PROVE  AllKept /\ UNCHANGED <<log, issued>>
<1>1. ASSUME NEW r \in Review, Edit(r)
      PROVE  AllKept /\ UNCHANGED <<log, issued>>
  BY <1>1, EditKept DEF Edit
<1>2. ASSUME NEW r \in Review, ConfirmManifest(r)
      PROVE  AllKept /\ UNCHANGED <<log, issued>>
  BY <1>2, ConfirmManifestKept DEF ConfirmManifest
<1>3. ASSUME NEW r \in Review, PrepareAttempt(r)
      PROVE  AllKept /\ UNCHANGED <<log, issued>>
  BY <1>3, PrepareAttemptKept DEF PrepareAttempt
<1>4. ASSUME NEW r \in Review, StartAttempt(r)
      PROVE  AllKept /\ UNCHANGED <<log, issued>>
  BY <1>4, StartAttemptKept DEF StartAttempt
<1>5. ASSUME NEW r \in Review, CancelAttempt(r)
      PROVE  AllKept /\ UNCHANGED <<log, issued>>
  BY <1>5, RecordKept DEF CancelAttempt, AttemptOutcome
<1>6. ASSUME NEW r \in Review, Cancel(r)
      PROVE  AllKept /\ UNCHANGED <<log, issued>>
  BY <1>6, CancelKept DEF Cancel
<1>7. ASSUME NEW r \in Review, CommitRefused(r)
      PROVE  AllKept /\ UNCHANGED <<log, issued>>
  BY <1>7, CommitRefusedKept DEF CommitRefused
<1>8. ASSUME NEW i \in Memory, MemoryExpires(i)
      PROVE  AllKept /\ UNCHANGED <<log, issued>>
  BY <1>8, UnchangedAllKept DEF MemoryExpires
<1>9. CASE UNCHANGED vars
  BY <1>9, UnchangedAllKept DEF vars
<1> QED
  BY <1>1, <1>2, <1>3, <1>4, <1>5, <1>6, <1>7, <1>8, <1>9, CallKept, EnvironmentKept
  DEF Quiet

LEMMA ForgetKept ==
  ASSUME TypeOK, NEW c \in Command, NEW i \in Memory, Forget(c, i)
  PROVE  AllKept
<1>1. ASSUME NEW r \in Review PROVE Kept(r)
  <2>1. \/ review'[r] = review[r]
        \/ IsOpen(r) /\ review'[r] = Staled(review[r])
    BY DEF Forget
  <2> QED
    BY <2>1, UnchangedKept, StaledKept DEF IsOpen
<1>2. ASSUME NEW m \in Manifest PROVE ManifestKept(m)
  <2>1. CASE m \notin Copies(i)
    BY <2>1 DEF Forget, ManifestKept
  <2>2. CASE m \in Copies(i)
    <3>1. PICK a : manifest'[m] = [manifest[m] EXCEPT !.proof = manifest[m].status,
                                                     !.attempt = a]
      BY <2>2 DEF Forget
    <3>2. manifest[m] \in ManifestRecord
      BY DEF TypeOK
    <3> QED
      BY <3>1, <3>2 DEF ManifestKept, ManifestRecord
  <2> QED
    BY <2>1, <2>2
<1> QED
  BY <1>1, <1>2 DEF AllKept

(***************************************************************************)
(* The parts of the invariant that a step keeping every review preserves.  *)
(***************************************************************************)

LEMMA BoundKept ==
  ASSUME TypeOK, NEW r \in Review, ManifestBound(r), PreviewBound(r), Kept(r),
         \A m \in Manifest : ManifestKept(m)
  PROVE  ManifestBound(r)' /\ PreviewBound(r)'
<1>1. CASE review[r].manifest = None
  BY <1>1 DEF Kept, ManifestBound, PreviewBound
<1>2. CASE review[r].manifest # None
  <2> DEFINE m == review[r].manifest
  <2>1. m \in Manifest
    BY <1>2 DEF TypeOK, ReviewRecord
  <2>2. ManifestKept(m)
    BY <2>1
  <2> QED
    BY <1>2, <2>2 DEF Kept, ManifestKept, ManifestBound, PreviewBound
<1> QED
  BY <1>1, <1>2

\* Commands keep the revision they were issued on.
IssuedKept == \A c \in Command : issued[c] # 0 => issued'[c] = issued[c]

LEMMA IssueKeeps ==
  ASSUME TypeOK, NEW c \in Command, Issue(c), LogIssued
  PROVE  /\ IssuedKept
         /\ issued'[c] = Revision /\ Revision # 0
         /\ \A k \in 1..Len(log) : log[k].command # c
<1>1. issued'[c] = Revision /\ Revision # 0 /\ issued[c] = 0
  BY RevisionType DEF Issue, TypeOK, LogIssued, Revision
<1>2. IssuedKept
  BY DEF Issue, IssuedKept, TypeOK
<1>3. c # None
  BY NoneAssumption
<1> QED
  BY <1>1, <1>2, <1>3 DEF LogIssued

LEMMA DraftKept ==
  ASSUME TypeOK, NEW r \in Review, DraftIssued(r), Kept(r), IssuedKept
  PROVE  DraftIssued(r)'
<1>1. review[r].draft.command \in Command \cup {None}
  BY DEF TypeOK, ReviewRecord, Draft
<1> QED
  BY <1>1 DEF DraftIssued, Kept, IssuedKept

LEMMA EntryType ==
  ASSUME TypeOK, NEW k \in 1..Len(log)
  PROVE  log[k] \in Entry
  BY DEF TypeOK

LEMMA AppendedLog ==
  ASSUME TypeOK, NEW c, NEW r, NEW k, NEW b, AppendEntry(c, r, k, b),
         [command |-> c, review |-> r, kind |-> k, base |-> b] \in Entry
  PROVE  /\ Len(log') = Len(log) + 1 /\ Len(log) \in Nat
         /\ \A j \in 1..Len(log) : log'[j] = log[j]
         /\ log'[Len(log')].command = c
         /\ log'[Len(log')].review = r
         /\ log'[Len(log')].base = b
<1> DEFINE e == [command |-> c, review |-> r, kind |-> k, base |-> b]
<1>1. e.command = c /\ e.review = r /\ e.base = b
  OBVIOUS
<1>2. log' = Append(log, e) /\ log \in Seq(Entry)
  BY DEF AppendEntry, TypeOK
<1> HIDE DEF e
<1>3. /\ Len(log') = Len(log) + 1 /\ Len(log) \in Nat
      /\ \A j \in 1..Len(log) : log'[j] = log[j]
      /\ log'[Len(log')] = e
  BY <1>2
<1> QED
  BY <1>1, <1>3

\* Nothing decides a review or changes a decided one.
DecidedStays ==
    \A r \in Review :
        \/ review[r].status \in {"disposed", "committed"}
        \/ review'[r].status \in {"disposed", "committed"}
        => review'[r] = review[r]

LEMMA KeptDecidedStays ==
  ASSUME \A r \in Review : Kept(r)
  PROVE  DecidedStays
  BY DEF DecidedStays, Kept, Terminal

\* The entries of the log keep the manifest they were decided on.
LEMMA DecidedKept ==
  ASSUME TypeOK, AuthorityInv, DecidedStays, \A m \in Manifest : ManifestKept(m),
         NEW k \in 1..Len(log), log[k].review # None
  PROVE  /\ log[k].review \in Review
         /\ review'[log[k].review] = review[log[k].review]
         /\ manifest'[review[log[k].review].manifest].base =
                manifest[review[log[k].review].manifest].base
<1> DEFINE r == log[k].review
<1>1. r \in Review
  BY EntryType DEF Entry
<1>2. review[r].status \in {"disposed", "committed"}
  BY <1>1 DEF AuthorityInv, EachDecisionOnce
<1>3. review'[r] = review[r]
  BY <1>1, <1>2 DEF DecidedStays
<1>4. review[r].manifest # None /\ manifest[review[r].manifest].status # "absent"
  BY <1>1, <1>2 DEF AuthorityInv, ManifestBound, Unbound
<1>5. review[r].manifest \in Manifest
  BY <1>1, <1>4 DEF TypeOK, ReviewRecord
<1> QED
  BY <1>1, <1>3, <1>4, <1>5 DEF ManifestKept

(***************************************************************************)
(* The invariant, by the kinds of step.                                    *)
(***************************************************************************)

\* A step that leaves the log alone.
LEMMA LogUnchangedStep ==
  ASSUME TypeOK, AuthorityInv, UNCHANGED log, IssuedKept, DecidedStays,
         \A m \in Manifest : ManifestKept(m),
         \A r \in Review : ManifestBound(r)' /\ PreviewBound(r)' /\ DraftIssued(r)'
  PROVE  AuthorityInv'
<1>1. LogIssued'
  BY EntryType DEF AuthorityInv, LogIssued, IssuedKept, Entry
<1>2. EachDecisionOnce'
  BY DEF AuthorityInv, EachDecisionOnce, DecidedStays
<1>3. CommittedOnReviewedRevision'
  <2> SUFFICES ASSUME NEW k \in 2..Len(log)
               PROVE  /\ log[k].base = k - 1
                      /\ log[k].review # None =>
                            manifest'[review'[log[k].review].manifest].base = k - 1
    BY DEF CommittedOnReviewedRevision
  <2>1. k \in 1..Len(log)
    OBVIOUS
  <2> QED
    BY <2>1, DecidedKept DEF AuthorityInv, CommittedOnReviewedRevision
<1> QED
  BY <1>1, <1>2, <1>3 DEF AuthorityInv

LEMMA KeptStep ==
  ASSUME TypeOK, AuthorityInv, AllKept, UNCHANGED <<log, issued>>
  PROVE  AuthorityInv'
<1>1. IssuedKept
  BY DEF IssuedKept
<1>2. \A r \in Review : ManifestBound(r)' /\ PreviewBound(r)' /\ DraftIssued(r)'
  BY <1>1, BoundKept, DraftKept DEF AuthorityInv, AllKept
<1> QED
  BY <1>1, <1>2, KeptDecidedStays, LogUnchangedStep DEF AllKept

LEMMA CreateDraftStep ==
  ASSUME TypeOK, AuthorityInv, NEW r \in Review, CreateDraft(r)
  PROVE  AuthorityInv'
<1> DEFINE rv == [NoReview EXCEPT !.status = "draft", !.base = Revision, !.version = 1]
<1>1. /\ rv.status = "draft" /\ rv.manifest = None
      /\ ~rv.draft.live /\ rv.draft.command = None
  BY DEF NoReview, NoDraft
<1>2. review'[r] = rv /\ \A x \in Review \ {r} : review'[x] = review[x]
  BY DEF CreateDraft, TypeOK
<1>3. UNCHANGED <<manifest, log, issued>>
  BY DEF CreateDraft
<1>4. review[r].status = "absent"
  BY DEF CreateDraft, Exists
<1> HIDE DEF rv
<1>5. DecidedStays
  BY <1>1, <1>2, <1>4 DEF DecidedStays
<1>6. \A x \in Review : ManifestBound(x)' /\ PreviewBound(x)' /\ DraftIssued(x)'
  <2>1. ManifestBound(r)' /\ PreviewBound(r)' /\ DraftIssued(r)'
    BY <1>1, <1>2 DEF ManifestBound, PreviewBound, DraftIssued, Unbound
  <2>2. \A x \in Review \ {r} : ManifestBound(x)' /\ PreviewBound(x)' /\ DraftIssued(x)'
    BY <1>2, <1>3 DEF AuthorityInv, ManifestBound, PreviewBound, DraftIssued
  <2> QED
    BY <2>1, <2>2
<1> QED
  BY <1>3, <1>5, <1>6, LogUnchangedStep DEF IssuedKept, ManifestKept

LEMMA GovernStep ==
  ASSUME TypeOK, AuthorityInv, AllKept,
         NEW c \in Command, NEW k \in GovernanceKind,
         Issue(c), AppendEntry(c, None, k, Revision)
  PROVE  AuthorityInv'
<1>1. \A r \in Review : ManifestBound(r)' /\ PreviewBound(r)'
  BY BoundKept DEF AuthorityInv, AllKept
<1>11. DecidedStays /\ \A m \in Manifest : ManifestKept(m)
  BY KeptDecidedStays DEF AllKept
<1>2. /\ IssuedKept
      /\ issued'[c] = Revision /\ Revision # 0
      /\ \A j \in 1..Len(log) : log[j].command # c
  BY IssueKeeps DEF AuthorityInv
<1>3. \A r \in Review : DraftIssued(r)'
  BY <1>2, DraftKept DEF AuthorityInv, AllKept
<1>4. [command |-> c, review |-> None, kind |-> k, base |-> Revision] \in Entry
  BY RevisionType DEF Entry
<1>5. /\ Len(log') = Len(log) + 1 /\ Len(log) \in Nat
      /\ \A j \in 1..Len(log) : log'[j] = log[j]
      /\ log'[Len(log')].command = c
      /\ log'[Len(log')].review = None
      /\ log'[Len(log')].base = Revision
  BY <1>4, AppendedLog
<1>6. \A j \in 1..Len(log') : j \in 1..Len(log) \/ j = Len(log')
  BY <1>5
<1>7. LogIssued'
  <2>1. Len(log') # 0
    BY <1>5
  <2>2. ASSUME NEW j \in 1..Len(log'), log'[j].command # None
        PROVE  issued'[log'[j].command] # 0
    <3>1. CASE j = Len(log')
      BY <1>2, <1>5, <3>1
    <3>2. CASE j \in 1..Len(log)
      BY <1>2, <1>5, <2>2, <3>2, EntryType DEF AuthorityInv, LogIssued, IssuedKept, Entry
    <3> QED
      BY <1>6, <3>1, <3>2
  <2> QED
    BY <2>1, <2>2 DEF LogIssued
<1>8. \A r \in Review : review'[r].status \in {"disposed", "committed"} <=>
                            review[r].status \in {"disposed", "committed"}
  BY DEF AllKept, Kept, Terminal
<1>9. EachDecisionOnce'
  <2>1. \A i, j \in 1..Len(log') : log'[i].command = log'[j].command => i = j
    BY <1>2, <1>5, <1>6 DEF AuthorityInv, EachDecisionOnce
  <2>2. \A i, j \in 1..Len(log') :
            log'[i].review # None /\ log'[i].review = log'[j].review => i = j
    BY <1>5, <1>6 DEF AuthorityInv, EachDecisionOnce
  <2>3. \A r \in Review : (\E j \in 1..Len(log') : log'[j].review = r) <=>
                              (\E j \in 1..Len(log) : log[j].review = r)
    <3>1. \A j \in 1..Len(log) : j \in 1..Len(log')
      BY <1>5
    <3>2. None \notin Review
      BY NoneAssumption
    <3> QED
      BY <1>5, <1>6, <3>1, <3>2
  <2> QED
    BY <1>8, <2>1, <2>2, <2>3 DEF AuthorityInv, EachDecisionOnce
<1>10. CommittedOnReviewedRevision'
  <2> SUFFICES ASSUME NEW j \in 2..Len(log')
               PROVE  /\ log'[j].base = j - 1
                      /\ log'[j].review # None =>
                            manifest'[review'[log'[j].review].manifest].base = j - 1
    BY DEF CommittedOnReviewedRevision
  <2>1. CASE j = Len(log')
    BY <1>5, <2>1 DEF Revision
  <2>2. CASE j \in 1..Len(log)
    <3>1. log'[j] = log[j] /\ j \in 2..Len(log)
      BY <1>5, <2>2
    <3> QED
      BY <1>11, <2>2, <3>1, DecidedKept DEF AuthorityInv, CommittedOnReviewedRevision
  <2> QED
    BY <1>6, <2>1, <2>2
<1> QED
  BY <1>1, <1>3, <1>7, <1>9, <1>10 DEF AuthorityInv

LEMMA PrepareManifestStep ==
  ASSUME TypeOK, AuthorityInv, NEW r \in Review, NEW m \in Manifest,
         NEW p \in Provider \cup {None}, NEW sel \in SUBSET Memory,
         PrepareManifest(r, m, p, sel)
  PROVE  AuthorityInv'
<1> DEFINE stales == \/ review[r].status \notin {"draft", "stale", "manifest_prepared"}
                     \/ review[r].base # Revision
           saved  == IF stales THEN Staled(review[r]) ELSE review[r]
           sv     == Saved(saved, "manifest_prepared")
           rv     == [sv EXCEPT !.manifest = m, !.base = Revision, !.draft.live = FALSE]
           kept   == IF stales THEN AttemptsCancelled({r}) ELSE manifest
           new    == [NoManifest EXCEPT !.status = "prepared", !.review = r,
                         !.base = Revision, !.provider = p, !.selected = sel]
<1>1. /\ saved \in ReviewRecord
      /\ saved.draft.command = review[r].draft.command
      /\ saved.draft.base = review[r].draft.base
  <2>1. review[r] \in ReviewRecord /\ review[r].draft \in Draft
    BY DEF TypeOK, ReviewRecord
  <2>2. \A d \in Draft : LET w == [d EXCEPT !.live = FALSE]
                         IN  w.command = d.command /\ w.base = d.base
    BY DEF Draft
  <2>3. CASE stales
    BY <2>1, <2>2, <2>3, StaledType, StaledFields
  <2>4. CASE ~stales
    BY <2>1, <2>4
  <2> QED
    BY <2>3, <2>4
<1>2. sv \in ReviewRecord /\ sv.status = "manifest_prepared" /\ sv.draft = saved.draft
  BY <1>1, SavedType, SavedFields DEF ReviewStatus
<1>3. /\ rv.status = "manifest_prepared" /\ rv.manifest = m /\ rv.base = Revision
      /\ ~rv.draft.live
      /\ rv.draft.command = review[r].draft.command
      /\ rv.draft.base = review[r].draft.base
  <2> HIDE DEF sv, saved
  <2> QED
    BY <1>1, <1>2 DEF ReviewRecord, Draft
<1>4. review' = [review EXCEPT ![r] = rv]
  BY DEF PrepareManifest
<1>5. review'[r] = rv /\ \A x \in Review \ {r} : review'[x] = review[x]
  <2> HIDE DEF rv
  <2> QED
    BY <1>4 DEF TypeOK
<1>6. UNCHANGED <<log, issued>> /\ manifest[m].status = "absent"
        /\ review[r].status \notin Terminal
  BY DEF PrepareManifest, Replaceable, IsOpen
<1>7. manifest'[m] = new
  BY DEF PrepareManifest
<1>8. new.status = "prepared" /\ new.review = r /\ new.base = Revision
  BY DEF NoManifest
<1>9. \A x \in Manifest : ManifestKept(x)
  <2>1. kept \in [Manifest -> ManifestRecord]
    BY AttemptsCancelledType DEF TypeOK
  <2>2. \A x \in Manifest : /\ kept[x].status = manifest[x].status
                            /\ kept[x].review = manifest[x].review
                            /\ kept[x].base = manifest[x].base
    BY AttemptsCancelledKept
  <2>3. \A x \in Manifest \ {m} :
            manifest'[x] \in {kept[x], [kept[x] EXCEPT !.status = "stale"]}
    BY DEF PrepareManifest
  <2> HIDE DEF kept
  <2> QED
    BY <1>6, <2>1, <2>2, <2>3 DEF ManifestKept, ManifestRecord
<1> HIDE DEF rv, new
<1>10. DecidedStays
  BY <1>3, <1>5, <1>6 DEF DecidedStays, Terminal
<1>11. \A x \in Review : ManifestBound(x)' /\ PreviewBound(x)' /\ DraftIssued(x)'
  <2>1. m # None
    BY NoneAssumption
  <2>2. ManifestBound(r)' /\ PreviewBound(r)' /\ DraftIssued(r)'
    BY <1>3, <1>5, <1>6, <1>7, <1>8, <2>1
    DEF ManifestBound, PreviewBound, DraftIssued, AuthorityInv
  <2>3. ASSUME NEW x \in Review \ {r}
        PROVE  ManifestBound(x)' /\ PreviewBound(x)' /\ DraftIssued(x)'
    <3>1. Kept(x)
      BY <1>5, UnchangedKept
    <3> QED
      BY <1>6, <1>9, <3>1, BoundKept, DraftKept DEF AuthorityInv, IssuedKept
  <2> QED
    BY <2>2, <2>3
<1> QED
  BY <1>6, <1>9, <1>10, <1>11, LogUnchangedStep DEF IssuedKept

LEMMA PrepareEffectStep ==
  ASSUME TypeOK, AuthorityInv, NEW r \in Review, NEW c \in Command, NEW k \in EffectKind,
         PrepareEffect(r, c, k)
  PROVE  AuthorityInv'
<1> DEFINE aff == IF k = "formal_direction_change" THEN Affected(r) ELSE {}
           d   == [command |-> c, kind |-> k, base |-> Revision,
                   live |-> TRUE, affected |-> aff]
           st  == review[r].status
           sv  == Saved(review[r], st)
           rv  == [sv EXCEPT !.draft = d]
<1>1. d.command = c /\ d.base = Revision
  OBVIOUS
<1>2. st \in Committable /\ review[r].base = Revision /\ Issue(c)
        /\ UNCHANGED <<manifest, log>>
  BY DEF PrepareEffect, Previewable
<1>3. sv \in ReviewRecord /\ sv.status = st
        /\ sv.base = review[r].base /\ sv.manifest = review[r].manifest
  BY SavedType, SavedFields DEF TypeOK, ReviewRecord
<1>4. review' = [review EXCEPT ![r] = rv]
  BY DEF PrepareEffect
<1>5. rv.status = st /\ rv.base = Revision /\ rv.manifest = review[r].manifest
        /\ rv.draft = d
  <2> HIDE DEF sv, d
  <2> QED
    BY <1>2, <1>3 DEF ReviewRecord
<1>6. review'[r] = rv /\ \A x \in Review \ {r} : review'[x] = review[x]
  <2> HIDE DEF rv
  <2> QED
    BY <1>4 DEF TypeOK
<1>7. IssuedKept /\ issued'[c] = Revision /\ Revision # 0
  BY <1>2, IssueKeeps DEF AuthorityInv
<1> HIDE DEF d, rv
<1>8. DecidedStays
  BY <1>2, <1>5, <1>6 DEF DecidedStays, Committable
<1>9. \A m \in Manifest : ManifestKept(m)
  BY <1>2 DEF ManifestKept
<1>10. \A x \in Review : ManifestBound(x)' /\ PreviewBound(x)' /\ DraftIssued(x)'
  <2>1. review[r].manifest # None
    BY <1>2 DEF AuthorityInv, ManifestBound, Unbound, Committable
  <2>2. ManifestBound(r)' /\ PreviewBound(r)' /\ DraftIssued(r)'
    BY <1>1, <1>2, <1>5, <1>6, <1>7, <2>1
    DEF ManifestBound, PreviewBound, DraftIssued, AuthorityInv
  <2>3. ASSUME NEW x \in Review \ {r}
        PROVE  ManifestBound(x)' /\ PreviewBound(x)' /\ DraftIssued(x)'
    <3>1. Kept(x)
      BY <1>6, UnchangedKept
    <3> QED
      BY <1>7, <1>9, <3>1, BoundKept, DraftKept DEF AuthorityInv
  <2> QED
    BY <2>2, <2>3
<1> QED
  BY <1>2, <1>7, <1>8, <1>9, <1>10, LogUnchangedStep

\* A commit decides r on the head and keeps every other review.
LEMMA CommitStep ==
  ASSUME TypeOK, AuthorityInv, NEW r \in Review,
         review[r].status \in Committable,
         review[r].draft.live, review[r].draft.base = Revision,
         review[r].draft.command # None, ~Applied(review[r].draft.command),
         AppendEntry(review[r].draft.command, r, review[r].draft.kind, review[r].draft.base),
         NEW st \in {"disposed", "committed"}, review'[r] = Saved(review[r], st),
         \A x \in Review \ {r} : Kept(x),
         \A m \in Manifest : ManifestKept(m),
         UNCHANGED issued
  PROVE  AuthorityInv'
<1> DEFINE d == review[r].draft
           m == review[r].manifest
<1>1. review[r] \in ReviewRecord /\ d \in Draft
  BY DEF TypeOK, ReviewRecord
<1>2. /\ review'[r].status = st /\ review'[r].base = review[r].base
      /\ review'[r].manifest = m /\ review'[r].draft = d
  BY <1>1, SavedFields
<1>3. m # None /\ m \in Manifest
  BY <1>1 DEF AuthorityInv, ManifestBound, Committable, Unbound, ReviewRecord
<1>4. manifest'[m].base = Revision
  BY <1>3 DEF AuthorityInv, ManifestBound, PreviewBound, ManifestKept
<1>5. [command |-> d.command, review |-> r, kind |-> d.kind, base |-> d.base] \in Entry
  BY <1>1 DEF Entry, Draft
<1>6. /\ Len(log') = Len(log) + 1 /\ Len(log) \in Nat
      /\ \A j \in 1..Len(log) : log'[j] = log[j]
      /\ log'[Len(log')].command = d.command
      /\ log'[Len(log')].review = r
      /\ log'[Len(log')].base = Revision
  BY <1>5, AppendedLog
<1>7. \A j \in 1..Len(log') : j \in 1..Len(log) \/ j = Len(log')
  BY <1>6
<1>8. \A j \in 1..Len(log) : j \in 1..Len(log') /\ log[j].review # r
  BY <1>6 DEF AuthorityInv, EachDecisionOnce, Committable
<1>9. \A x \in Review : ManifestBound(x)' /\ PreviewBound(x)' /\ DraftIssued(x)'
  <2>1. ManifestBound(r)' /\ PreviewBound(r)' /\ DraftIssued(r)'
    BY <1>2, <1>3
    DEF AuthorityInv, ManifestBound, PreviewBound, DraftIssued, ManifestKept
  <2>2. \A x \in Review \ {r} : ManifestBound(x)' /\ PreviewBound(x)' /\ DraftIssued(x)'
    BY BoundKept, DraftKept DEF AuthorityInv, IssuedKept
  <2> QED
    BY <2>1, <2>2
<1>10. LogIssued'
  <2>1. Len(log') # 0
    BY <1>6
  <2>2. issued'[d.command] # 0
    BY DEF AuthorityInv, DraftIssued
  <2>3. ASSUME NEW j \in 1..Len(log'), log'[j].command # None
        PROVE  issued'[log'[j].command] # 0
    BY <1>6, <1>7, <2>2, <2>3 DEF AuthorityInv, LogIssued
  <2> QED
    BY <2>1, <2>3 DEF LogIssued
<1>11. EachDecisionOnce'
  <2>1. \A i, j \in 1..Len(log') : log'[i].command = log'[j].command => i = j
    BY <1>6, <1>7 DEF AuthorityInv, EachDecisionOnce, Applied
  <2>2. \A i, j \in 1..Len(log') :
            log'[i].review # None /\ log'[i].review = log'[j].review => i = j
    BY <1>6, <1>7, <1>8 DEF AuthorityInv, EachDecisionOnce
  <2>3. ASSUME NEW x \in Review
        PROVE  review'[x].status \in {"disposed", "committed"} <=>
                   \E j \in 1..Len(log') : log'[j].review = x
    <3>1. CASE x = r
      <4>1. Len(log') \in 1..Len(log')
        BY <1>6
      <4> QED
        BY <1>2, <1>6, <3>1, <4>1
    <3>2. CASE x # r
      <4>1. review'[x].status \in {"disposed", "committed"} <=>
                review[x].status \in {"disposed", "committed"}
        BY <3>2 DEF Kept, Terminal
      <4>2. (\E j \in 1..Len(log') : log'[j].review = x) <=>
                (\E j \in 1..Len(log) : log[j].review = x)
        BY <1>6, <1>7, <1>8, <3>2
      <4> QED
        BY <4>1, <4>2 DEF AuthorityInv, EachDecisionOnce
    <3> QED
      BY <3>1, <3>2
  <2> QED
    BY <2>1, <2>2, <2>3 DEF EachDecisionOnce
<1>12. CommittedOnReviewedRevision'
  <2> SUFFICES ASSUME NEW j \in 2..Len(log')
               PROVE  /\ log'[j].base = j - 1
                      /\ log'[j].review # None =>
                            manifest'[review'[log'[j].review].manifest].base = j - 1
    BY DEF CommittedOnReviewedRevision
  <2>1. CASE j = Len(log')
    <3>1. Revision = j - 1
      BY <1>6, <2>1 DEF Revision
    <3> QED
      BY <1>2, <1>4, <1>6, <2>1, <3>1
  <2>2. CASE j \in 1..Len(log)
    <3>1. log'[j] = log[j] /\ j \in 2..Len(log)
      BY <1>6, <2>2
    <3>2. log[j].base = j - 1
      BY <3>1 DEF AuthorityInv, CommittedOnReviewedRevision
    <3>3. ASSUME log[j].review # None
          PROVE  manifest'[review'[log[j].review].manifest].base = j - 1
      <4> DEFINE x == log[j].review
                 n == review[x].manifest
      <4>1. x \in Review /\ x # r
        BY <1>8, <2>2, <3>3, EntryType DEF Entry
      <4>2. review[x].status \in {"disposed", "committed"}
        BY <2>2, <4>1 DEF AuthorityInv, EachDecisionOnce
      <4>3. review'[x].manifest = n
        BY <4>1 DEF Kept
      <4>4. n \in Manifest /\ manifest[n].status # "absent"
        BY <4>1, <4>2 DEF AuthorityInv, ManifestBound, Unbound, TypeOK, ReviewRecord
      <4>5. manifest[n].base = j - 1
        BY <3>1, <3>3 DEF AuthorityInv, CommittedOnReviewedRevision
      <4> QED
        BY <4>3, <4>4, <4>5 DEF ManifestKept
    <3> QED
      BY <3>1, <3>2, <3>3
  <2> QED
    BY <1>7, <2>1, <2>2
<1> QED
  BY <1>9, <1>10, <1>11, <1>12 DEF AuthorityInv

LEMMA RedirectedKept ==
  ASSUME TypeOK, NEW r \in Review, Redirected(r)
  PROVE  /\ review'[r] = Saved(review[r], "committed")
         /\ \A x \in Review \ {r} : Kept(x)
         /\ \A m \in Manifest : ManifestKept(m)
<1> DEFINE others == OthersOpen(r)
           ended  == {x \in others : Running(x)}
           kept   == AttemptsCancelled(others)
<1>1. review'[r] = Saved(review[r], "committed")
  BY DEF Redirected, OthersOpen
<1>2. ASSUME NEW x \in Review \ {r} PROVE Kept(x)
  <2>1. CASE x \notin others
    <3>1. review'[x] = review[x]
      BY <2>1 DEF Redirected
    <3> QED
      BY <3>1, UnchangedKept
  <2>2. CASE x \in others \ ended
    <3>1. review'[x] = Staled(review[x])
      BY <2>2 DEF Redirected
    <3> QED
      BY <2>2, <3>1, StaledKept DEF OthersOpen, IsOpen
  <2>3. CASE x \in ended
    <3> DEFINE sv == Saved(review[x], "provider_attempt_uncertain")
    <3>1. review'[x] = Staled(sv)
      BY <2>3 DEF Redirected
    <3>2. /\ review[x] \in ReviewRecord /\ review[x].draft \in Draft
          /\ review[x].status = "provider_attempt_running"
      BY <2>3 DEF TypeOK, ReviewRecord, Running
    <3>3. /\ sv \in ReviewRecord
          /\ sv.base = review[x].base /\ sv.manifest = review[x].manifest
          /\ sv.draft = review[x].draft
      BY <3>2, SavedType, SavedFields DEF ReviewStatus
    <3>4. /\ Staled(sv).status = "stale"
          /\ Staled(sv).base = review[x].base
          /\ Staled(sv).manifest = review[x].manifest
          /\ Staled(sv).draft = [review[x].draft EXCEPT !.live = FALSE]
      BY <3>3, StaledFields
    <3> HIDE DEF sv
    <3> QED
      BY <3>1, <3>2, <3>4 DEF Kept, Unbound, Terminal, Draft
  <2> QED
    BY <2>1, <2>2, <2>3
<1>3. ASSUME NEW m \in Manifest PROVE ManifestKept(m)
  <2> DEFINE live == manifest[m].review \in others
                       /\ manifest[m].status \notin {"stale", "cancelled"}
             over == \E x \in ended : review[x].lastAttempt = m /\ Current(m)
             st   == IF live THEN "stale" ELSE kept[m].status
             at   == IF over THEN "uncertain" ELSE kept[m].attempt
  <2>1. manifest'[m] = [kept[m] EXCEPT !.status = st, !.attempt = at]
    BY DEF Redirected
  <2>4. st \in {"stale", kept[m].status}
    OBVIOUS
  <2>2. kept[m] \in ManifestRecord
    BY AttemptsCancelledType
  <2>3. kept[m].status = manifest[m].status /\ kept[m].review = manifest[m].review
          /\ kept[m].base = manifest[m].base
    BY AttemptsCancelledKept
  <2> HIDE DEF kept, st, at
  <2> QED
    BY <2>1, <2>2, <2>3, <2>4 DEF ManifestKept, ManifestRecord
<1> QED
  BY <1>1, <1>2, <1>3

LEMMA CommitEffectStep ==
  ASSUME TypeOK, AuthorityInv, NEW r \in Review, CommitEffect(r)
  PROVE  AuthorityInv'
<1> DEFINE d == review[r].draft
<1>1. /\ review[r].status \in Committable
      /\ d.live /\ d.base = Revision /\ d.command # None /\ ~Applied(d.command)
      /\ AppendEntry(d.command, r, d.kind, d.base)
      /\ UNCHANGED issued
  BY DEF CommitEffect, Accepts
<1>2. CASE d.kind = "formal_direction_change"
  <2>1. Redirected(r)
    BY <1>2 DEF CommitEffect
  <2> QED
    BY <1>1, <2>1, RedirectedKept, CommitStep
<1>3. CASE d.kind # "formal_direction_change"
  <2> DEFINE st == IF d.kind = "record_only" THEN "disposed" ELSE "committed"
  <2>1. review' = [review EXCEPT ![r] = Saved(review[r], st)] /\ UNCHANGED manifest
    BY <1>3 DEF CommitEffect
  <2>2. review'[r] = Saved(review[r], st)
          /\ \A x \in Review \ {r} : review'[x] = review[x]
    BY <2>1 DEF TypeOK
  <2>3. \A x \in Review \ {r} : Kept(x)
    BY <2>2, UnchangedKept
  <2>4. \A m \in Manifest : ManifestKept(m)
    BY <2>1 DEF ManifestKept
  <2>5. st \in {"disposed", "committed"}
    OBVIOUS
  <2> HIDE DEF st
  <2> QED
    BY <1>1, <2>2, <2>3, <2>4, <2>5, CommitStep
<1> QED
  BY <1>2, <1>3

LEMMA GovernanceStep ==
  ASSUME TypeOK, AuthorityInv, NEW i \in Memory, Governance(i)
  PROVE  AuthorityInv'
<1>1. CASE MemoryExpires(i)
  BY <1>1, UnchangedAllKept, KeptStep DEF MemoryExpires
<1>2. ASSUME NEW c \in Command, NEW to \in MemoryState, GovernMemory(c, i, to)
      PROVE  AuthorityInv'
  <2>1. AllKept
    BY <1>2, UnchangedAllKept DEF GovernMemory
  <2>2. "memory_governance_change" \in GovernanceKind
    BY DEF GovernanceKind
  <2>3. Issue(c) /\ AppendEntry(c, None, "memory_governance_change", Revision)
    BY <1>2 DEF GovernMemory
  <2> QED
    BY <2>1, <2>2, <2>3, GovernStep
<1>3. ASSUME NEW c \in Command, Forget(c, i)
      PROVE  AuthorityInv'
  <2>1. AllKept
    BY <1>3, ForgetKept
  <2>2. "privacy_redaction" \in GovernanceKind
    BY DEF GovernanceKind
  <2>3. Issue(c) /\ AppendEntry(c, None, "privacy_redaction", Revision)
    BY <1>3 DEF Forget
  <2> QED
    BY <2>1, <2>2, <2>3, GovernStep
<1> QED
  BY <1>1, <1>2, <1>3 DEF Governance

LEMMA AuthorityInit == Init => AuthorityInv
<1> SUFFICES ASSUME Init PROVE AuthorityInv
  OBVIOUS
<1>1. \A r \in Review : /\ review[r].status = "absent" /\ review[r].manifest = None
                        /\ ~review[r].draft.live /\ review[r].draft.command = None
  BY DEF Init, NoReview, NoDraft
<1>2. Len(log) = 1 /\ log[1].command = None /\ log[1].review = None
  BY DEF Init
<1>3. None \notin Review
  BY NoneAssumption
<1>4. \A r \in Review : ManifestBound(r) /\ PreviewBound(r) /\ DraftIssued(r)
  BY <1>1 DEF ManifestBound, PreviewBound, DraftIssued, Unbound
<1>5. \A k \in 1..Len(log) : k = 1
  BY <1>2
<1>6. LogIssued
  BY <1>2, <1>5 DEF LogIssued
<1>7. EachDecisionOnce
  BY <1>1, <1>2, <1>3, <1>5 DEF EachDecisionOnce
<1>8. CommittedOnReviewedRevision
  BY <1>2 DEF CommittedOnReviewedRevision
<1> QED
  BY <1>4, <1>6, <1>7, <1>8 DEF AuthorityInv

LEMMA AuthorityStep == TypeOK /\ AuthorityInv /\ [Next]_vars => AuthorityInv'
<1> SUFFICES ASSUME TypeOK, AuthorityInv, [Next]_vars PROVE AuthorityInv'
  OBVIOUS
<1>1. CASE Quiet
  BY <1>1, QuietKept, KeptStep
<1>2. ASSUME NEW r \in Review, CreateDraft(r) PROVE AuthorityInv'
  BY <1>2, CreateDraftStep
<1>3. ASSUME NEW r \in Review, NEW m \in Manifest, NEW p \in Provider \cup {None},
             NEW sel \in SUBSET Memory, PrepareManifest(r, m, p, sel)
      PROVE  AuthorityInv'
  BY <1>3, PrepareManifestStep
<1>4. ASSUME NEW r \in Review, NEW c \in Command, NEW k \in EffectKind,
             PrepareEffect(r, c, k)
      PROVE  AuthorityInv'
  BY <1>4, PrepareEffectStep
<1>5. ASSUME NEW r \in Review, CommitEffect(r) PROVE AuthorityInv'
  BY <1>5, CommitEffectStep
<1>6. ASSUME NEW i \in Memory, Governance(i) PROVE AuthorityInv'
  BY <1>6, GovernanceStep
<1>7. CASE Next
  BY <1>1, <1>2, <1>3, <1>4, <1>5, <1>6, <1>7 DEF Next, Workflow, Quiet
<1> QED
  BY <1>1, <1>7 DEF Quiet

LEMMA AuthorityInvariant == Spec => [](TypeOK /\ AuthorityInv)
<1>1. Init => TypeOK /\ AuthorityInv
  BY InitType, AuthorityInit
<1>2. (TypeOK /\ AuthorityInv) /\ [Next]_vars => (TypeOK /\ AuthorityInv)'
  BY TypeStep, AuthorityStep
<1> QED
  BY <1>1, <1>2, PTL DEF Spec

\* No lost update: every entry of the log was decided on the revision just before
\* it, which is the one its preview and its review's manifest were built on.
THEOREM NoLostUpdate == Spec => []CommittedOnReviewedRevision
<1>1. AuthorityInv => CommittedOnReviewedRevision
  BY DEF AuthorityInv
<1> QED
  BY <1>1, AuthorityInvariant, PTL

\* No command takes effect twice, and a review is decided by exactly one entry if
\* it is disposed or committed, by none otherwise.
THEOREM DecidedOnce == Spec => []EachDecisionOnce
<1>1. AuthorityInv => EachDecisionOnce
  BY DEF AuthorityInv
<1> QED
  BY <1>1, AuthorityInvariant, PTL

\* A preview that can still be approved was built on its review's revision.
THEOREM PreviewsAreCurrent == Spec => []PreviewBoundToManifest
<1>1. AuthorityInv => PreviewBoundToManifest
  BY DEF AuthorityInv, PreviewBound, PreviewBoundToManifest
<1> QED
  BY <1>1, AuthorityInvariant, PTL

(***************************************************************************)
(* The refinement of AuthorityLog.                                         *)
(***************************************************************************)

\* The log as AuthorityLog sees it.
Changes ==
    [k \in 1..Len(log) |-> [command |-> log[k].command, review |-> log[k].review]]

LEMMA ChangesLength ==
  ASSUME TypeOK
  PROVE  /\ Len(Changes) = Len(log)
         /\ \A k \in 1..Len(log) : /\ Changes[k].command = log[k].command
                                   /\ Changes[k].review = log[k].review
<1>1. Len(log) \in Nat
  BY DEF TypeOK
<1> QED
  BY <1>1 DEF Changes

\* Appending an entry to the log appends its image.
LEMMA ChangesAppend ==
  ASSUME TypeOK, NEW c, NEW r, NEW k, NEW b, AppendEntry(c, r, k, b),
         [command |-> c, review |-> r, kind |-> k, base |-> b] \in Entry
  PROVE  Changes' = Append(Changes, [command |-> c, review |-> r])
<1> DEFINE Img(e) == [command |-> e.command, review |-> e.review]
           n == Len(log)
<1>1. /\ Len(log') = n + 1 /\ n \in Nat
      /\ \A j \in 1..n : log'[j] = log[j]
      /\ log'[Len(log')].command = c
      /\ log'[Len(log')].review = r
  BY AppendedLog
<1>2. Changes' = [j \in 1..(n + 1) |-> Img(log'[j])]
  BY <1>1 DEF Changes
<1>3. Append(Changes, [command |-> c, review |-> r]) =
          [j \in 1..(n + 1) |-> IF j = n + 1 THEN [command |-> c, review |-> r]
                                ELSE Changes[j]]
  <2> DEFINE S == [command : Command \cup {None}, review : Review \cup {None}]
  <2>1. \A j \in 1..n : Img(log[j]) \in S
    <3> TAKE j \in 1..n
    <3>1. log[j] \in Entry
      BY EntryType
    <3>2. log[j].command \in Command \cup {None} /\ log[j].review \in Review \cup {None}
      BY <3>1 DEF Entry
    <3> QED
      BY <3>2
  <2>2. Changes = [j \in 1..n |-> Img(log[j])]
    BY DEF Changes
  <2> HIDE DEF S, Img
  <2>3. Changes \in Seq(S)
    BY <1>1, <2>1, <2>2
  <2> QED
    BY <1>1, <2>3, ChangesLength
<1>4. \A j \in 1..(n + 1) :
          Img(log'[j]) = IF j = n + 1 THEN [command |-> c, review |-> r] ELSE Changes[j]
  <2> TAKE j \in 1..(n + 1)
  <2>1. CASE j = n + 1
    BY <1>1, <2>1
  <2>2. CASE j \in 1..n
    BY <1>1, <2>2 DEF Changes
  <2> QED
    BY <1>1, <2>1, <2>2
<1> QED
  BY <1>2, <1>3, <1>4

LEMMA RefinesInit == Init => Authority!Init
<1> SUFFICES ASSUME Init PROVE Authority!Init
  OBVIOUS
<1>1. Len(log) = 1 /\ log[1].command = None /\ log[1].review = None
  BY DEF Init
<1>2. Changes = <<[command |-> None, review |-> None]>>
  BY <1>1 DEF Changes
<1> QED
  BY <1>2 DEF Init, Authority!Init, Changes

LEMMA RefinesStep ==
  TypeOK /\ AuthorityInv /\ [Next]_vars => [Authority!Next]_(Authority!vars)
<1> SUFFICES ASSUME TypeOK, AuthorityInv, [Next]_vars
             PROVE  Authority!Next \/ UNCHANGED <<Changes, issued>>
  BY DEF Authority!vars, Changes
<1>1. Authority!Revision = Revision
  BY ChangesLength DEF Authority!Revision, Changes, Revision
<1>2. ASSUME UNCHANGED <<log, issued>> PROVE UNCHANGED <<Changes, issued>>
  BY <1>2 DEF Changes
<1>3. CASE Quiet
  BY <1>2, <1>3, QuietKept
<1>4. ASSUME NEW r \in Review, CreateDraft(r) PROVE UNCHANGED <<Changes, issued>>
  BY <1>2, <1>4 DEF CreateDraft
<1>5. ASSUME NEW r \in Review, NEW m \in Manifest, NEW p \in Provider \cup {None},
             NEW sel \in SUBSET Memory, PrepareManifest(r, m, p, sel)
      PROVE  UNCHANGED <<Changes, issued>>
  BY <1>2, <1>5 DEF PrepareManifest
<1>6. ASSUME NEW r \in Review, NEW c \in Command, NEW k \in EffectKind,
             PrepareEffect(r, c, k)
      PROVE  Authority!Next
  <2>1. Issue(c) /\ UNCHANGED Changes
    BY <1>6 DEF PrepareEffect, Changes
  <2>2. Authority!Issue(c)
    BY <1>1, <2>1 DEF Issue, Authority!Issue, Changes
  <2> QED
    BY <2>2 DEF Authority!Next
<1>7. ASSUME NEW r \in Review, CommitEffect(r) PROVE Authority!Next
  <2> DEFINE d == review[r].draft
             c == d.command
  <2>1. /\ d.base = Revision /\ c # None /\ ~Applied(c)
        /\ review[r].status \in Committable
        /\ AppendEntry(c, r, d.kind, d.base) /\ UNCHANGED issued
    BY <1>7 DEF CommitEffect, Accepts
  <2>2. d \in Draft /\ c \in Command
    BY <2>1 DEF TypeOK, ReviewRecord, Draft
  <2>3. issued[c] = Authority!Revision
    BY <1>1, <2>1 DEF AuthorityInv, DraftIssued
  <2>4. ~Authority!Applied(c)
    BY <2>1, ChangesLength DEF Authority!Applied, Applied, Changes
  <2>5. ~Authority!Decided(r)
    BY <2>1, ChangesLength
    DEF Authority!Decided, AuthorityInv, EachDecisionOnce, Committable, Changes
  <2>6. [command |-> c, review |-> r, kind |-> d.kind, base |-> d.base] \in Entry
    BY <2>2 DEF Entry, Draft
  <2>7. Changes' = Append(Changes, [command |-> c, review |-> r])
    BY <2>1, <2>6, ChangesAppend
  <2>8. Authority!Decide(c, r)
    BY <2>1, <2>3, <2>4, <2>5, <2>7 DEF Authority!Decide, Changes
  <2> QED
    BY <2>2, <2>8 DEF Authority!Next
<1>8. ASSUME NEW c \in Command, NEW k \in GovernanceKind,
             Issue(c), AppendEntry(c, None, k, Revision)
      PROVE  Authority!Next
  <2>1. [command |-> c, review |-> None, kind |-> k, base |-> Revision] \in Entry
    BY RevisionType DEF Entry
  <2>2. Changes' = Append(Changes, [command |-> c, review |-> None])
    BY <1>8, <2>1, ChangesAppend
  <2>3. Authority!Govern(c)
    BY <1>1, <1>8, <2>2 DEF Issue, Authority!Govern, Changes
  <2> QED
    BY <2>3 DEF Authority!Next
<1>9. ASSUME NEW i \in Memory, Governance(i)
      PROVE  Authority!Next \/ UNCHANGED <<Changes, issued>>
  <2>1. CASE MemoryExpires(i)
    BY <1>2, <2>1 DEF MemoryExpires
  <2>2. ASSUME NEW c \in Command, NEW to \in MemoryState, GovernMemory(c, i, to)
        PROVE  Authority!Next
    BY <1>8, <2>2 DEF GovernMemory, GovernanceKind
  <2>3. ASSUME NEW c \in Command, Forget(c, i)
        PROVE  Authority!Next
    <3>1. Issue(c) /\ AppendEntry(c, None, "privacy_redaction", Revision)
      BY <2>3 DEF Forget
    <3> QED
      BY <1>8, <3>1 DEF GovernanceKind
  <2> QED
    BY <1>9, <2>1, <2>2, <2>3 DEF Governance
<1>10. CASE Next
  BY <1>3, <1>4, <1>5, <1>6, <1>7, <1>9, <1>10 DEF Next, Workflow, Quiet
<1> QED
  BY <1>3, <1>10 DEF Quiet

\* The kernel implements AuthorityLog: commands are issued on the revision their
\* user saw and applied at most once, on that revision, as the only decision of
\* their review.
THEOREM ImplementsAuthorityLog == Spec => AuthoritySpec
<1>1. Init => Authority!Init
  BY RefinesInit
<1>2. TypeOK /\ AuthorityInv /\ [Next]_vars => [Authority!Next]_(Authority!vars)
  BY RefinesStep
<1> QED
  BY <1>1, <1>2, AuthorityInvariant, PTL DEF Spec, AuthoritySpec, Authority!Spec

-----------------------------------------------------------------------------
(* The Provider attempts, and what Forget leaves of them.                  *)

(***************************************************************************)
(* The inductive invariant.                                                *)
(***************************************************************************)

Started == {"running", "completed", "failed", "uncertain"}
Out(st) == st \notin DOMAIN LastAttemptStatus

\* A review's last attempt is its own, and decides its status with its manifest.
AttemptOwned(r) ==
    review[r].lastAttempt # None =>
        /\ manifest[review[r].lastAttempt].status # "absent"
        /\ manifest[review[r].lastAttempt].review = r
AttemptMatches(r) ==
    ~Out(review[r].status) =>
        /\ review[r].lastAttempt # None
        /\ review[r].lastAttempt = review[r].manifest
        /\ manifest[review[r].lastAttempt].attempt = LastAttemptStatus[review[r].status]

\* No review that could go on owns an erased manifest.
ErasedIsStale(r) ==
    /\ IsOpen(r)
    /\ review[r].manifest # None
    /\ manifest[review[r].manifest].proof # None
    => review[r].status = "stale"

ManifestOK(m) ==
    /\ manifest[m].status = "absent" =>
          /\ manifest[m].attempt = "none" /\ manifest[m].proof = None
          /\ manifest[m].selected = {} /\ manifest[m].review = None
    /\ manifest[m].attempt \in Started => manifest[m].status \in {"sent", "stale"}
    /\ manifest[m].proof # None => manifest[m].attempt \notin {"prepared", "running"}
    /\ \A i \in manifest[m].selected :
          memory[i] = "forgotten" => manifest[m].proof # None

\* What a call has sent, and what was sent of what it has recorded.
SendOK(m) ==
    /\ sends[m] \in {0, 1}
    /\ sends[m] = 1 => manifest[m].attempt \in Started
    /\ manifest[m].attempt = "completed" => sends[m] = 1
    /\ request[m] = "connecting" => sends[m] = 0
    /\ request[m] = "sent" => sends[m] = 1

StrandedOK(m) ==
    manifest[m].attempt = "running" =>
        \/ Current(m)
        \/ \E x \in Manifest : /\ manifest[x].review = manifest[m].review
                               /\ manifest[x].proof # None

AttemptCalls ==
    /\ \A m \in Manifest : SendOK(m)
    /\ ~StorageFaults => RunningHasCaller

AttemptInv ==
    /\ \A r \in Review : AttemptOwned(r) /\ AttemptMatches(r) /\ ErasedIsStale(r)
    /\ \A m \in Manifest : ManifestOK(m) /\ StrandedOK(m)
    /\ AttemptCalls

(***************************************************************************)
(* What every step does to a manifest and to a review.                     *)
(***************************************************************************)

\* An attempt is prepared, starts as its review's current one, ends, or is
\* cancelled before it started.
AttemptMove(m) ==
    LET a == manifest[m].attempt
        b == manifest'[m].attempt
    IN  \/ b = a
        \/ a = "prepared" /\ b = "cancelled"
        \/ a = "running" /\ b \in AttemptOutcome
        \/ a = "none" /\ b = "prepared" /\ manifest'[m].proof = None
        \/ /\ a = "prepared" /\ b = "running" /\ manifest'[m].proof = None
           /\ manifest'[m].status = "sent" /\ Current(m)'

ManifestMove(m) ==
    \/ /\ manifest[m].status = "absent"
       /\ manifest'[m].attempt = "none" /\ manifest'[m].proof = None
       /\ manifest'[m].status = "absent" =>
             manifest'[m].selected = {} /\ manifest'[m].review = None
       /\ \A i \in manifest'[m].selected : memory'[i] # "forgotten"
    \/ /\ manifest[m].status # "absent" /\ manifest'[m].status # "absent"
       /\ manifest'[m].review = manifest[m].review
       /\ manifest'[m].selected = manifest[m].selected
       /\ manifest[m].attempt \in Started => manifest'[m].status \in {"sent", "stale"}
       /\ AttemptMove(m)
       /\ \/ manifest'[m].proof = manifest[m].proof
          \/ manifest'[m].proof # None /\ manifest'[m].attempt \notin {"prepared", "running"}

Steady(r) == IsOpen(r) /\ review[r].status # "stale"
OwnsErased(r) ==
    \E x \in Manifest : manifest[x].review = r /\ manifest'[x].proof # None

\* A review stays, is given up, is on the way to an attempt, begins or ends one.
ReviewMove(r) ==
    LET rv == review[r]
        nx == review'[r]
    IN  \/ /\ nx.status = rv.status
           /\ nx.manifest = rv.manifest /\ nx.lastAttempt = rv.lastAttempt
           /\ ~Out(rv.status) =>
                 manifest'[rv.lastAttempt].attempt = manifest[rv.lastAttempt].attempt
        \/ /\ nx.status \in Terminal \cup {"stale"}
           /\ nx.lastAttempt = rv.lastAttempt
           /\ nx.status \in {"disposed", "committed"} => rv.status \in Committable
           /\ Running(r) => \/ manifest'[rv.lastAttempt].attempt # "running"
                            \/ OwnsErased(r)
        \/ /\ nx.status \in {"draft", "manifest_prepared", "manifest_confirmed"}
           /\ ~Running(r) /\ nx.lastAttempt \in {rv.lastAttempt, None}
           /\ \/ nx.manifest = None /\ nx.status = "draft" /\ rv.status = "absent"
              \/ /\ manifest[nx.manifest].status = "absent" /\ nx.status # "draft"
                 /\ ~nx.draft.live
              \/ nx.manifest = rv.manifest /\ Steady(r) /\ nx.status # "draft"
        \/ /\ nx.status \in {"provider_attempt_prepared", "provider_attempt_running"}
           /\ Steady(r) /\ ~Running(r)
           /\ rv.manifest \in Manifest /\ manifest[rv.manifest].attempt \notin Started
           /\ nx.manifest = rv.manifest /\ nx.lastAttempt = rv.manifest
           /\ manifest'[rv.manifest].attempt = LastAttemptStatus[nx.status]
        \/ /\ nx.status \in {StatusAfter(o) : o \in AttemptOutcome}
           /\ Running(r)
           /\ nx.manifest = rv.manifest /\ nx.lastAttempt = rv.lastAttempt
           /\ manifest'[rv.lastAttempt].attempt = LastAttemptStatus[nx.status]

Moves ==
    /\ \A m \in Manifest : ManifestMove(m)
    /\ \A r \in Review : ReviewMove(r)
    /\ \A r \in Review, m \in Manifest :
          manifest'[m].proof # manifest[m].proof /\ review'[r].manifest = m
            => review'[r].status \in Terminal \cup {"stale", "absent"}
    /\ \A m \in Manifest : \A i \in manifest[m].selected :
          memory'[i] = "forgotten" /\ memory[i] # "forgotten" => manifest'[m].proof # None

\* What happens to the calls.
CallMoves ==
    \A m \in Manifest :
        /\ sends'[m] = sends[m] /\ request'[m] \in {request[m], "idle"}
        /\ manifest'[m].attempt = "completed" =>
              manifest[m].attempt = "completed" \/ sends[m] = 1

(***************************************************************************)
(* The moves keep the invariant.                                           *)
(***************************************************************************)

LEMMA StatusNames ==
  /\ DOMAIN LastAttemptStatus =
        {"provider_attempt_prepared", "provider_attempt_running",
         "provider_attempt_uncertain", "provider_attempt_failed", "assessment_recorded"}
  /\ LastAttemptStatus["provider_attempt_prepared"] = "prepared"
  /\ LastAttemptStatus["provider_attempt_running"] = "running"
  /\ LastAttemptStatus["provider_attempt_uncertain"] = "uncertain"
  /\ LastAttemptStatus["provider_attempt_failed"] = "failed"
  /\ LastAttemptStatus["assessment_recorded"] = "completed"
  /\ {StatusAfter(o) : o \in AttemptOutcome} =
        {"provider_attempt_uncertain", "provider_attempt_failed", "assessment_recorded"}
  /\ \A o \in AttemptOutcome : LastAttemptStatus[StatusAfter(o)] = o
<1>1. /\ StatusAfter("completed") = "assessment_recorded"
      /\ StatusAfter("failed") = "provider_attempt_failed"
      /\ StatusAfter("uncertain") = "provider_attempt_uncertain"
  BY DEF StatusAfter
<1>2. {StatusAfter(o) : o \in AttemptOutcome} =
        {"provider_attempt_uncertain", "provider_attempt_failed", "assessment_recorded"}
  BY <1>1 DEF AttemptOutcome
<1>3. /\ DOMAIN LastAttemptStatus =
            {"provider_attempt_prepared", "provider_attempt_running",
             "provider_attempt_uncertain", "provider_attempt_failed", "assessment_recorded"}
      /\ LastAttemptStatus["provider_attempt_prepared"] = "prepared"
      /\ LastAttemptStatus["provider_attempt_running"] = "running"
      /\ LastAttemptStatus["provider_attempt_uncertain"] = "uncertain"
      /\ LastAttemptStatus["provider_attempt_failed"] = "failed"
      /\ LastAttemptStatus["assessment_recorded"] = "completed"
  BY DEF LastAttemptStatus
<1> QED
  BY <1>1, <1>2, <1>3 DEF AttemptOutcome

\* Ids are of their sets, or null.
LEMMA IdTypes ==
  ASSUME TypeOK
  PROVE  /\ \A r \in Review : /\ review[r] \in ReviewRecord
                              /\ review[r].manifest \in Manifest \cup {None}
                              /\ review[r].lastAttempt \in Manifest \cup {None}
         /\ \A m \in Manifest : /\ manifest[m] \in ManifestRecord
                                /\ manifest[m].attempt \in AttemptStatus
                                /\ manifest[m].review \in Review \cup {None}
  BY DEF TypeOK, ReviewRecord, ManifestRecord

LEMMA OwnedMoves ==
  ASSUME TypeOK, AuthorityInv, AttemptInv, Moves
  PROVE  \A r \in Review : AttemptOwned(r)'
<1> SUFFICES ASSUME NEW r \in Review, review'[r].lastAttempt # None
             PROVE  /\ manifest'[review'[r].lastAttempt].status # "absent"
                    /\ manifest'[review'[r].lastAttempt].review = r
  BY DEF AttemptOwned
<1>1. ASSUME NEW m \in Manifest, manifest[m].status # "absent", manifest[m].review = r
      PROVE  manifest'[m].status # "absent" /\ manifest'[m].review = r
  BY <1>1 DEF Moves, ManifestMove
<1>2. CASE review'[r].lastAttempt = review[r].lastAttempt
  <2>1. review[r].lastAttempt \in Manifest
    BY <1>2, IdTypes
  <2>2. AttemptOwned(r)
    BY DEF AttemptInv
  <2> QED
    BY <1>1, <1>2, <2>1, <2>2 DEF AttemptOwned
<1>3. CASE review'[r].lastAttempt = review[r].manifest /\ review[r].manifest \in Manifest
  <2>1. ManifestBound(r)
    BY DEF AuthorityInv
  <2>2. review[r].manifest # None
    BY <1>3
  <2> QED
    BY <1>1, <1>3, <2>1, <2>2 DEF ManifestBound
<1>4. ReviewMove(r)
  BY DEF Moves
<1> QED
  BY <1>2, <1>3, <1>4 DEF ReviewMove

LEMMA MatchesMoves ==
  ASSUME TypeOK, AttemptInv, Moves
  PROVE  \A r \in Review : AttemptMatches(r)'
<1> SUFFICES ASSUME NEW r \in Review, ~Out(review'[r].status)
             PROVE  /\ review'[r].lastAttempt # None
                    /\ review'[r].lastAttempt = review'[r].manifest
                    /\ manifest'[review'[r].lastAttempt].attempt
                          = LastAttemptStatus[review'[r].status]
  BY DEF AttemptMatches, Out
<1>1. AttemptMatches(r) /\ ReviewMove(r)
  BY DEF AttemptInv, Moves
<1>2. review'[r].status \notin Terminal \cup
          {"stale", "draft", "manifest_prepared", "manifest_confirmed"}
  BY StatusNames DEF Out, Terminal
<1>3. CASE /\ review'[r].status = review[r].status
           /\ review'[r].manifest = review[r].manifest
           /\ review'[r].lastAttempt = review[r].lastAttempt
           /\ ~Out(review[r].status) =>
                 manifest'[review[r].lastAttempt].attempt = manifest[review[r].lastAttempt].attempt
  BY <1>1, <1>3 DEF AttemptMatches
<1>4. CASE /\ review[r].manifest \in Manifest
           /\ review'[r].manifest = review[r].manifest
           /\ review'[r].lastAttempt = review[r].manifest
           /\ manifest'[review[r].manifest].attempt = LastAttemptStatus[review'[r].status]
  BY <1>4, NoneAssumption
<1>5. CASE /\ Running(r)
           /\ review'[r].manifest = review[r].manifest
           /\ review'[r].lastAttempt = review[r].lastAttempt
           /\ manifest'[review[r].lastAttempt].attempt = LastAttemptStatus[review'[r].status]
  <2>1. ~Out(review[r].status)
    BY <1>5, StatusNames DEF Running, Out
  <2> QED
    BY <1>1, <1>5, <2>1 DEF AttemptMatches
<1> QED
  BY <1>1, <1>2, <1>3, <1>4, <1>5 DEF ReviewMove

LEMMA ErasedMoves ==
  ASSUME TypeOK, TypeOK', AttemptInv, Moves
  PROVE  \A r \in Review : ErasedIsStale(r)'
<1> SUFFICES ASSUME NEW r \in Review, IsOpen(r)', review'[r].manifest # None,
                    manifest'[review'[r].manifest].proof # None, review'[r].status # "stale"
             PROVE  FALSE
  BY DEF ErasedIsStale
<1> DEFINE m == review'[r].manifest
<1>1. m \in Manifest
  BY DEF TypeOK, ReviewRecord
<1>2. review'[r].status \notin Terminal \cup {"stale", "absent"}
  BY DEF IsOpen, Exists
<1>3. manifest'[m].proof = manifest[m].proof
  BY <1>1, <1>2 DEF Moves
<1>4. manifest[m].status # "absent"
  BY <1>1 DEF Moves, ManifestMove
<1>5. ErasedIsStale(r) /\ ReviewMove(r)
  BY DEF AttemptInv, Moves
<1>6. ASSUME review[r].manifest = m, review[r].status \notin Terminal \cup {"stale", "absent"}
      PROVE  FALSE
  BY <1>1, <1>3, <1>5, <1>6 DEF ErasedIsStale, IsOpen, Exists
<1>7. Running(r) => review[r].status \notin Terminal \cup {"stale", "absent"}
  BY DEF Running, Terminal
<1>8. Steady(r) => review[r].status \notin Terminal \cup {"stale", "absent"}
  BY DEF Steady, IsOpen, Exists
<1> HIDE DEF m
<1> QED
  BY <1>1, <1>2, <1>4, <1>5, <1>6, <1>7, <1>8 DEF ReviewMove, m

LEMMA ManifestMoves ==
  ASSUME TypeOK, AttemptInv, Moves
  PROVE  \A m \in Manifest : ManifestOK(m)'
<1> SUFFICES ASSUME NEW m \in Manifest PROVE ManifestOK(m)'
  OBVIOUS
<1>1. ManifestOK(m) /\ ManifestMove(m)
  BY DEF AttemptInv, Moves
<1>2. CASE /\ manifest'[m].attempt = "none" /\ manifest'[m].proof = None
           /\ manifest'[m].status = "absent" =>
                 manifest'[m].selected = {} /\ manifest'[m].review = None
           /\ \A i \in manifest'[m].selected : memory'[i] # "forgotten"
  BY <1>2 DEF ManifestOK, Started
<1>3. CASE /\ manifest[m].status # "absent" /\ manifest'[m].status # "absent"
           /\ manifest'[m].selected = manifest[m].selected
           /\ manifest[m].attempt \in Started => manifest'[m].status \in {"sent", "stale"}
           /\ AttemptMove(m)
           /\ \/ manifest'[m].proof = manifest[m].proof
              \/ /\ manifest'[m].proof # None
                 /\ manifest'[m].attempt \notin {"prepared", "running"}
  <2>1. manifest'[m].attempt \in Started => manifest'[m].status \in {"sent", "stale"}
    BY <1>3 DEF AttemptMove, Started, AttemptOutcome
  <2>2. manifest'[m].proof # None => manifest'[m].attempt \notin {"prepared", "running"}
    BY <1>1, <1>3 DEF ManifestOK, AttemptMove, AttemptOutcome
  <2>3. \A i \in manifest'[m].selected :
            memory'[i] = "forgotten" => manifest'[m].proof # None
    BY <1>1, <1>3 DEF ManifestOK, Moves
  <2> QED
    BY <1>3, <2>1, <2>2, <2>3 DEF ManifestOK
<1> QED
  BY <1>1, <1>2, <1>3 DEF ManifestMove

LEMMA SendMoves ==
  ASSUME TypeOK, AttemptInv, Moves, CallMoves
  PROVE  \A m \in Manifest : SendOK(m)'
<1> SUFFICES ASSUME NEW m \in Manifest PROVE SendOK(m)'
  OBVIOUS
<1>1. SendOK(m) /\ ManifestOK(m) /\ ManifestMove(m)
  BY DEF AttemptInv, AttemptCalls, Moves
<1>2. /\ sends'[m] = sends[m] /\ request'[m] \in {request[m], "idle"}
      /\ manifest'[m].attempt = "completed" =>
            manifest[m].attempt = "completed" \/ sends[m] = 1
  BY DEF CallMoves
<1>3. sends[m] = 1 => manifest'[m].attempt \in Started
  <2> SUFFICES ASSUME sends[m] = 1 PROVE manifest'[m].attempt \in Started
    OBVIOUS
  <2>1. manifest[m].attempt \in Started
    BY <1>1 DEF SendOK
  <2>2. manifest[m].status # "absent"
    BY <1>1, <2>1 DEF ManifestOK, Started
  <2> QED
    BY <1>1, <2>1, <2>2 DEF ManifestMove, AttemptMove, Started, AttemptOutcome
<1> QED
  BY <1>1, <1>2, <1>3 DEF SendOK

LEMMA StrandedMoves ==
  ASSUME TypeOK, TypeOK', AttemptInv, Moves
  PROVE  \A m \in Manifest : StrandedOK(m)'
<1> SUFFICES ASSUME NEW m \in Manifest, manifest'[m].attempt = "running", ~Current(m)'
             PROVE  \E x \in Manifest : /\ manifest'[x].review = manifest'[m].review
                                        /\ manifest'[x].proof # None
  BY DEF StrandedOK
<1>1. StrandedOK(m) /\ ManifestMove(m)
  BY DEF AttemptInv, Moves
<1>2. /\ manifest[m].status # "absent" /\ manifest'[m].review = manifest[m].review
      /\ manifest[m].attempt = "running"
  BY <1>1 DEF ManifestMove, AttemptMove, AttemptOutcome
<1>3. ASSUME NEW x \in Manifest, manifest[x].review = manifest[m].review,
             manifest'[x].proof # None
      PROVE  manifest'[x].review = manifest'[m].review
  <2>1. ManifestMove(x)
    BY DEF Moves
  <2> QED
    BY <1>2, <1>3, <2>1 DEF ManifestMove
<1>4. CASE \E x \in Manifest : manifest[x].review = manifest[m].review /\ manifest[x].proof # None
  <2>1. PICK x \in Manifest : manifest[x].review = manifest[m].review /\ manifest[x].proof # None
    BY <1>4
  <2>2. ManifestOK(x) /\ ManifestMove(x)
    BY DEF AttemptInv, Moves
  <2>3. manifest'[x].proof # None
    BY <2>1, <2>2 DEF ManifestOK, ManifestMove
  <2> QED
    BY <1>3, <2>1, <2>3
<1>5. CASE Current(m)
  <2>1. PICK r \in Review : /\ manifest[m].review = r /\ Running(r)
                            /\ review[r].lastAttempt = m
    BY <1>5 DEF Current
  <2>2. ~Running(r)' \/ review'[r].lastAttempt # m
    BY <1>2, <2>1 DEF Current
  <2>3. ReviewMove(r)
    BY DEF Moves
  <2>4. OwnsErased(r)
    BY <2>1, <2>2, <2>3, StatusNames DEF ReviewMove, Running
  <2> QED
    BY <1>3, <2>1, <2>4 DEF OwnsErased
<1> QED
  BY <1>1, <1>2, <1>4, <1>5 DEF StrandedOK

LEMMA CallerMoves ==
  ASSUME TypeOK, AttemptInv, Moves, ~StorageFaults, open' => open,
         \A m \in Manifest : \/ request'[m] = request[m] \/ request'[m] # "idle"
                             \/ ~Current(m)',
         \A m \in Manifest : manifest[m].attempt = "prepared" /\ request'[m] = "idle" =>
             manifest'[m].attempt # "running"
  PROVE  RunningHasCaller'
<1> SUFFICES ASSUME open', NEW m \in Manifest, Current(m)', request'[m] = "idle"
             PROVE  FALSE
  BY DEF RunningHasCaller
<1>1. PICK r \in Review : /\ manifest'[m].review = r /\ Running(r)'
                          /\ manifest'[m].attempt = "running" /\ review'[r].lastAttempt = m
  BY DEF Current
<1>2. ManifestMove(m) /\ ReviewMove(r)
  BY DEF Moves
<1>3. manifest[m].attempt = "running" /\ manifest[m].review = r
  BY <1>1, <1>2 DEF ManifestMove, AttemptMove, AttemptOutcome
<1>4. Running(r) /\ review[r].lastAttempt = m
  <2>1. review'[r].status = "provider_attempt_running"
    BY <1>1 DEF Running
  <2>2. ~(review[r].manifest = m /\ manifest[m].attempt \notin Started)
    BY <1>3 DEF Started
  <2> QED
    BY <1>1, <1>2, <2>1, <2>2, StatusNames DEF ReviewMove, Running, Terminal
<1> QED
  <2>1. request[m] = "idle"
    BY <1>1
  <2> QED
    BY <1>1, <1>3, <1>4, <2>1 DEF Current, RunningHasCaller, AttemptInv, AttemptCalls

(***************************************************************************)
(* Every action moves that way.  First what the helpers change.            *)
(***************************************************************************)

\* No attempt starts and no assessment appears.
NoneAdvances ==
    \A m \in Manifest : manifest'[m].attempt \in {"running", "completed"} =>
                            manifest[m].attempt = manifest'[m].attempt

\* A manifest whose status moves forward and whose attempt makes a legal move.
LEMMA RestatedMove ==
  ASSUME NEW m \in Manifest, ManifestOK(m), AttemptMove(m),
         manifest'[m].review = manifest[m].review,
         manifest'[m].selected = manifest[m].selected,
         manifest'[m].proof = manifest[m].proof,
         \/ manifest'[m].status = manifest[m].status
         \/ manifest[m].status # "absent" /\ manifest'[m].status = "stale"
         \/ /\ manifest[m].status \in {"prepared", "confirmed"}
            /\ manifest'[m].status \in {"confirmed", "sent", "cancelled"},
         manifest[m].status = "absent" => manifest'[m].attempt = manifest[m].attempt
  PROVE  ManifestMove(m)
<1>1. CASE manifest[m].status = "absent"
  BY <1>1 DEF ManifestOK, ManifestMove
<1>2. CASE manifest[m].status # "absent"
  <2>1. manifest'[m].status # "absent"
    BY <1>2
  <2>2. manifest[m].attempt \in Started => manifest'[m].status \in {"sent", "stale"}
    BY <1>2 DEF ManifestOK
  <2> QED
    BY <1>2, <2>1, <2>2 DEF ManifestMove
<1> QED
  BY <1>1, <1>2

LEMMA SameManifestMove ==
  ASSUME NEW m \in Manifest, ManifestOK(m), manifest'[m] = manifest[m]
  PROVE  ManifestMove(m)
  BY RestatedMove DEF AttemptMove

\* A review none of whose attempts changed stays.
LEMMA OtherStays ==
  ASSUME TypeOK, AttemptInv, NEW x \in Review, review'[x] = review[x],
         \A m \in Manifest : manifest'[m].attempt = manifest[m].attempt
                             \/ manifest[m].review # x
  PROVE  ReviewMove(x)
<1>1. AttemptOwned(x) /\ AttemptMatches(x)
  BY DEF AttemptInv
<1>2. ASSUME ~Out(review[x].status)
      PROVE  manifest'[review[x].lastAttempt].attempt = manifest[review[x].lastAttempt].attempt
  <2>1. review[x].lastAttempt \in Manifest /\ review[x].lastAttempt # None
    BY <1>1, <1>2, IdTypes DEF AttemptMatches
  <2> QED
    BY <1>1, <2>1 DEF AttemptOwned
<1> QED
  BY <1>2 DEF ReviewMove

LEMMA OneReviewMoves ==
  ASSUME TypeOK, AttemptInv, NEW r \in Review, ReviewMove(r), memory' = memory,
         \A x \in Review \ {r} : review'[x] = review[x],
         \A m \in Manifest : /\ ManifestMove(m)
                             /\ manifest'[m].proof = manifest[m].proof
                             /\ manifest'[m].attempt = manifest[m].attempt
                                \/ manifest[m].review = r
  PROVE  Moves
<1>1. \A x \in Review : ReviewMove(x)
  BY OtherStays
<1> QED
  BY <1>1 DEF Moves

LEMMA SettledMoves ==
  ASSUME TypeOK, AttemptInv, UNCHANGED <<review, manifest, memory>>
  PROVE  Moves /\ NoneAdvances
<1>1. \A r \in Review : ReviewMove(r)
  BY OtherStays
<1>2. \A m \in Manifest : ManifestMove(m)
  BY SameManifestMove DEF AttemptInv
<1> QED
  BY <1>1, <1>2 DEF Moves, NoneAdvances

\* stale() cancels the attempts that are prepared and not started, each of the
\* review that is staled.
LEMMA CancelledAttempt ==
  ASSUME TypeOK, AttemptInv, NEW S \in SUBSET Review, NEW x \in Manifest
  PROVE  /\ AttemptsCancelled(S)[x] \in ManifestRecord
         /\ AttemptsCancelled(S)[x].status = manifest[x].status
         /\ AttemptsCancelled(S)[x].review = manifest[x].review
         /\ AttemptsCancelled(S)[x].selected = manifest[x].selected
         /\ AttemptsCancelled(S)[x].proof = manifest[x].proof
         /\ \/ AttemptsCancelled(S)[x].attempt = manifest[x].attempt
            \/ /\ AttemptsCancelled(S)[x].attempt = "cancelled"
               /\ manifest[x].attempt = "prepared"
               /\ manifest[x].status # "absent"
               /\ manifest[x].review \in S
<1>1. manifest[x] \in ManifestRecord
  BY DEF TypeOK
<1>2. CASE \E r \in S : review[r].status = "provider_attempt_prepared"
                        /\ review[r].lastAttempt = x
  <2>1. PICK r \in S : review[r].status = "provider_attempt_prepared"
                       /\ review[r].lastAttempt = x
    BY <1>2
  <2>2. AttemptOwned(r) /\ AttemptMatches(r)
    BY DEF AttemptInv
  <2>3. /\ manifest[x].attempt = "prepared" /\ manifest[x].review = r
        /\ manifest[x].status # "absent"
    BY <2>1, <2>2, StatusNames DEF AttemptMatches, AttemptOwned, Out
  <2>4. AttemptsCancelled(S)[x] = [manifest[x] EXCEPT !.attempt = "cancelled"]
    BY <1>2 DEF AttemptsCancelled
  <2>5. "cancelled" \in AttemptStatus
    BY DEF AttemptStatus
  <2> QED
    BY <1>1, <2>3, <2>4, <2>5 DEF ManifestRecord
<1>3. CASE ~\E r \in S : review[r].status = "provider_attempt_prepared"
                         /\ review[r].lastAttempt = x
  BY <1>1, <1>3 DEF AttemptsCancelled
<1> QED
  BY <1>2, <1>3

\* A manifest after stale() ran on its review, its status moved on or not.
LEMMA AfterStale ==
  ASSUME TypeOK, AttemptInv, NEW r \in Review, NEW x \in Manifest,
         manifest'[x].review = AttemptsCancelled({r})[x].review,
         manifest'[x].selected = AttemptsCancelled({r})[x].selected,
         manifest'[x].proof = AttemptsCancelled({r})[x].proof,
         manifest'[x].attempt = AttemptsCancelled({r})[x].attempt,
         \/ manifest'[x].status = manifest[x].status
         \/ manifest[x].status # "absent" /\ manifest'[x].status = "stale"
         \/ manifest[x].status \in {"prepared", "confirmed"} /\ manifest'[x].status = "cancelled"
  PROVE  /\ ManifestMove(x)
         /\ manifest'[x].proof = manifest[x].proof
         /\ manifest'[x].attempt = manifest[x].attempt \/ manifest[x].review = r
         /\ manifest'[x].attempt \in {"running", "completed"} =>
                   manifest[x].attempt = manifest'[x].attempt
<1> DEFINE c == AttemptsCancelled({r})[x]
<1>1. /\ c.review = manifest[x].review /\ c.selected = manifest[x].selected
      /\ c.proof = manifest[x].proof
      /\ \/ c.attempt = manifest[x].attempt
         \/ /\ c.attempt = "cancelled" /\ manifest[x].attempt = "prepared"
            /\ manifest[x].status # "absent" /\ manifest[x].review = r
  BY CancelledAttempt
<1>2. manifest'[x].review = c.review /\ manifest'[x].selected = c.selected
      /\ manifest'[x].proof = c.proof /\ manifest'[x].attempt = c.attempt
  OBVIOUS
<1> HIDE DEF c
<1>3. AttemptMove(x)
  BY <1>1, <1>2 DEF AttemptMove
<1>4. ManifestOK(x)
  BY DEF AttemptInv
<1> QED
  BY <1>1, <1>2, <1>3, <1>4, RestatedMove

\* A review that is given up.
LEMMA StaledMove ==
  ASSUME TypeOK, NEW r \in Review, review'[r] = Staled(review[r]),
         Running(r) => \/ manifest'[review[r].lastAttempt].attempt # "running"
                       \/ OwnsErased(r)
  PROVE  ReviewMove(r)
<1>1. review[r] \in ReviewRecord
  BY DEF TypeOK
<1>2. /\ Staled(review[r]).status = "stale"
      /\ Staled(review[r]).lastAttempt = review[r].lastAttempt
  BY <1>1, StaledFields
<1> QED
  BY <1>2 DEF ReviewMove

LEMMA RefuseStaleMoves ==
  ASSUME TypeOK, AttemptInv, NEW r \in Review, RefuseStale(r), ~Running(r),
         manifest[review[r].manifest].status # "absent", memory' = memory
  PROVE  Moves /\ NoneAdvances
<1> DEFINE m == review[r].manifest
<1>1. review' = [review EXCEPT ![r] = Staled(review[r])]
  BY DEF RefuseStale
<1>2. review'[r] = Staled(review[r]) /\ \A x \in Review \ {r} : review'[x] = review[x]
  BY <1>1 DEF TypeOK
<1>3. ReviewMove(r)
  BY <1>2, StaledMove
<1>4. ASSUME NEW x \in Manifest
      PROVE  /\ ManifestMove(x)
             /\ manifest'[x].proof = manifest[x].proof
             /\ manifest'[x].attempt = manifest[x].attempt \/ manifest[x].review = r
             /\ manifest'[x].attempt \in {"running", "completed"} =>
                   manifest[x].attempt = manifest'[x].attempt
  <2> DEFINE c == AttemptsCancelled({r})[x]
  <2>1. c \in ManifestRecord /\ c.status = manifest[x].status
    BY CancelledAttempt
  <2>2. manifest'[x] = IF x = m THEN [c EXCEPT !.status = "stale"] ELSE c
    BY AttemptsCancelledType DEF RefuseStale
  <2>3. /\ manifest'[x].review = c.review /\ manifest'[x].selected = c.selected
        /\ manifest'[x].proof = c.proof /\ manifest'[x].attempt = c.attempt
        /\ manifest'[x].status = IF x = m THEN "stale" ELSE manifest[x].status
    <3> HIDE DEF c
    <3> QED
      BY <2>1, <2>2 DEF ManifestRecord
  <2> QED
    BY <2>3, AfterStale
<1> QED
  BY <1>2, <1>3, <1>4, OneReviewMoves DEF NoneAdvances

LEMMA CommitRefusedMoves ==
  ASSUME TypeOK, AttemptInv, NEW r \in Review, CommitRefused(r)
  PROVE  Moves /\ NoneAdvances
<1>1. review'[r] = Staled(review[r]) /\ \A x \in Review \ {r} : review'[x] = review[x]
  BY DEF CommitRefused, TypeOK
<1>2. ReviewMove(r)
  BY <1>1, StaledMove DEF CommitRefused, Replaceable
<1>3. ASSUME NEW x \in Manifest
      PROVE  /\ ManifestMove(x)
             /\ manifest'[x].proof = manifest[x].proof
             /\ manifest'[x].attempt = manifest[x].attempt \/ manifest[x].review = r
             /\ manifest'[x].attempt \in {"running", "completed"} =>
                   manifest[x].attempt = manifest'[x].attempt
  BY AfterStale, CancelledAttempt DEF CommitRefused
<1> QED
  BY <1>1, <1>2, <1>3, OneReviewMoves DEF NoneAdvances, CommitRefused

LEMMA CancelMoves ==
  ASSUME TypeOK, AttemptInv, NEW r \in Review, Cancel(r)
  PROVE  Moves /\ NoneAdvances
<1> DEFINE sv   == Saved(review[r], "cancelled")
           rv   == [sv EXCEPT !.draft = NoDraft]
           ends == review[r].manifest # None
                     /\ manifest[review[r].manifest].status \in {"prepared", "confirmed"}
<1>1. sv \in ReviewRecord /\ sv.status = "cancelled" /\ sv.lastAttempt = review[r].lastAttempt
  BY SavedType, SavedFields DEF ReviewStatus, TypeOK
<1>2. rv.status = "cancelled" /\ rv.lastAttempt = review[r].lastAttempt
  <2> HIDE DEF sv
  <2> QED
    BY <1>1 DEF ReviewRecord
<1>3. review'[r] = rv /\ \A x \in Review \ {r} : review'[x] = review[x]
  BY DEF Cancel, TypeOK
<1>4. ReviewMove(r)
  <2> HIDE DEF rv
  <2> QED
    BY <1>2, <1>3 DEF ReviewMove, Terminal, Cancel, Replaceable
<1>5. ASSUME NEW x \in Manifest
      PROVE  /\ ManifestMove(x)
             /\ manifest'[x].proof = manifest[x].proof
             /\ manifest'[x].attempt = manifest[x].attempt \/ manifest[x].review = r
             /\ manifest'[x].attempt \in {"running", "completed"} =>
                   manifest[x].attempt = manifest'[x].attempt
  <2> DEFINE c == AttemptsCancelled({r})[x]
  <2>1. c \in ManifestRecord /\ c.status = manifest[x].status
    BY CancelledAttempt
  <2>2. manifest'[x] = IF ends /\ x = review[r].manifest
                       THEN [c EXCEPT !.status = "cancelled"] ELSE c
    BY DEF Cancel
  <2>3. /\ manifest'[x].review = c.review /\ manifest'[x].selected = c.selected
        /\ manifest'[x].proof = c.proof /\ manifest'[x].attempt = c.attempt
        /\ manifest'[x].status = IF ends /\ x = review[r].manifest
                                 THEN "cancelled" ELSE manifest[x].status
    <3> HIDE DEF c, ends
    <3> QED
      BY <2>1, <2>2 DEF ManifestRecord
  <2> QED
    BY <2>3, AfterStale
<1> QED
  BY <1>3, <1>4, <1>5, OneReviewMoves DEF NoneAdvances, Cancel

(***************************************************************************)
(* The actions on one review.                                              *)
(***************************************************************************)

LEMMA ReviewOnlyMoves ==
  ASSUME TypeOK, AttemptInv, NEW r \in Review, NEW rv,
         review' = [review EXCEPT ![r] = rv], UNCHANGED <<manifest, memory>>,
         review'[r] = rv => ReviewMove(r)
  PROVE  Moves /\ NoneAdvances
<1>1. review'[r] = rv /\ \A x \in Review \ {r} : review'[x] = review[x]
  BY DEF TypeOK
<1>2. \A m \in Manifest : ManifestMove(m)
  BY SameManifestMove DEF AttemptInv
<1> QED
  BY <1>1, <1>2, OneReviewMoves DEF NoneAdvances

LEMMA CreateDraftMoves ==
  ASSUME TypeOK, AttemptInv, NEW r \in Review, CreateDraft(r)
  PROVE  Moves /\ NoneAdvances
<1> DEFINE rv == [NoReview EXCEPT !.status = "draft", !.base = Revision, !.version = 1]
<1>1. rv.status = "draft" /\ rv.manifest = None /\ rv.lastAttempt = None
  BY DEF NoReview
<1>2. review' = [review EXCEPT ![r] = rv]
  BY DEF CreateDraft
<1>3. ASSUME review'[r] = rv PROVE ReviewMove(r)
  <2>1. ~Running(r) /\ review[r].status = "absent"
    BY DEF CreateDraft, Exists, Running
  <2> HIDE DEF rv
  <2> QED
    BY <1>1, <1>3, <2>1 DEF ReviewMove
<1> HIDE DEF rv
<1> QED
  BY <1>2, <1>3, ReviewOnlyMoves DEF CreateDraft

LEMMA EditMoves ==
  ASSUME TypeOK, AttemptInv, NEW r \in Review, Edit(r)
  PROVE  Moves /\ NoneAdvances
<1> DEFINE sv == Saved(review[r], "draft")
           rv == [sv EXCEPT !.draft = NoDraft]
<1>1. /\ sv \in ReviewRecord /\ sv.status = "draft"
      /\ sv.manifest = review[r].manifest /\ sv.lastAttempt = review[r].lastAttempt
  BY SavedType, SavedFields DEF ReviewStatus, TypeOK
<1>2. /\ rv.status = "draft" /\ rv.manifest = review[r].manifest
      /\ rv.lastAttempt = review[r].lastAttempt
  <2> HIDE DEF sv
  <2> QED
    BY <1>1 DEF ReviewRecord
<1>3. review' = [review EXCEPT ![r] = rv]
  BY DEF Edit
<1>4. ASSUME review'[r] = rv PROVE ReviewMove(r)
  <2>1. review[r].status = "draft" /\ manifest' = manifest
    BY DEF Edit
  <2> HIDE DEF rv
  <2> QED
    BY <1>2, <1>4, <2>1 DEF ReviewMove
<1> HIDE DEF rv
<1> QED
  BY <1>3, <1>4, ReviewOnlyMoves DEF Edit

LEMMA PrepareEffectMoves ==
  ASSUME TypeOK, AttemptInv, NEW r \in Review, NEW c \in Command, NEW k \in EffectKind,
         PrepareEffect(r, c, k)
  PROVE  Moves /\ NoneAdvances
<1>1. PICK d : review' = [review EXCEPT ![r] =
                    [Saved(review[r], review[r].status) EXCEPT !.draft = d]]
  BY DEF PrepareEffect
<1> DEFINE sv == Saved(review[r], review[r].status)
           rv == [sv EXCEPT !.draft = d]
<1>2. /\ sv \in ReviewRecord /\ sv.status = review[r].status
      /\ sv.manifest = review[r].manifest /\ sv.lastAttempt = review[r].lastAttempt
  BY SavedType, SavedFields DEF TypeOK, ReviewRecord
<1>3. /\ rv.status = review[r].status /\ rv.manifest = review[r].manifest
      /\ rv.lastAttempt = review[r].lastAttempt
  <2> HIDE DEF sv
  <2> QED
    BY <1>2 DEF ReviewRecord
<1>4. manifest' = manifest /\ memory' = memory
  BY DEF PrepareEffect
<1>5. ASSUME review'[r] = rv PROVE ReviewMove(r)
  <2> HIDE DEF rv
  <2> QED
    BY <1>3, <1>4, <1>5 DEF ReviewMove
<1>6. review' = [review EXCEPT ![r] = rv]
  BY <1>1
<1> HIDE DEF rv
<1> QED
  BY <1>4, <1>5, <1>6, ReviewOnlyMoves

LEMMA CommitPlainMoves ==
  ASSUME TypeOK, AttemptInv, NEW r \in Review, NEW st \in {"disposed", "committed"},
         review[r].status \in Committable,
         review' = [review EXCEPT ![r] = Saved(@, st)], UNCHANGED <<manifest, memory>>
  PROVE  Moves /\ NoneAdvances
<1>1. /\ Saved(review[r], st).status = st
      /\ Saved(review[r], st).lastAttempt = review[r].lastAttempt
  BY SavedFields DEF TypeOK
<1>2. ~Running(r)
  BY DEF Running, Committable
<1>3. ASSUME review'[r] = Saved(review[r], st) PROVE ReviewMove(r)
  BY <1>1, <1>2, <1>3 DEF ReviewMove, Terminal
<1> QED
  BY <1>3, ReviewOnlyMoves

LEMMA ConfirmManifestMoves ==
  ASSUME TypeOK, AuthorityInv, AttemptInv, NEW r \in Review, ConfirmManifest(r)
  PROVE  Moves /\ NoneAdvances
<1> DEFINE m == review[r].manifest
<1>1. /\ review[r].status = "manifest_prepared" /\ manifest[m].status = "prepared"
      /\ memory' = memory /\ ~Running(r) /\ Steady(r)
  BY DEF ConfirmManifest, Running, Steady, IsOpen, Exists, Terminal
<1>2. CASE Fresh(m)
  <2>1. /\ review' = [review EXCEPT ![r] = Saved(review[r], "manifest_confirmed")]
        /\ manifest' = [manifest EXCEPT ![m].status = "confirmed"]
    BY <1>2 DEF ConfirmManifest
  <2>2. /\ review'[r] = Saved(review[r], "manifest_confirmed")
        /\ \A x \in Review \ {r} : review'[x] = review[x]
    BY <2>1 DEF TypeOK
  <2>3. /\ review'[r].status = "manifest_confirmed" /\ review'[r].manifest = m
        /\ review'[r].lastAttempt = review[r].lastAttempt
    BY <2>2, SavedFields DEF TypeOK
  <2>4. ReviewMove(r)
    BY <1>1, <2>3 DEF ReviewMove
  <2>5. ASSUME NEW x \in Manifest
        PROVE  /\ ManifestMove(x) /\ manifest'[x].proof = manifest[x].proof
               /\ manifest'[x].attempt = manifest[x].attempt
    <3>1. manifest[x] \in ManifestRecord
      BY DEF TypeOK
    <3>2. manifest'[x] = IF x = m THEN [manifest[x] EXCEPT !.status = "confirmed"]
                                  ELSE manifest[x]
      BY <2>1 DEF TypeOK
    <3>3. /\ manifest'[x].status = IF x = m THEN "confirmed" ELSE manifest[x].status
          /\ manifest'[x].review = manifest[x].review
          /\ manifest'[x].selected = manifest[x].selected
          /\ manifest'[x].proof = manifest[x].proof
          /\ manifest'[x].attempt = manifest[x].attempt
      <4> HIDE DEF m
      <4> QED
        BY <3>1, <3>2 DEF ManifestRecord
    <3>4. ManifestOK(x)
      BY DEF AttemptInv
    <3> QED
      BY <1>1, <3>3, <3>4, RestatedMove DEF AttemptMove
  <2> QED
    BY <1>1, <2>2, <2>4, <2>5, OneReviewMoves DEF NoneAdvances
<1>3. CASE ~Fresh(m)
  BY <1>1, <1>3, RefuseStaleMoves DEF ConfirmManifest
<1> QED
  BY <1>2, <1>3

LEMMA PrepareAttemptMoves ==
  ASSUME TypeOK, AuthorityInv, AttemptInv, NEW r \in Review, PrepareAttempt(r)
  PROVE  Moves /\ NoneAdvances
<1> DEFINE m  == review[r].manifest
           sv == Saved(review[r], "provider_attempt_prepared")
           rv == [sv EXCEPT !.lastAttempt = m]
<1>1. /\ m \in Manifest /\ manifest[m].status = "confirmed" /\ manifest[m].attempt = "none"
      /\ review[r].status = "manifest_confirmed" /\ memory' = memory
  BY DEF PrepareAttempt, Sendable
<1>2. sv \in ReviewRecord /\ sv.status = "provider_attempt_prepared" /\ sv.manifest = m
  BY SavedType, SavedFields DEF ReviewStatus, TypeOK
<1>3. rv.status = "provider_attempt_prepared" /\ rv.manifest = m /\ rv.lastAttempt = m
  <2> HIDE DEF sv, m
  <2> QED
    BY <1>2 DEF ReviewRecord
<1>4. review'[r] = rv /\ \A x \in Review \ {r} : review'[x] = review[x]
  BY DEF PrepareAttempt, TypeOK
<1>5. Steady(r) /\ ~Running(r)
  BY <1>1 DEF Steady, IsOpen, Exists, Terminal, Running
<1>6. manifest[m].proof = None /\ manifest[m].review = r
  <2>1. ErasedIsStale(r) /\ ManifestBound(r)
    BY DEF AttemptInv, AuthorityInv
  <2>2. m # None
    BY <1>1, NoneAssumption
  <2> QED
    BY <1>5, <2>1, <2>2 DEF ErasedIsStale, ManifestBound, Steady
<1>7. ASSUME NEW x \in Manifest
      PROVE  /\ manifest'[x].attempt = IF x = m THEN "prepared" ELSE manifest[x].attempt
             /\ manifest'[x].status = manifest[x].status
             /\ manifest'[x].review = manifest[x].review
             /\ manifest'[x].selected = manifest[x].selected
             /\ manifest'[x].proof = manifest[x].proof
  <2>1. manifest[x] \in ManifestRecord
    BY DEF TypeOK
  <2>2. manifest'[x] = IF x = m THEN [manifest[x] EXCEPT !.attempt = "prepared"]
                                ELSE manifest[x]
    BY DEF PrepareAttempt, TypeOK
  <2> HIDE DEF m
  <2> QED
    BY <2>1, <2>2 DEF ManifestRecord
<1>8. ReviewMove(r)
  <2>1. manifest'[m].attempt = LastAttemptStatus["provider_attempt_prepared"]
    BY <1>1, <1>7, StatusNames
  <2> HIDE DEF rv
  <2> QED
    BY <1>1, <1>3, <1>4, <1>5, <2>1 DEF ReviewMove, Started
<1>9. \A x \in Manifest : ManifestMove(x)
  BY <1>1, <1>6, <1>7, RestatedMove DEF AttemptMove, AttemptInv
<1> QED
  BY <1>1, <1>4, <1>6, <1>7, <1>8, <1>9, OneReviewMoves DEF NoneAdvances

LEMMA StartAttemptMoves ==
  ASSUME TypeOK, AuthorityInv, AttemptInv, NEW r \in Review, StartAttempt(r)
  PROVE  /\ Moves
         /\ \A m \in Manifest : manifest'[m].attempt = "completed" =>
               manifest[m].attempt = "completed"
         /\ \A m \in Manifest : manifest'[m].attempt = "running" =>
               manifest[m].attempt = "running" \/ (Fresh(m) /\ m = review[r].manifest)
<1> DEFINE m == review[r].manifest
<1>1. /\ review[r].status = "provider_attempt_prepared" /\ memory' = memory
      /\ manifest[m].status = "confirmed"
      /\ ~Running(r) /\ Steady(r)
  BY DEF StartAttempt, Running, Steady, IsOpen, Exists, Terminal
<1>2. /\ m \in Manifest /\ review[r].lastAttempt = m /\ manifest[m].attempt = "prepared"
      /\ manifest[m].review = r /\ manifest[m].proof = None
  <2>1. AttemptMatches(r) /\ AttemptOwned(r) /\ ErasedIsStale(r)
    BY DEF AttemptInv
  <2>2. /\ review[r].lastAttempt # None /\ review[r].lastAttempt = m
        /\ manifest[m].attempt = "prepared"
    BY <1>1, <2>1, StatusNames DEF AttemptMatches, Out
  <2>3. m \in Manifest
    BY <2>2, IdTypes
  <2> QED
    BY <1>1, <2>1, <2>2, <2>3 DEF AttemptOwned, ErasedIsStale, Steady
<1>3. CASE Fresh(m)
  <2>1. /\ review' = [review EXCEPT ![r] = Saved(review[r], "provider_attempt_running")]
        /\ manifest' = [manifest EXCEPT ![m].attempt = "running", ![m].status = "sent"]
    BY <1>2, <1>3 DEF StartAttempt
  <2>2. /\ review'[r] = Saved(review[r], "provider_attempt_running")
        /\ \A x \in Review \ {r} : review'[x] = review[x]
    BY <2>1 DEF TypeOK
  <2>3. /\ review'[r].status = "provider_attempt_running" /\ review'[r].manifest = m
        /\ review'[r].lastAttempt = m
    BY <1>2, <2>2, SavedFields DEF TypeOK
  <2>4. ASSUME NEW x \in Manifest
        PROVE  /\ manifest'[x].status = IF x = m THEN "sent" ELSE manifest[x].status
               /\ manifest'[x].attempt = IF x = m THEN "running" ELSE manifest[x].attempt
               /\ manifest'[x].review = manifest[x].review
               /\ manifest'[x].selected = manifest[x].selected
               /\ manifest'[x].proof = manifest[x].proof
    <3>1. manifest[x] \in ManifestRecord
      BY DEF TypeOK
    <3>2. manifest'[x] = IF x = m
                         THEN [[manifest[x] EXCEPT !.attempt = "running"] EXCEPT !.status = "sent"]
                         ELSE manifest[x]
      BY <1>2, <2>1 DEF TypeOK
    <3> HIDE DEF m
    <3> QED
      BY <3>1, <3>2 DEF ManifestRecord
  <2>5. ReviewMove(r)
    <3>1. manifest'[m].attempt = LastAttemptStatus["provider_attempt_running"]
      BY <1>2, <2>4, StatusNames
    <3> QED
      BY <1>1, <1>2, <2>3, <3>1 DEF ReviewMove, Started
  <2>6. Current(m)'
    BY <1>2, <2>3, <2>4 DEF Current, Running
  <2>7. ASSUME NEW x \in Manifest PROVE ManifestMove(x)
    <3>1. CASE x = m
      <4>1. /\ manifest'[m].status = "sent" /\ manifest'[m].attempt = "running"
            /\ manifest'[m].proof = None
        BY <1>2, <2>4
      <4>2. AttemptMove(m)
        BY <1>2, <2>6, <4>1 DEF AttemptMove
      <4>3. ManifestOK(m)
        BY <1>2 DEF AttemptInv
      <4> QED
        BY <1>1, <1>2, <2>4, <3>1, <4>1, <4>2, <4>3, RestatedMove
    <3>2. CASE x # m
      <4>1. manifest'[x].attempt = manifest[x].attempt /\ ManifestOK(x)
        BY <2>4, <3>2 DEF AttemptInv
      <4>2. AttemptMove(x)
        BY <4>1 DEF AttemptMove
      <4> QED
        BY <2>4, <3>2, <4>1, <4>2, RestatedMove
    <3> QED
      BY <3>1, <3>2
  <2>8. Moves
    BY <1>1, <1>2, <2>2, <2>4, <2>5, <2>7, OneReviewMoves
  <2>9. ASSUME NEW x \in Manifest
        PROVE  /\ manifest'[x].attempt = "completed" => manifest[x].attempt = "completed"
               /\ manifest'[x].attempt = "running" => manifest[x].attempt = "running" \/ x = m
    BY <2>4
  <2> QED
    BY <1>3, <2>8, <2>9
<1>4. CASE ~Fresh(m)
  BY <1>1, <1>4, RefuseStaleMoves DEF StartAttempt, NoneAdvances
<1> QED
  BY <1>3, <1>4

LEMMA PrepareManifestMoves ==
  ASSUME TypeOK, AuthorityInv, AttemptInv, NEW r \in Review, NEW m \in Manifest,
         NEW p, NEW sel, PrepareManifest(r, m, p, sel)
  PROVE  Moves /\ NoneAdvances
<1> DEFINE old    == review[r].manifest
           stales == \/ review[r].status \notin {"draft", "stale", "manifest_prepared"}
                     \/ review[r].base # Revision
           saved  == IF stales THEN Staled(review[r]) ELSE review[r]
           kept   == IF stales THEN AttemptsCancelled({r}) ELSE manifest
           sv     == Saved(saved, "manifest_prepared")
           rv     == [sv EXCEPT !.manifest = m, !.base = Revision, !.draft.live = FALSE]
<1>1. /\ Replaceable(r) /\ manifest[m].status = "absent" /\ memory' = memory
      /\ \A i \in sel : memory[i] = "active"
  BY DEF PrepareManifest
<1>2. /\ saved \in ReviewRecord /\ saved.lastAttempt = review[r].lastAttempt
  BY StaledType, StaledFields DEF TypeOK
<1>3. /\ sv \in ReviewRecord /\ sv.status = "manifest_prepared"
      /\ sv.lastAttempt = review[r].lastAttempt
  <2> HIDE DEF saved
  <2> QED
    BY <1>2, SavedType, SavedFields DEF ReviewStatus
<1>4. /\ rv.status = "manifest_prepared" /\ rv.manifest = m
      /\ rv.lastAttempt = review[r].lastAttempt /\ ~rv.draft.live
  <2>1. sv.draft \in Draft
    BY <1>3 DEF ReviewRecord
  <2> HIDE DEF sv
  <2>2. rv.draft = [sv.draft EXCEPT !.live = FALSE]
    BY <1>3 DEF ReviewRecord
  <2>3. ~rv.draft.live
    BY <2>1, <2>2 DEF Draft
  <2>4. /\ rv.status = "manifest_prepared" /\ rv.manifest = m
        /\ rv.lastAttempt = review[r].lastAttempt
    BY <1>3 DEF ReviewRecord
  <2> QED
    BY <2>3, <2>4
<1>5. review'[r] = rv /\ \A x \in Review \ {r} : review'[x] = review[x]
  BY DEF PrepareManifest, TypeOK
<1>6. ReviewMove(r)
  <2> HIDE DEF rv
  <2> QED
    BY <1>1, <1>4, <1>5 DEF ReviewMove, Replaceable
<1>7. old = None \/ manifest[old].status # "absent"
  BY DEF AuthorityInv, ManifestBound
<1>8. manifest' = [x \in Manifest |->
                CASE x = m -> [NoManifest EXCEPT !.status = "prepared", !.review = r,
                                 !.base = Revision, !.provider = p, !.selected = sel]
                  [] x # m /\ x = old /\ kept[x].status \notin {"stale", "cancelled"}
                       -> [kept[x] EXCEPT !.status = "stale"]
                  [] OTHER -> kept[x]]
  BY DEF PrepareManifest
<1>9. /\ manifest[m].attempt = "none" /\ manifest[m].proof = None
  BY <1>1 DEF AttemptInv, ManifestOK
<1>10. /\ manifest'[m].attempt = "none" /\ manifest'[m].proof = None
       /\ manifest'[m].selected = sel /\ manifest'[m].status = "prepared"
  BY <1>8 DEF NoManifest
<1>11. ManifestMove(m)
  BY <1>1, <1>10 DEF ManifestMove
<1>12. ASSUME NEW x \in Manifest, x # m
       PROVE  /\ ManifestMove(x)
              /\ manifest'[x].proof = manifest[x].proof
              /\ manifest'[x].attempt = manifest[x].attempt \/ manifest[x].review = r
              /\ manifest'[x].attempt \in {"running", "completed"} =>
                   manifest[x].attempt = manifest'[x].attempt
  <2> DEFINE c == kept[x]
  <2>1. /\ c \in ManifestRecord /\ c.status = manifest[x].status
        /\ c.review = manifest[x].review /\ c.selected = manifest[x].selected
        /\ c.proof = manifest[x].proof
        /\ \/ c.attempt = manifest[x].attempt
           \/ /\ c.attempt = "cancelled" /\ manifest[x].attempt = "prepared"
              /\ manifest[x].status # "absent" /\ manifest[x].review = r
    <3>1. CASE stales
      <4>1. c = AttemptsCancelled({r})[x]
        BY <3>1
      <4> HIDE DEF kept, c
      <4> QED
        BY <4>1, CancelledAttempt
    <3>2. CASE ~stales
      BY <3>2 DEF TypeOK
    <3> QED
      BY <3>1, <3>2
  <2>2. manifest'[x] = c \/ (x = old /\ manifest'[x] = [c EXCEPT !.status = "stale"])
    <3> HIDE DEF kept
    <3> QED
      BY <1>8, <1>12
  <2>3. /\ manifest'[x].review = c.review /\ manifest'[x].selected = c.selected
        /\ manifest'[x].proof = c.proof /\ manifest'[x].attempt = c.attempt
        /\ \/ manifest'[x].status = c.status
           \/ x = old /\ manifest'[x].status = "stale"
    <3> HIDE DEF c, old
    <3> QED
      BY <2>1, <2>2 DEF ManifestRecord
  <2>4. AttemptMove(x)
    <3> HIDE DEF c
    <3> QED
      BY <2>1, <2>3 DEF AttemptMove
  <2>5. \/ manifest'[x].status = manifest[x].status
        \/ manifest[x].status # "absent" /\ manifest'[x].status = "stale"
    <3> HIDE DEF c
    <3> QED
      BY <1>7, <2>1, <2>3, NoneAssumption
  <2>6. ManifestOK(x)
    BY DEF AttemptInv
  <2> HIDE DEF c
  <2> QED
    BY <2>1, <2>3, <2>4, <2>5, <2>6, RestatedMove
<1> HIDE DEF rv
<1> QED
  BY <1>1, <1>5, <1>6, <1>9, <1>10, <1>11, <1>12, OneReviewMoves DEF NoneAdvances

\* What finishAttempt and cancelAttempt record of an attempt.
LEMMA RecordMoves ==
  ASSUME TypeOK, AttemptInv, NEW m \in Manifest, NEW outcome \in AttemptOutcome,
         Record(m, outcome), memory' = memory
  PROVE  /\ Moves
         /\ ~Current(m)'
         /\ \A x \in Manifest : manifest'[x].attempt = "completed" =>
               manifest[x].attempt = "completed" \/ (x = m /\ outcome = "completed")
         /\ \A x \in Manifest : manifest'[x].attempt = "running" =>
               manifest[x].attempt = "running"
<1>1. CASE Current(m)
  <2>1. PICK r \in Review : /\ manifest[m].review = r /\ Running(r)
                            /\ manifest[m].attempt = "running" /\ review[r].lastAttempt = m
    BY <1>1 DEF Current
  <2>2. /\ manifest' = [manifest EXCEPT ![m].attempt = outcome]
        /\ review' = [review EXCEPT ![r] = Saved(review[r], StatusAfter(outcome))]
    BY <1>1, <2>1 DEF Record
  <2>3. /\ review'[r] = Saved(review[r], StatusAfter(outcome))
        /\ \A x \in Review \ {r} : review'[x] = review[x]
    BY <2>2 DEF TypeOK
  <2>4. /\ review'[r].status = StatusAfter(outcome) /\ review'[r].manifest = review[r].manifest
        /\ review'[r].lastAttempt = m
    BY <2>1, <2>3, SavedFields DEF TypeOK
  <2>5. ASSUME NEW x \in Manifest
        PROVE  /\ manifest'[x].attempt = IF x = m THEN outcome ELSE manifest[x].attempt
               /\ manifest'[x].status = manifest[x].status
               /\ manifest'[x].review = manifest[x].review
               /\ manifest'[x].selected = manifest[x].selected
               /\ manifest'[x].proof = manifest[x].proof
    <3>1. manifest[x] \in ManifestRecord
      BY DEF TypeOK
    <3>2. manifest'[x] = IF x = m THEN [manifest[x] EXCEPT !.attempt = outcome]
                                  ELSE manifest[x]
      BY <2>2 DEF TypeOK
    <3> QED
      BY <3>1, <3>2 DEF ManifestRecord
  <2>6. ReviewMove(r)
    <3>1. manifest'[m].attempt = LastAttemptStatus[StatusAfter(outcome)]
      BY <2>5, StatusNames
    <3> QED
      BY <2>1, <2>4, <3>1 DEF ReviewMove
  <2>7. ASSUME NEW x \in Manifest PROVE ManifestMove(x)
    <3>1. AttemptMove(x)
      BY <2>1, <2>5 DEF AttemptMove
    <3>2. ManifestOK(x) /\ (x = m => manifest[x].status # "absent")
      BY <2>1 DEF AttemptInv, ManifestOK
    <3> QED
      BY <2>5, <3>1, <3>2, RestatedMove
  <2>8. ~Current(m)'
    BY <2>5 DEF Current, AttemptOutcome
  <2>9. \A x \in Manifest : manifest'[x].attempt = "running" => manifest[x].attempt = "running"
    BY <2>5 DEF AttemptOutcome
  <2> QED
    BY <2>1, <2>3, <2>5, <2>6, <2>7, <2>8, <2>9, OneReviewMoves
<1>2. CASE ~Current(m)
  <2>1. review' = review /\ manifest' = manifest
    BY <1>2 DEF Record
  <2>2. ~Current(m)'
    BY <1>2, <2>1 DEF Current, Running
  <2> QED
    BY <2>1, <2>2, SettledMoves DEF NoneAdvances
<1> QED
  BY <1>1, <1>2

(***************************************************************************)
(* The actions on many reviews.                                            *)
(***************************************************************************)

LEMMA InterruptedMoves ==
  ASSUME TypeOK, AttemptInv, NEW S \in SUBSET Manifest, \A m \in S : Current(m),
         Interrupted(S), memory' = memory
  PROVE  /\ Moves /\ NoneAdvances
         /\ \A m \in S : manifest'[m].attempt = "uncertain"
         /\ \A m \in Manifest \ S : manifest'[m].attempt = manifest[m].attempt
<1>1. ASSUME NEW x \in Manifest
      PROVE  /\ manifest'[x].attempt = IF x \in S THEN "uncertain" ELSE manifest[x].attempt
             /\ manifest'[x].status = manifest[x].status
             /\ manifest'[x].review = manifest[x].review
             /\ manifest'[x].selected = manifest[x].selected
             /\ manifest'[x].proof = manifest[x].proof
  <2>1. manifest[x] \in ManifestRecord
    BY DEF TypeOK
  <2>2. manifest'[x] = IF x \in S THEN [manifest[x] EXCEPT !.attempt = "uncertain"]
                                  ELSE manifest[x]
    BY DEF Interrupted
  <2> QED
    BY <2>1, <2>2 DEF ManifestRecord
<1>2. \A m \in S : manifest[m].attempt = "running"
  BY DEF Current
<1>3. ASSUME NEW x \in Manifest PROVE ManifestMove(x)
  <2>1. AttemptMove(x)
    BY <1>1, <1>2 DEF AttemptMove, AttemptOutcome
  <2>2. ManifestOK(x) /\ (x \in S => manifest[x].status # "absent")
    BY <1>2 DEF AttemptInv, ManifestOK
  <2> QED
    BY <1>1, <2>1, <2>2, RestatedMove
<1>4. ASSUME NEW r \in Review, NEW m \in S, manifest[m].review = r PROVE ReviewMove(r)
  <2>1. Current(m)
    OBVIOUS
  <2>2. Running(r) /\ review[r].lastAttempt = m
    BY <1>4, <2>1 DEF Current
  <2>3. review'[r] = Saved(review[r], "provider_attempt_uncertain")
    BY <1>4 DEF Interrupted
  <2>4. /\ review'[r].status = "provider_attempt_uncertain"
        /\ review'[r].manifest = review[r].manifest /\ review'[r].lastAttempt = m
    BY <2>2, <2>3, SavedFields DEF TypeOK
  <2>5. manifest'[m].attempt = LastAttemptStatus["provider_attempt_uncertain"]
    BY <1>1, StatusNames
  <2> QED
    BY <2>2, <2>4, <2>5, StatusNames DEF ReviewMove
<1>5. ASSUME NEW r \in Review, ~\E m \in S : manifest[m].review = r PROVE ReviewMove(r)
  <2>1. review'[r] = review[r]
    BY <1>5 DEF Interrupted
  <2>2. \A m \in Manifest : manifest'[m].attempt = manifest[m].attempt \/ manifest[m].review # r
    BY <1>1, <1>5
  <2> QED
    BY <2>1, <2>2, OtherStays
<1> QED
  BY <1>1, <1>3, <1>4, <1>5 DEF Moves, NoneAdvances

LEMMA RecoverMoves ==
  ASSUME TypeOK, AttemptInv, RecoverWorkflows, memory' = memory
  PROVE  Moves /\ NoneAdvances /\ \A m \in Manifest : ~Current(m)'
<1> DEFINE S == {m \in Manifest : manifest[m].attempt = "running"}
<1>1. Interrupted(S) /\ \A m \in S : Current(m)
  BY DEF RecoverWorkflows, RunningAttemptsCurrent
<1>2. /\ Moves /\ NoneAdvances
      /\ \A m \in S : manifest'[m].attempt = "uncertain"
      /\ \A m \in Manifest \ S : manifest'[m].attempt = manifest[m].attempt
  <2>1. S \in SUBSET Manifest
    OBVIOUS
  <2> HIDE DEF S
  <2> QED
    BY <1>1, <2>1, InterruptedMoves
<1>3. \A m \in Manifest : manifest'[m].attempt # "running"
  BY <1>2
<1> QED
  BY <1>2, <1>3 DEF Current

LEMMA StaledDead ==
  ASSUME NEW rv \in ReviewRecord
  PROVE  ~Staled(rv).draft.live
<1>1. rv.draft \in Draft /\ Staled(rv).draft = [rv.draft EXCEPT !.live = FALSE]
  BY StaledFields DEF ReviewRecord
<1> QED
  BY <1>1 DEF Draft

LEMMA RedirectedMoves ==
  ASSUME TypeOK, AttemptInv, NEW r \in Review, Redirected(r), memory' = memory,
         review[r].status \in Committable
  PROVE  /\ Moves /\ NoneAdvances
         /\ \A x \in OthersOpen(r) : review'[x].status = "stale" /\ ~review'[x].draft.live
         /\ \A m \in Manifest : manifest[m].review \in OthersOpen(r) =>
               manifest'[m].status \in {"stale", "cancelled"}
<1> DEFINE others  == OthersOpen(r)
           ended   == {x \in others : Running(x)}
           kept    == AttemptsCancelled(others)
           closed(m) == manifest[m].review \in others
                          /\ manifest[m].status \notin {"stale", "cancelled"}
           over(m)   == \E x \in ended : review[x].lastAttempt = m /\ Current(m)
<1>1. manifest' = [m \in Manifest |->
         [kept[m] EXCEPT !.status  = IF closed(m) THEN "stale" ELSE @,
                         !.attempt = IF over(m) THEN "uncertain" ELSE @]]
  BY DEF Redirected
<1>2. ASSUME NEW x \in Manifest
      PROVE  /\ kept[x] \in ManifestRecord
             /\ kept[x].status = manifest[x].status
             /\ kept[x].review = manifest[x].review
             /\ kept[x].selected = manifest[x].selected
             /\ kept[x].proof = manifest[x].proof
             /\ \/ kept[x].attempt = manifest[x].attempt
                \/ /\ kept[x].attempt = "cancelled"
                   /\ manifest[x].attempt = "prepared"
                   /\ manifest[x].status # "absent"
                   /\ manifest[x].review \in others
  <2>1. others \in SUBSET Review
    BY DEF OthersOpen
  <2> HIDE DEF others
  <2> QED
    BY <2>1, CancelledAttempt
<1>3. ASSUME NEW x \in Manifest
      PROVE  /\ manifest'[x].status = IF closed(x) THEN "stale" ELSE kept[x].status
             /\ manifest'[x].attempt = IF over(x) THEN "uncertain" ELSE kept[x].attempt
             /\ manifest'[x].review = kept[x].review
             /\ manifest'[x].selected = kept[x].selected
             /\ manifest'[x].proof = kept[x].proof
  <2> DEFINE c == kept[x]
  <2>1. c \in ManifestRecord
    BY <1>2
  <2>2. manifest'[x] = [c EXCEPT !.status  = IF closed(x) THEN "stale" ELSE @,
                                 !.attempt = IF over(x) THEN "uncertain" ELSE @]
    <3> HIDE DEF closed, over, kept
    <3> QED
      BY <1>1
  <2> HIDE DEF c, closed, over
  <2>3. /\ manifest'[x].status = IF closed(x) THEN "stale" ELSE c.status
        /\ manifest'[x].attempt = IF over(x) THEN "uncertain" ELSE c.attempt
        /\ manifest'[x].review = c.review
        /\ manifest'[x].selected = c.selected
        /\ manifest'[x].proof = c.proof
    BY <2>1, <2>2 DEF ManifestRecord
  <2> QED
    BY <2>3 DEF c
<1>4. ASSUME NEW x \in Manifest, over(x)
      PROVE  manifest[x].attempt = "running" /\ manifest[x].review \in others
  <2>1. PICK y \in ended : review[y].lastAttempt = x /\ Current(x)
    BY <1>4
  <2>2. y \in Review /\ review[y].lastAttempt # None
    BY <2>1, NoneAssumption DEF OthersOpen
  <2>3. manifest[x].review = y
    BY <2>1, <2>2 DEF AttemptInv, AttemptOwned
  <2> QED
    BY <2>1, <2>3 DEF Current
<1>5. ASSUME NEW x \in Manifest
      PROVE  /\ ManifestMove(x)
             /\ manifest'[x].proof = manifest[x].proof
             /\ manifest'[x].attempt = manifest[x].attempt \/ manifest[x].review \in others
             /\ manifest'[x].attempt \in {"running", "completed"} =>
                   manifest[x].attempt = manifest'[x].attempt
  <2>1. ManifestOK(x)
    BY DEF AttemptInv
  <2>2. over(x) => manifest[x].status # "absent"
    BY <1>4, <2>1 DEF ManifestOK
  <2>3. closed(x) => manifest[x].status # "absent"
    BY <2>1, NoneAssumption DEF ManifestOK, OthersOpen
  <2> HIDE DEF over, closed, kept, others
  <2>4. AttemptMove(x)
    BY <1>2, <1>3, <1>4 DEF AttemptMove, AttemptOutcome
  <2> QED
    BY <1>2, <1>3, <1>4, <2>1, <2>2, <2>3, <2>4, RestatedMove
<1>6. ASSUME NEW x \in Review PROVE ReviewMove(x)
  <2>1. CASE x = r
    <3>1. review'[x] = Saved(review[x], "committed")
      BY <2>1 DEF Redirected, OthersOpen
    <3>2. review'[x].status = "committed" /\ review'[x].lastAttempt = review[x].lastAttempt
      BY <3>1, SavedFields DEF TypeOK
    <3>3. ~Running(x) /\ review[x].status \in Committable
      BY <2>1 DEF Running, Committable
    <3> QED
      BY <3>2, <3>3 DEF ReviewMove, Terminal
  <2>2. CASE x \in ended
    <3>1. review'[x] = Staled(Saved(review[x], "provider_attempt_uncertain"))
      BY <2>2 DEF Redirected, OthersOpen
    <3> DEFINE s == Saved(review[x], "provider_attempt_uncertain")
    <3>2. s \in ReviewRecord /\ s.lastAttempt = review[x].lastAttempt
      BY SavedType, SavedFields DEF TypeOK, ReviewStatus
    <3>3. review'[x].status = "stale" /\ review'[x].lastAttempt = review[x].lastAttempt
      <4> HIDE DEF s
      <4>1. review'[x] = Staled(s)
        BY <3>1 DEF s
      <4> QED
        BY <3>2, <4>1, StaledFields
    <3> DEFINE a == review[x].lastAttempt
    <3>4. Running(x) /\ AttemptOwned(x) /\ AttemptMatches(x)
      BY <2>2 DEF AttemptInv
    <3>5. a \in Manifest /\ manifest[a].review = x /\ manifest[a].attempt = "running"
      BY <3>4, StatusNames, IdTypes DEF AttemptOwned, AttemptMatches, Out, Running
    <3>6. over(a)
      BY <2>2, <3>4, <3>5 DEF Current
    <3>7. manifest'[a].attempt = "uncertain"
      <4> HIDE DEF a, over
      <4> QED
        BY <1>3, <3>5, <3>6
    <3> QED
      BY <3>3, <3>7 DEF ReviewMove
  <2>3. CASE x \in others \ ended
    <3>1. review'[x] = Staled(review[x]) /\ ~Running(x)
      BY <2>3 DEF Redirected, OthersOpen
    <3> QED
      BY <3>1, StaledMove
  <2>4. CASE x # r /\ x \notin others
    <3>1. review'[x] = review[x]
      BY <2>4 DEF Redirected
    <3>2. \A m \in Manifest : manifest'[m].attempt = manifest[m].attempt \/ manifest[m].review # x
      BY <1>5, <2>4
    <3> QED
      BY <3>1, <3>2, OtherStays
  <2> QED
    BY <2>1, <2>2, <2>3, <2>4
<1>7. ASSUME NEW x \in others PROVE review'[x].status = "stale" /\ ~review'[x].draft.live
  <2>1. review[x] \in ReviewRecord
    BY DEF OthersOpen, TypeOK
  <2>2. PICK s \in ReviewRecord : review'[x] = Staled(s)
    <3>1. CASE x \in ended
      <4>1. review'[x] = Staled(Saved(review[x], "provider_attempt_uncertain"))
        BY <3>1 DEF Redirected, OthersOpen
      <4> QED
        BY <2>1, <4>1, SavedType DEF ReviewStatus
    <3>2. CASE x \notin ended
      BY <2>1, <3>2 DEF Redirected, OthersOpen
    <3> QED
      BY <3>1, <3>2
  <2> QED
    BY <2>2, StaledFields, StaledDead
<1>8. ASSUME NEW m \in Manifest, manifest[m].review \in others
      PROVE  manifest'[m].status \in {"stale", "cancelled"}
  <2>1. CASE closed(m)
    BY <1>3, <2>1
  <2>2. CASE ~closed(m)
    <3>1. manifest[m].status \in {"stale", "cancelled"}
      BY <1>8, <2>2
    <3> HIDE DEF closed, kept, over
    <3> QED
      BY <1>2, <1>3, <2>2, <3>1
  <2> QED
    BY <2>1, <2>2
<1>9. Moves /\ NoneAdvances
  <2> HIDE DEF others
  <2> QED
    BY <1>5, <1>6 DEF Moves, NoneAdvances
<1> QED
  BY <1>7, <1>8, <1>9

LEMMA CommitEffectMoves ==
  ASSUME TypeOK, AttemptInv, NEW r \in Review, CommitEffect(r)
  PROVE  Moves /\ NoneAdvances
<1>1. review[r].status \in Committable /\ memory' = memory
  BY DEF CommitEffect, Accepts
<1>2. CASE review[r].draft.kind = "formal_direction_change"
  BY <1>1, <1>2, RedirectedMoves DEF CommitEffect
<1>3. CASE review[r].draft.kind # "formal_direction_change"
  <2>1. PICK st \in {"disposed", "committed"} : review' = [review EXCEPT ![r] = Saved(@, st)]
    BY <1>3 DEF CommitEffect
  <2> QED
    BY <1>1, <1>3, <2>1, CommitPlainMoves DEF CommitEffect
<1> QED
  BY <1>2, <1>3

LEMMA ForgetMoves ==
  ASSUME TypeOK, AuthorityInv, AttemptInv, NEW c \in Command, NEW i \in Memory, Forget(c, i)
  PROVE  Moves /\ NoneAdvances
<1> DEFINE hit(m) == m \in Copies(i)
           lost(r) == IsOpen(r) /\ \E m \in Manifest : hit(m) /\ manifest[m].review = r
<1>1. /\ memory' = [memory EXCEPT ![i] = "forgotten"]
      /\ review' = [r \in Review |-> IF lost(r) THEN Staled(review[r]) ELSE review[r]]
  BY DEF Forget
<1>2. ASSUME NEW m \in Manifest, ~hit(m) PROVE manifest'[m] = manifest[m]
  BY <1>2 DEF Forget
<1>3. ASSUME NEW m \in Manifest, hit(m)
      PROVE  /\ manifest'[m].status = manifest[m].status
             /\ manifest'[m].review = manifest[m].review
             /\ manifest'[m].selected = manifest[m].selected
             /\ manifest'[m].proof = manifest[m].status /\ manifest'[m].proof # None
             /\ \/ manifest'[m].attempt = manifest[m].attempt
                   /\ manifest[m].attempt \notin {"prepared", "running"}
                \/ manifest[m].attempt = "running" /\ manifest'[m].attempt = "uncertain"
                \/ manifest[m].attempt = "prepared" /\ manifest'[m].attempt = "cancelled"
  <2> DEFINE a == CASE manifest[m].attempt = "running" -> "uncertain"
                    [] manifest[m].attempt = "prepared" -> "cancelled"
                    [] OTHER -> manifest[m].attempt
  <2>1. manifest'[m] = [manifest[m] EXCEPT !.proof = manifest[m].status, !.attempt = a]
    BY <1>3 DEF Forget
  <2>2. manifest[m] \in ManifestRecord
    BY DEF TypeOK
  <2>3. \/ a = manifest[m].attempt /\ manifest[m].attempt \notin {"prepared", "running"}
        \/ manifest[m].attempt = "running" /\ a = "uncertain"
        \/ manifest[m].attempt = "prepared" /\ a = "cancelled"
    OBVIOUS
  <2> HIDE DEF a, hit
  <2>4. /\ manifest'[m].status = manifest[m].status
        /\ manifest'[m].review = manifest[m].review
        /\ manifest'[m].selected = manifest[m].selected
        /\ manifest'[m].proof = manifest[m].status
        /\ manifest'[m].attempt = a
    BY <2>1, <2>2 DEF ManifestRecord
  <2>5. manifest[m].status # None
    BY <2>2, NullAssumption DEF ManifestRecord
  <2> QED
    BY <2>3, <2>4, <2>5
<1>4. ASSUME NEW m \in Manifest PROVE ManifestMove(m)
  <2>1. ManifestOK(m)
    BY DEF AttemptInv
  <2>2. CASE ~hit(m)
    BY <1>2, <2>1, <2>2, SameManifestMove
  <2>3. CASE hit(m)
    <3>1. manifest[m].status # "absent"
      BY <2>1, <2>3 DEF ManifestOK, Copies
    <3>2. AttemptMove(m)
      BY <1>3, <2>3 DEF AttemptMove, AttemptOutcome
    <3>3. manifest'[m].attempt \notin {"prepared", "running"}
      BY <1>3, <2>3
    <3>4. manifest[m].attempt \in Started => manifest'[m].status \in {"sent", "stale"}
      BY <1>3, <2>1, <2>3, <3>1 DEF ManifestOK
    <3> HIDE DEF hit
    <3> QED
      BY <1>3, <2>3, <3>1, <3>2, <3>3, <3>4 DEF ManifestMove
  <2> QED
    BY <2>2, <2>3
<1>5. ASSUME NEW r \in Review PROVE ReviewMove(r)
  <2>1. CASE lost(r)
    <3>1. PICK m \in Manifest : hit(m) /\ manifest[m].review = r
      BY <2>1
    <3>2. OwnsErased(r)
      BY <1>3, <3>1 DEF OwnsErased
    <3>3. review'[r] = Staled(review[r])
      BY <1>1, <2>1
    <3> QED
      BY <3>2, <3>3, StaledMove
  <2>2. CASE ~lost(r)
    <3>1. review'[r] = review[r]
      BY <1>1, <2>2
    <3>2. ASSUME ~Out(review[r].status)
          PROVE  manifest'[review[r].lastAttempt].attempt
                    = manifest[review[r].lastAttempt].attempt
      <4>1. AttemptOwned(r) /\ AttemptMatches(r)
        BY DEF AttemptInv
      <4>2. /\ review[r].lastAttempt \in Manifest
            /\ manifest[review[r].lastAttempt].review = r
        BY <3>2, <4>1, IdTypes DEF AttemptOwned, AttemptMatches
      <4>3. IsOpen(r)
        BY <3>2, StatusNames DEF Out, IsOpen, Exists, Terminal
      <4>4. ~hit(review[r].lastAttempt)
        BY <2>2, <4>2, <4>3
      <4> HIDE DEF hit
      <4> QED
        BY <1>2, <4>2, <4>4
    <3> QED
      BY <3>1, <3>2 DEF ReviewMove
  <2> QED
    BY <2>1, <2>2
<1>6. ASSUME NEW r \in Review, NEW m \in Manifest,
             manifest'[m].proof # manifest[m].proof, review'[r].manifest = m
      PROVE  review'[r].status \in Terminal \cup {"stale", "absent"}
  <2>1. hit(m)
    BY <1>2, <1>6
  <2>2. CASE lost(r)
    <3>1. review'[r] = Staled(review[r])
      BY <1>1, <2>2
    <3>2. Staled(review[r]).status = "stale"
      BY StaledFields DEF TypeOK
    <3> QED
      BY <3>1, <3>2
  <2>3. CASE ~lost(r)
    <3>1. review'[r] = review[r]
      BY <1>1, <2>3
    <3>2. manifest[m].review = r
      <4>1. ManifestBound(r) /\ review[r].manifest = m /\ m # None
        BY <1>6, <3>1, NoneAssumption DEF AuthorityInv
      <4> QED
        BY <4>1 DEF ManifestBound
    <3>3. ~IsOpen(r)
      BY <2>1, <2>3, <3>2
    <3> QED
      BY <3>1, <3>3 DEF IsOpen, Exists
  <2> QED
    BY <2>2, <2>3
<1>7. ASSUME NEW m \in Manifest, NEW j \in manifest[m].selected,
             memory'[j] = "forgotten", memory[j] # "forgotten"
      PROVE  manifest'[m].proof # None
  <2>1. j = i
    BY <1>1, <1>7 DEF TypeOK
  <2>2. CASE hit(m)
    BY <1>3, <2>2
  <2>3. CASE ~hit(m)
    BY <1>2, <2>1, <2>3, <1>7 DEF Copies
  <2> QED
    BY <2>2, <2>3
<1>8. NoneAdvances
  <2> SUFFICES ASSUME NEW m \in Manifest, manifest'[m].attempt \in {"running", "completed"}
               PROVE  manifest[m].attempt = manifest'[m].attempt
    BY DEF NoneAdvances
  <2> HIDE DEF hit
  <2> QED
    BY <1>2, <1>3
<1> HIDE DEF hit, lost
<1> QED
  BY <1>4, <1>5, <1>6, <1>7, <1>8 DEF Moves

LEMMA MemoryMoves ==
  ASSUME TypeOK, AttemptInv, UNCHANGED <<review, manifest>>,
         \A i \in Memory : memory'[i] = "forgotten" => memory[i] = "forgotten"
  PROVE  Moves /\ NoneAdvances
<1>1. \A r \in Review : ReviewMove(r)
  BY OtherStays
<1>2. \A m \in Manifest : ManifestMove(m)
  BY SameManifestMove DEF AttemptInv
<1>3. \A m \in Manifest : manifest[m].selected \subseteq Memory
  BY DEF TypeOK, ManifestRecord
<1> QED
  BY <1>1, <1>2, <1>3 DEF Moves, NoneAdvances

(***************************************************************************)
(* The calls: what they send is recorded, and what runs has one.           *)
(***************************************************************************)

\* A step that starts and completes nothing, on a project that stays open.
LEMMA QuietCalls ==
  ASSUME TypeOK, AttemptInv, Moves, NoneAdvances, UNCHANGED <<open, request, sends>>
  PROVE  AttemptCalls'
<1>1. \A m \in Manifest : SendOK(m)'
  BY SendMoves DEF CallMoves, NoneAdvances
<1>2. ~StorageFaults => RunningHasCaller'
  BY CallerMoves DEF NoneAdvances
<1> QED
  BY <1>1, <1>2 DEF AttemptCalls

\* A step after which nothing runs, or no process is there.
LEMMA DroppedCalls ==
  ASSUME TypeOK, AttemptInv, Moves, NoneAdvances, sends' = sends,
         \A m \in Manifest : request'[m] \in {request[m], "idle"},
         ~open' \/ \A m \in Manifest : ~Current(m)'
  PROVE  AttemptCalls'
<1>1. \A m \in Manifest : SendOK(m)'
  BY SendMoves DEF CallMoves, NoneAdvances
<1>2. RunningHasCaller'
  BY DEF RunningHasCaller
<1> QED
  BY <1>1, <1>2 DEF AttemptCalls

LEMMA StartAttemptCalls ==
  ASSUME TypeOK, AuthorityInv, AttemptInv, NEW r \in Review, StartAttempt(r)
  PROVE  AttemptCalls'
<1> DEFINE m == review[r].manifest
<1>1. /\ Moves
      /\ \A x \in Manifest : manifest'[x].attempt = "completed" =>
            manifest[x].attempt = "completed"
      /\ \A x \in Manifest : manifest'[x].attempt = "running" =>
            manifest[x].attempt = "running" \/ (Fresh(x) /\ x = m)
  BY StartAttemptMoves
<1>2. /\ m \in Manifest /\ manifest[m].attempt = "prepared"
  <2>1. AttemptMatches(r) /\ review[r].status = "provider_attempt_prepared"
    BY DEF AttemptInv, AttemptCalls, StartAttempt
  <2>2. /\ review[r].lastAttempt # None /\ review[r].lastAttempt = m
        /\ manifest[m].attempt = "prepared"
    BY <2>1, StatusNames DEF AttemptMatches, Out
  <2> QED
    BY <2>2, IdTypes
<1>3. open /\ open' = open /\ sends' = sends
  BY DEF StartAttempt
<1>4. /\ Fresh(m) => request' = [request EXCEPT ![m] = "connecting"]
      /\ ~Fresh(m) => request' = request
  BY DEF StartAttempt
<1>5. ASSUME NEW x \in Manifest PROVE SendOK(x)'
  <2>1. SendOK(x) /\ ManifestOK(x) /\ ManifestMove(x)
    BY <1>1 DEF AttemptInv, AttemptCalls, Moves
  <2>2. sends[x] = 1 => manifest'[x].attempt \in Started
    <3> SUFFICES ASSUME sends[x] = 1 PROVE manifest'[x].attempt \in Started
      OBVIOUS
    <3>1. manifest[x].attempt \in Started
      BY <2>1 DEF SendOK
    <3>2. manifest[x].status # "absent"
      BY <2>1, <3>1 DEF ManifestOK, Started
    <3> QED
      BY <2>1, <3>1, <3>2 DEF ManifestMove, AttemptMove, Started, AttemptOutcome
  <2>3. manifest'[x].attempt = "completed" => sends[x] = 1
    BY <1>1, <2>1 DEF SendOK
  <2>4. request'[x] = "connecting" => sends[x] = 0
    <3>1. CASE x = m
      BY <1>2, <2>1, <3>1 DEF SendOK, Started
    <3>2. CASE x # m
      BY <1>4, <2>1, <3>2 DEF SendOK, TypeOK
    <3> QED
      BY <3>1, <3>2
  <2>5. request'[x] = "sent" => sends[x] = 1
    BY <1>4, <2>1 DEF SendOK, TypeOK
  <2> QED
    BY <1>3, <2>1, <2>2, <2>3, <2>4, <2>5 DEF SendOK
<1>6. ~StorageFaults => RunningHasCaller'
  <2>1. ASSUME NEW x \in Manifest
        PROVE  /\ request'[x] = request[x] \/ request'[x] # "idle"
               /\ manifest[x].attempt = "prepared" /\ request'[x] = "idle" =>
                     manifest'[x].attempt # "running"
    BY <1>1, <1>4 DEF TypeOK
  <2> HIDE DEF m
  <2> QED
    BY <1>1, <1>3, <2>1, CallerMoves
<1> QED
  BY <1>5, <1>6 DEF AttemptCalls

LEMMA BeforeWriteCalls ==
  ASSUME TypeOK, AttemptInv, NEW m \in Manifest, BeforeWrite(m)
  PROVE  Moves /\ AttemptCalls'
<1>1. /\ UNCHANGED <<review, manifest, memory, open>>
      /\ request' = [request EXCEPT ![m] = "sent"]
      /\ sends' = [sends EXCEPT ![m] = @ + 1]
      /\ request[m] = "connecting"
  BY DEF BeforeWrite
<1>2. Moves /\ NoneAdvances
  BY <1>1, SettledMoves
<1>3. manifest[m].attempt = "running"
  <2>1. PICK r \in Review : Running(r) /\ review[r].lastAttempt = m
    BY DEF BeforeWrite
  <2>2. AttemptMatches(r)
    BY DEF AttemptInv, AttemptCalls
  <2> QED
    BY <2>1, <2>2, StatusNames DEF AttemptMatches, Out, Running
<1>4. ASSUME NEW x \in Manifest PROVE SendOK(x)'
  <2>1. SendOK(x)
    BY DEF AttemptInv, AttemptCalls
  <2>2. CASE x = m
    <3>1. sends[m] = 0
      BY <1>1, <2>1, <2>2 DEF SendOK
    <3>2. sends'[m] = 1 /\ request'[m] = "sent"
      BY <1>1, <3>1 DEF TypeOK
    <3> QED
      BY <1>1, <1>3, <2>2, <3>2 DEF SendOK, Started
  <2>3. CASE x # m
    <3>1. sends'[x] = sends[x] /\ request'[x] = request[x]
      BY <1>1, <2>3 DEF TypeOK
    <3> QED
      BY <1>1, <2>1, <3>1 DEF SendOK
  <2> QED
    BY <2>2, <2>3
<1>5. ~StorageFaults => RunningHasCaller'
  BY <1>1, <1>2, CallerMoves DEF TypeOK, NoneAdvances
<1> QED
  BY <1>2, <1>4, <1>5 DEF AttemptCalls

LEMMA FinishAttemptCalls ==
  ASSUME TypeOK, AttemptInv, NEW m \in Manifest, NEW outcome \in AttemptOutcome,
         FinishAttempt(m, outcome)
  PROVE  Moves /\ AttemptCalls'
<1>1. /\ Record(m, outcome) /\ UNCHANGED <<memory, open, sends>>
      /\ request' = [request EXCEPT ![m] = "idle"]
      /\ outcome = "completed" => request[m] = "sent"
  BY DEF FinishAttempt
<1>2. /\ Moves /\ ~Current(m)'
      /\ \A x \in Manifest : manifest'[x].attempt = "completed" =>
            manifest[x].attempt = "completed" \/ (x = m /\ outcome = "completed")
      /\ \A x \in Manifest : manifest'[x].attempt = "running" =>
            manifest[x].attempt = "running"
  BY <1>1, RecordMoves
<1>3. outcome = "completed" => sends[m] = 1
  BY <1>1 DEF AttemptInv, AttemptCalls, SendOK
<1>4. CallMoves
  BY <1>1, <1>2, <1>3 DEF CallMoves, TypeOK
<1>5. \A x \in Manifest : SendOK(x)'
  BY <1>2, <1>4, SendMoves
<1>6. ~StorageFaults => RunningHasCaller'
  <2>1. \A x \in Manifest : request'[x] = request[x] \/ ~Current(x)'
    BY <1>1, <1>2 DEF TypeOK
  <2> QED
    BY <1>1, <1>2, <2>1, CallerMoves
<1> QED
  BY <1>2, <1>5, <1>6 DEF AttemptCalls

LEMMA AnswerLostCalls ==
  ASSUME TypeOK, AttemptInv, NEW m \in Manifest, AnswerLost(m)
  PROVE  Moves /\ AttemptCalls'
<1>1. /\ StorageFaults /\ UNCHANGED <<review, manifest, memory, sends>>
      /\ request' = [request EXCEPT ![m] = "idle"]
  BY DEF AnswerLost
<1>2. Moves /\ NoneAdvances
  BY <1>1, SettledMoves
<1>3. \A x \in Manifest : SendOK(x)'
  BY <1>1, <1>2, SendMoves DEF CallMoves, NoneAdvances, TypeOK
<1> QED
  BY <1>1, <1>2, <1>3 DEF AttemptCalls

(***************************************************************************)
(* The invariant holds.                                                    *)
(***************************************************************************)

LEMMA MovesKeep ==
  ASSUME TypeOK, TypeOK', AuthorityInv, AttemptInv, Moves, AttemptCalls'
  PROVE  AttemptInv'
  BY OwnedMoves, MatchesMoves, ErasedMoves, ManifestMoves, StrandedMoves DEF AttemptInv

LEMMA WorkflowMoves ==
  ASSUME TypeOK, AuthorityInv, AttemptInv, NEW r \in Review, Workflow(r)
  PROVE  Moves /\ AttemptCalls'
<1>1. CASE CreateDraft(r)
  BY <1>1, CreateDraftMoves, QuietCalls DEF CreateDraft
<1>2. CASE Edit(r)
  BY <1>2, EditMoves, QuietCalls DEF Edit
<1>3. ASSUME NEW m \in Manifest, NEW p \in Provider \cup {None}, NEW sel \in SUBSET Memory,
             PrepareManifest(r, m, p, sel)
      PROVE  Moves /\ AttemptCalls'
  <2>1. Moves /\ NoneAdvances
    BY <1>3, PrepareManifestMoves
  <2>2. UNCHANGED <<open, request, sends>>
    BY <1>3 DEF PrepareManifest
  <2> QED
    BY <2>1, <2>2, QuietCalls
<1>4. CASE ConfirmManifest(r)
  BY <1>4, ConfirmManifestMoves, QuietCalls DEF ConfirmManifest
<1>5. CASE PrepareAttempt(r)
  BY <1>5, PrepareAttemptMoves, QuietCalls DEF PrepareAttempt
<1>6. CASE StartAttempt(r)
  BY <1>6, StartAttemptMoves, StartAttemptCalls
<1>7. CASE CancelAttempt(r)
  <2> DEFINE m == review[r].lastAttempt
  <2>1. m \in Manifest
    <3>1. AttemptMatches(r) /\ ~Out(review[r].status)
      BY <1>7, StatusNames DEF CancelAttempt, Running, Out, AttemptInv
    <3> QED
      BY <3>1, IdTypes DEF AttemptMatches
  <2>2. Record(m, "uncertain") /\ UNCHANGED <<memory, open, request, sends>>
    BY <1>7 DEF CancelAttempt
  <2>3. "uncertain" \in AttemptOutcome
    BY DEF AttemptOutcome
  <2> HIDE DEF m
  <2>4. Moves /\ NoneAdvances
    <3>1. /\ Moves
          /\ \A x \in Manifest : manifest'[x].attempt = "completed" =>
                manifest[x].attempt = "completed"
          /\ \A x \in Manifest : manifest'[x].attempt = "running" =>
                manifest[x].attempt = "running"
      BY <2>1, <2>2, <2>3, RecordMoves
    <3> QED
      BY <3>1 DEF NoneAdvances
  <2> QED
    BY <2>2, <2>4, QuietCalls
<1>8. CASE Cancel(r)
  BY <1>8, CancelMoves, QuietCalls DEF Cancel
<1>9. ASSUME NEW c \in Command, NEW k \in EffectKind, PrepareEffect(r, c, k)
      PROVE  Moves /\ AttemptCalls'
  BY <1>9, PrepareEffectMoves, QuietCalls DEF PrepareEffect
<1>10. CASE CommitEffect(r)
  BY <1>10, CommitEffectMoves, QuietCalls DEF CommitEffect
<1>11. CASE CommitRefused(r)
  BY <1>11, CommitRefusedMoves, QuietCalls DEF CommitRefused
<1> QED
  BY <1>1, <1>2, <1>3, <1>4, <1>5, <1>6, <1>7, <1>8, <1>9, <1>10, <1>11 DEF Workflow

LEMMA GovernanceMoves ==
  ASSUME TypeOK, AuthorityInv, AttemptInv, NEW i \in Memory, Governance(i)
  PROVE  Moves /\ AttemptCalls'
<1>1. ASSUME NEW to, to # "forgotten", memory' = [memory EXCEPT ![i] = to],
             UNCHANGED <<review, manifest, open, request, sends>>
      PROVE  Moves /\ AttemptCalls'
  <2>1. \A j \in Memory : memory'[j] = "forgotten" => memory[j] = "forgotten"
    BY <1>1 DEF TypeOK
  <2> QED
    BY <1>1, <2>1, MemoryMoves, QuietCalls
<1>2. CASE MemoryExpires(i)
  BY <1>1, <1>2 DEF MemoryExpires
<1>3. ASSUME NEW c \in Command, NEW to \in MemoryState, GovernMemory(c, i, to)
      PROVE  Moves /\ AttemptCalls'
  <2>1. to # "forgotten"
    BY <1>3 DEF GovernMemory, Governed
  <2> QED
    BY <1>1, <1>3, <2>1 DEF GovernMemory
<1>4. ASSUME NEW c \in Command, Forget(c, i) PROVE Moves /\ AttemptCalls'
  BY <1>4, ForgetMoves, QuietCalls DEF Forget
<1> QED
  BY <1>2, <1>3, <1>4 DEF Governance

LEMMA EnvironmentMoves ==
  ASSUME TypeOK, AttemptInv, Environment
  PROVE  Moves /\ AttemptCalls'
<1>1. ASSUME NEW p \in Provider \cup {None}, ChangeProvider(p) PROVE Moves /\ AttemptCalls'
  BY <1>1, SettledMoves, QuietCalls DEF ChangeProvider
<1>2. CASE Close
  <2> DEFINE S == {m \in Manifest : request[m] # "idle" /\ Current(m)}
  <2>1. Interrupted(S) /\ S \in SUBSET Manifest /\ \A m \in S : Current(m)
    BY <1>2 DEF Close
  <2>2. /\ memory' = memory /\ sends' = sends /\ ~open'
        /\ \A m \in Manifest : request'[m] \in {request[m], "idle"}
    BY <1>2 DEF Close
  <2> HIDE DEF S
  <2> QED
    BY <2>1, <2>2, InterruptedMoves, DroppedCalls
<1>3. CASE Crash
  BY <1>3, SettledMoves, DroppedCalls DEF Crash
<1>4. ASSUME RecoverWorkflows, UNCHANGED <<memory, request, sends>>
      PROVE  Moves /\ AttemptCalls'
  BY <1>4, RecoverMoves, DroppedCalls
<1>5. CASE Open
  BY <1>4, <1>5 DEF Open
<1>6. CASE Recover
  BY <1>4, <1>6 DEF Recover
<1> QED
  BY <1>1, <1>2, <1>3, <1>5, <1>6 DEF Environment

LEMMA AttemptInit == Init => AttemptInv
<1> SUFFICES ASSUME Init PROVE AttemptInv
  OBVIOUS
<1>1. ASSUME NEW r \in Review
      PROVE  AttemptOwned(r) /\ AttemptMatches(r) /\ ErasedIsStale(r)
  <2>1. /\ review[r].lastAttempt = None /\ review[r].manifest = None
        /\ review[r].status = "absent"
    BY DEF Init, NoReview
  <2> QED
    BY <2>1, StatusNames DEF AttemptOwned, AttemptMatches, ErasedIsStale, Out
<1>2. ASSUME NEW m \in Manifest PROVE ManifestOK(m) /\ StrandedOK(m) /\ SendOK(m)
  <2>1. /\ manifest[m].status = "absent" /\ manifest[m].attempt = "none"
        /\ manifest[m].proof = None /\ manifest[m].selected = {}
        /\ manifest[m].review = None /\ sends[m] = 0 /\ request[m] = "idle"
    BY DEF Init, NoManifest
  <2> QED
    BY <2>1 DEF ManifestOK, StrandedOK, SendOK, Started
<1>3. RunningHasCaller
  BY DEF RunningHasCaller, Current, Init, NoManifest
<1> QED
  BY <1>1, <1>2, <1>3 DEF AttemptInv, AttemptCalls

LEMMA MovesStep ==
  ASSUME TypeOK, AuthorityInv, AttemptInv, [Next]_vars
  PROVE  Moves /\ AttemptCalls'
<1>1. ASSUME NEW r \in Review, Workflow(r) PROVE Moves /\ AttemptCalls'
  BY <1>1, WorkflowMoves
<1>2. ASSUME NEW m \in Manifest, Call(m) PROVE Moves /\ AttemptCalls'
  BY <1>2, BeforeWriteCalls, FinishAttemptCalls, AnswerLostCalls DEF Call
<1>3. ASSUME NEW i \in Memory, Governance(i) PROVE Moves /\ AttemptCalls'
  BY <1>3, GovernanceMoves
<1>4. CASE Environment
  BY <1>4, EnvironmentMoves
<1>5. CASE UNCHANGED vars
  BY <1>5, SettledMoves, QuietCalls DEF vars
<1> QED
  BY <1>1, <1>2, <1>3, <1>4, <1>5 DEF Next

LEMMA AttemptStep ==
  TypeOK /\ AuthorityInv /\ AttemptInv /\ [Next]_vars => AttemptInv'
<1> SUFFICES ASSUME TypeOK, AuthorityInv, AttemptInv, [Next]_vars PROVE AttemptInv'
  OBVIOUS
<1>1. TypeOK'
  BY TypeStep
<1> QED
  BY <1>1, MovesStep, MovesKeep

LEMMA AttemptInvariant == Spec => [](TypeOK /\ AuthorityInv /\ AttemptInv)
<1>1. Init => AttemptInv
  BY AttemptInit
<1>2. TypeOK /\ AuthorityInv /\ AttemptInv /\ [Next]_vars => AttemptInv'
  BY AttemptStep
<1> QED
  BY <1>1, <1>2, AuthorityInvariant, PTL DEF Spec

(***************************************************************************)
(* The theorems.                                                           *)
(***************************************************************************)

\* Every state passes the relations on which validateKernelRelations and the
\* recovery insist: a review's status is its last attempt's, and while an attempt
\* decides it, it is the attempt of the manifest the user confirmed.
THEOREM StatusMatchesAttemptTheorem == Spec => []StatusMatchesAttempt
<1>1. TypeOK /\ AuthorityInv /\ AttemptInv => StatusMatchesAttempt
  <2> SUFFICES ASSUME TypeOK, AuthorityInv, AttemptInv, NEW r \in Review
               PROVE  /\ Related(r)
                      /\ review[r].status \in DOMAIN LastAttemptStatus =>
                            review[r].lastAttempt = review[r].manifest
    BY DEF StatusMatchesAttempt
  <2>1. ManifestBound(r) /\ AttemptMatches(r)
    BY DEF AuthorityInv, AttemptInv
  <2> QED
    BY <2>1 DEF ManifestBound, AttemptMatches, Related, Out
<1> QED
  BY <1>1, AttemptInvariant, PTL

\* `No retry or resume occurs implicitly': a body leaves at most once, under an
\* attempt the store records, and only a body that left is answered for.
THEOREM SendsAreRecordedTheorem == Spec => []SendsAreRecorded
<1>1. AttemptInv => SendsAreRecorded
  <2> SUFFICES ASSUME AttemptInv, NEW m \in Manifest
               PROVE  /\ sends[m] <= 1
                      /\ sends[m] = 1 =>
                            /\ manifest[m].status \in {"sent", "stale"}
                            /\ manifest[m].attempt \in Started
                      /\ manifest[m].attempt = "completed" => sends[m] = 1
    BY DEF SendsAreRecorded, Started
  <2>1. SendOK(m) /\ ManifestOK(m)
    BY DEF AttemptInv, AttemptCalls
  <2> QED
    BY <2>1 DEF SendOK, ManifestOK
<1> QED
  BY <1>1, AttemptInvariant, PTL

\* Forget leaves no tracked copy of the item, none of the attempts on one can
\* still start or complete, and no review can be decided on one.
THEOREM ForgottenIsErasedTheorem == Spec => []ForgottenIsErased
<1>1. TypeOK /\ AttemptInv => ForgottenIsErased
  <2> SUFFICES ASSUME TypeOK, AttemptInv, NEW m \in Manifest, NEW i \in manifest[m].selected,
                      memory[i] = "forgotten"
               PROVE  /\ manifest[m].proof # None
                      /\ manifest[m].attempt \notin {"prepared", "running"}
                      /\ \A r \in Review :
                            IsOpen(r) /\ review[r].manifest = m => review[r].status = "stale"
    BY DEF ForgottenIsErased
  <2>1. /\ manifest[m].proof # None
        /\ manifest[m].attempt \notin {"prepared", "running"}
    BY DEF AttemptInv, ManifestOK
  <2>2. ASSUME NEW r \in Review, IsOpen(r), review[r].manifest = m
        PROVE  review[r].status = "stale"
    <3>1. ErasedIsStale(r) /\ m # None
      BY NoneAssumption DEF AttemptInv
    <3> QED
      BY <2>1, <2>2, <3>1 DEF ErasedIsStale
  <2> QED
    BY <2>1, <2>2
<1> QED
  BY <1>1, AttemptInvariant, PTL

\* Recovery can resolve every running attempt, unless Forget erased a manifest of
\* the same review.
THEOREM StrandedOnlyByForgetTheorem == Spec => []StrandedOnlyByForget
<1>1. AttemptInv => StrandedOnlyByForget
  BY DEF AttemptInv, StrandedOK, StrandedOnlyByForget
<1> QED
  BY <1>1, AttemptInvariant, PTL

\* Opening succeeds: the validation reads every manifest and relation, and the
\* recovery finds every running attempt its Review's current one (Open's guard).
\* A project from which nothing was ever erased is never refused, whatever was
\* interrupted in it; what a Forget may do to one is the two findings.
OpenAccepts ==
  /\ \A m \in Manifest : Decodable(m)
  /\ \A r \in Review : Related(r)
  /\ RunningAttemptsCurrent
OpensUnlessErased == (\A m \in Manifest : manifest[m].proof = None) => OpenAccepts

\* ProjectReopens needs this of every closed state: without a Forget,
\* openResearchDeliberationKernel accepts what close, crashes and lost answers left.
THEOREM OpensTheorem == Spec => []OpensUnlessErased
<1>1. StatusMatchesAttempt /\ StrandedOnlyByForget => OpensUnlessErased
  BY DEF StatusMatchesAttempt, StrandedOnlyByForget, OpensUnlessErased, OpenAccepts,
         Decodable, RunningAttemptsCurrent
<1> QED
  BY <1>1, StatusMatchesAttemptTheorem, StrandedOnlyByForgetTheorem, PTL

\* While answers can be saved, a running attempt of an open project has a call
\* that will end it.
THEOREM RunningHasCallerTheorem ==
  ASSUME ~StorageFaults
  PROVE  Spec => []RunningHasCaller
<1>1. AttemptInv => RunningHasCaller
  BY DEF AttemptInv, AttemptCalls
<1> QED
  BY <1>1, AttemptInvariant, PTL

(***************************************************************************)
(* What a step may never do.                                               *)
(***************************************************************************)

\* A closed review is never written again.
LEMMA ClosedStays ==
  ASSUME TypeOK, [Next]_vars, NEW r \in Review, review[r].status \in Terminal
  PROVE  review'[r] = review[r]
<1>1. ASSUME NEW x \in Review, review[x].status \notin Terminal,
             \A y \in Review \ {x} : review'[y] = review[y]
      PROVE  review'[r] = review[r]
  BY <1>1
<1>2. CASE Quiet
  BY <1>2, QuietKept DEF AllKept, Kept
<1>3. ASSUME NEW x \in Review, CreateDraft(x) PROVE review'[r] = review[r]
  <2>1. review[x].status \notin Terminal
    BY <1>3 DEF CreateDraft, Exists, Terminal
  <2> QED
    BY <1>1, <1>3, <2>1 DEF CreateDraft, TypeOK
<1>4. ASSUME NEW x \in Review, NEW m \in Manifest, NEW p, NEW sel, PrepareManifest(x, m, p, sel)
      PROVE  review'[r] = review[r]
  <2>1. review[x].status \notin Terminal
    BY <1>4 DEF PrepareManifest, Replaceable, IsOpen
  <2> QED
    BY <1>1, <1>4, <2>1 DEF PrepareManifest, TypeOK
<1>5. ASSUME NEW x \in Review, NEW c \in Command, NEW k \in EffectKind, PrepareEffect(x, c, k)
      PROVE  review'[r] = review[r]
  <2>1. review[x].status \notin Terminal
    BY <1>5 DEF PrepareEffect, Previewable, Committable, Terminal
  <2> QED
    BY <1>1, <1>5, <2>1 DEF PrepareEffect, TypeOK
<1>6. ASSUME NEW x \in Review, CommitEffect(x) PROVE review'[r] = review[r]
  <2>1. review[x].status \notin Terminal
    BY <1>6 DEF CommitEffect, Accepts, Committable, Terminal
  <2>2. CASE review[x].draft.kind = "formal_direction_change"
    <3>1. Redirected(x) /\ r # x /\ r \notin OthersOpen(x)
      BY <1>6, <2>1, <2>2 DEF CommitEffect, OthersOpen, IsOpen
    <3> QED
      BY <3>1 DEF Redirected
  <2>3. CASE review[x].draft.kind # "formal_direction_change"
    BY <1>1, <1>6, <2>1, <2>3 DEF CommitEffect, TypeOK
  <2> QED
    BY <2>2, <2>3
<1>7. ASSUME NEW i \in Memory, Governance(i) PROVE review'[r] = review[r]
  BY <1>7, ForgetKept DEF Governance, GovernMemory, MemoryExpires, AllKept, Kept
<1> QED
  BY <1>2, <1>3, <1>4, <1>5, <1>6, <1>7 DEF Next, Workflow, Quiet

\* Outcomes are final: no late answer, retry, recovery or Forget changes a finished
\* attempt or a closed review.
THEOREM FinishedIsFinalTheorem == Spec => FinishedIsFinal
<1> DEFINE Final ==
      /\ \A m \in Manifest : manifest[m].attempt \in Finished =>
            manifest'[m].attempt = manifest[m].attempt
      /\ \A r \in Review : review[r].status \in Terminal => review'[r] = review[r]
<1>1. TypeOK /\ AuthorityInv /\ AttemptInv /\ [Next]_vars => Final
  <2> SUFFICES ASSUME TypeOK, AuthorityInv, AttemptInv, [Next]_vars PROVE Final
    OBVIOUS
  <2>1. ASSUME NEW m \in Manifest, manifest[m].attempt \in Finished
        PROVE  manifest'[m].attempt = manifest[m].attempt
    <3>1. ManifestMove(m) /\ ManifestOK(m)
      BY MovesStep DEF Moves, AttemptInv
    <3> QED
      BY <2>1, <3>1 DEF ManifestMove, ManifestOK, AttemptMove, Finished
  <2> QED
    BY <2>1, ClosedStays
<1>2. TypeOK /\ AuthorityInv /\ AttemptInv /\ [Next]_vars => [Final]_vars
  BY <1>1
<1> QED
  BY <1>2, AttemptInvariant, PTL DEF Spec, FinishedIsFinal

\* A stale review comes back only with a manifest it never had, and no preview.
THEOREM StaleNeedsNewManifestTheorem == Spec => StaleNeedsNewManifest
<1> DEFINE Renewed(r) ==
      (review[r].status = "stale" /\ review'[r].status \notin {"stale", "cancelled"}) =>
         /\ manifest[review'[r].manifest].status = "absent"
         /\ ~review'[r].draft.live
<1>1. TypeOK /\ AuthorityInv /\ AttemptInv /\ [Next]_vars => \A r \in Review : Renewed(r)
  <2> SUFFICES ASSUME TypeOK, AuthorityInv, AttemptInv, [Next]_vars, NEW r \in Review,
                      review[r].status = "stale",
                      review'[r].status \notin {"stale", "cancelled"}
               PROVE  /\ manifest[review'[r].manifest].status = "absent"
                      /\ ~review'[r].draft.live
    OBVIOUS
  <2>1. ReviewMove(r)
    BY MovesStep DEF Moves
  <2>2. ~Running(r) /\ ~Steady(r) /\ review[r].status \notin Committable
    BY DEF Running, Steady, Committable
  <2> QED
    BY <2>1, <2>2 DEF ReviewMove, Terminal
<1>2. TypeOK /\ AuthorityInv /\ AttemptInv /\ [Next]_vars => [\A r \in Review : Renewed(r)]_vars
  BY <1>1
<1> QED
  BY <1>2, AttemptInvariant, PTL DEF Spec, StaleNeedsNewManifest

\* A direction change leaves no other review that could be approved, and no
\* manifest of one that could be sent.
THEOREM DirectionChangeTheorem == Spec => DirectionChangeStalesTheRest
<1> DEFINE Rest ==
      (Len(log') > Len(log) /\ log'[Len(log')].kind = "formal_direction_change") =>
         \A x \in Review : (IsOpen(x) /\ log'[Len(log')].review # x) =>
            /\ review'[x].status = "stale"
            /\ ~review'[x].draft.live
            /\ \A m \in Manifest : manifest[m].review = x =>
                  manifest'[m].status \in {"stale", "cancelled"}
<1>1. TypeOK /\ AuthorityInv /\ AttemptInv /\ [Next]_vars => Rest
  <2> SUFFICES ASSUME TypeOK, AuthorityInv, AttemptInv, [Next]_vars,
                      Len(log') > Len(log), log'[Len(log')].kind = "formal_direction_change",
                      NEW x \in Review, IsOpen(x), log'[Len(log')].review # x
               PROVE  /\ review'[x].status = "stale"
                      /\ ~review'[x].draft.live
                      /\ \A m \in Manifest : manifest[m].review = x =>
                            manifest'[m].status \in {"stale", "cancelled"}
    OBVIOUS
  <2>1. log' # log
    BY DEF TypeOK
  <2>2. ASSUME NEW c \in Command \cup {None}, NEW r \in Review \cup {None}, NEW k, NEW b,
               AppendEntry(c, r, k, b)
        PROVE  log'[Len(log')].kind = k /\ log'[Len(log')].review = r
    <3>1. log' = Append(log, [command |-> c, review |-> r, kind |-> k, base |-> b])
      BY <2>2 DEF AppendEntry
    <3>2. log \in Seq(Entry)
      BY DEF TypeOK
    <3>3. log'[Len(log')] = [command |-> c, review |-> r, kind |-> k, base |-> b]
      BY <3>1, <3>2
    <3> QED
      BY <3>3
  <2>3. ~Quiet
    BY <2>1, QuietKept
  <2>4. ASSUME NEW i \in Memory, Governance(i) PROVE FALSE
    <3>1. ASSUME NEW c \in Command, NEW k, k # "formal_direction_change",
                 AppendEntry(c, None, k, Revision)
          PROVE  FALSE
      <4>1. log'[Len(log')].kind = k
        BY <2>2, <3>1
      <4> QED
        BY <3>1, <4>1
    <3>2. ASSUME NEW c \in Command, NEW to, GovernMemory(c, i, to) PROVE FALSE
      BY <3>1, <3>2 DEF GovernMemory
    <3>3. ASSUME NEW c \in Command, Forget(c, i) PROVE FALSE
      BY <3>1, <3>3 DEF Forget
    <3>4. ~MemoryExpires(i)
      BY <2>1 DEF MemoryExpires
    <3> QED
      BY <2>4, <3>2, <3>3, <3>4 DEF Governance
  <2>5. PICK r \in Review : CommitEffect(r)
    <3>1. ASSUME NEW r \in Review
          PROVE  /\ ~CreateDraft(r)
                 /\ \A m, p, sel : ~PrepareManifest(r, m, p, sel)
                 /\ \A c, k : ~PrepareEffect(r, c, k)
      BY <2>1 DEF CreateDraft, PrepareManifest, PrepareEffect
    <3> QED
      BY <2>3, <2>4, <3>1 DEF Next, Workflow, Quiet
  <2>6. /\ review[r].draft.kind = "formal_direction_change"
        /\ log'[Len(log')].review = r
    <3>1. review[r].draft.command \in Command \cup {None}
      BY DEF TypeOK, ReviewRecord, Draft
    <3>2. AppendEntry(review[r].draft.command, r, review[r].draft.kind, review[r].draft.base)
      BY <2>5 DEF CommitEffect
    <3> QED
      BY <2>2, <3>1, <3>2
  <2>7. x \in OthersOpen(r)
    BY <2>6 DEF OthersOpen
  <2>8. Redirected(r) /\ memory' = memory /\ review[r].status \in Committable
    BY <2>5, <2>6 DEF CommitEffect, Accepts
  <2> QED
    BY <2>7, <2>8, RedirectedMoves
<1>2. TypeOK /\ AuthorityInv /\ AttemptInv /\ [Next]_vars => [Rest]_vars
  BY <1>1
<1> QED
  BY <1>2, AttemptInvariant, PTL DEF Spec, DirectionChangeStalesTheRest
=============================================================================
