----------------------------- MODULE ReviewKernel -----------------------------
(***************************************************************************)
(* The Research Deliberation Kernel of one project: user Reviews, the      *)
(* Context Manifests that freeze what a Provider is shown, the Provider    *)
(* attempts, the effect drafts a user previews, and the append-only log of *)
(* canonical changes (kernel-application.ts, kernel/repositories.ts,       *)
(* kernel/unit-of-work.ts, kernel/privacy.ts, kernel/workflow-recovery.ts).*)
(*                                                                         *)
(* Every handler runs one SQLite transaction, so one handler is one        *)
(* action.  The exception is startAttempt, which commits `running', then   *)
(* awaits the network: it is StartAttempt, BeforeWrite and FinishAttempt,  *)
(* and anything may happen between them.  review, manifest, memory and log *)
(* are durable; open and request die with the process.                     *)
(*                                                                         *)
(* A canonical commit writes the object, the review's terminal outcome,    *)
(* the event, the head, the receipt, the command row and the outbox row in *)
(* one transaction.  They are one entry of log: its position is the        *)
(* revision, and the fields are the ones the rows share.                   *)
(***************************************************************************)
EXTENDS Integers, Sequences, FiniteSets

CONSTANTS
    Review,         \* review ids (rrvw_...)
    Manifest,       \* manifest ids (rman_...), each used at most once
    Memory,         \* working-memory items of the project
    Command,        \* authority command ids, each issued at most once
    Provider,       \* provider identities (configuration generations)
    None,           \* the null of the records
    StorageFaults,  \* may a write of a Provider answer fail?
    MaxVersion      \* bound: a review at this version is not edited again

ASSUME NoneAssumption ==
    None \notin Review \cup Manifest \cup Command \cup Provider
ASSUME BoundAssumption == MaxVersion \in Nat /\ StorageFaults \in BOOLEAN

VARIABLES
    review,     \* research_reviews
    manifest,   \* context_manifests, each with its research_provider_attempts row
    memory,     \* the state of each working-memory item at the head
    log,        \* events, receipts, commands: log[k] made revision k
    issued,     \* the revision each command id was issued on, 0 before
    provider,   \* what options.provider() returns now, None if nothing
    open,       \* does a process hold the project open?
    request,    \* #active: the in-process Provider call of each manifest
    sends       \* history: how often each manifest's body reached the network

vars == <<review, manifest, memory, log, issued, provider, open, request, sends>>

-----------------------------------------------------------------------------
(* Records.                                                                *)

ReviewStatus ==
    {"absent", "draft", "manifest_prepared", "manifest_confirmed",
     "provider_attempt_prepared", "provider_attempt_running",
     "provider_attempt_uncertain", "provider_attempt_failed",
     "assessment_recorded", "stale", "disposed", "committed", "cancelled"}
Terminal == {"disposed", "committed", "cancelled"}
Committable ==
    {"manifest_confirmed", "assessment_recorded",
     "provider_attempt_failed", "provider_attempt_uncertain"}

ManifestStatus ==
    {"absent", "prepared", "confirmed", "sent", "stale", "cancelled"}
AttemptStatus ==
    {"none", "prepared", "running", "completed", "failed", "uncertain", "cancelled"}
Finished == {"completed", "failed", "uncertain", "cancelled"}

\* The effects of a Review, by what their commit does to the workflow:
\* record_only disposes the review, a direction change stales every other
\* open review, the four others only change objects.
EffectKind == {"record_only", "object_change", "formal_direction_change"}
GovernanceKind == {"baseline", "memory_governance_change", "privacy_redaction"}

\* effectDraft.  affected is preview.affectedReviews: (review, version) pairs.
Draft == [command  : Command \cup {None},
          kind     : EffectKind,
          base     : Nat,
          live     : BOOLEAN,
          affected : SUBSET (Review \X Nat)]
NoDraft == [command |-> None, kind |-> "record_only", base |-> 0,
            live |-> FALSE, affected |-> {}]

\* lastAttempt is attemptIds.at(-1); an attempt is named by its manifest,
\* because UNIQUE(project_id, manifest_id) allows one attempt per manifest.
ReviewRecord == [status      : ReviewStatus,
                 base        : Nat,
                 manifest    : Manifest \cup {None},
                 lastAttempt : Manifest \cup {None},
                 draft       : Draft,
                 version     : Nat]
NoReview == [status |-> "absent", base |-> 0, manifest |-> None,
             lastAttempt |-> None, draft |-> NoDraft, version |-> 0]

\* proof is None until the body is erased; then it is the status the record
\* had, which stands for the afterHash the redaction row keeps: every later
\* compare-and-swap of a manifest changes its status.
ManifestRecord == [status   : ManifestStatus,
                   review   : Review \cup {None},
                   base     : Nat,
                   provider : Provider \cup {None},
                   selected : SUBSET Memory,
                   attempt  : AttemptStatus,
                   proof    : ManifestStatus \cup {None}]
NoManifest == [status |-> "absent", review |-> None, base |-> 0, provider |-> None,
               selected |-> {}, attempt |-> "none", proof |-> None]

\* expired: past its retention date, whether or not a recheck has recorded it.
MemoryState == {"candidate", "active", "expired", "retired", "forgotten"}
RequestState == {"idle", "connecting", "sent"}

\* No status is mistaken for the null of proof.
ASSUME NullAssumption == None \notin ManifestStatus

Entry == [command : Command \cup {None},
          review  : Review \cup {None},
          kind    : EffectKind \cup GovernanceKind,
          base    : Nat]          \* the revision the user's preview was built on

TypeOK ==
    /\ review \in [Review -> ReviewRecord]
    /\ manifest \in [Manifest -> ManifestRecord]
    /\ memory \in [Memory -> MemoryState]
    /\ log \in Seq(Entry)
    /\ issued \in [Command -> Nat]
    /\ provider \in Provider \cup {None}
    /\ open \in BOOLEAN
    /\ request \in [Manifest -> RequestState]
    /\ sends \in [Manifest -> Nat]

-----------------------------------------------------------------------------
(* Reading the store.                                                      *)

Revision == Len(log)
MutantReissue(c) == issued' = [issued EXCEPT ![c] = Revision]
Issue(c) == issued[c] = 0 /\ issued' = [issued EXCEPT ![c] = Revision]
Applied(c) == \E k \in 1..Len(log) : log[k].command = c

Exists(r) == review[r].status # "absent"
IsOpen(r) == Exists(r) /\ review[r].status \notin Terminal
Running(r) == review[r].status = "provider_attempt_running"

\* decode: an erased manifest is readable only while its record is the one
\* the redaction row vouches for; otherwise every read throws corrupt_state.
Decodable(m) == manifest[m].proof \in {None, manifest[m].status}
ManifestDecodable(r) == review[r].manifest # None => Decodable(review[r].manifest)

\* The reasons fresh() can find: the head moved, the provider is another one
\* or gone, a selected memory item is no longer usable.  Policy and schema
\* versions are constants of the build, and the context hash is a function of
\* the head and the frozen suggestion.
Fresh(m) ==
    /\ manifest[m].base = Revision
    /\ manifest[m].provider # None => provider = manifest[m].provider
    /\ \A i \in manifest[m].selected : memory[i] = "active"

\* The attempt whose answer finishAttempt still accepts.
MutantLateAnswers(m) == \E r \in Review : manifest[m].review = r /\ review[r].lastAttempt = m
Current(m) ==
    \E r \in Review :
        /\ manifest[m].review = r
        /\ Running(r)
        /\ manifest[m].attempt = "running"
        /\ review[r].lastAttempt = m

\* validateKernelRelations: what a review's status says of its last attempt,
\* and that a review and its manifest agree.
LastAttemptStatus ==
    [provider_attempt_prepared  |-> "prepared",
     provider_attempt_running   |-> "running",
     provider_attempt_uncertain |-> "uncertain",
     provider_attempt_failed    |-> "failed",
     assessment_recorded        |-> "completed"]
Related(r) ==
    LET rv == review[r] IN
    /\ rv.status \in DOMAIN LastAttemptStatus =>
          /\ rv.lastAttempt # None
          /\ manifest[rv.lastAttempt].attempt = LastAttemptStatus[rv.status]
    /\ rv.manifest # None =>
          /\ manifest[rv.manifest].review = r
          /\ manifest[rv.manifest].base = rv.base

\* recoverKernelWorkflows refuses the whole store on one running attempt that
\* is not the last attempt of a running review.
RunningAttemptsCurrent ==
    \A m \in Manifest : manifest[m].attempt = "running" => Current(m)

\* A review whose manifest may be replaced, staled or cancelled: it is neither
\* terminal nor running, and reading it finds a readable manifest.
MutantRunningReplaced(r) == IsOpen(r) /\ ManifestDecodable(r)
MutantTerminalReplaced(r) == Exists(r) /\ ~Running(r) /\ ManifestDecodable(r)
Replaceable(r) == IsOpen(r) /\ ~Running(r) /\ ManifestDecodable(r)

-----------------------------------------------------------------------------
(* Saving.  Every save bumps the review's version.                         *)

Saved(rv, st) == [rv EXCEPT !.status = st, !.version = @ + 1]
Staled(rv) == [Saved(rv, "stale") EXCEPT !.draft.live = FALSE]

\* The manifests after stale() ran on every review of S: an attempt that was
\* prepared and not started is cancelled (manifest_stale).
AttemptsCancelled(S) ==
    [m \in Manifest |->
        IF \E r \in S : /\ review[r].status = "provider_attempt_prepared"
                        /\ review[r].lastAttempt = m
        THEN [manifest[m] EXCEPT !.attempt = "cancelled"]
        ELSE manifest[m]]

\* The other open reviews, with the versions a direction change binds.
Affected(r) ==
    {<<x, review[x].version>> : x \in {y \in Review \ {r} : IsOpen(y)}}

AppendEntry(c, r, k, b) ==
    log' = Append(log, [command |-> c, review |-> r, kind |-> k, base |-> b])

-----------------------------------------------------------------------------
Init ==
    /\ review = [r \in Review |-> NoReview]
    /\ manifest = [m \in Manifest |-> NoManifest]
    /\ memory = [i \in Memory |-> "active"]
    /\ log = <<[command |-> None, review |-> None, kind |-> "baseline", base |-> 0]>>
    /\ issued = [c \in Command |-> 0]
    /\ provider \in Provider \cup {None}
    /\ open = TRUE
    /\ request = [m \in Manifest |-> "idle"]
    /\ sends = [m \in Manifest |-> 0]

-----------------------------------------------------------------------------
(* Drafts and manifests.                                                   *)

\* createDraft: reached from the user, a host and an envelope, and from a correction
\* or a compensation, whose draft names the review it continues.
CreateDraft(r) ==
    /\ open /\ ~Exists(r)
    /\ review' = [review EXCEPT ![r] =
                    [NoReview EXCEPT !.status = "draft", !.base = Revision, !.version = 1]]
    /\ UNCHANGED <<manifest, memory, log, issued, provider, open, request, sends>>

\* edit: only a draft, and the suggestion is frozen ever after.
Edit(r) ==
    /\ open /\ review[r].status = "draft" /\ review[r].version < MaxVersion
    /\ review' = [review EXCEPT ![r] = [Saved(@, "draft") EXCEPT !.draft = NoDraft]]
    /\ UNCHANGED <<manifest, memory, log, issued, provider, open, request, sends>>

\* prepareManifest: p = None is the request for no Provider (and the first half
\* of skipAssessment).  A review past manifest_prepared, or one based on an older
\* revision, goes through stale() first; its old manifest becomes stale.
PrepareManifest(r, m, p, sel) ==
    LET rv     == review[r]
        old    == rv.manifest
        stales == \/ rv.status \notin {"draft", "stale", "manifest_prepared"}
                  \/ rv.base # Revision
        saved  == IF stales THEN Staled(rv) ELSE rv
        kept   == IF stales THEN AttemptsCancelled({r}) ELSE manifest
    IN  /\ open /\ Replaceable(r)
        /\ manifest[m].status = "absent"
        /\ p \in {None, provider}
        /\ \A i \in sel : memory[i] = "active"
        /\ review' = [review EXCEPT ![r] =
                        [Saved(saved, "manifest_prepared")
                            EXCEPT !.manifest = m, !.base = Revision, !.draft.live = FALSE]]
        /\ manifest' = [x \in Manifest |->
                CASE x = m -> [NoManifest EXCEPT !.status = "prepared", !.review = r,
                                 !.base = Revision, !.provider = p, !.selected = sel]
                  [] x # m /\ x = old /\ kept[x].status \notin {"stale", "cancelled"}
                       -> [kept[x] EXCEPT !.status = "stale"]
                  [] OTHER -> kept[x]]
        /\ UNCHANGED <<memory, log, issued, provider, open, request, sends>>

\* confirmManifest, and the same refusal inside startAttempt: a manifest that is
\* no longer fresh becomes stale with its review.
RefuseStale(r) ==
    LET m == review[r].manifest IN
    /\ manifest' = [AttemptsCancelled({r}) EXCEPT ![m].status = "stale"]
    /\ review' = [review EXCEPT ![r] = Staled(@)]

ConfirmManifest(r) ==
    LET m == review[r].manifest IN
    /\ open /\ review[r].status = "manifest_prepared"
    /\ manifest[m].status = "prepared"
    /\ IF Fresh(m)
       THEN /\ manifest' = [manifest EXCEPT ![m].status = "confirmed"]
            /\ review' = [review EXCEPT ![r] = Saved(@, "manifest_confirmed")]
       ELSE RefuseStale(r)
    /\ UNCHANGED <<memory, log, issued, provider, open, request, sends>>

-----------------------------------------------------------------------------
(* Provider attempts.                                                      *)

MutantSendable(r) ==
    \E m \in Manifest : m = review[r].manifest /\ manifest[m].status = "confirmed"
Sendable(r) ==
    \E m \in Manifest : /\ m = review[r].manifest /\ manifest[m].status = "confirmed"
                       /\ review[r].status = "manifest_confirmed"

PrepareAttempt(r) ==
    LET m == review[r].manifest IN
    /\ open /\ Sendable(r) /\ manifest[m].provider # None
    /\ manifest[m].attempt = "none"
    /\ manifest[m].base = Revision              \* attempts.create: else stale_revision
    /\ manifest' = [manifest EXCEPT ![m].attempt = "prepared"]
    /\ review' = [review EXCEPT ![r] =
                    [Saved(@, "provider_attempt_prepared") EXCEPT !.lastAttempt = m]]
    /\ UNCHANGED <<memory, log, issued, provider, open, request, sends>>

\* startAttempt up to provider.send: `running' and `sent' are durable before a
\* byte leaves.
StartAttempt(r) ==
    LET m == review[r].manifest IN
    /\ open /\ review[r].status = "provider_attempt_prepared"
    /\ manifest[review[r].lastAttempt].attempt = "prepared"
    /\ manifest[m].status = "confirmed"
    /\ IF Fresh(m)
       THEN /\ manifest' = [manifest EXCEPT
                    ![review[r].lastAttempt].attempt = "running", ![m].status = "sent"]
            /\ review' = [review EXCEPT ![r] = Saved(@, "provider_attempt_running")]
            /\ request' = [request EXCEPT ![m] = "connecting"]
       ELSE RefuseStale(r) /\ UNCHANGED request
    /\ UNCHANGED <<memory, log, issued, provider, open, sends>>

\* The beforeWrite guard of provider.send, and the write it lets through.  When
\* the guard throws, the call ends in FinishAttempt(m, "uncertain").
MutantWriteAgain(m) ==
    /\ request[m] # "idle" /\ Fresh(m) /\ Current(m)
    /\ request' = [request EXCEPT ![m] = "sent"]
    /\ sends' = [sends EXCEPT ![m] = @ + 1]
    /\ UNCHANGED <<review, manifest, memory, log, issued, provider, open>>

BeforeWrite(m) ==
    /\ request[m] = "connecting"
    /\ \E r \in Review : /\ manifest[m].review = r /\ Running(r)
                         /\ review[r].lastAttempt = m
    /\ Fresh(m)
    /\ request' = [request EXCEPT ![m] = "sent"]
    /\ sends' = [sends EXCEPT ![m] = @ + 1]
    /\ UNCHANGED <<review, manifest, memory, log, issued, provider, open>>

AttemptOutcome == {"completed", "failed", "uncertain"}
MutantAttemptStatus(outcome) == outcome
StatusAfter(outcome) ==
    CASE outcome = "completed" -> "assessment_recorded"
      [] outcome = "failed"    -> "provider_attempt_failed"
      [] outcome = "uncertain" -> "provider_attempt_uncertain"

\* finishAttempt's transaction: a no-op unless the attempt is still current.
MutantUncertainNotSaved(m, outcome) ==
    IF Current(m) /\ outcome # "uncertain"
    THEN /\ manifest' = [manifest EXCEPT ![m].attempt = outcome]
         /\ review' = [review EXCEPT ![manifest[m].review] = Saved(@, StatusAfter(outcome))]
    ELSE UNCHANGED <<manifest, review>>
MutantOverwrite(m, outcome) ==
    /\ manifest' = [manifest EXCEPT ![m].attempt = outcome]
    /\ review' = review
Record(m, outcome) ==
    IF Current(m)
    THEN /\ manifest' = [manifest EXCEPT ![m].attempt = outcome]
         /\ review' = [review EXCEPT ![manifest[m].review] = Saved(@, StatusAfter(outcome))]
    ELSE UNCHANGED <<manifest, review>>

\* The call returns, times out, fails or is aborted, and its result is recorded.
\* An answer needs a body that was sent; a timeout or an abort does not.  When
\* the answer cannot be saved, the outcome written is `uncertain'.
FinishAttempt(m, outcome) ==
    /\ request[m] # "idle"
    /\ outcome = "completed" => request[m] = "sent"
    /\ Record(m, outcome)
    /\ request' = [request EXCEPT ![m] = "idle"]
    /\ UNCHANGED <<memory, log, issued, provider, open, sends>>

\* Neither the result nor the uncertainty could be written: the call is over
\* and the store still says running.
AnswerLost(m) ==
    /\ StorageFaults
    /\ request[m] # "idle"
    /\ request' = [request EXCEPT ![m] = "idle"]
    /\ UNCHANGED <<review, manifest, memory, log, issued, provider, open, sends>>

\* cancelAttempt: recorded first, then the call is aborted, and its own finish,
\* whenever it comes, is no longer current.
CancelAttempt(r) ==
    /\ open /\ Running(r)
    /\ Record(review[r].lastAttempt, "uncertain")
    /\ UNCHANGED <<memory, log, issued, provider, open, request, sends>>

\* cancel: any review that is neither terminal nor running.  The save reads the
\* manifest back, so an erased manifest that it would change refuses the cancel.
Cancel(r) ==
    LET m    == review[r].manifest
        ends == m # None /\ manifest[m].status \in {"prepared", "confirmed"}
        kept == AttemptsCancelled({r})
    IN  /\ open /\ Replaceable(r)
        /\ ends => manifest[m].proof = None
        /\ manifest' = [x \in Manifest |->
                IF ends /\ x = m THEN [kept[x] EXCEPT !.status = "cancelled"] ELSE kept[x]]
        /\ review' = [review EXCEPT ![r] = [Saved(@, "cancelled") EXCEPT !.draft = NoDraft]]
        /\ UNCHANGED <<memory, log, issued, provider, open, request, sends>>

-----------------------------------------------------------------------------
(* Canonical effects.                                                      *)

MutantAnyBase(r) == review[r].status \in Committable
Previewable(r) == review[r].status \in Committable /\ review[r].base = Revision

\* prepareEffect: a new preview gets a new authority command.
PrepareEffect(r, c, k) ==
    /\ open /\ Previewable(r)
    /\ Issue(c)
    /\ LET aff == IF k = "formal_direction_change" THEN Affected(r) ELSE {}
       IN  /\ aff # {} => \A m \in Manifest : Decodable(m)
           /\ review' = [review EXCEPT ![r] =
                [Saved(@, review[r].status) EXCEPT
                    !.draft = [command |-> c, kind |-> k, base |-> Revision,
                               live |-> TRUE, affected |-> aff]]]
    /\ UNCHANGED <<manifest, memory, log, provider, open, request, sends>>

\* The checks of commitCanonical on the review's own draft, and of a direction
\* change on the reviews and manifests its preview named.
MutantAnyHead(r) == review[r].status \in Committable /\ review[r].draft.live
Accepts(r) ==
    LET d == review[r].draft IN
    /\ d.base = Revision
    /\ review[r].status \in Committable
    /\ d.live
    /\ d.kind = "formal_direction_change" => d.affected = Affected(r)

\* A direction change ends running attempts as uncertain, stales every other
\* open review and every manifest of theirs that is not stale or cancelled.
MutantNotRunning(r) == {x \in Review \ {r} : IsOpen(x) /\ ~Running(x)}
OthersOpen(r) == {x \in Review \ {r} : IsOpen(x)}
Redirected(r) ==
    LET others  == OthersOpen(r)
        ended   == {x \in others : Running(x)}
        kept    == AttemptsCancelled(others)
    IN  /\ review' = [x \in Review |->
                CASE x = r -> Saved(review[x], "committed")
                  [] x \in ended -> Staled(Saved(review[x], "provider_attempt_uncertain"))
                  [] x \in others \ ended -> Staled(review[x])
                  [] OTHER -> review[x]]
        /\ manifest' = [m \in Manifest |->
                LET mine == manifest[m].review \in others
                    live == mine /\ manifest[m].status \notin {"stale", "cancelled"}
                IN  [kept[m] EXCEPT
                        !.status  = IF live THEN "stale" ELSE @,
                        !.attempt = IF \E x \in ended : review[x].lastAttempt = m /\ Current(m)
                                    THEN "uncertain" ELSE @]]

CommitEffect(r) ==
    LET d == review[r].draft IN
    /\ open /\ d.command # None /\ ~Applied(d.command)
    /\ Accepts(r)
    /\ AppendEntry(d.command, r, d.kind, d.base)
    /\ IF d.kind = "formal_direction_change"
       THEN /\ \A m \in Manifest : Decodable(m)
            /\ Redirected(r)
       ELSE /\ review' = [review EXCEPT ![r] =
                    Saved(@, IF d.kind = "record_only" THEN "disposed" ELSE "committed")]
            /\ UNCHANGED manifest
    /\ UNCHANGED <<memory, issued, provider, open, request, sends>>

\* A commit refused as stale_revision or stale_object rolls back, and a second
\* transaction marks the review stale.  The head is compared before the status.
CommitRefused(r) ==
    LET d == review[r].draft IN
    /\ open /\ d.command # None /\ ~Applied(d.command)
    /\ d.base # Revision \/ review[r].status \in Committable
    /\ ~Accepts(r)
    /\ Replaceable(r)
    /\ review[r].version < MaxVersion
    /\ review' = [review EXCEPT ![r] = Staled(@)]
    /\ manifest' = AttemptsCancelled({r})
    /\ UNCHANGED <<memory, log, issued, provider, open, request, sends>>

-----------------------------------------------------------------------------
(* Working memory.  Every change of an item is a canonical commit without a *)
(* review; the expected revision is the head the user saw.                 *)

\* An item whose retention date passes is unusable with no write at all.
MemoryExpires(i) ==
    /\ memory[i] = "active"
    /\ memory' = [memory EXCEPT ![i] = "expired"]
    /\ UNCHANGED <<review, manifest, log, issued, provider, open, request, sends>>

\* The transitions of governMemory other than forget: edit, confirm, renew,
\* retire, recheck.
Governed ==
    {t \in MemoryState \X MemoryState :
        \/ t[1] # "forgotten" /\ t[2] = "candidate"
        \/ t = <<"candidate", "active">>
        \/ t[1] \in {"active", "expired"} /\ t[2] = "active"
        \/ t[1] \notin {"retired", "forgotten"} /\ t[2] = "retired"
        \/ t = <<"expired", "expired">>}

\* governMemory: the command is new (a repeated one returns its old receipt) and
\* the user's revision is the head.
GovernMemory(c, i, to) ==
    /\ open /\ Issue(c)
    /\ <<memory[i], to>> \in Governed
    /\ memory' = [memory EXCEPT ![i] = to]
    /\ AppendEntry(c, None, "memory_governance_change", Revision)
    /\ UNCHANGED <<review, manifest, provider, open, request, sends>>

\* governMemory with forget, which erases every tracked copy in the same
\* transaction (redactKernelMemoryCopies): the bodies of the manifests that
\* selected the item, and with them their attempts; every open review that owns
\* such a manifest, old or current, becomes stale by a raw update.
MutantCurrentCopies(i) ==
    {m \in Manifest : /\ i \in manifest[m].selected /\ manifest[m].proof = None
                      /\ review[manifest[m].review].manifest = m}
Copies(i) == {m \in Manifest : i \in manifest[m].selected /\ manifest[m].proof = None}

Forget(c, i) ==
    LET hit(m)   == m \in Copies(i)
        erase(a) == CASE a = "running" -> "uncertain"
                      [] a = "prepared" -> "cancelled"
                      [] OTHER -> a
    IN  /\ open /\ Issue(c)
        /\ memory[i] # "forgotten"
        /\ memory' = [memory EXCEPT ![i] = "forgotten"]
        /\ manifest' = [m \in Manifest |->
                IF hit(m) THEN [manifest[m] EXCEPT !.proof = manifest[m].status,
                                                   !.attempt = erase(@)]
                          ELSE manifest[m]]
        /\ review' = [r \in Review |->
                IF IsOpen(r) /\ \E m \in Manifest : hit(m) /\ manifest[m].review = r
                THEN Staled(review[r]) ELSE review[r]]
        /\ AppendEntry(c, None, "privacy_redaction", Revision)
        /\ UNCHANGED <<provider, open, request, sends>>

-----------------------------------------------------------------------------
(* The process and its surroundings.                                       *)

ChangeProvider(p) ==
    /\ p # provider
    /\ provider' = p
    /\ UNCHANGED <<review, manifest, memory, log, issued, open, request, sends>>

\* A running attempt becomes uncertain; nothing is sent again.
Interrupted(S) ==
    /\ manifest' = [m \in Manifest |->
            IF m \in S THEN [manifest[m] EXCEPT !.attempt = "uncertain"] ELSE manifest[m]]
    /\ review' = [r \in Review |->
            IF \E m \in S : manifest[m].review = r
            THEN Saved(review[r], "provider_attempt_uncertain") ELSE review[r]]

\* close: the requests in flight are recorded as uncertain, then dropped.
Close ==
    /\ open
    /\ Interrupted({m \in Manifest : request[m] # "idle" /\ Current(m)})
    /\ open' = FALSE
    /\ request' = [m \in Manifest |-> "idle"]
    /\ UNCHANGED <<memory, log, issued, provider, sends>>

Crash ==
    /\ open
    /\ open' = FALSE
    /\ request' = [m \in Manifest |-> "idle"]
    /\ UNCHANGED <<review, manifest, memory, log, issued, provider, sends>>

RecoverWorkflows ==
    /\ RunningAttemptsCurrent
    /\ Interrupted({m \in Manifest : manifest[m].attempt = "running"})

\* openResearchDeliberationKernel: validation, then recovery.
MutantNotRecovered ==
    /\ ~open
    /\ open' = TRUE
    /\ UNCHANGED <<review, manifest, memory, log, issued, provider, request, sends>>
Open ==
    /\ ~open
    /\ \A m \in Manifest : Decodable(m)
    /\ \A r \in Review : Related(r)
    /\ RecoverWorkflows
    /\ open' = TRUE
    /\ UNCHANGED <<memory, log, issued, provider, request, sends>>

\* recover: the same recovery on the open project, requests in flight or not.
Recover ==
    /\ open
    /\ RecoverWorkflows
    /\ UNCHANGED <<memory, log, issued, provider, open, request, sends>>

-----------------------------------------------------------------------------
Workflow(r) ==
    \/ CreateDraft(r)
    \/ Edit(r)
    \/ \E m \in Manifest, p \in Provider \cup {None}, sel \in SUBSET Memory :
          PrepareManifest(r, m, p, sel)
    \/ ConfirmManifest(r)
    \/ PrepareAttempt(r)
    \/ StartAttempt(r)
    \/ CancelAttempt(r)
    \/ Cancel(r)
    \/ \E c \in Command, k \in EffectKind : PrepareEffect(r, c, k)
    \/ CommitEffect(r)
    \/ CommitRefused(r)

Call(m) ==
    \/ BeforeWrite(m)
    \/ \E outcome \in AttemptOutcome : FinishAttempt(m, outcome)
    \/ AnswerLost(m)

Governance(i) ==
    \/ MemoryExpires(i)
    \/ \E c \in Command, to \in MemoryState : GovernMemory(c, i, to)
    \/ \E c \in Command : Forget(c, i)

Environment ==
    \/ \E p \in Provider \cup {None} : ChangeProvider(p)
    \/ Close
    \/ Crash
    \/ Open
    \/ Recover

Next ==
    \/ \E r \in Review : Workflow(r)
    \/ \E m \in Manifest : Call(m)
    \/ \E i \in Memory : Governance(i)
    \/ Environment

Spec == Init /\ [][Next]_vars

\* setTimeout ends every call (provider_timeout), and the user opens the project
\* again.  Nothing else is promised: no user has to act, no Provider to answer.
Fairness ==
    /\ \A m \in Manifest : WF_vars(\E outcome \in AttemptOutcome : FinishAttempt(m, outcome))
    /\ WF_vars(Open)

FairSpec == Spec /\ Fairness

-----------------------------------------------------------------------------
(* Safety.                                                                 *)

\* What validateKernelRelations assumes whenever it reads a project: a review's
\* status is the status of its last attempt, and while an attempt decides the
\* status it is the attempt of the manifest the user confirmed, so that a
\* receipt never names another manifest's assessment.
StatusMatchesAttempt ==
    \A r \in Review :
        /\ Related(r)
        /\ review[r].status \in DOMAIN LastAttemptStatus =>
              review[r].lastAttempt = review[r].manifest

\* A preview that can still be approved was built on the revision on which the
\* review's current manifest was: edits, new manifests, refused commits, other
\* users' commits and Forget all take the preview back before that changes.
PreviewBoundToManifest ==
    \A r \in Review : review[r].draft.live =>
        /\ review[r].draft.base = review[r].base
        /\ review[r].manifest # None
        /\ manifest[review[r].manifest].base = review[r].base

\* No lost update: a review's change is applied to exactly the revision on which
\* its preview, and the manifest its reader or Provider saw, were built.
CommittedOnReviewedRevision ==
    \A k \in 2..Len(log) :
        /\ log[k].base = k - 1
        /\ log[k].review # None =>
              manifest[review[log[k].review].manifest].base = k - 1

\* An authority command changes the project at most once, whatever is retried,
\* and a review is decided by at most one entry, exactly when its status says so.
EachDecisionOnce ==
    /\ \A j, k \in 1..Len(log) : log[j].command = log[k].command => j = k
    /\ \A j, k \in 1..Len(log) :
          log[j].review # None /\ log[j].review = log[k].review => j = k
    /\ \A r \in Review : review[r].status \in {"disposed", "committed"} <=>
          \E k \in 1..Len(log) : log[k].review = r

\* `Running is committed before network I/O. No retry or resume occurs
\* implicitly': a body is sent at most once, only under an attempt the store
\* already records, and an assessment is recorded only for a body that was sent.
SendsAreRecorded ==
    \A m \in Manifest :
        /\ sends[m] <= 1
        /\ sends[m] = 1 =>
              /\ manifest[m].status \in {"sent", "stale"}
              /\ manifest[m].attempt \in {"running", "completed", "failed", "uncertain"}
        /\ manifest[m].attempt = "completed" => sends[m] = 1

\* After Forget no tracked body of the item is left, no attempt on one may still
\* start or complete, and no review can be decided on such a manifest.
ForgottenIsErased ==
    \A m \in Manifest : \A i \in manifest[m].selected : memory[i] = "forgotten" =>
        /\ manifest[m].proof # None
        /\ manifest[m].attempt \notin {"prepared", "running"}
        /\ \A r \in Review :
              IsOpen(r) /\ review[r].manifest = m => review[r].status = "stale"

\* recoverKernelWorkflows can always resolve a running attempt, unless a Forget
\* erased another manifest of the same review (RunningAttemptsCurrent is what it
\* asks without that exception).
StrandedOnlyByForget ==
    \A m \in Manifest : manifest[m].attempt = "running" =>
        \/ Current(m)
        \/ \E x \in Manifest : manifest[x].review = manifest[m].review
                              /\ manifest[x].proof # None

\* An attempt the open project records as running has a call that will end it:
\* no interleaving of cancel, recover, close and reopen orphans it.
RunningHasCaller ==
    open => \A m \in Manifest : Current(m) => request[m] # "idle"

\* An erased manifest stays readable: its record is the one the redaction row
\* vouches for (validateKernelBodyRedaction).
ErasedManifestsReadable == \A m \in Manifest : Decodable(m)

-----------------------------------------------------------------------------
(* What a step may never do.                                               *)

\* Results and outcomes are final: a late answer, a retried cancel, a recovery
\* or a Forget changes neither a finished attempt's status nor a closed review.
FinishedIsFinal ==
    [][/\ \A m \in Manifest : manifest[m].attempt \in Finished =>
              manifest'[m].attempt = manifest[m].attempt
       /\ \A r \in Review : review[r].status \in Terminal => review'[r] = review[r]]_vars

\* A direction change leaves no other review that could be approved, and no
\* manifest of one that could be sent, without being prepared again.
DirectionChangeStalesTheRest ==
    [][(Len(log') > Len(log) /\ log'[Len(log')].kind = "formal_direction_change") =>
         \A x \in Review : (IsOpen(x) /\ log'[Len(log')].review # x) =>
            /\ review'[x].status = "stale"
            /\ ~review'[x].draft.live
            /\ \A m \in Manifest : manifest[m].review = x =>
                  manifest'[m].status \in {"stale", "cancelled"}]_vars

\* A stale review comes back only with a manifest it never had, so nothing that
\* was confirmed, sent or previewed before it went stale counts afterwards.
StaleNeedsNewManifest ==
    [][\A r \in Review :
         (review[r].status = "stale" /\ review'[r].status \notin {"stale", "cancelled"}) =>
            /\ manifest[review'[r].manifest].status = "absent"
            /\ ~review'[r].draft.live]_vars

\* The kernel implements AuthorityLog: every canonical commit is a decision or a
\* governance change on the revision its command was issued on, every preview
\* issues one fresh command, and nothing else touches authority.
Authority == INSTANCE AuthorityLog WITH
    changes <- [k \in 1..Len(log) |->
                   [command |-> log[k].command, review |-> log[k].review]],
    issued  <- issued
AuthoritySpec == Authority!Spec

-----------------------------------------------------------------------------
(* Liveness, under FairSpec.                                               *)

\* A running review does not run forever: its call times out, or the process
\* dies and the next open finds the attempt uncertain.
RunningSettles ==
    \A r \in Review : Running(r) ~> ~Running(r)

\* A project that was closed or that crashed, in any state of its reviews and of
\* its Provider calls, passes its own validation and recovery and opens again.
ProjectReopens == ~open ~> open
=============================================================================
