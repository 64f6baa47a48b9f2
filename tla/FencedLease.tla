----------------------------- MODULE FencedLease -----------------------------
(***************************************************************************)
(* The life of one row of a lease table: an event being processed, a       *)
(* message being delivered to one target (lease.ts and the repositories    *)
(* that claim through it), or a maintenance lock (maintenance-lock.ts).    *)
(*                                                                         *)
(* Each action is one write transaction; one that would throw changes      *)
(* nothing and is not a step.  Between its transactions a process works on *)
(* what it was granted, for as long as it likes.  A token is a random UUID;*)
(* here tokens are numbered in the order in which they were granted.       *)
(***************************************************************************)
EXTENDS Integers, Sequences

CONSTANTS
    Process,
    OwnerOf,        \* the owner id with which a process claims
    Payload,        \* an event's content hash and its project and session
    None,           \* no row; nothing held
    TTL,            \* the term of a lease; every caller takes the default
    MaxTime,        \* bound: the clock
    MaxGrants,      \* bound: tokens granted
    MaxUses         \* bound: recorded uses

ASSUME TermAssumption == TTL \in Nat \ {0}
ASSUME BoundAssumption ==
    MaxTime \in Nat /\ MaxGrants \in Nat /\ MaxUses \in Nat

VARIABLES
    table,      \* which table the row belongs to
    now,        \* Date.now(): one machine's clock
    deadline,   \* expires_at of the message that is delivered
    row,        \* the lease or lock row
    event,      \* the event row of the same idempotency key
    held,       \* what each process was last granted, as it knows it
    granted,    \* history: tokens granted
    used,       \* decisions, delivery attempts or renewals, in their order
    disowned    \* history: tokens still held when a process of the same owner
                \* deleted the row

vars == <<table, now, deadline, row, event, held, granted, used, disowned>>

Table == {"event", "delivery", "lock"}
Status == {"delivered", "failed", "expired"}
Row ==
    [owner : {OwnerOf[p] : p \in Process}, token : Nat, expires : Nat,
     payload : Payload \cup {None}, completed : BOOLEAN]
Grant == [token : Nat, until : Nat, payload : Payload \cup {None}]
Use == [token : Nat, as : Status \cup {"decision", "renewal"}, payload : Payload \cup {None}]

ASSUME NoneAssumption == None \notin Row /\ None \notin Grant /\ None \notin Payload

Init ==
    /\ table \in Table
    /\ now = 0
    /\ deadline \in IF table = "delivery" THEN 1..MaxTime ELSE {MaxTime}
    /\ row = None /\ event = None
    /\ held = [p \in Process |-> None]
    /\ granted = 0
    /\ used = <<>>
    /\ disowned = {}

-----------------------------------------------------------------------------
Unexpired == row # None /\ row.expires > now

\* Mutant: an unexpired lease of another owner is taken over.
MutantClaimable(p) == TRUE
\* A lease may be claimed again by its owner, before and after a crash.
Claimable(p) == Unexpired => row.owner = OwnerOf[p]

\* The row of p's grant, still in force.
Holds(p) ==
    /\ held[p] # None /\ Unexpired
    /\ row.owner = OwnerOf[p] /\ row.token = held[p].token

Granted(p, payload) ==
    /\ granted < MaxGrants
    /\ granted' = granted + 1
    /\ row' = [owner |-> OwnerOf[p], token |-> granted', expires |-> now + TTL,
               payload |-> payload, completed |-> FALSE]
    /\ held' = [held EXCEPT ![p] =
                   [token |-> granted', until |-> now + TTL, payload |-> payload]]

Record(p, as) ==
    /\ Len(used) < MaxUses
    /\ used' = Append(used, [token |-> held[p].token, as |-> as, payload |-> held[p].payload])

-----------------------------------------------------------------------------
(* Events.                                                                 *)

\* Mutant: what an earlier attempt stored under the key is not compared.
MutantSameEvent(payload) == TRUE
SameEvent(payload) == event # None => event = payload

\* A completed event answers with its decision, which changes nothing.
ReserveEvent(p, payload) ==
    /\ table = "event"
    /\ row # None => ~row.completed /\ row.payload.hash = payload.hash
    /\ Claimable(p)
    /\ SameEvent(payload)
    /\ event' = IF event = None THEN payload ELSE event
    /\ Granted(p, payload)
    /\ UNCHANGED <<table, now, deadline, used, disowned>>

\* Mutant: decisions may share an event.
MutantUndecided == TRUE
\* decisions.event_id is UNIQUE.
Undecided == used = <<>>

CompleteEvent(p) ==
    /\ table = "event"
    /\ Undecided
    /\ Holds(p)
    /\ Record(p, "decision")
    /\ row' = [row EXCEPT !.completed = TRUE]
    /\ UNCHANGED <<table, now, deadline, event, held, granted, disowned>>

-----------------------------------------------------------------------------
(* Deliveries.                                                             *)

\* Mutant: what was delivered is claimed again.
MutantUndelivered == TRUE
Undelivered == \A k \in DOMAIN used : used[k].as # "delivered"

ReserveDelivery(p) ==
    /\ table = "delivery"
    /\ deadline > now
    /\ Undelivered
    /\ Claimable(p)
    /\ Granted(p, None)
    /\ UNCHANGED <<table, now, deadline, event, used, disowned>>

\* Mutant: the credential's token is not compared.
MutantCredential(p) == held[p] # None /\ Unexpired /\ row.owner = OwnerOf[p]
Credential(p) == Holds(p)

AppendAttempt(p, status) ==
    /\ table = "delivery"
    /\ Credential(p)
    /\ deadline <= now => status = "expired"
    /\ Record(p, status)
    /\ UNCHANGED <<table, now, deadline, row, event, held, granted, disowned>>

Siblings(p) == {q \in Process \ {p} : OwnerOf[q] = OwnerOf[p]}

\* Not by token: the row of whatever its owner was granted last is deleted,
\* another process's grant included, and that process is not told.
ReleaseDelivery(p) ==
    /\ table = "delivery" /\ held[p] # None
    /\ IF row # None /\ row.owner = OwnerOf[p]
       THEN /\ row' = None
            /\ disowned' = disowned \cup
                  {held[q].token : q \in {r \in Siblings(p) : held[r] # None}}
       ELSE UNCHANGED <<row, disowned>>
    /\ held' = [held EXCEPT ![p] = None]
    /\ UNCHANGED <<table, now, deadline, event, granted, used>>

-----------------------------------------------------------------------------
(* The maintenance lock; a process stands for one MaintenanceLock object.  *)

AcquireLock(p) ==
    /\ table = "lock" /\ held[p] = None
    /\ ~Unexpired
    /\ Granted(p, None)
    /\ UNCHANGED <<table, now, deadline, event, used, disowned>>

RenewLock(p) ==
    /\ table = "lock" /\ held[p] # None
    /\ IF Unexpired /\ row.token = held[p].token
       THEN /\ row' = [row EXCEPT !.expires = now + TTL]
            /\ held' = [held EXCEPT ![p].until = now + TTL]
            /\ Record(p, "renewal")
       ELSE /\ held' = [held EXCEPT ![p] = None]
            /\ UNCHANGED <<row, used>>
    /\ UNCHANGED <<table, now, deadline, event, granted, disowned>>

\* Mutant: the row is deleted by name alone.
MutantReleased(p) == None
Released(p) == IF row # None /\ row.token = held[p].token THEN None ELSE row

ReleaseLock(p) ==
    /\ table = "lock" /\ held[p] # None
    /\ row' = Released(p)
    /\ held' = [held EXCEPT ![p] = None]
    /\ UNCHANGED <<table, now, deadline, event, granted, used, disowned>>

-----------------------------------------------------------------------------
Crash(p) ==
    /\ held[p] # None
    /\ held' = [held EXCEPT ![p] = None]
    /\ UNCHANGED <<table, now, deadline, row, event, granted, used, disowned>>

Tick ==
    /\ now < MaxTime
    /\ now' = now + 1
    /\ UNCHANGED <<table, deadline, row, event, held, granted, used, disowned>>

Next ==
    \/ \E p \in Process :
          \/ \E payload \in Payload : ReserveEvent(p, payload)
          \/ CompleteEvent(p)
          \/ ReserveDelivery(p)
          \/ \E status \in Status : AppendAttempt(p, status)
          \/ ReleaseDelivery(p)
          \/ AcquireLock(p) \/ RenewLock(p) \/ ReleaseLock(p)
          \/ Crash(p)
    \/ Tick

Spec == Init /\ [][Next]_vars

-----------------------------------------------------------------------------
(* Properties.                                                             *)

TypeOK ==
    /\ table \in Table /\ now \in Nat /\ deadline \in Nat
    /\ row \in Row \cup {None} /\ event \in Payload \cup {None}
    /\ held \in [Process -> Grant \cup {None}]
    /\ granted \in Nat /\ used \in Seq(Use)
    /\ disowned \in SUBSET Nat

(* What takes effect follows the order of the grants: once a process was   *)
(* granted the row, nothing an earlier one still tries is recorded, however*)
(* late it comes and although owners are shared and clocks run out.        *)
Fenced ==
    \A j, k \in DOMAIN used : j < k => used[j].token <= used[k].token

(* Two owners never both believe, within their terms, that the row is      *)
(* theirs; two holders of a maintenance lock never do, same owner or not.  *)
(* Deliveries have one exception, which a comment of the code rules out    *)
(* (lease.ts:224): a process whose sibling deleted the row beneath it goes *)
(* on believing, while another owner may already hold the message.         *)
Live(p) == held[p] # None /\ held[p].until > now
Exclusive ==
    \A p, q \in Process : p # q /\ Live(p) /\ Live(q) =>
        \/ table # "lock" /\ OwnerOf[p] = OwnerOf[q]
        \/ table = "delivery" /\ {held[p].token, held[q].token} \cap disowned # {}

(* An event is decided at most once, by the process granted it last, and   *)
(* on the payload under which its key was first stored.                    *)
DecidedOnce ==
    table = "event" /\ used # <<>> =>
        /\ Len(used) = 1
        /\ row # None /\ row.completed /\ used[1].token = row.token
        /\ used[1].payload = event

(* Once a message was delivered to a target, no later grant exists with    *)
(* which it could be delivered again.                                      *)
DeliveredEnds ==
    \A j \in DOMAIN used : used[j].as = "delivered" => used[j].token = granted
=============================================================================
