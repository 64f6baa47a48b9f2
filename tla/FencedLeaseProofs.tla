-------------------------- MODULE FencedLeaseProofs --------------------------
(***************************************************************************)
(* Proofs about FencedLease, for any processes, owners, payloads, term and *)
(* bounds.                                                                 *)
(***************************************************************************)
EXTENDS FencedLease, TLAPS

(* What a process believes within its term is what the row says, unless a  *)
(* process of its owner deleted the row beneath it; tokens are granted     *)
(* once, and no grant lasts longer than a term.                            *)
Backed(p) ==
    Live(p) /\ held[p].token \notin disowned =>
        /\ row # None
        /\ row.owner = OwnerOf[p]
        /\ row.expires >= held[p].until
        /\ table = "lock" => row.token = held[p].token

GrantsOK ==
    /\ \A p \in Process : held[p] # None =>
          held[p].token <= granted /\ held[p].until <= now + TTL
    /\ \A p, q \in Process : p # q /\ held[p] # None /\ held[q] # None =>
          held[p].token # held[q].token
    /\ \A p \in Process : held[p] # None /\ row # None /\ row.token = held[p].token =>
          row.owner = OwnerOf[p]
    /\ \A p \in Process : Backed(p)
    /\ \A token \in disowned : token <= granted
    /\ table # "delivery" => disowned = {}

(* The row is of the last grant, and nothing recorded is of a later one.   *)
UsesOK ==
    /\ row # None => row.token = granted
    /\ \A j \in DOMAIN used : used[j].token <= granted
    /\ table # "delivery" => \A j \in DOMAIN used : used[j].as # "delivered"
    /\ Fenced

(* Whoever holds an event holds it on the payload that was stored.         *)
EventOK ==
    /\ table = "event" =>
          \A p \in Process : held[p] # None => event # None /\ held[p].payload = event
    /\ DecidedOnce

IInv == TypeOK /\ GrantsOK /\ UsesOK /\ EventOK /\ DeliveredEnds

-----------------------------------------------------------------------------
(* A record of a use lengthens the history by the process's grant.         *)
LEMMA RecordAppends ==
    ASSUME TypeOK, NEW p \in Process, held[p] # None,
           NEW as \in Status \cup {"decision", "renewal"}, Record(p, as)
    PROVE  /\ used' \in Seq(Use)
           /\ Len(used') = Len(used) + 1
           /\ DOMAIN used' = 1..(Len(used) + 1) /\ DOMAIN used = 1..Len(used)
           /\ \A j \in DOMAIN used : used'[j] = used[j]
           /\ used'[Len(used) + 1].token = held[p].token
           /\ used'[Len(used) + 1].as = as
           /\ used'[Len(used) + 1].payload = held[p].payload
           /\ Len(used) \in Nat
<1>1. held[p] \in Grant
  BY DEF TypeOK
<1>2. [token |-> held[p].token, as |-> as, payload |-> held[p].payload] \in Use
  BY <1>1 DEF Grant, Use
<1> DEFINE use == [token |-> held[p].token, as |-> as, payload |-> held[p].payload]
<1>3. used \in Seq(Use) /\ used' = Append(used, use) /\ use \in Use
  BY <1>2 DEF TypeOK, Record
<1> HIDE DEF use
<1>4. /\ used' \in Seq(Use)
      /\ Len(used') = Len(used) + 1
      /\ DOMAIN used' = 1..(Len(used) + 1) /\ DOMAIN used = 1..Len(used)
      /\ \A j \in DOMAIN used : used'[j] = used[j]
      /\ used'[Len(used) + 1] = use
      /\ Len(used) \in Nat
  BY <1>3
<1>5. use.token = held[p].token /\ use.as = as /\ use.payload = held[p].payload
  BY DEF use
<1> QED
  BY <1>4, <1>5

(* A grant is a row and a belief of the same, new token.                   *)
LEMMA GrantedTypes ==
    ASSUME TypeOK, NEW p \in Process, NEW payload \in Payload \cup {None},
           Granted(p, payload)
    PROVE  /\ granted' = granted + 1 /\ granted' \in Nat
           /\ row' \in Row /\ row' # None
           /\ row'.token = granted + 1 /\ held'[p].payload = payload
           /\ held' \in [Process -> Grant \cup {None}]
           /\ held'[p] \in Grant /\ held'[p] # None
           /\ held'[p] = [token |-> granted + 1, until |-> now + TTL, payload |-> payload]
           /\ row' = [owner |-> OwnerOf[p], token |-> granted + 1, expires |-> now + TTL,
                      payload |-> payload, completed |-> FALSE]
           /\ \A q \in Process : q # p => held'[q] = held[q]
<1>1. granted' = granted + 1 /\ granted' \in Nat /\ now + TTL \in Nat
  BY TermAssumption DEF TypeOK, Granted
<1>2. row' \in Row
  BY <1>1 DEF Granted, Row
<1>3. [token |-> granted', until |-> now + TTL, payload |-> payload] \in Grant
  BY <1>1 DEF Grant
<1>4. held' = [held EXCEPT ![p] =
                 [token |-> granted', until |-> now + TTL, payload |-> payload]]
  BY DEF Granted
<1>5. held \in [Process -> Grant \cup {None}]
  BY DEF TypeOK
<1>6. /\ held' \in [Process -> Grant \cup {None}]
      /\ held'[p] = [token |-> granted', until |-> now + TTL, payload |-> payload]
      /\ \A q \in Process : q # p => held'[q] = held[q]
  BY <1>3, <1>4, <1>5
<1> QED
  BY <1>1, <1>2, <1>3, <1>6, NoneAssumption DEF Granted

-----------------------------------------------------------------------------
(* Every state is of the right type.                                       *)
LEMMA TypeStep == TypeOK /\ [Next]_vars => TypeOK'
<1> SUFFICES ASSUME TypeOK, [Next]_vars PROVE TypeOK'
  OBVIOUS
<1> USE DEF TypeOK
<1>1. ASSUME NEW p \in Process, NEW payload \in Payload, ReserveEvent(p, payload)
      PROVE  TypeOK'
  BY <1>1, GrantedTypes DEF ReserveEvent
<1>2. ASSUME NEW p \in Process, CompleteEvent(p)
      PROVE  TypeOK'
  <2>1. used' \in Seq(Use)
    BY <1>2, RecordAppends DEF CompleteEvent, Holds
  <2>2. row \in Row
    BY <1>2 DEF CompleteEvent, Holds, Unexpired
  <2>3. row' \in Row
    BY <1>2, <2>2 DEF CompleteEvent, Row
  <2> QED
    BY <1>2, <2>1, <2>3 DEF CompleteEvent
<1>3. ASSUME NEW p \in Process, ReserveDelivery(p)
      PROVE  TypeOK'
  BY <1>3, GrantedTypes DEF ReserveDelivery
<1>4. ASSUME NEW p \in Process, NEW status \in Status, AppendAttempt(p, status)
      PROVE  TypeOK'
  <2>1. used' \in Seq(Use)
    BY <1>4, RecordAppends DEF AppendAttempt, Credential, Holds
  <2> QED
    BY <1>4, <2>1 DEF AppendAttempt
<1>5. ASSUME NEW p \in Process, ReleaseDelivery(p)
      PROVE  TypeOK'
  <2>1. held' \in [Process -> Grant \cup {None}]
    BY <1>5 DEF ReleaseDelivery
  <2>2. \A q \in Siblings(p) : held[q] # None => held[q].token \in Nat
    BY DEF Grant, Siblings
  <2>3. {held[q].token : q \in {r \in Siblings(p) : held[r] # None}} \in SUBSET Nat
    BY <2>2
  <2>4. disowned' \in SUBSET Nat
    BY <1>5, <2>3 DEF ReleaseDelivery
  <2> QED
    BY <1>5, <2>1, <2>4 DEF ReleaseDelivery
<1>6. ASSUME NEW p \in Process, AcquireLock(p)
      PROVE  TypeOK'
  BY <1>6, GrantedTypes DEF AcquireLock
<1>7. ASSUME NEW p \in Process, RenewLock(p)
      PROVE  TypeOK'
  <2>1. CASE Unexpired /\ row.token = held[p].token
    <3>1. used' \in Seq(Use)
      BY <1>7, <2>1, RecordAppends DEF RenewLock
    <3>2. now + TTL \in Nat /\ row \in Row /\ held[p] \in Grant
      BY <1>7, <2>1, TermAssumption DEF RenewLock, Unexpired
    <3>3. row' \in Row
      BY <1>7, <2>1, <3>2 DEF RenewLock, Row
    <3>4. [held[p] EXCEPT !.until = now + TTL] \in Grant
      BY <3>2 DEF Grant
    <3>5. held' \in [Process -> Grant \cup {None}]
      BY <1>7, <2>1, <3>4 DEF RenewLock
    <3> QED
      BY <1>7, <3>1, <3>3, <3>5 DEF RenewLock
  <2>2. CASE ~(Unexpired /\ row.token = held[p].token)
    BY <1>7, <2>2 DEF RenewLock
  <2> QED
    BY <2>1, <2>2
<1>8. ASSUME NEW p \in Process, ReleaseLock(p)
      PROVE  TypeOK'
  BY <1>8 DEF ReleaseLock, Released
<1>9. ASSUME NEW p \in Process, Crash(p)
      PROVE  TypeOK'
  BY <1>9 DEF Crash
<1>10. CASE Tick
  BY <1>10 DEF Tick
<1>11. CASE UNCHANGED vars
  BY <1>11 DEF vars
<1> QED
  BY <1>1, <1>2, <1>3, <1>4, <1>5, <1>6, <1>7, <1>8, <1>9, <1>10, <1>11 DEF Next
-----------------------------------------------------------------------------
(* A grant to a process that may claim the row keeps everybody's belief.   *)
LEMMA GrantedKeepsGrants ==
    ASSUME TypeOK, GrantsOK, NEW p \in Process, NEW payload \in Payload \cup {None},
           Granted(p, payload), UNCHANGED <<table, now, disowned>>,
           \A q \in Process : q # p /\ Live(q) /\ held[q].token \notin disowned =>
               table # "lock" /\ OwnerOf[q] = OwnerOf[p]
    PROVE  GrantsOK'
<1>1. /\ granted' = granted + 1
      /\ row' # None
      /\ held'[p] = [token |-> granted + 1, until |-> now + TTL, payload |-> payload]
      /\ row' = [owner |-> OwnerOf[p], token |-> granted + 1, expires |-> now + TTL,
                 payload |-> payload, completed |-> FALSE]
      /\ \A q \in Process : q # p => held'[q] = held[q]
  BY GrantedTypes
<1>2. /\ row'.owner = OwnerOf[p] /\ row'.token = granted + 1 /\ row'.expires = now + TTL
      /\ held'[p].token = granted + 1 /\ held'[p].until = now + TTL
  BY <1>1
<1>3. /\ granted \in Nat /\ now \in Nat
      /\ \A q \in Process : held[q] # None => held[q].token \in Nat /\ held[q].until \in Nat
  BY DEF TypeOK, Grant
<1>4. ASSUME NEW q \in Process, held'[q] # None
      PROVE  held'[q].token <= granted' /\ held'[q].until <= now' + TTL
  BY <1>1, <1>2, <1>3, <1>4, TermAssumption DEF GrantsOK
<1>5. ASSUME NEW q \in Process, NEW r \in Process, q # r, held'[q] # None, held'[r] # None
      PROVE  held'[q].token # held'[r].token
  <2>1. ASSUME NEW s \in Process, s # p, held[s] # None
        PROVE  held[s].token # granted + 1
    BY <1>3, <2>1 DEF GrantsOK
  <2> QED
    BY <1>1, <1>2, <1>5, <2>1 DEF GrantsOK
<1>6. ASSUME NEW q \in Process
      PROVE  Backed(q)'
  <2>1. CASE q = p
    BY <1>1, <1>2, <1>3, <2>1, TermAssumption DEF Backed
  <2>2. CASE q # p
    <3>1. held'[q] = held[q]
      BY <1>1, <2>2
    <3>2. ASSUME Live(q)', held'[q].token \notin disowned'
          PROVE  /\ row' # None /\ row'.owner = OwnerOf[q]
                 /\ row'.expires >= held'[q].until /\ table' # "lock"
      <4>1. Live(q) /\ held[q].token \notin disowned
        BY <3>1, <3>2 DEF Live
      <4>2. held[q].until <= now + TTL
        BY <4>1 DEF GrantsOK, Live
      <4> QED
        BY <1>1, <1>2, <1>3, <2>2, <3>1, <4>1, <4>2, TermAssumption DEF Live
    <3> QED
      BY <3>2 DEF Backed
  <2> QED
    BY <2>1, <2>2
<1>7. ASSUME NEW q \in Process, held'[q] # None, row'.token = held'[q].token
      PROVE  row'.owner = OwnerOf[q]
  <2>1. CASE q = p
    BY <1>2, <2>1
  <2>2. CASE q # p
    BY <1>1, <1>2, <1>3, <1>7, <2>2 DEF GrantsOK
  <2> QED
    BY <2>1, <2>2
<1>8. ASSUME NEW token \in disowned'
      PROVE  token <= granted'
  BY <1>1, <1>3, <1>8 DEF GrantsOK, TypeOK
<1>9. table' # "delivery" => disowned' = {}
  BY DEF GrantsOK
<1> QED
  BY <1>4, <1>5, <1>6, <1>7, <1>8, <1>9 DEF GrantsOK

(* So does anything that takes grants away but leaves the row, or notes    *)
(* the grants from which it takes the row.                                 *)
LEMMA FewerGrants ==
    ASSUME TypeOK, GrantsOK, granted' = granted, now' \in Nat, now' >= now, table' = table,
           \A q \in Process : held'[q] # None => held'[q] = held[q],
           row' # None => row' = row,
           disowned \subseteq disowned',
           \A token \in disowned' : token <= granted,
           table # "delivery" => disowned' = {},
           \A q \in Process : Live(q)' /\ held'[q].token \notin disowned' => row' = row
    PROVE  GrantsOK'
<1>1. /\ granted \in Nat /\ now \in Nat
      /\ \A q \in Process : held[q] # None => held[q].token \in Nat /\ held[q].until \in Nat
  BY DEF TypeOK, Grant
<1>2. ASSUME NEW q \in Process, held'[q] # None
      PROVE  held'[q].token <= granted' /\ held'[q].until <= now' + TTL
  BY <1>1, <1>2, TermAssumption DEF GrantsOK
<1>3. ASSUME NEW q \in Process, NEW r \in Process, q # r, held'[q] # None, held'[r] # None
      PROVE  held'[q].token # held'[r].token
  BY <1>3 DEF GrantsOK
<1>4. ASSUME NEW q \in Process
      PROVE  Backed(q)'
  <2>1. SUFFICES ASSUME Live(q)', held'[q].token \notin disowned'
                 PROVE  /\ row' # None /\ row'.owner = OwnerOf[q]
                        /\ row'.expires >= held'[q].until
                        /\ table' = "lock" => row'.token = held'[q].token
    BY DEF Backed
  <2>2. held'[q] # None /\ held'[q].until > now'
    BY <2>1 DEF Live
  <2>3. held[q] # None /\ held'[q] = held[q]
    BY <2>2
  <2>4. Live(q) /\ held[q].token \notin disowned
    BY <1>1, <2>1, <2>2, <2>3 DEF Live
  <2>5. row' = row
    BY <2>1
  <2> QED
    BY <2>3, <2>4, <2>5 DEF GrantsOK, Backed
<1>5. ASSUME NEW q \in Process, held'[q] # None, row' # None, row'.token = held'[q].token
      PROVE  row'.owner = OwnerOf[q]
  BY <1>5 DEF GrantsOK
<1> QED
  BY <1>2, <1>3, <1>4, <1>5 DEF GrantsOK

LEMMA DroppedGrants ==
    ASSUME TypeOK, GrantsOK, granted' = granted, now' \in Nat, now' >= now, table' = table,
           disowned' = disowned,
           \A q \in Process : held'[q] # None => held'[q] = held[q],
           row' # None => row' = row,
           \A q \in Process : Live(q)' => row' = row
    PROVE  GrantsOK'
<1>1. /\ disowned \subseteq disowned'
      /\ \A token \in disowned' : token <= granted
      /\ table # "delivery" => disowned' = {}
  BY DEF GrantsOK
<1> QED
  BY <1>1, FewerGrants

(* Who believes within its term that the row is its own keeps others out,  *)
(* unless the row was deleted beneath it.                                  *)
LEMMA LiveExcludes ==
    ASSUME TypeOK, GrantsOK, NEW q \in Process, Live(q), held[q].token \notin disowned
    PROVE  /\ Unexpired /\ row.owner = OwnerOf[q]
           /\ table = "lock" => row.token = held[q].token
<1>1. row # None /\ row.owner = OwnerOf[q] /\ row.expires >= held[q].until
  BY DEF GrantsOK, Backed
<1>2. now \in Nat /\ held[q].until \in Nat /\ row.expires \in Nat /\ held[q].until > now
  BY <1>1 DEF TypeOK, Grant, Row, Live
<1> QED
  BY <1>1, <1>2 DEF Unexpired, GrantsOK, Backed

LEMMA GrantsStep == TypeOK /\ GrantsOK /\ [Next]_vars => GrantsOK'
<1> SUFFICES ASSUME TypeOK, GrantsOK, [Next]_vars PROVE GrantsOK'
  OBVIOUS
<1>n. now \in Nat
  BY DEF TypeOK
<1>1. ASSUME NEW p \in Process, NEW payload \in Payload, ReserveEvent(p, payload)
      PROVE  GrantsOK'
  <2>1. ASSUME NEW q \in Process, Live(q), held[q].token \notin disowned
        PROVE  table # "lock" /\ OwnerOf[q] = OwnerOf[p]
    BY <1>1, <2>1, LiveExcludes DEF ReserveEvent, Claimable
  <2> QED
    BY <1>1, <2>1, GrantedKeepsGrants DEF ReserveEvent
<1>2. ASSUME NEW p \in Process, CompleteEvent(p)
      PROVE  GrantsOK'
  <2>1. /\ row' # None /\ row'.owner = row.owner /\ row'.token = row.token
        /\ row'.expires = row.expires
    <3>1. row \in Row /\ row' = [row EXCEPT !.completed = TRUE]
      BY <1>2 DEF CompleteEvent, Holds, Unexpired, TypeOK
    <3>2. row' \in Row
      BY <3>1 DEF Row
    <3> QED
      BY <3>1, <3>2, NoneAssumption DEF Row
  <2>2. UNCHANGED <<table, now, held, granted, disowned>> /\ row # None
    BY <1>2 DEF CompleteEvent, Holds, Unexpired
  <2>3. \A q \in Process : Backed(q)'
    BY <2>1, <2>2 DEF GrantsOK, Backed, Live
  <2> QED
    BY <2>1, <2>2, <2>3 DEF GrantsOK
<1>3. ASSUME NEW p \in Process, ReserveDelivery(p)
      PROVE  GrantsOK'
  <2>1. ASSUME NEW q \in Process, Live(q), held[q].token \notin disowned
        PROVE  table # "lock" /\ OwnerOf[q] = OwnerOf[p]
    BY <1>3, <2>1, LiveExcludes DEF ReserveDelivery, Claimable
  <2> QED
    BY <1>3, <2>1, GrantedKeepsGrants DEF ReserveDelivery
<1>4. ASSUME NEW p \in Process, NEW status \in Status, AppendAttempt(p, status)
      PROVE  GrantsOK'
  BY <1>4 DEF AppendAttempt, GrantsOK, Backed, Live
<1>5. ASSUME NEW p \in Process, ReleaseDelivery(p)
      PROVE  GrantsOK'
  <2>1. /\ table = "delivery" /\ held' = [held EXCEPT ![p] = None]
        /\ UNCHANGED <<table, now, granted>>
        /\ row' # None => row' = row
        /\ disowned \subseteq disowned'
    BY <1>5 DEF ReleaseDelivery
  <2>2. \A q \in Process : held'[q] # None => held'[q] = held[q] /\ q # p
    BY <2>1 DEF TypeOK
  <2>3. ASSUME NEW token \in disowned'
        PROVE  token <= granted
    BY <1>5, <2>3 DEF ReleaseDelivery, Siblings, GrantsOK
  <2>4. ASSUME NEW q \in Process, Live(q)', held'[q].token \notin disowned'
        PROVE  row' = row
    <3>1. Live(q) /\ q # p /\ held'[q] = held[q] /\ held[q] # None
      BY <2>1, <2>2, <2>4 DEF Live
    <3>2. held[q].token \notin disowned
      BY <2>1, <2>4, <3>1
    <3>3. row.owner = OwnerOf[q]
      BY <3>1, <3>2, LiveExcludes
    <3>4. CASE OwnerOf[q] = OwnerOf[p]
      <4>1. q \in Siblings(p)
        BY <3>1, <3>4 DEF Siblings
      <4> QED
        BY <1>5, <2>4, <3>1, <4>1 DEF ReleaseDelivery
    <3>5. CASE OwnerOf[q] # OwnerOf[p]
      BY <1>5, <3>3, <3>5 DEF ReleaseDelivery
    <3> QED
      BY <3>4, <3>5
  <2> QED
    BY <1>n, <2>1, <2>2, <2>3, <2>4, FewerGrants
<1>6. ASSUME NEW p \in Process, AcquireLock(p)
      PROVE  GrantsOK'
  <2>1. ASSUME NEW q \in Process, Live(q)
        PROVE  FALSE
    BY <1>6, <2>1, LiveExcludes DEF AcquireLock, GrantsOK
  <2> QED
    BY <1>6, <2>1, GrantedKeepsGrants DEF AcquireLock
<1>7. ASSUME NEW p \in Process, RenewLock(p)
      PROVE  GrantsOK'
  <2>1. CASE Unexpired /\ row.token = held[p].token
    <3>1. /\ row \in Row /\ held[p] \in Grant /\ held[p] # None /\ table = "lock"
          /\ held \in [Process -> Grant \cup {None}]
      BY <1>7, <2>1 DEF RenewLock, Unexpired, TypeOK
    <3>2. /\ row' = [row EXCEPT !.expires = now + TTL]
          /\ held' = [held EXCEPT ![p].until = now + TTL]
          /\ UNCHANGED <<table, now, granted, disowned>> /\ disowned = {}
      BY <1>7, <2>1, <3>1 DEF RenewLock, GrantsOK
    <3>3. now + TTL \in Nat
      BY <1>n, TermAssumption
    <3>4. row' \in Row /\ held'[p] \in Grant
      BY <3>1, <3>2, <3>3 DEF Row, Grant
    <3>5. /\ row' # None /\ held'[p] # None
          /\ row'.token = row.token /\ row'.owner = row.owner /\ row'.expires = now + TTL
          /\ held'[p].until = now + TTL /\ held'[p].token = held[p].token
      BY <3>1, <3>2, <3>4, NoneAssumption DEF Row, Grant
    <3>6. \A q \in Process : q # p => held'[q] = held[q] /\ ~Live(q)
      <4>1. ASSUME NEW q \in Process, q # p, Live(q)
            PROVE  FALSE
        BY <2>1, <3>1, <4>1, LiveExcludes DEF GrantsOK, Live
      <4> QED
        BY <3>1, <3>2, <4>1
    <3>7. ASSUME NEW q \in Process
          PROVE  Backed(q)'
      <4>1. CASE q = p
        <5>1. OwnerOf[p] = row.owner
          BY <2>1, <3>1 DEF Unexpired, GrantsOK
        <5> QED
          BY <2>1, <3>2, <3>3, <3>5, <4>1, <5>1 DEF Backed
      <4>2. CASE q # p
        BY <3>2, <3>6, <4>2 DEF Backed, Live
      <4> QED
        BY <4>1, <4>2
    <3>8. now + TTL <= now + TTL
      BY <3>3
    <3>9. ASSUME NEW q \in Process, held'[q] # None
          PROVE  /\ held'[q].token <= granted' /\ held'[q].until <= now' + TTL
                 /\ row'.token = held'[q].token => row'.owner = OwnerOf[q]
      BY <2>1, <3>1, <3>2, <3>5, <3>6, <3>8, <3>9 DEF Unexpired, GrantsOK
    <3>10. ASSUME NEW q \in Process, NEW r \in Process, q # r,
                  held'[q] # None, held'[r] # None
           PROVE  held'[q].token # held'[r].token
      BY <3>1, <3>5, <3>6, <3>10 DEF GrantsOK
    <3> QED
      BY <3>2, <3>7, <3>9, <3>10 DEF GrantsOK
  <2>2. CASE ~(Unexpired /\ row.token = held[p].token)
    <3>1. /\ held' = [held EXCEPT ![p] = None]
          /\ UNCHANGED <<table, now, granted, row, disowned>>
      BY <1>7, <2>2 DEF RenewLock
    <3>2. \A q \in Process : held'[q] # None => held'[q] = held[q]
      BY <3>1 DEF TypeOK
    <3> QED
      BY <1>n, <3>1, <3>2, DroppedGrants
  <2> QED
    BY <2>1, <2>2
<1>8. ASSUME NEW p \in Process, ReleaseLock(p)
      PROVE  GrantsOK'
  <2>1. /\ held' = [held EXCEPT ![p] = None] /\ held[p] # None /\ table = "lock"
        /\ UNCHANGED <<table, now, granted, disowned>> /\ row' = Released(p)
    BY <1>8 DEF ReleaseLock
  <2>2. \A q \in Process : held'[q] # None => held'[q] = held[q] /\ q # p
    BY <2>1 DEF TypeOK
  <2>3. ASSUME NEW q \in Process, Live(q)'
        PROVE  row' = row
    <3>1. Live(q) /\ q # p /\ held[q] # None
      BY <2>1, <2>2, <2>3 DEF Live
    <3>2. row.token # held[p].token
      BY <2>1, <3>1, LiveExcludes DEF GrantsOK
    <3> QED
      BY <2>1, <3>2 DEF Released
  <2> QED
    BY <1>n, <2>1, <2>2, <2>3, DroppedGrants DEF Released
<1>9. ASSUME NEW p \in Process, Crash(p)
      PROVE  GrantsOK'
  <2>1. /\ held' = [held EXCEPT ![p] = None]
        /\ UNCHANGED <<table, now, granted, row, disowned>>
    BY <1>9 DEF Crash
  <2>2. \A q \in Process : held'[q] # None => held'[q] = held[q]
    BY <2>1 DEF TypeOK
  <2> QED
    BY <1>n, <2>1, <2>2, DroppedGrants
<1>10. CASE Tick
  <2>1. now' \in Nat /\ now' >= now /\ UNCHANGED <<table, row, held, granted, disowned>>
    BY <1>10, <1>n DEF Tick
  <2> QED
    BY <2>1, DroppedGrants
<1>11. CASE UNCHANGED vars
  BY <1>11 DEF vars, GrantsOK, Backed, Live
<1> QED
  BY <1>1, <1>2, <1>3, <1>4, <1>5, <1>6, <1>7, <1>8, <1>9, <1>10, <1>11 DEF Next
-----------------------------------------------------------------------------
(* A grant is later than everything recorded.                              *)
LEMMA GrantedKeepsUses ==
    ASSUME TypeOK, UsesOK, NEW p \in Process, NEW payload \in Payload \cup {None},
           Granted(p, payload), UNCHANGED <<table, used>>
    PROVE  UsesOK'
<1>1. granted' = granted + 1 /\ granted \in Nat /\ row'.token = granted + 1
  <2>1. granted \in Nat
    BY DEF TypeOK
  <2> QED
    BY <2>1, GrantedTypes
<1>2. \A j \in DOMAIN used : used[j].token \in Nat
  <2>1. used \in Seq(Use)
    BY DEF TypeOK
  <2>2. \A j \in DOMAIN used : used[j] \in Use
    BY <2>1
  <2> QED
    BY <2>2 DEF Use
<1> QED
  BY <1>1, <1>2 DEF UsesOK, Fenced

(* Only the last grant is used.                                            *)
LEMMA RecordKeepsUses ==
    ASSUME TypeOK, UsesOK, NEW p \in Process, held[p] # None, row # None,
           row.token = held[p].token,
           NEW as \in Status \cup {"decision", "renewal"}, Record(p, as),
           table # "delivery" => as # "delivered",
           UNCHANGED <<table, granted>>, row' # None => row'.token = row.token
    PROVE  UsesOK'
<1>1. /\ DOMAIN used' = 1..(Len(used) + 1) /\ DOMAIN used = 1..Len(used) /\ Len(used) \in Nat
      /\ \A j \in DOMAIN used : used'[j] = used[j]
      /\ used'[Len(used) + 1].token = granted /\ used'[Len(used) + 1].as = as
  BY RecordAppends DEF UsesOK
<1>2. granted \in Nat
  BY DEF TypeOK
<1>3. ASSUME NEW j \in DOMAIN used'
      PROVE  used'[j].token <= granted' /\ (table' # "delivery" => used'[j].as # "delivered")
  <2>1. CASE j \in DOMAIN used
    <3>1. used'[j] = used[j]
      BY <1>1, <2>1
    <3>2. used[j].token <= granted /\ (table # "delivery" => used[j].as # "delivered")
      BY <2>1 DEF UsesOK
    <3> QED
      BY <3>1, <3>2
  <2>2. CASE j = Len(used) + 1
    <3>1. used'[j].token = granted /\ used'[j].as = as
      BY <1>1, <2>2
    <3>2. granted <= granted
      BY <1>2
    <3>3. granted' = granted /\ table' = table
      OBVIOUS
    <3> QED
      BY <3>1, <3>2, <3>3
  <2> QED
    BY <1>1, <2>1, <2>2
<1>4. ASSUME NEW j \in DOMAIN used', NEW k \in DOMAIN used', j < k
      PROVE  used'[j].token <= used'[k].token
  <2>1. CASE k \in DOMAIN used
    BY <1>1, <1>4, <2>1 DEF UsesOK, Fenced
  <2>2. CASE k = Len(used) + 1
    BY <1>1, <1>3, <1>4, <2>2
  <2> QED
    BY <1>1, <2>1, <2>2
<1> QED
  BY <1>3, <1>4 DEF UsesOK, Fenced

LEMMA UsesStep == TypeOK /\ UsesOK /\ [Next]_vars => UsesOK'
<1> SUFFICES ASSUME TypeOK, UsesOK, [Next]_vars PROVE UsesOK'
  OBVIOUS
<1>1. ASSUME NEW p \in Process, NEW payload \in Payload, ReserveEvent(p, payload)
      PROVE  UsesOK'
  BY <1>1, GrantedKeepsUses DEF ReserveEvent
<1>2. ASSUME NEW p \in Process, CompleteEvent(p)
      PROVE  UsesOK'
  <2>1. row'.token = row.token
    BY <1>2 DEF CompleteEvent, Holds, Unexpired, TypeOK, Row
  <2> QED
    BY <1>2, <2>1, RecordKeepsUses DEF CompleteEvent, Holds, Unexpired
<1>3. ASSUME NEW p \in Process, ReserveDelivery(p)
      PROVE  UsesOK'
  BY <1>3, GrantedKeepsUses DEF ReserveDelivery
<1>4. ASSUME NEW p \in Process, NEW status \in Status, AppendAttempt(p, status)
      PROVE  UsesOK'
  BY <1>4, RecordKeepsUses DEF AppendAttempt, Credential, Holds, Unexpired
<1>5. ASSUME NEW p \in Process, ReleaseDelivery(p)
      PROVE  UsesOK'
  <2>1. /\ UNCHANGED <<table, granted, used>>
        /\ row' # None => row' = row
    BY <1>5 DEF ReleaseDelivery
  <2> QED
    BY <2>1 DEF UsesOK, Fenced
<1>6. ASSUME NEW p \in Process, AcquireLock(p)
      PROVE  UsesOK'
  BY <1>6, GrantedKeepsUses DEF AcquireLock
<1>7. ASSUME NEW p \in Process, RenewLock(p)
      PROVE  UsesOK'
  <2>1. CASE Unexpired /\ row.token = held[p].token
    <3>1. row'.token = row.token
      BY <1>7, <2>1 DEF RenewLock, Unexpired, TypeOK, Row
    <3> QED
      BY <1>7, <2>1, <3>1, RecordKeepsUses DEF RenewLock, Unexpired
  <2>2. CASE ~(Unexpired /\ row.token = held[p].token)
    BY <1>7, <2>2 DEF RenewLock, UsesOK, Fenced
  <2> QED
    BY <2>1, <2>2
<1>8. ASSUME NEW p \in Process, ReleaseLock(p)
      PROVE  UsesOK'
  <2>1. /\ UNCHANGED <<table, granted, used>>
        /\ row' # None => row' = row
    BY <1>8 DEF ReleaseLock, Released
  <2> QED
    BY <2>1 DEF UsesOK, Fenced
<1>9. ASSUME NEW p \in Process, Crash(p)
      PROVE  UsesOK'
  BY <1>9 DEF Crash, UsesOK, Fenced
<1>10. CASE Tick
  BY <1>10 DEF Tick, UsesOK, Fenced
<1>11. CASE UNCHANGED vars
  BY <1>11 DEF vars, UsesOK, Fenced
<1> QED
  BY <1>1, <1>2, <1>3, <1>4, <1>5, <1>6, <1>7, <1>8, <1>9, <1>10, <1>11 DEF Next

-----------------------------------------------------------------------------
(* A decision is the first and only one, on the payload that was stored.   *)
LEMMA EventStep == TypeOK /\ EventOK /\ [Next]_vars => EventOK'
<1> SUFFICES ASSUME TypeOK, EventOK, [Next]_vars PROVE EventOK'
  OBVIOUS
<1> CASE table = "event"
  <2>1. ASSUME NEW p \in Process, NEW payload \in Payload, ReserveEvent(p, payload)
        PROVE  EventOK'
    <3>1. /\ held'[p].payload = payload
          /\ \A q \in Process : q # p => held'[q] = held[q]
      <4>1. Granted(p, payload) /\ payload \in Payload \cup {None}
        BY <2>1 DEF ReserveEvent
      <4> QED
        BY <4>1, GrantedTypes
    <3>2. event' = payload /\ event' # None /\ (event # None => event' = event)
      BY <2>1, NoneAssumption DEF ReserveEvent, SameEvent
    <3>3. ASSUME NEW q \in Process, held'[q] # None
          PROVE  event' # None /\ held'[q].payload = event'
      BY <3>1, <3>2, <3>3 DEF EventOK
    <3>4. used = <<>> /\ used' = used
      BY <2>1 DEF ReserveEvent, EventOK, DecidedOnce
    <3> QED
      BY <3>3, <3>4 DEF EventOK, DecidedOnce
  <2>2. ASSUME NEW p \in Process, CompleteEvent(p)
        PROVE  EventOK'
    <3>1. /\ UNCHANGED <<table, held, event>> /\ used = <<>>
          /\ row' = [row EXCEPT !.completed = TRUE] /\ row \in Row
          /\ held[p] # None /\ row.token = held[p].token
      BY <2>2 DEF CompleteEvent, Undecided, Holds, Unexpired, TypeOK
    <3>2. row' \in Row /\ row'.completed /\ row'.token = row.token
      BY <3>1 DEF Row
    <3>3. Len(used') = 1 /\ used'[1].token = held[p].token /\ used'[1].payload = held[p].payload
      <4>1. Record(p, "decision")
        BY <2>2 DEF CompleteEvent
      <4>2. Len(used) = 0
        BY <3>1
      <4> QED
        BY <3>1, <4>1, <4>2, RecordAppends
    <3>4. held[p].payload = event
      BY <3>1 DEF EventOK
    <3> QED
      BY <3>1, <3>2, <3>3, <3>4, NoneAssumption DEF EventOK, DecidedOnce
  <2>3. ASSUME NEW p \in Process, Crash(p)
        PROVE  EventOK'
    <3>1. \A q \in Process : held'[q] # None => held'[q] = held[q]
      BY <2>3 DEF Crash, TypeOK
    <3> QED
      BY <2>3, <3>1 DEF Crash, EventOK, DecidedOnce
  <2>4. CASE Tick
    BY <2>4 DEF Tick, EventOK, DecidedOnce
  <2>5. CASE UNCHANGED vars
    BY <2>5 DEF vars, EventOK, DecidedOnce
  <2> QED
    BY <2>1, <2>2, <2>3, <2>4, <2>5
    DEF Next, ReserveDelivery, AppendAttempt, ReleaseDelivery, AcquireLock, RenewLock,
        ReleaseLock
<1> CASE table # "event"
  <2>1. table' = table
    BY DEF Next, vars, ReserveEvent, CompleteEvent, ReserveDelivery, AppendAttempt,
        ReleaseDelivery, AcquireLock, RenewLock, ReleaseLock, Crash, Tick
  <2> QED
    BY <2>1 DEF EventOK, DecidedOnce
<1> QED
  OBVIOUS

-----------------------------------------------------------------------------
(* What was delivered is not claimed again, so that its grant stays last.  *)
LEMMA DeliveredStep ==
    TypeOK /\ UsesOK /\ DeliveredEnds /\ [Next]_vars => DeliveredEnds'
<1> SUFFICES ASSUME TypeOK, UsesOK, DeliveredEnds, [Next]_vars PROVE DeliveredEnds'
  OBVIOUS
<1>t. table' = table
  BY DEF Next, vars, ReserveEvent, CompleteEvent, ReserveDelivery, AppendAttempt,
      ReleaseDelivery, AcquireLock, RenewLock, ReleaseLock, Crash, Tick
<1> CASE table = "delivery"
  <2>1. ASSUME NEW p \in Process, ReserveDelivery(p)
        PROVE  DeliveredEnds'
    BY <2>1 DEF ReserveDelivery, Undelivered, DeliveredEnds
  <2>2. ASSUME NEW p \in Process, NEW status \in Status, AppendAttempt(p, status)
        PROVE  DeliveredEnds'
    <3>1. /\ held[p] # None /\ Record(p, status) /\ granted' = granted
          /\ held[p].token = granted
      BY <2>2 DEF AppendAttempt, Credential, Holds, Unexpired, UsesOK
    <3>2. /\ DOMAIN used' = 1..(Len(used) + 1) /\ DOMAIN used = 1..Len(used)
          /\ Len(used) \in Nat
          /\ \A j \in DOMAIN used : used'[j] = used[j]
          /\ used'[Len(used) + 1].token = granted
      BY <3>1, RecordAppends
    <3> QED
      BY <3>1, <3>2 DEF DeliveredEnds
  <2>3. ASSUME UNCHANGED <<used, granted>>
        PROVE  DeliveredEnds'
    BY <2>3 DEF DeliveredEnds
  <2> QED
    BY <2>1, <2>2, <2>3
    DEF Next, vars, ReserveEvent, CompleteEvent, ReleaseDelivery, AcquireLock, RenewLock,
        ReleaseLock, Crash, Tick
<1> CASE table # "delivery"
  BY <1>t, UsesStep DEF UsesOK, DeliveredEnds
<1> QED
  OBVIOUS

-----------------------------------------------------------------------------
(* The beliefs a state backs exclude each other.                           *)
LEMMA BackedIsExclusive == TypeOK /\ GrantsOK => Exclusive
<1> SUFFICES ASSUME TypeOK, GrantsOK,
                    NEW p \in Process, NEW q \in Process, p # q, Live(p), Live(q),
                    held[p].token \notin disowned, held[q].token \notin disowned
             PROVE  table # "lock" /\ OwnerOf[p] = OwnerOf[q]
  BY DEF Exclusive, GrantsOK
<1>1. held[p] # None /\ held[q] # None
  BY DEF Live
<1> QED
  BY <1>1, LiveExcludes DEF GrantsOK

LEMMA InitEstablishes == Init => IInv
<1> SUFFICES ASSUME Init PROVE IInv
  OBVIOUS
<1>1. TypeOK
  BY BoundAssumption DEF Init, TypeOK
<1>2. DOMAIN used = {} /\ used = <<>>
  BY DEF Init
<1>3. \A p \in Process : held[p] = None
  BY DEF Init
<1> QED
  BY <1>1, <1>2, <1>3
  DEF Init, IInv, GrantsOK, Backed, Live, UsesOK, Fenced, EventOK, DecidedOnce, DeliveredEnds

(* IInv is inductive.                                                      *)
THEOREM Invariance == Spec => []IInv
<1>1. IInv /\ [Next]_vars => IInv'
  BY TypeStep, GrantsStep, UsesStep, EventStep, DeliveredStep DEF IInv
<1> QED
  BY <1>1, InitEstablishes, PTL DEF Spec

(* Nothing a process does under an earlier grant is recorded after what is *)
(* done under a later one.                                                 *)
THEOREM FencedTheorem == Spec => []Fenced
<1>1. IInv => Fenced
  BY DEF IInv, UsesOK
<1> QED
  BY <1>1, Invariance, PTL

(* No two owners, and no two holders of a lock, believe at the same time   *)
(* that it is theirs, except over a delivery whose row a process of the    *)
(* same owner deleted beneath its holder (lease.ts:228).                   *)
THEOREM ExclusiveTheorem == Spec => []Exclusive
<1>1. IInv => Exclusive
  BY BackedIsExclusive DEF IInv
<1> QED
  BY <1>1, Invariance, PTL

(* An event is decided once, on the payload first stored under its key.    *)
THEOREM DecidedOnceTheorem == Spec => []DecidedOnce
<1>1. IInv => DecidedOnce
  BY DEF IInv, EventOK
<1> QED
  BY <1>1, Invariance, PTL

(* What was delivered is never granted for delivery again.                 *)
THEOREM DeliveredEndsTheorem == Spec => []DeliveredEnds
<1>1. IInv => DeliveredEnds
  BY DEF IInv
<1> QED
  BY <1>1, Invariance, PTL
=============================================================================
