------------------------ MODULE BriefPublicationProofs ------------------------
(***************************************************************************)
(* Proofs about BriefPublication, for any processes, contents and bounds.  *)
(***************************************************************************)
EXTENDS BriefPublication, TLAPS

Locked == {"checked", "written", "installed"}

(* The second transaction is exclusive and keeps the revision it renders.  *)
LockOK ==
    \A p \in Process : phase[p] \in Locked => txn = p /\ held[p].body = head

(* What a publication keeps: a rendered revision and a file it recognized, *)
(* which stays in place until it is replaced, unless it is edited.         *)
HeldOK ==
    \A p \in Process : InPublication(p) =>
        /\ held[p].body \in 1..head
        /\ held[p].existing \in Body \cup {None}
        /\ phase[p] \in {"checked", "written"} /\ ~raced => file = held[p].existing
        /\ phase[p] = "installed" /\ ours => file = held[p].body

(* The row announces the body of every publication that is not outdated,   *)
(* unless another one has published the same body.                         *)
AnnouncedOK ==
    \A p \in Process : InPublication(p) /\ held[p].body = head =>
        \/ row.status = "rebuilding" /\ row.pending = head
        \/ row.status = "ready" /\ row.content = head

RowOK ==
    /\ row.status = "ready" => row.content = row.source /\ row.pending = None
    /\ ours => file \in Recorded

IInv == TypeOK /\ LockOK /\ HeldOK /\ AnnouncedOK /\ RowOK /\ ReadyIsTrue

-----------------------------------------------------------------------------
LEMMA Constants ==
    /\ \A b \in Body : b \in Nat /\ b # None /\ b \notin Foreign
    /\ None \notin Process /\ None \notin Foreign /\ None \notin Body
    /\ 1 \in Body
BY BoundAssumption, ForeignAssumption, NoneAssumption DEF Body

(* Every step keeps the types.                                             *)
LEMMA EndedTypes ==
    ASSUME TypeOK, NEW p \in Process, Ended(p)
    PROVE  /\ phase' \in [Process -> Phase] /\ phase'[p] \in {"open", "closed"}
           /\ \A q \in Process : q # p => phase'[q] = phase[q] /\ held'[q] = held[q]
           /\ held' \in [Process -> [body : Body \cup {None},
                                     existing : Body \cup Foreign \cup {None}]]
           /\ txn' \in Process \cup {None} /\ guard' \in Process \cup {None}
           /\ txn' = IF txn = p THEN None ELSE txn
<1>1. Nothing \in [body : Body \cup {None}, existing : Body \cup Foreign \cup {None}]
  BY DEF Nothing
<1>2. held' \in [Process -> [body : Body \cup {None},
                             existing : Body \cup Foreign \cup {None}]]
  BY <1>1 DEF TypeOK, Ended
<1>3. phase' \in [Process -> Phase] /\ phase'[p] \in {"open", "closed"}
  BY DEF TypeOK, Ended, Go, Phase
<1> QED
  BY <1>2, <1>3 DEF TypeOK, Ended, Go

LEMMA TypeStep == TypeOK /\ HeldOK /\ [Next]_vars => TypeOK'
<1> SUFFICES ASSUME TypeOK, HeldOK, [Next]_vars PROVE TypeOK'
  OBVIOUS
<1> DEFINE Held == [body : Body \cup {None}, existing : Body \cup Foreign \cup {None}]
<1>1. Nothing \in Held
  BY DEF Nothing
<1>2. ASSUME NEW p \in Process, ReadFile(p)
      PROVE  TypeOK'
  BY <1>2 DEF TypeOK, ReadFile, Go, Phase
<1>3. ASSUME NEW p \in Process, Validate(p)
      PROVE  TypeOK'
  BY <1>1, <1>3 DEF TypeOK, Validate, Go, Phase
<1>4. ASSUME NEW p \in Process, Close(p)
      PROVE  TypeOK'
  BY <1>4 DEF TypeOK, Close, Go, Phase
<1>5. ASSUME NEW p \in Process, Commit(p)
      PROVE  TypeOK'
  <2>1. head' \in Body
    BY <1>5, BoundAssumption DEF TypeOK, Commit, Body
  <2> QED
    BY <1>5, <2>1 DEF TypeOK, Commit
<1>6. ASSUME NEW p \in Process, StartRepair(p)
      PROVE  TypeOK'
  BY <1>6 DEF TypeOK, StartRepair
<1>7. ASSUME NEW p \in Process, Prepare(p)
      PROVE  TypeOK'
  <2>1. file # None => file \in Body
    BY <1>7 DEF Prepare, Publishable, Known, Recorded, Rendered, TypeOK, Row
  <2>2. row' \in Row
    BY <1>7, <2>1 DEF Prepare, Announced, Rendered, TypeOK, Row
  <2>3. [body |-> Rendered, existing |-> file] \in Held
    BY DEF TypeOK, Rendered
  <2> QED
    BY <1>7, <2>2, <2>3 DEF TypeOK, Prepare, Go, Phase
<1>8. ASSUME NEW p \in Process, Check(p)
      PROVE  TypeOK'
  BY <1>8 DEF TypeOK, Check, Go, Phase
<1>9. ASSUME NEW p \in Process, CheckFails(p)
      PROVE  TypeOK'
  BY <1>9, EndedTypes DEF TypeOK, CheckFails
<1>17. ASSUME NEW p \in Process, PrepareFails(p)
       PROVE  TypeOK'
  BY <1>17, EndedTypes DEF TypeOK, PrepareFails
<1>10. ASSUME NEW p \in Process, Write(p)
       PROVE  TypeOK'
  BY <1>10 DEF TypeOK, Write, Go, Phase
<1>11. ASSUME NEW p \in Process, Install(p)
       PROVE  TypeOK'
  <2>1. CASE Installs(p)
    <3>1. held[p].body \in Body
      <4>1. held[p].body \in 1..head /\ head \in Body
        BY <1>11 DEF HeldOK, InPublication, Install, TypeOK
      <4> QED
        BY <4>1, BoundAssumption DEF Body
    <3> QED
      BY <1>11, <2>1, <3>1 DEF TypeOK, Install, Go, Phase
  <2>2. CASE ~Installs(p)
    BY <1>11, <2>2, EndedTypes DEF TypeOK, Install
  <2> QED
    BY <2>1, <2>2
<1>12. ASSUME NEW p \in Process, Finish(p)
       PROVE  TypeOK'
  <2>1. held[p].body \in Body
    <3>1. held[p].body \in 1..head /\ head \in Body
      BY <1>12 DEF HeldOK, InPublication, Finish, TypeOK
    <3> QED
      BY <3>1, BoundAssumption DEF Body
  <2>2. row' \in Row
    BY <1>12, <2>1 DEF Finish, Row
  <2> QED
    BY <1>12, <2>2, EndedTypes DEF TypeOK, Finish
<1>13. ASSUME NEW p \in Process, Fail(p)
       PROVE  TypeOK'
  <2>1. crashes' \in 0..MaxCrashes
    BY <1>13, BoundAssumption DEF Fail, TypeOK
  <2> QED
    BY <1>13, <2>1, EndedTypes DEF TypeOK, Fail
<1>14. ASSUME NEW p \in Process, Crash(p)
       PROVE  TypeOK'
  <2>1. crashes' \in 0..MaxCrashes
    BY <1>14, BoundAssumption DEF Crash, TypeOK
  <2>2. held' \in [Process -> Held]
    BY <1>1, <1>14 DEF TypeOK, Crash
  <2> QED
    BY <1>14, <2>1, <2>2 DEF TypeOK, Crash, Go, Phase
<1>15. CASE Edit
  <2>1. file' \in Foreign \cup 1..head \cup {None}
    BY <1>15 DEF Edit
  <2>2. file' \in Body \cup Foreign \cup {None}
    BY <2>1, BoundAssumption DEF TypeOK, Body
  <2>3. edits' \in 0..MaxEdits
    BY <1>15, BoundAssumption DEF Edit, TypeOK
  <2> QED
    BY <1>15, <2>2, <2>3 DEF Edit, TypeOK
<1>16. CASE UNCHANGED vars
  BY <1>16 DEF vars, TypeOK
<1> QED
  BY <1>2, <1>3, <1>4, <1>5, <1>6, <1>7, <1>8, <1>9, <1>10, <1>11, <1>12, <1>13, <1>14, <1>15,
     <1>16, <1>17 DEF Next, Publication

-----------------------------------------------------------------------------
(* A publication ends, or its process does: what it leaves to the others.  *)
Gone(p) ==
    /\ ~InPublication(p)' /\ phase'[p] \notin Locked
    /\ \A q \in Process : q # p => phase'[q] = phase[q] /\ held'[q] = held[q]
    /\ txn' = IF txn = p THEN None ELSE txn

LEMMA EndedIsGone ==
    ASSUME TypeOK, NEW p \in Process, Ended(p)
    PROVE  Gone(p)
BY EndedTypes DEF Gone, InPublication, Locked

LEMMA CrashIsGone ==
    ASSUME TypeOK, NEW p \in Process, Crash(p)
    PROVE  Gone(p)
BY DEF TypeOK, Crash, Go, Gone, InPublication, Locked

(* Whatever only ends a publication keeps the invariant.                   *)
LEMMA GoneKeeps ==
    ASSUME IInv, NEW p \in Process, Gone(p), UNCHANGED <<head, row, file, ours, raced>>
    PROVE  LockOK' /\ HeldOK' /\ AnnouncedOK' /\ RowOK' /\ ReadyIsTrue'
<1>1. ASSUME NEW q \in Process, phase'[q] \in Locked
      PROVE  txn' = q /\ held'[q].body = head'
  <2>1. q # p /\ phase'[q] = phase[q] /\ held'[q] = held[q]
    BY <1>1 DEF Gone
  <2> QED
    BY <1>1, <2>1 DEF Gone, IInv, LockOK
<1>2. ASSUME NEW q \in Process, InPublication(q)'
      PROVE  q # p /\ phase'[q] = phase[q] /\ held'[q] = held[q] /\ InPublication(q)
  BY <1>2 DEF Gone, InPublication
<1>3. LockOK'
  BY <1>1 DEF LockOK
<1>4. HeldOK'
  BY <1>2 DEF IInv, HeldOK
<1>5. AnnouncedOK'
  BY <1>2 DEF IInv, AnnouncedOK
<1>6. RowOK' /\ ReadyIsTrue'
  BY DEF IInv, RowOK, ReadyIsTrue, Recorded
<1> QED
  BY <1>3, <1>4, <1>5, <1>6

(* A step of a process outside any publication keeps what the others hold. *)
LEMMA OutsideKeeps ==
    ASSUME IInv, NEW p \in Process, ~InPublication(p), ~InPublication(p)',
           \A q \in Process : q # p => phase'[q] = phase[q] /\ held'[q] = held[q],
           UNCHANGED <<head, row, file, ours, raced, txn>>
    PROVE  LockOK' /\ HeldOK' /\ AnnouncedOK' /\ RowOK' /\ ReadyIsTrue'
<1>1. ASSUME NEW q \in Process, InPublication(q)' \/ phase'[q] \in Locked
      PROVE  q # p /\ phase'[q] = phase[q] /\ held'[q] = held[q] /\ InPublication(q)
  BY <1>1 DEF InPublication, Locked
<1>2. LockOK'
  BY <1>1 DEF IInv, LockOK
<1>3. HeldOK'
  BY <1>1 DEF IInv, HeldOK
<1>4. AnnouncedOK'
  BY <1>1 DEF IInv, AnnouncedOK
<1>5. RowOK' /\ ReadyIsTrue'
  BY DEF IInv, RowOK, ReadyIsTrue, Recorded
<1> QED
  BY <1>2, <1>3, <1>4, <1>5

-----------------------------------------------------------------------------
LEMMA CommitStep ==
    ASSUME IInv, NEW p \in Process, Commit(p)
    PROVE  IInv'
<1>1. /\ head \in Nat /\ head' = head + 1 /\ txn = None
      /\ UNCHANGED <<row, file, phase, held, ours, raced, txn>>
  BY Constants DEF IInv, TypeOK, Commit, MayWrite
<1>2. \A q \in Process : phase[q] \notin Locked
  BY <1>1, Constants DEF IInv, LockOK
<1>3. \A q \in Process : InPublication(q) => held[q].body \in 1..head
  BY DEF IInv, HeldOK
<1>4. LockOK'
  BY <1>1, <1>2 DEF LockOK
<1>5. HeldOK'
  <2>1. ASSUME NEW q \in Process, InPublication(q)'
        PROVE  held'[q].body \in 1..head'
    BY <1>1, <1>3, <2>1 DEF InPublication
  <2> QED
    BY <1>1, <2>1 DEF IInv, HeldOK, InPublication
<1>6. AnnouncedOK'
  <2>1. ASSUME NEW q \in Process, InPublication(q)'
        PROVE  held'[q].body # head'
    BY <1>1, <1>3, <2>1 DEF InPublication
  <2> QED
    BY <2>1 DEF AnnouncedOK
<1>7. RowOK' /\ ReadyIsTrue'
  BY <1>1 DEF IInv, RowOK, ReadyIsTrue, Recorded
<1>8. TypeOK'
  BY TypeStep DEF IInv, Next
<1> QED
  BY <1>4, <1>5, <1>6, <1>7, <1>8 DEF IInv

LEMMA PrepareStep ==
    ASSUME IInv, NEW p \in Process, Prepare(p)
    PROVE  IInv'
<1>1. /\ UNCHANGED <<head, file, txn, ours, raced>> /\ txn = None
      /\ phase \in [Process -> Phase] /\ phase' = [phase EXCEPT ![p] = "prepared"]
      /\ held' = [held EXCEPT ![p] = [body |-> head, existing |-> file]]
      /\ row \in Row /\ row' = Announced /\ head \in Body
  BY DEF IInv, TypeOK, Prepare, Go, MayWrite, Rendered
<1>2. /\ row'.status = "rebuilding" /\ row'.pending = head
      /\ row'.content = IF file = None THEN row.content ELSE file
  BY <1>1 DEF Announced, Rendered, Row
<1>3. held'[p].body = head /\ held'[p].existing = file
  BY <1>1 DEF IInv, TypeOK
<1>4. \A q \in Process : q # p => held'[q] = held[q]
  BY <1>1 DEF IInv, TypeOK
<1>5. \A q \in Process : phase[q] \notin Locked
  BY <1>1, Constants DEF IInv, LockOK
<1>6. \A q \in Process : phase'[q] = IF q = p THEN "prepared" ELSE phase[q]
  BY <1>1
<1>7. LockOK'
  BY <1>5, <1>6 DEF LockOK, Locked
<1>8. HeldOK'
  <2>1. file \in Body \cup {None}
    BY DEF Prepare, Publishable, Known, Recorded, Rendered, IInv, TypeOK, Row
  <2>2. head \in 1..head
    BY <1>1, BoundAssumption DEF Body
  <2>3. ASSUME NEW q \in Process, InPublication(q)'
        PROVE  /\ held'[q].body \in 1..head'
               /\ held'[q].existing \in Body \cup {None}
               /\ phase'[q] \notin Locked
    <3>1. CASE q = p
      BY <1>1, <1>3, <1>6, <2>1, <2>2, <3>1 DEF Locked
    <3>2. CASE q # p
      BY <1>1, <1>4, <1>5, <1>6, <2>3, <3>2 DEF IInv, HeldOK, InPublication
    <3> QED
      BY <3>1, <3>2
  <2> QED
    BY <2>3 DEF HeldOK, Locked
<1>9. AnnouncedOK'
  BY <1>1, <1>2 DEF AnnouncedOK
<1>10. RowOK' /\ ReadyIsTrue'
  <2>1. ours' => file' \in Recorded'
    <3>1. ours => file \in Body
      BY DEF IInv, RowOK, TypeOK, Row, Recorded
    <3> QED
      BY <1>1, <1>2, <3>1, Constants DEF Recorded
  <2> QED
    BY <1>2, <2>1 DEF RowOK, ReadyIsTrue
<1>11. TypeOK'
  BY TypeStep DEF IInv, Next, Publication
<1> QED
  BY <1>7, <1>8, <1>9, <1>10, <1>11 DEF IInv

LEMMA CheckStep ==
    ASSUME IInv, NEW p \in Process, Check(p)
    PROVE  IInv'
<1>1. /\ UNCHANGED <<head, row, file, held, ours>> /\ txn = None /\ txn' = p /\ raced' = FALSE
      /\ phase[p] = "prepared" /\ held[p].body = head /\ held[p].existing = file
      /\ phase' = [phase EXCEPT ![p] = "checked"] /\ phase \in [Process -> Phase]
  BY DEF IInv, TypeOK, Check, Go, MayWrite, Unchanged
<1>2. \A q \in Process : phase[q] \notin Locked
  BY <1>1, Constants DEF IInv, LockOK
<1>3. \A q \in Process : phase'[q] = IF q = p THEN "checked" ELSE phase[q]
  BY <1>1
<1>4. \A q \in Process : InPublication(q)' => InPublication(q)
  BY <1>1, <1>3 DEF InPublication
<1>5. LockOK'
  BY <1>1, <1>2, <1>3 DEF LockOK
<1>6. HeldOK'
  BY <1>1, <1>2, <1>3, <1>4 DEF IInv, HeldOK, Locked
<1>7. AnnouncedOK' /\ RowOK' /\ ReadyIsTrue'
  BY <1>1, <1>4 DEF IInv, AnnouncedOK, RowOK, ReadyIsTrue, Recorded
<1>8. TypeOK'
  BY TypeStep DEF IInv, Next, Publication
<1> QED
  BY <1>5, <1>6, <1>7, <1>8 DEF IInv

LEMMA WriteStep ==
    ASSUME IInv, NEW p \in Process, Write(p)
    PROVE  IInv'
<1>1. /\ UNCHANGED <<head, row, file, held, ours, txn, raced>> /\ phase[p] = "checked"
      /\ phase' = [phase EXCEPT ![p] = "written"] /\ phase \in [Process -> Phase]
  BY DEF IInv, TypeOK, Write, Go
<1>2. \A q \in Process : phase'[q] = IF q = p THEN "written" ELSE phase[q]
  BY <1>1
<1>3. \A q \in Process : InPublication(q)' => InPublication(q)
  BY <1>1, <1>2 DEF InPublication
<1>4. LockOK'
  BY <1>1, <1>2 DEF IInv, LockOK, Locked
<1>5. HeldOK'
  BY <1>1, <1>2, <1>3 DEF IInv, HeldOK
<1>6. AnnouncedOK' /\ RowOK' /\ ReadyIsTrue'
  BY <1>1, <1>3 DEF IInv, AnnouncedOK, RowOK, ReadyIsTrue, Recorded
<1>7. TypeOK'
  BY TypeStep DEF IInv, Next, Publication
<1> QED
  BY <1>4, <1>5, <1>6, <1>7 DEF IInv

LEMMA InstallStep ==
    ASSUME IInv, NEW p \in Process, Install(p)
    PROVE  IInv'
<1>1. TypeOK'
  BY TypeStep DEF IInv, Next, Publication
<1> CASE Installs(p)
  <2>1. /\ UNCHANGED <<head, row, held, raced, txn>>
        /\ phase[p] = "written" /\ phase' = [phase EXCEPT ![p] = "installed"]
        /\ phase \in [Process -> Phase] /\ file' = held[p].body /\ ours'
        /\ txn = p /\ held[p].body = head /\ head \in Body /\ row \in Row
    BY DEF IInv, TypeOK, Install, Go, LockOK, Locked
  <2>2. \A q \in Process : phase'[q] = IF q = p THEN "installed" ELSE phase[q]
    BY <2>1
  <2>3. \A q \in Process : q # p => phase[q] \notin Locked
    BY <2>1 DEF IInv, LockOK
  <2>4. \A q \in Process : InPublication(q)' => InPublication(q)
    BY <2>1, <2>2 DEF InPublication
  <2>5. \/ row.status = "rebuilding" /\ row.pending = head
        \/ row.status = "ready" /\ row.content = head
    BY <2>1 DEF IInv, AnnouncedOK, InPublication
  <2>6. LockOK'
    BY <2>1, <2>2 DEF IInv, LockOK, Locked
  <2>7. HeldOK'
    BY <2>1, <2>2, <2>3, <2>4 DEF IInv, HeldOK, Locked
  <2>8. AnnouncedOK'
    BY <2>1, <2>4 DEF IInv, AnnouncedOK
  <2>9. RowOK' /\ ReadyIsTrue'
    BY <2>1, <2>5, Constants DEF IInv, RowOK, ReadyIsTrue, Recorded
  <2> QED
    BY <1>1, <2>6, <2>7, <2>8, <2>9 DEF IInv
<1> CASE ~Installs(p)
  <2>1. Gone(p) /\ UNCHANGED <<head, row, file, ours, raced>>
    BY EndedIsGone DEF IInv, Install
  <2> QED
    BY <1>1, <2>1, GoneKeeps DEF IInv
<1> QED
  OBVIOUS

LEMMA FinishStep ==
    ASSUME IInv, NEW p \in Process, Finish(p)
    PROVE  IInv'
<1>1. /\ UNCHANGED <<head, file, ours, raced>> /\ phase[p] = "installed"
      /\ held[p].body = head /\ txn = p /\ (ours => file = head) /\ head \in Body
      /\ row' = [status |-> "ready", source |-> head, content |-> head, pending |-> None]
      /\ Gone(p)
  BY EndedIsGone DEF IInv, TypeOK, Finish, LockOK, Locked, HeldOK, InPublication
<1>2. /\ row'.status = "ready" /\ row'.content = head /\ row'.source = head
      /\ row'.pending = None
  BY <1>1
<1>3. \A q \in Process : q # p => phase[q] \notin Locked
  BY <1>1 DEF IInv, LockOK
<1>4. ASSUME NEW q \in Process, InPublication(q)'
      PROVE  q # p /\ phase'[q] = phase[q] /\ held'[q] = held[q] /\ InPublication(q)
  BY <1>1, <1>4 DEF Gone, InPublication
<1>5. LockOK'
  BY <1>1, <1>3 DEF Gone, LockOK
<1>6. HeldOK'
  BY <1>1, <1>4 DEF IInv, HeldOK
<1>7. AnnouncedOK'
  BY <1>1, <1>2 DEF AnnouncedOK
<1>8. RowOK' /\ ReadyIsTrue'
  BY <1>1, <1>2, Constants DEF RowOK, ReadyIsTrue, Recorded
<1>9. TypeOK'
  BY TypeStep DEF IInv, Next, Publication
<1> QED
  BY <1>5, <1>6, <1>7, <1>8, <1>9 DEF IInv

LEMMA EditStep ==
    ASSUME IInv, Edit
    PROVE  IInv'
<1>1. /\ UNCHANGED <<head, row, phase, held, txn>> /\ ours' = FALSE /\ raced' = (txn # None)
  BY DEF Edit
<1>2. \A q \in Process : phase[q] \in Locked => raced'
  BY <1>1, Constants DEF IInv, LockOK
<1>3. \A q \in Process : InPublication(q)' <=> InPublication(q)
  BY <1>1 DEF InPublication
<1>4. LockOK'
  BY <1>1 DEF IInv, LockOK
<1>5. HeldOK'
  BY <1>1, <1>2, <1>3 DEF IInv, HeldOK, Locked
<1>6. AnnouncedOK'
  BY <1>1, <1>3 DEF IInv, AnnouncedOK
<1>7. RowOK' /\ ReadyIsTrue'
  BY <1>1 DEF IInv, RowOK, ReadyIsTrue
<1>8. TypeOK'
  BY TypeStep DEF IInv, Next
<1> QED
  BY <1>4, <1>5, <1>6, <1>7, <1>8 DEF IInv

LEMMA NextStep == IInv /\ [Next]_vars => IInv'
<1> SUFFICES ASSUME IInv, [Next]_vars PROVE IInv'
  OBVIOUS
<1>t. TypeOK'
  BY TypeStep DEF IInv
<1>1. ASSUME NEW p \in Process, ReadFile(p)
      PROVE  IInv'
  <2>1. /\ ~InPublication(p) /\ ~InPublication(p)'
        /\ \A q \in Process : q # p => phase'[q] = phase[q] /\ held'[q] = held[q]
        /\ UNCHANGED <<head, row, file, ours, raced, txn>>
    BY <1>1 DEF ReadFile, Go, InPublication, IInv, TypeOK
  <2> QED
    BY <1>t, <2>1, OutsideKeeps DEF IInv
<1>2. ASSUME NEW p \in Process, Validate(p)
      PROVE  IInv'
  <2>1. /\ ~InPublication(p) /\ ~InPublication(p)'
        /\ \A q \in Process : q # p => phase'[q] = phase[q] /\ held'[q] = held[q]
        /\ UNCHANGED <<head, row, file, ours, raced, txn>>
    BY <1>2 DEF Validate, Go, InPublication, IInv, TypeOK
  <2> QED
    BY <1>t, <2>1, OutsideKeeps DEF IInv
<1>3. ASSUME NEW p \in Process, Close(p)
      PROVE  IInv'
  <2>1. /\ ~InPublication(p) /\ ~InPublication(p)'
        /\ \A q \in Process : q # p => phase'[q] = phase[q] /\ held'[q] = held[q]
        /\ UNCHANGED <<head, row, file, ours, raced, txn>>
    BY <1>3 DEF Close, Go, InPublication, IInv, TypeOK
  <2> QED
    BY <1>t, <2>1, OutsideKeeps DEF IInv
<1>4. ASSUME NEW p \in Process, StartRepair(p)
      PROVE  IInv'
  <2>1. /\ ~InPublication(p) /\ ~InPublication(p)'
        /\ UNCHANGED <<head, row, file, ours, raced, txn, phase, held>>
    BY <1>4 DEF StartRepair, InPublication
  <2> QED
    BY <1>t, <2>1, OutsideKeeps DEF IInv
<1>5. ASSUME NEW p \in Process, CheckFails(p)
      PROVE  IInv'
  <2>1. Gone(p) /\ UNCHANGED <<head, row, file, ours, raced>>
    BY <1>5, EndedIsGone DEF CheckFails, IInv
  <2> QED
    BY <1>t, <2>1, GoneKeeps DEF IInv
<1>6. ASSUME NEW p \in Process, Fail(p)
      PROVE  IInv'
  <2>1. Gone(p) /\ UNCHANGED <<head, row, file, ours, raced>>
    BY <1>6, EndedIsGone DEF Fail, IInv
  <2> QED
    BY <1>t, <2>1, GoneKeeps DEF IInv
<1>7. ASSUME NEW p \in Process, Crash(p)
      PROVE  IInv'
  <2>1. Gone(p) /\ UNCHANGED <<head, row, file, ours, raced>>
    BY <1>7, CrashIsGone DEF Crash, IInv
  <2> QED
    BY <1>t, <2>1, GoneKeeps DEF IInv
<1>9. ASSUME NEW p \in Process, PrepareFails(p)
      PROVE  IInv'
  <2>1. Gone(p) /\ UNCHANGED <<head, row, file, ours, raced>>
    BY <1>9, EndedIsGone DEF PrepareFails, IInv
  <2> QED
    BY <1>t, <2>1, GoneKeeps DEF IInv
<1>8. CASE UNCHANGED vars
  <2>1. LockOK' /\ HeldOK' /\ AnnouncedOK'
    BY <1>8 DEF vars, IInv, LockOK, HeldOK, AnnouncedOK, InPublication
  <2>2. RowOK' /\ ReadyIsTrue'
    BY <1>8 DEF vars, IInv, RowOK, ReadyIsTrue, Recorded
  <2> QED
    BY <1>t, <2>1, <2>2 DEF IInv
<1> QED
  BY <1>1, <1>2, <1>3, <1>4, <1>5, <1>6, <1>7, <1>8, <1>9, CommitStep, PrepareStep, CheckStep,
     WriteStep, InstallStep, FinishStep, EditStep DEF Next, Publication

LEMMA InitEstablishes == Init => IInv
<1> SUFFICES ASSUME Init PROVE IInv
  OBVIOUS
<1>1. TypeOK
  <2>1. row \in Row
    BY Constants DEF Init, Row
  <2>2. held \in [Process -> [body : Body \cup {None}, existing : Body \cup Foreign \cup {None}]]
    BY DEF Init, Nothing
  <2> QED
    <3>1. phase \in [Process -> Phase]
      BY DEF Init, Phase
    <3>2. head \in Body /\ file \in Body /\ edits \in 0..MaxEdits /\ crashes \in 0..MaxCrashes
      BY Constants, BoundAssumption DEF Init
    <3>3. txn = None /\ guard = None /\ ours = TRUE /\ raced = FALSE
      BY DEF Init
    <3> QED
      BY <2>1, <2>2, <3>1, <3>2, <3>3 DEF TypeOK
<1>2. \A p \in Process : phase[p] = "closed"
  BY DEF Init
<1>3. RowOK /\ ReadyIsTrue
  BY Constants DEF Init, RowOK, ReadyIsTrue, Recorded
<1> QED
  BY <1>1, <1>2, <1>3 DEF IInv, LockOK, HeldOK, AnnouncedOK, InPublication, Locked

(* IInv is inductive.                                                      *)
THEOREM Invariance == Spec => []IInv
BY InitEstablishes, NextStep, PTL DEF Spec

(* Whatever failed, crashed or raced, the database vouches for a file that *)
(* a publication wrote last.                                               *)
THEOREM OwnFileIsKnownTheorem == Spec => []OwnFileIsKnown
<1>1. IInv => OwnFileIsKnown
  BY DEF IInv, RowOK, OwnFileIsKnown, Known
<1> QED
  BY <1>1, Invariance, PTL

(* A ready row is true of every file nobody edited.                        *)
THEOREM ReadyIsTrueTheorem == Spec => []ReadyIsTrue
<1>1. IInv => ReadyIsTrue
  BY DEF IInv
<1> QED
  BY <1>1, Invariance, PTL

(* Unknown content is replaced only if it came after the check.            *)
THEOREM UnknownLostOnlyByRaceTheorem == Spec => UnknownLostOnlyByRace
<1> DEFINE Lost ==
      (file \in Foreign /\ file' # file /\ edits' = edits)
        => /\ raced
           /\ \E p \in Process : txn = p /\ held[p].existing \in Body
<1>1. IInv /\ [Next]_vars => [Lost]_vars
  <2> SUFFICES ASSUME IInv, Next, file \in Foreign, file' # file, edits' = edits
               PROVE  raced /\ \E p \in Process : txn = p /\ held[p].existing \in Body
    BY DEF vars
  <2>1. ~Edit
    BY DEF Edit, IInv, TypeOK
  <2>2. PICK p \in Process : Install(p) /\ Installs(p)
    BY <2>1 DEF Next, Publication, ReadFile, Validate, Close, Commit, StartRepair, Prepare,
        PrepareFails, Check, CheckFails, Write, Install, Finish, Fail, Crash
  <2>3. phase[p] = "written" /\ held[p].existing # None
    BY <2>2, Constants DEF Install, Installs
  <2>4. txn = p /\ held[p].existing \in Body /\ (~raced => file = held[p].existing)
    BY <2>3 DEF IInv, LockOK, Locked, HeldOK, InPublication
  <2>5. raced
    BY <2>4, Constants DEF IInv, TypeOK
  <2> QED
    BY <2>4, <2>5
<1> QED
  BY <1>1, Invariance, PTL DEF Spec, UnknownLostOnlyByRace

-----------------------------------------------------------------------------
(* Locks are not left behind, which is what lets the next publication      *)
(* start: the writer lock is held by a process that is inside its second   *)
(* transaction, the guard by one that is repairing and has not the project *)
(* open, and while a repair is on nobody else is in a transaction          *)
(* (repairMissingKernelBrief's finally, publishKernelBriefFile's too).     *)
LocksAreInUse ==
    /\ txn # None => phase[txn] \in Locked
    /\ guard # None => phase[guard] \notin {"opening", "open"} /\ txn \in {None, guard}

LEMMA LocksStep == IInv /\ LocksAreInUse /\ [Next]_vars => LocksAreInUse'
<1> SUFFICES ASSUME IInv, LocksAreInUse, [Next]_vars PROVE LocksAreInUse'
  OBVIOUS
<1> USE Constants
<1> TypeOK
  BY DEF IInv
<1>1. ASSUME NEW p \in Process, Ended(p) PROVE LocksAreInUse'
  BY <1>1, EndedTypes DEF Ended, Go, LocksAreInUse, TypeOK
<1>2. ASSUME NEW p \in Process, PrepareFails(p) \/ CheckFails(p) \/ Finish(p) \/ Fail(p)
      PROVE  LocksAreInUse'
  BY <1>1, <1>2 DEF PrepareFails, CheckFails, Finish, Fail
<1>3. ASSUME NEW p \in Process, ReadFile(p) \/ Validate(p) \/ Close(p) \/ Commit(p)
      PROVE  LocksAreInUse'
  BY <1>3 DEF ReadFile, Validate, Close, Commit, Go, LocksAreInUse, TypeOK, Locked
<1>4. ASSUME NEW p \in Process, StartRepair(p) PROVE LocksAreInUse'
  BY <1>4 DEF StartRepair, LocksAreInUse, TypeOK
<1>5. ASSUME NEW p \in Process, Prepare(p) PROVE LocksAreInUse'
  BY <1>5 DEF Prepare, MayWrite, Go, LocksAreInUse, TypeOK
<1>6. ASSUME NEW p \in Process, Check(p) PROVE LocksAreInUse'
  BY <1>6 DEF Check, MayWrite, Go, LocksAreInUse, TypeOK, Locked
<1>7. ASSUME NEW p \in Process, Write(p) PROVE LocksAreInUse'
  BY <1>7 DEF Write, Go, LocksAreInUse, TypeOK, Locked
<1>8. ASSUME NEW p \in Process, Install(p) PROVE LocksAreInUse'
  <2>1. CASE Installs(p)
    BY <1>8, <2>1 DEF Install, Go, LocksAreInUse, TypeOK, Locked
  <2> QED
    BY <1>1, <1>8, <2>1 DEF Install
<1>9. ASSUME NEW p \in Process, Crash(p) PROVE LocksAreInUse'
  BY <1>9 DEF Crash, Go, LocksAreInUse, TypeOK, Locked
<1>10. CASE Edit \/ UNCHANGED vars
   BY <1>10 DEF Edit, vars, LocksAreInUse
<1> QED
  BY <1>2, <1>3, <1>4, <1>5, <1>6, <1>7, <1>8, <1>9, <1>10 DEF Next, Publication

(* A lock is held only by a publication or a repair that goes on.          *)
THEOREM LocksTheorem == Spec => []LocksAreInUse
<1>1. Init => LocksAreInUse
  BY DEF Init, LocksAreInUse
<1> QED
  BY <1>1, LocksStep, Invariance, PTL DEF Spec
===============================================================================
