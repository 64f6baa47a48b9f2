------------------------- MODULE ManagedRestoreProofs -------------------------
(***************************************************************************)
(* Proofs about ManagedRestore, for any number of commits and faults.      *)
(***************************************************************************)
EXTENDS MCSwitches, TLAPS

FileOp == {"move", "install", "delete", "return", "copy", "copied"}
Create == Do("create", "journal")
RecordIt == Do("record", "journal")
VerifyIt == Do("verify", "wal")
CompleteIt == Do("complete", "journal")
CleanIt == Do("clean", "saved")
RemoveIt == Do("remove", "journal")
Step ==
    [op : FileOp, file : File]
        \cup {Create, RecordIt, VerifyIt, CompleteIt, CleanIt, RemoveIt}
Elements(s) == {s[i] : i \in DOMAIN s}
Todo == Elements(work.todo)

Phase == {"idle", "planned", "restoring", "restored", "undoing", "recovering"}
WorkType ==
    [phase : Phase, plan : Contents, todo : Seq(Step), undo : Seq(File), installed : Seq(File)]
Typed ==
    /\ files \in Contents /\ saved \in Contents
    /\ journal \in Record \cup {None, Torn}
    /\ work \in WorkType
    /\ open \in BOOLEAN /\ kernel \in BOOLEAN
    /\ commits \in Content /\ forgets \subseteq 1..commits

-----------------------------------------------------------------------------
(* The order of the steps: what a step that comes first says of the later  *)
(* ones, in a restore, its undoing and a recovery.                         *)

Rank(s) ==
    CASE s.op = "create"   -> 1
      [] s.op = "record"   -> 2
      [] s.op = "move"     -> IF s.file = "db" THEN 3 ELSE IF s.file = "wal" THEN 4 ELSE 5
      [] s.op = "install"  -> IF s.file = "db" THEN 6 ELSE 7
      [] s.op = "verify"   -> 8
      [] s.op = "complete" -> 9
      [] s.op = "clean"    -> 10
      [] OTHER             -> 11
Turn(op) == CASE op = "delete" -> 1 [] op = "copy" -> 2 [] OTHER -> 3

Precedes(phase, x, y) ==
    /\ phase \in {"restoring", "restored"} => Rank(x) < Rank(y)
    /\ phase = "undoing" => x.op # "remove" /\ (y.op = "delete" => x.op = "delete")
    /\ phase = "recovering" =>
          /\ x.op = "remove" => y.op = "clean"
          /\ y.op \in {"delete", "copy", "copied"} /\ x.file = y.file => Turn(x.op) < Turn(y.op)
Sorted(phase, s) ==
    \A i, j \in DOMAIN s : i < j => Precedes(phase, s[i], s[j])

-----------------------------------------------------------------------------
(* The inductive invariant.                                                *)

\* A whole pair from which nothing that was forgotten is missing.
LatestOf(p) == IF p.wal = None THEN p.db ELSE p.wal
GoodPair(p) ==
    /\ p.db \in Content /\ p.wal \in Content \cup {None}
    /\ p.brief = LatestOf(p)
    /\ Forgotten(LatestOf(p)) = forgets

JournalOK ==
    /\ ~kernel => journal = None
    /\ kernel /\ journal = None => GoodPair(files)
    /\ Readable =>
          /\ GoodPair(journal.original)
          /\ Forgotten(Bundle.db) = forgets
          /\ journal.completed => files = Bundle
    /\ open => Free /\ journal = None
    /\ OriginalKept

RestingOK == Free => work.todo = <<>>

\* Of the plan, the files as they were when the restore began.
PlanOK ==
    kernel /\ work.phase \in {"restoring", "restored", "undoing"} =>
        /\ GoodPair(work.plan) /\ Forgotten(Bundle.db) = forgets
        /\ Readable => journal.original = work.plan

Unfinished == Readable /\ ~journal.completed

\* The restore: what is still to do, ...
ToRestore ==
    /\ \A x \in Todo : x.op \notin {"delete", "return", "copy", "copied"}
    /\ \A x \in Todo : x.op = "install" => x.file # "wal"
    /\ VerifyIt \in Todo
    /\ kernel => CompleteIt \in Todo /\ RemoveIt \in Todo
    /\ ~kernel => \A x \in Todo : x.op \notin {"create", "record", "complete", "remove"}
\* ... a file is in its place until it is moved, and aside after, ...
Moved(f) ==
    IF Do("move", f) \in Todo
    THEN /\ files[f] = work.plan[f] /\ saved[f] = None
         /\ f \notin Elements(work.undo) /\ f \notin Elements(work.installed)
    ELSE /\ saved[f] = work.plan[f]
         /\ f \in Elements(work.undo) <=> work.plan[f] # None
         /\ f \notin Elements(work.installed) => files[f] = None
\* ... the bundle's are installed, ...
Installed(f) ==
    \/ Do("install", f) \in Todo
    \/ f \in Elements(work.installed) /\ files[f] = Bundle[f]
\* ... and the journal is there before a file is touched.
Journalled ==
    /\ Create \in Todo => journal = None /\ RecordIt \in Todo
    /\ RecordIt \in Todo => ~Readable /\ \A f \in File : Do("move", f) \in Todo
    /\ Create \notin Todo => journal # None
    /\ RecordIt \notin Todo => Unfinished
RestoringOK ==
    work.phase = "restoring" =>
        /\ ToRestore
        /\ \A f \in File : Moved(f)
        /\ Installed("db") /\ Installed("brief")
        /\ kernel => Journalled

RestoredOK ==
    work.phase = "restored" =>
        /\ files = Bundle
        /\ \A x \in Todo : x.op \in {"complete", "clean", "remove"}
        /\ ~kernel => \A x \in Todo : x.op = "clean"
        /\ CompleteIt \in Todo =>
              RemoveIt \in Todo /\ Unfinished /\ saved = work.plan
        /\ kernel /\ CompleteIt \notin Todo =>
              IF RemoveIt \in Todo
              THEN Readable /\ journal.completed ELSE journal = None

\* The undoing: a file is to be returned, in its place, or was not there.
Returned(f) ==
    files[f] = work.plan[f] /\ saved[f] = None /\ Do("delete", f) \notin Todo
Undone(f) ==
    \/ /\ Do("return", f) \in Todo
       /\ saved[f] = work.plan[f] /\ work.plan[f] # None
    \/ Returned(f)
    \/ work.plan[f] = None /\ saved[f] = None /\ Do("delete", f) \in Todo
UndoingOK ==
    work.phase = "undoing" =>
        /\ \A x \in Todo : x.op \in {"delete", "return", "remove"}
        /\ \A f \in File : Undone(f)
        /\ RemoveIt \in Todo <=> journal # None
        /\ kernel /\ journal = None => work.todo = <<>>
        /\ Readable => ~journal.completed

\* The recovery: a file is absent for good, copied from the saved one, or there.
Recovered(f) ==
    \/ /\ journal.original[f] = None /\ Do("delete", f) \in Todo
       /\ Do("copy", f) \notin Todo /\ Do("copied", f) \notin Todo
    \/ journal.original[f] = saved[f] /\ Do("copied", f) \in Todo
    \/ /\ journal.original[f] = files[f]
       /\ \A x \in Todo : x.op \in {"delete", "copy", "copied"} => x.file # f
CleanIsLast == \A i \in DOMAIN work.todo : work.todo[i].op = "clean" => i = Len(work.todo)
RecoveringOK ==
    work.phase = "recovering" =>
        /\ kernel /\ journal # Torn
        /\ \A x \in Todo : x.op \in {"delete", "copy", "copied", "remove", "clean"}
        /\ ~Unfinished => \A x \in Todo : x.op \in {"clean", "remove"}
        /\ journal = None => \A x \in Todo : x.op = "clean"
        /\ Unfinished =>
              RemoveIt \in Todo /\ CleanIsLast /\ \A f \in File : Recovered(f)

IInv ==
    /\ Typed /\ Sorted(work.phase, work.todo)
    /\ JournalOK /\ RestingOK /\ PlanOK
    /\ RestoringOK /\ RestoredOK /\ UndoingOK /\ RecoveringOK

-----------------------------------------------------------------------------
(* What a recovery will need, and what the switch is between.              *)

\* What is neither the original nor the bundle's is a file that was copied; what
\* was not there is not aside either.
AsideOK ==
    Readable =>
        \A f \in File :
            IF journal.completed
            THEN saved[f] \in {None, journal.original[f]}
            ELSE /\ files[f] \in {None, Torn, journal.original[f], Bundle[f]}
                 /\ journal.original[f] = None => saved[f] = None

\* No file holds a commit that was never made.
Made(c) == c \in Content => c <= commits
LastOK == \A f \in File : Made(files[f]) /\ Made(saved[f])

FromOK ==
    /\ goal = Bundle.db
    /\ kernel /\ work.phase \in {"restoring", "restored", "undoing"} =>
          from = LatestOf(work.plan)
    /\ kernel /\ Readable => from = LatestOf(journal.original)

-----------------------------------------------------------------------------
(* Sequences of steps.                                                     *)

LEMMA TailFacts ==
    ASSUME NEW S, NEW s \in Seq(S), s # <<>>
    PROVE  /\ Len(s) \in Nat \ {0} /\ Head(s) = s[1] /\ 1 \in DOMAIN s
           /\ Tail(s) \in Seq(S) /\ Len(Tail(s)) = Len(s) - 1
           /\ DOMAIN Tail(s) = 1..(Len(s) - 1) /\ DOMAIN s = 1..Len(s)
           /\ \A i \in DOMAIN Tail(s) : i + 1 \in DOMAIN s /\ Tail(s)[i] = s[i + 1]
OBVIOUS

\* The head is done: what is left keeps its order, and comes after it.
LEMMA Advances ==
    ASSUME NEW s \in Seq(Step), s # <<>>, NEW phase, Sorted(phase, s)
    PROVE  /\ Tail(s) \in Seq(Step) /\ Head(s) \in Step
           /\ Sorted(phase, Tail(s))
           /\ Head(s) \in Elements(s)
           /\ \A x \in Elements(Tail(s)) : x \in Elements(s) /\ Precedes(phase, Head(s), x)
           /\ \A x \in Elements(s) : x = Head(s) \/ x \in Elements(Tail(s))
<1>1. /\ Len(s) \in Nat \ {0} /\ Head(s) = s[1] /\ 1 \in DOMAIN s
      /\ Tail(s) \in Seq(Step)
      /\ DOMAIN Tail(s) = 1..(Len(s) - 1) /\ DOMAIN s = 1..Len(s)
      /\ \A i \in DOMAIN Tail(s) : i + 1 \in DOMAIN s /\ Tail(s)[i] = s[i + 1]
  BY TailFacts
<1>2. Sorted(phase, Tail(s))
  <2> SUFFICES ASSUME NEW i \in DOMAIN Tail(s), NEW j \in DOMAIN Tail(s), i < j
               PROVE  Precedes(phase, Tail(s)[i], Tail(s)[j])
    BY DEF Sorted
  <2>1. i + 1 \in DOMAIN s /\ j + 1 \in DOMAIN s /\ i + 1 < j + 1
    BY <1>1
  <2> QED
    BY <1>1, <2>1 DEF Sorted
<1>3. \A x \in Elements(Tail(s)) : x \in Elements(s) /\ Precedes(phase, Head(s), x)
  <2> SUFFICES ASSUME NEW i \in DOMAIN Tail(s)
               PROVE  Tail(s)[i] \in Elements(s) /\ Precedes(phase, Head(s), Tail(s)[i])
    BY DEF Elements
  <2>1. i + 1 \in DOMAIN s /\ 1 < i + 1 /\ Tail(s)[i] = s[i + 1]
    BY <1>1
  <2> QED
    BY <1>1, <2>1 DEF Sorted, Elements
<1>4. \A x \in Elements(s) : x = Head(s) \/ x \in Elements(Tail(s))
  <2> SUFFICES ASSUME NEW i \in DOMAIN s, i # 1
               PROVE  s[i] \in Elements(Tail(s))
    BY <1>1 DEF Elements
  <2>1. i - 1 \in DOMAIN Tail(s) /\ Tail(s)[i - 1] = s[i]
    BY <1>1
  <2> QED
    BY <2>1 DEF Elements
<1>5. Head(s) \in Step /\ Head(s) \in Elements(s)
  BY <1>1 DEF Elements
<1> QED
  BY <1>1, <1>2, <1>3, <1>4, <1>5

\* Two lists of steps, one after the other.
LEMMA Joined ==
    ASSUME NEW s \in Seq(Step), NEW t \in Seq(Step), NEW phase,
           Sorted(phase, s), Sorted(phase, t),
           \A x \in Elements(s), y \in Elements(t) : Precedes(phase, x, y)
    PROVE  /\ s \o t \in Seq(Step) /\ Len(s \o t) = Len(s) + Len(t)
           /\ Elements(s \o t) = Elements(s) \cup Elements(t)
           /\ Sorted(phase, s \o t)
<1> DEFINE u == s \o t
<1>1. /\ u \in Seq(Step) /\ Len(u) = Len(s) + Len(t)
      /\ DOMAIN u = 1..(Len(s) + Len(t)) /\ DOMAIN s = 1..Len(s) /\ DOMAIN t = 1..Len(t)
      /\ Len(s) \in Nat /\ Len(t) \in Nat
      /\ \A i \in 1..(Len(s) + Len(t)) : u[i] = IF i <= Len(s) THEN s[i] ELSE t[i - Len(s)]
  OBVIOUS
<1> HIDE DEF u
<1>2. \A i \in DOMAIN s : i \in DOMAIN u /\ u[i] = s[i]
  BY <1>1
<1>3. \A i \in DOMAIN t : i + Len(s) \in DOMAIN u /\ u[i + Len(s)] = t[i]
  BY <1>1
<1>4. \A i \in DOMAIN u :
        \/ i \in DOMAIN s /\ u[i] = s[i]
        \/ i - Len(s) \in DOMAIN t /\ u[i] = t[i - Len(s)]
  BY <1>1
<1>5. Elements(u) = Elements(s) \cup Elements(t)
  BY <1>2, <1>3, <1>4 DEF Elements
<1>6. ASSUME NEW i \in DOMAIN u, NEW j \in DOMAIN u, i < j
      PROVE  Precedes(phase, u[i], u[j])
  <2>1. CASE i \in DOMAIN s /\ j \in DOMAIN s
    BY <1>2, <1>6, <2>1 DEF Sorted
  <2>2. CASE i \in DOMAIN s /\ j \notin DOMAIN s
    BY <1>2, <1>4, <2>2 DEF Elements
  <2>3. CASE i \notin DOMAIN s
    <3>1. i - Len(s) \in DOMAIN t /\ u[i] = t[i - Len(s)]
      BY <1>4, <2>3
    <3>2. j - Len(s) \in DOMAIN t /\ u[j] = t[j - Len(s)] /\ i - Len(s) < j - Len(s)
      BY <1>1, <1>4, <1>6, <2>3
    <3> QED
      BY <3>1, <3>2 DEF Sorted
  <2> QED
    BY <2>1, <2>2, <2>3
<1>7. Sorted(phase, u)
  BY <1>6 DEF Sorted
<1> QED
  BY <1>1, <1>5, <1>7 DEF u

\* A short list.
LEMMA Short ==
    /\ \A phase : Sorted(phase, <<>>) /\ Elements(<<>>) = {} /\ <<>> \in Seq(Step)
    /\ \A phase : \A x \in Step :
          Elements(<<x>>) = {x} /\ <<x>> \in Seq(Step) /\ Sorted(phase, <<x>>)
    /\ \A phase : \A x, y \in Step :
          /\ Elements(<<x, y>>) = {x, y} /\ <<x, y>> \in Seq(Step)
          /\ Precedes(phase, x, y) => Sorted(phase, <<x, y>>)
    /\ \A phase : \A x, y, z \in Step :
          /\ Elements(<<x, y, z>>) = {x, y, z} /\ <<x, y, z>> \in Seq(Step)
          /\ Precedes(phase, x, y) /\ Precedes(phase, x, z) /\ Precedes(phase, y, z) =>
                Sorted(phase, <<x, y, z>>)
<1>1. \A phase : Sorted(phase, <<>>) /\ Elements(<<>>) = {} /\ <<>> \in Seq(Step)
  BY DEF Sorted, Elements
<1>2. ASSUME NEW x \in Step, NEW phase
      PROVE  Elements(<<x>>) = {x} /\ <<x>> \in Seq(Step) /\ Sorted(phase, <<x>>)
  <2>1. DOMAIN <<x>> = {1} /\ <<x>>[1] = x
    OBVIOUS
  <2> QED
    BY <2>1 DEF Sorted, Elements
<1>3. ASSUME NEW x \in Step, NEW y \in Step, NEW phase
      PROVE  /\ Elements(<<x, y>>) = {x, y} /\ <<x, y>> \in Seq(Step)
             /\ Precedes(phase, x, y) => Sorted(phase, <<x, y>>)
  <2>1. DOMAIN <<x, y>> = {1, 2} /\ <<x, y>>[1] = x /\ <<x, y>>[2] = y
    OBVIOUS
  <2> QED
    BY <2>1 DEF Sorted, Elements
<1>4. ASSUME NEW x \in Step, NEW y \in Step, NEW z \in Step, NEW phase
      PROVE  /\ Elements(<<x, y, z>>) = {x, y, z} /\ <<x, y, z>> \in Seq(Step)
             /\ Precedes(phase, x, y) /\ Precedes(phase, x, z) /\ Precedes(phase, y, z) =>
                   Sorted(phase, <<x, y, z>>)
  <2>1. /\ DOMAIN <<x, y, z>> = {1, 2, 3}
        /\ <<x, y, z>>[1] = x /\ <<x, y, z>>[2] = y /\ <<x, y, z>>[3] = z
    OBVIOUS
  <2>2. Elements(<<x, y, z>>) = {x, y, z}
    BY <2>1 DEF Elements
  <2>3. ASSUME Precedes(phase, x, y), Precedes(phase, x, z), Precedes(phase, y, z)
        PROVE  Sorted(phase, <<x, y, z>>)
    <3> SUFFICES ASSUME NEW i \in {1, 2, 3}, NEW j \in {1, 2, 3}, i < j
                 PROVE  Precedes(phase, <<x, y, z>>[i], <<x, y, z>>[j])
      BY <2>1 DEF Sorted
    <3>1. (i = 1 /\ j = 2) \/ (i = 1 /\ j = 3) \/ (i = 2 /\ j = 3)
      OBVIOUS
    <3> QED
      BY <2>1, <2>3, <3>1
  <2> QED
    BY <2>2, <2>3
<1> QED
  BY <1>1, <1>2, <1>3, <1>4

\* The places of the steps of a restore.
LEMMA Ranks ==
    /\ Create \in Step /\ Rank(Create) = 1
    /\ RecordIt \in Step /\ Rank(RecordIt) = 2
    /\ Do("move", "db") \in Step /\ Rank(Do("move", "db")) = 3
    /\ Do("move", "wal") \in Step /\ Rank(Do("move", "wal")) = 4
    /\ Do("move", "brief") \in Step /\ Rank(Do("move", "brief")) = 5
    /\ Do("install", "db") \in Step /\ Rank(Do("install", "db")) = 6
    /\ Do("install", "brief") \in Step /\ Rank(Do("install", "brief")) = 7
    /\ VerifyIt \in Step /\ Rank(VerifyIt) = 8
    /\ CompleteIt \in Step /\ Rank(CompleteIt) = 9
    /\ CleanIt \in Step /\ Rank(CleanIt) = 10
    /\ RemoveIt \in Step /\ Rank(RemoveIt) = 11
BY DEF Rank, Do, Step, FileOp, File, Create, RecordIt, VerifyIt, CompleteIt, CleanIt,
       RemoveIt

LEMMA Ranked ==
    ASSUME NEW s \in Seq(Step), NEW t \in Seq(Step), NEW k \in Nat,
           Sorted("restoring", s), Sorted("restoring", t),
           \A x \in Elements(s) : Rank(x) \in Nat /\ Rank(x) <= k,
           \A y \in Elements(t) : Rank(y) \in Nat /\ k < Rank(y)
    PROVE  /\ s \o t \in Seq(Step) /\ Elements(s \o t) = Elements(s) \cup Elements(t)
           /\ Sorted("restoring", s \o t)
<1>1. \A x \in Elements(s), y \in Elements(t) : Precedes("restoring", x, y)
  BY DEF Precedes
<1> QED
  BY <1>1, Joined

Before == {Create, RecordIt}
Moves == {Do("move", "db"), Do("move", "wal"), Do("move", "brief")}
Installs == {Do("install", "db"), Do("install", "brief"), VerifyIt}
LEMMA RestoreStepsFacts ==
    /\ RestoreSteps \in Seq(Step) /\ Sorted("restoring", RestoreSteps)
    /\ kernel => Elements(RestoreSteps) =
                    Before \cup Moves \cup Installs \cup {CompleteIt, CleanIt, RemoveIt}
    /\ ~kernel => Elements(RestoreSteps) = Moves \cup Installs \cup {CleanIt}
<1> DEFINE before == KernelOnly(<<Create, RecordIt>>)
           moves == DoAll("move", Order)
           installs == <<Do("install", "db"), Do("install", "brief"), VerifyIt>>
           complete == KernelOnly(<<CompleteIt>>)
           clean == <<CleanIt>>
           remove == KernelOnly(<<RemoveIt>>)
<1>0. RestoreSteps = before \o moves \o installs \o complete \o clean \o remove
  BY DEF RestoreSteps, Create, RecordIt, VerifyIt, CompleteIt, CleanIt, RemoveIt
<1>1. /\ before \in Seq(Step) /\ Sorted("restoring", before)
      /\ Elements(before) = IF kernel THEN Before ELSE {}
  <2>1. Precedes("restoring", Create, RecordIt)
    BY Ranks DEF Precedes
  <2> QED
    BY <2>1, Ranks, Short DEF KernelOnly, Before
<1>2. /\ moves \in Seq(Step) /\ Sorted("restoring", moves) /\ Elements(moves) = Moves
  <2>1. moves = <<Do("move", "db"), Do("move", "wal"), Do("move", "brief")>>
    BY DEF DoAll, Order
  <2>2. /\ Precedes("restoring", Do("move", "db"), Do("move", "wal"))
        /\ Precedes("restoring", Do("move", "db"), Do("move", "brief"))
        /\ Precedes("restoring", Do("move", "wal"), Do("move", "brief"))
    BY Ranks DEF Precedes
  <2> HIDE DEF moves
  <2> QED
    BY <2>1, <2>2, Ranks, Short DEF Moves
<1>3. /\ installs \in Seq(Step) /\ Sorted("restoring", installs)
      /\ Elements(installs) = Installs
  <2>1. /\ Precedes("restoring", Do("install", "db"), Do("install", "brief"))
        /\ Precedes("restoring", Do("install", "db"), VerifyIt)
        /\ Precedes("restoring", Do("install", "brief"), VerifyIt)
    BY Ranks DEF Precedes
  <2> QED
    BY <2>1, Ranks, Short DEF Installs
<1>4. /\ complete \in Seq(Step) /\ Sorted("restoring", complete)
      /\ Elements(complete) = IF kernel THEN {CompleteIt} ELSE {}
  BY Ranks, Short DEF KernelOnly
<1>5. /\ clean \in Seq(Step) /\ Sorted("restoring", clean) /\ Elements(clean) = {CleanIt}
  BY Ranks, Short
<1>6. /\ remove \in Seq(Step) /\ Sorted("restoring", remove)
      /\ Elements(remove) = IF kernel THEN {RemoveIt} ELSE {}
  BY Ranks, Short DEF KernelOnly
<1> HIDE DEF before, moves, installs, complete, clean, remove
<1> DEFINE s1 == before \o moves
           s2 == s1 \o installs
           s3 == s2 \o complete
           s4 == s3 \o clean
<1>7. /\ s1 \in Seq(Step) /\ Sorted("restoring", s1)
      /\ Elements(s1) = Elements(before) \cup Elements(moves)
      /\ \A x \in Elements(s1) : Rank(x) \in Nat /\ Rank(x) <= 5
  <2>1. \A x \in Elements(before) : Rank(x) \in Nat /\ Rank(x) <= 2
    BY <1>1, Ranks DEF Before
  <2>2. \A y \in Elements(moves) : Rank(y) \in Nat /\ 2 < Rank(y) /\ Rank(y) <= 5
    BY <1>2, Ranks DEF Moves
  <2>3. /\ s1 \in Seq(Step) /\ Sorted("restoring", s1)
        /\ Elements(s1) = Elements(before) \cup Elements(moves)
    BY <1>1, <1>2, <2>1, <2>2, Ranked
  <2> HIDE DEF s1
  <2> QED
    BY <2>1, <2>2, <2>3
<1> HIDE DEF s1
<1>8. /\ s2 \in Seq(Step) /\ Sorted("restoring", s2)
      /\ Elements(s2) = Elements(s1) \cup Elements(installs)
      /\ \A x \in Elements(s2) : Rank(x) \in Nat /\ Rank(x) <= 8
  <2>1. \A y \in Elements(installs) : Rank(y) \in Nat /\ 5 < Rank(y) /\ Rank(y) <= 8
    BY <1>3, Ranks DEF Installs
  <2>2. /\ s2 \in Seq(Step) /\ Sorted("restoring", s2)
        /\ Elements(s2) = Elements(s1) \cup Elements(installs)
    BY <1>3, <1>7, <2>1, Ranked
  <2> HIDE DEF s2
  <2> QED
    BY <1>3, <1>7, <2>1, <2>2
<1> HIDE DEF s2
<1>9. /\ s3 \in Seq(Step) /\ Sorted("restoring", s3)
      /\ Elements(s3) = Elements(s2) \cup Elements(complete)
      /\ \A x \in Elements(s3) : Rank(x) \in Nat /\ Rank(x) <= 9
  <2>1. \A y \in Elements(complete) : Rank(y) \in Nat /\ 8 < Rank(y) /\ Rank(y) <= 9
    BY <1>4, Ranks
  <2>2. /\ s3 \in Seq(Step) /\ Sorted("restoring", s3)
        /\ Elements(s3) = Elements(s2) \cup Elements(complete)
    BY <1>4, <1>8, <2>1, Ranked
  <2> HIDE DEF s3
  <2> QED
    BY <1>4, <1>8, <2>1, <2>2
<1> HIDE DEF s3
<1>10. /\ s4 \in Seq(Step) /\ Sorted("restoring", s4)
       /\ Elements(s4) = Elements(s3) \cup {CleanIt}
       /\ \A x \in Elements(s4) : Rank(x) \in Nat /\ Rank(x) <= 10
  <2>1. \A y \in Elements(clean) : Rank(y) \in Nat /\ 9 < Rank(y) /\ Rank(y) <= 10
    BY <1>5, Ranks
  <2>2. /\ s4 \in Seq(Step) /\ Sorted("restoring", s4)
        /\ Elements(s4) = Elements(s3) \cup {CleanIt}
    BY <1>5, <1>9, <2>1, Ranked
  <2> HIDE DEF s4
  <2> QED
    BY <1>5, <1>9, <2>1, <2>2
<1> HIDE DEF s4
<1>11. /\ s4 \o remove \in Seq(Step) /\ Sorted("restoring", s4 \o remove)
       /\ Elements(s4 \o remove) = Elements(s4) \cup Elements(remove)
  <2>1. \A y \in Elements(remove) : Rank(y) \in Nat /\ 10 < Rank(y)
    BY <1>6, Ranks
  <2> QED
    BY <1>6, <1>10, <2>1, Ranked
<1>12. RestoreSteps = s4 \o remove
  BY <1>0 DEF s1, s2, s3, s4
<1> QED
  BY <1>1, <1>2, <1>3, <1>4, <1>6, <1>7, <1>8, <1>9, <1>10, <1>11, <1>12

\* What an operation's name says of the step.
LEMMA StepKinds ==
    ASSUME NEW x \in Step
    PROVE  /\ x.op = "create" => x = Create
           /\ x.op = "record" => x = RecordIt
           /\ x.op = "verify" => x = VerifyIt
           /\ x.op = "complete" => x = CompleteIt
           /\ x.op = "clean" => x = CleanIt
           /\ x.op = "remove" => x = RemoveIt
           /\ x.op \in FileOp => x.file \in File /\ x = Do(x.op, x.file)
BY DEF Step, Create, RecordIt, VerifyIt, CompleteIt, CleanIt, RemoveIt, Do, FileOp

LEMMA StepNames ==
    /\ \A op, f : Do(op, f).op = op /\ Do(op, f).file = f
    /\ \A op, f, q, g : Do(op, f) = Do(q, g) <=> op = q /\ f = g
    /\ \A op \in FileOp, f \in File : Do(op, f) \in Step
    /\ Create.op = "create" /\ RecordIt.op = "record" /\ VerifyIt.op = "verify"
    /\ CompleteIt.op = "complete" /\ CleanIt.op = "clean" /\ RemoveIt.op = "remove"
BY DEF Do, Step, Create, RecordIt, VerifyIt, CompleteIt, CleanIt, RemoveIt

\* The first of the steps still to do, and the rest.
LEMMA HeadFacts ==
    ASSUME IInv, work.todo # <<>>
    PROVE  /\ Rest \in Seq(Step) /\ Head(work.todo) \in Step
           /\ Sorted(work.phase, Rest)
           /\ Head(work.todo) \in Todo
           /\ \A x \in Elements(Rest) : x \in Todo /\ x \in Step
           /\ \A x \in Elements(Rest) : Precedes(work.phase, Head(work.todo), x)
           /\ \A x \in Todo : x = Head(work.todo) \/ x \in Elements(Rest)
           /\ \A x \in Todo : x \in Step
           /\ ~Free /\ ~open
           /\ work.phase \in {"restoring", "restored", "undoing", "recovering"}
<1>1. work.todo \in Seq(Step) /\ work.phase \in Phase
  BY DEF IInv, Typed, WorkType
<1>2. Sorted(work.phase, work.todo)
  BY DEF IInv
<1>3. /\ Rest \in Seq(Step) /\ Head(work.todo) \in Step
      /\ Sorted(work.phase, Rest)
      /\ Head(work.todo) \in Elements(work.todo)
      /\ \A x \in Elements(Rest) :
            x \in Elements(work.todo) /\ Precedes(work.phase, Head(work.todo), x)
      /\ \A x \in Elements(work.todo) : x = Head(work.todo) \/ x \in Elements(Rest)
  BY <1>1, <1>2, Advances DEF Rest
<1>4. \A x \in Elements(work.todo) : x \in Step
  BY <1>1 DEF Elements
<1>5. ~Free /\ ~open
  BY DEF IInv, RestingOK, JournalOK
<1>6. work.phase \in {"restoring", "restored", "undoing", "recovering"}
  BY <1>1, <1>5 DEF Free, Phase
<1> QED
  BY <1>3, <1>4, <1>5, <1>6 DEF Todo

\* In a restore the steps are in strict order.
LEMMA InOrder ==
    ASSUME IInv, work.todo # <<>>, work.phase \in {"restoring", "restored"}
    PROVE  /\ \A x \in Elements(Rest) : Rank(Head(work.todo)) < Rank(x)
           /\ Elements(Rest) = Todo \ {Head(work.todo)}
<1>1. \A x \in Elements(Rest) : Rank(Head(work.todo)) < Rank(x)
  BY HeadFacts DEF Precedes
<1>2. \A x \in Step : Rank(x) \in Nat
  BY DEF Rank
<1>3. Head(work.todo) \notin Elements(Rest)
  BY <1>1, <1>2, HeadFacts
<1> QED
  BY <1>1, <1>3, HeadFacts

\* Between the calls the invariant is about the files and the journal only.
LEMMA Resting ==
    ASSUME Typed', Free', (work.todo = <<>>)', JournalOK'
    PROVE  IInv'
<1>1. Sorted(work.phase, work.todo)'
  BY Short DEF Sorted
<1>2. work'.phase \in {"idle", "planned"}
  BY DEF Free
<1> QED
  BY <1>1, <1>2 DEF IInv, RestingOK, PlanOK, RestoringOK, RestoredOK, UndoingOK, RecoveringOK

LEMMA IdleTyped == Idle \in WorkType
BY DEF WorkType, Idle, Phase, Contents, NoFiles

\* A call that is over, however it ended.
LEMMA ToIdle ==
    ASSUME IInv, work' = Idle,
           UNCHANGED <<files, saved, journal, open, kernel, commits, forgets>>
    PROVE  IInv'
<1>1. Typed'
  BY IdleTyped DEF IInv, Typed
<1>2. Free' /\ (work.todo = <<>>)'
  BY DEF Free, Idle
<1>3. JournalOK'
  BY <1>2 DEF IInv, JournalOK, GoodPair, LatestOf, Forgotten, Readable, OriginalKept
<1> QED
  BY <1>1, <1>2, <1>3, Resting

-----------------------------------------------------------------------------
(* The initial state, the sessions and the beginning of a restore.         *)

\* What Bundle is.
LEMMA BundleFacts ==
    /\ Bundle \in Contents /\ Bundle.db = 0 /\ Bundle.wal = None /\ Bundle.brief = 0
    /\ Bundle["db"] = 0 /\ Bundle["wal"] = None /\ Bundle["brief"] = 0
    /\ 0 \in Content
    /\ \A p \in Contents : p["db"] = 0 /\ p["wal"] = None /\ p["brief"] = 0 => p = Bundle
    /\ Forgotten(0) = forgets => GoodPair(Bundle)
BY BoundAssumption DEF Bundle, Contents, Content, File, GoodPair, LatestOf

LEMMA InitOK == Init => IInv
<1> SUFFICES ASSUME Init
             PROVE  IInv
  OBVIOUS
<1>1. Typed
  BY BundleFacts, IdleTyped DEF Init, Typed, Contents, NoFiles
<1>2. work.todo = <<>> /\ work.phase = "idle" /\ Free
  BY DEF Init, Idle, Free
<1>3. GoodPair(files)
  BY BundleFacts DEF Init, Forgotten
<1>4. JournalOK
  BY <1>2, <1>3 DEF Init, JournalOK, Readable, OriginalKept
<1>5. Sorted(work.phase, work.todo)
  BY <1>2, Short
<1> QED
  BY <1>1, <1>2, <1>4, <1>5
  DEF IInv, RestingOK, PlanOK, RestoringOK, RestoredOK, UndoingOK, RecoveringOK

LEMMA OpenSessionOK == IInv /\ OpenSession => IInv'
<1> SUFFICES ASSUME IInv, OpenSession
             PROVE  IInv'
  OBVIOUS
<1>1. Typed'
  BY DEF IInv, Typed, OpenSession, past
<1>2. Free' /\ (work.todo = <<>>)'
  BY DEF IInv, RestingOK, OpenSession, Free
<1>3. JournalOK'
  BY <1>2 DEF IInv, JournalOK, OpenSession, Openable, past, GoodPair, LatestOf, Forgotten,
              Readable, OriginalKept
<1> QED
  BY <1>1, <1>2, <1>3, Resting

LEMMA CommitOK == IInv /\ Commit => IInv'
<1> SUFFICES ASSUME IInv, Commit
             PROVE  IInv'
  OBVIOUS
<1>1. /\ commits \in Nat /\ commits' \in Content /\ commits' = commits + 1
      /\ forgets \subseteq 1..commits /\ forgets' \subseteq 1..commits'
  <2>1. commits \in Content /\ forgets \subseteq 1..commits
    BY DEF IInv, Typed
  <2>2. commits < MaxCommits /\ commits' = commits + 1
    BY DEF Commit
  <2> QED
    BY <2>1, <2>2, BoundAssumption DEF Commit, Content
<1>2. files \in Contents /\ files' = [files EXCEPT !.wal = commits', !.brief = commits']
  BY DEF IInv, Typed, Commit
<1>3. files' \in Contents /\ files'.db = files.db /\ files'.wal = commits'
      /\ files'.brief = commits'
  BY <1>1, <1>2 DEF Contents, File
<1>4. Typed'
  BY <1>1, <1>3 DEF IInv, Typed, Commit
<1>5. open /\ journal = None /\ Free
  BY DEF IInv, JournalOK, Commit
<1>6. Free' /\ (work.todo = <<>>)'
  BY <1>5 DEF IInv, RestingOK, Commit, Free
<1>7. kernel => GoodPair(files)'
  <2> SUFFICES ASSUME kernel
               PROVE  GoodPair(files)'
    OBVIOUS
  <2>1. files.db \in Content
    BY <1>5 DEF IInv, JournalOK, GoodPair
  <2>2. commits' # None
    BY <1>1, DistinctAssumption
  <2>3. {n \in forgets' : n <= commits'} = forgets'
    <3>1. commits' \in Nat
      BY <1>1
    <3>2. \A n \in 1..commits' : n <= commits'
      BY <3>1
    <3>3. \A n \in forgets' : n <= commits'
      BY <1>1, <3>2
    <3> QED
      BY <3>3
  <2>4. LatestOf(files)' = commits'
    BY <1>3, <2>2 DEF LatestOf
  <2> QED
    BY <1>1, <1>3, <2>1, <2>3, <2>4 DEF GoodPair, Forgotten
<1>8. JournalOK'
  BY <1>5, <1>6, <1>7 DEF JournalOK, Commit, Readable, OriginalKept
<1> QED
  BY <1>4, <1>6, <1>8, Resting

LEMMA CloseSessionOK == IInv /\ CloseSession => IInv'
<1> SUFFICES ASSUME IInv, CloseSession
             PROVE  IInv'
  OBVIOUS
<1>1. files \in Contents /\ Latest \in Content \cup {None, Torn}
  BY DEF IInv, Typed, Latest, Contents, File
<1>2. /\ files' \in Contents /\ files'.db = Latest /\ files'.wal = None
      /\ files'.brief = files.brief
  BY <1>1 DEF CloseSession, Contents, File
<1>3. Typed'
  BY <1>2 DEF IInv, Typed, CloseSession, past
<1>4. open /\ journal = None /\ Free
  BY DEF IInv, JournalOK, CloseSession
<1>5. Free' /\ (work.todo = <<>>)'
  BY <1>4 DEF IInv, RestingOK, CloseSession, Free
<1>6. kernel => GoodPair(files)'
  <2>1. LatestOf(files) = Latest
    BY DEF LatestOf, Latest
  <2>2. kernel => GoodPair(files)
    BY <1>4 DEF IInv, JournalOK
  <2>3. LatestOf(files)' = Latest
    BY <1>2 DEF LatestOf
  <2>4. forgets' = forgets
    BY DEF CloseSession, past
  <2> QED
    BY <1>2, <2>1, <2>2, <2>3, <2>4 DEF GoodPair, Forgotten, LatestOf
<1>7. JournalOK'
  BY <1>4, <1>5, <1>6 DEF JournalOK, CloseSession, past, Readable, OriginalKept
<1> QED
  BY <1>3, <1>5, <1>7, Resting

LEMMA SessionCrashOK == IInv /\ SessionCrash => IInv'
<1> SUFFICES ASSUME IInv, SessionCrash
             PROVE  IInv'
  OBVIOUS
<1>1. Typed'
  BY DEF IInv, Typed, SessionCrash
<1>2. open /\ journal = None /\ Free
  BY DEF IInv, JournalOK, SessionCrash
<1>3. Free' /\ (work.todo = <<>>)'
  BY <1>2 DEF IInv, RestingOK, SessionCrash, Free
<1>4. JournalOK'
  BY <1>3 DEF IInv, JournalOK, SessionCrash, GoodPair, LatestOf, Forgotten, Readable,
              OriginalKept
<1> QED
  BY <1>1, <1>3, <1>4, Resting

LEMMA PreviewOK == IInv /\ Preview => IInv'
<1> SUFFICES ASSUME IInv, Preview
             PROVE  IInv'
  OBVIOUS
<1>1. work' = [Idle EXCEPT !.phase = "planned", !.plan = files]
  BY DEF Preview
<1>2. Typed'
  <2>1. files \in Contents
    BY DEF IInv, Typed
  <2>2. work' \in WorkType
    BY <1>1, <2>1, IdleTyped DEF WorkType, Idle, Phase
  <2> QED
    BY <2>2 DEF IInv, Typed, Preview, past
<1>3. Free' /\ (work.todo = <<>>)'
  BY <1>1 DEF Free, Idle
<1>4. JournalOK'
  BY <1>3 DEF IInv, JournalOK, Preview, past, GoodPair, LatestOf, Forgotten, Readable,
              OriginalKept
<1> QED
  BY <1>2, <1>3, <1>4, Resting

LEMMA BeginOK == IInv /\ Begin => IInv'
<1> SUFFICES ASSUME IInv, Begin
             PROVE  IInv'
  OBVIOUS
<1>1. CASE ~MayBegin
  BY <1>1, ToIdle DEF Begin
<1>2. CASE MayBegin
  <2>1. /\ work' = [Idle EXCEPT !.phase = "restoring", !.plan = files, !.todo = RestoreSteps]
        /\ saved' = NoFiles /\ journal = None /\ ~open
        /\ UNCHANGED <<files, journal, open, commits, forgets, kernel>>
    BY <1>2 DEF Begin, MayBegin
  <2>2. /\ work'.phase = "restoring" /\ work'.plan = files /\ work'.todo = RestoreSteps
        /\ work'.undo = <<>> /\ work'.installed = <<>>
    BY <2>1 DEF Idle
  <2>3. files \in Contents /\ NoFiles \in Contents
    BY DEF IInv, Typed, NoFiles, Contents
  <2>4. Typed'
    <3>1. work' \in WorkType
      BY <2>1, <2>3, IdleTyped, RestoreStepsFacts DEF WorkType, Idle, Phase
    <3> QED
      BY <2>1, <2>3, <3>1 DEF IInv, Typed
  <2>5. Sorted(work.phase, work.todo)'
    BY <2>2, RestoreStepsFacts DEF Sorted, Precedes
  <2>6. kernel => GoodPair(files) /\ Forgotten(Bundle.db) = forgets
    BY <1>2, <2>1 DEF IInv, JournalOK, MayBegin, Latest, GoodPair, LatestOf
  <2>7. JournalOK'
    BY <2>1, <2>6 DEF JournalOK, GoodPair, LatestOf, Forgotten, Readable, OriginalKept
  <2>8. RestingOK'
    BY <2>2 DEF RestingOK, Free
  <2>9. PlanOK'
    BY <2>1, <2>2, <2>6 DEF PlanOK, GoodPair, LatestOf, Forgotten, Readable, Bundle
  <2>10. RestoringOK'
    <3>1. Todo' = Elements(RestoreSteps)
      BY <2>2 DEF Todo, Elements
    <3>2. Moves \cup Installs \cup {CleanIt} \subseteq Todo'
      BY <3>1, RestoreStepsFacts
    <3>3. Todo' \subseteq Before \cup Moves \cup Installs \cup {CompleteIt, CleanIt, RemoveIt}
      BY <3>1, RestoreStepsFacts
    <3>4. kernel => Todo' = Before \cup Moves \cup Installs \cup {CompleteIt, CleanIt, RemoveIt}
      BY <3>1, RestoreStepsFacts
    <3>5. ~kernel => Todo' = Moves \cup Installs \cup {CleanIt}
      BY <3>1, RestoreStepsFacts
    <3>6. \A f \in File : Do("move", f) \in Todo'
      BY <3>2 DEF Moves, File
    <3>7. \A f \in File : saved'[f] = None /\ files'[f] = work'.plan[f]
      BY <2>1, <2>2 DEF NoFiles
    <3>8. Elements(work.undo)' = {} /\ Elements(work.installed)' = {}
      BY <2>2 DEF Elements
    <3>9. \A x \in Todo' : x.op \notin {"delete", "return", "copy", "copied"}
      BY <3>3, StepNames DEF Before, Moves, Installs
    <3>21. \A x \in Todo' : x.op = "install" => x.file # "wal"
      BY <3>3, StepNames DEF Before, Moves, Installs
    <3>10. Do("install", "db") \in Todo' /\ Do("install", "brief") \in Todo' /\ VerifyIt \in Todo'
      BY <3>2 DEF Installs
    <3>11. kernel => {Create, RecordIt, CompleteIt, RemoveIt} \subseteq Todo'
      BY <3>4 DEF Before
    <3>12. ~kernel => \A x \in Todo' : x.op \notin {"create", "record", "complete", "remove"}
      BY <3>5, StepNames DEF Moves, Installs
    <3>13. kernel' = kernel /\ journal' = None
      BY <2>1
    <3>14. \A f \in File : /\ Do("move", f) \in Todo'
                            /\ files'[f] = work'.plan[f] /\ saved'[f] = None
                            /\ f \notin Elements(work.undo)' /\ f \notin Elements(work.installed)'
      BY <3>6, <3>7, <3>8
    <3>15. kernel' => /\ Create \in Todo' /\ RecordIt \in Todo' /\ journal' = None
                      /\ ~Readable' /\ CompleteIt \in Todo' /\ RemoveIt \in Todo'
      BY <3>11, <3>13 DEF Readable
    <3>16. ~kernel' => \A x \in Todo' : x.op \notin {"create", "record", "complete", "remove"}
      BY <3>12, <3>13
    <3>17. ToRestore'
      BY <3>9, <3>10, <3>15, <3>16, <3>21 DEF ToRestore
    <3>18. \A f \in File : Moved(f)'
      BY <3>14 DEF Moved
    <3>19. Installed("db")' /\ Installed("brief")'
      BY <3>10 DEF Installed
    <3>20. (kernel => Journalled)'
      BY <3>6, <3>15 DEF Journalled
    <3> QED
      BY <3>17, <3>18, <3>19, <3>20 DEF RestoringOK
  <2> QED
    BY <2>2, <2>4, <2>5, <2>7, <2>8, <2>9, <2>10 DEF IInv, RestoredOK, UndoingOK, RecoveringOK
<1> QED
  BY <1>1, <1>2

-----------------------------------------------------------------------------
(* The file operations.                                                    *)

LEMMA Advanced ==
    ASSUME IInv, work.todo # <<>>, Advance
    PROVE  /\ Todo' = Elements(Rest) /\ work' \in WorkType
           /\ work'.phase = work.phase /\ work'.plan = work.plan
           /\ work'.undo = work.undo /\ work'.installed = work.installed /\ work'.todo = Rest
           /\ Sorted(work.phase, work.todo)' /\ RestingOK'
<1>1. Rest \in Seq(Step) /\ Sorted(work.phase, Rest) /\ ~Free
  BY HeadFacts
<1>2. work \in WorkType
  BY DEF IInv, Typed
<1>3. /\ work' \in WorkType /\ work'.phase = work.phase /\ work'.plan = work.plan
      /\ work'.undo = work.undo /\ work'.installed = work.installed /\ work'.todo = Rest
  BY <1>1, <1>2 DEF Advance, WorkType
<1> QED
  BY <1>1, <1>3 DEF Todo, RestingOK, Free

\* Which call does what.
Op == Head(work.todo).op
LEMMA OpPhases ==
    ASSUME IInv, work.todo # <<>>
    PROVE  /\ work.phase = "restoring" =>
                 Op \in {"create", "record", "move", "install", "verify"}
           /\ Op \in {"create", "record", "move", "install", "verify"} =>
                 work.phase = "restoring"
           /\ Op \in {"create", "record"} => kernel
           /\ Op = "complete" => work.phase = "restored" /\ kernel
           /\ Op = "clean" => work.phase \in {"restored", "recovering"}
           /\ Op = "remove" => work.phase \in {"restored", "undoing", "recovering"}
           /\ Op = "delete" => work.phase \in {"undoing", "recovering"}
           /\ Op = "return" => work.phase = "undoing"
           /\ Op \in {"copy", "copied"} => work.phase = "recovering"
<1> DEFINE h == Head(work.todo)
<1>0. h.op = Op
  BY DEF Op
<1>1. h \in Todo /\ h \in Step
      /\ work.phase \in {"restoring", "restored", "undoing", "recovering"}
  BY HeadFacts
<1>2. Op \in FileOp \cup {"create", "record", "verify", "complete", "clean", "remove"}
  BY <1>0, <1>1, StepNames DEF Step, FileOp
<1>3. CASE work.phase = "restoring"
  <2>1. VerifyIt \in Todo /\ h.op \notin {"delete", "return", "copy", "copied"}
        /\ (~kernel => h.op \notin {"create", "record", "complete", "remove"})
    BY <1>1, <1>3 DEF IInv, RestoringOK, ToRestore
  <2>2. h = VerifyIt \/ Rank(h) < 8
    BY <1>3, <2>1, InOrder, HeadFacts, Ranks
  <2>3. h.op \notin {"complete", "clean", "remove"}
    BY <2>2, StepNames DEF Rank
  <2> QED
    BY <1>0, <1>2, <1>3, <2>1, <2>3 DEF FileOp
<1>4. CASE work.phase = "restored"
  <2>1. h.op \in {"complete", "clean", "remove"} /\ (~kernel => h.op = "clean")
    BY <1>1, <1>4 DEF IInv, RestoredOK
  <2> QED
    BY <1>0, <1>4, <2>1
<1>5. CASE work.phase = "undoing"
  <2>1. h.op \in {"delete", "return", "remove"}
    BY <1>1, <1>5 DEF IInv, UndoingOK
  <2> QED
    BY <1>0, <1>5, <2>1
<1>6. CASE work.phase = "recovering"
  <2>1. h.op \in {"delete", "copy", "copied", "remove", "clean"}
    BY <1>1, <1>6 DEF IInv, RecoveringOK
  <2> QED
    BY <1>0, <1>6, <2>1
<1> QED
  BY <1>1, <1>3, <1>4, <1>5, <1>6

\* In a restore, what comes before the next step is done.
LEMMA Earlier ==
    ASSUME IInv, work.todo # <<>>, work.phase \in {"restoring", "restored"},
           NEW x \in Step, Rank(x) < Rank(Head(work.todo))
    PROVE  x \notin Todo
<1>1. \A y \in Step : Rank(y) \in Nat
  BY DEF Rank
<1> QED
  BY <1>1, InOrder, HeadFacts

LEMMA CreateJournalOK == IInv /\ CreateJournal => IInv'
<1> SUFFICES ASSUME IInv, CreateJournal
             PROVE  IInv'
  OBVIOUS
<1>1. work.todo # <<>> /\ Head(work.todo).op = "create" /\ Advance
  BY DEF CreateJournal, Doing
<1>2. /\ journal' = Torn
      /\ UNCHANGED <<files, saved, open, kernel, commits, forgets>>
  BY DEF CreateJournal, past
<1>3. Head(work.todo) = Create
  BY <1>1, HeadFacts, StepKinds
<1>4. work.phase = "restoring" /\ kernel /\ ~open
  BY <1>1, OpPhases, HeadFacts DEF Op
<1>5. Todo' = Todo \ {Create}
  BY <1>1, <1>3, <1>4, Advanced, InOrder
<1>6. Typed'
  BY <1>1, <1>2, Advanced DEF IInv, Typed
<1>7. JournalOK'
  BY <1>2, <1>4, DistinctAssumption DEF JournalOK, Readable, OriginalKept
<1>8. PlanOK'
  BY <1>1, <1>2, <1>4, Advanced
  DEF IInv, PlanOK, GoodPair, LatestOf, Forgotten, Readable, Bundle
<1>9. RestoringOK'
  <2>1. ToRestore /\ (\A f \in File : Moved(f)) /\ Installed("db") /\ Installed("brief")
        /\ Journalled
    BY <1>4 DEF IInv, RestoringOK
  <2>2. Create \in Todo
    BY <1>1, <1>3, HeadFacts
  <2>3. /\ RecordIt \in Todo' /\ Create \notin Todo'
        /\ VerifyIt \in Todo' /\ CompleteIt \in Todo' /\ RemoveIt \in Todo'
    BY <1>4, <1>5, <2>1, <2>2, Ranks DEF Journalled, ToRestore
  <2>4. \A f : /\ Do("move", f) \in Todo' <=> Do("move", f) \in Todo
               /\ Do("install", f) \in Todo' <=> Do("install", f) \in Todo
    BY <1>5, StepNames DEF Create
  <2>5. ToRestore'
    BY <1>2, <1>4, <1>5, <2>1, <2>3 DEF ToRestore
  <2>6. \A f \in File : Moved(f)'
    BY <1>1, <1>2, <2>1, <2>4, Advanced DEF Moved
  <2>7. Installed("db")' /\ Installed("brief")'
    BY <1>1, <1>2, <2>1, <2>4, Advanced DEF Installed, Bundle
  <2>8. Journalled'
    BY <1>2, <2>1, <2>2, <2>3, <2>4, DistinctAssumption DEF Journalled, Readable
  <2> QED
    BY <2>5, <2>6, <2>7, <2>8 DEF RestoringOK
<1> QED
  BY <1>1, <1>4, <1>6, <1>7, <1>8, <1>9, Advanced
  DEF IInv, RestoredOK, UndoingOK, RecoveringOK

LEMMA RecordJournalOK == IInv /\ RecordJournal => IInv'
<1> SUFFICES ASSUME IInv, RecordJournal
             PROVE  IInv'
  OBVIOUS
<1>1. work.todo # <<>> /\ Head(work.todo).op = "record" /\ Advance
  BY DEF RecordJournal, Doing
<1>2. /\ journal' = Recorded
      /\ UNCHANGED <<files, saved, open, kernel, commits, forgets>>
  BY DEF RecordJournal, past
<1>3. Head(work.todo) = RecordIt /\ RecordIt \in Todo
  BY <1>1, HeadFacts, StepKinds
<1>4. work.phase = "restoring" /\ kernel /\ ~open
  BY <1>1, OpPhases, HeadFacts DEF Op
<1>5. Todo' = Todo \ {RecordIt}
  BY <1>1, <1>3, <1>4, Advanced, InOrder
<1>6. files \in Contents /\ work.plan \in Contents
  BY DEF IInv, Typed, WorkType
<1>7. journal' \in Record /\ journal'.original = files /\ journal'.completed = FALSE
      /\ journal' \notin {None, Torn}
  <2>1. journal' = [original |-> files, completed |-> FALSE]
    BY <1>2 DEF Recorded
  <2>2. journal'.original = files /\ journal'.completed = FALSE
    BY <2>1
  <2>3. journal' \in Record
    BY <1>6, <2>1 DEF Record
  <2>4. journal' \notin {None, Torn}
    BY <2>3, DistinctAssumption
  <2> QED
    BY <2>2, <2>3, <2>4
<1>8. ToRestore /\ (\A f \in File : Moved(f)) /\ Installed("db") /\ Installed("brief")
      /\ Journalled
  BY <1>4 DEF IInv, RestoringOK
<1>9. files = work.plan
  <2>1. \A f \in File : files[f] = work.plan[f]
    BY <1>3, <1>8 DEF Moved, Journalled
  <2> QED
    BY <1>6, <2>1 DEF Contents
<1>10. GoodPair(files) /\ Forgotten(Bundle.db) = forgets
  BY <1>4, <1>9 DEF IInv, PlanOK
<1>11. Typed'
  BY <1>1, <1>2, <1>7, Advanced DEF IInv, Typed
<1>12. JournalOK'
  BY <1>2, <1>4, <1>7, <1>10
  DEF JournalOK, Readable, OriginalKept, GoodPair, LatestOf, Forgotten, Bundle
<1>13. PlanOK'
  BY <1>1, <1>2, <1>7, <1>9, <1>10, Advanced DEF PlanOK, GoodPair, LatestOf, Forgotten, Bundle
<1>14. RestoringOK'
  <2>1. Rank(Create) < Rank(Head(work.todo))
    BY <1>3, Ranks
  <2>2. Create \notin Todo
    BY <1>1, <1>4, <2>1, Earlier, Ranks
  <2>3. /\ RecordIt \notin Todo' /\ Create \notin Todo'
        /\ VerifyIt \in Todo' /\ CompleteIt \in Todo' /\ RemoveIt \in Todo'
    BY <1>4, <1>5, <1>8, <2>2, Ranks DEF ToRestore
  <2>4. \A f : /\ Do("move", f) \in Todo' <=> Do("move", f) \in Todo
               /\ Do("install", f) \in Todo' <=> Do("install", f) \in Todo
    BY <1>5, StepNames DEF RecordIt
  <2>5. ToRestore'
    BY <1>2, <1>4, <1>5, <1>8, <2>3 DEF ToRestore
  <2>6. \A f \in File : Moved(f)'
    BY <1>1, <1>2, <1>8, <2>4, Advanced DEF Moved
  <2>7. Installed("db")' /\ Installed("brief")'
    BY <1>1, <1>2, <1>8, <2>4, Advanced DEF Installed, Bundle
  <2>8. Journalled'
    BY <1>7, <2>3 DEF Journalled, Readable, Unfinished
  <2> QED
    BY <2>5, <2>6, <2>7, <2>8 DEF RestoringOK
<1> QED
  BY <1>1, <1>4, <1>11, <1>12, <1>13, <1>14, Advanced
  DEF IInv, RestoredOK, UndoingOK, RecoveringOK

\* While a restore touches files, the journal names what they were.
LEMMA Touching ==
    ASSUME IInv, work.todo # <<>>, work.phase = "restoring", 2 < Rank(Head(work.todo))
    PROVE  /\ Create \notin Todo /\ RecordIt \notin Todo
           /\ kernel => Unfinished /\ journal \notin {None, Torn} /\ journal.original = work.plan
           /\ ~kernel => journal = None
<1>1. Rank(Head(work.todo)) \in Nat
  BY HeadFacts DEF Rank
<1>2. Create \notin Todo /\ RecordIt \notin Todo
  BY <1>1, Earlier, Ranks
<1>3. kernel => Unfinished
  BY <1>2 DEF IInv, RestoringOK, Journalled
<1>4. kernel => Readable /\ journal.original = work.plan
  BY <1>3 DEF IInv, PlanOK, Unfinished
<1> QED
  BY <1>2, <1>3, <1>4 DEF IInv, JournalOK, Readable

\* One more moved.
LEMMA Prepended ==
    ASSUME NEW S, NEW u \in Seq(S), NEW f \in S
    PROVE  <<f>> \o u \in Seq(S) /\ Elements(<<f>> \o u) = {f} \cup Elements(u)
<1> DEFINE t == <<f>> \o u
<1>1. /\ t \in Seq(S) /\ Len(u) \in Nat /\ DOMAIN u = 1..Len(u)
      /\ DOMAIN t = 1..(Len(u) + 1)
      /\ t[1] = f /\ \A i \in 1..Len(u) : t[i + 1] = u[i]
      /\ \A i \in 2..(Len(u) + 1) : t[i] = u[i - 1]
  OBVIOUS
<1> HIDE DEF t
<1>2. \A i \in DOMAIN t : t[i] = f \/ t[i] \in Elements(u)
  <2> SUFFICES ASSUME NEW i \in DOMAIN t, i # 1
               PROVE  t[i] \in Elements(u)
    BY <1>1
  <2>1. i \in 2..(Len(u) + 1) /\ i - 1 \in DOMAIN u
    BY <1>1
  <2> QED
    BY <1>1, <2>1 DEF Elements
<1>3. f \in Elements(t) /\ \A i \in DOMAIN u : u[i] \in Elements(t)
  <2>1. 1 \in DOMAIN t
    BY <1>1
  <2>2. \A i \in DOMAIN u : i + 1 \in DOMAIN t /\ t[i + 1] = u[i]
    BY <1>1
  <2> QED
    BY <1>1, <2>1, <2>2 DEF Elements
<1>4. Elements(t) = {f} \cup Elements(u)
  BY <1>2, <1>3 DEF Elements
<1> QED
  BY <1>1, <1>4 DEF t

LEMMA MoveOK == IInv /\ Move => IInv'
<1> SUFFICES ASSUME IInv, Move
             PROVE  IInv'
  OBVIOUS
<1> DEFINE f == Target
<1>1. /\ work.todo # <<>> /\ Head(work.todo).op = "move"
      /\ saved' = [saved EXCEPT ![f] = files[f]]
      /\ files' = [files EXCEPT ![f] = None]
      /\ work' = [work EXCEPT !.todo = Rest,
                     !.undo = IF files[f] = None THEN @ ELSE <<f>> \o @]
      /\ UNCHANGED <<journal, open, kernel, commits, forgets>>
  BY DEF Move, Doing, past
<1>2. f \in File /\ Head(work.todo) = Do("move", f) /\ Do("move", f) \in Todo
  BY <1>1, HeadFacts, StepKinds DEF FileOp, Target
<1>3. work.phase = "restoring" /\ ~open /\ ~Free
  BY <1>1, OpPhases, HeadFacts DEF Op
<1> HIDE DEF f
<1>4. files \in Contents /\ saved \in Contents /\ work \in WorkType
  BY DEF IInv, Typed
<1>5. /\ files' \in Contents /\ saved' \in Contents
      /\ files'[f] = None /\ saved'[f] = files[f]
      /\ \A g \in File : g # f => files'[g] = files[g] /\ saved'[g] = saved[g]
  BY <1>1, <1>2, <1>4 DEF Contents
<1>6. work.undo \in Seq(File) /\ <<f>> \o work.undo \in Seq(File)
  BY <1>2, <1>4 DEF WorkType
<1>7. Elements(<<f>> \o work.undo) = {f} \cup Elements(work.undo)
  BY <1>2, <1>6, Prepended
<1>8. /\ work' \in WorkType
      /\ work'.phase = "restoring" /\ work'.plan = work.plan /\ work'.todo = Rest
      /\ work'.installed = work.installed
      /\ work'.undo = IF files[f] = None THEN work.undo ELSE <<f>> \o work.undo
  BY <1>1, <1>3, <1>4, <1>6, HeadFacts DEF WorkType
<1>9. Elements(work'.undo) = IF files[f] = None THEN Elements(work.undo)
                             ELSE {f} \cup Elements(work.undo)
  BY <1>7, <1>8
<1>10. Todo' = Todo \ {Do("move", f)}
  BY <1>1, <1>2, <1>3, <1>8, InOrder DEF Todo
<1>11. ToRestore /\ (\A g \in File : Moved(g)) /\ Installed("db") /\ Installed("brief")
  BY <1>3 DEF IInv, RestoringOK
<1>12. files[f] = work.plan[f] /\ saved[f] = None
       /\ f \notin Elements(work.undo) /\ f \notin Elements(work.installed)
  BY <1>2, <1>11 DEF Moved
<1>13. Rank(Head(work.todo)) > 2
  BY <1>2, Ranks, StepNames DEF Rank
<1>14. /\ Create \notin Todo /\ RecordIt \notin Todo
       /\ kernel => Unfinished /\ journal \notin {None, Torn} /\ journal.original = work.plan
       /\ ~kernel => journal = None
  BY <1>1, <1>3, <1>13, Touching, HeadFacts DEF Rank
<1>15. Typed'
  BY <1>1, <1>5, <1>8 DEF IInv, Typed
<1>16. Sorted(work.phase, work.todo)' /\ RestingOK'
  BY <1>1, <1>3, <1>8, HeadFacts DEF Sorted, RestingOK, Free
<1>17. JournalOK'
  <2>1. OriginalKept'
    <3> SUFFICES ASSUME kernel, NEW g \in File
                 PROVE  journal.original[g] \in {files'[g], saved'[g], None}
      BY <1>1, <1>14 DEF OriginalKept, Readable
    <3>1. journal.original[g] \in {files[g], saved[g], None}
      BY <1>14 DEF IInv, JournalOK, OriginalKept, Unfinished
    <3> QED
      BY <1>5, <1>12, <1>14, <3>1
  <2> QED
    BY <1>1, <1>3, <1>14, <2>1
    DEF IInv, JournalOK, Readable, GoodPair, LatestOf, Forgotten, Bundle, Unfinished
<1>18. PlanOK'
  BY <1>1, <1>3, <1>8 DEF IInv, PlanOK, GoodPair, LatestOf, Forgotten, Readable, Bundle
<1>19. RestoringOK'
  <2>1. ToRestore'
    BY <1>1, <1>10, <1>11, StepNames DEF ToRestore
  <2>2. ASSUME NEW g \in File
        PROVE  Moved(g)'
    <3>1. CASE g = f
      <4>1. Do("move", f) \notin Todo'
        BY <1>10
      <4> QED
        BY <1>5, <1>8, <1>9, <1>12, <3>1, <4>1 DEF Moved
    <3>2. CASE g # f
      <4>1. Do("move", g) \in Todo' <=> Do("move", g) \in Todo
        BY <1>10, <3>2, StepNames
      <4> QED
        BY <1>5, <1>8, <1>9, <1>11, <3>2, <4>1 DEF Moved
    <3> QED
      BY <3>1, <3>2
  <2>3. ASSUME NEW g \in {"db", "brief"}, Installed(g)
        PROVE  Installed(g)'
    <3>1. Do("install", g) \in Todo' <=> Do("install", g) \in Todo
      BY <1>10, StepNames
    <3>2. Do("install", g) \notin Todo => g # f
      BY <1>12, <2>3 DEF Installed
    <3> QED
      BY <1>5, <1>8, <2>3, <3>1, <3>2 DEF Installed, Bundle, File
  <2>4. (kernel => Journalled)'
    BY <1>1, <1>10, <1>14 DEF Journalled, Readable, Unfinished
  <2> QED
    BY <1>11, <2>1, <2>2, <2>3, <2>4 DEF RestoringOK
<1> QED
  BY <1>8, <1>15, <1>16, <1>17, <1>18, <1>19 DEF IInv, RestoredOK, UndoingOK, RecoveringOK

\* One more installed.
LEMMA Appended ==
    ASSUME NEW S, NEW s \in Seq(S), NEW x \in S
    PROVE  Append(s, x) \in Seq(S) /\ Elements(Append(s, x)) = Elements(s) \cup {x}
<1> DEFINE t == Append(s, x)
<1>1. /\ t \in Seq(S) /\ Len(s) \in Nat /\ DOMAIN s = 1..Len(s)
      /\ DOMAIN t = 1..(Len(s) + 1) /\ t[Len(s) + 1] = x
      /\ \A i \in 1..Len(s) : t[i] = s[i]
  OBVIOUS
<1> HIDE DEF t
<1>2. \A i \in DOMAIN t : i \in DOMAIN s \/ i = Len(s) + 1
  BY <1>1
<1>3. Len(s) + 1 \in DOMAIN t /\ \A i \in DOMAIN s : i \in DOMAIN t
  BY <1>1
<1>4. Elements(t) = Elements(s) \cup {x}
  BY <1>1, <1>2, <1>3 DEF Elements
<1> QED
  BY <1>1, <1>4 DEF t

\* Once nothing is to be moved any more, every file is aside.
LEMMA AllAside ==
    ASSUME IInv, work.todo # <<>>, work.phase = "restoring", 5 < Rank(Head(work.todo))
    PROVE  /\ \A f \in File : Do("move", f) \notin Todo
           /\ saved = work.plan
           /\ \A f \in File : f \in Elements(work.undo) <=> work.plan[f] # None
           /\ \A f \in File : f \notin Elements(work.installed) => files[f] = None
<1>1. Rank(Head(work.todo)) \in Nat
  BY HeadFacts DEF Rank
<1>2. \A f \in File : Do("move", f) \notin Todo
  BY <1>1, Earlier, Ranks DEF File
<1>3. \A f \in File : Moved(f)
  BY DEF IInv, RestoringOK
<1>4. \A f \in File : saved[f] = work.plan[f]
  BY <1>2, <1>3 DEF Moved
<1>5. saved \in Contents /\ work.plan \in Contents
  BY DEF IInv, Typed, WorkType
<1>6. saved = work.plan
  BY <1>4, <1>5 DEF Contents
<1> QED
  BY <1>2, <1>3, <1>6 DEF Moved

LEMMA InstallOK == IInv /\ Install => IInv'
<1> SUFFICES ASSUME IInv, Install
             PROVE  IInv'
  OBVIOUS
<1> DEFINE f == Target
<1>1. /\ work.todo # <<>> /\ Head(work.todo).op = "install"
      /\ files' = [files EXCEPT ![f] = Bundle[f]]
      /\ work' = [work EXCEPT !.todo = Rest, !.installed = Append(@, f)]
      /\ UNCHANGED <<saved, journal, open, kernel, commits, forgets>>
  BY DEF Install, Doing, past
<1>2. f \in File /\ Head(work.todo) = Do("install", f) /\ Do("install", f) \in Todo
  BY <1>1, HeadFacts, StepKinds DEF FileOp, Target
<1>3. work.phase = "restoring" /\ ~open /\ ~Free
  BY <1>1, OpPhases, HeadFacts DEF Op
<1> HIDE DEF f
<1>4. files \in Contents /\ saved \in Contents /\ work \in WorkType
  BY DEF IInv, Typed
<1>5. Bundle[f] \in Content \cup {None, Torn}
  BY <1>2, BundleFacts DEF Contents
<1>6. /\ files' \in Contents /\ files'[f] = Bundle[f]
      /\ \A g \in File : g # f => files'[g] = files[g]
  BY <1>1, <1>2, <1>4, <1>5 DEF Contents
<1>7. work.installed \in Seq(File)
  BY <1>4 DEF WorkType
<1>8. /\ Append(work.installed, f) \in Seq(File)
      /\ Elements(Append(work.installed, f)) = Elements(work.installed) \cup {f}
  BY <1>2, <1>7, Appended
<1>9. /\ work' \in WorkType
      /\ work'.phase = "restoring" /\ work'.plan = work.plan /\ work'.todo = Rest
      /\ work'.undo = work.undo /\ work'.installed = Append(work.installed, f)
  BY <1>1, <1>3, <1>4, <1>8, HeadFacts DEF WorkType
<1>10. Todo' = Todo \ {Do("install", f)}
  BY <1>1, <1>2, <1>3, <1>9, InOrder DEF Todo
<1>11. ToRestore /\ Installed("db") /\ Installed("brief")
  BY <1>3 DEF IInv, RestoringOK
<1>12. 5 < Rank(Head(work.todo)) /\ 2 < Rank(Head(work.todo))
  BY <1>2, StepNames DEF Rank
<1>13. /\ \A g \in File : Do("move", g) \notin Todo
       /\ saved = work.plan
       /\ \A g \in File : g \in Elements(work.undo) <=> work.plan[g] # None
       /\ \A g \in File : g \notin Elements(work.installed) => files[g] = None
  BY <1>1, <1>3, <1>12, AllAside
<1>14. /\ Create \notin Todo /\ RecordIt \notin Todo
       /\ kernel => Unfinished /\ journal \notin {None, Torn} /\ journal.original = work.plan
       /\ ~kernel => journal = None
  BY <1>1, <1>3, <1>12, Touching
<1>15. Typed'
  BY <1>1, <1>6, <1>9 DEF IInv, Typed
<1>16. Sorted(work.phase, work.todo)' /\ RestingOK'
  BY <1>1, <1>3, <1>9, HeadFacts DEF Sorted, RestingOK, Free
<1>17. JournalOK'
  <2>1. OriginalKept'
    BY <1>1, <1>13, <1>14 DEF OriginalKept, Readable
  <2> QED
    BY <1>1, <1>3, <1>14, <2>1
    DEF IInv, JournalOK, Readable, GoodPair, LatestOf, Forgotten, Bundle, Unfinished
<1>18. PlanOK'
  BY <1>1, <1>3, <1>9 DEF IInv, PlanOK, GoodPair, LatestOf, Forgotten, Readable, Bundle
<1>19. RestoringOK'
  <2>1. ToRestore'
    BY <1>1, <1>10, <1>11, StepNames DEF ToRestore
  <2>2. ASSUME NEW g \in File
        PROVE  Moved(g)'
    <3>1. Do("move", g) \notin Todo'
      BY <1>10, <1>13
    <3>2. g \notin Elements(work'.installed) => g # f /\ g \notin Elements(work.installed)
      BY <1>8, <1>9
    <3> QED
      BY <1>1, <1>6, <1>9, <1>13, <3>1, <3>2 DEF Moved
  <2>3. ASSUME NEW g \in {"db", "brief"}, Installed(g)
        PROVE  Installed(g)'
    <3>1. CASE g = f
      BY <1>6, <1>8, <1>9, <3>1 DEF Installed, Bundle
    <3>2. CASE g # f
      <4>1. Do("install", g) \in Todo' <=> Do("install", g) \in Todo
        BY <1>10, <3>2, StepNames
      <4>2. files'[g] = files[g]
        BY <1>6, <3>2 DEF File
      <4> QED
        BY <1>8, <1>9, <2>3, <4>1, <4>2 DEF Installed, Bundle
    <3> QED
      BY <3>1, <3>2
  <2>4. (kernel => Journalled)'
    BY <1>1, <1>10, <1>14 DEF Journalled, Readable, Unfinished
  <2> QED
    BY <1>11, <2>1, <2>2, <2>3, <2>4 DEF RestoringOK
<1> QED
  BY <1>9, <1>15, <1>16, <1>17, <1>18, <1>19 DEF IInv, RestoredOK, UndoingOK, RecoveringOK

LEMMA VerifyOK == IInv /\ Verify => IInv'
<1> SUFFICES ASSUME IInv, Verify
             PROVE  IInv'
  OBVIOUS
<1>1. /\ work.todo # <<>> /\ Head(work.todo).op = "verify"
      /\ files' = [files EXCEPT !.wal = None]
      /\ work' = [work EXCEPT !.todo = Rest, !.phase = "restored"]
      /\ UNCHANGED <<saved, journal, open, kernel, commits, forgets>>
  BY DEF Verify, Doing, past
<1>2. Head(work.todo) = VerifyIt
  BY <1>1, HeadFacts, StepKinds
<1>3. work.phase = "restoring" /\ ~open /\ ~Free
  BY <1>1, OpPhases, HeadFacts DEF Op
<1>4. files \in Contents /\ work \in WorkType
  BY DEF IInv, Typed
<1>5. /\ work' \in WorkType
      /\ work'.phase = "restored" /\ work'.plan = work.plan /\ work'.todo = Rest
  BY <1>1, <1>4, HeadFacts DEF WorkType, Phase
<1>6. Todo' = Todo \ {VerifyIt}
  BY <1>1, <1>2, <1>3, <1>5, InOrder DEF Todo
<1>7. 5 < Rank(Head(work.todo)) /\ 2 < Rank(Head(work.todo))
  BY <1>2, Ranks
<1>8. saved = work.plan
  BY <1>1, <1>3, <1>7, AllAside
<1>9. /\ kernel => Unfinished /\ journal \notin {None, Torn} /\ journal.original = work.plan
      /\ ~kernel => journal = None
  BY <1>1, <1>3, <1>7, Touching
<1>10. files' = Bundle /\ files' \in Contents
  <2>1. Installed("db") /\ Installed("brief")
    BY <1>3 DEF IInv, RestoringOK
  <2>2. Do("install", "db") \notin Todo /\ Do("install", "brief") \notin Todo
    BY <1>1, <1>2, <1>3, Earlier, Ranks
  <2>3. files["db"] = 0 /\ files["brief"] = 0
    BY <2>1, <2>2, BundleFacts DEF Installed
  <2>4. files' \in Contents /\ files'["db"] = 0 /\ files'["wal"] = None /\ files'["brief"] = 0
    BY <1>1, <1>4, <2>3 DEF Contents, File
  <2> QED
    BY <2>4, BundleFacts
<1>11. Typed'
  BY <1>1, <1>5, <1>10 DEF IInv, Typed
<1>12. Sorted(work.phase, work.todo)' /\ RestingOK'
  <2>1. Sorted("restoring", Rest)
    BY <1>1, <1>3, HeadFacts
  <2>2. Sorted("restored", Rest)
    BY <2>1 DEF Sorted, Precedes
  <2> QED
    BY <1>5, <2>2 DEF Sorted, RestingOK, Free
<1>13. JournalOK'
  <2>1. OriginalKept'
    BY <1>1, <1>8, <1>9 DEF OriginalKept, Readable
  <2> QED
    BY <1>1, <1>3, <1>9, <2>1
    DEF IInv, JournalOK, Readable, GoodPair, LatestOf, Forgotten, Bundle, Unfinished
<1>14. PlanOK'
  BY <1>1, <1>3, <1>5 DEF IInv, PlanOK, GoodPair, LatestOf, Forgotten, Readable, Bundle
<1>15. RestoredOK'
  <2>1. ToRestore
    BY <1>3 DEF IInv, RestoringOK
  <2>2. ASSUME NEW x \in Todo'
        PROVE  x.op \in {"complete", "clean", "remove"} /\ (~kernel => x.op = "clean")
    <3>1. x \in Step /\ x \in Todo /\ 8 < Rank(x)
      <4>1. x \in Elements(Rest)
        BY <1>5, <2>2 DEF Todo
      <4> QED
        BY <1>1, <1>2, <1>3, <4>1, InOrder, HeadFacts, Ranks
    <3>2. x.op \in FileOp \cup {"create", "record", "verify", "complete", "clean", "remove"}
      BY <3>1, StepNames DEF Step
    <3>3. x.op \notin {"delete", "return", "copy", "copied"}
      BY <2>1, <3>1 DEF ToRestore
    <3>4. x.op \notin {"create", "record", "move", "install", "verify"}
      BY <3>1 DEF Rank
    <3>5. ~kernel => x.op \notin {"complete", "remove"}
      BY <2>1, <3>1 DEF ToRestore
    <3> QED
      BY <3>2, <3>3, <3>4, <3>5 DEF FileOp
  <2>3. kernel => CompleteIt \in Todo' /\ RemoveIt \in Todo'
    BY <1>6, <2>1, StepNames DEF ToRestore
  <2>4. ~kernel => CompleteIt \notin Todo'
    BY <2>2, StepNames
  <2>5. kernel => Unfinished'
    BY <1>1, <1>9 DEF Unfinished, Readable
  <2> QED
    BY <1>1, <1>5, <1>8, <1>10, <2>2, <2>3, <2>4, <2>5 DEF RestoredOK, Bundle
<1> QED
  BY <1>5, <1>11, <1>12, <1>13, <1>14, <1>15 DEF IInv, RestoringOK, UndoingOK, RecoveringOK

LEMMA CompleteOK == IInv /\ Complete => IInv'
<1> SUFFICES ASSUME IInv, Complete
             PROVE  IInv'
  OBVIOUS
<1>1. /\ work.todo # <<>> /\ Head(work.todo).op = "complete" /\ Advance
      /\ journal' = [journal EXCEPT !.completed = TRUE]
      /\ UNCHANGED <<files, saved, open, kernel, commits, forgets>>
  BY DEF Complete, Doing, past
<1>2. Head(work.todo) = CompleteIt /\ CompleteIt \in Todo
  BY <1>1, HeadFacts, StepKinds
<1>3. work.phase = "restored" /\ kernel /\ ~open
  BY <1>1, OpPhases, HeadFacts DEF Op
<1>4. Todo' = Todo \ {CompleteIt}
  BY <1>1, <1>2, <1>3, Advanced, InOrder
<1>5. /\ files = Bundle /\ \A x \in Todo : x.op \in {"complete", "clean", "remove"}
      /\ RemoveIt \in Todo /\ Readable
  BY <1>2, <1>3 DEF IInv, RestoredOK, Unfinished
<1>6. journal \in Record
  BY <1>5 DEF IInv, Typed, Readable
<1>7. journal' \in Record /\ journal'.original = journal.original /\ journal'.completed = TRUE
  BY <1>1, <1>6 DEF Record
<1>8. journal' \notin {None, Torn}
  BY <1>7, DistinctAssumption
<1>9. Typed'
  BY <1>1, <1>7, Advanced DEF IInv, Typed
<1>10. JournalOK'
  <2>1. GoodPair(journal.original) /\ Forgotten(Bundle.db) = forgets
    BY <1>5 DEF IInv, JournalOK
  <2>2. OriginalKept'
    BY <1>7 DEF OriginalKept
  <2> QED
    BY <1>1, <1>3, <1>5, <1>7, <1>8, <2>1, <2>2
    DEF JournalOK, Readable, GoodPair, LatestOf, Forgotten, Bundle
<1>11. PlanOK'
  BY <1>1, <1>3, <1>5, <1>7, Advanced
  DEF IInv, PlanOK, GoodPair, LatestOf, Forgotten, Readable, Bundle
<1>12. RestoredOK'
  <2>1. CompleteIt \notin Todo' /\ RemoveIt \in Todo'
    BY <1>4, <1>5, StepNames
  <2>2. (Readable /\ journal.completed)'
    BY <1>7, <1>8 DEF Readable
  <2> QED
    BY <1>1, <1>3, <1>4, <1>5, <2>1, <2>2 DEF RestoredOK, Bundle
<1> QED
  BY <1>1, <1>3, <1>9, <1>10, <1>11, <1>12, Advanced
  DEF IInv, RestoringOK, UndoingOK, RecoveringOK

\* A recovery cleans up when the journal is gone, or complete.
LEMMA CleansLast ==
    ASSUME IInv, work.todo # <<>>, work.phase = "recovering", Head(work.todo) = CleanIt
    PROVE  ~Unfinished
<1> SUFFICES ASSUME Unfinished
             PROVE  FALSE
  OBVIOUS
<1>1. RemoveIt \in Todo /\ CleanIsLast /\ work.todo \in Seq(Step)
  BY DEF IInv, RecoveringOK, Typed, WorkType
<1>2. 1 \in DOMAIN work.todo /\ work.todo[1] = Head(work.todo)
      /\ DOMAIN work.todo = 1..Len(work.todo) /\ Len(work.todo) \in Nat
  BY <1>1, TailFacts
<1>3. Len(work.todo) = 1
  BY <1>1, <1>2, StepNames DEF CleanIsLast
<1>4. Todo = {CleanIt}
  BY <1>2, <1>3 DEF Todo, Elements
<1> QED
  BY <1>1, <1>4, StepNames

LEMMA CleanOK == IInv /\ Clean => IInv'
<1> SUFFICES ASSUME IInv, Clean
             PROVE  IInv'
  OBVIOUS
<1>1. /\ work.todo # <<>> /\ Head(work.todo).op = "clean"
      /\ UNCHANGED <<files, journal, open, kernel, commits, forgets>>
  BY DEF Clean, Doing, past
<1>2. Head(work.todo) = CleanIt
  BY <1>1, HeadFacts, StepKinds
<1>3. work.phase \in {"restored", "recovering"} /\ ~open /\ ~Free
  BY <1>1, OpPhases, HeadFacts DEF Op
<1>4. work.phase = "restored" => CompleteIt \notin Todo
  BY <1>1, <1>2, Earlier, Ranks
<1>5. ~Unfinished
  <2>1. CASE work.phase = "restored"
    <3>1. kernel => (Readable /\ journal.completed) \/ journal = None
      BY <1>4, <2>1 DEF IInv, RestoredOK
    <3>2. ~kernel => journal = None
      BY DEF IInv, JournalOK
    <3> QED
      BY <3>1, <3>2 DEF Unfinished, Readable
  <2> QED
    BY <1>1, <1>2, <1>3, <2>1, CleansLast
<1>6. JournalOK'
  <2>1. OriginalKept'
    BY <1>1, <1>5 DEF OriginalKept, Unfinished, Readable
  <2> QED
    BY <1>1, <1>3, <2>1
    DEF IInv, JournalOK, Readable, GoodPair, LatestOf, Forgotten, Bundle
<1>7. CASE \E f \in File : saved' = [saved EXCEPT ![f] = None] /\ UNCHANGED work
  <2>1. PICK f \in File : saved' = [saved EXCEPT ![f] = None] /\ UNCHANGED work
    BY <1>7
  <2>2. saved' \in Contents
    BY <2>1 DEF IInv, Typed, Contents
  <2>3. Typed' /\ Sorted(work.phase, work.todo)' /\ RestingOK'
    BY <1>1, <2>1, <2>2 DEF IInv, Typed, Sorted, RestingOK, Free
  <2>4. PlanOK' /\ Todo' = Todo
    BY <1>1, <2>1
    DEF IInv, PlanOK, GoodPair, LatestOf, Forgotten, Readable, Bundle, Todo
  <2>5. RestoredOK'
    BY <1>1, <1>4, <2>1, <2>4 DEF IInv, RestoredOK, Bundle, Readable
  <2>6. RecoveringOK'
    <3>1. ~Unfinished'
      BY <1>1, <1>5 DEF Unfinished, Readable
    <3> QED
      BY <1>1, <1>5, <2>1, <2>4, <3>1 DEF IInv, RecoveringOK
  <2> QED
    BY <1>3, <1>6, <2>1, <2>3, <2>4, <2>5, <2>6 DEF IInv, RestoringOK, UndoingOK
<1>8. CASE Advance /\ UNCHANGED saved
  <2>1. /\ Todo' = Elements(Rest) /\ work' \in WorkType
        /\ work'.phase = work.phase /\ work'.plan = work.plan
        /\ Sorted(work.phase, work.todo)' /\ RestingOK'
    BY <1>1, <1>8, Advanced
  <2>2. \A x \in Todo' : x \in Todo
    BY <1>1, <2>1, HeadFacts
  <2>3. RemoveIt \in Todo' <=> RemoveIt \in Todo
    BY <1>1, <1>2, <2>1, HeadFacts, StepNames
  <2>4. Typed' /\ PlanOK'
    BY <1>1, <1>8, <2>1
    DEF IInv, Typed, PlanOK, GoodPair, LatestOf, Forgotten, Readable, Bundle
  <2>5. RestoredOK'
    BY <1>1, <1>4, <1>8, <2>1, <2>2, <2>3 DEF IInv, RestoredOK, Bundle, Readable
  <2>6. RecoveringOK'
    <3>1. ~Unfinished'
      BY <1>1, <1>5 DEF Unfinished, Readable
    <3> QED
      BY <1>1, <1>5, <2>1, <2>2, <3>1 DEF IInv, RecoveringOK
  <2> QED
    BY <1>3, <1>6, <2>1, <2>4, <2>5, <2>6 DEF IInv, RestoringOK, UndoingOK
<1> QED
  BY <1>7, <1>8 DEF Clean

\* Nothing is left to do.
LEMMA NothingLeft ==
    ASSUME NEW s \in Seq(Step), Elements(s) = {}
    PROVE  s = <<>>
<1>1. DOMAIN s = 1..Len(s) /\ Len(s) \in Nat
  OBVIOUS
<1>2. 1 \notin DOMAIN s
  BY DEF Elements
<1>3. Len(s) = 0
  BY <1>1, <1>2
<1> QED
  BY <1>3

\* When the journal is removed, the files are the bundle's, or all as they were.
LEMMA RemovedFacts ==
    ASSUME IInv, RemoveJournal
    PROVE  /\ kernel /\ journal # None
           /\ \/ Readable /\ journal.completed /\ files = Bundle
              \/ work.phase = "undoing" /\ files = work.plan
              \/ Readable /\ files = journal.original
           /\ GoodPair(files)
           /\ work.phase = "undoing" => Todo' = {} /\ \A f \in File : Returned(f)
<1>1. /\ work.todo # <<>> /\ Head(work.todo).op = "remove" /\ Advance
  BY DEF RemoveJournal, Doing
<1>2. Head(work.todo) = RemoveIt /\ RemoveIt \in Todo
  BY <1>1, HeadFacts, StepKinds
<1>3. work.phase \in {"restored", "undoing", "recovering"}
  BY <1>1, OpPhases DEF Op
<1>4. Todo' = Elements(Rest)
  BY <1>1, Advanced
<1>5. Readable /\ journal.completed => GoodPair(files) /\ files = Bundle
  BY BundleFacts DEF IInv, JournalOK
<1>9. work.phase = "undoing" => Todo' = {} /\ \A f \in File : Returned(f)
  <2> SUFFICES ASSUME work.phase = "undoing"
               PROVE  Todo' = {} /\ \A f \in File : Returned(f)
    OBVIOUS
  <2>1. \A x \in Elements(Rest) : FALSE
    BY <1>1, HeadFacts DEF Precedes
  <2>2. \A x \in Todo : x = RemoveIt
    BY <1>1, <1>2, <2>1, HeadFacts
  <2>3. \A f : Do("return", f) \notin Todo /\ Do("delete", f) \notin Todo
    BY <2>2, StepNames
  <2> QED
    BY <1>4, <2>1, <2>3 DEF IInv, UndoingOK, Undone
<1>10. CASE work.phase = "restored"
  <2>1. kernel
    BY <1>2, <1>10, StepNames DEF IInv, RestoredOK
  <2>2. CompleteIt \notin Todo
    BY <1>1, <1>2, <1>10, Earlier, Ranks
  <2>3. Readable /\ journal.completed
    BY <1>2, <1>10, <2>1, <2>2 DEF IInv, RestoredOK
  <2> QED
    BY <1>5, <1>10, <2>1, <2>3 DEF Readable
<1>11. CASE work.phase = "undoing"
  <2>1. kernel /\ journal # None
    BY <1>2, <1>11 DEF IInv, UndoingOK, JournalOK
  <2>2. \A f \in File : files[f] = work.plan[f]
    BY <1>9, <1>11 DEF Returned
  <2>3. files \in Contents /\ work.plan \in Contents
    BY DEF IInv, Typed, WorkType
  <2>4. files = work.plan
    BY <2>2, <2>3 DEF Contents
  <2> QED
    BY <1>9, <1>11, <2>1, <2>4 DEF IInv, PlanOK
<1>12. CASE work.phase = "recovering"
  <2>1. kernel /\ Readable
    BY <1>2, <1>12, StepNames DEF IInv, RecoveringOK, Readable
  <2>2. CASE journal.completed
    BY <1>5, <1>12, <2>1, <2>2 DEF Readable
  <2>3. CASE ~journal.completed
    <3>1. \A f \in File : Recovered(f)
      BY <1>12, <2>1, <2>3 DEF IInv, RecoveringOK, Unfinished
    <3>2. \A x \in Elements(Rest) : x.op = "clean"
      BY <1>1, <1>2, <1>12, HeadFacts, StepNames DEF Precedes
    <3>3. \A x \in Todo : x = RemoveIt \/ x.op = "clean"
      BY <1>1, <1>2, <3>2, HeadFacts
    <3>4. \A f : Do("delete", f) \notin Todo /\ Do("copied", f) \notin Todo
      BY <3>3, StepNames
    <3>5. \A f \in File : files[f] = journal.original[f]
      BY <3>1, <3>4 DEF Recovered
    <3>6. files \in Contents /\ journal.original \in Contents
      BY <2>1 DEF IInv, Typed, Readable, Record
    <3>7. files = journal.original
      BY <3>5, <3>6 DEF Contents
    <3> QED
      BY <1>12, <2>1, <3>7 DEF IInv, JournalOK, Readable
  <2> QED
    BY <2>2, <2>3
<1> QED
  BY <1>3, <1>10, <1>11, <1>12

LEMMA RemoveJournalOK == IInv /\ RemoveJournal => IInv'
<1> SUFFICES ASSUME IInv, RemoveJournal
             PROVE  IInv'
  OBVIOUS
<1>1. /\ work.todo # <<>> /\ Head(work.todo).op = "remove" /\ Advance
      /\ journal' = None
      /\ UNCHANGED <<files, saved, open, kernel, commits, forgets>>
  BY DEF RemoveJournal, Doing, past
<1>2. Head(work.todo) = RemoveIt /\ RemoveIt \in Todo
  BY <1>1, HeadFacts, StepKinds
<1>3. work.phase \in {"restored", "undoing", "recovering"} /\ ~open /\ ~Free
  BY <1>1, OpPhases, HeadFacts DEF Op
<1>4. /\ Todo' = Elements(Rest) /\ work' \in WorkType
      /\ work'.phase = work.phase /\ work'.plan = work.plan /\ work'.todo = Rest
      /\ Sorted(work.phase, work.todo)' /\ RestingOK'
  BY <1>1, Advanced
<1>5. \A x \in Todo' : x \in Todo
  BY <1>1, <1>4, HeadFacts
<1>6. Typed' /\ PlanOK'
  BY <1>1, <1>4, DistinctAssumption
  DEF IInv, Typed, PlanOK, GoodPair, LatestOf, Forgotten, Readable, Bundle
<1>7. ~Readable' /\ ~Unfinished'
  BY <1>1 DEF Readable, Unfinished
<1>9. work.phase = "undoing" => Todo' = {} /\ \A f \in File : Returned(f)
  BY RemovedFacts
<1>10. kernel /\ GoodPair(files)
  BY RemovedFacts DEF IInv, JournalOK, PlanOK
<1>11. JournalOK'
  BY <1>1, <1>3, <1>7, <1>10 DEF JournalOK, OriginalKept, GoodPair, LatestOf, Forgotten
<1>12. RestoredOK'
  <2> SUFFICES ASSUME work.phase = "restored"
               PROVE  RestoredOK'
    BY <1>4 DEF RestoredOK
  <2>1. CompleteIt \notin Todo' /\ RemoveIt \notin Todo'
    BY <1>1, <1>2, <1>4, <1>5, Earlier, InOrder, Ranks
  <2>2. files = Bundle /\ \A x \in Todo : x.op \in {"complete", "clean", "remove"}
    BY DEF IInv, RestoredOK
  <2> QED
    BY <1>1, <1>5, <1>10, <2>1, <2>2 DEF RestoredOK, Bundle
<1>13. UndoingOK'
  <2> SUFFICES ASSUME work.phase = "undoing"
               PROVE  UndoingOK'
    BY <1>4 DEF UndoingOK
  <2>1. Todo' = {} /\ \A f \in File : Returned(f)
    BY <1>9
  <2>2. work'.todo = <<>>
    BY <1>1, <1>4, <2>1, HeadFacts, NothingLeft
  <2>3. saved' = saved
    BY DEF RemoveJournal
  <2>4. \A f \in File : Returned(f)'
    BY <1>1, <1>4, <2>1, <2>3 DEF Returned
  <2> QED
    BY <1>1, <1>7, <2>1, <2>2, <2>4 DEF UndoingOK, Undone
<1>14. RecoveringOK'
  <2> SUFFICES ASSUME work.phase = "recovering"
               PROVE  RecoveringOK'
    BY <1>4 DEF RecoveringOK
  <2>1. \A x \in Elements(Rest) : x.op = "clean"
    BY <1>1, HeadFacts DEF Precedes
  <2> QED
    BY <1>1, <1>4, <1>7, <1>10, <2>1, DistinctAssumption DEF RecoveringOK
<1> QED
  BY <1>3, <1>4, <1>6, <1>11, <1>12, <1>13, <1>14 DEF IInv, RestoringOK

\* A step of an undoing that leaves the journal and the other files alone.
LEMMA UndoStep ==
    ASSUME IInv, work.todo # <<>>, Advance, work.phase = "undoing",
           files' \in Contents, saved' \in Contents,
           UNCHANGED <<journal, open, kernel, commits, forgets>>,
           Head(work.todo) # RemoveIt,
           \A f \in File : Undone(f)',
           (OriginalKept)'
    PROVE  IInv'
<1>1. /\ Todo' = Elements(Rest) /\ work' \in WorkType
      /\ work'.phase = "undoing" /\ work'.plan = work.plan
      /\ Sorted(work.phase, work.todo)' /\ RestingOK'
  BY Advanced
<1>2. ~open /\ \A x \in Todo' : x \in Todo
  BY <1>1, HeadFacts
<1>3. RemoveIt \in Todo' <=> RemoveIt \in Todo
  BY <1>1, HeadFacts
<1>4. Typed' /\ PlanOK'
  BY <1>1 DEF IInv, Typed, PlanOK, GoodPair, LatestOf, Forgotten, Readable, Bundle
<1>5. /\ kernel => journal # None
      /\ Readable => ~journal.completed
      /\ \A x \in Todo : x.op \in {"delete", "return", "remove"}
      /\ RemoveIt \in Todo <=> journal # None
  BY DEF IInv, UndoingOK
<1>6. JournalOK'
  BY <1>2, <1>5 DEF IInv, JournalOK, GoodPair, LatestOf, Forgotten, Readable, Bundle
<1>7. UndoingOK'
  BY <1>2, <1>3, <1>5 DEF UndoingOK, Readable
<1> QED
  BY <1>1, <1>4, <1>6, <1>7 DEF IInv, RestoringOK, RestoredOK, RecoveringOK

LEMMA CleanStaysLast ==
    ASSUME NEW s \in Seq(Step), s # <<>>,
           \A i \in DOMAIN s : s[i].op = "clean" => i = Len(s)
    PROVE  \A i \in DOMAIN Tail(s) : Tail(s)[i].op = "clean" => i = Len(Tail(s))
<1>1. /\ Len(s) \in Nat /\ Len(Tail(s)) = Len(s) - 1
      /\ DOMAIN Tail(s) = 1..(Len(s) - 1)
      /\ \A i \in DOMAIN Tail(s) : i + 1 \in DOMAIN s /\ Tail(s)[i] = s[i + 1]
  BY TailFacts
<1> SUFFICES ASSUME NEW i \in DOMAIN Tail(s), Tail(s)[i].op = "clean"
             PROVE  i = Len(Tail(s))
  OBVIOUS
<1>2. i + 1 = Len(s)
  BY <1>1
<1> QED
  BY <1>1, <1>2

\* A step of a recovery on one of the files.
LEMMA RecoveryStep ==
    ASSUME IInv, work.todo # <<>>, Advance, work.phase = "recovering",
           Head(work.todo).op \in {"delete", "copy", "copied"},
           files' \in Contents,
           UNCHANGED <<saved, journal, open, kernel, commits, forgets>>,
           NEW f \in File, Head(work.todo).file = f,
           \A g \in File : g # f => files'[g] = files[g],
           Recovered(f)',
           journal.original[f] \in {files'[f], saved[f], None}
    PROVE  IInv'
<1>1. /\ Todo' = Elements(Rest) /\ work' \in WorkType
      /\ work'.phase = "recovering" /\ work'.plan = work.plan /\ work'.todo = Rest
      /\ Sorted(work.phase, work.todo)' /\ RestingOK'
  BY Advanced
<1>2. ~open /\ Head(work.todo) \in Todo /\ work.todo \in Seq(Step)
      /\ (\A x \in Todo' : x \in Todo)
      /\ \A x \in Todo : x = Head(work.todo) \/ x \in Todo'
  BY <1>1, HeadFacts DEF IInv, Typed, WorkType
<1>3. Unfinished /\ kernel /\ RemoveIt \in Todo /\ CleanIsLast
      /\ (\A g \in File : Recovered(g))
      /\ \A x \in Todo : x.op \in {"delete", "copy", "copied", "remove", "clean"}
  BY <1>2 DEF IInv, RecoveringOK
<1>4. Unfinished' /\ Readable /\ Readable' /\ journal' # Torn /\ journal' # None
  BY <1>3 DEF Unfinished, Readable
<1>5. Typed' /\ PlanOK'
  BY <1>1 DEF IInv, Typed, PlanOK
<1>6. JournalOK'
  <2>1. OriginalKept'
    BY <1>3 DEF IInv, JournalOK, OriginalKept, Unfinished
  <2>2. GoodPair(journal.original) /\ Forgotten(Bundle.db) = forgets
    BY <1>4 DEF IInv, JournalOK
  <2> QED
    BY <1>2, <1>3, <1>4, <2>1, <2>2
    DEF JournalOK, Unfinished, GoodPair, LatestOf, Forgotten, Bundle
<1>7. RemoveIt \in Todo'
  BY <1>2, <1>3, StepNames
<1>8. CleanIsLast'
  BY <1>1, <1>2, <1>3, CleanStaysLast DEF CleanIsLast, Rest
<1>9. ASSUME NEW g \in File
      PROVE  Recovered(g)'
  <2>1. CASE g = f
    BY <2>1
  <2>2. CASE g # f
    <3>1. \A op : Do(op, g) \in Todo' <=> Do(op, g) \in Todo
      BY <1>2, <2>2, StepNames
    <3>2. files'[g] = files[g]
      BY <2>2
    <3> QED
      BY <1>2, <1>3, <3>1, <3>2 DEF Recovered
  <2> QED
    BY <2>1, <2>2
<1>10. RecoveringOK'
  BY <1>2, <1>3, <1>4, <1>7, <1>8, <1>9 DEF RecoveringOK
<1> QED
  BY <1>1, <1>5, <1>6, <1>10 DEF IInv, RestoringOK, RestoredOK, UndoingOK

\* In a recovery, the steps on a file come in turn.
LEMMA InTurn ==
    ASSUME IInv, work.todo # <<>>, work.phase = "recovering",
           Head(work.todo).op \in {"delete", "copy", "copied"}
    PROVE  \A x \in Elements(Rest) :
              x.op \in {"delete", "copy", "copied"} /\ x.file = Head(work.todo).file =>
                  Turn(Head(work.todo).op) < Turn(x.op)
BY HeadFacts DEF Precedes

LEMMA DeleteOK == IInv /\ Delete => IInv'
<1> SUFFICES ASSUME IInv, Delete
             PROVE  IInv'
  OBVIOUS
<1>1. /\ work.todo # <<>> /\ Head(work.todo).op = "delete" /\ Advance
      /\ files' = [files EXCEPT ![Target] = None]
      /\ UNCHANGED <<saved, journal, open, kernel, commits, forgets>>
  BY DEF Delete, Doing, past
<1>2. PICK f \in File :
        /\ Head(work.todo) = Do("delete", f) /\ Do("delete", f) \in Todo
        /\ Head(work.todo).file = f
        /\ files' = [files EXCEPT ![f] = None]
  <2>1. Target \in File /\ Head(work.todo) = Do("delete", Target) /\ Do("delete", Target) \in Todo
        /\ Head(work.todo).file = Target
    BY <1>1, HeadFacts, StepKinds DEF FileOp, Target
  <2> QED
    BY <1>1, <2>1
<1>3. work.phase \in {"undoing", "recovering"}
  BY <1>1, OpPhases DEF Op
<1>4. /\ files' \in Contents /\ saved' \in Contents /\ files'[f] = None
      /\ \A g \in File : g # f => files'[g] = files[g]
  BY <1>1, <1>2 DEF IInv, Typed, Contents
<1>5. Todo' = Elements(Rest) /\ work'.plan = work.plan /\ work'.phase = work.phase
  BY <1>1, Advanced
<1>6. /\ \A x \in Todo' : x \in Todo
      /\ \A x \in Todo : x = Do("delete", f) \/ x \in Todo'
  BY <1>1, <1>2, <1>5, HeadFacts
<1>7. CASE work.phase = "undoing"
  <2>1. \A g \in File : Undone(g)
    BY <1>7 DEF IInv, UndoingOK
  <2>2. \A g : Do("return", g) \in Todo' <=> Do("return", g) \in Todo
    BY <1>6, StepNames
  <2>3. ASSUME NEW g \in File
        PROVE  Undone(g)'
    <3>1. CASE g = f
      BY <1>1, <1>2, <1>4, <1>5, <2>1, <2>2, <3>1 DEF Undone, Returned
    <3>2. CASE g # f
      <4>1. Do("delete", g) \in Todo' <=> Do("delete", g) \in Todo
        BY <1>6, <3>2, StepNames
      <4>2. files'[g] = files[g] /\ saved' = saved
        BY <1>1, <1>4, <3>2
      <4> QED
        BY <1>5, <2>1, <2>2, <4>1, <4>2 DEF Undone, Returned
    <3> QED
      BY <3>1, <3>2
  <2>4. OriginalKept'
    <3> SUFFICES ASSUME Readable, NEW g \in File
                 PROVE  journal.original[g] \in {files'[g], saved[g], None}
      BY <1>1 DEF OriginalKept, Readable
    <3>1. kernel /\ journal.original = work.plan
      BY <1>7 DEF IInv, PlanOK, JournalOK, Readable
    <3> QED
      BY <1>2, <1>4, <2>1, <3>1 DEF Undone, Returned
  <2>5. Head(work.todo) # RemoveIt
    BY <1>2, StepNames
  <2> QED
    BY <1>1, <1>4, <1>7, <2>3, <2>4, <2>5, UndoStep
<1>8. CASE work.phase = "recovering"
  <2>1. Recovered(f)
    BY <1>2, <1>8, StepNames DEF IInv, RecoveringOK
  <2>2. Do("delete", f) \notin Todo'
    BY <1>1, <1>2, <1>5, <1>8, InTurn, StepNames DEF Turn
  <2>3. \A x \in Todo' : x \in Step
    BY <1>1, <1>5, HeadFacts
  <2>4. Recovered(f)' /\ journal.original[f] \in {files'[f], saved[f], None}
    <3>1. CASE journal.original[f] = None /\ Do("copy", f) \notin Todo
               /\ Do("copied", f) \notin Todo
      <4>1. \A x \in Todo' : x.op \in {"delete", "copy", "copied"} => x.file # f
        BY <1>6, <2>2, <2>3, <3>1, StepKinds DEF FileOp
      <4> QED
        BY <1>1, <1>4, <3>1, <4>1 DEF Recovered
    <3>2. CASE journal.original[f] = saved[f] /\ Do("copied", f) \in Todo
      <4>1. Do("copied", f) \in Todo'
        BY <1>6, <3>2, StepNames
      <4> QED
        BY <1>1, <3>2, <4>1 DEF Recovered
    <3> QED
      BY <1>2, <2>1, <3>1, <3>2, StepNames DEF Recovered
  <2> QED
    BY <1>1, <1>2, <1>4, <1>8, <2>4, RecoveryStep
<1> QED
  BY <1>3, <1>7, <1>8

LEMMA ReturnOK == IInv /\ Return => IInv'
<1> SUFFICES ASSUME IInv, Return
             PROVE  IInv'
  OBVIOUS
<1> DEFINE f == Target
<1>1. /\ work.todo # <<>> /\ Head(work.todo).op = "return"
      /\ UNCHANGED <<journal, open, kernel, commits, forgets>>
  BY DEF Return, Doing, past
<1>2. f \in File /\ Head(work.todo) = Do("return", f) /\ Do("return", f) \in Todo
  BY <1>1, HeadFacts, StepKinds DEF FileOp, Target
<1>3. work.phase = "undoing"
  BY <1>1, OpPhases DEF Op
<1>4. CASE saved[f] = None
  BY <1>1, <1>4, ToIdle DEF Return
<1>5. CASE saved[f] # None
  <2>1. /\ files' = [files EXCEPT ![f] = saved[f]]
        /\ saved' = [saved EXCEPT ![f] = None]
        /\ Advance
    BY <1>5 DEF Return
  <2> HIDE DEF f
  <2>2. /\ files' \in Contents /\ saved' \in Contents
        /\ files'[f] = saved[f] /\ saved'[f] = None
        /\ \A g \in File : g # f => files'[g] = files[g] /\ saved'[g] = saved[g]
    BY <1>2, <2>1 DEF IInv, Typed, Contents
  <2>3. Todo' = Elements(Rest) /\ work'.plan = work.plan
    BY <1>1, <2>1, Advanced
  <2>4. /\ \A x \in Todo' : x \in Todo
        /\ \A x \in Todo : x = Do("return", f) \/ x \in Todo'
    BY <1>1, <1>2, <2>3, HeadFacts
  <2>5. \A g : Do("delete", g) \notin Todo' /\ Do("delete", g) \notin Todo
    <3>1. \A x \in Elements(Rest) : x.op # "delete"
      BY <1>1, <1>3, HeadFacts DEF Precedes
    <3> QED
      BY <2>3, <2>4, <3>1, StepNames
  <2>6. \A g \in File : Undone(g)
    BY <1>3 DEF IInv, UndoingOK
  <2>7. saved[f] = work.plan[f]
    BY <1>2, <1>5, <2>6 DEF Undone, Returned
  <2>8. ASSUME NEW g \in File
        PROVE  Undone(g)'
    <3>1. CASE g = f
      BY <2>2, <2>3, <2>5, <2>7, <3>1 DEF Undone, Returned
    <3>2. CASE g # f
      <4>1. Do("return", g) \in Todo' <=> Do("return", g) \in Todo
        BY <2>4, <3>2, StepNames
      <4> QED
        BY <2>2, <2>3, <2>5, <2>6, <3>2, <4>1 DEF Undone, Returned
    <3> QED
      BY <3>1, <3>2
  <2>9. OriginalKept'
    <3> SUFFICES ASSUME Readable, NEW g \in File
                 PROVE  journal.original[g] \in {files'[g], saved'[g], None}
      BY <1>1 DEF OriginalKept, Readable
    <3>1. kernel /\ journal.original = work.plan
      BY <1>3 DEF IInv, PlanOK, JournalOK, Readable
    <3> QED
      BY <2>3, <2>8, <3>1 DEF Undone, Returned
  <2>10. Head(work.todo) # RemoveIt
    BY <1>2, StepNames
  <2> QED
    BY <1>1, <1>3, <2>1, <2>2, <2>8, <2>9, <2>10, UndoStep
<1> QED
  BY <1>4, <1>5

LEMMA CopyOK == IInv /\ Copy => IInv'
<1> SUFFICES ASSUME IInv, Copy
             PROVE  IInv'
  OBVIOUS
<1>1. /\ work.todo # <<>> /\ Head(work.todo).op = "copy" /\ Advance
      /\ files' = [files EXCEPT ![Target] = Torn]
      /\ UNCHANGED <<saved, journal, open, kernel, commits, forgets>>
  BY DEF Copy, Doing, past
<1>2. PICK f \in File :
        /\ Head(work.todo) = Do("copy", f) /\ Do("copy", f) \in Todo
        /\ Head(work.todo).file = f
        /\ files' = [files EXCEPT ![f] = Torn]
  <2>1. Target \in File /\ Head(work.todo) = Do("copy", Target) /\ Do("copy", Target) \in Todo
        /\ Head(work.todo).file = Target
    BY <1>1, HeadFacts, StepKinds DEF FileOp, Target
  <2> QED
    BY <1>1, <2>1
<1>3. work.phase = "recovering"
  BY <1>1, OpPhases DEF Op
<1>4. files' \in Contents /\ \A g \in File : g # f => files'[g] = files[g]
  BY <1>1, <1>2 DEF IInv, Typed, Contents
<1>5. Todo' = Elements(Rest)
  BY <1>1, Advanced
<1>6. Recovered(f)
  BY <1>2, <1>3, StepNames DEF IInv, RecoveringOK
<1>7. journal.original[f] = saved[f] /\ Do("copied", f) \in Todo
  BY <1>2, <1>6, StepNames DEF Recovered
<1>8. Do("copied", f) \in Todo'
  BY <1>1, <1>2, <1>5, <1>7, HeadFacts, StepNames
<1>9. Recovered(f)' /\ journal.original[f] \in {files'[f], saved[f], None}
  BY <1>1, <1>7, <1>8 DEF Recovered
<1> QED
  BY <1>1, <1>2, <1>3, <1>4, <1>9, RecoveryStep

LEMMA CopiedOK == IInv /\ Copied => IInv'
<1> SUFFICES ASSUME IInv, Copied
             PROVE  IInv'
  OBVIOUS
<1>1. /\ work.todo # <<>> /\ Head(work.todo).op = "copied" /\ Advance
      /\ files' = [files EXCEPT ![Target] = saved[Target]]
      /\ UNCHANGED <<saved, journal, open, kernel, commits, forgets>>
  BY DEF Copied, Doing, past
<1>2. PICK f \in File :
        /\ Head(work.todo) = Do("copied", f) /\ Do("copied", f) \in Todo
        /\ Head(work.todo).file = f
        /\ files' = [files EXCEPT ![f] = saved[f]]
  <2>1. Target \in File /\ Head(work.todo) = Do("copied", Target) /\ Do("copied", Target) \in Todo
        /\ Head(work.todo).file = Target
    BY <1>1, HeadFacts, StepKinds DEF FileOp, Target
  <2> QED
    BY <1>1, <2>1
<1>3. work.phase = "recovering"
  BY <1>1, OpPhases DEF Op
<1>4. /\ files' \in Contents /\ files'[f] = saved[f]
      /\ \A g \in File : g # f => files'[g] = files[g]
  <2>1. files \in Contents /\ saved \in Contents
    BY DEF IInv, Typed
  <2>2. saved[f] \in Content \cup {None, Torn}
    BY <2>1 DEF Contents
  <2> QED
    BY <1>2, <2>1, <2>2 DEF Contents
<1>5. Todo' = Elements(Rest)
  BY <1>1, Advanced
<1>6. Recovered(f)
  BY <1>2, <1>3, StepNames DEF IInv, RecoveringOK
<1>7. journal.original[f] = saved[f]
  BY <1>2, <1>6, StepNames DEF Recovered
<1>8. \A x \in Todo' : x.op \in {"delete", "copy", "copied"} => x.file # f
  BY <1>1, <1>2, <1>3, <1>5, InTurn DEF Turn
<1>9. Recovered(f)' /\ journal.original[f] \in {files'[f], saved[f], None}
  BY <1>1, <1>4, <1>7, <1>8 DEF Recovered
<1> QED
  BY <1>1, <1>2, <1>3, <1>4, <1>9, RecoveryStep

LEMMA ReleaseOK == IInv /\ Release => IInv'
BY ToIdle DEF Release, past

LEMMA CrashOK == IInv /\ Crash => IInv'
BY ToIdle DEF Crash

-----------------------------------------------------------------------------
(* An exception: what the undoing has to do.                               *)

LEMMA DoAllFacts ==
    ASSUME NEW op \in FileOp, NEW s \in Seq(File)
    PROVE  /\ DoAll(op, s) \in Seq(Step)
           /\ Elements(DoAll(op, s)) = {Do(op, f) : f \in Elements(s)}
<1> DEFINE t == DoAll(op, s)
<1>1. DOMAIN s = 1..Len(s) /\ Len(s) \in Nat /\ \A i \in DOMAIN s : s[i] \in File
  OBVIOUS
<1>2. DOMAIN t = DOMAIN s /\ \A i \in DOMAIN t : t[i] = Do(op, s[i])
  BY DEF DoAll
<1>3. t \in Seq(Step)
  <2>1. \A i \in DOMAIN s : Do(op, s[i]) \in Step
    BY <1>1, StepNames
  <2> QED
    BY <1>1, <2>1 DEF DoAll
<1> HIDE DEF t
<1>4. Elements(t) = {Do(op, f) : f \in Elements(s)}
  BY <1>2 DEF Elements
<1> QED
  BY <1>3, <1>4 DEF t

LEMMA UndoFacts ==
    ASSUME NEW moved \in Seq(File), work.installed \in Seq(File)
    PROVE  /\ UndoSteps(moved) \in Seq(Step) /\ Sorted("undoing", UndoSteps(moved))
           /\ Elements(UndoSteps(moved)) =
                  {Do("delete", f) : f \in Elements(work.installed)}
                      \cup {Do("return", f) : f \in Elements(moved)}
                      \cup (IF journal = None THEN {} ELSE {RemoveIt})
<1> DEFINE deletes == DoAll("delete", work.installed)
           returns == DoAll("return", moved)
           remove == IF journal = None THEN <<>> ELSE <<RemoveIt>>
<1>1. UndoSteps(moved) = deletes \o returns \o remove
  BY DEF UndoSteps, RemoveIt
<1>2. /\ deletes \in Seq(Step)
      /\ Elements(deletes) = {Do("delete", f) : f \in Elements(work.installed)}
  BY DoAllFacts DEF FileOp
<1>3. /\ returns \in Seq(Step)
      /\ Elements(returns) = {Do("return", f) : f \in Elements(moved)}
  BY DoAllFacts DEF FileOp
<1>4. /\ remove \in Seq(Step) /\ Sorted("undoing", remove)
      /\ Elements(remove) = IF journal = None THEN {} ELSE {RemoveIt}
  BY Short, Ranks
<1> HIDE DEF deletes, returns, remove
<1>5. /\ \A x \in Elements(deletes) : x.op = "delete"
      /\ \A x \in Elements(returns) : x.op = "return"
      /\ \A x \in Elements(remove) : x.op = "remove"
  BY <1>2, <1>3, <1>4, StepNames
<1>6. Sorted("undoing", deletes) /\ Sorted("undoing", returns)
  <2>1. \A i \in DOMAIN deletes : deletes[i].op = "delete"
    BY <1>5 DEF Elements
  <2>2. \A i \in DOMAIN returns : returns[i].op = "return"
    BY <1>5 DEF Elements
  <2> QED
    BY <2>1, <2>2 DEF Sorted, Precedes
<1>7. /\ deletes \o returns \in Seq(Step) /\ Sorted("undoing", deletes \o returns)
      /\ Elements(deletes \o returns) = Elements(deletes) \cup Elements(returns)
  <2>1. \A x \in Elements(deletes), y \in Elements(returns) : Precedes("undoing", x, y)
    BY <1>5 DEF Precedes
  <2> QED
    BY <1>2, <1>3, <1>6, <2>1, Joined
<1> DEFINE both == deletes \o returns
<1> HIDE DEF both
<1>8. /\ both \o remove \in Seq(Step) /\ Sorted("undoing", both \o remove)
      /\ Elements(both \o remove) = Elements(both) \cup Elements(remove)
  <2>1. \A x \in Elements(both), y \in Elements(remove) : Precedes("undoing", x, y)
    BY <1>5, <1>7 DEF Precedes, both
  <2> QED
    BY <1>4, <1>7, <2>1, Joined DEF both
<1> QED
  BY <1>1, <1>2, <1>3, <1>4, <1>7, <1>8 DEF both

\* An exception in a restore puts its undoing before it.
LEMMA UndoOK ==
    ASSUME IInv, work.phase = "restoring", NEW moved \in Seq(File), Undo(moved),
           UNCHANGED <<files, saved, journal, open, kernel, commits, forgets>>,
           \/ Elements(moved) = Elements(work.undo)
           \/ \E f \in File : /\ Elements(moved) = {f} \cup Elements(work.undo)
                              /\ Do("move", f) \in Todo /\ Create \notin Todo
    PROVE  IInv'
<1>1. /\ work \in WorkType /\ work.installed \in Seq(File) /\ ~open
      /\ (kernel => Journalled) /\ \A f \in File : Moved(f)
  BY DEF IInv, Typed, WorkType, RestoringOK, JournalOK, Free
<1>2. work' = [work EXCEPT !.phase = "undoing", !.todo = UndoSteps(moved)]
  BY DEF Undo
<1>3. /\ UndoSteps(moved) \in Seq(Step) /\ Sorted("undoing", UndoSteps(moved))
      /\ Elements(UndoSteps(moved)) =
             {Do("delete", f) : f \in Elements(work.installed)}
                 \cup {Do("return", f) : f \in Elements(moved)}
                 \cup (IF journal = None THEN {} ELSE {RemoveIt})
  BY <1>1, UndoFacts
<1>4. /\ work' \in WorkType /\ work'.phase = "undoing" /\ work'.plan = work.plan
      /\ work'.todo = UndoSteps(moved)
  BY <1>1, <1>2, <1>3 DEF WorkType, Phase
<1>5. Todo' = {Do("delete", f) : f \in Elements(work.installed)}
                 \cup {Do("return", f) : f \in Elements(moved)}
                 \cup (IF journal = None THEN {} ELSE {RemoveIt})
  BY <1>3, <1>4 DEF Todo
<1>6. Typed' /\ Sorted(work.phase, work.todo)' /\ RestingOK' /\ PlanOK'
  <2>1. Typed'
    BY <1>4 DEF IInv, Typed
  <2>2. Sorted(work.phase, work.todo)'
    BY <1>3, <1>4 DEF Sorted
  <2>3. RestingOK'
    BY <1>4 DEF RestingOK, Free
  <2>4. PlanOK'
    BY <1>4 DEF IInv, PlanOK, GoodPair, LatestOf, Forgotten, Readable, Bundle
  <2> QED
    BY <2>1, <2>2, <2>3, <2>4
<1>7. JournalOK'
  BY <1>1 DEF IInv, JournalOK, GoodPair, LatestOf, Forgotten, Readable, Bundle, OriginalKept
<1>8. /\ \A f : Do("delete", f) \in Todo' <=> f \in Elements(work.installed)
      /\ \A f : Do("return", f) \in Todo' <=> f \in Elements(moved)
      /\ RemoveIt \in Todo' <=> journal # None
  BY <1>5, StepNames
<1>9. ASSUME NEW f \in File
      PROVE  Undone(f)'
  <2>1. CASE Do("move", f) \in Todo
    BY <1>1, <1>4, <1>8, <2>1 DEF Moved, Undone, Returned
  <2>2. CASE Do("move", f) \notin Todo
    <3>1. /\ saved[f] = work.plan[f]
          /\ f \in Elements(work.undo) <=> work.plan[f] # None
          /\ f \notin Elements(work.installed) => files[f] = None
      BY <1>1, <2>2 DEF Moved
    <3>2. Elements(work.undo) \subseteq Elements(moved)
      OBVIOUS
    <3> QED
      BY <1>4, <1>8, <3>1, <3>2 DEF Undone, Returned
  <2> QED
    BY <2>1, <2>2
<1>10. kernel /\ journal = None => work'.todo = <<>>
  <2> SUFFICES ASSUME kernel, journal = None
               PROVE  work'.todo = <<>>
    OBVIOUS
  <2>1. Create \in Todo /\ \A f \in File : Do("move", f) \in Todo
    BY <1>1 DEF Journalled
  <2>2. \A f \in File : f \notin Elements(work.undo) /\ f \notin Elements(work.installed)
    BY <1>1, <2>1 DEF Moved
  <2>3. Elements(moved) \subseteq File /\ Elements(work.installed) \subseteq File
    BY <1>1 DEF Elements
  <2>4. Elements(moved) = {} /\ Elements(work.installed) = {}
    BY <2>1, <2>2, <2>3
  <2>5. Elements(UndoSteps(moved)) = {}
    BY <1>3, <2>4
  <2> QED
    BY <1>3, <1>4, <2>5, NothingLeft
<1>11. Readable => ~journal.completed
  BY <1>1 DEF Journalled, Unfinished, IInv, JournalOK, Readable
<1>12. UndoingOK'
  <2>1. \A x \in Todo' : x.op \in {"delete", "return", "remove"}
    BY <1>5, StepNames
  <2> QED
    BY <1>8, <1>9, <1>10, <1>11, <2>1 DEF UndoingOK, Readable
<1> QED
  BY <1>4, <1>6, <1>7, <1>12 DEF IInv, RestoringOK, RestoredOK, RecoveringOK

LEMMA FailOK == IInv /\ Fail => IInv'
<1> SUFFICES ASSUME IInv, Fail
             PROVE  IInv'
  OBVIOUS
<1>1. /\ work.todo # <<>>
      /\ UNCHANGED <<files, saved, journal, open, kernel, commits, forgets>>
  BY DEF Fail
<1>2. CASE work.phase # "restoring"
  BY <1>1, <1>2, ToIdle DEF Fail
<1>3. CASE work.phase = "restoring"
  <2>1. work.undo \in Seq(File)
    BY DEF IInv, Typed, WorkType
  <2>2. CASE Undo(work.undo)
    BY <1>1, <1>3, <2>1, <2>2, UndoOK
  <2>3. CASE Doing("move") /\ Undo(<<Target>> \o work.undo)
    <3>1. Target \in File /\ Do("move", Target) \in Todo /\ Head(work.todo) = Do("move", Target)
      BY <1>1, <2>3, HeadFacts, StepKinds DEF Doing, FileOp, Target
    <3>2. /\ <<Target>> \o work.undo \in Seq(File)
          /\ Elements(<<Target>> \o work.undo) = {Target} \cup Elements(work.undo)
      BY <2>1, <3>1, Prepended
    <3>3. 2 < Rank(Head(work.todo))
      BY <3>1, StepNames DEF Rank
    <3>4. Create \notin Todo
      BY <1>1, <1>3, <3>3, Touching
    <3> QED
      BY <1>1, <1>3, <2>3, <3>1, <3>2, <3>4, UndoOK
  <2> QED
    BY <1>3, <2>2, <2>3 DEF Fail
<1> QED
  BY <1>2, <1>3

-----------------------------------------------------------------------------
(* The recovery.                                                           *)

\* What is to be done for one file, and that it is about no other.
LEMMA BringBackFacts ==
    ASSUME NEW f \in File
    PROVE  /\ BringBack(f) \in Seq(Step) /\ Sorted("recovering", BringBack(f))
           /\ Elements(BringBack(f)) =
                  IF journal.original[f] = None THEN {Do("delete", f)}
                  ELSE IF saved[f] = journal.original[f]
                       THEN {Do("delete", f), Do("copy", f), Do("copied", f)}
                       ELSE {}
           /\ \A x \in Elements(BringBack(f)) :
                  x.file = f /\ x.op \in {"delete", "copy", "copied"}
<1>1. Do("delete", f) \in Step /\ Do("copy", f) \in Step /\ Do("copied", f) \in Step
  BY StepNames DEF FileOp
<1>2. /\ Precedes("recovering", Do("delete", f), Do("copy", f))
      /\ Precedes("recovering", Do("delete", f), Do("copied", f))
      /\ Precedes("recovering", Do("copy", f), Do("copied", f))
  BY DEF Precedes, Turn, Do
<1>3. /\ BringBack(f) \in Seq(Step) /\ Sorted("recovering", BringBack(f))
      /\ Elements(BringBack(f)) =
             IF journal.original[f] = None THEN {Do("delete", f)}
             ELSE IF saved[f] = journal.original[f]
                  THEN {Do("delete", f), Do("copy", f), Do("copied", f)}
                  ELSE {}
  <2>1. CASE journal.original[f] = None
    <3>1. BringBack(f) = <<Do("delete", f)>>
      BY <2>1 DEF BringBack
    <3> QED
      BY <1>1, <2>1, <3>1, Short
  <2>2. CASE journal.original[f] # None /\ saved[f] = journal.original[f]
    <3>1. BringBack(f) = <<Do("delete", f), Do("copy", f), Do("copied", f)>>
      BY <2>2 DEF BringBack
    <3> QED
      BY <1>1, <1>2, <2>2, <3>1, Short
  <2>3. CASE journal.original[f] # None /\ saved[f] # journal.original[f]
    <3>1. BringBack(f) = <<>>
      BY <2>3 DEF BringBack
    <3> QED
      BY <2>3, <3>1, Short
  <2> QED
    BY <2>1, <2>2, <2>3
<1> QED
  BY <1>3, StepNames

\* The steps of a recovery: the files', then the journal's, then the cleanup.
LEMMA RecoveryFacts ==
    ASSUME ~journal.completed
    PROVE  /\ RecoverySteps \in Seq(Step) /\ Sorted("recovering", RecoverySteps)
           /\ Elements(RecoverySteps) =
                  (UNION {Elements(BringBack(f)) : f \in File}) \cup {RemoveIt, CleanIt}
           /\ \A i \in DOMAIN RecoverySteps :
                  RecoverySteps[i].op = "clean" => i = Len(RecoverySteps)
<1> DEFINE first == BringBack("db")
           second == BringBack("wal")
           third == BringBack("brief")
           ends == <<RemoveIt, CleanIt>>
<1>0. RecoverySteps = first \o second \o third \o ends
  BY DEF RecoverySteps, RemoveIt, CleanIt
<1>1. /\ first \in Seq(Step) /\ Sorted("recovering", first)
      /\ \A x \in Elements(first) : x.file = "db" /\ x.op \in {"delete", "copy", "copied"}
  BY BringBackFacts DEF File
<1>2. /\ second \in Seq(Step) /\ Sorted("recovering", second)
      /\ \A x \in Elements(second) : x.file = "wal" /\ x.op \in {"delete", "copy", "copied"}
  BY BringBackFacts DEF File
<1>3. /\ third \in Seq(Step) /\ Sorted("recovering", third)
      /\ \A x \in Elements(third) :
            x.file = "brief" /\ x.op \in {"delete", "copy", "copied"}
  BY BringBackFacts DEF File
<1>4. UNION {Elements(BringBack(f)) : f \in File} =
          Elements(first) \cup Elements(second) \cup Elements(third)
  BY DEF File
<1>5. /\ ends \in Seq(Step) /\ Sorted("recovering", ends)
      /\ Elements(ends) = {RemoveIt, CleanIt}
  <2>1. Precedes("recovering", RemoveIt, CleanIt)
    BY StepNames DEF Precedes
  <2> QED
    BY <2>1, Short, Ranks
<1> HIDE DEF first, second, third
<1> DEFINE two == first \o second
<1>6. /\ two \in Seq(Step) /\ Sorted("recovering", two)
      /\ Elements(two) = Elements(first) \cup Elements(second)
  <2>1. \A x \in Elements(first), y \in Elements(second) : Precedes("recovering", x, y)
    BY <1>1, <1>2 DEF Precedes
  <2> QED
    BY <1>1, <1>2, <2>1, Joined
<1> HIDE DEF two
<1> DEFINE three == two \o third
<1>7. /\ three \in Seq(Step) /\ Sorted("recovering", three)
      /\ Elements(three) = Elements(two) \cup Elements(third)
  <2>1. \A x \in Elements(two), y \in Elements(third) : Precedes("recovering", x, y)
    BY <1>1, <1>2, <1>3, <1>6 DEF Precedes
  <2> QED
    BY <1>3, <1>6, <2>1, Joined
<1>8. \A x \in Elements(three) : x.op \in {"delete", "copy", "copied"}
  BY <1>1, <1>2, <1>3, <1>6, <1>7
<1> HIDE DEF three
<1> DEFINE all == three \o ends
<1>9. /\ all \in Seq(Step) /\ Sorted("recovering", all)
      /\ Elements(all) = Elements(three) \cup {RemoveIt, CleanIt}
  <2>1. \A x \in Elements(three), y \in Elements(ends) : Precedes("recovering", x, y)
    BY <1>5, <1>8, StepNames DEF Precedes
  <2> HIDE DEF ends
  <2> QED
    BY <1>5, <1>7, <2>1, Joined
<1>10. \A i \in DOMAIN all : all[i].op = "clean" => i = Len(all)
  <2>1. /\ Len(three) \in Nat /\ DOMAIN three = 1..Len(three)
        /\ DOMAIN all = 1..(Len(three) + 2) /\ Len(all) = Len(three) + 2
        /\ \A i \in 1..(Len(three) + 2) :
              all[i] = IF i <= Len(three) THEN three[i] ELSE ends[i - Len(three)]
    BY <1>5, <1>7
  <2>2. ends[1] = RemoveIt
    OBVIOUS
  <2> HIDE DEF all, ends
  <2> SUFFICES ASSUME NEW i \in DOMAIN all, all[i].op = "clean"
               PROVE  i = Len(all)
    OBVIOUS
  <2>3. i \notin DOMAIN three
    <3>1. i \in DOMAIN three => all[i] = three[i] /\ three[i] \in Elements(three)
      BY <2>1 DEF Elements
    <3> QED
      BY <1>8, <3>1
  <2>4. i # Len(three) + 1
    <3>1. i = Len(three) + 1 => all[i] = RemoveIt
      BY <2>1, <2>2
    <3> QED
      BY <3>1, StepNames
  <2> QED
    BY <2>1, <2>3, <2>4
<1>11. RecoverySteps = all
  BY <1>0 DEF all, three, two
<1> HIDE DEF all
<1> QED
  BY <1>4, <1>6, <1>7, <1>9, <1>10, <1>11

LEMMA RecoverOK == IInv /\ Recover => IInv'
<1> SUFFICES ASSUME IInv, Recover
             PROVE  IInv'
  OBVIOUS
<1>1. /\ ~open /\ Readable /\ Accepted
      /\ work' = [Idle EXCEPT !.phase = "recovering", !.todo = RecoverySteps]
      /\ UNCHANGED <<files, saved, journal, open, kernel, commits, forgets>>
  BY DEF Recover, past
<1>2. kernel /\ journal # None /\ journal # Torn
  BY <1>1 DEF IInv, JournalOK, Readable
<1>3. RecoverySteps \in Seq(Step) /\ Sorted("recovering", RecoverySteps)
  <2>1. CASE journal.completed
    <3>1. RecoverySteps = <<CleanIt, RemoveIt>>
      BY <2>1 DEF RecoverySteps, CleanIt, RemoveIt
    <3>2. Precedes("recovering", CleanIt, RemoveIt)
      BY StepNames DEF Precedes
    <3> QED
      BY <3>1, <3>2, Short, Ranks
  <2>2. CASE ~journal.completed
    BY <2>2, RecoveryFacts
  <2> QED
    BY <2>1, <2>2
<1>4. /\ work' \in WorkType /\ work'.phase = "recovering" /\ work'.todo = RecoverySteps
      /\ Todo' = Elements(RecoverySteps)
  BY <1>1, <1>3, IdleTyped DEF WorkType, Idle, Phase, Todo
<1>5. Typed' /\ Sorted(work.phase, work.todo)' /\ RestingOK'
  BY <1>1, <1>3, <1>4 DEF IInv, Typed, Sorted, RestingOK, Free
<1>6. JournalOK'
  BY <1>1, <1>2
  DEF IInv, JournalOK, GoodPair, LatestOf, Forgotten, Readable, Bundle, OriginalKept
<1>7. RecoveringOK'
  <2>1. CASE journal.completed
    <3>1. RecoverySteps = <<CleanIt, RemoveIt>>
      BY <2>1 DEF RecoverySteps, CleanIt, RemoveIt
    <3>2. Todo' = {CleanIt, RemoveIt}
      BY <1>4, <3>1, Short, Ranks
    <3>3. ~Unfinished'
      BY <1>1, <2>1 DEF Unfinished
    <3> QED
      BY <1>1, <1>2, <3>2, <3>3, StepNames DEF RecoveringOK
  <2>2. CASE ~journal.completed
    <3>1. /\ Todo' = (UNION {Elements(BringBack(f)) : f \in File}) \cup {RemoveIt, CleanIt}
          /\ \A i \in DOMAIN RecoverySteps :
                 RecoverySteps[i].op = "clean" => i = Len(RecoverySteps)
      BY <1>4, <2>2, RecoveryFacts
    <3>2. CleanIsLast' /\ RemoveIt \in Todo'
      BY <1>4, <3>1 DEF CleanIsLast
    <3>3. \A g \in File : \A x \in Elements(BringBack(g)) :
              x.file = g /\ x.op \in {"delete", "copy", "copied"}
      BY BringBackFacts
    <3>4. \A x \in Todo' : x.op \in {"delete", "copy", "copied", "remove", "clean"}
      BY <3>1, <3>3, StepNames
    <3>5. ASSUME NEW f \in File
          PROVE  Recovered(f)'
      <4>1. \A x \in Todo' : x.file = f /\ x.op \in {"delete", "copy", "copied"} =>
                x \in Elements(BringBack(f))
        BY <3>1, <3>3, StepNames
      <4>2. Elements(BringBack(f)) \subseteq Todo'
        BY <3>1
      <4>3. Elements(BringBack(f)) =
                IF journal.original[f] = None THEN {Do("delete", f)}
                ELSE IF saved[f] = journal.original[f]
                     THEN {Do("delete", f), Do("copy", f), Do("copied", f)}
                     ELSE {}
        BY BringBackFacts
      <4>4. CASE journal.original[f] = None
        <5>1. /\ Do("delete", f) \in Todo'
              /\ Do("copy", f) \notin Todo' /\ Do("copied", f) \notin Todo'
          BY <4>1, <4>2, <4>3, <4>4, StepNames
        <5> QED
          BY <1>1, <4>4, <5>1 DEF Recovered
      <4>5. CASE journal.original[f] # None /\ saved[f] = journal.original[f]
        <5>1. Do("copied", f) \in Todo'
          BY <4>2, <4>3, <4>5
        <5> QED
          BY <1>1, <4>5, <5>1 DEF Recovered
      <4>6. CASE journal.original[f] # None /\ saved[f] # journal.original[f]
        <5>1. \A x \in Todo' : x.op \in {"delete", "copy", "copied"} => x.file # f
          BY <4>1, <4>3, <4>6
        <5>2. journal.original[f] = files[f]
          BY <1>1, <2>2, <4>6 DEF Accepted, OriginalFound
        <5> QED
          BY <1>1, <5>1, <5>2 DEF Recovered
      <4> QED
        BY <4>4, <4>5, <4>6
    <3>6. Unfinished' /\ Unfinished
      BY <1>1, <2>2 DEF Unfinished, Readable
    <3> QED
      BY <1>1, <1>2, <3>2, <3>4, <3>5, <3>6 DEF RecoveringOK
  <2> QED
    BY <2>1, <2>2
<1> QED
  BY <1>4, <1>5, <1>6, <1>7 DEF IInv, PlanOK, RestoringOK, RestoredOK, UndoingOK

LEMMA StutterOK == IInv /\ UNCHANGED vars => IInv'
<1> SUFFICES ASSUME IInv, UNCHANGED vars
             PROVE  IInv'
  OBVIOUS
<1>1. UNCHANGED <<files, saved, journal, work, open, kernel, commits, forgets>>
  BY DEF vars, past
<1>2. Todo' = Todo /\ Readable' = Readable /\ Unfinished' = Unfinished
  BY <1>1 DEF Todo, Readable, Unfinished
<1>3. Typed' /\ Sorted(work.phase, work.todo)' /\ RestingOK'
  BY <1>1 DEF IInv, Typed, Sorted, RestingOK, Free
<1>4. JournalOK' /\ PlanOK'
  BY <1>1, <1>2
  DEF IInv, JournalOK, PlanOK, GoodPair, LatestOf, Forgotten, Bundle, OriginalKept, Free
<1>5. RestoringOK'
  BY <1>1, <1>2 DEF IInv, RestoringOK, ToRestore, Moved, Installed, Journalled, Bundle
<1>6. RestoredOK' /\ UndoingOK' /\ RecoveringOK'
  BY <1>1, <1>2
  DEF IInv, RestoredOK, UndoingOK, RecoveringOK, Undone, Returned, Recovered, CleanIsLast,
      Bundle
<1> QED
  BY <1>3, <1>4, <1>5, <1>6 DEF IInv

LEMMA NextStep == IInv /\ [Next]_vars => IInv'
BY OpenSessionOK, CommitOK, CloseSessionOK, SessionCrashOK, PreviewOK, BeginOK,
   CreateJournalOK, RecordJournalOK, MoveOK, InstallOK, VerifyOK, CompleteOK, CleanOK,
   RemoveJournalOK, DeleteOK, ReturnOK, CopyOK, CopiedOK, ReleaseOK, FailOK, CrashOK,
   RecoverOK, StutterOK
DEF Next, Session, FileStep

-----------------------------------------------------------------------------
(* The theorems.                                                           *)

(* The invariant holds of every restore, undoing and recovery, whatever    *)
(* interrupts them and however often.                                      *)
THEOREM Invariance == Spec => []IInv
<1>1. Init => IInv
  BY InitOK
<1>2. IInv /\ [Next]_vars => IInv'
  BY NextStep
<1> QED
  BY <1>1, <1>2, PTL DEF Spec

(* No file a restore replaces is lost before the restore is complete       *)
(* (restoreProjectState's order of journal, renames and installs).         *)
THEOREM KeepsTheOriginal == Spec => []OriginalKept
<1>1. IInv => OriginalKept
  BY DEF IInv, JournalOK
<1> QED
  BY <1>1, Invariance, PTL

(* An exception undone to the end leaves the files as they were.           *)
THEOREM UndoesExactly == Spec => []UndoneIsOriginal
<1>1. IInv => UndoneIsOriginal
  <2> SUFFICES ASSUME IInv, work.phase = "undoing", work.todo = <<>>
               PROVE  files = work.plan
    BY DEF UndoneIsOriginal
  <2>1. Todo = {}
    BY DEF Todo, Elements
  <2>2. \A f \in File : files[f] = work.plan[f]
    BY <2>1 DEF IInv, UndoingOK, Undone, Returned
  <2>3. files \in Contents /\ work.plan \in Contents
    BY DEF IInv, Typed, WorkType
  <2> QED
    BY <2>2, <2>3 DEF Contents
<1> QED
  BY <1>1, Invariance, PTL

(* A project without a journal has a database and the Brief of it.         *)
THEOREM KeepsWholePair == Spec => []WholePair
<1>1. IInv => WholePair
  BY DEF IInv, JournalOK, GoodPair, LatestOf, WholePair, Settled, Healthy, Latest
<1> QED
  BY <1>1, Invariance, PTL

(* What was forgotten stays forgotten across every restore and recovery.   *)
THEOREM StaysForgotten == Spec => []NeverResurrected
<1>1. IInv => NeverResurrected
  BY DEF IInv, JournalOK, GoodPair, LatestOf, NeverResurrected, Settled, Latest
<1> QED
  BY <1>1, Invariance, PTL

HistoryOK ==
    from \in Content \cup {None, Torn} /\ goal \in Content /\ faults \in 0..MaxFaults

(* Type correctness, of the history too.                                   *)
THEOREM TypeCorrect == Spec => []TypeOK
<1>1. Init => HistoryOK
  BY BoundAssumption DEF Init, HistoryOK, Content
<1>2. IInv /\ HistoryOK /\ [Next]_vars => HistoryOK'
  <2> SUFFICES ASSUME IInv, HistoryOK, [Next]_vars
               PROVE  HistoryOK'
    OBVIOUS
  <2>1. CASE Begin
    <3>1. Latest \in Content \cup {None, Torn} /\ Bundle.db \in Content
      BY BundleFacts DEF IInv, Typed, Latest, Contents, File
    <3> QED
      BY <2>1, <3>1 DEF Begin, HistoryOK
  <2>2. CASE SessionCrash \/ Fail \/ Crash
    BY <2>2, BoundAssumption DEF SessionCrash, Fail, Crash, HistoryOK
  <2>3. CASE Commit
    BY <2>3 DEF Commit, HistoryOK
  <2>4. CASE OpenSession \/ CloseSession \/ Preview \/ FileStep \/ Recover
    BY <2>4
    DEF OpenSession, CloseSession, Preview, FileStep, Recover, Release, CreateJournal,
        RecordJournal, Move, Install, Verify, Complete, Clean, RemoveJournal, Delete, Return,
        Copy, Copied, past, HistoryOK
  <2>5. CASE UNCHANGED vars
    BY <2>5 DEF vars, past, HistoryOK
  <2> QED
    BY <2>1, <2>2, <2>3, <2>4, <2>5 DEF Next, Session
<1>3. IInv /\ HistoryOK => TypeOK
  BY DEF IInv, Typed, WorkType, Phase, HistoryOK, TypeOK
<1> QED
  BY <1>1, <1>2, <1>3, Invariance, PTL DEF Spec

-----------------------------------------------------------------------------
(* Every interrupted restore can be recovered.                             *)

\* The file a file operation is about.
LEMMA TargetFacts ==
    ASSUME IInv, work.todo # <<>>, Op \in FileOp
    PROVE  /\ Target \in File /\ Head(work.todo) = Do(Op, Target)
           /\ Do(Op, Target) \in Todo
BY HeadFacts, StepKinds DEF Op, Target

\* While a restore moves and installs files, they come from the original or
\* from the bundle.
LEMMA RestoringAside ==
    ASSUME IInv, AsideOK, Move \/ Install \/ Verify
    PROVE  AsideOK'
<1>1. /\ work.todo # <<>> /\ Op \in {"move", "install", "verify"} /\ journal' = journal
  BY DEF Move, Install, Verify, Doing, Op
<1>2. work.phase = "restoring"
  BY <1>1, OpPhases
<1>3. 2 < Rank(Head(work.todo))
  BY <1>1, HeadFacts, StepKinds, Ranks DEF Op, Rank
<1>4. SUFFICES ASSUME Readable
               PROVE  AsideOK'
  BY <1>1 DEF AsideOK, Readable
<1>5. ~journal.completed /\ journal.original = work.plan
  BY <1>1, <1>2, <1>3, <1>4, Touching DEF Unfinished, IInv, JournalOK, Readable
<1>6. files \in Contents /\ saved \in Contents
  BY DEF IInv, Typed
<1>7. CASE Move
  <2>1. /\ Target \in File /\ Do("move", Target) \in Todo
    BY <1>7, <1>1, TargetFacts DEF Op, Move, Doing, FileOp
  <2>2. files[Target] = work.plan[Target]
    BY <1>2, <2>1 DEF IInv, RestoringOK, Moved
  <2>3. /\ saved' = [saved EXCEPT ![Target] = files[Target]]
        /\ files' = [files EXCEPT ![Target] = None]
    BY <1>7 DEF Move
  <2>4. \A g \in File :
          /\ files'[g] = IF g = Target THEN None ELSE files[g]
          /\ saved'[g] = IF g = Target THEN work.plan[Target] ELSE saved[g]
    BY <1>6, <2>1, <2>2, <2>3 DEF Contents
  <2> QED
    BY <1>1, <1>4, <1>5, <2>4 DEF AsideOK, Readable, Bundle
<1>8. CASE Install
  <2>1. /\ Target \in File
    BY <1>8, <1>1, TargetFacts DEF Op, Install, Doing, FileOp
  <2>2. files' = [files EXCEPT ![Target] = Bundle[Target]] /\ saved' = saved
    BY <1>8 DEF Install
  <2>3. \A g \in File : files'[g] = IF g = Target THEN Bundle[g] ELSE files[g]
    BY <1>6, <2>1, <2>2 DEF Contents
  <2> QED
    BY <1>1, <1>4, <1>5, <2>2, <2>3 DEF AsideOK, Readable, Bundle
<1>9. CASE Verify
  <2>1. files' = [files EXCEPT !.wal = None] /\ saved' = saved
    BY <1>9 DEF Verify
  <2>2. \A g \in File : files'[g] = IF g = "wal" THEN None ELSE files[g]
    BY <1>6, <2>1 DEF Contents, File
  <2> QED
    BY <1>1, <1>4, <1>5, <2>1, <2>2 DEF AsideOK, Readable, Bundle
<1> QED
  BY <1>7, <1>8, <1>9

\* The undoing and the recovery put nothing else there.
LEMMA BackAside ==
    ASSUME IInv, AsideOK, Delete \/ Return \/ Copy \/ Copied
    PROVE  AsideOK'
<1>1. /\ work.todo # <<>> /\ Op \in {"delete", "return", "copy", "copied"}
      /\ journal' = journal
  BY DEF Delete, Return, Copy, Copied, Doing, Op
<1>2. SUFFICES ASSUME Readable
               PROVE  AsideOK'
  BY <1>1 DEF AsideOK, Readable
<1>3. work.phase \in {"undoing", "recovering"}
  BY <1>1, OpPhases
<1>4. /\ Target \in File /\ Head(work.todo) = Do(Op, Target) /\ Do(Op, Target) \in Todo
  BY <1>1, TargetFacts DEF FileOp
<1>5. ~journal.completed
  <2>1. CASE work.phase = "undoing"
    BY <1>2, <2>1 DEF IInv, UndoingOK
  <2>2. CASE work.phase = "recovering"
    BY <1>1, <1>2, <1>4, <2>2, StepNames DEF IInv, RecoveringOK, Unfinished
  <2> QED
    BY <1>3, <2>1, <2>2
<1>6. files \in Contents /\ saved \in Contents
  BY DEF IInv, Typed
<1>7. CASE Delete
  <2>1. files' = [files EXCEPT ![Target] = None] /\ saved' = saved
    BY <1>7 DEF Delete
  <2>2. \A g \in File : files'[g] = IF g = Target THEN None ELSE files[g]
    BY <1>4, <1>6, <2>1 DEF Contents
  <2> QED
    BY <1>1, <1>2, <1>5, <2>1, <2>2 DEF AsideOK, Readable, Bundle
<1>8. CASE Return /\ saved[Target] = None
  BY <1>1, <1>8 DEF AsideOK, Readable, Bundle, Return
<1>9. CASE Return /\ saved[Target] # None
  <2>1. /\ files' = [files EXCEPT ![Target] = saved[Target]]
        /\ saved' = [saved EXCEPT ![Target] = None]
    BY <1>9 DEF Return
  <2>2. work.phase = "undoing" /\ Do("return", Target) \in Todo
    BY <1>1, <1>4, <1>9, OpPhases DEF Return, Doing, Op
  <2>3. saved[Target] = work.plan[Target]
    BY <1>4, <1>9, <2>2 DEF IInv, UndoingOK, Undone, Returned
  <2>4. journal.original = work.plan
    BY <1>2, <2>2 DEF IInv, PlanOK, JournalOK, Readable
  <2>5. \A g \in File :
          /\ files'[g] = IF g = Target THEN journal.original[g] ELSE files[g]
          /\ saved'[g] = IF g = Target THEN None ELSE saved[g]
    BY <1>4, <1>6, <2>1, <2>3, <2>4 DEF Contents
  <2> QED
    BY <1>1, <1>2, <1>5, <2>5 DEF AsideOK, Readable, Bundle
<1>10. CASE Copy
  <2>1. files' = [files EXCEPT ![Target] = Torn] /\ saved' = saved
    BY <1>10 DEF Copy
  <2>2. \A g \in File : files'[g] = IF g = Target THEN Torn ELSE files[g]
    BY <1>4, <1>6, <2>1 DEF Contents
  <2> QED
    BY <1>1, <1>2, <1>5, <2>1, <2>2 DEF AsideOK, Readable, Bundle
<1>11. CASE Copied
  <2>1. files' = [files EXCEPT ![Target] = saved[Target]] /\ saved' = saved
    BY <1>11 DEF Copied
  <2>2. work.phase = "recovering" /\ Do("copied", Target) \in Todo
    BY <1>1, <1>4, <1>11, OpPhases DEF Copied, Doing, Op
  <2>3. saved[Target] = journal.original[Target]
    BY <1>2, <1>4, <1>5, <2>2, StepNames DEF IInv, RecoveringOK, Recovered, Unfinished
  <2>4. \A g \in File : files'[g] = IF g = Target THEN journal.original[g] ELSE files[g]
    BY <1>4, <1>6, <2>1, <2>3 DEF Contents
  <2> QED
    BY <1>1, <1>2, <1>5, <2>1, <2>4 DEF AsideOK, Readable, Bundle
<1> QED
  BY <1>7, <1>8, <1>9, <1>10, <1>11

\* The saves of the journal, and the cleanup.
LEMMA JournalAside ==
    ASSUME IInv, AsideOK,
           CreateJournal \/ RecordJournal \/ Complete \/ Clean \/ RemoveJournal
    PROVE  AsideOK'
<1>1. CASE CreateJournal \/ RemoveJournal
  BY <1>1 DEF CreateJournal, RemoveJournal, AsideOK, Readable
<1>2. CASE RecordJournal
  <2>1. /\ work.todo # <<>> /\ Op = "record"
        /\ journal' = Recorded /\ UNCHANGED <<files, saved>>
    BY <1>2 DEF RecordJournal, Doing, Op
  <2>2. work.phase = "restoring" /\ kernel /\ RecordIt \in Todo
    BY <2>1, OpPhases, HeadFacts, StepKinds DEF Op
  <2>3. \A f \in File : saved[f] = None
    BY <2>2 DEF IInv, RestoringOK, Journalled, Moved
  <2>4. journal'.original = files /\ journal'.completed = FALSE
    BY <2>1 DEF Recorded
  <2> QED
    BY <2>1, <2>3, <2>4 DEF AsideOK
<1>3. CASE Complete
  <2>1. /\ work.todo # <<>> /\ Op = "complete"
        /\ journal' = [journal EXCEPT !.completed = TRUE] /\ UNCHANGED <<files, saved>>
    BY <1>3 DEF Complete, Doing, Op
  <2>2. work.phase = "restored" /\ kernel /\ CompleteIt \in Todo
    BY <2>1, OpPhases, HeadFacts, StepKinds DEF Op
  <2>3. Readable /\ saved = work.plan
    BY <2>2 DEF IInv, RestoredOK, Unfinished
  <2>4. journal.original = work.plan
    BY <2>2, <2>3 DEF IInv, PlanOK
  <2>5. journal \in Record
    BY <2>3 DEF IInv, Typed, Readable
  <2>6. journal'.original = journal.original /\ journal'.completed = TRUE
    BY <2>1, <2>5 DEF Record
  <2> QED
    BY <2>1, <2>3, <2>4, <2>6 DEF AsideOK
<1>4. CASE Clean
  <2>1. UNCHANGED <<files, journal>> /\ saved \in Contents
    BY <1>4 DEF Clean, IInv, Typed
  <2>2. \A g \in File : saved'[g] \in {None, saved[g]}
    BY <1>4, <2>1 DEF Clean, Contents
  <2> QED
    BY <2>1, <2>2 DEF AsideOK, Readable, Bundle
<1> QED
  BY <1>1, <1>2, <1>3, <1>4

LEMMA AsideStep == IInv /\ AsideOK /\ [Next]_vars => AsideOK'
<1> SUFFICES ASSUME IInv, AsideOK, [Next]_vars
             PROVE  AsideOK'
  OBVIOUS
<1>1. CASE UNCHANGED <<files, saved, journal>>
  BY <1>1 DEF AsideOK, Readable, Bundle
<1>2. CASE journal' = None
  BY <1>2 DEF AsideOK, Readable
<1>3. OpenSession \/ SessionCrash \/ Preview \/ Release \/ Fail \/ Crash \/ Recover
          \/ UNCHANGED vars => UNCHANGED <<files, saved, journal>>
  BY DEF OpenSession, SessionCrash, Preview, Release, Fail, Crash, Recover, vars
<1>4. Begin => journal' = None \/ UNCHANGED <<files, saved, journal>>
  BY DEF Begin, MayBegin
<1>5. Commit \/ CloseSession => journal' = None
  BY DEF Commit, CloseSession, IInv, JournalOK
<1> QED
  BY <1>1, <1>2, <1>3, <1>4, <1>5, RestoringAside, BackAside, JournalAside
  DEF Next, Session, FileStep

(* An interrupted restore whose journal can be read is never refused its   *)
(* recovery, unless a file copied back is torn                             *)
(* (recoverInterruptedProjectStateRestore).                                *)
THEOREM RecoverableFromAnywhere == Spec => []RecoverableElsewhere
<1>1. Init => AsideOK
  BY DEF Init, AsideOK, Readable
<1>2. IInv /\ AsideOK => RecoverableElsewhere
  <2>1. SUFFICES ASSUME IInv, AsideOK, Readable, ~TornCopy
                 PROVE  Accepted
    BY DEF RecoverableElsewhere
  <2>2. CASE journal.completed
    <3>1. files = Bundle
      BY <2>1, <2>2 DEF IInv, JournalOK
    <3> QED
      BY <2>1, <2>2, <3>1 DEF Accepted, AsideOK, Bundle
  <2>3. CASE ~journal.completed
    <3>1. OriginalKept
      BY <2>1 DEF IInv, JournalOK
    <3>2. ASSUME NEW f \in File
          PROVE  OriginalFound(f)
      <4>1. files[f] \in {None, journal.original[f], Bundle[f]}
        BY <2>1, <2>3, <3>2 DEF AsideOK, TornCopy
      <4>2. journal.original[f] = None => saved[f] = None
        BY <2>1, <2>3, <3>2 DEF AsideOK
      <4>3. journal.original[f] # None => journal.original[f] \in {saved[f], files[f]}
        BY <2>1, <2>3, <3>1, <3>2 DEF OriginalKept
      <4> QED
        BY <4>1, <4>2, <4>3 DEF OriginalFound
    <3> QED
      BY <2>3, <3>2 DEF Accepted
  <2> QED
    BY <2>2, <2>3
<1> QED
  BY <1>1, <1>2, AsideStep, Invariance, PTL DEF Spec

-----------------------------------------------------------------------------
(* Refinement: a journalled restore is a switch of a whole pair.           *)

LEMMA MadeFacts ==
    /\ ~(None \in Content) /\ ~(Torn \in Content)
    /\ Made(None) /\ Made(Torn)
BY DistinctAssumption DEF Made

LEMMA LastStep == IInv /\ LastOK /\ [Next]_vars => LastOK'
<1> SUFFICES ASSUME IInv, LastOK, [Next]_vars
             PROVE  LastOK'
  OBVIOUS
<1>1. /\ files \in Contents /\ saved \in Contents
      /\ commits \in Content /\ MaxCommits \in Nat /\ commits \in Nat
  BY BoundAssumption DEF IInv, Typed, Content
<1>2. Made(files.db) /\ Made(files.wal) /\ Made(Latest)
  BY DEF LastOK, File, Latest
<1>3. CASE UNCHANGED <<files, saved, commits>>
  BY <1>3 DEF LastOK, Made
<1>4. CASE Commit
  <2>1. /\ commits' = commits + 1 /\ UNCHANGED saved
        /\ files' = [files EXCEPT !.wal = commits', !.brief = commits']
    BY <1>4 DEF Commit
  <2>2. \A f \in File : files'[f] = IF f = "db" THEN files[f] ELSE commits'
    BY <1>1, <2>1 DEF Contents, File
  <2>3. ASSUME NEW c, Made(c) \/ c = commits'
        PROVE  c \in Content => c <= commits'
    BY <1>1, <2>1, <2>3 DEF Made, Content
  <2>4. \A f \in File : Made(saved[f]) /\ (Made(files'[f]) \/ files'[f] = commits')
    BY <2>2 DEF LastOK
  <2>5. \A f \in File :
          /\ files'[f] \in Content => files'[f] <= commits'
          /\ saved'[f] \in Content => saved'[f] <= commits'
    BY <2>1, <2>3, <2>4
  <2> QED
    BY <2>5 DEF LastOK, Made
<1>5. CASE CloseSession
  <2>1. /\ files' = [files EXCEPT !.db = Latest, !.wal = None] /\ UNCHANGED <<saved, commits>>
    BY <1>5 DEF CloseSession, past
  <2>2. \A f \in File :
          files'[f] = IF f = "db" THEN Latest ELSE IF f = "wal" THEN None ELSE files[f]
    BY <1>1, <2>1 DEF Contents, File
  <2> QED
    BY <1>2, <2>1, <2>2, MadeFacts DEF LastOK, Made
<1>6. CASE Begin
  <2>1. UNCHANGED <<files, commits>> /\ saved' \in {saved, NoFiles}
    BY <1>6 DEF Begin
  <2> QED
    BY <2>1, MadeFacts DEF LastOK, Made, NoFiles
<1>7. CASE Move \/ Install \/ Delete \/ Return \/ Copy \/ Copied
  <2>1. /\ work.todo # <<>> /\ Op \in FileOp
    BY <1>7 DEF Move, Install, Delete, Return, Copy, Copied, Doing, Op, FileOp
  <2>2. Target \in File
    BY <2>1, TargetFacts
  <2>3. Made(files[Target]) /\ Made(saved[Target]) /\ Made(Bundle[Target])
    <3>1. Made(Bundle[Target])
      BY <1>1, <2>2, MadeFacts, BundleFacts DEF Made, File
    <3> QED
      BY <2>2, <3>1 DEF LastOK
  <2>4. \A g \in File :
          /\ \/ files'[g] \in {files[g], None, Torn}
             \/ g = Target /\ files'[g] \in {Bundle[Target], saved[Target]}
          /\ \/ saved'[g] \in {saved[g], None}
             \/ g = Target /\ saved'[g] = files[Target]
    BY <1>1, <1>7, <2>2 DEF Move, Install, Delete, Return, Copy, Copied, Contents
  <2>5. commits' = commits
    BY <1>7 DEF Move, Install, Delete, Return, Copy, Copied, past
  <2>6. \A g \in File : Made(files'[g]) /\ Made(saved'[g])
    BY <2>3, <2>4, MadeFacts DEF LastOK
  <2> QED
    BY <2>5, <2>6 DEF LastOK, Made
<1>8. CASE Verify \/ Clean
  <2>1. \A g \in File : files'[g] \in {files[g], None} /\ saved'[g] \in {saved[g], None}
    BY <1>1, <1>8 DEF Verify, Clean, Contents, File
  <2>2. commits' = commits
    BY <1>8 DEF Verify, Clean, past
  <2>3. \A g \in File : Made(files'[g]) /\ Made(saved'[g])
    BY <2>1, MadeFacts DEF LastOK
  <2> QED
    BY <2>2, <2>3 DEF LastOK, Made
<1>9. OpenSession \/ SessionCrash \/ Preview \/ Release \/ Fail \/ Crash \/ Recover
          \/ CreateJournal \/ RecordJournal \/ Complete \/ RemoveJournal
          \/ UNCHANGED vars => UNCHANGED <<files, saved, commits>>
  BY DEF OpenSession, SessionCrash, Preview, Release, Fail, Crash, Recover, CreateJournal,
         RecordJournal, Complete, RemoveJournal, vars, past
<1> QED
  BY <1>3, <1>4, <1>5, <1>6, <1>7, <1>8, <1>9 DEF Next, Session, FileStep

\* As long as nothing is moved the files are the plan.
LEMMA StillPlan ==
    ASSUME IInv, work.phase = "restoring", kernel, RecordIt \in Todo
    PROVE  files = work.plan
<1>1. \A f \in File : files[f] = work.plan[f]
  BY DEF IInv, RestoringOK, Journalled, Moved
<1>2. files \in Contents /\ work.plan \in Contents
  BY DEF IInv, Typed, WorkType
<1> QED
  BY <1>1, <1>2 DEF Contents

LEMMA FromStep == IInv /\ FromOK /\ [Next]_vars => FromOK'
<1> SUFFICES ASSUME IInv, FromOK, [Next]_vars
             PROVE  FromOK'
  OBVIOUS
<1> DEFINE During(w) == w.phase \in {"restoring", "restored", "undoing"}
<1>1. work \in WorkType
  BY DEF IInv, Typed
<1>2. ASSUME UNCHANGED <<from, goal, kernel>>,
             journal' = journal \/ ~Readable',
             During(work') => During(work) /\ work'.plan = work.plan
      PROVE  FromOK'
  BY <1>2 DEF FromOK, LatestOf, Bundle, Readable
<1>3. CASE Begin
  <2>1. CASE MayBegin
    <3>1. /\ journal = None /\ journal' = None /\ from' = Latest /\ goal' = Bundle.db
          /\ work' = [Idle EXCEPT !.phase = "restoring", !.plan = files, !.todo = RestoreSteps]
      BY <1>3, <2>1 DEF Begin, MayBegin
    <3>2. work'.plan = files
      BY <3>1 DEF Idle
    <3> QED
      BY <3>1, <3>2 DEF FromOK, LatestOf, Latest, Readable, Bundle
  <2>2. CASE ~MayBegin
    <3>1. ~During(work') /\ UNCHANGED <<from, goal, kernel, journal>>
      BY <1>3, <2>2 DEF Begin, Idle
    <3> QED
      BY <1>2, <3>1
  <2> QED
    BY <2>1, <2>2
<1>4. CASE RecordJournal
  <2>1. /\ work.todo # <<>> /\ Op = "record" /\ Advance /\ journal' = Recorded
        /\ UNCHANGED <<files, from, goal, kernel>>
    BY <1>4 DEF RecordJournal, Doing, Op, past
  <2>2. work.phase = "restoring" /\ kernel /\ RecordIt \in Todo
    BY <2>1, OpPhases, HeadFacts, StepKinds DEF Op
  <2>3. work'.phase = "restoring" /\ work'.plan = work.plan /\ journal'.original = work.plan
    BY <2>1, <2>2, Advanced, StillPlan DEF Recorded
  <2> QED
    BY <2>1, <2>2, <2>3 DEF FromOK, LatestOf, Bundle
<1>5. CASE Complete
  <2>1. /\ work.todo # <<>> /\ Op = "complete" /\ Advance
        /\ journal' = [journal EXCEPT !.completed = TRUE]
        /\ UNCHANGED <<files, from, goal, kernel>>
    BY <1>5 DEF Complete, Doing, Op, past
  <2>2. work.phase = "restored" /\ CompleteIt \in Todo /\ kernel
    BY <2>1, OpPhases, HeadFacts, StepKinds DEF Op
  <2>3. Readable /\ journal \in Record
    BY <2>2 DEF IInv, Typed, RestoredOK, Unfinished, Readable
  <2>4. journal'.original = journal.original
    BY <2>1, <2>3 DEF Record
  <2>5. work'.phase = work.phase /\ work'.plan = work.plan
    BY <2>1, Advanced
  <2> QED
    BY <2>1, <2>2, <2>3, <2>4, <2>5 DEF FromOK, LatestOf, Bundle
<1>6. CASE CreateJournal \/ RemoveJournal
  <2>1. /\ work.todo # <<>> /\ Advance /\ ~Readable' /\ UNCHANGED <<from, goal, kernel>>
    BY <1>6 DEF CreateJournal, RemoveJournal, Doing, past, Readable
  <2>2. work'.phase = work.phase /\ work'.plan = work.plan
    BY <2>1, Advanced
  <2> QED
    BY <1>2, <2>1, <2>2
<1>7. CASE Move \/ Install \/ Verify
  <2>1. /\ work.todo # <<>> /\ Op \in {"move", "install", "verify"}
        /\ UNCHANGED <<from, goal, kernel, journal>>
    BY <1>7 DEF Move, Install, Verify, Doing, Op, past
  <2>2. work.phase = "restoring"
    BY <2>1, OpPhases
  <2>3. work'.plan = work.plan
    BY <1>1, <1>7 DEF Move, Install, Verify, WorkType
  <2> QED
    BY <1>2, <2>1, <2>2, <2>3
<1>8. CASE Clean \/ Delete \/ Return \/ Copy \/ Copied
  <2>1. /\ work.todo # <<>> /\ UNCHANGED <<from, goal, kernel, journal>>
        /\ work' = Idle \/ Advance \/ UNCHANGED work
    BY <1>8 DEF Clean, Delete, Return, Copy, Copied, Doing, past
  <2>2. During(work') => work'.phase = work.phase /\ work'.plan = work.plan
    BY <2>1, Advanced DEF Idle
  <2> QED
    BY <1>2, <2>1, <2>2
<1>9. CASE OpenSession \/ SessionCrash \/ Commit \/ CloseSession \/ UNCHANGED vars
  BY <1>2, <1>9 DEF OpenSession, SessionCrash, Commit, CloseSession, vars, past
<1>10. CASE Preview \/ Release \/ Crash \/ Recover
  <2>1. /\ UNCHANGED <<from, goal, kernel, journal>>
        /\ \/ work' = Idle
           \/ work' = [Idle EXCEPT !.phase = "planned", !.plan = files]
           \/ work' = [Idle EXCEPT !.phase = "recovering", !.todo = RecoverySteps]
    BY <1>10 DEF Preview, Release, Crash, Recover, past
  <2>2. Idle.phase = "idle" /\ Idle \in WorkType
    BY IdleTyped DEF Idle
  <2>3. work'.phase \in {"idle", "planned", "recovering"}
    BY <2>1, <2>2 DEF WorkType
  <2> QED
    BY <1>2, <2>1, <2>3
<1>11. CASE Fail
  <2>1. UNCHANGED <<from, goal, kernel, journal>>
    BY <1>11 DEF Fail
  <2>2. CASE work.phase = "restoring"
    <3>1. Undo(work.undo) \/ Undo(<<Target>> \o work.undo)
      BY <1>11, <2>2 DEF Fail
    <3>2. work'.plan = work.plan
      BY <1>1, <3>1 DEF WorkType, Undo
    <3> QED
      BY <1>2, <2>1, <2>2, <3>2
  <2>3. CASE work.phase # "restoring"
    <3>1. ~During(work')
      BY <1>11, <2>3 DEF Fail, Idle
    <3> QED
      BY <1>2, <2>1, <3>1
  <2> QED
    BY <2>2, <2>3
<1> QED
  BY <1>3, <1>4, <1>5, <1>6, <1>7, <1>8, <1>9, <1>10, <1>11 DEF Next, Session, FileStep

\* The abstract variables, as long as their parts stay.
LEMMA ShownStays ==
    ASSUME UNCHANGED kernel, kernel => (Settled' <=> Settled),
           kernel /\ Settled => Latest' = Latest,
           kernel /\ ~Settled => UNCHANGED <<from, goal>>,
           ~kernel => Settled /\ Settled'
    PROVE  UNCHANGED Switching!vars
BY DEF Switching!vars, Shown, Settled

\* A commit of a session is a commit of the pair.
LEMMA CommitMaps == IInv /\ LastOK /\ kernel /\ Commit => Switching!Commit
<1> SUFFICES ASSUME IInv, LastOK, kernel, Commit
             PROVE  Switching!Commit
  OBVIOUS
<1>1. /\ open /\ commits' = commits + 1 /\ commits < MaxCommits
      /\ files' = [files EXCEPT !.wal = commits', !.brief = commits']
      /\ UNCHANGED <<journal, kernel>>
  BY DEF Commit
<1>2. /\ files \in Contents /\ commits \in Content /\ commits \in Nat /\ MaxCommits \in Nat
  BY BoundAssumption DEF IInv, Typed, Content
<1>3. journal = None /\ GoodPair(files)
  BY <1>1 DEF IInv, JournalOK
<1>4. Latest \in Content /\ Latest <= commits
  <2>1. files.db \in Content /\ files.wal \in Content \cup {None}
    BY <1>3 DEF GoodPair
  <2>2. Made(files.db) /\ Made(files.wal)
    BY DEF LastOK, File
  <2> QED
    BY <2>1, <2>2 DEF Latest, Made
<1>5. commits' \in Content /\ commits' > Latest
  BY <1>1, <1>2, <1>4 DEF Content
<1>6. Latest' = commits'
  <2>1. files'.wal = commits'
    BY <1>1, <1>2 DEF Contents, File
  <2> QED
    BY <1>5, <2>1, MadeFacts DEF Latest
<1>7. Settled /\ Settled'
  BY <1>1, <1>3 DEF Settled
<1>8. Shown(from) = Latest /\ Shown(from)' = commits' /\ Shown(goal)' = commits'
  BY <1>1, <1>6, <1>7 DEF Shown
<1> QED
  BY <1>5, <1>7, <1>8 DEF Switching!Commit

\* Creating the journal closes the project: the switch begins ...
LEMMA CreateMaps ==
    IInv /\ FromOK /\ CreateJournal => \E q \in Content : Switching!Begin(q)
<1> SUFFICES ASSUME IInv, FromOK, CreateJournal
             PROVE  \E q \in Content : Switching!Begin(q)
  OBVIOUS
<1>1. /\ work.todo # <<>> /\ Op = "create" /\ journal' = Torn
      /\ UNCHANGED <<files, kernel, from, goal>>
  BY DEF CreateJournal, Doing, Op, past
<1>2. work.phase = "restoring" /\ kernel /\ Create \in Todo
  BY <1>1, OpPhases, HeadFacts, StepKinds DEF Op
<1>3. journal = None /\ RecordIt \in Todo
  BY <1>2 DEF IInv, RestoringOK, Journalled
<1>4. files = work.plan
  BY <1>2, <1>3, StillPlan
<1>5. from = Latest /\ goal = 0
  BY <1>2, <1>4 DEF FromOK, LatestOf, Latest, Bundle
<1>6. Settled /\ ~Settled'
  BY <1>1, <1>3, DistinctAssumption DEF Settled
<1>7. /\ Shown(from) = Latest /\ Shown(from)' = from' /\ Shown(goal)' = goal'
  BY <1>1, <1>2, <1>6 DEF Shown
<1>8. goal' \in Content
  BY <1>1, <1>5, BoundAssumption DEF Content
<1>9. Switching!Begin(goal')
  BY <1>1, <1>5, <1>6, <1>7 DEF Switching!Begin
<1> QED
  BY <1>8, <1>9

\* ... and removing it opens the project again, with one of the two pairs.
LEMMA RemoveMaps == IInv /\ FromOK /\ RemoveJournal => Switching!End
<1> SUFFICES ASSUME IInv, FromOK, RemoveJournal
             PROVE  Switching!End
  OBVIOUS
<1>1. /\ kernel /\ journal # None
      /\ \/ files = Bundle
         \/ work.phase = "undoing" /\ files = work.plan
         \/ Readable /\ files = journal.original
  BY RemovedFacts
<1>2. journal' = None /\ UNCHANGED <<files, kernel, from, goal>>
  BY DEF RemoveJournal, past
<1>3. Latest = LatestOf(files)
  BY DEF Latest, LatestOf
<1>4. LatestOf(Bundle) = Bundle.db
  BY DEF Bundle, LatestOf
<1>5. Latest \in {from, goal}
  BY <1>1, <1>3, <1>4 DEF FromOK
<1>6. ~Settled /\ Settled'
  BY <1>1, <1>2 DEF Settled
<1>7. Latest' = Latest
  BY <1>2 DEF Latest
<1>8. /\ Shown(from) = from /\ Shown(goal) = goal
      /\ Shown(from)' = Latest /\ Shown(goal)' = Latest
  BY <1>1, <1>2, <1>6, <1>7 DEF Shown
<1> QED
  BY <1>5, <1>6, <1>8 DEF Switching!End

\* What is begun was settled, and only the journal's first step closes it.
LEMMA QuietMaps ==
    ASSUME IInv, kernel,
           \/ OpenSession \/ SessionCrash \/ CloseSession \/ Preview \/ Begin
           \/ Release \/ Clean \/ Fail \/ Crash \/ Recover
    PROVE  UNCHANGED Switching!vars
<1>1. UNCHANGED <<journal, kernel>>
  BY DEF OpenSession, SessionCrash, CloseSession, Preview, Begin, Release, Clean, Fail,
         Crash, Recover, past
<1>2. Latest' = Latest
  <2>1. CASE CloseSession
    <3>1. files' = [files EXCEPT !.db = Latest, !.wal = None] /\ files \in Contents
      BY <2>1 DEF CloseSession, IInv, Typed
    <3>2. files'.db = Latest /\ files'.wal = None
      BY <3>1 DEF Contents, File
    <3> QED
      BY <3>2 DEF Latest
  <2>2. CASE ~CloseSession
    <3>1. UNCHANGED files
      BY <2>2 DEF OpenSession, SessionCrash, Preview, Begin, Release, Clean, Fail, Crash,
                  Recover
    <3> QED
      BY <3>1 DEF Latest
  <2> QED
    BY <2>1, <2>2
<1>3. ~Settled => UNCHANGED <<from, goal>>
  <2>1. CASE Begin
    BY <2>1 DEF Begin, MayBegin, Settled
  <2>2. CASE ~Begin
    BY <2>2 DEF OpenSession, SessionCrash, CloseSession, Preview, Release, Clean, Fail,
                Crash, Recover, past
  <2> QED
    BY <2>1, <2>2
<1> QED
  BY <1>1, <1>2, <1>3, ShownStays DEF Settled

\* While a file is replaced, and while the journal is written, it is closed.
LEMMA ClosedMaps ==
    ASSUME IInv, kernel,
           \/ RecordJournal \/ Move \/ Install \/ Verify \/ Complete
           \/ Delete \/ Return \/ Copy \/ Copied
    PROVE  UNCHANGED Switching!vars
<1>1. /\ work.todo # <<>>
      /\ Op \in {"record", "move", "install", "verify", "complete",
                 "delete", "return", "copy", "copied"}
      /\ UNCHANGED <<kernel, from, goal>>
  BY DEF RecordJournal, Move, Install, Verify, Complete, Delete, Return, Copy, Copied, Doing,
         Op, past
<1>2. Head(work.todo) \in Todo /\ Head(work.todo) \in Step
  BY <1>1, HeadFacts
<1>3. journal # None
  <2>1. CASE work.phase = "restoring"
    <3>1. Op \in {"record", "move", "install", "verify"}
      BY <1>1, <2>1, OpPhases
    <3>2. 1 < Rank(Head(work.todo))
      BY <1>2, <3>1, StepKinds DEF Rank, Op, FileOp, File
    <3>3. Create \in Step /\ Rank(Create) = 1
      BY StepNames DEF Rank, Step
    <3>4. Create \notin Todo
      BY <1>1, <2>1, <3>2, <3>3, Earlier
    <3> QED
      BY <2>1, <3>4 DEF IInv, RestoringOK, Journalled
  <2>2. CASE work.phase = "restored"
    <3>1. Op = "complete"
      BY <1>1, <2>2, OpPhases
    <3>2. CompleteIt \in Todo
      BY <1>2, <3>1, StepKinds DEF Op
    <3> QED
      BY <2>2, <3>2 DEF IInv, RestoredOK, Unfinished, Readable
  <2>3. CASE work.phase = "undoing"
    BY <1>1, <2>3 DEF IInv, UndoingOK
  <2>4. CASE work.phase = "recovering"
    <3>1. Op # "clean"
      BY <1>1
    <3> QED
      BY <1>2, <2>4, <3>1 DEF IInv, RecoveringOK, Op
  <2> QED
    BY <1>1, <2>1, <2>2, <2>3, <2>4, HeadFacts
<1>4. journal' # None
  <2>1. CASE RecordJournal
    <3>1. journal' = Recorded /\ files \in Contents
      BY <2>1 DEF RecordJournal, IInv, Typed
    <3>2. Recorded \in Record
      BY <3>1 DEF Recorded, Record
    <3> QED
      BY <3>1, <3>2, DistinctAssumption
  <2>2. CASE Complete
    <3>1. journal' = [journal EXCEPT !.completed = TRUE] /\ Op = "complete"
      BY <2>2 DEF Complete, Doing, Op
    <3>2. work.phase = "restored" /\ CompleteIt \in Todo
      BY <1>1, <1>2, <3>1, OpPhases, StepKinds DEF Op
    <3>3. journal \in Record
      BY <3>2 DEF IInv, Typed, RestoredOK, Unfinished, Readable
    <3>4. journal' \in Record
      BY <3>1, <3>3 DEF Record
    <3> QED
      BY <3>4, DistinctAssumption
  <2>3. CASE ~RecordJournal /\ ~Complete
    BY <1>3, <2>3 DEF Move, Install, Verify, Delete, Return, Copy, Copied
  <2> QED
    BY <2>1, <2>2, <2>3
<1> QED
  BY <1>1, <1>3, <1>4, ShownStays DEF Settled

\* A project of an earlier schema has no journal, and no switch.
LEMMA UnjournalledMaps ==
    ASSUME IInv, ~kernel, [Next]_vars
    PROVE  UNCHANGED Switching!vars
<1>1. UNCHANGED kernel
  BY DEF Next, Session, FileStep, OpenSession, SessionCrash, Commit, CloseSession, Preview,
         Begin, Release, CreateJournal, RecordJournal, Move, Install, Verify, Complete,
         Clean, RemoveJournal, Delete, Return, Copy, Copied, Fail, Crash, Recover, past, vars
<1>2. Settled /\ Settled'
  BY <1>1, NextStep DEF IInv, JournalOK, Settled
<1> QED
  BY <1>1, <1>2, ShownStays

LEMMA StepMaps ==
    IInv /\ LastOK /\ FromOK /\ [Next]_vars => [Switching!Next]_(Switching!vars)
<1> SUFFICES ASSUME IInv, LastOK, FromOK, [Next]_vars
             PROVE  Switching!Next \/ UNCHANGED Switching!vars
  OBVIOUS
<1>1. CASE ~kernel
  BY <1>1, UnjournalledMaps
<1>2. CASE kernel /\ UNCHANGED vars
  BY <1>2 DEF vars, past, Switching!vars, Shown, Settled, Latest
<1>3. CASE kernel /\ Next
  <2>1. CASE Commit
    BY <1>3, <2>1, CommitMaps DEF Switching!Next
  <2>2. CASE CreateJournal
    BY <2>2, CreateMaps DEF Switching!Next
  <2>3. CASE RemoveJournal
    BY <2>3, RemoveMaps DEF Switching!Next
  <2>4. CASE \/ OpenSession \/ SessionCrash \/ CloseSession \/ Preview \/ Begin
             \/ Release \/ Clean \/ Fail \/ Crash \/ Recover
    BY <1>3, <2>4, QuietMaps
  <2>5. CASE \/ RecordJournal \/ Move \/ Install \/ Verify \/ Complete
             \/ Delete \/ Return \/ Copy \/ Copied
    BY <1>3, <2>5, ClosedMaps
  <2> QED
    BY <1>3, <2>1, <2>2, <2>3, <2>4, <2>5 DEF Next, Session, FileStep
<1> QED
  BY <1>1, <1>2, <1>3

\* A journalled restore, its undoing and its recovery implement the switch of a
\* whole pair: a project that is settled again has the pair it had, or the
\* bundle's.
THEOREM IsPairSwitch == Spec => PairSwitchSpec
<1>1. Init => LastOK /\ FromOK
  <2>1. SUFFICES ASSUME Init
                 PROVE  LastOK /\ FromOK
    OBVIOUS
  <2>2. /\ files = Bundle /\ saved = NoFiles /\ commits = 0 /\ work.phase = "idle"
        /\ journal = None /\ goal = 0
    BY <2>1 DEF Init, Idle
  <2>3. LastOK
    BY <2>2, MadeFacts DEF LastOK, Made, Bundle, NoFiles, File
  <2>4. FromOK
    BY <2>2 DEF FromOK, Bundle, Readable
  <2> QED
    BY <2>3, <2>4
<1>2. Init => Switching!Init
  <2>1. SUFFICES ASSUME Init
                 PROVE  Switching!Init
    OBVIOUS
  <2>2. Settled /\ files = Bundle /\ kernel \in BOOLEAN
    BY <2>1 DEF Init, Settled
  <2>3. Latest = 0
    BY <2>2 DEF Latest, Bundle
  <2>4. Shown(from) = 0 /\ Shown(goal) = 0 /\ 0 \in Content
    BY <2>2, <2>3, BoundAssumption DEF Shown, Content
  <2> QED
    BY <2>2, <2>4 DEF Switching!Init, Settled
<1>3. IInv /\ LastOK /\ FromOK /\ [Next]_vars => [Switching!Next]_(Switching!vars)
  BY StepMaps
<1> QED
  BY <1>1, <1>2, <1>3, LastStep, FromStep, Invariance, PTL
  DEF Spec, PairSwitchSpec, Switching!Spec

-----------------------------------------------------------------------------
(* Every call ends, and settles what it began: what liveness rests on.     *)

\* A recovery has still to remove the journal it found.
EndsOK == work.phase = "recovering" /\ journal # None => RemoveIt \in Todo

(* A call that ran to its end, whether it completed, undid its work or     *)
(* recovered another's, leaves no journal: the project opens.              *)
CallsSettle == ~Free /\ work.todo = <<>> => Settled

\* What a call has left to do: its steps, the files it moved aside, and to end.
IsAside(f) == IF saved[f] = None THEN 0 ELSE 1
Aside == IsAside("db") + IsAside("wal") + IsAside("brief")
Busy == IF Free THEN 0 ELSE 1
Effort == 2 * Len(work.todo) + Aside + Busy

(* No step of a call is done twice or brings another: each leaves less to  *)
(* do, and an undoing or a recovery is no exception.                       *)
CallsAdvance == [][FileStep => Effort' < Effort]_vars

LEMMA EndsStep == IInv /\ EndsOK /\ [Next]_vars => EndsOK'
<1> SUFFICES ASSUME IInv, EndsOK, [Next]_vars, work'.phase = "recovering", journal' # None
             PROVE  RemoveIt \in Todo'
  BY DEF EndsOK
<1>1. CASE UNCHANGED <<work, journal>>
  BY <1>1 DEF EndsOK, Todo
<1>2. OpenSession \/ Commit \/ CloseSession \/ SessionCrash \/ UNCHANGED vars =>
          UNCHANGED <<work, journal>>
  BY DEF OpenSession, Commit, CloseSession, SessionCrash, vars
<1>3. work'.phase \notin {"idle", "planned", "restoring", "restored", "undoing"}
  OBVIOUS
<1>4. work' # Idle
  BY <1>3 DEF Idle
<1>5. ~Preview /\ ~Begin /\ ~Release /\ ~Crash
  BY <1>3, <1>4 DEF Preview, Begin, Release, Crash, Idle
<1>6. ~Fail
  <2>1. work.phase = "restoring" /\ Fail => work'.phase = "undoing"
    BY DEF Fail, Undo, IInv, Typed, WorkType
  <2>2. work.phase # "restoring" /\ Fail => work' = Idle
    BY DEF Fail
  <2> QED
    BY <1>3, <1>4, <2>1, <2>2
<1>7. ASSUME Recover
      PROVE  RemoveIt \in Todo'
  <2>1. Todo' = Elements(RecoverySteps)
    BY <1>7 DEF Recover, Todo, Idle
  <2>2. CASE journal.completed
    <3>1. RecoverySteps = <<CleanIt, RemoveIt>>
      BY <2>2 DEF RecoverySteps, CleanIt, RemoveIt
    <3> QED
      BY <2>1, <3>1, Short, Ranks
  <2>3. CASE ~journal.completed
    BY <2>1, <2>3, RecoveryFacts
  <2> QED
    BY <2>2, <2>3
<1>8. ASSUME FileStep, ~Release
      PROVE  RemoveIt \in Todo'
  <2>1. work.todo # <<>>
    BY <1>8 DEF FileStep, CreateJournal, RecordJournal, Move, Install, Verify, Complete, Clean,
                RemoveJournal, Delete, Return, Copy, Copied, Doing
  <2>2. ~RemoveJournal
    BY DEF RemoveJournal
  <2>3. CASE Delete \/ Copy \/ Copied
    <3>1. Advance /\ UNCHANGED journal /\ Op \in {"delete", "copy", "copied"}
      BY <2>3 DEF Delete, Copy, Copied, Doing, Op
    <3>2. work'.phase = work.phase /\ Todo' = Elements(Rest)
      BY <2>1, <3>1, Advanced
    <3>3. RemoveIt \in Todo /\ RemoveIt # Head(work.todo)
      BY <3>1, <3>2, StepNames DEF EndsOK, Op
    <3> QED
      BY <2>1, <3>2, <3>3, HeadFacts
  <2>4. CASE Clean
    <3>1. CASE UNCHANGED <<work, journal>>
      BY <1>1, <3>1
    <3>2. CASE Advance /\ UNCHANGED journal
      <4>1. work'.phase = work.phase /\ Todo' = Elements(Rest)
        BY <2>1, <3>2, Advanced
      <4>2. RemoveIt \in Todo /\ RemoveIt # Head(work.todo)
        BY <2>4, <3>2, <4>1, StepNames DEF EndsOK, Clean, Doing
      <4> QED
        BY <2>1, <4>1, <4>2, HeadFacts
    <3> QED
      BY <2>4, <3>1, <3>2 DEF Clean
  <2>5. CASE Return
    <3>1. work' = Idle \/ Advance
      BY <2>5 DEF Return
    <3>2. work.phase = "undoing"
      BY <2>1, <2>5, OpPhases DEF Return, Doing, Op
    <3> QED
      BY <1>3, <1>4, <2>1, <3>1, <3>2, Advanced
  <2>6. CASE Complete
    <3>1. work.phase = "restored" /\ Advance
      BY <2>1, <2>6, OpPhases DEF Complete, Doing, Op
    <3> QED
      BY <1>3, <2>1, <3>1, Advanced
  <2>7. CASE CreateJournal \/ RecordJournal \/ Move \/ Install \/ Verify
    <3>1. work.phase = "restoring"
      BY <2>1, <2>7, OpPhases
      DEF CreateJournal, RecordJournal, Move, Install, Verify, Doing, Op
    <3>2. work \in WorkType
      BY DEF IInv, Typed
    <3>3. work'.phase \in {"restoring", "restored"}
      BY <2>7, <3>1, <3>2
      DEF CreateJournal, RecordJournal, Move, Install, Verify, Advance, WorkType
    <3> QED
      BY <1>3, <3>3
  <2> QED
    BY <1>8, <2>2, <2>3, <2>4, <2>5, <2>6, <2>7 DEF FileStep
<1> QED
  BY <1>1, <1>2, <1>5, <1>6, <1>7, <1>8 DEF Next, Session

(* Restores, undoings and recoveries that are not interrupted leave a      *)
(* project without a journal (RestoreEnds is what fairness makes of it).   *)
THEOREM EndedCallsSettle == Spec => []CallsSettle
<1>1. Init => EndsOK
  BY DEF Init, EndsOK
<1>2. IInv /\ EndsOK => CallsSettle
  <2> SUFFICES ASSUME IInv, EndsOK, ~Free, work.todo = <<>>
               PROVE  journal = None
    BY DEF CallsSettle, Settled
  <2>1. Todo = {}
    BY DEF Todo, Elements
  <2>2. work.phase \in {"restoring", "restored", "undoing", "recovering"}
    BY DEF IInv, Typed, WorkType, Phase, Free
  <2>3. work.phase # "restoring"
    BY <2>1 DEF IInv, RestoringOK, ToRestore
  <2>4. work.phase = "restored" => journal = None
    BY <2>1 DEF IInv, RestoredOK, JournalOK
  <2>5. work.phase = "undoing" => journal = None
    BY <2>1 DEF IInv, UndoingOK
  <2>6. work.phase = "recovering" => journal = None
    BY <2>1 DEF EndsOK
  <2> QED
    BY <2>2, <2>3, <2>4, <2>5, <2>6
<1> QED
  BY <1>1, <1>2, EndsStep, Invariance, PTL DEF Spec

LEMMA EffortFacts ==
    ASSUME IInv
    PROVE  /\ Len(work.todo) \in Nat
           /\ \A f \in File : IsAside(f) \in {0, 1}
           /\ Aside \in Nat /\ Busy \in {0, 1} /\ Effort \in Nat
<1>1. Len(work.todo) \in Nat
  BY DEF IInv, Typed, WorkType
<1>2. /\ \A f \in File : IsAside(f) \in {0, 1}
      /\ IsAside("db") \in Nat /\ IsAside("wal") \in Nat /\ IsAside("brief") \in Nat
  BY DEF IsAside
<1>3. Busy \in {0, 1}
  BY DEF Busy
<1> QED
  BY <1>1, <1>2, <1>3 DEF Aside, Effort

\* A step that ends the list or takes the first of it puts at most one file aside.
LEMMA LessToDo ==
    ASSUME IInv, IInv', work.todo # <<>>, work'.todo \in {Rest, <<>>}, Aside' <= Aside + 1
    PROVE  Effort' < Effort
<1>1. Len(work'.todo) \in Nat /\ Len(work'.todo) < Len(work.todo)
  <2>1. work.todo \in Seq(Step)
    BY DEF IInv, Typed, WorkType
  <2> QED
    BY <2>1 DEF Rest
<1>2. Busy = 1 /\ Busy' \in {0, 1}
  BY HeadFacts DEF Busy
<1>3. Aside' \in Nat /\ Aside \in Nat /\ Len(work.todo) \in Nat
  <2>1. IsAside("db")' \in Nat /\ IsAside("wal")' \in Nat /\ IsAside("brief")' \in Nat
    BY DEF IsAside
  <2> QED
    BY <2>1, EffortFacts DEF Aside
<1> QED
  BY <1>1, <1>2, <1>3 DEF Effort

LEMMA SameAside == ASSUME IInv, UNCHANGED saved PROVE Aside' = Aside /\ Aside' <= Aside + 1
<1>1. Aside' = Aside
  BY DEF Aside, IsAside
<1> QED
  BY <1>1, EffortFacts

\* One file more or one less aside.
LEMMA AsideChanges ==
    ASSUME IInv, NEW f \in File, NEW c, saved' = [saved EXCEPT ![f] = c]
    PROVE  Aside' <= Aside + 1 /\ (saved[f] # None /\ c = None => Aside' < Aside)
<1>1. saved \in [File -> Content \cup {None, Torn}]
  BY DEF IInv, Typed, Contents
<1>2. \A g \in File \ {f} : saved'[g] = saved[g]
  BY <1>1
<1>3. saved'[f] = c
  BY <1>1
<1>4. \A g \in File \ {f} : IsAside(g)' = IsAside(g)
  BY <1>2 DEF IsAside
<1>5. /\ IsAside(f)' \in {0, 1}
      /\ c = None => IsAside(f)' = 0
      /\ saved[f] # None => IsAside(f) = 1
  BY <1>3 DEF IsAside
<1>6. IsAside("db") \in {0, 1} /\ IsAside("wal") \in {0, 1} /\ IsAside("brief") \in {0, 1}
  BY DEF IsAside
<1>7. CASE f = "db"
  BY <1>4, <1>5, <1>6, <1>7 DEF Aside, File
<1>8. CASE f = "wal"
  BY <1>4, <1>5, <1>6, <1>8 DEF Aside, File
<1>9. CASE f = "brief"
  BY <1>4, <1>5, <1>6, <1>9 DEF Aside, File
<1> QED
  BY <1>7, <1>8, <1>9 DEF File

LEMMA StepAdvances == IInv /\ FileStep => Effort' < Effort
<1> SUFFICES ASSUME IInv, FileStep
             PROVE  Effort' < Effort
  OBVIOUS
<1>1. IInv'
  BY NextStep DEF Next
<1>2. work \in WorkType
  BY DEF IInv, Typed
<1>3. CASE Release
  <2>1. work' = Idle /\ UNCHANGED saved /\ ~Free /\ work.todo = <<>>
    BY <1>3 DEF Release
  <2>2. Busy = 1 /\ Busy' = 0 /\ work'.todo = work.todo
    BY <2>1 DEF Busy, Free, Idle
  <2> QED
    BY <2>1, <2>2, SameAside, EffortFacts DEF Effort
<1>4. CASE CreateJournal \/ RecordJournal \/ Install \/ Verify \/ Complete \/ RemoveJournal
              \/ Delete \/ Copy \/ Copied
  <2>1. work.todo # <<>> /\ UNCHANGED saved
    BY <1>4 DEF CreateJournal, RecordJournal, Install, Verify, Complete, RemoveJournal,
                Delete, Copy, Copied, Doing
  <2>2. work'.todo = Rest
    BY <1>2, <1>4 DEF CreateJournal, RecordJournal, Install, Verify, Complete, RemoveJournal,
                      Delete, Copy, Copied, Advance, WorkType
  <2> QED
    BY <1>1, <2>1, <2>2, SameAside, LessToDo
<1>5. CASE Move
  <2>1. /\ work.todo # <<>> /\ work'.todo = Rest
        /\ saved' = [saved EXCEPT ![Target] = files[Target]]
    BY <1>2, <1>5 DEF Move, Doing, WorkType
  <2>2. Target \in File
    BY <1>5, <2>1, HeadFacts, StepKinds DEF Move, Doing, Target, FileOp
  <2> QED
    BY <1>1, <2>1, <2>2, AsideChanges, LessToDo
<1>6. CASE Clean
  <2>1. work.todo # <<>>
    BY <1>6 DEF Clean, Doing
  <2>2. CASE Advance /\ UNCHANGED saved
    <3>1. work'.todo = Rest
      BY <1>2, <2>2 DEF Advance, WorkType
    <3> QED
      BY <1>1, <2>1, <2>2, <3>1, SameAside, LessToDo
  <2>3. ASSUME NEW f \in File, saved[f] # None, saved' = [saved EXCEPT ![f] = None],
               UNCHANGED work
        PROVE  Effort' < Effort
    <3>1. Aside' < Aside
      BY <2>3, AsideChanges
    <3>2. Busy' = Busy /\ work'.todo = work.todo
      BY <2>3 DEF Busy, Free
    <3>3. Aside' \in Nat
      BY DEF Aside, IsAside
    <3> QED
      BY <3>1, <3>2, <3>3, EffortFacts DEF Effort
  <2> QED
    BY <1>6, <2>2, <2>3 DEF Clean
<1>7. CASE Return
  <2>1. work.todo # <<>>
    BY <1>7 DEF Return, Doing
  <2>2. CASE work' = Idle /\ UNCHANGED saved
    <3>1. work'.todo = <<>>
      BY <2>2 DEF Idle
    <3> QED
      BY <1>1, <2>1, <2>2, <3>1, SameAside, LessToDo
  <2>3. CASE Advance /\ saved' = [saved EXCEPT ![Target] = None]
    <3>1. work'.todo = Rest
      BY <1>2, <2>3 DEF Advance, WorkType
    <3>2. Target \in File
      BY <1>7, <2>1, HeadFacts, StepKinds DEF Return, Doing, Target, FileOp
    <3> QED
      BY <1>1, <2>1, <2>3, <3>1, <3>2, AsideChanges, LessToDo
  <2> QED
    BY <1>7, <2>2, <2>3 DEF Return
<1> QED
  BY <1>3, <1>4, <1>5, <1>6, <1>7 DEF FileStep

(* A call that nothing interrupts ends: `Effort' is a number, and every    *)
(* step of the call lowers it (the file operations of restoreProjectState  *)
(* and recoverInterruptedProjectStateRestore).                             *)
THEOREM EveryStepAdvances == Spec => [](Effort \in Nat) /\ CallsAdvance
<1>1. IInv => Effort \in Nat
  BY EffortFacts
<1>2. IInv /\ [Next]_vars => [FileStep => Effort' < Effort]_vars
  BY StepAdvances
<1> QED
  BY <1>1, <1>2, Invariance, PTL DEF Spec, CallsAdvance

-----------------------------------------------------------------------------
(* Beside the migration, as MCSwitches composes them.  What KernelMigration*)
(* Proofs proves is of an instance of its own, which says the same.        *)

Proved == INSTANCE KernelMigrationProofs WITH
    journal <- mJournal, work <- mWork, commits <- mCommits, from <- mFrom,
    goal <- mGoal, faults <- mFaults

LEMMA SameConstants == Proved!ConstantsOK
BY MigrationAssumption
  DEF Migration!ConstantsOK, Proved!ConstantsOK, Migration!Kind, Proved!Kind,
      Migration!Content, Proved!Content, Migration!Pair, Proved!Pair, Migration!Source,
      Proved!Source, Migration!Journal, Proved!Journal, Migration!Progress,
      Proved!Progress

LEMMA SameStates ==
    /\ Migration!Init => Proved!Init
    /\ Proved!TypeOK => Migration!TypeOK
    /\ Proved!WholePair => Migration!WholePair
    /\ Proved!CommitsSurvive => Migration!CommitsSurvive
    /\ Proved!RecoverableElsewhere => Migration!RecoverableElsewhere
<1>1. Migration!Init => Proved!Init
  BY DEF Migration!Init, Proved!Init, Migration!Idle, Proved!Idle, Migration!Latest,
      Proved!Latest
<1>2. Proved!TypeOK => Migration!TypeOK
  BY DEF Migration!TypeOK, Proved!TypeOK, Migration!Kind, Proved!Kind, Migration!Content,
      Proved!Content, Migration!Pair, Proved!Pair, Migration!Source, Proved!Source,
      Migration!Journal, Proved!Journal, Migration!Progress, Proved!Progress
<1>3. Proved!WholePair => Migration!WholePair
  BY DEF Migration!WholePair, Proved!WholePair, Migration!Settled, Proved!Settled,
      Migration!Whole, Proved!Whole
<1>4. Proved!CommitsSurvive => Migration!CommitsSurvive
  BY DEF Migration!CommitsSurvive, Proved!CommitsSurvive, Migration!Settled,
      Proved!Settled, Migration!Latest, Proved!Latest
<1>5. Proved!RecoverableElsewhere => Migration!RecoverableElsewhere
  BY DEF Migration!RecoverableElsewhere, Proved!RecoverableElsewhere, Migration!Settled,
      Proved!Settled, Migration!Waiting, Proved!Waiting, Migration!Trapped,
      Proved!Trapped, Migration!Idle, Proved!Idle, Migration!Untouched,
      Proved!Untouched, Migration!Decision, Proved!Decision, Migration!WalKnown,
      Proved!WalKnown, Migration!TargetInPlace, Proved!TargetInPlace,
      Migration!SameSource, Proved!SameSource, Migration!Fingerprint,
      Proved!Fingerprint, Migration!FilesKnown, Proved!FilesKnown
<1> QED
  BY <1>1, <1>2, <1>3, <1>4, <1>5

LEMMA SameSteps == Migration!Next => Proved!Next
<1>1. Migration!OpenSession => Proved!OpenSession
  BY DEF Migration!OpenSession, Proved!OpenSession, Migration!Settled, Proved!Settled,
      Migration!files, Proved!files, Migration!past, Proved!past
<1>2. /\ Migration!Commit => Proved!Commit
      /\ Migration!OldCommit => Proved!OldCommit
  BY DEF Migration!Commit, Proved!Commit, Migration!OldCommit, Proved!OldCommit,
      Migration!Writable, Proved!Writable, Migration!Guarded, Proved!Guarded,
      Migration!Settled, Proved!Settled, Migration!Committed, Proved!Committed
<1>3. /\ Migration!CloseSession => Proved!CloseSession
      /\ Migration!SessionCrash => Proved!SessionCrash
  BY DEF Migration!CloseSession, Proved!CloseSession, Migration!SessionCrash,
      Proved!SessionCrash, Migration!Settled, Proved!Settled, Migration!files,
      Proved!files
<1>4. /\ Migration!Preview => Proved!Preview
      /\ Migration!Begin => Proved!Begin
  BY DEF Migration!Preview, Proved!Preview, Migration!Begin, Proved!Begin, Migration!Idle,
      Proved!Idle, Migration!Settled, Proved!Settled, Migration!Fingerprint,
      Proved!Fingerprint, Migration!SameSource, Proved!SameSource, Migration!Save,
      Proved!Save, Migration!NewJournal, Proved!NewJournal, Migration!Phase,
      Proved!Phase, Migration!Latest, Proved!Latest, Migration!files, Proved!files,
      Migration!past, Proved!past
<1>5. /\ Migration!BackUp => Proved!BackUp
      /\ Migration!Stage => Proved!Stage
      /\ Migration!Release => Proved!Release
  BY DEF Migration!BackUp, Proved!BackUp, Migration!Stage, Proved!Stage, Migration!Release,
      Proved!Release, Migration!SameSource, Proved!SameSource, Migration!Fingerprint,
      Proved!Fingerprint, Migration!Save, Proved!Save, Migration!BackupCopy,
      Proved!BackupCopy, Migration!Latest, Proved!Latest, Migration!Phase, Proved!Phase,
      Migration!Failed, Proved!Failed, Migration!Idle, Proved!Idle,
      Migration!UpgradeSteps, Proved!UpgradeSteps, Migration!files, Proved!files,
      Migration!past, Proved!past
<1>6. /\ Migration!MoveDb => Proved!MoveDb
      /\ Migration!MoveWal => Proved!MoveWal
      /\ Migration!MoveBrief => Proved!MoveBrief
      /\ Migration!InstallDb => Proved!InstallDb
      /\ Migration!InstallBrief => Proved!InstallBrief
  BY DEF Migration!MoveDb, Proved!MoveDb, Migration!MoveWal, Proved!MoveWal,
      Migration!MoveBrief, Proved!MoveBrief, Migration!InstallDb, Proved!InstallDb,
      Migration!InstallBrief, Proved!InstallBrief, Migration!Doing, Proved!Doing,
      Migration!Done, Proved!Done, Migration!past, Proved!past
<1>7. Migration!Complete => Proved!Complete
  BY DEF Migration!Complete, Proved!Complete, Migration!Doing, Proved!Doing,
      Migration!Idle, Proved!Idle, Migration!Save, Proved!Save, Migration!Latest,
      Proved!Latest, Migration!files, Proved!files
<1>8. Migration!Recover => Proved!Recover
  BY DEF Migration!Recover, Proved!Recover, Migration!Idle, Proved!Idle, Migration!Settled,
      Proved!Settled, Migration!Decision, Proved!Decision, Migration!WalKnown,
      Proved!WalKnown, Migration!TargetInPlace, Proved!TargetInPlace,
      Migration!Untouched, Proved!Untouched, Migration!SameSource, Proved!SameSource,
      Migration!Fingerprint, Proved!Fingerprint, Migration!FilesKnown,
      Proved!FilesKnown, Migration!Save, Proved!Save, Migration!RestoreSteps,
      Proved!RestoreSteps, Migration!files, Proved!files, Migration!past, Proved!past
<1>9. Migration!PrepareRestore => Proved!PrepareRestore
  BY DEF Migration!PrepareRestore, Proved!PrepareRestore, Migration!Idle, Proved!Idle,
      Migration!Save, Proved!Save, Migration!Latest, Proved!Latest, Migration!files,
      Proved!files
<1>10. /\ Migration!Fail => Proved!Fail
       /\ Migration!Crash => Proved!Crash
  BY DEF Migration!Fail, Proved!Fail, Migration!Crash, Proved!Crash, Migration!Upgrading,
      Proved!Upgrading, Migration!Failed, Proved!Failed, Migration!Save, Proved!Save,
      Migration!Idle, Proved!Idle, Migration!files, Proved!files
<1>11. (\E to \in Migration!Progress : Migration!SaveProgress(to)) =>
            \E to \in Proved!Progress : Proved!SaveProgress(to)
  BY DEF Migration!SaveProgress, Proved!SaveProgress, Migration!Progress, Proved!Progress,
      Migration!Doing, Proved!Doing, Migration!Done, Proved!Done, Migration!Save,
      Proved!Save, Migration!files, Proved!files, Migration!past, Proved!past
<1> QED
  BY <1>1, <1>2, <1>3, <1>4, <1>5, <1>6, <1>7, <1>8, <1>9, <1>10, <1>11
  DEF Migration!Next, Proved!Next, Migration!Upgrade, Proved!Upgrade, Migration!Switch,
      Proved!Switch, Migration!Others, Proved!Others

LEMMA SameSwitch == Proved!PairSwitchSpec => Migration!PairSwitchSpec
<1>1. Proved!Switching!Init => Migration!Switching!Init
  BY DEF Migration!Switching!Init, Proved!Switching!Init, Migration!Shown, Proved!Shown,
      Migration!Settled, Proved!Settled, Migration!Latest, Proved!Latest,
      Migration!Content, Proved!Content, Migration!Kind, Proved!Kind
<1>2. Proved!Switching!Next => Migration!Switching!Next
  BY DEF Migration!Switching!Next, Proved!Switching!Next, Migration!Switching!Commit,
      Proved!Switching!Commit, Migration!Switching!Begin, Proved!Switching!Begin,
      Migration!Switching!End, Proved!Switching!End, Migration!Shown, Proved!Shown,
      Migration!Settled, Proved!Settled, Migration!Latest, Proved!Latest,
      Migration!Content, Proved!Content, Migration!Kind, Proved!Kind
<1>3. UNCHANGED Proved!Switching!vars => UNCHANGED Migration!Switching!vars
  BY DEF Migration!Switching!vars, Proved!Switching!vars, Migration!Shown, Proved!Shown,
      Migration!Settled, Proved!Settled, Migration!Latest, Proved!Latest
<1> QED
  BY <1>1, <1>2, <1>3, PTL
  DEF Migration!PairSwitchSpec, Proved!PairSwitchSpec, Migration!Switching!Spec,
      Proved!Switching!Spec

\* A behaviour of the two side by side is a behaviour of each.
THEOREM OfEachPart == SwitchesSpec => Spec /\ Proved!Spec
<1>1. SwitchesInit => Init /\ Proved!Init
  BY SameStates DEF SwitchesInit
<1>2. [SwitchesNext]_<<part, vars, migrationVars>> => [Next]_vars
  BY DEF SwitchesNext, Migrating, Restoring
<1>3. [SwitchesNext]_<<part, vars, migrationVars>> => [Proved!Next]_(Proved!vars)
  <2>1. UNCHANGED migrationVars => UNCHANGED Proved!vars
    BY DEF migrationVars, Proved!vars, Proved!files, Proved!past
  <2> QED
    BY <2>1, SameSteps DEF SwitchesNext, Migrating, Restoring
<1> QED
  BY <1>1, <1>2, <1>3, PTL DEF SwitchesSpec, Spec, Proved!Spec

\* Both modules' variables keep their types.
THEOREM SwitchesKeepTypes == SwitchesSpec => []SwitchesTypeOK
<1>1. TypeOK /\ Proved!TypeOK => SwitchesTypeOK
  BY SameStates DEF SwitchesTypeOK
<1>2. Proved!Spec => []Proved!TypeOK
  BY SameConstants, Proved!TypeSafety
<1> QED
  BY <1>1, <1>2, OfEachPart, TypeCorrect, PTL

\* No upgrade, downgrade or restore ever leaves half of a pair to be opened.
THEOREM EverySwitchKeepsPairs == SwitchesSpec => []EveryPairWhole
<1>1. WholePair /\ Proved!WholePair => EveryPairWhole
  BY SameStates DEF EveryPairWhole
<1>2. Proved!Spec => []Proved!WholePair
  BY SameConstants, Proved!KeepsWholePair
<1> QED
  BY <1>1, <1>2, OfEachPart, KeepsWholePair, PTL

\* An upgrade loses no acknowledged commit of the current runtime, as often as it
\* is interrupted.
THEOREM NoCommitIsLost == SwitchesSpec => []CommitsSurvive
<1>1. Proved!CommitsSurvive => CommitsSurvive
  BY SameStates DEF CommitsSurvive
<1>2. Proved!Spec => []Proved!CommitsSurvive
  BY SameConstants, Proved!LosesNoCommit
<1> QED
  BY <1>1, <1>2, OfEachPart, PTL

\* Any interrupted switch can be recovered, but for the states that are named.
THEOREM EverySwitchRecovers == SwitchesSpec => []EveryRecoverable
<1>1. RecoverableElsewhere /\ Proved!RecoverableElsewhere => EveryRecoverable
  BY SameStates DEF EveryRecoverable
<1>2. Proved!Spec => []Proved!RecoverableElsewhere
  BY SameConstants, Proved!Recoverable
<1> QED
  BY <1>1, <1>2, OfEachPart, RecoverableFromAnywhere, PTL

\* Upgrade, downgrade, restore and their recoveries are all switches of a whole
\* pair.
THEOREM EverySwitchIsOne == SwitchesSpec => EverySwitchSpec
<1>1. Proved!Spec => Proved!PairSwitchSpec
  BY SameConstants, Proved!IsPairSwitch
<1> QED
  BY <1>1, OfEachPart, IsPairSwitch, SameSwitch, PTL DEF EverySwitchSpec

=============================================================================
