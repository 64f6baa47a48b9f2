------------------------ MODULE ProviderSettingsProofs ------------------------
(***************************************************************************)
(* Proofs about ProviderSettings, for any callers and bounds.              *)
(***************************************************************************)
EXTENDS MCDesktop, TLAPS

AskingCall == [phase : {"asking", "reading"}, locality : Locality, entered : BOOLEAN]
ReadCall ==
    [phase : {"describing", "numbering"}, locality : Locality, entered : BOOLEAN,
     previous : Nat]
NumberedCall == [phase : {"queued", "installing"}, generation : Nat]
IdlePhase == [phase : {"idle"}]
ImportPhase ==
    {"preparing", "deciding", "numbering", "installing", "marking", "copying", "finishing"}
ImportState == IdlePhase \cup [phase : ImportPhase, target : Nat, resumed : BOOLEAN]
Record == [generation : Nat, stage : {"prepared", "config_migrated", "complete"}]

TypeOK ==
    /\ file \in Nat /\ high \in Nat /\ top \in Nat
    /\ raced \in BOOLEAN
    /\ call \in [Caller -> IdlePhase \cup AskingCall \cup ReadCall \cup NumberedCall]
    /\ record \in Record \cup {None}
    /\ import \in ImportState
    /\ import.phase \notin {"idle", "preparing"} => record \in Record

(* The highest generation is not below any that was, or is about to be,    *)
(* published.                                                              *)
HighOK ==
    /\ file <= high /\ top <= high
    /\ \A c \in Caller : call[c].phase = "installing" => call[c].generation <= high
    /\ import.phase = "installing" => record.generation <= high

(* Without an overlap there is one writer, and what it is to publish is new*)
WriterOK ==
    ~raced =>
        /\ \A c, d \in Writing : c = d
        /\ Importing => Writing = {}
        /\ \A c \in Caller :
              /\ call[c].phase = "queued" => high < call[c].generation
              /\ call[c].phase = "installing" => top < call[c].generation
        /\ Importing /\ ~import.resumed =>
              /\ import.phase \in {"deciding", "numbering"} => high < record.generation
              /\ import.phase = "installing" => top < record.generation

IInv == TypeOK /\ HighOK /\ WriterOK /\ SessionKeysDie

-----------------------------------------------------------------------------
LEMMA InitEstablishes == Init => IInv
<1> SUFFICES ASSUME Init PROVE IInv
  OBVIOUS
<1>1. Idle \in IdlePhase /\ Idle.phase = "idle"
  BY DEF Idle, IdlePhase
<1>2. import = Idle /\ \A c \in Caller : call[c] = Idle
  BY DEF Init
<1>3. TypeOK
  BY <1>1 DEF Init, TypeOK, ImportState
<1>4. Writing = {} /\ ~Importing
  BY <1>1, <1>2 DEF Writing, Importing
<1>5. HighOK /\ WriterOK /\ SessionKeysDie
  BY <1>1, <1>2, <1>4 DEF Init, HighOK, WriterOK, SessionKeysDie
<1> QED
  BY <1>3, <1>5 DEF IInv

\* The larger of two generations.
LEMMA LargerOf ==
    ASSUME NEW m \in Nat, NEW n \in Nat
    PROVE  Larger(m, n) \in Nat /\ m <= Larger(m, n) /\ n <= Larger(m, n)
           /\ (n <= m => Larger(m, n) = m)
BY DEF Larger

\* A call's fields are those of its phase.
LEMMA CallFields ==
    ASSUME TypeOK, NEW c \in Caller
    PROVE  /\ call[c].phase \in {"asking", "reading"} => call[c] \in AskingCall
           /\ call[c].phase \in {"describing", "numbering"} => call[c] \in ReadCall
           /\ call[c].phase \in {"queued", "installing"} => call[c] \in NumberedCall
           /\ call[c].phase \in {"idle", "asking", "reading", "describing", "numbering",
                                 "queued", "installing"}
BY DEF TypeOK, IdlePhase, AskingCall, ReadCall, NumberedCall

\* A step of the import that leaves files and calls alone.
LEMMA ImportFields ==
    ASSUME TypeOK, Importing
    PROVE  /\ import \in [phase : ImportPhase, target : Nat, resumed : BOOLEAN]
           /\ import.resumed \in BOOLEAN
           /\ Idle \in ImportState /\ Idle.phase = "idle"
BY DEF TypeOK, ImportState, IdlePhase, Importing, Idle

\* A step of one call that writes neither file and makes nobody a writer.
LEMMA CallMoves ==
    ASSUME IInv, NEW c \in Caller,
           NEW next \in IdlePhase \cup AskingCall \cup ReadCall \cup NumberedCall,
           call' = [call EXCEPT ![c] = next],
           \/ c \in Writing
           \/ next.phase \in {"idle", "asking", "reading"}
           \/ raced' \/ (Writing = {} /\ ~Importing),
           next.phase # "installing",
           next.phase = "queued" => high < next.generation,
           raced => raced', raced' \in BOOLEAN,
           UNCHANGED <<file, high, imports, top>>
    PROVE  TypeOK' /\ HighOK' /\ WriterOK'
<1>1. TypeOK'
  BY DEF IInv, TypeOK, imports
<1>2. call'[c] = next /\ \A d \in Caller : d # c => call'[d] = call[d]
  BY DEF IInv, TypeOK
<1>3. HighOK'
  BY <1>2 DEF IInv, HighOK, imports
<1>4. Importing' <=> Importing
  BY DEF Importing, imports
<1>5. ASSUME ~raced' PROVE WriterOK'
  <2>1. Writing' \subseteq Writing \cup {c}
    BY <1>2 DEF Writing
  <2>2. c \in Writing \/ Writing' \subseteq Writing \/ (Writing = {} /\ ~Importing)
    BY <1>2, <1>5 DEF Writing
  <2>3. \A d, e \in Writing' : d = e
    BY <1>5, <2>1, <2>2 DEF IInv, WriterOK
  <2>4. Importing' => Writing' = {}
    BY <1>4, <1>5, <2>1, <2>2 DEF IInv, WriterOK
  <2> QED
    BY <1>2, <1>4, <1>5, <2>3, <2>4 DEF IInv, WriterOK, imports
<1> QED
  BY <1>1, <1>3, <1>5 DEF WriterOK

-----------------------------------------------------------------------------
(* The save of the settings page.                                          *)

\* Its steps that write neither file.
LEMMA CallKeeps ==
    ASSUME IInv, NEW c \in Caller,
           \/ \E locality \in Locality : BeginSave(c, locality)
           \/ EnterKey(c) \/ ReadPrevious(c) \/ StoreKey(c) \/ Number(c)
    PROVE  IInv'
<1>1. Idle \in IdlePhase /\ Idle.phase = "idle" /\ TypeOK /\ raced \in BOOLEAN
  BY DEF Idle, IdlePhase, IInv, TypeOK
<1>2. call[c].phase \notin {"idle", "asking", "reading"} => c \in Writing
  BY DEF Writing
<1>3. ASSUME NEW locality \in Locality, BeginSave(c, locality)
      PROVE  IInv'
  <2> DEFINE asks == locality = "external" /\ ~key
             next == [phase |-> IF asks THEN "asking" ELSE "reading",
                      locality |-> locality, entered |-> asks]
  <2>1. next \in AskingCall /\ next.phase \in {"asking", "reading"}
    BY DEF AskingCall
  <2>2. /\ call' = [call EXCEPT ![c] = next]
        /\ UNCHANGED <<file, high, imports, top, raced>>
    BY <1>3 DEF BeginSave
  <2>3. SessionKeysDie'
    BY <1>3 DEF BeginSave, IInv, SessionKeysDie
  <2> HIDE DEF next
  <2> QED
    BY <1>1, <2>1, <2>2, <2>3, CallMoves DEF IInv
<1>4. CASE EnterKey(c)
  <2>1. call[c] \in AskingCall
    BY <1>1, <1>4, CallFields DEF EnterKey
  <2> DEFINE next == [call[c] EXCEPT !.phase = "reading"]
  <2>2. next \in AskingCall /\ next.phase = "reading"
    BY <2>1 DEF AskingCall
  <2>3. /\ call' = [call EXCEPT ![c] = next] \/ call' = [call EXCEPT ![c] = Idle]
        /\ UNCHANGED <<file, high, imports, top, raced>>
    BY <1>4 DEF EnterKey
  <2>4. SessionKeysDie'
    BY <1>4 DEF EnterKey, IInv, SessionKeysDie
  <2> HIDE DEF next
  <2>5. CASE call' = [call EXCEPT ![c] = next]
    BY <1>1, <2>2, <2>3, <2>4, <2>5, CallMoves DEF IInv
  <2>6. CASE call' = [call EXCEPT ![c] = Idle]
    BY <1>1, <2>3, <2>4, <2>6, CallMoves DEF IInv
  <2> QED
    BY <2>3, <2>5, <2>6
<1>5. CASE ReadPrevious(c)
  <2>1. call[c] \in AskingCall
    BY <1>1, <1>5, CallFields DEF ReadPrevious
  <2> DEFINE next == [phase |-> "describing", locality |-> call[c].locality,
                      entered |-> call[c].entered, previous |-> file]
  <2>2. next \in ReadCall /\ next.phase = "describing"
    BY <1>1, <2>1 DEF AskingCall, ReadCall, TypeOK
  <2>3. /\ call' = [call EXCEPT ![c] = next]
        /\ raced' = (raced \/ Writing # {} \/ Importing)
        /\ UNCHANGED <<file, high, imports, top>>
    BY <1>5 DEF ReadPrevious
  <2>4. SessionKeysDie'
    BY <1>5 DEF ReadPrevious, IInv, SessionKeysDie
  <2> HIDE DEF next
  <2>5. raced' \/ (Writing = {} /\ ~Importing)
    BY <2>3
  <2>6. (raced => raced') /\ raced' \in BOOLEAN
    BY <1>1, <2>3
  <2> QED
    BY <2>2, <2>3, <2>4, <2>5, <2>6, CallMoves DEF IInv
<1>6. CASE StoreKey(c)
  <2>1. call[c] \in ReadCall /\ c \in Writing
    BY <1>1, <1>2, <1>6, CallFields DEF StoreKey
  <2> DEFINE next == [call[c] EXCEPT !.phase = "numbering"]
  <2>2. next \in ReadCall /\ next.phase = "numbering"
    BY <2>1 DEF ReadCall
  <2>3. /\ call' = [call EXCEPT ![c] = next] \/ call' = [call EXCEPT ![c] = Idle]
        /\ UNCHANGED <<file, high, imports, top, raced>>
    BY <1>6 DEF StoreKey
  <2>4. SessionKeysDie'
    BY <1>6 DEF StoreKey, Storable, Healthy, IInv, SessionKeysDie
  <2> HIDE DEF next
  <2>5. CASE call' = [call EXCEPT ![c] = next]
    BY <1>1, <2>1, <2>2, <2>3, <2>4, <2>5, CallMoves DEF IInv
  <2>6. CASE call' = [call EXCEPT ![c] = Idle]
    BY <1>1, <2>3, <2>4, <2>6, CallMoves DEF IInv
  <2> QED
    BY <2>3, <2>5, <2>6
<1>7. CASE Number(c)
  <2>1. call[c] \in ReadCall /\ c \in Writing /\ call[c].previous \in Nat
    BY <1>1, <1>2, <1>7, CallFields DEF Number, ReadCall
  <2>2. /\ NextGeneration(call[c].previous) \in Nat
        /\ high < NextGeneration(call[c].previous)
    <3>1. high \in Nat
      BY <1>1 DEF TypeOK
    <3> DEFINE larger == Larger(call[c].previous, high)
    <3>2. larger \in Nat /\ high <= larger
      BY <2>1, <3>1, LargerOf
    <3> HIDE DEF larger
    <3>3. larger + 1 \in Nat /\ high < larger + 1
      BY <3>1, <3>2
    <3> QED
      BY <3>3 DEF NextGeneration, larger
  <2> DEFINE next == [phase |-> "queued", generation |-> NextGeneration(call[c].previous)]
  <2>3. next \in NumberedCall /\ next.phase = "queued" /\ high < next.generation
    BY <2>2 DEF NumberedCall
  <2>4. /\ call' = [call EXCEPT ![c] = next]
        /\ UNCHANGED <<file, high, imports, top, raced>>
    BY <1>7 DEF Number
  <2>5. SessionKeysDie'
    BY <1>7 DEF Number, IInv, SessionKeysDie
  <2> HIDE DEF next
  <2> QED
    BY <1>1, <2>1, <2>3, <2>4, <2>5, CallMoves DEF IInv
<1> QED
  BY <1>3, <1>4, <1>5, <1>6, <1>7

LEMMA WriteGenerationKeeps ==
    ASSUME IInv, NEW c \in Caller, WriteGeneration(c)
    PROVE  IInv'
<1> DEFINE g == call[c].generation
           next == [call[c] EXCEPT !.phase = "installing"]
<1>1. call[c] \in NumberedCall /\ call[c].phase = "queued" /\ g \in Nat /\ c \in Writing
  BY CallFields DEF WriteGeneration, IInv, NumberedCall, Writing
<1>2. next \in NumberedCall /\ next.phase = "installing" /\ next.generation = g
  BY <1>1 DEF NumberedCall
<1>3. /\ high' = Larger(high, g) /\ call' = [call EXCEPT ![c] = next]
      /\ UNCHANGED <<file, available, key, session, imports, top, raced>>
  BY DEF WriteGeneration, Raised
<1>4. /\ file \in Nat /\ top \in Nat /\ high \in Nat
      /\ high' \in Nat /\ high <= high' /\ g <= high'
  BY <1>1, <1>3, LargerOf DEF IInv, TypeOK
<1> HIDE DEF next, g
<1>5. call'[c] = next /\ \A d \in Caller : d # c => call'[d] = call[d]
  BY <1>3 DEF IInv, TypeOK
<1>6. TypeOK'
  BY <1>2, <1>3, <1>4 DEF IInv, TypeOK, imports
<1>7. HighOK'
  <2>1. ASSUME NEW d \in Caller, call'[d].phase = "installing"
        PROVE  call'[d].generation <= high'
    <3>1. CASE d = c
      BY <1>2, <1>4, <1>5, <3>1
    <3>2. CASE d # c
      <4>1. call[d].phase = "installing" /\ call[d].generation \in Nat
        BY <1>5, <2>1, <3>2, CallFields DEF IInv, NumberedCall
      <4> QED
        BY <1>4, <1>5, <3>2, <4>1 DEF IInv, HighOK
    <3> QED
      BY <3>1, <3>2
  <2>2. import.phase = "installing" => record.generation \in Nat
    BY DEF IInv, TypeOK, Record
  <2>3. import.phase = "installing" => record.generation <= high'
    BY <1>4, <2>2 DEF IInv, HighOK
  <2>4. file <= high' /\ top <= high'
    BY <1>4 DEF IInv, HighOK
  <2> QED
    BY <1>3, <2>1, <2>3, <2>4 DEF HighOK, imports
<1>8. ASSUME ~raced' PROVE WriterOK'
  <2>1. Writing' = Writing /\ (Importing' <=> Importing)
    BY <1>1, <1>2, <1>3, <1>5 DEF Writing, Importing, imports
  <2>2. Writing = {c} /\ ~Importing /\ high < g
    BY <1>1, <1>3, <1>8 DEF IInv, WriterOK, g
  <2>3. \A d \in Caller : d # c => call[d].phase \notin {"queued", "installing"}
    BY <2>2 DEF Writing
  <2>4. top < g
    BY <1>1, <1>4, <2>2 DEF IInv, HighOK, g
  <2> QED
    BY <1>2, <1>3, <1>5, <2>1, <2>2, <2>3, <2>4 DEF WriterOK
<1>9. SessionKeysDie'
  BY <1>3 DEF IInv, SessionKeysDie
<1> QED
  BY <1>6, <1>7, <1>8, <1>9 DEF IInv, WriterOK

\* The configuration's own queue is left empty.
LEMMA InstallKeeps ==
    ASSUME IInv, NEW c \in Caller, Install(c)
    PROVE  IInv' /\ (~raced => top < file')
<1> DEFINE g == call[c].generation
<1>1. call[c] \in NumberedCall /\ call[c].phase = "installing" /\ g \in Nat /\ c \in Writing
  BY CallFields DEF Install, IInv, NumberedCall, Writing
<1>2. /\ file' = g /\ top' = Larger(top, g) /\ call' = [call EXCEPT ![c] = Idle]
      /\ UNCHANGED <<high, available, key, session, imports, raced>>
  BY DEF Install, Publish
<1>3. Idle \in IdlePhase /\ Idle.phase = "idle"
  BY DEF Idle, IdlePhase
<1>4. high \in Nat /\ top \in Nat /\ g <= high /\ top <= high
  BY <1>1 DEF IInv, TypeOK, HighOK
<1> HIDE DEF g
<1>5. call'[c] = Idle /\ \A d \in Caller : d # c => call'[d] = call[d]
  BY <1>2 DEF IInv, TypeOK
<1>6. top' \in Nat /\ top' <= high
  BY <1>1, <1>2, <1>4 DEF Larger
<1>7. TypeOK'
  BY <1>1, <1>2, <1>3, <1>6 DEF IInv, TypeOK, imports
<1>8. HighOK'
  BY <1>2, <1>3, <1>4, <1>5, <1>6 DEF IInv, HighOK, imports
<1>9. ASSUME ~raced' PROVE WriterOK'
  <2>1. Writing = {c} /\ ~Importing
    BY <1>1, <1>2, <1>9 DEF IInv, WriterOK
  <2>2. Writing' = {} /\ ~Importing'
    BY <1>2, <1>3, <1>5, <2>1 DEF Writing, Importing, imports
  <2>3. \A d \in Caller : call'[d].phase \notin {"queued", "installing"}
    BY <2>2 DEF Writing
  <2> QED
    BY <2>2, <2>3 DEF WriterOK
<1>10. SessionKeysDie'
  BY <1>2 DEF IInv, SessionKeysDie
<1>11. ~raced => top < file'
  BY <1>1, <1>2 DEF IInv, WriterOK, g
<1> QED
  BY <1>7, <1>8, <1>9, <1>10, <1>11 DEF IInv, WriterOK

LEMMA DeleteConfigKeeps ==
    ASSUME IInv, DeleteConfig
    PROVE  IInv'
<1>1. /\ high' = Larger(high, file) /\ file' = 0
      /\ raced' = (raced \/ Writing # {} \/ Importing)
      /\ UNCHANGED <<available, key, session, call, imports, top>>
  BY DEF DeleteConfig, Raised
<1>2. high' = high /\ high \in Nat
  BY <1>1, LargerOf DEF IInv, TypeOK, HighOK
<1>3. TypeOK'
  BY <1>1, <1>2 DEF IInv, TypeOK, imports
<1>4. HighOK'
  BY <1>1, <1>2 DEF IInv, HighOK, imports
<1>5. ASSUME ~raced' PROVE WriterOK'
  <2>1. Writing = {} /\ ~Importing
    BY <1>1, <1>5
  <2>2. Writing' = {} /\ ~Importing'
    BY <1>1, <2>1 DEF Writing, Importing, imports
  <2>3. \A d \in Caller : call'[d].phase \notin {"queued", "installing"}
    BY <2>2 DEF Writing
  <2> QED
    BY <2>2, <2>3 DEF WriterOK
<1>6. SessionKeysDie'
  BY <1>1 DEF IInv, SessionKeysDie
<1> QED
  BY <1>3, <1>4, <1>5, <1>6 DEF IInv, WriterOK

\* Calls may only end.
LEMMA CallsEnd ==
    ASSUME IInv, call' \in [Caller -> IdlePhase \cup AskingCall \cup ReadCall \cup NumberedCall],
           \A d \in Caller : call'[d] = call[d] \/ call'[d].phase = "idle",
           import' = import \/ import' = Idle,
           UNCHANGED <<file, high, record, top, raced>>
    PROVE  TypeOK' /\ HighOK' /\ WriterOK'
<1>1. Idle \in ImportState /\ Idle.phase = "idle"
  BY DEF Idle, ImportState, IdlePhase
<1>2. TypeOK'
  BY <1>1 DEF IInv, TypeOK
<1>3. HighOK'
  BY <1>1 DEF IInv, HighOK
<1>4. Writing' \subseteq Writing /\ (Importing' => Importing /\ import' = import)
  BY <1>1 DEF Writing, Importing
<1>5. WriterOK'
  BY <1>4 DEF IInv, WriterOK
<1> QED
  BY <1>2, <1>3, <1>5

LEMMA EndsKeep ==
    ASSUME IInv, DeleteSecret \/ CloseProject \/ Crash
    PROVE  IInv'
<1>1. Idle \in IdlePhase /\ Idle.phase = "idle"
  BY DEF Idle, IdlePhase
<1>2. /\ call' \in [Caller -> IdlePhase \cup AskingCall \cup ReadCall \cup NumberedCall]
      /\ \A d \in Caller : call'[d] = call[d] \/ call'[d].phase = "idle"
      /\ import' = import \/ import' = Idle
      /\ UNCHANGED <<file, high, record, top, raced>>
  BY <1>1 DEF DeleteSecret, CloseProject, Crash, IInv, TypeOK, imports
<1>3. SessionKeysDie'
  BY DEF DeleteSecret, CloseProject, Crash, KeyAfterClose, IInv, SessionKeysDie
<1> QED
  BY <1>2, <1>3, CallsEnd DEF IInv

-----------------------------------------------------------------------------
(* The import.                                                             *)

LEMMA ImportKeeps ==
    ASSUME IInv,
           \/ BeginImport \/ PrepareImport \/ DecideImport \/ ImportGeneration
           \/ ImportConfig \/ MarkImport \/ ImportKey \/ FinishImport
    PROVE  IInv' /\ (~raced /\ ImportConfig => import.resumed \/ top < file')
<1>1. /\ file \in Nat /\ high \in Nat /\ top \in Nat /\ raced \in BOOLEAN
      /\ Idle \in ImportState /\ Idle.phase = "idle"
  BY DEF IInv, TypeOK, Idle, ImportState, IdlePhase
<1>2. UNCHANGED call /\ Writing' = Writing
  BY DEF BeginImport, PrepareImport, DecideImport, ImportGeneration, ImportConfig,
         MarkImport, ImportKey, FinishImport, Writing
<1>3. SessionKeysDie'
  BY DEF BeginImport, PrepareImport, DecideImport, ImportGeneration, ImportConfig,
         MarkImport, ImportKey, FinishImport, IInv, SessionKeysDie
<1>4. \A c \in Caller : call[c].phase \in {"queued", "installing"} =>
          c \in Writing /\ call[c].generation \in Nat
  BY CallFields DEF IInv, Writing, NumberedCall
<1>5. CASE BeginImport
  <2> DEFINE next == [phase |-> IF record = None THEN "preparing" ELSE "deciding",
                      target |-> file, resumed |-> record # None]
  <2>1. /\ next \in ImportState
        /\ next.phase \in {"preparing", "deciding"}
        /\ next.phase # "preparing" => record \in Record /\ next.resumed
    BY <1>1 DEF ImportState, ImportPhase, IInv, TypeOK
  <2>2. /\ import' = next /\ raced' = (raced \/ Writing # {})
        /\ UNCHANGED <<file, high, record, top>>
    BY <1>5 DEF BeginImport
  <2> HIDE DEF next
  <2>3. TypeOK' /\ HighOK'
    BY <1>1, <1>2, <2>1, <2>2 DEF IInv, TypeOK, HighOK
  <2>4. WriterOK'
    BY <1>2, <1>4, <2>1, <2>2 DEF IInv, WriterOK, Importing
  <2> QED
    BY <1>3, <1>5, <2>2, <2>3, <2>4 DEF IInv, ImportConfig, BeginImport, Idle
<1>6. CASE PrepareImport
  <2>0. Importing /\ import.phase = "preparing"
    BY <1>6 DEF PrepareImport, Importing
  <2> DEFINE g == Larger(SourceGeneration, high) + 1
             rec == [generation |-> g, stage |-> "prepared"]
             next == [import EXCEPT !.phase = "deciding"]
  <2>1. g \in Nat /\ high < g
    BY <1>1 DEF Larger, SourceGeneration
  <2>2. /\ next \in ImportState /\ next.phase = "deciding"
        /\ next.resumed = import.resumed
    BY <2>0, ImportFields DEF IInv, ImportState, ImportPhase
  <2>3. rec \in Record /\ rec.generation = g
    BY <2>1 DEF Record
  <2>4. import' = next /\ record' = rec /\ UNCHANGED <<file, high, top, raced>>
    BY <1>6 DEF PrepareImport
  <2> HIDE DEF next, rec, g
  <2>5. TypeOK' /\ HighOK'
    BY <1>1, <1>2, <2>2, <2>3, <2>4 DEF IInv, TypeOK, HighOK
  <2>6. WriterOK'
    BY <1>2, <2>0, <2>1, <2>2, <2>3, <2>4 DEF IInv, WriterOK, Importing
  <2> QED
    BY <1>3, <1>6, <2>0, <2>5, <2>6 DEF IInv, ImportConfig
<1>7. CASE DecideImport \/ ImportKey
  <2>0. Importing /\ import.phase \in {"deciding", "copying"}
    BY <1>7 DEF DecideImport, ImportKey, Importing
  <2>1. /\ import' \in ImportState
        /\ \/ import' = Idle
           \/ /\ import'.phase \in {"numbering", "marking", "finishing"}
              /\ import'.resumed = import.resumed
              /\ import'.phase = "numbering" => import.phase = "deciding"
        /\ UNCHANGED <<file, high, record, top, raced>>
    BY <1>1, <1>7, <2>0, ImportFields
       DEF IInv, DecideImport, ImportKey, ImportState, ImportPhase
  <2>2. TypeOK' /\ HighOK'
    BY <1>1, <1>2, <2>0, <2>1 DEF IInv, TypeOK, HighOK
  <2>3. WriterOK'
    BY <1>1, <1>2, <2>0, <2>1 DEF IInv, WriterOK, Importing
  <2> QED
    BY <1>3, <2>0, <2>2, <2>3 DEF IInv, ImportConfig
<1>8. CASE ImportGeneration
  <2>0. /\ Importing /\ import.phase = "numbering"
        /\ record \in Record /\ record.generation \in Nat
    BY <1>8 DEF ImportGeneration, Importing, IInv, TypeOK, Record
  <2> DEFINE next == [import EXCEPT !.phase = "installing"]
  <2>1. /\ next \in ImportState /\ next.phase = "installing"
        /\ next.resumed = import.resumed
    BY <2>0, ImportFields DEF IInv, ImportState, ImportPhase
  <2>2. /\ import' = next /\ high' = Larger(high, record.generation)
        /\ UNCHANGED <<file, record, top, raced>>
    BY <1>8 DEF ImportGeneration, Raised
  <2>3. high' \in Nat /\ high <= high' /\ record.generation <= high'
    BY <1>1, <2>0, <2>2, LargerOf
  <2> HIDE DEF next
  <2>4. TypeOK'
    BY <1>2, <2>0, <2>1, <2>2, <2>3 DEF IInv, TypeOK
  <2>5. \A c \in Caller : call[c].phase = "installing" => call[c].generation <= high'
    BY <1>1, <1>4, <2>3 DEF IInv, HighOK
  <2>6. file <= high' /\ top <= high'
    BY <1>1, <2>3 DEF IInv, HighOK
  <2>7. HighOK'
    BY <1>2, <2>2, <2>3, <2>5, <2>6 DEF HighOK
  <2>8. ~raced /\ ~import.resumed => top < record.generation
    BY <1>1, <2>0 DEF IInv, WriterOK, HighOK
  <2>9. WriterOK'
    BY <1>2, <1>4, <2>0, <2>1, <2>2, <2>8 DEF IInv, WriterOK, Importing
  <2> QED
    BY <1>3, <2>0, <2>4, <2>7, <2>9 DEF IInv, ImportConfig
<1>9. CASE ImportConfig
  <2>0. /\ Importing /\ import.phase = "installing"
        /\ record \in Record /\ record.generation \in Nat
    BY <1>9 DEF ImportConfig, Importing, IInv, TypeOK, Record
  <2> DEFINE next == [import EXCEPT !.phase = "marking"]
  <2>1. next \in ImportState /\ next.phase = "marking"
    BY <2>0, ImportFields DEF IInv, ImportState, ImportPhase
  <2>2. /\ import' = next /\ file' = record.generation
        /\ top' = Larger(top, record.generation)
        /\ UNCHANGED <<high, record, raced>>
    BY <1>9 DEF ImportConfig, Publish
  <2> HIDE DEF next
  <2>3. record.generation <= high /\ top <= high
    BY <2>0 DEF IInv, HighOK
  <2>4. top' \in Nat /\ top' <= high
    BY <1>1, <2>0, <2>2, <2>3 DEF Larger
  <2>5. TypeOK' /\ HighOK'
    BY <1>1, <1>2, <2>0, <2>1, <2>2, <2>3, <2>4 DEF IInv, TypeOK, HighOK
  <2>6. WriterOK'
    BY <1>2, <1>4, <2>0, <2>1, <2>2 DEF IInv, WriterOK, Importing
  <2>7. ~raced => import.resumed \/ top < file'
    BY <2>0, <2>2 DEF IInv, WriterOK
  <2> QED
    BY <1>3, <2>5, <2>6, <2>7 DEF IInv
<1>10. CASE MarkImport \/ FinishImport
  <2>0. /\ Importing /\ import.phase \in {"marking", "finishing"} /\ record \in Record
    BY <1>10 DEF MarkImport, FinishImport, Importing, IInv, TypeOK
  <2>1. /\ import' \in ImportState
        /\ \/ import' = Idle
           \/ import'.phase = "copying"
        /\ record' \in Record
        /\ UNCHANGED <<file, high, top, raced>>
    BY <1>1, <1>10, <2>0, ImportFields
       DEF IInv, MarkImport, FinishImport, ImportState, ImportPhase, Record
  <2>2. TypeOK' /\ HighOK'
    BY <1>1, <1>2, <2>0, <2>1 DEF IInv, TypeOK, HighOK
  <2>3. WriterOK'
    BY <1>1, <1>2, <2>0, <2>1 DEF IInv, WriterOK, Importing
  <2> QED
    BY <1>3, <2>0, <2>2, <2>3 DEF IInv, ImportConfig
<1> QED
  BY <1>5, <1>6, <1>7, <1>8, <1>9, <1>10

LEMMA NextStep == IInv /\ [Next]_vars => IInv'
<1> SUFFICES ASSUME IInv, [Next]_vars PROVE IInv'
  OBVIOUS
<1>1. CASE UNCHANGED vars
  BY <1>1 DEF vars, imports, IInv, TypeOK, HighOK, WriterOK, SessionKeysDie, Writing, Importing
<1>2. ASSUME NEW c \in Caller, NEW locality \in Locality, BeginSave(c, locality)
      PROVE  IInv'
  BY <1>2, CallKeeps
<1>3. ASSUME NEW c \in Caller, EnterKey(c) \/ ReadPrevious(c) \/ StoreKey(c) \/ Number(c)
      PROVE  IInv'
  BY <1>3, CallKeeps
<1>4. ASSUME NEW c \in Caller, WriteGeneration(c) \/ Install(c)
      PROVE  IInv'
  BY <1>4, WriteGenerationKeeps, InstallKeeps
<1>5. CASE DeleteConfig \/ DeleteSecret \/ CloseProject \/ Crash
  BY <1>5, DeleteConfigKeeps, EndsKeep
<1>6. CASE \/ BeginImport \/ PrepareImport \/ DecideImport \/ ImportGeneration
           \/ ImportConfig \/ MarkImport \/ ImportKey \/ FinishImport
  BY <1>6, ImportKeeps
<1> QED
  BY <1>1, <1>2, <1>3, <1>4, <1>5, <1>6 DEF Next, Step

-----------------------------------------------------------------------------
(* The theorems.                                                           *)

(* Whatever is saved, deleted, imported and interrupted: the highest       *)
(* generation is durable before a configuration is, and, while writers do  *)
(* not overlap, the one that writes has a generation of its own.           *)
THEOREM Invariance == Spec => []IInv
<1> QED
  BY InitEstablishes, NextStep, PTL DEF Spec

(* A key the system cannot store does not outlive the session for which the*)
(* user chose memory, whichever save was in progress at its end.           *)
THEOREM SessionKeysDieTheorem == Spec => []SessionKeysDie
<1>1. IInv => SessionKeysDie
  BY DEF IInv
<1> QED
  BY <1>1, Invariance, PTL

(* What ProviderConfigurationService publishes has a generation no earlier *)
(* publication had, across deletions, crashes and imports.                 *)
THEOREM PublishedIsNewTheorem == Spec => PublishedIsNew
<1> DEFINE New == /\ file' # file /\ file' # 0
                  => (Importing /\ import.resumed) \/ top < file'
<1>1. ASSUME IInv, Next, file' # file, file' # 0
      PROVE  (Importing /\ import.resumed) \/ top < file'
  <2>1. ~raced /\ Step
    BY <1>1 DEF Next
  <2>2. (\E c \in Caller : Install(c)) \/ ImportConfig
    BY <1>1, <2>1
       DEF Step, BeginSave, EnterKey, ReadPrevious, StoreKey, Number, WriteGeneration,
           DeleteConfig, DeleteSecret, CloseProject, BeginImport, PrepareImport,
           DecideImport, ImportGeneration, MarkImport, ImportKey, FinishImport, Crash
  <2>3. CASE ImportConfig
    BY <1>1, <2>1, <2>3, ImportKeeps DEF ImportConfig, Importing
  <2>4. CASE \E c \in Caller : Install(c)
    BY <1>1, <2>1, <2>4, InstallKeeps
  <2> QED
    BY <2>2, <2>3, <2>4
<1>2. IInv /\ [Next]_vars => [New]_vars
  BY <1>1
<1> QED
  BY <1>2, Invariance, PTL DEF Spec, PublishedIsNew

-----------------------------------------------------------------------------
(* Beside the hold on a project, as MCDesktop composes them.  What         *)
(* ProjectSessionProofs proves is of an instance of its own, which says    *)
(* the same.                                                               *)

Hold == INSTANCE ProjectSessionProofs

LEMMA SameInit == Session!Init => Hold!Init
  BY DEF Session!Init, Hold!Init, Session!Idle, Hold!Idle

LEMMA SameCalls ==
    ASSUME NEW c \in Caller
    PROVE  /\ \A kind \in Session!Kind :
                 kind \in Hold!Kind /\ (Session!Ask(c, kind) => Hold!Ask(c, kind))
           /\ Session!Select(c) => Hold!Select(c)
           /\ Session!Selected(c) => Hold!Selected(c)
           /\ Session!Confirm(c) => Hold!Confirm(c)
           /\ Session!Created(c) => Hold!Created(c)
           /\ Session!Opened(c) => Hold!Opened(c)
           /\ Session!Maintained(c) => Hold!Maintained(c)
           /\ Session!Repaired(c) => Hold!Repaired(c)
<1>1. \A kind \in Session!Kind :
          kind \in Hold!Kind /\ (Session!Ask(c, kind) => Hold!Ask(c, kind))
  BY DEF Session!Ask, Hold!Ask, Session!Kind, Hold!Kind, Session!Idle, Hold!Idle,
         Session!KeepOpen, Hold!KeepOpen, Session!flags, Hold!flags, Session!bridge,
         Hold!bridge
<1>2. Session!Maintain(c) => Hold!Maintain(c)
  BY DEF Session!Maintain, Hold!Maintain, Session!Maintainable, Hold!Maintainable,
         Session!KeepOpen, Hold!KeepOpen, Session!bridge, Hold!bridge, Session!To,
         Hold!To, Session!Done, Hold!Done, Session!Idle, Hold!Idle
<1>3. ASSUME NEW phase PROVE Session!Enter(c, phase) => Hold!Enter(c, phase)
  BY DEF Session!Enter, Hold!Enter, Session!Idle, Hold!Idle, Session!CloseKernel,
         Hold!CloseKernel, Session!CloseBridge, Hold!CloseBridge, Session!KeepOpen,
         Hold!KeepOpen, Session!flags, Hold!flags, Session!bridge, Hold!bridge,
         Session!To, Hold!To, Session!Done, Hold!Done
<1>4. /\ Session!Select(c) => Hold!Select(c)
      /\ Session!Selected(c) => Hold!Selected(c)
      /\ Session!Confirm(c) => Hold!Confirm(c)
  BY <1>2, <1>3 DEF Session!Select, Hold!Select, Session!Selected, Hold!Selected, Session!Confirm, Hold!Confirm, Session!SameSession,
         Hold!SameSession, Session!KeepOpen, Hold!KeepOpen, Session!flags, Hold!flags,
         Session!bridge, Hold!bridge, Session!To, Hold!To, Session!Done, Hold!Done,
         Session!Idle, Hold!Idle
<1>5. /\ Session!Created(c) => Hold!Created(c)
      /\ Session!Opened(c) => Hold!Opened(c)
  BY DEF Session!Created, Hold!Created, Session!Opened, Hold!Opened, Session!SameSession,
         Hold!SameSession, Session!StillWanted, Hold!StillWanted, Session!Idle, Hold!Idle,
         Session!CloseKernel, Hold!CloseKernel, Session!CloseBridge, Hold!CloseBridge,
         Session!KeepOpen, Hold!KeepOpen, Session!flags, Hold!flags, Session!bridge,
         Hold!bridge, Session!To, Hold!To, Session!Done, Hold!Done
<1>6. /\ Session!Maintained(c) => Hold!Maintained(c)
      /\ Session!Repaired(c) => Hold!Repaired(c)
  BY DEF Session!Maintained, Hold!Maintained, Session!Repaired, Hold!Repaired,
         Session!KeepOpen, Hold!KeepOpen, Session!bridge, Hold!bridge, Session!Done,
         Hold!Done, Session!Idle, Hold!Idle
<1> QED
  BY <1>1, <1>4, <1>5, <1>6

LEMMA SameBridge ==
    /\ Session!CloseResources => Hold!CloseResources
    /\ Session!Dispose => Hold!Dispose
    /\ Session!Enable => Hold!Enable
    /\ Session!Listen => Hold!Listen
    /\ Session!Revoke => Hold!Revoke
    /\ Session!Expire => Hold!Expire
    /\ \A u \in Upload :
          /\ Session!BeginUpload(u) => Hold!BeginUpload(u)
          /\ Session!EndUpload(u) => Hold!EndUpload(u)
<1>1. /\ Session!CloseResources => Hold!CloseResources
      /\ Session!Dispose => Hold!Dispose
  BY DEF Session!CloseResources, Hold!CloseResources, Session!Dispose, Hold!Dispose,
         Session!CloseKernel, Hold!CloseKernel, Session!CloseBridge, Hold!CloseBridge,
         Session!flags, Hold!flags
<1>2. /\ Session!Enable => Hold!Enable
      /\ Session!Listen => Hold!Listen
      /\ Session!Revoke => Hold!Revoke
      /\ Session!Expire => Hold!Expire
  BY DEF Session!Enable, Hold!Enable, Session!Listen, Hold!Listen, Session!Unrevoked,
         Hold!Unrevoked, Session!Revoke, Hold!Revoke, Session!Expire, Hold!Expire,
         Session!CloseBridge, Hold!CloseBridge, Session!flags, Hold!flags
<1>3. \A u \in Upload :
          /\ Session!BeginUpload(u) => Hold!BeginUpload(u)
          /\ Session!EndUpload(u) => Hold!EndUpload(u)
  BY DEF Session!BeginUpload, Hold!BeginUpload, Session!EndUpload, Hold!EndUpload,
         Session!Accepts, Hold!Accepts, Session!flags, Hold!flags
<1> QED
  BY <1>1, <1>2, <1>3

\* A behaviour of the two side by side is a behaviour of each.
THEOREM OfEachPart == DesktopSpec => Spec /\ Hold!Spec
<1>1. DesktopInit => Init /\ Hold!Init
  BY SameInit DEF DesktopInit
<1>2. Session!Next => Hold!Next
  BY SameCalls, SameBridge DEF Session!Next, Hold!Next
<1>3. [DesktopNext]_<<part, vars, sessionVars>> => [Next]_vars
  BY DEF DesktopNext
<1>4. [DesktopNext]_<<part, vars, sessionVars>> => [Hold!Next]_(Hold!vars)
  <2>1. UNCHANGED sessionVars => UNCHANGED Hold!vars
    BY DEF sessionVars, Hold!vars, Hold!flags, Hold!bridge
  <2> QED
    BY <1>2, <2>1 DEF DesktopNext
<1> QED
  BY <1>1, <1>3, <1>4, PTL DEF DesktopSpec, Spec, Hold!Spec

(* A project's files are in one hand, and a closed window opens none.      *)
THEOREM DesktopOneOwner == DesktopSpec => []OneOwner
<1>1. Hold!Holders = Session!Holders
  BY DEF Session!Holders, Hold!Holders, Session!Files, Hold!Files
<1>2. Hold!Cardinality(Hold!Holders) = Session!Cardinality(Session!Holders)
  BY <1>1 DEF Session!Cardinality, Hold!Cardinality
<1>3. Hold!OneOwner => OneOwner
  BY <1>2 DEF OneOwner, Session!OneOwner, Hold!OneOwner
<1> QED
  BY <1>3, OfEachPart, Hold!OneOwnerTheorem, PTL

(* A draft is taken in only under the grant in force, into its session.    *)
THEOREM DesktopDraftsUnderGrant == DesktopSpec => DraftsUnderGrant
<1> DEFINE Under == \A d \in drafts' \ drafts : d.grant \notin ended /\ d.into = d.grant.session
<1>1. [Under]_(Hold!vars) => [Under]_(Session!vars)
  BY DEF Hold!vars, Session!vars, Hold!flags, Session!flags, Hold!bridge, Session!bridge
<1> QED
  BY <1>1, OfEachPart, Hold!DraftsUnderGrantTheorem, PTL
  DEF DraftsUnderGrant, Session!DraftsUnderGrant, Hold!DraftsUnderGrant
=============================================================================
