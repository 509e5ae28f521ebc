------------------------- MODULE SessionStoreProofs -------------------------
(***************************************************************************)
(* SessionStore for every set of mutations, fields and edits: the types,   *)
(* that a deleted session is not brought back, that an edit of the header  *)
(* is kept, and that the store implements SessionFile.  The second needs   *)
(* that a write is only ever in flight for a session that exists, since a  *)
(* write makes the directory it needs; the last two need that there is one *)
(* write at most, and that it is that of the first mutation of the chain.  *)
(* Then what is kept in the files of sessions: the sessions of a folder    *)
(* that moves (WorkspaceFolder) and the words of a model (ModelTurns).     *)
(***************************************************************************)
EXTENDS SessionStore, WorkspaceFolder, ModelTurns, PicksProofs, FiniteSetTheorems, TLAPS

WritesHaveFile == file = NoSnapshot => writes = <<>>
StepsHaveWrite == step # "mkdir" => writes # <<>>

Inv == TypeOK /\ WritesHaveFile /\ StepsHaveWrite

Snapshot == Queue!Snapshot
Write == Queue!Write

LEMMA SnapshotIsFile == NoSnapshot \notin Snapshot
BY StoreAssumption DEF Snapshot, Queue!Snapshot

LEMMA QueueTypes ==
  ASSUME TypeOK
  PROVE  /\ file \in Snapshot \cup {NoSnapshot} /\ pending \in Snapshot \cup {NoSnapshot}
         /\ writes \in Seq(Write) /\ step \in Queue!Step /\ sig \in Meta \cup {NoMeta}
         /\ failed \in BOOLEAN
         /\ result \in [Op -> {"none", "waiting", "ok", "failed"}]
BY DEF TypeOK, Queue!QueueTypeOK, Snapshot, Write

LEMMA MutatedType ==
  ASSUME TypeOK, NEW o \in Op, NEW s \in Snapshot PROVE Mutated(o, s) \in Snapshot
<1>1. op[o].field \in Field \cup {NoField} /\ op[o].value \in BOOLEAN
  BY DEF TypeOK
<1>2. s.meta \in Meta /\ s.body \in Seq(Op) /\ s = [meta |-> s.meta, body |-> s.body]
  BY DEF Snapshot, Queue!Snapshot
<1>3. CASE op[o].field = NoField
  <2>1. Append(s.body, o) \in Seq(Op)
    BY <1>2
  <2>2. Mutated(o, s) = [meta |-> s.meta, body |-> Append(s.body, o)]
    BY <1>2, <1>3 DEF Mutated
  <2>3. QED
    BY <1>2, <2>1, <2>2 DEF Snapshot, Queue!Snapshot
<1>4. CASE op[o].field # NoField
  <2>1. [s.meta EXCEPT ![op[o].field] = op[o].value] \in Meta
    BY <1>1, <1>2, <1>4 DEF Meta
  <2>2. Mutated(o, s) = [meta |-> [s.meta EXCEPT ![op[o].field] = op[o].value], body |-> s.body]
    BY <1>2, <1>4 DEF Mutated
  <2>3. QED
    BY <1>2, <2>1, <2>2 DEF Snapshot, Queue!Snapshot
<1>5. QED
  BY <1>3, <1>4

LEMMA BeginKeeps ==
  ASSUME Inv, NEW o \in Op, Begin(o) PROVE Inv'
<1>1. TypeOK /\ file \in Snapshot
  BY QueueTypes DEF Inv, Begin
<1>2. [snap |-> Mutated(o, file), waiters |-> {o}] \in Write
  BY <1>1, MutatedType DEF Write, Queue!Write, Snapshot
<1>3. writes' = Append(writes, [snap |-> Mutated(o, file), waiters |-> {o}])
  BY DEF Begin, Queue!Save, Queue!Started
<1>4. writes' \in Seq(Write) /\ writes' # <<>>
  BY <1>1, <1>2, <1>3, QueueTypes
<1>5. Queue!QueueTypeOK'
  BY <1>1, <1>4, QueueTypes
     DEF Begin, Queue!Save, Queue!QueueTypeOK, Write, Snapshot
<1>6. op' \in [Op -> [pc : OpPc, field : Field \cup {NoField}, value : BOOLEAN, seen : 0..MaxEdits]]
  BY <1>1 DEF Begin, TypeOK, OpPc
<1>7. TypeOK'
  BY <1>1, <1>5, <1>6 DEF Begin, TypeOK
<1>8. WritesHaveFile' /\ StepsHaveWrite'
  BY <1>1, <1>4, SnapshotIsFile DEF Begin, Queue!Save, WritesHaveFile, StepsHaveWrite
<1>9. QED
  BY <1>7, <1>8 DEF Inv

\* The other steps of a mutation leave the queue alone.
LEMMA OpKeeps ==
  ASSUME Inv, NEW o \in Op,
         (\E f \in Field \cup {NoField}, v \in BOOLEAN : Call(o, f, v)) \/ CallRefused(o)
           \/ Gone(o) \/ Return(o)
  PROVE  Inv'
<1>1. TypeOK /\ chain \in Seq(Op) /\ edits \in 0..MaxEdits
  BY DEF Inv, TypeOK
<1>2. UNCHANGED <<file, pending, writes, step, sig, failed, result, removal, edits, compared>>
  BY DEF Call, CallRefused, Gone, Return
<1>3. Queue!QueueTypeOK'
  BY <1>1, <1>2 DEF TypeOK, Queue!QueueTypeOK
<1>4. op' \in [Op -> [pc : OpPc, field : Field \cup {NoField}, value : BOOLEAN, seen : 0..MaxEdits]]
  <2>1. ASSUME NEW f \in Field \cup {NoField}, NEW v \in BOOLEAN, Call(o, f, v)
        PROVE  op' \in [Op -> [pc : OpPc, field : Field \cup {NoField}, value : BOOLEAN, seen : 0..MaxEdits]]
    BY <1>1, <2>1 DEF Call, TypeOK, OpPc
  <2>2. CASE CallRefused(o) \/ Gone(o) \/ Return(o)
    <3>1. \E at \in OpPc : op' = [op EXCEPT ![o].pc = at]
      BY <2>2 DEF CallRefused, Gone, Return, Outcome, OpPc
    <3>2. QED
      BY <1>1, <3>1 DEF TypeOK
  <2>3. QED
    BY <2>1, <2>2
<1>5. chain' \in Seq(Op)
  <2>1. ASSUME NEW s \in Seq(Op) PROVE Append(s, o) \in Seq(Op)
    BY <2>1
  <2>2. chain # <<>> => Tail(chain) \in Seq(Op)
    BY <1>1
  <2>3. QED
    BY <1>1, <2>1, <2>2 DEF Call, CallRefused, Gone, Turn, Return
<1>6. TypeOK'
  BY <1>1, <1>2, <1>3, <1>4, <1>5 DEF TypeOK
<1>7. QED
  BY <1>2, <1>6 DEF Inv, WritesHaveFile, StepsHaveWrite

LEMMA SettledTypes ==
  ASSUME TypeOK, NEW ok \in BOOLEAN, writes # <<>>, Queue!Settled(ok)
  PROVE  /\ writes' \in Seq(Write) /\ step' = "mkdir" /\ failed' \in BOOLEAN
         /\ result' \in [Op -> {"none", "waiting", "ok", "failed"}]
<1>1. writes' \in Seq(Write)
  BY QueueTypes DEF Queue!Settled
<1>2. result' \in [Op -> {"none", "waiting", "ok", "failed"}]
  BY QueueTypes DEF Queue!Settled
<1>3. QED
  BY <1>1, <1>2 DEF Queue!Settled

\* Merging keeps the shape of the snapshot at the head of the chain.
LEMMA MergedTypes ==
  ASSUME TypeOK, writes # <<>>
  PROVE  [writes EXCEPT ![1].snap = Queue!Merged(@)] \in Seq(Write)
<1>1. writes \in Seq(Write) /\ writes[1] \in Write /\ file \in Snapshot \cup {NoSnapshot}
  BY QueueTypes
<1>2. writes[1].snap \in Snapshot /\ writes[1].waiters \in SUBSET Op
  BY <1>1 DEF Write, Queue!Write, Snapshot
<1>3. Queue!Merged(writes[1].snap) \in Snapshot
  BY <1>1, <1>2, SnapshotIsFile DEF Queue!Merged, Snapshot, Queue!Snapshot
<1>4. [writes[1] EXCEPT !.snap = Queue!Merged(@)] \in Write
  BY <1>1, <1>2, <1>3 DEF Write, Queue!Write, Snapshot
<1>5. QED
  BY <1>1, <1>4

LEMMA WriteKeeps ==
  ASSUME Inv, WriteStep PROVE Inv'
<1>1. TypeOK /\ UNCHANGED <<op, chain, removal, edits>>
  BY DEF Inv, WriteStep
<1>2. compared' \in 0..MaxEdits
  BY <1>1 DEF WriteStep, TypeOK
<1>3. SUFFICES Queue!QueueTypeOK' /\ WritesHaveFile' /\ StepsHaveWrite'
  BY <1>1, <1>2 DEF Inv, TypeOK
<1>4. /\ file \in Snapshot \cup {NoSnapshot} /\ pending \in Snapshot \cup {NoSnapshot}
      /\ writes \in Seq(Write) /\ step \in Queue!Step /\ sig \in Meta \cup {NoMeta}
      /\ failed \in BOOLEAN
      /\ result \in [Op -> {"none", "waiting", "ok", "failed"}]
  BY <1>1, QueueTypes
<1>5. CASE Queue!DirectoryMade
  <2>1. writes' \in Seq(Write)
    BY <1>1, <1>5, MergedTypes DEF Queue!DirectoryMade
  <2>2. writes' # <<>>
    BY <1>4, <1>5 DEF Queue!DirectoryMade
  <2>3. QED
    BY <1>4, <1>5, <2>1, <2>2
       DEF Queue!DirectoryMade, Queue!QueueTypeOK, Queue!Step, Snapshot, Write, Inv, WritesHaveFile, StepsHaveWrite
<1>6. CASE Queue!DirectoryFailed \/ Queue!Unlinked
  <2>1. writes # <<>> /\ UNCHANGED <<file, pending, sig>> /\ \E ok \in BOOLEAN : Queue!Settled(ok)
    BY <1>6 DEF Queue!DirectoryFailed, Queue!Unlinked, Inv, StepsHaveWrite
  <2>2. /\ writes' \in Seq(Write) /\ step' = "mkdir" /\ failed' \in BOOLEAN
        /\ result' \in [Op -> {"none", "waiting", "ok", "failed"}]
    BY <1>1, <2>1, SettledTypes
  <2>3. QED
    BY <1>4, <2>1, <2>2
       DEF Queue!QueueTypeOK, Queue!Step, Snapshot, Write, Inv, WritesHaveFile, StepsHaveWrite
<1>7. CASE Queue!TempWritten \/ Queue!WriteFailed
  BY <1>4, <1>7
     DEF Queue!TempWritten, Queue!WriteFailed, Queue!QueueTypeOK, Queue!Step, Snapshot, Write,
         Inv, WritesHaveFile, StepsHaveWrite
<1>8. CASE Queue!Renamed
  <2>1. writes # <<>> /\ file' = Head(writes).snap /\ sig' = Head(writes).snap.meta
    BY <1>8 DEF Queue!Renamed, Inv, StepsHaveWrite
  <2>2. Head(writes) \in Write
    BY <1>4, <2>1
  <2>3. Head(writes).snap \in Snapshot
    BY <2>2 DEF Write, Queue!Write, Snapshot
  <2>4. Head(writes).snap.meta \in Meta
    BY <2>3 DEF Snapshot, Queue!Snapshot
  <2>5. file' \in Snapshot /\ sig' \in Meta
    BY <2>1, <2>3, <2>4
  <2>6. QED
    BY <1>4, <1>8, <2>1, <2>5, SnapshotIsFile
       DEF Queue!Renamed, Queue!QueueTypeOK, Queue!Step, Snapshot, Write, WritesHaveFile, StepsHaveWrite
<1>9. QED
  BY <1>5, <1>6, <1>7, <1>8 DEF WriteStep, Queue!WriteStep

\* A deletion removes the file only when no write is in flight.
LEMMA RemoveKeeps ==
  ASSUME Inv, RemoveBegin \/ RemoveStep PROVE Inv'
<1>1. TypeOK /\ UNCHANGED <<op, chain, edits, compared, writes, result>>
  BY DEF Inv, RemoveBegin, RemoveStep, RemoveDrained, RemoveDone, RemoveFailed, Queue!Delete
<1>2. CASE RemoveBegin
  BY <1>1, <1>2 DEF RemoveBegin, Inv, TypeOK, Queue!QueueTypeOK, WritesHaveFile, StepsHaveWrite
<1>3. CASE RemoveDrained
  BY <1>1, <1>3
     DEF RemoveDrained, Queue!Cancel, Inv, TypeOK, Queue!QueueTypeOK, WritesHaveFile, StepsHaveWrite
<1>4. CASE RemoveDone
  BY <1>1, <1>4
     DEF RemoveDone, Queue!Delete, Queue!Cancel, Queue!RemoveDirectory, Queue!Step, Inv, TypeOK,
         Queue!QueueTypeOK, WritesHaveFile, StepsHaveWrite
<1>5. CASE RemoveFailed
  BY <1>1, <1>5
     DEF RemoveFailed, Queue!Cancel, Inv, TypeOK, Queue!QueueTypeOK, WritesHaveFile, StepsHaveWrite
<1>6. QED
  BY <1>2, <1>3, <1>4, <1>5 DEF RemoveStep

LEMMA EditKeeps ==
  ASSUME Inv, NEW m \in Meta, Edit(m) PROVE Inv'
<1>1. TypeOK /\ file \in Snapshot /\ edits \in 0..MaxEdits /\ edits < MaxEdits
  BY QueueTypes DEF Inv, Edit, TypeOK
<1>2. file' \in Snapshot
  BY <1>1 DEF Edit, Snapshot, Queue!Snapshot
<1>3. edits' \in 0..MaxEdits
  BY <1>1, StoreAssumption DEF Edit
<1>4. Queue!QueueTypeOK'
  BY <1>1, <1>2 DEF Edit, TypeOK, Queue!QueueTypeOK, Snapshot
<1>5. TypeOK'
  BY <1>1, <1>3, <1>4 DEF Edit, TypeOK
<1>6. WritesHaveFile' /\ StepsHaveWrite'
  BY <1>2, SnapshotIsFile DEF Edit, Inv, WritesHaveFile, StepsHaveWrite
<1>7. QED
  BY <1>5, <1>6 DEF Inv

LEMMA CrashKeeps ==
  ASSUME Inv, Crash PROVE Inv'
<1>1. TypeOK /\ <<>> \in Seq(Write) /\ <<>> \in Seq(Op)
  BY DEF Inv
<1>2. Queue!QueueTypeOK'
  BY <1>1 DEF Crash, Queue!Crash, TypeOK, Queue!QueueTypeOK, Queue!Step, Write
<1>3. op' \in [Op -> [pc : OpPc, field : Field \cup {NoField}, value : BOOLEAN, seen : 0..MaxEdits]]
  BY <1>1 DEF Crash, TypeOK, OpPc
<1>4. TypeOK'
  BY <1>1, <1>2, <1>3 DEF Crash, TypeOK
<1>5. QED
  BY <1>4 DEF Crash, Queue!Crash, Inv, WritesHaveFile, StepsHaveWrite

LEMMA InvInit == Init => Inv
<1> SUFFICES ASSUME Init PROVE Inv
  OBVIOUS
<1>1. <<>> \in Seq(Write) /\ <<>> \in Seq(Op) /\ 0 \in 0..MaxEdits
  BY StoreAssumption
<1>2. file \in Snapshot /\ sig \in Meta \cup {NoMeta}
  BY <1>1 DEF Init, Snapshot, Queue!Snapshot
<1>3. Queue!QueueTypeOK
  BY <1>1, <1>2 DEF Init, Queue!QueueInit, Queue!QueueTypeOK, Queue!Step, Snapshot, Write
<1>4. TypeOK
  BY <1>1, <1>3 DEF Init, TypeOK, OpPc
<1>5. QED
  BY <1>4 DEF Init, Queue!QueueInit, Inv, WritesHaveFile, StepsHaveWrite

LEMMA InvStep == Inv /\ [Next]_vars => Inv'
<1> SUFFICES ASSUME Inv, [Next]_vars PROVE Inv'
  OBVIOUS
<1>1. ASSUME NEW o \in Op, Begin(o) PROVE Inv'
  BY <1>1, BeginKeeps
<1>2. ASSUME NEW o \in Op,
             (\E f \in Field \cup {NoField}, v \in BOOLEAN : Call(o, f, v)) \/ CallRefused(o)
               \/ Gone(o) \/ Return(o)
      PROVE  Inv'
  BY <1>2, OpKeeps
<1>3. CASE RemoveBegin \/ RemoveStep
  BY <1>3, RemoveKeeps
<1>4. CASE WriteStep
  BY <1>4, WriteKeeps
<1>5. ASSUME NEW m \in Meta, Edit(m) PROVE Inv'
  BY <1>5, EditKeeps
<1>6. CASE Crash
  BY <1>6, CrashKeeps
<1>7. CASE UNCHANGED vars
  BY <1>7 DEF vars, Inv, TypeOK, Queue!QueueTypeOK, WritesHaveFile, StepsHaveWrite
<1>8. QED
  BY <1>1, <1>2, <1>3, <1>4, <1>5, <1>6, <1>7 DEF Next, OpStep

LEMMA InvCorrect == Spec => []Inv
BY InvInit, InvStep, PTL DEF Spec

\* The store and its queue keep their types.
THEOREM StoreTypeCorrect == Spec => []TypeOK
<1>1. Inv => TypeOK
  BY DEF Inv
<1>2. QED
  BY <1>1, InvCorrect, PTL

\* Only a rename brings a file into being, and it needs a write in flight.
LEMMA GoneStep == Inv /\ [Next]_vars => (file = NoSnapshot => file' = NoSnapshot)
<1> SUFFICES ASSUME Inv, [Next]_vars, file = NoSnapshot PROVE file' = NoSnapshot
  OBVIOUS
<1>1. step = "mkdir" /\ writes = <<>>
  BY DEF Inv, WritesHaveFile, StepsHaveWrite
<1>2. CASE WriteStep
  BY <1>1, <1>2 DEF WriteStep, Queue!WriteStep, Queue!DirectoryMade, Queue!DirectoryFailed,
     Queue!TempWritten, Queue!WriteFailed, Queue!Renamed, Queue!Unlinked
<1>3. CASE RemoveBegin \/ RemoveStep
  BY <1>3 DEF RemoveBegin, RemoveStep, RemoveDrained, RemoveDone, RemoveFailed, Queue!Cancel,
     Queue!Delete, Queue!RemoveDirectory
<1>4. ASSUME NEW o \in Op, (\E f \in Field \cup {NoField}, v \in BOOLEAN : Call(o, f, v))
        \/ CallRefused(o) \/ OpStep(o)
      PROVE  file' = NoSnapshot
  BY <1>4 DEF Call, CallRefused, OpStep, Begin, Queue!Save, Gone, Return
<1>5. CASE (\E m \in Meta : Edit(m)) \/ Crash \/ UNCHANGED vars
  BY <1>5 DEF Edit, Crash, Queue!Crash, vars
<1>6. QED
  BY <1>2, <1>3, <1>4, <1>5 DEF Next

\* No write under way and no queued mutation brings a deleted session back.
THEOREM DeletedStaysDeleted == Spec => NeverRevived
BY InvCorrect, GoneStep, PTL DEF Spec, NeverRevived

-----------------------------------------------------------------------------
(* The store acts as one atomic file *)

\* The mutations in progress are in the chain, once each, and only the first
\* has begun; a deletion that goes on has waited for all of them.
Chained ==
  /\ \A i, j \in 1 .. Len(chain) : chain[i] = chain[j] => i = j
  /\ \A o \in Op : InProgress(o) <=> \E i \in 1 .. Len(chain) : chain[i] = o
  /\ \A o \in Op : op[o].pc = "saving" => chain # <<>> /\ chain[1] = o
  /\ removal = "waiting" => chain = <<>>

\* The one write in flight is that of the first mutation, which waits for it.
Underway ==
  /\ writes # <<>> =>
       /\ Len(writes) = 1 /\ chain # <<>>
       /\ op[chain[1]].pc = "saving" /\ result[chain[1]] = "waiting"
       /\ writes[1].waiters = {chain[1]}
  /\ \A o \in Op : op[o].pc = "saving" =>
       /\ file # NoSnapshot
       /\ result[o] # "none"
       /\ result[o] = "waiting" => writes # <<>>

\* What is going to be renamed over the file is the file with the first
\* mutation applied, in its metadata too as long as nobody edited them.
Faithful ==
  /\ edits = 0 /\ file # NoSnapshot /\ sig # NoMeta => file.meta = sig
  /\ writes # <<>> /\ step \in {"mkdir", "temp", "rename"} =>
       /\ writes[1].snap.body = Mutated(chain[1], file).body
       /\ edits = 0 => writes[1].snap = Mutated(chain[1], file)

\* A header that was compared after the last edit, and that differed from
\* what this process wrote, is in the snapshot.
HeaderKept ==
  /\ compared <= edits
  /\ step \in {"temp", "rename"} /\ compared = edits /\ sig # NoMeta /\ file.meta # sig =>
       writes[1].snap.meta = file.meta

FileInv == Inv /\ Chained /\ Underway /\ Faithful /\ HeaderKept

LEMMA OpTypes ==
  ASSUME TypeOK
  PROVE  /\ op \in [Op -> [pc : OpPc, field : Field \cup {NoField}, value : BOOLEAN, seen : 0..MaxEdits]]
         /\ chain \in Seq(Op)
         /\ edits \in Nat /\ compared \in Nat
BY StoreAssumption DEF TypeOK

LEMMA TailOf ==
  ASSUME NEW S, NEW s \in Seq(S), s # <<>>
  PROVE  /\ Tail(s) \in Seq(S)
         /\ 1 \in 1 .. Len(s) /\ Head(s) = s[1]
         /\ \A i \in 1 .. Len(s) : i = 1 \/ (i - 1 \in 1 .. Len(Tail(s)) /\ Tail(s)[i - 1] = s[i])
         /\ \A i \in 1 .. Len(Tail(s)) : i + 1 \in 1 .. Len(s) /\ Tail(s)[i] = s[i + 1]
OBVIOUS

LEMMA CallChains ==
  ASSUME FileInv, NEW o \in Op, NEW f \in Field \cup {NoField}, NEW v \in BOOLEAN, Call(o, f, v)
  PROVE  Chained'
<1>1. /\ op \in [Op -> [pc : OpPc, field : Field \cup {NoField}, value : BOOLEAN, seen : 0..MaxEdits]]
      /\ chain \in Seq(Op)
  BY OpTypes DEF FileInv, Inv
<1>2. \A p \in Op : op'[p] = IF p = o THEN [pc |-> "queued", field |-> f, value |-> v, seen |-> edits] ELSE op[p]
  BY <1>1 DEF Call
<1>3. op[o].pc = "new" /\ removal = "none" /\ removal' = removal
  BY DEF Call
<1>4. /\ Len(chain') = Len(chain) + 1 /\ chain'[Len(chain) + 1] = o
      /\ \A i \in 1 .. Len(chain) : chain'[i] = chain[i]
  BY <1>1 DEF Call
<1>5. Len(chain) \in Nat
  BY <1>1
<1>6. \A i \in 1 .. Len(chain) : chain[i] # o
  BY <1>3 DEF FileInv, Chained, InProgress
<1>7. \A i, j \in 1 .. Len(chain') : chain'[i] = chain'[j] => i = j
  <2>1. \A i \in 1 .. Len(chain') : i \in 1 .. Len(chain) \/ i = Len(chain) + 1
    BY <1>4, <1>5
  <2> QED BY <1>4, <1>6, <2>1 DEF FileInv, Chained
<1>8. \A p \in Op : InProgress(p)' <=> \E i \in 1 .. Len(chain') : chain'[i] = p
  <2>1. \A i \in 1 .. Len(chain') : i \in 1 .. Len(chain) \/ i = Len(chain) + 1
    BY <1>4, <1>5
  <2>2. \A i \in 1 .. Len(chain) : i \in 1 .. Len(chain')
    BY <1>4, <1>5
  <2>3. Len(chain) + 1 \in 1 .. Len(chain')
    BY <1>4, <1>5
  <2>4. \A p \in Op : (\E i \in 1 .. Len(chain') : chain'[i] = p) <=> (p = o \/ \E i \in 1 .. Len(chain) : chain[i] = p)
    BY <1>4, <2>1, <2>2, <2>3
  <2>5. \A p \in Op : InProgress(p)' <=> (p = o \/ InProgress(p))
    BY <1>2 DEF InProgress
  <2> QED BY <2>4, <2>5 DEF FileInv, Chained
<1>9. \A p \in Op : op'[p].pc = "saving" => chain' # <<>> /\ chain'[1] = p
  <2>1. \A p \in Op : op'[p].pc = "saving" => chain # <<>> /\ chain[1] = p
    BY <1>2 DEF FileInv, Chained
  <2>2. chain # <<>> => chain' # <<>> /\ chain'[1] = chain[1]
    BY <1>1, <1>4, <1>5
  <2> QED BY <2>1, <2>2
<1> QED BY <1>3, <1>7, <1>8, <1>9 DEF Chained

\* The first mutation of the chain is answered.
LEMMA AnswerChains ==
  ASSUME FileInv, NEW o \in Op, Gone(o) \/ Return(o) PROVE Chained'
<1>1. /\ op \in [Op -> [pc : OpPc, field : Field \cup {NoField}, value : BOOLEAN, seen : 0..MaxEdits]]
      /\ chain \in Seq(Op)
  BY OpTypes DEF FileInv, Inv
<1>2. chain # <<>> /\ chain' = Tail(chain) /\ removal' = removal
  BY DEF Gone, Turn, Return
<1>3. chain[1] = o
  BY <1>1, <1>2, TailOf DEF Gone, Turn, Return, FileInv, Chained
<1>4. PICK at \in {"gone", "done", "failed"} : op' = [op EXCEPT ![o].pc = at]
  BY DEF Gone, Return, Outcome
<1>5. \A p \in Op : op'[p].pc = IF p = o THEN at ELSE op[p].pc
  BY <1>1, <1>4
<1>6. /\ 1 \in 1 .. Len(chain)
      /\ \A i \in 1 .. Len(chain) : i = 1 \/ (i - 1 \in 1 .. Len(chain') /\ chain'[i - 1] = chain[i])
      /\ \A i \in 1 .. Len(chain') : i + 1 \in 1 .. Len(chain) /\ chain'[i] = chain[i + 1]
  BY <1>1, <1>2, TailOf
<1>7. \A i, j \in 1 .. Len(chain') : chain'[i] = chain'[j] => i = j
  <2>1. \A i, j \in 1 .. Len(chain') : chain'[i] = chain'[j] => i + 1 = j + 1
    BY <1>6 DEF FileInv, Chained
  <2>2. \A i, j \in 1 .. Len(chain') : i + 1 = j + 1 => i = j
    OBVIOUS
  <2> QED BY <2>1, <2>2
<1>8. \A i \in 1 .. Len(chain') : chain'[i] # o
  <2>1. \A i \in 1 .. Len(chain') : i + 1 # 1
    OBVIOUS
  <2> QED BY <1>3, <1>6, <2>1 DEF FileInv, Chained
<1>9. \A p \in Op : InProgress(p)' <=> \E i \in 1 .. Len(chain') : chain'[i] = p
  <2>1. \A p \in Op : InProgress(p)' <=> (p # o /\ InProgress(p))
    BY <1>4, <1>5 DEF InProgress
  <2>2. \A p \in Op : p # o => ((\E i \in 1 .. Len(chain') : chain'[i] = p) <=> \E i \in 1 .. Len(chain) : chain[i] = p)
    <3>1. ASSUME NEW p \in Op, NEW i \in 1 .. Len(chain'), chain'[i] = p PROVE \E j \in 1 .. Len(chain) : chain[j] = p
      BY <1>6, <3>1
    <3>2. ASSUME NEW p \in Op, p # o, NEW i \in 1 .. Len(chain), chain[i] = p PROVE \E j \in 1 .. Len(chain') : chain'[j] = p
      BY <1>3, <1>6, <3>2
    <3> QED BY <3>1, <3>2
  <2> QED BY <1>8, <2>1, <2>2 DEF FileInv, Chained
<1>10. \A p \in Op : op'[p].pc # "saving"
  BY <1>3, <1>4, <1>5 DEF FileInv, Chained
<1>11. removal = "waiting" => chain' = <<>>
  BY <1>2 DEF FileInv, Chained
<1> QED BY <1>2, <1>7, <1>9, <1>10, <1>11 DEF Chained

LEMMA ChainedKept ==
  ASSUME FileInv, [Next]_vars PROVE Chained'
<1>1. /\ op \in [Op -> [pc : OpPc, field : Field \cup {NoField}, value : BOOLEAN, seen : 0..MaxEdits]]
      /\ chain \in Seq(Op)
  BY OpTypes DEF FileInv, Inv
<1>2. ASSUME NEW o \in Op, CallRefused(o) PROVE Chained'
  <2>1. \A p \in Op : op'[p].pc = IF p = o THEN "refused" ELSE op[p].pc
    BY <1>1, <1>2 DEF CallRefused
  <2>2. \A p \in Op : InProgress(p)' <=> InProgress(p)
    BY <1>2, <2>1 DEF InProgress, CallRefused
  <2>3. chain' = chain /\ removal' = removal
    BY <1>2 DEF CallRefused
  <2> QED BY <2>1, <2>2, <2>3 DEF FileInv, Chained
<1>3. ASSUME NEW o \in Op, Begin(o) PROVE Chained'
  <2>1. \A p \in Op : op'[p].pc = IF p = o THEN "saving" ELSE op[p].pc
    BY <1>1, <1>3 DEF Begin
  <2>2. \A p \in Op : InProgress(p)' <=> InProgress(p)
    BY <1>3, <2>1 DEF InProgress, Begin, Turn
  <2>3. chain' = chain /\ removal' = removal
    BY <1>3 DEF Begin
  <2>4. chain # <<>> /\ chain[1] = o
    BY <1>1, <1>3, TailOf DEF Begin, Turn
  <2> QED BY <2>1, <2>2, <2>3, <2>4 DEF FileInv, Chained
<1>4. CASE RemoveBegin \/ RemoveStep
  <2>1. op' = op /\ chain' = chain
    BY <1>4 DEF RemoveBegin, RemoveStep, RemoveDrained, RemoveDone, RemoveFailed
  <2>2. removal' = "waiting" => chain = <<>>
    BY <1>4 DEF RemoveBegin, RemoveStep, RemoveDrained, RemoveDone, RemoveFailed, Drained
  <2> QED BY <2>1, <2>2 DEF FileInv, Chained, InProgress
<1>5. CASE WriteStep \/ (\E m \in Meta : Edit(m)) \/ UNCHANGED vars
  <2>1. op' = op /\ chain' = chain /\ removal' = removal
    BY <1>5 DEF WriteStep, Edit, vars
  <2> QED BY <2>1 DEF FileInv, Chained, InProgress
<1>6. CASE Crash
  <2>1. \A p \in Op : op'[p] = IF InProgress(p) THEN [op[p] EXCEPT !.pc = "lost"] ELSE op[p]
    BY <1>6 DEF Crash
  <2>2. \A p \in Op : ~InProgress(p)'
    BY <1>1, <2>1 DEF InProgress
  <2>3. chain' = <<>> /\ removal' = "none"
    BY <1>6 DEF Crash
  <2>4. 1 .. Len(chain') = {}
    BY <2>3
  <2> QED BY <2>2, <2>3, <2>4 DEF Chained, InProgress
<1> QED BY <1>2, <1>3, <1>4, <1>5, <1>6, CallChains, AnswerChains DEF Next, OpStep

LEMMA Single ==
  ASSUME NEW s \in Seq(Write), Len(s) = 1
  PROVE  s # <<>> /\ Head(s) = s[1] /\ Tail(s) = <<>> /\ s[1] \in Write
<1>1. Len(<<>>) = 0 /\ \A w \in Seq(Write) : Len(w) = 0 => w = <<>>
  OBVIOUS
<1>2. s # <<>>
  <2>1. CASE s = <<>>
    <3>1. Len(s) = Len(<<>>)
      BY <2>1
    <3> QED BY <1>1, <3>1
  <2> QED BY <2>1
<1>3. Tail(s) = <<>>
  <2>1. Tail(s) \in Seq(Write) /\ Len(Tail(s)) = 1 - 1
    BY <1>2
  <2>2. Len(Tail(s)) = 0
    BY <2>1
  <2> QED BY <1>1, <2>1, <2>2
<1>4. Head(s) = s[1] /\ s[1] \in Write
  BY <1>2
<1> QED BY <1>2, <1>3, <1>4

LEMMA FirstChanged ==
  ASSUME NEW S, NEW s \in Seq(S), s # <<>>, NEW x \in S
  PROVE  LET t == [s EXCEPT ![1] = x]
         IN  t \in Seq(S) /\ Len(t) = Len(s) /\ t # <<>> /\ Head(t) = x /\ t[1] = x
<1> DEFINE t == [s EXCEPT ![1] = x]
<1>1. t \in Seq(S) /\ Len(t) = Len(s) /\ Len(s) \in Nat /\ Len(s) > 0
  OBVIOUS
<1>2. t[1] = x /\ t # <<>>
  BY <1>1
<1> QED BY <1>1, <1>2

\* What is known while a write is in flight.
LEMMA OneWrite ==
  ASSUME FileInv, writes # <<>>
  PROVE  /\ Len(writes) = 1 /\ Head(writes) = writes[1] /\ Tail(writes) = <<>>
         /\ writes[1] \in Write /\ writes[1].snap \in Snapshot
         /\ file \in Snapshot
         /\ chain # <<>> /\ chain[1] \in Op
         /\ op[chain[1]].pc = "saving" /\ result[chain[1]] = "waiting"
         /\ writes[1].waiters = {chain[1]}
<1>1. writes \in Seq(Write) /\ file \in Snapshot \cup {NoSnapshot} /\ chain \in Seq(Op)
  BY QueueTypes, OpTypes DEF FileInv, Inv
<1>2. /\ Len(writes) = 1 /\ chain # <<>>
      /\ op[chain[1]].pc = "saving" /\ result[chain[1]] = "waiting"
      /\ writes[1].waiters = {chain[1]}
  BY DEF FileInv, Underway
<1>3. Head(writes) = writes[1] /\ Tail(writes) = <<>> /\ writes[1] \in Write
  BY <1>1, <1>2, Single
<1>4. writes[1].snap \in Snapshot
  BY <1>3 DEF Write, Queue!Write, Snapshot
<1>5. chain[1] \in Op
  BY <1>1, <1>2
<1>6. file # NoSnapshot
  BY DEF FileInv, Inv, WritesHaveFile
<1> QED BY <1>1, <1>2, <1>3, <1>4, <1>5, <1>6

\* A mutation that starts finds the queue empty: the one before it has settled.
LEMMA QueueIsFree ==
  ASSUME FileInv, NEW o \in Op, Turn(o)
  PROVE  /\ writes = <<>> /\ step = "mkdir" /\ chain # <<>> /\ chain[1] = o
         /\ \A p \in Op : op[p].pc # "saving"
<1>1. chain \in Seq(Op)
  BY OpTypes DEF FileInv, Inv
<1>2. chain # <<>> /\ chain[1] = o /\ op[o].pc = "queued"
  BY <1>1, TailOf DEF Turn
<1>3. writes = <<>> /\ \A p \in Op : op[p].pc # "saving"
  BY <1>2 DEF FileInv, Underway, Chained
<1> QED BY <1>2, <1>3 DEF FileInv, Inv, StepsHaveWrite

LEMMA ReturnIsFree ==
  ASSUME FileInv, NEW o \in Op, Return(o)
  PROVE  /\ writes = <<>> /\ step = "mkdir" /\ chain # <<>> /\ chain[1] = o
         /\ \A p \in Op : op[p].pc = "saving" => p = o
         /\ file # NoSnapshot /\ result[o] \in {"ok", "failed"}
<1>1. chain # <<>> /\ chain[1] = o /\ \A p \in Op : op[p].pc = "saving" => p = o
  BY DEF Return, FileInv, Chained
<1>2. writes = <<>>
  BY <1>1 DEF Return, FileInv, Underway
<1>3. file # NoSnapshot /\ result[o] \in {"ok", "failed"}
  BY QueueTypes DEF Return, FileInv, Underway, Inv
<1> QED BY <1>1, <1>2, <1>3 DEF FileInv, Inv, StepsHaveWrite

LEMMA BeginUnderway ==
  ASSUME FileInv, NEW o \in Op, Begin(o) PROVE Underway'
<1>1. Turn(o) /\ file # NoSnapshot /\ file' = file /\ chain' = chain
  BY DEF Begin, Queue!Save
<1>2. writes = <<>> /\ chain # <<>> /\ chain[1] = o /\ \A p \in Op : op[p].pc # "saving"
  BY <1>1, QueueIsFree
<1>3. op'[o].pc = "saving" /\ \A p \in Op : op'[p].pc = "saving" => p = o
  BY <1>2, OpTypes DEF Begin, FileInv, Inv
<1>4. result'[o] = "waiting"
  BY QueueTypes DEF Begin, Queue!Save, FileInv, Inv
<1>5. writes' = <<[snap |-> Mutated(o, file), waiters |-> {o}]>>
  BY <1>2 DEF Begin, Queue!Save, Queue!Started
<1>6. Len(writes') = 1 /\ writes' # <<>> /\ writes'[1].waiters = {o}
  BY <1>5
<1> QED BY <1>1, <1>2, <1>3, <1>4, <1>6 DEF Underway

LEMMA OpUnderway ==
  ASSUME FileInv, NEW o \in Op,
         (\E f \in Field \cup {NoField}, v \in BOOLEAN : Call(o, f, v)) \/ CallRefused(o)
           \/ Gone(o) \/ Return(o)
  PROVE  Underway'
<1>1. UNCHANGED <<file, writes, result>>
  BY DEF Call, CallRefused, Gone, Return
<1>2. CASE (\E f \in Field \cup {NoField}, v \in BOOLEAN : Call(o, f, v)) \/ CallRefused(o)
  <2>1. /\ op \in [Op -> [pc : OpPc, field : Field \cup {NoField}, value : BOOLEAN, seen : 0..MaxEdits]]
        /\ chain \in Seq(Op)
    BY OpTypes DEF FileInv, Inv
  <2>2. op[o].pc = "new" /\ op'[o].pc # "saving" /\ \A p \in Op : p # o => op'[p] = op[p]
    BY <1>2, <2>1 DEF Call, CallRefused
  <2>3. chain # <<>> => chain' # <<>> /\ chain'[1] = chain[1] /\ chain[1] \in Op
    <3>1. chain' = chain \/ chain' = Append(chain, o)
      BY <1>2 DEF Call, CallRefused
    <3> QED BY <2>1, <3>1
  <2> QED BY <1>1, <2>2, <2>3 DEF FileInv, Underway
<1>3. CASE Gone(o) \/ Return(o)
  <2>1. writes = <<>> /\ \A p \in Op : op[p].pc = "saving" => p = o
    BY <1>3, QueueIsFree, ReturnIsFree DEF Gone
  <2>2. \A p \in Op : op'[p].pc # "saving"
    BY <1>3, <2>1, OpTypes DEF Gone, Return, Outcome, FileInv, Inv
  <2> QED BY <1>1, <2>1, <2>2 DEF Underway
<1> QED BY <1>2, <1>3

\* mkdir compares the header and merges it into the snapshot.
LEMMA MadeFirst ==
  ASSUME FileInv, Queue!DirectoryMade
  PROVE  /\ Len(writes') = 1 /\ writes' # <<>> /\ Head(writes') = writes'[1]
         /\ writes'[1].waiters = writes[1].waiters
         /\ writes'[1].snap = Queue!Merged(writes[1].snap)
<1>1. writes # <<>> /\ writes' = [writes EXCEPT ![1].snap = Queue!Merged(@)]
  BY DEF Queue!DirectoryMade
<1>2. writes \in Seq(Write) /\ Len(writes) = 1 /\ writes[1] \in Write /\ writes[1].snap \in Snapshot
  BY <1>1, OneWrite, QueueTypes DEF FileInv, Inv
<1> DEFINE w == [snap |-> Queue!Merged(writes[1].snap), waiters |-> writes[1].waiters]
<1>3. [writes[1] EXCEPT !.snap = Queue!Merged(@)] = w
  BY <1>2 DEF Write, Queue!Write
<1>4. w \in Write
  <2>1. Queue!Merged(writes[1].snap) \in Snapshot
    BY <1>2, SnapshotIsFile, QueueTypes DEF Queue!Merged, Snapshot, Queue!Snapshot, FileInv, Inv
  <2> QED BY <1>2, <2>1 DEF Write, Queue!Write, Snapshot
<1>5. writes' = [writes EXCEPT ![1] = w]
  BY <1>1, <1>3
<1>6. Len(writes') = 1 /\ writes' # <<>> /\ Head(writes') = w /\ writes'[1] = w
  BY <1>1, <1>2, <1>4, <1>5, FirstChanged
<1> QED BY <1>6

LEMMA WriteUnderway ==
  ASSUME FileInv, WriteStep PROVE Underway'
<1>1. UNCHANGED <<op, chain>>
  BY DEF WriteStep
<1>2. writes # <<>>
  BY DEF WriteStep, Queue!WriteStep, Queue!DirectoryMade, Queue!DirectoryFailed, Queue!TempWritten,
     Queue!WriteFailed, Queue!Renamed, Queue!Unlinked, FileInv, Inv, StepsHaveWrite
<1>3. CASE Queue!DirectoryMade
  <2>1. UNCHANGED <<file, result>>
    BY <1>3 DEF Queue!DirectoryMade
  <2>2. Len(writes') = 1 /\ writes' # <<>> /\ writes'[1].waiters = writes[1].waiters
    BY <1>2, <1>3, MadeFirst
  <2> QED BY <1>1, <1>2, <2>1, <2>2 DEF FileInv, Underway
<1>4. CASE Queue!DirectoryFailed \/ Queue!Unlinked
  <2>1. writes' = Tail(writes) /\ file' = file
    BY <1>4 DEF Queue!DirectoryFailed, Queue!Unlinked, Queue!Settled
  <2>2. writes' = <<>>
    BY <1>2, <2>1, OneWrite
  <2>3. \A p \in Op : p \in Head(writes).waiters => result'[p] \in {"ok", "failed"}
    BY <1>4 DEF Queue!DirectoryFailed, Queue!Unlinked, Queue!Settled
  <2>4. \A p \in Op : op[p].pc = "saving" => p \in Head(writes).waiters
    BY <1>2, OneWrite DEF FileInv, Chained
  <2> QED BY <1>1, <2>1, <2>2, <2>3, <2>4 DEF FileInv, Underway
<1>5. CASE Queue!TempWritten \/ Queue!WriteFailed
  BY <1>1, <1>5 DEF Queue!TempWritten, Queue!WriteFailed, FileInv, Underway
<1>6. CASE Queue!Renamed
  <2>1. file' # NoSnapshot
    BY <1>2, <1>6, OneWrite, SnapshotIsFile DEF Queue!Renamed
  <2> QED BY <1>1, <1>6, <2>1 DEF Queue!Renamed, FileInv, Underway
<1> QED BY <1>3, <1>4, <1>5, <1>6 DEF WriteStep, Queue!WriteStep

LEMMA UnderwayKept ==
  ASSUME FileInv, [Next]_vars PROVE Underway'
<1>1. CASE RemoveBegin \/ RemoveStep
  <2>1. UNCHANGED <<op, chain, writes, result>>
    BY <1>1 DEF RemoveBegin, RemoveStep, RemoveDrained, RemoveDone, RemoveFailed, Queue!Delete
  <2>2. file' = file \/ removal = "waiting"
    BY <1>1 DEF RemoveBegin, RemoveStep, RemoveDrained, RemoveDone, RemoveFailed
  <2>3. removal = "waiting" => \A p \in Op : op[p].pc # "saving"
    BY DEF FileInv, Chained
  <2> QED BY <2>1, <2>2, <2>3 DEF FileInv, Underway
<1>2. ASSUME NEW m \in Meta, Edit(m) PROVE Underway'
  <2>1. file' # NoSnapshot
    <3>1. file \in Snapshot
      BY <1>2, QueueTypes DEF Edit, FileInv, Inv
    <3>2. file' \in Snapshot
      BY <1>2, <3>1 DEF Edit, Snapshot, Queue!Snapshot
    <3> QED BY <3>2, SnapshotIsFile
  <2> QED BY <1>2, <2>1 DEF Edit, FileInv, Underway
<1>3. CASE Crash
  <2>1. writes' = <<>> /\ \A p \in Op : op'[p].pc # "saving"
    BY <1>3, OpTypes DEF Crash, Queue!Crash, InProgress, FileInv, Inv
  <2> QED BY <2>1 DEF Underway
<1>4. CASE UNCHANGED vars
  BY <1>4 DEF vars, FileInv, Underway
<1> QED BY <1>1, <1>2, <1>3, <1>4, BeginUnderway, OpUnderway, WriteUnderway DEF Next, OpStep

\* The messages after a mutation do not depend on the metadata before it.
LEMMA MutatedBody ==
  ASSUME TypeOK, NEW o \in Op, NEW s \in Snapshot, NEW t \in Snapshot, s.body = t.body
  PROVE  Mutated(o, s).body = Mutated(o, t).body
<1>1. /\ s = [meta |-> s.meta, body |-> s.body] /\ t = [meta |-> t.meta, body |-> t.body]
  BY DEF Snapshot, Queue!Snapshot
<1>2. CASE op[o].field = NoField
  BY <1>1, <1>2 DEF Mutated
<1>3. CASE op[o].field # NoField
  BY <1>1, <1>3 DEF Mutated
<1> QED BY <1>2, <1>3

LEMMA MergedIs ==
  ASSUME TypeOK, NEW s \in Snapshot
  PROVE  /\ Queue!Merged(s).body = s.body
         /\ file = NoSnapshot \/ sig = NoMeta \/ file.meta = sig => Queue!Merged(s) = s
         /\ file # NoSnapshot /\ sig # NoMeta /\ file.meta # sig => Queue!Merged(s).meta = file.meta
<1>1. s = [meta |-> s.meta, body |-> s.body]
  BY DEF Snapshot, Queue!Snapshot
<1>2. CASE file # NoSnapshot /\ sig # NoMeta /\ file.meta # sig
  BY <1>1, <1>2 DEF Queue!Merged
<1>3. CASE ~(file # NoSnapshot /\ sig # NoMeta /\ file.meta # sig)
  BY <1>3 DEF Queue!Merged
<1> QED BY <1>2, <1>3

\* A deletion goes on only while no write is in flight.
LEMMA RemoveIsFree ==
  ASSUME FileInv, RemoveBegin \/ RemoveStep
  PROVE  /\ UNCHANGED <<op, chain, writes, edits, compared>>
         /\ \/ writes = <<>> /\ step = "mkdir" /\ step' = "mkdir"
            \/ UNCHANGED <<file, step, sig>>
         /\ file' = NoSnapshot \/ sig' = NoMeta \/ UNCHANGED <<file, sig>>
<1>1. CASE RemoveBegin
  BY <1>1 DEF RemoveBegin
<1>2. CASE RemoveStep
  <2>1. writes = <<>>
    BY <1>2, OneWrite DEF RemoveStep, RemoveDrained, Drained, RemoveDone, RemoveFailed
  <2>2. step = "mkdir"
    BY <2>1 DEF FileInv, Inv, StepsHaveWrite
  <2> QED
    BY <1>2, <2>1, <2>2
       DEF RemoveStep, RemoveDrained, RemoveDone, RemoveFailed, Queue!Cancel, Queue!Delete, Queue!RemoveDirectory
<1> QED BY <1>1, <1>2

LEMMA AppendFirst ==
  ASSUME NEW s \in Seq(Op), s # <<>>, NEW o \in Op PROVE Append(s, o)[1] = s[1]
<1>1. 1 \in 1 .. Len(s)
  OBVIOUS
<1> QED BY <1>1

LEMMA OpFaithful ==
  ASSUME FileInv, NEW o \in Op,
         (\E f \in Field \cup {NoField}, v \in BOOLEAN : Call(o, f, v)) \/ CallRefused(o) \/ OpStep(o)
  PROVE  Faithful' /\ HeaderKept'
<1>1. UNCHANGED <<file, step, sig, edits, compared>>
  BY DEF Call, CallRefused, OpStep, Begin, Queue!Save, Gone, Return
<1>2. /\ op \in [Op -> [pc : OpPc, field : Field \cup {NoField}, value : BOOLEAN, seen : 0..MaxEdits]]
      /\ chain \in Seq(Op)
  BY OpTypes DEF FileInv, Inv
<1>3. CASE (\E f \in Field \cup {NoField}, v \in BOOLEAN : Call(o, f, v)) \/ CallRefused(o)
  <2>1. op[o].pc = "new" /\ (\A p \in Op : p # o => op'[p] = op[p]) /\ writes' = writes
    BY <1>2, <1>3 DEF Call, CallRefused
  <2>2. writes # <<>> => chain'[1] = chain[1] /\ chain[1] \in Op /\ chain[1] # o
    <3>1. writes # <<>> => chain # <<>> /\ chain[1] \in Op /\ op[chain[1]].pc = "saving"
      BY OneWrite
    <3>2. chain' = chain \/ chain' = Append(chain, o)
      BY <1>3 DEF Call, CallRefused
    <3>3. chain # <<>> => chain'[1] = chain[1]
      <4>1. chain # <<>> => Append(chain, o)[1] = chain[1]
        BY <1>2, AppendFirst
      <4> QED BY <3>2, <4>1
    <3> QED BY <2>1, <3>1, <3>3
  <2>3. writes # <<>> => Mutated(chain[1], file)' = Mutated(chain[1], file)
    BY <1>1, <2>1, <2>2 DEF Mutated
  <2> QED BY <1>1, <2>1, <2>3 DEF FileInv, Faithful, HeaderKept
<1>4. CASE Begin(o)
  <2>1. writes = <<>> /\ step = "mkdir" /\ chain[1] = o /\ chain' = chain
    BY <1>4, QueueIsFree DEF Begin
  <2>2. writes' = <<[snap |-> Mutated(o, file), waiters |-> {o}]>>
    BY <1>4, <2>1 DEF Begin, Queue!Save, Queue!Started
  <2>3. writes'[1].snap = Mutated(o, file)
    BY <2>2
  <2>4. op'[o].field = op[o].field /\ op'[o].value = op[o].value
    BY <1>2, <1>4 DEF Begin
  <2>5. Mutated(chain[1], file)' = Mutated(o, file)
    BY <1>1, <2>1, <2>4 DEF Mutated
  <2>6. writes'[1].snap = Mutated(chain[1], file)'
    BY <2>3, <2>5
  <2> QED BY <1>1, <2>1, <2>6 DEF FileInv, Faithful, HeaderKept
<1>5. CASE Gone(o) \/ Return(o)
  <2>1. writes = <<>> /\ step = "mkdir"
    BY <1>5, QueueIsFree, ReturnIsFree DEF Gone
  <2>2. writes' = <<>>
    BY <1>5, <2>1 DEF Gone, Return
  <2> QED BY <1>1, <2>1, <2>2 DEF FileInv, Faithful, HeaderKept
<1> QED BY <1>3, <1>4, <1>5 DEF OpStep

LEMMA WriteFaithful ==
  ASSUME FileInv, WriteStep PROVE Faithful' /\ HeaderKept'
<1>1. UNCHANGED <<op, chain, edits>> /\ compared' = (IF step = "mkdir" /\ step' = "temp" THEN edits ELSE compared)
  BY DEF WriteStep
<1>2. writes # <<>>
  BY DEF WriteStep, Queue!WriteStep, Queue!DirectoryMade, Queue!DirectoryFailed, Queue!TempWritten,
     Queue!WriteFailed, Queue!Renamed, Queue!Unlinked, FileInv, Inv, StepsHaveWrite
<1>3. Head(writes) = writes[1] /\ Tail(writes) = <<>> /\ writes[1].snap \in Snapshot /\ file \in Snapshot
  BY <1>2, OneWrite
<1>4. compared' <= edits'
  BY <1>1, OpTypes DEF FileInv, Inv, HeaderKept
<1>5. CASE Queue!DirectoryMade
  <2>1. /\ step = "mkdir" /\ step' = "temp" /\ UNCHANGED <<file, sig>>
        /\ writes'[1].snap = Queue!Merged(writes[1].snap)
    BY <1>5, MadeFirst DEF Queue!DirectoryMade
  <2>2. Mutated(chain[1], file)' = Mutated(chain[1], file)
    BY <1>1, <2>1 DEF Mutated
  <2>3. file # NoSnapshot
    BY <1>3, SnapshotIsFile
  <2>4. writes'[1].snap.body = writes[1].snap.body
    BY <1>3, <2>1, MergedIs DEF FileInv, Inv
  <2>5. edits = 0 => writes'[1].snap = writes[1].snap
    BY <1>3, <2>1, <2>3, MergedIs DEF FileInv, Inv, Faithful
  <2>6. sig # NoMeta /\ file.meta # sig => writes'[1].snap.meta = file.meta
    BY <1>3, <2>1, <2>3, MergedIs DEF FileInv, Inv
  <2> QED BY <1>1, <1>2, <1>4, <2>1, <2>2, <2>4, <2>5, <2>6 DEF FileInv, Faithful, HeaderKept
<1>6. CASE Queue!DirectoryFailed \/ Queue!Unlinked
  <2>1. writes' = <<>> /\ step' = "mkdir" /\ UNCHANGED <<file, sig>>
    BY <1>3, <1>6 DEF Queue!DirectoryFailed, Queue!Unlinked, Queue!Settled
  <2> QED BY <1>1, <1>4, <2>1 DEF FileInv, Faithful, HeaderKept
<1>7. CASE Queue!TempWritten \/ Queue!WriteFailed
  <2>1. /\ UNCHANGED <<writes, file, sig>>
        /\ step' \in {"rename", "unwritten"} /\ (step' = "rename" => step = "temp")
    BY <1>7 DEF Queue!TempWritten, Queue!WriteFailed
  <2>2. Mutated(chain[1], file)' = Mutated(chain[1], file)
    BY <1>1, <2>1 DEF Mutated
  <2> QED BY <1>1, <1>2, <1>4, <2>1, <2>2 DEF FileInv, Faithful, HeaderKept
<1>8. CASE Queue!Renamed
  <2>1. step' = "renamed" /\ sig' = file'.meta
    BY <1>8 DEF Queue!Renamed
  <2> QED BY <1>4, <2>1 DEF Faithful, HeaderKept
<1> QED BY <1>5, <1>6, <1>7, <1>8 DEF WriteStep, Queue!WriteStep

LEMMA FaithfulKept ==
  ASSUME FileInv, [Next]_vars PROVE Faithful' /\ HeaderKept'
<1>1. CASE RemoveBegin \/ RemoveStep
  <2>1. /\ UNCHANGED <<op, chain, writes, edits, compared>>
        /\ \/ writes = <<>> /\ step = "mkdir" /\ step' = "mkdir"
           \/ UNCHANGED <<file, step, sig>>
        /\ file' = NoSnapshot \/ sig' = NoMeta \/ UNCHANGED <<file, sig>>
    BY <1>1, RemoveIsFree
  <2>2. CASE UNCHANGED <<file, step, sig>>
    <3>1. Mutated(chain[1], file)' = Mutated(chain[1], file)
      BY <2>1, <2>2 DEF Mutated
    <3> QED BY <2>1, <2>2, <3>1 DEF FileInv, Faithful, HeaderKept
  <2>3. CASE writes = <<>> /\ step = "mkdir" /\ step' = "mkdir"
    BY <2>1, <2>3 DEF FileInv, Faithful, HeaderKept
  <2> QED BY <2>1, <2>2, <2>3
<1>2. ASSUME NEW m \in Meta, Edit(m) PROVE Faithful' /\ HeaderKept'
  <2>1. /\ UNCHANGED <<op, chain, writes, step, sig, compared>> /\ edits' = edits + 1
        /\ file \in Snapshot /\ file' = [file EXCEPT !.meta = m]
    BY <1>2, QueueTypes DEF Edit, FileInv, Inv
  <2>2. compared <= edits /\ edits \in Nat /\ compared \in Nat
    BY OpTypes DEF FileInv, Inv, HeaderKept
  <2>3. compared' <= edits' /\ compared' # edits' /\ edits' # 0
    BY <2>1, <2>2
  <2>4. file' \in Snapshot /\ file'.body = file.body
    BY <2>1 DEF Snapshot, Queue!Snapshot
  <2>5. writes # <<>> => Mutated(chain[1], file)'.body = Mutated(chain[1], file).body
    <3>1. writes # <<>> => chain[1] \in Op
      BY OneWrite
    <3>2. writes # <<>> => Mutated(chain[1], file').body = Mutated(chain[1], file).body
      BY <2>1, <2>4, <3>1, MutatedBody DEF FileInv, Inv
    <3>3. Mutated(chain[1], file)' = Mutated(chain[1], file')
      BY <2>1 DEF Mutated
    <3> QED BY <3>2, <3>3
  <2> QED BY <2>1, <2>3, <2>5 DEF FileInv, Faithful, HeaderKept
<1>3. CASE Crash
  <2>1. writes' = <<>> /\ step' = "mkdir" /\ sig' = NoMeta /\ UNCHANGED <<edits, compared>>
    BY <1>3 DEF Crash, Queue!Crash
  <2> QED BY <2>1 DEF FileInv, Faithful, HeaderKept
<1>4. CASE UNCHANGED vars
  <2>1. UNCHANGED <<file, writes, step, sig, op, chain, edits, compared>>
    BY <1>4 DEF vars
  <2>2. Mutated(chain[1], file)' = Mutated(chain[1], file)
    BY <2>1 DEF Mutated
  <2> QED BY <2>1, <2>2 DEF FileInv, Faithful, HeaderKept
<1> QED BY <1>1, <1>2, <1>3, <1>4, OpFaithful, WriteFaithful DEF Next

LEMMA FileInvInit == Init => FileInv
<1> SUFFICES ASSUME Init PROVE FileInv
  OBVIOUS
<1>1. chain = <<>> /\ writes = <<>> /\ step = "mkdir" /\ removal = "none" /\ edits = 0 /\ compared = 0
  BY DEF Init, Queue!QueueInit
<1>2. \A o \in Op : op[o].pc = "new"
  <2>1. op = [o \in Op |-> [pc |-> "new", field |-> NoField, value |-> FALSE, seen |-> 0]]
    BY DEF Init
  <2>2. ASSUME NEW o \in Op PROVE op[o].pc = "new"
    BY <2>1
  <2> QED BY <2>2, Zenon
<1>3. 1 .. Len(chain) = {}
  BY <1>1
<1>4. Chained /\ Underway
  BY <1>1, <1>2, <1>3 DEF Chained, Underway, InProgress
<1>5. Faithful /\ HeaderKept
  BY <1>1 DEF Init, Faithful, HeaderKept
<1> QED BY <1>4, <1>5, InvInit DEF FileInv

LEMMA FileInvStep == FileInv /\ [Next]_vars => FileInv'
BY InvStep, ChainedKept, UnderwayKept, FaithfulKept DEF FileInv

LEMMA FileInvCorrect == Spec => []FileInv
BY FileInvInit, FileInvStep, PTL DEF Spec

\* The header that another program edited before it was compared is kept.
LEMMA AppendKeepsHeader ==
  FileInv /\ [Next]_vars =>
    (RenamesAppend /\ compared = edits /\ sig # NoMeta /\ file.meta # sig => file'.meta = file.meta)
<1> SUFFICES ASSUME FileInv, [Next]_vars, step = "rename", step' = "renamed",
                    compared = edits, sig # NoMeta, file.meta # sig
             PROVE  file'.meta = file.meta
  BY DEF RenamesAppend
<1>1. Queue!Renamed
  BY DEF Next, Call, CallRefused, OpStep, Begin, Queue!Save, Gone, Return, RemoveBegin, RemoveStep,
     RemoveDrained, RemoveDone, RemoveFailed, Queue!Delete, Queue!RemoveDirectory, WriteStep,
     Queue!WriteStep, Queue!DirectoryMade, Queue!DirectoryFailed, Queue!Settled, Queue!TempWritten,
     Queue!WriteFailed, Queue!Unlinked, Edit, Crash, Queue!Crash, vars
<1>2. writes # <<>>
  BY DEF FileInv, Inv, StepsHaveWrite
<1>3. Head(writes) = writes[1]
  BY <1>2, OneWrite
<1> QED BY <1>1, <1>3 DEF Queue!Renamed, FileInv, HeaderKept

\* An append keeps what another program wrote into the header before it was
\* compared, whatever else happens to the store.
THEOREM EditedHeaderKept == Spec => ComparedEditsAreKept
BY FileInvCorrect, AppendKeepsHeader, PTL DEF Spec, ComparedEditsAreKept

\* What SessionFile calls the state of a mutation.
PcOf(o) ==
  IF Effective(o) THEN "effective" ELSE IF InProgress(o) THEN "waiting" ELSE op[o].pc

LEMMA StateIs ==
  ASSUME NEW o \in Op
  PROVE  /\ FileState[o] = [pc |-> PcOf(o), field |-> op[o].field, value |-> op[o].value]
         /\ FileState[o].pc = PcOf(o) /\ FileState[o].field = op[o].field /\ FileState[o].value = op[o].value
BY DEF FileState, PcOf

\* The write that was renamed is that of the mutation that waits for it.
LEMMA EffectiveIs ==
  ASSUME FileInv, NEW o \in Op
  PROVE  Effective(o) <=> op[o].pc = "saving" /\ (result[o] = "ok" \/ step = "renamed")
<1>1. CASE op[o].pc = "saving" /\ step = "renamed"
  <2>1. writes # <<>> /\ o = chain[1]
    BY <1>1 DEF FileInv, Inv, StepsHaveWrite, Chained
  <2>2. o \in Head(writes).waiters
    BY <2>1, OneWrite
  <2> QED BY <1>1, <2>2 DEF Effective
<1>2. CASE ~(op[o].pc = "saving" /\ step = "renamed")
  BY <1>2 DEF Effective
<1> QED BY <1>1, <1>2

LEMMA EffectiveNext ==
  ASSUME FileInv', NEW o \in Op
  PROVE  Effective(o)' <=> op'[o].pc = "saving" /\ (result'[o] = "ok" \/ step' = "renamed")
<1>1. CASE op'[o].pc = "saving" /\ step' = "renamed"
  <2>1. writes' # <<>> /\ o = chain'[1]
    BY <1>1 DEF FileInv, Inv, StepsHaveWrite, Chained
  <2>2. writes'[1].waiters = {chain'[1]} /\ Len(writes') = 1
    BY <2>1 DEF FileInv, Underway
  <2>3. writes' \in Seq(Write)
    BY DEF FileInv, Inv, TypeOK, Queue!QueueTypeOK, Write
  <2>4. Head(writes') = writes'[1]
    BY <2>2, <2>3, Single
  <2> QED BY <1>1, <2>1, <2>2, <2>4 DEF Effective
<1>2. CASE ~(op'[o].pc = "saving" /\ step' = "renamed")
  BY <1>2 DEF Effective
<1> QED BY <1>1, <1>2

LEMMA PcStays ==
  ASSUME FileInv, FileInv', NEW o \in Op, op'[o] = op[o],
         op[o].pc = "saving" => (result[o] = "ok" \/ step = "renamed" <=> result'[o] = "ok" \/ step' = "renamed")
  PROVE  PcOf(o)' = PcOf(o)
<1>1. Effective(o)' <=> Effective(o)
  BY EffectiveIs, EffectiveNext
<1> QED BY <1>1 DEF PcOf, InProgress

LEMMA StateStays ==
  ASSUME FileInv, FileInv', op' = op,
         \A o \in Op : op[o].pc = "saving" =>
           (result[o] = "ok" \/ step = "renamed" <=> result'[o] = "ok" \/ step' = "renamed")
  PROVE  FileState' = FileState
<1>1. \A o \in Op : PcOf(o)' = PcOf(o)
  BY PcStays
<1>2. /\ FileState = [o \in Op |-> [pc |-> PcOf(o), field |-> op[o].field, value |-> op[o].value]]
      /\ FileState' = [o \in Op |-> [pc |-> PcOf(o)', field |-> op'[o].field, value |-> op'[o].value]]
  BY DEF FileState, PcOf
<1> QED BY <1>1, <1>2

\* One mutation goes on to another state.
LEMMA StateMoves ==
  ASSUME NEW o \in Op, NEW at, PcOf(o)' = at, op'[o].field = op[o].field, op'[o].value = op[o].value,
         \A p \in Op : p # o => op'[p] = op[p] /\ PcOf(p)' = PcOf(p)
  PROVE  FileState' = [FileState EXCEPT ![o].pc = at]
<1>1. /\ FileState = [p \in Op |-> [pc |-> PcOf(p), field |-> op[p].field, value |-> op[p].value]]
      /\ FileState' = [p \in Op |-> [pc |-> PcOf(p)', field |-> op'[p].field, value |-> op'[p].value]]
  BY DEF FileState, PcOf
<1>2. FileState' = [p \in Op |->
        [pc |-> IF p = o THEN at ELSE PcOf(p), field |-> op[p].field, value |-> op[p].value]]
  BY <1>1
<1> HIDE DEF PcOf, FileState
<1> QED BY <1>1, <1>2

LEMMA CallMaps ==
  ASSUME FileInv, FileInv', NEW o \in Op, NEW f \in Field \cup {NoField}, NEW v \in BOOLEAN, Call(o, f, v)
  PROVE  Abstract!Call(o)
<1>1. op[o].pc = "new" /\ chain' = Append(chain, o) /\ UNCHANGED <<file, writes, step, result, edits>>
  BY DEF Call
<1>2. \A p \in Op : op'[p] = IF p = o THEN [pc |-> "queued", field |-> f, value |-> v, seen |-> edits] ELSE op[p]
  BY OpTypes DEF Call, FileInv, Inv
<1>3. PcOf(o) = "new"
  BY <1>1 DEF PcOf, Effective, InProgress
<1>4. op'[o].pc = "queued" /\ op'[o].field = f /\ op'[o].value = v
  BY <1>2
<1>5. PcOf(o)' = "waiting"
  BY <1>4 DEF PcOf, Effective, InProgress
<1>6. \A p \in Op : p # o => op'[p] = op[p] /\ PcOf(p)' = PcOf(p)
  BY <1>1, <1>2, PcStays
<1>7. /\ FileState = [p \in Op |-> [pc |-> PcOf(p), field |-> op[p].field, value |-> op[p].value]]
      /\ FileState' = [p \in Op |-> [pc |-> PcOf(p)', field |-> op'[p].field, value |-> op'[p].value]]
  BY DEF FileState, PcOf
<1>8. FileState' = [FileState EXCEPT ![o] = [pc |-> "waiting", field |-> f, value |-> v]]
  <2>1. FileState' = [p \in Op |-> IF p = o THEN [pc |-> "waiting", field |-> f, value |-> v]
                                   ELSE [pc |-> PcOf(p), field |-> op[p].field, value |-> op[p].value]]
    BY <1>4, <1>5, <1>6, <1>7
  <2> HIDE DEF FileState
  <2> QED BY <1>7, <2>1
<1>9. (edits > 0)' <=> edits > 0
  BY <1>1
<1> QED BY <1>1, <1>3, <1>8, <1>9, StateIs DEF Abstract!Call

LEMMA RefuseMaps ==
  ASSUME FileInv, FileInv', NEW o \in Op, CallRefused(o) PROVE Abstract!Refuse(o)
<1>1. op[o].pc = "new" /\ UNCHANGED <<file, writes, step, result, chain, edits>>
  BY DEF CallRefused
<1>2. /\ op'[o].pc = "refused" /\ op'[o].field = op[o].field /\ op'[o].value = op[o].value
      /\ \A p \in Op : p # o => op'[p] = op[p]
  BY OpTypes DEF CallRefused, FileInv, Inv
<1>3. PcOf(o) = "new"
  BY <1>1 DEF PcOf, Effective, InProgress
<1>4. PcOf(o)' = "refused"
  BY <1>2 DEF PcOf, Effective, InProgress
<1>5. \A p \in Op : p # o => op'[p] = op[p] /\ PcOf(p)' = PcOf(p)
  BY <1>1, <1>2, PcStays
<1>6. FileState' = [FileState EXCEPT ![o].pc = "refused"]
  BY <1>2, <1>4, <1>5, StateMoves
<1> QED BY <1>1, <1>3, <1>6, StateIs DEF Abstract!Refuse

\* Loading and enqueueing are not seen: the mutation still waits.
LEMMA BeginMaps ==
  ASSUME FileInv, FileInv', NEW o \in Op, Begin(o) PROVE UNCHANGED Abstract!fileVars
<1>1. UNCHANGED <<file, step, chain, edits>> /\ Turn(o)
  BY DEF Begin, Queue!Save
<1>2. step = "mkdir" /\ \A p \in Op : op[p].pc # "saving"
  BY <1>1, QueueIsFree
<1>3. /\ op'[o].pc = "saving" /\ op'[o].field = op[o].field /\ op'[o].value = op[o].value
      /\ \A p \in Op : p # o => op'[p] = op[p]
  BY OpTypes DEF Begin, FileInv, Inv
<1>4. result'[o] = "waiting"
  BY QueueTypes DEF Begin, Queue!Save, FileInv, Inv
<1>5. PcOf(o) = "waiting"
  BY <1>1 DEF PcOf, Effective, InProgress, Turn
<1>6. PcOf(o)' = "waiting"
  BY <1>1, <1>2, <1>3, <1>4, EffectiveNext DEF PcOf, InProgress
<1>7. \A p \in Op : p # o => op'[p] = op[p] /\ PcOf(p)' = PcOf(p)
  BY <1>2, <1>3, PcStays
<1>8. /\ FileState = [p \in Op |-> [pc |-> PcOf(p), field |-> op[p].field, value |-> op[p].value]]
      /\ FileState' = [p \in Op |-> [pc |-> PcOf(p)', field |-> op'[p].field, value |-> op'[p].value]]
  BY DEF FileState, PcOf
<1>9. FileState' = FileState
  BY <1>3, <1>5, <1>6, <1>7, <1>8
<1> QED BY <1>1, <1>9 DEF Abstract!fileVars

\* Done is said of a mutation that took effect, failed of one that did not.
LEMMA AnswerMaps ==
  ASSUME FileInv, FileInv', NEW o \in Op, Gone(o) \/ Return(o) PROVE Abstract!Answer(o)
<1>1. UNCHANGED <<file, step, result, edits>> /\ chain' = Tail(chain)
  BY DEF Gone, Return
<1>2. chain # <<>> /\ Head(chain) = o /\ step = "mkdir" /\ \A p \in Op : op[p].pc = "saving" => p = o
  <2>1. chain # <<>> /\ chain[1] = o /\ step = "mkdir" /\ \A p \in Op : op[p].pc = "saving" => p = o
    BY QueueIsFree, ReturnIsFree DEF Gone
  <2> QED BY <2>1, TailOf, OpTypes DEF FileInv, Inv
<1>3. \A p \in Op : p # o => op'[p] = op[p] /\ PcOf(p)' = PcOf(p)
  <2>1. \A p \in Op : p # o => op'[p] = op[p]
    BY OpTypes DEF Gone, Return, FileInv, Inv
  <2> QED BY <1>2, <2>1, PcStays
<1>4. PICK at \in {"done", "failed", "gone"} :
        /\ op'[o].pc = at /\ op'[o].field = op[o].field /\ op'[o].value = op[o].value
        /\ at \in IF PcOf(o) = "effective" THEN {"done"} ELSE IF file = NoSnapshot THEN {"gone"} ELSE {"failed"}
  <2>1. CASE Gone(o)
    <3>1. op'[o].pc = "gone" /\ op'[o].field = op[o].field /\ op'[o].value = op[o].value
      BY <2>1, OpTypes DEF Gone, FileInv, Inv
    <3>2. PcOf(o) # "effective" /\ file = NoSnapshot
      BY <2>1 DEF Gone, Turn, PcOf, Effective, InProgress
    <3> QED BY <3>1, <3>2
  <2>2. CASE Return(o)
    <3>1. op'[o].pc = Outcome(o) /\ op'[o].field = op[o].field /\ op'[o].value = op[o].value
      BY <2>2, OpTypes DEF Return, FileInv, Inv
    <3>2. op[o].pc = "saving" /\ file # NoSnapshot
      BY <2>2, ReturnIsFree DEF Return
    <3>3. PcOf(o) = "effective" <=> result[o] = "ok"
      BY <1>2, <3>2, EffectiveIs DEF PcOf
    <3> QED BY <3>1, <3>2, <3>3 DEF Outcome
  <2> QED BY <2>1, <2>2
<1>5. PcOf(o)' = at
  BY <1>4 DEF PcOf, Effective, InProgress
<1>6. FileState' = [FileState EXCEPT ![o].pc = at]
  BY <1>3, <1>4, <1>5, StateMoves
<1>7. (edits > 0)' <=> edits > 0
  BY <1>1
<1> QED BY <1>1, <1>2, <1>4, <1>6, <1>7, StateIs DEF Abstract!Answer, Abstract!First

LEMMA ChangedIs ==
  ASSUME NEW o \in Op, NEW s PROVE Abstract!Changed(o, s) = Mutated(o, s)
BY StateIs DEF Abstract!Changed, Mutated

\* The rename is the moment at which the first mutation takes effect.
LEMMA RenamedMaps ==
  ASSUME FileInv, FileInv', WriteStep, Queue!Renamed PROVE \E o \in Op : Abstract!TakeEffect(o)
<1>1. /\ UNCHANGED <<op, chain, edits, writes, result>>
      /\ step = "rename" /\ step' = "renamed" /\ file' = Head(writes).snap
  BY DEF WriteStep, Queue!Renamed
<1>2. writes # <<>>
  BY <1>1 DEF FileInv, Inv, StepsHaveWrite
<1>3. PICK o \in Op : o = chain[1]
  BY <1>2, OneWrite
<1>4. /\ Head(writes) = writes[1] /\ writes[1].snap \in Snapshot /\ file \in Snapshot
      /\ chain # <<>> /\ op[o].pc = "saving" /\ result[o] = "waiting"
  BY <1>2, <1>3, OneWrite
<1>5. Abstract!First(o)
  BY <1>4, <1>3, OpTypes, TailOf DEF Abstract!First, FileInv, Inv
<1>6. PcOf(o) = "waiting"
  BY <1>1, <1>4, EffectiveIs DEF PcOf, InProgress
<1>7. PcOf(o)' = "effective"
  <2>1. Effective(o)'
    BY <1>1, <1>4, EffectiveNext
  <2> QED BY <2>1 DEF PcOf
<1>8. \A p \in Op : op[p].pc = "saving" => p = o
  BY <1>3 DEF FileInv, Chained
<1>9. \A p \in Op : p # o => op'[p] = op[p] /\ PcOf(p)' = PcOf(p)
  BY <1>1, <1>8, PcStays
<1>10. FileState' = [FileState EXCEPT ![o].pc = "effective"]
  <2>1. op'[o].field = op[o].field /\ op'[o].value = op[o].value
    BY <1>1
  <2> QED BY <1>4, <1>7, <1>9, <2>1, StateMoves
<1>11. file' \in Abstract!Outcomes(o)
  <2>1. /\ writes[1].snap.body = Mutated(o, file).body
        /\ edits = 0 => writes[1].snap = Mutated(o, file)
    BY <1>1, <1>2, <1>3 DEF FileInv, Faithful
  <2>2. /\ writes[1].snap.meta \in [Field -> BOOLEAN]
        /\ writes[1].snap = [meta |-> writes[1].snap.meta, body |-> writes[1].snap.body]
    BY <1>4 DEF Snapshot, Queue!Snapshot, Meta
  <2>3. edits > 0 \/ edits = 0
    BY OpTypes DEF FileInv, Inv
  <2>4. Abstract!Changed(o, file) = Mutated(o, file)
    BY <1>4, ChangedIs
  <2>5. file' = writes[1].snap
    BY <1>1, <1>4
  <2>6. file' \in [meta : [Field -> BOOLEAN], body : {Mutated(o, file).body}]
    BY <2>1, <2>2, <2>5
  <2> QED BY <2>1, <2>3, <2>4, <2>5, <2>6 DEF Abstract!Outcomes
<1>12. file # NoSnapshot
  BY <1>4, SnapshotIsFile
<1>13. (edits > 0)' <=> edits > 0
  BY <1>1
<1>14. Abstract!TakeEffect(o)
  BY <1>1, <1>4, <1>5, <1>6, <1>10, <1>11, <1>12, <1>13, StateIs DEF Abstract!TakeEffect
<1> QED BY <1>14

\* The other file system calls are not seen.
LEMMA WriteMaps ==
  ASSUME FileInv, FileInv', WriteStep, ~Queue!Renamed PROVE UNCHANGED Abstract!fileVars
<1>1. UNCHANGED <<op, chain, edits, file>>
  BY DEF WriteStep, Queue!WriteStep, Queue!DirectoryMade, Queue!DirectoryFailed, Queue!TempWritten,
     Queue!WriteFailed, Queue!Unlinked
<1>2. ASSUME NEW o \in Op, op[o].pc = "saving"
      PROVE  result[o] = "ok" \/ step = "renamed" <=> result'[o] = "ok" \/ step' = "renamed"
  <2>1. CASE Queue!DirectoryMade \/ Queue!TempWritten \/ Queue!WriteFailed
    BY <2>1 DEF Queue!DirectoryMade, Queue!TempWritten, Queue!WriteFailed
  <2>2. CASE Queue!DirectoryFailed \/ Queue!Unlinked
    <3>1. writes # <<>>
      BY <2>2 DEF Queue!DirectoryFailed, Queue!Unlinked, FileInv, Inv, StepsHaveWrite
    <3>2. result[o] = "waiting" /\ o \in Head(writes).waiters
      BY <1>2, <3>1, OneWrite DEF FileInv, Chained
    <3>3. step' = "mkdir" /\ result'[o] = IF step = "renamed" THEN "ok" ELSE "failed"
      BY <2>2, <3>2 DEF Queue!DirectoryFailed, Queue!Unlinked, Queue!Settled
    <3> QED BY <3>2, <3>3
  <2> QED BY <2>1, <2>2 DEF WriteStep, Queue!WriteStep
<1>3. FileState' = FileState
  BY <1>1, <1>2, StateStays
<1> QED BY <1>1, <1>3 DEF Abstract!fileVars

LEMMA RemoveMaps ==
  ASSUME FileInv, FileInv', RemoveBegin \/ RemoveStep PROVE Abstract!Delete \/ UNCHANGED Abstract!fileVars
<1>1. UNCHANGED <<op, chain, edits, result>>
  BY DEF RemoveBegin, RemoveStep, RemoveDrained, RemoveDone, RemoveFailed, Queue!Delete
<1>2. step' = step
  BY RemoveIsFree
<1>3. FileState' = FileState
  BY <1>1, <1>2, StateStays
<1>4. file' = file \/ (file' = NoSnapshot /\ removal = "waiting")
  BY DEF RemoveBegin, RemoveStep, RemoveDrained, RemoveDone, RemoveFailed, Queue!Delete, Queue!RemoveDirectory
<1>5. removal = "waiting" => chain = <<>>
  BY DEF FileInv, Chained
<1>6. (edits > 0)' <=> edits > 0
  BY <1>1
<1> QED BY <1>1, <1>3, <1>4, <1>5, <1>6 DEF Abstract!Delete, Abstract!fileVars

LEMMA EditMaps ==
  ASSUME FileInv, FileInv', NEW m \in Meta, Edit(m) PROVE Abstract!Edit
<1>1. /\ UNCHANGED <<op, chain, result, step>> /\ edits' = edits + 1 /\ file # NoSnapshot
      /\ file \in Snapshot /\ file' = [file EXCEPT !.meta = m]
  BY QueueTypes DEF Edit, FileInv, Inv
<1>2. file' \in [meta : [Field -> BOOLEAN], body : {file.body}]
  BY <1>1 DEF Snapshot, Queue!Snapshot, Meta
<1>3. FileState' = FileState
  BY <1>1, StateStays
<1>4. (edits > 0)' = TRUE
  BY <1>1, OpTypes DEF FileInv, Inv
<1> QED BY <1>1, <1>2, <1>3, <1>4 DEF Abstract!Edit

LEMMA CrashMaps ==
  ASSUME FileInv, FileInv', Crash PROVE Abstract!Crash
<1>1. chain' = <<>> /\ UNCHANGED <<file, edits>>
  BY DEF Crash, Queue!Crash
<1>2. \A o \in Op : op'[o] = IF InProgress(o) THEN [op[o] EXCEPT !.pc = "lost"] ELSE op[o]
  BY DEF Crash
<1>3. ASSUME NEW o \in Op
      PROVE  [pc |-> PcOf(o)', field |-> op'[o].field, value |-> op'[o].value]
               = IF FileState[o].pc \in {"waiting", "effective"} THEN [FileState[o] EXCEPT !.pc = "lost"] ELSE FileState[o]
  <2>1. op[o] \in [pc : OpPc, field : Field \cup {NoField}, value : BOOLEAN, seen : 0..MaxEdits]
    BY OpTypes DEF FileInv, Inv
  <2>2. FileState[o] = [pc |-> PcOf(o), field |-> op[o].field, value |-> op[o].value]
        /\ FileState[o].pc = PcOf(o)
    BY StateIs
  <2>3. CASE InProgress(o)
    <3>1. op'[o].pc = "lost" /\ op'[o].field = op[o].field /\ op'[o].value = op[o].value
      BY <1>2, <2>1, <2>3
    <3>2. PcOf(o)' = "lost"
      BY <3>1 DEF PcOf, Effective, InProgress
    <3>3. PcOf(o) \in {"waiting", "effective"}
      BY <2>3 DEF PcOf
    <3> QED BY <2>2, <3>1, <3>2, <3>3
  <2>4. CASE ~InProgress(o)
    <3>1. op'[o] = op[o] /\ op[o].pc \in OpPc \ {"saving", "queued"}
      BY <1>2, <2>1, <2>4 DEF InProgress
    <3>2. PcOf(o)' = op[o].pc
      BY <3>1 DEF PcOf, Effective, InProgress
    <3>3. PcOf(o) = op[o].pc
      BY <2>4 DEF PcOf, Effective, InProgress
    <3> QED BY <2>2, <3>1, <3>2, <3>3 DEF OpPc
  <2> QED BY <2>3, <2>4
<1>4. FileState' = [o \in Op |-> [pc |-> PcOf(o)', field |-> op'[o].field, value |-> op'[o].value]]
  BY DEF FileState, PcOf
<1>5. FileState' = [o \in Op |-> IF FileState[o].pc \in {"waiting", "effective"} THEN [FileState[o] EXCEPT !.pc = "lost"]
                                 ELSE FileState[o]]
  BY <1>3, <1>4
<1>6. (edits > 0)' <=> edits > 0
  BY <1>1
<1> QED BY <1>1, <1>5, <1>6 DEF Abstract!Crash

LEMMA StoreInitMaps == Init => Abstract!Init
<1> SUFFICES ASSUME Init PROVE Abstract!Init
  OBVIOUS
<1>1. edits = 0 /\ chain = <<>> /\ file \in [meta : [Field -> BOOLEAN], body : {<<>>}]
  BY DEF Init, Meta
<1>2. ASSUME NEW o \in Op PROVE op[o].pc = "new" /\ op[o].field = NoField /\ op[o].value = FALSE
  <2>1. op = [p \in Op |-> [pc |-> "new", field |-> NoField, value |-> FALSE, seen |-> 0]]
    BY DEF Init
  <2> QED BY <2>1
<1>3. ASSUME NEW o \in Op PROVE PcOf(o) = "new"
  BY <1>2 DEF PcOf, Effective, InProgress
<1>4. FileState = [o \in Op |-> [pc |-> PcOf(o), field |-> op[o].field, value |-> op[o].value]]
  BY DEF FileState, PcOf
<1>5. FileState = [o \in Op |-> [pc |-> "new", field |-> NoField, value |-> FALSE]]
  BY <1>2, <1>3, <1>4
<1>6. (edits > 0) = FALSE
  BY <1>1
<1> QED BY <1>1, <1>5, <1>6 DEF Abstract!Init

LEMMA StoreStepMaps ==
  ASSUME FileInv, FileInv', [Next]_vars PROVE [Abstract!Next]_(Abstract!fileVars)
<1>1. ASSUME NEW o \in Op,
             (\E f \in Field \cup {NoField}, v \in BOOLEAN : Call(o, f, v)) \/ CallRefused(o) \/ Gone(o) \/ Return(o)
      PROVE  Abstract!Next
  <2>1. Abstract!Call(o) \/ Abstract!Refuse(o) \/ Abstract!Answer(o)
    BY <1>1, CallMaps, RefuseMaps, AnswerMaps
  <2> QED BY <2>1 DEF Abstract!Next
<1>2. ASSUME NEW o \in Op, Begin(o) PROVE UNCHANGED Abstract!fileVars
  BY <1>2, BeginMaps
<1>3. CASE RemoveBegin \/ RemoveStep
  BY <1>3, RemoveMaps DEF Abstract!Next
<1>4. CASE WriteStep
  BY <1>4, WriteMaps, RenamedMaps DEF Abstract!Next
<1>5. ASSUME NEW m \in Meta, Edit(m) PROVE Abstract!Next
  BY <1>5, EditMaps DEF Abstract!Next
<1>6. CASE Crash
  BY <1>6, CrashMaps DEF Abstract!Next
<1>7. CASE UNCHANGED vars
  <2>1. UNCHANGED <<op, chain, edits, file, result, step>>
    BY <1>7 DEF vars
  <2>2. FileState' = FileState
    BY <2>1, StateStays
  <2> QED BY <2>1, <2>2 DEF Abstract!fileVars
<1> QED BY <1>1, <1>2, <1>3, <1>4, <1>5, <1>6, <1>7 DEF Next, OpStep

\* The queue, its chain of promises and the file system calls together do what
\* SessionFile promises: one atomic file, changed in the order of the calls.
THEOREM StoreIsOneFile == Spec => ActsAsOneFile
BY StoreInitMaps, StoreStepMaps, FileInvCorrect, FileInvStep, PTL DEF Spec, ActsAsOneFile, Abstract!Spec

-----------------------------------------------------------------------------
(* The folder of a workspace *)

Lines == [message : Nat, readable : BOOLEAN]
SessionType ==
  [is : {"none", "directory", "file"}, header : {"short", "long", "bad"},
   root : Roots \cup {"none"}, work : Roots \cup {Here}, archived : BOOLEAN,
   run : {"none", "running", "ended"}, lines : Seq(Lines)]
FolderType ==
  [config : {"none", "cut", "whole"}, id : Nat, sessions : [Ids -> SessionType]]

FolderOK ==
  /\ place \in Roots /\ folder \in [Roots -> FolderType] /\ host \in {"off", "open"}
  /\ known \in Nat /\ count \in Nat /\ sent \in [Ids -> Seq(Nat)]
  /\ born \subseteq Ids /\ making \subseteq Ids
  /\ host = "off" => making = {} /\ active = {}
  /\ host = "open" => folder[place].config = "whole"
  /\ folder[place].config = "whole" => folder[place].id = known
  /\ folder[place].config # "whole" => born = {} /\ making = {}

\* What a session has that was made and not deleted, and what any other has.
FileOf(i) ==
  /\ i \in born <=> Sessions[i].is = "file"
  /\ i \in making => Sessions[i].is = "directory"
  /\ i \notin born => sent[i] = <<>> /\ <<i, 0>> \notin damaged
  /\ i \in born =>
       /\ Sessions[i].root \in Roots /\ Sessions[i].work = Here
       /\ Sessions[i].header = "bad" => <<i, 0>> \in damaged
       /\ Sessions[i].run = "running" => Sessions[i].header # "long"

\* Messages have the order of their numbers, in what was sent and in the file.
Numbered(q, max) == Rising(q) /\ \A k \in DOMAIN q : q[k] <= max
OrderOf(i) ==
  /\ Numbered(sent[i], count)
  /\ i \in born => Numbered(Contents(Sessions[i].lines), count)
  /\ \A m \in Nat : <<i, m>> \in damaged => m <= count

\* No save of the session has gone to another place: until then the file has
\* what was sent, and says truly whether a run goes on.
Anchored(i) == Sessions[i].root = place \/ folder[Sessions[i].root] = NoFolder
Held(lines) == {lines[n].message : n \in {n \in DOMAIN lines : lines[n].readable}}
Due(i) == {m \in Elements(sent[i]) : <<i, m>> \notin damaged}
AnchoredOf(i) ==
  i \in born /\ Anchored(i) =>
    /\ Held(Sessions[i].lines) = Due(i)
    /\ host = "open" /\ i \in Whole /\ Sessions[i].run = "running" => i \in active \cup unended

SessionOK(i) == FileOf(i) /\ OrderOf(i) /\ AnchoredOf(i)
FolderInv == FolderOK /\ \A i \in Ids : SessionOK(i)

LEMMA HeldIs ==
  ASSUME NEW lines, NEW m
  PROVE  m \in Held(lines) <=> \E n \in DOMAIN lines : lines[n].readable /\ lines[n].message = m
BY Zenon DEF Held

\* What the lines that can be read are.
LEMMA ReadableIs ==
  ASSUME NEW lines \in Seq(Lines), NEW max \in Nat, Numbered(Contents(lines), max)
  PROVE  /\ Readable(lines) \in Seq(Lines)
         /\ Contents(Readable(lines)) \in Seq(Nat)
         /\ Numbered(Contents(Readable(lines)), max)
         /\ Held(Readable(lines)) = Held(lines)
         /\ Elements(Contents(Readable(lines))) = Held(lines)
<1>1. PICK p : p = Readable(lines)
  OBVIOUS
<1> DEFINE P == {n \in DOMAIN lines : lines[n].readable}
<1>2. p = Picked(lines, P)
  BY <1>1 DEF Readable
<1>3. /\ p \in Seq(Lines)
      /\ \A k \in DOMAIN p : \E n \in DOMAIN lines : n \in P /\ p[k] = lines[n]
      /\ \A n \in DOMAIN lines : n \in P => \E k \in DOMAIN p : p[k] = lines[n]
      /\ \A j, k \in DOMAIN p : j < k =>
           \E m, n \in DOMAIN lines :
             m \in P /\ n \in P /\ m < n /\ p[j] = lines[m] /\ p[k] = lines[n]
  <2> HIDE DEF P
  <2>1. QED
    BY ONLY <1>2, lines \in Seq(Lines), PickedElements
<1>4. DOMAIN p = 1..Len(p) /\ Len(p) \in Nat /\ \A k \in DOMAIN p : p[k] \in Lines
  BY ONLY <1>3, SeqIs
<1>5. PICK c : c = Contents(p)
  OBVIOUS
<1>6. DOMAIN c = DOMAIN p /\ \A k \in DOMAIN p : c[k] = p[k].message
  BY <1>5 DEF Contents
<1>7. c \in Seq(Nat)
  <2>1. \A k \in 1..Len(p) : p[k].message \in Nat
    BY ONLY <1>4 DEF Lines
  <2>2. c = [k \in 1..Len(p) |-> p[k].message]
    BY ONLY <1>4, <1>5 DEF Contents
  <2>3. QED
    BY ONLY <1>4, <2>1, <2>2
<1>8. \A n \in DOMAIN lines : Contents(lines)[n] = lines[n].message
  BY DEF Contents
<1>9. DOMAIN Contents(lines) = DOMAIN lines
  BY DEF Contents
<1>10. Numbered(c, max)
  <2>1. ASSUME NEW j \in DOMAIN p, NEW k \in DOMAIN p, j < k PROVE c[j] < c[k]
    <3>1. PICK m \in DOMAIN lines, n \in DOMAIN lines :
            m < n /\ p[j] = lines[m] /\ p[k] = lines[n]
      <4> HIDE DEF P
      <4>1. \E m, n \in DOMAIN lines :
              m \in P /\ n \in P /\ m < n /\ p[j] = lines[m] /\ p[k] = lines[n]
        BY ONLY <1>3, <2>1, Zenon
      <4>2. QED
        BY ONLY <4>1, Zenon
    <3>2. Contents(lines)[m] < Contents(lines)[n]
      BY ONLY <1>9, <3>1, Numbered(Contents(lines), max), Zenon DEF Numbered, Rising
    <3>3. QED
      BY ONLY <1>6, <1>8, <3>1, <3>2, Zenon
  <2>2. ASSUME NEW k \in DOMAIN p PROVE c[k] <= max
    <3>1. PICK n \in DOMAIN lines : p[k] = lines[n]
      BY ONLY <1>3, <2>2, Zenon
    <3>2. Contents(lines)[n] <= max
      BY ONLY <1>9, <3>1, Numbered(Contents(lines), max), Zenon DEF Numbered
    <3>3. QED
      BY ONLY <1>6, <1>8, <3>1, <3>2, Zenon
  <2>3. QED
    BY <1>6, <2>1, <2>2, Zenon DEF Numbered, Rising
<1>11. \A k \in DOMAIN p : p[k].readable
  BY <1>3
<1>12. \A m : (\E k \in DOMAIN p : p[k].message = m)
               <=> (\E n \in DOMAIN lines : lines[n].readable /\ lines[n].message = m)
  BY <1>3
<1>13. Held(p) = Held(lines)
  <2>1. ASSUME NEW m PROVE m \in Held(p) <=> m \in Held(lines)
    <3>1. m \in Held(p) <=> \E k \in DOMAIN p : p[k].readable /\ p[k].message = m
      BY ONLY HeldIs
    <3>2. m \in Held(p) <=> \E k \in DOMAIN p : p[k].message = m
      BY ONLY <1>11, <3>1
    <3>3. m \in Held(lines) <=> \E n \in DOMAIN lines : lines[n].readable /\ lines[n].message = m
      BY ONLY HeldIs
    <3>4. QED
      BY ONLY <1>12, <3>2, <3>3
  <2>2. QED
    BY ONLY <2>1, Zenon
<1>14. Elements(c) = Held(lines)
  <2>1. ASSUME NEW m PROVE m \in Elements(c) <=> m \in Held(lines)
    <3>1. m \in Elements(c) <=> \E k \in DOMAIN c : c[k] = m
      BY ONLY ElementsIs
    <3>2. m \in Elements(c) <=> \E k \in DOMAIN p : p[k].message = m
      BY ONLY <1>6, <3>1
    <3>3. m \in Held(lines) <=> \E n \in DOMAIN lines : lines[n].readable /\ lines[n].message = m
      BY ONLY HeldIs
    <3>4. QED
      BY ONLY <1>12, <3>2, <3>3
  <2>2. QED
    BY ONLY <2>1, Zenon
<1>15. QED
  BY <1>1, <1>3, <1>5, <1>7, <1>10, <1>13, <1>14

LEMMA UndamagedIs ==
  ASSUME FolderOK, NEW i \in Ids, Numbered(sent[i], count)
  PROVE  Undamaged(i) \in Seq(Nat) /\ Rising(Undamaged(i)) /\ Elements(Undamaged(i)) = Due(i)
<1>1. PICK q : q = sent[i]
  OBVIOUS
<1>2. q \in Seq(Nat) /\ Rising(q)
  BY <1>1 DEF FolderOK, Numbered
<1>3. PICK P : P = {n \in DOMAIN q : <<i, q[n]>> \notin damaged}
  OBVIOUS
<1>4. PICK p : p = Picked(q, P)
  OBVIOUS
<1>5. Undamaged(i) = p
  BY <1>1, <1>3, <1>4, Zenon DEF Undamaged
<1>6. /\ p \in Seq(Nat)
      /\ \A k \in DOMAIN p : \E n \in DOMAIN q : n \in P /\ p[k] = q[n]
      /\ \A n \in DOMAIN q : n \in P => \E k \in DOMAIN p : p[k] = q[n]
      /\ \A j, k \in DOMAIN p : j < k =>
           \E m, n \in DOMAIN q : m \in P /\ n \in P /\ m < n /\ p[j] = q[m] /\ p[k] = q[n]
  BY ONLY <1>2, <1>4, PickedElements
<1>7. Rising(p)
  <2>1. SUFFICES ASSUME NEW j \in DOMAIN p, NEW k \in DOMAIN p, j < k PROVE p[j] < p[k]
    BY Zenon DEF Rising
  <2>2. PICK m \in DOMAIN q, n \in DOMAIN q : m < n /\ p[j] = q[m] /\ p[k] = q[n]
    <3>1. \E m, n \in DOMAIN q : m \in P /\ n \in P /\ m < n /\ p[j] = q[m] /\ p[k] = q[n]
      BY ONLY <1>6, <2>1, Zenon
    <3>2. QED
      BY ONLY <3>1, Zenon
  <2>3. q[m] < q[n]
    BY ONLY <1>2, <2>2, Zenon DEF Rising
  <2>4. QED
    BY ONLY <2>2, <2>3, Zenon
<1>8. ASSUME NEW m PROVE m \in Elements(p) <=> m \in Due(i)
  <2>1. m \in Due(i) <=> m \in Elements(q) /\ <<i, m>> \notin damaged
    BY <1>1, Zenon DEF Due
  <2>2. m \in Elements(q) <=> \E n \in DOMAIN q : q[n] = m
    BY ONLY ElementsIs
  <2>3. m \in Elements(p) <=> \E k \in DOMAIN p : p[k] = m
    BY ONLY ElementsIs
  <2>4. ASSUME m \in Elements(p) PROVE m \in Due(i)
    <3>1. PICK k \in DOMAIN p : p[k] = m
      BY <2>3, <2>4
    <3>2. PICK n \in DOMAIN q : n \in P /\ p[k] = q[n]
      BY ONLY <1>6, <3>1, Zenon
    <3>3. q[n] = m /\ <<i, q[n]>> \notin damaged
      BY ONLY <1>3, <3>1, <3>2, Zenon
    <3>4. QED
      BY ONLY <2>1, <2>2, <3>3, Zenon
  <2>5. ASSUME m \in Due(i) PROVE m \in Elements(p)
    <3>1. PICK n \in DOMAIN q : q[n] = m
      BY <2>1, <2>2, <2>5
    <3>2. n \in P
      BY ONLY <1>3, <2>1, <2>5, <3>1, Zenon
    <3>3. QED
      BY ONLY <1>6, <2>3, <3>1, <3>2, Zenon
  <2>6. QED
    BY <2>4, <2>5
<1>9. QED
  BY <1>5, <1>6, <1>7, <1>8, Zenon

LEMMA NumberAppended ==
  ASSUME NEW q \in Seq(Nat), NEW max \in Nat, Numbered(q, max)
  PROVE  /\ Append(q, max + 1) \in Seq(Nat) /\ Numbered(Append(q, max + 1), max + 1)
         /\ \A m : m \in Elements(Append(q, max + 1)) <=> m \in Elements(q) \/ m = max + 1
<1>1. PICK l \in Nat : l = Len(q)
  OBVIOUS
<1>2. PICK t : t = Append(q, max + 1)
  OBVIOUS
<1>3. /\ DOMAIN q = 1..l /\ DOMAIN t = 1..(l + 1) /\ t \in Seq(Nat)
      /\ t[l + 1] = max + 1 /\ \A k \in 1..l : t[k] = q[k]
  <2>1. max + 1 \in Nat
    OBVIOUS
  <2>2. t \in Seq(Nat) /\ Len(t) = l + 1 /\ t[l + 1] = max + 1 /\ \A k \in 1..l : t[k] = q[k]
    BY ONLY <1>1, <1>2, <2>1, q \in Seq(Nat), AppendIs
  <2>3. DOMAIN q = 1..Len(q) /\ DOMAIN t = 1..Len(t)
    BY ONLY <2>2, q \in Seq(Nat), SeqIs
  <2>4. QED
    BY ONLY <1>1, <2>2, <2>3
<1>4. \A k \in 1..l : q[k] \in Nat /\ q[k] <= max
  <2>1. \A k \in 1..l : q[k] \in Nat
    BY ONLY <1>1, q \in Seq(Nat), SeqIs
  <2>2. \A k \in 1..l : q[k] <= max
    BY ONLY <1>3, Numbered(q, max), Zenon DEF Numbered
  <2>3. QED
    BY ONLY <2>1, <2>2, Zenon
<1>5. \A k \in 1..(l + 1) : k \in 1..l \/ k = l + 1
  OBVIOUS
<1>6. ASSUME NEW k \in 1..(l + 1) PROVE t[k] <= max + 1
  <2>1. CASE k \in 1..l
    <3>1. t[k] = q[k] /\ q[k] \in Nat /\ q[k] <= max
      BY ONLY <1>3, <1>4, <2>1, Zenon
    <3>2. QED
      BY ONLY <3>1, max \in Nat
  <2>2. CASE k = l + 1
    BY ONLY <1>3, <2>2, max \in Nat
  <2>3. QED
    BY <1>5, <2>1, <2>2
<1>7. ASSUME NEW j \in 1..(l + 1), NEW k \in 1..(l + 1), j < k PROVE t[j] < t[k]
  <2>1. j \in 1..l
    BY <1>7
  <2>2. CASE k = l + 1
    <3>1. t[j] = q[j] /\ q[j] \in Nat /\ q[j] <= max /\ t[k] = max + 1
      BY ONLY <1>3, <1>4, <2>1, <2>2
    <3>2. QED
      BY ONLY <3>1, max \in Nat
  <2>3. CASE k \in 1..l
    BY <1>3, <1>7, <2>1, <2>3 DEF Numbered, Rising
  <2>4. QED
    BY <1>5, <2>2, <2>3
<1>8. Numbered(t, max + 1)
  BY <1>3, <1>6, <1>7, Zenon DEF Numbered, Rising
<1>9. ASSUME NEW m PROVE m \in Elements(t) <=> m \in Elements(q) \/ m = max + 1
  <2>1. m \in Elements(t) <=> \E k \in 1..(l + 1) : t[k] = m
    BY <1>3, ElementsIs
  <2>2. m \in Elements(q) <=> \E k \in 1..l : q[k] = m
    BY <1>3, ElementsIs
  <2>3. \A k \in 1..l : k \in 1..(l + 1)
    OBVIOUS
  <2>4. l + 1 \in 1..(l + 1)
    OBVIOUS
  <2>5. QED
    BY ONLY <1>3, <1>5, <2>1, <2>2, <2>3, <2>4
<1>10. QED
  BY <1>2, <1>3, <1>8, <1>9

LEMMA LineAppended ==
  ASSUME NEW lines \in Seq(Lines), NEW n \in Nat
  PROVE  /\ Append(lines, Line(n)) \in Seq(Lines) /\ Contents(lines) \in Seq(Nat)
         /\ Contents(Append(lines, Line(n))) = Append(Contents(lines), n)
         /\ \A m : m \in Held(Append(lines, Line(n))) <=> m \in Held(lines) \/ m = n
<1>1. PICK l \in Nat : l = Len(lines)
  OBVIOUS
<1>2. PICK v : v = Line(n)
  OBVIOUS
<1>3. v \in Lines /\ v.message = n /\ v.readable
  BY <1>2 DEF Line, Lines
<1>4. PICK t : t = Append(lines, v)
  OBVIOUS
<1>5. /\ DOMAIN lines = 1..l /\ DOMAIN t = 1..(l + 1) /\ t \in Seq(Lines)
      /\ t[l + 1] = v /\ \A k \in 1..l : t[k] = lines[k] /\ lines[k] \in Lines
  <2>1. t \in Seq(Lines) /\ Len(t) = l + 1 /\ t[l + 1] = v /\ \A k \in 1..l : t[k] = lines[k]
    BY ONLY <1>1, <1>3, <1>4, lines \in Seq(Lines), AppendIs
  <2>2. DOMAIN lines = 1..Len(lines) /\ \A k \in 1..Len(lines) : lines[k] \in Lines
    BY ONLY lines \in Seq(Lines), SeqIs
  <2>3. DOMAIN t = 1..Len(t)
    BY ONLY <2>1, SeqIs
  <2>4. QED
    BY ONLY <1>1, <2>1, <2>2, <2>3
<1>6. \A k : k \in 1..(l + 1) <=> k \in 1..l \/ k = l + 1
  OBVIOUS
<1>7. PICK c : c = Contents(lines)
  OBVIOUS
<1>8. c = [k \in 1..l |-> lines[k].message] /\ \A k \in 1..l : lines[k].message \in Nat
  BY ONLY <1>5, <1>7 DEF Contents, Lines
<1>9. c \in Seq(Nat) /\ Len(c) = l
  <2>1. c \in [1..l -> Nat]
    BY ONLY <1>8
  <2>2. QED
    BY ONLY <2>1, l \in Nat
<1>10. Contents(t) = Append(c, n)
  <2>1. PICK a : a = Append(c, n)
    OBVIOUS
  <2>2. a \in Seq(Nat) /\ Len(a) = l + 1 /\ a[l + 1] = n /\ \A k \in 1..l : a[k] = c[k]
    BY ONLY <1>9, <2>1, l \in Nat, n \in Nat, AppendIs
  <2>3. DOMAIN a = 1..(l + 1) /\ a = [k \in DOMAIN a |-> a[k]]
    BY ONLY <2>2
  <2>4. ASSUME NEW k \in 1..(l + 1) PROVE a[k] = t[k].message
    <3>1. CASE k \in 1..l
      <4>1. a[k] = c[k] /\ t[k] = lines[k] /\ c[k] = lines[k].message
        BY ONLY <1>5, <1>8, <2>2, <3>1
      <4>2. QED
        BY <4>1
    <3>2. CASE k = l + 1
      BY <1>3, <1>5, <2>2, <3>2
    <3>3. QED
      BY <1>6, <3>1, <3>2
  <2>5. Contents(t) = [k \in 1..(l + 1) |-> t[k].message]
    BY <1>5 DEF Contents
  <2>6. QED
    BY ONLY <2>1, <2>3, <2>4, <2>5
<1>11. ASSUME NEW m PROVE m \in Held(t) <=> m \in Held(lines) \/ m = n
  <2>1. m \in Held(t) <=> \E k \in 1..(l + 1) : t[k].readable /\ t[k].message = m
    BY <1>5, HeldIs
  <2>2. m \in Held(lines) <=> \E k \in 1..l : lines[k].readable /\ lines[k].message = m
    BY <1>5, HeldIs
  <2>3. ASSUME m \in Held(t) PROVE m \in Held(lines) \/ m = n
    <3>1. PICK k \in 1..(l + 1) : t[k].readable /\ t[k].message = m
      BY <2>1, <2>3
    <3>2. CASE k \in 1..l
      BY ONLY <1>5, <2>2, <3>1, <3>2, Zenon
    <3>3. CASE k = l + 1
      BY ONLY <1>3, <1>5, <3>1, <3>3, Zenon
    <3>4. QED
      BY ONLY <1>6, <3>2, <3>3, k \in 1..(l + 1), Zenon
  <2>4. ASSUME m \in Held(lines) PROVE m \in Held(t)
    <3>1. PICK k \in 1..l : lines[k].readable /\ lines[k].message = m
      BY <2>2, <2>4
    <3>2. t[k] = lines[k] /\ k \in 1..(l + 1)
      BY ONLY <1>5, <1>6, k \in 1..l, Zenon
    <3>3. QED
      BY ONLY <2>1, <3>1, <3>2, Zenon
  <2>5. n \in Held(t)
    <3>1. t[l + 1].readable /\ t[l + 1].message = n /\ l + 1 \in 1..(l + 1)
      BY ONLY <1>3, <1>5, <1>6, Zenon
    <3>2. QED
      BY <1>5, <3>1, Zenon DEF Held
  <2>6. QED
    BY <2>3, <2>4, <2>5
<1>12. QED
  BY <1>2, <1>4, <1>5, <1>7, <1>9, <1>10, <1>11

Unread(lines, n) == [lines EXCEPT ![n].readable = FALSE]
IsUnread(new, lines, n) ==
  /\ new \in Seq(Lines) /\ Contents(new) = Contents(lines)
  /\ \A m : m \in Held(new) <=> m \in Held(lines) /\ m # lines[n].message
LEMMA LineDamaged ==
  ASSUME NEW lines \in Seq(Lines), Rising(Contents(lines)), NEW n \in DOMAIN lines
  PROVE  IsUnread(Unread(lines, n), lines, n)
<1>0. PICK new : new = [lines EXCEPT ![n].readable = FALSE]
  OBVIOUS
<1>1. PICK l \in Nat : l = Len(lines)
  OBVIOUS
<1>2. DOMAIN lines = 1..l /\ \A k \in 1..l : lines[k] \in Lines
  BY ONLY <1>1, lines \in Seq(Lines), SeqIs
<1>3. PICK v : v = [lines[n] EXCEPT !.readable = FALSE]
  OBVIOUS
<1>4. v \in Lines /\ v.message = lines[n].message /\ v.readable = FALSE
  BY <1>2, <1>3 DEF Lines
<1>5. new = [k \in 1..l |-> IF k = n THEN v ELSE lines[k]]
  BY <1>0, <1>2, <1>3
<1>6. DOMAIN new = 1..l /\ new[n] = v /\ \A k \in 1..l : k # n => new[k] = lines[k]
  BY <1>2, <1>5
<1>7. new \in Seq(Lines)
  <2>1. \A k \in 1..l : (IF k = n THEN v ELSE lines[k]) \in Lines
    BY <1>2, <1>4
  <2>2. new \in [1..l -> Lines]
    BY ONLY <1>5, <2>1
  <2>3. QED
    BY ONLY <2>2, l \in Nat
<1>8. \A k \in 1..l : new[k].message = lines[k].message
  BY <1>4, <1>6
<1>9. Contents(new) = Contents(lines)
  BY ONLY <1>2, <1>6, <1>8 DEF Contents
<1>10. \A k \in 1..l : k # n => lines[k].message # lines[n].message
  <2>1. PICK c : c = Contents(lines)
    OBVIOUS
  <2>2. c = [k \in 1..l |-> lines[k].message] /\ Rising(c)
    BY <1>2, <2>1 DEF Contents
  <2>3. DOMAIN c = 1..l /\ \A k \in 1..l : c[k] = lines[k].message /\ c[k] \in Nat
    BY <1>2, <2>2 DEF Lines
  <2>4. n \in 1..l
    BY <1>2
  <2>5. SUFFICES ASSUME NEW k \in 1..l, k # n PROVE c[k] # c[n]
    BY <2>3, <2>4
  <2>6. (k < n => c[k] < c[n]) /\ (n < k => c[n] < c[k])
    BY <2>2, <2>3, <2>4 DEF Rising
  <2>7. k < n \/ n < k
    BY <2>4, <2>5
  <2>8. c[k] \in Nat /\ c[n] \in Nat
    BY <2>3, <2>4
  <2>9. QED
    BY ONLY <2>6, <2>7, <2>8
<1>11. ASSUME NEW m PROVE m \in Held(new) <=> m \in Held(lines) /\ m # lines[n].message
  <2>1. m \in Held(new) <=> \E k \in 1..l : new[k].readable /\ new[k].message = m
    BY <1>6, HeldIs
  <2>2. m \in Held(lines) <=> \E k \in 1..l : lines[k].readable /\ lines[k].message = m
    BY <1>2, HeldIs
  <2>3. ASSUME m \in Held(new) PROVE m \in Held(lines) /\ m # lines[n].message
    <3>1. PICK k \in 1..l : new[k].readable /\ new[k].message = m
      BY <2>1, <2>3
    <3>2. k # n
      BY <1>4, <1>6, <3>1
    <3>3. QED
      BY <1>6, <1>10, <2>2, <3>1, <3>2
  <2>4. ASSUME m \in Held(lines), m # lines[n].message PROVE m \in Held(new)
    <3>1. PICK k \in 1..l : lines[k].readable /\ lines[k].message = m
      BY <2>2, <2>4
    <3>2. k # n
      BY <2>4, <3>1
    <3>3. QED
      BY <1>6, <2>1, <3>1, <3>2
  <2>5. QED
    BY <2>3, <2>4
<1>12. IsUnread(new, lines, n)
  BY <1>7, <1>9, <1>11, Zenon DEF IsUnread
<1>13. QED
  BY <1>0, <1>12, Zenon DEF Unread

-----------------------------------------------------------------------------
\* What a session in a folder becomes there, and that nothing else changes.
Place(R, i, w) == [folder EXCEPT ![R].sessions[i] = w]
IsPlaced(f, R, i, w) ==
  /\ f \in [Roots -> FolderType]
  /\ \A r \in Roots : r # R => f[r] = folder[r]
  /\ f[R].config = folder[R].config /\ f[R].id = folder[R].id
  /\ f[R].sessions[i] = w
  /\ \A j \in Ids : j # i => f[R].sessions[j] = folder[R].sessions[j]
  /\ w.is # "none" => f[R] # NoFolder
LEMMA Placed ==
  ASSUME FolderOK, NEW R \in Roots, NEW i \in Ids, NEW w \in SessionType
  PROVE  IsPlaced(Place(R, i, w), R, i, w)
<1> DEFINE f == Place(R, i, w)
<1>1. PICK old : old = folder[R]
  OBVIOUS
<1>2. folder \in [Roots -> FolderType] /\ old \in FolderType
  BY <1>1 DEF FolderOK
<1>3. PICK ss : ss = [old.sessions EXCEPT ![i] = w]
  OBVIOUS
<1>4. old.sessions \in [Ids -> SessionType]
  BY <1>2 DEF FolderType
<1>5. ss \in [Ids -> SessionType] /\ ss[i] = w /\ \A j \in Ids : j # i => ss[j] = old.sessions[j]
  BY <1>3, <1>4
<1>6. PICK new : new = [old EXCEPT !.sessions = ss]
  OBVIOUS
<1>7. new \in FolderType /\ new.sessions = ss /\ new.config = old.config /\ new.id = old.id
  BY <1>2, <1>5, <1>6 DEF FolderType
<1>8. f = [folder EXCEPT ![R] = new]
  BY <1>1, <1>3, <1>6 DEF Place
<1>9. f \in [Roots -> FolderType] /\ f[R] = new /\ \A r \in Roots : r # R => f[r] = folder[r]
  BY <1>2, <1>7, <1>8
<1>10. ASSUME w.is # "none" PROVE new # NoFolder
  <2>1. NoFolder.sessions[i].is = "none"
    BY DEF NoFolder, NoSession
  <2>2. QED
    BY <1>5, <1>7, <1>10, <2>1
<1> HIDE DEF f
<1>11. IsPlaced(f, R, i, w)
  BY <1>1, <1>5, <1>7, <1>9, <1>10 DEF IsPlaced
<1>12. QED
  BY <1>11 DEF f

\* A save: into this place, or into another one.
LEMMA SavedIs ==
  ASSUME FolderOK, NEW i \in Ids, NEW session \in SessionType,
         session.is = "file", session.root \in Roots,
         NEW f, f = Saved(folder, i, session)
  PROVE  /\ f \in [Roots -> FolderType]
         /\ f[place].config = folder[place].config /\ f[place].id = folder[place].id
         /\ \A j \in Ids : j # i => f[place].sessions[j] = folder[place].sessions[j]
         /\ f[session.root].sessions[i].is = "file"
         /\ session.root # place =>
              f[place].sessions[i] = folder[place].sessions[i] /\ f[session.root] # NoFolder
         /\ session.root = place =>
              /\ f[place].sessions[i].is = "file" /\ f[place].sessions[i].root = place
              /\ f[place].sessions[i].header = session.header
              /\ f[place].sessions[i].run = session.run
              /\ f[place].sessions[i].lines = session.lines
              /\ session.work \in {Here, place} => f[place].sessions[i].work = Here
         /\ \A r \in Roots : r # place /\ f[r] = NoFolder => folder[r] = NoFolder
<1>1. PICK p : p = Portable(Expanded(session.work, place), session.root)
  OBVIOUS
<1>2. p \in Roots \cup {Here} /\ (session.root = place /\ session.work \in {Here, place} => p = Here)
  <2>1. session.work \in Roots \cup {Here} /\ place \in Roots
    BY DEF SessionType, FolderOK
  <2>2. QED
    BY <1>1, <2>1 DEF Portable, Expanded
<1>3. PICK w : w = [session EXCEPT !.work = p]
  OBVIOUS
<1>4. /\ w \in SessionType /\ w.is = "file" /\ w.root = session.root /\ w.header = session.header
      /\ w.run = session.run /\ w.lines = session.lines /\ w.work = p
  BY <1>2, <1>3 DEF SessionType
<1>5. f = [folder EXCEPT ![session.root].sessions[i] = w]
  BY <1>1, <1>3 DEF Saved
<1>6. PICK R \in Roots : R = session.root
  OBVIOUS
<1>7. /\ f \in [Roots -> FolderType]
      /\ \A r \in Roots : r # R => f[r] = folder[r]
      /\ f[R].config = folder[R].config /\ f[R].id = folder[R].id
      /\ f[R].sessions[i] = w
      /\ \A j \in Ids : j # i => f[R].sessions[j] = folder[R].sessions[j]
      /\ w.is # "none" => f[R] # NoFolder
  <2>1. f = Place(R, i, w)
    BY <1>5, <1>6, Zenon DEF Place
  <2>2. w \in SessionType
    BY <1>4
  <2>3. IsPlaced(Place(R, i, w), R, i, w)
    BY ONLY FolderOK, R \in Roots, i \in Ids, <2>2, Placed, Zenon
  <2>4. IsPlaced(f, R, i, w)
    BY ONLY <2>1, <2>3, Zenon
  <2>5. QED
    BY ONLY <2>4, Zenon DEF IsPlaced
<1>8. place \in Roots
  BY DEF FolderOK
<1>9. f[R] # NoFolder /\ f[session.root].sessions[i].is = "file"
  BY ONLY <1>4, <1>6, <1>7
<1>10. CASE R = place
  BY ONLY <1>2, <1>4, <1>6, <1>7, <1>8, <1>9, <1>10
<1>11. CASE R # place
  <2>1. /\ f[place] = folder[place] /\ session.root # place
        /\ \A r \in Roots : r # place /\ f[r] = NoFolder => folder[r] = NoFolder
    BY ONLY <1>6, <1>7, <1>8, <1>9, <1>11
  <2>2. QED
    BY <1>6, <1>7, <1>9, <2>1, Zenon
<1>12. QED
  BY <1>10, <1>11

\* A session that a step leaves alone.
Untouched(j) ==
  /\ place' = place /\ folder'[place].sessions[j] = folder[place].sessions[j]
  /\ \A r \in Roots : r # place /\ folder'[r] = NoFolder => folder[r] = NoFolder
  /\ (j \in born' <=> j \in born) /\ (j \in making' => j \in making)
  /\ sent'[j] = sent[j]
  /\ \A m \in Nat : <<j, m>> \in damaged' <=> <<j, m>> \in damaged
  /\ count' \in Nat /\ count <= count'
  /\ host' = "open" =>
       host = "open" /\ (j \in active \cup unended => j \in active' \cup unended')

LEMMA MoreNumbers ==
  ASSUME NEW q \in Seq(Nat), NEW max \in Nat, NEW more \in Nat, max <= more, Numbered(q, max)
  PROVE  Numbered(q, more)
<1>1. SUFFICES ASSUME NEW k \in DOMAIN q PROVE q[k] <= more
  BY Zenon DEF Numbered
<1>2. q[k] \in Nat
  BY ONLY q \in Seq(Nat), k \in DOMAIN q, SeqIs
<1>3. q[k] <= max
  BY Zenon DEF Numbered
<1>4. PICK x \in Nat : x = q[k]
  BY ONLY <1>2
<1>5. x <= more
  BY ONLY <1>3, <1>4, max <= more, max \in Nat, more \in Nat, x \in Nat
<1>6. QED
  BY <1>4, <1>5

LEMMA ContentsIs ==
  ASSUME NEW lines \in Seq(Lines)
  PROVE  Contents(lines) \in Seq(Nat)
<1>1. PICK l \in Nat : l = Len(lines)
  OBVIOUS
<1>2. DOMAIN lines = 1..l /\ \A k \in 1..l : lines[k].message \in Nat
  <2>1. DOMAIN lines = 1..l /\ \A k \in 1..l : lines[k] \in Lines
    BY ONLY <1>1, lines \in Seq(Lines), SeqIs
  <2>2. QED
    BY ONLY <2>1 DEF Lines
<1>3. PICK c : c = Contents(lines)
  OBVIOUS
<1>4. c \in [1..l -> Nat]
  BY ONLY <1>2, <1>3 DEF Contents
<1>5. c \in Seq(Nat)
  BY ONLY <1>4, l \in Nat
<1>6. QED
  BY <1>3, <1>5

LEMMA SessionKept ==
  ASSUME FolderInv, NEW j \in Ids, Untouched(j)
  PROVE  SessionOK(j)'
<1>1. PICK s : s = Sessions[j]
  OBVIOUS
<1>2. PICK q : q = sent[j]
  OBVIOUS
<1>3. place \in Roots /\ s \in SessionType /\ count \in Nat /\ q \in Seq(Nat)
  BY <1>1, <1>2 DEF FolderInv, FolderOK, FolderType, Sessions
<1>4. s.lines \in Seq(Lines)
  BY <1>3 DEF SessionType
<1>5. Sessions'[j] = s /\ place' = place /\ sent'[j] = q
  BY <1>1, <1>2 DEF Untouched, Sessions
<1>6. (j \in born' <=> j \in born) /\ (j \in making' => j \in making)
  BY DEF Untouched
<1>7. \A m \in Nat : <<j, m>> \in damaged' <=> <<j, m>> \in damaged
  BY DEF Untouched
<1>8. <<j, 0>> \in damaged' <=> <<j, 0>> \in damaged
  BY <1>7
<1>9. FileOf(j)'
  <2>1. /\ j \in born <=> s.is = "file"
        /\ j \in making => s.is = "directory"
        /\ j \notin born => q = <<>> /\ <<j, 0>> \notin damaged
        /\ j \in born =>
             /\ s.root \in Roots /\ s.work = Here
             /\ s.header = "bad" => <<j, 0>> \in damaged
             /\ s.run = "running" => s.header # "long"
    BY <1>1, <1>2 DEF FolderInv, SessionOK, FileOf
  <2>2. QED
    BY <1>5, <1>6, <1>8, <2>1 DEF FileOf
<1>10. OrderOf(j)'
  <2>1. Numbered(q, count) /\ (j \in born => Numbered(Contents(s.lines), count))
        /\ \A m \in Nat : <<j, m>> \in damaged => m <= count
    BY <1>1, <1>2 DEF FolderInv, SessionOK, OrderOf
  <2>2. PICK more \in Nat : more = count' /\ count <= more
    BY DEF Untouched
  <2>3. Numbered(q, more)
    BY ONLY <1>3, <2>1, <2>2, MoreNumbers
  <2>4. PICK c : c = Contents(s.lines)
    OBVIOUS
  <2>5. j \in born => Numbered(c, more)
    <3>1. c \in Seq(Nat)
      BY <1>4, <2>4, ContentsIs
    <3>2. QED
      BY ONLY <1>3, <2>1, <2>2, <2>4, <3>1, MoreNumbers
  <2>6. \A m \in Nat : <<j, m>> \in damaged' => m <= more
    BY <1>3, <1>7, <2>1, <2>2
  <2>7. Contents(s.lines)' = c
    BY <2>4 DEF Contents
  <2>8. QED
    BY <1>5, <1>6, <2>2, <2>3, <2>4, <2>5, <2>6 DEF OrderOf
<1>11. Due(j)' = Due(j)
  <2>1. \A m \in Elements(q) : m \in Nat
    <3>1. \A k \in DOMAIN q : q[k] \in Nat
      BY ONLY <1>3, SeqIs
    <3>2. QED
      BY <3>1 DEF Elements
  <2>2. {m \in Elements(q) : <<j, m>> \notin damaged'} = {m \in Elements(q) : <<j, m>> \notin damaged}
    BY <1>7, <2>1
  <2>3. QED
    BY <1>2, <1>5, <2>2 DEF Due
<1>12. AnchoredOf(j)'
  <2>1. SUFFICES ASSUME j \in born, s.root = place \/ folder'[s.root] = NoFolder
                 PROVE  /\ Held(s.lines) = Due(j)
                        /\ host' = "open" /\ <<j, 0>> \notin damaged' /\ s.run = "running"
                             => j \in active' \cup unended'
    BY <1>5, <1>6, <1>11 DEF AnchoredOf, Anchored, Whole
  <2>2. s.root \in Roots
    BY <1>1, <2>1 DEF FolderInv, SessionOK, FileOf
  <2>3. Anchored(j)
    BY <1>1, <2>1, <2>2 DEF Anchored, Untouched
  <2>4. /\ Held(s.lines) = Due(j)
        /\ host = "open" /\ <<j, 0>> \notin damaged /\ s.run = "running" => j \in active \cup unended
    BY <1>1, <2>1, <2>3 DEF FolderInv, SessionOK, AnchoredOf, Whole
  <2>5. QED
    BY <1>8, <2>4 DEF Untouched
<1>13. QED
  BY <1>9, <1>10, <1>12 DEF SessionOK

LEMMA FolderStarts == ASSUME FolderInit PROVE FolderInv
<1>1. NoSession \in SessionType
  <2>1. <<>> \in Seq(Lines)
    OBVIOUS
  <2>2. QED
    BY <2>1 DEF NoSession, SessionType
<1>2. NoFolder \in FolderType
  <2>1. [i \in Ids |-> NoSession] \in [Ids -> SessionType]
    BY <1>1
  <2>2. QED
    BY <2>1 DEF NoFolder, FolderType
<1>3. <<>> \in Seq(Nat)
  OBVIOUS
<1>4. FolderOK
  BY <1>2, <1>3 DEF FolderInit, FolderOK, NoFolder
<1>5. ASSUME NEW i \in Ids PROVE SessionOK(i)
  <2>1. Sessions[i] = NoSession
    BY DEF FolderInit, Sessions, NoFolder
  <2>2. i \notin born /\ making = {} /\ damaged = {} /\ sent[i] = <<>> /\ count = 0
    BY DEF FolderInit
  <2>3. FileOf(i)
    BY <2>1, <2>2 DEF FileOf, NoSession
  <2>4. Numbered(<<>>, 0)
    BY DEF Numbered, Rising
  <2>5. OrderOf(i)
    BY <2>2, <2>4, Zenon DEF OrderOf
  <2>6. AnchoredOf(i)
    BY <2>2, Zenon DEF AnchoredOf
  <2>7. QED
    BY <2>3, <2>5, <2>6 DEF SessionOK
<1>6. QED
  BY <1>4, <1>5 DEF FolderInv

\* Steps that write no session.
LEMMA StartKeeps == ASSUME FolderInv, StartMade \/ StartCut PROVE FolderInv'
<1>1. /\ host = "off" /\ place' = place /\ born' = born /\ making' = making /\ active' = active
      /\ sent' = sent /\ damaged' = damaged /\ count' = count /\ unended' = unended
      /\ folder[place].config = "none"
  BY DEF StartMade, StartCut, bounds, histories
<1>2. FolderOK
  BY DEF FolderInv
<1>3. PICK x \in FolderType : /\ folder' = [folder EXCEPT ![place] = x]
                              /\ x.sessions = folder[place].sessions
                              /\ host' = "open" => x.config = "whole"
                              /\ x.config = "whole" => x.id = known'
                              /\ known' \in Nat /\ host' \in {"off", "open"}
  <2>1. folder[place] \in FolderType /\ known \in Nat
    BY <1>2 DEF FolderOK
  <2>2. CASE StartMade
    <3>1. PICK x : x = [folder[place] EXCEPT !.config = "whole", !.id = known + 1]
      OBVIOUS
    <3>2. x \in FolderType /\ x.sessions = folder[place].sessions /\ x.config = "whole" /\ x.id = known + 1
      <4>1. PICK y : y = [folder[place] EXCEPT !.config = "whole"]
        OBVIOUS
      <4>2. y \in FolderType /\ y.sessions = folder[place].sessions /\ y.config = "whole"
        BY <2>1, <4>1 DEF FolderType
      <4>3. x = [y EXCEPT !.id = known + 1]
        BY <3>1, <4>1
      <4>4. QED
        BY ONLY <2>1, <4>2, <4>3 DEF FolderType
    <3>3. folder' = [folder EXCEPT ![place] = x]
      <4>1. folder' = [folder EXCEPT ![place].config = "whole", ![place].id = known + 1]
        BY <2>2 DEF StartMade
      <4>2. DOMAIN folder = Roots /\ place \in Roots
        BY <1>2 DEF FolderOK
      <4>3. QED
        BY <3>1, <4>1, <4>2
    <3>4. host' = "open" /\ known' = known + 1
      BY ONLY <2>2 DEF StartMade
    <3>5. (host' = "open" => x.config = "whole") /\ (x.config = "whole" => x.id = known')
          /\ known' \in Nat /\ host' \in {"off", "open"}
      BY ONLY <2>1, <3>2, <3>4
    <3>6. QED
      BY ONLY <3>2, <3>3, <3>5, Zenon
  <2>3. CASE StartCut
    <3>1. PICK x : x = [folder[place] EXCEPT !.config = "cut"]
      OBVIOUS
    <3>2. x \in FolderType /\ x.sessions = folder[place].sessions /\ x.config = "cut"
      BY <2>1, <3>1 DEF FolderType
    <3>3. folder' = [folder EXCEPT ![place] = x]
      BY <2>3, <3>1 DEF StartCut
    <3>4. QED
      BY <1>1, <2>1, <2>3, <3>2, <3>3 DEF StartCut, histories
  <2>4. QED
    BY <2>2, <2>3
<1>4. place \in Roots /\ folder \in [Roots -> FolderType]
  BY <1>2 DEF FolderOK
<1>5. folder' \in [Roots -> FolderType] /\ folder'[place] = x
      /\ \A r \in Roots : r # place => folder'[r] = folder[r]
  BY <1>3, <1>4
<1>6. born = {} /\ making = {}
  BY <1>1, <1>2 DEF FolderOK
<1>7. FolderOK'
  <2>1. /\ place' \in Roots /\ count' \in Nat /\ sent' \in [Ids -> Seq(Nat)] /\ active' = {}
        /\ born' = {} /\ making' = {}
    BY <1>1, <1>2, <1>6 DEF FolderOK
  <2>2. QED
    BY <1>1, <1>3, <1>5, <2>1 DEF FolderOK
<1>8. ASSUME NEW j \in Ids PROVE SessionOK(j)'
  <2>1. PICK s : s = Sessions[j]
    OBVIOUS
  <2>2. Sessions'[j] = s
    BY <1>1, <1>3, <1>5, <2>1 DEF Sessions
  <2>3. FileOf(j)'
    BY <1>1, <1>6, <2>1, <2>2 DEF FolderInv, SessionOK, FileOf
  <2>4. OrderOf(j)'
    BY <1>1, <1>6, Zenon DEF FolderInv, SessionOK, OrderOf
  <2>5. AnchoredOf(j)'
    BY <1>1, <1>6, Zenon DEF AnchoredOf
  <2>6. QED
    BY <2>3, <2>4, <2>5 DEF SessionOK
<1>9. QED
  BY <1>7, <1>8 DEF FolderInv

LEMMA RestKeeps ==
  ASSUME FolderInv, NEW i, Stop \/ CreateFailed(i) \/ EndRunUnsaved(i)
  PROVE  FolderInv'
<1>1. /\ place' = place /\ folder' = folder /\ born' = born /\ sent' = sent /\ damaged' = damaged
      /\ count' = count /\ known' = known /\ making' \subseteq making
  BY DEF Stop, CreateFailed, EndRunUnsaved, bounds, histories
<1>2. /\ host' \in {"off", "open"} /\ (host' = "off" => making' = {} /\ active' = {})
      /\ (host' = "open" => host = "open")
      /\ \A j : host' = "open" /\ j \in active \cup unended => j \in active' \cup unended'
  <2>1. CASE Stop
    BY <2>1 DEF Stop, FolderInv, FolderOK
  <2>2. CASE CreateFailed(i)
    BY <1>1, <2>2 DEF CreateFailed, FolderInv, FolderOK, histories
  <2>3. CASE EndRunUnsaved(i)
    BY <2>3 DEF EndRunUnsaved, FolderInv, FolderOK
  <2>4. QED
    BY <2>1, <2>2, <2>3
<1>3. FolderOK'
  BY <1>1, <1>2 DEF FolderInv, FolderOK
<1>4. ASSUME NEW j \in Ids PROVE SessionOK(j)'
  <2>1. count \in Nat
    BY DEF FolderInv, FolderOK
  <2>2. Untouched(j)
    BY <1>1, <1>2, <2>1 DEF Untouched
  <2>3. QED
    BY <2>2, SessionKept
<1>5. QED
  BY <1>3, <1>4 DEF FolderInv

\* The first of two steps of a creation.
LEMMA CreateKeeps == ASSUME FolderInv, NEW i \in Ids, Create(i) PROVE FolderInv'
<1>1. FolderOK /\ place \in Roots /\ folder \in [Roots -> FolderType]
  BY DEF FolderInv, FolderOK
<1>2. Sessions[i].is = "none"
  BY DEF Create, UniqueIds, Directories
<1>3. PICK w : w = OnlyDirectory
  OBVIOUS
<1>4. w \in SessionType /\ w.is = "directory"
  <2>1. <<>> \in Seq(Lines)
    OBVIOUS
  <2>2. QED
    BY <1>3, <2>1 DEF OnlyDirectory, NoSession, SessionType
<1>5. folder' = Place(place, i, w)
  <2>1. folder[place].sessions[i].is = "none"
    BY <1>2 DEF Sessions
  <2>2. QED
    BY <1>3, <2>1 DEF Create, Place
<1>6. IsPlaced(folder', place, i, w)
  BY <1>1, <1>4, <1>5, Placed
<1>7. /\ folder' \in [Roots -> FolderType]
      /\ \A r \in Roots : r # place => folder'[r] = folder[r]
      /\ folder'[place].config = folder[place].config /\ folder'[place].id = folder[place].id
      /\ folder'[place].sessions[i] = w
      /\ \A j \in Ids : j # i => folder'[place].sessions[j] = folder[place].sessions[j]
  BY ONLY <1>6, Zenon DEF IsPlaced
<1>8. /\ host = "open" /\ host' = host /\ place' = place /\ making' = making \cup {i}
      /\ born' = born /\ sent' = sent /\ damaged' = damaged /\ count' = count
      /\ known' = known /\ active' = active /\ unended' = unended
  BY DEF Create, bounds, histories
<1>9. i \notin born
  BY <1>2 DEF FolderInv, SessionOK, FileOf
<1>10. FolderOK'
  BY <1>1, <1>7, <1>8 DEF FolderOK
<1>11. ASSUME NEW j \in Ids PROVE SessionOK(j)'
  <2>1. CASE j # i
    <3>1. count \in Nat
      BY <1>1 DEF FolderOK
    <3>2. Untouched(j)
      BY <1>7, <1>8, <2>1, <3>1 DEF Untouched
    <3>3. QED
      BY <3>2, SessionKept
  <2>2. CASE j = i
    <3>1. sent[i] = <<>> /\ <<i, 0>> \notin damaged
      BY <1>9 DEF FolderInv, SessionOK, FileOf
    <3>2. Sessions'[i] = w
      BY <1>7, <1>8 DEF Sessions
    <3>3. FileOf(i)'
      BY <1>4, <1>8, <1>9, <3>1, <3>2 DEF FileOf
    <3>4. OrderOf(i)'
      BY <1>8, <1>9, Zenon DEF FolderInv, SessionOK, OrderOf
    <3>5. AnchoredOf(i)'
      BY <1>8, <1>9, Zenon DEF AnchoredOf
    <3>6. QED
      BY <2>2, <3>3, <3>4, <3>5, Zenon DEF SessionOK
  <2>3. QED
    BY <2>1, <2>2
<1>12. QED
  BY <1>10, <1>11 DEF FolderInv

\* The second one.
LEMMA CreatedKeeps == ASSUME FolderInv, NEW i \in Ids, Created(i) PROVE FolderInv'
<1>1. FolderOK /\ place \in Roots /\ folder \in [Roots -> FolderType]
  BY DEF FolderInv, FolderOK
<1>2. PICK new : new = [NoSession EXCEPT !.is = "file", !.root = place, !.work = place]
  OBVIOUS
<1>3. /\ new \in SessionType /\ new.is = "file" /\ new.root = place /\ new.work = place
      /\ new.header = "short" /\ new.run = "none" /\ new.lines = <<>>
  <2>1. <<>> \in Seq(Lines)
    OBVIOUS
  <2>2. new = [is |-> "file", header |-> "short", root |-> place, work |-> place,
               archived |-> FALSE, run |-> "none", lines |-> <<>>]
    BY <1>2 DEF NoSession
  <2>3. QED
    BY <1>1, <2>1, <2>2 DEF SessionType
<1>4. folder' = Saved(folder, i, new)
  BY <1>2 DEF Created
<1>5. /\ folder' \in [Roots -> FolderType]
      /\ folder'[place].config = folder[place].config /\ folder'[place].id = folder[place].id
      /\ \A j \in Ids : j # i => folder'[place].sessions[j] = folder[place].sessions[j]
      /\ folder'[place].sessions[i].is = "file" /\ folder'[place].sessions[i].root = place
      /\ folder'[place].sessions[i].header = "short"
      /\ folder'[place].sessions[i].run = "none"
      /\ folder'[place].sessions[i].lines = <<>>
      /\ folder'[place].sessions[i].work = Here
      /\ \A r \in Roots : r # place /\ folder'[r] = NoFolder => folder[r] = NoFolder
  BY <1>1, <1>3, <1>4, SavedIs
<1>6. /\ host' = host /\ place' = place /\ i \in making /\ making' = making \ {i}
      /\ born' = born \cup {i} /\ sent' = sent /\ damaged' = damaged /\ count' = count
      /\ known' = known /\ active' = active /\ unended' = unended
  BY DEF Created, bounds
<1>7. i \notin born /\ host = "open"
  BY <1>6 DEF FolderInv, FolderOK, SessionOK, FileOf
<1>8. FolderOK'
  BY <1>1, <1>5, <1>6, <1>7 DEF FolderOK
<1>9. ASSUME NEW j \in Ids PROVE SessionOK(j)'
  <2>1. CASE j # i
    <3>1. count \in Nat
      BY <1>1 DEF FolderOK
    <3>2. Untouched(j)
      BY <1>5, <1>6, <2>1, <3>1 DEF Untouched
    <3>3. QED
      BY <3>2, SessionKept
  <2>2. CASE j = i
    <3>1. sent[i] = <<>> /\ <<i, 0>> \notin damaged
      BY <1>7 DEF FolderInv, SessionOK, FileOf
    <3>2. PICK s : s = Sessions'[i]
      OBVIOUS
    <3>3. /\ s.is = "file" /\ s.root = place /\ s.header = "short" /\ s.run = "none"
          /\ s.lines = <<>> /\ s.work = Here
      BY <1>5, <1>6, <3>2 DEF Sessions
    <3>4. FileOf(i)'
      BY <1>1, <1>6, <3>1, <3>2, <3>3 DEF FileOf
    <3>5. OrderOf(i)'
      <4>1. Contents(<<>>) = <<>>
        BY DEF Contents
      <4>2. \A max : Numbered(<<>>, max)
        BY DEF Numbered, Rising
      <4>3. Contents(s.lines)' = <<>> /\ Sessions'[i].lines = <<>>
        BY <3>2, <3>3, <4>1 DEF Contents
      <4>4. \A m \in Nat : <<i, m>> \in damaged => m <= count
        BY DEF FolderInv, SessionOK, OrderOf
      <4>5. QED
        BY <1>6, <3>1, <4>1, <4>2, <4>3, <4>4, Zenon DEF OrderOf
    <3>6. Held(<<>>) = {} /\ Due(i)' = {}
      BY <1>6, <3>1 DEF Held, Due, Elements
    <3>7. AnchoredOf(i)'
      <4>1. Held(Sessions[i].lines)' = {}
        BY <3>2, <3>3, <3>6 DEF Held
      <4>2. Sessions'[i].run # "running"
        BY <3>2, <3>3
      <4>3. QED
        BY <3>6, <4>1, <4>2, Zenon DEF AnchoredOf
    <3>8. QED
      BY <2>2, <3>4, <3>5, <3>7, Zenon DEF SessionOK
  <2>3. QED
    BY <2>1, <2>2
<1>10. QED
  BY <1>8, <1>9 DEF FolderInv

\* A save of a session that loads, for what a mutation may make of it.
LEMMA SaveOfSession ==
  ASSUME FolderInv, NEW i \in Ids, i \in born, NEW new \in SessionType,
         new.is = "file", new.root = Sessions[i].root, new.work = Here, new.header # "bad",
         new.run = "running" => new.header # "long",
         folder' = Saved(folder, i, new),
         /\ place' = place /\ born' = born /\ making' = making /\ damaged' = damaged
         /\ known' = known /\ host = "open" /\ host' = host,
         count' \in Nat, count <= count', sent' \in [Ids -> Seq(Nat)],
         \A j \in Ids : j # i => sent'[j] = sent[j],
         \A j : j # i /\ j \in active \cup unended => j \in active' \cup unended',
         Numbered(sent'[i], count'), Numbered(Contents(new.lines), count'),
         Held(Sessions[i].lines) = Due(i) => Held(new.lines) = Due(i)',
         new.run = "running" /\ Anchored(i) /\ i \in Whole => i \in active' \cup unended'
  PROVE  FolderInv'
<1>1. FolderOK /\ place \in Roots /\ folder \in [Roots -> FolderType]
  BY DEF FolderInv, FolderOK
<1>2. new.root \in Roots
  BY DEF FolderInv, SessionOK, FileOf
<1>3. /\ folder' \in [Roots -> FolderType]
      /\ folder'[place].config = folder[place].config /\ folder'[place].id = folder[place].id
      /\ \A j \in Ids : j # i => folder'[place].sessions[j] = folder[place].sessions[j]
      /\ \A r \in Roots : r # place /\ folder'[r] = NoFolder => folder[r] = NoFolder
  BY <1>1, <1>2, SavedIs
<1>4. new.root # place =>
        folder'[place].sessions[i] = folder[place].sessions[i] /\ folder'[new.root] # NoFolder
  BY <1>1, <1>2, SavedIs
<1>5. new.root = place =>
        /\ folder'[place].sessions[i].is = "file" /\ folder'[place].sessions[i].root = place
        /\ folder'[place].sessions[i].header = new.header
        /\ folder'[place].sessions[i].run = new.run
        /\ folder'[place].sessions[i].lines = new.lines
        /\ folder'[place].sessions[i].work = Here
  BY <1>1, <1>2, SavedIs
<1>6. FolderOK'
  BY <1>1, <1>3 DEF FolderOK
<1>7. ASSUME NEW j \in Ids, j # i PROVE SessionOK(j)'
  <2>1. Untouched(j)
    BY <1>3, <1>7 DEF Untouched
  <2>2. QED
    BY <2>1, SessionKept
<1>8. OrderOf(i) /\ FileOf(i) /\ AnchoredOf(i) /\ count \in Nat
  BY DEF FolderInv, SessionOK, FolderOK
<1>9. PICK s : s = Sessions'[i]
  OBVIOUS
<1>10. PICK old : old = Sessions[i]
  OBVIOUS
<1>11. \A m \in Nat : <<i, m>> \in damaged => m <= count'
  <2>1. \A m \in Nat : <<i, m>> \in damaged => m <= count
    BY <1>8 DEF OrderOf
  <2>2. QED
    BY <1>8, <2>1
<1>12. ASSUME new.root = place PROVE SessionOK(i)'
  <2>1. /\ s.is = "file" /\ s.root = place /\ s.header = new.header /\ s.run = new.run
        /\ s.lines = new.lines /\ s.work = Here
    BY <1>5, <1>9, <1>12 DEF Sessions
  <2>2. FileOf(i)'
    <3>1. i \in making => FALSE
      BY <1>8 DEF FileOf
    <3>2. QED
      BY <1>1, <1>9, <2>1, <3>1 DEF FileOf
  <2>3. OrderOf(i)'
    <3>1. Contents(Sessions[i].lines)' = Contents(new.lines)
      BY <1>9, <2>1 DEF Contents
    <3>2. QED
      BY <1>11, <3>1, Zenon DEF OrderOf
  <2>4. AnchoredOf(i)'
    <3>1. Anchored(i)
      BY <1>12 DEF Anchored
    <3>2. Held(old.lines) = Due(i)
      BY <1>8, <1>10, <3>1, Zenon DEF AnchoredOf
    <3>3. Held(new.lines) = Due(i)'
      BY <1>10, <3>2
    <3>4. Held(Sessions[i].lines)' = Held(new.lines)
      BY <1>9, <2>1 DEF Held
    <3>5. i \in Whole' => i \in Whole
      BY DEF Whole
    <3>6. Sessions'[i].run = new.run
      BY <1>9, <2>1
    <3>7. QED
      BY <3>1, <3>3, <3>4, <3>5, <3>6, Zenon DEF AnchoredOf
  <2>5. QED
    BY <2>2, <2>3, <2>4 DEF SessionOK
<1>13. ASSUME new.root # place PROVE SessionOK(i)'
  <2>1. s = old /\ s.root = new.root /\ folder'[s.root] # NoFolder
    BY <1>4, <1>9, <1>10, <1>13 DEF Sessions
  <2>2. FileOf(i)'
    BY <1>8, <1>9, <1>10, <2>1 DEF FileOf
  <2>3. OrderOf(i)'
    <3>1. Contents(Sessions[i].lines)' = Contents(old.lines)
      BY <1>9, <2>1 DEF Contents
    <3>2. Numbered(Contents(old.lines), count)
      BY <1>8, <1>10 DEF OrderOf
    <3>3. old.lines \in Seq(Lines)
      BY <1>1, <1>10 DEF Sessions, FolderType, SessionType
    <3>4. PICK c : c = Contents(old.lines)
      OBVIOUS
    <3>5. c \in Seq(Nat)
      BY <3>3, <3>4, ContentsIs
    <3>6. PICK more \in Nat : more = count' /\ count <= more
      OBVIOUS
    <3>7. Numbered(c, more)
      BY ONLY <1>8, <3>2, <3>4, <3>5, <3>6, MoreNumbers
    <3>8. QED
      BY <1>11, <3>1, <3>4, <3>6, <3>7, Zenon DEF OrderOf
  <2>4. ~Anchored(i)'
    BY <1>9, <1>13, <2>1 DEF Anchored
  <2>5. AnchoredOf(i)'
    BY <2>4, Zenon DEF AnchoredOf
  <2>6. QED
    BY <2>2, <2>3, <2>5 DEF SessionOK
<1>14. SessionOK(i)'
  BY <1>12, <1>13
<1>15. QED
  BY <1>6, <1>7, <1>14 DEF FolderInv

\* What a load gives.
LEMMA LoadedIs ==
  ASSUME FolderInv, NEW i \in Ids, Loads(i), NEW s, s = Session(i)
  PROVE  /\ i \in born /\ s \in SessionType /\ s.is = "file" /\ s.work = Here
         /\ s.root = Sessions[i].root /\ s.header = Sessions[i].header /\ s.header # "bad"
         /\ s.run = Sessions[i].run /\ (s.run = "running" => s.header # "long")
         /\ Numbered(Contents(s.lines), count) /\ Held(s.lines) = Held(Sessions[i].lines)
<1>1. PICK old : old = Sessions[i]
  OBVIOUS
<1>2. old \in SessionType /\ old.lines \in Seq(Lines) /\ count \in Nat
  BY <1>1 DEF FolderInv, FolderOK, FolderType, Sessions, SessionType
<1>3. old.is = "file" /\ old.header # "bad"
  BY <1>1 DEF Loads
<1>4. i \in born /\ old.work = Here /\ (old.run = "running" => old.header # "long")
  BY <1>1, <1>3 DEF FolderInv, SessionOK, FileOf
<1>5. Numbered(Contents(old.lines), count)
  BY <1>1, <1>4 DEF FolderInv, SessionOK, OrderOf
<1>6. PICK q : q = Readable(old.lines)
  OBVIOUS
<1>7. q \in Seq(Lines) /\ Numbered(Contents(q), count) /\ Held(q) = Held(old.lines)
  BY ONLY <1>2, <1>5, <1>6, ReadableIs
<1>8. s = [old EXCEPT !.lines = q]
  BY <1>1, <1>6 DEF Session, Messages
<1>9. /\ s \in SessionType /\ s.is = old.is /\ s.work = old.work /\ s.root = old.root
      /\ s.header = old.header /\ s.run = old.run /\ s.lines = q
  BY ONLY <1>2, <1>7, <1>8 DEF SessionType
<1>10. QED
  BY <1>1, <1>3, <1>4, <1>7, <1>9

\* The mutations.
LEMMA SubmitKeeps == ASSUME FolderInv, NEW i \in Ids, Submit(i) PROVE FolderInv'
<1>1. FolderOK
  BY DEF FolderInv
<1>2. PICK s : s = Session(i)
  OBVIOUS
<1>3. host = "open" /\ Loads(i)
  BY DEF Submit, Mutates
<1>4. /\ i \in born /\ s \in SessionType /\ s.is = "file" /\ s.work = Here
      /\ s.root = Sessions[i].root /\ s.header # "bad"
      /\ Numbered(Contents(s.lines), count) /\ Held(s.lines) = Held(Sessions[i].lines)
  BY <1>2, <1>3, LoadedIs
<1>5. PICK n \in Nat : n = count
  BY <1>1 DEF FolderOK
<1>6. PICK q : q = Append(s.lines, Line(n + 1))
  OBVIOUS
<1>7. s.lines \in Seq(Lines)
  BY <1>4 DEF SessionType
<1>8. /\ q \in Seq(Lines) /\ Numbered(Contents(q), n + 1)
      /\ \A m : m \in Held(q) <=> m \in Held(s.lines) \/ m = n + 1
  <2>1. n + 1 \in Nat
    OBVIOUS
  <2>2. /\ q \in Seq(Lines) /\ Contents(s.lines) \in Seq(Nat)
        /\ Contents(q) = Append(Contents(s.lines), n + 1)
        /\ \A m : m \in Held(q) <=> m \in Held(s.lines) \/ m = n + 1
    BY ONLY <1>6, <1>7, <2>1, LineAppended
  <2>3. PICK c \in Seq(Nat) : c = Contents(s.lines)
    BY <2>2
  <2>4. Numbered(Append(c, n + 1), n + 1)
    BY <1>4, <1>5, <2>3, NumberAppended
  <2>5. QED
    BY <2>2, <2>3, <2>4
<1>9. PICK new : new = [s EXCEPT !.run = "running", !.header = "short", !.lines = q]
  OBVIOUS
<1>10. /\ new \in SessionType /\ new.is = "file" /\ new.work = Here /\ new.root = s.root
       /\ new.header = "short" /\ new.run = "running" /\ new.lines = q
  <2>1. PICK a : a = [s EXCEPT !.run = "running"]
    OBVIOUS
  <2>2. a \in SessionType /\ a.is = "file" /\ a.work = Here /\ a.root = s.root /\ a.run = "running"
    BY ONLY <1>4, <2>1 DEF SessionType
  <2>3. PICK b : b = [a EXCEPT !.header = "short"]
    OBVIOUS
  <2>4. /\ b \in SessionType /\ b.is = "file" /\ b.work = Here /\ b.root = s.root
        /\ b.run = "running" /\ b.header = "short"
    BY ONLY <2>2, <2>3 DEF SessionType
  <2>5. new = [b EXCEPT !.lines = q]
    BY <1>9, <2>1, <2>3
  <2>6. QED
    BY ONLY <1>8, <2>4, <2>5 DEF SessionType
<1>11. folder' = Saved(folder, i, new)
  <2>1. folder' = Saved(folder, i, [s EXCEPT !.run = "running", !.header = "short",
                                             !.lines = Append(@, Line(count + 1))])
    BY <1>2, Zenon DEF Submit, Mutates
  <2>2. new = [s EXCEPT !.run = "running", !.header = "short",
                        !.lines = Append(@, Line(count + 1))]
    BY <1>5, <1>6, <1>9
  <2>3. QED
    BY <2>1, <2>2, Zenon
<1>12. /\ place' = place /\ born' = born /\ making' = making /\ damaged' = damaged
       /\ known' = known /\ host' = host /\ active' = active \cup {i} /\ unended' = unended \ {i}
       /\ count' = n + 1 /\ sent' = [sent EXCEPT ![i] = Append(@, n + 1)]
  BY <1>5 DEF Submit
<1>13. PICK t \in Seq(Nat) : t = sent[i]
  BY <1>1 DEF FolderOK
<1>14. Numbered(t, n) /\ \A m \in Nat : <<i, m>> \in damaged => m <= n
  BY <1>5, <1>13 DEF FolderInv, SessionOK, OrderOf
<1>15. /\ Append(t, n + 1) \in Seq(Nat) /\ Numbered(Append(t, n + 1), n + 1)
       /\ \A m : m \in Elements(Append(t, n + 1)) <=> m \in Elements(t) \/ m = n + 1
  BY ONLY <1>14, n \in Nat, t \in Seq(Nat), NumberAppended
<1>16. sent \in [Ids -> Seq(Nat)]
  BY <1>1 DEF FolderOK
<1>17. /\ sent' \in [Ids -> Seq(Nat)] /\ sent'[i] = Append(t, n + 1)
       /\ \A j \in Ids : j # i => sent'[j] = sent[j]
  BY <1>12, <1>13, <1>15, <1>16
<1>18. ASSUME Held(Sessions[i].lines) = Due(i) PROVE Held(q) = Due(i)'
  <2>1. <<i, n + 1>> \notin damaged
    BY <1>14
  <2>2. ASSUME NEW m PROVE m \in Due(i)' <=> m \in Due(i) \/ m = n + 1
    <3>1. m \in Due(i)' <=> m \in Elements(Append(t, n + 1)) /\ <<i, m>> \notin damaged
      BY <1>12, <1>17 DEF Due, Elements
    <3>2. m \in Due(i) <=> m \in Elements(t) /\ <<i, m>> \notin damaged
      BY <1>13 DEF Due
    <3>3. QED
      BY <1>15, <2>1, <3>1, <3>2
  <2>3. Held(s.lines) = Due(i)
    BY <1>4, <1>18
  <2>4. ASSUME NEW m PROVE m \in Held(q) <=> m \in Due(i)'
    BY <1>8, <2>2, <2>3
  <2>5. QED
    BY <2>4, Zenon
<1>19. i \in active' \cup unended' /\ (\A j : j # i /\ j \in active \cup unended => j \in active' \cup unended')
  BY <1>12
<1>20. QED
  <2>1. count' \in Nat /\ count <= count' /\ Numbered(sent'[i], count')
        /\ Numbered(Contents(new.lines), count')
    <3>1. count' \in Nat /\ count <= count'
      BY <1>5, <1>12
    <3>2. count' = n + 1 /\ sent'[i] = Append(t, n + 1) /\ new.lines = q
      BY ONLY <1>10, <1>12, <1>17, Zenon
    <3>3. Numbered(Append(t, n + 1), n + 1) /\ Numbered(Contents(q), n + 1)
      BY ONLY <1>8, <1>15, Zenon
    <3>4. QED
      BY ONLY <3>1, <3>2, <3>3, Zenon
  <2>2. Held(Sessions[i].lines) = Due(i) => Held(new.lines) = Due(i)'
    BY <1>10, <1>18
  <2>3. new.root = Sessions[i].root /\ new.header # "bad" /\ (new.run = "running" => new.header # "long")
    BY <1>4, <1>10
  <2>4. i \in born
    BY <1>4
  <2>5. QED
    BY <1>3, <1>10, <1>11, <1>12, <1>17, <1>19, <2>1, <2>2, <2>3, <2>4, SaveOfSession

LEMMA EndRunKeeps ==
  ASSUME FolderInv, NEW i \in Ids, NEW length \in {"short", "long"}, EndRun(i, length)
  PROVE  FolderInv'
<1>1. PICK s : s = Session(i)
  OBVIOUS
<1>2. /\ Loads(i) /\ host = "open" /\ active' = active \ {i} /\ place' = place /\ host' = host
      /\ making' = making /\ known' = known /\ born' = born /\ sent' = sent
      /\ unended' = unended /\ damaged' = damaged /\ count' = count
  BY DEF EndRun, Mutates, histories, bounds
<1>3. /\ i \in born /\ s \in SessionType /\ s.is = "file" /\ s.work = Here
      /\ s.root = Sessions[i].root
      /\ Numbered(Contents(s.lines), count) /\ Held(s.lines) = Held(Sessions[i].lines)
  BY <1>1, <1>2, LoadedIs
<1>4. PICK new : new = [s EXCEPT !.run = "ended", !.header = length]
  OBVIOUS
<1>5. /\ new \in SessionType /\ new.is = "file" /\ new.work = Here /\ new.root = s.root
      /\ new.header = length /\ new.run = "ended" /\ new.lines = s.lines
  <2>1. PICK a : a = [s EXCEPT !.run = "ended"]
    OBVIOUS
  <2>2. /\ a \in SessionType /\ a.is = "file" /\ a.work = Here /\ a.root = s.root
        /\ a.run = "ended" /\ a.lines = s.lines
    BY ONLY <1>3, <2>1 DEF SessionType
  <2>3. new = [a EXCEPT !.header = length]
    BY <1>4, <2>1
  <2>4. QED
    BY ONLY length \in {"short", "long"}, <2>2, <2>3 DEF SessionType
<1>6. folder' = Saved(folder, i, new)
  BY <1>1, <1>4, Zenon DEF EndRun, Mutates
<1>7. count \in Nat /\ sent \in [Ids -> Seq(Nat)] /\ Numbered(sent[i], count)
  BY DEF FolderInv, FolderOK, SessionOK, OrderOf
<1>8. count <= count
  BY <1>7
<1>9. Due(i)' = Due(i)
  BY <1>2 DEF Due
<1>10. new.header # "bad" /\ new.run # "running"
  BY <1>5
<1>11. \A j : j # i /\ j \in active \cup unended => j \in active' \cup unended'
  BY <1>2
<1>12. Held(Sessions[i].lines) = Due(i) => Held(new.lines) = Due(i)'
  BY <1>3, <1>5, <1>9
<1>13. Numbered(Contents(new.lines), count') /\ Numbered(sent'[i], count') /\ new.root = Sessions[i].root
  BY <1>2, <1>3, <1>5, <1>7
<1>14. QED
  BY <1>2, <1>3, <1>5, <1>6, <1>7, <1>8, <1>10, <1>11, <1>12, <1>13, SaveOfSession

LEMMA ArchiveKeeps ==
  ASSUME FolderInv, NEW i \in Ids, NEW flag \in BOOLEAN, Archive(i, flag)
  PROVE  FolderInv'
<1>1. PICK s : s = Session(i)
  OBVIOUS
<1>2. /\ Loads(i) /\ host = "open" /\ active' = active /\ place' = place /\ host' = host
      /\ making' = making /\ known' = known /\ born' = born /\ sent' = sent
      /\ unended' = unended /\ damaged' = damaged /\ count' = count
  BY DEF Archive, Mutates, histories, bounds
<1>3. /\ i \in born /\ s \in SessionType /\ s.is = "file" /\ s.work = Here
      /\ s.root = Sessions[i].root /\ s.header # "bad"
      /\ s.run = Sessions[i].run /\ (s.run = "running" => s.header # "long")
      /\ Numbered(Contents(s.lines), count) /\ Held(s.lines) = Held(Sessions[i].lines)
  BY <1>1, <1>2, LoadedIs
<1>4. PICK new : new = [s EXCEPT !.archived = flag]
  OBVIOUS
<1>5. /\ new \in SessionType /\ new.is = "file" /\ new.work = Here /\ new.root = s.root
      /\ new.header = s.header /\ new.run = s.run /\ new.lines = s.lines
  BY ONLY <1>3, <1>4, flag \in BOOLEAN DEF SessionType
<1>6. folder' = Saved(folder, i, new)
  BY <1>1, <1>4, Zenon DEF Archive, Mutates
<1>7. count \in Nat /\ sent \in [Ids -> Seq(Nat)] /\ Numbered(sent[i], count)
  BY DEF FolderInv, FolderOK, SessionOK, OrderOf
<1>8. count <= count
  BY <1>7
<1>9. Due(i)' = Due(i)
  BY <1>2 DEF Due
<1>10. new.header # "bad" /\ (new.run = "running" => new.header # "long")
  BY <1>3, <1>5
<1>11. \A j : j # i /\ j \in active \cup unended => j \in active' \cup unended'
  BY <1>2
<1>12. Held(Sessions[i].lines) = Due(i) => Held(new.lines) = Due(i)'
  BY <1>3, <1>5, <1>9
<1>13. Numbered(Contents(new.lines), count') /\ Numbered(sent'[i], count') /\ new.root = Sessions[i].root
  BY <1>2, <1>3, <1>5, <1>7
<1>14. new.run = "running" /\ Anchored(i) /\ i \in Whole => i \in active' \cup unended'
  <2>1. AnchoredOf(i)
    BY DEF FolderInv, SessionOK
  <2>2. QED
    BY <1>2, <1>3, <1>5, <2>1, Zenon DEF AnchoredOf
<1>15. QED
  BY <1>2, <1>3, <1>5, <1>6, <1>7, <1>8, <1>10, <1>11, <1>12, <1>13, <1>14, SaveOfSession

LEMMA DeleteKeeps == ASSUME FolderInv, NEW i \in Ids, Delete(i) PROVE FolderInv'
<1>1. FolderOK /\ place \in Roots /\ folder \in [Roots -> FolderType]
  BY DEF FolderInv, FolderOK
<1>2. PICK w : w = NoSession
  OBVIOUS
<1>3. w \in SessionType /\ w.is = "none"
  <2>1. <<>> \in Seq(Lines)
    OBVIOUS
  <2>2. QED
    BY <1>2, <2>1 DEF NoSession, SessionType
<1>4. folder' = Place(place, i, w)
  BY <1>2, Zenon DEF Delete, Place
<1>5. IsPlaced(folder', place, i, w)
  BY <1>1, <1>3, <1>4, Placed
<1>6. /\ folder' \in [Roots -> FolderType]
      /\ \A r \in Roots : r # place => folder'[r] = folder[r]
      /\ folder'[place].config = folder[place].config /\ folder'[place].id = folder[place].id
      /\ folder'[place].sessions[i] = w
      /\ \A j \in Ids : j # i => folder'[place].sessions[j] = folder[place].sessions[j]
  BY ONLY <1>5, Zenon DEF IsPlaced
<1>7. /\ host = "open" /\ host' = host /\ place' = place /\ making' = making /\ i \in born
      /\ born' = born \ {i} /\ sent' = [sent EXCEPT ![i] = <<>>]
      /\ damaged' = damaged \ {<<i, 0>>} /\ count' = count
      /\ known' = known /\ active' = active /\ unended' = unended
  BY DEF Delete, bounds
<1>8. sent \in [Ids -> Seq(Nat)] /\ count \in Nat
  BY <1>1 DEF FolderOK
<1>9. sent' \in [Ids -> Seq(Nat)] /\ sent'[i] = <<>> /\ \A j \in Ids : j # i => sent'[j] = sent[j]
  <2>1. <<>> \in Seq(Nat)
    OBVIOUS
  <2>2. QED
    BY <1>7, <1>8, <2>1
<1>10. FolderOK'
  BY <1>1, <1>6, <1>7, <1>9 DEF FolderOK
<1>11. ASSUME NEW j \in Ids PROVE SessionOK(j)'
  <2>1. CASE j # i
    <3>1. \A m \in Nat : <<j, m>> \in damaged' <=> <<j, m>> \in damaged
      BY <1>7, <2>1
    <3>2. Untouched(j)
      BY <1>6, <1>7, <1>8, <1>9, <2>1, <3>1 DEF Untouched
    <3>3. QED
      BY <3>2, SessionKept
  <2>2. CASE j = i
    <3>1. i \notin making /\ i \notin born'
      BY <1>7 DEF FolderInv, SessionOK, FileOf
    <3>2. Sessions'[i] = w /\ <<i, 0>> \notin damaged'
      BY <1>6, <1>7 DEF Sessions
    <3>3. FileOf(i)'
      BY <1>3, <1>7, <1>9, <3>1, <3>2 DEF FileOf
    <3>4. OrderOf(i)'
      <4>1. Numbered(<<>>, count)
        BY DEF Numbered, Rising
      <4>2. \A m \in Nat : <<i, m>> \in damaged' => m <= count
        BY <1>7 DEF FolderInv, SessionOK, OrderOf
      <4>3. QED
        BY <1>7, <1>9, <3>1, <4>1, <4>2, Zenon DEF OrderOf
    <3>5. AnchoredOf(i)'
      BY <3>1, Zenon DEF AnchoredOf
    <3>6. QED
      BY <2>2, <3>3, <3>4, <3>5, Zenon DEF SessionOK
  <2>3. QED
    BY <2>1, <2>2
<1>12. QED
  BY <1>10, <1>11 DEF FolderInv

\* Something becomes unreadable.
LEMMA DamageOf ==
  ASSUME FolderInv, NEW i \in Ids, NEW w \in SessionType, NEW m \in Nat, m <= count,
         Sessions[i].is = "file", w.is = "file", w.root = Sessions[i].root,
         w.work = Sessions[i].work, w.run = Sessions[i].run,
         w.header = Sessions[i].header \/ (w.header = "bad" /\ m = 0),
         Numbered(Contents(w.lines), count),
         folder' = Place(place, i, w), damaged' = damaged \cup {<<i, m>>},
         /\ place' = place /\ host' = host /\ making' = making /\ active' = active
         /\ known' = known /\ born' = born /\ sent' = sent /\ unended' = unended
         /\ count' = count,
         Held(Sessions[i].lines) = Due(i) => Held(w.lines) = Due(i)'
  PROVE  FolderInv'
<1>1. FolderOK /\ place \in Roots /\ folder \in [Roots -> FolderType] /\ count \in Nat
  BY DEF FolderInv, FolderOK
<1>2. IsPlaced(folder', place, i, w)
  BY <1>1, Placed
<1>3. /\ folder' \in [Roots -> FolderType]
      /\ \A r \in Roots : r # place => folder'[r] = folder[r]
      /\ folder'[place].config = folder[place].config /\ folder'[place].id = folder[place].id
      /\ folder'[place].sessions[i] = w
      /\ \A j \in Ids : j # i => folder'[place].sessions[j] = folder[place].sessions[j]
  BY ONLY <1>2, Zenon DEF IsPlaced
<1>4. FolderOK'
  BY <1>1, <1>3 DEF FolderOK
<1>5. ASSUME NEW j \in Ids, j # i PROVE SessionOK(j)'
  <2>1. \A k \in Nat : <<j, k>> \in damaged' <=> <<j, k>> \in damaged
    BY <1>5
  <2>2. count <= count /\ count' \in Nat
    BY <1>1
  <2>3. Untouched(j)
    BY <1>3, <1>5, <2>1, <2>2 DEF Untouched
  <2>4. QED
    BY <2>3, SessionKept
<1>6. PICK old : old = Sessions[i]
  OBVIOUS
<1>7. FileOf(i) /\ OrderOf(i) /\ AnchoredOf(i)
  BY DEF FolderInv, SessionOK
<1>8. i \in born /\ i \notin making
  BY <1>7 DEF FileOf
<1>9. Sessions'[i] = w
  BY <1>3 DEF Sessions
<1>10. old.root \in Roots /\ w.root = old.root /\ w.work = old.work /\ w.run = old.run
  BY <1>6, <1>7, <1>8 DEF FileOf
<1>11. FileOf(i)'
  <2>1. /\ w.work = Here /\ (w.header = "bad" => <<i, 0>> \in damaged')
        /\ (w.run = "running" => w.header # "long")
    BY <1>6, <1>7, <1>8, <1>10 DEF FileOf
  <2>2. QED
    BY <1>8, <1>9, <1>10, <2>1 DEF FileOf
<1>12. OrderOf(i)'
  <2>1. Contents(Sessions[i].lines)' = Contents(w.lines)
    BY <1>9 DEF Contents
  <2>2. \A k \in Nat : <<i, k>> \in damaged' => k <= count
    BY <1>7 DEF OrderOf
  <2>3. Numbered(sent[i], count)
    BY <1>7 DEF OrderOf
  <2>4. QED
    BY <2>1, <2>2, <2>3, Zenon DEF OrderOf
<1>13. AnchoredOf(i)'
  <2>1. SUFFICES ASSUME Anchored(i)'
                 PROVE  /\ Held(w.lines) = Due(i)'
                        /\ host = "open" /\ i \in Whole' /\ w.run = "running"
                             => i \in active \cup unended
    <3>1. Held(Sessions[i].lines)' = Held(w.lines)
      BY <1>9 DEF Held
    <3>2. QED
      BY <1>9, <3>1, Zenon DEF AnchoredOf
  <2>2. Anchored(i)
    BY <1>3, <1>6, <1>9, <1>10, <2>1 DEF Anchored
  <2>3. /\ Held(old.lines) = Due(i)
        /\ host = "open" /\ i \in Whole /\ old.run = "running" => i \in active \cup unended
    BY <1>6, <1>7, <1>8, <2>2, Zenon DEF AnchoredOf
  <2>4. i \in Whole' => i \in Whole
    BY DEF Whole
  <2>5. QED
    BY <1>6, <1>10, <2>3, <2>4, Zenon
<1>14. QED
  BY <1>4, <1>5, <1>11, <1>12, <1>13 DEF FolderInv, SessionOK

FromOne == \A i \in Ids : 0 \notin Elements(sent[i])
LEMMA DamageKeeps ==
  ASSUME FolderInv, FromOne, NEW i \in Ids, NEW n, Damage(i, n)
  PROVE  FolderInv'
<1>1. PICK old : old = Sessions[i]
  OBVIOUS
<1>2. old \in SessionType /\ old.lines \in Seq(Lines) /\ count \in Nat /\ place \in Roots
      /\ folder \in [Roots -> FolderType]
  BY <1>1 DEF FolderInv, FolderOK, FolderType, Sessions, SessionType
<1>3. /\ place' = place /\ host' = host /\ making' = making /\ active' = active
      /\ known' = known /\ born' = born /\ sent' = sent /\ unended' = unended
      /\ count' = count /\ old.is = "file"
  BY <1>1 DEF Damage
<1>4. i \in born /\ Numbered(Contents(old.lines), count)
  BY <1>1, <1>3 DEF FolderInv, SessionOK, FileOf, OrderOf
<1>5. CASE n = 0
  <2>1. folder' = [folder EXCEPT ![place].sessions[i].header = "bad"]
        /\ damaged' = damaged \cup {<<i, 0>>}
    BY <1>5 DEF Damage
  <2>2. PICK w : w = [old EXCEPT !.header = "bad"]
    OBVIOUS
  <2>3. /\ w \in SessionType /\ w.is = old.is /\ w.root = old.root /\ w.work = old.work
        /\ w.run = old.run /\ w.header = "bad" /\ w.lines = old.lines
    BY ONLY <1>2, <2>2 DEF SessionType
  <2>4. folder' = Place(place, i, w)
    BY <1>1, <2>1, <2>2, Zenon DEF Place, Sessions
  <2>5. Due(i)' = Due(i)
    <3>1. 0 \notin Elements(sent[i])
      BY DEF FromOne
    <3>2. ASSUME NEW m PROVE m \in Due(i)' <=> m \in Due(i)
      BY <1>3, <2>1, <3>1 DEF Due, Elements
    <3>3. QED
      BY <3>2, Zenon
  <2>6. 0 \in Nat /\ 0 <= count
    BY <1>2
  <2>7. Held(Sessions[i].lines) = Due(i) => Held(w.lines) = Due(i)'
    BY <1>1, <2>3, <2>5
  <2>8. QED
    BY <1>1, <1>3, <1>4, <2>1, <2>3, <2>4, <2>6, <2>7, DamageOf
<1>6. CASE n # 0
  <2>1. PICK v : v = old.lines
    OBVIOUS
  <2>2. /\ n \in DOMAIN v /\ damaged' = damaged \cup {<<i, v[n].message>>}
        /\ folder' = [folder EXCEPT ![place].sessions[i].lines[n].readable = FALSE]
    BY <1>1, <1>6, <2>1 DEF Damage
  <2>3. PICK q : q = [v EXCEPT ![n].readable = FALSE]
    OBVIOUS
  <2>4. Rising(Contents(v)) /\ \A k \in DOMAIN Contents(v) : Contents(v)[k] <= count
    BY <1>4, <2>1, Zenon DEF Numbered
  <2>5. /\ q \in Seq(Lines) /\ Contents(q) = Contents(v)
        /\ \A m : m \in Held(q) <=> m \in Held(v) /\ m # v[n].message
    <3>1. v \in Seq(Lines)
      BY ONLY <1>2, <2>1
    <3>2. Rising(Contents(v))
      BY ONLY <2>4
    <3>3. n \in DOMAIN v
      BY ONLY <2>2
    <3>4. q = Unread(v, n)
      BY ONLY <2>3, Zenon DEF Unread
    <3>5. IsUnread(Unread(v, n), v, n)
      BY ONLY <3>1, <3>2, <3>3, LineDamaged, Zenon
    <3>6. QED
      BY ONLY <3>4, <3>5, Zenon DEF IsUnread
  <2>6. PICK w : w = [old EXCEPT !.lines = q]
    OBVIOUS
  <2>7. /\ w \in SessionType /\ w.is = old.is /\ w.root = old.root /\ w.work = old.work
        /\ w.run = old.run /\ w.header = old.header /\ w.lines = q
    BY ONLY <1>2, <2>5, <2>6 DEF SessionType
  <2>8. folder' = Place(place, i, w)
    BY <1>1, <2>1, <2>2, <2>3, <2>6, Zenon DEF Place, Sessions
  <2>9. v[n].message \in Nat /\ v[n].message <= count
    <3>1. PICK c : c = Contents(v)
      OBVIOUS
    <3>2. c = [k \in DOMAIN v |-> v[k].message]
      BY <3>1 DEF Contents
    <3>3. c[n] = v[n].message /\ n \in DOMAIN c
      BY ONLY <2>2, <3>2
    <3>4. c \in Seq(Nat)
      BY <1>2, <2>1, <3>1, ContentsIs
    <3>5. c[n] \in Nat
      BY ONLY <3>3, <3>4, SeqIs
    <3>6. QED
      BY <2>4, <3>1, <3>3, <3>5
  <2>10. PICK x \in Nat : x = v[n].message /\ x <= count
    BY <2>9
  <2>11. damaged' = damaged \cup {<<i, x>>}
    BY <2>2, <2>10
  <2>12. ASSUME Held(Sessions[i].lines) = Due(i) PROVE Held(w.lines) = Due(i)'
    <3>1. ASSUME NEW m PROVE m \in Due(i)' <=> m \in Due(i) /\ m # x
      BY <1>3, <2>11 DEF Due, Elements
    <3>2. Held(v) = Due(i)
      BY <1>1, <2>1, <2>12
    <3>3. ASSUME NEW m PROVE m \in Held(q) <=> m \in Due(i)'
      BY <2>5, <2>10, <3>1, <3>2
    <3>4. QED
      BY <2>7, <3>3, Zenon
  <2>13. Numbered(Contents(w.lines), count)
    BY <1>4, <2>1, <2>5, <2>7
  <2>14. w.header = Sessions[i].header /\ Sessions[i].is = "file" /\ w.is = "file"
         /\ w.root = Sessions[i].root /\ w.work = Sessions[i].work /\ w.run = Sessions[i].run
    BY <1>1, <1>3, <2>7
  <2>15. QED
    BY <1>3, <2>7, <2>8, <2>10, <2>11, <2>12, <2>13, <2>14, DamageOf
<1>7. QED
  BY <1>5, <1>6

\* The folder is moved: where a session was made no folder is left, or this one.
LEMMA MoveKeeps == ASSUME FolderInv, NEW r \in Roots, MoveFolder(r) PROVE FolderInv'
<1>1. PICK p : p = place
  OBVIOUS
<1>2. PICK f : f = folder
  OBVIOUS
<1>3. FolderOK /\ p \in Roots /\ f \in [Roots -> FolderType] /\ r # p /\ f[r] = NoFolder
  BY <1>1, <1>2 DEF FolderInv, FolderOK, MoveFolder
<1>4. folder' = [f EXCEPT ![r] = f[p], ![p] = NoFolder]
  BY <1>1, <1>2, Zenon DEF MoveFolder
<1>5. /\ host = "off" /\ host' = host /\ place' = r /\ making' = making /\ active' = active
      /\ known' = known /\ born' = born /\ sent' = sent /\ unended' = unended
      /\ damaged' = damaged /\ count' = count
  BY DEF MoveFolder, histories
<1>6. PICK g : g = [f EXCEPT ![r] = f[p]]
  OBVIOUS
<1>7. PICK h : h = [g EXCEPT ![p] = NoFolder]
  OBVIOUS
<1>8. folder' = h
  BY <1>4, <1>6, <1>7, Zenon
<1>9. NoFolder \in FolderType
  BY <1>3
<1>10. /\ h \in [Roots -> FolderType] /\ h[r] = f[p]
       /\ \A q \in Roots : q # r /\ q # p => h[q] = f[q]
  BY ONLY <1>3, <1>6, <1>7, <1>9, r \in Roots
<1>11. FolderOK'
  <2>1. /\ folder'[place'].config = folder[place].config /\ folder'[place'].id = folder[place].id
        /\ place' \in Roots /\ folder' \in [Roots -> FolderType]
    BY <1>1, <1>2, <1>5, <1>8, <1>10
  <2>2. QED
    BY <1>3, <1>5, <2>1 DEF FolderOK
<1>12. ASSUME NEW j \in Ids PROVE SessionOK(j)'
  <2>1. PICK s : s = Sessions[j]
    OBVIOUS
  <2>2. Sessions'[j] = s
    BY <1>1, <1>2, <1>5, <1>8, <1>10, <2>1 DEF Sessions
  <2>3. FileOf(j) /\ OrderOf(j) /\ AnchoredOf(j)
    BY DEF FolderInv, SessionOK
  <2>4. FileOf(j)'
    BY <1>5, <2>1, <2>2, <2>3 DEF FileOf
  <2>5. OrderOf(j)'
    <3>1. Contents(Sessions[j].lines)' = Contents(Sessions[j].lines)
      BY <2>1, <2>2 DEF Contents
    <3>2. QED
      BY <1>5, <2>3, <3>1, Zenon DEF OrderOf
  <2>6. AnchoredOf(j)'
    <3>1. ASSUME j \in born, Anchored(j)' PROVE Anchored(j)
      <4>1. s.root \in Roots
        BY <2>1, <2>3, <3>1 DEF FileOf
      <4>2. s.root = r \/ h[s.root] = NoFolder
        BY <1>5, <1>8, <2>2, <3>1 DEF Anchored
      <4>3. s.root = p \/ f[s.root] = NoFolder
        BY <1>3, <1>10, <4>1, <4>2
      <4>4. QED
        BY <1>1, <1>2, <2>1, <4>3 DEF Anchored
    <3>2. Held(Sessions[j].lines)' = Held(Sessions[j].lines)
      BY <2>1, <2>2 DEF Held
    <3>3. Due(j)' = Due(j)
      BY <1>5 DEF Due, Elements
    <3>4. host' # "open"
      BY <1>5
    <3>5. QED
      BY <1>5, <2>3, <3>1, <3>2, <3>3, <3>4, Zenon DEF AnchoredOf
  <2>7. QED
    BY <2>4, <2>5, <2>6 DEF SessionOK
<1>13. QED
  BY <1>11, <1>12 DEF FolderInv

\* A start marks the runs that were cut off.
Ended(i) == Saved(folder, i, [Session(i) EXCEPT !.run = "ended"])[Sessions[i].root].sessions[i]
LEMMA EndedIs ==
  ASSUME FolderInv, NEW i \in Interrupted
  PROVE  /\ i \in Ids /\ i \in born /\ Sessions[i].root \in Roots
         /\ Ended(i) \in SessionType /\ Ended(i).is = "file"
         /\ Sessions[i].root = place =>
              /\ Ended(i).root = place /\ Ended(i).header = "short" /\ Ended(i).run = "ended"
              /\ Ended(i).lines = Messages(i) /\ Ended(i).work = Here
<1>1. PICK s : s = Session(i)
  OBVIOUS
<1>2. i \in Ids /\ Sessions[i].is = "file" /\ Sessions[i].header = "short" /\ Loads(i)
  BY DEF Interrupted, Headers, Loads
<1>3. /\ i \in born /\ s \in SessionType /\ s.is = "file" /\ s.work = Here
      /\ s.root = Sessions[i].root /\ s.header = "short"
  BY <1>1, <1>2, LoadedIs
<1>4. s.lines = Messages(i)
  <2>1. PICK q : q = Messages(i)
    OBVIOUS
  <2>2. PICK old : old = Sessions[i]
    OBVIOUS
  <2>3. s = [old EXCEPT !.lines = q] /\ old \in SessionType
    BY <1>1, <1>2, <2>1, <2>2 DEF Session, Sessions, FolderInv, FolderOK, FolderType
  <2>4. s.lines = q
    BY ONLY <2>3 DEF SessionType
  <2>5. QED
    BY <2>1, <2>4
<1>5. PICK new : new = [s EXCEPT !.run = "ended"]
  OBVIOUS
<1>6. /\ new \in SessionType /\ new.is = "file" /\ new.work = Here /\ new.root = s.root
      /\ new.header = "short" /\ new.run = "ended" /\ new.lines = s.lines
  BY ONLY <1>3, <1>5 DEF SessionType
<1>7. FolderOK /\ Sessions[i].root \in Roots /\ new.root \in Roots
  BY <1>2, <1>3, <1>6 DEF FolderInv, SessionOK, FileOf
<1>8. PICK f : f = Saved(folder, i, new)
  OBVIOUS
<1>9. /\ f \in [Roots -> FolderType] /\ f[new.root].sessions[i].is = "file"
      /\ new.root = place =>
           /\ f[place].sessions[i].root = place /\ f[place].sessions[i].header = new.header
           /\ f[place].sessions[i].run = new.run /\ f[place].sessions[i].lines = new.lines
           /\ new.work \in {Here, place} => f[place].sessions[i].work = Here
  BY <1>2, <1>6, <1>7, <1>8, SavedIs
<1>10. Ended(i) = f[new.root].sessions[i]
  BY <1>1, <1>3, <1>5, <1>6, <1>8, Zenon DEF Ended
<1>11. Ended(i) \in SessionType
  BY <1>2, <1>7, <1>9, <1>10 DEF FolderType
<1>12. QED
  BY <1>2, <1>3, <1>4, <1>6, <1>7, <1>9, <1>10, <1>11

LEMMA RecoveredIs ==
  ASSUME FolderInv, NEW F, F = Recovered
  PROVE  /\ F \in [Roots -> FolderType]
         /\ F[place].config = folder[place].config /\ F[place].id = folder[place].id
         /\ \A r \in Roots : \A i \in Ids : F[r].sessions[i] =
              IF i \in Interrupted /\ Sessions[i].root = r THEN Ended(i) ELSE folder[r].sessions[i]
         /\ \A r \in Roots : F[r] = NoFolder => folder[r] = NoFolder
<1>1. folder \in [Roots -> FolderType] /\ place \in Roots
  BY DEF FolderInv, FolderOK
<1> DEFINE New(r) == [i \in Ids |-> IF i \in Interrupted /\ Sessions[i].root = r
                                     THEN Ended(i) ELSE folder[r].sessions[i]]
<1>2. \A r \in Roots : F[r] = [folder[r] EXCEPT !.sessions = New(r)]
  <2>1. SUFFICES ASSUME NEW r \in Roots PROVE F[r] = [folder[r] EXCEPT !.sessions = New(r)]
    OBVIOUS
  <2>2. F[r] = [folder[r] EXCEPT !.sessions = [i \in Ids |->
                  IF i \in Interrupted /\ Sessions[i].root = r
                  THEN Saved(folder, i, [Session(i) EXCEPT !.run = "ended"])[r].sessions[i]
                  ELSE folder[r].sessions[i]]]
    BY Zenon DEF Recovered
  <2>3. [i \in Ids |-> IF i \in Interrupted /\ Sessions[i].root = r
                  THEN Saved(folder, i, [Session(i) EXCEPT !.run = "ended"])[r].sessions[i]
                  ELSE folder[r].sessions[i]] = New(r)
    BY DEF Ended
  <2> HIDE DEF New
  <2>4. QED
    BY <2>2, <2>3, Zenon
<1>3. ASSUME NEW r \in Roots PROVE New(r) \in [Ids -> SessionType]
  <2>1. \A i \in Ids : folder[r].sessions[i] \in SessionType
    BY <1>1 DEF FolderType
  <2>2. \A i \in Interrupted : Ended(i) \in SessionType
    BY EndedIs
  <2>3. QED
    BY <2>1, <2>2
<1>4. ASSUME NEW r \in Roots, NEW i \in Ids
      PROVE  New(r)[i] = IF i \in Interrupted /\ Sessions[i].root = r THEN Ended(i)
                         ELSE folder[r].sessions[i]
  OBVIOUS
<1> HIDE DEF New
<1>5. ASSUME NEW r \in Roots
      PROVE  /\ F[r] \in FolderType /\ F[r].sessions = New(r)
             /\ F[r].config = folder[r].config /\ F[r].id = folder[r].id
  <2>1. PICK old : old = folder[r]
    OBVIOUS
  <2>2. PICK ss : ss = New(r)
    OBVIOUS
  <2>3. old \in FolderType /\ ss \in [Ids -> SessionType] /\ F[r] = [old EXCEPT !.sessions = ss]
    BY <1>1, <1>2, <1>3, <2>1, <2>2
  <2>4. /\ F[r] \in FolderType /\ F[r].sessions = ss
        /\ F[r].config = old.config /\ F[r].id = old.id
    BY ONLY <2>3 DEF FolderType
  <2>5. QED
    BY <2>1, <2>2, <2>4
<1>6. F \in [Roots -> FolderType]
  <2>1. F = [r \in Roots |-> F[r]]
    BY Zenon DEF Recovered
  <2>2. QED
    BY <1>5, <2>1
<1>7. ASSUME NEW r \in Roots, F[r] = NoFolder PROVE folder[r] = NoFolder
  <2>1. \A i \in Ids : New(r)[i].is = "none"
    <3>1. New(r) = NoFolder.sessions
      BY <1>5, <1>7
    <3>2. \A i \in Ids : NoFolder.sessions[i].is = "none"
      BY DEF NoFolder, NoSession
    <3>3. QED
      BY <3>1, <3>2
  <2>2. \A i \in Ids : New(r)[i] = folder[r].sessions[i]
    <3>1. \A i \in Interrupted : Ended(i).is # "none"
      BY EndedIs
    <3>2. QED
      BY <1>4, <2>1, <3>1
  <2>3. New(r) = folder[r].sessions
    <3>1. folder[r].sessions \in [Ids -> SessionType]
      BY <1>1 DEF FolderType
    <3>2. QED
      BY <1>3, <2>2, <3>1
  <2>4. F[r] = folder[r]
    <3>1. PICK old : old = folder[r]
      OBVIOUS
    <3>2. old \in FolderType /\ F[r] = [old EXCEPT !.sessions = old.sessions]
      BY <1>1, <1>2, <2>3, <3>1
    <3>3. F[r] = old
      BY ONLY <3>2 DEF FolderType
    <3>4. QED
      BY <3>1, <3>3
  <2>5. QED
    BY <1>7, <2>4
<1>8. ASSUME NEW r \in Roots, NEW i \in Ids
      PROVE  F[r].sessions[i] = IF i \in Interrupted /\ Sessions[i].root = r THEN Ended(i)
                                ELSE folder[r].sessions[i]
  BY <1>4, <1>5
<1>9. QED
  BY <1>1, <1>5, <1>6, <1>7, <1>8

LEMMA StartLoadedKeeps == ASSUME FolderInv, StartLoaded PROVE FolderInv'
<1>1. FolderOK /\ folder \in [Roots -> FolderType] /\ place \in Roots
  BY DEF FolderInv, FolderOK
<1>2. PICK F : F = folder'
  OBVIOUS
<1>3. F = Recovered
  BY <1>2 DEF StartLoaded
<1>4. /\ F \in [Roots -> FolderType]
      /\ F[place].config = folder[place].config /\ F[place].id = folder[place].id
      /\ \A r \in Roots : \A i \in Ids : F[r].sessions[i] =
           IF i \in Interrupted /\ Sessions[i].root = r THEN Ended(i) ELSE folder[r].sessions[i]
      /\ \A r \in Roots : F[r] = NoFolder => folder[r] = NoFolder
  BY <1>3, RecoveredIs
<1>5. /\ host = "off" /\ host' = "open" /\ place' = place /\ making' = making /\ active' = active
      /\ born' = born /\ sent' = sent /\ unended' = unended /\ damaged' = damaged
      /\ count' = count /\ folder[place].config = "whole"
      /\ known' = IF known = 0 THEN folder[place].id ELSE known
  BY DEF StartLoaded, bounds
<1>6. known' = known /\ making = {} /\ active = {}
  BY <1>1, <1>5 DEF FolderOK
<1>7. FolderOK'
  <2>1. folder'[place'].config = "whole" /\ folder'[place'].id = known'
    BY <1>1, <1>2, <1>4, <1>5, <1>6 DEF FolderOK
  <2>2. QED
    BY <1>1, <1>2, <1>4, <1>5, <1>6, <2>1 DEF FolderOK
<1>8. ASSUME NEW j \in Ids PROVE SessionOK(j)'
  <2>1. PICK s : s = Sessions[j]
    OBVIOUS
  <2>2. FileOf(j) /\ OrderOf(j) /\ AnchoredOf(j)
    BY DEF FolderInv, SessionOK
  <2>3. s \in SessionType
    BY <1>1, <2>1 DEF FolderType, Sessions
  <2>4. Due(j)' = Due(j)
    BY <1>5 DEF Due, Elements
  <2>5. CASE j \in Interrupted /\ s.root = place
    <3>1. PICK e : e = Ended(j)
      OBVIOUS
    <3>2. /\ e.is = "file" /\ e.root = place /\ e.header = "short" /\ e.run = "ended"
          /\ e.lines = Messages(j) /\ e.work = Here /\ j \in born
      BY <2>1, <2>5, <3>1, EndedIs
    <3>3. Sessions'[j] = e
      BY <1>1, <1>2, <1>4, <1>5, <2>1, <2>5, <3>1 DEF Sessions
    <3>4. s.lines \in Seq(Lines) /\ count \in Nat /\ Numbered(Contents(s.lines), count)
      BY <1>1, <2>1, <2>2, <2>3, <3>2 DEF SessionType, OrderOf, FolderOK
    <3>5. e.lines = Readable(s.lines)
      BY <2>1, <3>2 DEF Messages
    <3>6. PICK q : q = Readable(s.lines)
      OBVIOUS
    <3>7. Numbered(Contents(q), count) /\ Held(q) = Held(s.lines)
      BY ONLY <3>4, <3>6, ReadableIs
    <3>8. FileOf(j)'
      <4>1. j \notin making
        BY <1>6
      <4>2. QED
        BY <1>1, <1>5, <3>2, <3>3, <4>1 DEF FileOf
    <3>9. OrderOf(j)'
      <4>1. Contents(Sessions[j].lines)' = Contents(q)
        BY <3>3, <3>5, <3>6 DEF Contents
      <4>2. QED
        BY <1>5, <2>2, <3>7, <4>1, Zenon DEF OrderOf
    <3>10. AnchoredOf(j)'
      <4>1. Held(Sessions[j].lines)' = Held(q)
        BY <3>3, <3>5, <3>6 DEF Held
      <4>2. Anchored(j)
        BY <2>1, <2>5 DEF Anchored
      <4>3. Held(q) = Due(j)
        BY <2>1, <2>2, <3>2, <3>7, <4>2, Zenon DEF AnchoredOf
      <4>4. Sessions'[j].run # "running"
        BY <3>2, <3>3
      <4>5. QED
        BY <2>4, <4>1, <4>3, <4>4, Zenon DEF AnchoredOf
    <3>11. QED
      BY <3>8, <3>9, <3>10 DEF SessionOK
  <2>6. CASE ~(j \in Interrupted /\ s.root = place)
    <3>1. Sessions'[j] = s
      BY <1>1, <1>2, <1>4, <1>5, <2>1, <2>6 DEF Sessions
    <3>2. FileOf(j)'
      BY <1>5, <2>1, <2>2, <3>1 DEF FileOf
    <3>3. OrderOf(j)'
      <4>1. Contents(Sessions[j].lines)' = Contents(Sessions[j].lines)
        BY <2>1, <3>1 DEF Contents
      <4>2. QED
        BY <1>5, <2>2, <4>1, Zenon DEF OrderOf
    <3>4. ASSUME j \in born, Anchored(j)' PROVE Anchored(j) /\ j \notin Interrupted
      <4>1. s.root \in Roots
        BY <2>1, <2>2, <3>4 DEF FileOf
      <4>2. s.root = place \/ F[s.root] = NoFolder
        BY <1>2, <1>5, <3>1, <3>4 DEF Anchored
      <4>3. s.root = place \/ folder[s.root] = NoFolder
        BY <1>4, <4>1, <4>2
      <4>4. ASSUME j \in Interrupted PROVE FALSE
        <5>1. F[s.root].sessions[j].is = "file"
          BY <1>4, <2>1, <4>1, <4>4, EndedIs
        <5>2. F[s.root] = NoFolder
          BY <2>6, <4>2, <4>4
        <5>3. NoFolder.sessions[j].is = "none"
          BY DEF NoFolder, NoSession
        <5>4. QED
          BY <5>1, <5>2, <5>3
      <4>5. QED
        BY <2>1, <4>3, <4>4 DEF Anchored
    <3>5. ASSUME j \in born, j \notin Interrupted, j \in Whole, s.run = "running" PROVE FALSE
      <4>1. s.is = "file" /\ s.header # "long" /\ s.header # "bad"
        BY <2>1, <2>2, <3>5 DEF FileOf, Whole
      <4>2. s.header = "short"
        BY <2>3, <4>1 DEF SessionType
      <4>3. QED
        BY <2>1, <3>5, <4>1, <4>2 DEF Interrupted, Headers
    <3>6. Held(Sessions[j].lines)' = Held(Sessions[j].lines)
      BY <2>1, <3>1 DEF Held
    <3>7. AnchoredOf(j)'
      <4>1. j \in Whole' => j \in Whole
        BY <1>5 DEF Whole
      <4>2. Sessions'[j].run = s.run /\ (j \in born' <=> j \in born)
        BY <1>5, <3>1
      <4>3. QED
        BY <2>2, <2>4, <3>4, <3>5, <3>6, <4>1, <4>2, Zenon DEF AnchoredOf
    <3>8. QED
      BY <3>2, <3>3, <3>7 DEF SessionOK
  <2>7. QED
    BY <2>5, <2>6
<1>9. QED
  BY <1>7, <1>8 DEF FolderInv

LEMMA FolderRests == ASSUME FolderInv, FromOne, UNCHANGED folderVars PROVE FolderInv' /\ FromOne'
<1>1. /\ place' = place /\ folder' = folder /\ host' = host /\ making' = making
      /\ active' = active /\ known' = known /\ born' = born /\ sent' = sent
      /\ unended' = unended /\ damaged' = damaged /\ count' = count
  BY DEF folderVars
<1>2. FolderOK'
  BY <1>1, Zenon DEF FolderInv, FolderOK
<1>3. ASSUME NEW j \in Ids PROVE SessionOK(j)'
  <2>1. count \in Nat /\ count <= count
    BY DEF FolderInv, FolderOK
  <2>2. Untouched(j)
    BY <1>1, <2>1 DEF Untouched
  <2>3. QED
    BY <2>2, SessionKept
<1>4. FromOne'
  BY <1>1 DEF FromOne, Elements
<1>5. QED
  BY <1>2, <1>3, <1>4 DEF FolderInv

LEMMA FromOneKeeps == ASSUME FolderInv, FromOne, FolderNext PROVE FromOne'
<1>1. sent \in [Ids -> Seq(Nat)] /\ count \in Nat
  BY DEF FolderInv, FolderOK
<1>2. ASSUME sent' = sent PROVE FromOne'
  BY <1>2 DEF FromOne, Elements
<1>3. ASSUME NEW i \in Ids, Submit(i) PROVE FromOne'
  <2>1. PICK t \in Seq(Nat) : t = sent[i]
    BY <1>1
  <2>2. PICK n \in Nat : n = count
    BY <1>1
  <2>3. Numbered(t, n)
    BY <2>1, <2>2 DEF FolderInv, SessionOK, OrderOf
  <2>4. PICK e : e = Append(t, n + 1)
    OBVIOUS
  <2>5. \A m : m \in Elements(e) <=> m \in Elements(t) \/ m = n + 1
    BY ONLY <2>3, <2>4, n \in Nat, t \in Seq(Nat), NumberAppended
  <2>6. 0 \notin Elements(t) /\ n + 1 # 0
    BY <2>1 DEF FromOne
  <2>7. 0 \notin Elements(e)
    BY ONLY <2>5, <2>6
  <2>8. sent' = [sent EXCEPT ![i] = e]
    BY <1>3, <2>1, <2>2, <2>4 DEF Submit
  <2>9. sent'[i] = e /\ \A j \in Ids : j # i => sent'[j] = sent[j]
    BY <1>1, <2>8
  <2>10. ASSUME NEW j \in Ids PROVE 0 \notin Elements(sent[j])'
    <3>1. PICK s : s = sent'[j]
      OBVIOUS
    <3>2. s = e \/ s = sent[j]
      BY <2>9, <3>1
    <3>3. 0 \notin Elements(s)
      BY <2>7, <3>2 DEF FromOne
    <3>4. QED
      BY <3>1, <3>3 DEF Elements
  <2>11. QED
    BY <2>10 DEF FromOne
<1>4. ASSUME NEW i \in Ids, Delete(i) PROVE FromOne'
  <2>1. sent' = [sent EXCEPT ![i] = <<>>]
    BY <1>4 DEF Delete
  <2>2. sent'[i] = <<>> /\ \A j \in Ids : j # i => sent'[j] = sent[j]
    BY <1>1, <2>1
  <2>3. 0 \notin Elements(<<>>)
    BY DEF Elements
  <2>4. ASSUME NEW j \in Ids PROVE 0 \notin Elements(sent[j])'
    <3>1. PICK s : s = sent'[j]
      OBVIOUS
    <3>2. s = <<>> \/ s = sent[j]
      BY <2>2, <3>1
    <3>3. 0 \notin Elements(s)
      BY <2>3, <3>2 DEF FromOne
    <3>4. QED
      BY <3>1, <3>3 DEF Elements
  <2>5. QED
    BY <2>4 DEF FromOne
<1>5. CASE StartLoaded \/ StartMade \/ StartCut \/ Stop
  BY <1>2, <1>5 DEF StartLoaded, StartMade, StartCut, Stop, histories
<1>6. ASSUME NEW i \in Ids,
             \/ Create(i) \/ Created(i) \/ CreateFailed(i) \/ EndRunUnsaved(i)
             \/ (\E length \in {"short", "long"} : EndRun(i, length))
             \/ (\E flag \in BOOLEAN : Archive(i, flag))
             \/ (\E n \in 0..MaxMessages : Damage(i, n))
      PROVE  FromOne'
  <2>1. CASE Create(i) \/ Created(i) \/ CreateFailed(i) \/ EndRunUnsaved(i)
    BY <1>2, <2>1 DEF Create, Created, CreateFailed, EndRunUnsaved, histories
  <2>2. CASE \E length \in {"short", "long"} : EndRun(i, length)
    BY <1>2, <2>2 DEF EndRun, histories
  <2>3. CASE \E flag \in BOOLEAN : Archive(i, flag)
    BY <1>2, <2>3 DEF Archive, histories
  <2>4. CASE \E n \in 0..MaxMessages : Damage(i, n)
    BY <1>2, <2>4 DEF Damage
  <2>5. QED
    BY <1>6, <2>1, <2>2, <2>3, <2>4
<1>7. ASSUME NEW r \in Roots, MoveFolder(r) PROVE FromOne'
  BY <1>2, <1>7 DEF MoveFolder, histories
<1>8. QED
  BY <1>3, <1>4, <1>5, <1>6, <1>7 DEF FolderNext

\* What a session has in this place is all that was sent, in order.
LEMMA SessionIsWhole ==
  ASSUME FolderInv, NEW i \in Ids, Loads(i), Sessions[i].root = place
  PROVE  KeepsAll(i)
<1>1. PICK s : s = Sessions[i]
  OBVIOUS
<1>2. s.lines \in Seq(Lines) /\ count \in Nat /\ FolderOK
  BY <1>1 DEF FolderInv, FolderOK, FolderType, Sessions, SessionType
<1>3. FileOf(i) /\ OrderOf(i) /\ AnchoredOf(i)
  BY DEF FolderInv, SessionOK
<1>4. i \in born
  BY <1>3 DEF FileOf, Loads
<1>5. Numbered(Contents(s.lines), count) /\ Numbered(sent[i], count)
  BY <1>1, <1>3, <1>4 DEF OrderOf
<1>6. PICK q : q = Readable(s.lines)
  OBVIOUS
<1>7. PICK c : c = Contents(q)
  OBVIOUS
<1>8. c \in Seq(Nat) /\ Numbered(c, count) /\ Elements(c) = Held(s.lines)
  BY ONLY <1>2, <1>5, <1>6, <1>7, ReadableIs
<1>9. PICK u : u = Undamaged(i)
  OBVIOUS
<1>10. u \in Seq(Nat) /\ Rising(u) /\ Elements(u) = Due(i)
  BY <1>2, <1>5, <1>9, UndamagedIs
<1>11. Held(s.lines) = Due(i)
  <2>1. Anchored(i)
    BY DEF Anchored
  <2>2. QED
    BY <1>1, <1>3, <1>4, <2>1, Zenon DEF AnchoredOf
<1>12. Rising(c)
  BY <1>8, Zenon DEF Numbered
<1>13. Elements(c) = Elements(u)
  BY ONLY <1>8, <1>10, <1>11
<1>14. c = u
  BY ONLY <1>8, <1>10, <1>12, <1>13, RisingSame
<1>15. QED
  BY <1>1, <1>6, <1>7, <1>9, <1>14 DEF KeepsAll, Messages

\* An opened workspace is what was made of it, wherever it was moved: the
\* sessions that were made and not deleted, and only they, are there and are
\* listed, work in this place, have all that was saved of them and say truly
\* whether a run goes on, and the workspace keeps its id, over any number of
\* starts, stops, moves, saves that are cut off and lines that become
\* unreadable (recoverWorkspace, loadSession, listSessionHeaders, createSession).
THEOREM FolderStaysTrue == FolderSpec => []FolderIsTrue
<1>1. FolderInit => FolderInv /\ FromOne
  <2>1. FolderInit => FromOne
    BY DEF FolderInit, FromOne, Elements
  <2>2. QED
    BY <2>1, FolderStarts
<1>2. FolderInv /\ FromOne /\ [FolderNext]_folderVars => FolderInv' /\ FromOne'
  <2>1. SUFFICES ASSUME FolderInv, FromOne, FolderNext PROVE FolderInv' /\ FromOne'
    BY FolderRests
  <2>2. FromOne'
    BY <2>1, FromOneKeeps
  <2>3. CASE StartLoaded
    BY <2>1, <2>2, <2>3, StartLoadedKeeps
  <2>4. CASE StartMade \/ StartCut
    BY <2>1, <2>2, <2>4, StartKeeps
  <2>5. CASE Stop
    BY <2>1, <2>2, <2>5, RestKeeps
  <2>6. ASSUME NEW i \in Ids,
               \/ Create(i) \/ Created(i) \/ CreateFailed(i)
               \/ Submit(i) \/ EndRunUnsaved(i) \/ Delete(i)
        PROVE  FolderInv'
    BY <2>1, <2>6, CreateKeeps, CreatedKeeps, RestKeeps, SubmitKeeps, DeleteKeeps
  <2>7. ASSUME NEW i \in Ids, NEW length \in {"short", "long"}, EndRun(i, length)
        PROVE  FolderInv'
    BY <2>1, <2>7, EndRunKeeps
  <2>8. ASSUME NEW i \in Ids, NEW flag \in BOOLEAN, Archive(i, flag) PROVE FolderInv'
    BY <2>1, <2>8, ArchiveKeeps
  <2>9. ASSUME NEW i \in Ids, NEW n, Damage(i, n) PROVE FolderInv'
    BY <2>1, <2>9, DamageKeeps
  <2>10. ASSUME NEW r \in Roots, MoveFolder(r) PROVE FolderInv'
    BY <2>1, <2>10, MoveKeeps
  <2>11. QED
    BY <2>1, <2>2, <2>3, <2>4, <2>5, <2>6, <2>7, <2>8, <2>9, <2>10 DEF FolderNext
<1>3. FolderInv => FolderIsTrue
  <2>1. SUFFICES ASSUME FolderInv, host = "open" PROVE FolderIsTrue
    BY DEF FolderIsTrue
  <2>2. FolderOK /\ folder[place].id = known /\ born \subseteq Ids
        /\ folder \in [Roots -> FolderType] /\ place \in Roots
    BY <2>1 DEF FolderInv, FolderOK
  <2>3. ASSUME NEW i \in Whole
        PROVE  /\ Loads(i) /\ Expanded(Sessions[i].work, place) = place
               /\ Sessions[i].root = place => KeepsAll(i)
               /\ i \in SessionList <=> ~Sessions[i].archived /\ Sessions[i].header = "short"
               /\ Sessions[i].root = place /\ Sessions[i].run = "running"
                    => i \in active \cup unended
    <3>1. i \in Ids /\ i \in born /\ <<i, 0>> \notin damaged
      BY <2>2 DEF Whole
    <3>2. FileOf(i) /\ AnchoredOf(i)
      BY <2>1, <3>1 DEF FolderInv, SessionOK
    <3>3. Loads(i) /\ Sessions[i].work = Here
      BY <3>1, <3>2 DEF FileOf, Loads
    <3>4. Sessions[i].root = place => KeepsAll(i)
      BY <2>1, <3>1, <3>3, SessionIsWhole
    <3>5. i \in SessionList <=> ~Sessions[i].archived /\ Sessions[i].header = "short"
      BY <3>1, <3>3 DEF SessionList, Headers, Loads
    <3>6. ASSUME Sessions[i].root = place, Sessions[i].run = "running"
          PROVE  i \in active \cup unended
      <4>1. Anchored(i)
        BY <3>6 DEF Anchored
      <4>2. QED
        BY <2>1, <3>1, <3>2, <3>6, <4>1, Zenon DEF AnchoredOf
    <3>7. Expanded(Sessions[i].work, place) = place
      BY <3>3 DEF Expanded
    <3>8. QED
      BY <3>3, <3>4, <3>5, <3>6, <3>7
  <2>4. SessionList \subseteq born
    BY <2>1 DEF SessionList, Headers, FolderInv, SessionOK, FileOf
  <2>5. QED
    BY <2>2, <2>3, <2>4 DEF FolderIsTrue
<1>4. QED
  BY <1>1, <1>2, <1>3, PTL DEF FolderSpec

-----------------------------------------------------------------------------
(* Words of a model *)

Plain == {text \in Seq(Nat) : Spoken(text) = text}
Items ==
  {m \in [type : {"assistant", "tool", "error"}, text : Seq(Nat)] :
     (m.type = "error" => m.text = <<>>) /\ (m.type = "tool" => m.text = <<0>>)}
EventTypes == {"text_delta", "text_complete", "tool_start", "tool_result", "error", "complete"}
Events ==
  {e \in [type : EventTypes, text : Seq(Nat)] :
     /\ e.type = "text_delta" => \E w \in Nat \ {0} : e.text = <<w>>
     /\ e.type = "text_complete" => e.text \in Plain /\ e.text # <<>>}

TurnsOK ==
  /\ backend \in Backends /\ turn \in 0..MaxTurns /\ pc \in {"idle", "running", "leaving"}
  /\ pc # "idle" => turn \in Turns
  /\ said \in [Turns -> Seq(Nat)] /\ model \in {"text", "tool", "over"} /\ message \in Plain
  /\ queue \in Seq(Events) /\ partial \in Plain /\ memory \in Seq(Memories)
  /\ messages \in Seq(Items) /\ segment \in 0..Len(messages)
  /\ stored \in [Turns -> Seq(Items)]
  /\ status \in [Turns -> {"none", "completed", "failed", "cancelled"}]
  /\ complete \in BOOLEAN /\ cancelled \in BOOLEAN /\ started \subseteq 1..turn
  /\ backend = "deepseek" =>
       /\ model # "tool"
       /\ \A n \in DOMAIN queue : queue[n].type # "tool_result"
       /\ \A n \in DOMAIN messages : messages[n].type # "tool"
       /\ \A t \in Turns : \A n \in DOMAIN stored[t] : stored[t][n].type # "tool"

\* What the events under way will add to the transcript.
UnderWay(q) ==
  Each(q, LAMBDA e : IF e.type = "text_delta" THEN e.text
                     ELSE IF e.type = "tool_result" THEN <<0>> ELSE <<>>)
\* The open segment before each of them and behind the last: what is complete
\* says what the segment has, and tools find none.
OpenText == IF segment = 0 THEN <<>> ELSE messages[segment].text
Drafted(e, before, after) ==
  /\ e.type = "text_delta" => after = before \o e.text
  /\ e.type = "text_complete" => before = e.text /\ after = <<>>
  /\ e.type = "tool_result" => before = <<>> /\ after = <<>>
  /\ e.type \in {"tool_start", "error", "complete"} => after = before
Drafts(q, drafts, first, last) ==
  /\ drafts \in [0..Len(q) -> Plain] /\ drafts[0] = first /\ drafts[Len(q)] = last
  /\ \A n \in 1..Len(q) : Drafted(q[n], drafts[n - 1], drafts[n])
Runs(q, first, last) == \E drafts : Drafts(q, drafts, first, last)
Flows ==
  pc = "running" =>
    /\ Texts(messages) \o UnderWay(queue) = said[turn]
    /\ Runs(queue, OpenText, message)
    /\ model = "tool" => message = <<>>
    /\ segment # 0 =>
         /\ messages[segment].type = "assistant" /\ messages[segment].text # <<>>
         /\ \A n \in DOMAIN messages : n > segment => messages[n].text = <<>>

Done(t) == t < turn \/ (t = turn /\ pc = "idle")
Filed ==
  \A t \in Turns :
    /\ t > turn => said[t] = <<>> /\ stored[t] = <<>> /\ status[t] = "none"
    /\ Done(t) => /\ IsPrefix(Texts(stored[t]), said[t])
                  /\ status[t] = "completed" => Texts(stored[t]) = said[t]
Leaves ==
  /\ pc # "idle" => /\ IsPrefix(Texts(stored[turn]), Texts(messages))
                    /\ status[turn] \in {"none", "failed"}
  /\ pc = "leaving" =>
       /\ IsPrefix(Texts(messages), said[turn])
       /\ ~cancelled /\ status[turn] # "failed" => Texts(messages) = said[turn]

Recall(q, t) == Each(q, LAMBDA m : IF m.turn = t THEN <<m>> ELSE <<>>)
Mind(q, t) == Spoken(Texts(Recall(q, t)))
Newest(type) == memory # <<>> /\ memory[Len(memory)].type = type
Minds ==
  /\ \A n \in DOMAIN memory : memory[n].turn \in 1..turn
  /\ \A t \in 1..turn : t \in started =>
       \E n \in DOMAIN memory : memory[n].turn = t /\ memory[n].type = "user"
  /\ \A t \in Turns : Done(t) =>
       IsPrefix(Spoken(Texts(stored[t])), Mind(memory, t)) /\ IsPrefix(Mind(memory, t), Words(t))
MindOfDeepSeek ==
  pc # "idle" =>
    /\ partial = Words(turn)
    /\ partial # <<>> \/ pc = "running" => memory # <<>>
    /\ Mind(memory, turn) = IF Newest("assistant") THEN partial ELSE <<>>
    /\ pc = "running" =>
         /\ \A n \in DOMAIN queue : queue[n].type = "complete" =>
              n = Len(queue) /\ model = "over" /\ ~Newest("assistant")
         /\ Newest("assistant") => model = "over"
MindOfClaude ==
  /\ pc = "running" =>
       partial = OpenText /\ Mind(memory, turn) \o partial = Spoken(Texts(messages))
  /\ pc = "leaving" =>
       /\ IsPrefix(Spoken(Texts(messages)), Mind(memory, turn) \o partial)
       /\ IsPrefix(Mind(memory, turn) \o partial, Words(turn))

TurnsInv ==
  /\ TurnsOK /\ Flows /\ Filed /\ Leaves
  /\ backend # "pi" => Minds
  /\ backend = "deepseek" => MindOfDeepSeek
  /\ backend = "claude" => MindOfClaude

LEMMA SpokenOf ==
  ASSUME NEW X, X \subseteq Nat
  PROVE  /\ Spoken(<<>>) = <<>>
         /\ \A w \in X : Spoken(<<w>>) = IF w = 0 THEN <<>> ELSE <<w>>
         /\ \A a, b \in Seq(X) :
              /\ Spoken(a) \in Seq(Nat) /\ Spoken(a \o b) = Spoken(a) \o Spoken(b)
              /\ IsPrefix(a, b) => IsPrefix(Spoken(a), Spoken(b))
<1>1. PICK g : g = [w \in X |-> IF w = 0 THEN <<>> ELSE <<w>>]
  OBVIOUS
<1>2. g \in [X -> Seq(Nat)]
  <2>1. \A w \in X : g[w] \in Seq(Nat)
    BY <1>1
  <2>2. QED
    BY <1>1, <2>1
<1>3. ASSUME NEW a \in Seq(X) PROVE Spoken(a) = Through(g, a)
  <2>1. Spoken(a) = FlattenSeq([i \in 1..Len(a) |-> IF a[i] = 0 THEN <<>> ELSE <<a[i]>>])
    BY Zenon DEF Spoken, Each
  <2>2. [i \in 1..Len(a) |-> IF a[i] = 0 THEN <<>> ELSE <<a[i]>>] = [i \in 1..Len(a) |-> g[a[i]]]
    BY <1>1
  <2>3. QED
    BY <2>1, <2>2, Zenon DEF Through
<1>4. Spoken(<<>>) = <<>>
  <2>1. <<>> \in Seq(X)
    OBVIOUS
  <2>2. QED
    BY <1>3, <2>1, ThroughNil, Zenon
<1>5. ASSUME NEW w \in X PROVE Spoken(<<w>>) = IF w = 0 THEN <<>> ELSE <<w>>
  <2>1. <<w>> \in Seq(X)
    OBVIOUS
  <2>2. Spoken(<<w>>) = g[w]
    BY <1>2, <1>3, <2>1, ThroughOne
  <2>3. QED
    BY <1>1, <2>2
<1>6. ASSUME NEW a \in Seq(X), NEW b \in Seq(X)
      PROVE  /\ Spoken(a) \in Seq(Nat) /\ Spoken(a \o b) = Spoken(a) \o Spoken(b)
             /\ IsPrefix(a, b) => IsPrefix(Spoken(a), Spoken(b))
  <2>1. a \o b \in Seq(X)
    OBVIOUS
  <2>2. Spoken(a) = Through(g, a) /\ Spoken(b) = Through(g, b) /\ Spoken(a \o b) = Through(g, a \o b)
    BY <1>3, <2>1
  <2>3. Through(g, a) \in Seq(Nat)
    BY ONLY <1>2, a \in Seq(X), ThroughTyped
  <2>4. Through(g, a \o b) = Through(g, a) \o Through(g, b)
    BY ONLY <1>2, a \in Seq(X), b \in Seq(X), ThroughJoin
  <2>5. IsPrefix(a, b) => IsPrefix(Through(g, a), Through(g, b))
    BY ONLY <1>2, a \in Seq(X), b \in Seq(X), ThroughPrefix
  <2>6. QED
    BY <2>2, <2>3, <2>4, <2>5, Zenon
<1>7. QED
  BY <1>4, <1>5, <1>6

LEMMA SpokenIs ==
  /\ Spoken(<<>>) = <<>>
  /\ \A w \in Nat : Spoken(<<w>>) = IF w = 0 THEN <<>> ELSE <<w>>
  /\ \A a, b \in Seq(Nat) :
       /\ Spoken(a) \in Seq(Nat) /\ Spoken(a \o b) = Spoken(a) \o Spoken(b)
       /\ IsPrefix(a, b) => IsPrefix(Spoken(a), Spoken(b))
<1>1. Nat \subseteq Nat
  OBVIOUS
<1>2. QED
  BY <1>1, SpokenOf, Zenon

LEMMA TextsIs ==
  ASSUME NEW I, \A m \in I : m.text \in Seq(Nat)
  PROVE  /\ Texts(<<>>) = <<>>
         /\ \A m \in I : Texts(<<m>>) = m.text
         /\ \A a, b \in Seq(I) : Texts(a) \in Seq(Nat) /\ Texts(a \o b) = Texts(a) \o Texts(b)
<1>1. PICK g : g = [m \in I |-> m.text]
  OBVIOUS
<1>2. g \in [I -> Seq(Nat)]
  BY <1>1
<1>3. ASSUME NEW a \in Seq(I) PROVE Texts(a) = Through(g, a)
  <2>1. Texts(a) = FlattenSeq([i \in 1..Len(a) |-> a[i].text])
    BY Zenon DEF Texts, Each
  <2>2. [i \in 1..Len(a) |-> a[i].text] = [i \in 1..Len(a) |-> g[a[i]]]
    BY <1>1
  <2>3. QED
    BY <2>1, <2>2, Zenon DEF Through
<1>4. Texts(<<>>) = <<>>
  <2>1. <<>> \in Seq(I)
    OBVIOUS
  <2>2. QED
    BY <1>3, <2>1, ThroughNil, Zenon
<1>5. ASSUME NEW m \in I PROVE Texts(<<m>>) = m.text
  <2>1. <<m>> \in Seq(I)
    OBVIOUS
  <2>2. Texts(<<m>>) = g[m]
    BY <1>2, <1>3, <2>1, ThroughOne
  <2>3. QED
    BY <1>1, <2>2
<1>6. ASSUME NEW a \in Seq(I), NEW b \in Seq(I)
      PROVE  Texts(a) \in Seq(Nat) /\ Texts(a \o b) = Texts(a) \o Texts(b)
  <2>1. a \o b \in Seq(I)
    OBVIOUS
  <2>2. Texts(a) = Through(g, a) /\ Texts(b) = Through(g, b) /\ Texts(a \o b) = Through(g, a \o b)
    BY <1>3, <2>1
  <2>3. Through(g, a) \in Seq(Nat) /\ Through(g, a \o b) = Through(g, a) \o Through(g, b)
    <3>1. Through(g, a) \in Seq(Nat)
      BY ONLY <1>2, a \in Seq(I), ThroughTyped
    <3>2. Through(g, a \o b) = Through(g, a) \o Through(g, b)
      BY ONLY <1>2, a \in Seq(I), b \in Seq(I), ThroughJoin
    <3>3. QED
      BY ONLY <3>1, <3>2
  <2>4. QED
    BY <2>2, <2>3, Zenon
<1>7. QED
  BY <1>4, <1>5, <1>6

Comes(e) == IF e.type = "text_delta" THEN e.text
            ELSE IF e.type = "tool_result" THEN <<0>> ELSE <<>>

LEMMA UnderWayIs ==
  /\ UnderWay(<<>>) = <<>>
  /\ \A e \in Events : UnderWay(<<e>>) = Comes(e) /\ Comes(e) \in Seq(Nat)
  /\ \A a, b \in Seq(Events) : UnderWay(a) \in Seq(Nat) /\ UnderWay(a \o b) = UnderWay(a) \o UnderWay(b)
<1>1. PICK g : g = [e \in Events |-> Comes(e)]
  BY Zenon
<1>2. \A e \in Events : Comes(e) \in Seq(Nat)
  <2>1. <<0>> \in Seq(Nat) /\ <<>> \in Seq(Nat)
    OBVIOUS
  <2>2. \A e \in Events : e.text \in Seq(Nat)
    BY DEF Events
  <2>3. QED
    BY <2>1, <2>2, Zenon DEF Comes
<1>3. g \in [Events -> Seq(Nat)]
  BY <1>1, <1>2
<1>4. ASSUME NEW a \in Seq(Events) PROVE UnderWay(a) = Through(g, a)
  <2>1. UnderWay(a) = FlattenSeq([i \in 1..Len(a) |-> Comes(a[i])])
    BY Zenon DEF UnderWay, Each, Comes
  <2>2. [i \in 1..Len(a) |-> Comes(a[i])] = [i \in 1..Len(a) |-> g[a[i]]]
    BY <1>1
  <2>3. QED
    BY <2>1, <2>2, Zenon DEF Through
<1>5. UnderWay(<<>>) = <<>>
  <2>1. <<>> \in Seq(Events)
    OBVIOUS
  <2>2. QED
    BY <1>4, <2>1, ThroughNil, Zenon
<1>6. ASSUME NEW e \in Events PROVE UnderWay(<<e>>) = Comes(e)
  <2>1. <<e>> \in Seq(Events)
    OBVIOUS
  <2>2. UnderWay(<<e>>) = g[e]
    BY <1>3, <1>4, <2>1, ThroughOne
  <2>3. QED
    BY <1>1, <2>2
<1>7. ASSUME NEW a \in Seq(Events), NEW b \in Seq(Events)
      PROVE  UnderWay(a) \in Seq(Nat) /\ UnderWay(a \o b) = UnderWay(a) \o UnderWay(b)
  <2>1. a \o b \in Seq(Events)
    OBVIOUS
  <2>2. UnderWay(a) = Through(g, a) /\ UnderWay(b) = Through(g, b) /\ UnderWay(a \o b) = Through(g, a \o b)
    BY <1>4, <2>1
  <2>3. Through(g, a) \in Seq(Nat) /\ Through(g, a \o b) = Through(g, a) \o Through(g, b)
    <3>1. Through(g, a) \in Seq(Nat)
      BY ONLY <1>3, a \in Seq(Events), ThroughTyped
    <3>2. Through(g, a \o b) = Through(g, a) \o Through(g, b)
      BY ONLY <1>3, a \in Seq(Events), b \in Seq(Events), ThroughJoin
    <3>3. QED
      BY ONLY <3>1, <3>2
  <2>4. QED
    BY <2>2, <2>3, Zenon
<1>8. QED
  BY <1>2, <1>5, <1>6, <1>7

LEMMA RecallIs ==
  ASSUME NEW t, NEW I, \A m \in I : m.text \in Seq(Nat)
  PROVE  /\ Recall(<<>>, t) = <<>>
         /\ \A m \in I : Recall(<<m>>, t) = IF m.turn = t THEN <<m>> ELSE <<>>
         /\ \A a, b \in Seq(I) :
              Recall(a, t) \in Seq(I) /\ Recall(a \o b, t) = Recall(a, t) \o Recall(b, t)
<1>1. PICK g : g = [m \in I |-> IF m.turn = t THEN <<m>> ELSE <<>>]
  OBVIOUS
<1>2. g \in [I -> Seq(I)]
  <2>1. \A m \in I : g[m] \in Seq(I)
    BY <1>1
  <2>2. QED
    BY <1>1, <2>1
<1>3. ASSUME NEW a \in Seq(I) PROVE Recall(a, t) = Through(g, a)
  <2>1. Recall(a, t) = FlattenSeq([i \in 1..Len(a) |-> IF a[i].turn = t THEN <<a[i]>> ELSE <<>>])
    BY Zenon DEF Recall, Each
  <2>2. [i \in 1..Len(a) |-> IF a[i].turn = t THEN <<a[i]>> ELSE <<>>] = [i \in 1..Len(a) |-> g[a[i]]]
    BY <1>1
  <2>3. QED
    BY <2>1, <2>2, Zenon DEF Through
<1>4. Recall(<<>>, t) = <<>>
  <2>1. <<>> \in Seq(I)
    OBVIOUS
  <2>2. QED
    BY <1>3, <2>1, ThroughNil, Zenon
<1>5. ASSUME NEW m \in I PROVE Recall(<<m>>, t) = IF m.turn = t THEN <<m>> ELSE <<>>
  <2>1. <<m>> \in Seq(I)
    OBVIOUS
  <2>2. Recall(<<m>>, t) = g[m]
    BY <1>2, <1>3, <2>1, ThroughOne
  <2>3. QED
    BY <1>1, <2>2
<1>6. ASSUME NEW a \in Seq(I), NEW b \in Seq(I)
      PROVE  Recall(a, t) \in Seq(I) /\ Recall(a \o b, t) = Recall(a, t) \o Recall(b, t)
  <2>1. a \o b \in Seq(I)
    OBVIOUS
  <2>2. Recall(a, t) = Through(g, a) /\ Recall(b, t) = Through(g, b) /\ Recall(a \o b, t) = Through(g, a \o b)
    BY <1>3, <2>1
  <2>3. Through(g, a) \in Seq(I) /\ Through(g, a \o b) = Through(g, a) \o Through(g, b)
    <3>1. Through(g, a) \in Seq(I)
      BY ONLY <1>2, a \in Seq(I), ThroughTyped
    <3>2. Through(g, a \o b) = Through(g, a) \o Through(g, b)
      BY ONLY <1>2, a \in Seq(I), b \in Seq(I), ThroughJoin
    <3>3. QED
      BY ONLY <3>1, <3>2
  <2>4. QED
    BY <2>2, <2>3, Zenon
<1>7. QED
  BY <1>4, <1>5, <1>6

LEMMA PlainIs ==
  /\ <<>> \in Plain /\ Plain \subseteq Seq(Nat)
  /\ \A w \in Nat \ {0} : <<w>> \in Plain
  /\ \A a, b \in Plain : a \o b \in Plain
  /\ \A a \in Plain : Spoken(a) = a
<1>1. <<>> \in Plain
  <2>1. <<>> \in Seq(Nat)
    OBVIOUS
  <2>2. QED
    BY <2>1, SpokenIs DEF Plain
<1>2. \A w \in Nat \ {0} : <<w>> \in Plain
  <2>1. ASSUME NEW w \in Nat \ {0} PROVE <<w>> \in Seq(Nat) /\ Spoken(<<w>>) = <<w>>
    BY SpokenIs
  <2>2. QED
    BY <2>1, Zenon DEF Plain
<1>3. ASSUME NEW a \in Plain, NEW b \in Plain PROVE a \o b \in Plain
  <2>1. a \in Seq(Nat) /\ b \in Seq(Nat) /\ Spoken(a) = a /\ Spoken(b) = b
    BY DEF Plain
  <2>2. a \o b \in Seq(Nat)
    BY ONLY <2>1
  <2>3. Spoken(a \o b) = a \o b
    BY ONLY <2>1, SpokenIs, Zenon
  <2>4. QED
    BY <2>2, <2>3 DEF Plain
<1>4. QED
  BY <1>1, <1>2, <1>3, Zenon DEF Plain

LEMMA MemoriesAre ==
  /\ \A m \in Memories : m.text \in Seq(Nat) /\ m.turn \in Nat
  /\ \A m \in Items : m.text \in Seq(Nat)
BY DEF Memories, Items

LEMMA RecallMemories ==
  ASSUME NEW t
  PROVE  /\ Recall(<<>>, t) = <<>>
         /\ \A m \in Memories : Recall(<<m>>, t) = IF m.turn = t THEN <<m>> ELSE <<>>
         /\ \A a, b \in Seq(Memories) :
              Recall(a, t) \in Seq(Memories) /\ Recall(a \o b, t) = Recall(a, t) \o Recall(b, t)
<1>1. PICK I : I = Memories
  OBVIOUS
<1>2. \A m \in I : m.text \in Seq(Nat)
  BY <1>1, MemoriesAre
<1>3. /\ Recall(<<>>, t) = <<>>
      /\ \A m \in I : Recall(<<m>>, t) = IF m.turn = t THEN <<m>> ELSE <<>>
      /\ \A a, b \in Seq(I) :
           Recall(a, t) \in Seq(I) /\ Recall(a \o b, t) = Recall(a, t) \o Recall(b, t)
  BY ONLY <1>2, RecallIs
<1>4. QED
  BY <1>1, <1>3, Zenon

LEMMA MindTyped ==
  ASSUME NEW q \in Seq(Memories), NEW t
  PROVE  Mind(q, t) \in Seq(Nat) /\ Recall(q, t) \in Seq(Memories)
         /\ Texts(Recall(q, t)) \in Seq(Nat)
<1>1. Recall(q, t) \in Seq(Memories)
  BY MemoriesAre, RecallIs
<1>2. Texts(Recall(q, t)) \in Seq(Nat)
  BY <1>1, MemoriesAre, TextsIs
<1>3. QED
  BY <1>1, <1>2, SpokenIs DEF Mind

LEMMA MindGrows ==
  ASSUME NEW q \in Seq(Memories), NEW m \in Memories, NEW t
  PROVE  Mind(Append(q, m), t) = IF m.turn = t THEN Mind(q, t) \o Spoken(m.text) ELSE Mind(q, t)
<1>1. Append(q, m) = q \o <<m>> /\ <<m>> \in Seq(Memories)
  OBVIOUS
<1>2. Recall(Append(q, m), t) = Recall(q, t) \o Recall(<<m>>, t)
  <2>1. \A a, b \in Seq(Memories) : Recall(a \o b, t) = Recall(a, t) \o Recall(b, t)
    BY RecallMemories
  <2>2. QED
    BY <1>1, <2>1, Zenon
<1>3. PICK r \in Seq(Memories) : r = Recall(q, t) /\ Texts(r) \in Seq(Nat)
  BY MindTyped
<1>4. CASE m.turn = t
  <2>1. Recall(Append(q, m), t) = r \o <<m>>
    <3>1. Recall(<<m>>, t) = <<m>>
      BY <1>4, MemoriesAre, RecallIs
    <3>2. QED
      BY <1>2, <1>3, <3>1
  <2>2. Texts(r \o <<m>>) = Texts(r) \o m.text
    <3>1. Texts(<<m>>) = m.text
      BY MemoriesAre, TextsIs
    <3>2. Texts(r \o <<m>>) = Texts(r) \o Texts(<<m>>)
      BY <1>1, MemoriesAre, TextsIs
    <3>3. QED
      BY <3>1, <3>2
  <2>3. Spoken(Texts(r) \o m.text) = Spoken(Texts(r)) \o Spoken(m.text)
    BY <1>3, MemoriesAre, SpokenIs
  <2>4. QED
    BY <1>3, <1>4, <2>1, <2>2, <2>3, Zenon DEF Mind
<1>5. CASE m.turn # t
  <2>1. Recall(<<m>>, t) = <<>>
    BY <1>5, MemoriesAre, RecallIs
  <2>2. r \o <<>> = r
    BY ONLY r \in Seq(Memories), JoinNil
  <2>3. Recall(Append(q, m), t) = r
    BY <1>2, <1>3, <2>1, <2>2
  <2>4. QED
    BY <1>3, <1>5, <2>3, Zenon DEF Mind
<1>6. QED
  BY <1>4, <1>5

\* Who never heard of a turn remembers nothing of it.
LEMMA RecallNone ==
  ASSUME NEW q \in Seq(Memories), NEW t, \A n \in DOMAIN q : q[n].turn # t
  PROVE  Recall(q, t) = <<>> /\ Mind(q, t) = <<>>
<1>1. PICK X : X = {m \in Memories : m.turn # t}
  OBVIOUS
<1>2. q \in Seq(X)
  <2>1. PICK l \in Nat : l = Len(q) /\ DOMAIN q = 1..l
    OBVIOUS
  <2>2. q \in [1..l -> Memories]
    BY <2>1
  <2>3. q \in [1..l -> X]
    BY <1>1, <2>1, <2>2
  <2>4. QED
    BY <2>1, <2>3
<1>3. PICK g : g = [m \in X |-> IF m.turn = t THEN <<m>> ELSE <<>>]
  OBVIOUS
<1>4. \A m \in X : g[m] = <<>>
  BY <1>1, <1>3
<1>5. g \in [X -> Seq({})]
  <2>1. <<>> \in Seq({})
    OBVIOUS
  <2>2. QED
    BY <1>3, <1>4, <2>1
<1>6. Recall(q, t) = Through(g, q)
  <2>1. Recall(q, t) = FlattenSeq([i \in 1..Len(q) |-> IF q[i].turn = t THEN <<q[i]>> ELSE <<>>])
    BY Zenon DEF Recall, Each
  <2>2. [i \in 1..Len(q) |-> IF q[i].turn = t THEN <<q[i]>> ELSE <<>>] = [i \in 1..Len(q) |-> g[q[i]]]
    BY <1>2, <1>3
  <2>3. QED
    BY <2>1, <2>2, Zenon DEF Through
<1>7. Recall(q, t) = <<>>
  BY <1>2, <1>4, <1>5, <1>6, ThroughNone
<1>8. Texts(<<>>) = <<>>
  BY MemoriesAre, TextsIs
<1>9. QED
  BY <1>7, <1>8, SpokenIs DEF Mind

\* A text of which nothing follows can change without the others.
LEMMA TextsAt ==
  ASSUME NEW q \in Seq(Items), NEW r \in Seq(Items), Len(r) = Len(q), NEW k \in 1..Len(q),
         \A j \in 1..Len(q) : j # k => r[j] = q[j],
         \A j \in 1..Len(q) : j > k => q[j].text = <<>>
  PROVE  \E a \in Seq(Nat) : Texts(q) = a \o q[k].text /\ Texts(r) = a \o r[k].text
<1>1. PICK l \in Nat : l = Len(q) /\ l = Len(r) /\ k \in 1..l
  OBVIOUS
<1>2. PICK I : I = {m \in Items : m.text = <<>>}
  OBVIOUS
<1>3. PICK A, B : A = [j \in 1..(k - 1) |-> q[j]] /\ B = [j \in 1..(l - k) |-> q[k + j]]
  OBVIOUS
<1>4. /\ A \in Seq(Items) /\ Len(A) = k - 1 /\ \A j \in 1..(k - 1) : A[j] = q[j]
      /\ B \in Seq(Items) /\ Len(B) = l - k /\ \A j \in 1..(l - k) : B[j] = q[k + j]
  <2>1. k \in Nat /\ k - 1 \in Nat /\ l - k \in Nat
    BY ONLY <1>1
  <2>2. (\A j \in 1..(k - 1) : q[j] \in Items) /\ (\A j \in 1..(l - k) : q[k + j] \in Items)
    BY <1>1
  <2>3. PICK u \in Nat, v \in Nat : u = k - 1 /\ v = l - k
    BY <2>1
  <2>4. A \in [1..u -> Items] /\ B \in [1..v -> Items]
    BY ONLY <1>3, <2>2, <2>3
  <2>5. /\ A \in Seq(Items) /\ Len(A) = u /\ B \in Seq(Items) /\ Len(B) = v
    <3>1. A \in Seq(Items) /\ B \in Seq(Items)
      BY ONLY <2>4, u \in Nat, v \in Nat
    <3>2. Len(A) = u /\ Len(B) = v
      BY ONLY <2>4, u \in Nat, v \in Nat
    <3>3. QED
      BY <3>1, <3>2
  <2>6. QED
    BY ONLY <1>3, <2>3, <2>5
<1>5. q[k] \in Items /\ r[k] \in Items
  BY <1>1
<1>6. ASSUME NEW s \in Seq(Items), Len(s) = l, \A j \in 1..l : j # k => s[j] = q[j]
      PROVE  s = A \o (<<s[k]>> \o B) /\ s[k] \in Items
  <2>1. s[k] \in Items /\ <<s[k]>> \in Seq(Items)
    BY <1>1, <1>6
  <2>2. PICK C : C = <<s[k]>> \o B
    OBVIOUS
  <2>3. C \in Seq(Items) /\ Len(C) = l - k + 1 /\ C[1] = s[k]
    <3>1. Len(<<s[k]>>) = 1 /\ <<s[k]>>[1] = s[k] /\ 1 \in 1..1 /\ B \in Seq(Items)
      BY <1>4
    <3>2. C \in Seq(Items) /\ Len(C) = 1 + Len(B) /\ C[1] = s[k]
      BY ONLY <2>1, <2>2, <3>1, JoinedIs
    <3>3. QED
      BY <1>1, <1>4, <3>2
  <2>4. ASSUME NEW j \in 1..(l - k) PROVE C[1 + j] = B[j]
    <3>1. \A i \in 1..Len(B) : C[Len(<<s[k]>>) + i] = B[i]
      BY ONLY <1>4, <2>1, <2>2, JoinedIs
    <3>2. Len(<<s[k]>>) = 1 /\ j \in 1..Len(B)
      BY <1>4
    <3>3. QED
      BY ONLY <3>1, <3>2, Zenon
  <2>5. A \o C \in Seq(Items) /\ Len(A \o C) = l
    BY <1>1, <1>4, <2>3
  <2>6. ASSUME NEW j \in 1..l PROVE (A \o C)[j] = s[j]
    <3>1. CASE j < k
      <4>1. j \in 1..Len(A) /\ A[j] = q[j] /\ s[j] = q[j]
        BY <1>1, <1>4, <1>6, <3>1
      <4>2. (A \o C)[j] = A[j]
        BY ONLY <1>4, <2>3, <4>1, JoinedIs
      <4>3. QED
        BY <4>1, <4>2
    <3>2. CASE j >= k
      <4>1. PICK i : i = j - k + 1
        OBVIOUS
      <4>2. i \in 1..Len(C) /\ j = Len(A) + i
        BY <1>1, <1>4, <2>3, <3>2, <4>1
      <4>3. (A \o C)[j] = C[i]
        <5>1. \A h \in 1..Len(C) : (A \o C)[Len(A) + h] = C[h]
          <6>1. A \in Seq(Items) /\ C \in Seq(Items)
            BY <1>4, <2>3
          <6>2. QED
            BY ONLY <6>1, JoinedIs
        <5>2. QED
          BY ONLY <4>2, <5>1, Zenon
      <4>4. C[i] = s[j]
        <5>1. CASE i = 1
          BY <1>1, <2>3, <3>2, <4>1, <5>1
        <5>2. CASE i # 1
          <6>1. PICK h : h = i - 1
            OBVIOUS
          <6>2. h \in 1..(l - k) /\ i = 1 + h /\ k + h = j /\ j # k
            <7>1. i \in 1..(l - k + 1)
              BY <2>3, <4>2
            <7>2. QED
              BY ONLY <1>1, <4>1, <5>2, <6>1, <7>1, j \in 1..l
          <6>3. C[1 + h] = B[h] /\ B[h] = q[k + h]
            BY <1>4, <2>4, <6>2
          <6>4. s[j] = q[j]
            BY <1>6, <6>2
          <6>5. QED
            BY <6>2, <6>3, <6>4
        <5>3. QED
          BY <5>1, <5>2
      <4>5. QED
        BY <4>3, <4>4
    <3>3. j < k \/ j >= k
      BY ONLY <1>1, j \in 1..l
    <3>4. QED
      BY <3>1, <3>2, <3>3, Zenon
  <2>7. A \o C = s
    BY ONLY <1>6, <2>5, <2>6, SeqExt
  <2>8. QED
    BY <2>1, <2>2, <2>7
<1>7. Texts(B) = <<>>
  <2>1. B \in Seq(I)
    <3>1. \A j \in 1..(l - k) : B[j] \in I
      BY <1>1, <1>2, <1>4
    <3>2. PICK n \in Nat : n = l - k
      BY <1>1
    <3>3. B \in [1..n -> I]
      BY <1>4, <3>1, <3>2
    <3>4. QED
      BY <3>3
  <2>2. PICK g : g = [m \in I |-> m.text]
    OBVIOUS
  <2>3. g \in [I -> Seq({})] /\ \A m \in I : g[m] = <<>>
    <3>1. \A m \in I : m.text = <<>>
      BY <1>2
    <3>2. <<>> \in Seq({})
      OBVIOUS
    <3>3. QED
      BY <2>2, <3>1, <3>2
  <2>4. Texts(B) = Through(g, B)
    <3>1. Texts(B) = FlattenSeq([i \in 1..Len(B) |-> B[i].text])
      BY Zenon DEF Texts, Each
    <3>2. [i \in 1..Len(B) |-> B[i].text] = [i \in 1..Len(B) |-> g[B[i]]]
      BY <2>1, <2>2
    <3>3. QED
      BY <3>1, <3>2, Zenon DEF Through
  <2>5. QED
    BY <2>1, <2>3, <2>4, ThroughNone
<1>8. ASSUME NEW m \in Items PROVE Texts(A \o (<<m>> \o B)) = Texts(A) \o m.text
  <2>1. <<m>> \in Seq(Items) /\ <<m>> \o B \in Seq(Items)
    BY <1>4
  <2>2. Texts(A \o (<<m>> \o B)) = Texts(A) \o Texts(<<m>> \o B)
    BY <1>4, <2>1, MemoriesAre, TextsIs
  <2>3. Texts(<<m>> \o B) = Texts(<<m>>) \o Texts(B)
    BY <1>4, <2>1, MemoriesAre, TextsIs
  <2>4. Texts(<<m>>) = m.text
    BY MemoriesAre, TextsIs
  <2>5. m.text \o <<>> = m.text
    BY MemoriesAre, JoinNil
  <2>6. QED
    BY <1>7, <2>2, <2>3, <2>4, <2>5, Zenon
<1>9. Texts(A) \in Seq(Nat)
  BY <1>4, MemoriesAre, TextsIs
<1>10. Texts(q) = Texts(A) \o q[k].text
  <2>1. q = A \o (<<q[k]>> \o B)
    BY <1>1, <1>6
  <2>2. QED
    BY <1>5, <1>8, <2>1, Zenon
<1>11. Texts(r) = Texts(A) \o r[k].text
  <2>1. r = A \o (<<r[k]>> \o B)
    BY <1>1, <1>6
  <2>2. QED
    BY <1>5, <1>8, <2>1, Zenon
<1>12. QED
  BY <1>9, <1>10, <1>11

LEMMA RunsNil ==
  ASSUME NEW a \in Plain
  PROVE  Runs(<<>>, a, a)
<1>1. PICK d : d = [n \in 0..0 |-> a]
  OBVIOUS
<1>2. d \in [0..0 -> Plain] /\ d[0] = a /\ Len(<<>>) = 0
  BY <1>1
<1>3. Drafts(<<>>, d, a, a)
  BY <1>2 DEF Drafts
<1>4. QED
  BY <1>3 DEF Runs

LEMMA RunsOne ==
  ASSUME NEW e, NEW a \in Plain, NEW b \in Plain, Drafted(e, a, b)
  PROVE  Runs(<<e>>, a, b)
<1>1. PICK d : d = [n \in 0..1 |-> IF n = 0 THEN a ELSE b]
  OBVIOUS
<1>2. d \in [0..1 -> Plain] /\ d[0] = a /\ d[1] = b /\ Len(<<e>>) = 1 /\ <<e>>[1] = e
  BY <1>1
<1>3. Drafts(<<e>>, d, a, b)
  <2>1. \A n \in 1..1 : Drafted(<<e>>[n], d[n - 1], d[n])
    BY <1>2
  <2>2. QED
    BY <1>2, <2>1 DEF Drafts
<1>4. QED
  BY <1>3 DEF Runs

LEMMA RunsJoin ==
  ASSUME NEW q \in Seq(Events), NEW r \in Seq(Events), NEW a, NEW b, NEW c,
         Runs(q, a, b), Runs(r, b, c)
  PROVE  Runs(q \o r, a, c)
<1>1. PICK l \in Nat, m \in Nat : l = Len(q) /\ m = Len(r)
  OBVIOUS
<1>2. PICK d : Drafts(q, d, a, b)
  BY DEF Runs
<1>3. PICK f : Drafts(r, f, b, c)
  BY DEF Runs
<1>4. /\ d \in [0..l -> Plain] /\ d[0] = a /\ d[l] = b
      /\ \A n \in 1..l : Drafted(q[n], d[n - 1], d[n])
      /\ f \in [0..m -> Plain] /\ f[0] = b /\ f[m] = c
      /\ \A n \in 1..m : Drafted(r[n], f[n - 1], f[n])
  BY <1>1, <1>2, <1>3, Zenon DEF Drafts
<1>5. PICK h : h = [n \in 0..(l + m) |-> IF n <= l THEN d[n] ELSE f[n - l]]
  OBVIOUS
<1>6. h \in [0..(l + m) -> Plain] /\ h[0] = a
  BY <1>4, <1>5
<1>7. \A n \in 0..m : h[l + n] = f[n]
  <2>1. SUFFICES ASSUME NEW n \in 0..m PROVE h[l + n] = f[n]
    OBVIOUS
  <2>2. CASE n = 0
    <3>1. h[l + n] = d[l]
      BY <1>5, <2>2
    <3>2. QED
      BY <1>4, <2>2, <3>1
  <2>3. CASE n # 0
    BY <1>5, <2>3
  <2>4. QED
    BY <2>2, <2>3
<1>8. h[l + m] = c
  BY <1>4, <1>7
<1>9. ASSUME NEW n \in 1..(l + m) PROVE Drafted((q \o r)[n], h[n - 1], h[n])
  <2>1. CASE n \in 1..l
    <3>1. (q \o r)[n] = q[n]
      BY <1>1, <2>1, JoinedIs
    <3>2. h[n - 1] = d[n - 1] /\ h[n] = d[n]
      BY <1>5, <2>1
    <3>3. Drafted(q[n], d[n - 1], d[n])
      BY <1>4, <2>1
    <3>4. QED
      BY ONLY <3>1, <3>2, <3>3, Zenon
  <2>2. CASE n \notin 1..l
    <3>1. PICK k : k = n - l
      OBVIOUS
    <3>2. k \in 1..m /\ k - 1 \in 0..m /\ k \in 0..m /\ n = l + k /\ n - 1 = l + (k - 1)
      BY <2>2, <3>1
    <3>3. (q \o r)[n] = r[k]
      <4>1. \A i \in 1..Len(r) : (q \o r)[Len(q) + i] = r[i]
        BY ONLY q \in Seq(Events), r \in Seq(Events), JoinedIs
      <4>2. QED
        BY ONLY <1>1, <3>2, <4>1, Zenon
    <3>4. h[n] = f[k] /\ h[n - 1] = f[k - 1]
      BY ONLY <1>7, <3>2, Zenon
    <3>5. Drafted(r[k], f[k - 1], f[k])
      BY <1>4, <3>2
    <3>6. QED
      BY ONLY <3>3, <3>4, <3>5, Zenon
  <2>3. QED
    BY <2>1, <2>2
<1>10. Len(q \o r) = l + m
  BY <1>1
<1>11. Drafts(q \o r, h, a, c)
  BY ONLY <1>6, <1>8, <1>9, <1>10, Zenon DEF Drafts
<1>12. QED
  BY <1>11 DEF Runs

LEMMA RunsTail ==
  ASSUME NEW q \in Seq(Events), q # <<>>, NEW a, NEW c, Runs(q, a, c)
  PROVE  \E b \in Plain : Drafted(Head(q), a, b) /\ Runs(Tail(q), b, c)
<1>1. PICK l \in Nat : l + 1 = Len(q)
  <2>1. Len(q) # 0
    BY NilIs
  <2>2. PICK m : m = Len(q) - 1
    OBVIOUS
  <2>3. m \in Nat /\ m + 1 = Len(q)
    BY <2>1, <2>2
  <2>4. QED
    BY ONLY <2>3
<1>2. PICK d : Drafts(q, d, a, c)
  BY DEF Runs
<1>3. /\ d \in [0..(l + 1) -> Plain] /\ d[0] = a /\ d[l + 1] = c
      /\ \A n \in 1..(l + 1) : Drafted(q[n], d[n - 1], d[n])
  BY <1>1, <1>2, Zenon DEF Drafts
<1>4. PICK f : f = [n \in 0..l |-> d[n + 1]]
  OBVIOUS
<1>5. f \in [0..l -> Plain] /\ f[0] = d[1] /\ f[l] = c /\ d[1] \in Plain
  BY <1>3, <1>4
<1>6. /\ Tail(q) \in Seq(Events) /\ Len(Tail(q)) = l /\ Head(q) = q[1]
      /\ \A n \in 1..l : Tail(q)[n] = q[n + 1]
  BY <1>1
<1>7. ASSUME NEW n \in 1..l PROVE Drafted(Tail(q)[n], f[n - 1], f[n])
  <2>1. PICK k : k = n + 1
    OBVIOUS
  <2>2. k \in 1..(l + 1) /\ k - 1 = n
    BY <2>1
  <2>3. Drafted(q[k], d[k - 1], d[k])
    BY <1>3, <2>2
  <2>4. Tail(q)[n] = q[k] /\ f[n - 1] = d[k - 1] /\ f[n] = d[k]
    BY <1>4, <1>6, <2>1, <2>2
  <2>5. QED
    BY ONLY <2>3, <2>4, Zenon
<1>8. Drafts(Tail(q), f, d[1], c)
  BY ONLY <1>5, <1>6, <1>7, Zenon DEF Drafts
<1>9. Drafted(Head(q), a, d[1])
  <2>1. 1 \in 1..(l + 1) /\ 1 - 1 = 0
    OBVIOUS
  <2>2. Drafted(q[1], d[1 - 1], d[1])
    BY <1>3, <2>1
  <2>3. QED
    BY ONLY <1>3, <1>6, <2>1, <2>2, Zenon
<1>10. QED
  BY <1>5, <1>8, <1>9, Zenon DEF Runs

LEMMA RunsEmpty ==
  ASSUME NEW a, NEW c, Runs(<<>>, a, c)
  PROVE  a = c
<1>1. PICK d : Drafts(<<>>, d, a, c)
  BY DEF Runs
<1>2. d[0] = a /\ d[Len(<<>>)] = c /\ Len(<<>>) = 0
  BY <1>1 DEF Drafts
<1>3. QED
  BY <1>2

\* The model says something, and its events are sent.
LEMMA Produced ==
  ASSUME TurnsInv, pc = "running", pc' = "running", model # "over",
         NEW ev \in Seq(Events), queue' = queue \o ev,
         message' \in Plain, Runs(ev, message, message'),
         model' \in {"text", "tool", "over"},
         model' = "tool" => message' = <<>> /\ backend # "deepseek",
         NEW text \in Seq(Nat), text = UnderWay(ev), said' = [said EXCEPT ![turn] = @ \o text],
         partial' \in Plain, backend = "claude" => partial' = partial,
         backend = "deepseek" =>
           /\ partial' = partial \o Spoken(text)
           /\ \A n \in DOMAIN ev : /\ ev[n].type # "tool_result"
                                   /\ ev[n].type = "complete" => n = Len(ev) /\ model' = "over",
         UNCHANGED <<backend, turn, memory, messages, segment, stored, status, complete,
                     cancelled, started>>
  PROVE  TurnsInv'
<1>1. /\ backend' = backend /\ turn' = turn /\ memory' = memory /\ messages' = messages
      /\ segment' = segment /\ stored' = stored /\ status' = status /\ complete' = complete
      /\ cancelled' = cancelled /\ started' = started
  OBVIOUS
<1>2. /\ TurnsOK /\ Flows /\ Filed /\ Leaves /\ (backend # "pi" => Minds)
      /\ (backend = "deepseek" => MindOfDeepSeek) /\ (backend = "claude" => MindOfClaude)
  BY DEF TurnsInv
<1>3. /\ turn \in Turns /\ said \in [Turns -> Seq(Nat)] /\ queue \in Seq(Events)
      /\ messages \in Seq(Items) /\ memory \in Seq(Memories) /\ partial \in Plain
      /\ stored \in [Turns -> Seq(Items)] /\ message \in Plain
  BY <1>2 DEF TurnsOK
<1>4. /\ said' \in [Turns -> Seq(Nat)] /\ said'[turn] = said[turn] \o text
      /\ \A t \in Turns : t # turn => said'[t] = said[t]
      /\ said[turn] \in Seq(Nat)
  <2>1. said[turn] \in Seq(Nat) /\ said[turn] \o text \in Seq(Nat)
    BY <1>3
  <2>2. QED
    BY <1>3, <2>1
<1>5. PICK q \in Seq(Events) : q = queue'
  <2>1. queue \o ev \in Seq(Events)
    BY ONLY <1>3, ev \in Seq(Events)
  <2>2. QED
    BY <2>1
<1>6. /\ Len(q) = Len(queue) + Len(ev) /\ Len(queue) \in Nat /\ Len(ev) \in Nat
      /\ DOMAIN q = 1..Len(q) /\ DOMAIN ev = 1..Len(ev) /\ DOMAIN queue = 1..Len(queue)
      /\ \A n \in 1..Len(queue) : q[n] = queue[n]
      /\ \A n \in 1..Len(q) : n \in 1..Len(queue) \/ \E k \in 1..Len(ev) : n = Len(queue) + k /\ q[n] = ev[k]
  <2>1. /\ Len(q) = Len(queue) + Len(ev) /\ Len(queue) \in Nat /\ Len(ev) \in Nat
        /\ \A n \in 1..Len(queue) : q[n] = queue[n]
        /\ \A k \in 1..Len(ev) : q[Len(queue) + k] = ev[k]
    BY <1>3, <1>5, JoinedIs
  <2>2. ASSUME NEW n \in 1..Len(q), n \notin 1..Len(queue)
        PROVE  \E k \in 1..Len(ev) : n = Len(queue) + k /\ q[n] = ev[k]
    <3>1. PICK k : k = n - Len(queue)
      OBVIOUS
    <3>2. k \in 1..Len(ev) /\ n = Len(queue) + k
      BY <2>1, <2>2, <3>1
    <3>3. QED
      BY <2>1, <3>2
  <2>3. DOMAIN q = 1..Len(q) /\ DOMAIN ev = 1..Len(ev) /\ DOMAIN queue = 1..Len(queue)
    BY <1>3, SeqIs
  <2>4. QED
    BY <2>1, <2>2, <2>3
<1>7. TurnsOK'
  <2>1. backend = "deepseek" => \A n \in DOMAIN q : q[n].type # "tool_result"
    <3>1. backend = "deepseek" => \A n \in DOMAIN queue : queue[n].type # "tool_result"
      BY <1>2 DEF TurnsOK
    <3>2. QED
      BY <1>6, <3>1
  <2>2. backend = "deepseek" => model' # "tool"
    OBVIOUS
  <2>3. QED
    BY <1>1, <1>2, <1>4, <1>5, <2>1, <2>2 DEF TurnsOK
<1>8. Flows'
  <2>1. Texts(messages) \o UnderWay(queue) = said[turn]
    BY <1>2 DEF Flows
  <2>2. Texts(messages) \in Seq(Nat) /\ UnderWay(queue) \in Seq(Nat)
    BY <1>3, MemoriesAre, TextsIs, UnderWayIs
  <2>3. UnderWay(q) = UnderWay(queue) \o text
    BY <1>3, <1>5, UnderWayIs
  <2>4. Texts(messages) \o UnderWay(q) = said'[turn]
    <3>1. PICK a \in Seq(Nat), b \in Seq(Nat) : a = Texts(messages) /\ b = UnderWay(queue)
      BY <2>2
    <3>2. (a \o b) \o text = a \o (b \o text)
      BY ONLY a \in Seq(Nat), b \in Seq(Nat), text \in Seq(Nat), NumbersJoin
    <3>3. QED
      BY ONLY <1>4, <2>1, <2>3, <3>1, <3>2, Zenon
  <2>5. Runs(queue, OpenText, message)
    BY <1>2 DEF Flows
  <2>6. Runs(q, OpenText, message')
    BY <1>3, <1>5, <2>5, RunsJoin
  <2>7. OpenText' = OpenText
    BY <1>1 DEF OpenText
  <2>8. segment # 0 =>
          /\ messages[segment].type = "assistant" /\ messages[segment].text # <<>>
          /\ \A n \in DOMAIN messages : n > segment => messages[n].text = <<>>
    BY <1>2 DEF Flows
  <2>9. Runs(queue', OpenText', message')
    BY <1>5, <2>6, <2>7
  <2>10. Texts(messages') \o UnderWay(queue') = said'[turn']
    BY <1>1, <1>5, <2>4
  <2>11. QED
    BY <1>1, <2>8, <2>9, <2>10 DEF Flows
<1>9. IsPrefix(said[turn], said'[turn])
  BY <1>4, PrefixBasics
<1>10. Filed'
  <2>1. ASSUME NEW t \in Turns
        PROVE  /\ t > turn => said'[t] = <<>> /\ stored[t] = <<>> /\ status[t] = "none"
               /\ Done(t)' => /\ IsPrefix(Texts(stored[t]), said'[t])
                              /\ status[t] = "completed" => Texts(stored[t]) = said'[t]
    <3>1. /\ t > turn => said[t] = <<>> /\ stored[t] = <<>> /\ status[t] = "none"
          /\ Done(t) => /\ IsPrefix(Texts(stored[t]), said[t])
                        /\ status[t] = "completed" => Texts(stored[t]) = said[t]
      BY <1>2 DEF Filed
    <3>2. (t > turn => t # turn) /\ (Done(t)' => t # turn /\ Done(t))
      BY <1>1, <1>3 DEF Done, Turns
    <3>3. QED
      BY <1>4, <3>1, <3>2
  <2>2. QED
    BY <1>1, <2>1 DEF Filed
<1>11. Leaves'
  BY <1>1, <1>2 DEF Leaves
<1>12. backend # "pi" => Minds'
  <2>1. SUFFICES ASSUME backend # "pi" PROVE Minds'
    OBVIOUS
  <2>2. Minds
    BY <1>2, <2>1
  <2>3. ASSUME NEW t \in Turns, Done(t)'
        PROVE  IsPrefix(Spoken(Texts(stored[t])), Mind(memory, t)) /\ IsPrefix(Mind(memory, t), Words(t)')
    <3>1. t # turn /\ Done(t)
      BY <1>1, <1>3, <2>3 DEF Done, Turns
    <3>2. Words(t)' = Words(t)
      BY <1>4, <3>1 DEF Words
    <3>3. QED
      BY <2>2, <3>1, <3>2 DEF Minds
  <2>4. QED
    BY <1>1, <2>2, <2>3 DEF Minds
<1>13. backend = "deepseek" => MindOfDeepSeek'
  <2>1. SUFFICES ASSUME backend = "deepseek" PROVE MindOfDeepSeek'
    OBVIOUS
  <2>2. /\ partial = Words(turn) /\ memory # <<>>
        /\ Mind(memory, turn) = IF Newest("assistant") THEN partial ELSE <<>>
        /\ \A n \in DOMAIN queue : queue[n].type = "complete" => model = "over"
        /\ Newest("assistant") => model = "over"
    BY <1>2, <2>1 DEF MindOfDeepSeek
  <2>3. ~Newest("assistant") /\ Newest("assistant")' = Newest("assistant")
    BY <1>1, <2>2 DEF Newest
  <2>4. partial' = Words(turn)'
    <3>1. Spoken(said[turn] \o text) = Spoken(said[turn]) \o Spoken(text)
      BY <1>4, SpokenIs
    <3>2. QED
      BY <1>1, <1>4, <2>1, <2>2, <3>1 DEF Words
  <2>5. ASSUME NEW n \in DOMAIN q, q[n].type = "complete"
        PROVE  n = Len(q) /\ model' = "over"
    <3>1. n \notin 1..Len(queue)
      BY <1>6, <2>2, <2>5
    <3>2. PICK k \in 1..Len(ev) : n = Len(queue) + k /\ q[n] = ev[k]
      BY <1>6, <3>1
    <3>3. k = Len(ev) /\ model' = "over"
      <4>1. ev[k].type = "complete" /\ k \in DOMAIN ev
        BY <1>6, <2>5, <3>2, Zenon
      <4>2. QED
        BY <2>1, <4>1, Zenon
    <3>4. QED
      BY <1>6, <3>2, <3>3
  <2>6. QED
    BY <1>1, <1>5, <2>2, <2>3, <2>4, <2>5 DEF MindOfDeepSeek
<1>14. backend = "claude" => MindOfClaude'
  <2>1. SUFFICES ASSUME backend = "claude" PROVE MindOfClaude'
    OBVIOUS
  <2>2. partial = OpenText /\ Mind(memory, turn) \o partial = Spoken(Texts(messages))
    BY <1>2, <2>1 DEF MindOfClaude
  <2>3. OpenText' = OpenText /\ partial' = partial
    BY <1>1, <2>1 DEF OpenText
  <2>4. QED
    BY <1>1, <2>2, <2>3 DEF MindOfClaude
<1>15. QED
  BY <1>1, <1>7, <1>8, <1>10, <1>11, <1>12, <1>13, <1>14 DEF TurnsInv

\* Events that leave the text as it is but for the end of a message.
Tells(ev, before, after) == ev \in Seq(Events) /\ Runs(ev, before, after) /\ UnderWay(ev) = <<>>

LEMMA TellsJoin ==
  ASSUME NEW q, NEW r, NEW a, NEW b, NEW c, Tells(q, a, b), Tells(r, b, c)
  PROVE  Tells(q \o r, a, c)
<1>1. q \in Seq(Events) /\ r \in Seq(Events) /\ Runs(q, a, b) /\ Runs(r, b, c)
      /\ UnderWay(q) = <<>> /\ UnderWay(r) = <<>>
  BY Zenon DEF Tells
<1>2. q \o r \in Seq(Events)
  BY ONLY <1>1
<1>3. Runs(q \o r, a, c)
  BY ONLY <1>1, RunsJoin
<1>4. UnderWay(q \o r) = <<>> \o <<>>
  BY ONLY <1>1, UnderWayIs, Zenon
<1>5. <<>> \o <<>> = <<>>
  OBVIOUS
<1>6. QED
  BY <1>2, <1>3, <1>4, <1>5, Zenon DEF Tells

LEMMA TellsNil ==
  ASSUME NEW a \in Plain
  PROVE  Tells(<<>>, a, a)
<1>1. <<>> \in Seq(Events)
  OBVIOUS
<1>2. QED
  BY <1>1, RunsNil, UnderWayIs, Zenon DEF Tells

LEMMA TellsNoText ==
  ASSUME NEW type \in {"tool_start", "error", "complete"}, NEW a \in Plain
  PROVE  /\ NoText(type).type = type /\ NoText(type) \in Events
         /\ Tells(<<NoText(type)>>, a, a)
<1>1. NoText(type).type = type /\ NoText(type) \in Events
  <2>1. <<>> \in Seq(Nat)
    OBVIOUS
  <2>2. QED
    BY <2>1 DEF NoText, Event, Events, EventTypes
<1>2. Drafted(NoText(type), a, a)
  BY <1>1 DEF Drafted
<1>3. UnderWay(<<NoText(type)>>) = <<>>
  <2>1. Comes(NoText(type)) = <<>>
    BY <1>1 DEF Comes
  <2>2. QED
    BY <1>1, <2>1, UnderWayIs
<1>4. <<NoText(type)>> \in Seq(Events)
  BY <1>1
<1>5. Runs(<<NoText(type)>>, a, a)
  BY <1>2, RunsOne
<1>6. QED
  BY <1>1, <1>3, <1>4, <1>5, Zenon DEF Tells

LEMMA TellsWhole ==
  ASSUME NEW a \in Plain
  PROVE  /\ Tells(WholeText(a), a, <<>>)
         /\ WholeText(a) = <<>> \/ \E e : WholeText(a) = <<e>> /\ e.type = "text_complete"
<1>1. CASE a = <<>>
  <2>1. WholeText(a) = <<>>
    BY <1>1 DEF WholeText
  <2>2. QED
    BY <1>1, <2>1, TellsNil
<1>2. CASE a # <<>>
  <2>1. PICK e : e = Event("text_complete", a)
    OBVIOUS
  <2>2. e.type = "text_complete" /\ e.text = a /\ e \in Events
    <3>1. a \in Seq(Nat)
      BY DEF Plain
    <3>2. e = [type |-> "text_complete", text |-> a]
      BY <2>1 DEF Event
    <3>3. e.type = "text_complete" /\ e.text = a
      BY <3>2
    <3>4. e \in [type : EventTypes, text : Seq(Nat)]
      BY <3>1, <3>2 DEF EventTypes
    <3>5. QED
      BY <1>2, <3>3, <3>4 DEF Events
  <2>3. WholeText(a) = <<e>>
    BY <1>2, <2>1 DEF WholeText
  <2>4. Drafted(e, a, <<>>)
    BY <2>2 DEF Drafted
  <2>5. Runs(<<e>>, a, <<>>)
    BY <2>4, PlainIs, RunsOne
  <2>6. UnderWay(<<e>>) = <<>>
    <3>1. Comes(e) = <<>>
      BY <2>2 DEF Comes
    <3>2. QED
      BY <2>2, <3>1, UnderWayIs
  <2>7. <<e>> \in Seq(Events)
    BY <2>2
  <2>8. QED
    BY <2>2, <2>3, <2>5, <2>6, <2>7, Zenon DEF Tells
<1>3. QED
  BY <1>1, <1>2

\* Such events, and nothing new said.
LEMMA Told ==
  ASSUME TurnsInv, pc = "running", pc' = "running", model # "over",
         NEW ev, Tells(ev, message, message'), queue' = queue \o ev, message' \in Plain,
         model' \in {"text", "tool", "over"},
         model' = "tool" => message' = <<>> /\ backend # "deepseek",
         backend = "deepseek" =>
           \A n \in DOMAIN ev : /\ ev[n].type # "tool_result"
                                /\ ev[n].type = "complete" => n = Len(ev) /\ model' = "over",
         UNCHANGED <<backend, turn, said, memory, messages, segment, stored, status, complete,
                     cancelled, started, partial>>
  PROVE  TurnsInv'
<1>1. ev \in Seq(Events) /\ Runs(ev, message, message') /\ UnderWay(ev) = <<>> /\ <<>> \in Seq(Nat)
  <2>1. <<>> \in Seq(Nat)
    OBVIOUS
  <2>2. QED
    BY <2>1, Zenon DEF Tells
<1>2. said \in [Turns -> Seq(Nat)] /\ turn \in Turns /\ partial \in Plain
  BY DEF TurnsInv, TurnsOK
<1>3. said' = [said EXCEPT ![turn] = @ \o <<>>]
  <2>1. said[turn] \in Seq(Nat)
    BY <1>2
  <2>2. said[turn] \o <<>> = said[turn]
    BY <2>1, NumbersNil
  <2>3. QED
    BY <1>2, <2>2
<1>4. partial' = partial \o Spoken(<<>>) /\ partial' = partial /\ partial' \in Plain
  <2>1. Spoken(<<>>) = <<>> /\ partial \in Seq(Nat)
    BY <1>2, SpokenIs DEF Plain
  <2>2. partial \o <<>> = partial
    BY <2>1, NumbersNil
  <2>3. QED
    BY <1>2, <2>1, <2>2
<1>5. QED
  BY <1>1, <1>3, <1>4, Produced

LEMMA DeltaKeeps ==
  ASSUME TurnsInv, Delta
  PROVE  TurnsInv'
<1>1. PICK word : word = Len(Words(turn)) + 1
  OBVIOUS
<1>2. /\ pc = "running" /\ model = "text" /\ ~Silent(backend)
      /\ said' = [said EXCEPT ![turn] = Append(@, word)] /\ message' = Append(message, word)
      /\ partial' = IF backend = "deepseek" THEN Append(partial, word) ELSE partial
      /\ queue' = queue \o <<Event("text_delta", <<word>>)>>
      /\ UNCHANGED <<backend, turn, pc, model, memory, messages, segment, stored, status,
                     complete, cancelled, started>>
  BY <1>1 DEF Delta, ModelSteps, Says, Sends
<1>3. /\ said \in [Turns -> Seq(Nat)] /\ turn \in Turns /\ partial \in Plain /\ message \in Plain
      /\ queue \in Seq(Events)
  <2>1. TurnsOK
    BY DEF TurnsInv
  <2>2. QED
    BY ONLY <1>2, <2>1 DEF TurnsOK
<1>4. word \in Nat \ {0} /\ word \in Nat
  <2>1. said[turn] \in Seq(Nat)
    BY <1>3
  <2>2. Words(turn) \in Seq(Nat)
    BY <2>1, SpokenIs DEF Words
  <2>3. Len(Words(turn)) \in Nat
    BY <2>2
  <2>4. QED
    BY <1>1, <2>3
<1>5. PICK text : text = <<word>>
  OBVIOUS
<1>6. text \in Seq(Nat) /\ text \in Plain /\ Spoken(text) = text
  BY <1>4, <1>5, PlainIs
<1>7. \A a \in Seq(Nat) : Append(a, word) = a \o text
  BY <1>4, <1>5
<1>8. PICK e : e = Event("text_delta", text)
  OBVIOUS
<1>9. e.type = "text_delta" /\ e.text = text /\ e \in Events
  <2>1. e = [type |-> "text_delta", text |-> text]
    BY <1>8 DEF Event
  <2>2. e.type = "text_delta" /\ e.text = text
    BY <2>1
  <2>3. e \in [type : EventTypes, text : Seq(Nat)]
    BY <1>6, <2>1 DEF EventTypes
  <2>4. QED
    BY <1>4, <1>5, <2>2, <2>3 DEF Events
<1>10. <<e>> \in Seq(Events) /\ queue' = queue \o <<e>> /\ DOMAIN <<e>> = 1..1 /\ <<e>>[1] = e
  BY <1>2, <1>5, <1>8, <1>9
<1>11. message' = message \o text /\ message' \in Plain
  <2>1. message \in Seq(Nat)
    BY <1>3 DEF Plain
  <2>2. message' = message \o text
    BY <1>2, <1>7, <2>1
  <2>3. QED
    BY <1>3, <1>6, <2>2, PlainIs
<1>12. Runs(<<e>>, message, message')
  <2>1. Drafted(e, message, message')
    BY <1>9, <1>11 DEF Drafted
  <2>2. QED
    BY <1>3, <1>11, <2>1, RunsOne
<1>13. text = UnderWay(<<e>>)
  <2>1. Comes(e) = text
    BY <1>9 DEF Comes
  <2>2. QED
    BY <1>9, <2>1, UnderWayIs
<1>14. said' = [said EXCEPT ![turn] = @ \o text]
  <2>1. said[turn] \in Seq(Nat)
    BY <1>3
  <2>2. Append(said[turn], word) = said[turn] \o text
    BY <1>7, <2>1
  <2>3. QED
    BY <1>2, <2>2
<1>15. /\ partial' \in Plain /\ (backend = "claude" => partial' = partial)
       /\ (backend = "deepseek" => partial' = partial \o Spoken(text))
  <2>1. partial \in Seq(Nat)
    BY <1>3 DEF Plain
  <2>2. partial \o text \in Plain
    BY <1>3, <1>6, PlainIs
  <2>3. QED
    BY <1>2, <1>3, <1>6, <1>7, <2>1, <2>2
<1>16. \A n \in DOMAIN <<e>> : <<e>>[n].type # "tool_result" /\ <<e>>[n].type # "complete"
  BY <1>9, <1>10
<1>17. pc' = "running" /\ model # "over" /\ model' = "text"
  BY <1>2
<1>18. QED
  BY ONLY TurnsInv, <1>2, <1>6, <1>10, <1>11, <1>12, <1>13, <1>14, <1>15, <1>16, <1>17, Produced

LEMMA ToolUsedKeeps ==
  ASSUME TurnsInv, ToolUsed
  PROVE  TurnsInv'
<1>1. /\ pc = "running" /\ model = "text" /\ backend # "deepseek" /\ model' = "tool" /\ message' = <<>>
      /\ queue' = queue \o (WholeText(message) \o <<NoText("tool_start")>>)
      /\ UNCHANGED <<backend, turn, pc, said, memory, messages, segment, stored, status,
                     complete, cancelled, started, partial>>
  BY DEF ToolUsed, ModelSteps, Sends, loop
<1>2. message \in Plain /\ <<>> \in Plain
  BY PlainIs DEF TurnsInv, TurnsOK
<1>3. Tells(WholeText(message), message, <<>>) /\ Tells(<<NoText("tool_start")>>, <<>>, <<>>)
  BY <1>2, TellsWhole, TellsNoText
<1>4. Tells(WholeText(message) \o <<NoText("tool_start")>>, message, message')
  BY <1>1, <1>3, TellsJoin
<1>5. QED
  BY <1>1, <1>2, <1>4, Told

LEMMA ToolEndedKeeps ==
  ASSUME TurnsInv, ToolEnded
  PROVE  TurnsInv'
<1>1. /\ pc = "running" /\ model = "tool" /\ model' = "text"
      /\ said' = [said EXCEPT ![turn] = Append(@, 0)] /\ queue' = queue \o <<NoText("tool_result")>>
      /\ UNCHANGED <<backend, turn, pc, message, memory, messages, segment, stored, status,
                     complete, cancelled, started, partial>>
  BY DEF ToolEnded, ModelSteps, Says, Sends, loop
<1>2. /\ said \in [Turns -> Seq(Nat)] /\ turn \in Turns /\ partial \in Plain /\ message = <<>>
      /\ <<>> \in Plain /\ backend # "deepseek"
  BY <1>1, PlainIs DEF TurnsInv, TurnsOK, Flows
<1>3. PICK e : e = NoText("tool_result")
  OBVIOUS
<1>4. e.type = "tool_result" /\ e \in Events
  <2>1. <<>> \in Seq(Nat)
    OBVIOUS
  <2>2. QED
    BY <1>3, <2>1 DEF NoText, Event, Events, EventTypes
<1>5. PICK text : text = <<0>>
  OBVIOUS
<1>6. text \in Seq(Nat) /\ \A a \in Seq(Nat) : Append(a, 0) = a \o text
  BY <1>5
<1>7. <<e>> \in Seq(Events) /\ queue' = queue \o <<e>>
  BY <1>1, <1>3, <1>4
<1>8. Runs(<<e>>, message, message')
  <2>1. Drafted(e, <<>>, <<>>)
    BY <1>4 DEF Drafted
  <2>2. QED
    BY <1>1, <1>2, <2>1, RunsOne
<1>9. text = UnderWay(<<e>>)
  <2>1. Comes(e) = text
    BY <1>4, <1>5 DEF Comes
  <2>2. QED
    BY <1>4, <2>1, UnderWayIs
<1>10. said' = [said EXCEPT ![turn] = @ \o text]
  <2>1. said[turn] \in Seq(Nat)
    BY <1>2
  <2>2. Append(said[turn], 0) = said[turn] \o text
    BY <1>6, <2>1
  <2>3. QED
    BY <1>1, <2>2
<1>11. pc' = "running" /\ model # "over" /\ message' \in Plain /\ partial' = partial /\ partial' \in Plain
  BY <1>1, <1>2
<1>12. QED
  BY ONLY TurnsInv, <1>1, <1>2, <1>6, <1>7, <1>8, <1>9, <1>10, <1>11, Produced

LEMMA MessageEndedKeeps ==
  ASSUME TurnsInv, NEW erred, MessageEnded(erred)
  PROVE  TurnsInv'
<1>1. /\ pc = "running" /\ model = "text" /\ backend = "pi" /\ message' = <<>>
      /\ queue' = queue \o ((IF erred THEN <<NoText("error")>> ELSE <<>>) \o WholeText(message))
      /\ UNCHANGED <<backend, turn, pc, model, said, memory, messages, segment, stored, status,
                     complete, cancelled, started, partial>>
  BY DEF MessageEnded, ModelSteps, Sends, loop
<1>2. message \in Plain /\ <<>> \in Plain
  BY PlainIs DEF TurnsInv, TurnsOK
<1>3. Tells(IF erred THEN <<NoText("error")>> ELSE <<>>, message, message)
  BY <1>2, TellsNoText, TellsNil
<1>4. Tells(WholeText(message), message, <<>>)
  BY <1>2, TellsWhole
<1>5. Tells((IF erred THEN <<NoText("error")>> ELSE <<>>) \o WholeText(message), message, message')
  BY <1>1, <1>3, <1>4, TellsJoin
<1>6. QED
  BY <1>1, <1>2, <1>5, Told

LEMMA FinishedKeeps ==
  ASSUME TurnsInv, Finished
  PROVE  TurnsInv'
<1> DEFINE second == IF backend = "claude" THEN <<NoText("complete")>> ELSE <<>>
<1>1. /\ pc = "running" /\ model = "text" /\ model' = "over" /\ message' = <<>>
      /\ queue' = queue \o (WholeText(message) \o <<NoText("complete")>> \o second)
      /\ UNCHANGED <<backend, turn, pc, said, memory, messages, segment, stored, status,
                     complete, cancelled, started, partial>>
  BY DEF Finished, ModelSteps, Sends, loop
<1>2. message \in Plain /\ <<>> \in Plain
  BY PlainIs DEF TurnsInv, TurnsOK
<1>3. Tells(second, <<>>, <<>>)
  BY <1>2, TellsNoText, TellsNil
<1>4. Tells(WholeText(message), message, <<>>) /\ Tells(<<NoText("complete")>>, <<>>, <<>>)
  BY <1>2, TellsWhole, TellsNoText
<1>5. PICK ev : ev = WholeText(message) \o <<NoText("complete")>> \o second
  OBVIOUS
<1>6. Tells(ev, message, message')
  <2> HIDE DEF second
  <2>1. Tells(WholeText(message) \o <<NoText("complete")>>, message, <<>>)
    BY <1>4, TellsJoin
  <2>2. QED
    BY <1>1, <1>3, <1>5, <2>1, TellsJoin
<1>7. backend = "deepseek" =>
        \A n \in DOMAIN ev : /\ ev[n].type # "tool_result"
                             /\ ev[n].type = "complete" => n = Len(ev)
  <2>1. SUFFICES ASSUME backend = "deepseek"
                 PROVE  \A n \in DOMAIN ev : /\ ev[n].type # "tool_result"
                                             /\ ev[n].type = "complete" => n = Len(ev)
    OBVIOUS
  <2>2. PICK c : c = NoText("complete") /\ c.type = "complete"
    BY <1>2, TellsNoText
  <2>3. CASE WholeText(message) = <<>>
    <3>1. ev = <<c>>
      BY <1>5, <2>1, <2>2, <2>3
    <3>2. QED
      BY <2>2, <3>1
  <2>4. ASSUME NEW e, WholeText(message) = <<e>>, e.type = "text_complete"
        PROVE  \A n \in DOMAIN ev : /\ ev[n].type # "tool_result"
                                    /\ ev[n].type = "complete" => n = Len(ev)
    <3>1. ev = (<<e>> \o <<c>>) \o <<>>
      BY <1>5, <2>1, <2>2, <2>4
    <3>2. PICK E : E = {e, c}
      OBVIOUS
    <3>3. <<e>> \in Seq(E) /\ <<c>> \in Seq(E)
      BY <3>2
    <3>4. PICK x, y : x = <<e>> /\ y = <<c>>
      OBVIOUS
    <3>5. x \in Seq(E) /\ y \in Seq(E) /\ Len(x) = 1 /\ Len(y) = 1 /\ x[1] = e /\ y[1] = c
      BY <3>3, <3>4
    <3>6. /\ x \o y \in Seq(E) /\ Len(x \o y) = 2 /\ (x \o y)[1] = e /\ (x \o y)[2] = c
          /\ (x \o y) \o <<>> = x \o y /\ DOMAIN (x \o y) = 1..2
      <4>1. /\ x \o y \in Seq(E) /\ Len(x \o y) = Len(x) + Len(y)
            /\ \A k \in 1..Len(x) : (x \o y)[k] = x[k]
            /\ \A k \in 1..Len(y) : (x \o y)[Len(x) + k] = y[k]
        BY ONLY <3>5, JoinedIs
      <4>2. (x \o y) \o <<>> = x \o y
        BY ONLY <4>1, JoinNil
      <4>3. DOMAIN (x \o y) = 1..Len(x \o y)
        BY ONLY <4>1, SeqIs
      <4>4. QED
        BY ONLY <3>5, <4>1, <4>2, <4>3
    <3>7. DOMAIN ev = 1..2 /\ Len(ev) = 2 /\ ev[1] = e /\ ev[2] = c
      BY ONLY <3>1, <3>4, <3>6
    <3>8. QED
      BY <2>2, <2>4, <3>7
  <2>5. QED
    BY <1>2, <2>3, <2>4, TellsWhole
<1>8. queue' = queue \o ev /\ pc' = "running" /\ model # "over"
  BY <1>1, <1>5
<1>9. QED
  <2> HIDE DEF second
  <2>1. QED
    BY <1>1, <1>2, <1>6, <1>7, <1>8, Told

LEMMA ResultFailedKeeps ==
  ASSUME TurnsInv, ResultFailed
  PROVE  TurnsInv'
<1>1. PICK ev : ev = <<NoText("error"), NoText("complete"), NoText("complete")>>
  OBVIOUS
<1>2. /\ pc = "running" /\ model # "over" /\ backend = "claude" /\ model' = "over" /\ message' = <<>>
      /\ queue' = queue \o (WholeText(message) \o ev)
      /\ UNCHANGED <<backend, turn, pc, said, memory, messages, segment, stored, status,
                     complete, cancelled, started, partial>>
  BY <1>1 DEF ResultFailed, ModelSteps, Sends, loop
<1>3. message \in Plain /\ <<>> \in Plain
  BY PlainIs DEF TurnsInv, TurnsOK
<1>4. Tells(WholeText(message), message, <<>>) /\ Tells(<<NoText("error")>>, <<>>, <<>>)
      /\ Tells(<<NoText("complete")>>, <<>>, <<>>)
  BY <1>3, TellsWhole, TellsNoText
<1>5. ev = (<<NoText("error")>> \o <<NoText("complete")>>) \o <<NoText("complete")>>
  BY <1>1
<1>6. Tells(ev, <<>>, <<>>)
  BY <1>4, <1>5, TellsJoin
<1>7. Tells(WholeText(message) \o ev, message, message')
  BY <1>2, <1>4, <1>6, TellsJoin
<1>8. QED
  BY <1>2, <1>3, <1>7, Told

LEMMA QueryEndedKeeps ==
  ASSUME TurnsInv, QueryEnded
  PROVE  TurnsInv'
<1>1. /\ pc = "running" /\ model = "text" /\ backend = "claude" /\ model' = "over" /\ message' = message
      /\ queue' = queue \o <<NoText("complete")>>
      /\ UNCHANGED <<backend, turn, pc, said, memory, messages, segment, stored, status,
                     complete, cancelled, started, partial>>
  BY DEF QueryEnded, ModelSteps, Sends, loop
<1>2. message \in Plain
  BY DEF TurnsInv, TurnsOK
<1>3. Tells(<<NoText("complete")>>, message, message')
  BY <1>1, <1>2, TellsNoText
<1>4. QED
  BY <1>1, <1>2, <1>3, Told

LEMMA BrokenKeeps ==
  ASSUME TurnsInv, Broken
  PROVE  TurnsInv'
<1> DEFINE done == IF backend = "claude" THEN <<NoText("complete")>> ELSE <<>>
<1>1. /\ pc = "running" /\ model # "over" /\ model' = "over" /\ message' = message
      /\ queue' = queue \o (IF Silent(backend) THEN <<>> ELSE <<NoText("error")>> \o done)
      /\ UNCHANGED <<backend, turn, pc, said, memory, messages, segment, stored, status,
                     complete, cancelled, started, partial>>
  BY DEF Broken, ModelSteps, Sends, loop
<1>2. message \in Plain
  BY DEF TurnsInv, TurnsOK
<1>3. Tells(<<NoText("error")>>, message, message) /\ Tells(<<>>, message, message)
      /\ Tells(done, message, message)
  BY <1>2, TellsNoText, TellsNil
<1>4. PICK ev : ev = IF Silent(backend) THEN <<>> ELSE <<NoText("error")>> \o done
  OBVIOUS
<1>5. Tells(ev, message, message')
  <2> HIDE DEF done
  <2>1. Tells(<<NoText("error")>> \o done, message, message)
    BY <1>3, TellsJoin
  <2>2. QED
    BY <1>1, <1>3, <1>4, <2>1
<1>6. backend = "deepseek" => \A n \in DOMAIN ev : ev[n].type # "tool_result" /\ ev[n].type # "complete"
  <2>1. SUFFICES ASSUME backend = "deepseek"
                 PROVE  \A n \in DOMAIN ev : ev[n].type # "tool_result" /\ ev[n].type # "complete"
    OBVIOUS
  <2>2. PICK c : c = NoText("error") /\ c.type = "error"
    BY <1>2, TellsNoText
  <2>3. ev = <<>> \/ ev = <<c>>
    BY <1>4, <2>1, <2>2
  <2>4. QED
    BY <2>2, <2>3
<1>7. queue' = queue \o ev /\ pc' = "running"
  BY <1>1, <1>4
<1>8. QED
  <2> HIDE DEF done
  <2>1. QED
    BY <1>1, <1>2, <1>5, <1>6, <1>7, Told

LEMMA NothingYet ==
  /\ Texts(<<>>) = <<>> /\ Spoken(<<>>) = <<>> /\ UnderWay(<<>>) = <<>>
  /\ <<>> \o <<>> = <<>> /\ IsPrefix(<<>>, <<>>)
  /\ <<>> \in Plain /\ <<>> \in Seq(Nat) /\ <<>> \in Seq(Events) /\ <<>> \in Seq(Items)
  /\ <<>> \in Seq(Memories)
<1>1. <<>> \in Seq(Nat) /\ <<>> \in Seq(Events) /\ <<>> \in Seq(Items) /\ <<>> \in Seq(Memories)
  OBVIOUS
<1>2. Texts(<<>>) = <<>>
  BY MemoriesAre, TextsIs
<1>3. IsPrefix(<<>>, <<>>) /\ <<>> \o <<>> = <<>>
  BY <1>1, NumbersPrefix, NumbersNil
<1>4. QED
  BY <1>1, <1>2, <1>3, SpokenIs, UnderWayIs, PlainIs

LEMMA PromptIs ==
  ASSUME NEW t \in Nat
  PROVE  /\ Prompt(t) \in Memories /\ Prompt(t).turn = t /\ Prompt(t).text = <<0>>
         /\ Prompt(t).type = "user"
BY DEF Prompt, Memories

LEMMA TurnBeginKeeps ==
  ASSUME TurnsInv, NEW early \in BOOLEAN, BeginTurn(early)
  PROVE  TurnsInv'
<1>1. /\ pc = "idle" /\ turn < MaxTurns /\ turn' = turn + 1
      /\ messages' = <<>> /\ segment' = 0 /\ complete' = FALSE /\ cancelled' = early
      /\ message' = <<>> /\ queue' = <<>> /\ partial' = <<>>
      /\ backend' = backend /\ said' = said /\ stored' = stored /\ status' = status
  BY DEF BeginTurn
<1>2. PICK m : m = Prompt(turn + 1)
  OBVIOUS
<1>3. \/ early /\ pc' = "leaving" /\ model' = "over" /\ memory' = memory /\ started' = started
      \/ /\ pc' = "running" /\ model' = "text" /\ started' = started \cup {turn + 1}
         /\ memory' = Append(memory, m)
  BY <1>2 DEF BeginTurn, Remember
<1>4. /\ TurnsOK /\ Filed /\ Leaves /\ (backend # "pi" => Minds)
      /\ (backend = "deepseek" => MindOfDeepSeek) /\ (backend = "claude" => MindOfClaude)
  BY DEF TurnsInv
<1>5. /\ turn \in 0..MaxTurns /\ MaxTurns \in Nat /\ memory \in Seq(Memories) /\ started \subseteq 1..turn
      /\ stored \in [Turns -> Seq(Items)] /\ said \in [Turns -> Seq(Nat)]
  BY <1>4, TurnsAssumption DEF TurnsOK
<1>6. PICK u \in Turns : u = turn + 1 /\ u = turn' /\ u \in 0..MaxTurns /\ u \in Nat /\ u > turn
           /\ u \in 1..u /\ 1..turn \subseteq 1..u
  BY <1>1, <1>5 DEF Turns
<1>7. m \in Memories /\ m.turn = u /\ m.text = <<0>> /\ m.type = "user"
  BY <1>2, <1>6, PromptIs
<1>8. pc' \in {"running", "leaving"} /\ pc' # "idle"
  BY <1>3
<1>9. said[u] = <<>> /\ stored[u] = <<>> /\ status[u] = "none"
  BY <1>4, <1>6 DEF Filed
<1>10. TurnsOK'
  <2>1. memory' \in Seq(Memories) /\ started' \subseteq 1..u /\ model' \in {"text", "tool", "over"}
        /\ model' # "tool" /\ pc' \in {"idle", "running", "leaving"}
    <3>1. Append(memory, m) \in Seq(Memories)
      BY <1>5, <1>7
    <3>2. started \subseteq 1..u /\ started \cup {turn + 1} \subseteq 1..u
      BY <1>5, <1>6
    <3>3. QED
      BY <1>3, <1>5, <3>1, <3>2
  <2>2. DOMAIN messages' = {} /\ DOMAIN queue' = {} /\ segment' \in 0..Len(messages')
    BY <1>1
  <2>3. QED
    BY <1>1, <1>4, <1>6, <2>1, <2>2, NothingYet DEF TurnsOK
<1>11. Flows'
  <2>1. OpenText' = <<>>
    BY <1>1 DEF OpenText
  <2>2. Runs(queue', OpenText', message')
    BY <1>1, <2>1, NothingYet, RunsNil
  <2>3. Texts(messages') \o UnderWay(queue') = said'[turn']
    BY <1>1, <1>6, <1>9, NothingYet
  <2>4. segment' = 0 /\ message' = <<>>
    BY <1>1
  <2>5. QED
    BY <2>2, <2>3, <2>4 DEF Flows
<1>12. ASSUME NEW t \in Turns, Done(t)' PROVE Done(t) /\ t # u /\ t \in 1..turn
  BY <1>1, <1>5, <1>6, <1>8, <1>12 DEF Done, Turns
<1>13. Filed'
  <2>1. ASSUME NEW t \in Turns, t > u PROVE t > turn
    BY <1>5, <1>6, <2>1 DEF Turns
  <2>2. QED
    BY <1>1, <1>4, <1>6, <1>12, <2>1 DEF Filed
<1>14. Leaves'
  <2>1. Texts(messages') = <<>> /\ Texts(stored'[turn']) = <<>> /\ said'[turn'] = <<>>
        /\ status'[turn'] = "none"
    BY <1>1, <1>6, <1>9, NothingYet
  <2>2. QED
    BY <2>1, NothingYet DEF Leaves
<1>15. \A t : Mind(memory', t) = Mind(memory, t)
  <2>1. SUFFICES ASSUME NEW t PROVE Mind(memory', t) = Mind(memory, t)
    OBVIOUS
  <2>2. Mind(Append(memory, m), t) = IF m.turn = t THEN Mind(memory, t) \o Spoken(m.text) ELSE Mind(memory, t)
    BY <1>5, <1>7, MindGrows
  <2>3. Mind(memory, t) \o Spoken(m.text) = Mind(memory, t)
    <3>1. Mind(memory, t) \in Seq(Nat)
      BY <1>5, MindTyped
    <3>2. QED
      BY <1>7, <3>1, SpokenIs, NumbersNil
  <2>4. QED
    BY <1>3, <2>2, <2>3
<1>16. backend # "pi" => Minds'
  <2>1. SUFFICES ASSUME Minds PROVE Minds'
    BY <1>4
  <2>2. /\ \A n \in DOMAIN memory : memory[n].turn \in 1..turn
        /\ \A t \in 1..turn : t \in started =>
             \E n \in DOMAIN memory : memory[n].turn = t /\ memory[n].type = "user"
        /\ \A t \in Turns : Done(t) =>
             IsPrefix(Spoken(Texts(stored[t])), Mind(memory, t)) /\ IsPrefix(Mind(memory, t), Words(t))
    BY <2>1 DEF Minds
  <2>3. 1..turn \subseteq 1..u
    BY <1>5, <1>6
  <2>4. /\ \A n \in DOMAIN memory' : memory'[n].turn \in 1..u
        /\ \A t \in 1..u : t \in started' =>
             \E n \in DOMAIN memory' : memory'[n].turn = t /\ memory'[n].type = "user"
    <3>1. CASE memory' = memory /\ started' = started
      BY <1>5, <2>2, <2>3, <3>1
    <3>2. CASE memory' = Append(memory, m) /\ started' = started \cup {turn + 1}
      <4>1. PICK l \in Nat : l = Len(memory) /\ DOMAIN memory = 1..l
        BY <1>5, SeqIs
      <4>2. /\ DOMAIN memory' = 1..(l + 1) /\ memory'[l + 1] = m
            /\ \A n \in 1..l : memory'[n] = memory[n]
        BY <1>5, <1>7, <3>2, <4>1
      <4>3. ASSUME NEW n \in DOMAIN memory' PROVE memory'[n].turn \in 1..u
        <5>1. CASE n \in 1..l
          BY <2>2, <2>3, <4>1, <4>2, <5>1
        <5>2. CASE n = l + 1
          BY <1>6, <1>7, <4>2, <5>2
        <5>3. QED
          BY <4>2, <5>1, <5>2
      <4>4. ASSUME NEW t \in 1..u, t \in started'
            PROVE  \E n \in DOMAIN memory' : memory'[n].turn = t /\ memory'[n].type = "user"
        <5>1. CASE t = u
          <6>1. l + 1 \in DOMAIN memory'
            BY <4>2
          <6>2. QED
            BY <1>7, <4>2, <5>1, <6>1
        <5>2. CASE t # u
          <6>1. t \in started /\ t \in 1..turn
            BY <1>5, <1>6, <3>2, <4>4, <5>2
          <6>2. PICK n \in 1..l : memory[n].turn = t /\ memory[n].type = "user"
            BY <2>2, <4>1, <6>1
          <6>3. n \in DOMAIN memory'
            BY <4>2
          <6>4. QED
            BY <4>2, <6>2, <6>3
        <5>3. QED
          BY <5>1, <5>2
      <4>5. QED
        BY <4>3, <4>4
    <3>3. QED
      BY <1>3, <3>1, <3>2
  <2>5. ASSUME NEW t \in Turns, Done(t)'
        PROVE  IsPrefix(Spoken(Texts(stored'[t])), Mind(memory', t)) /\ IsPrefix(Mind(memory', t), Words(t)')
    <3>1. Done(t) /\ Words(t)' = Words(t) /\ stored'[t] = stored[t]
      BY <1>1, <1>12, <2>5 DEF Words
    <3>2. QED
      BY <1>15, <2>2, <3>1
  <2>6. QED
    BY <1>6, <2>4, <2>5 DEF Minds
<1>17. backend # "pi" => Mind(memory', u) = <<>> /\ Mind(memory', u) \o <<>> = <<>>
  <2>1. SUFFICES ASSUME Minds PROVE Mind(memory', u) = <<>>
    BY <1>4, NothingYet
  <2>2. \A n \in DOMAIN memory : memory[n].turn # u
    BY <1>5, <1>6, <2>1 DEF Minds
  <2>3. QED
    BY <1>5, <1>15, <2>2, RecallNone
<1>18. Words(u)' = <<>>
  BY <1>1, <1>9, NothingYet DEF Words
<1>19. backend = "deepseek" => MindOfDeepSeek'
  <2>1. SUFFICES ASSUME backend = "deepseek" PROVE MindOfDeepSeek'
    OBVIOUS
  <2>2. Mind(memory', turn') = IF Newest("assistant")' THEN partial' ELSE <<>>
    BY <1>1, <1>6, <1>17, <2>1
  <2>3. pc' = "running" => memory' # <<>> /\ ~Newest("assistant")'
    <3>1. SUFFICES ASSUME memory' = Append(memory, m) PROVE memory' # <<>> /\ ~Newest("assistant")'
      BY <1>3
    <3>2. memory'[Len(memory')] = m /\ Len(memory') # 0
      BY <1>5, <1>7, <3>1, AppendIs
    <3>3. QED
      BY <1>7, <3>2 DEF Newest
  <2>4. DOMAIN queue' = {}
    BY <1>1
  <2>5. partial' = <<>> /\ Words(turn)' = <<>>
    BY <1>1, <1>6, <1>18 DEF Words
  <2>6. QED
    BY <2>2, <2>3, <2>4, <2>5 DEF MindOfDeepSeek
<1>20. backend = "claude" => MindOfClaude'
  <2>1. SUFFICES ASSUME backend = "claude" PROVE MindOfClaude'
    OBVIOUS
  <2>2. partial' = <<>> /\ Words(turn)' = <<>> /\ OpenText' = <<>> /\ Spoken(Texts(messages')) = <<>>
        /\ Mind(memory', turn') \o partial' = <<>>
    BY <1>1, <1>6, <1>17, <1>18, <2>1, NothingYet DEF OpenText, Words
  <2>3. QED
    BY <2>2, NothingYet DEF MindOfClaude
<1>21. QED
  BY <1>1, <1>10, <1>11, <1>13, <1>14, <1>16, <1>19, <1>20 DEF TurnsInv

LEMMA TextsAppend ==
  ASSUME NEW q \in Seq(Items), NEW m \in Items
  PROVE  /\ Append(q, m) \in Seq(Items) /\ Texts(q) \in Seq(Nat)
         /\ Texts(Append(q, m)) = Texts(q) \o m.text
<1>1. Append(q, m) = q \o <<m>> /\ <<m>> \in Seq(Items) /\ Append(q, m) \in Seq(Items)
  OBVIOUS
<1>2. Texts(q \o <<m>>) = Texts(q) \o Texts(<<m>>) /\ Texts(q) \in Seq(Nat)
  BY <1>1, MemoriesAre, TextsIs
<1>3. Texts(<<m>>) = m.text
  BY MemoriesAre, TextsIs
<1>4. QED
  BY <1>1, <1>2, <1>3

\* What the open segment has after this event.
OpenNext(e, b) ==
  /\ messages' \in Seq(Items) /\ segment' \in 0..Len(messages')
  /\ Texts(messages') = Texts(messages) \o Comes(e) /\ OpenText' = b
  /\ segment' # 0 =>
       /\ messages'[segment'].type = "assistant" /\ messages'[segment'].text # <<>>
       /\ \A n \in DOMAIN messages' : n > segment' => messages'[n].text = <<>>
  /\ e.type # "tool_result" /\ (\A n \in DOMAIN messages : messages[n].type # "tool") =>
       \A n \in DOMAIN messages' : messages'[n].type # "tool"

LEMMA ConsumedDelta ==
  ASSUME TurnsOK, Flows, pc = "running", NEW e \in Events, NEW b \in Plain,
         Drafted(e, OpenText, b), Consumed(e), e.type = "text_delta"
  PROVE  OpenNext(e, b)
<1>1. /\ messages' = [WithSegment EXCEPT ![OpenSegment].text = @ \o e.text] /\ segment' = OpenSegment
      /\ b = OpenText \o e.text /\ Comes(e) = e.text
  BY DEF Consumed, Drafted, Comes
<1>2. messages \in Seq(Items) /\ segment \in 0..Len(messages) /\ b \in Seq(Nat)
  BY DEF TurnsOK, Plain
<1>3. PICK w \in Nat : e.text = <<w>>
  BY DEF Events
<1>4. e.text \in Seq(Nat) /\ \A a \in Seq(Nat) : a \o e.text # <<>>
  <2>1. e.text \in Seq(Nat) /\ Len(e.text) = 1
    BY <1>3
  <2>2. ASSUME NEW a \in Seq(Nat), a \o e.text = <<>> PROVE FALSE
    <3>1. Len(a \o e.text) = Len(a) + 1 /\ Len(a) \in Nat
      <4>1. PICK d \in Seq(Nat) : d = e.text /\ Len(d) = 1
        BY <2>1
      <4>2. Len(a \o d) = Len(a) + Len(d) /\ Len(a) \in Nat
        BY ONLY a \in Seq(Nat), d \in Seq(Nat)
      <4>3. QED
        BY <4>1, <4>2
    <3>2. Len(<<>>) = 0
      OBVIOUS
    <3>3. QED
      BY <2>2, <3>1, <3>2
  <2>3. QED
    BY <2>1, <2>2
<1>5. PICK l \in Nat : l = Len(messages) /\ DOMAIN messages = 1..l
  BY <1>2, SeqIs
<1>6. CASE segment = 0
  <2>1. PICK m : m = [type |-> "assistant", text |-> e.text]
    OBVIOUS
  <2>2. m \in Items /\ m.text = e.text /\ m.type = "assistant"
    BY <1>4, <2>1 DEF Items
  <2>3. PICK s : s = Append(messages, Event("assistant", <<>>))
    OBVIOUS
  <2>4. PICK z : z = Event("assistant", <<>>)
    OBVIOUS
  <2>5. z \in Items /\ z.type = "assistant" /\ z.text = <<>>
    BY <2>4, NothingYet DEF Event, Items
  <2>6. /\ s \in Seq(Items) /\ Len(s) = l + 1 /\ s[l + 1] = z /\ DOMAIN s = 1..(l + 1)
        /\ \A n \in 1..l : s[n] = messages[n]
    <3>1. /\ s \in Seq(Items) /\ Len(s) = l + 1 /\ s[l + 1] = z /\ \A n \in 1..l : s[n] = messages[n]
      BY ONLY <1>2, <1>5, <2>3, <2>4, <2>5, AppendIs
    <3>2. DOMAIN s = 1..(l + 1)
      BY ONLY <3>1, SeqIs
    <3>3. QED
      BY <3>1, <3>2
  <2>7. messages' = [s EXCEPT ![l + 1].text = @ \o e.text] /\ segment' = l + 1
    BY <1>1, <1>5, <1>6, <2>3 DEF WithSegment, OpenSegment
  <2>8. <<>> \o e.text = e.text
    BY <1>4, NumbersNil
  <2>9. [z EXCEPT !.text = @ \o e.text] = m
    <3>1. z = [type |-> "assistant", text |-> <<>>]
      BY <2>4 DEF Event
    <3>2. QED
      BY <2>1, <2>8, <3>1
  <2>10. l + 1 \in 1..(l + 1) /\ \A n \in 1..(l + 1) : n = l + 1 \/ n \in 1..l
    BY <1>5
  <2>11. messages' = [s EXCEPT ![l + 1] = m]
    BY <2>6, <2>7, <2>9
  <2>12. messages' = Append(messages, m)
    <3>1. /\ messages' \in Seq(Items) /\ Len(messages') = l + 1 /\ messages'[l + 1] = m
          /\ \A n \in 1..l : messages'[n] = messages[n]
      <4>1. messages' \in [1..(l + 1) -> Items]
        <5>1. \A n \in 1..(l + 1) : s[n] \in Items
          BY <2>6
        <5>2. s = [n \in 1..(l + 1) |-> s[n]]
          BY <2>6
        <5>3. QED
          BY <2>2, <2>6, <2>11, <5>1, <5>2
      <4>2. messages' \in Seq(Items) /\ Len(messages') = l + 1
        BY <1>5, <4>1
      <4>3. messages'[l + 1] = m
        BY <2>6, <2>10, <2>11
      <4>4. ASSUME NEW n \in 1..l PROVE messages'[n] = messages[n]
        <5>1. n # l + 1 /\ n \in DOMAIN s
          BY <2>6
        <5>2. QED
          BY <2>6, <2>11, <5>1
      <4>5. QED
        BY <4>2, <4>3, <4>4
    <3>2. PICK r : r = Append(messages, m)
      OBVIOUS
    <3>3. r \in Seq(Items) /\ Len(r) = l + 1 /\ r[l + 1] = m /\ \A n \in 1..l : r[n] = messages[n]
      BY ONLY <1>2, <1>5, <2>2, <3>2, AppendIs
    <3>4. PICK p : p = messages'
      OBVIOUS
    <3>5. p \in Seq(Items) /\ Len(p) = l + 1 /\ \A n \in 1..(l + 1) : p[n] = r[n]
      BY <2>10, <3>1, <3>3, <3>4
    <3>6. p = r
      BY ONLY <3>3, <3>5, SeqExt
    <3>7. QED
      BY <3>2, <3>4, <3>6
  <2>13. /\ messages' \in Seq(Items) /\ Len(messages') = l + 1 /\ DOMAIN messages' = 1..(l + 1)
         /\ messages'[l + 1] = m /\ \A n \in 1..l : messages'[n] = messages[n]
    BY <1>2, <1>5, <2>2, <2>12
  <2>14. Texts(messages') = Texts(messages) \o Comes(e)
    BY <1>1, <1>2, <2>2, <2>12, TextsAppend
  <2>15. OpenText' = b
    <3>1. OpenText = <<>>
      BY <1>6 DEF OpenText
    <3>2. segment' # 0 /\ messages'[segment'].text = e.text
      <4>1. segment' = l + 1 /\ messages'[l + 1] = m
        BY ONLY <2>7, <2>13, Zenon
      <4>2. l + 1 # 0
        BY ONLY l \in Nat
      <4>3. QED
        BY ONLY <2>2, <4>1, <4>2
    <3>3. OpenText' = e.text
      BY <3>2 DEF OpenText
    <3>4. QED
      BY <1>1, <2>8, <3>1, <3>3
  <2>16. segment' \in 0..Len(messages') /\ \A n \in DOMAIN messages' : ~(n > segment')
    BY <1>5, <2>7, <2>13
  <2>17. messages'[segment'] = m /\ e.text # <<>>
    BY <1>4, <2>7, <2>8, <2>13, NothingYet
  <2>18. (\A n \in DOMAIN messages : messages[n].type # "tool") =>
           \A n \in DOMAIN messages' : messages'[n].type # "tool"
    BY <1>5, <2>2, <2>10, <2>13
  <2>19. QED
    BY <2>2, <2>13, <2>14, <2>15, <2>16, <2>17, <2>18 DEF OpenNext
<1>7. CASE segment # 0
  <2>1. PICK k \in 1..l : k = segment
    BY <1>2, <1>5, <1>7
  <2>2. messages' = [messages EXCEPT ![k].text = @ \o e.text] /\ segment' = k
    BY <1>1, <1>7, <2>1 DEF WithSegment, OpenSegment
  <2>3. /\ messages[k].type = "assistant" /\ messages[k] \in Items /\ messages[k].text \in Seq(Nat)
        /\ \A n \in 1..l : n > k => messages[n].text = <<>>
    <3>1. messages[k].type = "assistant" /\ \A n \in 1..l : n > k => messages[n].text = <<>>
      BY <1>5, <1>7, <2>1 DEF Flows
    <3>2. messages[k] \in Items
      BY ONLY <1>2, <1>5, k \in 1..l
    <3>3. messages[k].text \in Seq(Nat)
      BY ONLY <3>2, MemoriesAre
    <3>4. QED
      BY ONLY <3>1, <3>2, <3>3
  <2>4. PICK m : m = [messages[k] EXCEPT !.text = @ \o e.text]
    OBVIOUS
  <2>5. m.type = "assistant" /\ m.text = messages[k].text \o e.text /\ m.text \in Seq(Nat) /\ m \in Items
    <3>1. messages[k] \in [type : {"assistant", "tool", "error"}, text : Seq(Nat)]
      BY <2>3 DEF Items
    <3>2. messages[k].text \o e.text \in Seq(Nat)
      BY <1>4, <2>3
    <3>3. m.type = "assistant" /\ m.text = messages[k].text \o e.text
          /\ m \in [type : {"assistant", "tool", "error"}, text : Seq(Nat)]
      BY <2>3, <2>4, <3>1, <3>2
    <3>4. QED
      BY <3>2, <3>3 DEF Items
  <2>6. messages' = [messages EXCEPT ![k] = m]
    BY <1>5, <2>2, <2>4
  <2>7. /\ messages' \in Seq(Items) /\ Len(messages') = l /\ DOMAIN messages' = 1..l /\ messages'[k] = m
        /\ \A n \in 1..l : n # k => messages'[n] = messages[n]
    BY <1>2, <1>5, <2>1, <2>5, <2>6
  <2>8. PICK r \in Seq(Items) : r = messages'
    BY <2>7
  <2>9. PICK a \in Seq(Nat) : Texts(messages) = a \o messages[k].text /\ Texts(r) = a \o r[k].text
    <3>1. /\ Len(r) = Len(messages) /\ k \in 1..Len(messages)
          /\ \A j \in 1..Len(messages) : j # k => r[j] = messages[j]
          /\ \A j \in 1..Len(messages) : j > k => messages[j].text = <<>>
      BY <1>5, <2>3, <2>7, <2>8
    <3>2. QED
      BY ONLY <1>2, <3>1, r \in Seq(Items), TextsAt
  <2>10. Texts(messages') = Texts(messages) \o Comes(e)
    <3>1. PICK o \in Seq(Nat), d \in Seq(Nat) : o = messages[k].text /\ d = e.text
      BY <1>4, <2>3
    <3>2. (a \o o) \o d = a \o (o \o d)
      BY ONLY a \in Seq(Nat), o \in Seq(Nat), d \in Seq(Nat), NumbersJoin, Zenon
    <3>3. r[k].text = o \o d /\ Comes(e) = d /\ Texts(messages) = a \o o
          /\ Texts(messages') = a \o r[k].text
      BY ONLY <1>1, <2>5, <2>7, <2>8, <2>9, <3>1, Zenon
    <3>4. QED
      BY ONLY <3>2, <3>3, Zenon
  <2>11. OpenText' = b
    <3>1. OpenText = messages[k].text
      BY <1>7, <2>1 DEF OpenText
    <3>2. OpenText' = messages'[segment'].text
      BY <1>7, <2>1, <2>2 DEF OpenText
    <3>3. QED
      BY <1>1, <2>2, <2>5, <2>7, <3>1, <3>2
  <2>12. segment' \in 0..Len(messages') /\ \A n \in DOMAIN messages' : n > segment' => messages'[n].text = <<>>
    BY <2>1, <2>2, <2>3, <2>7
  <2>13. messages'[segment'].type = "assistant" /\ messages'[segment'].text # <<>>
    BY <1>4, <2>2, <2>3, <2>5, <2>7
  <2>14. (\A n \in DOMAIN messages : messages[n].type # "tool") =>
           \A n \in DOMAIN messages' : messages'[n].type # "tool"
    BY <1>5, <2>5, <2>7
  <2>15. QED
    BY <2>7, <2>10, <2>11, <2>12, <2>13, <2>14 DEF OpenNext
<1>8. QED
  BY <1>6, <1>7

\* An event that adds a message of its own.
LEMMA ConsumedItem ==
  ASSUME TurnsOK, Flows, pc = "running", NEW e \in Events, NEW b \in Plain,
         Drafted(e, OpenText, b), NEW m \in Items, messages' = Append(messages, m),
         segment' = segment, m.text = Comes(e), b = OpenText,
         segment # 0 => m.text = <<>>, m.type = "tool" => e.type = "tool_result"
  PROVE  OpenNext(e, b)
<1>1. messages \in Seq(Items) /\ segment \in 0..Len(messages)
  BY DEF TurnsOK
<1>2. PICK l \in Nat : l = Len(messages) /\ DOMAIN messages = 1..l
  BY <1>1, SeqIs
<1>3. /\ messages' \in Seq(Items) /\ Len(messages') = l + 1 /\ DOMAIN messages' = 1..(l + 1)
      /\ messages'[l + 1] = m /\ \A n \in 1..l : messages'[n] = messages[n]
  BY <1>1, <1>2
<1>4. Texts(messages') = Texts(messages) \o Comes(e)
  BY <1>1, TextsAppend
<1>5. \A n \in 1..(l + 1) : n = l + 1 \/ n \in 1..l
  BY <1>2
<1>6. segment' \in 0..Len(messages') /\ (segment # 0 => segment \in 1..l)
  BY <1>1, <1>2, <1>3
<1>7. OpenText' = b
  <2>1. CASE segment = 0
    BY <2>1 DEF OpenText
  <2>2. CASE segment # 0
    BY <1>3, <1>6, <2>2 DEF OpenText
  <2>3. QED
    BY <2>1, <2>2
<1>8. segment' # 0 =>
        /\ messages'[segment'].type = "assistant" /\ messages'[segment'].text # <<>>
        /\ \A n \in DOMAIN messages' : n > segment' => messages'[n].text = <<>>
  <2>1. SUFFICES ASSUME segment # 0
                 PROVE  /\ messages'[segment].type = "assistant" /\ messages'[segment].text # <<>>
                        /\ \A n \in DOMAIN messages' : n > segment => messages'[n].text = <<>>
    OBVIOUS
  <2>2. /\ messages[segment].type = "assistant" /\ messages[segment].text # <<>>
        /\ \A n \in 1..l : n > segment => messages[n].text = <<>>
    BY <1>2, <2>1 DEF Flows
  <2>3. QED
    BY <1>3, <1>5, <1>6, <2>1, <2>2
<1>9. e.type # "tool_result" /\ (\A n \in DOMAIN messages : messages[n].type # "tool") =>
        \A n \in DOMAIN messages' : messages'[n].type # "tool"
  BY <1>2, <1>3, <1>5
<1>10. QED
  BY <1>3, <1>4, <1>6, <1>7, <1>8, <1>9 DEF OpenNext

LEMMA ConsumedSame ==
  ASSUME TurnsOK, Flows, pc = "running", NEW e \in Events, NEW b \in Plain,
         messages' = messages, segment' \in {0, segment}, OpenText' = b, Comes(e) = <<>>
  PROVE  OpenNext(e, b)
<1>1. messages \in Seq(Items) /\ segment \in 0..Len(messages) /\ 0 \in 0..Len(messages)
  BY DEF TurnsOK
<1>2. Texts(messages') = Texts(messages) \o Comes(e)
  <2>1. Texts(messages) \in Seq(Nat)
    BY <1>1, MemoriesAre, TextsIs
  <2>2. QED
    BY <2>1, NumbersNil
<1>3. segment' # 0 => segment' = segment
  OBVIOUS
<1>4. segment' # 0 =>
       /\ messages'[segment'].type = "assistant" /\ messages'[segment'].text # <<>>
       /\ \A n \in DOMAIN messages' : n > segment' => messages'[n].text = <<>>
  BY <1>3 DEF Flows
<1>5. QED
  BY <1>1, <1>2, <1>4 DEF OpenNext

LEMMA ConsumedIs ==
  ASSUME TurnsOK, Flows, pc = "running", NEW e \in Events, NEW b \in Plain,
         Drafted(e, OpenText, b), Consumed(e)
  PROVE  OpenNext(e, b)
<1>1. messages \in Seq(Items) /\ segment \in 0..Len(messages) /\ e.type \in EventTypes
  BY DEF TurnsOK, Events
<1>2. CASE e.type = "text_delta"
  BY <1>2, ConsumedDelta
<1>3. CASE e.type = "text_complete"
  <2>1. OpenText = e.text /\ b = <<>> /\ e.text # <<>> /\ Comes(e) = <<>>
    BY <1>3 DEF Drafted, Events, Comes
  <2>2. segment # 0 /\ messages[segment].text = e.text
    BY <2>1 DEF OpenText
  <2>3. messages' = [messages EXCEPT ![segment].text = e.text] /\ segment' = 0
    BY <1>3, <2>2 DEF Consumed, WithSegment, OpenSegment
  <2>4. messages' = messages
    <3>1. segment \in 1..Len(messages)
      BY <1>1, <2>2
    <3>2. messages[segment] \in [type : {"assistant", "tool", "error"}, text : Seq(Nat)]
      BY <1>1, <3>1 DEF Items
    <3>3. [messages[segment] EXCEPT !.text = e.text] = messages[segment]
      BY <2>2, <3>2
    <3>4. QED
      BY <1>1, <2>3, <3>1, <3>3
  <2>5. OpenText' = b
    BY <2>1, <2>3 DEF OpenText
  <2>6. QED
    BY <2>1, <2>3, <2>4, <2>5, ConsumedSame
<1>4. CASE e.type = "tool_result"
  <2>1. PICK m : m = Event("tool", <<0>>)
    OBVIOUS
  <2>2. m \in Items /\ m.text = Comes(e) /\ m.type = "tool"
    <3>1. <<0>> \in Seq(Nat)
      OBVIOUS
    <3>2. QED
      BY <1>4, <2>1, <3>1 DEF Event, Items, Comes
  <2>3. messages' = Append(messages, m) /\ segment' = segment
    BY <1>4, <2>1 DEF Consumed
  <2>4. OpenText = <<>> /\ b = <<>>
    BY <1>4 DEF Drafted
  <2>5. segment = 0
    BY <2>4 DEF OpenText, Flows
  <2>6. QED
    BY <1>4, <2>2, <2>3, <2>4, <2>5, ConsumedItem
<1>5. CASE e.type = "error"
  <2>1. PICK m : m = Event("error", <<>>)
    OBVIOUS
  <2>2. m \in Items /\ m.text = Comes(e) /\ m.text = <<>> /\ m.type = "error"
    BY <1>5, <2>1, NothingYet DEF Event, Items, Comes
  <2>3. messages' = Append(messages, m) /\ segment' = segment
    BY <1>5, <2>1 DEF Consumed
  <2>4. b = OpenText
    BY <1>5 DEF Drafted
  <2>5. QED
    BY <2>2, <2>3, <2>4, ConsumedItem
<1>6. CASE e.type \in {"tool_start", "complete"}
  <2>1. messages' = messages /\ segment' = segment /\ b = OpenText /\ Comes(e) = <<>>
    BY <1>6 DEF Consumed, Drafted, Comes
  <2>2. OpenText' = b
    BY <2>1 DEF OpenText
  <2>3. QED
    BY <2>1, <2>2, ConsumedSame
<1>7. QED
  BY <1>1, <1>2, <1>3, <1>4, <1>5, <1>6 DEF EventTypes

\* Only what belongs to the turn under way changes.
LEMMA FilesStay ==
  ASSUME TurnsInv, pc # "idle", UNCHANGED <<turn, said>>,
         \A t \in Turns : t # turn => stored'[t] = stored[t] /\ status'[t] = status[t],
         pc' = "idle" => /\ IsPrefix(Texts(stored'[turn]), said[turn])
                         /\ status'[turn] = "completed" => Texts(stored'[turn]) = said[turn]
  PROVE  Filed'
<1>1. Filed /\ turn \in Turns
  <2>1. TurnsOK /\ Filed
    BY DEF TurnsInv
  <2>2. QED
    BY <2>1 DEF TurnsOK
<1>2. ASSUME NEW t \in Turns
      PROVE  /\ t > turn => said'[t] = <<>> /\ stored'[t] = <<>> /\ status'[t] = "none"
             /\ Done(t)' => /\ IsPrefix(Texts(stored'[t]), said'[t])
                            /\ status'[t] = "completed" => Texts(stored'[t]) = said'[t]
  <2>1. CASE t = turn
    <3>1. ~(t > turn)
      BY <1>1, <2>1 DEF Turns
    <3>2. Done(t)' => pc' = "idle"
      BY <1>1, <2>1 DEF Done, Turns
    <3>3. QED
      BY <2>1, <3>1, <3>2
  <2>2. CASE t # turn
    <3>1. /\ t > turn => said[t] = <<>> /\ stored[t] = <<>> /\ status[t] = "none"
          /\ Done(t) => /\ IsPrefix(Texts(stored[t]), said[t])
                        /\ status[t] = "completed" => Texts(stored[t]) = said[t]
      BY <1>1 DEF Filed
    <3>2. Done(t)' => Done(t)
      BY <2>2 DEF Done
    <3>3. stored'[t] = stored[t] /\ status'[t] = status[t] /\ said'[t] = said[t]
      BY <2>2
    <3>4. QED
      BY <3>1, <3>2, <3>3
  <2>3. QED
    BY <2>1, <2>2
<1>3. QED
  BY <1>2 DEF Filed

LEMMA MindsStay ==
  ASSUME TurnsInv, pc # "idle", backend # "pi", UNCHANGED <<turn, said, started>>,
         \A t \in Turns : t # turn => stored'[t] = stored[t],
         memory' = memory \/ \E m \in Memories : m.turn = turn /\ memory' = Append(memory, m),
         pc' = "idle" => /\ IsPrefix(Spoken(Texts(stored'[turn])), Mind(memory', turn))
                         /\ IsPrefix(Mind(memory', turn), Words(turn))
  PROVE  Minds'
<1>1. TurnsOK /\ Minds
  BY DEF TurnsInv
<1>2. turn \in Turns /\ memory \in Seq(Memories) /\ turn \in 1..turn
  BY <1>1 DEF TurnsOK, Turns
<1>3. /\ \A n \in DOMAIN memory : memory[n].turn \in 1..turn
      /\ \A t \in 1..turn : t \in started =>
           \E n \in DOMAIN memory : memory[n].turn = t /\ memory[n].type = "user"
      /\ \A t \in Turns : Done(t) =>
           IsPrefix(Spoken(Texts(stored[t])), Mind(memory, t)) /\ IsPrefix(Mind(memory, t), Words(t))
  BY <1>1 DEF Minds
<1>4. /\ \A n \in DOMAIN memory' : memory'[n].turn \in 1..turn
      /\ \A n \in DOMAIN memory : n \in DOMAIN memory' /\ memory'[n] = memory[n]
      /\ \A t : t # turn => Mind(memory', t) = Mind(memory, t)
  <2>1. CASE memory' = memory
    BY <1>3, <2>1
  <2>2. ASSUME NEW m \in Memories, m.turn = turn, memory' = Append(memory, m)
        PROVE  /\ \A n \in DOMAIN memory' : memory'[n].turn \in 1..turn
               /\ \A n \in DOMAIN memory : n \in DOMAIN memory' /\ memory'[n] = memory[n]
               /\ \A t : t # turn => Mind(memory', t) = Mind(memory, t)
    <3>1. PICK l \in Nat : l = Len(memory) /\ DOMAIN memory = 1..l
      BY <1>2, SeqIs
    <3>2. /\ DOMAIN memory' = 1..(l + 1) /\ memory'[l + 1] = m
          /\ \A n \in 1..l : memory'[n] = memory[n]
      BY <1>2, <2>2, <3>1
    <3>3. \A n \in 1..(l + 1) : n \in 1..l \/ n = l + 1
      BY <3>1
    <3>4. \A n \in DOMAIN memory' : memory'[n].turn \in 1..turn
      BY <1>2, <1>3, <2>2, <3>1, <3>2, <3>3
    <3>5. \A n \in DOMAIN memory : n \in DOMAIN memory' /\ memory'[n] = memory[n]
      BY <3>1, <3>2
    <3>6. ASSUME NEW t, t # turn PROVE Mind(memory', t) = Mind(memory, t)
      BY <1>2, <2>2, <3>6, MindGrows
    <3>7. QED
      BY <3>4, <3>5, <3>6
  <2>3. QED
    BY <2>1, <2>2
<1>5. ASSUME NEW t \in Turns, Done(t)'
      PROVE  IsPrefix(Spoken(Texts(stored'[t])), Mind(memory', t)) /\ IsPrefix(Mind(memory', t), Words(t)')
  <2>1. Words(t)' = Words(t)
    BY DEF Words
  <2>2. CASE t = turn
    <3>1. pc' = "idle"
      BY <1>2, <1>5, <2>2 DEF Done, Turns
    <3>2. QED
      BY <2>1, <2>2, <3>1
  <2>3. CASE t # turn
    <3>1. Done(t)
      BY <1>5, <2>3 DEF Done
    <3>2. QED
      BY <1>3, <1>4, <2>1, <2>3, <3>1
  <2>4. QED
    BY <2>2, <2>3
<1>6. ASSUME NEW t \in 1..turn, t \in started
      PROVE  \E n \in DOMAIN memory' : memory'[n].turn = t /\ memory'[n].type = "user"
  <2>1. PICK n \in DOMAIN memory : memory[n].turn = t /\ memory[n].type = "user"
    BY <1>3, <1>6
  <2>2. QED
    BY <1>4, <2>1
<1>7. QED
  BY <1>4, <1>5, <1>6 DEF Minds

LEMMA CancelKeeps ==
  ASSUME TurnsInv, Cancel
  PROVE  TurnsInv'
<1>1. /\ pc = "running" /\ cancelled' = TRUE
      /\ UNCHANGED <<backend, turn, pc, said, model, message, queue, started>>
      /\ UNCHANGED <<partial, memory, messages, segment, stored, status, complete>>
  BY DEF Cancel, loop
<1>2. TurnsOK /\ Flows /\ Filed /\ Leaves
  BY DEF TurnsInv
<1>3. TurnsOK'
  BY <1>1, <1>2 DEF TurnsOK
<1>4. OpenText' = OpenText /\ \A t : Words(t)' = Words(t) /\ Done(t)' = Done(t)
  BY <1>1 DEF OpenText, Words, Done
<1>5. Flows'
  <2>1. /\ Texts(messages) \o UnderWay(queue) = said[turn] /\ Runs(queue, OpenText, message)
        /\ model = "tool" => message = <<>>
        /\ segment # 0 =>
             /\ messages[segment].type = "assistant" /\ messages[segment].text # <<>>
             /\ \A n \in DOMAIN messages : n > segment => messages[n].text = <<>>
    BY <1>1, <1>2 DEF Flows
  <2>2. Runs(queue', OpenText', message')
    BY <1>1, <1>4, <2>1
  <2>3. QED
    BY <1>1, <2>1, <2>2 DEF Flows
<1>6. Filed'
  BY <1>1, <1>2, FilesStay
<1>7. Leaves'
  BY <1>1, <1>2 DEF Leaves
<1>8. backend # "pi" => Minds'
  BY <1>1, MindsStay
<1>9. backend = "deepseek" => MindOfDeepSeek'
  <2>1. SUFFICES ASSUME MindOfDeepSeek PROVE MindOfDeepSeek'
    BY DEF TurnsInv
  <2>2. Newest("assistant")' = Newest("assistant")
    BY <1>1 DEF Newest
  <2>3. Words(turn)' = Words(turn)
    BY <1>1 DEF Words
  <2>4. QED
    BY <1>1, <2>1, <2>2, <2>3 DEF MindOfDeepSeek
<1>10. backend = "claude" => MindOfClaude'
  <2>1. SUFFICES ASSUME MindOfClaude PROVE MindOfClaude'
    BY DEF TurnsInv
  <2>2. Words(turn)' = Words(turn)
    BY <1>1 DEF Words
  <2>3. QED
    BY <1>1, <1>4, <2>1, <2>2 DEF MindOfClaude
<1>11. QED
  BY <1>1, <1>3, <1>5, <1>6, <1>7, <1>8, <1>9, <1>10 DEF TurnsInv

LEMMA DrainedKeeps ==
  ASSUME TurnsInv, Drain
  PROVE  TurnsInv'
<1>1. /\ pc = "running" /\ queue = <<>> /\ pc' = "leaving"
      /\ UNCHANGED <<backend, turn, said, model, message, queue, cancelled, started>>
      /\ UNCHANGED <<partial, memory, messages, segment, stored, status, complete>>
  BY DEF Drain, loop
<1>2. TurnsOK /\ Flows /\ Filed /\ Leaves
  BY DEF TurnsInv
<1>3. TurnsOK'
  BY <1>1, <1>2 DEF TurnsOK
<1>4. messages \in Seq(Items) /\ turn \in Turns /\ said \in [Turns -> Seq(Nat)]
      /\ Texts(messages) \in Seq(Nat)
  <2>1. messages \in Seq(Items) /\ turn \in Turns /\ said \in [Turns -> Seq(Nat)]
    BY <1>1, <1>2 DEF TurnsOK
  <2>2. QED
    BY <2>1, MemoriesAre, TextsIs
<1>5. Texts(messages) = said[turn]
  <2>1. Texts(messages) \o UnderWay(queue) = said[turn] /\ UnderWay(queue) = <<>>
    BY <1>1, <1>2, NothingYet DEF Flows
  <2>2. QED
    BY <1>4, <2>1, NumbersNil
<1>6. IsPrefix(Texts(messages), said[turn])
  BY <1>4, <1>5, NumbersPrefix
<1>7. Flows'
  BY <1>1 DEF Flows
<1>8. Filed'
  BY <1>1, <1>2, FilesStay
<1>9. Leaves'
  BY <1>1, <1>2, <1>5, <1>6 DEF Leaves
<1>10. backend # "pi" => Minds'
  BY <1>1, MindsStay
<1>11. Words(turn)' = Words(turn) /\ Newest("assistant")' = Newest("assistant")
  BY <1>1 DEF Words, Newest
<1>12. backend = "deepseek" => MindOfDeepSeek'
  <2>1. SUFFICES ASSUME MindOfDeepSeek PROVE MindOfDeepSeek'
    BY DEF TurnsInv
  <2>2. QED
    BY <1>1, <1>11, <2>1 DEF MindOfDeepSeek
<1>13. backend = "claude" => MindOfClaude'
  <2>1. SUFFICES ASSUME MindOfClaude PROVE MindOfClaude'
    BY DEF TurnsInv
  <2>2. Mind(memory, turn) \o partial = Words(turn)
    BY <1>1, <1>5, <2>1 DEF MindOfClaude, Words
  <2>3. Spoken(Texts(messages)) = Words(turn) /\ Words(turn) \in Seq(Nat)
    BY <1>4, <1>5, SpokenIs DEF Words
  <2>4. IsPrefix(Words(turn), Words(turn))
    BY <2>3, NumbersPrefix
  <2>5. QED
    BY <1>1, <1>11, <2>2, <2>3, <2>4 DEF MindOfClaude
<1>14. QED
  BY <1>1, <1>3, <1>7, <1>8, <1>9, <1>10, <1>12, <1>13 DEF TurnsInv

\* What chatImpl remembers of this event.
Remembers(e, b) ==
  /\ partial' \in Plain
  /\ memory' = memory \/ \E m \in Memories : m.turn = turn /\ memory' = Append(memory, m)
  /\ backend = "claude" =>
       /\ partial = OpenText => partial' = b
       /\ partial = OpenText =>
            Mind(memory', turn) \o partial' = (Mind(memory, turn) \o partial) \o Spoken(Comes(e))
  /\ backend = "deepseek" =>
       /\ partial' = partial
       /\ memory' # memory => e.type = "complete" /\ partial # <<>>
       /\ e.type = "complete" /\ partial # <<>> => memory' = Append(memory, Assistant(partial))

LEMMA AssistantIs ==
  ASSUME turn \in Nat, NEW a \in Seq(Nat)
  PROVE  /\ Assistant(a) \in Memories /\ Assistant(a).turn = turn /\ Assistant(a).text = a
         /\ Assistant(a).type = "assistant"
BY DEF Assistant, Memories

\* What one says of one's turn is what one has in mind.
LEMMA MindSaid ==
  ASSUME turn \in Nat, memory \in Seq(Memories), NEW a \in Plain
  PROVE  /\ Mind(Append(memory, Assistant(a)), turn) = Mind(memory, turn) \o a
         /\ Append(memory, Assistant(a)) \in Seq(Memories) /\ Mind(memory, turn) \in Seq(Nat)
         /\ \E m \in Memories : m.turn = turn /\ Append(memory, Assistant(a)) = Append(memory, m)
<1>1. a \in Seq(Nat) /\ Spoken(a) = a
  BY DEF Plain
<1>2. PICK m : m = Assistant(a)
  OBVIOUS
<1>3. m \in Memories /\ m.turn = turn /\ m.text = a
  BY <1>1, <1>2, AssistantIs
<1>4. Mind(Append(memory, m), turn) = Mind(memory, turn) \o a
  BY <1>1, <1>3, MindGrows
<1>5. Append(memory, m) \in Seq(Memories)
  BY <1>3
<1>6. Mind(memory, turn) \in Seq(Nat)
  BY MindTyped
<1>7. QED
  BY <1>2, <1>3, <1>4, <1>5, <1>6

LEMMA YieldedIs ==
  ASSUME TurnsOK, turn \in Nat, NEW e \in Events, NEW b \in Plain,
         Drafted(e, OpenText, b), Yielded(e)
  PROVE  Remembers(e, b)
<1>1. memory \in Seq(Memories) /\ partial \in Plain /\ e.type \in EventTypes
  BY DEF TurnsOK, Events
<1>2. Mind(memory, turn) \in Seq(Nat) /\ partial \in Seq(Nat) /\ Spoken(partial) = partial
  BY <1>1, MindTyped DEF Plain
<1>3. CASE backend = "claude" /\ e.type = "text_delta"
  <2>1. partial' = partial \o e.text /\ memory' = memory /\ Comes(e) = e.text /\ b = OpenText \o e.text
    BY <1>3 DEF Yielded, Remember, Comes, Drafted
  <2>2. PICK d \in Seq(Nat) : d = e.text /\ d \in Plain /\ Spoken(d) = d
    <3>1. PICK w \in Nat \ {0} : e.text = <<w>>
      BY <1>3 DEF Events
    <3>2. e.text \in Plain
      BY <3>1, PlainIs
    <3>3. QED
      BY <3>2 DEF Plain
  <2>3. partial' \in Plain
    BY <1>1, <2>1, <2>2, PlainIs
  <2>4. (Mind(memory, turn) \o partial) \o d = Mind(memory, turn) \o (partial \o d)
    BY ONLY <1>2, d \in Seq(Nat), NumbersJoin
  <2>5. QED
    BY <1>3, <2>1, <2>2, <2>3, <2>4 DEF Remembers
<1>4. CASE backend = "claude" /\ e.type = "text_complete"
  <2>1. partial' = <<>> /\ memory' = Append(memory, Assistant(e.text)) /\ Comes(e) = <<>>
        /\ b = <<>> /\ OpenText = e.text
    BY <1>4 DEF Yielded, Remember, Comes, Drafted
  <2>2. PICK d \in Seq(Nat) : d = e.text /\ d \in Plain
    BY <1>4 DEF Events, Plain
  <2>3. Mind(memory', turn) = Mind(memory, turn) \o d
        /\ \E m \in Memories : m.turn = turn /\ memory' = Append(memory, m)
    BY <1>1, <2>1, <2>2, MindSaid
  <2>4. Mind(memory, turn) \o d \in Seq(Nat)
    BY ONLY <1>2, d \in Seq(Nat), NumbersJoin
  <2>5. partial = OpenText =>
          Mind(memory', turn) \o partial' = (Mind(memory, turn) \o partial) \o Spoken(Comes(e))
    BY <2>1, <2>2, <2>3, SpokenIs
  <2>6. QED
    BY <1>4, <2>1, <2>3, <2>5, PlainIs DEF Remembers
<1>5. CASE backend = "deepseek" /\ e.type = "complete" /\ partial # <<>>
  <2>1. partial' = partial /\ memory' = Append(memory, Assistant(partial))
    BY <1>5 DEF Yielded, Remember
  <2>2. \E m \in Memories : m.turn = turn /\ memory' = Append(memory, m)
    BY <1>1, <2>1, MindSaid
  <2>3. QED
    BY <1>1, <1>5, <2>1, <2>2 DEF Remembers
<1>6. CASE /\ ~(backend = "claude" /\ e.type \in {"text_delta", "text_complete"})
           /\ ~(backend = "deepseek" /\ e.type = "complete" /\ partial # <<>>)
  <2>1. partial' = partial /\ memory' = memory
    BY <1>6 DEF Yielded
  <2>2. backend = "claude" => b = OpenText \/ (b = <<>> /\ OpenText = <<>>)
    BY <1>1, <1>6 DEF Drafted, EventTypes
  <2>3. backend = "claude" => Spoken(Comes(e)) = <<>>
    <3>1. backend = "claude" => Comes(e) = <<>> \/ Comes(e) = <<0>>
      BY <1>6 DEF Comes
    <3>2. Spoken(<<0>>) = <<>>
      BY SpokenIs
    <3>3. QED
      BY <3>1, <3>2, NothingYet
  <2>4. (Mind(memory, turn) \o partial) \o <<>> = Mind(memory, turn) \o partial
    <3>1. Mind(memory, turn) \o partial \in Seq(Nat)
      BY ONLY <1>2, NumbersJoin
    <3>2. QED
      BY ONLY <3>1, NumbersNil
  <2>5. QED
    BY <1>1, <1>6, <2>1, <2>2, <2>3, <2>4 DEF Remembers
<1>7. QED
  BY <1>3, <1>4, <1>5, <1>6

\* What every way of taking an event has in common.
Takes(e, q, b) ==
  /\ e \in Events /\ q \in Seq(Events) /\ b \in Plain /\ e = Head(queue) /\ q = Tail(queue)
  /\ Drafted(e, OpenText, b) /\ Runs(q, b, message)
  /\ UnderWay(q) \in Seq(Nat) /\ Comes(e) \in Seq(Nat) /\ Texts(messages) \in Seq(Nat)
  /\ (Texts(messages) \o Comes(e)) \o UnderWay(q) = said[turn]
  /\ \A n \in DOMAIN q : n + 1 \in DOMAIN queue /\ q[n] = queue[n + 1]
  /\ 1 \in DOMAIN queue /\ queue[1] = e /\ Len(queue) = Len(q) + 1

LEMMA TakesOne ==
  ASSUME TurnsInv, pc = "running", queue # <<>>
  PROVE  \E e, q, b : Takes(e, q, b)
<1>1. TurnsOK /\ Flows
  BY DEF TurnsInv
<1>2. queue \in Seq(Events) /\ messages \in Seq(Items)
  BY <1>1 DEF TurnsOK
<1>3. PICK e, q : e = Head(queue) /\ q = Tail(queue)
  OBVIOUS
<1>4. /\ e \in Events /\ q \in Seq(Events) /\ queue = <<e>> \o q /\ Len(queue) \in Nat /\ Len(queue) # 0
      /\ Len(q) = Len(queue) - 1 /\ queue[1] = e
      /\ \A n \in 1..(Len(queue) - 1) : q[n] = queue[n + 1]
  BY ONLY <1>2, <1>3, queue # <<>>, HeadTail
<1>5. Runs(queue, OpenText, message)
  BY <1>1 DEF Flows
<1>6. PICK b \in Plain : Drafted(e, OpenText, b) /\ Runs(q, b, message)
  BY <1>2, <1>3, <1>5, RunsTail
<1>7. UnderWay(q) \in Seq(Nat) /\ Comes(e) \in Seq(Nat) /\ Texts(messages) \in Seq(Nat)
  BY <1>2, <1>4, UnderWayIs, MemoriesAre, TextsIs
<1>8. (Texts(messages) \o Comes(e)) \o UnderWay(q) = said[turn]
  <2>1. <<e>> \in Seq(Events)
    BY <1>4
  <2>2. UnderWay(queue) = Comes(e) \o UnderWay(q)
    BY ONLY <1>4, <2>1, UnderWayIs, Zenon
  <2>3. Texts(messages) \o UnderWay(queue) = said[turn]
    BY <1>1 DEF Flows
  <2>4. (Texts(messages) \o Comes(e)) \o UnderWay(q) = Texts(messages) \o (Comes(e) \o UnderWay(q))
    BY ONLY <1>7, NumbersJoin
  <2>5. QED
    BY <2>2, <2>3, <2>4
<1>9. DOMAIN queue = 1..Len(queue) /\ DOMAIN q = 1..Len(q) /\ Len(q) \in Nat
  BY ONLY <1>2, <1>4, SeqIs
<1>10. ASSUME NEW n \in DOMAIN q PROVE n + 1 \in DOMAIN queue /\ q[n] = queue[n + 1]
  BY ONLY <1>4, <1>9, n \in DOMAIN q
<1>11. 1 \in DOMAIN queue /\ Len(queue) = Len(q) + 1
  BY ONLY <1>4, <1>9
<1>12. Takes(e, q, b)
  BY ONLY <1>3, <1>4, <1>6, <1>7, <1>8, <1>10, <1>11, Zenon DEF Takes
<1>13. QED
  BY <1>12

\* What is consumed and what is said of it, for Claude.
LEMMA ClaudeTakes ==
  ASSUME TurnsInv, pc = "running", backend = "claude", NEW e, NEW q, NEW b,
         Takes(e, q, b), Remembers(e, b)
  PROVE  /\ partial' = b
         /\ Mind(memory', turn) \o partial' = Spoken(Texts(messages) \o Comes(e))
         /\ IsPrefix(Spoken(Texts(messages)), Spoken(Texts(messages) \o Comes(e)))
         /\ IsPrefix(Spoken(Texts(messages) \o Comes(e)), Words(turn))
         /\ Spoken(Texts(messages) \o Comes(e)) \in Seq(Nat)
<1>1. partial = OpenText /\ Mind(memory, turn) \o partial = Spoken(Texts(messages))
  BY DEF TurnsInv, MindOfClaude
<1>2. PICK x \in Seq(Nat), y \in Seq(Nat), z \in Seq(Nat) :
        x = Texts(messages) /\ y = Comes(e) /\ z = UnderWay(q) /\ (x \o y) \o z = said[turn]
  BY Zenon DEF Takes
<1>3. Mind(memory', turn) \o partial' = Spoken(x) \o Spoken(y) /\ partial' = b
  BY <1>1, <1>2 DEF Remembers
<1>4. x \o y \in Seq(Nat)
  BY ONLY x \in Seq(Nat), y \in Seq(Nat)
<1>5. Spoken(x \o y) = Spoken(x) \o Spoken(y) /\ Spoken(x) \in Seq(Nat) /\ Spoken(y) \in Seq(Nat)
      /\ Spoken(x \o y) \in Seq(Nat)
  BY ONLY <1>4, x \in Seq(Nat), y \in Seq(Nat), SpokenIs
<1>6. Spoken((x \o y) \o z) = Spoken(x \o y) \o Spoken(z) /\ Spoken(z) \in Seq(Nat)
  BY ONLY <1>4, z \in Seq(Nat), SpokenIs
<1>7. IsPrefix(Spoken(x), Spoken(x \o y)) /\ IsPrefix(Spoken(x \o y), Spoken((x \o y) \o z))
  <2>1. PICK u \in Seq(Nat), v \in Seq(Nat), w \in Seq(Nat), o \in Seq(Nat) :
          u = Spoken(x) /\ v = Spoken(y) /\ w = Spoken(z) /\ o = Spoken(x \o y)
    BY ONLY <1>5, <1>6
  <2>2. IsPrefix(u, u \o v) /\ IsPrefix(o, o \o w)
    BY ONLY u \in Seq(Nat), v \in Seq(Nat), w \in Seq(Nat), o \in Seq(Nat), NumbersPrefix
  <2>3. QED
    BY ONLY <1>5, <1>6, <2>1, <2>2, Zenon
<1>8. QED
  BY <1>2, <1>3, <1>5, <1>7 DEF Words

\* The event is the last that the loop takes.
LEMMA TakesLast ==
  ASSUME TurnsInv, pc = "running", queue # <<>>, NEW e, NEW q, NEW b, Takes(e, q, b), cancelled,
         queue' = q,
         Remembers(e, b) \/ (backend = "deepseek" /\ UNCHANGED <<partial, context, memory>>),
         pc' = "leaving",
         UNCHANGED <<messages, segment, stored, status, complete, lostSaves>>,
         UNCHANGED <<backend, turn, said, model, message, cancelled, started>>
  PROVE  TurnsInv'
<1>1. TurnsOK /\ Flows /\ Filed /\ Leaves
  BY DEF TurnsInv
<1>2. turn \in Turns /\ memory \in Seq(Memories) /\ partial \in Plain
  BY <1>1 DEF TurnsOK
<1>3. partial' \in Plain /\ memory' \in Seq(Memories)
      /\ (memory' = memory \/ \E m \in Memories : m.turn = turn /\ memory' = Append(memory, m))
  <2>1. partial' \in Plain
        /\ (memory' = memory \/ \E m \in Memories : m.turn = turn /\ memory' = Append(memory, m))
    BY <1>2 DEF Remembers
  <2>2. ASSUME NEW m \in Memories PROVE Append(memory, m) \in Seq(Memories)
    BY <1>2
  <2>3. QED
    BY <1>2, <2>1, <2>2
<1>4. queue' \in Seq(Events) /\ \A n \in DOMAIN queue' : n + 1 \in DOMAIN queue /\ queue'[n] = queue[n + 1]
  BY Zenon DEF Takes
<1>5. backend = "deepseek" => \A n \in DOMAIN queue' : queue'[n].type # "tool_result"
  BY <1>1, <1>4 DEF TurnsOK
<1>6. TurnsOK'
  BY <1>1, <1>3, <1>4, <1>5 DEF TurnsOK
<1>7. Flows'
  BY DEF Flows
<1>8. Filed'
  BY <1>1, FilesStay
<1>9. Leaves'
  <2>1. IsPrefix(Texts(messages), said[turn])
    <3>1. PICK x \in Seq(Nat), y \in Seq(Nat), z \in Seq(Nat) :
            x = Texts(messages) /\ y = Comes(e) /\ z = UnderWay(q) /\ (x \o y) \o z = said[turn]
      BY Zenon DEF Takes
    <3>2. (x \o y) \o z = x \o (y \o z) /\ y \o z \in Seq(Nat)
      <4>1. (x \o y) \o z = x \o (y \o z)
        BY ONLY x \in Seq(Nat), y \in Seq(Nat), z \in Seq(Nat), NumbersJoin, Zenon
      <4>2. y \o z \in Seq(Nat)
        BY ONLY y \in Seq(Nat), z \in Seq(Nat)
      <4>3. QED
        BY <4>1, <4>2
    <3>3. IsPrefix(x, x \o (y \o z))
      BY ONLY x \in Seq(Nat), <3>2, NumbersPrefix
    <3>4. QED
      BY <3>1, <3>2, <3>3
  <2>2. QED
    BY <1>1, <2>1 DEF Leaves
<1>10. backend # "pi" => Minds'
  BY <1>3, MindsStay
<1>11. Words(turn)' = Words(turn)
  BY DEF Words
<1>12. backend = "deepseek" => MindOfDeepSeek'
  <2>1. SUFFICES ASSUME backend = "deepseek" PROVE MindOfDeepSeek'
    OBVIOUS
  <2>2. /\ partial = Words(turn) /\ memory # <<>>
        /\ Mind(memory, turn) = IF Newest("assistant") THEN partial ELSE <<>>
        /\ \A n \in DOMAIN queue : queue[n].type = "complete" => ~Newest("assistant")
    BY <2>1 DEF TurnsInv, MindOfDeepSeek
  <2>3. CASE memory' = memory /\ partial' = partial
    <3>1. Newest("assistant")' = Newest("assistant")
      BY <2>3 DEF Newest
    <3>2. QED
      BY <1>11, <2>2, <2>3, <3>1 DEF MindOfDeepSeek
  <2>4. CASE memory' # memory
    <3>1. Remembers(e, b)
      BY <2>4
    <3>2. partial' = partial /\ e.type = "complete"
      BY <2>1, <2>4, <3>1 DEF Remembers
    <3>3. ~Newest("assistant")
      BY <2>2, <3>2 DEF Takes
    <3>4. CASE partial # <<>>
      <4>1. memory' = Append(memory, Assistant(partial))
        BY <2>1, <3>1, <3>2, <3>4 DEF Remembers
      <4>2. turn \in Nat
        BY <1>2 DEF Turns
      <4>3. Mind(memory', turn) = Mind(memory, turn) \o partial
        BY <1>2, <4>1, <4>2, MindSaid
      <4>4. partial \in Seq(Nat)
        BY <1>2 DEF Plain
      <4>5. Mind(memory', turn) = partial
        BY <2>2, <3>3, <4>3, <4>4, NumbersNil
      <4>6. Newest("assistant")' /\ memory' # <<>>
        <5>1. Assistant(partial) \in Memories /\ Assistant(partial).type = "assistant"
          BY <4>2, <4>4, AssistantIs
        <5>2. Len(memory') # 0 /\ memory'[Len(memory')] = Assistant(partial)
          BY <1>2, <4>1, <5>1, AppendIs
        <5>3. memory' # <<>>
          BY <5>2
        <5>4. QED
          BY <5>1, <5>2, <5>3 DEF Newest
      <4>7. QED
        BY <1>11, <2>2, <3>2, <4>5, <4>6 DEF MindOfDeepSeek
    <3>5. partial # <<>>
      BY <2>1, <2>4, <3>1 DEF Remembers
    <3>6. QED
      BY <3>4, <3>5
  <2>5. QED
    BY <2>1, <2>3, <2>4 DEF Remembers
<1>13. backend = "claude" => MindOfClaude'
  <2>1. SUFFICES ASSUME backend = "claude" PROVE MindOfClaude'
    OBVIOUS
  <2>2. Remembers(e, b)
    BY <2>1
  <2>3. /\ Mind(memory', turn) \o partial' = Spoken(Texts(messages) \o Comes(e))
        /\ IsPrefix(Spoken(Texts(messages)), Spoken(Texts(messages) \o Comes(e)))
        /\ IsPrefix(Spoken(Texts(messages) \o Comes(e)), Words(turn))
    BY <2>1, <2>2, ClaudeTakes
  <2>4. QED
    BY <1>11, <2>3 DEF MindOfClaude
<1>14. QED
  BY <1>6, <1>7, <1>8, <1>9, <1>10, <1>12, <1>13 DEF TurnsInv

\* The loop goes on, or leaves because a save failed.
LEMMA TakesMore ==
  ASSUME TurnsInv, pc = "running", queue # <<>>, NEW e, NEW q, NEW b, Takes(e, q, b),
         queue' = q, Remembers(e, b), OpenNext(e, b), complete' \in BOOLEAN,
         \/ pc' = "running"
         \/ pc' = "leaving" /\ status'[turn] = "failed",
         stored' = stored \/ stored' = [stored EXCEPT ![turn] = messages'],
         status' = status \/ status' = [status EXCEPT ![turn] = "failed"],
         UNCHANGED <<backend, turn, said, model, message, cancelled, started>>
  PROVE  TurnsInv'
<1>1. TurnsOK /\ Flows /\ Filed /\ Leaves
  BY DEF TurnsInv
<1>2. /\ turn \in Turns /\ turn \in Nat /\ memory \in Seq(Memories) /\ partial \in Plain /\ stored \in [Turns -> Seq(Items)]
      /\ status \in [Turns -> {"none", "completed", "failed", "cancelled"}] /\ messages \in Seq(Items)
  BY <1>1 DEF TurnsOK, Turns
<1>3. partial' \in Plain /\ memory' \in Seq(Memories)
      /\ (memory' = memory \/ \E m \in Memories : m.turn = turn /\ memory' = Append(memory, m))
  <2>1. partial' \in Plain
        /\ (memory' = memory \/ \E m \in Memories : m.turn = turn /\ memory' = Append(memory, m))
    BY <1>2 DEF Remembers
  <2>2. ASSUME NEW m \in Memories PROVE Append(memory, m) \in Seq(Memories)
    BY <1>2
  <2>3. QED
    BY <1>2, <2>1, <2>2
<1>4. queue' \in Seq(Events) /\ \A n \in DOMAIN queue' : n + 1 \in DOMAIN queue /\ queue'[n] = queue[n + 1]
  BY Zenon DEF Takes
<1>5. /\ messages' \in Seq(Items) /\ segment' \in 0..Len(messages') /\ OpenText' = b
      /\ Texts(messages') = Texts(messages) \o Comes(e)
  BY DEF OpenNext
<1>6. PICK f : f = stored'
  OBVIOUS
<1>7. /\ f \in [Turns -> Seq(Items)] /\ \A t \in Turns : t # turn => f[t] = stored[t]
      /\ f[turn] = stored[turn] \/ f[turn] = messages'
  BY <1>2, <1>5, <1>6
<1>8. /\ status' \in [Turns -> {"none", "completed", "failed", "cancelled"}]
      /\ \A t \in Turns : t # turn => status'[t] = status[t]
      /\ status'[turn] = status[turn] \/ status'[turn] = "failed"
  BY <1>2
<1>9. backend = "deepseek" =>
        /\ \A n \in DOMAIN queue' : queue'[n].type # "tool_result"
        /\ \A n \in DOMAIN messages' : messages'[n].type # "tool"
        /\ \A t \in Turns : \A n \in DOMAIN f[t] : f[t][n].type # "tool"
  <2>1. SUFFICES ASSUME backend = "deepseek"
                 PROVE  /\ \A n \in DOMAIN queue' : queue'[n].type # "tool_result"
                        /\ \A n \in DOMAIN messages' : messages'[n].type # "tool"
                        /\ \A t \in Turns : \A n \in DOMAIN f[t] : f[t][n].type # "tool"
    OBVIOUS
  <2>2. /\ \A n \in DOMAIN queue : queue[n].type # "tool_result"
        /\ \A n \in DOMAIN messages : messages[n].type # "tool"
        /\ \A t \in Turns : \A n \in DOMAIN stored[t] : stored[t][n].type # "tool"
    BY <1>1, <2>1 DEF TurnsOK
  <2>3. e.type # "tool_result"
    BY <2>2 DEF Takes
  <2>4. \A n \in DOMAIN messages' : messages'[n].type # "tool"
    BY <2>2, <2>3 DEF OpenNext
  <2>5. ASSUME NEW t \in Turns PROVE \A n \in DOMAIN f[t] : f[t][n].type # "tool"
    BY <1>7, <2>2, <2>4
  <2>6. QED
    BY <1>4, <2>2, <2>4, <2>5
<1>10. pc' \in {"running", "leaving"} /\ pc' # "idle"
  OBVIOUS
<1>11. TurnsOK'
  BY <1>1, <1>3, <1>4, <1>5, <1>6, <1>7, <1>8, <1>9, <1>10 DEF TurnsOK
<1>12. PICK x \in Seq(Nat), y \in Seq(Nat), z \in Seq(Nat) :
        x = Texts(messages) /\ y = Comes(e) /\ z = UnderWay(q) /\ (x \o y) \o z = said[turn]
  BY Zenon DEF Takes
<1>13. x \o y = Texts(messages') /\ x \o y \in Seq(Nat)
  BY <1>5, <1>12
<1>14. Flows'
  <2>1. Texts(messages') \o UnderWay(queue') = said'[turn']
    BY <1>12, <1>13
  <2>2. Runs(queue', OpenText', message')
    BY <1>5 DEF Takes
  <2>3. model' = "tool" => message' = <<>>
    BY <1>1 DEF Flows
  <2>4. segment' # 0 =>
         /\ messages'[segment'].type = "assistant" /\ messages'[segment'].text # <<>>
         /\ \A n \in DOMAIN messages' : n > segment' => messages'[n].text = <<>>
    BY DEF OpenNext
  <2>5. QED
    BY <2>1, <2>2, <2>3, <2>4 DEF Flows
<1>15. Filed'
  BY <1>1, <1>6, <1>7, <1>8, <1>10, FilesStay
<1>16. Leaves'
  <2>1. IsPrefix(Texts(stored[turn]), x) /\ status[turn] \in {"none", "failed"}
    BY <1>1, <1>12 DEF Leaves
  <2>2. stored[turn] \in Seq(Items)
    BY <1>2
  <2>3. PICK o \in Seq(Nat) : o = Texts(stored[turn])
    BY <2>2, MemoriesAre, TextsIs
  <2>4. PICK p \in Seq(Nat) : p = x \o y
    BY <1>13
  <2>5. IsPrefix(x, x \o y)
    BY ONLY x \in Seq(Nat), y \in Seq(Nat), NumbersPrefix
  <2>6. IsPrefix(o, p) /\ IsPrefix(p, p)
    <3>1. IsPrefix(o, x) /\ IsPrefix(x, p)
      BY <2>1, <2>3, <2>4, <2>5
    <3>2. IsPrefix(o, p)
      BY ONLY <3>1, o \in Seq(Nat), x \in Seq(Nat), p \in Seq(Nat), NumbersPrefix
    <3>3. IsPrefix(p, p)
      BY ONLY p \in Seq(Nat), NumbersPrefix
    <3>4. QED
      BY <3>2, <3>3
  <2>7. IsPrefix(Texts(f[turn]), Texts(messages'))
    BY <1>7, <1>13, <2>3, <2>4, <2>6
  <2>8. IsPrefix(Texts(messages'), said[turn])
    <3>1. IsPrefix(p, p \o z)
      BY ONLY p \in Seq(Nat), z \in Seq(Nat), NumbersPrefix
    <3>2. QED
      BY <1>12, <1>13, <2>4, <3>1
  <2>9. status'[turn] \in {"none", "failed"}
    BY <1>8, <2>1
  <2>10. pc' = "leaving" => status'[turn] = "failed"
    BY <1>10
  <2>11. QED
    BY <1>6, <2>7, <2>8, <2>9, <2>10 DEF Leaves
<1>17. backend # "pi" => Minds'
  BY <1>3, <1>6, <1>7, <1>10, MindsStay
<1>18. Words(turn)' = Words(turn)
  BY DEF Words
<1>19. backend = "deepseek" => MindOfDeepSeek'
  <2>1. SUFFICES ASSUME backend = "deepseek" PROVE MindOfDeepSeek'
    OBVIOUS
  <2>2. /\ partial = Words(turn) /\ memory # <<>>
        /\ Mind(memory, turn) = IF Newest("assistant") THEN partial ELSE <<>>
        /\ \A n \in DOMAIN queue : queue[n].type = "complete" =>
              n = Len(queue) /\ model = "over" /\ ~Newest("assistant")
        /\ Newest("assistant") => model = "over"
    BY <2>1 DEF TurnsInv, MindOfDeepSeek
  <2>3. partial' = partial
    BY <2>1 DEF Remembers
  <2>4. \A n \in DOMAIN q : q[n].type = "complete" =>
          n = Len(q) /\ model = "over" /\ ~Newest("assistant")
    <3>1. SUFFICES ASSUME NEW n \in DOMAIN q, q[n].type = "complete"
                   PROVE  n = Len(q) /\ model = "over" /\ ~Newest("assistant")
      OBVIOUS
    <3>2. n + 1 \in DOMAIN queue /\ q[n] = queue[n + 1] /\ Len(queue) = Len(q) + 1 /\ q \in Seq(Events)
      BY Zenon DEF Takes
    <3>3. n + 1 = Len(queue) /\ model = "over" /\ ~Newest("assistant")
      BY <2>2, <3>1, <3>2
    <3>4. n \in Nat /\ Len(q) \in Nat
      BY <3>2
    <3>5. QED
      BY <3>2, <3>3, <3>4
  <2>5. CASE memory' = memory
    <3>1. Newest("assistant")' = Newest("assistant")
      BY <2>5 DEF Newest
    <3>2. QED
      BY <1>18, <2>2, <2>3, <2>4, <2>5, <3>1 DEF MindOfDeepSeek
  <2>6. CASE memory' # memory
    <3>1. e.type = "complete" /\ partial # <<>> /\ memory' = Append(memory, Assistant(partial))
      BY <2>1, <2>6 DEF Remembers
    <3>2. ~Newest("assistant") /\ model = "over" /\ 1 = Len(queue)
      BY <2>2, <3>1 DEF Takes
    <3>3. DOMAIN q = {}
      <4>1. q \in Seq(Events) /\ Len(queue) = Len(q) + 1
        BY Zenon DEF Takes
      <4>2. Len(q) = 0
        BY <3>2, <4>1
      <4>3. QED
        BY <4>1, <4>2
    <3>4. Mind(memory', turn) = Mind(memory, turn) \o partial
      BY <1>2, <3>1, MindSaid
    <3>5. partial \in Seq(Nat)
      BY <1>2 DEF Plain
    <3>6. Mind(memory', turn) = partial
      BY <2>2, <3>2, <3>4, <3>5, NumbersNil
    <3>7. Newest("assistant")' /\ memory' # <<>>
      <4>1. Assistant(partial) \in Memories /\ Assistant(partial).type = "assistant"
        BY <1>2, <3>5, AssistantIs
      <4>2. Len(memory') # 0 /\ memory'[Len(memory')] = Assistant(partial)
        BY <1>2, <3>1, <4>1, AppendIs
      <4>3. memory' # <<>>
        BY <4>2
      <4>4. QED
        BY <4>1, <4>2, <4>3 DEF Newest
    <3>8. QED
      BY <1>18, <2>2, <2>3, <3>2, <3>3, <3>6, <3>7 DEF MindOfDeepSeek
  <2>7. QED
    BY <2>5, <2>6
<1>20. backend = "claude" => MindOfClaude'
  <2>1. SUFFICES ASSUME backend = "claude" PROVE MindOfClaude'
    OBVIOUS
  <2>2. /\ partial' = b /\ Mind(memory', turn) \o partial' = Spoken(Texts(messages) \o Comes(e))
        /\ IsPrefix(Spoken(Texts(messages) \o Comes(e)), Words(turn))
        /\ Spoken(Texts(messages) \o Comes(e)) \in Seq(Nat)
    BY <2>1, ClaudeTakes
  <2>3. PICK o \in Seq(Nat) : o = Spoken(Texts(messages'))
    BY <1>5, <2>2
  <2>4. IsPrefix(o, o)
    BY ONLY o \in Seq(Nat), NumbersPrefix
  <2>5. Mind(memory', turn) \o partial' = o /\ IsPrefix(o, Words(turn))
    BY <1>5, <2>2, <2>3
  <2>6. QED
    BY <1>5, <1>18, <2>2, <2>3, <2>4, <2>5 DEF MindOfClaude
<1>21. QED
  BY <1>11, <1>14, <1>15, <1>16, <1>17, <1>19, <1>20 DEF TurnsInv

LEMMA TakeKeeps ==
  ASSUME TurnsInv, Take
  PROVE  TurnsInv'
<1>1. pc = "running" /\ queue # <<>> /\ queue' = Tail(queue)
      /\ UNCHANGED <<backend, turn, said, model, message, cancelled, started>>
  BY DEF Take
<1>2. PICK e, q, b : Takes(e, q, b)
  BY <1>1, TakesOne
<1>3. e \in Events /\ b \in Plain /\ Drafted(e, OpenText, b) /\ e = Head(queue) /\ queue' = q
  BY <1>1, <1>2, Zenon DEF Takes
<1>4. TurnsOK /\ Flows /\ turn \in Turns /\ turn \in Nat
  BY <1>1 DEF TurnsInv, TurnsOK, Turns
<1>5. CASE cancelled
  <2>1. /\ IF Silent(backend) THEN UNCHANGED <<partial, context, memory>> ELSE Yielded(e)
        /\ pc' = "leaving" /\ UNCHANGED <<messages, segment, stored, status, complete, lostSaves>>
    BY <1>3, <1>5 DEF Take
  <2>2. Remembers(e, b) \/ (backend = "deepseek" /\ UNCHANGED <<partial, context, memory>>)
    BY <1>3, <1>4, <2>1, YieldedIs DEF Silent
  <2>3. QED
    BY <1>1, <1>2, <1>3, <1>5, <2>1, <2>2, TakesLast
<1>6. CASE ~cancelled
  <2>1. /\ Yielded(e) /\ Consumed(e) /\ complete' = (complete \/ e.type = "complete")
        /\ \/ /\ Flushed(messages') /\ UNCHANGED <<pc, lostSaves>>
              /\ status' = [status EXCEPT ![turn] = IF e.type = "error" THEN "failed" ELSE @]
           \/ UNCHANGED <<pc, stored, lostSaves, status>>
           \/ FlushFails /\ pc' = "leaving" /\ status' = [status EXCEPT ![turn] = "failed"]
    BY <1>3, <1>6 DEF Take
  <2>2. Remembers(e, b) /\ OpenNext(e, b)
    BY <1>1, <1>3, <1>4, <2>1, YieldedIs, ConsumedIs
  <2>3. complete' \in BOOLEAN
    BY <1>4, <2>1 DEF TurnsOK
  <2>4. status \in [Turns -> {"none", "completed", "failed", "cancelled"}]
    BY <1>4 DEF TurnsOK
  <2>5. /\ pc' = "running" \/ (pc' = "leaving" /\ status'[turn] = "failed")
        /\ stored' = stored \/ stored' = [stored EXCEPT ![turn] = messages']
        /\ status' = status \/ status' = [status EXCEPT ![turn] = "failed"]
    <3>1. CASE Flushed(messages') /\ UNCHANGED <<pc, lostSaves>>
               /\ status' = [status EXCEPT ![turn] = IF e.type = "error" THEN "failed" ELSE @]
      BY <1>1, <1>4, <2>4, <3>1 DEF Flushed
    <3>2. CASE UNCHANGED <<pc, stored, lostSaves, status>>
      BY <1>1, <3>2
    <3>3. CASE FlushFails /\ pc' = "leaving" /\ status' = [status EXCEPT ![turn] = "failed"]
      BY <1>4, <2>4, <3>3 DEF FlushFails
    <3>4. QED
      BY <2>1, <3>1, <3>2, <3>3
  <2>6. QED
    BY <1>1, <1>2, <1>3, <2>2, <2>3, <2>5, TakesMore
<1>7. QED
  BY <1>5, <1>6

\* What the agent has said so far is remembered.
LEMMA RememberedIs ==
  ASSUME TurnsInv, pc = "leaving", memory' = Remembered(memory)
  PROVE  /\ memory' \in Seq(Memories)
         /\ memory' = memory \/ \E m \in Memories : m.turn = turn /\ memory' = Append(memory, m)
         /\ backend = "deepseek" => Mind(memory', turn) = Words(turn)
         /\ backend = "claude" => Mind(memory', turn) = Mind(memory, turn) \o partial
<1>1. TurnsOK
  BY DEF TurnsInv
<1>2. turn \in Nat /\ memory \in Seq(Memories) /\ partial \in Plain /\ partial \in Seq(Nat)
  BY <1>1 DEF TurnsOK, Turns, Plain
<1>3. /\ Mind(Append(memory, Assistant(partial)), turn) = Mind(memory, turn) \o partial
      /\ Append(memory, Assistant(partial)) \in Seq(Memories)
      /\ \E m \in Memories : m.turn = turn /\ Append(memory, Assistant(partial)) = Append(memory, m)
      /\ Mind(memory, turn) \in Seq(Nat)
  BY <1>2, MindSaid
<1>4. /\ Mind(memory, turn) \o <<>> = Mind(memory, turn) /\ <<>> \o partial = partial
  BY <1>2, <1>3, NumbersNil
<1>5. memory' = memory \/ memory' = Append(memory, Assistant(partial))
  BY DEF Remembered
<1>6. backend = "deepseek" => Mind(memory', turn) = Words(turn)
  <2>1. SUFFICES ASSUME backend = "deepseek" PROVE Mind(memory', turn) = Words(turn)
    OBVIOUS
  <2>2. /\ partial = Words(turn)
        /\ partial # <<>> => memory # <<>>
        /\ Mind(memory, turn) = IF Newest("assistant") THEN partial ELSE <<>>
    BY <2>1 DEF TurnsInv, MindOfDeepSeek
  <2>3. CASE partial = <<>>
    <3>1. memory' = memory
      BY <2>3 DEF Remembered
    <3>2. QED
      BY <2>2, <2>3, <3>1
  <2>4. CASE partial # <<>> /\ Newest("assistant")
    <3>1. memory[Len(memory)].type = "assistant"
      BY <2>4 DEF Newest
    <3>2. memory' = memory
      BY <2>1, <3>1 DEF Remembered
    <3>3. QED
      BY <2>2, <2>4, <3>2
  <2>5. CASE partial # <<>> /\ ~Newest("assistant")
    <3>1. memory[Len(memory)].type # "assistant"
      BY <2>2, <2>5 DEF Newest
    <3>2. memory' = Append(memory, Assistant(partial))
      BY <2>5, <3>1 DEF Remembered
    <3>3. QED
      BY <1>3, <1>4, <2>2, <2>5, <3>2
  <2>6. QED
    BY <2>3, <2>4, <2>5
<1>7. backend = "claude" => Mind(memory', turn) = Mind(memory, turn) \o partial
  <2>1. CASE partial = <<>>
    <3>1. memory' = memory
      BY <2>1 DEF Remembered
    <3>2. QED
      BY <1>4, <2>1, <3>1
  <2>2. CASE partial # <<>> /\ backend = "claude"
    <3>1. memory' = Append(memory, Assistant(partial))
      BY <2>2 DEF Remembered
    <3>2. QED
      BY <1>3, <3>1
  <2>3. QED
    BY <2>1, <2>2
<1>8. QED
  BY <1>2, <1>3, <1>5, <1>6, <1>7

LEMMA LeaveKeeps ==
  ASSUME TurnsInv, Leave
  PROVE  TurnsInv'
<1>1. /\ pc = "leaving" /\ pc' = "idle" /\ model' = "over" /\ queue' = <<>>
      /\ memory' = Remembered(memory)
      /\ partial' = <<>> /\ message' = <<>> /\ messages' = <<>> /\ segment' = 0
      /\ complete' = FALSE /\ cancelled' = FALSE
      /\ UNCHANGED <<backend, turn, said, started>>
  BY DEF Leave
<1>2. \/ /\ stored' = [stored EXCEPT ![turn] = messages]
         /\ status' = [status EXCEPT ![turn] = IF cancelled THEN "cancelled"
                         ELSE IF @ = "failed" \/ ~complete THEN "failed" ELSE "completed"]
      \/ /\ stored' = [stored EXCEPT ![turn] = messages] \/ stored' = stored
         /\ status' = [status EXCEPT ![turn] = IF cancelled THEN "cancelled" ELSE "failed"]
  BY DEF Leave, Flushed
<1>3. TurnsOK /\ Filed /\ Leaves
  BY DEF TurnsInv
<1>4. /\ turn \in Turns /\ messages \in Seq(Items) /\ stored \in [Turns -> Seq(Items)]
      /\ said \in [Turns -> Seq(Nat)]
      /\ status \in [Turns -> {"none", "completed", "failed", "cancelled"}]
  BY <1>1, <1>3 DEF TurnsOK
<1>5. PICK f, s : f = stored' /\ s = status'
  OBVIOUS
<1>6. /\ f \in [Turns -> Seq(Items)] /\ \A t \in Turns : t # turn => f[t] = stored[t]
      /\ f[turn] = stored[turn] \/ f[turn] = messages
  <2>1. stored' = [stored EXCEPT ![turn] = messages] \/ stored' = stored
    BY <1>2
  <2>2. QED
    BY <1>4, <1>5, <2>1
<1>7. /\ s \in [Turns -> {"none", "completed", "failed", "cancelled"}]
      /\ \A t \in Turns : t # turn => s[t] = status[t]
      /\ s[turn] = "completed" => ~cancelled /\ status[turn] # "failed" /\ f[turn] = messages
  <2>1. CASE /\ stored' = [stored EXCEPT ![turn] = messages]
             /\ status' = [status EXCEPT ![turn] = IF cancelled THEN "cancelled"
                             ELSE IF @ = "failed" \/ ~complete THEN "failed" ELSE "completed"]
    BY <1>4, <1>5, <2>1
  <2>2. CASE status' = [status EXCEPT ![turn] = IF cancelled THEN "cancelled" ELSE "failed"]
    BY <1>4, <1>5, <2>2
  <2>3. QED
    BY <1>2, <2>1, <2>2
<1>8. backend = "deepseek" =>
        /\ \A n \in DOMAIN queue' : queue'[n].type # "tool_result"
        /\ \A n \in DOMAIN messages' : messages'[n].type # "tool"
        /\ \A t \in Turns : \A n \in DOMAIN f[t] : f[t][n].type # "tool"
  <2>1. DOMAIN queue' = {} /\ DOMAIN messages' = {}
    BY <1>1
  <2>2. ASSUME backend = "deepseek", NEW t \in Turns PROVE \A n \in DOMAIN f[t] : f[t][n].type # "tool"
    <3>1. /\ \A n \in DOMAIN messages : messages[n].type # "tool"
          /\ \A n \in DOMAIN stored[t] : stored[t][n].type # "tool"
      BY <1>3, <2>2 DEF TurnsOK
    <3>2. QED
      BY <1>6, <3>1
  <2>3. QED
    BY <2>1, <2>2
<1>9. TurnsOK'
  <2>1. memory' \in Seq(Memories) /\ segment' \in 0..Len(messages')
    BY <1>1, RememberedIs
  <2>2. QED
    BY <1>1, <1>3, <1>5, <1>6, <1>7, <1>8, <2>1, NothingYet DEF TurnsOK
<1>10. /\ IsPrefix(Texts(stored[turn]), Texts(messages)) /\ IsPrefix(Texts(messages), said[turn])
       /\ ~cancelled /\ status[turn] # "failed" => Texts(messages) = said[turn]
  BY <1>1, <1>3 DEF Leaves
<1>11. PICK o \in Seq(Nat), x \in Seq(Nat), y \in Seq(Nat), w \in Seq(Nat) :
         o = Texts(stored[turn]) /\ x = Texts(messages) /\ y = said[turn] /\ w = Texts(f[turn])
  <2>1. stored[turn] \in Seq(Items) /\ said[turn] \in Seq(Nat) /\ f[turn] \in Seq(Items)
    BY <1>4, <1>6
  <2>2. QED
    BY <1>4, <2>1, MemoriesAre, TextsIs
<1>12. IsPrefix(w, x) /\ IsPrefix(w, y) /\ IsPrefix(x, y)
  <2>1. IsPrefix(o, x) /\ IsPrefix(x, y)
    BY <1>10, <1>11
  <2>2. IsPrefix(x, x)
    BY ONLY x \in Seq(Nat), NumbersPrefix
  <2>3. IsPrefix(o, y)
    BY ONLY <2>1, o \in Seq(Nat), x \in Seq(Nat), y \in Seq(Nat), NumbersPrefix
  <2>4. w = o \/ w = x
    BY <1>6, <1>11
  <2>5. QED
    BY <2>1, <2>2, <2>3, <2>4
<1>13. Flows' /\ Leaves'
  BY <1>1 DEF Flows, Leaves
<1>14. Filed'
  <2>1. s[turn] = "completed" => w = y
    BY <1>7, <1>10, <1>11
  <2>2. IsPrefix(Texts(stored'[turn]), said[turn])
        /\ (status'[turn] = "completed" => Texts(stored'[turn]) = said[turn])
    BY <1>5, <1>11, <1>12, <2>1
  <2>3. \A t \in Turns : t # turn => stored'[t] = stored[t] /\ status'[t] = status[t]
    BY <1>5, <1>6, <1>7
  <2>4. QED
    BY <1>1, <2>2, <2>3, FilesStay
<1>15. backend \in {"deepseek", "claude"} =>
         IsPrefix(Spoken(w), Mind(memory', turn)) /\ IsPrefix(Mind(memory', turn), Words(turn))
  <2>1. IsPrefix(Spoken(w), Spoken(x)) /\ IsPrefix(Spoken(w), Spoken(y)) /\ Spoken(y) = Words(turn)
    BY <1>11, <1>12, SpokenIs DEF Words
  <2>2. PICK sw \in Seq(Nat), sx \in Seq(Nat), sy \in Seq(Nat) :
          sw = Spoken(w) /\ sx = Spoken(x) /\ sy = Spoken(y)
    BY SpokenIs
  <2>3. CASE backend = "deepseek"
    <3>1. Mind(memory', turn) = sy
      BY <1>1, <2>1, <2>2, <2>3, RememberedIs
    <3>2. IsPrefix(sy, sy)
      BY ONLY sy \in Seq(Nat), NumbersPrefix
    <3>3. QED
      BY <2>1, <2>2, <3>1, <3>2
  <2>4. CASE backend = "claude"
    <3>1. Mind(memory', turn) = Mind(memory, turn) \o partial
      BY <1>1, <2>4, RememberedIs
    <3>2. /\ IsPrefix(sx, Mind(memory, turn) \o partial)
          /\ IsPrefix(Mind(memory, turn) \o partial, sy)
      BY <1>1, <1>11, <2>2, <2>4 DEF TurnsInv, MindOfClaude, Words
    <3>3. PICK m \in Seq(Nat) : m = Mind(memory, turn) \o partial
      <4>1. memory \in Seq(Memories) /\ partial \in Seq(Nat)
        BY <1>3 DEF TurnsOK, Plain
      <4>2. Mind(memory, turn) \in Seq(Nat)
        BY <4>1, MindTyped
      <4>3. Mind(memory, turn) \o partial \in Seq(Nat)
        BY ONLY <4>1, <4>2
      <4>4. QED
        BY <4>3
    <3>4. IsPrefix(sw, sx) /\ IsPrefix(sx, m)
      BY <2>1, <2>2, <3>2, <3>3
    <3>5. IsPrefix(sw, m)
      BY ONLY <3>4, sw \in Seq(Nat), sx \in Seq(Nat), m \in Seq(Nat), NumbersPrefix
    <3>6. QED
      BY <2>1, <2>2, <3>1, <3>2, <3>3, <3>5
  <2>5. QED
    BY <2>3, <2>4
<1>16. backend # "pi" => Minds'
  <2>1. SUFFICES ASSUME backend # "pi" PROVE Minds'
    OBVIOUS
  <2>2. backend \in {"deepseek", "claude"}
    BY <1>3, <2>1, TurnsAssumption DEF TurnsOK
  <2>3. \A t \in Turns : t # turn => stored'[t] = stored[t]
    BY <1>5, <1>6
  <2>4. IsPrefix(Spoken(Texts(stored'[turn])), Mind(memory', turn)) /\ IsPrefix(Mind(memory', turn), Words(turn))
    BY <1>5, <1>11, <1>15, <2>2
  <2>5. memory' = memory \/ \E m \in Memories : m.turn = turn /\ memory' = Append(memory, m)
    BY <1>1, RememberedIs
  <2>6. QED
    BY <1>1, <2>1, <2>3, <2>4, <2>5, MindsStay
<1>17. MindOfDeepSeek' /\ MindOfClaude'
  BY <1>1 DEF MindOfDeepSeek, MindOfClaude
<1>18. QED
  BY <1>1, <1>9, <1>13, <1>14, <1>16, <1>17 DEF TurnsInv

LEMMA MindJoin ==
  ASSUME NEW q \in Seq(Memories), NEW r \in Seq(Memories), NEW t
  PROVE  Mind(q \o r, t) = Mind(q, t) \o Mind(r, t)
<1>1. PICK x \in Seq(Memories), y \in Seq(Memories) : x = Recall(q, t) /\ y = Recall(r, t)
  BY MindTyped
<1>2. Recall(q \o r, t) = x \o y
  BY <1>1, RecallMemories
<1>3. Texts(x \o y) = Texts(x) \o Texts(y) /\ Texts(x) \in Seq(Nat) /\ Texts(y) \in Seq(Nat)
  BY MemoriesAre, TextsIs
<1>4. Spoken(Texts(x) \o Texts(y)) = Spoken(Texts(x)) \o Spoken(Texts(y))
  BY <1>3, SpokenIs
<1>5. QED
  BY <1>1, <1>2, <1>3, <1>4, Zenon DEF Mind

LEMMA RecallAll ==
  ASSUME NEW q \in Seq(Memories), NEW t, \A n \in DOMAIN q : q[n].turn = t
  PROVE  Recall(q, t) = q
<1>1. Recall(q, t) = FlattenSeq([i \in 1..Len(q) |-> IF q[i].turn = t THEN <<q[i]>> ELSE <<>>])
  BY Zenon DEF Recall, Each
<1>2. DOMAIN q = 1..Len(q)
  BY SeqIs
<1>3. [i \in 1..Len(q) |-> IF q[i].turn = t THEN <<q[i]>> ELSE <<>>] = [i \in 1..Len(q) |-> <<q[i]>>]
  BY <1>2
<1>4. QED
  BY <1>1, <1>3, FlatSingles

\* What restoreHistory makes of the messages of a turn.
Recalled(t, q) ==
  Each(q, LAMBDA m :
    IF m.type \in Kinds THEN <<[type |-> m.type, turn |-> t, text |-> m.text]>> ELSE <<>>)
Keeps(t, m) ==
  IF m.type \in Kinds THEN <<[type |-> m.type, turn |-> t, text |-> m.text]>> ELSE <<>>

LEMMA RecalledIs ==
  ASSUME NEW t \in Nat, NEW X, X = {m \in Memories : m.turn = t}
  PROVE  /\ Recalled(t, <<>>) = <<>>
         /\ \A m \in Items : Recalled(t, <<m>>) = Keeps(t, m) /\ Keeps(t, m) \in Seq(X)
         /\ \A a, b \in Seq(Items) :
              Recalled(t, a) \in Seq(X) /\ Recalled(t, a \o b) = Recalled(t, a) \o Recalled(t, b)
<1>1. PICK g : g = [m \in Items |-> Keeps(t, m)]
  BY Zenon
<1>2. ASSUME NEW m \in Items PROVE Keeps(t, m) \in Seq(X)
  <2>1. CASE m.type \in Kinds
    <3>1. m.type \in {"assistant", "tool"} /\ m.text \in Seq(Nat)
      BY <2>1, MemoriesAre DEF Kinds
    <3>2. PICK r : r = [type |-> m.type, turn |-> t, text |-> m.text]
      OBVIOUS
    <3>3. r \in Memories /\ r.turn = t
      BY <3>1, <3>2 DEF Memories
    <3>4. r \in X /\ Keeps(t, m) = <<r>>
      BY <2>1, <3>2, <3>3 DEF Keeps
    <3>5. QED
      BY <3>4
  <2>2. CASE m.type \notin Kinds
    <3>1. Keeps(t, m) = <<>>
      BY <2>2 DEF Keeps
    <3>2. QED
      BY <3>1
  <2>3. QED
    BY <2>1, <2>2
<1>3. g \in [Items -> Seq(X)]
  BY ONLY <1>1, <1>2
<1>4. ASSUME NEW a \in Seq(Items) PROVE Recalled(t, a) = Through(g, a)
  <2>1. Recalled(t, a) = FlattenSeq([i \in 1..Len(a) |-> Keeps(t, a[i])])
    BY Zenon DEF Recalled, Each, Keeps
  <2>2. \A i \in 1..Len(a) : Keeps(t, a[i]) = g[a[i]]
    <3>1. \A i \in 1..Len(a) : a[i] \in Items
      OBVIOUS
    <3>2. QED
      BY ONLY <1>1, <3>1
  <2>3. [i \in 1..Len(a) |-> Keeps(t, a[i])] = [i \in 1..Len(a) |-> g[a[i]]]
    BY ONLY <2>2
  <2>4. QED
    BY <2>1, <2>3, Zenon DEF Through
<1>5. Recalled(t, <<>>) = <<>>
  BY <1>4, NothingYet, ThroughNil, Zenon
<1>6. ASSUME NEW m \in Items PROVE Recalled(t, <<m>>) = Keeps(t, m)
  <2>1. <<m>> \in Seq(Items)
    OBVIOUS
  <2>2. Through(g, <<m>>) = g[m]
    BY ONLY <1>3, m \in Items, ThroughOne
  <2>3. QED
    BY <1>1, <1>4, <2>1, <2>2
<1>7. ASSUME NEW a \in Seq(Items), NEW b \in Seq(Items)
      PROVE  Recalled(t, a) \in Seq(X) /\ Recalled(t, a \o b) = Recalled(t, a) \o Recalled(t, b)
  <2>1. a \o b \in Seq(Items)
    BY ONLY a \in Seq(Items), b \in Seq(Items)
  <2>2. Recalled(t, a) = Through(g, a) /\ Recalled(t, b) = Through(g, b) /\ Recalled(t, a \o b) = Through(g, a \o b)
    BY <1>4, <2>1
  <2>3. Through(g, a) \in Seq(X)
    BY ONLY <1>3, a \in Seq(Items), ThroughTyped
  <2>4. Through(g, a \o b) = Through(g, a) \o Through(g, b)
    BY ONLY <1>3, a \in Seq(Items), b \in Seq(Items), ThroughJoin
  <2>5. QED
    BY ONLY <2>2, <2>3, <2>4
<1>8. QED
  BY <1>2, <1>5, <1>6, <1>7

\* It leaves out only what has no text.
LEMMA RecalledTexts ==
  ASSUME NEW t \in Nat, NEW q \in Seq(Items),
         \A n \in DOMAIN q : q[n].type \notin Kinds => q[n].text = <<>>
  PROVE  Texts(Recalled(t, q)) = Texts(q)
<1>1. PICK X : X = {m \in Memories : m.turn = t}
  OBVIOUS
<1>2. \A m \in X : m.text \in Seq(Nat)
  BY <1>1, MemoriesAre
<1>3. PICK L \in Nat : L = Len(q) /\ DOMAIN q = 1..L
  BY SeqIs
<1>4. PICK T : T = {n \in 0..L : Texts(Recalled(t, SubSeq(q, 1, n))) = Texts(SubSeq(q, 1, n))}
  OBVIOUS
<1>5. 0 \in T
  <2>1. SubSeq(q, 1, 0) = <<>> /\ 0 \in 0..L
    BY <1>3, WholeFirst
  <2>2. Recalled(t, <<>>) = <<>>
    BY <1>1, RecalledIs
  <2>3. QED
    BY <1>4, <2>1, <2>2
<1>6. ASSUME NEW n \in 0..L, n \in T, n < L PROVE n + 1 \in T
  <2>1. PICK s, k : s = SubSeq(q, 1, n) /\ k = n + 1
    OBVIOUS
  <2>2. s \in Seq(Items) /\ k \in 1..L /\ k \in 0..L /\ q[k] \in Items /\ SubSeq(q, 1, k) = Append(s, q[k])
    <3>1. /\ SubSeq(q, 1, n) \in Seq(Items) /\ q[n + 1] \in Items
          /\ SubSeq(q, 1, n + 1) = Append(SubSeq(q, 1, n), q[n + 1])
      <4>1. n \in 0..Len(q) /\ n < Len(q)
        BY <1>3, <1>6
      <4>2. QED
        BY ONLY <4>1, q \in Seq(Items), First
    <3>2. k \in 1..L /\ k \in 0..L
      BY <1>6, <2>1
    <3>3. QED
      BY <2>1, <3>1, <3>2
  <2>3. PICK m \in Items : m = q[k] /\ (m.type \notin Kinds => m.text = <<>>)
    BY <1>3, <2>2
  <2>4. Append(s, m) = s \o <<m>> /\ <<m>> \in Seq(Items)
    BY <2>2
  <2>5. Recalled(t, Append(s, m)) = Recalled(t, s) \o Keeps(t, m) /\ Recalled(t, s) \in Seq(X) /\ Keeps(t, m) \in Seq(X)
    <3>1. Recalled(t, s \o <<m>>) = Recalled(t, s) \o Recalled(t, <<m>>) /\ Recalled(t, s) \in Seq(X)
      BY <1>1, <2>2, <2>4, RecalledIs
    <3>2. Recalled(t, <<m>>) = Keeps(t, m) /\ Keeps(t, m) \in Seq(X)
      BY <1>1, RecalledIs
    <3>3. QED
      BY <2>4, <3>1, <3>2
  <2>6. Texts(Keeps(t, m)) = m.text
    <3>1. CASE m.type \in Kinds
      <4>1. PICK r : r = [type |-> m.type, turn |-> t, text |-> m.text]
        OBVIOUS
      <4>2. Keeps(t, m) = <<r>> /\ r.text = m.text
        BY <3>1, <4>1 DEF Keeps
      <4>3. r \in {r}  /\ m.text \in Seq(Nat)
        BY MemoriesAre
      <4>4. Texts(<<r>>) = r.text
        <5>1. PICK I : I = {r}
          OBVIOUS
        <5>2. r \in I /\ \A i \in I : i.text \in Seq(Nat)
          BY <4>2, <4>3, <5>1
        <5>3. QED
          BY ONLY <5>2, TextsIs
      <4>5. QED
        BY <4>2, <4>4
    <3>2. CASE m.type \notin Kinds
      <4>1. Keeps(t, m) = <<>>
        BY <3>2 DEF Keeps
      <4>2. QED
        BY <2>3, <3>2, <4>1, NothingYet
    <3>3. QED
      BY <3>1, <3>2
  <2>7. Texts(Recalled(t, s) \o Keeps(t, m)) = Texts(Recalled(t, s)) \o Texts(Keeps(t, m))
    BY ONLY <1>2, <2>5, TextsIs
  <2>8. Texts(Append(s, m)) = Texts(s) \o m.text
    BY <2>2, TextsAppend
  <2>9. Texts(Recalled(t, s)) = Texts(s)
    BY <1>4, <1>6, <2>1
  <2>10. Texts(Recalled(t, SubSeq(q, 1, k))) = Texts(SubSeq(q, 1, k))
    BY <2>2, <2>3, <2>5, <2>6, <2>7, <2>8, <2>9
  <2>11. QED
    BY <1>4, <2>1, <2>2, <2>10
<1>7. T = 0..L
  <2>1. T \in SUBSET (0..L)
    BY <1>4
  <2>2. QED
    BY ONLY <1>5, <1>6, <2>1, L \in Nat, FromZero
<1>8. L \in T /\ SubSeq(q, 1, L) = q
  BY <1>3, <1>7, WholeFirst
<1>9. QED
  BY <1>4, <1>8

\* A new backend's memory of one turn.
LEMMA RestoredIs ==
  ASSUME NEW t \in Nat, stored[t] \in Seq(Items),
         \A n \in DOMAIN stored[t] : stored[t][n].type \notin Kinds => stored[t][n].text = <<>>
  PROVE  /\ Restored(t) \in Seq(Memories)
         /\ \A n \in DOMAIN Restored(t) : Restored(t)[n].turn = t
         /\ Mind(Restored(t), t) = Spoken(Texts(stored[t]))
         /\ Len(Restored(t)) \in Nat /\ 1 \in 1..Len(Restored(t)) /\ Restored(t)[1].type = "user"
<1>1. PICK X : X = {m \in Memories : m.turn = t}
  OBVIOUS
<1>2. PICK K : K = Recalled(t, stored[t])
  OBVIOUS
<1>3. K \in Seq(X) /\ Texts(K) = Texts(stored[t])
  BY <1>1, <1>2, RecalledIs, RecalledTexts
<1>4. PICK u : u = Prompt(t)
  OBVIOUS
<1>5. u \in X /\ u.text = <<0>> /\ u.type = "user" /\ <<u>> \in Seq(X) /\ Len(<<u>>) = 1 /\ <<u>>[1] = u
  BY <1>1, <1>4, PromptIs
<1>6. PICK R : R = <<u>> \o K
  OBVIOUS
<1>7. Restored(t) = R
  BY <1>2, <1>4, <1>6, Zenon DEF Restored, Recalled
<1>8. /\ R \in Seq(X) /\ Len(R) = 1 + Len(K) /\ Len(K) \in Nat /\ R[1] = u
  <2>1. /\ R \in Seq(X) /\ Len(R) = Len(<<u>>) + Len(K) /\ Len(K) \in Nat
        /\ \A k \in 1..Len(<<u>>) : R[k] = <<u>>[k]
    BY ONLY <1>3, <1>5, <1>6, JoinedIs
  <2>2. QED
    BY <1>5, <2>1
<1>9. \A n \in DOMAIN R : R[n] \in X
  BY <1>8, SeqIs
<1>10. R \in Seq(Memories)
  <2>1. X \subseteq Memories
    BY <1>1
  <2>2. PICK l \in Nat : l = Len(R)
    BY <1>8
  <2>3. R \in [1..l -> X]
    BY <1>8, <2>2
  <2>4. R \in [1..l -> Memories]
    BY <2>1, <2>3
  <2>5. QED
    BY <2>4
<1>11. Mind(R, t) = Spoken(Texts(stored[t]))
  <2>1. Recall(R, t) = R
    BY <1>1, <1>9, <1>10, RecallAll
  <2>2. \A m \in X : m.text \in Seq(Nat)
    BY <1>1, MemoriesAre
  <2>3. Texts(R) = Texts(<<u>>) \o Texts(K) /\ Texts(<<u>>) = <<0>>
    BY <1>3, <1>5, <1>6, <2>2, TextsIs
  <2>4. Texts(stored[t]) \in Seq(Nat)
    BY MemoriesAre, TextsIs
  <2>5. Texts(R) = <<0>> \o Texts(stored[t])
    BY <1>3, <2>3
  <2>6. Spoken(Texts(R)) = Spoken(Texts(stored[t]))
    <3>1. PICK x \in Seq(Nat) : x = Texts(stored[t])
      BY <2>4
    <3>2. Spoken(<<0>>) = <<>> /\ Spoken(x) \in Seq(Nat) /\ Spoken(<<0>> \o x) = Spoken(<<0>>) \o Spoken(x)
      <4>1. <<0>> \in Seq(Nat)
        OBVIOUS
      <4>2. QED
        BY ONLY <4>1, x \in Seq(Nat), SpokenIs
    <3>3. QED
      BY <2>5, <3>1, <3>2, NumbersNil
  <2>7. QED
    BY <2>1, <2>6 DEF Mind
<1>12. \A n \in DOMAIN R : R[n].turn = t
  BY <1>1, <1>9
<1>13. QED
  BY <1>5, <1>7, <1>8, <1>10, <1>11, <1>12

\* Its memory of all of them.
LEMMA ReopenedIs ==
  ASSUME TurnsInv, pc = "idle", backend # "pi", NEW S, S = FlattenSeq([t \in 1..turn |-> Restored(t)])
  PROVE  /\ S \in Seq(Memories) /\ \A n \in DOMAIN S : S[n].turn \in 1..turn
         /\ \A t \in 1..turn :
              /\ Mind(S, t) = Spoken(Texts(stored[t]))
              /\ \E n \in DOMAIN S : S[n].turn = t /\ S[n].type = "user"
<1>1. TurnsOK
  BY DEF TurnsInv
<1>2. turn \in Nat /\ 1..turn \subseteq Turns /\ stored \in [Turns -> Seq(Items)]
      /\ backend \in {"deepseek", "claude"}
  BY <1>1, TurnsAssumption DEF TurnsOK, Turns
<1>3. ASSUME NEW t \in 1..turn
      PROVE  /\ stored[t] \in Seq(Items) /\ t \in Nat
             /\ \A n \in DOMAIN stored[t] : stored[t][n].type \notin Kinds => stored[t][n].text = <<>>
  <2>1. t \in Turns /\ t \in Nat /\ stored[t] \in Seq(Items)
    BY <1>2
  <2>2. ASSUME NEW n \in DOMAIN stored[t], stored[t][n].type \notin Kinds
        PROVE  stored[t][n].text = <<>>
    <3>1. stored[t][n] \in Items
      BY <2>1, SeqIs
    <3>2. stored[t][n].type \in {"assistant", "tool", "error"}
          /\ (stored[t][n].type = "error" => stored[t][n].text = <<>>)
      BY <3>1 DEF Items
    <3>3. backend = "deepseek" => stored[t][n].type # "tool"
      BY <1>1, <2>1 DEF TurnsOK
    <3>4. stored[t][n].type = "error"
      BY <1>2, <2>2, <3>2, <3>3 DEF Kinds
    <3>5. QED
      BY <3>2, <3>4
  <2>3. QED
    BY <2>1, <2>2
<1>4. ASSUME NEW t \in 1..turn
      PROVE  /\ Restored(t) \in Seq(Memories)
             /\ \A n \in DOMAIN Restored(t) : Restored(t)[n].turn = t
             /\ Mind(Restored(t), t) = Spoken(Texts(stored[t]))
             /\ Len(Restored(t)) \in Nat /\ 1 \in 1..Len(Restored(t)) /\ Restored(t)[1].type = "user"
  BY <1>3, RestoredIs
<1>5. PICK L \in Nat : L = turn
  BY <1>2
<1>6. PICK R : R = [t \in 1..L |-> Restored(t)]
  BY Zenon
<1>7. /\ S = FlattenSeq(R) /\ R \in Seq(Seq(Memories)) /\ Len(R) = L
      /\ \A t \in 1..L : R[t] = Restored(t)
  <2>1. \A t \in 1..L : R[t] = Restored(t)
    BY <1>6
  <2>2. \A t \in 1..L : Restored(t) \in Seq(Memories)
    BY <1>4, <1>5
  <2>3. R \in [1..L -> Seq(Memories)]
    BY <1>6, <2>2
  <2>4. R \in Seq(Seq(Memories)) /\ Len(R) = L
    BY <2>3
  <2>5. QED
    BY <1>5, <1>6, <2>1, <2>4
<1> DEFINE Upto(n) == FlattenSeq(SubSeq(R, 1, n))
<1>8. PICK T : T = {n \in 0..L :
        /\ Upto(n) \in Seq(Memories) /\ \A i \in DOMAIN Upto(n) : Upto(n)[i].turn \in 1..n
        /\ \A t \in 1..n :
             /\ Mind(Upto(n), t) = Spoken(Texts(stored[t]))
             /\ \E i \in DOMAIN Upto(n) : Upto(n)[i].turn = t /\ Upto(n)[i].type = "user"}
  OBVIOUS
<1>9. 0 \in T
  <2>1. SubSeq(R, 1, 0) = <<>> /\ 0 \in 0..L
    BY <1>7, WholeFirst
  <2>2. Upto(0) = <<>>
    BY <2>1, FlatNil
  <2>3. <<>> \in Seq(Memories) /\ DOMAIN <<>> = {} /\ 1..0 = {}
    OBVIOUS
  <2> HIDE DEF Upto
  <2>4. QED
    BY <1>8, <2>1, <2>2, <2>3
<1>10. ASSUME NEW n \in 0..L, n \in T, n < L PROVE n + 1 \in T
  <2>1. PICK k, M, N, r : k = n + 1 /\ M = Upto(n) /\ N = Upto(k) /\ r = R[k]
    OBVIOUS
  <2>2. n \in Nat /\ k \in 1..L /\ k \in 0..L /\ k \in Nat /\ k = n + 1
    BY <1>10, <2>1
  <2>3. /\ M \in Seq(Memories) /\ \A i \in DOMAIN M : M[i].turn \in 1..n
        /\ \A t \in 1..n :
             /\ Mind(M, t) = Spoken(Texts(stored[t]))
             /\ \E i \in DOMAIN M : M[i].turn = t /\ M[i].type = "user"
    BY <1>8, <1>10, <2>1
  <2>4. /\ r \in Seq(Memories) /\ \A i \in DOMAIN r : r[i].turn = k
        /\ Mind(r, k) = Spoken(Texts(stored[k]))
        /\ Len(r) \in Nat /\ 1 \in 1..Len(r) /\ r[1].type = "user"
    BY <1>4, <1>5, <1>7, <2>1, <2>2
  <2>5. N = M \o r
    <3>1. n \in 0..Len(R) /\ n < Len(R)
      BY <1>7, <1>10
    <3>2. SubSeq(R, 1, n) \in Seq(Seq(Memories)) /\ SubSeq(R, 1, n + 1) = Append(SubSeq(R, 1, n), R[n + 1])
      BY ONLY <1>7, <3>1, First
    <3>3. FlattenSeq(Append(SubSeq(R, 1, n), r)) = FlattenSeq(SubSeq(R, 1, n)) \o r
      BY ONLY <2>4, <3>2, FlatAppend
    <3>4. QED
      BY <2>1, <3>2, <3>3
  <2>6. /\ N \in Seq(Memories) /\ DOMAIN N = 1..(Len(M) + Len(r)) /\ Len(M) \in Nat
        /\ DOMAIN M = 1..Len(M) /\ DOMAIN r = 1..Len(r)
        /\ \A i \in 1..Len(M) : N[i] = M[i]
        /\ \A i \in 1..Len(r) : N[Len(M) + i] = r[i]
    <3>1. /\ N \in Seq(Memories) /\ Len(N) = Len(M) + Len(r) /\ Len(M) \in Nat
          /\ \A i \in 1..Len(M) : N[i] = M[i]
          /\ \A i \in 1..Len(r) : N[Len(M) + i] = r[i]
      BY ONLY <2>3, <2>4, <2>5, JoinedIs
    <3>2. DOMAIN N = 1..Len(N) /\ DOMAIN M = 1..Len(M) /\ DOMAIN r = 1..Len(r)
      BY ONLY <2>3, <2>4, <3>1, SeqIs
    <3>3. QED
      BY <3>1, <3>2
  <2>7. ASSUME NEW i \in DOMAIN N PROVE N[i].turn \in 1..k
    <3>1. CASE i \in 1..Len(M)
      <4>1. M[i].turn \in 1..n
        BY <2>3, <2>6, <3>1
      <4>2. QED
        BY <2>2, <2>6, <3>1, <4>1
    <3>2. CASE i \notin 1..Len(M)
      <4>1. PICK j : j = i - Len(M)
        OBVIOUS
      <4>2. j \in 1..Len(r) /\ i = Len(M) + j
        BY <2>4, <2>6, <3>2, <4>1
      <4>3. N[i] = r[j] /\ r[j].turn = k
        BY <2>4, <2>6, <4>2
      <4>4. QED
        BY <2>2, <4>3
    <3>3. QED
      BY <3>1, <3>2
  <2>8. ASSUME NEW t \in 1..k
        PROVE  /\ Mind(N, t) = Spoken(Texts(stored[t]))
               /\ \E i \in DOMAIN N : N[i].turn = t /\ N[i].type = "user"
    <3>1. Mind(N, t) = Mind(M, t) \o Mind(r, t)
      BY <2>3, <2>4, <2>5, MindJoin
    <3>2. Mind(M, t) \in Seq(Nat) /\ Mind(r, t) \in Seq(Nat)
      BY <2>3, <2>4, MindTyped
    <3>3. CASE t = k
      <4>1. \A i \in DOMAIN M : M[i].turn # t
        BY <2>2, <2>3, <3>3
      <4>2. Mind(M, t) = <<>>
        BY <2>3, <4>1, RecallNone
      <4>3. Mind(N, t) = Spoken(Texts(stored[t]))
        BY <2>4, <3>1, <3>2, <3>3, <4>2, NumbersNil
      <4>4. PICK i : i = Len(M) + 1
        OBVIOUS
      <4>5. i \in DOMAIN N /\ N[i] = r[1]
        BY <2>4, <2>6, <4>4
      <4>6. 1 \in DOMAIN r
        BY <2>4, <2>6
      <4>7. QED
        BY <2>4, <3>3, <4>3, <4>5, <4>6
    <3>4. CASE t # k
      <4>1. t \in 1..n
        BY <2>2, <3>4
      <4>2. \A i \in DOMAIN r : r[i].turn # t
        BY <2>4, <3>4
      <4>3. Mind(r, t) = <<>>
        BY <2>4, <4>2, RecallNone
      <4>4. Mind(N, t) = Spoken(Texts(stored[t]))
        BY <2>3, <3>1, <3>2, <4>1, <4>3, NumbersNil
      <4>5. PICK i \in DOMAIN M : M[i].turn = t /\ M[i].type = "user"
        BY <2>3, <4>1
      <4>6. i \in DOMAIN N /\ N[i] = M[i]
        BY <2>4, <2>6
      <4>7. QED
        BY <4>4, <4>5, <4>6
    <3>5. QED
      BY <3>3, <3>4
  <2>9. k \in T
    <3> HIDE DEF Upto
    <3>1. /\ Upto(k) \in Seq(Memories) /\ \A i \in DOMAIN Upto(k) : Upto(k)[i].turn \in 1..k
          /\ \A t \in 1..k :
               /\ Mind(Upto(k), t) = Spoken(Texts(stored[t]))
               /\ \E i \in DOMAIN Upto(k) : Upto(k)[i].turn = t /\ Upto(k)[i].type = "user"
      BY <2>1, <2>6, <2>7, <2>8
    <3>2. QED
      BY <1>8, <2>2, <3>1
  <2>10. QED
    BY <2>1, <2>9
<1>11. T = 0..L
  <2>1. T \in SUBSET (0..L)
    BY <1>8
  <2>2. QED
    BY ONLY <1>9, <1>10, <2>1, L \in Nat, FromZero
<1>12. Upto(L) = S
  <2>1. SubSeq(R, 1, L) = R
    BY <1>7, WholeFirst
  <2>2. QED
    BY <1>7, <2>1
<1>13. L \in T
  BY <1>11
<1>14. QED
  <2> HIDE DEF Upto
  <2>1. /\ Upto(L) \in Seq(Memories) /\ \A i \in DOMAIN Upto(L) : Upto(L)[i].turn \in 1..L
        /\ \A t \in 1..L :
             /\ Mind(Upto(L), t) = Spoken(Texts(stored[t]))
             /\ \E i \in DOMAIN Upto(L) : Upto(L)[i].turn = t /\ Upto(L)[i].type = "user"
    BY <1>8, <1>13
  <2>2. QED
    BY ONLY <1>5, <1>12, <2>1, Zenon

LEMMA ReopenKeeps ==
  ASSUME TurnsInv, Reopen
  PROVE  TurnsInv'
<1>1. /\ pc = "idle" /\ backend # "pi" /\ started' = 1..turn
      /\ UNCHANGED <<backend, turn, pc, said, model, message, queue, partial, messages, segment,
                     stored, status, complete, cancelled>>
  BY DEF Reopen
<1>2. PICK M : M = memory' /\ M = FlattenSeq([t \in 1..turn |-> Restored(t)])
  BY Zenon DEF Reopen
<1>3. TurnsOK /\ Filed
  BY DEF TurnsInv
<1>4. /\ M \in Seq(Memories) /\ \A n \in DOMAIN M : M[n].turn \in 1..turn
      /\ \A t \in 1..turn :
           /\ Mind(M, t) = Spoken(Texts(stored[t]))
           /\ \E n \in DOMAIN M : M[n].turn = t /\ M[n].type = "user"
  BY <1>1, <1>2, ReopenedIs
<1>5. turn \in Nat /\ stored \in [Turns -> Seq(Items)] /\ said \in [Turns -> Seq(Nat)]
  BY <1>3, TurnsAssumption DEF TurnsOK
<1>6. TurnsOK'
  BY <1>1, <1>2, <1>3, <1>4 DEF TurnsOK
<1>7. Flows' /\ Leaves' /\ MindOfDeepSeek' /\ MindOfClaude'
  BY <1>1 DEF Flows, Leaves, MindOfDeepSeek, MindOfClaude
<1>8. \A t : Done(t)' = Done(t) /\ Words(t)' = Words(t)
  BY <1>1 DEF Done, Words
<1>9. Filed'
  BY <1>1, <1>3, <1>8 DEF Filed
<1>10. Minds'
  <2>1. ASSUME NEW t \in Turns, Done(t)
        PROVE  IsPrefix(Spoken(Texts(stored[t])), Mind(M, t)) /\ IsPrefix(Mind(M, t), Words(t))
    <3>1. t \in 1..turn
      BY <1>5, <2>1 DEF Done, Turns
    <3>2. stored[t] \in Seq(Items) /\ said[t] \in Seq(Nat)
      BY <1>5
    <3>3. PICK x \in Seq(Nat), y \in Seq(Nat) : x = Texts(stored[t]) /\ y = said[t]
      BY <3>2, MemoriesAre, TextsIs
    <3>4. IsPrefix(x, y)
      BY <1>3, <2>1, <3>3 DEF Filed
    <3>5. PICK u \in Seq(Nat) : u = Spoken(x) /\ IsPrefix(u, Spoken(y))
      BY <3>4, SpokenIs
    <3>6. IsPrefix(u, u)
      BY ONLY u \in Seq(Nat), NumbersPrefix
    <3>7. Mind(M, t) = u
      BY <1>4, <3>1, <3>3, <3>5
    <3>8. QED
      BY <3>3, <3>5, <3>6, <3>7 DEF Words
  <2>2. memory' = M /\ turn' = turn /\ stored' = stored
    BY <1>1, <1>2
  <2>3. /\ \A n \in DOMAIN memory' : memory'[n].turn \in 1..turn'
        /\ \A t \in 1..turn' : t \in started' =>
             \E n \in DOMAIN memory' : memory'[n].turn = t /\ memory'[n].type = "user"
    BY ONLY <1>4, <2>2
  <2>4. ASSUME NEW t \in Turns, Done(t)'
        PROVE  /\ IsPrefix(Spoken(Texts(stored'[t])), Mind(memory', t))
               /\ IsPrefix(Mind(memory', t), Words(t)')
    BY <1>8, <2>1, <2>2, <2>4
  <2>5. QED
    BY <2>3, <2>4 DEF Minds
<1>11. QED
  BY <1>1, <1>6, <1>7, <1>9, <1>10 DEF TurnsInv

LEMMA TurnsStart ==
  ASSUME TurnsInit
  PROVE  TurnsInv
<1>1. /\ backend \in Backends /\ turn = 0 /\ pc = "idle"
      /\ said = [t \in Turns |-> <<>>] /\ model = "over" /\ message = <<>> /\ queue = <<>>
      /\ partial = <<>> /\ memory = <<>> /\ messages = <<>> /\ segment = 0
      /\ stored = [t \in Turns |-> <<>>] /\ status = [t \in Turns |-> "none"]
      /\ complete = FALSE /\ cancelled = FALSE /\ started = {}
  BY DEF TurnsInit
<1>2. TurnsOK
  <2>1. DOMAIN queue = {} /\ DOMAIN messages = {} /\ \A t \in Turns : DOMAIN stored[t] = {}
    BY <1>1
  <2>2. segment \in 0..Len(messages) /\ turn \in 0..MaxTurns
    BY <1>1, TurnsAssumption
  <2>3. /\ said \in [Turns -> Seq(Nat)] /\ stored \in [Turns -> Seq(Items)]
        /\ status \in [Turns -> {"none", "completed", "failed", "cancelled"}]
    BY <1>1, NothingYet
  <2>4. QED
    BY <1>1, <2>1, <2>2, <2>3, NothingYet DEF TurnsOK
<1>3. \A t \in Turns : ~Done(t)
  BY <1>1 DEF Done, Turns
<1>4. Flows /\ Leaves /\ MindOfDeepSeek /\ MindOfClaude
  BY <1>1 DEF Flows, Leaves, MindOfDeepSeek, MindOfClaude
<1>5. Filed
  BY <1>1, <1>3 DEF Filed
<1>6. Minds
  <2>1. DOMAIN memory = {} /\ 1..turn = {}
    BY <1>1
  <2>2. QED
    BY <1>3, <2>1 DEF Minds
<1>7. QED
  BY <1>2, <1>4, <1>5, <1>6 DEF TurnsInv

LEMMA TurnsStutter ==
  ASSUME TurnsInv, UNCHANGED turnVars
  PROVE  TurnsInv'
<1>1. UNCHANGED <<backend, turn, pc, said, model, message, queue, partial, memory, messages,
                  segment, stored, status, complete, cancelled, started>>
  BY DEF turnVars
<1>2. OpenText' = OpenText /\ \A t : Done(t)' = Done(t) /\ Words(t)' = Words(t)
  BY <1>1 DEF OpenText, Done, Words
<1>3. TurnsOK'
  BY <1>1 DEF TurnsInv, TurnsOK
<1>4. Flows'
  <2>1. Flows
    BY DEF TurnsInv
  <2>2. pc = "running" => Runs(queue', OpenText', message')
    BY <1>1, <1>2, <2>1 DEF Flows
  <2>3. QED
    BY <1>1, <2>1, <2>2 DEF Flows
<1>5. Filed' /\ Leaves'
  BY <1>1, <1>2 DEF TurnsInv, Filed, Leaves
<1>6. backend # "pi" => Minds'
  BY <1>1, <1>2 DEF TurnsInv, Minds
<1>7. Newest("assistant")' = Newest("assistant")
  BY <1>1 DEF Newest
<1>8. Words(turn)' = Words(turn)
  BY <1>1 DEF Words
<1>9. backend = "deepseek" => MindOfDeepSeek'
  BY <1>1, <1>7, <1>8 DEF TurnsInv, MindOfDeepSeek
<1>10. backend = "claude" => MindOfClaude'
  BY <1>1, <1>2, <1>8 DEF TurnsInv, MindOfClaude
<1>11. QED
  BY <1>1, <1>3, <1>4, <1>5, <1>6, <1>9, <1>10 DEF TurnsInv

\* What the agent remembers for the next prompt: the newest of all that it was
\* given to remember, and nothing empty.
Heard == IF backend = "deepseek" THEN History!Spoken ELSE History!Quoted
Minding(c, m, types) ==
  /\ c \in Seq(Memories) /\ Speaking(c, types) /\ Speaking(m, types)
  /\ IsNewestOf(c, m, MaxMemory)
FullItems(q) == \A n \in DOMAIN q : q[n].type # "error" => q[n].text # <<>>
MindInv ==
  /\ FullItems(messages) /\ \A t \in Turns : FullItems(stored[t])
  /\ backend # "pi" => Minding(context, memory, Heard)

LEMMA SpeakingGrows ==
  ASSUME NEW q \in Seq(Memories), NEW types, Speaking(q, types),
         NEW x \in Memories, x.type \in types, Len(x.text) > 0
  PROVE  Speaking(Append(q, x), types)
<1>1. PICK s : s = Append(q, x)
  OBVIOUS
<1>2. PICK l \in Nat : l = Len(q)
  OBVIOUS
<1>3. Len(s) = l + 1 /\ s[l + 1] = x /\ \A k \in 1..l : s[k] = q[k]
  BY ONLY <1>1, <1>2, q \in Seq(Memories), x \in Memories, AppendIs
<1>4. ASSUME NEW i \in 1..(l + 1) PROVE s[i].type \in types /\ Len(s[i].text) > 0
  <2>1. CASE i = l + 1
    BY <1>3, <2>1
  <2>2. CASE i # l + 1
    <3>1. i \in 1..l
      BY ONLY <2>2, i \in 1..(l + 1), l \in Nat
    <3>2. q[i].type \in types /\ Len(q[i].text) > 0
      BY <1>2, <3>1 DEF Speaking
    <3>3. QED
      BY <1>3, <3>1, <3>2
  <2>3. QED
    BY <2>1, <2>2
<1>5. Speaking(s, types)
  BY <1>3, <1>4 DEF Speaking
<1>6. QED
  BY <1>1, <1>5

\* What is remembered once more.
LEMMA MindingGrows ==
  ASSUME NEW c, NEW m \in Seq(Memories), NEW types, Minding(c, m, types),
         NEW x \in Memories, x.type \in types, Len(x.text) > 0
  PROVE  Minding(Append(c, x), Append(m, x), types)
<1>1. /\ c \in Seq(Memories) /\ Speaking(c, types) /\ Speaking(m, types)
      /\ IsNewestOf(c, m, MaxMemory)
  BY DEF Minding
<1>2. MaxMemory \in Nat \ {0}
  BY TurnsAssumption
<1>3. IsNewestOf(Append(c, x), Append(m, x), MaxMemory)
  BY ONLY <1>1, <1>2, m \in Seq(Memories), x \in Memories, Len(x.text) > 0, NewestGrows
<1>4. Append(c, x) \in Seq(Memories)
  BY ONLY <1>1, x \in Memories
<1>5. Speaking(Append(c, x), types) /\ Speaking(Append(m, x), types)
  BY <1>1, SpeakingGrows
<1>6. QED
  BY <1>3, <1>4, <1>5 DEF Minding

\* What is remembered is cut.
LEMMA MindingCut ==
  ASSUME NEW c, NEW m \in Seq(Memories), Minding(c, m, Heard), TurnsOK, backend # "pi"
  PROVE  Minding(Shortened(c), m, Heard)
<1>1. /\ c \in Seq(Memories) /\ Speaking(c, Heard) /\ Speaking(m, Heard)
      /\ IsNewestOf(c, m, MaxMemory)
  BY DEF Minding
<1>2. MaxMemory \in Nat \ {0} /\ backend \in {"deepseek", "claude"}
  BY TurnsAssumption DEF TurnsOK
<1>3. PICK talk : talk = Lengths(c)
  OBVIOUS
<1>4. talk \in Seq(SaidMessages)
  BY ONLY <1>1, <1>3, LengthsAre
<1>5. PICK kept : kept = IF backend = "deepseek" THEN History!RestoreHistory(talk, MaxMemory)
                         ELSE History!RestoreTextHistory(talk, MaxMemory)
  OBVIOUS
<1>6. \E rem : Fits(talk, Heard, MaxMemory, 0, rem, kept)
  <2>1. /\ \E rem : Fits(talk, History!Quoted, MaxMemory, 0, rem, History!RestoreTextHistory(talk, MaxMemory))
        /\ \E rem : Fits(talk, History!Spoken, MaxMemory, 0, rem, History!RestoreHistory(talk, MaxMemory))
    BY ONLY <1>2, <1>4, LeftFits
  <2>2. CASE backend = "deepseek"
    BY ONLY <1>5, <2>1, <2>2 DEF Heard
  <2>3. CASE backend # "deepseek"
    BY ONLY <1>5, <2>1, <2>3 DEF Heard
  <2>4. QED
    BY <2>2, <2>3
<1>7. PICK rem : Fits(talk, Heard, MaxMemory, 0, rem, kept)
  BY <1>6
<1>8. PICK q : q = Trimmed(c, kept)
  OBVIOUS
<1>9. q = Shortened(c)
  BY <1>3, <1>5, <1>8 DEF Shortened
<1>10. PICK types : types = Heard
  OBVIOUS
<1>11. q \in Seq(Memories) /\ Speaking(q, types) /\ IsNewestOf(q, c, MaxMemory)
  BY ONLY <1>1, <1>2, <1>3, <1>7, <1>8, <1>10, CutIsNewest
<1>12. IsNewestOf(q, m, MaxMemory)
  BY ONLY <1>1, <1>2, <1>11, m \in Seq(Memories), NewestAgain
<1>13. QED
  BY <1>1, <1>9, <1>10, <1>11, <1>12 DEF Minding

LEMMA MindRests ==
  ASSUME MindInv, UNCHANGED <<backend, context, memory, messages, stored>>
  PROVE  MindInv'
<1>1. Heard' = Heard
  BY DEF Heard
<1>2. backend # "pi" => Minding(context', memory', Heard')
  BY <1>1 DEF MindInv
<1>3. FullItems(messages') /\ \A t \in Turns : FullItems(stored'[t])
  BY DEF MindInv
<1>4. QED
  BY <1>2, <1>3 DEF MindInv

LEMMA MindStarts ==
  ASSUME TurnsInit
  PROVE  MindInv
<1>1. /\ context = <<>> /\ memory = <<>> /\ messages = <<>> /\ stored = [t \in Turns |-> <<>>]
  BY DEF TurnsInit
<1>2. FullItems(<<>>)
  BY DEF FullItems
<1>3. PICK q : q = <<>>
  OBVIOUS
<1>4. q \in Seq(Memories) /\ Len(q) = 0 /\ 1..0 = {}
  BY <1>3
<1>5. Speaking(q, Heard)
  BY <1>4 DEF Speaking
<1>6. IsNewestOf(q, q, MaxMemory)
  BY <1>3, NothingIsNewest, TurnsAssumption
<1>7. Minding(q, q, Heard)
  BY <1>4, <1>5, <1>6 DEF Minding
<1>8. QED
  BY <1>1, <1>2, <1>3, <1>7 DEF MindInv

LEMMA MindBegins ==
  ASSUME TurnsOK, MindInv, NEW early \in BOOLEAN, BeginTurn(early)
  PROVE  MindInv'
<1>1. /\ messages' = <<>> /\ backend' = backend /\ stored' = stored
      /\ \/ context' = context /\ memory' = memory
         \/ context' = Append(context, Prompt(turn + 1)) /\ memory' = Append(memory, Prompt(turn + 1))
  BY DEF BeginTurn, Remember
<1>2. FullItems(messages') /\ \A t \in Turns : FullItems(stored'[t])
  BY <1>1 DEF MindInv, FullItems
<1>3. Heard' = Heard
  BY <1>1 DEF Heard
<1>4. ASSUME backend # "pi" PROVE Minding(context', memory', Heard)
  <2>1. Minding(context, memory, Heard) /\ memory \in Seq(Memories) /\ turn + 1 \in Nat
    BY <1>4, TurnsAssumption DEF MindInv, TurnsOK
  <2>2. PICK x : x = Prompt(turn + 1)
    OBVIOUS
  <2>3. x \in Memories /\ x.type = "user" /\ x.text = <<0>>
    BY <2>1, <2>2, PromptIs
  <2>4. x.type \in Heard /\ Len(x.text) > 0
    BY <2>3 DEF Heard, History!Spoken, History!Quoted
  <2>5. Minding(Append(context, x), Append(memory, x), Heard)
    BY <2>1, <2>3, <2>4, MindingGrows
  <2>6. QED
    BY <1>1, <2>1, <2>2, <2>5
<1>5. QED
  BY <1>1, <1>2, <1>3, <1>4 DEF MindInv

\* What an agent says is not empty when it is remembered.
LEMMA MindSays ==
  ASSUME TurnsOK, MindInv, backend # "pi", NEW a \in Seq(Nat), a # <<>>
  PROVE  Minding(Append(context, Assistant(a)), Append(memory, Assistant(a)), Heard)
<1>1. Minding(context, memory, Heard) /\ memory \in Seq(Memories) /\ turn \in Nat
  BY TurnsAssumption DEF MindInv, TurnsOK
<1>2. PICK x : x = Assistant(a)
  OBVIOUS
<1>3. x \in Memories /\ x.type = "assistant" /\ x.text = a
  BY <1>1, <1>2, AssistantIs
<1>4. x.type \in Heard
  BY <1>3 DEF Heard, History!Spoken, History!Quoted
<1>5. Len(a) > 0
  BY ONLY a \in Seq(Nat), a # <<>>
<1>6. Minding(Append(context, x), Append(memory, x), Heard)
  BY <1>1, <1>3, <1>4, <1>5, MindingGrows
<1>7. QED
  BY <1>2, <1>6

LEMMA MindYields ==
  ASSUME TurnsOK, MindInv, backend # "pi", NEW e \in Events, Yielded(e)
  PROVE  Minding(context', memory', Heard)
<1>1. CASE context' = context /\ memory' = memory
  BY <1>1 DEF MindInv
<1>2. CASE backend = "claude" /\ e.type = "text_complete"
  <2>1. e.text \in Seq(Nat) /\ e.text # <<>>
    BY <1>2 DEF Events
  <2>2. context' = Append(context, Assistant(e.text)) /\ memory' = Append(memory, Assistant(e.text))
    BY <1>2 DEF Yielded, Remember
  <2>3. QED
    BY <2>1, <2>2, MindSays
<1>3. CASE backend = "deepseek" /\ e.type = "complete" /\ partial # <<>>
  <2>1. partial \in Seq(Nat)
    BY DEF TurnsOK, Plain
  <2>2. context' = Append(context, Assistant(partial)) /\ memory' = Append(memory, Assistant(partial))
    BY <1>3 DEF Yielded, Remember
  <2>3. QED
    BY <1>3, <2>1, <2>2, MindSays
<1>4. CASE /\ ~(backend = "claude" /\ e.type = "text_complete")
           /\ ~(backend = "deepseek" /\ e.type = "complete" /\ partial # <<>>)
  <2>1. context' = context /\ memory' = memory
    BY <1>4 DEF Yielded
  <2>2. QED
    BY <1>1, <2>1
<1>5. QED
  BY <1>2, <1>3, <1>4

LEMMA FullConsumed ==
  ASSUME TurnsOK, FullItems(messages), NEW e \in Events, NEW b, Consumed(e), OpenNext(e, b)
  PROVE  FullItems(messages')
<1>1. messages \in Seq(Items) /\ segment \in 0..Len(messages) /\ e.type \in EventTypes
  BY DEF TurnsOK, Events
<1>2. PICK l \in Nat : l = Len(messages) /\ DOMAIN messages = 1..l
  BY <1>1, SeqIs
<1>3. \A n \in 1..l : messages[n].type # "error" => messages[n].text # <<>>
  BY <1>2 DEF FullItems
<1>4. CASE e.type \in {"text_delta", "text_complete"}
  <2>1. PICK k, s, z : k = OpenSegment /\ s = WithSegment /\ z = Event("assistant", <<>>)
    OBVIOUS
  <2>2. z \in Items
    BY <2>1, NothingYet DEF Event, Items
  <2>3. /\ s \in Seq(Items) /\ k \in DOMAIN s /\ k # 0
        /\ \A n \in DOMAIN s : n # k => s[n] = messages[n] /\ n \in 1..l
    <3>1. CASE segment = 0
      <4>1. s = Append(messages, z) /\ k = l + 1
        BY <1>2, <2>1, <3>1 DEF WithSegment, OpenSegment
      <4>2. Len(s) = l + 1 /\ s \in Seq(Items) /\ \A n \in 1..l : s[n] = messages[n]
        BY ONLY <1>1, <1>2, <2>2, <4>1, AppendIs
      <4>3. DOMAIN s = 1..(l + 1)
        BY ONLY <4>2, SeqIs
      <4>4. k \in DOMAIN s /\ k # 0 /\ \A n \in DOMAIN s : n # k => n \in 1..l
        BY ONLY <4>1, <4>3, l \in Nat
      <4>5. QED
        BY ONLY <4>2, <4>4
    <3>2. CASE segment # 0
      <4>1. s = messages /\ k = segment
        BY <2>1, <3>2 DEF WithSegment, OpenSegment
      <4>2. k \in 1..l
        BY ONLY <1>1, <1>2, <3>2, <4>1
      <4>3. QED
        BY ONLY <1>1, <1>2, <4>1, <4>2
    <3>3. QED
      BY <3>1, <3>2
  <2>4. /\ e.type = "text_delta" => messages' = [s EXCEPT ![k].text = @ \o e.text] /\ segment' = k
        /\ e.type = "text_complete" => messages' = [s EXCEPT ![k].text = e.text]
    BY <2>1 DEF Consumed
  <2>5. PICK m : messages' = [s EXCEPT ![k] = m] /\ (e.type = "text_complete" => m = [s[k] EXCEPT !.text = e.text])
    BY ONLY <1>4, <2>4
  <2>6. DOMAIN messages' = DOMAIN s /\ messages'[k] = m /\ \A n \in DOMAIN s : n # k => messages'[n] = s[n]
    BY ONLY <2>3, <2>5
  <2>7. m.text # <<>>
    <3>1. CASE e.type = "text_delta"
      BY <2>3, <2>4, <2>6, <3>1 DEF OpenNext
    <3>2. CASE e.type = "text_complete"
      <4>1. e.text # <<>>
        BY <3>2 DEF Events
      <4>2. PICK r : r = s[k]
        OBVIOUS
      <4>3. r \in Items
        BY ONLY <2>3, <4>2
      <4>4. [r EXCEPT !.text = e.text].text = e.text
        BY ONLY <4>3 DEF Items
      <4>5. QED
        BY <2>5, <3>2, <4>1, <4>2, <4>4
    <3>3. QED
      BY <1>4, <3>1, <3>2
  <2>8. ASSUME NEW n \in DOMAIN messages', messages'[n].type # "error" PROVE messages'[n].text # <<>>
    <3>1. CASE n = k
      BY <2>6, <2>7, <3>1
    <3>2. CASE n # k
      <4>1. messages'[n] = messages[n] /\ n \in 1..l
        BY <2>3, <2>6, <2>8, <3>2
      <4>2. QED
        BY <1>3, <2>8, <4>1
    <3>3. QED
      BY <3>1, <3>2
  <2>9. QED
    BY <2>8 DEF FullItems
<1>5. CASE e.type \in {"tool_result", "error"}
  <2>1. PICK z : messages' = Append(messages, z) /\ z \in Items /\ (z.type # "error" => z.text # <<>>)
    <3>1. CASE e.type = "tool_result"
      <4>1. PICK z : z = Event("tool", <<0>>)
        OBVIOUS
      <4>2. z \in Items /\ z.text = <<0>>
        BY <4>1 DEF Event, Items
      <4>3. messages' = Append(messages, z) /\ <<0>> # <<>>
        BY <3>1, <4>1 DEF Consumed
      <4>4. QED
        BY <4>2, <4>3
    <3>2. CASE e.type = "error"
      <4>1. PICK z : z = Event("error", <<>>)
        OBVIOUS
      <4>2. z \in Items /\ z.type = "error"
        BY <4>1, NothingYet DEF Event, Items
      <4>3. messages' = Append(messages, z)
        BY <3>2, <4>1 DEF Consumed
      <4>4. QED
        BY <4>2, <4>3
    <3>3. QED
      BY <1>5, <3>1, <3>2
  <2>2. PICK s : s = messages'
    OBVIOUS
  <2>3. /\ s \in Seq(Items) /\ Len(s) = l + 1 /\ s[l + 1] = z /\ \A n \in 1..l : s[n] = messages[n]
    BY ONLY <1>1, <1>2, <2>1, <2>2, AppendIs
  <2>4. DOMAIN s = 1..(l + 1) /\ \A n \in 1..(l + 1) : n = l + 1 \/ n \in 1..l
    BY ONLY <2>3, SeqIs, l \in Nat
  <2>5. \A n \in DOMAIN s : s[n].type # "error" => s[n].text # <<>>
    BY ONLY <1>3, <2>1, <2>3, <2>4
  <2>6. QED
    BY <2>2, <2>5 DEF FullItems
<1>6. CASE e.type \in {"tool_start", "complete"}
  BY <1>6 DEF Consumed
<1>7. QED
  BY <1>1, <1>4, <1>5, <1>6 DEF EventTypes

LEMMA MindTakes ==
  ASSUME TurnsInv, MindInv, Take
  PROVE  MindInv'
<1>1. pc = "running" /\ queue # <<>> /\ backend' = backend
  BY DEF Take
<1>2. PICK e, q, b : Takes(e, q, b)
  BY <1>1, TakesOne
<1>3. e \in Events /\ b \in Plain /\ Drafted(e, OpenText, b) /\ e = Head(queue)
  BY <1>2, Zenon DEF Takes
<1>4. TurnsOK /\ Flows /\ turn \in Turns /\ stored \in [Turns -> Seq(Items)]
  BY <1>1 DEF TurnsInv, TurnsOK
<1>5. FullItems(messages) /\ \A t \in Turns : FullItems(stored[t])
  BY DEF MindInv
<1>6. (context' = context /\ memory' = memory) \/ Yielded(e)
  BY <1>3 DEF Take
<1>7. backend # "pi" => Minding(context', memory', Heard)
  BY <1>3, <1>4, <1>6, MindYields DEF MindInv
<1>8. FullItems(messages') /\ \A t \in Turns : FullItems(stored'[t])
  <2>1. CASE cancelled
    BY <1>5, <2>1 DEF Take
  <2>2. CASE ~cancelled
    <3>1. Consumed(e) /\ (stored' = stored \/ Flushed(messages'))
      BY <1>3, <2>2 DEF Take, FlushFails
    <3>2. OpenNext(e, b)
      BY <1>1, <1>3, <1>4, <3>1, ConsumedIs
    <3>3. FullItems(messages')
      BY <1>3, <1>4, <1>5, <3>1, <3>2, FullConsumed
    <3>4. \A t \in Turns : stored'[t] = stored[t] \/ stored'[t] = messages'
      BY <1>4, <3>1 DEF Flushed
    <3>5. QED
      BY <1>5, <3>3, <3>4
  <2>3. QED
    BY <2>1, <2>2
<1>9. Heard' = Heard
  BY <1>1 DEF Heard
<1>10. QED
  BY <1>1, <1>7, <1>8, <1>9 DEF MindInv

LEMMA MindLeaves ==
  ASSUME TurnsInv, MindInv, Leave
  PROVE  MindInv'
<1>1. /\ pc = "leaving" /\ backend' = backend /\ messages' = <<>>
      /\ memory' = Remembered(memory)
      /\ context' = Remembered(context)
           \/ (backend = "claude" /\ context' = Shortened(Remembered(context)))
      /\ stored' = stored \/ Flushed(messages)
  BY DEF Leave
<1>2. TurnsOK /\ turn \in Turns /\ stored \in [Turns -> Seq(Items)]
  BY <1>1 DEF TurnsInv, TurnsOK
<1>3. FullItems(messages) /\ \A t \in Turns : FullItems(stored[t])
  BY DEF MindInv
<1>4. FullItems(messages') /\ \A t \in Turns : FullItems(stored'[t])
  <2>1. \A t \in Turns : stored'[t] = stored[t] \/ stored'[t] = messages
    BY <1>1, <1>2 DEF Flushed
  <2>2. FullItems(messages')
    BY <1>1 DEF FullItems
  <2>3. QED
    BY <1>3, <2>1, <2>2
<1>5. ASSUME backend # "pi" PROVE Minding(context', memory', Heard)
  <2>1. Minding(context, memory, Heard) /\ memory \in Seq(Memories)
        /\ partial \in Seq(Nat) /\ backend \in {"deepseek", "claude"}
    BY <1>2, <1>5, TurnsAssumption DEF MindInv, TurnsOK, Plain
  <2>2. Minding(Remembered(context), Remembered(memory), Heard)
    <3>1. CASE partial = <<>>
      BY <2>1, <3>1 DEF Remembered
    <3>2. CASE partial # <<>>
      <4>1. backend = "deepseek" => context[Len(context)].type = memory[Len(memory)].type
        <5>1. SUFFICES ASSUME backend = "deepseek"
                       PROVE  context[Len(context)].type = memory[Len(memory)].type
          OBVIOUS
        <5>2. memory # <<>>
          BY <1>1, <3>2, <5>1 DEF TurnsInv, MindOfDeepSeek
        <5>3. Len(memory) # 0
          BY ONLY <2>1, <5>2
        <5>4. context \in Seq(Memories) /\ IsNewestOf(context, memory, MaxMemory)
              /\ MaxMemory \in Nat \ {0}
          BY <2>1, TurnsAssumption DEF Minding
        <5>5. QED
          BY ONLY <2>1, <5>3, <5>4, NewestEnds
      <4>2. \/ Remembered(context) = context /\ Remembered(memory) = memory
            \/ /\ Remembered(context) = Append(context, Assistant(partial))
               /\ Remembered(memory) = Append(memory, Assistant(partial))
        BY <3>2, <4>1 DEF Remembered
      <4>3. Minding(Append(context, Assistant(partial)), Append(memory, Assistant(partial)), Heard)
        BY <1>2, <1>5, <2>1, <3>2, MindSays
      <4>4. QED
        BY <2>1, <4>2, <4>3
    <3>3. QED
      BY <3>1, <3>2
  <2>3. memory' \in Seq(Memories)
    BY <1>1, RememberedIs
  <2>4. Minding(Shortened(Remembered(context)), Remembered(memory), Heard)
    BY <1>1, <1>2, <1>5, <2>2, <2>3, MindingCut
  <2>5. QED
    BY <1>1, <2>2, <2>4
<1>6. Heard' = Heard
  BY <1>1 DEF Heard
<1>7. QED
  BY <1>1, <1>4, <1>5, <1>6 DEF MindInv

\* What a new backend gets of the file has no empty texts.
LEMMA RestoredSpeaks ==
  ASSUME TurnsOK, backend # "pi", NEW t \in Nat, NEW q \in Seq(Items), FullItems(q),
         NEW Y, Y = {m \in Memories : m.type \in Heard /\ Len(m.text) > 0}
  PROVE  <<Prompt(t)>> \o Recalled(t, q) \in Seq(Y)
<1>1. PICK I : I = {m \in Items : m.type # "error" => m.text # <<>>}
  OBVIOUS
<1>2. PICK l \in Nat : l = Len(q) /\ q \in [1..l -> Items] /\ DOMAIN q = 1..l
  <2>1. Len(q) \in Nat /\ q \in [1..Len(q) -> Items] /\ DOMAIN q = 1..Len(q)
    BY ONLY q \in Seq(Items)
  <2>2. QED
    BY <2>1
<1>3. q \in Seq(I)
  <2>1. \A n \in 1..l : q[n] \in I
    BY <1>1, <1>2 DEF FullItems
  <2>2. q \in [1..l -> I]
    BY ONLY <1>2, <2>1
  <2>3. QED
    BY ONLY <2>2, l \in Nat
<1>4. PICK g : g = [m \in I |-> Keeps(t, m)]
  BY Zenon
<1>5. Kinds \subseteq {"assistant", "tool"} /\ Kinds \subseteq Heard /\ "user" \in Heard
  BY DEF Kinds, Heard, History!Spoken, History!Quoted
<1>6. ASSUME NEW m \in I PROVE Keeps(t, m) \in Seq(Y)
  <2>1. m \in Items /\ m.text \in Seq(Nat) /\ (m.type # "error" => m.text # <<>>)
    BY <1>1, MemoriesAre
  <2>2. CASE m.type \in Kinds
    <3>1. PICK r : r = [type |-> m.type, turn |-> t, text |-> m.text]
      OBVIOUS
    <3>2. m.type \in {"assistant", "tool"} /\ m.type \in Heard
      BY <1>5, <2>2
    <3>3. r \in Memories /\ r.type = m.type /\ r.text = m.text
      BY <2>1, <3>1, <3>2 DEF Memories
    <3>4. Len(m.text) > 0
      <4>1. m.text # <<>>
        BY <2>1, <3>2
      <4>2. QED
        BY ONLY <2>1, <4>1
    <3>5. r \in Y
      BY <3>2, <3>3, <3>4
    <3>6. Keeps(t, m) = <<r>>
      BY <2>2, <3>1 DEF Keeps
    <3>7. QED
      BY <3>5, <3>6
  <2>3. CASE m.type \notin Kinds
    <3>1. Keeps(t, m) = <<>>
      BY <2>3 DEF Keeps
    <3>2. QED
      BY <3>1
  <2>4. QED
    BY <2>2, <2>3
<1>7. g \in [I -> Seq(Y)]
  BY ONLY <1>4, <1>6
<1>8. Recalled(t, q) = Through(g, q)
  <2>1. Recalled(t, q) = FlattenSeq([i \in 1..Len(q) |-> Keeps(t, q[i])])
    BY Zenon DEF Recalled, Each, Keeps
  <2>2. \A i \in 1..Len(q) : Keeps(t, q[i]) = g[q[i]]
    <3>1. \A i \in 1..Len(q) : q[i] \in I
      BY <1>3
    <3>2. QED
      BY ONLY <1>4, <3>1
  <2>3. [i \in 1..Len(q) |-> Keeps(t, q[i])] = [i \in 1..Len(q) |-> g[q[i]]]
    BY ONLY <2>2
  <2>4. QED
    BY <2>1, <2>3, Zenon DEF Through
<1>9. Recalled(t, q) \in Seq(Y)
  <2>1. Through(g, q) \in Seq(Y)
    BY ONLY <1>3, <1>7, ThroughTyped
  <2>2. QED
    BY <1>8, <2>1
<1>10. Prompt(t) \in Y
  <2>1. Prompt(t) \in Memories /\ Prompt(t).type = "user" /\ Len(Prompt(t).text) = 1
    BY PromptIs
  <2>2. QED
    BY <1>5, <2>1
<1>11. <<Prompt(t)>> \in Seq(Y)
  BY <1>10
<1>12. QED
  BY ONLY <1>9, <1>11, JoinedIs

LEMMA MindReopens ==
  ASSUME TurnsInv, MindInv, Reopen
  PROVE  MindInv'
<1>1. /\ backend # "pi" /\ pc = "idle" /\ context' = Shortened(memory')
      /\ backend' = backend /\ messages' = messages /\ stored' = stored
  BY DEF Reopen
<1>2. PICK M : M = memory' /\ M = FlattenSeq([t \in 1..turn |-> Restored(t)])
  BY Zenon DEF Reopen
<1>3. TurnsOK /\ turn \in Nat /\ 1..turn \subseteq Turns /\ stored \in [Turns -> Seq(Items)]
  BY TurnsAssumption DEF TurnsInv, TurnsOK, Turns
<1>4. PICK Y : Y = {m \in Memories : m.type \in Heard /\ Len(m.text) > 0}
  OBVIOUS
<1>5. ASSUME NEW t \in 1..turn PROVE Restored(t) \in Seq(Y)
  <2>1. PICK q : q = stored[t]
    OBVIOUS
  <2>2. q \in Seq(Items) /\ t \in Nat /\ FullItems(q)
    BY <1>3, <2>1 DEF MindInv
  <2>3. Restored(t) = <<Prompt(t)>> \o Recalled(t, q)
    BY <2>1, Zenon DEF Restored, Recalled
  <2>4. <<Prompt(t)>> \o Recalled(t, q) \in Seq(Y)
    BY <1>1, <1>3, <1>4, <2>2, RestoredSpeaks
  <2>5. QED
    BY <2>3, <2>4
<1>6. M \in Seq(Y)
  <2>1. PICK R : R = [t \in 1..turn |-> Restored(t)]
    BY Zenon
  <2>2. R \in Seq(Seq(Y))
    <3>1. R \in [1..turn -> Seq(Y)]
      BY ONLY <1>5, <2>1
    <3>2. QED
      BY ONLY <1>3, <3>1
  <2>3. QED
    BY <1>2, <2>1, <2>2, FlatTyped
<1>7. M \in Seq(Memories)
  BY <1>4, <1>6, SeqGrows
<1>8. \A i \in 1..Len(M) : M[i].type \in Heard /\ Len(M[i].text) > 0
  BY <1>4, <1>6
<1>9. IsNewestOf(M, M, MaxMemory)
  BY <1>7, <1>8, NewestSelf, TurnsAssumption
<1>10. Minding(M, M, Heard)
  BY <1>7, <1>8, <1>9 DEF Minding, Speaking
<1>11. Minding(Shortened(M), M, Heard)
  BY <1>1, <1>3, <1>7, <1>10, MindingCut
<1>12. PICK c : c = context'
  OBVIOUS
<1>13. c = Shortened(M)
  BY <1>1, <1>2, <1>12 DEF Shortened
<1>14. Heard' = Heard /\ (\A t \in Turns : FullItems(stored'[t])) /\ FullItems(messages')
  BY <1>1 DEF Heard, MindInv
<1>15. QED
  BY <1>1, <1>2, <1>11, <1>12, <1>13, <1>14 DEF MindInv

LEMMA MindKept ==
  ASSUME TurnsInv, MindInv, [TurnsNext]_turnVars
  PROVE  MindInv'
<1>1. TurnsOK
  BY DEF TurnsInv
<1>2. CASE \E early \in BOOLEAN : BeginTurn(early)
  BY <1>1, <1>2, MindBegins
<1>3. CASE Delta
  BY <1>3, MindRests DEF Delta
<1>4. CASE ToolUsed
  BY <1>4, MindRests DEF ToolUsed, loop
<1>5. CASE ToolEnded
  BY <1>5, MindRests DEF ToolEnded, loop
<1>6. CASE Finished
  BY <1>6, MindRests DEF Finished, loop
<1>7. CASE ResultFailed
  BY <1>7, MindRests DEF ResultFailed, loop
<1>8. CASE QueryEnded
  BY <1>8, MindRests DEF QueryEnded, loop
<1>9. CASE Broken
  BY <1>9, MindRests DEF Broken, loop
<1>10. CASE \E erred \in BOOLEAN : MessageEnded(erred)
  BY <1>10, MindRests DEF MessageEnded, loop
<1>11. CASE Cancel
  BY <1>11, MindRests DEF Cancel, loop
<1>12. CASE Take
  BY <1>12, MindTakes
<1>13. CASE Drain
  BY <1>13, MindRests DEF Drain, loop
<1>14. CASE Leave
  BY <1>14, MindLeaves
<1>15. CASE Reopen
  BY <1>15, MindReopens
<1>16. CASE UNCHANGED turnVars
  BY <1>16, MindRests DEF turnVars
<1>17. QED
  BY <1>2, <1>3, <1>4, <1>5, <1>6, <1>7, <1>8, <1>9, <1>10, <1>11, <1>12, <1>13, <1>14, <1>15, <1>16
     DEF TurnsNext

\* What the loop promises of each turn that is over.
LEMMA TurnsKept ==
  ASSUME TurnsInv, MindInv
  PROVE  WordsAreKept
<1>1. SUFFICES ASSUME pc = "idle", NEW t \in 1..turn
               PROVE  /\ IsPrefix(Texts(stored[t]), said[t])
                      /\ status[t] = "completed" => Texts(stored[t]) = said[t]
                      /\ backend # "pi" =>
                           /\ IsPrefix(Spoken(Texts(stored[t])), Spoken(Texts(RememberedOf(t))))
                           /\ IsPrefix(Spoken(Texts(RememberedOf(t))), Words(t))
                           /\ t \in started =>
                                \E i \in DOMAIN memory : memory[i].turn = t /\ memory[i].type = "user"
                           /\ IsNewestOf(context, memory, MaxMemory)
  BY DEF WordsAreKept
<1>2. TurnsOK /\ Filed /\ (backend # "pi" => Minds)
  BY DEF TurnsInv
<1>3. t \in Turns /\ Done(t)
  BY <1>1, <1>2, TurnsAssumption DEF TurnsOK, Turns, Done
<1>4. Spoken(Texts(RememberedOf(t))) = Mind(memory, t)
  BY Zenon DEF RememberedOf, Recall, Mind
<1>5. IsPrefix(Texts(stored[t]), said[t]) /\ (status[t] = "completed" => Texts(stored[t]) = said[t])
  BY <1>2, <1>3 DEF Filed
<1>6. backend # "pi" =>
        /\ IsPrefix(Spoken(Texts(stored[t])), Mind(memory, t)) /\ IsPrefix(Mind(memory, t), Words(t))
        /\ t \in started => \E i \in DOMAIN memory : memory[i].turn = t /\ memory[i].type = "user"
  BY <1>2, <1>3 DEF Minds
<1>7. backend # "pi" => IsNewestOf(context, memory, MaxMemory)
  BY DEF MindInv, Minding
<1>8. QED
  BY <1>4, <1>5, <1>6, <1>7

(* The words of a model: what the file has of a turn is a beginning of     *)
(* what the model said, all of it when the run completed; an agent is      *)
(* given to remember no less than the file has and no more than was said,  *)
(* and remembers the newest of it up to its limit, whenever it is cut,     *)
(* through cancels, failures, lost saves and new backends (RunTranscript,  *)
(* conversation, history, restoreHistory, restoreTextHistory).             *)
THEOREM WordsStay == TurnsSpec => []WordsAreKept
<1>1. TurnsInit => TurnsInv /\ MindInv
  BY TurnsStart, MindStarts
<1>2. TurnsInv /\ [TurnsNext]_turnVars => TurnsInv'
  <2>1. SUFFICES ASSUME TurnsInv, [TurnsNext]_turnVars PROVE TurnsInv'
    OBVIOUS
  <2>2. CASE \E early \in BOOLEAN : BeginTurn(early)
    BY <2>1, <2>2, TurnBeginKeeps
  <2>3. CASE Delta
    BY <2>1, <2>3, DeltaKeeps
  <2>4. CASE ToolUsed
    BY <2>1, <2>4, ToolUsedKeeps
  <2>5. CASE ToolEnded
    BY <2>1, <2>5, ToolEndedKeeps
  <2>6. CASE Finished
    BY <2>1, <2>6, FinishedKeeps
  <2>7. CASE ResultFailed
    BY <2>1, <2>7, ResultFailedKeeps
  <2>8. CASE QueryEnded
    BY <2>1, <2>8, QueryEndedKeeps
  <2>9. CASE Broken
    BY <2>1, <2>9, BrokenKeeps
  <2>10. CASE \E erred \in BOOLEAN : MessageEnded(erred)
    BY <2>1, <2>10, MessageEndedKeeps
  <2>11. CASE Cancel
    BY <2>1, <2>11, CancelKeeps
  <2>12. CASE Take
    BY <2>1, <2>12, TakeKeeps
  <2>13. CASE Drain
    BY <2>1, <2>13, DrainedKeeps
  <2>14. CASE Leave
    BY <2>1, <2>14, LeaveKeeps
  <2>15. CASE Reopen
    BY <2>1, <2>15, ReopenKeeps
  <2>16. CASE UNCHANGED turnVars
    BY <2>1, <2>16, TurnsStutter
  <2>17. QED
    BY <2>1, <2>2, <2>3, <2>4, <2>5, <2>6, <2>7, <2>8, <2>9, <2>10, <2>11, <2>12, <2>13,
       <2>14, <2>15, <2>16 DEF TurnsNext
<1>3. TurnsInv /\ MindInv /\ [TurnsNext]_turnVars => MindInv'
  BY MindKept
<1>4. TurnsInv /\ MindInv => WordsAreKept
  BY TurnsKept
<1>5. QED
  BY <1>1, <1>2, <1>3, <1>4, PTL DEF TurnsSpec
=============================================================================
