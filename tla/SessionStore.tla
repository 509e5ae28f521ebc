---------------------------- MODULE SessionStore ----------------------------
(***************************************************************************)
(* The mutations of one stored session (mutateSession under appendMessages,*)
(* updateSessionConfig, archiveSession, flagSession and markSessionRead)   *)
(* and deleteSessionSafely, over the persistence queue of SnapshotQueue.   *)
(* Another program may edit the metadata of the header, and the process    *)
(* may end at any moment.                                                  *)
(***************************************************************************)
EXTENDS Naturals, Sequences

CONSTANTS
  Op,        \* mutation calls
  Field,     \* metadata fields of the header
  MaxEdits,  \* bound on the edits made by another program
  NoField, NoSnapshot, NoMeta

Meta == [Field -> BOOLEAN]

ASSUME StoreAssumption ==
  /\ Field # {} /\ NoField \notin Field
  /\ MaxEdits \in Nat
  /\ NoMeta \notin Meta
  /\ NoSnapshot \notin [meta : Meta, body : Seq(Op)]

VARIABLES
  file, pending, writes, step, sig, failed, result,  \* see SnapshotQueue
  op,        \* the mutations
  chain,     \* mutations: promises chained per session, oldest first
  removal,   \* deleteSessionSafely
  edits,     \* number of edits made by another program
  compared   \* history: edits made when the header was last compared

store == <<op, chain, removal, edits, compared>>
vars == <<file, pending, writes, step, sig, failed, result, op, chain, removal, edits, compared>>

Queue == INSTANCE SnapshotQueue WITH Body <- Seq(Op), Caller <- Op

OpPc == {"new", "queued", "saving", "done", "failed", "gone", "refused", "lost"}

TypeOK ==
  /\ Queue!QueueTypeOK
  /\ op \in [Op -> [pc : OpPc, field : Field \cup {NoField}, value : BOOLEAN, seen : 0..MaxEdits]]
  /\ chain \in Seq(Op)
  /\ removal \in {"none", "draining", "waiting"}
  /\ edits \in 0..MaxEdits
  /\ compared \in 0..MaxEdits

-----------------------------------------------------------------------------
(* mutateSession *)

Call(o, f, v) ==
  /\ op[o].pc = "new" /\ removal = "none"
  /\ f = NoField => v = FALSE
  /\ op' = [op EXCEPT ![o] = [pc |-> "queued", field |-> f, value |-> v, seen |-> edits]]
  /\ chain' = Append(chain, o)
  /\ UNCHANGED <<file, pending, writes, step, sig, failed, result, removal, edits, compared>>

\* The session is being deleted.
CallRefused(o) ==
  /\ op[o].pc = "new" /\ removal # "none"
  /\ op' = [op EXCEPT ![o].pc = "refused"]
  /\ UNCHANGED <<file, pending, writes, step, sig, failed, result, chain, removal, edits, compared>>

\* Variant with a fault: the read does not wait for the mutation before it.
TurnAtOnce(o) == op[o].pc = "queued" /\ chain # <<>>

\* The mutation before it in the chain has settled.
Turn(o) == op[o].pc = "queued" /\ chain # <<>> /\ Head(chain) = o

\* The mutation itself: a flag is set, or a message appended.
Mutated(o, s) ==
  IF op[o].field = NoField
  THEN [s EXCEPT !.body = Append(@, o)]
  ELSE [s EXCEPT !.meta[op[o].field] = op[o].value]

\* load, mutate, enqueue and flush: one synchronous block.
Begin(o) ==
  /\ Turn(o) /\ file # NoSnapshot
  /\ Queue!Save(Mutated(o, file), o)
  /\ op' = [op EXCEPT ![o].pc = "saving"]
  /\ UNCHANGED <<chain, removal, edits, compared>>

Gone(o) ==
  /\ Turn(o) /\ file = NoSnapshot
  /\ op' = [op EXCEPT ![o].pc = "gone"]
  /\ chain' = Tail(chain)
  /\ UNCHANGED <<file, pending, writes, step, sig, failed, result, removal, edits, compared>>

Outcome(o) == IF result[o] = "ok" THEN "done" ELSE "failed"

Return(o) ==
  /\ op[o].pc = "saving" /\ result[o] # "waiting" /\ chain # <<>>
  /\ op' = [op EXCEPT ![o].pc = Outcome(o)]
  /\ chain' = Tail(chain)
  /\ UNCHANGED <<file, pending, writes, step, sig, failed, result, removal, edits, compared>>

-----------------------------------------------------------------------------
(* deleteSessionSafely *)

RemoveBegin ==
  /\ removal = "none"
  /\ removal' = "draining"
  /\ UNCHANGED <<file, pending, writes, step, sig, failed, result, op, chain, edits, compared>>

\* The last mutation of the chain has settled; new ones are refused.
Drained == chain = <<>>

RemoveDrained ==
  /\ removal = "draining" /\ Drained
  /\ Queue!Cancel
  /\ removal' = "waiting"
  /\ UNCHANGED <<file, writes, step, result, op, chain, edits, compared>>

RemoveDone ==
  /\ removal = "waiting" /\ writes = <<>>
  /\ Queue!Delete
  /\ removal' = "none"
  /\ UNCHANGED <<op, chain, edits, compared>>

\* rmSync throws, perhaps after it removed the file.
RemoveFailed ==
  /\ removal = "waiting" /\ writes = <<>>
  /\ Queue!Cancel
  /\ file' \in {file, NoSnapshot}
  /\ removal' = "none"
  /\ UNCHANGED <<writes, step, result, op, chain, edits, compared>>

-----------------------------------------------------------------------------
(* The rest of the world *)

WriteStep ==
  /\ Queue!WriteStep
  /\ compared' = IF step = "mkdir" /\ step' = "temp" THEN edits ELSE compared
  /\ UNCHANGED <<op, chain, removal, edits>>

Edit(m) ==
  /\ edits < MaxEdits /\ file # NoSnapshot /\ m # file.meta
  /\ file' = [file EXCEPT !.meta = m]
  /\ edits' = edits + 1
  /\ UNCHANGED <<pending, writes, step, sig, failed, result, op, chain, removal, compared>>

InProgress(o) == op[o].pc \in {"queued", "saving"}

Crash ==
  /\ Queue!Crash
  /\ op' = [o \in Op |-> IF InProgress(o) THEN [op[o] EXCEPT !.pc = "lost"] ELSE op[o]]
  /\ chain' = <<>>
  /\ removal' = "none"
  /\ UNCHANGED <<edits, compared>>

\* The session exists: this process wrote it, or it is older than the process.
Init ==
  /\ Queue!QueueInit
  /\ file \in [meta : Meta, body : {<<>>}]
  /\ sig \in {NoMeta, file.meta}
  /\ op = [o \in Op |-> [pc |-> "new", field |-> NoField, value |-> FALSE, seen |-> 0]]
  /\ chain = <<>>
  /\ removal = "none"
  /\ edits = 0
  /\ compared = 0

OpStep(o) == Begin(o) \/ Gone(o) \/ Return(o)

\* Variant with a fault: deleteSession instead of deleteSessionSafely.
RemoveUnsafely ==
  /\ removal = "draining"
  /\ Queue!Delete
  /\ removal' = "none"
  /\ UNCHANGED <<op, chain, edits, compared>>

RemoveStep == RemoveDrained \/ RemoveDone \/ RemoveFailed

Next ==
  \/ \E o \in Op :
       \/ \E f \in Field \cup {NoField}, v \in BOOLEAN : Call(o, f, v)
       \/ CallRefused(o)
       \/ OpStep(o)
  \/ RemoveBegin \/ RemoveStep
  \/ WriteStep
  \/ \E m \in Meta : Edit(m)
  \/ Crash

Spec == Init /\ [][Next]_vars

\* File system calls settle and promises continue.
FairSpec ==
  /\ Spec
  /\ \A o \in Op : WF_vars(OpStep(o))
  /\ WF_vars(RemoveStep)
  /\ WF_vars(WriteStep)

-----------------------------------------------------------------------------
(* The promise to the callers *)

\* What SessionFile calls the state of a mutation: it takes effect when its
\* snapshot is renamed over the file.
Effective(o) ==
  op[o].pc = "saving" /\
    (result[o] = "ok" \/ (step = "renamed" /\ o \in Head(writes).waiters))

FileState ==
  [o \in Op |->
    [pc |-> IF Effective(o) THEN "effective" ELSE IF InProgress(o) THEN "waiting" ELSE op[o].pc,
     field |-> op[o].field, value |-> op[o].value]]

Abstract == INSTANCE SessionFile WITH content <- file, state <- FileState, order <- chain,
                                        edited <- edits > 0

\* The store behaves as one atomic file: no acknowledged change is lost to a
\* concurrent one, a failed one leaves no trace, and the order of the calls is
\* the order of the effects.  After an edit by another program this is still
\* so for the messages.
ActsAsOneFile == Abstract!Spec

-----------------------------------------------------------------------------
(* Edits by another program, deletion, progress *)

\* A session that was deleted is not brought back by a write that was under
\* way or a mutation that was queued.
NeverRevived == [][file = NoSnapshot => file' = NoSnapshot]_vars

\* The file is about to be replaced, or was, by an append, which is not meant
\* to change the metadata.
RenamesAppend ==
  step = "rename" /\ step' = "renamed" /\ \A o \in Head(writes).waiters : op[o].field = NoField

\* An append keeps what another program wrote into the header, if that was
\* before the header was compared and differs from what this process, which
\* had written the file before, last wrote.
ComparedEditsAreKept ==
  [][RenamesAppend /\ compared = edits /\ sig # NoMeta /\ file.meta # sig =>
       file'.meta = file.meta]_vars

\* Every mutation is answered, and every deletion ends.
MutationsReturn ==
  /\ \A o \in Op : InProgress(o) ~> ~InProgress(o)
  /\ removal # "none" ~> removal = "none"

(* What a comment says *)

\* storage.ts:225 says that archiving flips the flag: when the save of a
\* change succeeds, and nobody edited the header since it was called, the
\* file has the change.
ChangeIsStored ==
  [][step = "rename" /\ step' = "renamed" =>
       \A o \in Head(writes).waiters :
         op[o].field # NoField /\ op[o].seen = edits =>
           file'.meta[op[o].field] = op[o].value]_vars

=============================================================================
