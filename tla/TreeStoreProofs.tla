---------------------------- MODULE TreeStoreProofs ---------------------------
(***************************************************************************)
(* Proof that TreeTensor implements PathStore when clients keep all of the *)
(* rules: every interleaving of steps is, to them, a sequence of whole     *)
(* calls on a map of paths.                                                *)
(***************************************************************************)
EXTENDS TreeTensorProofs

-----------------------------------------------------------------------------
(* The inductive invariant *)

(* No write overlaps an embed of the node or of one below it.              *)
WritesApart ==
  \A t, u \in Thread :
    t # u /\ pc[t] # "idle" /\ pc[u] # "idle" => ~Clash("no_write_during_embed", op[t], op[u])

(* A call has its answer exactly when it is about to return.               *)
AnswersOK ==
  /\ reply \in [Thread -> Optional(Answers)]
  /\ \A t \in Thread :
       /\ pc[t] = "return" <=> reply[t] # Nil
       /\ pc[t] = "idle" => op[t] = Idle
       /\ pc[t] = "read" => op[t].kind = "get"

(* An embed works towards the path it was asked for, and once it has seen  *)
(* that path, it and the ancestors still to embed are there until the end. *)
AncestorsAt(t) ==
  op[t].kind = "embed_existing" /\ pc[t] # "return" =>
    /\ Last(frames[t]) = op[t].path
    /\ pc[t] # "embed_check" \/ Len(frames[t]) > 1 =>
         \A i \in 1 .. Len(frames[t]) : pathMap[frames[t][i]] # Nil

(* What an embed has copied is what the node still says.                   *)
CopyAt(t) ==
  op[t].kind = "embed_existing" /\ pc[t] \in Placing =>
    DataOf(ownId[t]) = [val |-> copy[t].val, sem |-> copy[t].sem]

(* The node that is about to be published says what the call asks for, or  *)
(* what the embed has copied so far.                                       *)
NewAt(t) ==
  pc[t] \in Made =>
    /\ op[t].kind \in Inserts => DataOf(newId[t]) = FreshData(op[t].arg)
    /\ op[t].kind = "embed_existing" =>
         DataOf(newId[t]) =
           [val |-> copy[t].val,
            sem |-> IF pc[t] \in {"link", "copy_coords"} THEN NoCoord ELSE copy[t].sem]

StoreInv ==
  /\ MapsInv /\ WritesApart /\ AnswersOK
  /\ \A t \in Thread : AncestorsAt(t) /\ CopyAt(t) /\ NewAt(t)

-----------------------------------------------------------------------------
(* Steps of a call in progress *)

Acts(t) == InsertStep(t) \/ EmbedStep(t) \/ DeleteStep(t) \/ Write(t) \/ Read(t)

(* A step goes on, or gives the answer.                                    *)
Continues(t) == pc'[t] \notin {"idle", "return", "read"} /\ reply' = reply
Answering(t) == pc'[t] = "return" /\ \E a \in Answers : reply' = [reply EXCEPT ![t] = a]

Alike(u) == Same(u) /\ copy'[u] = copy[u] /\ reply'[u] = reply[u]

LEMMA Typed ==
  ASSUME StoreInv
  PROVE  /\ TreeInv /\ TypeOK /\ Calls /\ Chosen /\ MapsInv /\ AnswersOK
         /\ pc \in [Thread -> Step] /\ op \in [Thread -> Request \cup {Idle}]
         /\ frames \in [Thread -> Seq(Path)] /\ held \in [Thread -> SUBSET LockKey]
         /\ parentId \in [Thread -> Optional(Id)] /\ ownId \in [Thread -> Optional(Id)]
         /\ newId \in [Thread -> Optional(Id)] /\ copy \in [Thread -> Optional(Node)]
         /\ reply \in [Thread -> Optional(Answers)] /\ pathMap \in [Path -> Optional(Id)]
         /\ \A id \in DOMAIN nodes : id \in Id /\ id # Nil /\ nodes[id] \in Node
  BY Locals, NilAssumption DEF StoreInv, MapsInv, TreeInv, TypeOK, AnswersOK

(* What a node says is data.                                               *)
LEMMA DataType ==
  ASSUME StoreInv, NEW id \in DOMAIN nodes
  PROVE  DataOf(id) \in Data /\ DataOf(id) # Nil
  BY Typed, NodeFacts, AnswerAssumption DEF DataOf, Data

LEMMA OutcomeAnswers == \A r \in Outcome : <<r>> \in Answers /\ <<r>> # Nil
  BY AnswerAssumption DEF Answers

LEMMA AnswerGiven ==
  ASSUME StoreInv, NEW t \in Thread, NEW r \in Outcome, Answer(t, r)
  PROVE  Answering(t)
  BY Typed, OutcomeAnswers DEF Answer, Goto, Answering

(* A step of a call leaves the others alone; it goes on, or answers.       *)
LEMMA Goes ==
  ASSUME StoreInv, NEW t \in Thread, Acts(t)
  PROVE  /\ pc[t] \notin {"idle", "return"} /\ op' = op
         /\ Continues(t) \/ Answering(t)
         /\ \A u \in Thread \ {t} : Alike(u)
  <1> USE Typed DEF Goto
  <1>1. CASE InsertStep(t)
    <2>1. CASE Check(t)
      <3>1. pc[t] \notin {"idle", "return"} /\ op' = op /\ \A u \in Thread \ {t} : Alike(u)
        BY <2>1 DEF Check, Answer, Alike, Same, local
      <3>2. Continues(t) \/ Answering(t)
        BY <2>1, AnswerGiven DEF Check, Continues, Outcome
      <3>3. QED
        BY <3>1, <3>2
    <2>2. CASE Resolve(t)
      <3>1. pc[t] \notin {"idle", "return"} /\ op' = op /\ \A u \in Thread \ {t} : Alike(u)
        BY <2>2 DEF Resolve, Answer, Alike, Same, local
      <3>2. Continues(t) \/ Answering(t)
        BY <2>2, AnswerGiven DEF Resolve, Continues, Outcome
      <3>3. QED
        BY <3>1, <3>2
    <2>3. CASE Lock(t)
      BY <2>3 DEF Lock, Stripes!Acquire, Alike, Same, local, Continues
    <2>4. CASE Recheck(t)
      <3>1. pc[t] \notin {"idle", "return"} /\ op' = op /\ \A u \in Thread \ {t} : Alike(u)
        BY <2>4 DEF Recheck, Answer, Alike, Same, local
      <3>2. Continues(t) \/ Answering(t)
        BY <2>4, AnswerGiven DEF Recheck, Continues, Outcome
      <3>3. QED
        BY <3>1, <3>2
    <2>5. CASE StoreStub(t)
      BY <2>5 DEF StoreStub, Alike, Same, local, Continues
    <2>6. CASE Place(t)
      <3>1. pc[t] \notin {"idle", "return"} /\ op' = op /\ \A u \in Thread \ {t} : Alike(u)
        BY <2>6 DEF Place, Answer, Alike, Same, local
      <3>2. Continues(t) \/ Answering(t)
        BY <2>6, AnswerGiven DEF Place, Continues, Outcome
      <3>3. QED
        BY <3>1, <3>2
    <2>7. CASE Register(t)
      BY <2>7 DEF Register, Alike, Same, local, Continues
    <2>8. CASE Link(t)
      BY <2>8 DEF Link, Alike, Same, local, Continues
    <2>9. CASE RecordPath(t)
      BY <2>9 DEF RecordPath, Alike, Same, local, Continues
    <2>10. CASE Publish(t)
      <3>1. pc[t] \notin {"idle", "return"} /\ op' = op /\ \A u \in Thread \ {t} : Alike(u)
        BY <2>10 DEF Publish, Answer, Alike, Same, local
      <3>2. Continues(t) \/ Answering(t)
        BY <2>10, AnswerGiven DEF Publish, Continues, Outcome
      <3>3. QED
        BY <3>1, <3>2
    <2>11. QED
      BY <1>1, <2>1, <2>2, <2>3, <2>4, <2>5, <2>6, <2>7, <2>8, <2>9, <2>10 DEF InsertStep
  <1>2. CASE EmbedStep(t)
    <2>1. CASE EmbedCheck(t)
      <3>1. pc[t] \notin {"idle", "return"} /\ op' = op /\ \A u \in Thread \ {t} : Alike(u)
        BY <2>1 DEF EmbedCheck, Answer, FrameDone, Alike, Same, local
      <3>2. Continues(t) \/ Answering(t)
        BY <2>1, AnswerGiven DEF EmbedCheck, FrameDone, Continues, Outcome
      <3>3. QED
        BY <3>1, <3>2
    <2>2. CASE EmbedResolve(t)
      <3>1. pc[t] \notin {"idle", "return"} /\ op' = op /\ \A u \in Thread \ {t} : Alike(u)
        BY <2>2 DEF EmbedResolve, Answer, Alike, Same, local
      <3>2. Continues(t) \/ Answering(t)
        BY <2>2, AnswerGiven DEF EmbedResolve, Continues, Outcome
      <3>3. QED
        BY <3>1, <3>2
    <2>3. CASE EmbedLock(t)
      BY <2>3 DEF EmbedLock, Stripes!Acquire, Alike, Same, local, Continues
    <2>4. CASE EmbedRecheck(t)
      <3>1. pc[t] \notin {"idle", "return"} /\ op' = op /\ \A u \in Thread \ {t} : Alike(u)
        BY <2>4 DEF EmbedRecheck, Answer, FrameDone, Alike, Same, local
      <3>2. Continues(t) \/ Answering(t)
        BY <2>4, AnswerGiven DEF EmbedRecheck, FrameDone, Continues, Outcome
      <3>3. QED
        BY <3>1, <3>2
    <2>5. CASE Snapshot(t)
      <3>1. pc[t] \notin {"idle", "return"} /\ op' = op /\ \A u \in Thread \ {t} : Alike(u)
        BY <2>5 DEF Snapshot, Answer, Alike, Same, local
      <3>2. Continues(t) \/ Answering(t)
        BY <2>5, AnswerGiven DEF Snapshot, Continues, Outcome
      <3>3. QED
        BY <3>1, <3>2
    <2>6. CASE CopyCoords(t)
      BY <2>6 DEF CopyCoords, Alike, Same, local, Continues
    <2>7. CASE Forget(t)
      BY <2>7 DEF Forget, Alike, Same, local, Continues
    <2>8. CASE Retire(t)
      <3>1. pc[t] \notin {"idle", "return"} /\ op' = op /\ \A u \in Thread \ {t} : Alike(u)
        BY <2>8 DEF Retire, Answer, FrameDone, Alike, Same, local
      <3>2. Continues(t) \/ Answering(t)
        BY <2>8, AnswerGiven DEF Retire, FrameDone, Continues, Outcome
      <3>3. QED
        BY <3>1, <3>2
    <2>9. QED
      BY <1>2, <2>1, <2>2, <2>3, <2>4, <2>5, <2>6, <2>7, <2>8 DEF EmbedStep
  <1>3. CASE DeleteStep(t)
    <2>1. CASE DeleteRead(t)
      <3>1. pc[t] \notin {"idle", "return"} /\ op' = op /\ \A u \in Thread \ {t} : Alike(u)
        BY <2>1 DEF DeleteRead, Answer, Alike, Same, local
      <3>2. Continues(t) \/ Answering(t)
        BY <2>1, AnswerGiven DEF DeleteRead, Continues, Outcome
      <3>3. QED
        BY <3>1, <3>2
    <2>2. CASE DeleteParent(t)
      BY <2>2 DEF DeleteParent, Alike, Same, local, Continues
    <2>3. CASE DeleteLock(t)
      BY <2>3 DEF DeleteLock, Stripes!Acquire, Alike, Same, local, Continues
    <2>4. CASE DeleteCheck(t)
      <3>1. pc[t] \notin {"idle", "return"} /\ op' = op /\ \A u \in Thread \ {t} : Alike(u)
        BY <2>4 DEF DeleteCheck, Answer, Alike, Same, local
      <3>2. Continues(t) \/ Answering(t)
        BY <2>4, AnswerGiven DEF DeleteCheck, Continues, Outcome
      <3>3. QED
        BY <3>1, <3>2
    <2>5. CASE Unmap(t)
      <3>1. pc[t] \notin {"idle", "return"} /\ op' = op /\ \A u \in Thread \ {t} : Alike(u)
        BY <2>5 DEF Unmap, Answer, Alike, Same, local
      <3>2. Continues(t) \/ Answering(t)
        BY <2>5, AnswerGiven DEF Unmap, Continues, Outcome
      <3>3. QED
        BY <3>1, <3>2
    <2>6. CASE DeleteForget(t)
      BY <2>6 DEF DeleteForget, Alike, Same, local, Continues
    <2>7. CASE Unregister(t)
      BY <2>7 DEF Unregister, Alike, Same, local, Continues
    <2>8. CASE Unlink(t)
      <3>1. pc[t] \notin {"idle", "return"} /\ op' = op /\ \A u \in Thread \ {t} : Alike(u)
        BY <2>8 DEF Unlink, Answer, Alike, Same, local
      <3>2. Continues(t) \/ Answering(t)
        BY <2>8, AnswerGiven DEF Unlink, Continues, Outcome
      <3>3. QED
        BY <3>1, <3>2
    <2>9. QED
      BY <1>3, <2>1, <2>2, <2>3, <2>4, <2>5, <2>6, <2>7, <2>8 DEF DeleteStep
  <1>4. CASE Write(t) \/ Read(t)
    <2>1. CASE Write(t)
      <3>1. pc[t] \notin {"idle", "return"} /\ op' = op /\ \A u \in Thread \ {t} : Alike(u)
        BY <2>1 DEF Write, Answer, Alike, Same, local
      <3>2. Continues(t) \/ Answering(t)
        BY <2>1, AnswerGiven DEF Write, Continues, Outcome
      <3>3. QED
        BY <3>1, <3>2
    <2>2. CASE Read(t)
      <3>1. pc[t] \notin {"idle", "return"} /\ op' = op /\ \A u \in Thread \ {t} : Alike(u)
        BY <2>2 DEF Read, Answer, Alike, Same, local
      <3>2. Continues(t) \/ Answering(t)
        <4> DEFINE id == pathMap[op[t].path]
        <4>1. CASE Answer(t, "not_found")
          BY <4>1, AnswerGiven DEF Outcome
        <4>2. CASE id \in DOMAIN nodes /\ pc' = [pc EXCEPT ![t] = "return"]
                     /\ reply' = [reply EXCEPT ![t] = <<"data", DataOf(id)>>]
          <5>1. <<"data", DataOf(id)>> \in Answers
            BY <4>2, DataType DEF Answers
          <5>2. QED
            BY <4>2, <5>1 DEF Answering
        <4>3. QED
          BY <2>2, <4>1, <4>2 DEF Read
      <3>3. QED
        BY <3>1, <3>2
    <2>3. QED
      BY <1>4, <2>1, <2>2
  <1>5. QED
    BY <1>1, <1>2, <1>3, <1>4 DEF Acts

(* So answers stay as they should be, and the calls apart.                 *)
LEMMA CallsGo ==
  ASSUME StoreInv, NEW t \in Thread, Acts(t)
  PROVE  AnswersOK' /\ WritesApart'
  <1>1. /\ pc[t] \notin {"idle", "return"} /\ op' = op
        /\ Continues(t) \/ Answering(t)
        /\ \A u \in Thread \ {t} : pc'[u] = pc[u] /\ reply'[u] = reply[u]
    BY Goes DEF Alike, Same
  <1>2. AnswersOK'
    <2>1. CASE Continues(t)
      BY <1>1, <2>1 DEF Continues, StoreInv, AnswersOK
    <2>2. CASE Answering(t)
      <3>1. PICK a \in Answers : reply' = [reply EXCEPT ![t] = a]
        BY <2>2 DEF Answering
      <3>2. reply' \in [Thread -> Optional(Answers)] /\ reply'[t] # Nil
        BY <3>1, Typed, AnswerAssumption DEF Optional
      <3>3. QED
        BY <1>1, <2>2, <3>2 DEF Answering, StoreInv, AnswersOK
    <2>3. QED
      BY <1>1, <2>1, <2>2
  <1>3. WritesApart'
    BY <1>1 DEF StoreInv, WritesApart
  <1>4. QED
    BY <1>2, <1>3

LEMMA CallsBegin ==
  ASSUME StoreInv, Rules \subseteq Discipline, NEW t \in Thread, NEW o \in Request, Begin(t, o)
  PROVE  /\ AnswersOK' /\ WritesApart'
         /\ \A u \in Thread : AncestorsAt(u)' /\ CopyAt(u)' /\ NewAt(u)'
  <1>1. /\ pc[t] = "idle" /\ pc'[t] \notin {"idle", "return"} \cup Placing
        /\ \A u \in Thread \ {t} : Alike(u)
        /\ op'[t] = o /\ reply' = reply /\ pathMap' = pathMap /\ nodes' = nodes
        /\ pc'[t] = "read" => o.kind = "get"
    <2>1. o.kind \in CallKind
      BY RequestFacts
    <2>2. /\ FirstStep(o.kind) \notin {"idle", "return"} \cup Placing
          /\ FirstStep(o.kind) = "read" => o.kind = "get"
      BY <2>1 DEF FirstStep, CallKind, Inserts, Writes, Placing
    <2>3. QED
      BY <2>2, Typed DEF Begin, Goto, shared, Alike, Same
  <1>2. "no_write_during_embed" \in Discipline
    BY DEF Rules
  <1>3. \A u \in Thread \ {t} : pc[u] # "idle" =>
          /\ ~Clash("no_write_during_embed", o, op[u])
          /\ ~Clash("no_write_during_embed", op[u], o)
    BY <1>2, Zenon DEF Begin, MayCall
  <1>4. WritesApart'
    BY <1>1, <1>3 DEF StoreInv, WritesApart, Alike, Same
  <1>5. AnswersOK'
    BY <1>1 DEF StoreInv, AnswersOK, Alike, Same
  <1>6. CopyAt(t)' /\ NewAt(t)'
    BY <1>1 DEF CopyAt, NewAt, Made, Slotted, Placing
  <1>7. AncestorsAt(t)'
    <2>1. CASE o.kind = "embed_existing"
      <3>1. pc'[t] = "embed_check" /\ frames'[t] = <<o.path>>
        <4>1. FirstStep(o.kind) = "embed_check"
          BY <2>1 DEF FirstStep, Inserts, Writes
        <4>2. frames' = [frames EXCEPT ![t] = <<o.path>>]
          BY <2>1 DEF Begin
        <4>3. QED
          BY <4>1, <4>2, Typed DEF Begin, Goto
      <3>2. Len(<<o.path>>) = 1 /\ Last(<<o.path>>) = o.path
        BY DEF Last
      <3>3. QED
        BY <1>1, <3>1, <3>2 DEF AncestorsAt
    <2>2. CASE o.kind # "embed_existing"
      BY <1>1, <2>2 DEF AncestorsAt
    <2>3. QED
      BY <2>1, <2>2
  <1>8. ASSUME NEW u \in Thread \ {t} PROVE AncestorsAt(u)' /\ CopyAt(u)' /\ NewAt(u)'
    <2>1. AncestorsAt(u) /\ CopyAt(u) /\ NewAt(u) /\ Alike(u)
      BY <1>1 DEF StoreInv
    <2>2. QED
      BY <1>1, <2>1 DEF Alike, Same, AncestorsAt, CopyAt, NewAt, DataOf
  <1>9. QED
    BY <1>4, <1>5, <1>6, <1>7, <1>8

LEMMA CallsReturn ==
  ASSUME StoreInv, NEW t \in Thread, Return(t)
  PROVE  /\ AnswersOK' /\ WritesApart'
         /\ \A u \in Thread : AncestorsAt(u)' /\ CopyAt(u)' /\ NewAt(u)'
  <1>1. /\ pc'[t] = "idle" /\ op'[t] = Idle /\ reply'[t] = Nil
        /\ \A u \in Thread \ {t} : Alike(u)
        /\ pathMap' = pathMap /\ nodes' = nodes
    BY Typed DEF Return, Goto, shared, Alike, Same
  <1>2. reply' \in [Thread -> Optional(Answers)]
    BY Typed DEF Return, Optional
  <1>3. AnswersOK' /\ WritesApart'
    BY <1>1, <1>2 DEF StoreInv, AnswersOK, WritesApart, Alike, Same
  <1>4. ASSUME NEW u \in Thread PROVE AncestorsAt(u)' /\ CopyAt(u)' /\ NewAt(u)'
    <2>1. AncestorsAt(u) /\ CopyAt(u) /\ NewAt(u)
      BY DEF StoreInv
    <2>2. CASE u = t
      BY <1>1, <2>2 DEF AncestorsAt, CopyAt, NewAt, Idle, Made, Slotted, Placing
    <2>3. CASE u # t
      BY <1>1, <2>1, <2>3 DEF Alike, Same, AncestorsAt, CopyAt, NewAt, DataOf
    <2>4. QED
      BY <2>2, <2>3
  <1>5. QED
    BY <1>3, <1>4

-----------------------------------------------------------------------------
(* The ancestors an embed has before it *)

LEMMA PathMapChanges ==
  ASSUME NEW t \in Thread, Acts(t)
  PROVE  pathMap' = pathMap \/ Publish(t) \/ Unmap(t)
  BY DEF Acts, InsertStep, EmbedStep, DeleteStep, Check, Resolve, Lock, Recheck,
     StoreStub, Place, Register, Link, RecordPath, EmbedCheck, EmbedResolve, EmbedLock,
     EmbedRecheck, Snapshot, CopyCoords, Forget, Retire, Write, Read, DeleteRead, DeleteParent,
     DeleteLock, DeleteCheck, DeleteForget, Unregister, Unlink, shared

(* Only a delete takes a path away, and only its own.                      *)
LEMMA PathsStay ==
  ASSUME StoreInv, NEW t \in Thread, Acts(t), NEW p \in Path, pathMap[p] # Nil,
         pc[t] = "unmap" => p # op[t].path
  PROVE  pathMap'[p] # Nil
  <1>1. CASE pathMap' = pathMap
    BY <1>1
  <1>2. CASE Publish(t)
    BY <1>2, Typed, Publishes DEF Publish
  <1>3. CASE Unmap(t)
    BY <1>3, Typed DEF Unmap
  <1>4. QED
    BY <1>1, <1>2, <1>3, PathMapChanges

(* The frames of an embed.                                                 *)
LEMMA Frames ==
  ASSUME StoreInv, NEW t \in Thread, op[t].kind = "embed_existing", pc[t] # "return"
  PROVE  /\ frames[t] \in Seq(Path) /\ frames[t] # <<>> /\ Len(frames[t]) \in Nat \ {0}
         /\ Target(t) = frames[t][1] /\ frames[t][Len(frames[t])] = op[t].path
         /\ \A i \in 1 .. Len(frames[t]) :
              frames[t][i] \in Path /\ IsPrefix(frames[t][i], op[t].path)
         /\ op[t].path \in Path \ {Root} /\ Target(t) \in Path /\ pc[t] # "idle"
         /\ pc[t] # "embed_check" => Target(t) # Root
  <1>1. TreeInv /\ CallAt(t) /\ AncestorsAt(t) /\ AnswersOK
    BY DEF StoreInv, MapsInv, ThreadOK
  <1>2. frames[t] \in Seq(Path) /\ frames[t] # <<>>
    BY <1>1 DEF TreeInv, TypeOK, Calls
  <1>3. Len(frames[t]) \in Nat \ {0} /\ Head(frames[t]) = frames[t][1]
    BY <1>2, EmptySeq
  <1>4. \A i \in 1 .. Len(frames[t]) : frames[t][i] \in Path
    BY <1>2, ElementOfSeq
  <1>5. /\ op[t].path \in Path \ {Root} /\ Target(t) \in Path
        /\ pc[t] # "embed_check" => Target(t) # Root
    BY <1>1, Targets
  <1>6. pc[t] # "idle"
    BY <1>1 DEF AnswersOK, Idle
  <1>7. QED
    BY <1>1, <1>2, <1>3, <1>4, <1>5, <1>6 DEF AncestorsAt, Last, Target, CallAt, FramesAt

(* The path an embed is at, the one it was asked for, and their parents    *)
(* are there once it has looked.                                           *)
LEMMA EmbedSees ==
  ASSUME StoreInv, NEW t \in Thread, op[t].kind = "embed_existing", pc[t] # "return",
         pc[t] # "embed_check" \/ Len(frames[t]) > 1
  PROVE  pathMap[Target(t)] # Nil /\ pathMap[op[t].path] # Nil
  <1>1. \A i \in 1 .. Len(frames[t]) : pathMap[frames[t][i]] # Nil
    BY DEF StoreInv, AncestorsAt
  <1>2. QED
    BY <1>1, Frames

LEMMA ParentMapped ==
  ASSUME StoreInv, NEW p \in Path \ {Root}, pathMap[p] # Nil
  PROVE  parent_path(p) \in Path /\ pathMap[parent_path(p)] # Nil
  BY PathType DEF StoreInv, MapsInv, MapsOK, IdsOK, Mapped

(* A delete never takes away what an embed of another thread has seen.     *)
LEMMA AncestorsSeen ==
  ASSUME StoreInv, NEW t \in Thread, Acts(t), NEW u \in Thread \ {t}
  PROVE  AncestorsAt(u)'
  <1>1. AncestorsAt(u) /\ Same(u)
    BY Goes DEF StoreInv, Alike
  <1> SUFFICES ASSUME op[u].kind = "embed_existing", pc[u] # "return",
                      pc[u] # "embed_check" \/ Len(frames[u]) > 1,
                      NEW i \in 1 .. Len(frames[u])
               PROVE  pathMap'[frames[u][i]] # Nil
    BY <1>1 DEF AncestorsAt, Same
  <1>2. /\ frames[u][i] \in Path /\ IsPrefix(frames[u][i], op[u].path)
        /\ op[u].path \in Path /\ pc[u] # "idle"
    BY Frames
  <1>3. pathMap[frames[u][i]] # Nil
    BY <1>1 DEF AncestorsAt
  <1>4. ASSUME pc[t] = "unmap" PROVE frames[u][i] # op[t].path
    <2>1. op[t].kind = "delete" /\ pc[t] # "idle"
      BY <1>4, DeletePath DEF Deleting, StoreInv, MapsInv, ThreadOK
    <2>2. ~IsPrefix(op[t].path, op[u].path)
      BY <1>2, <2>1, Apart DEF StoreInv, MapsInv
    <2>3. QED
      BY <1>2, <2>2
  <1>5. QED
    BY <1>2, <1>3, <1>4, PathsStay

LEMMA OneLess ==
  ASSUME NEW n \in Nat, n # 0, n # 1
  PROVE  n > 1 /\ n - 1 \in 1 .. n - 1 /\ (n - 1) + 1 = n
  OBVIOUS

(* A frame that is done leaves the frames below it.                        *)
LEMMA AncestorsPop ==
  ASSUME StoreInv, NEW t \in Thread, Acts(t), op[t].kind = "embed_existing",
         pc[t] # "embed_check" \/ Len(frames[t]) > 1,
         frames' = [frames EXCEPT ![t] = Tail(@)], Len(frames[t]) # 1
  PROVE  AncestorsAt(t)'
  <1> DEFINE s == frames[t]
  <1>1. pc[t] # "return" /\ op' = op
    BY Goes
  <1>2. /\ s \in Seq(Path) /\ s # <<>> /\ Len(s) \in Nat \ {0}
        /\ \A i \in 1 .. Len(s) : s[i] \in Path
        /\ s[Len(s)] = op[t].path
    BY <1>1, Frames
  <1>3. \A i \in 1 .. Len(s) : pathMap[s[i]] # Nil
    BY <1>1 DEF StoreInv, AncestorsAt
  <1>4. /\ Len(Tail(s)) = Len(s) - 1
        /\ \A i \in 1 .. Len(Tail(s)) : Tail(s)[i] = s[i + 1]
    BY <1>2, HeadTailProperties
  <1>5. frames'[t] = Tail(s)
    BY Typed
  <1>6. pc[t] # "unmap"
    BY <1>1, DeletePath DEF Deleting, StoreInv, MapsInv, ThreadOK
  <1>7. ASSUME NEW i \in 1 .. Len(Tail(s)) PROVE pathMap'[Tail(s)[i]] # Nil
    <2>1. Tail(s)[i] = s[i + 1]
      BY <1>4
    <2>2. i \in 1 .. Len(s) - 1
      BY <1>4
    <2>3. i + 1 \in 1 .. Len(s)
      BY <1>2, <2>2
    <2>4. QED
      BY <1>2, <1>3, <1>6, <2>1, <2>3, PathsStay
  <1>8. Last(Tail(s)) = op[t].path
    <2>1. PICK n \in Nat : n = Len(s) /\ n # 0 /\ n # 1
      BY <1>2
    <2>2. Len(Tail(s)) = n - 1
      BY <1>4, <2>1, Zenon
    <2>3. n - 1 \in 1 .. n - 1 /\ (n - 1) + 1 = n
      BY <2>1, OneLess, Zenon
    <2>4. Tail(s)[n - 1] = s[n]
      BY <1>4, <2>2, <2>3, Zenon
    <2>5. QED
      BY <1>2, <2>1, <2>2, <2>4, Zenon DEF Last
  <1>9. QED
    BY <1>1, <1>5, <1>7, <1>8 DEF AncestorsAt

(* The parent of a path that is there is there.                            *)
LEMMA AncestorsPush ==
  ASSUME StoreInv, NEW t \in Thread, EmbedCheck(t), is_stub(pathMap[Target(t)]),
         pathMap[Target(t)] # Nil,
         frames' = [frames EXCEPT ![t] = <<parent_path(Target(t))>> \o @]
  PROVE  AncestorsAt(t)'
  <1> DEFINE s == frames[t]
  <1>1. pc[t] = "embed_check" /\ op[t].kind = "embed_existing" /\ op' = op /\ pathMap' = pathMap
    BY Typed DEF EmbedCheck, shared, Calls
  <1>2. /\ s \in Seq(Path) /\ s # <<>> /\ Len(s) \in Nat \ {0} /\ Target(t) = s[1]
        /\ \A i \in 1 .. Len(s) : s[i] \in Path
        /\ s[Len(s)] = op[t].path /\ Target(t) \in Path
    BY <1>1, Frames
  <1>3. \A i \in 1 .. Len(s) : pathMap[s[i]] # Nil
    <2>1. CASE Len(s) > 1
      BY <1>1, <2>1 DEF StoreInv, AncestorsAt
    <2>2. CASE Len(s) = 1
      BY <1>2, <2>2
    <2>3. QED
      BY <1>2, <2>1, <2>2
  <1>4. Target(t) # Root
    BY RootId DEF StoreInv, MapsInv, MapsOK, IdsOK
  <1>5. PICK q \in Path : q = parent_path(Target(t)) /\ pathMap[q] # Nil
    BY <1>2, <1>4, ParentMapped
  <1>6. /\ Len(<<q>> \o s) = 1 + Len(s)
        /\ (<<q>> \o s)[1] = q
        /\ \A i \in 2 .. 1 + Len(s) : (<<q>> \o s)[i] = s[i - 1]
    BY <1>2
  <1>7. frames'[t] = <<q>> \o s
    BY <1>5, Typed
  <1>8. ASSUME NEW i \in 1 .. 1 + Len(s) PROVE pathMap[(<<q>> \o s)[i]] # Nil
    <2>1. CASE i = 1
      BY <1>5, <1>6, <2>1
    <2>2. CASE i # 1
      <3>1. i \in 2 .. 1 + Len(s) /\ i - 1 \in 1 .. Len(s)
        BY <1>2, <2>2
      <3>2. QED
        BY <1>3, <1>6, <3>1
    <2>3. QED
      BY <2>1, <2>2
  <1>9. Last(<<q>> \o s) = op[t].path
    <2>1. 1 + Len(s) \in 2 .. 1 + Len(s) /\ (1 + Len(s)) - 1 = Len(s)
      BY <1>2
    <2>2. QED
      BY <1>2, <1>6, <2>1 DEF Last
  <1>10. QED
    BY <1>1, <1>6, <1>7, <1>8, <1>9 DEF AncestorsAt

LEMMA AncestorsKept ==
  ASSUME StoreInv, NEW t \in Thread, Acts(t), frames' = frames, pc'[t] # "return",
         op[t].kind = "embed_existing", pc[t] # "embed_check"
  PROVE  AncestorsAt(t)'
  <1>1. pc[t] # "return" /\ op' = op
    BY Goes
  <1>2. \A i \in 1 .. Len(frames[t]) : frames[t][i] \in Path /\ pathMap[frames[t][i]] # Nil
    BY <1>1, Frames DEF StoreInv, AncestorsAt
  <1>3. pc[t] # "unmap"
    BY <1>1, DeletePath DEF Deleting, StoreInv, MapsInv, ThreadOK
  <1>4. \A i \in 1 .. Len(frames[t]) : pathMap'[frames[t][i]] # Nil
    BY <1>2, <1>3, PathsStay
  <1>5. Last(frames[t]) = op[t].path
    BY <1>1 DEF StoreInv, AncestorsAt
  <1>6. QED
    BY <1>1, <1>4, <1>5 DEF AncestorsAt

(* The frames change in three steps only.                                  *)
LEMMA FramesChange ==
  ASSUME StoreInv, NEW t \in Thread, Acts(t)
  PROVE  \/ frames' = frames /\ pc[t] # "embed_check"
         \/ EmbedCheck(t) \/ EmbedRecheck(t) \/ Retire(t)
  BY DEF Acts, InsertStep, EmbedStep, DeleteStep, Check, Resolve, Lock, Recheck,
     StoreStub, Place, Register, Link, RecordPath, Publish, EmbedResolve, EmbedLock,
     Snapshot, CopyCoords, Forget, Write, Read, DeleteRead, DeleteParent,
     DeleteLock, DeleteCheck, Unmap, DeleteForget, Unregister, Unlink, local

LEMMA AncestorsGo ==
  ASSUME StoreInv, NEW t \in Thread, Acts(t)
  PROVE  AncestorsAt(t)'
  <1> SUFFICES ASSUME op[t].kind = "embed_existing", pc'[t] # "return" PROVE AncestorsAt(t)'
    BY Goes DEF AncestorsAt
  <1>1. pc[t] # "return"
    BY Goes
  <1>2. ASSUME FrameDone(t, "already") \/ FrameDone(t, "upgraded")
        PROVE  frames' = [frames EXCEPT ![t] = Tail(@)] /\ Len(frames[t]) # 1
    BY <1>2, Typed DEF FrameDone, Answer, Goto
  <1>3. Len(frames[t]) \in Nat \ {0}
    BY <1>1, Frames
  <1>4. CASE EmbedCheck(t)
    <2>1. CASE FrameDone(t, "already")
      <3>1. PICK n \in Nat : n = Len(frames[t]) /\ n # 0
        BY <1>3
      <3>2. frames' = [frames EXCEPT ![t] = Tail(@)] /\ n # 1
        BY <1>2, <2>1, <3>1
      <3>3. n > 1
        BY <3>1, <3>2, OneLess, Zenon
      <3>4. Len(frames[t]) > 1 /\ Len(frames[t]) # 1
        BY <3>1, <3>2, <3>3, Zenon
      <3>5. QED
        BY <3>2, <3>4, AncestorsPop
    <2>2. CASE Answer(t, "not_found")
      BY <2>2, Typed DEF Answer, Goto
    <2>3. QED
      BY <1>4, <2>1, <2>2, AncestorsPush DEF EmbedCheck
  <1>5. CASE EmbedRecheck(t) \/ Retire(t)
    <2>1. pc[t] # "embed_check"
      BY <1>5 DEF EmbedRecheck, Retire
    <2>2. CASE FrameDone(t, "already") \/ FrameDone(t, "upgraded")
      BY <1>2, <2>1, <2>2, AncestorsPop
    <2>3. CASE frames' = frames
      BY <2>1, <2>3, AncestorsKept
    <2>4. QED
      BY <1>5, <2>2, <2>3 DEF EmbedRecheck, Retire
  <1>6. CASE frames' = frames /\ pc[t] # "embed_check"
    BY <1>6, AncestorsKept
  <1>7. QED
    BY <1>4, <1>5, <1>6, FramesChange

-----------------------------------------------------------------------------
(* What nodes say *)

(* A step leaves what a node says as it is.                                *)
Kept(id) ==
  id \in DOMAIN nodes' /\ nodes'[id].val = nodes[id].val /\ nodes'[id].sem = nodes[id].sem

LEMMA NodesWritten ==
  ASSUME StoreInv, NEW t \in Thread, Acts(t), NEW id \in DOMAIN nodes
  PROVE  \/ Kept(id)
         \/ CopyCoords(t) /\ id = newId[t]
         \/ (Retire(t) \/ Unregister(t)) /\ id = ownId[t]
         \/ Write(t) /\ id = pathMap[op[t].path]
  <1>1. nodes[id] \in Node
    BY Typed
  <1>2. CASE nodes' = nodes
    BY <1>2 DEF Kept
  <1>3. CASE StoreStub(t)
    <2>1. id # StubId(op[t].path)
      BY <1>3, FreeStub, Typed DEF StoreStub, Target, Calls, StoreInv
    <2>2. QED
      BY <1>3, <2>1 DEF StoreStub, Entry, Kept
  <1>4. CASE Register(t)
    <2>1. newId[t] \notin DOMAIN nodes
      BY <1>4 DEF Register, StoreInv, MapsInv, ThreadOK, NodesAt, NodeAt
    <2>2. QED
      BY <1>4, <2>1 DEF Register, Entry, Kept
  <1>5. CASE Link(t) \/ Unlink(t)
    <2>1. PICK i, C : nodes' = nodes \/ nodes' = [nodes EXCEPT ![i].children = C]
      BY <1>5 DEF Link, Unlink
    <2>2. QED
      BY <1>1, <2>1 DEF Node, Kept
  <1>6. CASE CopyCoords(t)
    BY <1>1, <1>6 DEF CopyCoords, Kept, Node
  <1>7. CASE Retire(t) \/ Unregister(t)
    BY <1>1, <1>7 DEF Retire, Unregister, Without, Kept
  <1>8. CASE Write(t)
    BY <1>1, <1>8 DEF Write, Kept, Node
  <1>9. nodes' = nodes \/ StoreStub(t) \/ Register(t) \/ Link(t) \/ Unlink(t) \/ CopyCoords(t)
        \/ Retire(t) \/ Unregister(t) \/ Write(t)
    BY DEF Acts, InsertStep, EmbedStep, DeleteStep, Check, Resolve, Lock, Recheck, Place,
       RecordPath, Publish, EmbedCheck, EmbedResolve, EmbedLock, EmbedRecheck, Snapshot, Forget,
       Read, DeleteRead, DeleteParent, DeleteLock, DeleteCheck, Unmap, DeleteForget, shared
  <1>10. QED
    BY <1>2, <1>3, <1>4, <1>5, <1>6, <1>7, <1>8, <1>9

(* Only a write changes what a path's node says.                           *)
LEMMA MappedKept ==
  ASSUME StoreInv, NEW t \in Thread, Acts(t), NEW p \in Path, pathMap[p] # Nil
  PROVE  pathMap[p] \in DOMAIN nodes /\ (Kept(pathMap[p]) \/ (Write(t) /\ p = op[t].path))
  <1>1. MapsInv /\ NodesOK
    BY DEF StoreInv, MapsInv, MapsOK
  <1>2. pathMap[p] \in DOMAIN nodes
    BY <1>1 DEF NodesOK, PublishedResolves, Mapped
  <1>3. CASE CopyCoords(t)
    <2>1. pathMap[p] # newId[t]
      BY <1>1, <1>3, ChosenUnmapped DEF CopyCoords, Slotted
    <2>2. QED
      BY <1>2, <1>3, <2>1, NodesWritten DEF CopyCoords, Retire, Unregister, Write
  <1>4. CASE Retire(t) \/ Unregister(t)
    <2>1. pathMap[p] # ownId[t]
      BY <1>1, <1>4, RetiredUnmapped, RemovedOf DEF Retire, Unregister, Upgrading, Removing
    <2>2. QED
      BY <1>2, <1>4, <2>1, NodesWritten DEF CopyCoords, Retire, Unregister, Write
  <1>5. CASE Write(t) /\ pathMap[p] = pathMap[op[t].path]
    <2>1. op[t].kind \in Writes
      BY <1>5, Typed DEF Write, Calls
    <2>2. op[t].path \in Path
      BY <2>1, Typed, CallRequest, RequestFacts DEF Writes
    <2>3. QED
      BY <1>1, <1>2, <1>5, <2>2, OnePath
  <1>6. QED
    BY <1>2, <1>3, <1>4, <1>5, NodesWritten

(* Nobody changes what the node of another call is to say.                 *)
LEMMA NewKept ==
  ASSUME StoreInv, NEW t \in Thread, Acts(t), NEW u \in Thread \ {t}, pc[u] \in Made
  PROVE  Kept(newId[u])
  <1>1. MapsInv /\ pc[u] \in Slotted
    BY DEF StoreInv, Made
  <1>2. newId[u] \in DOMAIN nodes /\ newId[u] # Nil
    BY <1>1, Typed DEF MapsInv, ThreadOK, NodesAt, NodeAt
  <1>3. CopyCoords(t) => newId[u] # newId[t]
    BY <1>1, ChoicesApart DEF CopyCoords, Slotted
  <1>4. Retire(t) \/ Unregister(t) => newId[u] # ownId[t]
    BY <1>1, ChosenNotRetired, ChosenNotRemoved DEF Retire, Unregister, Upgrading, Removing
  <1>5. Write(t) => newId[u] # pathMap[op[t].path]
    <2>1. SUFFICES ASSUME Write(t) PROVE newId[u] # pathMap[op[t].path]
      OBVIOUS
    <2>2. op[t].kind \in Writes
      BY <2>1, Typed DEF Write, Calls
    <2>3. op[t].path \in Path
      BY <2>2, Typed, CallRequest, RequestFacts DEF Writes
    <2>4. QED
      BY <1>1, <2>3, ChosenUnmapped
  <1>6. QED
    BY <1>2, <1>3, <1>4, <1>5, NodesWritten

(* What an embed copies from is the node of its path.                      *)
LEMMA CopiedFrom ==
  ASSUME StoreInv, NEW u \in Thread, op[u].kind = "embed_existing", pc[u] \in Placing \cup {"snapshot"}
  PROVE  /\ Target(u) \in Path /\ pathMap[Target(u)] # Nil /\ ownId[u] = pathMap[Target(u)]
         /\ ownId[u] \in DOMAIN nodes /\ IsPrefix(Target(u), op[u].path)
  <1>1. pc[u] # "return" /\ pc[u] # "embed_check"
    BY DEF Placing
  <1>2. Target(u) \in Path /\ pathMap[Target(u)] # Nil /\ IsPrefix(Target(u), op[u].path)
    BY <1>1, Frames, EmbedSees
  <1>3. ownId[u] = pathMap[Target(u)]
    BY DEF StoreInv, MapsInv, ThreadOK, PathsAt, TargetAt
  <1>4. QED
    BY <1>2, <1>3 DEF StoreInv, MapsInv, MapsOK, NodesOK, PublishedResolves, Mapped

(* Writes keep away from it.                                               *)
LEMMA CopyKept ==
  ASSUME StoreInv, NEW t \in Thread, Acts(t), NEW u \in Thread,
         op[u].kind = "embed_existing", pc[u] \in Placing \cup {"snapshot"}
  PROVE  Kept(ownId[u])
  <1>1. /\ Target(u) \in Path /\ pathMap[Target(u)] # Nil /\ ownId[u] = pathMap[Target(u)]
        /\ IsPrefix(Target(u), op[u].path)
    BY CopiedFrom
  <1>2. ASSUME Write(t), Target(u) = op[t].path PROVE FALSE
    <2>1. pc[t] = "write" /\ op[t].kind \in Writes
      BY <1>2, Typed DEF Write, Calls
    <2>2. t # u /\ pc[t] # "idle" /\ pc[u] # "idle"
      BY <2>1 DEF Placing, Writes
    <2>3. ~Clash("no_write_during_embed", op[t], op[u])
      BY <2>2 DEF StoreInv, WritesApart
    <2>4. QED
      BY <1>1, <1>2, <2>1, <2>3 DEF Clash
  <1>3. QED
    BY <1>1, <1>2, MappedKept

LEMMA OthersData ==
  ASSUME StoreInv, NEW t \in Thread, Acts(t), NEW u \in Thread \ {t}
  PROVE  CopyAt(u)' /\ NewAt(u)'
  <1>1. CopyAt(u) /\ NewAt(u) /\ Alike(u)
    BY Goes DEF StoreInv
  <1>2. op[u].kind = "embed_existing" /\ pc[u] \in Placing => Kept(ownId[u])
    BY CopyKept
  <1>3. pc[u] \in Made => Kept(newId[u])
    BY NewKept
  <1>4. CopyAt(u)'
    BY <1>1, <1>2 DEF CopyAt, Kept, Alike, Same, DataOf
  <1>5. NewAt(u)'
    BY <1>1, <1>3 DEF NewAt, Kept, Alike, Same, DataOf
  <1>6. QED
    BY <1>4, <1>5

(* A step that takes a copy along keeps it, and what it was made from.     *)
LEMMA CopyGoes ==
  ASSUME StoreInv, NEW t \in Thread, Acts(t), pc[t] \in Placing, copy' = copy, ownId' = ownId
  PROVE  CopyAt(t)'
  <1>1. op' = op /\ CopyAt(t)
    BY Goes DEF StoreInv
  <1>2. op[t].kind = "embed_existing" => Kept(ownId[t])
    BY CopyKept
  <1>3. QED
    BY <1>1, <1>2 DEF CopyAt, Kept, DataOf

(* A new node says what is asked for from the start.                       *)
LEMMA OwnData ==
  ASSUME StoreInv, NEW t \in Thread, Acts(t)
  PROVE  CopyAt(t)' /\ NewAt(t)'
  <1> USE Typed DEF Goto
  <1>1. op' = op /\ CopyAt(t) /\ NewAt(t)
    BY Goes DEF StoreInv
  <1>2. CASE pc'[t] \notin Placing
    BY <1>2 DEF CopyAt, NewAt, Made, Slotted, Placing
  <1>3. CASE Recheck(t)
    <2>1. op[t].kind \in Inserts
      BY <1>3 DEF Recheck, Calls
    <2>2. pc'[t] \notin Made
      BY <1>3 DEF Recheck, Answer, Made, Slotted
    <2>3. QED
      BY <1>1, <2>1, <2>2 DEF CopyAt, NewAt, Inserts
  <1>4. CASE Snapshot(t)
    <2>1. nodes' = nodes /\ ownId' = ownId /\ pc'[t] \notin Made
      BY <1>4 DEF Snapshot, shared, Answer, Made, Slotted
    <2>2. pc'[t] \in Placing => copy'[t] = nodes[ownId[t]]
      BY <1>4 DEF Snapshot, Answer, Placing
    <2>3. QED
      BY <2>1, <2>2 DEF CopyAt, NewAt, DataOf
  <1>5. CASE Place(t)
    <2>1. pc[t] \in Placing /\ copy' = copy /\ ownId' = ownId /\ nodes' = nodes /\ pc[t] = "place"
      BY <1>5 DEF Place, Placing
    <2>2. pc'[t] \notin Made
      BY <1>5 DEF Place, Answer, Made, Slotted
    <2>3. QED
      BY <2>1, <2>2, CopyGoes DEF NewAt
  <1>6. CASE Register(t)
    <2>1. pc[t] \in Placing /\ copy' = copy /\ ownId' = ownId /\ pc'[t] = "link" /\ newId' = newId
      BY <1>6 DEF Register, Placing, local
    <2>2. DataOf(newId[t])' =
            [val |-> IF op[t].kind = "embed_existing" THEN copy[t].val ELSE op[t].arg,
             sem |-> NoCoord]
      BY <1>6, <2>1 DEF Register, Entry, NewNode, DataOf
    <2>3. NewAt(t)'
      BY <1>1, <2>1, <2>2 DEF NewAt, FreshData, Inserts
    <2>4. QED
      BY <2>1, <2>3, CopyGoes
  <1>7. CASE Link(t)
    <2>1. /\ pc[t] = "link" /\ copy' = copy /\ ownId' = ownId /\ newId' = newId
          /\ pc'[t] = IF op[t].kind = "embed_existing" THEN "copy_coords" ELSE "record_path"
      BY <1>7 DEF Link, local
    <2>2. pc[t] \in Placing /\ pc[t] \in Made
      BY <2>1 DEF Placing, Made, Slotted
    <2>3. newId[t] \in DOMAIN nodes
      BY <2>2 DEF StoreInv, MapsInv, ThreadOK, NodesAt, NodeAt
    <2>4. Kept(newId[t])
      BY <1>7, <2>3, NodesWritten DEF Link, CopyCoords, Retire, Unregister, Write
    <2>5. NewAt(t)'
      BY <1>1, <2>1, <2>2, <2>4 DEF NewAt, Kept, DataOf, Inserts
    <2>6. QED
      BY <2>1, <2>2, <2>5, CopyGoes
  <1>8. CASE CopyCoords(t)
    <2>1. /\ pc[t] = "copy_coords" /\ copy' = copy /\ ownId' = ownId /\ newId' = newId
          /\ pc'[t] = "record_path" /\ op[t].kind = "embed_existing"
      BY <1>8 DEF CopyCoords, Calls, local
    <2>2. pc[t] \in Placing /\ pc[t] \in Made
      BY <2>1 DEF Placing, Made, Slotted
    <2>3. newId[t] \in DOMAIN nodes /\ nodes[newId[t]] \in Node
      BY <2>2 DEF StoreInv, MapsInv, ThreadOK, NodesAt, NodeAt
    <2>4. nodes[newId[t]].val = copy[t].val /\ nodes[newId[t]].sem = NoCoord
      BY <1>1, <2>1, <2>2 DEF NewAt, DataOf
    <2>5. nodes'[newId[t]].val = copy[t].val /\ nodes'[newId[t]].sem = copy[t].sem
      BY <1>8, <2>3, <2>4 DEF CopyCoords, Node
    <2>6. NewAt(t)'
      BY <1>1, <2>1, <2>5 DEF NewAt, DataOf, Inserts
    <2>7. QED
      BY <2>1, <2>2, <2>6, CopyGoes
  <1>9. CASE StoreStub(t)
    <2>1. /\ op[t].kind = "insert_data_only" /\ pc'[t] = "record_path"
          /\ newId'[t] = StubId(op[t].path)
      BY <1>9 DEF StoreStub, Calls
    <2>2. DataOf(newId[t])' = FreshData(op[t].arg)
      BY <1>9, <2>1 DEF StoreStub, Entry, NewNode, DataOf, FreshData
    <2>3. QED
      BY <1>1, <2>1, <2>2 DEF CopyAt, NewAt
  <1>10. CASE RecordPath(t)
    <2>1. /\ pc[t] = "record_path" /\ copy' = copy /\ ownId' = ownId /\ newId' = newId
          /\ pc'[t] = "publish" /\ nodes' = nodes
      BY <1>10 DEF RecordPath, local
    <2>2. pc[t] \in Placing /\ pc[t] \in Made
      BY <2>1 DEF Placing, Made, Slotted
    <2>3. NewAt(t)'
      BY <1>1, <2>1, <2>2 DEF NewAt, DataOf
    <2>4. QED
      BY <2>1, <2>2, <2>3, CopyGoes
  <1>11. \/ pc'[t] \notin Placing
         \/ Recheck(t) \/ Snapshot(t) \/ Place(t) \/ Register(t) \/ Link(t) \/ CopyCoords(t)
         \/ StoreStub(t) \/ RecordPath(t)
    <2>1. CASE InsertStep(t)
      BY <2>1 DEF InsertStep, Check, Resolve, Lock, Publish, Answer, Placing
    <2>2. CASE EmbedStep(t)
      BY <2>2 DEF EmbedStep, EmbedCheck, EmbedResolve, EmbedLock, EmbedRecheck, Forget, Retire,
         FrameDone, Answer, Placing
    <2>3. CASE DeleteStep(t)
      BY <2>3 DEF DeleteStep, DeleteRead, DeleteParent, DeleteLock, DeleteCheck, Unmap,
         DeleteForget, Unregister, Unlink, Answer, Placing
    <2>4. CASE Write(t) \/ Read(t)
      BY <2>4 DEF Write, Read, Answer, Placing
    <2>5. QED
      BY <2>1, <2>2, <2>3, <2>4 DEF Acts
  <1>12. QED
    BY <1>2, <1>3, <1>4, <1>5, <1>6, <1>7, <1>8, <1>9, <1>10, <1>11

-----------------------------------------------------------------------------
(* The invariant holds *)

LEMMA InitStore == Init => StoreInv
  <1> SUFFICES ASSUME Init PROVE StoreInv
    OBVIOUS
  <1>1. \A t \in Thread : pc[t] = "idle" /\ op[t] = Idle /\ reply[t] = Nil
    BY DEF Init
  <1>2. reply \in [Thread -> Optional(Answers)]
    BY DEF Init, Optional
  <1>3. WritesApart /\ AnswersOK
    BY <1>1, <1>2 DEF WritesApart, AnswersOK
  <1>4. \A t \in Thread : AncestorsAt(t) /\ CopyAt(t) /\ NewAt(t)
    BY <1>1 DEF AncestorsAt, CopyAt, NewAt, Idle, Placing, Made, Slotted
  <1>5. QED
    BY <1>3, <1>4, InitMaps DEF StoreInv

(* Every step is a call that begins, one in progress, or one that returns. *)
LEMMA Steps ==
  ASSUME Next
  PROVE  \E t \in Thread : (\E o \in Request : Begin(t, o)) \/ Acts(t) \/ Return(t)
  BY DEF Next, Acts

LEMMA NextStore ==
  ASSUME Rules \subseteq Discipline
  PROVE  StoreInv /\ [Next]_vars => StoreInv'
  <1> SUFFICES ASSUME StoreInv, [Next]_vars PROVE StoreInv'
    OBVIOUS
  <1>1. MapsInv'
    <2>1. MapRules \subseteq Discipline
      BY DEF MapRules, Rules
    <2>2. QED
      BY <2>1, NextMaps DEF StoreInv
  <1>2. ASSUME NEW t \in Thread, NEW o \in Request, Begin(t, o) PROVE StoreInv'
    BY <1>1, <1>2, CallsBegin DEF StoreInv
  <1>3. ASSUME NEW t \in Thread, Acts(t) PROVE StoreInv'
    <2>1. AnswersOK' /\ WritesApart'
      BY <1>3, CallsGo
    <2>2. \A u \in Thread : AncestorsAt(u)' /\ CopyAt(u)' /\ NewAt(u)'
      BY <1>3, AncestorsSeen, AncestorsGo, OthersData, OwnData
    <2>3. QED
      BY <1>1, <2>1, <2>2 DEF StoreInv
  <1>4. ASSUME NEW t \in Thread, Return(t) PROVE StoreInv'
    BY <1>1, <1>4, CallsReturn DEF StoreInv
  <1>5. CASE UNCHANGED vars
    <2>1. WritesApart' /\ AnswersOK'
      BY <1>5 DEF vars, StoreInv, WritesApart, AnswersOK
    <2>2. ASSUME NEW u \in Thread PROVE AncestorsAt(u)' /\ CopyAt(u)' /\ NewAt(u)'
      BY <1>5 DEF vars, shared, local, StoreInv, AncestorsAt, CopyAt, NewAt, DataOf
    <2>3. QED
      BY <1>1, <2>1, <2>2 DEF StoreInv
  <1>6. QED
    BY <1>2, <1>3, <1>4, <1>5, Steps

(* When clients keep all the rules, every call in progress knows what its  *)
(* path and its ancestors are, and what it carries over is what clients    *)
(* last wrote.                                                             *)
THEOREM StoreInvariant == ASSUME Rules \subseteq Discipline PROVE Spec => []StoreInv
  <1>1. StoreInv /\ [Next]_vars => StoreInv'
    BY NextStore
  <1>2. QED
    BY InitStore, <1>1, PTL DEF Spec

-----------------------------------------------------------------------------
(* Steps as clients see them *)

(* A client sees a path exactly if it is mapped.                           *)
LEMMA ContentSays ==
  ASSUME StoreInv, NEW p \in Path
  PROVE  /\ Content[p] = IF pathMap[p] = Nil THEN Nil ELSE DataOf(pathMap[p])
         /\ Content[p] = Nil <=> pathMap[p] = Nil
  <1>1. pathMap[p] # Nil => pathMap[p] \in DOMAIN nodes
    BY DEF StoreInv, MapsInv, MapsOK, NodesOK, PublishedResolves, Mapped
  <1>2. Content[p] = IF pathMap[p] = Nil THEN Nil ELSE DataOf(pathMap[p])
    BY <1>1 DEF Content
  <1>3. QED
    BY <1>1, <1>2, DataType

(* What a step other than a write leaves mapped looks the same.            *)
LEMMA ContentKept ==
  ASSUME StoreInv, StoreInv', NEW t \in Thread, Acts(t), ~Write(t), NEW p \in Path,
         pathMap'[p] = pathMap[p]
  PROVE  Content'[p] = Content[p]
  <1>1. Content'[p] = IF pathMap'[p] = Nil THEN Nil
                      ELSE [val |-> nodes'[pathMap'[p]].val, sem |-> nodes'[pathMap'[p]].sem]
    BY DEF StoreInv, MapsInv, MapsOK, NodesOK, PublishedResolves, Mapped, Content, DataOf
  <1>2. pathMap[p] # Nil => Kept(pathMap[p])
    BY MappedKept
  <1>3. QED
    BY <1>1, <1>2, ContentSays DEF Kept, DataOf

LEMMA AllKept ==
  ASSUME StoreInv, StoreInv', NEW t \in Thread, Acts(t), ~Write(t), pathMap' = pathMap
  PROVE  Content' = Content
  <1>1. \A p \in Path : Content'[p] = Content[p]
    BY ContentKept
  <1>2. QED
    BY <1>1 DEF Content

(* A call that goes on says nothing; one that answers is settled then.     *)
LEMMA SettledKept ==
  ASSUME StoreInv, NEW t \in Thread, Acts(t), Continues(t), pc[t] \notin Removing,
         pc'[t] \notin Removing
  PROVE  Settled' = Settled
  <1>1. \A u \in Thread \ {t} : pc'[u] = pc[u]
    BY Goes DEF Alike, Same
  <1>2. QED
    BY <1>1 DEF Settled, Removing, Continues

LEMMA SettledSays ==
  ASSUME StoreInv, NEW t \in Thread, Acts(t), NEW a, pc[t] \notin Removing,
         pc'[t] = "return", reply' = [reply EXCEPT ![t] = a]
  PROVE  Settled[t] = Nil /\ Settled' = [Settled EXCEPT ![t] = a]
  <1>1. pc[t] # "return" /\ \A u \in Thread \ {t} : pc'[u] = pc[u] /\ reply'[u] = reply[u]
    BY Goes DEF Alike, Same
  <1>2. reply[t] = Nil /\ reply'[t] = a
    BY <1>1, Typed DEF AnswersOK
  <1>3. QED
    BY <1>1, <1>2 DEF Settled, Removing

(* A call's own path.                                                      *)
LEMMA CallPath ==
  ASSUME StoreInv, NEW t \in Thread, Acts(t)
  PROVE  /\ op[t] \in Request /\ op[t] # Idle
         /\ op[t].path \in Path \ {Root} /\ parent_path(op[t].path) \in Path
  <1>1. pc[t] \notin {"idle", "return"}
    BY Goes
  <1>2. op[t].kind # "idle"
    <2>1. CASE InsertStep(t)
      BY <2>1, Typed DEF InsertStep, Check, Resolve, Lock, Recheck, StoreStub, Place, Register,
         Link, RecordPath, Publish, Calls, Inserts, PlacedInserts
    <2>2. CASE EmbedStep(t)
      BY <2>2, Typed DEF EmbedStep, EmbedCheck, EmbedResolve, EmbedLock, EmbedRecheck, Snapshot,
         CopyCoords, Forget, Retire, Calls
    <2>3. CASE DeleteStep(t)
      <3>1. pc[t] \in Deleting
        BY <2>3 DEF DeleteStep, DeleteRead, DeleteParent, DeleteLock, DeleteCheck, Unmap,
           DeleteForget, Unregister, Unlink, Deleting, Removing
      <3>2. QED
        BY <3>1, DeletePath DEF StoreInv, MapsInv, ThreadOK
    <2>4. CASE Write(t)
      BY <2>4, Typed DEF Write, Calls, Writes
    <2>5. CASE Read(t)
      BY <2>5, Typed DEF Read, AnswersOK
    <2>6. QED
      BY <2>1, <2>2, <2>3, <2>4, <2>5 DEF Acts
  <1>3. op[t] \in Request /\ op[t] # Idle
    BY <1>2, Typed DEF Idle
  <1>4. op[t].path \in Path \ {Root}
    BY <1>3, RequestFacts DEF Request
  <1>5. QED
    BY <1>3, <1>4, PathType

(* What clients see of a step: a step of PathStore, or none.               *)
Seen == Abstract!StoreNext \/ UNCHANGED <<Content, op, Settled>>

(* A step that neither answers nor changes path_map is not seen.           *)
LEMMA Unseen ==
  ASSUME StoreInv, StoreInv', NEW t \in Thread, Acts(t), ~Write(t), pathMap' = pathMap,
         Continues(t), pc[t] \notin Removing, pc'[t] \notin Removing
  PROVE  Seen
  BY AllKept, SettledKept, Goes DEF Seen

(* One that answers and changes neither the paths nor the data is one in   *)
(* which the call says its answer.                                         *)
LEMMA Spoken ==
  ASSUME StoreInv, StoreInv', NEW t \in Thread, Acts(t), ~Write(t), pathMap' = pathMap,
         NEW a, pc[t] \notin Removing, pc'[t] = "return", reply' = [reply EXCEPT ![t] = a]
  PROVE  /\ Settled[t] = Nil /\ Abstract!Says(t, a)
         /\ op' = op /\ op[t] # Idle
         /\ op[t].path \in Path \ {Root} /\ parent_path(op[t].path) \in Path
         /\ Content[op[t].path] = Nil <=> pathMap[op[t].path] = Nil
         /\ Content[parent_path(op[t].path)] = Nil <=> pathMap[parent_path(op[t].path)] = Nil
  <1>1. Content' = Content /\ Settled[t] = Nil /\ Settled' = [Settled EXCEPT ![t] = a]
    BY AllKept, SettledSays
  <1>2. op' = op /\ op[t] # Idle /\ op[t].path \in Path /\ parent_path(op[t].path) \in Path
        /\ op[t].path \in Path \ {Root}
    BY Goes, CallPath
  <1>3. QED
    BY <1>1, <1>2, ContentSays DEF Abstract!Says

LEMMA AnswerSaid ==
  ASSUME StoreInv, NEW t \in Thread, NEW r, Answer(t, r)
  PROVE  pc'[t] = "return" /\ reply' = [reply EXCEPT ![t] = <<r>>]
  BY Typed DEF Answer, Goto

-----------------------------------------------------------------------------
(* Calls and returns *)

LEMMA BeginSeen ==
  ASSUME StoreInv, NEW t \in Thread, NEW o \in Request, Begin(t, o)
  PROVE  Seen
  <1>1. op[t] = Idle /\ op' = [op EXCEPT ![t] = o]
    BY DEF Begin, StoreInv, AnswersOK
  <1>2. Content' = Content
    BY DEF Begin, shared, Content, DataOf
  <1>3. Settled' = Settled
    <2>1. o.kind \in CallKind
      BY RequestFacts
    <2>2. FirstStep(o.kind) \notin Removing
      BY <2>1 DEF FirstStep, CallKind, Inserts, Writes, Removing
    <2>3. /\ reply' = reply /\ pc[t] \notin Removing /\ pc'[t] \notin Removing
          /\ \A u \in Thread \ {t} : pc'[u] = pc[u]
      BY <2>2, Typed DEF Begin, Goto, Removing
    <2>4. QED
      BY <2>3 DEF Settled, Removing
  <1>4. Abstract!Invoke(t)
    BY <1>1, <1>2, <1>3 DEF Abstract!Invoke
  <1>5. QED
    BY <1>4 DEF Seen, Abstract!StoreNext

LEMMA ReturnSeen ==
  ASSUME StoreInv, NEW t \in Thread, Return(t)
  PROVE  Seen
  <1>1. Content' = Content
    BY DEF Return, shared, Content, DataOf
  <1>2. op' = [op EXCEPT ![t] = Idle]
    BY DEF Return
  <1>3. Settled[t] # Nil /\ Settled' = [Settled EXCEPT ![t] = Nil]
    <2>1. /\ pc[t] = "return" /\ pc'[t] = "idle" /\ reply[t] # Nil /\ reply'[t] = Nil
          /\ \A u \in Thread \ {t} : pc'[u] = pc[u] /\ reply'[u] = reply[u]
      BY Typed DEF Return, Goto, AnswersOK
    <2>2. QED
      BY <2>1 DEF Settled
  <1>4. Abstract!Respond(t)
    BY <1>1, <1>2, <1>3 DEF Abstract!Respond
  <1>5. QED
    BY <1>4 DEF Seen, Abstract!StoreNext

-----------------------------------------------------------------------------
(* Inserts *)

(* An insert that answers without a change finds its path there already or *)
(* its parent missing; one with a position may be refused one.             *)
LEMMA InsertSays ==
  ASSUME StoreInv, StoreInv', NEW t \in Thread, Acts(t), ~Write(t), pathMap' = pathMap,
         pc[t] \notin Removing, op[t].kind \in Inserts, NEW r, Answer(t, r),
         \/ r = "already_exists" /\ pathMap[op[t].path] # Nil
         \/ r = "not_found" /\ pathMap[parent_path(op[t].path)] = Nil
         \/ r = "failed" /\ op[t].kind # "insert_data_only" /\ pathMap[op[t].path] = Nil
  PROVE  Seen
  <1>1. /\ Settled[t] = Nil /\ Abstract!Says(t, <<r>>)
        /\ op' = op /\ op[t] # Idle
        /\ Content[op[t].path] = Nil <=> pathMap[op[t].path] = Nil
        /\ Content[parent_path(op[t].path)] = Nil <=> pathMap[parent_path(op[t].path)] = Nil
    BY AnswerSaid, Spoken
  <1>2. Abstract!Pending(t, {"insert", "insert_positioned", "insert_data_only"})
    BY <1>1 DEF Abstract!Pending, Inserts
  <1>3. Abstract!parent_path(op[t].path) = parent_path(op[t].path)
    BY DEF Abstract!parent_path, parent_path
  <1>4. Abstract!Insert(t)
    BY <1>1, <1>2, <1>3 DEF Abstract!Insert
  <1>5. QED
    BY <1>4 DEF Seen, Abstract!StoreNext

LEMMA CheckSeen ==
  ASSUME StoreInv, StoreInv', NEW t \in Thread, Acts(t), Check(t) \/ Recheck(t)
  PROVE  Seen
  <1>1. /\ pc[t] \in {"check", "recheck"} /\ pc[t] \notin Removing /\ pathMap' = pathMap
        /\ op[t].kind \in Inserts
    BY Typed DEF Check, Recheck, Calls, Removing, shared
  <1>2. ~Write(t)
    BY <1>1 DEF Write
  <1>3. CASE pathMap[op[t].path] # Nil /\ Answer(t, "already_exists")
    BY <1>1, <1>2, <1>3, InsertSays
  <1>4. CASE reply' = reply /\ pc'[t] \in {"resolve", "place", "store_stub"}
    BY <1>1, <1>2, <1>4, Unseen DEF Continues, Removing
  <1>5. QED
    BY <1>3, <1>4, Typed DEF Check, Recheck, Goto

LEMMA ResolveSeen ==
  ASSUME StoreInv, StoreInv', NEW t \in Thread, Acts(t), Resolve(t)
  PROVE  Seen
  <1>1. /\ pc[t] = "resolve" /\ pc[t] \notin Removing /\ pathMap' = pathMap
        /\ op[t].kind \in Inserts
    BY Typed DEF Resolve, Calls, Removing, shared
  <1>2. ~Write(t)
    BY <1>1 DEF Write
  <1>3. CASE pathMap[parent_path(op[t].path)] = Nil /\ Answer(t, "not_found")
    BY <1>1, <1>2, <1>3, InsertSays
  <1>4. CASE reply' = reply /\ pc'[t] = "lock"
    BY <1>1, <1>2, <1>4, Unseen DEF Continues, Removing
  <1>5. QED
    BY <1>3, <1>4, Typed DEF Resolve, Goto

(* The new node says what the call asks for, under a parent that is there. *)
LEMMA InsertSeen ==
  ASSUME StoreInv, StoreInv', NEW t \in Thread, Acts(t), Publish(t), op[t].kind \in Inserts
  PROVE  Seen
  <1> DEFINE p == op[t].path
  <1>1. /\ pc[t] = "publish" /\ pc[t] \notin Removing /\ pc[t] \in Made
        /\ pathMap' = [pathMap EXCEPT ![Target(t)] = newId[t]]
        /\ nodes' = nodes /\ Answer(t, "ok")
    BY DEF Publish, Removing, Made, Slotted, Inserts
  <1>2. Target(t) = p
    BY DEF Target, Inserts
  <1>3. /\ op[t] # Idle /\ op' = op /\ p \in Path \ {Root} /\ parent_path(p) \in Path
    BY CallPath, Goes
  <1>4. pathMap[p] = Nil /\ newId[t] # Nil /\ newId[t] \in DOMAIN nodes
    BY <1>1, <1>2, Publishes DEF StoreInv, Inserts
  <1>5. pathMap[parent_path(p)] # Nil
    <2>1. pathMap'[p] # Nil
      BY <1>1, <1>2, <1>3, <1>4, Typed
    <2>2. pathMap'[parent_path(p)] # Nil
      BY <1>3, <2>1 DEF StoreInv, MapsInv, MapsOK, IdsOK, Mapped
    <2>3. parent_path(p) # p
      BY <1>1, <1>2, Publishes DEF StoreInv
    <2>4. QED
      BY <1>1, <1>2, <1>3, <2>2, <2>3, Typed
  <1>6. Content' = [Content EXCEPT ![p] = FreshData(op[t].arg)]
    <2>1. Content'[p] = DataOf(newId[t])
      BY <1>1, <1>2, <1>3, <1>4, Typed DEF Content, DataOf
    <2>2. DataOf(newId[t]) = FreshData(op[t].arg)
      BY <1>1 DEF StoreInv, NewAt
    <2>3. ASSUME NEW q \in Path \ {p} PROVE Content'[q] = Content[q]
      BY <1>1, <1>2, <1>3, Typed DEF Content, DataOf
    <2>4. QED
      BY <1>3, <2>1, <2>2, <2>3 DEF Content
  <1>7. Settled[t] = Nil /\ Settled' = [Settled EXCEPT ![t] = <<"ok">>]
    BY <1>1, AnswerSaid, SettledSays
  <1>8. Content[p] = Nil /\ Content[parent_path(p)] # Nil
    BY <1>3, <1>4, <1>5, ContentSays
  <1>9. Abstract!Pending(t, {"insert", "insert_positioned", "insert_data_only"})
    BY <1>3, <1>7 DEF Abstract!Pending, Inserts
  <1>10. Abstract!parent_path(p) = parent_path(p)
    BY DEF Abstract!parent_path, parent_path
  <1>11. Abstract!Insert(t)
    BY <1>3, <1>6, <1>7, <1>8, <1>9, <1>10 DEF Abstract!Insert
  <1>12. QED
    BY <1>11 DEF Seen, Abstract!StoreNext

(* Steps in which a call only works towards its answer.                    *)
LEMMA QuietSeen ==
  ASSUME StoreInv, StoreInv', NEW t \in Thread, Acts(t),
         \/ Lock(t) \/ StoreStub(t) \/ Register(t) \/ Link(t) \/ RecordPath(t)
         \/ EmbedLock(t) \/ CopyCoords(t) \/ Forget(t)
         \/ DeleteParent(t) \/ DeleteLock(t)
  PROVE  Seen
  <1>1. /\ pathMap' = pathMap /\ reply' = reply
        /\ pc[t] \notin Removing \cup {"write"}
        /\ pc'[t] \notin Removing \cup {"idle", "return", "read"}
    BY Typed DEF Lock, StoreStub, Register, Link, RecordPath, EmbedLock, CopyCoords, Forget,
       DeleteParent, DeleteLock, Goto, shared, Removing
  <1>2. ~Write(t)
    BY <1>1 DEF Write
  <1>3. QED
    BY <1>1, <1>2, Unseen DEF Continues

-----------------------------------------------------------------------------
(* Embeds *)

(* An embed that answers not_found is one whose path is not there, and any *)
(* other answer is given on a path that is.                                *)
LEMMA EmbedSays ==
  ASSUME StoreInv, StoreInv', NEW t \in Thread, Acts(t), ~Write(t), pathMap' = pathMap,
         pc[t] \notin Removing, op[t].kind = "embed_existing", NEW r, Answer(t, r),
         \/ r = "not_found" /\ pathMap[op[t].path] = Nil
         \/ r \in {"already", "upgraded", "failed"} /\ pathMap[op[t].path] # Nil
  PROVE  Seen
  <1>1. /\ Settled[t] = Nil /\ Abstract!Says(t, <<r>>)
        /\ op' = op /\ op[t] # Idle
        /\ Content[op[t].path] = Nil <=> pathMap[op[t].path] = Nil
    BY AnswerSaid, Spoken
  <1>2. Abstract!Pending(t, {"embed_existing"})
    BY <1>1 DEF Abstract!Pending
  <1>3. Abstract!Embed(t)
    <2>1. CASE r = "not_found"
      BY <1>1, <1>2, <2>1 DEF Abstract!Embed
    <2>2. CASE r \in {"already", "upgraded", "failed"}
      BY <1>1, <1>2, <2>2 DEF Abstract!Embed
    <2>3. QED
      BY <2>1, <2>2
  <1>4. QED
    BY <1>3 DEF Seen, Abstract!StoreNext

(* The last frame gives the answer, on a path that is there.               *)
LEMMA FrameSeen ==
  ASSUME StoreInv, StoreInv', NEW t \in Thread, Acts(t), ~Write(t), pathMap' = pathMap,
         pc[t] \notin Removing, op[t].kind = "embed_existing",
         NEW r \in {"already", "upgraded"}, FrameDone(t, r), pathMap[op[t].path] # Nil
  PROVE  Seen
  <1>1. CASE Answer(t, r)
    BY <1>1, EmbedSays
  <1>2. CASE reply' = reply /\ pc'[t] = "embed_resolve"
    BY <1>2, Unseen DEF Continues, Removing
  <1>3. QED
    BY <1>1, <1>2, Typed DEF FrameDone, Goto

LEMMA EmbedCheckSeen ==
  ASSUME StoreInv, StoreInv', NEW t \in Thread, Acts(t), EmbedCheck(t)
  PROVE  Seen
  <1>1. /\ pc[t] = "embed_check" /\ pc[t] \notin Removing /\ pathMap' = pathMap
        /\ op[t].kind = "embed_existing" /\ pc[t] # "return"
    BY Typed DEF EmbedCheck, Calls, Removing, shared
  <1>2. ~Write(t)
    BY <1>1 DEF Write
  <1>3. \/ pathMap[Target(t)] = Nil /\ pathMap[op[t].path] = Nil
        \/ pathMap[Target(t)] # Nil /\ pathMap[op[t].path] # Nil
    <2>1. CASE Len(frames[t]) > 1
      BY <1>1, <2>1, EmbedSees
    <2>2. CASE ~(Len(frames[t]) > 1)
      <3>1. Len(frames[t]) = 1
        <4>1. PICK n \in Nat : n = Len(frames[t]) /\ n # 0
          BY <1>1, Frames
        <4>2. n # 1 => n > 1
          BY <4>1, OneLess, Zenon
        <4>3. QED
          BY <2>2, <4>1, <4>2, Zenon
      <3>2. Target(t) = op[t].path
        BY <1>1, <3>1, Frames
      <3>3. QED
        BY <3>2
    <2>3. QED
      BY <2>1, <2>2
  <1>4. CASE pathMap[Target(t)] = Nil /\ Answer(t, "not_found")
    BY <1>1, <1>2, <1>3, <1>4, EmbedSays
  <1>5. CASE pathMap[Target(t)] # Nil /\ FrameDone(t, "already")
    BY <1>1, <1>2, <1>3, <1>5, FrameSeen
  <1>6. CASE pc' = pc /\ reply' = reply
    BY <1>1, <1>2, <1>6, Unseen DEF Continues
  <1>7. QED
    BY <1>4, <1>5, <1>6 DEF EmbedCheck

(* Once an embed has seen its path, it finds it and its parent.            *)
LEMMA EmbedWorkSeen ==
  ASSUME StoreInv, StoreInv', NEW t \in Thread, Acts(t),
         EmbedResolve(t) \/ EmbedRecheck(t) \/ Snapshot(t) \/ Retire(t)
  PROVE  Seen
  <1>1. /\ pc[t] \in {"embed_resolve", "embed_recheck", "snapshot", "retire"}
        /\ pc[t] \notin Removing /\ pathMap' = pathMap
        /\ op[t].kind = "embed_existing" /\ pc[t] # "return" /\ pc[t] # "embed_check"
    BY Typed DEF EmbedResolve, EmbedRecheck, Snapshot, Retire, Calls, Removing, shared
  <1>2. ~Write(t)
    BY <1>1 DEF Write
  <1>3. /\ pathMap[Target(t)] # Nil /\ pathMap[op[t].path] # Nil
        /\ pathMap[parent_path(Target(t))] # Nil
    BY <1>1, EmbedSees, Frames, ParentMapped
  <1>4. CASE Answer(t, "failed")
    BY <1>1, <1>2, <1>3, <1>4, EmbedSays
  <1>5. ASSUME NEW r \in {"already", "upgraded"}, FrameDone(t, r) PROVE Seen
    BY <1>1, <1>2, <1>3, <1>5, FrameSeen
  <1>6. CASE reply' = reply /\ pc'[t] \in {"embed_lock", "snapshot", "place"}
    BY <1>1, <1>2, <1>6, Unseen DEF Continues, Removing
  <1>7. QED
    BY <1>3, <1>4, <1>5, <1>6, Typed DEF EmbedResolve, EmbedRecheck, Snapshot, Retire, Goto

(* A placement is refused to an insert whose path is free, or to an embed  *)
(* whose path is there.                                                    *)
LEMMA PlaceSeen ==
  ASSUME StoreInv, StoreInv', NEW t \in Thread, Acts(t), Place(t)
  PROVE  Seen
  <1>1. /\ pc[t] = "place" /\ pc[t] \notin Removing /\ pathMap' = pathMap
        /\ op[t].kind \in PlacedInserts \cup {"embed_existing"}
    BY Typed DEF Place, Calls, Removing
  <1>2. ~Write(t)
    BY <1>1 DEF Write
  <1>3. CASE Answer(t, "failed")
    <2>1. CASE op[t].kind = "embed_existing"
      <3>1. pathMap[op[t].path] # Nil
        BY <1>1, <2>1, EmbedSees
      <3>2. QED
        BY <1>1, <1>2, <1>3, <2>1, <3>1, EmbedSays
    <2>2. CASE op[t].kind \in PlacedInserts
      <3>1. op[t].kind \in Inserts /\ op[t].kind # "insert_data_only" /\ Target(t) = op[t].path
        BY <2>2 DEF PlacedInserts, Inserts, Target
      <3>2. pathMap[op[t].path] = Nil
        BY <1>1, <3>1 DEF StoreInv, MapsInv, ThreadOK, PathsAt, TargetAt, Placing
      <3>3. QED
        BY <1>1, <1>2, <1>3, <3>1, <3>2, InsertSays
    <2>3. QED
      BY <1>1, <2>1, <2>2
  <1>4. CASE reply' = reply /\ pc'[t] = "register"
    BY <1>1, <1>2, <1>4, Unseen DEF Continues, Removing
  <1>5. QED
    BY <1>3, <1>4, Typed DEF Place, Goto

(* The step that swaps the ids shows every client the same data.           *)
LEMMA UpgradeKeeps ==
  ASSUME StoreInv, NEW t \in Thread, Publish(t), op[t].kind = "embed_existing"
  PROVE  Content' = Content
  <1> DEFINE p == Target(t)
  <1>1. /\ pc[t] = "publish" /\ pathMap' = [pathMap EXCEPT ![p] = newId[t]] /\ nodes' = nodes
        /\ pc[t] \in Made /\ pc[t] \in Placing
    BY DEF Publish, Made, Slotted, Placing
  <1>2. /\ p \in Path /\ pathMap[p] # Nil /\ ownId[t] = pathMap[p] /\ ownId[t] \in DOMAIN nodes
    BY <1>1, CopiedFrom
  <1>3. newId[t] # Nil /\ newId[t] \in DOMAIN nodes
    BY <1>1, Publishes DEF StoreInv
  <1>4. DataOf(newId[t]) = DataOf(ownId[t])
    BY <1>1 DEF StoreInv, CopyAt, NewAt
  <1>5. Content'[p] = Content[p]
    BY <1>1, <1>2, <1>3, <1>4, Typed DEF Content, DataOf
  <1>6. ASSUME NEW q \in Path \ {p} PROVE Content'[q] = Content[q]
    BY <1>1, <1>2, Typed DEF Content, DataOf
  <1>7. QED
    BY <1>2, <1>5, <1>6 DEF Content

LEMMA PublishedSeen ==
  ASSUME StoreInv, StoreInv', NEW t \in Thread, Acts(t), Publish(t)
  PROVE  Seen
  <1>1. op[t].kind \in Inserts \cup {"embed_existing"}
    BY Typed DEF Publish, Calls
  <1>2. CASE op[t].kind = "embed_existing"
    <2>1. /\ pc[t] \notin Removing /\ pc'[t] \notin Removing
          /\ pc'[t] \notin {"idle", "return", "read"} /\ reply' = reply
      BY <1>2, Typed DEF Publish, Goto, Removing
    <2>2. Settled' = Settled /\ op' = op
      BY <2>1, SettledKept, Goes DEF Continues
    <2>3. QED
      BY <1>2, <2>2, UpgradeKeeps DEF Seen
  <1>3. CASE op[t].kind # "embed_existing"
    <2>1. op[t].kind \in Inserts
      BY <1>1, <1>3
    <2>2. QED
      BY <2>1, InsertSeen
  <1>4. QED
    BY <1>2, <1>3

-----------------------------------------------------------------------------
(* Writes and reads *)

LEMMA WriteSeen ==
  ASSUME StoreInv, StoreInv', NEW t \in Thread, Acts(t), Write(t)
  PROVE  Seen
  <1> DEFINE p == op[t].path
             id == pathMap[p]
  <1>1. /\ pc[t] = "write" /\ pc[t] \notin Removing /\ pathMap' = pathMap
        /\ op[t].kind \in {"update_value", "set_semantic"}
    BY Typed DEF Write, Calls, Removing, Writes
  <1>2. op' = op /\ op[t] # Idle /\ p \in Path
    BY Goes, CallPath
  <1>3. (id # Nil => id \in DOMAIN nodes /\ nodes[id] \in Node) /\ (Content[p] = Nil <=> id = Nil)
        /\ (id # Nil => Content[p] = DataOf(id))
    BY <1>2, MappedKept, ContentSays, Typed
  <1>4. ASSUME NEW r, Answer(t, r)
        PROVE  Settled' = [Settled EXCEPT ![t] = <<r>>]
               /\ Abstract!Pending(t, {"update_value", "set_semantic"})
    <2>1. Settled[t] = Nil /\ Settled' = [Settled EXCEPT ![t] = <<r>>]
      BY <1>1, <1>4, AnswerSaid, SettledSays
    <2>2. QED
      BY <1>1, <1>2, <2>1 DEF Abstract!Pending
  <1>5. CASE id = Nil
    <2>1. Answer(t, "not_found") /\ nodes' = nodes
      BY <1>5 DEF Write
    <2>2. Content' = Content
      BY <1>1, <2>1 DEF Content, DataOf
    <2>3. Abstract!Change(t)
      BY <1>2, <1>3, <1>4, <1>5, <2>1, <2>2 DEF Abstract!Change, Abstract!Says
    <2>4. QED
      BY <2>3 DEF Seen, Abstract!StoreNext
  <1>6. CASE id # Nil
    <2>1. /\ Answer(t, "ok")
          /\ nodes' = IF op[t].kind = "update_value"
                      THEN [nodes EXCEPT ![id].val = op[t].arg]
                      ELSE [nodes EXCEPT ![id].sem = op[t].arg]
      BY <1>3, <1>6 DEF Write
    <2>2. DOMAIN nodes' = DOMAIN nodes
      BY <2>1
    <2>3. Content'[p] = IF op[t].kind = "update_value"
                        THEN [Content[p] EXCEPT !.val = op[t].arg]
                        ELSE [Content[p] EXCEPT !.sem = op[t].arg]
      <3>1. Content'[p] = [val |-> nodes'[id].val, sem |-> nodes'[id].sem]
        BY <1>1, <1>2, <1>3, <1>6, <2>2 DEF Content, DataOf
      <3>2. Content[p] = [val |-> nodes[id].val, sem |-> nodes[id].sem]
        BY <1>3, <1>6 DEF DataOf
      <3>3. CASE op[t].kind = "update_value"
        <4>1. nodes'[id].val = op[t].arg /\ nodes'[id].sem = nodes[id].sem
          BY <1>3, <1>6, <2>1, <3>3 DEF Node
        <4>2. QED
          BY <3>1, <3>2, <3>3, <4>1
      <3>4. CASE op[t].kind # "update_value"
        <4>1. nodes'[id].val = nodes[id].val /\ nodes'[id].sem = op[t].arg
          BY <1>3, <1>6, <2>1, <3>4 DEF Node
        <4>2. QED
          BY <3>1, <3>2, <3>4, <4>1
      <3>5. QED
        BY <3>3, <3>4
    <2>4. ASSUME NEW q \in Path \ {p} PROVE Content'[q] = Content[q]
      <3>1. CASE pathMap[q] = Nil
        BY <1>1, <3>1 DEF Content
      <3>2. CASE pathMap[q] # Nil
        <4>1. pathMap[q] \in DOMAIN nodes /\ pathMap[q] # id
          BY <1>2, <3>2, MappedKept, OnePath DEF StoreInv, MapsInv, MapsOK
        <4>2. nodes'[pathMap[q]] = nodes[pathMap[q]]
          BY <2>1, <4>1
        <4>3. QED
          BY <1>1, <2>2, <3>2, <4>1, <4>2 DEF Content, DataOf
      <3>3. QED
        BY <3>1, <3>2
    <2>5. Content' = [Content EXCEPT ![p] = IF op[t].kind = "update_value"
                                            THEN [@ EXCEPT !.val = op[t].arg]
                                            ELSE [@ EXCEPT !.sem = op[t].arg]]
      BY <1>2, <2>3, <2>4 DEF Content
    <2>6. Abstract!Change(t)
      BY <1>2, <1>3, <1>4, <1>6, <2>1, <2>5 DEF Abstract!Change
    <2>7. QED
      BY <2>6 DEF Seen, Abstract!StoreNext
  <1>7. QED
    BY <1>5, <1>6

LEMMA ReadSeen ==
  ASSUME StoreInv, StoreInv', NEW t \in Thread, Acts(t), Read(t)
  PROVE  Seen
  <1> DEFINE p == op[t].path
             id == pathMap[p]
             a == IF Content[p] = Nil THEN <<"not_found">> ELSE <<"data", Content[p]>>
  <1>1. /\ pc[t] = "read" /\ pc[t] \notin Removing /\ pathMap' = pathMap /\ op[t].kind = "get"
    BY Typed DEF Read, shared, Removing, AnswersOK
  <1>2. ~Write(t)
    BY <1>1 DEF Write
  <1>3. p \in Path
    BY CallPath
  <1>4. id # Nil => id \in DOMAIN nodes
    BY <1>3, MappedKept
  <1>5. Content[p] = (IF id = Nil THEN Nil ELSE DataOf(id)) /\ (Content[p] = Nil <=> id = Nil)
    BY <1>3, ContentSays
  <1>6. pc'[t] = "return" /\ reply' = [reply EXCEPT ![t] = a]
    BY <1>4, <1>5, Typed DEF Read, Answer, Goto
  <1>7. Settled[t] = Nil /\ Abstract!Says(t, a) /\ op' = op /\ op[t] # Idle
    BY <1>1, <1>2, <1>6, Spoken
  <1>8. Abstract!Get(t)
    BY <1>1, <1>7 DEF Abstract!Get, Abstract!Pending
  <1>9. QED
    BY <1>8 DEF Seen, Abstract!StoreNext

-----------------------------------------------------------------------------
(* Deletes *)

LEMMA DeleteKind ==
  ASSUME StoreInv, NEW t \in Thread, pc[t] \in Deleting
  PROVE  op[t].kind = "delete" /\ op[t].path \in Path \ {Root}
  BY DeletePath DEF StoreInv, MapsInv, ThreadOK

(* A delete that answers without a change finds its path missing, or a     *)
(* child of it.                                                            *)
LEMMA DeleteSays ==
  ASSUME StoreInv, StoreInv', NEW t \in Thread, Acts(t), ~Write(t), pathMap' = pathMap,
         pc[t] \notin Removing, op[t].kind = "delete", NEW r, Answer(t, r),
         \/ r = "not_found" /\ pathMap[op[t].path] = Nil
         \/ /\ r = "has_children" /\ pathMap[op[t].path] # Nil
            /\ \E q \in Path \ {Root} : parent_path(q) = op[t].path /\ pathMap[q] # Nil
  PROVE  Seen
  <1> DEFINE p == op[t].path
  <1>1. /\ Settled[t] = Nil /\ Abstract!Says(t, <<r>>)
        /\ op' = op /\ op[t] # Idle /\ p \in Path
        /\ Content[p] = Nil <=> pathMap[p] = Nil
    BY AnswerSaid, Spoken
  <1>2. Abstract!Pending(t, {"delete"})
    BY <1>1 DEF Abstract!Pending
  <1>3. CASE r = "not_found"
    <2>1. Abstract!Delete(t)
      BY <1>1, <1>2, <1>3 DEF Abstract!Delete
    <2>2. QED
      BY <2>1 DEF Seen, Abstract!StoreNext
  <1>4. CASE r = "has_children"
    <2>1. PICK q \in Path \ {Root} : parent_path(q) = p /\ pathMap[q] # Nil
      BY <1>4
    <2>2. Content[q] # Nil
      BY <2>1, ContentSays
    <2>3. q \in Path \ {<<>>} /\ Abstract!parent_path(q) = p
      BY <2>1 DEF Root, Abstract!parent_path, parent_path
    <2>4. Abstract!Delete(t)
      BY <1>1, <1>2, <1>4, <2>2, <2>3 DEF Abstract!Delete
    <2>5. QED
      BY <2>4 DEF Seen, Abstract!StoreNext
  <1>5. QED
    BY <1>3, <1>4

LEMMA DeleteReadSeen ==
  ASSUME StoreInv, StoreInv', NEW t \in Thread, Acts(t), DeleteRead(t)
  PROVE  Seen
  <1>1. /\ pc[t] = "delete_read" /\ pc[t] \notin Removing /\ pathMap' = pathMap
        /\ op[t].kind = "delete"
    BY DeleteKind DEF DeleteRead, shared, Deleting, Removing
  <1>2. ~Write(t)
    BY <1>1 DEF Write
  <1>3. CASE pathMap[op[t].path] = Nil /\ Answer(t, "not_found")
    BY <1>1, <1>2, <1>3, DeleteSays
  <1>4. CASE reply' = reply /\ pc'[t] = "delete_parent"
    BY <1>1, <1>2, <1>4, Unseen DEF Continues, Removing
  <1>5. QED
    BY <1>3, <1>4, Typed DEF DeleteRead, Goto

(* A child that a node lists and that is still there belongs to a path     *)
(* below: one of the tree, one an insert or an embed is about to publish,  *)
(* or one another delete has yet to take out.                              *)
LEMMA ListedBelow ==
  ASSUME StoreInv, NEW p \in Path, pathMap[p] # Nil, list_children(p) # {}
  PROVE  \E q \in Path \ {Root} : parent_path(q) = p /\ pathMap[q] # Nil
  <1> DEFINE id == pathMap[p]
  <1>1. /\ MapsInv /\ NodesOK /\ ChildrenOK /\ id \in DOMAIN nodes
        /\ \A u \in Thread : NodeAt(u)
    BY DEF StoreInv, MapsInv, MapsOK, NodesOK, PublishedResolves, Mapped, ThreadOK, NodesAt
  <1>2. PICK c \in nodes[id].children : c \in DOMAIN nodes /\ pathMap[nodes[c].key] # Nil
    BY <1>1 DEF list_children, children_of
  <1>3. c \in Id /\ c # Nil /\ ~is_stub(c)
    BY <1>1, <1>2, Typed DEF ChildrenOK
  <1>4. \/ \E q \in Path \ {Root} : pathMap[q] = c /\ pathMap[parent_path(q)] = id
        \/ \E u \in Thread : Lists(u, id, c)
    BY <1>1, <1>2 DEF ChildrenOK
  <1>5. ASSUME NEW q \in Path \ {Root}, pathMap[parent_path(q)] = id
        PROVE  parent_path(q) = p
    <2>1. parent_path(q) \in Path
      BY PathType
    <2>2. QED
      BY <1>1, <1>5, <2>1, OnePath
  <1>6. CASE \E q \in Path \ {Root} : pathMap[q] = c /\ pathMap[parent_path(q)] = id
    BY <1>3, <1>5, <1>6
  <1>7. ASSUME NEW u \in Thread, Lists(u, id, c), pc[u] \in Linked, newId[u] = c
        PROVE  \E q \in Path \ {Root} : parent_path(q) = p /\ pathMap[q] # Nil
    <2>1. pc[u] \in Made /\ pc[u] \in Slotted
      BY <1>7 DEF Linked, Made
    <2>2. Target(u) \in Path \ {Root} /\ nodes[c].key = Target(u)
      BY <1>1, <1>7, <2>1, SlotOf DEF NodeAt
    <2>3. ~Stubbing(u)
      BY <1>1, <1>3, <1>7, <2>1, <2>2, SlotOf, StubIds
    <2>4. pathMap[parent_path(Target(u))] = id
      BY <1>1, <1>7, <2>1, <2>3, SlotOf DEF ParentOf, Lists
    <2>5. QED
      BY <1>2, <1>5, <2>2, <2>4
  <1>8. ASSUME NEW u \in Thread, Lists(u, id, c), pc[u] \in Removing, ownId[u] = c
        PROVE  \E q \in Path \ {Root} : parent_path(q) = p /\ pathMap[q] # Nil
    <2>1. /\ op[u].path \in Path \ {Root} /\ pathMap[parent_path(op[u].path)] = id
          /\ \A q \in Path : pathMap[q] # c
      BY <1>1, <1>3, <1>8, RemovedOf DEF Lists
    <2>2. CASE pc[u] \in {"delete_forget", "unregister"}
      BY <1>1, <1>2, <1>5, <1>8, <2>1, <2>2 DEF NodeAt
    <2>3. CASE pc[u] = "unlink"
      <3>1. PICK v \in Thread : Owns(v, c)
        BY <1>1, <1>2, <2>1 DEF NodesOK
      <3>2. v # u
        BY <2>3, <3>1 DEF Owns, Made, Slotted, Upgrading
      <3>3. CASE pc[v] \in Slotted /\ newId[v] = c
        BY <1>1, <1>8, <3>2, <3>3, ChosenNotRemoved
      <3>4. CASE pc[v] \in Upgrading /\ ownId[v] = c
        BY <1>1, <1>8, <3>2, <3>4, RetiredNotRemoved
      <3>5. CASE pc[v] \in Removing /\ ownId[v] = c
        BY <1>1, <1>8, <3>2, <3>5, RemovedApart
      <3>6. QED
        BY <3>1, <3>3, <3>4, <3>5 DEF Owns, Made, Removing
    <2>4. QED
      BY <1>8, <2>2, <2>3 DEF Removing
  <1>9. QED
    BY <1>4, <1>6, <1>7, <1>8 DEF Lists

LEMMA DeleteCheckSeen ==
  ASSUME StoreInv, StoreInv', NEW t \in Thread, Acts(t), DeleteCheck(t)
  PROVE  Seen
  <1> DEFINE p == op[t].path
  <1>1. /\ pc[t] = "delete_check" /\ pc[t] \notin Removing /\ pathMap' = pathMap
        /\ op[t].kind = "delete" /\ p \in Path
    BY DeleteKind DEF DeleteCheck, shared, Deleting, Removing
  <1>2. ~Write(t)
    BY <1>1 DEF Write
  <1>3. CASE pathMap[p] = Nil /\ Answer(t, "not_found")
    BY <1>1, <1>2, <1>3, DeleteSays
  <1>4. CASE pathMap[p] # Nil /\ list_children(p) # {} /\ Answer(t, "has_children")
    <2>1. \E q \in Path \ {Root} : parent_path(q) = p /\ pathMap[q] # Nil
      BY <1>1, <1>4, ListedBelow
    <2>2. QED
      BY <1>1, <1>2, <1>4, <2>1, DeleteSays
  <1>5. CASE reply' = reply /\ pc'[t] = "unmap"
    BY <1>1, <1>2, <1>5, Unseen DEF Continues, Removing
  <1>6. QED
    BY <1>3, <1>4, <1>5, Typed DEF DeleteCheck, Goto

(* The path goes, and no path below it is there.                           *)
LEMMA UnmappedSeen ==
  ASSUME StoreInv, StoreInv', NEW t \in Thread, Acts(t), Unmap(t)
  PROVE  Seen
  <1> DEFINE p == op[t].path
  <1>1. /\ pc[t] = "unmap" /\ pathMap' = [pathMap EXCEPT ![p] = Nil] /\ nodes' = nodes
    BY DEF Unmap
  <1>2. /\ p \in Path \ {Root} /\ op[t].kind = "delete" /\ pathMap[p] # Nil
        /\ \A q \in Path \ {Root} : parent_path(q) = p => pathMap[q] = Nil
    BY <1>1, Unmaps DEF StoreInv
  <1>3. pc'[t] = "delete_forget" /\ reply' = reply
    BY <1>2, Typed DEF Unmap, Goto
  <1>4. op' = op /\ op[t] # Idle /\ \A u \in Thread \ {t} : pc'[u] = pc[u]
    BY Goes, CallPath DEF Alike, Same
  <1>5. Settled[t] = Nil /\ Settled' = [Settled EXCEPT ![t] = <<"ok">>]
    <2>1. reply[t] = Nil
      BY <1>1, Typed DEF AnswersOK
    <2>2. QED
      BY <1>1, <1>3, <1>4, <2>1 DEF Settled
  <1>6. Content' = [Content EXCEPT ![p] = Nil]
    <2>1. Content'[p] = Nil
      BY <1>1, <1>2, Typed DEF Content
    <2>2. ASSUME NEW q \in Path \ {p} PROVE Content'[q] = Content[q]
      BY <1>1, <1>2, Typed DEF Content, DataOf
    <2>3. QED
      BY <1>2, <2>1, <2>2 DEF Content
  <1>7. Content[p] # Nil
    BY <1>2, ContentSays
  <1>8. ASSUME NEW q \in Path \ {<<>>}, Abstract!parent_path(q) = p PROVE Content[q] = Nil
    <2>1. parent_path(q) = p /\ q \in Path \ {Root}
      BY <1>8 DEF Root, Abstract!parent_path, parent_path
    <2>2. QED
      BY <1>2, <2>1, ContentSays
  <1>9. Abstract!Pending(t, {"delete"})
    BY <1>2, <1>4, <1>5 DEF Abstract!Pending
  <1>10. Abstract!Delete(t)
    BY <1>4, <1>5, <1>6, <1>7, <1>8, <1>9 DEF Abstract!Delete
  <1>11. QED
    BY <1>10 DEF Seen, Abstract!StoreNext

(* The rest of a delete is not seen.                                       *)
LEMMA RemovalSeen ==
  ASSUME StoreInv, StoreInv', NEW t \in Thread, Acts(t),
         DeleteForget(t) \/ Unregister(t) \/ Unlink(t)
  PROVE  Seen
  <1>1. /\ pc[t] \in Removing /\ pathMap' = pathMap
        /\ pc'[t] \in Removing \/ (pc'[t] = "return" /\ reply' = [reply EXCEPT ![t] = <<"ok">>])
        /\ pc'[t] \in Removing => reply' = reply
    BY Typed DEF DeleteForget, Unregister, Unlink, Answer, Goto, Removing
  <1>2. ~Write(t)
    BY <1>1 DEF Write, Removing
  <1>3. op' = op /\ \A u \in Thread \ {t} : pc'[u] = pc[u] /\ reply'[u] = reply[u]
    BY Goes DEF Alike, Same
  <1>4. pc'[t] = "return" => reply'[t] = <<"ok">>
    BY <1>1, Typed DEF Removing
  <1>5. Settled' = Settled
    BY <1>1, <1>3, <1>4 DEF Settled, Removing
  <1>6. QED
    BY <1>1, <1>2, <1>3, <1>5, AllKept DEF Seen

-----------------------------------------------------------------------------
(* The refinement *)

LEMMA InitSeen == Init => Abstract!StoreInit
  <1> SUFFICES ASSUME Init PROVE Abstract!StoreInit
    OBVIOUS
  <1>1. Content = OnlyRoot
    <2>1. DOMAIN nodes = {EmbeddedId(0, <<>>)} /\ nodes[EmbeddedId(0, <<>>)] = NewNode(Root, NoArg)
      BY DEF Init, Entry
    <2>2. EmbeddedId(0, <<>>) # Nil
      BY RootId, NilAssumption
    <2>3. ASSUME NEW p \in Path
          PROVE  Content[p] = IF p = Root THEN FreshData(NoArg) ELSE Nil
      <3>1. pathMap[p] = IF p = Root THEN EmbeddedId(0, <<>>) ELSE Nil
        BY DEF Init
      <3>2. DataOf(EmbeddedId(0, <<>>)) = FreshData(NoArg)
        BY <2>1 DEF DataOf, FreshData, NewNode
      <3>3. QED
        BY <2>1, <2>2, <3>1, <3>2 DEF Content
    <2>4. QED
      BY <2>3 DEF Content, OnlyRoot
  <1>2. op = [t \in Thread |-> Idle]
    BY DEF Init
  <1>3. Settled = [t \in Thread |-> Nil]
    BY DEF Init, Settled
  <1>4. QED
    BY <1>1, <1>2, <1>3 DEF Abstract!StoreInit

LEMMA ActsSeen ==
  ASSUME StoreInv, StoreInv', NEW t \in Thread, Acts(t)
  PROVE  Seen
  <1>1. CASE InsertStep(t)
    BY <1>1, CheckSeen, ResolveSeen, QuietSeen, PlaceSeen, PublishedSeen DEF InsertStep
  <1>2. CASE EmbedStep(t)
    BY <1>2, EmbedCheckSeen, EmbedWorkSeen, QuietSeen DEF EmbedStep
  <1>3. CASE DeleteStep(t)
    BY <1>3, DeleteReadSeen, QuietSeen, DeleteCheckSeen, UnmappedSeen, RemovalSeen DEF DeleteStep
  <1>4. CASE Write(t) \/ Read(t)
    BY <1>4, WriteSeen, ReadSeen
  <1>5. QED
    BY <1>1, <1>2, <1>3, <1>4 DEF Acts

LEMMA NextSeen ==
  ASSUME StoreInv, StoreInv', [Next]_vars
  PROVE  Seen
  <1>1. CASE Next
    BY <1>1, Steps, BeginSeen, ActsSeen, ReturnSeen
  <1>2. CASE UNCHANGED vars
    BY <1>2 DEF vars, shared, Seen, Content, Settled, DataOf
  <1>3. QED
    BY <1>1, <1>2

(* Every interleaving of the calls' steps is, to clients that keep the     *)
(* rules, a sequence of whole calls on a map of paths: each call takes     *)
(* effect at one step between its invocation and its response              *)
(* (HyperbolicTreeTensor's methods on &self).                              *)
THEOREM StoreImplemented ==
  ASSUME Rules \subseteq Discipline PROVE Spec => ImplementsPathStore
  <1>1. StoreInv /\ [Next]_vars => StoreInv'
    BY NextStore
  <1>2. StoreInv /\ StoreInv' /\ [Next]_vars
          => [Abstract!StoreNext]_<<Content, op, Settled>>
    BY NextSeen DEF Seen
  <1>3. QED
    BY InitStore, InitSeen, <1>1, <1>2, PTL DEF Spec, ImplementsPathStore, Abstract!StoreSpec

(* The step of embed_existing that swaps the ids shows every client the    *)
(* same data as before.                                                    *)
THEOREM EmbedCarriesData ==
  ASSUME Rules \subseteq Discipline PROVE Spec => EmbedKeepsData
  <1>1. StoreInv /\ [Next]_vars => StoreInv'
    BY NextStore
  <1>2. ASSUME StoreInv, [Next]_vars, NEW t \in Thread, pc[t] = "publish", pc'[t] = "forget"
        PROVE  Content' = Content
    <2>1. pc' # pc
      BY <1>2
    <2>2. PICK u \in Thread : (\E o \in Request : Begin(u, o)) \/ Acts(u) \/ Return(u)
      BY <1>2, <2>1, Steps DEF vars
    <2>3. u = t
      <3>1. \A v \in Thread \ {u} : pc'[v] = pc[v]
        BY <1>2, <2>2, Goes, Typed DEF Begin, Return, Goto, Alike, Same
      <3>2. QED
        BY <1>2, <3>1
    <2>4. Publish(t) /\ op[t].kind = "embed_existing"
      BY <1>2, <2>2, <2>3, Typed DEF Begin, Return, Acts, InsertStep, EmbedStep, DeleteStep,
         Check, Resolve, Lock, Recheck, StoreStub, Place, Register, Link, RecordPath, Publish,
         EmbedCheck, EmbedResolve, EmbedLock, EmbedRecheck, Snapshot, CopyCoords, Forget, Retire,
         Write, Read, DeleteRead, DeleteParent, DeleteLock, DeleteCheck, Unmap, DeleteForget,
         Unregister, Unlink, Answer, Goto
    <2>5. QED
      BY <1>2, <2>4, UpgradeKeeps
  <1>3. StoreInv /\ [Next]_vars
          => [\A t \in Thread : pc[t] = "publish" /\ pc'[t] = "forget" => Content' = Content]_vars
    BY <1>2
  <1>4. QED
    BY InitStore, <1>1, <1>3, PTL DEF Spec, EmbedKeepsData

==============================================================================
