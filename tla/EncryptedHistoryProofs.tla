------------------------ MODULE EncryptedHistoryProofs ------------------------
(***************************************************************************)
(* put keeps its promise, delete keeps its own, and replaced ciphertexts   *)
(* never come back: the invariants of EncryptedHistory, for every number   *)
(* of writers, keys and blobs.                                             *)
(*                                                                         *)
(* First, the types of EncryptedStore.  Next, what one step of it may do,  *)
(* seen by the history variables; each of these facts goes through every   *)
(* action once.  Then each invariant follows from them and Watch alone.    *)
(***************************************************************************)
EXTENDS EncryptedHistory, SequenceTheorems, TLAPS

----------------------------------------------------------------------------
\* The current blob of a put call is one of its keys.
LEMMA CurrentKey ==
    ASSUME TypeOK, NEW c \in Writers, pc[c] \in PutSteps
    PROVE  key(c) \in Keys
BY DEF TypeOK, key

\* Whatever a failing inner put leaves is an object again.
LEMMA FailedPutLeavesData ==
    ASSUME NEW old \in DataObjects, NEW new \in DataObjects,
           NEW left \in AfterFailedPut(old, new)
    PROVE  left \in DataObjects
BY DEF AfterFailedPut, Torn, DataObjects

LEMMA FailedPutLeavesHeader ==
    ASSUME NEW old \in HeaderObjects, NEW new \in HeaderObjects,
           NEW left \in AfterFailedPut(old, new)
    PROVE  left \in HeaderObjects
BY DEF AfterFailedPut, Torn, HeaderObjects

LEMMA NoObjects == NoData \in DataObjects /\ NoHeader \in HeaderObjects
BY BoundsAssumption DEF NoData, NoHeader, DataObjects, HeaderObjects, WriteIds, Epochs

LEMMA TypeInit == Init => TypeOK
BY NoObjects, BoundsAssumption DEF Init, TypeOK, WriteIds, Epochs, PutSteps

USE DEF objects, writerVars, rekeyVars

\* What is left of a batch of several blobs after its first is a batch.
LEMMA TailOfLonger ==
    ASSUME NEW S, NEW s \in Seq(S), Len(s) > 1
    PROVE  Tail(s) \in Seq(S) /\ Len(Tail(s)) = Len(s) - 1 /\ Tail(s) # <<>>
<1>1. s # <<>>
  BY EmptySeq
<1>2. Tail(s) \in Seq(S) /\ Len(Tail(s)) = Len(s) - 1
  BY <1>1, HeadTailProperties
<1>3. \A t \in Seq(S) : Len(t) = Len(s) - 1 => t # <<>>
  <2>1. Len(s) \in Nat
    BY LenProperties
  <2>2. QED
    BY <2>1, EmptySeq
<1>4. QED
  BY <1>2, <1>3

LEMMA PutKeepsTypes ==
    ASSUME TypeOK, NEW c \in Writers, PutNext(c)
    PROVE  TypeOK'
<1> USE BoundsAssumption, NoObjects DEF WriteIds, Epochs
<1>1. ASSUME NEW batch \in Batches, PutBegins(c, batch) PROVE TypeOK'
  BY <1>1, BatchesAssumption DEF PutBegins, TypeOK, PutSteps
<1>2. CASE DataStored(c)
  BY <1>2, CurrentKey DEF DataStored, Goto, TypeOK, PutSteps, DataObjects
<1>3. CASE PrefixStored(c)
  BY <1>3, CurrentKey DEF PrefixStored, Goto, TypeOK, PutSteps, DataObjects
<1>4. CASE DataFails(c)
  <2>1. [write |-> write[c], whole |-> TRUE] \in DataObjects
    BY DEF TypeOK, DataObjects
  <2>2. key(c) \in Keys /\ data[key(c)] \in DataObjects
    BY <1>4, CurrentKey DEF DataFails, TypeOK, PutSteps
  <2>3. PICK left \in AfterFailedPut(data[key(c)], [write |-> write[c], whole |-> TRUE]) :
          data' = [data EXCEPT ![key(c)] = left]
    BY <1>4 DEF DataFails
  <2>4. left \in DataObjects
    BY <2>1, <2>2, FailedPutLeavesData
  <2>5. QED
    BY <1>4, <2>2, <2>3, <2>4 DEF DataFails, Return, TypeOK, PutSteps
<1>5. CASE EncryptionReturns(c)
  BY <1>5 DEF EncryptionReturns, Goto, TypeOK, PutSteps, HeaderObjects
<1>6. CASE EncryptionFails(c)
  BY <1>6 DEF EncryptionFails, Goto, TypeOK, PutSteps
<1>7. CASE HeaderStoredLast(c)
  BY <1>7, CurrentKey DEF HeaderStoredLast, Return, TypeOK, PutSteps
<1>8. CASE HeaderStored(c)
  <2>1. /\ queue[c] \in Seq(Keys)
        /\ Len(queue[c]) > 1
        /\ key(c) \in Keys
    BY <1>8, CurrentKey DEF HeaderStored, TypeOK, PutSteps
  <2>2. /\ Tail(queue[c]) \in Seq(Keys)
        /\ Len(Tail(queue[c])) = Len(queue[c]) - 1
        /\ Tail(queue[c]) # <<>>
    BY <2>1, TailOfLonger
  <2>3. write[c] + 1 \in WriteIds /\ write[c] + 1 > 0
    BY <1>8, <2>1 DEF HeaderStored, TypeOK, PutSteps
  <2>4. QED
    BY <1>8, <2>1, <2>2, <2>3 DEF HeaderStored, TypeOK, PutSteps
<1>9. CASE HeaderFails(c)
  BY <1>9, CurrentKey, FailedPutLeavesHeader DEF HeaderFails, Goto, TypeOK, PutSteps
<1>10. CASE Rollback(c)
  BY <1>10, CurrentKey DEF Rollback, Return, TypeOK, PutSteps
<1>11. QED
  BY <1>1, <1>2, <1>3, <1>4, <1>5, <1>6, <1>7, <1>8, <1>9, <1>10 DEF PutNext

LEMMA DeleteKeepsTypes ==
    ASSUME TypeOK, NEW c \in Writers, DeleteNext(c)
    PROVE  TypeOK'
<1> USE BoundsAssumption, NoObjects DEF WriteIds, Epochs
<1>1. ASSUME NEW batch \in Batches, DeleteBegins(c, batch) PROVE TypeOK'
  <2>1. Range(batch) \subseteq Keys
    BY <1>1 DEF DeleteBegins, Range
  <2>2. QED
    BY <1>1, <2>1 DEF DeleteBegins, TypeOK, PutSteps, InnerKeys
<1>2. ASSUME NEW k \in Keys, DataDeleted(c, k) PROVE TypeOK'
  BY <1>2 DEF DataDeleted, TypeOK, PutSteps
<1>3. ASSUME NEW k \in Keys, DataDeleteFails(c, k) PROVE TypeOK'
  BY <1>3 DEF DataDeleteFails, TypeOK, PutSteps
<1>4. ASSUME NEW k \in Keys, HeaderDeleted(c, k) PROVE TypeOK'
  BY <1>4 DEF HeaderDeleted, TypeOK, PutSteps
<1>5. CASE DeleteReturns(c)
  BY <1>5 DEF DeleteReturns, Return, TypeOK, PutSteps
<1>6. CASE DeleteFails(c)
  BY <1>6 DEF DeleteFails, Return, TypeOK, PutSteps
<1>7. QED
  BY <1>1, <1>2, <1>3, <1>4, <1>5, <1>6 DEF DeleteNext

LEMMA StoppingKeepsTypes ==
    ASSUME TypeOK, NEW c \in Writers, Abandoned(c)
    PROVE  TypeOK'
<1> USE BoundsAssumption, NoObjects DEF WriteIds, Epochs
<1>1. data' \in [Keys -> DataObjects]
  <2>1. CASE pc[c] = "data"
    <3>1. [write |-> write[c], whole |-> TRUE] \in DataObjects
      BY DEF TypeOK, DataObjects
    <3>2. key(c) \in Keys /\ data[key(c)] \in DataObjects
      BY <2>1, CurrentKey DEF TypeOK, PutSteps
    <3>3. QED
      BY <2>1, <3>1, <3>2, FailedPutLeavesData DEF Abandoned, TypeOK
  <2>2. CASE pc[c] # "data"
    BY <2>2 DEF Abandoned, TypeOK
  <2>3. QED  BY <2>1, <2>2
<1>2. header' \in [Keys -> HeaderObjects]
  <2>1. CASE pc[c] = "header"
    <3>1. key(c) \in Keys /\ header[key(c)] \in HeaderObjects /\ wrapped[c] \in HeaderObjects
      BY <2>1, CurrentKey DEF TypeOK, PutSteps
    <3>2. QED
      BY <2>1, <3>1, FailedPutLeavesHeader DEF Abandoned, TypeOK
  <2>2. CASE pc[c] # "header"
    BY <2>2 DEF Abandoned, TypeOK
  <2>3. QED  BY <2>1, <2>2
<1>3. QED
  BY <1>1, <1>2 DEF Abandoned, Return, TypeOK, PutSteps

LEMMA RekeyKeepsTypes ==
    ASSUME TypeOK, RekeyNext
    PROVE  TypeOK'
<1> USE BoundsAssumption, NoObjects DEF WriteIds, Epochs
<1>1. CASE RekeyBegins
  BY <1>1 DEF RekeyBegins, TypeOK
<1>2. ASSUME NEW k \in Keys, RekeyFetches(k) PROVE TypeOK'
  BY <1>2 DEF RekeyFetches, TypeOK
<1>3. ASSUME NEW k \in Keys, RekeySkips(k) PROVE TypeOK'
  BY <1>3 DEF RekeySkips, TypeOK
<1>4. CASE RekeyWraps
  BY <1>4 DEF RekeyWraps, TypeOK, HeaderObjects
<1>5. CASE RekeyKeeps
  BY <1>5 DEF RekeyKeeps, RekeyMovesOn, TypeOK
<1>6. CASE RekeyStores
  BY <1>6 DEF RekeyStores, RekeyMovesOn, TypeOK
<1>7. CASE RekeyStoreFails
  <2>1. rkKey \in Keys /\ header[rkKey] \in HeaderObjects /\ rkHeader \in HeaderObjects
    BY <1>7 DEF RekeyStoreFails, TypeOK
  <2>2. header' \in [Keys -> HeaderObjects]
    BY <1>7, <2>1, FailedPutLeavesHeader DEF RekeyStoreFails, TypeOK
  <2>3. QED
    BY <1>7, <2>2 DEF RekeyStoreFails, RekeyMovesOn, TypeOK
<1>8. CASE RekeyReturns
  BY <1>8 DEF RekeyReturns, TypeOK
<1>9. CASE RekeyAborts
  BY <1>9 DEF RekeyAborts, TypeOK
<1>10. QED
  BY <1>1, <1>2, <1>3, <1>4, <1>5, <1>6, <1>7, <1>8, <1>9 DEF RekeyNext

LEMMA TypeStep == TypeOK /\ [Next]_vars => TypeOK'
<1> SUFFICES ASSUME TypeOK, [Next]_vars PROVE TypeOK'
  OBVIOUS
<1>1. ASSUME NEW c \in Writers, WriterNext(c) PROVE TypeOK'
  <2>1. ASSUME NEW batch \in Batches, CallRejected(c, batch) PROVE TypeOK'
    BY <2>1 DEF CallRejected, TypeOK
  <2>2. QED
    BY <1>1, <2>1, PutKeepsTypes, DeleteKeepsTypes, StoppingKeepsTypes DEF WriterNext
<1>2. CASE RekeyNext
  BY <1>2, RekeyKeepsTypes
<1>3. CASE EpochAdvances
  BY <1>3, BoundsAssumption DEF EpochAdvances, TypeOK, Epochs
<1>4. CASE UNCHANGED vars
  BY <1>4 DEF vars, TypeOK
<1>5. QED
  BY <1>1, <1>2, <1>3, <1>4 DEF Next

\* The variables of EncryptedStore keep their types whatever writers, rekey
\* passes and failures do; a put call never runs out of handed-out numbers.
THEOREM TypeCorrect == Spec => []TypeOK
BY TypeInit, TypeStep, PTL DEF Spec

----------------------------------------------------------------------------
TurnEffect ==
    \A c \in Writers :
        TurnBegins(c) \/ AtWork(c)' = {} \/ AtWork(c)' = AtWork(c)

DataEffect ==
    \A k \in Keys :
        \/ data'[k] = data[k]
        \/ \E c \in Writers :
              /\ k \in AtWork(c)
              /\ pc[c] \notin {"wait", "header"}
              /\ \/ data'[k] = NoData
                 \/ pc[c] = "data" /\ data'[k].write = write[c]

HeaderEffect ==
    \A k \in Keys :
        \/ header'[k] = header[k]
        \/ \E c \in Writers : k \in AtWork(c)
        \/ RekeyWrote(k) /\ header'[k] \in AfterFailedPut(header[k], rkHeader)

RekeyEffect ==
    /\ rkPc' # "idle" => rkPc # "idle" \/ Rekeys
    /\ RekeyHolds' =>
        \/ /\ RekeyHolds
           /\ rkKey' = rkKey
           /\ rkHeader'.write = rkHeader.write
           /\ rkHeader'.whole = rkHeader.whole
        \/ /\ rkPc = "walk"
           /\ header' = header
           /\ rkHeader' = header[rkKey']

StoredEffect ==
    \A c \in Writers : BlobStored(c) =>
        /\ pc[c] = "header"
        /\ header' = [header EXCEPT ![key(c)] = wrapped[c]]
        /\ data' = data

ToldEffect ==
    \A c \in Writers : \A k \in ToldGone(c) :
        k \notin failed[c] /\ pending[c] = {} /\ data' = data

PutEffect ==
    \A c \in Writers : pc'[c] \in {"wait", "header"} =>
        /\ queue'[c] = queue[c] /\ write'[c] = write[c]
        /\ \/ pc[c] = "data" /\ pc'[c] = "wait"
              /\ data'[key(c)] = [write |-> write[c], whole |-> TRUE]
           \/ pc[c] \in {"wait", "header"}
        /\ pc'[c] = "header" =>
              \/ pc[c] = "header" /\ wrapped'[c] = wrapped[c]
              \/ wrapped'[c].write = write[c] /\ wrapped'[c].whole

DeleteEffect ==
    \A c \in Writers : pc'[c] = "delete" =>
        \/ pc[c] # "delete" /\ \A k \in targets'[c] : <<k, "data">> \in pending'[c]
        \/ /\ pc[c] = "delete"
           /\ targets'[c] = targets[c]
           /\ failed[c] \subseteq failed'[c]
           /\ \A k \in targets[c] \ failed'[c] : <<k, "data">> \in pending[c] =>
                 <<k, "data">> \in pending'[c] \/ data'[k] = NoData

OverEffect ==
    /\ Over \subseteq Over'
    /\ 0 \notin Over
    /\ \A c \in Writers : pc[c] \in PutSteps => write[c] \notin Over

\* The inner batch of a delete call holds only keys of that call.
LEMMA PendingKey ==
    ASSUME TypeOK, NEW c \in Writers, NEW k, NEW part, <<k, part>> \in pending[c]
    PROVE  k \in targets[c]
<1>1. pending[c] \subseteq targets[c] \X {"data", "header"}
  BY DEF TypeOK
<1>2. QED
  BY <1>1

\* A writer is at work on the same key until its turn ends or the next begins.
LEMMA TurnEffects == ASSUME TypeOK, Next PROVE TurnEffect
<1> USE DEF TypeOK, PutSteps, TurnEffect, TurnBegins, PutTurnBegins, DeleteTurnBegins, AtWork, key
<1>1. ASSUME NEW c \in Writers, PutNext(c) PROVE TurnEffect
  <2>1. CASE \E batch \in Batches : PutBegins(c, batch)
    BY <2>1 DEF PutBegins
  <2>2. CASE DataStored(c) \/ PrefixStored(c) \/ EncryptionReturns(c)
    BY <2>2 DEF DataStored, PrefixStored, EncryptionReturns, Goto
  <2>3. CASE DataFails(c)
    BY <2>3 DEF DataFails, Return
  <2>4. CASE EncryptionFails(c)
    BY <2>4 DEF EncryptionFails, Goto
  <2>5. CASE Rollback(c)
    BY <2>5 DEF Rollback, Return
  <2>6. CASE HeaderStoredLast(c) \/ HeaderStored(c)
    BY <2>6 DEF HeaderStoredLast, HeaderStored, Goto, Return
  <2>7. CASE HeaderFails(c)
    BY <2>7 DEF HeaderFails, Goto, Return
  <2>8. QED
    BY <1>1, <2>1, <2>2, <2>3, <2>4, <2>5, <2>6, <2>7 DEF PutNext
<1>2. ASSUME NEW c \in Writers, DeleteNext(c) PROVE TurnEffect
  <2>1. CASE \E batch \in Batches : DeleteBegins(c, batch)
    BY <2>1 DEF DeleteBegins
  <2>2. CASE \E k \in Keys : DataDeleted(c, k) \/ DataDeleteFails(c, k)
    BY <2>2 DEF DataDeleted, DataDeleteFails
  <2>3. CASE \E k \in Keys : HeaderDeleted(c, k)
    BY <2>3 DEF HeaderDeleted
  <2>4. CASE DeleteReturns(c)
    BY <2>4 DEF DeleteReturns, Return
  <2>5. CASE DeleteFails(c)
    BY <2>5 DEF DeleteFails, Return
  <2>6. QED
    BY <1>2, <2>1, <2>2, <2>3, <2>4, <2>5 DEF DeleteNext
<1>3. ASSUME NEW c \in Writers, Abandoned(c) PROVE TurnEffect
  BY <1>3 DEF Abandoned, Return
<1>4. ASSUME NEW c \in Writers, NEW batch \in Batches, CallRejected(c, batch) PROVE TurnEffect
  BY <1>4 DEF CallRejected
<1>5. CASE RekeyNext
  BY <1>5
  DEF RekeyNext, RekeyBegins, RekeyFetches, RekeySkips, RekeyWraps, RekeyKeeps, RekeyStores,
      RekeyStoreFails, RekeyReturns, RekeyAborts, RekeyMovesOn
<1>6. CASE EpochAdvances
  BY <1>6 DEF EpochAdvances
<1>7. QED
  BY <1>1, <1>2, <1>3, <1>4, <1>5, <1>6 DEF Next, WriterNext

\* Data objects change only in turns on their key.
LEMMA DataEffects == ASSUME TypeOK, Next PROVE DataEffect
<1> USE DEF TypeOK, PutSteps, DataEffect, AtWork, key, AfterFailedPut, Torn
<1>1. ASSUME NEW c \in Writers, PutNext(c) PROVE DataEffect
  BY <1>1
  DEF PutNext, PutBegins, DataStored, PrefixStored, DataFails, EncryptionReturns,
      EncryptionFails, HeaderStoredLast, HeaderStored, HeaderFails, Rollback, Goto, Return
<1>2. ASSUME NEW c \in Writers, DeleteNext(c) PROVE DataEffect
  <2>1. ASSUME NEW k \in Keys, DataDeleted(c, k) PROVE DataEffect
    BY <2>1, PendingKey DEF DataDeleted
  <2>2. ASSUME NEW k \in Keys, DataDeleteFails(c, k) PROVE DataEffect
    BY <2>2, PendingKey DEF DataDeleteFails
  <2>3. ASSUME NEW k \in Keys, HeaderDeleted(c, k) PROVE DataEffect
    BY <2>3, PendingKey DEF HeaderDeleted
  <2>4. QED
    BY <1>2, <2>1, <2>2, <2>3 DEF DeleteNext, DeleteBegins, DeleteReturns, DeleteFails, Return
<1>3. ASSUME NEW c \in Writers, Abandoned(c) PROVE DataEffect
  BY <1>3 DEF Abandoned, Return
<1>4. ASSUME NEW c \in Writers, NEW batch \in Batches, CallRejected(c, batch) PROVE DataEffect
  BY <1>4 DEF CallRejected
<1>5. CASE RekeyNext
  BY <1>5
  DEF RekeyNext, RekeyBegins, RekeyFetches, RekeySkips, RekeyWraps, RekeyKeeps, RekeyStores,
      RekeyStoreFails, RekeyReturns, RekeyAborts, RekeyMovesOn
<1>6. CASE EpochAdvances
  BY <1>6 DEF EpochAdvances
<1>7. QED
  BY <1>1, <1>2, <1>3, <1>4, <1>5, <1>6 DEF Next, WriterNext

\* Headers change only in turns on their key and when a rekey pass writes.
LEMMA HeaderEffects == ASSUME TypeOK, Next PROVE HeaderEffect
<1> USE DEF TypeOK, PutSteps, HeaderEffect, AtWork, key, RekeyWrote, AfterFailedPut
<1>1. ASSUME NEW c \in Writers, PutNext(c) PROVE HeaderEffect
  BY <1>1
  DEF PutNext, PutBegins, DataStored, PrefixStored, DataFails, EncryptionReturns,
      EncryptionFails, HeaderStoredLast, HeaderStored, HeaderFails, Rollback, Goto, Return
<1>2. ASSUME NEW c \in Writers, DeleteNext(c) PROVE HeaderEffect
  <2>1. ASSUME NEW k \in Keys, DataDeleted(c, k) PROVE HeaderEffect
    BY <2>1, PendingKey DEF DataDeleted
  <2>2. ASSUME NEW k \in Keys, DataDeleteFails(c, k) PROVE HeaderEffect
    BY <2>2, PendingKey DEF DataDeleteFails
  <2>3. ASSUME NEW k \in Keys, HeaderDeleted(c, k) PROVE HeaderEffect
    BY <2>3, PendingKey DEF HeaderDeleted
  <2>4. QED
    BY <1>2, <2>1, <2>2, <2>3 DEF DeleteNext, DeleteBegins, DeleteReturns, DeleteFails, Return
<1>3. ASSUME NEW c \in Writers, Abandoned(c) PROVE HeaderEffect
  BY <1>3 DEF Abandoned, Return
<1>4. ASSUME NEW c \in Writers, NEW batch \in Batches, CallRejected(c, batch) PROVE HeaderEffect
  BY <1>4 DEF CallRejected
<1>5. CASE RekeyNext
  BY <1>5
  DEF RekeyNext, RekeyBegins, RekeyFetches, RekeySkips, RekeyWraps, RekeyKeeps, RekeyStores,
      RekeyStoreFails, RekeyReturns, RekeyAborts, RekeyMovesOn
<1>6. CASE EpochAdvances
  BY <1>6 DEF EpochAdvances
<1>7. QED
  BY <1>1, <1>2, <1>3, <1>4, <1>5, <1>6 DEF Next, WriterNext

\* A rekey pass holds the header it read, under whichever master key.
LEMMA RekeyEffects == ASSUME TypeOK, Next PROVE RekeyEffect
<1> USE DEF TypeOK, PutSteps, RekeyEffect, RekeyHolds, HeaderObjects
<1>1. ASSUME NEW c \in Writers, PutNext(c) PROVE RekeyEffect
  BY <1>1
  DEF PutNext, PutBegins, DataStored, PrefixStored, DataFails, EncryptionReturns,
      EncryptionFails, HeaderStoredLast, HeaderStored, HeaderFails, Rollback, Goto, Return
<1>2. ASSUME NEW c \in Writers, DeleteNext(c) PROVE RekeyEffect
  BY <1>2
  DEF DeleteNext, DeleteBegins, DataDeleted, DataDeleteFails, HeaderDeleted,
      DeleteReturns, DeleteFails, Return
<1>3. ASSUME NEW c \in Writers, Abandoned(c) PROVE RekeyEffect
  BY <1>3 DEF Abandoned, Return
<1>4. ASSUME NEW c \in Writers, NEW batch \in Batches, CallRejected(c, batch) PROVE RekeyEffect
  BY <1>4 DEF CallRejected
<1>5. CASE RekeyNext
  BY <1>5, BoundsAssumption
  DEF RekeyNext, RekeyBegins, RekeyFetches, RekeySkips, RekeyWraps, RekeyKeeps, RekeyStores,
      RekeyStoreFails, RekeyReturns, RekeyAborts, RekeyMovesOn
<1>6. CASE EpochAdvances
  BY <1>6 DEF EpochAdvances
<1>7. QED
  BY <1>1, <1>2, <1>3, <1>4, <1>5, <1>6 DEF Next, WriterNext

\* put goes on to the next blob, or returns Ok, only by storing the header.
LEMMA StoredEffects == ASSUME TypeOK, Next PROVE StoredEffect
<1> USE DEF TypeOK, PutSteps, StoredEffect, BlobStored, PutTurnBegins, key
<1>1. ASSUME NEW c \in Writers, PutNext(c) PROVE StoredEffect
  BY <1>1
  DEF PutNext, PutBegins, DataStored, PrefixStored, DataFails, EncryptionReturns,
      EncryptionFails, HeaderStoredLast, HeaderStored, HeaderFails, Rollback, Goto, Return
<1>2. ASSUME NEW c \in Writers, DeleteNext(c) PROVE StoredEffect
  BY <1>2
  DEF DeleteNext, DeleteBegins, DataDeleted, DataDeleteFails, HeaderDeleted,
      DeleteReturns, DeleteFails, Return
<1>3. ASSUME NEW c \in Writers, Abandoned(c) PROVE StoredEffect
  BY <1>3 DEF Abandoned, Return
<1>4. ASSUME NEW c \in Writers, NEW batch \in Batches, CallRejected(c, batch) PROVE StoredEffect
  BY <1>4 DEF CallRejected
<1>5. CASE RekeyNext
  BY <1>5
  DEF RekeyNext, RekeyBegins, RekeyFetches, RekeySkips, RekeyWraps, RekeyKeeps, RekeyStores,
      RekeyStoreFails, RekeyReturns, RekeyAborts, RekeyMovesOn
<1>6. CASE EpochAdvances
  BY <1>6 DEF EpochAdvances
<1>7. QED
  BY <1>1, <1>2, <1>3, <1>4, <1>5, <1>6 DEF Next, WriterNext

\* delete reports as deleted only keys whose data it deleted.
LEMMA ToldEffects == ASSUME TypeOK, Next PROVE ToldEffect
<1> USE DEF TypeOK, PutSteps, ToldEffect, ToldGone
<1>1. ASSUME NEW c \in Writers, PutNext(c) PROVE ToldEffect
  BY <1>1
  DEF PutNext, PutBegins, DataStored, PrefixStored, DataFails, EncryptionReturns,
      EncryptionFails, HeaderStoredLast, HeaderStored, HeaderFails, Rollback, Goto, Return
<1>2. ASSUME NEW c \in Writers, DeleteNext(c) PROVE ToldEffect
  <2>1. CASE \E batch \in Batches : DeleteBegins(c, batch)
    BY <2>1 DEF DeleteBegins
  <2>2. CASE \E k \in Keys : DataDeleted(c, k) \/ DataDeleteFails(c, k)
    BY <2>2 DEF DataDeleted, DataDeleteFails
  <2>3. CASE \E k \in Keys : HeaderDeleted(c, k)
    BY <2>3 DEF HeaderDeleted
  <2>4. CASE DeleteReturns(c)
    BY <2>4 DEF DeleteReturns, Return
  <2>5. CASE DeleteFails(c)
    BY <2>5 DEF DeleteFails, Return
  <2>6. QED
    BY <1>2, <2>1, <2>2, <2>3, <2>4, <2>5 DEF DeleteNext
<1>3. ASSUME NEW c \in Writers, Abandoned(c) PROVE ToldEffect
  BY <1>3 DEF Abandoned, Return
<1>4. ASSUME NEW c \in Writers, NEW batch \in Batches, CallRejected(c, batch) PROVE ToldEffect
  BY <1>4 DEF CallRejected
<1>5. CASE RekeyNext
  BY <1>5
  DEF RekeyNext, RekeyBegins, RekeyFetches, RekeySkips, RekeyWraps, RekeyKeeps, RekeyStores,
      RekeyStoreFails, RekeyReturns, RekeyAborts, RekeyMovesOn
<1>6. CASE EpochAdvances
  BY <1>6 DEF EpochAdvances
<1>7. QED
  BY <1>1, <1>2, <1>3, <1>4, <1>5, <1>6 DEF Next, WriterNext

\* put waits for a header only after it stored the whole ciphertext.
LEMMA PutEffects == ASSUME TypeOK, Next PROVE PutEffect
<1> USE DEF TypeOK, PutSteps, PutEffect
<1>1. ASSUME NEW c \in Writers, PutNext(c) PROVE PutEffect
  <2>1. CASE DataStored(c)
    <3>1. key(c) \in Keys
      BY <2>1, CurrentKey DEF DataStored
    <3>2. QED
      BY <2>1, <3>1 DEF DataStored, Goto
  <2>2. CASE EncryptionReturns(c)
    BY <2>2 DEF EncryptionReturns, Goto
  <2>3. CASE ~DataStored(c) /\ ~EncryptionReturns(c)
    BY <1>1, <2>3
    DEF PutNext, PutBegins, PrefixStored, DataFails, EncryptionFails, HeaderStoredLast,
        HeaderStored, HeaderFails, Rollback, Goto, Return
  <2>4. QED
    BY <2>1, <2>2, <2>3
<1>2. ASSUME NEW c \in Writers, DeleteNext(c) PROVE PutEffect
  BY <1>2
  DEF DeleteNext, DeleteBegins, DataDeleted, DataDeleteFails, HeaderDeleted,
      DeleteReturns, DeleteFails, Return
<1>3. ASSUME NEW c \in Writers, Abandoned(c) PROVE PutEffect
  BY <1>3 DEF Abandoned, Return
<1>4. ASSUME NEW c \in Writers, NEW batch \in Batches, CallRejected(c, batch) PROVE PutEffect
  BY <1>4 DEF CallRejected
<1>5. CASE RekeyNext
  BY <1>5
  DEF RekeyNext, RekeyBegins, RekeyFetches, RekeySkips, RekeyWraps, RekeyKeeps, RekeyStores,
      RekeyStoreFails, RekeyReturns, RekeyAborts, RekeyMovesOn
<1>6. CASE EpochAdvances
  BY <1>6 DEF EpochAdvances
<1>7. QED
  BY <1>1, <1>2, <1>3, <1>4, <1>5, <1>6 DEF Next, WriterNext

\* delete forgets a data key only by deleting it or listing it as failed.
LEMMA DeleteEffects == ASSUME TypeOK, Next PROVE DeleteEffect
<1> USE DEF TypeOK, PutSteps, DeleteEffect, key, Range, NoData
<1>1. ASSUME NEW c \in Writers, PutNext(c) PROVE DeleteEffect
  BY <1>1
  DEF PutNext, PutBegins, DataStored, PrefixStored, DataFails, EncryptionReturns,
      EncryptionFails, HeaderStoredLast, HeaderStored, HeaderFails, Rollback, Goto, Return
<1>2. ASSUME NEW c \in Writers, DeleteNext(c) PROVE DeleteEffect
  <2>1. ASSUME NEW k \in Keys, DataDeleted(c, k) PROVE DeleteEffect
    BY <2>1 DEF DataDeleted
  <2>2. ASSUME NEW k \in Keys, DataDeleteFails(c, k) PROVE DeleteEffect
    BY <2>2 DEF DataDeleteFails
  <2>3. ASSUME NEW k \in Keys, HeaderDeleted(c, k) PROVE DeleteEffect
    BY <2>3 DEF HeaderDeleted
  <2>4. ASSUME NEW batch \in Batches, DeleteBegins(c, batch) PROVE DeleteEffect
    BY <2>4 DEF DeleteBegins
  <2>5. QED
    BY <1>2, <2>1, <2>2, <2>3, <2>4 DEF DeleteNext, DeleteReturns, DeleteFails, Return
<1>3. ASSUME NEW c \in Writers, Abandoned(c) PROVE DeleteEffect
  BY <1>3 DEF Abandoned, Return
<1>4. ASSUME NEW c \in Writers, NEW batch \in Batches, CallRejected(c, batch) PROVE DeleteEffect
  BY <1>4 DEF CallRejected
<1>5. CASE RekeyNext
  BY <1>5
  DEF RekeyNext, RekeyBegins, RekeyFetches, RekeySkips, RekeyWraps, RekeyKeeps, RekeyStores,
      RekeyStoreFails, RekeyReturns, RekeyAborts, RekeyMovesOn
<1>6. CASE EpochAdvances
  BY <1>6 DEF EpochAdvances
<1>7. QED
  BY <1>1, <1>2, <1>3, <1>4, <1>5, <1>6 DEF Next, WriterNext
\* A write that is over stays over; the write of a running turn is not over.
LEMMA OverEffects == ASSUME TypeOK, Next PROVE OverEffect
<1>1. 0 \notin Over
  BY DEF Over
<1>2. ASSUME NEW c \in Writers, pc[c] \in PutSteps PROVE write[c] \notin Over
  <2>1. queue[c] \in Seq(Keys) /\ queue[c] # <<>> /\ write[c] \in Nat
    BY <1>2 DEF TypeOK, WriteIds
  <2>2. Len(queue[c]) \in Nat /\ Len(queue[c]) # 0
    BY <2>1, EmptySeq, LenProperties
  <2>3. write[c] < write[c] + Len(queue[c])
    BY <2>1, <2>2
  <2>4. QED
    BY <1>2, <2>3 DEF Over
<1>3. ASSUME NEW w \in Over PROVE w \in Over'
  <2>1. lastWrite \in Nat /\ lastWrite' \in Nat /\ lastWrite <= lastWrite'
    <3>1. TypeOK'
      BY TypeStep
    <3>2. lastWrite' = lastWrite \/ \E batch \in Seq(Keys) : lastWrite' = lastWrite + Len(batch)
      <4>1. ASSUME NEW c \in Writers, NEW batch \in Batches, PutBegins(c, batch)
            PROVE  batch \in Seq(Keys) /\ lastWrite' = lastWrite + Len(batch)
        BY <4>1 DEF PutBegins
      <4>2. ASSUME NEW c \in Writers, PutNext(c), ~ \E batch \in Batches : PutBegins(c, batch)
            PROVE  lastWrite' = lastWrite
        BY <4>2 DEF PutNext, DataStored, PrefixStored, DataFails, EncryptionReturns,
          EncryptionFails, HeaderStoredLast, HeaderStored, HeaderFails, Rollback
      <4>3. ASSUME NEW c \in Writers, DeleteNext(c) PROVE lastWrite' = lastWrite
        BY <4>3 DEF DeleteNext, DeleteBegins, DataDeleted, DataDeleteFails, HeaderDeleted,
          DeleteReturns, DeleteFails
      <4>4. ASSUME NEW c \in Writers,
                   Abandoned(c) \/ \E batch \in Batches : CallRejected(c, batch)
            PROVE  lastWrite' = lastWrite
        BY <4>4 DEF Abandoned, CallRejected
      <4>5. CASE RekeyNext \/ EpochAdvances
        BY <4>5 DEF RekeyNext, EpochAdvances, RekeyBegins, RekeyFetches, RekeySkips,
          RekeyWraps, RekeyKeeps, RekeyStores, RekeyStoreFails, RekeyReturns, RekeyAborts
      <4>6. QED
        BY <4>1, <4>2, <4>3, <4>4, <4>5 DEF Next, WriterNext
    <3>3. QED
      BY <3>1, <3>2, LenProperties DEF TypeOK, WriteIds
  <2>2. w \in 1 .. lastWrite'
    BY <2>1 DEF Over
  <2>3. ASSUME NEW c \in Writers, pc'[c] \in PutSteps, write'[c] <= w, w < write'[c] + Len(queue'[c])
        PROVE  FALSE
    <3>1. \/ pc[c] \in PutSteps /\ write'[c] = write[c] /\ queue'[c] = queue[c]
          \/ pc[c] \in PutSteps /\ Len(queue[c]) > 1
               /\ write'[c] = write[c] + 1 /\ queue'[c] = Tail(queue[c])
          \/ write'[c] = lastWrite + 1
      <4> DEFINE Moves == \/ pc[c] \in PutSteps /\ write'[c] = write[c] /\ queue'[c] = queue[c]
                          \/ pc[c] \in PutSteps /\ Len(queue[c]) > 1
                               /\ write'[c] = write[c] + 1 /\ queue'[c] = Tail(queue[c])
                          \/ write'[c] = lastWrite + 1
      <4> USE <2>3 DEF TypeOK, PutSteps
      <4>1. ASSUME NEW d \in Writers, PutNext(d) PROVE Moves
        BY <4>1
        DEF PutNext, PutBegins, DataStored, PrefixStored, DataFails, EncryptionReturns,
            EncryptionFails, HeaderStoredLast, HeaderStored, HeaderFails, Rollback, Goto, Return
      <4>2. ASSUME NEW d \in Writers, DeleteNext(d) PROVE Moves
        BY <4>2
        DEF DeleteNext, DeleteBegins, DataDeleted, DataDeleteFails, HeaderDeleted,
            DeleteReturns, DeleteFails, Return
      <4>3. ASSUME NEW d \in Writers, Abandoned(d) PROVE Moves
        BY <4>3 DEF Abandoned, Return
      <4>4. ASSUME NEW d \in Writers, NEW batch \in Batches, CallRejected(d, batch) PROVE Moves
        BY <4>4 DEF CallRejected
      <4>5. CASE RekeyNext \/ EpochAdvances
        BY <4>5
        DEF RekeyNext, RekeyBegins, RekeyFetches, RekeySkips, RekeyWraps, RekeyKeeps, RekeyStores,
            RekeyStoreFails, RekeyReturns, RekeyAborts, EpochAdvances
      <4>6. QED
        BY <4>1, <4>2, <4>3, <4>4, <4>5 DEF Next, WriterNext
    <3>2. write[c] \in Nat /\ queue[c] \in Seq(Keys)
      BY DEF TypeOK, WriteIds
    <3>3. Len(queue[c]) \in Nat
      BY <3>2, LenProperties
    <3>4. Len(queue[c]) > 1 => Len(Tail(queue[c])) = Len(queue[c]) - 1
      BY <3>2, TailOfLonger
    <3>5. w \in 1 .. lastWrite /\ ~(pc[c] \in PutSteps /\ write[c] <= w /\ w < write[c] + Len(queue[c]))
      BY DEF Over
    <3>6. CASE pc[c] \in PutSteps /\ write'[c] = write[c] /\ queue'[c] = queue[c]
      BY <2>3, <3>5, <3>6
    <3>7. CASE /\ pc[c] \in PutSteps /\ Len(queue[c]) > 1
               /\ write'[c] = write[c] + 1 /\ queue'[c] = Tail(queue[c])
      <4>1. write[c] + 1 <= w /\ w < (write[c] + 1) + (Len(queue[c]) - 1)
        BY <2>3, <3>4, <3>7
      <4>2. QED
        BY <3>2, <3>3, <3>5, <3>7, <4>1
    <3>8. CASE write'[c] = lastWrite + 1
      BY <2>1, <2>3, <3>5, <3>8
    <3>9. QED
      BY <3>1, <3>6, <3>7, <3>8
  <2>4. QED
    BY <2>2, <2>3 DEF Over
<1>4. QED
  BY <1>1, <1>2, <1>3 DEF OverEffect
----------------------------------------------------------------------------
\* The inductive invariant.
HInv ==
    /\ TypeOK
    /\ HistoryTypeOK
    /\ AloneInv
    /\ HeaderInv
    /\ RekeyInv
    /\ SettledInv
    /\ ObsoleteInv

LEMMA HistoryInit_HInv == HInit => HInv
<1> SUFFICES ASSUME HInit PROVE HInv
  OBVIOUS
<1>1. TypeOK
  BY TypeInit DEF HInit
<1>2. HistoryTypeOK
  <2>1. 0 \in WriteIds
    BY BoundsAssumption DEF WriteIds
  <2>2. alone = {} /\ raced = FALSE /\ gone = {}
    BY DEF HInit, HistoryInit
  <2>3. kept \in [Keys -> WriteIds]
    BY <2>1 DEF HInit, HistoryInit
  <2>4. prior \in [Writers -> SUBSET WriteIds] /\ obsolete \in [Keys -> SUBSET WriteIds]
    BY DEF HInit, HistoryInit
  <2>5. QED
    BY <2>2, <2>3, <2>4 DEF HistoryTypeOK
<1>3. AloneInv /\ HeaderInv /\ RekeyInv
  BY DEF HInit, HistoryInit, Init, AloneInv, HeaderInv, RekeyInv, RekeyHolds
<1>4. SettledInv
  BY DEF HInit, HistoryInit, SettledInv
<1>5. ObsoleteInv
  BY DEF HInit, HistoryInit, Init, ObsoleteInv
<1>6. QED
  BY <1>1, <1>2, <1>3, <1>4, <1>5 DEF HInv

LEMMA HeaderStep == ASSUME HInv, Next PROVE HeaderInv'
<1>1. PutEffect
  BY PutEffects DEF HInv
<1>2. QED
  BY <1>1 DEF HInv, HeaderInv, PutEffect

LEMMA AloneStep == ASSUME HInv, Next, Watch PROVE AloneInv'
<1> USE DEF HInv
<1>1. TurnEffect /\ DataEffect /\ PutEffect /\ DeleteEffect
  BY TurnEffects, DataEffects, PutEffects, DeleteEffects
<1> SUFFICES ASSUME NEW c \in alone'
    PROVE /\ pc'[c] # "idle"
          /\ \A d \in Writers \ {c} : AtWork(c)' \cap AtWork(d)' = {}
          /\ pc'[c] \in {"wait", "header"} =>
                data'[key(c)'] = [write |-> write'[c], whole |-> TRUE]
          /\ pc'[c] = "delete" =>
                \A k \in targets'[c] \ failed'[c] :
                    <<k, "data">> \in pending'[c] \/ ~Present(data'[k])
  BY DEF AloneInv
<1>2. /\ c \in Writers
      /\ pc'[c] # "idle"
      /\ IF TurnBegins(c) THEN BeginsAlone(c) ELSE StaysAlone(c)
  BY DEF Watch
<1>3. \A d \in Writers \ {c} : AtWork(c)' \cap AtWork(d)' = {}
  <2>1. CASE TurnBegins(c)
    BY <1>2, <2>1 DEF BeginsAlone
  <2>2. CASE ~TurnBegins(c)
    <3>1. c \in alone /\ (AtWork(c)' = {} \/ AtWork(c)' = AtWork(c))
      BY <1>1, <1>2, <2>2 DEF StaysAlone, TurnEffect
    <3>2. ASSUME NEW d \in Writers \ {c} PROVE AtWork(c) \cap AtWork(d)' = {}
      BY <1>1, <1>2, <2>2, <3>1 DEF StaysAlone, TurnEffect, AloneInv
    <3>3. QED
      BY <3>1, <3>2
  <2>3. QED  BY <2>1, <2>2
\* Nobody else changes the data of a key this turn works on.
<1>4. ASSUME ~TurnBegins(c), NEW k \in AtWork(c), data'[k] # data[k]
      PROVE  /\ pc[c] \notin {"wait", "header"}
             /\ data'[k] = NoData \/ pc[c] = "data"
  <2>1. c \in alone /\ k \in Keys
    BY <1>2, <1>4 DEF StaysAlone, AtWork
  <2>2. \A d \in Writers \ {c} : k \notin AtWork(d)
    BY <1>4, <2>1 DEF AloneInv
  <2>3. QED
    BY <1>1, <1>4, <2>1, <2>2 DEF DataEffect
<1>5. ASSUME pc'[c] \in {"wait", "header"}
      PROVE  data'[key(c)'] = [write |-> write'[c], whole |-> TRUE]
  <2>1. ~TurnBegins(c)
    BY <1>5 DEF TurnBegins, PutTurnBegins, DeleteTurnBegins
  <2>2. c \in alone
    BY <1>2, <2>1 DEF StaysAlone
  <2>3. write'[c] = write[c] /\ key(c)' = key(c)
    BY <1>1, <1>2, <1>5 DEF PutEffect, key
  <2>4. CASE pc[c] \in {"wait", "header"}
    <3>1. key(c) \in AtWork(c)
      BY <1>2, <2>4, CurrentKey DEF AtWork, PutSteps
    <3>2. data'[key(c)] = data[key(c)]
      BY <1>4, <2>1, <2>4, <3>1
    <3>3. QED
      BY <2>2, <2>3, <2>4, <3>2 DEF AloneInv
  <2>5. CASE pc[c] \notin {"wait", "header"}
    BY <1>1, <1>2, <1>5, <2>3, <2>5 DEF PutEffect
  <2>6. QED  BY <2>4, <2>5
<1>6. ASSUME pc'[c] = "delete", NEW k \in targets'[c] \ failed'[c]
      PROVE  <<k, "data">> \in pending'[c] \/ ~Present(data'[k])
  <2>1. CASE pc[c] # "delete"
    BY <1>1, <1>2, <1>6, <2>1 DEF DeleteEffect
  <2>2. CASE pc[c] = "delete"
    <3>1. ~TurnBegins(c) /\ c \in alone
      BY <1>2, <1>6, <2>2 DEF TurnBegins, PutTurnBegins, DeleteTurnBegins, StaysAlone
    <3>2. k \in targets[c] \ failed[c]
      BY <1>1, <1>2, <1>6, <2>2 DEF DeleteEffect
    <3>3. k \in Keys /\ k \in AtWork(c)
      BY <1>2, <2>2, <3>2 DEF AtWork, TypeOK
    <3>4. CASE <<k, "data">> \in pending[c]
      BY <1>1, <1>2, <1>6, <2>2, <3>4 DEF DeleteEffect, Present, NoData
    <3>5. CASE <<k, "data">> \notin pending[c]
      <4>1. ~Present(data[k])
        BY <2>2, <3>1, <3>2, <3>5 DEF AloneInv
      <4>2. data'[k] = data[k] \/ data'[k] = NoData
        BY <1>4, <2>2, <3>1, <3>3
      <4>3. QED
        BY <4>1, <4>2 DEF Present, NoData
    <3>6. QED  BY <3>4, <3>5
  <2>3. QED  BY <2>1, <2>2
<1>7. QED
  BY <1>2, <1>3, <1>5, <1>6

LEMMA RekeyStep == ASSUME HInv, Next, Watch PROVE RekeyInv'
<1> USE DEF HInv
<1>1. HeaderEffect /\ RekeyEffect
  BY HeaderEffects, RekeyEffects
<1>2. /\ rkPc' # "idle" => Rekeys
      /\ raced' => RekeyHolds'
  BY <1>1 DEF Watch, RekeyHolds, RekeyEffect, RekeyInv
<1>3. ASSUME RekeyHolds', ~raced'
      PROVE  /\ \A c \in Writers : rkKey' \notin AtWork(c)'
             /\ header'[rkKey'].write = rkHeader'.write
             /\ header'[rkKey'].whole = rkHeader'.whole
  <2>1. ~raced /\ \A c \in Writers : rkKey' \notin AtWork(c)'
    BY <1>3 DEF Watch, RekeyHolds
  <2>2. CASE RekeyHolds /\ rkKey' = rkKey
    <3>1. rkKey \in Keys
      BY <2>2 DEF TypeOK, RekeyHolds
    <3>2. header'[rkKey] = header[rkKey]
      BY <1>1, <1>3, <2>1, <2>2, <3>1 DEF HeaderEffect, RekeyInv, RekeyWrote, RekeyHolds
    <3>3. QED
      BY <1>1, <1>3, <2>1, <2>2, <3>2 DEF RekeyEffect, RekeyInv, RekeyHolds
  <2>3. CASE ~(RekeyHolds /\ rkKey' = rkKey)
    BY <1>1, <1>3, <2>1, <2>3 DEF RekeyEffect
  <2>4. QED  BY <2>2, <2>3
<1>4. QED
  BY <1>2, <1>3 DEF RekeyInv
\* The number kept for a key is the old one, none, or that of the turn that
\* has just stored the key's blob.
LEMMA KeptStep ==
    ASSUME HInv, Next, Watch, NEW k \in Keys, kept'[k] # 0
    PROVE  /\ ~TurnBeginsOn(k)
           /\ RekeyWrote(k) => ~raced
           /\ \/ \E c \in alone : BlobStored(c) /\ key(c) = k /\ kept'[k] = write[c]
              \/ kept'[k] = kept[k]
<1>1. kept'[k] = IF TurnBeginsOn(k) \/ (RekeyWrote(k) /\ raced)
                 THEN 0
                 ELSE IF \E c \in alone : BlobStored(c) /\ key(c) = k
                 THEN write[CHOOSE c \in alone : BlobStored(c) /\ key(c) = k]
                 ELSE kept[k]
  BY DEF Watch
<1>2. CASE \E c \in alone : BlobStored(c) /\ key(c) = k
  <2> DEFINE b == CHOOSE c \in alone : BlobStored(c) /\ key(c) = k
  <2>1. b \in alone /\ BlobStored(b) /\ key(b) = k
    BY <1>2
  <2>2. QED
    BY <1>1, <1>2, <2>1
<1>3. CASE ~ \E c \in alone : BlobStored(c) /\ key(c) = k
  BY <1>1, <1>3
<1>4. QED
  BY <1>2, <1>3

\* A turn on a key was running before the step if one is after it.
LEMMA NobodyAtWork ==
    ASSUME HInv, Next, NEW k, ~TurnBeginsOn(k), NEW c \in Writers, k \notin AtWork(c)
    PROVE  k \notin AtWork(c)'
BY TurnEffects DEF HInv, TurnEffect, TurnBeginsOn

LEMMA SettledStep == ASSUME HInv, Next, Watch PROVE SettledInv'
<1> USE DEF HInv
<1>1. DataEffect /\ HeaderEffect /\ StoredEffect /\ ToldEffect /\ TurnEffect
  BY DataEffects, HeaderEffects, StoredEffects, ToldEffects, TurnEffects
<1>2. ASSUME NEW k \in Keys, kept'[k] # 0
      PROVE  /\ Paired(k, kept[k])'
             /\ ~RekeyTears => header'[k].whole
             /\ \A c \in Writers : k \notin AtWork(c)'
  <2>1. ~TurnBeginsOn(k) /\ (RekeyWrote(k) => ~raced)
    BY <1>2, KeptStep
  <2>2. CASE \E c \in alone : BlobStored(c) /\ key(c) = k /\ kept'[k] = write[c]
    <3>1. PICK c \in alone : BlobStored(c) /\ key(c) = k /\ kept'[k] = write[c]
      BY <2>2
    <3>2. c \in Writers /\ pc[c] = "header"
      BY <1>1, <3>1 DEF StoredEffect, HistoryTypeOK
    <3>3. header' = [header EXCEPT ![k] = wrapped[c]] /\ data' = data
      BY <1>1, <3>1, <3>2 DEF StoredEffect
    <3>4. data[k] = [write |-> write[c], whole |-> TRUE]
      BY <3>1, <3>2 DEF AloneInv
    <3>5. header'[k] = wrapped[c] /\ wrapped[c].write = write[c] /\ wrapped[c].whole
      BY <3>2, <3>3 DEF HeaderInv, TypeOK
    <3>6. Paired(k, kept[k])' /\ header'[k].whole
      BY <3>1, <3>3, <3>4, <3>5 DEF Paired
    <3>7. k \in AtWork(c)
      BY <3>1, <3>2 DEF AtWork, PutSteps
    <3>8. ASSUME NEW d \in Writers PROVE k \notin AtWork(d)'
      <4>1. CASE d = c
        \* Its turn is over: the next begins on another key, or the call returns.
        BY <2>1, <3>1, <4>1 DEF BlobStored, TurnBeginsOn, TurnBegins, AtWork, PutSteps
      <4>2. CASE d # c
        BY <2>1, <3>1, <3>2, <3>7, <4>2, NobodyAtWork DEF AloneInv
      <4>3. QED  BY <4>1, <4>2
    <3>9. QED  BY <3>6, <3>8
  <2>3. CASE kept'[k] = kept[k]
    <3>1. /\ Paired(k, kept[k])
          /\ ~RekeyTears => header[k].whole
          /\ \A c \in Writers : k \notin AtWork(c)
      BY <1>2, <2>3 DEF SettledInv
    <3>2. data'[k] = data[k]
      BY <1>1, <3>1 DEF DataEffect
    <3>3. /\ header'[k].write = header[k].write
          /\ ~RekeyTears => header'[k].whole
      <4>1. CASE header'[k] = header[k]
        BY <3>1, <4>1
      <4>2. CASE header'[k] # header[k]
        <5>1. RekeyWrote(k) /\ header'[k] \in AfterFailedPut(header[k], rkHeader)
          BY <1>1, <3>1, <4>2 DEF HeaderEffect
        <5>2. /\ rkHeader.write = header[k].write
              /\ rkHeader.whole = header[k].whole
              /\ Rekeys
          BY <2>1, <5>1 DEF RekeyWrote, RekeyInv, RekeyHolds
        <5>3. Torn(rkHeader).write = rkHeader.write
          BY DEF Torn, TypeOK, HeaderObjects
        <5>4. QED
          BY <3>1, <5>1, <5>2, <5>3 DEF AfterFailedPut, RekeyTears
      <4>3. QED  BY <4>1, <4>2
    <3>4. QED
      BY <2>1, <2>3, <3>1, <3>2, <3>3, NobodyAtWork DEF Paired
  <2>4. QED
    BY <1>2, <2>2, <2>3, KeptStep
<1>3. ASSUME NEW k \in gone'
      PROVE  ~Present(data'[k]) /\ \A c \in Writers : k \notin AtWork(c)'
  <2>1. /\ k \in Keys /\ ~TurnBeginsOn(k)
        /\ k \in gone \/ \E c \in alone : k \in ToldGone(c)
    BY <1>3 DEF Watch
  <2>2. CASE k \in gone
    <3>1. ~Present(data[k]) /\ \A c \in Writers : k \notin AtWork(c)
      BY <2>2 DEF SettledInv
    <3>2. data'[k] = data[k]
      BY <1>1, <2>1, <3>1 DEF DataEffect
    <3>3. QED
      BY <2>1, <3>1, <3>2, NobodyAtWork
  <2>3. CASE \E c \in alone : k \in ToldGone(c)
    <3>1. PICK c \in alone : k \in ToldGone(c)
      BY <2>3
    <3>2. c \in Writers /\ pc[c] = "delete" /\ pc'[c] = "idle" /\ k \in targets[c]
      BY <3>1 DEF ToldGone, HistoryTypeOK
    <3>3. k \notin failed[c] /\ pending[c] = {} /\ data' = data
      BY <1>1, <3>1, <3>2 DEF ToldEffect
    <3>4. ~Present(data'[k])
      BY <3>1, <3>2, <3>3 DEF AloneInv
    <3>5. k \in AtWork(c)
      BY <2>1, <3>2 DEF AtWork
    <3>6. ASSUME NEW d \in Writers PROVE k \notin AtWork(d)'
      <4>1. CASE d = c
        BY <3>2, <4>1 DEF AtWork, PutSteps
      <4>2. CASE d # c
        BY <2>1, <3>1, <3>2, <3>5, <4>2, NobodyAtWork DEF AloneInv
      <4>3. QED  BY <4>1, <4>2
    <3>7. QED  BY <3>4, <3>6
  <2>4. QED  BY <2>1, <2>2, <2>3
<1>4. QED
  BY <1>2, <1>3 DEF SettledInv
\* What a step can add to the obsolete writes of a key: those that were over
\* when the turn began that has just replaced or deleted the key's data.
LEMMA ObsoleteGrows ==
    ASSUME HInv, Next, Watch, NEW k \in Keys, NEW w \in obsolete'[k]
    PROVE  /\ w \in Over
           /\ \/ w \in obsolete[k]
              \/ data' = data /\ data[k].write # w
<1> USE DEF HInv
<1>1. CASE w \in obsolete[k]
  BY <1>1 DEF ObsoleteInv
<1>2. CASE w \notin obsolete[k]
  <2>1. PICK c \in Writers :
            /\ w \in prior[c]
            /\ (BlobStored(c) /\ key(c) = k) \/ k \in ToldGone(c)
    BY <1>2 DEF Watch
  <2>2. w \in Over
    BY <2>1 DEF ObsoleteInv
  <2>3. CASE BlobStored(c) /\ key(c) = k
    BY <2>1, <2>2, <2>3, StoredEffects DEF StoredEffect, ObsoleteInv
  <2>4. CASE k \in ToldGone(c)
    <3>1. k \notin failed[c] /\ pending[c] = {} /\ data' = data
      BY <2>1, <2>4, ToldEffects DEF ToldEffect
    <3>2. pc[c] = "delete" /\ k \in targets[c]
      BY <2>4 DEF ToldGone
    <3>3. QED
      BY <2>1, <2>2, <3>1, <3>2 DEF ObsoleteInv
  <2>5. QED  BY <2>1, <2>3, <2>4
<1>3. QED  BY <1>1, <1>2

\* Nothing a step writes is the ciphertext of a write that is over.
LEMMA FreshData ==
    ASSUME HInv, Next, NEW k \in Keys
    PROVE  data'[k] = data[k] \/ data'[k].write \notin Over
<1>1. DataEffect /\ OverEffect
  BY DataEffects, OverEffects DEF HInv
<1>2. NoData.write = 0
  BY DEF NoData
<1>3. QED
  BY <1>1, <1>2 DEF DataEffect, OverEffect, PutSteps

LEMMA ObsoleteStep == ASSUME HInv, Next, Watch PROVE ObsoleteInv'
<1> USE DEF HInv
<1>1. /\ TurnEffect /\ PutEffect /\ DeleteEffect
      /\ Over \subseteq Over' /\ 0 \notin Over
      /\ \A c \in Writers : pc[c] \in PutSteps => write[c] \notin Over
  BY TurnEffects, PutEffects, DeleteEffects, OverEffects DEF OverEffect
<1>2. ASSUME NEW k \in Keys
      PROVE  obsolete'[k] \subseteq Over' /\ data'[k].write \notin obsolete'[k]
  <2>1. obsolete'[k] \subseteq Over'
    BY <1>1, ObsoleteGrows
  <2>2. ASSUME NEW w \in obsolete'[k] PROVE data'[k].write # w
    <3>1. w \in Over /\ (w \in obsolete[k] \/ (data' = data /\ data[k].write # w))
      BY ObsoleteGrows
    <3>2. CASE w \in obsolete[k]
      BY <3>1, <3>2, FreshData DEF ObsoleteInv
    <3>3. QED  BY <3>1, <3>2
  <2>3. QED  BY <2>1, <2>2
\* prior is fixed while a turn lasts and holds only writes that are over.
<1>3. ASSUME NEW c \in Writers
      PROVE  /\ prior'[c] \subseteq Over'
             /\ ~TurnBegins(c) => prior'[c] \subseteq prior[c]
  <2>1. prior'[c] = IF TurnBegins(c) THEN Over'
                    ELSE IF pc'[c] = "idle" THEN {} ELSE prior[c]
    BY DEF Watch
  <2>2. QED
    BY <1>1, <2>1 DEF ObsoleteInv
<1>4. ASSUME NEW c \in Writers, pc'[c] \in {"wait", "header"}
      PROVE  data'[key(c)'].write \notin prior'[c]
  <2>1. ~TurnBegins(c)
    BY <1>4 DEF TurnBegins, PutTurnBegins, DeleteTurnBegins
  <2>2. key(c)' = key(c)
    BY <1>1, <1>4 DEF PutEffect, key
  <2>3. prior'[c] \subseteq prior[c] /\ prior[c] \subseteq Over
    BY <1>3, <2>1 DEF ObsoleteInv
  <2>4. CASE pc[c] \in {"wait", "header"}
    <3>1. key(c) \in Keys
      BY <2>4, CurrentKey DEF PutSteps
    <3>2. data[key(c)].write \notin prior[c]
      BY <2>4 DEF ObsoleteInv
    <3>3. QED
      BY <2>2, <2>3, <3>1, <3>2, FreshData
  <2>5. CASE pc[c] \notin {"wait", "header"}
    <3>1. data'[key(c)] = [write |-> write[c], whole |-> TRUE] /\ pc[c] = "data"
      BY <1>1, <1>4, <2>5 DEF PutEffect
    <3>2. data'[key(c)].write = write[c] /\ write[c] \notin Over
      BY <1>1, <3>1 DEF PutSteps
    <3>3. QED
      BY <2>2, <2>3, <3>2
  <2>6. QED  BY <2>4, <2>5
<1>5. ASSUME NEW c \in Writers, pc'[c] = "delete", NEW k \in targets'[c] \ failed'[c]
      PROVE  <<k, "data">> \in pending'[c] \/ data'[k].write \notin prior'[c]
  <2>1. CASE pc[c] # "delete"
    BY <1>1, <1>5, <2>1 DEF DeleteEffect
  <2>2. CASE pc[c] = "delete"
    <3>1. ~TurnBegins(c)
      BY <1>5, <2>2 DEF TurnBegins, PutTurnBegins, DeleteTurnBegins
    <3>2. prior'[c] \subseteq prior[c] /\ prior[c] \subseteq Over
      BY <1>3, <3>1 DEF ObsoleteInv
    <3>3. k \in targets[c] \ failed[c] /\ k \in Keys
      BY <1>1, <1>5, <2>2 DEF DeleteEffect, TypeOK
    <3>4. CASE <<k, "data">> \in pending[c]
      <4>1. <<k, "data">> \in pending'[c] \/ data'[k] = NoData
        BY <1>1, <1>5, <2>2, <3>4 DEF DeleteEffect
      <4>2. QED
        BY <1>1, <3>2, <4>1 DEF NoData
    <3>5. CASE <<k, "data">> \notin pending[c]
      <4>1. data[k].write \notin prior[c]
        BY <2>2, <3>3, <3>5 DEF ObsoleteInv
      <4>2. QED
        BY <3>2, <3>3, <4>1, FreshData
    <3>6. QED  BY <3>4, <3>5
  <2>3. QED  BY <2>1, <2>2
<1>6. QED
  BY <1>2, <1>3, <1>4, <1>5 DEF ObsoleteInv

LEMMA HistoryTypeStep == ASSUME HInv, Next, Watch PROVE HistoryTypeOK'
<1> USE DEF HInv
<1>1. alone' \subseteq Writers /\ gone' \subseteq Keys /\ raced' \in BOOLEAN
  BY DEF Watch
<1>2. Over \subseteq WriteIds /\ Over' \subseteq WriteIds
  BY TypeStep, BoundsAssumption DEF Over, TypeOK, WriteIds
<1>3. prior' \in [Writers -> SUBSET WriteIds]
  BY <1>2 DEF Watch, HistoryTypeOK
<1>4. obsolete' \in [Keys -> SUBSET WriteIds]
  <2>1. DOMAIN obsolete' = Keys /\ \A k \in Keys : obsolete'[k] \subseteq WriteIds
    BY <1>2, ObsoleteGrows DEF Watch
  <2>2. QED
    BY <2>1 DEF Watch
<1>5. kept' \in [Keys -> WriteIds]
  <2>1. ASSUME NEW k \in Keys PROVE kept'[k] \in WriteIds
    <3>1. 0 \in WriteIds
      BY BoundsAssumption DEF WriteIds
    <3>2. QED
      BY <3>1, KeptStep DEF TypeOK, HistoryTypeOK
  <2>2. QED
    BY <2>1 DEF Watch
<1>6. QED
  BY <1>1, <1>3, <1>4, <1>5 DEF HistoryTypeOK

LEMMA HistoryStep == HInv /\ [HNext]_hvars => HInv'
<1> SUFFICES ASSUME HInv, [HNext]_hvars PROVE HInv'
  OBVIOUS
<1>1. CASE HNext
  <2>1. Next /\ Watch
    BY <1>1 DEF HNext
  <2>2. TypeOK'
    BY <2>1, TypeStep DEF HInv
  <2>3. QED
    BY <2>1, <2>2, HistoryTypeStep, AloneStep, HeaderStep, RekeyStep, SettledStep,
       ObsoleteStep DEF HInv
<1>2. CASE UNCHANGED hvars
  BY <1>2 DEF hvars, history, vars, HInv, TypeOK, HistoryTypeOK, AloneInv, HeaderInv,
    RekeyInv, RekeyHolds, SettledInv, ObsoleteInv, AtWork, key, Over, Paired
<1>3. QED
  BY <1>1, <1>2

LEMMA HistoryInvariant == HSpec => []HInv
BY HistoryInit_HInv, HistoryStep, PTL DEF HSpec

\* What the callers of put and delete remember of its answers has its types.
THEOREM HistoryTypeCorrect == HSpec => []HistoryTypeOK
<1>1. HInv => HistoryTypeOK
  BY DEF HInv
<1>2. QED
  BY <1>1, HistoryInvariant, PTL

----------------------------------------------------------------------------
\* put's promise: a blob reported stored in a turn of its own stays readable,
\* through failures and abandoned calls, until the next turn on its key or a
\* rekey pass that read the header before it was replaced.  Either no rekey
\* pass runs, or the inner store replaces objects as a whole: on the others a
\* failing header write of a pass destroys the blob.
THEOREM KeptBlobsReadable == ASSUME ~RekeyTears PROVE HSpec => []KeptReadable
<1>1. HInv => KeptReadable
  BY DEF HInv, SettledInv, KeptReadable, Readable
<1>2. QED
  BY <1>1, HistoryInvariant, PTL

\* On every inner store, rekey passes or not, the ciphertext of such a blob
\* stays whole and beside its own header, whole or truncated.
THEOREM KeptBlobsPaired == HSpec => []KeptPaired
<1>1. HInv => KeptPaired
  BY DEF HInv, SettledInv, KeptPaired
<1>2. QED
  BY <1>1, HistoryInvariant, PTL

\* delete's promise: keys reported deleted have no data object left, also if
\* their header could not be deleted or a rekey pass writes it back.
THEOREM GoneBlobsStayGone == HSpec => []GoneStaysGone
<1>1. HInv => GoneStaysGone
  BY DEF HInv, SettledInv, GoneStaysGone
<1>2. QED
  BY <1>1, HistoryInvariant, PTL

\* No ciphertext replaced by a successful put or delete ever reappears,
\* however calls of however many writers overlap.
THEOREM ObsoleteDataNeverBack == HSpec => []ObsoleteNeverBack
<1>1. HInv => ObsoleteNeverBack
  BY DEF HInv, ObsoleteInv, ObsoleteNeverBack
<1>2. QED
  BY <1>1, HistoryInvariant, PTL

===============================================================================
