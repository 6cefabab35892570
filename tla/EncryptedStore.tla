---------------------------- MODULE EncryptedStore ----------------------------
(***************************************************************************)
(* The mutating half of EncryptedBlobStore (encrypt/store.rs) and its      *)
(* header rotation (encrypt/rekey.rs) over an inner BlobStore.             *)
(*                                                                         *)
(* One blob is TWO inner objects: the ciphertext under the user's key and  *)
(* a header (the wrapped data-encryption key) under key + ".enc-header".   *)
(* Each inner call touches one object and may fail, or take effect and     *)
(* still report a failure; nothing makes the pair atomic.  Writers run     *)
(* put and delete calls concurrently, at most one rekey pass walks the     *)
(* headers, and any of them may stop half-way: a crash, or the caller      *)
(* dropping the future at an await.                                        *)
(*                                                                         *)
(* Bytes are abstracted to the identity of the put that produced them: a   *)
(* ciphertext and a header belong together iff they carry the same write   *)
(* number.  Write 0 stands for "no such object".                           *)
(***************************************************************************)
EXTENDS Integers, Sequences, Functions

CONSTANTS
    Writers,      \* tasks that call put and delete
    Keys,         \* user keys that pass validation
    BadKeys,      \* user keys that validation refuses
    NoKey,        \* the rekey pass holds no header
    Batches,      \* the argument lists of put and delete calls
    MaxWrites,    \* bound: blobs the writers may hand to put in total
    MaxEpoch,     \* bound: newest master key of the encryption provider
    TornWrites,   \* a failing inner put may leave a truncated object (fs)
    Rekeys        \* rekey passes happen

ASSUME KeysAssumption    == BadKeys \cap Keys = {} /\ NoKey \notin Keys
ASSUME BatchesAssumption == Batches \subseteq Seq(Keys \cup BadKeys) \ {<<>>}
ASSUME BoundsAssumption  == MaxWrites \in Nat /\ MaxEpoch \in Nat
ASSUME FlagsAssumption   == TornWrites \in BOOLEAN /\ Rekeys \in BOOLEAN

WriteIds == 0 .. MaxWrites
Epochs   == 0 .. MaxEpoch

\* Inner objects: whose bytes they hold and whether all of them are there; a
\* header is also wrapped with the master key of some epoch.
DataObjects   == [write : WriteIds, whole : BOOLEAN]
HeaderObjects == [write : WriteIds, whole : BOOLEAN, epoch : Epochs]

NoData   == [write |-> 0, whole |-> FALSE]
NoHeader == [write |-> 0, whole |-> FALSE, epoch |-> 0]

Present(object) == object.write # 0
Torn(object)    == [object EXCEPT !.whole = FALSE]

\* What may lie under a key after an inner put of `new` over `old` reported an
\* error: untouched, replaced all the same (the reply was lost), or truncated.
AfterFailedPut(old, new) ==
    {old, new} \cup (IF TornWrites THEN {Torn(new)} ELSE {})

VARIABLES
    data,       \* inner store: user key -> ciphertext object
    header,     \* inner store: user key -> header object
    epoch,      \* master key the provider wraps new headers with
    lastWrite,  \* write numbers handed out so far
    pc,         \* where each writer's call stands
    queue,      \* blobs of the put call not stored yet, the current one first
    write,      \* write number of the current blob
    wrapped,    \* header of the current blob once encryption returned it
    pending,    \* inner keys of the delete call not deleted yet
    targets,    \* keys the delete call was given
    failed,     \* those whose data object the inner store failed to delete
    reply,      \* what the writer's last call returned
    rkPc,       \* where the rekey pass stands
    rkTodo,     \* keys whose header the pass has still to visit
    rkKey,      \* key of the header being rekeyed
    rkHeader    \* that header as read, then as re-wrapped

objects    == <<data, header>>
writerVars == <<pc, queue, write, wrapped, pending, targets, failed, reply>>
rekeyVars  == <<rkPc, rkTodo, rkKey, rkHeader>>
vars == <<data, header, epoch, lastWrite, pc, queue, write, wrapped, pending,
          targets, failed, reply, rkPc, rkTodo, rkKey, rkHeader>>

PutSteps  == {"data", "wait", "header", "rollback"}
InnerKeys == Keys \X {"data", "header"}

\* The variables have their types; a put call always has a current blob, whose
\* number and those of the blobs queued behind it have been handed out.
TypeOK ==
    /\ data \in [Keys -> DataObjects]
    /\ header \in [Keys -> HeaderObjects]
    /\ epoch \in Epochs
    /\ lastWrite \in WriteIds
    /\ pc \in [Writers -> PutSteps \cup {"idle", "delete"}]
    /\ queue \in [Writers -> Seq(Keys)]
    /\ write \in [Writers -> WriteIds]
    /\ wrapped \in [Writers -> HeaderObjects]
    /\ pending \in [Writers -> SUBSET InnerKeys]
    /\ targets \in [Writers -> SUBSET Keys]
    /\ failed \in [Writers -> SUBSET Keys]
    /\ reply \in [Writers -> {"none", "ok", "invalid", "error", "batch"}]
    /\ rkPc \in {"idle", "walk", "wrap", "store"}
    /\ rkTodo \subseteq Keys
    /\ rkKey \in Keys \cup {NoKey}
    /\ rkHeader \in HeaderObjects
    /\ rkPc \in {"wrap", "store"} => rkKey \in Keys
    /\ \A c \in Writers : pending[c] \subseteq targets[c] \X {"data", "header"}
    /\ \A c \in Writers : pc[c] \in PutSteps =>
          /\ queue[c] # <<>>
          /\ write[c] > 0
          /\ write[c] + Len(queue[c]) <= lastWrite + 1

Init ==
    /\ data = [k \in Keys |-> NoData]
    /\ header = [k \in Keys |-> NoHeader]
    /\ epoch = 0
    /\ lastWrite = 0
    /\ pc = [c \in Writers |-> "idle"]
    /\ queue = [c \in Writers |-> <<>>]
    /\ write = [c \in Writers |-> 0]
    /\ wrapped = [c \in Writers |-> NoHeader]
    /\ pending = [c \in Writers |-> {}]
    /\ targets = [c \in Writers |-> {}]
    /\ failed = [c \in Writers |-> {}]
    /\ reply = [c \in Writers |-> "none"]
    /\ rkPc = "idle"
    /\ rkTodo = {}
    /\ rkKey = NoKey
    /\ rkHeader = NoHeader

----------------------------------------------------------------------------
(* put: for each blob in turn, ciphertext, then header; stop at the first   *)
(* blob that fails and leave the earlier ones stored.                       *)

key(c) == Head(queue[c])

\* A call returns `r`: its locals go away.
Return(c, r) ==
    /\ pc' = [pc EXCEPT ![c] = "idle"]
    /\ queue' = [queue EXCEPT ![c] = <<>>]
    /\ write' = [write EXCEPT ![c] = 0]
    /\ wrapped' = [wrapped EXCEPT ![c] = NoHeader]
    /\ pending' = [pending EXCEPT ![c] = {}]
    /\ targets' = [targets EXCEPT ![c] = {}]
    /\ failed' = [failed EXCEPT ![c] = {}]
    /\ reply' = [reply EXCEPT ![c] = r]

Goto(c, step) ==
    /\ pc' = [pc EXCEPT ![c] = step]
    /\ UNCHANGED <<queue, write, pending, targets, failed, reply>>

\* Mutant of PutBegins: the first blob gets the number of the second.
PutBeginsOffByOne(c, batch) ==
    /\ pc[c] = "idle"
    /\ batch \in Seq(Keys)
    /\ lastWrite + Len(batch) <= MaxWrites
    /\ pc' = [pc EXCEPT ![c] = "data"]
    /\ queue' = [queue EXCEPT ![c] = batch]
    /\ write' = [write EXCEPT ![c] = lastWrite + 2]
    /\ lastWrite' = lastWrite + Len(batch)
    /\ reply' = [reply EXCEPT ![c] = "none"]
    /\ UNCHANGED <<objects, epoch, wrapped, pending, targets, failed, rekeyVars>>

\* Every key is validated before the first blob is touched.
PutBegins(c, batch) ==
    /\ pc[c] = "idle"
    /\ batch \in Seq(Keys)
    /\ lastWrite + Len(batch) <= MaxWrites
    /\ pc' = [pc EXCEPT ![c] = "data"]
    /\ queue' = [queue EXCEPT ![c] = batch]
    /\ write' = [write EXCEPT ![c] = lastWrite + 1]
    /\ lastWrite' = lastWrite + Len(batch)
    /\ reply' = [reply EXCEPT ![c] = "none"]
    /\ UNCHANGED <<objects, epoch, wrapped, pending, targets, failed, rekeyVars>>

\* put and delete alike refuse a list that holds a bad key as a whole.
CallRejected(c, batch) ==
    /\ pc[c] = "idle"
    /\ batch \notin Seq(Keys)
    /\ reply' = [reply EXCEPT ![c] = "invalid"]
    /\ UNCHANGED <<objects, epoch, lastWrite, pc, queue, write, wrapped, pending,
                   targets, failed, rekeyVars>>

\* The inner store took the stream up to its end of file.
DataStored(c) ==
    /\ pc[c] = "data"
    /\ data' = [data EXCEPT ![key(c)] = [write |-> write[c], whole |-> TRUE]]
    /\ Goto(c, "wait")
    /\ UNCHANGED <<header, epoch, lastWrite, wrapped, rekeyVars>>

\* Encryption died early: the inner store saw an ordinary end of file and
\* stored the prefix as if it were the blob.
PrefixStored(c) ==
    /\ pc[c] = "data"
    /\ data' = [data EXCEPT ![key(c)] = [write |-> write[c], whole |-> FALSE]]
    /\ Goto(c, "rollback")
    /\ UNCHANGED <<header, epoch, lastWrite, wrapped, rekeyVars>>

\* Mutant of DataFails: the error of the inner put is dropped.
DataFailsUnnoticed(c) ==
    /\ pc[c] = "data"
    /\ Goto(c, "wait")
    /\ UNCHANGED <<objects, epoch, lastWrite, wrapped, rekeyVars>>

\* The inner put failed: encryption is aborted and the call returns, with no
\* rollback of what the failing put may have left.
DataFails(c) ==
    /\ pc[c] = "data"
    /\ \E left \in AfterFailedPut(data[key(c)], [write |-> write[c], whole |-> TRUE]) :
          data' = [data EXCEPT ![key(c)] = left]
    /\ Return(c, "error")
    /\ UNCHANGED <<header, epoch, lastWrite, rekeyVars>>

EncryptionReturns(c) ==
    /\ pc[c] = "wait"
    /\ wrapped' = [wrapped EXCEPT ![c] =
                      [write |-> write[c], whole |-> TRUE, epoch |-> epoch]]
    /\ Goto(c, "header")
    /\ UNCHANGED <<objects, epoch, lastWrite, rekeyVars>>

\* The provider failed or panicked after its last byte, or timed out.
EncryptionFails(c) ==
    /\ pc[c] = "wait"
    /\ Goto(c, "rollback")
    /\ UNCHANGED <<objects, epoch, lastWrite, wrapped, rekeyVars>>

\* The header of the last blob is stored: the call returns Ok.
HeaderStoredLast(c) ==
    /\ pc[c] = "header"
    /\ Len(queue[c]) = 1
    /\ header' = [header EXCEPT ![key(c)] = wrapped[c]]
    /\ Return(c, "ok")
    /\ UNCHANGED <<data, epoch, lastWrite, rekeyVars>>

\* More blobs follow: on to the next one.
HeaderStored(c) ==
    /\ pc[c] = "header"
    /\ Len(queue[c]) > 1
    /\ header' = [header EXCEPT ![key(c)] = wrapped[c]]
    /\ pc' = [pc EXCEPT ![c] = "data"]
    /\ queue' = [queue EXCEPT ![c] = Tail(@)]
    /\ write' = [write EXCEPT ![c] = @ + 1]
    /\ wrapped' = [wrapped EXCEPT ![c] = NoHeader]
    /\ UNCHANGED <<data, epoch, lastWrite, pending, targets, failed, reply, rekeyVars>>

\* Mutant of HeaderFails: the error of the header write is dropped.
HeaderFailsUnnoticed(c) ==
    /\ pc[c] = "header"
    /\ Return(c, "ok")
    /\ UNCHANGED <<objects, epoch, lastWrite, rekeyVars>>

HeaderFails(c) ==
    /\ pc[c] = "header"
    /\ \E left \in AfterFailedPut(header[key(c)], wrapped[c]) :
          header' = [header EXCEPT ![key(c)] = left]
    /\ Goto(c, "rollback")
    /\ UNCHANGED <<data, epoch, lastWrite, wrapped, rekeyVars>>

\* Mutant of Rollback: the blobs still queued are deleted as well.
RollbackAll(c) ==
    /\ pc[c] = "rollback"
    /\ data' = [k \in Keys |-> IF k \in Range(queue[c]) THEN NoData ELSE data[k]]
    /\ Return(c, "error")
    /\ UNCHANGED <<header, epoch, lastWrite, rekeyVars>>

\* Best effort: the call fails whether or not the data object goes away.
Rollback(c) ==
    /\ pc[c] = "rollback"
    /\ \E left \in {NoData, data[key(c)]} : data' = [data EXCEPT ![key(c)] = left]
    /\ Return(c, "error")
    /\ UNCHANGED <<header, epoch, lastWrite, rekeyVars>>

----------------------------------------------------------------------------
(* delete: one inner batch over every data and header key.                  *)

DeleteBegins(c, batch) ==
    /\ pc[c] = "idle"
    /\ batch \in Seq(Keys)
    /\ pc' = [pc EXCEPT ![c] = "delete"]
    /\ pending' = [pending EXCEPT ![c] = Range(batch) \X {"data", "header"}]
    /\ targets' = [targets EXCEPT ![c] = Range(batch)]
    /\ reply' = [reply EXCEPT ![c] = "none"]
    /\ UNCHANGED <<objects, epoch, lastWrite, queue, write, wrapped, failed, rekeyVars>>

\* The inner store works through the batch in an order of its own.  A key that
\* fails may be gone all the same; only a data key is reported to the caller.
DataDeleted(c, k) ==
    /\ pc[c] = "delete"
    /\ <<k, "data">> \in pending[c]
    /\ pending' = [pending EXCEPT ![c] = @ \ {<<k, "data">>}]
    /\ data' = [data EXCEPT ![k] = NoData]
    /\ UNCHANGED <<header, epoch, lastWrite, pc, queue, write, wrapped, targets,
                   failed, reply, rekeyVars>>

\* Mutant of DataDeleteFails: the failing key is not put on the error list.
DataDeleteFailsUnlisted(c, k) ==
    /\ pc[c] = "delete"
    /\ <<k, "data">> \in pending[c]
    /\ pending' = [pending EXCEPT ![c] = @ \ {<<k, "data">>}]
    /\ \E left \in {NoData, data[k]} : data' = [data EXCEPT ![k] = left]
    /\ UNCHANGED <<header, epoch, lastWrite, pc, queue, write, wrapped, targets,
                   failed, reply, rekeyVars>>

DataDeleteFails(c, k) ==
    /\ pc[c] = "delete"
    /\ <<k, "data">> \in pending[c]
    /\ pending' = [pending EXCEPT ![c] = @ \ {<<k, "data">>}]
    /\ \E left \in {NoData, data[k]} : data' = [data EXCEPT ![k] = left]
    /\ failed' = [failed EXCEPT ![c] = @ \cup {k}]
    /\ UNCHANGED <<header, epoch, lastWrite, pc, queue, write, wrapped, targets,
                   reply, rekeyVars>>

\* Whether the header goes away or its delete fails is not told to the caller.
HeaderDeleted(c, k) ==
    /\ pc[c] = "delete"
    /\ <<k, "header">> \in pending[c]
    /\ pending' = [pending EXCEPT ![c] = @ \ {<<k, "header">>}]
    /\ \E left \in {NoHeader, header[k]} : header' = [header EXCEPT ![k] = left]
    /\ UNCHANGED <<data, epoch, lastWrite, pc, queue, write, wrapped, targets,
                   failed, reply, rekeyVars>>

\* Mutant of DeleteReturns: every batch error is taken for one of a header.
DeleteReturnsOk(c) ==
    /\ pc[c] = "delete"
    /\ pending[c] = {}
    /\ Return(c, "ok")
    /\ UNCHANGED <<objects, epoch, lastWrite, rekeyVars>>

DeleteReturns(c) ==
    /\ pc[c] = "delete"
    /\ pending[c] = {}
    /\ Return(c, IF failed[c] = {} THEN "ok" ELSE "batch")
    /\ UNCHANGED <<objects, epoch, lastWrite, rekeyVars>>

\* The inner call failed as a whole (s3: a request error) with keys undone.
DeleteFails(c) ==
    /\ pc[c] = "delete"
    /\ Return(c, "error")
    /\ UNCHANGED <<objects, epoch, lastWrite, rekeyVars>>

\* A crash, or the caller drops the future: the call stops where it is.
Abandoned(c) ==
    /\ pc[c] # "idle"
    /\ Return(c, "none")
    /\ \/ UNCHANGED objects
       \/ /\ pc[c] = "data" /\ UNCHANGED header
          /\ \E left \in AfterFailedPut(data[key(c)], [write |-> write[c], whole |-> TRUE]) :
                data' = [data EXCEPT ![key(c)] = left]
       \/ /\ pc[c] = "header" /\ UNCHANGED data
          /\ \E left \in AfterFailedPut(header[key(c)], wrapped[c]) :
                header' = [header EXCEPT ![key(c)] = left]
    /\ UNCHANGED <<epoch, lastWrite, rekeyVars>>

----------------------------------------------------------------------------
(* rekey: read each header, re-wrap it if it is not under the current       *)
(* master key, write it back.  Failures of one header are only logged.      *)

RekeyBegins ==
    /\ Rekeys
    /\ rkPc = "idle"
    /\ rkPc' = "walk"
    /\ rkTodo' = Keys
    /\ UNCHANGED <<objects, epoch, lastWrite, writerVars, rkKey, rkHeader>>

\* Mutant of RekeyFetches: the key of the header is not remembered.
RekeyFetchesNoKey(k) ==
    /\ rkPc = "walk"
    /\ k \in rkTodo
    /\ Present(header[k])
    /\ rkPc' = "wrap"
    /\ rkTodo' = rkTodo \ {k}
    /\ rkHeader' = header[k]
    /\ UNCHANGED <<objects, epoch, lastWrite, writerVars, rkKey>>

RekeyFetches(k) ==
    /\ rkPc = "walk"
    /\ k \in rkTodo
    /\ Present(header[k])
    /\ rkPc' = "wrap"
    /\ rkTodo' = rkTodo \ {k}
    /\ rkKey' = k
    /\ rkHeader' = header[k]
    /\ UNCHANGED <<objects, epoch, lastWrite, writerVars>>

\* Not there when its page of the listing was read, or the fetch failed.
RekeySkips(k) ==
    /\ rkPc = "walk"
    /\ k \in rkTodo
    /\ rkTodo' = rkTodo \ {k}
    /\ UNCHANGED <<objects, epoch, lastWrite, writerVars, rkPc, rkKey, rkHeader>>

RekeyWraps ==
    /\ rkPc = "wrap"
    /\ rkHeader.whole
    /\ rkHeader.epoch # epoch
    /\ rkPc' = "store"
    /\ rkHeader' = [rkHeader EXCEPT !.epoch = epoch]
    /\ UNCHANGED <<objects, epoch, lastWrite, writerVars, rkTodo, rkKey>>

RekeyMovesOn == rkPc' = "walk" /\ rkKey' = NoKey /\ rkHeader' = NoHeader

\* Under the current key already, or the provider cannot re-wrap it.
RekeyKeeps ==
    /\ rkPc = "wrap"
    /\ RekeyMovesOn
    /\ UNCHANGED <<objects, epoch, lastWrite, writerVars, rkTodo>>

RekeyStores ==
    /\ rkPc = "store"
    /\ header' = [header EXCEPT ![rkKey] = rkHeader]
    /\ RekeyMovesOn
    /\ UNCHANGED <<data, epoch, lastWrite, writerVars, rkTodo>>

RekeyStoreFails ==
    /\ rkPc = "store"
    /\ \E left \in AfterFailedPut(header[rkKey], rkHeader) :
          header' = [header EXCEPT ![rkKey] = left]
    /\ RekeyMovesOn
    /\ UNCHANGED <<data, epoch, lastWrite, writerVars, rkTodo>>

\* Every header of the listing has been visited.
RekeyReturns ==
    /\ rkPc = "walk"
    /\ rkTodo = {}
    /\ rkPc' = "idle"
    /\ UNCHANGED <<objects, epoch, lastWrite, writerVars, rkTodo, rkKey, rkHeader>>

\* Listing the inner store or reading a header failed, or the task stopped.
RekeyAborts ==
    /\ rkPc # "idle"
    /\ rkPc' = "idle"
    /\ rkTodo' = {}
    /\ rkKey' = NoKey
    /\ rkHeader' = NoHeader
    /\ UNCHANGED <<objects, epoch, lastWrite, writerVars>>

\* The operator gives the provider a new master key.
EpochAdvances ==
    /\ epoch < MaxEpoch
    /\ epoch' = epoch + 1
    /\ UNCHANGED <<objects, lastWrite, writerVars, rekeyVars>>

----------------------------------------------------------------------------
PutNext(c) ==
    \/ \E batch \in Batches : PutBegins(c, batch)
    \/ DataStored(c) \/ PrefixStored(c) \/ DataFails(c)
    \/ EncryptionReturns(c) \/ EncryptionFails(c)
    \/ HeaderStoredLast(c) \/ HeaderStored(c) \/ HeaderFails(c)
    \/ Rollback(c)

DeleteNext(c) ==
    \/ \E batch \in Batches : DeleteBegins(c, batch)
    \/ \E k \in Keys : DataDeleted(c, k) \/ DataDeleteFails(c, k) \/ HeaderDeleted(c, k)
    \/ DeleteReturns(c) \/ DeleteFails(c)

WriterNext(c) ==
    \/ \E batch \in Batches : CallRejected(c, batch)
    \/ PutNext(c)
    \/ DeleteNext(c)
    \/ Abandoned(c)

RekeyNext ==
    \/ RekeyBegins
    \/ \E k \in Keys : RekeyFetches(k) \/ RekeySkips(k)
    \/ RekeyWraps \/ RekeyKeeps \/ RekeyStores \/ RekeyStoreFails
    \/ RekeyReturns \/ RekeyAborts

Next == (\E c \in Writers : WriterNext(c)) \/ RekeyNext \/ EpochAdvances

Spec == Init /\ [][Next]_vars
=============================================================================
