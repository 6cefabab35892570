--------------------------------- MODULE Streams -------------------------------
(***************************************************************************)
(* The two pipes of EncryptedBlobStore (encrypt/store.rs).  put spawns a   *)
(* task in which the provider encrypts into a bounded pipe that the inner  *)
(* put reads, and waits for its header afterwards; get spawns one that     *)
(* decrypts into the pipe its caller reads, and an error of it travels     *)
(* past the pipe, in a slot that the reader looks into at the end of file. *)
(*                                                                         *)
(* One blob is put, and read back if both its objects are there.  Streams  *)
(* are counted in chunks.  A pipe ends when its writer is dropped or ends  *)
(* its output; a writer whose reader is dropped gets an error.             *)
(***************************************************************************)
EXTENDS Integers

CONSTANTS
    Size,      \* chunks of the blob
    PipeCap,   \* chunks that fit into a pipe
    Panics     \* whether the provider may panic while it decrypts

ASSUME StreamsAssumption == Size \in Nat /\ PipeCap \in Nat \ {0} /\ Panics \in BOOLEAN

VARIABLES
    put,        \* where the put is
    task,       \* the encryption task
    cancelled,  \* whether the put has aborted it
    wrote,      \* chunks the task has written
    pipe,       \* chunks in the pipe
    data,       \* chunks of the data object
    sealed,     \* whether the header object is there
    get,        \* what the caller of get has seen: an end of file, an error
    decrypt,    \* the decryption task
    source,     \* chunks that can be read back and decrypted
    opened,     \* chunks the task has decrypted
    out,        \* chunks in its pipe
    slot        \* whether decryption_error is set

putVars  == <<put, task, cancelled, wrote, pipe, data, sealed>>
getVars  == <<get, decrypt, source, opened, out, slot>>
vars     == <<putVars, getVars>>

NoData == -1

Init ==
    /\ put = "idle" /\ task = "none" /\ cancelled = FALSE
    /\ wrote = 0 /\ pipe = 0 /\ data = NoData /\ sealed = FALSE
    /\ get = "idle" /\ decrypt = "none"
    /\ source = 0 /\ opened = 0 /\ out = 0 /\ slot = FALSE

----------------------------------------------------------------------------
(* put: the encryption task                                                 *)

TaskBusy  == task \in {"writing", "closed"}
TaskEnded == task \in {"header", "failed", "aborted"}

PutBegins ==
    /\ put = "idle"
    /\ put' = "storing" /\ task' = "writing"
    /\ UNCHANGED <<cancelled, wrote, pipe, data, sealed, getVars>>

\* Mutant of PipeHasRoom: the pipe takes everything.
PipeUnbounded(p) == TRUE

PipeHasRoom(p) == p < PipeCap

TaskWrites ==
    /\ task = "writing" /\ wrote < Size
    /\ put = "storing" /\ PipeHasRoom(pipe)
    /\ wrote' = wrote + 1 /\ pipe' = pipe + 1
    /\ UNCHANGED <<put, task, cancelled, data, sealed, getVars>>

\* The inner put is over, its end of the pipe is dropped: writing fails.
TaskBroken ==
    /\ task = "writing" /\ wrote < Size
    /\ put # "storing"
    /\ task' = "failed"
    /\ UNCHANGED <<put, cancelled, wrote, pipe, data, sealed, getVars>>

\* A provider may end its output before it returns the header.
TaskEndsOutput ==
    /\ task = "writing" /\ wrote = Size
    /\ task' = "closed"
    /\ UNCHANGED <<put, cancelled, wrote, pipe, data, sealed, getVars>>

TaskReturns ==
    /\ TaskBusy /\ wrote = Size
    /\ task' = "header"
    /\ UNCHANGED <<put, cancelled, wrote, pipe, data, sealed, getVars>>

\* The plaintext cannot be read, the provider fails or panics; nobody cleans
\* up: to the inner put this is the end of the stream.
TaskFails ==
    /\ TaskBusy
    /\ task' = "failed"
    /\ UNCHANGED <<put, cancelled, wrote, pipe, data, sealed, getVars>>

TaskAborted ==
    /\ TaskBusy /\ cancelled
    /\ task' = "aborted"
    /\ UNCHANGED <<put, cancelled, wrote, pipe, data, sealed, getVars>>

----------------------------------------------------------------------------
(* put: the inner put, the header, the rollback                             *)

InnerReads ==
    /\ put = "storing" /\ pipe > 0
    /\ pipe' = pipe - 1
    /\ UNCHANGED <<put, task, cancelled, wrote, data, sealed, getVars>>

InnerStored ==
    /\ put = "storing" /\ pipe = 0 /\ task # "writing"
    /\ data' = wrote
    /\ put' = "waiting"
    /\ UNCHANGED <<task, cancelled, wrote, pipe, sealed, getVars>>

\* Mutant of InnerFails: the task is awaited but not aborted.
InnerFailsUnaborted ==
    /\ put = "storing"
    /\ put' = "stopping"
    /\ data' \in {NoData, wrote - pipe}
    /\ UNCHANGED <<task, cancelled, wrote, pipe, sealed, getVars>>

\* The inner put fails, and may leave what it has read: abort, and await.
InnerFails ==
    /\ put = "storing"
    /\ put' = "stopping" /\ cancelled' = TRUE
    /\ data' \in {NoData, wrote - pipe}
    /\ UNCHANGED <<task, wrote, pipe, sealed, getVars>>

TaskAwaited ==
    /\ put = "stopping" /\ TaskEnded
    /\ put' = "error"
    /\ UNCHANGED <<task, cancelled, wrote, pipe, data, sealed, getVars>>

HeaderReturned ==
    /\ put = "waiting" /\ task = "header"
    /\ put' = "sealing"
    /\ UNCHANGED <<task, cancelled, wrote, pipe, data, sealed, getVars>>

\* Mutant of TaskFailureSeen: the end of the stream passes for success.
TaskFailureUnseen ==
    /\ put = "waiting" /\ TaskEnded /\ task # "header"
    /\ put' = "sealing"
    /\ UNCHANGED <<task, cancelled, wrote, pipe, data, sealed, getVars>>

TaskFailureSeen ==
    /\ put = "waiting" /\ TaskEnded /\ task # "header"
    /\ put' = "rolling"
    /\ UNCHANGED <<task, cancelled, wrote, pipe, data, sealed, getVars>>

\* Mutant of HeaderTimesOut: the task is left to itself.
HeaderTimesOutUnaborted ==
    /\ put = "waiting" /\ TaskBusy
    /\ put' = "rolling"
    /\ UNCHANGED <<task, cancelled, wrote, pipe, data, sealed, getVars>>

\* The header does not come in time: abort, and do not await.
HeaderTimesOut ==
    /\ put = "waiting" /\ TaskBusy
    /\ put' = "rolling" /\ cancelled' = TRUE
    /\ UNCHANGED <<task, wrote, pipe, data, sealed, getVars>>

HeaderStored ==
    /\ put = "sealing"
    /\ put' = "ok" /\ sealed' = TRUE
    /\ UNCHANGED <<task, cancelled, wrote, pipe, data, getVars>>

HeaderFails ==
    /\ put = "sealing"
    /\ put' = "rolling" /\ sealed' \in BOOLEAN
    /\ UNCHANGED <<task, cancelled, wrote, pipe, data, getVars>>

\* Whether the rollback deletes the data is not looked at.
Rollback ==
    /\ put = "rolling"
    /\ put' = "error" /\ data' \in {NoData, data}
    /\ UNCHANGED <<task, cancelled, wrote, pipe, sealed, getVars>>

PutOver == put \in {"ok", "error", "dropped"}

\* The caller drops the future; the task is detached, not aborted.
PutDropped ==
    /\ put # "idle" /\ ~PutOver
    /\ put' = "dropped"
    /\ data' \in IF put = "storing" THEN {NoData, wrote - pipe} ELSE {data}
    /\ UNCHANGED <<task, cancelled, wrote, pipe, sealed, getVars>>

----------------------------------------------------------------------------
(* get: the decryption task and the reader.                                 *)

\* What can be read back may break off, or fail to decrypt, at any chunk.
GetBegins ==
    /\ get = "idle" /\ PutOver
    /\ data # NoData /\ sealed
    /\ get' = "reading" /\ decrypt' = "writing"
    /\ source' \in 0 .. data
    /\ UNCHANGED <<opened, out, slot, putVars>>

DecryptWrites ==
    /\ decrypt = "writing" /\ opened < source
    /\ get = "reading" /\ PipeHasRoom(out)
    /\ opened' = opened + 1 /\ out' = out + 1
    /\ UNCHANGED <<get, decrypt, source, slot, putVars>>

\* A provider returns Ok only when it has authenticated and written the whole.
DecryptReturns ==
    /\ decrypt = "writing" /\ opened = Size
    /\ decrypt' = "returned"
    /\ UNCHANGED <<get, source, opened, out, slot, putVars>>

\* The provider fails; with no reader left it must.
DecryptFails ==
    /\ decrypt = "writing"
    /\ decrypt' = "failing"
    /\ UNCHANGED <<get, source, opened, out, slot, putVars>>

SlotFilled ==
    /\ decrypt = "failing"
    /\ slot' = TRUE
    /\ decrypt' = "noted"
    /\ UNCHANGED <<get, source, opened, out, putVars>>

TaskDropped ==
    /\ decrypt = "noted"
    /\ decrypt' = "failed"
    /\ UNCHANGED <<get, source, opened, out, slot, putVars>>

DecryptPanics ==
    /\ Panics /\ decrypt = "writing"
    /\ decrypt' = "panicked"
    /\ UNCHANGED <<get, source, opened, out, slot, putVars>>

\* Mutant of PipeClosed: the pipe is dropped before the error is stored.
PipeClosedEarly == decrypt \in {"returned", "failing", "noted", "failed", "panicked"}

\* Mutant of PipeClosed: a task that failed keeps its end of the pipe.
PipeKeptOpen == decrypt \in {"returned", "panicked"}

\* The task owns its end of the pipe and drops it when it is over.
PipeClosed == decrypt \in {"returned", "failed", "panicked"}

ChunkRead ==
    /\ get = "reading" /\ out > 0
    /\ out' = out - 1
    /\ UNCHANGED <<get, decrypt, source, opened, slot, putVars>>

\* ErrorAwareReader: at the end of file the slot is looked into, and emptied.
EndRead ==
    /\ get = "reading" /\ out = 0 /\ PipeClosed
    /\ get' = IF slot THEN "error" ELSE "eof"
    /\ slot' = FALSE
    /\ UNCHANGED <<decrypt, source, opened, out, putVars>>

ReaderDropped ==
    /\ get = "reading"
    /\ get' = "dropped"
    /\ UNCHANGED <<decrypt, source, opened, out, slot, putVars>>

----------------------------------------------------------------------------
TaskGoesOn == TaskWrites \/ TaskBroken \/ TaskEndsOutput
PutGoesOn ==
    \/ InnerReads \/ InnerStored \/ TaskAwaited
    \/ HeaderReturned \/ TaskFailureSeen \/ HeaderStored \/ HeaderFails \/ Rollback
DecryptGoesOn == DecryptWrites \/ DecryptReturns \/ DecryptFails \/ SlotFilled \/ TaskDropped
ReaderGoesOn  == ChunkRead \/ EndRead

Next ==
    \/ PutBegins \/ TaskGoesOn \/ TaskReturns \/ TaskFails \/ TaskAborted
    \/ PutGoesOn \/ InnerFails \/ HeaderTimesOut \/ PutDropped
    \/ GetBegins \/ DecryptGoesOn \/ DecryptPanics \/ ReaderGoesOn \/ ReaderDropped

\* Tasks are polled, timers fire, backend calls end.  A provider goes on while
\* it encrypts or decrypts; that it returns its header at all is not assumed.
Spec ==
    /\ Init /\ [][Next]_vars
    /\ WF_vars(TaskGoesOn) /\ WF_vars(TaskAborted)
    /\ WF_vars(PutGoesOn) /\ WF_vars(HeaderTimesOut)
    /\ WF_vars(DecryptGoesOn) /\ WF_vars(ReaderGoesOn)

----------------------------------------------------------------------------
\* The variables have their types, neither pipe holds more than it may (the
\* memory of a transfer is bounded), and nothing gets lost in one.
StreamsTypeOK ==
    /\ put \in {"idle", "storing", "stopping", "waiting", "sealing", "rolling",
                "ok", "error", "dropped"}
    /\ task \in {"none", "writing", "closed", "header", "failed", "aborted"}
    /\ cancelled \in BOOLEAN /\ sealed \in BOOLEAN /\ slot \in BOOLEAN
    /\ wrote \in 0 .. Size /\ opened \in 0 .. source /\ source \in 0 .. Size
    /\ pipe \in 0 .. PipeCap /\ pipe <= wrote
    /\ out \in 0 .. PipeCap /\ out <= opened
    /\ data \in {NoData} \cup 0 .. Size
    /\ get \in {"idle", "reading", "eof", "error", "dropped"}
    /\ decrypt \in {"none", "writing", "failing", "noted", "failed", "returned", "panicked"}

\* A header is only ever stored beside the whole ciphertext, or beside none if
\* it came with an error and a rollback: an encryption task that dies looks to
\* the inner put like the end of the stream (store.rs:281), and still put does
\* not seal the prefix, whether the task failed, timed out or was aborted.
HeaderSealsWhole == sealed => data \in {Size, NoData}

\* The caller reads to a clean end of file only if it has read the whole blob,
\* as the slot is filled before the pipe ends; unless the task panicked.
CleanEndIsWhole ==
    get = "eof" /\ decrypt # "panicked" => opened = Size /\ out = 0

\* ... the caller never silently gets truncated data (store.rs:24-26).
NeverTruncated == get = "eof" => opened = Size /\ out = 0

\* put ends even if the provider never returns its header: the inner put has
\* its end of the stream, then the timeout (store.rs:283) or the abort helps.
PutEnds == put = "storing" ~> PutOver

\* No task outlives its use: when put has answered, or the reader is done or
\* dropped, the task ends, also one that was blocked on a full pipe.
TasksEnd ==
    /\ put \in {"ok", "error"} ~> TaskEnded
    /\ get \notin {"idle", "reading"} ~> PipeClosed \/ get = "idle"

\* A caller that reads on comes to an end or an error.
ReadEnds == get = "reading" ~> get # "reading"
===============================================================================
