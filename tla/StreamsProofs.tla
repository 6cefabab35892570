------------------------------ MODULE StreamsProofs ----------------------------
(***************************************************************************)
(* Safety of the two pipes of the encryption layer, for blobs of any size  *)
(* and pipes of any capacity.                                              *)
(***************************************************************************)
EXTENDS Streams, TLAPS

\* A provider that returned its header wrote the whole ciphertext; from the
\* end of the inner put on the data object is what the task wrote, and nobody
\* touches it once it is sealed, but the rollback.
PutInv ==
    /\ task \in {"closed", "header"} => wrote = Size
    /\ put = "waiting" => data = wrote
    /\ put = "sealing" => data = Size
    /\ sealed => put = "rolling" \/ PutOver

\* The slot is filled before the pipe of a task that failed ends, and nobody
\* but the reader empties it, who then has its error.
GetInv ==
    /\ get = "idle" => decrypt = "none" /\ opened = 0 /\ out = 0
    /\ decrypt = "returned" => opened = Size
    /\ decrypt \in {"noted", "failed"} /\ get = "reading" => slot
    /\ get = "eof" => decrypt \in {"returned", "panicked"}

StreamsInv ==
    /\ StreamsTypeOK
    /\ PutInv
    /\ HeaderSealsWhole
    /\ GetInv
    /\ CleanEndIsWhole

\* The types of the two halves, of which a step changes one.
PutTypes ==
    /\ put \in {"idle", "storing", "stopping", "waiting", "sealing", "rolling",
                "ok", "error", "dropped"}
    /\ task \in {"none", "writing", "closed", "header", "failed", "aborted"}
    /\ cancelled \in BOOLEAN /\ sealed \in BOOLEAN
    /\ wrote \in 0 .. Size
    /\ pipe \in 0 .. PipeCap /\ pipe <= wrote
    /\ data \in {NoData} \cup 0 .. Size

GetTypes ==
    /\ slot \in BOOLEAN
    /\ opened \in 0 .. source /\ source \in 0 .. Size
    /\ out \in 0 .. PipeCap /\ out <= opened
    /\ get \in {"idle", "reading", "eof", "error", "dropped"}
    /\ decrypt \in {"none", "writing", "failing", "noted", "failed", "returned", "panicked"}

LEMMA TypesOfHalves == StreamsTypeOK <=> PutTypes /\ GetTypes
BY DEF StreamsTypeOK, PutTypes, GetTypes

LEMMA StreamsInit == Init => StreamsInv
<1> SUFFICES ASSUME Init PROVE StreamsInv
  OBVIOUS
<1>1. /\ wrote \in 0 .. Size /\ opened \in 0 .. source /\ source \in 0 .. Size
      /\ pipe \in 0 .. PipeCap /\ pipe <= wrote
      /\ out \in 0 .. PipeCap /\ out <= opened
  BY StreamsAssumption DEF Init
<1>2. StreamsTypeOK
  BY <1>1 DEF Init, StreamsTypeOK
<1>3. PutInv /\ HeaderSealsWhole /\ GetInv /\ CleanEndIsWhole
  BY DEF Init, PutInv, HeaderSealsWhole, GetInv, CleanEndIsWhole
<1>4. QED
  BY <1>2, <1>3 DEF StreamsInv

\* What the steps of put do: the variables of get stay as they are, and the
\* data object changes only before the header does.
LEMMA PutSteps ==
    ASSUME StreamsInv,
           \/ PutBegins \/ TaskGoesOn \/ TaskReturns \/ TaskFails \/ TaskAborted
           \/ PutGoesOn \/ InnerFails \/ HeaderTimesOut \/ PutDropped
    PROVE  StreamsInv'
<1>0. PutTypes /\ GetTypes
  BY TypesOfHalves DEF StreamsInv
<1>1. PutTypes'
  <2> USE <1>0, StreamsAssumption DEF PutTypes
  <2>1. CASE TaskGoesOn
    BY <2>1 DEF TaskGoesOn, TaskWrites, TaskBroken, TaskEndsOutput, PipeHasRoom
  <2>2. CASE InnerReads
    BY <2>2 DEF InnerReads
  <2>3. CASE InnerStored
    BY <2>3 DEF InnerStored
  <2>4. CASE InnerFails
    BY <2>4 DEF InnerFails
  <2>5. CASE PutDropped
    BY <2>5 DEF PutDropped
  <2>6. CASE Rollback
    BY <2>6 DEF Rollback
  <2>7. CASE PutBegins \/ TaskReturns
    BY <2>7 DEF PutBegins, TaskReturns
  <2>8. CASE TaskFails \/ TaskAborted
    BY <2>8 DEF TaskFails, TaskAborted
  <2>9. CASE TaskAwaited \/ HeaderReturned \/ TaskFailureSeen
    BY <2>9 DEF TaskAwaited, HeaderReturned, TaskFailureSeen
  <2>10. CASE HeaderTimesOut \/ HeaderStored
    BY <2>10 DEF HeaderTimesOut, HeaderStored
  <2>11. CASE HeaderFails
    BY <2>11 DEF HeaderFails
  <2>12. QED
    BY <2>1, <2>2, <2>3, <2>4, <2>5, <2>6, <2>7, <2>8, <2>9, <2>10, <2>11 DEF PutGoesOn
<1>2. PutInv' /\ HeaderSealsWhole'
  <2> USE DEF StreamsInv, PutInv, HeaderSealsWhole, StreamsTypeOK, PutOver, TaskBusy
  <2>1. CASE PutBegins \/ TaskReturns \/ TaskFails \/ TaskAborted \/ HeaderTimesOut
    BY <2>1 DEF PutBegins, TaskReturns, TaskFails, TaskAborted, HeaderTimesOut
  <2>2. CASE TaskGoesOn
    BY <2>2 DEF TaskGoesOn, TaskWrites, TaskBroken, TaskEndsOutput
  <2>3. CASE InnerReads \/ InnerStored \/ TaskAwaited \/ HeaderReturned
    BY <2>3 DEF InnerReads, InnerStored, TaskAwaited, HeaderReturned
  <2>4. CASE TaskFailureSeen \/ HeaderStored \/ HeaderFails \/ Rollback
    BY <2>4 DEF TaskFailureSeen, HeaderStored, HeaderFails, Rollback
  <2>5. CASE InnerFails \/ PutDropped
    BY <2>5 DEF InnerFails, PutDropped
  <2>6. QED
    BY <2>1, <2>2, <2>3, <2>4, <2>5 DEF PutGoesOn
<1>3. UNCHANGED getVars
  BY DEF PutBegins, TaskGoesOn, TaskWrites, TaskBroken, TaskEndsOutput, TaskReturns, TaskFails,
         TaskAborted, PutGoesOn, InnerReads, InnerStored, TaskAwaited, HeaderReturned,
         TaskFailureSeen, HeaderStored, HeaderFails, Rollback, InnerFails, HeaderTimesOut,
         PutDropped
<1>4. GetTypes' /\ GetInv' /\ CleanEndIsWhole'
  BY <1>0, <1>3 DEF StreamsInv, GetTypes, GetInv, CleanEndIsWhole, getVars
<1>5. StreamsTypeOK'
  BY <1>1, <1>4 DEF StreamsTypeOK, PutTypes, GetTypes
<1>6. QED
  BY <1>2, <1>4, <1>5 DEF StreamsInv

\* What the steps of get do: the variables of put stay as they are.
LEMMA GetSteps ==
    ASSUME StreamsInv,
           GetBegins \/ DecryptGoesOn \/ DecryptPanics \/ ReaderGoesOn \/ ReaderDropped
    PROVE  StreamsInv'
<1>0. PutTypes /\ GetTypes
  BY TypesOfHalves DEF StreamsInv
<1>1. GetTypes'
  <2> USE <1>0, StreamsAssumption DEF GetTypes
  <2>1. CASE GetBegins
    BY <2>1 DEF GetBegins, GetInv, PutTypes, StreamsInv
  <2>2. CASE DecryptWrites
    BY <2>2 DEF DecryptWrites, PipeHasRoom
  <2>3. CASE ChunkRead
    BY <2>3 DEF ChunkRead
  <2>4. CASE EndRead
    BY <2>4 DEF EndRead
  <2>5. CASE DecryptReturns \/ DecryptFails
    BY <2>5 DEF DecryptReturns, DecryptFails
  <2>6. CASE SlotFilled
    BY <2>6 DEF SlotFilled
  <2>7. CASE TaskDropped \/ DecryptPanics
    BY <2>7 DEF TaskDropped, DecryptPanics
  <2>8. CASE ReaderDropped
    BY <2>8 DEF ReaderDropped
  <2>9. QED
    BY <2>1, <2>2, <2>3, <2>4, <2>5, <2>6, <2>7, <2>8 DEF DecryptGoesOn, ReaderGoesOn
<1>2. GetInv' /\ CleanEndIsWhole'
  <2> USE DEF StreamsInv, GetInv, CleanEndIsWhole
  <2>1. CASE GetBegins \/ DecryptWrites \/ ChunkRead \/ ReaderDropped
    BY <2>1 DEF GetBegins, DecryptWrites, ChunkRead, ReaderDropped
  <2>2. CASE DecryptReturns \/ DecryptFails \/ SlotFilled \/ TaskDropped \/ DecryptPanics
    BY <2>2 DEF DecryptReturns, DecryptFails, SlotFilled, TaskDropped, DecryptPanics
  <2>3. CASE EndRead
    BY <2>3 DEF EndRead, PipeClosed, StreamsTypeOK
  <2>4. QED
    BY <2>1, <2>2, <2>3 DEF DecryptGoesOn, ReaderGoesOn
<1>3. UNCHANGED putVars
  BY DEF GetBegins, DecryptGoesOn, DecryptWrites, DecryptReturns, DecryptFails, SlotFilled,
         TaskDropped, DecryptPanics, ReaderGoesOn, ChunkRead, EndRead, ReaderDropped
<1>4. PutTypes' /\ PutInv' /\ HeaderSealsWhole'
  BY <1>0, <1>3 DEF StreamsInv, PutTypes, PutInv, HeaderSealsWhole, PutOver, putVars
<1>5. StreamsTypeOK'
  BY <1>1, <1>4 DEF StreamsTypeOK, PutTypes, GetTypes
<1>6. QED
  BY <1>2, <1>4, <1>5 DEF StreamsInv

LEMMA StreamsSteps == StreamsInv /\ [Next]_vars => StreamsInv'
<1> SUFFICES ASSUME StreamsInv, [Next]_vars PROVE StreamsInv'
  OBVIOUS
<1>1. CASE Next
  BY <1>1, PutSteps, GetSteps DEF Next
<1>2. CASE UNCHANGED vars
  BY <1>2 DEF vars, putVars, getVars, StreamsInv, StreamsTypeOK, PutInv, HeaderSealsWhole,
              GetInv, CleanEndIsWhole, PutOver
<1>3. QED
  BY <1>1, <1>2

LEMMA StreamsInvariant == Spec => []StreamsInv
BY StreamsInit, StreamsSteps, PTL DEF Spec

\* Neither pipe holds more than its capacity, whatever the size of the blob.
THEOREM StreamsTypeCorrect == Spec => []StreamsTypeOK
BY StreamsInvariant, PTL DEF StreamsInv

\* put (encrypt/store.rs) stores a header only beside the whole ciphertext, or
\* beside none after a rollback, in whatever way the encryption task ended.
THEOREM HeadersSealWholeBlobs == Spec => []HeaderSealsWhole
BY StreamsInvariant, PTL DEF StreamsInv

\* The reader that get returns (ErrorAwareReader) comes to a clean end only
\* after the whole plaintext, unless the decryption task panicked.
THEOREM CleanEndsAreWhole == Spec => []CleanEndIsWhole
BY StreamsInvariant, PTL DEF StreamsInv
===============================================================================
