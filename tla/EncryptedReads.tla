---------------------------- MODULE EncryptedReads ----------------------------
(***************************************************************************)
(* The read paths of EncryptedBlobStore (encrypt/store.rs, visitors.rs)    *)
(* beside the writers and the rekey pass of EncryptedStore.                *)
(*                                                                         *)
(* A read looks at the data object and at the header in separate inner     *)
(* calls, so writers and rekey come in between.  get_with_metadata reads   *)
(* the objects as get does.  The listing of the inner store is no snapshot *)
(* either: each key is looked at once, at a moment of its own.  Filters    *)
(* look at the key alone, so Keys are those that the caller's filter       *)
(* lets through.                                                           *)
(***************************************************************************)
EXTENDS EncryptedHistory

CONSTANTS
    Readers,   \* tasks that call the read operations
    ReadOps    \* the operations they call

KeyOps  == {"get", "exists"}
ListOps == {"list", "visit", "meta"}     \* meta: list_with_metadata

ASSUME ReadOpsAssumption == ReadOps \subseteq KeyOps \cup ListOps

VARIABLES
    rdOp,       \* the operation of the reader's call
    rdAt,       \* where the call stands
    rdKey,      \* the key it is looking at
    rdData,     \* data object opened by get
    rdHeader,   \* header read by get
    rdUnseen,   \* keys the inner listing has not come to
    rdTodo,     \* listed keys whose header is still to be checked
    rdFound,    \* keys for the answer
    rdReply     \* what the last call returned: outcome, blob or keys

readVars == <<rdOp, rdAt, rdKey, rdData, rdHeader, rdUnseen, rdTodo, rdFound, rdReply>>

\* History: what was so throughout the call, and what was obsolete before it.
VARIABLES
    steady,     \* reader -> key -> write kept since the call began; or 0
    absent,     \* reader -> keys gone since the call began
    unchecked,  \* reader -> keys it dropped from its listing beside a header
    stale       \* reader -> key -> writes obsolete when the call began

readHistory == <<steady, absent, unchecked, stale>>
rvars == <<hvars, readVars, readHistory>>

NoReply == [outcome |-> "none", write |-> 0, keys |-> {}]
Replies == [outcome : {"none", "ok", "notfound", "error", "failed"},
            write : WriteIds, keys : SUBSET Keys]

\* The variables have their types; a call looks at a key when it should.
ReadsTypeOK ==
    /\ rdOp \in [Readers -> {"none"} \cup ReadOps]
    /\ rdAt \in [Readers -> {"idle", "data", "header", "bytes", "page", "stat"}]
    /\ rdKey \in [Readers -> Keys \cup {NoKey}]
    /\ rdData \in [Readers -> DataObjects]
    /\ rdHeader \in [Readers -> HeaderObjects]
    /\ rdUnseen \in [Readers -> SUBSET Keys]
    /\ rdTodo \in [Readers -> SUBSET Keys]
    /\ rdFound \in [Readers -> SUBSET Keys]
    /\ rdReply \in [Readers -> Replies]
    /\ \A r \in Readers :
          /\ rdAt[r] \in {"data", "header", "bytes", "stat"} => rdKey[r] \in Keys
          /\ rdAt[r] \in {"data", "header"} => rdOp[r] \in KeyOps
          /\ rdAt[r] = "bytes" => rdOp[r] = "get"
          /\ rdAt[r] \in {"page", "stat"} => rdOp[r] \in ListOps

ReadsInit ==
    /\ rdOp = [r \in Readers |-> "none"]
    /\ rdAt = [r \in Readers |-> "idle"]
    /\ rdKey = [r \in Readers |-> NoKey]
    /\ rdData = [r \in Readers |-> NoData]
    /\ rdHeader = [r \in Readers |-> NoHeader]
    /\ rdUnseen = [r \in Readers |-> {}]
    /\ rdTodo = [r \in Readers |-> {}]
    /\ rdFound = [r \in Readers |-> {}]
    /\ rdReply = [r \in Readers |-> NoReply]
    /\ steady = [r \in Readers |-> [k \in Keys |-> 0]]
    /\ absent = [r \in Readers |-> {}]
    /\ unchecked = [r \in Readers |-> {}]
    /\ stale = [r \in Readers |-> [k \in Keys |-> {}]]

----------------------------------------------------------------------------
\* The call returns: its locals go away.
ReadReturns(r, outcome, w, keys) ==
    /\ rdOp' = [rdOp EXCEPT ![r] = "none"]
    /\ rdAt' = [rdAt EXCEPT ![r] = "idle"]
    /\ rdKey' = [rdKey EXCEPT ![r] = NoKey]
    /\ rdData' = [rdData EXCEPT ![r] = NoData]
    /\ rdHeader' = [rdHeader EXCEPT ![r] = NoHeader]
    /\ rdUnseen' = [rdUnseen EXCEPT ![r] = {}]
    /\ rdTodo' = [rdTodo EXCEPT ![r] = {}]
    /\ rdFound' = [rdFound EXCEPT ![r] = {}]
    /\ rdReply' = [rdReply EXCEPT ![r] =
                      [outcome |-> outcome, write |-> w, keys |-> keys]]

\* What a reader may find under a key.  The filesystem rewrites a file in
\* place: while a put of it is under way the file is there, but truncated.
DataSeen(k) ==
    {data[k]} \cup
    {[write |-> write[c], whole |-> FALSE] :
        c \in {d \in Writers : TornWrites /\ pc[d] = "data" /\ key(d) = k}}

HeaderSeen(k) ==
    {header[k]} \cup
    {Torn(wrapped[c]) :
        c \in {d \in Writers : TornWrites /\ pc[d] = "header" /\ key(d) = k}} \cup
    (IF TornWrites /\ rkPc = "store" /\ rkKey = k THEN {Torn(rkHeader)} ELSE {})

----------------------------------------------------------------------------
(* get and exists: the data object, then the header.                        *)

\* Mutant of KeyReadBegins: the call does not keep its key.
KeyReadBeginsNoKey(r, op, k) ==
    /\ rdAt[r] = "idle"
    /\ op \in ReadOps \cap KeyOps
    /\ rdOp' = [rdOp EXCEPT ![r] = op]
    /\ rdAt' = [rdAt EXCEPT ![r] = "data"]
    /\ rdReply' = [rdReply EXCEPT ![r] = NoReply]
    /\ UNCHANGED <<rdKey, rdData, rdHeader, rdUnseen, rdTodo, rdFound>>

KeyReadBegins(r, op, k) ==
    /\ rdAt[r] = "idle"
    /\ op \in ReadOps \cap KeyOps
    /\ rdOp' = [rdOp EXCEPT ![r] = op]
    /\ rdAt' = [rdAt EXCEPT ![r] = "data"]
    /\ rdKey' = [rdKey EXCEPT ![r] = k]
    /\ rdReply' = [rdReply EXCEPT ![r] = NoReply]
    /\ UNCHANGED <<rdData, rdHeader, rdUnseen, rdTodo, rdFound>>

\* NotFound from get, false from exists.
DataMissing(r) ==
    /\ rdAt[r] = "data"
    /\ ~Present(data[rdKey[r]])
    /\ ReadReturns(r, "notfound", 0, {})

\* Mutant of DataFound: exists goes straight to the header.
DataUnchecked(r) ==
    /\ rdAt[r] = "data"
    /\ rdAt' = [rdAt EXCEPT ![r] = "header"]
    /\ rdData' = [rdData EXCEPT ![r] = data[rdKey[r]]]
    /\ UNCHANGED <<rdOp, rdKey, rdHeader, rdUnseen, rdTodo, rdFound, rdReply>>

\* get opens the data object; exists notes that it is there.
DataFound(r) ==
    /\ rdAt[r] = "data"
    /\ rdAt' = [rdAt EXCEPT ![r] = "header"]
    /\ \E object \in DataSeen(rdKey[r]) :
          Present(object) /\ rdData' = [rdData EXCEPT ![r] = object]
    /\ UNCHANGED <<rdOp, rdKey, rdHeader, rdUnseen, rdTodo, rdFound, rdReply>>

\* Mutant of HeaderMissing: every error of the inner get is taken for NotFound.
HeaderFailureMissing(r) ==
    /\ rdAt[r] = "header"
    /\ ReadReturns(r, "notfound", 0, {})

HeaderMissing(r) ==
    /\ rdAt[r] = "header"
    /\ ~Present(header[rdKey[r]])
    /\ ReadReturns(r, "notfound", 0, {})

HeaderExists(r) ==
    /\ rdAt[r] = "header"
    /\ rdOp[r] = "exists"
    /\ \E object \in HeaderSeen(rdKey[r]) : Present(object)
    /\ ReadReturns(r, "ok", 0, {rdKey[r]})

HeaderRead(r) ==
    /\ rdAt[r] = "header"
    /\ rdOp[r] = "get"
    /\ rdAt' = [rdAt EXCEPT ![r] = "bytes"]
    /\ \E object \in HeaderSeen(rdKey[r]) :
          Present(object) /\ rdHeader' = [rdHeader EXCEPT ![r] = object]
    /\ UNCHANGED <<rdOp, rdKey, rdData, rdUnseen, rdTodo, rdFound, rdReply>>

\* The ciphertext as the caller drains the stream: on the filesystem an open
\* file shows what has been written to it since, in whole or in part.  (A file
\* deleted and stored anew is another file; the model allows it all the same.)
Drained(r) ==
    LET now       == data[rdKey[r]]
        rewritten == \/ now # rdData[r]
                     \/ \E c \in Writers : pc[c] = "data" /\ key(c) = rdKey[r]
    IN  {rdData[r]} \cup (IF TornWrites /\ rewritten THEN {now, Torn(now)} ELSE {})

\* Plaintext up to a clean end of file, or an error of the decryption task.
Decrypted(r) ==
    /\ rdAt[r] = "bytes"
    /\ \E bytes \in Drained(r) :
          IF bytes.whole /\ rdHeader[r].whole /\ bytes.write = rdHeader[r].write
          THEN ReadReturns(r, "ok", bytes.write, {rdKey[r]})
          ELSE ReadReturns(r, "error", 0, {})

----------------------------------------------------------------------------
(* list, visit and list_with_metadata: the inner listing, then a check of   *)
(* the header of each data key.                                             *)

ListBegins(r, op) ==
    /\ rdAt[r] = "idle"
    /\ op \in ReadOps \cap ListOps
    /\ rdOp' = [rdOp EXCEPT ![r] = op]
    /\ rdAt' = [rdAt EXCEPT ![r] = "page"]
    /\ rdUnseen' = [rdUnseen EXCEPT ![r] = Keys]
    /\ rdReply' = [rdReply EXCEPT ![r] = NoReply]
    /\ UNCHANGED <<rdKey, rdData, rdHeader, rdTodo, rdFound>>

ListSees(r, k) ==
    /\ rdAt[r] = "page"
    /\ k \in rdUnseen[r]
    /\ rdUnseen' = [rdUnseen EXCEPT ![r] = @ \ {k}]
    /\ \E object \in DataSeen(k) :
          rdTodo' = [rdTodo EXCEPT ![r] = IF Present(object) THEN @ \cup {k} ELSE @]
    /\ UNCHANGED <<rdOp, rdAt, rdKey, rdData, rdHeader, rdFound, rdReply>>

\* visit checks a key as it comes; the others have the whole listing first.
MayCheck(r, k) ==
    /\ rdAt[r] = "page"
    /\ k \in rdTodo[r]
    /\ rdOp[r] = "visit" \/ rdUnseen[r] = {}

KeyDropped(r, k) ==
    /\ rdTodo' = [rdTodo EXCEPT ![r] = @ \ {k}]
    /\ UNCHANGED <<rdOp, rdAt, rdKey, rdData, rdHeader, rdUnseen, rdFound, rdReply>>

\* Data without a header is not listed.
OrphanSkipped(r, k) ==
    /\ MayCheck(r, k)
    /\ ~Present(header[k])
    /\ KeyDropped(r, k)

\* list_with_metadata only logs that a header could not be checked.
CheckErrorSkipped(r, k) ==
    /\ MayCheck(r, k)
    /\ rdOp[r] = "meta"
    /\ KeyDropped(r, k)

KeyListed(r, k) ==
    /\ MayCheck(r, k)
    /\ rdOp[r] # "meta"
    /\ \E object \in HeaderSeen(k) : Present(object)
    /\ rdTodo' = [rdTodo EXCEPT ![r] = @ \ {k}]
    /\ rdFound' = [rdFound EXCEPT ![r] = @ \cup {k}]
    /\ UNCHANGED <<rdOp, rdAt, rdKey, rdData, rdHeader, rdUnseen, rdReply>>

\* list_with_metadata goes back to the data object, which may be gone by then.
StatBegins(r, k) ==
    /\ MayCheck(r, k)
    /\ rdOp[r] = "meta"
    /\ \E object \in HeaderSeen(k) : Present(object)
    /\ rdAt' = [rdAt EXCEPT ![r] = "stat"]
    /\ rdKey' = [rdKey EXCEPT ![r] = k]
    /\ rdTodo' = [rdTodo EXCEPT ![r] = @ \ {k}]
    /\ UNCHANGED <<rdOp, rdData, rdHeader, rdUnseen, rdFound, rdReply>>

StatEnds(r) ==
    /\ rdAt[r] = "stat"
    /\ rdAt' = [rdAt EXCEPT ![r] = "page"]
    /\ rdKey' = [rdKey EXCEPT ![r] = NoKey]
    /\ \E object \in DataSeen(rdKey[r]) :
          rdFound' = [rdFound EXCEPT ![r] = IF Present(object) THEN @ \cup {rdKey[r]} ELSE @]
    /\ UNCHANGED <<rdOp, rdData, rdHeader, rdUnseen, rdTodo, rdReply>>

\* Mutant of ListReturns: it does not wait for the last pages.
ListReturnsEarly(r) ==
    /\ rdAt[r] = "page"
    /\ rdTodo[r] = {}
    /\ ReadReturns(r, "ok", 0, rdFound[r])

ListReturns(r) ==
    /\ rdAt[r] = "page"
    /\ rdUnseen[r] = {} /\ rdTodo[r] = {}
    /\ ReadReturns(r, "ok", 0, rdFound[r])

\* An inner call fails, or the caller gives up.
ReadFails(r) ==
    /\ rdAt[r] # "idle"
    /\ ReadReturns(r, "failed", 0, {})

----------------------------------------------------------------------------
ReaderNext(r) ==
    \/ \E op \in KeyOps, k \in Keys : KeyReadBegins(r, op, k)
    \/ DataMissing(r) \/ DataFound(r)
    \/ HeaderMissing(r) \/ HeaderExists(r) \/ HeaderRead(r) \/ Decrypted(r)
    \/ \E op \in ListOps : ListBegins(r, op)
    \/ \E k \in Keys :
          \/ ListSees(r, k) \/ OrphanSkipped(r, k) \/ CheckErrorSkipped(r, k)
          \/ KeyListed(r, k) \/ StatBegins(r, k)
    \/ StatEnds(r) \/ ListReturns(r) \/ ReadFails(r)

\* Keys dropped from the listing in this step, though they have a header.
DroppedUnchecked(r) ==
    {k \in rdTodo[r] \ (rdTodo'[r] \cup rdFound'[r]) : rdAt'[r] = "page" /\ Present(header[k])}

WatchReads ==
    /\ steady' = [r \in Readers |-> [k \in Keys |->
          IF rdAt'[r] = "idle" THEN 0
          ELSE IF rdAt[r] = "idle" \/ kept'[k] = steady[r][k] THEN kept'[k]
          ELSE 0]]
    /\ absent' = [r \in Readers |->
          IF rdAt'[r] = "idle" THEN {}
          ELSE IF rdAt[r] = "idle" THEN gone'
          ELSE absent[r] \cap gone']
    /\ unchecked' = [r \in Readers |->
          IF rdAt'[r] = "idle" THEN {} ELSE unchecked[r] \cup DroppedUnchecked(r)]
    /\ stale' = [r \in Readers |-> [k \in Keys |->
          IF rdAt'[r] = "idle" THEN {}
          ELSE IF rdAt[r] = "idle" THEN obsolete'[k]
          ELSE stale[r][k]]]

ReadsNext ==
    /\ \/ HNext /\ UNCHANGED readVars
       \/ (\E r \in Readers : ReaderNext(r)) /\ UNCHANGED hvars
    /\ WatchReads

RInit == HInit /\ ReadsInit
RSpec == RInit /\ [][ReadsNext]_rvars

----------------------------------------------------------------------------
Returned(r) == rdAt[r] # "idle" /\ rdAt'[r] = "idle"
Answer(r)   == rdReply'[r]

\* A blob that was stored throughout the call, nobody writing to it, is found:
\* get decrypts it, exists and the listings see it, unless the backend fails.
\* Rekey passes may come in between.  The one exception the code makes is a key
\* whose header list_with_metadata could not check: it drops that silently.
FindsSteady(r) ==
    Returned(r) /\ Answer(r).outcome # "failed" =>
        /\ rdOp[r] \in KeyOps /\ steady[r][rdKey[r]] # 0 =>
              /\ Answer(r).outcome = "ok"
              /\ rdOp[r] = "get" => Answer(r).write = steady[r][rdKey[r]]
        /\ rdOp[r] \in ListOps =>
              \A k \in Keys : steady[r][k] # 0 => k \in Answer(r).keys \cup unchecked[r]
ReadsFindSteady == [][\A r \in Readers : FindsSteady(r)]_rvars

\* Whatever writers and rekey do meanwhile, a blob that was deleted throughout
\* the call is neither returned nor listed, orphan header or not.
MissesAbsent(r) ==
    Returned(r) => Answer(r).keys \cap absent[r] = {}
ReadsMissAbsent == [][\A r \in Readers : MissesAbsent(r)]_rvars

\* get never returns a version that had been replaced or deleted when the call
\* began, though it pairs objects read at different moments.
ReadsNeverStale ==
    [][\A r \in Readers : \A k \in Answer(r).keys :
          Returned(r) => Answer(r).write \notin stale[r][k]]_rvars

----------------------------------------------------------------------------
(* Why reads keep their promises: invariants that ReadsNext preserves.      *)

\* What was so throughout a call is so now, and what was obsolete stays so.
ReadHistoryInv ==
    \A r \in Readers : rdAt[r] # "idle" =>
        /\ \A k \in Keys : steady[r][k] # 0 => kept[k] = steady[r][k]
        /\ absent[r] \subseteq gone
        /\ \A k \in Keys : stale[r][k] \subseteq obsolete[k]

\* What get and exists hold after their first inner call, and after their second.
KeyReadInv ==
    \A r \in Readers :
        /\ rdAt[r] \in {"header", "bytes"} =>
              /\ rdKey[r] \notin absent[r]
              /\ rdData[r].write \notin stale[r][rdKey[r]]
              /\ steady[r][rdKey[r]] # 0 =>
                    rdData[r] = [write |-> steady[r][rdKey[r]], whole |-> TRUE]
        /\ rdAt[r] = "bytes" /\ steady[r][rdKey[r]] # 0 /\ ~RekeyTears =>
              rdHeader[r].write = steady[r][rdKey[r]] /\ rdHeader[r].whole

\* A listing has no absent key in hand, and no steady one behind it unlisted.
ListSound(r) ==
    /\ rdAt[r] \notin {"page", "stat"} => rdTodo[r] = {} /\ rdFound[r] = {}
    /\ rdAt[r] = "stat" => rdOp[r] = "meta"
    /\ rdAt[r] # "idle" => (rdTodo[r] \cup rdFound[r]) \cap absent[r] = {}
    /\ rdAt[r] # "idle" /\ rdOp[r] \in ListOps =>
          \A k \in Keys : steady[r][k] # 0 =>
              \/ k \in rdUnseen[r] \cup rdTodo[r] \cup rdFound[r] \cup unchecked[r]
              \/ rdAt[r] = "stat" /\ k = rdKey[r]
ListInv == \A r \in Readers : ListSound(r)
===============================================================================
