------------------------- MODULE EncryptedReadsProofs -------------------------
(***************************************************************************)
(* The promises of the read paths, for every number of readers, writers    *)
(* and keys, on top of the invariant of EncryptedHistoryProofs.            *)
(***************************************************************************)
EXTENDS EncryptedReads, EncryptedHistoryProofs

RInv ==
    /\ HInv
    /\ ReadsTypeOK
    /\ ReadHistoryInv
    /\ KeyReadInv
    /\ ListInv

LEMMA ReadsInit_RInv == RInit => RInv
<1> SUFFICES ASSUME RInit PROVE RInv
  OBVIOUS
<1>1. HInv
  BY HistoryInit_HInv DEF RInit
<1>2. ReadsTypeOK
  BY NoObjects, BoundsAssumption
  DEF RInit, ReadsInit, ReadsTypeOK, Replies, NoReply, WriteIds
<1>3. ReadHistoryInv /\ KeyReadInv /\ ListInv
  BY DEF RInit, ReadsInit, ReadHistoryInv, KeyReadInv, ListInv, ListSound
<1>4. QED
  BY <1>1, <1>2, <1>3 DEF RInv

----------------------------------------------------------------------------
\* A reader's step leaves the program alone, and the program's the readers.
LEMMA ReadsHistoryStep == ASSUME RInv, ReadsNext PROVE HInv'
BY HistoryStep DEF RInv, ReadsNext

\* What a reader finds is an object, torn or not.
LEMMA SeenTypes ==
    ASSUME TypeOK, NEW k \in Keys
    PROVE  DataSeen(k) \subseteq DataObjects /\ HeaderSeen(k) \subseteq HeaderObjects
<1>1. \A object \in HeaderObjects : Torn(object) \in HeaderObjects
  BY DEF Torn, HeaderObjects
<1>2. /\ data[k] \in DataObjects /\ header[k] \in HeaderObjects /\ rkHeader \in HeaderObjects
      /\ \A c \in Writers : write[c] \in WriteIds /\ wrapped[c] \in HeaderObjects
  BY DEF TypeOK
<1>3. DataSeen(k) \subseteq DataObjects
  <2>1. \A c \in Writers : [write |-> write[c], whole |-> FALSE] \in DataObjects
    BY <1>2 DEF DataObjects
  <2>2. QED
    BY <1>2, <2>1 DEF DataSeen
<1>4. HeaderSeen(k) \subseteq HeaderObjects
  BY <1>1, <1>2 DEF HeaderSeen
<1>5. QED
  BY <1>3, <1>4

LEMMA ReaderKeepsTypes ==
    ASSUME RInv, NEW r \in Readers, ReaderNext(r)
    PROVE  ReadsTypeOK'
<1> USE DEF ReadsTypeOK
<1>0. TypeOK /\ ReadsTypeOK /\ 0 \in WriteIds /\ NoReply \in Replies
  BY BoundsAssumption DEF RInv, HInv, WriteIds, NoReply, Replies
<1>1. ASSUME NEW outcome \in {"ok", "notfound", "error", "failed"},
             NEW w \in WriteIds, NEW keys \in SUBSET Keys,
             ReadReturns(r, outcome, w, keys)
      PROVE  ReadsTypeOK'
  BY <1>0, <1>1, NoObjects DEF ReadReturns, Replies
<1>2. ASSUME NEW op \in KeyOps, NEW k \in Keys, KeyReadBegins(r, op, k)
      PROVE  ReadsTypeOK'
  BY <1>0, <1>2 DEF KeyReadBegins, KeyOps, ListOps
<1>3. CASE DataMissing(r) \/ HeaderMissing(r) \/ ReadFails(r)
  BY <1>0, <1>1, <1>3 DEF DataMissing, HeaderMissing, ReadFails
<1>4. CASE DataFound(r)
  <2>1. DataSeen(rdKey[r]) \subseteq DataObjects
    BY <1>0, <1>4, SeenTypes DEF DataFound
  <2>2. QED
    BY <1>0, <1>4, <2>1 DEF DataFound
<1>5. CASE HeaderExists(r)
  <2>1. {rdKey[r]} \subseteq Keys
    BY <1>0, <1>5 DEF HeaderExists
  <2>2. QED
    BY <1>0, <1>1, <1>5, <2>1 DEF HeaderExists
<1>6. CASE HeaderRead(r)
  <2>1. HeaderSeen(rdKey[r]) \subseteq HeaderObjects
    BY <1>0, <1>6, SeenTypes DEF HeaderRead
  <2>2. QED
    BY <1>0, <1>6, <2>1 DEF HeaderRead
<1>7. CASE Decrypted(r)
  <2>1. rdKey[r] \in Keys /\ data[rdKey[r]] \in DataObjects /\ rdData[r] \in DataObjects
    BY <1>0, <1>7 DEF Decrypted, TypeOK
  <2>2. \A bytes \in Drained(r) : bytes.write \in WriteIds
    BY <2>1 DEF Drained, Torn, DataObjects
  <2>3. QED
    BY <1>0, <1>1, <1>7, <2>1, <2>2 DEF Decrypted
<1>8. ASSUME NEW op \in ListOps, ListBegins(r, op) PROVE ReadsTypeOK'
  BY <1>0, <1>8 DEF ListBegins, KeyOps, ListOps
<1>9. ASSUME NEW k \in Keys,
             \/ ListSees(r, k) \/ OrphanSkipped(r, k) \/ CheckErrorSkipped(r, k)
             \/ KeyListed(r, k) \/ StatBegins(r, k)
      PROVE  ReadsTypeOK'
  BY <1>0, <1>9
  DEF ListSees, OrphanSkipped, CheckErrorSkipped, KeyListed, StatBegins, MayCheck, KeyDropped
<1>10. CASE StatEnds(r)
  BY <1>0, <1>10 DEF StatEnds
<1>11. CASE ListReturns(r)
  <2>1. rdFound[r] \subseteq Keys
    BY <1>0
  <2>2. QED
    BY <1>0, <1>1, <1>11, <2>1 DEF ListReturns
<1>12. QED
  BY <1>2, <1>3, <1>4, <1>5, <1>6, <1>7, <1>8, <1>9, <1>10, <1>11 DEF ReaderNext

LEMMA ReadsTypeStep == ASSUME RInv, ReadsNext PROVE ReadsTypeOK'
<1>1. CASE UNCHANGED readVars
  BY <1>1 DEF RInv, ReadsTypeOK, readVars
<1>2. CASE \E r \in Readers : ReaderNext(r)
  BY <1>2, ReaderKeepsTypes
<1>3. QED
  BY <1>1, <1>2 DEF ReadsNext

----------------------------------------------------------------------------
\* Obsolete writes stay obsolete, and what a reader remembers of the history
\* only shrinks while its call lasts.
LEMMA ObsoleteStays ==
    ASSUME RInv, ReadsNext, NEW k \in Keys
    PROVE  obsolete[k] \subseteq obsolete'[k]
BY DEF ReadsNext, HNext, Watch, hvars, history

LEMMA MemoryShrinks ==
    ASSUME RInv, ReadsNext, NEW r \in Readers, rdAt[r] # "idle", rdAt'[r] # "idle"
    PROVE  /\ absent'[r] \subseteq absent[r]
           /\ \A k \in Keys : stale'[r][k] = stale[r][k]
           /\ \A k \in Keys : steady'[r][k] \in {0, steady[r][k]}
BY DEF ReadsNext, WatchReads

LEMMA ReadHistoryStep == ASSUME RInv, ReadsNext PROVE ReadHistoryInv'
<1> SUFFICES ASSUME NEW r \in Readers, rdAt'[r] # "idle"
             PROVE  /\ \A k \in Keys : steady'[r][k] # 0 => kept'[k] = steady'[r][k]
                    /\ absent'[r] \subseteq gone'
                    /\ \A k \in Keys : stale'[r][k] \subseteq obsolete'[k]
  BY DEF ReadHistoryInv
<1>1. WatchReads
  BY DEF ReadsNext
<1>2. CASE rdAt[r] = "idle"
  BY <1>1, <1>2 DEF WatchReads
<1>3. CASE rdAt[r] # "idle"
  <2>1. \A k \in Keys : stale'[r][k] \subseteq obsolete'[k]
    BY <1>3, MemoryShrinks, ObsoleteStays DEF RInv, ReadHistoryInv
  <2>2. QED
    BY <1>1, <1>3, <2>1 DEF WatchReads
<1>4. QED
  BY <1>2, <1>3

----------------------------------------------------------------------------
\* What the history says of a key, seen in the store.
LEMMA SteadyStored ==
    ASSUME RInv, NEW r \in Readers, rdAt[r] # "idle", NEW k \in Keys
    PROVE  /\ steady[r][k] # 0 =>
                 /\ data[k] = [write |-> steady[r][k], whole |-> TRUE]
                 /\ header[k].write = steady[r][k]
                 /\ ~RekeyTears => header[k].whole
                 /\ \A c \in Writers : k \notin AtWork(c)
           /\ k \in absent[r] => ~Present(data[k])
           /\ data[k].write \notin stale[r][k]
<1>1. SettledInv /\ ObsoleteInv /\ ReadHistoryInv
  BY DEF RInv, HInv
<1>2. QED
  BY <1>1 DEF SettledInv, ObsoleteInv, ReadHistoryInv, Paired

\* The same of what a reader may find there.
LEMMA SteadySeen ==
    ASSUME RInv, NEW r \in Readers, rdAt[r] # "idle", NEW k \in Keys
    PROVE  /\ steady[r][k] # 0 =>
                 /\ DataSeen(k) = {[write |-> steady[r][k], whole |-> TRUE]}
                 /\ ~RekeyTears => HeaderSeen(k) = {header[k]}
           /\ k \in absent[r] => \A object \in DataSeen(k) : ~Present(object)
           /\ \A object \in DataSeen(k) : object.write \notin stale[r][k]
<1>1. /\ TypeOK /\ SettledInv /\ ObsoleteInv /\ ReadHistoryInv
      /\ rkPc # "idle" => Rekeys
  BY DEF RInv, HInv, RekeyInv
<1>2. ASSUME NEW c \in Writers, pc[c] \in {"data", "header"}, key(c) = k
      PROVE  k \in AtWork(c)
  BY <1>2 DEF AtWork, PutSteps
<1>3. ASSUME steady[r][k] # 0
      PROVE  /\ DataSeen(k) = {[write |-> steady[r][k], whole |-> TRUE]}
             /\ ~RekeyTears => HeaderSeen(k) = {header[k]}
  <2>1. /\ data[k] = [write |-> steady[r][k], whole |-> TRUE]
        /\ \A c \in Writers : k \notin AtWork(c)
    BY <1>3, SteadyStored
  <2>2. /\ {d \in Writers : TornWrites /\ pc[d] = "data" /\ key(d) = k} = {}
        /\ {d \in Writers : TornWrites /\ pc[d] = "header" /\ key(d) = k} = {}
    BY <1>2, <2>1
  <2>3. ~RekeyTears => ~(TornWrites /\ rkPc = "store" /\ rkKey = k)
    BY <1>1 DEF RekeyTears
  <2>4. QED
    BY <2>1, <2>2, <2>3 DEF DataSeen, HeaderSeen
<1>4. ASSUME k \in absent[r] PROVE \A object \in DataSeen(k) : ~Present(object)
  <2>1. ~Present(data[k]) /\ \A c \in Writers : k \notin AtWork(c)
    BY <1>1, <1>4 DEF SettledInv, ReadHistoryInv
  <2>2. {d \in Writers : TornWrites /\ pc[d] = "data" /\ key(d) = k} = {}
    BY <1>2, <2>1
  <2>3. QED
    BY <2>1, <2>2 DEF DataSeen
<1>5. ASSUME NEW object \in DataSeen(k) PROVE object.write \notin stale[r][k]
  <2>1. CASE object = data[k]
    BY <2>1, SteadyStored
  <2>2. CASE object # data[k]
    <3>1. PICK c \in Writers : /\ pc[c] = "data"
                               /\ object = [write |-> write[c], whole |-> FALSE]
      BY <1>5, <2>2 DEF DataSeen
    <3>2. object.write = write[c] /\ write[c] \in Nat /\ Len(queue[c]) \in Nat \ {0}
      BY <1>1, <3>1, BoundsAssumption DEF TypeOK, PutSteps, WriteIds
    <3>3. write[c] \notin Over
      BY <3>1, <3>2 DEF Over, PutSteps
    <3>4. stale[r][k] \subseteq Over
      BY <1>1 DEF ReadHistoryInv, ObsoleteInv
    <3>5. QED
      BY <3>2, <3>3, <3>4
  <2>3. QED
    BY <2>1, <2>2
<1>6. QED
  BY <1>3, <1>4, <1>5

LEMMA KeyReadStep == ASSUME RInv, ReadsNext PROVE KeyReadInv'
<1> SUFFICES ASSUME NEW r \in Readers, rdAt'[r] \in {"header", "bytes"}
             PROVE  /\ rdKey'[r] \notin absent'[r]
                    /\ rdData'[r].write \notin stale'[r][rdKey'[r]]
                    /\ steady'[r][rdKey'[r]] # 0 =>
                          rdData'[r] = [write |-> steady'[r][rdKey'[r]], whole |-> TRUE]
                    /\ rdAt'[r] = "bytes" /\ steady'[r][rdKey'[r]] # 0 /\ ~RekeyTears =>
                          rdHeader'[r].write = steady'[r][rdKey'[r]] /\ rdHeader'[r].whole
  BY DEF KeyReadInv
<1>1. ReadsTypeOK /\ KeyReadInv
  BY DEF RInv
<1>2. CASE rdAt[r] = rdAt'[r] /\ UNCHANGED <<rdKey[r], rdData[r], rdHeader[r]>>
  <2>1. /\ rdKey[r] \in Keys /\ rdAt[r] \in {"header", "bytes"}
        /\ rdKey'[r] = rdKey[r] /\ rdData'[r] = rdData[r] /\ rdHeader'[r] = rdHeader[r]
    BY <1>1, <1>2 DEF ReadsTypeOK
  <2>2. /\ absent'[r] \subseteq absent[r]
        /\ stale'[r][rdKey[r]] = stale[r][rdKey[r]]
        /\ steady'[r][rdKey[r]] \in {0, steady[r][rdKey[r]]}
    BY <2>1, MemoryShrinks
  <2>3. /\ rdKey[r] \notin absent[r]
        /\ rdData[r].write \notin stale[r][rdKey[r]]
        /\ steady[r][rdKey[r]] # 0 =>
              rdData[r] = [write |-> steady[r][rdKey[r]], whole |-> TRUE]
        /\ rdAt[r] = "bytes" /\ steady[r][rdKey[r]] # 0 /\ ~RekeyTears =>
              rdHeader[r].write = steady[r][rdKey[r]] /\ rdHeader[r].whole
    BY <1>1, <2>1 DEF KeyReadInv
  <2>4. CASE steady'[r][rdKey[r]] = 0
    BY <2>1, <2>2, <2>3, <2>4
  <2>5. CASE steady'[r][rdKey[r]] = steady[r][rdKey[r]]
    BY <1>2, <2>1, <2>2, <2>3, <2>5
  <2>6. QED
    BY <2>2, <2>4, <2>5
<1>3. CASE DataFound(r)
  <2>1. /\ rdAt[r] = "data" /\ rdAt'[r] = "header" /\ rdKey'[r] = rdKey[r]
        /\ rdKey[r] \in Keys
        /\ rdData'[r] \in DataSeen(rdKey[r]) /\ Present(rdData'[r])
    BY <1>1, <1>3 DEF DataFound, ReadsTypeOK
  <2>2. /\ absent'[r] \subseteq absent[r]
        /\ stale'[r][rdKey[r]] = stale[r][rdKey[r]]
        /\ steady'[r][rdKey[r]] \in {0, steady[r][rdKey[r]]}
    BY <2>1, MemoryShrinks
  <2>3. /\ rdKey[r] \notin absent[r] /\ rdData'[r].write \notin stale[r][rdKey[r]]
        /\ steady[r][rdKey[r]] # 0 =>
              rdData'[r] = [write |-> steady[r][rdKey[r]], whole |-> TRUE]
    <3> DEFINE k == rdKey[r]
               seen == DataSeen(k)
    <3>1. /\ steady[r][k] # 0 => seen = {[write |-> steady[r][k], whole |-> TRUE]}
          /\ k \in absent[r] => \A object \in seen : ~Present(object)
          /\ \A object \in seen : object.write \notin stale[r][k]
      BY <2>1, SteadySeen
    <3> HIDE DEF seen
    <3>2. QED
      BY <2>1, <3>1 DEF seen
  <2>4. QED
    BY <2>1, <2>2, <2>3
<1>4. CASE HeaderRead(r)
  <2>1. /\ rdAt[r] = "header" /\ rdAt'[r] = "bytes" /\ rdKey'[r] = rdKey[r]
        /\ rdData'[r] = rdData[r] /\ rdKey[r] \in Keys
        /\ rdHeader'[r] \in HeaderSeen(rdKey[r])
    BY <1>1, <1>4 DEF HeaderRead, ReadsTypeOK
  <2>2. /\ absent'[r] \subseteq absent[r]
        /\ stale'[r][rdKey[r]] = stale[r][rdKey[r]]
        /\ steady'[r][rdKey[r]] \in {0, steady[r][rdKey[r]]}
    BY <2>1, MemoryShrinks
  <2>3. steady[r][rdKey[r]] # 0 /\ ~RekeyTears =>
            rdHeader'[r].write = steady[r][rdKey[r]] /\ rdHeader'[r].whole
    <3>1. ASSUME steady[r][rdKey[r]] # 0, ~RekeyTears PROVE rdHeader'[r] = header[rdKey[r]]
      BY <2>1, <3>1, SteadySeen
    <3>2. ASSUME steady[r][rdKey[r]] # 0, ~RekeyTears
          PROVE  header[rdKey[r]].write = steady[r][rdKey[r]] /\ header[rdKey[r]].whole
      BY <2>1, <3>2, SteadyStored
    <3>3. QED
      BY <3>1, <3>2
  <2>4. /\ rdKey[r] \notin absent[r]
        /\ rdData[r].write \notin stale[r][rdKey[r]]
        /\ steady[r][rdKey[r]] # 0 =>
              rdData[r] = [write |-> steady[r][rdKey[r]], whole |-> TRUE]
    BY <1>1, <2>1 DEF KeyReadInv
  <2>5. CASE steady'[r][rdKey[r]] = 0
    BY <2>1, <2>2, <2>4, <2>5
  <2>6. CASE steady'[r][rdKey[r]] = steady[r][rdKey[r]]
    BY <2>1, <2>2, <2>3, <2>4, <2>6
  <2>7. QED
    BY <2>2, <2>5, <2>6
<1>5. QED
  <2>1. CASE UNCHANGED readVars
    BY <1>2, <2>1 DEF readVars
  <2>2. ASSUME NEW q \in Readers, ReaderNext(q)
        PROVE  \/ DataFound(r) \/ HeaderRead(r)
               \/ rdAt[r] = rdAt'[r] /\ UNCHANGED <<rdKey[r], rdData[r], rdHeader[r]>>
    BY <1>1, <2>2
    DEF ReadsTypeOK, ReaderNext, KeyReadBegins, DataMissing, DataFound, HeaderMissing,
        HeaderExists, HeaderRead, Decrypted, ListBegins, ListSees, OrphanSkipped,
        CheckErrorSkipped, KeyListed, StatBegins, StatEnds, ListReturns, ReadFails,
        MayCheck, KeyDropped, ReadReturns
  <2>3. QED
    BY <1>2, <1>3, <1>4, <2>1, <2>2 DEF ReadsNext

\* What a step leaves of the keys a listing has to care about.
LEMMA ListMemory ==
    ASSUME RInv, ReadsNext, NEW r \in Readers, rdAt[r] # "idle", rdAt'[r] # "idle"
    PROVE  /\ absent'[r] \subseteq absent[r]
           /\ \A k \in Keys : steady'[r][k] # 0 =>
                 steady[r][k] # 0 /\ Present(data[k]) /\ Present(header[k])
           /\ \A k \in Keys : steady[r][k] # 0 => \A object \in DataSeen(k) : Present(object)
           /\ \A k \in Keys : k \in absent[r] => \A object \in DataSeen(k) : ~Present(object)
           /\ unchecked'[r] = unchecked[r] \cup DroppedUnchecked(r)
<1>0. unchecked'[r] = unchecked[r] \cup DroppedUnchecked(r)
  BY DEF ReadsNext, WatchReads
<1>1. /\ absent'[r] \subseteq absent[r]
      /\ \A k \in Keys : steady'[r][k] \in {0, steady[r][k]}
  BY MemoryShrinks
<1>2. \A k \in Keys :
          /\ steady[r][k] # 0 =>
                /\ data[k] = [write |-> steady[r][k], whole |-> TRUE]
                /\ header[k].write = steady[r][k]
          /\ k \in absent[r] => \A object \in DataSeen(k) : ~Present(object)
  BY SteadyStored, SteadySeen
<1>3. ASSUME NEW k \in Keys, steady[r][k] # 0 PROVE data[k].write = steady[r][k]
  <2>1. data[k] = [write |-> steady[r][k], whole |-> TRUE]
    BY <1>2, <1>3
  <2>2. QED
    BY <2>1
<1>4. ASSUME NEW k \in Keys, steady[r][k] # 0, NEW object \in DataSeen(k)
      PROVE  Present(object)
  <2>1. object = [write |-> steady[r][k], whole |-> TRUE]
    BY <1>4, SteadySeen
  <2>2. QED
    BY <1>4, <2>1 DEF Present
<1>5. QED
  BY <1>0, <1>1, <1>2, <1>3, <1>4 DEF Present

LEMMA OwnListStep ==
    ASSUME RInv, ReadsNext, NEW r \in Readers, ReaderNext(r)
    PROVE  ListSound(r)'
<1>1. ReadsTypeOK /\ ListSound(r)
  BY DEF RInv, ListInv
<1>2. ASSUME rdAt'[r] = "idle", rdTodo'[r] = {}, rdFound'[r] = {} PROVE ListSound(r)'
  BY <1>2 DEF ListSound
<1>3. CASE rdAt'[r] = "idle"
  BY <1>1, <1>2, <1>3
  DEF ReadsTypeOK, ReaderNext, KeyReadBegins, DataMissing, DataFound, HeaderMissing,
      HeaderExists, HeaderRead, Decrypted, ListBegins, ListSees, OrphanSkipped,
      CheckErrorSkipped, KeyListed, StatBegins, StatEnds, ListReturns, ReadFails,
      MayCheck, KeyDropped, ReadReturns
<1>4. CASE rdAt[r] = "idle" /\ rdAt'[r] # "idle"
  <2>1. rdTodo[r] = {} /\ rdFound[r] = {}
    BY <1>1, <1>4 DEF ListSound
  <2>2. /\ rdTodo'[r] = {} /\ rdFound'[r] = {}
        /\ \/ rdAt'[r] = "data" /\ rdOp'[r] \in KeyOps
           \/ rdAt'[r] = "page" /\ rdUnseen'[r] = Keys
    BY <1>1, <1>4, <2>1
    DEF ReadsTypeOK, ReaderNext, KeyReadBegins, DataMissing, DataFound, HeaderMissing,
        HeaderExists, HeaderRead, Decrypted, ListBegins, ListSees, OrphanSkipped,
        CheckErrorSkipped, KeyListed, StatBegins, StatEnds, ListReturns, ReadFails,
        MayCheck, KeyDropped, ReadReturns
  <2>3. QED
    BY <2>2, <1>1 DEF ListSound, KeyOps, ListOps
<1>5. CASE rdAt[r] # "idle" /\ rdAt'[r] # "idle"
  <2>1. /\ absent'[r] \subseteq absent[r]
        /\ \A k \in Keys : steady'[r][k] # 0 =>
              steady[r][k] # 0 /\ Present(data[k]) /\ Present(header[k])
        /\ \A k \in Keys : steady[r][k] # 0 => \A object \in DataSeen(k) : Present(object)
        /\ \A k \in Keys : k \in absent[r] => \A object \in DataSeen(k) : ~Present(object)
        /\ unchecked'[r] = unchecked[r] \cup DroppedUnchecked(r)
    BY <1>5, ListMemory
  <2>2. CASE DataFound(r) \/ HeaderRead(r)
    BY <1>1, <2>1, <2>2 DEF DataFound, HeaderRead, ListSound, ReadsTypeOK, KeyOps, ListOps
  <2>3. ASSUME NEW k \in Keys, ListSees(r, k) PROVE ListSound(r)'
    <3>1. PICK object \in DataSeen(k) :
             rdTodo' = [rdTodo EXCEPT ![r] = IF Present(object) THEN @ \cup {k} ELSE @]
      BY <2>3 DEF ListSees
    <3>2. /\ rdAt[r] = "page" /\ rdAt'[r] = "page" /\ rdOp'[r] = rdOp[r]
          /\ rdUnseen'[r] = rdUnseen[r] \ {k} /\ rdFound'[r] = rdFound[r]
          /\ rdTodo'[r] = IF Present(object) THEN rdTodo[r] \cup {k} ELSE rdTodo[r]
      BY <1>1, <2>3, <3>1 DEF ListSees, ReadsTypeOK
    <3>3. QED
      BY <1>1, <2>1, <2>3, <3>2 DEF ListSound
  <2>4. ASSUME NEW k \in Keys, OrphanSkipped(r, k) \/ CheckErrorSkipped(r, k)
        PROVE  ListSound(r)'
    <3>1. /\ rdAt[r] = "page" /\ rdAt'[r] = "page" /\ rdOp'[r] = rdOp[r]
          /\ rdUnseen'[r] = rdUnseen[r] /\ rdFound'[r] = rdFound[r]
          /\ rdTodo'[r] = rdTodo[r] \ {k}
          /\ k \in rdTodo[r]
      BY <1>1, <2>4 DEF OrphanSkipped, CheckErrorSkipped, MayCheck, KeyDropped, ReadsTypeOK
    <3>2. Present(header[k]) /\ k \notin rdFound[r] => k \in DroppedUnchecked(r)
      BY <3>1 DEF DroppedUnchecked
    <3>3. QED
      BY <1>1, <2>1, <3>1, <3>2 DEF ListSound
  <2>5. ASSUME NEW k \in Keys, KeyListed(r, k) PROVE ListSound(r)'
    <3>1. /\ rdAt[r] = "page" /\ rdAt'[r] = "page" /\ rdOp'[r] = rdOp[r]
          /\ rdUnseen'[r] = rdUnseen[r] /\ rdFound'[r] = rdFound[r] \cup {k}
          /\ rdTodo'[r] = rdTodo[r] \ {k} /\ k \in rdTodo[r]
      BY <1>1, <2>5 DEF KeyListed, MayCheck, ReadsTypeOK
    <3>2. QED
      BY <1>1, <2>1, <3>1 DEF ListSound
  <2>6. ASSUME NEW k \in Keys, StatBegins(r, k) PROVE ListSound(r)'
    <3>1. /\ rdAt[r] = "page" /\ rdAt'[r] = "stat" /\ rdOp'[r] = rdOp[r]
          /\ rdOp[r] = "meta" /\ rdFound'[r] = rdFound[r]
          /\ rdTodo'[r] = rdTodo[r] \ {k} /\ rdUnseen'[r] = rdUnseen[r]
          /\ rdKey'[r] = k
      BY <1>1, <2>6 DEF StatBegins, MayCheck, ReadsTypeOK
    <3>2. QED
      BY <1>1, <2>1, <3>1 DEF ListSound
  <2>7. CASE StatEnds(r)
    <3>1. /\ rdAt[r] = "stat" /\ rdAt'[r] = "page" /\ rdOp'[r] = rdOp[r]
          /\ rdKey[r] \in Keys /\ rdTodo'[r] = rdTodo[r] /\ rdUnseen'[r] = rdUnseen[r]
      BY <1>1, <2>7 DEF StatEnds, ReadsTypeOK
    <3>2. PICK object \in DataSeen(rdKey[r]) :
             rdFound'[r] = IF Present(object) THEN rdFound[r] \cup {rdKey[r]} ELSE rdFound[r]
      BY <1>1, <2>7 DEF StatEnds, ReadsTypeOK
    <3>3. QED
      BY <1>1, <2>1, <3>1, <3>2 DEF ListSound
  <2>8. QED
    BY <1>1, <1>5, <2>2, <2>3, <2>4, <2>5, <2>6, <2>7
    DEF ReadsTypeOK, ReaderNext, KeyReadBegins, DataMissing, HeaderMissing, HeaderExists,
        Decrypted, ListBegins, ListReturns, ReadFails, ReadReturns
<1>6. QED
  BY <1>3, <1>4, <1>5

LEMMA ListStep == ASSUME RInv, ReadsNext PROVE ListInv'
<1> SUFFICES ASSUME NEW r \in Readers PROVE ListSound(r)'
  BY DEF ListInv
<1>1. ReadsTypeOK /\ ListSound(r)
  BY DEF RInv, ListInv
<1>2. CASE ReaderNext(r)
  BY <1>2, OwnListStep
<1>3. CASE /\ rdAt[r] = rdAt'[r]
           /\ UNCHANGED <<rdOp[r], rdKey[r], rdUnseen[r], rdTodo[r], rdFound[r]>>
  <2>1. CASE rdAt[r] = "idle"
    BY <1>1, <1>3, <2>1 DEF ListSound
  <2>2. CASE rdAt[r] # "idle"
    <3>1. /\ absent'[r] \subseteq absent[r]
          /\ \A k \in Keys : steady'[r][k] # 0 => steady[r][k] # 0
          /\ unchecked[r] \subseteq unchecked'[r]
      BY <1>3, <2>2, ListMemory
    <3>2. QED
      BY <1>1, <1>3, <3>1 DEF ListSound
  <2>3. QED  BY <2>1, <2>2
<1>4. QED
  <2>1. CASE UNCHANGED readVars
    BY <1>3, <2>1 DEF readVars
  <2>2. ASSUME NEW q \in Readers, q # r, ReaderNext(q)
        PROVE  /\ rdAt[r] = rdAt'[r]
               /\ UNCHANGED <<rdOp[r], rdKey[r], rdUnseen[r], rdTodo[r], rdFound[r]>>
    BY <1>1, <2>2
    DEF ReadsTypeOK, ReaderNext, KeyReadBegins, DataMissing, DataFound, HeaderMissing,
        HeaderExists, HeaderRead, Decrypted, ListBegins, ListSees, OrphanSkipped,
        CheckErrorSkipped, KeyListed, StatBegins, StatEnds, ListReturns, ReadFails,
        MayCheck, KeyDropped, ReadReturns
  <2>3. QED
    BY <1>2, <1>3, <2>1, <2>2 DEF ReadsNext

----------------------------------------------------------------------------
LEMMA ReadsStep == RInv /\ [ReadsNext]_rvars => RInv'
<1> SUFFICES ASSUME RInv, [ReadsNext]_rvars PROVE RInv'
  OBVIOUS
<1>1. CASE ReadsNext
  BY <1>1, ReadsHistoryStep, ReadsTypeStep, ReadHistoryStep, KeyReadStep, ListStep DEF RInv
<1>2. CASE UNCHANGED rvars
  <2>1. UNCHANGED hvars /\ UNCHANGED readVars /\ UNCHANGED readHistory
    BY <1>2 DEF rvars
  <2>2. HInv'
    BY <2>1, HistoryStep DEF RInv
  <2>3. QED
    BY <2>1, <2>2 DEF RInv, ReadsTypeOK, ReadHistoryInv, KeyReadInv, ListInv, ListSound,
      readVars, readHistory, hvars, history
<1>3. QED
  BY <1>1, <1>2

LEMMA ReadsInvariant == RSpec => []RInv
BY ReadsInit_RInv, ReadsStep, PTL DEF RSpec

\* A call returns by a step of its reader, and by one of six.
LEMMA ReturnsByItself ==
    ASSUME RInv, [ReadsNext]_rvars, NEW r \in Readers, Returned(r)
    PROVE  \/ DataMissing(r) \/ HeaderMissing(r) \/ HeaderExists(r)
           \/ Decrypted(r) \/ ListReturns(r) \/ ReadFails(r)
<1>1. ReadsNext
  BY DEF Returned, rvars, readVars
<1>2. ReadsTypeOK
  BY DEF RInv
<1>3. ~UNCHANGED readVars
  BY DEF Returned, readVars
<1>4. PICK q \in Readers : ReaderNext(q)
  BY <1>1, <1>3 DEF ReadsNext
<1>5. q = r
  BY <1>2, <1>4
  DEF Returned, ReadsTypeOK, ReaderNext, KeyReadBegins, DataMissing, DataFound,
      HeaderMissing, HeaderExists, HeaderRead, Decrypted, ListBegins, ListSees,
      OrphanSkipped, CheckErrorSkipped, KeyListed, StatBegins, StatEnds, ListReturns,
      ReadFails, MayCheck, KeyDropped, ReadReturns
<1>6. QED
  BY <1>2, <1>4, <1>5
  DEF Returned, ReadsTypeOK, ReaderNext, KeyReadBegins, DataFound, HeaderRead, ListBegins,
      ListSees, OrphanSkipped, CheckErrorSkipped, KeyListed, StatBegins, StatEnds,
      MayCheck, KeyDropped

\* What each of the six answers.
LEMMA Answers ==
    ASSUME ReadsTypeOK, NEW r \in Readers
    PROVE  /\ DataMissing(r) \/ HeaderMissing(r) =>
                 Answer(r) = [outcome |-> "notfound", write |-> 0, keys |-> {}]
           /\ HeaderExists(r) =>
                 Answer(r) = [outcome |-> "ok", write |-> 0, keys |-> {rdKey[r]}]
           /\ ListReturns(r) =>
                 Answer(r) = [outcome |-> "ok", write |-> 0, keys |-> rdFound[r]]
           /\ ReadFails(r) =>
                 Answer(r) = [outcome |-> "failed", write |-> 0, keys |-> {}]
BY DEF DataMissing, HeaderMissing, HeaderExists, ListReturns, ReadFails,
       Answer, ReadsTypeOK, ReadReturns

LEMMA DecryptedAnswer ==
    ASSUME ReadsTypeOK, NEW r \in Readers, Decrypted(r)
    PROVE  \E bytes \in Drained(r) :
              Answer(r) = IF bytes.whole /\ rdHeader[r].whole /\ bytes.write = rdHeader[r].write
                          THEN [outcome |-> "ok", write |-> bytes.write, keys |-> {rdKey[r]}]
                          ELSE [outcome |-> "error", write |-> 0, keys |-> {}]
BY DEF Decrypted, Answer, ReadsTypeOK, ReadReturns

\* The variables of the readers have their types.
THEOREM ReadsTypeCorrect == RSpec => []ReadsTypeOK
<1>1. RInv => ReadsTypeOK
  BY DEF RInv
<1>2. QED
  BY <1>1, ReadsInvariant, PTL

----------------------------------------------------------------------------
\* Whatever get decrypts, and whatever exists and the listings say, was not
\* obsolete when the call began.
LEMMA NeverStaleStep ==
    ASSUME RInv, [ReadsNext]_rvars, NEW r \in Readers, Returned(r),
           NEW k \in Answer(r).keys
    PROVE  Answer(r).write \notin stale[r][k]
<1>1. /\ TypeOK /\ ObsoleteInv /\ ReadsTypeOK /\ ReadHistoryInv /\ KeyReadInv
      /\ rdAt[r] # "idle"
  BY DEF RInv, HInv, Returned
<1>2. ASSUME NEW x \in Keys PROVE 0 \notin stale[r][x]
  <2>1. stale[r][x] \subseteq Over
    BY <1>1 DEF ReadHistoryInv, ObsoleteInv
  <2>2. QED
    BY <2>1, <1>1 DEF Over, TypeOK, WriteIds
<1>3. CASE DataMissing(r) \/ HeaderMissing(r) \/ ReadFails(r)
  BY <1>1, <1>3, Answers
<1>4. CASE HeaderExists(r)
  BY <1>1, <1>2, <1>4, Answers DEF HeaderExists, ReadsTypeOK
<1>5. CASE ListReturns(r)
  BY <1>1, <1>2, <1>5, Answers DEF ReadsTypeOK
<1>6. CASE Decrypted(r)
  <2>1. rdAt[r] = "bytes" /\ rdKey[r] \in Keys
    BY <1>1, <1>6 DEF Decrypted, ReadsTypeOK
  <2>2. PICK bytes \in Drained(r) :
            Answer(r) = IF bytes.whole /\ rdHeader[r].whole /\ bytes.write = rdHeader[r].write
                        THEN [outcome |-> "ok", write |-> bytes.write, keys |-> {rdKey[r]}]
                        ELSE [outcome |-> "error", write |-> 0, keys |-> {}]
    BY <1>1, <1>6, DecryptedAnswer
  <2>3. /\ bytes.whole
        /\ Answer(r) = [outcome |-> "ok", write |-> bytes.write, keys |-> {rdKey[r]}]
    BY <2>2
  <2>4. k = rdKey[r] /\ Answer(r).write = bytes.write
    BY <2>3
  <2>5. rdData[r].write \notin stale[r][rdKey[r]]
    BY <1>1, <2>1 DEF KeyReadInv
  <2>6. data[rdKey[r]].write \notin stale[r][rdKey[r]]
    BY <1>1, <2>1, SteadyStored
  <2>7. data[rdKey[r]] \in DataObjects
    BY <1>1, <2>1 DEF TypeOK
  <2>8. bytes \in {rdData[r], data[rdKey[r]], Torn(data[rdKey[r]])}
    BY <2>2 DEF Drained
  <2>9. bytes # Torn(data[rdKey[r]])
    BY <2>3, <2>7 DEF Torn, DataObjects
  <2>10. QED
    BY <2>4, <2>5, <2>6, <2>8, <2>9
<1>7. QED
  BY <1>3, <1>4, <1>5, <1>6, ReturnsByItself

\* get never returns a version that was replaced or deleted before the call.
THEOREM ReadsAreNeverStale == RSpec => ReadsNeverStale
<1>1. RInv /\ [ReadsNext]_rvars =>
          [\A r \in Readers : \A k \in Answer(r).keys :
              Returned(r) => Answer(r).write \notin stale[r][k]]_rvars
  BY NeverStaleStep
<1>2. QED
  BY <1>1, ReadsInvariant, PTL DEF RSpec, ReadsNeverStale

----------------------------------------------------------------------------
LEMMA AbsentStep ==
    ASSUME RInv, [ReadsNext]_rvars, NEW r \in Readers, Returned(r)
    PROVE  Answer(r).keys \cap absent[r] = {}
<1>1. /\ ReadsTypeOK /\ KeyReadInv /\ ListSound(r) /\ rdAt[r] # "idle"
  BY DEF RInv, ListInv, Returned
<1>2. CASE DataMissing(r) \/ HeaderMissing(r) \/ ReadFails(r)
  BY <1>1, <1>2, Answers
<1>3. CASE HeaderExists(r)
  <2>1. Answer(r).keys = {rdKey[r]}
    BY <1>1, <1>3, Answers
  <2>2. QED
    BY <1>1, <1>3, <2>1 DEF HeaderExists, KeyReadInv
<1>4. CASE ListReturns(r)
  BY <1>1, <1>4, Answers DEF ListReturns, ListSound
<1>5. CASE Decrypted(r)
  <2>1. Answer(r).keys \subseteq {rdKey[r]}
    BY <1>1, <1>5, DecryptedAnswer
  <2>2. QED
    BY <1>1, <1>5, <2>1 DEF Decrypted, KeyReadInv
<1>6. QED
  BY <1>2, <1>3, <1>4, <1>5, ReturnsByItself

\* A blob deleted throughout a call is neither returned nor listed.
THEOREM ReadsMissTheAbsent == RSpec => ReadsMissAbsent
<1>1. RInv /\ [ReadsNext]_rvars => [\A r \in Readers : MissesAbsent(r)]_rvars
  BY AbsentStep DEF MissesAbsent
<1>2. QED
  BY <1>1, ReadsInvariant, PTL DEF RSpec, ReadsMissAbsent

----------------------------------------------------------------------------
\* Without get, or unless rekey passes write into a store that may truncate what
\* they replace, a blob kept throughout a call is found.
LEMMA SteadyStep ==
    ASSUME ~RekeyTears \/ "get" \notin ReadOps,
           RInv, [ReadsNext]_rvars, NEW r \in Readers, Returned(r)
    PROVE  FindsSteady(r)
<1>1. /\ ReadsTypeOK /\ KeyReadInv /\ ListSound(r) /\ rdAt[r] # "idle"
  BY DEF RInv, ListInv, Returned
<1>2. CASE DataMissing(r) \/ HeaderMissing(r)
  <2>1. rdAt[r] \in {"data", "header"} /\ rdKey[r] \in Keys /\ rdOp[r] \in KeyOps
    BY <1>1, <1>2 DEF DataMissing, HeaderMissing, ReadsTypeOK
  <2>2. ASSUME steady[r][rdKey[r]] # 0 PROVE FALSE
    <3>1. /\ data[rdKey[r]] = [write |-> steady[r][rdKey[r]], whole |-> TRUE]
          /\ header[rdKey[r]].write = steady[r][rdKey[r]]
      BY <1>1, <2>1, <2>2, SteadyStored
    <3>2. data[rdKey[r]].write = steady[r][rdKey[r]]
      BY <3>1
    <3>3. QED
      BY <1>2, <2>2, <3>1, <3>2 DEF DataMissing, HeaderMissing, Present
  <2>3. QED
    BY <2>1, <2>2 DEF FindsSteady, KeyOps, ListOps
<1>3. CASE HeaderExists(r)
  BY <1>1, <1>3, Answers DEF HeaderExists, FindsSteady, KeyOps, ListOps
<1>4. CASE Decrypted(r)
  <2>1. rdAt[r] = "bytes" /\ rdKey[r] \in Keys /\ rdOp[r] \in KeyOps
    BY <1>1, <1>4 DEF Decrypted, ReadsTypeOK, KeyOps
  <2>2. rdOp[r] = "get" /\ ~RekeyTears
    BY <1>1, <2>1 DEF ReadsTypeOK
  <2>3. PICK bytes \in Drained(r) :
            Answer(r) = IF bytes.whole /\ rdHeader[r].whole /\ bytes.write = rdHeader[r].write
                        THEN [outcome |-> "ok", write |-> bytes.write, keys |-> {rdKey[r]}]
                        ELSE [outcome |-> "error", write |-> 0, keys |-> {}]
    BY <1>1, <1>4, DecryptedAnswer
  <2>4. ASSUME steady[r][rdKey[r]] # 0 PROVE bytes = rdData[r]
    <3>1. /\ data[rdKey[r]] = rdData[r]
          /\ \A c \in Writers : rdKey[r] \notin AtWork(c)
      <4>1. rdData[r] = [write |-> steady[r][rdKey[r]], whole |-> TRUE]
        BY <1>1, <2>1, <2>4 DEF KeyReadInv
      <4>2. QED
        BY <1>1, <2>1, <2>4, <4>1, SteadyStored
    <3>2. \A c \in Writers : ~(pc[c] = "data" /\ key(c) = rdKey[r])
      BY <2>1, <3>1 DEF AtWork, PutSteps
    <3>3. QED
      BY <2>3, <3>1, <3>2 DEF Drained
  <2>5. ASSUME steady[r][rdKey[r]] # 0
        PROVE  Answer(r).outcome = "ok" /\ Answer(r).write = steady[r][rdKey[r]]
    <3>1. /\ bytes = [write |-> steady[r][rdKey[r]], whole |-> TRUE]
          /\ rdHeader[r].write = steady[r][rdKey[r]] /\ rdHeader[r].whole
      BY <1>1, <2>1, <2>2, <2>4, <2>5 DEF KeyReadInv
    <3>2. bytes.whole /\ bytes.write = steady[r][rdKey[r]]
      BY <3>1
    <3>3. QED
      BY <2>3, <3>1, <3>2
  <2>6. QED
    BY <2>2, <2>5 DEF FindsSteady, ListOps
<1>5. CASE ListReturns(r)
  <2>1. rdAt[r] = "page" /\ rdOp[r] \in ListOps
    BY <1>1, <1>5 DEF ListReturns, ReadsTypeOK
  <2>2. \A k \in Keys : steady[r][k] # 0 => k \in rdFound[r] \cup unchecked[r]
    BY <1>1, <1>5, <2>1 DEF ListReturns, ListSound
  <2>3. Answer(r).keys = rdFound[r]
    BY <1>1, <1>5, Answers
  <2>4. QED
    BY <2>1, <2>2, <2>3 DEF FindsSteady, KeyOps, ListOps
<1>6. CASE ReadFails(r)
  BY <1>1, <1>6, Answers DEF FindsSteady
<1>7. QED
  BY <1>2, <1>3, <1>4, <1>5, <1>6, ReturnsByItself

\* A blob kept throughout a call is found by every operation, whatever other
\* blobs go through meanwhile, and rekey passes as well if the inner store
\* replaces objects as a whole; exists and the listings find it in any case.
THEOREM ReadsFindTheSteady ==
    ASSUME ~RekeyTears \/ "get" \notin ReadOps
    PROVE  RSpec => ReadsFindSteady
<1>1. RInv /\ [ReadsNext]_rvars => [\A r \in Readers : FindsSteady(r)]_rvars
  <2>1. ASSUME RInv, [ReadsNext]_rvars, NEW r \in Readers PROVE FindsSteady(r)
    <3>1. CASE Returned(r)
      BY <2>1, <3>1, SteadyStep
    <3>2. CASE ~Returned(r)
      BY <3>2 DEF FindsSteady
    <3>3. QED
      BY <3>1, <3>2
  <2>2. QED
    BY <2>1
<1>2. QED
  BY <1>1, ReadsInvariant, PTL DEF RSpec, ReadsFindSteady
===============================================================================
