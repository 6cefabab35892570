------------------------------ MODULE BackendsProofs ---------------------------
(***************************************************************************)
(* The S3 backend: whole objects, legal uploads, and its steps as steps of *)
(* the contract; then the store as the builder puts it together, with      *)
(* either backend and the prefix layer, for any keys, prefix, batches,     *)
(* filters, clients, sizes and limits.                                     *)
(***************************************************************************)
EXTENDS FsStoreProofs

IsRequest(r) == {"at", "todo", "of", "read", "bad", "after", "found"} \subseteq DOMAIN r

Uploading == {"lookahead", "put_object", "put_applied", "put_replied",
              "create", "part", "abort", "complete"}

\* What a call has still to do, and what is done, are all of its keys.
RequestOk(r, call) ==
    /\ IsRequest(r)
    /\ r.at \in Uploading =>
           /\ call.op = "put" /\ r.todo \in Seq(FsKeys) /\ r.todo # <<>>
           /\ ToSet(r.todo) \subseteq call.keys
           /\ call.keys \subseteq call.done \cup ToSet(r.todo)
    /\ r.at \in {"put_applied", "put_replied"} =>
           call.keys \subseteq call.done \cup ToSet(Tail(r.todo))
    /\ r.at = "delete" =>
           /\ call.op = "delete" /\ r.todo \in Seq(FsKeys)
           /\ ToSet(r.todo) \subseteq call.keys
           /\ call.keys \subseteq call.done \cup ToSet(r.todo) \cup r.bad
    /\ r.at = "get" => call.op = "get" /\ call.keys = {Head(r.todo)}
    /\ r.at = "head" => call.op = "exists" /\ call.keys = {Head(r.todo)}
    /\ r.at = "page" =>
           /\ call.op = "list" /\ r.after \in Nat
           /\ r.found \subseteq call.ever
           /\ \A k \in call.steady :
                 k \in r.found \/ \E i \in DOMAIN KeyOrder : i > r.after /\ KeyOrder[i] = k

\* The parts of an upload join to what was read of the stream, and only the
\* last one, at the end of the stream, may be shorter than MinPart.
PartsSoFar(parts, read, of) ==
    /\ parts \in Seq([from : Nat, to : Nat]) /\ Len(parts) <= MaxParts
    /\ read \in Nat /\ of \in Nat /\ read <= of /\ of > 0
    /\ IF parts = <<>> THEN read = 0 ELSE JoinToWhole(parts, read)
    /\ \A i \in 1 .. Len(parts) - 1 : parts[i].to - parts[i].from >= MinPart
    /\ read < of => \A i \in 1 .. Len(parts) : parts[i].to - parts[i].from >= MinPart

UploadOk(r, parts) ==
    /\ r.at \in {"lookahead", "create"} => r.read = 0
    /\ r.at = "create" => r.of \in Nat /\ r.of > 0
    /\ r.at = "part" => PartsSoFar(parts, r.read, r.of)
    /\ r.at = "complete" => PartsLegal(parts) /\ JoinToWhole(parts, r.of)

ObjectsOk ==
    /\ objects = [k \in S3Keys |-> objects[k]]
    /\ \A k \in S3Keys : objects[k] \in [by : Clients \cup {"nobody"}, whole : {TRUE}]

LocalsOk ==
    /\ request = [c \in Clients |-> request[c]]
    /\ uploads = [c \in Clients |-> uploads[c]]
    /\ \A c \in Clients : RequestOk(request[c], calls[c]) /\ UploadOk(request[c], uploads[c])

S3Inv == ObjectsOk /\ LocalsOk /\ LogOk(S3Present)

----------------------------------------------------------------------------
(* What the callers see, and what a step of one client keeps.               *)

LEMMA S3Blobs ==
    ASSUME backend = "s3", ObjectsOk
    PROVE  /\ AllBlobs = [k \in FsKeys |-> objects[k].by]
           /\ AllKeys!Present = S3Present /\ S3Present \subseteq FsKeys
<1>1. \A k \in FsKeys : Blob(k) = objects[k].by /\ (objects[k].by = "nobody" <=> objects[k] = NoObject)
  <2> TAKE k \in FsKeys
  <2>1. objects[k] \in [by : Clients \cup {"nobody"}, whole : {TRUE}]
    BY SameKeysAssumption DEF ObjectsOk
  <2>2. objects[k].whole = TRUE /\ (objects[k].by = "nobody" <=> objects[k] = NoObject)
    <3>1. objects[k] = [by |-> objects[k].by, whole |-> objects[k].whole]
      BY <2>1
    <3>2. objects[k].whole = TRUE
      BY <2>1
    <3>3. NoObject.by = "nobody"
      BY DEF NoObject
    <3>4. QED
      BY <3>1, <3>2, <3>3 DEF NoObject
  <2>3. Blob(k) = S3Blob(k, "nobody", "torn")
    BY DEF Blob
  <2>4. QED
    BY <2>2, <2>3 DEF S3Blob
<1>2. AllBlobs = [k \in FsKeys |-> objects[k].by]
  BY <1>1, Zenon DEF AllBlobs
<1>3. QED
  BY <1>1, <1>2, SameKeysAssumption DEF AllKeys!Present, S3Present

LEMMA S3BlobsNext ==
    (backend = "s3" /\ ObjectsOk)' => (AllBlobs = [k \in FsKeys |-> objects[k].by])'
<1>1. backend = "s3" /\ ObjectsOk => AllBlobs = [k \in FsKeys |-> objects[k].by]
  BY S3Blobs
<1>2. QED
  BY <1>1, PTL

\* The locals of a call fit it as it goes on, and as others act on its keys.
LEMMA RequestLater ==
    ASSUME NEW r, NEW call, NEW new, RequestOk(r, call), Later(call, new)
    PROVE  RequestOk(r, new)
<1>1. /\ new.op = call.op /\ new.keys = call.keys /\ call.done \subseteq new.done
      /\ new.steady \subseteq call.steady /\ call.ever \subseteq new.ever
  BY DEF Later
<1>2. r.at = "page" => r.found \subseteq new.ever
  BY <1>1 DEF RequestOk
<1>3. \A k \in new.steady : k \in call.steady
  BY <1>1
<1>4. QED
  BY <1>1, <1>2, <1>3 DEF RequestOk

\* Where no call is in progress, the locals fit any call.
LEMMA RequestOfNoCall ==
    ASSUME NEW r, NEW call, RequestOk(r, call), call.op = "none", NEW new
    PROVE  RequestOk(r, new)
BY DEF RequestOk, Uploading

LEMMA NoRequestOk ==
    /\ IsRequest(NoRequest)
    /\ \A call : RequestOk(NoRequest, call)
    /\ \A parts : UploadOk(NoRequest, parts)
BY DEF NoRequest, IsRequest, RequestOk, UploadOk, Uploading

\* A step of client c that leaves it with the locals r.
LEMMA S3Goes ==
    ASSUME S3Inv, NEW c \in Clients, NEW r, Proceeds(c, r),
           \/ UNCHANGED uploads
           \/ \E parts : uploads' = [uploads EXCEPT ![c] = parts],
           \A d \in Clients \ {c} : Later(calls[d], calls'[d]),
           RequestOk(r, calls'[c]), UploadOk(r, uploads'[c])
    PROVE  LocalsOk'
<1>1. /\ request' = [d \in Clients |-> IF d = c THEN r ELSE request[d]]
      /\ request'[c] = r
      /\ \A d \in Clients \ {c} : request'[d] = request[d]
  BY Zenon DEF S3Inv, LocalsOk, Proceeds
<1>2. /\ uploads' = [d \in Clients |-> uploads'[d]]
      /\ \A d \in Clients \ {c} : uploads'[d] = uploads[d]
  BY DEF S3Inv, LocalsOk
<1>3. ASSUME NEW d \in Clients
      PROVE  RequestOk(request'[d], calls'[d]) /\ UploadOk(request'[d], uploads'[d])
  <2>1. CASE d = c
    BY <1>1, <2>1
  <2>2. CASE d # c
    <3>1. RequestOk(request[d], calls[d]) /\ UploadOk(request[d], uploads[d])
      BY DEF S3Inv, LocalsOk
    <3>2. QED
      BY <1>1, <1>2, <2>2, <3>1, RequestLater
  <2>3. QED
    BY <2>1, <2>2
<1>4. QED
  BY <1>1, <1>2, <1>3 DEF LocalsOk

\* A step that only client c's locals show.
LEMMA S3Stutters ==
    ASSUME S3Inv, backend' = backend, NEW c \in Clients, NEW r, Proceeds(c, r),
           UNCHANGED <<objects, calls>>,
           \/ UNCHANGED uploads
           \/ \E parts : uploads' = [uploads EXCEPT ![c] = parts],
           RequestOk(r, calls[c]), UploadOk(r, uploads'[c]), backend = "s3"
    PROVE  S3Inv' /\ Served
<1>1. LocalsOk'
  BY S3Goes, LaterItself
<1>2. ObjectsOk' /\ LogOk(S3Present)'
  BY DEF S3Inv, ObjectsOk, LogOk, S3Present
<1>3. UNCHANGED AllBlobs
  BY <1>2, S3Blobs, S3BlobsNext DEF S3Inv
<1>4. QED
  BY <1>1, <1>2, <1>3 DEF S3Inv, Served

\* The end of a call.
LEMMA S3Answers ==
    ASSUME S3Inv, backend' = backend, backend = "s3", NEW c \in Clients, NEW a, IsAnswer(a),
           Busy(c), S3Returns(c, a), UNCHANGED objects,
           \/ UNCHANGED uploads
           \/ \E parts : uploads' = [uploads EXCEPT ![c] = parts],
           AllKeys!Truthful(calls[c], a)
    PROVE  S3Inv' /\ Served
<1>1. /\ LogOk(S3Present)' /\ calls'[c].answer = a
      /\ \A d \in Clients \ {c} : calls'[d] = calls[d]
  <2>1. LogOk(S3Present) /\ Answers(c, a)
    BY DEF S3Inv, S3Returns
  <2>2. /\ calls' = [d \in Clients |-> calls'[d]] /\ \A d \in Clients : CallOk(calls'[d], S3Present)
        /\ calls'[c].answer = a
        /\ \A d \in Clients \ {c} : calls'[d] = calls[d]
    BY <2>1, Answering, Zenon
  <2>3. S3Present' = S3Present
    BY DEF S3Present
  <2>4. QED
    BY <2>2, <2>3 DEF LogOk
<1>2. LocalsOk'
  BY <1>1, S3Goes, LaterItself, NoRequestOk DEF S3Returns
<1>3. ObjectsOk'
  BY DEF S3Inv, ObjectsOk
<1>4. UNCHANGED AllBlobs
  BY <1>3, S3Blobs, S3BlobsNext DEF S3Inv
<1>5. Served
  BY <1>1, <1>4, ReturnServed DEF S3Returns
<1>6. QED
  BY <1>1, <1>2, <1>3, <1>5 DEF S3Inv

\* The service stores an object, or removes one.
LEMMA S3Stores ==
    ASSUME S3Inv, backend' = backend, backend = "s3", NEW c \in Clients, NEW k \in FsKeys,
           calls[c].op = "put", k \in calls[c].keys,
           objects' = [objects EXCEPT ![k] = [by |-> c, whole |-> TRUE]],
           Touches(c, k, TRUE, TRUE)
    PROVE  /\ ObjectsOk' /\ LogOk(S3Present)' /\ Served
           /\ \A d \in Clients : Later(calls[d], calls'[d])
           /\ k \in calls'[c].done
<1>1. ObjectsOk /\ LogOk(S3Present) /\ k \in S3Keys
  BY SameKeysAssumption DEF S3Inv
<1> DEFINE o == [by |-> c, whole |-> TRUE]
<1>2. o # NoObject /\ o.by = c /\ o.whole = TRUE
  BY NamesAssumption DEF NoObject
<1>3. ObjectsOk'
  BY <1>1 DEF ObjectsOk
<1>4. S3Present' = S3Present \cup {k}
  BY <1>1, <1>2 DEF ObjectsOk, S3Present
<1>5. /\ calls' = [d \in Clients |-> calls'[d]]
      /\ \A d \in Clients : CallOk(calls'[d], S3Present \cup {k})
      /\ \A d \in Clients : Later(calls[d], calls'[d])
      /\ k \in calls'[c].done
  BY <1>1, Touching, Zenon
<1>6. AllBlobs' = [AllBlobs EXCEPT ![k] = c]
  <2>1. AllBlobs = [x \in FsKeys |-> objects[x].by]
    BY <1>1, S3Blobs
  <2>2. AllBlobs' = [x \in FsKeys |-> objects'[x].by]
    BY <1>3, S3BlobsNext
  <2>3. \A x \in FsKeys : objects'[x].by = IF x = k THEN c ELSE objects[x].by
    BY <1>1, <1>2, SameKeysAssumption DEF ObjectsOk
  <2>4. QED
    BY <2>1, <2>2, <2>3
<1>7. Served
  <2>1. Touches(c, k, TRUE, c = c) /\ c \in {"torn", c}
    OBVIOUS
  <2>2. QED
    BY <1>6, <2>1, StoredServed
<1>8. QED
  BY <1>3, <1>4, <1>5, <1>7 DEF LogOk

LEMMA S3Removes ==
    ASSUME S3Inv, backend' = backend, backend = "s3", NEW c \in Clients, NEW k \in FsKeys,
           calls[c].op = "delete", k \in calls[c].keys,
           objects' = [objects EXCEPT ![k] = NoObject],
           Touches(c, k, FALSE, TRUE)
    PROVE  /\ ObjectsOk' /\ LogOk(S3Present)' /\ Served
           /\ \A d \in Clients : Later(calls[d], calls'[d])
           /\ k \in calls'[c].done
<1>1. ObjectsOk /\ LogOk(S3Present) /\ k \in S3Keys
  BY SameKeysAssumption DEF S3Inv
<1>2. NoObject.by = "nobody" /\ NoObject.whole = TRUE
  BY DEF NoObject
<1>3. ObjectsOk'
  BY <1>1 DEF ObjectsOk, NoObject
<1>4. S3Present' = S3Present \ {k}
  BY <1>1, <1>2 DEF ObjectsOk, S3Present
<1>5. /\ calls' = [d \in Clients |-> calls'[d]]
      /\ \A d \in Clients : CallOk(calls'[d], S3Present \ {k})
      /\ \A d \in Clients : Later(calls[d], calls'[d])
      /\ k \in calls'[c].done
  BY <1>1, Touching, Zenon
<1>6. AllBlobs' = [AllBlobs EXCEPT ![k] = "nobody"]
  <2>1. AllBlobs = [x \in FsKeys |-> objects[x].by]
    BY <1>1, S3Blobs
  <2>2. AllBlobs' = [x \in FsKeys |-> objects'[x].by]
    BY <1>3, S3BlobsNext
  <2>3. \A x \in FsKeys : objects'[x].by = IF x = k THEN "nobody" ELSE objects[x].by
    BY <1>1, <1>2, SameKeysAssumption DEF ObjectsOk
  <2>4. QED
    BY <2>1, <2>2, <2>3
<1>7. Served
  BY <1>6, RemovedServed
<1>8. QED
  BY <1>3, <1>4, <1>5, <1>7 DEF LogOk

----------------------------------------------------------------------------
(* The steps of the backend keep the invariant and the contract.            *)

\* What S3Begins gives a call: its first step, by its kind, and keys to name.
FirstStep(op) ==
    CASE op = "put" -> "lookahead" [] op = "delete" -> "delete" [] op = "get" -> "get"
      [] op = "exists" -> "head" [] op = "list" -> "page"

LEMMA S3BeginsKeeps ==
    ASSUME S3Inv, backend' = backend, backend = "s3", NEW c \in Clients,
           NEW op \in {"put", "delete", "get", "exists", "list"},
           NEW batch \in Seq(FsKeys), NEW filter,
           op = "put" => batch # <<>>, op \in {"get", "exists"} => Len(batch) = 1,
           S3Begins(c, op, FirstStep(op), batch, filter)
    PROVE  S3Inv' /\ Called(c)
<1> DEFINE r == [NoRequest EXCEPT !.at = FirstStep(op), !.todo = batch]
           keys == ToSet(batch)
           begun == Begun(op, keys, filter, S3Present)
<1>1. /\ LogOk(S3Present) /\ S3Present \subseteq FsKeys /\ keys \subseteq FsKeys
      /\ AllKeys!Present = S3Present
  BY S3Blobs, SetOfSeq DEF S3Inv
<1>2. /\ calls' = [d \in Clients |-> calls'[d]]
      /\ \A d \in Clients : CallOk(calls'[d], S3Present)
      /\ calls'[c] = begun
      /\ \A d \in Clients \ {c} : calls'[d] = calls[d]
  <2>1. Calls(c, op, keys, filter, S3Present)
    BY DEF S3Begins
  <2>2. QED
    BY <1>1, <2>1, Beginning, Zenon
<1>3. /\ IsRequest(r) /\ r.at = FirstStep(op) /\ r.todo = batch
      /\ r.after = 0 /\ r.found = {} /\ r.bad = {} /\ r.read = 0
  BY DEF NoRequest, IsRequest
<1>4. /\ begun.op = op /\ begun.keys = keys /\ begun.done = {}
      /\ begun.steady \subseteq S3Present
  BY DEF Begun
<1> HIDE DEF r, begun
<1>5. RequestOk(r, begun)
  <2>1. CASE op = "put"
    BY <1>3, <1>4, <2>1 DEF FirstStep, RequestOk
  <2>2. CASE op = "delete"
    BY <1>3, <1>4, <2>2 DEF FirstStep, RequestOk, Uploading
  <2>3. CASE op \in {"get", "exists"}
    <3>1. keys = {Head(batch)}
      BY <2>3, SetOfSeq
    <3>2. QED
      BY <1>3, <1>4, <2>3, <3>1 DEF FirstStep, RequestOk, Uploading
  <2>4. CASE op = "list"
    <3>1. \A k \in S3Present : \E i \in DOMAIN KeyOrder : i > 0 /\ KeyOrder[i] = k
      BY OrderAssumption DEF S3Present, S3Keys, ToSet
    <3>2. QED
      BY <1>3, <1>4, <2>4, <3>1 DEF FirstStep, RequestOk, Uploading
  <2>5. QED
    BY <2>1, <2>2, <2>3, <2>4
<1>6. UploadOk(r, uploads'[c])
  BY <1>3 DEF UploadOk, FirstStep
<1>7. LocalsOk'
  <2>1. Proceeds(c, r) /\ UNCHANGED uploads
    BY DEF S3Begins, r
  <2>2. \A d \in Clients \ {c} : Later(calls[d], calls'[d])
    BY <1>2, LaterItself
  <2>3. QED
    BY <1>2, <1>5, <1>6, <2>1, <2>2, S3Goes
<1>8. ObjectsOk' /\ S3Present' = S3Present
  BY DEF S3Inv, ObjectsOk, S3Begins, S3Present
<1>9. UNCHANGED AllBlobs
  BY <1>8, S3Blobs, S3BlobsNext DEF S3Inv, S3Begins
<1>10. Called(c)
  <2>1. Calls(c, op, keys, filter, AllKeys!Present)
    BY <1>1 DEF S3Begins
  <2>2. QED
    BY <1>1, <1>2, <1>9, <2>1, BeginCalled DEF begun
<1>11. QED
  BY <1>2, <1>7, <1>8, <1>10 DEF S3Inv, LogOk

\* One part more, which only at the end of the stream is shorter than MinPart.
LEMMA LongerUpload ==
    ASSUME NEW parts, NEW read, NEW of, PartsSoFar(parts, read, of), read < of,
           Len(parts) < MaxParts, NEW end \in Nat, end <= of, end > read,
           end < of => end - read >= MinPart
    PROVE  PartsSoFar(Append(parts, [from |-> read, to |-> end]), end, of)
<1> DEFINE P == [from : Nat, to : Nat]
           part == [from |-> read, to |-> end]
           longer == Append(parts, part)
           n == Len(parts)
<1>1. /\ parts \in Seq(P) /\ n \in Nat /\ n < MaxParts
      /\ read \in Nat /\ of \in Nat /\ of > 0
      /\ \A i \in 1 .. n : parts[i].to - parts[i].from >= MinPart
  BY DEF PartsSoFar
<1>2. part \in P /\ part.from = read /\ part.to = end
  BY <1>1
<1> HIDE DEF part, P
<1>3. /\ longer \in Seq(P) /\ longer # <<>> /\ Len(longer) = n + 1
      /\ \A i \in 1 .. n : longer[i] = parts[i]
      /\ longer[n + 1] = part
  BY <1>1, <1>2, AppendProperties
<1> HIDE DEF longer
<1>4. n + 1 - 1 = n /\ n + 1 <= MaxParts
  BY <1>1, SizesAssumption
<1>5. \A i \in 1 .. n : longer[i].to - longer[i].from >= MinPart
  BY <1>1, <1>3
<1>6. end < of => \A i \in 1 .. n + 1 : longer[i].to - longer[i].from >= MinPart
  BY <1>1, <1>2, <1>3, <1>5
<1>7. JoinToWhole(longer, end)
  <2>1. CASE parts = <<>>
    <3>1. n = 0 /\ read = 0
      BY <2>1 DEF PartsSoFar
    <3>2. QED
      BY <1>2, <1>3, <3>1 DEF JoinToWhole
  <2>2. CASE parts # <<>>
    <3>1. n > 0 /\ JoinToWhole(parts, read)
      BY <1>1, <2>2 DEF PartsSoFar
    <3>2. longer[1].from = 0 /\ longer[n + 1].to = end
      BY <1>1, <1>2, <1>3, <3>1 DEF JoinToWhole
    <3>3. ASSUME NEW i \in 1 .. n PROVE longer[i].to = longer[i + 1].from
      <4>1. CASE i = n
        BY <1>1, <1>2, <1>3, <3>1, <4>1 DEF JoinToWhole
      <4>2. CASE i # n
        <5>1. i \in 1 .. n - 1 /\ i + 1 \in 1 .. n
          BY <1>1, <4>2
        <5>2. QED
          BY <1>3, <3>1, <5>1 DEF JoinToWhole
      <4>3. QED
        BY <4>1, <4>2
    <3>4. QED
      BY <1>3, <1>4, <3>2, <3>3 DEF JoinToWhole
  <2>3. QED
    BY <2>1, <2>2
<1>8. QED
  BY <1>1, <1>3, <1>4, <1>5, <1>6, <1>7 DEF PartsSoFar, longer, part, P

\* What every step of a put starts from.
LEMMA PutSteps ==
    ASSUME S3Inv, NEW c \in Clients, Doing(c, Uploading)
    PROVE  LET r == request[c] call == calls[c] IN
           /\ IsRequest(r) /\ RequestOk(r, call) /\ UploadOk(r, uploads[c])
           /\ call.op = "put" /\ Busy(c) /\ r.todo \in Seq(FsKeys) /\ r.todo # <<>>
           /\ target(c) \in FsKeys /\ target(c) \in call.keys
           /\ ToSet(Tail(r.todo)) \subseteq call.keys /\ Tail(r.todo) \in Seq(FsKeys)
           /\ call.keys \subseteq call.done \cup {target(c)} \cup ToSet(Tail(r.todo))
<1> DEFINE r == request[c]
           call == calls[c]
<1>1. RequestOk(r, call) /\ UploadOk(r, uploads[c])
  BY DEF S3Inv, LocalsOk
<1>2. /\ IsRequest(r) /\ call.op = "put" /\ r.todo \in Seq(FsKeys) /\ r.todo # <<>>
      /\ ToSet(r.todo) \subseteq call.keys /\ call.keys \subseteq call.done \cup ToSet(r.todo)
  BY <1>1 DEF RequestOk, Doing
<1>3. /\ Head(r.todo) \in FsKeys /\ Head(r.todo) \in ToSet(r.todo)
      /\ Tail(r.todo) \in Seq(FsKeys)
      /\ ToSet(Tail(r.todo)) \subseteq ToSet(r.todo)
      /\ ToSet(r.todo) \subseteq {Head(r.todo)} \cup ToSet(Tail(r.todo))
  BY <1>2, HeadAndTail
<1>4. QED
  BY <1>1, <1>2, <1>3 DEF target, Busy

\* A step from one place of a put to another, which changes nothing else that
\* RequestOk speaks of.
LEMMA PutGoesOn ==
    ASSUME NEW r, NEW s, NEW call, RequestOk(r, call), r.at \in Uploading,
           IsRequest(s), s.at \in Uploading \ {"put_applied", "put_replied"}, s.todo = r.todo
    PROVE  RequestOk(s, call)
BY DEF RequestOk, Uploading

LEMMA LookaheadKeeps ==
    ASSUME S3Inv, backend' = backend, backend = "s3", NEW c \in Clients, Lookahead(c)
    PROVE  S3Inv' /\ Served
<1> DEFINE r == request[c]
<1>1. r.at = "lookahead" /\ UNCHANGED <<objects, uploads, calls>>
  BY DEF Lookahead, Doing
<1>2. PICK n \in Sizes :
          Proceeds(c, [r EXCEPT !.at = IF n < MinPart THEN "put_object" ELSE "create", !.of = n])
  BY DEF Lookahead
<1> DEFINE s == [r EXCEPT !.at = IF n < MinPart THEN "put_object" ELSE "create", !.of = n]
<1>3. IsRequest(r) /\ RequestOk(r, calls[c]) /\ UploadOk(r, uploads[c])
  BY <1>1, PutSteps DEF Doing, Uploading
<1>4. /\ IsRequest(s) /\ s.at = IF n < MinPart THEN "put_object" ELSE "create"
      /\ s.of = n /\ s.read = r.read /\ s.todo = r.todo
  BY <1>3 DEF IsRequest
<1> HIDE DEF s
<1>5. RequestOk(s, calls[c])
  BY <1>1, <1>3, <1>4, PutGoesOn DEF Uploading
<1>6. n \in Nat /\ (n >= MinPart => n > 0)
  BY SizesAssumption
<1>7. UploadOk(s, uploads'[c])
  BY <1>1, <1>3, <1>4, <1>6, SizesAssumption DEF UploadOk
<1>8. QED
  BY <1>1, <1>2, <1>5, <1>7, S3Stutters DEF s

LEMMA ApplyPutObjectKeeps ==
    ASSUME S3Inv, backend' = backend, backend = "s3", NEW c \in Clients, ApplyPutObject(c)
    PROVE  S3Inv' /\ Served
<1> DEFINE r == request[c]
           s == [r EXCEPT !.at = "put_applied"]
           k == target(c)
<1>1. r.at \in Uploading /\ UNCHANGED uploads /\ Proceeds(c, s)
  BY DEF ApplyPutObject, Doing, Goes, Uploading
<1>2. /\ IsRequest(r) /\ RequestOk(r, calls[c]) /\ calls[c].op = "put"
      /\ k \in FsKeys /\ k \in calls[c].keys
      /\ calls[c].keys \subseteq calls[c].done \cup {k} \cup ToSet(Tail(r.todo))
  BY <1>1, PutSteps DEF Doing
<1>3. /\ ObjectsOk' /\ LogOk(S3Present)' /\ Served
      /\ \A d \in Clients : Later(calls[d], calls'[d])
      /\ k \in calls'[c].done
  BY <1>2, S3Stores DEF ApplyPutObject
<1>4. IsRequest(s) /\ s.at = "put_applied" /\ s.todo = r.todo
  BY <1>2 DEF IsRequest
<1> HIDE DEF s
<1>5. RequestOk(s, calls'[c])
  <2>1. RequestOk(r, calls'[c])
    BY <1>2, <1>3, RequestLater
  <2>2. calls'[c].keys \subseteq calls'[c].done \cup ToSet(Tail(r.todo))
    BY <1>2, <1>3 DEF Later
  <2>3. QED
    BY <1>1, <1>4, <2>1, <2>2 DEF RequestOk, Uploading
<1>6. UploadOk(s, uploads'[c])
  BY <1>4 DEF UploadOk
<1>7. LocalsOk'
  BY <1>1, <1>3, <1>5, <1>6, S3Goes
<1>8. QED
  BY <1>3, <1>7 DEF S3Inv

LEMMA ApplyCompleteKeeps ==
    ASSUME S3Inv, backend' = backend, backend = "s3", NEW c \in Clients, ApplyComplete(c)
    PROVE  S3Inv' /\ Served
<1> DEFINE r == request[c]
           s == [r EXCEPT !.at = "put_replied"]
           k == target(c)
<1>1. /\ r.at = "complete" /\ r.at \in Uploading /\ Proceeds(c, s)
      /\ uploads' = [uploads EXCEPT ![c] = NoUpload]
  BY DEF ApplyComplete, Doing, Goes, Uploading
<1>2. /\ IsRequest(r) /\ RequestOk(r, calls[c]) /\ UploadOk(r, uploads[c])
      /\ calls[c].op = "put" /\ k \in FsKeys /\ k \in calls[c].keys
      /\ calls[c].keys \subseteq calls[c].done \cup {k} \cup ToSet(Tail(r.todo))
  BY <1>1, PutSteps DEF Doing
<1>3. JoinToWhole(uploads[c], r.of) = TRUE
  BY <1>1, <1>2 DEF UploadOk, JoinToWhole
<1>4. objects' = [objects EXCEPT ![k] = [by |-> c, whole |-> TRUE]]
  BY <1>3 DEF ApplyComplete
<1>5. /\ ObjectsOk' /\ LogOk(S3Present)' /\ Served
      /\ \A d \in Clients : Later(calls[d], calls'[d])
      /\ k \in calls'[c].done
  BY <1>2, <1>4, S3Stores DEF ApplyComplete
<1>6. IsRequest(s) /\ s.at = "put_replied" /\ s.todo = r.todo
  BY <1>2 DEF IsRequest
<1> HIDE DEF s
<1>7. RequestOk(s, calls'[c])
  <2>1. RequestOk(r, calls'[c])
    BY <1>2, <1>5, RequestLater
  <2>2. calls'[c].keys \subseteq calls'[c].done \cup ToSet(Tail(r.todo))
    BY <1>2, <1>5 DEF Later
  <2>3. QED
    BY <1>1, <1>6, <2>1, <2>2 DEF RequestOk, Uploading
<1>8. UploadOk(s, uploads'[c])
  BY <1>6 DEF UploadOk
<1>9. LocalsOk'
  BY <1>1, <1>5, <1>7, <1>8, S3Goes
<1>10. QED
  BY <1>5, <1>9 DEF S3Inv

LEMMA PartKeeps ==
    ASSUME S3Inv, backend' = backend, backend = "s3", NEW c \in Clients,
           CreateMultipart(c) \/ UploadPart(c) \/ PartFails(c) \/ PartsEnd(c)
    PROVE  S3Inv' /\ Served
<1> DEFINE r == request[c]
<1>1. r.at \in {"create", "part"} /\ UNCHANGED <<objects, calls>>
  BY DEF CreateMultipart, UploadPart, PartFails, PartsEnd, Doing
<1>2. /\ IsRequest(r) /\ RequestOk(r, calls[c]) /\ UploadOk(r, uploads[c])
      /\ r.at \in Uploading
  BY <1>1, PutSteps DEF Doing, Uploading
<1>3. \A parts : uploads' = [uploads EXCEPT ![c] = parts] => uploads'[c] = parts
  BY DEF S3Inv, LocalsOk
<1>4. ASSUME NEW s, Proceeds(c, s), IsRequest(s), s.todo = r.todo,
             s.at \in {"part", "abort", "complete"}, UploadOk(s, uploads'[c]),
             \/ UNCHANGED uploads
             \/ \E parts : uploads' = [uploads EXCEPT ![c] = parts]
      PROVE  S3Inv' /\ Served
  <2>1. RequestOk(s, calls[c])
    BY <1>2, <1>4, PutGoesOn DEF Uploading
  <2>2. QED
    BY <1>1, <1>4, <2>1, S3Stutters
<1>5. CASE CreateMultipart(c)
  <2> DEFINE s == [r EXCEPT !.at = "part"]
  <2>1. IsRequest(s) /\ s.at = "part" /\ s.todo = r.todo /\ s.read = r.read /\ s.of = r.of
    BY <1>2 DEF IsRequest
  <2>2. Proceeds(c, s) /\ uploads' = [uploads EXCEPT ![c] = <<>>] /\ uploads'[c] = <<>>
    BY <1>3, <1>5 DEF CreateMultipart, Goes
  <2>3. r.of \in Nat /\ r.of > 0 /\ r.read = 0
    BY <1>2, <1>5 DEF CreateMultipart, Doing, UploadOk
  <2>4. PartsSoFar(<<>>, 0, r.of)
    BY <2>3, SizesAssumption DEF PartsSoFar
  <2> HIDE DEF s
  <2>5. UploadOk(s, uploads'[c])
    BY <2>1, <2>2, <2>3, <2>4 DEF UploadOk
  <2>6. QED
    BY <1>4, <2>1, <2>2, <2>5
<1>6. CASE UploadPart(c)
  <2> DEFINE end == r.read + NextPart(c)
             s == [r EXCEPT !.read = end]
             parts == Append(uploads[c], [from |-> r.read, to |-> end])
  <2>1. /\ r.at = "part" /\ PartsSoFar(uploads[c], r.read, r.of) /\ Left(c) > 0
        /\ Len(uploads[c]) < MaxParts
    BY <1>2, <1>6 DEF UploadPart, Doing, UploadOk
  <2>2. /\ IsRequest(s) /\ s.at = "part" /\ s.todo = r.todo /\ s.read = end /\ s.of = r.of
    BY <1>2, <2>1 DEF IsRequest
  <2>3. /\ Proceeds(c, s) /\ uploads' = [uploads EXCEPT ![c] = parts] /\ uploads'[c] = parts
    BY <1>3, <1>6 DEF UploadPart, Piece
  <2>4. PartSize \in Nat /\ PartSize >= MinPart /\ MinPart > 0 /\ MinPart \in Nat
    BY SizesAssumption, OrderAssumption DEF PartSize
  <2>5. r.read \in Nat /\ r.of \in Nat /\ Left(c) = r.of - r.read
    BY <2>1 DEF PartsSoFar, Left
  <2>6. /\ end \in Nat /\ end <= r.of /\ end > r.read /\ r.read < r.of
        /\ end < r.of => end - r.read >= MinPart
    BY <2>1, <2>4, <2>5 DEF NextPart, Smaller
  <2> HIDE DEF end, s
  <2>7. PartsSoFar(parts, end, r.of)
    BY <2>1, <2>6, LongerUpload
  <2>8. UploadOk(s, uploads'[c])
    BY <2>2, <2>3, <2>7 DEF UploadOk
  <2>9. QED
    BY <1>4, <2>2, <2>3, <2>8
<1>7. CASE PartFails(c)
  <2> DEFINE s == [r EXCEPT !.at = "abort"]
  <2>1. IsRequest(s) /\ s.at = "abort" /\ s.todo = r.todo
    BY <1>2 DEF IsRequest
  <2>2. Proceeds(c, s) /\ UNCHANGED uploads
    BY <1>7 DEF PartFails, Goes
  <2> HIDE DEF s
  <2>3. UploadOk(s, uploads'[c])
    BY <2>1 DEF UploadOk
  <2>4. QED
    BY <1>4, <2>1, <2>2, <2>3
<1>8. CASE PartsEnd(c)
  <2> DEFINE s == [r EXCEPT !.at = "complete"]
             parts == uploads[c]
  <2>1. IsRequest(s) /\ s.at = "complete" /\ s.todo = r.todo /\ s.of = r.of
    BY <1>2 DEF IsRequest
  <2>2. Proceeds(c, s) /\ UNCHANGED uploads
    BY <1>8 DEF PartsEnd, Goes
  <2>3. PartsSoFar(parts, r.read, r.of) /\ r.of = r.read
    <3>1. PartsSoFar(parts, r.read, r.of) /\ r.of - r.read = 0
      BY <1>2, <1>8 DEF PartsEnd, Doing, UploadOk, Left
    <3>2. r.of \in Nat /\ r.read \in Nat
      BY <3>1 DEF PartsSoFar
    <3>3. QED
      BY <3>1, <3>2
  <2>4. parts # <<>> /\ Len(parts) \in Nat /\ Len(parts) # 0
    BY <2>3 DEF PartsSoFar
  <2>5. PartsLegal(parts) /\ JoinToWhole(parts, r.of)
    BY <2>3, <2>4 DEF PartsSoFar, PartsLegal
  <2> HIDE DEF s
  <2>6. UploadOk(s, uploads'[c])
    BY <2>1, <2>2, <2>5 DEF UploadOk
  <2>7. QED
    BY <1>4, <2>1, <2>2, <2>6
<1>9. QED
  BY <1>5, <1>6, <1>7, <1>8

\* Every call may end with an error at any time.
LEMMA S3ErrorKeeps ==
    ASSUME S3Inv, backend' = backend, backend = "s3", NEW c \in Clients, Busy(c),
           NEW is \in {"error", "misconfigured"}, S3Returns(c, Answer(is, {})),
           UNCHANGED objects,
           \/ UNCHANGED uploads
           \/ \E parts : uploads' = [uploads EXCEPT ![c] = parts]
    PROVE  S3Inv' /\ Served
BY ErrorsAreTruthful, AnswersAre, S3Answers

LEMMA PutEndsKeep ==
    ASSUME S3Inv, backend' = backend, backend = "s3", NEW c \in Clients,
           Abort(c) \/ S3Fails(c) \/ S3Dropped(c) \/ StoredObject(c)
    PROVE  S3Inv' /\ Served
<1>1. CASE Abort(c) \/ S3Dropped(c)
  <2>1. Busy(c)
    BY <1>1, PutSteps DEF Abort, S3Dropped, Doing, Uploading
  <2>2. QED
    BY <1>1, <2>1, S3ErrorKeeps DEF Abort, S3Dropped
<1>2. CASE S3Fails(c)
  BY <1>2, S3ErrorKeeps DEF S3Fails
<1>3. CASE StoredObject(c)
  <2> DEFINE r == request[c]
             rest == Tail(r.todo)
             s == [NoRequest EXCEPT !.at = "lookahead", !.todo = rest]
  <2>1. /\ r.at \in {"put_applied", "put_replied"} /\ UNCHANGED <<objects, uploads>>
        /\ Doing(c, Uploading)
    BY <1>3 DEF StoredObject, Doing, Uploading
  <2>2. /\ RequestOk(r, calls[c]) /\ calls[c].op = "put" /\ Busy(c)
        /\ rest \in Seq(FsKeys) /\ ToSet(rest) \subseteq calls[c].keys
        /\ CallOk(calls[c], S3Present)
    BY <2>1, PutSteps DEF S3Inv, LogOk
  <2>3. calls[c].keys \subseteq calls[c].done \cup ToSet(rest)
    BY <2>1, <2>2 DEF RequestOk
  <2>4. CASE rest = <<>>
    <3>1. ToSet(rest) = {}
      BY <2>4 DEF ToSet
    <3>2. calls[c].done = calls[c].keys
      BY <2>2, <2>3, <3>1 DEF CallOk
    <3>3. AllKeys!Truthful(calls[c], Answer("ok", {}))
      BY <2>2, <3>2 DEF AllKeys!Truthful, Answer
    <3>4. S3Returns(c, Answer("ok", {}))
      BY <1>3, <2>4 DEF StoredObject
    <3>5. QED
      BY <2>1, <2>2, <3>3, <3>4, AnswersAre, S3Answers
  <2>5. CASE rest # <<>>
    <3>1. Proceeds(c, s) /\ UNCHANGED calls
      BY <1>3, <2>5 DEF StoredObject
    <3>2. IsRequest(s) /\ s.at = "lookahead" /\ s.todo = rest /\ s.read = 0
      BY DEF NoRequest, IsRequest
    <3> HIDE DEF s
    <3>3. RequestOk(s, calls[c])
      BY <2>2, <2>3, <2>5, <3>2 DEF RequestOk
    <3>4. UploadOk(s, uploads'[c])
      BY <3>2 DEF UploadOk
    <3>5. QED
      BY <2>1, <3>1, <3>3, <3>4, S3Stutters
  <2>6. QED
    BY <2>4, <2>5
<1>4. QED
  BY <1>1, <1>2, <1>3

LEMMA DeleteKeeps ==
    ASSUME S3Inv, backend' = backend, backend = "s3", NEW c \in Clients,
           \/ \E k \in S3Keys : ApplyDelete(c, k)
           \/ ChunkReplies(c) \/ DeletesReturn(c)
    PROVE  S3Inv' /\ Served
<1> DEFINE r == request[c]
           call == calls[c]
           n == Smaller(ChunkSize, Len(r.todo))
           rest == SubSeq(r.todo, ChunkSize + 1, Len(r.todo))
<1>1. r.at = "delete" /\ UNCHANGED uploads
  BY DEF ApplyDelete, ChunkReplies, DeletesReturn, Doing
<1>2. RequestOk(r, call) /\ UploadOk(r, uploads[c]) /\ CallOk(call, S3Present)
  BY DEF S3Inv, LocalsOk, LogOk
<1>3. /\ IsRequest(r) /\ call.op = "delete" /\ Busy(c) /\ r.todo \in Seq(FsKeys)
      /\ ToSet(r.todo) \subseteq call.keys
      /\ call.keys \subseteq call.done \cup ToSet(r.todo) \cup r.bad
      /\ call.done \subseteq call.keys /\ call.keys \subseteq FsKeys
  BY <1>1, <1>2 DEF RequestOk, CallOk, Busy
<1>4. /\ rest \in Seq(FsKeys)
      /\ ToSet(Chunk(c)) \subseteq ToSet(r.todo) /\ ToSet(rest) \subseteq ToSet(r.todo)
      /\ ToSet(r.todo) \subseteq ToSet(Chunk(c)) \cup ToSet(rest)
  BY <1>3, SizesAssumption, FrontAndRest DEF Chunk
<1>5. ASSUME NEW k \in S3Keys, ApplyDelete(c, k) PROVE S3Inv' /\ Served
  <2>1. k \in FsKeys /\ k \in call.keys /\ UNCHANGED request
    BY <1>3, <1>4, <1>5 DEF ApplyDelete
  <2>2. /\ ObjectsOk' /\ LogOk(S3Present)' /\ Served
        /\ \A d \in Clients : Later(calls[d], calls'[d])
    BY <1>3, <1>5, <2>1, S3Removes DEF ApplyDelete
  <2>3. ASSUME NEW d \in Clients PROVE RequestOk(request[d], calls'[d])
    BY <2>2, RequestLater DEF S3Inv, LocalsOk
  <2>4. LocalsOk'
    BY <1>1, <2>1, <2>3 DEF S3Inv, LocalsOk
  <2>5. QED
    BY <2>2, <2>4 DEF S3Inv
<1>6. CASE ChunkReplies(c)
  <2>1. PICK errors \in SUBSET ToSet(Chunk(c)) :
            /\ ToSet(Chunk(c)) \ call.done \subseteq errors
            /\ Proceeds(c, [r EXCEPT !.bad = r.bad \cup errors, !.todo = rest])
    BY <1>6 DEF ChunkReplies
  <2> DEFINE s == [r EXCEPT !.bad = r.bad \cup errors, !.todo = rest]
  <2>2. IsRequest(s) /\ s.at = "delete" /\ s.todo = rest /\ s.bad = r.bad \cup errors
    BY <1>1, <1>3 DEF IsRequest
  <2>3. UNCHANGED <<objects, calls>> /\ Proceeds(c, s)
    BY <1>6, <2>1 DEF ChunkReplies
  <2> HIDE DEF s, rest
  <2>4. RequestOk(s, call)
    BY <1>3, <1>4, <2>1, <2>2 DEF RequestOk, Uploading
  <2>5. UploadOk(s, uploads'[c])
    BY <2>2 DEF UploadOk
  <2>6. QED
    BY <1>1, <2>3, <2>4, <2>5, S3Stutters
<1>7. CASE DeletesReturn(c)
  <2> DEFINE a == IF r.bad = {} THEN Answer("ok", {}) ELSE Answer("batch", call.keys \ r.bad)
  <2>1. S3Returns(c, a) /\ UNCHANGED objects /\ r.todo = <<>>
    BY <1>7 DEF DeletesReturn
  <2>2. ToSet(r.todo) = {}
    BY <2>1 DEF ToSet
  <2>3. AllKeys!Truthful(call, a)
    <3>1. CASE r.bad = {}
      <4>1. call.done = call.keys
        BY <1>3, <2>2, <3>1
      <4>2. QED
        BY <1>3, <3>1, <4>1 DEF AllKeys!Truthful, Answer
    <3>2. CASE r.bad # {}
      <4>1. a.is = "batch" /\ a.found = call.keys \ r.bad
        BY <3>2 DEF Answer
      <4>2. a.found \subseteq call.done
        BY <1>3, <2>2, <4>1
      <4>3. QED
        BY <1>3, <4>1, <4>2 DEF AllKeys!Truthful
    <3>3. QED
      BY <3>1, <3>2
  <2>4. QED
    BY <1>1, <1>3, <2>1, <2>3, AnswersAre, S3Answers
<1>8. QED
  BY <1>5, <1>6, <1>7

\* What a reader finds of a key, it finds at once.
LEMMA ReadKeeps ==
    ASSUME S3Inv, backend' = backend, backend = "s3", NEW c \in Clients,
           ObjectReplies(c) \/ HeadReplies(c)
    PROVE  S3Inv' /\ Served
<1> DEFINE r == request[c]
           call == calls[c]
           k == target(c)
           a == IF r.at = "head" THEN Answer("ok", {k} \cap S3Present)
                ELSE IF k \in S3Present THEN Answer("ok", {k}) ELSE Answer("missing", {})
<1>1. /\ r.at \in {"get", "head"} /\ UNCHANGED <<objects, uploads>>
      /\ S3Returns(c, a)
  BY DEF ObjectReplies, HeadReplies, Doing
<1>2. RequestOk(r, call) /\ CallOk(call, S3Present)
  BY DEF S3Inv, LocalsOk, LogOk
<1>3. /\ call.op = IF r.at = "head" THEN "exists" ELSE "get"
      /\ Busy(c) /\ call.keys = {k}
  BY <1>1, <1>2 DEF RequestOk, target, Busy
<1>4. Scope(call, S3Present) = {k} \cap S3Present
  BY <1>3 DEF Scope, InScope
<1>5. call.steady \subseteq {k} \cap S3Present /\ {k} \cap S3Present \subseteq call.ever
  BY <1>2, <1>4 DEF CallOk
<1>6. /\ IsAnswer(a)
      /\ \/ a.is = "ok" /\ a.found = {k} \cap S3Present
         \/ a.is = "missing" /\ {k} \cap S3Present = {} /\ r.at # "head"
  BY <1>1, AnswersAre DEF Answer
<1> HIDE DEF a, r, call, k
<1>7. AllKeys!Truthful(call, a)
  <2>1. CASE a.is = "ok"
    <3>1. a.found = {k} \cap S3Present /\ call.op \in {"get", "exists", "list"}
      BY <1>3, <1>6, <2>1
    <3>2. QED
      BY <1>5, <2>1, <3>1 DEF AllKeys!Truthful
  <2>2. CASE a.is = "missing"
    BY <1>3, <1>5, <1>6, <2>2 DEF AllKeys!Truthful
  <2>3. QED
    BY <1>6, <2>1, <2>2
<1>8. QED
  BY <1>1, <1>3, <1>6, <1>7, S3Answers DEF call

LEMMA PageKeeps ==
    ASSUME S3Inv, backend' = backend, backend = "s3", NEW c \in Clients, NextPage(c)
    PROVE  S3Inv' /\ Served
<1> DEFINE r == request[c]
           call == calls[c]
<1>1. r.at = "page" /\ UNCHANGED <<objects, uploads>>
  BY DEF NextPage, Doing
<1>2. RequestOk(r, call) /\ CallOk(call, S3Present) /\ S3Present \subseteq FsKeys
  BY S3Blobs DEF S3Inv, LocalsOk, LogOk
<1>3. /\ IsRequest(r) /\ call.op = "list" /\ Busy(c) /\ r.after \in Nat
      /\ r.found \subseteq call.ever
      /\ \A k \in call.steady :
            k \in r.found \/ \E i \in DOMAIN KeyOrder : i > r.after /\ KeyOrder[i] = k
  BY <1>1, <1>2 DEF RequestOk, Busy
<1>4. /\ \A k \in call.steady : k \in S3Present /\ Matches(call.filter, k)
      /\ \A k \in S3Present : Matches(call.filter, k) => k \in call.ever
  BY <1>2, <1>3 DEF CallOk, Scope, InScope
<1>5. ASSUME NEW page \in SUBSET Due(c) PROVE FoundIn(c, page) \subseteq call.ever
  BY <1>3, <1>4 DEF FoundIn, Due
\* A key that was there all the time is due, or was found on an earlier page.
<1>6. ASSUME NEW k \in call.steady, k \notin r.found
      PROVE  \E i \in Due(c) : KeyOrder[i] = k
  <2>1. PICK i \in DOMAIN KeyOrder : i > r.after /\ KeyOrder[i] = k
    BY <1>3, <1>6
  <2>2. k \in FsKeys /\ Len(k) \in Nat
    BY <1>2, <1>4, <1>6, FsKeysAssumption DEF IsText
  <2>3. IsPrefix(PrefixHint(call.filter), k)
    BY <1>4, <1>6, <2>2, HintsFit
  <2>4. QED
    BY <1>4, <1>6, <2>1, <2>3 DEF Due
<1>7. CASE S3Returns(c, Answer("ok", FoundIn(c, Due(c))))
  <2> DEFINE a == Answer("ok", FoundIn(c, Due(c)))
  <2>1. call.steady \subseteq FoundIn(c, Due(c))
    BY <1>4, <1>6 DEF FoundIn
  <2>2. AllKeys!Truthful(call, a)
    BY <1>3, <1>5, <2>1 DEF AllKeys!Truthful, Answer
  <2>3. QED
    BY <1>1, <1>3, <1>7, <2>2, AnswersAre, S3Answers
<1>8. ASSUME NEW last \in Due(c),
             Proceeds(c, [r EXCEPT !.after = last,
                                   !.found = FoundIn(c, {i \in Due(c) : i <= last})]),
             UNCHANGED calls
      PROVE  S3Inv' /\ Served
  <2> DEFINE page == {i \in Due(c) : i <= last}
             s == [r EXCEPT !.after = last, !.found = FoundIn(c, page)]
  <2>1. IsRequest(s) /\ s.at = "page" /\ s.after = last /\ s.found = FoundIn(c, page)
    BY <1>1, <1>3 DEF IsRequest
  <2> HIDE DEF s
  <2>2. Due(c) \subseteq Nat
    BY OrderAssumption DEF Due
  <2>3. ASSUME NEW k \in call.steady, k \notin FoundIn(c, page)
        PROVE  \E i \in DOMAIN KeyOrder : i > last /\ KeyOrder[i] = k
    <3>1. k \notin r.found
      BY <2>3 DEF FoundIn
    <3>2. PICK i \in Due(c) : KeyOrder[i] = k
      BY <1>6, <3>1
    <3>3. i \notin page
      BY <1>4, <2>3, <3>2 DEF FoundIn
    <3>4. i > last
      BY <1>8, <2>2, <3>2, <3>3
    <3>5. QED
      BY <3>2, <3>4 DEF Due
  <2>4. FoundIn(c, page) \subseteq call.ever /\ last \in Nat
    BY <1>5, <1>8, <2>2
  <2>5. RequestOk(s, call)
    BY <1>3, <2>1, <2>3, <2>4 DEF RequestOk, Uploading
  <2>6. UploadOk(s, uploads'[c])
    BY <2>1 DEF UploadOk
  <2>7. QED
    BY <1>1, <1>8, <2>5, <2>6, S3Stutters DEF s
<1>9. QED
  BY <1>7, <1>8 DEF NextPage

LEMMA S3StepKeeps ==
    ASSUME S3Inv, backend' = backend, backend = "s3", NEW c \in Clients, S3Step(c)
    PROVE  S3Inv' /\ Served
BY LookaheadKeeps, ApplyPutObjectKeeps, ApplyCompleteKeeps, PartKeeps, PutEndsKeep,
   DeleteKeeps, ReadKeeps, PageKeeps DEF S3Step

\* A call that is refused, by the prefix layer or by the backend.
LEMMA S3RefusalKeeps ==
    ASSUME S3Inv, backend' = backend, backend = "s3", NEW c \in Clients,
           Refused(c, "invalid"), UNCHANGED <<objects, uploads, request>>
    PROVE  S3Inv' /\ Called(c)
<1> DEFINE a == Answer("invalid", {})
<1>1. LogOk(S3Present) /\ Answers(c, a) /\ calls[c].op = "none"
  BY DEF S3Inv, Refused, Busy
<1>2. /\ calls' = [d \in Clients |-> calls'[d]] /\ \A d \in Clients : CallOk(calls'[d], S3Present)
      /\ calls'[c].answer = a
      /\ \A d \in Clients \ {c} : calls'[d] = calls[d]
  BY <1>1, Answering, Zenon
<1>3. ObjectsOk' /\ S3Present' = S3Present
  BY DEF S3Inv, ObjectsOk, S3Present
<1>4. ASSUME NEW d \in Clients PROVE RequestOk(request[d], calls'[d])
  <2>1. RequestOk(request[d], calls[d])
    BY DEF S3Inv, LocalsOk
  <2>2. QED
    BY <1>1, <1>2, <2>1, RequestOfNoCall
<1>5. LocalsOk'
  BY <1>4 DEF S3Inv, LocalsOk
<1>6. UNCHANGED AllBlobs
  BY <1>3, S3Blobs, S3BlobsNext DEF S3Inv
<1>7. Called(c)
  BY <1>2, <1>6, RefuseCalled
<1>8. QED
  BY <1>2, <1>3, <1>5, <1>7 DEF S3Inv, LogOk

LEMMA S3CallKeeps ==
    ASSUME S3Inv, backend = "s3", NEW c \in Clients, Call(c)
    PROVE  S3Inv' /\ Called(c) /\ backend' = "s3"
<1>1. ASSUME NEW batch \in Batches[c], Put(c, batch) \/ Delete(c, batch)
      PROVE  S3Inv' /\ Called(c) /\ backend' = "s3"
  <2>1. /\ OnS3 /\ Forwarded(c, batch)
        /\ \/ S3Begins(c, "put", FirstStep("put"), InnerBatch(c, batch), Everything)
           \/ S3Begins(c, "delete", FirstStep("delete"), InnerBatch(c, batch), Everything)
    BY <1>1 DEF Put, Delete, OnFs, PutObjects, DeleteObjects, FirstStep
  <2>2. InnerBatch(c, batch) \in Seq(FsKeys) /\ InnerBatch(c, batch) # <<>>
    BY <2>1, ForwardedBatch
  <2>3. QED
    BY <2>1, <2>2, S3BeginsKeeps DEF OnS3
<1>2. ASSUME NEW k \in UNION {ToSet(batch) : batch \in Batches[c]}, Get(c, k) \/ Exists(c, k)
      PROVE  S3Inv' /\ Called(c) /\ backend' = "s3"
  <2>1. /\ OnS3 /\ Forwarded(c, <<k>>)
        /\ \/ S3Begins(c, "get", FirstStep("get"), <<Inner(c, k)>>, Everything)
           \/ S3Begins(c, "exists", FirstStep("exists"), <<Inner(c, k)>>, Everything)
    BY <1>2 DEF Get, Exists, OnFs, GetObject, HeadObject, FirstStep
  <2>2. <<Inner(c, k)>> \in Seq(FsKeys) /\ Len(<<Inner(c, k)>>) = 1
    BY <2>1, ForwardedKey
  <2>3. QED
    BY <2>1, <2>2, S3BeginsKeeps DEF OnS3
<1>3. ASSUME NEW f, List(c, f)
      PROVE  S3Inv' /\ Called(c) /\ backend' = "s3"
  <2>1. OnS3 /\ S3Begins(c, "list", FirstStep("list"), <<>>, InnerFilter(c, f))
    BY <1>3 DEF List, OnFs, ListObjects, FirstStep
  <2>2. <<>> \in Seq(FsKeys)
    OBVIOUS
  <2>3. QED
    BY <2>1, <2>2, S3BeginsKeeps DEF OnS3
<1>4. ASSUME NEW batch, NEW f, Refuse(c, batch, f)
      PROVE  S3Inv' /\ Called(c) /\ backend' = "s3"
  <2>1. Refused(c, "invalid") /\ UNCHANGED <<objects, uploads, request, backend>>
    BY <1>4 DEF Refuse, OnFs, OnS3, S3Refuses
  <2>2. QED
    BY <2>1, S3RefusalKeeps
<1>5. QED
  BY <1>1, <1>2, <1>3, <1>4 DEF Call

LEMMA S3Next ==
    ASSUME S3Inv, backend = "s3", [Next]_vars
    PROVE  S3Inv' /\ Promised /\ backend' = "s3"
<1>1. CASE FsRuns
  BY <1>1 DEF FsRuns, OnFs
<1>2. CASE S3Runs
  BY <1>2, S3StepKeeps DEF S3Runs, OnS3, Promised
<1>3. CASE \E c \in Clients : Call(c)
  BY <1>3, S3CallKeeps DEF Promised
<1>4. CASE UNCHANGED vars
  <2>1. UNCHANGED <<objects, uploads, request, calls, backend, asked>>
    BY <1>4 DEF vars
  <2>2. ObjectsOk' /\ LocalsOk' /\ LogOk(S3Present)'
    BY <2>1 DEF S3Inv, ObjectsOk, LocalsOk, LogOk, S3Present
  <2>3. UNCHANGED AllBlobs
    BY <2>1, <2>2, S3Blobs, S3BlobsNext DEF S3Inv
  <2>4. QED
    BY <2>1, <2>2, <2>3 DEF S3Inv, Promised, Served
<1>5. QED
  BY <1>1, <1>2, <1>3, <1>4 DEF Next

LEMMA S3Start ==
    ASSUME Init, backend = "s3"
    PROVE  S3Inv /\ AllKeys!Init
<1>1. /\ objects = [k \in S3Keys |-> NoObject] /\ uploads = [c \in Clients |-> NoUpload]
      /\ request = [c \in Clients |-> NoRequest] /\ calls = [c \in Clients |-> NoCall]
  BY DEF Init, S3Init
<1>2. NoObject \in [by : Clients \cup {"nobody"}, whole : {TRUE}] /\ NoObject.by = "nobody"
  BY DEF NoObject
<1>3. ObjectsOk
  BY <1>1, <1>2 DEF ObjectsOk
<1>4. LocalsOk
  BY <1>1, NoRequestOk DEF LocalsOk
<1>5. LogOk(S3Present)
  <2>1. NoCall = [NoCall EXCEPT !.answer = Silent]
    BY DEF NoCall
  <2>2. CallOk(NoCall, S3Present)
    BY <2>1, NoCallOk
  <2>3. QED
    BY <1>1, <2>2 DEF LogOk
<1>6. AllBlobs = [k \in FsKeys |-> "nobody"]
  <2>1. \A k \in FsKeys : objects[k].by = "nobody"
    BY <1>1, <1>2, SameKeysAssumption
  <2>2. QED
    BY <1>3, <2>1, S3Blobs
<1>7. AllKeys!NoCall = NoCall
  BY DEF AllKeys!NoCall, NoCall, AllKeys!Silent, Silent, AllKeys!Answer, Answer,
         AllKeys!Everything, Everything, AllKeys!PrefixFilter, PrefixFilter
<1>8. QED
  BY <1>1, <1>3, <1>4, <1>5, <1>6, <1>7 DEF S3Inv, AllKeys!Init

\* Nobody loses a byte of a stream to an object of the bucket, nor completes an
\* upload that the service must refuse.
LEMMA S3InvariantsHold ==
    ASSUME S3Inv
    PROVE  ObjectsWhole /\ UploadsComplete
BY DEF S3Inv, ObjectsOk, LocalsOk, UploadOk, ObjectsWhole, UploadsComplete, Doing

----------------------------------------------------------------------------
(* The store with the backend that was selected; the other one is idle.     *)

FsIdle ==
    /\ tree = [p \in Paths |-> IF p = Root THEN Dir ELSE Nothing]
    /\ walker = [c \in Clients |-> NoWalk]

S3Idle ==
    /\ objects = [k \in S3Keys |-> NoObject]
    /\ uploads = [c \in Clients |-> NoUpload]
    /\ request = [c \in Clients |-> NoRequest]

BackendsInv ==
    \/ backend = "fs" /\ FsInv /\ S3Idle
    \/ backend = "s3" /\ S3Inv /\ FsIdle

LEMMA BackendsInit == Init => BackendsInv /\ AllKeys!Init
<1> SUFFICES ASSUME Init PROVE BackendsInv /\ AllKeys!Init
  OBVIOUS
<1>1. backend = "fs" \/ backend = "s3"
  BY KindsAssumption DEF Init
<1>2. FsIdle /\ S3Idle
  BY DEF Init, FsInit, S3Init, FsIdle, S3Idle
<1>3. QED
  BY <1>1, <1>2, FsStart, S3Start DEF BackendsInv

\* No step of a store touches the backend that it does not use.
LEMMA OtherStaysIdle ==
    ASSUME [Next]_vars
    PROVE  /\ backend = "fs" => UNCHANGED <<objects, uploads, request>>
           /\ backend = "s3" => UNCHANGED <<tree, walker>>
<1>1. CASE FsRuns
  BY <1>1 DEF FsRuns, OnFs
<1>2. CASE S3Runs
  BY <1>2 DEF S3Runs, OnS3
<1>3. CASE \E c \in Clients : Call(c)
  <2>1. \/ OnFs \/ OnS3 \/ UNCHANGED <<tree, walker, objects, uploads, request, backend>>
    BY <1>3 DEF Call, Put, Delete, Get, Exists, List, Refuse
  <2>2. QED
    BY <2>1 DEF OnFs, OnS3
<1>4. CASE UNCHANGED vars
  BY <1>4 DEF vars
<1>5. QED
  BY <1>1, <1>2, <1>3, <1>4 DEF Next

LEMMA BackendsStep == BackendsInv /\ [Next]_vars => BackendsInv' /\ Promised
<1> SUFFICES ASSUME BackendsInv, [Next]_vars PROVE BackendsInv' /\ Promised
  OBVIOUS
<1>1. CASE backend = "fs"
  <2>1. FsInv /\ S3Idle
    BY <1>1 DEF BackendsInv
  <2>2. S3Idle'
    BY <1>1, <2>1, OtherStaysIdle DEF S3Idle
  <2>3. QED
    BY <1>1, <2>1, <2>2, FsNext DEF BackendsInv
<1>2. CASE backend = "s3"
  <2>1. S3Inv /\ FsIdle
    BY <1>2 DEF BackendsInv
  <2>2. FsIdle'
    BY <1>2, <2>1, OtherStaysIdle DEF FsIdle
  <2>3. QED
    BY <1>2, <2>1, <2>2, S3Next DEF BackendsInv
<1>3. QED
  BY <1>1, <1>2 DEF BackendsInv

\* What both backends keep, selected or idle.
LEMMA Inductive == Spec => []BackendsInv
BY BackendsInit, BackendsStep, PTL DEF Spec

LEMMA IdleTreeInOrder == FsIdle => TreeTypeOK
<1> SUFFICES ASSUME FsIdle PROVE TreeTypeOK
  OBVIOUS
<1>1. {Nothing, Dir} \subseteq [kind : {"none", "dir", "file"}, bytes : Contents]
  BY ContentsAre DEF Nothing, Dir
<1>2. \A c \in Clients : ~walker[c].linked
  BY DEF FsIdle, NoWalk
<1>3. QED
  BY <1>1, <1>2 DEF FsIdle, TreeTypeOK, Contents

LEMMA IdleBucketInOrder == S3Idle => ObjectsWhole /\ UploadsComplete
BY DEF S3Idle, ObjectsWhole, UploadsComplete, Doing, NoObject, NoRequest

\* Files, root and directories stay a tree, whatever puts, deletes and an
\* operator do to it at the same time (fs.rs, fs/store.rs), and a put only ever
\* writes to the file it created and not past its end.
THEOREM TreeStaysInOrder == Spec => []TreeTypeOK
<1>1. BackendsInv => TreeTypeOK
  BY TreeInOrder, IdleTreeInOrder DEF BackendsInv
<1>2. QED
  BY <1>1, Inductive, PTL

\* An object of the bucket holds all the bytes of its stream, however it was
\* cut into parts (s3/multipart.rs): no failure, abort or other call leaves less.
THEOREM ObjectsAreWhole == Spec => []ObjectsWhole
<1>1. BackendsInv => ObjectsWhole
  BY S3InvariantsHold, IdleBucketInOrder DEF BackendsInv
<1>2. QED
  BY <1>1, Inductive, PTL

\* Whenever put of the S3 backend (s3/multipart.rs) completes an upload, its
\* parts are ones that the service takes.
THEOREM UploadsAreComplete == Spec => []UploadsComplete
<1>1. BackendsInv => UploadsComplete
  BY S3InvariantsHold, IdleBucketInOrder DEF BackendsInv
<1>2. QED
  BY <1>1, Inductive, PTL

\* Either backend, with all its callers, implements the contract of BlobStore
\* (blob_store.rs): every step of it is one that BlobMap allows, or one that no
\* caller sees.  If stat never fails unnoticed (StatsFail = FALSE), BlobMap allows
\* no blob to be overlooked; names that are no keys it allows only in a listing
\* whose hint has an empty component.
THEOREM BackendsKeepTheContract == Spec => BackendContract
<1>1. Promised => [AllKeys!Next]_<<AllBlobs, calls>>
  BY DEF Promised, Called, Served, AllKeys!Next
<1>2. QED
  BY <1>1, BackendsInit, BackendsStep, PTL DEF Spec, BackendContract, AllKeys!Spec

LEMMA TenantsInductive ==
    BackendsInv /\ AskedOk /\ [Next]_vars => AskedOk' /\ PromisedToTenants
<1> SUFFICES ASSUME BackendsInv, AskedOk, [Next]_vars
             PROVE  AskedOk' /\ PromisedToTenants
  OBVIOUS
<1>1. LogOk(FsPresent) \/ LogOk(S3Present)
  BY DEF BackendsInv, FsInv, S3Inv
<1>2. Promised
  BY BackendsStep
<1>3. QED
  BY <1>1, <1>2, TenantsStep

\* The store behind the prefix layer (prefix.rs) implements the same contract
\* for the tenants' keys, by the names without the prefix: the layer neither
\* lists a key that is not the tenant's, nor loses one to the hint it passes on,
\* and what others do to other keys is nothing to the tenants.  The exceptions of
\* BackendsKeepTheContract are all that is passed on to them.
THEOREM TenantsKeepTheContract == Spec => PrefixContract
<1>1. Init => BackendsInv /\ AskedOk /\ TenantKeys!Init
  BY BackendsInit, TenantsInit
<1>2. PromisedToTenants => [TenantKeys!Next]_<<TenantBlobs, TenantCalls>>
  BY DEF PromisedToTenants
<1>3. QED
  BY <1>1, <1>2, BackendsStep, TenantsInductive, PTL DEF Spec, PrefixContract, TenantKeys!Spec
===============================================================================
