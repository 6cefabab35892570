-------------------------------- MODULE S3Store --------------------------------
(***************************************************************************)
(* S3BlobStore (s3.rs, s3/store.rs, s3/single.rs, s3/multipart.rs) and the *)
(* service behind it.  A request is applied by the service, perhaps more   *)
(* than once because the SDK retries, before its reply arrives; a reply    *)
(* may be an error although the request was applied.  Objects are replaced *)
(* whole.  Sizes count units of which MinPart make 5 MiB; a part is the    *)
(* piece of the stream it holds, from one offset to another.               *)
(***************************************************************************)
EXTENDS CallLog, FiniteSets

CONSTANTS
    KeyOrder,      \* the keys of the bucket, in the order the service lists them
    Sizes,         \* sizes of the streams given to put
    MinPart,       \* MIN_MULTIPART_PART_SIZE
    AskedPart,     \* part size the application asked for
    MaxParts,      \* parts the service takes in one upload
    ChunkSize,     \* keys of one DeleteObjects request
    PageSize       \* keys of one page of ListObjectsV2

ASSUME SizesAssumption == Sizes \subseteq Nat /\ {MinPart, MaxParts, ChunkSize, PageSize} \subseteq Nat \ {0}
ASSUME OrderAssumption == KeyOrder \in Seq(ToSet(KeyOrder)) /\ AskedPart \in Nat

VARIABLES
    objects,   \* key -> who put it, and whether it is the whole stream
    uploads,   \* client -> parts of the last upload it created
    request    \* the locals of each client's call

S3Keys    == ToSet(KeyOrder)
NoObject  == [by |-> "nobody", whole |-> TRUE]
NoUpload  == <<[from |-> 0, to |-> 0]>>    \* no part of an upload is empty
S3Present == {k \in S3Keys : objects[k] # NoObject}

\* `todo` keys left, the size of the stream being put and how much was read;
\* keys a delete could not remove; the last place seen of the listing, and
\* the keys found.
NoRequest == [at |-> "idle", todo |-> <<>>, of |-> 0, read |-> 0,
              bad |-> {}, after |-> 0, found |-> {}]

s3vars == <<objects, uploads, request, calls>>

S3Init ==
    /\ objects = [k \in S3Keys |-> NoObject]
    /\ uploads = [c \in Clients |-> NoUpload]
    /\ request = [c \in Clients |-> NoRequest]
    /\ calls = [c \in Clients |-> NoCall]

Doing(c, steps) == request[c].at \in steps
target(c)       == Head(request[c].todo)
Proceeds(c, r)  == request' = [request EXCEPT ![c] = r]
Goes(c, step)   == Proceeds(c, [request[c] EXCEPT !.at = step])
Smaller(m, n)   == IF m < n THEN m ELSE n

S3Returns(c, a) ==
    /\ Answers(c, a)
    /\ Proceeds(c, NoRequest)

----------------------------------------------------------------------------
(* The beginning of a call: every key is validated, a filter is not.        *)

S3Refuses(c, batch) ==
    /\ Refused(c, "invalid")
    /\ \E k \in ToSet(batch) : ~Valid(k)
    /\ UNCHANGED <<objects, uploads, request>>

S3Begins(c, op, step, batch, filter) ==
    /\ Calls(c, op, ToSet(batch), filter, S3Present)
    /\ Proceeds(c, [NoRequest EXCEPT !.at = step, !.todo = batch])
    /\ UNCHANGED <<objects, uploads>>

PutObjects(c, batch)    == S3Begins(c, "put", "lookahead", batch, Everything)
DeleteObjects(c, batch) == S3Begins(c, "delete", "delete", batch, Everything)
GetObject(c, k)         == S3Begins(c, "get", "get", <<k>>, Everything)
HeadObject(c, k)        == S3Begins(c, "exists", "head", <<k>>, Everything)
ListObjects(c, filter)  == S3Begins(c, "list", "page", <<>>, filter)

----------------------------------------------------------------------------
(* put: a blob whose first MinPart units are all there is of it is one      *)
(* PutObject, any other a multipart upload.                                 *)

\* Mutant of PartSize: the application's size as it is.
PartSizeAsked == AskedPart

PartSize == IF AskedPart < MinPart THEN MinPart ELSE AskedPart

Lookahead(c) ==
    /\ Doing(c, {"lookahead"})
    /\ \E n \in Sizes :
          Proceeds(c, [request[c] EXCEPT
              !.at = IF n < MinPart THEN "put_object" ELSE "create",
              !.of = n])
    /\ UNCHANGED <<objects, uploads, calls>>

\* The service stores the object, once or again before the SDK has a reply.
ApplyPutObject(c) ==
    /\ Doing(c, {"put_object", "put_applied"})
    /\ objects' = [objects EXCEPT ![target(c)] = [by |-> c, whole |-> TRUE]]
    /\ Touches(c, target(c), TRUE, TRUE)
    /\ Goes(c, "put_applied")
    /\ UNCHANGED uploads

CreateMultipart(c) ==
    /\ Doing(c, {"create"})
    /\ uploads' = [uploads EXCEPT ![c] = <<>>]
    /\ Goes(c, "part")
    /\ UNCHANGED <<objects, calls>>

Left(c)       == request[c].of - request[c].read
NextPart(c)   == Smaller(PartSize, Left(c))
Piece(c, end) == [from |-> request[c].read, to |-> end]

\* Mutant of UploadPart: every part is sent as long as the buffer.
UploadPartPadded(c) ==
    /\ Doing(c, {"part"})
    /\ Left(c) > 0 /\ Len(uploads[c]) < MaxParts
    /\ uploads' = [uploads EXCEPT ![c] = Append(@, Piece(c, request[c].read + PartSize))]
    /\ Proceeds(c, [request[c] EXCEPT !.read = @ + NextPart(c)])
    /\ UNCHANGED <<objects, calls>>

\* take(part_size) and UploadPart; the service numbers no part above MaxParts.
UploadPart(c) ==
    LET end == request[c].read + NextPart(c) IN
    /\ Doing(c, {"part"})
    /\ Left(c) > 0 /\ Len(uploads[c]) < MaxParts
    /\ uploads' = [uploads EXCEPT ![c] = Append(@, Piece(c, end))]
    /\ Proceeds(c, [request[c] EXCEPT !.read = end])
    /\ UNCHANGED <<objects, calls>>

\* Reading the blob or uploading the part fails.
PartFails(c) ==
    /\ Doing(c, {"part"})
    /\ Goes(c, "abort")
    /\ UNCHANGED <<objects, uploads, calls>>

\* Whether the abort succeeds is not looked at.
Abort(c) ==
    /\ Doing(c, {"abort"})
    /\ uploads' \in {uploads, [uploads EXCEPT ![c] = NoUpload]}
    /\ \E is \in {"error", "misconfigured"} : S3Returns(c, Answer(is, {}))
    /\ UNCHANGED objects

PartsEnd(c) ==
    /\ Doing(c, {"part"}) /\ Left(c) = 0
    /\ Goes(c, "complete")
    /\ UNCHANGED <<objects, uploads, calls>>

\* What CompleteMultipartUpload demands of the parts.
PartsLegal(parts) ==
    /\ Len(parts) \in 1 .. MaxParts
    /\ \A i \in 1 .. Len(parts) - 1 : parts[i].to - parts[i].from >= MinPart

\* It joins them in their order: the whole stream, if none is amiss.
JoinToWhole(parts, size) ==
    /\ parts[1].from = 0 /\ parts[Len(parts)].to = size
    /\ \A i \in 1 .. Len(parts) - 1 : parts[i].to = parts[i + 1].from

ApplyComplete(c) ==
    /\ Doing(c, {"complete"})
    /\ PartsLegal(uploads[c])
    /\ objects' = [objects EXCEPT ![target(c)] =
           [by |-> c, whole |-> JoinToWhole(uploads[c], request[c].of)]]
    /\ uploads' = [uploads EXCEPT ![c] = NoUpload]
    /\ Touches(c, target(c), TRUE, TRUE)
    /\ Goes(c, "put_replied")

\* The reply to PutObject or CompleteMultipartUpload: the next blob, if any.
StoredObject(c) ==
    LET rest == Tail(request[c].todo) IN
    /\ Doing(c, {"put_applied", "put_replied"})
    /\ IF rest = <<>> THEN S3Returns(c, Answer("ok", {}))
       ELSE /\ Proceeds(c, [NoRequest EXCEPT !.at = "lookahead", !.todo = rest])
            /\ UNCHANGED calls
    /\ UNCHANGED <<objects, uploads>>

----------------------------------------------------------------------------
(* delete: one DeleteObjects request for each chunk of the keys.            *)

Chunk(c) == SubSeq(request[c].todo, 1, Smaller(ChunkSize, Len(request[c].todo)))

ApplyDelete(c, k) ==
    /\ Doing(c, {"delete"})
    /\ k \in ToSet(Chunk(c))
    /\ objects' = [objects EXCEPT ![k] = NoObject]
    /\ Touches(c, k, FALSE, TRUE)
    /\ UNCHANGED <<uploads, request>>

\* Mutant of ChunkReplies: only the keys of the last chunk's errors are kept.
ChunkRepliesForgetting(c) ==
    /\ Doing(c, {"delete"}) /\ request[c].todo # <<>>
    /\ \E errors \in SUBSET ToSet(Chunk(c)) :
          /\ ToSet(Chunk(c)) \ calls[c].done \subseteq errors
          /\ Proceeds(c, [request[c] EXCEPT
                 !.bad = errors,
                 !.todo = SubSeq(@, ChunkSize + 1, Len(@))])
    /\ UNCHANGED <<objects, uploads, calls>>

\* The reply names the keys that were deleted and those that failed.
ChunkReplies(c) ==
    /\ Doing(c, {"delete"}) /\ request[c].todo # <<>>
    /\ \E errors \in SUBSET ToSet(Chunk(c)) :
          /\ ToSet(Chunk(c)) \ calls[c].done \subseteq errors
          /\ Proceeds(c, [request[c] EXCEPT
                 !.bad = @ \cup errors,
                 !.todo = SubSeq(@, ChunkSize + 1, Len(@))])
    /\ UNCHANGED <<objects, uploads, calls>>

DeletesReturn(c) ==
    /\ Doing(c, {"delete"}) /\ request[c].todo = <<>>
    /\ S3Returns(c, IF request[c].bad = {} THEN Answer("ok", {})
                    ELSE Answer("batch", calls[c].keys \ request[c].bad))
    /\ UNCHANGED <<objects, uploads>>

----------------------------------------------------------------------------
(* get (and get_with_metadata), exists: one request each.                   *)

ObjectReplies(c) ==
    /\ Doing(c, {"get"})
    /\ S3Returns(c, IF target(c) \in S3Present THEN Answer("ok", {target(c)})
                    ELSE Answer("missing", {}))
    /\ UNCHANGED <<objects, uploads>>

HeadReplies(c) ==
    /\ Doing(c, {"head"})
    /\ S3Returns(c, Answer("ok", {target(c)} \cap S3Present))
    /\ UNCHANGED <<objects, uploads>>

----------------------------------------------------------------------------
(* list; visit and list_with_metadata: pages in key order, each as the      *)
(* bucket is then, from the place where the last one ended.                 *)

\* Places in the key order that are still due.
Due(c) ==
    {i \in DOMAIN KeyOrder :
        /\ i > request[c].after
        /\ KeyOrder[i] \in S3Present
        /\ IsPrefix(PrefixHint(calls[c].filter), KeyOrder[i])}

FoundIn(c, page) ==
    request[c].found \cup
        {k \in {KeyOrder[i] : i \in page} : Matches(calls[c].filter, k)}

\* The last page, or a full one with a continuation token.
NextPage(c) ==
    /\ Doing(c, {"page"})
    /\ \/ /\ Cardinality(Due(c)) <= PageSize
          /\ S3Returns(c, Answer("ok", FoundIn(c, Due(c))))
       \/ \E last \in Due(c) :
             LET page == {i \in Due(c) : i <= last} IN
             /\ page # Due(c) /\ Cardinality(page) = PageSize
             /\ Proceeds(c, [request[c] EXCEPT !.after = last, !.found = FoundIn(c, page)])
             /\ UNCHANGED calls
    /\ UNCHANGED <<objects, uploads>>

----------------------------------------------------------------------------
\* A request fails, whether the service applied it or not; the stream of the
\* first chunk cannot be read; the caller drops the future; the process dies.
\* The first failure ends the call, keys of earlier chunks and all.
S3Fails(c) ==
    /\ Busy(c) /\ ~Doing(c, {"part", "abort"})
    /\ \E is \in {"error", "misconfigured"} : S3Returns(c, Answer(is, {}))
    /\ UNCHANGED <<objects, uploads>>

\* Nobody aborts the upload of a future that is dropped while it uploads.
S3Dropped(c) ==
    /\ Doing(c, {"part", "abort"})
    /\ S3Returns(c, Answer("error", {}))
    /\ UNCHANGED <<objects, uploads>>

S3Step(c) ==
    \/ Lookahead(c) \/ ApplyPutObject(c) \/ CreateMultipart(c) \/ UploadPart(c)
    \/ PartFails(c) \/ Abort(c) \/ PartsEnd(c) \/ ApplyComplete(c) \/ StoredObject(c)
    \/ ChunkReplies(c) \/ DeletesReturn(c)
    \/ ObjectReplies(c) \/ HeadReplies(c) \/ NextPage(c)
    \/ S3Fails(c) \/ S3Dropped(c)
    \/ \E k \in S3Keys : ApplyDelete(c, k)

----------------------------------------------------------------------------
\* What an observer calls the blob under k.
S3Blob(k, none, torn) ==
    IF objects[k] = NoObject THEN none
    ELSE IF objects[k].whole THEN objects[k].by ELSE torn

\* Readers only ever see whole streams: put neither loses the lookahead nor
\* stores padding, and completes no upload whose stream broke off, whatever fails.
ObjectsWhole == \A k \in S3Keys : objects[k].whole

\* Whenever put comes to complete an upload its parts are ones the service
\* takes: enough in each of them but the last, neither none nor too many.
UploadsComplete == \A c \in Clients : Doing(c, {"complete"}) => PartsLegal(uploads[c])
===============================================================================
