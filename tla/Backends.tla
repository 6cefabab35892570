-------------------------------- MODULE Backends -------------------------------
(***************************************************************************)
(* A store as the builder puts it together (builder/backend.rs, prefix.rs):*)
(* FsBlobStore or S3BlobStore, and for some of its callers, the tenants,   *)
(* PrefixBlobStore before it.  The tenants share the backend with callers  *)
(* that use it directly.                                                   *)
(*                                                                         *)
(* Whatever the backend, and with the prefix layer before it or without,   *)
(* the store implements BlobMap: the former for all the keys, the latter   *)
(* for the tenants' keys alone, by their own names.                        *)
(***************************************************************************)
EXTENDS FsStore, S3Store

CONSTANTS
    Kinds,          \* backends the application may select
    Tenants,        \* clients behind the prefix layer
    Prefix,         \* its prefix
    Batches,        \* client -> batches it may put or delete, as it names the keys
    Filters         \* client -> filters it may list with

ASSUME KindsAssumption == Kinds \subseteq {"fs", "s3"} /\ Tenants \subseteq Clients
ASSUME SameKeysAssumption == FsKeys = S3Keys

VARIABLES
    backend,   \* the one that was selected
    asked      \* client -> its own filter, where the prefix layer sent another

vars == <<tree, walker, objects, uploads, request, calls, backend, asked>>

\* build_raw_arc
Init ==
    /\ backend \in Kinds
    /\ asked = [c \in Clients |-> Everything]
    /\ FsInit /\ S3Init

OnFs == backend = "fs" /\ UNCHANGED <<objects, uploads, request, backend>>
OnS3 == backend = "s3" /\ UNCHANGED <<tree, walker, backend>>

----------------------------------------------------------------------------
(* The calls.  A tenant's keys are validated and prefixed before any of     *)
(* them reaches the backend, and so is the prefix its filter hints at.      *)

Inner(c, k) == IF c \in Tenants THEN Prefixed(Prefix, k) ELSE k

Accepted(c, k) == IF c \in Tenants THEN Accepts(Prefix, k) ELSE Valid(k)

\* Calls name at least one key, and any that is accepted is one of FsKeys; the
\* names that stand for no client are none.
ASSUME NamesAssumption == Clients \cap {"nobody", "torn", Hole} = {}
ASSUME CallsAssumption ==
    /\ IsText(Prefix)
    /\ \A c \in Clients :
          /\ \A batch \in Batches[c] :
                /\ batch \in Seq(ToSet(batch)) /\ batch # <<>>
                /\ \A k \in ToSet(batch) :
                      IsText(k) /\ (Accepted(c, k) => Inner(c, k) \in FsKeys)
          /\ \A f \in Filters[c] : IsText(f.text)

InnerBatch(c, batch) == [i \in DOMAIN batch |-> Inner(c, batch[i])]
InnerFilter(c, f)    == IF c \in Tenants THEN CombinedPrefixFilter(Prefix, f) ELSE f

Forwarded(c, batch) ==
    /\ \A k \in ToSet(batch) : Accepted(c, k)
    /\ asked' = [asked EXCEPT ![c] = Everything]

Put(c, batch) ==
    /\ Forwarded(c, batch)
    /\ \/ OnFs /\ PutFiles(c, InnerBatch(c, batch))
       \/ OnS3 /\ PutObjects(c, InnerBatch(c, batch))

Delete(c, batch) ==
    /\ Forwarded(c, batch)
    /\ \/ OnFs /\ UnlinkFiles(c, InnerBatch(c, batch))
       \/ OnS3 /\ DeleteObjects(c, InnerBatch(c, batch))

Get(c, k) ==
    /\ Forwarded(c, <<k>>)
    /\ \/ OnFs /\ (GetFile(c, Inner(c, k)) \/ GetFileWithMeta(c, Inner(c, k)))
       \/ OnS3 /\ GetObject(c, Inner(c, k))

Exists(c, k) ==
    /\ Forwarded(c, <<k>>)
    /\ \/ OnFs /\ FileExists(c, Inner(c, k))
       \/ OnS3 /\ HeadObject(c, Inner(c, k))

List(c, f) ==
    /\ asked' = [asked EXCEPT ![c] = f]
    /\ \/ OnFs /\ Walk(c, InnerFilter(c, f))
       \/ OnS3 /\ ListObjects(c, InnerFilter(c, f))

Refuse(c, batch, f) ==
    /\ \/ /\ c \in Tenants /\ \E k \in ToSet(batch) : ~Accepts(Prefix, k)
          /\ Refused(c, "invalid")
          /\ UNCHANGED <<tree, walker, objects, uploads, request, backend>>
       \/ OnFs /\ FsRefuses(c, InnerBatch(c, batch), PrefixHint(InnerFilter(c, f)))
       \/ OnS3 /\ S3Refuses(c, InnerBatch(c, batch))
    /\ asked' = [asked EXCEPT ![c] = Everything]

Call(c) ==
    \/ \E batch \in Batches[c] : Put(c, batch) \/ Delete(c, batch) \/ Refuse(c, batch, Everything)
    \/ \E k \in UNION {ToSet(batch) : batch \in Batches[c]} : Get(c, k) \/ Exists(c, k)
    \/ \E f \in Filters[c] : List(c, f) \/ Refuse(c, <<>>, f)

FsRuns == (RemoveRoot \/ \E c \in Clients : FsStep(c)) /\ OnFs /\ UNCHANGED asked
S3Runs == (\E c \in Clients : S3Step(c)) /\ OnS3 /\ UNCHANGED asked

Next == FsRuns \/ S3Runs \/ \E c \in Clients : Call(c)

Spec == Init /\ [][Next]_vars

----------------------------------------------------------------------------
(* What the callers see.                                                    *)

Blob(k) == IF backend = "fs" THEN FsBlob(k, "nobody", "torn")
                             ELSE S3Blob(k, "nobody", "torn")

\* Every key, as the backend's own callers know it.
AllBlobs == [k \in FsKeys |-> Blob(k)]

AllKeys == INSTANCE BlobMap WITH
    blobs <- AllBlobs, Keys <- FsKeys, NoBlob <- "nobody", Torn <- "torn",
    Overlooking <- StatsFail, Base <- <<>>

OwnKeys == Stripped(Prefix, FsKeys)

\* The prefix layer strips the keys of what it hands back: those of listings,
\* which then have to pass the caller's filter, and of batch errors.
TenantAnswer(a, f) == [a EXCEPT !.found = Listed(Prefix, f, @)]

\* A tenant's call by the tenant's names; its list is what passes its filter.
TenantCall(call, f) ==
    LET own(keys) == {k \in OwnKeys : Prefixed(Prefix, k) \in keys
                                      /\ (call.op = "list" => Matches(f, k))}
    IN  [op |-> call.op, keys |-> own(call.keys), done |-> own(call.done),
         steady |-> own(call.steady), ever |-> own(call.ever),
         filter |-> IF call.op = "list" THEN f ELSE call.filter,
         answer |-> TenantAnswer(call.answer, f)]

\* Tenants see what others do to their keys, not what the others are told.
OthersCall(call) ==
    IF call.op \in {"put", "delete"} THEN [TenantCall(call, Everything) EXCEPT !.answer = Silent]
    ELSE NoCall

TenantBlobs == [k \in OwnKeys |-> Blob(Prefixed(Prefix, k))]

TenantCalls ==
    [c \in Clients |-> IF c \in Tenants THEN TenantCall(calls[c], asked[c])
                                        ELSE OthersCall(calls[c])]

TenantKeys == INSTANCE BlobMap WITH
    blobs <- TenantBlobs, calls <- TenantCalls,
    Keys <- OwnKeys, NoBlob <- "nobody", Torn <- "torn",
    Overlooking <- StatsFail, Base <- Prefix

\* The backend keeps the contract of BlobStore (blob_store.rs): blobs change
\* only under keys of a put or delete in progress; a put or delete that says ok
\* has done all its keys, a batch error names only keys that are done; a listing
\* or a get errs only about blobs that came or went during the call.  Except that
\* the filesystem takes a stat that fails for a missing file (fs/store.rs:148,
\* 223, 253: only if StatsFail), and lists blobs under names that are no keys for
\* a hint with an empty component (fs/store.rs:45-51, 94-100).
BackendContract == AllKeys!Spec

\* PrefixBlobStore keeps the same contract for the keys under its prefix, by
\* the names without it, while others work on the same backend: prefix.rs
\* neither shows a key that is not the tenant's, nor misses one for its hint,
\* with the same two exceptions: what the backend overlooked, and names that are
\* no keys where prefix and hint make an empty component ("t/" and "/").
PrefixContract == TenantKeys!Spec

\* What a file tree may be: a root that is there has everything in it below
\* directories, no file and no directory without the ones above it, and no call
\* writes to a file that is not there.
TreeTypeOK ==
    /\ tree \in [Paths -> [kind : {"none", "dir", "file"},
                           bytes : UNION {[1 .. n -> Clients \cup {Hole}] : n \in 0 .. Chunks}]]
    /\ \A p \in Paths : tree[p] # Nothing /\ p # Root => IsDir(Parent(p))
    /\ \A c \in Clients : walker[c].linked => IsFile(key(c)) /\ walker[c].off <= Chunks
===============================================================================
