--------------------------- MODULE EncryptedHistory ---------------------------
(***************************************************************************)
(* What a caller of EncryptedBlobStore may rely on, stated over            *)
(* EncryptedStore with history variables that only watch it.               *)
(*                                                                         *)
(* A writer is AT WORK on a key during that key's turn: for put, from the  *)
(* first inner write of the blob to the end of its header write or         *)
(* rollback; for delete, during the whole call.  A turn is ALONE if no     *)
(* other writer was at work on the key at any time during it, and no rekey *)
(* pass overwrote its header with one read before.                         *)
(***************************************************************************)
EXTENDS EncryptedStore

VARIABLES
    alone,     \* writers whose current turn has been alone so far
    raced,     \* a writer was at work on the key while rekey held its header
    kept,      \* key -> write stored by the last turn, if that was alone; or 0
    gone,      \* keys deleted by the last turn, alone, as the caller was told
    prior,     \* writer -> writes whose turns were over when its turn began
    obsolete   \* key -> writes that a later, successful turn has replaced

history == <<alone, raced, kept, gone, prior, obsolete>>
hvars == <<vars, history>>

HistoryTypeOK ==
    /\ alone \subseteq Writers
    /\ raced \in BOOLEAN
    /\ kept \in [Keys -> WriteIds]
    /\ gone \subseteq Keys
    /\ prior \in [Writers -> SUBSET WriteIds]
    /\ obsolete \in [Keys -> SUBSET WriteIds]

----------------------------------------------------------------------------
\* Keys a writer is at work on.
AtWork(c) == {k \in Keys : \/ pc[c] \in PutSteps /\ k = key(c)
                           \/ pc[c] = "delete" /\ k \in targets[c]}

PutTurnBegins(c)    == pc[c] # "data" /\ pc'[c] = "data"
DeleteTurnBegins(c) == pc[c] # "delete" /\ pc'[c] = "delete"
TurnBegins(c)       == PutTurnBegins(c) \/ DeleteTurnBegins(c)
TurnBeginsOn(k)     == \E c \in Writers : TurnBegins(c) /\ k \in AtWork(c)'

\* The put call goes on to its next blob or returns Ok: for the caller the
\* current blob is stored.
BlobStored(c) ==
    /\ pc[c] \in PutSteps
    /\ PutTurnBegins(c) \/ (pc'[c] = "idle" /\ reply'[c] = "ok")

\* The keys a delete call tells its caller are gone.
ToldGone(c) ==
    {k \in targets[c] : /\ pc[c] = "delete" /\ pc'[c] = "idle"
                        /\ reply'[c] = "ok" \/ (reply'[c] = "batch" /\ k \notin failed[c])}

RekeyWrote(k) == rkPc = "store" /\ rkPc' = "walk" /\ k = rkKey

\* Writes whose turn is over.
Over == {w \in 1 .. lastWrite :
            ~ \E c \in Writers : /\ pc[c] \in PutSteps
                                 /\ write[c] <= w
                                 /\ w < write[c] + Len(queue[c])}

StaysAlone(c) ==
    /\ c \in alone
    /\ \A d \in Writers \ {c} : TurnBegins(d) => AtWork(d)' \cap AtWork(c) = {}
    /\ ~ (pc[c] \in PutSteps /\ raced /\ RekeyWrote(key(c)))

BeginsAlone(c) == \A d \in Writers \ {c} : AtWork(d)' \cap AtWork(c)' = {}

Watch ==
    /\ alone' = {c \in Writers :
                    /\ pc'[c] # "idle"
                    /\ IF TurnBegins(c) THEN BeginsAlone(c) ELSE StaysAlone(c)}
    /\ raced' = (/\ rkPc' \in {"wrap", "store"}
                 /\ raced \/ \E c \in Writers : rkKey' \in AtWork(c)')
    /\ kept' = [k \in Keys |->
          IF TurnBeginsOn(k) \/ (RekeyWrote(k) /\ raced)
          THEN 0
          ELSE IF \E c \in alone : BlobStored(c) /\ key(c) = k
          THEN write[CHOOSE c \in alone : BlobStored(c) /\ key(c) = k]
          ELSE kept[k]]
    /\ gone' = {k \in Keys : /\ ~TurnBeginsOn(k)
                             /\ k \in gone \/ \E c \in alone : k \in ToldGone(c)}
    /\ prior' = [c \in Writers |->
          IF TurnBegins(c) THEN Over' ELSE IF pc'[c] = "idle" THEN {} ELSE prior[c]]
    /\ obsolete' = [k \in Keys |-> obsolete[k] \cup
          UNION {prior[c] : c \in {d \in Writers : \/ BlobStored(d) /\ key(d) = k
                                                  \/ k \in ToldGone(d)}}]

HistoryInit ==
    /\ alone = {}
    /\ raced = FALSE
    /\ kept = [k \in Keys |-> 0]
    /\ gone = {}
    /\ prior = [c \in Writers |-> {}]
    /\ obsolete = [k \in Keys |-> {}]

HInit == Init /\ HistoryInit
HNext == Next /\ Watch
HSpec == HInit /\ [][HNext]_hvars

----------------------------------------------------------------------------
Visible(k) == Present(data[k]) /\ Present(header[k])
\* The whole ciphertext of a write lies beside that write's own header, be the
\* header whole or cut short; and it decrypts if the header is whole.
Paired(k, w)   == data[k] = [write |-> w, whole |-> TRUE] /\ header[k].write = w
Readable(k, w) == Paired(k, w) /\ header[k].whole

\* A rekey pass puts headers into a store where a failing put may truncate the
\* object it replaces, and does no more about it than log a warning.
RekeyTears == TornWrites /\ Rekeys

\* put's promise: whatever failures and earlier wreckage came before, a blob
\* that put reported stored in a turn of its own decrypts to that write until
\* the next turn on its key or a raced header write of a rekey pass.  Under
\* RekeyTears the code does not keep this: one failing header write of a pass
\* leaves the blob without a readable header.
KeptReadable == \A k \in Keys : kept[k] # 0 => Readable(k, kept[k])

\* What is left of put's promise under RekeyTears: the ciphertext stays whole,
\* and nothing but its own header, whole or cut short, comes to lie beside it.
KeptPaired == \A k \in Keys : kept[k] # 0 => Paired(k, kept[k])

\* delete's promise: a key reported deleted has no data object left, also when
\* its header could not be deleted or a rekey pass writes that header back.
GoneStaysGone == \A k \in gone : ~Present(data[k])

\* Neither put nor delete ever brings back the ciphertext of a write that a
\* later successful call has replaced, however calls overlap.
ObsoleteNeverBack == \A k \in Keys : data[k].write \notin obsolete[k]

\* docs/encryption.md, "Orphan data blob": when a put stops after the data
\* object is stored and before its header is, exists and get see no blob.
UnpairedDataInvisible ==
    \A k \in Keys :
        /\ \A c \in Writers : k \notin AtWork(c)
        /\ data[k].write # header[k].write
        => ~Visible(k)

\* docs/encryption.md, "Online key rotation": a rekey pass in the background
\* touches only headers and leaves every stored blob readable.
RekeyKeepsBlobs ==
    [][\A k \in Keys : RekeyWrote(k) /\ kept[k] # 0 => Readable(k, kept[k])']_hvars
----------------------------------------------------------------------------
(* Why the promises hold: invariants that HNext preserves by itself.        *)

RekeyHolds == rkPc \in {"wrap", "store"}

\* Nobody is at work on a key that is kept or gone.
SettledInv ==
    /\ \A k \in Keys : kept[k] # 0 =>
          /\ Paired(k, kept[k])
          /\ ~RekeyTears => header[k].whole
          /\ \A c \in Writers : k \notin AtWork(c)
    /\ \A k \in gone :
          ~Present(data[k]) /\ \A c \in Writers : k \notin AtWork(c)

\* A turn that is alone shares its key with nobody, and finds the data object
\* as it left it.
AloneInv ==
    \A c \in alone :
        /\ pc[c] # "idle"
        /\ \A d \in Writers \ {c} : AtWork(c) \cap AtWork(d) = {}
        /\ pc[c] \in {"wait", "header"} =>
              data[key(c)] = [write |-> write[c], whole |-> TRUE]
        /\ pc[c] = "delete" =>
              \A k \in targets[c] \ failed[c] :
                  <<k, "data">> \in pending[c] \/ ~Present(data[k])

HeaderInv ==
    \A c \in Writers : pc[c] = "header" =>
        wrapped[c].write = write[c] /\ wrapped[c].whole

\* The header a rekey pass holds, unless raced, is the one in the store up to
\* the master key it is wrapped with.
RekeyInv ==
    /\ rkPc # "idle" => Rekeys
    /\ raced => RekeyHolds
    /\ RekeyHolds /\ ~raced =>
          /\ \A c \in Writers : rkKey \notin AtWork(c)
          /\ header[rkKey].write = rkHeader.write
          /\ header[rkKey].whole = rkHeader.whole

\* Writes whose turn is over stay over, and no turn can write them again.
ObsoleteInv ==
    /\ \A k \in Keys : obsolete[k] \subseteq Over /\ data[k].write \notin obsolete[k]
    /\ \A c \in Writers : prior[c] \subseteq Over
    /\ \A c \in Writers : pc[c] \in {"wait", "header"} => data[key(c)].write \notin prior[c]
    /\ \A c \in Writers : pc[c] = "delete" =>
          \A k \in targets[c] \ failed[c] :
              <<k, "data">> \in pending[c] \/ data[k].write \notin prior[c]
===============================================================================
