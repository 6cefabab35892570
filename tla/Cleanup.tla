--------------------------------- MODULE Cleanup -------------------------------
(***************************************************************************)
(* BlobCleanup::cleanup (cleanup.rs, cleanup/visitor.rs): one pass over a  *)
(* store that others change meanwhile.  The store lists blobs by pages     *)
(* (one blob on the filesystem); the visitor puts those its predicate      *)
(* dooms into a batch and deletes the batch when it is full, in the middle *)
(* of the listing, and what is left of it at the end.                      *)
(***************************************************************************)
EXTENDS Integers, Sequences, SequencesExt, FiniteSetsExt

CONSTANTS
    Keys,
    BatchSizes,   \* what with_batch_size may be given; 0 is not refused
    PageSize,     \* blobs the store lists at once
    MaxChanges    \* bound: puts and deletes of others during a pass

ASSUME SizesAssumption == BatchSizes \subseteq Nat /\ PageSize \in Nat \ {0} /\ MaxChanges \in Nat
ASSUME KeysAssumption  == IsFiniteSet(Keys)

VARIABLES
    batchSize, \* the one it was given
    blobs,     \* key -> none, or a blob the predicate dooms, or one it spares
    stage,     \* where the pass is
    due,       \* keys there from the beginning that are still to be listed
    seen,      \* keys the listing is past
    page,      \* keys listed and not yet visited, with the blobs listed
    batch,     \* keys to delete
    left,      \* those of them that a delete in progress has not done
    count,     \* deleted_count
    start,     \* history: the blobs when the pass began
    judged,    \* history: keys whose blob the predicate doomed in this pass
    touched,   \* history: keys that others changed during the pass
    changes    \* how many changes that were

pass    == <<stage, due, seen, page, batch, left, count, judged>>
others  == <<start, touched, changes, batchSize>>
vars    == <<blobs, pass, others>>

Present   == {k \in Keys : blobs[k] # "none"}
Flushing  == stage \in {"flushing", "last"}
Running   == Flushing \/ stage = "visiting"

Init ==
    /\ batchSize \in BatchSizes
    /\ blobs \in [Keys -> {"none", "doomed", "spared"}]
    /\ stage = "idle" /\ due = {} /\ seen = {} /\ page = <<>>
    /\ batch = <<>> /\ left = {} /\ count = 0
    /\ start = blobs /\ judged = {} /\ touched = {} /\ changes = 0

CleanupBegins ==
    /\ ~Running
    /\ stage' = "visiting"
    /\ due' = Present /\ start' = blobs
    /\ seen' = {} /\ page' = <<>> /\ batch' = <<>> /\ left' = {} /\ count' = 0
    /\ judged' = {} /\ touched' = {} /\ changes' = 0
    /\ UNCHANGED <<blobs, batchSize>>

----------------------------------------------------------------------------
(* The listing, and the visitor's turn for each blob of it.                 *)

\* Mutant of PageListed: every page is the first one again.
FirstPageListed ==
    /\ stage = "visiting" /\ page = <<>>
    /\ \E keys \in SUBSET Present :
          /\ Cardinality(keys) \in 1 .. PageSize
          /\ page' = [k \in keys |-> blobs[k]]
          /\ due' = due \ keys
          /\ seen' = seen \cup keys
    /\ UNCHANGED <<blobs, stage, batch, left, count, judged, others>>

PageListed ==
    /\ stage = "visiting" /\ page = <<>>
    /\ \E keys \in SUBSET (Present \ seen) :
          /\ Cardinality(keys) \in 1 .. PageSize
          /\ page' = [k \in keys |-> blobs[k]]
          /\ due' = due \ keys
          /\ seen' = seen \cup keys
    /\ UNCHANGED <<blobs, stage, batch, left, count, judged, others>>

Without(k) == [j \in DOMAIN page \ {k} |-> page[j]]

BlobSpared(k) ==
    /\ stage = "visiting" /\ k \in DOMAIN page
    /\ page[k] = "spared"
    /\ page' = Without(k)
    /\ UNCHANGED <<blobs, stage, due, seen, batch, left, count, judged, others>>

\* Mutant of BatchFull: one key too many.
BatchOverfull(b) == Len(b) > batchSize

BatchFull(b) == Len(b) >= batchSize

\* The predicate dooms the blob that was listed; the key joins the batch.
BlobDoomed(k) ==
    /\ stage = "visiting" /\ k \in DOMAIN page
    /\ page[k] = "doomed"
    /\ page' = Without(k)
    /\ batch' = Append(batch, k)
    /\ judged' = judged \cup {k}
    /\ IF BatchFull(batch')
       THEN stage' = "flushing" /\ left' = ToSet(batch')
       ELSE UNCHANGED <<stage, left>>
    /\ UNCHANGED <<blobs, due, seen, count, others>>

\* Mutant of ListingEnds: the last batch is left where it is.
ListingEndsUnflushed ==
    /\ stage = "visiting" /\ page = <<>> /\ due = {}
    /\ stage' = "ok"
    /\ UNCHANGED <<blobs, due, seen, page, batch, left, count, judged, others>>

\* Blobs that came during the pass may be listed or not.
ListingEnds ==
    /\ stage = "visiting" /\ page = <<>> /\ due = {}
    /\ stage' = IF batch = <<>> THEN "ok" ELSE "last"
    /\ left' = ToSet(batch)
    /\ UNCHANGED <<blobs, due, seen, page, batch, count, judged, others>>

\* The listing fails, or another error or a panic ends the pass.
PassFails ==
    /\ Running
    /\ stage' = "failed"
    /\ UNCHANGED <<blobs, due, seen, page, batch, left, count, judged, others>>

----------------------------------------------------------------------------
(* flush: the store deletes key by key; keys that are gone count as deleted.*)
(* If it fails for a key, the pass is over (PassFails).                     *)

KeyDeleted(k) ==
    /\ Flushing /\ k \in left
    /\ blobs' = [blobs EXCEPT ![k] = "none"]
    /\ left' = left \ {k}
    /\ UNCHANGED <<stage, due, seen, page, batch, count, judged, others>>

\* Mutant of FlushReturns: the batch is not cleared.
FlushReturnsUncleared ==
    /\ Flushing /\ left = {}
    /\ count' = count + Len(batch)
    /\ stage' = IF stage = "last" THEN "ok" ELSE "visiting"
    /\ UNCHANGED <<blobs, due, seen, page, batch, left, judged, others>>

FlushReturns ==
    /\ Flushing /\ left = {}
    /\ count' = count + Len(batch)
    /\ batch' = <<>>
    /\ stage' = IF stage = "last" THEN "ok" ELSE "visiting"
    /\ UNCHANGED <<blobs, due, seen, page, left, judged, others>>

----------------------------------------------------------------------------
\* Other callers, and their blobs, come and go.  What goes is not due any more.
OthersChange(k) ==
    /\ Running /\ changes < MaxChanges
    /\ \E blob \in {"none", "doomed", "spared"} : blobs' = [blobs EXCEPT ![k] = blob]
    /\ due' = IF blobs'[k] = "none" THEN due \ {k} ELSE due
    /\ touched' = touched \cup {k}
    /\ changes' = changes + 1
    /\ UNCHANGED <<stage, seen, page, batch, left, count, judged, start, batchSize>>

PassNext ==
    \/ PageListed \/ ListingEnds \/ FlushReturns
    \/ \E k \in Keys : BlobSpared(k) \/ BlobDoomed(k) \/ KeyDeleted(k)

Next == CleanupBegins \/ PassNext \/ PassFails \/ \E k \in Keys : OthersChange(k)

\* The pass is a future that its task polls to the end.
Spec == Init /\ [][Next]_vars /\ WF_vars(PassNext)

----------------------------------------------------------------------------
\* The variables have their types; a key is in one place only on its way from
\* the listing to the deletion; a batch is flushed when it is full, before the
\* visitor takes another blob, which bounds the memory of a pass.
CleanupTypeOK ==
    /\ blobs \in [Keys -> {"none", "doomed", "spared"}]
    /\ stage \in {"idle", "visiting", "flushing", "last", "ok", "failed"}
    /\ seen \subseteq Keys /\ due \subseteq Keys \ seen
    /\ DOMAIN page \subseteq seen \ judged
    /\ \A k \in DOMAIN page : page[k] \in {"doomed", "spared"}
    /\ batch \in Seq(judged) /\ left \subseteq ToSet(batch)
    /\ batchSize \in BatchSizes
    /\ stage = "visiting" /\ batch # <<>> => Len(batch) < batchSize
    /\ count \in Nat /\ judged \subseteq seen
    /\ touched \subseteq Keys /\ changes \in 0 .. MaxChanges

\* Each doomed key is in exactly one batch, and is counted once, when its batch
\* is deleted: deleted_count (types.rs) is the number of keys that were doomed,
\* whatever flushes came in between.
CountHonest ==
    /\ count + Len(batch) = Cardinality(judged)
    /\ stage = "ok" => count = Cardinality(judged)

\* Of the blobs that nobody else touched, a pass that says ok has deleted those
\* the predicate dooms, and no pass ever deletes one it spares.
PassExact ==
    \A k \in Keys \ touched :
        /\ start[k] = "spared" => blobs[k] = "spared"
        /\ stage = "ok" => blobs[k] # "doomed"

\* A pass that meets no error ends, whatever others do to the store meanwhile.
PassEnds == Running ~> ~Running
===============================================================================
