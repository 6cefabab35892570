------------------------------ MODULE CleanupProofs ----------------------------
(***************************************************************************)
(* The accounting of a cleanup pass and what it deletes, for any keys,     *)
(* batch sizes and page sizes, and however many changes of others.         *)
(***************************************************************************)
EXTENDS Cleanup, FiniteSetTheorems, TLAPS

\* Of a blob that others leave alone the pass knows what it is: it is judged
\* as it was when the pass began, and is there until the pass deletes it.
KnownInv ==
    \A k \in Keys \ touched :
        /\ k \in DOMAIN page => page[k] = start[k]
        /\ k \in judged => start[k] = "doomed"
        /\ blobs[k] # start[k] => k \in judged

\* A doomed blob is still to be listed, or to be visited, or in the batch, and
\* then among the keys that the delete in progress has not done.
AwaitedInv ==
    stage \notin {"idle", "failed"} =>
        \A k \in Keys \ touched :
            blobs[k] = "doomed" =>
                /\ k \in due \/ k \in DOMAIN page \/ k \in ToSet(batch)
                /\ Flushing /\ k \in ToSet(batch) => k \in left

\* What is behind a pass that comes to its end.
EndInv ==
    /\ stage \in {"last", "ok"} => due = {} /\ page = <<>>
    /\ stage = "ok" => batch = <<>>
    /\ stage = "idle" => judged = {} /\ touched = {}
    /\ start \in [Keys -> {"none", "doomed", "spared"}]

CleanupInv ==
    /\ CleanupTypeOK
    /\ count + Len(batch) = Cardinality(judged)
    /\ KnownInv
    /\ AwaitedInv
    /\ EndInv

LEMMA CleanupInit == Init => CleanupInv
<1> SUFFICES ASSUME Init PROVE CleanupInv
  OBVIOUS
<1>1. CleanupTypeOK
  BY SizesAssumption DEF Init, CleanupTypeOK, ToSet
<1>2. count + Len(batch) = Cardinality(judged)
  BY FS_EmptySet DEF Init
<1>3. KnownInv /\ AwaitedInv /\ EndInv
  BY DEF Init, KnownInv, AwaitedInv, EndInv
<1>4. QED
  BY <1>1, <1>2, <1>3 DEF CleanupInv

\* A key joins the batch at its end.
LEMMA Appended ==
    ASSUME NEW S, NEW b \in Seq(S), NEW k
    PROVE  /\ Append(b, k) \in Seq(S \cup {k})
           /\ Len(Append(b, k)) = Len(b) + 1 /\ Len(b) \in Nat
           /\ ToSet(Append(b, k)) = ToSet(b) \cup {k}
           /\ Append(b, k) # <<>>
<1>1. b \in Seq(S \cup {k}) /\ Len(b) \in Nat
  OBVIOUS
<1>2. ToSet(Append(b, k)) = ToSet(b) \cup {k}
  <2>1. DOMAIN b = 1 .. Len(b) /\ DOMAIN Append(b, k) = 1 .. Len(b) + 1
    OBVIOUS
  <2>2. \A i \in 1 .. Len(b) : Append(b, k)[i] = b[i]
    OBVIOUS
  <2>3. Append(b, k)[Len(b) + 1] = k
    OBVIOUS
  <2>4. \A i : i \in 1 .. Len(b) + 1 <=> i \in 1 .. Len(b) \/ i = Len(b) + 1
    BY <1>1
  <2>5. QED
    BY <2>1, <2>2, <2>3, <2>4 DEF ToSet
<1>3. QED
  BY <1>1, <1>2

\* The variables keep their types through every step.
LEMMA CleanupTypes == CleanupInv /\ [Next]_vars => CleanupTypeOK'
<1> SUFFICES ASSUME CleanupInv, [Next]_vars PROVE CleanupTypeOK'
  OBVIOUS
<1> USE SizesAssumption DEF CleanupInv, CleanupTypeOK, others
<1>1. CASE CleanupBegins
  BY <1>1 DEF CleanupBegins, Present, ToSet
<1>2. CASE PageListed
  <2>1. PICK keys \in SUBSET (Present \ seen) :
           page' = [k \in keys |-> blobs[k]] /\ due' = due \ keys /\ seen' = seen \cup keys
    BY <1>2 DEF PageListed
  <2>2. keys \subseteq Keys /\ keys \cap judged = {}
        /\ \A k \in keys : blobs[k] \in {"doomed", "spared"}
    BY DEF Present
  <2>3. DOMAIN page' = keys /\ \A k \in keys : page'[k] = blobs[k]
    BY <2>1
  <2>4. QED
    BY <1>2, <2>1, <2>2, <2>3 DEF PageListed
<1>3. ASSUME NEW k \in Keys, BlobSpared(k) \/ BlobDoomed(k) PROVE CleanupTypeOK'
  <2>1. DOMAIN page' = DOMAIN page \ {k} /\ \A j \in DOMAIN page' : page'[j] = page[j]
    BY <1>3 DEF BlobSpared, BlobDoomed, Without
  <2>2. CASE BlobSpared(k)
    BY <2>1, <2>2 DEF BlobSpared
  <2>3. CASE BlobDoomed(k)
    <3>1. /\ batch' \in Seq(judged') /\ Len(batch') \in Nat
          /\ ToSet(batch') = ToSet(batch) \cup {k}
      BY <2>3, Appended DEF BlobDoomed
    <3>2. stage' = "visiting" => Len(batch') < batchSize'
      BY <2>3, <3>1 DEF BlobDoomed, BatchFull
    <3>3. stage' \in {"visiting", "flushing"} /\ left' \subseteq ToSet(batch')
      BY <2>3, <3>1 DEF BlobDoomed
    <3>4. QED
      BY <2>1, <2>3, <3>1, <3>2, <3>3 DEF BlobDoomed
  <2>4. QED
    BY <1>3, <2>2, <2>3
<1>4. CASE ListingEnds \/ PassFails
  BY <1>4 DEF ListingEnds, PassFails
<1>5. CASE \E k \in Keys : KeyDeleted(k)
  BY <1>5 DEF KeyDeleted
<1>6. CASE FlushReturns
  BY <1>6 DEF FlushReturns, ToSet
<1>7. CASE \E k \in Keys : OthersChange(k)
  BY <1>7 DEF OthersChange, Running, Flushing
<1>8. CASE UNCHANGED vars
  BY <1>8 DEF vars, pass
<1>9. QED
  BY <1>1, <1>2, <1>3, <1>4, <1>5, <1>6, <1>7, <1>8 DEF Next, PassNext

\* What is counted and what is still in the batch is what was judged.
LEMMA CleanupCounts ==
    CleanupInv /\ [Next]_vars => count' + Len(batch') = Cardinality(judged')
<1> SUFFICES ASSUME CleanupInv, [Next]_vars
             PROVE  count' + Len(batch') = Cardinality(judged')
  OBVIOUS
<1> USE DEF CleanupInv, others
<1>1. /\ count \in Nat /\ batch \in Seq(judged) /\ Len(batch) \in Nat
      /\ judged \subseteq Keys /\ DOMAIN page \cap judged = {}
  BY DEF CleanupTypeOK
<1>2. IsFiniteSet(judged)
  BY <1>1, KeysAssumption, FS_Subset
<1>3. CASE CleanupBegins
  BY <1>3, FS_EmptySet DEF CleanupBegins
<1>4. ASSUME NEW k \in Keys, BlobDoomed(k)
      PROVE  count' + Len(batch') = Cardinality(judged')
  <2>1. Cardinality(judged') = Cardinality(judged) + 1
    BY <1>1, <1>2, <1>4, FS_AddElement DEF BlobDoomed
  <2>2. Len(batch') = Len(batch) + 1 /\ count' = count
    BY <1>1, <1>4 DEF BlobDoomed
  <2>3. QED
    BY <1>1, <2>1, <2>2
<1>5. CASE FlushReturns
  <2>1. count' = count + Len(batch) /\ Len(batch') = 0 /\ judged' = judged
    BY <1>5 DEF FlushReturns
  <2>2. QED
    BY <1>1, <2>1
<1>6. CASE PageListed \/ ListingEnds \/ PassFails \/ UNCHANGED vars
  BY <1>6 DEF PageListed, ListingEnds, PassFails, vars, pass
<1>7. CASE \E k \in Keys : BlobSpared(k) \/ KeyDeleted(k) \/ OthersChange(k)
  BY <1>7 DEF BlobSpared, KeyDeleted, OthersChange
<1>8. QED
  BY <1>3, <1>4, <1>5, <1>6, <1>7 DEF Next, PassNext

LEMMA CleanupKnows == CleanupInv /\ [Next]_vars => KnownInv'
<1> SUFFICES ASSUME CleanupInv, [Next]_vars PROVE KnownInv'
  OBVIOUS
<1> USE DEF CleanupInv, KnownInv, others
<1>1. CASE CleanupBegins
  BY <1>1 DEF CleanupBegins
<1>2. CASE PageListed
  <2>1. PICK keys \in SUBSET (Present \ seen) :
           page' = [k \in keys |-> blobs[k]] /\ seen' = seen \cup keys
    BY <1>2 DEF PageListed
  <2>2. \A k \in keys : k \notin judged /\ page'[k] = blobs[k]
    BY <2>1 DEF CleanupTypeOK
  <2>3. DOMAIN page' = keys
    BY <2>1
  <2>4. QED
    BY <1>2, <2>2, <2>3 DEF PageListed
<1>3. ASSUME NEW k \in Keys, BlobSpared(k) \/ BlobDoomed(k) PROVE KnownInv'
  <2>1. DOMAIN page' = DOMAIN page \ {k} /\ \A j \in DOMAIN page' : page'[j] = page[j]
    BY <1>3 DEF BlobSpared, BlobDoomed, Without
  <2>2. QED
    BY <1>3, <2>1 DEF BlobSpared, BlobDoomed
<1>4. CASE ListingEnds \/ PassFails \/ FlushReturns \/ UNCHANGED vars
  BY <1>4 DEF ListingEnds, PassFails, FlushReturns, vars, pass
<1>5. ASSUME NEW k \in Keys, KeyDeleted(k) PROVE KnownInv'
  <2>1. k \in judged
    BY <1>5 DEF KeyDeleted, CleanupTypeOK, ToSet
  <2>2. \A j \in Keys \ {k} : blobs'[j] = blobs[j]
    BY <1>5 DEF KeyDeleted, CleanupTypeOK
  <2>3. QED
    BY <1>5, <2>1, <2>2 DEF KeyDeleted
<1>6. ASSUME NEW k \in Keys, OthersChange(k) PROVE KnownInv'
  <2>1. \A j \in Keys \ {k} : blobs'[j] = blobs[j]
    BY <1>6 DEF OthersChange, CleanupTypeOK
  <2>2. QED
    BY <1>6, <2>1 DEF OthersChange
<1>7. QED
  BY <1>1, <1>2, <1>3, <1>4, <1>5, <1>6 DEF Next, PassNext

LEMMA CleanupAwaits == CleanupInv /\ [Next]_vars => AwaitedInv'
<1> SUFFICES ASSUME CleanupInv, [Next]_vars, stage' \notin {"idle", "failed"},
                    NEW k \in Keys \ touched', blobs'[k] = "doomed"
             PROVE  /\ k \in due' \/ k \in DOMAIN page' \/ k \in ToSet(batch')
                    /\ Flushing' /\ k \in ToSet(batch') => k \in left'
  BY DEF AwaitedInv
<1> USE DEF CleanupInv, AwaitedInv, others, Flushing
<1>1. CASE CleanupBegins
  BY <1>1 DEF CleanupBegins, Present
<1>2. CASE PageListed
  BY <1>2 DEF PageListed
<1>3. ASSUME NEW j \in Keys, BlobSpared(j)
      PROVE  k \in due' \/ k \in DOMAIN page' \/ k \in ToSet(batch')
  <2>1. DOMAIN page' = DOMAIN page \ {j}
    BY <1>3 DEF BlobSpared, Without
  <2>2. blobs[j] = "doomed" => j \in touched \/ j \in judged
    BY <1>3 DEF BlobSpared, KnownInv
  <2>3. j \notin judged
    BY <1>3 DEF BlobSpared, CleanupTypeOK
  <2>4. QED
    BY <1>3, <2>1, <2>2, <2>3 DEF BlobSpared
<1>4. ASSUME NEW j \in Keys, BlobDoomed(j)
      PROVE  /\ k \in due' \/ k \in DOMAIN page' \/ k \in ToSet(batch')
             /\ Flushing' /\ k \in ToSet(batch') => k \in left'
  <2>1. DOMAIN page' = DOMAIN page \ {j}
    BY <1>4 DEF BlobDoomed, Without
  <2>2. ToSet(batch') = ToSet(batch) \cup {j}
    BY <1>4, Appended DEF BlobDoomed, CleanupTypeOK
  <2>3. QED
    BY <1>4, <2>1, <2>2 DEF BlobDoomed
<1>5. CASE ListingEnds
  BY <1>5 DEF ListingEnds
<1>6. ASSUME NEW j \in Keys, KeyDeleted(j)
      PROVE  /\ k \in due' \/ k \in DOMAIN page' \/ k \in ToSet(batch')
             /\ Flushing' /\ k \in ToSet(batch') => k \in left'
  BY <1>6 DEF KeyDeleted, CleanupTypeOK
<1>7. CASE FlushReturns
  BY <1>7 DEF FlushReturns, ToSet
<1>8. ASSUME NEW j \in Keys, OthersChange(j)
      PROVE  /\ k \in due' \/ k \in DOMAIN page' \/ k \in ToSet(batch')
             /\ Flushing' /\ k \in ToSet(batch') => k \in left'
  BY <1>8 DEF OthersChange, CleanupTypeOK
<1>9. CASE UNCHANGED vars
  BY <1>9 DEF vars, pass
<1>10. CASE PassFails
  BY <1>10 DEF PassFails
<1>11. ASSUME NEW j \in Keys, BlobSpared(j) PROVE ~Flushing'
  BY <1>11 DEF BlobSpared
<1>12. QED
  BY <1>1, <1>2, <1>3, <1>4, <1>5, <1>6, <1>7, <1>8, <1>9, <1>10, <1>11 DEF Next, PassNext

LEMMA CleanupEnds == CleanupInv /\ [Next]_vars => EndInv'
<1> SUFFICES ASSUME CleanupInv, [Next]_vars PROVE EndInv'
  OBVIOUS
<1> USE DEF CleanupInv, EndInv, others
<1>1. CASE CleanupBegins
  BY <1>1 DEF CleanupBegins, CleanupTypeOK
<1>2. CASE PageListed \/ ListingEnds \/ PassFails \/ FlushReturns
  BY <1>2 DEF PageListed, ListingEnds, PassFails, FlushReturns, Flushing
<1>3. CASE \E k \in Keys : BlobSpared(k) \/ BlobDoomed(k) \/ KeyDeleted(k)
  BY <1>3 DEF BlobSpared, BlobDoomed, KeyDeleted, Flushing
<1>4. CASE \E k \in Keys : OthersChange(k)
  BY <1>4 DEF OthersChange, Running, Flushing
<1>5. CASE UNCHANGED vars
  BY <1>5 DEF vars, pass
<1>6. QED
  BY <1>1, <1>2, <1>3, <1>4, <1>5 DEF Next, PassNext

LEMMA CleanupInvariant == Spec => []CleanupInv
<1>1. CleanupInv /\ [Next]_vars => CleanupInv'
  BY CleanupTypes, CleanupCounts, CleanupKnows, CleanupAwaits, CleanupEnds DEF CleanupInv
<1>2. QED
  BY <1>1, CleanupInit, PTL DEF Spec

----------------------------------------------------------------------------
\* A batch is never larger than with_batch_size says, or one key if that is 0.
THEOREM CleanupTypeCorrect == Spec => []CleanupTypeOK
BY CleanupInvariant, PTL DEF CleanupInv

\* The count that cleanup returns (deleted_count) is that of the keys doomed.
THEOREM CountsAreHonest == Spec => []CountHonest
<1>1. CleanupInv => CountHonest
  BY DEF CleanupInv, CleanupTypeOK, EndInv, CountHonest
<1>2. QED
  BY <1>1, CleanupInvariant, PTL

\* A pass that says ok has deleted every blob that its predicate dooms and that
\* nobody else touched, and no pass deletes one that it spares.
THEOREM PassesAreExact == Spec => []PassExact
<1>1. CleanupInv => PassExact
  BY DEF CleanupInv, CleanupTypeOK, KnownInv, AwaitedInv, EndInv, PassExact, ToSet
<1>2. QED
  BY <1>1, CleanupInvariant, PTL
===============================================================================
