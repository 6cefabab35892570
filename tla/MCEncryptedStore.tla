--------------------------- MODULE MCEncryptedStore ---------------------------
(* Instances of EncryptedHistory for TLC. *)
EXTENDS EncryptedHistory, TLC

CONSTANTS w1, w2, k1, k2, bad

\* One key, contended by two writers.
OneKeyBatches == {<<k1>>}

\* A batch of two blobs, one that names a key twice, one with a bad key.
TwoKeyBatches == {<<k1, k2>>, <<k1, k1>>, <<k2>>, <<k1, bad>>}

\* No action reads `reply`; what it says is in the history when it is given.
WithoutReplies == <<objects, epoch, lastWrite, pc, queue, write, wrapped, pending,
                    targets, failed, rekeyVars, history>>

WriterSymmetry == Permutations(Writers)
===============================================================================
