--------------------------- MODULE MCEncryptedReads ---------------------------
(* Instances of EncryptedReads for TLC. *)
EXTENDS EncryptedReads, TLC

CONSTANTS w1, w2, r1, k1, k2, bad

OneKeyBatches == {<<k1>>}
TwoKeyBatches == {<<k1, k2>>, <<k2>>}

Gets     == {"get"}
AllReads == {"get", "exists", "list", "visit", "meta"}

WriterSymmetry == Permutations(Writers)

\* No action reads `reply`; what it says is in the history when it is given.
\* The properties read `rdReply` only in the step that gives it.
WithoutReplies == <<objects, epoch, lastWrite, pc, queue, write, wrapped, pending,
                    targets, failed, rekeyVars, history, rdOp, rdAt, rdKey, rdData,
                    rdHeader, rdUnseen, rdTodo, rdFound, readHistory>>
===============================================================================
