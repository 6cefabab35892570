-------------------------------- MODULE CallLog --------------------------------
(***************************************************************************)
(* What an observer of a BlobStore sees of its calls: who called what, on  *)
(* which keys the call has taken effect, which keys were there all the     *)
(* time for it to find and which at some time since it began, and the      *)
(* answer.  The two backends and their common contract BlobMap are stated  *)
(* over this log.                                                          *)
(***************************************************************************)
EXTENDS Keys

CONSTANT Clients    \* tasks that call the store

VARIABLE calls

\* Answers: "ok" with the keys found, "batch" with those that succeeded, and
\* "missing" (NotFound), "invalid", "misconfigured", "broken" (a reader that
\* fails when it is read), "error" (anything else, and calls cut short).
Answer(is, found) == [is |-> is, found |-> found]
Silent == Answer("none", {})

NoCall == [op |-> "none", keys |-> {}, filter |-> Everything, done |-> {},
           steady |-> {}, ever |-> {}, answer |-> Silent]

Busy(c) == calls[c].op # "none"

\* The call begins while the keys in `present` hold blobs.
Begun(op, keys, filter, present) ==
    LET scope == IF op = "list" THEN {k \in present : Matches(filter, k)}
                                ELSE present \cap keys
    IN  [op |-> op, keys |-> keys, filter |-> filter, done |-> {}, answer |-> Silent,
         steady |-> IF op = "put" THEN {} ELSE scope,
         ever   |-> IF op = "put" THEN {} ELSE scope]

Calls(c, op, keys, filter, present) ==
    ~Busy(c) /\ calls' = [calls EXCEPT ![c] = Begun(op, keys, filter, present)]

Answers(c, a) == calls' = [calls EXCEPT ![c] = [NoCall EXCEPT !.answer = a]]

Refused(c, is) == ~Busy(c) /\ Answers(c, Answer(is, {}))

InScope(call, k) ==
    IF call.op = "list" THEN Matches(call.filter, k)
    ELSE call.op \in {"get", "exists", "delete"} /\ k \in call.keys

\* The calls in progress notice that k holds a blob from now on, or none.
Noticed(call, k, there) ==
    [call EXCEPT !.steady = IF there THEN @ ELSE @ \ {k},
                 !.ever   = IF there /\ InScope(call, k) THEN @ \cup {k} ELSE @]

\* A look at the blobs under `keys` fails, and the call takes them for absent.
Overlooks(c, keys) == calls' = [calls EXCEPT ![c].steady = @ \ keys]

\* Client c changes the blob under k; `did` when its own call is then done
\* with k.  A put of k that another call overtakes counts as done before it.
Touches(c, k, there, did) ==
    calls' = [d \in Clients |->
        LET call == Noticed(calls[d], k, there)
        IN  IF IF d = c THEN did ELSE call.op = "put" /\ k \in call.keys
            THEN [call EXCEPT !.done = @ \cup {k}] ELSE call]
===============================================================================
