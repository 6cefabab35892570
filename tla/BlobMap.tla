-------------------------------- MODULE BlobMap --------------------------------
(***************************************************************************)
(* What every backend and every layer promises its callers (the BlobStore  *)
(* trait of blob_store.rs): a map from keys to blobs that changes only     *)
(* under the keys of calls in progress, and answers that are true.         *)
(* A put may leave a torn blob, and an error says nothing.                 *)
(* Two exceptions are what fs/store.rs makes of it.  A look that fails may *)
(* count as one that finds nothing.  And the listing for a prefix with an  *)
(* empty name in it, "a//", shows names that are no keys, such as "a//b".  *)
(***************************************************************************)
EXTENDS CallLog

CONSTANTS
    Keys, NoBlob, Torn,
    Overlooking,   \* looks may fail unnoticed
    Base           \* what the layers put before the prefix that a filter hints at

\* Key -> no blob, a torn one, or the whole blob some client's put brought.
VARIABLE blobs

Blobs   == {NoBlob, Torn} \cup Clients
Present == {k \in Keys : blobs[k] # NoBlob}

Init ==
    /\ blobs = [k \in Keys |-> NoBlob]
    /\ calls = [c \in Clients |-> NoCall]

Begin(c) ==
    /\ LET call == calls'[c]
       IN  /\ Calls(c, call.op, call.keys, call.filter, Present)
           /\ call.op \in {"put", "delete", "get", "exists", "list"}
    /\ UNCHANGED blobs

\* An invalid key or a lost backend refuses the whole call.
Refuse(c) ==
    /\ Refused(c, calls'[c].answer.is)
    /\ calls'[c].answer.is \in {"invalid", "misconfigured", "error"}
    /\ UNCHANGED blobs

Stored(c, k) ==
    /\ calls[c].op = "put" /\ k \in calls[c].keys
    /\ \E blob \in {Torn, c} : blobs' = [blobs EXCEPT ![k] = blob]
    /\ Touches(c, k, TRUE, blobs'[k] = c)

Removed(c, k) ==
    /\ calls[c].op = "delete" /\ k \in calls[c].keys
    /\ blobs' = [blobs EXCEPT ![k] = NoBlob]
    /\ Touches(c, k, FALSE, TRUE)

\* Whoever keeps the backend's files removes them all, with what puts in
\* progress have stored by then.
Lose ==
    /\ blobs' = [k \in Keys |-> NoBlob]
    /\ calls' = [c \in Clients |-> [calls[c] EXCEPT !.steady = {}, !.done = calls'[c].done]]
    /\ \A c \in Clients :
          calls'[c].done \subseteq calls[c].done \cup
              (IF calls[c].op = "put" THEN calls[c].keys ELSE {})

\* A reader is not told that a look of its call has failed: from now on the
\* call may miss what lies there.
Overlook(c) ==
    /\ Overlooking
    /\ calls[c].op \in {"get", "exists", "list"}
    /\ calls'[c].steady \subseteq calls[c].steady
    /\ calls' = [calls EXCEPT ![c].steady = calls'[c].steady]
    /\ UNCHANGED blobs

\* A name that is no key, in the listing for a prefix that is part of none.
Invented(call, k) ==
    call.op = "list" /\ k \notin Keys /\ Misspelt(Base \o PrefixHint(call.filter))

\* The truth of an answer: a put or delete that says ok has taken effect on
\* every key, a batch error names only keys that are done; what a reader finds
\* was there at some time of its call, and what it misses was not there all
\* the time to be found.  An error says nothing, nor does a call cut short.
Truthful(call, a) ==
    CASE a.is = "ok" /\ call.op \in {"put", "delete"} -> call.done = call.keys
      [] a.is = "ok" /\ call.op \in {"get", "exists", "list"} ->
             /\ call.steady \subseteq a.found
             /\ \A k \in a.found : k \in call.ever \/ Invented(call, k)
      [] a.is = "batch" -> call.op = "delete" /\ a.found \subseteq call.done
      [] a.is = "missing" -> call.op = "get" /\ call.steady = {}
      [] OTHER -> a.is \in {"none", "error", "broken", "misconfigured"}

Return(c) ==
    /\ Busy(c)
    /\ Truthful(calls[c], calls'[c].answer)
    /\ Answers(c, calls'[c].answer)
    /\ UNCHANGED blobs

Next ==
    \/ Lose
    \/ \E c \in Clients : Begin(c) \/ Refuse(c) \/ Overlook(c) \/ Return(c)
    \/ \E c \in Clients, k \in Keys : Stored(c, k) \/ Removed(c, k)

Spec == Init /\ [][Next]_<<blobs, calls>>
===============================================================================
