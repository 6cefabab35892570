------------------------------ MODULE CallLogProofs ----------------------------
(***************************************************************************)
(* The log of calls: what every step of a backend keeps of it, for any     *)
(* clients and keys.  A step begins a call, touches a key, answers a call, *)
(* or loses all the blobs.  And how the tenants of the prefix layer see it *)
(* by their own names: a step of the contract for all the keys is one of   *)
(* the contract for theirs.                                                *)
(***************************************************************************)
EXTENDS Backends, SequenceTheorems, TLAPS

IsCall(call) ==
    {"op", "keys", "filter", "done", "steady", "ever", "answer"} \subseteq DOMAIN call

IsAnswer(a) == {"is", "found"} \subseteq DOMAIN a

\* The keys that hold blobs and concern the call.
Scope(call, present) == {k \in present : InScope(call, k)}

\* What a call found all the time is there, and what is there it found once.
CallOk(call, present) ==
    /\ IsCall(call)
    /\ call.op \in {"none", "put", "delete", "get", "exists", "list"}
    /\ call.done \subseteq call.keys /\ call.keys \subseteq FsKeys
    /\ call.steady \subseteq Scope(call, present)
    /\ Scope(call, present) \subseteq call.ever
    /\ call.ever \subseteq FsKeys

LogOk(present) ==
    /\ calls = [c \in Clients |-> calls[c]]
    /\ \A c \in Clients : CallOk(calls[c], present)

\* The same call, of which perhaps more is done and less is certain.
Later(call, new) ==
    /\ new.op = call.op /\ new.keys = call.keys /\ new.filter = call.filter
    /\ call.done \subseteq new.done
    /\ new.steady \subseteq call.steady
    /\ call.ever \subseteq new.ever

LEMMA NoCallOk == ASSUME NEW present, NEW a PROVE CallOk([NoCall EXCEPT !.answer = a], present)
BY DEF NoCall, CallOk, IsCall, Scope, InScope

LEMMA Beginning ==
    ASSUME NEW present, present \subseteq FsKeys, LogOk(present),
           NEW c \in Clients, NEW op \in {"put", "delete", "get", "exists", "list"},
           NEW keys, keys \subseteq FsKeys, NEW filter, Calls(c, op, keys, filter, present)
    PROVE  /\ calls' = [d \in Clients |-> calls'[d]]
           /\ \A d \in Clients : CallOk(calls'[d], present)
           /\ calls'[c] = Begun(op, keys, filter, present)
           /\ \A d \in Clients \ {c} : calls'[d] = calls[d]
<1> DEFINE begun == Begun(op, keys, filter, present)
<1>1. /\ calls' = [d \in Clients |-> IF d = c THEN begun ELSE calls[d]]
      /\ calls'[c] = begun
      /\ \A d \in Clients \ {c} : calls'[d] = calls[d]
  BY Zenon DEF LogOk, Calls
<1>2. CallOk(begun, present)
  <2>1. CASE op = "list"
    BY <2>1 DEF Begun, CallOk, IsCall, Scope, InScope
  <2>2. CASE op # "list"
    BY <2>2 DEF Begun, CallOk, IsCall, Scope, InScope
  <2>3. QED
    BY <2>1, <2>2
<1>3. \A d \in Clients : CallOk(calls'[d], present)
  BY <1>1, <1>2 DEF LogOk
<1>4. QED
  BY <1>1, <1>3 DEF LogOk

LEMMA Answering ==
    ASSUME NEW present, LogOk(present), NEW c \in Clients, NEW a, Answers(c, a)
    PROVE  /\ calls' = [d \in Clients |-> calls'[d]]
           /\ \A d \in Clients : CallOk(calls'[d], present)
           /\ calls'[c] = [NoCall EXCEPT !.answer = a]
           /\ calls'[c].answer = a
           /\ \A d \in Clients \ {c} : calls'[d] = calls[d]
<1> DEFINE none == [NoCall EXCEPT !.answer = a]
<1>1. none.answer = a
  BY DEF NoCall
<1> HIDE DEF none
<1>2. /\ calls' = [d \in Clients |-> IF d = c THEN none ELSE calls[d]]
      /\ calls'[c] = none
      /\ \A d \in Clients \ {c} : calls'[d] = calls[d]
  BY Zenon DEF LogOk, Answers, none
<1>3. \A d \in Clients : CallOk(calls'[d], present)
  BY <1>2, NoCallOk DEF LogOk, none
<1>4. QED
  BY <1>1, <1>2, <1>3 DEF LogOk, none

LEMMA Noticing ==
    ASSUME NEW call, NEW present, CallOk(call, present), NEW k \in FsKeys, NEW there \in BOOLEAN
    PROVE  /\ CallOk(Noticed(call, k, there), IF there THEN present \cup {k} ELSE present \ {k})
           /\ Later(call, Noticed(call, k, there))
           /\ Noticed(call, k, there).done = call.done
           /\ Noticed(call, k, there).answer = call.answer
<1> DEFINE new == Noticed(call, k, there)
<1>1. /\ IsCall(new) /\ new.op = call.op /\ new.keys = call.keys /\ new.filter = call.filter
      /\ new.done = call.done /\ new.answer = call.answer
      /\ new.steady = IF there THEN call.steady ELSE call.steady \ {k}
      /\ new.ever = IF there /\ InScope(call, k) THEN call.ever \cup {k} ELSE call.ever
  BY DEF Noticed, CallOk, IsCall
<1>2. \A x : InScope(new, x) <=> InScope(call, x)
  BY <1>1 DEF InScope
<1> HIDE DEF new
<1>3. Later(call, new)
  BY <1>1 DEF Later
<1>4. CallOk(new, IF there THEN present \cup {k} ELSE present \ {k})
  BY <1>1, <1>2 DEF CallOk, Scope
<1>5. QED
  BY <1>1, <1>3, <1>4 DEF new

LEMMA Touching ==
    ASSUME NEW present, LogOk(present), NEW c \in Clients, NEW k \in FsKeys,
           NEW there \in BOOLEAN, NEW did \in BOOLEAN, Touches(c, k, there, did),
           did => calls[c].op \in {"put", "delete"} /\ k \in calls[c].keys
    PROVE  /\ calls' = [d \in Clients |-> calls'[d]]
           /\ \A d \in Clients :
                 /\ CallOk(calls'[d], IF there THEN present \cup {k} ELSE present \ {k})
                 /\ Later(calls[d], calls'[d])
                 /\ d # c /\ calls[d].op = "put" /\ k \in calls[d].keys => k \in calls'[d].done
           /\ did => k \in calls'[c].done
           /\ calls'[c].done \subseteq calls[c].done \cup {k}
<1> DEFINE now == IF there THEN present \cup {k} ELSE present \ {k}
           new(d) == Noticed(calls[d], k, there)
           helped(d) == IF d = c THEN did ELSE new(d).op = "put" /\ k \in new(d).keys
<1>1. calls' = [d \in Clients |->
                   IF helped(d) THEN [new(d) EXCEPT !.done = @ \cup {k}] ELSE new(d)]
  BY DEF Touches
<1>2. ASSUME NEW d \in Clients
      PROVE  /\ CallOk(new(d), now) /\ Later(calls[d], new(d))
             /\ new(d).done = calls[d].done
             /\ helped(d) => calls[d].op \in {"put", "delete"} /\ k \in calls[d].keys
             /\ d # c /\ calls[d].op = "put" /\ k \in calls[d].keys => helped(d)
             /\ d = c => (helped(d) <=> did)
  <2>1. CallOk(calls[d], present)
    BY DEF LogOk
  <2>2. CallOk(new(d), now) /\ Later(calls[d], new(d)) /\ new(d).done = calls[d].done
    BY <2>1, Noticing
  <2>3. QED
    BY <2>2 DEF Later
<1> HIDE DEF new, helped, now
<1>3. ASSUME NEW d \in Clients
      PROVE  /\ CallOk(calls'[d], now) /\ Later(calls[d], calls'[d])
             /\ calls'[d].done = IF helped(d) THEN calls[d].done \cup {k} ELSE calls[d].done
  <2>1. CASE helped(d)
    <3> DEFINE more == [new(d) EXCEPT !.done = @ \cup {k}]
    <3>1. calls'[d] = more
      BY <1>1, <2>1
    <3>2. /\ IsCall(more) /\ more.op = new(d).op /\ more.keys = new(d).keys
          /\ more.filter = new(d).filter /\ more.steady = new(d).steady
          /\ more.ever = new(d).ever /\ more.done = new(d).done \cup {k}
      BY <1>2 DEF CallOk, IsCall
    <3>3. \A x : InScope(more, x) <=> InScope(new(d), x)
      BY <3>2 DEF InScope
    <3> HIDE DEF more
    <3>4. CallOk(more, now)
      BY <1>2, <2>1, <3>2, <3>3 DEF CallOk, Scope, Later
    <3>5. Later(calls[d], more)
      BY <1>2, <3>2 DEF Later
    <3>6. QED
      BY <1>2, <2>1, <3>1, <3>2, <3>4, <3>5
  <2>2. CASE ~helped(d)
    BY <1>1, <1>2, <2>2
  <2>3. QED
    BY <2>1, <2>2
<1>4. calls' = [d \in Clients |-> calls'[d]]
  BY <1>1
<1>5. QED
  BY <1>2, <1>3, <1>4 DEF now

\* A put that touches a key, and is done with it or not.
LEMMA Storing ==
    ASSUME NEW present, LogOk(present), NEW c \in Clients, NEW k \in FsKeys,
           NEW whole \in BOOLEAN, Touches(c, k, TRUE, whole),
           calls[c].op = "put", k \in calls[c].keys
    PROVE  /\ calls' = [d \in Clients |-> calls'[d]]
           /\ \A d \in Clients :
                 /\ CallOk(calls'[d], present \cup {k})
                 /\ Later(calls[d], calls'[d])
                 /\ d # c /\ calls[d].op = "put" /\ k \in calls[d].keys => k \in calls'[d].done
           /\ whole => k \in calls'[c].done
<1> DEFINE kept(done) ==
        /\ calls' = [d \in Clients |-> calls'[d]]
        /\ \A d \in Clients : CallOk(calls'[d], present \cup {k}) /\ Later(calls[d], calls'[d])
        /\ \A d \in Clients :
              d # c /\ calls[d].op = "put" /\ k \in calls[d].keys => k \in calls'[d].done
        /\ done => k \in calls'[c].done
<1>1. CASE whole
  <2>1. Touches(c, k, TRUE, TRUE) /\ calls[c].op \in {"put", "delete"}
    <3>1. whole = TRUE
      BY <1>1
    <3>2. QED
      BY <3>1
  <2>2. kept(TRUE)
    BY <2>1, Touching, Zenon
  <2>3. QED
    BY <2>2
<1>2. CASE ~whole
  <2>1. Touches(c, k, TRUE, FALSE)
    <3>1. whole = FALSE
      BY <1>2
    <3>2. QED
      BY <3>1
  <2>2. kept(FALSE)
    BY <2>1, Touching, Zenon
  <2>3. QED
    BY <1>2, <2>2
<1>3. QED
  BY <1>1, <1>2

\* A delete that is done with a key.
LEMMA Removing ==
    ASSUME NEW present, LogOk(present), NEW c \in Clients, NEW k \in FsKeys,
           Touches(c, k, FALSE, TRUE), calls[c].op = "delete", k \in calls[c].keys
    PROVE  /\ calls' = [d \in Clients |-> calls'[d]]
           /\ \A d \in Clients :
                 /\ CallOk(calls'[d], present \ {k})
                 /\ Later(calls[d], calls'[d])
                 /\ calls[d].op = "put" /\ k \in calls[d].keys => k \in calls'[d].done
           /\ k \in calls'[c].done
<1>1. calls[c].op \in {"put", "delete"} /\ calls[c].op # "put"
  OBVIOUS
<1>2. /\ calls' = [d \in Clients |-> calls'[d]]
      /\ \A d \in Clients : CallOk(calls'[d], present \ {k}) /\ Later(calls[d], calls'[d])
      /\ \A d \in Clients :
            d # c /\ calls[d].op = "put" /\ k \in calls[d].keys => k \in calls'[d].done
      /\ k \in calls'[c].done
  BY <1>1, Touching, Zenon
<1>3. QED
  BY <1>1, <1>2

LEMMA LaterItself == ASSUME NEW call PROVE Later(call, call)
BY DEF Later
----------------------------------------------------------------------------
(* The contract of the backends has the same log, and its steps.            *)

LEMMA SameMatches == \A f, t : AllKeys!Matches(f, t) = Matches(f, t)
<1>1. \A s, t : AllKeys!IsPrefix(s, t) = IsPrefix(s, t)
  BY DEF AllKeys!IsPrefix, IsPrefix
<1>2. \A s, t : AllKeys!IsSuffix(s, t) = IsSuffix(s, t)
  BY <1>1 DEF AllKeys!IsSuffix, IsSuffix, AllKeys!Reverse, Reverse
<1>3. QED
  BY <1>1, <1>2, Zenon DEF AllKeys!Matches, Matches

LEMMA SameCalls ==
    \A c, op, keys, filter, present :
        AllKeys!Calls(c, op, keys, filter, present) = Calls(c, op, keys, filter, present)
<1>1. ASSUME NEW op, NEW keys, NEW filter, NEW present
      PROVE  AllKeys!Begun(op, keys, filter, present) = Begun(op, keys, filter, present)
  <2>1. {k \in present : AllKeys!Matches(filter, k)} = {k \in present : Matches(filter, k)}
    BY SameMatches, Zenon
  <2>2. AllKeys!Silent = Silent
    BY DEF AllKeys!Silent, Silent, AllKeys!Answer, Answer
  <2>3. QED
    BY <2>1, <2>2 DEF AllKeys!Begun, Begun
<1>2. QED
  BY <1>1 DEF AllKeys!Calls, Calls, AllKeys!Busy, Busy

LEMMA SameAnswers == \A c, a : AllKeys!Answers(c, a) = Answers(c, a)
BY DEF AllKeys!Answers, Answers, AllKeys!NoCall, NoCall, AllKeys!Silent, Silent,
       AllKeys!Answer, Answer, AllKeys!Everything, Everything,
       AllKeys!PrefixFilter, PrefixFilter

LEMMA SameTouches ==
    ASSUME NEW c, NEW k, NEW there, NEW did
    PROVE  AllKeys!Touches(c, k, there, did) = Touches(c, k, there, did)
<1>1. \A call : AllKeys!InScope(call, k) = InScope(call, k)
  BY SameMatches DEF AllKeys!InScope, InScope
<1>2. \A d \in Clients : AllKeys!Noticed(calls[d], k, there) = Noticed(calls[d], k, there)
  BY <1>1 DEF AllKeys!Noticed, Noticed
<1>3. \A d \in Clients :
          (LET call == AllKeys!Noticed(calls[d], k, there)
           IN  IF IF d = c THEN did ELSE call.op = "put" /\ k \in call.keys
               THEN [call EXCEPT !.done = @ \cup {k}] ELSE call)
        = (LET call == Noticed(calls[d], k, there)
           IN  IF IF d = c THEN did ELSE call.op = "put" /\ k \in call.keys
               THEN [call EXCEPT !.done = @ \cup {k}] ELSE call)
  BY <1>2, Zenon
<1>4. QED
  BY <1>3, Zenon DEF AllKeys!Touches, Touches

\* The steps of the contract: a call begins or is refused; or, while calls are
\* served, a blob comes or goes or a call returns, or nothing that they see.
Called(c) == AllKeys!Begin(c) \/ AllKeys!Refuse(c)

Served ==
    \/ AllKeys!Lose
    \/ \E c \in Clients : AllKeys!Return(c) /\ IsAnswer(calls'[c].answer)
    \/ \E c \in Clients : AllKeys!Overlook(c)
    \/ \E c \in Clients, k \in FsKeys : AllKeys!Stored(c, k) \/ AllKeys!Removed(c, k)
    \/ UNCHANGED <<AllBlobs, calls>>

Promised ==
    \/ Served /\ UNCHANGED asked
    \/ \E c \in Clients : Call(c) /\ Called(c)

LEMMA BeginCalled ==
    ASSUME NEW c \in Clients, NEW op \in {"put", "delete", "get", "exists", "list"},
           NEW keys, NEW filter, Calls(c, op, keys, filter, AllKeys!Present),
           calls'[c] = Begun(op, keys, filter, AllKeys!Present), UNCHANGED AllBlobs
    PROVE  Called(c)
BY SameCalls DEF AllKeys!Begin, Begun, Called

LEMMA RefuseCalled ==
    ASSUME NEW c \in Clients, NEW is \in {"invalid", "misconfigured", "error"},
           Refused(c, is), calls'[c].answer = Answer(is, {}), UNCHANGED AllBlobs
    PROVE  Called(c)
<1>1. calls'[c].answer.is = is
  BY DEF Answer
<1>2. AllKeys!Refuse(c)
  BY <1>1, SameAnswers
  DEF Refused, AllKeys!Refuse, AllKeys!Refused, AllKeys!Busy, Busy, AllKeys!Answer, Answer
<1>3. QED
  BY <1>2 DEF Called

LEMMA ReturnServed ==
    ASSUME NEW c \in Clients, NEW a, IsAnswer(a), Busy(c), Answers(c, a), calls'[c].answer = a,
           AllKeys!Truthful(calls[c], a), UNCHANGED AllBlobs
    PROVE  Served
<1>1. AllKeys!Return(c)
  BY SameAnswers DEF AllKeys!Return, AllKeys!Busy, Busy
<1>2. QED
  BY <1>1 DEF Served

\* An error is no lie, whatever the call has done.
LEMMA ErrorsAreTruthful ==
    ASSUME NEW call, NEW is \in {"error", "broken", "misconfigured"}, NEW found
    PROVE  AllKeys!Truthful(call, Answer(is, found))
BY DEF AllKeys!Truthful, Answer

LEMMA AnswersAre == ASSUME NEW is, NEW found PROVE IsAnswer(Answer(is, found))
BY DEF IsAnswer, Answer

LEMMA StoredServed ==
    ASSUME NEW c \in Clients, NEW k \in FsKeys, calls[c].op = "put", k \in calls[c].keys,
           NEW blob \in {"torn", c}, AllBlobs' = [AllBlobs EXCEPT ![k] = blob],
           Touches(c, k, TRUE, blob = c)
    PROVE  Served
<1>1. AllBlobs'[k] = blob
  BY DEF AllBlobs
<1>2. AllKeys!Touches(c, k, TRUE, AllBlobs'[k] = c)
  BY <1>1, SameTouches
<1>3. AllKeys!Stored(c, k)
  BY <1>2 DEF AllKeys!Stored
<1>4. QED
  BY <1>3 DEF Served

LEMMA RemovedServed ==
    ASSUME NEW c \in Clients, NEW k \in FsKeys, calls[c].op = "delete", k \in calls[c].keys,
           AllBlobs' = [AllBlobs EXCEPT ![k] = "nobody"], Touches(c, k, FALSE, TRUE)
    PROVE  Served
<1>1. AllKeys!Removed(c, k)
  BY SameTouches DEF AllKeys!Removed
<1>2. QED
  BY <1>1 DEF Served

----------------------------------------------------------------------------
(* The keys that reach the backend.                                         *)

LEMMA ForwardedBatch ==
    ASSUME NEW c \in Clients, NEW batch \in Batches[c], Forwarded(c, batch)
    PROVE  InnerBatch(c, batch) \in Seq(FsKeys) /\ InnerBatch(c, batch) # <<>>
<1>1. /\ batch \in Seq(ToSet(batch)) /\ batch # <<>>
      /\ \A k \in ToSet(batch) : Inner(c, k) \in FsKeys
  BY CallsAssumption DEF Forwarded
<1>2. DOMAIN batch = 1 .. Len(batch) /\ Len(batch) \in Nat \ {0}
  BY <1>1
<1>3. \A i \in 1 .. Len(batch) : Inner(c, batch[i]) \in FsKeys
  BY <1>1, <1>2
<1>4. [i \in 1 .. Len(batch) |-> Inner(c, batch[i])] \in Seq(FsKeys)
  BY <1>2, <1>3, IsASeq
<1>5. InnerBatch(c, batch) \in Seq(FsKeys)
  BY <1>2, <1>4 DEF InnerBatch
<1>6. InnerBatch(c, batch) # <<>>
  <2>1. DOMAIN InnerBatch(c, batch) = DOMAIN batch
    BY DEF InnerBatch
  <2>2. 1 \in DOMAIN InnerBatch(c, batch)
    BY <1>2, <2>1
  <2>3. QED
    BY <2>2
<1>7. QED
  BY <1>5, <1>6

LEMMA ForwardedKey ==
    ASSUME NEW c \in Clients, NEW k \in UNION {ToSet(batch) : batch \in Batches[c]},
           Forwarded(c, <<k>>)
    PROVE  <<Inner(c, k)>> \in Seq(FsKeys)
<1>1. k \in ToSet(<<k>>)
  BY DEF ToSet
<1>2. Inner(c, k) \in FsKeys
  BY <1>1, CallsAssumption DEF Forwarded
<1>3. QED
  BY <1>2

----------------------------------------------------------------------------
(* Sequences of keys.                                                       *)

LEMMA PieceOfSeq ==
    ASSUME NEW S, NEW s \in Seq(S), NEW m \in Nat \ {0}, NEW n \in Nat, n <= Len(s)
    PROVE  /\ SubSeq(s, m, n) \in Seq(S)
           /\ ToSet(SubSeq(s, m, n)) = {s[i] : i \in m .. n}
<1> DEFINE t == SubSeq(s, m, n)
<1>1. Len(s) \in Nat /\ \A i \in 1 .. Len(s) : s[i] \in S
  OBVIOUS
<1>2. /\ t \in Seq(S)
      /\ Len(t) = IF m <= n THEN n - m + 1 ELSE 0
      /\ \A i \in 1 .. n - m + 1 : t[i] = s[m + i - 1]
  <2>1. \A i \in m .. n : s[i] \in S
    BY <1>1
  <2>2. QED
    BY <2>1, SubSeqProperties
<1> HIDE DEF t
<1>3. DOMAIN t = 1 .. n - m + 1
  BY <1>2
<1>4. ASSUME NEW i \in m .. n PROVE i - m + 1 \in DOMAIN t /\ t[i - m + 1] = s[i]
  <2> DEFINE j == i - m + 1
  <2>1. j \in 1 .. n - m + 1 /\ m + j - 1 = i
    OBVIOUS
  <2>2. t[j] = s[m + j - 1]
    BY <1>2, <2>1
  <2>3. QED
    BY <1>3, <2>1, <2>2
<1>5. ASSUME NEW i \in DOMAIN t PROVE m + i - 1 \in m .. n /\ t[i] = s[m + i - 1]
  BY <1>2, <1>3
<1>6. ToSet(t) = {s[i] : i \in m .. n}
  <2>1. \A i \in m .. n : s[i] \in ToSet(t)
    BY <1>4, Zenon DEF ToSet
  <2>2. \A i \in DOMAIN t : t[i] \in {s[j] : j \in m .. n}
    BY <1>5, Zenon
  <2>3. QED
    BY <2>1, <2>2, Zenon DEF ToSet
<1>7. QED
  BY <1>2, <1>6 DEF t

LEMMA SetOfSeq ==
    ASSUME NEW S, NEW s \in Seq(S)
    PROVE  ToSet(s) = {s[i] : i \in 1 .. Len(s)} /\ ToSet(s) \subseteq S
BY DEF ToSet

LEMMA HeadAndTail ==
    ASSUME NEW S, NEW s \in Seq(S), s # <<>>
    PROVE  /\ Head(s) \in S /\ Tail(s) \in Seq(S)
           /\ Head(s) \in ToSet(s) /\ ToSet(Tail(s)) \subseteq ToSet(s)
           /\ ToSet(s) \subseteq {Head(s)} \cup ToSet(Tail(s))
<1>1. Head(s) = s[1] /\ Len(s) \in Nat \ {0}
  OBVIOUS
<1>2. Tail(s) \in Seq(S) /\ ToSet(Tail(s)) = {s[i] : i \in 2 .. Len(s)}
  <2>1. Tail(s) = SubSeq(s, 2, Len(s))
    BY TailIsSubSeq
  <2>2. 2 \in Nat \ {0} /\ Len(s) \in Nat /\ Len(s) <= Len(s)
    BY <1>1
  <2>3. SubSeq(s, 2, Len(s)) \in Seq(S)
    BY <2>2, PieceOfSeq
  <2>4. ToSet(SubSeq(s, 2, Len(s))) = {s[i] : i \in 2 .. Len(s)}
    BY <2>2, PieceOfSeq
  <2>5. QED
    BY <2>1, <2>3, <2>4
<1>3. QED
  BY <1>1, <1>2, SetOfSeq

LEMMA FrontAndRest ==
    ASSUME NEW S, NEW s \in Seq(S), NEW n \in Nat
    PROVE  LET front == SubSeq(s, 1, Smaller(n, Len(s)))
               rest == SubSeq(s, n + 1, Len(s))
           IN  /\ rest \in Seq(S)
               /\ ToSet(front) \subseteq ToSet(s) /\ ToSet(rest) \subseteq ToSet(s)
               /\ ToSet(s) \subseteq ToSet(front) \cup ToSet(rest)
<1> DEFINE m == Smaller(n, Len(s))
<1>1. Len(s) \in Nat /\ m \in Nat /\ m <= Len(s) /\ m <= n /\ (m = n \/ m = Len(s))
  BY DEF Smaller
<1> HIDE DEF m
<1>2. ToSet(SubSeq(s, 1, m)) = {s[i] : i \in 1 .. m}
  BY <1>1, PieceOfSeq
<1>3. /\ SubSeq(s, n + 1, Len(s)) \in Seq(S)
      /\ ToSet(SubSeq(s, n + 1, Len(s))) = {s[i] : i \in n + 1 .. Len(s)}
  BY <1>1, PieceOfSeq
<1>4. QED
  BY <1>1, <1>2, <1>3, SetOfSeq DEF m

\* No key that matches a filter lies outside of where the search is narrowed to.
LEMMA HintsFit ==
    ASSUME NEW f, NEW k, Len(k) \in Nat, Matches(f, k)
    PROVE  IsPrefix(PrefixHint(f), k)
<1>1. CASE f.kind = "prefix" /\ f.nots = 0
  <2>1. 0 % 2 = 0
    OBVIOUS
  <2>2. IsPrefix(f.text, k)
    BY <1>1, <2>1 DEF Matches
  <2>3. QED
    BY <1>1, <2>2 DEF PrefixHint
<1>2. CASE ~(f.kind = "prefix" /\ f.nots = 0)
  <2>1. PrefixHint(f) = <<>>
    BY <1>2 DEF PrefixHint
  <2>2. SubSeq(k, 1, 0) = <<>> /\ SubSeq(<<>>, 1, Len(<<>>)) = <<>> /\ Len(<<>>) = 0
    BY SubSeqEmpty
  <2>3. QED
    BY <2>1, <2>2 DEF IsPrefix
<1>3. QED
  BY <1>1, <1>2

LEMMA Joining ==
    ASSUME NEW s, NEW t, IsText(s), IsText(t)
    PROVE  IsText(s \o t)
<1> DEFINE S == ToSet(s) \cup ToSet(t)
<1>1. s \in Seq(ToSet(s)) /\ t \in Seq(ToSet(t))
  BY DEF IsText
<1>2. \A T, U : T \subseteq U => Seq(T) \subseteq Seq(U)
  OBVIOUS
<1>3. s \in Seq(S) /\ t \in Seq(S)
  <2>1. ToSet(s) \subseteq S /\ ToSet(t) \subseteq S
    OBVIOUS
  <2> HIDE DEF S
  <2>2. QED
    BY <1>1, <1>2, <2>1
<1> HIDE DEF S
<1>4. s \o t \in Seq(S)
  BY <1>3
<1>5. \A T : \A u \in Seq(T) : IsText(u)
  BY DEF IsText, ToSet
<1>6. QED
  BY <1>4, <1>5, Zenon

\* What begins with a misspelt text is no key: it has an empty name in it.
LEMMA NoKeyMisspelt ==
    ASSUME NEW h, IsText(h), Misspelt(h), NEW k \in FsKeys
    PROVE  ~IsPrefix(h, k)
<1> SUFFICES ASSUME IsPrefix(h, k) PROVE FALSE
  OBVIOUS
<1>1. IsText(k) /\ Valid(k)
  BY FsKeysAssumption
<1>2. /\ Len(h) \in Nat /\ Len(k) \in Nat /\ Len(h) <= Len(k)
      /\ DOMAIN h = 1 .. Len(h) /\ DOMAIN k = 1 .. Len(k)
      /\ SubSeq(h, 1, Len(h)) = SubSeq(k, 1, Len(h))
  BY <1>1 DEF IsPrefix, IsText
<1>3. \A i \in 1 .. Len(h) : k[i] = h[i]
  <2>1. \A i \in 1 .. Len(h) : SubSeq(h, 1, Len(h))[i] = h[1 + i - 1]
    BY <1>2, SubSeqProperties DEF IsText, ToSet
  <2>2. \A i \in 1 .. Len(h) : k[i] \in ToSet(k)
    BY <1>2 DEF ToSet
  <2>3. \A i \in 1 .. Len(h) : SubSeq(k, 1, Len(h))[i] = k[1 + i - 1]
    BY <1>1, <1>2, <2>2, SubSeqProperties DEF IsText
  <2>4. \A i \in 1 .. Len(h) : 1 + i - 1 = i
    OBVIOUS
  <2>5. QED
    BY <1>2, <2>1, <2>3, <2>4
<1>4. PICK i \in 1 .. Len(h) : h[i] = Sep /\ (i = 1 \/ h[i - 1] = Sep)
  BY <1>2 DEF Misspelt
<1>5. i - 1 \in Cuts(k) /\ i \in Cuts(k)
  <2>1. i \in Cuts(k)
    BY <1>2, <1>3, <1>4 DEF Cuts
  <2>2. CASE i = 1
    <3>1. i - 1 = 0
      BY <2>2
    <3>2. QED
      BY <2>1, <3>1 DEF Cuts
  <2>3. CASE i # 1
    <3>1. i - 1 \in 1 .. Len(h) /\ h[i - 1] = Sep
      BY <1>2, <1>4, <2>3
    <3>2. QED
      BY <1>2, <1>3, <2>1, <3>1 DEF Cuts
  <2>4. QED
    BY <2>1, <2>2, <2>3
<1>6. \A j \in Cuts(k) : j <= i - 1 \/ j >= i
  <2>1. Cuts(k) \subseteq Nat
    BY <1>2 DEF Cuts
  <2>2. QED
    BY <1>2, <2>1
<1>7. SubSeq(k, i - 1 + 1, i - 1) \in Components(k)
  <2> DEFINE cut == <<i - 1, i>>
  <2>1. cut \in Cuts(k) \X Cuts(k) /\ cut[1] = i - 1 /\ cut[2] = i /\ cut[1] < cut[2]
    BY <1>2, <1>5
  <2>2. \A j \in Cuts(k) : j <= cut[1] \/ j >= cut[2]
    BY <1>6, <2>1
  <2> HIDE DEF cut
  <2>3. SubSeq(k, cut[1] + 1, cut[2] - 1) \in Components(k)
    BY <2>1, <2>2 DEF Components
  <2>4. QED
    BY <2>1, <2>3
<1>8. SubSeq(k, i - 1 + 1, i - 1) = <<>>
  BY <1>2, SubSeqEmpty
<1>9. QED
  BY <1>1, <1>7, <1>8 DEF Valid

----------------------------------------------------------------------------
(* A tenant's names of the backend's keys.                                  *)

LEMMA NamesUnder ==
    ASSUME NEW p, NEW k, IsText(p), IsText(k), IsPrefix(p, k)
    PROVE  Prefixed(p, SubSeq(k, Len(p) + 1, Len(k))) = k
<1> DEFINE S == ToSet(p) \cup ToSet(k)
<1>1. p \in Seq(S) /\ k \in Seq(S)
  <2>1. \A T, U : T \subseteq U => Seq(T) \subseteq Seq(U)
    OBVIOUS
  <2>2. ToSet(p) \subseteq S /\ ToSet(k) \subseteq S
    OBVIOUS
  <2> HIDE DEF S
  <2>3. QED
    BY <2>1, <2>2 DEF IsText
<1> HIDE DEF S
<1>2. /\ Len(p) \in 0 .. Len(k) /\ Len(k) \in Nat
      /\ SubSeq(p, 1, Len(p)) = SubSeq(k, 1, Len(p))
  BY <1>1 DEF IsPrefix
<1>3. SubSeq(p, 1, Len(p)) = p /\ SubSeq(k, 1, Len(k)) = k
  BY <1>1, SubSeqFull
<1>4. SubSeq(k, 1, Len(p)) \o SubSeq(k, Len(p) + 1, Len(k)) = SubSeq(k, 1, Len(k))
  <2>1. 1 \in 1 .. Len(k) + 1 /\ Len(p) \in 1 - 1 .. Len(k) /\ Len(k) \in Len(p) .. Len(k)
    BY <1>2
  <2>2. QED
    BY <1>1, <2>1, ConcatAdjacentSubSeq
<1>5. QED
  BY <1>2, <1>3, <1>4 DEF Prefixed

\* What begins with a text that begins with p begins with p.
LEMMA LongerPrefix ==
    ASSUME NEW p, NEW h, NEW t, IsText(p), IsText(h), IsText(t), IsPrefix(h, t)
    PROVE  IsPrefix(p \o h, p \o t)
<1> DEFINE S == ToSet(p) \cup ToSet(h) \cup ToSet(t)
           r == SubSeq(t, Len(h) + 1, Len(t))
<1>1. p \in Seq(S) /\ h \in Seq(S) /\ t \in Seq(S)
  <2>1. \A T, U : T \subseteq U => Seq(T) \subseteq Seq(U)
    OBVIOUS
  <2>2. ToSet(p) \subseteq S /\ ToSet(h) \subseteq S /\ ToSet(t) \subseteq S
    OBVIOUS
  <2> HIDE DEF S
  <2>3. QED
    BY <2>1, <2>2 DEF IsText
<1> HIDE DEF S
<1>2. r \in Seq(S)
  <2>1. Len(h) \in Nat /\ Len(t) \in Nat /\ \A i \in Len(h) + 1 .. Len(t) : t[i] \in S
    BY <1>1
  <2>2. QED
    BY <2>1, SubSeqProperties
<1>3. t = h \o r
  BY NamesUnder DEF Prefixed
<1> HIDE DEF r
<1> DEFINE s == p \o h
<1>4. s \in Seq(S) /\ p \o t = s \o r
  <2>1. s \o r = p \o (h \o r)
    BY <1>1, <1>2, ConcatAssociative
  <2>2. QED
    BY <1>1, <1>3, <2>1
<1> HIDE DEF s
<1>5. /\ Len(s) \in Nat /\ Len(r) \in Nat /\ Len(s \o r) = Len(s) + Len(r)
      /\ SubSeq(s \o r, 1, Len(s)) = s /\ SubSeq(s, 1, Len(s)) = s
  BY <1>2, <1>4, ConcatProperties, SubSeqOfConcat1, SubSeqFull
<1>6. IsPrefix(s, s \o r)
  BY <1>5 DEF IsPrefix
<1>7. QED
  BY <1>4, <1>6 DEF s

\* A tenant's names for keys of the backend.
Own(keys) == {k \in OwnKeys : Prefixed(Prefix, k) \in keys}

LEMMA OwnNames ==
    /\ \A k \in OwnKeys : IsText(k) /\ Prefixed(Prefix, k) \in FsKeys
    /\ \A k, l \in OwnKeys : Prefixed(Prefix, k) = Prefixed(Prefix, l) => k = l
    /\ \A keys : keys \subseteq FsKeys => Stripped(Prefix, keys) = Own(keys)
<1> DEFINE name(k) == SubSeq(k, Len(Prefix) + 1, Len(k))
<1>1. ASSUME NEW k \in FsKeys, IsPrefix(Prefix, k)
      PROVE  IsText(name(k)) /\ Prefixed(Prefix, name(k)) = k
  <2>1. IsText(Prefix) /\ IsText(k)
    BY CallsAssumption, FsKeysAssumption
  <2>2. Prefixed(Prefix, name(k)) = k
    BY <1>1, <2>1, NamesUnder
  <2>3. name(k) \in Seq(ToSet(k))
    <3>1. Len(Prefix) \in Nat /\ k \in Seq(ToSet(k)) /\ Len(k) \in Nat
      BY <2>1 DEF IsText
    <3>2. QED
      BY <3>1, PieceOfSeq
  <2>4. \A T : \A u \in Seq(T) : IsText(u)
    BY DEF IsText, ToSet
  <2>5. QED
    BY <2>2, <2>3, <2>4, Zenon
<1>2. \A keys : Stripped(Prefix, keys) = {name(k) : k \in {k \in keys : IsPrefix(Prefix, k)}}
  BY DEF Stripped
<1> HIDE DEF name
<1>3. ASSUME NEW t \in OwnKeys
      PROVE  /\ IsText(t) /\ Prefixed(Prefix, t) \in FsKeys
             /\ IsPrefix(Prefix, Prefixed(Prefix, t)) /\ name(Prefixed(Prefix, t)) = t
  <2>1. PICK k \in FsKeys : IsPrefix(Prefix, k) /\ t = name(k)
    BY <1>2 DEF OwnKeys
  <2>2. QED
    BY <1>1, <2>1
<1>4. ASSUME NEW keys, keys \subseteq FsKeys
      PROVE  Stripped(Prefix, keys) = Own(keys)
  <2>1. ASSUME NEW t \in Stripped(Prefix, keys) PROVE t \in Own(keys)
    <3>1. PICK k \in keys : IsPrefix(Prefix, k) /\ t = name(k)
      BY <1>2
    <3>2. t \in OwnKeys
      BY <1>2, <1>4, <3>1 DEF OwnKeys
    <3>3. QED
      BY <1>1, <1>4, <3>1, <3>2 DEF Own
  <2>2. ASSUME NEW t \in Own(keys) PROVE t \in Stripped(Prefix, keys)
    BY <1>2, <1>3 DEF Own
  <2>3. QED
    BY <2>1, <2>2
<1>5. QED
  BY <1>3, <1>4

\* What the filter of a tenant accepts is accepted by the one that the backend
\* gets instead.
LEMMA InnerFilterCovers ==
    ASSUME NEW f, NEW k \in OwnKeys, IsText(f.text), Matches(f, k)
    PROVE  Matches(CombinedPrefixFilter(Prefix, f), Prefixed(Prefix, k))
<1> DEFINE h == PrefixHint(f)
<1>1. IsText(Prefix) /\ IsText(k) /\ IsText(<<>>)
  BY CallsAssumption, OwnNames DEF IsText
<1>2. IsText(h)
  BY <1>1 DEF PrefixHint
<1>3. IsPrefix(h, k)
  BY <1>1, HintsFit DEF IsText
<1> HIDE DEF h
<1>4. IsPrefix(Prefix \o h, Prefixed(Prefix, k))
  BY <1>1, <1>2, <1>3, LongerPrefix DEF Prefixed
<1>5. 0 % 2 = 0
  OBVIOUS
<1>6. QED
  BY <1>4, <1>5 DEF h, CombinedPrefixFilter, PrefixFilter, Matches

----------------------------------------------------------------------------
(* The contract by the tenants' names has the same log, too.                *)

LEMMA SameForTenants ==
    /\ \A f, t : TenantKeys!Matches(f, t) = Matches(f, t)
    /\ TenantKeys!NoCall = NoCall /\ TenantKeys!Silent = Silent
    /\ \A is, found : TenantKeys!Answer(is, found) = Answer(is, found)
    /\ \A op, keys, filter, present :
          TenantKeys!Begun(op, keys, filter, present) = Begun(op, keys, filter, present)
<1>1. \A s, t : TenantKeys!IsPrefix(s, t) = IsPrefix(s, t)
  BY DEF TenantKeys!IsPrefix, IsPrefix
<1>2. \A s, t : TenantKeys!IsSuffix(s, t) = IsSuffix(s, t)
  BY <1>1 DEF TenantKeys!IsSuffix, IsSuffix, TenantKeys!Reverse, Reverse
<1>3. \A f, t : TenantKeys!Matches(f, t) = Matches(f, t)
  BY <1>1, <1>2, Zenon DEF TenantKeys!Matches, Matches
<1>4. /\ TenantKeys!NoCall = NoCall /\ TenantKeys!Silent = Silent
      /\ \A is, found : TenantKeys!Answer(is, found) = Answer(is, found)
  BY DEF TenantKeys!NoCall, NoCall, TenantKeys!Silent, Silent, TenantKeys!Answer, Answer,
         TenantKeys!Everything, Everything, TenantKeys!PrefixFilter, PrefixFilter
<1>5. ASSUME NEW op, NEW keys, NEW filter, NEW present
      PROVE  TenantKeys!Begun(op, keys, filter, present) = Begun(op, keys, filter, present)
  <2>1. {k \in present : TenantKeys!Matches(filter, k)} = {k \in present : Matches(filter, k)}
    BY <1>3, Zenon
  <2>2. QED
    BY <1>4, <2>1 DEF TenantKeys!Begun, Begun
<1>6. QED
  BY <1>3, <1>4, <1>5

\* What touching k, which then holds a whole blob, a torn one, or none ("whole",
\* "torn", "gone"), takes from what a call found all the time, and adds to what
\* it found and to what it has done.
Changed(call, gone, come, mine) ==
    [call EXCEPT !.steady = @ \ gone, !.ever = @ \cup come, !.done = @ \cup mine]

Gone(k, is)       == IF is = "gone" THEN {k} ELSE {}
Come(call, k, is) == IF is # "gone" /\ InScope(call, k) THEN {k} ELSE {}
Mine(call, k, is, itself) ==
    IF \/ itself = "its own" /\ is # "torn"
       \/ itself # "its own" /\ call.op = "put" /\ k \in call.keys
    THEN {k} ELSE {}

Touched(call, c, d, k, is) ==
    Changed(call, Gone(k, is), Come(call, k, is),
            Mine(call, k, is, IF d = c THEN "its own" ELSE "another's"))

LEMMA ChangedIs ==
    ASSUME NEW call, IsCall(call), NEW gone, NEW come, NEW mine
    PROVE  /\ IsCall(Changed(call, gone, come, mine))
           /\ Changed(call, gone, come, mine).op = call.op
           /\ Changed(call, gone, come, mine).keys = call.keys
           /\ Changed(call, gone, come, mine).filter = call.filter
           /\ Changed(call, gone, come, mine).answer = call.answer
           /\ Changed(call, gone, come, mine).done = call.done \cup mine
           /\ Changed(call, gone, come, mine).steady = call.steady \ gone
           /\ Changed(call, gone, come, mine).ever = call.ever \cup come
BY DEF Changed, IsCall

LEMMA ChangedRecord ==
    ASSUME NEW op, NEW keys, NEW done, NEW steady, NEW ever, NEW filter, NEW answer,
           NEW gone, NEW come, NEW mine
    PROVE  Changed([op |-> op, keys |-> keys, done |-> done, steady |-> steady,
                    ever |-> ever, filter |-> filter, answer |-> answer], gone, come, mine)
           = [op |-> op, keys |-> keys, done |-> done \cup mine, steady |-> steady \ gone,
              ever |-> ever \cup come, filter |-> filter, answer |-> answer]
<1> DEFINE call == [op |-> op, keys |-> keys, done |-> done, steady |-> steady,
                    ever |-> ever, filter |-> filter, answer |-> answer]
<1>1. call.steady = steady /\ call.ever = ever /\ call.done = done
  OBVIOUS
<1>2. PICK less : less = steady \ gone
  OBVIOUS
<1>3. PICK more : more = ever \cup come
  OBVIOUS
<1>4. PICK did : did = done \cup mine
  OBVIOUS
<1>5. PICK new : new = [call EXCEPT !.steady = less, !.ever = more, !.done = did]
  OBVIOUS
<1>6. new = [op |-> op, keys |-> keys, done |-> did, steady |-> less, ever |-> more,
             filter |-> filter, answer |-> answer]
  BY <1>5
<1>7. Changed(call, gone, come, mine) = new
  <2> HIDE DEF call
  <2>1. QED
    BY <1>1, <1>2, <1>3, <1>4, <1>5, Zenon DEF Changed
<1>8. QED
  BY <1>2, <1>3, <1>4, <1>6, <1>7, Zenon

LEMMA ChangedByNothing ==
    ASSUME NEW op, NEW keys, NEW done, NEW steady, NEW ever, NEW filter, NEW answer
    PROVE  LET call == [op |-> op, keys |-> keys, done |-> done, steady |-> steady,
                        ever |-> ever, filter |-> filter, answer |-> answer]
           IN  Changed(call, {}, {}, {}) = call
<1>1. done \cup {} = done /\ ever \cup {} = ever /\ steady \ {} = steady
  OBVIOUS
<1>2. QED
  BY <1>1, ChangedRecord

LEMMA TouchedKeeps ==
    ASSUME NEW call, IsCall(call), NEW c, NEW d, NEW k, NEW is
    PROVE  /\ IsCall(Touched(call, c, d, k, is))
           /\ Touched(call, c, d, k, is).op = call.op
           /\ Touched(call, c, d, k, is).filter = call.filter
<1>1. PICK mine : mine = Mine(call, k, is, IF d = c THEN "its own" ELSE "another's")
  OBVIOUS
<1>2. Touched(call, c, d, k, is) = Changed(call, Gone(k, is), Come(call, k, is), mine)
  BY <1>1, Zenon DEF Touched
<1>3. QED
  BY <1>2, ChangedIs

\* A log after client c has touched k.
LogTouched(log, c, k, there, did) ==
    [d \in Clients |->
        LET call == Noticed(log[d], k, there)
        IN  IF IF d = c THEN did ELSE call.op = "put" /\ k \in call.keys
            THEN [call EXCEPT !.done = @ \cup {k}] ELSE call]

LEMMA LogTouchedIs ==
    ASSUME NEW log, \A d \in Clients : IsCall(log[d]), NEW c, NEW k
    PROVE  /\ LogTouched(log, c, k, TRUE, TRUE)
              = [d \in Clients |-> Touched(log[d], c, d, k, "whole")]
           /\ LogTouched(log, c, k, TRUE, FALSE)
              = [d \in Clients |-> Touched(log[d], c, d, k, "torn")]
           /\ LogTouched(log, c, k, FALSE, TRUE)
              = [d \in Clients |-> Touched(log[d], c, d, k, "gone")]
<1> DEFINE itself(d) == IF d = c THEN "its own" ELSE "another's"
           Now(d, there, did) ==
               LET call == Noticed(log[d], k, there)
               IN  IF IF d = c THEN did ELSE call.op = "put" /\ k \in call.keys
                   THEN [call EXCEPT !.done = @ \cup {k}] ELSE call
<1>1. ASSUME NEW d \in Clients, NEW there \in BOOLEAN, NEW did \in BOOLEAN, NEW is,
             there <=> is # "gone", did <=> is # "torn"
      PROVE  Now(d, there, did) = Touched(log[d], c, d, k, is)
  <2>1. PICK call : call = log[d] /\ IsCall(call)
    OBVIOUS
  <2>2. PICK less : less = call.steady \ Gone(k, is)
    OBVIOUS
  <2>3. PICK more : more = call.ever \cup Come(call, k, is)
    OBVIOUS
  <2>4. PICK did2 : did2 = call.done \cup Mine(call, k, is, itself(d))
    OBVIOUS
  <2>5. Touched(call, c, d, k, is) = [call EXCEPT !.steady = less, !.ever = more, !.done = did2]
    BY <2>2, <2>3, <2>4, Zenon DEF Touched, Changed
  <2>6. less = IF there THEN call.steady ELSE call.steady \ {k}
    BY <1>1, <2>2 DEF Gone
  <2>7. more = IF there /\ InScope(call, k) THEN call.ever \cup {k} ELSE call.ever
    BY <1>1, <2>3 DEF Come
  <2>8. PICK noticed : noticed = [call EXCEPT !.steady = less, !.ever = more]
    OBVIOUS
  <2>9. Noticed(call, k, there) = noticed
    BY <2>6, <2>7, <2>8, Zenon DEF Noticed
  <2>10. noticed.op = call.op /\ noticed.keys = call.keys /\ noticed.done = call.done
    BY <2>1, <2>8 DEF IsCall
  <2>11. Now(d, there, did) =
           IF (d = c /\ did) \/ (d # c /\ call.op = "put" /\ k \in call.keys)
           THEN [noticed EXCEPT !.done = @ \cup {k}] ELSE noticed
    BY <2>1, <2>9, <2>10, Zenon
  <2>12. did2 = IF (d = c /\ did) \/ (d # c /\ call.op = "put" /\ k \in call.keys)
                THEN call.done \cup {k} ELSE call.done
    BY <1>1, <2>4 DEF Mine
  <2>13. [noticed EXCEPT !.done = did2] = [call EXCEPT !.steady = less, !.ever = more, !.done = did2]
    BY <2>8
  <2>14. did2 = call.done => noticed = [noticed EXCEPT !.done = did2]
    BY <2>1, <2>8 DEF IsCall
  <2> HIDE DEF Now
  <2>15. QED
    BY <2>1, <2>5, <2>10, <2>11, <2>12, <2>13, <2>14
<1>2. \A d \in Clients : Now(d, TRUE, TRUE) = Touched(log[d], c, d, k, "whole")
  BY <1>1
<1>3. \A d \in Clients : Now(d, TRUE, FALSE) = Touched(log[d], c, d, k, "torn")
  BY <1>1
<1>4. \A d \in Clients : Now(d, FALSE, TRUE) = Touched(log[d], c, d, k, "gone")
  BY <1>1
<1>5. QED
  BY <1>2, <1>3, <1>4, Zenon DEF LogTouched

LEMMA TouchesAre ==
    ASSUME NEW c, NEW k, NEW there, NEW did
    PROVE  /\ Touches(c, k, there, did) <=> calls' = LogTouched(calls, c, k, there, did)
           /\ TenantKeys!Touches(c, k, there, did)
              <=> TenantCalls' = LogTouched(TenantCalls, c, k, there, did)
<1>1. \A call : TenantKeys!InScope(call, k) = InScope(call, k)
  BY SameForTenants DEF TenantKeys!InScope, InScope
<1>2. \A d \in Clients :
          TenantKeys!Noticed(TenantCalls[d], k, there) = Noticed(TenantCalls[d], k, there)
  BY <1>1 DEF TenantKeys!Noticed, Noticed
<1>3. \A d \in Clients :
          (LET call == TenantKeys!Noticed(TenantCalls[d], k, there)
           IN  IF IF d = c THEN did ELSE call.op = "put" /\ k \in call.keys
               THEN [call EXCEPT !.done = @ \cup {k}] ELSE call)
        = (LET call == Noticed(TenantCalls[d], k, there)
           IN  IF IF d = c THEN did ELSE call.op = "put" /\ k \in call.keys
               THEN [call EXCEPT !.done = @ \cup {k}] ELSE call)
  BY <1>2, Zenon
<1>4. QED
  BY <1>3, Zenon DEF TenantKeys!Touches, Touches, LogTouched

----------------------------------------------------------------------------
(* A call as the tenants see it.                                            *)

\* Client d's call, if the filter it gave was f.
Shown(d, call, f) == IF d \in Tenants THEN TenantCall(call, f) ELSE OthersCall(call)

Seen(d, call) == d \in Tenants \/ call.op \in {"put", "delete"}

\* The names of a call's keys: of a list, those that its filter accepts.
OwnOf(call, f, keys) == {k \in Own(keys) : call.op = "list" => Matches(f, k)}

LEMMA ShownIs ==
    ASSUME NEW d, NEW call, NEW f
    PROVE  LET s == Shown(d, call, f)
           IN  IF Seen(d, call)
               THEN s = [op |-> call.op,
                         keys |-> OwnOf(call, f, call.keys),
                         done |-> OwnOf(call, f, call.done),
                         steady |-> OwnOf(call, f, call.steady),
                         ever |-> OwnOf(call, f, call.ever),
                         filter |-> IF call.op = "list" /\ d \in Tenants THEN f ELSE call.filter,
                         answer |-> IF d \in Tenants THEN TenantAnswer(call.answer, f)
                                                     ELSE Silent]
               ELSE s = NoCall
<1>1. CASE d \in Tenants
  <2>1. \A keys : {k \in OwnKeys : Prefixed(Prefix, k) \in keys
                                   /\ (call.op = "list" => Matches(f, k))} = OwnOf(call, f, keys)
    BY DEF OwnOf, Own
  <2>2. Shown(d, call, f) = TenantCall(call, f) /\ Seen(d, call)
    BY <1>1 DEF Shown, Seen
  <2>3. QED
    BY <1>1, <2>1, <2>2, Zenon DEF TenantCall
<1>2. CASE d \notin Tenants /\ call.op \in {"put", "delete"}
  <2>1. \A keys : {k \in OwnKeys : Prefixed(Prefix, k) \in keys
                         /\ (call.op = "list" => Matches(Everything, k))} = OwnOf(call, f, keys)
    BY <1>2 DEF OwnOf, Own
  <2>2. /\ Shown(d, call, f) = [TenantCall(call, Everything) EXCEPT !.answer = Silent]
        /\ Seen(d, call)
    BY <1>2 DEF Shown, Seen, OthersCall
  <2> DEFINE shown == [op |-> call.op,
                       keys |-> OwnOf(call, f, call.keys),
                       done |-> OwnOf(call, f, call.done),
                       steady |-> OwnOf(call, f, call.steady),
                       ever |-> OwnOf(call, f, call.ever),
                       filter |-> call.filter,
                       answer |-> TenantAnswer(call.answer, Everything)]
  <2>3. call.op # "list"
    BY <1>2
  <2>4. TenantCall(call, Everything) = shown
    BY <2>1, <2>3, Zenon DEF TenantCall
  <2>5. [shown EXCEPT !.answer = Silent] =
            [op |-> call.op,
             keys |-> OwnOf(call, f, call.keys),
             done |-> OwnOf(call, f, call.done),
             steady |-> OwnOf(call, f, call.steady),
             ever |-> OwnOf(call, f, call.ever),
             filter |-> call.filter,
             answer |-> Silent]
    OBVIOUS
  <2> HIDE DEF shown
  <2>6. QED
    BY <1>2, <2>2, <2>3, <2>4, <2>5
<1>3. CASE d \notin Tenants /\ call.op \notin {"put", "delete"}
  BY <1>3 DEF Shown, Seen, OthersCall
<1>4. QED
  BY <1>1, <1>2, <1>3

\* What a call remembers of the filter that the prefix layer was given.
AskedFits(d, call, f) ==
    /\ IsText(f.text)
    /\ d \in Tenants /\ call.op = "list" => call.filter = CombinedPrefixFilter(Prefix, f)
    /\ call.op \in {"put", "delete", "get", "exists"} => f = Everything

\* What changes of a call changes of what the tenants see of it, by their names.
LEMMA ShownChanged ==
    ASSUME NEW d, NEW call, IsCall(call), NEW f, Seen(d, call), NEW gone, NEW come, NEW mine
    PROVE  Shown(d, Changed(call, gone, come, mine), f)
           = Changed(Shown(d, call, f),
                     OwnOf(call, f, gone), OwnOf(call, f, come), OwnOf(call, f, mine))
<1> DEFINE new == Changed(call, gone, come, mine)
           answer == IF d \in Tenants THEN TenantAnswer(call.answer, f) ELSE Silent
           filter == IF call.op = "list" /\ d \in Tenants THEN f ELSE call.filter
           less == OwnOf(call, f, call.steady) \ OwnOf(call, f, gone)
           more == OwnOf(call, f, call.ever) \cup OwnOf(call, f, come)
           did == OwnOf(call, f, call.done) \cup OwnOf(call, f, mine)
<1>1. /\ new.op = call.op /\ new.keys = call.keys /\ new.filter = call.filter
      /\ new.answer = call.answer /\ new.done = call.done \cup mine
      /\ new.steady = call.steady \ gone /\ new.ever = call.ever \cup come
  BY ChangedIs
<1>2. \A keys : OwnOf(new, f, keys) = OwnOf(call, f, keys)
  BY <1>1, Zenon DEF OwnOf
<1>3. /\ OwnOf(call, f, new.steady) = less
      /\ OwnOf(call, f, new.ever) = more
      /\ OwnOf(call, f, new.done) = did
  BY <1>1 DEF OwnOf, Own
<1>4. Shown(d, call, f) =
        [op |-> call.op,
         keys |-> OwnOf(call, f, call.keys),
         done |-> OwnOf(call, f, call.done),
         steady |-> OwnOf(call, f, call.steady),
         ever |-> OwnOf(call, f, call.ever),
         filter |-> filter, answer |-> answer]
  BY ShownIs, Zenon
<1>5. Shown(d, new, f) =
        [op |-> call.op, keys |-> OwnOf(call, f, call.keys), done |-> did,
         steady |-> less, ever |-> more, filter |-> filter, answer |-> answer]
  <2>1. Seen(d, new)
    BY <1>1 DEF Seen
  <2>2. Shown(d, new, f) =
          [op |-> new.op,
           keys |-> OwnOf(new, f, new.keys),
           done |-> OwnOf(new, f, new.done),
           steady |-> OwnOf(new, f, new.steady),
           ever |-> OwnOf(new, f, new.ever),
           filter |-> IF new.op = "list" /\ d \in Tenants THEN f ELSE new.filter,
           answer |-> IF d \in Tenants THEN TenantAnswer(new.answer, f) ELSE Silent]
    BY <2>1, ShownIs, Zenon
  <2>3. /\ (IF new.op = "list" /\ d \in Tenants THEN f ELSE new.filter) = filter
        /\ (IF d \in Tenants THEN TenantAnswer(new.answer, f) ELSE Silent) = answer
    BY <1>1, Zenon
  <2> HIDE DEF less, more, did, new, filter, answer
  <2>4. /\ OwnOf(new, f, new.keys) = OwnOf(call, f, call.keys)
        /\ OwnOf(new, f, new.done) = did
        /\ OwnOf(new, f, new.steady) = less /\ OwnOf(new, f, new.ever) = more
    BY <1>1, <1>2, <1>3
  <2>5. QED
    BY <1>1, <2>2, <2>3, <2>4, Zenon
<1>6. QED
  <2> DEFINE shown == [op |-> call.op,
                       keys |-> OwnOf(call, f, call.keys),
                       done |-> OwnOf(call, f, call.done),
                       steady |-> OwnOf(call, f, call.steady),
                       ever |-> OwnOf(call, f, call.ever),
                       filter |-> filter, answer |-> answer]
  <2> HIDE DEF new, filter, answer
  <2>1. Changed(shown, OwnOf(call, f, gone), OwnOf(call, f, come), OwnOf(call, f, mine))
        = [op |-> call.op, keys |-> OwnOf(call, f, call.keys), done |-> did,
           steady |-> less, ever |-> more, filter |-> filter, answer |-> answer]
    BY ChangedRecord
  <2> HIDE DEF shown, less, more, did
  <2>2. Shown(d, call, f) = shown
    BY <1>4 DEF shown
  <2>3. QED
    BY <1>5, <2>1, <2>2 DEF new

LEMMA NoCallUntouched == \A gone : Changed(NoCall, gone, {}, {}) = NoCall
<1> TAKE gone
<1>1. NoCall.steady = {} /\ NoCall.ever = {} /\ NoCall.done = {}
  BY DEF NoCall
<1>2. {} \ gone = {} /\ {} \cup {} = {}
  OBVIOUS
<1>3. Changed(NoCall, gone, {}, {}) = [NoCall EXCEPT !.steady = {}, !.ever = {}, !.done = {}]
  BY <1>1, <1>2, Zenon DEF Changed
<1>4. PICK new : new = [NoCall EXCEPT !.steady = {}, !.ever = {}, !.done = {}]
  OBVIOUS
<1>5. new = NoCall
  BY <1>4 DEF NoCall
<1>6. QED
  BY <1>3, <1>4, <1>5, Zenon

\* Touching a key of the tenants is touching it by the tenants' name for it, and
\* touching another one is nothing that they see.
LEMMA ShownTouched ==
    ASSUME NEW c, NEW d, NEW call, IsCall(call), NEW f, AskedFits(d, call, f),
           d = c => call.op \in {"put", "delete"}, NEW k \in OwnKeys, NEW is
    PROVE  Shown(d, Touched(call, c, d, Prefixed(Prefix, k), is), f)
           = Touched(Shown(d, call, f), c, d, k, is)
<1> DEFINE K == Prefixed(Prefix, k)
           s == Shown(d, call, f)
           itself == IF d = c THEN "its own" ELSE "another's"
<1>1. \A l \in OwnKeys : Prefixed(Prefix, l) = K <=> l = k
  BY OwnNames
<1>2. CASE ~Seen(d, call)
  <2>1. d # c /\ s = NoCall
    BY <1>2, ShownIs DEF Seen
  <2>2. Come(NoCall, k, is) = {} /\ Mine(NoCall, k, is, itself) = {}
    BY <2>1 DEF Come, Mine, NoCall, InScope
  <2>3. Touched(s, c, d, k, is) = NoCall
    BY <2>1, <2>2, NoCallUntouched DEF Touched
  <2>4. ~Seen(d, Touched(call, c, d, K, is))
    <3>1. Touched(call, c, d, K, is).op = call.op
      BY TouchedKeeps
    <3>2. QED
      BY <1>2, <3>1 DEF Seen
  <2>5. QED
    BY <2>3, <2>4, ShownIs
<1>3. CASE Seen(d, call)
  <2> HIDE DEF K
  <2>1. call.op # "list" => \A keys : OwnOf(call, f, keys) = Own(keys)
    BY DEF OwnOf, Own
  <2>2. Own({K}) = {k} /\ Own({}) = {}
    BY <1>1 DEF Own
  <2>3. /\ s.op = call.op /\ s.keys = OwnOf(call, f, call.keys)
        /\ d \in Tenants /\ call.op = "list" => s.filter = f
    BY <1>3, ShownIs
  <2>4. OwnOf(call, f, Mine(call, K, is, itself)) = Mine(s, k, is, itself)
    <3>1. K \in call.keys /\ call.op # "list" <=> k \in s.keys /\ call.op # "list"
      BY <2>1, <2>3 DEF Own, K
    <3>2. CASE call.op = "list"
      BY <2>3, <3>2 DEF Mine, OwnOf, Own
    <3>3. CASE call.op # "list"
      BY <2>1, <2>2, <2>3, <3>1, <3>3 DEF Mine
    <3>4. QED
      BY <3>2, <3>3
  <2>5. OwnOf(call, f, Come(call, K, is)) = Come(s, k, is)
    <3>1. CASE call.op # "list"
      <4>1. InScope(call, K) <=> InScope(s, k)
        BY <2>1, <2>3, <3>1 DEF InScope, Own, K
      <4>2. QED
        BY <2>1, <2>2, <3>1, <4>1 DEF Come
    <3>2. CASE call.op = "list"
      <4>1. d \in Tenants /\ s.filter = f /\ call.filter = CombinedPrefixFilter(Prefix, f)
        BY <1>3, <2>3, <3>2 DEF Seen, AskedFits
      <4>2. (InScope(s, k) <=> Matches(f, k)) /\ (Matches(f, k) => InScope(call, K))
        BY <2>3, <3>2, <4>1, InnerFilterCovers DEF InScope, AskedFits, K
      <4>3. OwnOf(call, f, {K}) = IF Matches(f, k) THEN {k} ELSE {}
        BY <2>2, <3>2 DEF OwnOf
      <4>4. OwnOf(call, f, {}) = {}
        BY DEF OwnOf, Own
      <4>5. QED
        BY <4>2, <4>3, <4>4 DEF Come
    <3>3. QED
      BY <3>1, <3>2
  <2>6. Changed(s, OwnOf(call, f, Gone(K, is)), Come(s, k, is), Mine(s, k, is, itself))
        = Changed(s, Gone(k, is), Come(s, k, is), Mine(s, k, is, itself))
    <3>1. s.steady \ OwnOf(call, f, Gone(K, is)) = s.steady \ Gone(k, is)
      <4>1. s.steady = OwnOf(call, f, call.steady)
        BY <1>3, ShownIs
      <4>2. CASE is = "gone"
        BY <2>2, <4>1, <4>2 DEF Gone, OwnOf
      <4>3. CASE is # "gone"
        BY <4>3 DEF Gone, OwnOf, Own
      <4>4. QED
        BY <4>2, <4>3
    <3>2. QED
      BY <3>1, Zenon DEF Changed
  <2>7. Shown(d, Touched(call, c, d, K, is), f)
        = Changed(s, OwnOf(call, f, Gone(K, is)), OwnOf(call, f, Come(call, K, is)),
                  OwnOf(call, f, Mine(call, K, is, itself)))
    <3>1. PICK mine : mine = Mine(call, K, is, itself)
      OBVIOUS
    <3>2. Touched(call, c, d, K, is) = Changed(call, Gone(K, is), Come(call, K, is), mine)
      BY <3>1, Zenon DEF Touched
    <3>3. Shown(d, Changed(call, Gone(K, is), Come(call, K, is), mine), f)
          = Changed(s, OwnOf(call, f, Gone(K, is)), OwnOf(call, f, Come(call, K, is)),
                    OwnOf(call, f, mine))
      BY <1>3, ShownChanged
    <3>4. QED
      BY <3>1, <3>2, <3>3
  <2>8. QED
    BY <2>4, <2>5, <2>6, <2>7, Zenon DEF Touched, K
<1>4. QED
  BY <1>2, <1>3

LEMMA ShownUntouched ==
    ASSUME NEW c, NEW d, NEW call, IsCall(call), NEW f, NEW k, NEW is,
           \A l \in OwnKeys : Prefixed(Prefix, l) # k
    PROVE  Shown(d, Touched(call, c, d, k, is), f) = Shown(d, call, f)
<1> DEFINE new == Touched(call, c, d, k, is)
<1>1. CASE ~Seen(d, call)
  <2>1. ~Seen(d, new)
    <3>1. new.op = call.op
      BY TouchedKeeps
    <3>2. QED
      BY <1>1, <3>1 DEF Seen
  <2>2. QED
    BY <1>1, <2>1, ShownIs
<1>2. CASE Seen(d, call)
  <2> DEFINE s == Shown(d, call, f)
  <2>1. PICK mine : mine = Mine(call, k, is, IF d = c THEN "its own" ELSE "another's")
    OBVIOUS
  <2>2. new = Changed(call, Gone(k, is), Come(call, k, is), mine)
    BY <2>1, Zenon DEF Touched
  <2>3. Shown(d, new, f)
        = Changed(s, OwnOf(call, f, Gone(k, is)), OwnOf(call, f, Come(call, k, is)),
                  OwnOf(call, f, mine))
    BY <1>2, <2>2, ShownChanged
  <2>4. /\ OwnOf(call, f, Gone(k, is)) = {} /\ OwnOf(call, f, Come(call, k, is)) = {}
        /\ OwnOf(call, f, mine) = {}
    BY <2>1 DEF OwnOf, Own, Gone, Come, Mine
  <2>5. Changed(s, {}, {}, {}) = s
    BY <1>2, ShownIs, ChangedByNothing
  <2>6. QED
    BY <2>3, <2>4, <2>5
<1>3. QED
  BY <1>1, <1>2

----------------------------------------------------------------------------
(* The steps of the contract are steps of the contract for the tenants.     *)

\* The prefix layer remembers the filters of its listings.
AskedOk ==
    /\ asked = [c \in Clients |-> asked[c]]
    /\ \A c \in Clients : AskedFits(c, calls[c], asked[c])

AllCalls == \A c \in Clients : IsCall(calls[c])

PromisedToTenants == TenantKeys!Next \/ UNCHANGED <<TenantBlobs, TenantCalls>>

LEMMA TenantCallsAre ==
    /\ TenantCalls = [c \in Clients |-> Shown(c, calls[c], asked[c])]
    /\ TenantCalls' = [c \in Clients |-> Shown(c, calls'[c], asked'[c])]
BY Zenon DEF TenantCalls, Shown

LEMMA TenantBlobsAre ==
    /\ TenantBlobs = [k \in OwnKeys |-> AllBlobs[Prefixed(Prefix, k)]]
    /\ TenantBlobs' = [k \in OwnKeys |-> AllBlobs'[Prefixed(Prefix, k)]]
<1>1. \A k \in OwnKeys : /\ AllBlobs[Prefixed(Prefix, k)] = Blob(Prefixed(Prefix, k))
                         /\ AllBlobs'[Prefixed(Prefix, k)] = Blob(Prefixed(Prefix, k))'
  BY OwnNames DEF AllBlobs
<1>2. QED
  BY <1>1, Zenon DEF TenantBlobs

LEMMA ShownCalls ==
    \A c \in Clients : IsCall(TenantCalls[c]) /\ TenantCalls[c] = Shown(c, calls[c], asked[c])
<1>1. ASSUME NEW c \in Clients PROVE IsCall(Shown(c, calls[c], asked[c]))
  <2>1. PICK call : call = calls[c]
    OBVIOUS
  <2>2. PICK f : f = asked[c]
    OBVIOUS
  <2>3. IsCall(Shown(c, call, f))
    BY ShownIs DEF IsCall, NoCall
  <2>4. QED
    BY <2>1, <2>2, <2>3
<1>2. QED
  BY <1>1, TenantCallsAre

LEMMA CallsTouched ==
    ASSUME AllCalls, NEW c, NEW k
    PROVE  /\ LogTouched(calls, c, k, TRUE, TRUE)
              = [d \in Clients |-> Touched(calls[d], c, d, k, "whole")]
           /\ LogTouched(calls, c, k, TRUE, FALSE)
              = [d \in Clients |-> Touched(calls[d], c, d, k, "torn")]
           /\ LogTouched(calls, c, k, FALSE, TRUE)
              = [d \in Clients |-> Touched(calls[d], c, d, k, "gone")]
BY LogTouchedIs, Zenon DEF AllCalls

LEMMA TenantCallsTouched ==
    ASSUME NEW c, NEW k
    PROVE  /\ LogTouched(TenantCalls, c, k, TRUE, TRUE)
              = [d \in Clients |-> Touched(TenantCalls[d], c, d, k, "whole")]
           /\ LogTouched(TenantCalls, c, k, TRUE, FALSE)
              = [d \in Clients |-> Touched(TenantCalls[d], c, d, k, "torn")]
           /\ LogTouched(TenantCalls, c, k, FALSE, TRUE)
              = [d \in Clients |-> Touched(TenantCalls[d], c, d, k, "gone")]
<1>1. \A d \in Clients : IsCall(TenantCalls[d])
  BY ShownCalls
<1>2. QED
  BY <1>1, LogTouchedIs, Zenon

\* A key is touched, one of the tenants' or another one.
LEMMA TouchSeen ==
    ASSUME AskedOk, AllCalls, UNCHANGED asked,
           NEW c \in Clients, calls[c].op \in {"put", "delete"}, NEW k \in FsKeys,
           NEW is, calls' = [d \in Clients |-> Touched(calls[d], c, d, k, is)]
    PROVE  /\ (\A l \in OwnKeys : Prefixed(Prefix, l) # k) => UNCHANGED TenantCalls
           /\ \A l \in OwnKeys : Prefixed(Prefix, l) = k =>
                 TenantCalls' = [d \in Clients |-> Touched(TenantCalls[d], c, d, l, is)]
<1>1. TenantCalls' = [d \in Clients |-> Shown(d, Touched(calls[d], c, d, k, is), asked[d])]
  BY TenantCallsAre
<1>2. ASSUME \A l \in OwnKeys : Prefixed(Prefix, l) # k
      PROVE  UNCHANGED TenantCalls
  <2>1. \A d \in Clients :
           Shown(d, Touched(calls[d], c, d, k, is), asked[d]) = Shown(d, calls[d], asked[d])
    BY <1>2, ShownUntouched DEF AllCalls
  <2>2. QED
    BY <1>1, <2>1, TenantCallsAre
<1>3. ASSUME NEW l \in OwnKeys, Prefixed(Prefix, l) = k
      PROVE  TenantCalls' = [d \in Clients |-> Touched(TenantCalls[d], c, d, l, is)]
  <2>1. \A d \in Clients : Shown(d, Touched(calls[d], c, d, k, is), asked[d])
                           = Touched(Shown(d, calls[d], asked[d]), c, d, l, is)
    BY <1>3, ShownTouched DEF AllCalls, AskedOk
  <2>2. QED
    BY <1>1, <2>1, ShownCalls
<1>4. QED
  BY <1>2, <1>3

\* What a call writes to is what the tenants see it write to.
LEMMA ShownWriter ==
    ASSUME NEW c \in Clients, calls[c].op \in {"put", "delete"}
    PROVE  /\ TenantCalls[c].op = calls[c].op
           /\ \A l \in OwnKeys :
                 Prefixed(Prefix, l) \in calls[c].keys => l \in TenantCalls[c].keys
<1>1. Seen(c, calls[c])
  BY DEF Seen
<1>2. Shown(c, calls[c], asked[c]).op = calls[c].op
      /\ Shown(c, calls[c], asked[c]).keys = OwnOf(calls[c], asked[c], calls[c].keys)
  BY <1>1, ShownIs
<1>3. QED
  BY <1>2, ShownCalls DEF OwnOf, Own

LEMMA StoredTouches ==
    ASSUME AllCalls, NEW c \in Clients, NEW k \in FsKeys, AllKeys!Stored(c, k)
    PROVE  \E is \in {"whole", "torn"} :
               /\ calls' = [d \in Clients |-> Touched(calls[d], c, d, k, is)]
               /\ is = "whole" <=> AllBlobs'[k] = c
<1>1. AllKeys!Touches(c, k, TRUE, AllBlobs'[k] = c)
  BY DEF AllKeys!Stored
<1>2. CASE AllBlobs'[k] = c
  <2>1. AllKeys!Touches(c, k, TRUE, TRUE)
    <3>1. (AllBlobs'[k] = c) = TRUE
      BY <1>2
    <3>2. QED
      BY <1>1, <3>1, Zenon
  <2>2. calls' = LogTouched(calls, c, k, TRUE, TRUE)
    BY <2>1, SameTouches, TouchesAre, Zenon
  <2>3. calls' = [d \in Clients |-> Touched(calls[d], c, d, k, "whole")]
    BY <2>2, CallsTouched, Zenon
  <2>4. QED
    BY <1>2, <2>3
<1>3. CASE AllBlobs'[k] # c
  <2>1. AllKeys!Touches(c, k, TRUE, FALSE)
    <3>1. (AllBlobs'[k] = c) = FALSE
      BY <1>3
    <3>2. QED
      BY <1>1, <3>1, Zenon
  <2>2. calls' = LogTouched(calls, c, k, TRUE, FALSE)
    BY <2>1, SameTouches, TouchesAre, Zenon
  <2>3. calls' = [d \in Clients |-> Touched(calls[d], c, d, k, "torn")]
    BY <2>2, CallsTouched, Zenon
  <2>4. QED
    BY <1>3, <2>3
<1>4. QED
  BY <1>2, <1>3

LEMMA StoredSeen ==
    ASSUME AskedOk, AllCalls, UNCHANGED asked,
           NEW c \in Clients, NEW k \in FsKeys, AllKeys!Stored(c, k)
    PROVE  PromisedToTenants
<1>1. /\ calls[c].op = "put" /\ k \in calls[c].keys
      /\ AllKeys!Touches(c, k, TRUE, AllBlobs'[k] = c)
  BY DEF AllKeys!Stored
<1>2. PICK blob \in {"torn", c} : AllBlobs' = [AllBlobs EXCEPT ![k] = blob]
  BY DEF AllKeys!Stored
<1>3. PICK is \in {"whole", "torn"} :
          /\ calls' = [d \in Clients |-> Touched(calls[d], c, d, k, is)]
          /\ is = "whole" <=> AllBlobs'[k] = c
  BY StoredTouches
<1>4. CASE \A l \in OwnKeys : Prefixed(Prefix, l) # k
  <2>1. UNCHANGED TenantCalls
    BY <1>1, <1>3, <1>4, TouchSeen
  <2>2. UNCHANGED TenantBlobs
    BY <1>2, <1>4, TenantBlobsAre, OwnNames DEF AllBlobs
  <2>3. QED
    BY <2>1, <2>2 DEF PromisedToTenants
<1>5. CASE \E l \in OwnKeys : Prefixed(Prefix, l) = k
  <2>1. PICK l \in OwnKeys : Prefixed(Prefix, l) = k
    BY <1>5
  <2>2. TenantCalls' = [d \in Clients |-> Touched(TenantCalls[d], c, d, l, is)]
    BY <1>1, <1>3, <2>1, TouchSeen
  <2>3. TenantBlobs' = [TenantBlobs EXCEPT ![l] = blob] /\ TenantBlobs'[l] = AllBlobs'[k]
    BY <1>2, <2>1, TenantBlobsAre, OwnNames DEF AllBlobs
  <2>4. TenantKeys!Touches(c, l, TRUE, TenantBlobs'[l] = c)
    <3>1. CASE is = "whole"
      <4>1. TenantCalls' = [d \in Clients |-> Touched(TenantCalls[d], c, d, l, "whole")]
        BY <2>2, <3>1
      <4>2. TenantCalls' = LogTouched(TenantCalls, c, l, TRUE, TRUE)
        BY <4>1, TenantCallsTouched, Zenon
      <4>3. TenantKeys!Touches(c, l, TRUE, TRUE)
        BY <4>2, TouchesAre, Zenon
      <4>4. (TenantBlobs'[l] = c) = TRUE
        BY <1>3, <2>3, <3>1
      <4>5. QED
        BY <4>3, <4>4, Zenon
    <3>2. CASE is = "torn"
      <4>1. TenantCalls' = [d \in Clients |-> Touched(TenantCalls[d], c, d, l, "torn")]
        BY <2>2, <3>2
      <4>2. TenantCalls' = LogTouched(TenantCalls, c, l, TRUE, FALSE)
        BY <4>1, TenantCallsTouched, Zenon
      <4>3. TenantKeys!Touches(c, l, TRUE, FALSE)
        BY <4>2, TouchesAre, Zenon
      <4>4. (TenantBlobs'[l] = c) = FALSE
        BY <1>3, <2>3, <3>2
      <4>5. QED
        BY <4>3, <4>4, Zenon
    <3>3. QED
      BY <3>1, <3>2
  <2>5. TenantKeys!Stored(c, l)
    BY <1>1, <2>1, <2>3, <2>4, ShownWriter DEF TenantKeys!Stored
  <2>6. QED
    BY <2>5 DEF TenantKeys!Next, PromisedToTenants
<1>6. QED
  BY <1>4, <1>5

LEMMA RemovedTouches ==
    ASSUME AllCalls, NEW c \in Clients, NEW k \in FsKeys, AllKeys!Removed(c, k)
    PROVE  calls' = [d \in Clients |-> Touched(calls[d], c, d, k, "gone")]
<1>1. AllKeys!Touches(c, k, FALSE, TRUE)
  BY DEF AllKeys!Removed
<1>2. calls' = LogTouched(calls, c, k, FALSE, TRUE)
  BY <1>1, SameTouches, TouchesAre, Zenon
<1>3. QED
  BY <1>2, CallsTouched, Zenon

LEMMA RemovedSeen ==
    ASSUME AskedOk, AllCalls, UNCHANGED asked,
           NEW c \in Clients, NEW k \in FsKeys, AllKeys!Removed(c, k)
    PROVE  PromisedToTenants
<1>1. /\ calls[c].op = "delete" /\ k \in calls[c].keys
      /\ AllBlobs' = [AllBlobs EXCEPT ![k] = "nobody"]
      /\ AllKeys!Touches(c, k, FALSE, TRUE)
  BY DEF AllKeys!Removed
<1>2. calls' = [d \in Clients |-> Touched(calls[d], c, d, k, "gone")]
  BY RemovedTouches
<1>3. CASE \A l \in OwnKeys : Prefixed(Prefix, l) # k
  <2>1. UNCHANGED TenantCalls
    BY <1>1, <1>2, <1>3, TouchSeen
  <2>2. UNCHANGED TenantBlobs
    BY <1>1, <1>3, TenantBlobsAre, OwnNames DEF AllBlobs
  <2>3. QED
    BY <2>1, <2>2 DEF PromisedToTenants
<1>4. CASE \E l \in OwnKeys : Prefixed(Prefix, l) = k
  <2>1. PICK l \in OwnKeys : Prefixed(Prefix, l) = k
    BY <1>4
  <2>2. TenantCalls' = [d \in Clients |-> Touched(TenantCalls[d], c, d, l, "gone")]
    BY <1>1, <1>2, <2>1, TouchSeen
  <2>3. TenantBlobs' = [TenantBlobs EXCEPT ![l] = "nobody"]
    BY <1>1, <2>1, TenantBlobsAre, OwnNames DEF AllBlobs
  <2>4. TenantKeys!Touches(c, l, FALSE, TRUE)
    <3>1. TenantCalls' = LogTouched(TenantCalls, c, l, FALSE, TRUE)
      BY <2>2, TenantCallsTouched, Zenon
    <3>2. QED
      BY <3>1, TouchesAre, Zenon
  <2>5. TenantKeys!Removed(c, l)
    BY <1>1, <2>1, <2>3, <2>4, ShownWriter DEF TenantKeys!Removed
  <2>6. QED
    BY <2>5 DEF TenantKeys!Next, PromisedToTenants
<1>5. QED
  BY <1>3, <1>4

\* What the tenants see of a call, by its parts.
LEMMA ShownSeen ==
    ASSUME NEW d, NEW call, NEW f, Seen(d, call)
    PROVE  Shown(d, call, f)
           = [op |-> call.op,
              keys |-> OwnOf(call, f, call.keys),
              done |-> OwnOf(call, f, call.done),
              steady |-> OwnOf(call, f, call.steady),
              ever |-> OwnOf(call, f, call.ever),
              filter |-> IF call.op = "list" /\ d \in Tenants THEN f ELSE call.filter,
              answer |-> IF d \in Tenants THEN TenantAnswer(call.answer, f) ELSE Silent]
BY ShownIs, Zenon

Lost(call, done) == [call EXCEPT !.steady = {}, !.done = done]

LEMMA RecordLost ==
    ASSUME NEW op, NEW keys, NEW done, NEW steady, NEW ever, NEW filter, NEW answer, NEW did
    PROVE  Lost([op |-> op, keys |-> keys, done |-> done, steady |-> steady,
                 ever |-> ever, filter |-> filter, answer |-> answer], did)
           = [op |-> op, keys |-> keys, done |-> did, steady |-> {},
              ever |-> ever, filter |-> filter, answer |-> answer]
<1> DEFINE call == [op |-> op, keys |-> keys, done |-> done, steady |-> steady,
                    ever |-> ever, filter |-> filter, answer |-> answer]
<1>1. PICK new : new = [call EXCEPT !.steady = {}, !.done = did]
  OBVIOUS
<1>2. new = [op |-> op, keys |-> keys, done |-> did, steady |-> {}, ever |-> ever,
             filter |-> filter, answer |-> answer]
  BY <1>1
<1> HIDE DEF call
<1>3. QED
  BY <1>1, <1>2, Zenon DEF Lost, call

SameButDone(new, call) ==
    /\ new.op = call.op /\ new.keys = call.keys /\ new.filter = call.filter
    /\ new.answer = call.answer /\ new.steady = {} /\ new.ever = call.ever

\* A call that has lost what it found all the time, and done more.
LEMMA ShownLost ==
    ASSUME NEW d, NEW call, NEW f, NEW new, SameButDone(new, call)
    PROVE  /\ Shown(d, new, f) = Lost(Shown(d, call, f), Shown(d, new, f).done)
           /\ Seen(d, call) => /\ Shown(d, call, f).op = call.op
                               /\ Shown(d, new, f).done = OwnOf(call, f, new.done)
                               /\ Shown(d, call, f).done = OwnOf(call, f, call.done)
                               /\ Shown(d, call, f).keys = OwnOf(call, f, call.keys)
           /\ ~Seen(d, call) => Shown(d, new, f).done = {}
<1> DEFINE s == Shown(d, call, f)
           t == Shown(d, new, f)
<1> HIDE DEF s, t
<1>1. CASE ~Seen(d, call)
  <2>1. ~Seen(d, new)
    BY <1>1 DEF Seen, SameButDone
  <2>2. s = NoCall /\ t = NoCall
    BY <1>1, <2>1, ShownIs DEF s, t
  <2>3. PICK x : x = [NoCall EXCEPT !.steady = {}, !.done = {}]
    OBVIOUS
  <2>4. x = NoCall /\ NoCall.done = {}
    BY <2>3 DEF NoCall
  <2>5. t = Lost(s, t.done)
    BY <2>2, <2>3, <2>4, Zenon DEF Lost
  <2>6. QED
    BY <1>1, <2>2, <2>4, <2>5 DEF s, t
<1>2. CASE Seen(d, call)
  <2>1. PICK answer : answer = IF d \in Tenants THEN TenantAnswer(call.answer, f) ELSE Silent
    OBVIOUS
  <2>2. PICK filter : filter = IF call.op = "list" /\ d \in Tenants THEN f ELSE call.filter
    OBVIOUS
  <2>3. s = [op |-> call.op, keys |-> OwnOf(call, f, call.keys),
             done |-> OwnOf(call, f, call.done), steady |-> OwnOf(call, f, call.steady),
             ever |-> OwnOf(call, f, call.ever), filter |-> filter, answer |-> answer]
    BY <1>2, <2>1, <2>2, ShownSeen, Zenon DEF s, t
  <2>4. PICK less : less = OwnOf(call, f, new.done)
    OBVIOUS
  <2>5. t = [op |-> call.op, keys |-> OwnOf(call, f, call.keys), done |-> less, steady |-> {},
             ever |-> OwnOf(call, f, call.ever), filter |-> filter, answer |-> answer]
    <3>1. Seen(d, new)
      BY <1>2 DEF Seen, SameButDone
    <3>2. t = [op |-> new.op, keys |-> OwnOf(new, f, new.keys),
               done |-> OwnOf(new, f, new.done), steady |-> OwnOf(new, f, new.steady),
               ever |-> OwnOf(new, f, new.ever),
               filter |-> IF new.op = "list" /\ d \in Tenants THEN f ELSE new.filter,
               answer |-> IF d \in Tenants THEN TenantAnswer(new.answer, f) ELSE Silent]
      BY <3>1, ShownSeen, Zenon DEF s, t
    <3>3. \A keys : OwnOf(new, f, keys) = OwnOf(call, f, keys)
      BY Zenon DEF OwnOf, SameButDone
    <3>4. OwnOf(call, f, {}) = {}
      BY DEF OwnOf, Own
    <3>5. /\ (IF new.op = "list" /\ d \in Tenants THEN f ELSE new.filter) = filter
          /\ (IF d \in Tenants THEN TenantAnswer(new.answer, f) ELSE Silent) = answer
      BY <2>1, <2>2, Zenon DEF SameButDone
    <3>6. /\ new.op = call.op
          /\ OwnOf(new, f, new.keys) = OwnOf(call, f, call.keys)
          /\ OwnOf(new, f, new.done) = less
          /\ OwnOf(new, f, new.steady) = {}
          /\ OwnOf(new, f, new.ever) = OwnOf(call, f, call.ever)
      BY <2>4, <3>3, <3>4 DEF SameButDone
    <3>7. QED
      BY <3>2, <3>5, <3>6, Zenon
  <2>6. t = Lost(s, t.done)
    <3>1. PICK x : x = Lost(s, less)
      OBVIOUS
    <3>2. x = [op |-> call.op, keys |-> OwnOf(call, f, call.keys), done |-> less, steady |-> {},
               ever |-> OwnOf(call, f, call.ever), filter |-> filter, answer |-> answer]
      BY <2>3, <3>1, RecordLost
    <3>3. t.done = less
      BY <2>5
    <3>4. QED
      BY <2>5, <3>1, <3>2, <3>3, Zenon
  <2>7. /\ s.op = call.op /\ s.keys = OwnOf(call, f, call.keys)
        /\ s.done = OwnOf(call, f, call.done) /\ t.done = less
    BY <2>3, <2>5
  <2>8. QED
    BY <1>2, <2>4, <2>6, <2>7 DEF s, t
<1>3. QED
  BY <1>1, <1>2

Fewer(call, steady) == [call EXCEPT !.steady = steady]

LEMMA RecordFewer ==
    ASSUME NEW op, NEW keys, NEW done, NEW steady, NEW ever, NEW filter, NEW answer, NEW less
    PROVE  Fewer([op |-> op, keys |-> keys, done |-> done, steady |-> steady,
                  ever |-> ever, filter |-> filter, answer |-> answer], less)
           = [op |-> op, keys |-> keys, done |-> done, steady |-> less,
              ever |-> ever, filter |-> filter, answer |-> answer]
BY DEF Fewer

\* A tenant's call that is less certain of what it finds.
LEMMA ShownFewer ==
    ASSUME NEW d \in Tenants, NEW call, IsCall(call), NEW f, NEW less, less \subseteq call.steady
    PROVE  /\ Shown(d, Fewer(call, less), f) = Fewer(Shown(d, call, f), OwnOf(call, f, less))
           /\ Shown(d, call, f).op = call.op
           /\ OwnOf(call, f, less) \subseteq Shown(d, call, f).steady
           /\ Fewer(Shown(d, call, f), OwnOf(call, f, less)).steady = OwnOf(call, f, less)
<1>1. PICK new : new = Fewer(call, less)
  OBVIOUS
<1>2. /\ new.op = call.op /\ new.keys = call.keys /\ new.filter = call.filter
      /\ new.answer = call.answer /\ new.done = call.done /\ new.ever = call.ever
      /\ new.steady = less
  BY <1>1 DEF Fewer, IsCall
<1>3. Seen(d, call) /\ Seen(d, new)
  BY DEF Seen
<1>4. \A keys : OwnOf(new, f, keys) = OwnOf(call, f, keys)
  BY <1>2, Zenon DEF OwnOf
<1>5. PICK filter : filter = IF call.op = "list" /\ d \in Tenants THEN f ELSE call.filter
  OBVIOUS
<1>6. PICK answer : answer = IF d \in Tenants THEN TenantAnswer(call.answer, f) ELSE Silent
  OBVIOUS
<1> DEFINE shown(steady) == [op |-> call.op, keys |-> OwnOf(call, f, call.keys),
                             done |-> OwnOf(call, f, call.done), steady |-> steady,
                             ever |-> OwnOf(call, f, call.ever),
                             filter |-> filter, answer |-> answer]
<1>7. Shown(d, call, f) = shown(OwnOf(call, f, call.steady))
  BY <1>3, <1>5, <1>6, ShownSeen, Zenon
<1>8. Shown(d, new, f) = shown(OwnOf(call, f, less))
  <2>1. Shown(d, new, f)
        = [op |-> new.op, keys |-> OwnOf(new, f, new.keys),
           done |-> OwnOf(new, f, new.done), steady |-> OwnOf(new, f, new.steady),
           ever |-> OwnOf(new, f, new.ever),
           filter |-> IF new.op = "list" /\ d \in Tenants THEN f ELSE new.filter,
           answer |-> IF d \in Tenants THEN TenantAnswer(new.answer, f) ELSE Silent]
    BY <1>3, ShownSeen, Zenon
  <2>2. /\ (IF new.op = "list" /\ d \in Tenants THEN f ELSE new.filter) = filter
        /\ (IF d \in Tenants THEN TenantAnswer(new.answer, f) ELSE Silent) = answer
    BY <1>2, <1>5, <1>6, Zenon
  <2>3. /\ OwnOf(new, f, new.keys) = OwnOf(call, f, call.keys)
        /\ OwnOf(new, f, new.done) = OwnOf(call, f, call.done)
        /\ OwnOf(new, f, new.steady) = OwnOf(call, f, less)
        /\ OwnOf(new, f, new.ever) = OwnOf(call, f, call.ever)
    BY <1>2, <1>4
  <2>4. QED
    BY <1>2, <2>1, <2>2, <2>3, Zenon
<1>9. Fewer(shown(OwnOf(call, f, call.steady)), OwnOf(call, f, less)) = shown(OwnOf(call, f, less))
  BY RecordFewer
<1>10. /\ shown(OwnOf(call, f, call.steady)).op = call.op
       /\ shown(OwnOf(call, f, call.steady)).steady = OwnOf(call, f, call.steady)
       /\ shown(OwnOf(call, f, less)).steady = OwnOf(call, f, less)
  OBVIOUS
<1>11. OwnOf(call, f, less) \subseteq OwnOf(call, f, call.steady)
  BY DEF OwnOf, Own
<1> HIDE DEF shown
<1>12. QED
  BY <1>1, <1>7, <1>8, <1>9, <1>10, <1>11

LEMMA LoseSeen ==
    ASSUME AskedOk, AllCalls, UNCHANGED asked, AllKeys!Lose
    PROVE  PromisedToTenants
<1>1. /\ AllBlobs' = [k \in FsKeys |-> "nobody"]
      /\ calls' = [c \in Clients |-> [calls[c] EXCEPT !.steady = {}, !.done = calls'[c].done]]
      /\ \A c \in Clients :
            calls'[c].done \subseteq calls[c].done \cup
                (IF calls[c].op = "put" THEN calls[c].keys ELSE {})
  BY Zenon DEF AllKeys!Lose
<1>2. TenantBlobs' = [k \in OwnKeys |-> "nobody"]
  BY <1>1, TenantBlobsAre, OwnNames
<1>3. ASSUME NEW c \in Clients
      PROVE  /\ TenantCalls'[c] = Lost(TenantCalls[c], TenantCalls'[c].done)
             /\ TenantCalls'[c].done \subseteq TenantCalls[c].done \cup
                   (IF TenantCalls[c].op = "put" THEN TenantCalls[c].keys ELSE {})
  <2>1. PICK call : call = calls[c] /\ IsCall(call)
    BY DEF AllCalls
  <2>2. PICK new : new = calls'[c]
    OBVIOUS
  <2>3. PICK done : done = calls'[c].done
    OBVIOUS
  <2>4. PICK f : f = asked[c]
    OBVIOUS
  <2>5. /\ new = [call EXCEPT !.steady = {}, !.done = done]
        /\ done \subseteq call.done \cup (IF call.op = "put" THEN call.keys ELSE {})
    BY <1>1, <2>1, <2>2, <2>3, Zenon
  <2>6. PICK s : s = Shown(c, call, f) /\ s = TenantCalls[c]
    BY <2>1, <2>4, ShownCalls
  <2>7. PICK t : t = Shown(c, new, f) /\ t = TenantCalls'[c]
    BY <2>2, <2>4, TenantCallsAre
  <2>8. /\ t = Lost(s, t.done)
        /\ t.done \subseteq s.done \cup (IF s.op = "put" THEN s.keys ELSE {})
    <3>1. SameButDone(new, call) /\ new.done = done
      BY <2>1, <2>5 DEF SameButDone, IsCall
    <3>2. /\ t = Lost(s, t.done)
          /\ Seen(c, call) => /\ s.op = call.op
                              /\ t.done = OwnOf(call, f, new.done)
                              /\ s.done = OwnOf(call, f, call.done)
                              /\ s.keys = OwnOf(call, f, call.keys)
          /\ ~Seen(c, call) => t.done = {}
      <4>1. /\ Shown(c, new, f) = Lost(Shown(c, call, f), Shown(c, new, f).done)
            /\ Seen(c, call) => /\ Shown(c, call, f).op = call.op
                                /\ Shown(c, new, f).done = OwnOf(call, f, new.done)
                                /\ Shown(c, call, f).done = OwnOf(call, f, call.done)
                                /\ Shown(c, call, f).keys = OwnOf(call, f, call.keys)
            /\ ~Seen(c, call) => Shown(c, new, f).done = {}
        BY <3>1, ShownLost, Zenon
      <4>2. QED
        BY <2>6, <2>7, <4>1
    <3>3. CASE Seen(c, call)
      <4>1. t.done \subseteq s.done \cup (IF s.op = "put" THEN s.keys ELSE {})
        BY <2>5, <3>1, <3>2, <3>3 DEF OwnOf, Own
      <4>2. QED
        BY <3>2, <4>1
    <3>4. QED
      BY <3>2, <3>3
  <2>9. QED
    BY <2>6, <2>7, <2>8
<1>4. TenantCalls' = [c \in Clients |->
          [TenantCalls[c] EXCEPT !.steady = {}, !.done = TenantCalls'[c].done]]
  <2>1. TenantCalls' = [c \in Clients |-> TenantCalls'[c]]
    BY TenantCallsAre
  <2>2. QED
    BY <1>3, <2>1, Zenon DEF Lost
<1>5. TenantKeys!Lose
  BY <1>2, <1>3, <1>4, Zenon DEF TenantKeys!Lose
<1>6. QED
  BY <1>5 DEF TenantKeys!Next, PromisedToTenants

\* One call is another one, and the tenants see no other change.
LEMMA OneCallSeen ==
    ASSUME NEW c \in Clients, NEW new, calls' = [calls EXCEPT ![c] = new],
           calls = [d \in Clients |-> calls[d]],
           \A d \in Clients \ {c} : asked'[d] = asked[d]
    PROVE  /\ TenantCalls' = [TenantCalls EXCEPT ![c] = Shown(c, new, asked'[c])]
           /\ TenantCalls'[c] = Shown(c, new, asked'[c])
<1>1. calls' = [d \in Clients |-> IF d = c THEN new ELSE calls[d]]
  BY Zenon
<1>2. PICK shown : shown = Shown(c, new, asked'[c])
  OBVIOUS
<1>3. TenantCalls'[c] = shown
  BY <1>1, <1>2, TenantCallsAre
<1>4. \A d \in Clients \ {c} : TenantCalls'[d] = TenantCalls[d]
  BY <1>1, TenantCallsAre
<1>5. /\ TenantCalls = [d \in Clients |-> TenantCalls[d]]
      /\ TenantCalls' = [d \in Clients |-> TenantCalls'[d]]
  BY TenantCallsAre
<1>6. TenantCalls' = [d \in Clients |-> IF d = c THEN shown ELSE TenantCalls[d]]
  BY <1>3, <1>4, <1>5, Zenon
<1>7. TenantCalls' = [TenantCalls EXCEPT ![c] = shown]
  BY <1>5, <1>6, Zenon
<1>8. QED
  BY <1>2, <1>3, <1>7, Zenon

LEMMA Overlooked ==
    ASSUME NEW present, LogOk(present), NEW c \in Clients, AllKeys!Overlook(c)
    PROVE  \E less : /\ less \subseteq calls[c].steady
                      /\ calls' = [calls EXCEPT ![c] = Fewer(calls[c], less)]
                      /\ calls' = [d \in Clients |-> IF d = c THEN Fewer(calls[c], less)
                                                               ELSE calls[d]]
<1>1. PICK less : less = calls'[c].steady
  OBVIOUS
<1>2. less \subseteq calls[c].steady /\ calls' = [calls EXCEPT ![c].steady = less]
  BY <1>1, Zenon DEF AllKeys!Overlook
<1>3. calls' = [calls EXCEPT ![c] = Fewer(calls[c], less)]
  BY <1>2, Zenon DEF Fewer
<1>4. calls' = [d \in Clients |-> IF d = c THEN Fewer(calls[c], less) ELSE calls[d]]
  BY <1>3, Zenon DEF LogOk
<1>5. QED
  BY <1>2, <1>3, <1>4

\* A look that fails unnoticed: the tenants see it of their own calls.
LEMMA OverlookSeen ==
    ASSUME NEW present, LogOk(present), AskedOk, UNCHANGED asked,
           NEW c \in Clients, AllKeys!Overlook(c)
    PROVE  PromisedToTenants
<1>1. PICK less : /\ less \subseteq calls[c].steady
                  /\ calls' = [calls EXCEPT ![c] = Fewer(calls[c], less)]
  BY Overlooked
<1>2. StatsFail /\ calls[c].op \in {"get", "exists", "list"} /\ UNCHANGED AllBlobs
  BY DEF AllKeys!Overlook
<1>3. PICK call : call = calls[c] /\ IsCall(call)
  BY DEF LogOk, CallOk
<1>4. PICK f : f = asked[c] /\ f = asked'[c]
  OBVIOUS
<1>5. PICK new : new = Fewer(call, less)
  OBVIOUS
<1>6. /\ TenantCalls' = [TenantCalls EXCEPT ![c] = Shown(c, new, f)]
      /\ TenantCalls'[c] = Shown(c, new, f)
  BY <1>1, <1>3, <1>4, <1>5, OneCallSeen DEF LogOk
<1>7. UNCHANGED TenantBlobs
  BY <1>2, TenantBlobsAre
<1>8. TenantCalls[c] = Shown(c, call, f)
  BY <1>3, <1>4, ShownCalls
<1>9. CASE c \in Tenants
  <2>1. PICK own : own = OwnOf(call, f, less)
    OBVIOUS
  <2>2. /\ Shown(c, new, f) = Fewer(TenantCalls[c], own)
        /\ TenantCalls[c].op = call.op /\ own \subseteq TenantCalls[c].steady
        /\ Fewer(TenantCalls[c], own).steady = own
    BY <1>1, <1>3, <1>5, <1>8, <1>9, <2>1, ShownFewer
  <2>3. TenantCalls'[c].steady = own
    BY <1>6, <2>2
  <2>4. TenantCalls' = [TenantCalls EXCEPT ![c].steady = own]
    BY <1>6, <2>2, Zenon DEF Fewer
  <2>5. TenantKeys!Overlook(c)
    <3>1. TenantCalls[c].op \in {"get", "exists", "list"}
      BY <1>2, <1>3, <2>2
    <3>2. TenantCalls' = [TenantCalls EXCEPT ![c].steady = TenantCalls'[c].steady]
      BY <2>3, <2>4, Zenon
    <3>3. TenantCalls'[c].steady \subseteq TenantCalls[c].steady
      BY <2>2, <2>3
    <3>4. QED
      BY <1>2, <1>7, <3>1, <3>2, <3>3, Zenon DEF TenantKeys!Overlook
  <2>6. QED
    BY <2>5 DEF PromisedToTenants, TenantKeys!Next
<1>10. CASE c \notin Tenants
  <2>1. new.op = call.op
    BY <1>3, <1>5 DEF Fewer, IsCall
  <2>2. ~Seen(c, call) /\ ~Seen(c, new)
    BY <1>2, <1>3, <1>10, <2>1 DEF Seen
  <2>3. Shown(c, new, f) = NoCall /\ TenantCalls[c] = NoCall
    BY <1>8, <2>2, ShownIs
  <2>4. UNCHANGED TenantCalls
    BY <1>6, <2>3, TenantCallsAre
  <2>5. QED
    BY <1>7, <2>4 DEF PromisedToTenants
<1>11. QED
  BY <1>9, <1>10

\* The answer of a tenant's call that is over, and of another's.
Over(a) == [NoCall EXCEPT !.answer = a]

LEMMA ShownOver ==
    ASSUME NEW d, NEW a, NEW f
    PROVE  /\ d \in Tenants => Shown(d, Over(a), f) = Over(TenantAnswer(a, f))
           /\ d \notin Tenants => Shown(d, Over(a), f) = NoCall
<1>1. PICK call : call = [NoCall EXCEPT !.answer = a]
  OBVIOUS
<1>2. /\ call.op = "none" /\ call.keys = {} /\ call.done = {} /\ call.steady = {}
      /\ call.ever = {} /\ call.filter = Everything /\ call.answer = a
  BY <1>1 DEF NoCall
<1>3. OwnOf(call, f, {}) = {}
  BY DEF OwnOf, Own
<1>4. ASSUME d \in Tenants
      PROVE  Shown(d, call, f) = Over(TenantAnswer(a, f))
  <2>1. PICK answer : answer = TenantAnswer(a, f)
    OBVIOUS
  <2>2. Shown(d, call, f)
        = [op |-> "none", keys |-> {}, done |-> {}, steady |-> {}, ever |-> {},
           filter |-> Everything, answer |-> answer]
    <3>1. Seen(d, call)
      BY <1>4 DEF Seen
    <3>2. /\ (IF call.op = "list" /\ d \in Tenants THEN f ELSE call.filter) = Everything
          /\ (IF d \in Tenants THEN TenantAnswer(call.answer, f) ELSE Silent) = answer
      BY <1>2, <1>4, <2>1
    <3>3. QED
      BY <1>2, <1>3, <3>1, <3>2, ShownSeen, Zenon
  <2>3. PICK over : over = [NoCall EXCEPT !.answer = answer]
    OBVIOUS
  <2>4. over = [op |-> "none", keys |-> {}, done |-> {}, steady |-> {}, ever |-> {},
                filter |-> Everything, answer |-> answer]
    BY <2>3 DEF NoCall
  <2>5. QED
    BY <2>1, <2>2, <2>3, <2>4, Zenon DEF Over
<1>5. ASSUME d \notin Tenants
      PROVE  Shown(d, call, f) = NoCall
  <2>1. ~Seen(d, call)
    BY <1>2, <1>5 DEF Seen
  <2>2. QED
    BY <2>1, ShownIs
<1>6. QED
  BY <1>1, <1>4, <1>5, Zenon DEF Over

LEMMA ShownIdle ==
    ASSUME NEW d, NEW call, NEW f, call.op = "none"
    PROVE  /\ Shown(d, call, f).op = "none"
           /\ d \notin Tenants => Shown(d, call, f) = NoCall
<1>1. CASE Seen(d, call)
  BY <1>1, ShownSeen DEF Seen
<1>2. CASE ~Seen(d, call)
  <2>1. Shown(d, call, f) = NoCall
    BY <1>2, ShownIs
  <2>2. QED
    BY <2>1 DEF NoCall
<1>3. QED
  BY <1>1, <1>2

----------------------------------------------------------------------------
(* Calls that begin, are refused, or return.                                *)

LEMMA TenantsPresent == TenantKeys!Present = Own(AllKeys!Present) /\ AllKeys!Present \subseteq FsKeys
<1>1. \A k \in OwnKeys : TenantBlobs[k] = AllBlobs[Prefixed(Prefix, k)]
  BY TenantBlobsAre
<1>2. QED
  BY <1>1, OwnNames DEF TenantKeys!Present, AllKeys!Present, Own

\* What is there when a call begins, as far as it asks.
AskedOf(op, keys, filter, present) ==
    IF op = "put" THEN {}
    ELSE IF op = "list" THEN {k \in present : Matches(filter, k)} ELSE present \cap keys

LEMMA BegunIs ==
    ASSUME NEW op, NEW keys, NEW filter, NEW present
    PROVE  Begun(op, keys, filter, present)
           = [op |-> op, keys |-> keys, done |-> {},
              steady |-> AskedOf(op, keys, filter, present),
              ever |-> AskedOf(op, keys, filter, present), filter |-> filter, answer |-> Silent]
<1>1. PICK asks : asks = AskedOf(op, keys, filter, present)
  OBVIOUS
<1>2. CASE op = "list"
  <2>1. asks = {k \in present : Matches(filter, k)}
    BY <1>1, <1>2 DEF AskedOf
  <2>2. Begun(op, keys, filter, present)
        = [op |-> op, keys |-> keys, filter |-> filter, done |-> {}, answer |-> Silent,
           steady |-> asks, ever |-> asks]
    BY <1>2, <2>1 DEF Begun
  <2>3. QED
    BY <1>1, <2>2
<1>3. CASE op # "list"
  <2>1. asks = IF op = "put" THEN {} ELSE present \cap keys
    BY <1>1, <1>3 DEF AskedOf
  <2>2. Begun(op, keys, filter, present)
        = [op |-> op, keys |-> keys, filter |-> filter, done |-> {}, answer |-> Silent,
           steady |-> asks, ever |-> asks]
    BY <1>3, <2>1 DEF Begun
  <2>3. QED
    BY <1>1, <2>2
<1>4. QED
  BY <1>2, <1>3

LEMMA SilentToTenants == ASSUME NEW f PROVE TenantAnswer(Silent, f) = Silent
<1>1. Silent.found = {} /\ Listed(Prefix, f, {}) = {}
  BY DEF Silent, Answer, Listed, Stripped
<1>2. PICK a : a = [Silent EXCEPT !.found = {}]
  OBVIOUS
<1>3. a = Silent
  BY <1>2 DEF Silent, Answer
<1>4. QED
  BY <1>1, <1>2, <1>3, Zenon DEF TenantAnswer

\* A call that begins is one that begins for the tenants.
LEMMA ShownBegun ==
    ASSUME NEW d, NEW op, NEW keys, NEW filter, NEW f, NEW call,
           call = Begun(op, keys, filter, AllKeys!Present), Seen(d, call), AskedFits(d, call, f)
    PROVE  \E own, by : Shown(d, call, f) = Begun(op, own, by, TenantKeys!Present)
<1>1. PICK asks : asks = AskedOf(op, keys, filter, AllKeys!Present)
  OBVIOUS
<1>2. call = [op |-> op, keys |-> keys, done |-> {}, steady |-> asks,
              ever |-> asks, filter |-> filter, answer |-> Silent]
  BY <1>1, BegunIs, Zenon
<1>3. /\ call.op = op /\ call.keys = keys /\ call.done = {} /\ call.steady = asks
      /\ call.ever = asks /\ call.filter = filter /\ call.answer = Silent
  BY <1>2
<1>4. PICK own : own = OwnOf(call, f, keys)
  OBVIOUS
<1>5. PICK by : by = IF call.op = "list" /\ d \in Tenants THEN f ELSE call.filter
  OBVIOUS
<1>6. OwnOf(call, f, {}) = {}
  BY DEF OwnOf, Own
<1>7. OwnOf(call, f, asks) = AskedOf(op, own, by, TenantKeys!Present)
  <2>1. CASE op = "list"
    <3>1. d \in Tenants
      BY <1>3, <2>1 DEF Seen
    <3>2. by = f /\ filter = CombinedPrefixFilter(Prefix, f) /\ IsText(f.text)
      BY <1>3, <1>5, <2>1, <3>1 DEF AskedFits
    <3>3. \A k \in OwnKeys : Matches(f, k) => Matches(filter, Prefixed(Prefix, k))
      BY <3>2, InnerFilterCovers
    <3>4. asks = {k \in AllKeys!Present : Matches(filter, k)}
      BY <1>1, <2>1 DEF AskedOf
    <3>5. AskedOf(op, own, by, TenantKeys!Present)
          = {k \in Own(AllKeys!Present) : Matches(f, k)}
      BY <2>1, <3>2, TenantsPresent DEF AskedOf
    <3>6. OwnOf(call, f, asks) = {k \in Own(asks) : Matches(f, k)}
      BY <1>3, <2>1 DEF OwnOf
    <3>7. QED
      BY <3>3, <3>4, <3>5, <3>6 DEF Own
  <2>2. CASE op # "list"
    <3>1. \A s : OwnOf(call, f, s) = Own(s)
      BY <1>3, <2>2 DEF OwnOf, Own
    <3>2. CASE op = "put"
      BY <1>1, <1>6, <3>2 DEF AskedOf
    <3>3. CASE op # "put"
      <4>1. /\ asks = AllKeys!Present \cap keys
            /\ AskedOf(op, own, by, TenantKeys!Present) = TenantKeys!Present \cap own
        BY <1>1, <2>2, <3>3 DEF AskedOf
      <4>2. QED
        BY <1>4, <3>1, <4>1, TenantsPresent DEF Own
    <3>4. QED
      BY <3>2, <3>3
  <2>3. QED
    BY <2>1, <2>2
<1>8. (IF d \in Tenants THEN TenantAnswer(call.answer, f) ELSE Silent) = Silent
  BY <1>3, SilentToTenants
<1>9. PICK shown : shown = AskedOf(op, own, by, TenantKeys!Present)
  OBVIOUS
<1>10. Shown(d, call, f) = [op |-> op, keys |-> own, done |-> {}, steady |-> shown,
                            ever |-> shown, filter |-> by, answer |-> Silent]
  <2>1. Shown(d, call, f)
        = [op |-> call.op, keys |-> OwnOf(call, f, call.keys),
           done |-> OwnOf(call, f, call.done), steady |-> OwnOf(call, f, call.steady),
           ever |-> OwnOf(call, f, call.ever),
           filter |-> IF call.op = "list" /\ d \in Tenants THEN f ELSE call.filter,
           answer |-> IF d \in Tenants THEN TenantAnswer(call.answer, f) ELSE Silent]
    BY ShownSeen, Zenon
  <2>2. /\ OwnOf(call, f, call.keys) = own /\ OwnOf(call, f, call.done) = {}
        /\ OwnOf(call, f, call.steady) = shown /\ OwnOf(call, f, call.ever) = shown
    BY <1>3, <1>4, <1>6, <1>7, <1>9
  <2>3. QED
    BY <1>3, <1>5, <1>8, <2>1, <2>2, Zenon
<1>11. Shown(d, call, f) = Begun(op, own, by, TenantKeys!Present)
  BY <1>9, <1>10, BegunIs, Zenon
<1>12. QED
  BY <1>11

LEMMA BeginSeen ==
    ASSUME calls = [d \in Clients |-> calls[d]], NEW c \in Clients, AllKeys!Begin(c),
           \A d \in Clients \ {c} : asked'[d] = asked[d],
           AskedFits(c, calls'[c], asked'[c])
    PROVE  PromisedToTenants
<1>1. PICK call : call = calls'[c]
  OBVIOUS
<1>2. /\ Calls(c, call.op, call.keys, call.filter, AllKeys!Present) /\ UNCHANGED AllBlobs
      /\ call.op \in {"put", "delete", "get", "exists", "list"}
  BY <1>1, SameCalls, Zenon DEF AllKeys!Begin
<1>3. PICK begun : begun = Begun(call.op, call.keys, call.filter, AllKeys!Present)
  OBVIOUS
<1>4. calls[c].op = "none" /\ calls' = [calls EXCEPT ![c] = begun]
  BY <1>2, <1>3, Zenon DEF Calls, Busy
<1>5. call = begun
  BY <1>1, <1>4
<1>6. PICK shown : shown = Shown(c, call, asked'[c])
  OBVIOUS
<1>7. TenantCalls' = [TenantCalls EXCEPT ![c] = shown] /\ TenantCalls'[c] = shown
  BY <1>4, <1>5, <1>6, OneCallSeen
<1>8. UNCHANGED TenantBlobs
  BY <1>2, TenantBlobsAre
<1>9. TenantCalls[c].op = "none" /\ (c \notin Tenants => TenantCalls[c] = NoCall)
  BY <1>4, ShownCalls, ShownIdle
<1>10. CASE Seen(c, call)
  <2>1. AskedFits(c, call, asked'[c])
    BY <1>1
  <2>2. PICK own, by : shown = Begun(call.op, own, by, TenantKeys!Present)
    <3>1. PICK f : f = asked'[c]
      OBVIOUS
    <3>2. AskedFits(c, call, f)
      BY <2>1, <3>1
    <3>3. call = Begun(call.op, call.keys, call.filter, AllKeys!Present)
      BY <1>3, <1>5
    <3>4. \E own, by : Shown(c, call, f) = Begun(call.op, own, by, TenantKeys!Present)
      BY <1>10, <3>2, <3>3, ShownBegun
    <3>5. QED
      BY <1>6, <3>1, <3>4
  <2>3. shown.op = call.op /\ shown.keys = own /\ shown.filter = by
    BY <2>2, BegunIs
  <2>4. shown = TenantKeys!Begun(shown.op, shown.keys, shown.filter, TenantKeys!Present)
    BY <2>2, <2>3, SameForTenants, Zenon
  <2>5. TenantKeys!Begin(c)
    BY <1>2, <1>7, <1>8, <1>9, <2>3, <2>4, Zenon
    DEF TenantKeys!Begin, TenantKeys!Calls, TenantKeys!Busy
  <2>6. QED
    BY <2>5 DEF PromisedToTenants, TenantKeys!Next
<1>11. CASE ~Seen(c, call)
  <2>1. shown = NoCall /\ c \notin Tenants
    BY <1>6, <1>11, ShownIs DEF Seen
  <2>2. UNCHANGED TenantCalls
    BY <1>7, <1>9, <2>1, TenantCallsAre
  <2>3. QED
    BY <1>8, <2>2 DEF PromisedToTenants
<1>12. QED
  BY <1>10, <1>11

LEMMA RefuseSeen ==
    ASSUME calls = [d \in Clients |-> calls[d]], NEW c \in Clients, AllKeys!Refuse(c),
           \A d \in Clients \ {c} : asked'[d] = asked[d]
    PROVE  PromisedToTenants
<1>1. PICK is \in {"invalid", "misconfigured", "error"} : is = calls'[c].answer.is
  BY DEF AllKeys!Refuse
<1>2. PICK a : a = Answer(is, {})
  OBVIOUS
<1>3. /\ calls[c].op = "none" /\ Answers(c, a) /\ UNCHANGED AllBlobs
  BY <1>1, <1>2, SameAnswers
  DEF AllKeys!Refuse, AllKeys!Refused, AllKeys!Busy, AllKeys!Answer, Answer
<1>4. PICK over : over = Over(a)
  OBVIOUS
<1>5. calls' = [calls EXCEPT ![c] = over]
  BY <1>3, <1>4, Zenon DEF Answers, Over
<1>6. PICK f : f = asked'[c]
  OBVIOUS
<1>7. /\ TenantCalls' = [TenantCalls EXCEPT ![c] = Shown(c, over, f)]
      /\ TenantCalls'[c] = Shown(c, over, f)
  BY <1>5, <1>6, OneCallSeen
<1>8. UNCHANGED TenantBlobs
  BY <1>3, TenantBlobsAre
<1>9. TenantCalls[c].op = "none" /\ (c \notin Tenants => TenantCalls[c] = NoCall)
  BY <1>3, ShownCalls, ShownIdle
<1>10. CASE c \in Tenants
  <2>1. TenantAnswer(a, f) = a
    <3>1. a.found = {} /\ Listed(Prefix, f, {}) = {}
      BY <1>2 DEF Answer, Listed, Stripped
    <3>2. PICK b : b = [a EXCEPT !.found = {}]
      OBVIOUS
    <3>3. b = a
      BY <1>2, <3>2 DEF Answer
    <3>4. QED
      BY <3>1, <3>2, <3>3, Zenon DEF TenantAnswer
  <2>2. Shown(c, over, f) = Over(a)
    BY <1>4, <1>10, <2>1, ShownOver
  <2>3. Shown(c, over, f) = over /\ over.answer.is = is
    BY <1>2, <1>4, <2>2 DEF Over, NoCall, Answer
  <2>4. TenantKeys!Answers(c, a)
    BY <1>4, <1>7, <2>3, SameForTenants, Zenon DEF TenantKeys!Answers, Over
  <2>5. TenantCalls'[c].answer.is = is
    BY <1>7, <2>3
  <2>6. TenantKeys!Refused(c, TenantCalls'[c].answer.is)
    BY <1>2, <1>9, <2>4, <2>5, SameForTenants, Zenon DEF TenantKeys!Refused, TenantKeys!Busy
  <2>7. TenantKeys!Refuse(c)
    BY <1>1, <1>8, <2>5, <2>6 DEF TenantKeys!Refuse
  <2>8. QED
    BY <2>7 DEF PromisedToTenants, TenantKeys!Next
<1>11. CASE c \notin Tenants
  <2>1. Shown(c, over, f) = NoCall
    BY <1>4, <1>11, ShownOver
  <2>2. UNCHANGED TenantCalls
    BY <1>7, <1>9, <1>11, <2>1, TenantCallsAre
  <2>3. QED
    BY <1>8, <2>2 DEF PromisedToTenants
<1>12. QED
  BY <1>10, <1>11

\* What a call found all the time, and what it found at all, are keys.
LEMMA CallsKnow ==
    ASSUME NEW call, NEW present, CallOk(call, present)
    PROVE  call.steady \subseteq FsKeys /\ call.ever \subseteq FsKeys
BY DEF CallOk

\* The hint that the backend gets is the tenant's, after the tenants' prefix.
LEMMA CombinedHint ==
    ASSUME NEW f, IsText(f.text)
    PROVE  /\ PrefixHint(CombinedPrefixFilter(Prefix, f)) = Prefix \o PrefixHint(f)
           /\ AllKeys!Misspelt(<<>> \o AllKeys!PrefixHint(CombinedPrefixFilter(Prefix, f)))
              => Misspelt(Prefix \o PrefixHint(f))
<1> DEFINE h == Prefix \o PrefixHint(f)
           g == CombinedPrefixFilter(Prefix, f)
<1>1. IsText(h)
  <2>1. IsText(Prefix) /\ IsText(<<>>)
    BY CallsAssumption DEF IsText
  <2>2. IsText(PrefixHint(f))
    BY <2>1 DEF PrefixHint
  <2>3. QED
    BY <2>1, <2>2, Joining
<1>2. PrefixHint(g) = h
  BY DEF CombinedPrefixFilter, PrefixFilter, PrefixHint
<1> HIDE DEF g, h
<1>3. AllKeys!PrefixHint(g) = h
  BY <1>2 DEF AllKeys!PrefixHint, PrefixHint
<1>4. <<>> \o h = h
  BY <1>1, ConcatEmptySeq DEF IsText
<1>5. AllKeys!Misspelt(h) => Misspelt(h)
  BY DEF AllKeys!Misspelt, Misspelt, AllKeys!Sep, Sep
<1>6. QED
  BY <1>2, <1>3, <1>4, <1>5 DEF g, h

\* No name of the tenants' keys has the misspelt prefix that a filter hints at.
LEMMA NoOwnKeyMisspelt ==
    ASSUME NEW f, IsText(f.text), Misspelt(Prefix \o PrefixHint(f)), NEW k, Matches(f, k)
    PROVE  k \notin OwnKeys
<1> SUFFICES ASSUME k \in OwnKeys PROVE FALSE
  OBVIOUS
<1>1. IsText(Prefix) /\ IsText(k) /\ IsText(<<>>) /\ Prefixed(Prefix, k) \in FsKeys
  BY CallsAssumption, OwnNames DEF IsText
<1>2. IsText(PrefixHint(f))
  BY <1>1 DEF PrefixHint
<1>3. IsPrefix(PrefixHint(f), k)
  BY <1>1, HintsFit DEF IsText
<1>4. IsPrefix(Prefix \o PrefixHint(f), Prefixed(Prefix, k))
  BY <1>1, <1>2, <1>3, LongerPrefix DEF Prefixed
<1>5. IsText(Prefix \o PrefixHint(f))
  BY <1>1, <1>2, Joining
<1>6. QED
  BY <1>1, <1>4, <1>5, NoKeyMisspelt

LEMMA SameMisspelt ==
    \A f : Misspelt(Prefix \o PrefixHint(f)) => TenantKeys!Misspelt(Prefix \o TenantKeys!PrefixHint(f))
<1> TAKE f
<1>1. TenantKeys!PrefixHint(f) = PrefixHint(f)
  BY DEF TenantKeys!PrefixHint, PrefixHint
<1> DEFINE h == Prefix \o PrefixHint(f)
<1>2. Misspelt(h) => TenantKeys!Misspelt(h)
  BY DEF TenantKeys!Misspelt, Misspelt, TenantKeys!Sep, Sep
<1>3. QED
  BY <1>1, <1>2

\* An answer that is true is true by the tenants' names.
LEMMA TruthSeen ==
    ASSUME NEW d, NEW call, NEW present, CallOk(call, present), NEW a, IsAnswer(a), NEW f,
           AskedFits(d, call, f), Seen(d, call), AllKeys!Truthful(call, a)
    PROVE  TenantKeys!Truthful(Shown(d, call, f), TenantAnswer(a, f))
<1> DEFINE s == Shown(d, call, f)
           b == TenantAnswer(a, f)
<1>1. /\ s.op = call.op /\ s.keys = OwnOf(call, f, call.keys)
      /\ s.done = OwnOf(call, f, call.done) /\ s.steady = OwnOf(call, f, call.steady)
      /\ s.ever = OwnOf(call, f, call.ever)
  BY ShownSeen
<1>2. b.is = a.is /\ b.found = Listed(Prefix, f, a.found)
  <2>1. PICK found : found = Listed(Prefix, f, a.found)
    OBVIOUS
  <2>2. PICK x : x = [a EXCEPT !.found = found]
    OBVIOUS
  <2>3. x.is = a.is /\ x.found = found
    BY <2>2 DEF IsAnswer
  <2>4. b = x
    BY <2>1, <2>2, Zenon DEF TenantAnswer
  <2>5. QED
    BY <2>1, <2>3, <2>4
<1>3. /\ call.done \subseteq FsKeys /\ call.ever \subseteq FsKeys
      /\ call.op \in {"none", "put", "delete", "get", "exists", "list"}
  BY DEF CallOk
<1>4. ASSUME NEW keys, keys \subseteq FsKeys, call.op \in {"get", "exists", "list", "delete"}
      PROVE  Listed(Prefix, f, keys) = OwnOf(call, f, keys)
  <2>1. Listed(Prefix, f, keys) = {k \in Own(keys) : Matches(f, k)}
    BY <1>4, OwnNames DEF Listed
  <2>2. CASE call.op = "list"
    BY <2>1, <2>2 DEF OwnOf
  <2>3. CASE call.op # "list"
    <3>1. f = Everything
      BY <1>4, <2>3 DEF AskedFits
    <3>2. \A k \in OwnKeys : Matches(f, k)
      <4>1. \A k \in OwnKeys : IsPrefix(<<>>, k)
        BY OwnNames DEF IsPrefix, IsText
      <4>2. 0 % 2 = 0
        OBVIOUS
      <4>3. QED
        BY <3>1, <4>1, <4>2 DEF Everything, PrefixFilter, Matches
    <3>3. QED
      BY <2>1, <2>3, <3>2 DEF OwnOf, Own
  <2>4. QED
    BY <2>2, <2>3
<1> HIDE DEF s, b
<1>5. CASE a.is = "ok" /\ call.op \in {"put", "delete"}
  <2>1. call.done = call.keys
    BY <1>5 DEF AllKeys!Truthful
  <2>2. s.done = s.keys
    BY <1>1, <2>1
  <2>3. QED
    BY <1>1, <1>2, <1>5, <2>2 DEF TenantKeys!Truthful, s, b
<1>6. CASE a.is = "ok" /\ call.op \in {"get", "exists", "list"}
  <2> DEFINE keys == a.found \cap FsKeys
             others == a.found \ FsKeys
  <2>1. /\ call.steady \subseteq keys /\ keys \subseteq call.ever
        /\ others # {} => call.op = "list" /\ AllKeys!Misspelt(<<>> \o AllKeys!PrefixHint(call.filter))
    BY <1>6, CallsKnow DEF AllKeys!Truthful, AllKeys!Invented
  <2>2. /\ b.found = Listed(Prefix, f, keys) \cup Listed(Prefix, f, others)
        /\ Listed(Prefix, f, {}) = {}
    BY <1>2 DEF Listed, Stripped
  <2>3. Listed(Prefix, f, keys) = OwnOf(call, f, keys)
    BY <1>4, <1>6
  <2>4. s.steady \subseteq b.found /\ Listed(Prefix, f, keys) \subseteq s.ever
    <3>1. /\ OwnOf(call, f, call.steady) \subseteq OwnOf(call, f, keys)
          /\ OwnOf(call, f, keys) \subseteq OwnOf(call, f, call.ever)
      BY <2>1 DEF OwnOf, Own
    <3> HIDE DEF keys, others
    <3>2. QED
      BY <1>1, <2>2, <2>3, <3>1
  <2>5. ASSUME NEW k \in Listed(Prefix, f, others) PROVE TenantKeys!Invented(s, k)
    <3>1. call.op = "list" /\ others # {} /\ Matches(f, k)
      <4>1. others # {} /\ Matches(f, k)
        BY <2>2, <2>5 DEF Listed
      <4>2. QED
        BY <2>1, <4>1
    <3>2. d \in Tenants /\ IsText(f.text) /\ call.filter = CombinedPrefixFilter(Prefix, f)
      BY <3>1 DEF Seen, AskedFits
    <3>3. Misspelt(Prefix \o PrefixHint(f))
      BY <2>1, <3>1, <3>2, CombinedHint
    <3>4. k \notin OwnKeys
      BY <3>1, <3>2, <3>3, NoOwnKeyMisspelt
    <3>5. s.filter = f
      BY <3>1, <3>2, ShownSeen DEF s
    <3>6. QED
      BY <1>1, <3>1, <3>3, <3>4, <3>5, SameMisspelt DEF TenantKeys!Invented
  <2> HIDE DEF keys, others
  <2>6. TenantKeys!Truthful(s, b)
    BY <1>1, <1>2, <1>6, <2>2, <2>4, <2>5 DEF TenantKeys!Truthful
  <2>7. QED
    BY <2>6 DEF s, b
<1>7. CASE a.is = "batch"
  <2>1. call.op = "delete" /\ a.found \subseteq call.done
    BY <1>7 DEF AllKeys!Truthful
  <2>2. b.found \subseteq s.done
    <3>1. b.found = OwnOf(call, f, a.found)
      BY <1>2, <1>3, <1>4, <2>1
    <3>2. QED
      BY <1>1, <2>1, <3>1 DEF OwnOf, Own
  <2>3. TenantKeys!Truthful(s, b)
    BY <1>1, <1>2, <1>7, <2>1, <2>2 DEF TenantKeys!Truthful
  <2>4. QED
    BY <2>3 DEF s, b
<1>8. CASE a.is = "missing"
  <2>1. call.op = "get" /\ call.steady = {}
    BY <1>8 DEF AllKeys!Truthful
  <2>2. s.steady = {}
    BY <1>1, <2>1 DEF OwnOf, Own
  <2>3. TenantKeys!Truthful(s, b)
    BY <1>1, <1>2, <1>8, <2>1, <2>2 DEF TenantKeys!Truthful
  <2>4. QED
    BY <2>3 DEF s, b
<1>9. CASE /\ a.is \notin {"batch", "missing"}
           /\ ~(a.is = "ok" /\ call.op \in {"put", "delete", "get", "exists", "list"})
  <2>1. a.is \in {"none", "error", "broken", "misconfigured"}
    BY <1>9 DEF AllKeys!Truthful
  <2>2. TenantKeys!Truthful(s, b)
    BY <1>2, <2>1 DEF TenantKeys!Truthful
  <2>3. QED
    BY <2>2 DEF s, b
<1>10. QED
  BY <1>5, <1>6, <1>7, <1>8, <1>9

LEMMA ReturnSeen ==
    ASSUME NEW present, LogOk(present), AskedOk, UNCHANGED asked,
           NEW c \in Clients, AllKeys!Return(c), IsAnswer(calls'[c].answer)
    PROVE  PromisedToTenants
<1>1. PICK a : a = calls'[c].answer
  OBVIOUS
<1>2. /\ calls[c].op # "none" /\ AllKeys!Truthful(calls[c], a) /\ Answers(c, a)
      /\ UNCHANGED AllBlobs /\ IsAnswer(a)
  BY <1>1, SameAnswers DEF AllKeys!Return, AllKeys!Busy
<1>3. PICK call : call = calls[c]
  OBVIOUS
<1>4. PICK f : f = asked[c] /\ f = asked'[c]
  OBVIOUS
<1>5. PICK over : over = Over(a)
  OBVIOUS
<1>6. calls' = [calls EXCEPT ![c] = over]
  BY <1>2, <1>5, Zenon DEF Answers, Over
<1>7. /\ TenantCalls' = [TenantCalls EXCEPT ![c] = Shown(c, over, f)]
      /\ TenantCalls'[c] = Shown(c, over, f)
  BY <1>4, <1>6, OneCallSeen DEF LogOk
<1>8. UNCHANGED TenantBlobs
  BY <1>2, TenantBlobsAre
<1>9. CallOk(call, present) /\ AskedFits(c, call, f)
  BY <1>3, <1>4 DEF LogOk, AskedOk
<1>10. TenantCalls[c] = Shown(c, call, f)
  BY <1>3, <1>4, ShownCalls
<1>11. CASE ~Seen(c, call)
  <2>1. Shown(c, over, f) = NoCall /\ TenantCalls[c] = NoCall
    BY <1>5, <1>10, <1>11, ShownOver, ShownIs DEF Seen
  <2>2. UNCHANGED TenantCalls
    BY <1>7, <2>1, TenantCallsAre
  <2>3. QED
    BY <1>8, <2>2 DEF PromisedToTenants
<1>12. CASE Seen(c, call)
  <2>1. TenantCalls[c].op = call.op
    BY <1>10, <1>12, ShownSeen
  <2>2. PICK b : b = IF c \in Tenants THEN TenantAnswer(a, f) ELSE Silent
    OBVIOUS
  <2>3. Shown(c, over, f) = Over(b)
    <3>1. CASE c \in Tenants
      BY <1>5, <2>2, <3>1, ShownOver
    <3>2. CASE c \notin Tenants
      <4>1. PICK x : x = [NoCall EXCEPT !.answer = Silent]
        OBVIOUS
      <4>2. x = NoCall
        BY <4>1 DEF NoCall
      <4>3. Over(Silent) = NoCall
        BY <4>1, <4>2, Zenon DEF Over
      <4>4. QED
        BY <1>5, <2>2, <3>2, <4>3, ShownOver
    <3>3. QED
      BY <3>1, <3>2
  <2>4. TenantKeys!Truthful(TenantCalls[c], b)
    <3>1. CASE c \in Tenants
      BY <1>2, <1>3, <1>9, <1>10, <1>12, <2>2, <3>1, TruthSeen
    <3>2. CASE c \notin Tenants
      <4>1. b.is = "none"
        BY <2>2, <3>2 DEF Silent, Answer
      <4>2. QED
        BY <4>1 DEF TenantKeys!Truthful
    <3>3. QED
      BY <3>1, <3>2
  <2>5. TenantCalls'[c].answer = b
    <3>1. PICK x : x = [NoCall EXCEPT !.answer = b]
      OBVIOUS
    <3>2. x.answer = b
      BY <3>1 DEF NoCall
    <3>3. Over(b) = x
      BY <3>1, Zenon DEF Over
    <3>4. QED
      BY <1>7, <2>3, <3>2, <3>3
  <2>6. TenantKeys!Answers(c, b)
    BY <1>7, <2>3, SameForTenants, Zenon DEF TenantKeys!Answers, Over
  <2>7. TenantKeys!Return(c)
    BY <1>2, <1>3, <1>8, <2>1, <2>4, <2>5, <2>6 DEF TenantKeys!Return, TenantKeys!Busy
  <2>8. QED
    BY <2>7 DEF PromisedToTenants, TenantKeys!Next
<1>13. QED
  BY <1>11, <1>12

----------------------------------------------------------------------------
(* What the prefix layer remembers of the filters, and the steps together.  *)

LEMMA SameAsked ==
    ASSUME NEW d, NEW call, NEW new, NEW f, AskedFits(d, call, f),
           new.op = "none" \/ (new.op = call.op /\ new.filter = call.filter)
    PROVE  AskedFits(d, new, f)
BY DEF AskedFits

LEMMA ServedKeepsAsked ==
    ASSUME NEW present, LogOk(present), AskedOk, Served, UNCHANGED asked
    PROVE  AskedOk'
<1>1. AllCalls
  BY DEF LogOk, AllCalls, CallOk
<1>2. ASSUME \A d \in Clients : \/ calls'[d].op = "none"
                                \/ calls'[d].op = calls[d].op /\ calls'[d].filter = calls[d].filter
      PROVE  AskedOk'
  BY <1>2, SameAsked DEF AskedOk
<1>3. CASE AllKeys!Lose
  <2>1. ASSUME NEW d \in Clients
        PROVE  calls'[d].op = calls[d].op /\ calls'[d].filter = calls[d].filter
    <3>1. PICK call : call = calls[d] /\ IsCall(call)
      BY <1>1 DEF AllCalls
    <3>2. PICK done : done = calls'[d].done
      OBVIOUS
    <3>3. calls'[d] = [call EXCEPT !.steady = {}, !.done = done]
      BY <1>3, <3>1, <3>2, Zenon DEF AllKeys!Lose
    <3>4. QED
      BY <3>1, <3>3 DEF IsCall
  <2>2. QED
    BY <1>2, <2>1
<1>4. ASSUME NEW c \in Clients, AllKeys!Return(c) PROVE AskedOk'
  <2>1. PICK a : a = calls'[c].answer
    OBVIOUS
  <2>2. Answers(c, a)
    BY <1>4, <2>1, SameAnswers DEF AllKeys!Return
  <2>3. PICK over : over = [NoCall EXCEPT !.answer = a]
    OBVIOUS
  <2>4. over.op = "none"
    BY <2>3 DEF NoCall
  <2>5. calls' = [calls EXCEPT ![c] = over]
    BY <2>2, <2>3, Zenon DEF Answers
  <2>6. calls' = [d \in Clients |-> IF d = c THEN over ELSE calls[d]]
    BY <2>5, Zenon DEF LogOk
  <2>7. QED
    BY <1>2, <2>4, <2>6
<1>5. ASSUME NEW c \in Clients, NEW k \in FsKeys, AllKeys!Stored(c, k) \/ AllKeys!Removed(c, k)
      PROVE  AskedOk'
  <2>1. PICK is : calls' = [d \in Clients |-> Touched(calls[d], c, d, k, is)]
    BY <1>1, <1>5, StoredTouches, RemovedTouches
  <2>2. QED
    BY <1>1, <1>2, <2>1, TouchedKeeps DEF AllCalls
<1>6. ASSUME NEW c \in Clients, AllKeys!Overlook(c) PROVE AskedOk'
  <2>1. PICK less : calls' = [d \in Clients |-> IF d = c THEN Fewer(calls[c], less) ELSE calls[d]]
    BY <1>6, Overlooked
  <2>2. PICK call : call = calls[c] /\ IsCall(call)
    BY <1>1 DEF AllCalls
  <2>3. Fewer(call, less).op = call.op /\ Fewer(call, less).filter = call.filter
    BY <2>2 DEF Fewer, IsCall
  <2>4. QED
    BY <1>2, <2>1, <2>2, <2>3
<1>7. CASE UNCHANGED <<AllBlobs, calls>>
  BY <1>2, <1>7
<1>8. QED
  BY <1>3, <1>4, <1>5, <1>6, <1>7 DEF Served

\* What a call asks, the prefix layer asks with its prefix.
LEMMA CallAsks ==
    ASSUME NEW c \in Clients, Call(c), NEW present, LogOk(present)
    PROVE  \E f : /\ asked' = [asked EXCEPT ![c] = f] /\ AskedFits(c, calls'[c], f)
<1>1. ASSUME NEW op, NEW keys, NEW filter, NEW now, Calls(c, op, keys, filter, now)
      PROVE  calls'[c].op = op /\ calls'[c].filter = filter
  <2>1. calls' = [calls EXCEPT ![c] = Begun(op, keys, filter, now)]
    BY <1>1 DEF Calls
  <2>2. calls'[c] = Begun(op, keys, filter, now)
    BY <2>1, Zenon DEF LogOk
  <2>3. QED
    BY <2>2 DEF Begun
<1>2. IsText(Everything.text)
  BY DEF Everything, PrefixFilter, IsText
<1>3. ASSUME NEW op \in {"put", "delete", "get", "exists"}, calls'[c].op = op
      PROVE  AskedFits(c, calls'[c], Everything)
  BY <1>2, <1>3 DEF AskedFits
<1>4. ASSUME NEW batch \in Batches[c], Put(c, batch) \/ Delete(c, batch)
      PROVE  asked' = [asked EXCEPT ![c] = Everything] /\ calls'[c].op \in {"put", "delete"}
  BY <1>1, <1>4 DEF Put, Delete, Forwarded, PutFiles, PutObjects, UnlinkFiles, DeleteObjects,
     FsBegins, S3Begins
<1>5. ASSUME NEW k, Get(c, k) \/ Exists(c, k)
      PROVE  asked' = [asked EXCEPT ![c] = Everything] /\ calls'[c].op \in {"get", "exists"}
  BY <1>1, <1>5 DEF Get, Exists, Forwarded, GetFile, GetFileWithMeta, FileExists, GetObject,
     HeadObject, FsBegins, S3Begins
<1>6. ASSUME NEW batch, NEW f, Refuse(c, batch, f)
      PROVE  /\ asked' = [asked EXCEPT ![c] = Everything]
             /\ AskedFits(c, calls'[c], Everything)
  <2>1. /\ asked' = [asked EXCEPT ![c] = Everything]
        /\ \E is : Refused(c, is)
    BY <1>6 DEF Refuse, FsRefuses, S3Refuses
  <2>2. PICK a : Answers(c, a)
    BY <2>1 DEF Refused
  <2>3. calls'[c] = [NoCall EXCEPT !.answer = a]
    BY <2>2, Zenon DEF Answers, LogOk
  <2>4. calls'[c].op = "none"
    BY <2>3 DEF NoCall
  <2>5. QED
    BY <1>2, <2>1, <2>4 DEF AskedFits
<1>7. ASSUME NEW f \in Filters[c], List(c, f)
      PROVE  asked' = [asked EXCEPT ![c] = f] /\ AskedFits(c, calls'[c], f)
  <2>1. /\ asked' = [asked EXCEPT ![c] = f]
        /\ \E keys, now : Calls(c, "list", keys, InnerFilter(c, f), now)
    BY <1>7 DEF List, Walk, ListObjects, S3Begins
  <2>2. calls'[c].op = "list" /\ calls'[c].filter = InnerFilter(c, f)
    BY <1>1, <2>1
  <2>3. IsText(f.text)
    BY CallsAssumption
  <2>4. QED
    BY <2>1, <2>2, <2>3 DEF AskedFits, InnerFilter
<1>8. QED
  BY <1>3, <1>4, <1>5, <1>6, <1>7 DEF Call

LEMMA CallSeen ==
    ASSUME NEW present, LogOk(present), AskedOk, NEW c \in Clients, Call(c), Called(c)
    PROVE  AskedOk' /\ PromisedToTenants
<1>1. PICK f : asked' = [asked EXCEPT ![c] = f] /\ AskedFits(c, calls'[c], f)
  BY CallAsks
<1>2. asked' = [d \in Clients |-> IF d = c THEN f ELSE asked[d]]
  BY <1>1, Zenon DEF AskedOk
<1>3. \A d \in Clients \ {c} : asked'[d] = asked[d]
  BY <1>2
<1>4. AskedFits(c, calls'[c], asked'[c])
  <2>1. asked'[c] = f
    BY <1>2
  <2>2. QED
    BY <1>1, <2>1
<1>5. \A d \in Clients \ {c} : calls'[d] = calls[d]
  <2>1. \E new : calls' = [calls EXCEPT ![c] = new]
    BY Zenon DEF Called, AllKeys!Begin, AllKeys!Calls, AllKeys!Refuse, AllKeys!Refused, AllKeys!Answers
  <2>2. QED
    BY <2>1 DEF LogOk
<1>6. AskedOk'
  <2>1. ASSUME NEW d \in Clients PROVE AskedFits(d, calls'[d], asked'[d])
    BY <1>3, <1>4, <1>5 DEF AskedOk
  <2>2. asked' = [d \in Clients |-> asked'[d]]
    BY <1>2
  <2>3. QED
    BY <2>1, <2>2 DEF AskedOk
<1>7. PromisedToTenants
  BY <1>3, <1>4, BeginSeen, RefuseSeen DEF LogOk, Called
<1>8. QED
  BY <1>6, <1>7

\* Every step of the contract is one that the tenants' contract allows.
LEMMA TenantsStep ==
    ASSUME NEW present, LogOk(present), AskedOk, Promised
    PROVE  AskedOk' /\ PromisedToTenants
<1>1. AllCalls
  BY DEF LogOk, AllCalls, CallOk
<1>2. CASE Served /\ UNCHANGED asked
  <2>1. CASE UNCHANGED <<AllBlobs, calls>>
    <3>1. UNCHANGED <<TenantBlobs, TenantCalls>>
      BY <1>2, <2>1, TenantBlobsAre, TenantCallsAre
    <3>2. QED
      BY <1>2, <3>1, ServedKeepsAsked DEF PromisedToTenants
  <2>2. QED
    BY <1>1, <1>2, <2>1, ServedKeepsAsked, LoseSeen, ReturnSeen, OverlookSeen,
       StoredSeen, RemovedSeen DEF Served
<1>3. CASE \E c \in Clients : Call(c) /\ Called(c)
  BY <1>3, CallSeen
<1>4. QED
  BY <1>2, <1>3 DEF Promised

LEMMA TenantsInit ==
    ASSUME Init, AllKeys!Init
    PROVE  AskedOk /\ TenantKeys!Init
<1>1. calls = [c \in Clients |-> NoCall]
  BY DEF Init, FsInit, S3Init
<1>2. IsText(Everything.text) /\ NoCall.op = "none"
  BY DEF Everything, PrefixFilter, IsText, NoCall
<1>3. AskedOk
  BY <1>1, <1>2 DEF Init, AskedOk, AskedFits
<1>4. TenantBlobs = [k \in OwnKeys |-> "nobody"]
  BY TenantBlobsAre, OwnNames DEF AllKeys!Init
<1>5. \A d, f : Shown(d, NoCall, f) = NoCall
  <2> TAKE d, f
  <2>1. Over(Silent) = NoCall
    <3>1. PICK x : x = [NoCall EXCEPT !.answer = Silent]
      OBVIOUS
    <3>2. x = NoCall
      BY <3>1 DEF NoCall
    <3>3. QED
      BY <3>1, <3>2, Zenon DEF Over
  <2>2. QED
    BY <2>1, ShownOver, SilentToTenants
<1>6. TenantCalls = [c \in Clients |-> NoCall]
  BY <1>1, <1>5, TenantCallsAre
<1>7. QED
  BY <1>3, <1>4, <1>6, SameForTenants DEF TenantKeys!Init
===============================================================================
