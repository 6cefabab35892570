------------------------------- MODULE MCBackends ------------------------------
(* Small buckets and directories: a tenant behind the prefix "t/" and a       *)
(* caller without one.                                                        *)
EXTENDS Backends

CONSTANTS tenant, other

A == <<"a">>
B == <<"a", "/", "b">>    \* below a: both cannot be files
U == <<"u">>
P == <<"t", "/">>

KeysInUse  == <<P \o A, P \o B, U>>
KeySet     == ToSet(KeysInUse)
BatchesInUse ==
    tenant :> {<<A, B>>, <<<<".", ".">>>>} @@ other :> {<<P \o A>>, <<U>>}
FiltersInUse ==
    tenant :> {SuffixFilter(<<"b">>), PrefixFilter(B), NotFilter(PrefixFilter(B)), PrefixFilter(<<".", ".">>),
               PrefixFilter(<<"/">>)}
    @@ other :> {PrefixFilter(<<"t">>), PrefixFilter(<<"t", "/", "/", "a">>)}

\* The answers of calls that are over, and what is left of their uploads, have
\* no part in what happens next.
StateView ==
    <<tree, walker, objects, request, backend,
      [c \in Clients |-> IF Busy(c) THEN <<calls[c], asked[c]>> ELSE <<>>],
      [c \in Clients |-> IF Doing(c, {"part", "complete"}) THEN uploads[c] ELSE <<>>]>>
===============================================================================
