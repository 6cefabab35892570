---------------------------------- MODULE Keys ---------------------------------
(***************************************************************************)
(* Blob keys as texts: what makes one valid (validate.rs), what the        *)
(* built-in filters accept and hint at (list_filter.rs), and how the       *)
(* prefix layer moves keys, filters and answers in and out of its part of  *)
(* the key space (prefix.rs).  A text is a sequence of symbols: "/", ".",  *)
(* the backslash, and letters, each of which may stand for a longer piece. *)
(***************************************************************************)
EXTENDS Integers, Sequences, SequencesExt

Sep == "/"
Root == <<>>    \* the empty text: the root directory, and the hint `None`

IsText(t) == t \in Seq(ToSet(t))

Cuts(t) == {0, Len(t) + 1} \cup {i \in DOMAIN t : t[i] = Sep}

\* split('/'): the pieces between two neighbouring separators.
Components(t) ==
    {SubSeq(t, cut[1] + 1, cut[2] - 1) : cut \in
        {p \in Cuts(t) \X Cuts(t) :
            p[1] < p[2] /\ \A i \in Cuts(t) : i <= p[1] \/ i >= p[2]}}

Valid(t) ==
    /\ t # <<>>
    /\ \A i \in DOMAIN t : t[i] # "\\"
    /\ \A name \in Components(t) : name \notin {<<>>, <<".">>, <<".", ".">>}

\* Where a key lies on the filesystem: below all the directories it names.
Directories(t) == {SubSeq(t, 1, i - 1) : i \in {j \in DOMAIN t : t[j] = Sep}} \cup {Root}
Parent(t) ==
    CHOOSE d \in Directories(t) : \A e \in Directories(t) : Len(e) <= Len(d)

----------------------------------------------------------------------------
(* PrefixFilter, SuffixFilter, and either of them inside `nots` NotFilters. *)

PrefixFilter(t) == [kind |-> "prefix", text |-> t, nots |-> 0]
SuffixFilter(t) == [kind |-> "suffix", text |-> t, nots |-> 0]
NotFilter(f)    == [f EXCEPT !.nots = @ + 1]
Everything      == PrefixFilter(<<>>)

Matches(f, t) ==
    (IF f.kind = "prefix" THEN IsPrefix(f.text, t) ELSE IsSuffix(f.text, t))
    = (f.nots % 2 = 0)

\* Mutant of PrefixHint: a negated prefix still narrows the search.
PrefixHintOfNot(f) == IF f.kind = "prefix" THEN f.text ELSE <<>>

\* Where a backend may restrict its search to.
PrefixHint(f) == IF f.kind = "prefix" /\ f.nots = 0 THEN f.text ELSE <<>>

\* A hint may not lead out of the root, but need not be a valid key.
ValidHint(t) ==
    /\ t # <<>> => t[1] # Sep
    /\ \A i \in DOMAIN t : t[i] # "\\"
    /\ Components(t) \cap {<<".">>, <<".", ".">>} = {}

\* Nor need it spell a path as keys do: "a//" is accepted.
Misspelt(t) == \E i \in DOMAIN t : t[i] = Sep /\ (i = 1 \/ t[i - 1] = Sep)

----------------------------------------------------------------------------
(* PrefixBlobStore with prefix p: keys on the way in and on the way out.    *)

Prefixed(p, k) == p \o k
Accepts(p, k)  == Valid(k) /\ Valid(Prefixed(p, k))

\* strip_prefix and filter_map: the caller's names of the keys under p.
Stripped(p, inner) ==
    {SubSeq(k, Len(p) + 1, Len(k)) : k \in {k \in inner : IsPrefix(p, k)}}

CombinedPrefixFilter(p, f) == PrefixFilter(p \o PrefixHint(f))

\* Mutant of Listed: the caller's filter is forgotten.
ListedUnfiltered(p, f, inner) == Stripped(p, inner)

\* The caller's own filter sees the stripped keys.
Listed(p, f, inner) == {k \in Stripped(p, inner) : Matches(f, k)}
===============================================================================
