------------------------------ MODULE FsStoreProofs ----------------------------
(***************************************************************************)
(* The filesystem backend: the shape of its tree, what its listings and    *)
(* writes know of it while others change it, and its steps as steps of the *)
(* contract, for any keys, batches, clients and chunks.                    *)
(***************************************************************************)
EXTENDS CallLogProofs, WellFoundedInduction

LEMMA LeastOf ==
    ASSUME NEW S, S \subseteq Nat, S # {}
    PROVE  \E n \in S : \A m \in S : n <= m
<1>1. IsWellFoundedOn(OpToRel(<, Nat), Nat)
  BY NatLessThanWellFounded
<1>2. PICK n \in S : \A m \in S : <<m, n>> \notin OpToRel(<, Nat)
  BY <1>1, WFMin
<1>3. \A m \in S : m \in Nat /\ n \in Nat
  OBVIOUS
<1>4. \A m \in S : ~(m < n)
  BY <1>2, <1>3, Zenon DEF OpToRel
<1>5. QED
  BY <1>3, <1>4

\* The greatest of the numbers up to a bound.
LEMMA GreatestOf ==
    ASSUME NEW S, NEW b \in Nat, S \subseteq 0 .. b, S # {}
    PROVE  \E n \in S : \A m \in S : m <= n
<1> DEFINE T == {b - n : n \in S}
<1>1. T \subseteq Nat /\ T # {}
  <2>1. \A n \in S : b - n \in Nat
    OBVIOUS
  <2>2. PICK n \in S : TRUE
    OBVIOUS
  <2>3. b - n \in T
    OBVIOUS
  <2>4. QED
    BY <2>1, <2>3
<1>2. PICK t \in T : \A u \in T : t <= u
  BY <1>1, LeastOf
<1>3. PICK n \in S : t = b - n
  OBVIOUS
<1>4. ASSUME NEW m \in S PROVE m <= n
  <2>1. b - m \in T /\ m \in 0 .. b /\ n \in 0 .. b
    OBVIOUS
  <2>2. b - n <= b - m
    BY <1>2, <1>3, <2>1
  <2>3. QED
    BY <2>1, <2>2
<1>5. QED
  BY <1>4

----------------------------------------------------------------------------
(* Paths.                                                                   *)

\* A directory of t is what stands before one of its separators, or the root.
LEMMA DirectoriesAre ==
    ASSUME NEW t, IsText(t)
    PROVE  /\ Len(t) \in Nat
           /\ \A d \in Directories(t) :
                 /\ Len(d) \in Nat /\ Len(d) <= Len(t) /\ d = SubSeq(t, 1, Len(d))
                 /\ IsText(d) /\ (d = Root \/ (Len(d) < Len(t) /\ t[Len(d) + 1] = Sep))
                 /\ \A i \in 1 .. Len(d) : d[i] = t[i]
           /\ \A n \in Nat : n < Len(t) /\ t[n + 1] = Sep =>
                 SubSeq(t, 1, n) \in Directories(t) /\ Len(SubSeq(t, 1, n)) = n
           /\ Root \in Directories(t)
<1> DEFINE S == ToSet(t)
<1>1. t \in Seq(S) /\ Len(t) \in Nat /\ DOMAIN t = 1 .. Len(t)
  BY DEF IsText
<1> HIDE DEF S
<1>2. ASSUME NEW n \in Nat, n <= Len(t)
      PROVE  /\ SubSeq(t, 1, n) \in Seq(S) /\ Len(SubSeq(t, 1, n)) = n
             /\ \A i \in 1 .. n : SubSeq(t, 1, n)[i] = t[i]
  <2>1. \A i \in 1 .. n : t[i] \in S
    BY <1>1, <1>2
  <2>2. QED
    BY <1>2, <2>1, SubSeqProperties
<1>3. \A s \in Seq(S) : IsText(s)
  BY DEF IsText, ToSet
<1>4. Root = SubSeq(t, 1, 0) /\ Len(Root) = 0
  BY SubSeqEmpty DEF Root
<1>5. ASSUME NEW n \in Nat, n < Len(t), t[n + 1] = Sep
      PROVE  SubSeq(t, 1, n) \in Directories(t) /\ Len(SubSeq(t, 1, n)) = n
  <2>1. n + 1 \in DOMAIN t /\ n + 1 - 1 = n
    BY <1>1, <1>5
  <2>2. SubSeq(t, 1, n + 1 - 1) \in Directories(t)
    BY <1>5, <2>1 DEF Directories
  <2>3. QED
    BY <1>2, <1>5, <2>1, <2>2
<1>6. ASSUME NEW d \in Directories(t)
      PROVE  /\ Len(d) \in Nat /\ Len(d) <= Len(t) /\ d = SubSeq(t, 1, Len(d))
             /\ IsText(d) /\ (d = Root \/ (Len(d) < Len(t) /\ t[Len(d) + 1] = Sep))
             /\ \A i \in 1 .. Len(d) : d[i] = t[i]
  <2>1. CASE d = Root
    <3>1. 0 \in Nat /\ 0 <= Len(t)
      BY <1>1
    <3>2. Root \in Seq(S)
      BY <1>2, <1>4, <3>1
    <3>3. IsText(d) /\ Len(d) = 0
      BY <1>3, <1>4, <2>1, <3>2
    <3>4. d = SubSeq(t, 1, Len(d)) /\ \A i \in 1 .. Len(d) : d[i] = t[i]
      BY <1>4, <2>1, <3>3
    <3>5. QED
      BY <1>1, <2>1, <3>3, <3>4
  <2>2. CASE d # Root
    <3>1. PICK j \in DOMAIN t : t[j] = Sep /\ d = SubSeq(t, 1, j - 1)
      BY <2>2 DEF Directories
    <3>2. j - 1 \in Nat /\ j - 1 < Len(t) /\ j - 1 + 1 = j
      BY <1>1
    <3>3. /\ d \in Seq(S) /\ Len(d) = j - 1
          /\ \A i \in 1 .. j - 1 : d[i] = t[i]
      BY <1>2, <3>1, <3>2
    <3>4. IsText(d)
      BY <1>3, <3>3
    <3>5. Len(d) \in Nat /\ Len(d) < Len(t) /\ t[Len(d) + 1] = Sep
      BY <3>1, <3>2, <3>3
    <3>6. d = SubSeq(t, 1, Len(d)) /\ \A i \in 1 .. Len(d) : d[i] = t[i]
      BY <3>1, <3>3
    <3>7. QED
      BY <1>1, <3>4, <3>5, <3>6
  <2>3. QED
    BY <2>1, <2>2
<1>7. Root \in Directories(t)
  BY DEF Directories
<1>8. QED
  BY <1>1, <1>5, <1>6, <1>7

\* The directories of a directory are those above it.
LEMMA DirectoriesAbove ==
    ASSUME NEW t, IsText(t), NEW d \in Directories(t)
    PROVE  /\ Directories(d) \subseteq Directories(t)
           /\ \A e \in Directories(t) : Len(e) < Len(d) => e \in Directories(d)
           /\ \A e \in Directories(t) : Len(e) = Len(d) => e = d
<1> DEFINE n == Len(d)
<1>1. /\ Len(t) \in Nat /\ n \in Nat /\ n <= Len(t) /\ d = SubSeq(t, 1, n) /\ IsText(d)
      /\ \A i \in 1 .. n : d[i] = t[i]
      /\ Root \in Directories(t) /\ Root \in Directories(d)
  BY DirectoriesAre
<1> HIDE DEF n
<1>2. ASSUME NEW m \in Nat, m <= n PROVE SubSeq(d, 1, m) = SubSeq(t, 1, m)
  <2> DEFINE S == ToSet(t)
             a == SubSeq(d, 1, m)
             b == SubSeq(t, 1, m)
  <2>1. \A i \in 1 .. m : t[i] \in S /\ d[i] = t[i] /\ 1 + i - 1 = i
    BY <1>1, <1>2 DEF ToSet, IsText
  <2>2. \A i \in 1 .. m : d[i] \in S
    BY <2>1
  <2> HIDE DEF S
  <2>3. a \in Seq(S) /\ Len(a) = m /\ \A i \in 1 .. m : a[i] = d[i]
    BY <2>1, <2>2, SubSeqProperties
  <2>4. b \in Seq(S) /\ Len(b) = m /\ \A i \in 1 .. m : b[i] = t[i]
    BY <2>1, SubSeqProperties
  <2> HIDE DEF a, b
  <2>5. a = b
    BY <2>1, <2>3, <2>4, SeqEqual
  <2>6. QED
    BY <2>5 DEF a, b
<1>3. ASSUME NEW e \in Directories(d) PROVE e \in Directories(t)
  <2> DEFINE m == Len(e)
  <2>1. /\ m \in Nat /\ m <= n /\ e = SubSeq(d, 1, m)
        /\ e = Root \/ (m < n /\ d[m + 1] = Sep)
    BY <1>1, DirectoriesAre DEF n
  <2>2. CASE e = Root
    BY <1>1, <2>2
  <2>3. CASE m < n /\ d[m + 1] = Sep
    <3>1. m < Len(t) /\ t[m + 1] = Sep
      BY <1>1, <2>1, <2>3
    <3>2. SubSeq(t, 1, m) \in Directories(t)
      BY <2>1, <3>1, DirectoriesAre
    <3>3. SubSeq(d, 1, m) = SubSeq(t, 1, m)
      BY <1>2, <2>1, <2>3
    <3>4. QED
      BY <2>1, <3>2, <3>3
  <2>4. QED
    BY <2>1, <2>2, <2>3
<1>4. ASSUME NEW e \in Directories(t), Len(e) < n PROVE e \in Directories(d)
  <2> DEFINE m == Len(e)
  <2>1. /\ m \in Nat /\ m < n /\ e = SubSeq(t, 1, m)
        /\ e = Root \/ t[m + 1] = Sep
    BY <1>4, DirectoriesAre
  <2>2. CASE e = Root
    BY <1>1, <2>2
  <2>3. CASE t[m + 1] = Sep
    <3>1. d[m + 1] = Sep
      BY <1>1, <2>1, <2>3
    <3>2. SubSeq(d, 1, m) \in Directories(d)
      BY <1>1, <2>1, <3>1, DirectoriesAre DEF n
    <3>3. SubSeq(d, 1, m) = SubSeq(t, 1, m)
      BY <1>1, <1>2, <2>1
    <3>4. QED
      BY <2>1, <3>2, <3>3
  <2>4. QED
    BY <2>1, <2>2, <2>3
<1>5. ASSUME NEW e \in Directories(t), Len(e) = n PROVE e = d
  BY <1>1, <1>5, DirectoriesAre
<1>6. QED
  BY <1>3, <1>4, <1>5 DEF n

LEMMA ParentIs ==
    ASSUME NEW t, IsText(t)
    PROVE  /\ Parent(t) \in Directories(t)
           /\ \A e \in Directories(t) : Len(e) <= Len(Parent(t))
           /\ Directories(t) \subseteq {Parent(t)} \cup Directories(Parent(t))
<1> DEFINE D == Directories(t)
           S == {Len(d) : d \in D}
<1>1. /\ Len(t) \in Nat /\ Root \in D
      /\ \A d \in D : Len(d) \in Nat /\ Len(d) <= Len(t)
  BY DirectoriesAre
<1>2. \E d \in D : \A e \in D : Len(e) <= Len(d)
  <2>1. S \subseteq 0 .. Len(t)
    BY <1>1
  <2>2. Len(Root) \in S
    BY <1>1
  <2>3. PICK n \in S : \A m \in S : m <= n
    BY <1>1, <2>1, <2>2, GreatestOf
  <2>4. PICK d \in D : n = Len(d)
    OBVIOUS
  <2>5. \A e \in D : Len(e) <= Len(d)
    BY <2>3, <2>4
  <2>6. QED
    BY <2>5
<1>3. /\ Parent(t) \in D
      /\ \A e \in D : Len(e) <= Len(Parent(t))
  BY <1>2, Zenon DEF Parent
<1>4. ASSUME NEW e \in D PROVE e = Parent(t) \/ e \in Directories(Parent(t))
  <2>1. Len(e) \in Nat /\ Len(Parent(t)) \in Nat /\ Len(e) <= Len(Parent(t))
    BY <1>1, <1>3
  <2>2. CASE Len(e) < Len(Parent(t))
    BY <1>3, <2>2, DirectoriesAbove
  <2>3. CASE Len(e) = Len(Parent(t))
    BY <1>3, <2>3, DirectoriesAbove
  <2>4. QED
    BY <2>1, <2>2, <2>3
<1>5. QED
  BY <1>3, <1>4

\* From any directory above t there is a next one, or t itself, on the way to t.
LEMMA NextOnTheWay ==
    ASSUME NEW t, IsText(t), t # Root, NEW d \in Directories(t)
    PROVE  \E p \in Directories(t) \cup {t} : p # Root /\ Parent(p) = d
<1> DEFINE D == Directories(t)
           S == {Len(p) : p \in {q \in D \cup {t} : Len(q) > Len(d)}}
<1>1. /\ Len(t) \in Nat /\ Len(t) > 0
      /\ \A e \in D : Len(e) \in Nat /\ IsText(e) /\ Len(e) < Len(t)
  <2>1. Len(t) # 0 /\ Len(Root) = 0
    BY DEF IsText, Root
  <2>2. QED
    BY <2>1, DirectoriesAre
<1>2. S \subseteq Nat /\ S # {}
  <2>1. \A q \in D \cup {t} : Len(q) \in Nat
    BY <1>1
  <2>2. Len(t) \in S
    BY <1>1
  <2>3. QED
    BY <2>1, <2>2
<1>3. PICK n \in S : \A m \in S : n <= m
  BY <1>2, LeastOf
<1>4. PICK p \in D \cup {t} : Len(p) > Len(d) /\ n = Len(p)
  OBVIOUS
<1>5. \A q \in D \cup {t} : Len(q) > Len(d) => Len(p) <= Len(q)
  BY <1>3, <1>4
<1> HIDE DEF S
<1>6. IsText(p) /\ Len(p) \in Nat /\ Len(d) \in Nat /\ p # Root
  <2>1. Len(Root) = 0
    BY DEF Root
  <2>2. QED
    BY <1>1, <1>4, <2>1
<1>7. d \in Directories(p) /\ Directories(p) \subseteq D
  BY <1>1, <1>4, DirectoriesAbove
<1>8. Len(Parent(p)) = Len(d)
  <2>1. Parent(p) \in Directories(p) /\ Len(d) <= Len(Parent(p))
    BY <1>6, <1>7, ParentIs
  <2>2. Len(Parent(p)) < Len(p)
    <3>1. Len(Root) = 0 /\ Len(p) # 0
      BY <1>6 DEF Root, IsText
    <3>2. QED
      BY <1>6, <2>1, <3>1, DirectoriesAre
  <2>3. ~(Len(Parent(p)) > Len(d))
    BY <1>1, <1>5, <1>6, <1>7, <2>1, <2>2
  <2>4. QED
    BY <1>1, <1>6, <1>7, <2>1, <2>3
<1>9. Parent(p) = d
  BY <1>6, <1>7, <1>8, ParentIs, DirectoriesAbove
<1>10. QED
  BY <1>6, <1>9

\* A listing that is narrowed to a hint starts above every key that it may find.
LEMMA WalksFromAbove ==
    ASSUME NEW hint, NEW k, IsText(hint), IsText(k), IsPrefix(hint, k), ~Misspelt(hint)
    PROVE  WalkFrom(hint) \in Directories(k)
<1>0. WalkFrom(hint) = StartDir(hint)
  BY DEF WalkFrom
<1>1. /\ Len(hint) \in Nat /\ Len(k) \in Nat /\ Len(hint) <= Len(k)
      /\ SubSeq(hint, 1, Len(hint)) = SubSeq(k, 1, Len(hint))
      /\ Root \in Directories(k)
  BY DirectoriesAre DEF IsPrefix
<1> DEFINE n == Len(hint)
           S == ToSet(k) \cup ToSet(hint)
<1>2. \A i \in 1 .. n : hint[i] \in S /\ k[i] \in S
  BY <1>1 DEF IsText, ToSet
<1> HIDE DEF S
<1>3. \A m \in Nat : m <= n =>
          /\ SubSeq(hint, 1, m) \in Seq(S) /\ Len(SubSeq(hint, 1, m)) = m
          /\ SubSeq(k, 1, m) \in Seq(S) /\ Len(SubSeq(k, 1, m)) = m
          /\ \A i \in 1 .. m : SubSeq(hint, 1, m)[i] = hint[i] /\ SubSeq(k, 1, m)[i] = k[i]
  <2> TAKE m \in Nat
  <2> HAVE m <= n
  <2>1. \A i \in 1 .. m : hint[i] \in S /\ k[i] \in S /\ 1 + i - 1 = i
    BY <1>1, <1>2
  <2>2. QED
    BY <2>1, SubSeqProperties
<1>4. \A i \in 1 .. n : hint[i] = k[i]
  BY <1>1, <1>3
<1>5. ASSUME NEW m \in Nat, m <= n PROVE SubSeq(hint, 1, m) = SubSeq(k, 1, m)
  <2> DEFINE a == SubSeq(hint, 1, m)
             b == SubSeq(k, 1, m)
  <2>1. /\ a \in Seq(S) /\ Len(a) = m /\ b \in Seq(S) /\ Len(b) = m
        /\ \A i \in 1 .. m : a[i] = hint[i] /\ b[i] = k[i]
    BY <1>3, <1>5
  <2>2. \A i \in 1 .. m : a[i] = b[i]
    BY <1>1, <1>4, <1>5, <2>1
  <2> HIDE DEF a, b
  <2>3. a = b
    BY <2>1, <2>2, SeqEqual
  <2>4. QED
    BY <2>3 DEF a, b
<1>6. ASSUME NEW m \in Nat, m < n, hint[m + 1] = Sep PROVE SubSeq(hint, 1, m) \in Directories(k)
  <2>1. m < Len(k) /\ k[m + 1] = Sep
    BY <1>1, <1>4, <1>6
  <2>2. SubSeq(k, 1, m) \in Directories(k)
    BY <2>1, DirectoriesAre
  <2>3. SubSeq(hint, 1, m) = SubSeq(k, 1, m)
    BY <1>1, <1>5, <1>6
  <2>4. QED
    BY <2>2, <2>3
<1>7. CASE hint = <<>>
  BY <1>0, <1>1, <1>7 DEF StartDir
<1>8. CASE hint # <<>> /\ hint[Len(hint)] = Sep
  <2>1. n - 1 \in Nat /\ n - 1 < n /\ n - 1 + 1 = n
    BY <1>1, <1>8 DEF IsText
  <2>2. SubSeq(hint, 1, n - 1) \in Directories(k)
    BY <1>6, <1>8, <2>1
  <2>3. QED
    BY <1>0, <1>8, <2>2 DEF StartDir
<1>9. CASE hint # <<>> /\ hint[Len(hint)] # Sep
  <2> DEFINE d == Parent(hint)
  <2>1. d \in Directories(hint) /\ WalkFrom(hint) = d
    BY <1>0, <1>9, ParentIs DEF StartDir
  <2>2. /\ Len(d) \in Nat /\ d = SubSeq(hint, 1, Len(d))
        /\ d = Root \/ (Len(d) < n /\ hint[Len(d) + 1] = Sep)
    BY <2>1, DirectoriesAre
  <2>3. QED
    BY <1>1, <1>6, <2>1, <2>2
<1>10. QED
  BY <1>7, <1>8, <1>9

----------------------------------------------------------------------------
(* The invariant.                                                           *)

Contents == UNION {[1 .. n -> Clients \cup {Hole}] : n \in 0 .. Chunks}

\* Whatever there is lies below directories, and files only under keys.
TreeOk ==
    /\ tree \in [Paths -> [kind : {"none", "dir", "file"}, bytes : Contents]]
    /\ \A p \in Paths : tree[p] # Nothing /\ p # Root => \A d \in Directories(p) : IsDir(d)
    /\ \A p \in Paths : IsFile(p) => p \in FsKeys

IsWalk(w) ==
    {"at", "todo", "off", "linked", "bad", "dirs", "due", "seen", "found"} \subseteq DOMAIN w

Writing == {"mkdir", "open", "copy", "stat"}
Reading == {"meta", "root", "probe", "open_read"}
Listing == {"opendir", "entries"}

\* What a walk has not come to yet: directories in line, entries of this one.
Ahead(w) == ToSet(IF w.at = "entries" THEN Tail(w.dirs) ELSE w.dirs) \cup w.due

\* What a listing has found it may show: keys, or else names it makes up for a
\* hint that begins no key.
Shows(call, found) == \A k \in found : k \in call.ever \/ AllKeys!Invented(call, k)

\* What a call has still to do, and what is done, are all of its keys; a key
\* that was there all the time was found or lies ahead.
WalkFits(w, call) ==
    /\ IsWalk(w)
    /\ w.at \in Writing =>
           /\ call.op = "put" /\ w.todo \in Seq(FsKeys) /\ w.todo # <<>>
           /\ ToSet(w.todo) \subseteq call.keys
           /\ call.keys \subseteq call.done \cup ToSet(w.todo)
    /\ w.at = "stat" => call.keys \subseteq call.done \cup ToSet(Tail(w.todo))
    /\ w.at = "unlink" =>
           /\ call.op = "delete" /\ w.todo \in Seq(FsKeys)
           /\ ToSet(w.todo) \subseteq call.keys
           /\ call.keys \subseteq call.done \cup ToSet(w.todo) \cup w.bad
    /\ w.at \in Reading => call.op = "get" /\ call.keys = {Head(w.todo)}
    /\ w.at = "is_file" => call.op = "exists" /\ call.keys = {Head(w.todo)}
    /\ w.at = "blind" => call.op \in {"get", "exists"} /\ call.steady = {}
    /\ w.at \in Listing =>
           /\ call.op = "list" /\ IsText(w.dirs) /\ w.dirs # <<>>
           /\ IsText(PrefixHint(call.filter)) /\ Shows(call, w.found)
           /\ \A k \in call.steady :
                 k \in w.found \cup w.due \/ \E d \in Directories(k) : d \in Ahead(w)
           /\ w.at = "opendir" => w.due = {}

\* An open file that is still the one under its key; unless another call came
\* in between, it holds what was copied so far and nothing else.
FileFits(t, c, w, call) ==
    /\ w.linked \in BOOLEAN
    /\ w.linked => w.at = "copy" /\ t[Head(w.todo)].kind = "file"
    /\ w.at = "copy" => w.off \in 0 .. Chunks
    /\ w.at = "copy" /\ Head(w.todo) \notin call.done =>
           /\ w.linked /\ w.off < Chunks
           /\ t[Head(w.todo)].bytes = [i \in 1 .. w.off |-> c]

WalksFit ==
    /\ walker = [c \in Clients |-> walker[c]]
    /\ \A c \in Clients :
          WalkFits(walker[c], calls[c]) /\ FileFits(tree, c, walker[c], calls[c])

FsInv == TreeOk /\ LogOk(FsPresent) /\ WalksFit

LEMMA PathsAre ==
    /\ FsKeys \subseteq Paths
    /\ \A p \in Paths : IsText(p) /\ Directories(p) \subseteq Paths
    /\ \A k \in FsKeys : k # Root
<1>1. \A k \in FsKeys : IsText(k) /\ k # Root /\ Directories(k) \subseteq Paths
  BY FsKeysAssumption DEF Valid, Root, Paths
<1>2. ASSUME NEW k \in FsKeys, NEW p \in Directories(k)
      PROVE  IsText(p) /\ Directories(p) \subseteq Paths
  <2>1. IsText(p) /\ Directories(p) \subseteq Directories(k)
    BY <1>1, DirectoriesAre, DirectoriesAbove
  <2>2. QED
    BY <1>1, <2>1
<1>3. \A p \in Paths : p \in FsKeys \/ \E k \in FsKeys : p \in Directories(k)
  BY DEF Paths
<1>4. QED
  BY <1>1, <1>2, <1>3 DEF Paths

LEMMA FsBlobs ==
    ASSUME backend = "fs"
    PROVE  /\ AllBlobs = [k \in FsKeys |-> FsBlob(k, "nobody", "torn")]
           /\ AllKeys!Present = FsPresent /\ FsPresent \subseteq FsKeys
<1>1. AllBlobs = [k \in FsKeys |-> FsBlob(k, "nobody", "torn")]
  BY DEF AllBlobs, Blob
<1>2. ASSUME NEW k \in FsKeys PROVE AllBlobs[k] # "nobody" <=> IsFile(k)
  <2>1. AllBlobs[k] = FsBlob(k, "nobody", "torn")
    BY <1>1
  <2>2. CASE ~IsFile(k)
    BY <2>1, <2>2 DEF FsBlob
  <2>3. CASE IsFile(k) /\ \E c \in Clients : WholeBy(tree[k].bytes, c)
    <3>1. AllBlobs[k] \in Clients
      BY <2>1, <2>3 DEF FsBlob
    <3>2. QED
      BY <2>3, <3>1, NamesAssumption
  <2>4. CASE IsFile(k) /\ ~\E c \in Clients : WholeBy(tree[k].bytes, c)
    BY <2>1, <2>4 DEF FsBlob
  <2>5. QED
    BY <2>2, <2>3, <2>4
<1>3. QED
  BY <1>1, <1>2 DEF AllKeys!Present, FsPresent

LEMMA FsBlobsNext ==
    (backend = "fs")' => (AllBlobs = [k \in FsKeys |-> FsBlob(k, "nobody", "torn")])'
<1>1. backend = "fs" => AllBlobs = [k \in FsKeys |-> FsBlob(k, "nobody", "torn")]
  BY FsBlobs
<1>2. QED
  BY <1>1, PTL

LEMMA ShowsLater ==
    ASSUME NEW call, NEW new, Later(call, new), NEW found, Shows(call, found)
    PROVE  Shows(new, found)
<1>1. \A k : AllKeys!Invented(call, k) => AllKeys!Invented(new, k)
  BY DEF Later, AllKeys!Invented
<1>2. QED
  BY <1>1 DEF Later, Shows

\* What stays of a walk as its call goes on, and as others act on its keys.
LEMMA WalkLater ==
    ASSUME NEW w, NEW call, NEW new, WalkFits(w, call), Later(call, new)
    PROVE  WalkFits(w, new)
<1>1. /\ new.op = call.op /\ new.keys = call.keys /\ call.done \subseteq new.done
      /\ \A k \in new.steady : k \in call.steady
      /\ call.ever \subseteq new.ever
  BY DEF Later
<1>2. IsWalk(w)
  BY DEF WalkFits
<1>3. CASE w.at \in Writing
  BY <1>1, <1>2, <1>3 DEF WalkFits, Writing, Reading, Listing
<1>4. CASE w.at \in Listing
  <2>1. Shows(call, w.found) => Shows(new, w.found)
    BY <1>1, ShowsLater
  <2>2. PrefixHint(call.filter) = PrefixHint(new.filter)
    BY DEF Later
  <2>3. QED
    BY <1>1, <1>2, <1>4, <2>1, <2>2 DEF WalkFits, Writing, Reading, Listing
<1>5. CASE w.at \notin Writing \cup Listing
  BY <1>1, <1>2, <1>5 DEF WalkFits, Writing, Reading, Listing
<1>6. QED
  BY <1>3, <1>4, <1>5

LEMMA NoWalkFits ==
    /\ \A call : WalkFits(NoWalk, call)
    /\ \A t, c, call : FileFits(t, c, NoWalk, call)
BY DEF NoWalk, IsWalk, WalkFits, FileFits, Writing, Reading, Listing

\* A step of client c that leaves it with the locals w, and other clients with
\* a file for every file they had open.
LEMMA FsGoes ==
    ASSUME WalksFit, NEW c \in Clients, NEW w, Becomes(c, w),
           WalkFits(w, calls'[c]), FileFits(tree', c, w, calls'[c]),
           \A d \in Clients \ {c} : Later(calls[d], calls'[d]),
           \A k \in FsKeys : IsFile(k) => IsFile(k)',
           \A d \in Clients \ {c}, k \in FsKeys :
               \/ ~IsFile(k) \/ tree'[k] = tree[k]
               \/ calls[d].op = "put" /\ k \in calls[d].keys => k \in calls'[d].done
    PROVE  WalksFit'
<1>1. /\ walker' = [d \in Clients |-> IF d = c THEN w ELSE walker[d]]
      /\ walker'[c] = w
      /\ \A d \in Clients \ {c} : walker'[d] = walker[d]
  BY Zenon DEF WalksFit, Becomes
<1>2. ASSUME NEW d \in Clients \ {c}
      PROVE  WalkFits(walker[d], calls'[d]) /\ FileFits(tree', d, walker[d], calls'[d])
  <2> DEFINE v == walker[d]
             k == Head(v.todo)
  <2>1. WalkFits(v, calls[d]) /\ FileFits(tree, d, v, calls[d]) /\ Later(calls[d], calls'[d])
    BY DEF WalksFit
  <2>2. WalkFits(v, calls'[d])
    BY <2>1, WalkLater
  <2>3. CASE v.at = "copy"
    <3>1. /\ calls[d].op = "put" /\ k \in FsKeys /\ k \in calls[d].keys
          /\ calls[d].done \subseteq calls'[d].done
      <4>1. /\ v.todo \in Seq(FsKeys) /\ v.todo # <<>> /\ calls[d].op = "put"
            /\ ToSet(v.todo) \subseteq calls[d].keys
        BY <2>1, <2>3 DEF WalkFits, Writing
      <4>2. QED
        BY <2>1, <4>1, HeadAndTail DEF Later
    <3>2. v.linked => tree'[k].kind = "file"
      BY <2>1, <3>1 DEF FileFits, IsFile
    <3>3. ASSUME k \notin calls'[d].done PROVE tree'[k] = tree[k] /\ k \notin calls[d].done
      <4>1. k \notin calls[d].done
        BY <3>1, <3>3
      <4>2. IsFile(k)
        BY <2>1, <2>3, <4>1 DEF FileFits, IsFile
      <4>3. QED
        BY <3>1, <3>3, <4>1, <4>2
    <3>4. QED
      BY <2>1, <2>2, <2>3, <3>2, <3>3 DEF FileFits
  <2>4. CASE v.at # "copy"
    BY <2>1, <2>2, <2>4 DEF FileFits
  <2>5. QED
    BY <2>3, <2>4
<1>3. QED
  BY <1>1, <1>2 DEF WalksFit

\* A step that only client c's locals show.
LEMMA FsStutters ==
    ASSUME FsInv, backend = "fs", backend' = backend, NEW c \in Clients, NEW w, Becomes(c, w),
           Stays, WalkFits(w, calls[c]), FileFits(tree, c, w, calls[c])
    PROVE  FsInv' /\ Served
<1>1. UNCHANGED <<tree, calls>>
  BY DEF Stays
<1>2. WalksFit'
  BY <1>1, FsGoes, LaterItself DEF FsInv, IsFile
<1>3. TreeOk' /\ FsPresent' = FsPresent
  BY <1>1 DEF FsInv, TreeOk, IsFile, IsDir, FsPresent
<1>4. LogOk(FsPresent)'
  BY <1>1, <1>3 DEF FsInv, LogOk
<1>5. UNCHANGED AllBlobs
  BY <1>1, FsBlobs, FsBlobsNext DEF FsBlob, IsFile
<1>6. QED
  BY <1>1, <1>2, <1>3, <1>4, <1>5 DEF FsInv, Served

\* The end of a call.
LEMMA FsAnswers ==
    ASSUME FsInv, backend = "fs", backend' = backend, NEW c \in Clients, NEW a, IsAnswer(a),
           Busy(c), FsReturns(c, a), AllKeys!Truthful(calls[c], a)
    PROVE  FsInv' /\ Served
<1>1. LogOk(FsPresent) /\ Answers(c, a) /\ Becomes(c, NoWalk) /\ UNCHANGED tree
  BY DEF FsInv, FsReturns
<1>2. /\ calls' = [d \in Clients |-> calls'[d]]
      /\ \A d \in Clients : CallOk(calls'[d], FsPresent)
      /\ calls'[c].answer = a
      /\ \A d \in Clients \ {c} : calls'[d] = calls[d]
  BY <1>1, Answering, Zenon
<1>3. TreeOk' /\ FsPresent' = FsPresent
  BY <1>1 DEF FsInv, TreeOk, IsFile, IsDir, FsPresent
<1>4. WalksFit'
  BY <1>1, <1>2, FsGoes, LaterItself, NoWalkFits DEF FsInv, IsFile
<1>5. UNCHANGED AllBlobs
  BY <1>1, FsBlobs, FsBlobsNext DEF FsBlob, IsFile
<1>6. Served
  BY <1>1, <1>2, <1>5, ReturnServed
<1>7. QED
  BY <1>2, <1>3, <1>4, <1>6 DEF FsInv, LogOk

\* A look that fails unnoticed: the call may from now on miss what lies there.
LEMMA FsOverlooks ==
    ASSUME FsInv, backend = "fs", backend' = backend, StatsFail,
           NEW c \in Clients, calls[c].op \in {"get", "exists", "list"},
           NEW keys, Overlooks(c, keys), NEW w, Becomes(c, w), UNCHANGED tree,
           \A call : Later(calls[c], call) /\ call.steady = calls[c].steady \ keys => WalkFits(w, call),
           w.linked = FALSE, w.at # "copy"
    PROVE  FsInv' /\ Served
<1>1. PICK less : less = calls[c].steady \ keys
  OBVIOUS
<1>2. PICK new : new = Fewer(calls[c], less)
  OBVIOUS
<1>3. calls' = [d \in Clients |-> IF d = c THEN new ELSE calls[d]]
  <2>1. calls' = [calls EXCEPT ![c] = new]
    BY <1>1, <1>2, Zenon DEF Overlooks, Fewer
  <2>2. QED
    BY <2>1, Zenon DEF FsInv, LogOk
<1>4. CallOk(calls[c], FsPresent) /\ IsCall(calls[c])
  BY DEF FsInv, LogOk, CallOk
<1>5. /\ IsCall(new) /\ new.op = calls[c].op /\ new.keys = calls[c].keys
      /\ new.filter = calls[c].filter /\ new.done = calls[c].done /\ new.ever = calls[c].ever
      /\ new.steady = less
  BY <1>2, <1>4 DEF Fewer, IsCall
<1>6. less \subseteq calls[c].steady
  BY <1>1
<1>7. CallOk(new, FsPresent)
  BY <1>4, <1>5, <1>6 DEF CallOk, Scope, InScope
<1>8. WalkFits(w, new)
  <2>1. Later(calls[c], new)
    BY <1>5, <1>6 DEF Later
  <2>2. QED
    BY <1>1, <1>5, <2>1
<1>9. TreeOk' /\ FsPresent' = FsPresent
  BY DEF FsInv, TreeOk, IsFile, IsDir, FsPresent
<1>10. LogOk(FsPresent)'
  BY <1>3, <1>7, <1>9 DEF FsInv, LogOk
<1>11. WalksFit'
  <2>1. calls'[c] = new /\ \A d \in Clients \ {c} : calls'[d] = calls[d]
    BY <1>3
  <2>2. FileFits(tree', c, w, calls'[c])
    BY DEF FileFits
  <2>3. QED
    BY <1>8, <2>1, <2>2, FsGoes, LaterItself DEF FsInv, IsFile
<1>12. UNCHANGED AllBlobs
  BY FsBlobs, FsBlobsNext DEF FsBlob, IsFile
<1>13. AllKeys!Overlook(c)
  <2>1. calls'[c].steady = less
    BY <1>3, <1>5
  <2>2. calls' = [calls EXCEPT ![c].steady = calls'[c].steady]
    BY <1>1, <2>1, Zenon DEF Overlooks
  <2>3. QED
    BY <1>6, <1>12, <2>1, <2>2, Zenon DEF AllKeys!Overlook
<1>14. QED
  BY <1>9, <1>10, <1>11, <1>13 DEF FsInv, Served

LEMMA FsErrorKeeps ==
    ASSUME FsInv, backend = "fs", backend' = backend, NEW c \in Clients, Busy(c),
           NEW is \in {"error", "broken", "misconfigured"}, FsReturns(c, Answer(is, {}))
    PROVE  FsInv' /\ Served
BY ErrorsAreTruthful, AnswersAre, FsAnswers

\* A call that is refused, by the prefix layer or by the backend.
LEMMA FsRefusalKeeps ==
    ASSUME FsInv, backend = "fs", backend' = backend, NEW c \in Clients,
           NEW is \in {"invalid", "misconfigured"}, Refused(c, is), UNCHANGED <<tree, walker>>
    PROVE  FsInv' /\ Called(c)
<1> DEFINE a == Answer(is, {})
<1>1. LogOk(FsPresent) /\ Answers(c, a) /\ calls[c].op = "none"
  BY DEF FsInv, Refused, Busy
<1>2. /\ calls' = [d \in Clients |-> calls'[d]]
      /\ \A d \in Clients : CallOk(calls'[d], FsPresent)
      /\ calls'[c].answer = a
      /\ \A d \in Clients \ {c} : calls'[d] = calls[d]
  BY <1>1, Answering, Zenon
<1>3. TreeOk' /\ FsPresent' = FsPresent
  BY DEF FsInv, TreeOk, IsFile, IsDir, FsPresent
<1>4. ASSUME NEW d \in Clients
      PROVE  WalkFits(walker[d], calls'[d]) /\ FileFits(tree, d, walker[d], calls'[d])
  <2>1. WalkFits(walker[d], calls[d]) /\ FileFits(tree, d, walker[d], calls[d])
    BY DEF FsInv, WalksFit
  <2>2. CASE d = c
    <3>1. IsWalk(walker[d]) /\ walker[d].at \notin Writing \cup Reading \cup Listing \cup {"unlink", "is_file", "blind"}
      BY <1>1, <2>1, <2>2 DEF WalkFits
    <3>2. QED
      BY <2>1, <3>1 DEF WalkFits, FileFits, Writing
  <2>3. CASE d # c
    BY <1>2, <2>1, <2>3
  <2>4. QED
    BY <2>2, <2>3
<1>5. WalksFit'
  BY <1>4 DEF FsInv, WalksFit
<1>6. UNCHANGED AllBlobs
  BY FsBlobs, FsBlobsNext DEF FsBlob, IsFile
<1>7. Called(c)
  BY <1>2, <1>6, RefuseCalled
<1>8. QED
  BY <1>2, <1>3, <1>5, <1>7 DEF FsInv, LogOk

----------------------------------------------------------------------------
(* The steps of the backend keep the invariant and the contract.            *)

\* A call that begins while nothing else changes.
LEMMA FsBeginning ==
    ASSUME FsInv, backend = "fs", backend' = backend, NEW c \in Clients,
           NEW op \in {"put", "delete", "get", "exists", "list"},
           NEW keys, keys \subseteq FsKeys, NEW filter, Calls(c, op, keys, filter, FsPresent),
           NEW w, Becomes(c, w), UNCHANGED tree,
           WalkFits(w, Begun(op, keys, filter, FsPresent)),
           w.linked = FALSE, w.at # "copy"
    PROVE  FsInv' /\ Called(c)
<1>1. /\ LogOk(FsPresent) /\ FsPresent \subseteq FsKeys /\ AllKeys!Present = FsPresent
  BY FsBlobs DEF FsInv
<1>2. /\ calls' = [d \in Clients |-> calls'[d]]
      /\ \A d \in Clients : CallOk(calls'[d], FsPresent)
      /\ calls'[c] = Begun(op, keys, filter, FsPresent)
      /\ \A d \in Clients \ {c} : calls'[d] = calls[d]
  BY <1>1, Beginning, Zenon
<1>3. TreeOk' /\ FsPresent' = FsPresent
  BY DEF FsInv, TreeOk, IsFile, IsDir, FsPresent
<1>4. FileFits(tree', c, w, calls'[c])
  BY DEF FileFits
<1>5. WalksFit'
  BY <1>2, <1>4, FsGoes, LaterItself DEF FsInv, IsFile
<1>6. UNCHANGED AllBlobs
  BY FsBlobs, FsBlobsNext DEF FsBlob, IsFile
<1>7. Called(c)
  BY <1>1, <1>2, <1>6, BeginCalled
<1>8. QED
  BY <1>2, <1>3, <1>5, <1>7 DEF FsInv, LogOk

\* The step that a call starts with, a list apart.
FsStarts(op, step) ==
    <<op, step>> \in {<<"put", "mkdir">>, <<"delete", "unlink">>, <<"get", "probe">>,
                     <<"get", "meta">>, <<"exists", "is_file">>}

LEMMA FsBeginsKeeps ==
    ASSUME FsInv, backend = "fs", backend' = backend, NEW c \in Clients,
           NEW op \in {"put", "delete", "get", "exists"}, NEW step,
           NEW batch \in Seq(FsKeys), batch # <<>>, NEW filter,
           FsStarts(op, step), op \in {"get", "exists"} => Len(batch) = 1,
           FsBegins(c, op, step, batch, filter)
    PROVE  FsInv' /\ Called(c)
<1> DEFINE w == [NoWalk EXCEPT !.at = step, !.todo = batch]
           keys == ToSet(batch)
           begun == Begun(op, keys, filter, FsPresent)
<1>1. keys \subseteq FsKeys /\ (Len(batch) = 1 => keys = {Head(batch)})
  BY SetOfSeq
<1>2. /\ IsWalk(w) /\ w.at = step /\ w.todo = batch /\ w.linked = FALSE
  BY DEF NoWalk, IsWalk
<1>3. begun.op = op /\ begun.keys = keys
  BY DEF Begun
<1>4. Becomes(c, w) /\ Calls(c, op, keys, filter, FsPresent) /\ UNCHANGED tree
  BY DEF FsBegins
<1> HIDE DEF w, begun, keys
<1>5. WalkFits(w, begun)
  BY <1>1, <1>2, <1>3 DEF WalkFits, Writing, Reading, Listing, keys, FsStarts
<1>6. /\ op \in {"put", "delete", "get", "exists", "list"} /\ keys \subseteq FsKeys
      /\ WalkFits(w, Begun(op, keys, filter, FsPresent)) /\ w.linked = FALSE /\ w.at # "copy"
      /\ Becomes(c, w) /\ Calls(c, op, keys, filter, FsPresent) /\ UNCHANGED tree
  BY <1>1, <1>2, <1>4, <1>5 DEF begun, FsStarts
<1>7. QED
  BY <1>6, FsBeginning

LEMMA WalkKeeps ==
    ASSUME FsInv, backend = "fs", backend' = backend, NEW c \in Clients,
           NEW filter, IsText(filter.text), Walk(c, filter)
    PROVE  FsInv' /\ Called(c)
<1> DEFINE d == WalkFrom(PrefixHint(filter))
           w == [NoWalk EXCEPT !.at = "opendir", !.dirs = <<d>>]
           begun == Begun("list", {}, filter, FsPresent)
<1>1. /\ IsWalk(w) /\ w.at = "opendir" /\ w.dirs = <<d>> /\ w.linked = FALSE
      /\ w.due = {} /\ w.found = {}
  BY DEF NoWalk, IsWalk
<1>2. /\ begun.op = "list"
      /\ \A k \in begun.steady : k \in FsKeys /\ Matches(filter, k)
  BY FsBlobs DEF Begun
<1>3. Becomes(c, w) /\ Calls(c, "list", {}, filter, FsPresent) /\ UNCHANGED tree
  BY DEF Walk
<1> HIDE DEF w, begun
<1>0. IsText(PrefixHint(filter)) /\ begun.filter = filter
  <2>1. IsText(<<>>)
    BY DEF IsText
  <2>2. QED
    BY <2>1 DEF PrefixHint, Begun, begun
<1>4. ASSUME NEW k \in begun.steady PROVE \E e \in Directories(k) : e \in Ahead(w)
  <2>1. IsText(k) /\ k \in FsKeys /\ Len(k) \in Nat /\ Matches(filter, k)
    BY <1>2, FsKeysAssumption DEF IsText
  <2>2. IsPrefix(PrefixHint(filter), k)
    BY <2>1, HintsFit
  <2>3. d \in Directories(k)
    BY <1>0, <2>1, <2>2, NoKeyMisspelt, WalksFromAbove
  <2>4. d \in Ahead(w)
    BY <1>1 DEF Ahead, ToSet
  <2>5. QED
    BY <2>3, <2>4
<1>5. IsText(w.dirs) /\ w.dirs # <<>>
  BY <1>1 DEF IsText, ToSet
<1>6. WalkFits(w, begun)
  BY <1>0, <1>1, <1>2, <1>4, <1>5 DEF WalkFits, Writing, Reading, Listing, Shows
<1>7. QED
  BY <1>1, <1>3, <1>6, FsBeginning DEF begun

LEMMA ContentsAre ==
    /\ <<>> \in Contents
    /\ \A b \in Contents :
          /\ Len(b) \in 0 .. Chunks /\ DOMAIN b = 1 .. Len(b)
          /\ \A i \in 1 .. Len(b) : b[i] \in Clients \cup {Hole}
    /\ \A n \in 0 .. Chunks : [1 .. n -> Clients \cup {Hole}] \subseteq Contents
<1> DEFINE X == Clients \cup {Hole}
<1>1. ASSUME NEW b \in Contents
      PROVE  /\ Len(b) \in 0 .. Chunks /\ DOMAIN b = 1 .. Len(b)
             /\ \A i \in 1 .. Len(b) : b[i] \in X
  <2>1. PICK n \in 0 .. Chunks : b \in [1 .. n -> X]
    BY DEF Contents
  <2>2. Len(b) = n
    BY <2>1, ChunksAssumption
  <2>3. QED
    BY <2>1, <2>2
<1>2. <<>> \in [1 .. 0 -> X]
  OBVIOUS
<1>3. 0 \in 0 .. Chunks
  BY ChunksAssumption
<1>4. QED
  BY <1>1, <1>2, <1>3 DEF Contents

\* What a client writes makes a whole blob of nobody else.
LEMMA WrittenIs ==
    ASSUME NEW bytes \in Contents, NEW off \in 0 .. Chunks, off < Chunks, NEW c \in Clients
    PROVE  /\ Written(bytes, off, c) \in Contents
           /\ \A d : WholeBy(Written(bytes, off, c), d) => d = c
           /\ bytes = [i \in 1 .. off |-> c] => Written(bytes, off, c) = [i \in 1 .. off + 1 |-> c]
<1> DEFINE n == IF Len(bytes) > off THEN Len(bytes) ELSE off + 1
           new == Written(bytes, off, c)
<1>1. Len(bytes) \in 0 .. Chunks /\ \A i \in 1 .. Len(bytes) : bytes[i] \in Clients \cup {Hole}
  BY ContentsAre
<1>2. n \in 0 .. Chunks /\ off + 1 \in 1 .. n
  BY <1>1, ChunksAssumption
<1> DEFINE at(i) == IF i = off + 1 THEN c ELSE IF i <= Len(bytes) THEN bytes[i] ELSE Hole
<1>3. new = [i \in 1 .. n |-> at(i)]
  BY DEF Written
<1>4. new \in Contents
  <2>1. \A i \in 1 .. n : at(i) \in Clients \cup {Hole}
    BY <1>1, <1>2
  <2> HIDE DEF at, n
  <2>2. new \in [1 .. n -> Clients \cup {Hole}]
    BY <1>3, <2>1
  <2>3. QED
    BY <1>2, <2>2, ContentsAre
<1>5. off + 1 \in DOMAIN new /\ new[off + 1] = c
  <2>1. at(off + 1) = c
    OBVIOUS
  <2> HIDE DEF at, n
  <2>2. QED
    BY <1>2, <1>3, <2>1
<1>6. ASSUME NEW d, WholeBy(new, d) PROVE d = c
  BY <1>5, <1>6 DEF WholeBy
<1>7. ASSUME bytes = [i \in 1 .. off |-> c] PROVE new = [i \in 1 .. off + 1 |-> c]
  <2>1. Len(bytes) = off /\ \A i \in 1 .. off : bytes[i] = c
    BY <1>7
  <2>2. n = off + 1
    BY <2>1
  <2>3. \A i \in 1 .. off + 1 : at(i) = c
    BY <2>1
  <2> HIDE DEF at, n, new
  <2>4. QED
    BY <1>3, <2>2, <2>3
<1>8. QED
  BY <1>4, <1>6, <1>7

\* What every step of a put on the disk starts from.
LEMMA WriteSteps ==
    ASSUME FsInv, NEW c \in Clients, walker[c].at \in Writing
    PROVE  LET w == walker[c] call == calls[c] k == key(c) IN
           /\ IsWalk(w) /\ WalkFits(w, call) /\ FileFits(tree, c, w, call)
           /\ call.op = "put" /\ Busy(c) /\ CallOk(call, FsPresent)
           /\ w.todo \in Seq(FsKeys) /\ w.todo # <<>>
           /\ k = Head(w.todo) /\ k \in FsKeys /\ k \in Paths /\ k \in call.keys
           /\ Tail(w.todo) \in Seq(FsKeys) /\ ToSet(Tail(w.todo)) \subseteq call.keys
           /\ call.keys \subseteq call.done \cup {k} \cup ToSet(Tail(w.todo))
<1> DEFINE w == walker[c]
           call == calls[c]
<1>1. WalkFits(w, call) /\ FileFits(tree, c, w, call) /\ CallOk(call, FsPresent)
  BY DEF FsInv, WalksFit, LogOk
<1>2. /\ IsWalk(w) /\ call.op = "put" /\ w.todo \in Seq(FsKeys) /\ w.todo # <<>>
      /\ ToSet(w.todo) \subseteq call.keys /\ call.keys \subseteq call.done \cup ToSet(w.todo)
  BY <1>1 DEF WalkFits
<1>3. /\ Head(w.todo) \in FsKeys /\ Head(w.todo) \in ToSet(w.todo)
      /\ Tail(w.todo) \in Seq(FsKeys)
      /\ ToSet(Tail(w.todo)) \subseteq ToSet(w.todo)
      /\ ToSet(w.todo) \subseteq {Head(w.todo)} \cup ToSet(Tail(w.todo))
  BY <1>2, HeadAndTail
<1>4. QED
  BY <1>1, <1>2, <1>3, PathsAre DEF key, Busy

LEMMA MkdirKeeps ==
    ASSUME FsInv, backend = "fs", backend' = backend, NEW c \in Clients, Mkdir(c)
    PROVE  FsInv' /\ Served
<1> DEFINE w == [walker[c] EXCEPT !.at = "open"]
           k == key(c)
           D == Directories(k)
<1>1. walker[c].at = "mkdir" /\ UNCHANGED calls /\ Becomes(c, w)
  BY DEF Mkdir, At
<1>2. /\ tree' = [p \in Paths |-> IF p \in D THEN Dir ELSE tree[p]]
      /\ \A d \in D : ~IsFile(d)
  BY DEF Mkdir
<1>3. /\ IsWalk(walker[c]) /\ WalkFits(walker[c], calls[c])
      /\ FileFits(tree, c, walker[c], calls[c]) /\ k \in FsKeys /\ k \in Paths
  BY <1>1, WriteSteps DEF Writing
<1>4. /\ IsText(k) /\ D \subseteq Paths
      /\ \A p \in D : Directories(p) \subseteq D
      /\ \A p \in Paths : Directories(p) \subseteq Paths
  BY <1>3, PathsAre, DirectoriesAbove
<1>5. /\ Dir.kind = "dir" /\ Dir \in [kind : {"none", "dir", "file"}, bytes : Contents]
  BY ContentsAre DEF Dir
<1>6. /\ \A p \in D : IsDir(p)' /\ ~IsFile(p)'
      /\ \A p \in Paths \ D : tree'[p] = tree[p]
      /\ \A p \in Paths : IsDir(p) => IsDir(p)'
      /\ \A p \in Paths : IsFile(p) => tree'[p] = tree[p] /\ p \notin D
      /\ \A p \in Paths : IsFile(p)' <=> IsFile(p)
  BY <1>2, <1>4, <1>5 DEF IsDir, IsFile
<1>7. TreeOk'
  <2>1. tree' \in [Paths -> [kind : {"none", "dir", "file"}, bytes : Contents]]
    BY <1>2, <1>5 DEF FsInv, TreeOk
  <2>2. ASSUME NEW p \in Paths, tree'[p] # Nothing, p # Root, NEW d \in Directories(p)
        PROVE  IsDir(d)'
    <3>1. CASE p \in D
      BY <1>4, <1>6, <2>2, <3>1
    <3>2. CASE p \notin D
      <4>1. tree[p] # Nothing
        BY <1>6, <2>2, <3>2
      <4>2. IsDir(d) /\ d \in Paths
        BY <1>4, <2>2, <4>1 DEF FsInv, TreeOk
      <4>3. QED
        BY <1>6, <4>2
    <3>3. QED
      BY <3>1, <3>2
  <2>3. \A p \in Paths : IsFile(p)' => p \in FsKeys
    BY <1>6 DEF FsInv, TreeOk
  <2>4. QED
    BY <2>1, <2>2, <2>3 DEF TreeOk
<1>8. FsPresent' = FsPresent
  BY <1>6, PathsAre DEF FsPresent
<1>9. UNCHANGED AllBlobs
  <2>1. ASSUME NEW x \in FsKeys PROVE FsBlob(x, "nobody", "torn")' = FsBlob(x, "nobody", "torn")
    <3>1. CASE IsFile(x)
      BY <1>6, <3>1, PathsAre DEF FsBlob
    <3>2. CASE ~IsFile(x)
      BY <1>6, <3>2, PathsAre DEF FsBlob
    <3>3. QED
      BY <3>1, <3>2
  <2>2. QED
    BY <2>1, FsBlobs, FsBlobsNext
<1>10. IsWalk(w) /\ w.at = "open" /\ w.todo = walker[c].todo /\ w.linked = walker[c].linked
  BY <1>3 DEF IsWalk
<1> HIDE DEF w
<1>11. WalkFits(w, calls'[c]) /\ FileFits(tree', c, w, calls'[c])
  BY <1>1, <1>3, <1>10 DEF WalkFits, FileFits, Writing, Reading, Listing
<1>12. WalksFit'
  <2>1. \A x \in FsKeys : (IsFile(x) => IsFile(x)')
    BY <1>6, PathsAre
  <2>2. \A x \in FsKeys : ~IsFile(x) \/ tree'[x] = tree[x]
    BY <1>6, PathsAre
  <2>3. QED
    BY <1>1, <1>11, <2>1, <2>2, FsGoes, LaterItself DEF FsInv
<1>13. QED
  BY <1>1, <1>7, <1>8, <1>9, <1>12 DEF FsInv, LogOk, Served

\* A put makes a file, or writes to one: its blob is whole when the put has
\* written all of it, and of nobody else.
LEMMA FileChanges ==
    ASSUME FsInv, backend = "fs", backend' = backend, NEW c \in Clients, NEW k \in FsKeys,
           calls[c].op = "put", k \in calls[c].keys,
           NEW b \in Contents, \A d : WholeBy(b, d) => d = c,
           IsFile(k) \/ (IsDir(Parent(k)) /\ ~IsDir(k)),
           tree' = [tree EXCEPT ![k] = File(b)], Touches(c, k, TRUE, WholeBy(b, c))
    PROVE  /\ TreeOk' /\ LogOk(FsPresent)' /\ Served
           /\ tree'[k] = File(b) /\ \A x \in FsKeys \ {k} : tree'[x] = tree[x]
           /\ \A x \in FsKeys : IsFile(x) => IsFile(x)'
           /\ \A d \in Clients : Later(calls[d], calls'[d])
           /\ \A d \in Clients \ {c} : calls[d].op = "put" /\ k \in calls[d].keys => k \in calls'[d].done
           /\ WholeBy(b, c) => k \in calls'[c].done
<1> DEFINE whole == WholeBy(b, c)
<1>1. /\ k \in Paths /\ IsText(k) /\ k # Root /\ FsKeys \subseteq Paths
      /\ \A p \in Paths : IsText(p) /\ Directories(p) \subseteq Paths
  BY PathsAre
<1>2. /\ File(b).kind = "file" /\ File(b).bytes = b
      /\ File(b) \in [kind : {"none", "dir", "file"}, bytes : Contents]
      /\ Nothing.kind = "none"
  BY DEF File, Nothing
<1>3. /\ tree'[k] = File(b)
      /\ \A p \in Paths \ {k} : tree'[p] = tree[p]
      /\ tree' \in [Paths -> [kind : {"none", "dir", "file"}, bytes : Contents]]
  BY <1>1, <1>2 DEF FsInv, TreeOk
<1>4. ~IsDir(k)
  BY DEF IsFile, IsDir
<1>5. \A d \in Directories(k) : IsDir(d)
  <2>1. CASE IsFile(k)
    BY <1>1, <1>2, <2>1 DEF FsInv, TreeOk, IsFile
  <2>2. CASE IsDir(Parent(k))
    <3> DEFINE q == Parent(k)
    <3>1. q \in Paths /\ Directories(k) \subseteq {q} \cup Directories(q)
      BY <1>1, ParentIs
    <3>2. CASE q = Root
      <4>1. Directories(Root) = {Root}
        BY DEF Directories, Root
      <4>2. QED
        BY <2>2, <3>1, <3>2, <4>1
    <3>3. CASE q # Root
      <4>1. tree[q] # Nothing
        BY <1>2, <2>2 DEF IsDir
      <4>2. QED
        BY <2>2, <3>1, <3>3, <4>1 DEF FsInv, TreeOk
    <3>4. QED
      BY <3>2, <3>3
  <2>3. QED
    BY <2>1, <2>2
<1>6. \A d \in Paths : IsDir(d) => IsDir(d)'
  BY <1>3, <1>4 DEF IsDir
<1>7. TreeOk'
  <2>1. ASSUME NEW p \in Paths, tree'[p] # Nothing, p # Root, NEW d \in Directories(p)
        PROVE  IsDir(d)'
    <3>1. d \in Paths
      BY <1>1
    <3>2. IsDir(d)
      <4>1. CASE p = k
        BY <1>5, <4>1
      <4>2. CASE p # k
        BY <1>3, <2>1, <4>2 DEF FsInv, TreeOk
      <4>3. QED
        BY <4>1, <4>2
    <3>3. QED
      BY <1>6, <3>1, <3>2
  <2>2. \A p \in Paths : IsFile(p)' => p \in FsKeys
    BY <1>3 DEF FsInv, TreeOk, IsFile
  <2>3. QED
    BY <1>3, <2>1, <2>2 DEF TreeOk
<1>8. FsPresent' = FsPresent \cup {k}
  BY <1>1, <1>2, <1>3 DEF FsPresent, IsFile
<1>9. \A x \in FsKeys : IsFile(x) => IsFile(x)'
  BY <1>1, <1>2, <1>3 DEF IsFile
<1>10. /\ calls' = [d \in Clients |-> calls'[d]]
       /\ \A d \in Clients :
             /\ CallOk(calls'[d], FsPresent \cup {k}) /\ Later(calls[d], calls'[d])
             /\ d # c /\ calls[d].op = "put" /\ k \in calls[d].keys => k \in calls'[d].done
       /\ whole => k \in calls'[c].done
  <2>1. LogOk(FsPresent) /\ whole \in BOOLEAN
    BY DEF FsInv, WholeBy
  <2> HIDE DEF whole
  <2>2. Touches(c, k, TRUE, whole)
    BY DEF whole
  <2>3. QED
    BY <2>1, <2>2, Storing
<1>11. AllBlobs' = [AllBlobs EXCEPT ![k] = IF whole THEN c ELSE "torn"]
  <2>1. AllBlobs = [x \in FsKeys |-> FsBlob(x, "nobody", "torn")]
    BY FsBlobs
  <2>2. AllBlobs' = [x \in FsKeys |-> FsBlob(x, "nobody", "torn")']
    BY FsBlobsNext
  <2>3. FsBlob(k, "nobody", "torn")' = IF whole THEN c ELSE "torn"
    <3>1. IsFile(k)' /\ tree'[k].bytes = b
      BY <1>2, <1>3 DEF IsFile
    <3>2. CASE whole
      <4>1. (CHOOSE d \in Clients : WholeBy(b, d)) = c
        BY <3>2
      <4>2. QED
        BY <3>1, <3>2, <4>1 DEF FsBlob
    <3>3. CASE ~whole
      <4>1. ~\E d \in Clients : WholeBy(b, d)
        BY <3>3
      <4>2. QED
        BY <3>1, <3>3, <4>1 DEF FsBlob
    <3>4. QED
      BY <3>2, <3>3
  <2>4. \A x \in FsKeys \ {k} : FsBlob(x, "nobody", "torn")' = FsBlob(x, "nobody", "torn")
    BY <1>1, <1>3 DEF FsBlob, IsFile
  <2> HIDE DEF whole
  <2>5. QED
    BY <2>1, <2>2, <2>3, <2>4
<1>12. Served
  <2> DEFINE blob == IF whole THEN c ELSE "torn"
  <2>1. blob \in {"torn", c} /\ (blob = c <=> whole)
    BY NamesAssumption
  <2>2. Touches(c, k, TRUE, blob = c)
    <3>1. (blob = c) = whole
      BY <2>1 DEF WholeBy
    <3>2. QED
      BY <3>1
  <2> HIDE DEF blob
  <2>3. QED
    BY <1>11, <2>1, <2>2, StoredServed DEF blob
<1>13. QED
  BY <1>1, <1>3, <1>7, <1>8, <1>9, <1>10, <1>12 DEF LogOk

LEMMA StillWriting ==
    ASSUME NEW w, NEW v, NEW call, WalkFits(w, call), w.at \in Writing,
           IsWalk(v), v.at \in {"open", "copy"}, v.todo = w.todo
    PROVE  WalkFits(v, call)
<1>1. v.at \in Writing /\ v.at \notin Reading \cup Listing \cup {"unlink", "is_file", "stat"}
  BY DEF Writing, Reading, Listing
<1>2. QED
  BY <1>1 DEF WalkFits

\* A put that makes a file, or writes to one, and goes on with the locals w.
LEMMA FileStepKeeps ==
    ASSUME FsInv, backend = "fs", backend' = backend, NEW c \in Clients,
           walker[c].at \in Writing,
           NEW b \in Contents, \A d : WholeBy(b, d) => d = c,
           IsFile(key(c)) \/ (IsDir(Parent(key(c))) /\ ~IsDir(key(c))),
           tree' = [tree EXCEPT ![key(c)] = File(b)],
           Touches(c, key(c), TRUE, WholeBy(b, c)),
           NEW w, Becomes(c, w), IsWalk(w), w.at = "copy", w.todo = walker[c].todo,
           w.linked = TRUE, w.off \in 0 .. Chunks,
           key(c) \notin calls[c].done => b = [i \in 1 .. w.off |-> c]
    PROVE  FsInv' /\ Served
<1> DEFINE k == key(c)
<1>1. /\ WalkFits(walker[c], calls[c]) /\ calls[c].op = "put"
      /\ k = Head(w.todo) /\ k \in FsKeys /\ k \in calls[c].keys
  BY WriteSteps
<1>2. /\ TreeOk' /\ LogOk(FsPresent)' /\ Served
      /\ tree'[k] = File(b) /\ \A x \in FsKeys \ {k} : tree'[x] = tree[x]
      /\ \A x \in FsKeys : IsFile(x) => IsFile(x)'
      /\ \A d \in Clients : Later(calls[d], calls'[d])
      /\ \A d \in Clients \ {c} : calls[d].op = "put" /\ k \in calls[d].keys => k \in calls'[d].done
      /\ WholeBy(b, c) => k \in calls'[c].done
  BY <1>1, FileChanges
<1>3. WalkFits(w, calls'[c])
  BY <1>1, <1>2, WalkLater, StillWriting
<1>4. FileFits(tree', c, w, calls'[c])
  <2>1. tree'[k].kind = "file" /\ tree'[k].bytes = b
    BY <1>2 DEF File
  <2>2. ASSUME k \notin calls'[c].done
        PROVE  w.off < Chunks /\ b = [i \in 1 .. w.off |-> c]
    <3>1. b = [i \in 1 .. w.off |-> c]
      BY <1>2, <2>2 DEF Later
    <3>2. w.off # Chunks
      <4>1. SUFFICES ASSUME w.off = Chunks PROVE FALSE
        OBVIOUS
      <4>2. Len(b) = Chunks /\ DOMAIN b = 1 .. Chunks /\ \A i \in 1 .. Chunks : b[i] = c
        BY <3>1, <4>1, ChunksAssumption
      <4>3. WholeBy(b, c)
        BY <4>2 DEF WholeBy
      <4>4. QED
        BY <1>2, <2>2, <4>3
    <3>3. QED
      BY <3>1, <3>2, ChunksAssumption
  <2>3. QED
    BY <1>1, <2>1, <2>2 DEF FileFits
<1>5. WalksFit'
  <2>1. \A d \in Clients \ {c}, x \in FsKeys :
            \/ ~IsFile(x) \/ tree'[x] = tree[x]
            \/ calls[d].op = "put" /\ x \in calls[d].keys => x \in calls'[d].done
    BY <1>2
  <2>2. QED
    BY <1>2, <1>3, <1>4, <2>1, FsGoes DEF FsInv
<1>6. QED
  BY <1>2, <1>5 DEF FsInv

LEMMA OpenFileKeeps ==
    ASSUME FsInv, backend = "fs", backend' = backend, NEW c \in Clients, OpenFile(c)
    PROVE  FsInv' /\ Served
<1> DEFINE w == [walker[c] EXCEPT !.at = "copy", !.off = 0, !.linked = TRUE]
           k == key(c)
<1>1. /\ walker[c].at = "open" /\ IsDir(Parent(k)) /\ ~IsDir(k) /\ Becomes(c, w)
      /\ tree' = [tree EXCEPT ![k] = File(<<>>)] /\ Touches(c, k, TRUE, FALSE)
  BY DEF OpenFile, At
<1>2. IsWalk(walker[c]) /\ walker[c].at \in Writing
  BY <1>1, WriteSteps DEF Writing
<1>3. /\ IsWalk(w) /\ w.at = "copy" /\ w.todo = walker[c].todo
      /\ w.linked = TRUE /\ w.off = 0
  BY <1>2 DEF IsWalk
<1> HIDE DEF w
<1>4. \A d : WholeBy(<<>>, d) = FALSE
  BY ChunksAssumption DEF WholeBy
<1>5. /\ <<>> \in Contents /\ <<>> = [i \in 1 .. 0 |-> c] /\ 0 \in 0 .. Chunks
      /\ \A d : WholeBy(<<>>, d) => d = c
  BY <1>4, ContentsAre, ChunksAssumption
<1>6. Touches(c, k, TRUE, WholeBy(<<>>, c))
  BY <1>1, <1>4
<1>7. QED
  BY <1>1, <1>2, <1>3, <1>5, <1>6, FileStepKeeps

LEMMA CopyChunkKeeps ==
    ASSUME FsInv, backend = "fs", backend' = backend, NEW c \in Clients, CopyChunk(c)
    PROVE  FsInv' /\ Served
<1> DEFINE v == walker[c]
           w == [v EXCEPT !.off = @ + 1]
           k == key(c)
           bytes == Written(tree[k].bytes, v.off, c)
<1>1. v.at = "copy" /\ v.off < Chunks /\ Becomes(c, w)
  BY DEF CopyChunk, At
<1>2. v.at \in Writing
  BY <1>1 DEF Writing
<1>3. /\ IsWalk(v) /\ WalkFits(v, calls[c]) /\ FileFits(tree, c, v, calls[c])
      /\ k = Head(v.todo) /\ k \in FsKeys /\ k \in Paths
  BY <1>2, WriteSteps
<1>4. v.off \in 0 .. Chunks /\ v.linked \in BOOLEAN
  BY <1>1, <1>3 DEF FileFits
<1>5. /\ IsWalk(w) /\ w.at = "copy" /\ w.todo = v.todo
      /\ w.linked = v.linked /\ w.off = v.off + 1 /\ w.off \in 0 .. Chunks
  <2>1. v.off + 1 \in 0 .. Chunks
    BY <1>1, <1>4, ChunksAssumption
  <2>2. QED
    BY <1>1, <1>3, <2>1 DEF IsWalk
<1>6. CASE v.linked
  <2>1. tree' = [tree EXCEPT ![k] = File(bytes)] /\ Touches(c, k, TRUE, WholeBy(bytes, c))
    BY <1>6 DEF CopyChunk
  <2>2. IsFile(k)
    BY <1>3, <1>6 DEF FileFits, IsFile
  <2>3. tree[k].bytes \in Contents
    BY <1>3 DEF FsInv, TreeOk
  <2>4. /\ bytes \in Contents /\ \A d : WholeBy(bytes, d) => d = c
        /\ tree[k].bytes = [i \in 1 .. v.off |-> c] => bytes = [i \in 1 .. v.off + 1 |-> c]
    BY <1>1, <1>4, <2>3, WrittenIs
  <2>5. k \notin calls[c].done => bytes = [i \in 1 .. w.off |-> c]
    BY <1>1, <1>3, <1>5, <2>4 DEF FileFits
  <2> HIDE DEF w, bytes
  <2>6. QED
    BY <1>1, <1>2, <1>5, <1>6, <2>1, <2>2, <2>4, <2>5, FileStepKeeps
<1>7. CASE ~v.linked
  <2>1. Stays
    BY <1>7 DEF CopyChunk, Stays
  <2>2. WalkFits(w, calls[c])
    BY <1>2, <1>3, <1>5, StillWriting
  <2>3. FileFits(tree, c, w, calls[c])
    BY <1>1, <1>3, <1>4, <1>5, <1>7 DEF FileFits
  <2> HIDE DEF w
  <2>4. QED
    BY <1>1, <2>1, <2>2, <2>3, FsStutters
<1>8. QED
  BY <1>6, <1>7

LEMMA CopyEndsKeeps ==
    ASSUME FsInv, backend = "fs", backend' = backend, NEW c \in Clients, CopyEnds(c)
    PROVE  FsInv' /\ Served
<1> DEFINE v == walker[c]
           w == [v EXCEPT !.at = "stat", !.linked = FALSE]
<1>1. v.at = "copy" /\ v.off = Chunks /\ Becomes(c, w) /\ Stays
  BY DEF CopyEnds, At
<1>2. v.at \in Writing
  BY <1>1 DEF Writing
<1>3. /\ IsWalk(v) /\ WalkFits(v, calls[c]) /\ FileFits(tree, c, v, calls[c])
      /\ calls[c].keys \subseteq calls[c].done \cup {Head(v.todo)} \cup ToSet(Tail(v.todo))
  BY <1>2, WriteSteps
<1>4. IsWalk(w) /\ w.at = "stat" /\ w.todo = v.todo /\ w.linked = FALSE
  BY <1>3 DEF IsWalk
<1> HIDE DEF w
<1>5. Head(v.todo) \in calls[c].done
  BY <1>1, <1>3, ChunksAssumption DEF FileFits
<1>6. WalkFits(w, calls[c])
  BY <1>2, <1>3, <1>4, <1>5 DEF WalkFits, Writing, Reading, Listing
<1>7. FileFits(tree, c, w, calls[c])
  BY <1>4 DEF FileFits
<1>8. QED
  BY <1>1, <1>6, <1>7, FsStutters

LEMMA StatStoredKeeps ==
    ASSUME FsInv, backend = "fs", backend' = backend, NEW c \in Clients, StatStored(c)
    PROVE  FsInv' /\ Served
<1> DEFINE v == walker[c]
           rest == Tail(v.todo)
           w == [NoWalk EXCEPT !.at = "mkdir", !.todo = rest]
<1>1. v.at = "stat" /\ v.at \in Writing
  BY DEF StatStored, At, Writing
<1>2. /\ IsWalk(v) /\ WalkFits(v, calls[c]) /\ calls[c].op = "put" /\ Busy(c)
      /\ rest \in Seq(FsKeys) /\ ToSet(rest) \subseteq calls[c].keys
      /\ CallOk(calls[c], FsPresent)
  BY <1>1, WriteSteps
<1>3. calls[c].keys \subseteq calls[c].done \cup ToSet(rest)
  BY <1>1, <1>2 DEF WalkFits
<1>4. CASE rest = <<>>
  <2>1. FsReturns(c, Answer("ok", {}))
    BY <1>4 DEF StatStored
  <2>2. calls[c].done = calls[c].keys
    <3>1. ToSet(rest) = {}
      BY <1>4 DEF ToSet
    <3>2. QED
      BY <1>2, <1>3, <3>1 DEF CallOk
  <2>3. AllKeys!Truthful(calls[c], Answer("ok", {}))
    BY <1>2, <2>2 DEF AllKeys!Truthful, Answer
  <2>4. QED
    BY <1>2, <2>1, <2>3, AnswersAre, FsAnswers
<1>5. CASE rest # <<>>
  <2>1. Stays /\ Becomes(c, w)
    BY <1>5 DEF StatStored
  <2>2. IsWalk(w) /\ w.at = "mkdir" /\ w.todo = rest /\ w.linked = FALSE
    BY DEF IsWalk, NoWalk
  <2> HIDE DEF w, rest
  <2>3. WalkFits(w, calls[c])
    BY <1>2, <1>3, <1>5, <2>2 DEF WalkFits, Writing, Reading, Listing
  <2>4. FileFits(tree, c, w, calls[c])
    BY <2>2 DEF FileFits
  <2>5. QED
    BY <2>1, <2>3, <2>4, FsStutters
<1>6. QED
  BY <1>4, <1>5

----------------------------------------------------------------------------
(* Deleting.                                                                *)

\* What a delete starts each of its steps from.
LEMMA UnlinkSteps ==
    ASSUME FsInv, NEW c \in Clients, walker[c].at = "unlink"
    PROVE  LET w == walker[c] call == calls[c] k == key(c) IN
           /\ IsWalk(w) /\ call.op = "delete" /\ Busy(c) /\ CallOk(call, FsPresent)
           /\ w.todo \in Seq(FsKeys) /\ w.linked = FALSE
           /\ call.keys \subseteq call.done \cup ToSet(w.todo) \cup w.bad
           /\ w.todo # <<>> =>
                 /\ k = Head(w.todo) /\ k \in FsKeys /\ k \in Paths /\ k \in call.keys
                 /\ Tail(w.todo) \in Seq(FsKeys) /\ ToSet(Tail(w.todo)) \subseteq call.keys
                 /\ call.keys \subseteq call.done \cup {k} \cup ToSet(Tail(w.todo)) \cup w.bad
<1> DEFINE w == walker[c]
           call == calls[c]
<1>1. WalkFits(w, call) /\ FileFits(tree, c, w, call) /\ CallOk(call, FsPresent)
  BY DEF FsInv, WalksFit, LogOk
<1>2. /\ IsWalk(w) /\ call.op = "delete" /\ w.todo \in Seq(FsKeys) /\ w.linked = FALSE
      /\ ToSet(w.todo) \subseteq call.keys
      /\ call.keys \subseteq call.done \cup ToSet(w.todo) \cup w.bad
  BY <1>1 DEF WalkFits, FileFits
<1>3. w.todo # <<>> =>
         /\ Head(w.todo) \in FsKeys /\ Head(w.todo) \in ToSet(w.todo)
         /\ Tail(w.todo) \in Seq(FsKeys)
         /\ ToSet(Tail(w.todo)) \subseteq ToSet(w.todo)
         /\ ToSet(w.todo) \subseteq {Head(w.todo)} \cup ToSet(Tail(w.todo))
  BY <1>2, HeadAndTail
<1>4. QED
  BY <1>1, <1>2, <1>3, PathsAre DEF key, Busy

\* The delete of a key that is done with it, or that has failed on it.
LEMMA DeletesNextFits ==
    ASSUME FsInv, NEW c \in Clients, walker[c].at = "unlink", walker[c].todo # <<>>,
           NEW w, IsWalk(w), w.at = "unlink", w.todo = Tail(walker[c].todo), w.linked = FALSE,
           walker[c].bad \subseteq w.bad, NEW call, Later(calls[c], call),
           key(c) \in call.done \cup w.bad, NEW t
    PROVE  WalkFits(w, call) /\ FileFits(t, c, w, call)
<1>1. /\ calls[c].op = "delete" /\ Tail(walker[c].todo) \in Seq(FsKeys)
      /\ ToSet(Tail(walker[c].todo)) \subseteq calls[c].keys
      /\ calls[c].keys \subseteq
             calls[c].done \cup {key(c)} \cup ToSet(Tail(walker[c].todo)) \cup walker[c].bad
  BY UnlinkSteps
<1>2. call.op = "delete" /\ call.keys = calls[c].keys /\ calls[c].done \subseteq call.done
  BY <1>1 DEF Later
<1>3. call.keys \subseteq call.done \cup ToSet(w.todo) \cup w.bad
  BY <1>1, <1>2
<1>4. WalkFits(w, call)
  BY <1>1, <1>2, <1>3 DEF WalkFits, Writing, Reading, Listing
<1>5. QED
  BY <1>4 DEF FileFits

LEMMA UnlinkFailsKeeps ==
    ASSUME FsInv, backend = "fs", backend' = backend, NEW c \in Clients, UnlinkFails(c)
    PROVE  FsInv' /\ Served
<1> DEFINE bad == walker[c].bad \cup {key(c)}
           w == [walker[c] EXCEPT !.todo = Tail(@), !.bad = bad]
<1>1. walker[c].at = "unlink" /\ walker[c].todo # <<>> /\ Becomes(c, w) /\ Stays
  BY DEF UnlinkFails, At, DeletesNext
<1>2. IsWalk(walker[c]) /\ walker[c].linked = FALSE
  BY <1>1, UnlinkSteps
<1>3. /\ IsWalk(w) /\ w.at = "unlink" /\ w.todo = Tail(walker[c].todo)
      /\ w.linked = FALSE /\ w.bad = bad
  BY <1>1, <1>2 DEF IsWalk
<1>4. walker[c].bad \subseteq bad /\ key(c) \in bad
  OBVIOUS
<1> HIDE DEF w, bad
<1>5. WalkFits(w, calls[c]) /\ FileFits(tree, c, w, calls[c])
  BY <1>1, <1>3, <1>4, DeletesNextFits, LaterItself
<1>6. QED
  BY <1>1, <1>5, FsStutters

LEMMA UnlinksReturnKeeps ==
    ASSUME FsInv, backend = "fs", backend' = backend, NEW c \in Clients, UnlinksReturn(c)
    PROVE  FsInv' /\ Served
<1> DEFINE w == walker[c]
           call == calls[c]
           a == IF w.bad = {} THEN Answer("ok", {}) ELSE Answer("batch", call.keys \ w.bad)
<1>1. w.at = "unlink" /\ w.todo = <<>> /\ FsReturns(c, a)
  BY DEF UnlinksReturn, At
<1>2. /\ call.op = "delete" /\ Busy(c) /\ CallOk(call, FsPresent)
      /\ call.keys \subseteq call.done \cup ToSet(w.todo) \cup w.bad
  BY <1>1, UnlinkSteps
<1>3. call.keys \subseteq call.done \cup w.bad /\ call.done \subseteq call.keys
  <2>1. ToSet(w.todo) = {}
    BY <1>1 DEF ToSet
  <2>2. QED
    BY <1>2, <2>1 DEF CallOk
<1>4. AllKeys!Truthful(call, a)
  <2>1. CASE w.bad = {}
    <3>1. a.is = "ok" /\ call.done = call.keys
      BY <1>3, <2>1 DEF Answer
    <3>2. QED
      BY <1>2, <3>1 DEF AllKeys!Truthful
  <2>2. CASE w.bad # {}
    <3>1. a.is = "batch" /\ a.found = call.keys \ w.bad
      BY <2>2 DEF Answer
    <3>2. a.found \subseteq call.done
      BY <1>3, <3>1
    <3>3. QED
      BY <1>2, <3>1, <3>2 DEF AllKeys!Truthful
  <2>3. QED
    BY <2>1, <2>2
<1>5. QED
  BY <1>1, <1>2, <1>4, AnswersAre, FsAnswers

LEMMA AlreadyGoneKeeps ==
    ASSUME FsInv, backend = "fs", backend' = backend, NEW c \in Clients, AlreadyGone(c)
    PROVE  FsInv' /\ Served
<1> DEFINE w == [walker[c] EXCEPT !.todo = Tail(@), !.bad = walker[c].bad]
           k == key(c)
<1>1. /\ walker[c].at = "unlink" /\ walker[c].todo # <<>> /\ Becomes(c, w)
      /\ ~IsFile(k) /\ Touches(c, k, FALSE, TRUE) /\ UNCHANGED tree
  BY DEF AlreadyGone, At, DeletesNext
<1>2. /\ IsWalk(walker[c]) /\ walker[c].linked = FALSE /\ calls[c].op = "delete"
      /\ k \in FsKeys /\ k \in calls[c].keys
  BY <1>1, UnlinkSteps
<1>3. /\ IsWalk(w) /\ w.at = "unlink" /\ w.todo = Tail(walker[c].todo)
      /\ w.linked = FALSE /\ w.bad = walker[c].bad
  BY <1>1, <1>2 DEF IsWalk
<1> HIDE DEF w
<1>4. FsPresent \ {k} = FsPresent /\ LogOk(FsPresent)
  BY <1>1 DEF FsPresent, FsInv
<1>5. /\ calls' = [d \in Clients |-> calls'[d]]
      /\ \A d \in Clients : CallOk(calls'[d], FsPresent) /\ Later(calls[d], calls'[d])
      /\ k \in calls'[c].done
  <2>1. /\ calls' = [d \in Clients |-> calls'[d]]
        /\ \A d \in Clients : CallOk(calls'[d], FsPresent \ {k}) /\ Later(calls[d], calls'[d])
        /\ k \in calls'[c].done
    BY <1>1, <1>2, <1>4, Removing, Zenon
  <2>2. QED
    BY <1>4, <2>1
<1>6. TreeOk' /\ FsPresent' = FsPresent
  BY <1>1 DEF FsInv, TreeOk, IsFile, IsDir, FsPresent
<1>7. WalkFits(w, calls'[c]) /\ FileFits(tree', c, w, calls'[c])
  BY <1>1, <1>3, <1>5, DeletesNextFits
<1>8. WalksFit'
  BY <1>1, <1>5, <1>7, FsGoes DEF FsInv, IsFile
<1>9. AllBlobs' = [AllBlobs EXCEPT ![k] = "nobody"]
  <2>1. AllBlobs = [x \in FsKeys |-> FsBlob(x, "nobody", "torn")]
    BY FsBlobs
  <2>2. AllBlobs' = [x \in FsKeys |-> FsBlob(x, "nobody", "torn")']
    BY FsBlobsNext
  <2>3. \A x \in FsKeys : FsBlob(x, "nobody", "torn")' = FsBlob(x, "nobody", "torn")
    BY <1>1 DEF FsBlob, IsFile
  <2>4. FsBlob(k, "nobody", "torn") = "nobody"
    BY <1>1 DEF FsBlob
  <2>5. QED
    BY <2>1, <2>2, <2>3, <2>4
<1>10. Served
  BY <1>1, <1>2, <1>9, RemovedServed
<1>11. QED
  BY <1>5, <1>6, <1>8, <1>10 DEF FsInv, LogOk

\* What is removed is neither open under its key any more nor due in a listing:
\* nobody's call waits for it.
LEMMA RemovalFits ==
    ASSUME NEW d \in Clients, NEW w, NEW v, NEW call, NEW new, NEW t,
           WalkFits(w, call), FileFits(tree, d, w, call), Later(call, new),
           IsWalk(v), v.at = w.at, v.todo = w.todo, v.off = w.off, v.bad = w.bad,
           v.dirs = w.dirs, v.found = w.found, v.due \subseteq w.due,
           \A x \in new.steady : \A e \in w.due \ v.due : e # x /\ e \notin Directories(x),
           v.linked \in BOOLEAN,
           v.linked => w.linked /\ t[Head(w.todo)].kind = "file",
           w.at = "copy" /\ w.linked /\ Head(w.todo) \notin new.done =>
               v.linked /\ t[Head(w.todo)] = tree[Head(w.todo)]
    PROVE  WalkFits(v, new) /\ FileFits(t, d, v, new)
<1>1. WalkFits(w, new)
  BY WalkLater
<1>2. WalkFits(v, new)
  <2>1. CASE w.at \in Listing
    <3>1. /\ new.op = "list" /\ IsText(w.dirs) /\ w.dirs # <<>>
          /\ IsText(PrefixHint(new.filter)) /\ Shows(new, w.found)
          /\ w.at = "opendir" => w.due = {}
          /\ w.at \notin Writing \cup Reading \cup {"stat", "unlink", "is_file", "blind"}
      BY <1>1, <2>1 DEF WalkFits, Writing, Reading, Listing
    <3>2. ASSUME NEW x \in new.steady
          PROVE  x \in v.found \cup v.due \/ \E e \in Directories(x) : e \in Ahead(v)
      <4>1. x \in w.found \cup w.due \/ \E e \in Directories(x) : e \in Ahead(w)
        BY <1>1, <2>1 DEF WalkFits
      <4>2. CASE x \in w.found \cup w.due
        BY <4>2
      <4>3. CASE \E e \in Directories(x) : e \in Ahead(w)
        <5>1. PICK e \in Directories(x) : e \in Ahead(w)
          BY <4>3
        <5>2. e \in w.due => e \in v.due
          BY <5>1
        <5>3. e \in Ahead(v)
          BY <5>1, <5>2 DEF Ahead
        <5>4. QED
          BY <5>1, <5>3
      <4>4. QED
        BY <4>1, <4>2, <4>3
    <3>3. v.at = "opendir" => v.due = {}
      BY <3>1
    <3>4. QED
      BY <2>1, <3>1, <3>2, <3>3 DEF WalkFits
  <2>2. CASE w.at \notin Listing
    BY <1>1, <2>2 DEF WalkFits
  <2>3. QED
    BY <2>1, <2>2
<1>3. FileFits(t, d, v, new)
  <2>1. w.at = "copy" /\ Head(w.todo) \notin new.done => Head(w.todo) \notin call.done
    BY DEF Later
  <2>2. QED
    BY <2>1 DEF FileFits
<1>4. QED
  BY <1>2, <1>3

LEMMA UnlinkKeeps ==
    ASSUME FsInv, backend = "fs", backend' = backend, NEW c \in Clients, Unlink(c)
    PROVE  FsInv' /\ Served
<1>1. walker[c].at = "unlink" /\ walker[c].todo # <<>>
  BY DEF Unlink, At
<1>2. PICK k \in FsKeys : k = key(c)
  BY <1>1, UnlinkSteps
<1>3. /\ IsWalk(walker[c]) /\ walker[c].linked = FALSE /\ calls[c].op = "delete"
      /\ k \in FsKeys /\ k \in Paths /\ k \in calls[c].keys
      /\ IsFile(k) /\ Touches(c, k, FALSE, TRUE)
      /\ tree' = [tree EXCEPT ![k] = Nothing]
      /\ walker' = [Unlinked({k}) EXCEPT ![c].todo = Tail(@)]
  BY <1>1, <1>2, UnlinkSteps DEF Unlink
<1>4. /\ tree'[k] = Nothing
      /\ \A p \in Paths \ {k} : tree'[p] = tree[p]
      /\ tree' \in [Paths -> [kind : {"none", "dir", "file"}, bytes : Contents]]
      /\ Nothing.kind = "none"
  BY <1>3, ContentsAre DEF FsInv, TreeOk, Nothing
<1>5. /\ \A p \in Paths : IsDir(p) => IsDir(p)' /\ p # k
      /\ \A x \in FsKeys \ {k} : IsFile(x)' <=> IsFile(x)
      /\ ~IsFile(k)'
  <2>1. \A p \in Paths : IsDir(p) => IsDir(p)' /\ p # k
    BY <1>1, <1>3, <1>4 DEF IsDir, IsFile
  <2>2. \A x \in FsKeys \ {k} : IsFile(x)' <=> IsFile(x)
    BY <1>4, PathsAre DEF IsFile
  <2>3. ~IsFile(k)'
    BY <1>4 DEF IsFile
  <2>4. QED
    BY <2>1, <2>2, <2>3
<1>6. TreeOk'
  <2>1. ASSUME NEW p \in Paths, tree'[p] # Nothing, p # Root, NEW d \in Directories(p)
        PROVE  IsDir(d)'
    <3>1. p # k /\ tree[p] # Nothing /\ d \in Paths
      BY <1>4, <2>1, PathsAre
    <3>2. IsDir(d)
      BY <2>1, <3>1 DEF FsInv, TreeOk
    <3>3. QED
      BY <1>5, <3>1, <3>2
  <2>2. \A p \in Paths : IsFile(p)' => p \in FsKeys
    BY <1>2, <1>3, <1>4 DEF FsInv, TreeOk, IsFile
  <2>3. QED
    BY <1>4, <2>1, <2>2 DEF TreeOk
<1>7. FsPresent' = FsPresent \ {k}
  <2>1. \A x \in FsKeys : IsFile(x)' <=> IsFile(x) /\ x # k
    BY <1>5
  <2>2. QED
    BY <2>1 DEF FsPresent
<1>8. /\ calls' = [d \in Clients |-> calls'[d]]
      /\ \A d \in Clients :
            /\ CallOk(calls'[d], FsPresent \ {k}) /\ Later(calls[d], calls'[d])
            /\ calls[d].op = "put" /\ k \in calls[d].keys => k \in calls'[d].done
      /\ k \in calls'[c].done
  <2>1. LogOk(FsPresent)
    BY DEF FsInv
  <2>2. QED
    BY <1>1, <1>2, <1>3, <2>1, Removing, Zenon
<1>9. PICK u : u = Unlinked({k})
  OBVIOUS
<1>10. ASSUME NEW d \in Clients
      PROVE  LET v == u[d] w == walker[d] IN
             /\ IsWalk(v) /\ v.at = w.at /\ v.todo = w.todo /\ v.off = w.off /\ v.bad = w.bad
             /\ v.dirs = w.dirs /\ v.found = w.found /\ v.due = w.due \ {k}
             /\ v.linked = (w.linked /\ w.todo[1] \notin {k})
  <2>1. IsWalk(walker[d])
    BY DEF FsInv, WalksFit, WalkFits
  <2>2. QED
    BY <1>9, <2>1 DEF Unlinked, IsWalk
<1>11. /\ walker' = [d \in Clients |-> walker'[d]]
      /\ \A d \in Clients \ {c} : walker'[d] = u[d]
  <2>1. u = [d \in Clients |-> u[d]]
    BY <1>9 DEF Unlinked
  <2>2. QED
    BY <1>3, <1>9, <2>1
<1>12. ASSUME NEW d \in Clients \ {c}
       PROVE  WalkFits(walker'[d], calls'[d]) /\ FileFits(tree', d, walker'[d], calls'[d])
  <2> DEFINE v == u[d]
             w == walker[d]
  <2>1. /\ WalkFits(w, calls[d]) /\ FileFits(tree, d, w, calls[d])
        /\ CallOk(calls'[d], FsPresent \ {k}) /\ Later(calls[d], calls'[d])
        /\ calls[d].op = "put" /\ k \in calls[d].keys => k \in calls'[d].done
    BY <1>8 DEF FsInv, WalksFit
  <2>2. ASSUME NEW x \in calls'[d].steady PROVE k # x /\ k \notin Directories(x)
    <3>1. x \in FsKeys /\ x # k /\ IsFile(x)
      BY <2>1 DEF CallOk, Scope, FsPresent
    <3>2. x \in Paths /\ x # Root /\ tree[x] # Nothing
      BY <1>4, <3>1, PathsAre DEF IsFile
    <3>3. \A e \in Directories(x) : IsDir(e)
      BY <3>2 DEF FsInv, TreeOk
    <3>4. QED
      BY <1>2, <1>3, <1>5, <3>1, <3>3
  <2>3. w.at = "copy" =>
           /\ calls[d].op = "put" /\ Head(w.todo) \in FsKeys /\ Head(w.todo) \in calls[d].keys
           /\ w.todo[1] = Head(w.todo)
    <3>1. SUFFICES ASSUME w.at = "copy"
                   PROVE  /\ calls[d].op = "put" /\ Head(w.todo) \in FsKeys
                          /\ Head(w.todo) \in calls[d].keys /\ w.todo[1] = Head(w.todo)
      OBVIOUS
    <3>2. /\ w.todo \in Seq(FsKeys) /\ w.todo # <<>> /\ calls[d].op = "put"
          /\ ToSet(w.todo) \subseteq calls[d].keys
      BY <2>1, <3>1 DEF WalkFits, Writing
    <3>3. QED
      BY <3>2, HeadAndTail
  <2>4. /\ w.linked \in BOOLEAN /\ v.linked \in BOOLEAN
        /\ w.linked => w.at = "copy" /\ IsFile(Head(w.todo))
    BY <1>10, <2>1 DEF FileFits, IsFile
  <2>5. v.linked => w.linked /\ tree'[Head(w.todo)].kind = "file"
    <3>1. SUFFICES ASSUME v.linked PROVE w.linked /\ tree'[Head(w.todo)].kind = "file"
      OBVIOUS
    <3>2. w.linked /\ w.todo[1] # k
      BY <1>10, <3>1
    <3>3. Head(w.todo) \in FsKeys \ {k} /\ IsFile(Head(w.todo))
      BY <2>3, <2>4, <3>2
    <3>4. QED
      BY <1>5, <3>2, <3>3 DEF IsFile
  <2>6. w.at = "copy" /\ w.linked /\ Head(w.todo) \notin calls'[d].done =>
            v.linked /\ tree'[Head(w.todo)] = tree[Head(w.todo)]
    <3>1. SUFFICES ASSUME w.at = "copy", w.linked, Head(w.todo) \notin calls'[d].done
                   PROVE  v.linked /\ tree'[Head(w.todo)] = tree[Head(w.todo)]
      OBVIOUS
    <3>2. Head(w.todo) # k
      BY <2>1, <2>3, <3>1
    <3>3. v.linked
      BY <1>10, <2>3, <3>1, <3>2
    <3>4. QED
      BY <1>4, <2>3, <3>1, <3>2, <3>3, PathsAre
  <2>7. /\ IsWalk(v) /\ v.at = w.at /\ v.todo = w.todo /\ v.off = w.off /\ v.bad = w.bad
        /\ v.dirs = w.dirs /\ v.found = w.found /\ v.due \subseteq w.due
        /\ \A x \in calls'[d].steady : \A e \in w.due \ v.due : e # x /\ e \notin Directories(x)
    BY <1>10, <2>2
  <2> HIDE DEF v
  <2>8. WalkFits(v, calls'[d]) /\ FileFits(tree', d, v, calls'[d])
    BY <2>1, <2>4, <2>5, <2>6, <2>7, RemovalFits
  <2>9. QED
    BY <1>11, <2>8 DEF v
<1>13. WalkFits(walker'[c], calls'[c]) /\ FileFits(tree', c, walker'[c], calls'[c])
  <2>1. PICK v : v = u[c]
    OBVIOUS
  <2>2. /\ IsWalk(v) /\ v.at = "unlink" /\ v.todo = walker[c].todo /\ v.bad = walker[c].bad
        /\ v.linked = FALSE
    BY <1>1, <1>3, <1>10, <2>1
  <2>3. walker'[c] = [v EXCEPT !.todo = Tail(v.todo)]
    <3>1. u = [d \in Clients |-> u[d]]
      BY <1>9 DEF Unlinked
    <3>2. walker' = [u EXCEPT ![c].todo = Tail(@)]
      BY <1>3, <1>9
    <3>3. QED
      BY <2>1, <3>1, <3>2
  <2>4. /\ IsWalk(walker'[c]) /\ walker'[c].at = "unlink" /\ walker'[c].bad = walker[c].bad
        /\ walker'[c].todo = Tail(walker[c].todo) /\ walker'[c].linked = FALSE
    BY <2>2, <2>3 DEF IsWalk
  <2>5. QED
    BY <1>1, <1>2, <1>8, <2>4, DeletesNextFits
<1>14. WalksFit'
  BY <1>11, <1>12, <1>13 DEF WalksFit
<1>15. AllBlobs' = [AllBlobs EXCEPT ![k] = "nobody"]
  <2>1. AllBlobs = [x \in FsKeys |-> FsBlob(x, "nobody", "torn")]
    BY FsBlobs
  <2>2. AllBlobs' = [x \in FsKeys |-> FsBlob(x, "nobody", "torn")']
    BY FsBlobsNext
  <2>3. \A x \in FsKeys \ {k} : FsBlob(x, "nobody", "torn")' = FsBlob(x, "nobody", "torn")
    BY <1>4, PathsAre DEF FsBlob, IsFile
  <2>4. FsBlob(k, "nobody", "torn")' = "nobody"
    BY <1>5 DEF FsBlob
  <2>5. \A x \in FsKeys : AllBlobs'[x] = IF x = k THEN "nobody" ELSE AllBlobs[x]
    BY <2>1, <2>2, <2>3, <2>4
  <2>6. QED
    BY <1>2, <1>3, <2>1, <2>2, <2>5
<1>16. Served
  BY <1>1, <1>2, <1>3, <1>15, RemovedServed
<1>17. QED
  BY <1>6, <1>7, <1>8, <1>14, <1>16 DEF FsInv, LogOk

----------------------------------------------------------------------------
(* Reading.                                                                 *)

\* What a get or an exists knows of its one key.
LEMMA ReadSteps ==
    ASSUME FsInv, NEW c \in Clients, walker[c].at \in Reading \cup {"is_file"}
    PROVE  LET call == calls[c] k == key(c) IN
           /\ IsWalk(walker[c]) /\ walker[c].linked = FALSE /\ Busy(c)
           /\ call.op = IF walker[c].at = "is_file" THEN "exists" ELSE "get"
           /\ call.keys = {k} /\ k = Head(walker[c].todo)
           /\ call.steady \subseteq {x \in {k} : IsFile(x)}
           /\ {x \in {k} : IsFile(x)} \subseteq call.ever
<1> DEFINE w == walker[c]
           call == calls[c]
           k == key(c)
<1>1. WalkFits(w, call) /\ FileFits(tree, c, w, call) /\ CallOk(call, FsPresent)
  BY DEF FsInv, WalksFit, LogOk
<1>2. /\ IsWalk(w) /\ w.linked = FALSE
      /\ call.op = IF w.at = "is_file" THEN "exists" ELSE "get"
      /\ call.keys = {k} /\ k = Head(w.todo)
  BY <1>1 DEF WalkFits, FileFits, Reading, key
<1>3. k \in FsKeys
  BY <1>1, <1>2 DEF CallOk
<1> HIDE DEF k
<1>4. Scope(call, FsPresent) = {x \in {k} : IsFile(x)}
  BY <1>2, <1>3 DEF Scope, InScope, FsPresent
<1>5. QED
  BY <1>1, <1>2, <1>4 DEF CallOk, Busy, k

LEMMA ReadGoesOn ==
    ASSUME FsInv, backend = "fs", backend' = backend, NEW c \in Clients,
           walker[c].at \in Reading, NEW step \in Reading,
           Stays, Becomes(c, [walker[c] EXCEPT !.at = step])
    PROVE  FsInv' /\ Served
<1> DEFINE w == [walker[c] EXCEPT !.at = step]
<1>1. /\ IsWalk(walker[c]) /\ walker[c].linked = FALSE /\ calls[c].op = "get"
      /\ calls[c].keys = {Head(walker[c].todo)}
  BY ReadSteps DEF Reading
<1>2. IsWalk(w) /\ w.at = step /\ w.todo = walker[c].todo /\ w.linked = FALSE
  BY <1>1 DEF IsWalk
<1> HIDE DEF w
<1>3. WalkFits(w, calls[c]) /\ FileFits(tree, c, w, calls[c])
  BY <1>1, <1>2 DEF WalkFits, FileFits, Writing, Reading, Listing
<1>4. QED
  BY <1>3, FsStutters DEF w

LEMMA MissingKeeps ==
    ASSUME FsInv, backend = "fs", backend' = backend, NEW c \in Clients,
           walker[c].at \in Reading, ~IsFile(key(c)), FsReturns(c, Answer("missing", {}))
    PROVE  FsInv' /\ Served
<1>1. Busy(c) /\ calls[c].op = "get" /\ calls[c].steady = {}
  BY ReadSteps DEF Reading
<1>2. AllKeys!Truthful(calls[c], Answer("missing", {}))
  BY <1>1 DEF AllKeys!Truthful, Answer
<1>3. QED
  BY <1>1, <1>2, AnswersAre, FsAnswers

LEMMA FoundKeeps ==
    ASSUME FsInv, backend = "fs", backend' = backend, NEW c \in Clients,
           walker[c].at \in Reading \cup {"is_file"},
           FsReturns(c, Answer("ok", {x \in {key(c)} : IsFile(x)}))
    PROVE  FsInv' /\ Served
<1> DEFINE there == {x \in {key(c)} : IsFile(x)}
<1>1. /\ Busy(c) /\ calls[c].op \in {"get", "exists"}
      /\ calls[c].steady \subseteq there /\ there \subseteq calls[c].ever
  BY ReadSteps
<1> HIDE DEF there
<1>2. Answer("ok", there).is = "ok" /\ Answer("ok", there).found = there
  BY DEF Answer
<1>3. AllKeys!Truthful(calls[c], Answer("ok", there))
  BY <1>1, <1>2 DEF AllKeys!Truthful
<1>4. QED
  BY <1>1, <1>3, AnswersAre, FsAnswers DEF there

LEMMA ReadsKeep ==
    ASSUME FsInv, backend = "fs", backend' = backend, NEW c \in Clients,
           StatFile(c) \/ RootAgain(c) \/ Probe(c) \/ OpenToRead(c) \/ AskIsFile(c)
    PROVE  FsInv' /\ Served
<1> DEFINE there == {x \in {key(c)} : IsFile(x)}
<1>1. walker[c].at \in Reading \cup {"is_file"} => Busy(c)
  BY ReadSteps
<1>2. CASE StatFile(c) \/ Probe(c)
  <2>1. /\ walker[c].at \in Reading
        /\ \/ \E step \in Reading : Stays /\ Becomes(c, [walker[c] EXCEPT !.at = step])
           \/ ~IsFile(key(c)) /\ FsReturns(c, Answer("missing", {}))
    BY <1>2 DEF StatFile, Probe, At, Reading
  <2>2. QED
    BY <2>1, ReadGoesOn, MissingKeeps
<1>3. CASE RootAgain(c)
  <2>1. /\ walker[c].at \in Reading
        /\ \/ \E step \in Reading : Stays /\ Becomes(c, [walker[c] EXCEPT !.at = step])
           \/ FsReturns(c, Answer("misconfigured", {}))
    BY <1>3 DEF RootAgain, At, Reading
  <2>2. QED
    BY <1>1, <2>1, ReadGoesOn, FsErrorKeeps
<1>4. CASE OpenToRead(c)
  <2>1. walker[c].at \in Reading
    BY <1>4 DEF OpenToRead, At, Reading
  <2>2. CASE IsFile(key(c)) /\ FsReturns(c, Answer("ok", {key(c)}))
    <3>1. there = {key(c)}
      BY <2>2
    <3>2. QED
      BY <2>1, <2>2, <3>1, FoundKeeps
  <2>3. CASE FsReturns(c, Answer("broken", {}))
    BY <1>1, <2>1, <2>3, FsErrorKeeps
  <2>4. QED
    BY <1>4, <2>2, <2>3 DEF OpenToRead
<1>5. CASE AskIsFile(c)
  BY <1>5, FoundKeeps DEF AskIsFile, At
<1>6. QED
  BY <1>2, <1>3, <1>4, <1>5

LEMMA OverlookFileKeeps ==
    ASSUME FsInv, backend = "fs", backend' = backend, NEW c \in Clients, OverlookFile(c)
    PROVE  FsInv' /\ Served
<1> DEFINE w == [walker[c] EXCEPT !.at = "blind"]
<1>1. /\ StatsFail /\ walker[c].at \in Reading \cup {"is_file"}
      /\ Overlooks(c, {key(c)}) /\ Becomes(c, w) /\ UNCHANGED tree
  BY DEF OverlookFile, At, Reading
<1>2. /\ IsWalk(walker[c]) /\ walker[c].linked = FALSE
      /\ calls[c].op \in {"get", "exists"} /\ calls[c].steady \subseteq {key(c)}
  BY <1>1, ReadSteps
<1>3. IsWalk(w) /\ w.at = "blind" /\ w.linked = FALSE
  BY <1>2 DEF IsWalk
<1> HIDE DEF w
<1>4. ASSUME NEW call, Later(calls[c], call), call.steady = calls[c].steady \ {key(c)}
      PROVE  WalkFits(w, call)
  BY <1>2, <1>3, <1>4 DEF WalkFits, Writing, Reading, Listing, Later
<1>5. QED
  BY <1>1, <1>2, <1>3, <1>4, FsOverlooks

LEMMA AnswersBlindKeeps ==
    ASSUME FsInv, backend = "fs", backend' = backend, NEW c \in Clients, AnswersBlind(c)
    PROVE  FsInv' /\ Served
<1>1. walker[c].at = "blind" /\ WalkFits(walker[c], calls[c])
  BY DEF AnswersBlind, At, FsInv, WalksFit
<1>2. calls[c].op \in {"get", "exists"} /\ calls[c].steady = {} /\ Busy(c)
  BY <1>1 DEF WalkFits, Busy
<1>3. CASE calls[c].op = "get"
  <2>1. AllKeys!Truthful(calls[c], Answer("missing", {}))
    BY <1>2, <1>3 DEF AllKeys!Truthful, Answer
  <2>2. QED
    BY <1>2, <1>3, <2>1, AnswersAre, FsAnswers DEF AnswersBlind
<1>4. CASE calls[c].op = "exists"
  <2>1. AllKeys!Truthful(calls[c], Answer("ok", {}))
    BY <1>2, <1>4 DEF AllKeys!Truthful, Answer
  <2>2. QED
    BY <1>2, <1>4, <2>1, AnswersAre, FsAnswers DEF AnswersBlind
<1>5. QED
  BY <1>2, <1>3, <1>4

----------------------------------------------------------------------------
(* Listing.                                                                 *)

\* What a walk starts each of its steps from.
LEMMA ListSteps ==
    ASSUME FsInv, NEW c \in Clients, walker[c].at \in Listing
    PROVE  LET w == walker[c] call == calls[c] d == Head(w.dirs) rest == Tail(w.dirs) IN
           /\ IsWalk(w) /\ w.linked = FALSE /\ call.op = "list" /\ Busy(c)
           /\ CallOk(call, FsPresent) /\ Shows(call, w.found) /\ IsText(PrefixHint(call.filter))
           /\ IsText(rest) /\ ToSet(w.dirs) \subseteq {d} \cup ToSet(rest)
           /\ w.dirs \in Seq(ToSet(w.dirs)) /\ Len(w.dirs) \in Nat \ {0}
           /\ w.at = "opendir" => w.due = {}
           /\ \A k \in call.steady :
                 /\ k \in FsKeys /\ IsText(k) /\ k # Root /\ IsFile(k) /\ Matches(call.filter, k)
                 /\ ~Misspelt(PrefixHint(call.filter))
                 /\ \A e \in Directories(k) : e \in Paths /\ IsDir(e)
                 /\ k \in w.found \cup w.due \/ \E e \in Directories(k) : e \in Ahead(w)
<1> DEFINE w == walker[c]
           call == calls[c]
<1>1. WalkFits(w, call) /\ FileFits(tree, c, w, call) /\ CallOk(call, FsPresent)
  BY DEF FsInv, WalksFit, LogOk
<1>2. /\ IsWalk(w) /\ w.linked = FALSE /\ call.op = "list"
      /\ IsText(w.dirs) /\ w.dirs # <<>> /\ Shows(call, w.found)
      /\ IsText(PrefixHint(call.filter))
      /\ w.at = "opendir" => w.due = {}
      /\ \A k \in call.steady :
            k \in w.found \cup w.due \/ \E e \in Directories(k) : e \in Ahead(w)
  BY <1>1 DEF WalkFits, FileFits, Listing
<1>3. /\ Tail(w.dirs) \in Seq(ToSet(w.dirs))
      /\ ToSet(w.dirs) \subseteq {Head(w.dirs)} \cup ToSet(Tail(w.dirs))
      /\ w.dirs \in Seq(ToSet(w.dirs)) /\ Len(w.dirs) \in Nat \ {0}
  <2> DEFINE S == ToSet(w.dirs)
  <2>1. w.dirs \in Seq(S) /\ w.dirs # <<>>
    BY <1>2 DEF IsText
  <2> HIDE DEF S
  <2>2. /\ Tail(w.dirs) \in Seq(S) /\ Len(w.dirs) \in Nat \ {0}
        /\ ToSet(w.dirs) \subseteq {Head(w.dirs)} \cup ToSet(Tail(w.dirs))
    BY <2>1, HeadAndTail
  <2>3. QED
    BY <2>1, <2>2 DEF S
<1>4. \A S : \A s \in Seq(S) : IsText(s)
  BY DEF IsText, ToSet
<1>5. ASSUME NEW k \in call.steady
      PROVE  /\ k \in FsKeys /\ IsText(k) /\ k # Root /\ IsFile(k) /\ Matches(call.filter, k)
             /\ ~Misspelt(PrefixHint(call.filter))
             /\ \A e \in Directories(k) : e \in Paths /\ IsDir(e)
  <2>1. k \in FsKeys /\ IsFile(k) /\ Matches(call.filter, k)
    BY <1>1, <1>2 DEF CallOk, Scope, InScope, FsPresent
  <2>2. /\ k \in Paths /\ IsText(k) /\ k # Root /\ tree[k] # Nothing
        /\ Directories(k) \subseteq Paths
    BY <2>1, PathsAre DEF IsFile, Nothing
  <2>3. \A e \in Directories(k) : IsDir(e)
    BY <2>2 DEF FsInv, TreeOk
  <2>4. Len(k) \in Nat
    BY <2>2 DEF IsText
  <2>5. ~Misspelt(PrefixHint(call.filter))
    BY <1>2, <2>1, <2>4, HintsFit, NoKeyMisspelt
  <2>6. QED
    BY <2>1, <2>2, <2>3, <2>5
<1>6. QED
  BY <1>1, <1>2, <1>3, <1>4, <1>5 DEF Busy

\* The walk leaves a directory behind: nothing that was there all the time is
\* left in it.
LEMMA NextDirKeeps ==
    ASSUME FsInv, backend = "fs", backend' = backend, NEW c \in Clients,
           walker[c].at \in Listing, NextDir(c, Tail(walker[c].dirs)),
           \A k \in calls[c].steady :
               k \in walker[c].found
               \/ \E e \in Directories(k) : e \in ToSet(Tail(walker[c].dirs))
    PROVE  FsInv' /\ Served
<1> DEFINE rest == Tail(walker[c].dirs)
           found == walker[c].found
           w == [walker[c] EXCEPT !.at = "opendir", !.dirs = rest, !.due = {}, !.seen = {}]
<1>1. /\ IsWalk(walker[c]) /\ walker[c].linked = FALSE /\ calls[c].op = "list" /\ Busy(c)
      /\ Shows(calls[c], found) /\ IsText(rest) /\ IsText(PrefixHint(calls[c].filter))
  BY ListSteps
<1>2. CASE rest = <<>>
  <2>1. FsReturns(c, Answer("ok", found))
    BY <1>2 DEF NextDir
  <2>2. calls[c].steady \subseteq found
    <3>1. ToSet(rest) = {}
      BY <1>2 DEF ToSet
    <3>2. QED
      BY <3>1
  <2> HIDE DEF found
  <2>3. AllKeys!Truthful(calls[c], Answer("ok", found))
    <3>1. Answer("ok", found).is = "ok" /\ Answer("ok", found).found = found
      BY DEF Answer
    <3>2. QED
      BY <1>1, <2>2, <3>1 DEF AllKeys!Truthful, Shows
  <2>4. QED
    BY <1>1, <2>1, <2>3, AnswersAre, FsAnswers
<1>3. CASE rest # <<>>
  <2>1. Stays /\ Becomes(c, w)
    BY <1>3 DEF NextDir
  <2>2. /\ IsWalk(w) /\ w.at = "opendir" /\ w.dirs = rest /\ w.due = {} /\ w.found = found
        /\ w.linked = FALSE
    BY <1>1 DEF IsWalk
  <2> HIDE DEF w
  <2>3. ToSet(rest) \subseteq Ahead(w)
    BY <2>2 DEF Ahead
  <2>4. \A k \in calls[c].steady :
            k \in w.found \cup w.due \/ \E e \in Directories(k) : e \in Ahead(w)
    BY <2>2, <2>3
  <2> HIDE DEF rest, found
  <2>5. WalkFits(w, calls[c])
    BY <1>1, <1>3, <2>2, <2>4 DEF WalkFits, Writing, Reading, Listing
  <2>6. FileFits(tree, c, w, calls[c])
    BY <2>2 DEF FileFits
  <2>7. QED
    BY <2>1, <2>5, <2>6, FsStutters
<1>4. QED
  BY <1>2, <1>3

LEMMA SkipDirKeeps ==
    ASSUME FsInv, backend = "fs", backend' = backend, NEW c \in Clients, SkipDir(c)
    PROVE  FsInv' /\ Served
<1> DEFINE w == walker[c]
<1>1. /\ w.at = "opendir" /\ NextDir(c, Tail(w.dirs))
      /\ Head(w.dirs) \notin Paths \/ ~IsDir(Head(w.dirs))
  BY DEF SkipDir, At
<1>2. /\ w.at \in Listing /\ w.due = {}
      /\ ToSet(w.dirs) \subseteq {Head(w.dirs)} \cup ToSet(Tail(w.dirs))
  BY <1>1, ListSteps DEF Listing
<1>3. Ahead(w) = ToSet(w.dirs)
  BY <1>1, <1>2 DEF Ahead
<1>4. ASSUME NEW k \in calls[c].steady
      PROVE  k \in w.found \/ \E e \in Directories(k) : e \in ToSet(Tail(w.dirs))
  <2>1. /\ \A e \in Directories(k) : e \in Paths /\ IsDir(e)
        /\ k \in w.found \cup w.due \/ \E e \in Directories(k) : e \in Ahead(w)
    BY <1>2, ListSteps
  <2>2. QED
    BY <1>1, <1>2, <1>3, <2>1
<1>5. QED
  BY <1>1, <1>2, <1>4, NextDirKeeps

LEMMA EndOfDirKeeps ==
    ASSUME FsInv, backend = "fs", backend' = backend, NEW c \in Clients, EndOfDir(c)
    PROVE  FsInv' /\ Served
<1> DEFINE w == walker[c]
<1>1. w.at = "entries" /\ w.due = {} /\ NextDir(c, Tail(w.dirs))
  BY DEF EndOfDir, At
<1>2. w.at \in Listing /\ Ahead(w) = ToSet(Tail(w.dirs))
  BY <1>1 DEF Listing, Ahead
<1>3. \A k \in calls[c].steady :
          k \in w.found \/ \E e \in Directories(k) : e \in ToSet(Tail(w.dirs))
  BY <1>1, <1>2, ListSteps
<1>4. QED
  BY <1>1, <1>2, <1>3, NextDirKeeps

LEMMA OpenDirKeeps ==
    ASSUME FsInv, backend = "fs", backend' = backend, NEW c \in Clients, OpenDir(c)
    PROVE  FsInv' /\ Served
<1> DEFINE v == walker[c]
           d == Head(v.dirs)
           w == [v EXCEPT !.at = "entries", !.due = Children(d)]
<1>1. v.at = "opendir" /\ Becomes(c, w) /\ Stays
  BY DEF OpenDir, At
<1>2. v.at \in Listing
  BY <1>1 DEF Listing
<1>3. /\ IsWalk(v) /\ v.linked = FALSE /\ calls[c].op = "list" /\ Shows(calls[c], v.found)
      /\ IsText(PrefixHint(calls[c].filter))
      /\ ToSet(v.dirs) \subseteq {d} \cup ToSet(Tail(v.dirs)) /\ v.due = {}
      /\ WalkFits(v, calls[c])
  BY <1>1, <1>2, ListSteps DEF FsInv, WalksFit
<1>4. IsText(v.dirs) /\ v.dirs # <<>>
  BY <1>2, <1>3 DEF WalkFits
<1>5. /\ IsWalk(w) /\ w.at = "entries" /\ w.due = Children(d) /\ w.dirs = v.dirs
      /\ w.found = v.found /\ w.linked = FALSE
  BY <1>3 DEF IsWalk
<1> HIDE DEF w
<1>6. Ahead(w) = ToSet(Tail(v.dirs)) \cup Children(d) /\ Ahead(v) = ToSet(v.dirs)
  BY <1>1, <1>3, <1>5 DEF Ahead
<1>7. ASSUME NEW k \in calls[c].steady
      PROVE  k \in w.found \cup w.due \/ \E e \in Directories(k) : e \in Ahead(w)
  <2>1. /\ k \in FsKeys /\ IsText(k) /\ k # Root /\ IsFile(k)
        /\ \A e \in Directories(k) : e \in Paths /\ IsDir(e)
        /\ k \in v.found \cup v.due \/ \E e \in Directories(k) : e \in Ahead(v)
    BY <1>2, ListSteps
  <2>2. CASE d \in Directories(k)
    <3>1. PICK p \in Directories(k) \cup {k} : p # Root /\ Parent(p) = d
      BY <2>1, <2>2, NextOnTheWay
    <3>2. p \in Paths /\ tree[p] # Nothing
      BY <2>1, PathsAre DEF IsFile, IsDir, Nothing
    <3>3. p \in Children(d)
      BY <3>1, <3>2 DEF Children
    <3>4. p \in w.due /\ p \in Ahead(w)
      BY <1>5, <1>6, <3>3
    <3>5. QED
      BY <3>4
  <2>3. CASE d \notin Directories(k)
    BY <1>3, <1>5, <1>6, <2>1, <2>3
  <2>4. QED
    BY <2>2, <2>3
<1> HIDE DEF d
<1>8. WalkFits(w, calls[c]) /\ FileFits(tree, c, w, calls[c])
  BY <1>3, <1>4, <1>5, <1>7 DEF WalkFits, FileFits, Writing, Reading, Listing
<1>9. QED
  BY <1>1, <1>8, FsStutters

LEMMA Appending ==
    ASSUME NEW s, IsText(s), s # <<>>, NEW x
    PROVE  /\ IsText(Append(s, x)) /\ Append(s, x) # <<>>
           /\ ToSet(Tail(Append(s, x))) = ToSet(Tail(s)) \cup {x}
<1> DEFINE S == ToSet(s) \cup {x}
           t == Append(s, x)
<1>1. s \in Seq(S)
  <2>1. s \in Seq(ToSet(s)) /\ \A T : ToSet(s) \subseteq T => Seq(ToSet(s)) \subseteq Seq(T)
    BY DEF IsText
  <2>2. QED
    BY <2>1
<1> HIDE DEF S
<1>2. /\ Len(s) \in Nat \ {0} /\ x \in S
      /\ t \in Seq(S) /\ Len(t) = Len(s) + 1 /\ t[Len(s) + 1] = x
      /\ \A i \in 1 .. Len(s) : t[i] = s[i]
  BY <1>1, AppendProperties DEF S
<1> HIDE DEF t
<1>3. \A S0 : \A u \in Seq(S0) : IsText(u)
  BY DEF IsText, ToSet
<1>4. ASSUME NEW u \in Seq(S), Len(u) \in Nat \ {0}
      PROVE  ToSet(Tail(u)) = {u[i] : i \in 2 .. Len(u)}
  <2>1. Tail(u) = SubSeq(u, 2, Len(u))
    BY <1>4, TailIsSubSeq
  <2>2. 2 \in Nat \ {0} /\ Len(u) \in Nat /\ Len(u) <= Len(u)
    BY <1>4
  <2>3. ToSet(SubSeq(u, 2, Len(u))) = {u[i] : i \in 2 .. Len(u)}
    BY <2>2, PieceOfSeq
  <2>4. QED
    BY <2>1, <2>3
<1>5. /\ ToSet(Tail(s)) = {s[i] : i \in 2 .. Len(s)}
      /\ ToSet(Tail(t)) = {t[i] : i \in 2 .. Len(s) + 1}
  BY <1>1, <1>2, <1>4
<1>6. ToSet(Tail(t)) = ToSet(Tail(s)) \cup {x}
  <2>1. ASSUME NEW i \in 2 .. Len(s) + 1 PROVE t[i] \in ToSet(Tail(s)) \cup {x}
    <3>1. CASE i = Len(s) + 1
      BY <1>2, <3>1
    <3>2. CASE i # Len(s) + 1
      BY <1>2, <1>5, <3>2
    <3>3. QED
      BY <3>1, <3>2
  <2>2. ASSUME NEW i \in 2 .. Len(s) PROVE s[i] \in ToSet(Tail(t))
    <3>1. s[i] = t[i] /\ i \in 2 .. Len(s) + 1
      BY <1>2
    <3>2. QED
      BY <1>5, <3>1
  <2>3. x \in ToSet(Tail(t))
    BY <1>2, <1>5
  <2>4. QED
    BY <1>5, <2>1, <2>2, <2>3
<1>7. IsText(t)
  BY <1>2, <1>3, Zenon
<1>8. t # <<>>
  BY <1>2
<1>9. QED
  BY <1>6, <1>7, <1>8 DEF t

\* A name that begins with a misspelt hint is no key.
LEMMA MisspeltInvents ==
    ASSUME NEW call, call.op = "list", IsText(PrefixHint(call.filter)),
           Misspelt(PrefixHint(call.filter)), NEW k, Matches(call.filter, k)
    PROVE  AllKeys!Invented(call, k)
<1>1. PICK h : h = PrefixHint(call.filter)
  OBVIOUS
<1>2. k \notin FsKeys
  <2>1. k \in FsKeys => Len(k) \in Nat
    BY FsKeysAssumption DEF IsText
  <2>2. QED
    BY <2>1, HintsFit, NoKeyMisspelt
<1>3. AllKeys!PrefixHint(call.filter) = h
  BY <1>1 DEF AllKeys!PrefixHint, PrefixHint
<1>4. <<>> \o h = h
  BY <1>1, ConcatEmptySeq DEF IsText
<1>5. AllKeys!Misspelt(h)
  BY <1>1 DEF AllKeys!Misspelt, Misspelt, AllKeys!Sep, Sep
<1>6. QED
  BY <1>2, <1>3, <1>4, <1>5 DEF AllKeys!Invented

LEMMA ReadEntryKeeps ==
    ASSUME FsInv, backend = "fs", backend' = backend, NEW c \in Clients,
           NEW p \in Paths, ReadEntry(c, p)
    PROVE  FsInv' /\ Served
<1> DEFINE v == walker[c]
           dirs == IF IsDir(p) THEN Append(v.dirs, p) ELSE v.dirs
           hint == PrefixHint(calls[c].filter)
           x == KeyAt(c, p)
           found == IF EntryFound(c, p) THEN v.found \cup {x} ELSE v.found
           w == [v EXCEPT !.seen = @ \cup {p}, !.due = @ \ {p}, !.dirs = dirs, !.found = found]
<1>1. v.at = "entries" /\ Becomes(c, w) /\ Stays
  BY DEF ReadEntry, At
<1>2. v.at \in Listing
  BY <1>1 DEF Listing
<1>3. /\ IsWalk(v) /\ v.linked = FALSE /\ calls[c].op = "list" /\ Shows(calls[c], v.found)
      /\ IsText(hint) /\ CallOk(calls[c], FsPresent) /\ WalkFits(v, calls[c])
  BY <1>2, ListSteps DEF FsInv, WalksFit
<1>4. IsText(v.dirs) /\ v.dirs # <<>>
  BY <1>2, <1>3 DEF WalkFits
<1>5. /\ IsText(dirs) /\ dirs # <<>>
      /\ ToSet(Tail(dirs)) = IF IsDir(p) THEN ToSet(Tail(v.dirs)) \cup {p} ELSE ToSet(Tail(v.dirs))
  BY <1>4, Appending
<1> HIDE DEF dirs
<1>6. Shows(calls[c], found)
  <2>1. CASE EntryFound(c, p)
    <3>1. IsFile(p) /\ p \in FsKeys /\ Matches(calls[c].filter, x)
      BY <2>1 DEF EntryFound, FsInv, TreeOk
    <3>2. CASE ~Misspelt(hint)
      <4>1. x = p
        BY <3>2 DEF KeyAt, Spelt
      <4>2. x \in Scope(calls[c], FsPresent)
        BY <1>3, <3>1, <4>1 DEF Scope, InScope, FsPresent
      <4> HIDE DEF x, hint
      <4>3. QED
        BY <1>3, <2>1, <4>2 DEF CallOk, Shows
    <3>3. CASE Misspelt(hint)
      <4>1. AllKeys!Invented(calls[c], x)
        BY <1>3, <3>1, <3>3, MisspeltInvents
      <4> HIDE DEF x, hint
      <4>2. QED
        BY <1>3, <2>1, <4>1 DEF Shows
    <3>4. QED
      BY <3>2, <3>3
  <2>2. CASE ~EntryFound(c, p)
    BY <1>3, <2>2
  <2>3. QED
    BY <2>1, <2>2
<1>7. v.found \subseteq found /\ (EntryFound(c, p) => x \in found)
  OBVIOUS
<1> HIDE DEF found
<1>8. /\ IsWalk(w) /\ w.at = "entries" /\ w.due = v.due \ {p} /\ w.dirs = dirs
      /\ w.found = found /\ w.linked = FALSE
  BY <1>1, <1>3 DEF IsWalk
<1> HIDE DEF w
<1>9. /\ Ahead(w) = ToSet(Tail(dirs)) \cup (v.due \ {p})
      /\ Ahead(v) = ToSet(Tail(v.dirs)) \cup v.due
  BY <1>1, <1>8 DEF Ahead
<1>10. ASSUME NEW k \in calls[c].steady
       PROVE  k \in w.found \cup w.due \/ \E e \in Directories(k) : e \in Ahead(w)
  <2>1. /\ IsFile(k) /\ Matches(calls[c].filter, k) /\ ~Misspelt(hint)
        /\ \A e \in Directories(k) : IsDir(e)
        /\ k \in v.found \cup v.due \/ \E e \in Directories(k) : e \in Ahead(v)
    BY <1>2, ListSteps
  <2>2. CASE k = p
    <3>1. x = p
      BY <2>1 DEF KeyAt, Spelt
    <3>2. EntryFound(c, p)
      BY <2>1, <2>2, <3>1 DEF EntryFound
    <3>3. QED
      BY <1>7, <1>8, <2>2, <3>1, <3>2
  <2>3. CASE k # p /\ k \in v.found \cup v.due
    BY <1>7, <1>8, <2>3
  <2>4. CASE \E e \in Directories(k) : e \in Ahead(v)
    <3>1. PICK e \in Directories(k) : e \in Ahead(v)
      BY <2>4
    <3>2. e = p => IsDir(p)
      BY <2>1, <3>1
    <3>3. e \in Ahead(w)
      BY <1>5, <1>9, <3>1, <3>2
    <3>4. QED
      BY <3>1, <3>3
  <2>5. QED
    BY <2>1, <2>2, <2>3, <2>4
<1>11. WalkFits(w, calls[c]) /\ FileFits(tree, c, w, calls[c])
  BY <1>3, <1>5, <1>6, <1>8, <1>10 DEF WalkFits, FileFits, Writing, Reading, Listing
<1>12. QED
  BY <1>1, <1>11, FsStutters

LEMMA OverlookEntryKeeps ==
    ASSUME FsInv, backend = "fs", backend' = backend, NEW c \in Clients,
           NEW p \in Paths, OverlookEntry(c, p)
    PROVE  FsInv' /\ Served
<1> DEFINE v == walker[c]
           w == [v EXCEPT !.seen = @ \cup {p}, !.due = @ \ {p}]
           gone == {k \in FsKeys : k = p \/ p \in Directories(k)}
<1>1. v.at = "entries" /\ Becomes(c, w) /\ StatsFail /\ Overlooks(c, gone) /\ UNCHANGED tree
  BY DEF OverlookEntry, At
<1>2. v.at \in Listing
  BY <1>1 DEF Listing
<1>3. IsWalk(v) /\ v.linked = FALSE /\ calls[c].op = "list" /\ WalkFits(v, calls[c])
  BY <1>2, ListSteps DEF FsInv, WalksFit
<1>4. /\ IsWalk(w) /\ w.at = "entries" /\ w.due = v.due \ {p} /\ w.dirs = v.dirs
      /\ w.found = v.found /\ w.linked = FALSE
  BY <1>1, <1>3 DEF IsWalk
<1> HIDE DEF w
<1>5. /\ Ahead(w) = ToSet(Tail(v.dirs)) \cup (v.due \ {p})
      /\ Ahead(v) = ToSet(Tail(v.dirs)) \cup v.due
  BY <1>1, <1>4 DEF Ahead
<1>6. ASSUME NEW call, Later(calls[c], call), call.steady = calls[c].steady \ gone
      PROVE  WalkFits(w, call)
  <2>1. WalkFits(v, call)
    BY <1>3, <1>6, WalkLater
  <2>2. ASSUME NEW k \in call.steady
        PROVE  k \in w.found \cup w.due \/ \E e \in Directories(k) : e \in Ahead(w)
    <3>1. k # p /\ p \notin Directories(k)
      BY <1>2, <1>6, ListSteps
    <3>2. k \in v.found \cup v.due \/ \E e \in Directories(k) : e \in Ahead(v)
      BY <1>2, <2>1 DEF WalkFits
    <3>3. QED
      BY <1>4, <1>5, <3>1, <3>2
  <2>3. QED
    BY <1>2, <1>4, <2>1, <2>2 DEF WalkFits, Writing, Reading, Listing
<1> HIDE DEF gone
<1>7. QED
  BY <1>1, <1>3, <1>4, <1>6, FsOverlooks

----------------------------------------------------------------------------
(* The root goes, and the steps taken together.                             *)

LEMMA RemoveRootKeeps ==
    ASSUME FsInv, backend = "fs", backend' = backend, RemoveRoot
    PROVE  FsInv' /\ Served
<1>1. /\ tree' = [p \in Paths |-> Nothing]
      /\ calls' = [c \in Clients |->
             [calls[c] EXCEPT !.steady = {},
                              !.done = IF walker[c].linked THEN @ \cup {key(c)} ELSE @]]
      /\ walker' = [c \in Clients |-> [walker[c] EXCEPT !.due = {}, !.linked = FALSE]]
  BY DEF RemoveRoot
<1>2. Nothing.kind = "none" /\ Nothing \in [kind : {"none", "dir", "file"}, bytes : Contents]
  BY ContentsAre DEF Nothing
<1>3. /\ tree' \in [Paths -> [kind : {"none", "dir", "file"}, bytes : Contents]]
      /\ \A p \in Paths : tree'[p] = Nothing /\ ~IsFile(p)'
  BY <1>1, <1>2 DEF IsFile
<1>4. TreeOk' /\ FsPresent' = {}
  BY <1>3, PathsAre DEF TreeOk, FsPresent
<1>5. ASSUME NEW c \in Clients
      PROVE  /\ CallOk(calls'[c], {}) /\ Later(calls[c], calls'[c])
             /\ calls'[c].steady = {}
             /\ calls'[c] = [calls[c] EXCEPT !.steady = {}, !.done = calls'[c].done]
             /\ walker[c].linked => key(c) \in calls'[c].done /\ calls[c].op = "put"
             /\ calls'[c].done \subseteq calls[c].done \cup
                    (IF calls[c].op = "put" THEN calls[c].keys ELSE {})
  <2> DEFINE done == IF walker[c].linked THEN calls[c].done \cup {key(c)} ELSE calls[c].done
             new == [calls[c] EXCEPT !.steady = {}, !.done = done]
  <2>1. /\ CallOk(calls[c], FsPresent) /\ IsCall(calls[c])
        /\ FileFits(tree, c, walker[c], calls[c])
    BY DEF FsInv, LogOk, WalksFit, CallOk
  <2>2. walker[c].linked => calls[c].op = "put" /\ key(c) \in calls[c].keys
    <3>1. walker[c].linked => walker[c].at \in Writing
      BY <2>1 DEF FileFits, Writing
    <3>2. QED
      BY <3>1, WriteSteps
  <2>3. calls'[c] = new
    BY <1>1, Zenon
  <2>4. /\ calls[c].done \subseteq done
        /\ done \subseteq calls[c].keys
        /\ done \subseteq calls[c].done \cup (IF calls[c].op = "put" THEN calls[c].keys ELSE {})
        /\ walker[c].linked => key(c) \in done
    BY <2>1, <2>2 DEF CallOk
  <2> HIDE DEF done
  <2>5. /\ IsCall(new) /\ new.op = calls[c].op /\ new.keys = calls[c].keys
        /\ new.filter = calls[c].filter /\ new.ever = calls[c].ever
        /\ new.done = done /\ new.steady = {}
    BY <2>1 DEF IsCall
  <2>6. calls'[c] = [calls[c] EXCEPT !.steady = {}, !.done = calls'[c].done]
    BY <2>3, <2>5
  <2> HIDE DEF new
  <2>7. CallOk(new, {})
    BY <2>1, <2>4, <2>5 DEF CallOk, Scope
  <2>8. Later(calls[c], new)
    BY <2>4, <2>5 DEF Later
  <2>9. QED
    BY <2>2, <2>3, <2>4, <2>5, <2>6, <2>7, <2>8
<1>6. ASSUME NEW c \in Clients
      PROVE  WalkFits(walker'[c], calls'[c]) /\ FileFits(tree', c, walker'[c], calls'[c])
  <2> DEFINE w == walker[c]
             v == [w EXCEPT !.due = {}, !.linked = FALSE]
  <2>1. WalkFits(w, calls[c]) /\ FileFits(tree, c, w, calls[c]) /\ IsWalk(w)
    BY DEF FsInv, WalksFit, WalkFits
  <2>2. /\ IsWalk(v) /\ v.at = w.at /\ v.todo = w.todo /\ v.off = w.off /\ v.bad = w.bad
        /\ v.dirs = w.dirs /\ v.found = w.found /\ v.due = {} /\ v.linked = FALSE
    BY <2>1 DEF IsWalk
  <2>3. walker'[c] = v
    BY <1>1
  <2> HIDE DEF v
  <2>4. ~(w.linked /\ Head(w.todo) \notin calls'[c].done)
    BY <1>5 DEF key
  <2>5. WalkFits(v, calls'[c]) /\ FileFits(tree', c, v, calls'[c])
    BY <1>5, <2>1, <2>2, <2>4, RemovalFits
  <2>6. QED
    BY <2>3, <2>5
<1>7. WalksFit'
  <2>1. walker' = [c \in Clients |-> walker'[c]]
    BY <1>1
  <2>2. QED
    BY <1>6, <2>1 DEF WalksFit
<1>8. calls' = [c \in Clients |-> calls'[c]]
  BY <1>1
<1>9. AllBlobs' = [k \in FsKeys |-> "nobody"]
  <2>1. AllBlobs' = [x \in FsKeys |-> FsBlob(x, "nobody", "torn")']
    BY FsBlobsNext
  <2>2. \A x \in FsKeys : FsBlob(x, "nobody", "torn")' = "nobody"
    BY <1>3, PathsAre DEF FsBlob
  <2>3. QED
    BY <2>1, <2>2
<1>10. AllKeys!Lose
  <2>1. calls' = [c \in Clients |-> [calls[c] EXCEPT !.steady = {}, !.done = calls'[c].done]]
    BY <1>5, <1>8, Zenon
  <2>2. QED
    BY <1>5, <1>9, <2>1, Zenon DEF AllKeys!Lose
<1>11. QED
  BY <1>4, <1>5, <1>7, <1>8, <1>10 DEF FsInv, LogOk, Served

LEMMA FsStepKeeps ==
    ASSUME FsInv, backend = "fs", backend' = backend, NEW c \in Clients, FsStep(c)
    PROVE  FsInv' /\ Served
<1>1. FsFails(c) => Busy(c) /\ FsReturns(c, Answer("error", {}))
  BY DEF FsFails
<1>2. QED
  BY <1>1, MkdirKeeps, OpenFileKeeps, CopyChunkKeeps, CopyEndsKeeps, StatStoredKeeps,
     UnlinkKeeps, AlreadyGoneKeeps, UnlinkFailsKeeps, UnlinksReturnKeeps, ReadsKeep,
     OverlookFileKeeps, AnswersBlindKeeps, SkipDirKeeps, OpenDirKeeps, ReadEntryKeeps,
     OverlookEntryKeeps, EndOfDirKeeps, FsErrorKeeps DEF FsStep

LEMMA FsCallKeeps ==
    ASSUME FsInv, backend = "fs", NEW c \in Clients, Call(c)
    PROVE  FsInv' /\ Called(c) /\ backend' = "fs"
<1>1. ASSUME NEW batch \in Batches[c], Put(c, batch) \/ Delete(c, batch)
      PROVE  FsInv' /\ Called(c) /\ backend' = "fs"
  <2>1. /\ OnFs /\ Forwarded(c, batch)
        /\ \/ FsBegins(c, "put", "mkdir", InnerBatch(c, batch), Everything)
           \/ FsBegins(c, "delete", "unlink", InnerBatch(c, batch), Everything)
    BY <1>1 DEF Put, Delete, OnS3, PutFiles, UnlinkFiles
  <2>2. InnerBatch(c, batch) \in Seq(FsKeys) /\ InnerBatch(c, batch) # <<>>
    BY <2>1, ForwardedBatch
  <2>3. FsStarts("put", "mkdir") /\ FsStarts("delete", "unlink")
    BY DEF FsStarts
  <2>4. QED
    BY <2>1, <2>2, <2>3, FsBeginsKeeps DEF OnFs
<1>2. ASSUME NEW k \in UNION {ToSet(batch) : batch \in Batches[c]}, Get(c, k) \/ Exists(c, k)
      PROVE  FsInv' /\ Called(c) /\ backend' = "fs"
  <2>1. /\ OnFs /\ Forwarded(c, <<k>>)
        /\ \/ FsBegins(c, "get", "probe", <<Inner(c, k)>>, Everything)
           \/ FsBegins(c, "get", "meta", <<Inner(c, k)>>, Everything)
           \/ FsBegins(c, "exists", "is_file", <<Inner(c, k)>>, Everything)
    BY <1>2 DEF Get, Exists, OnS3, GetFile, GetFileWithMeta, FileExists
  <2>2. <<Inner(c, k)>> \in Seq(FsKeys) /\ Len(<<Inner(c, k)>>) = 1 /\ <<Inner(c, k)>> # <<>>
    BY <2>1, ForwardedKey
  <2>3. FsStarts("get", "probe") /\ FsStarts("get", "meta") /\ FsStarts("exists", "is_file")
    BY DEF FsStarts
  <2>4. QED
    BY <2>1, <2>2, <2>3, FsBeginsKeeps DEF OnFs
<1>3. ASSUME NEW f \in Filters[c], List(c, f)
      PROVE  FsInv' /\ Called(c) /\ backend' = "fs"
  <2>1. OnFs /\ Walk(c, InnerFilter(c, f))
    BY <1>3 DEF List, OnS3
  <2>2. IsText(InnerFilter(c, f).text)
    <3>1. IsText(Prefix) /\ IsText(f.text) /\ IsText(<<>>)
      BY CallsAssumption DEF IsText
    <3>2. IsText(PrefixHint(f))
      BY <3>1 DEF PrefixHint
    <3>3. IsText(Prefix \o PrefixHint(f))
      BY <3>1, <3>2, Joining
    <3>4. QED
      BY <3>1, <3>3 DEF InnerFilter, CombinedPrefixFilter, PrefixFilter
  <2>3. QED
    BY <2>1, <2>2, WalkKeeps DEF OnFs
<1>4. ASSUME NEW batch, NEW f, Refuse(c, batch, f)
      PROVE  FsInv' /\ Called(c) /\ backend' = "fs"
  <2>1. /\ Refused(c, "invalid") \/ Refused(c, "misconfigured")
        /\ UNCHANGED <<tree, walker, backend>>
    BY <1>4 DEF Refuse, OnFs, OnS3, FsRefuses
  <2>2. QED
    BY <2>1, FsRefusalKeeps
<1>5. QED
  BY <1>1, <1>2, <1>3, <1>4 DEF Call

LEMMA FsNext ==
    ASSUME FsInv, backend = "fs", [Next]_vars
    PROVE  FsInv' /\ Promised /\ backend' = "fs"
<1>1. CASE FsRuns
  BY <1>1, RemoveRootKeeps, FsStepKeeps DEF FsRuns, OnFs, Promised
<1>2. CASE S3Runs
  BY <1>2 DEF S3Runs, OnS3
<1>3. CASE \E c \in Clients : Call(c)
  BY <1>3, FsCallKeeps DEF Promised
<1>4. CASE UNCHANGED vars
  <2>1. UNCHANGED <<tree, walker, calls, backend, asked>>
    BY <1>4 DEF vars
  <2>2. TreeOk' /\ WalksFit' /\ LogOk(FsPresent)'
    BY <2>1 DEF FsInv, TreeOk, WalksFit, LogOk, FsPresent, IsFile, IsDir
  <2>3. UNCHANGED AllBlobs
    BY <2>1, FsBlobs, FsBlobsNext DEF FsBlob, IsFile
  <2>4. QED
    BY <2>1, <2>2, <2>3 DEF FsInv, Promised, Served
<1>5. QED
  BY <1>1, <1>2, <1>3, <1>4 DEF Next

LEMMA FsStart ==
    ASSUME Init, backend = "fs"
    PROVE  FsInv /\ AllKeys!Init
<1>1. /\ tree = [p \in Paths |-> IF p = Root THEN Dir ELSE Nothing]
      /\ walker = [c \in Clients |-> NoWalk] /\ calls = [c \in Clients |-> NoCall]
  BY DEF Init, FsInit
<1>2. /\ Nothing.kind = "none" /\ Dir.kind = "dir"
      /\ {Nothing, Dir} \subseteq [kind : {"none", "dir", "file"}, bytes : Contents]
  BY ContentsAre DEF Nothing, Dir
<1>3. \A p \in Paths : ~IsFile(p) /\ (tree[p] # Nothing => p = Root)
  BY <1>1, <1>2 DEF IsFile
<1>4. TreeOk
  BY <1>1, <1>2, <1>3 DEF TreeOk
<1>5. FsPresent = {}
  BY <1>3, PathsAre DEF FsPresent
<1>6. WalksFit
  BY <1>1, NoWalkFits DEF WalksFit
<1>7. LogOk(FsPresent)
  <2>1. NoCall = [NoCall EXCEPT !.answer = Silent]
    BY DEF NoCall
  <2>2. CallOk(NoCall, FsPresent)
    BY <2>1, NoCallOk
  <2>3. QED
    BY <1>1, <2>2 DEF LogOk
<1>8. AllBlobs = [k \in FsKeys |-> "nobody"]
  BY <1>3, PathsAre, FsBlobs DEF FsBlob
<1>9. AllKeys!NoCall = NoCall
  BY DEF AllKeys!NoCall, NoCall, AllKeys!Silent, Silent, AllKeys!Answer, Answer,
         AllKeys!Everything, Everything, AllKeys!PrefixFilter, PrefixFilter
<1>10. QED
  BY <1>1, <1>4, <1>6, <1>7, <1>8, <1>9 DEF FsInv, AllKeys!Init

\* Every step keeps the tree in order, and every open file that is under a key.
LEMMA TreeInOrder ==
    ASSUME FsInv
    PROVE  TreeTypeOK
<1>1. \A p \in Paths : tree[p] # Nothing /\ p # Root => IsDir(Parent(p))
  BY PathsAre, ParentIs DEF FsInv, TreeOk
<1>2. ASSUME NEW c \in Clients, walker[c].linked
      PROVE  IsFile(key(c)) /\ walker[c].off <= Chunks
  <2>1. FileFits(tree, c, walker[c], calls[c])
    BY DEF FsInv, WalksFit
  <2>2. walker[c].off \in 0 .. Chunks /\ tree[key(c)].kind = "file"
    BY <1>2, <2>1 DEF FileFits, key
  <2>3. QED
    BY <2>2, ChunksAssumption DEF IsFile
<1>3. QED
  BY <1>1, <1>2 DEF TreeTypeOK, FsInv, TreeOk, Contents
===============================================================================
