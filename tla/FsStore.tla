-------------------------------- MODULE FsStore --------------------------------
(***************************************************************************)
(* FsBlobStore (fs.rs, fs/store.rs): each blob is a file below a root      *)
(* directory, a key's names are its path.  Every system call is a step.    *)
(* put rewrites files in place; a file that is unlinked while a put has it *)
(* open takes the rest of the bytes with it.  Listings walk directories    *)
(* that change under them.  Nothing removes directories but an operator    *)
(* who removes the root with all there is.                                 *)
(***************************************************************************)
EXTENDS CallLog

CONSTANTS
    FsKeys,     \* the valid keys that calls may name
    Chunks,     \* writes that one blob takes
    RootLost,   \* the root directory may be removed from outside
    StatsFail   \* stat may fail on a path that is there

ASSUME FsKeysAssumption == \A k \in FsKeys : IsText(k) /\ Valid(k)
ASSUME ChunksAssumption == Chunks \in Nat \ {0}
ASSUME FsFlagsAssumption == RootLost \in BOOLEAN /\ StatsFail \in BOOLEAN

VARIABLES
    tree,    \* path -> what is there: nothing, a directory, or a file's bytes
    walker   \* the locals of each client's call

Hole  == "hole"      \* bytes never written, before the first ones that were
Paths == FsKeys \cup UNION {Directories(k) : k \in FsKeys}

Nothing   == [kind |-> "none", bytes |-> <<>>]
Dir       == [kind |-> "dir", bytes |-> <<>>]
File(bs)  == [kind |-> "file", bytes |-> bs]

IsDir(p)  == tree[p].kind = "dir"
IsFile(p) == tree[p].kind = "file"

\* A path that leads through a file is an error other than NotFound.
Blocked(p) == \E d \in Directories(p) \cap Paths : IsFile(d)
FsPresent  == {k \in FsKeys : IsFile(k)}

\* `todo` keys left, the bytes written so far, whether the open file is still
\* the one under the key, keys of a delete that failed; directories to read,
\* the entries still due in the one being read, those read and keys found.
NoWalk == [at |-> "idle", todo |-> <<>>, off |-> 0, linked |-> FALSE, bad |-> {},
           dirs |-> <<>>, due |-> {}, seen |-> {}, found |-> {}]

fsvars == <<tree, walker, calls>>

FsInit ==
    /\ tree = [p \in Paths |-> IF p = Root THEN Dir ELSE Nothing]
    /\ walker = [c \in Clients |-> NoWalk]
    /\ calls = [c \in Clients |-> NoCall]

At(c, step) == walker[c].at = step
key(c)      == Head(walker[c].todo)
Becomes(c, w) == walker' = [walker EXCEPT ![c] = w]
Stays     == UNCHANGED <<tree, calls>>

FsReturns(c, a) ==
    /\ Answers(c, a)
    /\ Becomes(c, NoWalk)
    /\ UNCHANGED tree

----------------------------------------------------------------------------
(* The beginning of a call: validation of every key or of the prefix hint,  *)
(* and ensure_root.                                                         *)

FsRefuses(c, batch, hint) ==
    /\ \/ /\ Refused(c, "invalid")
          /\ ~ValidHint(hint) \/ \E k \in ToSet(batch) : ~Valid(k)
       \/ Refused(c, "misconfigured") /\ ~IsDir(Root)
    /\ UNCHANGED <<tree, walker>>

FsBegins(c, op, step, batch, filter) ==
    /\ Calls(c, op, ToSet(batch), filter, FsPresent)
    /\ IsDir(Root)
    /\ Becomes(c, [NoWalk EXCEPT !.at = step, !.todo = batch])
    /\ UNCHANGED tree

PutFiles(c, batch)     == FsBegins(c, "put", "mkdir", batch, Everything)
UnlinkFiles(c, batch)  == FsBegins(c, "delete", "unlink", batch, Everything)
GetFile(c, k)          == FsBegins(c, "get", "probe", <<k>>, Everything)
GetFileWithMeta(c, k)  == FsBegins(c, "get", "meta", <<k>>, Everything)
FileExists(c, k)       == FsBegins(c, "exists", "is_file", <<k>>, Everything)

----------------------------------------------------------------------------
(* put: for each blob create_dir_all, File::create, the copy, a last stat.  *)

\* Mutant of Mkdir: create_dir instead of create_dir_all.
MkdirParentOnly(c) ==
    /\ At(c, "mkdir")
    /\ \A d \in Directories(key(c)) : ~IsFile(d)
    /\ tree' = [tree EXCEPT ![Parent(key(c))] = Dir]
    /\ Becomes(c, [walker[c] EXCEPT !.at = "open"])
    /\ UNCHANGED calls

Mkdir(c) ==
    /\ At(c, "mkdir")
    /\ \A d \in Directories(key(c)) : ~IsFile(d)
    /\ tree' = [p \in Paths |-> IF p \in Directories(key(c)) THEN Dir ELSE tree[p]]
    /\ Becomes(c, [walker[c] EXCEPT !.at = "open"])
    /\ UNCHANGED calls

\* File::create truncates the file that is there.
OpenFile(c) ==
    LET k == key(c) IN
    /\ At(c, "open")
    /\ IsDir(Parent(k)) /\ ~IsDir(k)
    /\ tree' = [tree EXCEPT ![k] = File(<<>>)]
    /\ Touches(c, k, TRUE, FALSE)
    /\ Becomes(c, [walker[c] EXCEPT !.at = "copy", !.off = 0, !.linked = TRUE])

\* Each open file has its own offset, whatever others do to the bytes.
Written(bytes, off, c) ==
    [i \in 1 .. (IF Len(bytes) > off THEN Len(bytes) ELSE off + 1) |->
        IF i = off + 1 THEN c ELSE IF i <= Len(bytes) THEN bytes[i] ELSE Hole]

WholeBy(bytes, c) == Len(bytes) = Chunks /\ \A i \in DOMAIN bytes : bytes[i] = c

CopyChunk(c) ==
    LET k == key(c)
        w == walker[c]
        bytes == Written(tree[k].bytes, w.off, c)
    IN
    /\ At(c, "copy") /\ w.off < Chunks
    /\ Becomes(c, [w EXCEPT !.off = @ + 1])
    /\ IF w.linked
       THEN /\ tree' = [tree EXCEPT ![k] = File(bytes)]
            /\ Touches(c, k, TRUE, WholeBy(bytes, c))
       ELSE UNCHANGED <<tree, calls>>

\* Mutant of CopyEnds: put goes on to the next blob one chunk early.
CopyEndsEarly(c) ==
    /\ At(c, "copy") /\ walker[c].off >= Chunks - 1
    /\ Becomes(c, [walker[c] EXCEPT !.at = "stat", !.linked = FALSE])
    /\ Stays

CopyEnds(c) ==
    /\ At(c, "copy") /\ walker[c].off = Chunks
    /\ Becomes(c, [walker[c] EXCEPT !.at = "stat", !.linked = FALSE])
    /\ Stays

\* The size in the answer is that of whatever lies under the key by now; the
\* call fails if nothing does.
StatStored(c) ==
    LET rest == Tail(walker[c].todo) IN
    /\ At(c, "stat")
    /\ IsFile(key(c)) \/ IsDir(key(c))
    /\ IF rest = <<>> THEN FsReturns(c, Answer("ok", {}))
       ELSE Stays /\ Becomes(c, [NoWalk EXCEPT !.at = "mkdir", !.todo = rest])

----------------------------------------------------------------------------
(* delete: every key in turn; a file that is not there counts as deleted,   *)
(* a directory, or a path through a file, does not.                         *)

DeletesNext(c, bad) ==
    Becomes(c, [walker[c] EXCEPT !.todo = Tail(@), !.bad = bad])

\* Nobody has a removed file's path open any more, nor is its entry due.
Unlinked(gone) ==
    [d \in Clients |->
        [walker[d] EXCEPT !.due = @ \ gone,
                          !.linked = @ /\ walker[d].todo[1] \notin gone]]

Unlink(c) ==
    LET k == key(c) IN
    /\ At(c, "unlink") /\ walker[c].todo # <<>>
    /\ IsFile(k)
    /\ tree' = [tree EXCEPT ![k] = Nothing]
    /\ Touches(c, k, FALSE, TRUE)
    /\ walker' = [Unlinked({k}) EXCEPT ![c].todo = Tail(@)]

AlreadyGone(c) ==
    LET k == key(c) IN
    /\ At(c, "unlink") /\ walker[c].todo # <<>>
    /\ ~IsFile(k) /\ ~IsDir(k) /\ ~Blocked(k)
    /\ Touches(c, k, FALSE, TRUE)
    /\ DeletesNext(c, walker[c].bad)
    /\ UNCHANGED tree

\* Mutant of UnlinkFails: a key that failed is reported as deleted.
UnlinkFailsUnlisted(c) ==
    /\ At(c, "unlink") /\ walker[c].todo # <<>>
    /\ DeletesNext(c, walker[c].bad)
    /\ Stays

\* Permissions and disks fail; on a directory or below a file it must fail.
UnlinkFails(c) ==
    /\ At(c, "unlink") /\ walker[c].todo # <<>>
    /\ DeletesNext(c, walker[c].bad \cup {key(c)})
    /\ Stays

UnlinksReturn(c) ==
    /\ At(c, "unlink") /\ walker[c].todo = <<>>
    /\ FsReturns(c, IF walker[c].bad = {} THEN Answer("ok", {})
                    ELSE Answer("batch", calls[c].keys \ walker[c].bad))

----------------------------------------------------------------------------
(* get and exists: get_with_metadata stats the file first, get asks whether *)
(* the path exists and then opens it.                                       *)

StatFile(c) ==
    /\ At(c, "meta")
    /\ ~Blocked(key(c))
    /\ IF IsFile(key(c)) \/ IsDir(key(c))
       THEN Stays /\ Becomes(c, [walker[c] EXCEPT !.at = "root"])
       ELSE FsReturns(c, Answer("missing", {}))

RootAgain(c) ==
    /\ At(c, "root")
    /\ IF IsDir(Root) THEN Stays /\ Becomes(c, [walker[c] EXCEPT !.at = "probe"])
       ELSE FsReturns(c, Answer("misconfigured", {}))

Probe(c) ==
    /\ At(c, "probe")
    /\ IF IsFile(key(c)) \/ IsDir(key(c))
       THEN Stays /\ Becomes(c, [walker[c] EXCEPT !.at = "open_read"])
       ELSE FsReturns(c, Answer("missing", {}))

\* A directory opens as well, into a reader that cannot be read; a file that
\* went since the probe is an I/O error (FsFails), not NotFound.
OpenToRead(c) ==
    /\ At(c, "open_read")
    /\ \/ IsFile(key(c)) /\ FsReturns(c, Answer("ok", {key(c)}))
       \/ IsDir(key(c)) /\ FsReturns(c, Answer("broken", {}))

AskIsFile(c) ==
    /\ At(c, "is_file")
    /\ FsReturns(c, Answer("ok", {k \in {key(c)} : IsFile(k)}))

\* exists() of get and is_file() take a stat that fails for a file that is not
\* there: get answers NotFound and exists false.
OverlookFile(c) ==
    /\ StatsFail
    /\ At(c, "probe") \/ At(c, "is_file")
    /\ Overlooks(c, {key(c)})
    /\ Becomes(c, [walker[c] EXCEPT !.at = "blind"])
    /\ UNCHANGED tree

AnswersBlind(c) ==
    /\ At(c, "blind")
    /\ FsReturns(c, IF calls[c].op = "get" THEN Answer("missing", {}) ELSE Answer("ok", {}))

----------------------------------------------------------------------------
(* list; visit and list_with_metadata, which stat each file that matches.   *)

\* To the filesystem any number of "/" is one.
Collapsed(t) ==
    FoldLeft(LAMBDA path, x : IF x = Sep /\ path # <<>> /\ Last(path) = Sep
                              THEN path ELSE Append(path, x), <<>>, t)

\* prefix_subdir: a hint that ends in "/" is a directory, else its parent is.
StartDir(hint) ==
    IF hint = <<>> THEN Root
    ELSE IF hint[Len(hint)] = Sep THEN SubSeq(hint, 1, Len(hint) - 1)
    ELSE Parent(hint)

WalkFrom(hint) == StartDir(IF Misspelt(hint) THEN Collapsed(hint) ELSE hint)

\* The key a walk makes of a path: it spells the directory that it started from
\* as the hint does, but for what parent() cuts off the end.
Spelt(hint, p) ==
    LET whole == hint[Len(hint)] = Sep
        end   == Max({0} \cup {i \in DOMAIN hint : hint[i] # Sep /\
                                  \E j \in DOMAIN hint : i < j /\ hint[j] = Sep})
        start == IF whole THEN hint ELSE Append(SubSeq(hint, 1, end), Sep)
    IN  IF Misspelt(hint) THEN start \o SubSeq(p, Len(WalkFrom(hint)) + 2, Len(p)) ELSE p

Walk(c, filter) ==
    /\ ValidHint(PrefixHint(filter))
    /\ IsDir(Root)
    /\ Calls(c, "list", {}, filter, FsPresent)
    /\ Becomes(c, [NoWalk EXCEPT !.at = "opendir", !.dirs = <<WalkFrom(PrefixHint(filter))>>])
    /\ UNCHANGED tree

Children(d) == {p \in Paths \ {Root} : Parent(p) = d /\ tree[p] # Nothing}

\* The walk hands over to the next directory, or is over.
NextDir(c, dirs) ==
    IF dirs = <<>> THEN FsReturns(c, Answer("ok", walker[c].found))
    ELSE /\ Stays
         /\ Becomes(c, [walker[c] EXCEPT !.at = "opendir", !.dirs = dirs,
                                         !.due = {}, !.seen = {}])

\* "a/" names a directory: on a file it is as much an error as "a/b".
NotADirectory(d, hint) ==
    \/ Blocked(d)
    \/ hint # <<>> /\ Last(hint) = Sep /\ d = WalkFrom(hint) /\ d \in Paths /\ IsFile(d)

\* A directory that is not there is skipped, and so is a file in its place.
SkipDir(c) ==
    LET d == Head(walker[c].dirs) IN
    /\ At(c, "opendir")
    /\ d \notin Paths \/ ~IsDir(d)
    /\ ~NotADirectory(d, PrefixHint(calls[c].filter))
    /\ NextDir(c, Tail(walker[c].dirs))

OpenDir(c) ==
    LET d == Head(walker[c].dirs) IN
    /\ At(c, "opendir")
    /\ d \in Paths /\ IsDir(d)
    /\ Becomes(c, [walker[c] EXCEPT !.at = "entries", !.due = Children(d)])
    /\ Stays

\* The key found at an entry; a file that matches.  visit and list_with_metadata
\* stat it at once (FsFails if it went in between), visit then waits for the
\* visitor.
KeyAt(c, p)      == Spelt(PrefixHint(calls[c].filter), p)
EntryFound(c, p) == IsFile(p) /\ Matches(calls[c].filter, KeyAt(c, p))

\* The next entry, of those that were there when the directory was opened or
\* came later; a directory waits for its turn.
ReadEntry(c, p) ==
    LET w == walker[c] IN
    /\ At(c, "entries")
    /\ p \in Children(Head(w.dirs)) \ w.seen
    /\ Becomes(c, [w EXCEPT !.seen = @ \cup {p}, !.due = @ \ {p},
                     !.dirs = IF IsDir(p) THEN Append(@, p) ELSE @,
                     !.found = IF EntryFound(c, p) THEN @ \cup {KeyAt(c, p)} ELSE @])
    /\ Stays

\* Both is_file() and is_dir() take a stat that fails for a no: the file, or all
\* that lies below the directory, is left out of the listing.
OverlookEntry(c, p) ==
    LET w == walker[c] IN
    /\ StatsFail
    /\ At(c, "entries")
    /\ p \in Children(Head(w.dirs)) \ w.seen
    /\ Overlooks(c, {k \in FsKeys : k = p \/ p \in Directories(k)})
    /\ Becomes(c, [w EXCEPT !.seen = @ \cup {p}, !.due = @ \ {p}])
    /\ UNCHANGED tree

EndOfDir(c) ==
    /\ At(c, "entries") /\ walker[c].due = {}
    /\ NextDir(c, Tail(walker[c].dirs))

----------------------------------------------------------------------------
\* The system call of a step fails and `?` returns its error; or the caller
\* drops the future, or the process dies.  Only delete goes on after errors.
FsFails(c) ==
    /\ Busy(c)
    /\ FsReturns(c, Answer("error", {}))

\* A put whose file is removed has been overtaken there.
RemoveRoot ==
    /\ RootLost
    /\ tree' = [p \in Paths |-> Nothing]
    /\ calls' = [c \in Clients |->
           [calls[c] EXCEPT !.steady = {},
                            !.done = IF walker[c].linked THEN @ \cup {key(c)} ELSE @]]
    /\ walker' = [c \in Clients |-> [walker[c] EXCEPT !.due = {}, !.linked = FALSE]]

FsStep(c) ==
    \/ Mkdir(c) \/ OpenFile(c) \/ CopyChunk(c) \/ CopyEnds(c) \/ StatStored(c)
    \/ Unlink(c) \/ AlreadyGone(c) \/ UnlinkFails(c) \/ UnlinksReturn(c)
    \/ StatFile(c) \/ RootAgain(c) \/ Probe(c) \/ OpenToRead(c) \/ AskIsFile(c)
    \/ OverlookFile(c) \/ AnswersBlind(c)
    \/ SkipDir(c) \/ OpenDir(c) \/ EndOfDir(c) \/ FsFails(c)
    \/ \E p \in Paths : ReadEntry(c, p) \/ OverlookEntry(c, p)

\* What an observer calls the blob under k.
FsBlob(k, none, torn) ==
    IF ~IsFile(k) THEN none
    ELSE IF \E c \in Clients : WholeBy(tree[k].bytes, c)
         THEN CHOOSE c \in Clients : WholeBy(tree[k].bytes, c)
         ELSE torn
===============================================================================
