----------------------------- MODULE FileSystem -----------------------------
(***************************************************************************)
(* The part of the file system, and of std::filesystem, that the file      *)
(* source resolver, the file access check and file sources use.  It is not *)
(* part of the repository: the module states what that code relies on.     *)
(*                                                                         *)
(* A name is a sequence of characters, an absolute path a sequence of      *)
(* names (the root is <<>>), and a file system maps paths to entries.      *)
(***************************************************************************)
EXTENDS Naturals, Sequences, SequencesExt

CONSTANT NameCharacters   \* what names are made of

\* POSIX allows all other characters; the code takes a backslash for a separator, so
\* names that hold one are left out.
ASSUME NamesHaveNoSlash == NameCharacters \cap {"/", "\\"} = {}

Texts == Seq(NameCharacters)
Paths == Seq(Texts)
DotNames == {<<".">>, <<".", ".">>}

Kinds == {"none", "file", "dir", "link"}

\* big: a file is larger than limits::maxDocumentSize; target: of a link.
NoEntry == [kind |-> "none", big |-> FALSE, target |-> <<>>]
AFile == [NoEntry EXCEPT !.kind = "file"]
ABigFile == [AFile EXCEPT !.big = TRUE]
ADirectory == [NoEntry EXCEPT !.kind = "dir"]
ALink(path) == [NoEntry EXCEPT !.kind = "link", !.target = path]

Entry(fs, path) == IF path \in DOMAIN fs THEN fs[path] ELSE NoEntry

\* Every entry but the root lies in a directory and has a name of its own.
IsFileSystem(fs) ==
    /\ DOMAIN fs \subseteq Paths /\ IsFiniteSet(DOMAIN fs)
    /\ Entry(fs, <<>>).kind = "dir"
    /\ \A path \in DOMAIN fs \ {<<>>} :
         /\ Last(path) \notin DotNames
         /\ fs[path].kind = "none" \/ Entry(fs, Front(path)).kind = "dir"

Names(fs, directory) ==
    {Last(path) : path \in {p \in DOMAIN fs : /\ p # <<>>
                                              /\ Front(p) = directory
                                              /\ fs[p].kind # "none"}}

ParentPath(path) == IF path = <<>> THEN <<>> ELSE Front(path)

\* A lookup on its way: where it is, the names left to follow, and every entry it
\* has read.  "found" has the path without any link, "missing" stands for ENOENT and
\* ENOTDIR, "loop" for ELOOP.
StartOfLookup(path) == [status |-> "follows", path |-> <<>>, rest |-> path, trail |-> {}]

Follow(fs, s) ==
    LET name == Head(s.rest)
        next == Append(s.path, name)
        entry == Entry(fs, next)
        moved == [s EXCEPT !.rest = Tail(@)]
        read == [moved EXCEPT !.trail = @ \cup {next}]
    IN  IF s.status # "follows" THEN s
        ELSE IF s.rest = <<>> THEN [s EXCEPT !.status = "found"]
        ELSE IF Entry(fs, s.path).kind # "dir" THEN [s EXCEPT !.status = "missing"]
        ELSE IF name = <<".">> THEN moved
        ELSE IF name = <<".", ".">> THEN [moved EXCEPT !.path = ParentPath(@)]
        ELSE IF entry.kind = "none" THEN [read EXCEPT !.status = "missing"]
        ELSE IF entry.kind = "link" THEN [read EXCEPT !.path = <<>>, !.rest = entry.target \o @]
        ELSE [read EXCEPT !.path = next]

\* A lookup that takes more steps than this is in a loop of links.
MaxSteps == 24

Lookup(fs, path) ==
    LET after[n \in 0 .. MaxSteps] ==
            IF n = 0 THEN StartOfLookup(path) ELSE Follow(fs, after[n - 1])
        last == after[MaxSteps]
    IN  IF last.status = "follows" THEN [last EXCEPT !.status = "loop"] ELSE last

\* canonical(): succeeds exactly if the lookup finds an entry.
Exists(fs, path) == Lookup(fs, path).status = "found"
Canonical(fs, path) == Lookup(fs, path).path
IsDirectory(fs, path) == Exists(fs, path) /\ Entry(fs, Canonical(fs, path)).kind = "dir"
IsRegularFile(fs, path) == Exists(fs, path) /\ Entry(fs, Canonical(fs, path)).kind = "file"
FileIsBig(fs, path) == Entry(fs, Canonical(fs, path)).big
\* is_regular_file() throws for a loop and is FALSE for a missing entry.
StatusThrows(fs, path) == Lookup(fs, path).status = "loop"

\* What may happen to one entry from outside: it is created, removed or replaced.
Changed(fs, path, entry) == [fs EXCEPT ![path] = entry]
=============================================================================
