------------------------- MODULE FileSourceResolver -------------------------
(***************************************************************************)
(* FileSourceResolver::resolve(): from the text of an @include to a sorted *)
(* list of files.  The text is taken apart at once; the walk over the      *)
(* directories and the resolution of every path found are steps of their   *)
(* own, since the file system can change between them.  A directory is     *)
(* listed in any order, and what is created or removed after it was opened *)
(* may or may not be listed, as POSIX leaves it.                           *)
(*                                                                         *)
(* Texts and names are sequences of one-character strings; "file:" is one  *)
(* character of the model.  The UTF-8 validity of paths is left out.       *)
(***************************************************************************)
EXTENDS FileSystem, FiniteSets, FiniteSetsExt

CONSTANTS
    MaxIncludeSources,        \* limits::maxIncludeSources
    MaxIncludeLength,         \* the 500 characters of an include text
    CharacterOrder,           \* the characters, in the order of their codes
    InvalidServerCharacters   \* impl::CharClass::InvalidWindowsServerName

ASSUME LimitsArePositive ==
    MaxIncludeSources \in Nat \ {0} /\ MaxIncludeLength \in Nat \ {0}

ASSUME CharactersAreOrdered ==
    /\ CharacterOrder \in Seq(Range(CharacterOrder)) /\ IsInjective(CharacterOrder)
    /\ NameCharacters \cup {"/"} \subseteq Range(CharacterOrder)

ResolverFeatures ==
    {"RecursiveWildcard", "FilenameWildcard", "AbsolutePaths", "WindowsUNCPath", "FileProtocol"}

VARIABLES
    fs,        \* the file system
    context,   \* the include text, the including document and the features
    phase,     \* what is done next
    outcome,   \* how it ended: "none" while it runs
    pattern,   \* directory, filename prefix and suffix, wildcards
    walk,      \* the directories being listed, the innermost last
    paths,     \* the paths found, not yet resolved; the first may be canonical already
    list       \* the canonical paths of the sources

resolverVars == <<fs, context, phase, outcome, pattern, walk, paths, list>>

-----------------------------------------------------------------------------
(* The include text *)

Refused == [accepted |-> FALSE]

WithoutProtocol(text) == IF text # <<>> /\ Head(text) = "file:" THEN Tail(text) ELSE text

\* removeFileProtocol() throws although it is noexcept.
ProtocolTerminates(text, features) ==
    text # <<>> /\ Head(text) = "file:" /\ "FileProtocol" \notin features

Slashes(text) == {i \in DOMAIN text : text[i] = "/"}
Stars(text) == {i \in DOMAIN text : text[i] = "*"}

UncIsValid(text) ==
    \E slash \in Slashes(text) \ 1 .. 3 :
        /\ \A i \in 3 .. (slash - 1) : text[i] \notin InvalidServerCharacters \cup {"/"}
        /\ slash < Len(text)

\* Backslashes become slashes and repeated slashes one, except for the two that
\* start a UNC path.
NormalizePathSeparators(text, features) ==
    LET slashed == [i \in DOMAIN text |-> IF text[i] = "\\" THEN "/" ELSE text[i]]
        isUnc == "WindowsUNCPath" \in features /\ IsPrefix(<<"/", "/">>, slashed)
        repeated == {i \in Slashes(slashed) : i - 1 \in Slashes(slashed) /\ ~(isUnc /\ i = 2)}
        kept == SetToSortSeq(DOMAIN slashed \ repeated, <)
        result == [i \in DOMAIN kept |-> slashed[kept[i]]]
    IN  IF (isUnc /\ ~UncIsValid(slashed)) \/ IsSuffix(<<"/">>, result)
        THEN Refused
        ELSE [accepted |-> TRUE, text |-> result]

LastSlash(text) == Max(Slashes(text) \cup {0})
DirectoryOf(text) == SubSeq(text, 1, LastSlash(text) - 1)
FilenameOf(text) == SubSeq(text, LastSlash(text) + 1, Len(text))

GetFilenamePattern(filename) ==
    LET star == Min(Stars(filename) \cup {Len(filename) + 1})
    IN  IF Cardinality(Stars(filename)) > 1 THEN Refused
        ELSE [accepted |-> TRUE,
              hasWildcard |-> Stars(filename) # {},
              prefix |-> SubSeq(filename, 1, star - 1),
              suffix |-> SubSeq(filename, star + 1, Len(filename))]

\* Only "**" as the last element is a wildcard; it is removed with its slash.
ValidateDirectoryWildcard(directory) ==
    LET stars == Stars(directory)
        starts == {i \in stars : i + 1 \in stars /\ i - 1 \notin stars}
        isAlone(i) == i + 1 = Len(directory) /\ (i > 1 => directory[i - 1] = "/")
    IN  IF \/ \E i \in stars : {i + 1, i + 2} \subseteq stars
           \/ \E i \in stars : i - 1 \notin stars /\ i + 1 \notin stars
           \/ Cardinality(starts) > 1
           \/ \E i \in starts : ~isAlone(i)
        THEN Refused
        ELSE [accepted |-> TRUE,
              isRecursive |-> starts # {},
              directory |-> IF starts = {} THEN directory
                            ELSE SubSeq(directory, 1, Min(starts) - 2)]

\* The names of a path, as std::filesystem::path splits it.
Elements(text) ==
    LET add(parts, c) ==
            IF c = "/" THEN Append(parts, <<>>)
            ELSE [parts EXCEPT ![Len(parts)] = Append(@, c)]
    IN  SelectSeq(FoldLeft(add, <<<<>>>>, text), LAMBDA name : name # <<>>)

\* The including document: by its source identifier.
HasBaseDirectory(includer) ==
    /\ includer.name = "file"
    /\ includer.isAbsolute
    /\ Exists(fs, includer.path)
    /\ IsDirectory(fs, ParentPath(Canonical(fs, includer.path)))

BaseDirectory(includer) == ParentPath(Canonical(fs, includer.path))

BuildDirectory(includer, directory, features) ==
    LET isAbsolute == directory # <<>> /\ Head(directory) = "/"
        path == (IF isAbsolute THEN <<>> ELSE BaseDirectory(includer)) \o Elements(directory)
    IN  IF IF isAbsolute THEN "AbsolutePaths" \notin features ELSE ~HasBaseDirectory(includer)
        THEN Refused
        ELSE IF ~IsDirectory(fs, path) THEN Refused
        ELSE [accepted |-> TRUE, directory |-> Canonical(fs, path)]

\* The whole text: the pattern to look for, or Refused.
PatternOf(text, includer, features) ==
    LET normalized == NormalizePathSeparators(WithoutProtocol(text), features)
        filename == GetFilenamePattern(FilenameOf(normalized.text))
        wildcard == ValidateDirectoryWildcard(DirectoryOf(normalized.text))
        built == BuildDirectory(includer, wildcard.directory, features)
    IN  IF text = <<>> \/ Len(text) > MaxIncludeLength THEN Refused
        ELSE IF ~normalized.accepted THEN Refused
        ELSE IF ~filename.accepted THEN Refused
        ELSE IF filename.hasWildcard /\ "FilenameWildcard" \notin features THEN Refused
        ELSE IF ~wildcard.accepted THEN Refused
        ELSE IF wildcard.isRecursive /\ "RecursiveWildcard" \notin features THEN Refused
        ELSE IF ~built.accepted THEN Refused
        ELSE [filename EXCEPT !.accepted = TRUE]
             @@ [isRecursive |-> wildcard.isRecursive, directory |-> built.directory]

NameMatches(name) ==
    IF pattern.hasWildcard
    THEN IsPrefix(pattern.prefix, name) /\ IsSuffix(pattern.suffix, name)
    ELSE name = pattern.prefix

-----------------------------------------------------------------------------
(* The order of the sources *)

Rank(c) == CHOOSE i \in DOMAIN CharacterOrder : CharacterOrder[i] = c

NameLess(a, b) ==
    \E n \in 1 .. Len(b) :
        /\ Len(a) >= n - 1
        /\ \A i \in 1 .. (n - 1) : a[i] = b[i]
        /\ Len(a) = n - 1 \/ Rank(a[n]) < Rank(b[n])

\* splitPath() keeps the slash at the end of a directory element.
SplitPath(path) ==
    [i \in DOMAIN path |-> IF i < Len(path) THEN Append(path[i], "/") ELSE path[i]]

IsDirectoryElement(element) == IsSuffix(<<"/">>, element)

\* Mutant: the paths are compared element by element, as plain names.
SortByName(a, b) ==
    \E n \in DOMAIN a \cap DOMAIN b :
        (\A i \in 1 .. (n - 1) : a[i] = b[i]) /\ NameLess(a[n], b[n])

\* In one directory the files come first, then the content of its directories.
SortLess(a, b) ==
    LET x == SplitPath(a)
        y == SplitPath(b)
    IN  \E n \in DOMAIN x \cap DOMAIN y :
            /\ \A i \in 1 .. (n - 1) : x[i] = y[i]
            /\ IF IsDirectoryElement(x[n]) = IsDirectoryElement(y[n])
               THEN NameLess(x[n], y[n])
               ELSE ~IsDirectoryElement(x[n])

\* A path goes behind all those it is not less than: the sort is stable.
InsertSorted(sorted, path) ==
    LET n == Cardinality({i \in DOMAIN sorted : ~SortLess(path, sorted[i])})
    IN  InsertAt(sorted, n + 1, path)

Sorted(sources) ==
    LET sorted[n \in 0 .. Len(sources)] ==
            IF n = 0 THEN <<>> ELSE InsertSorted(sorted[n - 1], sources[n])
    IN  sorted[Len(sources)]

-----------------------------------------------------------------------------
(* The steps of resolve() *)

Fail(result) ==
    /\ outcome' = result
    /\ phase' = "done"

\* A directory whose listing has not begun.
Unopened(path) == [directory |-> path, isOpen |-> FALSE, left |-> {}, seen |-> {}]

ResolverInit ==
    /\ IsFileSystem(fs)
    /\ outcome = "none"
    /\ pattern = Refused
    /\ walk = <<>>
    /\ paths = <<>>
    /\ list = <<>>

\* From the text to the directory: the checks of an existing directory follow each
\* other directly and end alike, so they are one step.
StartResolve ==
    LET result == PatternOf(context.text, context.includer, context.resolver)
    IN  /\ phase = "resolve"
        /\ UNCHANGED <<fs, context, list>>
        /\ IF context.text # <<>> /\ Len(context.text) <= MaxIncludeLength
              /\ ProtocolTerminates(context.text, context.resolver)
           THEN Fail("terminated") /\ UNCHANGED <<pattern, walk, paths>>
           ELSE IF ~result.accepted
           THEN Fail("error") /\ UNCHANGED <<pattern, walk, paths>>
           ELSE /\ pattern' = result
                /\ UNCHANGED outcome
                /\ IF result.isRecursive \/ result.hasWildcard
                   THEN /\ phase' = "scan"
                        /\ walk' = <<Unopened(result.directory)>>
                        /\ UNCHANGED paths
                   ELSE /\ phase' = "create"
                        /\ paths' = <<result.directory \o Elements(result.prefix)>>
                        /\ UNCHANGED walk

Innermost == Last(walk)

\* The directory iterator opens the directory; if it is gone, it throws.
OpenDirectory ==
    /\ phase = "scan"
    /\ walk # <<>>
    /\ ~Innermost.isOpen
    /\ LET path == Innermost.directory
       IN  IF Entry(fs, path).kind # "dir"
           THEN Fail("error") /\ UNCHANGED walk
           ELSE /\ walk' = [walk EXCEPT ![Len(walk)].isOpen = TRUE,
                                        ![Len(walk)].left =
                                            {[name |-> name, kind |-> fs[Append(path, name)].kind] :
                                                name \in Names(fs, path)}]
                /\ UNCHANGED <<phase, outcome>>
    /\ UNCHANGED <<fs, context, pattern, paths, list>>

\* The entries the iterator may return next: those it has read on opening, with the
\* kind they had then, and those that exist now.
Listed ==
    LET path == Innermost.directory
    IN  {entry \in Innermost.left : entry.name \notin Innermost.seen}
        \cup {[name |-> name, kind |-> fs[Append(path, name)].kind] :
                  name \in Names(fs, path) \ Innermost.seen}

\* One entry: matches() asks the file system for its status as it is now.  The
\* recursive iterator enters an entry that was listed as a directory, not a link.
VisitEntry ==
    /\ phase = "scan"
    /\ walk # <<>>
    /\ Innermost.isOpen
    /\ \E entry \in Listed :
         LET path == Append(Innermost.directory, entry.name)
             visited == [walk EXCEPT ![Len(walk)].seen = @ \cup {entry.name}]
             matches == IsRegularFile(fs, path) /\ NameMatches(entry.name)
         IN  IF StatusThrows(fs, path)
             THEN Fail("terminated") /\ UNCHANGED <<walk, paths>>
             ELSE IF matches /\ Len(paths) >= MaxIncludeSources
             THEN Fail("limit") /\ UNCHANGED <<walk, paths>>
             ELSE /\ paths' = IF matches THEN Append(paths, path) ELSE paths
                  /\ walk' = IF pattern.isRecursive /\ entry.kind = "dir"
                             THEN Append(visited, Unopened(path))
                             ELSE visited
                  /\ UNCHANGED <<phase, outcome>>
    /\ UNCHANGED <<fs, context, pattern, list>>

\* Entries that were created after the directory was opened may be missed.
LeaveDirectory ==
    /\ phase = "scan"
    /\ walk # <<>>
    /\ Innermost.isOpen
    /\ {entry.name : entry \in Innermost.left} \subseteq Innermost.seen
    /\ walk' = Front(walk)
    /\ UNCHANGED <<fs, context, phase, outcome, pattern, paths, list>>

EndScan ==
    /\ phase = "scan"
    /\ walk = <<>>
    /\ phase' = "create"
    /\ UNCHANGED <<fs, context, outcome, pattern, walk, paths, list>>

\* The next path found is made canonical.  If it is gone, that is an error.
CanonicalizePath ==
    /\ phase = "create"
    /\ paths # <<>>
    /\ IF Exists(fs, Head(paths))
       THEN /\ paths' = [paths EXCEPT ![1] = Canonical(fs, @)]
            /\ phase' = "regular"
            /\ UNCHANGED outcome
       ELSE Fail("error") /\ UNCHANGED paths
    /\ UNCHANGED <<fs, context, pattern, walk, list>>

\* A canonical path that is no file, by now, is an error; two links to a file give that
\* file twice.
CreateSource ==
    /\ phase = "regular"
    /\ IF IsRegularFile(fs, Head(paths))
       THEN /\ list' = Append(list, Head(paths))
            /\ paths' = Tail(paths)
            /\ phase' = "create"
            /\ UNCHANGED outcome
       ELSE Fail("error") /\ UNCHANGED <<paths, list>>
    /\ UNCHANGED <<fs, context, pattern, walk>>

SortSources ==
    /\ phase = "create"
    /\ paths = <<>>
    /\ list' = Sorted(list)
    /\ phase' = "check"
    /\ UNCHANGED <<fs, context, outcome, pattern, walk, paths>>

ResolverNext ==
    \/ StartResolve
    \/ OpenDirectory
    \/ VisitEntry
    \/ LeaveDirectory
    \/ EndScan
    \/ CanonicalizePath
    \/ CreateSource
    \/ SortSources
=============================================================================
