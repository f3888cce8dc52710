---------------------------- MODULE FileInclude -----------------------------
(***************************************************************************)
(* One @include of a document, with the file source resolver and the file  *)
(* access check the parser uses by default: the including document is      *)
(* checked, the text is resolved into sources, and each source in turn is  *)
(* checked and opened.  Meanwhile other programs change the file system,   *)
(* at most MaxChanges times.  Nesting and failures of the parser are       *)
(* modelled in Parser.                                                     *)
(***************************************************************************)
EXTENDS FileSourceResolver, FileAccessCheck

CONSTANTS
    Scenarios,   \* [fs, context]: where a run begins
    Changes,     \* [path, entry]: what other programs may do
    MaxChanges   \* how often they do it in one run

VARIABLES
    current,   \* the canonical paths the access check and the file source work with
    opened,    \* the files that were opened
    touched,   \* the paths other programs have changed
    changes,   \* how often they did
    stable     \* nothing changed since the check of the current source began

checkVars == <<current, opened>>
worldVars == <<touched, changes, stable>>
vars == <<resolverVars, checkVars, worldVars>>

NotChecked == [source |-> <<>>, directory |-> <<>>, file |-> <<>>]

Init ==
    /\ \E scenario \in Scenarios : fs = scenario.fs /\ context = scenario.context
    /\ phase = "root"
    /\ ResolverInit
    /\ current = NotChecked
    /\ opened = <<>>
    /\ touched = {}
    /\ changes = 0
    /\ stable = TRUE

-----------------------------------------------------------------------------

\* The including document has no parent.
CheckRoot ==
    /\ phase = "root"
    /\ IF IsRefusedAtOnce(context.includer, context.check)
       THEN Fail("root refused")
       ELSE phase' = "resolve" /\ UNCHANGED outcome
    /\ UNCHANGED <<fs, context, pattern, walk, paths, list, checkVars, worldVars>>

Resolve ==
    /\ ResolverNext
    /\ UNCHANGED <<checkVars, worldVars>>

NextSource == list[Len(opened) + 1]

\* The next source of the list: everything up to its canonical path.
BeginCheck ==
    LET source == FileAt(NextSource)
    IN  /\ phase = "check"
        /\ Len(opened) < Len(list)
        /\ stable' = TRUE
        /\ current' = [NotChecked EXCEPT !.source = CanonicalSource(fs, source)]
        /\ IF IsRefusedAtOnce(source, context.check)
              \/ ~HasRequiredSuffix(source, context.check)
              \/ ~NeedsParentDirectory(context.includer, context.check)
              \/ ~Exists(fs, source.path)
           THEN Fail("refused")
           ELSE phase' = "parent" /\ UNCHANGED outcome
        /\ UNCHANGED <<fs, context, pattern, walk, paths, list, opened, touched, changes>>

\* The directory of the including document.
CheckParent ==
    /\ phase = "parent"
    /\ current' = [current EXCEPT !.directory = CanonicalDirectory(fs, context.includer)]
    /\ IF DirectoryExists(fs, context.includer)
       THEN phase' = "size" /\ UNCHANGED outcome
       ELSE Fail("refused")
    /\ UNCHANGED <<fs, context, pattern, walk, paths, list, opened, worldVars>>

\* file_size() throws a filesystem_error, which is no Error, if the file is gone.
CheckSize ==
    /\ phase = "size"
    /\ IF "LimitSize" \notin context.check
       THEN phase' = "directory" /\ UNCHANGED outcome
       ELSE IF ~IsRegularFile(fs, current.source) THEN Fail("system error")
       ELSE IF FileIsBig(fs, current.source) THEN Fail("refused")
       ELSE phase' = "directory" /\ UNCHANGED outcome
    /\ UNCHANGED <<fs, context, pattern, walk, paths, list, checkVars, worldVars>>

CheckDirectory ==
    /\ phase = "directory"
    /\ IF DirectoryIsPermitted(current.source, current.directory, context.check)
       THEN phase' = "open" /\ UNCHANGED outcome
       ELSE Fail("refused")
    /\ UNCHANGED <<fs, context, pattern, walk, paths, list, checkVars, worldVars>>

\* A source as the file system has it now, if this path of it is opened: where that
\* really is, its size, and where the including document is.
SeenFile(source, path) ==
    [source |-> source,
     path |-> Canonical(fs, path),
     isBig |-> FileIsBig(fs, path),
     home |-> Canonical(fs, ParentPath(context.includer.path)),
     stable |-> stable]

\* FileSource::openStream() resolves the path again, ...
BeginOpen ==
    /\ phase = "open"
    /\ current' = [current EXCEPT !.file = Canonical(fs, NextSource)]
    /\ IF Exists(fs, NextSource)
       THEN phase' = "status" /\ UNCHANGED outcome
       ELSE Fail("error")
    /\ UNCHANGED <<fs, context, pattern, walk, paths, list, opened, worldVars>>

\* ... asks for its status, ...
CheckStatus ==
    /\ phase = "status"
    /\ IF IsRegularFile(fs, current.file)
       THEN phase' = "stream" /\ UNCHANGED outcome
       ELSE Fail("error")
    /\ UNCHANGED <<fs, context, pattern, walk, paths, list, checkVars, worldVars>>

\* ... and opens it; what is no file by now fails at the first line.  The record keeps
\* what was true when the file was opened.
OpenSource ==
    /\ phase = "stream"
    /\ IF IsRegularFile(fs, current.file)
       THEN /\ opened' = Append(opened, SeenFile(NextSource, current.file))
            /\ phase' = "check"
            /\ UNCHANGED outcome
       ELSE Fail("error") /\ UNCHANGED opened
    /\ UNCHANGED <<fs, context, pattern, walk, paths, list, current, worldVars>>

Complete ==
    /\ phase = "check"
    /\ Len(opened) = Len(list)
    /\ Fail("included")
    /\ UNCHANGED <<fs, context, pattern, walk, paths, list, checkVars, worldVars>>

\* Another program creates, removes or replaces an entry.
ChangeFileSystem ==
    /\ phase # "done"
    /\ context.mayChange
    /\ changes < MaxChanges
    /\ \E change \in Changes :
         /\ change.path \in DOMAIN fs
         /\ fs[change.path] # change.entry
         /\ IsFileSystem(Changed(fs, change.path, change.entry))
         /\ fs' = Changed(fs, change.path, change.entry)
         /\ touched' = touched \cup {change.path}
    /\ changes' = changes + 1
    /\ stable' = FALSE
    /\ UNCHANGED <<context, phase, outcome, pattern, walk, paths, list, checkVars>>

Next ==
    \/ CheckRoot
    \/ Resolve
    \/ BeginCheck
    \/ CheckParent
    \/ CheckSize
    \/ CheckDirectory
    \/ BeginOpen
    \/ CheckStatus
    \/ OpenSource
    \/ Complete
    \/ ChangeFileSystem

Spec == Init /\ [][Next]_vars

-----------------------------------------------------------------------------
(* What an include text means: a second reading of it, by the elements of  *)
(* the path.                                                               *)

Normal(c) == IF c = "\\" THEN "/" ELSE c
Text == LET text == WithoutProtocol(context.text) IN [i \in DOMAIN text |-> Normal(text[i])]
Parts == Elements(Text)
Glob == IF Text = <<>> THEN <<>> ELSE Last(Parts)
GoesDown == Len(Parts) > 1 /\ Parts[Len(Parts) - 1] = <<"*", "*">>
DirectoryParts == SubSeq(Parts, 1, Len(Parts) - (IF GoesDown THEN 2 ELSE 1))

\* A text is relative to the including document unless it starts with a slash and
\* has a directory: "/a" and "/**/a" are taken as relative by the code.
IsAbsoluteText == Text # <<>> /\ Head(Text) = "/" /\ DirectoryParts # <<>>
HasServer == IsPrefix(<<"/", "/">>, Text) /\ "WindowsUNCPath" \in context.resolver
ServerIsNamed ==
    /\ Len(Text) > 2 /\ Text[3] # "/"
    /\ Len(Parts) > 1
    /\ \A c \in Range(Parts[1]) : c \notin InvalidServerCharacters

Home == ParentPath(Canonical(fs, context.includer.path))
StartPath == IF IsAbsoluteText THEN DirectoryParts ELSE Home \o DirectoryParts

IsGlob(name) == Cardinality(Stars(name)) <= 1
HasStar(name) == Stars(name) # {}

\* The texts that have a meaning, and find the directory they start at.
IsUnderstood ==
    /\ context.text # <<>> /\ Len(context.text) <= MaxIncludeLength
    /\ Text # <<>> => Last(Text) # "/"
    /\ HasServer => ServerIsNamed
    /\ IsGlob(Glob) /\ (HasStar(Glob) => "FilenameWildcard" \in context.resolver)
    /\ \A i \in DOMAIN DirectoryParts : ~HasStar(DirectoryParts[i])
    /\ GoesDown => "RecursiveWildcard" \in context.resolver
    /\ IF IsAbsoluteText THEN "AbsolutePaths" \in context.resolver
       ELSE HasBaseDirectory(context.includer)
    /\ IsDirectory(fs, StartPath)

\* A star stands for any characters; what is in front of it and behind it may
\* overlap ("a.*.a" stands for "a.a", too).
FitsGlob(name) ==
    IF ~HasStar(Glob) THEN name = Glob
    ELSE LET star == CHOOSE i \in Stars(Glob) : TRUE
             behind == Len(Glob) - star
         IN  /\ Len(name) >= Max({star - 1, behind})
             /\ \A i \in 1 .. (star - 1) : name[i] = Glob[i]
             /\ \A i \in 1 .. behind : name[Len(name) - behind + i] = Glob[star + i]

\* The entries a text stands for: below the start in real directories, or exactly
\* one path if there is no wildcard.
Meant ==
    LET start == Canonical(fs, StartPath)
        isBelow(path) ==
            /\ IsStrictPrefix(start, path)
            /\ \A n \in (Len(start) + 1) .. (Len(path) - 1) : fs[SubSeq(path, 1, n)].kind = "dir"
    IN  IF GoesDown \/ HasStar(Glob)
        THEN {path \in DOMAIN fs : /\ isBelow(path)
                                   /\ GoesDown \/ Len(path) = Len(start) + 1
                                   /\ FitsGlob(Last(path))
                                   /\ IsRegularFile(fs, path)}
        ELSE {start \o Elements(Glob)}

\* Nothing on the way to this path has been changed.
Untouched(path) == Lookup(fs, path).trail \cap touched = {}

\* The order of a list: in every directory its files, then the content of its
\* directories, one directory after the other.  (A path that leads through another one
\* was found after that file had become a directory: the two have no order.)
Above(path, n) == SubSeq(path, 1, n)
Common(a, b) == Max({n \in 0 .. Len(a) : IsPrefix(Above(a, n), b)})

IsGrouped(sources) ==
    \A i, k \in DOMAIN sources :
        i < k /\ ~IsPrefix(sources[i], sources[k]) /\ ~IsPrefix(sources[k], sources[i]) =>
            LET n == Common(sources[i], sources[k])
            IN  /\ Len(sources[k]) = n + 1 => Len(sources[i]) = n + 1
                /\ \A j \in i .. k : IsPrefix(Above(sources[i], n), sources[j])

CheckPhases == {"check", "parent", "size", "directory", "open", "status", "stream"}
IsResolved == phase \in CheckPhases \/ outcome = "included"

\* A list that was resolved is grouped by directory, whatever order the directories were
\* listed in and whatever other programs changed, and not longer than the limit.
\* (FileSourceResolver.cpp:341-375)
ListIsInOrder == IsResolved => Len(list) <= MaxIncludeSources /\ IsGrouped(list)

\* The files a pattern stands for, now: those below its directory, in real directories,
\* or the one that it names.
Wanted ==
    IF pattern.isRecursive \/ pattern.hasWildcard
    THEN {path \in DOMAIN fs :
            /\ IsStrictPrefix(pattern.directory, path)
            /\ IF pattern.isRecursive
               THEN \A n \in (Len(pattern.directory) + 1) .. (Len(path) - 1) : Entry(fs, Above(path, n)).kind = "dir"
               ELSE Len(path) = Len(pattern.directory) + 1
            /\ NameMatches(Last(path)) /\ IsRegularFile(fs, path)}
    ELSE {pattern.directory \o Elements(pattern.prefix)}

\* The walk misses no file that a pattern stands for, as long as nothing on the way to
\* it is changed, however the directories around it change and in whatever order their
\* entries are listed.  If nothing is changed at all, the list holds each of these files
\* once and no other, and the walk only fails for a file that is none or for too many.
\* (FileSourceResolver.cpp:287-339)
WalkMissesNothing ==
    pattern.accepted =>
        /\ IsResolved => {Canonical(fs, path) : path \in {p \in Wanted : Untouched(p)}} \subseteq Range(list)
        /\ touched = {} =>
             /\ IsResolved =>
                  /\ Range(list) = {Canonical(fs, path) : path \in Wanted}
                  /\ Len(list) = Cardinality(Wanted)
             /\ outcome = "limit" => Cardinality(Wanted) > MaxIncludeSources
             /\ outcome = "error" => \E path \in Wanted : ~IsRegularFile(fs, path)

\* A list that was resolved is in order and holds exactly the files the text stands for,
\* each once per entry; a text is only refused if it has no meaning, a single
\* file is no file, or there are too many.  If other programs change the file system
\* during the walk, this still holds of everything they did not touch.
\* (FileSourceResolver.cpp:36-375)
ListIsWhatIsMeant ==
    /\ ListIsInOrder
    /\ WalkMissesNothing
    /\ IsResolved /\ IsUnderstood /\ Untouched(context.includer.path) /\ Untouched(StartPath) =>
         {Canonical(fs, path) : path \in {p \in Meant : Untouched(p)}} \subseteq Range(list)
    /\ touched = {} =>
         /\ IsResolved =>
              /\ IsUnderstood
              /\ Range(list) = {Canonical(fs, path) : path \in Meant}
              /\ Len(list) = Cardinality(Meant)
         /\ outcome = "limit" => Cardinality(Meant) > MaxIncludeSources
         /\ outcome = "error" =>
              ~IsUnderstood \/ \E path \in Meant : ~IsRegularFile(fs, path)

-----------------------------------------------------------------------------

\* What the enabled features permit of a file, by its real place and that of the
\* directory of the including document.
IsPermitted(file) ==
    /\ context.includer.name = "file"
    /\ "LimitSize" \in context.check => ~file.isBig
    /\ "RequireSuffix" \in context.check =>
         LET name == Lowered(Last(file.source))
         IN  IsSuffix(FileSuffix, name) /\ name # FileSuffix
    /\ \/ "AnyDirectory" \in context.check
       \/ "SameDirectory" \in context.check /\ Front(file.path) = file.home
       \/ "Subdirectories" \in context.check /\ IsStrictPrefix(file.home, Front(file.path))

\* If the file system does not change between the check of a file and its opening,
\* every file that is opened lies, behind all links, where the features permit it,
\* and has a permitted size and suffix; a file is only refused if it does not, if it
\* is no file any more, or if the directory of the including document is gone.
\* Changes before the check, as after the walk, do not weaken this.
\* (FileAccessCheck.cpp:45-174, Parser.hpp:113-139)
OpenedIsPermitted ==
    /\ \A file \in Range(opened) : file.stable => IsPermitted(file)
    /\ outcome = "refused" /\ stable =>
         \/ ~IsRegularFile(fs, NextSource)
         \/ ~Exists(fs, ParentPath(context.includer.path))
         \/ ~IsPermitted(SeenFile(NextSource, NextSource))

\* "This function must either return a list of sources that match the expression or
\* throw an Error exception." (SourceResolver.hpp:33)
ResolvesOrThrows == outcome # "terminated"
=============================================================================
