-------------------------- MODULE FileAccessCheck ---------------------------
(***************************************************************************)
(* FileAccessCheck::check(): may a document be read that another document  *)
(* includes?  The check asks the file system several times; the operators  *)
(* here are its parts in the order of the code, each for one moment.       *)
(*                                                                         *)
(* A source is [name, isAbsolute, path]: the name of its kind ("file" or   *)
(* another) and the names of its path.  No source is written as NoSource.  *)
(***************************************************************************)
EXTENDS FileSystem, FiniteSetsExt

CONSTANTS
    FileSuffix,   \* defaults::fileSuffix, ".elcl"
    LowerCase     \* Char::toLowerCase(), of every character

ASSUME FileSuffixAssumption ==
    /\ FileSuffix \in Texts
    /\ FileSuffix # <<>> /\ Head(FileSuffix) = "."
    /\ \A i \in 2 .. Len(FileSuffix) : FileSuffix[i] # "."

ASSUME LowerCaseAssumption ==
    /\ LowerCase \in [NameCharacters -> NameCharacters]
    /\ \A c \in NameCharacters : LowerCase[c] = "." <=> c = "."
    /\ \A i \in DOMAIN FileSuffix : LowerCase[FileSuffix[i]] = FileSuffix[i]

CheckFeatures ==
    {"SameDirectory", "Subdirectories", "AnyDirectory", "OnlyFileSources", "LimitSize", "RequireSuffix"}

DirectoryPolicies == {"SameDirectory", "Subdirectories", "AnyDirectory"}

NoSource == [name |-> "none", isAbsolute |-> FALSE, path |-> <<>>]
FileAt(path) == [name |-> "file", isAbsolute |-> TRUE, path |-> path]

\* The refusals that need no path.
IsRefusedAtOnce(source, features) ==
    IF source.name = "file"
    THEN features \cap DirectoryPolicies = {}
    ELSE "OnlyFileSources" \in features

\* path::extension(): from the last dot, unless the name starts with it.
Extension(name) ==
    LET dot == Max({i \in DOMAIN name : name[i] = "."} \cup {0})
    IN  IF dot <= 1 THEN <<>> ELSE SubSeq(name, dot, Len(name))

Lowered(name) == [i \in DOMAIN name |-> LowerCase[name[i]]]

\* The extension is compared without regard to case.
HasRequiredSuffix(source, features) ==
    "RequireSuffix" \in features => Lowered(Extension(Last(source.path))) = FileSuffix

HasParentDirectory(parent) == parent.name = "file"

\* extractParentDirectory(): a parent that is no file has the empty path, which is only
\* let pass, for the moment, if any directory will do.
NeedsParentDirectory(parent, features) ==
    "AnyDirectory" \notin features => HasParentDirectory(parent)

\* Mutant: the path of the source is taken as it is.
SourcePath(fs, source) == source.path

\* The two halves of canonicalizePaths().  The empty path has no canonical form.
CanonicalSource(fs, source) == Canonical(fs, source.path)
CanonicalDirectory(fs, parent) == Canonical(fs, ParentPath(parent.path))
DirectoryExists(fs, parent) == HasParentDirectory(parent) /\ Exists(fs, ParentPath(parent.path))

\* requireSourceInParentDirectory() compares element by element.
IsInDirectory(sourcePath, directory) == IsPrefix(directory, ParentPath(sourcePath))
IsInSameDirectory(sourcePath, directory) == ParentPath(sourcePath) = directory

DirectoryIsPermitted(sourcePath, directory, features) ==
    \/ "AnyDirectory" \in features
    \/ /\ IsInDirectory(sourcePath, directory)
       /\ IF IsInSameDirectory(sourcePath, directory)
          THEN "SameDirectory" \in features
          ELSE "Subdirectories" \in features
=============================================================================
