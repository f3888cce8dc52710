# Verification of the Erbsland configuration parser

TLA+ models of the parser library in `src/erbsland/conf/`, the TLC
configurations that check them, and theorems about its components that TLAPS
proves.  Paths below are relative to
`src/erbsland/conf/` of the repository.

    tlc -config MCParser.cfg MCParser.tla       # one run, see the table in section 3
    tlapm TokenDecoderProofs.tla                # the proofs of one component

## 1. The system

A call of `Parser::parse` turns a source into a tree of values.  The data flows
through a chain of objects that pull from each other:

    Source -> CharStream -> TokenDecoder -> Lexer -> AssignmentStream -> Parser -> DocumentBuilder -> Document
    (lines)   (characters)  (backtracking)  (tokens)  (assignments)      (includes)   (tree)            |
                                                                           |                             v
                                                   FileSourceResolver, FileAccessCheck      Rules -> DocumentValidator
                                                   (which files an include means)           (which documents are valid)

Everything runs in the thread of the caller.  There is no shared state between
threads; what makes the code hard is *order*: backtracking over characters that
were already consumed, errors that are found before it is their turn, two
coroutines of which one runs ahead, a stack of half-read documents, callbacks of
the application in between, exceptions at every place, two passes over a tree
that earlier passes have changed, and files that other programs change meanwhile.

| Component | State | Operations | Works with | What makes it correct |
|---|---|---|---|---|
| **Stream source** `impl/source/StreamSource` and its file and string variants | stream, block buffer with start and length, open flag | `open`, `atEnd`, `readLine`, `close` | called by CharStream; reads a file others may write | delivers exactly the lines of the stream, whatever the block boundaries; limits; the stream is released after every error |
| **Character stream** `impl/char/CharStream` | line buffer, read index, position, hash state | `next`, `captureTo`, `captureToEndOfLine`, `enableHash`, `digest` | StreamSource; TokenDecoder and Signer call it | only valid UTF-8 comes out; positions are those of the characters; the hash covers the content without the signature line and the mark |
| **Token decoder** `impl/decoder/TokenDecoder`, `Transaction` | current character, replay buffer, recording buffer, stack of transactions, delayed-error flag, capture start | `next`, start/commit/rollback, `createToken`, `createEndOfLineToken`, `throwSyntaxError` and others | CharStream; the lexer's scanners nest transactions | backtracking loses and swaps nothing; an error of the stream is reported when, and only when, its character is reached |
| **Name path decoder** `impl/decoder/FastNameDecoder` | buffer, two indexes, transactions | same promise as above | the name lexer | same promise; rollback is `noexcept` |
| **Lexer** and **value scanners** `impl/lexer/` | indentation pattern, the scanner functions of a coroutine | token generator | TokenDecoder | accepts the language and nothing else; a value means what was written |
| **Name lexer** `impl/lexer/NameLexer`, `NamePath`, `Name` | none | `toText`, `fromText`, `normalize` | FastNameDecoder, applications, rules | a path that is written can be read again, and means the same as in a document |
| **Assignment stream** `impl/assignment/` | section path, document area, which meta values were read | assignment generator | Lexer; Parser | every value gets the path its author meant; which values, sections and meta values may come when; errors name their source |
| **Parser** `impl/parser/` | stack of contexts, one per document; document builder | `parse` with its loop | AssignmentStream, resolver, access check and signature validator callbacks | bounded nesting; no source twice; order of includes; every source closed; signed documents verified |
| **Document builder** `impl/value/DocumentBuilder*` | the tree, the last section | `addSectionMap`, `addSectionList`, `addValue`, `reset` | Parser; also public API | one meaning of a name; well-formed lists; nothing is overwritten; a failed call adds no content |
| **Signer** `impl/sign/Signer.hpp` | digest, the two passes, the written file | `sign` | CharStream over the source, a signing callback, the destination file | a signature stands only in front of the text it belongs to |
| **Validation rules** `impl/vr/Rules*`, `Rule*` | rule tree, the position in a template, errors | read a rules document, test the definition | a parsed document | the rules are those that are written, templates unfolded and customized; no accepted definition makes the validator fail |
| **Document validator** `impl/vr/DocumentValidator*` | rule of each value, defaults, key indexes, "second pass needed" flags | `validate`, any number of times | rules, document | a document is accepted exactly if it conforms; defaults are those of the last validation |
| **Constraints**, **version mask**, **key index** `impl/vr/` | none, sorted ranges, sets of keys | test a value; set algebra; `tryAddKey`, `hasKey` | rules, validator | what a definition says of a value; set algebra up to the largest version; references find exactly the keys that exist |
| **File source resolver** `FileSourceResolver` | none | `resolve` | Parser, file system | an include means exactly the files that fit, in one order, up to a limit |
| **File access check** `FileAccessCheck` | policy | `check` | Parser, file system | a file is opened only if the policy allows its real place |
| **Value tree** `impl/value/Value*` | parent and child pointers | lookup, list and matrix conversion | Document builder, validator, application | lookup finds what was added |
| **Saturating arithmetic**, **time values**, **strings**, **hashes** | none | pure functions | all | limits of the types |

`PROJECT.json` lists these components with their source files and what is
modelled of each, and every hazard of the code with its line and the properties
that guard it.

## 2. Modules

| Module | Models | Role |
|---|---|---|
| `BacktrackCursor` | promise of both decoders | abstract: a position in a text and a stack of remembered positions |
| `TokenDecoder`, `TokenDecoderProofs` | `impl/decoder/TokenDecoder.*`, `Transaction.hpp` | implements `BacktrackCursor` |
| `FastNameDecoder` | `impl/decoder/FastNameDecoder.hpp` | implements `BacktrackCursor` |
| `LineReader` | promise of a source | abstract: the lines of a stream, one after the other |
| `StreamSource` | `impl/source/StreamSource.*` | implements `LineReader` |
| `CharStream` | `impl/char/CharStream.*`, `impl/utf8/U8Decoder.hpp` | lines to characters and hash |
| `Characters`, `Calendar` | `impl/char/Char*`, `impl/utilities/TimeHelper`, `Date`, `Time` | character classes; days of the calendar |
| `Scanners` | `impl/lexer/Value*.cpp`, `Number`, `Name`, `Text` | from a position to a token, pure |
| `Lexer` | `impl/lexer/Lexer.cpp`, `Core`, `Section`, `Value`, `ValueMultiLine` | from a document to its tokens, pure |
| `AssignmentStream` | `impl/assignment/*` | state machine on top of `Lexer` |
| `NameLexer`, `NamePaths` | `impl/lexer/NameLexer.hpp`, `NamePath`, `Name` | paths as texts; composed with `AssignmentStream` |
| `Parser`, `ParserProofs` | `impl/parser/Parser.hpp`, `ParserContext.hpp` | documents and includes |
| `DocumentBuilder`, `DocumentBuilderProofs` | `impl/value/DocumentBuilder*` | the tree and its rules |
| `Signer` | `impl/sign/Signer.hpp` | both passes and the written file |
| `SignatureProofs` | | the theorems of `CharStream` and of `Signer`, which both are about what a signature covers |
| `Constraints` | `ValueType.hpp`, `impl/vr/RuleType`, `Constraint.cpp` and its subclasses | types; what may limit a rule, which values pass |
| `VersionMask` | `impl/vr/VersionMask.hpp` | sorted ranges of versions |
| `Rules` | `impl/vr/Rule`, `RuleMap`, `Rules`, `RulesDefinitionValidator` | the tree of rules and the tests that it has to pass |
| `RulesFromDocument` | `impl/vr/RulesFromDocument*.cpp` | state machine: a document becomes rules, node by node |
| `RulesBuilder`, `RulesProofs` | `impl/vr/RulesBuilder.cpp` | composes the two: reading, then testing |
| `DocumentValidator`, `ValidatorProofs` | `impl/vr/DocumentValidator*.cpp`, `KeyIndex`, `Key`, `DependencyMode` | state machine: both passes, several validations |
| `FileSystem` | `std::filesystem`, external | paths, links, listing as POSIX leaves it open |
| `FileSourceResolver` | `FileSourceResolver.cpp` | an include text to a list of files |
| `FileAccessCheck` | `FileAccessCheck.cpp` | the decision about one file |
| `FileInclude`, `FileIncludeProofs` | the order of calls in `impl/parser/Parser.hpp`, `impl/source/FileSource` | composes both with a changing file system |
| `SaturationMath` | `impl/utilities/SaturationMath.hpp` | casts for integer types of every width |
| `ReadingProofs` | | the theorems of `StreamSource`, `FastNameDecoder`, `Calendar` and `SaturationMath` |

Each module with a state has an `MC` module that instantiates it for TLC.  Names of actions and
variables are those of the code in upper or lower camel case without the leading
underscore.  A definition that starts with *Mutant:* in its comment is a plausible
mistake in the definition that follows it; it is used by no specification.  Each
property of a run is paired in `PROJECT.json` with a mutation that breaks it.

### Token decoder

`document` is the text as a sequence of kinds of characters (an ordinary one, a
carriage return, a line break, an encoding error); a character is represented by
its index, so that "the right character in the right place" can be stated.
Every variable but `document`, `streamPos` and `thrown` is a member of the class.
The environment is the lexer, which may call anything in any order: the scanners of
`impl/lexer/` are a subset of that.  After an exception only the destructors of the
open `Transaction` objects run, innermost first, which is how C++ unwinds a stack.
`CommitTransaction` keeps the committed characters of the outermost transaction in
the buffer, as the code does; the next `start` of an outermost transaction begins
behind them.  The invariants `RecordedIsWhatPrecedes` and `ReplayIsWhatFollows`
therefore speak of the part of the buffer that belongs to open transactions.

`BacktrackCursor` has no buffers at all: `Advance`, `Begin`, `Commit`, `Rollback`.
Both decoders refine it, which is the formal version of "backtracking works".

### Stream source and character stream

A byte is a newline or another one, because nothing else matters to
`StreamSource`.  `ContentChanges` lets another program cut off or extend the file
between two reads of a block, never in a part that was read already.
`CharStream` knows the bytes that its decisions depend on: one-byte characters, lead
and continuation bytes, the mark, control characters and line breaks.  Its line
buffer keeps the bytes of earlier lines behind the end of a shorter one, as the
`std::array` in the code does.

### Lexer and scanners

What the lexer yields depends on the document only, so its coroutines are operators.
A scanner in `Scanners` answers for one position with a token, with `Nothing` (the C++
transaction is rolled back) or with `Error`; `Lexer` tries them in the order of the code
and threads the *progress* — position, tokens, indentation pattern, failure — through the
functions of `Core`, `Section`, `Value` and `ValueMultiLine`.  The characters are real
ones, because the order in which scanners are tried is the language: whether `12:30`
is a time or an integer with something wrong behind it is decided by a single character.

### Assignment stream

The lexer is always one token ahead of the stream:
`tokens` is what the lexer offers, `current` the index the stream has reached, and
`LexerIsClosed` says when the lexer has let go of its source.  One action per handler
(`Initialize`, `HandleMetaValue`, `HandleValue`, `HandleSection`, `SkipToken`,
`YieldEndOfDocument`); a value list or a matrix is read within one action as in the code.

Each document comes with its *meaning*: the assignments its author had in mind, or that it
breaks a rule.  The documents are composed of fragments whose meaning is known
independently of the scanners (`MCAssignmentStream`): a number is spelled from its value
in all bases, with all separators and suffixes; a multi-line text from its rows; a
sequence of sections, values and includes from its paths.  This is the reference
definition for the whole chain from characters to assignments.

`NamePaths` adds the other way in which names are read: by the name lexer, from path texts
in the code of an application.

### Parser

The stack holds one context per document that is being read *or waits to be read*.
A document is not a fixed text: each step draws the next assignment that an
assignment stream can yield in its state, up to `MaxAssignments`, and it may fail
instead.  The callbacks are set or not (`settings`) and answer anything.  One loop
iteration of the code is one action: initialization with its access check, open and
first assignment; one action per type of assignment; leaving a context with the
verification of its signature.  Every failing path ends in `Fail`, which closes all
contexts as the handler at `impl/parser/Parser.hpp:73` does.

Two history variables are kept beside the contexts, and no action reads them.  `documents` is what the stream of each source has
yielded so far: the text of its signature, the number of its assignments (which stands for the digest) and whether it ended.  `left` is the
last document that was left, with the data the validator accepted for it.  `SignatureIsVerified` compares the two, so
that it does not depend on what the context remembers: a signature that is lost, overwritten by that of an included document
or compared with another digest is a difference.

### Document builder

The tree is a function from paths to value types; an element of a list is a number
in the path.  One action per public operation, with the state in which a refused
call leaves the tree: intermediate sections that were created before the refusal
stay, as in the code.  Values have no content and sections no locations.

### Signer

Files are a text body, an optional signature and the flags that matter (mark,
placeholder, torn).  The steps of the function are separated by steps of the
world: the source is replaced, the program is stopped, a write fails.

### Rules

A rules document is a sequence of nodes in the order of declaration.  `work` is the rest of
the walk: nodes still to process and, behind the nodes of a template, the marker that
switches `templatePath` back and lets the using node customize its rule — in the code a
nested loop and three member variables that are set and reset around it.  The
rule tree is a sequence in which a rule knows the index of its parent.  `RulesBuilder`
then tests rule by rule, each after its parent, with the casts and assertions that
the tests contain; a failed assertion is the status `failed`.  The one assertion that can fail
(section 4) is in debug builds only: there the tests may end as `stopped`, elsewhere they go on.

### Document validator

The document is a sequence of values that each have a path, a type, a content, the rule that
was assigned, and whether they are a default.  `stack` holds the frames of the recursion,
so that a step is one value entered, left or skipped.  The first pass assigns rules and
adds defaults; the second runs only if the first set a flag, and it builds the key
indexes on the way down and drops them on the way up (`EnterValue`, `ExitValue`).  The
same document can be validated `MaxRuns` times with different versions: defaults and
rules of the earlier runs are still in it.  The reference definition
(`StructureConforms`, `KeysConform`, `DependenciesConform`) works without passes, stacks and
flags: it finds the rule of each value by its path.

An assertion that fails ends a validation in the phase `failed`: an index that is missing, a key
that is no text, an entry or a default without a place, a stack of indexes shorter than what a section
added to it.  Two rules can have one name (templates make them), so that a default stands beside the value of
the document; lookups by name then find the default (`NodeAt`), while the pass holds the value itself
(`OwnNode`).  `InstancesAssumption` says with what a validation starts: the rules
passed the tests of their definition, and the document is a tree without defaults.

### Files

`FileSystem` maps paths to files, directories and links, and follows links as the
operating system does.  The resolver's text processing is one step; the walk over the
directories is one step per entry, because other programs change files meanwhile
(`MaxChanges`); entries that appear or vanish in a directory that is already open may or
may not be listed.  `ListIsWhatIsMeant` has three parts: the order and length of the list (`ListIsInOrder`), the walk
against the files that fit the pattern (`WalkMissesNothing`), and the text of the include against a second reading of it.
The order is by directory, files first; two paths of which one leads through the other have none, because the list can
hold a file that was found before it became a directory (TLC finds that with three changes).

Whatever asks the file system is a step of its own, so that other programs may act between any two questions: for each path of a list its canonical
form (`CanonicalizePath`) and whether it is a file (`CreateSource`); in the access check the canonical path of the source
(`BeginCheck`) and that of the including document's directory (`CheckParent`), the size (`CheckSize`) and the comparison
(`CheckDirectory`); in `openStream` the canonical path (`BeginOpen`), the status (`CheckStatus`) and opening it (`OpenSource`).
A file that is replaced between its check and its opening is opened all the same: the code has no means to notice, and `OpenedIsPermitted`
promises nothing then (`stable`).

## 3. Runs

TLC finishes each in about two minutes or less.

| Run | Question | Bounds |
|---|---|---|
| `token_decoder` | Does backtracking at any nesting lose or swap a character, skip or hide a delayed error, or read behind an error? | every text of up to 4 characters, 3 nested transactions |
| `fast_name_decoder` | Does the index-based decoder keep the same promise, and can its `noexcept` rollback meet an encoding error? | every buffer of up to 5 bytes, 3 transactions |
| `stream_source` | Are exactly the lines delivered, across blocks and while the file changes? | up to 7 bytes, lines of up to 2, blocks of 3 |
| `char_stream` | Does the hash cover exactly the content, and does a document with an error never end normally? | every document of two lines of up to 3 bytes |
| `stream` | Is every document read as what its author wrote, and refused if and only if it breaks a rule of the language? Do names mean the same in documents and in path texts? | 8,768 documents of fragments, see below |
| `parser` | Whatever is included in whichever order, wherever it fails: bounded nesting, unique sources, order of includes, closed sources, every document verified with its own signature and digest, and an end? | 4 sources, nesting limit 3, 2 assignments per document, 2 signatures, 6 include lists (1.3 million states) |
| `document_builder` | After every sequence of calls, failing ones too: well-formed tree, nothing lost, names not mixed, relative values in the right section? | names `a`, `b`, a meta and a text name, paths of up to 3 names, 6 nodes |
| `signer` | Can a signature stand in front of a text that was not signed with it? Is anything but the destination written? | two valid texts, the empty and an invalid one |
| `rules` | Are the rules those of the definition, templates unfolded and customized? Can an assertion fail while they are tested? | every way to leave out nodes of four documents or to give them other values (2,220 definitions) |
| `validator` | Is a document accepted exactly if it conforms, also when it is validated again as another version? Can an assertion fail? | nine families of rules with every way to leave out values (2,135 instances), 2 versions, 2 validations |
| `files` | Does an include stand for the files it describes, and is nothing opened that the policy forbids, while the file system changes (a change of a file between its check and its opening excluded)? | every text of up to 3 characters and 28 longer ones, 17 paths, 1 change |
| `include_terminates` | expected violation, see *Findings* | as `files` |

Why the bounds are enough.

*Decoders:* the deepest interaction is a rollback into
characters that an inner transaction recorded and committed, while others wait to be
replayed.  It needs two nested transactions and two characters; the bounds leave room
for a third transaction and for a line break and an error behind them.
*Stream source:* two-byte lines against three-byte blocks let a line end before, at and behind
the end of a block, and seven bytes need three blocks.  *Character stream:* a lead byte
with its continuation, a cut-off character behind a longer line, and the mark followed
by a signature all fit in two lines of three bytes.  For all of them and for the parser and
the signer the theorems of section 5 have no bound.

*Stream:* limits are scaled down, so that both sides of each are reached by short texts:
`MaxInteger` 32767 with the digits that belong to it (16 binary, 5 decimal, 8 hexadecimal),
`MaxFloatDigits` 4, `MaxExponentDigits` 2, `FractionDigits` 3, `MaxNameLength` 10,
`MaxNamePathLength` 3, `MaxLineLength` 40 (for path texts).  Numbers are taken on both sides
of every power and limit, with each sign, prefix, separator and suffix; dates at the ends of
months and of cycles of 4, 100 and 400 years; each value at the end of the data, of a line and
before a comment.  All pairs of list elements around each separator, in one line and as
bullets; all pairs of rows of a multi-line value with their indentations, and triples of fewer rows;
and all sequences of three lines of a document out of values, sections, relative sections, meta values and includes: a relative
section needs one line to be relative to, and an include between the two is a third.

*Parser:* with one source more than may be nested, limit
and loop detection are both reached; lists of two sources, with the root and a
duplicate among them, produce waiting siblings on every level; two assignments allow
an include followed by a value, by a signature or by another include; two
signatures let the included document have another one than the including document.  *Builder:* one
name of each kind and a second regular one give siblings, a list inside a list and
mixing on every level; refusals depend on a node, its parent and one child.
*Signer:* a replaced source needs two texts.

*Rules:* the four families are templates (two of them, one using the other, customized in six
ways), keys, values with their limits and attributes, and structure with reserved names,
alternatives and dependencies.  A definition is refused for one reason, which needs at most
one node, its parent, and one node it refers to.  *Validator:* version `0` or `1` with
`MaxVersion` 2 (so that ranges end at, next to and before the largest version) and two
validations are what a stale default or rule needs; each family is one mechanism
(defaults, unvalidated branches, lists and matrices, alternatives, names, keys with
indexes of the same name on two levels, dependencies, stray rules, two rules of one name) with every
subset of the values it talks about.  Only rules that pass the tests of a definition (`AcceptsRule`) are used.

*Files:* a limit of 6 files against up to 8 that fit, two directories one of which sorts between the
other's name and its content, links to a file inside, to one outside and to themselves; one change
is enough, because between two steps any change looks like one, and what is asked twice (walk and
resolution, check and opening) is asked at two steps.  One file has a suffix in upper case, which the code takes for the same.

`CHECK_DEADLOCK FALSE` stands where the program really ends: a parse that returned or
failed, a reader that was closed, a decoder whose exception has left it, a finished
signature, definition, validation or include.  The builder can always be reset, and the
assignment stream says when it is `Finished`: both are checked for deadlock.

### Fairness

`ParseEnds` assumes weak fairness of the parse loop as a whole, which is
sequential code without a place to wait; callbacks are taken to return and sources to
end (`MaxAssignments`).  No fairness is assumed of a lexer, an application or a file system.
`TokenDecoder` states fairness of the rollback while an exception is unwinding the
stack: destructors run, nothing can stop them.  `UnwoundEventually` follows from it.

### Further properties

These are stated in the modules and hold; they are not part of a run because another property
that is, or a theorem, says more, and can be added to the `.cfg`: `TypeOK` of each module,
`RecordedIsWhatPrecedes` and `UnwoundEventually` (`MCTokenDecoder`), `IndexesAgree`
(`MCFastNameDecoder`), `NoLogicError` and `FailureAddsNoContent` (`MCDocumentBuilder`),
`AssertionsHold` and `StreamIsReleased` (`MCStreamSource`), `PositionIsOfCharacter` (`MCCharStream`), `AcceptedRulesPass` (`MCRulesBuilder`).

Others state what the documentation says and the code does not do (section 4); adding one to the
named module's `.cfg` yields the counterexample: `LooseValueIsRejected` (`MCParser`, a `PROPERTY`),
`TextNamesHaveNoSubSections` (`MCDocumentBuilder`), `CutOffIsNotReturned` (`MCCharStream`),
`ProblemsAreReported` and `WrittenDigestIsSigned` (`MCSigner`), `KeyTypesAreResolved` (`MCRulesBuilder`), `RootDependenciesHold`
(`MCDocumentValidator` with `Instances <- MCRootDependencies`).

## 4. Findings

One finding has a run of its own:

**`include_terminates`** — `SourceResolver.hpp:33` promises that `resolve` returns a list or throws
an `Error`.  `FileSourceResolver::removeFileProtocol` (`FileSourceResolver.cpp:86`) is `noexcept` and
throws if the text starts with a `file:` protocol that is not enabled; `FilenamePattern::matches`
(line 68) is `noexcept` and asks for a regular file, which throws for a link that leads to itself.
Both end in `std::terminate`.

### Where code and documentation differ

With a property of section 3 that shows it:

1. `impl/assignment/AssignmentStream.hpp:33` says that after `@include` the context is
   reset, "so no value or relative section is allowed after it".  The stream resets its
   own path, but yields a value with only a name, which the builder then adds to the
   last section: the one the *included* document ended with.  (`LooseValueIsRejected`)
2. `impl/value/DocumentBuilderStorage.cpp:204` refuses sub sections below a
   text name only where a map is added; a section list as intermediate element passes.
   (`TextNamesHaveNoSubSections`)
3. `impl/char/CharStream.cpp:75` decodes in the whole line buffer, not in
   the part the current line fills.  A multi-byte character that the end of the data
   cuts off is completed with bytes an earlier, longer line left behind, and is
   returned (`CutOffIsNotReturned`).  The document is refused all the same (`EndMeansValid`, proved): the
   index then lies behind the end of the line and can never come back to it, so that the end of the
   document is not reached and a later call throws at the zero behind all lines.
4. `sign()` never looks at the output stream; it returns normally
   if the destination could not be opened or written.  (`ProblemsAreReported`)
   A wrong signature cannot come of it (`SignatureFitsText`, proved).
5. For a source with a byte order mark and no signature line the
   signed digest covers the mark; the written document has none, so a parser computes
   another digest.  (`WrittenDigestIsSigned`)
6. Dependencies at the root are only checked if something else starts the second pass:
   `impl/vr/DocumentValidator.cpp:50` sets the flag for keys, not for dependencies, although the
   tests (`VrDependenciesTest.cpp:34`) say that they may appear there.  (`RootDependenciesHold`)
7. The types of the values that a key leads to are collected over the alternatives of their rule
   (`RulesDefinitionValidator.hpp:58`: "Resolve all possible types").  The assertion that there is one
   ("Unexpected alternative without matching types.") stands inside the loop (`RulesDefinitionValidator.cpp:547`), so it
   fails unless the first alternative is a text or an integer.  A Boolean before a text passes the test of the key, which
   asks for any alternative (line 418), and then a debug build ends in an internal error when a rule refers to the key.
   A release build accepts the definition.  (`KeyTypesAreResolved`)

### Observed while modelling

The models do what the code does in each of these places; the properties are stated so that they
say where it matters.

*Reading.*
`impl/decoder/TransactionHandler.hpp:42` says that a committed transaction's characters are dropped;
those of the outermost one stay in the buffer (harmless: the next transaction begins behind them).
`impl/decoder/TokenDecoder.hpp:72` says that the check for a delayed error throws when the current character carries the error mark;
`TokenDecoder.cpp:48` throws whenever the flag is set, also after a rollback to an earlier character (the model follows the code).
Behind a byte order mark the first column is counted one too high (`impl/char/CharStream.cpp:36`).
A backslash in front of a line break is accepted in a single-line regular expression
(`impl/lexer/Text.cpp`).  `ninf`, `nainf` and `-NaInf` are read as infinity (`impl/lexer/ValueFloat.cpp`).
Seventeen hexadecimal digits with a leading zero are accepted at the end of the data only.
The lexer accepts `[]`, `[a.]` and text behind a closing `"""`; the stream refuses them.
A relative section can lead to a path of more names than the limit
(`impl/assignment/AssignmentStream.cpp:469`).  Errors of the stream after the lexer was closed have
no location (`impl/assignment/AssignmentStream.cpp:158`); assignments always have one
(`LocationsNameTheSource`).

*Names.*
In a path text `a[]` reads as index 0, a blank text as a path with one empty name, and there is no
limit of names; `"x"[0]` is refused.  A text name with a control character, which a document can
have, prints to a text that cannot be read back.  `Name::createRegular` accepts `@_a` and `@ a`, which
the lexer refuses.

*Documents.*
The loop message of `impl/parser/Parser.hpp:231` also appears for a source that merely waits on
the stack as a sibling.  The same meta value can be added at the root more than once; the later one
takes the name (`impl/value/DocumentBuilder.cpp:129` looks into the last section only).  Signing in place
empties the source before its second pass; the function then notices the difference, but the text is
gone.  A failure in the middle of writing leaves a placeholder signature.

*Files.*
`/a.elcl` and `/**/x` are resolved relative to the including document's directory, also where absolute
paths are disabled (`FileSourceResolver.cpp:146`, `FileSourceResolver.hpp:31`).  Any include of a source
that is no file is refused even with `AnyDirectory`, because `canonical("")` fails.  `x.*.elcl` matches
`x.elcl`.  `file_size` may throw a `filesystem_error`, which is no `Error` (`FileAccessCheck.cpp:63`).  `FileSource::openStream` makes
the stream throw for `badbit` only, so that a file that cannot be opened is noticed at its first line (`impl/source/FileSource.cpp:51`; the
model's outcome `error` is the same).  A file
that a link makes appear twice in a list is refused as a loop.  If the including document is itself a
link, the resolver starts in the directory of its target, the access check compares with that of
the link.

*Rules and validation.*
- The entries of a list or matrix that is one of several alternatives are never validated
  (`impl/vr/DocumentValidator.cpp:70`); keys and dependencies that are declared inside an alternative do not start
  the second pass; the name
  constraints of an alternative are not checked; an optional first alternative makes the
  defaults of later ones unreachable; alternatives that are all inactive in a version are an error
  whether the value is there or not.
- A scalar in place of a list, and the cells of a matrix, are not checked for key references.
- The defaults of an earlier validation stay if the rules have no children, or below a branch
  that is not validated now.
- Two kinds of rules pass the tests of a definition although nothing can be meant by them (`HasStrayRules`), and only with
  these can an assertion fail.  A rule below one for a scalar: if it has a default, the validation ends in a `logic_error`.
  An alternative `NotValidated`: it is treated like any other rule, so that the entries of a list that falls under it have no
  rule, which is an assertion, and the second pass leaves out what is below it.
- A composite key whose elements contain commas is not found by its
  text (`impl/vr/KeyIndex.cpp:162`); paths of keys and dependencies use escaped names.
- `Name::isReservedValidationRule` (`Name.cpp:46`) is also true for escaped names.  A template's child and an own
  subsection with the same name become two rules, of which the one that was added first hides the other
  from lookups (`CustomizationsWin` speaks of the last one); for the validator the second one is always missing, and its
  default hides the value of the document from references and dependencies.  Templates that contain lists of keys or
  dependencies fail (`impl/vr/RulesFromDocument_nodes.cpp:90`).
- `impl/vr/MatchesConstraint.cpp:39` ignores the negation.  Size limits do not apply to intermediate sections.
  `absInt` overflows for the smallest integer (`impl/vr/MultipleConstraint.cpp:19`).  Rows of a matrix that are scalars
  count as one column at one place and none at another.

## 5. Proofs

The theorems hold for every value of the constants that the named assumptions allow; TLC evaluates these
in the runs.  The proofs about a state machine have the same parts: facts about
the operators of its module, the inductive invariant `Inv`, one lemma per action, the theorem that `Inv` is
invariant, and the theorems that follow from it.  Two modules hold more than one component:
`ReadingProofs`, where the invariant of the name path decoder is `DecoderInv`, and `SignatureProofs`, where that of the signer is
`SignerInv`.

| Module | Theorem | Statement |
|---|---|---|
| `TokenDecoderProofs` | `TypeCorrect`, `InvIsInvariant` | types, and the inductive invariant |
| | `BacktrackingLosesNothing` | what was recorded precedes, what was put back follows the current character, one by one |
| | `ErrorIsAnnounced` | a delayed error is pending exactly while its mark is the last character read from the stream |
| | `NothingReadBehindError` | no step reads the stream behind an error |
| | `NothingHidesDelayedError` | no other exception replaces a delayed error |
| | `TokenDecoderImplementsCursor` | `Spec` implements `BacktrackCursor` |
| | `CaptureIsInLine` | the text that waits to be captured lies in the line the stream holds |
| `ReadingProofs` | `RollbackNeverThrows` | every remembered index stands at a character |
| | `FastNameDecoderImplementsCursor` | `SpecDecoder` implements `BacktrackCursor` |
| | `StoredDateIsReadBack` | year, month and day of every date survive the conversion to days and back |
| | `SaturatingCastIsNearest`, `OverflowIsAnnounced` | casts between integer types of any width clamp, and say so exactly if they do |
| | `EveryByteIsDelivered` | what was delivered and what is buffered is the stream up to the read position |
| | `AssertionsNeverFail` | the assertions of the code hold |
| | `StreamSourceImplementsLineReader` | `Spec` implements `LineReader` |
| `SignatureProofs` | `ContentIsHashed` | the hash covers every line behind the signature line and nothing else |
| | `EndIsValid` | a document that is read to its end has no encoding error |
| | `SignaturesFit` | a signature never stands in front of another text |
| | `SignedTextIsWritten` | what a successful call wrote is what was signed |
| | `OthersAreLeftAlone` | nothing but the destination is written, and nothing before the signature was given |
| `ParserProofs` | `NestingStaysBounded` | the level of a document is the number of documents open around it, and below the limit |
| | `NoSourceTwice` | no two contexts read one source |
| | `OrderOfIncludes` | documents of one include are read in the order of the resolver |
| | `EverySourceIsClosed` | a source is open only while its context is on the stack |
| | `SignaturesAreVerified` | a document is left only when it was read to its end and accepted with the signature that stands in it and its own digest |
| `DocumentBuilderProofs` | `NamesNeverMix` | a section has regular names or text names below it, never both |
| | `TreeStaysWellFormed` | lists and sections contain what they may, and nothing lacks the element around it |
| | `LastSectionLeadsToItself` | the last section exists, and its name path leads to it |
| | `AssertionsNeverFail` | the logic errors of the code are never thrown |
| | `NoElementIsLost` | a step keeps every element and its kind, except that an intermediate section becomes a regular one |
| | `FailuresLeaveNoContent` | a refused call leaves nothing but intermediate sections behind |
| `FileIncludeProofs` | `OnlyPermittedIsOpened` | what is opened is permitted behind all links, and what is permitted and still there is not refused |
| | `SourcesAreGrouped` | the sources of an include are grouped by directory, files first, and not more than the limit |
| `RulesProofs` | `RulesAreReadInOrder` | the inductive invariant of reading a definition |
| | `DefinitionIsCovered` | one rule for each section, for those of templates at every place of use, and no other |
| | `ParentsComeFirst` | no section is read without a rule for the section around it |
| | `CustomizationIsKept` | the rule of a node that uses a template has the node's constraints and those of the template that it does not override |
| | `NothingIsUntested` | rules are accepted only when each of them has passed the tests |
| | `NoAssertionFails` | no assertion fails while rules are tested, but for that of `KeyTypesAreResolved` |
| `ValidatorProofs` | `ValidatorAsserts` | no assertion fails while documents are validated, if no rule is where it cannot be meant |

*Token decoder.*  Assumption: `DocumentsAssumption` (documents are sequences of the four kinds).
None of the invariants is inductive alone.  A rollback moves the end of the
recording buffer, reversed, onto the replay buffer.  That this leaves the replay buffer
in order needs that the recording *precedes* the current character without a gap
(`RecordedIsWhatPrecedes`), that the replay *follows* it (`ReplayIsWhatFollows`), and that
transaction starts are ordered and inside the buffer (`TransactionsAreNested`, which is only
stated for the proof).  That the flag `hasUpcomingError` is cleared and set at the right time
needs `UpcomingErrorIsAhead`, because the flag belongs to the stream position while the
decoder may stand anywhere before it.  `Inv` is the conjunction with `TypeOK`.
The refinement follows from `Inv` step by step:
reading is `Advance`, starting and committing are `Begin` and `Commit`, and a rollback
is `Rollback` because the first recorded character of a transaction is its remembered position.
`CaptureIsInLine` needs more than `Inv` (`CaptureInv`): before the first character there is neither a capture nor
a transaction to return to, because the first character is read outside of both.

*Name path decoder.*  Assumption: `BuffersAssumption` (a sequence of the kinds of bytes).  `RollbackDecodes` needs that a
transaction is only ever started at a character that was decoded (`IndexesAgree`: the two indexes
stand at the current character and behind it).  The refinement maps an index to the number of characters
that begin before it; stepping over one character changes this number by one, which is a fact
about the cardinality of a set of positions.

*Stream source.*  Assumptions: contents are sequences of bytes and newlines; the buffer is larger than
the longest line (`BufferAssumption`, which `impl/constants/Limits.hpp` guarantees).  `Inv` relates what was delivered, the
block and the stream (`NothingIsSkipped`, `BufferIsBlock`), the open flag and the phase of a read (`Lifetime`),
and the part of a line that was copied before its rest is looked for in the next block
(`CopiedIsOneLine`: it holds no newline).  The last one is what makes the delivered text *one* line in the refinement,
and what fails if a line is continued in a third block; `BufferAssumption` excludes that.

*Character stream.*  Assumption: a source delivers lines of `1..MaxLineLength` bytes (what `StreamSource` implements).
`EndIsValid` needs that all bytes in front of the index are known to be valid *or* the index has passed the end of
the line for good (`LineIsLoaded`); `ContentIsHashed` needs that the line number is zero exactly until the first line is
read (`LinesAreCounted`), which is not obvious because a byte order mark resets the position.

*Parser.*  Assumptions: the resolver returns sequences of sources, the limit is positive, texts of signatures are neither empty nor other assignments.  The stack mixes
contexts that are read with contexts that wait, so that every property speaks of a subset of it.  `StackInv` says of any
stack that it is nested, unique and ordered; it is shown to survive the four ways in which a stack changes (an element is
initialized, changed at the top, removed from the top, a list is pushed).  Order needs
uniqueness and nesting: the rank of a context in its include's list is only comparable to that of its siblings, and those of
another include of the same document are gone before it is read on.  `SignaturesAreVerified` needs that what each
context has read agrees with what the stream of its source has yielded (`Agrees`): a signature that was yielded is
still in front of the parser or is the text of that context, and the context's number is that of the document.  This holds of every context
of the stack while others are read above it, because no two of them share a source, and one that waits has an unread source
(`Recorded`).

*Signer.*  Assumption: `BodiesAssumption` (some text is invalid, a torn one is none of the texts).
`Inv` adds to the properties which phase has written what: a real signature is only written after both digests were
compared, and the placeholder is never a real one.

*Calendar.*  For all years; a year is split into its cycles of 400, 100 and 4 years, and the first year of each kind of cycle
is followed through both conversions.  *Saturating arithmetic.*  For integer types whose sizes double, as those of C++ do
(`DoublingHalves`); the code compares limits after converting them to the source type, and the proof shows that
each limit that is compared fits.

*Document builder.*  Assumptions: `NamesAssumption` (text names, regular names and list numbers differ) and
`BoundsAssumption`, for any bounds.  `Inv` is `Sound(tree)` — well-formed, and names not mixed — together with
`Resolved(tree, lastSection)`.  A call walks along a name path and creates what is missing, so that the proof goes
from one step of the walk to the next: each keeps the tree sound and makes a *later* tree of it (`Later`: elements and
their kinds are kept, and no list gets another element).  Well-formedness needs names not to be mixed, because the
kind of a section tells which names may be added to it.  That the last section is still reached by its names needs
`Later`, because the name of a list leads to its last element; a list only gets another element by a call that makes
that element the last section. `NothingIsLost` and `FailureAddsNoContent` are action properties and follow from the
same walks.

*Files.*  Assumptions: `FileSuffixAssumption` (the suffix begins with its only dot), `LowerCaseAssumption` (the dot is the lower case of
itself only, and the suffix is in lower case), `NamesHaveNoSlash`, and
`CharactersAreOrdered` (different characters have different codes).  Between the steps of a check the
file system may be anybody's; `Inv` therefore keeps what each question was answered (`IsChecked`, `IsSmall`, `IsNear`)
on the condition `stable`, that nothing was changed since the first of them.  The property speaks of directories and
of the text behind the last dot, the code searches its way through relative paths and names: the proofs show that both
mean the same (`DirectoryMeans`, `ExtensionIsSuffix`, `LoweredExtension`).  The path that is opened is resolved once more, and equals
the checked one if nothing was changed (`IsOpening`); that it has a name at all needs that the resolver only finds paths below the root
(`PathsAreFound`, `RootIsNoFile`). `Lookup` follows links for at most `MaxSteps` steps, as
operating systems do.

`SourcesAreGrouped` is about an order that is not that of the paths as texts: a path is split into elements, a directory
keeps its slash, and an element without one comes first.  The comparison is shown to be a lexicographic order over a
lexicographic order, each strict because the one below it is (`LexicalOrderIsStrict`, used twice, `SortOrderIsStrict`); this needs
that no name contains a slash, or a file could be taken for a directory.  The stable insertion puts a path behind all those
it is not less than, so that the list is in order (`SortedInOrder`).  That an ordered list is *grouped* is a property of any two of
its paths and every path between them: they leave their common directory at the same element (`BetweenIsBelow`).

*Rules.*  Assumption: `DefinitionsAssumption` (a rules document is a tree without two nodes of one path, in which a
node comes after the section it lies in, a section list has elements and no values, and the texts of a key are paths;
that is how a document comes out of the builder, see `TreeStaysWellFormed`, and how the name lexer reads texts).  Each node is read either where it stands or, if it lies in a template, once for each
place where the template is used, while it must not use another one.  `Inv` says of the work that is left that it is
ordered (nodes of the template before its end marker, all others behind it), that each waiting node has the rule it
goes below, or that node waits in front of it (`IsSupported`), that what lies in a node of a template waits behind it
(`HasChildrenBehind`), and that nothing is forgotten: the paths of the rules, of the waiting nodes and of what waiting
nodes will bring in from templates are together those of the definition (`NothingIsForgotten`).  The only exception is
an entry of a list of keys in a template: nobody adds a rule for that list, but the entry is refused as soon as it is
its turn, so that no such definition is ever read.  The refusal of a template inside a template is needed as well:
`templatePath` has room for one place of use only.

`CustomizationsWin` speaks of the constraints of two nodes that were merged by a fold which may fail.  A fold is followed
step by step (`FoldOnTheWay`, `FoldKeeps`): after each value the rule has one constraint for each type that was
written up to there, with the place it comes from (`KindsOfValues`).  The invariant `CustomizedSoFar` divides the nodes that use
a template.  One is waiting, or its template is being read, and then its rule has the
template's constraints (`IsMerged`); or it is done, and then the *last* rule with its path has what is expected, and no
later step may add a rule of that path.  That none does is the difficult part: the nodes of a template are moved strictly
below the place of use, and nodes of the document are read in their order (`OwnEntriesAreOrdered`), in which a section
comes before what lies in it (`SectionComesFirst`).

`RulesAreTested` is the invariant of the tests.  It needs that every rule that was read is sound: it has a type, its limits
have the class that this type calls for, and its keys are paths (`IsSound`, kept by every step of reading).  While rules are
tested there is a set of rules that have passed (`IsTested`): the parent of each of them has passed, each rule below
one of them has passed or is on the stack, and so is the root; parents of what is on the stack have passed.  So a rule
whose reference is resolved finds its key at a rule that has passed (`SectionIsTested`), and the test of that key has walked
to the list, its entry and the value, where the resolution walks from the section to the value in one go
(`WayThroughEntry`: both ways end at one rule).  With an empty stack every rule has passed, by the length of its path.

*Validator.*  Assumption: `InstancesAssumption` (the rules have passed their tests, which is what `NothingIsUntested` proves
of those that are read; the document is a tree without defaults).  `IsOnTheWay` is the invariant of a validation of rules
without stray ones.  In the first pass (`FirstPass`) each value of the document is settled, with the rule that leads to it from
that of the section around it (`IsSettled`), or lies at or below a frame of the stack, and no two frames
lie below each other.  With an empty stack all values are settled, which the second pass needs:
what it asks of a value's rule is what the first pass found, not what earlier validations left.  In the second pass
(`SecondPass`) the frames that were entered are the sections around the value (`SectionIsAround`, `SectionsAreOpen`), and the indexes
are theirs, one after the other: the indexes below a frame and those that it added are still there when it is left
(`HoldsIndexes`).  So a reference, whose rule was tested against the keys of the rules around it, finds the index of a section
around its value (`IndexesAreThere`), and a key that leads through a list finds its entries and its texts.  The
invariant must know that removing and adding defaults, assigning a rule, and marking a branch leave the tree of the document's
own values alone.

*Model-checked only.* `ParseEnds` and `UnwoundEventually`, because liveness under fairness is beyond the prover. The
properties of the assignment stream and of `NamePaths`: the lexer uses recursive operators, which the prover cannot
treat in any module that reaches them, and what it computes for all documents would need induction over data, which is
out of its reach, too. The
three other properties of the validator (`AcceptedConforms`, `RejectedForReason`, `DefaultsAreCurrent`) have no proof: they compare
two passes over a changing document with a definition of validity that knows neither.  Of `ListIsWhatIsMeant`, the order and the length are proved; the completeness of the walk and the reading of the
text are left to TLC.

## 6. Not modelled

- The **value tree**'s lookup and conversions: `Value`, `ValueTreeHelper`.  `DocumentBuilder` models the
  tree as it grows, `DocumentValidator` the default values in it.
- The **characters outside ASCII** in the lexer (all are treated alike), rounding of floating-point numbers,
  regular expressions (a set of texts stands for one), and floating-point tolerance.
- The list of **features** that `@features` may name.
- **Error messages**, titles, descriptions and secrets, and the wording of anything.
- The **Keccak permutation**: the hash is modelled as the sequence of lines that went in; its test vectors cover it.
- **Strings** and their formatting, differences of **times**, editing and comparing of **name paths**: pure functions without state.
- The **coroutine machinery** of `Generator.hpp`; how it is driven is part of `Parser` and `AssignmentStream`.
- The saturating results of **addition and multiplication** (only when they overflow).
- **Exceptions of the standard library** such as exhausted memory, and callbacks that throw anything but `Error`.
- Reads of the **content of included files** by other programs' writes beyond what `StreamSource` models; encodings of file names.

## 7. Plan

Done: all components of the path from a stream to a valid document, and theorems for every one of them up to the tree, for
the files, for reading and testing rules, and for the assertions of the validator.  What would add most from here:

1. `AcceptedConforms`, for every document: the invariant of both passes (`ValidatorInv`) says which rule each value has; what is
   missing is that the indexes hold the keys of the entries, and that no value is left out by the second pass.
2. The interval algebra of `VersionMask`, for every mask.
3. Compose `AssignmentStream` with `DocumentBuilder`: a document as a sequence of assignments with full paths, on which
   the builder's refusals and the stream's are compared.
4. `Value` lookup by path, with the list and matrix conversions, against the tree of `DocumentBuilder`.
5. Saturating addition and multiplication for every width, with theorems next to those of the casts.
