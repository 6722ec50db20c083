# java-lsp in TLA+

java-lsp is a language server for Java written in Go. An editor talks to it over
stdin and stdout; it keeps the open documents, publishes diagnostics, answers
questions about code (definition, hover, completion, rename and so on), takes
Maven's word for the classpath, extracts sources from jars into a cache
directory, and writes what it parses to an embedded index. This directory holds
its specifications, the TLC configurations that check them, and proofs of their
safety properties for every value of the constants.

## The system

| part | source | state | operations | talks to |
|---|---|---|---|---|
| message loop, open documents | `internal/lsp/server.go`, `protocol.go` | `documents`, `notifications`, `workspaceRoots`, `shutdown` | one handler per method; `Serve` reads, handles, writes | the editor over two pipes; everything below by calls |
| resolver caches | `library_index.go`, `navigation.go` | `parsedTypes`, `workspaceImport`, `moduleStates`, `jdkIndex`: marker, channel and outcome per key | look up, wait, build, publish | `Serve` and the goroutine every `initialize` starts; `r.mu` |
| dependency and JDK sources | `navigation.go` | files under `os.TempDir()/java-lsp-navigation`, `sourceOrigins` | extract, decompile, register the origin | `mvn`, `javap`, jars; other java-lsp processes through the directory |
| JDK index file | `library_index.go` | `jdk-index.json` | read, list the zip, write | other processes through the file |
| workspace roots and rename | `workspace.go`, `server.go` | `workspaceRoots`; reads `documents` and the disk | local rename, workspace rename | the disk, which changes meanwhile |
| engine and index | `pkg/engine`, `pkg/storage` | class and reference keys | `Analyze`, `AnalyzeWorkspace`, `Write` | parser, plugin, Pebble |
| parser, plugin | `pkg/syntax/java`, `pkg/plugin/java` | none outside a call; slices within one | parse a body, generate getters | engine |
| navigation, type resolution, hover, completion, diagnostics, XML mappers | `navigation.go`, `hover_type.go`, `completion.go`, `diagnostics.go`, `java_bridge.go`, `xml_mapper.go` | none of their own | resolve a name in the document, search the files, read what was found | documents, caches, disk |
| signature help, words and receivers at the cursor, tokens | `signature_help.go`, `workspace.go`, `completion.go`, `navigation.go`, `analysis.go` | none | scans of a text | documents |
| configuration, command | `pkg/config`, `cmd/java-lsp` | none | start | |

What is hard here: the caches are shared by goroutines and nothing is ever
dropped from them; several processes (one per editor window) share one cache
directory that nothing locks, and an editor kills them at will; the disk changes
under a rename, under a walk and between the steps of a request, some of which
read the editor's text and some the file; the same question (what does this name
mean, what word is at the cursor) is answered by several functions; the server's idea of a document must
follow the editor's through opens, changes, renames and closes; the index is written and
never cleaned; and the parser reuses slices that its results still point into.
`PROJECT.json` lists these hazards at their lines.

What makes each part correct, in short: *loop*: after all messages the server
has what the editor has, and every request has its answer; *caches*: work done
once, one outcome for all, nobody waits for ever; *sources*: a file handed out is
whole and its origin known; *index file*: a process uses its own JDK's index;
*rename*: the right occurrences in the right files or nothing; *index*: classes
and references agree and say what the source says; *navigation*: a name means
what its own text imports, the features agree on it, and a place one request
leads to is a place the others know; *scans*: they agree on the word at the
cursor, and what they find follows what is typed.

## Modules

| module | models | state in the code |
|---|---|---|
| `OnceCells` | what the caches promise: work begun once, one outcome, delivered to all | - |
| `ResolverCache` | the single-flight protocol of the four caches, `Serve` and the prewarm goroutines | `status`, `outcome`, `channel` are a state's `status`, `value`/`err`, `wait`; `closed` the closed channels |
| `LspServer` | `Serve` and its handlers between two pipes, with the editor at the other end | `documents`, `notifications`, the response being written; `indexed` is the text last stored per uri, `unindexed` the uris whose last analysis failed, which the code does not remember |
| `DependencySources` | `materializeTypeSource` and below, in several processes over one directory | `files` the directory, `captured` the jar lists, `origins` is `sourceOrigins` |
| `JdkIndexFile` | `buildJDKIndex` in several processes over one file | `file`, and per process its zip, place and result |
| `JavaClasses` | pure: the member loop with its slices, the getters, the references | a heap of arrays for Go's slices |
| `IndexStore` | `Analyze`, `AnalyzeWorkspace`, `Store.Write` with failures and restarts; extends `JavaClasses` | `classes` and `references` are the keys of the store |
| `WorkspaceRename` | `handleRename` and all it calls | `documents`, `roots`, the disk (`disk` the files, `unlisted` the folders that cannot be listed), the request at hand, `folders` and `walk` what it has still to visit |
| `TypeNames` | pure: what type names, receivers and variables of a text mean, which class it declares and implements, its methods | - |
| `CompletionItems` | pure: the items of a completion list, their placeholders, scores and order; extends `TypeNames` | - |
| `Navigation` | requests about a position, step by step, diagnostics of unresolved types, edits and changing files; extends `CompletionItems` | `documents`, `disk`, `shared` is the root's `workspaceImport`, `parsed` is `parsedTypes`, `call` the request at work, `published` the diagnostics |
| `TextScan` | the functions that read a text character by character, on a text being typed | the document and the editor's cursor |
| `ResolverCacheProofs`, `LspServerProofs`, `DependencySourcesProofs`, `JdkIndexFileProofs`, `IndexStoreProofs`, `WorkspaceRenameProofs`, `NavigationProofs`, `TextScanProofs` | the theorems about the module of that name and what it extends | - |

`MC<module>.tla` gives constants their values. The definitions whose comment
begins "Mutant of" are plausible mistakes in the definition that follows them, and
no next-state relation uses them; `PROJECT.json` names the property each breaks.

How actions correspond to code. A lookup in `ResolverCache` is one
`Hit`/`Await`/`Install` per critical section of `r.mu`, and `Wake` and `Publish`
for what comes after the channel and after the work; the work itself (a walk,
`mvn`, a zip) is an outcome chosen when it ends. One lookup of a handler consults
keys in the order `hover` and `materializeTypeSource` do. In `LspServer` a
handler is one action, because `Serve` runs one at a time and nothing else
touches the documents; reads from and writes to the pipes are actions of their
own because the editor runs meanwhile. In `DependencySources` and `JdkIndexFile`
`os.WriteFile` is two steps, truncation and writing, since other processes and
kills come in between. An analysis succeeds or
fails, and a panic of the lexer ends the process wherever a text with the cause is
lexed. In `WorkspaceRename` every folder (`ListFolder`) and every file (`Visit`) of a
walk is an action, since the disk changes in between; each fails the rename if it
cannot be read. In `IndexStore` a file of the walk is read in
one action and committed in another; the batch is one commit. In `Navigation` a
request begins with the name resolved in the document's text (`AskPlace`,
`AskMeaning`, `AskCompletion`), which gives a goal; `Seek...`, `Locate` and
`FindSource` are one walk each, `ReadSource` reads what was found, and files may
change between any two of them. References take one walk and are one action. In
`TextScan` the only actions are the editor's: a character typed at the cursor,
and the cursor moved.

## Runs

Eight runs pass.

| run | bounds | what it shows |
|---|---|---|
| `resolver` | one key per cache, `Serve` and two prewarms, one value and the failure | `SingleFlight`, `Agreement`, `NoOrphanWait`, `SettledIsFinal`, `CallsReturn`, and that the protocol implements `OnceCells` |
| `lsp` | 2 uris, 3 texts of which one makes the lexer panic, analyses that fail, renames either way, 3 notifications, 2 requests, pipes of 1 message | documents and diagnostics follow the editor, and so does the index where the last analysis did not fail; answers come in order, from the right text, and come unless the server ends |
| `sources` | 2 processes (symmetric), 1 module, 1 jar with and without sources, a JDK type, a javax type of a dependency | `ReturnedFileWhole`, `ShownFileHasOrigin` |
| `jdk_index` | 2 processes, 2 JDKs of different index sizes and one without sources, 3 starts, one upgrade | `OwnIndexLoaded`, `BuildEnds` |
| `index_store` | 2 files, 1 class, all bodies of up to two members (of which two fields can have one getter, `x` and `X`) and one of three fields, 2 changes, 1 walk | classes and references agree after kills and failures, members are those declared, getters are justified |
| `rename` | 3 files in nested roots and a skipped directory, 3 folders, 2 texts, 2 changes of buffers, files or folders, unreadable ones included | `RenamesWorkspace`, `FailsWhole`, `LocalRenameStaysInMethod` |
| `navigation` | 3 files with 2 texts each, 2 workspaces to begin with, 4 library classes, 1 edited document, 1 changed file | `OwnImportsWin`, `FeaturesAgree`, `ImplementedWhereDeclared`, `LocatedIsReferenced`, `CompletionOrderStable` |
| `scans` | all texts of up to 5 characters over four alphabets (calls; member accesses; literals; comments and braces), every cursor | `CallFollowsTyping`, `OneReceiver`, `TokensTile`, `BracesAsTokens` |

Why the bounds are enough to be interesting. Three threads on a key make a
worker, a waiter and a late caller; one key per cache suffices because keys meet
only in the order a thread consults them, which the four cover, and the proofs
drop this bound. Three notifications hold every pair of document operations with
something before them, and pipes of one message make both sides wait. Two
processes suffice for every conflict over a file, since a conflict is one writer
against one other process. Two members share a slice and three outgrow one.
Three files are an interface, a class that implements it and a class both name;
their second texts move each to another package, so that the same simple name
means two classes, import it, or make it a name of a library. One of them has
`refind` above `find`, whose line is then found for `find`, and imports from a
package that is named as a field is. One edit and one change of a file put the
document, the file and the two caches at four different texts of one class.
Files and roots of a rename start as anything, folders as ones that can be
listed; two changes leave one of them closed, or a root gone, and a document
open. Five characters hold a call in a call with its comma (`f(a(,`, `a((),`), a
member access with something on either side, a literal with an escaped line end,
and a comment that is not closed.
`CHECK_DEADLOCK FALSE` stands where the system may stop: `lsp` (the
server exits), `jdk_index` and `index_store` (the bounds are used up).

Four runs are expected to be violated. Each quotes a sentence of the repository
that the code does not keep; `PROJECT.json` has the quotations.

| run | what happens |
|---|---|
| `origin_classpath` | a file two modules share remembers only the module that asked last |
| `every_getter` | `pendingAnnotations[:0]` keeps its array, so the next annotated member overwrites the annotations of the one before; `@Getter` is lost |
| `rename_scope` | an abstract method stays "pending" until the next body, whose range then begins at the abstract method. An `else if (x) {` on a line of its own looks like a method to the same expression |
| `workspace_types_found` | a class is found in the workspace by the word after "class ", which is `Box<T>` for a generic class, and by nothing for an enum: definition of it is an error, though the parser knows the class |

Seen while modelling, and not stated as properties: source jars are looked for
once, when mvn runs, so one downloaded later is not used and the class is
decompiled; there is one index file for all JDKs, and two JDKs in turn list their
zips again and again; the store deletes nothing, so that the reference of the
getter of a field that was renamed stays; an analysis that fails is logged and not
tried again before the next change; one file of the innermost root that cannot be
read makes every rename in it fail, also of names that only other files have.

### Fairness

`ResolverCache`: a goroutine that can step does (Go's scheduler), the mutex is
starvation-free (Go's `sync.Mutex` has a starvation mode), and the work of a
builder ends; `mvn` has no timeout, so for it this is an assumption. Nothing
makes the editor send anything. `LspServer`: the process runs, and the editor
reads what it is sent. `JdkIndexFile`: a process that runs gets on with its
build; it may be stopped at any point, and need not be. The other modules have
safety properties only; in `Navigation` that every request ends is a matter of
the caches (`CallsReturn`) and of the loop (`EveryRequestAnswered`).

## Proofs

Each `...Proofs` module proves `Spec => []P` for the type invariant and the
safety properties of its module, for any values of the constants under the named
assumptions. The plan is the same everywhere: an invariant `IInv`
that holds initially (`InitIInv`), that every action keeps (a lemma for each
action or group of actions, under it a step for each conjunct it can disturb),
and that implies the properties. Every `IInv` has been model-checked on
the instance of its run. Of the 40 properties of the passing runs 36 are theorems,
and of the refinement of `OnceCells` all but its fairness; the three that remain are
liveness properties.

| module | theorems | properties |
|---|---|---|
| `ResolverCacheProofs` | `TypeCorrect`, `SingleFlightCorrect`, `AgreementCorrect`, `NoOrphanWaitCorrect`, `SettledIsFinalCorrect`, `OnceCellsCorrect` | `TypeOK`, `SingleFlight`, `Agreement`, `NoOrphanWait`, `SettledIsFinal`, and the refinement of `OnceCells` without its fairness |
| `LspServerProofs` | `Invariant`, `TypeCorrect`, `Mirrored`, `Shown`, `Indexed`, `InOrder`, `FromBuffer` | `TypeOK`, `BuffersMirrored`, `DiagnosticsMirrored`, `IndexMirrored`, `AnsweredInOrder`, `AnsweredFromBuffer` |
| `DependencySourcesProofs` | `TypeCorrect`, `ReturnedWhole`, `ShownHasOrigin` | `TypeOK`, `ReturnedFileWhole`, `ShownFileHasOrigin` |
| `JdkIndexFileProofs` | `TypeCorrect`, `OwnIndex` | `TypeOK`, `OwnIndexLoaded` |
| `IndexStoreProofs` | `TypeCorrect`, `ReferencesKept`, `ReturnedPersisted`, `MembersListed`, `GettersAreJustified`, `LastGetterIsGenerated` | `TypeOK`, `MembersHaveReferences`, `ReturnedWasPersisted`, `MembersAsDeclared`, `GettersJustified`, `LastGetterGenerated` |
| `WorkspaceRenameProofs` | `TypeCorrect`, `RenamesAll`, `FailsAsAWhole`, `LocalRenames` | `TypeOK`, `RenamesWorkspace`, `FailsWhole`, `LocalRenameStaysInMethod` |
| `NavigationProofs` | `Invariant`, `TypeCorrect`, `OwnImports`, `Agree`, `ImplementedThere`, `Located`, `CompletionStable` | `TypeOK`, `OwnImportsWin`, `FeaturesAgree`, `ImplementedWhereDeclared`, `LocatedIsReferenced`, `CompletionOrderStable` |
| `TextScanProofs` | `OneReceiverAlways`, `CallFollowsTypingAlways`, `TokensTileAlways`, `BracesAsTokensAlways` | `OneReceiver`, `CallFollowsTyping`, `TokensTile`, `BracesAsTokens` |

### The arguments

*Caches.* `SingleFlight` needs that whoever works on a key has its marker in
place (`WorkerMarked`), or a second thread could install another one;
`NoOrphanWait` needs the converse (`MarkerHasWorker`), that the channel of
a settled key is closed (`SettledIsClosed`), or a thread could start waiting for
nobody, and that a waiter's number is that of a channel made
(`WaiterHasChannel`); `Agreement` needs that an open key has no outcome and
delivered none (`OpenIsEmpty`). Busy threads have a key to be at (`BusyHasKey`).
For the refinement the initial states map to initial states and every step to a
step of `OnceCells` or a stutter.

*Message loop.* What the properties say when nothing is on its way has to be
said while there is. `InTransit` says that there is a chain of editor states,
one before each message of the inbox and one after the last, such that
each message is what the editor sends when it goes from one to the next: the
chain begins with the documents the server has and ends with what the editor
has now. A second chain leads, message by message of the outbox and of
what the handler has queued, from what the editor shows to what it will show.
An action of the editor lengthens the first chain, the handling of a
message takes its first link and lengthens the second, a receipt takes
the first link of that (`SendingKeeps`, `HandlingKeeps`, `WritingKeeps`).
The index is carried by the same steps: it has every document the server has but
those in `unindexed`, since an analysis follows each change of `documents`.
`BatchMoves` is about the loop of `didRenameFiles`: moving the files of a batch
in turn is moving them at once.

*Cache directory.* A file's name says which jar and type it is of, and a
request chooses it from the classpath of its module; so whatever process wrote
it, the module recorded with it has the type in reach (`JobFromModule`,
`OriginFromModule`). That a file handed out was whole is kept by
every step of every other process but for the exceptions
`ReturnedFileWhole` names.

*Index file.* Nothing need be known of who wrote the file: what is loaded
from it was compared with the process's zip, and what is loaded from the
zip was listed by the process (`DraftFromZip`, `FileFromZip`).

*Index.* A class in the store is the snapshot of the body last committed for it
(`StoredIsLatest`); its references were written in the same batch. What a
snapshot says is proved for any body. After `n` members the slice of the
field that the `i`-th declares lies within its array, each of its cells
holds an annotation of a member from `i` to `n`, and if the members
after `i` have none it holds just the annotations of the `i`-th (`Holds`). A
later `append` writes where the slice looks, or into a new
array (`AppendOne`); either way the cells that change get an annotation of the
member at hand (`Grown`), which is what `Holds` allows. The getters are an induction
over the fields (`Generated`).

*Rename.* The files are read one by one while they may change, so the invariant
speaks of those nobody touched since the request came: each is out of scope,
still to be visited, or could be read and has exactly its positions recorded, and a
folder is out of scope, still to be listed, or could be (`WalkOnCourse`). So a walk
that ends has met nothing unreadable, and one that fails has met something. That the
innermost root is the longest one above the document needs that folders
above one file with the same length are the same (`InnermostRoot`). A rename
within a method covers a range that a scan of the text's braces recorded. The
scan looks at depths, and at lines that look like methods; the property at
the methods the text really has. `BodiesInPlace` says of a text where the two
meet: a line looks like a method if and only if it begins one, and the depth
is 2 or more after every brace of a body up to the one that closes it. From it
follows brace by brace (`BraceScanned`) and line by line (`LineScanned`)
that the scan has a method pending or active just when it is in one,
and that what it records are whole methods (`RangesAreMethods`).

*Navigation.* A goal that names a type its text imports is the class imported
(`OwnImport`), shown for every way a request forms a goal
(`DefinitionGoals`, `DeclarationGoals`, `ImplementationGoals`, `WordGoals`,
`DescriptionGoals`, `CompletionGoals`); the steps that follow keep
the goal or replace it by one without a name. What is published is what
`UnresolvedTypes` finds in the documents and files there are, from the moment it
is published until one of them changes (`Diagnosed`).
`LocatedIsReferenced` and `ImplementedWhereDeclared` relate an answer
to the answer of another request in the same state, so they come down to lemmas
about the operators: the line found for a member names it, and is then a line the
search of references counts, or names a longer member, and none above it does either
(`MemberLines`, `MemberPlaced`).

*Completion lists.* The code iterates over maps of fields and locals, whose order Go
leaves open, removes duplicates and sorts. A list is made of sections (fields,
locals, methods); what is shown of a section is a set that does not depend on
the orders (`TypeListing`, `ScopeListing`), though the items inserted do. Of the
items with one key the first is kept, and the first of each key looks the same in
either order (`FirstsAgree`). The comparison is total on the items that are left (score,
then label, then detail, which are the key), so two lists that show the same set, once
sorted, are alike (`SameLists`). `ListInv` carries this from one request to the next: each
answer comes from the line, the text and the workspace imports of its
request, and those imports are collected once and for all.

*Scans.* There is no invariant but the type of the text and the cursor; all is
about one text and one offset. Each loop is described by a relation that says what it has
computed after so many characters (`Depths` and `Open` for the backward search of
the open parenthesis, `Commas` for the count of the active parameter, `Read` and
`Counted` for a literal, `Tiles` and `Lexed` for the tokens so far, `Count` for the
braces), shown to hold at the start and to be kept by a step.
`CallFollowsTyping` relates two texts: to the left of the cursor they are the
same, and neither scan looks further right (`InvocationAgrees`); a character
typed changes the depth by what it is (`OpenParenthesisStep`,
`ActiveParameterStep`). That the two scans agree needs that the depth
counted backward from the cursor and the nesting counted forward from the
parenthesis are the same number (`NestedIsDepth`). `BracesAsTokens` counts the
braces among the characters and among the tokens, a token at a time.

Loops are functions defined by recursion over the position. That such a function
exists is proved by induction (`RunExists`, `MemberRunExists` and so on), with
`UpToBound`: a set of numbers takes the place of the predicate. The induction
theorems of the library have a predicate for a parameter and cannot be
used.

### What the proofs assume

The assumptions are named, and TLC evaluates them in every run. Most say that a
constant has its type, or that `None` is no member of a set. Those
that say more:

* `LspServerAssumption`: in a batch of renames no file is moved twice and none
  moves to where another one is or was (see Abstractions), and the results
  "disk", "error" and "empty" are not texts.
* `DependencyAssumption`: an archive has classes for its sources; what the JDK
  has is in its packages.
* `IndexStoreAssumption`: the files are a sequence, the bodies are sequences of
  members with sequences of annotations.
* `PathAssumption` of `WorkspaceRename`: paths and folders are sequences.
* `NavigationAssumption` and `TextAssumption`: the source of a library's class
  declares that class, and is no file of the workspace; a simple name is imported once
  in a text, which javac demands, and an import line is one of
  the imports.
* `CompletionAssumption` of `Navigation`: `Labels` and `Details` have whatever can be
  listed, types that are written the same are the same, and the score of a
  target's name is 0, 20 or 40. `ImportsAssumption`: `None` is no table of imports.
* `TextScanAssumption`: characters of identifiers are not blanks, braces, quotes or
  slashes.
* `LocalRenames` has the hypothesis that every text has its bodies in place, because
  the property is not true of all texts, as `rename_scope` shows.
  `MCWorkspaceRename` evaluates `BodiesInPlace`: it is true of the texts of `rename`
  and false of those of `rename_scope`.

### Model-checked only

* Liveness (`CallsReturn`, `EveryRequestAnswered`, `BuildEnds` and the fairness
  of `OnceCells`): out of the prover's reach.
* What the mutants and the four violated runs show.

## Abstractions

* A text is what its readers tell apart: in `LspServer` its diagnostics, in
  `IndexStore` one class and the members of its body, in `WorkspaceRename`
  lines of names and braces with no strings or comments. Annotations precede a
  member's modifiers. Columns are positions in the line's list of names.
* `LspServer`'s batches of renames are such that moving the files in turn is
  moving them at once (single files, or the files of a moved directory). Chains
  and swaps are listed as a hazard. The editor gives well-formed parameters.
* `RenamesWorkspace` speaks of the files on disk that did not change during the
  rename; a directory is listed once, when the walk begins. A request that finds
  nothing to rename, or no valid name, is `RefuseRename`.
* `DependencySources`: jars can be opened; those with a type in common have
  distinct base names; the JDK has `java.base.jmod`. `clash` and `opened` are
  history. A failed `javap` changes nothing and is left out.
* `LspServer`: which analyses fail is left open, and so is which file of the workspace
  has the text that makes the lexer panic: where there is such a text, whatever lexes
  files may meet it. `IndexMirrored` holds what the editor has against the
  index where the last analysis succeeded; that the next one that succeeds brings the
  document up to date is what it says of failures.
* `WorkspaceRename`: that a root is gone is a folder that cannot be listed. A root
  whose own name is that of a skipped directory is not walked, whether it is there or
  not; in the code it fails the rename if it is not there.
* `JavaClasses`: a member has one name. Of `int a, b;` the code keeps `b` alone, so that
  is the member such a declaration stands for.
* `IndexStore`: one process has the store, as Pebble's lock enforces.
  `AnalyzeWorkspace` is called by no command yet.
* `JdkIndexFile`: the text of an index is the longer the more entries it has, and
  two writes that overlap leave the longer text's end behind.
* `Navigation` has one workspace root, and its files are those the walk does not
  skip. A walk sees the files of one moment, all of which can be
  read. A line is what the regular expressions make of it, so the four kinds of
  lines without a declaration are statements being typed, and a place is a
  file and a line, 0 for that of the class. Names in a text are type names,
  without array brackets; a qualified name is a package and a name. The sources
  of libraries, found by `materializeTypeSource`, and the XML mappers are
  constants: how they are found, kept and shared is in `DependencySources` and
  `ResolverCache`. The cache `parsedTypes` keeps the text a file was parsed from,
  which is all that is read of it. Implementations are a set, their scores and order
  left out.
* `CompletionItems` has the labels and the details as two sequences in alphabetical order,
  and the relations of words that scores look at (prefix, containment, parts of
  the target's name) as constants. Detail texts are the types and names in them.
* `TextScan`: texts of one-letter characters, columns counted in characters, the
  lexer's columns left out. Space and newline are the only blanks. A method
  called format is the only one with a signature, as in `lookupSignature`.

### How the parts of navigation behave

The properties say what holds; some of the exceptions they make are worth
knowing to a reader of the code. All are in the model.

* A class is taken to implement an interface of the same simple name in another
  package (`sourceImplementsType`), and `splitTypeList` sees no superclass if
  there are interfaces. Neither sees an enum.
* `declarationsForMethod` reads the class header from the file, the rest of
  declaration reads the document.
* A name no document imports but some other file does, is that file's class to
  hover and completion and the own package's class to definition and diagnostics
  (the exception in `FeaturesAgree`).
* The line of a member is the first with its name and "(" in it: a call above the
  declaration, or a longer name that ends in the member's (`prefetch(` for `fetch`).
  The place answered may then be no reference of the member (the exception in
  `LocatedIsReferenced`); it is never below the declaration.
* On an import line completion takes the last part of the package for a receiver, so
  that a field or local of that name hides the imported class.
* Parameters of the last method and locals of all methods before are in scope.
* `parsedTypes` keeps what a file had when hover or completion first asked for
  it; after a change the file's class is the old one, and a file deleted between
  finding and reading it leaves an empty class.
* The item inserted for an argument that two locals fit equally changes from one
  request to the next.
* The prefix of completion includes what is right of the cursor. With the cursor
  after `)`, definition takes `)` for the receiver of what follows (`f().b`) and
  for the member of what is before (`a.)`).
* A comment that is not closed leaves the last character of the text as a token
  of its own; a literal that ends in a backslash reads past the text, and the
  lexer panics (`AnalyzesAndPublishes`, `DiskTextPanics` and `PrewarmPanics` in
  `LspServer`); lines after an escaped line end are off by one.

## Not modelled

`statementTerminatorDiagnostics` is a test of one line, and
`buildImportDiagnostics` repeats the error of `moduleForPath`, one of the
failures of `ResolverCache`. The parsing of a single member from its tokens
(`parseMethodInfo`, `parseFieldInfo`, `stripDecorators`) and of a parameter list
from a line (`parseCompletionParams`) yield what the models take as lines and
members. `LoadClass` and `ListClasses` only read, and the server does not call
them. The registry of parsers has one language. The configuration and the command
start things once. The types of `protocol.go` are the shapes of messages.

Hazards of the code that no module has: jars that cannot be opened, two jars of
one base name in a classpath, names in `javax` that are not the JDK's,
overloads that share a reference key, and a document without a file that is
renamed.

## Plan

Done, in this order: the caches with their abstract specification and proofs;
the message loop; the cache directory and the index file; parser, engine and
store; rename; type names, completion and navigation; the scans of a text; the
proofs of the safety properties, module by module.

Left: the parsing of a member from its tokens, over `TextScan`'s tokens.
