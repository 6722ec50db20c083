------------------------------ MODULE Navigation ------------------------------
(***************************************************************************)
(* The requests about a position of a Java document (internal/lsp,         *)
(* navigation.go, hover_type.go, completion.go), over one workspace root:  *)
(* the name under the cursor is resolved to a class in the text the editor *)
(* has, the class is looked for in the files on disk, then in the          *)
(* libraries, and what is said of it comes from the file or, for hover,    *)
(* type definition and completion, from what was parsed of the file when   *)
(* it was asked for first.  Diagnostics resolve names the same way, when a *)
(* document is opened or changed.                                          *)
(*                                                                         *)
(* The lines of a text have a kind, those of the last four statements that *)
(* are being typed:                                                        *)
(*   field, local  name, type                                              *)
(*   method        name, returns, params (a sequence of [name, type]),     *)
(*                 static                                                  *)
(*   import        class                                                   *)
(*   type          name, a type on its own, as in "new C("                 *)
(*   value         name, a variable                                        *)
(*   access        receiver, member: receiver.member(                      *)
(*   scope         prefix: the beginning of a name                         *)
(* and lines of the last two kinds a target (see CompletionItems).         *)
(*                                                                         *)
(* A request takes several steps, between which files may change: its name *)
(* is resolved, a walk finds the class, the found file is read.  A walk    *)
(* sees the files of one moment here.                                      *)
(***************************************************************************)
EXTENDS CompletionItems

CONSTANTS
  Files,       \* the .java files there can be, in the order of a walk: a sequence
  TextsOf(_),  \* the texts a file can have
  Workspaces,  \* bound: the disks to begin with
  Library,     \* class name |-> the text of its source, for the classes
               \* materializeTypeSource finds
  Mappers,     \* the statements of XML mappers: a set of [class, method]
  LastSegment(_), \* the last part of a package's name
  EndsIn(_, _), \* a name is longer than a member's and ends in it
  None,
  MaxChanges,  \* bound: changes of files
  MaxEdits     \* bound: changes of open documents

File == ToSet(Files)
Texts == UNION {TextsOf(f) : f \in File}

ASSUME NavigationAssumption ==
  /\ MaxChanges \in Nat /\ MaxEdits \in Nat
  /\ \A c \in DOMAIN Library : ParsedClass(Library[c]) = c
  /\ File \intersect DOMAIN Library = {}
  /\ None \notin Texts
  /\ \A d \in Workspaces : d \in [File -> Texts \union {None}] /\ \A f \in File : d[f] \in TextsOf(f) \union {None}

(* A text has sequences where the comments of TypeNames say so, and one    *)
(* import for a simple name.                                               *)
ASSUME TextAssumption ==
  \A t \in Texts \union {Library[c] : c \in DOMAIN Library} :
    /\ t.lines \in Seq(ToSet(t.lines))
    /\ t.extends \in Seq(ToSet(t.extends)) /\ t.implements \in Seq(ToSet(t.implements))
    /\ Empty \notin DOMAIN t.imports
    /\ \A l \in DOMAIN t.lines :
         t.lines[l].kind = "import" =>
           /\ t.lines[l].class.name \in DOMAIN t.imports
           /\ t.imports[t.lines[l].class.name] = t.lines[l].class
    /\ \A l \in DOMAIN t.lines :
         t.lines[l].kind = "method" => t.lines[l].params \in Seq(ToSet(t.lines[l].params))

(* What is parsed of a file that is gone. *)
EmptyText ==
  [package |-> Empty, imports |-> <<>>, annotations |-> {}, name |-> Empty, heading |-> Empty,
   interface |-> FALSE, extends |-> <<>>, implements |-> <<>>, lines |-> <<>>]

(* Labels and Details have the labels and details of everything that can   *)
(* be in a completion list; of two fields whose types are written the same *)
(* the types are the same.                                                 *)
ASSUME CompletionAssumption ==
  /\ Labels \in Seq(ToSet(Labels)) /\ Details \in Seq(ToSet(Details))
  /\ \A t \in Texts \union {Library[c] : c \in DOMAIN Library} \union {EmptyText} :
       LET Shown(label, detail) == label \in ToSet(Labels) /\ detail \in ToSet(Details)
       IN /\ \A f \in DOMAIN Fields(t) : Shown(f, VariableDetail(Fields(t)[f]))
          /\ \A f, g \in DOMAIN Fields(t) :
               Fields(t)[f].written = Fields(t)[g].written => Fields(t)[f] = Fields(t)[g]
          /\ \A order \in SetToSeqs(DOMAIN Fields(t)) : \A m \in ToSet(Methods(t, order)) :
               Shown(m.name, MethodDetail(m))
          /\ \A l \in DOMAIN t.lines :
               /\ \A n \in DOMAIN Locals(t, l) : Shown(n, VariableDetail(Locals(t, l)[n]))
               /\ t.lines[l].kind \in {"access", "scope"} /\ t.lines[l].target # NoTarget
                  => \A m \in ToSet(Labels) : TargetScore(m, t.lines[l].target.name) \in {0, 20, 40}

VARIABLES
  disk,       \* file |-> its text, or None
  documents,  \* s.documents: file |-> the text of the open document, or None
  shared,     \* workspaceImport of the root, or None until it is collected
  parsed,     \* parsedTypes: file |-> the text it was parsed from, or None
  published,  \* file |-> the unresolved names last published for it
  current,    \* the open documents diagnosed since a file changed last
  call,       \* the request at work, or None
  answer,     \* the answer given last, or None if anything changed since
  previous,   \* the answer before, if it was a list for the same request
  changes, edits

vars == <<disk, documents, shared, parsed, published, current, call, answer, previous, changes, edits>>
caches == <<shared, parsed>>
editor == <<documents, published, current>>
------------------------------------------------------------------------------
(* The files.  documentText is the open document, else the file. *)
DocumentText(f) == IF documents[f] # None THEN documents[f] ELSE disk[f]

(* workspaceLocationForTypeDeclaration: the files that declare a class, of *)
(* which the iteration of a map picks one.                                 *)
Declaring(d, class) ==
  {f \in File : d[f] # None /\ ~DeclaresNothing(d[f]) /\ DeclaredClass(d[f]) = class}

(* typeExists *)
Exists(d, class) == Declaring(d, class) # {} \/ class \in DOMAIN Library

(* collectWorkspaceImports: what the files import, the first file of the   *)
(* walk wins.                                                              *)
CollectWorkspaceImports(d) ==
  LET Imports(all, f) == IF d[f] = None THEN all ELSE all @@ d[f].imports
  IN FoldLeft(Imports, <<>>, Files)

(* None stands for imports that were not collected, and is no imports. *)
ASSUME ImportsAssumption == \A d \in [File -> Texts \union {None}] : CollectWorkspaceImports(d) # None

SharedImports == IF shared # None THEN shared ELSE CollectWorkspaceImports(disk)
------------------------------------------------------------------------------
(* Diagnostics: unresolvedTypeDiagnostics. *)

(* The types a line declares something with. *)
DeclaringTypes(line) ==
  CASE line.kind \in {"field", "local"} -> {line.type}
    [] line.kind = "method" -> {line.returns} \union {line.params[i].type : i \in DOMAIN line.params}
    [] OTHER -> {}
NamesIn(types) == UNION {ToSet(type.names) : type \in types}

(* The names of types on a line. *)
NamesOn(line) ==
  CASE line.kind = "type" -> {Word(line.name)}
    [] line.kind = "import" -> {Word(line.class.name)}
    [] OTHER -> NamesIn(DeclaringTypes(line))

(* Those that are looked at: an import only if its class is not found. *)
TypeNamesOn(d, line) ==
  IF line.kind = "import" /\ Exists(d, line.class) THEN {} ELSE NamesOn(line)

UnresolvedTypes(d, t) ==
  {p \in UNION {{l} \X TypeNamesOn(d, t.lines[l]) : l \in DOMAIN t.lines} :
     ~(p[2].package = Empty /\ p[2].name \in Builtin) /\ ~Exists(d, ResolveTypeName(t, p[2]))}
------------------------------------------------------------------------------
(* Places in files: the line of a location, 0 being that of the class. *)
FirstLine(t, Is(_)) ==
  LET lines == {l \in DOMAIN t.lines : Is(t.lines[l])} IN IF lines = {} THEN 0 ELSE Min(lines)

(* The names before a "(" on a line. *)
Called(line) ==
  CASE line.kind = "access" -> {line.member}
    [] line.kind \in {"method", "type"} -> {line.name}
    [] OTHER -> {}

(* findMemberLine: the first line that contains the name and "(", a call   *)
(* or a longer name included: prefetch( for fetch.                         *)
MemberLine(t, member) ==
  FirstLine(t, LAMBDA line : \E name \in Called(line) : name = member \/ EndsIn(name, member))

(* findIdentifierLocations: whether a name is on a line. *)
Targets(line) == IF line.kind \in {"access", "scope"} THEN {line.target} \ {NoTarget} ELSE {}
Mentions(line, name) ==
  LET types == DeclaringTypes(line) \union {target.type : target \in Targets(line)}
  IN \/ \E n \in NamesIn(types) : n.name = name
     \/ \E target \in Targets(line) : target.name = name
     \/ CASE line.kind = "access" -> name \in {line.receiver, line.member}
          [] line.kind = "import" -> name = line.class.name
          [] line.kind = "scope" -> name = line.prefix
          [] line.kind = "method" -> name = line.name \/ \E i \in DOMAIN line.params : line.params[i].name = name
          [] OTHER -> name = line.name

(* Mutant of References: the lines that declare the method are those that  *)
(* are asked for.                                                          *)
ReferencesInverted(d, name, includeDeclaration) ==
  {p \in UNION {{f} \X DOMAIN d[f].lines : f \in {g \in File : d[g] # None}} :
     LET line == d[p[1]].lines[p[2]]
     IN Mentions(line, name) /\ (includeDeclaration => ~(line.kind = "method" /\ line.name = name))}

(* workspaceReferences: the occurrences in the files on disk, less, if so  *)
(* asked, the lines that declare the method.                               *)
References(d, name, includeDeclaration) ==
  {p \in UNION {{f} \X DOMAIN d[f].lines : f \in {g \in File : d[g] # None}} :
     LET line == d[p[1]].lines[p[2]]
     IN Mentions(line, name) /\ (includeDeclaration \/ ~(line.kind = "method" /\ line.name = name))}

(* workspaceImplementationsForTypeMember, over the files on disk but for   *)
(* the requesting document.                                                *)
Implementations(d, file, text, class, member) ==
  LET docs == [d EXCEPT ![file] = IF @ = None THEN None ELSE text]
  IN {<<f, MemberLine(docs[f], member)>> :
        f \in {g \in File : docs[g] # None /\ SourceImplementsType(docs[g], class)}}

(* declarationsForMethod: the first of the types the file on disk names    *)
(* that is found anywhere.                                                 *)
DeclaredIn(d, file) ==
  IF d[file] = None THEN NoName
  ELSE LET supers == SplitTypeList(d[file])
           found == {i \in DOMAIN supers : Exists(d, ResolveTypeName(d[file], supers[i]))}
       IN IF found = {} THEN NoName ELSE ResolveTypeName(d[file], supers[Min(found)])

(* Where a class is: the files that declare it, else its source in the     *)
(* libraries, else nowhere.                                                *)
PlacesOf(d, class) ==
  IF Declaring(d, class) # {} THEN Declaring(d, class) ELSE {class} \intersect DOMAIN Library
TextAt(d, place) == IF place \in File THEN d[place] ELSE Library[place]

(* implementationsForTypeMember: the sources of libraries that have the    *)
(* member and implement the class.                                         *)
LibraryImplementations(class, member) ==
  {<<c, MemberLine(Library[c], member)>> :
     c \in {e \in DOMAIN Library : MemberLine(Library[e], member) # 0 /\ SourceImplementsType(Library[e], class)}}
------------------------------------------------------------------------------
(* What a request looks for.  A goal is a step, the class it is about, the *)
(* member of it, and, for the properties, the name that was resolved and   *)
(* the text it was resolved in.                                            *)
Goal(step, class, member, named, from) ==
  [step |-> step, class |-> class, member |-> member, named |-> named, from |-> from]
NoMember == Empty

(* The word at the cursor of a line, a receiver or member aside. *)
WordOn(line) == Word(IF line.kind = "import" THEN line.class.name ELSE line.name)

(* methodSymbolAtPosition: the name of a method, in a text whose class is  *)
(* found.                                                                  *)
IsMethodSymbol(t, line) == line.kind = "method" /\ ~DeclaresNothing(t)

(* The goal for the class of a receiver, an error if it is not resolved. *)
ReceiverGoal(t, receiver, step, member) ==
  LET class == ResolveReceiverType(t, receiver)
  IN Goal(IF class = NoName THEN "error" ELSE step, class, member,
          IF class \in {NoName, Logger} THEN NoName ELSE Fields(t)[receiver].written, t)

(* definition *)
DefinitionGoal(t, line, focus) ==
  IF line.kind = "access"
  THEN IF focus = "receiver" THEN ReceiverGoal(t, line.receiver, "declaration", NoMember)
       ELSE ReceiverGoal(t, line.receiver, "member", line.member)
  ELSE IF IsMethodSymbol(t, line)
  THEN Goal("mappers", DeclaredClass(t), line.name, NoName, t)
  ELSE Goal("declaration", ResolveTypeName(t, WordOn(line)), NoMember, WordOn(line), t)

(* declaration *)
DeclarationGoal(t, line, focus) ==
  IF IsMethodSymbol(t, line) THEN Goal("supers", DeclaredClass(t), line.name, NoName, t)
  ELSE DefinitionGoal(t, line, focus)

(* implementation: of a method, or of a member of a receiver. *)
ImplementationGoal(t, line, focus) ==
  IF IsMethodSymbol(t, line)
  THEN Goal(IF t.interface THEN "implementations" ELSE "member", DeclaredClass(t), line.name, NoName, t)
  ELSE IF line.kind = "access" THEN ReceiverGoal(t, line.receiver, "implementations", line.member)
  ELSE Goal("error", NoName, NoMember, NoName, t)

(* The goal for a word: a variable's class for typeDefinition, a value for *)
(* hover, and otherwise a type.                                            *)
WordGoal(op, t, l, sh) ==
  LET n == WordOn(t.lines[l])
      step == IF op = "hover" THEN "type" ELSE "declaration"
      v == ValueType(t, l, n.name)
  IN IF IsValue(t, l, n.name)
     THEN Goal(IF op = "hover" THEN "value" ELSE step, ResolveTypeNameWithWorkspace(t, sh, v), NoMember, v, t)
     ELSE Goal(step, ResolveTypeNameWithWorkspace(t, sh, n), NoMember, n, t)

(* hover and typeDefinition *)
DescriptionGoal(op, t, l, focus, sh) ==
  LET line == t.lines[l]
      r == ResolveReceiverTypeWithWorkspace(t, l, sh, line.receiver)
      named == CASE r.kind = "type" -> Word(line.receiver)
                 [] r.kind = "value" /\ IsValue(t, l, line.receiver) -> ValueType(t, l, line.receiver)
                 [] OTHER -> NoName
  IN IF line.kind = "access"
     THEN IF r.kind = "unresolved" THEN Goal("error", NoName, NoMember, NoName, t)
          ELSE IF focus = "receiver"
          THEN Goal(IF op = "hover" THEN "type" ELSE "declaration", r.class, NoMember, named, t)
          ELSE Goal("type", r.class, line.member, named, t)
     ELSE IF IsMethodSymbol(t, line) THEN Goal("type", DeclaredClass(t), line.name, NoName, t)
     ELSE WordGoal(op, t, l, sh)

(* completionTargetAtPosition: what is before the last dot, on an import a *)
(* part of the package.                                                    *)
CompletionReceiver(line) ==
  IF line.kind = "import" THEN LastSegment(line.class.package) ELSE line.receiver
TypePrefix(t, l) == IF t.lines[l].kind = "access" THEN t.lines[l].member ELSE NoMember

(* completionAtPosition: the members of a receiver, else of what a text    *)
(* imports, else the scope's.  What does not resolve gives the empty list. *)
CompletionGoal(t, l, sh) ==
  LET line == t.lines[l]
      r == ResolveReceiverTypeWithWorkspace(t, l, sh, CompletionReceiver(line))
      simple == line.class.name
      imported == IF simple \in DOMAIN t.imports THEN t.imports ELSE sh
  IN CASE line.kind = "scope" -> Goal("scope", NoName, NoMember, NoName, t)
       [] line.kind # "scope" /\ r.kind # "unresolved" -> Goal("type", r.class, TypePrefix(t, l), NoName, t)
       [] line.kind = "import" /\ r.kind = "unresolved" /\ simple \in DOMAIN imported ->
            Goal("type", imported[simple], NoMember, Word(simple), t)
       [] OTHER -> Goal("empty", NoName, NoMember, NoName, t)

(* Whether the members offered are a value's or a type's. *)
ReceiverKind(t, l, sh) ==
  LET line == t.lines[l]
      r == ResolveReceiverTypeWithWorkspace(t, l, sh, CompletionReceiver(line))
  IN IF line.kind = "import" /\ r.kind = "unresolved" THEN "value" ELSE r.kind
------------------------------------------------------------------------------
Init ==
  /\ disk \in Workspaces
  /\ documents = [f \in File |-> None]
  /\ shared = None
  /\ parsed = [f \in File |-> None]
  /\ published = [f \in File |-> {}]
  /\ current = {}
  /\ call = None /\ answer = None /\ previous = None
  /\ changes = 0 /\ edits = 0

(* A request begins: its goal is found in the document's text.  The answer *)
(* before it was taken, or was to the same request.                        *)
Begins(request, t, goal) ==
  /\ answer # None => answer.request = request
  /\ call' = [request |-> request, text |-> t, goal |-> goal, path |-> None]
  /\ previous' = IF answer # None /\ answer.request = request /\ answer.result.kind = "list"
                 THEN answer ELSE None
  /\ answer' = None
  /\ UNCHANGED <<disk, editor, parsed, changes, edits>>

Asked(op, f, l, focus) == [op |-> op, file |-> f, line |-> l, focus |-> focus]

At(f, l, kinds) ==
  /\ call = None /\ DocumentText(f) # None
  /\ l \in DOMAIN DocumentText(f).lines /\ DocumentText(f).lines[l].kind \in kinds

Words == {"field", "local", "method", "import", "type", "value"}
Foci(line) == IF line.kind = "access" THEN {"receiver", "member"} ELSE {"word"}

(* definition, declaration and implementation know the imports of the      *)
(* document only.                                                          *)
AskPlace(f, l) ==
  /\ At(f, l, Words \union {"access"})
  /\ LET t == DocumentText(f)
     IN \E focus \in Foci(t.lines[l]) :
          \/ Begins(Asked("definition", f, l, focus), t, DefinitionGoal(t, t.lines[l], focus))
          \/ Begins(Asked("declaration", f, l, focus), t, DeclarationGoal(t, t.lines[l], focus))
          \/ Begins(Asked("implementation", f, l, focus), t, ImplementationGoal(t, t.lines[l], focus))
  /\ UNCHANGED shared

(* hover, typeDefinition and completion collect the workspace's imports if *)
(* that has not happened yet.                                              *)
AskMeaning(f, l) ==
  /\ At(f, l, Words \union {"access"})
  /\ LET t == DocumentText(f)
     IN \E focus \in Foci(t.lines[l]) : \E op \in {"hover", "typeDefinition"} :
          Begins(Asked(op, f, l, focus), t, DescriptionGoal(op, t, l, focus, SharedImports))
  /\ shared' = SharedImports

AskCompletion(f, l) ==
  /\ At(f, l, {"access", "import", "scope"})
  /\ LET t == DocumentText(f)
     IN Begins(Asked("completion", f, l, "word"), t, CompletionGoal(t, l, SharedImports))
  /\ shared' = SharedImports

(* The prewarm goroutine of initialize, at any time. *)
Prewarm ==
  /\ shared = None
  /\ shared' = CollectWorkspaceImports(disk)
  /\ UNCHANGED <<disk, editor, parsed, call, answer, previous, changes, edits>>
------------------------------------------------------------------------------
(* The steps of a request. *)
Replies(result) ==
  /\ call' = None
  /\ answer' = [request |-> call.request, goal |-> call.goal, text |-> call.text, result |-> result]
Proceeds(goal) == call' = [call EXCEPT !.goal = goal, !.path = None] /\ UNCHANGED answer
Locations(places) == [kind |-> "locations", locations |-> places]
Nothing(kind) == [kind |-> kind]

AtStep(steps) == call # None /\ call.goal.step \in steps
Stays == UNCHANGED <<disk, editor, shared, previous, changes, edits>>

(* Goals that need no file: errors, empty lists, the value of a variable.  *)
Reply ==
  /\ AtStep({"error", "empty", "value"})
  /\ Replies(Nothing(call.goal.step))
  /\ Stays /\ UNCHANGED parsed

(* definition on a method: the statements of its XML mapper, or itself. *)
SeekMappers ==
  /\ AtStep({"mappers"})
  /\ IF [class |-> call.goal.class, method |-> call.goal.member] \in Mappers
     THEN Replies(Nothing("mappers"))
     ELSE Proceeds([call.goal EXCEPT !.step = "member"])
  /\ Stays /\ UNCHANGED parsed

(* declaration on a method: in the type it is declared in, else in its own *)
(* class, else as definition.                                              *)
SeekSupers ==
  /\ AtStep({"supers"})
  /\ LET g == call.goal
         super == DeclaredIn(disk, call.request.file)
         places == IF super = NoName THEN PlacesOf(disk, g.class) ELSE PlacesOf(disk, super)
     IN IF places = {} THEN Proceeds([g EXCEPT !.step = "mappers"])
        ELSE \E p \in places : Replies(Locations({<<p, MemberLine(TextAt(disk, p), g.member)>>}))
  /\ Stays /\ UNCHANGED parsed

(* implementation: in the workspace, else in the libraries, else where the *)
(* member itself is.                                                       *)
SeekImplementations ==
  /\ AtStep({"implementations"})
  /\ LET g == call.goal
         own == Implementations(disk, call.request.file, call.text, g.class, g.member)
         libraries == IF call.text.lines[call.request.line].kind = "access"
                      THEN LibraryImplementations(g.class, g.member) ELSE {}
     IN IF own # {} THEN Replies(Locations(own))
        ELSE IF libraries # {} THEN Replies(Locations(libraries))
        ELSE Proceeds([g EXCEPT !.step = "member"])
  /\ Stays /\ UNCHANGED parsed

(* locationForTypeDeclaration, locationForTypeMember *)
Locate ==
  /\ AtStep({"declaration", "member"})
  /\ LET g == call.goal
         Line(p) == IF g.step = "member" THEN MemberLine(TextAt(disk, p), g.member) ELSE 0
     IN IF PlacesOf(disk, g.class) = {} THEN Replies(Nothing("error"))
        ELSE \E p \in PlacesOf(disk, g.class) : Replies(Locations({<<p, Line(p)>>}))
  /\ Stays /\ UNCHANGED parsed

(* typeInfoForType: the source of the class is found first. *)
FindSource ==
  /\ AtStep({"type"}) /\ call.path = None
  /\ IF PlacesOf(disk, call.goal.class) = {} THEN Replies(Nothing("error"))
     ELSE \E p \in PlacesOf(disk, call.goal.class) : call' = [call EXCEPT !.path = p] /\ UNCHANGED answer
  /\ Stays /\ UNCHANGED parsed

(* What was parsed of a file is kept for good; a file that is gone when it *)
(* is read is parsed as an empty text.                                     *)
InfoOf(path) ==
  IF path \notin File THEN Library[path]
  ELSE IF parsed[path] # None THEN parsed[path]
  ELSE IF disk[path] # None THEN disk[path] ELSE EmptyText

(* hover: the method, or the type if a receiver has no such method, or the *)
(* word if a method of the text is not in its file.                        *)
Describe(info) ==
  LET g == call.goal
      r == call.request
      methods == MethodsNamed(Methods(info, SetToSeq(DOMAIN Fields(info))), g.member)
  IN IF g.member = NoMember THEN Replies([kind |-> "type", class |-> ParsedClass(info)])
     ELSE IF methods # <<>> THEN Replies([kind |-> "method", method |-> Head(methods)])
     ELSE IF r.focus = "member" THEN Proceeds([g EXCEPT !.member = NoMember])
     ELSE Proceeds(WordGoal("hover", call.text, r.line, shared))

(* typeDefinition of a method: what it returns, by the imports of the file *)
(* it was parsed from.                                                     *)
DescribeReturnType(info) ==
  LET methods == MethodsNamed(Methods(info, SetToSeq(DOMAIN Fields(info))), call.goal.member)
      n == Head(Head(methods).returns.names)
      class == ResolveTypeNameWithWorkspace(info, shared, n)
  IN IF methods = <<>> \/ class = Word("void") THEN Replies(Nothing("empty"))
     ELSE Proceeds(Goal("declaration", class, NoMember, n, info))

(* The completion list of a class or of the scope, for all the orders in   *)
(* which its maps may be iterated.                                         *)
Context ==
  LET line == call.text.lines[call.request.line]
  IN [text |-> call.text, line |-> call.request.line,
      target |-> IF line.kind = "import" THEN NoTarget ELSE line.target]
LocalNames == DOMAIN Locals(call.text, call.request.line)
List(info, items) == [kind |-> "list", info |-> info, items |-> CompletionList(items)]

ListMembers(info) ==
  LET kind == ReceiverKind(call.text, call.request.line, shared)
  IN \E fields \in SetToSeqs(DOMAIN Fields(info)), locals \in SetToSeqs(LocalNames) :
       Replies(List(info, ItemsForType(Context, info, kind, call.goal.member, fields, locals)))

ListScope ==
  /\ AtStep({"scope"})
  /\ LET prefix == call.text.lines[call.request.line].prefix
     IN \E fields \in SetToSeqs(DOMAIN Fields(call.text)), locals \in SetToSeqs(LocalNames) :
          Replies(List(call.text, ItemsForCurrentScope(Context, prefix, fields, locals)))
  /\ Stays /\ UNCHANGED parsed

(* typeInfoForType, parseTypeInfoFromSource: the file found is read, if it *)
(* was not parsed before, and the request goes on with what is in it.      *)
ReadSource ==
  /\ AtStep({"type"}) /\ call.path # None
  /\ LET info == InfoOf(call.path)
     IN /\ \/ call.request.op = "hover" /\ Describe(info)
           \/ call.request.op = "typeDefinition" /\ DescribeReturnType(info)
           \/ call.request.op = "completion" /\ ListMembers(info)
        /\ parsed' = [f \in File |-> IF f = call.path THEN info ELSE parsed[f]]
  /\ Stays

(* references, at once: a search of the files on disk. *)
AskReferences(f, l) ==
  /\ At(f, l, Words \union {"access"}) /\ answer = None
  /\ LET line == DocumentText(f).lines[l]
         name == IF line.kind = "access" THEN line.member ELSE WordOn(line).name
     IN \E includeDeclaration \in BOOLEAN :
          answer' = [request |-> Asked("references", f, l, "word"), text |-> DocumentText(f),
                     goal |-> Goal("references", NoName, name, NoName, DocumentText(f)),
                     result |-> Locations(References(disk, name, includeDeclaration))]
  /\ previous' = None
  /\ UNCHANGED <<disk, editor, caches, call, changes, edits>>
------------------------------------------------------------------------------
(* The editor and the disk. *)
Forgets == answer' = None /\ previous' = None

(* The editor takes the answer. *)
TakeAnswer ==
  /\ answer # None /\ Forgets
  /\ UNCHANGED <<disk, editor, caches, call, changes, edits>>

(* Mutant of EditDocument: diagnostics are those of the file. *)
EditDocumentChecksDisk(f) ==
  /\ call = None /\ edits < MaxEdits
  /\ \E t \in TextsOf(f) :
       /\ documents' = [documents EXCEPT ![f] = t]
       /\ published' = [published EXCEPT ![f] = UnresolvedTypes(disk, DocumentText(f))]
       /\ current' = current \union {f}
  /\ edits' = edits + 1 /\ Forgets
  /\ UNCHANGED <<disk, caches, call, changes>>

(* didOpen, didChange: the document is diagnosed. *)
EditDocument(f) ==
  /\ call = None /\ edits < MaxEdits
  /\ \E t \in TextsOf(f) :
       /\ documents' = [documents EXCEPT ![f] = t]
       /\ published' = [published EXCEPT ![f] = UnresolvedTypes(disk, t)]
       /\ current' = current \union {f}
  /\ edits' = edits + 1 /\ Forgets
  /\ UNCHANGED <<disk, caches, call, changes>>

(* Mutant of CloseDocument: the diagnostics stay. *)
CloseDocumentOnly(f) ==
  /\ call = None /\ documents[f] # None
  /\ documents' = [documents EXCEPT ![f] = None]
  /\ Forgets
  /\ UNCHANGED <<disk, published, current, caches, call, changes, edits>>

(* didClose: no diagnostics are left. *)
CloseDocument(f) ==
  /\ call = None /\ documents[f] # None
  /\ documents' = [documents EXCEPT ![f] = None]
  /\ published' = [published EXCEPT ![f] = {}]
  /\ current' = current \ {f}
  /\ Forgets
  /\ UNCHANGED <<disk, caches, call, changes, edits>>

(* A file is written, created or deleted, at any time. *)
ChangeFile(f) ==
  /\ changes < MaxChanges
  /\ \E t \in TextsOf(f) \union {None} : t # disk[f] /\ disk' = [disk EXCEPT ![f] = t]
  /\ current' = {}
  /\ changes' = changes + 1 /\ Forgets
  /\ UNCHANGED <<documents, published, caches, call, edits>>

Ask(f) ==
  \E l \in UNION {DOMAIN t.lines : t \in TextsOf(f)} :
    AskPlace(f, l) \/ AskMeaning(f, l) \/ AskCompletion(f, l) \/ AskReferences(f, l)

Next ==
  \/ \E f \in File : Ask(f) \/ EditDocument(f) \/ CloseDocument(f) \/ ChangeFile(f)
  \/ Prewarm \/ TakeAnswer
  \/ Reply \/ SeekMappers \/ SeekSupers \/ SeekImplementations \/ Locate
  \/ FindSource \/ ReadSource \/ ListScope

Spec == Init /\ [][Next]_vars
------------------------------------------------------------------------------
Steps == {"error", "empty", "value", "mappers", "supers", "implementations",
          "declaration", "member", "type", "scope"}

(* Every variable has its type. *)
TypeOK ==
  /\ \A f \in File : /\ disk[f] \in TextsOf(f) \union {None}
                     /\ documents[f] \in TextsOf(f) \union {None}
                     /\ parsed[f] \in TextsOf(f) \union {None, EmptyText}
                     /\ documents[f] = None => published[f] = {}
  /\ call # None => /\ call.request.file \in File /\ call.text \in TextsOf(call.request.file)
                    /\ call.goal.step \in Steps
                    /\ call.path # None => call.goal.step = "type"
  /\ call # None => answer = None
  /\ changes \in 0..MaxChanges /\ edits \in 0..MaxEdits

(* docs/java-lsp-support-matrix.md:96, "current buffer imports are         *)
(* resolved before workspace import fallbacks": a name means what the text *)
(* it stands in imports under it, in every request, whatever the caches    *)
(* hold, and also where a request goes on from one file to the next, as    *)
(* typeDefinition does with the type a method returns.                     *)
OwnImportsWin ==
  call # None =>
    LET g == call.goal
    IN g.named.package = Empty /\ g.named.name \in DOMAIN g.from.imports
         => g.class = g.from.imports[g.named.name]

(* The features agree on the types an open document names.  Hover looks    *)
(* for the class that definition looks for, unless some file of the        *)
(* workspace imported the name and the document does not; and as long as   *)
(* the files are those of the last check, what is diagnosed as unresolved  *)
(* is what definition does not find, the built-in names aside.             *)
FeaturesAgree ==
  \A f \in {g \in File : documents[g] # None} :
    LET t == documents[f]
    IN \A l \in DOMAIN t.lines : \A n \in NamesOn(t.lines[l]) :
         LET class == ResolveTypeName(t, n)
         IN /\ \/ ResolveTypeNameWithWorkspace(t, SharedImports, n) = class
               \/ n.package = Empty /\ n.name \in DOMAIN SharedImports \ DOMAIN t.imports
            /\ f \in current =>
                 (<<l, n>> \in published[f] <=> /\ PlacesOf(disk, class) = {}
                                                /\ ~(n.package = Empty /\ n.name \in Builtin))

(* From a method of a class, declaration leads to the interface that       *)
(* declares it, and from there implementation leads back to the class      *)
(* among others, be the class open and edited or not, if the interface is  *)
(* saved.                                                                  *)
ImplementedWhereDeclared ==
  \A f, g \in {h \in File : disk[h] # None} :
    /\ disk[g].interface /\ documents[g] \in {None, disk[g]}
    /\ g \in Declaring(disk, DeclaredIn(disk, f))
    => \E p \in Implementations(disk, g, DocumentText(g), DeclaredClass(disk[g]), NoMember) : p[1] = f

(* A line that names the member, or a longer name that ends in it, and is  *)
(* not below a declaration of the member in its file.                      *)
PlaceOfMember(d, member, p) ==
  /\ \/ p \in References(d, member, TRUE)
     \/ \E name \in Called(d[p[1]].lines[p[2]]) : EndsIn(name, member)
  /\ \A q \in References(d, member, TRUE) \ References(d, member, FALSE) : q[1] = p[1] => p[2] <= q[2]

(* The place of a method that definition, declaration or implementation    *)
(* answers is among its references, unless a longer name on the line was   *)
(* taken for the method's, and never below a declaration of the method.    *)
(* Excepted are places in the requesting document if that is not what its  *)
(* file has now: references see the files only, implementation sees the    *)
(* text the request was about.                                             *)
LocatedIsReferenced ==
  /\ answer # None
  /\ answer.request.op \in {"definition", "declaration", "implementation"}
  /\ answer.result.kind = "locations" /\ answer.goal.member # NoMember
  => \A p \in answer.result.locations :
       p[1] \in File /\ p[2] # 0 /\ (p[1] = answer.request.file => answer.text = disk[p[1]])
         => PlaceOfMember(disk, answer.goal.member, p)

(* Two answers to one request, on the same text and the same class.  *)
Twice ==
  /\ answer # None /\ previous # None
  /\ answer.result.kind = "list" /\ previous.result.kind = "list"
  /\ answer.text = previous.text /\ answer.result.info = previous.result.info

(* A completion list has the same items in the same order each time it is  *)
(* asked for, however the maps of fields and locals are iterated; what is  *)
(* inserted is left out.                                                   *)
CompletionOrderStable ==
  Twice =>
    LET Shown(items) ==
          [i \in DOMAIN items |-> [label |-> items[i].label, kind |-> items[i].kind,
                                   detail |-> items[i].detail, score |-> items[i].score]]
    IN Shown(answer.result.items) = Shown(previous.result.items)

(* docs/java-lsp-support-matrix.md:24, definition "covers workspace        *)
(* types": no error is answered on a class that a file of the workspace    *)
(* declares.                                                               *)
WorkspaceTypesFound ==
  /\ answer # None /\ answer.request.op = "definition"
  /\ answer.result.kind = "error" /\ answer.goal.step = "declaration"
  => \A f \in File : disk[f] # None => ParsedClass(disk[f]) # answer.goal.class
==============================================================================
