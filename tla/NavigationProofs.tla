--------------------------- MODULE NavigationProofs ---------------------------
(***************************************************************************)
(* Proofs about Navigation, for any files, texts, libraries and disks: what*)
(* names mean in every request, that diagnostics agree with definition,    *)
(* that the places answered are places of the member, and that a list of   *)
(* completions does not depend on the orders of the maps.                  *)
(* The invariant follows a request: its text is one its document had, its  *)
(* goal has been resolved in a text, and the place found for it is one the *)
(* files or the libraries had.  A list of completions is followed by what  *)
(* it shows: its items are in sections (fields, locals, methods), and what *)
(* is in a section does not depend on the orders.                          *)
(***************************************************************************)
EXTENDS Navigation, FiniteSetTheorems, SequenceTheorems, WellFoundedInduction, TLAPS

(* A nonempty set of numbers has a least one. *)
LEMMA LeastNumber ==
  ASSUME NEW T, T \subseteq Nat, T # {}
  PROVE  \E x \in T : \A y \in T : x <= y
<1>1. IsWellFoundedOn(OpToRel(<, Nat), Nat)
  BY NatLessThanWellFounded, Zenon
<1>2. PICK x \in T : \A y \in T : <<y, x>> \notin OpToRel(<, Nat)
  BY <1>1, WFMin, Zenon
<1>3. \A y \in T : ~(y < x)
  BY <1>2 DEF OpToRel
<1>4. QED BY <1>3

------------------------------------------------------------------------------
AllTexts == Texts \union {Library[c] : c \in DOMAIN Library}

(* What is parsed of a file. *)
Infos == AllTexts \union {EmptyText}

(* A goal means what its text imports. *)
OwnImport(g) ==
  g.named.package = Empty /\ g.named.name \in DOMAIN g.from.imports
    => g.class = g.from.imports[g.named.name]

IsGoal(g) ==
  /\ g = [step |-> g.step, class |-> g.class, member |-> g.member, named |-> g.named, from |-> g.from]
  /\ g.step \in Steps

(* The request at work. *)
CallTyped ==
  call # None =>
    /\ call = [request |-> call.request, text |-> call.text, goal |-> call.goal, path |-> call.path]
    /\ call.request = [op |-> call.request.op, file |-> call.request.file,
                       line |-> call.request.line, focus |-> call.request.focus]
    /\ IsGoal(call.goal) /\ OwnImport(call.goal)
    /\ call.path # None => call.path \in File \union DOMAIN Library

FilesTyped ==
  /\ disk \in [File -> Texts \union {None}]
  /\ documents \in [File -> Texts \union {None}]
  /\ parsed \in [File -> Texts \union {None, EmptyText}]
  /\ published = [f \in File |-> published[f]]

(* What is diagnosed is diagnosed of the documents and the files there are. *)
Diagnosed == \A f \in current : /\ f \in File /\ documents[f] # None
                                /\ published[f] = UnresolvedTypes(disk, documents[f])

IInv == TypeOK /\ FilesTyped /\ CallTyped /\ Diagnosed /\ LocatedIsReferenced
------------------------------------------------------------------------------
(* Min finds it. *)
LEMMA MinIn ==
  ASSUME NEW T, T \subseteq Nat, T # {}
  PROVE  Min(T) \in T
<1>1. \E x \in T : \A y \in T : x <= y
  BY LeastNumber
<1>2. QED BY <1>1, Zenon DEF Min

LEMMA MinLeast ==
  ASSUME NEW T, T \subseteq Nat, NEW x \in T
  PROVE  Min(T) <= x
<1>1. \E y \in T : \A z \in T : y <= z
  BY LeastNumber
<1>2. \A z \in T : Min(T) <= z
  BY <1>1, Zenon DEF Min
<1>3. QED BY <1>2
------------------------------------------------------------------------------
(* The names. *)

LEMMA TextParts ==
  ASSUME NEW t \in Infos
  PROVE  /\ DOMAIN t.lines \subseteq Nat \ {0}
         /\ Empty \notin DOMAIN t.imports
         /\ DOMAIN SplitTypeList(t) \subseteq Nat
         /\ \A l \in DOMAIN t.lines :
              t.lines[l].kind = "import" => /\ t.lines[l].class.name \in DOMAIN t.imports
                                            /\ t.imports[t.lines[l].class.name] = t.lines[l].class
<1>1. CASE t = EmptyText
  <2>1. DOMAIN <<>> = {}
    OBVIOUS
  <2>2. t.lines = <<>> /\ t.imports = <<>> /\ t.heading = Empty
    BY <1>1 DEF EmptyText
  <2>3. SplitTypeList(t) = <<>>
    BY <2>2 DEF SplitTypeList, DeclaresNothing
  <2>4. QED BY <2>1, <2>2, <2>3
<1>2. CASE t \in AllTexts
  <2>1. /\ t.lines \in Seq(ToSet(t.lines))
        /\ t.extends \in Seq(ToSet(t.extends)) /\ t.implements \in Seq(ToSet(t.implements))
        /\ Empty \notin DOMAIN t.imports
        /\ \A l \in DOMAIN t.lines :
             t.lines[l].kind = "import" => /\ t.lines[l].class.name \in DOMAIN t.imports
                                           /\ t.imports[t.lines[l].class.name] = t.lines[l].class
    BY <1>2, TextAssumption, Zenon DEF AllTexts
  <2>2. \A S, s : s \in Seq(S) => DOMAIN s \subseteq Nat \ {0}
    OBVIOUS
  <2>3. DOMAIN t.lines \subseteq Nat \ {0} /\ DOMAIN t.extends \subseteq Nat /\ DOMAIN t.implements \subseteq Nat
    BY <2>1, <2>2
  <2>4. DOMAIN SplitTypeList(t) \subseteq Nat
    BY <2>3 DEF SplitTypeList
  <2>5. QED BY <2>1, <2>3, <2>4
<1>3. QED BY <1>1, <1>2 DEF Infos

(* No import is called the empty word, which stands for no name. *)
LEMMA NoEmptyImport == \A t \in Infos : Empty \notin DOMAIN t.imports
BY TextParts, Zenon

(* A name without a qualifier that a text imports means what it imports,   *)
(* whatever the workspace imports.                                         *)
LEMMA OwnImportFirst ==
  ASSUME NEW t, NEW sh, NEW n, n.package = Empty, n.name \in DOMAIN t.imports
  PROVE  /\ ResolveTypeName(t, n) = t.imports[n.name]
         /\ ResolveTypeNameWithWorkspace(t, sh, n) = t.imports[n.name]
BY DEF ResolveTypeName, ResolveTypeNameWithWorkspace

(* Every goal a request begins with means what its text imports: those of *)
(* receivers.                                                             *)
LEMMA ReceiverGoals ==
  ASSUME NEW t \in Infos, NEW receiver, NEW step \in Steps, NEW member
  PROVE  LET g == ReceiverGoal(t, receiver, step, member)
         IN IsGoal(g) /\ OwnImport(g)
<1> DEFINE g == ReceiverGoal(t, receiver, step, member)
           class == ResolveReceiverType(t, receiver)
<1>1. IsGoal(g)
  BY DEF ReceiverGoal, Goal, IsGoal, Steps
<1>2. OwnImport(g)
  <2>1. CASE class \in {NoName, Logger}
    <3>1. g.named = NoName /\ g.from = t
      BY <2>1 DEF ReceiverGoal, Goal
    <3> HIDE DEF g, class
    <3>2. g.named.name = Empty /\ Empty \notin DOMAIN t.imports
      BY <3>1, NoEmptyImport DEF NoName, Word
    <3>3. QED BY <3>1, <3>2, Zenon DEF OwnImport
  <2>2. CASE class \notin {NoName, Logger}
    <3>1. class = ResolveTypeName(t, Fields(t)[receiver].written)
      BY <2>2 DEF ResolveReceiverType
    <3>2. g.named = Fields(t)[receiver].written /\ g.from = t /\ g.class = class
      BY <2>2 DEF ReceiverGoal, Goal
    <3> DEFINE n == Fields(t)[receiver].written
    <3> HIDE DEF g, class, n
    <3>3. n.package = Empty /\ n.name \in DOMAIN t.imports => ResolveTypeName(t, n) = t.imports[n.name]
      BY OwnImportFirst
    <3>4. QED BY <3>1, <3>2, <3>3 DEF OwnImport, n
  <2>3. QED BY <2>1, <2>2
<1>3. QED BY <1>1, <1>2

(* A goal whose class is what the text imports under its name. *)
LEMMA MeantGoal ==
  ASSUME NEW step \in Steps, NEW class, NEW member, NEW named, NEW t,
         named.package = Empty /\ named.name \in DOMAIN t.imports => class = t.imports[named.name]
  PROVE  LET g == Goal(step, class, member, named, t)
         IN IsGoal(g) /\ OwnImport(g) /\ g.step = step /\ g.member = member
<1> DEFINE g == Goal(step, class, member, named, t)
<1>1. IsGoal(g) /\ g.step = step /\ g.member = member /\ g.named = named /\ g.from = t /\ g.class = class
  BY DEF Goal, IsGoal
<1> HIDE DEF g
<1>2. OwnImport(g)
  BY <1>1, Zenon DEF OwnImport
<1>3. QED BY <1>1, <1>2 DEF g

(* A goal without a name. *)
LEMMA NamelessGoal ==
  ASSUME NEW step \in Steps, NEW class, NEW member, NEW t \in Infos
  PROVE  LET g == Goal(step, class, member, NoName, t)
         IN IsGoal(g) /\ OwnImport(g) /\ g.step = step /\ g.member = member
<1>1. NoName.name = Empty /\ Empty \notin DOMAIN t.imports
  BY NoEmptyImport DEF NoName, Word
<1>2. QED BY <1>1, MeantGoal

(* A goal for a name resolved in a text, with or without the workspace.    *)
LEMMA NamedGoal ==
  ASSUME NEW step \in Steps, NEW member, NEW t, NEW sh, NEW n, NEW class,
         class \in {ResolveTypeName(t, n), ResolveTypeNameWithWorkspace(t, sh, n)}
  PROVE  LET g == Goal(step, class, member, n, t)
         IN IsGoal(g) /\ OwnImport(g) /\ g.step = step /\ g.member = member
<1>1. n.package = Empty /\ n.name \in DOMAIN t.imports => class = t.imports[n.name]
  BY OwnImportFirst
<1>2. QED BY <1>1, MeantGoal

(* definition: a receiver, a member, a method or a type. *)
LEMMA DefinitionGoals ==
  ASSUME NEW t \in Infos, NEW line, NEW focus
  PROVE  LET g == DefinitionGoal(t, line, focus)
         IN IsGoal(g) /\ OwnImport(g)
<1> DEFINE g == DefinitionGoal(t, line, focus)
<1>1. CASE line.kind = "access" /\ focus = "receiver"
  <2>1. g = ReceiverGoal(t, line.receiver, "declaration", NoMember)
    BY <1>1 DEF DefinitionGoal
  <2>2. QED BY <2>1, ReceiverGoals DEF Steps
<1>2. CASE line.kind = "access" /\ focus # "receiver"
  <2>1. g = ReceiverGoal(t, line.receiver, "member", line.member)
    BY <1>2 DEF DefinitionGoal
  <2>2. QED BY <2>1, ReceiverGoals DEF Steps
<1>3. CASE line.kind # "access" /\ IsMethodSymbol(t, line)
  <2>1. g = Goal("mappers", DeclaredClass(t), line.name, NoName, t)
    BY <1>3 DEF DefinitionGoal
  <2>2. QED BY <2>1, NamelessGoal DEF Steps
<1>4. CASE line.kind # "access" /\ ~IsMethodSymbol(t, line)
  <2>1. g = Goal("declaration", ResolveTypeName(t, WordOn(line)), NoMember, WordOn(line), t)
    BY <1>4 DEF DefinitionGoal
  <2>2. QED BY <2>1, NamedGoal DEF Steps
<1>5. QED BY <1>1, <1>2, <1>3, <1>4

(* declaration *)
LEMMA DeclarationGoals ==
  ASSUME NEW t \in Infos, NEW line, NEW focus
  PROVE  LET g == DeclarationGoal(t, line, focus)
         IN IsGoal(g) /\ OwnImport(g)
<1>1. CASE IsMethodSymbol(t, line)
  <2>1. DeclarationGoal(t, line, focus) = Goal("supers", DeclaredClass(t), line.name, NoName, t)
    BY <1>1 DEF DeclarationGoal
  <2>2. QED BY <2>1, NamelessGoal DEF Steps
<1>2. CASE ~IsMethodSymbol(t, line)
  <2>1. DeclarationGoal(t, line, focus) = DefinitionGoal(t, line, focus)
    BY <1>2 DEF DeclarationGoal
  <2>2. QED BY <2>1, DefinitionGoals
<1>3. QED BY <1>1, <1>2

(* implementation *)
LEMMA ImplementationGoals ==
  ASSUME NEW t \in Infos, NEW line, NEW focus
  PROVE  LET g == ImplementationGoal(t, line, focus)
         IN IsGoal(g) /\ OwnImport(g)
<1> DEFINE g == ImplementationGoal(t, line, focus)
<1>1. CASE IsMethodSymbol(t, line)
  <2>1. PICK step \in {"implementations", "member"} : g = Goal(step, DeclaredClass(t), line.name, NoName, t)
    BY <1>1 DEF ImplementationGoal
  <2>2. QED BY <2>1, NamelessGoal DEF Steps
<1>2. CASE ~IsMethodSymbol(t, line) /\ line.kind = "access"
  <2>1. g = ReceiverGoal(t, line.receiver, "implementations", line.member)
    BY <1>2 DEF ImplementationGoal
  <2>2. QED BY <2>1, ReceiverGoals DEF Steps
<1>3. CASE ~IsMethodSymbol(t, line) /\ line.kind # "access"
  <2>1. g = Goal("error", NoName, NoMember, NoName, t)
    BY <1>3 DEF ImplementationGoal
  <2>2. QED BY <2>1, NamelessGoal DEF Steps
<1>4. QED BY <1>1, <1>2, <1>3

(* hover and typeDefinition on a word: a variable or a type. *)
LEMMA WordGoals ==
  ASSUME NEW t \in Infos, NEW op, NEW l, NEW sh
  PROVE  LET g == WordGoal(op, t, l, sh)
         IN IsGoal(g) /\ OwnImport(g)
<1> DEFINE g == WordGoal(op, t, l, sh)
           n == WordOn(t.lines[l])
           v == ValueType(t, l, n.name)
           step == IF op = "hover" THEN "type" ELSE "declaration"
           valueStep == IF op = "hover" THEN "value" ELSE step
<1>1. CASE IsValue(t, l, n.name)
  <2>1. g = Goal(valueStep, ResolveTypeNameWithWorkspace(t, sh, v), NoMember, v, t)
    BY <1>1, Zenon DEF WordGoal
  <2>2. valueStep \in Steps
    BY DEF Steps
  <2> HIDE DEF g, n, v, step, valueStep
  <2>3. QED BY <2>1, <2>2, NamedGoal DEF g
<1>2. CASE ~IsValue(t, l, n.name)
  <2>1. g = Goal(step, ResolveTypeNameWithWorkspace(t, sh, n), NoMember, n, t)
    BY <1>2, Zenon DEF WordGoal
  <2>2. step \in Steps
    BY DEF Steps
  <2> HIDE DEF g, n, v, step, valueStep
  <2>3. QED BY <2>1, <2>2, NamedGoal DEF g
<1>3. QED BY <1>1, <1>2

(* What a receiver means, and the name it is resolved from. *)
LEMMA ReceiverMeaning ==
  ASSUME NEW t \in Infos, NEW l, NEW sh, NEW receiver
  PROVE  LET r == ResolveReceiverTypeWithWorkspace(t, l, sh, receiver)
             named == CASE r.kind = "type" -> Word(receiver)
                        [] r.kind = "value" /\ IsValue(t, l, receiver) -> ValueType(t, l, receiver)
                        [] OTHER -> NoName
         IN named.package = Empty /\ named.name \in DOMAIN t.imports => r.class = t.imports[named.name]
<1> DEFINE r == ResolveReceiverTypeWithWorkspace(t, l, sh, receiver)
           v == ValueType(t, l, receiver)
           named == CASE r.kind = "type" -> Word(receiver)
                      [] r.kind = "value" /\ IsValue(t, l, receiver) -> v
                      [] OTHER -> NoName
<1>1. CASE IsValue(t, l, receiver)
  <2>1. r = [kind |-> "value", class |-> ResolveTypeNameWithWorkspace(t, sh, v)]
    BY <1>1, Zenon DEF ResolveReceiverTypeWithWorkspace
  <2>2. r.kind = "value" /\ r.class = ResolveTypeNameWithWorkspace(t, sh, v)
    BY <2>1
  <2>3. named = v
    BY <1>1, <2>2
  <2> HIDE DEF r, named, v
  <2>4. QED BY <2>2, <2>3, OwnImportFirst DEF r, named, v
<1>2. CASE ~IsValue(t, l, receiver) /\ r.kind = "type"
  <2>1. named = Word(receiver)
    BY <1>2
  <2>2. named.name = receiver
    BY <2>1 DEF Word
  <2>3. receiver \in DOMAIN t.imports => r.class = t.imports[receiver]
    BY <1>2 DEF ResolveReceiverTypeWithWorkspace
  <2> HIDE DEF r, named, v
  <2>4. QED BY <2>2, <2>3 DEF r, named, v
<1>3. CASE ~IsValue(t, l, receiver) /\ r.kind # "type"
  <2>1. named = NoName
    BY <1>3
  <2>2. named.name = Empty /\ Empty \notin DOMAIN t.imports
    BY <2>1, NoEmptyImport DEF NoName, Word
  <2> HIDE DEF r, named, v
  <2>3. QED BY <2>2 DEF r, named, v
<1>4. QED BY <1>1, <1>2, <1>3

(* hover and typeDefinition *)
LEMMA DescriptionGoals ==
  ASSUME NEW t \in Infos, NEW op, NEW l, NEW focus, NEW sh
  PROVE  LET g == DescriptionGoal(op, t, l, focus, sh)
         IN IsGoal(g) /\ OwnImport(g)
<1> DEFINE g == DescriptionGoal(op, t, l, focus, sh)
           line == t.lines[l]
           r == ResolveReceiverTypeWithWorkspace(t, l, sh, line.receiver)
           named == CASE r.kind = "type" -> Word(line.receiver)
                      [] r.kind = "value" /\ IsValue(t, l, line.receiver) -> ValueType(t, l, line.receiver)
                      [] OTHER -> NoName
<1>1. CASE line.kind = "access" /\ r.kind = "unresolved"
  <2>1. g = Goal("error", NoName, NoMember, NoName, t)
    BY <1>1, Zenon DEF DescriptionGoal
  <2>2. QED BY <2>1, NamelessGoal DEF Steps
<1>2. CASE line.kind = "access" /\ r.kind # "unresolved"
  <2>1. PICK step, member : step \in {"type", "declaration"} /\ g = Goal(step, r.class, member, named, t)
    <3>1. CASE focus = "receiver"
      <4>1. g = Goal(IF op = "hover" THEN "type" ELSE "declaration", r.class, NoMember, named, t)
        BY <1>2, <3>1, Zenon DEF DescriptionGoal
      <4> HIDE DEF g, r, named
      <4>2. QED BY <4>1
    <3>2. CASE focus # "receiver"
      <4>1. g = Goal("type", r.class, line.member, named, t)
        BY <1>2, <3>2, Zenon DEF DescriptionGoal
      <4> HIDE DEF g, r, named
      <4>2. QED BY <4>1
    <3>3. QED BY <3>1, <3>2
  <2>2. named.package = Empty /\ named.name \in DOMAIN t.imports => r.class = t.imports[named.name]
    BY ReceiverMeaning
  <2>3. step \in Steps
    BY <2>1 DEF Steps
  <2> HIDE DEF g, r, named
  <2>4. QED BY <2>1, <2>2, <2>3, MeantGoal DEF g
<1>3. CASE line.kind # "access" /\ IsMethodSymbol(t, line)
  <2>1. g = Goal("type", DeclaredClass(t), line.name, NoName, t)
    BY <1>3, Zenon DEF DescriptionGoal
  <2>2. QED BY <2>1, NamelessGoal DEF Steps
<1>4. CASE line.kind # "access" /\ ~IsMethodSymbol(t, line)
  <2>1. g = WordGoal(op, t, l, sh)
    BY <1>4, Zenon DEF DescriptionGoal
  <2>2. QED BY <2>1, WordGoals
<1>5. QED BY <1>1, <1>2, <1>3, <1>4

(* completion: a receiver, an import or the scope. *)
LEMMA CompletionGoals ==
  ASSUME NEW t \in Infos, NEW l, NEW sh
  PROVE  LET g == CompletionGoal(t, l, sh)
         IN IsGoal(g) /\ OwnImport(g)
<1>1. PICK g, line, r, simple, imported :
        /\ g = CompletionGoal(t, l, sh) /\ line = t.lines[l]
        /\ r = ResolveReceiverTypeWithWorkspace(t, l, sh, CompletionReceiver(line))
        /\ simple = line.class.name /\ imported = (IF simple \in DOMAIN t.imports THEN t.imports ELSE sh)
  OBVIOUS
<1>2. CASE line.kind = "scope"
  <2>1. g = Goal("scope", NoName, NoMember, NoName, t)
    BY <1>1, <1>2 DEF CompletionGoal
  <2>2. QED BY <1>1, <2>1, NamelessGoal DEF Steps
<1>3. CASE line.kind # "scope" /\ r.kind # "unresolved"
  <2>1. g = Goal("type", r.class, TypePrefix(t, l), NoName, t)
    BY <1>1, <1>3 DEF CompletionGoal
  <2>2. QED BY <1>1, <2>1, NamelessGoal DEF Steps
<1>4. CASE line.kind = "import" /\ r.kind = "unresolved" /\ simple \in DOMAIN imported
  <2>1. PICK step, class, named : step = "type" /\ class = imported[simple] /\ named = Word(simple)
    OBVIOUS
  <2>2. g = Goal(step, class, NoMember, named, t)
    BY <1>1, <1>4, <2>1 DEF CompletionGoal
  <2>3. step \in Steps
    BY <2>1 DEF Steps
  <2>4. named.name = simple
    BY <2>1 DEF Word
  <2>5. named.package = Empty /\ named.name \in DOMAIN t.imports => class = t.imports[named.name]
    BY <1>1, <2>1, <2>4
  <2>6. IsGoal(Goal(step, class, NoMember, named, t)) /\ OwnImport(Goal(step, class, NoMember, named, t))
    BY <2>3, <2>5, MeantGoal
  <2>7. QED BY <1>1, <2>2, <2>6
<1>5. CASE /\ line.kind # "scope" /\ r.kind = "unresolved"
           /\ ~(line.kind = "import" /\ simple \in DOMAIN imported)
  <2>1. g = Goal("empty", NoName, NoMember, NoName, t)
    BY <1>1, <1>5 DEF CompletionGoal
  <2>2. QED BY <1>1, <2>1, NamelessGoal DEF Steps
<1>6. QED BY <1>2, <1>3, <1>4, <1>5
------------------------------------------------------------------------------
(* The places. *)

(* A line on which the member is looked for is one that calls it or        *)
(* declares it, or a longer name that ends in it, and none such is above   *)
(* the line that is found.                                                 *)
Named(line, member) == \E name \in Called(line) : name = member \/ EndsIn(name, member)

LEMMA MemberLines ==
  ASSUME NEW t \in Infos, NEW member, MemberLine(t, member) # 0
  PROVE  /\ MemberLine(t, member) \in DOMAIN t.lines
         /\ Named(t.lines[MemberLine(t, member)], member)
         /\ \A l \in DOMAIN t.lines : Named(t.lines[l], member) => MemberLine(t, member) <= l
<1> DEFINE lines == {l \in DOMAIN t.lines : Named(t.lines[l], member)}
<1>1. MemberLine(t, member) = IF lines = {} THEN 0 ELSE Min(lines)
  BY Zenon DEF MemberLine, FirstLine, Named
<1>2. lines \subseteq Nat
  BY TextParts
<1>3. lines # {} /\ MemberLine(t, member) = Min(lines)
  <2> HIDE DEF lines
  <2>1. QED BY <1>1
<1>4. MemberLine(t, member) \in lines
  <2> HIDE DEF lines
  <2>1. QED BY <1>2, <1>3, MinIn
<1>5. \A l \in lines : MemberLine(t, member) <= l
  <2> HIDE DEF lines
  <2>1. QED BY <1>2, <1>3, MinLeast
<1>6. QED BY <1>4, <1>5

(* What is called or declared on a line is mentioned there.                *)
LEMMA CalledMentioned ==
  ASSUME NEW line, NEW name \in Called(line)
  PROVE  Mentions(line, name)
<1>1. CASE line.kind = "access"
  BY <1>1 DEF Called, Mentions
<1>2. CASE line.kind = "method"
  BY <1>2 DEF Called, Mentions
<1>3. CASE line.kind = "type"
  BY <1>3 DEF Called, Mentions
<1>4. CASE line.kind \notin {"access", "method", "type"}
  BY <1>4 DEF Called
<1>5. QED BY <1>1, <1>2, <1>3, <1>4

(* The references that are left out if no declarations are asked for.      *)
LEMMA LeftOut ==
  ASSUME NEW d, NEW member, NEW q \in References(d, member, TRUE) \ References(d, member, FALSE)
  PROVE  q[2] \in DOMAIN d[q[1]].lines /\ Named(d[q[1]].lines[q[2]], member)
<1>1. PICK f, l, line :
        /\ q = <<f, l>> /\ l \in DOMAIN d[f].lines /\ line = d[f].lines[l]
        /\ line.kind = "method" /\ line.name = member
  BY DEF References
<1>2. member \in Called(line)
  BY <1>1 DEF Called
<1>3. QED BY <1>1, <1>2 DEF Named

(* So what is found for a member is a place of it. *)
LEMMA MemberPlaced ==
  ASSUME NEW d, NEW f \in File, d[f] # None, d[f] \in Infos,
         NEW member, MemberLine(d[f], member) # 0
  PROVE  PlaceOfMember(d, member, <<f, MemberLine(d[f], member)>>)
<1>1. PICK l, line, p : l = MemberLine(d[f], member) /\ line = d[f].lines[l] /\ p = <<f, l>>
  OBVIOUS
<1>2. /\ l \in DOMAIN d[f].lines /\ Named(line, member)
      /\ \A k \in DOMAIN d[f].lines : Named(d[f].lines[k], member) => l <= k
  BY <1>1, MemberLines
<1>3. p[1] = f /\ p[2] = l
  BY <1>1
<1>4. member \in Called(line) => p \in References(d, member, TRUE)
  <2>1. member \in Called(line) => Mentions(line, member)
    BY CalledMentioned
  <2>2. p \in UNION {{g} \X DOMAIN d[g].lines : g \in {h \in File : d[h] # None}}
    BY <1>1, <1>2
  <2>3. QED BY <1>1, <1>3, <2>1, <2>2 DEF References
<1>5. \/ member \in Called(line)
      \/ \E name \in Called(line) : EndsIn(name, member)
  BY <1>2, Zenon DEF Named
<1>6. \A q \in References(d, member, TRUE) \ References(d, member, FALSE) : q[1] = p[1] => p[2] <= q[2]
  BY <1>2, <1>3, LeftOut
<1>7. PlaceOfMember(d, member, p)
  BY <1>1, <1>3, <1>4, <1>5, <1>6, Zenon DEF PlaceOfMember
<1>8. QED BY <1>1, <1>7

(* A class is somewhere if and only if it exists. *)
LEMMA PlacesExist ==
  ASSUME NEW d, NEW class
  PROVE  /\ PlacesOf(d, class) = {} <=> ~Exists(d, class)
         /\ \A p \in PlacesOf(d, class) :
              \/ p \in File /\ d[p] # None
              \/ p \in DOMAIN Library
BY DEF PlacesOf, Exists, Declaring

(* A file of the workspace is no source of a library. *)
LEMMA NoLibraryFile == \A p \in File : p \notin DOMAIN Library
BY NavigationAssumption

(* The place of a member, in a file that was found for a class. *)
LEMMA PlaceFound ==
  ASSUME FilesTyped, NEW class, NEW p \in PlacesOf(disk, class), p \in File,
         NEW member, MemberLine(TextAt(disk, p), member) # 0
  PROVE  PlaceOfMember(disk, member, <<p, MemberLine(TextAt(disk, p), member)>>)
<1>1. disk[p] # None
  BY PlacesExist, NoLibraryFile
<1>2. disk[p] \in Infos
  BY <1>1 DEF FilesTyped, Infos, AllTexts
<1>3. TextAt(disk, p) = disk[p]
  BY DEF TextAt
<1>4. QED BY <1>1, <1>2, <1>3, MemberPlaced
------------------------------------------------------------------------------
(* The steps of a request. *)

ParsedTyped ==
  /\ parsed \in [File -> Texts \union {None, EmptyText}]
  /\ \A f \in File : parsed[f] \in TextsOf(f) \union {None, EmptyText}

(* The texts of a file are texts. *)
LEMMA TextsOfFiles == \A f \in File : \A t \in TextsOf(f) : t \in Texts /\ t # None
BY NavigationAssumption, Zenon DEF Texts

(* The text a request is about is one its file can have. *)
LEMMA DocumentTexts ==
  ASSUME TypeOK, NEW f \in File, DocumentText(f) # None
  PROVE  DocumentText(f) \in TextsOf(f) /\ DocumentText(f) \in Infos
<1>1. disk[f] \in TextsOf(f) \union {None} /\ documents[f] \in TextsOf(f) \union {None}
  BY Zenon DEF TypeOK
<1>2. DocumentText(f) \in TextsOf(f)
  BY <1>1 DEF DocumentText
<1>3. QED BY <1>2, TextsOfFiles DEF Infos, AllTexts

(* The invariant holds before any request. *)
LEMMA Initially == Init => IInv
<1> SUFFICES ASSUME Init PROVE IInv
  OBVIOUS
<1>1. /\ disk \in [File -> Texts \union {None}]
      /\ \A f \in File : disk[f] \in TextsOf(f) \union {None}
      /\ MaxChanges \in Nat /\ MaxEdits \in Nat
  BY NavigationAssumption, Zenon DEF Init
<1>2. TypeOK
  BY <1>1 DEF Init, TypeOK
<1>3. FilesTyped
  BY <1>1 DEF Init, FilesTyped
<1>4. CallTyped /\ Diagnosed /\ LocatedIsReferenced
  BY DEF Init, CallTyped, Diagnosed, LocatedIsReferenced
<1>5. QED BY <1>2, <1>3, <1>4 DEF IInv

(* A request begins, with any goal that means what its text imports. *)
LEMMA Begun ==
  ASSUME IInv, NEW f \in File, NEW l, NEW op, NEW focus, NEW t, NEW goal,
         t = DocumentText(f), t # None, call = None, IsGoal(goal), OwnImport(goal),
         Begins(Asked(op, f, l, focus), t, goal)
  PROVE  IInv'
<1> DEFINE request == Asked(op, f, l, focus)
<1>1. request = [op |-> op, file |-> f, line |-> l, focus |-> focus]
  BY DEF Asked
<1>2. /\ call' = [request |-> request, text |-> t, goal |-> goal, path |-> None] /\ answer' = None
      /\ UNCHANGED <<disk, documents, published, current, parsed, changes, edits>>
  BY DEF Begins, editor
<1>3. t \in TextsOf(f)
  BY DocumentTexts DEF IInv
<1> HIDE DEF request
<1>4. /\ call'.request = request /\ call'.text = t /\ call'.goal = goal /\ call'.path = None
      /\ request.op = op /\ request.file = f /\ request.line = l /\ request.focus = focus
  BY <1>1, <1>2
<1>5. TypeOK'
  BY <1>2, <1>3, <1>4 DEF IInv, TypeOK, IsGoal
<1>6. FilesTyped' /\ Diagnosed'
  BY <1>2 DEF IInv, FilesTyped, Diagnosed
<1>7. CallTyped'
  BY <1>1, <1>2, <1>4 DEF CallTyped
<1>8. LocatedIsReferenced'
  BY <1>2 DEF LocatedIsReferenced
<1>9. QED BY <1>5, <1>6, <1>7, <1>8 DEF IInv

(* A request goes on with such a goal. *)
LEMMA Proceeded ==
  ASSUME IInv, call # None, NEW goal, IsGoal(goal), OwnImport(goal), Proceeds(goal),
         UNCHANGED <<disk, editor, changes, edits>>, ParsedTyped'
  PROVE  IInv'
<1>1. /\ call' = [call EXCEPT !.goal = goal, !.path = None] /\ answer' = answer
      /\ UNCHANGED <<disk, documents, published, current, changes, edits>>
  BY DEF Proceeds, editor
<1>2. call = [request |-> call.request, text |-> call.text, goal |-> call.goal, path |-> call.path]
  BY DEF IInv, CallTyped
<1>3. call' = [request |-> call.request, text |-> call.text, goal |-> goal, path |-> None]
  BY <1>1, <1>2
<1>4. call'.request = call.request /\ call'.text = call.text /\ call'.goal = goal /\ call'.path = None
  BY <1>3
<1>5. TypeOK'
  BY <1>1, <1>4 DEF IInv, TypeOK, IsGoal, ParsedTyped
<1>6. FilesTyped' /\ Diagnosed'
  BY <1>1 DEF IInv, FilesTyped, Diagnosed, ParsedTyped
<1>7. CallTyped'
  BY <1>3, <1>4 DEF IInv, CallTyped
<1>8. LocatedIsReferenced'
  <2>1. answer' = None
    BY <1>1 DEF IInv, TypeOK
  <2>2. QED BY <2>1 DEF LocatedIsReferenced
<1>9. QED BY <1>5, <1>6, <1>7, <1>8 DEF IInv

(* What is answered as the places of a member. *)
GoodPlaces(result) ==
  result.kind = "locations" /\ call.goal.member # NoMember =>
    \A p \in result.locations :
      p[1] \in File /\ p[2] # 0 /\ (p[1] = call.request.file => call.text = disk[p[1]])
        => PlaceOfMember(disk, call.goal.member, p)

(* A request ends with good places, or with none. *)
LEMMA Replied ==
  ASSUME IInv, call # None, NEW result, GoodPlaces(result), Replies(result),
         UNCHANGED <<disk, editor, changes, edits>>, ParsedTyped'
  PROVE  IInv'
<1>1. /\ call' = None
      /\ answer' = [request |-> call.request, goal |-> call.goal, text |-> call.text, result |-> result]
      /\ UNCHANGED <<disk, documents, published, current, changes, edits>>
  BY DEF Replies, editor
<1>2. /\ answer'.request = call.request /\ answer'.goal = call.goal
      /\ answer'.text = call.text /\ answer'.result = result
  BY <1>1
<1>3. TypeOK'
  BY <1>1 DEF IInv, TypeOK, ParsedTyped
<1>4. FilesTyped' /\ Diagnosed'
  BY <1>1 DEF IInv, FilesTyped, Diagnosed, ParsedTyped
<1>5. CallTyped'
  BY <1>1 DEF CallTyped
<1>6. LocatedIsReferenced'
  BY <1>1, <1>2 DEF GoodPlaces, LocatedIsReferenced
<1>7. QED BY <1>3, <1>4, <1>5, <1>6 DEF IInv
------------------------------------------------------------------------------
(* The actions. *)

LEMMA AskPlaceKeeps ==
  ASSUME IInv, NEW f \in File, NEW l, AskPlace(f, l)
  PROVE  IInv'
<1>1. PICK t : t = DocumentText(f)
  OBVIOUS
<1>2. t # None /\ call = None
  BY <1>1 DEF AskPlace, At
<1>3. t \in Infos
  BY <1>1, <1>2, DocumentTexts DEF IInv
<1>4. PICK focus : \/ Begins(Asked("definition", f, l, focus), t, DefinitionGoal(t, t.lines[l], focus))
                   \/ Begins(Asked("declaration", f, l, focus), t, DeclarationGoal(t, t.lines[l], focus))
                   \/ Begins(Asked("implementation", f, l, focus), t, ImplementationGoal(t, t.lines[l], focus))
  BY <1>1 DEF AskPlace
<1>5. CASE Begins(Asked("definition", f, l, focus), t, DefinitionGoal(t, t.lines[l], focus))
  BY <1>1, <1>2, <1>3, <1>5, DefinitionGoals, Begun
<1>6. CASE Begins(Asked("declaration", f, l, focus), t, DeclarationGoal(t, t.lines[l], focus))
  BY <1>1, <1>2, <1>3, <1>6, DeclarationGoals, Begun
<1>7. CASE Begins(Asked("implementation", f, l, focus), t, ImplementationGoal(t, t.lines[l], focus))
  BY <1>1, <1>2, <1>3, <1>7, ImplementationGoals, Begun
<1>8. QED BY <1>4, <1>5, <1>6, <1>7

LEMMA AskMeaningKeeps ==
  ASSUME IInv, NEW f \in File, NEW l, AskMeaning(f, l)
  PROVE  IInv'
<1>1. PICK t, sh : t = DocumentText(f) /\ sh = SharedImports
  OBVIOUS
<1>2. t # None /\ call = None
  BY <1>1 DEF AskMeaning, At
<1>3. t \in Infos
  BY <1>1, <1>2, DocumentTexts DEF IInv
<1>4. PICK focus, op : Begins(Asked(op, f, l, focus), t, DescriptionGoal(op, t, l, focus, sh))
  BY <1>1 DEF AskMeaning
<1>5. QED BY <1>1, <1>2, <1>3, <1>4, DescriptionGoals, Begun

LEMMA AskCompletionKeeps ==
  ASSUME IInv, NEW f \in File, NEW l, AskCompletion(f, l)
  PROVE  IInv'
<1>1. PICK t, sh : t = DocumentText(f) /\ sh = SharedImports
  OBVIOUS
<1>2. t # None /\ call = None
  BY <1>1 DEF AskCompletion, At
<1>3. t \in Infos
  BY <1>1, <1>2, DocumentTexts DEF IInv
<1>4. Begins(Asked("completion", f, l, "word"), t, CompletionGoal(t, l, sh))
  BY <1>1 DEF AskCompletion
<1>5. QED BY <1>1, <1>2, <1>3, <1>4, CompletionGoals, Begun

LEMMA AskReferencesKeeps ==
  ASSUME IInv, NEW f \in File, NEW l, AskReferences(f, l)
  PROVE  IInv'
<1>1. call = None /\ UNCHANGED <<disk, documents, published, current, parsed, call, changes, edits>>
  BY DEF AskReferences, At, editor, caches
<1>2. answer'.request.op = "references"
  <2>1. PICK goal, result, t :
          answer' = [request |-> Asked("references", f, l, "word"), text |-> t, goal |-> goal, result |-> result]
    BY DEF AskReferences
  <2>2. QED BY <2>1 DEF Asked
<1>3. TypeOK'
  BY <1>1 DEF IInv, TypeOK
<1>4. FilesTyped' /\ CallTyped' /\ Diagnosed'
  BY <1>1 DEF IInv, FilesTyped, CallTyped, Diagnosed
<1>5. LocatedIsReferenced'
  BY <1>2 DEF LocatedIsReferenced
<1>6. QED BY <1>3, <1>4, <1>5 DEF IInv

(* The editor edits: the document is diagnosed anew. *)
LEMMA EditDocumentKeeps ==
  ASSUME IInv, NEW f \in File, EditDocument(f)
  PROVE  IInv'
<1>1. PICK t \in TextsOf(f) :
        /\ documents' = [documents EXCEPT ![f] = t]
        /\ published' = [published EXCEPT ![f] = UnresolvedTypes(disk, t)]
        /\ current' = current \union {f}
  BY DEF EditDocument
<1>2. /\ call = None /\ edits < MaxEdits /\ edits' = edits + 1 /\ answer' = None
      /\ UNCHANGED <<disk, parsed, call, changes>>
  BY DEF EditDocument, Forgets, caches
<1>3. t \in Texts /\ t # None
  BY TextsOfFiles
<1>4. TypeOK'
  <2>1. \A g \in File : /\ disk'[g] \in TextsOf(g) \union {None}
                        /\ parsed'[g] \in TextsOf(g) \union {None, EmptyText}
    BY <1>2 DEF IInv, TypeOK
  <2>2. \A g \in File : /\ documents'[g] \in TextsOf(g) \union {None}
                        /\ documents'[g] = None => published'[g] = {}
    BY <1>1, <1>3 DEF IInv, TypeOK, FilesTyped
  <2>3. edits' \in 0..MaxEdits
    BY <1>2, NavigationAssumption DEF IInv, TypeOK
  <2>4. QED BY <1>2, <2>1, <2>2, <2>3 DEF IInv, TypeOK
<1>5. FilesTyped'
  BY <1>1, <1>2, <1>3 DEF IInv, FilesTyped
<1>6. CallTyped' /\ LocatedIsReferenced'
  BY <1>2 DEF CallTyped, LocatedIsReferenced
<1>7. Diagnosed'
  <2>1. ASSUME NEW g \in current'
        PROVE  g \in File /\ documents'[g] # None /\ published'[g] = UnresolvedTypes(disk, documents'[g])
    <3>1. CASE g = f
      BY <1>1, <1>3, <3>1 DEF IInv, FilesTyped
    <3>2. CASE g # f
      BY <1>1, <2>1, <3>2 DEF IInv, FilesTyped, Diagnosed
    <3>3. QED BY <3>1, <3>2
  <2>2. QED BY <1>2, <2>1 DEF Diagnosed
<1>8. QED BY <1>4, <1>5, <1>6, <1>7 DEF IInv

(* The editor closes: nothing is diagnosed any more. *)
LEMMA CloseDocumentKeeps ==
  ASSUME IInv, NEW f \in File, CloseDocument(f)
  PROVE  IInv'
<1>1. /\ documents' = [documents EXCEPT ![f] = None]
      /\ published' = [published EXCEPT ![f] = {}]
      /\ current' = current \ {f}
      /\ call = None /\ answer' = None
      /\ UNCHANGED <<disk, parsed, call, changes, edits>>
  BY DEF CloseDocument, Forgets, caches
<1>2. TypeOK'
  <2>1. \A g \in File : /\ disk'[g] \in TextsOf(g) \union {None}
                        /\ parsed'[g] \in TextsOf(g) \union {None, EmptyText}
    BY <1>1 DEF IInv, TypeOK
  <2>2. \A g \in File : /\ documents'[g] \in TextsOf(g) \union {None}
                        /\ documents'[g] = None => published'[g] = {}
    BY <1>1 DEF IInv, TypeOK, FilesTyped
  <2>3. QED BY <1>1, <2>1, <2>2 DEF IInv, TypeOK
<1>3. FilesTyped'
  BY <1>1 DEF IInv, FilesTyped
<1>4. CallTyped' /\ LocatedIsReferenced'
  BY <1>1 DEF CallTyped, LocatedIsReferenced
<1>5. Diagnosed'
  BY <1>1 DEF IInv, FilesTyped, Diagnosed
<1>6. QED BY <1>2, <1>3, <1>4, <1>5 DEF IInv

(* A file changes: no document counts as diagnosed since. *)
LEMMA ChangeFileKeeps ==
  ASSUME IInv, NEW f \in File, ChangeFile(f)
  PROVE  IInv'
<1>1. PICK t \in TextsOf(f) \union {None} : disk' = [disk EXCEPT ![f] = t]
  BY DEF ChangeFile
<1>2. /\ changes < MaxChanges /\ changes' = changes + 1 /\ current' = {} /\ answer' = None
      /\ UNCHANGED <<documents, published, parsed, call, edits>>
  BY DEF ChangeFile, Forgets, caches
<1>3. t \in Texts \union {None}
  BY TextsOfFiles
<1>4. TypeOK'
  <2>1. \A g \in File : disk'[g] \in TextsOf(g) \union {None}
    BY <1>1 DEF IInv, TypeOK, FilesTyped
  <2>2. changes' \in 0..MaxChanges
    BY <1>2, NavigationAssumption DEF IInv, TypeOK
  <2>3. QED BY <1>2, <2>1, <2>2 DEF IInv, TypeOK
<1>5. FilesTyped'
  BY <1>1, <1>2, <1>3 DEF IInv, FilesTyped
<1>6. CallTyped' /\ Diagnosed' /\ LocatedIsReferenced'
  BY <1>2 DEF IInv, CallTyped, Diagnosed, LocatedIsReferenced
<1>7. QED BY <1>4, <1>5, <1>6 DEF IInv

(* Steps of the caches and of the editor taking an answer. *)
LEMMA StutterKeeps ==
  ASSUME IInv, UNCHANGED <<disk, documents, parsed, published, current, call, changes, edits>>,
         answer' \in {answer, None}
  PROVE  IInv'
<1>1. TypeOK'
  BY DEF IInv, TypeOK
<1>2. FilesTyped' /\ CallTyped' /\ Diagnosed'
  BY DEF IInv, FilesTyped, CallTyped, Diagnosed
<1>3. LocatedIsReferenced'
  BY DEF IInv, LocatedIsReferenced
<1>4. QED BY <1>1, <1>2, <1>3 DEF IInv
------------------------------------------------------------------------------
(* What a step of a request leaves alone. *)
LEMMA Stayed ==
  ASSUME IInv, Stays
  PROVE  /\ UNCHANGED <<disk, editor, changes, edits>>
         /\ parsed' = parsed => ParsedTyped'
BY DEF Stays, editor, ParsedTyped, IInv, TypeOK, FilesTyped

(* An answer without places. *)
LEMMA NoPlaces ==
  ASSUME NEW kind, kind # "locations"
  PROVE  GoodPlaces(Nothing(kind))
<1>1. Nothing(kind).kind = kind
  BY DEF Nothing
<1>2. QED BY <1>1, Zenon DEF GoodPlaces

(* A goal goes on with another step, and still means the same. *)
LEMMA NextStep ==
  ASSUME NEW g, IsGoal(g), OwnImport(g), NEW step \in Steps
  PROVE  LET h == [g EXCEPT !.step = step] IN IsGoal(h) /\ OwnImport(h)
<1> DEFINE h == [g EXCEPT !.step = step]
<1>1. h = [step |-> step, class |-> g.class, member |-> g.member, named |-> g.named, from |-> g.from]
  BY DEF IsGoal
<1> HIDE DEF h
<1>2. h.step = step /\ h.class = g.class /\ h.member = g.member /\ h.named = g.named /\ h.from = g.from
  BY <1>1
<1>3. IsGoal(h)
  BY <1>1, <1>2 DEF IsGoal
<1>4. OwnImport(h)
  BY <1>2, Zenon DEF OwnImport
<1>5. QED BY <1>3, <1>4 DEF h

(* A goal goes on without its member, and still means the same. *)
LEMMA NextMember ==
  ASSUME NEW g, IsGoal(g), OwnImport(g), NEW member
  PROVE  LET h == [g EXCEPT !.member = member] IN IsGoal(h) /\ OwnImport(h)
<1> DEFINE h == [g EXCEPT !.member = member]
<1>1. h = [step |-> g.step, class |-> g.class, member |-> member, named |-> g.named, from |-> g.from]
  BY DEF IsGoal
<1> HIDE DEF h
<1>2. h.step = g.step /\ h.class = g.class /\ h.member = member /\ h.named = g.named /\ h.from = g.from
  BY <1>1
<1>3. IsGoal(h)
  BY <1>1, <1>2 DEF IsGoal
<1>4. OwnImport(h)
  BY <1>2, Zenon DEF OwnImport
<1>5. QED BY <1>3, <1>4 DEF h

(* The steps of a request. *)
LEMMA ReplyKeeps ==
  ASSUME IInv, Reply
  PROVE  IInv'
<1>1. PICK kind : kind = call.goal.step
  OBVIOUS
<1>2. call # None /\ kind # "locations" /\ Replies(Nothing(kind)) /\ Stays /\ parsed' = parsed
  BY <1>1 DEF Reply, AtStep
<1>3. QED BY <1>2, NoPlaces, Stayed, Replied

LEMMA SeekMappersKeeps ==
  ASSUME IInv, SeekMappers
  PROVE  IInv'
<1>1. PICK g : g = call.goal
  OBVIOUS
<1>2. call # None /\ IsGoal(g) /\ OwnImport(g) /\ Stays /\ parsed' = parsed
  BY <1>1 DEF SeekMappers, AtStep, IInv, CallTyped
<1>3. CASE Replies(Nothing("mappers"))
  BY <1>2, <1>3, NoPlaces, Stayed, Replied
<1>4. CASE Proceeds([g EXCEPT !.step = "member"])
  <2>1. PICK h : h = [g EXCEPT !.step = "member"]
    OBVIOUS
  <2>2. IsGoal(h) /\ OwnImport(h)
    BY <1>2, <2>1, NextStep DEF Steps
  <2>3. Proceeds(h)
    BY <1>4, <2>1
  <2>4. QED BY <1>2, <2>2, <2>3, Stayed, Proceeded
<1>5. QED BY <1>1, <1>3, <1>4 DEF SeekMappers

(* The place of a member in a file that is found for a class. *)
LEMMA FoundPlace ==
  ASSUME IInv, NEW class, NEW p \in PlacesOf(disk, class), NEW line,
         line # 0 => line = MemberLine(TextAt(disk, p), call.goal.member)
  PROVE  GoodPlaces(Locations({<<p, line>>}))
<1>1. PICK m : m = call.goal.member
  OBVIOUS
<1>2. p \in File /\ line # 0 => PlaceOfMember(disk, m, <<p, line>>)
  BY <1>1, PlaceFound DEF IInv
<1>3. Locations({<<p, line>>}).locations = {<<p, line>>}
  BY DEF Locations
<1>4. <<p, line>>[1] = p /\ <<p, line>>[2] = line
  OBVIOUS
<1>5. QED BY <1>1, <1>2, <1>3, <1>4 DEF GoodPlaces

LEMMA SeekSupersKeeps ==
  ASSUME IInv, SeekSupers
  PROVE  IInv'
<1>1. PICK g, super, class :
        /\ g = call.goal /\ super = DeclaredIn(disk, call.request.file)
        /\ class = IF super = NoName THEN g.class ELSE super
  OBVIOUS
<1>2. call # None /\ IsGoal(g) /\ OwnImport(g) /\ Stays /\ parsed' = parsed
  BY <1>1 DEF SeekSupers, AtStep, IInv, CallTyped
<1>3. \/ Proceeds([g EXCEPT !.step = "mappers"])
      \/ \E p \in PlacesOf(disk, class) : Replies(Locations({<<p, MemberLine(TextAt(disk, p), g.member)>>}))
  BY <1>1 DEF SeekSupers
<1>4. CASE Proceeds([g EXCEPT !.step = "mappers"])
  <2>1. PICK h : h = [g EXCEPT !.step = "mappers"]
    OBVIOUS
  <2>2. IsGoal(h) /\ OwnImport(h)
    BY <1>2, <2>1, NextStep DEF Steps
  <2>3. Proceeds(h)
    BY <1>4, <2>1
  <2>4. QED BY <1>2, <2>2, <2>3, Stayed, Proceeded
<1>5. CASE \E p \in PlacesOf(disk, class) : Replies(Locations({<<p, MemberLine(TextAt(disk, p), g.member)>>}))
  <2>1. PICK p, line : /\ p \in PlacesOf(disk, class) /\ line = MemberLine(TextAt(disk, p), g.member)
                       /\ Replies(Locations({<<p, line>>}))
    BY <1>5
  <2>2. PICK result : result = Locations({<<p, line>>})
    OBVIOUS
  <2>3. GoodPlaces(result) /\ Replies(result)
    BY <1>1, <2>1, <2>2, FoundPlace
  <2>4. QED BY <1>2, <2>3, Stayed, Replied
<1>6. QED BY <1>3, <1>4, <1>5

LEMMA LocateKeeps ==
  ASSUME IInv, Locate
  PROVE  IInv'
<1>1. PICK g : g = call.goal
  OBVIOUS
<1>2. call # None /\ Stays /\ parsed' = parsed
  BY DEF Locate, AtStep
<1>3. CASE Replies(Nothing("error"))
  BY <1>2, <1>3, NoPlaces, Stayed, Replied
<1>4. CASE \E p \in PlacesOf(disk, g.class) :
             Replies(Locations({<<p, IF g.step = "member" THEN MemberLine(TextAt(disk, p), g.member) ELSE 0>>}))
  <2>1. PICK p, line : /\ p \in PlacesOf(disk, g.class)
                       /\ line = IF g.step = "member" THEN MemberLine(TextAt(disk, p), g.member) ELSE 0
                       /\ Replies(Locations({<<p, line>>}))
    BY <1>4
  <2>2. PICK result : result = Locations({<<p, line>>})
    OBVIOUS
  <2>3. GoodPlaces(result) /\ Replies(result)
    BY <1>1, <2>1, <2>2, FoundPlace
  <2>4. QED BY <1>2, <2>3, Stayed, Replied
<1>5. QED BY <1>1, <1>3, <1>4 DEF Locate

(* What implements a class in the files, the requesting document aside,    *)
(* and in the libraries.                                                   *)
LEMMA ImplementationPlaces ==
  ASSUME IInv, NEW file, NEW text, NEW class, NEW member,
         NEW p \in Implementations(disk, file, text, class, member), p[1] \in File, p[2] # 0,
         p[1] = file => text = disk[file]
  PROVE  PlaceOfMember(disk, member, p)
<1> DEFINE docs == [disk EXCEPT ![file] = IF @ = None THEN None ELSE text]
<1>1. PICK f \in File : docs[f] # None /\ p = <<f, MemberLine(docs[f], member)>>
  BY DEF Implementations
<1>2. p[1] = f /\ p[2] = MemberLine(docs[f], member)
  BY <1>1
<1>3. docs[f] = disk[f]
  <2>1. CASE f = file
    BY <1>2, <2>1 DEF IInv, FilesTyped
  <2>2. CASE f # file
    BY <2>2 DEF IInv, FilesTyped
  <2>3. QED BY <2>1, <2>2
<1> HIDE DEF docs
<1>4. disk[f] # None /\ MemberLine(disk[f], member) # 0
  BY <1>1, <1>2, <1>3
<1>5. disk[f] \in Infos
  BY <1>4 DEF IInv, FilesTyped, Infos, AllTexts
<1>6. QED BY <1>1, <1>3, <1>4, <1>5, MemberPlaced

LEMMA SeekImplementationsKeeps ==
  ASSUME IInv, SeekImplementations
  PROVE  IInv'
<1>1. PICK g, file, text, own, libraries :
        /\ g = call.goal /\ file = call.request.file /\ text = call.text
        /\ own = Implementations(disk, file, text, g.class, g.member)
        /\ libraries = LibraryImplementations(g.class, g.member)
  OBVIOUS
<1>2. call # None /\ IsGoal(g) /\ OwnImport(g) /\ Stays /\ parsed' = parsed
  BY <1>1 DEF SeekImplementations, AtStep, IInv, CallTyped
<1>3. \/ Replies(Locations(own)) \/ Replies(Locations(libraries))
      \/ Proceeds([g EXCEPT !.step = "member"])
  <2>1. PICK some : /\ \/ some = libraries \/ some = {}
                    /\ IF own # {} THEN Replies(Locations(own))
                       ELSE IF some # {} THEN Replies(Locations(some))
                       ELSE Proceeds([g EXCEPT !.step = "member"])
    BY <1>1 DEF SeekImplementations
  <2>2. QED BY <2>1
<1>4. CASE Replies(Locations(own))
  <2>1. PICK result : result = Locations(own)
    OBVIOUS
  <2>2. result.locations = own
    BY <2>1 DEF Locations
  <2>3. GoodPlaces(result)
    <3>1. ASSUME NEW p \in own, p[1] \in File, p[2] # 0, p[1] = file => text = disk[p[1]]
          PROVE  PlaceOfMember(disk, g.member, p)
      <4>1. p \in Implementations(disk, file, text, g.class, g.member)
        BY <1>1
      <4>2. p[1] = file => text = disk[file]
        BY <3>1
      <4>3. QED BY <3>1, <4>1, <4>2, ImplementationPlaces
    <3>2. QED BY <1>1, <2>2, <3>1 DEF GoodPlaces
  <2>4. QED BY <1>2, <1>4, <2>1, <2>3, Stayed, Replied
<1>5. CASE Replies(Locations(libraries))
  <2>1. PICK result : result = Locations(libraries)
    OBVIOUS
  <2>2. result.locations = libraries
    BY <2>1 DEF Locations
  <2>3. \A p \in libraries : p[1] \notin File
    BY <1>1, NoLibraryFile DEF LibraryImplementations
  <2>4. GoodPlaces(result)
    BY <2>2, <2>3 DEF GoodPlaces
  <2>5. QED BY <1>2, <1>5, <2>1, <2>4, Stayed, Replied
<1>6. CASE Proceeds([g EXCEPT !.step = "member"])
  <2>1. PICK h : h = [g EXCEPT !.step = "member"]
    OBVIOUS
  <2>2. IsGoal(h) /\ OwnImport(h)
    BY <1>2, <2>1, NextStep DEF Steps
  <2>3. Proceeds(h)
    BY <1>6, <2>1
  <2>4. QED BY <1>2, <2>2, <2>3, Stayed, Proceeded
<1>7. QED BY <1>3, <1>4, <1>5, <1>6

LEMMA FindSourceKeeps ==
  ASSUME IInv, FindSource
  PROVE  IInv'
<1>1. call # None /\ call.goal.step = "type" /\ Stays /\ parsed' = parsed
  BY DEF FindSource, AtStep
<1>2. CASE Replies(Nothing("error"))
  BY <1>1, <1>2, NoPlaces, Stayed, Replied
<1>3. CASE \E p \in PlacesOf(disk, call.goal.class) : call' = [call EXCEPT !.path = p] /\ UNCHANGED answer
  <2>1. PICK p : p \in PlacesOf(disk, call.goal.class) /\ call' = [call EXCEPT !.path = p] /\ answer' = answer
    BY <1>3
  <2>2. p \in File \union DOMAIN Library
    BY <2>1, PlacesExist
  <2>3. call' = [request |-> call.request, text |-> call.text, goal |-> call.goal, path |-> p]
    <3>1. call = [request |-> call.request, text |-> call.text, goal |-> call.goal, path |-> call.path]
      BY <1>1 DEF IInv, CallTyped
    <3>2. QED BY <2>1, <3>1
  <2>4. call'.request = call.request /\ call'.text = call.text /\ call'.goal = call.goal /\ call'.path = p
    BY <2>3
  <2>5. UNCHANGED <<disk, documents, published, current, parsed, changes, edits>>
    BY <1>1 DEF Stays, editor
  <2>6. TypeOK'
    BY <1>1, <2>1, <2>4, <2>5 DEF IInv, TypeOK
  <2>7. FilesTyped' /\ Diagnosed'
    BY <2>5 DEF IInv, FilesTyped, Diagnosed
  <2>8. CallTyped'
    BY <1>1, <2>2, <2>3, <2>4 DEF IInv, CallTyped
  <2>9. LocatedIsReferenced'
    <3>1. answer' = None
      BY <1>1, <2>1 DEF IInv, TypeOK
    <3>2. QED BY <3>1 DEF LocatedIsReferenced
  <2>10. QED BY <2>6, <2>7, <2>8, <2>9 DEF IInv
<1>4. QED BY <1>2, <1>3 DEF FindSource

(* What is read of a place is a text of it. *)
LEMMA InfoRead ==
  ASSUME IInv, NEW path \in File \union DOMAIN Library
  PROVE  /\ InfoOf(path) \in Infos
         /\ path \in File => InfoOf(path) \in TextsOf(path) \union {EmptyText}
<1>1. CASE path \in File
  <2>1. /\ disk[path] \in TextsOf(path) \union {None}
        /\ parsed[path] \in TextsOf(path) \union {None, EmptyText}
    BY <1>1, Zenon DEF IInv, TypeOK
  <2>2. InfoOf(path) \in TextsOf(path) \union {EmptyText}
    BY <1>1, <2>1 DEF InfoOf
  <2>3. QED BY <1>1, <2>2, TextsOfFiles DEF Infos, AllTexts
<1>2. CASE path \notin File
  BY <1>2 DEF InfoOf, Infos, AllTexts
<1>3. QED BY <1>1, <1>2

(* hover, with what was read: it answers or goes on with another goal. *)
LEMMA DescribeKeeps ==
  ASSUME IInv, call # None, ParsedTyped', Stays, NEW info \in Infos, Describe(info)
  PROVE  IInv'
<1>1. PICK g, t, sh, l : g = call.goal /\ t = call.text /\ sh = shared /\ l = call.request.line
  OBVIOUS
<1>2. IsGoal(g) /\ OwnImport(g) /\ t \in Infos
  BY <1>1, TextsOfFiles DEF IInv, CallTyped, TypeOK, Infos, AllTexts
<1>3. \/ \E result : result.kind \in {"type", "method"} /\ Replies(result)
      \/ Proceeds([g EXCEPT !.member = NoMember])
      \/ Proceeds(WordGoal("hover", t, l, sh))
  <2>1. PICK type, method :
          /\ type = [kind |-> "type", class |-> ParsedClass(info)]
          /\ method = [kind |-> "method",
                      method |-> Head(MethodsNamed(Methods(info, SetToSeq(DOMAIN Fields(info))), g.member))]
    OBVIOUS
  <2>2. \/ Replies(type) \/ Replies(method) \/ Proceeds([g EXCEPT !.member = NoMember])
        \/ Proceeds(WordGoal("hover", t, l, sh))
    BY <1>1, <2>1, Zenon DEF Describe
  <2>3. type.kind = "type" /\ method.kind = "method"
    BY <2>1
  <2>4. QED BY <2>2, <2>3
<1>4. CASE \E result : result.kind \in {"type", "method"} /\ Replies(result)
  <2>1. PICK result : result.kind \in {"type", "method"} /\ Replies(result)
    BY <1>4
  <2>2. GoodPlaces(result)
    BY <2>1 DEF GoodPlaces
  <2>3. QED BY <2>1, <2>2, Stayed, Replied
<1>5. CASE Proceeds([g EXCEPT !.member = NoMember])
  <2>1. PICK h : h = [g EXCEPT !.member = NoMember]
    OBVIOUS
  <2>2. IsGoal(h) /\ OwnImport(h)
    BY <1>2, <2>1, NextMember
  <2>3. Proceeds(h)
    BY <1>5, <2>1
  <2>4. QED BY <2>2, <2>3, Stayed, Proceeded
<1>6. CASE Proceeds(WordGoal("hover", t, l, sh))
  BY <1>2, <1>6, WordGoals, Stayed, Proceeded
<1>7. QED BY <1>3, <1>4, <1>5, <1>6

(* typeDefinition goes on with a name resolved in the text that was read. *)
LEMMA DescribeReturnTypeKeeps ==
  ASSUME IInv, call # None, ParsedTyped', Stays, NEW info \in Infos, DescribeReturnType(info)
  PROVE  IInv'
<1>1. PICK n, sh, class :
        /\ sh = shared /\ class = ResolveTypeNameWithWorkspace(info, sh, n)
        /\ n = Head(Head(MethodsNamed(Methods(info, SetToSeq(DOMAIN Fields(info))), call.goal.member)).returns.names)
  OBVIOUS
<1>2. CASE Replies(Nothing("empty"))
  BY <1>2, NoPlaces, Stayed, Replied
<1>3. CASE Proceeds(Goal("declaration", class, NoMember, n, info))
  <2>1. "declaration" \in Steps
    BY DEF Steps
  <2>2. PICK goal : goal = Goal("declaration", class, NoMember, n, info)
    OBVIOUS
  <2>3. IsGoal(goal) /\ OwnImport(goal)
    BY <1>1, <2>1, <2>2, NamedGoal
  <2>4. QED BY <1>3, <2>2, <2>3, Stayed, Proceeded
<1>4. QED BY <1>1, <1>2, <1>3 DEF DescribeReturnType

(* A list is no places. *)
LEMMA ListKeeps ==
  ASSUME IInv, call # None, ParsedTyped', Stays, NEW info, NEW items, Replies(List(info, items))
  PROVE  IInv'
<1>1. PICK result : result = List(info, items)
  OBVIOUS
<1>2. result.kind = "list"
  BY <1>1 DEF List
<1>3. GoodPlaces(result)
  BY <1>2 DEF GoodPlaces
<1>4. QED BY <1>1, <1>3, Stayed, Replied

(* A source is read, and kept as parsed. *)
LEMMA ReadSourceKeeps ==
  ASSUME IInv, ReadSource
  PROVE  IInv'
<1>1. PICK path, info : path = call.path /\ info = InfoOf(path)
  OBVIOUS
<1>2. call # None /\ path # None /\ Stays
  BY <1>1 DEF ReadSource, AtStep
<1>3. path \in File \union DOMAIN Library
  BY <1>1, <1>2 DEF IInv, CallTyped
<1>4. /\ info \in Infos
      /\ path \in File => info \in TextsOf(path) \union {EmptyText}
  BY <1>1, <1>3, InfoRead
<1>5. ParsedTyped'
  <2>1. parsed' = [f \in File |-> IF f = path THEN info ELSE parsed[f]]
    BY <1>1 DEF ReadSource
  <2>2. \A f \in File : parsed'[f] \in TextsOf(f) \union {None, EmptyText}
    BY <1>4, <2>1 DEF IInv, TypeOK
  <2>3. \A f \in File : TextsOf(f) \subseteq Texts
    BY TextsOfFiles
  <2>4. parsed' \in [File -> Texts \union {None, EmptyText}]
    BY <2>1, <2>2, <2>3
  <2>5. QED BY <2>2, <2>4 DEF ParsedTyped
<1>6. CASE Describe(info)
  BY <1>2, <1>4, <1>5, <1>6, DescribeKeeps
<1>7. CASE DescribeReturnType(info)
  BY <1>2, <1>4, <1>5, <1>7, DescribeReturnTypeKeeps
<1>8. CASE ListMembers(info)
  <2>1. PICK items : Replies(List(info, items))
    BY <1>8 DEF ListMembers
  <2>2. QED BY <1>2, <1>5, <2>1, ListKeeps
<1>9. QED BY <1>1, <1>6, <1>7, <1>8 DEF ReadSource

LEMMA ListScopeKeeps ==
  ASSUME IInv, ListScope
  PROVE  IInv'
<1>1. PICK info : info = call.text
  OBVIOUS
<1>2. call # None /\ Stays /\ parsed' = parsed
  BY DEF ListScope, AtStep
<1>3. PICK items : Replies(List(info, items))
  BY <1>1 DEF ListScope
<1>4. QED BY <1>2, <1>3, Stayed, ListKeeps
------------------------------------------------------------------------------
(* IInv is inductive. *)
LEMMA Inductive ==
  ASSUME IInv, [Next]_vars
  PROVE  IInv'
<1>1. ASSUME NEW f \in File, Ask(f)
      PROVE  IInv'
  <2>1. PICK l : AskPlace(f, l) \/ AskMeaning(f, l) \/ AskCompletion(f, l) \/ AskReferences(f, l)
    BY <1>1 DEF Ask
  <2>2. QED BY <2>1, AskPlaceKeeps, AskMeaningKeeps, AskCompletionKeeps, AskReferencesKeeps
<1>2. ASSUME NEW f \in File, EditDocument(f)
      PROVE  IInv'
  BY <1>2, EditDocumentKeeps
<1>3. ASSUME NEW f \in File, CloseDocument(f)
      PROVE  IInv'
  BY <1>3, CloseDocumentKeeps
<1>4. ASSUME NEW f \in File, ChangeFile(f)
      PROVE  IInv'
  BY <1>4, ChangeFileKeeps
<1>5. CASE Prewarm
  BY <1>5, StutterKeeps DEF Prewarm, editor
<1>6. CASE TakeAnswer
  BY <1>6, StutterKeeps DEF TakeAnswer, Forgets, editor, caches
<1>7. CASE UNCHANGED vars
  BY <1>7, StutterKeeps DEF vars
<1>8. QED
  BY <1>1, <1>2, <1>3, <1>4, <1>5, <1>6, <1>7, ReplyKeeps, SeekMappersKeeps, SeekSupersKeeps,
     SeekImplementationsKeeps, LocateKeeps, FindSourceKeeps, ReadSourceKeeps, ListScopeKeeps
  DEF Next

(* The inductive invariant: a request is about a text its document had,    *)
(* its goal is what that text, or the one it went on to, imports, and what *)
(* is diagnosed is diagnosed of the open documents and the files there are.*)
THEOREM Invariant == Spec => []IInv
<1>1. Init => IInv
  BY Initially
<1>2. IInv /\ [Next]_vars => IInv'
  BY Inductive
<1>3. QED BY <1>1, <1>2, PTL DEF Spec
------------------------------------------------------------------------------
(* Every variable keeps its type (the server's maps of documents and       *)
(* parsed types, the request at work), whatever is asked and edited.       *)
THEOREM TypeCorrect == Spec => []TypeOK
<1>1. IInv => TypeOK
  BY DEF IInv
<1>2. QED BY <1>1, Invariant, PTL

(* In every request, a name means what the text it stands in imports under *)
(* it, whatever the workspace imports and the caches hold.                 *)
THEOREM OwnImports == Spec => []OwnImportsWin
<1>1. IInv => OwnImportsWin
  BY Zenon DEF IInv, CallTyped, OwnImport, OwnImportsWin
<1>2. QED BY <1>1, Invariant, PTL

(* The place answered for a member is among the member's references, or    *)
(* names a longer member that ends in it, and is never below a declaration *)
(* of the member, unless it is in the requesting document and edited.      *)
THEOREM Located == Spec => []LocatedIsReferenced
<1>1. IInv => LocatedIsReferenced
  BY DEF IInv
<1>2. QED BY <1>1, Invariant, PTL

(* Hover and definition resolve a name of the text to the same class,      *)
(* unless it is only the workspace that imports it.                        *)
LEMMA ResolvedAlike ==
  ASSUME NEW t, NEW sh, NEW n
  PROVE  \/ ResolveTypeNameWithWorkspace(t, sh, n) = ResolveTypeName(t, n)
         \/ n.package = Empty /\ n.name \in DOMAIN sh \ DOMAIN t.imports
BY DEF ResolveTypeNameWithWorkspace, ResolveTypeName

(* What is diagnosed as unresolved is what is not found. *)
LEMMA DiagnosedNotFound ==
  ASSUME NEW d, NEW t \in Infos, NEW l \in DOMAIN t.lines, NEW n \in NamesOn(t.lines[l])
  PROVE  <<l, n>> \in UnresolvedTypes(d, t)
           <=> /\ PlacesOf(d, ResolveTypeName(t, n)) = {}
               /\ ~(n.package = Empty /\ n.name \in Builtin)
<1> DEFINE line == t.lines[l]
           class == ResolveTypeName(t, n)
           shown == UNION {{k} \X TypeNamesOn(d, t.lines[k]) : k \in DOMAIN t.lines}
<1>1. <<l, n>>[1] = l /\ <<l, n>>[2] = n
  OBVIOUS
<1>2. <<l, n>> \in shown <=> n \in TypeNamesOn(d, line)
  OBVIOUS
<1>3. <<l, n>> \in UnresolvedTypes(d, t)
        <=> <<l, n>> \in shown /\ ~(n.package = Empty /\ n.name \in Builtin) /\ ~Exists(d, class)
  BY <1>1 DEF UnresolvedTypes
<1>4. n \notin TypeNamesOn(d, line) => Exists(d, class)
  <2>1. SUFFICES ASSUME line.kind = "import", Exists(d, line.class)
                 PROVE  Exists(d, class)
    BY DEF TypeNamesOn
  <2>2. n = Word(line.class.name)
    BY <2>1 DEF NamesOn
  <2>3. n.package = Empty /\ n.name = line.class.name
    BY <2>2 DEF Word
  <2>4. line.class.name \in DOMAIN t.imports /\ t.imports[line.class.name] = line.class
    BY <2>1, TextParts
  <2>5. class = line.class
    BY <2>3, <2>4, OwnImportFirst
  <2>6. QED BY <2>1, <2>5
<1> HIDE DEF line, class, shown
<1>5. PlacesOf(d, class) = {} <=> ~Exists(d, class)
  BY PlacesExist
<1>6. QED BY <1>2, <1>3, <1>4, <1>5 DEF class

(* Diagnostics (of the last check), hover and definition agree on the      *)
(* types an open document names.                                           *)
THEOREM Agree == Spec => []FeaturesAgree
<1>1. IInv => FeaturesAgree
  <2>1. SUFFICES ASSUME IInv, NEW f \in File, documents[f] # None,
                        NEW l \in DOMAIN documents[f].lines, NEW n \in NamesOn(documents[f].lines[l])
                 PROVE  LET t == documents[f]
                            class == ResolveTypeName(t, n)
                        IN /\ \/ ResolveTypeNameWithWorkspace(t, SharedImports, n) = class
                              \/ n.package = Empty /\ n.name \in DOMAIN SharedImports \ DOMAIN t.imports
                           /\ f \in current =>
                                (<<l, n>> \in published[f] <=> /\ PlacesOf(disk, class) = {}
                                                              /\ ~(n.package = Empty /\ n.name \in Builtin))
    BY Zenon DEF FeaturesAgree
  <2>2. PICK t, sh, d : t = documents[f] /\ sh = SharedImports /\ d = disk
    OBVIOUS
  <2>3. t \in Infos
    BY <2>1, <2>2 DEF IInv, FilesTyped, Infos, AllTexts
  <2>4. \/ ResolveTypeNameWithWorkspace(t, sh, n) = ResolveTypeName(t, n)
        \/ n.package = Empty /\ n.name \in DOMAIN sh \ DOMAIN t.imports
    BY ResolvedAlike
  <2>5. <<l, n>> \in UnresolvedTypes(d, t)
          <=> /\ PlacesOf(d, ResolveTypeName(t, n)) = {}
              /\ ~(n.package = Empty /\ n.name \in Builtin)
    BY <2>1, <2>2, <2>3, DiagnosedNotFound
  <2>6. f \in current => published[f] = UnresolvedTypes(d, t)
    BY <2>1, <2>2 DEF IInv, Diagnosed
  <2>7. QED BY <2>2, <2>4, <2>5, <2>6
<1>2. QED BY <1>1, Invariant, PTL

(* From a method of a class, declaration leads to the interface that       *)
(* declares it, and implementation from there back to the class.           *)
THEOREM ImplementedThere == Spec => []ImplementedWhereDeclared
<1>1. IInv => ImplementedWhereDeclared
  <2>1. SUFFICES ASSUME IInv, NEW f \in File, disk[f] # None, NEW g \in File, disk[g] # None,
                        documents[g] \in {None, disk[g]},
                        g \in Declaring(disk, DeclaredIn(disk, f))
                 PROVE  \E p \in Implementations(disk, g, DocumentText(g), DeclaredClass(disk[g]), NoMember) :
                          p[1] = f
    BY DEF ImplementedWhereDeclared
  <2> DEFINE supers == SplitTypeList(disk[f])
             found == {i \in DOMAIN supers : Exists(disk, ResolveTypeName(disk[f], supers[i]))}
             class == DeclaredClass(disk[g])
             docs == [disk EXCEPT ![g] = IF @ = None THEN None ELSE DocumentText(g)]
  <2>2. DocumentText(g) = disk[g]
    BY <2>1 DEF DocumentText
  <2>3. docs = disk
    BY <2>1, <2>2 DEF IInv, FilesTyped
  <2>4. class = DeclaredIn(disk, f) /\ disk[g].heading # Empty
    BY <2>1 DEF Declaring, DeclaresNothing
  <2>5. class # NoName
    <3>1. class.name = disk[g].heading
      BY DEF DeclaredClass
    <3>2. NoName.name = Empty
      BY DEF NoName, Word
    <3> HIDE DEF class
    <3>3. QED BY <2>4, <3>1, <3>2
  <2>6. DeclaredIn(disk, f) = IF found = {} THEN NoName ELSE ResolveTypeName(disk[f], supers[Min(found)])
    BY <2>1, Zenon DEF DeclaredIn
  <2>7. disk[f] \in Infos
    BY <2>1 DEF IInv, FilesTyped, Infos, AllTexts
  <2>8. found \subseteq Nat
    BY <2>7, TextParts
  <2> HIDE DEF found
  <2>9. found # {} /\ class = ResolveTypeName(disk[f], supers[Min(found)])
    BY <2>4, <2>5, <2>6
  <2>10. Min(found) \in DOMAIN supers
    <3>1. Min(found) \in found
      BY <2>8, <2>9, MinIn
    <3>2. QED BY <3>1 DEF found
  <2>11. SourceImplementsType(disk[f], class)
    <3>1. supers[Min(found)] \in ToSet(supers)
      BY <2>10 DEF ToSet
    <3>2. QED BY <2>9, <3>1, Zenon DEF SourceImplementsType
  <2>12. <<f, MemberLine(docs[f], NoMember)>> \in Implementations(disk, g, DocumentText(g), class, NoMember)
    BY <2>1, <2>3, <2>11, Zenon DEF Implementations
  <2>13. QED BY <2>12
<1>2. QED BY <1>1, Invariant, PTL
------------------------------------------------------------------------------
(* Completion lists.  An order of a finite set: B says which element is    *)
(* before which, and the place of an element is how many are before it.    *)
Orders(B, S) ==
  /\ \A i \in S : <<i, i>> \notin B
  /\ \A i, j \in S : i # j => <<i, j>> \in B \/ <<j, i>> \in B
  /\ \A i, j, k \in S : <<i, j>> \in B /\ <<j, k>> \in B => <<i, k>> \in B
Place(B, S, i) == Cardinality({j \in S : <<j, i>> \in B})

(* The places are 0 to n - 1, each taken once, in the order of B. *)
LEMMA PlacesInOrder ==
  \A S, B : IsFiniteSet(S) /\ Orders(B, S) =>
    /\ Cardinality(S) \in Nat
    /\ \A i \in S : Place(B, S, i) \in 0..(Cardinality(S) - 1)
    /\ \A i, j \in S : <<i, j>> \in B <=> Place(B, S, i) < Place(B, S, j)
    /\ \A i, j \in S : Place(B, S, i) = Place(B, S, j) => i = j
    /\ \A k \in 0..(Cardinality(S) - 1) : \E i \in S : Place(B, S, i) = k
<1> SUFFICES ASSUME NEW S, NEW B, IsFiniteSet(S), Orders(B, S)
             PROVE  /\ Cardinality(S) \in Nat
                    /\ \A i \in S : Place(B, S, i) \in 0..(Cardinality(S) - 1)
                    /\ \A i, j \in S : <<i, j>> \in B <=> Place(B, S, i) < Place(B, S, j)
                    /\ \A i, j \in S : Place(B, S, i) = Place(B, S, j) => i = j
                    /\ \A k \in 0..(Cardinality(S) - 1) : \E i \in S : Place(B, S, i) = k
  OBVIOUS
<1> DEFINE Below(i) == {j \in S : <<j, i>> \in B}
           n == Cardinality(S)
<1>1. n \in Nat
  BY FS_CardinalityType
<1>2. ASSUME NEW i \in S
      PROVE  IsFiniteSet(Below(i)) /\ Cardinality(Below(i)) \in Nat
  <2>1. Below(i) \in SUBSET S
    OBVIOUS
  <2> HIDE DEF Below
  <2>2. QED BY <2>1, FS_Subset, FS_CardinalityType
<1>3. ASSUME NEW i \in S
      PROVE  Cardinality(Below(i)) \in 0..(n - 1)
  <2>1. Below(i) \in SUBSET (S \ {i})
    BY DEF Orders
  <2>2. IsFiniteSet(S \ {i}) /\ Cardinality(S \ {i}) = n - 1
    BY FS_RemoveElement
  <2> HIDE DEF Below, n
  <2>3. Cardinality(Below(i)) <= n - 1
    BY <2>1, <2>2, FS_Subset
  <2>4. QED BY <1>1, <1>2, <2>3
<1>4. ASSUME NEW i \in S, NEW j \in S, <<i, j>> \in B
      PROVE  Cardinality(Below(i)) < Cardinality(Below(j))
  <2>1. Below(i) \subseteq Below(j)
    BY <1>4 DEF Orders
  <2>2. i \in Below(j) /\ i \notin Below(i)
    BY <1>4 DEF Orders
  <2> HIDE DEF Below
  <2>3. Cardinality(Below(i)) <= Cardinality(Below(j)) /\ Cardinality(Below(i)) # Cardinality(Below(j))
    BY <1>2, <2>1, <2>2, FS_Subset
  <2>4. QED BY <1>2, <2>3
<1>5. \A i \in S : Place(B, S, i) = Cardinality(Below(i))
  BY DEF Place
<1>6. \A i, j \in S : Place(B, S, i) = Place(B, S, j) => i = j
  <2> SUFFICES ASSUME NEW i \in S, NEW j \in S, Place(B, S, i) = Place(B, S, j), i # j
               PROVE  FALSE
    OBVIOUS
  <2>1. <<i, j>> \in B \/ <<j, i>> \in B
    BY DEF Orders
  <2>2. Cardinality(Below(i)) = Cardinality(Below(j))
    BY <1>5
  <2> HIDE DEF Below
  <2>3. QED BY <1>2, <1>4, <2>1, <2>2
<1>7. \A i, j \in S : <<i, j>> \in B <=> Place(B, S, i) < Place(B, S, j)
  <2> SUFFICES ASSUME NEW i \in S, NEW j \in S
               PROVE  <<i, j>> \in B <=> Cardinality(Below(i)) < Cardinality(Below(j))
    BY <1>5
  <2>1. i # j => <<i, j>> \in B \/ <<j, i>> \in B
    BY DEF Orders
  <2> HIDE DEF Below
  <2>2. QED BY <1>2, <1>4, <2>1
<1>8. \A k \in 0..(n - 1) : \E i \in S : Place(B, S, i) = k
  <2> DEFINE T == 0..(n - 1)
             place == [i \in S |-> Place(B, S, i)]
  <2>1. IsFiniteSet(T) /\ Cardinality(T) = n
    BY <1>1, FS_Interval
  <2>2. place \in Injection(S, T)
    <3>1. place \in [S -> T]
      BY <1>3, <1>5
    <3>2. \A i, j \in S : place[i] = place[j] => i = j
      BY <1>6
    <3> HIDE DEF place, T
    <3>3. QED BY <3>1, <3>2 DEF Injection, IsInjective
  <2> HIDE DEF place, T
  <2>3. place \in Surjection(S, T)
    BY <2>1, <2>2, FS_Injection
  <2>4. \A k \in T : \E i \in S : place[i] = k
    BY <2>3 DEF Surjection
  <2>5. QED BY <2>4 DEF place, T
<1>9. \A i \in S : Place(B, S, i) \in 0..(n - 1)
  BY <1>3, <1>5
<1>10. QED BY <1>1, <1>6, <1>7, <1>8, <1>9

------------------------------------------------------------------------------
(* So they can be numbered in that order. *)
Nth(B, S, k) == CHOOSE i \in S : Place(B, S, i) = k - 1

LEMMA Numbered ==
  ASSUME NEW S, IsFiniteSet(S), NEW B, Orders(B, S)
  PROVE  /\ Cardinality(S) \in Nat
         /\ \A k \in 1..Cardinality(S) : Nth(B, S, k) \in S
         /\ \A k \in 1..Cardinality(S) : Place(B, S, Nth(B, S, k)) = k - 1
         /\ \A i \in S : \E k \in 1..Cardinality(S) : Nth(B, S, k) = i
         /\ \A k, l \in 1..Cardinality(S) : k < l => <<Nth(B, S, k), Nth(B, S, l)>> \in B
<1>1. Cardinality(S) \in Nat
  BY PlacesInOrder
<1>2. ASSUME NEW k \in 1..Cardinality(S)
      PROVE  Nth(B, S, k) \in S /\ Place(B, S, Nth(B, S, k)) = k - 1
  <2>1. k - 1 \in 0..(Cardinality(S) - 1)
    BY <1>1
  <2>2. \E i \in S : Place(B, S, i) = k - 1
    BY <2>1, PlacesInOrder
  <2>3. QED BY <2>2, Zenon DEF Nth
<1>3. ASSUME NEW i \in S
      PROVE  \E k \in 1..Cardinality(S) : Nth(B, S, k) = i
  <2>1. Place(B, S, i) \in 0..(Cardinality(S) - 1)
    BY PlacesInOrder
  <2>2. Place(B, S, i) + 1 \in 1..Cardinality(S) /\ (Place(B, S, i) + 1) - 1 = Place(B, S, i)
    BY <1>1, <2>1
  <2>3. Nth(B, S, Place(B, S, i) + 1) \in S /\ Place(B, S, Nth(B, S, Place(B, S, i) + 1)) = Place(B, S, i)
    BY <1>2, <2>2
  <2>4. QED BY <2>2, <2>3, PlacesInOrder
<1>4. ASSUME NEW k \in 1..Cardinality(S), NEW l \in 1..Cardinality(S), k < l
      PROVE  <<Nth(B, S, k), Nth(B, S, l)>> \in B
  <2>1. Place(B, S, Nth(B, S, k)) < Place(B, S, Nth(B, S, l))
    BY <1>1, <1>2, <1>4
  <2>2. QED BY <1>2, <2>1, PlacesInOrder
<1>5. QED BY <1>1, <1>2, <1>3, <1>4

(* Selected keeps the order: what is at some positions of a sequence. *)
IsSelection(q, s, at, m) ==
  /\ m \in Nat /\ q = [k \in 1..m |-> q[k]]
  /\ \E place \in [1..m -> at] :
       /\ \A k \in 1..m : q[k] = s[place[k]]
       /\ \A k, l \in 1..m : (k < l => place[k] < place[l]) /\ (place[k] = place[l] => k = l)
       /\ \A i \in at : \E k \in 1..m : place[k] = i

LEMMA SelectedIs ==
  ASSUME NEW n \in Nat, NEW s, NEW at, at \subseteq 1..n
  PROVE  IsSelection(Selected(s, at), s, at, Cardinality(at))
<1>1. PICK B : B = {p \in at \X at : p[1] < p[2]}
  OBVIOUS
<1>2. IsFiniteSet(at)
  <2>1. IsFiniteSet(1..n)
    BY FS_Interval
  <2>2. QED BY <2>1, FS_Subset
<1>3. Orders(B, at)
  BY <1>1 DEF Orders
<1>4. ASSUME NEW i \in at
      PROVE  Place(B, at, i) = Cardinality({j \in at : j < i})
  <2>1. {j \in at : <<j, i>> \in B} = {j \in at : j < i}
    BY <1>1
  <2>2. QED BY <2>1 DEF Place
<1> DEFINE m == Cardinality(at)
           place == [k \in 1..m |-> Nth(B, at, k)]
<1>5. Selected(s, at) = [k \in 1..m |-> s[Nth(B, at, k)]]
  <2>1. \A k : Nth(B, at, k) = CHOOSE i \in at : Cardinality({j \in at : j < i}) = k - 1
    BY <1>4 DEF Nth
  <2>2. Selected(s, at) = [k \in 1..m |-> s[CHOOSE i \in at : Cardinality({j \in at : j < i}) = k - 1]]
    BY Zenon DEF Selected, Arranged
  <2> HIDE DEF m
  <2>3. QED BY <2>1, <2>2, Zenon
<1>6. m \in Nat /\ (\A k \in 1..m : Nth(B, at, k) \in at)
  BY <1>2, <1>3, Numbered, Zenon
<1>7. \A i \in at : \E k \in 1..m : Nth(B, at, k) = i
  BY <1>2, <1>3, Numbered
<1>8. \A k, l \in 1..m : k < l => <<Nth(B, at, k), Nth(B, at, l)>> \in B
  BY <1>2, <1>3, Numbered, Zenon
<1>9. place \in [1..m -> at] /\ \A k \in 1..m : place[k] = Nth(B, at, k)
  <2> HIDE DEF m
  <2>1. QED BY <1>6
<1> HIDE DEF place, m
<1>10. \A k \in 1..m : Selected(s, at)[k] = s[place[k]]
  BY <1>5, <1>9
<1>11. \A k, l \in 1..m : (k < l => place[k] < place[l]) /\ (place[k] = place[l] => k = l)
  <2>1. \A i, j \in at : <<i, j>> \in B => i < j
    BY <1>1
  <2>2. \A k, l \in 1..m : k < l => place[k] < place[l]
    BY <1>8, <1>9, <2>1
  <2>3. \A k, l \in 1..m : k < l \/ l < k \/ k = l
    BY <1>6
  <2>4. \A i \in at : i \in Nat
    OBVIOUS
  <2>5. \A k \in 1..m : place[k] \in at
    BY <1>9, Zenon
  <2>6. \A k \in 1..m : place[k] \in Nat
    BY <2>4, <2>5, Zenon
  <2>7. QED BY <2>2, <2>3, <2>6
<1>12. \A i \in at : \E k \in 1..m : place[k] = i
  BY <1>7, <1>9
<1>13. Selected(s, at) = [k \in 1..m |-> Selected(s, at)[k]]
  BY <1>5
<1>14. QED BY <1>6, <1>9, <1>10, <1>11, <1>12, <1>13, Zenon DEF m, IsSelection

(* Positions whose key no earlier one has: one for each key, the first. *)
FirstOf(key, n) == {i \in 1..n : \A j \in 1..(i - 1) : key[j] # key[i]}

LEMMA FirstOfKey ==
  \A n \in Nat : \A key : \A i \in 1..n : \E j \in FirstOf(key, n) : j <= i /\ key[j] = key[i]
<1> SUFFICES ASSUME NEW n \in Nat, NEW key, NEW i \in 1..n
             PROVE  \E j \in FirstOf(key, n) : j <= i /\ key[j] = key[i]
  OBVIOUS
<1> DEFINE T == {j \in 1..n : key[j] = key[i]}
<1>1. T \subseteq Nat /\ i \in T
  OBVIOUS
<1>2. PICK j \in T : \A k \in T : j <= k
  <2> HIDE DEF T
  <2>1. QED BY <1>1, LeastNumber
<1>3. QED BY <1>1, <1>2 DEF FirstOf

LEMMA FirstOnce ==
  ASSUME NEW n \in Nat, NEW key, NEW i \in FirstOf(key, n), NEW j \in FirstOf(key, n), key[i] = key[j]
  PROVE  i = j
BY DEF FirstOf

(* Two sequences of values in sections: the same values with the same keys *)
(* in each section, one value for a key, and each section after those      *)
(* before it.  Then the first value of a key is the same in both.          *)
InSections(n, section) ==
  /\ n \in Nat /\ section \in [1..n -> Nat]
  /\ \A i, j \in 1..n : i < j => section[i] <= section[j]
Alike(n1, n2, section1, section2, key1, key2, x1, x2) ==
  /\ \A i \in 1..n1 : \E j \in 1..n2 : section1[i] = section2[j] /\ key1[i] = key2[j] /\ x1[i] = x2[j]
  /\ \A j \in 1..n2 : \E i \in 1..n1 : section1[i] = section2[j] /\ key1[i] = key2[j]
  /\ \A i, j \in 1..n2 : section2[i] = section2[j] /\ key2[i] = key2[j] => x2[i] = x2[j]

LEMMA FirstsAgree ==
  ASSUME NEW n1, NEW n2, NEW x1, NEW x2, NEW key1, NEW key2, NEW section1, NEW section2,
         InSections(n1, section1), InSections(n2, section2),
         Alike(n1, n2, section1, section2, key1, key2, x1, x2)
  PROVE  \A i \in FirstOf(key1, n1) : \E j \in FirstOf(key2, n2) : key1[i] = key2[j] /\ x1[i] = x2[j]
<1>0. /\ n1 \in Nat /\ section1 \in [1..n1 -> Nat] /\ n2 \in Nat /\ section2 \in [1..n2 -> Nat]
      /\ \A i, j \in 1..n1 : i < j => section1[i] <= section1[j]
      /\ \A i, j \in 1..n2 : i < j => section2[i] <= section2[j]
  BY DEF InSections
<1>a. /\ \A i \in 1..n1 : \E j \in 1..n2 : section1[i] = section2[j] /\ key1[i] = key2[j] /\ x1[i] = x2[j]
      /\ \A j \in 1..n2 : \E i \in 1..n1 : section1[i] = section2[j] /\ key1[i] = key2[j]
      /\ \A i, j \in 1..n2 : section2[i] = section2[j] /\ key2[i] = key2[j] => x2[i] = x2[j]
  BY DEF Alike
<1> SUFFICES ASSUME NEW i \in FirstOf(key1, n1)
             PROVE  \E j \in FirstOf(key2, n2) : key1[i] = key2[j] /\ x1[i] = x2[j]
  OBVIOUS
<1>1. i \in 1..n1 /\ \A j \in 1..(i - 1) : key1[j] # key1[i]
  BY <1>0 DEF FirstOf
<1>2. PICK k \in 1..n2 : section1[i] = section2[k] /\ key1[i] = key2[k] /\ x1[i] = x2[k]
  BY <1>1, <1>a
<1>3. PICK j \in FirstOf(key2, n2) : j <= k /\ key2[j] = key2[k]
  BY <1>0, FirstOfKey
<1>4. j \in 1..n2
  BY <1>0 DEF FirstOf
<1>5. section2[j] <= section2[k]
  <2>1. section2[j] \in Nat /\ section2[k] \in Nat /\ (j < k \/ j = k)
    BY <1>0, <1>3, <1>4
  <2>2. QED BY <1>0, <1>4, <2>1
<1>6. section2[j] = section2[k]
  <2>1. PICK h \in 1..n1 : section1[h] = section2[j] /\ key1[h] = key2[j]
    BY <1>4, <1>a
  <2>2. h \notin 1..(i - 1)
    BY <1>1, <1>2, <1>3, <2>1
  <2>3. section1[i] <= section1[h]
    BY <1>0, <1>1, <2>2
  <2>4. QED BY <1>0, <1>1, <1>2, <1>4, <1>5, <2>1, <2>3
<1>7. QED BY <1>2, <1>3, <1>4, <1>6, <1>a

(* Two sequences, one after the other. *)
LEMMA Concatenated ==
  ASSUME NEW m \in Nat, NEW n \in Nat, NEW f, NEW g,
         f = [k \in 1..m |-> f[k]], g = [k \in 1..n |-> g[k]]
  PROVE  /\ f \o g = [k \in 1..(m + n) |-> (f \o g)[k]]
         /\ \A k \in 1..m : (f \o g)[k] = f[k]
         /\ \A k \in 1..n : (f \o g)[m + k] = g[k]
<1>1. PICK S : S = {f[k] : k \in 1..m} \union {g[k] : k \in 1..n}
  OBVIOUS
<1>2. f \in [1..m -> S] /\ g \in [1..n -> S]
  BY <1>1
<1>3. f \in Seq(S) /\ g \in Seq(S)
  BY <1>2, Zenon, SeqDef
<1>4. Len(f) = m /\ Len(g) = n
  BY <1>2, <1>3, LenProperties
<1>5. /\ Len(f \o g) = m + n /\ f \o g \in Seq(S)
      /\ \A k \in 1..(m + n) : (f \o g)[k] = IF k <= m THEN f[k] ELSE g[k - m]
  BY <1>3, <1>4, ConcatProperties
<1>6. f \o g = [k \in 1..(m + n) |-> (f \o g)[k]]
  BY <1>5, LenProperties
<1>7. QED BY <1>5, <1>6

(* The orders of a set name each element once. *)
LEMMA OrderIs ==
  ASSUME NEW S, IsFiniteSet(S), NEW order \in SetToSeqs(S)
  PROVE  /\ Cardinality(S) \in Nat /\ order \in [1..Cardinality(S) -> S]
         /\ Len(order) = Cardinality(S)
         /\ \A x \in S : \E i \in 1..Cardinality(S) : order[i] = x
<1> DEFINE n == Cardinality(S)
<1>1. n \in Nat /\ IsFiniteSet(1..n) /\ Cardinality(1..n) = n
  BY FS_CardinalityType, FS_Interval
<1>2. order \in [1..n -> S] /\ \A i, j \in 1..n : i # j => order[i] # order[j]
  BY Zenon DEF SetToSeqs
<1> HIDE DEF n
<1>3. order \in Injection(1..n, S)
  BY <1>2 DEF Injection, IsInjective
<1>4. order \in Surjection(1..n, S)
  BY <1>1, <1>3, FS_Injection DEF n
<1>5. \A x \in S : \E i \in 1..n : order[i] = x
  BY <1>4 DEF Surjection
<1>6. Len(order) = n
  BY <1>1, <1>2, LenProperties, SeqDef
<1>7. QED BY <1>1, <1>2, <1>5, <1>6 DEF n

(* The indices of one loop in another, which meet every pair. *)
PairsMet(m, n) ==
  \A a \in 1..n, b \in 1..m : \E i \in 1..(m * n) : 1 + ((i - 1) % n) = a /\ 1 + ((i - 1) \div n) = b

LEMMA LoopIndices ==
  ASSUME NEW m \in Nat, NEW n \in {0, 1, 2}
  PROVE  /\ m * n \in Nat
         /\ \A i \in 1..(m * n) : 1 + ((i - 1) % n) \in 1..n /\ 1 + ((i - 1) \div n) \in 1..m
         /\ PairsMet(m, n)
<1>1. CASE n = 0
  BY <1>1 DEF PairsMet
<1>2. CASE n = 1
  <2>1. \A i \in 1..m : (i - 1) % 1 = 0 /\ (i - 1) \div 1 = i - 1
    OBVIOUS
  <2>2. QED BY <1>2, <2>1 DEF PairsMet
<1>3. CASE n = 2
  <2>1. \A i \in 1..(m * 2) : 1 + ((i - 1) % 2) \in 1..2 /\ 1 + ((i - 1) \div 2) \in 1..m
    OBVIOUS
  <2>2. ASSUME NEW a \in 1..2, NEW b \in 1..m
        PROVE  \E i \in 1..(m * 2) : 1 + ((i - 1) % 2) = a /\ 1 + ((i - 1) \div 2) = b
    <3>1. PICK i \in 1..(m * 2) : i = 2 * (b - 1) + a
      OBVIOUS
    <3>2. (i - 1) % 2 = a - 1 /\ (i - 1) \div 2 = b - 1
      BY <3>1
    <3>3. QED BY <3>2
  <2>3. QED BY <1>3, <2>1, <2>2 DEF PairsMet
<1>4. QED BY <1>1, <1>2, <1>3

------------------------------------------------------------------------------
(* The methods of a text, for an order of its fields. *)
InfoParts(t) ==
  /\ Len(t.lines) \in Nat /\ t.lines = [l \in 1..Len(t.lines) |-> t.lines[l]]

LEMMA InfosAreTexts == \A t \in Infos : InfoParts(t)
<1>1. InfoParts(EmptyText)
  BY DEF EmptyText, InfoParts
<1>2. ASSUME NEW t \in AllTexts
      PROVE  InfoParts(t)
  <2>1. t.lines \in Seq(ToSet(t.lines))
    BY TextAssumption, Zenon DEF AllTexts
  <2>2. QED BY <2>1, LenProperties DEF InfoParts
<1>3. QED BY <1>1, <1>2 DEF Infos

LEMMA FieldsFinite ==
  ASSUME NEW t \in Infos
  PROVE  IsFiniteSet(DOMAIN Fields(t))
<1>1. PICK at : at = Declares(t, {"field"}, Len(t.lines))
  OBVIOUS
<1>2. at \subseteq 1..Len(t.lines) /\ Len(t.lines) \in Nat
  BY <1>1, InfosAreTexts DEF Declares, InfoParts
<1>3. IsFiniteSet(1..Len(t.lines))
  BY <1>2, FS_Interval
<1>4. IsFiniteSet(at)
  BY <1>2, <1>3, FS_Subset
<1>5. PICK S, name : S = {t.lines[i].name : i \in at} /\ name = [i \in at |-> t.lines[i].name]
  OBVIOUS
<1>6. name \in Surjection(at, S)
  BY <1>5 DEF Surjection
<1>7. IsFiniteSet(S)
  BY <1>4, <1>6, FS_Surjection
<1>8. DOMAIN Fields(t) = S
  BY <1>1, <1>5 DEF Fields, TypesAt
<1>9. QED BY <1>7, <1>8

(* The accessors there are, whatever the order. *)
Accessor(t, kind, f) == IF kind = "get" THEN Getter(t, f) ELSE Setter(t, f)
AccessorRun(t, order) ==
  LET n == Len(Accessors(t))
  IN [i \in 1..(Len(order) * n) |-> Accessor(t, Accessors(t)[1 + ((i - 1) % n)], order[1 + ((i - 1) \div n)])]

LEMMA AccessorKinds ==
  ASSUME NEW t
  PROVE  Accessors(t) \in {<<>>, <<"get">>, <<"set">>, <<"get", "set">>}
<1>1. <<>> \in Seq({"get", "set"}) /\ <<"get">> \in Seq({"get", "set"}) /\ <<"set">> \in Seq({"get", "set"})
  OBVIOUS
<1>2. <<>> \o <<>> = <<>> /\ <<"get">> \o <<>> = <<"get">> /\ <<>> \o <<"set">> = <<"set">>
  BY <1>1, ConcatEmptySeq
<1>3. <<"get">> \o <<"set">> = <<"get", "set">>
  <2>1. PICK f, g, h : f = <<"get">> /\ g = <<"set">> /\ h = f \o g
    OBVIOUS
  <2>2. f = [k \in 1..1 |-> f[k]] /\ g = [k \in 1..1 |-> g[k]]
    BY <2>1
  <2>3. /\ h = [k \in 1..(1 + 1) |-> h[k]] /\ (\A k \in 1..1 : h[k] = f[k])
        /\ \A k \in 1..1 : h[1 + k] = g[k]
    BY <2>1, <2>2, Concatenated
  <2>4. 1 + 1 = 2 /\ h[1] = "get" /\ h[2] = "set"
    BY <2>1, <2>3
  <2>5. h = <<"get", "set">>
    BY <2>3, <2>4
  <2>6. QED BY <2>1, <2>5
<1>4. QED BY <1>2, <1>3, Zenon DEF Accessors

LEMMA BuilderOnce ==
  ASSUME NEW t
  PROVE  \E n \in {0, 1} : Len(Builder(t)) = n /\ Builder(t) = [i \in 1..n |-> Builder(t)[i]]
<1>1. PICK m : Builder(t) = <<>> \/ Builder(t) = <<m>>
  BY Zenon DEF Builder
<1>2. CASE Builder(t) = <<>>
  BY <1>2
<1>3. CASE Builder(t) = <<m>>
  BY <1>3
<1>4. QED BY <1>1, <1>2, <1>3

LEMMA GeneratedIs ==
  ASSUME NEW t, NEW order
  PROVE  GeneratedSyntheticMethods(t, order) = AccessorRun(t, order) \o Builder(t)
BY Zenon DEF GeneratedSyntheticMethods, AccessorRun, Accessor

HasAccessors(t, S, run, n, m) ==
  /\ m \in Nat /\ run = [i \in 1..m |-> run[i]]
  /\ \A i \in 1..m : \E a \in 1..n, f \in S : run[i] = Accessor(t, Accessors(t)[a], f)
  /\ \A a \in 1..n, f \in S : \E i \in 1..m : run[i] = Accessor(t, Accessors(t)[a], f)

LEMMA AccessorRunIs ==
  ASSUME NEW t, NEW S, IsFiniteSet(S), NEW order \in SetToSeqs(S)
  PROVE  HasAccessors(t, S, AccessorRun(t, order), Len(Accessors(t)), Cardinality(S) * Len(Accessors(t)))
<1>1. PICK n : n = Len(Accessors(t))
  OBVIOUS
<1>2. n \in {0, 1, 2}
  <2>1. Len(<<>>) = 0 /\ Len(<<"get">>) = 1 /\ Len(<<"set">>) = 1 /\ Len(<<"get", "set">>) = 2
    OBVIOUS
  <2>2. QED BY <1>1, <2>1, AccessorKinds, Zenon
<1>3. PICK c : c = Cardinality(S)
  OBVIOUS
<1>4. /\ c \in Nat /\ order \in [1..c -> S] /\ Len(order) = c
      /\ \A x \in S : \E i \in 1..c : order[i] = x
  BY <1>3, OrderIs
<1>5. PICK m : m = c * n
  OBVIOUS
<1>6. /\ m \in Nat
      /\ \A i \in 1..m : 1 + ((i - 1) % n) \in 1..n /\ 1 + ((i - 1) \div n) \in 1..c
      /\ \A a \in 1..n, b \in 1..c : \E i \in 1..m : 1 + ((i - 1) % n) = a /\ 1 + ((i - 1) \div n) = b
  <2>1. c \in Nat
    BY <1>4
  <2>2. m \in Nat
    BY <1>2, <1>5, <2>1, LoopIndices
  <2>3. \A i \in 1..m : 1 + ((i - 1) % n) \in 1..n /\ 1 + ((i - 1) \div n) \in 1..c
    BY <1>2, <1>5, <2>1, LoopIndices
  <2>4. \A a \in 1..n, b \in 1..c : \E i \in 1..m : 1 + ((i - 1) % n) = a /\ 1 + ((i - 1) \div n) = b
    <3>1. PairsMet(c, n)
      BY <1>2, <2>1, LoopIndices
    <3>2. QED BY <1>5, <3>1 DEF PairsMet
  <2>5. QED BY <2>2, <2>3, <2>4, Zenon
<1>7. PICK run : run = AccessorRun(t, order)
  OBVIOUS
<1>8. run = [i \in 1..m |-> Accessor(t, Accessors(t)[1 + ((i - 1) % n)], order[1 + ((i - 1) \div n)])]
  BY <1>1, <1>4, <1>5, <1>7 DEF AccessorRun
<1>9. ASSUME NEW i \in 1..m
      PROVE  \E a \in 1..n, f \in S : run[i] = Accessor(t, Accessors(t)[a], f)
  <2>1. PICK a, b : a = 1 + ((i - 1) % n) /\ b = 1 + ((i - 1) \div n)
    OBVIOUS
  <2>2. a \in 1..n /\ b \in 1..c
    BY <1>6, <2>1
  <2>3. run[i] = Accessor(t, Accessors(t)[a], order[b])
    BY <1>8, <2>1
  <2>4. QED BY <1>4, <2>2, <2>3
<1>10. ASSUME NEW a \in 1..n, NEW f \in S
       PROVE  \E i \in 1..m : run[i] = Accessor(t, Accessors(t)[a], f)
  <2>1. PICK b \in 1..c : order[b] = f
    BY <1>4
  <2>2. PICK i \in 1..m : 1 + ((i - 1) % n) = a /\ 1 + ((i - 1) \div n) = b
    BY <1>6
  <2>3. QED BY <1>8, <2>1, <2>2
<1>11. run = [i \in 1..m |-> run[i]]
  BY <1>8
<1>12. QED BY <1>1, <1>3, <1>5, <1>6, <1>7, <1>9, <1>10, <1>11 DEF HasAccessors

(* What tells one method from another. *)
MethodKey(m) == <<m.name, MethodDetail(m)>>

LEMMA GetterIs ==
  ASSUME NEW t, NEW f
  PROVE  LET m == Getter(t, f)
         IN /\ m = [name |-> m.name, returns |-> Fields(t)[f], params |-> <<>>, static |-> FALSE, generated |-> TRUE]
            /\ MethodDetail(m) = [type |-> Fields(t)[f].written, params |-> <<>>]
<1>1. PICK m, name : /\ m = Getter(t, f)
                     /\ name = AccessorName(IF Fields(t)[f].written.name = "boolean" THEN "is" ELSE "get", f)
  OBVIOUS
<1>2. m = [name |-> name, returns |-> Fields(t)[f], params |-> <<>>, static |-> FALSE, generated |-> TRUE]
  BY <1>1, Zenon DEF Getter, Generated
<1>3. /\ m = [name |-> m.name, returns |-> Fields(t)[f], params |-> <<>>, static |-> FALSE, generated |-> TRUE]
      /\ m.returns = Fields(t)[f] /\ m.params = <<>>
  BY <1>2
<1>4. [i \in DOMAIN m.params |-> [type |-> m.params[i].type.written, name |-> m.params[i].name]] = <<>>
  BY <1>3
<1>5. MethodDetail(m) = [type |-> Fields(t)[f].written, params |-> <<>>]
  BY <1>3, <1>4, Zenon DEF MethodDetail
<1>6. QED BY <1>1, <1>3, <1>5

LEMMA SetterIs ==
  ASSUME NEW t, NEW f
  PROVE  \E type, p : /\ MethodDetail(Setter(t, f)) = [type |-> type, params |-> p]
                      /\ DOMAIN p = {1} /\ p[1].name = f
<1>1. PICK m, name, void :
        /\ m = Setter(t, f)
        /\ name = AccessorName("set", f) /\ void = Plain(Empty, "void")
  OBVIOUS
<1>2. m = [name |-> name, returns |-> void, params |-> << [name |-> f, type |-> Fields(t)[f]] >>,
           static |-> FALSE, generated |-> TRUE]
  BY <1>1, Zenon DEF Setter, Generated
<1>3. m.params = << [name |-> f, type |-> Fields(t)[f]] >>
  BY <1>2
<1>4. DOMAIN m.params = {1} /\ m.params[1].name = f
  BY <1>3
<1>5. PICK p : p = [i \in DOMAIN m.params |-> [type |-> m.params[i].type.written, name |-> m.params[i].name]]
  OBVIOUS
<1>6. DOMAIN p = {1} /\ p[1].name = f
  BY <1>4, <1>5
<1>7. MethodDetail(m) = [type |-> m.returns.written, params |-> p]
  BY <1>5, Zenon DEF MethodDetail
<1>8. QED BY <1>1, <1>6, <1>7

LEMMA AccessorOnce ==
  ASSUME NEW t \in Infos, NEW a, NEW b, NEW f \in DOMAIN Fields(t), NEW g \in DOMAIN Fields(t),
         MethodKey(Accessor(t, a, f)) = MethodKey(Accessor(t, b, g))
  PROVE  Accessor(t, a, f) = Accessor(t, b, g)
<1>1. \A h, k \in DOMAIN Fields(t) : Fields(t)[h].written = Fields(t)[k].written => Fields(t)[h] = Fields(t)[k]
  BY CompletionAssumption, Zenon DEF Infos, AllTexts
<1>2. PICK m, n : m = Accessor(t, a, f) /\ n = Accessor(t, b, g)
  OBVIOUS
<1>3. m.name = n.name /\ MethodDetail(m) = MethodDetail(n)
  BY <1>2 DEF MethodKey
<1>4. CASE a = "get" /\ b = "get"
  <2>1. m = Getter(t, f) /\ n = Getter(t, g)
    BY <1>2, <1>4 DEF Accessor
  <2>2. /\ m = [name |-> m.name, returns |-> Fields(t)[f], params |-> <<>>, static |-> FALSE, generated |-> TRUE]
        /\ MethodDetail(m) = [type |-> Fields(t)[f].written, params |-> <<>>]
    BY <2>1, GetterIs
  <2>3. /\ n = [name |-> n.name, returns |-> Fields(t)[g], params |-> <<>>, static |-> FALSE, generated |-> TRUE]
        /\ MethodDetail(n) = [type |-> Fields(t)[g].written, params |-> <<>>]
    BY <2>1, GetterIs
  <2>4. PICK d, e : /\ d = [type |-> Fields(t)[f].written, params |-> <<>>]
                    /\ e = [type |-> Fields(t)[g].written, params |-> <<>>]
    OBVIOUS
  <2>5. Fields(t)[f].written = Fields(t)[g].written
    <3>1. d = e /\ d.type = Fields(t)[f].written /\ e.type = Fields(t)[g].written
      BY <1>3, <2>2, <2>3, <2>4
    <3>2. QED BY <3>1
  <2>6. Fields(t)[f] = Fields(t)[g]
    BY <1>1, <2>5
  <2>7. m = n
    BY <1>3, <2>2, <2>3, <2>6, Zenon
  <2>8. QED BY <1>2, <2>7
<1>5. ASSUME a # "get"
      PROVE  \E type, p : /\ MethodDetail(m) = [type |-> type, params |-> p]
                          /\ DOMAIN p = {1} /\ p[1].name = f
  <2>1. m = Setter(t, f)
    BY <1>2, <1>5 DEF Accessor
  <2>2. QED BY <2>1, SetterIs
<1>6. ASSUME b # "get"
      PROVE  \E type, p : /\ MethodDetail(n) = [type |-> type, params |-> p]
                          /\ DOMAIN p = {1} /\ p[1].name = g
  <2>1. n = Setter(t, g)
    BY <1>2, <1>6 DEF Accessor
  <2>2. QED BY <2>1, SetterIs
<1>7. CASE a # "get" /\ b # "get"
  <2>1. f = g
    <3>1. PICK d, type, p : d = MethodDetail(m) /\ d = [type |-> type, params |-> p] /\ p[1].name = f
      BY <1>5, <1>7
    <3>2. PICK type2, p2 : d = [type |-> type2, params |-> p2] /\ p2[1].name = g
      BY <1>3, <1>6, <1>7, <3>1
    <3>3. d.params = p /\ d.params = p2
      BY <3>1, <3>2
    <3>4. QED BY <3>1, <3>2, <3>3
  <2>2. QED BY <1>7, <2>1 DEF Accessor
<1>8. CASE a = "get" /\ b # "get"
  <2>1. MethodDetail(m) = [type |-> Fields(t)[f].written, params |-> <<>>]
    BY <1>2, <1>8, GetterIs DEF Accessor
  <2>2. PICK d, type, p : d = MethodDetail(n) /\ d = [type |-> type, params |-> p] /\ DOMAIN p = {1}
    BY <1>6, <1>8
  <2>3. d.params = <<>> /\ d.params = p
    BY <1>3, <2>1, <2>2
  <2>4. DOMAIN <<>> # {1}
    OBVIOUS
  <2>5. QED BY <2>2, <2>3, <2>4
<1>9. CASE a # "get" /\ b = "get"
  <2>1. MethodDetail(n) = [type |-> Fields(t)[g].written, params |-> <<>>]
    BY <1>2, <1>9, GetterIs DEF Accessor
  <2>2. PICK d, type, p : d = MethodDetail(m) /\ d = [type |-> type, params |-> p] /\ DOMAIN p = {1}
    BY <1>5, <1>9
  <2>3. d.params = <<>> /\ d.params = p
    BY <1>3, <2>1, <2>2
  <2>4. DOMAIN <<>> # {1}
    OBVIOUS
  <2>5. QED BY <2>2, <2>3, <2>4
<1>10. QED BY <1>4, <1>7, <1>8, <1>9

(* The declared methods are those of the text, in its order. *)
LEMMA DeclaredIs ==
  ASSUME NEW t \in Infos
  PROVE  \E n \in Nat : Declared(t) = [i \in 1..n |-> Declared(t)[i]]
<1>1. PICK at : at = Declares(t, {"method"}, Len(t.lines))
  OBVIOUS
<1>2. at \subseteq 1..Len(t.lines) /\ Len(t.lines) \in Nat
  BY <1>1, InfosAreTexts DEF Declares, InfoParts
<1>3. PICK n, lines : n = Cardinality(at) /\ lines = Selected(t.lines, at)
  OBVIOUS
<1>4. n \in Nat /\ lines = [k \in 1..n |-> lines[k]]
  <2>1. IsSelection(lines, t.lines, at, n)
    BY <1>2, <1>3, SelectedIs
  <2>2. QED BY <2>1 DEF IsSelection
<1>5. DOMAIN lines = 1..n
  BY <1>4
<1>6. Declared(t) = [i \in 1..n |-> Method(lines[i])]
  BY <1>1, <1>3, <1>5, Zenon DEF Declared
<1>7. QED BY <1>4, <1>6

(* The methods before those with the key of an earlier one are dropped:    *)
(* declared ones, each a section of its own, accessors, and the builder.   *)
AllMethods(t, order) == Declared(t) \o GeneratedSyntheticMethods(t, order)

LEMMA AllMethodsAre ==
  ASSUME NEW t \in Infos, NEW order \in SetToSeqs(DOMAIN Fields(t)), NEW all, all = AllMethods(t, order)
  PROVE  LET d == Len(Declared(t))
             a == Cardinality(DOMAIN Fields(t)) * Len(Accessors(t))
             b == Len(Builder(t))
         IN /\ d \in Nat /\ a \in Nat /\ b \in {0, 1}
            /\ all = [i \in 1..(d + a + b) |-> all[i]]
            /\ \A i \in 1..d : all[i] = Declared(t)[i]
            /\ \A i \in 1..a : all[d + i] = AccessorRun(t, order)[i]
            /\ \A i \in 1..b : all[d + a + i] = Builder(t)[i]
<1>1. PICK f, r, g, rg : /\ f = Declared(t) /\ r = AccessorRun(t, order) /\ g = Builder(t)
                         /\ rg = r \o g
  OBVIOUS
<1>2. PICK d \in Nat : f = [i \in 1..d |-> f[i]]
  BY <1>1, DeclaredIs
<1>3. PICK b \in {0, 1} : Len(g) = b /\ g = [i \in 1..b |-> g[i]]
  BY <1>1, BuilderOnce
<1>4. PICK a : a = Cardinality(DOMAIN Fields(t)) * Len(Accessors(t))
  OBVIOUS
<1>5. a \in Nat /\ r = [i \in 1..a |-> r[i]]
  <2>1. HasAccessors(t, DOMAIN Fields(t), r, Len(Accessors(t)), a)
    BY <1>1, <1>4, FieldsFinite, AccessorRunIs
  <2>2. QED BY <2>1 DEF HasAccessors
<1>6. Len(f) = d
  <2>1. f \in [1..d -> {f[i] : i \in 1..d}]
    BY <1>2
  <2>2. QED BY <2>1, LenProperties, SeqDef
<1>7. all = f \o rg
  BY <1>1, GeneratedIs DEF AllMethods
<1>8. /\ rg = [k \in 1..(a + b) |-> rg[k]]
      /\ \A k \in 1..a : rg[k] = r[k]
      /\ \A k \in 1..b : rg[a + k] = g[k]
  <2>1. b \in Nat
    BY <1>3
  <2>2. QED BY <1>1, <1>3, <1>5, <2>1, Concatenated
<1>9. /\ all = [k \in 1..(d + (a + b)) |-> all[k]]
      /\ \A k \in 1..d : all[k] = f[k]
      /\ \A k \in 1..(a + b) : all[d + k] = rg[k]
  <2>1. a + b \in Nat
    BY <1>3, <1>5
  <2>2. QED BY <1>2, <1>7, <1>8, <2>1, Concatenated
<1>10. d + (a + b) = d + a + b
  BY <1>3, <1>5
<1>11. \A i \in 1..a : all[d + i] = r[i]
  <2>1. \A i \in 1..a : i \in 1..(a + b)
    BY <1>3, <1>5
  <2>2. QED BY <1>8, <1>9, <2>1
<1>12. \A i \in 1..b : all[d + a + i] = g[i]
  <2>1. \A i \in 1..b : a + i \in 1..(a + b) /\ d + (a + i) = d + a + i
    BY <1>3, <1>5
  <2>2. QED BY <1>8, <1>9, <2>1
<1>13. all = [i \in 1..(d + a + b) |-> all[i]]
  BY <1>9, <1>10
<1>14. QED BY <1>1, <1>3, <1>4, <1>5, <1>6, <1>9, <1>11, <1>12, <1>13

(* One method is left for each key, the first. *)
LEMMA DedupedIs ==
  ASSUME NEW n \in Nat, NEW s, NEW key, NEW q, NEW m, IsSelection(q, s, FirstOf(key, n), m),
         \A i \in 1..n : key[i] = MethodKey(s[i])
  PROVE  /\ m \in Nat /\ q = [k \in 1..m |-> q[k]]
         /\ \A k \in 1..m : \E i \in FirstOf(key, n) : q[k] = s[i]
         /\ \A i \in FirstOf(key, n) : \E k \in 1..m : q[k] = s[i]
         /\ \A k, l \in 1..m : MethodKey(q[k]) = MethodKey(q[l]) => k = l
<1>1. PICK first : first = FirstOf(key, n)
  OBVIOUS
<1>2. first \subseteq 1..n
  BY <1>1 DEF FirstOf
<1>3. m \in Nat /\ q = [k \in 1..m |-> q[k]]
  BY DEF IsSelection
<1>4. PICK place \in [1..m -> first] :
         /\ \A k \in 1..m : q[k] = s[place[k]]
         /\ \A k, l \in 1..m : place[k] = place[l] => k = l
         /\ \A i \in first : \E k \in 1..m : place[k] = i
  BY <1>1 DEF IsSelection
<1>5. \A k, l \in 1..m : MethodKey(q[k]) = MethodKey(q[l]) => k = l
  <2> SUFFICES ASSUME NEW k \in 1..m, NEW l \in 1..m, MethodKey(q[k]) = MethodKey(q[l])
               PROVE  k = l
    OBVIOUS
  <2>1. PICK a, b : a = place[k] /\ b = place[l]
    OBVIOUS
  <2>2. a \in first /\ b \in first /\ q[k] = s[a] /\ q[l] = s[b]
    BY <1>4, <2>1
  <2>3. a \in 1..n /\ b \in 1..n
    BY <1>2, <2>2, Zenon
  <2>4. key[a] = key[b]
    BY <2>2, <2>3, Zenon
  <2>5. a = b
    BY <1>1, <2>2, <2>4, FirstOnce, Zenon
  <2>6. QED BY <1>4, <2>1, <2>5
<1>6. \A k \in 1..m : \E i \in first : q[k] = s[i]
  BY <1>4
<1>7. \A i \in first : \E k \in 1..m : q[k] = s[i]
  BY <1>4
<1>8. QED BY <1>1, <1>3, <1>5, <1>6, <1>7

(* Of the methods, the first ones of their key are left, in their order. *)
LEMMA MethodsAre ==
  ASSUME NEW t \in Infos, NEW order \in SetToSeqs(DOMAIN Fields(t)),
         NEW all, all = AllMethods(t, order), NEW n \in Nat, all = [i \in 1..n |-> all[i]]
  PROVE  \E key : /\ key = [i \in 1..n |-> MethodKey(all[i])]
                  /\ IsSelection(Methods(t, order), all, FirstOf(key, n), Cardinality(FirstOf(key, n)))
<1>1. PICK key, first : key = [i \in 1..n |-> MethodKey(all[i])] /\ first = FirstOf(key, n)
  OBVIOUS
<1>2. first \subseteq 1..n
  BY <1>1 DEF FirstOf
<1>3. Methods(t, order) = Selected(all, first)
  <2>1. Firsts(all, LAMBDA x : <<x.name, MethodDetail(x)>>) = first
    <3>1. DOMAIN all = 1..n
      OBVIOUS
    <3>2. Firsts(all, LAMBDA x : <<x.name, MethodDetail(x)>>)
            = {i \in 1..n : \A j \in 1..(i - 1) : MethodKey(all[j]) # MethodKey(all[i])}
      BY <3>1, Zenon DEF Firsts, MethodKey
    <3>3. \A i \in 1..n : key[i] = MethodKey(all[i]) /\ \A j \in 1..(i - 1) : j \in 1..n
      BY <1>1
    <3>4. \A i \in 1..n : (\A j \in 1..(i - 1) : MethodKey(all[j]) # MethodKey(all[i]))
                            <=> (\A j \in 1..(i - 1) : key[j] # key[i])
      BY <3>3, Zenon
    <3>5. QED BY <1>1, <3>2, <3>4, Zenon DEF FirstOf
  <2>2. QED BY <2>1, Zenon DEF Methods, Deduped, AllMethods
<1>4. IsSelection(Methods(t, order), all, first, Cardinality(first))
  BY <1>2, <1>3, SelectedIs
<1>5. QED BY <1>1, <1>4

(* The sections of the methods: each declared one, accessors, the builder. *)
Sections(d, a, n) == [i \in 1..n |-> IF i <= d THEN i ELSE IF i <= d + a THEN d + 1 ELSE d + 2]

AccessorCount(t) == Cardinality(DOMAIN Fields(t)) * Len(Accessors(t))
MethodCount(t) == Len(Declared(t)) + AccessorCount(t) + Len(Builder(t))
MethodSections(t) == Sections(Len(Declared(t)), AccessorCount(t), MethodCount(t))

LEMMA SectionsIncrease ==
  ASSUME NEW d \in Nat, NEW a \in Nat, NEW n \in Nat, NEW section, section = Sections(d, a, n)
  PROVE  InSections(n, section)
BY DEF Sections, InSections

LEMMA SectionOf ==
  \A d, a, b \in Nat : \A n : n = d + a + b => \A i \in 1..n :
    i \in 1..d \/ (\E k \in 1..a : i = d + k) \/ \E k \in 1..b : i = d + a + k
<1> SUFFICES ASSUME NEW d \in Nat, NEW a \in Nat, NEW b \in Nat, NEW i \in 1..(d + a + b)
             PROVE  i \in 1..d \/ (\E k \in 1..a : i = d + k) \/ \E k \in 1..b : i = d + a + k
  OBVIOUS
<1>1. CASE i <= d
  BY <1>1
<1>2. CASE ~(i <= d) /\ i <= d + a
  <2>1. i - d \in 1..a /\ i = d + (i - d)
    BY <1>2
  <2>2. QED BY <2>1
<1>3. CASE ~(i <= d + a)
  <2>1. i - (d + a) \in 1..b /\ i = d + a + (i - (d + a))
    BY <1>3
  <2>2. QED BY <2>1
<1>4. QED BY <1>1, <1>2, <1>3

LEMMA MethodMatches ==
  ASSUME NEW t \in Infos, NEW o1 \in SetToSeqs(DOMAIN Fields(t)), NEW o2 \in SetToSeqs(DOMAIN Fields(t))
  PROVE  \A i \in 1..MethodCount(t) : \E j \in 1..MethodCount(t) :
           MethodSections(t)[i] = MethodSections(t)[j] /\ AllMethods(t, o1)[i] = AllMethods(t, o2)[j]
<1>0. PICK d, a, b, n, section :
        /\ d = Len(Declared(t)) /\ a = AccessorCount(t) /\ b = Len(Builder(t))
        /\ n = MethodCount(t) /\ section = MethodSections(t)
  OBVIOUS
<1>n. PICK all1, all2 : all1 = AllMethods(t, o1) /\ all2 = AllMethods(t, o2)
  OBVIOUS
<1> SUFFICES ASSUME NEW i \in 1..n
             PROVE  \E j \in 1..n : section[i] = section[j] /\ all1[i] = all2[j]
  BY <1>0, <1>n, Zenon
<1>1. /\ d \in Nat /\ a \in Nat /\ b \in {0, 1}
      /\ \A k \in 1..d : all1[k] = Declared(t)[k]
      /\ \A k \in 1..a : all1[d + k] = AccessorRun(t, o1)[k]
      /\ \A k \in 1..b : all1[d + a + k] = Builder(t)[k]
  BY <1>0, <1>n, AllMethodsAre DEF AccessorCount
<1>2. /\ \A k \in 1..d : all2[k] = Declared(t)[k]
      /\ \A k \in 1..a : all2[d + k] = AccessorRun(t, o2)[k]
      /\ \A k \in 1..b : all2[d + a + k] = Builder(t)[k]
  BY <1>0, <1>n, AllMethodsAre DEF AccessorCount
<1>3. n = d + a + b /\ n \in Nat /\ i \in Nat /\ section = Sections(d, a, n)
  <2>1. n = d + a + b /\ section = Sections(d, a, n)
    BY <1>0 DEF MethodSections, MethodCount
  <2>2. QED BY <1>1, <2>1
<1>4. CASE i \in 1..d
  BY <1>1, <1>2, <1>3, <1>4
<1>5. ASSUME NEW k \in 1..a, i = d + k
      PROVE  \E j \in 1..n : section[i] = section[j] /\ all1[i] = all2[j]
  <2>2. \E l \in 1..a : AccessorRun(t, o1)[k] = AccessorRun(t, o2)[l]
    <3>1. PICK kinds : kinds = Len(Accessors(t))
      OBVIOUS
    <3>2. PICK S : S = DOMAIN Fields(t)
      OBVIOUS
    <3>3. IsFiniteSet(S) /\ a = Cardinality(S) * kinds /\ o1 \in SetToSeqs(S) /\ o2 \in SetToSeqs(S)
      BY <3>1, <3>2, <1>0, FieldsFinite DEF AccessorCount
    <3>4. HasAccessors(t, S, AccessorRun(t, o1), kinds, a) /\ HasAccessors(t, S, AccessorRun(t, o2), kinds, a)
      <4>1. HasAccessors(t, S, AccessorRun(t, o1), kinds, a)
        BY <3>1, <3>3, AccessorRunIs, Zenon
      <4>2. HasAccessors(t, S, AccessorRun(t, o2), kinds, a)
        BY <3>1, <3>3, AccessorRunIs, Zenon
      <4>3. QED BY <4>1, <4>2
    <3>5. PICK r1, r2 : r1 = AccessorRun(t, o1) /\ r2 = AccessorRun(t, o2)
      OBVIOUS
    <3>6. PICK c \in 1..kinds, f \in S : r1[k] = Accessor(t, Accessors(t)[c], f)
      BY <3>4, <3>5, <1>5, Zenon DEF HasAccessors
    <3>7. PICK l \in 1..a : r2[l] = Accessor(t, Accessors(t)[c], f)
      BY <3>4, <3>5, Zenon DEF HasAccessors
    <3>8. QED BY <3>5, <3>6, <3>7, Zenon
  <2>3. PICK l \in 1..a : AccessorRun(t, o1)[k] = AccessorRun(t, o2)[l]
    BY <2>2
  <2>4. all1[i] = all2[d + l]
    BY <1>1, <1>2, <1>5, <2>3
  <2>5. d + l \in 1..n /\ ~(d + l <= d) /\ d + l <= d + a
    BY <1>1, <1>3
  <2>6. section[i] = section[d + l]
    <3>1. ~(i <= d) /\ i <= d + a
      BY <1>1, <1>5
    <3>2. QED BY <1>3, <2>5, <3>1 DEF Sections
  <2>7. QED BY <2>4, <2>5, <2>6
<1>6. ASSUME NEW k \in 1..b, i = d + a + k
      PROVE  \E j \in 1..n : section[i] = section[j] /\ all1[i] = all2[j]
  <2>1. all1[i] = all2[i]
    BY <1>1, <1>2, <1>6
  <2>2. QED BY <2>1
<1>7. QED
  <2>1. d \in Nat /\ a \in Nat /\ b \in Nat
    BY <1>1
  <2>2. i \in 1..d \/ (\E k \in 1..a : i = d + k) \/ \E k \in 1..b : i = d + a + k
    BY <1>3, <2>1, SectionOf
  <2>3. QED BY <1>4, <1>5, <1>6, <2>2

LEMMA SectionOnce ==
  ASSUME NEW t \in Infos, NEW o \in SetToSeqs(DOMAIN Fields(t))
  PROVE  \A i, j \in 1..MethodCount(t) :
           /\ MethodSections(t)[i] = MethodSections(t)[j]
           /\ MethodKey(AllMethods(t, o)[i]) = MethodKey(AllMethods(t, o)[j])
           => AllMethods(t, o)[i] = AllMethods(t, o)[j]
<1>0. PICK d, a, b, n, section, all :
        /\ d = Len(Declared(t)) /\ a = AccessorCount(t) /\ b = Len(Builder(t))
        /\ n = MethodCount(t) /\ section = MethodSections(t) /\ all = AllMethods(t, o)
  OBVIOUS
<1> SUFFICES ASSUME NEW i \in 1..n, NEW j \in 1..n,
                    section[i] = section[j], MethodKey(all[i]) = MethodKey(all[j])
             PROVE  all[i] = all[j]
  BY <1>0, Zenon
<1>1. /\ d \in Nat /\ a \in Nat /\ b \in {0, 1}
      /\ \A k \in 1..a : all[d + k] = AccessorRun(t, o)[k]
  BY <1>0, AllMethodsAre DEF AccessorCount
<1>2. n = d + a + b /\ n \in Nat /\ i \in Nat /\ j \in Nat /\ section = Sections(d, a, n)
  <2>1. n = d + a + b /\ section = Sections(d, a, n)
    BY <1>0 DEF MethodSections, MethodCount
  <2>2. QED BY <1>1, <2>1
<1>3. \/ i = j
      \/ ~(i <= d) /\ i <= d + a /\ ~(j <= d) /\ j <= d + a
  <2>1. /\ section[i] = IF i <= d THEN i ELSE IF i <= d + a THEN d + 1 ELSE d + 2
        /\ section[j] = IF j <= d THEN j ELSE IF j <= d + a THEN d + 1 ELSE d + 2
    BY <1>2 DEF Sections
  <2>2. (i <= d + a \/ i = n) /\ (j <= d + a \/ j = n)
    BY <1>1, <1>2
  <2>3. QED BY <1>1, <1>2, <2>1, <2>2
<1>4. ASSUME NEW h \in 1..n, ~(h <= d), h <= d + a
      PROVE  \E c : \E f \in DOMAIN Fields(t) : all[h] = Accessor(t, c, f)
  <2>1. PICK k \in 1..a : h = d + k
    <3>1. h - d \in 1..a /\ h = d + (h - d)
      BY <1>1, <1>2, <1>4
    <3>2. QED BY <3>1
  <2>2. PICK r, kinds, S : r = AccessorRun(t, o) /\ kinds = Len(Accessors(t)) /\ S = DOMAIN Fields(t)
    OBVIOUS
  <2>3. HasAccessors(t, S, r, kinds, a)
    <3>1. IsFiniteSet(S) /\ a = Cardinality(S) * kinds /\ o \in SetToSeqs(S)
      BY <2>2, <1>0, FieldsFinite DEF AccessorCount
    <3>2. QED BY <2>2, <3>1, AccessorRunIs, Zenon
  <2>4. PICK c \in 1..kinds, f \in S : r[k] = Accessor(t, Accessors(t)[c], f)
    BY <2>1, <2>3 DEF HasAccessors
  <2>5. all[h] = r[k]
    BY <1>1, <2>1, <2>2
  <2>6. QED BY <2>2, <2>4, <2>5, Zenon
<1>5. CASE ~(i <= d) /\ i <= d + a /\ ~(j <= d) /\ j <= d + a
  <2>1. PICK c1 : \E f \in DOMAIN Fields(t) : all[i] = Accessor(t, c1, f)
    BY <1>4, <1>5
  <2>2. PICK c2 : \E f \in DOMAIN Fields(t) : all[j] = Accessor(t, c2, f)
    BY <1>4, <1>5
  <2>3. PICK f1 \in DOMAIN Fields(t) : all[i] = Accessor(t, c1, f1)
    BY <2>1
  <2>4. PICK f2 \in DOMAIN Fields(t) : all[j] = Accessor(t, c2, f2)
    BY <2>2
  <2>5. QED BY <2>3, <2>4, AccessorOnce
<1>6. QED BY <1>3, <1>5

(* The methods left do not depend on the order of the fields. *)
LEMMA MethodsAgree ==
  ASSUME NEW t \in Infos, NEW o1 \in SetToSeqs(DOMAIN Fields(t)), NEW o2 \in SetToSeqs(DOMAIN Fields(t)),
         NEW q1, NEW q2, q1 = Methods(t, o1), q2 = Methods(t, o2)
  PROVE  \A k \in DOMAIN q1 : \E l \in DOMAIN q2 : q1[k] = q2[l]
<1>1. PICK all1, all2 : all1 = AllMethods(t, o1) /\ all2 = AllMethods(t, o2)
  OBVIOUS
<1>2. PICK d, a, b, n, section :
        /\ d = Len(Declared(t)) /\ a = AccessorCount(t) /\ b = Len(Builder(t))
        /\ n = MethodCount(t) /\ section = MethodSections(t)
  OBVIOUS
<1>3. n = d + a + b /\ section = Sections(d, a, n)
  BY <1>2 DEF MethodSections, MethodCount
<1>4. /\ d \in Nat /\ a \in Nat /\ b \in {0, 1}
      /\ all1 = [i \in 1..n |-> all1[i]] /\ all2 = [i \in 1..n |-> all2[i]]
  <2>1. d \in Nat /\ a \in Nat /\ b \in {0, 1} /\ all1 = [i \in 1..n |-> all1[i]]
    BY <1>1, <1>2, <1>3, AllMethodsAre DEF AccessorCount
  <2>2. all2 = [i \in 1..n |-> all2[i]]
    BY <1>1, <1>2, <1>3, AllMethodsAre DEF AccessorCount
  <2>3. QED BY <2>1, <2>2
<1>5. n \in Nat
  BY <1>3, <1>4
<1>6. PICK key1 : /\ key1 = [i \in 1..n |-> MethodKey(all1[i])]
                  /\ IsSelection(Methods(t, o1), all1, FirstOf(key1, n), Cardinality(FirstOf(key1, n)))
  BY <1>1, <1>4, <1>5, MethodsAre
<1>7. PICK key2 : /\ key2 = [i \in 1..n |-> MethodKey(all2[i])]
                  /\ IsSelection(Methods(t, o2), all2, FirstOf(key2, n), Cardinality(FirstOf(key2, n)))
  BY <1>1, <1>4, <1>5, MethodsAre
<1>8. InSections(n, section)
  BY <1>3, <1>4, <1>5, SectionsIncrease
<1>9. \A i \in 1..n : \E j \in 1..n : section[i] = section[j] /\ key1[i] = key2[j] /\ all1[i] = all2[j]
  <2>1. \A i \in 1..n : \E j \in 1..n : section[i] = section[j] /\ all1[i] = all2[j]
    BY <1>1, <1>2, MethodMatches, Zenon
  <2>2. \A i, j \in 1..n : all1[i] = all2[j] => key1[i] = key2[j]
    BY <1>6, <1>7
  <2>3. QED BY <2>1, <2>2
<1>10. \A j \in 1..n : \E i \in 1..n : section[i] = section[j] /\ key1[i] = key2[j]
  <2>1. \A i \in 1..n : \E j \in 1..n : section[i] = section[j] /\ all2[i] = all1[j]
    BY <1>1, <1>2, MethodMatches, Zenon
  <2>2. \A i, j \in 1..n : all2[j] = all1[i] => key1[i] = key2[j]
    BY <1>6, <1>7
  <2>3. QED BY <2>1, <2>2
<1>11. \A i, j \in 1..n : section[i] = section[j] /\ key2[i] = key2[j] => all2[i] = all2[j]
  <2>1. \A i, j \in 1..n : section[i] = section[j] /\ MethodKey(all2[i]) = MethodKey(all2[j]) => all2[i] = all2[j]
    <3>1. \A i, j \in 1..MethodCount(t) :
            /\ MethodSections(t)[i] = MethodSections(t)[j]
            /\ MethodKey(AllMethods(t, o2)[i]) = MethodKey(AllMethods(t, o2)[j])
            => AllMethods(t, o2)[i] = AllMethods(t, o2)[j]
      BY SectionOnce, Zenon
    <3>2. QED BY <1>1, <1>2, <3>1, Zenon
  <2>2. QED BY <1>7, <2>1
<1>12. \A i \in FirstOf(key1, n) : \E j \in FirstOf(key2, n) : key1[i] = key2[j] /\ all1[i] = all2[j]
  <2>2. Alike(n, n, section, section, key1, key2, all1, all2)
    BY <1>9, <1>10, <1>11 DEF Alike
  <2>3. QED BY <1>8, <2>2, FirstsAgree, SMT
<1>13. PICK first1, first2, m1, m2 :
         /\ first1 = FirstOf(key1, n) /\ first2 = FirstOf(key2, n)
         /\ m1 = Cardinality(first1) /\ m2 = Cardinality(first2)
  OBVIOUS
<1>14. IsSelection(q1, all1, first1, m1) /\ IsSelection(q2, all2, first2, m2)
  BY <1>6, <1>7, <1>13
<1>15. DOMAIN q1 = 1..m1 /\ DOMAIN q2 = 1..m2
  BY <1>14 DEF IsSelection
<1>16. \A k \in 1..m1 : \E i \in first1 : q1[k] = all1[i]
  BY <1>14 DEF IsSelection
<1>17. \A i \in first2 : \E k \in 1..m2 : q2[k] = all2[i]
  BY <1>14 DEF IsSelection
<1>18. \A i \in first1 : \E j \in first2 : all1[i] = all2[j]
  BY <1>12, <1>13, Zenon
<1>19. QED BY <1>15, <1>16, <1>17, <1>18

------------------------------------------------------------------------------
(* The same order under other names: the same numbering. *)
Renames(x, F, B, D, C) ==
  /\ IsFiniteSet(F) /\ Orders(B, F) /\ D = {x[i] : i \in F}
  /\ \A i, j \in F : x[i] = x[j] => i = j
  /\ \A i, j \in F : <<i, j>> \in B <=> <<x[i], x[j]>> \in C

LEMMA Renumbered ==
  ASSUME NEW x, NEW F, NEW B, NEW D, NEW C, Renames(x, F, B, D, C)
  PROVE  /\ Cardinality(F) = Cardinality(D)
         /\ \A k \in 1..Cardinality(F) : x[Nth(B, F, k)] = Nth(C, D, k)
<1>1. /\ IsFiniteSet(F) /\ Orders(B, F) /\ D = {x[i] : i \in F}
      /\ \A i, j \in F : x[i] = x[j] => i = j
      /\ \A i, j \in F : <<i, j>> \in B <=> <<x[i], x[j]>> \in C
  BY DEF Renames
<1>2. ASSUME NEW S, NEW T, S \subseteq F, T = {x[i] : i \in S}
      PROVE  IsFiniteSet(T) /\ Cardinality(T) = Cardinality(S)
  <2>1. PICK f : f = [i \in S |-> x[i]]
    OBVIOUS
  <2>2. f \in Bijection(S, T)
    <3>1. f \in [S -> T] /\ (\A i, j \in S : f[i] = f[j] => i = j) /\ \A e \in T : \E i \in S : f[i] = e
      BY <1>1, <1>2, <2>1
    <3>2. QED BY <3>1 DEF Bijection, Injection, Surjection, IsInjective
  <2>3. IsFiniteSet(S)
    BY <1>1, <1>2, FS_Subset
  <2>4. QED BY <2>2, <2>3, FS_Bijection DEF ExistsBijection
<1>3. IsFiniteSet(D) /\ Cardinality(D) = Cardinality(F)
  BY <1>1, <1>2
<1>4. Orders(C, D)
  <2>1. \A e \in D : <<e, e>> \notin C
    BY <1>1 DEF Orders
  <2>2. \A e, g \in D : e # g => <<e, g>> \in C \/ <<g, e>> \in C
    BY <1>1 DEF Orders
  <2>3. \A e, g, h \in D : <<e, g>> \in C /\ <<g, h>> \in C => <<e, h>> \in C
    <3> SUFFICES ASSUME NEW e \in D, NEW g \in D, NEW h \in D, <<e, g>> \in C, <<g, h>> \in C
                 PROVE  <<e, h>> \in C
      OBVIOUS
    <3>1. PICK i \in F, j \in F, k \in F : e = x[i] /\ g = x[j] /\ h = x[k]
      BY <1>1
    <3>2. <<i, j>> \in B /\ <<j, k>> \in B
      BY <1>1, <3>1
    <3>3. <<i, k>> \in B
      BY <1>1, <3>2 DEF Orders
    <3>4. QED BY <1>1, <3>1, <3>3
  <2>4. QED BY <2>1, <2>2, <2>3 DEF Orders
<1>5. ASSUME NEW i \in F
      PROVE  Place(C, D, x[i]) = Place(B, F, i)
  <2>1. PICK S, T : S = {j \in F : <<j, i>> \in B} /\ T = {e \in D : <<e, x[i]>> \in C}
    OBVIOUS
  <2>2. S \subseteq F
    BY <2>1
  <2>3. T = {x[j] : j \in S}
    BY <1>1, <2>1
  <2>4. Cardinality(T) = Cardinality(S)
    BY <1>2, <2>2, <2>3
  <2>5. QED BY <2>1, <2>4 DEF Place
<1>6. ASSUME NEW k \in 1..Cardinality(F)
      PROVE  x[Nth(B, F, k)] = Nth(C, D, k)
  <2>1. PICK i, e : i = Nth(B, F, k) /\ e = Nth(C, D, k)
    OBVIOUS
  <2>2. i \in F /\ Place(B, F, i) = k - 1
    BY <1>1, <2>1, Numbered
  <2>3. e \in D /\ Place(C, D, e) = k - 1
    BY <1>3, <1>4, <2>1, Numbered
  <2>4. x[i] \in D /\ Place(C, D, x[i]) = k - 1
    BY <1>1, <1>5, <2>2
  <2>5. x[i] = e
    BY <1>3, <1>4, <2>3, <2>4, PlacesInOrder
  <2>6. QED BY <2>1, <2>5
<1>7. QED BY <1>3, <1>6

(* Items, and what is shown of them. *)
ShownItem(item) == [label |-> item.label, kind |-> item.kind, detail |-> item.detail, score |-> item.score]
ShownItems(items) == [i \in DOMAIN items |-> ShownItem(items[i])]
Listable(item) == item.score \in Nat /\ item.label \in ToSet(Labels) /\ item.detail \in ToSet(Details)

LEMMA RankIs ==
  ASSUME NEW words, words \in Seq(ToSet(words)), NEW w \in ToSet(words)
  PROVE  Rank(words, w) \in Nat /\ words[Rank(words, w)] = w
<1>1. \E i \in DOMAIN words : words[i] = w
  BY DEF ToSet
<1>2. Rank(words, w) \in DOMAIN words /\ words[Rank(words, w)] = w
  BY <1>1, Zenon DEF Rank
<1>3. DOMAIN words \subseteq Nat
  OBVIOUS
<1>4. QED BY <1>2, <1>3

(* The order of items is that of three numbers. *)
Numbers == [score : Nat, label : Nat, detail : Nat]
NumbersOf(item) == [score |-> item.score, label |-> Rank(Labels, item.label), detail |-> Rank(Details, item.detail)]
NumberedBefore(r, q) ==
  \/ r.score > q.score
  \/ r.score = q.score /\ (r.label < q.label \/ (r.label = q.label /\ r.detail < q.detail))

LEMMA ItemNumbers ==
  ASSUME NEW a, Listable(a)
  PROVE  NumbersOf(a) \in Numbers /\ Labels[NumbersOf(a).label] = a.label /\ Details[NumbersOf(a).detail] = a.detail
<1>1. PICK s, l, d : s = a.score /\ l = Rank(Labels, a.label) /\ d = Rank(Details, a.detail)
  OBVIOUS
<1>2. Labels \in Seq(ToSet(Labels)) /\ Details \in Seq(ToSet(Details))
  BY CompletionAssumption, Zenon
<1>3. s \in Nat
  BY <1>1 DEF Listable
<1>4. l \in Nat /\ Labels[l] = a.label
  BY <1>1, <1>2, RankIs DEF Listable
<1>5. d \in Nat /\ Details[d] = a.detail
  BY <1>1, <1>2, RankIs DEF Listable
<1>6. NumbersOf(a) = [score |-> s, label |-> l, detail |-> d]
  BY <1>1, Zenon DEF NumbersOf
<1>7. QED BY <1>3, <1>4, <1>5, <1>6 DEF Numbers

LEMMA ItemsByNumbers ==
  ASSUME NEW a, NEW b, Listable(a), Listable(b)
  PROVE  ItemBefore(a, b) <=> NumberedBefore(NumbersOf(a), NumbersOf(b))
<1>1. PICK s1, l1, d1 : s1 = a.score /\ l1 = Rank(Labels, a.label) /\ d1 = Rank(Details, a.detail)
  OBVIOUS
<1>2. PICK s2, l2, d2 : s2 = b.score /\ l2 = Rank(Labels, b.label) /\ d2 = Rank(Details, b.detail)
  OBVIOUS
<1>3. PICK r, q : r = NumbersOf(a) /\ q = NumbersOf(b)
  OBVIOUS
<1>4. r = [score |-> s1, label |-> l1, detail |-> d1] /\ q = [score |-> s2, label |-> l2, detail |-> d2]
  BY <1>1, <1>2, <1>3, Zenon DEF NumbersOf
<1>5. r.score = s1 /\ r.label = l1 /\ r.detail = d1 /\ q.score = s2 /\ q.label = l2 /\ q.detail = d2
  BY <1>4
<1>6. a.label = b.label <=> l1 = l2
  <2>1. Labels[l1] = a.label /\ Labels[l2] = b.label
    BY <1>3, <1>5, ItemNumbers
  <2>2. QED BY <1>1, <1>2, <2>1
<1>7. ItemBefore(a, b) <=> s1 > s2 \/ (s1 = s2 /\ (l1 < l2 \/ (l1 = l2 /\ d1 < d2)))
  BY <1>1, <1>2, <1>6, Zenon DEF ItemBefore
<1>8. NumberedBefore(r, q) <=> s1 > s2 \/ (s1 = s2 /\ (l1 < l2 \/ (l1 = l2 /\ d1 < d2)))
  BY <1>5, Zenon DEF NumberedBefore
<1>9. QED BY <1>3, <1>7, <1>8, Zenon

(* So it is an order of items that differ in label or detail. *)
LEMMA ItemOrder ==
  /\ \A a : Listable(a) => ~ItemBefore(a, a)
  /\ \A a, b : Listable(a) /\ Listable(b) /\ ~(a.label = b.label /\ a.detail = b.detail)
       => ItemBefore(a, b) \/ ItemBefore(b, a)
  /\ \A a, b, c : Listable(a) /\ Listable(b) /\ Listable(c) /\ ItemBefore(a, b) /\ ItemBefore(b, c)
                     => ItemBefore(a, c)
<1>1. \A r, q, p \in Numbers : NumberedBefore(r, q) /\ NumberedBefore(q, p) => NumberedBefore(r, p)
  BY DEF Numbers, NumberedBefore
<1>2. \A r, q \in Numbers : NumberedBefore(r, q) \/ NumberedBefore(q, r) \/ (r.label = q.label /\ r.detail = q.detail)
  BY DEF Numbers, NumberedBefore
<1>3. \A r \in Numbers : ~NumberedBefore(r, r)
  BY DEF Numbers, NumberedBefore
<1>4. ASSUME NEW a, Listable(a)
      PROVE  ~ItemBefore(a, a)
  BY <1>3, <1>4, ItemNumbers, ItemsByNumbers
<1>5. ASSUME NEW a, NEW b, Listable(a), Listable(b), ~(a.label = b.label /\ a.detail = b.detail)
      PROVE  ItemBefore(a, b) \/ ItemBefore(b, a)
  <2>1. PICK r, q : r = NumbersOf(a) /\ q = NumbersOf(b)
    OBVIOUS
  <2>2. /\ r \in Numbers /\ Labels[r.label] = a.label /\ Details[r.detail] = a.detail
        /\ q \in Numbers /\ Labels[q.label] = b.label /\ Details[q.detail] = b.detail
    BY <1>5, <2>1, ItemNumbers, Zenon
  <2>3. NumberedBefore(r, q) \/ NumberedBefore(q, r)
    BY <1>2, <1>5, <2>2, Zenon
  <2>4. QED BY <1>5, <2>1, <2>3, ItemsByNumbers, Zenon
<1>6. ASSUME NEW a, NEW b, NEW c, Listable(a), Listable(b), Listable(c), ItemBefore(a, b), ItemBefore(b, c)
      PROVE  ItemBefore(a, c)
  <2>1. NumbersOf(a) \in Numbers /\ NumbersOf(b) \in Numbers /\ NumbersOf(c) \in Numbers
    BY <1>6, ItemNumbers, Zenon
  <2>2. NumberedBefore(NumbersOf(a), NumbersOf(b)) /\ NumberedBefore(NumbersOf(b), NumbersOf(c))
    BY <1>6, ItemsByNumbers, Zenon
  <2>3. NumberedBefore(NumbersOf(a), NumbersOf(c))
    BY <1>1, <2>1, <2>2, Zenon
  <2>4. QED BY <1>6, <2>3, ItemsByNumbers, Zenon
<1>7. QED BY <1>4, <1>5, <1>6, Zenon

(* The list shows what the items show, each label and detail once, in the  *)
(* order of ItemBefore: it does not matter where in the sequence an item   *)
(* was, if it was the first of its label and detail.                       *)
ItemKey(item) == <<item.label, item.detail>>
ShownOrder(D) == {p \in D \X D : ItemBefore(p[1], p[2])}

LEMMA ShownAlike ==
  \A a, b : (ItemBefore(ShownItem(a), ShownItem(b)) <=> ItemBefore(a, b))
            /\ (ShownItem(a) = ShownItem(b) => ItemKey(a) = ItemKey(b))
<1> SUFFICES ASSUME NEW a, NEW b
             PROVE  /\ ItemBefore(ShownItem(a), ShownItem(b)) <=> ItemBefore(a, b)
                    /\ ShownItem(a) = ShownItem(b) => ItemKey(a) = ItemKey(b)
  OBVIOUS
<1>1. PICK c, d : c = ShownItem(a) /\ d = ShownItem(b)
  OBVIOUS
<1>2. c.score = a.score /\ c.label = a.label /\ c.detail = a.detail
  BY <1>1 DEF ShownItem
<1>3. d.score = b.score /\ d.label = b.label /\ d.detail = b.detail
  BY <1>1 DEF ShownItem
<1>4. ItemBefore(c, d) <=> ItemBefore(a, b)
  BY <1>2, <1>3, Zenon DEF ItemBefore
<1>5. c = d => ItemKey(a) = ItemKey(b)
  BY <1>2, <1>3, Zenon DEF ItemKey
<1>6. QED BY <1>1, <1>4, <1>5, Zenon

AllListable(items, n) == items = [i \in 1..n |-> items[i]] /\ \A i \in 1..n : Listable(items[i])
FirstShown(items, key, n) == {ShownItem(items[i]) : i \in FirstOf(key, n)}

LEMMA ListIs ==
  ASSUME NEW n \in Nat, NEW items, AllListable(items, n),
         NEW key, key = [i \in 1..n |-> ItemKey(items[i])], NEW D, D = FirstShown(items, key, n)
  PROVE  ShownItems(CompletionList(items)) = [k \in 1..Cardinality(D) |-> Nth(ShownOrder(D), D, k)]
<1>1. PICK F : F = FirstOf(key, n)
  OBVIOUS
<1>2. F \subseteq 1..n /\ IsFiniteSet(F)
  <2>1. F \subseteq 1..n
    BY <1>1 DEF FirstOf
  <2>2. IsFiniteSet(1..n)
    BY FS_Interval
  <2>3. QED BY <2>1, <2>2, FS_Subset
<1>3. ItemFirsts(items) = F
  <2>1. DOMAIN items = 1..n
    BY DEF AllListable
  <2>2. ItemFirsts(items) = {i \in 1..n : \A j \in 1..(i - 1) : ItemKey(items[j]) # ItemKey(items[i])}
    BY <2>1, Zenon DEF ItemFirsts, Firsts, ItemKey
  <2>3. \A i \in 1..n : key[i] = ItemKey(items[i]) /\ \A j \in 1..(i - 1) : j \in 1..n
    OBVIOUS
  <2>4. \A i \in 1..n : (\A j \in 1..(i - 1) : ItemKey(items[j]) # ItemKey(items[i]))
                          <=> (\A j \in 1..(i - 1) : key[j] # key[i])
    BY <2>3, Zenon
  <2>5. QED BY <1>1, <2>2, <2>4, Zenon DEF FirstOf
<1>4. \A i, j \in F : ItemKey(items[i]) = ItemKey(items[j]) => i = j
  <2>1. \A i \in F : key[i] = ItemKey(items[i])
    BY <1>2
  <2>2. \A i, j \in F : key[i] = key[j] => i = j
    BY <1>1, FirstOnce
  <2>3. QED BY <2>1, <2>2, Zenon
<1>5. \A i \in F : Listable(items[i])
  BY <1>2 DEF AllListable
<1>6. PICK B : \A i, j \in F : <<i, j>> \in B <=> ItemBefore(items[i], items[j])
  <2>1. PICK B : B = {p \in F \X F : ItemBefore(items[p[1]], items[p[2]])}
    OBVIOUS
  <2>2. QED BY <2>1
<1>7. Orders(B, F)
  <2>1. \A i \in F : <<i, i>> \notin B
    BY <1>5, <1>6, ItemOrder, Zenon
  <2>2. \A i, j \in F : i # j => <<i, j>> \in B \/ <<j, i>> \in B
    <3> SUFFICES ASSUME NEW i \in F, NEW j \in F, i # j
                 PROVE  <<i, j>> \in B \/ <<j, i>> \in B
      OBVIOUS
    <3>1. ~(items[i].label = items[j].label /\ items[i].detail = items[j].detail)
      BY <1>4, Zenon DEF ItemKey
    <3>2. QED BY <1>5, <1>6, <3>1, ItemOrder, Zenon
  <2>3. \A i, j, k \in F : <<i, j>> \in B /\ <<j, k>> \in B => <<i, k>> \in B
    BY <1>5, <1>6, ItemOrder, Zenon
  <2>4. QED BY <2>1, <2>2, <2>3, Zenon DEF Orders
<1>8. CompletionList(items) = [k \in 1..Cardinality(F) |-> items[Nth(B, F, k)]]
  <2>1. ASSUME NEW i \in F
        PROVE  Place(B, F, i) = Cardinality({j \in F : \/ ItemBefore(items[j], items[i])
                                                       \/ ~ItemBefore(items[i], items[j]) /\ j < i})
    <3>1. ASSUME NEW j \in F
          PROVE  <<j, i>> \in B <=> ItemBefore(items[j], items[i]) \/ (~ItemBefore(items[i], items[j]) /\ j < i)
      <4>1. j = i => ~(j < i)
        BY <1>2
      <4>2. j # i => <<j, i>> \in B \/ <<i, j>> \in B
        BY <1>7, Zenon DEF Orders
      <4>3. QED BY <1>6, <4>1, <4>2, Zenon
    <3>2. {j \in F : <<j, i>> \in B}
            = {j \in F : ItemBefore(items[j], items[i]) \/ (~ItemBefore(items[i], items[j]) /\ j < i)}
      BY <3>1, Zenon
    <3>3. QED BY <3>2, Zenon DEF Place
  <2>2. CompletionList(items)
          = [k \in 1..Cardinality(F) |-> items[CHOOSE i \in F :
               Cardinality({j \in F : \/ ItemBefore(items[j], items[i])
                                      \/ ~ItemBefore(items[i], items[j]) /\ j < i}) = k - 1]]
    <3>1. CompletionList(items)
            = Arranged(items, F, LAMBDA i, j : \/ ItemBefore(items[i], items[j])
                                               \/ ~ItemBefore(items[j], items[i]) /\ i < j)
      <4>1. F = ItemFirsts(items)
        BY <1>3
      <4>2. QED BY <4>1, Zenon DEF CompletionList
    <3>2. QED BY <3>1, Zenon DEF Arranged
  <2>3. \A k : Nth(B, F, k) = CHOOSE i \in F :
                 Cardinality({j \in F : \/ ItemBefore(items[j], items[i])
                                        \/ ~ItemBefore(items[i], items[j]) /\ j < i}) = k - 1
    BY <2>1 DEF Nth
  <2>4. QED BY <2>2, <2>3, Zenon
<1>9. PICK x : x = [i \in F |-> ShownItem(items[i])]
  OBVIOUS
<1>10. Renames(x, F, B, D, ShownOrder(D))
  <2>1. D = {x[i] : i \in F}
    BY <1>1, <1>9 DEF FirstShown
  <2>2. \A i, j \in F : x[i] = x[j] => i = j
    BY <1>4, <1>9, ShownAlike
  <2>3. \A i, j \in F : <<x[i], x[j]>> \in ShownOrder(D) <=> ItemBefore(x[i], x[j])
    BY <2>1 DEF ShownOrder
  <2>4. \A i, j \in F : ItemBefore(x[i], x[j]) <=> ItemBefore(items[i], items[j])
    BY <1>9, ShownAlike
  <2>5. \A i, j \in F : <<i, j>> \in B <=> <<x[i], x[j]>> \in ShownOrder(D)
    BY <1>6, <2>3, <2>4, Zenon
  <2>6. QED BY <1>2, <1>7, <2>1, <2>2, <2>5, Zenon DEF Renames
<1>11. PICK m : m = Cardinality(F)
  OBVIOUS
<1>12. Cardinality(D) = m /\ \A k \in 1..m : x[Nth(B, F, k)] = Nth(ShownOrder(D), D, k)
  BY <1>10, <1>11, Renumbered
<1>13. \A k \in 1..m : Nth(B, F, k) \in F
  BY <1>2, <1>7, <1>11, Numbered, Zenon
<1>14. \A k \in 1..m : ShownItem(CompletionList(items)[k]) = Nth(ShownOrder(D), D, k)
  BY <1>8, <1>9, <1>11, <1>12, <1>13
<1>15. DOMAIN CompletionList(items) = 1..m
  BY <1>8, <1>11
<1>16. ShownItems(CompletionList(items)) = [k \in 1..m |-> ShownItem(CompletionList(items)[k])]
  BY <1>15, Zenon DEF ShownItems
<1>17. QED BY <1>12, <1>14, <1>16

(* Two sequences of items in sections that are alike: the same list. *)
KeysOf(items, n) == [i \in 1..n |-> ItemKey(items[i])]
ShownOf(items, n) == [i \in 1..n |-> ShownItem(items[i])]
AlikeItems(items1, n1, section1, items2, n2, section2) ==
  Alike(n1, n2, section1, section2, KeysOf(items1, n1), KeysOf(items2, n2), ShownOf(items1, n1), ShownOf(items2, n2))

LEMMA FirstsShown ==
  ASSUME NEW items1, NEW n1, NEW section1, NEW items2, NEW n2, NEW section2,
         InSections(n1, section1), InSections(n2, section2),
         AlikeItems(items1, n1, section1, items2, n2, section2)
  PROVE  FirstShown(items1, KeysOf(items1, n1), n1) \subseteq FirstShown(items2, KeysOf(items2, n2), n2)
<1>1. PICK key1, key2, x1, x2 : /\ key1 = KeysOf(items1, n1) /\ key2 = KeysOf(items2, n2)
                                /\ x1 = ShownOf(items1, n1) /\ x2 = ShownOf(items2, n2)
  OBVIOUS
<1>2. Alike(n1, n2, section1, section2, key1, key2, x1, x2)
  BY <1>1 DEF AlikeItems
<1>3. \A i \in FirstOf(key1, n1) : \E j \in FirstOf(key2, n2) : x1[i] = x2[j]
  BY <1>2, FirstsAgree
<1>4. \A i \in FirstOf(key1, n1) : x1[i] = ShownItem(items1[i])
  BY <1>1 DEF FirstOf, ShownOf
<1>5. \A j \in FirstOf(key2, n2) : x2[j] = ShownItem(items2[j])
  BY <1>1 DEF FirstOf, ShownOf
<1>6. QED BY <1>1, <1>3, <1>4, <1>5 DEF FirstShown

LEMMA SameLists ==
  ASSUME NEW items1, NEW n1, NEW section1, NEW items2, NEW n2, NEW section2,
         AllListable(items1, n1), AllListable(items2, n2),
         InSections(n1, section1), InSections(n2, section2),
         AlikeItems(items1, n1, section1, items2, n2, section2),
         AlikeItems(items2, n2, section2, items1, n1, section1)
  PROVE  ShownItems(CompletionList(items1)) = ShownItems(CompletionList(items2))
<1>1. PICK D, E : /\ D = FirstShown(items1, KeysOf(items1, n1), n1)
                  /\ E = FirstShown(items2, KeysOf(items2, n2), n2)
  OBVIOUS
<1>2. D \subseteq E
  BY <1>1, FirstsShown
<1>3. E \subseteq D
  BY <1>1, FirstsShown
<1>4. D = E
  BY <1>2, <1>3
<1>5. n1 \in Nat /\ n2 \in Nat
  BY DEF InSections
<1>6. ShownItems(CompletionList(items1)) = [k \in 1..Cardinality(D) |-> Nth(ShownOrder(D), D, k)]
  BY <1>1, <1>5, ListIs DEF KeysOf
<1>7. ShownItems(CompletionList(items2)) = [k \in 1..Cardinality(E) |-> Nth(ShownOrder(E), E, k)]
  BY <1>1, <1>5, ListIs DEF KeysOf
<1>8. QED BY <1>4, <1>6, <1>7, Zenon

(* What is selected of a sequence in sections is in these sections. *)
SelectedFrom(items, n, section, all, at, sections) ==
  /\ n \in Nat /\ InSections(n, section) /\ items = [k \in 1..n |-> items[k]]
  /\ \A k \in 1..n : \E i \in at : items[k] = all[i] /\ section[k] = sections[i]
  /\ \A i \in at : \E k \in 1..n : items[k] = all[i] /\ section[k] = sections[i]

LEMMA SelectedInSections ==
  ASSUME NEW all, NEW m, NEW sections, InSections(m, sections), NEW at, at \subseteq 1..m,
         NEW items, items = Selected(all, at)
  PROVE  \E n, section : SelectedFrom(items, n, section, all, at, sections)
<1>1. m \in Nat /\ sections \in [1..m -> Nat] /\ \A i, j \in 1..m : i < j => sections[i] <= sections[j]
  BY DEF InSections
<1>2. PICK n : IsSelection(items, all, at, n)
  BY <1>1, SelectedIs
<1>3. n \in Nat /\ items = [k \in 1..n |-> items[k]]
  BY <1>2 DEF IsSelection
<1>4. PICK place \in [1..n -> at] :
        /\ \A k \in 1..n : items[k] = all[place[k]]
        /\ \A k, l \in 1..n : k < l => place[k] < place[l]
        /\ \A i \in at : \E k \in 1..n : place[k] = i
  BY <1>2 DEF IsSelection
<1>5. PICK section : section = [k \in 1..n |-> sections[place[k]]]
  OBVIOUS
<1>6. InSections(n, section)
  <2>1. \A k \in 1..n : place[k] \in 1..m
    BY <1>4
  <2>2. section \in [1..n -> Nat]
    BY <1>1, <1>5, <2>1
  <2>3. \A k, l \in 1..n : k < l => section[k] <= section[l]
    BY <1>1, <1>4, <1>5, <2>1
  <2>4. QED BY <1>3, <2>2, <2>3 DEF InSections
<1>7. \A k \in 1..n : \E i \in at : items[k] = all[i] /\ section[k] = sections[i]
  BY <1>4, <1>5
<1>8. \A i \in at : \E k \in 1..n : items[k] = all[i] /\ section[k] = sections[i]
  BY <1>4, <1>5
<1>9. SelectedFrom(items, n, section, all, at, sections)
  BY <1>3, <1>6, <1>7, <1>8, Zenon DEF SelectedFrom
<1>10. QED BY <1>9

(* What a sequence of items shows, section by section. *)
HasParts(items, n, section, P) ==
  /\ items = [i \in 1..n |-> items[i]] /\ InSections(n, section)
  /\ \A i \in 1..n : <<section[i], ShownItem(items[i])>> \in P
  /\ \A p \in P : \E i \in 1..n : p = <<section[i], ShownItem(items[i])>>
IsListing(items, P) == \E n, section : HasParts(items, n, section, P)

(* In a section a label and detail is shown of one item. *)
Keyed(P) == \A s, x, y : <<s, x>> \in P /\ <<s, y>> \in P /\ ItemKey(x) = ItemKey(y) => x = y
ListableParts(P) == \A s, x : <<s, x>> \in P => Listable(x)

LEMMA PartsAlike ==
  ASSUME NEW items1, NEW n1, NEW section1, NEW items2, NEW n2, NEW section2, NEW P,
         HasParts(items1, n1, section1, P), HasParts(items2, n2, section2, P), Keyed(P)
  PROVE  AlikeItems(items1, n1, section1, items2, n2, section2)
<1>1. PICK key1, key2, x1, x2 : /\ key1 = KeysOf(items1, n1) /\ key2 = KeysOf(items2, n2)
                                /\ x1 = ShownOf(items1, n1) /\ x2 = ShownOf(items2, n2)
  OBVIOUS
<1>2. \A i \in 1..n1 : \E j \in 1..n2 : section1[i] = section2[j] /\ ShownItem(items1[i]) = ShownItem(items2[j])
  BY DEF HasParts
<1>3. \A j \in 1..n2 : \E i \in 1..n1 : section1[i] = section2[j] /\ ShownItem(items1[i]) = ShownItem(items2[j])
  BY DEF HasParts
<1>4. \A i \in 1..n1 : key1[i] = ItemKey(items1[i]) /\ x1[i] = ShownItem(items1[i])
  BY <1>1 DEF KeysOf, ShownOf
<1>5. \A i \in 1..n2 : key2[i] = ItemKey(items2[i]) /\ x2[i] = ShownItem(items2[i])
  BY <1>1 DEF KeysOf, ShownOf
<1>10. \A i \in 1..n1, j \in 1..n2 :
         ShownItem(items1[i]) = ShownItem(items2[j]) => key1[i] = key2[j] /\ x1[i] = x2[j]
  BY <1>4, <1>5, ShownAlike
<1>6. \A i \in 1..n1 : \E j \in 1..n2 : section1[i] = section2[j] /\ key1[i] = key2[j] /\ x1[i] = x2[j]
  BY <1>2, <1>10
<1>7. \A j \in 1..n2 : \E i \in 1..n1 : section1[i] = section2[j] /\ key1[i] = key2[j]
  BY <1>3, <1>10
<1>8. \A i, j \in 1..n2 : section2[i] = section2[j] /\ key2[i] = key2[j] => x2[i] = x2[j]
  <2> SUFFICES ASSUME NEW i \in 1..n2, NEW j \in 1..n2, section2[i] = section2[j], key2[i] = key2[j]
               PROVE  x2[i] = x2[j]
    OBVIOUS
  <2>1. <<section2[i], ShownItem(items2[i])>> \in P /\ <<section2[i], ShownItem(items2[j])>> \in P
    BY DEF HasParts
  <2>2. ItemKey(ShownItem(items2[i])) = ItemKey(items2[i]) /\ ItemKey(ShownItem(items2[j])) = ItemKey(items2[j])
    BY DEF ItemKey, ShownItem
  <2>3. ItemKey(ShownItem(items2[i])) = ItemKey(ShownItem(items2[j]))
    BY <1>5, <2>2, Zenon
  <2>4. QED BY <1>5, <2>1, <2>3, Zenon DEF Keyed
<1>9. QED BY <1>1, <1>6, <1>7, <1>8, Zenon DEF AlikeItems, Alike

LEMMA PartsListable ==
  ASSUME NEW items, NEW n, NEW section, NEW P, HasParts(items, n, section, P), ListableParts(P)
  PROVE  AllListable(items, n)
<1>1. ASSUME NEW i \in 1..n
      PROVE  Listable(items[i])
  <2>1. PICK a, c : a = items[i] /\ c = ShownItem(a)
    OBVIOUS
  <2>2. Listable(c)
    BY <2>1 DEF HasParts, ListableParts
  <2>3. c.score = a.score /\ c.label = a.label /\ c.detail = a.detail
    BY <2>1 DEF ShownItem
  <2>4. Listable(a)
    BY <2>2, <2>3, Zenon DEF Listable
  <2>5. QED BY <2>1, <2>4
<1>2. items = [i \in 1..n |-> items[i]]
  BY DEF HasParts
<1>3. QED BY <1>1, <1>2, Zenon DEF AllListable

LEMMA SameListing ==
  ASSUME NEW items1, NEW items2, NEW P, IsListing(items1, P), IsListing(items2, P), Keyed(P), ListableParts(P)
  PROVE  ShownItems(CompletionList(items1)) = ShownItems(CompletionList(items2))
<1>1. PICK n1, section1 : HasParts(items1, n1, section1, P)
  BY Zenon DEF IsListing
<1>2. PICK n2, section2 : HasParts(items2, n2, section2, P)
  BY Zenon DEF IsListing
<1>3. AllListable(items1, n1) /\ AllListable(items2, n2)
  BY <1>1, <1>2, PartsListable, Zenon
<1>4. InSections(n1, section1) /\ InSections(n2, section2)
  BY <1>1, <1>2, Zenon DEF HasParts
<1>5. AlikeItems(items1, n1, section1, items2, n2, section2)
  BY <1>1, <1>2, PartsAlike
<1>6. AlikeItems(items2, n2, section2, items1, n1, section1)
  BY <1>1, <1>2, PartsAlike
<1>7. QED BY <1>3, <1>4, <1>5, <1>6, SameLists

(* Selecting items by what is shown selects parts. *)
LEMMA SelectedListing ==
  ASSUME NEW all, NEW P, NEW n, NEW sections, HasParts(all, n, sections, P),
         NEW at, at \subseteq 1..n, NEW Q, Q \subseteq P,
         \A i \in 1..n : i \in at <=> <<sections[i], ShownItem(all[i])>> \in Q
  PROVE  IsListing(Selected(all, at), Q)
<1>1. PICK items : items = Selected(all, at)
  OBVIOUS
<1>2. InSections(n, sections)
  BY DEF HasParts
<1>3. PICK m, section : SelectedFrom(items, m, section, all, at, sections)
  BY <1>1, <1>2, SelectedInSections, Zenon
<1>8. /\ m \in Nat /\ InSections(m, section) /\ items = [k \in 1..m |-> items[k]]
      /\ \A k \in 1..m : \E i \in at : items[k] = all[i] /\ section[k] = sections[i]
      /\ \A i \in at : \E k \in 1..m : items[k] = all[i] /\ section[k] = sections[i]
  BY <1>3 DEF SelectedFrom
<1>4. \A k \in 1..m : <<section[k], ShownItem(items[k])>> \in Q
  BY <1>8
<1>5. ASSUME NEW p \in Q
      PROVE  \E k \in 1..m : p = <<section[k], ShownItem(items[k])>>
  <2>1. PICK i \in 1..n : p = <<sections[i], ShownItem(all[i])>>
    BY DEF HasParts
  <2>2. i \in at
    BY <2>1
  <2>3. PICK k \in 1..m : items[k] = all[i] /\ section[k] = sections[i]
    BY <1>8, <2>2
  <2>4. QED BY <2>1, <2>3
<1>6. HasParts(items, m, section, Q)
  BY <1>8, <1>4, <1>5, Zenon DEF HasParts
<1>7. QED BY <1>1, <1>6, Zenon DEF IsListing

------------------------------------------------------------------------------
(* The methods of a text, whatever the order of its fields. *)
MethodSet(t) == UNION {ToSet(Methods(t, order)) : order \in SetToSeqs(DOMAIN Fields(t))}

LEMMA MethodsHave ==
  ASSUME NEW t \in Infos, NEW order \in SetToSeqs(DOMAIN Fields(t)), NEW q, q = Methods(t, order)
  PROVE  \E n \in Nat : /\ q = [k \in 1..n |-> q[k]]
                        /\ \A k, l \in 1..n : MethodKey(q[k]) = MethodKey(q[l]) => k = l
<1>1. PICK all, d, a, b, n : /\ all = AllMethods(t, order) /\ d = Len(Declared(t)) /\ a = AccessorCount(t)
                             /\ b = Len(Builder(t)) /\ n = d + a + b
  OBVIOUS
<1>2. d \in Nat /\ a \in Nat /\ b \in {0, 1} /\ all = [i \in 1..n |-> all[i]]
  BY <1>1, AllMethodsAre DEF AccessorCount
<1>3. n \in Nat
  BY <1>1, <1>2
<1>4. PICK key : /\ key = [i \in 1..n |-> MethodKey(all[i])]
                 /\ IsSelection(Methods(t, order), all, FirstOf(key, n), Cardinality(FirstOf(key, n)))
  <2>1. all = AllMethods(t, order) /\ all = [i \in 1..n |-> all[i]]
    BY <1>1, <1>2
  <2>2. QED BY <1>3, <2>1, MethodsAre
<1>5. PICK m : m = Cardinality(FirstOf(key, n))
  OBVIOUS
<1>6. \A i \in 1..n : key[i] = MethodKey(all[i])
  BY <1>4
<1>7. IsSelection(q, all, FirstOf(key, n), m)
  BY <1>4, <1>5
<1>8. m \in Nat /\ q = [k \in 1..m |-> q[k]]
  BY <1>7 DEF IsSelection
<1>9. \A k, l \in 1..m : MethodKey(q[k]) = MethodKey(q[l]) => k = l
  BY <1>3, <1>6, <1>7, DedupedIs
<1>10. QED BY <1>8, <1>9

LEMMA MethodSetIs ==
  ASSUME NEW t \in Infos, NEW order \in SetToSeqs(DOMAIN Fields(t))
  PROVE  ToSet(Methods(t, order)) = MethodSet(t)
<1>1. ASSUME NEW o1 \in SetToSeqs(DOMAIN Fields(t)), NEW o2 \in SetToSeqs(DOMAIN Fields(t))
      PROVE  ToSet(Methods(t, o1)) \subseteq ToSet(Methods(t, o2))
  <2>1. PICK q1, q2 : q1 = Methods(t, o1) /\ q2 = Methods(t, o2)
    OBVIOUS
  <2>2. \A k \in DOMAIN q1 : \E l \in DOMAIN q2 : q1[k] = q2[l]
    BY <2>1, MethodsAgree
  <2>3. ToSet(q1) \subseteq ToSet(q2)
    BY <2>2 DEF ToSet
  <2>4. QED BY <2>1, <2>3
<1>2. \A o1, o2 \in SetToSeqs(DOMAIN Fields(t)) : ToSet(Methods(t, o1)) \subseteq ToSet(Methods(t, o2))
  BY <1>1, Zenon
<1>3. PICK S, T : S = SetToSeqs(DOMAIN Fields(t)) /\ T = [o \in S |-> ToSet(Methods(t, o))]
  OBVIOUS
<1>4. MethodSet(t) = UNION {T[o] : o \in S}
  BY <1>3 DEF MethodSet
<1>5. \A o1, o2 \in S : T[o1] \subseteq T[o2]
  BY <1>2, <1>3
<1>6. T[order] = UNION {T[o] : o \in S}
  BY <1>3, <1>5
<1>7. QED BY <1>3, <1>4, <1>6

LEMMA MethodSetKeyed ==
  ASSUME NEW t \in Infos, NEW order \in SetToSeqs(DOMAIN Fields(t)),
         NEW m \in MethodSet(t), NEW n \in MethodSet(t), MethodKey(m) = MethodKey(n)
  PROVE  m = n
<1>1. PICK q : q = Methods(t, order)
  OBVIOUS
<1>2. m \in ToSet(q) /\ n \in ToSet(q)
  BY <1>1, MethodSetIs
<1>3. PICK c \in Nat : /\ q = [k \in 1..c |-> q[k]]
                       /\ \A k, l \in 1..c : MethodKey(q[k]) = MethodKey(q[l]) => k = l
  BY <1>1, MethodsHave
<1>4. DOMAIN q = 1..c
  BY <1>3
<1>5. PICK k \in 1..c, l \in 1..c : m = q[k] /\ n = q[l]
  BY <1>2, <1>4 DEF ToSet
<1>6. MethodKey(q[k]) = MethodKey(q[l])
  BY <1>5
<1>7. k = l
  BY <1>3, <1>6, Zenon
<1>8. QED BY <1>5, <1>7

(* What is shown of methods and variables. *)
MethodShown(ctx, m) ==
  [label |-> m.name, kind |-> "method", detail |-> MethodDetail(m), score |-> MethodCompletionScore(ctx.target, m)]
VariableShown(kind, name, type) ==
  [label |-> name, kind |-> kind, detail |-> VariableDetail(type), score |-> 0]

LEMMA ItemsShown ==
  /\ \A ctx, order, m : ShownItem(MethodItem(ctx, order, m)) = MethodShown(ctx, m)
  /\ \A kind, name, type : ShownItem(VariableItem(kind, name, type)) = VariableShown(kind, name, type)
<1>1. ASSUME NEW ctx, NEW order, NEW m
      PROVE  ShownItem(MethodItem(ctx, order, m)) = MethodShown(ctx, m)
  <2>1. PICK item, d, i, s : /\ item = MethodItem(ctx, order, m) /\ d = MethodDetail(m)
                             /\ s = MethodCompletionScore(ctx.target, m)
                             /\ i = [j \in DOMAIN m.params |->
                                       BestArgumentPlaceholder(Locals(ctx.text, ctx.line), order, m.params[j])]
    OBVIOUS
  <2>2. item = [label |-> m.name, kind |-> "method", detail |-> d, insert |-> i, score |-> s]
    BY <2>1, Zenon DEF MethodItem
  <2>3. ShownItem(item) = [label |-> m.name, kind |-> "method", detail |-> d, score |-> s]
    BY <2>2 DEF ShownItem
  <2>4. QED BY <2>1, <2>3, Zenon DEF MethodShown
<1>2. ASSUME NEW kind, NEW name, NEW type
      PROVE  ShownItem(VariableItem(kind, name, type)) = VariableShown(kind, name, type)
  BY DEF ShownItem, VariableItem, VariableShown
<1>3. QED BY <1>1, <1>2, Zenon

(* What the list of a class shows. *)
OfferedMethods(info, kind, prefix) ==
  {m \in MethodSet(info) : (kind = "type" => m.static) /\ StartsWith(m.name, prefix)}
TypeParts(ctx, info, kind, prefix) == {<<1, MethodShown(ctx, m)>> : m \in OfferedMethods(info, kind, prefix)}

LEMMA TypeListing ==
  ASSUME NEW ctx, NEW info \in Infos, NEW kind, NEW prefix, NEW fields \in SetToSeqs(DOMAIN Fields(info)), NEW locals
  PROVE  IsListing(ItemsForType(ctx, info, kind, prefix, fields, locals), TypeParts(ctx, info, kind, prefix))
<1>1. PICK all : all = Methods(info, fields)
  OBVIOUS
<1>2. \E n \in Nat : all = [k \in 1..n |-> all[k]]
  BY <1>1, MethodsHave
<1>3. PICK n \in Nat : all = [k \in 1..n |-> all[k]]
  BY <1>2
<1>4. DOMAIN all = 1..n
  BY <1>3
<1>5. MethodSet(info) = {all[i] : i \in 1..n}
  <2>1. MethodSet(info) = ToSet(all)
    BY <1>1, MethodSetIs
  <2>2. QED BY <1>4, <2>1 DEF ToSet
<1>6. PICK at : at = {i \in 1..n : (kind = "type" => all[i].static) /\ StartsWith(all[i].name, prefix)}
  OBVIOUS
<1>7. PICK sections : sections = [i \in 1..n |-> 1]
  OBVIOUS
<1>8. InSections(n, sections)
  BY <1>7 DEF InSections
<1>9. PICK methods : methods = Selected(all, at)
  OBVIOUS
<1>10. at \subseteq 1..n
  BY <1>6
<1>11. PICK m, section : SelectedFrom(methods, m, section, all, at, sections)
  BY <1>8, <1>9, <1>10, SelectedInSections, Zenon
<1>12. /\ m \in Nat /\ InSections(m, section) /\ methods = [k \in 1..m |-> methods[k]]
       /\ \A k \in 1..m : \E i \in at : methods[k] = all[i] /\ section[k] = sections[i]
       /\ \A i \in at : \E k \in 1..m : methods[k] = all[i] /\ section[k] = sections[i]
  BY <1>11 DEF SelectedFrom
<1>13. PICK items : items = ItemsForType(ctx, info, kind, prefix, fields, locals)
  OBVIOUS
<1>14. items = [k \in 1..m |-> MethodItem(ctx, locals, methods[k])]
  <2>1. items = LET offered == Selected(all, {i \in DOMAIN all : (kind = "type" => all[i].static)
                                                                  /\ StartsWith(all[i].name, prefix)})
                IN [i \in DOMAIN offered |-> MethodItem(ctx, locals, offered[i])]
    BY <1>1, <1>13, Zenon DEF ItemsForType
  <2>2. {i \in DOMAIN all : (kind = "type" => all[i].static) /\ StartsWith(all[i].name, prefix)} = at
    BY <1>4, <1>6, Zenon
  <2>3. items = [i \in DOMAIN methods |-> MethodItem(ctx, locals, methods[i])]
    BY <1>9, <2>1, <2>2, Zenon
  <2>4. DOMAIN methods = 1..m
    BY <1>12
  <2>5. QED BY <2>3, <2>4, Zenon
<1>15. PICK Q, P : Q = OfferedMethods(info, kind, prefix) /\ P = TypeParts(ctx, info, kind, prefix)
  OBVIOUS
<1>16. Q = {all[i] : i \in at}
  <2>1. \A x : x \in Q <=> (\E i \in 1..n : x = all[i]) /\ (kind = "type" => x.static) /\ StartsWith(x.name, prefix)
    BY <1>5, <1>15 DEF OfferedMethods
  <2>2. \A x : x \in Q <=> \E i \in at : x = all[i]
    BY <1>6, <2>1
  <2>3. QED BY <2>2
<1>17. \A p : p \in P <=> \E x \in Q : p = <<1, MethodShown(ctx, x)>>
  BY <1>15, Zenon DEF TypeParts
<1>18. \A k \in 1..m : ShownItem(items[k]) = MethodShown(ctx, methods[k])
  <2>1. \A k \in 1..m : items[k] = MethodItem(ctx, locals, methods[k])
    BY <1>14, Zenon
  <2>2. QED BY <2>1, ItemsShown, Zenon
<1>19. \A k \in 1..m : section[k] = 1
  BY <1>7, <1>10, <1>12
<1>20. \A k \in 1..m : methods[k] \in Q
  BY <1>12, <1>16
<1>21. \A k \in 1..m : <<section[k], ShownItem(items[k])>> \in P
  BY <1>17, <1>18, <1>19, <1>20, Zenon
<1>22. \A x \in Q : \E k \in 1..m : methods[k] = x
  BY <1>12, <1>16
<1>23. \A p \in P : \E k \in 1..m : p = <<section[k], ShownItem(items[k])>>
  BY <1>17, <1>18, <1>19, <1>22
<1>24. items = [k \in 1..m |-> items[k]]
  BY <1>14
<1>25. HasParts(items, m, section, P)
  BY <1>12, <1>21, <1>23, <1>24, Zenon DEF HasParts
<1>26. IsListing(items, P)
  BY <1>25, Zenon DEF IsListing
<1>27. QED BY <1>13, <1>15, <1>26, Zenon

(* What the list of the scope shows: fields, locals and methods. *)
ScopeParts(ctx) ==
  {<<1, VariableShown("field", n, Fields(ctx.text)[n])>> : n \in DOMAIN Fields(ctx.text)}
    \union {<<2, VariableShown("local", n, Locals(ctx.text, ctx.line)[n])>> : n \in DOMAIN Locals(ctx.text, ctx.line)}
    \union {<<3, MethodShown(ctx, m)>> : m \in MethodSet(ctx.text)}
ScopeAll(ctx, fieldOrder, localOrder) ==
  LET fields == Fields(ctx.text)
      locals == Locals(ctx.text, ctx.line)
      methods == Methods(ctx.text, fieldOrder)
  IN [i \in DOMAIN fieldOrder |-> VariableItem("field", fieldOrder[i], fields[fieldOrder[i]])]
       \o [i \in DOMAIN localOrder |-> VariableItem("local", localOrder[i], locals[localOrder[i]])]
       \o [i \in DOMAIN methods |-> MethodItem(ctx, localOrder, methods[i])]


(* A sequence of items in sections a to b. *)
Bounded(n, section, a, b) == \A i \in 1..n : a <= section[i] /\ section[i] <= b
Within(items, P, a, b) == \E n, section : HasParts(items, n, section, P) /\ Bounded(n, section, a, b)

Shows(items, n, s, P) == \A p : p \in P <=> \E i \in 1..n : p = <<s, ShownItem(items[i])>>

LEMMA OneSection ==
  ASSUME NEW n \in Nat, NEW s \in Nat, NEW items, items = [i \in 1..n |-> items[i]],
         NEW P, Shows(items, n, s, P)
  PROVE  Within(items, P, s, s)
<1>1. PICK section : section = [i \in 1..n |-> s]
  OBVIOUS
<1>2. InSections(n, section) /\ \A i \in 1..n : section[i] = s
  BY <1>1 DEF InSections
<1>3. HasParts(items, n, section, P)
  BY <1>2 DEF HasParts, Shows
<1>4. Bounded(n, section, s, s)
  BY <1>2 DEF Bounded
<1>5. QED BY <1>3, <1>4, Zenon DEF Within

(* One list of sections after another. *)
JoinedSections(m, n, section1, section2) ==
  [i \in 1..(m + n) |-> IF i <= m THEN section1[i] ELSE section2[i - m]]

Sectioned(n, section, a, b) == InSections(n, section) /\ Bounded(n, section, a, b)
AfterSections(section, m, n, section1, section2) ==
  /\ \A i \in 1..m : i \in 1..(m + n) /\ section[i] = section1[i]
  /\ \A i \in 1..n : m + i \in 1..(m + n) /\ section[m + i] = section2[i]

LEMMA JoinedSectionsAre ==
  ASSUME NEW a \in Nat, NEW b \in Nat, NEW c \in Nat, NEW d \in Nat, a <= b, b < c, c <= d,
         NEW m, NEW section1, Sectioned(m, section1, a, b), NEW n, NEW section2, Sectioned(n, section2, c, d),
         NEW section, section = JoinedSections(m, n, section1, section2)
  PROVE  /\ Sectioned(m + n, section, a, d) /\ AfterSections(section, m, n, section1, section2)
<1>1. m \in Nat /\ section1 \in [1..m -> Nat] /\ n \in Nat /\ section2 \in [1..n -> Nat]
  BY DEF InSections, Sectioned
<1>2. /\ \A i, j \in 1..m : i < j => section1[i] <= section1[j]
      /\ \A i, j \in 1..n : i < j => section2[i] <= section2[j]
  BY DEF InSections, Sectioned
<1>0. /\ \A i \in 1..m : a <= section1[i] /\ section1[i] <= b
      /\ \A i \in 1..n : c <= section2[i] /\ section2[i] <= d
  BY DEF Bounded, Sectioned
<1>3. \A i \in 1..m : i \in 1..(m + n) /\ section[i] = section1[i]
  BY <1>1 DEF JoinedSections
<1>4. \A i \in 1..n : m + i \in 1..(m + n) /\ section[m + i] = section2[i]
  BY <1>1 DEF JoinedSections
<1>5. \A i \in 1..(m + n) : i \in 1..m \/ (i - m \in 1..n /\ i > m /\ section[i] = section2[i - m])
  BY <1>1 DEF JoinedSections
<1>6. ASSUME NEW i \in 1..(m + n)
      PROVE  section[i] \in Nat /\ a <= section[i] /\ section[i] <= d
  <2>1. CASE i \in 1..m
    BY <1>0, <1>1, <1>3, <2>1
  <2>2. CASE i \notin 1..m
    BY <1>0, <1>1, <1>5, <2>2
  <2>3. QED BY <2>1, <2>2
<1>7. ASSUME NEW i \in 1..(m + n), NEW j \in 1..(m + n), i < j
      PROVE  section[i] <= section[j]
  <2>1. CASE i \in 1..m /\ j \in 1..m
    BY <1>2, <1>3, <1>7, <2>1
  <2>2. CASE i \in 1..m /\ j \notin 1..m
    BY <1>0, <1>1, <1>3, <1>5, <2>2
  <2>3. CASE i \notin 1..m
    <3>1. j \notin 1..m
      BY <1>1, <1>7, <2>3
    <3>2. PICK x \in 1..n, y \in 1..n : x = i - m /\ y = j - m
      BY <1>5, <2>3, <3>1
    <3>3. section[i] = section2[x] /\ section[j] = section2[y] /\ x < y
      BY <1>1, <1>5, <1>7, <2>3, <3>1, <3>2
    <3>4. QED BY <1>2, <3>3
  <2>4. QED BY <2>1, <2>2, <2>3
<1>8. section \in [1..(m + n) -> Nat]
  BY <1>6 DEF JoinedSections
<1>9. InSections(m + n, section)
  <2>1. m + n \in Nat
    BY <1>1
  <2>2. QED BY <1>7, <1>8, <2>1 DEF InSections
<1>10. Bounded(m + n, section, a, d)
  BY <1>6 DEF Bounded
<1>11. QED BY <1>3, <1>4, <1>9, <1>10 DEF Sectioned, AfterSections

IsList(f, m) == m \in Nat /\ f = [k \in 1..m |-> f[k]]
Follows(q, f, m, g, n) ==
  /\ IsList(q, m + n)
  /\ \A k \in 1..m : q[k] = f[k]
  /\ \A k \in 1..n : q[m + k] = g[k]
LEMMA ConcatenationFollows == \A f, m, g, n : IsList(f, m) /\ IsList(g, n) => Follows(f \o g, f, m, g, n)
<1> SUFFICES ASSUME NEW f, NEW m, NEW g, NEW n, IsList(f, m), IsList(g, n)
             PROVE  Follows(f \o g, f, m, g, n)
  BY Zenon
<1>1. m \in Nat /\ n \in Nat /\ f = [k \in 1..m |-> f[k]] /\ g = [k \in 1..n |-> g[k]]
  BY DEF IsList
<1>2. f \o g = [k \in 1..(m + n) |-> (f \o g)[k]]
  BY <1>1, Concatenated
<1>3. \A k \in 1..m : (f \o g)[k] = f[k]
  BY <1>1, Concatenated
<1>4. \A k \in 1..n : (f \o g)[m + k] = g[k]
  BY <1>1, Concatenated
<1>5. m + n \in Nat
  BY <1>1
<1>6. IsList(f \o g, m + n)
  BY <1>2, <1>5, Zenon DEF IsList
<1>7. QED BY <1>3, <1>4, <1>6, Zenon DEF Follows

LEMMA Joined ==
  ASSUME NEW f, NEW g, NEW P, NEW Q, NEW a \in Nat, NEW b \in Nat, NEW c \in Nat, NEW d \in Nat,
         a <= b, b < c, c <= d, Within(f, P, a, b), Within(g, Q, c, d)
  PROVE  Within(f \o g, P \union Q, a, d)
<1>1. PICK m, section1 : HasParts(f, m, section1, P) /\ Bounded(m, section1, a, b)
  BY Zenon DEF Within
<1>2. PICK n, section2 : HasParts(g, n, section2, Q) /\ Bounded(n, section2, c, d)
  BY Zenon DEF Within
<1>3. PICK section, N, all : section = JoinedSections(m, n, section1, section2) /\ N = m + n /\ all = f \o g
  OBVIOUS
<1>4. InSections(m, section1) /\ InSections(n, section2) /\ m \in Nat /\ n \in Nat
  BY <1>1, <1>2 DEF HasParts, InSections
<1>0. Sectioned(m, section1, a, b) /\ Sectioned(n, section2, c, d)
  BY <1>1, <1>2, <1>4, Zenon DEF Sectioned
<1>a. Sectioned(m + n, section, a, d) /\ AfterSections(section, m, n, section1, section2)
  BY <1>0, <1>3, JoinedSectionsAre
<1>5. /\ InSections(m + n, section) /\ Bounded(m + n, section, a, d)
      /\ \A i \in 1..m : i \in 1..(m + n) /\ section[i] = section1[i]
      /\ \A i \in 1..n : m + i \in 1..(m + n) /\ section[m + i] = section2[i]
  BY <1>a DEF Sectioned, AfterSections
<1>6. /\ all = [k \in 1..N |-> all[k]]
      /\ \A k \in 1..m : all[k] = f[k]
      /\ \A k \in 1..n : all[m + k] = g[k]
  <2>1. f = [k \in 1..m |-> f[k]] /\ g = [k \in 1..n |-> g[k]]
    BY <1>1, <1>2, Zenon DEF HasParts
  <2>2. IsList(f, m) /\ IsList(g, n)
    BY <1>4, <2>1, Zenon DEF IsList
  <2>3. Follows(f \o g, f, m, g, n)
    BY <2>2, ConcatenationFollows, Zenon
  <2>4. QED BY <1>3, <2>3, Zenon DEF Follows, IsList
<1>7. /\ \A i \in 1..m : <<section1[i], ShownItem(f[i])>> \in P
      /\ \A p \in P : \E i \in 1..m : p = <<section1[i], ShownItem(f[i])>>
      /\ \A i \in 1..n : <<section2[i], ShownItem(g[i])>> \in Q
      /\ \A p \in Q : \E i \in 1..n : p = <<section2[i], ShownItem(g[i])>>
  BY <1>1, <1>2 DEF HasParts
<1>8. ASSUME NEW i \in 1..N
      PROVE  <<section[i], ShownItem(all[i])>> \in P \union Q
  <2>1. CASE i \in 1..m
    BY <1>5, <1>6, <1>7, <2>1
  <2>2. CASE i \notin 1..m
    <3>1. PICK x \in 1..n : i = m + x
      <4>1. i - m \in 1..n /\ i = m + (i - m)
        BY <1>3, <1>4, <2>2
      <4>2. QED BY <4>1
    <3>2. section[i] = section2[x] /\ all[i] = g[x]
      BY <1>5, <1>6, <3>1
    <3>3. QED BY <1>7, <3>2
  <2>3. QED BY <2>1, <2>2
<1>9. ASSUME NEW p \in P \union Q
      PROVE  \E i \in 1..N : p = <<section[i], ShownItem(all[i])>>
  <2>1. CASE p \in P
    <3>1. PICK x \in 1..m : p = <<section1[x], ShownItem(f[x])>>
      BY <1>7, <2>1
    <3>2. x \in 1..N /\ section[x] = section1[x] /\ all[x] = f[x]
      BY <1>3, <1>5, <1>6
    <3>3. QED BY <3>1, <3>2
  <2>2. CASE p \in Q
    <3>1. PICK x \in 1..n : p = <<section2[x], ShownItem(g[x])>>
      BY <1>7, <2>2
    <3>2. PICK i \in 1..N : i = m + x
      BY <1>3, <1>5
    <3>3. section[i] = section2[x] /\ all[i] = g[x]
      BY <1>5, <1>6, <3>2
    <3>4. QED BY <3>1, <3>3
  <2>3. QED BY <2>1, <2>2
<1>10. InSections(N, section) /\ Bounded(N, section, a, d)
  BY <1>3, <1>5
<1>11. HasParts(all, N, section, P \union Q)
  BY <1>6, <1>8, <1>9, <1>10, Zenon DEF HasParts
<1>12. Within(all, P \union Q, a, d)
  BY <1>10, <1>11, Zenon DEF Within
<1>13. QED BY <1>3, <1>12

(* The largest of a bounded set of numbers. *)
LEMMA MaxIn ==
  ASSUME NEW n \in Nat, NEW T, T \subseteq 0..n, T # {}
  PROVE  Max(T) \in T
<1> DEFINE bounds == {b \in Nat : \A y \in T : y <= b}
<1>1. bounds \subseteq Nat /\ n \in bounds
  OBVIOUS
<1>2. PICK b \in bounds : \A c \in bounds : b <= c
  <2> HIDE DEF bounds
  <2>1. QED BY <1>1, LeastNumber
<1>3. b \in T
  <2> SUFFICES ASSUME b \notin T
               PROVE  FALSE
    OBVIOUS
  <2>1. \A y \in T : y \in Nat /\ y < b
    BY <1>2
  <2>2. b - 1 \in bounds
    <3>1. PICK x \in T : x \in Nat /\ x < b
      BY <2>1
    <3>2. b \in Nat /\ b - 1 \in Nat
      BY <3>1
    <3>3. QED BY <2>1, <3>2
  <2>3. b <= b - 1
    BY <1>2, <2>2
  <2>4. QED BY <1>2, <2>3
<1>4. \E x \in T : \A y \in T : x >= y
  BY <1>2, <1>3
<1>5. QED BY <1>4, Zenon DEF Max

LEMMA ImageFinite ==
  ASSUME NEW S, IsFiniteSet(S), NEW f
  PROVE  IsFiniteSet({f[i] : i \in S})
<1>1. PICK T, g : T = {f[i] : i \in S} /\ g = [i \in S |-> f[i]]
  OBVIOUS
<1>2. g \in Surjection(S, T)
  BY <1>1 DEF Surjection
<1>3. IsFiniteSet(T)
  BY <1>2, FS_Surjection
<1>4. QED BY <1>1, <1>3

LEMMA TypesFinite ==
  ASSUME NEW t, NEW n \in Nat, NEW at, at \subseteq 1..n
  PROVE  IsFiniteSet(DOMAIN TypesAt(t, at))
<1>1. IsFiniteSet(1..n)
  BY FS_Interval
<1>2. IsFiniteSet(at)
  BY <1>1, FS_Subset
<1>3. PICK name : name = [i \in at |-> t.lines[i].name]
  OBVIOUS
<1>4. IsFiniteSet({name[i] : i \in at})
  BY <1>2, ImageFinite
<1>5. DOMAIN TypesAt(t, at) = {name[i] : i \in at}
  BY <1>3 DEF TypesAt
<1>6. QED BY <1>4, <1>5

LEMMA LocalsFinite ==
  ASSUME NEW t \in AllTexts, NEW line \in DOMAIN t.lines
  PROVE  IsFiniteSet(DOMAIN Locals(t, line))
<1>1. Len(t.lines) \in Nat /\ line \in 1..Len(t.lines) /\ DOMAIN t.lines = 1..Len(t.lines)
  <2>1. Len(t.lines) \in Nat /\ t.lines = [l \in 1..Len(t.lines) |-> t.lines[l]]
    BY InfosAreTexts DEF Infos, InfoParts
  <2>2. QED BY <2>1
<1>2. PICK methods, params, declared, names, at :
        /\ methods = Declares(t, {"method"}, line)
        /\ params = IF methods = {} THEN <<>> ELSE t.lines[Max(methods)].params
        /\ at = Declares(t, {"field", "local"}, line) /\ declared = TypesAt(t, at)
        /\ names = {params[i].name : i \in DOMAIN params}
  OBVIOUS
<1>3. IsFiniteSet(DOMAIN declared)
  <2>1. line \in Nat /\ at \subseteq 1..line
    BY <1>1, <1>2 DEF Declares
  <2>2. QED BY <1>2, <2>1, TypesFinite
<1>4. \E n \in Nat : DOMAIN params = 1..n
  <2>1. CASE methods = {}
    BY <1>2, <2>1
  <2>2. CASE methods # {}
    <3>1. PICK m : m = Max(methods)
      OBVIOUS
    <3>2. line \in Nat /\ methods \subseteq 0..line
      BY <1>1, <1>2 DEF Declares
    <3>3. m \in methods
      BY <2>2, <3>1, <3>2, MaxIn
    <3>4. m \in DOMAIN t.lines /\ t.lines[m].kind = "method"
      BY <1>1, <1>2, <3>3 DEF Declares
    <3>5. t.lines[m].params \in Seq(ToSet(t.lines[m].params))
      BY <3>4, TextAssumption, Zenon DEF AllTexts
    <3>6. params = t.lines[m].params
      BY <1>2, <2>2, <3>1, Zenon
    <3>7. params \in Seq(ToSet(params))
      BY <3>5, <3>6, Zenon
    <3>8. QED BY <3>7, LenProperties
  <2>3. QED BY <2>1, <2>2
<1>5. IsFiniteSet(names)
  <2>1. PICK n \in Nat : DOMAIN params = 1..n
    BY <1>4
  <2>2. IsFiniteSet(DOMAIN params)
    BY <2>1, FS_Interval
  <2>3. PICK name : name = [i \in DOMAIN params |-> params[i].name]
    OBVIOUS
  <2>4. names = {name[i] : i \in DOMAIN params}
    BY <1>2, <2>3
  <2>5. QED BY <2>2, <2>4, ImageFinite
<1>6. DOMAIN Locals(t, line) = names \union DOMAIN declared
  BY <1>2, Zenon DEF Locals
<1>7. QED BY <1>3, <1>5, <1>6, FS_Union

(* The scope's items are those, whatever the orders of fields and locals. *)
VariableItems(kind, order, types) == [i \in DOMAIN order |-> VariableItem(kind, order[i], types[order[i]])]
VariableParts(s, kind, S, types) == {<<s, VariableShown(kind, x, types[x])>> : x \in S}
MethodItems(ctx, order, methods) == [i \in DOMAIN methods |-> MethodItem(ctx, order, methods[i])]
MethodParts(s, ctx, M) == {<<s, MethodShown(ctx, m)>> : m \in M}

LEMMA VariablesWithin ==
  ASSUME NEW S, IsFiniteSet(S), NEW order \in SetToSeqs(S), NEW types, NEW kind, NEW s \in Nat
  PROVE  Within(VariableItems(kind, order, types), VariableParts(s, kind, S, types), s, s)
<1>1. PICK n, items, P : /\ n = Cardinality(S) /\ P = VariableParts(s, kind, S, types)
                         /\ items = VariableItems(kind, order, types)
  OBVIOUS
<1>2. n \in Nat /\ order \in [1..n -> S] /\ \A x \in S : \E i \in 1..n : order[i] = x
  BY <1>1, OrderIs
<1>3. items = [i \in 1..n |-> items[i]]
  BY <1>1, <1>2 DEF VariableItems
<1>4. \A i \in 1..n : ShownItem(items[i]) = VariableShown(kind, order[i], types[order[i]])
  <2>1. \A i \in 1..n : items[i] = VariableItem(kind, order[i], types[order[i]])
    BY <1>1, <1>2 DEF VariableItems
  <2>2. QED BY <2>1, ItemsShown, Zenon
<1>5. ASSUME NEW p
      PROVE  p \in P <=> \E i \in 1..n : p = <<s, ShownItem(items[i])>>
  <2>1. \A i \in 1..n : order[i] \in S
    BY <1>2
  <2>2. p \in P <=> \E x \in S : p = <<s, VariableShown(kind, x, types[x])>>
    BY <1>1 DEF VariableParts
  <2>3. (\E x \in S : p = <<s, VariableShown(kind, x, types[x])>>)
          <=> \E i \in 1..n : p = <<s, VariableShown(kind, order[i], types[order[i]])>>
    BY <1>2, <2>1
  <2>4. (\E i \in 1..n : p = <<s, VariableShown(kind, order[i], types[order[i]])>>)
          <=> \E i \in 1..n : p = <<s, ShownItem(items[i])>>
    BY <1>4
  <2>5. QED BY <2>2, <2>3, <2>4
<1>6. Shows(items, n, s, P)
  BY <1>5, Zenon DEF Shows
<1>7. Within(items, P, s, s)
  BY <1>2, <1>3, <1>6, OneSection, Zenon
<1>8. QED BY <1>1, <1>7, Zenon

LEMMA MethodsWithin ==
  ASSUME NEW t \in Infos, NEW order \in SetToSeqs(DOMAIN Fields(t)), NEW ctx, NEW locals, NEW s \in Nat
  PROVE  Within(MethodItems(ctx, locals, Methods(t, order)), MethodParts(s, ctx, MethodSet(t)), s, s)
<1>0. PICK q, items, P : /\ q = Methods(t, order) /\ P = MethodParts(s, ctx, MethodSet(t))
                         /\ items = MethodItems(ctx, locals, q)
  OBVIOUS
<1>1. PICK n \in Nat : q = [k \in 1..n |-> q[k]]
  BY <1>0, MethodsHave
<1>2. DOMAIN q = 1..n
  BY <1>1
<1>3. PICK M : M = MethodSet(t)
  OBVIOUS
<1>4. M = {q[k] : k \in 1..n}
  <2>1. M = ToSet(q)
    BY <1>0, <1>3, MethodSetIs
  <2>2. QED BY <1>2, <2>1 DEF ToSet
<1>5. items = [i \in 1..n |-> items[i]]
  BY <1>0, <1>2 DEF MethodItems
<1>6. \A i \in 1..n : ShownItem(items[i]) = MethodShown(ctx, q[i])
  <2>1. \A i \in 1..n : items[i] = MethodItem(ctx, locals, q[i])
    BY <1>0, <1>2, Zenon DEF MethodItems
  <2>2. QED BY <2>1, ItemsShown, Zenon
<1>7. ASSUME NEW p
      PROVE  p \in P <=> \E i \in 1..n : p = <<s, ShownItem(items[i])>>
  <2>1. p \in P <=> \E m \in M : p = <<s, MethodShown(ctx, m)>>
    BY <1>0, <1>3 DEF MethodParts
  <2>2. (\E m \in M : p = <<s, MethodShown(ctx, m)>>) <=> \E i \in 1..n : p = <<s, MethodShown(ctx, q[i])>>
    BY <1>4
  <2>3. (\E i \in 1..n : p = <<s, MethodShown(ctx, q[i])>>) <=> \E i \in 1..n : p = <<s, ShownItem(items[i])>>
    BY <1>6
  <2>4. QED BY <2>1, <2>2, <2>3
<1>8. Shows(items, n, s, P)
  BY <1>7, Zenon DEF Shows
<1>9. Within(items, P, s, s)
  BY <1>5, <1>8, OneSection, Zenon
<1>10. QED BY <1>0, <1>9, Zenon

LEMMA ScopeAllWithin ==
  ASSUME NEW t \in AllTexts, NEW line \in DOMAIN t.lines, NEW ctx, ctx.text = t, ctx.line = line,
         NEW fields \in SetToSeqs(DOMAIN Fields(t)), NEW locals \in SetToSeqs(DOMAIN Locals(t, line))
  PROVE  Within(ScopeAll(ctx, fields, locals), ScopeParts(ctx), 1, 3)
<1>1. PICK F, L, q : F = Fields(t) /\ L = Locals(t, line) /\ q = Methods(t, fields)
  OBVIOUS
<1>2. PICK f, g, h : /\ f = VariableItems("field", fields, F) /\ g = VariableItems("local", locals, L)
                     /\ h = MethodItems(ctx, locals, q)
  OBVIOUS
<1>3. PICK P1, P2, P3 : /\ P1 = VariableParts(1, "field", DOMAIN F, F) /\ P2 = VariableParts(2, "local", DOMAIN L, L)
                        /\ P3 = MethodParts(3, ctx, MethodSet(t))
  OBVIOUS
<1>4. t \in Infos
  BY DEF Infos
<1>5. IsFiniteSet(DOMAIN F) /\ IsFiniteSet(DOMAIN L)
  BY <1>1, <1>4, FieldsFinite, LocalsFinite
<1>a. 1 \in Nat /\ 2 \in Nat /\ 3 \in Nat
  OBVIOUS
<1>6. Within(f, P1, 1, 1)
  BY <1>1, <1>2, <1>3, <1>5, <1>a, VariablesWithin, Zenon
<1>7. Within(g, P2, 2, 2)
  BY <1>1, <1>2, <1>3, <1>5, <1>a, VariablesWithin, Zenon
<1>8. Within(h, P3, 3, 3)
  BY <1>1, <1>2, <1>3, <1>4, <1>a, MethodsWithin, Zenon
<1>9. Within(f \o g, P1 \union P2, 1, 2)
  BY <1>6, <1>7, Joined
<1>10. Within((f \o g) \o h, (P1 \union P2) \union P3, 1, 3)
  BY <1>8, <1>9, Joined
<1>11. ScopeAll(ctx, fields, locals) = (f \o g) \o h
  BY <1>1, <1>2, Zenon DEF ScopeAll, VariableItems, MethodItems
<1>12. ScopeParts(ctx) = (P1 \union P2) \union P3
  BY <1>1, <1>3, Zenon DEF ScopeParts, VariableParts, MethodParts
<1>13. QED BY <1>10, <1>11, <1>12, Zenon

ScopeOffered(ctx, prefix) == {p \in ScopeParts(ctx) : StartsWith(p[2].label, prefix)}

LEMMA ScopeListing ==
  ASSUME NEW t \in AllTexts, NEW line \in DOMAIN t.lines, NEW ctx, ctx.text = t, ctx.line = line, NEW prefix,
         NEW fields \in SetToSeqs(DOMAIN Fields(t)), NEW locals \in SetToSeqs(DOMAIN Locals(t, line))
  PROVE  IsListing(ItemsForCurrentScope(ctx, prefix, fields, locals), ScopeOffered(ctx, prefix))
<1>1. PICK all, P, Q : all = ScopeAll(ctx, fields, locals) /\ P = ScopeParts(ctx) /\ Q = ScopeOffered(ctx, prefix)
  OBVIOUS
<1>2. Within(all, P, 1, 3)
  BY <1>1, ScopeAllWithin
<1>3. PICK n, section : HasParts(all, n, section, P)
  BY <1>2, Zenon DEF Within
<1>4. PICK at : at = {i \in 1..n : StartsWith(all[i].label, prefix)}
  OBVIOUS
<1>5. DOMAIN all = 1..n
  BY <1>3 DEF HasParts
<1>6. ItemsForCurrentScope(ctx, prefix, fields, locals)
        = Selected(all, {i \in DOMAIN all : StartsWith(all[i].label, prefix)})
  BY <1>1, Zenon DEF ItemsForCurrentScope, ScopeAll
<1>7. ItemsForCurrentScope(ctx, prefix, fields, locals) = Selected(all, at)
  BY <1>4, <1>5, <1>6, Zenon
<1>8. at \subseteq 1..n
  BY <1>4
<1>9. Q \subseteq P
  BY <1>1 DEF ScopeOffered
<1>10. ASSUME NEW i \in 1..n
       PROVE  i \in at <=> <<section[i], ShownItem(all[i])>> \in Q
  <2>1. PICK a, s, p : a = ShownItem(all[i]) /\ s = section[i] /\ p = <<s, a>>
    OBVIOUS
  <2>2. p \in P
    BY <1>3, <2>1 DEF HasParts
  <2>3. a.label = all[i].label
    BY <2>1 DEF ShownItem
  <2>4. p[2] = a
    BY <2>1
  <2>5. p \in Q <=> StartsWith(all[i].label, prefix)
    BY <1>1, <2>2, <2>3, <2>4, Zenon DEF ScopeOffered
  <2>6. QED BY <1>4, <2>1, <2>5
<1>11. IsListing(Selected(all, at), Q)
  BY <1>3, <1>8, <1>9, <1>10, SelectedListing
<1>12. QED BY <1>1, <1>7, <1>11, Zenon

(* A label and detail is shown of one item in a section. *)
LEMMA ShownKeys ==
  /\ \A ctx, m : ItemKey(MethodShown(ctx, m)) = MethodKey(m)
  /\ \A kind, name, type : ItemKey(VariableShown(kind, name, type)) = <<name, VariableDetail(type)>>
<1>1. ASSUME NEW ctx, NEW m
      PROVE  ItemKey(MethodShown(ctx, m)) = MethodKey(m)
  <2>1. PICK x, d, s : x = MethodShown(ctx, m) /\ d = MethodDetail(m) /\ s = MethodCompletionScore(ctx.target, m)
    OBVIOUS
  <2>2. x = [label |-> m.name, kind |-> "method", detail |-> d, score |-> s]
    BY <2>1, Zenon DEF MethodShown
  <2>3. x.label = m.name /\ x.detail = d
    BY <2>2
  <2>4. QED BY <2>1, <2>3, Zenon DEF ItemKey, MethodKey
<1>2. ASSUME NEW kind, NEW name, NEW type
      PROVE  ItemKey(VariableShown(kind, name, type)) = <<name, VariableDetail(type)>>
  <2>1. PICK x, d : x = VariableShown(kind, name, type) /\ d = VariableDetail(type)
    OBVIOUS
  <2>2. x.label = name /\ x.detail = d
    BY <2>1 DEF VariableShown
  <2>3. QED BY <2>1, <2>2, Zenon DEF ItemKey
<1>3. QED BY <1>1, <1>2, Zenon

LEMMA MethodPartsKeyed ==
  ASSUME NEW t \in Infos, NEW order \in SetToSeqs(DOMAIN Fields(t)), NEW M, M \subseteq MethodSet(t), NEW s, NEW ctx
  PROVE  Keyed(MethodParts(s, ctx, M))
<1> SUFFICES ASSUME NEW r, NEW x, NEW y, <<r, x>> \in MethodParts(s, ctx, M), <<r, y>> \in MethodParts(s, ctx, M),
                    ItemKey(x) = ItemKey(y)
             PROVE  x = y
  BY Zenon DEF Keyed
<1>1. PICK m \in M, n \in M : x = MethodShown(ctx, m) /\ y = MethodShown(ctx, n)
  BY DEF MethodParts
<1>2. MethodKey(m) = MethodKey(n)
  BY <1>1, ShownKeys, Zenon
<1>3. m \in MethodSet(t) /\ n \in MethodSet(t)
  OBVIOUS
<1>4. m = n
  BY <1>2, <1>3, MethodSetKeyed
<1>5. QED BY <1>1, <1>4

LEMMA VariablePartsKeyed ==
  ASSUME NEW s, NEW kind, NEW S, NEW types
  PROVE  Keyed(VariableParts(s, kind, S, types))
<1> SUFFICES ASSUME NEW r, NEW x, NEW y, <<r, x>> \in VariableParts(s, kind, S, types),
                    <<r, y>> \in VariableParts(s, kind, S, types), ItemKey(x) = ItemKey(y)
             PROVE  x = y
  BY Zenon DEF Keyed
<1>1. PICK a \in S, b \in S : x = VariableShown(kind, a, types[a]) /\ y = VariableShown(kind, b, types[b])
  BY DEF VariableParts
<1>2. PICK d, e : d = VariableDetail(types[a]) /\ e = VariableDetail(types[b])
  OBVIOUS
<1>3. ItemKey(x) = <<a, d>> /\ ItemKey(y) = <<b, e>>
  BY <1>1, <1>2, ShownKeys, Zenon
<1>4. <<a, d>> = <<b, e>>
  BY <1>3, Zenon
<1>5. a = b
  BY <1>4, Zenon
<1>6. QED BY <1>1, <1>5, Zenon

(* Items can be listed. *)
LEMMA TargetScores ==
  ASSUME NEW target, NEW m, target # NoTarget => TargetScore(m.name, target.name) \in {0, 20, 40}
  PROVE  MethodCompletionScore(target, m) \in Nat
<1>1. PICK a, b, c :
        /\ a = TargetScore(m.name, target.name)
        /\ b = (IF Normal(target.type.written) = Normal(m.returns.written) THEN 200
                ELSE IF Normal(Head(target.type.names)) = Normal(Head(m.returns.names)) THEN 120 ELSE 0)
        /\ c = IF m.generated THEN 10 ELSE 0
  OBVIOUS
<1>2. b \in Nat /\ c \in Nat
  BY <1>1
<1>3. MethodCompletionScore(target, m) = (IF target = NoTarget THEN 0 ELSE a + b) + c
  BY <1>1, Zenon DEF MethodCompletionScore
<1>4. target # NoTarget => a \in Nat
  BY <1>1
<1>5. QED BY <1>2, <1>3, <1>4

ContextOf(t, l) ==
  [text |-> t, line |-> l, target |-> IF t.lines[l].kind = "import" THEN NoTarget ELSE t.lines[l].target]
Completable(t, l) == l \in DOMAIN t.lines /\ t.lines[l].kind \in {"access", "import", "scope"}

LEMMA CompletionParts ==
  ASSUME NEW t \in Infos
  PROVE  /\ \A f \in DOMAIN Fields(t) : f \in ToSet(Labels) /\ VariableDetail(Fields(t)[f]) \in ToSet(Details)
         /\ \A m \in MethodSet(t) : m.name \in ToSet(Labels) /\ MethodDetail(m) \in ToSet(Details)
         /\ \A l \in DOMAIN t.lines : \A n \in DOMAIN Locals(t, l) :
              n \in ToSet(Labels) /\ VariableDetail(Locals(t, l)[n]) \in ToSet(Details)
         /\ \A l : Completable(t, l) /\ ContextOf(t, l).target # NoTarget
              => \A m \in ToSet(Labels) : TargetScore(m, ContextOf(t, l).target.name) \in {0, 20, 40}
<1>0. t \in Texts \union {Library[c] : c \in DOMAIN Library} \union {EmptyText}
  BY DEF Infos, AllTexts
<1>1. \A f \in DOMAIN Fields(t) : f \in ToSet(Labels) /\ VariableDetail(Fields(t)[f]) \in ToSet(Details)
  BY <1>0, CompletionAssumption, Zenon
<1>2. \A order \in SetToSeqs(DOMAIN Fields(t)) : \A m \in ToSet(Methods(t, order)) :
        m.name \in ToSet(Labels) /\ MethodDetail(m) \in ToSet(Details)
  BY <1>0, CompletionAssumption, Zenon
<1>3. \A l \in DOMAIN t.lines : \A n \in DOMAIN Locals(t, l) :
        n \in ToSet(Labels) /\ VariableDetail(Locals(t, l)[n]) \in ToSet(Details)
  BY <1>0, CompletionAssumption, Zenon
<1>4. \A l \in DOMAIN t.lines :
        t.lines[l].kind \in {"access", "scope"} /\ t.lines[l].target # NoTarget
          => \A m \in ToSet(Labels) : TargetScore(m, t.lines[l].target.name) \in {0, 20, 40}
  BY <1>0, CompletionAssumption, Zenon
<1>5. \A m \in MethodSet(t) : m.name \in ToSet(Labels) /\ MethodDetail(m) \in ToSet(Details)
  BY <1>2, Zenon DEF MethodSet
<1>6. ASSUME NEW l, Completable(t, l), ContextOf(t, l).target # NoTarget, NEW m \in ToSet(Labels)
      PROVE  TargetScore(m, ContextOf(t, l).target.name) \in {0, 20, 40}
  <2>1. ContextOf(t, l).target = IF t.lines[l].kind = "import" THEN NoTarget ELSE t.lines[l].target
    BY DEF ContextOf
  <2>2. t.lines[l].kind # "import" /\ ContextOf(t, l).target = t.lines[l].target
    BY <1>6, <2>1
  <2>3. l \in DOMAIN t.lines /\ t.lines[l].kind \in {"access", "scope"}
    BY <1>6, <2>2 DEF Completable
  <2>4. QED BY <1>4, <1>6, <2>2, <2>3, Zenon
<1>7. QED BY <1>1, <1>3, <1>5, <1>6, Zenon

LEMMA MethodPartsListable ==
  ASSUME NEW t \in Infos, NEW l, Completable(t, l), NEW info \in Infos, NEW M, M \subseteq MethodSet(info), NEW s
  PROVE  ListableParts(MethodParts(s, ContextOf(t, l), M))
<1> SUFFICES ASSUME NEW r, NEW x, <<r, x>> \in MethodParts(s, ContextOf(t, l), M)
             PROVE  Listable(x)
  BY Zenon DEF ListableParts
<1>1. PICK ctx : ctx = ContextOf(t, l)
  OBVIOUS
<1>2. PICK m \in M : x = MethodShown(ctx, m)
  BY <1>1 DEF MethodParts
<1>3. m \in MethodSet(info)
  OBVIOUS
<1>4. m.name \in ToSet(Labels) /\ MethodDetail(m) \in ToSet(Details)
  BY <1>3, CompletionParts, Zenon
<1>5. ctx.target # NoTarget => TargetScore(m.name, ctx.target.name) \in {0, 20, 40}
  BY <1>1, <1>4, CompletionParts, Zenon
<1>6. PICK d, c : d = MethodDetail(m) /\ c = MethodCompletionScore(ctx.target, m)
  OBVIOUS
<1>7. c \in Nat
  BY <1>5, <1>6, TargetScores
<1>8. x = [label |-> m.name, kind |-> "method", detail |-> d, score |-> c]
  BY <1>2, <1>6, Zenon DEF MethodShown
<1>9. x.label = m.name /\ x.detail = d /\ x.score = c
  BY <1>8
<1>10. QED BY <1>4, <1>6, <1>7, <1>9, Zenon DEF Listable

LEMMA VariablePartsListable ==
  ASSUME NEW s, NEW kind, NEW S, NEW types,
         \A n \in S : n \in ToSet(Labels) /\ VariableDetail(types[n]) \in ToSet(Details)
  PROVE  ListableParts(VariableParts(s, kind, S, types))
<1> SUFFICES ASSUME NEW r, NEW x, <<r, x>> \in VariableParts(s, kind, S, types)
             PROVE  Listable(x)
  BY Zenon DEF ListableParts
<1>1. PICK n \in S : x = VariableShown(kind, n, types[n])
  BY DEF VariableParts
<1>2. PICK d : d = VariableDetail(types[n])
  OBVIOUS
<1>3. x = [label |-> n, kind |-> kind, detail |-> d, score |-> 0]
  BY <1>1, <1>2, Zenon DEF VariableShown
<1>4. x.label = n /\ x.detail = d /\ x.score \in Nat
  BY <1>3
<1>5. QED BY <1>2, <1>4 DEF Listable

LEMMA PartsSection ==
  /\ \A s, ctx, M, r, x : <<r, x>> \in MethodParts(s, ctx, M) => r = s
  /\ \A s, kind, S, types, r, x : <<r, x>> \in VariableParts(s, kind, S, types) => r = s
<1>1. \A s, ctx, M, r, x : <<r, x>> \in MethodParts(s, ctx, M) => r = s
  BY DEF MethodParts
<1>2. \A s, kind, S, types, r, x : <<r, x>> \in VariableParts(s, kind, S, types) => r = s
  BY DEF VariableParts
<1>3. QED BY <1>1, <1>2

LEMMA PartsUnion ==
  /\ \A P, Q : /\ Keyed(P) /\ Keyed(Q)
               /\ \A s, x, y : ~(<<s, x>> \in P /\ <<s, y>> \in Q)
               => Keyed(P \union Q)
  /\ \A P, Q : Q \subseteq P /\ Keyed(P) => Keyed(Q)
  /\ \A P, Q : ListableParts(P) /\ ListableParts(Q) => ListableParts(P \union Q)
  /\ \A P, Q : Q \subseteq P /\ ListableParts(P) => ListableParts(Q)
<1>1. \A P, Q : /\ Keyed(P) /\ Keyed(Q)
                /\ \A s, x, y : ~(<<s, x>> \in P /\ <<s, y>> \in Q)
                => Keyed(P \union Q)
  BY Zenon DEF Keyed
<1>2. \A P, Q : Q \subseteq P /\ Keyed(P) => Keyed(Q)
  BY Zenon DEF Keyed
<1>3. \A P, Q : ListableParts(P) /\ ListableParts(Q) => ListableParts(P \union Q)
  BY Zenon DEF ListableParts
<1>4. \A P, Q : Q \subseteq P /\ ListableParts(P) => ListableParts(Q)
  BY Zenon DEF ListableParts
<1>5. QED BY <1>1, <1>2, <1>3, <1>4, Zenon

(* The answers of completion: each is a list of its text, its line and the *)
(* imports of the workspace, for some orders of the maps.                  *)
IsScopeList(t, l, items) ==
  \E fields \in SetToSeqs(DOMAIN Fields(t)) : \E locals \in SetToSeqs(DOMAIN Locals(t, l)) :
    items = CompletionList(ItemsForCurrentScope(ContextOf(t, l), t.lines[l].prefix, fields, locals))
IsTypeList(t, l, sh, info, items) ==
  \E fields \in SetToSeqs(DOMAIN Fields(info)) : \E locals \in SetToSeqs(DOMAIN Locals(t, l)) :
    items = CompletionList(ItemsForType(ContextOf(t, l), info, ReceiverKind(t, l, sh), TypePrefix(t, l),
                                        fields, locals))
Listed(t, l, sh, info, items) ==
  /\ t \in AllTexts /\ Completable(t, l) /\ info \in Infos
  /\ t.lines[l].kind = "scope" => info = t /\ IsScopeList(t, l, items)
  /\ t.lines[l].kind # "scope" => IsTypeList(t, l, sh, info, items)

(* The lists of a class are one list, and those of the scope. *)
ListOf(items, P) == \E a : IsListing(a, P) /\ items = CompletionList(a)
OneList(P) == Keyed(P) /\ ListableParts(P)

LEMMA ListsAlike ==
  ASSUME NEW P, OneList(P), NEW items1, NEW items2, ListOf(items1, P), ListOf(items2, P)
  PROVE  ShownItems(items1) = ShownItems(items2)
<1>1. PICK a, b : IsListing(a, P) /\ IsListing(b, P) /\ items1 = CompletionList(a) /\ items2 = CompletionList(b)
  BY Zenon DEF ListOf
<1>2. QED BY <1>1, SameListing, Zenon DEF OneList

LEMMA TypeLists ==
  ASSUME NEW t \in Infos, NEW l, Completable(t, l), NEW info \in Infos, NEW sh,
         NEW fields \in SetToSeqs(DOMAIN Fields(info))
  PROVE  \E P : OneList(P) /\ \A items : IsTypeList(t, l, sh, info, items) => ListOf(items, P)
<1>0. PICK kind, prefix : kind = ReceiverKind(t, l, sh) /\ prefix = TypePrefix(t, l)
  OBVIOUS
<1>1. PICK ctx, M, P : /\ ctx = ContextOf(t, l) /\ M = OfferedMethods(info, kind, prefix)
                       /\ P = TypeParts(ctx, info, kind, prefix)
  OBVIOUS
<1>2. P = MethodParts(1, ctx, M)
  BY <1>1, Zenon DEF TypeParts, MethodParts
<1>3. M \subseteq MethodSet(info)
  BY <1>1 DEF OfferedMethods
<1>4. Keyed(P)
  BY <1>2, <1>3, MethodPartsKeyed, Zenon
<1>5. ListableParts(P)
  BY <1>1, <1>2, <1>3, MethodPartsListable, Zenon
<1>6. ASSUME NEW items, IsTypeList(t, l, sh, info, items)
      PROVE  ListOf(items, P)
  <2>1. PICK order \in SetToSeqs(DOMAIN Fields(info)) : \E locals :
          items = CompletionList(ItemsForType(ctx, info, kind, prefix, order, locals))
    BY <1>0, <1>1, <1>6, Zenon DEF IsTypeList
  <2>2. PICK locals : items = CompletionList(ItemsForType(ctx, info, kind, prefix, order, locals))
    BY <2>1
  <2>3. IsListing(ItemsForType(ctx, info, kind, prefix, order, locals), P)
    BY <1>1, TypeListing, Zenon
  <2>4. QED BY <2>2, <2>3, Zenon DEF ListOf
<1>7. OneList(P)
  BY <1>4, <1>5 DEF OneList
<1>8. QED BY <1>6, <1>7, Zenon

LEMMA ScopeLists ==
  ASSUME NEW t \in AllTexts, NEW l, Completable(t, l), NEW fields \in SetToSeqs(DOMAIN Fields(t))
  PROVE  \E P : OneList(P) /\ \A items : IsScopeList(t, l, items) => ListOf(items, P)
<1>0. PICK prefix : prefix = t.lines[l].prefix
  OBVIOUS
<1>1. PICK ctx, P, Q : ctx = ContextOf(t, l) /\ P = ScopeParts(ctx) /\ Q = ScopeOffered(ctx, prefix)
  OBVIOUS
<1>2. ctx.text = t /\ ctx.line = l
  BY <1>1 DEF ContextOf
<1>3. PICK F, L, P1, P2, P3 :
        /\ F = Fields(t) /\ L = Locals(t, l)
        /\ P1 = VariableParts(1, "field", DOMAIN F, F) /\ P2 = VariableParts(2, "local", DOMAIN L, L)
        /\ P3 = MethodParts(3, ctx, MethodSet(t))
  OBVIOUS
<1>4. P = (P1 \union P2) \union P3
  BY <1>1, <1>2, <1>3, Zenon DEF ScopeParts, VariableParts, MethodParts
<1>5. t \in Infos /\ l \in DOMAIN t.lines
  BY DEF Infos, Completable
<1>6. Keyed(P1) /\ Keyed(P2)
  BY <1>3, VariablePartsKeyed, Zenon
<1>7. MethodSet(t) \subseteq MethodSet(t)
  OBVIOUS
<1>8. Keyed(P3)
  BY <1>3, <1>5, <1>7, MethodPartsKeyed, Zenon
<1>9. \A s, x : /\ <<s, x>> \in P1 => s = 1
                /\ <<s, x>> \in P2 => s = 2
                /\ <<s, x>> \in P3 => s = 3
  BY <1>3, PartsSection, Zenon
<1>10. Keyed(P1 \union P2)
  <2>1. \A s, x, y : ~(<<s, x>> \in P1 /\ <<s, y>> \in P2)
    BY <1>9
  <2>2. QED BY <1>6, <2>1, PartsUnion, Zenon
<1>11. Keyed(P)
  <2>1. \A s, x, y : ~(<<s, x>> \in P1 \union P2 /\ <<s, y>> \in P3)
    BY <1>9
  <2>2. QED BY <1>4, <1>8, <1>10, <2>1, PartsUnion, Zenon
<1>12. ListableParts(P1)
  <2>1. \A f \in DOMAIN F : f \in ToSet(Labels) /\ VariableDetail(F[f]) \in ToSet(Details)
    BY <1>3, <1>5, CompletionParts, Zenon
  <2>2. QED BY <1>3, <2>1, VariablePartsListable, Zenon
<1>13. ListableParts(P2)
  <2>1. \A f \in DOMAIN L : f \in ToSet(Labels) /\ VariableDetail(L[f]) \in ToSet(Details)
    BY <1>3, <1>5, CompletionParts, Zenon
  <2>2. QED BY <1>3, <2>1, VariablePartsListable, Zenon
<1>14. ListableParts(P3)
  BY <1>1, <1>3, <1>5, <1>7, MethodPartsListable, Zenon
<1>15. ListableParts(P)
  BY <1>4, <1>12, <1>13, <1>14, PartsUnion, Zenon
<1>16. Q \subseteq P
  BY <1>1 DEF ScopeOffered
<1>17. Keyed(Q) /\ ListableParts(Q)
  BY <1>11, <1>15, <1>16, PartsUnion, Zenon
<1>18. ASSUME NEW items, IsScopeList(t, l, items)
       PROVE  ListOf(items, Q)
  <2>1. PICK order \in SetToSeqs(DOMAIN Fields(t)) : \E locals \in SetToSeqs(DOMAIN Locals(t, l)) :
          items = CompletionList(ItemsForCurrentScope(ctx, prefix, order, locals))
    BY <1>0, <1>1, <1>18, Zenon DEF IsScopeList
  <2>2. PICK locals \in SetToSeqs(DOMAIN Locals(t, l)) :
          items = CompletionList(ItemsForCurrentScope(ctx, prefix, order, locals))
    BY <2>1
  <2>3. IsListing(ItemsForCurrentScope(ctx, prefix, order, locals), Q)
    BY <1>1, <1>2, <1>5, ScopeListing, Zenon
  <2>4. QED BY <2>2, <2>3, Zenon DEF ListOf
<1>19. OneList(Q)
  BY <1>17 DEF OneList
<1>20. QED BY <1>18, <1>19, Zenon

LEMMA ListedAlike ==
  ASSUME NEW t, NEW l, NEW sh, NEW info, NEW items1, NEW items2,
         Listed(t, l, sh, info, items1), Listed(t, l, sh, info, items2)
  PROVE  ShownItems(items1) = ShownItems(items2)
<1>1. t \in AllTexts /\ Completable(t, l) /\ info \in Infos /\ t \in Infos
  BY DEF Listed, Infos
<1>2. CASE t.lines[l].kind = "scope"
  <2>1. IsScopeList(t, l, items1) /\ IsScopeList(t, l, items2)
    BY <1>2, Zenon DEF Listed
  <2>2. PICK fields : fields \in SetToSeqs(DOMAIN Fields(t))
    BY <2>1, Zenon DEF IsScopeList
  <2>3. PICK P : OneList(P) /\ \A items : IsScopeList(t, l, items) => ListOf(items, P)
    BY <1>1, <2>2, ScopeLists, Zenon
  <2>4. ListOf(items1, P) /\ ListOf(items2, P)
    BY <2>1, <2>3, Zenon
  <2>5. QED BY <2>3, <2>4, ListsAlike, Zenon
<1>3. CASE t.lines[l].kind # "scope"
  <2>1. IsTypeList(t, l, sh, info, items1) /\ IsTypeList(t, l, sh, info, items2)
    BY <1>3, Zenon DEF Listed
  <2>2. PICK fields : fields \in SetToSeqs(DOMAIN Fields(info))
    BY <2>1, Zenon DEF IsTypeList
  <2>3. PICK P : OneList(P) /\ \A items : IsTypeList(t, l, sh, info, items) => ListOf(items, P)
    BY <1>1, <2>2, TypeLists, Zenon
  <2>4. ListOf(items1, P) /\ ListOf(items2, P)
    BY <2>1, <2>3, Zenon
  <2>5. QED BY <2>3, <2>4, ListsAlike, Zenon
<1>4. QED BY <1>2, <1>3

GoodList(a, sh) ==
  a # None /\ a.result.kind = "list" =>
    sh # None /\ Listed(a.text, a.request.line, sh, a.result.info, a.result.items)

(* A completion request keeps the goal its text and line give it, and only *)
(* completion asks for the scope.                                          *)
Completes(t, l, goal, sh) ==
  sh # None /\ t \in AllTexts /\ Completable(t, l) /\ goal = CompletionGoal(t, l, sh)
GoodCall(c, sh) ==
  c # None => /\ c.request.op = "completion" => Completes(c.text, c.request.line, c.goal, sh)
              /\ c.goal.step = "scope" => c.request.op = "completion"
SameRequest(c, a, p) ==
  p # None => /\ a # None => p.request = a.request
              /\ c # None => p.request = c.request
ListInv ==
  /\ GoodList(answer, shared) /\ GoodList(previous, shared)
  /\ GoodCall(call, shared) /\ SameRequest(call, answer, previous)

(* The workspace's imports are collected once. *)
Collected == shared # None => shared' = shared

LEMMA ListBegun ==
  ASSUME ListInv, NEW request, NEW t, NEW goal, Begins(request, t, goal), Collected,
         request.op = "completion" => Completes(t, request.line, goal, shared'),
         goal.step = "scope" => request.op = "completion"
  PROVE  ListInv'
<1>1. /\ call' = [request |-> request, text |-> t, goal |-> goal, path |-> None] /\ answer' = None
      /\ previous' = IF answer # None /\ answer.request = request /\ answer.result.kind = "list" THEN answer ELSE None
  BY Zenon DEF Begins
<1>2. call'.request = request /\ call'.text = t /\ call'.goal = goal
  BY <1>1
<1>3. GoodList(answer', shared')
  BY <1>1, Zenon DEF GoodList
<1>4. GoodList(previous', shared')
  <2>1. CASE previous' = None
    BY <2>1, Zenon DEF GoodList
  <2>2. CASE previous' # None
    <3>1. previous' = answer /\ answer # None /\ answer.result.kind = "list"
      BY <1>1, <2>2, Zenon
    <3>2. GoodList(answer, shared)
      BY DEF ListInv
    <3>3. shared # None
      BY <3>1, <3>2, Zenon DEF GoodList
    <3>4. shared' = shared
      BY <3>3 DEF Collected
    <3>5. QED BY <3>1, <3>2, <3>4, Zenon
  <2>3. QED BY <2>1, <2>2
<1>5. GoodCall(call', shared')
  BY <1>2, Zenon DEF GoodCall
<1>6. SameRequest(call', answer', previous')
  BY <1>1, <1>2, Zenon DEF SameRequest
<1>7. QED BY <1>3, <1>4, <1>5, <1>6 DEF ListInv

LEMMA ListReplied ==
  ASSUME ListInv, call # None, NEW result, Replies(result), UNCHANGED <<shared, previous>>,
         result.kind = "list" =>
           shared # None /\ Listed(call.text, call.request.line, shared, result.info, result.items)
  PROVE  ListInv'
<1>1. /\ call' = None
      /\ answer' = [request |-> call.request, goal |-> call.goal, text |-> call.text, result |-> result]
  BY DEF Replies
<1>2. answer'.request = call.request /\ answer'.text = call.text /\ answer'.result = result
  BY <1>1
<1>3. GoodList(answer', shared')
  BY <1>2, Zenon DEF GoodList
<1>4. GoodList(previous', shared')
  BY Zenon DEF ListInv
<1>5. GoodCall(call', shared')
  BY <1>1, Zenon DEF GoodCall
<1>6. SameRequest(call', answer', previous')
  <2>1. previous # None => previous.request = call.request
    BY Zenon DEF ListInv, SameRequest
  <2>2. QED BY <1>1, <1>2, <2>1, Zenon DEF SameRequest
<1>7. QED BY <1>3, <1>4, <1>5, <1>6 DEF ListInv

LEMMA ListProceeded ==
  ASSUME IInv, ListInv, call # None, NEW goal, Proceeds(goal), UNCHANGED <<shared, previous>>,
         call.request.op # "completion", goal.step # "scope"
  PROVE  ListInv'
<1>1. call' = [call EXCEPT !.goal = goal, !.path = None] /\ answer' = answer
  BY DEF Proceeds
<1>2. call = [request |-> call.request, text |-> call.text, goal |-> call.goal, path |-> call.path]
  BY DEF IInv, CallTyped
<1>3. call' = [request |-> call.request, text |-> call.text, goal |-> goal, path |-> None]
  BY <1>1, <1>2
<1>4. call'.request = call.request /\ call'.goal = goal
  BY <1>3
<1>5. answer' = None
  BY <1>1 DEF IInv, TypeOK
<1>6. GoodList(answer', shared') /\ GoodList(previous', shared')
  BY <1>5, Zenon DEF ListInv, GoodList
<1>7. GoodCall(call', shared')
  BY <1>4, Zenon DEF GoodCall
<1>8. SameRequest(call', answer', previous')
  <2>1. previous # None => previous.request = call.request
    BY Zenon DEF ListInv, SameRequest
  <2>2. QED BY <1>4, <1>5, <2>1, Zenon DEF SameRequest
<1>9. QED BY <1>6, <1>7, <1>8 DEF ListInv

LEMMA ListKept ==
  ASSUME ListInv, call' = call, shared' = shared,
         UNCHANGED <<answer, previous>> \/ (previous' = None /\ (answer' = None \/ answer'.result.kind # "list"))
  PROVE  ListInv'
<1>1. CASE UNCHANGED <<answer, previous>>
  BY <1>1, Zenon DEF ListInv
<1>2. CASE previous' = None /\ (answer' = None \/ answer'.result.kind # "list")
  <2>1. GoodList(answer', shared') /\ GoodList(previous', shared')
    BY <1>2, Zenon DEF GoodList
  <2>2. SameRequest(call', answer', previous')
    BY <1>2, Zenon DEF SameRequest
  <2>3. QED BY <2>1, <2>2, Zenon DEF ListInv
<1>3. QED BY <1>1, <1>2

(* No other request asks for the scope. *)
LEMMA ReceiverSteps == \A t, receiver, step, member : ReceiverGoal(t, receiver, step, member).step \in {"error", step}
<1> SUFFICES ASSUME NEW t, NEW receiver, NEW step, NEW member
             PROVE  ReceiverGoal(t, receiver, step, member).step \in {"error", step}
  OBVIOUS
<1>1. PICK class, named, chosen :
        /\ class = ResolveReceiverType(t, receiver)
        /\ named = (IF class \in {NoName, Logger} THEN NoName ELSE Fields(t)[receiver].written)
        /\ chosen = IF class = NoName THEN "error" ELSE step
  OBVIOUS
<1>2. ReceiverGoal(t, receiver, step, member) = Goal(chosen, class, member, named, t)
  BY <1>1, Zenon DEF ReceiverGoal
<1>3. ReceiverGoal(t, receiver, step, member).step = chosen
  BY <1>2 DEF Goal
<1>4. QED BY <1>1, <1>3

LEMMA DefinitionSteps == \A t, line, focus : DefinitionGoal(t, line, focus).step # "scope"
<1> SUFFICES ASSUME NEW t, NEW line, NEW focus
             PROVE  DefinitionGoal(t, line, focus).step # "scope"
  OBVIOUS
<1>1. PICK g : g = DefinitionGoal(t, line, focus)
  OBVIOUS
<1>2. \/ g = ReceiverGoal(t, line.receiver, "declaration", NoMember)
      \/ g = ReceiverGoal(t, line.receiver, "member", line.member)
      \/ g = Goal("mappers", DeclaredClass(t), line.name, NoName, t)
      \/ g = Goal("declaration", ResolveTypeName(t, WordOn(line)), NoMember, WordOn(line), t)
  BY <1>1, Zenon DEF DefinitionGoal
<1>3. g.step \in {"error", "declaration", "member", "mappers"}
  <2>1. CASE g = ReceiverGoal(t, line.receiver, "declaration", NoMember)
    <3>1. g.step \in {"error", "declaration"}
      BY <2>1, ReceiverSteps, Zenon
    <3>2. QED BY <3>1
  <2>2. CASE g = ReceiverGoal(t, line.receiver, "member", line.member)
    <3>1. g.step \in {"error", "member"}
      BY <2>2, ReceiverSteps, Zenon
    <3>2. QED BY <3>1
  <2>3. CASE g = Goal("mappers", DeclaredClass(t), line.name, NoName, t)
    <3>1. g.step = "mappers"
      BY <2>3 DEF Goal
    <3>2. QED BY <3>1
  <2>4. CASE g = Goal("declaration", ResolveTypeName(t, WordOn(line)), NoMember, WordOn(line), t)
    <3>1. g.step = "declaration"
      BY <2>4 DEF Goal
    <3>2. QED BY <3>1
  <2>5. QED BY <1>2, <2>1, <2>2, <2>3, <2>4
<1>4. QED BY <1>1, <1>3

LEMMA DeclarationSteps == \A t, line, focus : DeclarationGoal(t, line, focus).step # "scope"
<1> SUFFICES ASSUME NEW t, NEW line, NEW focus
             PROVE  DeclarationGoal(t, line, focus).step # "scope"
  OBVIOUS
<1>1. PICK g : g = DeclarationGoal(t, line, focus)
  OBVIOUS
<1>2. \/ g = Goal("supers", DeclaredClass(t), line.name, NoName, t)
      \/ g = DefinitionGoal(t, line, focus)
  BY <1>1, Zenon DEF DeclarationGoal
<1>3. CASE g = Goal("supers", DeclaredClass(t), line.name, NoName, t)
  <2>1. g.step = "supers"
    BY <1>3 DEF Goal
  <2>2. QED BY <1>1, <2>1
<1>4. CASE g = DefinitionGoal(t, line, focus)
  BY <1>1, <1>4, DefinitionSteps, Zenon
<1>5. QED BY <1>2, <1>3, <1>4

LEMMA ImplementationSteps == \A t, line, focus : ImplementationGoal(t, line, focus).step # "scope"
<1> SUFFICES ASSUME NEW t, NEW line, NEW focus
             PROVE  ImplementationGoal(t, line, focus).step # "scope"
  OBVIOUS
<1>1. PICK g, s : g = ImplementationGoal(t, line, focus) /\ s = IF t.interface THEN "implementations" ELSE "member"
  OBVIOUS
<1>2. \/ g = Goal(s, DeclaredClass(t), line.name, NoName, t)
      \/ g = ReceiverGoal(t, line.receiver, "implementations", line.member)
      \/ g = Goal("error", NoName, NoMember, NoName, t)
  BY <1>1, Zenon DEF ImplementationGoal
<1>3. g.step = s \/ g.step \in {"error", "implementations"} \/ g.step = "error"
  BY <1>2, ReceiverSteps DEF Goal
<1>4. QED BY <1>1, <1>3

LEMMA WordSteps == \A op, t, l, sh : WordGoal(op, t, l, sh).step # "scope"
<1> SUFFICES ASSUME NEW op, NEW t, NEW l, NEW sh
             PROVE  WordGoal(op, t, l, sh).step # "scope"
  OBVIOUS
<1>1. PICK g, n, v, s, s2 :
        /\ g = WordGoal(op, t, l, sh) /\ n = WordOn(t.lines[l]) /\ v = ValueType(t, l, n.name)
        /\ s = (IF op = "hover" THEN "type" ELSE "declaration")
        /\ s2 = IF op = "hover" THEN "value" ELSE s
  OBVIOUS
<1>2. \/ g = Goal(s2, ResolveTypeNameWithWorkspace(t, sh, v), NoMember, v, t)
      \/ g = Goal(s, ResolveTypeNameWithWorkspace(t, sh, n), NoMember, n, t)
  BY <1>1, Zenon DEF WordGoal
<1>3. g.step = s2 \/ g.step = s
  BY <1>2 DEF Goal
<1>4. QED BY <1>1, <1>3

LEMMA DescriptionSteps == \A op, t, l, focus, sh : DescriptionGoal(op, t, l, focus, sh).step # "scope"
<1> SUFFICES ASSUME NEW op, NEW t, NEW l, NEW focus, NEW sh
             PROVE  DescriptionGoal(op, t, l, focus, sh).step # "scope"
  OBVIOUS
<1>1. PICK g, line, r, named, s :
        /\ g = DescriptionGoal(op, t, l, focus, sh) /\ line = t.lines[l]
        /\ r = ResolveReceiverTypeWithWorkspace(t, l, sh, line.receiver)
        /\ named = (CASE r.kind = "type" -> Word(line.receiver)
                      [] r.kind = "value" /\ IsValue(t, l, line.receiver) -> ValueType(t, l, line.receiver)
                      [] OTHER -> NoName)
        /\ s = IF op = "hover" THEN "type" ELSE "declaration"
  OBVIOUS
<1>2. \/ g = Goal("error", NoName, NoMember, NoName, t)
      \/ g = Goal(s, r.class, NoMember, named, t)
      \/ g = Goal("type", r.class, line.member, named, t)
      \/ g = Goal("type", DeclaredClass(t), line.name, NoName, t)
      \/ g = WordGoal(op, t, l, sh)
  BY <1>1, Zenon DEF DescriptionGoal
<1>3. g.step = "error" \/ g.step = s \/ g.step = "type" \/ g.step # "scope"
  BY <1>2, WordSteps DEF Goal
<1>4. QED BY <1>1, <1>3

(* A completion request is for the members of a class, for the scope or for *)
(* nothing.                                                                 *)
LEMMA CompletionSteps ==
  ASSUME NEW t, NEW l, Completable(t, l), NEW sh, NEW g, g = CompletionGoal(t, l, sh)
  PROVE  /\ g.step \in {"empty", "type", "scope"}
         /\ g.step = "type" => t.lines[l].kind # "scope" /\ g.member = TypePrefix(t, l)
         /\ g.step = "scope" => t.lines[l].kind = "scope"
<1>1. PICK line, r, simple, imported :
        /\ line = t.lines[l] /\ r = ResolveReceiverTypeWithWorkspace(t, l, sh, CompletionReceiver(line))
        /\ simple = line.class.name /\ imported = (IF simple \in DOMAIN t.imports THEN t.imports ELSE sh)
  OBVIOUS
<1>2. CASE line.kind = "scope"
  <2>1. g = Goal("scope", NoName, NoMember, NoName, t)
    BY <1>1, <1>2 DEF CompletionGoal
  <2>2. g.step = "scope"
    BY <2>1 DEF Goal
  <2>3. QED BY <1>1, <1>2, <2>2
<1>3. CASE line.kind # "scope" /\ r.kind # "unresolved"
  <2>1. g = Goal("type", r.class, TypePrefix(t, l), NoName, t)
    BY <1>1, <1>3 DEF CompletionGoal
  <2>2. g.step = "type" /\ g.member = TypePrefix(t, l)
    BY <2>1 DEF Goal
  <2>3. QED BY <1>1, <1>3, <2>2
<1>4. CASE line.kind = "import" /\ r.kind = "unresolved" /\ simple \in DOMAIN imported
  <2>1. g = Goal("type", imported[simple], NoMember, Word(simple), t)
    BY <1>1, <1>4 DEF CompletionGoal
  <2>2. g.step = "type" /\ g.member = NoMember
    BY <2>1 DEF Goal
  <2>3. QED BY <1>1, <1>4, <2>2 DEF TypePrefix
<1>5. CASE /\ line.kind # "scope" /\ r.kind = "unresolved"
           /\ ~(line.kind = "import" /\ simple \in DOMAIN imported)
  <2>1. g = Goal("empty", NoName, NoMember, NoName, t)
    BY <1>1, <1>5 DEF CompletionGoal
  <2>2. g.step = "empty"
    BY <2>1 DEF Goal
  <2>3. QED BY <2>2
<1>6. QED BY <1>2, <1>3, <1>4, <1>5

------------------------------------------------------------------------------
(* The requests. *)
LEMMA ListBegunElsewhere ==
  ASSUME ListInv, NEW op, NEW f, NEW l, NEW focus, NEW t, NEW goal,
         Begins(Asked(op, f, l, focus), t, goal), Collected, op # "completion", goal.step # "scope"
  PROVE  ListInv'
<1>1. PICK request : request = Asked(op, f, l, focus)
  OBVIOUS
<1>2. request.op = op
  BY <1>1 DEF Asked
<1>3. QED BY <1>1, <1>2, ListBegun, Zenon

LEMMA ListAskPlace ==
  ASSUME ListInv, NEW f \in File, NEW l, AskPlace(f, l)
  PROVE  ListInv'
<1>1. Collected
  BY DEF AskPlace, Collected
<1>2. PICK t, focus :
        \/ Begins(Asked("definition", f, l, focus), t, DefinitionGoal(t, t.lines[l], focus))
        \/ Begins(Asked("declaration", f, l, focus), t, DeclarationGoal(t, t.lines[l], focus))
        \/ Begins(Asked("implementation", f, l, focus), t, ImplementationGoal(t, t.lines[l], focus))
  BY Zenon DEF AskPlace
<1>3. "definition" # "completion" /\ "declaration" # "completion" /\ "implementation" # "completion"
  OBVIOUS
<1>4. CASE Begins(Asked("definition", f, l, focus), t, DefinitionGoal(t, t.lines[l], focus))
  <2>1. DefinitionGoal(t, t.lines[l], focus).step # "scope"
    BY DefinitionSteps
  <2>2. QED BY <1>1, <1>3, <1>4, <2>1, ListBegunElsewhere, Zenon
<1>5. CASE Begins(Asked("declaration", f, l, focus), t, DeclarationGoal(t, t.lines[l], focus))
  <2>1. DeclarationGoal(t, t.lines[l], focus).step # "scope"
    BY DeclarationSteps
  <2>2. QED BY <1>1, <1>3, <1>5, <2>1, ListBegunElsewhere, Zenon
<1>6. CASE Begins(Asked("implementation", f, l, focus), t, ImplementationGoal(t, t.lines[l], focus))
  <2>1. ImplementationGoal(t, t.lines[l], focus).step # "scope"
    BY ImplementationSteps
  <2>2. QED BY <1>1, <1>3, <1>6, <2>1, ListBegunElsewhere, Zenon
<1>7. QED BY <1>2, <1>4, <1>5, <1>6, Zenon

LEMMA ListAskMeaning ==
  ASSUME ListInv, NEW f \in File, NEW l, AskMeaning(f, l)
  PROVE  ListInv'
<1>1. Collected
  BY DEF AskMeaning, Collected, SharedImports
<1>2. PICK t, sh : t = DocumentText(f) /\ sh = SharedImports
  OBVIOUS
<1>a. PICK focus, op : op # "completion" /\ Begins(Asked(op, f, l, focus), t, DescriptionGoal(op, t, l, focus, sh))
  <2>1. PICK focus : \E op \in {"hover", "typeDefinition"} :
                       Begins(Asked(op, f, l, focus), t, DescriptionGoal(op, t, l, focus, sh))
    BY <1>2 DEF AskMeaning
  <2>2. PICK op \in {"hover", "typeDefinition"} :
               Begins(Asked(op, f, l, focus), t, DescriptionGoal(op, t, l, focus, sh))
    BY <2>1
  <2>3. op # "completion"
    OBVIOUS
  <2>4. QED BY <2>2, <2>3
<1>3. op # "completion"
  BY <1>a
<1>4. DescriptionGoal(op, t, l, focus, sh).step # "scope"
  BY DescriptionSteps
<1>5. QED BY <1>1, <1>a, <1>3, <1>4, ListBegunElsewhere, Zenon

LEMMA ListAskCompletion ==
  ASSUME IInv, ListInv, NEW f \in File, NEW l, AskCompletion(f, l)
  PROVE  ListInv'
<1>1. PICK t, sh, goal, request :
        /\ t = DocumentText(f) /\ sh = SharedImports /\ goal = CompletionGoal(t, l, sh)
        /\ request = Asked("completion", f, l, "word")
  OBVIOUS
<1>2. Begins(request, t, goal) /\ shared' = sh /\ t # None
  BY <1>1, Zenon DEF AskCompletion, At
<1>3. l \in DOMAIN t.lines /\ t.lines[l].kind \in {"access", "import", "scope"}
  BY <1>1, Zenon DEF AskCompletion, At
<1>4. Collected
  BY <1>1, <1>2 DEF Collected, SharedImports
<1>5. sh # None
  <2>1. disk \in [File -> Texts \union {None}]
    BY DEF IInv, FilesTyped
  <2>2. QED BY <1>1, <2>1, ImportsAssumption DEF SharedImports
<1>6. t \in AllTexts
  <2>1. t \in TextsOf(f)
    BY <1>1, <1>2, DocumentTexts DEF IInv
  <2>2. QED BY <2>1, TextsOfFiles DEF AllTexts
<1>7. request.op = "completion" /\ request.line = l
  BY <1>1 DEF Asked
<1>8. Completable(t, l)
  BY <1>3, Zenon DEF Completable
<1>9. Completes(t, request.line, goal, shared')
  BY <1>1, <1>2, <1>5, <1>6, <1>7, <1>8, Zenon DEF Completes
<1>10. QED BY <1>2, <1>4, <1>7, <1>9, ListBegun, Zenon

LEMMA ListAskReferences ==
  ASSUME ListInv, NEW f, NEW l, AskReferences(f, l)
  PROVE  ListInv'
<1>1. call' = call /\ shared' = shared /\ previous' = None
  BY Zenon DEF AskReferences, caches
<1>2. PICK request, text, goal, places :
        answer' = [request |-> request, text |-> text, goal |-> goal, result |-> Locations(places)]
  BY Zenon DEF AskReferences
<1>3. answer'.result.kind = "locations"
  BY <1>2 DEF Locations
<1>4. answer'.result.kind # "list"
  BY <1>3
<1>5. QED BY <1>1, <1>4, ListKept, Zenon

(* The editor, the disk and the prewarm goroutine. *)
LEMMA ListElsewhere ==
  ASSUME ListInv,
         \/ TakeAnswer \/ \E f \in File : EditDocument(f) \/ CloseDocument(f) \/ ChangeFile(f)
         \/ UNCHANGED vars
  PROVE  ListInv'
<1>1. CASE TakeAnswer
  BY <1>1, ListKept, Zenon DEF TakeAnswer, Forgets, caches
<1>2. CASE \E f \in File : EditDocument(f)
  BY <1>2, ListKept, Zenon DEF EditDocument, Forgets, caches
<1>3. CASE \E f \in File : CloseDocument(f)
  BY <1>3, ListKept, Zenon DEF CloseDocument, Forgets, caches
<1>4. CASE \E f \in File : ChangeFile(f)
  BY <1>4, ListKept, Zenon DEF ChangeFile, Forgets, caches
<1>5. CASE UNCHANGED vars
  BY <1>5, ListKept, Zenon DEF vars
<1>6. QED BY <1>1, <1>2, <1>3, <1>4, <1>5

LEMMA ListPrewarm ==
  ASSUME ListInv, Prewarm
  PROVE  ListInv'
<1>1. shared = None /\ call' = call /\ answer' = answer /\ previous' = previous
  BY Zenon DEF Prewarm
<1>2. GoodList(answer', shared') /\ GoodList(previous', shared')
  BY <1>1, Zenon DEF ListInv, GoodList
<1>3. GoodCall(call', shared')
  BY <1>1, Zenon DEF ListInv, GoodCall, Completes
<1>4. SameRequest(call', answer', previous')
  BY <1>1, Zenon DEF ListInv
<1>5. QED BY <1>2, <1>3, <1>4 DEF ListInv

(* The steps of a request. *)
LEMMA NoCompletion ==
  ASSUME ListInv, call # None, call.goal.step \notin {"empty", "type", "scope"}
  PROVE  call.request.op # "completion"
<1>1. GoodCall(call, shared)
  BY DEF ListInv
<1>2. call.request.op = "completion" =>
        /\ Completable(call.text, call.request.line)
        /\ call.goal = CompletionGoal(call.text, call.request.line, shared)
  BY <1>1, Zenon DEF GoodCall, Completes
<1>3. call.request.op = "completion" => call.goal.step \in {"empty", "type", "scope"}
  BY <1>2, CompletionSteps
<1>4. QED BY <1>3

LEMMA ListNone ==
  ASSUME ListInv, call # None, NEW result, result.kind # "list", Replies(result), UNCHANGED <<shared, previous>>
  PROVE  ListInv'
BY ListReplied, Zenon

LEMMA NoLists ==
  /\ \A places : Locations(places).kind # "list"
  /\ \A kind : Nothing(kind).kind = kind
<1>1. \A places : Locations(places).kind # "list"
  BY DEF Locations
<1>2. \A kind : Nothing(kind).kind = kind
  BY DEF Nothing
<1>3. QED BY <1>1, <1>2

LEMMA ListReply ==
  ASSUME ListInv, Reply
  PROVE  ListInv'
<1>1. call # None /\ call.goal.step \in {"error", "empty", "value"} /\ Replies(Nothing(call.goal.step))
  BY Zenon DEF Reply, AtStep
<1>2. UNCHANGED <<shared, previous>>
  BY Zenon DEF Reply, Stays
<1>3. Nothing(call.goal.step).kind # "list"
  BY <1>1, NoLists
<1>4. QED BY <1>1, <1>2, <1>3, ListNone, Zenon

(* A goal with another step, which is not that of the scope. *)
LEMMA StepOfNext ==
  ASSUME IInv, call # None, NEW step
  PROVE  [call.goal EXCEPT !.step = step].step = step
<1>1. PICK g : g = call.goal
  OBVIOUS
<1>2. g = [step |-> g.step, class |-> g.class, member |-> g.member, named |-> g.named, from |-> g.from]
  BY <1>1 DEF IInv, CallTyped, IsGoal
<1>3. [g EXCEPT !.step = step].step = step
  BY <1>2
<1>4. QED BY <1>1, <1>3

LEMMA ListNext ==
  ASSUME IInv, ListInv, call # None, NEW step, step # "scope", Proceeds([call.goal EXCEPT !.step = step]),
         UNCHANGED <<shared, previous>>, call.request.op # "completion"
  PROVE  ListInv'
<1>1. PICK goal : goal = [call.goal EXCEPT !.step = step]
  OBVIOUS
<1>2. goal.step = step
  BY <1>1, StepOfNext
<1>3. goal.step # "scope"
  BY <1>2
<1>4. QED BY <1>1, <1>3, ListProceeded

LEMMA ListSeekMappers ==
  ASSUME IInv, ListInv, SeekMappers
  PROVE  ListInv'
<1>1. call # None /\ call.goal.step \in {"mappers"}
  BY Zenon DEF SeekMappers, AtStep
<1>2. UNCHANGED <<shared, previous>>
  BY Zenon DEF SeekMappers, Stays
<1>3. Replies(Nothing("mappers")) \/ Proceeds([call.goal EXCEPT !.step = "member"])
  BY Zenon DEF SeekMappers
<1>4. CASE Replies(Nothing("mappers"))
  <2>1. Nothing("mappers").kind # "list"
    BY NoLists
  <2>2. QED BY <1>1, <1>2, <1>4, <2>1, ListNone, Zenon
<1>5. CASE Proceeds([call.goal EXCEPT !.step = "member"])
  <2>1. "member" # "scope" /\ call.goal.step \notin {"empty", "type", "scope"}
    BY <1>1
  <2>2. QED BY <1>1, <1>2, <1>5, <2>1, NoCompletion, ListNext, Zenon
<1>6. QED BY <1>3, <1>4, <1>5

LEMMA ListSeekSupers ==
  ASSUME IInv, ListInv, SeekSupers
  PROVE  ListInv'
<1>1. call # None /\ call.goal.step \in {"supers"}
  BY Zenon DEF SeekSupers, AtStep
<1>2. UNCHANGED <<shared, previous>>
  BY Zenon DEF SeekSupers, Stays
<1>3. (\E places : Replies(Locations(places))) \/ Proceeds([call.goal EXCEPT !.step = "mappers"])
  BY Zenon DEF SeekSupers
<1>4. CASE \E places : Replies(Locations(places))
  BY <1>1, <1>2, <1>4, NoLists, ListNone, Zenon
<1>5. CASE Proceeds([call.goal EXCEPT !.step = "mappers"])
  <2>1. "mappers" # "scope" /\ call.goal.step \notin {"empty", "type", "scope"}
    BY <1>1
  <2>2. QED BY <1>1, <1>2, <1>5, <2>1, NoCompletion, ListNext, Zenon
<1>6. QED BY <1>3, <1>4, <1>5

LEMMA ListSeekImplementations ==
  ASSUME IInv, ListInv, SeekImplementations
  PROVE  ListInv'
<1>1. call # None /\ call.goal.step \in {"implementations"}
  BY Zenon DEF SeekImplementations, AtStep
<1>2. UNCHANGED <<shared, previous>>
  BY Zenon DEF SeekImplementations, Stays
<1>3. (\E places : Replies(Locations(places))) \/ Proceeds([call.goal EXCEPT !.step = "member"])
  BY Zenon DEF SeekImplementations
<1>4. CASE \E places : Replies(Locations(places))
  BY <1>1, <1>2, <1>4, NoLists, ListNone, Zenon
<1>5. CASE Proceeds([call.goal EXCEPT !.step = "member"])
  <2>1. "member" # "scope" /\ call.goal.step \notin {"empty", "type", "scope"}
    BY <1>1
  <2>2. QED BY <1>1, <1>2, <1>5, <2>1, NoCompletion, ListNext, Zenon
<1>6. QED BY <1>3, <1>4, <1>5

LEMMA ListLocate ==
  ASSUME ListInv, Locate
  PROVE  ListInv'
<1>1. call # None
  BY Zenon DEF Locate, AtStep
<1>2. UNCHANGED <<shared, previous>>
  BY Zenon DEF Locate, Stays
<1>3. (\E places : Replies(Locations(places))) \/ Replies(Nothing("error"))
  BY Zenon DEF Locate
<1>4. Nothing("error").kind # "list"
  BY NoLists
<1>5. QED BY <1>1, <1>2, <1>3, <1>4, NoLists, ListNone, Zenon

LEMMA ListFindSource ==
  ASSUME IInv, ListInv, FindSource
  PROVE  ListInv'
<1>1. call # None
  BY Zenon DEF FindSource, AtStep
<1>2. UNCHANGED <<shared, previous>>
  BY Zenon DEF FindSource, Stays
<1>3. \/ Replies(Nothing("error"))
      \/ (\E p : call' = [call EXCEPT !.path = p]) /\ UNCHANGED answer
  BY Zenon DEF FindSource
<1>4. CASE Replies(Nothing("error"))
  <2>1. Nothing("error").kind # "list"
    BY NoLists
  <2>2. QED BY <1>1, <1>2, <1>4, <2>1, ListNone, Zenon
<1>5. CASE (\E p : call' = [call EXCEPT !.path = p]) /\ UNCHANGED answer
  <2>1. PICK p : call' = [call EXCEPT !.path = p]
    BY <1>5
  <2>2. call = [request |-> call.request, text |-> call.text, goal |-> call.goal, path |-> call.path]
    BY <1>1 DEF IInv, CallTyped
  <2>3. call'.request = call.request /\ call'.text = call.text /\ call'.goal = call.goal
    BY <2>1, <2>2
  <2>4. GoodCall(call', shared')
    BY <1>1, <1>2, <2>3, Zenon DEF ListInv, GoodCall
  <2>5. GoodList(answer', shared') /\ GoodList(previous', shared')
    BY <1>2, <1>5, Zenon DEF ListInv
  <2>6. SameRequest(call', answer', previous')
    BY <1>1, <1>2, <1>5, <2>3, Zenon DEF ListInv, SameRequest
  <2>7. QED BY <2>4, <2>5, <2>6 DEF ListInv
<1>6. QED BY <1>3, <1>4, <1>5

(* The requests that end with a list. *)
LEMMA CallCompletes ==
  ASSUME ListInv, call # None, call.request.op = "completion"
  PROVE  Completes(call.text, call.request.line, call.goal, shared)
BY Zenon DEF ListInv, GoodCall

LEMMA ListsShown ==
  /\ \A info, items : List(info, items).info = info /\ List(info, items).items = CompletionList(items)
  /\ Context = ContextOf(call.text, call.request.line)
<1>1. \A info, items : List(info, items).info = info /\ List(info, items).items = CompletionList(items)
  BY DEF List
<1>2. Context = ContextOf(call.text, call.request.line)
  BY Zenon DEF Context, ContextOf
<1>3. QED BY <1>1, <1>2

LEMMA ListListScope ==
  ASSUME ListInv, ListScope
  PROVE  ListInv'
<1>1. call # None /\ call.goal.step \in {"scope"}
  BY Zenon DEF ListScope, AtStep
<1>2. UNCHANGED <<shared, previous>>
  BY Zenon DEF ListScope, Stays
<1>3. PICK t, l : t = call.text /\ l = call.request.line
  OBVIOUS
<1>4. call.request.op = "completion"
  BY <1>1 DEF ListInv, GoodCall
<1>5. Completes(t, l, call.goal, shared)
  BY <1>1, <1>3, <1>4, CallCompletes
<1>6. shared # None /\ t \in AllTexts /\ Completable(t, l) /\ call.goal = CompletionGoal(t, l, shared)
  BY <1>5 DEF Completes
<1>7. t.lines[l].kind = "scope"
  BY <1>1, <1>6, CompletionSteps
<1>8. PICK fields \in SetToSeqs(DOMAIN Fields(t)), locals \in SetToSeqs(DOMAIN Locals(t, l)) :
        Replies(List(t, ItemsForCurrentScope(Context, t.lines[l].prefix, fields, locals)))
  BY <1>3 DEF ListScope, LocalNames
<1>9. PICK result, items :
        /\ items = ItemsForCurrentScope(Context, t.lines[l].prefix, fields, locals)
        /\ result = List(t, items)
  OBVIOUS
<1>10. result.info = t /\ result.items = CompletionList(items)
  BY <1>9, ListsShown, Zenon
<1>11. items = ItemsForCurrentScope(ContextOf(t, l), t.lines[l].prefix, fields, locals)
  BY <1>3, <1>9, ListsShown, Zenon
<1>12. IsScopeList(t, l, result.items)
  BY <1>10, <1>11, Zenon DEF IsScopeList
<1>13. Listed(t, l, shared, result.info, result.items)
  BY <1>6, <1>7, <1>10, <1>12, Zenon DEF Listed, Infos
<1>14. Replies(result)
  BY <1>8, <1>9
<1>15. QED BY <1>1, <1>2, <1>3, <1>6, <1>13, <1>14, ListReplied, Zenon

LEMMA ListListMembers ==
  ASSUME ListInv, call # None, call.request.op = "completion", call.goal.step = "type",
         NEW info \in Infos, ListMembers(info), UNCHANGED <<shared, previous>>
  PROVE  ListInv'
<1>1. PICK t, l : t = call.text /\ l = call.request.line
  OBVIOUS
<1>2. Completes(t, l, call.goal, shared)
  BY <1>1, CallCompletes
<1>3. shared # None /\ t \in AllTexts /\ Completable(t, l) /\ call.goal = CompletionGoal(t, l, shared)
  BY <1>2 DEF Completes
<1>4. t.lines[l].kind # "scope" /\ call.goal.member = TypePrefix(t, l)
  BY <1>3, CompletionSteps
<1>5. PICK kind : kind = ReceiverKind(t, l, shared)
  OBVIOUS
<1>7. PICK fields \in SetToSeqs(DOMAIN Fields(info)), locals \in SetToSeqs(DOMAIN Locals(t, l)) :
        Replies(List(info, ItemsForType(Context, info, kind, call.goal.member, fields, locals)))
  BY <1>1, <1>5 DEF ListMembers, LocalNames
<1>8. PICK result, items :
        /\ items = ItemsForType(Context, info, kind, call.goal.member, fields, locals)
        /\ result = List(info, items)
  OBVIOUS
<1>9. result.info = info /\ result.items = CompletionList(items)
  BY <1>8, ListsShown, Zenon
<1>10. items = ItemsForType(ContextOf(t, l), info, ReceiverKind(t, l, shared), TypePrefix(t, l), fields, locals)
  BY <1>1, <1>4, <1>5, <1>8, ListsShown, Zenon
<1>11. IsTypeList(t, l, shared, info, result.items)
  BY <1>9, <1>10, Zenon DEF IsTypeList
<1>12. Listed(t, l, shared, result.info, result.items)
  BY <1>3, <1>4, <1>9, <1>11, Zenon DEF Listed
<1>13. Replies(result)
  BY <1>7, <1>8
<1>14. QED BY <1>1, <1>3, <1>12, <1>13, ListReplied, Zenon

LEMMA ListReadSource ==
  ASSUME IInv, ListInv, ReadSource
  PROVE  ListInv'
<1>1. call # None /\ call.goal.step \in {"type"} /\ call.path # None
  BY Zenon DEF ReadSource, AtStep
<1>2. UNCHANGED <<shared, previous>>
  BY Zenon DEF ReadSource, Stays
<1>3. PICK info : info = InfoOf(call.path)
  OBVIOUS
<1>4. info \in Infos
  <2>1. call.path \in File \union DOMAIN Library
    BY <1>1 DEF IInv, CallTyped
  <2>2. QED BY <1>3, <2>1, InfoRead
<1>5. \/ call.request.op = "hover" /\ Describe(info)
      \/ call.request.op = "typeDefinition" /\ DescribeReturnType(info)
      \/ call.request.op = "completion" /\ ListMembers(info)
  BY <1>3, Zenon DEF ReadSource
<1>6. CASE call.request.op = "hover" /\ Describe(info)
  <2>1. PICK type, method, g, goal :
          /\ type = [kind |-> "type", class |-> ParsedClass(info)]
          /\ g = call.goal
          /\ method = [kind |-> "method",
                      method |-> Head(MethodsNamed(Methods(info, SetToSeq(DOMAIN Fields(info))), g.member))]
          /\ goal = [g EXCEPT !.member = NoMember]
    OBVIOUS
  <2>2. \/ Replies(type) \/ Replies(method) \/ Proceeds(goal)
        \/ Proceeds(WordGoal("hover", call.text, call.request.line, shared))
    BY <1>6, <2>1, Zenon DEF Describe
  <2>3. type.kind # "list" /\ method.kind # "list"
    BY <2>1
  <2>4. goal.step # "scope"
    <3>1. g = [step |-> g.step, class |-> g.class, member |-> g.member, named |-> g.named, from |-> g.from]
      BY <1>1, <2>1 DEF IInv, CallTyped, IsGoal
    <3>2. goal.step = g.step
      BY <2>1, <3>1
    <3>3. QED BY <1>1, <2>1, <3>2
  <2>5. WordGoal("hover", call.text, call.request.line, shared).step # "scope"
    BY WordSteps
  <2>6. call.request.op # "completion"
    BY <1>6
  <2>7. CASE Replies(type) \/ Replies(method)
    BY <1>1, <1>2, <2>3, <2>7, ListNone, Zenon
  <2>8. CASE Proceeds(goal) \/ Proceeds(WordGoal("hover", call.text, call.request.line, shared))
    BY <1>1, <1>2, <2>4, <2>5, <2>6, <2>8, ListProceeded, Zenon
  <2>9. QED BY <2>2, <2>7, <2>8
<1>7. CASE call.request.op = "typeDefinition" /\ DescribeReturnType(info)
  <2>1. PICK n, class :
          /\ n = Head(Head(MethodsNamed(Methods(info, SetToSeq(DOMAIN Fields(info))), call.goal.member)).returns.names)
          /\ class = ResolveTypeNameWithWorkspace(info, shared, n)
    OBVIOUS
  <2>2. Replies(Nothing("empty")) \/ Proceeds(Goal("declaration", class, NoMember, n, info))
    BY <1>7, <2>1, Zenon DEF DescribeReturnType
  <2>3. Nothing("empty").kind # "list"
    BY NoLists
  <2>4. Goal("declaration", class, NoMember, n, info).step # "scope"
    BY DEF Goal
  <2>5. call.request.op # "completion"
    BY <1>7
  <2>6. CASE Replies(Nothing("empty"))
    BY <1>1, <1>2, <2>3, <2>6, ListNone, Zenon
  <2>7. CASE Proceeds(Goal("declaration", class, NoMember, n, info))
    BY <1>1, <1>2, <2>4, <2>5, <2>7, ListProceeded, Zenon
  <2>8. QED BY <2>2, <2>6, <2>7
<1>8. CASE call.request.op = "completion" /\ ListMembers(info)
  <2>1. call.goal.step = "type"
    BY <1>1
  <2>2. QED BY <1>1, <1>2, <1>4, <1>8, <2>1, ListListMembers, Zenon
<1>9. QED BY <1>5, <1>6, <1>7, <1>8
------------------------------------------------------------------------------
LEMMA ListInductive == IInv /\ ListInv /\ [Next]_vars => ListInv'
<1> SUFFICES ASSUME IInv, ListInv, [Next]_vars PROVE ListInv'
  OBVIOUS
<1>1. CASE \E f \in File : Ask(f)
  <2>1. PICK f, l : f \in File /\ (AskPlace(f, l) \/ AskMeaning(f, l) \/ AskCompletion(f, l) \/ AskReferences(f, l))
    BY <1>1 DEF Ask
  <2>2. CASE AskPlace(f, l)
    BY <2>1, <2>2, ListAskPlace
  <2>3. CASE AskMeaning(f, l)
    BY <2>1, <2>3, ListAskMeaning
  <2>4. CASE AskCompletion(f, l)
    BY <2>1, <2>4, ListAskCompletion
  <2>5. CASE AskReferences(f, l)
    BY <2>1, <2>5, ListAskReferences
  <2>6. QED BY <2>1, <2>2, <2>3, <2>4, <2>5
<1>2. CASE \/ TakeAnswer \/ \E f \in File : EditDocument(f) \/ CloseDocument(f) \/ ChangeFile(f)
           \/ UNCHANGED vars
  BY <1>2, ListElsewhere
<1>3. CASE Prewarm
  BY <1>3, ListPrewarm
<1>4. CASE Reply
  BY <1>4, ListReply
<1>5. CASE SeekMappers
  BY <1>5, ListSeekMappers
<1>6. CASE SeekSupers
  BY <1>6, ListSeekSupers
<1>7. CASE SeekImplementations
  BY <1>7, ListSeekImplementations
<1>8. CASE Locate
  BY <1>8, ListLocate
<1>9. CASE FindSource
  BY <1>9, ListFindSource
<1>10. CASE ReadSource
  BY <1>10, ListReadSource
<1>11. CASE ListScope
  BY <1>11, ListListScope
<1>12. QED
  BY <1>1, <1>2, <1>3, <1>4, <1>5, <1>6, <1>7, <1>8, <1>9, <1>10, <1>11, Zenon DEF Next

LEMMA Lists == Spec => []ListInv
<1>1. Init => ListInv
  BY Zenon DEF Init, ListInv, GoodList, GoodCall, SameRequest
<1>2. QED BY <1>1, ListInductive, Invariant, PTL DEF Spec

(* CompletionOrderStable: a completion list has the same items in the same *)
(* order each time it is asked for on the same text and class, however the *)
(* maps of fields and locals are iterated (completion.go, completionAtPosi- *)
(* tion, generatedSyntheticMethods).                                       *)
THEOREM CompletionStable == Spec => []CompletionOrderStable
<1>1. ListInv => CompletionOrderStable
  <2> SUFFICES ASSUME ListInv, Twice
               PROVE  ShownItems(answer.result.items) = ShownItems(previous.result.items)
    BY Zenon DEF CompletionOrderStable, ShownItems, ShownItem
  <2>1. /\ answer # None /\ previous # None
        /\ answer.result.kind = "list" /\ previous.result.kind = "list"
        /\ answer.text = previous.text /\ answer.result.info = previous.result.info
    BY DEF Twice
  <2>2. previous.request = answer.request
    BY <2>1, Zenon DEF ListInv, SameRequest
  <2>3. /\ Listed(answer.text, answer.request.line, shared, answer.result.info, answer.result.items)
        /\ Listed(previous.text, previous.request.line, shared, previous.result.info, previous.result.items)
    BY <2>1, Zenon DEF ListInv, GoodList
  <2>4. Listed(answer.text, answer.request.line, shared, answer.result.info, previous.result.items)
    BY <2>1, <2>2, <2>3
  <2>5. PICK t, l, info, items1, items2 :
          /\ t = answer.text /\ l = answer.request.line /\ info = answer.result.info
          /\ items1 = answer.result.items /\ items2 = previous.result.items
    OBVIOUS
  <2>6. Listed(t, l, shared, info, items1) /\ Listed(t, l, shared, info, items2)
    BY <2>3, <2>4, <2>5, Zenon
  <2>7. ShownItems(items1) = ShownItems(items2)
    BY <2>6, ListedAlike
  <2>8. QED BY <2>5, <2>7
<1>2. QED BY <1>1, Lists, PTL
=============================================================================
