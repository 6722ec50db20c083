------------------------------ MODULE TypeNames ------------------------------
(***************************************************************************)
(* What the names of a Java text mean to internal/lsp: the names of types, *)
(* receivers and variables, the class a text declares and the classes it   *)
(* implements.  The same name is resolved by two sets of functions, one    *)
(* for definition, declaration, implementation and diagnostics             *)
(* (navigation.go), one for hover, type definition and completion          *)
(* (hover_type.go), and a class is found by a search for the word "class"  *)
(* in one place and by the parser in another.                              *)
(*                                                                         *)
(* A class name is a record [package, name]; a name without a qualifier    *)
(* has package "".  The type of a variable is [written, names]: the class  *)
(* name as it is written, arguments included, and the names                *)
(* extractTypeNames takes it apart into.  A text is                        *)
(*   package, imports     imports is a function from simple names,         *)
(*   annotations          of its first type,                               *)
(*   name                 of its first type, for the parser,               *)
(*   heading              the word after "class ", "interface " or         *)
(*                        "record ", or "": Box<T> for a generic class and *)
(*                        "" for an enum,                                  *)
(*   interface            whether the heading is an interface's,           *)
(*   extends, implements  the names after these words,                     *)
(*   lines                of the first type: see Navigation.               *)
(***************************************************************************)
EXTENDS Naturals, Sequences, FiniteSets, TLC, FiniteSetsExt, SequencesExt

CONSTANTS
  JavaLang,          \* the simple names isJavaLangType lists
  Builtin,           \* the simple names isBuiltinJavaType lists
  AccessorName(_, _) \* the method name of a prefix (get, is, set) and a field

Empty == ""
Word(name) == [package |-> Empty, name |-> name]
NoName == Word(Empty)
JavaLangName(simple) == [package |-> "java.lang", name |-> simple]
Logger == [package |-> "org.slf4j", name |-> "Logger"]

(* resolveTypeName: imports, java.lang, the own package. *)
ResolveTypeName(t, n) ==
  IF n.package # Empty THEN n
  ELSE IF n.name \in DOMAIN t.imports THEN t.imports[n.name]
  ELSE IF n.name \in JavaLang THEN JavaLangName(n.name)
  ELSE [package |-> t.package, name |-> n.name]

(* Mutant of ResolveTypeNameWithWorkspace: the workspace comes first. *)
ResolveInWorkspaceFirst(t, shared, n) ==
  IF n.package # Empty THEN n
  ELSE IF n.name \in DOMAIN shared THEN shared[n.name]
  ELSE ResolveTypeName(t, n)

(* resolveTypeNameWithWorkspace: the imports of the whole workspace come   *)
(* after those of the text, and before java.lang and the own package.      *)
ResolveTypeNameWithWorkspace(t, shared, n) ==
  IF n.package # Empty THEN n
  ELSE IF n.name \in DOMAIN t.imports THEN t.imports[n.name]
  ELSE IF n.name \in DOMAIN shared THEN shared[n.name]
  ELSE IF n.name \in JavaLang THEN JavaLangName(n.name)
  ELSE [package |-> t.package, name |-> n.name]
------------------------------------------------------------------------------
(* Variables.  Of two declarations of a name the later one counts. *)
Declares(t, kinds, last) == {i \in 1..last : t.lines[i].kind \in kinds}
TypesAt(t, at) ==
  [n \in {t.lines[i].name : i \in at} |-> t.lines[Max({i \in at : t.lines[i].name = n})].type]

(* parseSourceContext: the fields of the first type. *)
Fields(t) == TypesAt(t, Declares(t, {"field"}, Len(t.lines)))

(* parseLocalVariables: every variable declared on a line up to that of    *)
(* the position, whatever method it is in, and over them the parameters of *)
(* the last method.                                                        *)
Locals(t, line) ==
  LET methods == Declares(t, {"method"}, line)
      params == IF methods = {} THEN <<>> ELSE t.lines[Max(methods)].params
      declared == TypesAt(t, Declares(t, {"field", "local"}, line))
      names == {params[i].name : i \in DOMAIN params}
  IN [n \in names \union DOMAIN declared |->
        IF n \in names THEN params[Max({i \in DOMAIN params : params[i].name = n})].type ELSE declared[n]]

HasLogger(t) == t.annotations \intersect {"Slf4j", "lombok.extern.slf4j.Slf4j"} # {}

(* resolveReceiverType: the logger, then fields, by their type as written; *)
(* NoName is the error.                                                    *)
ResolveReceiverType(t, receiver) ==
  IF receiver = "log" /\ HasLogger(t) THEN Logger
  ELSE IF receiver \in DOMAIN Fields(t) THEN ResolveTypeName(t, Fields(t)[receiver].written)
  ELSE NoName

(* resolveValueType: locals, then fields, by the first name of their type. *)
IsValue(t, line, word) == word \in DOMAIN Locals(t, line) \union DOMAIN Fields(t)
ValueType(t, line, word) ==
  IF word \in DOMAIN Locals(t, line) THEN Head(Locals(t, line)[word].names)
  ELSE Head(Fields(t)[word].names)

(* resolveReceiverTypeWithWorkspace: a variable, the logger, or a type the *)
(* text or the workspace imports or java.lang has; a type of the own       *)
(* package is not found.                                                   *)
ResolveReceiverTypeWithWorkspace(t, line, shared, receiver) ==
  IF IsValue(t, line, receiver)
  THEN [kind |-> "value", class |-> ResolveTypeNameWithWorkspace(t, shared, ValueType(t, line, receiver))]
  ELSE IF receiver = "log" /\ HasLogger(t) THEN [kind |-> "value", class |-> Logger]
  ELSE IF receiver \in DOMAIN t.imports THEN [kind |-> "type", class |-> t.imports[receiver]]
  ELSE IF receiver \in DOMAIN shared THEN [kind |-> "type", class |-> shared[receiver]]
  ELSE IF receiver \in JavaLang THEN [kind |-> "type", class |-> JavaLangName(receiver)]
  ELSE [kind |-> "unresolved", class |-> NoName]
------------------------------------------------------------------------------
(* The class a text declares, as parseDeclaredTypeName finds it and as the *)
(* parser does.                                                            *)
DeclaresNothing(t) == t.heading = Empty
DeclaredClass(t) == [package |-> t.package, name |-> t.heading]
ParsedClass(t) == [package |-> t.package, name |-> t.name]

(* splitTypeList: the interfaces if there are any, else the superclass.    *)
(* typeHeaders sees no enum.                                               *)
SplitTypeList(t) ==
  IF DeclaresNothing(t) THEN <<>> ELSE IF t.implements # <<>> THEN t.implements ELSE t.extends

(* Mutant of SourceImplementsType: a name without import is taken as is. *)
ImplementsAsWritten(t, target) == target \in ToSet(SplitTypeList(t))

(* sourceImplementsType: a name that means the target, or its simple name. *)
SourceImplementsType(t, target) ==
  \E n \in ToSet(SplitTypeList(t)) :
    ResolveTypeName(t, n) = target \/ n = Word(target.name)
------------------------------------------------------------------------------
(* The methods of a text's first type. *)
Method(m) == [name |-> m.name, returns |-> m.returns, params |-> m.params,
              static |-> m.static, generated |-> FALSE]
Plain(package, simple) ==
  LET n == [package |-> package, name |-> simple] IN [written |-> n, names |-> <<n>>]
Generated(name, returns, params, static) ==
  [name |-> name, returns |-> returns, params |-> params, static |-> static, generated |-> TRUE]

Annotated(t, words) == t.annotations \intersect words # {}

(* generatedSyntheticMethods: the accessors @Data, @Getter and @Setter of  *)
(* the class generate, those of one field after those of another, in the   *)
(* order in which the fields are iterated, and the builder.  Annotations   *)
(* of fields generate nothing here.                                        *)
Getter(t, f) ==
  Generated(AccessorName(IF Fields(t)[f].written.name = "boolean" THEN "is" ELSE "get", f),
            Fields(t)[f], <<>>, FALSE)
Setter(t, f) ==
  Generated(AccessorName("set", f), Plain(Empty, "void"), << [name |-> f, type |-> Fields(t)[f]] >>, FALSE)
Accessors(t) ==
  (IF Annotated(t, {"Data", "lombok.Data", "Getter", "lombok.Getter"}) THEN <<"get">> ELSE <<>>)
    \o (IF Annotated(t, {"Data", "lombok.Data", "Setter", "lombok.Setter"}) THEN <<"set">> ELSE <<>>)
Builder(t) ==
  LET outer == IF t.package = Empty THEN t.name ELSE t.package \o "." \o t.name
  IN IF Annotated(t, {"Builder", "lombok.Builder"}) /\ t.name # Empty
     THEN <<Generated("builder", Plain(outer, "Builder"), <<>>, TRUE)>> ELSE <<>>
GeneratedSyntheticMethods(t, order) ==
  LET kinds == Accessors(t)
      n == Len(kinds)
      Accessor(kind, f) == IF kind = "get" THEN Getter(t, f) ELSE Setter(t, f)
  IN [i \in 1..(Len(order) * n) |-> Accessor(kinds[1 + ((i - 1) % n)], order[1 + ((i - 1) \div n)])]
       \o Builder(t)

(* The elements of a sequence at some positions, in an order of the        *)
(* positions: each has as many before it as come before it in the order.   *)
Arranged(s, at, Before(_, _)) ==
  [k \in 1..Cardinality(at) |->
     s[CHOOSE i \in at : Cardinality({j \in at : Before(j, i)}) = k - 1]]
Selected(s, at) == Arranged(s, at, LAMBDA i, j : i < j)

(* The positions whose key no earlier one has, and what is at them. *)
Firsts(s, Key(_)) == {i \in DOMAIN s : \A j \in 1..(i - 1) : Key(s[j]) # Key(s[i])}
Deduped(s, Key(_)) == Selected(s, Firsts(s, Key))

(* What is shown of a method: what it returns and takes, as written. *)
MethodDetail(m) ==
  [type |-> m.returns.written,
   params |-> [i \in DOMAIN m.params |-> [type |-> m.params[i].type.written, name |-> m.params[i].name]]]

(* parseMethodCompletions, dedupeCompletionMethods: declared methods, then *)
(* generated ones.                                                         *)
Declared(t) ==
  LET lines == Selected(t.lines, Declares(t, {"method"}, Len(t.lines)))
  IN [i \in DOMAIN lines |-> Method(lines[i])]
Methods(t, order) ==
  Deduped(Declared(t) \o GeneratedSyntheticMethods(t, order), LAMBDA m : <<m.name, MethodDetail(m)>>)

(* methodByName: the first of that name. *)
MethodsNamed(methods, name) == SelectSeq(methods, LAMBDA m : m.name = name)
==============================================================================
