---------------------------- MODULE MCNavigation ----------------------------
EXTENDS Navigation

CONSTANTS controller, user, api

MCFiles == <<api, controller, user>>

N(package, name) == [package |-> package, name |-> name]
T(name) == [written |-> Word(name), names |-> <<Word(name)>>]
ListOf(name) == [written |-> Word("List<User>"), names |-> <<Word("List"), Word(name)>>]
Param(name, type) == [name |-> name, type |-> type]

Import(class) == [kind |-> "import", class |-> class]
Field(name, type) == [kind |-> "field", name |-> name, type |-> type]
Local(name, type) == [kind |-> "local", name |-> name, type |-> type]
MethodLine(name, params, returns, static) ==
  [kind |-> "method", name |-> name, params |-> params, returns |-> returns, static |-> static]
Access(receiver, member, target) ==
  [kind |-> "access", receiver |-> receiver, member |-> member, target |-> target]

Class(package, name, lines) ==
  [package |-> package, imports |-> <<>>, annotations |-> {}, name |-> name, heading |-> name,
   interface |-> FALSE, extends |-> <<>>, implements |-> <<>>, lines |-> lines]
Imports(classes) == [n \in {c.name : c \in classes} |-> CHOOSE c \in classes : c.name = n]

(* The document: with a local next to a parameter of the same type, and an *)
(* interface; and, edited, with imports of its own, of which one has a     *)
(* package named as a field is.                                            *)
Saved ==
  [Class("demo", "Controller",
     << Field("user", T("User")),
        MethodLine("run", <<Param("name", T("String"))>>, T("User"), FALSE),
        Local("other", T("String")),
        Access("user", "find", [type |-> T("User"), name |-> "found"]),
        [kind |-> "type", name |-> "Missing"],
        [kind |-> "scope", prefix |-> "", target |-> NoTarget] >>)
     EXCEPT !.implements = <<Word("Api")>>]
Edited ==
  [Class("demo", "Controller",
     << Import(N("other", "User")), Import(N("lib", "List")), Field("user", T("User")), Field("other", T("List")),
        Access("user", "find", NoTarget), Access("other", "size", NoTarget),
        Access("log", "info", NoTarget), Access("User", "of", NoTarget) >>)
     EXCEPT !.imports = Imports({N("other", "User"), N("lib", "List")}), !.annotations = {"Slf4j"}]

(* A class with generated accessors, and with a method whose name ends in  *)
(* another's, above that one, which is overloaded; the same, generic; an   *)
(* enum in another package.                                                *)
Data ==
  [Class("demo", "User",
     << Field("name", T("String")), Field("active", T("boolean")),
        MethodLine("refind", <<>>, T("User"), FALSE),
        MethodLine("find", <<Param("key", T("String"))>>, ListOf("User"), FALSE),
        MethodLine("find", <<>>, T("User"), FALSE),
        MethodLine("getName", <<>>, T("String"), FALSE) >>)
     EXCEPT !.annotations = {"Data", "Builder"}]
Generic == [Class("demo", "User", << MethodLine("find", <<>>, T("List"), FALSE) >>) EXCEPT !.heading = "User<T>"]
Enum == [Class("other", "User", << MethodLine("of", <<Param("key", T("String"))>>, T("User"), TRUE) >>)
           EXCEPT !.heading = "", !.implements = <<N("demo", "Api")>>]
Moved == [Class("other", "User", << MethodLine("of", <<Param("key", T("String"))>>, T("User"), TRUE) >>)
           EXCEPT !.implements = <<N("demo", "Api")>>, !.extends = <<Word("Base")>>]

(* An interface, and one of the same name in another package that imports. *)
Interface(package) ==
  [Class(package, "Api", << MethodLine("run", <<Param("name", T("String"))>>, T("User"), FALSE) >>)
     EXCEPT !.interface = TRUE]
Other ==
  [Interface("other") EXCEPT !.imports = Imports({N("demo", "User")}), !.lines = <<Import(N("demo", "User"))>> \o @]

MCTextsOf(f) ==
  CASE f = controller -> {Saved, Edited}
    [] f = user -> {Data, Moved}
    [] f = api -> {Interface("demo"), Other}

Workspace(c, u, a) == (controller :> c) @@ (user :> u) @@ (api :> a)
MCWorkspaces ==
  {Workspace(Saved, Data, Interface("demo")), Workspace(Edited, Moved, Other)}

(* The workspaces of WorkspaceTypesFound. *)
MCGenericTextsOf(f) == IF f = user THEN {Generic, Enum} ELSE MCTextsOf(f)
MCGenericWorkspaces == {Workspace(Saved, Generic, Interface("demo")), Workspace(Edited, Enum, Interface("demo"))}

ListSource == [Class("lib", "List", << MethodLine("of", <<>>, T("List"), TRUE), MethodLine("size", <<>>, T("int"), FALSE) >>)
                 EXCEPT !.interface = TRUE]
ArrayListSource == [Class("lib", "ArrayList", << MethodLine("size", <<>>, T("int"), FALSE) >>)
                      EXCEPT !.implements = <<Word("List")>>]
StringSource == Class("java.lang", "String", << MethodLine("length", <<>>, T("int"), FALSE) >>)
LoggerSource == [Class("org.slf4j", "Logger", << MethodLine("info", <<Param("message", T("String"))>>, T("void"), FALSE) >>)
                   EXCEPT !.interface = TRUE]
Sources == {ListSource, ArrayListSource, StringSource, LoggerSource}
MCLibrary == [c \in {ParsedClass(t) : t \in Sources} |-> CHOOSE t \in Sources : ParsedClass(t) = c]

MCMappers == {[class |-> N("demo", "Api"), method |-> "run"]}

MCAccessorName(prefix, f) == prefix \o (CASE f = "name" -> "Name" [] f = "active" -> "Active"
                                          [] f = "user" -> "User" [] f = "other" -> "Other")
MCLabels == <<"active", "builder", "find", "getActive", "getName", "info", "isActive", "key", "length",
              "message", "name", "of", "other", "refind", "run", "setActive", "setName", "size", "user">>

(* Details, as the strings they are: User(String name), List<User>. *)
Shows(type, params) == [type |-> type, params |-> params]
Takes(name) == << [type |-> Word("String"), name |-> name] >>
MCDetails ==
  << Shows(Word("List"), NoTarget), Shows(Word("List"), <<>>),
     Shows(Word("List<User>"), Takes("key")),
     Shows(Word("String"), NoTarget), Shows(Word("String"), <<>>),
     Shows(Word("User"), NoTarget), Shows(Word("User"), <<>>), Shows(Word("User"), Takes("key")), Shows(Word("User"), Takes("name")),
     Shows(Word("boolean"), NoTarget), Shows(Word("boolean"), <<>>),
     Shows(N("demo.User", "Builder"), <<>>),
     Shows(Word("int"), <<>>),
     Shows(Word("void"), Takes("message")), Shows(Word("void"), Takes("name")),
     Shows(Word("void"), << [type |-> Word("boolean"), name |-> "active"] >>) >>
MCStartsWith(label, prefix) == prefix = "" \/ label = prefix
MCRelated(m, n) == FALSE
MCLastSegment(package) == package
MCEndsIn(name, member) == name = "refind" /\ member = "find"
MCTargetScore(method, target) == IF method = "find" /\ target = "found" THEN 20 ELSE 0
=============================================================================
