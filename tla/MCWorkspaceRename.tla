-------------------------- MODULE MCWorkspaceRename --------------------------
EXTENDS WorkspaceRename

CONSTANTS f1, f2, f3, x, y

MCFiles == <<f1, f2, f3>>

(* f1 in a project, f2 in a module of it, f3 generated into its build. *)
MCPath(f) ==
  CASE f = f1 -> <<"p", f1>>
    [] f = f2 -> <<"p", "m", f2>>
    [] f = f3 -> <<"p", "build", f3>>

MCFolders == {<<"p">>, <<"p", "m">>, <<"p", "build">>}

\* Without the project f1 is in no folder at all.
MCRootSets == {{<<"p", "m">>}, {<<"p">>, <<"p", "m">>}}

Line(names, braces, method) ==
  [names |-> names, signature |-> None, declares |-> None, braces |-> braces, method |-> method]
MethodLine(param, braces, method) ==
  [names |-> <<param>>, signature |-> {param}, declares |-> None, braces |-> braces, method |-> method]
FieldLine(name) ==
  [names |-> <<name>>, signature |-> None, declares |-> name, braces |-> <<>>, method |-> None]

Class == Line(<<>>, <<"{">>, None)
End(method) == Line(<<>>, <<"}">>, method)

(* Two methods with a parameter of the same name, the first with a     *)
(* local variable in a block; a field used in a method, which no method    *)
(* introduces.                                                             *)
Siblings == <<Class, MethodLine(x, <<"{">>, 1), [Line(<<y>>, <<"{", "}">>, 1) EXCEPT !.declares = y],
              Line(<<x, y>>, <<>>, 1), End(1), MethodLine(x, <<"{", "}">>, 2), End(None)>>
Fields == <<Class, FieldLine(x), MethodLine(y, <<"{">>, 1), Line(<<x>>, <<>>, 1), End(1), End(None)>>
MCTexts == {Siblings, Fields}

(* A method without a body before one that has one. *)
AbstractTexts ==
  {<<Class, MethodLine(x, <<>>, 1), MethodLine(x, <<"{">>, 2), Line(<<x>>, <<>>, 2), End(2), End(None)>>}

(* The theorem about local renames is about texts like the former. *)
ASSUME TextsTold == /\ \A t \in MCTexts : BodiesInPlace(t)
                    /\ \A t \in AbstractTexts : ~BodiesInPlace(t)
==============================================================================
