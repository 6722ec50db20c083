------------------------- MODULE MCDependencySources -------------------------
EXTENDS DependencySources, TLC

CONSTANTS s1, s2, m1, m2, j1, j2, y1, y2, y3, y4

(* m1 uses both jars, m2 only the second. *)
MCClasspath == [m \in Modules |-> IF m = m1 THEN <<j1, j2>> ELSE <<j2>>]
OneJar == [m \in Modules |-> <<j2>>]

(* y4 is a javax type that a dependency brings and the JDK does not have. *)
MCClassesIn == [j \in Archives |-> IF j = j1 THEN {y1} ELSE IF j = j2 THEN {y2, y4} ELSE {y3}]
MCSourcesIn == MCClassesIn

(* A src.zip without the JDK type, which is decompiled. *)
NoJdkSources == [j \in Archives |-> IF j = Jdk THEN {} ELSE MCClassesIn[j]]
MCJdkNamed == {y3, y4}

Symmetry == Permutations({s1, s2})
==============================================================================
