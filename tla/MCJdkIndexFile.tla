---------------------------- MODULE MCJdkIndexFile ----------------------------
EXTENDS JdkIndexFile

CONSTANTS jdk17, jdk21, jdkEmpty

(* The newer JDK has more classes; the third one has no classes, so its    *)
(* index is written and never taken.                                       *)
MCSize == [z \in Zips |-> CASE z = jdk17 -> 1 [] z = jdk21 -> 2 [] z = jdkEmpty -> 0]
==============================================================================
