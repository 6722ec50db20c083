-------------------------- MODULE DependencySources --------------------------
(***************************************************************************)
(* How a dependency or JDK type becomes a file an editor can show:         *)
(* materializeTypeSource and what it calls.  All java-lsp processes of a   *)
(* machine share one cache directory under os.TempDir(); nothing locks it, *)
(* os.WriteFile truncates before it writes, and a process may be killed    *)
(* between any two steps.  What a process remembers of the files (their    *)
(* origin, their parsed form, the classpaths) is in its memory only.       *)
(* Jars with a type in common have different base names, so that a jar and *)
(* a type name one file.  The machine has a JDK with java.base.jmod.       *)
(***************************************************************************)
EXTENDS Naturals, Sequences, FiniteSets

CONSTANTS
  Servers,     \* java-lsp processes
  Modules,     \* Maven modules of the workspace
  Jars,        \* dependency jars
  Jdk,         \* the JDK, read like a jar: src.zip and java.base.jmod
  Types,
  JdkNamed,    \* the types named java.*, javax.*, jdk.* or sun.*
  Classpath,   \* module |-> its jars in the order mvn lists them
  ClassesIn,   \* jar |-> types with a class entry
  SourcesIn,   \* jar |-> types with an entry in its -sources.jar
  None         \* no module, no job, no captured classpath

Archives == Jars \union {Jdk}
JdkTypes == ClassesIn[Jdk]
Paths == {"sources", "javap"} \X Archives \X Types
Kind(p) == p[1]
Jar(p) == p[2]
Type(p) == p[3]

ASSUME DependencyAssumption ==
  /\ Jdk \notin Jars
  /\ Classpath \in [Modules -> Seq(Jars)]
  /\ ClassesIn \in [Archives -> SUBSET Types]
  /\ SourcesIn \in [Archives -> SUBSET Types]
  /\ \A j \in Archives : SourcesIn[j] \subseteq ClassesIn[j]
  /\ JdkTypes \subseteq JdkNamed
  /\ None \notin Modules \union Paths

VARIABLES
  sourceJars,  \* the jars whose -sources.jar is on disk
  files,       \* path |-> what the shared cache directory holds there
  captured,    \* server |-> module |-> source jars seen when mvn ran, or None
  origins,     \* server |-> r.sourceOrigins: path |-> module, or None
  job,         \* server |-> the request at hand, or None
  opened       \* history: server |-> path |-> module the editor came from

memory == <<captured, origins, opened>>
vars == <<sourceJars, files, memory, job>>

Contents == {"absent", "empty", "partial", "whole"}
Steps == {"truncate", "write", "register", "parse"}

OnClasspath(m) == {Classpath[m][i] : i \in 1..Len(Classpath[m])}
Reachable(m) == UNION {ClassesIn[j] : j \in OnClasspath(m)}

Init ==
  /\ sourceJars \in SUBSET Jars
  /\ files = [p \in Paths |-> "absent"]
  /\ captured = [s \in Servers |-> [m \in Modules |-> None]]
  /\ origins = [s \in Servers |-> [p \in Paths |-> None]]
  /\ opened = [s \in Servers |-> [p \in Paths |-> None]]
  /\ job = [s \in Servers |-> None]

(* moduleForPath: a file of a module, or a cached file with an origin. *)
ModuleOf(s, from) == IF from \in Modules THEN from ELSE origins[s][from]

(* The source jars of m as its jar list has them: sourceJarPathFor looked  *)
(* for them when mvn ran, and the list is kept.                            *)
SourceJarsOf(s, m) == IF captured[s][m] = None THEN sourceJars \intersect OnClasspath(m)
                      ELSE captured[s][m]

First(m, S) == LET I == {i \in 1..Len(Classpath[m]) : Classpath[m][i] \in S}
               IN Classpath[m][CHOOSE i \in I : \A k \in I : i <= k]

(* The source jars of the whole classpath come before the class jars. *)
Chosen(s, m, y) ==
  LET withSource == {j \in SourceJarsOf(s, m) : y \in SourcesIn[j]}
      withClass == {j \in OnClasspath(m) : y \in ClassesIn[j]}
  IN IF withSource # {} THEN <<"sources", First(m, withSource), y>>
     ELSE <<"javap", First(m, withClass), y>>

(* Mutant of FirstStep: a file that is there is kept, empty or not. *)
ReuseAnyFile(p) == IF Kind(p) = "javap" /\ files[p] # "absent" THEN "register" ELSE "truncate"

(* extractSourceFile always writes; decompileClass keeps a file that is    *)
(* there and not empty.                                                    *)
FirstStep(p) == IF Kind(p) = "javap" /\ files[p] \in {"partial", "whole"}
                THEN "register" ELSE "truncate"

Starts(s, m, p, why) ==
  job' = [job EXCEPT ![s] = [module |-> m, path |-> p, why |-> why, step |-> FirstStep(p),
                              clash |-> FALSE]]

(* A JDK type is extracted if the index lists it, else decompiled: src.zip *)
(* does not have it, or the index could not be built.                      *)
JdkKinds(y) == {"javap"} \union IF y \in SourcesIn[Jdk] THEN {"sources"} ELSE {}

(* A definition, or a lookup of the type's members, asked for in `from`.   *)
(* The JDK is tried before the module of `from` is even looked for.        *)
RequestJdkType(s, from, y, why) ==
  /\ job[s] = None
  /\ y \in JdkTypes
  /\ \E kind \in JdkKinds(y) : Starts(s, None, <<kind, Jdk, y>>, why)
  /\ UNCHANGED <<sourceJars, files, memory>>

(* What is named like a type of the JDK is never looked for in a jar.  mvn *)
(* runs for the module even if the type then is in none of its jars.       *)
RequestType(s, from, y, why) ==
  LET m == ModuleOf(s, from) IN
  /\ job[s] = None
  /\ y \notin JdkNamed
  /\ m # None
  /\ captured' = [captured EXCEPT ![s][m] = SourceJarsOf(s, m)]
  /\ IF y \in Reachable(m) THEN Starts(s, m, Chosen(s, m, y), why) ELSE UNCHANGED job
  /\ UNCHANGED <<sourceJars, files, origins, opened>>

(* The history field `clash` of a job: another process overwrote the file  *)
(* it is about to return.                                                  *)
Overwrites(s, next) ==
  job' = [t \in Servers |->
    IF t = s THEN next
    ELSE IF job[t] # None /\ job[t].path = job[s].path /\ job[t].step \in {"register", "parse"}
    THEN [job[t] EXCEPT !.clash = TRUE]
    ELSE job[t]]

(* os.WriteFile opens with O_TRUNC ... *)
Truncate(s) ==
  /\ job[s] # None /\ job[s].step = "truncate"
  /\ files' = [files EXCEPT ![job[s].path] = "empty"]
  /\ Overwrites(s, [job[s] EXCEPT !.step = "write"])
  /\ UNCHANGED <<sourceJars, memory>>

(* ... and then writes: all of it, or, when the disk is full, a part that  *)
(* stays while the error is returned.  It may fail to open the file, too.  *)
Write(s) ==
  /\ job[s] # None /\ job[s].step = "write"
  /\ files' = [files EXCEPT ![job[s].path] = "whole"]
  /\ Overwrites(s, [job[s] EXCEPT !.step = "register"])
  /\ UNCHANGED <<sourceJars, memory>>

WriteFails(s) ==
  /\ job[s] # None /\ job[s].step \in {"truncate", "write"}
  /\ IF job[s].step = "write"
     THEN files' = [files EXCEPT ![job[s].path] = "partial"] /\ Overwrites(s, None)
     ELSE UNCHANGED files /\ job' = [job EXCEPT ![s] = None]
  /\ UNCHANGED <<sourceJars, memory>>

(* Mutants of Register: the jar takes the module's place; the origin of a  *)
(* reused or shown file is not recorded.                                   *)
RegisterJar(s) ==
  /\ job[s] # None /\ job[s].step = "register"
  /\ LET p == job[s].path IN
       /\ origins' = [origins EXCEPT ![s][p] = Jar(p)]
       /\ job' = [job EXCEPT ![s].step = "parse"]
  /\ UNCHANGED <<sourceJars, files, captured, opened>>

RegisterNothing(s) ==
  /\ job[s] # None /\ job[s].step = "register"
  /\ LET p == job[s].path
         show == job[s].why = "definition"
     IN /\ opened' = IF show THEN [opened EXCEPT ![s][p] = job[s].module] ELSE opened
        /\ job' = IF show THEN [job EXCEPT ![s] = None] ELSE [job EXCEPT ![s].step = "parse"]
  /\ UNCHANGED <<sourceJars, files, captured, origins>>

(* registerSourceOrigin ignores a nil module; then the path is returned,   *)
(* to the editor or to typeInfoForType.                                    *)
Register(s) ==
  /\ job[s] # None /\ job[s].step = "register"
  /\ LET p == job[s].path
         m == job[s].module
         show == job[s].why = "definition"
     IN /\ origins' = IF m = None THEN origins ELSE [origins EXCEPT ![s][p] = m]
        /\ opened' = IF show THEN [opened EXCEPT ![s][p] = m] ELSE opened
        /\ job' = IF show THEN [job EXCEPT ![s] = None] ELSE [job EXCEPT ![s].step = "parse"]
  /\ UNCHANGED <<sourceJars, files, captured>>

(* parseTypeInfoFromSource reads the file; what it makes of it is kept for *)
(* the rest of the server's life (ResolverCache).                          *)
Parse(s) ==
  /\ job[s] # None /\ job[s].step = "parse"
  /\ job' = [job EXCEPT ![s] = None]
  /\ UNCHANGED <<sourceJars, files, memory>>

(* The process ends and the editor starts another one. *)
Restart(s) ==
  /\ job' = [job EXCEPT ![s] = None]
  /\ captured' = [captured EXCEPT ![s] = [m \in Modules |-> None]]
  /\ origins' = [origins EXCEPT ![s] = [p \in Paths |-> None]]
  /\ opened' = [opened EXCEPT ![s] = [p \in Paths |-> None]]
  /\ UNCHANGED <<sourceJars, files>>

(* Somebody downloads the sources of a dependency. *)
DownloadSources(j) ==
  /\ j \notin sourceJars
  /\ sourceJars' = sourceJars \union {j}
  /\ UNCHANGED <<files, memory, job>>

Froms(s) == Modules \union {p \in Paths : opened[s][p] # None}

Next ==
  \/ \E s \in Servers :
       \/ \E from \in Froms(s), y \in Types, why \in {"definition", "members"} :
            RequestJdkType(s, from, y, why) \/ RequestType(s, from, y, why)
       \/ Truncate(s) \/ Write(s) \/ WriteFails(s) \/ Register(s) \/ Parse(s) \/ Restart(s)
  \/ \E j \in Jars : DownloadSources(j)

Spec == Init /\ [][Next]_vars
------------------------------------------------------------------------------
(* Every variable has its type. *)
TypeOK ==
  /\ sourceJars \subseteq Jars
  /\ files \in [Paths -> Contents]
  /\ captured \in [Servers -> [Modules -> (SUBSET Jars) \union {None}]]
  /\ origins \in [Servers -> [Paths -> Modules \union {None}]]
  /\ opened \in [Servers -> [Paths -> Modules \union {None}]]
  /\ \A s \in Servers : job[s] # None =>
       /\ job[s].path \in Paths
       /\ job[s].module \in Modules \union {None}
       /\ job[s].step \in Steps

(* A file about to be returned, or parsed for good, is whole, be it just   *)
(* written or reused by decompileClass: what a killed process left         *)
(* truncated is never reused, and what a failed write left is reused only  *)
(* by decompileClass.  Another process rewriting the file at that moment   *)
(* is the one exception.                                                   *)
ReturnedFileWhole ==
  \A s \in Servers : job[s] # None /\ job[s].step \in {"register", "parse"} =>
    \/ files[job[s].path] = "whole"
    \/ Kind(job[s].path) = "javap" /\ files[job[s].path] = "partial"
    \/ job[s].clash

(* From every dependency file a server showed since it started, follow-up  *)
(* requests find a module, and the file's own type is on its classpath.  A *)
(* file of the JDK has none, which would pull the dependencies of the      *)
(* module that asked first into the JDK's scope.                           *)
ShownFileHasOrigin ==
  \A s \in Servers, p \in Paths :
    /\ opened[s][p] # None => /\ origins[s][p] # None
                              /\ Type(p) \in Reachable(origins[s][p])
    /\ Jar(p) = Jdk => origins[s][p] = None

(* "Extracted source/javap files remember their originating module         *)
(* classpath so follow-up navigation/completion can continue resolving     *)
(* imports": what the module that led to a file could resolve, a request   *)
(* in that file can resolve.                                               *)
OriginClasspathRemembered ==
  \A s \in Servers, p \in Paths :
    opened[s][p] # None => Reachable(opened[s][p]) \subseteq Reachable(origins[s][p])
==============================================================================
