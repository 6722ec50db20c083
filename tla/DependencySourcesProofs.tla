----------------------- MODULE DependencySourcesProofs -----------------------
(***************************************************************************)
(* Proofs about DependencySources, for any number of processes, modules,   *)
(* jars and types and any classpaths.  Two arguments meet in the           *)
(* invariant: where a file comes from (a request chooses a jar of the      *)
(* module's classpath, so the module recorded with the file can resolve    *)
(* the file's own type), and what the file holds between the write of one  *)
(* process and the next step of another.                                   *)
(***************************************************************************)
EXTENDS DependencySources, WellFoundedInduction, TLAPS

(* A nonempty set of numbers has a least one. *)
LEMMA LeastNumber ==
  ASSUME NEW T, T \subseteq Nat, T # {}
  PROVE  \E x \in T : \A y \in T : x <= y
<1>1. IsWellFoundedOn(OpToRel(<, Nat), Nat)
  BY NatLessThanWellFounded, Zenon
<1>2. PICK x \in T : \A y \in T : <<y, x>> \notin OpToRel(<, Nat)
  BY <1>1, WFMin, Zenon
<1>3. \A y \in T : ~(y < x)
  BY <1>2 DEF OpToRel
<1>4. QED BY <1>3

------------------------------------------------------------------------------
(* A request at hand, with the parts Starts gives it. *)
Jobs == [module : Modules \union {None}, path : Paths, why : {"definition", "members"},
         step : Steps, clash : BOOLEAN]

JobTyped == job \in [Servers -> Jobs \union {None}]

(* The source jars kept with a module's jar list are jars of that list. *)
CapturedOnClasspath ==
  \A s \in Servers, m \in Modules : captured[s][m] # None => captured[s][m] \subseteq OnClasspath(m)

(* Type y of file p may be recorded as coming from module m. *)
MayComeFrom(p, m) == Jar(p) # Jdk /\ Type(p) \in Reachable(m)

(* A request works for the module whose classpath its file was chosen      *)
(* from, and for none when the file is the JDK's.                          *)
JobFromModule ==
  \A s \in Servers : job[s] # None =>
    IF job[s].module = None THEN Jar(job[s].path) = Jdk ELSE MayComeFrom(job[s].path, job[s].module)

OriginFromModule ==
  \A s \in Servers, p \in Paths : origins[s][p] # None => MayComeFrom(p, origins[s][p])

OpenedHasOrigin ==
  \A s \in Servers, p \in Paths : opened[s][p] # None => origins[s][p] # None

IInv ==
  /\ TypeOK
  /\ JobTyped
  /\ CapturedOnClasspath
  /\ JobFromModule
  /\ OriginFromModule
  /\ OpenedHasOrigin
  /\ ReturnedFileWhole
------------------------------------------------------------------------------
(* The first jar of a classpath among S is on the classpath and in S. *)
LEMMA FirstOnClasspath ==
  ASSUME NEW m \in Modules, NEW S, S \intersect OnClasspath(m) # {}
  PROVE  First(m, S) \in S \intersect OnClasspath(m)
<1> DEFINE I == {i \in 1..Len(Classpath[m]) : Classpath[m][i] \in S}
<1>1. I \subseteq Nat /\ I # {}
  BY DependencyAssumption DEF OnClasspath
<1>2. \E i \in I : \A k \in I : i <= k
  BY <1>1, LeastNumber
<1> DEFINE least == CHOOSE i \in I : \A k \in I : i <= k
<1>3. least \in I
  BY <1>2
<1>4. First(m, S) = Classpath[m][least]
  BY DEF First
<1>5. QED BY <1>3, <1>4 DEF OnClasspath

LEMMA ClasspathOfJars == ASSUME NEW m \in Modules PROVE OnClasspath(m) \subseteq Jars
BY DependencyAssumption DEF OnClasspath

(* The parts of a path are what it was made of. *)
LEMMA PathParts ==
  ASSUME NEW kind \in {"sources", "javap"}, NEW j \in Archives, NEW y \in Types
  PROVE  /\ <<kind, j, y>> \in Paths
         /\ Jar(<<kind, j, y>>) = j
         /\ Type(<<kind, j, y>>) = y
BY DEF Paths, Jar, Type

(* The source jars a request considers, remembered or looked for now. *)
LEMMA SourceJarsOnClasspath ==
  ASSUME TypeOK, CapturedOnClasspath, NEW s \in Servers, NEW m \in Modules
  PROVE  SourceJarsOf(s, m) \subseteq OnClasspath(m) /\ SourceJarsOf(s, m) \subseteq Jars
BY ClasspathOfJars DEF TypeOK, CapturedOnClasspath, SourceJarsOf

(* The file chosen for a type some jar of the classpath has comes from     *)
(* such a jar, whether it is a source file or a decompiled class.          *)
LEMMA ChosenMayComeFrom ==
  ASSUME TypeOK, CapturedOnClasspath, NEW s \in Servers, NEW m \in Modules,
         NEW y \in Types, y \in Reachable(m)
  PROVE  Chosen(s, m, y) \in Paths /\ MayComeFrom(Chosen(s, m, y), m)
<1> DEFINE withSource == {j \in SourceJarsOf(s, m) : y \in SourcesIn[j]}
           withClass == {j \in OnClasspath(m) : y \in ClassesIn[j]}
<1>1. withSource \subseteq OnClasspath(m)
  BY SourceJarsOnClasspath
<1>2. withClass # {} /\ withClass \subseteq OnClasspath(m)
  BY DEF Reachable
<1>3. withSource # {} => First(m, withSource) \in withSource
  BY <1>1, FirstOnClasspath
<1>4. First(m, withClass) \in withClass
  BY <1>2, FirstOnClasspath
<1>5. \A j \in OnClasspath(m) : j \in Jars /\ j # Jdk /\ j \in Archives
  BY ClasspathOfJars, DependencyAssumption DEF Archives
<1>6. \A j \in withSource \union withClass : y \in ClassesIn[j]
  BY <1>1, <1>5, DependencyAssumption
<1>7. \E kind \in {"sources", "javap"}, j \in withSource \union withClass : Chosen(s, m, y) = <<kind, j, y>>
  BY <1>3, <1>4 DEF Chosen
<1>8. PICK kind \in {"sources", "javap"}, j \in withSource \union withClass : Chosen(s, m, y) = <<kind, j, y>>
  BY <1>7
<1>9. j \in OnClasspath(m) /\ y \in ClassesIn[j]
  BY <1>1, <1>6
<1>10. Type(Chosen(s, m, y)) = y /\ Jar(Chosen(s, m, y)) = j /\ Chosen(s, m, y) \in Paths
  BY <1>5, <1>8, <1>9, PathParts
<1>11. QED BY <1>5, <1>9, <1>10 DEF MayComeFrom, Reachable
------------------------------------------------------------------------------
(* The invariant holds before any request. *)
LEMMA InitIInv == Init => IInv
<1> SUFFICES ASSUME Init PROVE IInv
  OBVIOUS
<1> USE DEF Init
<1>1. TypeOK /\ JobTyped
  BY DEF TypeOK, JobTyped, Contents
<1>2. CapturedOnClasspath /\ JobFromModule /\ ReturnedFileWhole
  BY DEF CapturedOnClasspath, JobFromModule, ReturnedFileWhole
<1>3. OriginFromModule /\ OpenedHasOrigin
  BY DEF OriginFromModule, OpenedHasOrigin
<1>4. QED BY <1>1, <1>2, <1>3 DEF IInv

(* What a job says that starts on the file p for module m: a job that goes *)
(* straight to "register" reuses a file that is not empty.                 *)
LEMMA StartsJob ==
  ASSUME IInv, NEW s \in Servers, NEW m \in Modules \union {None}, NEW p \in Paths,
         NEW why \in {"definition", "members"}, Starts(s, m, p, why), UNCHANGED files,
         IF m = None THEN Jar(p) = Jdk ELSE MayComeFrom(p, m)
  PROVE  JobTyped' /\ JobFromModule' /\ ReturnedFileWhole'
<1> DEFINE new == [module |-> m, path |-> p, why |-> why, step |-> FirstStep(p), clash |-> FALSE]
<1>1. new \in Jobs
  BY DEF Jobs, FirstStep, Steps
<1>2. /\ new.module = m /\ new.path = p /\ new.step = FirstStep(p)
  OBVIOUS
<1> HIDE DEF new
<1>3. job' = [job EXCEPT ![s] = new]
  BY DEF Starts, new
<1>4. JobTyped'
  BY <1>1, <1>3 DEF IInv, JobTyped
<1>5. JobFromModule'
  BY <1>2, <1>3 DEF IInv, JobTyped, JobFromModule
<1>6. ReturnedFileWhole'
  <2>1. new.step \in {"register", "parse"} =>
          Kind(p) = "javap" /\ files[p] \in {"partial", "whole"}
    BY <1>2 DEF FirstStep
  <2>2. QED BY <1>2, <1>3, <2>1 DEF IInv, JobTyped, ReturnedFileWhole
<1>7. QED BY <1>4, <1>5, <1>6

(* A request, for a JDK type or for one of a dependency: what is kept of   *)
(* the jar list are jars of the module's classpath, and the job's file may *)
(* come from the job's module.                                             *)
LEMMA RequestIInv ==
  ASSUME IInv, NEW s \in Servers, NEW from \in Froms(s), NEW y \in Types,
         NEW why \in {"definition", "members"},
         RequestJdkType(s, from, y, why) \/ RequestType(s, from, y, why)
  PROVE  IInv'
<1>1. JobTyped' /\ JobFromModule' /\ ReturnedFileWhole' /\ CapturedOnClasspath'
      /\ captured' \in [Servers -> [Modules -> (SUBSET Jars) \union {None}]]
  <2>1. CASE RequestJdkType(s, from, y, why)
    <3> USE <2>1 DEF RequestJdkType, memory
    <3>1. PICK kind \in JdkKinds(y) : Starts(s, None, <<kind, Jdk, y>>, why)
      OBVIOUS
    <3>2. <<kind, Jdk, y>> \in Paths /\ Jar(<<kind, Jdk, y>>) = Jdk
      BY PathParts DEF JdkKinds, Archives
    <3>3. JobTyped' /\ JobFromModule' /\ ReturnedFileWhole'
      BY <3>1, <3>2, StartsJob
    <3>4. CapturedOnClasspath' /\ captured' \in [Servers -> [Modules -> (SUBSET Jars) \union {None}]]
      BY DEF IInv, TypeOK, CapturedOnClasspath
    <3>5. QED BY <3>3, <3>4
  <2>2. CASE RequestType(s, from, y, why)
    <3> DEFINE m == ModuleOf(s, from)
    <3> USE <2>2 DEF RequestType
    <3>1. m \in Modules /\ m # None
      BY DEF IInv, TypeOK, Froms, ModuleOf, OpenedHasOrigin
    <3>2. captured' = [captured EXCEPT ![s][m] = SourceJarsOf(s, m)]
      OBVIOUS
    <3>3. SourceJarsOf(s, m) \subseteq OnClasspath(m) /\ SourceJarsOf(s, m) \subseteq Jars
      BY <3>1, SourceJarsOnClasspath DEF IInv
    <3>4. CapturedOnClasspath' /\ captured' \in [Servers -> [Modules -> (SUBSET Jars) \union {None}]]
      BY <3>1, <3>2, <3>3 DEF IInv, TypeOK, CapturedOnClasspath
    <3>5. CASE y \in Reachable(m)
      <4>1. Chosen(s, m, y) \in Paths /\ MayComeFrom(Chosen(s, m, y), m)
        BY <3>1, <3>5, ChosenMayComeFrom DEF IInv
      <4>2. Starts(s, m, Chosen(s, m, y), why) /\ UNCHANGED files
        BY <3>5
      <4>3. JobTyped' /\ JobFromModule' /\ ReturnedFileWhole'
        BY <3>1, <4>1, <4>2, StartsJob
      <4>4. QED BY <3>4, <4>3
    <3>6. CASE y \notin Reachable(m)
      <4>1. UNCHANGED <<job, files>>
        BY <3>6
      <4>2. JobTyped' /\ JobFromModule' /\ ReturnedFileWhole'
        BY <4>1 DEF IInv, JobTyped, JobFromModule, ReturnedFileWhole
      <4>3. QED BY <3>4, <4>2
    <3>7. QED BY <3>5, <3>6
  <2>3. QED BY <2>1, <2>2
<1>2. UNCHANGED <<sourceJars, files, origins, opened>>
  BY DEF RequestJdkType, RequestType, memory
<1>3. TypeOK'
  BY <1>1, <1>2 DEF IInv, TypeOK, JobTyped, Jobs
<1>4. OriginFromModule' /\ OpenedHasOrigin'
  BY <1>2 DEF IInv, OriginFromModule, OpenedHasOrigin
<1>5. QED BY <1>1, <1>3, <1>4 DEF IInv

(* A write, or a truncation, by the process s: every other job about to    *)
(* return that file is marked, and no job changes its file or its module.  *)
LEMMA OverwritesJobs ==
  ASSUME IInv, NEW s \in Servers, job[s] # None, NEW next, Overwrites(s, next),
         next \in Jobs \union {None},
         next # None => next.path = job[s].path /\ next.module = job[s].module,
         NEW text \in Contents, files' = [files EXCEPT ![job[s].path] = text],
         next # None /\ next.step \in {"register", "parse"} => text = "whole"
  PROVE  /\ JobTyped'
         /\ files' \in [Paths -> Contents]
         /\ JobFromModule'
         /\ ReturnedFileWhole'
<1>1. \A t \in Servers \ {s} :
        job'[t] = IF job[t] # None /\ job[t].path = job[s].path /\ job[t].step \in {"register", "parse"}
                  THEN [job[t] EXCEPT !.clash = TRUE] ELSE job[t]
  BY DEF Overwrites
<1>2. job'[s] = next /\ DOMAIN job' = Servers /\ job' = [t \in Servers |-> job'[t]]
  BY DEF Overwrites
<1>3. job[s].path \in Paths
  BY DEF IInv, TypeOK
<1>4. ASSUME NEW t \in Servers \ {s}, job'[t] # None
      PROVE  /\ job[t] # None
             /\ job'[t] \in Jobs
             /\ job'[t].path = job[t].path
             /\ job'[t].module = job[t].module
             /\ job'[t].step = job[t].step
             /\ job[t].clash \/ (job[t].path = job[s].path /\ job[t].step \in {"register", "parse"})
                  => job'[t].clash
  <2>1. job[t] # None => job[t] \in Jobs
    BY DEF IInv, JobTyped
  <2>2. CASE job[t] # None /\ job[t].path = job[s].path /\ job[t].step \in {"register", "parse"}
    BY <1>1, <2>1, <2>2 DEF Jobs
  <2>3. CASE ~(job[t] # None /\ job[t].path = job[s].path /\ job[t].step \in {"register", "parse"})
    BY <1>1, <1>4, <2>1, <2>3
  <2>4. QED BY <2>2, <2>3
<1>5. JobTyped'
  <2>1. \A t \in Servers : job'[t] \in Jobs \union {None}
    BY <1>2, <1>4
  <2>2. QED BY <1>2, <2>1 DEF JobTyped
<1>6. files' \in [Paths -> Contents]
  BY <1>3 DEF IInv, TypeOK
<1>7. JobFromModule'
  BY <1>2, <1>4 DEF IInv, JobFromModule
<1>8. ReturnedFileWhole'
  <2>1. files'[job[s].path] = text
    BY <1>3 DEF IInv, TypeOK
  <2>2. ASSUME NEW t \in Servers \ {s}, job'[t] # None, job'[t].step \in {"register", "parse"}
        PROVE  \/ files'[job'[t].path] = "whole"
               \/ Kind(job'[t].path) = "javap" /\ files'[job'[t].path] = "partial"
               \/ job'[t].clash
    <3>1. CASE job[t].path = job[s].path
      BY <1>4, <2>2, <3>1
    <3>2. CASE job[t].path # job[s].path
      <4>1. job[t].path \in Paths /\ files'[job[t].path] = files[job[t].path]
        BY <1>4, <2>2, <3>2 DEF IInv, TypeOK
      <4>2. QED BY <1>4, <2>2, <4>1 DEF IInv, ReturnedFileWhole
    <3>3. QED BY <3>1, <3>2
  <2>3. QED BY <1>2, <2>1, <2>2 DEF ReturnedFileWhole
<1>9. QED BY <1>5, <1>6, <1>7, <1>8

(* The three outcomes of os.WriteFile. *)
LEMMA WriteIInv ==
  ASSUME IInv, NEW s \in Servers, Truncate(s) \/ Write(s) \/ WriteFails(s)
  PROVE  IInv'
<1>1. job[s] # None /\ job[s] \in Jobs /\ job[s].step \in {"truncate", "write"}
  BY DEF IInv, JobTyped, Truncate, Write, WriteFails
<1>2. UNCHANGED <<sourceJars, captured, origins, opened>>
  BY DEF Truncate, Write, WriteFails, memory
<1>3. /\ JobTyped'
      /\ files' \in [Paths -> Contents]
      /\ JobFromModule'
      /\ ReturnedFileWhole'
  <2>1. CASE Truncate(s)
    <3> DEFINE next == [job[s] EXCEPT !.step = "write"]
    <3>1. next \in Jobs /\ next.path = job[s].path /\ next.module = job[s].module /\ next.step = "write"
      BY <1>1 DEF Jobs, Steps
    <3>2. Overwrites(s, next) /\ files' = [files EXCEPT ![job[s].path] = "empty"] /\ "empty" \in Contents
      BY <2>1 DEF Truncate, Contents
    <3> HIDE DEF next
    <3>3. QED BY <1>1, <3>1, <3>2, OverwritesJobs
  <2>2. CASE Write(s)
    <3> DEFINE next == [job[s] EXCEPT !.step = "register"]
    <3>1. next \in Jobs /\ next.path = job[s].path /\ next.module = job[s].module
      BY <1>1 DEF Jobs, Steps
    <3>2. Overwrites(s, next) /\ files' = [files EXCEPT ![job[s].path] = "whole"] /\ "whole" \in Contents
      BY <2>2 DEF Write, Contents
    <3> HIDE DEF next
    <3>3. QED BY <1>1, <3>1, <3>2, OverwritesJobs
  <2>3. CASE WriteFails(s) /\ job[s].step = "write"
    <3>1. Overwrites(s, None) /\ files' = [files EXCEPT ![job[s].path] = "partial"] /\ "partial" \in Contents
      BY <2>3 DEF WriteFails, Contents
    <3>2. QED BY <1>1, <3>1, OverwritesJobs
  <2>4. CASE WriteFails(s) /\ job[s].step # "write"
    <3>1. job' = [job EXCEPT ![s] = None] /\ files' = files
      BY <2>4 DEF WriteFails
    <3>2. QED BY <3>1 DEF IInv, TypeOK, JobTyped, JobFromModule, ReturnedFileWhole
  <2>5. QED BY <2>1, <2>2, <2>3, <2>4
<1>4. TypeOK'
  BY <1>2, <1>3 DEF IInv, TypeOK, JobTyped, Jobs
<1>5. CapturedOnClasspath' /\ OriginFromModule' /\ OpenedHasOrigin'
  BY <1>2 DEF IInv, CapturedOnClasspath, OriginFromModule, OpenedHasOrigin
<1>6. QED BY <1>3, <1>4, <1>5 DEF IInv

(* The origin is recorded before the path is handed out, and a file of the *)
(* JDK gets none.                                                          *)
LEMMA RegisterIInv ==
  ASSUME IInv, NEW s \in Servers, Register(s)
  PROVE  IInv'
<1> DEFINE p == job[s].path
           m == job[s].module
           show == job[s].why = "definition"
<1>1. job[s] # None /\ job[s] \in Jobs /\ job[s].step = "register" /\ p \in Paths /\ m \in Modules \union {None}
  BY DEF IInv, JobTyped, Jobs, Register
<1>2. /\ origins' = IF m = None THEN origins ELSE [origins EXCEPT ![s][p] = m]
      /\ opened' = IF show THEN [opened EXCEPT ![s][p] = m] ELSE opened
      /\ job' = IF show THEN [job EXCEPT ![s] = None] ELSE [job EXCEPT ![s].step = "parse"]
      /\ UNCHANGED <<sourceJars, files, captured>>
  BY DEF Register
<1>3. m # None => MayComeFrom(p, m)
  BY <1>1 DEF IInv, JobFromModule
<1> HIDE DEF show
<1>4. JobTyped'
  BY <1>1, <1>2 DEF IInv, JobTyped, Jobs, Steps
<1>5. TypeOK'
  <2>1. origins' \in [Servers -> [Paths -> Modules \union {None}]]
    BY <1>1, <1>2 DEF IInv, TypeOK
  <2>2. opened' \in [Servers -> [Paths -> Modules \union {None}]]
    BY <1>1, <1>2 DEF IInv, TypeOK
  <2>3. QED BY <1>2, <1>4, <2>1, <2>2 DEF IInv, TypeOK, JobTyped, Jobs
<1>6. CapturedOnClasspath'
  BY <1>2 DEF IInv, CapturedOnClasspath
<1>7. ASSUME NEW t \in Servers, job'[t] # None
      PROVE  /\ job[t] # None /\ job'[t].path = job[t].path /\ job'[t].module = job[t].module
             /\ job'[t].clash = job[t].clash
             /\ job'[t].step \in {"register", "parse"} => job[t].step \in {"register", "parse"}
  <2>1. CASE t = s
    BY <1>1, <1>2, <1>7, <2>1 DEF IInv, JobTyped, Jobs
  <2>2. CASE t # s
    BY <1>2, <1>7, <2>2 DEF IInv, JobTyped
  <2>3. QED BY <2>1, <2>2
<1>8. JobFromModule'
  BY <1>7 DEF IInv, JobFromModule
<1>9. ReturnedFileWhole'
  BY <1>2, <1>7 DEF IInv, ReturnedFileWhole
<1>10. OriginFromModule'
  BY <1>1, <1>2, <1>3 DEF IInv, TypeOK, OriginFromModule
<1>11. OpenedHasOrigin'
  BY <1>1, <1>2 DEF IInv, TypeOK, OpenedHasOrigin
<1>12. QED BY <1>4, <1>5, <1>6, <1>8, <1>9, <1>10, <1>11 DEF IInv

(* Parsing ends a job; a restart forgets a process's memory as a whole;    *)
(* sources that are downloaded change nothing that is remembered.          *)
LEMMA OtherIInv ==
  ASSUME IInv,
         (\E s \in Servers : Parse(s) \/ Restart(s)) \/ (\E j \in Jars : DownloadSources(j))
  PROVE  IInv'
<1>1. ASSUME NEW s \in Servers, Parse(s) PROVE IInv'
  <2> USE <1>1 DEF Parse, memory, IInv
  <2>1. TypeOK' /\ JobTyped'
    BY DEF TypeOK, JobTyped
  <2>2. JobFromModule' /\ ReturnedFileWhole'
    BY DEF JobTyped, JobFromModule, ReturnedFileWhole
  <2>3. CapturedOnClasspath' /\ OriginFromModule' /\ OpenedHasOrigin'
    BY DEF CapturedOnClasspath, OriginFromModule, OpenedHasOrigin
  <2>4. QED BY <2>1, <2>2, <2>3
<1>2. ASSUME NEW s \in Servers, Restart(s) PROVE IInv'
  <2> USE <1>2 DEF Restart, IInv
  <2>1. TypeOK' /\ JobTyped'
    BY DEF TypeOK, JobTyped
  <2>2. JobFromModule' /\ ReturnedFileWhole'
    BY DEF JobTyped, JobFromModule, ReturnedFileWhole
  <2>3. CapturedOnClasspath'
    BY DEF TypeOK, CapturedOnClasspath
  <2>4. OriginFromModule' /\ OpenedHasOrigin'
    BY DEF TypeOK, OriginFromModule, OpenedHasOrigin
  <2>5. QED BY <2>1, <2>2, <2>3, <2>4
<1>3. ASSUME NEW j \in Jars, DownloadSources(j) PROVE IInv'
  <2> USE <1>3 DEF DownloadSources, memory, IInv
  <2>1. TypeOK' /\ JobTyped' /\ JobFromModule' /\ ReturnedFileWhole'
    BY DEF TypeOK, JobTyped, JobFromModule, ReturnedFileWhole
  <2>2. CapturedOnClasspath' /\ OriginFromModule' /\ OpenedHasOrigin'
    BY DEF CapturedOnClasspath, OriginFromModule, OpenedHasOrigin
  <2>3. QED BY <2>1, <2>2
<1>4. QED BY <1>1, <1>2, <1>3

(* No step of any process breaks the invariant. *)
LEMMA StepIInv == IInv /\ [Next]_vars => IInv'
<1> SUFFICES ASSUME IInv, [Next]_vars PROVE IInv'
  OBVIOUS
<1>1. CASE UNCHANGED vars
  BY <1>1 DEF vars, memory, IInv, TypeOK, JobTyped, CapturedOnClasspath, JobFromModule,
     OriginFromModule, OpenedHasOrigin, ReturnedFileWhole
<1>2. ASSUME NEW s \in Servers, NEW from \in Froms(s), NEW y \in Types,
             NEW why \in {"definition", "members"},
             RequestJdkType(s, from, y, why) \/ RequestType(s, from, y, why)
      PROVE  IInv'
  BY <1>2, RequestIInv
<1>3. ASSUME NEW s \in Servers,
             Truncate(s) \/ Write(s) \/ WriteFails(s) \/ Register(s) \/ Parse(s) \/ Restart(s)
      PROVE  IInv'
  BY <1>3, WriteIInv, RegisterIInv, OtherIInv
<1>4. ASSUME NEW j \in Jars, DownloadSources(j) PROVE IInv'
  BY <1>4, OtherIInv
<1>5. QED BY <1>1, <1>2, <1>3, <1>4 DEF Next

(* In every reachable state the inductive invariant holds. *)
LEMMA Invariance == Spec => []IInv
BY InitIInv, StepIInv, PTL DEF Spec
------------------------------------------------------------------------------
(* Every variable has its type, for all values of the constants. *)
THEOREM TypeCorrect == Spec => []TypeOK
<1>1. IInv => TypeOK
  BY DEF IInv
<1>2. QED BY <1>1, Invariance, PTL

(* A file that is about to be returned, or parsed for good, is whole, but  *)
(* for the part a failed write left that decompileClass reuses and for a   *)
(* file another process is rewriting at that moment.                       *)
THEOREM ReturnedWhole == Spec => []ReturnedFileWhole
<1>1. IInv => ReturnedFileWhole
  BY DEF IInv
<1>2. QED BY <1>1, Invariance, PTL

(* Every dependency file shown to the editor has a module recorded whose   *)
(* classpath has the file's own type, and no file of the JDK has any.      *)
THEOREM ShownHasOrigin == Spec => []ShownFileHasOrigin
<1>1. IInv => ShownFileHasOrigin
  BY DEF IInv, OriginFromModule, OpenedHasOrigin, MayComeFrom, ShownFileHasOrigin
<1>2. QED BY <1>1, Invariance, PTL
==============================================================================
