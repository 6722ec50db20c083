-------------------------- MODULE JdkIndexFileProofs --------------------------
(***************************************************************************)
(* Proofs about JdkIndexFile, for any number of processes, JDKs, releases  *)
(* and restarts.  A loaded index is the process's own although the file    *)
(* belongs to nobody: what is loaded from the file was compared with the   *)
(* process's zip when it was read, and what is loaded from the zip was     *)
(* listed by the process, so that nothing need be known of who wrote the   *)
(* file.  That a build ends (BuildEnds) is liveness and stays with TLC.    *)
(***************************************************************************)
EXTENDS JdkIndexFile, TLAPS

(* A process between its start and its last write has found a zip. *)
BuilderHasZip ==
  \A s \in Servers : pc[s] \in {"read", "scan", "truncate", "write"} => home[s] \in Zips

(* What it has listed is a release its zip has had. *)
DraftFromZip ==
  \A s \in Servers : pc[s] \in {"truncate", "write"} => draft[s] \in 1..release[home[s]]

(* It holds no entries until its build has ended. *)
LoadedWhenReady == \A s \in Servers : loaded[s] # Nothing => pc[s] = "ready"

(* A file that parses is the index of a release its zip has had. *)
FileFromZip == Parses(file) => file.release \in 1..release[file.zip]

IInv ==
  /\ TypeOK
  /\ BuilderHasZip
  /\ DraftFromZip
  /\ LoadedWhenReady
  /\ FileFromZip
  /\ OwnIndexLoaded
------------------------------------------------------------------------------
(* A text that parses is an index; an index read back has the parts it was *)
(* made of.                                                                *)
LEMMA ParsedIsIndex == ASSUME TypeOK, Parses(file) PROVE file \in Indices
BY DEF TypeOK, Parses

LEMMA IndexParts ==
  ASSUME NEW z \in Zips, NEW r \in Releases
  PROVE  Index(z, r) \in Indices /\ Index(z, r).zip = z /\ Index(z, r).release = r
BY DEF Index, Indices

(* The invariant holds before any process has started. *)
LEMMA InitIInv == Init => IInv
<1> SUFFICES ASSUME Init PROVE IInv
  OBVIOUS
<1> USE JdkIndexAssumption DEF Init
<1>1. TypeOK
  BY DEF TypeOK, Releases
<1>2. BuilderHasZip /\ DraftFromZip /\ LoadedWhenReady /\ OwnIndexLoaded
  BY DEF BuilderHasZip, DraftFromZip, LoadedWhenReady, OwnIndexLoaded
<1>3. FileFromZip
  BY DEF FileFromZip, Parses
<1>4. QED BY <1>1, <1>2, <1>3 DEF IInv

(* Starting and stopping a process: the file keeps what it had, whatever   *)
(* point of its build a killed process had reached.                        *)
LEMMA StartIInv ==
  ASSUME IInv, NEW s \in Servers,
         (\E z \in Zips : Start(s, z)) \/ StartWithoutZip(s) \/ Stop(s)
  PROVE  IInv'
<1> USE JdkIndexAssumption DEF IInv, Start, StartWithoutZip, Stop
<1>1. TypeOK'
  BY DEF TypeOK
<1>2. BuilderHasZip'
  BY DEF TypeOK, BuilderHasZip
<1>3. DraftFromZip'
  BY DEF TypeOK, DraftFromZip
<1>4. LoadedWhenReady'
  BY DEF TypeOK, LoadedWhenReady
<1>5. FileFromZip'
  BY DEF FileFromZip, Parses, Garbled
<1>6. OwnIndexLoaded'
  BY DEF TypeOK, LoadedWhenReady, OwnIndexLoaded
<1>7. QED BY <1>1, <1>2, <1>3, <1>4, <1>5, <1>6

(* Reading the file: its entries are taken only if they are of the         *)
(* process's zip, and then FileFromZip says which releases they can be of. *)
LEMMA ReadIInv ==
  ASSUME IInv, NEW s \in Servers, ReadIndex(s)
  PROVE  IInv'
<1> USE DEF IInv, ReadIndex
<1>1. Accepts(s) => file \in Indices /\ file.zip = home[s] /\ file.release \in 1..release[home[s]]
  BY ParsedIsIndex DEF Accepts, FileFromZip
<1>2. TypeOK'
  BY <1>1 DEF TypeOK
<1>3. BuilderHasZip'
  BY DEF TypeOK, BuilderHasZip
<1>4. DraftFromZip'
  BY DEF TypeOK, DraftFromZip
<1>5. LoadedWhenReady'
  BY DEF TypeOK, LoadedWhenReady
<1>6. FileFromZip'
  BY DEF FileFromZip, Parses, Garbled
<1>7. OwnIndexLoaded'
  BY <1>1 DEF TypeOK, OwnIndexLoaded
<1>8. QED BY <1>2, <1>3, <1>4, <1>5, <1>6, <1>7

(* Listing the zip, or failing to: the draft is of the release it has now. *)
LEMMA ScanIInv ==
  ASSUME IInv, NEW s \in Servers, ScanZip(s) \/ ScanFails(s)
  PROVE  IInv'
<1> USE DEF IInv, ScanZip, ScanFails
<1>1. home[s] \in Zips /\ release[home[s]] \in Releases
  BY DEF TypeOK, BuilderHasZip
<1>2. TypeOK'
  BY <1>1 DEF TypeOK
<1>3. BuilderHasZip'
  BY DEF TypeOK, BuilderHasZip
<1>4. DraftFromZip'
  BY <1>1, JdkIndexAssumption DEF TypeOK, DraftFromZip, Releases
<1>5. LoadedWhenReady'
  BY DEF TypeOK, LoadedWhenReady
<1>6. FileFromZip'
  BY DEF FileFromZip, Parses, Garbled
<1>7. OwnIndexLoaded'
  BY DEF TypeOK, OwnIndexLoaded
<1>8. QED BY <1>2, <1>3, <1>4, <1>5, <1>6, <1>7

(* Truncating and writing: the file becomes whole or stops parsing, and    *)
(* the process keeps the entries it listed, whether or not the file does.  *)
LEMMA WriteIInv ==
  ASSUME IInv, NEW s \in Servers, Truncate(s) \/ Write(s) \/ WriteFails(s)
  PROVE  IInv'
<1> USE DEF IInv, Truncate, Write, WriteFails, Kept
<1>1. /\ home[s] \in Zips
      /\ draft[s] \in 1..release[home[s]]
      /\ draft[s] \in Releases
  BY JdkIndexAssumption DEF TypeOK, BuilderHasZip, DraftFromZip, Releases
<1> DEFINE own == Index(home[s], draft[s])
<1>2. own \in Indices /\ own.zip = home[s] /\ own.release = draft[s]
  BY <1>1, IndexParts
<1> HIDE DEF own
<1>3. file' \in {file, Garbled, own} /\ loaded' \in {loaded, [loaded EXCEPT ![s] = own]}
  BY DEF own
<1>4. pc' \in {[pc EXCEPT ![s] = "write"], [pc EXCEPT ![s] = "ready"]}
  OBVIOUS
<1>5. TypeOK'
  <2>1. file' \in Indices \union {Nothing, Garbled}
    BY <1>2, <1>3 DEF TypeOK
  <2>2. loaded' \in [Servers -> Indices \union {Nothing}]
    BY <1>2, <1>3 DEF TypeOK
  <2>3. QED BY <1>4, <2>1, <2>2 DEF TypeOK
<1>6. BuilderHasZip'
  BY DEF TypeOK, BuilderHasZip
<1>7. DraftFromZip'
  BY DEF TypeOK, DraftFromZip
<1>8. LoadedWhenReady'
  BY DEF TypeOK, LoadedWhenReady
<1>9. FileFromZip'
  BY <1>1, <1>2, <1>3 DEF FileFromZip, Parses, Garbled
<1>10. OwnIndexLoaded'
  BY <1>1, <1>2, <1>3 DEF TypeOK, OwnIndexLoaded
<1>11. QED BY <1>5, <1>6, <1>7, <1>8, <1>9, <1>10

(* A JDK is upgraded: the releases its zip has had only grow. *)
LEMMA UpgradeIInv ==
  ASSUME IInv, NEW z \in Zips, Upgrade(z)
  PROVE  IInv'
<1> USE JdkIndexAssumption DEF IInv, Upgrade
<1>1. /\ release' \in [Zips -> Releases]
      /\ \A y \in Zips : 1..release[y] \subseteq 1..release'[y]
  BY DEF TypeOK, Releases
<1>2. TypeOK'
  BY <1>1 DEF TypeOK
<1>3. BuilderHasZip'
  BY DEF BuilderHasZip
<1>4. DraftFromZip'
  BY <1>1 DEF BuilderHasZip, DraftFromZip
<1>5. LoadedWhenReady'
  BY DEF LoadedWhenReady
<1>6. FileFromZip'
  <2>1. Parses(file) => file.zip \in Zips
    BY ParsedIsIndex DEF Indices
  <2>2. QED BY <1>1, <2>1 DEF FileFromZip, Parses, Garbled
<1>7. OwnIndexLoaded'
  <2>1. \A s \in Servers : loaded[s] # Nothing => loaded[s].zip \in Zips
    BY DEF TypeOK, Indices
  <2>2. QED BY <1>1, <2>1 DEF OwnIndexLoaded
<1>8. QED BY <1>2, <1>3, <1>4, <1>5, <1>6, <1>7

(* No step of any process, and no upgrade, breaks the invariant. *)
LEMMA StepIInv == IInv /\ [Next]_vars => IInv'
<1> SUFFICES ASSUME IInv, [Next]_vars PROVE IInv'
  OBVIOUS
<1>1. CASE UNCHANGED vars
  BY <1>1 DEF vars, IInv, TypeOK, BuilderHasZip, DraftFromZip, LoadedWhenReady,
     FileFromZip, OwnIndexLoaded, Parses, Garbled
<1>2. ASSUME NEW s \in Servers,
             (\E z \in Zips : Start(s, z)) \/ StartWithoutZip(s) \/ Build(s) \/ Stop(s)
      PROVE  IInv'
  BY <1>2, StartIInv, ReadIInv, ScanIInv, WriteIInv DEF Build
<1>3. ASSUME NEW z \in Zips, Upgrade(z) PROVE IInv'
  BY <1>3, UpgradeIInv
<1>4. QED BY <1>1, <1>2, <1>3 DEF Next

(* In every reachable state the inductive invariant holds. *)
LEMMA Invariance == Spec => []IInv
BY InitIInv, StepIInv, PTL DEF Spec
------------------------------------------------------------------------------
(* Every variable has its type, for all values of the constants. *)
THEOREM TypeCorrect == Spec => []TypeOK
<1>1. IInv => TypeOK
  BY DEF IInv
<1>2. QED BY <1>1, Invariance, PTL

(* Whatever other processes do to the shared index file, and wherever they *)
(* are killed, the entries a process has loaded are a whole index made     *)
(* from its own JDK, of a release that JDK has had.                        *)
THEOREM OwnIndex == Spec => []OwnIndexLoaded
<1>1. IInv => OwnIndexLoaded
  BY DEF IInv
<1>2. QED BY <1>1, Invariance, PTL
==============================================================================
