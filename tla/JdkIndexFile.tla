----------------------------- MODULE JdkIndexFile -----------------------------
(***************************************************************************)
(* The JDK source index: buildJDKIndex of library_index.go, run once by    *)
(* every java-lsp process (ResolverCache has the protocol inside one), and *)
(* the file jdk-index.json all processes of a machine share.  A process    *)
(* reads the file and takes its entries if it parses, names the src.zip    *)
(* the process found and has entries; otherwise it lists that zip and      *)
(* writes the file with os.WriteFile, which truncates first and holds no   *)
(* lock.                                                                   *)
(***************************************************************************)
EXTENDS Naturals

CONSTANTS
  Servers,      \* java-lsp processes
  Zips,         \* src.zip paths, one per installed JDK
  Size,         \* zip |-> how many entries it has: the more, the longer
                \* the text of its index
  Nothing,      \* no zip
  MaxUpgrades,  \* bound: a JDK is replaced in place
  MaxRuns       \* bound: times a process starts

ASSUME JdkIndexAssumption ==
  /\ Nothing \notin Zips
  /\ Size \in [Zips -> Nat]
  /\ MaxUpgrades \in Nat /\ MaxRuns \in Nat

VARIABLES
  release,  \* zip |-> the release of the JDK at that path
  file,     \* the text of jdk-index.json
  home,     \* server |-> the src.zip it detected, or Nothing
  pc,       \* server |-> where it is
  draft,    \* server |-> entries listed from the zip: the release they are of
  loaded,   \* server |-> the entries r.jdkIndex holds: [zip, release], or Nothing
  runs      \* processes started so far

vars == <<release, file, home, pc, draft, loaded, runs>>

(* A text: the index of a zip, whole; or what two writers or a kill left,  *)
(* which does not parse.                                                   *)
Index(z, r) == [zip |-> z, release |-> r]
Garbled == [zip |-> Nothing, release |-> 0]
Parses(text) == text # Nothing /\ text # Garbled

Init ==
  /\ release = [z \in Zips |-> 1]
  /\ file = Nothing
  /\ home = [s \in Servers |-> Nothing]
  /\ pc = [s \in Servers |-> "down"]
  /\ draft = [s \in Servers |-> 0]
  /\ loaded = [s \in Servers |-> Nothing]
  /\ runs = 0

(* JAVA_HOME, or macOS's java_home, decides which JDK a process finds. *)
Start(s, z) ==
  /\ pc[s] = "down"
  /\ runs < MaxRuns
  /\ runs' = runs + 1
  /\ home' = [home EXCEPT ![s] = z]
  /\ pc' = [pc EXCEPT ![s] = "read"]
  /\ UNCHANGED <<release, file, draft, loaded>>

(* No src.zip is found: the index fails with ErrNotExist. *)
StartWithoutZip(s) ==
  /\ pc[s] = "down"
  /\ runs < MaxRuns
  /\ runs' = runs + 1
  /\ pc' = [pc EXCEPT ![s] = "ready"]
  /\ UNCHANGED <<release, file, home, draft, loaded>>

(* Mutant of Accepts: the zip the index names is not compared. *)
AcceptsAny(s) == Parses(file) /\ Size[file.zip] > 0

Accepts(s) == Parses(file) /\ file.zip = home[s] /\ Size[file.zip] > 0

(* Mutant of ReadIndex: a file that does not parse is being written, so    *)
(* wait for it.                                                            *)
ReadIndexWaits(s) ==
  /\ pc[s] = "read"
  /\ file # Garbled
  /\ IF Accepts(s)
     THEN pc' = [pc EXCEPT ![s] = "ready"] /\ loaded' = [loaded EXCEPT ![s] = file]
     ELSE pc' = [pc EXCEPT ![s] = "scan"] /\ UNCHANGED loaded
  /\ UNCHANGED <<release, file, home, draft, runs>>

ReadIndex(s) ==
  /\ pc[s] = "read"
  /\ IF Accepts(s)
     THEN pc' = [pc EXCEPT ![s] = "ready"] /\ loaded' = [loaded EXCEPT ![s] = file]
     ELSE pc' = [pc EXCEPT ![s] = "scan"] /\ UNCHANGED loaded
  /\ UNCHANGED <<release, file, home, draft, runs>>

ScanZip(s) ==
  /\ pc[s] = "scan"
  /\ draft' = [draft EXCEPT ![s] = release[home[s]]]
  /\ pc' = [pc EXCEPT ![s] = "truncate"]
  /\ UNCHANGED <<release, file, home, loaded, runs>>

(* The zip cannot be opened, which is the index's error. *)
ScanFails(s) ==
  /\ pc[s] = "scan"
  /\ pc' = [pc EXCEPT ![s] = "ready"]
  /\ UNCHANGED <<release, file, home, draft, loaded, runs>>

Truncate(s) ==
  /\ pc[s] = "truncate"
  /\ file' = Garbled
  /\ pc' = [pc EXCEPT ![s] = "write"]
  /\ UNCHANGED <<release, home, draft, loaded, runs>>

Kept(s) == [loaded EXCEPT ![s] = Index(home[s], draft[s])]

(* Mutant of Write: what is kept is the file as it is after the write. *)
WriteThenReload(s) ==
  /\ pc[s] = "write"
  /\ file' = IF Parses(file) /\ Size[file.zip] > Size[home[s]] THEN Garbled
             ELSE Index(home[s], draft[s])
  /\ loaded' = [loaded EXCEPT ![s] = file']
  /\ pc' = [pc EXCEPT ![s] = "ready"]
  /\ UNCHANGED <<release, home, draft, runs>>

(* Written from offset 0 on: the end of a longer text that another process *)
(* wrote since the truncation remains, and the whole does not parse.       *)
Write(s) ==
  /\ pc[s] = "write"
  /\ file' = IF Parses(file) /\ Size[file.zip] > Size[home[s]] THEN Garbled
             ELSE Index(home[s], draft[s])
  /\ loaded' = Kept(s)
  /\ pc' = [pc EXCEPT ![s] = "ready"]
  /\ UNCHANGED <<release, home, draft, runs>>

(* The error of os.WriteFile is dropped: the directory or the file cannot  *)
(* be made, or only a part is written.                                     *)
WriteFails(s) ==
  /\ pc[s] \in {"truncate", "write"}
  /\ file' = IF pc[s] = "write" THEN Garbled ELSE file
  /\ loaded' = Kept(s)
  /\ pc' = [pc EXCEPT ![s] = "ready"]
  /\ UNCHANGED <<release, home, draft, runs>>

(* A process ends, at whatever point it is. *)
Stop(s) ==
  /\ pc[s] # "down"
  /\ pc' = [pc EXCEPT ![s] = "down"]
  /\ home' = [home EXCEPT ![s] = Nothing]
  /\ draft' = [draft EXCEPT ![s] = 0]
  /\ loaded' = [loaded EXCEPT ![s] = Nothing]
  /\ UNCHANGED <<release, file, runs>>

(* A JDK is upgraded under the path it had. *)
Upgrade(z) ==
  /\ release[z] <= MaxUpgrades
  /\ release' = [release EXCEPT ![z] = @ + 1]
  /\ UNCHANGED <<file, home, pc, draft, loaded, runs>>

Build(s) == ReadIndex(s) \/ ScanZip(s) \/ ScanFails(s) \/ Truncate(s) \/ Write(s) \/ WriteFails(s)

Next ==
  \/ \E s \in Servers : (\E z \in Zips : Start(s, z)) \/ StartWithoutZip(s) \/ Build(s) \/ Stop(s)
  \/ \E z \in Zips : Upgrade(z)

(* A process that runs gets on with the index. *)
Spec == Init /\ [][Next]_vars /\ \A s \in Servers : WF_vars(Build(s))
------------------------------------------------------------------------------
Releases == 1..MaxUpgrades + 1
Indices == [zip : Zips, release : Releases]

(* Every variable has its type. *)
TypeOK ==
  /\ release \in [Zips -> Releases]
  /\ file \in Indices \union {Nothing, Garbled}
  /\ home \in [Servers -> Zips \union {Nothing}]
  /\ pc \in [Servers -> {"down", "read", "scan", "truncate", "write", "ready"}]
  /\ draft \in [Servers -> Releases \union {0}]
  /\ loaded \in [Servers -> Indices \union {Nothing}]
  /\ runs \in 0..MaxRuns

(* Whatever other processes do to the shared file, and wherever they are   *)
(* killed, a process works with a whole index, made from its own JDK.      *)
OwnIndexLoaded ==
  \A s \in Servers : loaded[s] # Nothing =>
    loaded[s].zip = home[s] /\ loaded[s].release \in 1..release[home[s]]

(* Nobody waits for another process: one that found a src.zip ends up with *)
(* an index, or with its error, even if the file it read was torn.         *)
BuildEnds == \A s \in Servers : pc[s] = "read" ~> pc[s] \in {"ready", "down"}
==============================================================================
