------------------------------ MODULE IndexStore ------------------------------
(***************************************************************************)
(* The persistent index: Analyze of pkg/engine/engine.go, AnalyzeWorkspace *)
(* of pkg/engine/workspace.go and the Pebble store they write to.  One     *)
(* process analyzes, a document of the editor or the whole workspace; the  *)
(* files change under it, a read or a commit may fail, and the process may *)
(* be killed and started again over the same store.                        *)
(***************************************************************************)
EXTENDS JavaClasses, Naturals, FiniteSets

CONSTANTS
  Files,     \* the .java files of the workspace, sorted: a sequence
  Classes,   \* qualified names
  Bodies,    \* the class bodies people write
  None,      \* no text, no class, no batch
  MaxEdits,  \* bound: how often files and open documents change
  MaxWalks   \* bound: how often AnalyzeWorkspace is called

ASSUME IndexStoreAssumption ==
  /\ Files \in Seq(ToSet(Files))
  /\ MaxEdits \in Nat /\ MaxWalks \in Nat
  /\ None \notin Bodies
  /\ \A b \in Bodies : IsBody(b) /\ ClassSnapshot(b) # None

Texts == [class : Classes, body : Bodies]

VARIABLES
  disk,         \* file |-> its text, or None when it cannot be read
  classes,      \* the store: qualified name |-> snapshot, or None
  references,   \* the store: the set of reference keys
  batch,        \* the text whose snapshot is staged for the next commit, or None
  walk,         \* where in Files those are AnalyzeWorkspace has still to read, or None
  merged,       \* the class snapshots it has collected, and returns in the end
  latest,       \* class |-> the body of its last commit, or None
  edits, walks

vars == <<disk, classes, references, batch, walk, merged, latest, edits, walks>>

Init ==
  /\ disk = [f \in ToSet(Files) |-> None]
  /\ classes = [c \in Classes |-> None]
  /\ references = {}
  /\ batch = None /\ walk = None /\ merged = <<>>
  /\ latest = [c \in Classes |-> None]
  /\ edits = 0 /\ walks = 0

(* The user creates, saves, breaks or deletes a file. *)
ChangeFile(f) ==
  /\ edits < MaxEdits
  /\ \E text \in Texts \union {None} : disk' = [disk EXCEPT ![f] = text]
  /\ edits' = edits + 1
  /\ UNCHANGED <<classes, references, batch, walk, merged, latest, walks>>

(* Analyze of an open document: parsed, and its batch filled. *)
AnalyzeDocument(text) ==
  /\ edits < MaxEdits
  /\ batch = None /\ walk = None
  /\ batch' = text
  /\ edits' = edits + 1
  /\ UNCHANGED <<disk, classes, references, walk, merged, latest, walks>>

(* AnalyzeWorkspace lists the files that are there now. *)
StartWalk ==
  /\ walks < MaxWalks
  /\ batch = None /\ walk = None
  /\ walk' = {i \in DOMAIN Files : disk[Files[i]] # None}
  /\ merged' = <<>>
  /\ walks' = walks + 1
  /\ UNCHANGED <<disk, classes, references, batch, latest, edits>>

Fails == walk' = None /\ batch' = None /\ merged' = <<>>

(* A file that went away since is an error, and nothing more is analyzed. *)
ReadFile ==
  /\ walk # None /\ batch = None
  /\ \E i \in walk :
       /\ \A k \in walk : i <= k
       /\ IF disk[Files[i]] = None THEN Fails
          ELSE /\ batch' = disk[Files[i]]
               /\ walk' = walk \ {i}
               /\ UNCHANGED merged
  /\ UNCHANGED <<disk, classes, references, latest, edits, walks>>

(* Mutants of Commit: only the references are set; only the classes are.  *)
CommitReferencesOnly ==
  /\ batch # None
  /\ references' = references \union References(batch.class, ClassSnapshot(batch.body))
  /\ latest' = [latest EXCEPT ![batch.class] = batch.body]
  /\ batch' = None
  /\ UNCHANGED <<disk, classes, walk, merged, edits, walks>>

CommitClassesOnly ==
  /\ batch # None
  /\ classes' = [classes EXCEPT ![batch.class] = ClassSnapshot(batch.body)]
  /\ latest' = [latest EXCEPT ![batch.class] = batch.body]
  /\ batch' = None
  /\ UNCHANGED <<disk, references, walk, merged, edits, walks>>

(* Store.Write commits the batch as a whole, synchronously.  Keys are set, *)
(* none is deleted.                                                        *)
Commit ==
  /\ batch # None
  /\ LET snapshot == ClassSnapshot(batch.body) IN
       /\ classes' = [classes EXCEPT ![batch.class] = snapshot]
       /\ references' = references \union References(batch.class, snapshot)
       /\ merged' = IF walk = None THEN merged
                    ELSE Append(merged, [class |-> batch.class, snapshot |-> snapshot])
  /\ latest' = [latest EXCEPT ![batch.class] = batch.body]
  /\ batch' = None
  /\ UNCHANGED <<disk, walk, edits, walks>>

(* Mutant of CommitFails: the walk goes on with the snapshot not stored. *)
CommitFailsUnnoticed ==
  /\ batch # None
  /\ merged' = IF walk = None THEN merged
               ELSE Append(merged, [class |-> batch.class, snapshot |-> ClassSnapshot(batch.body)])
  /\ batch' = None
  /\ UNCHANGED <<disk, classes, references, walk, latest, edits, walks>>

(* The error ends the walk, if there is one; Serve only logs it. *)
CommitFails ==
  /\ batch # None
  /\ IF walk = None THEN batch' = None /\ UNCHANGED <<walk, merged>> ELSE Fails
  /\ UNCHANGED <<disk, classes, references, latest, edits, walks>>

FinishWalk ==
  /\ walk = {} /\ batch = None
  /\ walk' = None
  /\ UNCHANGED <<disk, classes, references, batch, merged, latest, edits, walks>>

(* The process is killed and started again; a batch not committed is gone. *)
Restart ==
  /\ batch # None \/ walk # None
  /\ Fails
  /\ UNCHANGED <<disk, classes, references, latest, edits, walks>>

Next ==
  \/ \E f \in ToSet(Files) : ChangeFile(f)
  \/ \E text \in Texts : AnalyzeDocument(text)
  \/ StartWalk \/ ReadFile \/ Commit \/ CommitFails \/ FinishWalk \/ Restart

Spec == Init /\ [][Next]_vars
------------------------------------------------------------------------------
(* Every variable has its type. *)
TypeOK ==
  /\ disk \in [ToSet(Files) -> Texts \union {None}]
  /\ latest \in [Classes -> Bodies \union {None}]
  /\ DOMAIN classes = Classes
  /\ \A c \in Classes : (classes[c] = None) <=> (latest[c] = None)
  /\ \A r \in references : r.class \in Classes
  /\ batch \in Texts \union {None}
  /\ walk # None => walk \subseteq DOMAIN Files
  /\ edits \in 0..MaxEdits /\ walks \in 0..MaxWalks

(* Whatever was killed or failed on the way, every member the store lists  *)
(* for a class, declared or generated, has its reference in the store.     *)
MembersHaveReferences ==
  \A c \in Classes : classes[c] # None => References(c, classes[c]) \subseteq references

(* What AnalyzeWorkspace collects, and returns, is what it persisted: the  *)
(* last snapshot it lists for a class is the class in the store, though    *)
(* the files change while it reads them and two may declare one class.     *)
ReturnedWasPersisted ==
  walk # None =>
    \A i \in 1..Len(merged) :
      \/ classes[merged[i].class] = merged[i].snapshot
      \/ \E j \in (i + 1)..Len(merged) : merged[j].class = merged[i].class

(* How many of the first n members are of a kind. *)
Count(body, kind, n) == Cardinality({j \in 1..n : body[j].kind = kind})

(* The names are those of the members of a kind, in their order: the k-th  *)
(* is that of the k-th.                                                    *)
AsDeclared(names, kind, body) ==
  /\ Len(names) = Count(body, kind, Len(body))
  /\ \A i \in 1..Len(body) : body[i].kind = kind => names[Count(body, kind, i)] = body[i].name

(* The store lists the fields and methods of the class as last analyzed,   *)
(* all of them and in their order, nested types left out.                  *)
MembersAsDeclared ==
  \A c \in Classes : latest[c] # None =>
    /\ AsDeclared(classes[c].fields, "field", latest[c])
    /\ AsDeclared(classes[c].methods, "method", latest[c])

(* No generated getter doubles a declared method or another getter, and    *)
(* each is of a declared field that is annotated with Getter or followed   *)
(* by a member that is.                                                    *)
GettersJustified ==
  \A c \in Classes : latest[c] # None =>
    /\ IsInjective(classes[c].generated)
    /\ ToSet(classes[c].generated) \intersect ToSet(classes[c].methods) = {}
    /\ \A g \in ToSet(classes[c].generated) :
         \E i \in 1..Len(latest[c]) : \E j \in i..Len(latest[c]) :
           /\ latest[c][i].kind = "field" /\ GetterName(latest[c][i].name) = g
           /\ Contains(latest[c][j].annotations, Getter)

HasGetter(c, m) == Contains(classes[c].methods \o classes[c].generated, GetterName(m.name))

(* The last annotated member of a class keeps its annotations: if it is a  *)
(* field with Getter, the class has the getter.                            *)
LastGetterGenerated ==
  \A c \in Classes : latest[c] # None =>
    \A i \in 1..Len(latest[c]) :
      LET m == latest[c][i] IN
        (/\ m.kind = "field" /\ Contains(m.annotations, Getter)
         /\ \A j \in (i + 1)..Len(latest[c]) : latest[c][j].annotations = <<>>)
        => HasGetter(c, m)

(* DESIGN.md:3, "@Getter produces a getXXX() function": every field with   *)
(* the annotation has its getter in the index.                             *)
EveryGetterGenerated ==
  \A c \in Classes : latest[c] # None =>
    \A m \in ToSet(latest[c]) :
      m.kind = "field" /\ Contains(m.annotations, Getter) => HasGetter(c, m)
==============================================================================
